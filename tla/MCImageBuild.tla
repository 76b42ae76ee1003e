----------------------------- MODULE MCImageBuild -----------------------------
(* An API image of one source file and its bytecode, a provisioner with one   *)
(* more file, a script and a tool, and images with one fault each.            *)
EXTENDS ImageBuild

Entry(kind, mode, content) ==
    [kind |-> kind, uid |-> 0, gid |-> 0, user |-> {"r", "x"}, group |-> {"r", "x"},
     other |-> mode, to |-> [absolute |-> TRUE, path |-> << >>], content |-> content]
Dir == Entry("dir", {"r", "x"}, << >>)
Text(content) == Entry("file", {"r"}, content)
Program(content) == Entry("file", {"r", "x"}, content)
Link(absolute, path) ==
    [Entry("link", {"r", "x"}, << >>) EXCEPT !.to = [absolute |-> absolute, path |-> path]]

Api == <<"app", "src", "api">>
Pyc == <<"app", "src", "__pycache__", "api">>
Job == <<"app", "scripts", "job">>
Provisioner == <<"app", "src", "provisioner">>
Kubectl == <<"usr", "bin", "kubectl">>
Python == <<"usr", "bin", "python">>
Venv == <<"app", ".venv", "python">>

MCCopies == [api |-> Api :> <<"api">>,
             provisioner |-> Provisioner :> <<"provisioner">> @@ Job :> <<"job">>]
MCPublic == {Api}
MCComplete == {Api, Provisioner}
MCHelpers == {Job}
MCTools == Kubectl :> <<"kubectl">>
MCInterpreter == Python
MCVenvPython == Venv
MCRoots == {<<"app", "src">>, <<"app", ".venv">>}

ApiFiles ==
    (<<"app">> :> Dir) @@ (<<"app", "src">> :> Dir) @@ (<<"app", ".venv">> :> Dir)
    @@ (<<"app", "src", "__pycache__">> :> Dir)
    @@ (<<"usr">> :> Dir) @@ (<<"usr", "bin">> :> Dir)
    @@ (Api :> Text(<<"api">>)) @@ (Pyc :> Text(Compiled(<<"api">>)))
    @@ (Python :> Program(<<"python">>))
    @@ (Venv :> Link(FALSE, <<"..", "..", "usr", "bin", "python">>))
ProvisionerFiles ==
    (<<"app", "scripts">> :> Dir) @@ (Job :> Text(<<"job">>))
    @@ (Provisioner :> Text(<<"provisioner">>)) @@ (Kubectl :> Program(<<"kubectl">>))
    @@ ApiFiles

MCFiles ==
    [api |-> ApiFiles,
     provisioner |-> ProvisionerFiles,
     \* built before the last edit of its source
     edited |-> (Api :> Text(<<"older">>)) @@ ApiFiles,
     \* compiled from another source than the one beside it
     compiled |-> (Pyc :> Text(Compiled(<<"older">>))) @@ ApiFiles,
     \* its sources lie in a directory only root may enter
     closed |-> (<<"app", "src">> :> Entry("dir", {"r"}, << >>)) @@ ApiFiles,
     \* the environment's interpreter is a link in a circle
     circle |-> (Venv :> Link(FALSE, <<"python">>)) @@ ApiFiles,
     \* a file of the operator was in the build context
     state |-> (<<"app", ".env">> :> Text(<<"key">>)) @@ ApiFiles,
     \* a tool nobody but root may run
     tool |-> (Kubectl :> Text(<<"kubectl">>)) @@ ProvisionerFiles]
MCOutputs == [api |-> {"api", "compiled", "closed"},
              provisioner |-> {"provisioner", "tool"}]

-----------------------------------------------------------------------------
(* The first command recovers an older build where there is one, else builds. *)
MCInit ==
    /\ Init
    /\ cmd[1].mode = (IF runs = << >> THEN "build" ELSE "recover")

\* On the images above the inspection's walk of a path grants no more than the kernel's.
\* It might through a link that leads over another and back with "..", which the
\* inspection takes back by name: PromotedRunsAsCommitted is checked without such images.
ASSUME ImagesAssumption ==
    \A i \in DOMAIN Files : \A name \in DOMAIN Files[i] :
        /\ Reads(Files[i], name) => Opens(Files[i], name, {"r"})
        /\ Executes(Files[i], name) => Opens(Files[i], name, {"r", "x"})

MCSpec == MCInit /\ [][Next]_vars /\ Fairness

=============================================================================
