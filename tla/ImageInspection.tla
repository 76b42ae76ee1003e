--------------------------- MODULE ImageInspection ---------------------------
(***************************************************************************)
(* inspect_export of scripts/operations/azure/image_inspection.py: what a  *)
(* verification run asks of the file system of a built image, which it     *)
(* exports and never starts.                                               *)
(*                                                                         *)
(* A path is a sequence of names; an image is a function from its paths to *)
(* entries [kind, uid, gid, user, group, other, to, content].  A content   *)
(* is a sequence, so that a source and what it compiles to differ.  Hashes *)
(* are the contents they stand for.                                        *)
(***************************************************************************)
EXTENDS Naturals, Sequences, TLC

CONSTANTS
    Copies,       \* per Dockerfile, the files its COPY lines place: path -> content
    PublicFiles,  \* the Python sources the public image may hold
    Complete,     \* every Python source of the selected revision
    Helpers,      \* the scripts a provisioner runs
    Tools,        \* the pinned tools of the provisioner: path -> content
    Interpreter, VenvPython,
    Roots,        \* the directories the runtime reads: sources, environment, libraries
    LinkLimit     \* links one path may lead through (40)

Components == {"api", "provisioner"}
RuntimeUser == 10001

StartsWith(name, root) == Len(root) <= Len(name) /\ SubSeq(name, 1, Len(root)) = root
AppSource(name) == StartsWith(name, <<"app", "src">>)
\* What the inspection compares file by file: everything of the application
\* but its installed dependencies.
Scoped(name) == StartsWith(name, <<"app">>) /\ ~ StartsWith(name, <<"app", ".venv">>)
IsFile(entry) == entry.kind = "file"
Bytecode(name) == Scoped(name) /\ \E i \in 1 .. Len(name) - 1 : name[i] = "__pycache__"

-----------------------------------------------------------------------------
(* What the selected source places in an image. *)

\* The provisioner is built on the API's image and copies over it.
Expected(component) ==
    IF component = "api" THEN Copies["api"] ELSE Copies["provisioner"] @@ Copies["api"]

SourceAllowed(component) ==
    LET python == {name \in DOMAIN Expected(component) : AppSource(name)} IN
    IF component = "api" THEN python = PublicFiles
    ELSE python = Complete /\ Helpers \subseteq DOMAIN Expected(component)

ExpectedTools(component) == IF component = "provisioner" THEN Tools ELSE << >>

\* The source of __pycache__/x.pyc in an image.
SourceOf(name) ==
    LET i == CHOOSE i \in DOMAIN name : name[i] = "__pycache__"
    IN SubSeq(name, 1, i - 1) \o SubSeq(name, i + 1, Len(name))
Compiled(content) == <<"compiled">> \o content

\* a slip: a compiled file needs a source, whatever it was compiled from
BytecodeHasSource(component, name, entry) ==
    SourceOf(name) \in DOMAIN Expected(component) /\ IsFile(entry)

BytecodeMatches(component, name, entry) ==
    /\ SourceOf(name) \in DOMAIN Expected(component)
    /\ IsFile(entry)
    /\ entry.content = Compiled(Expected(component)[SourceOf(name)])

-----------------------------------------------------------------------------
(* Who may read what: the rights of user and group 10001, along links. *)

RuntimePermissions(entry) ==
    CASE entry.uid = RuntimeUser -> entry.user
      [] entry.uid # RuntimeUser /\ entry.gid = RuntimeUser -> entry.group
      [] OTHER -> entry.other

Path == Seq(STRING)

\* posixpath.normpath of an absolute path: ".." takes back the name before it.
Normal[done \in Path, rest \in Path] ==
    IF rest = << >> THEN done
    ELSE IF Head(rest) # ".." THEN Normal[Append(done, Head(rest)), Tail(rest)]
    ELSE Normal[IF done = << >> THEN done ELSE SubSeq(done, 1, Len(done) - 1), Tail(rest)]

LinkTarget(resolved, entry) ==
    Normal[IF entry.kind = "hard" \/ entry.to.absolute THEN << >> ELSE resolved, entry.to.path]

\* A link starts the walk again from the root, along the path it names.
Accessible(image, name, needed, executable) ==
    LET walk[resolved \in Path, remaining \in Path, links \in Nat] ==
            LET current == Append(resolved, Head(remaining))
                rest == Tail(remaining)
            IN /\ current \in DOMAIN image
               /\ LET entry == image[current]
                      path == LinkTarget(resolved, entry) \o rest
                  IN IF entry.kind \in {"hard", "link"}
                     THEN links < LinkLimit /\ path # << >> /\ walk[<< >>, path, links + 1]
                     ELSE IF rest # << >>
                     THEN /\ entry.kind = "dir"
                          /\ "x" \in RuntimePermissions(entry)
                          /\ walk[current, rest, links]
                     ELSE /\ executable => IsFile(entry)
                          /\ needed \cup (IF entry.kind = "dir" THEN {"x"} ELSE {})
                               \subseteq RuntimePermissions(entry)
    IN walk[<< >>, name, 0]

Reads(image, name) == Accessible(image, name, {"r"}, FALSE)
Executes(image, name) == Accessible(image, name, {"r", "x"}, TRUE)
Lists(image, name) == Accessible(image, name, {"r", "x"}, FALSE)

RuntimeWorksIn(image, component) ==
    /\ \A name \in DOMAIN Expected(component) : Reads(image, name)
    /\ Lists(image, <<"app">>)
    /\ \A name \in DOMAIN image : (\E root \in Roots : StartsWith(name, root)) =>
          IF image[name].kind = "dir" THEN Lists(image, name) ELSE Reads(image, name)
    /\ \A name \in DOMAIN ExpectedTools(component) \cup {Interpreter, VenvPython} :
          Executes(image, name)

-----------------------------------------------------------------------------
(* The inspection. *)

Privileged(name) ==
    \/ \E i \in {"scripts", "infra"} : StartsWith(name, <<"app", i>>)
    \/ StartsWith(name, <<"app", "src", "provisioner">>)

OperatorState(name) ==
    \/ \E state \in {".state", ".azure"} : StartsWith(name, <<"app", state>>)
    \/ \E i \in DOMAIN name : name[i] = ".env"

ProperExecutable(entry) ==
    IsFile(entry) /\ "x" \in entry.user \cup entry.group \cup entry.other

Inspects(component, image) ==
    LET files == {name \in DOMAIN image : image[name].kind # "dir"}
        sources == {name \in files : Scoped(name) /\ ~ Bytecode(name)}
        tools == files \cap DOMAIN ExpectedTools(component)
    IN /\ SourceAllowed(component)
       /\ component = "api" => \A name \in DOMAIN image : ~ Privileged(name)
       /\ \A name \in files : ~ OperatorState(name)
       /\ \A name \in files : Bytecode(name) => BytecodeMatches(component, name, image[name])
       /\ sources = DOMAIN Expected(component)
       /\ \A name \in sources :
             IsFile(image[name]) /\ image[name].content = Expected(component)[name]
       /\ Interpreter \in files /\ ProperExecutable(image[Interpreter])
       /\ VenvPython \in files
       /\ RuntimeWorksIn(image, component)
       /\ tools = DOMAIN ExpectedTools(component)
       /\ \A name \in tools :
             ProperExecutable(image[name])
             /\ image[name].content = ExpectedTools(component)[name]

=============================================================================
