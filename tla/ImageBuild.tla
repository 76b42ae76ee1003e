----------------------------- MODULE ImageBuild -----------------------------
(***************************************************************************)
(* scripts/operations/azure/build.sh with provenance.shlib, images.shlib,  *)
(* build_provenance.py and remote_inspection.py: the two images of one     *)
(* revision are built by runs of the registry, inspected by other runs of  *)
(* it, promoted to their canonical tag, locked, and proved by a tag of the *)
(* registry resource.                                                      *)
(*                                                                         *)
(* A command writes a receipt before it submits anything, so that the next *)
(* command finds what an interrupted one began.  Runs go on when their     *)
(* command is gone.  The guide asks for one command at a time and nothing  *)
(* enforces it: here commands may overlap, and `overlapped` tells.         *)
(*                                                                         *)
(* An image is known by the run that built it: a digest is a run's number. *)
(* A fingerprint is the digest of the API image the provisioner is built   *)
(* on, the only part of it that can differ within a revision.              *)
(***************************************************************************)
EXTENDS ImageInspection, FiniteSets

CONSTANTS
    Commands,      \* invocations of build.sh, 1 .. n in the order they start
    None, Foreign, \* nothing; an image somebody pushed by hand
    Modes,         \* "build", "inspect" (--inspect), "recover" (--recover-build)
    Files,         \* the file system of every image a build may put out
    Outputs,       \* per component, the images a build of it may put out
    Legacy,        \* images an older build without a receipt may have put out
    MaxTroubles    \* commands stopped or overlapping, tags pushed, verifiers updated

ASSUME NoDigestAssumption == None \notin Nat /\ Foreign \notin Nat /\ None # Foreign
ASSUME TroublesAssumption == MaxTroubles \in Nat

\* What build_provenance.py stores of a component: the fields of its ARM tag.
Tags == [kind : {"pending", "recovery", "v2"}, nonce : Commands \cup {0, None},
         base : Nat \cup {None}, run : Nat \cup {None}]

ASSUME NoTagAssumption == None \notin Tags

VARIABLES
    runs,       \* the build runs of the registry
    checks,     \* its verification runs
    proof,      \* per component, the ARM tag plane-demo-proof-...
    receipt,    \* per component, the ARM tag plane-demo-check-...
    canonical,  \* per component, the image of the canonical tag
    locked,     \* per component, the tag can be neither written nor deleted
    tools,      \* the version of the verifier's own files in the checkout
    pushed,     \* somebody has pushed a canonical tag by hand
    cmd,        \* per command, where it is and what it knows
    overlapped, \* a command began while another was at work
    troubles    \* how much of the bound is used

registry == <<runs, checks, proof, receipt, canonical, locked>>
around == <<tools, pushed, overlapped, troubles>>
vars == <<registry, around, cmd>>

Ended == {"idle", "done", "refused", "stopped"}
At(b, pc) == cmd[b].pc = pc
Active(b) == cmd[b].pc \notin Ended
Go(b, pc) == cmd' = [cmd EXCEPT ![b].pc = pc]

\* The operator who recovers a build names the registry's first run.
Fresh(mode) ==
         [pc |-> "idle", mode |-> mode, component |-> "api",
          recover |-> IF mode = "recover" THEN 1 ELSE None,
          base |-> None, seen |-> None, known |-> None, digest |-> None,
          created |-> FALSE, context |-> None, check |-> None,
          key |-> "proof", value |-> None, expected |-> None, then |-> "idle"]

Init ==
    /\ runs \in {<< >>} \cup
          {<<[component |-> "api", nonce |-> 0, base |-> None,
              state |-> "succeeded", image |-> i]>> : i \in Legacy}
    /\ checks = << >>
    /\ proof = [c \in Components |-> None]
    /\ receipt = [c \in Components |-> None]
    /\ canonical = [c \in Components |-> None]
    /\ locked = [c \in Components |-> FALSE]
    /\ tools = 1
    /\ pushed = FALSE
    /\ cmd \in [Commands -> {Fresh(mode) : mode \in Modes}]
    /\ overlapped = FALSE
    /\ troubles = 0

-----------------------------------------------------------------------------
(* Build provenance: what the tags of the registry say of a component. *)

Pending(nonce, base, r) == [kind |-> "pending", nonce |-> nonce, base |-> base, run |-> r]
Recovery(nonce, base, r) == [kind |-> "recovery", nonce |-> nonce, base |-> base, run |-> r]
\* The run of a proof is its digest too.
Proof(r, base) == [kind |-> "v2", nonce |-> None, base |-> base, run |-> r]

\* A run may stand for an image: it succeeded and put out that one image.
Trusted(r, c) ==
    /\ r \in DOMAIN runs
    /\ runs[r].state = "succeeded"
    /\ runs[r].component = c

BuildState(value, base) ==
    CASE value = None -> "missing"
      [] value # None /\ value.base # base -> "mismatched"
      [] value # None /\ value.base = base ->
            IF value.kind = "v2" THEN "verified" ELSE "pending"

\* The finished run that put out the staging tag of a nonce, if it is unique.
MatchingRuns(c, nonce) ==
    {r \in DOMAIN runs :
        /\ runs[r].component = c
        /\ runs[r].nonce = nonce
        /\ runs[r].state = "succeeded"}

\* An existing proof, read again: of this source, for this digest, from a run
\* that the registry still says put it out.
VerifiedRecord(value, c, base, digest) == value = Proof(digest, base) /\ Trusted(digest, c)

-----------------------------------------------------------------------------
(* One tag of the registry is changed: read it, write it, read it again. *)

Tag(key, c) == IF key = "proof" THEN proof[c] ELSE receipt[c]

Merging(b, key, value, expected, then) ==
    [cmd[b] EXCEPT !.pc = "merge", !.key = key, !.value = value,
                   !.expected = expected, !.then = then]

\* A stored build intent is what the command goes on from.
Merged(b) ==
    cmd' = [cmd EXCEPT ![b].pc = cmd[b].then,
                       ![b].known = IF cmd[b].key = "proof" THEN cmd[b].value ELSE cmd[b].known,
                       ![b].value = None, ![b].expected = None, ![b].then = "idle"]

WrittenTag(b) == Tag(cmd[b].key, cmd[b].component)

MergeFindsItsValue(b) ==
    /\ At(b, "merge") \/ At(b, "reread")
    /\ WrittenTag(b) = cmd[b].value
    /\ Merged(b)
    /\ UNCHANGED <<registry, around>>

MergeFindsTheExpected(b) ==
    /\ At(b, "merge")
    /\ WrittenTag(b) # cmd[b].value
    /\ WrittenTag(b) = cmd[b].expected
    /\ Go(b, "write")
    /\ UNCHANGED <<registry, around>>

MergeWrites(b) ==
    /\ At(b, "write")
    /\ LET c == cmd[b].component IN
       IF cmd[b].key = "proof"
       THEN proof' = [proof EXCEPT ![c] = cmd[b].value] /\ UNCHANGED receipt
       ELSE receipt' = [receipt EXCEPT ![c] = cmd[b].value] /\ UNCHANGED proof
    /\ Go(b, "reread")
    /\ UNCHANGED <<runs, checks, canonical, locked, around>>

-----------------------------------------------------------------------------
(* A command looks at a component. *)

Trouble == troubles < MaxTroubles /\ troubles' = troubles + 1

Begin(b) ==
    /\ At(b, "idle")
    /\ \A earlier \in Commands : earlier < b => ~ At(earlier, "idle")
    /\ IF \E other \in Commands : Active(other)
       THEN Trouble /\ overlapped' = TRUE
       ELSE UNCHANGED <<troubles, overlapped>>
    /\ Go(b, "look")
    /\ UNCHANGED <<registry, tools, pushed>>

Look(b) ==
    /\ At(b, "look")
    /\ cmd' = [cmd EXCEPT ![b].pc = "state", ![b].seen = canonical[cmd[b].component]]
    /\ UNCHANGED <<registry, around>>

\* Revision, sources and build arguments; only the base image can differ here.
Fingerprint(b) == cmd[b].base
State(b) == BuildState(proof[cmd[b].component], Fingerprint(b))
Recovers(b) == cmd[b].mode = "recover" /\ cmd[b].component = "api"

Verified(b) ==
    LET c == cmd[b].component IN
    /\ State(b) = "verified"
    /\ cmd[b].seen # None
    /\ Recovers(b) => proof[c].run = cmd[b].recover
    /\ VerifiedRecord(proof[c], c, Fingerprint(b), cmd[b].seen)

Missing(b) ==
    State(b) = "missing" /\ cmd[b].mode # "inspect" /\ ~ Recovers(b) /\ cmd[b].seen = None

Resumable(b) == State(b) = "pending" /\ cmd[b].mode # "inspect" /\ ~ Recovers(b)

\* The operator names the run.  Its log has to show the selected Dockerfile's
\* steps; a receipt has to be of that run's own staging tag.
Recoverable(b) ==
    LET c == cmd[b].component  r == cmd[b].recover IN
    /\ Recovers(b)
    /\ State(b) \in {"missing", "pending"}
    /\ Trusted(r, c)
    /\ State(b) = "pending" => proof[c].nonce = runs[r].nonce

FindVerified(b) ==
    /\ At(b, "state") /\ Verified(b)
    /\ cmd' = [cmd EXCEPT ![b].pc = "context", ![b].digest = cmd[b].seen,
                          ![b].created = FALSE, ![b].known = proof[cmd[b].component]]
    /\ UNCHANGED <<registry, around>>

\* a slip: the build starts with the receipt only in the command's memory
FindNothingUnrecorded(b) ==
    /\ At(b, "state") /\ Missing(b)
    /\ cmd' = [cmd EXCEPT ![b].pc = "submit",
                          ![b].known = Pending(b, Fingerprint(b), None)]
    /\ UNCHANGED <<registry, around>>

\* The receipt is stored under a nonce of this command, before the build.
FindNothing(b) ==
    /\ At(b, "state") /\ Missing(b)
    /\ cmd' = [cmd EXCEPT ![b] =
                  Merging(b, "proof", Pending(b, Fingerprint(b), None), None, "submit")]
    /\ UNCHANGED <<registry, around>>

\* a slip: every receipt is taken for one that names its run
FindPendingFinished(b) ==
    /\ At(b, "state") /\ Resumable(b)
    /\ cmd' = [cmd EXCEPT ![b].known = proof[cmd[b].component], ![b].pc = "finish"]
    /\ UNCHANGED <<registry, around>>

FindPending(b) ==
    LET value == proof[cmd[b].component] IN
    /\ At(b, "state") /\ Resumable(b)
    /\ cmd' = [cmd EXCEPT ![b].known = value,
                          ![b].pc = IF value.run = None THEN "resolve" ELSE "finish"]
    /\ UNCHANGED <<registry, around>>

Recover(b) ==
    LET r == cmd[b].recover IN
    /\ At(b, "state") /\ Recoverable(b)
    /\ cmd' = [cmd EXCEPT ![b] =
                  Merging(b, "proof", Recovery(runs[r].nonce, None, r), proof["api"], "finish")]
    /\ UNCHANGED <<registry, around>>

-----------------------------------------------------------------------------
(* The build of a component. *)

Submit(b) ==
    /\ At(b, "submit")
    /\ runs' = Append(runs, [component |-> cmd[b].component, nonce |-> cmd[b].known.nonce,
                             base |-> cmd[b].base, state |-> "running", image |-> None])
    /\ Go(b, "stream")
    /\ UNCHANGED <<checks, proof, receipt, canonical, locked, around>>

OwnRuns(b) ==
    {r \in DOMAIN runs :
        runs[r].component = cmd[b].component /\ runs[r].nonce = cmd[b].known.nonce}

\* az acr build stays in the foreground until the run has ended.
Streamed(b) ==
    /\ At(b, "stream")
    /\ \A r \in OwnRuns(b) : runs[r].state = "succeeded"
    /\ Go(b, "resolve")
    /\ UNCHANGED <<registry, around>>

Resolve(b) ==
    LET found == MatchingRuns(cmd[b].component, cmd[b].known.nonce) IN
    /\ At(b, "resolve")
    /\ Cardinality(found) = 1
    /\ LET r == CHOOSE r \in found : TRUE IN
       cmd' = [cmd EXCEPT ![b] =
                  Merging(b, "proof", Pending(cmd[b].known.nonce, Fingerprint(b), r),
                          cmd[b].known, "finish")]
    /\ UNCHANGED <<registry, around>>

\* The run of the receipt, read again; a canonical image it differs from stays.
FreshRecord(b) ==
    LET r == cmd[b].known.run IN
    /\ Trusted(r, cmd[b].component)
    /\ runs[r].nonce = cmd[b].known.nonce
    /\ cmd[b].seen \in {None, r}

Finish(b) ==
    /\ At(b, "finish") /\ FreshRecord(b)
    /\ cmd' = [cmd EXCEPT ![b].pc = "context", ![b].digest = cmd[b].known.run,
                          ![b].created = TRUE]
    /\ UNCHANGED <<registry, around>>

-----------------------------------------------------------------------------
(* Its inspection. *)

Context(b) == [digest |-> cmd[b].digest, base |-> Fingerprint(b), tools |-> tools]
Unchecked(ctx) == [context |-> ctx, run |-> None]
Checked(ctx, v) == [context |-> ctx, run |-> v]

CheckState(value, ctx) ==
    CASE value = None -> "missing"
      [] value # None /\ value.context # ctx -> "stale"
      [] value # None /\ value.context = ctx ->
            IF value.run = None THEN "pending" ELSE "complete"

Receipt(b) == CheckState(receipt[cmd[b].component], Context(b))

CheckSucceeded(v, c, ctx) ==
    /\ v \in DOMAIN checks
    /\ checks[v].state = "succeeded" /\ checks[v].component = c /\ checks[v].context = ctx

Reusable(b) ==
    LET c == cmd[b].component IN
    Receipt(b) = "complete" /\ CheckSucceeded(receipt[c].run, c, Context(b))

RequestCheck(b) ==
    LET ctx == Context(b) IN
    /\ At(b, "context")
    /\ Receipt(b) \in {"missing", "stale"} /\ cmd[b].mode # "inspect"
    /\ cmd' = [cmd EXCEPT ![b] =
                  [Merging(b, "check", Unchecked(ctx), receipt[cmd[b].component], "verify")
                     EXCEPT !.context = ctx]]
    /\ UNCHANGED <<registry, around>>

ResumeCheck(b) ==
    /\ At(b, "context")
    /\ Receipt(b) = "pending" /\ cmd[b].mode # "inspect"
    /\ cmd' = [cmd EXCEPT ![b].pc = "report", ![b].context = Context(b)]
    /\ UNCHANGED <<registry, around>>

ReuseCheck(b) ==
    /\ At(b, "context") /\ Reusable(b)
    /\ cmd' = [cmd EXCEPT ![b].pc = "promote", ![b].context = Context(b)]
    /\ UNCHANGED <<registry, around>>

SubmitCheck(b) ==
    /\ At(b, "verify")
    /\ checks' = Append(checks, [component |-> cmd[b].component, context |-> cmd[b].context,
                                 state |-> "running"])
    /\ cmd' = [cmd EXCEPT ![b].pc = "watch", ![b].check = Len(checks) + 1]
    /\ UNCHANGED <<runs, proof, receipt, canonical, locked, around>>

Watched(b) ==
    /\ At(b, "watch")
    /\ checks[cmd[b].check].state = "succeeded"
    /\ Go(b, "report")
    /\ UNCHANGED <<registry, around>>

\* The finished verification runs of the context the command asked about.
MatchingChecks(b) ==
    {v \in DOMAIN checks : CheckSucceeded(v, cmd[b].component, cmd[b].context)}

Report(b) ==
    LET ctx == cmd[b].context IN
    /\ At(b, "report")
    /\ Cardinality(MatchingChecks(b)) = 1
    /\ LET v == CHOOSE v \in MatchingChecks(b) : TRUE IN
       cmd' = [cmd EXCEPT ![b] =
                  Merging(b, "check", Checked(ctx, v), Unchecked(ctx), "promote")]
    /\ UNCHANGED <<registry, around>>

-----------------------------------------------------------------------------
(* Its promotion, and the proof. *)

\* An import without --force refuses a tag that exists.
Import(b) ==
    LET c == cmd[b].component IN
    /\ At(b, "promote")
    /\ cmd[b].created /\ cmd[b].seen = None
    /\ canonical[c] = None
    /\ canonical' = [canonical EXCEPT ![c] = cmd[b].digest]
    /\ Go(b, "observe")
    /\ UNCHANGED <<runs, checks, proof, receipt, locked, around>>

KeepCanonical(b) ==
    /\ At(b, "promote")
    /\ ~ cmd[b].created \/ cmd[b].seen # None
    /\ Go(b, "observe")
    /\ UNCHANGED <<registry, around>>

Observe(b) ==
    /\ At(b, "observe")
    /\ canonical[cmd[b].component] = cmd[b].digest
    /\ Go(b, IF cmd[b].mode = "inspect" THEN "assert" ELSE "lock")
    /\ UNCHANGED <<registry, around>>

\* The lock is put on whatever the tag names by now; what it names is read after.
Lock(b) ==
    /\ At(b, "lock")
    /\ locked' = [locked EXCEPT ![cmd[b].component] = TRUE]
    /\ Go(b, "assert")
    /\ UNCHANGED <<runs, checks, proof, receipt, canonical, around>>

\* a slip: what the locked tag names is not read again
AssertLockOnly(b) ==
    LET c == cmd[b].component IN
    /\ At(b, "assert")
    /\ locked[c]
    /\ IF cmd[b].created
       THEN cmd' = [cmd EXCEPT ![b] =
                       Merging(b, "proof", Proof(cmd[b].digest, Fingerprint(b)),
                               cmd[b].known, "proved")]
       ELSE Go(b, "proved")
    /\ UNCHANGED <<registry, around>>

AssertLock(b) ==
    LET c == cmd[b].component IN
    /\ At(b, "assert")
    /\ locked[c] /\ canonical[c] = cmd[b].digest
    /\ IF cmd[b].created
       THEN cmd' = [cmd EXCEPT ![b] =
                       Merging(b, "proof", Proof(cmd[b].digest, Fingerprint(b)),
                               cmd[b].known, "proved")]
       ELSE Go(b, "proved")
    /\ UNCHANGED <<registry, around>>

NextComponent(b) ==
    /\ At(b, "proved")
    /\ IF cmd[b].component = "api"
       THEN cmd' = [cmd EXCEPT ![b].pc = "look", ![b].component = "provisioner",
                               ![b].base = cmd[b].digest, ![b].seen = None,
                               ![b].known = None, ![b].digest = None,
                               ![b].created = FALSE, ![b].context = None]
       ELSE Go(b, "done")
    /\ UNCHANGED <<registry, around>>

-----------------------------------------------------------------------------
(* What else happens. *)

\* A build ends with the image its agent happened to produce, or fails.
EndRun(r) ==
    /\ runs[r].state = "running"
    /\ \/ \E i \in Outputs[runs[r].component] :
             runs' = [runs EXCEPT ![r].state = "succeeded", ![r].image = i]
       \/ runs' = [runs EXCEPT ![r].state = "failed"]
    /\ UNCHANGED <<checks, proof, receipt, canonical, locked, around, cmd>>

Passing == [c \in Components |-> {i \in DOMAIN Files : Inspects(c, Files[i])}]

\* A verification run publishes a report only of an image that passes.
EndCheck(v) ==
    /\ checks[v].state = "running"
    /\ \/ checks' = [checks EXCEPT ![v].state = "failed"]
       \/ /\ runs[checks[v].context.digest].image \in Passing[checks[v].component]
          /\ checks' = [checks EXCEPT ![v].state = "succeeded"]
    /\ UNCHANGED <<runs, proof, receipt, canonical, locked, around, cmd>>

\* What a command reads is not what it requires: it ends with an error.
Refused(b) ==
    LET c == cmd[b].component IN
    \/ At(b, "state") /\ ~ (Verified(b) \/ Missing(b) \/ Resumable(b) \/ Recoverable(b))
    \/ At(b, "merge") /\ WrittenTag(b) \notin {cmd[b].value, cmd[b].expected}
    \/ At(b, "reread") /\ WrittenTag(b) # cmd[b].value
    \/ At(b, "stream") /\ \E r \in OwnRuns(b) : runs[r].state = "failed"
    \/ At(b, "resolve") /\ Cardinality(MatchingRuns(c, cmd[b].known.nonce)) # 1
    \/ At(b, "finish") /\ ~ FreshRecord(b)
    \/ /\ At(b, "context") /\ ~ Reusable(b)
       /\ Receipt(b) = "complete" \/ cmd[b].mode = "inspect"
    \/ At(b, "watch") /\ checks[cmd[b].check].state = "failed"
    \/ At(b, "report") /\ Cardinality(MatchingChecks(b)) # 1
    \/ At(b, "promote") /\ cmd[b].created /\ cmd[b].seen = None /\ canonical[c] # None
    \/ At(b, "observe") /\ canonical[c] # cmd[b].digest
    \/ At(b, "assert") /\ ~ (locked[c] /\ canonical[c] = cmd[b].digest)

Refuse(b) ==
    /\ Refused(b)
    /\ Go(b, "refused")
    /\ UNCHANGED <<registry, around>>

\* The command is stopped, or a call of it fails; what it submitted goes on.
Stop(b) ==
    /\ Active(b)
    /\ Trouble
    /\ Go(b, "stopped")
    /\ UNCHANGED <<registry, tools, pushed, overlapped>>

\* Somebody pushes the canonical tag by hand, before it is locked.
Push(c) ==
    /\ ~ pushed /\ ~ locked[c]
    /\ Trouble
    /\ canonical' = [canonical EXCEPT ![c] = Foreign]
    /\ pushed' = TRUE
    /\ UNCHANGED <<runs, checks, proof, receipt, locked, tools, overlapped, cmd>>

\* The operator updates the checkout's verifier between two commands.
UpdateTools ==
    /\ tools = 1
    /\ \A b \in Commands : ~ Active(b)
    /\ Trouble
    /\ tools' = 2
    /\ UNCHANGED <<registry, pushed, overlapped, cmd>>

Step(b) ==
    \/ Look(b) \/ FindVerified(b) \/ FindNothing(b) \/ FindPending(b) \/ Recover(b)
    \/ MergeFindsItsValue(b) \/ MergeFindsTheExpected(b) \/ MergeWrites(b)
    \/ Submit(b) \/ Streamed(b) \/ Resolve(b) \/ Finish(b)
    \/ RequestCheck(b) \/ ResumeCheck(b) \/ ReuseCheck(b)
    \/ SubmitCheck(b) \/ Watched(b) \/ Report(b)
    \/ Import(b) \/ KeepCanonical(b) \/ Observe(b) \/ Lock(b) \/ AssertLock(b)
    \/ NextComponent(b) \/ Refuse(b)

Service == (\E r \in DOMAIN runs : EndRun(r)) \/ (\E v \in DOMAIN checks : EndCheck(v))

Next ==
    \/ \E b \in Commands : Begin(b) \/ Step(b) \/ Stop(b)
    \/ Service
    \/ \E c \in Components : Push(c)
    \/ UpdateTools

Spec == Init /\ [][Next]_vars

\* A command that runs goes on; the registry ends the runs it accepted.
Fairness == WF_vars(Service) /\ \A b \in Commands : WF_vars(Step(b))
FairSpec == Spec /\ Fairness

-----------------------------------------------------------------------------
(* What an image is for, said without the inspection. *)

\* The kernel's walk of a path: a link's own path is walked where it stands,
\* and every directory passed through must be open to the runtime user.
Opens(image, name, needed) ==
    LET walk[at \in Path, rest \in Path, links \in 0 .. LinkLimit] ==
            LET last == Tail(rest) = << >>
                up == SubSeq(at, 1, Len(at) - 1)
                here == Append(at, Head(rest))
            IN IF Head(rest) = ".."
               THEN at # << >> /\ (last \/ walk[up, Tail(rest), links])
               ELSE /\ here \in DOMAIN image
                    /\ LET entry == image[here] IN
                       CASE entry.kind = "link" ->
                               /\ links > 0
                               /\ walk[IF entry.to.absolute THEN << >> ELSE at,
                                       entry.to.path \o Tail(rest), links - 1]
                         [] entry.kind = "hard" ->
                               last /\ needed \subseteq RuntimePermissions(image[entry.to.path])
                         [] entry.kind \notin {"link", "hard"} ->
                               IF last THEN needed \subseteq RuntimePermissions(entry)
                               ELSE /\ entry.kind = "dir"
                                    /\ "x" \in RuntimePermissions(entry)
                                    /\ walk[here, Tail(rest), links]
    IN walk[<< >>, name, LinkLimit]

RunsAsCommitted(component, image) ==
    /\ \A name \in DOMAIN Expected(component) :
          /\ name \in DOMAIN image /\ image[name].content = Expected(component)[name]
          /\ Opens(image, name, {"r"})
    /\ \A name \in DOMAIN ExpectedTools(component) \cup {Interpreter, VenvPython} :
          Opens(image, name, {"r", "x"})
    /\ \A name \in DOMAIN image : Bytecode(name) =>
          /\ SourceOf(name) \in DOMAIN Expected(component)
          /\ image[name].content = Compiled(Expected(component)[SourceOf(name)])

Sound == [c \in Components |-> {i \in DOMAIN Files : RunsAsCommitted(c, Files[i])}]

-----------------------------------------------------------------------------
(* Properties. *)

\* A run of the registry stands for the digest it put out.
Digests == Nat \cup {None}
Nonces == Commands \cup {0}
Images == Legacy \cup Outputs["api"] \cup Outputs["provisioner"] \cup {None}
Contexts == [digest : Digests, base : Digests, tools : {1, 2}]
CheckTags == [context : Contexts, run : Digests]
AnyTag == Tags \cup CheckTags \cup {None}

\* The places of a command: a tag is written, a component built, inspected, promoted.
Merges == {"merge", "write", "reread"}
Building == {"submit", "stream", "resolve", "finish"}
Checking == {"verify", "watch", "report"}
Promoting == {"promote", "observe", "lock", "assert", "proved"}
Places == Ended \cup {"look", "state", "context"}
    \cup Merges \cup Building \cup Checking \cup Promoting

CommandRecords ==
    [pc : Places, mode : Modes, component : Components, recover : {1, None},
     base : Digests, seen : Digests \cup {Foreign}, known : Tags \cup {None},
     digest : Digests, created : BOOLEAN, context : Contexts \cup {None}, check : Digests,
     key : {"proof", "check"}, value : AnyTag,
     expected : AnyTag, then : Places]

RunRecords ==
    [component : Components, nonce : Nonces, base : Digests,
     state : {"running", "succeeded", "failed"}, image : Images]
CheckRecords ==
    [component : Components, context : Contexts, state : {"running", "succeeded", "failed"}]

\* Every variable is of its type: the runs of the registry, the tags of its ARM
\* resource, and what each command read or is about to write.
TypeOK ==
    /\ runs \in Seq(RunRecords) /\ checks \in Seq(CheckRecords)
    /\ proof \in [Components -> Tags \cup {None}]
    /\ receipt \in [Components -> CheckTags \cup {None}]
    /\ canonical \in [Components -> Digests \cup {Foreign}]
    /\ locked \in [Components -> BOOLEAN]
    /\ tools \in {1, 2}
    /\ cmd \in [Commands -> CommandRecords]
    /\ overlapped \in BOOLEAN

\* A completed proof tells of the locked canonical image: the run it names put
\* that image out, a verification run passed it, and the proof of the
\* provisioner is for the API image of the canonical tag it was built on
\* (build_provenance.py:268-325, build.sh:218-272).
ProofHolds ==
    \A c \in Components :
        (proof[c] # None /\ proof[c].kind = "v2") =>
            LET r == proof[c].run IN
            /\ canonical[c] = r /\ locked[c]
            /\ Trusted(r, c) /\ runs[r].base = proof[c].base
            /\ \E v \in DOMAIN checks : checks[v].state = "succeeded"
                                     /\ checks[v].context.digest = r
            /\ c = "provisioner" => canonical["api"] = proof[c].base /\ locked["api"]

\* Whatever a command put under a canonical tag runs as it was committed: the
\* runtime user opens every file and the bytecode is that of the sources, also
\* when the command died right after the import
\* (images.shlib:16-101, image_inspection.py:366-535).
PromotedRunsAsCommitted ==
    \A c \in Components :
        canonical[c] \in DOMAIN runs => runs[canonical[c]].image \in Sound[c]

\* While commands do not overlap, no component is built twice, however often a
\* command was stopped and repeated (RUN_AZURE_SCENARIOS.md:448-454).
NoSecondBuild ==
    ~ overlapped =>
        \A c \in Components :
            Cardinality({r \in DOMAIN runs : runs[r].component = c /\ runs[r].nonce # 0}) <= 1

\* What only the operator can clear: an image pushed by hand, a receipt whose
\* run has not succeeded (it failed, still runs, or was never submitted), a
\* verification of this very context that has not succeeded.
Blocked ==
    \E c \in Components :
        \/ canonical[c] = Foreign
        \/ /\ proof[c] # None /\ proof[c].kind = "pending"
           /\ MatchingRuns(c, proof[c].nonce) = {}
        \/ /\ receipt[c] # None /\ receipt[c].run = None /\ receipt[c].context.tools = tools
           /\ ~ \E v \in DOMAIN checks : CheckSucceeded(v, c, receipt[c].context)

\* A build command that is left alone ends with both images verified, whatever
\* an earlier one left behind, unless it finds what it may not decide
\* (RUN_AZURE_SCENARIOS.md:448-454).
BuildFinishes ==
    \A b \in Commands :
        (Active(b) /\ cmd[b].mode = "build") ~>
            (\/ At(b, "done") \/ At(b, "stopped") \/ overlapped
             \/ At(b, "refused") /\ Blocked)

=============================================================================
