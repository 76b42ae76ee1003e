-------------------------- MODULE ImageBuildProofs --------------------------
(***************************************************************************)
(* The safety of ImageBuild, for any commands, images and bounds.          *)
(*                                                                         *)
(* ProofHolds is not inductive: it says nothing of a command that is about *)
(* to write a proof.  Good says for each command what it rests on, from    *)
(* the run it resolved (Digested) over the report it asked for (Asking,    *)
(* Inspected) to the lock it found (Secured).  A write may be compared     *)
(* again and again before it lands, so the parts of Good look at the stage *)
(* that the command is at or returns to (Stage).  What the registry has    *)
(* only ever gets more (Grows), and Good is stated in what only grows.     *)
(*                                                                         *)
(* A nonce is the name of a command, so all that a tag or a run says of an *)
(* attempt leads back to that command and to the base it builds on         *)
(* (Origin).  That the base still is the promoted API image when the       *)
(* provisioner's proof is written follows: nobody moves a locked tag.      *)
(*                                                                         *)
(* NoSecondBuild needs that a run left a tag (Recorded), whatever stopped  *)
(* the command, and that whoever is about to submit is alone and found no  *)
(* run of its component (Alone).                                           *)
(***************************************************************************)
EXTENDS ImageBuild, FiniteSetTheorems, TLAPS

\* what a command is at, or goes on with once the tag it writes is written
Stage(b) == IF cmd[b].pc \in Merges THEN cmd[b].then ELSE cmd[b].pc

\* a run that stands for an image of c built on base
Stands(r, c, base) == Trusted(r, c) /\ runs[r].base = base

\* a verification of image r succeeded
Passed(r, c) == \E v \in DOMAIN checks :
    checks[v].state = "succeeded" /\ checks[v].component = c /\ checks[v].context.digest = r

-----------------------------------------------------------------------------
(* What each command rests on *)

\* a provisioner is built on the API image that was promoted and locked
OnBase(b) ==
    IF cmd[b].component = "api" THEN cmd[b].base = None
    ELSE cmd[b].base \in Nat /\ canonical["api"] = cmd[b].base /\ locked["api"]

\* only command n builds under nonce n, and a provisioner on its one API image
Origin(c, n, base) ==
    IF c = "api" THEN base = None
    ELSE n \in Commands /\ cmd[n].component = "provisioner" /\ cmd[n].base = base

Intent(tag) == tag \in Tags /\ tag.kind # "v2" /\ tag.nonce \in Nonces

Intending(b) == cmd[b].pc \in Building =>
    /\ Intent(cmd[b].known) /\ cmd[b].known.base = cmd[b].base
    /\ Origin(cmd[b].component, cmd[b].known.nonce, cmd[b].base)

Writing(b) == cmd[b].pc \in Merges =>
    IF cmd[b].key = "check"
    THEN cmd[b].then \in {"verify", "promote"} /\ cmd[b].value \in CheckTags
    ELSE \/ /\ cmd[b].then = "proved"
            /\ cmd[b].value = Proof(cmd[b].digest, cmd[b].base)
         \/ /\ cmd[b].then \in {"submit", "finish"}
            /\ Intent(cmd[b].value) /\ cmd[b].value.base = cmd[b].base
            /\ Origin(cmd[b].component, cmd[b].value.nonce, cmd[b].base)

Digested(b) == Stage(b) \in {"context"} \cup Checking \cup Promoting =>
    Stands(cmd[b].digest, cmd[b].component, cmd[b].base)

Asking(b) == Stage(b) \in Checking =>
    cmd[b].context \in Contexts /\ cmd[b].context.digest = cmd[b].digest

Inspected(b) == Stage(b) \in Promoting => Passed(cmd[b].digest, cmd[b].component)

Secured(b) == Stage(b) = "proved" =>
    locked[cmd[b].component] /\ canonical[cmd[b].component] = cmd[b].digest

Good(b) ==
    /\ OnBase(b) /\ Intending(b) /\ Writing(b) /\ Digested(b) /\ Asking(b)
    /\ Inspected(b) /\ Secured(b)

-----------------------------------------------------------------------------
(* What the registry holds *)

RunOrigins == \A r \in DOMAIN runs : Origin(runs[r].component, runs[r].nonce, runs[r].base)

TagOrigins == \A c \in Components : (proof[c] # None /\ proof[c].kind # "v2") =>
    Intent(proof[c]) /\ Origin(c, proof[c].nonce, proof[c].base)

ReportsHold == \A v \in DOMAIN checks :
    /\ Trusted(checks[v].context.digest, checks[v].component)
    /\ checks[v].state = "succeeded" =>
           runs[checks[v].context.digest].image \in Passing[checks[v].component]

\* what a command put under a canonical tag was inspected
PromotedPassed == \A c \in Components : canonical[c] \notin {None, Foreign} =>
    Trusted(canonical[c], c) /\ runs[canonical[c]].image \in Passing[c]

Core ==
    /\ TypeOK
    /\ RunOrigins /\ TagOrigins /\ ReportsHold /\ PromotedPassed /\ ProofHolds
    /\ \A b \in Commands : Good(b)

-----------------------------------------------------------------------------
(* One build of a component *)

Built(c) == {r \in DOMAIN runs : runs[r].component = c /\ runs[r].nonce # 0}

\* no run without a tag that tells of it
Recorded ==
    /\ \A c \in Components : Built(c) # {} => proof[c] # None
    /\ \A b \in Commands : cmd[b].pc = "submit" => proof[cmd[b].component] # None

Alone == ~ overlapped =>
    /\ \A a, b \in Commands : Active(a) /\ Active(b) => a = b
    /\ \A b \in Commands : Stage(b) = "submit" => Built(cmd[b].component) = {}
    /\ \A c \in Components : \A r, s \in Built(c) : r = s

IInv == Core /\ Recorded /\ Alone

-----------------------------------------------------------------------------
(* What lasts *)

\* What no step takes back: a run that stands for an image, a verification that
\* succeeded, a locked tag, the image a provisioner is built on.
Grows ==
    /\ \A r, c : Trusted(r, c) => /\ Trusted(r, c)' /\ runs'[r].base = runs[r].base
                                  /\ runs'[r].image = runs[r].image
    /\ \A r, c : Passed(r, c) => Passed(r, c)'
    /\ \A c \in Components : (locked[c] /\ canonical[c] # None) =>
                                  locked'[c] /\ canonical'[c] = canonical[c]
    /\ \A b \in Commands : cmd[b].component = "provisioner" =>
                                  cmd'[b].component = "provisioner" /\ cmd'[b].base = cmd[b].base

\* a trusted run is a number, never one of the marks
LEMMA TrustedIsNumber ==
    ASSUME TypeOK, NEW r, NEW c, Trusted(r, c)
    PROVE  r \in Nat /\ r \in Digests /\ r # None /\ r # Foreign
  BY NoDigestAssumption DEF TypeOK, Trusted, Digests

LEMMA RunTyped ==
    ASSUME TypeOK, NEW r \in DOMAIN runs
    PROVE  /\ runs[r].component \in Components /\ runs[r].nonce \in Nonces
           /\ runs[r].base \in Digests /\ runs[r].image \in Images
           /\ runs[r].state \in {"running", "succeeded", "failed"}
<1>1. runs[r] \in RunRecords
  BY DEF TypeOK
<1> QED
  BY <1>1 DEF RunRecords

LEMMA GoodKept ==
    ASSUME Core, Grows, NEW a \in Commands, cmd'[a] = cmd[a]
    PROVE  Good(a)'
<1>1. cmd[a] \in CommandRecords /\ Good(a) /\ TypeOK
  BY DEF Core, TypeOK
<1>2. OnBase(a)'
  BY <1>1, NoDigestAssumption
     DEF Grows, Good, OnBase, Components, CommandRecords
<1>3. Intending(a)' /\ Writing(a)'
  BY <1>1 DEF Grows, Good, Intending, Writing, Origin
<1>4. Stage(a)' = Stage(a)
  BY DEF Stage
<1>5. Digested(a)' /\ Asking(a)' /\ Inspected(a)'
  BY <1>1, <1>4 DEF Grows, Good, Digested, Asking, Inspected, Stands
<1>6. Secured(a)'
  <2>1. Stage(a) = "proved" => cmd[a].digest # None
    BY <1>1, TrustedIsNumber DEF Good, Digested, Stands, Promoting
  <2> QED
    BY <1>1, <1>4, <2>1 DEF Grows, Good, Secured, CommandRecords
<1> QED
  BY <1>2, <1>3, <1>5, <1>6 DEF Good

LEMMA RunOriginsKept ==
    ASSUME Core, Grows, runs' = runs
    PROVE  RunOrigins'
  BY DEF Core, Grows, RunOrigins, Origin

LEMMA TagOriginsKept ==
    ASSUME Core, Grows, proof' = proof
    PROVE  TagOrigins'
  BY DEF Core, Grows, TagOrigins, Origin, Intent

LEMMA ReportsKept ==
    ASSUME Core, Grows, checks' = checks
    PROVE  ReportsHold'
<1>1. \A v \in DOMAIN checks :
         LET r == checks[v].context.digest  c == checks[v].component IN
         Trusted(r, c)' /\ runs'[r].image = runs[r].image
  BY DEF Core, Grows, ReportsHold
<1> QED
  BY <1>1 DEF Core, ReportsHold

LEMMA PromotedKept ==
    ASSUME Core, Grows, canonical' = canonical
    PROVE  PromotedPassed'
<1>1. \A c \in Components : canonical[c] \notin {None, Foreign} =>
         Trusted(canonical[c], c)' /\ runs'[canonical[c]].image = runs[canonical[c]].image
  BY DEF Core, Grows, PromotedPassed
<1> QED
  BY <1>1 DEF Core, PromotedPassed

LEMMA ProofHoldsKept ==
    ASSUME Core, Grows, proof' = proof
    PROVE  ProofHolds'
<1> SUFFICES ASSUME NEW c \in Components, proof[c] # None, proof[c].kind = "v2"
             PROVE  LET r == proof[c].run IN
                    /\ canonical'[c] = r /\ locked'[c]
                    /\ Trusted(r, c)' /\ runs'[r].base = proof[c].base
                    /\ \E v \in DOMAIN checks' : checks'[v].state = "succeeded"
                                             /\ checks'[v].context.digest = r
                    /\ c = "provisioner" => canonical'["api"] = proof[c].base /\ locked'["api"]
  BY DEF ProofHolds
<1> DEFINE r == proof[c].run
<1>1. /\ canonical[c] = r /\ locked[c] /\ Trusted(r, c) /\ runs[r].base = proof[c].base
      /\ \E v \in DOMAIN checks : checks[v].state = "succeeded" /\ checks[v].context.digest = r
      /\ c = "provisioner" => canonical["api"] = proof[c].base /\ locked["api"]
  BY DEF Core, ProofHolds
<1>2. r # None
  BY <1>1, TrustedIsNumber DEF Core
<1>3. \E v \in DOMAIN checks' : checks'[v].state = "succeeded" /\ checks'[v].context.digest = r
  <2>1. PICK d : Passed(r, d)
    BY <1>1 DEF Passed
  <2> QED
    BY <2>1 DEF Grows, Passed
<1>4. c = "provisioner" => proof[c].base # None
  BY <1>1, NoDigestAssumption DEF Core, RunOrigins, Origin, Good, OnBase, Trusted
<1>5. Trusted(r, c)' /\ runs'[r].base = runs[r].base
  BY <1>1 DEF Grows, Trusted
<1> QED
  BY <1>1, <1>2, <1>3, <1>4, <1>5 DEF Grows, Components


\* everything but the commands and the tags, after a step that takes nothing back
LEMMA CommandStep ==
    ASSUME Core, NEW b \in Commands, UNCHANGED registry,
           cmd' = [cmd EXCEPT ![b] = cmd'[b]], cmd'[b] \in CommandRecords,
           tools' \in {1, 2}, overlapped' \in BOOLEAN, Good(b)',
           cmd[b].component = "provisioner" =>
               cmd'[b].component = "provisioner" /\ cmd'[b].base = cmd[b].base
    PROVE  Core'
<1>1. TypeOK'
  BY DEF Core, TypeOK, registry
<1>2. Grows
  BY DEF Core, TypeOK, Grows, Trusted, Passed, registry
<1>3. \A a \in Commands : Good(a)'
  <2> SUFFICES ASSUME NEW a \in Commands PROVE Good(a)'
    OBVIOUS
  <2>1. CASE a = b
    BY <2>1
  <2>2. CASE a # b
    BY <1>2, <2>2, GoodKept DEF Core, TypeOK
  <2> QED
    BY <2>1, <2>2
<1> QED
  BY <1>1, <1>2, <1>3, RunOriginsKept, TagOriginsKept, ReportsKept, PromotedKept, ProofHoldsKept
     DEF Core, registry

\* a command that goes on, as the registry sees it: nobody begins a second build
LEMMA AloneStep ==
    ASSUME IInv, NEW b \in Commands, UNCHANGED registry,
           cmd' = [cmd EXCEPT ![b] = cmd'[b]], overlapped => overlapped',
           overlapped' \/ Active(b) \/ \A a \in Commands : ~ Active(a),
           Stage(b)' = "submit" =>
               \/ Stage(b) = "submit" /\ cmd'[b].component = cmd[b].component
               \/ Built(cmd'[b].component) = {},
           cmd'[b].pc = "submit" => proof[cmd'[b].component] # None
    PROVE  Recorded' /\ Alone'
<1>1. \A a \in Commands : a # b => cmd'[a] = cmd[a]
  BY DEF IInv, Core, TypeOK
<1>2. \A c : Built(c)' = Built(c)
  BY DEF Built, registry
<1>3. Recorded'
  BY <1>1, <1>2 DEF IInv, Recorded, registry
<1>4. Alone'
  <2> SUFFICES ASSUME ~ overlapped'
               PROVE  /\ \A a, d \in Commands : Active(a)' /\ Active(d)' => a = d
                      /\ \A a \in Commands : Stage(a)' = "submit" => Built(cmd'[a].component) = {}
                      /\ \A c \in Components : \A r, s \in Built(c) : r = s
    BY <1>2 DEF Alone
  <2>1. Alone /\ ~ overlapped
    BY DEF IInv
  <2>2. \A a \in Commands : a # b => (Active(a)' <=> Active(a)) /\ Stage(a)' = Stage(a)
    BY <1>1 DEF Active, Stage
  <2> QED
    BY <1>1, <2>1, <2>2 DEF Alone
<1> QED
  BY <1>3, <1>4

-----------------------------------------------------------------------------
(* A command goes on *)

\* only the place changes
LEMMA GoFields ==
    ASSUME TypeOK, NEW b \in Commands, NEW p \in Places, Go(b, p)
    PROVE  /\ cmd' = [cmd EXCEPT ![b] = cmd'[b]] /\ cmd'[b] \in CommandRecords
           /\ cmd'[b].pc = p
           /\ cmd'[b].component = cmd[b].component /\ cmd'[b].base = cmd[b].base
           /\ cmd'[b].known = cmd[b].known /\ cmd'[b].digest = cmd[b].digest
           /\ cmd'[b].context = cmd[b].context /\ cmd'[b].key = cmd[b].key
           /\ cmd'[b].value = cmd[b].value /\ cmd'[b].then = cmd[b].then
<1>1. cmd[b] \in CommandRecords /\ cmd \in [Commands -> CommandRecords]
  BY DEF TypeOK
<1>2. cmd' = [cmd EXCEPT ![b] = cmd'[b]] /\ cmd'[b] = [cmd[b] EXCEPT !.pc = p]
  BY <1>1 DEF Go
<1>3. cmd'[b] \in CommandRecords
  BY <1>1, <1>2 DEF CommandRecords
<1> QED
  BY <1>1, <1>2, <1>3 DEF CommandRecords

\* where a command may go without knowing more than it does
Onward(here, there) ==
    \/ there \in Ended \cup {"look"}
    \/ here \in Merges /\ there \in Merges
    \/ here \in Building /\ there \in Building
    \/ here \in Checking /\ there \in Checking
    \/ here \in Promoting /\ there \in Promoting \ {"proved"}

LEMMA GoGood ==
    ASSUME Core, Grows, NEW b \in Commands, NEW p \in Places, Go(b, p),
           \/ Onward(cmd[b].pc, p)
           \/ /\ p = "proved" /\ cmd[b].pc \in Promoting
              /\ locked'[cmd[b].component] /\ canonical'[cmd[b].component] = cmd[b].digest
    PROVE  Good(b)'
<1>1. Good(b) /\ TypeOK /\ cmd[b] \in CommandRecords
  BY DEF Core, TypeOK
<1>2. /\ cmd'[b].pc = p
      /\ cmd'[b].component = cmd[b].component /\ cmd'[b].base = cmd[b].base
      /\ cmd'[b].known = cmd[b].known /\ cmd'[b].digest = cmd[b].digest
      /\ cmd'[b].context = cmd[b].context /\ cmd'[b].key = cmd[b].key
      /\ cmd'[b].value = cmd[b].value /\ cmd'[b].then = cmd[b].then
  BY <1>1, GoFields
<1>3. OnBase(b)'
  BY <1>1, <1>2, NoDigestAssumption DEF Grows, Good, OnBase, Components, CommandRecords
<1>4. Intending(b)' /\ Writing(b)'
  BY <1>1, <1>2
     DEF Grows, Good, Intending, Writing, Origin, Onward, Ended, Merges, Building, Checking,
         Promoting
<1>5. /\ Stage(b)' \in {"context"} \cup Checking \cup Promoting =>
             Stage(b) \in {"context"} \cup Checking \cup Promoting
      /\ Stage(b)' \in Checking => Stage(b) \in Checking
      /\ Stage(b)' \in Promoting => Stage(b) \in Promoting
  BY <1>2 DEF Stage, Onward, Ended, Merges, Building, Checking, Promoting
<1>6. Digested(b)' /\ Asking(b)' /\ Inspected(b)'
  BY <1>1, <1>2, <1>5 DEF Grows, Good, Digested, Asking, Inspected, Stands, Trusted, Passed
<1>7. Secured(b)'
  <2>1. Stage(b) = "proved" => cmd[b].digest # None
    BY <1>1, TrustedIsNumber DEF Good, Digested, Stands, Promoting
  <2>2. Stage(b)' = "proved" => Stage(b) = "proved" \/
            (locked'[cmd[b].component] /\ canonical'[cmd[b].component] = cmd[b].digest)
    BY <1>2 DEF Stage, Onward, Ended, Merges, Building, Checking, Promoting
  <2> QED
    BY <1>1, <1>2, <2>1, <2>2 DEF Grows, Good, Secured, CommandRecords
<1> QED
  BY <1>3, <1>4, <1>6, <1>7 DEF Good

\* a step in which only the place of a command changes
LEMMA GoStep ==
    ASSUME IInv, NEW b \in Commands, NEW p \in Places \ {"submit"}, Go(b, p),
           UNCHANGED registry, tools' \in {1, 2}, overlapped' \in BOOLEAN,
           overlapped => overlapped',
           overlapped' \/ Active(b) \/ \A a \in Commands : ~ Active(a),
           \/ Onward(cmd[b].pc, p)
           \/ /\ p = "proved" /\ cmd[b].pc \in Promoting
              /\ locked[cmd[b].component] /\ canonical[cmd[b].component] = cmd[b].digest
    PROVE  IInv'
<1>1. Core /\ TypeOK /\ Grows
  BY DEF IInv, Core, TypeOK, Grows, Trusted, Passed, registry, Go, CommandRecords
<1>2. /\ cmd' = [cmd EXCEPT ![b] = cmd'[b]] /\ cmd'[b] \in CommandRecords
      /\ cmd'[b].pc = p /\ cmd'[b].then = cmd[b].then
      /\ cmd'[b].component = cmd[b].component /\ cmd'[b].base = cmd[b].base
  BY <1>1, GoFields
<1>3. Good(b)'
  BY <1>1, GoGood DEF registry
<1>4. Core'
  BY <1>1, <1>2, <1>3, CommandStep
<1>5. Stage(b)' = "submit" => Stage(b) = "submit"
  BY <1>2 DEF Stage, Onward, Ended, Merges, Building, Checking, Promoting
<1> QED
  BY <1>2, <1>4, <1>5, AloneStep DEF IInv

\* the steps that only move a command on
LEMMA MovesOn ==
    ASSUME IInv, NEW b \in Commands,
           \/ MergeFindsTheExpected(b) \/ Streamed(b) \/ Watched(b) \/ KeepCanonical(b)
           \/ Observe(b) \/ Refuse(b) \/ Stop(b) \/ Begin(b)
    PROVE  IInv'
<1>1. tools \in {1, 2} /\ overlapped \in BOOLEAN
  BY DEF IInv, Core, TypeOK
<1> USE DEF Onward, Ended, Merges, Building, Checking, Promoting, Places, At, Active
<1>2. CASE MergeFindsTheExpected(b)
  BY <1>1, <1>2, GoStep DEF MergeFindsTheExpected, around
<1>3. CASE Streamed(b)
  BY <1>1, <1>3, GoStep DEF Streamed, around
<1>4. CASE Watched(b)
  BY <1>1, <1>4, GoStep DEF Watched, around
<1>5. CASE KeepCanonical(b)
  BY <1>1, <1>5, GoStep DEF KeepCanonical, around
<1>6. CASE Observe(b)
  <2> DEFINE p == IF cmd[b].mode = "inspect" THEN "assert" ELSE "lock"
  <2>1. p \in {"assert", "lock"} /\ Go(b, p) /\ cmd[b].pc = "observe"
        /\ UNCHANGED <<registry, around>>
    BY <1>6 DEF Observe
  <2> HIDE DEF p
  <2> QED
    BY <1>1, <2>1, GoStep DEF around
<1>7. CASE Refuse(b)
  <2>1. Active(b)
    BY <1>7 DEF Refuse, Refused
  <2> QED
    BY <1>1, <1>7, <2>1, GoStep DEF Refuse, around
<1>8. CASE Stop(b)
  BY <1>1, <1>8, GoStep DEF Stop
<1>9. CASE Begin(b)
  <2>1. overlapped' \in BOOLEAN /\ (overlapped => overlapped')
        /\ (overlapped' \/ \A a \in Commands : ~ Active(a))
    BY <1>1, <1>9 DEF Begin
  <2> QED
    BY <1>1, <1>9, <2>1, GoStep DEF Begin
<1> QED
  BY <1>2, <1>3, <1>4, <1>5, <1>6, <1>7, <1>8, <1>9

\* a command that means to write a tag
GoMerge(b, k, v, e, t) == cmd' = [cmd EXCEPT ![b] = Merging(b, k, v, e, t)]

LEMMA MergingFields ==
    ASSUME TypeOK, NEW b \in Commands,
           NEW k \in {"proof", "check"}, NEW v \in AnyTag,
           NEW e \in AnyTag, NEW t \in Places,
           GoMerge(b, k, v, e, t)
    PROVE  /\ cmd' = [cmd EXCEPT ![b] = cmd'[b]] /\ cmd'[b] \in CommandRecords
           /\ cmd'[b].pc = "merge" /\ cmd'[b].key = k /\ cmd'[b].value = v /\ cmd'[b].then = t
           /\ cmd'[b].component = cmd[b].component /\ cmd'[b].base = cmd[b].base
           /\ cmd'[b].known = cmd[b].known /\ cmd'[b].digest = cmd[b].digest
           /\ cmd'[b].context = cmd[b].context
<1>1. cmd[b] \in CommandRecords /\ cmd \in [Commands -> CommandRecords]
  BY DEF TypeOK
<1>2. "merge" \in Places
  BY DEF Places, Merges
<1>3. cmd' = [cmd EXCEPT ![b] = cmd'[b]] /\ cmd'[b] = Merging(b, k, v, e, t)
  BY <1>1 DEF GoMerge
<1>4. cmd'[b] \in CommandRecords
  BY <1>1, <1>2, <1>3 DEF CommandRecords, Merging
<1> QED
  BY <1>1, <1>3, <1>4 DEF CommandRecords, Merging

\* a command that goes on in a new way; what its new place rests on is named
LEMMA TurnStep ==
    ASSUME IInv, NEW b \in Commands, UNCHANGED <<registry, around>>, Active(b),
           cmd' = [cmd EXCEPT ![b] = cmd'[b]], cmd'[b] \in CommandRecords,
           cmd'[b].component = cmd[b].component, cmd'[b].base = cmd[b].base,
           Intending(b)', Writing(b)', Digested(b)', Asking(b)', Inspected(b)', Secured(b)',
           Stage(b)' = "submit" => Stage(b) = "submit" \/ Built(cmd[b].component) = {},
           cmd'[b].pc = "submit" => proof[cmd[b].component] # None
    PROVE  IInv'
<1>1. Good(b)'
  BY DEF IInv, Core, Good, OnBase, registry
<1>2. Core'
  BY <1>1, CommandStep DEF IInv, Core, TypeOK, around
<1> QED
  BY <1>2, AloneStep DEF IInv, around

-----------------------------------------------------------------------------
(* A command looks at a component *)

LEMMA LookTurn ==
    ASSUME IInv, NEW b \in Commands, Look(b)
    PROVE  IInv'
<1>1. cmd[b] \in CommandRecords /\ cmd \in [Commands -> CommandRecords]
      /\ canonical[cmd[b].component] \in Digests \cup {Foreign}
  BY DEF IInv, Core, TypeOK, CommandRecords
<1>2. /\ cmd' = [cmd EXCEPT ![b] = cmd'[b]]
      /\ cmd'[b].pc = "state"
      /\ cmd'[b].component = cmd[b].component /\ cmd'[b].base = cmd[b].base
      /\ Active(b) /\ UNCHANGED <<registry, around>>
  BY <1>1 DEF Look, CommandRecords, Active, Ended, At
<1>3. cmd'[b] \in CommandRecords
  <2>1. "state" \in Places
    BY DEF Places
  <2> QED
    BY <1>1, <2>1 DEF Look, CommandRecords
<1>4. /\ Intending(b)' /\ Writing(b)' /\ Digested(b)' /\ Asking(b)' /\ Inspected(b)'
      /\ Secured(b)' /\ Stage(b)' # "submit"
  BY <1>2 DEF Intending, Writing, Digested, Asking, Inspected, Secured, Stage,
              Merges, Building, Checking, Promoting
<1> QED
  BY <1>2, <1>3, <1>4, TurnStep

\* a verified image is what its proof tells of
LEMMA FindVerifiedTurn ==
    ASSUME IInv, NEW b \in Commands, FindVerified(b)
    PROVE  IInv'
<1> DEFINE c == cmd[b].component  r == cmd[b].seen
<1>1. cmd[b] \in CommandRecords /\ cmd \in [Commands -> CommandRecords] /\ c \in Components
      /\ proof[c] \in Tags \cup {None}
  BY DEF IInv, Core, TypeOK, CommandRecords
<1>2. proof[c] = Proof(r, cmd[b].base) /\ Trusted(r, c) /\ State(b) = "verified"
  BY DEF FindVerified, Verified, VerifiedRecord, Fingerprint
<1>3. r \in Digests
  BY <1>2, TrustedIsNumber DEF IInv, Core
<1>4. /\ cmd' = [cmd EXCEPT ![b] = cmd'[b]]
      /\ cmd'[b].pc = "context" /\ cmd'[b].digest = r
      /\ cmd'[b].component = cmd[b].component /\ cmd'[b].base = cmd[b].base
      /\ Active(b) /\ UNCHANGED <<registry, around>>
  BY <1>1 DEF FindVerified, CommandRecords, Active, Ended, At
<1>5. cmd'[b] \in CommandRecords
  <2>1. "context" \in Places
    BY DEF Places
  <2> QED
    BY <1>1, <1>3, <2>1 DEF FindVerified, CommandRecords
<1>6. Stands(r, c, cmd[b].base)
  <2>1. proof[c] # None
    BY <1>2 DEF State, BuildState
  <2> QED
    BY <1>1, <1>2, <2>1 DEF IInv, Core, ProofHolds, Proof, Stands
<1>7. /\ Intending(b)' /\ Writing(b)' /\ Digested(b)' /\ Asking(b)' /\ Inspected(b)'
      /\ Secured(b)' /\ Stage(b)' # "submit"
  BY <1>4, <1>6 DEF Intending, Writing, Digested, Asking, Inspected, Secured, Stage, Stands,
       Trusted, registry, Merges, Building, Checking, Promoting
<1> QED
  BY <1>4, <1>5, <1>7, TurnStep

\* a receipt is stored under the command's own nonce, where there was none
LEMMA FindNothingTurn ==
    ASSUME IInv, NEW b \in Commands, FindNothing(b)
    PROVE  IInv'
<1> DEFINE c == cmd[b].component  tag == Pending(b, cmd[b].base, None)
<1>1. cmd[b] \in CommandRecords /\ cmd \in [Commands -> CommandRecords] /\ c \in Components
      /\ TypeOK /\ Good(b)
  BY DEF IInv, Core, TypeOK, CommandRecords
<1>2. /\ tag \in Tags /\ tag.kind # "v2" /\ tag.nonce = b /\ tag.base = cmd[b].base
  BY <1>1 DEF Pending, Tags, CommandRecords, Digests
<1>3. proof[c] = None /\ cmd[b].pc = "state" /\ UNCHANGED <<registry, around>>
      /\ GoMerge(b, "proof", tag, None, "submit")
  BY DEF GoMerge, FindNothing, Missing, State, BuildState, Fingerprint, At
<1>4. tag \in AnyTag /\ None \in AnyTag /\ "submit" \in Places
  BY <1>2 DEF AnyTag, Places, Building
<1> HIDE DEF tag
<1>5. /\ cmd' = [cmd EXCEPT ![b] = cmd'[b]] /\ cmd'[b] \in CommandRecords
      /\ cmd'[b].pc = "merge" /\ cmd'[b].key = "proof" /\ cmd'[b].value = tag
      /\ cmd'[b].then = "submit"
      /\ cmd'[b].component = cmd[b].component /\ cmd'[b].base = cmd[b].base
  BY <1>1, <1>3, <1>4, MergingFields
<1>6. Writing(b)'
  BY <1>1, <1>2, <1>5
     DEF Writing, Intent, Nonces, Origin, Good, OnBase, Components, CommandRecords
<1>7. Built(c) = {}
  BY <1>1, <1>3 DEF IInv, Recorded
<1>8. /\ Intending(b)' /\ Digested(b)' /\ Asking(b)' /\ Inspected(b)'
      /\ Secured(b)' /\ Stage(b)' = "submit" /\ cmd'[b].pc # "submit" /\ Active(b)
  BY <1>3, <1>5 DEF Intending, Digested, Asking, Inspected, Secured, Stage,
              Active, Ended, Merges, Building, Checking, Promoting
<1> QED
  BY <1>3, <1>5, <1>6, <1>7, <1>8, TurnStep

\* a stored receipt is the intent of the command that stored it
LEMMA FindPendingTurn ==
    ASSUME IInv, NEW b \in Commands, FindPending(b)
    PROVE  IInv'
<1> DEFINE c == cmd[b].component  p == IF proof[c].run = None THEN "resolve" ELSE "finish"
<1>1. cmd[b] \in CommandRecords /\ cmd \in [Commands -> CommandRecords] /\ c \in Components
      /\ proof[c] \in Tags \cup {None}
  BY DEF IInv, Core, TypeOK, CommandRecords
<1>2. proof[c] # None /\ proof[c].kind # "v2" /\ proof[c].base = cmd[b].base
  BY DEF FindPending, Resumable, State, BuildState, Fingerprint
<1>3. p \in {"resolve", "finish"} /\ p \in Places
  BY DEF Places, Building
<1>4. /\ cmd' = [cmd EXCEPT ![b].known = proof[c], ![b].pc = p]
      /\ Active(b) /\ UNCHANGED <<registry, around>>
  BY DEF FindPending, Active, Ended, At
<1> HIDE DEF p
<1>5. /\ cmd' = [cmd EXCEPT ![b] = cmd'[b]] /\ cmd'[b] \in CommandRecords
      /\ cmd'[b].pc = p /\ cmd'[b].known = proof[c]
      /\ cmd'[b].component = cmd[b].component /\ cmd'[b].base = cmd[b].base
  BY <1>1, <1>3, <1>4 DEF CommandRecords
<1>6. Intent(proof[c]) /\ Origin(c, proof[c].nonce, cmd[b].base)
  BY <1>1, <1>2 DEF IInv, Core, TagOrigins
<1>7. \A n \in Commands : cmd'[n].component = cmd[n].component /\ cmd'[n].base = cmd[n].base
  BY <1>1, <1>4, <1>5
<1>8. Intending(b)'
  BY <1>2, <1>5, <1>6, <1>7 DEF Intending, Intent, Origin
<1>9. /\ Writing(b)' /\ Digested(b)' /\ Asking(b)' /\ Inspected(b)'
      /\ Secured(b)' /\ Stage(b)' # "submit" /\ cmd'[b].pc # "submit"
  BY <1>3, <1>5 DEF Writing, Digested, Asking, Inspected, Secured, Stage,
              Merges, Building, Checking, Promoting
<1> QED
  BY <1>4, <1>5, <1>8, <1>9, TurnStep

\* the operator names a run: the receipt is of its own nonce
LEMMA RecoverTurn ==
    ASSUME IInv, NEW b \in Commands, Recover(b)
    PROVE  IInv'
<1> DEFINE r == cmd[b].recover  tag == Recovery(runs[r].nonce, None, r)
<1>1. cmd[b] \in CommandRecords /\ cmd \in [Commands -> CommandRecords]
      /\ TypeOK /\ Good(b)
  BY DEF IInv, Core, TypeOK, CommandRecords
<1>2. cmd[b].component = "api" /\ Trusted(r, "api") /\ cmd[b].base = None
  BY <1>1 DEF Recover, Recoverable, Recovers, Good, OnBase
<1>3. runs[r].nonce \in Nonces /\ r \in Nat /\ proof["api"] \in AnyTag
  <2>1. r \in DOMAIN runs
    BY <1>2 DEF Trusted
  <2>2. runs[r].nonce \in Nonces
    BY <1>1, <2>1, RunTyped
  <2>3. proof["api"] \in AnyTag
    BY <1>1 DEF TypeOK, AnyTag, Components
  <2> QED
    BY <1>1, <1>2, <2>2, <2>3, TrustedIsNumber
<1>4. tag \in Tags /\ tag.kind # "v2" /\ tag.nonce = runs[r].nonce /\ tag.base = None
  BY <1>3 DEF Recovery, Tags, Nonces
<1>5. cmd[b].pc = "state" /\ UNCHANGED <<registry, around>>
      /\ GoMerge(b, "proof", tag, proof["api"], "finish")
  BY DEF GoMerge, Recover, At
<1>6. tag \in AnyTag /\ "finish" \in Places
  BY <1>4 DEF AnyTag, Places, Building
<1> HIDE DEF tag
<1>7. /\ cmd' = [cmd EXCEPT ![b] = cmd'[b]] /\ cmd'[b] \in CommandRecords
      /\ cmd'[b].pc = "merge" /\ cmd'[b].key = "proof" /\ cmd'[b].value = tag
      /\ cmd'[b].then = "finish"
      /\ cmd'[b].component = cmd[b].component /\ cmd'[b].base = cmd[b].base
  BY <1>1, <1>3, <1>5, <1>6, MergingFields
<1>8. Writing(b)'
  BY <1>2, <1>3, <1>4, <1>7 DEF Writing, Intent, Origin
<1>9. /\ Intending(b)' /\ Digested(b)' /\ Asking(b)' /\ Inspected(b)'
      /\ Secured(b)' /\ Stage(b)' # "submit" /\ cmd'[b].pc # "submit" /\ Active(b)
  BY <1>5, <1>7 DEF Intending, Digested, Asking, Inspected, Secured, Stage,
              Active, Ended, Merges, Building, Checking, Promoting
<1> QED
  BY <1>5, <1>7, <1>8, <1>9, TurnStep

-----------------------------------------------------------------------------
(* A tag is written *)

\* the tag says what the command meant: its intent is the command's own
LEMMA MergeFindsTurn ==
    ASSUME IInv, NEW b \in Commands, MergeFindsItsValue(b)
    PROVE  IInv'
<1> DEFINE c == cmd[b].component  t == cmd[b].then
           k == IF cmd[b].key = "proof" THEN cmd[b].value ELSE cmd[b].known
<1>1. cmd[b] \in CommandRecords /\ cmd \in [Commands -> CommandRecords] /\ c \in Components
      /\ Good(b) /\ TypeOK
  BY DEF IInv, Core, TypeOK, CommandRecords
<1>2. /\ cmd[b].pc \in Merges /\ t \in Places /\ cmd[b].key \in {"proof", "check"}
      /\ (IF cmd[b].key = "proof" THEN proof[c] ELSE receipt[c]) = cmd[b].value
      /\ UNCHANGED <<registry, around>>
      /\ cmd' = [cmd EXCEPT ![b].pc = t, ![b].known = k, ![b].value = None,
                            ![b].expected = None, ![b].then = "idle"]
  BY <1>1 DEF MergeFindsItsValue, Merged, WrittenTag, Tag, At, Merges, CommandRecords
<1>3. Writing(b) /\ TagOrigins
  BY <1>1 DEF Good, IInv, Core
<1>4. k \in Tags \cup {None} /\ (cmd[b].key = "proof" => k # None)
  <2>1. CASE cmd[b].key = "proof" /\ t = "proved"
    <3>1. Stands(cmd[b].digest, c, cmd[b].base)
      BY <1>1, <1>2, <2>1 DEF Good, Digested, Stage, Promoting
    <3>2. cmd[b].digest \in Nat
      BY <1>1, <3>1, TrustedIsNumber DEF Stands
    <3>3. Proof(cmd[b].digest, cmd[b].base) \in Tags
      BY <1>1, <3>2 DEF Proof, Tags, CommandRecords, Digests
    <3> QED
      BY <1>2, <1>3, <2>1, <3>3, NoTagAssumption DEF Writing, Intent
  <2>2. CASE cmd[b].key = "proof" /\ t # "proved"
    BY <1>2, <1>3, <2>2, NoTagAssumption DEF Writing, Intent
  <2>3. CASE cmd[b].key # "proof"
    BY <1>1, <2>3 DEF CommandRecords
  <2> QED
    BY <2>1, <2>2, <2>3
<1> HIDE DEF k
<1>5. /\ cmd' = [cmd EXCEPT ![b] = cmd'[b]] /\ cmd'[b] \in CommandRecords
      /\ cmd'[b].pc = t /\ cmd'[b].then = "idle" /\ cmd'[b].known = k
      /\ cmd'[b].component = c /\ cmd'[b].base = cmd[b].base
      /\ cmd'[b].digest = cmd[b].digest /\ cmd'[b].context = cmd[b].context
  <2>1. None \in AnyTag /\ "idle" \in Places
    BY DEF AnyTag, Places, Ended
  <2>2. cmd' = [cmd EXCEPT ![b] = cmd'[b]]
    BY <1>1, <1>2
  <2>3. cmd'[b] \in CommandRecords
    BY <1>1, <1>2, <1>4, <2>1 DEF CommandRecords
  <2> QED
    BY <1>1, <1>2, <2>2, <2>3 DEF CommandRecords
<1>6. t \notin Merges /\ Stage(b) = t /\ Stage(b)' = t
  BY <1>2, <1>3, <1>5 DEF Writing, Stage, Merges
<1>7. \A n \in Commands : cmd'[n].component = cmd[n].component /\ cmd'[n].base = cmd[n].base
  BY <1>1, <1>5
<1>8. Intending(b)'
  <2> SUFFICES ASSUME t \in Building
               PROVE  /\ Intent(k) /\ k.base = cmd[b].base
                      /\ Origin(c, k.nonce, cmd[b].base)
    BY <1>5, <1>7 DEF Intending, Intent, Origin
  <2> QED
    BY <1>2, <1>3 DEF Writing, Building, k
<1>9. Writing(b)' /\ Digested(b)' /\ Asking(b)' /\ Inspected(b)' /\ Secured(b)'
  BY <1>1, <1>2, <1>5, <1>6 DEF Good, Writing, Digested, Asking, Inspected, Secured, Stands,
       Trusted, Passed, registry
<1>10. /\ Active(b) /\ (Stage(b)' = "submit" => Stage(b) = "submit")
       /\ cmd'[b].pc = "submit" => proof[c] # None
  BY <1>2, <1>3, <1>4, <1>5, <1>6 DEF Active, Ended, Merges, Writing, k
<1> QED
  BY <1>2, <1>5, <1>8, <1>9, <1>10, TurnStep

-----------------------------------------------------------------------------
(* The build of a component *)

\* the nonce of a run is its command's: so is what the run was built on
LEMMA OwnBase ==
    ASSUME IInv, NEW b \in Commands, cmd[b].pc \in Building, NEW r,
           Trusted(r, cmd[b].component), runs[r].nonce = cmd[b].known.nonce
    PROVE  Stands(r, cmd[b].component, cmd[b].base)
<1>1. /\ Origin(cmd[b].component, runs[r].nonce, runs[r].base)
      /\ Origin(cmd[b].component, cmd[b].known.nonce, cmd[b].base)
  BY DEF IInv, Core, RunOrigins, Good, Intending, Trusted
<1> QED
  BY <1>1 DEF Origin, Stands

LEMMA ResolveTurn ==
    ASSUME IInv, NEW b \in Commands, Resolve(b)
    PROVE  IInv'
<1> DEFINE found == MatchingRuns(cmd[b].component, cmd[b].known.nonce)
           r == CHOOSE r \in found : TRUE
           tag == Pending(cmd[b].known.nonce, cmd[b].base, r)
<1>1. cmd[b] \in CommandRecords /\ cmd \in [Commands -> CommandRecords]
      /\ TypeOK /\ Good(b)
  BY DEF IInv, Core, TypeOK, CommandRecords
<1>2. cmd[b].pc = "resolve" /\ UNCHANGED <<registry, around>>
      /\ GoMerge(b, "proof", tag, cmd[b].known, "finish")
  BY DEF Resolve, GoMerge, Fingerprint, At
<1>3. r \in Nat
  <2>1. found \in SUBSET (1 .. Len(runs)) /\ Len(runs) \in Nat
    BY <1>1 DEF MatchingRuns, TypeOK
  <2>2. found # {}
    BY FS_EmptySet DEF Resolve
  <2>3. r \in found
    BY <2>2
  <2> HIDE DEF r, found
  <2> QED
    BY <2>1, <2>3
<1>4. /\ Intent(cmd[b].known) /\ cmd[b].known.base = cmd[b].base
      /\ Origin(cmd[b].component, cmd[b].known.nonce, cmd[b].base)
  BY <1>1, <1>2 DEF Good, Intending, Building
<1> HIDE DEF r
<1>5. tag \in Tags /\ tag.kind # "v2" /\ tag.nonce = cmd[b].known.nonce /\ tag.base = cmd[b].base
  BY <1>1, <1>3, <1>4 DEF Pending, Tags, Intent, Nonces, CommandRecords, Digests
<1>6. tag \in AnyTag /\ cmd[b].known \in AnyTag /\ "finish" \in Places
  BY <1>4, <1>5 DEF AnyTag, Intent, Places, Building
<1> HIDE DEF tag
<1>7. /\ cmd' = [cmd EXCEPT ![b] = cmd'[b]] /\ cmd'[b] \in CommandRecords
      /\ cmd'[b].pc = "merge" /\ cmd'[b].key = "proof" /\ cmd'[b].value = tag
      /\ cmd'[b].then = "finish"
      /\ cmd'[b].component = cmd[b].component /\ cmd'[b].base = cmd[b].base
  BY <1>1, <1>2, <1>6, MergingFields
<1>8. \A n \in Commands : cmd'[n].component = cmd[n].component /\ cmd'[n].base = cmd[n].base
  BY <1>1, <1>7
<1>9. Writing(b)'
  BY <1>4, <1>5, <1>7, <1>8 DEF Writing, Intent, Origin
<1>10. /\ Intending(b)' /\ Digested(b)' /\ Asking(b)' /\ Inspected(b)'
       /\ Secured(b)' /\ Stage(b)' # "submit" /\ cmd'[b].pc # "submit" /\ Active(b)
  BY <1>2, <1>7 DEF Intending, Digested, Asking, Inspected, Secured, Stage,
              Active, Ended, Merges, Building, Checking, Promoting
<1> QED
  BY <1>2, <1>7, <1>9, <1>10, TurnStep

LEMMA FinishTurn ==
    ASSUME IInv, NEW b \in Commands, Finish(b)
    PROVE  IInv'
<1> DEFINE r == cmd[b].known.run
<1>1. cmd[b] \in CommandRecords /\ cmd \in [Commands -> CommandRecords] /\ TypeOK
  BY DEF IInv, Core, TypeOK, CommandRecords
<1>2. cmd[b].pc = "finish" /\ Trusted(r, cmd[b].component) /\ UNCHANGED <<registry, around>>
      /\ runs[r].nonce = cmd[b].known.nonce
  BY DEF Finish, FreshRecord, At
<1>3. r \in Digests /\ Stands(r, cmd[b].component, cmd[b].base)
  BY <1>1, <1>2, TrustedIsNumber, OwnBase DEF Building
<1>4. /\ cmd' = [cmd EXCEPT ![b] = cmd'[b]]
      /\ cmd'[b].pc = "context" /\ cmd'[b].digest = r
      /\ cmd'[b].component = cmd[b].component /\ cmd'[b].base = cmd[b].base
  BY <1>1 DEF Finish, CommandRecords
<1>5. cmd'[b] \in CommandRecords
  <2>1. "context" \in Places
    BY DEF Places
  <2> QED
    BY <1>1, <1>3, <2>1 DEF Finish, CommandRecords
<1>6. /\ Intending(b)' /\ Writing(b)' /\ Digested(b)' /\ Asking(b)' /\ Inspected(b)'
      /\ Secured(b)' /\ Stage(b)' # "submit" /\ cmd'[b].pc # "submit" /\ Active(b)
  BY <1>2, <1>3, <1>4 DEF Intending, Writing, Digested, Asking, Inspected, Secured, Stage, Stands,
              Trusted, registry, Active, Ended, Merges, Building, Checking, Promoting
<1> QED
  BY <1>2, <1>4, <1>5, <1>6, TurnStep

-----------------------------------------------------------------------------
(* Its inspection *)

\* what a command asks about is the image it found, on the base it has
LEMMA ContextTyped ==
    ASSUME IInv, NEW b \in Commands
    PROVE  Context(b) \in Contexts /\ Context(b).digest = cmd[b].digest
<1>1. cmd[b].digest \in Digests /\ cmd[b].base \in Digests /\ tools \in {1, 2}
  BY DEF IInv, Core, TypeOK, CommandRecords
<1> QED
  BY <1>1 DEF Context, Contexts, Fingerprint

LEMMA RequestCheckTurn ==
    ASSUME IInv, NEW b \in Commands, RequestCheck(b)
    PROVE  IInv'
<1> DEFINE ctx == Context(b)  tag == Unchecked(ctx)  e == receipt[cmd[b].component]
<1>1. cmd[b] \in CommandRecords /\ cmd \in [Commands -> CommandRecords] /\ TypeOK /\ Good(b)
  BY DEF IInv, Core, TypeOK, CommandRecords
<1>2. cmd[b].pc = "context" /\ UNCHANGED <<registry, around>>
      /\ cmd' = [cmd EXCEPT ![b] = [Merging(b, "check", tag, e, "verify") EXCEPT !.context = ctx]]
  BY DEF RequestCheck, At
<1>3. ctx \in Contexts /\ ctx.digest = cmd[b].digest
  BY ContextTyped
<1>4. tag \in CheckTags /\ tag \in AnyTag /\ e \in AnyTag
  BY <1>1, <1>3 DEF Unchecked, CheckTags, AnyTag, Digests, TypeOK, CommandRecords
<1>5. "verify" \in Places /\ "merge" \in Places
  BY DEF Places, Checking, Merges
<1> HIDE DEF ctx, tag, e
<1>6. /\ cmd' = [cmd EXCEPT ![b] = cmd'[b]]
      /\ cmd'[b] = [Merging(b, "check", tag, e, "verify") EXCEPT !.context = ctx]
  BY <1>1, <1>2
<1>7. cmd'[b] \in CommandRecords
  BY <1>1, <1>3, <1>4, <1>5, <1>6 DEF CommandRecords, Merging
<1>8. /\ cmd'[b].pc = "merge" /\ cmd'[b].key = "check" /\ cmd'[b].value = tag
      /\ cmd'[b].then = "verify" /\ cmd'[b].context = ctx /\ cmd'[b].digest = cmd[b].digest
      /\ cmd'[b].component = cmd[b].component /\ cmd'[b].base = cmd[b].base
  BY <1>1, <1>6 DEF CommandRecords, Merging
<1>9. Digested(b)'
  BY <1>1, <1>2, <1>8 DEF Good, Digested, Stage, Stands, Trusted, registry, Merges
<1>10. /\ Intending(b)' /\ Writing(b)' /\ Asking(b)' /\ Inspected(b)'
       /\ Secured(b)' /\ Stage(b)' # "submit" /\ cmd'[b].pc # "submit" /\ Active(b)
  BY <1>2, <1>3, <1>4, <1>8 DEF Intending, Writing, Asking, Inspected, Secured, Stage,
              Active, Ended, Merges, Building, Checking, Promoting
<1> QED
  BY <1>2, <1>6, <1>7, <1>8, <1>9, <1>10, TurnStep

LEMMA ResumeCheckTurn ==
    ASSUME IInv, NEW b \in Commands, ResumeCheck(b)
    PROVE  IInv'
<1> DEFINE ctx == Context(b)
<1>1. cmd[b] \in CommandRecords /\ cmd \in [Commands -> CommandRecords] /\ TypeOK /\ Good(b)
  BY DEF IInv, Core, TypeOK, CommandRecords
<1>2. cmd[b].pc = "context" /\ UNCHANGED <<registry, around>>
      /\ cmd' = [cmd EXCEPT ![b].pc = "report", ![b].context = ctx]
  BY DEF ResumeCheck, At
<1>3. ctx \in Contexts /\ ctx.digest = cmd[b].digest
  BY ContextTyped
<1>4. "report" \in Places
  BY DEF Places, Checking
<1> HIDE DEF ctx
<1>5. cmd' = [cmd EXCEPT ![b] = cmd'[b]] /\ cmd'[b] \in CommandRecords
  BY <1>1, <1>2, <1>3, <1>4 DEF CommandRecords
<1>6. /\ cmd'[b].pc = "report" /\ cmd'[b].context = ctx /\ cmd'[b].digest = cmd[b].digest
      /\ cmd'[b].component = cmd[b].component /\ cmd'[b].base = cmd[b].base
  BY <1>1, <1>2 DEF CommandRecords
<1>7. Digested(b)'
  BY <1>1, <1>2, <1>6 DEF Good, Digested, Stage, Stands, Trusted, registry, Merges
<1>8. /\ Intending(b)' /\ Writing(b)' /\ Asking(b)' /\ Inspected(b)'
      /\ Secured(b)' /\ Stage(b)' # "submit" /\ cmd'[b].pc # "submit" /\ Active(b)
  BY <1>2, <1>3, <1>6 DEF Intending, Writing, Asking, Inspected, Secured, Stage,
              Active, Ended, Merges, Building, Checking, Promoting
<1> QED
  BY <1>2, <1>5, <1>6, <1>7, <1>8, TurnStep

\* an earlier verification is used again only for this very image
LEMMA ReuseCheckTurn ==
    ASSUME IInv, NEW b \in Commands, ReuseCheck(b)
    PROVE  IInv'
<1> DEFINE ctx == Context(b)
<1>1. cmd[b] \in CommandRecords /\ cmd \in [Commands -> CommandRecords] /\ TypeOK /\ Good(b)
  BY DEF IInv, Core, TypeOK, CommandRecords
<1>2. cmd[b].pc = "context" /\ UNCHANGED <<registry, around>>
      /\ cmd' = [cmd EXCEPT ![b].pc = "promote", ![b].context = ctx]
  BY DEF ReuseCheck, At
<1>3. ctx \in Contexts /\ ctx.digest = cmd[b].digest
  BY ContextTyped
<1>4. Passed(cmd[b].digest, cmd[b].component)
  BY <1>3 DEF ReuseCheck, Reusable, CheckSucceeded, Passed
<1>5. "promote" \in Places
  BY DEF Places, Promoting
<1> HIDE DEF ctx
<1>6. cmd' = [cmd EXCEPT ![b] = cmd'[b]] /\ cmd'[b] \in CommandRecords
  BY <1>1, <1>2, <1>3, <1>5 DEF CommandRecords
<1>7. /\ cmd'[b].pc = "promote" /\ cmd'[b].digest = cmd[b].digest
      /\ cmd'[b].component = cmd[b].component /\ cmd'[b].base = cmd[b].base
  BY <1>1, <1>2 DEF CommandRecords
<1>8. Digested(b)'
  BY <1>1, <1>2, <1>7 DEF Good, Digested, Stage, Stands, Trusted, registry, Merges
<1>9. /\ Intending(b)' /\ Writing(b)' /\ Asking(b)' /\ Inspected(b)'
      /\ Secured(b)' /\ Stage(b)' # "submit" /\ cmd'[b].pc # "submit" /\ Active(b)
  BY <1>2, <1>4, <1>7 DEF Intending, Writing, Asking, Inspected, Secured, Stage, Passed, registry,
              Active, Ended, Merges, Building, Checking, Promoting
<1> QED
  BY <1>2, <1>6, <1>7, <1>8, <1>9, TurnStep

LEMMA ReportTurn ==
    ASSUME IInv, NEW b \in Commands, Report(b)
    PROVE  IInv'
<1> DEFINE ctx == cmd[b].context
           v == CHOOSE v \in MatchingChecks(b) : TRUE
           tag == Checked(ctx, v)
<1>1. cmd[b] \in CommandRecords /\ cmd \in [Commands -> CommandRecords] /\ TypeOK /\ Good(b)
  BY DEF IInv, Core, TypeOK, CommandRecords
<1>2. cmd[b].pc = "report" /\ UNCHANGED <<registry, around>>
      /\ GoMerge(b, "check", tag, Unchecked(ctx), "promote")
  BY DEF Report, GoMerge, At
<1>3. ctx \in Contexts /\ ctx.digest = cmd[b].digest
  BY <1>1, <1>2 DEF Good, Asking, Stage, Merges, Checking
<1>4. v \in DOMAIN checks /\ CheckSucceeded(v, cmd[b].component, ctx)
  <2>1. MatchingChecks(b) # {}
    BY FS_EmptySet DEF Report
  <2>2. v \in MatchingChecks(b)
    BY <2>1
  <2> HIDE DEF v
  <2> QED
    BY <2>2 DEF MatchingChecks
<1> HIDE DEF v
<1>5. v \in Digests
  BY <1>1, <1>4 DEF TypeOK, Digests
<1>6. Passed(cmd[b].digest, cmd[b].component)
  BY <1>3, <1>4 DEF CheckSucceeded, Passed
<1>7. tag \in CheckTags /\ tag \in AnyTag /\ Unchecked(ctx) \in AnyTag /\ "promote" \in Places
  BY <1>3, <1>5 DEF Checked, Unchecked, CheckTags, AnyTag, Digests, Places, Promoting
<1> HIDE DEF ctx, tag
<1>8. /\ cmd' = [cmd EXCEPT ![b] = cmd'[b]] /\ cmd'[b] \in CommandRecords
      /\ cmd'[b].pc = "merge" /\ cmd'[b].key = "check" /\ cmd'[b].value = tag
      /\ cmd'[b].then = "promote" /\ cmd'[b].digest = cmd[b].digest
      /\ cmd'[b].component = cmd[b].component /\ cmd'[b].base = cmd[b].base
  BY <1>1, <1>2, <1>7, MergingFields
<1>9. Digested(b)'
  BY <1>1, <1>2, <1>8 DEF Good, Digested, Stage, Stands, Trusted, registry, Merges, Checking
<1>10. /\ Intending(b)' /\ Writing(b)' /\ Asking(b)' /\ Inspected(b)'
       /\ Secured(b)' /\ Stage(b)' # "submit" /\ cmd'[b].pc # "submit" /\ Active(b)
  BY <1>2, <1>6, <1>7, <1>8 DEF Intending, Writing, Asking, Inspected, Secured, Stage, Passed,
       registry, Active, Ended, Merges, Building, Checking, Promoting
<1> QED
  BY <1>2, <1>8, <1>9, <1>10, TurnStep

-----------------------------------------------------------------------------
(* The proof of a component, and the next one *)

LEMMA AssertLockTurn ==
    ASSUME IInv, NEW b \in Commands, AssertLock(b)
    PROVE  IInv'
<1> DEFINE c == cmd[b].component  tag == Proof(cmd[b].digest, cmd[b].base)
<1>1. cmd[b] \in CommandRecords /\ cmd \in [Commands -> CommandRecords] /\ TypeOK /\ Good(b)
  BY DEF IInv, Core, TypeOK, CommandRecords
<1>2. cmd[b].pc = "assert" /\ UNCHANGED <<registry, around>>
      /\ locked[c] /\ canonical[c] = cmd[b].digest
  BY DEF AssertLock, At
<1>3. CASE ~ cmd[b].created
  <2>1. Go(b, "proved")
    BY <1>3 DEF AssertLock
  <2>2. "proved" \in Places \ {"submit"} /\ Active(b) /\ cmd[b].pc \in Promoting
    BY <1>2 DEF Places, Promoting, Active, Ended
  <2> QED
    BY <1>1, <1>2, <2>1, <2>2, GoStep DEF around, TypeOK
<1>4. CASE cmd[b].created
  <2>1. GoMerge(b, "proof", tag, cmd[b].known, "proved")
    BY <1>4 DEF AssertLock, GoMerge, Fingerprint
  <2>2. Stands(cmd[b].digest, c, cmd[b].base) /\ Passed(cmd[b].digest, c)
    BY <1>1, <1>2 DEF Good, Digested, Inspected, Stage, Merges, Promoting
  <2>3. cmd[b].digest \in Nat
    BY <1>1, <2>2, TrustedIsNumber DEF Stands
  <2>4. tag \in AnyTag /\ cmd[b].known \in AnyTag /\ "proved" \in Places
    BY <1>1, <2>3 DEF Proof, Tags, AnyTag, Digests, CommandRecords, Places, Promoting
  <2> HIDE DEF tag
  <2>5. /\ cmd' = [cmd EXCEPT ![b] = cmd'[b]] /\ cmd'[b] \in CommandRecords
        /\ cmd'[b].pc = "merge" /\ cmd'[b].key = "proof" /\ cmd'[b].value = tag
        /\ cmd'[b].then = "proved" /\ cmd'[b].digest = cmd[b].digest
        /\ cmd'[b].component = cmd[b].component /\ cmd'[b].base = cmd[b].base
    BY <1>1, <2>1, <2>4, MergingFields
  <2>6. Writing(b)'
    BY <2>5 DEF Writing, Proof, tag
  <2>7. Digested(b)' /\ Inspected(b)' /\ Secured(b)'
    BY <1>2, <2>2, <2>5 DEF Digested, Inspected, Secured, Stands, Trusted, Passed, registry
  <2>8. /\ Intending(b)' /\ Asking(b)' /\ Stage(b)' # "submit" /\ cmd'[b].pc # "submit" /\ Active(b)
    BY <1>2, <2>5 DEF Intending, Asking, Stage, Active, Ended, Merges, Building, Checking,
         Promoting
  <2> QED
    BY <1>2, <2>5, <2>6, <2>7, <2>8, TurnStep
<1> QED
  BY <1>3, <1>4

LEMMA NextComponentTurn ==
    ASSUME IInv, NEW b \in Commands, NextComponent(b)
    PROVE  IInv'
<1>1. cmd[b] \in CommandRecords /\ cmd \in [Commands -> CommandRecords] /\ TypeOK /\ Good(b)
  BY DEF IInv, Core, TypeOK, CommandRecords
<1>2. cmd[b].pc = "proved" /\ UNCHANGED <<registry, around>> /\ Active(b)
  BY DEF NextComponent, At, Active, Ended
<1>3. CASE cmd[b].component # "api"
  <2>1. Go(b, "done") /\ "done" \in Places \ {"submit"} /\ Onward(cmd[b].pc, "done")
    BY <1>3 DEF NextComponent, Places, Ended, Onward
  <2> QED
    BY <1>1, <1>2, <2>1, GoStep DEF around, TypeOK
<1>4. CASE cmd[b].component = "api"
  <2>1. /\ Stands(cmd[b].digest, "api", cmd[b].base)
        /\ locked["api"] /\ canonical["api"] = cmd[b].digest
    BY <1>1, <1>2, <1>4 DEF Good, Digested, Secured, Stage, Merges, Promoting
  <2>2. cmd[b].digest \in Nat
    BY <1>1, <2>1, TrustedIsNumber DEF Stands
  <2>3. /\ cmd' = [cmd EXCEPT ![b] = cmd'[b]]
        /\ cmd'[b].pc = "look" /\ cmd'[b].component = "provisioner"
        /\ cmd'[b].base = cmd[b].digest
    BY <1>1, <1>4 DEF NextComponent, CommandRecords
  <2>4. cmd'[b] \in CommandRecords
    <3>1. "look" \in Places /\ "provisioner" \in Components
      BY DEF Places, Components
    <3> QED
      BY <1>1, <1>4, <3>1 DEF NextComponent, CommandRecords, Digests
  <2>5. Good(b)'
    BY <1>2, <2>1, <2>2, <2>3
       DEF Good, OnBase, Intending, Writing, Digested, Asking, Inspected, Secured, Stage,
           registry, Merges, Building, Checking, Promoting
  <2>6. Stage(b)' # "submit" /\ cmd'[b].pc # "submit"
    BY <2>3 DEF Stage, Merges
  <2>7. Core'
    BY <1>1, <1>2, <1>4, <2>3, <2>4, <2>5, CommandStep DEF IInv, TypeOK, around
  <2> QED
    BY <1>2, <2>3, <2>6, <2>7, AloneStep DEF IInv, around
<1> QED
  BY <1>3, <1>4

-----------------------------------------------------------------------------
(* The registry changes *)

\* after a step that takes nothing back, with what it may have added shown apart
LEMMA RegistryStep ==
    ASSUME Core, Grows, TypeOK', \A a \in Commands : cmd'[a] = cmd[a] \/ Good(a)',
           runs' = runs \/ RunOrigins', proof' = proof \/ (TagOrigins' /\ ProofHolds'),
           checks' = checks \/ ReportsHold', canonical' = canonical \/ PromotedPassed'
    PROVE  Core'
<1>1. \A a \in Commands : Good(a)'
  <2> SUFFICES ASSUME NEW a \in Commands PROVE Good(a)'
    OBVIOUS
  <2> QED
    BY GoodKept
<1> QED
  BY <1>1, RunOriginsKept, TagOriginsKept, ReportsKept, PromotedKept, ProofHoldsKept DEF Core

LEMMA RegistryAlone ==
    ASSUME IInv, \A c : Built(c)' = Built(c), overlapped' = overlapped,
           \A c \in Components : proof[c] # None => proof'[c] # None,
           \A a \in Commands : Active(a)' => Active(a),
           \A a \in Commands : cmd'[a].component = cmd[a].component,
           \A a \in Commands : cmd'[a].pc = "submit" => cmd[a].pc = "submit",
           \A a \in Commands : Stage(a)' = "submit" => Stage(a) = "submit"
    PROVE  Recorded' /\ Alone'
<1>1. \A a \in Commands : cmd[a].component \in Components
  BY DEF IInv, Core, TypeOK, CommandRecords
<1>2. Recorded'
  BY <1>1 DEF IInv, Recorded
<1>3. Alone'
  BY DEF IInv, Alone
<1> QED
  BY <1>2, <1>3

\* a command that goes on while it changes the registry
LEMMA GoAlone ==
    ASSUME IInv, NEW b \in Commands, NEW p \in Places \ {"submit"}, Go(b, p), Active(b),
           Onward(cmd[b].pc, p), \A c : Built(c)' = Built(c), overlapped' = overlapped,
           \A c \in Components : proof[c] # None => proof'[c] # None
    PROVE  Recorded' /\ Alone'
<1>1. /\ cmd' = [cmd EXCEPT ![b] = cmd'[b]] /\ cmd'[b].pc = p
      /\ cmd'[b].component = cmd[b].component /\ cmd'[b].then = cmd[b].then
  BY GoFields DEF IInv, Core
<1>2. \A a \in Commands : a # b => cmd'[a] = cmd[a]
  BY <1>1 DEF IInv, Core, TypeOK
<1>3. Stage(b)' = "submit" => Stage(b) = "submit"
  BY <1>1 DEF Stage, Onward, Ended, Merges, Building, Checking, Promoting
<1>4. \A a \in Commands : /\ Active(a)' => Active(a)
                          /\ cmd'[a].component = cmd[a].component
                          /\ cmd'[a].pc = "submit" => cmd[a].pc = "submit"
                          /\ Stage(a)' = "submit" => Stage(a) = "submit"
  <2> SUFFICES ASSUME NEW a \in Commands
               PROVE  /\ Active(a)' => Active(a)
                      /\ cmd'[a].component = cmd[a].component
                      /\ cmd'[a].pc = "submit" => cmd[a].pc = "submit"
                      /\ Stage(a)' = "submit" => Stage(a) = "submit"
    OBVIOUS
  <2>1. CASE a = b
    BY <1>1, <1>3, <2>1
  <2>2. CASE a # b
    BY <1>2, <2>2 DEF Active, Stage
  <2> QED
    BY <2>1, <2>2
<1> QED
  BY <1>4, RegistryAlone

LEMMA GoType ==
    ASSUME TypeOK, NEW b \in Commands, NEW p \in Places, Go(b, p)
    PROVE  /\ cmd' \in [Commands -> CommandRecords]
           /\ \A a \in Commands : a # b => cmd'[a] = cmd[a]
           /\ \A a \in Commands : cmd'[a].component = cmd[a].component /\ cmd'[a].base = cmd[a].base
  BY GoFields DEF TypeOK

\* the tag is written as the command meant it, whatever it says by now
LEMMA MergeWritesStep ==
    ASSUME IInv, NEW b \in Commands, MergeWrites(b)
    PROVE  IInv'
<1> DEFINE c == cmd[b].component
<1>1. TypeOK /\ Core /\ Good(b) /\ cmd[b] \in CommandRecords /\ c \in Components
  BY DEF IInv, Core, TypeOK, CommandRecords
<1>2. /\ cmd[b].pc = "write" /\ Go(b, "reread") /\ Active(b) /\ Stage(b) = cmd[b].then
      /\ UNCHANGED <<runs, checks, canonical, locked, tools, overlapped>>
  BY DEF MergeWrites, At, Active, Ended, around, Stage, Merges
<1>3. "reread" \in Places \ {"submit"} /\ Onward(cmd[b].pc, "reread")
  BY <1>2 DEF Places, Merges, Onward
<1>4. Grows
  BY <1>1, <1>2, <1>3, GoType DEF Grows, Trusted, Passed
<1>5. Good(b)'
  BY <1>1, <1>2, <1>3, <1>4, GoGood
<1>6. CASE cmd[b].key # "proof"
  <2>1. proof' = proof /\ receipt' = [receipt EXCEPT ![c] = cmd[b].value]
    BY <1>6 DEF MergeWrites
  <2>2. cmd[b].value \in CheckTags
    BY <1>1, <1>2, <1>6 DEF Good, Writing, Merges, CommandRecords
  <2>3. TypeOK'
    BY <1>1, <1>2, <1>3, <2>1, <2>2, GoType DEF TypeOK
  <2>4. Core'
    <3>1. \A a \in Commands : cmd'[a] = cmd[a] \/ Good(a)'
      BY <1>1, <1>2, <1>3, <1>5, GoType
    <3>2. /\ runs' = runs \/ RunOrigins'
          /\ proof' = proof \/ (TagOrigins' /\ ProofHolds')
          /\ checks' = checks \/ ReportsHold'
          /\ canonical' = canonical \/ PromotedPassed'
      BY <1>2, <2>1
    <3> QED
      BY <1>1, <1>4, <2>3, <3>1, <3>2, RegistryStep
  <2>5. \A d : Built(d)' = Built(d)
    BY <1>2 DEF Built
  <2> QED
    BY <1>2, <1>3, <2>1, <2>4, <2>5, GoAlone DEF IInv
<1>7. CASE cmd[b].key = "proof"
  <2> DEFINE tag == cmd[b].value
  <2>1. proof' = [proof EXCEPT ![c] = tag] /\ receipt' = receipt
    BY <1>7 DEF MergeWrites
  <2>2. \/ cmd[b].then = "proved" /\ tag = Proof(cmd[b].digest, cmd[b].base)
        \/ Intent(tag) /\ tag.base = cmd[b].base /\ Origin(c, tag.nonce, cmd[b].base)
    BY <1>1, <1>2, <1>7 DEF Good, Writing, Merges
  <2>3. cmd[b].then = "proved" =>
           /\ Stands(cmd[b].digest, c, cmd[b].base) /\ Passed(cmd[b].digest, c)
           /\ locked[c] /\ canonical[c] = cmd[b].digest
    BY <1>1, <1>2 DEF Good, Digested, Inspected, Secured, Promoting
  <2>4. tag \in Tags
    <3>1. cmd[b].then = "proved" => cmd[b].digest \in Nat
      BY <1>1, <2>3, TrustedIsNumber DEF Stands
    <3> QED
      BY <1>1, <2>2, <3>1 DEF Proof, Tags, Intent, CommandRecords, Digests
  <2> HIDE DEF tag
  <2>5. proof'[c] = tag /\ \A d \in Components : d # c => proof'[d] = proof[d]
    BY <1>1, <2>1 DEF TypeOK
  <2>6. TypeOK'
    BY <1>1, <1>2, <1>3, <2>1, <2>4, GoType DEF TypeOK
  <2>7. TagOrigins'
    <3>1. \A n \in Commands : cmd'[n].component = cmd[n].component /\ cmd'[n].base = cmd[n].base
      BY <1>1, <1>2, <1>3, GoType
    <3>2. tag.kind # "v2" => Intent(tag) /\ Origin(c, tag.nonce, tag.base)
      BY <2>2 DEF Proof
    <3> QED
      BY <1>1, <2>5, <3>1, <3>2 DEF Core, TagOrigins, Intent, Origin
  <2>8. ProofHolds'
    <3> SUFFICES ASSUME NEW d \in Components, proof'[d] # None, proof'[d].kind = "v2"
                 PROVE  LET r == proof'[d].run IN
                        /\ canonical[d] = r /\ locked[d]
                        /\ Trusted(r, d) /\ runs[r].base = proof'[d].base
                        /\ \E v \in DOMAIN checks : checks[v].state = "succeeded"
                                                 /\ checks[v].context.digest = r
                        /\ d = "provisioner" => canonical["api"] = proof'[d].base /\ locked["api"]
      BY <1>2 DEF ProofHolds, Trusted
    <3>1. CASE d # c
      BY <1>1, <2>5, <3>1 DEF Core, ProofHolds
    <3>2. CASE d = c
      <4>1. tag = Proof(cmd[b].digest, cmd[b].base) /\ cmd[b].then = "proved"
        BY <2>2, <2>5, <3>2 DEF Intent
      <4>2. c = "provisioner" => canonical["api"] = cmd[b].base /\ locked["api"]
        BY <1>1 DEF Good, OnBase
      <4> QED
        BY <2>3, <2>5, <3>2, <4>1, <4>2 DEF Proof, Stands, Passed
    <3> QED
      BY <3>1, <3>2
  <2>9. Core'
    BY <1>1, <1>2, <1>3, <1>4, <1>5, <2>6, <2>7, <2>8, GoType, RegistryStep
  <2>10. \A d : Built(d)' = Built(d)
    BY <1>2 DEF Built
  <2>11. \A d \in Components : proof[d] # None => proof'[d] # None
    BY <2>4, <2>5, NoTagAssumption
  <2> QED
    BY <1>2, <1>3, <2>9, <2>10, <2>11, GoAlone DEF IInv
<1> QED
  BY <1>6, <1>7

\* the run is submitted under the nonce of the stored receipt
LEMMA SubmitStep ==
    ASSUME IInv, NEW b \in Commands, Submit(b)
    PROVE  IInv'
<1> DEFINE c == cmd[b].component
           new == [component |-> c, nonce |-> cmd[b].known.nonce, base |-> cmd[b].base,
                   state |-> "running", image |-> None]
           m == Len(runs) + 1
<1>1. TypeOK /\ Core /\ Good(b) /\ cmd[b] \in CommandRecords /\ c \in Components
  BY DEF IInv, Core, TypeOK, CommandRecords
<1>2. /\ cmd[b].pc = "submit" /\ Go(b, "stream") /\ Active(b)
      /\ runs' = Append(runs, new)
      /\ UNCHANGED <<checks, proof, receipt, canonical, locked, tools, overlapped>>
  BY DEF Submit, At, Active, Ended, around
<1>3. /\ "stream" \in Places \ {"submit"} /\ Onward(cmd[b].pc, "stream")
      /\ Stage(b) = "submit" /\ cmd[b].pc \in Building
  BY <1>2 DEF Places, Building, Onward, Stage, Merges
<1>4. Intent(cmd[b].known) /\ Origin(c, cmd[b].known.nonce, cmd[b].base)
  BY <1>1, <1>3 DEF Good, Intending
<1>5. new \in RunRecords
  BY <1>1, <1>4 DEF RunRecords, Intent, Images, CommandRecords
<1> HIDE DEF new
<1>6. /\ runs' \in Seq(RunRecords) /\ DOMAIN runs' = DOMAIN runs \cup {m} /\ runs'[m] = new
      /\ m \notin DOMAIN runs /\ \A r \in DOMAIN runs : runs'[r] = runs[r]
  BY <1>1, <1>2, <1>5 DEF TypeOK
<1>7. \A a \in Commands : /\ a # b => cmd'[a] = cmd[a]
                          /\ cmd'[a].component = cmd[a].component /\ cmd'[a].base = cmd[a].base
  BY <1>1, <1>2, <1>3, GoType
<1>8. Grows
  BY <1>2, <1>6, <1>7 DEF Grows, Trusted, Passed
<1>9. Good(b)'
  BY <1>1, <1>2, <1>3, <1>8, GoGood
<1>10. TypeOK'
  BY <1>1, <1>2, <1>3, <1>6, GoType DEF TypeOK
<1>11. RunOrigins'
  <2>1. Origin(new.component, new.nonce, new.base)
    BY <1>4 DEF new
  <2> QED
    BY <1>1, <1>6, <1>7, <2>1 DEF Core, RunOrigins, Origin
<1>12. Core'
  BY <1>1, <1>2, <1>7, <1>8, <1>9, <1>10, <1>11, RegistryStep
<1>13. \A d : Built(d)' \subseteq Built(d) \cup {m} /\ (m \in Built(d)' => d = c)
  BY <1>6 DEF Built, new
<1>14. Recorded'
  <2>1. proof[c] # None
    BY <1>2 DEF IInv, Recorded
  <2>2. \A a \in Commands : cmd'[a].pc = "submit" => cmd[a].pc = "submit"
    BY <1>1, <1>2, <1>3, <1>7, GoFields
  <2> QED
    BY <1>2, <1>7, <1>13, <2>1, <2>2 DEF IInv, Recorded
<1>15. Alone'
  <2> SUFFICES ASSUME ~ overlapped
               PROVE  /\ \A a, d \in Commands : Active(a)' /\ Active(d)' => a = d
                      /\ \A a \in Commands : Stage(a)' = "submit" => Built(cmd[a].component)' = {}
                      /\ \A d \in Components : \A r, s \in Built(d)' : r = s
    BY <1>2 DEF Alone
  <2>1. /\ \A a, d \in Commands : Active(a) /\ Active(d) => a = d
        /\ Built(c) = {} /\ \A d \in Components : \A r, s \in Built(d) : r = s
    BY <1>3 DEF IInv, Alone
  <2>2. cmd'[b].pc = "stream"
    BY <1>1, <1>2, <1>3, GoFields
  <2>3. \A a \in Commands : Active(a)' => Active(a)
    BY <1>2, <1>7, <2>2 DEF Active
  <2>4. \A a \in Commands : Stage(a)' # "submit"
    <3> SUFFICES ASSUME NEW a \in Commands, Stage(a)' = "submit" PROVE FALSE
      OBVIOUS
    <3>1. a # b /\ Stage(a) = "submit"
      BY <1>7, <2>2 DEF Stage, Merges
    <3>2. Active(a)
      BY <3>1 DEF Stage, Active, Ended, Merges
    <3> QED
      BY <1>2, <2>1, <3>1, <3>2
  <2>5. \A d \in Components : \A r, s \in Built(d)' : r = s
    BY <1>13, <2>1
  <2> QED
    BY <2>1, <2>3, <2>4, <2>5
<1> QED
  BY <1>12, <1>14, <1>15 DEF IInv

LEMMA SubmitCheckStep ==
    ASSUME IInv, NEW b \in Commands, SubmitCheck(b)
    PROVE  IInv'
<1> DEFINE c == cmd[b].component
           new == [component |-> c, context |-> cmd[b].context, state |-> "running"]
           m == Len(checks) + 1
<1>1. TypeOK /\ Core /\ Good(b) /\ c \in Components
      /\ cmd[b] \in CommandRecords /\ cmd \in [Commands -> CommandRecords]
  BY DEF IInv, Core, TypeOK, CommandRecords
<1>2. /\ cmd[b].pc = "verify" /\ Active(b)
      /\ checks' = Append(checks, new)
      /\ cmd' = [cmd EXCEPT ![b].pc = "watch", ![b].check = m]
      /\ UNCHANGED <<runs, proof, receipt, canonical, locked, tools, overlapped>>
  BY DEF SubmitCheck, At, Active, Ended, around
<1>3. /\ Stands(cmd[b].digest, c, cmd[b].base)
      /\ cmd[b].context \in Contexts /\ cmd[b].context.digest = cmd[b].digest
  BY <1>1, <1>2 DEF Good, Digested, Asking, Stage, Merges, Checking
<1>4. new \in CheckRecords /\ m \in Digests /\ "watch" \in Places
  BY <1>1, <1>3 DEF CheckRecords, Digests, Places, Checking, TypeOK
<1>5. /\ new.state = "running" /\ new.component = c /\ new.context.digest = cmd[b].digest
  BY <1>3
<1>6. checks' \in Seq(CheckRecords)
  BY <1>1, <1>2, <1>4 DEF TypeOK
<1>7. /\ DOMAIN checks' = DOMAIN checks \cup {m} /\ checks'[m] = new
      /\ m \notin DOMAIN checks /\ \A v \in DOMAIN checks : checks'[v] = checks[v]
  BY <1>1, <1>2 DEF TypeOK
<1> HIDE DEF new, m
<1>8. /\ cmd' = [cmd EXCEPT ![b] = cmd'[b]] /\ cmd'[b] \in CommandRecords
      /\ cmd'[b].pc = "watch" /\ cmd'[b].component = c /\ cmd'[b].base = cmd[b].base
      /\ cmd'[b].digest = cmd[b].digest /\ cmd'[b].context = cmd[b].context
  <2>1. cmd' = [cmd EXCEPT ![b] = cmd'[b]]
    BY <1>1, <1>2
  <2>2. cmd'[b] \in CommandRecords
    BY <1>1, <1>2, <1>4 DEF CommandRecords
  <2> QED
    BY <1>1, <1>2, <2>1, <2>2 DEF CommandRecords
<1>9. \A a \in Commands : /\ a # b => cmd'[a] = cmd[a]
                          /\ cmd'[a].component = cmd[a].component /\ cmd'[a].base = cmd[a].base
  BY <1>1, <1>8
<1>10. Grows
  <2>1. \A r, d : Passed(r, d) => Passed(r, d)'
    BY <1>7 DEF Passed
  <2>2. \A r, d : Trusted(r, d) => Trusted(r, d)'
    BY <1>2 DEF Trusted
  <2> QED
    BY <1>2, <1>9, <2>1, <2>2 DEF Grows
<1>11. Good(b)'
  BY <1>1, <1>2, <1>3, <1>8
     DEF Good, OnBase, Intending, Writing, Digested, Asking, Inspected, Secured, Stage, Stands,
         Trusted, Merges, Building, Checking, Promoting
<1>12. TypeOK'
  BY <1>1, <1>2, <1>6, <1>8 DEF TypeOK
<1>13. ReportsHold'
  BY <1>1, <1>2, <1>3, <1>5, <1>7 DEF Core, ReportsHold, Stands, Trusted
<1>14. Core'
  BY <1>1, <1>2, <1>9, <1>10, <1>11, <1>12, <1>13, RegistryStep
<1>15. \A d : Built(d)' = Built(d)
  BY <1>2 DEF Built
<1>16. \A a \in Commands : /\ Active(a)' => Active(a)
                           /\ cmd'[a].pc = "submit" => cmd[a].pc = "submit"
                           /\ Stage(a)' = "submit" => Stage(a) = "submit"
  BY <1>2, <1>8, <1>9 DEF Active, Stage, Merges
<1> QED
  BY <1>2, <1>9, <1>14, <1>15, <1>16, RegistryAlone DEF IInv

\* the canonical tag is made from an image that stands and was inspected
LEMMA ImportStep ==
    ASSUME IInv, NEW b \in Commands, Import(b)
    PROVE  IInv'
<1> DEFINE c == cmd[b].component  d == cmd[b].digest
<1>1. TypeOK /\ Core /\ Good(b) /\ cmd[b] \in CommandRecords /\ c \in Components
  BY DEF IInv, Core, TypeOK, CommandRecords
<1>2. /\ cmd[b].pc = "promote" /\ Go(b, "observe") /\ Active(b) /\ canonical[c] = None
      /\ canonical' = [canonical EXCEPT ![c] = d]
      /\ UNCHANGED <<runs, checks, proof, receipt, locked, tools, overlapped>>
  BY DEF Import, At, Active, Ended, around
<1>3. "observe" \in Places \ {"submit"} /\ Onward(cmd[b].pc, "observe")
  BY <1>2 DEF Places, Promoting, Onward
<1>4. Stands(d, c, cmd[b].base) /\ Passed(d, c)
  BY <1>1, <1>2 DEF Good, Digested, Inspected, Stage, Merges, Promoting
<1>5. d \in Digests
  BY <1>1 DEF CommandRecords
<1>6. /\ canonical'[c] = d /\ \A e \in Components : e # c => canonical'[e] = canonical[e]
      /\ canonical' \in [Components -> Digests \cup {Foreign}]
  BY <1>1, <1>2, <1>5 DEF TypeOK
<1>7. Grows
  BY <1>1, <1>2, <1>3, <1>6, GoType DEF Grows, Trusted, Passed
<1>8. Good(b)'
  BY <1>1, <1>2, <1>3, <1>7, GoGood
<1>9. TypeOK'
  BY <1>1, <1>2, <1>3, <1>6, GoType DEF TypeOK
<1>10. PromotedPassed'
  <2>1. runs[d].image \in Passing[c] /\ Trusted(d, c)
    <3>1. PICK v \in DOMAIN checks : /\ checks[v].state = "succeeded"
                                     /\ checks[v].component = c /\ checks[v].context.digest = d
      BY <1>4 DEF Passed
    <3> QED
      BY <1>1, <1>4, <3>1 DEF Core, ReportsHold, Stands
  <2> QED
    BY <1>1, <1>2, <1>6, <2>1 DEF Core, PromotedPassed, Trusted
<1>11. \A a \in Commands : cmd'[a] = cmd[a] \/ Good(a)'
  BY <1>1, <1>2, <1>3, <1>8, GoType
<1>12. Core'
  BY <1>1, <1>2, <1>7, <1>9, <1>10, <1>11, RegistryStep
<1>13. \A e : Built(e)' = Built(e)
  BY <1>2 DEF Built
<1> QED
  BY <1>2, <1>3, <1>12, <1>13, GoAlone DEF IInv

LEMMA LockStep ==
    ASSUME IInv, NEW b \in Commands, Lock(b)
    PROVE  IInv'
<1> DEFINE c == cmd[b].component
<1>1. TypeOK /\ Core /\ Good(b) /\ cmd[b] \in CommandRecords /\ c \in Components
  BY DEF IInv, Core, TypeOK, CommandRecords
<1>2. /\ cmd[b].pc = "lock" /\ Go(b, "assert") /\ Active(b)
      /\ locked' = [locked EXCEPT ![c] = TRUE]
      /\ UNCHANGED <<runs, checks, proof, receipt, canonical, tools, overlapped>>
  BY DEF Lock, At, Active, Ended, around
<1>3. "assert" \in Places \ {"submit"} /\ Onward(cmd[b].pc, "assert")
  BY <1>2 DEF Places, Promoting, Onward
<1>4. locked' \in [Components -> BOOLEAN] /\ \A e \in Components : locked[e] => locked'[e]
  BY <1>1, <1>2 DEF TypeOK
<1>5. Grows
  BY <1>1, <1>2, <1>3, <1>4, GoType DEF Grows, Trusted, Passed
<1>6. Good(b)'
  BY <1>1, <1>2, <1>3, <1>5, GoGood
<1>7. TypeOK'
  BY <1>1, <1>2, <1>3, <1>4, GoType DEF TypeOK
<1>8. \A a \in Commands : cmd'[a] = cmd[a] \/ Good(a)'
  BY <1>1, <1>2, <1>3, <1>6, GoType
<1>9. Core'
  BY <1>1, <1>2, <1>5, <1>7, <1>8, RegistryStep
<1>10. \A e : Built(e)' = Built(e)
  BY <1>2 DEF Built
<1> QED
  BY <1>2, <1>3, <1>9, <1>10, GoAlone DEF IInv

\* a step of somebody else leaves the commands where they are
LEMMA OthersAlone ==
    ASSUME IInv, cmd' = cmd, proof' = proof, overlapped' = overlapped,
           \A c : Built(c)' = Built(c)
    PROVE  Recorded' /\ Alone'
  BY RegistryAlone DEF Active, Stage

\* a run that ends stood for nothing before
LEMMA EndRunStep ==
    ASSUME IInv, NEW r \in DOMAIN runs, EndRun(r)
    PROVE  IInv'
<1>1. TypeOK /\ Core
  BY DEF IInv, Core
<1>2. UNCHANGED <<checks, proof, receipt, canonical, locked, tools, overlapped, cmd>>
  BY DEF EndRun, around
<1>3. runs[r] \in RunRecords /\ runs[r].state = "running" /\ runs[r].component \in Components
  <2>1. runs[r] \in RunRecords
    BY <1>1 DEF TypeOK
  <2> QED
    BY <1>1, <2>1, RunTyped DEF EndRun
<1>4. PICK rec \in RunRecords :
         /\ runs' = [runs EXCEPT ![r] = rec]
         /\ rec.component = runs[r].component /\ rec.nonce = runs[r].nonce
         /\ rec.base = runs[r].base
  <2>1. CASE runs' = [runs EXCEPT ![r].state = "failed"]
    <3>1. [runs[r] EXCEPT !.state = "failed"] \in RunRecords
      BY <1>3 DEF RunRecords
    <3> QED
      BY <1>1, <1>3, <2>1, <3>1 DEF TypeOK, RunRecords
  <2>2. CASE \E i \in Outputs[runs[r].component] :
                 runs' = [runs EXCEPT ![r].state = "succeeded", ![r].image = i]
    <3>1. PICK i \in Outputs[runs[r].component] :
                 runs' = [runs EXCEPT ![r].state = "succeeded", ![r].image = i]
      BY <2>2
    <3>2. i \in Images
      BY <1>3, <3>1 DEF Images, Components
    <3>3. [[runs[r] EXCEPT !.state = "succeeded"] EXCEPT !.image = i] \in RunRecords
      BY <1>3, <3>2 DEF RunRecords
    <3> QED
      BY <1>1, <1>3, <3>1, <3>3 DEF TypeOK, RunRecords
  <2> QED
    BY <2>1, <2>2 DEF EndRun
<1>5. /\ runs' \in Seq(RunRecords) /\ DOMAIN runs' = DOMAIN runs /\ runs'[r] = rec
      /\ \A s \in DOMAIN runs : s # r => runs'[s] = runs[s]
  BY <1>1, <1>4 DEF TypeOK
<1>6. Grows
  <2>1. \A s, c : Trusted(s, c) => /\ Trusted(s, c)' /\ runs'[s] = runs[s]
    BY <1>3, <1>5 DEF Trusted
  <2>2. \A s, c : Passed(s, c) => Passed(s, c)'
    BY <1>2 DEF Passed
  <2> QED
    BY <1>2, <2>1, <2>2 DEF Grows
<1>7. TypeOK'
  BY <1>1, <1>2, <1>5 DEF TypeOK
<1>8. RunOrigins'
  BY <1>1, <1>2, <1>4, <1>5 DEF Core, RunOrigins, Origin
<1>9. Core'
  BY <1>1, <1>2, <1>6, <1>7, <1>8, RegistryStep
<1>10. \A c : Built(c)' = Built(c)
  BY <1>4, <1>5 DEF Built
<1> QED
  BY <1>2, <1>9, <1>10, OthersAlone DEF IInv

\* a verification succeeds only on an image that passes
LEMMA EndCheckStep ==
    ASSUME IInv, NEW v \in DOMAIN checks, EndCheck(v)
    PROVE  IInv'
<1>1. TypeOK /\ Core
  BY DEF IInv, Core
<1>2. UNCHANGED <<runs, proof, receipt, canonical, locked, tools, overlapped, cmd>>
  BY DEF EndCheck, around
<1>3. checks[v] \in CheckRecords /\ checks[v].state = "running"
  BY <1>1 DEF EndCheck, TypeOK
<1>4. PICK end \in {"failed", "succeeded"} :
         /\ checks' = [checks EXCEPT ![v].state = end]
         /\ end = "succeeded" =>
                runs[checks[v].context.digest].image \in Passing[checks[v].component]
  BY DEF EndCheck
<1>5. /\ checks'[v] \in CheckRecords /\ checks'[v].state = end
      /\ checks'[v].component = checks[v].component /\ checks'[v].context = checks[v].context
  BY <1>1, <1>3, <1>4 DEF CheckRecords, TypeOK
<1>6. /\ checks' \in Seq(CheckRecords) /\ DOMAIN checks' = DOMAIN checks
      /\ \A w \in DOMAIN checks : w # v => checks'[w] = checks[w]
  <2>1. checks' = [checks EXCEPT ![v] = checks'[v]]
    BY <1>1, <1>4 DEF TypeOK
  <2> QED
    BY <1>1, <1>5, <2>1 DEF TypeOK
<1>7. Grows
  <2>1. \A r, c : Passed(r, c) => Passed(r, c)'
    BY <1>3, <1>6 DEF Passed
  <2>2. \A r, c : Trusted(r, c) => Trusted(r, c)'
    BY <1>2 DEF Trusted
  <2> QED
    BY <1>2, <2>1, <2>2 DEF Grows
<1>8. TypeOK'
  BY <1>1, <1>2, <1>6 DEF TypeOK
<1>9. ReportsHold'
  <2>1. \A w \in DOMAIN checks :
           /\ checks'[w].component = checks[w].component /\ checks'[w].context = checks[w].context
           /\ checks'[w].state = "succeeded" => checks[w].state = "succeeded" \/ w = v
    BY <1>5, <1>6
  <2> QED
    BY <1>1, <1>2, <1>4, <1>5, <1>6, <2>1 DEF Core, ReportsHold, Trusted
<1>10. Core'
  BY <1>1, <1>2, <1>7, <1>8, <1>9, RegistryStep
<1>11. \A c : Built(c)' = Built(c)
  BY <1>2 DEF Built
<1> QED
  BY <1>2, <1>10, <1>11, OthersAlone DEF IInv

\* somebody pushes only a tag that is not locked
LEMMA PushStep ==
    ASSUME IInv, NEW c \in Components, Push(c)
    PROVE  IInv'
<1>1. TypeOK /\ Core
  BY DEF IInv, Core
<1>2. /\ ~ locked[c] /\ canonical' = [canonical EXCEPT ![c] = Foreign]
      /\ UNCHANGED <<runs, checks, proof, receipt, locked, tools, overlapped, cmd>>
  BY DEF Push
<1>3. /\ canonical'[c] = Foreign /\ \A e \in Components : e # c => canonical'[e] = canonical[e]
      /\ canonical' \in [Components -> Digests \cup {Foreign}]
  BY <1>1, <1>2 DEF TypeOK
<1>4. Grows
  BY <1>2, <1>3 DEF Grows, Trusted, Passed
<1>5. TypeOK'
  BY <1>1, <1>2, <1>3 DEF TypeOK
<1>6. PromotedPassed'
  BY <1>1, <1>2, <1>3 DEF Core, PromotedPassed, Trusted
<1>7. Core'
  BY <1>1, <1>2, <1>4, <1>5, <1>6, RegistryStep
<1>8. \A e : Built(e)' = Built(e)
  BY <1>2 DEF Built
<1> QED
  BY <1>2, <1>7, <1>8, OthersAlone DEF IInv

LEMMA UpdateToolsStep == IInv /\ UpdateTools => IInv'
<1> SUFFICES ASSUME IInv, UpdateTools
             PROVE  IInv'
  OBVIOUS
<1>1. TypeOK /\ Core
  BY DEF IInv, Core
<1>2. tools' = 2 /\ UNCHANGED <<runs, checks, proof, receipt, canonical, locked, overlapped, cmd>>
  BY DEF UpdateTools, registry
<1>3. Grows
  BY <1>2 DEF Grows, Trusted, Passed
<1>4. TypeOK'
  BY <1>1, <1>2 DEF TypeOK
<1>5. Core'
  BY <1>1, <1>2, <1>3, <1>4, RegistryStep
<1>6. \A e : Built(e)' = Built(e)
  BY <1>2 DEF Built
<1> QED
  BY <1>2, <1>5, <1>6, OthersAlone DEF IInv

-----------------------------------------------------------------------------
(* The inductive invariant *)

LEMMA InitInv == Init => IInv
<1> SUFFICES ASSUME Init
             PROVE  IInv
  OBVIOUS
<1>1. cmd \in [Commands -> CommandRecords]
  <2> SUFFICES ASSUME NEW mode \in Modes
               PROVE  Fresh(mode) \in CommandRecords
    BY DEF Init
  <2>1. "idle" \in Places /\ "api" \in Components /\ None \in AnyTag /\ None \in Digests
    BY DEF Places, Ended, Components, AnyTag, Digests
  <2> QED
    BY <2>1 DEF Fresh, CommandRecords
<1>2. \A b \in Commands : cmd[b].pc = "idle" /\ cmd[b].component = "api" /\ cmd[b].base = None
  BY DEF Init, Fresh
<1>3. /\ runs \in Seq(RunRecords)
      /\ \A r \in DOMAIN runs : runs[r].component = "api" /\ runs[r].nonce = 0 /\ runs[r].base = None
  <2>1. CASE runs = << >>
    BY <2>1
  <2>2. CASE \E i \in Legacy : runs = <<[component |-> "api", nonce |-> 0, base |-> None,
                                         state |-> "succeeded", image |-> i]>>
    <3>1. PICK i \in Legacy : runs = <<[component |-> "api", nonce |-> 0, base |-> None,
                                        state |-> "succeeded", image |-> i]>>
      BY <2>2
    <3> DEFINE rec == [component |-> "api", nonce |-> 0, base |-> None,
                       state |-> "succeeded", image |-> i]
    <3>2. rec \in RunRecords
      BY DEF RunRecords, Components, Nonces, Digests, Images
    <3>3. rec.component = "api" /\ rec.nonce = 0 /\ rec.base = None
      OBVIOUS
    <3>4. runs = <<rec>>
      BY <3>1
    <3> HIDE DEF rec
    <3> QED
      BY <3>2, <3>3, <3>4
  <2> QED
    BY <2>1, <2>2 DEF Init
<1>4. TypeOK
  <2>1. << >> \in Seq(CheckRecords)
    OBVIOUS
  <2>2. /\ checks = << >> /\ tools = 1 /\ overlapped = FALSE
        /\ \A c \in Components : /\ proof[c] = None /\ receipt[c] = None
                                 /\ canonical[c] = None /\ locked[c] = FALSE
    BY DEF Init
  <2>3. /\ proof \in [Components -> Tags \cup {None}]
        /\ receipt \in [Components -> CheckTags \cup {None}]
        /\ canonical \in [Components -> Digests \cup {Foreign}]
        /\ locked \in [Components -> BOOLEAN]
    BY DEF Init, Digests
  <2> QED
    BY <1>1, <1>3, <2>1, <2>2, <2>3 DEF TypeOK
<1>5. \A b \in Commands : Good(b)
  BY <1>2 DEF Good, OnBase, Intending, Writing, Digested, Asking, Inspected, Secured, Stage,
              Merges, Building, Checking, Promoting
<1>6. Core
  BY <1>3, <1>4, <1>5
     DEF Init, Core, RunOrigins, TagOrigins, ReportsHold, PromotedPassed, ProofHolds, Origin
<1>7. \A c : Built(c) = {}
  BY <1>3 DEF Built
<1>8. Recorded /\ Alone
  BY <1>2, <1>7 DEF Recorded, Alone, Active, Ended, Stage, Merges
<1> QED
  BY <1>6, <1>8 DEF IInv

LEMMA StepInv == ASSUME IInv, NEW b \in Commands, Step(b) PROVE IInv'
<1>1. CASE Look(b) \/ FindVerified(b) \/ FindNothing(b) \/ FindPending(b) \/ Recover(b)
  BY <1>1, LookTurn, FindVerifiedTurn, FindNothingTurn, FindPendingTurn, RecoverTurn
<1>2. CASE MergeFindsItsValue(b) \/ MergeFindsTheExpected(b) \/ MergeWrites(b)
  BY <1>2, MergeFindsTurn, MovesOn, MergeWritesStep
<1>3. CASE Submit(b) \/ Streamed(b) \/ Resolve(b) \/ Finish(b)
  BY <1>3, SubmitStep, MovesOn, ResolveTurn, FinishTurn
<1>4. CASE RequestCheck(b) \/ ResumeCheck(b) \/ ReuseCheck(b) \/ SubmitCheck(b) \/ Watched(b)
           \/ Report(b)
  BY <1>4, RequestCheckTurn, ResumeCheckTurn, ReuseCheckTurn, SubmitCheckStep, MovesOn, ReportTurn
<1>5. CASE Import(b) \/ KeepCanonical(b) \/ Observe(b) \/ Lock(b) \/ AssertLock(b)
           \/ NextComponent(b) \/ Refuse(b)
  BY <1>5, ImportStep, MovesOn, LockStep, AssertLockTurn, NextComponentTurn
<1> QED
  BY <1>1, <1>2, <1>3, <1>4, <1>5 DEF Step

LEMMA InductiveInvariant == Spec => []IInv
<1>1. IInv /\ [Next]_vars => IInv'
  <2> SUFFICES ASSUME IInv, [Next]_vars
               PROVE  IInv'
    OBVIOUS
  <2>1. CASE \E b \in Commands : Begin(b) \/ Step(b) \/ Stop(b)
    BY <2>1, MovesOn, StepInv
  <2>2. CASE Service
    BY <2>2, EndRunStep, EndCheckStep DEF Service
  <2>3. CASE \E c \in Components : Push(c)
    BY <2>3, PushStep
  <2>4. CASE UpdateTools
    BY <2>4, UpdateToolsStep
  <2>5. CASE UNCHANGED vars
    <3>1. UNCHANGED <<runs, checks, proof, receipt, canonical, locked, tools, overlapped, cmd>>
      BY <2>5 DEF vars, registry, around
    <3>2. Core /\ TypeOK /\ TypeOK' /\ Grows
      BY <3>1 DEF IInv, Core, TypeOK, Grows, Trusted, Passed
    <3>3. Core'
      BY <3>1, <3>2, RegistryStep
    <3>4. \A c : Built(c)' = Built(c)
      BY <3>1 DEF Built
    <3> QED
      BY <3>1, <3>3, <3>4, OthersAlone DEF IInv
  <2> QED
    BY <2>1, <2>2, <2>3, <2>4, <2>5 DEF Next
<1> QED
  BY InitInv, <1>1, PTL DEF Spec

-----------------------------------------------------------------------------
(* The theorems *)

\* Every reachable state is well typed: the runs of the registry, the tags of
\* its resource, and what each command knows.
THEOREM TypeCorrect == Spec => []TypeOK
<1>1. IInv => TypeOK
  BY DEF IInv, Core
<1> QED
  BY <1>1, InductiveInvariant, PTL

\* A completed proof tells of the locked canonical image, however many commands
\* overlapped or were stopped on the way, whatever was pushed meanwhile.
THEOREM ProofsHold == Spec => []ProofHolds
<1>1. IInv => ProofHolds
  BY DEF IInv, Core
<1> QED
  BY <1>1, InductiveInvariant, PTL

\* What a command put under a canonical tag passed the inspection of its
\* component: also when an earlier command asked for it, and died.
THEOREM PromotedImagesPassed == Spec => []PromotedPassed
<1>1. IInv => PromotedPassed
  BY DEF IInv, Core
<1> QED
  BY <1>1, InductiveInvariant, PTL

\* What passes the inspection holds the files of the selected source and the
\* pinned tools, as regular files, and no bytecode but that of the sources.
HoldsTheSource(component, image) ==
    /\ \A name \in DOMAIN Expected(component) :
          /\ name \in DOMAIN image /\ IsFile(image[name])
          /\ image[name].content = Expected(component)[name]
    /\ \A name \in DOMAIN ExpectedTools(component) :
          /\ name \in DOMAIN image /\ ProperExecutable(image[name])
          /\ image[name].content = ExpectedTools(component)[name]
    /\ \A name \in DOMAIN image : (Bytecode(name) /\ image[name].kind # "dir") =>
          /\ SourceOf(name) \in DOMAIN Expected(component)
          /\ image[name].content = Compiled(Expected(component)[SourceOf(name)])

LEMMA InspectionComparesFiles ==
    ASSUME NEW component, NEW image, Inspects(component, image)
    PROVE  HoldsTheSource(component, image)
  BY DEF Inspects, HoldsTheSource, BytecodeMatches

\* Whatever a command put under a canonical tag holds the committed sources and
\* the pinned tools file by file, and no other bytecode than that of the sources.
PromotedHoldTheSource ==
    \A c \in Components : canonical[c] \in DOMAIN runs =>
        HoldsTheSource(c, Files[runs[canonical[c]].image])

\* a tag that names a run was put there by a command
LEMMA PromotedByACommand ==
    ASSUME TypeOK, PromotedPassed, NEW c \in Components, canonical[c] \in DOMAIN runs
    PROVE  runs[canonical[c]].image \in Passing[c]
<1>1. DOMAIN runs \subseteq Nat
  BY DEF TypeOK
<1> QED
  BY <1>1, NoDigestAssumption DEF PromotedPassed

THEOREM PromotedImagesHoldTheSource == Spec => []PromotedHoldTheSource
<1>1. TypeOK /\ PromotedPassed => PromotedHoldTheSource
  <2> SUFFICES ASSUME TypeOK, PromotedPassed, NEW c \in Components, canonical[c] \in DOMAIN runs
               PROVE  HoldsTheSource(c, Files[runs[canonical[c]].image])
    BY DEF PromotedHoldTheSource
  <2>1. runs[canonical[c]].image \in Passing[c]
    BY PromotedByACommand
  <2> QED
    BY <2>1, InspectionComparesFiles DEF Passing
<1> QED
  BY <1>1, TypeCorrect, PromotedImagesPassed, PTL

\* While commands do not overlap, no component is built twice, however often a
\* command was stopped and repeated.
THEOREM BuiltOnce == Spec => []NoSecondBuild
<1>1. IInv => NoSecondBuild
  <2> SUFFICES ASSUME IInv, ~ overlapped, NEW c \in Components
               PROVE  Cardinality(Built(c)) <= 1
    BY DEF NoSecondBuild, Built
  <2>1. \A r, s \in Built(c) : r = s
    BY DEF IInv, Alone
  <2>2. CASE Built(c) = {}
    BY <2>2, FS_EmptySet
  <2>3. CASE Built(c) # {}
    <3>1. PICK r : Built(c) = {r}
      BY <2>1, <2>3
    <3>2. Cardinality({r}) = 1
      BY FS_Singleton
    <3> QED
      BY <3>1, <3>2
  <2> QED
    BY <2>2, <2>3
<1> QED
  BY <1>1, InductiveInvariant, PTL
=============================================================================
