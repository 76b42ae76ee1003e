---------------------------- MODULE HarnessProofs ----------------------------
(***************************************************************************)
(* The safety of the acceptance harness (Acceptance), for any runs and     *)
(* tenants, and of the fault helper it blocks parent links with            *)
(* (FaultJournal), for any runs and restorers.                             *)
(*                                                                         *)
(* Acceptance.  What its properties promise of a pause or a blocked link   *)
(* depends on what a run has yet to do: the reconciler is scaled up again, *)
(* the link unblocked, by the rest of the script, whatever step fails.     *)
(* Shape says what the scripts have in common: the steps of a pause come   *)
(* in one order and are all there, a block that blocks a link ends with    *)
(* the step that lifts it, and no block reaches from the pause into what   *)
(* follows.  Every script has it (ScriptShape), so have its ends           *)
(* (SuffixShape), and so what is left after an error (AfterErrorShape).    *)
(* On it rest Stopped and Silent, which say of a run between two steps of  *)
(* a pause what it has seen, and Paused and Blocked, which say that who    *)
(* left something behind is about to undo it.  RunStep has the conditions  *)
(* under which a step keeps the four; most steps meet them at once         *)
(* (OrdinaryStep).  Held and Over follow a journal from the run that wrote *)
(* it to the run that continues it.                                        *)
(*                                                                         *)
(* FaultJournal.  FaultIsJournalled says nothing of a run that is about to *)
(* create its policy, or of a helper that is about to record a             *)
(* restoration.  Owns says that the journal is a run's own until it has    *)
(* restored or died, and Nothing that what a helper is about to record as  *)
(* restored is so.  Both hold because a helper that may replace the        *)
(* journal (current) either is the run the journal belongs to, holds the   *)
(* record of a run that has ended (Loaded), or holds another record and is *)
(* refused (SameIntent).  FaultJournal comes as the instance Fault of      *)
(* FaultHelper, as the two models use some of the same names.              *)
(***************************************************************************)
EXTENDS Acceptance, FaultHelper, SequenceTheorems, TLAPS

-----------------------------------------------------------------------------
(* The shape of what is left of a script *)

Proved == "immediate_child_readiness_proved"

\* The steps of a pause, in their order; those about a link come after it.
Rank(x) ==
    IF x[1] = "pause" THEN 1 ELSE IF x[1] = "stop" THEN 2 ELSE IF x[1] = "drain" THEN 3
    ELSE IF x[1] = "save" /\ x[3] = Proved THEN 4
    ELSE IF x[1] = "resume" THEN 5 ELSE IF x[1] = "scale" THEN 6
    ELSE IF x[1] = "rollout" THEN 7
    ELSE IF x[1] \in {"guard", "block", "lift"} THEN 8 ELSE 0

\* one of the steps of rank k is still to come
Ahead(s, k) == \E i \in 1..Len(s) : Rank(s[i]) = k

InOrder(s) == \A i, j \in 1..Len(s) :
    i < j /\ Rank(s[i]) # 0 /\ Rank(s[j]) # 0 =>
        Rank(s[i]) < Rank(s[j]) \/ (Rank(s[i]) = 8 /\ Rank(s[j]) = 8)

\* a pause goes on to its end
Complete(s) == \A i \in 1..Len(s) :
    Rank(s[i]) \in 1..6 => \E j \in (i + 1)..Len(s) : Rank(s[j]) = Rank(s[i]) + 1

\* nothing comes between the look at the deployment and its scaling
Adjacent(s) == \A i \in 2..Len(s) : Rank(s[i]) = 6 => Rank(s[i - 1]) = 5

\* the next block to be closed is that of link l, by the step k
LiftAt(s, l, k) ==
    s[k][1] = "lift" /\ s[k][3] = l /\ \A j \in 1..(k - 1) : s[j][1] \notin Opens \cup Closes
Lifting(s, l) == \E k \in 1..Len(s) : LiftAt(s, l, k)

\* a link that is blocked is unblocked by the step that closes the block
Blocks(s) == \A i \in 1..Len(s) :
    s[i][1] = "block" =>
        \E k \in (i + 1)..Len(s) :
            /\ s[k][1] = "lift" /\ s[k][3] = s[i][3]
            /\ \A j \in i..(k - 1) : s[j][1] \notin Opens \cup Closes

\* no block that is open before the end of a pause is closed after it
Apart(s) == \A i, k \in 1..Len(s) :
    i < k /\ Rank(s[i]) = 7 /\ s[k][1] = "lift" => \E j \in (i + 1)..(k - 1) : s[j][1] \in Opens

\* the last step is the last
Ends(s) == \A i \in 1..Len(s) : s[i][1] = "finish" => i = Len(s)

Shape(s) == InOrder(s) /\ Complete(s) /\ Adjacent(s) /\ Blocks(s) /\ Apart(s) /\ Ends(s)

\* Steps of tenants that are there; only a continuation loads the journal of another run.
StepsOf(continued) ==
    {x \in Steps : /\ x[1] = "load" => continued
                   /\ x[1] \in {"applied", "expected", "reached", "tally"} => x[2] \in Names}

Shaped == \A r \in Runs :
    /\ todo[r] \in Seq(StepsOf(from[r] # NoRun)) /\ Shape(todo[r])
    /\ todo[r] # << >> => r \in begun

-----------------------------------------------------------------------------
(* What the runs rely on *)

\* a run that continues another has read a journal that may be continued
Held == \A r \in held : from[r] \in Runs /\ Continuable(from[r])

\* from the claim on, a journal is not what its own run wrote last
Over == claimed \subseteq stale

Stopped == \A r \in Runs :
    Running(r) /\ Ahead(todo[r], 4) /\ ~ Ahead(todo[r], 2) => meddled \/ replicas = 0

Silent == \A r \in Runs :
    Running(r) /\ Ahead(todo[r], 4) /\ ~ Ahead(todo[r], 3) => meddled \/ (r \in quiet /\ ~ pod)

Gone(r) == r \in killed \cup gaveUp
Pausing(r) == Running(r) /\ Ahead(todo[r], 6) /\ ~ Ahead(todo[r], 2)

Paused == replicas = 0 => meddled \/ \E r \in Runs : Gone(r) \/ Pausing(r)

Blocked == \A l \in Links, q \in Runs :
    link[l] = q => Gone(q) \/ (Running(q) /\ Lifting(todo[q], l))

IInv == TypeOK /\ Shaped /\ Held /\ Over /\ Stopped /\ Silent /\ Paused /\ Blocked

-----------------------------------------------------------------------------
(* Sequences *)

LEMMA ConsProperties ==
    ASSUME NEW S, NEW x \in S, NEW t \in Seq(S)
    PROVE  /\ <<x>> \o t \in Seq(S) /\ Len(<<x>> \o t) = Len(t) + 1
           /\ (<<x>> \o t)[1] = x
           /\ \A i \in 1..Len(t) : (<<x>> \o t)[i + 1] = t[i]
           /\ \A i \in 2..Len(<<x>> \o t) : (<<x>> \o t)[i] = t[i - 1] /\ i - 1 \in 1..Len(t)
<1>1. <<x>> \in Seq(S) /\ Len(<<x>>) = 1 /\ <<x>>[1] = x
  OBVIOUS
<1>2. /\ <<x>> \o t \in Seq(S) /\ Len(<<x>> \o t) = 1 + Len(t)
      /\ \A i \in 1..1 + Len(t) : (<<x>> \o t)[i] = IF i <= 1 THEN <<x>>[i] ELSE t[i - 1]
  BY <1>1, ConcatProperties, Zenon
<1>3. Len(t) \in Nat
  OBVIOUS
<1> QED
  BY <1>1, <1>2, <1>3

LEMMA TwoSteps ==
    ASSUME NEW S, NEW a \in S, NEW b \in S, NEW t \in Seq(S)
    PROVE  <<a, b>> \o t = <<a>> \o (<<b>> \o t)
<1>1. <<a, b>> = <<a>> \o <<b>>
  <2>1. <<a, b>> \in Seq(S) /\ <<a>> \in Seq(S) /\ <<b>> \in Seq(S)
    OBVIOUS
  <2>2. <<a>> \o <<b>> \in Seq(S) /\ Len(<<a>> \o <<b>>) = 2
    BY <2>1
  <2>3. (<<a>> \o <<b>>)[1] = a /\ (<<a>> \o <<b>>)[2] = b
    BY <2>1
  <2>4. /\ Len(<<a, b>>) = Len(<<a>> \o <<b>>)
        /\ \A i \in 1..Len(<<a, b>>) : <<a, b>>[i] = (<<a>> \o <<b>>)[i]
    BY <2>2, <2>3
  <2> QED
    BY <2>1, <2>2, <2>4, SeqEqual, Zenon
<1>2. <<a>> \in Seq(S) /\ <<b>> \in Seq(S)
  OBVIOUS
<1> QED
  BY <1>1, <1>2, ConcatAssociative

LEMMA ThreeSteps ==
    ASSUME NEW S, NEW a \in S, NEW b \in S, NEW c \in S, NEW t \in Seq(S)
    PROVE  <<a, b, c>> \o t = <<a>> \o (<<b>> \o (<<c>> \o t))
<1>1. <<a, b, c>> = <<a>> \o <<b, c>>
  OBVIOUS
<1>2. <<a>> \in Seq(S) /\ <<b, c>> \in Seq(S)
  OBVIOUS
<1>3. (<<a>> \o <<b, c>>) \o t = <<a>> \o (<<b, c>> \o t)
  BY <1>2, ConcatAssociative
<1>4. <<b, c>> \o t = <<b>> \o (<<c>> \o t)
  BY TwoSteps
<1> QED
  BY <1>1, <1>3, <1>4, Zenon

LEMMA RestOfSequence ==
    ASSUME NEW S, NEW s \in Seq(S), NEW i \in 1..Len(s)
    PROVE  /\ SubSeq(s, i, Len(s)) \in Seq(S)
           /\ Len(SubSeq(s, i, Len(s))) = Len(s) - i + 1
           /\ \A j \in 1..(Len(s) - i + 1) :
                 SubSeq(s, i, Len(s))[j] = s[i + j - 1] /\ i + j - 1 \in 1..Len(s)
  OBVIOUS

LEMMA TailProperties ==
    ASSUME NEW S, NEW s \in Seq(S), s # <<>>
    PROVE  /\ Tail(s) \in Seq(S) /\ Len(s) \in Nat \ {0} /\ Len(Tail(s)) = Len(s) - 1
           /\ \A j \in 1..(Len(s) - 1) : Tail(s)[j] = s[j + 1] /\ j + 1 \in 1..Len(s)
  OBVIOUS

-----------------------------------------------------------------------------
(* The scripts have this shape *)

\* t goes on with steps after rank k
After(t, k) == \A i \in 1..Len(t) : Rank(t[i]) = 0 \/ Rank(t[i]) > k

\* every block that t closes is one it opens
Opening(t) == \A k \in 1..Len(t) :
    t[k][1] = "lift" => \E j \in 1..(k - 1) : t[j][1] \in Opens

Unscaled(t) == t # <<>> => Rank(t[1]) # 6

PlainSteps(c) == {x \in StepsOf(c) : Rank(x) = 0 /\ x[1] # "finish"}

LEMMA RankProperties ==
    ASSUME NEW x
    PROVE  /\ Rank(x) \in 0..8
           /\ x[1] \in {"block", "lift", "guard"} => Rank(x) = 8
           /\ Rank(x) = 8 => x[1] \in {"block", "lift", "guard"}
           /\ x[1] \in Opens \cup Closes => Rank(x) \in {1, 5, 8}
           /\ x[1] = "rollout" <=> Rank(x) = 7
           /\ x[1] = "scale" <=> Rank(x) = 6
           /\ x[1] = "resume" <=> Rank(x) = 5
           /\ x[1] = "drain" <=> Rank(x) = 3
           /\ x[1] = "stop" <=> Rank(x) = 2
           /\ x[1] = "pause" <=> Rank(x) = 1
           /\ Rank(x) = 4 => x[1] = "save" /\ x[3] = Proved
  BY DEF Rank, Opens, Closes

LEMMA OneMore ==
    ASSUME NEW c, NEW x \in StepsOf(c), NEW t \in Seq(StepsOf(c)), Shape(t),
           Rank(x) \in 1..7 => After(t, Rank(x)), Rank(x) = 8 => After(t, 7),
           Rank(x) \in 1..6 => Ahead(t, Rank(x) + 1),
           Unscaled(t) \/ Rank(x) = 5,
           x[1] = "block" => Lifting(t, x[3]),
           Rank(x) = 7 => Opening(t),
           x[1] = "finish" => t = <<>>
    PROVE  <<x>> \o t \in Seq(StepsOf(c)) /\ Shape(<<x>> \o t)
<1> DEFINE u == <<x>> \o t
<1>1. /\ u \in Seq(StepsOf(c)) /\ Len(u) = Len(t) + 1 /\ u[1] = x
      /\ \A i \in 1..Len(t) : u[i + 1] = t[i]
      /\ \A i \in 2..Len(u) : u[i] = t[i - 1] /\ i - 1 \in 1..Len(t)
  BY ConsProperties
<1>2. Len(t) \in Nat /\ Len(u) \in Nat
  BY <1>1
<1>3. \A i \in 1..Len(u) : Rank(u[i]) \in 0..8
  BY RankProperties
<1> HIDE DEF u
<1>4. InOrder(u)
  <2> SUFFICES ASSUME NEW i \in 1..Len(u), NEW j \in 1..Len(u), i < j,
                      Rank(u[i]) # 0, Rank(u[j]) # 0
               PROVE  Rank(u[i]) < Rank(u[j]) \/ (Rank(u[i]) = 8 /\ Rank(u[j]) = 8)
    BY DEF InOrder
  <2>0. j - 1 \in 1..Len(t) /\ u[j] = t[j - 1]
    BY <1>1, <1>2
  <2>1. CASE i = 1
    <3>1. u[i] = x /\ Rank(x) \in 0..8 /\ Rank(t[j - 1]) \in 0..8
      BY <1>1, <2>1, RankProperties
    <3>2. Rank(x) = 8 => Rank(t[j - 1]) > 7
      BY <2>0 DEF After
    <3>3. Rank(x) \in 1..7 => Rank(t[j - 1]) > Rank(x)
      BY <2>0 DEF After
    <3> QED
      BY <2>0, <3>1, <3>2, <3>3
  <2>2. CASE i # 1
    <3>1. i - 1 \in 1..Len(t) /\ u[i] = t[i - 1] /\ i - 1 < j - 1
      BY <1>1, <1>2, <2>2
    <3> QED
      BY <2>0, <3>1 DEF Shape, InOrder
  <2> QED
    BY <2>1, <2>2
<1>5. Complete(u)
  <2> SUFFICES ASSUME NEW i \in 1..Len(u), Rank(u[i]) \in 1..6
               PROVE  \E j \in (i + 1)..Len(u) : Rank(u[j]) = Rank(u[i]) + 1
    BY DEF Complete
  <2>1. CASE i = 1
    BY SMTT(30), <1>1, <1>2, <2>1 DEF Ahead
  <2>2. CASE i # 1
    <3>1. i - 1 \in 1..Len(t) /\ u[i] = t[i - 1]
      BY <1>1, <1>2, <2>2
    <3>2. PICK j \in i..Len(t) : Rank(t[j]) = Rank(t[i - 1]) + 1
      BY SMTT(30), <1>2, <3>1 DEF Shape, Complete
    <3>3. j + 1 \in (i + 1)..Len(u) /\ u[j + 1] = t[j]
      BY <1>1, <1>2, <3>1
    <3> QED
      BY <3>1, <3>2, <3>3
  <2> QED
    BY <2>1, <2>2
<1>6. Adjacent(u)
  <2> SUFFICES ASSUME NEW i \in 2..Len(u), Rank(u[i]) = 6 PROVE Rank(u[i - 1]) = 5
    BY DEF Adjacent
  <2>1. CASE i = 2
    BY <1>1, <1>2, <2>1 DEF Unscaled
  <2>2. CASE i # 2
    <3>1. i - 1 \in 2..Len(t) /\ u[i] = t[i - 1] /\ u[i - 1] = t[(i - 1) - 1]
      BY SMTT(30), <1>1, <1>2, <2>2
    <3> QED
      BY <3>1 DEF Shape, Adjacent
  <2> QED
    BY <2>1, <2>2
<1>7. Blocks(u)
  <2> SUFFICES ASSUME NEW i \in 1..Len(u), u[i][1] = "block"
               PROVE  \E k \in (i + 1)..Len(u) :
                         /\ u[k][1] = "lift" /\ u[k][3] = u[i][3]
                         /\ \A j \in i..(k - 1) : u[j][1] \notin Opens \cup Closes
    BY DEF Blocks
  <2>1. CASE i = 1
    <3>1. PICK k \in 1..Len(t) : LiftAt(t, x[3], k)
      BY <1>1, <2>1 DEF Lifting
    <3>2. k + 1 \in (i + 1)..Len(u) /\ u[k + 1] = t[k]
      BY <1>1, <1>2, <2>1
    <3>3. ASSUME NEW j \in i..k PROVE u[j][1] \notin Opens \cup Closes
      <4>1. CASE j = 1
        BY <1>1, <2>1, <4>1 DEF Opens, Closes
      <4>2. CASE j # 1
        BY <1>1, <1>2, <2>1, <3>1, <4>2 DEF LiftAt
      <4> QED
        BY <4>1, <4>2
    <3> QED
      BY <1>1, <2>1, <3>1, <3>2, <3>3 DEF LiftAt
  <2>2. CASE i # 1
    <3>1. i - 1 \in 1..Len(t) /\ u[i] = t[i - 1]
      BY <1>1, <1>2, <2>2
    <3>2. PICK k \in i..Len(t) :
             /\ t[k][1] = "lift" /\ t[k][3] = t[i - 1][3]
             /\ \A j \in (i - 1)..(k - 1) : t[j][1] \notin Opens \cup Closes
      BY <1>2, <3>1 DEF Shape, Blocks
    <3>3. k + 1 \in (i + 1)..Len(u) /\ u[k + 1] = t[k]
      BY <1>1, <1>2, <3>1
    <3>4. \A j \in i..k : u[j] = t[j - 1]
      BY <1>1, <1>2, <2>2, <3>2
    <3>5. \A j \in i..k : u[j][1] \notin Opens \cup Closes
      <4> SUFFICES ASSUME NEW j \in i..k PROVE u[j][1] \notin Opens \cup Closes
        OBVIOUS
      <4>1. j - 1 \in (i - 1)..(k - 1)
        BY <1>2, <3>1, <3>2
      <4> QED
        BY <3>2, <3>4, <4>1
    <3>6. (k + 1) - 1 = k
      BY <3>2
    <3> QED
      BY <3>1, <3>2, <3>3, <3>5, <3>6
  <2> QED
    BY <2>1, <2>2
<1>8. Apart(u)
  <2> SUFFICES ASSUME NEW i \in 1..Len(u), NEW k \in 1..Len(u), i < k,
                      Rank(u[i]) = 7, u[k][1] = "lift"
               PROVE  \E j \in (i + 1)..(k - 1) : u[j][1] \in Opens
    BY DEF Apart
  <2>1. PICK j \in i..(k - 2) : t[j][1] \in Opens
    <3>1. k - 1 \in 1..Len(t) /\ t[k - 1][1] = "lift"
      BY <1>1, <1>2
    <3>2. CASE i = 1
      <4>1. Opening(t)
        BY <1>1, <3>2
      <4> QED
        BY <3>1, <3>2, <4>1 DEF Opening
    <3>3. CASE i # 1
      BY SMTT(30), <1>1, <1>2, <3>1, <3>3 DEF Shape, Apart
    <3> QED
      BY <3>2, <3>3
  <2>2. j + 1 \in (i + 1)..(k - 1) /\ u[j + 1] = t[j]
    BY <1>1, <1>2, <2>1
  <2> QED
    BY <2>1, <2>2
<1>9. Ends(u)
  BY <1>1, <1>2 DEF Shape, Ends
<1> QED
  BY <1>1, <1>4, <1>5, <1>6, <1>7, <1>8, <1>9 DEF Shape, u

LEMMA PlainPrefix ==
    ASSUME NEW c, NEW p \in Seq(PlainSteps(c)), NEW t \in Seq(StepsOf(c)), Shape(t), Unscaled(t)
    PROVE  /\ p \o t \in Seq(StepsOf(c)) /\ Shape(p \o t)
           /\ \A k \in 0..8 : After(t, k) => After(p \o t, k)
           /\ \A k \in 1..8 : Ahead(t, k) <=> Ahead(p \o t, k)
           /\ \A l : Lifting(t, l) => Lifting(p \o t, l)
           /\ Opening(t) => Opening(p \o t)
           /\ Unscaled(p \o t)
<1> DEFINE u == p \o t
           n == Len(p)
<1>0. p \in Seq(StepsOf(c)) /\ n \in Nat /\ Len(t) \in Nat
  BY DEF PlainSteps
<1>1. /\ u \in Seq(StepsOf(c)) /\ Len(u) = n + Len(t)
      /\ \A i \in 1..Len(u) : u[i] = IF i <= n THEN p[i] ELSE t[i - n]
  BY <1>0, ConcatProperties, Zenon
<1>2. \A i \in 1..n : p[i] \in PlainSteps(c)
  OBVIOUS
<1> HIDE DEF u, n
<1>3. ASSUME NEW i \in 1..Len(u), i <= n
      PROVE  /\ u[i] = p[i] /\ Rank(u[i]) = 0 /\ u[i][1] # "finish"
             /\ u[i][1] \notin Opens \cup Closes \cup {"block", "lift"}
  <2>1. u[i] = p[i] /\ p[i] \in PlainSteps(c)
    BY <1>0, <1>1, <1>2, <1>3 DEF n
  <2>2. Rank(p[i]) = 0 /\ p[i][1] # "finish"
    BY <2>1 DEF PlainSteps
  <2> QED
    BY <2>1, <2>2, RankProperties
<1>4. ASSUME NEW i \in 1..Len(u), i > n PROVE u[i] = t[i - n] /\ i - n \in 1..Len(t)
  BY <1>0, <1>1, <1>4
<1>5. ASSUME NEW i \in 1..Len(t) PROVE u[i + n] = t[i] /\ i + n \in 1..Len(u) /\ i + n > n
  BY <1>0, <1>1
<1>6. ASSUME NEW i \in 1..Len(u), Rank(u[i]) # 0 \/ u[i][1] \in Opens \cup Closes \cup {"block", "lift"}
      PROVE  u[i] = t[i - n] /\ i - n \in 1..Len(t) /\ i > n
  BY <1>0, <1>3, <1>4, <1>6
<1>7. InOrder(u)
  <2> SUFFICES ASSUME NEW i \in 1..Len(u), NEW j \in 1..Len(u), i < j,
                      Rank(u[i]) # 0, Rank(u[j]) # 0
               PROVE  Rank(u[i]) < Rank(u[j]) \/ (Rank(u[i]) = 8 /\ Rank(u[j]) = 8)
    BY DEF InOrder
  <2>1. u[i] = t[i - n] /\ i - n \in 1..Len(t)
    BY <1>6
  <2>2. u[j] = t[j - n] /\ j - n \in 1..Len(t)
    BY <1>6
  <2>3. i - n < j - n
    BY <1>0, <1>1
  <2> QED
    BY <2>1, <2>2, <2>3 DEF Shape, InOrder
<1>8. Complete(u)
  <2> SUFFICES ASSUME NEW i \in 1..Len(u), Rank(u[i]) \in 1..6
               PROVE  \E j \in (i + 1)..Len(u) : Rank(u[j]) = Rank(u[i]) + 1
    BY DEF Complete
  <2>1. u[i] = t[i - n] /\ i - n \in 1..Len(t)
    BY <1>6
  <2>2. PICK j \in (i - n + 1)..Len(t) : Rank(t[j]) = Rank(t[i - n]) + 1
    BY <2>1 DEF Shape, Complete
  <2>3. j + n \in (i + 1)..Len(u) /\ u[j + n] = t[j]
    <3>1. j \in 1..Len(t) /\ j + n > i /\ j + n \in Int
      BY <1>0, <2>1, <2>2
    <3>2. u[j + n] = t[j] /\ j + n \in 1..Len(u)
      BY <1>5, <3>1
    <3> QED
      BY <3>1, <3>2
  <2> QED
    BY <2>1, <2>2, <2>3
<1>9. Ends(u)
  <2> SUFFICES ASSUME NEW i \in 1..Len(u), u[i][1] = "finish" PROVE i = Len(u)
    BY DEF Ends
  <2>0. i > n
    BY <1>0, <1>1, <1>3
  <2>1. u[i] = t[i - n] /\ i - n \in 1..Len(t)
    BY <1>4, <2>0
  <2>2. i - n = Len(t)
    BY <2>1 DEF Shape, Ends
  <2> QED
    BY <1>0, <1>1, <2>2
<1>10. Adjacent(u)
  <2> SUFFICES ASSUME NEW i \in 2..Len(u), Rank(u[i]) = 6 PROVE Rank(u[i - 1]) = 5
    BY DEF Adjacent
  <2>1. u[i] = t[i - n] /\ i - n \in 1..Len(t) /\ i \in 1..Len(u)
    BY <1>0, <1>1, <1>6
  <2>2. i - n # 1
    BY <2>1 DEF Unscaled
  <2>3. i - n \in 2..Len(t) /\ i - 1 \in 1..Len(u) /\ i - 1 > n
    BY <1>0, <1>1, <2>1, <2>2
  <2>4. u[i - 1] = t[(i - 1) - n] /\ (i - 1) - n = (i - n) - 1
    BY SMTT(30), <1>0, <1>4, <2>3
  <2> QED
    BY <2>1, <2>3, <2>4 DEF Shape, Adjacent
<1>11. Blocks(u)
  <2> SUFFICES ASSUME NEW i \in 1..Len(u), u[i][1] = "block"
               PROVE  \E k \in (i + 1)..Len(u) :
                         /\ u[k][1] = "lift" /\ u[k][3] = u[i][3]
                         /\ \A j \in i..(k - 1) : u[j][1] \notin Opens \cup Closes
    BY DEF Blocks
  <2>1. u[i] = t[i - n] /\ i - n \in 1..Len(t) /\ i > n
    BY <1>6
  <2>2. PICK k \in (i - n + 1)..Len(t) :
           /\ t[k][1] = "lift" /\ t[k][3] = t[i - n][3]
           /\ \A j \in (i - n)..(k - 1) : t[j][1] \notin Opens \cup Closes
    BY <2>1 DEF Shape, Blocks
  <2>3. k + n \in (i + 1)..Len(u) /\ u[k + n] = t[k]
    <3>1. k \in 1..Len(t) /\ k + n > i /\ k + n \in Int
      BY <1>0, <2>1, <2>2
    <3>2. u[k + n] = t[k] /\ k + n \in 1..Len(u)
      BY <1>5, <3>1
    <3> QED
      BY <3>1, <3>2
  <2>4. ASSUME NEW j \in i..((k + n) - 1) PROVE u[j][1] \notin Opens \cup Closes
    <3>1. j \in 1..Len(u) /\ j > n /\ j - n \in (i - n)..(k - 1)
      BY <1>0, <1>1, <2>1, <2>2
    <3> QED
      BY <1>4, <2>2, <3>1
  <2>5. /\ u[k + n][1] = "lift" /\ u[k + n][3] = u[i][3]
        /\ \A j \in i..((k + n) - 1) : u[j][1] \notin Opens \cup Closes
    BY <2>1, <2>2, <2>3, <2>4
  <2> QED
    BY <2>3, <2>5
<1>12. Apart(u)
  <2> SUFFICES ASSUME NEW i \in 1..Len(u), NEW k \in 1..Len(u), i < k,
                      Rank(u[i]) = 7, u[k][1] = "lift"
               PROVE  \E j \in (i + 1)..(k - 1) : u[j][1] \in Opens
    BY DEF Apart
  <2>1. u[i] = t[i - n] /\ i - n \in 1..Len(t) /\ i > n
    BY <1>6
  <2>2. u[k] = t[k - n] /\ k - n \in 1..Len(t) /\ i - n < k - n
    <3>1. u[k] = t[k - n] /\ k - n \in 1..Len(t)
      BY <1>6
    <3> QED
      BY <1>0, <3>1
  <2>3. PICK j \in (i - n + 1)..(k - n - 1) : t[j][1] \in Opens
    BY <2>1, <2>2 DEF Shape, Apart
  <2>4. j + n \in (i + 1)..(k - 1) /\ u[j + n] = t[j]
    <3>1. i \in Nat /\ k \in Nat /\ n \in Nat /\ Len(t) \in Nat
      BY <1>0
    <3>2. i > n /\ k - n <= Len(t) /\ j \in (i - n + 1)..(k - n - 1)
      BY <2>1, <2>2, <2>3, <3>1
    <3>3. j \in 1..Len(t) /\ j + n \in (i + 1)..(k - 1)
      BY SMTT(30), <3>1, <3>2
    <3> QED
      BY <1>5, <3>3
  <2> QED
    BY <2>3, <2>4
<1>13. ASSUME NEW k \in 0..8, After(t, k) PROVE After(u, k)
  <2> SUFFICES ASSUME NEW i \in 1..Len(u), Rank(u[i]) # 0 PROVE Rank(u[i]) > k
    BY DEF After
  <2>1. u[i] = t[i - n] /\ i - n \in 1..Len(t)
    BY <1>6
  <2> QED
    BY <1>13, <2>1 DEF After
<1>14. ASSUME NEW k \in 1..8 PROVE Ahead(t, k) <=> Ahead(u, k)
  <2>1. ASSUME NEW i \in 1..Len(t), Rank(t[i]) = k PROVE Ahead(u, k)
    BY <1>5, <2>1 DEF Ahead
  <2>2. ASSUME NEW i \in 1..Len(u), Rank(u[i]) = k PROVE Ahead(t, k)
    <3>1. u[i] = t[i - n] /\ i - n \in 1..Len(t)
      BY <1>6, <2>2
    <3> QED
      BY <2>2, <3>1 DEF Ahead
  <2> QED
    BY <2>1, <2>2 DEF Ahead
<1>15. ASSUME NEW l, Lifting(t, l) PROVE Lifting(u, l)
  <2>1. PICK k \in 1..Len(t) : LiftAt(t, l, k)
    BY <1>15 DEF Lifting
  <2>2. u[k + n] = t[k] /\ k + n \in 1..Len(u)
    BY <1>5
  <2>3. ASSUME NEW j \in 1..((k + n) - 1) PROVE u[j][1] \notin Opens \cup Closes
    <3>1. j \in 1..Len(u) /\ (j > n => j - n \in 1..(k - 1))
      BY <1>0, <2>2
    <3>2. CASE j <= n
      BY <1>3, <3>1, <3>2
    <3>3. CASE j > n
      BY <1>4, <2>1, <3>1, <3>3 DEF LiftAt
    <3> QED
      BY <1>0, <3>2, <3>3
  <2>4. u[k + n][1] = "lift" /\ u[k + n][3] = l
    BY <2>1, <2>2 DEF LiftAt
  <2>5. LiftAt(u, l, k + n)
    BY <2>3, <2>4 DEF LiftAt
  <2> QED
    BY <2>2, <2>5 DEF Lifting
<1>16. ASSUME Opening(t) PROVE Opening(u)
  <2> SUFFICES ASSUME NEW k \in 1..Len(u), u[k][1] = "lift"
               PROVE  \E j \in 1..(k - 1) : u[j][1] \in Opens
    BY DEF Opening
  <2>1. u[k] = t[k - n] /\ k - n \in 1..Len(t)
    BY <1>6
  <2>2. PICK j \in 1..(k - n - 1) : t[j][1] \in Opens
    BY <1>16, <2>1 DEF Opening
  <2>3. j + n \in 1..(k - 1) /\ u[j + n] = t[j]
    BY <1>0, <1>5, <2>1, <2>2
  <2> QED
    BY <2>2, <2>3
<1>17. Unscaled(u)
  <2> SUFFICES ASSUME u # << >>, Rank(u[1]) = 6 PROVE FALSE
    BY DEF Unscaled
  <2>1. 1 \in 1..Len(u)
    BY <1>1
  <2>2. u[1] = t[1 - n] /\ 1 - n \in 1..Len(t)
    BY <1>6, <2>1
  <2>3. n = 0
    BY <1>0, <2>2
  <2> QED
    BY <1>1, <2>2, <2>3 DEF Unscaled
<1>18. Shape(u)
  BY <1>7, <1>8, <1>9, <1>10, <1>11, <1>12 DEF Shape
<1> QED
  BY <1>1, <1>13, <1>14, <1>15, <1>16, <1>17, <1>18 DEF u

\* What may follow: outside every block, in the block of link l, at the end of a
\* pause, before the readiness is proved in it, and at the beginning.
Out(c) == {t \in Seq(StepsOf(c)) : Shape(t) /\ Unscaled(t) /\ After(t, 7) /\ Opening(t)}
Inside(c, l) == {t \in Seq(StepsOf(c)) : Shape(t) /\ Unscaled(t) /\ After(t, 7) /\ Lifting(t, l)}
Undoing(c) == {t \in Seq(StepsOf(c)) : Shape(t) /\ Unscaled(t) /\ After(t, 4) /\ Ahead(t, 5)}
Proving(c) == {t \in Seq(StepsOf(c)) : Shape(t) /\ Unscaled(t) /\ After(t, 3) /\ Ahead(t, 4)}
Whole(c) == {t \in Seq(StepsOf(c)) :
    Shape(t) /\ Unscaled(t) /\ (Ahead(t, 4) => Ahead(t, 2) /\ Ahead(t, 3))}

Leads(c, p, A, B) == p \in Seq(StepsOf(c)) /\ \A t \in A : p \o t \in B

LEMMA Compose ==
    ASSUME NEW c, NEW A \in SUBSET Seq(StepsOf(c)), NEW B, NEW D, NEW p, NEW q,
           Leads(c, p, B, D), Leads(c, q, A, B)
    PROVE  Leads(c, p \o q, A, D)
<1>1. p \in Seq(StepsOf(c)) /\ q \in Seq(StepsOf(c))
  BY DEF Leads
<1>2. p \o q \in Seq(StepsOf(c))
  BY <1>1, ConcatProperties, Zenon
<1>3. ASSUME NEW t \in A PROVE (p \o q) \o t \in D
  <2>1. (p \o q) \o t = p \o (q \o t)
    BY <1>1, ConcatAssociative
  <2>2. q \o t \in B
    BY DEF Leads
  <2> QED
    BY <2>1, <2>2 DEF Leads
<1> QED
  BY <1>2, <1>3 DEF Leads

LEMMA PlainLeads ==
    ASSUME NEW c, NEW p \in Seq(PlainSteps(c))
    PROVE  /\ Leads(c, p, Out(c), Out(c))
           /\ \A l : Leads(c, p, Inside(c, l), Inside(c, l))
           /\ Leads(c, p, Undoing(c), Undoing(c))
           /\ Leads(c, p, Proving(c), Proving(c))
           /\ Leads(c, p, Whole(c), Whole(c))
<1>1. p \in Seq(StepsOf(c))
  BY DEF PlainSteps
<1>2. ASSUME NEW t \in Out(c) PROVE p \o t \in Out(c)
  BY PlainPrefix DEF Out
<1>3. ASSUME NEW l, NEW t \in Inside(c, l) PROVE p \o t \in Inside(c, l)
  BY PlainPrefix DEF Inside
<1>4. ASSUME NEW t \in Undoing(c) PROVE p \o t \in Undoing(c)
  BY PlainPrefix DEF Undoing
<1>5. ASSUME NEW t \in Proving(c) PROVE p \o t \in Proving(c)
  BY PlainPrefix DEF Proving
<1>6. ASSUME NEW t \in Whole(c) PROVE p \o t \in Whole(c)
  BY PlainPrefix DEF Whole
<1> QED
  BY <1>1, <1>2, <1>3, <1>4, <1>5, <1>6 DEF Leads

LEMMA OutIsWhole == ASSUME NEW c PROVE Out(c) \subseteq Whole(c)
  BY DEF Out, Whole, After, Ahead

\* What a step adds to what may be ahead.
LEMMA ConsClasses ==
    ASSUME NEW c, NEW x \in StepsOf(c), NEW t \in Seq(StepsOf(c))
    PROVE  /\ \A k \in 0..8 : After(t, k) /\ (Rank(x) = 0 \/ Rank(x) > k) => After(<<x>> \o t, k)
           /\ \A k \in 1..8 : Ahead(t, k) \/ Rank(x) = k => Ahead(<<x>> \o t, k)
           /\ \A l : x[1] \notin Opens \cup Closes /\ Lifting(t, l) => Lifting(<<x>> \o t, l)
           /\ x[1] = "lift" => Lifting(<<x>> \o t, x[3])
           /\ x[1] \in Opens => Opening(<<x>> \o t)
           /\ Rank(x) # 6 => Unscaled(<<x>> \o t)
<1> DEFINE u == <<x>> \o t
<1>1. /\ u \in Seq(StepsOf(c)) /\ Len(u) = Len(t) + 1 /\ u[1] = x
      /\ \A i \in 1..Len(t) : u[i + 1] = t[i]
      /\ \A i \in 2..Len(u) : u[i] = t[i - 1] /\ i - 1 \in 1..Len(t)
  BY ConsProperties
<1>2. Len(t) \in Nat /\ Len(u) \in Nat /\ 1 \in 1..Len(u)
  BY <1>1
<1> HIDE DEF u
<1>3. ASSUME NEW k \in 0..8, After(t, k), Rank(x) = 0 \/ Rank(x) > k PROVE After(u, k)
  <2> SUFFICES ASSUME NEW i \in 1..Len(u) PROVE Rank(u[i]) = 0 \/ Rank(u[i]) > k
    BY DEF After
  <2>1. CASE i = 1
    BY <1>1, <1>3, <2>1
  <2>2. CASE i # 1
    <3>1. u[i] = t[i - 1] /\ i - 1 \in 1..Len(t)
      BY <1>1, <1>2, <2>2
    <3> QED
      BY <1>3, <3>1 DEF After
  <2> QED
    BY <2>1, <2>2
<1>4. ASSUME NEW k \in 1..8, Ahead(t, k) \/ Rank(x) = k PROVE Ahead(u, k)
  <2>1. CASE Ahead(t, k)
    <3>1. PICK i \in 1..Len(t) : Rank(t[i]) = k
      BY <2>1 DEF Ahead
    <3>2. i + 1 \in 1..Len(u) /\ u[i + 1] = t[i]
      BY <1>1, <1>2
    <3> QED
      BY <3>1, <3>2 DEF Ahead
  <2>2. CASE Rank(x) = k
    BY <1>1, <1>2, <2>2 DEF Ahead
  <2> QED
    BY <1>4, <2>1, <2>2
<1>5. ASSUME NEW l, x[1] \notin Opens \cup Closes, Lifting(t, l) PROVE Lifting(u, l)
  <2>1. PICK k \in 1..Len(t) : LiftAt(t, l, k)
    BY <1>5 DEF Lifting
  <2>2. k + 1 \in 1..Len(u) /\ u[k + 1] = t[k] /\ (k + 1) - 1 = k
    BY <1>1, <1>2
  <2>3. ASSUME NEW j \in 1..k PROVE u[j][1] \notin Opens \cup Closes
    <3>1. CASE j = 1
      BY <1>1, <1>5, <3>1
    <3>2. CASE j # 1
      <4>1. j \in 2..Len(u) /\ j - 1 \in 1..(k - 1)
        BY <2>2, <3>2
      <4>2. u[j] = t[j - 1]
        BY <1>1, <4>1
      <4> QED
        BY <2>1, <4>1, <4>2 DEF LiftAt
    <3> QED
      BY <3>1, <3>2
  <2>4. u[k + 1][1] = "lift" /\ u[k + 1][3] = l
    BY <2>1, <2>2 DEF LiftAt
  <2>5. LiftAt(u, l, k + 1)
    BY <2>2, <2>3, <2>4 DEF LiftAt
  <2> QED
    BY <2>2, <2>5 DEF Lifting
<1>6. ASSUME x[1] = "lift" PROVE Lifting(u, x[3])
  <2>1. LiftAt(u, x[3], 1)
    BY <1>1, <1>6 DEF LiftAt
  <2> QED
    BY <1>2, <2>1 DEF Lifting
<1>7. ASSUME x[1] \in Opens PROVE Opening(u)
  <2> SUFFICES ASSUME NEW k \in 1..Len(u), u[k][1] = "lift"
               PROVE  \E j \in 1..(k - 1) : u[j][1] \in Opens
    BY DEF Opening
  <2>1. k # 1
    BY <1>1, <1>7 DEF Opens
  <2>2. 1 \in 1..(k - 1)
    BY <1>2, <2>1
  <2> QED
    BY <1>1, <1>7, <2>2
<1>8. Rank(x) # 6 => Unscaled(u)
  BY <1>1 DEF Unscaled
<1> QED
  BY <1>3, <1>4, <1>5, <1>6, <1>7, <1>8 DEF u

LEMMA NamesApart ==
    /\ First \in Names /\ Second \in Names /\ Third \in Names
    /\ Names \subseteq Names \cup {Sentinel, NoTenant}
  BY DEF Names

LEMMA OrdinaryDo ==
    ASSUME NEW c, NEW w \in Kinds, NEW t \in Names \cup {Sentinel, NoTenant},
           w \notin {"pause", "stop", "drain", "save", "resume", "scale", "rollout",
                     "guard", "block", "lift", "finish"},
           w = "load" => c,
           w \in {"applied", "expected", "reached", "tally"} => t \in Names
    PROVE  Do(w, t) \in PlainSteps(c)
<1>1. Do(w, t) \in Steps /\ Do(w, t)[1] = w /\ Do(w, t)[2] = t
  BY Zenon DEF Do, Steps
<1>2. Rank(Do(w, t)) = 0
  BY <1>1 DEF Rank
<1> QED
  BY <1>1, <1>2 DEF PlainSteps, StepsOf

LEMMA OrdinarySave ==
    ASSUME NEW c, NEW e \in Events, e # Proved, NEW t \in Names \cup {Sentinel, NoTenant}
    PROVE  Save(e, t) \in PlainSteps(c)
<1>1. Save(e, t) \in Steps /\ Save(e, t)[1] = "save" /\ Save(e, t)[3] = e
  BY DEF Save, Steps, Kinds
<1>2. Rank(Save(e, t)) = 0
  BY <1>1 DEF Rank
<1> QED
  BY <1>1, <1>2 DEF PlainSteps, StepsOf

LEMMA Sampling ==
    ASSUME NEW c, NEW l \in Links
    PROVE  <<"sample", First, l>> \in PlainSteps(c)
<1> DEFINE x == <<"sample", First, l>>
<1>1. x \in Steps /\ x[1] = "sample"
  BY NamesApart DEF Steps, Kinds
<1>2. Rank(x) = 0
  BY <1>1 DEF Rank
<1> QED
  BY <1>1, <1>2 DEF PlainSteps, StepsOf

LEMMA PlainAppend ==
    ASSUME NEW S, NEW p \in Seq(S), NEW q \in Seq(S)
    PROVE  p \o q \in Seq(S)
  BY ConcatProperties, Zenon

\* A pause whose body proves the readiness at its end.
LEMMA PauseLeads ==
    ASSUME NEW c, NEW body, Leads(c, body, Undoing(c), Proving(c))
    PROVE  Leads(c, PausedReconciler(body), Out(c), Whole(c))
<1> DEFINE pause == Do("pause", NoTenant)
           stop == Do("stop", NoTenant)
           drain == Do("drain", NoTenant)
           resume == Do("resume", NoTenant)
           scale == Do("scale", NoTenant)
           rollout == Do("rollout", NoTenant)
           before == <<pause, stop, drain>>
           after == <<resume, scale, rollout>>
<1>1. /\ pause \in StepsOf(c) /\ Rank(pause) = 1 /\ pause[1] = "pause"
      /\ stop \in StepsOf(c) /\ Rank(stop) = 2 /\ stop[1] = "stop"
      /\ drain \in StepsOf(c) /\ Rank(drain) = 3 /\ drain[1] = "drain"
  BY DEF Do, Rank, StepsOf, Steps, Kinds
<1>2. /\ resume \in StepsOf(c) /\ Rank(resume) = 5 /\ resume[1] = "resume"
      /\ scale \in StepsOf(c) /\ Rank(scale) = 6 /\ scale[1] = "scale"
      /\ rollout \in StepsOf(c) /\ Rank(rollout) = 7 /\ rollout[1] = "rollout"
  BY DEF Do, Rank, StepsOf, Steps, Kinds
<1> HIDE DEF pause, stop, drain, resume, scale, rollout
<1>3. Leads(c, after, Out(c), Undoing(c))
  <2>1. after \in Seq(StepsOf(c))
    BY <1>2
  <2>2. ASSUME NEW t \in Out(c) PROVE after \o t \in Undoing(c)
    <3>1. t \in Seq(StepsOf(c)) /\ Shape(t) /\ Unscaled(t) /\ After(t, 7) /\ Opening(t)
      BY DEF Out
    <3> DEFINE a == <<rollout>> \o t
    <3>2. a \in Seq(StepsOf(c)) /\ Shape(a)
      BY <1>2, <3>1, OneMore
    <3>3. Unscaled(a) /\ After(a, 6) /\ Ahead(a, 7)
      <4>1. After(t, 6)
        BY <3>1, RankProperties DEF After
      <4> QED
        BY <1>2, <3>1, <4>1, ConsClasses
    <3> HIDE DEF a
    <3> DEFINE b == <<scale>> \o a
    <3>4. b \in Seq(StepsOf(c)) /\ Shape(b)
      BY <1>2, <3>2, <3>3, OneMore
    <3>5. After(b, 5) /\ Ahead(b, 6)
      <4>1. After(a, 5)
        BY <3>3, RankProperties DEF After
      <4> QED
        BY <1>2, <3>2, <4>1, ConsClasses
    <3> HIDE DEF b
    <3> DEFINE d == <<resume>> \o b
    <3>6. d \in Seq(StepsOf(c)) /\ Shape(d)
      BY <1>2, <3>4, <3>5, OneMore
    <3>7. Unscaled(d) /\ After(d, 4) /\ Ahead(d, 5)
      <4>1. After(b, 4)
        BY <3>5, RankProperties DEF After
      <4> QED
        BY <1>2, <3>4, <4>1, ConsClasses
    <3>8. after \o t = d
      BY <1>2, <3>1, ThreeSteps DEF a, b
    <3> QED
      BY <3>6, <3>7, <3>8 DEF Undoing
  <2> QED
    BY <2>1, <2>2 DEF Leads
<1>4. Leads(c, before, Proving(c), Whole(c))
  <2>1. before \in Seq(StepsOf(c))
    BY <1>1
  <2>2. ASSUME NEW t \in Proving(c) PROVE before \o t \in Whole(c)
    <3>1. t \in Seq(StepsOf(c)) /\ Shape(t) /\ Unscaled(t) /\ After(t, 3) /\ Ahead(t, 4)
      BY DEF Proving
    <3> DEFINE a == <<drain>> \o t
    <3>2. a \in Seq(StepsOf(c)) /\ Shape(a)
      BY <1>1, <3>1, OneMore
    <3>3. Unscaled(a) /\ After(a, 2) /\ Ahead(a, 3)
      <4>1. After(t, 2)
        BY <3>1, RankProperties DEF After
      <4> QED
        BY <1>1, <3>1, <4>1, ConsClasses
    <3> HIDE DEF a
    <3> DEFINE b == <<stop>> \o a
    <3>4. b \in Seq(StepsOf(c)) /\ Shape(b)
      BY <1>1, <3>2, <3>3, OneMore
    <3>5. Unscaled(b) /\ After(b, 1) /\ Ahead(b, 2) /\ Ahead(b, 3)
      <4>1. After(a, 1)
        BY <3>3, RankProperties DEF After
      <4> QED
        BY <1>1, <3>2, <3>3, <4>1, ConsClasses
    <3> HIDE DEF b
    <3> DEFINE d == <<pause>> \o b
    <3>6. d \in Seq(StepsOf(c)) /\ Shape(d)
      BY <1>1, <3>4, <3>5, OneMore
    <3>7. Unscaled(d) /\ Ahead(d, 2) /\ Ahead(d, 3)
      BY <1>1, <3>4, <3>5, ConsClasses
    <3>8. before \o t = d
      BY SMTT(30), <1>1, <3>1, ThreeSteps DEF a, b
    <3> QED
      BY <3>6, <3>7, <3>8 DEF Whole
  <2> QED
    BY <2>1, <2>2 DEF Leads
<1>5. /\ Out(c) \in SUBSET Seq(StepsOf(c)) /\ Undoing(c) \in SUBSET Seq(StepsOf(c))
      /\ Proving(c) \in SUBSET Seq(StepsOf(c))
  BY DEF Out, Undoing, Proving
<1>6. Leads(c, before \o body, Undoing(c), Whole(c))
  BY <1>4, <1>5, Compose
<1>7. Leads(c, (before \o body) \o after, Out(c), Whole(c))
  BY <1>3, <1>5, <1>6, Compose
<1> QED
  BY <1>7 DEF PausedReconciler, pause, stop, drain, resume, scale, rollout

\* A block of a parent link.
LEMMA FaultLeads ==
    ASSUME NEW c, NEW l \in Links, NEW body \in Seq(PlainSteps(c))
    PROVE  Leads(c, ParentFault(l, body), Out(c), Out(c))
<1> DEFINE guard == Do("guard", NoTenant)
           block == <<"block", First, l>>
           lift == <<"lift", First, l>>
           before == <<guard, block>>
           after == <<lift>>
<1>1. /\ guard \in StepsOf(c) /\ Rank(guard) = 8 /\ guard[1] = "guard"
      /\ block \in StepsOf(c) /\ Rank(block) = 8 /\ block[1] = "block" /\ block[3] = l
      /\ lift \in StepsOf(c) /\ Rank(lift) = 8 /\ lift[1] = "lift" /\ lift[3] = l
  BY NamesApart DEF Do, Rank, StepsOf, Steps, Kinds
<1> HIDE DEF guard, block, lift
<1>2. Leads(c, after, Out(c), Inside(c, l))
  <2>1. after \in Seq(StepsOf(c))
    BY <1>1
  <2>2. ASSUME NEW t \in Out(c) PROVE after \o t \in Inside(c, l)
    <3>1. t \in Seq(StepsOf(c)) /\ Shape(t) /\ Unscaled(t) /\ After(t, 7)
      BY DEF Out
    <3>2. <<lift>> \o t \in Seq(StepsOf(c)) /\ Shape(<<lift>> \o t)
      BY <1>1, <3>1, OneMore
    <3>3. Unscaled(<<lift>> \o t) /\ After(<<lift>> \o t, 7) /\ Lifting(<<lift>> \o t, l)
      BY <1>1, <3>1, ConsClasses
    <3> QED
      BY <3>2, <3>3 DEF Inside
  <2> QED
    BY <2>1, <2>2 DEF Leads
<1>3. Leads(c, before, Inside(c, l), Out(c))
  <2>1. before \in Seq(StepsOf(c))
    BY <1>1
  <2>2. ASSUME NEW t \in Inside(c, l) PROVE before \o t \in Out(c)
    <3>1. t \in Seq(StepsOf(c)) /\ Shape(t) /\ Unscaled(t) /\ After(t, 7) /\ Lifting(t, l)
      BY DEF Inside
    <3> DEFINE a == <<block>> \o t
    <3>2. a \in Seq(StepsOf(c)) /\ Shape(a)
      BY <1>1, <3>1, OneMore
    <3>3. Unscaled(a) /\ After(a, 7)
      BY <1>1, <3>1, ConsClasses
    <3> HIDE DEF a
    <3>4. <<guard>> \o a \in Seq(StepsOf(c)) /\ Shape(<<guard>> \o a)
      BY <1>1, <3>2, <3>3, OneMore
    <3>5. Unscaled(<<guard>> \o a) /\ After(<<guard>> \o a, 7) /\ Opening(<<guard>> \o a)
      <4>1. guard[1] \in Opens
        BY <1>1 DEF Opens
      <4> QED
        BY <1>1, <3>2, <3>3, <4>1, ConsClasses
    <3>6. before \o t = <<guard>> \o a
      <4>0. guard \in StepsOf(c) /\ block \in StepsOf(c) /\ t \in Seq(StepsOf(c))
        BY <1>1, <3>1
      <4>1. <<guard, block>> \o t = <<guard>> \o (<<block>> \o t)
        BY <4>0, TwoSteps
      <4> QED
        BY <4>1 DEF a
    <3> QED
      BY <3>4, <3>5, <3>6 DEF Out
  <2> QED
    BY <2>1, <2>2 DEF Leads
<1>4. Out(c) \in SUBSET Seq(StepsOf(c)) /\ Inside(c, l) \in SUBSET Seq(StepsOf(c))
  BY DEF Out, Inside
<1>5. Leads(c, body, Inside(c, l), Inside(c, l))
  BY PlainLeads
<1>6. Leads(c, before \o body, Inside(c, l), Out(c))
  BY <1>3, <1>4, <1>5, Compose
<1>7. Leads(c, (before \o body) \o after, Out(c), Out(c))
  BY <1>2, <1>4, <1>6, Compose
<1> QED
  BY <1>7 DEF ParentFault, guard, block, lift

LEMMA WaitReadyPlain ==
    ASSUME NEW c, NEW t \in Names
    PROVE  WaitReady(t) \in Seq(PlainSteps(c))
<1>1. Do("ready", t) \in PlainSteps(c)
  BY OrdinaryDo, NamesApart DEF Kinds
<1>2. Save("management_ready", t) \in PlainSteps(c)
  BY OrdinarySave, NamesApart DEF Events, Proved
<1> QED
  BY <1>1, <1>2 DEF WaitReady

LEMMA OnboardPlain ==
    ASSUME NEW c, NEW s \in Sites, NEW t \in Names, NEW busy \in BOOLEAN
    PROVE  Onboard(s, t, busy) \in Seq(PlainSteps(c))
<1>1. /\ Do("absent", t) \in PlainSteps(c) /\ Do("post", t) \in PlainSteps(c)
      /\ Do("repeat", t) \in PlainSteps(c) /\ Do("succeeded", t) \in PlainSteps(c)
      /\ Do("window", t) \in PlainSteps(c) /\ Do("sentinel", t) \in PlainSteps(c)
      /\ Do("operation", t) \in PlainSteps(c)
  BY OrdinaryDo, NamesApart DEF Kinds
<1>2. Save("tenant_accepted", t) \in PlainSteps(c)
  BY OrdinarySave, NamesApart DEF Events, Proved
<1> DEFINE a == <<Do("absent", t), Do("post", t), Do("repeat", t)>>
           b == CASE s # "local" -> <<Do("succeeded", t)>>
                  [] s = "local" /\ busy -> <<Do("window", t), Do("sentinel", t)>>
                  [] OTHER -> << >>
           d == <<Save("tenant_accepted", t)>>
           e == <<Do("operation", t), Do("repeat", t)>>
<1>3. a \in Seq(PlainSteps(c)) /\ d \in Seq(PlainSteps(c)) /\ e \in Seq(PlainSteps(c))
  BY <1>1, <1>2
<1>4. b \in Seq(PlainSteps(c))
  <2>1. CASE s # "local"
    BY <1>1, <2>1
  <2>2. CASE s = "local" /\ busy
    BY <1>1, <2>2
  <2>3. CASE s = "local" /\ ~ busy
    BY <2>3
  <2> QED
    BY <2>1, <2>2, <2>3
<1> HIDE DEF a, b, d, e
<1>5. a \o b \in Seq(PlainSteps(c))
  BY <1>3, <1>4, PlainAppend
<1>6. (a \o b) \o d \in Seq(PlainSteps(c))
  BY <1>3, <1>5, PlainAppend
<1>7. ((a \o b) \o d) \o WaitReady(t) \in Seq(PlainSteps(c))
  BY <1>6, WaitReadyPlain, PlainAppend
<1>8. (((a \o b) \o d) \o WaitReady(t)) \o e \in Seq(PlainSteps(c))
  BY <1>3, <1>7, PlainAppend
<1> QED
  BY <1>8 DEF Onboard, a, b, d, e

LEMMA ContinuePlain ==
    ASSUME NEW c PROVE ContinueFirst \in Seq(PlainSteps(c))
<1>1. Do("continued", First) \in PlainSteps(c) /\ Do("operation", First) \in PlainSteps(c)
  BY OrdinaryDo, NamesApart DEF Kinds
<1>2. Save("first_tenant_continued", First) \in PlainSteps(c)
  BY OrdinarySave, NamesApart DEF Events, Proved
<1> DEFINE a == <<Do("continued", First), Save("first_tenant_continued", First)>>
           b == <<Do("operation", First)>>
<1>3. a \in Seq(PlainSteps(c)) /\ b \in Seq(PlainSteps(c))
  BY <1>1, <1>2
<1> HIDE DEF a, b
<1>4. a \o WaitReady(First) \in Seq(PlainSteps(c))
  BY <1>3, WaitReadyPlain, NamesApart, PlainAppend
<1>5. (a \o WaitReady(First)) \o b \in Seq(PlainSteps(c))
  BY <1>3, <1>4, PlainAppend
<1> QED
  BY <1>5 DEF ContinueFirst, a, b

LEMMA EvidencePlain ==
    ASSUME NEW c, NEW t \in Names
    PROVE  /\ Applied(t) \in Seq(PlainSteps(c)) /\ Reached(t) \in Seq(PlainSteps(c))
           /\ Expected(t) \in Seq(PlainSteps(c))
           /\ WorkloadEvidence(t) \in Seq(PlainSteps(c))
<1>1. /\ Do("applied", t) \in PlainSteps(c) /\ Do("reached", t) \in PlainSteps(c)
      /\ Do("expected", t) \in PlainSteps(c) /\ Do("verify", t) \in PlainSteps(c)
  BY OrdinaryDo, NamesApart DEF Kinds
<1>2. /\ Save("data_applied", t) \in PlainSteps(c) /\ Save("control_images", t) \in PlainSteps(c)
      /\ Save("data_images", t) \in PlainSteps(c)
  BY OrdinarySave, NamesApart DEF Events, Proved
<1> QED
  BY <1>1, <1>2 DEF Applied, Expected, Reached, WorkloadEvidence

LEMMA UpdatesPlain ==
    ASSUME NEW c, NEW t \in Names
    PROVE  Updates(t) \in Seq(PlainSteps(c))
<1>1. /\ Do("tally", t) \in PlainSteps(c) /\ Do("count", t) \in PlainSteps(c)
      /\ Do("version", t) \in PlainSteps(c) /\ Do("put", t) \in PlainSteps(c)
  BY OrdinaryDo, NamesApart DEF Kinds
<1> DEFINE a == <<Do("tally", t), Do("count", t), Do("version", t), Do("put", t), Do("put", t)>>
<1>2. a \in Seq(PlainSteps(c))
  BY <1>1
<1> HIDE DEF a
<1>3. a \o Reached(t) \in Seq(PlainSteps(c))
  BY <1>2, EvidencePlain, PlainAppend
<1> QED
  BY <1>3 DEF Updates, a

LEMMA CountersPlain ==
    ASSUME NEW c, NEW s \in Sites
    PROVE  CheckUpdatesAndCounters(s) \in Seq(PlainSteps(c))
<1>1. /\ Do("tally", Second) \in PlainSteps(c) /\ Do("tally", First) \in PlainSteps(c)
      /\ Do("count", First) \in PlainSteps(c) /\ Do("tallied", Second) \in PlainSteps(c)
      /\ Do("mark", NoTenant) \in PlainSteps(c)
  BY OrdinaryDo, NamesApart DEF Kinds
<1>2. Save("configuration_counter_and_auth_checks", NoTenant) \in PlainSteps(c)
  BY OrdinarySave DEF Events, Proved
<1> DEFINE a == <<Do("tally", Second), Do("tally", First), Do("count", First), Do("tallied", Second)>>
           b == IF s = "azure" THEN << >> ELSE Updates(Third)
           d == <<Do("mark", NoTenant), Save("configuration_counter_and_auth_checks", NoTenant)>>
<1>3. a \in Seq(PlainSteps(c)) /\ d \in Seq(PlainSteps(c))
  BY <1>1, <1>2
<1>4. b \in Seq(PlainSteps(c))
  BY UpdatesPlain, NamesApart
<1> HIDE DEF a, b, d
<1>5. a \o Updates(First) \in Seq(PlainSteps(c))
  BY <1>3, UpdatesPlain, NamesApart, PlainAppend
<1>6. (a \o Updates(First)) \o Updates(Second) \in Seq(PlainSteps(c))
  BY <1>5, UpdatesPlain, NamesApart, PlainAppend
<1>7. ((a \o Updates(First)) \o Updates(Second)) \o b \in Seq(PlainSteps(c))
  BY <1>4, <1>6, PlainAppend
<1>8. (((a \o Updates(First)) \o Updates(Second)) \o b) \o d \in Seq(PlainSteps(c))
  BY <1>3, <1>7, PlainAppend
<1> QED
  BY <1>8 DEF CheckUpdatesAndCounters, a, b, d

LEMMA IdempotencyPlain ==
    ASSUME NEW c, NEW s \in Sites
    PROVE  CheckConfigurationAndIdempotency(s) \in Seq(PlainSteps(c))
<1>1. /\ Do("timelines", NoTenant) \in PlainSteps(c) /\ Do("survived", NoTenant) \in PlainSteps(c)
      /\ Do("same", NoTenant) \in PlainSteps(c)
  BY OrdinaryDo DEF Kinds
<1>2. /\ Save("complete_paginated_timelines", NoTenant) \in PlainSteps(c)
      /\ Save("requested_messages_and_counters_survived_management_poll", NoTenant) \in PlainSteps(c)
      /\ Save("workload_image", NoTenant) \in PlainSteps(c)
      /\ Save("three_poll_intervals_idempotent", NoTenant) \in PlainSteps(c)
  BY OrdinarySave DEF Events, Proved
<1> DEFINE a == <<Do("timelines", NoTenant), Save("complete_paginated_timelines", NoTenant),
         Do("survived", NoTenant),
         Save("requested_messages_and_counters_survived_management_poll", NoTenant),
         Save("complete_paginated_timelines", NoTenant), Do("same", NoTenant),
         Save("workload_image", NoTenant), Save("three_poll_intervals_idempotent", NoTenant)>>
<1>3. a \in Seq(PlainSteps(c))
  BY <1>1, <1>2
<1> HIDE DEF a
<1>4. CheckUpdatesAndCounters(s) \o a \in Seq(PlainSteps(c))
  BY <1>3, CountersPlain, PlainAppend
<1> QED
  BY <1>4 DEF CheckConfigurationAndIdempotency, a

\* The body of the pause proves the readiness.
LEMMA BodyLeads ==
    ASSUME NEW c, NEW s \in Sites
    PROVE  Leads(c, <<Save("data_reconciler_paused", NoTenant)>> \o Onboard(s, Second, FALSE)
                    \o <<Do("pending", Second), Save("immediate_child_readiness_proved", Second)>>,
                 Undoing(c), Proving(c))
<1> DEFINE a == <<Save("data_reconciler_paused", NoTenant)>>
           pending == Do("pending", Second)
           proved == Save("immediate_child_readiness_proved", Second)
           b == <<pending, proved>>
<1>1. a \in Seq(PlainSteps(c))
  <2>1. Save("data_reconciler_paused", NoTenant) \in PlainSteps(c)
    BY OrdinarySave DEF Events, Proved
  <2> QED
    BY <2>1
<1>2. pending \in PlainSteps(c)
  BY OrdinaryDo, NamesApart DEF Kinds
<1>3. proved \in StepsOf(c) /\ Rank(proved) = 4 /\ proved[1] = "save"
  BY NamesApart DEF Save, Rank, Proved, StepsOf, Steps, Kinds, Events
<1>4. pending \in StepsOf(c)
  BY <1>2 DEF PlainSteps
<1> HIDE DEF pending, proved
<1>5. Leads(c, b, Undoing(c), Proving(c))
  <2>1. b \in Seq(StepsOf(c))
    BY <1>3, <1>4
  <2>2. ASSUME NEW t \in Undoing(c) PROVE b \o t \in Proving(c)
    <3>1. t \in Seq(StepsOf(c)) /\ Shape(t) /\ Unscaled(t) /\ After(t, 4) /\ Ahead(t, 5)
      BY DEF Undoing
    <3> DEFINE d == <<proved>> \o t
    <3>2. d \in Seq(StepsOf(c)) /\ Shape(d)
      BY <1>3, <3>1, OneMore
    <3>3. Unscaled(d) /\ After(d, 3) /\ Ahead(d, 4)
      <4>1. After(t, 3)
        BY <3>1, RankProperties DEF After
      <4> QED
        BY <1>3, <3>1, <4>1, ConsClasses
    <3>4. d \in Proving(c)
      BY <3>2, <3>3 DEF Proving
    <3> HIDE DEF d
    <3>5. <<pending>> \o d \in Proving(c)
      <4>1. <<pending>> \in Seq(PlainSteps(c))
        BY <1>2
      <4> QED
        BY <3>4, <4>1, PlainLeads DEF Leads
    <3>6. b \o t = <<pending>> \o d
      <4>1. <<pending, proved>> \o t = <<pending>> \o (<<proved>> \o t)
        BY <1>3, <1>4, <3>1, TwoSteps
      <4> QED
        BY <4>1 DEF d
    <3> QED
      BY <3>5, <3>6
  <2> QED
    BY <2>1, <2>2 DEF Leads
<1> HIDE DEF a, b
<1>6. a \o Onboard(s, Second, FALSE) \in Seq(PlainSteps(c))
  BY <1>1, OnboardPlain, NamesApart, PlainAppend
<1>7. Leads(c, a \o Onboard(s, Second, FALSE), Proving(c), Proving(c))
  BY <1>6, PlainLeads
<1>8. Leads(c, (a \o Onboard(s, Second, FALSE)) \o b, Undoing(c), Proving(c))
  <2>1. Undoing(c) \in SUBSET Seq(StepsOf(c))
    BY DEF Undoing
  <2> QED
    BY <1>5, <1>7, <2>1, Compose
<1> QED
  BY <1>8 DEF a, b, pending, proved

LEMMA ScenarioLeads ==
    ASSUME NEW s \in Sites, NEW c \in BOOLEAN
    PROVE  Leads(c, Scenario(s, c), Out(c), Whole(c))
<1> DEFINE P == Seq(PlainSteps(c))
           a == IF c THEN << >> ELSE <<Do("absent", First)>>
           b == <<Do("absent", Second), Do("absent", Third)>>
           d == IF c THEN ContinueFirst ELSE Onboard(s, First, TRUE)
           e == IF c THEN Expected(First) ELSE Applied(First)
           body == <<Save("data_reconciler_paused", NoTenant)>> \o Onboard(s, Second, FALSE)
                   \o <<Do("pending", Second), Save("immediate_child_readiness_proved", Second)>>
           rejected == <<Do("rejected", Third), Save("isolated_capacity_unavailable", Third)>>
           last == IF s = "azure" THEN rejected
                   ELSE Onboard(s, Third, FALSE) \o Applied(Third) \o WorkloadEvidence(Third)
<1>1. /\ Do("absent", First) \in PlainSteps(c) /\ Do("absent", Second) \in PlainSteps(c)
      /\ Do("absent", Third) \in PlainSteps(c) /\ Do("rejected", Third) \in PlainSteps(c)
  BY OrdinaryDo, NamesApart DEF Kinds
<1>2. Save("isolated_capacity_unavailable", Third) \in PlainSteps(c)
  BY OrdinarySave, NamesApart DEF Events, Proved
<1>3. a \in P /\ b \in P /\ rejected \in P
  BY <1>1, <1>2
<1>4. d \in P /\ e \in P
  BY ContinuePlain, OnboardPlain, EvidencePlain, NamesApart
<1>5. Leads(c, body, Undoing(c), Proving(c))
  BY BodyLeads
<1>6. last \in P
  <2>1. Onboard(s, Third, FALSE) \in P
    BY OnboardPlain, NamesApart
  <2>2. Onboard(s, Third, FALSE) \o Applied(Third) \in P
    BY <2>1, EvidencePlain, NamesApart, PlainAppend
  <2>3. (Onboard(s, Third, FALSE) \o Applied(Third)) \o WorkloadEvidence(Third) \in P
    BY <2>2, EvidencePlain, NamesApart, PlainAppend
  <2> QED
    BY <1>3, <2>3
<1> HIDE DEF a, b, d, e, body, rejected, last
<1>7. a \o b \in P
  BY <1>3, PlainAppend
<1>8. (a \o b) \o d \in P
  BY <1>4, <1>7, PlainAppend
<1>9. ((a \o b) \o d) \o e \in P
  BY <1>4, <1>8, PlainAppend
<1> DEFINE before == (((a \o b) \o d) \o e) \o WorkloadEvidence(First)
<1>10. before \in P
  BY <1>9, EvidencePlain, NamesApart, PlainAppend
<1> HIDE DEF before
<1>11. Leads(c, PausedReconciler(body), Out(c), Whole(c))
  BY <1>5, PauseLeads
<1>12. Leads(c, before, Whole(c), Whole(c))
  BY <1>10, PlainLeads
<1>13. Out(c) \in SUBSET Seq(StepsOf(c))
  BY DEF Out
<1>14. Leads(c, before \o PausedReconciler(body), Out(c), Whole(c))
  BY <1>11, <1>12, <1>13, Compose
<1>15. /\ Leads(c, Applied(Second), Out(c), Out(c))
       /\ Leads(c, WorkloadEvidence(Second), Out(c), Out(c))
       /\ Leads(c, CheckConfigurationAndIdempotency(s), Out(c), Out(c))
       /\ Leads(c, last, Out(c), Out(c))
  BY <1>6, PlainLeads, EvidencePlain, IdempotencyPlain, NamesApart
<1>16. Leads(c, (before \o PausedReconciler(body)) \o Applied(Second), Out(c), Whole(c))
  BY <1>13, <1>14, <1>15, Compose
<1>17. Leads(c, ((before \o PausedReconciler(body)) \o Applied(Second)) \o WorkloadEvidence(Second),
             Out(c), Whole(c))
  BY <1>13, <1>15, <1>16, Compose
<1>18. Leads(c, (((before \o PausedReconciler(body)) \o Applied(Second))
                 \o WorkloadEvidence(Second)) \o last, Out(c), Whole(c))
  BY <1>13, <1>15, <1>17, Compose
<1>19. Leads(c, ((((before \o PausedReconciler(body)) \o Applied(Second))
                 \o WorkloadEvidence(Second)) \o last) \o CheckConfigurationAndIdempotency(s),
             Out(c), Whole(c))
  BY <1>13, <1>15, <1>18, Compose
<1> QED
  BY <1>19 DEF Scenario, a, b, d, e, body, rejected, last, before

LEMMA OperationPlain ==
    ASSUME NEW c, NEW t \in Names PROVE <<Do("operation", t)>> \in Seq(PlainSteps(c))
<1>1. Do("operation", t) \in PlainSteps(c)
  BY OrdinaryDo, NamesApart DEF Kinds
<1> QED
  BY <1>1

LEMMA VerifyPlain ==
    ASSUME NEW s \in Sites, NEW c
    PROVE  VerifyExisting(s) \in Seq(PlainSteps(c))
<1> DEFINE P == Seq(PlainSteps(c))
           o(t) == <<Do("operation", t)>>
           a == IF s = "azure" THEN << >> ELSE WaitReady(Third) \o o(Third)
           b == IF s = "azure" THEN << >>
                ELSE Applied(Third) \o WorkloadEvidence(First) \o WorkloadEvidence(Third)
           d == CheckConfigurationAndIdempotency(s)
<1>1. \A t \in Names : o(t) \in P /\ WaitReady(t) \in P /\ Applied(t) \in P /\ WorkloadEvidence(t) \in P
  BY OperationPlain, WaitReadyPlain, EvidencePlain
<1>2. o(First) \in P /\ o(Second) \in P /\ o(Third) \in P
  BY <1>1, NamesApart
<1>3. /\ WaitReady(First) \in P /\ WaitReady(Second) \in P /\ WaitReady(Third) \in P
      /\ Applied(First) \in P /\ Applied(Second) \in P /\ Applied(Third) \in P
      /\ WorkloadEvidence(First) \in P /\ WorkloadEvidence(Third) \in P
  BY <1>1, NamesApart
<1>4. d \in P
  BY IdempotencyPlain
<1> HIDE DEF o, d
<1>5. a \in P
  <2>1. WaitReady(Third) \o o(Third) \in P
    BY <1>2, <1>3, PlainAppend
  <2> QED
    BY <2>1
<1>6. b \in P
  <2>1. Applied(Third) \o WorkloadEvidence(First) \in P
    BY <1>3, PlainAppend
  <2>2. (Applied(Third) \o WorkloadEvidence(First)) \o WorkloadEvidence(Third) \in P
    BY <1>3, <2>1, PlainAppend
  <2> QED
    BY <2>2
<1> HIDE DEF a, b
<1> DEFINE p1 == WaitReady(First) \o o(First)
           p2 == p1 \o WaitReady(Second)
           p3 == p2 \o o(Second)
           p4 == p3 \o a
           p5 == p4 \o Applied(First)
           p6 == p5 \o Applied(Second)
           p7 == p6 \o b
<1>7. p1 \in P
  BY <1>2, <1>3, PlainAppend
<1>8. p2 \in P
  BY <1>7, <1>3, PlainAppend
<1>9. p3 \in P
  BY <1>8, <1>2, PlainAppend
<1>10. p4 \in P
  BY <1>9, <1>5, PlainAppend
<1>11. p5 \in P
  BY <1>10, <1>3, PlainAppend
<1>12. p6 \in P
  BY <1>11, <1>3, PlainAppend
<1>13. p7 \in P
  BY <1>12, <1>6, PlainAppend
<1>14. p7 \o d \in P
  BY <1>13, <1>4, PlainAppend
<1> QED
  BY <1>14 DEF VerifyExisting, o, a, b, d

LEMMA ObservePlain == ASSUME NEW c PROVE ObserveAll \in Seq(PlainSteps(c))
<1> DEFINE P == Seq(PlainSteps(c))
<1>1. \A t \in Names : WaitReady(t) \in P /\ Applied(t) \in P /\ WorkloadEvidence(t) \in P
  BY WaitReadyPlain, EvidencePlain
<1>2. /\ WaitReady(First) \in P /\ WaitReady(Second) \in P /\ WaitReady(Third) \in P
      /\ Applied(First) \in P /\ Applied(Second) \in P /\ Applied(Third) \in P
      /\ WorkloadEvidence(First) \in P /\ WorkloadEvidence(Third) \in P
  BY <1>1, NamesApart
<1> DEFINE p1 == WaitReady(First) \o Applied(First)
           p2 == p1 \o WaitReady(Second)
           p3 == p2 \o Applied(Second)
           p4 == p3 \o WaitReady(Third)
           p5 == p4 \o Applied(Third)
           p6 == p5 \o WorkloadEvidence(First)
<1>3. p1 \in P
  BY <1>2, PlainAppend
<1>4. p2 \in P
  BY <1>2, <1>3, PlainAppend
<1>5. p3 \in P
  BY <1>2, <1>4, PlainAppend
<1>6. p4 \in P
  BY <1>2, <1>5, PlainAppend
<1>7. p5 \in P
  BY <1>2, <1>6, PlainAppend
<1>8. p6 \in P
  BY <1>2, <1>7, PlainAppend
<1>9. p6 \o WorkloadEvidence(Third) \in P
  BY <1>2, <1>8, PlainAppend
<1> QED
  BY <1>9 DEF ObserveAll

LEMMA ManagementLeads ==
    ASSUME NEW c PROVE Leads(c, ManagementOutage, Out(c), Out(c))
<1> DEFINE P == Seq(PlainSteps(c))
           read == <<Do("before", First)>>
           put == <<Do("put", First)>>
           sampled == <<Do("tally", First), <<"sample", First, "management">>,
                        Save("data_continuity", First), Do("untold", First)>>
           body == put \o Reached(First) \o sampled
           after == <<Do("recovered", First), Do("untold", First),
                      Save("management_link_recovered", First)>>
<1>1. /\ Do("put", First) \in PlainSteps(c) /\ Do("tally", First) \in PlainSteps(c)
      /\ Do("recovered", First) \in PlainSteps(c) /\ Do("before", First) \in PlainSteps(c)
      /\ Do("untold", First) \in PlainSteps(c)
  BY OrdinaryDo, NamesApart DEF Kinds
<1>2. Save("data_continuity", First) \in PlainSteps(c)
      /\ Save("management_link_recovered", First) \in PlainSteps(c)
  BY OrdinarySave, NamesApart DEF Events, Proved
<1>3. <<"sample", First, "management">> \in PlainSteps(c)
  BY Sampling DEF Links
<1>4. /\ read \in P /\ put \in P /\ sampled \in P /\ after \in P
      /\ Applied(First) \in P /\ Reached(First) \in P
  BY <1>1, <1>2, <1>3, EvidencePlain, NamesApart
<1> HIDE DEF read, put, sampled, after
<1>5. put \o Reached(First) \in P
  BY <1>4, PlainAppend
<1>6. body \in P
  BY <1>4, <1>5, PlainAppend
<1> HIDE DEF body
<1>7. Leads(c, ParentFault("management", body), Out(c), Out(c))
  BY <1>6, FaultLeads DEF Links
<1>8. Leads(c, Applied(First) \o read, Out(c), Out(c)) /\ Leads(c, after, Out(c), Out(c))
  BY <1>4, PlainAppend, PlainLeads
<1>9. Out(c) \in SUBSET Seq(StepsOf(c))
  BY DEF Out
<1>10. Leads(c, (Applied(First) \o read) \o ParentFault("management", body), Out(c), Out(c))
  BY <1>7, <1>8, <1>9, Compose
<1>11. Leads(c, ((Applied(First) \o read) \o ParentFault("management", body)) \o after,
             Out(c), Out(c))
  BY <1>8, <1>9, <1>10, Compose
<1> QED
  BY <1>11 DEF ManagementOutage, body, read, put, sampled, after

LEMMA ControlLeads ==
    ASSUME NEW c PROVE Leads(c, ControlOutage, Out(c), Out(c))
<1> DEFINE P == Seq(PlainSteps(c))
           body == <<Do("put", First), Do("put", First), Do("tally", First),
                     <<"sample", First, "control">>, Do("restart", First), Do("replaced", First),
                     <<"sample", First, "control">>, Save("data_continuity", First),
                     Do("unapplied", First)>>
           after == <<Do("latest", First), Save("control_link_recovered_latest_only", First)>>
<1>1. /\ Do("put", First) \in PlainSteps(c) /\ Do("tally", First) \in PlainSteps(c)
      /\ Do("restart", First) \in PlainSteps(c) /\ Do("replaced", First) \in PlainSteps(c)
      /\ Do("unapplied", First) \in PlainSteps(c) /\ Do("latest", First) \in PlainSteps(c)
  BY OrdinaryDo, NamesApart DEF Kinds
<1>2. Save("data_continuity", First) \in PlainSteps(c)
      /\ Save("control_link_recovered_latest_only", First) \in PlainSteps(c)
  BY OrdinarySave, NamesApart DEF Events, Proved
<1>3. <<"sample", First, "control">> \in PlainSteps(c)
  BY Sampling DEF Links
<1>4. body \in P /\ after \in P
  BY <1>1, <1>2, <1>3
<1>5. Applied(First) \in P /\ Reached(First) \in P
  BY EvidencePlain, NamesApart
<1> HIDE DEF body, after
<1>6. Leads(c, ParentFault("control", body), Out(c), Out(c))
  BY <1>4, FaultLeads DEF Links
<1>7. /\ Leads(c, Applied(First), Out(c), Out(c)) /\ Leads(c, Reached(First), Out(c), Out(c))
      /\ Leads(c, after, Out(c), Out(c))
  BY <1>4, <1>5, PlainLeads
<1>8. Out(c) \in SUBSET Seq(StepsOf(c))
  BY DEF Out
<1>9. Leads(c, Applied(First) \o ParentFault("control", body), Out(c), Out(c))
  BY <1>6, <1>7, <1>8, Compose
<1>10. Leads(c, (Applied(First) \o ParentFault("control", body)) \o Reached(First), Out(c), Out(c))
  BY <1>7, <1>8, <1>9, Compose
<1>11. Leads(c, ((Applied(First) \o ParentFault("control", body)) \o Reached(First)) \o after,
             Out(c), Out(c))
  BY <1>7, <1>8, <1>10, Compose
<1> QED
  BY <1>11 DEF ControlOutage, body, after

LEMMA FinishIsOut ==
    ASSUME NEW c
    PROVE  <<Do("finish", NoTenant)>> \in Out(c)
<1> DEFINE x == Do("finish", NoTenant)
<1>1. x \in StepsOf(c) /\ Rank(x) = 0 /\ x[1] = "finish"
  BY DEF Do, Rank, StepsOf, Steps, Kinds
<1> HIDE DEF x
<1>2. <<x>> \in Seq(StepsOf(c)) /\ Len(<<x>>) = 1 /\ <<x>>[1] = x
  BY <1>1
<1>3. \A i \in 1..1 : <<x>>[i] = x
  BY <1>2
<1>4. InOrder(<<x>>) /\ Complete(<<x>>) /\ Adjacent(<<x>>) /\ Apart(<<x>>) /\ Ends(<<x>>)
  BY <1>1, <1>2, <1>3 DEF InOrder, Complete, Adjacent, Apart, Ends
<1>5. Blocks(<<x>>)
  BY <1>1, <1>2, <1>3 DEF Blocks
<1>6. Unscaled(<<x>>) /\ After(<<x>>, 7) /\ Opening(<<x>>)
  BY <1>1, <1>2, <1>3 DEF Unscaled, After, Opening
<1> QED
  BY <1>2, <1>4, <1>5, <1>6 DEF Out, Shape, x

\* Every script has the shape, and stops and drains before it proves readiness.
LEMMA ScriptShape ==
    ASSUME NEW m \in Modes, NEW s \in Sites, NEW c \in BOOLEAN
    PROVE  Script(m, s, c) \in Whole(c)
<1> DEFINE P == Seq(PlainSteps(c))
           a == IF c THEN <<Do("load", NoTenant), Do("claim", NoTenant)>> ELSE << >>
           b == <<Save("acceptance_started", NoTenant), Save("workload_image", NoTenant)>>
           d == CASE m \in {"scenario", "all"} -> Scenario(s, c)
                  [] m = "verify-existing" -> VerifyExisting(s)
                  [] m = "outages" -> ObserveAll
           lines == <<Do("timelines", NoTenant), Save("complete_paginated_timelines", NoTenant)>>
           e == IF m = "scenario" THEN << >> ELSE ManagementOutage \o ControlOutage \o lines
           end == <<Do("finish", NoTenant)>>
<1>0. Out(c) \in SUBSET Seq(StepsOf(c)) /\ Out(c) \subseteq Whole(c)
  BY OutIsWhole DEF Out
<1>1. Do("timelines", NoTenant) \in PlainSteps(c) /\ Do("claim", NoTenant) \in PlainSteps(c)
      /\ (c => Do("load", NoTenant) \in PlainSteps(c))
  BY OrdinaryDo DEF Kinds
<1>2. /\ Save("acceptance_started", NoTenant) \in PlainSteps(c)
      /\ Save("workload_image", NoTenant) \in PlainSteps(c)
      /\ Save("complete_paginated_timelines", NoTenant) \in PlainSteps(c)
  BY OrdinarySave DEF Events, Proved
<1>3. a \in P /\ b \in P /\ lines \in P
  <2>1. CASE c
    <3>1. Do("load", NoTenant) \in PlainSteps(c) /\ Do("claim", NoTenant) \in PlainSteps(c)
      BY <1>1, <2>1
    <3>2. <<Do("load", NoTenant), Do("claim", NoTenant)>> \in P
      BY <3>1
    <3>3. b \in P /\ lines \in P
      BY <1>1, <1>2
    <3> QED
      BY <2>1, <3>2, <3>3
  <2>2. CASE ~ c
    BY <1>1, <1>2, <2>2
  <2> QED
    BY <2>1, <2>2
<1>4. Leads(c, d, Out(c), Whole(c))
  <2>1. CASE m \in {"scenario", "all"}
    BY <2>1, ScenarioLeads
  <2>2. CASE m = "verify-existing"
    <3>1. Leads(c, VerifyExisting(s), Out(c), Out(c))
      BY VerifyPlain, PlainLeads
    <3> QED
      BY <1>0, <2>2, <3>1 DEF Leads
  <2>3. CASE m = "outages"
    <3>1. Leads(c, ObserveAll, Out(c), Out(c))
      BY ObservePlain, PlainLeads
    <3> QED
      BY <1>0, <2>3, <3>1 DEF Leads
  <2> QED
    BY <2>1, <2>2, <2>3 DEF Modes
<1> HIDE DEF a, b, d, lines
<1>5. Leads(c, e, Out(c), Out(c))
  <2>1. Leads(c, << >>, Out(c), Out(c))
    <3>1. << >> \in P
      OBVIOUS
    <3> QED
      BY <3>1, PlainLeads
  <2>2. Leads(c, ManagementOutage \o ControlOutage, Out(c), Out(c))
    BY <1>0, ManagementLeads, ControlLeads, Compose
  <2>3. Leads(c, lines, Out(c), Out(c))
    BY <1>3, PlainLeads
  <2>4. Leads(c, (ManagementOutage \o ControlOutage) \o lines, Out(c), Out(c))
    BY <1>0, <2>2, <2>3, Compose
  <2> QED
    BY <2>1, <2>4
<1> HIDE DEF e
<1>6. a \o b \in P
  BY <1>3, PlainAppend
<1>7. Leads(c, a \o b, Whole(c), Whole(c))
  BY <1>6, PlainLeads
<1>8. Leads(c, (a \o b) \o d, Out(c), Whole(c))
  BY <1>0, <1>4, <1>7, Compose
<1>9. Leads(c, ((a \o b) \o d) \o e, Out(c), Whole(c))
  BY <1>0, <1>5, <1>8, Compose
<1>10. (((a \o b) \o d) \o e) \o end \in Whole(c)
  BY <1>9, FinishIsOut DEF Leads
<1> QED
  BY <1>10 DEF Script, a, b, d, e, lines

-----------------------------------------------------------------------------
(* What is left of a script after a step *)

LEMMA SuffixShape ==
    ASSUME NEW c, NEW s \in Seq(StepsOf(c)), Shape(s), NEW d \in 0..Len(s),
           NEW u \in Seq(StepsOf(c)), Len(u) = Len(s) - d,
           \A j \in 1..Len(u) : u[j] = s[j + d]
    PROVE  /\ Shape(u)
           /\ \A k \in 1..8 : Ahead(u, k) => Ahead(s, k)
<1>0. Len(s) \in Nat /\ Len(u) \in Nat /\ d \in Nat /\ Len(s) = Len(u) + d
  OBVIOUS
<1>1. ASSUME NEW j \in 1..Len(u) PROVE u[j] = s[j + d] /\ j + d \in 1..Len(s)
  BY <1>0
<1>2. ASSUME NEW j \in 1..Len(s), j > d PROVE s[j] = u[j - d] /\ j - d \in 1..Len(u)
  <2>1. j - d \in 1..Len(u) /\ (j - d) + d = j
    BY <1>0, <1>2
  <2> QED
    BY <1>1, <2>1
<1>3. InOrder(u)
  <2> SUFFICES ASSUME NEW i \in 1..Len(u), NEW j \in 1..Len(u), i < j,
                      Rank(u[i]) # 0, Rank(u[j]) # 0
               PROVE  Rank(u[i]) < Rank(u[j]) \/ (Rank(u[i]) = 8 /\ Rank(u[j]) = 8)
    BY DEF InOrder
  <2>1. u[i] = s[i + d] /\ i + d \in 1..Len(s) /\ u[j] = s[j + d] /\ j + d \in 1..Len(s)
    BY <1>1
  <2>2. i + d < j + d
    BY <1>0
  <2> QED
    BY <2>1, <2>2 DEF Shape, InOrder
<1>4. Complete(u)
  <2> SUFFICES ASSUME NEW i \in 1..Len(u), Rank(u[i]) \in 1..6
               PROVE  \E j \in (i + 1)..Len(u) : Rank(u[j]) = Rank(u[i]) + 1
    BY DEF Complete
  <2>1. u[i] = s[i + d] /\ i + d \in 1..Len(s)
    BY <1>1
  <2>2. PICK j \in ((i + d) + 1)..Len(s) : Rank(s[j]) = Rank(s[i + d]) + 1
    BY <2>1 DEF Shape, Complete
  <2>3. j \in 1..Len(s) /\ j > d
    BY <1>0, <2>1
  <2>4. s[j] = u[j - d] /\ j - d \in (i + 1)..Len(u)
    BY <1>0, <1>2, <2>3
  <2> QED
    BY <2>1, <2>2, <2>4
<1>5. Adjacent(u)
  <2> SUFFICES ASSUME NEW i \in 2..Len(u), Rank(u[i]) = 6 PROVE Rank(u[i - 1]) = 5
    BY DEF Adjacent
  <2>1. u[i] = s[i + d] /\ i + d \in 2..Len(s)
    BY <1>0, <1>1
  <2>2. u[i - 1] = s[(i + d) - 1]
    BY <1>0, <1>1
  <2> QED
    BY <2>1, <2>2 DEF Shape, Adjacent
<1>6. Blocks(u)
  <2> SUFFICES ASSUME NEW i \in 1..Len(u), u[i][1] = "block"
               PROVE  \E k \in (i + 1)..Len(u) :
                         /\ u[k][1] = "lift" /\ u[k][3] = u[i][3]
                         /\ \A j \in i..(k - 1) : u[j][1] \notin Opens \cup Closes
    BY DEF Blocks
  <2>1. u[i] = s[i + d] /\ i + d \in 1..Len(s)
    BY <1>1
  <2>2. PICK k \in ((i + d) + 1)..Len(s) :
           /\ s[k][1] = "lift" /\ s[k][3] = s[i + d][3]
           /\ \A j \in (i + d)..(k - 1) : s[j][1] \notin Opens \cup Closes
    BY <2>1 DEF Shape, Blocks
  <2>3. k \in 1..Len(s) /\ k > d
    BY <1>0, <2>1
  <2>4. s[k] = u[k - d] /\ k - d \in (i + 1)..Len(u)
    BY <1>0, <1>2, <2>3
  <2>5. ASSUME NEW j \in i..((k - d) - 1) PROVE u[j][1] \notin Opens \cup Closes
    <3>0. k - d \in 1..Len(u) /\ k \in Nat
      BY SMTT(30), <1>0, <2>2, <2>4
    <3>1. j \in 1..Len(u) /\ j + d \in (i + d)..(k - 1)
      BY <1>0, <3>0
    <3> QED
      BY <1>1, <2>2, <3>1
  <2>6. /\ u[k - d][1] = "lift" /\ u[k - d][3] = u[i][3]
        /\ \A j \in i..((k - d) - 1) : u[j][1] \notin Opens \cup Closes
    BY <2>1, <2>2, <2>4, <2>5
  <2> QED
    BY <2>4, <2>6
<1>7. Apart(u)
  <2> SUFFICES ASSUME NEW i \in 1..Len(u), NEW k \in 1..Len(u), i < k,
                      Rank(u[i]) = 7, u[k][1] = "lift"
               PROVE  \E j \in (i + 1)..(k - 1) : u[j][1] \in Opens
    BY DEF Apart
  <2>1. /\ u[i] = s[i + d] /\ i + d \in 1..Len(s) /\ u[k] = s[k + d] /\ k + d \in 1..Len(s)
        /\ i + d < k + d
    BY <1>0, <1>1
  <2>2. PICK j \in ((i + d) + 1)..((k + d) - 1) : s[j][1] \in Opens
    BY <2>1 DEF Shape, Apart
  <2>3. /\ i \in Nat /\ i >= 1 /\ k \in Nat /\ d \in Nat /\ Len(s) \in Nat
        /\ j \in ((i + d) + 1)..((k + d) - 1) /\ k + d <= Len(s)
    <3>1. i \in Nat /\ i >= 1 /\ k \in Nat /\ d \in Nat /\ Len(s) \in Nat
      BY <1>0
    <3>2. k + d <= Len(s)
      BY <2>1, <3>1
    <3> QED
      BY <2>2, <3>1, <3>2
  <2>4. j \in 1..Len(s) /\ j > d /\ j - d \in (i + 1)..(k - 1)
    BY SMTT(30), <2>3
  <2>5. s[j] = u[j - d]
    BY <1>2, <2>4
  <2> QED
    BY <2>2, <2>4, <2>5
<1>8. Ends(u)
  <2> SUFFICES ASSUME NEW i \in 1..Len(u), u[i][1] = "finish" PROVE i = Len(u)
    BY DEF Ends
  <2>1. u[i] = s[i + d] /\ i + d \in 1..Len(s)
    BY <1>1
  <2>2. i + d = Len(s)
    BY <2>1 DEF Shape, Ends
  <2> QED
    BY <1>0, <2>2
<1>9. ASSUME NEW k \in 1..8, Ahead(u, k) PROVE Ahead(s, k)
  <2>1. PICK i \in 1..Len(u) : Rank(u[i]) = k
    BY <1>9 DEF Ahead
  <2>2. u[i] = s[i + d] /\ i + d \in 1..Len(s)
    BY <1>1
  <2> QED
    BY <2>1, <2>2 DEF Ahead
<1> QED
  BY <1>3, <1>4, <1>5, <1>6, <1>7, <1>8, <1>9 DEF Shape

LEMMA TailShape ==
    ASSUME NEW c, NEW s \in Seq(StepsOf(c)), Shape(s), s # << >>
    PROVE  /\ Tail(s) \in Seq(StepsOf(c)) /\ Shape(Tail(s))
           /\ \A k \in 1..8 : Ahead(Tail(s), k) => Ahead(s, k)
           /\ \A k \in 1..8 : Ahead(s, k) /\ Rank(s[1]) # k => Ahead(Tail(s), k)
           /\ \A l : Lifting(s, l) /\ s[1][1] # "lift" => Lifting(Tail(s), l)
<1> DEFINE u == Tail(s)
<1>1. /\ u \in Seq(StepsOf(c)) /\ Len(s) \in Nat \ {0} /\ Len(u) = Len(s) - 1
      /\ \A j \in 1..Len(u) : u[j] = s[j + 1] /\ j + 1 \in 1..Len(s)
  BY TailProperties
<1> HIDE DEF u
<1>2. 1 \in 0..Len(s)
  BY <1>1
<1>3. Shape(u) /\ \A k \in 1..8 : Ahead(u, k) => Ahead(s, k)
  BY <1>1, <1>2, SuffixShape
<1>4. ASSUME NEW j \in 2..Len(s) PROVE u[j - 1] = s[j] /\ j - 1 \in 1..Len(u)
  BY <1>1
<1>5. ASSUME NEW k \in 1..8, Ahead(s, k), Rank(s[1]) # k PROVE Ahead(u, k)
  <2>1. PICK j \in 1..Len(s) : Rank(s[j]) = k
    BY <1>5 DEF Ahead
  <2>2. j \in 2..Len(s)
    BY <1>5, <2>1
  <2> QED
    BY <1>4, <2>1, <2>2 DEF Ahead
<1>6. ASSUME NEW l, Lifting(s, l), s[1][1] # "lift" PROVE Lifting(u, l)
  <2>1. PICK k \in 1..Len(s) : LiftAt(s, l, k)
    BY <1>6 DEF Lifting
  <2>2. k \in 2..Len(s)
    BY <1>6, <2>1 DEF LiftAt
  <2>3. u[k - 1] = s[k] /\ k - 1 \in 1..Len(u)
    BY <1>4, <2>2
  <2>4. ASSUME NEW j \in 1..((k - 1) - 1) PROVE u[j][1] \notin Opens \cup Closes
    <3>1. j \in 1..Len(u) /\ j + 1 \in 1..(k - 1)
      BY <1>1, <2>2
    <3> QED
      BY <1>1, <2>1, <3>1 DEF LiftAt
  <2>5. u[k - 1][1] = "lift" /\ u[k - 1][3] = l
    BY <2>1, <2>3 DEF LiftAt
  <2>6. LiftAt(u, l, k - 1)
    BY <2>4, <2>5 DEF LiftAt
  <2> QED
    BY <2>3, <2>6 DEF Lifting
<1> QED
  BY <1>1, <1>3, <1>5, <1>6 DEF u

LEMMA RestShape ==
    ASSUME NEW c, NEW s \in Seq(StepsOf(c)), Shape(s), NEW i \in 1..Len(s)
    PROVE  /\ SubSeq(s, i, Len(s)) \in Seq(StepsOf(c)) /\ Shape(SubSeq(s, i, Len(s)))
           /\ \A k \in 1..8 : Ahead(SubSeq(s, i, Len(s)), k) => Ahead(s, k)
           /\ \A k \in 1..8 : (\E j \in i..Len(s) : Rank(s[j]) = k) <=> Ahead(SubSeq(s, i, Len(s)), k)
           /\ SubSeq(s, i, Len(s)) # << >> /\ SubSeq(s, i, Len(s))[1] = s[i]
<1> DEFINE u == SubSeq(s, i, Len(s))
<1>0. Len(s) \in Nat /\ i \in Nat
  OBVIOUS
<1>1. /\ u \in Seq(StepsOf(c)) /\ Len(u) = Len(s) - i + 1
      /\ \A j \in 1..(Len(s) - i + 1) : u[j] = s[i + j - 1] /\ i + j - 1 \in 1..Len(s)
  BY RestOfSequence
<1> HIDE DEF u
<1>2. Len(u) = Len(s) - (i - 1) /\ i - 1 \in 0..Len(s) /\ 1 \in 1..Len(u)
  BY <1>0, <1>1
<1>3. \A j \in 1..Len(u) : u[j] = s[j + (i - 1)]
  <2> SUFFICES ASSUME NEW j \in 1..Len(u) PROVE u[j] = s[j + (i - 1)]
    OBVIOUS
  <2>1. i + j - 1 = j + (i - 1) /\ j \in 1..(Len(s) - i + 1)
    BY <1>0, <1>1
  <2> QED
    BY <1>1, <2>1
<1>4. Shape(u) /\ \A k \in 1..8 : Ahead(u, k) => Ahead(s, k)
  BY <1>1, <1>2, <1>3, SuffixShape
<1>5. ASSUME NEW k \in 1..8 PROVE (\E j \in i..Len(s) : Rank(s[j]) = k) <=> Ahead(u, k)
  <2>1. ASSUME NEW j \in i..Len(s), Rank(s[j]) = k PROVE Ahead(u, k)
    <3>1. j - (i - 1) \in 1..Len(u) /\ (j - (i - 1)) + (i - 1) = j
      BY <1>0, <1>2
    <3>2. u[j - (i - 1)] = s[j]
      BY <1>3, <3>1
    <3> QED
      BY <2>1, <3>1, <3>2 DEF Ahead
  <2>2. ASSUME Ahead(u, k) PROVE \E j \in i..Len(s) : Rank(s[j]) = k
    <3>1. PICK j \in 1..Len(u) : Rank(u[j]) = k
      BY <2>2 DEF Ahead
    <3>2. u[j] = s[j + (i - 1)] /\ j + (i - 1) \in i..Len(s)
      BY <1>0, <1>2, <1>3
    <3> QED
      BY <3>1, <3>2
  <2> QED
    BY <2>1, <2>2
<1>6. u # << >> /\ u[1] = s[i]
  <2>1. u[1] = s[1 + (i - 1)] /\ 1 + (i - 1) = i
    BY <1>0, <1>2, <1>3
  <2> QED
    BY <1>2, <2>1
<1> QED
  BY <1>1, <1>4, <1>5, <1>6 DEF u

LEMMA FinishOnly ==
    ASSUME NEW c
    PROVE  LET x == <<Do("finish", NoTenant)>>
           IN  /\ x \in Seq(StepsOf(c)) /\ Shape(x) /\ x # << >>
               /\ \A k \in 1..8 : ~ Ahead(x, k)
<1> DEFINE x == <<Do("finish", NoTenant)>>
<1>1. x \in Out(c)
  BY FinishIsOut
<1>2. Len(x) = 1 /\ x[1] = Do("finish", NoTenant) /\ x # << >>
  OBVIOUS
<1>3. Rank(x[1]) = 0
  BY <1>2 DEF Rank, Do
<1> HIDE DEF x
<1>4. x \in Seq(StepsOf(c)) /\ Shape(x)
  BY <1>1 DEF Out
<1>5. \A k \in 1..8 : ~ Ahead(x, k)
  BY <1>2, <1>3 DEF Ahead
<1> QED
  BY <1>2, <1>4, <1>5 DEF x

LEMMA NothingShape ==
    ASSUME NEW c
    PROVE  << >> \in Seq(StepsOf(c)) /\ Shape(<< >>) /\ \A k \in 1..8 : ~ Ahead(<< >>, k)
<1>1. << >> \in Seq(StepsOf(c)) /\ Len(<< >>) = 0
  OBVIOUS
<1>2. InOrder(<< >>) /\ Complete(<< >>) /\ Adjacent(<< >>)
  BY <1>1 DEF InOrder, Complete, Adjacent
<1>3. Blocks(<< >>) /\ Apart(<< >>) /\ Ends(<< >>) /\ \A k \in 1..8 : ~ Ahead(<< >>, k)
  BY <1>1 DEF Blocks, Apart, Ends, Ahead
<1> QED
  BY <1>1, <1>2, <1>3 DEF Shape

\* The order of the steps of a pause.
LEMMA PauseOrder ==
    ASSUME NEW c, NEW s \in Seq(StepsOf(c)), Shape(s)
    PROVE  /\ Ahead(s, 1) => Ahead(s, 2)
           /\ Ahead(s, 2) => Ahead(s, 3)
           /\ Ahead(s, 3) => Ahead(s, 4)
           /\ Ahead(s, 4) => Ahead(s, 5)
           /\ Ahead(s, 5) => Ahead(s, 6)
           /\ Ahead(s, 6) => Ahead(s, 7)
           /\ s # << >> => \A k \in 1..8 : Ahead(s, k) /\ Rank(s[1]) \in 1..7 => Rank(s[1]) <= k
           /\ s # << >> => \A k \in 1..7 : Rank(s[1]) = k => ~ Ahead(Tail(s), k)
<1>0. Len(s) \in Nat
  OBVIOUS
<1>1. ASSUME NEW k \in 1..6, Ahead(s, k) PROVE Ahead(s, k + 1)
  <2>1. PICK i \in 1..Len(s) : Rank(s[i]) = k
    BY <1>1 DEF Ahead
  <2>2. PICK j \in (i + 1)..Len(s) : Rank(s[j]) = k + 1
    BY <2>1 DEF Shape, Complete
  <2>3. j \in 1..Len(s)
    BY <1>0
  <2> QED
    BY <2>2, <2>3 DEF Ahead
<1>2. ASSUME s # << >>, NEW k \in 1..8, Ahead(s, k), Rank(s[1]) \in 1..7 PROVE Rank(s[1]) <= k
  <2>1. PICK i \in 1..Len(s) : Rank(s[i]) = k
    BY <1>2 DEF Ahead
  <2>2. CASE i = 1
    BY <2>1, <2>2
  <2>3. CASE i # 1
    <3>1. 1 \in 1..Len(s) /\ 1 < i
      BY <1>0, <2>3
    <3> QED
      BY <1>2, <2>1, <3>1 DEF Shape, InOrder
  <2> QED
    BY <2>2, <2>3
<1>3. ASSUME s # << >>, NEW k \in 1..7, Rank(s[1]) = k, Ahead(Tail(s), k) PROVE FALSE
  <2>1. PICK i \in 1..Len(Tail(s)) : Rank(Tail(s)[i]) = k
    BY <1>3 DEF Ahead
  <2>2. Tail(s)[i] = s[i + 1] /\ i + 1 \in 1..Len(s) /\ 1 \in 1..Len(s) /\ 1 < i + 1
    BY <1>0, <1>3, TailProperties
  <2> QED
    BY <1>3, <2>1, <2>2 DEF Shape, InOrder
<1> QED
  BY <1>1, <1>2, <1>3

\* Where an error leads to: the readiness of a pause is not recorded after it, and
\* what has to be undone is still to come.
LEMMA AfterErrorShape ==
    ASSUME NEW r \in Runs, Shaped, todo[r] # << >>
    PROVE  LET s == todo[r]
               x == AfterError(r)
           IN  /\ x \in Seq(StepsOf(from[r] # NoRun)) /\ Shape(x) /\ x # << >>
               /\ ~ Ahead(x, 4)
               /\ Ahead(s, 6) /\ ~ Ahead(s, 1) /\ Rank(s[1]) \notin {5, 6} =>
                      Ahead(x, 6) /\ ~ Ahead(x, 2)
               /\ \A l : Lifting(s, l) /\ s[1][1] # "lift" => Lifting(x, l)
<1> DEFINE s == todo[r]
           x == AfterError(r)
           c == from[r] # NoRun
<1>1. s \in Seq(StepsOf(c)) /\ Shape(s) /\ Len(s) \in Nat \ {0}
  BY DEF Shaped
<1>2. ASSUME NEW i \in 2..Len(s), NEW j \in 2..Len(s), Closing(r, i), Closing(r, j) PROVE i = j
  <2>1. CASE i < j
    <3>1. i \in 1..(j - 1)
      BY <1>1, <2>1
    <3> QED
      BY <1>2, <3>1 DEF Closing
  <2>2. CASE j < i
    <3>1. j \in 1..(i - 1)
      BY <1>1, <2>2
    <3> QED
      BY <1>2, <3>1 DEF Closing
  <2> QED
    BY <1>1, <2>1, <2>2
<1>3. ASSUME NEW i \in 2..Len(s), Closing(r, i), s[1][1] \notin Opens
      PROVE  x = SubSeq(s, i, Len(s))
  <2> DEFINE j == CHOOSE j \in 2..Len(s) : Closing(r, j)
  <2>1. j \in 2..Len(s) /\ Closing(r, j)
    BY <1>3
  <2>2. j = i
    BY <1>2, <1>3, <2>1
  <2>3. x = SubSeq(s, j, Len(s))
    BY <1>3 DEF AfterError
  <2> QED
    BY <2>2, <2>3
<1>4. \/ x = <<Do("finish", NoTenant)>>
      \/ \E i \in 2..Len(s) : Closing(r, i) /\ x = SubSeq(s, i, Len(s))
  <2>1. CASE s[1][1] \notin Opens /\ \E i \in 2..Len(s) : Closing(r, i)
    BY <1>3, <2>1
  <2>2. CASE ~ (s[1][1] \notin Opens /\ \E i \in 2..Len(s) : Closing(r, i))
    BY <2>2 DEF AfterError
  <2> QED
    BY <2>1, <2>2
<1> HIDE DEF x, s, c
<1>5. x \in Seq(StepsOf(c)) /\ Shape(x) /\ x # << >> /\ ~ Ahead(x, 4)
  <2>1. CASE x = <<Do("finish", NoTenant)>>
    BY <2>1, FinishOnly
  <2>2. ASSUME NEW i \in 2..Len(s), Closing(r, i), x = SubSeq(s, i, Len(s))
        PROVE  x \in Seq(StepsOf(c)) /\ Shape(x) /\ x # << >> /\ ~ Ahead(x, 4)
    <3>1. i \in 1..Len(s)
      BY <1>1
    <3>2. x \in Seq(StepsOf(c)) /\ Shape(x) /\ x # << >>
      BY <1>1, <2>2, <3>1, RestShape
    <3>3. ASSUME NEW j \in i..Len(s), Rank(s[j]) = 4 PROVE FALSE
      <4>1. Rank(s[i]) \in {5, 8}
        BY <2>2, RankProperties DEF Closing, Closes, s
      <4>2. j \in 1..Len(s) /\ i < j
        BY <1>1, <3>3, <4>1
      <4> QED
        BY <1>1, <3>1, <3>3, <4>1, <4>2 DEF Shape, InOrder
    <3>4. ~ Ahead(x, 4)
      BY <1>1, <2>2, <3>1, <3>3, RestShape
    <3> QED
      BY <3>2, <3>4
  <2> QED
    BY <1>4, <2>1, <2>2
<1>6. ASSUME Ahead(s, 6), ~ Ahead(s, 1), Rank(s[1]) \notin {5, 6}
      PROVE  Ahead(x, 6) /\ ~ Ahead(x, 2)
  <2>1. PICK i \in 1..Len(s) : Rank(s[i]) = 6
    BY <1>6 DEF Ahead
  <2>2. i \in 2..Len(s)
    BY <1>6, <2>1
  <2>3. Rank(s[i - 1]) = 5
    BY <1>1, <2>1, <2>2 DEF Shape, Adjacent
  <2>4. i - 1 # 1
    BY <1>6, <2>3
  <2>5. i - 1 \in 2..Len(s) /\ i - 1 \in 1..Len(s) /\ i \in Nat
    BY <1>1, <2>2, <2>4
  <2>6. ASSUME NEW j \in 1..((i - 1) - 1) PROVE s[j][1] \notin Opens \cup Closes
    <3>0. j \in 1..Len(s) /\ j < i - 1 /\ j < i
      BY <1>1, <2>5
    <3>1. Rank(s[j]) # 8
      BY <1>1, <2>1, <3>0 DEF Shape, InOrder
    <3>2. Rank(s[j]) # 5
      BY <1>1, <2>3, <2>5, <3>0 DEF Shape, InOrder
    <3>3. Rank(s[j]) # 1
      BY <1>6, <3>0 DEF Ahead
    <3> QED
      BY <3>1, <3>2, <3>3, RankProperties
  <2>7. Closing(r, i - 1)
    <3>1. s[i - 1][1] \in Closes
      BY <2>3, RankProperties DEF Closes
    <3> QED
      BY <2>6, <3>1 DEF Closing, s
  <2>8. s[1][1] \notin Opens
    <3>1. 1 \in 1..((i - 1) - 1)
      BY <2>5
    <3> QED
      BY <2>6, <3>1
  <2>9. x = SubSeq(s, i - 1, Len(s))
    BY <1>3, <2>5, <2>7, <2>8
  <2>10. i \in (i - 1)..Len(s)
    BY <1>1, <2>5
  <2>11. Ahead(x, 6)
    <3>1. \E j \in (i - 1)..Len(s) : Rank(s[j]) = 6
      BY <2>1, <2>10
    <3>2. (\E j \in (i - 1)..Len(s) : Rank(s[j]) = 6) <=> Ahead(SubSeq(s, i - 1, Len(s)), 6)
      BY <1>1, <2>5, RestShape
    <3> QED
      BY <2>9, <3>1, <3>2
  <2>12. ~ Ahead(x, 2)
    <3>1. x \in Seq(StepsOf(c)) /\ Shape(x) /\ x # << >> /\ x[1] = s[i - 1]
      BY <1>1, <2>5, <2>9, RestShape
    <3> QED
      BY <2>3, <3>1, PauseOrder
  <2> QED
    BY <2>11, <2>12
<1>7. ASSUME NEW l, Lifting(s, l), s[1][1] # "lift" PROVE Lifting(x, l)
  <2>1. PICK k \in 1..Len(s) : LiftAt(s, l, k)
    BY <1>7 DEF Lifting
  <2>2. k \in 2..Len(s) /\ 1 \in 1..(k - 1)
    BY <1>1, <1>7, <2>1 DEF LiftAt
  <2>3. Closing(r, k)
    BY <2>1 DEF LiftAt, Closing, Closes, s
  <2>4. s[1][1] \notin Opens
    BY <2>1, <2>2 DEF LiftAt
  <2>5. x = SubSeq(s, k, Len(s))
    BY <1>3, <2>2, <2>3, <2>4
  <2>6. x # << >> /\ x[1] = s[k]
    BY <1>1, <2>5, RestShape
  <2>7. LiftAt(x, l, 1)
    BY <2>1, <2>6 DEF LiftAt
  <2>8. 1 \in 1..Len(x)
    BY <1>5, <2>6
  <2> QED
    BY <2>7, <2>8 DEF Lifting
<1> QED
  BY <1>5, <1>6, <1>7 DEF s, x, c

LEMMA AfterErrorAhead ==
    ASSUME NEW r \in Runs, Shaped, todo[r] # << >>, NEW k \in 1..8, Ahead(AfterError(r), k)
    PROVE  Ahead(todo[r], k)
<1> DEFINE s == todo[r]
<1>1. s \in Seq(StepsOf(from[r] # NoRun)) /\ Shape(s) /\ Len(s) \in Nat \ {0}
  BY DEF Shaped
<1>2. ~ Ahead(<<Do("finish", NoTenant)>>, k)
  BY FinishOnly
<1>3. PICK i \in 2..Len(s) : AfterError(r) = SubSeq(s, i, Len(s))
  BY <1>2 DEF AfterError
<1>4. i \in 1..Len(s)
  BY <1>1
<1> HIDE DEF s
<1>5. Ahead(s, k)
  BY <1>1, <1>3, <1>4, RestShape
<1> QED
  BY <1>5 DEF s

-----------------------------------------------------------------------------
(* A step of a run *)

Goes(r, x) == todo' = [todo EXCEPT ![r] = x]

Onward(r) ==
    \/ Goes(r, Tail(todo[r])) \/ Goes(r, AfterError(r))
    \/ todo[r][1][1] \in {"rollout", "lift"} /\ Goes(r, <<Do("finish", NoTenant)>>)
    \/ todo[r][1][1] = "finish" /\ Goes(r, << >>)
    \/ todo[r][1][1] = "resume" /\ Goes(r, Tail(Tail(todo[r])))

\* the types the arguments need
Runners == todo \in [Runs -> Seq(Steps)] /\ link \in [Links -> Runs \cup {NoRun}]

LEMMA OnwardKeeps ==
    ASSUME Runners, Shaped, NEW r \in Runs, todo[r] # << >>, Onward(r)
    PROVE  LET s == todo[r]
               x == todo'[r]
           IN  /\ Goes(r, x) /\ \A q \in Runs \ {r} : todo'[q] = todo[q]
               /\ x \in Seq(StepsOf(from[r] # NoRun)) /\ Shape(x)
               /\ Ahead(x, 4) => x = Tail(s) /\ Ahead(s, 4)
               /\ Ahead(s, 6) /\ ~ Ahead(s, 2) /\ Rank(s[1]) \notin {5, 6} =>
                      Ahead(x, 6) /\ ~ Ahead(x, 2)
               /\ \A k \in 1..8 : Ahead(x, k) => Ahead(s, k)
               /\ \A l : Lifting(s, l) /\ s[1][1] # "lift" => Lifting(x, l)
<1> DEFINE s == todo[r]
           x == todo'[r]
           c == from[r] # NoRun
<1>1. s \in Seq(StepsOf(c)) /\ Shape(s) /\ Len(s) \in Nat \ {0} /\ s # << >>
  BY DEF Shaped
<1>2. ASSUME NEW y, Goes(r, y) PROVE x = y /\ Goes(r, x) /\ \A q \in Runs \ {r} : todo'[q] = todo[q]
  BY <1>2 DEF Goes, Runners
<1>3. CASE Goes(r, Tail(todo[r]))
  <2>1. x = Tail(s) /\ Goes(r, x) /\ \A q \in Runs \ {r} : todo'[q] = todo[q]
    BY <1>2, <1>3
  <2> HIDE DEF x, s, c
  <2>2. /\ x \in Seq(StepsOf(c)) /\ Shape(x)
        /\ \A k \in 1..8 : Ahead(x, k) => Ahead(s, k)
        /\ \A k \in 1..8 : Ahead(s, k) /\ Rank(s[1]) # k => Ahead(x, k)
        /\ \A l : Lifting(s, l) /\ s[1][1] # "lift" => Lifting(x, l)
    BY <1>1, <2>1, TailShape
  <2> QED
    BY <2>1, <2>2 DEF x, s, c
<1>4. CASE Goes(r, AfterError(r))
  <2>1. x = AfterError(r) /\ Goes(r, x) /\ \A q \in Runs \ {r} : todo'[q] = todo[q]
    BY <1>2, <1>4
  <2>2. /\ x \in Seq(StepsOf(c)) /\ Shape(x) /\ ~ Ahead(x, 4)
        /\ Ahead(s, 6) /\ ~ Ahead(s, 1) /\ Rank(s[1]) \notin {5, 6} => Ahead(x, 6) /\ ~ Ahead(x, 2)
        /\ \A l : Lifting(s, l) /\ s[1][1] # "lift" => Lifting(x, l)
    BY <2>1, AfterErrorShape
  <2>4. ~ Ahead(s, 2) => ~ Ahead(s, 1)
    BY <1>1, PauseOrder
  <2>3. \A k \in 1..8 : Ahead(x, k) => Ahead(s, k)
    BY <2>1, AfterErrorAhead
  <2> QED
    BY <2>1, <2>2, <2>3, <2>4
<1>5. CASE todo[r][1][1] \in {"rollout", "lift"} /\ Goes(r, <<Do("finish", NoTenant)>>)
  <2>1. x = <<Do("finish", NoTenant)>> /\ Goes(r, x) /\ \A q \in Runs \ {r} : todo'[q] = todo[q]
    BY <1>2, <1>5
  <2>2. x \in Seq(StepsOf(c)) /\ Shape(x) /\ \A k \in 1..8 : ~ Ahead(x, k)
    BY <2>1, FinishOnly
  <2> HIDE DEF x, c
  <2>3. Rank(s[1]) \in {7, 8}
    BY <1>5, RankProperties
  <2>4. ~ Ahead(s, 6)
    <3>1. SUFFICES ASSUME NEW i \in 1..Len(s), Rank(s[i]) = 6 PROVE FALSE
      BY DEF Ahead
    <3>2. 1 < i /\ 1 \in 1..Len(s)
      BY <1>1, <2>3, <3>1
    <3> QED
      BY <1>1, <2>3, <3>1, <3>2 DEF Shape, InOrder
  <2>5. ASSUME NEW l, Lifting(s, l), s[1][1] # "lift" PROVE FALSE
    <3>1. PICK k \in 1..Len(s) : LiftAt(s, l, k)
      BY <2>5 DEF Lifting
    <3>2. Rank(s[1]) = 7
      BY <1>5, <2>5, RankProperties
    <3>3. s[k][1] = "lift" /\ 1 < k /\ 1 \in 1..Len(s)
      BY <1>1, <2>5, <3>1 DEF LiftAt
    <3>4. PICK j \in (1 + 1)..(k - 1) : s[j][1] \in Opens
      BY <1>1, <3>2, <3>3 DEF Shape, Apart
    <3>5. j \in 1..(k - 1)
      BY <3>1
    <3> QED
      BY <3>1, <3>4, <3>5 DEF LiftAt
  <2> QED
    BY <2>1, <2>2, <2>4, <2>5 DEF x, c
<1>6. CASE todo[r][1][1] = "finish" /\ Goes(r, << >>)
  <2>1. x = << >> /\ Goes(r, x) /\ \A q \in Runs \ {r} : todo'[q] = todo[q]
    BY <1>2, <1>6
  <2>2. x \in Seq(StepsOf(c)) /\ Shape(x) /\ \A k \in 1..8 : ~ Ahead(x, k)
    BY <2>1, NothingShape
  <2> HIDE DEF x, c
  <2>3. Len(s) = 1
    <3>1. 1 \in 1..Len(s) /\ s[1][1] = "finish"
      BY <1>1, <1>6
    <3> QED
      BY <1>1, <3>1 DEF Shape, Ends
  <2>4. ~ Ahead(s, 6)
    <3>1. SUFFICES ASSUME NEW i \in 1..Len(s), Rank(s[i]) = 6 PROVE FALSE
      BY DEF Ahead
    <3>2. i = 1
      BY <2>3
    <3> QED
      BY <1>6, <3>1, <3>2, RankProperties
  <2>5. ASSUME NEW l, Lifting(s, l) PROVE FALSE
    <3>1. PICK k \in 1..Len(s) : LiftAt(s, l, k)
      BY <2>5 DEF Lifting
    <3>2. k = 1
      BY <2>3
    <3> QED
      BY <1>6, <3>1, <3>2 DEF LiftAt
  <2> QED
    BY <2>1, <2>2, <2>4, <2>5 DEF x, c
<1>7. CASE todo[r][1][1] = "resume" /\ Goes(r, Tail(Tail(todo[r])))
  <2>1. x = Tail(Tail(s)) /\ Goes(r, x) /\ \A q \in Runs \ {r} : todo'[q] = todo[q]
    BY <1>2, <1>7
  <2>2. Rank(s[1]) = 5 /\ s[1][1] \in Closes
    BY <1>7, RankProperties DEF Closes
  <2> HIDE DEF x, s, c
  <2>3. 1 \in 1..Len(s)
    BY <1>1
  <2>4. /\ Tail(s) \in Seq(StepsOf(c)) /\ Shape(Tail(s))
        /\ \A k \in 1..8 : Ahead(Tail(s), k) => Ahead(s, k)
        /\ \A k \in 1..8 : Ahead(s, k) /\ Rank(s[1]) # k => Ahead(Tail(s), k)
    BY <1>1, TailShape
  <2>5. Ahead(s, 5)
    BY <2>2, <2>3 DEF Ahead
  <2>6. Ahead(Tail(s), 6)
    BY <1>1, <2>2, <2>4, <2>5, PauseOrder
  <2>7. Tail(s) # << >>
    <3>1. ~ Ahead(<< >>, 6)
      BY NothingShape
    <3> QED
      BY <2>6, <3>1
  <2>8. /\ x \in Seq(StepsOf(c)) /\ Shape(x)
        /\ \A k \in 1..8 : Ahead(x, k) => Ahead(s, k)
    BY <2>1, <2>4, <2>7, TailShape
  <2>9. ~ Ahead(s, 4)
    BY <1>1, <2>2, PauseOrder
  <2>10. ASSUME NEW l, Lifting(s, l) PROVE FALSE
    <3>1. PICK k \in 1..Len(s) : LiftAt(s, l, k)
      BY <2>10 DEF Lifting
    <3>2. k = 1
      <4>1. k # 1 => 1 \in 1..(k - 1)
        OBVIOUS
      <4> QED
        BY <2>2, <3>1, <4>1 DEF LiftAt
    <3> QED
      BY <2>2, <3>1, <3>2, RankProperties DEF LiftAt
  <2> QED
    BY <2>1, <2>2, <2>8, <2>9, <2>10 DEF x, s, c
<1> QED
  BY <1>3, <1>4, <1>5, <1>6, <1>7 DEF Onward

\* what the runs rely on about the pause and the links
Careful == Stopped /\ Silent /\ Paused /\ Blocked

\* A step of a run keeps it, if it is careful itself.
LEMMA RunStep ==
    ASSUME Runners, Shaped, Careful, NEW r \in Runs, todo[r] # << >>, r \notin killed, Onward(r),
           killed' = killed, gaveUp \subseteq gaveUp', meddled => meddled',
           pod' = pod, quiet \subseteq quiet',
           \A q \in Runs : Running(q) /\ Ahead(todo[q], 4) /\ ~ Ahead(todo[q], 2) =>
               replicas # 0 \/ replicas' = 0 \/ meddled',
           todo[r][1][1] = "stop" /\ Ahead(todo'[r], 4) => replicas' = 0,
           todo[r][1][1] = "drain" /\ Ahead(todo'[r], 4) => r \in quiet' /\ ~ pod,
           replicas' = 0 =>
               replicas = 0 \/ meddled' \/ (Ahead(todo'[r], 6) /\ ~ Ahead(todo'[r], 2)),
           todo[r][1][1] \in {"resume", "scale"} =>
               r \in gaveUp' \/ replicas' # 0 \/ Ahead(todo'[r], 6),
           \A l \in Links : link'[l] # NoRun =>
               link'[l] = link[l] \/ (link'[l] = r /\ Lifting(todo'[r], l)),
           todo[r][1][1] = "lift" =>
               r \in gaveUp' \/ \A l \in Links : link'[l] = r => ~ Lifting(todo[r], l)
    PROVE  Careful'
<1> DEFINE s == todo[r]
           x == todo'[r]
           c == from[r] # NoRun
<1>1. /\ \A q \in Runs \ {r} : todo'[q] = todo[q]
      /\ x \in Seq(StepsOf(c)) /\ Shape(x)
      /\ Ahead(x, 4) => x = Tail(s) /\ Ahead(s, 4)
      /\ Ahead(s, 6) /\ ~ Ahead(s, 2) /\ Rank(s[1]) \notin {5, 6} => Ahead(x, 6) /\ ~ Ahead(x, 2)
      /\ \A k \in 1..8 : Ahead(x, k) => Ahead(s, k)
      /\ \A l : Lifting(s, l) /\ s[1][1] # "lift" => Lifting(x, l)
  BY OnwardKeeps
<1>2. s \in Seq(StepsOf(c)) /\ Shape(s) /\ s # << >>
  BY DEF Shaped
<1>3. \A q \in Runs \ {r} : Running(q)' <=> Running(q)
  BY <1>1 DEF Running
<1>4. \A k \in 1..8 : Ahead(x, k) => x # << >>
  BY NothingShape
<1>5. \A l : Lifting(x, l) => x # << >>
  <2>1. \A l : ~ Lifting(<< >>, l)
    BY DEF Lifting
  <2> QED
    BY <2>1
<1>6. Running(r) /\ (x # << >> => Running(r)')
  BY <1>2 DEF Running
<1> HIDE DEF s, x, c
<1>7. Stopped'
  <2> SUFFICES ASSUME NEW q \in Runs, Running(q)', Ahead(todo'[q], 4), ~ Ahead(todo'[q], 2)
               PROVE  meddled' \/ replicas' = 0
    BY DEF Stopped
  <2>1. CASE q # r
    <3>1. todo'[q] = todo[q] /\ Running(q)
      BY <1>1, <1>3, <2>1
    <3> QED
      BY <3>1 DEF Careful, Stopped
  <2>2. CASE q = r
    <3>1. x = Tail(s) /\ Ahead(s, 4) /\ ~ Ahead(x, 2) /\ Ahead(x, 4)
      BY <1>1, <2>2 DEF x
    <3>2. CASE Rank(s[1]) = 2
      <4>1. s[1][1] = "stop"
        BY <3>2, RankProperties
      <4> QED
        BY <3>1, <4>1 DEF s, x
    <3>3. CASE Rank(s[1]) # 2
      <4>1. ~ Ahead(s, 2)
        BY <1>2, <3>1, <3>3, TailShape
      <4>2. meddled \/ replicas = 0
        BY <1>6, <3>1, <4>1 DEF Careful, Stopped, s
      <4> QED
        BY <1>6, <3>1, <4>1, <4>2 DEF s
    <3> QED
      BY <3>2, <3>3
  <2> QED
    BY <2>1, <2>2
<1>8. Silent'
  <2> SUFFICES ASSUME NEW q \in Runs, Running(q)', Ahead(todo'[q], 4), ~ Ahead(todo'[q], 3)
               PROVE  meddled' \/ (q \in quiet' /\ ~ pod')
    BY DEF Silent
  <2>1. CASE q # r
    <3>1. todo'[q] = todo[q] /\ Running(q)
      BY <1>1, <1>3, <2>1
    <3> QED
      BY <3>1 DEF Careful, Silent
  <2>2. CASE q = r
    <3>1. x = Tail(s) /\ Ahead(s, 4) /\ ~ Ahead(x, 3) /\ Ahead(x, 4)
      BY <1>1, <2>2 DEF x
    <3>2. CASE Rank(s[1]) = 3
      <4>1. s[1][1] = "drain"
        BY <3>2, RankProperties
      <4> QED
        BY <2>2, <3>1, <4>1 DEF s, x
    <3>3. CASE Rank(s[1]) # 3
      <4>1. ~ Ahead(s, 3)
        BY <1>2, <3>1, <3>3, TailShape
      <4> QED
        BY <1>6, <2>2, <3>1, <4>1 DEF Careful, Silent, s
    <3> QED
      BY <3>2, <3>3
  <2> QED
    BY <2>1, <2>2
<1>9. Paused'
  <2> SUFFICES ASSUME replicas' = 0, ~ meddled' PROVE \E q \in Runs : Gone(q)' \/ Pausing(q)'
    BY DEF Paused
  <2>1. CASE Ahead(x, 6) /\ ~ Ahead(x, 2)
    <3>1. Running(r)'
      BY <1>4, <1>6, <2>1
    <3> QED
      BY <2>1, <3>1 DEF Pausing, x
  <2>2. CASE replicas = 0
    <3>1. PICK q \in Runs : Gone(q) \/ Pausing(q)
      BY <2>2 DEF Careful, Paused
    <3>2. CASE Gone(q)
      BY <3>2 DEF Gone
    <3>3. CASE Pausing(q) /\ q # r
      <4>1. todo'[q] = todo[q] /\ Running(q)'
        BY <1>1, <1>3, <3>3 DEF Pausing
      <4> QED
        BY <3>3, <4>1 DEF Pausing
    <3>4. CASE Pausing(r)
      <4>1. Ahead(s, 6) /\ ~ Ahead(s, 2)
        BY <3>4 DEF Pausing, s
      <4>2. CASE Rank(s[1]) \notin {5, 6}
        BY <1>1, <2>1, <4>1, <4>2
      <4>3. CASE Rank(s[1]) \in {5, 6}
        <5>1. s[1][1] \in {"resume", "scale"}
          BY <4>3, RankProperties
        <5>2. r \in gaveUp' \/ Ahead(x, 6)
          BY <5>1 DEF s, x
        <5>3. ~ Ahead(x, 2)
          BY <1>1, <4>1
        <5>4. r \in gaveUp' => Gone(r)'
          BY DEF Gone
        <5> QED
          BY <2>1, <5>2, <5>3, <5>4
      <4> QED
        BY <4>2, <4>3
    <3> QED
      BY <3>1, <3>2, <3>3, <3>4
  <2> QED
    BY <2>1, <2>2 DEF x
<1>10. Blocked'
  <2> SUFFICES ASSUME NEW l \in Links, NEW q \in Runs, link'[l] = q
               PROVE  Gone(q)' \/ (Running(q)' /\ Lifting(todo'[q], l))
    BY DEF Blocked
  <2>1. CASE q = r /\ Lifting(x, l)
    <3>1. Running(r)'
      BY <1>5, <1>6, <2>1
    <3> QED
      BY <2>1, <3>1 DEF x
  <2>2. CASE link[l] = q
    <3>1. Gone(q) \/ (Running(q) /\ Lifting(todo[q], l))
      BY <2>2 DEF Careful, Blocked
    <3>2. CASE Gone(q)
      BY <3>2 DEF Gone
    <3>3. CASE q # r /\ Running(q) /\ Lifting(todo[q], l)
      <4>1. todo'[q] = todo[q] /\ Running(q)'
        BY <1>1, <1>3, <3>3
      <4> QED
        BY <3>3, <4>1
    <3>4. CASE q = r /\ Lifting(s, l)
      <4>1. CASE s[1][1] # "lift"
        BY <1>1, <2>1, <3>4, <4>1
      <4>2. CASE s[1][1] = "lift"
        <5>1. r \in gaveUp'
          BY <3>4, <4>2 DEF s
        <5> QED
          BY <3>4, <5>1 DEF Gone
      <4> QED
        BY <4>1, <4>2
    <3> QED
      BY <3>1, <3>2, <3>3, <3>4 DEF s
  <2>3. link'[l] # NoRun
    BY RunsAssumption
  <2> QED
    BY <2>1, <2>2, <2>3 DEF x
<1> QED
  BY <1>7, <1>8, <1>9, <1>10 DEF Careful

LEMMA OrdinaryStep ==
    ASSUME Runners, Shaped, Careful, NEW r \in Runs, todo[r] # << >>, r \notin killed, Onward(r),
           UNCHANGED <<replicas, pod, link, killed, meddled, quiet>>, gaveUp \subseteq gaveUp',
           todo[r][1][1] \in {"stop", "drain"} => Goes(r, AfterError(r)),
           todo[r][1][1] \in {"resume", "scale", "lift"} => r \in gaveUp'
    PROVE  Careful'
<1>1. todo[r][1][1] \in {"stop", "drain"} => ~ Ahead(todo'[r], 4)
  <2> SUFFICES ASSUME Goes(r, AfterError(r)) PROVE ~ Ahead(todo'[r], 4)
    OBVIOUS
  <2>1. todo'[r] = AfterError(r)
    BY DEF Goes, Runners
  <2> QED
    BY <2>1, AfterErrorShape
<1>2. /\ \A q \in Runs : Running(q) /\ Ahead(todo[q], 4) /\ ~ Ahead(todo[q], 2) =>
              replicas # 0 \/ replicas' = 0 \/ meddled'
      /\ todo[r][1][1] = "stop" /\ Ahead(todo'[r], 4) => replicas' = 0
      /\ todo[r][1][1] = "drain" /\ Ahead(todo'[r], 4) => r \in quiet' /\ ~ pod
  BY <1>1
<1>3. /\ replicas' = 0 => replicas = 0 \/ meddled' \/ (Ahead(todo'[r], 6) /\ ~ Ahead(todo'[r], 2))
      /\ todo[r][1][1] \in {"resume", "scale"} =>
             r \in gaveUp' \/ replicas' # 0 \/ Ahead(todo'[r], 6)
  OBVIOUS
<1>4. /\ \A l \in Links : link'[l] # NoRun =>
              link'[l] = link[l] \/ (link'[l] = r /\ Lifting(todo'[r], l))
      /\ todo[r][1][1] = "lift" =>
             r \in gaveUp' \/ \A l \in Links : link'[l] = r => ~ Lifting(todo[r], l)
  OBVIOUS
<1>5. killed' = killed /\ pod' = pod /\ quiet \subseteq quiet' /\ (meddled => meddled')
  OBVIOUS
<1> QED
  BY <1>2, <1>3, <1>4, <1>5, RunStep

LEMMA Moves ==
    ASSUME Runners, NEW r \in Runs
    PROVE  /\ Forward(r) => Onward(r) /\ failed' = failed /\ accuses' = accuses
           /\ Raise(r) => Onward(r) /\ Goes(r, AfterError(r)) /\ failed' = failed \cup {r}
                          /\ accuses' = accuses
           /\ \A h : Asserts(r, h) =>
                 Onward(r) /\ failed' \subseteq failed \cup {r} /\ accuses' \subseteq accuses \cup {r}
<1>1. ASSUME Forward(r) PROVE Onward(r) /\ failed' = failed /\ accuses' = accuses
  <2>1. CASE r \in failed /\ todo[r][1][1] \in {"rollout", "lift"}
    BY <1>1, <2>1 DEF Forward, Onward, Goes, Runners
  <2>2. CASE ~ (r \in failed /\ todo[r][1][1] \in {"rollout", "lift"})
    BY <1>1, <2>2 DEF Forward, Onward, Goes, Runners
  <2> QED
    BY <1>1, <2>1, <2>2 DEF Forward
<1>2. ASSUME Raise(r)
      PROVE  Onward(r) /\ Goes(r, AfterError(r)) /\ failed' = failed \cup {r} /\ accuses' = accuses
  BY <1>2 DEF Raise, Onward, Goes
<1>3. ASSUME NEW h, Asserts(r, h)
      PROVE  Onward(r) /\ failed' \subseteq failed \cup {r} /\ accuses' \subseteq accuses \cup {r}
  <2>1. CASE Forward(r)
    BY <1>1, <2>1
  <2>2. CASE ~ Forward(r)
    BY <1>3, <2>2 DEF Asserts, Onward, Goes
  <2> QED
    BY <2>1, <2>2
<1> QED
  BY <1>1, <1>2, <1>3

\* A step of r, which does one of the things named.
Taken(r, whats) ==
    /\ todo[r] # << >> /\ r \notin killed /\ todo[r][1][1] \in whats /\ Onward(r)
    /\ failed' \subseteq failed \cup {r} /\ accuses' \subseteq accuses \cup {r}

Ordinary == Kinds \ {"stop", "drain", "resume", "scale", "block", "lift"}

\* What most steps do not touch.
Quietly == UNCHANGED <<replicas, pod, link, history>>

\* The steps that only look, or fail.
LooksOnly(r) ==
    Taken(r, Ordinary \cup {"resume"}) /\ UNCHANGED <<command, record, tenants, cluster, notes, history>>

\* A step that would change something, unless the journal forbids it.
LEMMA Mutating ==
    ASSUME Runners, NEW r \in Runs, NEW w \in Ordinary, Takes(r, w)
    PROVE  /\ Forward(r) => Taken(r, {w})
           /\ Raise(r) => Taken(r, {w})
           /\ \A h : Asserts(r, h) => Taken(r, {w})
  BY Moves DEF Takes, Running, Taken

LEMMA LookingForms ==
    ASSUME Runners, NEW r \in Runs,
           \/ Absent(r) \/ Repeat(r) \/ AlreadySucceeded(r) \/ BusyWindow(r) \/ AwaitReady(r)
           \/ WaitOperation(r) \/ NotFound(r) \/ Untold(r) \/ Tallied(r)
           \/ Same(r) \/ Survived(r) \/ Pause(r) \/ PendingWhilePaused(r) \/ Rollout(r)
           \/ Guard(r) \/ Replaced(r) \/ Unapplied(r) \/ Recovered(r) \/ LatestOnly(r)
           \/ VerifyWorkload(r)
    PROVE  LooksOnly(r) /\ todo[r][1][1] \in Ordinary
<1> DEFINE Same1 == UNCHANGED <<command, record, tenants, cluster, notes, history>>
<1>1. ASSUME NEW w \in Ordinary, Takes(r, w), Same1,
             Forward(r) \/ Raise(r) \/ \E h : Asserts(r, h)
      PROVE  LooksOnly(r) /\ todo[r][1][1] \in Ordinary
  BY <1>1, Mutating DEF LooksOnly, Taken
<1>2. /\ "absent" \in Ordinary /\ "repeat" \in Ordinary /\ "succeeded" \in Ordinary
      /\ "window" \in Ordinary /\ "ready" \in Ordinary /\ "operation" \in Ordinary
      /\ "untold" \in Ordinary /\ "tallied" \in Ordinary
      /\ "same" \in Ordinary /\ "survived" \in Ordinary /\ "pause" \in Ordinary
      /\ "pending" \in Ordinary /\ "rollout" \in Ordinary /\ "guard" \in Ordinary
      /\ "replaced" \in Ordinary /\ "unapplied" \in Ordinary /\ "recovered" \in Ordinary
      /\ "latest" \in Ordinary /\ "verify" \in Ordinary
  BY DEF Ordinary, Kinds
<1>3. CASE Absent(r)
  BY <1>1, <1>2, <1>3 DEF Absent
<1>4. CASE Repeat(r)
  BY <1>1, <1>2, <1>4 DEF Repeat, Mutates
<1>5. CASE AlreadySucceeded(r)
  BY <1>1, <1>2, <1>5 DEF AlreadySucceeded, Sees
<1>6. CASE BusyWindow(r)
  BY <1>1, <1>2, <1>6 DEF BusyWindow
<1>7. CASE AwaitReady(r)
  BY <1>1, <1>2, <1>7 DEF AwaitReady, Looks
<1>8. CASE WaitOperation(r)
  BY <1>1, <1>2, <1>8 DEF WaitOperation, Looks
<1>9. CASE NotFound(r)
  BY <1>1, <1>2, <1>9 DEF NotFound, Takes
<1>10. CASE Untold(r)
  BY <1>1, <1>2, <1>10 DEF Untold, Sees
<1>12. CASE Tallied(r)
  BY <1>1, <1>2, <1>12 DEF Tallied, Sees
<1>13. CASE Same(r)
  BY <1>1, <1>2, <1>13 DEF Same, Sees
<1>14. CASE Survived(r)
  BY <1>1, <1>2, <1>14 DEF Survived
<1>15. CASE Pause(r)
  BY <1>1, <1>2, <1>15 DEF Pause
<1>16. CASE PendingWhilePaused(r)
  BY <1>1, <1>2, <1>16 DEF PendingWhilePaused
<1>17. CASE Rollout(r)
  BY <1>1, <1>2, <1>17 DEF Rollout, Looks
<1>18. CASE Guard(r)
  BY <1>1, <1>2, <1>18 DEF Guard
<1>19. CASE Replaced(r)
  BY <1>1, <1>2, <1>19 DEF Replaced
<1>20. CASE Unapplied(r)
  BY <1>1, <1>2, <1>20 DEF Unapplied, Sees
<1>21. CASE Recovered(r)
  BY <1>1, <1>2, <1>21 DEF Recovered, Looks
<1>22. CASE LatestOnly(r)
  BY <1>1, <1>2, <1>22 DEF LatestOnly, Sees
<1>23. CASE VerifyWorkload(r)
  BY <1>1, <1>2, <1>23 DEF VerifyWorkload
<1> QED
  BY <1>3, <1>4, <1>5, <1>6, <1>7, <1>8, <1>9, <1>10, <1>12, <1>13, <1>14, <1>15, <1>16,
     <1>17, <1>18, <1>19, <1>20, <1>21, <1>22, <1>23

\* The parts of TypeOK.
RecordTyped ==
    /\ journal \in [Runs -> [outcome : {"none", "running", "passed", "failed"}, saved : Steps]]
    /\ claimed \cup stale \cup held \subseteq Runs
TenantsTyped ==
    /\ row \in [Names \cup {Sentinel} -> {"none", "accepted", "built"}] /\ ready \subseteq Names
    /\ desired \in [Names -> 0..MaxVersion] /\ applied \in [Names -> 0..MaxVersion]
    /\ reports \in [Names -> SUBSET Versions]
ClusterTyped ==
    /\ replicas \in 0..2 /\ pod \in BOOLEAN /\ api \in BOOLEAN
    /\ link \in [Links -> Runs \cup {NoRun}]
NotesTyped ==
    /\ base \in [Runs -> [Names -> 0..MaxVersion]] /\ known \subseteq Runs \X Names
    /\ shot \in [Runs -> [Names -> SUBSET Versions]] /\ asked \cup told \cup polled \subseteq Runs
HistoryTyped ==
    begun \cup killed \cup quiet \cup gaveUp \cup overlapped \subseteq Runs /\ meddled \in BOOLEAN

LEMMA TypeParts ==
    TypeOK <=> /\ site \in Sites /\ mode \in [Runs -> Modes] /\ from \in [Runs -> Runs \cup {NoRun}]
               /\ todo \in [Runs -> Seq(Steps)] /\ failed \cup accuses \subseteq Runs
               /\ RecordTyped /\ TenantsTyped /\ ClusterTyped /\ NotesTyped /\ HistoryTyped
  BY DEF TypeOK, RecordTyped, TenantsTyped, ClusterTyped, NotesTyped, HistoryTyped

LEMMA TypePartsNext ==
    ASSUME site' \in Sites, mode' \in [Runs -> Modes], from' \in [Runs -> Runs \cup {NoRun}],
           todo' \in [Runs -> Seq(Steps)], failed' \cup accuses' \subseteq Runs,
           RecordTyped', TenantsTyped', ClusterTyped', NotesTyped', HistoryTyped'
    PROVE  TypeOK'
  BY DEF TypeOK, RecordTyped, TenantsTyped, ClusterTyped, NotesTyped, HistoryTyped

LEMMA PartsUnchanged ==
    /\ RecordTyped /\ UNCHANGED record => RecordTyped'
    /\ TenantsTyped /\ UNCHANGED tenants => TenantsTyped'
    /\ ClusterTyped /\ UNCHANGED cluster => ClusterTyped'
    /\ NotesTyped /\ UNCHANGED notes => NotesTyped'
    /\ HistoryTyped /\ UNCHANGED history => HistoryTyped'
  BY DEF RecordTyped, TenantsTyped, ClusterTyped, NotesTyped, HistoryTyped,
         record, tenants, cluster, notes, history

LEMMA FirstStep ==
    ASSUME TypeOK, Shaped, NEW r \in Runs, todo[r] # << >>
    PROVE  /\ todo[r][1] \in Steps /\ todo[r] \in Seq(StepsOf(from[r] # NoRun))
           /\ todo[r][1][1] = "load" => from[r] \in Runs
           /\ todo[r][1][1] \in {"applied", "expected", "reached", "tally"} => Tenant(r) \in Names
<1>1. todo[r] \in Seq(StepsOf(from[r] # NoRun)) /\ Len(todo[r]) \in Nat \ {0}
  BY DEF Shaped
<1>2. todo[r][1] \in StepsOf(from[r] # NoRun)
  BY <1>1
<1>3. from[r] \in Runs \cup {NoRun}
  BY DEF TypeOK
<1> QED
  BY <1>1, <1>2, <1>3 DEF StepsOf, Tenant

LEMMA StepTyped ==
    ASSUME TypeOK, Shaped, NEW r \in Runs, Taken(r, Kinds), UNCHANGED command, begun' = begun,
           RecordTyped', TenantsTyped', ClusterTyped', NotesTyped', HistoryTyped'
    PROVE  TypeOK' /\ Shaped'
<1>1. /\ Goes(r, todo'[r]) /\ \A q \in Runs \ {r} : todo'[q] = todo[q]
      /\ todo'[r] \in Seq(StepsOf(from[r] # NoRun)) /\ Shape(todo'[r])
  BY OnwardKeeps DEF Taken, Runners, TypeOK
<1>2. todo'[r] \in Seq(Steps)
  BY <1>1 DEF StepsOf
<1>3. todo' \in [Runs -> Seq(Steps)]
  BY <1>1, <1>2 DEF TypeOK, Goes
<1>4. site' \in Sites /\ mode' \in [Runs -> Modes] /\ from' \in [Runs -> Runs \cup {NoRun}]
  BY DEF TypeOK, command
<1>5. failed' \cup accuses' \subseteq Runs
  BY DEF TypeOK, Taken
<1>6. TypeOK'
  BY <1>3, <1>4, <1>5, TypePartsNext
<1>7. Shaped'
  <2> SUFFICES ASSUME NEW q \in Runs
               PROVE  /\ todo'[q] \in Seq(StepsOf(from'[q] # NoRun)) /\ Shape(todo'[q])
                      /\ todo'[q] # << >> => q \in begun'
    BY DEF Shaped
  <2>1. from' = from
    BY DEF command
  <2>2. CASE q = r
    <3>1. r \in begun
      BY DEF Shaped, Taken
    <3> QED
      BY <1>1, <2>1, <2>2, <3>1
  <2>3. CASE q # r
    BY <1>1, <2>1, <2>3 DEF Shaped
  <2> QED
    BY <2>2, <2>3
<1> QED
  BY <1>6, <1>7

-----------------------------------------------------------------------------
(* What the other steps change *)

LEMMA NotesForms ==
    ASSUME TypeOK, Shaped, NEW r \in Runs,
           \/ Continued(r) \/ ReadVersion(r) \/ ReadCounter(r) \/ Count(r) \/ Collected(r)
           \/ Mark(r) \/ Sample(r) \/ ReadTimeline(r)
    PROVE  /\ Taken(r, Ordinary) /\ UNCHANGED <<command, record, tenants, cluster, history>>
           /\ NotesTyped'
<1>0. Runners /\ NotesTyped /\ TenantsTyped
  BY TypeParts DEF Runners, TypeOK
<1> DEFINE Same1 == UNCHANGED <<command, record, tenants, cluster, history>>
<1>1. ASSUME NEW w \in Ordinary, Takes(r, w), Same1,
             Forward(r) \/ Raise(r) \/ \E h : Asserts(r, h)
      PROVE  Taken(r, Ordinary) /\ Same1
  BY <1>0, <1>1, Mutating DEF Taken
<1>2. /\ "continued" \in Ordinary /\ "version" \in Ordinary /\ "tally" \in Ordinary
      /\ "count" \in Ordinary /\ "timelines" \in Ordinary /\ "mark" \in Ordinary
      /\ "sample" \in Ordinary /\ "before" \in Ordinary
  BY DEF Ordinary, Kinds
<1>3. CASE Continued(r)
  <2>1. Taken(r, Ordinary) /\ Same1
    BY <1>1, <1>2, <1>3 DEF Continued
  <2>2. 1 \in 0..MaxVersion
    BY BoundAssumption
  <2>3. NotesTyped'
    BY <1>0, <1>3, <2>2 DEF Continued, NotesTyped
  <2> QED
    BY <2>1, <2>3
<1>4. CASE ReadVersion(r)
  <2>1. Taken(r, Ordinary) /\ Same1
    BY <1>1, <1>2, <1>4 DEF ReadVersion
  <2>2. NotesTyped'
    BY <1>0, <1>4 DEF ReadVersion, NotesTyped, TenantsTyped
  <2> QED
    BY <2>1, <2>2
<1>5. CASE ReadCounter(r)
  <2>1. Taken(r, Ordinary) /\ Same1
    BY <1>1, <1>2, <1>5 DEF ReadCounter
  <2>2. Tenant(r) \in Names
    BY <1>5, FirstStep DEF ReadCounter, Takes, Running
  <2>3. NotesTyped'
    BY <1>0, <1>5, <2>2 DEF ReadCounter, NotesTyped
  <2> QED
    BY <2>1, <2>3
<1>6. CASE Count(r)
  <2>1. Taken(r, Ordinary) /\ Same1
    BY <1>1, <1>2, <1>6 DEF Count, Mutates, Counted
  <2>2. NotesTyped'
    BY <1>0, <1>6, PartsUnchanged DEF Count, Mutates, Counted, NotesTyped, notes
  <2> QED
    BY <2>1, <2>2
<1>7. CASE Collected(r)
  <2>1. Taken(r, Ordinary) /\ Same1
    BY <1>1, <1>2, <1>7 DEF Collected
  <2>2. [t \in Names |-> IF t \in Active(site) THEN reports[t] ELSE {}] \in [Names -> SUBSET Versions]
    BY <1>0 DEF TenantsTyped
  <2>3. NotesTyped'
    BY <1>0, <1>7, <2>2 DEF Collected, NotesTyped
  <2> QED
    BY <2>1, <2>3
<1>8. CASE Mark(r)
  <2>1. Taken(r, Ordinary) /\ Same1
    BY <1>1, <1>2, <1>8 DEF Mark
  <2>2. NotesTyped'
    BY <1>0, <1>8 DEF Mark, NotesTyped
  <2> QED
    BY <2>1, <2>2
<1>9. CASE Sample(r)
  <2>1. Taken(r, Ordinary) /\ Same1
    BY <1>1, <1>2, <1>9 DEF Sample, Mutates, Counted
  <2>2. NotesTyped'
    BY <1>0, <1>9, PartsUnchanged DEF Sample, Mutates, Counted, NotesTyped, notes
  <2> QED
    BY <2>1, <2>2
<1>10. CASE ReadTimeline(r)
  <2>1. Taken(r, Ordinary) /\ Same1
    BY <1>1, <1>2, <1>10 DEF ReadTimeline
  <2>2. NotesTyped'
    BY <1>0, <1>10 DEF ReadTimeline, NotesTyped
  <2> QED
    BY <2>1, <2>2
<1> QED
  BY <1>3, <1>4, <1>5, <1>6, <1>7, <1>8, <1>9, <1>10

\* A poll may have to be repeated: then the run does not get on.
LEMMA PollForms ==
    ASSUME TypeOK, Shaped, NEW r \in Runs, AskControl(r) \/ AskData(r)
    PROVE  /\ Taken(r, Ordinary) \/ UNCHANGED control
           /\ UNCHANGED <<command, record, tenants, cluster, history>>
           /\ NotesTyped'
<1>0. Runners /\ NotesTyped /\ TenantsTyped
  BY TypeParts DEF Runners, TypeOK
<1>1. PICK w \in {"applied", "expected", "reached"} : Takes(r, w)
  BY DEF AskControl, AskData, Polling
<1>2. w \in Ordinary
  BY DEF Ordinary, Kinds
<1>3. Tenant(r) \in Names
  BY <1>1, FirstStep DEF Takes, Running
<1>4. ASSUME NEW h, Asserts(r, h) PROVE Taken(r, Ordinary)
  BY <1>0, <1>1, <1>2, <1>4, Mutating DEF Taken
<1>5. CASE AskControl(r)
  <2>1. Taken(r, Ordinary) \/ UNCHANGED control
    BY <1>4, <1>5 DEF AskControl
  <2>2. NotesTyped'
    <3>1. UNCHANGED <<known, shot, told, polled>>
      BY <1>5 DEF AskControl
    <3>2. asked' \subseteq asked \cup {r}
      BY <1>5 DEF AskControl
    <3>3. base' = base \/ base' = [base EXCEPT ![r][Tenant(r)] = desired[Tenant(r)]]
      BY <1>5 DEF AskControl
    <3>4. desired[Tenant(r)] \in 0..MaxVersion
      BY <1>0, <1>3 DEF TenantsTyped
    <3>5. base \in [Runs -> [Names -> 0..MaxVersion]]
      BY <1>0 DEF NotesTyped
    <3>6. base' \in [Runs -> [Names -> 0..MaxVersion]]
      <4>1. CASE base' = base
        BY <3>5, <4>1
      <4>2. CASE base' = [base EXCEPT ![r][Tenant(r)] = desired[Tenant(r)]]
        BY <1>3, <3>4, <3>5, <4>2
      <4> QED
        BY <3>3, <4>1, <4>2
    <3> QED
      BY <1>0, <3>1, <3>2, <3>6 DEF NotesTyped
  <2> QED
    BY <1>5, <2>1, <2>2 DEF AskControl
<1>6. CASE AskData(r)
  <2>1. Taken(r, Ordinary) \/ UNCHANGED control
    BY <1>4, <1>6 DEF AskData
  <2>2. NotesTyped'
    BY <1>0, <1>3, <1>6 DEF AskData, NotesTyped
  <2> QED
    BY <1>6, <2>1, <2>2 DEF AskData
<1> QED
  BY <1>5, <1>6

LEMMA TenantForms ==
    ASSUME TypeOK, Shaped, NEW r \in Runs, Post(r) \/ AskWhileBusy(r) \/ Rejected(r) \/ Put(r)
    PROVE  /\ Taken(r, Ordinary) /\ UNCHANGED <<command, record, cluster, history>>
           /\ TenantsTyped' /\ NotesTyped'
<1>0. Runners /\ NotesTyped /\ TenantsTyped
  BY TypeParts DEF Runners, TypeOK
<1> DEFINE Same1 == UNCHANGED <<command, record, cluster, history>>
<1>1. ASSUME NEW w \in Ordinary, Takes(r, w), Same1,
             Forward(r) \/ Raise(r) \/ \E h : Asserts(r, h)
      PROVE  Taken(r, Ordinary) /\ Same1
  BY <1>0, <1>1, Mutating DEF Taken
<1>2. /\ "post" \in Ordinary /\ "sentinel" \in Ordinary /\ "rejected" \in Ordinary
      /\ "put" \in Ordinary
  BY DEF Ordinary, Kinds
<1>3. ASSUME NEW t, Admit(t) PROVE TenantsTyped'
  BY <1>0, <1>3 DEF Admit, TenantsTyped
<1>4. CASE Post(r)
  <2>1. Taken(r, Ordinary) /\ Same1
    BY <1>1, <1>2, <1>4 DEF Post, Mutates, Admitting
  <2>2. UNCHANGED notes /\ (Admit(Tenant(r)) \/ UNCHANGED tenants)
    BY <1>4 DEF Post, Mutates, Admitting
  <2> QED
    BY <1>0, <1>3, <2>1, <2>2, PartsUnchanged
<1>5. CASE AskWhileBusy(r)
  <2>1. Taken(r, Ordinary) /\ Same1
    BY <1>1, <1>2, <1>5 DEF AskWhileBusy, Mutates, Admitting
  <2>2. UNCHANGED notes /\ (Admit(Sentinel) \/ UNCHANGED tenants)
    BY <1>5 DEF AskWhileBusy, Mutates, Admitting
  <2> QED
    BY <1>0, <1>3, <2>1, <2>2, PartsUnchanged
<1>6. CASE Rejected(r)
  <2>1. Taken(r, Ordinary) /\ Same1
    BY <1>1, <1>2, <1>6 DEF Rejected, Mutates, Admitting
  <2>2. UNCHANGED notes /\ (Admit(Third) \/ UNCHANGED tenants)
    BY <1>6 DEF Rejected, Mutates, Admitting
  <2> QED
    BY <1>0, <1>3, <2>1, <2>2, PartsUnchanged
<1>7. CASE Put(r)
  <2>1. Taken(r, Ordinary) /\ Same1
    BY <1>1, <1>2, <1>7 DEF Put, Mutates
  <2>2. CASE UNCHANGED <<tenants, notes>>
    BY <1>0, <2>1, <2>2, PartsUnchanged
  <2>3. CASE /\ desired[Tenant(r)] < MaxVersion
             /\ desired' = [desired EXCEPT ![Tenant(r)] = @ + 1]
             /\ base' = [base EXCEPT ![r][Tenant(r)] = desired'[Tenant(r)]]
             /\ UNCHANGED <<row, ready, applied, reports, asked, known, shot, told, polled>>
    <3>1. \A n \in Names : desired'[n] \in 0..MaxVersion
      BY <1>0, <2>3, BoundAssumption DEF TenantsTyped
    <3>2. desired' \in [Names -> 0..MaxVersion]
      BY <1>0, <2>3, <3>1 DEF TenantsTyped
    <3>3. NotesTyped'
      BY <1>0, <2>3, <3>1 DEF NotesTyped
    <3> QED
      BY <1>0, <2>1, <2>3, <3>2, <3>3 DEF TenantsTyped
  <2> QED
    BY <1>7, <2>2, <2>3 DEF Put, Mutates
<1> QED
  BY <1>4, <1>5, <1>6, <1>7

-----------------------------------------------------------------------------
(* The journals *)

Outcomes == {"none", "running", "passed", "failed"}

\* What may be continued depends on the journal alone.
LEMMA ContinuableKept ==
    ASSUME UNCHANGED command, NEW p, journal'[p] = journal[p]
    PROVE  Continuable(p)' <=> Continuable(p)
  BY DEF Continuable, ManagementImages, BusyVerified, command

LEMMA RecordKept ==
    ASSUME RecordTyped, Held, Over, UNCHANGED <<command, record>>
    PROVE  RecordTyped' /\ Held' /\ Over'
<1>1. \A p : Continuable(p)' <=> Continuable(p)
  BY ContinuableKept DEF record
<1>2. RecordTyped'
  BY PartsUnchanged
<1>3. Held'
  BY <1>1 DEF Held, record, command
<1>4. Over'
  BY DEF Over, record
<1> QED
  BY <1>2, <1>3, <1>4

\* A journal is written only by its run, and only as long as nobody continues it.
LEMMA Writes ==
    ASSUME RecordTyped, Held, Over, NEW r \in Runs, r \notin stale,
           NEW o \in Outcomes, NEW x \in Steps, Write(r, o, x),
           UNCHANGED <<command, claimed>>, stale \subseteq stale', stale' \subseteq stale \cup {r}
    PROVE  RecordTyped' /\ Held' /\ Over'
<1>1. RecordTyped'
  <2>1. [outcome |-> o, saved |-> x] \in [outcome : Outcomes, saved : Steps]
    OBVIOUS
  <2>2. journal' \in [Runs -> [outcome : Outcomes, saved : Steps]]
    BY <2>1 DEF RecordTyped, Write, Outcomes
  <2>3. claimed' \cup stale' \cup held' \subseteq Runs
    BY DEF RecordTyped, Write
  <2> QED
    BY <2>2, <2>3 DEF RecordTyped, Outcomes
<1>2. \A p \in Runs \ {r} : Continuable(p)' <=> Continuable(p)
  BY ContinuableKept DEF Write, RecordTyped
<1>3. Held'
  <2>1. \A q \in held' : q \in held /\ q \in Runs /\ from[q] # r
    BY DEF Write, Continuing, RecordTyped
  <2>2. \A q \in held' : from[q] \in Runs /\ Continuable(from[q])
    BY <2>1 DEF Held
  <2>3. from' = from
    BY DEF command
  <2>4. \A q \in held' : \A p : p = from[q] => p \in Runs /\ Continuable(p)'
    BY <1>2, <2>1, <2>2
  <2> QED
    BY <2>3, <2>4 DEF Held
<1>4. Over'
  BY DEF Over
<1> QED
  BY <1>1, <1>3, <1>4

LEMMA SaveForms ==
    ASSUME TypeOK, Shaped, Held, Over, NEW r \in Runs, SaveEvent(r)
    PROVE  /\ Taken(r, Ordinary) /\ UNCHANGED <<command, tenants, cluster, notes, history>>
           /\ RecordTyped' /\ Held' /\ Over'
<1>0. Runners /\ RecordTyped /\ todo[r] # << >>
  BY TypeParts DEF Runners, TypeOK, SaveEvent, Takes, Running
<1>1. "save" \in Ordinary /\ "running" \in Outcomes /\ todo[r][1] \in Steps
  BY <1>0, FirstStep DEF Ordinary, Kinds, Outcomes
<1>2. Taken(r, Ordinary)
  BY <1>0, <1>1, Mutating DEF SaveEvent, Taken
<1>3. UNCHANGED <<command, claimed>>
  BY DEF SaveEvent
<1>4. CASE r \in stale
  <2>1. UNCHANGED record
    BY <1>4 DEF SaveEvent, Guarded, record
  <2> QED
    BY <1>0, <1>2, <2>1, RecordKept DEF SaveEvent
<1>5. CASE r \notin stale
  <2>1. Write(r, "running", todo[r][1]) /\ stale \subseteq stale' /\ stale' \subseteq stale \cup {r}
    BY <1>5 DEF SaveEvent, Guarded
  <2>2. RecordTyped' /\ Held' /\ Over'
    BY <1>0, <1>1, <1>3, <1>5, <2>1, Writes
  <2> QED
    BY <1>2, <2>2 DEF SaveEvent
<1> QED
  BY <1>4, <1>5

LEMMA FinishForms ==
    ASSUME TypeOK, Shaped, Held, Over, NEW r \in Runs, Finish(r)
    PROVE  /\ Taken(r, Ordinary) /\ UNCHANGED <<command, tenants, cluster, notes, history>>
           /\ RecordTyped' /\ Held' /\ Over'
<1>0. Runners /\ RecordTyped /\ todo[r] # << >>
  BY TypeParts DEF Runners, TypeOK, Finish, Takes, Running
<1>1. "finish" \in Ordinary /\ "passed" \in Outcomes /\ "failed" \in Outcomes
  BY DEF Ordinary, Kinds, Outcomes
<1>2. Taken(r, Ordinary)
  <2>1. Onward(r)
    BY DEF Finish, Takes, Onward, Goes
  <2>2. failed' \subseteq failed \cup {r} /\ accuses' \subseteq accuses \cup {r}
    BY DEF Finish
  <2> QED
    BY <1>1, <2>1, <2>2 DEF Finish, Takes, Running, Taken
<1>3. UNCHANGED <<command, claimed, stale>>
  BY DEF Finish
<1>4. CASE UNCHANGED <<journal, held>>
  <2>1. UNCHANGED record
    BY <1>3, <1>4 DEF record
  <2> QED
    BY <1>0, <1>2, <2>1, RecordKept DEF Finish
<1>5. CASE r \notin stale /\ Write(r, IF r \in failed THEN "failed" ELSE "passed", journal[r].saved)
  <2>1. journal[r].saved \in Steps
    BY <1>0 DEF RecordTyped
  <2>2. (IF r \in failed THEN "failed" ELSE "passed") \in Outcomes
    BY <1>1
  <2>3. RecordTyped' /\ Held' /\ Over'
    BY <1>0, <1>3, <1>5, <2>1, <2>2, Writes
  <2> QED
    BY <1>2, <2>3 DEF Finish
<1> QED
  BY <1>4, <1>5 DEF Finish, Guarded

LEMMA ContinuationForms ==
    ASSUME TypeOK, Shaped, Held, Over, NEW r \in Runs, LoadFirstAdmission(r) \/ ClaimContinuation(r)
    PROVE  /\ Taken(r, Ordinary) /\ UNCHANGED <<command, tenants, cluster, notes, history>>
           /\ RecordTyped' /\ Held' /\ Over'
<1>0. Runners /\ RecordTyped /\ todo[r] # << >>
  BY TypeParts DEF Runners, TypeOK, LoadFirstAdmission, ClaimContinuation, Takes, Running
<1>1. "load" \in Ordinary /\ "claim" \in Ordinary
  BY DEF Ordinary, Kinds
<1>2. Taken(r, Ordinary)
  BY <1>0, <1>1, Mutating DEF LoadFirstAdmission, ClaimContinuation, Taken
<1>3. UNCHANGED <<command, journal, tenants, cluster, notes, history>>
  BY DEF LoadFirstAdmission, ClaimContinuation
<1>4. \A p : Continuable(p)' <=> Continuable(p)
  BY <1>3, ContinuableKept
<1>5. from' = from
  BY <1>3 DEF command
<1>6. CASE UNCHANGED <<claimed, stale, held>>
  <2>1. UNCHANGED record
    BY <1>3, <1>6 DEF record
  <2> QED
    BY <1>0, <1>2, <1>3, <2>1, RecordKept
<1>7. CASE LoadFirstAdmission(r) /\ Continuable(from[r]) /\ held' = held \cup {r}
  <2>1. from[r] \in Runs
    BY <1>0, <1>7, FirstStep DEF LoadFirstAdmission, Takes
  <2>2. UNCHANGED <<claimed, stale>>
    BY <1>7 DEF LoadFirstAdmission
  <2>3. RecordTyped'
    BY <1>0, <1>3, <1>7, <2>2 DEF RecordTyped
  <2>4. Held'
    BY <1>4, <1>5, <1>7, <2>1 DEF Held
  <2>5. Over'
    BY <2>2 DEF Over
  <2> QED
    BY <1>2, <1>3, <2>3, <2>4, <2>5
<1>8. CASE /\ r \in held /\ claimed' = claimed \cup {from[r]} /\ stale' = stale \cup {from[r]}
           /\ held' = held \ Continuing(from[r])
  <2>1. from[r] \in Runs /\ Continuable(from[r])
    BY <1>8 DEF Held
  <2>2. RecordTyped'
    BY <1>0, <1>3, <1>8, <2>1 DEF RecordTyped
  <2>3. Held'
    BY <1>4, <1>5, <1>8 DEF Held
  <2>4. Over'
    BY <1>8 DEF Over
  <2> QED
    BY <1>2, <1>3, <2>2, <2>3, <2>4
<1> QED
  BY <1>6, <1>7, <1>8 DEF LoadFirstAdmission, ClaimContinuation

-----------------------------------------------------------------------------
(* The steps of a pause and of a blocked link *)

LEMMA GoesForward ==
    ASSUME Runners, NEW r \in Runs, Forward(r), todo[r][1][1] \notin {"rollout", "lift"}
    PROVE  todo'[r] = Tail(todo[r])
  BY DEF Runners, Forward

LEMMA GoesOut ==
    ASSUME Runners, Shaped, NEW r \in Runs, todo[r] # << >>, Goes(r, AfterError(r))
    PROVE  ~ Ahead(todo'[r], 4)
<1>1. todo'[r] = AfterError(r)
  BY DEF Goes, Runners
<1> QED
  BY <1>1, AfterErrorShape

\* Between the stop and the scaling of a reconciler is a pause.
LEMMA AheadIsPause ==
    ASSUME Shaped, NEW r \in Runs, Running(r), Ahead(todo[r], 4) \/ Ahead(todo[r], 6),
           ~ Ahead(todo[r], 2)
    PROVE  InPause(r)
<1> DEFINE s == todo[r]
           c == from[r] # NoRun
<1>1. s \in Seq(StepsOf(c)) /\ Shape(s) /\ Len(s) \in Nat
  BY DEF Shaped
<1> HIDE DEF s, c
<1>2. Ahead(s, 7) /\ ~ Ahead(s, 1)
  <2>1. Ahead(s, 4) \/ Ahead(s, 6)
    BY DEF s
  <2>2. ~ Ahead(s, 2)
    BY DEF s
  <2> QED
    BY <1>1, <2>1, <2>2, PauseOrder
<1>3. PICK i \in 1..Len(s) : Rank(s[i]) = 7
  BY <1>2 DEF Ahead
<1>4. s[i][1] = "rollout"
  BY <1>3, RankProperties
<1>5. ASSUME NEW j \in 1..i, s[j][1] = "pause" PROVE FALSE
  <2>1. j \in 1..Len(s) /\ Rank(s[j]) = 1
    BY <1>1, <1>3, <1>5, RankProperties
  <2> QED
    BY <1>2, <2>1 DEF Ahead
<1>6. i \in DOMAIN s
  BY <1>1, <1>3
<1> QED
  BY <1>4, <1>5, <1>6 DEF InPause, s

\* The parts of a step that the arguments about the pause need.
Alike(r) ==
    /\ todo[r] # << >> /\ r \notin killed /\ Onward(r) /\ killed' = killed /\ gaveUp \subseteq gaveUp'
    /\ pod' = pod /\ (meddled => meddled') /\ quiet \subseteq quiet'

\* After an error at its start, a pause still has its end ahead.
LEMMA StoppedGoesOn ==
    ASSUME Shaped, NEW r \in Runs, todo[r] # << >>, todo[r][1][1] = "stop"
    PROVE  Ahead(AfterError(r), 6) /\ ~ Ahead(AfterError(r), 2)
<1> DEFINE s == todo[r]
           c == from[r] # NoRun
<1>1. s \in Seq(StepsOf(c)) /\ Shape(s) /\ s # << >> /\ 1 \in 1..Len(s)
  BY DEF Shaped
<1> HIDE DEF s, c
<1>2. Rank(s[1]) = 2
  BY RankProperties DEF s
<1>3. Ahead(s, 2)
  BY <1>1, <1>2 DEF Ahead
<1>4. Ahead(s, 6) /\ ~ Ahead(s, 1)
  BY <1>1, <1>2, <1>3, PauseOrder
<1> QED
  BY <1>2, <1>4, AfterErrorShape DEF s

LEMMA StopKeeps ==
    ASSUME Runners, Shaped, Careful, NEW r \in Runs, Stop(r)
    PROVE  Taken(r, Kinds) /\ Careful'
<1> DEFINE s == todo[r]
           c == from[r] # NoRun
<1>1. s # << >> /\ r \notin killed /\ s[1][1] = "stop" /\ Onward(r)
  BY Moves DEF Stop, Takes, Running
<1>2. Taken(r, Kinds)
  BY <1>1, Moves DEF Stop, Taken, Kinds
<1>3. Alike(r) /\ meddled' = meddled /\ link' = link
  BY <1>1 DEF Alike, Stop, history
<1>4. s \in Seq(StepsOf(c)) /\ Shape(s) /\ Len(s) \in Nat \ {0}
  BY <1>1 DEF Shaped
<1>5. \/ replicas = 1 /\ replicas' = 0 /\ todo'[r] = Tail(s)
      \/ replicas = 1 /\ replicas' = 0 /\ todo'[r] = AfterError(r)
      \/ replicas' = replicas /\ Goes(r, AfterError(r))
  <2>1. CASE replicas = 1
    <3>1. Raise(r) => todo'[r] = AfterError(r)
      BY DEF Raise, Runners
    <3> QED
      BY <1>1, <2>1, <3>1, GoesForward DEF Stop
  <2>2. CASE replicas # 1
    BY <2>2 DEF Stop, Asserts, Goes
  <2> QED
    BY <2>1, <2>2
<1>6. Ahead(todo'[r], 4) => replicas' = 0
  BY <1>1, <1>5, GoesOut
<1>7. replicas' = 0 => replicas = 0 \/ (Ahead(todo'[r], 6) /\ ~ Ahead(todo'[r], 2))
  <2>0. ASSUME todo'[r] = AfterError(r) PROVE Ahead(todo'[r], 6) /\ ~ Ahead(todo'[r], 2)
    BY <1>1, <1>4, <2>0, StoppedGoesOn DEF s
  <2> SUFFICES ASSUME todo'[r] = Tail(s) PROVE Ahead(todo'[r], 6) /\ ~ Ahead(todo'[r], 2)
    BY <1>5, <2>0
  <2>1. todo'[r] = Tail(s)
    OBVIOUS
  <2>2. 1 \in 1..Len(s)
    BY <1>4
  <2> HIDE DEF s, c
  <2>3. Rank(s[1]) = 2
    BY <1>1, RankProperties
  <2>4. Ahead(s, 2)
    BY <2>2, <2>3 DEF Ahead
  <2>5. Ahead(s, 6)
    BY <1>4, <2>4, PauseOrder
  <2>6. ~ Ahead(Tail(s), 2)
    BY <1>1, <1>4, <2>3, PauseOrder
  <2>7. Ahead(Tail(s), 6)
    BY <1>1, <1>4, <2>3, <2>5, TailShape
  <2> QED
    BY <2>1, <2>6, <2>7
<1>8. \A q \in Runs : Running(q) /\ Ahead(todo[q], 4) /\ ~ Ahead(todo[q], 2) =>
          replicas # 0 \/ replicas' = 0 \/ meddled'
  BY <1>5
<1>9. Careful'
  BY <1>1, <1>3, <1>6, <1>7, <1>8, RunStep DEF Alike
<1> QED
  BY <1>2, <1>9

LEMMA DrainKeeps ==
    ASSUME Runners, Shaped, Careful, NEW r \in Runs, Drain(r)
    PROVE  Taken(r, Kinds) /\ Careful'
<1>1. todo[r] # << >> /\ r \notin killed /\ todo[r][1][1] = "drain" /\ Onward(r)
  BY Moves DEF Drain, Takes, Running
<1>2. Taken(r, Kinds)
  BY <1>1, Moves DEF Drain, Taken, Kinds
<1>3. ~ pod /\ quiet' = quiet \cup {r}
  BY DEF Drain
<1>4. Alike(r) /\ UNCHANGED <<replicas, link, meddled>>
  BY <1>1, <1>3 DEF Alike, Drain, cluster
<1>5. Careful'
  BY <1>1, <1>3, <1>4, RunStep DEF Alike
<1> QED
  BY <1>2, <1>5

LEMMA ResumeKeeps ==
    ASSUME Runners, Shaped, Careful, NEW r \in Runs, Resume(r)
    PROVE  Taken(r, Kinds) /\ Careful'
<1> DEFINE s == todo[r]
           c == from[r] # NoRun
<1>1. s # << >> /\ r \notin killed /\ s[1][1] = "resume" /\ Onward(r)
  BY Moves DEF Resume, Recount, Takes, Running, Onward, Goes
<1>2. Taken(r, Kinds)
  BY <1>1, Moves DEF Resume, Recount, Taken, Kinds
<1>3. Alike(r) /\ UNCHANGED <<replicas, link, meddled>>
  BY <1>1 DEF Alike, Resume, cluster, history
<1>4. s \in Seq(StepsOf(c)) /\ Shape(s) /\ Len(s) \in Nat \ {0}
  BY <1>1 DEF Shaped
<1>5. replicas # 0 \/ todo'[r] = Tail(s)
  BY <1>1, GoesForward DEF Resume, Recount, Asserts
<1>6. replicas' # 0 \/ Ahead(todo'[r], 6)
  <2> SUFFICES ASSUME todo'[r] = Tail(s) PROVE Ahead(todo'[r], 6)
    BY <1>3, <1>5
  <2>1. todo'[r] = Tail(s)
    OBVIOUS
  <2>2. 1 \in 1..Len(s)
    BY <1>4
  <2> HIDE DEF s, c
  <2>3. Rank(s[1]) = 5
    BY <1>1, RankProperties
  <2>4. Ahead(s, 5)
    BY <2>2, <2>3 DEF Ahead
  <2>5. Ahead(s, 6)
    BY <1>4, <2>4, PauseOrder
  <2>6. Ahead(Tail(s), 6)
    BY <1>1, <1>4, <2>3, <2>5, TailShape
  <2> QED
    BY <2>1, <2>6
<1>7. Careful'
  BY <1>1, <1>3, <1>6, RunStep DEF Alike
<1> QED
  BY <1>2, <1>7

LEMMA ScaleKeeps ==
    ASSUME Runners, Shaped, Careful, NEW r \in Runs, Scale(r)
    PROVE  Taken(r, Kinds) /\ Careful'
<1> DEFINE s == todo[r]
           c == from[r] # NoRun
<1>1. s # << >> /\ r \notin killed /\ s[1][1] = "scale" /\ Onward(r)
  BY Moves DEF Scale, Takes, Running
<1>2. Taken(r, Kinds)
  BY <1>1, Moves DEF Scale, Taken, Kinds
<1>3. Alike(r) /\ UNCHANGED link
  BY <1>1 DEF Alike, Scale
<1>4. s \in Seq(StepsOf(c)) /\ Shape(s)
  BY DEF Shaped
<1>5. replicas' # 0
  <2>1. replicas' = 1 \/ (replicas # 0 /\ UNCHANGED replicas)
    BY Zenon DEF Scale
  <2> QED
    BY <2>1
<1>6. ASSUME NEW q \in Runs, Running(q), Ahead(todo[q], 4), ~ Ahead(todo[q], 2), replicas = 0
      PROVE  meddled'
  <2>1. InPause(q)
    BY <1>6, AheadIsPause
  <2>2. ~ Ahead(s, 4)
    <3> HIDE DEF s, c
    <3>1. Rank(s[1]) = 6
      BY <1>1, RankProperties
    <3> QED
      BY <1>1, <1>4, <3>1, PauseOrder
  <2>3. q # r
    BY <1>6, <2>2
  <2> QED
    BY <1>6, <2>1, <2>3 DEF Scale
<1>7. Careful'
  BY <1>1, <1>3, <1>5, <1>6, RunStep DEF Alike
<1> QED
  BY <1>2, <1>7

LEMMA BlockKeeps ==
    ASSUME Runners, Shaped, Careful, NEW r \in Runs, Block(r)
    PROVE  Taken(r, Kinds) /\ Careful' /\ link' \in [Links -> Runs \cup {NoRun}]
<1> DEFINE s == todo[r]
           c == from[r] # NoRun
           l == Detail(r)
<1>1. s # << >> /\ r \notin killed /\ s[1][1] = "block" /\ Onward(r)
  BY Moves DEF Block, Takes, Running
<1>2. Taken(r, Kinds)
  BY <1>1, Moves DEF Block, Taken, Kinds
<1>3. Alike(r) /\ UNCHANGED <<replicas, meddled>>
  BY <1>1 DEF Alike, Block, history
<1>4. s \in Seq(StepsOf(c)) /\ Shape(s) /\ Len(s) \in Nat \ {0}
  BY <1>1 DEF Shaped
<1>5. link' \in [Links -> Runs \cup {NoRun}]
  BY DEF Block, Runners
<1>6. \A k \in Links : link'[k] = link[k] \/ (k = l /\ link'[k] = r)
  BY DEF Block, Runners
<1>7. Lifting(todo'[r], l)
  <2>1. s[1][3] = l
    BY DEF Detail
  <2>2. Lifting(s, l)
    <3> HIDE DEF s, c, l
    <3>1. 1 \in 1..Len(s)
      BY <1>4
    <3>2. PICK k \in 2..Len(s) : /\ s[k][1] = "lift" /\ s[k][3] = l
                                 /\ \A j \in 1..(k - 1) : s[j][1] \notin Opens \cup Closes
      BY <1>1, <1>4, <2>1, <3>1 DEF Shape, Blocks
    <3> QED
      BY <1>4, <3>2 DEF Lifting, LiftAt
  <2> QED
    BY <1>1, <2>2, OnwardKeeps DEF s
<1> HIDE DEF l
<1>8. \A k \in Links : link'[k] # NoRun =>
          link'[k] = link[k] \/ (link'[k] = r /\ Lifting(todo'[r], k))
  BY <1>6, <1>7
<1>9. Careful'
  BY <1>1, <1>3, <1>8, RunStep DEF Alike
<1> QED
  BY <1>2, <1>5, <1>9

LEMMA LiftKeeps ==
    ASSUME Runners, Shaped, Careful, NEW r \in Runs, Lift(r)
    PROVE  Taken(r, Kinds) /\ Careful' /\ link' \in [Links -> Runs \cup {NoRun}]
<1> DEFINE s == todo[r]
<1>1. s # << >> /\ r \notin killed /\ s[1][1] = "lift" /\ Onward(r)
  BY Moves DEF Lift, Takes, Running
<1>2. Taken(r, Kinds)
  BY <1>1, Moves DEF Lift, Taken, Kinds
<1>3. Alike(r) /\ UNCHANGED <<replicas, meddled>>
  BY <1>1 DEF Alike, Lift, history
<1>4. link' \in [Links -> Runs \cup {NoRun}]
  BY DEF Lift, Runners
<1>5. \A k \in Links : /\ link'[k] # NoRun => link'[k] = link[k]
                       /\ k = Detail(r) => link'[k] # r
  BY RunsAssumption DEF Lift, Runners
<1>6. ASSUME NEW k \in Links, link'[k] = r, Lifting(s, k) PROVE FALSE
  <2>1. PICK i \in 1..Len(s) : LiftAt(s, k, i)
    BY <1>6 DEF Lifting
  <2>2. i = 1
    <3>1. i # 1 => 1 \in 1..(i - 1)
      OBVIOUS
    <3> QED
      BY <1>1, <2>1, <3>1 DEF LiftAt, Closes
  <2>3. k = Detail(r)
    BY <2>1, <2>2 DEF LiftAt, Detail
  <2> QED
    BY <1>5, <1>6, <2>3
<1>7. Careful'
  BY <1>1, <1>3, <1>5, <1>6, RunStep DEF Alike
<1> QED
  BY <1>2, <1>4, <1>7

-----------------------------------------------------------------------------
(* Every step of a run *)

LEMMA IInvParts ==
    IInv <=> TypeOK /\ Shaped /\ Held /\ Over /\ Careful
  BY DEF IInv, Careful

SameRuns == \A q \in Runs :
    (Running(q)' <=> Running(q)) /\ (Gone(q)' <=> Gone(q)) /\ (Pausing(q)' <=> Pausing(q))

\* The scripts, the runs and what they hold of the journals stay as they are.
LEMMA SystemKeeps ==
    ASSUME IInv, UNCHANGED <<command, control, record, begun, killed, gaveUp, overlapped>>,
           TenantsTyped', ClusterTyped', NotesTyped', quiet' \subseteq Runs, meddled' \in BOOLEAN
    PROVE  /\ TypeOK' /\ Shaped' /\ Held' /\ Over'
           /\ todo' = todo /\ SameRuns
<1>0. /\ TypeOK /\ Shaped /\ Held /\ Over /\ RecordTyped /\ HistoryTyped
  BY IInvParts, TypeParts
<1>1. UNCHANGED <<site, mode, from, todo, failed, accuses>>
  BY DEF command, control
<1>2. RecordTyped' /\ Held' /\ Over'
  BY <1>0, RecordKept
<1>3. HistoryTyped'
  BY <1>0 DEF HistoryTyped
<1>4. TypeOK'
  BY <1>0, <1>1, <1>2, <1>3, TypePartsNext DEF TypeOK
<1>5. Shaped'
  BY <1>0, <1>1 DEF Shaped
<1>6. SameRuns
  BY <1>1 DEF Running, Gone, Pausing, SameRuns
<1> QED
  BY <1>1, <1>2, <1>4, <1>5, <1>6

\* Whatever the services do with the tenants.
LEMMA Undisturbed ==
    ASSUME IInv, UNCHANGED <<command, control, record, history, replicas, pod, link>>,
           TenantsTyped', ClusterTyped', NotesTyped'
    PROVE  IInv'
<1>0. Careful /\ HistoryTyped
  BY IInvParts, TypeParts
<1>1. UNCHANGED <<begun, killed, meddled, gaveUp, overlapped, quiet>>
  BY DEF history
<1>2. quiet' \subseteq Runs /\ meddled' \in BOOLEAN
  BY <1>0, <1>1 DEF HistoryTyped
<1>3. /\ TypeOK' /\ Shaped' /\ Held' /\ Over'
      /\ todo' = todo /\ SameRuns
  BY <1>1, <1>2, SystemKeeps
<1>4. Stopped' /\ Silent'
  BY <1>0, <1>1, <1>3 DEF SameRuns, Careful, Stopped, Silent
<1>5. Paused' /\ Blocked'
  BY <1>0, <1>1, <1>3 DEF SameRuns, Careful, Paused, Blocked
<1> QED
  BY <1>3, <1>4, <1>5 DEF IInv

LEMMA TakenAll ==
    ASSUME NEW r, Taken(r, Ordinary)
    PROVE  Taken(r, Kinds) /\ todo[r][1][1] \notin {"stop", "drain", "resume", "scale", "block", "lift"}
  BY DEF Taken, Ordinary

\* What an ordinary step has to keep, beside what every one does.
LEMMA OrdinaryKeeps ==
    ASSUME IInv, NEW r \in Runs, Taken(r, Ordinary), UNCHANGED <<command, history>>,
           UNCHANGED <<replicas, pod, link>>, RecordTyped', TenantsTyped', ClusterTyped', NotesTyped',
           Held', Over'
    PROVE  IInv'
<1>1. Taken(r, Kinds) /\ todo[r][1][1] \notin {"stop", "drain", "resume", "scale", "block", "lift"}
  BY TakenAll
<1>2. HistoryTyped' /\ begun' = begun
  BY TypeParts, PartsUnchanged DEF IInv, history
<1>3. TypeOK' /\ Shaped'
  BY <1>1, <1>2, StepTyped DEF IInv
<1>4. UNCHANGED <<killed, meddled, quiet>> /\ gaveUp \subseteq gaveUp'
  BY DEF history
<1>5. todo[r] # << >> /\ r \notin killed /\ Onward(r)
  BY DEF Taken
<1>6. Runners /\ Shaped /\ Careful
  BY IInvParts DEF Runners, TypeOK
<1>7. Careful'
  BY <1>1, <1>4, <1>5, <1>6, OrdinaryStep
<1> QED
  BY <1>3, <1>7 DEF IInv, Careful

\* The same of the others, of which a lemma says that they are careful.
LEMMA SpecialKeeps ==
    ASSUME IInv, NEW r \in Runs, Taken(r, Kinds), Careful', begun' = begun,
           UNCHANGED <<command, record, tenants>>, ClusterTyped', NotesTyped', HistoryTyped'
    PROVE  IInv'
<1>1. RecordTyped /\ TenantsTyped /\ Held /\ Over
  BY TypeParts DEF IInv
<1>2. RecordTyped' /\ TenantsTyped' /\ Held' /\ Over'
  BY <1>1, RecordKept, PartsUnchanged
<1>3. TypeOK' /\ Shaped'
  BY <1>2, StepTyped DEF IInv
<1> QED
  BY <1>2, <1>3 DEF IInv, Careful

LEMMA StepKeeps ==
    ASSUME IInv, NEW r \in Runs, Step(r)
    PROVE  IInv'
<1>0. /\ Runners /\ TypeOK /\ Shaped /\ Careful /\ Held /\ Over
      /\ RecordTyped /\ TenantsTyped /\ ClusterTyped /\ NotesTyped /\ HistoryTyped
  BY IInvParts, TypeParts DEF Runners, TypeOK
<1>1. CASE SaveEvent(r)
  BY <1>0, <1>1, SaveForms, OrdinaryKeeps, PartsUnchanged DEF cluster
<1>2. CASE Finish(r)
  BY <1>0, <1>2, FinishForms, OrdinaryKeeps, PartsUnchanged DEF cluster
<1>3. CASE LoadFirstAdmission(r) \/ ClaimContinuation(r)
  BY <1>0, <1>3, ContinuationForms, OrdinaryKeeps, PartsUnchanged DEF cluster
<1>4. CASE \/ Absent(r) \/ Repeat(r) \/ AlreadySucceeded(r) \/ BusyWindow(r) \/ AwaitReady(r)
           \/ WaitOperation(r) \/ NotFound(r) \/ Untold(r) \/ Tallied(r)
           \/ Same(r) \/ Survived(r) \/ Pause(r) \/ PendingWhilePaused(r) \/ Rollout(r)
           \/ Guard(r) \/ Replaced(r) \/ Unapplied(r) \/ Recovered(r) \/ LatestOnly(r)
           \/ VerifyWorkload(r)
  <2>1. LooksOnly(r) /\ todo[r][1][1] \in Ordinary
    BY <1>0, <1>4, LookingForms
  <2>2. Taken(r, Ordinary) /\ UNCHANGED <<command, record, tenants, cluster, notes, history>>
    BY <2>1 DEF LooksOnly, Taken
  <2> QED
    BY <1>0, <2>2, OrdinaryKeeps, PartsUnchanged, RecordKept DEF cluster
<1>5. CASE \/ Continued(r) \/ ReadVersion(r) \/ ReadCounter(r) \/ Count(r) \/ Collected(r)
           \/ Mark(r) \/ Sample(r) \/ ReadTimeline(r)
  <2>1. Taken(r, Ordinary) /\ UNCHANGED <<command, record, tenants, cluster, history>> /\ NotesTyped'
    BY <1>0, <1>5, NotesForms
  <2> QED
    BY <1>0, <2>1, OrdinaryKeeps, PartsUnchanged, RecordKept DEF cluster
<1>14. CASE AskControl(r) \/ AskData(r)
  <2>1. /\ Taken(r, Ordinary) \/ UNCHANGED control
        /\ UNCHANGED <<command, record, tenants, cluster, history>> /\ NotesTyped'
    BY <1>0, <1>14, PollForms
  <2>2. TenantsTyped' /\ ClusterTyped' /\ UNCHANGED <<replicas, pod, link>>
    BY <1>0, <2>1, PartsUnchanged DEF cluster
  <2>3. CASE UNCHANGED control
    BY <2>1, <2>2, <2>3, Undisturbed
  <2>4. CASE Taken(r, Ordinary)
    BY <1>0, <2>1, <2>2, <2>4, OrdinaryKeeps, PartsUnchanged, RecordKept
  <2> QED
    BY <2>1, <2>3, <2>4
<1>6. CASE Post(r) \/ AskWhileBusy(r) \/ Rejected(r) \/ Put(r)
  <2>1. /\ Taken(r, Ordinary) /\ UNCHANGED <<command, record, cluster, history>>
        /\ TenantsTyped' /\ NotesTyped'
    BY <1>0, <1>6, TenantForms
  <2> QED
    BY <1>0, <2>1, OrdinaryKeeps, PartsUnchanged, RecordKept DEF cluster
<1>7. CASE RestartDataApi(r)
  <2>1. Taken(r, Ordinary)
    BY <1>0, <1>7, Mutating DEF RestartDataApi, Taken, Ordinary, Kinds
  <2>2. ClusterTyped'
    BY <1>0, <1>7 DEF RestartDataApi, ClusterTyped
  <2> QED
    BY <1>0, <1>7, <2>1, <2>2, OrdinaryKeeps, PartsUnchanged, RecordKept DEF RestartDataApi
<1>8. CASE Stop(r)
  <2>1. Taken(r, Kinds) /\ Careful'
    BY <1>0, <1>8, StopKeeps
  <2>2. ClusterTyped'
    <3>1. UNCHANGED <<pod, api, link>> /\ (replicas' = 0 \/ replicas' = replicas)
      BY <1>8 DEF Stop
    <3> QED
      BY <1>0, <3>1 DEF ClusterTyped
  <2> QED
    BY <1>0, <1>8, <2>1, <2>2, SpecialKeeps, PartsUnchanged DEF Stop, history
<1>9. CASE Drain(r)
  <2>1. Taken(r, Kinds) /\ Careful'
    BY <1>0, <1>9, DrainKeeps
  <2>2. HistoryTyped'
    BY <1>0, <1>9 DEF Drain, HistoryTyped
  <2> QED
    BY <1>0, <1>9, <2>1, <2>2, SpecialKeeps, PartsUnchanged DEF Drain
<1>10. CASE Resume(r)
  <2>1. Taken(r, Kinds) /\ Careful'
    BY <1>0, <1>10, ResumeKeeps
  <2> QED
    BY <1>0, <1>10, <2>1, SpecialKeeps, PartsUnchanged DEF Resume, history
<1>11. CASE Scale(r)
  <2>1. Taken(r, Kinds) /\ Careful'
    BY <1>0, <1>11, ScaleKeeps
  <2>2. ClusterTyped'
    <3>1. UNCHANGED <<pod, api, link>> /\ (replicas' = 1 \/ UNCHANGED replicas)
      BY <1>11, Zenon DEF Scale
    <3> QED
      BY <1>0, <3>1 DEF ClusterTyped
  <2>3. meddled' \in BOOLEAN
    BY <1>11 DEF Scale
  <2>4. HistoryTyped'
    BY <1>0, <1>11, <2>3 DEF Scale, HistoryTyped
  <2> QED
    BY <1>0, <1>11, <2>1, <2>2, <2>4, SpecialKeeps, PartsUnchanged DEF Scale
<1>12. CASE Block(r)
  <2>1. Taken(r, Kinds) /\ Careful' /\ link' \in [Links -> Runs \cup {NoRun}]
    BY <1>0, <1>12, BlockKeeps
  <2>2. ClusterTyped'
    BY <1>0, <1>12, <2>1 DEF Block, ClusterTyped
  <2> QED
    BY <1>0, <1>12, <2>1, <2>2, SpecialKeeps, PartsUnchanged DEF Block, history
<1>13. CASE Lift(r)
  <2>1. Taken(r, Kinds) /\ Careful' /\ link' \in [Links -> Runs \cup {NoRun}]
    BY <1>0, <1>13, LiftKeeps
  <2>2. ClusterTyped' /\ NotesTyped'
    BY <1>0, <1>13, <2>1 DEF Lift, ClusterTyped, NotesTyped
  <2> QED
    BY <1>0, <1>13, <2>1, <2>2, SpecialKeeps, PartsUnchanged DEF Lift, history
<1> QED
  BY <1>1, <1>2, <1>3, <1>4, <1>5, <1>6, <1>7, <1>8, <1>9, <1>10, <1>11, <1>12, <1>13, <1>14 DEF Step

-----------------------------------------------------------------------------
(* Runs that begin, fail or are killed, and the system under test *)

LEMMA FailKeeps ==
    ASSUME IInv, NEW r \in Runs, Fail(r)
    PROVE  IInv'
<1>0. /\ Runners /\ TypeOK /\ Shaped /\ Careful /\ Held /\ Over
      /\ RecordTyped /\ TenantsTyped /\ ClusterTyped /\ NotesTyped /\ HistoryTyped
  BY IInvParts, TypeParts DEF Runners, TypeOK
<1>1. todo[r] # << >> /\ r \notin killed /\ Onward(r) /\ Goes(r, AfterError(r))
  BY <1>0, Moves DEF Fail, Running
<1>2. Taken(r, Kinds)
  <2>1. todo[r][1][1] \in Kinds
    BY <1>0, <1>1, FirstStep DEF Steps
  <2> QED
    BY <1>0, <1>1, <2>1, Moves DEF Fail, Taken
<1>3. /\ gaveUp \subseteq gaveUp' /\ gaveUp' \subseteq gaveUp \cup {r}
      /\ todo[r][1][1] \in {"resume", "scale", "lift"} => r \in gaveUp'
  BY DEF Fail
<1>4. UNCHANGED <<command, record, tenants, cluster, notes, begun, killed, meddled, overlapped, quiet>>
  BY DEF Fail
<1>5. HistoryTyped'
  BY <1>0, <1>3, <1>4 DEF HistoryTyped
<1>6. UNCHANGED <<replicas, pod, link>>
  BY <1>4 DEF cluster
<1>7. Careful'
  BY <1>0, <1>1, <1>3, <1>4, <1>6, OrdinaryStep
<1> QED
  BY <1>0, <1>2, <1>4, <1>5, <1>7, SpecialKeeps, PartsUnchanged

\* What is asked of a run is asked of no run that was killed.
LEMMA KillKeeps ==
    ASSUME IInv, NEW r \in Runs, Kill(r)
    PROVE  IInv'
<1>0. /\ TypeOK /\ Shaped /\ Careful /\ Held /\ Over
      /\ RecordTyped /\ TenantsTyped /\ ClusterTyped /\ NotesTyped /\ HistoryTyped
  BY IInvParts, TypeParts
<1>1. UNCHANGED <<command, control, record, tenants, cluster, notes, begun, meddled, gaveUp,
                  overlapped, quiet>>
  BY DEF Kill
<1>2. UNCHANGED <<site, mode, from, todo, failed, accuses, replicas, pod, link>>
  BY <1>1 DEF command, control, cluster
<1>3. RecordTyped' /\ TenantsTyped' /\ ClusterTyped' /\ NotesTyped' /\ Held' /\ Over'
  BY <1>0, <1>1, RecordKept, PartsUnchanged
<1>4. killed' = killed \cup {r}
  BY DEF Kill
<1>5. HistoryTyped'
  BY <1>0, <1>1, <1>4 DEF HistoryTyped
<1>6. TypeOK'
  BY <1>0, <1>2, <1>3, <1>5, TypePartsNext DEF TypeOK
<1>7. Shaped'
  BY <1>0, <1>1, <1>2 DEF Shaped
<1>8. ASSUME NEW q \in Runs
      PROVE  /\ Running(q)' => Running(q)
             /\ Gone(q) => Gone(q)'
             /\ Running(q) => Running(q)' \/ Gone(q)'
  BY <1>1, <1>2, <1>4 DEF Running, Gone
<1>9. Stopped' /\ Silent'
  BY <1>0, <1>1, <1>2, <1>8 DEF Careful, Stopped, Silent
<1>10. Paused'
  BY <1>0, <1>1, <1>2, <1>8 DEF Careful, Paused, Pausing
<1>11. Blocked'
  BY <1>0, <1>2, <1>8 DEF Careful, Blocked
<1> QED
  BY <1>3, <1>6, <1>7, <1>9, <1>10, <1>11 DEF IInv

LEMMA BeginKeeps ==
    ASSUME IInv, NEW r \in Runs, Begin(r)
    PROVE  IInv'
<1> DEFINE c == from[r] # NoRun
           x == Script(mode[r], site, c)
<1>0. /\ Runners /\ TypeOK /\ Shaped /\ Careful /\ Held /\ Over
      /\ RecordTyped /\ TenantsTyped /\ ClusterTyped /\ NotesTyped /\ HistoryTyped
  BY IInvParts, TypeParts DEF Runners, TypeOK
<1>1. UNCHANGED <<command, failed, accuses, record, tenants, cluster, notes, killed, meddled,
                  gaveUp, quiet>>
  BY DEF Begin
<1>2. UNCHANGED <<site, mode, from, replicas, pod, link>>
  BY <1>1 DEF command, cluster
<1>3. RecordTyped' /\ TenantsTyped' /\ ClusterTyped' /\ NotesTyped' /\ Held' /\ Over'
  BY <1>0, <1>1, RecordKept, PartsUnchanged
<1>4. begun' = begun \cup {r} /\ overlapped' \subseteq Runs
  BY <1>0 DEF Begin, HistoryTyped, Others
<1>5. HistoryTyped'
  BY <1>0, <1>1, <1>4 DEF HistoryTyped
<1>6. x \in Seq(StepsOf(c)) /\ Shape(x) /\ (Ahead(x, 4) => Ahead(x, 2) /\ Ahead(x, 3))
  <2>1. mode[r] \in Modes /\ site \in Sites /\ c \in BOOLEAN
    BY <1>0 DEF TypeOK
  <2> QED
    BY <2>1, ScriptShape DEF Whole
<1>7. todo' = [todo EXCEPT ![r] = x]
  BY DEF Begin
<1> HIDE DEF x
<1>8. todo'[r] = x /\ \A q \in Runs \ {r} : todo'[q] = todo[q]
  BY <1>0, <1>7 DEF Runners
<1>9. todo' \in [Runs -> Seq(Steps)]
  <2>1. x \in Seq(Steps)
    BY <1>6 DEF StepsOf
  <2> QED
    BY <1>0, <1>7, <2>1 DEF TypeOK
<1>10. TypeOK'
  BY <1>0, <1>1, <1>2, <1>3, <1>5, <1>9, TypePartsNext DEF TypeOK
<1>11. Shaped'
  <2> SUFFICES ASSUME NEW q \in Runs
               PROVE  /\ todo'[q] \in Seq(StepsOf(from'[q] # NoRun)) /\ Shape(todo'[q])
                      /\ todo'[q] # << >> => q \in begun'
    BY DEF Shaped
  <2>1. CASE q = r
    BY <1>2, <1>4, <1>6, <1>8, <2>1
  <2>2. CASE q # r
    BY <1>0, <1>2, <1>4, <1>8, <2>2 DEF Shaped
  <2> QED
    BY <2>1, <2>2
<1>12. todo[r] = << >> /\ ~ Running(r)
  BY <1>0 DEF Begin, Shaped, Running
<1>13. \A q \in Runs \ {r} : Running(q)' <=> Running(q)
  BY <1>1, <1>8 DEF Running
<1>14. \A q \in Runs : Running(q) => q # r
  BY <1>12
<1>15. Stopped' /\ Silent'
  <2> SUFFICES ASSUME NEW q \in Runs, Running(q)', Ahead(todo'[q], 4)
               PROVE  /\ ~ Ahead(todo'[q], 2) => meddled' \/ replicas' = 0
                      /\ ~ Ahead(todo'[q], 3) => meddled' \/ (q \in quiet' /\ ~ pod')
    BY DEF Stopped, Silent
  <2>1. CASE q = r
    BY <1>6, <1>8, <2>1
  <2>2. CASE q # r
    <3>1. todo'[q] = todo[q] /\ Running(q)
      BY <1>8, <1>13, <2>2
    <3> QED
      BY <1>0, <1>1, <1>2, <3>1 DEF Careful, Stopped, Silent
  <2> QED
    BY <2>1, <2>2
<1>16. \A q \in Runs : Gone(q)' <=> Gone(q)
  BY <1>1 DEF Gone
<1>17. \A q \in Runs : Pausing(q) => Pausing(q)'
  BY <1>8, <1>13, <1>14 DEF Pausing
<1>18. Paused'
  BY <1>0, <1>1, <1>2, <1>16, <1>17 DEF Careful, Paused
<1>19. Blocked'
  <2> SUFFICES ASSUME NEW l \in Links, NEW q \in Runs, link'[l] = q
               PROVE  Gone(q)' \/ (Running(q)' /\ Lifting(todo'[q], l))
    BY DEF Blocked
  <2>1. Gone(q) \/ (Running(q) /\ Lifting(todo[q], l))
    BY <1>0, <1>2 DEF Careful, Blocked
  <2>2. Running(q) => Running(q)' /\ todo'[q] = todo[q]
    BY <1>8, <1>13, <1>14
  <2> QED
    BY <1>16, <2>1, <2>2
<1> QED
  BY <1>3, <1>10, <1>11, <1>15, <1>18, <1>19 DEF IInv

LEMMA ServicesKeep ==
    ASSUME IInv, Services
    PROVE  IInv'
<1>0. TenantsTyped /\ ClusterTyped /\ NotesTyped
  BY TypeParts DEF IInv
<1>1. UNCHANGED <<command, control, record, cluster, notes, history>>
  BY DEF Services
<1>2. 1 \in 0..MaxVersion /\ \A n \in 0..MaxVersion : n # 0 => n \in Versions
  BY BoundAssumption DEF Versions
<1>3. TenantsTyped'
  <2>1. ASSUME NEW t, Provision(t) PROVE TenantsTyped'
    BY <1>0, <2>1 DEF Provision, TenantsTyped
  <2>2. ASSUME NEW t \in Names, CreateRecord(t) PROVE TenantsTyped'
    BY <1>0, <1>2, <2>2 DEF CreateRecord, TenantsTyped
  <2>3. ASSUME NEW t \in Names, ReportRecord(t) PROVE TenantsTyped'
    BY <1>0, <2>3 DEF ReportRecord, TenantsTyped
  <2>4. ASSUME NEW t \in Names, Apply(t) PROVE TenantsTyped'
    BY <1>0, <2>4 DEF Apply, TenantsTyped
  <2>5. ASSUME NEW t \in Names, Report(t) PROVE TenantsTyped'
    <3>1. applied[t] \in Versions
      BY <1>0, <1>2, <2>5 DEF Report, TenantsTyped
    <3> QED
      BY <1>0, <2>5, <3>1 DEF Report, TenantsTyped
  <2> QED
    BY <2>1, <2>2, <2>3, <2>4, <2>5 DEF Services
<1>4. ClusterTyped' /\ NotesTyped'
  BY <1>0, <1>1, PartsUnchanged
<1>5. UNCHANGED <<replicas, pod, link>>
  BY <1>1 DEF cluster
<1> QED
  BY <1>1, <1>3, <1>4, <1>5, Undisturbed

\* Without replicas no pod comes back.
LEMMA PodKeeps ==
    ASSUME IInv, PodFollows
    PROVE  IInv'
<1>0. TypeOK /\ Shaped /\ Careful /\ HistoryTyped /\ TenantsTyped /\ ClusterTyped /\ NotesTyped
  BY IInvParts, TypeParts
<1>1. UNCHANGED <<command, control, record, tenants, replicas, api, link, notes, begun, killed,
                  meddled, gaveUp, overlapped>>
  BY DEF PodFollows
<1>2. pod' = (replicas # 0) /\ pod' # pod
  BY DEF PodFollows
<1>3. TenantsTyped' /\ NotesTyped'
  BY <1>0, <1>1, PartsUnchanged
<1>4. ClusterTyped'
  <2>1. pod' \in BOOLEAN
    BY <1>2
  <2> QED
    BY <1>0, <1>1, <2>1 DEF ClusterTyped
<1>5. quiet' \subseteq Runs /\ meddled' \in BOOLEAN
  BY <1>0, <1>1 DEF PodFollows, HistoryTyped
<1>6. /\ TypeOK' /\ Shaped' /\ Held' /\ Over'
      /\ todo' = todo /\ SameRuns
  BY <1>1, <1>3, <1>4, <1>5, SystemKeeps
<1>7. Stopped'
  BY <1>0, <1>1, <1>6 DEF SameRuns, Careful, Stopped
<1>8. Silent'
  <2> SUFFICES ASSUME NEW q \in Runs, Running(q), Ahead(todo[q], 4), ~ Ahead(todo[q], 3), ~ meddled
               PROVE  FALSE
    BY <1>1, <1>6 DEF SameRuns, Silent
  <2>1. todo[q] \in Seq(StepsOf(from[q] # NoRun)) /\ Shape(todo[q])
    BY <1>0 DEF Shaped
  <2>2. ~ Ahead(todo[q], 2)
    BY <2>1, PauseOrder
  <2>3. replicas = 0
    BY <1>0, <2>2 DEF SameRuns, Careful, Stopped
  <2>4. ~ pod
    BY <1>0 DEF Careful, Silent
  <2>5. pod' = FALSE
    BY <1>2, <2>3
  <2>6. pod = FALSE
    BY <1>0, <2>4 DEF ClusterTyped
  <2> QED
    BY <1>2, <2>5, <2>6
<1>9. Paused' /\ Blocked'
  BY <1>0, <1>1, <1>6 DEF SameRuns, Careful, Paused, Blocked
<1> QED
  BY <1>6, <1>7, <1>8, <1>9 DEF IInv

LEMMA HandKeeps ==
    ASSUME IInv, ScaleByHand
    PROVE  IInv'
<1>0. TypeOK /\ Careful /\ HistoryTyped /\ TenantsTyped /\ ClusterTyped /\ NotesTyped
  BY IInvParts, TypeParts
<1>1. UNCHANGED <<command, control, record, tenants, pod, api, link, notes, begun, killed, gaveUp,
                  overlapped, quiet>>
  BY DEF ScaleByHand
<1>2. meddled' = TRUE /\ replicas' \in 0..2
  BY DEF ScaleByHand
<1>3. TenantsTyped' /\ NotesTyped' /\ ClusterTyped'
  BY <1>0, <1>1, <1>2, PartsUnchanged DEF ClusterTyped
<1>4. quiet' \subseteq Runs /\ meddled' \in BOOLEAN
  BY <1>0, <1>1, <1>2 DEF HistoryTyped
<1>5. /\ TypeOK' /\ Shaped' /\ Held' /\ Over'
      /\ todo' = todo /\ SameRuns
  BY <1>1, <1>3, <1>4, SystemKeeps
<1>6. Stopped' /\ Silent' /\ Paused'
  BY <1>2 DEF Stopped, Silent, Paused
<1>7. Blocked'
  BY <1>0, <1>1, <1>5 DEF SameRuns, Careful, Blocked
<1> QED
  BY <1>5, <1>6, <1>7 DEF IInv

LEMMA InitHolds ==
    ASSUME Init
    PROVE  IInv
<1>1. \A r \in Runs : todo[r] = << >> /\ ~ Running(r)
  BY DEF Init, Running
<1>2. 1 \in 0..MaxVersion /\ 0 \in 0..MaxVersion /\ 1 \in Versions
  BY BoundAssumption DEF Versions
<1>3. NoEvent \in Steps
  <2>1. "save" \in Kinds /\ "none" \in Events
    BY DEF Kinds, Events
  <2> QED
    BY <2>1 DEF NoEvent, Save, Steps
<1>4. RecordTyped
  <2>1. [outcome |-> "none", saved |-> NoEvent] \in
            [outcome : {"none", "running", "passed", "failed"}, saved : Steps]
    BY <1>3
  <2>2. journal = [r \in Runs |-> [outcome |-> "none", saved |-> NoEvent]]
    BY DEF Init
  <2>3. claimed = {} /\ stale = {} /\ held = {}
    BY DEF Init
  <2> QED
    BY <2>1, <2>2, <2>3 DEF RecordTyped
<1>5. TenantsTyped
  <2>1. PICK existing \in {{}, Active(site)} :
            /\ row = [t \in Names \cup {Sentinel} |-> IF t \in existing THEN "built" ELSE "none"]
            /\ ready = existing
            /\ desired = [t \in Names |-> IF t \in existing THEN 1 ELSE 0]
            /\ applied = desired
            /\ reports = [t \in Names |-> IF t \in existing THEN {1} ELSE {}]
    BY DEF Init
  <2>2. existing \subseteq Names
    BY DEF Active, Names, Shared
  <2> QED
    BY <1>2, <2>1, <2>2 DEF TenantsTyped
<1>6. ClusterTyped
  <2>1. replicas = 1 /\ pod = TRUE /\ api = TRUE /\ link = [l \in Links |-> NoRun]
    BY DEF Init
  <2> QED
    BY <2>1 DEF ClusterTyped
<1>7. NotesTyped
  <2>1. /\ base = [r \in Runs |-> [t \in Names |-> 0]] /\ asked = {} /\ known = {} /\ told = {}
        /\ polled = {}
        /\ shot = [r \in Runs |-> [t \in Names |-> {}]]
    BY DEF Init
  <2> QED
    BY <1>2, <2>1 DEF NotesTyped
<1>8. HistoryTyped
  BY DEF Init, HistoryTyped
<1>9. /\ site \in Sites /\ mode \in [Runs -> Modes] /\ from \in [Runs -> Runs \cup {NoRun}]
      /\ todo = [r \in Runs |-> << >>] /\ failed = {} /\ accuses = {}
  BY DEF Init
<1>10. TypeOK
  BY <1>4, <1>5, <1>6, <1>7, <1>8, <1>9, TypeParts
<1>11. Shaped
  BY <1>1, NothingShape DEF Shaped
<1>12. Held /\ Over
  BY DEF Init, Held, Over
<1>13. Stopped /\ Silent
  BY <1>1 DEF Stopped, Silent
<1>14. Paused
  BY DEF Init, Paused
<1>15. Blocked
  BY RunsAssumption DEF Init, Blocked
<1> QED
  BY <1>10, <1>11, <1>12, <1>13, <1>14, <1>15 DEF IInv

LEMMA NextKeeps ==
    ASSUME IInv, [Next]_vars
    PROVE  IInv'
<1>1. CASE \E r \in Runs : Begin(r) \/ Step(r) \/ Fail(r) \/ Kill(r)
  BY <1>1, BeginKeeps, StepKeeps, FailKeeps, KillKeeps
<1>2. CASE Services \/ PodFollows \/ ScaleByHand
  BY <1>2, ServicesKeep, PodKeeps, HandKeeps
<1>3. CASE ApiReturns \/ ControlPolls \/ UNCHANGED vars
  <2>1. TenantsTyped /\ ClusterTyped /\ NotesTyped
    BY TypeParts DEF IInv
  <2>2. UNCHANGED <<command, control, record, tenants, history, replicas, pod, link>>
    BY <1>3 DEF ApiReturns, ControlPolls, vars, cluster
  <2>3. ClusterTyped'
    BY <1>3, <2>1, <2>2 DEF ApiReturns, ControlPolls, vars, cluster, ClusterTyped
  <2>4. NotesTyped'
    BY <1>3, <2>1 DEF ApiReturns, ControlPolls, vars, notes, NotesTyped
  <2> QED
    BY <2>1, <2>2, <2>3, <2>4, PartsUnchanged, Undisturbed
<1> QED
  BY <1>1, <1>2, <1>3 DEF Next

LEMMA Invariance == Spec => []IInv
<1>1. Init => IInv
  BY InitHolds
<1>2. IInv /\ [Next]_vars => IInv'
  BY NextKeeps
<1> QED
  BY <1>1, <1>2, PTL DEF Spec

LEMMA ReadinessFollows ==
    ASSUME IInv
    PROVE  ReadinessIsProved
<1> SUFFICES ASSUME NEW r \in Runs, Takes(r, "save"), Detail(r) = Proved, Guarded(r)
             PROVE  r \in quiet \/ meddled
  BY DEF ReadinessIsProved, Proved
<1> DEFINE s == todo[r]
           c == from[r] # NoRun
<1>1. s \in Seq(StepsOf(c)) /\ Shape(s) /\ s # << >> /\ Running(r)
  BY DEF IInv, Shaped, Takes, Running
<1>2. s[1][1] = "save" /\ s[1][3] = Proved
  BY DEF Takes, Detail
<1> HIDE DEF s, c
<1>3. Rank(s[1]) = 4
  BY <1>2 DEF Rank
<1>4. 1 \in 1..Len(s)
  BY <1>1
<1>5. Ahead(s, 4)
  BY <1>3, <1>4 DEF Ahead
<1>6. ~ Ahead(s, 3)
  BY <1>1, <1>3, PauseOrder
<1> QED
  BY <1>1, <1>5, <1>6 DEF IInv, Silent, s

LEMMA NothingLeftFollows ==
    ASSUME IInv
    PROVE  NothingLeftBehind
<1>1. ASSUME replicas = 0, ~ meddled
      PROVE  \E r \in Runs : InPause(r) \/ r \in killed \/ r \in gaveUp
  <2>1. PICK r \in Runs : Gone(r) \/ Pausing(r)
    BY <1>1 DEF IInv, Paused
  <2>2. Pausing(r) => InPause(r)
    BY AheadIsPause DEF IInv, Pausing
  <2> QED
    BY <2>1, <2>2 DEF Gone
<1>2. ASSUME NEW l \in Links, link[l] # NoRun
      PROVE  \/ link[l] \in killed \cup gaveUp
             \/ Running(link[l]) /\ \E i \in DOMAIN todo[link[l]] : Closing(link[l], i)
  <2> DEFINE q == link[l]
  <2>1. q \in Runs
    BY <1>2 DEF IInv, TypeOK
  <2>2. todo[q] \in Seq(StepsOf(from[q] # NoRun))
    BY <2>1 DEF IInv, Shaped
  <2>3. Gone(q) \/ (Running(q) /\ Lifting(todo[q], l))
    BY <2>1 DEF IInv, Blocked
  <2>4. ASSUME NEW k \in 1..Len(todo[q]), LiftAt(todo[q], l, k) PROVE Closing(q, k)
    BY <2>4 DEF LiftAt, Closing, Closes
  <2>5. DOMAIN todo[q] = 1..Len(todo[q])
    BY <2>2
  <2> QED
    BY <2>3, <2>4, <2>5 DEF Gone, Lifting
<1> QED
  BY <1>1, <1>2 DEF NothingLeftBehind

-----------------------------------------------------------------------------

\* Every state the harness, its runs and the system reach has its type.
THEOREM TypeCorrect == Spec => []TypeOK
<1>1. IInv => TypeOK
  BY DEF IInv
<1> QED
  BY <1>1, Invariance, PTL

\* The readiness of a child that no reconciler served is recorded only when that is
\* what the run saw: since it drained the reconciler none was there, unless somebody
\* changed its replicas by hand or another run did, in its own pause.
THEOREM ReadinessRecordedIsProved == Spec => []ReadinessIsProved
<1>1. IInv => ReadinessIsProved
  BY ReadinessFollows
<1> QED
  BY <1>1, Invariance, PTL

\* Whatever becomes of a run, what it paused or blocked is undone by the rest of its
\* own script, unless it was killed or failed while it undid it.
THEOREM CleanupIsAhead == Spec => []NothingLeftBehind
<1>1. IInv => NothingLeftBehind
  BY NothingLeftFollows
<1> QED
  BY <1>1, Invariance, PTL

\* Most steps leave the journals alone.
LEMMA QuietSteps ==
    ASSUME NEW r \in Runs, Step(r),
           ~ (SaveEvent(r) \/ Finish(r) \/ LoadFirstAdmission(r) \/ ClaimContinuation(r))
    PROVE  UNCHANGED record
  BY DEF Step, Absent, Post, Repeat, AlreadySucceeded, BusyWindow, AskWhileBusy, AwaitReady,
         WaitOperation, NotFound, Continued, Rejected, AskControl, AskData, Put, ReadVersion,
         ReadCounter, Count, Tallied, Collected, Same, Mark, Survived, Pause, Stop, Drain,
         PendingWhilePaused, Resume, Scale, Rollout, Guard, Block, Sample, RestartDataApi,
         Replaced, Unapplied, Lift, ReadTimeline, Untold, Recovered, LatestOnly,
         VerifyWorkload, Looks, Sees

\* A run writes only a journal that nobody claimed; a claim names a journal that was
\* read and may be continued, and leaves its record alone.
LEMMA ClaimedStays ==
    ASSUME IInv, [Next]_vars
    PROVE  ContinuedStays
<1>0. /\ claimed \subseteq stale /\ Held /\ TypeOK
      /\ journal \in [Runs -> [outcome : {"none", "running", "passed", "failed"}, saved : Steps]]
  BY DEF IInv, Over, TypeOK
<1>1. CASE UNCHANGED <<journal, claimed>>
  BY <1>1 DEF ContinuedStays
<1>2. ASSUME NEW r \in Runs, r \notin stale, NEW o, NEW x, Write(r, o, x), claimed' = claimed
      PROVE  ContinuedStays
  BY <1>0, <1>2 DEF Write, ContinuedStays
<1>3. ASSUME NEW r \in Runs, SaveEvent(r) \/ Finish(r) PROVE ContinuedStays
  BY <1>1, <1>2, <1>3 DEF SaveEvent, Finish, Guarded
<1>4. ASSUME NEW r \in Runs, ClaimContinuation(r) PROVE ContinuedStays
  BY <1>0, <1>1, <1>4 DEF ClaimContinuation, Held, ContinuedStays
<1>5. ASSUME NEW r \in Runs, Step(r), ~ (SaveEvent(r) \/ Finish(r) \/ ClaimContinuation(r))
      PROVE  UNCHANGED <<journal, claimed>>
  <2>1. CASE LoadFirstAdmission(r)
    BY <2>1 DEF LoadFirstAdmission
  <2>2. CASE ~ LoadFirstAdmission(r)
    <3>1. UNCHANGED record
      BY <1>0, <1>5, <2>2, QuietSteps DEF IInv
    <3> QED
      BY <3>1 DEF record
  <2> QED
    BY <2>1, <2>2
<1>6. CASE \E r \in Runs : Begin(r) \/ Fail(r) \/ Kill(r)
  BY <1>1, <1>6 DEF Begin, Fail, Kill, record
<1>7. CASE Services \/ PodFollows \/ ApiReturns \/ ControlPolls \/ ScaleByHand \/ UNCHANGED vars
  BY <1>1, <1>7 DEF Services, PodFollows, ApiReturns, ControlPolls, ScaleByHand, vars, record
<1>8. CASE \E r \in Runs : Step(r)
  BY <1>1, <1>3, <1>4, <1>5, <1>8
<1> QED
  BY <1>6, <1>7, <1>8 DEF Next

\* A journal that a continuation claimed is not written any more, neither with an event
\* nor with an outcome, and was one that may be continued when it was claimed.
THEOREM ContinuedJournalIsOver == Spec => ContinuedIsOver
<1>1. IInv /\ [Next]_vars => ContinuedStays
  BY ClaimedStays
<1>2. IInv /\ [Next]_vars => [ContinuedStays]_vars
  BY <1>1
<1>3. Spec => []IInv
  BY Invariance
<1> QED
  BY <1>2, <1>3, PTL DEF Spec, ContinuedIsOver

-----------------------------------------------------------------------------
(* The fault helper *)


Committed(r) == [run |-> r, attempted |-> TRUE, restored |-> FALSE, sealed |-> TRUE]

\* a run holds its own record, a restorer is nowhere but in a restoration
Roles ==
    /\ \A r \in FaultRuns : holds[r] = r
    /\ \A q \in Restorers : pc[q] \in {"idle"} \cup Fault!Restoring \cup Fault!Closing

Removing == {"looking", "deleting", "confirming", "probing", "saving", "saved"}

\* what a helper remembers of the seal, where it matters
Memory ==
    /\ \A h \in Fault!Helpers : /\ pc[h] = "cancelling" => seen[h] = "unsealed"
                                /\ pc[h] = "reusing" => seen[h] = "sealed"
                                /\ pc[h] \in Removing => seen[h] # "unsealed"
    /\ \A h \in Fault!Helpers : h \in current => faultJournal # NoJournal
    /\ \A h \in Fault!Helpers : seen[h] = "unsealed" /\ h \in current =>
          faultJournal.run = holds[h] /\ ~faultJournal.attempted /\ ~faultJournal.sealed

\* the journal belongs to a run that has begun it
Started ==
    faultJournal # NoJournal =>
        pc[faultJournal.run] \notin {"idle", "cleared", "creatingJournal", "reusing"}

\* from its first write on the journal is the run's own, until it restores or dies
Owns == \A r \in FaultRuns :
    /\ pc[r] = "sealing" => faultJournal = Fault!Preparing(r, FALSE)
    /\ pc[r] = "planning" => faultJournal = Fault!Preparing(r, TRUE)
    /\ pc[r] \in {"committed", "creating", "blocking"} => faultJournal = Committed(r)

\* an attempt is only in a journal that was sealed
Sane == faultJournal # NoJournal => (faultJournal.attempted => faultJournal.sealed)

Reusable == \A r \in FaultRuns : pc[r] = "reusing" /\ r \in current => faultJournal.restored

\* a restorer that may still write has the record of a run that has ended
Loaded == \A q \in Restorers :
    pc[q] # "idle" /\ q \in current => holds[q] = faultJournal.run /\
        pc[faultJournal.run] = "ended"

\* nothing is left of a fault that is about to be recorded as restored
Nothing == \A h \in Fault!Helpers :
    pc[h] = "saving" /\ h \in current /\ faultJournal.run = holds[h] => policies = {}

FaultInv == /\ Fault!TypeOK /\ Roles /\ Memory /\ Started /\ Sane /\ Owns /\ Reusable /\ Loaded
            /\ Nothing /\ Fault!FaultIsJournalled

-----------------------------------------------------------------------------
(* What the helpers of the actions do *)

\* the steps of h leave the other helpers alone
OthersStay(h) == \A g \in Fault!Helpers \ {h} :
    pc'[g] = pc[g] /\ holds'[g] = holds[g] /\ plan'[g] = plan[g] /\ seen'[g] = seen[g]

\* h is where it no longer changes the cluster before it looked again, or gone
Lands(h) ==
    \/ /\ pc'[h] = "restoring" /\ h \in FaultRuns
       /\ pc[h] \in Fault!Writing \ {"creatingJournal"}
       /\ UNCHANGED Fault!memory
    \/ pc'[h] = "failing" /\ pc[h] \in Fault!Restoring /\ UNCHANGED Fault!memory
    \/ /\ pc'[h] = IF h \in FaultRuns THEN "ended" ELSE "idle"
       /\ pc[h] \notin {"idle", "ended"}
       /\ holds'[h] = IF h \in FaultRuns THEN h ELSE NoFaultRun
       /\ seen'[h] = "none" /\ plan'[h] = "none"

Places == {"idle", "cleared", "ended"} \cup Fault!Writing \cup Fault!Restoring \cup Fault!Closing

MemoryOK ==
    /\ pc \in [Fault!Helpers -> Places]
    /\ holds \in [Fault!Helpers -> FaultRuns \cup {NoFaultRun}]
    /\ plan \in [Fault!Helpers -> {"none", "planned", "attempted"}]
    /\ seen \in [Fault!Helpers -> {"none", "unsealed", "sealed"}]

LEMMA GoMoves ==
    ASSUME MemoryOK, NEW h \in Fault!Helpers,
           NEW place \in Places,
           Fault!Go(h, place)
    PROVE  /\ pc' \in [Fault!Helpers -> Places]
           /\ pc'[h] = place
           /\ \A g \in Fault!Helpers \ {h} : pc'[g] = pc[g]
  BY DEF MemoryOK, Places, Fault!Go

LEMMA EndMoves ==
    ASSUME MemoryOK, NEW h \in Fault!Helpers, pc[h] \notin {"idle", "ended"}, Fault!End(h)
    PROVE  MemoryOK' /\ OthersStay(h) /\ Lands(h)
  BY HelpersAssumption DEF MemoryOK, Places, Fault!End, Fault!Go, OthersStay, Lands, Fault!Helpers

LEMMA FailMoves ==
    ASSUME MemoryOK, Roles, NEW h \in Fault!Helpers, Fault!Fail(h)
    PROVE  MemoryOK' /\ OthersStay(h) /\ Lands(h)
<1> USE DEF Fault!Writing, Fault!Restoring, Fault!Closing, Removing
<1>1. CASE pc[h] \in Fault!Writing \ {"creatingJournal"} /\ Fault!Go(h, "restoring") /\
               UNCHANGED Fault!memory
  <2>1. h \in FaultRuns
    BY <1>1 DEF Roles, Fault!Helpers
  <2> QED
    BY <1>1, <2>1 DEF MemoryOK, Places, Fault!Go, OthersStay, Lands, Fault!memory
<1>2. CASE pc[h] \in Fault!Restoring /\ Fault!Go(h, "failing") /\ UNCHANGED Fault!memory
  BY <1>2 DEF MemoryOK, Places, Fault!Go, OthersStay, Lands, Fault!memory
<1>3. CASE /\ \/ pc[h] \in Fault!Closing \cup {"cleared", "creatingJournal"}
              \/ pc[h] = "restoring" /\ seen[h] = "unsealed"
           /\ Fault!End(h)
  BY <1>3, EndMoves
<1> QED
  BY <1>1, <1>2, <1>3 DEF Fault!Fail

LEMMA FaultInitInv == Fault!Init => FaultInv
  BY HelpersAssumption DEF Fault!Init, FaultInv, Fault!TypeOK, Roles, Memory, Started, Sane,
     Owns, Reusable, Loaded, Nothing, Fault!FaultIsJournalled, Fault!Helpers, Fault!Writing,
     Fault!Restoring, Fault!Closing

-----------------------------------------------------------------------------
(* Steps that change neither the journal nor who has seen it *)

\* an error, an end or a crash
LEMMA LandingKeeps ==
    ASSUME FaultInv, MemoryOK', NEW h \in Fault!Helpers, OthersStay(h), Lands(h),
           UNCHANGED <<Fault!cluster, current>>
    PROVE  FaultInv'
<1> USE DEF Fault!Writing, Fault!Restoring, Fault!Closing, Removing, Fault!cluster, Fault!memory
<1>1. Fault!TypeOK'
  BY DEF FaultInv, Fault!TypeOK, MemoryOK, Places
<1>2. Roles'
  BY HelpersAssumption DEF FaultInv, Roles, OthersStay, Lands, Fault!Helpers
<1>3. Memory'
  BY HelpersAssumption DEF FaultInv, Memory, OthersStay, Lands, Fault!Helpers
<1>4. Started' /\ Sane'
  BY HelpersAssumption DEF FaultInv, Fault!TypeOK, Fault!Records, Started, Sane, OthersStay,
     Lands, Fault!Helpers
<1>5. Owns' /\ Reusable'
  BY HelpersAssumption DEF FaultInv, Owns, Reusable, OthersStay, Lands, Fault!Helpers,
     Fault!Preparing, Committed
<1>6. Loaded'
  <2> SUFFICES ASSUME NEW q \in Restorers, pc'[q] # "idle", q \in current
               PROVE  holds'[q] = faultJournal.run /\ pc'[faultJournal.run] = "ended"
    BY DEF Loaded
  <2>1. pc[q] # "idle" /\ holds'[q] = holds[q]
    BY HelpersAssumption DEF OthersStay, Lands, Fault!Helpers
  <2>2. holds[q] = faultJournal.run /\ pc[faultJournal.run] = "ended" /\ faultJournal # NoJournal
    BY <2>1 DEF FaultInv, Loaded, Memory, Fault!Helpers
  <2>3. faultJournal.run \in Fault!Helpers
    BY <2>2 DEF FaultInv, Fault!TypeOK, Fault!Records, Fault!Helpers
  <2> QED
    BY <2>1, <2>2, <2>3, HelpersAssumption DEF OthersStay, Lands, Fault!Helpers, FaultInv, Roles
<1>7. Nothing' /\ Fault!FaultIsJournalled'
  BY HelpersAssumption DEF FaultInv, Nothing, Fault!FaultIsJournalled, OthersStay, Lands,
     Fault!Helpers
<1> QED
  BY <1>1, <1>2, <1>3, <1>4, <1>5, <1>6, <1>7 DEF FaultInv

\* a step of h that only reads; what it may conclude are the assumptions
LEMMA WalkKeeps ==
    ASSUME FaultInv, MemoryOK', NEW h \in Fault!Helpers, OthersStay(h),
           UNCHANGED <<Fault!cluster, current, holds, seen>>,
           pc[h] # "ended", pc'[h] \notin {"idle", "reusing"},
           h \in Restorers => pc[h] # "idle" /\ pc'[h] \in Fault!Restoring \cup Fault!Closing,
           pc'[h] = "cancelling" => seen[h] = "unsealed",
           pc'[h] \in Removing => seen[h] # "unsealed",
           pc'[h] = "saving" => policies = {},
           pc'[h] \in {"sealing", "planning"} => pc'[h] = pc[h],
           pc'[h] \in {"committed", "creating", "blocking"} =>
               pc[h] \in {"committed", "creating", "blocking"},
           pc'[h] \in {"cleared", "creatingJournal"} => pc[h] \in {"idle", "cleared"}
    PROVE  FaultInv'
<1> USE DEF Fault!cluster
<1>1. Fault!TypeOK' /\ Roles'
  BY HelpersAssumption DEF FaultInv, Fault!TypeOK, MemoryOK, Places, Roles, Fault!Helpers,
     OthersStay
<1>2. Memory'
  BY DEF FaultInv, Memory, OthersStay, Fault!Helpers
<1>3. Started' /\ Sane'
  BY DEF FaultInv, Started, Sane, Fault!TypeOK, Fault!Records, OthersStay, Fault!Helpers
<1>4. Owns' /\ Reusable'
  BY DEF FaultInv, Owns, Reusable, OthersStay, Fault!Helpers, Fault!Preparing, Committed
<1>5. Loaded'
  <2> SUFFICES ASSUME NEW q \in Restorers, pc'[q] # "idle", q \in current
               PROVE  holds[q] = faultJournal.run /\ pc'[faultJournal.run] = "ended"
    BY DEF Loaded
  <2>1. pc[q] # "idle"
    BY DEF OthersStay, Fault!Helpers
  <2>2. holds[q] = faultJournal.run /\ pc[faultJournal.run] = "ended" /\ faultJournal # NoJournal
    BY <2>1 DEF FaultInv, Loaded, Memory, Fault!Helpers
  <2>3. faultJournal.run \in Fault!Helpers \ {h}
    BY <2>2 DEF FaultInv, Fault!TypeOK, Fault!Records, Fault!Helpers
  <2> QED
    BY <2>2, <2>3 DEF OthersStay
<1>6. Nothing' /\ Fault!FaultIsJournalled'
  BY DEF FaultInv, Nothing, Fault!FaultIsJournalled, OthersStay, Fault!Helpers
<1> QED
  BY <1>1, <1>2, <1>3, <1>4, <1>5, <1>6 DEF FaultInv

\* the parts of the invariant that the lemmas above start from
LEMMA FaultParts == FaultInv => MemoryOK /\ Roles
  BY DEF FaultInv, Fault!TypeOK, MemoryOK, Places

LEMMA ReadingKeeps ==
    ASSUME FaultInv, NEW h \in Fault!Helpers,
           \/ Fault!BeginRestore(h) \/ Fault!LookForFault(h) \/ Fault!ConfirmRemoved(h) \/
                  Fault!ProbeLink(h)
           \/ h \in FaultRuns /\
                  (Fault!PrepareFault(h) \/ Fault!PlanFault(h) \/ Fault!CheckCommitted(h))
    PROVE  FaultInv'
<1> USE DEF Fault!Writing, Fault!Restoring, Fault!Closing, Removing
<1>1. MemoryOK /\ Roles /\ Fault!TypeOK
  BY FaultParts DEF FaultInv
<1>2. CASE Fault!BeginRestore(h)
  <2>1. CASE Fault!Fail(h) /\ UNCHANGED <<Fault!cluster, current>>
    BY <1>1, <2>1, FailMoves, LandingKeeps
  <2>2. CASE /\ \/ Fault!Go(h, "cancelling") /\ seen[h] = "unsealed"
                \/ (Fault!Go(h, "looking") \/ Fault!Go(h, "probing")) /\ seen[h] # "unsealed"
             /\ UNCHANGED <<Fault!cluster, current, Fault!memory>>
    <3>1. MemoryOK' /\ OthersStay(h) /\ pc'[h] \in {"cancelling", "looking", "probing"}
          /\ (pc'[h] = "cancelling" <=> seen[h] = "unsealed")
      BY <1>1, <2>2 DEF MemoryOK, Places, Fault!Go, OthersStay, Fault!memory
    <3> QED
      BY <1>2, <2>2, <3>1, WalkKeeps DEF Fault!BeginRestore, Fault!memory
  <2> QED
    BY <1>2, <2>1, <2>2 DEF Fault!BeginRestore
<1>3. CASE Fault!LookForFault(h)
  <2>1. CASE Fault!Fail(h) /\ UNCHANGED <<Fault!cluster, current>>
    BY <1>1, <2>1, FailMoves, LandingKeeps
  <2>2. CASE (Fault!Go(h, "confirming") \/ Fault!Go(h, "deleting")) /\
                 UNCHANGED <<Fault!cluster, current, Fault!memory>>
    <3>1. MemoryOK' /\ OthersStay(h) /\ pc'[h] \in {"confirming", "deleting"}
      BY <1>1, <2>2 DEF MemoryOK, Places, Fault!Go, OthersStay, Fault!memory
    <3> QED
      BY <1>3, <2>2, <3>1, WalkKeeps DEF Fault!LookForFault, Fault!memory, FaultInv, Memory
  <2> QED
    BY <1>3, <2>1, <2>2 DEF Fault!LookForFault
<1>4. CASE Fault!ConfirmRemoved(h) \/ Fault!ProbeLink(h)
  <2>1. CASE Fault!Fail(h) /\ UNCHANGED <<Fault!cluster, current>>
    BY <1>1, <2>1, FailMoves, LandingKeeps
  <2>2. CASE policies = {} /\ (Fault!Go(h, "probing") \/ Fault!Go(h, "saving"))
             /\ UNCHANGED <<Fault!cluster, current, Fault!memory>>
    <3>1. MemoryOK' /\ OthersStay(h) /\ pc'[h] \in {"probing", "saving"}
      BY <1>1, <2>2 DEF MemoryOK, Places, Fault!Go, OthersStay, Fault!memory
    <3> QED
      BY <1>4, <2>2, <3>1, WalkKeeps DEF Fault!ConfirmRemoved, Fault!ProbeLink, Fault!memory,
         FaultInv, Memory
  <2> QED
    BY <1>4, <2>1, <2>2 DEF Fault!ConfirmRemoved, Fault!ProbeLink
<1>5. CASE h \in FaultRuns /\ Fault!PrepareFault(h)
  <2>1. h \notin Restorers
    BY <1>5, HelpersAssumption
  <2>2. MemoryOK' /\ OthersStay(h) /\ pc'[h] \in {"cleared", "ended"}
    BY <1>1, <1>5 DEF Fault!PrepareFault, MemoryOK, Places, Fault!Go, OthersStay, Fault!memory
  <2> QED
    BY <1>5, <2>1, <2>2, WalkKeeps DEF Fault!PrepareFault, Fault!memory
<1>6. CASE h \in FaultRuns /\ Fault!PlanFault(h)
  <2>1. h \notin Restorers
    BY <1>6, HelpersAssumption
  <2>2. MemoryOK' /\ OthersStay(h) /\ pc' = pc
    BY <1>1, <1>6 DEF Fault!PlanFault, MemoryOK, Places, OthersStay
  <2> QED
    BY <1>6, <2>1, <2>2, WalkKeeps DEF Fault!PlanFault
<1>7. CASE h \in FaultRuns /\ Fault!CheckCommitted(h)
  <2>1. CASE Fault!Fail(h) /\ UNCHANGED <<Fault!cluster, current>>
    BY <1>1, <2>1, FailMoves, LandingKeeps
  <2>2. CASE Fault!Go(h, "creating") /\ UNCHANGED <<Fault!cluster, current, Fault!memory>>
    <3>1. h \notin Restorers
      BY <1>7, HelpersAssumption
    <3>2. MemoryOK' /\ OthersStay(h) /\ pc'[h] = "creating"
      BY <1>1, <2>2 DEF MemoryOK, Places, Fault!Go, OthersStay, Fault!memory
    <3> QED
      BY <1>7, <2>2, <3>1, <3>2, WalkKeeps DEF Fault!CheckCommitted, Fault!memory
  <2> QED
    BY <1>7, <2>1, <2>2 DEF Fault!CheckCommitted
<1> QED
  BY <1>2, <1>3, <1>4, <1>5, <1>6, <1>7

\* an error, the end of the fault, an end in time, a crash
LEMMA FailingKeeps ==
    ASSUME FaultInv, NEW h \in Fault!Helpers,
           Fault!CallFails(h) \/ Fault!Crash(h) \/ Fault!Finish(h) \/ Fault!Conflict(h) \/
               (h \in FaultRuns /\ Fault!EndFault(h))
    PROVE  FaultInv'
<1>1. MemoryOK /\ Roles
  BY FaultParts
<1>2. UNCHANGED <<Fault!cluster, current>>
  BY DEF Fault!CallFails, Fault!Crash, Fault!Finish, Fault!Conflict, Fault!EndFault
<1>3. Fault!Fail(h) \/ (pc[h] \notin {"idle", "ended"} /\ Fault!End(h))
  BY DEF Fault!CallFails, Fault!Crash, Fault!Finish, Fault!Conflict, Fault!EndFault
<1>4. MemoryOK' /\ OthersStay(h) /\ Lands(h)
  BY <1>1, <1>3, FailMoves, EndMoves
<1> QED
  BY <1>2, <1>4, LandingKeeps

-----------------------------------------------------------------------------
(* Steps that change the view of the journal, or the policies *)

LEMMA LookForJournalKeeps ==
    ASSUME FaultInv, NEW r \in FaultRuns, Fault!LookForJournal(r)
    PROVE  FaultInv'
<1> USE DEF Fault!Writing, Fault!Restoring, Fault!Closing, Removing
<1>1. MemoryOK /\ Roles /\ Fault!TypeOK
  BY FaultParts DEF FaultInv
<1>2. r \in Fault!Helpers /\ r \notin Restorers /\ pc[r] = "cleared" /\ UNCHANGED Fault!cluster
  BY HelpersAssumption DEF Fault!Helpers, Fault!LookForJournal
<1>3. CASE faultJournal # NoJournal /\ ~faultJournal.sealed /\ Fault!Fail(r) /\ UNCHANGED current
  BY <1>1, <1>2, <1>3, FailMoves, LandingKeeps
<1>4. CASE faultJournal = NoJournal /\ Fault!Go(r, "creatingJournal") /\
               UNCHANGED <<current, Fault!memory>>
  <2>1. MemoryOK' /\ OthersStay(r) /\ pc'[r] = "creatingJournal"
    BY <1>1, <1>2, <1>4 DEF MemoryOK, Places, Fault!Go, OthersStay, Fault!memory
  <2> QED
    BY <1>2, <1>4, <2>1, WalkKeeps DEF Fault!memory
<1>5. CASE /\ faultJournal # NoJournal /\ faultJournal.sealed
           /\ Fault!Go(r, IF faultJournal.restored THEN "reusing" ELSE "restoring")
           /\ current' = current \cup {r}
           /\ seen' = [seen EXCEPT ![r] = "sealed"]
           /\ UNCHANGED <<holds, plan>>
  <2>1. /\ MemoryOK' /\ OthersStay(r) /\ seen'[r] = "sealed"
        /\ pc'[r] \in {"reusing", "restoring"} /\ (pc'[r] = "reusing" => faultJournal.restored)
    BY <1>1, <1>2, <1>5 DEF MemoryOK, Places, Fault!Go, OthersStay
  <2>2. UNCHANGED <<faultJournal, policies>>
    BY <1>2 DEF Fault!cluster
  <2>3. Fault!TypeOK' /\ Roles'
    BY <1>1, <1>2, <1>5, <2>1, <2>2 DEF Fault!TypeOK, MemoryOK, Places, Roles, OthersStay,
       Fault!Helpers
  <2>4. Memory'
    BY <1>2, <1>5, <2>1, <2>2 DEF FaultInv, Memory, OthersStay
  <2>5. faultJournal.run \in FaultRuns /\ faultJournal.run # r
    BY <1>1, <1>2, <1>5 DEF FaultInv, Fault!TypeOK, Fault!Records, Started
  <2>6. Started' /\ Sane' /\ Owns' /\ Reusable'
    BY <1>2, <1>5, <2>1, <2>2, <2>5 DEF FaultInv, Started, Sane, Owns, Reusable, OthersStay,
       Fault!Helpers, Fault!Preparing, Committed
  <2>7. Loaded'
    BY <1>2, <1>5, <2>1, <2>2, <2>5 DEF FaultInv, Loaded, OthersStay, Fault!Helpers
  <2>8. Nothing' /\ Fault!FaultIsJournalled'
    BY <1>2, <1>5, <2>1, <2>2 DEF FaultInv, Nothing, Fault!FaultIsJournalled, OthersStay
  <2> QED
    BY <2>3, <2>4, <2>6, <2>7, <2>8 DEF FaultInv
<1> QED
  BY <1>3, <1>4, <1>5 DEF Fault!LookForJournal

LEMMA LoadJournalKeeps ==
    ASSUME FaultInv, NEW q \in Restorers, Fault!LoadJournal(q)
    PROVE  FaultInv'
<1> USE DEF Fault!Writing, Fault!Restoring, Fault!Closing, Removing
<1>1. MemoryOK /\ Roles /\ Fault!TypeOK
  BY FaultParts DEF FaultInv
<1>2. q \in Fault!Helpers /\ q \notin FaultRuns /\ UNCHANGED <<faultJournal, policies>>
  BY HelpersAssumption DEF Fault!Helpers, Fault!LoadJournal, Fault!cluster
<1>3. /\ MemoryOK' /\ OthersStay(q) /\ pc'[q] = "restoring" /\ holds'[q] = faultJournal.run
      /\ (seen'[q] = "unsealed" => ~faultJournal.sealed) /\ current' = current \cup {q}
  BY <1>1, <1>2 DEF Fault!LoadJournal, MemoryOK, Places, Fault!Go, OthersStay, Fault!TypeOK,
     Fault!Records
<1>4. /\ faultJournal # NoJournal /\ faultJournal.run \in FaultRuns /\ faultJournal.run # q
      /\ pc[faultJournal.run] = "ended" /\ pc'[faultJournal.run] = "ended"
  <2>1. faultJournal # NoJournal /\ faultJournal.run \in FaultRuns
    BY <1>1 DEF Fault!LoadJournal, Fault!TypeOK, Fault!Records
  <2>2. pc[faultJournal.run] = "ended"
    BY <2>1 DEF Fault!LoadJournal, FaultInv, Started
  <2> QED
    BY <1>2, <1>3, <2>1, <2>2 DEF OthersStay, Fault!Helpers
<1>5. faultJournal.sealed \/ ~faultJournal.attempted
  BY <1>4 DEF FaultInv, Sane
<1>6. Fault!TypeOK' /\ Roles'
  BY <1>1, <1>2, <1>3 DEF Fault!TypeOK, MemoryOK, Places, Roles, OthersStay, Fault!Helpers
<1>7. Memory'
  BY <1>2, <1>3, <1>4, <1>5 DEF FaultInv, Memory, OthersStay
<1>8. Started' /\ Owns' /\ Reusable' /\ Sane'
  BY <1>2, <1>3, <1>4 DEF FaultInv, Started, Owns, Reusable, Sane, OthersStay, Fault!Helpers,
     Fault!Preparing, Committed
<1>9. Loaded'
  BY <1>2, <1>3, <1>4 DEF FaultInv, Loaded, OthersStay, Fault!Helpers
<1>10. Nothing' /\ Fault!FaultIsJournalled'
  BY <1>2, <1>3 DEF FaultInv, Nothing, Fault!FaultIsJournalled, OthersStay
<1> QED
  BY <1>6, <1>7, <1>8, <1>9, <1>10 DEF FaultInv

LEMMA CreateFaultKeeps ==
    ASSUME FaultInv, NEW r \in FaultRuns, Fault!CreateFault(r)
    PROVE  FaultInv'
<1> USE DEF Fault!Writing, Fault!Restoring, Fault!Closing, Removing
<1>1. MemoryOK /\ Roles /\ Fault!TypeOK
  BY FaultParts DEF FaultInv
<1>2. r \in Fault!Helpers /\ r \notin Restorers /\ pc[r] = "creating"
      /\ UNCHANGED <<faultJournal, current>> /\ policies' = policies \cup {r}
  BY HelpersAssumption DEF Fault!Helpers, Fault!CreateFault
<1>3. faultJournal = Committed(r) /\ faultJournal.run = r
  <2>1. faultJournal = Committed(r)
    BY <1>2 DEF FaultInv, Owns
  <2> QED
    BY <2>1 DEF Committed
<1>4. /\ MemoryOK' /\ OthersStay(r) /\ UNCHANGED Fault!memory
      /\ pc'[r] \in {"blocking", "restoring"}
  <2>1. CASE Fault!Go(r, "blocking") /\ UNCHANGED Fault!memory
    BY <1>1, <1>2, <2>1 DEF MemoryOK, Places, Fault!Go, OthersStay, Fault!memory
  <2>2. CASE Fault!Fail(r)
    BY <1>1, <1>2, <2>2 DEF MemoryOK, Places, Fault!Fail, Fault!Go, OthersStay, Fault!memory
  <2> QED
    BY <2>1, <2>2 DEF Fault!CreateFault
<1>5. Fault!TypeOK' /\ Roles'
  BY <1>1, <1>2, <1>4 DEF Fault!TypeOK, MemoryOK, Places, Roles, OthersStay, Fault!Helpers,
     Fault!memory
<1>6. Memory' /\ Started' /\ Sane'
  BY <1>2, <1>3, <1>4 DEF FaultInv, Memory, Started, Sane, OthersStay, Fault!memory
<1>7. Owns' /\ Reusable'
  BY <1>2, <1>3, <1>4 DEF FaultInv, Owns, Reusable, OthersStay, Fault!Helpers, Fault!Preparing,
     Committed
<1>8. Loaded'
  BY <1>2, <1>3, <1>4 DEF FaultInv, Loaded, OthersStay, Fault!Helpers, Fault!memory
<1>9. Nothing'
  <2> SUFFICES ASSUME NEW h \in Fault!Helpers, pc'[h] = "saving", h \in current, r = holds[h]
               PROVE  FALSE
    BY <1>2, <1>3, <1>4 DEF Nothing, Fault!memory
  <2>1. h # r /\ pc[h] = "saving"
    BY <1>4 DEF OthersStay
  <2>2. h \in Restorers
    BY <1>1, <2>1 DEF Roles, Fault!Helpers
  <2> QED
    BY <1>2, <1>3, <2>1, <2>2 DEF FaultInv, Loaded
<1>10. Fault!FaultIsJournalled'
  BY <1>2, <1>3 DEF FaultInv, Fault!FaultIsJournalled, Committed
<1> QED
  BY <1>5, <1>6, <1>7, <1>8, <1>9, <1>10 DEF FaultInv

LEMMA DeleteFaultKeeps ==
    ASSUME FaultInv, NEW h \in Fault!Helpers, Fault!DeleteFault(h)
    PROVE  FaultInv'
<1> USE DEF Fault!Writing, Fault!Restoring, Fault!Closing, Removing
<1>1. MemoryOK /\ Roles /\ Fault!TypeOK
  BY FaultParts DEF FaultInv
<1>2. CASE Fault!Fail(h) /\ UNCHANGED <<Fault!cluster, current>>
  BY <1>1, <1>2, FailMoves, LandingKeeps
<1>3. CASE policies' = policies \ {holds[h]} /\ UNCHANGED <<faultJournal, current>>
           /\ (Fault!Fail(h) \/ (Fault!Go(h, "confirming") /\ UNCHANGED Fault!memory))
  <2>1. pc[h] = "deleting"
    BY DEF Fault!DeleteFault
  <2>2. MemoryOK' /\ OthersStay(h) /\ UNCHANGED Fault!memory /\
            pc'[h] \in {"confirming", "failing"}
    <3>1. CASE Fault!Go(h, "confirming") /\ UNCHANGED Fault!memory
      BY <1>1, <2>1, <3>1 DEF MemoryOK, Places, Fault!Go, OthersStay, Fault!memory
    <3>2. CASE Fault!Fail(h)
      BY <1>1, <2>1, <3>2 DEF MemoryOK, Places, Fault!Fail, Fault!Go, OthersStay, Fault!memory
    <3> QED
      BY <1>3, <3>1, <3>2
  <2>3. Fault!TypeOK' /\ Roles'
    BY <1>1, <1>3, <2>1, <2>2 DEF Fault!TypeOK, MemoryOK, Places, Roles, OthersStay,
       Fault!Helpers, Fault!memory
  <2>4. Memory' /\ Started' /\ Sane'
    BY <1>1, <1>3, <2>1, <2>2 DEF FaultInv, Fault!TypeOK, Fault!Records, Fault!Helpers, Memory,
       Started, Sane, OthersStay, Fault!memory
  <2>5. Owns' /\ Reusable'
    BY <1>3, <2>1, <2>2 DEF FaultInv, Owns, Reusable, OthersStay, Fault!Helpers,
       Fault!Preparing, Committed
  <2>6. Loaded'
    <3> SUFFICES ASSUME NEW q \in Restorers, pc'[q] # "idle", q \in current
                 PROVE  holds[q] = faultJournal.run /\ pc'[faultJournal.run] = "ended"
      BY <1>3, <2>2 DEF Loaded, Fault!memory
    <3>1. pc[q] # "idle"
      BY <2>1, <2>2 DEF OthersStay, Fault!Helpers
    <3>2. holds[q] = faultJournal.run /\ pc[faultJournal.run] = "ended" /\
              faultJournal # NoJournal
      BY <3>1 DEF FaultInv, Loaded, Memory, Fault!Helpers
    <3>3. faultJournal.run \in Fault!Helpers \ {h}
      BY <1>1, <2>1, <3>2 DEF Fault!TypeOK, Fault!Records, Fault!Helpers
    <3> QED
      BY <2>2, <3>2, <3>3 DEF OthersStay
  <2>7. Nothing' /\ Fault!FaultIsJournalled'
    BY <1>3, <2>1, <2>2 DEF FaultInv, Nothing, Fault!FaultIsJournalled, OthersStay, Fault!memory
  <2> QED
    BY <2>3, <2>4, <2>5, <2>6, <2>7 DEF FaultInv
<1> QED
  BY <1>2, <1>3 DEF Fault!DeleteFault, Fault!cluster

-----------------------------------------------------------------------------
(* Steps that change the journal *)

\* a helper that may replace the journal is no restorer while a run owns it
LEMMA OneOwner ==
    ASSUME FaultInv, NEW h \in Fault!Helpers, h \in current, pc[h] # "idle",
           NEW r \in FaultRuns, r # h,
           pc[r] \in {"sealing", "planning", "committed", "creating", "blocking"}
    PROVE  faultJournal.run = r /\ holds[h] # r /\ seen[h] # "unsealed" /\ ~faultJournal.restored
<1>1. faultJournal.run = r /\ ~faultJournal.restored
  <2>1. faultJournal \in {Fault!Preparing(r, FALSE), Fault!Preparing(r, TRUE), Committed(r)}
    BY DEF FaultInv, Owns
  <2> QED
    BY <2>1 DEF Fault!Preparing, Committed
<1>2. h \in FaultRuns
  BY <1>1 DEF FaultInv, Loaded, Fault!Helpers
<1>3. holds[h] = h
  BY <1>2 DEF FaultInv, Roles
<1> QED
  BY <1>1, <1>3 DEF FaultInv, Memory

\* What a replacement may assume and must not do.  Whoever did not write it has
\* an old view now.
LEMMA ReplaceKeeps ==
    ASSUME FaultInv, MemoryOK', NEW h \in Fault!Helpers, OthersStay(h), Roles',
           pc[h] \notin {"idle", "ended"}, pc'[h] # "saving", pc'[h] # "cancelling",
           faultJournal' \in Fault!Records, current' \in {{h}, {}}, UNCHANGED policies,
           pc'[h] \in Fault!Writing => h \in FaultRuns,
           pc'[h] \in Removing => seen'[h] # "unsealed",
           pc'[h] \notin {"cleared", "creatingJournal", "reusing"},
           pc'[h] = "idle" => h \in Restorers,
           \A r \in policies : faultJournal' = Committed(r),
           \A r \in FaultRuns \ {h} :
               pc[r] \in {"sealing", "planning", "committed", "creating", "blocking"} =>
                   faultJournal' = faultJournal,
           pc'[h] = "sealing" => faultJournal' = Fault!Preparing(h, FALSE),
           pc'[h] = "planning" => faultJournal' = Fault!Preparing(h, TRUE),
           pc'[h] \in {"committed", "creating", "blocking"} => faultJournal' = Committed(h),
           faultJournal'.run = h \/
               (faultJournal # NoJournal /\ faultJournal'.run = faultJournal.run),
           faultJournal'.attempted => faultJournal'.sealed,
           h \in current' /\ seen'[h] = "unsealed" =>
               faultJournal' = Fault!Preparing(h, FALSE) /\ h \in FaultRuns,
           h \in Restorers /\ h \in current' /\ pc'[h] # "idle" =>
               holds'[h] = faultJournal'.run /\ faultJournal'.run # h /\
                   pc[faultJournal'.run] = "ended"
    PROVE  FaultInv'
<1> USE DEF Fault!Writing, Fault!Restoring, Fault!Closing, Removing
<1>1. faultJournal' # NoJournal /\ faultJournal'.run \in FaultRuns
  BY JournalAssumption DEF Fault!Records
<1>2. Fault!TypeOK'
  BY <1>1 DEF FaultInv, Fault!TypeOK, MemoryOK, Places
<1>3. Memory'
  <2>1. \A g \in Fault!Helpers : g \in current' => g = h
    OBVIOUS
  <2>2. h \in current' /\ seen'[h] = "unsealed" =>
            faultJournal'.run = holds'[h] /\ ~faultJournal'.attempted /\ ~faultJournal'.sealed
    BY DEF Roles, Fault!Preparing
  <2> QED
    BY <1>1, <2>1, <2>2 DEF FaultInv, Memory, OthersStay
<1>4. Started' /\ Sane'
  <2>1. CASE faultJournal'.run = h
    BY <1>1, <2>1, HelpersAssumption DEF Started, Sane
  <2>2. CASE faultJournal'.run # h
    BY <1>1, <2>2 DEF FaultInv, Started, Sane, OthersStay, Fault!Helpers
  <2> QED
    BY <2>1, <2>2
<1>5. Owns'
  <2> SUFFICES ASSUME NEW r \in FaultRuns
               PROVE  /\ pc'[r] = "sealing" => faultJournal' = Fault!Preparing(r, FALSE)
                      /\ pc'[r] = "planning" => faultJournal' = Fault!Preparing(r, TRUE)
                      /\ pc'[r] \in {"committed", "creating", "blocking"} =>
                             faultJournal' = Committed(r)
    BY DEF Owns, Fault!Preparing, Committed
  <2>1. CASE r = h
    BY <2>1
  <2>2. CASE r # h
    <3>1. pc'[r] = pc[r]
      BY <2>2 DEF OthersStay, Fault!Helpers
    <3>2. /\ pc[r] = "sealing" => faultJournal = Fault!Preparing(r, FALSE)
          /\ pc[r] = "planning" => faultJournal = Fault!Preparing(r, TRUE)
          /\ pc[r] \in {"committed", "creating", "blocking"} => faultJournal = Committed(r)
      BY DEF FaultInv, Owns
    <3> QED
      BY <2>2, <3>1, <3>2
  <2> QED
    BY <2>1, <2>2
<1>6. Reusable' /\ Loaded'
  BY <1>1, HelpersAssumption DEF Reusable, Loaded, OthersStay, Fault!Helpers
<1>7. Nothing' /\ Fault!FaultIsJournalled'
  BY DEF Nothing, Fault!FaultIsJournalled, Committed
<1> QED
  BY <1>2, <1>3, <1>4, <1>5, <1>6, <1>7 DEF FaultInv

LEMMA CreateJournalKeeps ==
    ASSUME FaultInv, NEW r \in FaultRuns, Fault!CreateJournal(r)
    PROVE  FaultInv'
<1> USE DEF Fault!Writing, Fault!Restoring, Fault!Closing, Removing
<1>1. MemoryOK /\ Roles /\ Fault!TypeOK
  BY FaultParts DEF FaultInv
<1>2. r \in Fault!Helpers /\ r \notin Restorers /\ pc[r] = "creatingJournal" /\ UNCHANGED policies
  BY HelpersAssumption DEF Fault!Helpers, Fault!CreateJournal
<1>3. CASE Fault!Fail(r) /\ UNCHANGED <<faultJournal, current>>
  BY <1>1, <1>2, <1>3, FailMoves, LandingKeeps DEF Fault!cluster
<1>4. CASE /\ faultJournal = NoJournal /\ faultJournal' = Fault!Preparing(r, FALSE)
           /\ \/ /\ current' = {r} /\ Fault!Go(r, "sealing")
                 /\ seen' = [seen EXCEPT ![r] = "unsealed"] /\ UNCHANGED <<holds, plan>>
              \/ current' = {} /\ Fault!Fail(r)
  <2>1. /\ MemoryOK' /\ OthersStay(r) /\ holds'[r] = r
        /\ pc'[r] = "sealing" \/ (pc'[r] = "ended" /\ current' = {})
    <3>1. CASE /\ Fault!Go(r, "sealing") /\ seen' = [seen EXCEPT ![r] = "unsealed"]
               /\ UNCHANGED <<holds, plan>>
      BY <1>1, <1>2, <3>1 DEF MemoryOK, Places, Fault!Go, OthersStay, Roles
    <3>2. CASE current' = {} /\ Fault!Fail(r)
      BY <1>1, <1>2, <3>2, FailMoves DEF Lands
    <3> QED
      BY <1>4, <3>1, <3>2
  <2>2. Roles'
    BY <1>1, <1>2, <2>1 DEF Roles, OthersStay, Fault!Helpers
  <2>3. faultJournal' \in Fault!Records /\ faultJournal'.run = r /\ ~faultJournal'.attempted /\
            ~faultJournal'.restored
    BY <1>4 DEF Fault!Preparing, Fault!Records
  <2>4. policies = {}
    <3> SUFFICES ASSUME NEW x \in policies PROVE FALSE
      OBVIOUS
    <3>1. faultJournal = Committed(x) /\ x \in FaultRuns
      BY <1>1 DEF FaultInv, Fault!FaultIsJournalled, Committed, Fault!TypeOK
    <3> QED
      BY <1>4, <3>1, JournalAssumption DEF Committed
  <2>5. \A x \in FaultRuns \ {r} :
            pc[x] \notin {"sealing", "planning", "committed", "creating", "blocking"}
    <3> SUFFICES ASSUME NEW x \in FaultRuns,
                        pc[x] \in {"sealing", "planning", "committed", "creating", "blocking"}
                 PROVE  FALSE
      OBVIOUS
    <3>1. faultJournal \in {Fault!Preparing(x, FALSE), Fault!Preparing(x, TRUE), Committed(x)}
      BY DEF FaultInv, Owns
    <3> QED
      BY <1>4, <3>1, JournalAssumption DEF Fault!Preparing, Committed
  <2> QED
    BY <1>2, <1>4, <2>1, <2>2, <2>3, <2>4, <2>5, ReplaceKeeps
<1> QED
  BY <1>2, <1>3, <1>4 DEF Fault!CreateJournal

\* an accepted replacement leaves what the others own, unless its writer owns it
LEMMA NotOwned ==
    ASSUME FaultInv, NEW h \in FaultRuns, h \in current,
           faultJournal.run = h \/ faultJournal.restored,
           pc[h] # "idle"
    PROVE  \A r \in FaultRuns \ {h} :
               pc[r] \notin {"sealing", "planning", "committed", "creating", "blocking"}
<1>1. h \in Fault!Helpers
  BY DEF Fault!Helpers
<1> QED
  BY <1>1, OneOwner

\* there is no policy while the journal has no attempt to be restored
LEMMA NoPolicy ==
    ASSUME FaultInv, ~faultJournal.attempted \/ faultJournal.restored \/ ~faultJournal.sealed
    PROVE  policies = {}
  BY DEF FaultInv, Fault!FaultIsJournalled

LEMMA OwnWriteKeeps ==
    ASSUME FaultInv, NEW r \in FaultRuns,
           \/ Fault!SealJournal(r) \/ Fault!ReuseJournal(r)
           \/ Fault!CommitFault(r) \/ Fault!SaveProgress(r),
           ~Fault!Conflict(r)
    PROVE  FaultInv'
<1> USE DEF Fault!Writing, Fault!Restoring, Fault!Closing, Removing
<1>1. MemoryOK /\ Roles /\ Fault!TypeOK
  BY FaultParts DEF FaultInv
<1>2. /\ r \in Fault!Helpers /\ r \notin Restorers /\ r \in current /\ current' \in {{r}, {}}
      /\ UNCHANGED policies /\ faultJournal # NoJournal
  <2>1. r \in Fault!Helpers /\ r \notin Restorers
    BY HelpersAssumption DEF Fault!Helpers
  <2>2. r \in current /\ current' \in {{r}, {}} /\ UNCHANGED policies
    BY DEF Fault!SealJournal, Fault!ReuseJournal, Fault!CommitFault, Fault!SaveProgress,
       Fault!Replace
  <2> QED
    BY <2>1, <2>2 DEF FaultInv, Memory
<1>3. CASE Fault!SealJournal(r) \/ Fault!ReuseJournal(r)
  <2>1. pc[r] \in {"sealing", "reusing"} /\ faultJournal' = Fault!Preparing(r, TRUE)
    BY <1>3 DEF Fault!SealJournal, Fault!ReuseJournal, Fault!Replace
  <2>2. faultJournal.run = r \/ faultJournal.restored
    BY <1>2, <1>3 DEF Fault!SealJournal, Fault!ReuseJournal, FaultInv, Owns, Reusable,
       Fault!Preparing
  <2>3. policies = {}
    <3>1. pc[r] = "sealing" => ~faultJournal.attempted
      BY DEF FaultInv, Owns, Fault!Preparing
    <3>2. pc[r] = "reusing" => faultJournal.restored
      BY <1>2 DEF FaultInv, Reusable
    <3> QED
      BY <2>1, <3>1, <3>2, NoPolicy
  <2>4. faultJournal' \in Fault!Records /\ faultJournal'.run = r /\ ~faultJournal'.attempted /\
            ~faultJournal'.restored
    BY <2>1 DEF Fault!Preparing, Fault!Records
  <2>5. /\ MemoryOK' /\ OthersStay(r) /\ holds'[r] = r
        /\ \/ pc'[r] = "planning" /\ seen'[r] # "unsealed"
           \/ pc'[r] = "restoring" /\ current' = {}
    <3>1. CASE Fault!Fail(r) /\ ~Fault!Answered(r)
      BY <1>1, <1>2, <2>1, <3>1 DEF Fault!Answered, Fault!Fail, Fault!Go, Fault!memory,
         MemoryOK, Places, OthersStay, Roles
    <3>2. CASE /\ Fault!Go(r, "planning") /\ seen' = [seen EXCEPT ![r] = "sealed"]
               /\ UNCHANGED <<holds, plan>>
      BY <1>1, <1>2, <3>2 DEF MemoryOK, Places, Fault!Go, OthersStay, Roles
    <3>3. CASE pc[r] = "reusing" /\ Fault!Go(r, "planning") /\ UNCHANGED Fault!memory
      <4>1. seen[r] # "unsealed"
        BY <1>2, <3>3 DEF FaultInv, Memory
      <4> QED
        BY <1>1, <1>2, <3>3, <4>1 DEF MemoryOK, Places, Fault!Go, OthersStay, Roles, Fault!memory
    <3> QED
      BY <1>3, <3>1, <3>2, <3>3 DEF Fault!SealJournal, Fault!ReuseJournal
  <2>6. Roles'
    BY <1>1, <1>2, <2>5 DEF Roles, OthersStay, Fault!Helpers
  <2>7. \A x \in FaultRuns \ {r} :
            pc[x] \notin {"sealing", "planning", "committed", "creating", "blocking"}
    BY <1>2, <2>1, <2>2, NotOwned
  <2> QED
    BY <1>2, <2>1, <2>3, <2>4, <2>5, <2>6, <2>7, ReplaceKeeps
<1>4. CASE Fault!CommitFault(r)
  <2>1. faultJournal = Fault!Preparing(r, TRUE) /\ pc[r] = "planning"
    BY <1>4 DEF Fault!CommitFault, FaultInv, Owns
  <2>2. faultJournal' = Committed(r)
    BY <1>4, <2>1 DEF Fault!CommitFault, Fault!Replace, Fault!Preparing, Committed
  <2>3. faultJournal.run = r /\ ~faultJournal.attempted /\ faultJournal.sealed
    BY <2>1 DEF Fault!Preparing
  <2>4. /\ MemoryOK' /\ OthersStay(r) /\ holds'[r] = r
        /\ \/ pc'[r] = "committed" /\ seen'[r] # "unsealed"
           \/ pc'[r] = "restoring" /\ current' = {}
    <3>1. CASE Fault!Fail(r) /\ ~Fault!Answered(r)
      BY <1>1, <1>2, <2>1, <3>1 DEF Fault!Answered, Fault!Fail, Fault!Go, Fault!memory,
         MemoryOK, Places, OthersStay, Roles
    <3>2. CASE /\ Fault!Go(r, "committed") /\ plan' = [plan EXCEPT ![r] = "attempted"]
               /\ UNCHANGED <<holds, seen>>
      <4>1. seen[r] # "unsealed"
        BY <1>2, <2>3 DEF FaultInv, Memory
      <4> QED
        BY <1>1, <1>2, <3>2, <4>1 DEF MemoryOK, Places, Fault!Go, OthersStay, Roles
    <3> QED
      BY <1>4, <3>1, <3>2 DEF Fault!CommitFault
  <2>5. Roles'
    BY <1>1, <1>2, <2>4 DEF Roles, OthersStay, Fault!Helpers
  <2>6. policies = {}
    BY <2>3, NoPolicy
  <2>7. faultJournal' \in Fault!Records /\ faultJournal'.run = r /\ faultJournal'.sealed
    BY <2>2 DEF Committed, Fault!Records
  <2>8. \A x \in FaultRuns \ {r} :
            pc[x] \notin {"sealing", "planning", "committed", "creating", "blocking"}
    BY <1>2, <2>1, <2>3, NotOwned
  <2> QED
    BY <1>2, <2>1, <2>2, <2>4, <2>5, <2>6, <2>7, <2>8, ReplaceKeeps
<1>5. CASE Fault!SaveProgress(r)
  <2>1. faultJournal' = faultJournal /\ pc[r] = "blocking" /\ faultJournal = Committed(r)
    BY <1>5 DEF Fault!SaveProgress, Fault!Replace, FaultInv, Owns
  <2>2. faultJournal.run = r /\ faultJournal.sealed /\ faultJournal \in Fault!Records
    BY <2>1 DEF Committed, Fault!Records
  <2>3. /\ MemoryOK' /\ OthersStay(r) /\ holds'[r] = r
        /\ \/ pc'[r] = "blocking" /\ seen'[r] # "unsealed"
           \/ pc'[r] = "restoring" /\ current' = {}
    <3>1. CASE Fault!Fail(r) /\ ~Fault!Answered(r)
      BY <1>1, <1>2, <2>1, <3>1 DEF Fault!Answered, Fault!Fail, Fault!Go, Fault!memory,
         MemoryOK, Places, OthersStay, Roles
    <3>2. CASE UNCHANGED <<pc, Fault!memory>>
      <4>1. seen[r] # "unsealed"
        BY <1>2, <2>2 DEF FaultInv, Memory
      <4> QED
        BY <1>1, <1>2, <2>1, <3>2, <4>1 DEF MemoryOK, Places, OthersStay, Roles, Fault!memory
    <3> QED
      BY <1>5, <3>1, <3>2 DEF Fault!SaveProgress
  <2>4. Roles'
    BY <1>1, <1>2, <2>3 DEF Roles, OthersStay, Fault!Helpers
  <2>5. \A x \in policies : faultJournal' = Committed(x)
    BY <2>1 DEF FaultInv, Fault!FaultIsJournalled, Committed
  <2> QED
    BY <1>2, <2>1, <2>2, <2>3, <2>4, <2>5, ReplaceKeeps
<1> QED
  BY <1>3, <1>4, <1>5

\* the records that a restoration writes
LEMMA RestorationWriteKeeps ==
    ASSUME FaultInv, NEW h \in Fault!Helpers, ~Fault!Conflict(h),
           Fault!CancelUnsealed(h) \/
               ((Fault!SaveRestored(h) \/ Fault!SaveFailure(h)) /\ Fault!SameIntent(h))
    PROVE  FaultInv'
<1> USE DEF Fault!Writing, Fault!Restoring, Fault!Closing, Removing
<1>1. MemoryOK /\ Roles /\ Fault!TypeOK
  BY FaultParts DEF FaultInv
<1>2. /\ h \in current /\ current' \in {{h}, {}} /\ UNCHANGED policies
      /\ faultJournal # NoJournal /\ faultJournal \in Fault!Records
  <2>1. h \in current /\ current' \in {{h}, {}} /\ UNCHANGED policies
    BY DEF Fault!CancelUnsealed, Fault!SaveRestored, Fault!SaveFailure, Fault!Replace
  <2> QED
    BY <1>1, <2>1 DEF FaultInv, Memory, Fault!TypeOK
<1>3. /\ pc[h] \in {"cancelling", "saving", "saved", "failing"}
      /\ faultJournal.run = holds[h]
  <2>1. CASE Fault!CancelUnsealed(h)
    BY <1>2, <2>1 DEF Fault!CancelUnsealed, FaultInv, Memory
  <2>2. CASE (Fault!SaveRestored(h) \/ Fault!SaveFailure(h)) /\ Fault!SameIntent(h)
    BY <1>2, <2>2 DEF Fault!SaveRestored, Fault!SaveFailure, Fault!SameIntent
  <2> QED
    BY <2>1, <2>2
<1>4. \A r \in FaultRuns \ {h} :
          pc[r] \notin {"sealing", "planning", "committed", "creating", "blocking"}
  BY <1>2, <1>3, OneOwner
<1>5. /\ MemoryOK' /\ OthersStay(h) /\ seen'[h] # "unsealed"
      /\ \/ /\ pc'[h] = (IF h \in FaultRuns THEN "ended" ELSE "idle")
            /\ holds'[h] = (IF h \in FaultRuns THEN h ELSE NoFaultRun)
         \/ pc'[h] = "saved" /\ holds'[h] = holds[h]
  <2>1. CASE Fault!End(h)
    BY <1>1, <1>3, <2>1, EndMoves DEF Lands
  <2>2. CASE pc[h] = "saving" /\ ~Fault!Answered(h) /\ Fault!Fail(h)
    BY <1>1, <1>2, <2>2, FailMoves DEF Lands
  <2>3. CASE pc[h] = "saving" /\ Fault!Go(h, "saved") /\ UNCHANGED Fault!memory
    <3>1. MemoryOK' /\ OthersStay(h) /\ pc'[h] = "saved" /\ UNCHANGED Fault!memory
      BY <1>1, <2>3 DEF MemoryOK, Places, Fault!Go, OthersStay, Fault!memory
    <3>2. seen[h] # "unsealed"
      BY <2>3 DEF FaultInv, Memory
    <3> QED
      BY <3>1, <3>2 DEF Fault!memory
  <2> QED
    BY <1>2, <2>1, <2>2, <2>3 DEF Fault!CancelUnsealed, Fault!SaveRestored, Fault!SaveFailure
<1>6. Roles'
  BY <1>1, <1>3, <1>5, HelpersAssumption DEF Roles, OthersStay, Fault!Helpers
<1>7. h \in Restorers => faultJournal.run # h /\ pc[faultJournal.run] = "ended"
  BY <1>2, <1>3, HelpersAssumption DEF FaultInv, Loaded, Fault!Records
<1>8. CASE Fault!CancelUnsealed(h)
  <2>1. /\ faultJournal' = [faultJournal EXCEPT !.restored = TRUE, !.sealed = TRUE]
        /\ pc[h] = "cancelling" /\ ~faultJournal.sealed
    BY <1>2, <1>8 DEF Fault!CancelUnsealed, Fault!Replace, FaultInv, Memory
  <2>2. faultJournal' \in Fault!Records /\ faultJournal'.run = faultJournal.run /\
            faultJournal'.sealed
    BY <1>2, <2>1 DEF Fault!Records
  <2>3. policies = {}
    BY <2>1, NoPolicy
  <2>4. pc'[h] = (IF h \in FaultRuns THEN "ended" ELSE "idle")
    BY <1>1, <1>8, <2>1 DEF Fault!CancelUnsealed, Fault!End, Fault!Go, Fault!Fail, MemoryOK,
       Places
  <2> QED
    BY <1>2, <1>3, <1>4, <1>5, <1>6, <2>2, <2>3, <2>4, ReplaceKeeps, HelpersAssumption
       DEF Fault!Helpers
<1>9. CASE Fault!SaveRestored(h) /\ Fault!SameIntent(h)
  <2>1. /\ faultJournal' = [faultJournal EXCEPT !.restored = TRUE] /\ pc[h] = "saving"
    BY <1>2, <1>9 DEF Fault!SaveRestored, Fault!Replace
  <2>2. /\ faultJournal' \in Fault!Records /\ faultJournal'.run = faultJournal.run
        /\ faultJournal'.attempted => faultJournal'.sealed
    BY <1>2, <2>1 DEF Fault!Records, FaultInv, Sane
  <2>3. policies = {}
    BY <1>2, <1>3, <2>1 DEF FaultInv, Nothing
  <2> QED
    BY <1>2, <1>3, <1>4, <1>5, <1>6, <2>2, <2>3, <1>7, ReplaceKeeps, HelpersAssumption
       DEF Fault!Helpers
<1>10. CASE Fault!SaveFailure(h) /\ Fault!SameIntent(h)
  <2>1. faultJournal' = [faultJournal EXCEPT !.restored = FALSE]
    BY <1>2, <1>10 DEF Fault!SaveFailure, Fault!Replace
  <2>2. /\ faultJournal' \in Fault!Records /\ faultJournal'.run = faultJournal.run
        /\ faultJournal'.attempted => faultJournal'.sealed
    BY <1>2, <2>1 DEF Fault!Records, FaultInv, Sane
  <2>3. \A r \in policies : faultJournal' = Committed(r)
    <3> SUFFICES ASSUME NEW r \in policies PROVE faultJournal' = Committed(r)
      OBVIOUS
    <3>1. faultJournal = Committed(r)
      BY DEF FaultInv, Fault!FaultIsJournalled, Committed
    <3> QED
      BY <2>1, <3>1 DEF Committed
  <2> QED
    BY <1>2, <1>3, <1>4, <1>5, <1>6, <2>2, <2>3, <1>7, ReplaceKeeps, HelpersAssumption
       DEF Fault!Helpers
<1> QED
  BY <1>8, <1>9, <1>10

-----------------------------------------------------------------------------
(* Every step *)

\* the steps of a run that write, or are refused
LEMMA RunKeeps == ASSUME FaultInv, NEW r \in FaultRuns, Fault!Run(r) PROVE FaultInv'
<1>1. r \in Fault!Helpers
  BY DEF Fault!Helpers
<1>2. CASE Fault!PrepareFault(r) \/ Fault!PlanFault(r) \/ Fault!CheckCommitted(r)
  BY <1>1, <1>2, ReadingKeeps
<1>3. CASE Fault!SealJournal(r) \/ Fault!ReuseJournal(r) \/ Fault!CommitFault(r) \/
               Fault!SaveProgress(r)
  <2>1. CASE Fault!Conflict(r)
    BY <1>1, <2>1, FailingKeeps
  <2>2. CASE ~Fault!Conflict(r)
    BY <1>3, <2>2, OwnWriteKeeps
  <2> QED
    BY <2>1, <2>2
<1>4. CASE Fault!EndFault(r)
  BY <1>1, <1>4, FailingKeeps
<1>5. CASE Fault!LookForJournal(r) \/ Fault!CreateJournal(r) \/ Fault!CreateFault(r)
  BY <1>5, LookForJournalKeeps, CreateJournalKeeps, CreateFaultKeeps
<1> QED
  BY <1>2, <1>3, <1>4, <1>5 DEF Fault!Run

LEMMA RestoreKeeps == ASSUME FaultInv, NEW h \in Fault!Helpers, Fault!Restore(h) PROVE FaultInv'
<1>1. CASE Fault!BeginRestore(h) \/ Fault!LookForFault(h) \/ Fault!ConfirmRemoved(h) \/
               Fault!ProbeLink(h)
  BY <1>1, ReadingKeeps
<1>2. CASE Fault!DeleteFault(h) \/ Fault!Finish(h)
  BY <1>2, DeleteFaultKeeps, FailingKeeps
<1>3. CASE Fault!CancelUnsealed(h) \/ Fault!SaveRestored(h) \/ Fault!SaveFailure(h)
  <2>1. CASE Fault!Conflict(h)
    BY <2>1, FailingKeeps
  <2>2. CASE ~Fault!Conflict(h) /\ (Fault!CancelUnsealed(h) \/ Fault!SameIntent(h))
    BY <1>3, <2>2, RestorationWriteKeeps
  <2>3. CASE ~Fault!Conflict(h) /\ ~Fault!CancelUnsealed(h) /\ ~Fault!SameIntent(h)
    <3>1. /\ pc[h] \in {"saving", "saved", "failing"} /\ UNCHANGED <<Fault!cluster, current>>
          /\ Fault!Fail(h) \/ Fault!End(h)
      BY <1>3, <2>3 DEF Fault!SaveRestored, Fault!SaveFailure
    <3>2. MemoryOK /\ Roles
      BY FaultParts
    <3>3. MemoryOK' /\ OthersStay(h) /\ Lands(h)
      BY <3>1, <3>2, FailMoves, EndMoves
    <3> QED
      BY <3>1, <3>3, LandingKeeps
  <2> QED
    BY <2>1, <2>2, <2>3
<1> QED
  BY <1>1, <1>2, <1>3 DEF Fault!Restore

LEMMA FaultStepInv == FaultInv /\ [Fault!Next]_(Fault!vars) => FaultInv'
<1> SUFFICES ASSUME FaultInv, [Fault!Next]_(Fault!vars) PROVE FaultInv'
  OBVIOUS
<1>1. CASE UNCHANGED Fault!vars
  BY <1>1 DEF Fault!vars, Fault!cluster, Fault!memory, FaultInv, Fault!TypeOK, Roles, Memory,
     Started, Sane, Owns, Reusable, Loaded, Nothing, Fault!FaultIsJournalled, Fault!Preparing,
     Committed
<1>2. CASE \E r \in FaultRuns : Fault!Run(r)
  BY <1>2, RunKeeps
<1>3. CASE \E q \in Restorers : Fault!LoadJournal(q)
  BY <1>3, LoadJournalKeeps
<1>4. CASE \E h \in Fault!Helpers : Fault!Restore(h) \/ Fault!CallFails(h) \/ Fault!Crash(h)
  BY <1>4, RestoreKeeps, FailingKeeps
<1> QED
  BY <1>1, <1>2, <1>3, <1>4 DEF Fault!Next

LEMMA FaultInvariance == Fault!Spec => []FaultInv
<1> QED
  BY FaultInitInv, FaultStepInv, PTL DEF Fault!Spec

-----------------------------------------------------------------------------

\* The records, views and program counters keep their types, for any number of
\* runs and operators.
THEOREM FaultTypeCorrect == Fault!Spec => []Fault!TypeOK
<1>1. FaultInv => Fault!TypeOK
  BY DEF FaultInv
<1> QED
  BY <1>1, FaultInvariance, PTL

\* A policy in the cluster is that of the journal's sealed and unrestored attempt,
\* whoever died, was refused or got no answer: ConfigMapJournal and ParentFault
\* write before they act and record as restored only what they found removed.
THEOREM FaultsAreJournalled == Fault!Spec => []FaultIsJournalled
<1>1. FaultInv => FaultIsJournalled
  BY DEF FaultInv, FaultIsJournalled
<1> QED
  BY <1>1, FaultInvariance, PTL

ForwardOnly ==
    faultJournal # NoJournal =>
        /\ faultJournal' # NoJournal
        /\ faultJournal.sealed => faultJournal'.sealed
        /\ IF faultJournal'.run # faultJournal.run THEN faultJournal.restored
                                         ELSE faultJournal.attempted => faultJournal'.attempted

LEMMA StepForwardOnly == FaultInv /\ [Fault!Next]_(Fault!vars) => ForwardOnly
<1> SUFFICES ASSUME FaultInv, [Fault!Next]_(Fault!vars), faultJournal # NoJournal,
                    faultJournal' # faultJournal
             PROVE  ForwardOnly
  BY DEF ForwardOnly
<1>1. faultJournal \in Fault!Records
  BY DEF FaultInv, Fault!TypeOK
<1>2. ~UNCHANGED faultJournal
  OBVIOUS
<1>3. CASE \E r \in FaultRuns : Fault!SealJournal(r) \/ Fault!ReuseJournal(r)
  <2>1. PICK r \in FaultRuns : Fault!SealJournal(r) \/ Fault!ReuseJournal(r)
    BY <1>3
  <2>2. faultJournal' = Fault!Preparing(r, TRUE) /\ r \in current /\
            pc[r] \in {"sealing", "reusing"}
    BY <1>2, <2>1 DEF Fault!SealJournal, Fault!ReuseJournal, Fault!Replace, Fault!Conflict,
       Fault!cluster
  <2>3. pc[r] = "sealing" => faultJournal = Fault!Preparing(r, FALSE)
    BY DEF FaultInv, Owns
  <2>4. pc[r] = "reusing" => faultJournal.restored /\ faultJournal.run # r
    BY <2>2 DEF FaultInv, Reusable, Started
  <2>5. faultJournal' # NoJournal /\ faultJournal'.sealed /\ faultJournal'.run = r
    BY <2>2, JournalAssumption DEF Fault!Preparing
  <2> QED
    BY <2>2, <2>3, <2>4, <2>5 DEF ForwardOnly, Fault!Preparing
<1>4. CASE \E r \in FaultRuns : Fault!CommitFault(r) \/ Fault!SaveProgress(r)
  <2>1. \/ faultJournal' = [faultJournal EXCEPT !.attempted = TRUE]
        \/ faultJournal' = faultJournal
    BY <1>2, <1>4 DEF Fault!CommitFault, Fault!SaveProgress, Fault!Replace, Fault!Conflict,
       Fault!cluster
  <2>2. faultJournal' \in Fault!Records /\ faultJournal'.run = faultJournal.run /\
            faultJournal'.attempted
        /\ faultJournal'.sealed = faultJournal.sealed
    BY <1>1, <1>2, <2>1 DEF Fault!Records
  <2> QED
    BY <2>2, JournalAssumption DEF ForwardOnly, Fault!Records
<1>5. CASE \E h \in Fault!Helpers : Fault!CancelUnsealed(h) \/ Fault!SaveRestored(h) \/
               Fault!SaveFailure(h)
  <2>1. \/ faultJournal' = [faultJournal EXCEPT !.restored = TRUE, !.sealed = TRUE]
        \/ faultJournal' = [faultJournal EXCEPT !.restored = TRUE]
        \/ faultJournal' = [faultJournal EXCEPT !.restored = FALSE]
    BY <1>2, <1>5 DEF Fault!CancelUnsealed, Fault!SaveRestored, Fault!SaveFailure,
       Fault!Replace, Fault!Conflict, Fault!cluster
  <2>2. /\ faultJournal' \in Fault!Records /\ faultJournal'.run = faultJournal.run
        /\ faultJournal'.attempted = faultJournal.attempted
        /\ faultJournal.sealed => faultJournal'.sealed
    BY <1>1, <2>1 DEF Fault!Records
  <2> QED
    BY <2>2, JournalAssumption DEF ForwardOnly, Fault!Records
<1>6. CASE UNCHANGED Fault!vars
  BY <1>2, <1>6 DEF Fault!vars, Fault!cluster
<1>7. CASE \E r \in FaultRuns :
              \/ Fault!PrepareFault(r) \/ Fault!LookForJournal(r) \/ Fault!CreateJournal(r)
              \/ Fault!PlanFault(r) \/ Fault!CheckCommitted(r) \/ Fault!CreateFault(r)
              \/ Fault!EndFault(r)
  BY <1>2, <1>7 DEF Fault!PrepareFault, Fault!LookForJournal, Fault!CreateJournal,
     Fault!PlanFault, Fault!CheckCommitted, Fault!CreateFault, Fault!EndFault, Fault!cluster
<1>8. CASE \/ \E q \in Restorers : Fault!LoadJournal(q)
           \/ \E h \in Fault!Helpers :
                 \/ Fault!BeginRestore(h) \/ Fault!LookForFault(h) \/ Fault!DeleteFault(h)
                 \/ Fault!ConfirmRemoved(h) \/ Fault!ProbeLink(h) \/ Fault!Finish(h)
                 \/ Fault!CallFails(h) \/ Fault!Crash(h)
  BY <1>2, <1>8 DEF Fault!LoadJournal, Fault!BeginRestore, Fault!LookForFault,
     Fault!DeleteFault, Fault!ConfirmRemoved, Fault!ProbeLink, Fault!Finish, Fault!CallFails,
     Fault!Crash, Fault!cluster
<1> QED
  BY <1>3, <1>4, <1>5, <1>6, <1>7, <1>8 DEF Fault!Next, Fault!Run, Fault!Restore

\* No journal of an unrestored fault is taken over, unsealed or loses its attempt:
\* start and save of ConfigMapJournal refuse it.
THEOREM JournalOnlyForward == Fault!Spec => JournalForward
<1>1. FaultInv /\ [Fault!Next]_(Fault!vars) => [ForwardOnly]_(Fault!vars)
  BY StepForwardOnly
<1>2. Fault!Spec => [][ForwardOnly]_(Fault!vars)
  BY <1>1, FaultInvariance, PTL DEF Fault!Spec
<1> QED
  BY <1>2 DEF JournalForward, Fault!JournalForward, ForwardOnly
=============================================================================
