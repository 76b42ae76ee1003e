----------------------- MODULE FoundationSizingProofs -----------------------
(***************************************************************************)
(* The safety of FoundationSizing, for any commands, clusters, catalogue,  *)
(* quotas and loads.                                                       *)
(*                                                                         *)
(* NothingResized says nothing of why two overlapping commands choose the  *)
(* same.  Agreed says it: what a command has chosen and saved is what .env *)
(* says, and is available (Good).  Whoever chooses later keeps a saved     *)
(* value that is available (Keeps), and saves only over the .env it read.  *)
(* The foundation itself makes its own node size no less eligible          *)
(* (Standing), as long as the reported usage does not lag behind.          *)
(***************************************************************************)
EXTENDS FoundationSizing, TLAPS, FiniteSetTheorems

Names == Settings \cup Compute

AnyValue == (UNION {ValuesOf(n) : n \in Names}) \cup {NoValue}

Configs == {c \in [Names -> AnyValue] : \A n \in Names : c[n] \in ValuesOf(n) \cup {NoValue}}

\* a command that has begun to select, by what it does next
Selecting == {"saving_sizes", "sized", "saving_node", "placed", "saving_postgres", "chosen",
              "submitting", "waiting"}
Looking == {"inventory", "sizing"} \cup Selecting
Places == {"idle", "comparing", "adding", "gone", "done"} \cup Looking

Command == [pc : Places, identity : Configs, existing : Configs \cup {NoValue},
            seen : Configs, values : Configs, output : Configs, free : [Quotas -> Int]]

TypeOK ==
    /\ env \in Configs
    /\ run \in [Runs -> Command]
    /\ record \in [state : {"none", "running", "succeeded", "failed"}, sizes : Configs]
    /\ cluster \in [Slots -> {"absent", "planned", "creating", "running", "stopped"}]
    /\ counted \subseteq Slots
    /\ offer \in Offers /\ load \in Loads /\ tier \in Tiers
    /\ disturbed \subseteq {"env", "offer", "usage"}

\* what a command at pc has chosen and saved, and what it has chosen and is to save
SettledAt(pc) ==
    CASE pc \in {"sized", "saving_node"} -> Settings
      [] pc \in {"placed", "saving_postgres"} -> Settings \cup {"node_vm_size"}
      [] pc \in {"chosen", "submitting", "waiting"} -> Names
      [] OTHER -> {}

ChosenAt(pc) ==
    CASE pc = "saving_sizes" -> Settings
      [] pc = "saving_node" -> {"node_vm_size"}
      [] pc = "saving_postgres" -> {"postgres_sku"}
      [] OTHER -> {}

AvailableTo(n) == IF n = "postgres_sku" THEN PostgresSkus ELSE Options(n)

GoodNode(c) ==
    /\ c.node_vm_size \in Sizes /\ c.node_count # NoValue
    /\ \A q \in {"cores", Catalogue[c.node_vm_size].family} :
          load[q] + RequiredCores(BaseSlots, c.node_count, c.node_vm_size) <= Limits[q]

\* the configurations whose value of n is available
Good == [n \in Names |->
    {c \in Configs : IF n = "node_vm_size" THEN GoodNode(c) ELSE c[n] \in AvailableTo(n)}]

\* a choice that is to be saved changes what it chose, and no saved node count
Pending(c) ==
    /\ \A n \in SettledAt(c.pc) \cup ChosenAt(c.pc) : c.output[n] # NoValue
    /\ ChosenAt(c.pc) # {} =>
         /\ \A n \in Names : c.values[n] = IF n \in ChosenAt(c.pc) THEN c.output[n] ELSE c.seen[n]
         /\ c.seen.node_count # NoValue => c.values.node_count = c.seen.node_count

\* the node count a command chose is the one it finds
Counted(c) ==
    "env" \notin disturbed /\ "node_count" \in SettledAt(c.pc) =>
        env.node_count = c.output.node_count

Fits(c) ==
    "env" \notin disturbed /\ "node_vm_size" \in SettledAt(c.pc) \cup ChosenAt(c.pc) =>
        \A q \in {"cores", Catalogue[c.output.node_vm_size].family} :
            RequiredCores(BaseSlots, c.output.node_count, c.output.node_vm_size) <= c.free[q]

Agreed(c) == disturbed = {} =>
    \A n \in SettledAt(c.pc) : c.output[n] = env[n] /\ env \in Good[n]

Keeps(c) == disturbed = {} =>
    \A n \in ChosenAt(c.pc) : c.values \in Good[n] /\ (c.seen \in Good[n] => c.values[n] = c.seen[n])

RunsAreRight ==
    \A r \in Runs : /\ Pending(run[r]) /\ Counted(run[r]) /\ Fits(run[r])
                    /\ Agreed(run[r]) /\ Keeps(run[r])

\* nothing is there before the foundation was submitted, and then with all its sizes
Founded ==
    /\ record.state = "none" => counted = {} /\ \A s \in Slots : cluster[s] = "absent"
    /\ record.state # "none" => \A n \in Names : record.sizes[n] # NoValue

\* while a command from before the foundation is at work
Standing ==
    disturbed = {} /\ record.state # "none" /\ (\E r \in Runs : run[r].pc \in Looking) =>
        /\ record.sizes = env /\ \A n \in Names : env \in Good[n]
        /\ counted \subseteq Running /\ \A s \in Slots : cluster[s] # "stopped"
        /\ WithinQuotas(Running)

IInv == TypeOK /\ RunsAreRight /\ Founded /\ Standing
-----------------------------------------------------------------------------
(* Names, values and configurations *)

LEMMA NamesAre ==
    /\ Settings = {"node_count", "postgres_storage_gb", "redis_sku_name", "key_vault_sku"}
    /\ Compute = {"node_vm_size", "postgres_sku"}
    /\ Names = Settings \cup Compute
BY DEF Settings, Sizing, Compute, Names

LEMMA ValuesAre ==
    /\ ValuesOf("node_count") = {2, 3}
    /\ ValuesOf("postgres_storage_gb") = {32, 64}
    /\ ValuesOf("redis_sku_name") = {"B1", "B3"}
    /\ ValuesOf("key_vault_sku") = {"standard", "premium"}
    /\ ValuesOf("node_vm_size") = DOMAIN Catalogue
    /\ ValuesOf("postgres_sku") = DOMAIN Servers
BY DEF ValuesOf, Sizing

LEMMA NoValueIsNone == \A n \in Names : NoValue \notin ValuesOf(n)
BY NamesAre, ValuesAre, SizingAssumption

LEMMA ConfigHas ==
    ASSUME NEW c \in Configs, NEW n \in Names
    PROVE  /\ c[n] \in ValuesOf(n) \cup {NoValue}
           /\ c[n] # NoValue => c[n] \in ValuesOf(n)
BY DEF Configs

LEMMA ConfigIs ==
    ASSUME NEW c, c = [n \in Names |-> c[n]], \A n \in Names : c[n] \in ValuesOf(n) \cup {NoValue}
    PROVE  c \in Configs
<1>1. ASSUME NEW n \in Names
      PROVE  c[n] \in AnyValue
  <2>1. ValuesOf(n) \in {ValuesOf(m) : m \in Names}
    OBVIOUS
  <2>2. ValuesOf(n) \subseteq UNION {ValuesOf(m) : m \in Names}
    BY <2>1
  <2> QED
    BY <2>2 DEF AnyValue
<1> QED
  BY <1>1 DEF Configs

LEMMA ConfigsEqual ==
    ASSUME NEW c \in Configs, NEW d \in Configs, \A n \in Names : c[n] = d[n]
    PROVE  c = d
BY DEF Configs

LEMMA WithHas ==
    ASSUME NEW c \in Configs, NEW chosen, DOMAIN chosen \subseteq Names,
           \A n \in DOMAIN chosen : chosen[n] \in ValuesOf(n) \cup {NoValue}
    PROVE  /\ With(c, chosen) \in Configs
           /\ \A n \in Names : With(c, chosen)[n] = IF n \in DOMAIN chosen THEN chosen[n] ELSE c[n]
<1> DEFINE w == With(c, chosen)
<1>1. DOMAIN c = Names
  BY DEF Configs
<1>2. w = [n \in Names |-> IF n \in DOMAIN chosen THEN chosen[n] ELSE c[n]]
  BY <1>1 DEF With
<1>3. \A n \in Names : w[n] \in ValuesOf(n) \cup {NoValue}
  BY <1>2, ConfigHas
<1>4. w = [n \in Names |-> w[n]]
  BY <1>2
<1> QED
  BY <1>2, <1>3, <1>4, ConfigIs

LEMMA UnsavedIsConfig == Unsaved \in Configs /\ \A n \in Names : Unsaved[n] = NoValue
<1>1. \A n \in Names : Unsaved[n] = NoValue
  BY DEF Unsaved, Names
<1> QED
  BY <1>1, ConfigIs DEF Unsaved, Names

-----------------------------------------------------------------------------
(* Cores *)

LEMMA Counting ==
    ASSUME NEW S \in SUBSET Slots, NEW T \in SUBSET S
    PROVE  /\ Cardinality(S) \in Nat /\ Cardinality(T) \in Nat
           /\ Cardinality(T) <= Cardinality(S)
<1>1. IsFiniteSet(Slots)
  BY SizingAssumption DEF Slots
<1>2. IsFiniteSet(S)
  BY <1>1, FS_Subset
<1> QED
  BY <1>2, FS_Subset, FS_CardinalityType

LEMMA Products ==
    ASSUME NEW a \in Nat, NEW b \in Nat, a <= b, NEW n \in Nat, NEW c \in Nat
    PROVE  /\ a * n * c \in Nat /\ b * n * c \in Nat /\ a * n * c <= b * n * c
           /\ b * (n + 1) * c \in Nat /\ a * n * c <= b * (n + 1) * c
           /\ b * (n + 1) * c = (b * n + b) * c
<1>1. a * n \in Nat /\ b * n \in Nat /\ a * n <= b * n /\ b * (n + 1) = b * n + b
  OBVIOUS
<1>2. \A x, y \in Nat : x <= y => x * c \in Nat /\ x * c <= y * c
  OBVIOUS
<1> QED
  BY <1>1, <1>2

LEMMA NodesTyped ==
    ASSUME NEW c \in Configs
    PROVE  /\ c.node_count # NoValue => c.node_count \in {2, 3} /\ c.node_count \in Nat
           /\ c.node_vm_size # NoValue =>
                 /\ c.node_vm_size \in DOMAIN Catalogue
                 /\ Catalogue[c.node_vm_size].cpus \in Nat
                 /\ Catalogue[c.node_vm_size].family \in Quotas
<1>1. "node_count" \in Names /\ "node_vm_size" \in Names
  BY NamesAre
<1>2. c.node_count # NoValue => c.node_count \in {2, 3}
  BY <1>1, ConfigHas, ValuesAre
<1>3. c.node_vm_size # NoValue => c.node_vm_size \in DOMAIN Catalogue
  BY <1>1, ConfigHas, ValuesAre
<1> QED
  BY <1>2, <1>3, SizingAssumption DEF Quotas

LEMMA CoresTyped ==
    ASSUME NEW S \in SUBSET Slots, NEW T \in SUBSET S, NEW q \in Quotas,
           NEW c \in Configs, c.node_count # NoValue, c.node_vm_size # NoValue
    PROVE  /\ CoresOf(S, q, c) \in Nat /\ CoresOf(T, q, c) \in Nat
           /\ CoresOf(T, q, c) <= CoresOf(S, q, c)
           /\ RequiredCores(S, c.node_count, c.node_vm_size) \in Nat
           /\ CoresOf(T, q, c) <= RequiredCores(S, c.node_count, c.node_vm_size)
  BY Counting, Products, NodesTyped DEF CoresOf, RequiredCores

LEMMA RequiredTyped ==
    ASSUME NEW S \in SUBSET Slots, NEW n \in Nat, NEW vm \in DOMAIN Catalogue
    PROVE  /\ RequiredCores(S, n, vm) \in Nat
           /\ RequiredCores(S, n, vm)
                = (Cardinality(S) * n + Cardinality(S)) * Catalogue[vm].cpus
<1>1. Catalogue[vm].cpus \in Nat
  BY SizingAssumption
<1> QED
  BY <1>1, Counting, Products DEF RequiredCores

LEMMA AtLeastNone == ASSUME NEW x \in Int PROVE Max({0, x}) = IF x <= 0 THEN 0 ELSE x
BY DEF Max

-----------------------------------------------------------------------------
(* What is selected *)

\* a selector ends with what is available, and keeps a saved value that is
LEMMA SelectionKeeps ==
    ASSUME NEW existing, NEW saved, NEW available, NEW menu \in SUBSET available,
           NoValue \notin available, NEW x \in Selection(existing, saved, available, menu)
    PROVE  x \in available /\ (saved \in available => x = saved)
BY DEF Selection

LEMMA MenuIsEligible == \A vms : Menu(vms) \subseteq vms
BY DEF Menu

LEMMA PostgresMenuIsEligible == PostgresMenu \subseteq PostgresSkus
BY DEF PostgresMenu

LEMMA AvailableIs ==
    ASSUME TypeOK, NEW n \in Names, n # "node_vm_size"
    PROVE  AvailableTo(n) \subseteq ValuesOf(n) /\ NoValue \notin AvailableTo(n)
<1>1. CASE n = "postgres_sku"
  <2>1. PostgresSkus \subseteq DOMAIN Servers
    BY SizingAssumption DEF PostgresSkus, TypeOK
  <2> QED
    BY <1>1, <2>1, ValuesAre, SizingAssumption DEF AvailableTo
<1>2. CASE n = "node_count"
  BY <1>2, ValuesAre, SizingAssumption DEF AvailableTo, Options, Sizing
<1>3. CASE n = "postgres_storage_gb"
  BY <1>3, ValuesAre, SizingAssumption DEF AvailableTo, Options, StorageSizes, Sizing
<1>4. CASE n = "redis_sku_name"
  BY <1>4, ValuesAre, SizingAssumption DEF AvailableTo, Options, RedisOffers, Sizing
<1>5. CASE n = "key_vault_sku"
  <2>1. tier # NoValue => tier \in {"standard", "premium"}
    BY SizingAssumption DEF TypeOK
  <2>2. Options(n) \subseteq {"standard", "premium"}
    BY <1>5, <2>1 DEF Options, Sizing
  <2> QED
    BY <1>5, <2>2, ValuesAre, SizingAssumption DEF AvailableTo
<1> QED
  BY <1>1, <1>2, <1>3, <1>4, <1>5, NamesAre

LEMMA SizesAre == TypeOK => Sizes \subseteq DOMAIN Catalogue /\ NoValue \notin Sizes
BY SizingAssumption DEF TypeOK, Sizes

LEMMA EligibleIs ==
    ASSUME TypeOK, NEW S, NEW n
    PROVE  /\ Eligible(S, n) \subseteq Sizes /\ NoValue \notin Eligible(S, n)
           /\ \A vm \in Eligible(S, n) : CoresFit(S, n, vm)
BY SizesAre DEF Eligible

-----------------------------------------------------------------------------
(* Usage and quotas *)

LEMMA UsageTyped ==
    ASSUME TypeOK, Founded, NEW q \in Quotas
    PROVE  /\ OwnedCores(q) \in Nat /\ Usage(q) \in Nat /\ load[q] \in Nat /\ Limits[q] \in Nat
           /\ record.state = "none" => OwnedCores(q) = 0 /\ Usage(q) = load[q]
           /\ counted \subseteq Running => Usage(q) <= load[q] + OwnedCores(q)
<1>1. load[q] \in Nat /\ Limits[q] \in Nat
  BY SizingAssumption DEF TypeOK, Quotas
<1>2. Running \subseteq Slots /\ counted \subseteq Slots
  BY DEF Running, TypeOK
<1>3. CASE record.state = "none"
  <2>1. Running = {} /\ counted = {}
    BY <1>3 DEF Running, Founded
  <2> QED
    BY <1>1, <1>3, <2>1 DEF OwnedCores, Usage
<1>4. CASE record.state # "none"
  <2>1. record.sizes \in Configs
    BY DEF TypeOK
  <2>2. record.sizes.node_count # NoValue /\ record.sizes.node_vm_size # NoValue
    BY <1>4, NamesAre DEF Founded
  <2>3. CoresOf(Running, q, record.sizes) \in Nat /\ CoresOf(counted, q, record.sizes) \in Nat
    BY <1>2, <2>1, <2>2, CoresTyped
  <2>4. counted \subseteq Running =>
          CoresOf(counted, q, record.sizes) <= CoresOf(Running, q, record.sizes)
    BY <1>2, <2>1, <2>2, CoresTyped
  <2> QED
    BY <1>1, <1>2, <1>4, <2>3, <2>4 DEF OwnedCores, Usage
<1> QED
  BY <1>3, <1>4

LEMMA FreeTyped == TypeOK /\ Founded => Free \in [Quotas -> Int]
<1> SUFFICES ASSUME TypeOK, Founded, NEW q \in Quotas
             PROVE  Limits[q] - Usage(q) + OwnedCores(q) \in Int
  BY DEF Free
<1> QED
  BY UsageTyped

\* the cores a node size needs, and those that are free when it is eligible
LEMMA FitsFree ==
    ASSUME TypeOK, Founded, NEW n \in Nat, NEW vm \in DOMAIN Catalogue,
           CoresFit(BaseSlots, n, vm), NEW q \in {"cores", Catalogue[vm].family}
    PROVE  /\ q \in Quotas
           /\ RequiredCores(BaseSlots, n, vm) <= Limits[q] - Usage(q) + OwnedCores(q)
<1>1. q \in Quotas
  BY SizingAssumption DEF Quotas
<1>2. BaseSlots \subseteq Slots
  BY DEF Slots
<1> DEFINE needed == RequiredCores(BaseSlots, n, vm)
<1>3. needed \in Nat
  BY <1>2, RequiredTyped
<1> HIDE DEF needed
<1>4. Usage(q) + Max({0, needed - OwnedCores(q)}) <= Limits[q]
  BY DEF CoresFit, needed
<1>5. OwnedCores(q) \in Nat /\ Usage(q) \in Nat /\ Limits[q] \in Nat
  BY <1>1, UsageTyped
<1>6. needed - OwnedCores(q) <= Max({0, needed - OwnedCores(q)})
      /\ Max({0, needed - OwnedCores(q)}) \in Int
  BY <1>3, <1>5, AtLeastNone
<1>7. needed <= Limits[q] - Usage(q) + OwnedCores(q)
  BY <1>3, <1>4, <1>5, <1>6
<1> QED
  BY <1>1, <1>7 DEF needed

-----------------------------------------------------------------------------
(* What is available *)

LEMMA GoodStays == UNCHANGED <<offer, load, tier>> => Good' = Good
BY DEF Good, GoodNode, AvailableTo, PostgresSkus, Options, StorageSizes, RedisOffers, Sizes

LEMMA GoodIs ==
    ASSUME NEW c \in Configs, NEW n \in Names
    PROVE  c \in Good[n] <=> IF n = "node_vm_size" THEN GoodNode(c) ELSE c[n] \in AvailableTo(n)
BY DEF Good

\* it depends on the value, and for a node size on the node count
LEMMA GoodAgrees ==
    ASSUME NEW c \in Configs, NEW d \in Configs, NEW n \in Names, c \in Good[n],
           d[n] = c[n], c.node_count # NoValue => d.node_count = c.node_count
    PROVE  d \in Good[n]
BY GoodIs DEF GoodNode

-----------------------------------------------------------------------------
(* Commands that choose and save nothing *)

LEMMA FreshTyped ==
    \A pc \in Places, c \in Configs :
        /\ Fresh \in Command
        /\ [Fresh EXCEPT !.pc = pc] \in Command
        /\ [Fresh EXCEPT !.pc = pc, !.identity = c] \in Command
<1>1. Limits \in [Quotas -> Int]
  BY SizingAssumption DEF Quotas
<1> QED
  BY <1>1, UnsavedIsConfig DEF Fresh, Command, Places, Looking, Selecting

After == {"chosen", "submitting", "waiting"}

\* one command goes on and neither chooses nor saves
Moves(r) ==
    /\ \A p \in Runs \ {r} : run'[p] = run[p]
    /\ \/ run'[r].pc \notin Selecting
       \/ /\ run[r].pc \in After /\ run'[r].pc \in After
          /\ run'[r].output = run[r].output /\ run'[r].free = run[r].free
    /\ run'[r].pc \in Looking => run[r].pc \in Looking \/ record.state = "none"
    /\ UNCHANGED <<env, offer, load, tier, disturbed>>

LEMMA GotoMoves ==
    ASSUME TypeOK, NEW r \in Runs, NEW pc \in Places, Goto(r, pc)
    PROVE  /\ run' \in [Runs -> Command] /\ run'[r].pc = pc
           /\ \A p \in Runs \ {r} : run'[p] = run[p]
           /\ pc \notin {"gone", "done"} =>
                 run'[r].output = run[r].output /\ run'[r].free = run[r].free
<1>1. run \in [Runs -> Command] /\ run[r] \in Command
  BY DEF TypeOK
<1>2. CASE pc \in {"gone", "done"}
  <2>1. run' = [run EXCEPT ![r] = [Fresh EXCEPT !.pc = pc]]
    BY <1>2 DEF Goto
  <2>2. [Fresh EXCEPT !.pc = pc] \in Command
    BY FreshTyped, UnsavedIsConfig
  <2>3. [Fresh EXCEPT !.pc = pc].pc = pc
    BY DEF Fresh
  <2> QED
    BY <1>1, <1>2, <2>1, <2>2, <2>3
<1>3. CASE pc \notin {"gone", "done"}
  <2>1. run' = [run EXCEPT ![r] = [run[r] EXCEPT !.pc = pc]]
    BY <1>3 DEF Goto
  <2>2. [run[r] EXCEPT !.pc = pc] \in Command
    BY <1>1 DEF Command
  <2> QED
    BY <1>1, <2>1, <2>2 DEF Command
<1> QED
  BY <1>2, <1>3

Quiet(r) ==
    \/ \E added \in BOOLEAN : Begin(r, added)
    \/ Inventory(r) \/ CheckPrior(r) \/ Submit(r) \/ Wait(r) \/ Compare(r) \/ Add(r)
    \/ Stop(r) \/ Rerun(r)

LEMMA QuietMoves ==
    ASSUME TypeOK, NEW r \in Runs, Quiet(r)
    PROVE  run' \in [Runs -> Command] /\ Moves(r)
<1> USE DEF Places, Looking, Selecting, After
<1>1. run \in [Runs -> Command] /\ run[r] \in Command /\ env \in Configs /\ record.sizes \in Configs
  BY DEF TypeOK
<1>2. ASSUME NEW pc \in Places, Goto(r, pc), UNCHANGED <<env, offer, load, tier, disturbed>>,
             \/ pc \notin Selecting
             \/ run[r].pc \in After /\ pc \in After,
             pc \in Looking => run[r].pc \in Looking \/ record.state = "none"
      PROVE  run' \in [Runs -> Command] /\ Moves(r)
  <2>1. pc \in After => pc \notin {"gone", "done"}
    OBVIOUS
  <2> QED
    BY <1>2, <2>1, GotoMoves DEF Moves
<1>3. ASSUME NEW c \in Command, run' = [run EXCEPT ![r] = c],
             UNCHANGED <<env, offer, load, tier, disturbed>>, c.pc \notin Selecting,
             c.pc \in Looking => run[r].pc \in Looking \/ record.state = "none"
      PROVE  run' \in [Runs -> Command] /\ Moves(r)
  <2>1. run' \in [Runs -> Command] /\ run'[r] = c /\ \A p \in Runs \ {r} : run'[p] = run[p]
    BY <1>1, <1>3
  <2> QED
    BY <1>3, <2>1 DEF Moves
<1>4. ASSUME NEW added \in BOOLEAN, Begin(r, added)
      PROVE  run' \in [Runs -> Command] /\ Moves(r)
  <2>1. UNCHANGED <<env, offer, load, tier, disturbed>>
    BY <1>4 DEF Begin, Stay, world
  <2>2. CASE record.state = "none" /\ Goto(r, "inventory")
    BY <1>2, <2>1, <2>2
  <2>3. CASE run' = [run EXCEPT ![r].pc = IF added THEN "adding" ELSE "comparing",
                                ![r].identity = env]
    <3> DEFINE c == [run[r] EXCEPT !.pc = IF added THEN "adding" ELSE "comparing",
                                   !.identity = env]
    <3>1. run' = [run EXCEPT ![r] = c]
      BY <2>3
    <3>2. c \in Command /\ c.pc \in {"adding", "comparing"}
      BY <1>1 DEF Command
    <3> HIDE DEF c
    <3> QED
      BY <1>3, <2>1, <3>1, <3>2
  <2>4. CASE Goto(r, "gone")
    BY <1>2, <2>1, <2>4
  <2> QED
    BY <1>4, <2>2, <2>3, <2>4 DEF Begin
<1>5. ASSUME Inventory(r)
      PROVE  run' \in [Runs -> Command] /\ Moves(r)
  <2>1. UNCHANGED <<env, offer, load, tier, disturbed>> /\ run[r].pc = "inventory"
    BY <1>5 DEF Inventory, Stay, world
  <2>2. CASE Goto(r, "sizing")
    BY <1>2, <2>1, <2>2
  <2>3. CASE run' = [run EXCEPT ![r].pc = "sizing", ![r].existing = record.sizes]
    <3> DEFINE c == [run[r] EXCEPT !.pc = "sizing", !.existing = record.sizes]
    <3>1. run' = [run EXCEPT ![r] = c]
      BY <2>3
    <3>2. c \in Command /\ c.pc = "sizing"
      BY <1>1 DEF Command
    <3> HIDE DEF c
    <3> QED
      BY <1>3, <2>1, <3>1, <3>2
  <2>4. CASE Goto(r, "gone")
    BY <1>2, <2>1, <2>4
  <2>5. Goto(r, "sizing") \/ Goto(r, "gone")
        \/ run' = [run EXCEPT ![r].pc = "sizing", ![r].existing = record.sizes]
    BY <1>5 DEF Inventory
  <2> QED
    BY <2>2, <2>3, <2>4, <2>5
<1>6. ASSUME CheckPrior(r)
      PROVE  run' \in [Runs -> Command] /\ Moves(r)
  <2>1. UNCHANGED <<env, offer, load, tier, disturbed>> /\ run[r].pc = "chosen"
    BY <1>6 DEF CheckPrior, Stay, world
  <2>2. Goto(r, "gone") \/ Goto(r, "submitting")
    BY <1>6 DEF CheckPrior
  <2> QED
    BY <1>2, <2>1, <2>2
<1>7. ASSUME Submit(r)
      PROVE  run' \in [Runs -> Command] /\ Moves(r)
  <2>1. UNCHANGED <<env, offer, load, tier, disturbed>> /\ run[r].pc = "submitting"
    BY <1>7 DEF Submit, world
  <2>2. Goto(r, "gone") \/ Goto(r, "waiting")
    BY <1>7 DEF Submit
  <2> QED
    BY <1>2, <2>1, <2>2
<1>8. ASSUME Wait(r)
      PROVE  run' \in [Runs -> Command] /\ Moves(r)
  <2>1. UNCHANGED <<env, offer, load, tier, disturbed>>
    BY <1>8 DEF Wait, Stay, world
  <2>2. CASE run' = [run EXCEPT ![r] = [Fresh EXCEPT !.pc = "comparing", !.identity = env]]
    <3> DEFINE c == [Fresh EXCEPT !.pc = "comparing", !.identity = env]
    <3>1. c \in Command
      BY <1>1, FreshTyped
    <3>2. c.pc = "comparing"
      BY DEF Fresh
    <3> HIDE DEF c
    <3> QED
      BY <1>3, <2>1, <2>2, <3>1, <3>2 DEF c
  <2>3. CASE Goto(r, "gone")
    BY <1>2, <2>1, <2>3
  <2> QED
    BY <1>8, <2>2, <2>3 DEF Wait
<1>9. ASSUME Compare(r)
      PROVE  run' \in [Runs -> Command] /\ Moves(r)
  <2>1. UNCHANGED <<env, offer, load, tier, disturbed>>
    BY <1>9 DEF Compare, Stay, world
  <2>2. Goto(r, "gone") \/ Goto(r, "done")
    BY <1>9 DEF Compare
  <2> QED
    BY <1>2, <2>1, <2>2
<1>10. ASSUME Add(r)
       PROVE  run' \in [Runs -> Command] /\ Moves(r)
  <2>1. UNCHANGED <<env, offer, load, tier, disturbed>>
    BY <1>10 DEF Add, world
  <2>2. Goto(r, "gone") \/ Goto(r, "done")
    BY <1>10 DEF Add
  <2> QED
    BY <1>2, <2>1, <2>2
<1>11. ASSUME Stop(r)
       PROVE  run' \in [Runs -> Command] /\ Moves(r)
  <2>1. UNCHANGED <<env, offer, load, tier, disturbed>> /\ Goto(r, "gone")
    BY <1>11 DEF Stop, Stay, world
  <2> QED
    BY <1>2, <2>1
<1>12. ASSUME Rerun(r)
       PROVE  run' \in [Runs -> Command] /\ Moves(r)
  <2>1. UNCHANGED <<env, offer, load, tier, disturbed>> /\ run' = [run EXCEPT ![r] = Fresh]
    BY <1>12 DEF Rerun, world
  <2>2. Fresh \in Command
    BY UnsavedIsConfig, FreshTyped
  <2>3. Fresh.pc = "idle"
    BY DEF Fresh
  <2> QED
    BY <1>3, <2>1, <2>2, <2>3
<1> QED
  BY <1>4, <1>5, <1>6, <1>7, <1>8, <1>9, <1>10, <1>11, <1>12 DEF Quiet

\* a command that does not select has chosen nothing
LEMMA NothingChosen ==
    ASSUME NEW pc, pc \notin Selecting
    PROVE  SettledAt(pc) = {} /\ ChosenAt(pc) = {}
BY DEF SettledAt, ChosenAt, Selecting

LEMMA MovesKeepRuns ==
    ASSUME TypeOK, RunsAreRight, NEW r \in Runs, Moves(r)
    PROVE  RunsAreRight'
<1>1. Good' = Good
  BY GoodStays DEF Moves
<1>2. UNCHANGED <<env, disturbed>>
  BY DEF Moves
<1>3. ASSUME NEW p \in Runs, run'[p] = run[p]
      PROVE  (Pending(run[p]) /\ Counted(run[p]) /\ Fits(run[p]) /\ Agreed(run[p]) /\ Keeps(run[p]))'
  BY <1>1, <1>2, <1>3 DEF RunsAreRight, Pending, Counted, Fits, Agreed, Keeps
<1>4. (Pending(run[r]) /\ Counted(run[r]) /\ Fits(run[r]) /\ Agreed(run[r]) /\ Keeps(run[r]))'
  <2>1. CASE run'[r].pc \notin Selecting
    <3>1. SettledAt(run'[r].pc) = {} /\ ChosenAt(run'[r].pc) = {}
      BY <2>1, NothingChosen
    <3> QED
      BY <3>1 DEF Pending, Counted, Fits, Agreed, Keeps
  <2>2. CASE /\ run[r].pc \in After /\ run'[r].pc \in After
             /\ run'[r].output = run[r].output /\ run'[r].free = run[r].free
    <3>1. \A pc \in After : SettledAt(pc) = Names /\ ChosenAt(pc) = {}
      BY DEF After, SettledAt, ChosenAt
    <3>2. Pending(run[r]) /\ Counted(run[r]) /\ Fits(run[r]) /\ Agreed(run[r])
      BY DEF RunsAreRight
    <3> QED
      BY <1>1, <1>2, <2>2, <3>1, <3>2 DEF Pending, Counted, Fits, Agreed, Keeps
  <2> QED
    BY <2>1, <2>2 DEF Moves
<1> QED
  BY <1>3, <1>4 DEF RunsAreRight, Moves

-----------------------------------------------------------------------------
(* Commands that choose *)

\* what a selector owes: it keeps what is saved and still available, chooses what is,
\* and its node size fits what was free
LEMMA ChoosingKeepsRuns ==
    ASSUME TypeOK, RunsAreRight, NEW r \in Runs, NEW chosen,
           run' \in [Runs -> Command], \A p \in Runs \ {r} : run'[p] = run[p],
           UNCHANGED <<env, offer, load, tier>>, disturbed \subseteq disturbed',
           SettledAt(run'[r].pc) = SettledAt(run[r].pc),
           DOMAIN chosen = ChosenAt(run'[r].pc),
           \A n \in DOMAIN chosen : n \in Names /\ n \notin SettledAt(run[r].pc)
                                    /\ chosen[n] \in ValuesOf(n),
           run'[r].seen = env, run'[r].values = With(env, chosen),
           run'[r].output = With(run[r].output, chosen),
           "node_count" \in DOMAIN chosen /\ env.node_count # NoValue =>
               chosen["node_count"] = env.node_count,
           Fits(run[r])',
           disturbed' = {} => \A n \in DOMAIN chosen :
               With(env, chosen) \in Good[n] /\ (env \in Good[n] => chosen[n] = env[n])
    PROVE  RunsAreRight'
<1>1. Good' = Good
  BY GoodStays
<1>2. ASSUME NEW p \in Runs, run'[p] = run[p]
      PROVE  (Pending(run[p]) /\ Counted(run[p]) /\ Fits(run[p]) /\ Agreed(run[p]) /\ Keeps(run[p]))'
  <2>1. Pending(run[p]) /\ Counted(run[p]) /\ Fits(run[p]) /\ Agreed(run[p]) /\ Keeps(run[p])
    BY DEF RunsAreRight
  <2> QED
    BY <1>1, <1>2, <2>1 DEF Pending, Counted, Fits, Agreed, Keeps
<1>3. env \in Configs /\ run[r].output \in Configs
  BY DEF TypeOK, Command
<1>4. Pending(run[r]) /\ Counted(run[r]) /\ Agreed(run[r])
  BY DEF RunsAreRight
<1>5. \A n \in DOMAIN chosen : chosen[n] # NoValue
  BY NoValueIsNone
<1>6. /\ \A n \in Names : run'[r].values[n] = IF n \in DOMAIN chosen THEN chosen[n] ELSE env[n]
      /\ \A n \in Names : run'[r].output[n] = IF n \in DOMAIN chosen THEN chosen[n] ELSE run[r].output[n]
  BY <1>3, WithHas
<1>7. SettledAt(run[r].pc) \subseteq Names /\ "node_count" \in Names
  BY NamesAre DEF SettledAt
<1>8. Pending(run[r])'
  <2>1. ASSUME NEW n \in SettledAt(run'[r].pc) \cup ChosenAt(run'[r].pc)
        PROVE  run'[r].output[n] # NoValue
    BY <1>4, <1>5, <1>6, <1>7 DEF Pending
  <2>2. \A n \in Names : run'[r].values[n] =
            IF n \in ChosenAt(run'[r].pc) THEN run'[r].output[n] ELSE run'[r].seen[n]
    BY <1>6
  <2>3. env.node_count # NoValue => run'[r].values.node_count = env.node_count
    BY <1>6, <1>7
  <2> QED
    BY <2>1, <2>2, <2>3 DEF Pending
<1>9. Counted(run[r])'
  BY <1>4, <1>6, <1>7 DEF Counted
<1>10. Agreed(run[r])'
  BY <1>1, <1>4, <1>6, <1>7 DEF Agreed
<1>11. Keeps(run[r])'
  BY <1>1, <1>6 DEF Keeps
<1> QED
  BY <1>2, <1>8, <1>9, <1>10, <1>11, Fits(run[r])' DEF RunsAreRight

LEMMA ChooseTyped ==
    ASSUME TypeOK, NEW r \in Runs, NEW pc \in Places, NEW chosen, DOMAIN chosen \subseteq Names,
           \A n \in DOMAIN chosen : chosen[n] \in ValuesOf(n), Choose(r, pc, chosen)
    PROVE  /\ run' \in [Runs -> Command] /\ \A p \in Runs \ {r} : run'[p] = run[p]
           /\ run'[r].pc = pc /\ run'[r].seen = env /\ run'[r].values = With(env, chosen)
           /\ run'[r].output = With(run[r].output, chosen)
<1>1. run \in [Runs -> Command] /\ run[r] \in Command /\ env \in Configs
  BY DEF TypeOK
<1>2. run[r].output \in Configs
  BY <1>1 DEF Command
<1>3. With(env, chosen) \in Configs /\ With(run[r].output, chosen) \in Configs
  BY <1>1, <1>2, WithHas
<1> DEFINE v == With(env, chosen)
           o == With(run[r].output, chosen)
           c == [run[r] EXCEPT !.pc = pc, !.seen = env, !.values = v, !.output = o]
<1>4. run' = [run EXCEPT ![r] = c]
  BY DEF Choose
<1> HIDE DEF v, o
<1>5. v \in Configs /\ o \in Configs
  BY <1>3 DEF v, o
<1>6. /\ c \in Command /\ c.pc = pc /\ c.seen = env /\ c.values = v /\ c.output = o
  BY <1>1, <1>5 DEF Command
<1> HIDE DEF c
<1>7. run' \in [Runs -> Command] /\ run'[r] = c /\ \A p \in Runs \ {r} : run'[p] = run[p]
  BY <1>1, <1>4, <1>6
<1> QED
  BY <1>6, <1>7 DEF v, o

\* any available value of a setting is good, and a good one that is saved is selected again
LEMMA SelectedIsGood ==
    ASSUME TypeOK, NEW n \in Names, n # "node_vm_size", NEW existing,
           NEW menu \in SUBSET AvailableTo(n),
           NEW x \in Selection(existing, env[n], AvailableTo(n), menu)
    PROVE  /\ x \in ValuesOf(n) /\ x \in AvailableTo(n)
           /\ env \in Good[n] => x = env[n]
           /\ \A c \in Configs : c[n] = x => c \in Good[n]
<1>1. x \in AvailableTo(n) /\ (env[n] \in AvailableTo(n) => x = env[n])
  BY AvailableIs, SelectionKeeps
<1>2. env \in Configs
  BY DEF TypeOK
<1> QED
  BY <1>1, <1>2, AvailableIs, GoodIs

LEMMA ChooseResourcesStep ==
    ASSUME TypeOK, RunsAreRight, NEW r \in Runs, ChooseResources(r)
    PROVE  run' \in [Runs -> Command] /\ RunsAreRight'
<1>1. run[r].pc = "sizing" /\ UNCHANGED <<env, offer, load, tier, disturbed>> /\ env \in Configs
  BY DEF ChooseResources, Stay, world, TypeOK
<1>2. PICK nodes \in ResourceSelection(r, "node_count"),
           storage \in ResourceSelection(r, "postgres_storage_gb"),
           redis \in ResourceSelection(r, "redis_sku_name"),
           vault \in ResourceSelection(r, "key_vault_sku") :
           Choose(r, "saving_sizes",
                  [node_count |-> nodes, postgres_storage_gb |-> storage,
                   redis_sku_name |-> redis, key_vault_sku |-> vault])
  BY DEF ChooseResources
<1> DEFINE chosen == [node_count |-> nodes, postgres_storage_gb |-> storage,
                      redis_sku_name |-> redis, key_vault_sku |-> vault]
<1>3. DOMAIN chosen = Settings /\ Settings \subseteq Names
  BY NamesAre
<1>4. ASSUME NEW n \in Settings
      PROVE  chosen[n] \in ResourceSelection(r, n)
  BY NamesAre
<1>5. Choose(r, "saving_sizes", chosen)
  BY <1>2
<1> HIDE DEF chosen
<1>6. ASSUME NEW n \in Settings
      PROVE  /\ chosen[n] \in ValuesOf(n) /\ chosen[n] \in AvailableTo(n)
             /\ env \in Good[n] => chosen[n] = env[n]
             /\ \A c \in Configs : c[n] = chosen[n] => c \in Good[n]
  <2>1. n \in Names /\ n # "node_vm_size" /\ n # "postgres_sku"
    BY NamesAre
  <2>2. AvailableTo(n) = Options(n)
    BY <2>1 DEF AvailableTo
  <2>3. chosen[n] \in Selection(Existing(r, n), env[n], AvailableTo(n), AvailableTo(n))
    BY <1>4, <2>2 DEF ResourceSelection
  <2> QED
    BY <2>1, <2>3, SelectedIsGood
<1>7. "saving_sizes" \in Places
  BY DEF Places, Looking, Selecting
<1>8. /\ run' \in [Runs -> Command] /\ \A p \in Runs \ {r} : run'[p] = run[p]
      /\ run'[r].pc = "saving_sizes" /\ run'[r].seen = env
      /\ run'[r].values = With(env, chosen) /\ run'[r].output = With(run[r].output, chosen)
  BY <1>3, <1>5, <1>6, <1>7, ChooseTyped
<1>9. /\ SettledAt(run[r].pc) = {} /\ SettledAt(run'[r].pc) = {}
      /\ ChosenAt(run'[r].pc) = Settings
  BY <1>1, <1>8 DEF SettledAt, ChosenAt
<1>10. env.node_count # NoValue => chosen["node_count"] = env.node_count
  <2>1. "node_count" \in Settings /\ "node_count" \in Names
    BY NamesAre
  <2>2. env.node_count # NoValue => env["node_count"] \in AvailableTo("node_count")
    BY <1>1, <2>1, ConfigHas, ValuesAre DEF AvailableTo, Options, Sizing
  <2> QED
    BY <1>1, <1>6, <2>1, <2>2, GoodIs
<1>11. Fits(run[r])'
  BY <1>9, NamesAre DEF Fits
<1>12. \A n \in DOMAIN chosen : With(env, chosen) \in Good[n] /\ (env \in Good[n] => chosen[n] = env[n])
  <2>1. With(env, chosen) \in Configs
        /\ \A n \in DOMAIN chosen : With(env, chosen)[n] = chosen[n]
    BY <1>1, <1>3, <1>6, WithHas
  <2> QED
    BY <1>3, <1>6, <2>1
<1> QED
  BY <1>1, <1>3, <1>6, <1>8, <1>9, <1>10, <1>11, <1>12, ChoosingKeepsRuns

LEMMA ChoosePostgresStep ==
    ASSUME TypeOK, RunsAreRight, NEW r \in Runs, ChoosePostgres(r)
    PROVE  run' \in [Runs -> Command] /\ RunsAreRight'
<1>1. run[r].pc = "placed" /\ UNCHANGED <<env, offer, load, tier, disturbed>> /\ env \in Configs
  BY DEF ChoosePostgres, Stay, world, TypeOK
<1>2. PICK sku \in Selection(Existing(r, "postgres_sku"), env.postgres_sku, PostgresSkus, PostgresMenu) :
          Choose(r, "saving_postgres", [postgres_sku |-> sku])
  BY DEF ChoosePostgres
<1> DEFINE chosen == [postgres_sku |-> sku]
<1>3. DOMAIN chosen = {"postgres_sku"} /\ "postgres_sku" \in Names /\ chosen["postgres_sku"] = sku
  BY NamesAre
<1>4. Choose(r, "saving_postgres", chosen)
  BY <1>2
<1> HIDE DEF chosen
<1>5. /\ sku \in ValuesOf("postgres_sku")
      /\ env \in Good["postgres_sku"] => sku = env["postgres_sku"]
      /\ \A c \in Configs : c["postgres_sku"] = sku => c \in Good["postgres_sku"]
  <2>1. AvailableTo("postgres_sku") = PostgresSkus
    BY DEF AvailableTo
  <2>2. PostgresMenu \subseteq AvailableTo("postgres_sku")
    BY <2>1, PostgresMenuIsEligible
  <2>3. sku \in Selection(Existing(r, "postgres_sku"), env["postgres_sku"],
                          AvailableTo("postgres_sku"), PostgresMenu)
    BY <1>2, <2>1
  <2> QED
    BY <1>3, <2>2, <2>3, SelectedIsGood
<1>6. "saving_postgres" \in Places
  BY DEF Places, Looking, Selecting
<1>7. /\ run' \in [Runs -> Command] /\ \A p \in Runs \ {r} : run'[p] = run[p]
      /\ run'[r].pc = "saving_postgres" /\ run'[r].seen = env
      /\ run'[r].values = With(env, chosen) /\ run'[r].output = With(run[r].output, chosen)
  BY <1>3, <1>4, <1>5, <1>6, ChooseTyped
<1>8. /\ SettledAt(run[r].pc) = Settings \cup {"node_vm_size"}
      /\ SettledAt(run'[r].pc) = Settings \cup {"node_vm_size"}
      /\ ChosenAt(run'[r].pc) = {"postgres_sku"}
  BY <1>1, <1>7 DEF SettledAt, ChosenAt
<1>9. "postgres_sku" \notin SettledAt(run[r].pc)
  BY <1>8, NamesAre
<1>10. With(env, chosen) \in Configs /\ With(env, chosen)["postgres_sku"] = sku
  BY <1>1, <1>3, <1>5, WithHas
<1>11. Fits(run[r])'
  <2>1. run[r].output \in Configs
    BY DEF TypeOK, Command
  <2>2. \A n \in Names : n # "postgres_sku" => run'[r].output[n] = run[r].output[n]
    BY <1>3, <1>5, <1>7, <2>1, WithHas
  <2>3. run'[r].output.node_count = run[r].output.node_count
        /\ run'[r].output.node_vm_size = run[r].output.node_vm_size
    BY <2>2, NamesAre
  <2>4. run'[r].free = run[r].free
    <3>1. run' = [run EXCEPT ![r].pc = "saving_postgres", ![r].seen = env,
                      ![r].values = With(env, chosen), ![r].output = With(run[r].output, chosen)]
      BY <1>4 DEF Choose
    <3>2. run \in [Runs -> Command] /\ run[r] \in Command
      BY DEF TypeOK
    <3> QED
      BY <3>1, <3>2 DEF Command
  <2>5. Fits(run[r])
    BY DEF RunsAreRight
  <2> QED
    BY <1>1, <1>8, <2>3, <2>4, <2>5 DEF Fits
<1> QED
  BY <1>1, <1>3, <1>5, <1>7, <1>8, <1>9, <1>10, <1>11, ChoosingKeepsRuns

\* unless the reported usage lags, a good node size is eligible, the foundation's own too
LEMMA GoodIsEligible ==
    ASSUME TypeOK, Founded, Standing, NEW r \in Runs, run[r].pc \in Looking, disturbed = {},
           ~Lagging, env \in Good["node_vm_size"]
    PROVE  env.node_vm_size \in Eligible(BaseSlots, env.node_count)
<1> DEFINE vm == env.node_vm_size
           n == env.node_count
<1>1. env \in Configs /\ GoodNode(env)
  BY NamesAre, GoodIs DEF TypeOK
<1>2. /\ vm \in Sizes /\ vm \in DOMAIN Catalogue /\ n \in Nat
      /\ n # NoValue /\ vm # NoValue /\ Catalogue[vm].family \in Quotas
  BY <1>1, NodesTyped, SizesAre DEF GoodNode
<1>3. BaseSlots \subseteq Slots /\ Running \subseteq Slots
  BY DEF Slots, Running
<1>4. ASSUME NEW q \in {"cores", Catalogue[vm].family}
      PROVE  /\ OwnedCores(q) <= Usage(q)
             /\ Usage(q) + Max({0, RequiredCores(BaseSlots, n, vm) - OwnedCores(q)}) <= Limits[q]
  <2> DEFINE needed == RequiredCores(BaseSlots, n, vm)
  <2>1. q \in Quotas
    BY <1>2, SizingAssumption DEF Quotas
  <2>2. needed \in Nat
    BY <1>2, <1>3, RequiredTyped
  <2>3. load[q] + needed <= Limits[q]
    BY <1>1 DEF GoodNode
  <2> HIDE DEF needed
  <2>4. /\ OwnedCores(q) \in Nat /\ Usage(q) \in Nat /\ load[q] \in Nat /\ Limits[q] \in Nat
        /\ record.state = "none" => OwnedCores(q) = 0 /\ Usage(q) = load[q]
        /\ counted \subseteq Running => Usage(q) <= load[q] + OwnedCores(q)
    BY <2>1, UsageTyped
  <2>5. OwnedCores(q) <= Usage(q)
    BY <2>1, <2>4 DEF Lagging
  <2>6. Max({0, needed - OwnedCores(q)})
          = IF needed - OwnedCores(q) <= 0 THEN 0 ELSE needed - OwnedCores(q)
    BY <2>2, <2>4, AtLeastNone
  <2>7. CASE record.state = "none"
    BY <2>2, <2>3, <2>4, <2>5, <2>6, <2>7 DEF needed
  <2>8. CASE record.state # "none"
    <3>1. record.sizes = env /\ counted \subseteq Running /\ WithinQuotas(Running)
      BY <2>8 DEF Standing
    <3>2. load[q] + CoresOf(Running, q, env) <= Limits[q]
      BY <3>1 DEF WithinQuotas
    <3>3. CoresOf(Running, q, env) \in Nat
      BY <1>1, <1>2, <1>3, <2>1, CoresTyped
    <3>4. OwnedCores(q) = 0 \/ OwnedCores(q) = CoresOf(Running, q, env)
      BY <3>1 DEF OwnedCores
    <3>5. Usage(q) <= load[q] + OwnedCores(q) /\ load[q] + OwnedCores(q) <= Limits[q]
      BY <2>4, <3>1, <3>2, <3>3, <3>4
    <3>6. Usage(q) + Max({0, needed - OwnedCores(q)}) <= Limits[q]
      BY <2>2, <2>3, <2>4, <2>6, <3>5
    <3> QED
      BY <2>5, <3>6 DEF needed
  <2> QED
    BY <2>7, <2>8
<1>5. CoresFit(BaseSlots, n, vm)
  BY <1>4 DEF CoresFit
<1> QED
  BY <1>2, <1>5 DEF Eligible

LEMMA ChooseNodeStep ==
    ASSUME TypeOK, RunsAreRight, Founded, Standing, NEW r \in Runs, ChooseNode(r)
    PROVE  run' \in [Runs -> Command] /\ RunsAreRight'
<1> DEFINE n == NodeCount
           eligible == Eligible(BaseSlots, n)
<1>1. /\ run[r].pc = "sized" /\ UNCHANGED <<env, offer, load, tier>> /\ env \in Configs
      /\ disturbed' = IF Lagging THEN disturbed \cup {"usage"} ELSE disturbed
  BY DEF ChooseNode, ChooseNodeFor, world, TypeOK
<1>2. PICK vm \in Selection(Existing(r, "node_vm_size"), env.node_vm_size, eligible, Menu(eligible)) :
          run' = [run EXCEPT ![r].pc = "saving_node", ![r].seen = env,
                             ![r].values = With(env, [node_vm_size |-> vm]),
                             ![r].output = With(run[r].output, [node_vm_size |-> vm]), ![r].free = Free]
  BY Zenon DEF ChooseNode, ChooseNodeFor
<1>3. /\ vm \in eligible /\ (env.node_vm_size \in eligible => vm = env.node_vm_size)
      /\ eligible \subseteq Sizes /\ NoValue \notin eligible /\ CoresFit(BaseSlots, n, vm)
  <2>1. eligible \subseteq Sizes /\ NoValue \notin eligible
        /\ \A v \in eligible : CoresFit(BaseSlots, n, v)
    BY EligibleIs
  <2>2. Menu(eligible) \subseteq eligible
    BY MenuIsEligible
  <2> HIDE DEF eligible
  <2> QED
    BY <2>1, <2>2, SelectionKeeps
<1> DEFINE chosen == [node_vm_size |-> vm]
           v == With(env, chosen)
           o == With(run[r].output, chosen)
<1>4. DOMAIN chosen = {"node_vm_size"} /\ "node_vm_size" \in Names /\ chosen["node_vm_size"] = vm
  BY NamesAre
<1>5. vm \in Sizes /\ vm \in DOMAIN Catalogue /\ vm \in ValuesOf("node_vm_size") /\ vm # NoValue
  BY <1>3, SizesAre, ValuesAre
<1>6. run \in [Runs -> Command] /\ run[r] \in Command /\ run[r].output \in Configs
  BY DEF TypeOK, Command
<1>7. run' = [run EXCEPT ![r] =
         [run[r] EXCEPT !.pc = "saving_node", !.seen = env, !.values = v, !.output = o, !.free = Free]]
  BY <1>2
<1> HIDE DEF chosen, n, eligible
<1>8. /\ v \in Configs /\ o \in Configs
      /\ \A m \in Names : v[m] = IF m = "node_vm_size" THEN vm ELSE env[m]
      /\ \A m \in Names : o[m] = IF m = "node_vm_size" THEN vm ELSE run[r].output[m]
  BY <1>1, <1>4, <1>5, <1>6, WithHas
<1> HIDE DEF v, o
<1>9. Free \in [Quotas -> Int]
  BY FreeTyped
<1> DEFINE c == [run[r] EXCEPT !.pc = "saving_node", !.seen = env, !.values = v, !.output = o,
                               !.free = Free]
<1>10. /\ c \in Command /\ c.pc = "saving_node" /\ c.seen = env /\ c.values = v
       /\ c.output = o /\ c.free = Free
  BY <1>1, <1>6, <1>8, <1>9 DEF Command, Places, Looking, Selecting
<1>11. run' = [run EXCEPT ![r] = c]
  BY <1>7
<1> HIDE DEF c
<1>12. /\ run' \in [Runs -> Command] /\ \A p \in Runs \ {r} : run'[p] = run[p]
       /\ run'[r].pc = "saving_node" /\ run'[r].seen = env /\ run'[r].values = v
       /\ run'[r].output = o /\ run'[r].free = Free
  BY <1>6, <1>10, <1>11
<1>13. /\ SettledAt(run[r].pc) = Settings /\ SettledAt(run'[r].pc) = Settings
       /\ ChosenAt(run'[r].pc) = {"node_vm_size"} /\ "node_vm_size" \notin Settings
       /\ "node_count" \in Settings /\ "node_count" \in Names
  BY <1>1, <1>12, NamesAre DEF SettledAt, ChosenAt
<1>14. Pending(run[r]) /\ Counted(run[r]) /\ Agreed(run[r])
  BY DEF RunsAreRight
<1>15. "env" \notin disturbed =>
          env.node_count = run[r].output.node_count /\ n = env.node_count /\ env.node_count # NoValue
  <2>1. run[r].output["node_count"] # NoValue
    BY <1>13, <1>14 DEF Pending
  <2> QED
    BY <1>13, <1>14, <2>1 DEF Counted, n, NodeCount
<1>16. n \in Nat
  BY <1>1, NodesTyped DEF n, NodeCount
<1>17. Fits(run[r])'
  <2> SUFFICES ASSUME "env" \notin disturbed, NEW q \in {"cores", Catalogue[o.node_vm_size].family}
               PROVE  RequiredCores(BaseSlots, o.node_count, o.node_vm_size) <= Free[q]
    BY <1>1, <1>12 DEF Fits
  <2>1. o.node_vm_size = vm /\ o.node_count = n
    BY <1>4, <1>8, <1>13, <1>15
  <2>2. q \in Quotas /\ RequiredCores(BaseSlots, n, vm) <= Limits[q] - Usage(q) + OwnedCores(q)
    BY <1>3, <1>5, <1>16, <2>1, FitsFree
  <2> QED
    BY <2>1, <2>2 DEF Free
<1>18. ASSUME disturbed' = {}
       PROVE  v \in Good["node_vm_size"]
              /\ (env \in Good["node_vm_size"] => vm = env["node_vm_size"])
  <2>1. disturbed = {} /\ ~Lagging
    BY <1>1, <1>18
  <2>2. n = env.node_count /\ env.node_count # NoValue
    BY <1>15, <2>1
  <2>3. run[r].pc \in Looking
    BY <1>1 DEF Looking, Selecting
  <2>4. ASSUME env \in Good["node_vm_size"]
        PROVE  vm = env.node_vm_size
    <3>1. env.node_vm_size \in eligible
      BY <2>1, <2>2, <2>3, <2>4, GoodIsEligible DEF eligible
    <3> QED
      BY <1>3, <3>1
  <2>5. CASE record.state # "none"
    <3>1. env \in Good["node_vm_size"]
      BY <1>4, <2>1, <2>3, <2>5 DEF Standing
    <3>2. v["node_vm_size"] = env["node_vm_size"] /\ v.node_count = env.node_count
      BY <1>4, <1>8, <1>13, <2>4, <3>1
    <3> QED
      BY <1>1, <1>4, <1>8, <2>4, <3>1, <3>2, GoodAgrees
  <2>6. CASE record.state = "none"
    <3>1. v.node_vm_size = vm /\ v.node_count = n
      BY <1>4, <1>8, <1>13, <2>2
    <3>2. ASSUME NEW q \in {"cores", Catalogue[vm].family}
          PROVE  load[q] + RequiredCores(BaseSlots, n, vm) <= Limits[q]
      <4>1. q \in Quotas /\ RequiredCores(BaseSlots, n, vm) <= Limits[q] - Usage(q) + OwnedCores(q)
        BY <1>3, <1>5, <1>16, FitsFree
      <4>2. OwnedCores(q) = 0 /\ Usage(q) = load[q] /\ load[q] \in Nat /\ Limits[q] \in Nat
        BY <2>6, <4>1, UsageTyped
      <4>3. RequiredCores(BaseSlots, n, vm) \in Nat
        BY <1>5, <1>16, RequiredTyped DEF Slots
      <4> QED
        BY <4>1, <4>2, <4>3
    <3>3. GoodNode(v)
      BY <1>5, <2>2, <3>1, <3>2 DEF GoodNode
    <3> QED
      BY <1>4, <1>8, <2>4, <3>3, GoodIs
  <2> QED
    BY <2>4, <2>5, <2>6
<1>19. v = With(env, chosen) /\ o = With(run[r].output, chosen)
  BY DEF v, o
<1>20. disturbed \subseteq disturbed'
  BY <1>1
<1>21. run'[r].values = With(env, chosen) /\ run'[r].output = With(run[r].output, chosen)
  BY <1>12, <1>19
<1>22. disturbed' = {} => \A m \in DOMAIN chosen :
          With(env, chosen) \in Good[m] /\ (env \in Good[m] => chosen[m] = env[m])
  BY <1>4, <1>18, <1>19
<1>23. RunsAreRight'
  BY <1>1, <1>4, <1>5, <1>12, <1>13, <1>17, <1>20, <1>21, <1>22, ChoosingKeepsRuns
<1> QED
  BY <1>12, <1>23

-----------------------------------------------------------------------------
(* Saving *)

\* what is saved keeps every good value, and every node count
LEMMA SavedKeeps ==
    ASSUME TypeOK, RunsAreRight, NEW r \in Runs, Save(r)
    PROVE  /\ run[r].pc \in {"saving_sizes", "saving_node", "saving_postgres"}
           /\ env' \in Configs /\ env' = run[r].values
           /\ env.node_count # NoValue => env'.node_count = env.node_count
           /\ \A n \in Names :
                 env'[n] = IF n \in ChosenAt(run[r].pc) THEN run[r].output[n] ELSE env[n]
           /\ disturbed = {} => \A n \in Names :
                 env \in Good[n] => env'[n] = env[n] /\ env' \in Good[n]
<1>1. /\ run[r].pc \in {"saving_sizes", "saving_node", "saving_postgres"}
      /\ env = run[r].seen /\ env' = run[r].values
  BY DEF Save, Saved, NextPhase
<1>2. env \in Configs /\ run[r].values \in Configs
  BY DEF TypeOK, Command
<1>3. Pending(run[r]) /\ Keeps(run[r])
  BY DEF RunsAreRight
<1>4. ChosenAt(run[r].pc) # {}
  BY <1>1, NamesAre DEF ChosenAt
<1>5. /\ \A n \in Names :
            env'[n] = IF n \in ChosenAt(run[r].pc) THEN run[r].output[n] ELSE env[n]
      /\ env.node_count # NoValue => env'.node_count = env.node_count
  BY <1>1, <1>3, <1>4 DEF Pending
<1>6. ASSUME disturbed = {}, NEW n \in Names, env \in Good[n]
      PROVE  env'[n] = env[n] /\ env' \in Good[n]
  <2>1. env'[n] = env[n]
    BY <1>1, <1>3, <1>5, <1>6 DEF Keeps
  <2> QED
    BY <1>1, <1>2, <1>5, <1>6, <2>1, GoodAgrees
<1> QED
  BY <1>1, <1>2, <1>5, <1>6

LEMMA SaveStep ==
    ASSUME TypeOK, RunsAreRight, NEW r \in Runs, Save(r)
    PROVE  run' \in [Runs -> Command] /\ RunsAreRight'
<1>1. /\ run[r].pc \in {"saving_sizes", "saving_node", "saving_postgres"}
      /\ env' \in Configs /\ env' = run[r].values
      /\ env.node_count # NoValue => env'.node_count = env.node_count
      /\ \A n \in Names :
            env'[n] = IF n \in ChosenAt(run[r].pc) THEN run[r].output[n] ELSE env[n]
      /\ disturbed = {} => \A n \in Names :
            env \in Good[n] => env'[n] = env[n] /\ env' \in Good[n]
  BY SavedKeeps
<1>2. /\ run' = [run EXCEPT ![r].pc = NextPhase[run[r].pc], ![r].seen = Unsaved,
                            ![r].values = Unsaved]
      /\ UNCHANGED <<offer, load, tier, disturbed>>
  BY DEF Save, Saved, world
<1>3. run \in [Runs -> Command] /\ run[r] \in Command /\ Unsaved \in Configs
  BY UnsavedIsConfig DEF TypeOK
<1> DEFINE pc == NextPhase[run[r].pc]
           c == [run[r] EXCEPT !.pc = pc, !.seen = Unsaved, !.values = Unsaved]
<1>4. /\ pc \in {"sized", "placed", "chosen"} /\ ChosenAt(pc) = {}
      /\ SettledAt(pc) = SettledAt(run[r].pc) \cup ChosenAt(run[r].pc)
      /\ SettledAt(pc) \subseteq Names
  BY <1>1, NamesAre DEF NextPhase, SettledAt, ChosenAt
<1>5. run' = [run EXCEPT ![r] = c]
  BY <1>2
<1> HIDE DEF pc
<1>6. c \in Command /\ c.pc = pc /\ c.output = run[r].output /\ c.free = run[r].free
  BY <1>3, <1>4 DEF Command, Places, Looking, Selecting
<1> HIDE DEF c
<1>7. /\ run' \in [Runs -> Command] /\ \A p \in Runs \ {r} : run'[p] = run[p]
      /\ run'[r].pc = pc /\ run'[r].output = run[r].output /\ run'[r].free = run[r].free
  BY <1>3, <1>5, <1>6
<1>8. Good' = Good
  BY <1>2, GoodStays
<1>9. "node_count" \in Names /\ \A q \in Places : SettledAt(q) \subseteq Names
  BY NamesAre DEF SettledAt
<1>10. ASSUME NEW p \in Runs, p # r
       PROVE  (Pending(run[p]) /\ Counted(run[p]) /\ Fits(run[p]) /\ Agreed(run[p]) /\ Keeps(run[p]))'
  <2>1. run'[p] = run[p] /\ run[p].pc \in Places
    BY <1>3, <1>7, <1>10 DEF Command
  <2>2. Pending(run[p]) /\ Counted(run[p]) /\ Fits(run[p]) /\ Agreed(run[p]) /\ Keeps(run[p])
    BY DEF RunsAreRight
  <2>3. Counted(run[p])'
    <3>1. "node_count" \in SettledAt(run[p].pc) => run[p].output["node_count"] # NoValue
      BY <2>2 DEF Pending
    <3> QED
      BY <1>1, <1>2, <2>1, <2>2, <3>1 DEF Counted
  <2>4. Agreed(run[p])'
    BY <1>1, <1>2, <1>8, <1>9, <2>1, <2>2 DEF Agreed
  <2>5. Pending(run[p])' /\ Fits(run[p])' /\ Keeps(run[p])'
    BY <1>2, <1>8, <2>1, <2>2 DEF Pending, Fits, Keeps
  <2> QED
    BY <2>3, <2>4, <2>5
<1>11. (Pending(run[r]) /\ Counted(run[r]) /\ Fits(run[r]) /\ Agreed(run[r]) /\ Keeps(run[r]))'
  <2>1. Pending(run[r]) /\ Counted(run[r]) /\ Fits(run[r]) /\ Agreed(run[r]) /\ Keeps(run[r])
    BY DEF RunsAreRight
  <2>2. Pending(run[r])' /\ Fits(run[r])' /\ Keeps(run[r])'
    BY <1>2, <1>4, <1>7, <2>1 DEF Pending, Fits, Keeps
  <2>3. Counted(run[r])'
    <3>1. "node_count" \in SettledAt(run[r].pc) => run[r].output["node_count"] # NoValue
      BY <2>1 DEF Pending
    <3>2. "node_count" \in ChosenAt(run[r].pc) => env'.node_count = run[r].output.node_count
      BY <1>1, <1>9
    <3> QED
      BY <1>1, <1>2, <1>4, <1>7, <2>1, <3>1, <3>2 DEF Counted
  <2>4. Agreed(run[r])'
    <3> SUFFICES ASSUME disturbed = {}, NEW n \in SettledAt(run[r].pc) \cup ChosenAt(run[r].pc)
                 PROVE  run[r].output[n] = env'[n] /\ env' \in Good[n]
      BY <1>2, <1>4, <1>7, <1>8 DEF Agreed
    <3>1. n \in Names
      BY <1>4
    <3>2. CASE n \in ChosenAt(run[r].pc)
      BY <1>1, <2>1, <3>1, <3>2 DEF Keeps
    <3>3. CASE n \notin ChosenAt(run[r].pc)
      BY <1>1, <2>1, <3>1, <3>3 DEF Agreed
    <3> QED
      BY <3>2, <3>3
  <2> QED
    BY <2>2, <2>3, <2>4
<1> QED
  BY <1>7, <1>10, <1>11 DEF RunsAreRight

-----------------------------------------------------------------------------
(* Azure, the rest of the subscription, and the operator's editor *)

\* a change of env or of what is available, which is marked while a command selects
LEMMA WorldKeepsRuns ==
    ASSUME RunsAreRight, run' = run, disturbed \subseteq disturbed',
           disturbed' = {} =>
               \/ UNCHANGED <<env, offer, load, tier>>
               \/ \A r \in Runs : run[r].pc \notin Looking,
           "env" \notin disturbed' => env' = env \/ \A r \in Runs : run[r].pc \notin Looking
    PROVE  RunsAreRight'
<1> SUFFICES ASSUME NEW r \in Runs
             PROVE  (Pending(run[r]) /\ Counted(run[r]) /\ Fits(run[r]) /\ Agreed(run[r]) /\ Keeps(run[r]))'
  BY DEF RunsAreRight
<1>1. Pending(run[r]) /\ Counted(run[r]) /\ Fits(run[r]) /\ Agreed(run[r]) /\ Keeps(run[r])
  BY DEF RunsAreRight
<1>2. run[r].pc \notin Looking => SettledAt(run[r].pc) = {} /\ ChosenAt(run[r].pc) = {}
  BY NothingChosen DEF Looking
<1>3. Pending(run[r])' /\ Fits(run[r])'
  BY <1>1 DEF Pending, Fits
<1>4. Counted(run[r])'
  BY <1>1, <1>2 DEF Counted
<1>5. Agreed(run[r])' /\ Keeps(run[r])'
  <2>1. CASE UNCHANGED <<env, offer, load, tier>>
    BY <1>1, <2>1, GoodStays DEF Agreed, Keeps
  <2>2. CASE run[r].pc \notin Looking
    BY <1>2, <2>2 DEF Agreed, Keeps
  <2>3. CASE disturbed' # {}
    BY <2>3 DEF Agreed, Keeps
  <2> QED
    BY <2>1, <2>2, <2>3
<1> QED
  BY <1>3, <1>4, <1>5

LEMMA DisturbMarks ==
    ASSUME NEW what \in {"env", "offer"}, Disturb(what), disturbed \subseteq {"env", "offer", "usage"}
    PROVE  /\ disturbed \subseteq disturbed' /\ disturbed' \subseteq {"env", "offer", "usage"}
           /\ what \notin disturbed' => \A r \in Runs : run[r].pc \notin Looking
<1>1. Underway = {} => \A r \in Runs : run[r].pc \notin Looking
  BY DEF Underway, Looking, Selecting
<1> QED
  BY <1>1 DEF Disturb

LEMMA StandingStays ==
    ASSUME Standing, UNCHANGED <<env, record, cluster, counted, offer, load, tier>>,
           disturbed \subseteq disturbed',
           record.state # "none" =>
               \A r \in Runs : run'[r].pc \in Looking => \E p \in Runs : run[p].pc \in Looking
    PROVE  Standing'
<1>1. Good' = Good
  BY GoodStays
<1> QED
  BY <1>1 DEF Standing, Running, WithinQuotas, CoresOf

LEMMA StandingEnds ==
    ASSUME disturbed' = {} => \A r \in Runs : run'[r].pc \notin Looking
    PROVE  Standing'
BY DEF Standing

-----------------------------------------------------------------------------
(* The inductive invariant *)

LEMMA InitIInv == Init => IInv
<1> SUFFICES ASSUME Init PROVE IInv
  OBVIOUS
<1>1. Unsaved \in Configs
  BY UnsavedIsConfig
<1>2. Fresh \in Command /\ Fresh.pc = "idle"
  <2>1. "idle" \in Places
    BY DEF Places
  <2>2. Fresh \in Command
    BY <1>1, <2>1, FreshTyped
  <2> QED
    BY <2>2 DEF Fresh
<1>3. TypeOK
  BY <1>1, <1>2 DEF Init, TypeOK
<1>4. \A r \in Runs : run[r] = Fresh
  BY DEF Init
<1>5. SettledAt("idle") = {} /\ ChosenAt("idle") = {}
  BY DEF SettledAt, ChosenAt
<1>6. RunsAreRight
  BY <1>2, <1>4, <1>5 DEF RunsAreRight, Pending, Counted, Fits, Agreed, Keeps
<1>7. Founded /\ Standing
  BY DEF Init, Founded, Standing
<1> QED
  BY <1>3, <1>6, <1>7 DEF IInv

\* what a step leaves to show that changes no cluster and no deployment
LEMMA AzureStays ==
    ASSUME TypeOK, Founded, UNCHANGED azure, run' \in [Runs -> Command], env' \in Configs,
           offer' \in Offers, load' \in Loads, tier' \in Tiers,
           disturbed' \subseteq {"env", "offer", "usage"}
    PROVE  TypeOK' /\ Founded'
BY DEF TypeOK, Founded, azure

LEMMA ChoosingStep ==
    ASSUME IInv, NEW r \in Runs, ChooseResources(r) \/ ChooseNode(r) \/ ChoosePostgres(r)
    PROVE  IInv'
<1>1. TypeOK /\ RunsAreRight /\ Founded /\ Standing
  BY DEF IInv
<1>2. run' \in [Runs -> Command] /\ RunsAreRight'
  BY <1>1, ChooseResourcesStep, ChooseNodeStep, ChoosePostgresStep
<1>3. /\ UNCHANGED <<env, azure, offer, load, tier>> /\ run[r].pc \in Looking
      /\ disturbed \subseteq disturbed' /\ disturbed' \subseteq disturbed \cup {"usage"}
  BY DEF ChooseResources, ChooseNode, ChooseNodeFor, ChoosePostgres, Stay, world,
         Looking, Selecting
<1>4. TypeOK' /\ Founded'
  BY <1>1, <1>2, <1>3, AzureStays DEF TypeOK
<1>5. Standing'
  BY <1>1, <1>3, StandingStays DEF azure
<1> QED
  BY <1>2, <1>4, <1>5 DEF IInv

LEMMA SavingStep ==
    ASSUME IInv, NEW r \in Runs, Save(r)
    PROVE  IInv'
<1>1. TypeOK /\ RunsAreRight /\ Founded /\ Standing
  BY DEF IInv
<1>2. run' \in [Runs -> Command] /\ RunsAreRight'
  BY <1>1, SaveStep
<1>3. /\ run[r].pc \in {"saving_sizes", "saving_node", "saving_postgres"} /\ env' \in Configs
      /\ disturbed = {} => \A n \in Names :
            env \in Good[n] => env'[n] = env[n] /\ env' \in Good[n]
  BY <1>1, SavedKeeps
<1>4. UNCHANGED <<azure, offer, load, tier, disturbed>> /\ run[r].pc \in Looking
  BY <1>3 DEF Save, Saved, world, Looking, Selecting
<1>5. TypeOK' /\ Founded'
  BY <1>1, <1>2, <1>3, <1>4, AzureStays DEF TypeOK
<1>6. Standing'
  <2>1. CASE disturbed = {} /\ record.state # "none"
    <3>1. \A n \in Names : env \in Good[n]
      BY <1>1, <1>4, <2>1 DEF Standing
    <3>2. env' = env
      BY <1>1, <1>3, <2>1, <3>1, ConfigsEqual DEF TypeOK
    <3> QED
      BY <1>1, <1>4, <3>2, StandingStays DEF azure
  <2>2. CASE ~(disturbed = {} /\ record.state # "none")
    BY <1>4, <2>2 DEF Standing, azure
  <2> QED
    BY <2>1, <2>2
<1> QED
  BY <1>2, <1>5, <1>6 DEF IInv

\* the deployment that is sent is what .env says, and the clusters there are are its own
LEMMA SubmitStep ==
    ASSUME IInv, NEW r \in Runs, Submit(r)
    PROVE  IInv'
<1>1. TypeOK /\ RunsAreRight /\ Founded /\ Standing
  BY DEF IInv
<1>2. run' \in [Runs -> Command] /\ Moves(r)
  BY <1>1, QuietMoves DEF Quiet
<1>3. RunsAreRight'
  BY <1>1, <1>2, MovesKeepRuns
<1>4. /\ run[r].pc = "submitting" /\ run[r].pc \in Looking
      /\ UNCHANGED <<env, cluster, counted, offer, load, tier, disturbed>>
  BY DEF Submit, world, Looking, Selecting
<1>5. CASE record' = record
  <2>1. TypeOK' /\ Founded'
    BY <1>1, <1>2, <1>4, <1>5, AzureStays DEF TypeOK, azure
  <2>2. Standing'
    BY <1>1, <1>4, <1>5, StandingStays
  <2> QED
    BY <1>3, <2>1, <2>2 DEF IInv
<1>6. CASE record' = [state |-> "running", sizes |-> run[r].output]
  <2>1. run[r].output \in Configs /\ env \in Configs
    BY <1>1 DEF TypeOK, Command
  <2>2. TypeOK'
    BY <1>1, <1>2, <1>4, <1>6, <2>1 DEF TypeOK
  <2>3. SettledAt(run[r].pc) = Names
    BY <1>4 DEF SettledAt
  <2>4. Pending(run[r]) /\ Agreed(run[r])
    BY <1>1 DEF RunsAreRight
  <2>5. \A n \in Names : run[r].output[n] # NoValue
    BY <2>3, <2>4 DEF Pending
  <2>6. Founded'
    BY <1>6, <2>5 DEF Founded
  <2>7. Standing'
    <3> SUFFICES ASSUME disturbed = {}
                 PROVE  Standing'
      BY <1>4 DEF Standing
    <3>1. \A n \in Names : run[r].output[n] = env[n] /\ env \in Good[n]
      BY <2>3, <2>4 DEF Agreed
    <3>2. run[r].output = env
      BY <2>1, <3>1, ConfigsEqual
    <3>3. Good' = Good
      BY <1>4, GoodStays
    <3>4. CASE record.state # "none"
      <4>1. record'.sizes = record.sizes /\ record.sizes = env
        BY <1>1, <1>4, <1>6, <3>2, <3>4 DEF Standing
      <4>2. /\ counted \subseteq Running /\ \A s \in Slots : cluster[s] # "stopped"
            /\ WithinQuotas(Running)
        BY <1>1, <1>4, <3>4 DEF Standing
      <4>3. WithinQuotas(Running)'
        BY <1>4, <4>1, <4>2 DEF WithinQuotas, CoresOf, Running
      <4> QED
        BY <1>4, <3>1, <3>3, <4>1, <4>2, <4>3 DEF Standing, Running
    <3>5. CASE record.state = "none"
      <4>1. counted = {} /\ Running = {} /\ \A s \in Slots : cluster[s] = "absent"
        BY <1>1, <3>5 DEF Founded, Running
      <4>2. Running' = {} /\ record'.sizes = env
        BY <1>4, <1>6, <3>2, <4>1 DEF Running
      <4>3. "node_vm_size" \in Names /\ GoodNode(env)
        BY <2>1, <3>1, NamesAre, GoodIs
      <4>4. ASSUME NEW q \in {"cores", Catalogue[env.node_vm_size].family}
            PROVE  load[q] + CoresOf({}, q, env) <= Limits[q]
        <5>1. env.node_vm_size # NoValue /\ env.node_count # NoValue
          BY <1>1, <4>3, SizesAre DEF GoodNode
        <5>2. q \in Quotas
          BY <2>1, <5>1, NodesTyped, SizingAssumption DEF Quotas
        <5> DEFINE needed == RequiredCores(BaseSlots, env.node_count, env.node_vm_size)
                   empty == CoresOf({}, q, env)
        <5>3. needed \in Nat /\ empty \in Nat /\ empty <= needed
          BY <2>1, <5>1, <5>2, CoresTyped DEF Slots
        <5>4. load[q] + needed <= Limits[q]
          BY <4>3 DEF GoodNode
        <5>5. load[q] \in Nat /\ Limits[q] \in Nat
          BY <1>1, <5>2, UsageTyped
        <5> HIDE DEF needed, empty
        <5>6. load[q] + empty <= Limits[q]
          BY <5>3, <5>4, <5>5
        <5> QED
          BY <5>6 DEF empty
      <4>5. WithinQuotas(Running)'
        BY <1>4, <4>2, <4>4 DEF WithinQuotas, CoresOf
      <4> QED
        BY <1>4, <3>1, <3>3, <4>1, <4>2, <4>5 DEF Standing
    <3> QED
      BY <3>4, <3>5
  <2> QED
    BY <1>3, <2>2, <2>6, <2>7 DEF IInv
<1> QED
  BY <1>5, <1>6 DEF Submit

LEMMA QuietStep ==
    ASSUME IInv, NEW r \in Runs, Quiet(r)
    PROVE  IInv'
<1>1. TypeOK /\ RunsAreRight /\ Founded /\ Standing
  BY DEF IInv
<1>2. run' \in [Runs -> Command] /\ Moves(r)
  BY <1>1, QuietMoves
<1>3. RunsAreRight' /\ UNCHANGED <<env, offer, load, tier, disturbed>>
  BY <1>1, <1>2, MovesKeepRuns DEF Moves
<1>4. record.state # "none" =>
          \A q \in Runs : run'[q].pc \in Looking => \E p \in Runs : run[p].pc \in Looking
  BY <1>2 DEF Moves
<1>5. CASE UNCHANGED azure
  <2>1. TypeOK' /\ Founded'
    BY <1>1, <1>2, <1>3, <1>5, AzureStays DEF TypeOK
  <2>2. Standing'
    BY <1>1, <1>3, <1>4, <1>5, StandingStays DEF azure
  <2> QED
    BY <1>3, <2>1, <2>2 DEF IInv
<1>6. CASE Submit(r)
  BY <1>6, SubmitStep
<1>7. CASE /\ UNCHANGED <<record, counted>> /\ record.state = "succeeded"
           /\ cluster' = [s \in Slots |->
                  IF s \in AddedSlots /\ cluster[s] = "absent" THEN "planned" ELSE cluster[s]]
  <2>1. TypeOK' /\ Founded'
    BY <1>1, <1>2, <1>3, <1>7 DEF TypeOK, Founded
  <2>2. Standing'
    <3> SUFFICES ASSUME disturbed = {}, NEW p \in Runs, run[p].pc \in Looking
                 PROVE  Standing'
      BY <1>3, <1>4, <1>7 DEF Standing
    <3>1. Good' = Good
      BY <1>3, GoodStays
    <3>2. Running' = Running
      BY <1>7 DEF Running
    <3>3. /\ record.sizes = env /\ \A n \in Names : env \in Good[n]
          /\ counted \subseteq Running /\ \A s \in Slots : cluster[s] # "stopped"
          /\ WithinQuotas(Running)
      BY <1>1, <1>7 DEF Standing
    <3>4. WithinQuotas(Running)'
      BY <1>3, <1>7, <3>2, <3>3 DEF WithinQuotas, CoresOf
    <3> QED
      BY <1>3, <1>7, <3>1, <3>2, <3>3, <3>4 DEF Standing
  <2> QED
    BY <1>3, <2>1, <2>2 DEF IInv
<1>8. UNCHANGED azure \/ Submit(r)
      \/ /\ UNCHANGED <<record, counted>> /\ record.state = "succeeded"
         /\ cluster' = [s \in Slots |->
                IF s \in AddedSlots /\ cluster[s] = "absent" THEN "planned" ELSE cluster[s]]
  <2>1. ASSUME NEW added \in BOOLEAN, Begin(r, added)
        PROVE  UNCHANGED azure
    BY <2>1 DEF Begin, Stay
  <2>2. Inventory(r) \/ CheckPrior(r) \/ Wait(r) \/ Compare(r) \/ Stop(r) \/ Rerun(r) => UNCHANGED azure
    BY DEF Inventory, CheckPrior, Wait, Compare, Stop, Rerun, Stay
  <2>3. Add(r) =>
          UNCHANGED azure
          \/ /\ UNCHANGED <<record, counted>> /\ record.state = "succeeded"
             /\ cluster' = [s \in Slots |->
                    IF s \in AddedSlots /\ cluster[s] = "absent" THEN "planned" ELSE cluster[s]]
    BY DEF Add, SameSizes, azure
  <2> QED
    BY <2>1, <2>2, <2>3 DEF Quiet
<1> QED
  BY <1>5, <1>6, <1>7, <1>8

LEMMA EndDeploymentStep ==
    ASSUME IInv, NEW state \in {"succeeded", "failed"}, EndDeployment(state)
    PROVE  IInv'
<1>1. TypeOK /\ RunsAreRight /\ Founded /\ Standing
  BY DEF IInv
<1>2. /\ record.state = "running" /\ record' = [record EXCEPT !.state = state]
      /\ UNCHANGED <<env, run, cluster, counted, offer, load, tier, disturbed>>
  BY DEF EndDeployment, world
<1>3. /\ record' \in [state : {"none", "running", "succeeded", "failed"}, sizes : Configs]
      /\ record'.sizes = record.sizes /\ record'.state # "none"
  BY <1>1, <1>2 DEF TypeOK
<1>4. TypeOK' /\ Founded'
  BY <1>1, <1>2, <1>3 DEF TypeOK, Founded
<1>5. RunsAreRight'
  BY <1>1, <1>2, WorldKeepsRuns
<1>6. Good' = Good
  BY <1>2, GoodStays
<1>7. Standing'
  BY <1>1, <1>2, <1>3, <1>6 DEF Standing, Running, WithinQuotas, CoresOf
<1> QED
  BY <1>4, <1>5, <1>7 DEF IInv

LEMMA ClusterStepStep ==
    ASSUME IInv, NEW s \in Slots, ClusterStep(s)
    PROVE  IInv'
<1>1. TypeOK /\ RunsAreRight /\ Founded /\ Standing
  BY DEF IInv
<1>2. PICK to \in {"creating", "running", "stopped"} : cluster' = [cluster EXCEPT ![s] = to]
  BY DEF ClusterStep, Becomes
<1>3. UNCHANGED <<env, run, record, counted, offer, load, tier>>
  BY DEF ClusterStep, Becomes, world
<1>4. /\ disturbed \subseteq disturbed' /\ disturbed' \subseteq {"env", "offer", "usage"}
      /\ /\ Becomes(s, "running", "stopped") \/ Becomes(s, "stopped", "running")
         /\ disturbed' = {}
         => \A r \in Runs : run[r].pc \notin Looking
  <2>1. CASE UNCHANGED disturbed
                /\ ~(Becomes(s, "running", "stopped") \/ Becomes(s, "stopped", "running"))
    BY <1>1, <2>1 DEF TypeOK
  <2>2. CASE Disturb("offer")
    BY <1>1, <2>2, DisturbMarks DEF TypeOK
  <2>3. \A a, b : Becomes(s, a, b) => cluster[s] = a
    BY DEF Becomes
  <2> QED
    BY <2>1, <2>2, <2>3 DEF ClusterStep
<1>5. record.state # "none"
  BY <1>1 DEF ClusterStep, Becomes, Founded
<1>6. TypeOK' /\ Founded'
  BY <1>1, <1>2, <1>3, <1>4, <1>5 DEF TypeOK, Founded
<1>7. RunsAreRight'
  BY <1>1, <1>3, <1>4, WorldKeepsRuns
<1>8. Standing'
  <2>1. CASE Becomes(s, "running", "stopped") \/ Becomes(s, "stopped", "running")
    BY <1>3, <1>4, <2>1, StandingEnds
  <2>2. CASE \/ to = "creating" /\ cluster[s] \in {"absent", "planned"}
             \/ to = "running" /\ cluster[s] = "creating" /\ WithinQuotas(Running \cup {s})
    <3> SUFFICES ASSUME disturbed = {}, NEW p \in Runs, run[p].pc \in Looking
                 PROVE  Standing'
      BY <1>3, <1>4 DEF Standing
    <3>1. Good' = Good
      BY <1>3, GoodStays
    <3>2. /\ record.sizes = env /\ \A n \in Names : env \in Good[n]
          /\ counted \subseteq Running /\ \A t \in Slots : cluster[t] # "stopped"
          /\ WithinQuotas(Running)
      BY <1>1, <1>5 DEF Standing
    <3>3. \A t \in Slots : cluster'[t] = IF t = s THEN to ELSE cluster[t]
      BY <1>1, <1>2 DEF TypeOK
    <3>4. \/ to = "creating" /\ Running' = Running
          \/ to = "running" /\ Running' = Running \cup {s} /\ WithinQuotas(Running \cup {s})
      BY <2>2, <3>3 DEF Running
    <3>5. WithinQuotas(Running)'
      BY <1>3, <3>2, <3>4 DEF WithinQuotas, CoresOf
    <3> QED
      BY <1>3, <3>1, <3>2, <3>3, <3>4, <3>5 DEF Standing
  <2>3. \/ Becomes(s, "running", "stopped") \/ Becomes(s, "stopped", "running")
        \/ Becomes(s, "absent", "creating") \/ Becomes(s, "planned", "creating")
        \/ Becomes(s, "creating", "running") /\ WithinQuotas(Running \cup {s})
    BY DEF ClusterStep
  <2>4. \A a, b : Becomes(s, a, b) => cluster[s] = a /\ to = b
    <3>1. cluster'[s] = to
      BY <1>1, <1>2 DEF TypeOK
    <3>2. \A b : [cluster EXCEPT ![s] = b][s] = b
      BY <1>1 DEF TypeOK
    <3> QED
      BY <3>1, <3>2 DEF Becomes
  <2> QED
    BY <2>1, <2>2, <2>3, <2>4
<1> QED
  BY <1>6, <1>7, <1>8 DEF IInv

LEMMA CountStep ==
    ASSUME IInv, NEW s \in Slots, Count(s)
    PROVE  IInv'
<1>1. TypeOK /\ RunsAreRight /\ Founded /\ Standing
  BY DEF IInv
<1>2. /\ counted' \subseteq Slots /\ counted' \subseteq counted \cup Running
      /\ UNCHANGED <<env, run, record, cluster, offer, load, tier, disturbed>>
  BY <1>1 DEF Count, world, Running, TypeOK
<1>3. TypeOK' /\ Founded'
  BY <1>1, <1>2 DEF TypeOK, Founded, Running
<1>4. RunsAreRight'
  BY <1>1, <1>2, WorldKeepsRuns
<1>5. Good' = Good
  BY <1>2, GoodStays
<1>6. Standing'
  BY <1>1, <1>2, <1>5 DEF Standing, Running, WithinQuotas, CoresOf
<1> QED
  BY <1>3, <1>4, <1>6 DEF IInv

LEMMA ChangeStep ==
    ASSUME IInv,
           \/ ChangeOffer \/ ChangeLoad
           \/ \E setting \in Settings \cup Compute : EditEnv(setting)
    PROVE  IInv'
<1>1. TypeOK /\ RunsAreRight /\ Founded /\ Standing
  BY DEF IInv
<1>2. ASSUME NEW setting \in Names, EditEnv(setting)
      PROVE  env' \in Configs
  <2>1. PICK value \in ValuesOf(setting) : env' = [env EXCEPT ![setting] = value]
    BY <1>2 DEF EditEnv
  <2>2. env \in Configs
    BY <1>1 DEF TypeOK
  <2>3. /\ env' = [n \in Names |-> env'[n]]
        /\ \A n \in Names : env'[n] \in ValuesOf(n) \cup {NoValue}
    BY <2>1, <2>2 DEF Configs
  <2> QED
    BY <2>3, ConfigIs
<1>3. /\ UNCHANGED <<run, azure>> /\ env' \in Configs
      /\ offer' \in Offers /\ load' \in Loads /\ tier' \in Tiers
      /\ Disturb("env") \/ (Disturb("offer") /\ env' = env)
  <2>1. env \in Configs /\ offer \in Offers /\ load \in Loads /\ tier \in Tiers
    BY <1>1 DEF TypeOK
  <2>2. CASE ChangeOffer
    BY <2>1, <2>2 DEF ChangeOffer
  <2>3. CASE ChangeLoad
    BY <2>1, <2>3 DEF ChangeLoad
  <2>4. ASSUME NEW setting \in Names, EditEnv(setting)
        PROVE  /\ UNCHANGED <<run, azure, offer, load, tier>> /\ Disturb("env")
    BY <2>4 DEF EditEnv
  <2> QED
    BY <1>2, <2>1, <2>2, <2>3, <2>4 DEF Names
<1>4. /\ disturbed \subseteq disturbed' /\ disturbed' \subseteq {"env", "offer", "usage"}
      /\ disturbed' = {} => \A r \in Runs : run[r].pc \notin Looking
      /\ "env" \notin disturbed' => env' = env \/ \A r \in Runs : run[r].pc \notin Looking
  BY <1>1, <1>3, DisturbMarks DEF TypeOK
<1>5. TypeOK' /\ Founded'
  BY <1>1, <1>3, <1>4, AzureStays DEF TypeOK
<1>6. RunsAreRight'
  BY <1>1, <1>3, <1>4, WorldKeepsRuns
<1>7. Standing'
  BY <1>3, <1>4, StandingEnds
<1> QED
  BY <1>5, <1>6, <1>7 DEF IInv

\* the invariant holds in every state
THEOREM InductiveInvariant == Spec => []IInv
<1>1. ASSUME IInv, [Next]_vars
      PROVE  IInv'
  <2>1. CASE UNCHANGED vars
    <3>1. TypeOK /\ RunsAreRight /\ Founded /\ Standing
      BY <1>1 DEF IInv
    <3>2. UNCHANGED <<env, run, azure, offer, load, tier, disturbed>>
      BY <2>1 DEF vars, world
    <3>3. TypeOK' /\ Founded'
      BY <3>1, <3>2, AzureStays DEF TypeOK
    <3>4. RunsAreRight'
      BY <3>1, <3>2, WorldKeepsRuns
    <3>5. Standing'
      BY <3>1, <3>2, StandingStays DEF azure
    <3> QED
      BY <3>3, <3>4, <3>5 DEF IInv
  <2>2. ASSUME NEW r \in Runs, Quiet(r)
        PROVE  IInv'
    BY <1>1, <2>2, QuietStep
  <2>3. ASSUME NEW r \in Runs, ChooseResources(r) \/ ChooseNode(r) \/ ChoosePostgres(r)
        PROVE  IInv'
    BY <1>1, <2>3, ChoosingStep
  <2>4. ASSUME NEW r \in Runs, Save(r)
        PROVE  IInv'
    BY <1>1, <2>4, SavingStep
  <2>5. ASSUME NEW state \in {"succeeded", "failed"}, EndDeployment(state)
        PROVE  IInv'
    BY <1>1, <2>5, EndDeploymentStep
  <2>6. ASSUME NEW s \in Slots, ClusterStep(s) \/ Count(s)
        PROVE  IInv'
    BY <1>1, <2>6, ClusterStepStep, CountStep
  <2>7. ASSUME \/ ChangeOffer \/ ChangeLoad
               \/ \E setting \in Settings \cup Compute : EditEnv(setting)
        PROVE  IInv'
    BY <1>1, <2>7, ChangeStep
  <2> QED
    BY <1>1, <2>1, <2>2, <2>3, <2>4, <2>5, <2>6, <2>7 DEF Next, Quiet
<1> QED
  BY <1>1, InitIInv, PTL DEF Spec

-----------------------------------------------------------------------------
(* What the invariant shows *)

\* every configuration, command and deployment holds values of its settings
\* (resource_sizes.py, node_sizes.py, postgres_sizes.py)
THEOREM TypeCorrect == Spec => []TypeOK
BY InductiveInvariant, PTL DEF IInv

\* what is deployed, with a surge node in each cluster, fitted the quotas that its choice
\* looked at, though another process chose the node count (node_sizes.py)
THEOREM FleetAlwaysFits == Spec => []FleetFits
<1>1. IInv => FleetFits
  <2> SUFFICES ASSUME IInv, "env" \notin disturbed,
                      NEW r \in Runs, run[r].pc \in {"chosen", "submitting", "waiting"},
                      NEW q \in {"cores", Catalogue[run[r].output.node_vm_size].family}
               PROVE  RequiredCores(BaseSlots, run[r].output.node_count, run[r].output.node_vm_size)
                         <= run[r].free[q]
    BY DEF FleetFits
  <2>1. "node_vm_size" \in SettledAt(run[r].pc)
    BY NamesAre DEF SettledAt
  <2> QED
    BY <2>1 DEF IInv, RunsAreRight, Fits
<1> QED
  BY <1>1, InductiveInvariant, PTL

\* commands that overlap, whenever each began, deploy no other sizes over those of another
\* (bootstrap.py, "no automatic resize")
THEOREM NoResize == Spec => NothingResized
<1>1. ASSUME IInv, [Next]_vars, record.state # "none", disturbed' = {}
      PROVE  record'.sizes = record.sizes
  <2>1. ASSUME NEW r \in Runs, Submit(r)
        PROVE  record'.sizes = record.sizes
    <3>1. run[r].pc = "submitting" /\ disturbed = {}
      BY <1>1, <2>1 DEF Submit
    <3>2. SettledAt(run[r].pc) = Names /\ run[r].pc \in Looking
      BY <3>1 DEF SettledAt, Looking, Selecting
    <3>3. record.sizes = env
      BY <1>1, <3>1, <3>2 DEF IInv, Standing
    <3>4. \A n \in Names : run[r].output[n] = env[n]
      BY <1>1, <3>1, <3>2 DEF IInv, RunsAreRight, Agreed
    <3>5. run[r].output = env
      BY <1>1, <3>4, ConfigsEqual DEF IInv, TypeOK, Command
    <3> QED
      BY <2>1, <3>3, <3>5 DEF Submit
  <2>2. ASSUME NEW r \in Runs, Quiet(r), ~Submit(r)
        PROVE  record' = record
    <3>1. ASSUME NEW added \in BOOLEAN, Begin(r, added)
          PROVE  record' = record
      BY <3>1 DEF Begin, Stay, azure
    <3>2. Inventory(r) \/ CheckPrior(r) \/ Wait(r) \/ Compare(r) \/ Add(r) \/ Stop(r) \/ Rerun(r)
             => record' = record
      BY DEF Inventory, CheckPrior, Wait, Compare, Add, Stop, Rerun, Stay, azure
    <3> QED
      BY <2>2, <3>1, <3>2 DEF Quiet
  <2>3. ASSUME NEW r \in Runs,
               ChooseResources(r) \/ ChooseNode(r) \/ ChoosePostgres(r) \/ Save(r)
        PROVE  record' = record
    BY <2>3 DEF ChooseResources, ChooseNode, ChooseNodeFor, ChoosePostgres, Save, Saved, Stay, azure
  <2>4. ASSUME NEW state \in {"succeeded", "failed"}, EndDeployment(state)
        PROVE  record'.sizes = record.sizes
    BY <1>1, <2>4 DEF EndDeployment, IInv, TypeOK
  <2>5. ASSUME NEW s \in Slots, ClusterStep(s) \/ Count(s)
        PROVE  record' = record
    BY <2>5 DEF ClusterStep, Becomes, Count
  <2>6. ASSUME \/ ChangeOffer \/ ChangeLoad
               \/ \E setting \in Settings \cup Compute : EditEnv(setting)
        PROVE  record' = record
    BY <2>6 DEF ChangeOffer, ChangeLoad, EditEnv, azure
  <2>7. CASE UNCHANGED vars
    BY <2>7 DEF vars, azure
  <2> QED
    BY <1>1, <2>1, <2>2, <2>3, <2>4, <2>5, <2>6, <2>7 DEF Next, Quiet
<1>2. IInv /\ [Next]_vars => [record.state # "none" /\ disturbed' = {} => record'.sizes = record.sizes]_vars
  BY <1>1
<1> QED
  BY <1>2, InductiveInvariant, PTL DEF Spec, NothingResized

\* once its clusters are counted, what the deployment runs already never makes its own
\* node size ineligible, before or after a pair is added (node_sizes.py, quota_problem)
THEOREM OwnCoresNeverCount == Spec => []OwnCoresNeverBlock
<1>1. ASSUME IInv, record.state = "succeeded", counted = Running,
             NEW vm \in Sizes, vm = record.sizes.node_vm_size,
             NEW nodes, nodes = record.sizes.node_count,
             NEW slots \in SUBSET Slots, Running \subseteq slots,
             NEW q \in {"cores", Catalogue[vm].family}
      PROVE  /\ OwnedCores(q) <= Usage(q)
             /\ Usage(q) + Max({0, RequiredCores(slots, nodes, vm) - OwnedCores(q)})
                  = load[q] + (Cardinality(slots) * nodes + Cardinality(slots)) * Catalogue[vm].cpus
  <2>1. TypeOK /\ Founded /\ record.sizes \in Configs
    BY <1>1 DEF IInv, TypeOK
  <2>2. record.sizes.node_count # NoValue /\ record.sizes.node_vm_size # NoValue
    BY <1>1, <2>1, NamesAre DEF Founded
  <2>3. nodes \in Nat /\ vm \in DOMAIN Catalogue /\ q \in Quotas
    BY <1>1, <2>1, <2>2, NodesTyped, SizingAssumption DEF Quotas
  <2> DEFINE needed == RequiredCores(slots, nodes, vm)
             cores == (Cardinality(slots) * nodes + Cardinality(slots)) * Catalogue[vm].cpus
             own == CoresOf(Running, q, record.sizes)
  <2>4. needed \in Nat /\ needed = cores
    BY <2>3, RequiredTyped
  <2>5. own \in Nat /\ own <= needed
    BY <1>1, <2>1, <2>2, <2>3, CoresTyped
  <2>6. /\ load[q] \in Nat /\ OwnedCores(q) \in Nat /\ Usage(q) \in Nat
    BY <2>1, <2>3, UsageTyped
  <2>7. Usage(q) = load[q] + OwnedCores(q) /\ OwnedCores(q) <= needed
    <3>1. CASE Running = {}
      <4>1. OwnedCores(q) = 0 /\ Usage(q) = load[q] + 0
        BY <1>1, <3>1 DEF OwnedCores, Usage
      <4> HIDE DEF needed
      <4> QED
        BY <2>4, <2>6, <4>1
    <3>2. CASE Running # {}
      <4>1. OwnedCores(q) = own /\ Usage(q) = load[q] + own
        BY <1>1, <3>2 DEF OwnedCores, Usage
      <4> QED
        BY <2>5, <4>1
    <3> QED
      BY <3>1, <3>2
  <2> HIDE DEF needed, cores
  <2>8. Max({0, needed - OwnedCores(q)}) = needed - OwnedCores(q)
    BY <2>4, <2>6, <2>7, AtLeastNone
  <2>9. Usage(q) + Max({0, needed - OwnedCores(q)}) = load[q] + cores
    BY <2>4, <2>6, <2>7, <2>8
  <2> QED
    BY <2>6, <2>7, <2>9 DEF needed, cores
<1>2. IInv => OwnCoresNeverBlock
  <2> SUFFICES ASSUME IInv, record.state = "succeeded", OwnedKnown, counted = Running,
                      NEW vm \in Sizes, vm = record.sizes.node_vm_size,
                      NEW nodes, nodes = record.sizes.node_count,
                      NEW slots \in {BaseSlots \cup Running, Slots}
               PROVE  vm \in Eligible(slots, nodes)
                        <=> \A q \in {"cores", Catalogue[vm].family} :
                               load[q] + (Cardinality(slots) * nodes + Cardinality(slots))
                                            * Catalogue[vm].cpus <= Limits[q]
    BY Zenon DEF OwnCoresNeverBlock
  <2>1. slots \in SUBSET Slots /\ Running \subseteq slots
    BY DEF Slots, Running
  <2>2. \A q \in {"cores", Catalogue[vm].family} :
            /\ OwnedCores(q) <= Usage(q)
            /\ Usage(q) + Max({0, RequiredCores(slots, nodes, vm) - OwnedCores(q)})
                 = load[q] + (Cardinality(slots) * nodes + Cardinality(slots)) * Catalogue[vm].cpus
    <3>1. /\ IInv /\ record.state = "succeeded" /\ counted = Running /\ vm \in Sizes
          /\ vm = record.sizes.node_vm_size /\ nodes = record.sizes.node_count
      OBVIOUS
    <3> DEFINE within(q) ==
            /\ OwnedCores(q) <= Usage(q)
            /\ Usage(q) + Max({0, RequiredCores(slots, nodes, vm) - OwnedCores(q)})
                 = load[q] + (Cardinality(slots) * nodes + Cardinality(slots)) * Catalogue[vm].cpus
    <3>2. \A q \in {"cores", Catalogue[vm].family} : within(q)
      BY <1>1, <2>1, <3>1
    <3> QED
      BY <3>2
  <2> QED
    BY <2>2, Zenon DEF Eligible, CoresFit
<1> QED
  BY <1>2, InductiveInvariant, PTL

=============================================================================
