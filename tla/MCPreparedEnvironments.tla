----------------------- MODULE MCPreparedEnvironments -----------------------
(* Small instances of PreparedEnvironments for TLC: all operators race for one *)
(* pair whose Jobs may lose a pod, or one operator works on every pair.        *)
EXTENDS PreparedEnvironments, TLC

VARIABLE present  \* the operators at work, which never changes

FirstPair == 1

Bounds ==
    /\ \A o \in Operators \ present : pc[o] = "idle"
    /\ IF \E o \in Operators : present = {o}
       THEN \A j \in Jobs : listed[j] <= 1
       ELSE \A o \in Operators : PairOf(o) = FirstPair

MCInit ==
    /\ Init
    /\ task = [o \in Operators |-> <<"prepare", FirstPair>>]
    /\ present \in {Operators} \cup {{o} : o \in Operators}

MCNext == Next /\ UNCHANGED present /\ Bounds'

MCSpec == MCInit /\ [][MCNext]_<<vars, present>>

Symmetry == Permutations(Operators) \cup Permutations(Tenants)
=============================================================================
