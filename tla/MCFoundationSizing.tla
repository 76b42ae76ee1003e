------------------------- MODULE MCFoundationSizing -------------------------
(* A small instance of FoundationSizing for TLC. *)
EXTENDS FoundationSizing, TLC

VmSizes ==
    LET size(series, family, cpus, price) ==
            [series |-> series, family |-> family, cpus |-> cpus, memory |-> 2 * cpus + 8,
             price |-> price, located |-> TRUE, restricted |-> "no",
             x64 |-> TRUE, generation2 |-> TRUE, premium |-> TRUE]
    IN  [d4 |-> [size("D", "d", 4, 2) EXCEPT !.restricted = "Zone"],
         e8 |-> size("E", "e", 8, 0),
         d2 |-> size("D", "d", 2, 1)]

Postgres ==
    [p2 |-> [restricted |-> FALSE, cpus |-> 2, memory |-> 8],
     p16 |-> [restricted |-> FALSE, cpus |-> 16, memory |-> 64]]

Quota == [cores |-> 28, d |-> 28, e |-> 24]

Uses == {[cores |-> n, d |-> m, e |-> 0] : n, m \in {0, 8}} \ {[cores |-> 0, d |-> 8, e |-> 0]}

Regions ==
    {[vms |-> {"d4", "e8", "d2"}, skus |-> {"p2", "p16"},
      storage |-> {32, 48}, redis |-> {"B1"}],
     [vms |-> {"e8", "d2"}, skus |-> {"p2"}, storage |-> {32}, redis |-> {"B3", "B5"}]}

Symmetry == Permutations(Runs)

VaultTiers == {"premium"}
=============================================================================
