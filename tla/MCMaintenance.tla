--------------------------- MODULE MCMaintenance ---------------------------
(* Instances of Maintenance for TLC: one or two invocations, two members   *)
(* of the Alertmanager cluster.                                            *)
EXTENDS Maintenance, TLC

CONSTANTS p1, p2, am0, am1, s1, s2, n1, f1, f2, wide

Separate == (p1 :> f1) @@ (p2 :> f2)
Alone    == (p1 :> f1)
AllWide  == (p1 :> wide) @@ (p2 :> wide)
OneWide  == (p1 :> wide)
Nothing  == {}

All       == {"begin", "renew", "end", "repair"}
Symmetric == Permutations(Ids)
Contended == (p1 :> {"begin", "renew"}) @@ (p2 :> {"begin"})
Solo      == (p1 :> All)
=============================================================================
