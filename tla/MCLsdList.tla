------------------------------- MODULE MCLsdList ------------------------------
(* Three nodes, two iterators, and items of which two compare equal.       *)
EXTENDS LsdList

CONSTANTS a1, a2, b

MCPred == {{b}, {a1, b}, {a1, a2, b}}
MCSymmetry == Permutations(Node) \cup Permutations(Iter)

MCRank == (a1 :> 1) @@ (a2 :> 1) @@ (b :> 0)
===============================================================================
