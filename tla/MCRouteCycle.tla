------------------------------ MODULE MCRouteCycle ------------------------------
(* Instances of RouteCycle: two PVEs, clusters of two nodes with up to two guests *)
(* on a node.                                                                       *)
EXTENDS RouteCycle

CONSTANTS p1, p2, n1, n2, g1, g2

TwoSources == <<p1, p2>>
OneSource == <<p1>>
TwoNodes == {n1, n2}
TwoListings == {(n1 :> {g1, g2} @@ n2 :> {}), (n1 :> {g1} @@ n2 :> {g2})}
=============================================================================
