----------------------------- MODULE GateAlgebra -----------------------------
(***************************************************************************)
(* The pairs of gates the whitelist of QRiskPasses.cpp lets the search     *)
(* exchange, and those whose matrices commute.                             *)
(***************************************************************************)
EXTENDS GateMatrices

CommuteExactly(a, b) == After(a, Matrix[b]) = After(b, Matrix[a])

PairsOfGates == GateEvents \X GateEvents
CommutingPairs == {p \in PairsOfGates : CommuteExactly(p[1], p[2])}

\* The pairs the search may exchange, by the diagonal rules only or by all.
Whitelist == [diagonalOnly \in BOOLEAN |->
                 {p \in PairsOfGates : Commutes(p[1], p[2], diagonalOnly)}]

WhitelistExact == Whitelist[FALSE] \subseteq CommutingPairs
WhitelistSymmetric ==
    /\ \A d \in BOOLEAN : \A p \in Whitelist[d] : <<p[2], p[1]>> \in Whitelist[d]
    /\ Whitelist[TRUE] \subseteq Whitelist[FALSE]
=============================================================================
