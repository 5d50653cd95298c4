-------------------------- MODULE MitigateContract --------------------------
(***************************************************************************)
(* What the mitigation of one circuit promises to whoever reads its result:*)
(* the abstract specification of the search of QRiskMitigate, and all that *)
(* OptimizePipeline assumes of a compiler that keeps its word.             *)
(***************************************************************************)
EXTENDS QRiskTrace

Rearranged(trace, order) == [i \in 1..Len(order) |-> trace[order[i]]]

IsPermutationOf(order, n) ==
    /\ order \in [1..n -> 1..n]
    /\ \A i, j \in 1..n : order[i] = order[j] => i = j

\* Events the rules do not let pass each other stay in their order.
KeepsOrder(trace, order, diagonalOnly) ==
    \A i, j \in DOMAIN order :
        i < j /\ ~Commutes(trace[order[i]], trace[order[j]], diagonalOnly) => order[i] < order[j]

CountsOf(trace, patterns, global) == CountMatches(FindMatches(trace, patterns, global), patterns)

\* The acceptance rule between the first and the last counts.
CountsAllowed(before, after, options) ==
    /\ ~options.localOnly => Total(after) <= Total(before)
    /\ ~options.localOnly /\ ~options.totalOnly => \A p \in DOMAIN before : after[p] <= before[p]

Contract(trace, patterns, options, order, before, after) ==
    /\ IsPermutationOf(order, Len(trace))
    /\ KeepsOrder(trace, order, options.diagonalOnly)
    /\ before = CountsOf(trace, patterns, options.global)
    /\ after = CountsOf(Rearranged(trace, order), patterns, options.global)
    /\ CountsAllowed(before, after, options)
=============================================================================
