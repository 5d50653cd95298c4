---------------------------- MODULE QRiskMitigate ----------------------------
(***************************************************************************)
(* The local search of lib/Transforms/QRiskPasses.cpp on one circuit: what *)
(* runQRisk computes into a Plan (the first scan, then mitigate), one step *)
(* per candidate move, and what attachReport and jsonReport say of it.     *)
(***************************************************************************)
EXTENDS QRiskTrace

CONSTANTS
    Programs,    \* traces of circuits that passed the IR and target verifiers
    Catalogs,    \* sequences of the patterns a backend has in the catalog
    OptionSets   \* option records given to the pass

SearchOptions == [transform : BOOLEAN, global : BOOLEAN, totalOnly : BOOLEAN,
                  diagonalOnly : BOOLEAN, localOnly : BOOLEAN,
                  maxCandidates : Nat, maxRewrites : Nat]

ASSUME InputAssumption ==
    /\ \A t \in Programs : /\ t \in Seq(Event) /\ \A i \in DOMAIN t : IsEvent(t[i])
                           /\ WithinLifetimes(t)    \* each operand is a live value
    /\ \A ps \in Catalogs : ps \in Seq([gates : Seq(GateSpec), tolerance : Nat])
                            /\ \A p \in DOMAIN ps : IsPattern(ps[p])
    /\ OptionSets \subseteq SearchOptions

\* Local-only acceptance may climb, so it needs a candidate budget; the other
\* combinations are accepted, zero meaning unlimited.
OptionsAccepted(o) == o.localOnly => o.maxCandidates > 0 /\ ~o.totalOnly

VARIABLES
    trace,             \* the circuit before the pass, as built by buildTrace
    patterns,          \* plan.patterns
    options,           \* plan.options, and whether the pass may rewrite
    order,             \* plan.order: the place in trace of each event
    matches,           \* plan.matches
    before, after,     \* plan.before, plan.after
    rewrites, candidates, legalCandidates, scans,
    budgetExhausted,
    pending,           \* the moves of the current pass not tried yet
    pc                 \* "restart": top of the while loop; "search": inside it

input == <<trace, patterns, options, before>>
vars == <<trace, patterns, options, before, order, matches, after, rewrites,
          candidates, legalCandidates, scans, budgetExhausted, pending, pc>>

-----------------------------------------------------------------------------
\* The events of the trace in a given order, and in the plan's order.
Arrange(ord) == [i \in 1..Len(ord) |-> trace[ord[i]]]
Current == Arrange(order)

MatchesOf(ord) == FindMatches(Arrange(ord), patterns, options.global)

Init ==
    /\ trace \in Programs
    /\ patterns \in Catalogs
    /\ options \in {o \in OptionSets : OptionsAccepted(o)}
    /\ order = [i \in 1..Len(trace) |-> i]
    /\ matches = MatchesOf(order)
    /\ before = CountMatches(matches, patterns)
    /\ after = before
    /\ rewrites = 0 /\ candidates = 0 /\ legalCandidates = 0 /\ scans = 1
    /\ budgetExhausted = FALSE
    /\ pending = {}
    /\ pc = IF options.transform THEN "restart" ELSE "done"

-----------------------------------------------------------------------------
RewriteBudgetSpent == options.maxRewrites > 0 /\ rewrites >= options.maxRewrites

CandidateBudgetSpent == options.maxCandidates > 0 /\ candidates >= options.maxCandidates

\* The loop ends because nothing is left to break.
NoMatchesLeft ==
    /\ pc = "restart"
    /\ matches = {}
    /\ pc' = "done"
    /\ UNCHANGED <<input, order, matches, after, rewrites, candidates, legalCandidates,
                   scans, budgetExhausted, pending>>

\* Seeded defect: the search is cut short without saying so.
RewritesEndSilently ==
    /\ pc = "restart"
    /\ matches # {}
    /\ RewriteBudgetSpent
    /\ pc' = "done"
    /\ UNCHANGED <<input, order, matches, after, rewrites, candidates, legalCandidates,
                   scans, budgetExhausted, pending>>

OutOfRewrites ==
    /\ pc = "restart"
    /\ matches # {}
    /\ RewriteBudgetSpent
    /\ budgetExhausted' = TRUE
    /\ pc' = "done"
    /\ UNCHANGED <<input, order, matches, after, rewrites, candidates, legalCandidates,
                   scans, pending>>

StartPass ==
    /\ pc = "restart"
    /\ matches # {}
    /\ ~RewriteBudgetSpent
    /\ pending' = Moves(Current, matches)
    /\ pc' = "search"
    /\ UNCHANGED <<input, order, matches, after, rewrites, candidates, legalCandidates,
                   scans, budgetExhausted>>

\* Seeded defect: the loop is not left after a pass without a change.
PassRestarted ==
    /\ pc = "search"
    /\ pending = {}
    /\ pc' = "restart"
    /\ UNCHANGED <<input, order, matches, after, rewrites, candidates, legalCandidates,
                   scans, budgetExhausted, pending>>

\* The whole pass accepted nothing: break.
PassExhausted ==
    /\ pc = "search"
    /\ pending = {}
    /\ pc' = "done"
    /\ UNCHANGED <<input, order, matches, after, rewrites, candidates, legalCandidates,
                   scans, budgetExhausted, pending>>

OutOfCandidates ==
    /\ pc = "search"
    /\ pending # {}
    /\ CandidateBudgetSpent
    /\ budgetExhausted' = TRUE
    /\ pc' = "done"
    /\ UNCHANGED <<input, order, matches, after, rewrites, candidates, legalCandidates,
                   scans, pending>>

\* The acceptance rule for the counts found after a move.
Accepts(move, counts) ==
    IF options.localOnly THEN counts[move.pattern] < after[move.pattern]
                         ELSE Improves(counts, after, options.totalOnly)

IsNext(move) == \A m \in pending \ {move} : Precedes(move, m)

\* Seeded defect: an illegal move ends the attempts on its whole occurrence.
RejectOccurrence(move) ==
    /\ ~Legal(Current, move, options.diagonalOnly)
    /\ pending' = {m \in pending : m.start # move.start}
    /\ UNCHANGED <<order, matches, after, rewrites, legalCandidates, scans, pc>>

RejectIllegal(move) ==
    /\ ~Legal(Current, move, options.diagonalOnly)
    /\ pending' = pending \ {move}
    /\ UNCHANGED <<order, matches, after, rewrites, legalCandidates, scans, pc>>

RejectWorse(move) ==
    /\ Legal(Current, move, options.diagonalOnly)
    /\ ~Accepts(move, CountMatches(MatchesOf(Rotate(order, move)), patterns))
    /\ legalCandidates' = legalCandidates + 1
    /\ scans' = scans + 1
    /\ pending' = pending \ {move}
    /\ UNCHANGED <<order, matches, after, rewrites, pc>>

\* Seeded defect: the matches found for the new order are not kept.
AcceptStale(move) ==
    /\ Legal(Current, move, options.diagonalOnly)
    /\ legalCandidates' = legalCandidates + 1
    /\ scans' = scans + 1
    /\ after' = CountMatches(MatchesOf(Rotate(order, move)), patterns)
    /\ Accepts(move, after')
    /\ order' = Rotate(order, move)
    /\ rewrites' = rewrites + 1
    /\ pending' = {}
    /\ pc' = "restart"
    /\ UNCHANGED matches

\* The first move that is accepted ends the pass; matching restarts.
Accept(move) ==
    /\ Legal(Current, move, options.diagonalOnly)
    /\ legalCandidates' = legalCandidates + 1
    /\ scans' = scans + 1
    /\ LET found == MatchesOf(Rotate(order, move))
           counts == CountMatches(found, patterns)
       IN  /\ Accepts(move, counts)
           /\ matches' = found
           /\ after' = counts
    /\ order' = Rotate(order, move)
    /\ rewrites' = rewrites + 1
    /\ pending' = {}
    /\ pc' = "restart"

Try(move) ==
    /\ pc = "search"
    /\ IsNext(move)
    /\ ~CandidateBudgetSpent
    /\ candidates' = candidates + 1
    /\ \/ RejectIllegal(move)
       \/ RejectWorse(move)
       \/ Accept(move)
    /\ UNCHANGED <<input, budgetExhausted>>

Next ==
    \/ NoMatchesLeft
    \/ OutOfRewrites
    \/ StartPass
    \/ PassExhausted
    \/ OutOfCandidates
    \/ \E move \in pending : Try(move)

Spec == Init /\ [][Next]_vars

\* One thread runs the search without waiting for anything.
FairSpec == Spec /\ WF_vars(Next)

-----------------------------------------------------------------------------
(***************************************************************************)
(* The report.                                                             *)
(***************************************************************************)
\* Seeded defect: a circuit without occurrences is reported as cleaned.
StatusWithoutBefore ==
    IF patterns = <<>> THEN "no_backend_patterns"
    ELSE IF Total(after) > 0
         THEN IF ~options.transform THEN "matched"
              ELSE IF rewrites > 0 THEN "partial" ELSE "blocked"
         ELSE "eliminated"

Status ==
    IF patterns = <<>> THEN "no_backend_patterns"
    ELSE IF Total(after) > 0
         THEN IF ~options.transform THEN "matched"
              ELSE IF Total(after) > Total(before) THEN "increased"
              ELSE IF rewrites > 0 /\ Total(after) = Total(before) THEN "unchanged"
              ELSE IF rewrites > 0 THEN "partial" ELSE "blocked"
         ELSE IF Total(before) > 0 THEN "eliminated" ELSE "no_matches"

TerminationReason ==
    IF budgetExhausted THEN "budget"
    ELSE IF matches = {} THEN "no_matches"
    ELSE IF options.transform THEN "no_improving_move" ELSE "scan"

-----------------------------------------------------------------------------
(***************************************************************************)
(* Properties.                                                             *)
(***************************************************************************)

\* The plan's fields have their types; order permutes the positions of trace.
TypeOK ==
    /\ trace \in Programs
    /\ patterns \in Catalogs
    /\ options \in {o \in OptionSets : OptionsAccepted(o)}
    /\ order \in [1..Len(trace) -> 1..Len(trace)]
    /\ \A i, j \in DOMAIN order : order[i] = order[j] => i = j
    /\ before \in [DOMAIN patterns -> Nat]
    /\ after \in [DOMAIN patterns -> Nat]
    /\ <<rewrites, candidates, legalCandidates, scans>> \in Nat \X Nat \X Nat \X Nat
    /\ budgetExhausted \in BOOLEAN
    /\ pc \in {"restart", "search", "done"}

\* However many moves were accepted, two events that the rules do not let pass
\* each other are still in the order of the source circuit: the new circuit is
\* the old one up to exchanges of commuting neighbours.
DependenciesKept ==
    \A i, j \in DOMAIN order :
        i < j /\ ~Commutes(Current[i], Current[j], options.diagonalOnly) => order[i] < order[j]

\* Allocations, measurements, discards, barriers and annotated gates are
\* fences: no event ever changes sides with one, on whatever wire it is.
FencesHold ==
    \A i, j \in DOMAIN order :
        i < j /\ ~(Current[i].movable /\ Current[j].movable) => order[i] < order[j]

\* applyOrder never reports "QRisk reorder crossed a quantum lifetime boundary".
LifetimesKept == WithinLifetimes(Current)

\* The matches and counts the plan carries, which the next pass and the report
\* read, are those of the order it carries.
MatchesCurrent ==
    /\ matches = MatchesOf(order)
    /\ after = CountMatches(matches, patterns)

\* "This bounds the number of accepted rewrites and prevents oscillation": each
\* rewrite is paid for by an occurrence of the first scan; and under the
\* default rule no pattern ends with more occurrences than it began with.
NoOscillation ==
    /\ ~options.localOnly => Total(after) + rewrites <= Total(before)
    /\ ~options.localOnly /\ ~options.totalOnly => \A p \in DOMAIN patterns : after[p] <= before[p]

\* A search that ends by itself leaves a local minimum: running the pass again
\* on its output would accept no move.
SecondRunIsNoop ==
    pc = "done" /\ options.transform /\ ~budgetExhausted =>
        \A move \in Moves(Current, FindMatches(Current, patterns, options.global)) :
            Legal(Current, move, options.diagonalOnly) =>
                ~Accepts(move, CountMatches(MatchesOf(Rotate(order, move)), patterns))

\* The cost counters of the report: one scan for the input and one per legal
\* candidate, within both budgets; and "budget" is reported exactly of the
\* searches a budget cut short, with occurrences left when the rewrites were
\* spent or a candidate untried when the candidates were. A search whose last
\* candidate is also the last one allowed has ended by itself.
CountersConsistent ==
    /\ scans = 1 + legalCandidates
    /\ rewrites <= legalCandidates /\ legalCandidates <= candidates
    /\ options.maxCandidates > 0 => candidates <= options.maxCandidates
    /\ options.maxRewrites > 0 => rewrites <= options.maxRewrites
    /\ budgetExhausted <=>
          /\ pc = "done" /\ matches # {}
          /\ RewriteBudgetSpent \/ (CandidateBudgetSpent /\ pending # {})

\* The documented statuses of the pass (docs/qrisk.md) hold of the default
\* acceptance, and each says what it means about the circuit that is returned.
ReportTruthful ==
    pc = "done" =>
        /\ Status \in {"blocked", "matched", "no_matches", "no_backend_patterns"} =>
              order = [i \in 1..Len(trace) |-> i]
        /\ Status = "eliminated" => MatchesOf(order) = {} /\ rewrites > 0
        /\ Status \in {"increased", "unchanged"} => options.localOnly
        /\ Status = "partial" => Total(after) < Total(before)
        /\ TerminationReason = "no_matches" <=>
              Status \in {"eliminated", "no_matches", "no_backend_patterns"}

\* Every search ends, the local-only one by its candidate budget.
Termination == <>(pc = "done")

\* The gates on a wire, in the order of the plan, without their identity.
Timeline(ord, q) ==
    LET events == SelectSeq(Arrange(ord), LAMBDA e : q \in WiresOf(e))
    IN  [i \in 1..Len(events) |-> <<events[i].gate, events[i].qubits, events[i].angle>>]

\* "The mitigation pass therefore never accepts a purely disjoint reorder as a
\* disruption" (docs/qrisk.md): an accepted rewrite changes what some wire sees.
NeverDisjointReorder ==
    [][order' # order =>
        \E q \in UNION {WiresOf(trace[i]) : i \in DOMAIN trace} :
            Timeline(order, q) # Timeline(order', q)]_vars
=============================================================================
