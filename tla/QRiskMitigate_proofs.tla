------------------------ MODULE QRiskMitigate_proofs ------------------------
(***************************************************************************)
(* Proofs about the search of QRiskMitigate, for all circuits, catalogs    *)
(* and options: each invariant is inductive relative to Sane, which says   *)
(* that what the search carries from one step to the next (the order, the  *)
(* matches, the moves left) fits together.                                 *)
(***************************************************************************)
EXTENDS QRiskMitigate, MitigateContract, QRiskTrace_proofs

\* The moves left to try are between positions of the current matches.
PendingCurrent == pending \subseteq Moves(Current, matches)

Sane == TypeOK /\ MatchesCurrent /\ PendingCurrent

-----------------------------------------------------------------------------
\* The inputs of a run are what the front end and loadCatalog let through.
LEMMA InputTypes ==
    ASSUME trace \in Programs, patterns \in Catalogs
    PROVE  trace \in Seq(Event) /\ Len(trace) \in Nat /\ PatternList(patterns)
<1>1. trace \in Seq(Event)
  BY InputAssumption
<1>2. PatternList(patterns)
  BY InputAssumption DEF PatternList
<1> QED
  BY <1>1, <1>2, LenProperties

\* An arrangement of the trace is a trace.
LEMMA ArrangeType ==
    ASSUME trace \in Programs, patterns \in Catalogs,
           NEW ord \in [1..Len(trace) -> 1..Len(trace)]
    PROVE  /\ Arrange(ord) \in Seq(Event)
           /\ Len(Arrange(ord)) = Len(trace)
           /\ \A i \in 1..Len(trace) : Arrange(ord)[i] = trace[ord[i]]
           /\ CountMatches(MatchesOf(ord), patterns) \in [DOMAIN patterns -> Nat]
<1>1. trace \in Seq(Event) /\ Len(trace) \in Nat /\ PatternList(patterns)
  BY InputTypes
<1>2. Len(ord) = Len(trace)
  BY <1>1
<1>3. \A i \in 1..Len(trace) : trace[ord[i]] \in Event
  BY <1>1, ElementOfSeq
<1>4. /\ Arrange(ord) \in [1..Len(trace) -> Event]
      /\ \A i \in 1..Len(trace) : Arrange(ord)[i] = trace[ord[i]]
  BY <1>2, <1>3 DEF Arrange
<1>5. Arrange(ord) \in Seq(Event) /\ Len(Arrange(ord)) = Len(trace)
  <2> HIDE DEF Arrange
  <2> QED
    BY <1>1, <1>4
<1>6. CountMatches(FindMatches(Arrange(ord), patterns, options.global), patterns)
        \in [DOMAIN patterns -> Nat]
  <2> HIDE DEF Arrange
  <2> QED
    BY <1>1, <1>5, CountsType
<1> QED
  BY <1>4, <1>5, <1>6 DEF MatchesOf

\* The moves the search tries are moves, and name a pattern of the catalog.
LEMMA PendingMoves ==
    ASSUME Sane, NEW move \in pending
    PROVE  IsMove(move, Len(trace)) /\ move.pattern \in DOMAIN patterns
<1>1. trace \in Seq(Event) /\ Len(trace) \in Nat /\ PatternList(patterns)
  BY InputTypes DEF Sane, TypeOK
<1>2. Current \in Seq(Event) /\ Len(Current) = Len(trace)
  BY ArrangeType DEF Sane, TypeOK, Current
<1>3. move \in Moves(Current, FindMatches(Current, patterns, options.global))
  BY DEF Sane, PendingCurrent, MatchesCurrent, MatchesOf, Current
<1> QED
  BY <1>1, <1>2, <1>3, MoveShape

\* A rotation of the order is an order.
LEMMA RotatedOrder ==
    ASSUME Sane, NEW move \in pending
    PROVE  LET new == Rotate(order, move)
           IN  /\ new \in [1..Len(trace) -> 1..Len(trace)]
               /\ \A i, j \in 1..Len(trace) : new[i] = new[j] => i = j
               /\ \A i \in 1..Len(trace) : /\ Source(move, i) \in 1..Len(trace)
                                           /\ new[i] = order[Source(move, i)]
<1> DEFINE n == Len(trace)
           new == Rotate(order, move)
<1>1. n \in Nat
  BY InputTypes DEF Sane, TypeOK
<1>2. IsMove(move, n)
  BY PendingMoves
<1>3. order \in [1..n -> 1..n] /\ \A i, j \in 1..n : order[i] = order[j] => i = j
  BY DEF Sane, TypeOK
<1> HIDE DEF n
<1>4. new \in [1..n -> 1..n] /\ \A i \in 1..n : new[i] = order[Source(move, i)]
  <2>1. order \in [1..n -> 1..n] /\ n \in Nat /\ IsMove(move, n)
    BY <1>1, <1>2, <1>3
  <2>2. Rotate(order, move) \in [1..n -> 1..n]
    BY <2>1, RotateOrder
  <2>3. ASSUME NEW i \in 1..n PROVE Rotate(order, move)[i] = order[Source(move, i)]
    BY <2>1, RotateOrder
  <2> QED
    BY <2>2, <2>3
<1>5. \A i \in 1..n : Source(move, i) \in 1..n
  BY <1>1, <1>2, SourceType
<1>6. \A i, j \in 1..n : new[i] = new[j] => i = j
  BY <1>1, <1>2, <1>3, <1>4, <1>5, SourceInjective
<1> QED
  BY <1>4, <1>5, <1>6 DEF n

-----------------------------------------------------------------------------
LEMMA SaneInit == Init => Sane
<1> SUFFICES ASSUME Init
             PROVE  Sane
  OBVIOUS
<1>1. trace \in Seq(Event) /\ Len(trace) \in Nat /\ PatternList(patterns)
  BY InputTypes DEF Init
<1>2. order \in [1..Len(trace) -> 1..Len(trace)]
        /\ \A i, j \in DOMAIN order : order[i] = order[j] => i = j
  BY <1>1 DEF Init
<1>3. before \in [DOMAIN patterns -> Nat] /\ after = before
  BY <1>2, ArrangeType DEF Init
<1>4. TypeOK
  BY <1>2, <1>3 DEF Init, TypeOK
<1>5. MatchesCurrent /\ PendingCurrent
  BY DEF Init, MatchesCurrent, PendingCurrent
<1> QED
  BY <1>4, <1>5 DEF Sane

\* The definitions that a step which keeps the order leaves as they are.
LEMMA SameOrder ==
    ASSUME UNCHANGED <<input, order>>
    PROVE  Current' = Current /\ MatchesOf(order)' = MatchesOf(order)
BY DEF input, Current, Arrange, MatchesOf

LEMMA SaneNext == Sane /\ [Next]_vars => Sane'
<1> SUFFICES ASSUME Sane, [Next]_vars
             PROVE  Sane'
  OBVIOUS
<1> USE DEF Sane
<1>1. ASSUME UNCHANGED <<input, order, matches, after, rewrites, candidates, legalCandidates,
                         scans>>,
             budgetExhausted' \in BOOLEAN, pc' \in {"restart", "search", "done"},
             pending' \subseteq Moves(Current, matches)
      PROVE  Sane'
  <2>1. TypeOK'
    BY <1>1 DEF TypeOK, input
  <2>2. MatchesCurrent' /\ PendingCurrent'
    BY <1>1, SameOrder DEF MatchesCurrent, PendingCurrent, input
  <2> QED
    BY <2>1, <2>2
<1>2. CASE NoMatchesLeft
  BY <1>1, <1>2 DEF NoMatchesLeft, TypeOK, PendingCurrent
<1>3. CASE OutOfRewrites
  BY <1>1, <1>3 DEF OutOfRewrites, TypeOK, PendingCurrent
<1>4. CASE StartPass
  BY <1>1, <1>4 DEF StartPass, TypeOK, PendingCurrent
<1>5. CASE PassExhausted
  BY <1>1, <1>5 DEF PassExhausted, TypeOK, PendingCurrent
<1>6. CASE OutOfCandidates
  BY <1>1, <1>6 DEF OutOfCandidates, TypeOK, PendingCurrent
<1>7. ASSUME NEW move \in pending, Try(move)
      PROVE  Sane'
  <2>1. UNCHANGED <<input, budgetExhausted>> /\ candidates' = candidates + 1 /\ pc = "search"
    BY <1>7 DEF Try
  <2>2. CASE RejectIllegal(move)
    <3>1. TypeOK'
      BY <2>1, <2>2 DEF RejectIllegal, TypeOK, input
    <3>2. MatchesCurrent' /\ PendingCurrent'
      BY <2>1, <2>2, SameOrder DEF RejectIllegal, MatchesCurrent, PendingCurrent, input
    <3> QED
      BY <3>1, <3>2
  <2>3. CASE RejectWorse(move)
    <3>1. TypeOK'
      BY <2>1, <2>3 DEF RejectWorse, TypeOK, input
    <3>2. MatchesCurrent' /\ PendingCurrent'
      BY <2>1, <2>3, SameOrder DEF RejectWorse, MatchesCurrent, PendingCurrent, input
    <3> QED
      BY <3>1, <3>2
  <2>4. CASE Accept(move)
    <3>1. /\ order' \in [1..Len(trace) -> 1..Len(trace)]
          /\ \A i, j \in 1..Len(trace) : order'[i] = order'[j] => i = j
      BY <2>4, RotatedOrder DEF Accept
    <3>2. matches' = MatchesOf(order') /\ after' = CountMatches(matches', patterns)
      BY <2>4 DEF Accept
    <3>3. after' \in [DOMAIN patterns -> Nat]
      BY <3>1, <3>2, ArrangeType DEF TypeOK
    <3>4. TypeOK'
      BY <2>1, <2>4, <3>1, <3>3 DEF Accept, TypeOK, input
    <3>5. MatchesCurrent'
      BY <2>1, <3>2 DEF MatchesCurrent, MatchesOf, Arrange, input
    <3>6. PendingCurrent'
      BY <2>4 DEF Accept, PendingCurrent
    <3> QED
      BY <3>4, <3>5, <3>6
  <2> QED
    BY <1>7, <2>2, <2>3, <2>4 DEF Try
<1>8. CASE UNCHANGED vars
  <2>1. TypeOK'
    BY <1>8 DEF TypeOK, vars
  <2>2. MatchesCurrent' /\ PendingCurrent'
    BY <1>8, SameOrder DEF MatchesCurrent, PendingCurrent, vars, input
  <2> QED
    BY <2>1, <2>2
<1> QED
  BY <1>2, <1>3, <1>4, <1>5, <1>6, <1>7, <1>8 DEF Next

LEMMA SaneAlways == Spec => []Sane
BY SaneInit, SaneNext, PTL DEF Spec

\* The fields of the plan have their types and its order is a permutation of
\* the operations of the circuit: no rewrite loses or repeats an operation.
THEOREM TypeCorrect == Spec => []TypeOK
<1>1. Sane => TypeOK
  BY DEF Sane
<1> QED
  BY <1>1, SaneAlways, PTL

\* The matches and the counts that the next pass and the report read are those
\* of the order the plan carries.
THEOREM MatchesAlwaysCurrent == Spec => []MatchesCurrent
<1>1. Sane => MatchesCurrent
  BY DEF Sane
<1> QED
  BY <1>1, SaneAlways, PTL
-----------------------------------------------------------------------------
(***************************************************************************)
(* Dependencies.                                                           *)
(***************************************************************************)
LEMMA DependenciesInit == Init => DependenciesKept
BY InputTypes DEF Init, DependenciesKept

\* One accepted move: a pair it turns around is a pair that Legal has compared.
LEMMA DependenciesAccept ==
    ASSUME Sane, DependenciesKept, NEW move \in pending, UNCHANGED input, Accept(move)
    PROVE  DependenciesKept'
<1> DEFINE n == Len(trace)
           d == options.diagonalOnly
           src(i) == Source(move, i)
<1>1. /\ order' \in [1..n -> 1..n]
      /\ \A i \in 1..n : src(i) \in 1..n /\ order'[i] = order[src(i)]
  BY RotatedOrder DEF Accept
<1>2. order \in [1..n -> 1..n]
  BY DEF Sane, TypeOK
<1>3. n \in Nat /\ IsMove(move, n)
  BY InputTypes, PendingMoves DEF Sane, TypeOK
<1>4. \A i \in 1..n : Current[i] = trace[order[i]]
  BY <1>2, ArrangeType DEF Sane, TypeOK, Current
<1>5. \A i \in 1..n : Current'[i] = trace[order'[i]]
  <2>1. n' = n /\ trace' = trace
    BY DEF input
  <2>2. Current' = Arrange(order')
    BY DEF input, Current, Arrange
  <2>3. \A i \in 1..n : Arrange(order')[i] = trace[order'[i]]
    BY <1>1, ArrangeType DEF Sane, TypeOK
  <2> QED
    BY <2>2, <2>3
<1> HIDE DEF n
<1>6. SUFFICES ASSUME NEW i \in 1..n, NEW j \in 1..n, i < j,
                      ~Commutes(Current'[i], Current'[j], d)
               PROVE  order'[i] < order'[j]
  <2>1. DOMAIN order' = 1..n /\ options'.diagonalOnly = d
    BY <1>1 DEF input
  <2> QED
    BY <1>6, <2>1 DEF DependenciesKept
<1>7. Current'[i] = Current[src(i)] /\ Current'[j] = Current[src(j)]
  BY <1>1, <1>4, <1>5
<1>8. src(i) < src(j)
  <2> SUFFICES ASSUME src(i) >= src(j)
               PROVE  FALSE
    BY <1>1
  <2>1. Legal(Current, move, d)
    BY DEF Accept
  <2>2. Commutes(Current[src(i)], Current[src(j)], d)
    BY <1>3, <1>6, <2>1, LegalPairs
  <2> QED
    BY <1>6, <1>7, <2>2
<1>9. order[src(i)] < order[src(j)]
  BY <1>1, <1>2, <1>6, <1>7, <1>8 DEF DependenciesKept
<1> QED
  BY <1>1, <1>9

LEMMA DependenciesNext == Sane /\ DependenciesKept /\ [Next]_vars => DependenciesKept'
<1> SUFFICES ASSUME Sane, DependenciesKept, [Next]_vars
             PROVE  DependenciesKept'
  OBVIOUS
<1>1. ASSUME UNCHANGED <<input, order>>
      PROVE  DependenciesKept'
  BY <1>1, SameOrder DEF DependenciesKept, input
<1>2. ASSUME NEW move \in pending, Try(move)
      PROVE  DependenciesKept'
  <2>1. CASE Accept(move)
    BY <1>2, <2>1, DependenciesAccept DEF Try
  <2>2. CASE RejectIllegal(move) \/ RejectWorse(move)
    BY <1>1, <1>2, <2>2 DEF Try, RejectIllegal, RejectWorse
  <2> QED
    BY <1>2, <2>1, <2>2 DEF Try
<1> QED
  BY <1>1, <1>2 DEF Next, NoMatchesLeft, OutOfRewrites, StartPass, PassExhausted,
                    OutOfCandidates, vars, input

\* The output of the pass is the input up to exchanges of neighbours that the
\* rules let pass each other, after any number of accepted moves.
THEOREM DependenciesAlwaysKept == Spec => []DependenciesKept
BY SaneAlways, DependenciesInit, DependenciesNext, PTL DEF Spec

\* No event changes sides with an allocation, measurement, discard, barrier or
\* annotated gate: the rules let nothing pass a fence.
THEOREM FencesAlwaysHold == Spec => []FencesHold
<1>1. DependenciesKept => FencesHold
  BY DEF DependenciesKept, FencesHold, Commutes
<1> QED
  BY <1>1, DependenciesAlwaysKept, PTL
\* applyOrder finds a live value on every wire an operation of the new order
\* works on: after any number of accepted moves no operation has left the
\* lifetime of its wires, although only neighbours were ever compared.
THEOREM LifetimesAlwaysKept == Spec => []LifetimesKept
<1>1. Sane /\ FencesHold => LifetimesKept
  <2> SUFFICES ASSUME Sane, FencesHold
               PROVE  LifetimesKept
    OBVIOUS
  <2> DEFINE n == Len(trace)
  <2>1. /\ n \in Nat /\ trace \in Seq(Event) /\ order \in [1..n -> 1..n]
        /\ trace \in Programs /\ patterns \in Catalogs
        /\ \A i, j \in 1..n : order[i] = order[j] => i = j
    BY InputTypes DEF Sane, TypeOK
  <2>2. DOMAIN trace = 1..n /\ DOMAIN order = 1..n
    BY <2>1, LenProperties
  <2>3. WithinLifetimes(trace) /\ \A i \in 1..n : IsEvent(trace[i])
    BY <2>1, <2>2, InputAssumption
  <2>4. Current \in Seq(Event) /\ Len(Current) = n /\ \A i \in 1..n : Current[i] = trace[order[i]]
    BY <2>1, ArrangeType DEF Current
  <2>5. DOMAIN Current = 1..n
    BY <2>4, LenProperties
  <2>6. \A i, j \in 1..n : i < j /\ ~(Current[i].movable /\ Current[j].movable) => order[i] < order[j]
    BY <2>2 DEF FencesHold
  <2> HIDE DEF n
  <2>7. FencedOrder(n, order, trace, Current)
    BY <2>1, <2>2, <2>4, <2>5, <2>6 DEF FencedOrder
  <2>8. WithinLifetimes(Current)
    BY <2>1, <2>3, <2>7, FencedOrderKeepsLifetimes
  <2> QED
    BY <2>8 DEF LifetimesKept
<1> QED
  BY <1>1, SaneAlways, FencesAlwaysHold, PTL

-----------------------------------------------------------------------------
(***************************************************************************)
(* The potential of the search, its local minima and its cost counters.    *)
(***************************************************************************)
LEMMA OscillationInit == Init => NoOscillation
<1> SUFFICES ASSUME Init
             PROVE  NoOscillation
  OBVIOUS
<1>1. TypeOK /\ PatternList(patterns)
  BY SaneInit, InputTypes DEF Sane, TypeOK
<1>2. Total(before) \in Nat
  BY <1>1, TotalType DEF TypeOK
<1>3. after = before /\ rewrites = 0
  BY DEF Init
<1> QED
  BY <1>1, <1>2, <1>3 DEF NoOscillation, TypeOK

LEMMA OscillationNext == Sane /\ NoOscillation /\ [Next]_vars => NoOscillation'
<1> SUFFICES ASSUME Sane, NoOscillation, [Next]_vars
             PROVE  NoOscillation'
  OBVIOUS
<1>1. ASSUME UNCHANGED <<input, after, rewrites>>
      PROVE  NoOscillation'
  BY <1>1 DEF NoOscillation, input
<1>2. ASSUME NEW move \in pending, Try(move)
      PROVE  NoOscillation'
  <2>1. CASE RejectIllegal(move) \/ RejectWorse(move)
    BY <1>1, <1>2, <2>1 DEF Try, RejectIllegal, RejectWorse
  <2>2. CASE Accept(move)
    <3>1. UNCHANGED <<trace, patterns, options, before>> /\ rewrites' = rewrites + 1
      BY <1>2, <2>2 DEF Try, Accept, input
    <3>2. CASE options.localOnly
      BY <3>1, <3>2 DEF NoOscillation
    <3>3. CASE ~options.localOnly
      <4>1. Improves(after', after, options.totalOnly)
        BY <2>2, <3>3 DEF Accept, Accepts
      <4>2. TypeOK /\ TypeOK' /\ PatternList(patterns)
        BY SaneNext, InputTypes DEF Sane, TypeOK
      <4>3. /\ before \in [DOMAIN patterns -> Nat] /\ after \in [DOMAIN patterns -> Nat]
            /\ after' \in [DOMAIN patterns -> Nat] /\ rewrites \in Nat
        BY <3>1, <4>2 DEF TypeOK
      <4>4. Total(before) \in Nat /\ Total(after) \in Nat /\ Total(after') \in Nat
        BY <4>2, <4>3, TotalType
      <4>5. Total(after') < Total(after) /\ Total(after) + rewrites <= Total(before)
        BY <3>3, <4>1 DEF Improves, NoOscillation
      <4>6. Total(after') + rewrites' <= Total(before)
        BY <3>1, <4>3, <4>4, <4>5
      <4>7. ~options.totalOnly => \A p \in DOMAIN patterns : after'[p] <= before[p]
        BY <3>3, <4>1, <4>3 DEF Improves, NoOscillation
      <4> QED
        BY <3>1, <4>6, <4>7 DEF NoOscillation
    <3> QED
      BY <3>2, <3>3
  <2> QED
    BY <1>2, <2>1, <2>2 DEF Try
<1> QED
  BY <1>1, <1>2 DEF Next, NoMatchesLeft, OutOfRewrites, StartPass, PassExhausted,
                    OutOfCandidates, vars, input

\* The total falls with every accepted move unless acceptance is local, and no
\* pattern gains an occurrence under the default rule: the accepted moves are
\* at most as many as the occurrences of the first scan.
THEOREM NeverOscillates == Spec => []NoOscillation
BY SaneAlways, OscillationInit, OscillationNext, PTL DEF Spec

\* What a pass has tried and rejected would still be rejected.
Rejected(move) ==
    Legal(Current, move, options.diagonalOnly) =>
        ~Accepts(move, CountMatches(MatchesOf(Rotate(order, move)), patterns))

TriedRejected ==
    /\ pc = "search" => \A move \in Moves(Current, matches) \ pending : Rejected(move)
    /\ pc = "done" /\ options.transform /\ ~budgetExhausted =>
          \A move \in Moves(Current, matches) : Rejected(move)

LEMMA SameRejected ==
    ASSUME UNCHANGED <<input, order, after>>
    PROVE  \A move : Rejected(move)' <=> Rejected(move)
BY DEF Rejected, Accepts, Current, MatchesOf, Arrange, input
LEMMA TriedInit == Init => TriedRejected
BY DEF Init, TriedRejected

LEMMA TriedNext == TriedRejected /\ [Next]_vars => TriedRejected'
<1> SUFFICES ASSUME TriedRejected, [Next]_vars
             PROVE  TriedRejected'
  OBVIOUS
<1> DEFINE found == Moves(Current, matches)
<1>1. ASSUME UNCHANGED <<input, order, after, matches>>
      PROVE  found' = found /\ \A move : Rejected(move)' <=> Rejected(move)
  BY <1>1, SameOrder, SameRejected
<1>2. CASE NoMatchesLeft
  BY <1>2 DEF NoMatchesLeft, TriedRejected, Moves
<1>3. CASE OutOfRewrites
  BY <1>3 DEF OutOfRewrites, TriedRejected
<1>4. CASE StartPass
  <2>1. found' = found /\ pending' = found /\ pc' = "search"
    BY <1>1, <1>4 DEF StartPass
  <2> QED
    BY <2>1 DEF TriedRejected
<1>5. CASE PassExhausted
  <2>1. /\ pc = "search" /\ pending = {} /\ pc' = "done"
        /\ found' = found /\ \A move : Rejected(move)' <=> Rejected(move)
    BY <1>1, <1>5 DEF PassExhausted
  <2> HIDE DEF found
  <2>2. \A move \in found : Rejected(move)
    BY <2>1 DEF TriedRejected, found
  <2> QED
    BY <2>1, <2>2 DEF TriedRejected, found
<1>6. CASE OutOfCandidates
  BY <1>6 DEF OutOfCandidates, TriedRejected
<1>7. ASSUME NEW move \in pending, Try(move)
      PROVE  TriedRejected'
  <2>1. CASE Accept(move)
    BY <2>1 DEF Accept, TriedRejected
  <2>2. CASE RejectIllegal(move) \/ RejectWorse(move)
    <3>1. /\ pc = "search" /\ pc' = "search" /\ pending' = pending \ {move}
          /\ UNCHANGED <<input, order, after, matches>>
      BY <1>7, <2>2 DEF Try, RejectIllegal, RejectWorse
    <3>2. Rejected(move)
      BY <2>2 DEF Rejected, RejectIllegal, RejectWorse
    <3>3. found' = found /\ \A m : Rejected(m)' <=> Rejected(m)
      BY <1>1, <3>1
    <3>4. \A m \in found \ pending : Rejected(m)
      BY <3>1 DEF TriedRejected
    <3> HIDE DEF found
    <3>5. \A m \in found' \ pending' : Rejected(m)'
      BY <3>1, <3>2, <3>3, <3>4
    <3> QED
      BY <3>1, <3>5 DEF TriedRejected, found
  <2> QED
    BY <1>7, <2>1, <2>2 DEF Try
<1>8. CASE UNCHANGED vars
  <2>1. /\ UNCHANGED <<options, budgetExhausted, pending, pc>> /\ found' = found
        /\ \A move : Rejected(move)' <=> Rejected(move)
    BY <1>1, <1>8 DEF vars, input
  <2> HIDE DEF found
  <2> QED
    BY <2>1 DEF TriedRejected, found
<1> QED
  BY <1>2, <1>3, <1>4, <1>5, <1>6, <1>7, <1>8 DEF Next

\* A search that no budget cut short ends in a local minimum: the pass, run
\* again on its own output, would accept nothing.
THEOREM SecondRunIsAlwaysNoop == Spec => []SecondRunIsNoop
<1>1. Sane /\ TriedRejected => SecondRunIsNoop
  BY DEF Sane, MatchesCurrent, MatchesOf, Current, TriedRejected, Rejected, SecondRunIsNoop
<1> QED
  BY <1>1, SaneAlways, TriedInit, TriedNext, PTL DEF Spec

\* A pass is only started with rewrites left, and nothing is untried between
\* two passes.
BudgetLeft ==
    /\ pc = "search" => ~RewriteBudgetSpent
    /\ pc = "restart" => pending = {}

LEMMA CountersInit == Init => CountersConsistent /\ BudgetLeft
<1> SUFFICES ASSUME Init
             PROVE  CountersConsistent /\ BudgetLeft
  OBVIOUS
<1>1. options.maxCandidates \in Nat /\ options.maxRewrites \in Nat
  BY InputAssumption DEF Init, SearchOptions
<1> QED
  BY <1>1 DEF Init, CountersConsistent, BudgetLeft, RewriteBudgetSpent

LEMMA CountersNext ==
    Sane /\ CountersConsistent /\ BudgetLeft /\ [Next]_vars => CountersConsistent' /\ BudgetLeft'
<1> SUFFICES ASSUME Sane, CountersConsistent, BudgetLeft, [Next]_vars
             PROVE  CountersConsistent' /\ BudgetLeft'
  OBVIOUS
<1>1. /\ options.maxCandidates \in Nat /\ options.maxRewrites \in Nat
      /\ rewrites \in Nat /\ candidates \in Nat /\ legalCandidates \in Nat /\ scans \in Nat
  BY InputAssumption DEF Sane, TypeOK, SearchOptions
<1> USE DEF CandidateBudgetSpent, RewriteBudgetSpent, BudgetLeft
<1>2. CASE NoMatchesLeft
  BY <1>2 DEF NoMatchesLeft, CountersConsistent, input
<1>3. CASE OutOfRewrites
  BY <1>3 DEF OutOfRewrites, CountersConsistent, input
<1>4. CASE StartPass
  BY <1>4 DEF StartPass, CountersConsistent, input
<1>5. CASE PassExhausted
  BY <1>5 DEF PassExhausted, CountersConsistent, input
<1>6. CASE OutOfCandidates
  <2>1. matches # {}
    BY <1>6 DEF OutOfCandidates, Sane, PendingCurrent, Moves
  <2> QED
    BY <1>6, <2>1 DEF OutOfCandidates, CountersConsistent, input
<1>7. ASSUME NEW move \in pending, Try(move)
      PROVE  CountersConsistent' /\ BudgetLeft'
  <2>1. ~budgetExhausted
    BY <1>7 DEF Try, CountersConsistent
  <2>2. /\ UNCHANGED <<input, budgetExhausted>>
        /\ candidates' = candidates + 1 /\ ~CandidateBudgetSpent
        /\ pc = "search"
    BY <1>7 DEF Try
  <2>3. CASE RejectIllegal(move)
    BY <1>1, <2>1, <2>2, <2>3 DEF RejectIllegal, CountersConsistent, input
  <2>4. CASE RejectWorse(move)
    BY <1>1, <2>1, <2>2, <2>4 DEF RejectWorse, CountersConsistent, input
  <2>5. CASE Accept(move)
    <3>1. ~RewriteBudgetSpent
      BY <1>7 DEF Try
    <3> QED
      BY <1>1, <2>1, <2>2, <2>5, <3>1 DEF Accept, CountersConsistent, input
  <2> QED
    BY <1>7, <2>3, <2>4, <2>5 DEF Try
<1>8. CASE UNCHANGED vars
  BY <1>8 DEF vars, CountersConsistent, input
<1> QED
  BY <1>2, <1>3, <1>4, <1>5, <1>6, <1>7, <1>8 DEF Next

\* The report's counters add up and respect both budgets; "budget" is reported
\* exactly when one cut the search short, with occurrences or a candidate left.
THEOREM CountersAlwaysConsistent == Spec => []CountersConsistent
BY SaneAlways, CountersInit, CountersNext, PTL DEF Spec

-----------------------------------------------------------------------------
(***************************************************************************)
(* The contract.                                                           *)
(***************************************************************************)

\* The counts of the first scan stay those of the source circuit.
FirstScanKept == before = CountsOf(trace, patterns, options.global)

LEMMA FirstScanInit == Init => FirstScanKept
<1> SUFFICES ASSUME Init
             PROVE  FirstScanKept
  OBVIOUS
<1>1. trace \in Seq(Event) /\ Len(trace) \in Nat
  BY InputTypes DEF Init
<1>2. Arrange(order) = trace
  BY <1>1 DEF Init, Arrange
<1> QED
  BY <1>2 DEF Init, FirstScanKept, CountsOf, MatchesOf

LEMMA FirstScanNext == FirstScanKept /\ [Next]_vars => FirstScanKept'
<1> SUFFICES ASSUME FirstScanKept, [Next]_vars
             PROVE  FirstScanKept'
  OBVIOUS
<1>1. UNCHANGED input
  BY DEF Next, vars, input, NoMatchesLeft, OutOfRewrites, StartPass, PassExhausted,
         OutOfCandidates, Try
<1> QED
  BY <1>1 DEF FirstScanKept, input

\* Whenever it stops, by itself or by a budget, the search keeps the contract
\* that OptimizePipeline assumes of the compiler: the order is a permutation that
\* keeps dependent events in order, the counts are those of the two circuits,
\* and they respect the acceptance rule.
THEOREM ContractAlwaysKept ==
    Spec => [](Contract(trace, patterns, options, order, before, after))
<1>1. Sane /\ DependenciesKept /\ NoOscillation /\ FirstScanKept
        => Contract(trace, patterns, options, order, before, after)
  <2> SUFFICES ASSUME Sane, DependenciesKept, NoOscillation, FirstScanKept
               PROVE  Contract(trace, patterns, options, order, before, after)
    OBVIOUS
  <2>1. trace \in Seq(Event) /\ Len(trace) \in Nat /\ PatternList(patterns)
    BY InputTypes DEF Sane, TypeOK
  <2>2. DOMAIN order = 1..Len(trace) /\ Len(order) = Len(trace)
    BY <2>1 DEF Sane, TypeOK
  <2>3. IsPermutationOf(order, Len(trace))
    BY <2>2 DEF Sane, TypeOK, IsPermutationOf
  <2>4. \A i \in DOMAIN order : Current[i] = trace[order[i]]
    BY <2>1, <2>2 DEF Current, Arrange
  <2>5. KeepsOrder(trace, order, options.diagonalOnly)
    BY <2>4 DEF DependenciesKept, KeepsOrder
  <2>6. after = CountsOf(Rearranged(trace, order), patterns, options.global)
    BY DEF Sane, MatchesCurrent, MatchesOf, Arrange, Rearranged, CountsOf
  <2>7. CountsAllowed(before, after, options)
    <3>1. /\ before \in [DOMAIN patterns -> Nat] /\ after \in [DOMAIN patterns -> Nat]
          /\ rewrites \in Nat
      BY DEF Sane, TypeOK
    <3>2. Total(before) \in Nat /\ Total(after) \in Nat
      BY <2>1, <3>1, TotalType DEF PatternList
    <3>3. ~options.localOnly => Total(after) <= Total(before)
      BY <3>1, <3>2 DEF NoOscillation
    <3>4. ~options.localOnly /\ ~options.totalOnly => \A p \in DOMAIN before : after[p] <= before[p]
      BY <3>1 DEF NoOscillation
    <3> QED
      BY <3>3, <3>4 DEF CountsAllowed
  <2> QED
    BY <2>3, <2>5, <2>6, <2>7 DEF FirstScanKept, Contract
<1> QED
  BY <1>1, SaneAlways, DependenciesAlwaysKept, NeverOscillates, FirstScanInit, FirstScanNext, PTL DEF Spec

-----------------------------------------------------------------------------
(***************************************************************************)
(* The report.                                                             *)
(***************************************************************************)

\* Until a move is accepted the plan is that of the first scan; a first move
\* is only accepted where that scan found something.
ScanKept ==
    /\ rewrites = 0 => order = [i \in 1..Len(trace) |-> i] /\ after = before
    /\ rewrites > 0 => Total(before) > 0
    /\ ~options.transform => rewrites = 0 /\ pc = "done"

LEMMA NothingCounted ==
    ASSUME Sane
    PROVE  /\ Total(after) = 0 <=> matches = {}
           /\ Total(after) \in Nat /\ Total(before) \in Nat
           /\ patterns = <<>> => matches = {}
<1>1. trace \in Programs /\ patterns \in Catalogs /\ order \in [1..Len(trace) -> 1..Len(trace)]
        /\ before \in [DOMAIN patterns -> Nat] /\ after \in [DOMAIN patterns -> Nat]
  BY DEF Sane, TypeOK
<1>2. PatternList(patterns) /\ Arrange(order) \in Seq(Event)
  BY <1>1, InputTypes, ArrangeType
<1>3. /\ matches = FindMatches(Arrange(order), patterns, options.global)
      /\ after = CountMatches(matches, patterns)
  BY DEF Sane, MatchesCurrent, MatchesOf
<1>4. Total(after) = 0 <=> matches = {}
  <2> HIDE DEF Arrange
  <2> QED
    BY <1>2, <1>3, TotalZero
<1>5. Total(after) \in Nat /\ Total(before) \in Nat
  BY <1>1, <1>2, TotalType
<1>6. patterns = <<>> => matches = {}
  BY <1>3 DEF FindMatches
<1> QED
  BY <1>4, <1>5, <1>6

LEMMA ScanKeptInit == Init => ScanKept
BY DEF Init, ScanKept

LEMMA ScanKeptNext == Sane /\ ScanKept /\ [Next]_vars => ScanKept'
<1> SUFFICES ASSUME Sane, ScanKept, [Next]_vars
             PROVE  ScanKept'
  OBVIOUS
<1>1. ASSUME UNCHANGED <<input, order, after, rewrites>>, pc = "done" => pc' = "done"
      PROVE  ScanKept'
  BY <1>1 DEF ScanKept, input
<1>2. ASSUME NEW move \in pending, Try(move), Accept(move)
      PROVE  ScanKept'
  <2>1. UNCHANGED input /\ rewrites' = rewrites + 1 /\ rewrites \in Nat /\ pc = "search"
    BY <1>2 DEF Try, Accept, Sane, TypeOK
  <2>2. Total(before) > 0
    <3>1. matches # {}
      BY <1>2 DEF Sane, PendingCurrent, Moves
    <3>2. Total(after) > 0 /\ Total(before) \in Nat
      BY <3>1, NothingCounted
    <3> QED
      BY <2>1, <3>2 DEF ScanKept
  <2> QED
    BY <2>1, <2>2 DEF ScanKept, input
<1>3. ASSUME NEW move \in pending, Try(move)
      PROVE  ScanKept'
  BY <1>1, <1>2, <1>3 DEF Try, RejectIllegal, RejectWorse
<1>4. CASE UNCHANGED vars
  BY <1>1, <1>4 DEF vars, input
<1> QED
  BY <1>1, <1>3, <1>4 DEF Next, NoMatchesLeft, OutOfRewrites, StartPass, PassExhausted, OutOfCandidates

\* The status and the termination reason a circuit is reported with mean what
\* the documentation says of them, for every circuit, catalog, option and
\* budget: nothing moved where nothing is said to have moved, nothing is left
\* where all is said to be gone, and only local acceptance may climb.
THEOREM ReportAlwaysTruthful == Spec => []ReportTruthful
<1>1. Sane /\ NoOscillation /\ CountersConsistent /\ ScanKept => ReportTruthful
  <2> SUFFICES ASSUME Sane, NoOscillation, CountersConsistent, ScanKept, pc = "done"
               PROVE  ReportTruthful
    BY DEF ReportTruthful
  <2>1. /\ Total(after) = 0 <=> matches = {}
        /\ Total(after) \in Nat /\ Total(before) \in Nat
        /\ patterns = <<>> => matches = {}
        /\ rewrites \in Nat
        /\ matches = MatchesOf(order)
    BY NothingCounted DEF Sane, TypeOK, MatchesCurrent
  <2>2. rewrites > 0 => Total(before) > 0
    BY DEF ScanKept
  <2>3. patterns = <<>> => rewrites = 0
    <3>1. patterns = <<>> => Total(before) = 0
      <4>1. patterns = <<>> => before = after
        BY DEF Sane, TypeOK
      <4> QED
        BY <2>1, <4>1
    <3> QED
      BY <2>1, <2>2, <3>1
  <2>4. Status \in {"blocked", "matched", "no_matches", "no_backend_patterns"} => rewrites = 0
    BY <2>1, <2>2, <2>3 DEF Status, ScanKept
  <2>5. Status = "eliminated" => MatchesOf(order) = {} /\ rewrites > 0
    BY <2>1 DEF Status, ScanKept
  <2>6. Status \in {"increased", "unchanged"} => options.localOnly
    BY <2>1 DEF Status, NoOscillation
  <2>7. Status = "partial" => Total(after) < Total(before)
    BY <2>1 DEF Status
  <2>8. TerminationReason = "no_matches" <=> matches = {}
    BY DEF TerminationReason, CountersConsistent
  <2>9. Status \in {"eliminated", "no_matches", "no_backend_patterns"} <=> matches = {}
    BY <2>1 DEF Status
  <2> QED
    BY <2>4, <2>5, <2>6, <2>7, <2>8, <2>9 DEF ReportTruthful, ScanKept
<1> QED
  BY <1>1, SaneAlways, NeverOscillates, CountersAlwaysConsistent, ScanKeptInit, ScanKeptNext, PTL DEF Spec
=============================================================================
