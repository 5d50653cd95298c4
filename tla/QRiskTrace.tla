----------------------------- MODULE QRiskTrace -----------------------------
(***************************************************************************)
(* The pure functions of lib/Transforms/QRiskPasses.cpp: how a circuit is  *)
(* seen by the QRisk passes (a trace of events on physical wires), what an *)
(* occurrence of an observed pattern is, which pairs of events the rewrite *)
(* rules let pass each other, and how one candidate move permutes a trace. *)
(*                                                                         *)
(* Positions are 1-based where the C++ vectors are 0-based.  Angles are    *)
(* integers: only their differences and equality matter to the code.  An   *)
(* absent angle (std::optional) is {}, a present one {a}.                  *)
(***************************************************************************)
EXTENDS Integers, Sequences, FiniteSets

Gates == {"h", "x", "z", "sx", "rz", "cx", "cz"}
Effects == {"alloc", "measure", "discard", "barrier", "output"}

Arity(gate) == IF gate \in {"cx", "cz"} THEN 2 ELSE 1

Angles == {S \in SUBSET Int : \A a, b \in S : a = b}

\* One operation of the circuit.  A gate is movable unless it carries an
\* annotation besides its angle and its Qiskit source index.
Event == [gate : Gates \cup Effects, qubits : Seq(Nat), angle : Angles, movable : BOOLEAN]

GateSpec == [gate : Gates, qubits : Seq(Nat), angle : Angles]

WiresOf(event) == {event.qubits[i] : i \in DOMAIN event.qubits}

IsEvent(event) ==
    /\ event \in Event
    /\ event.gate \in Gates => /\ Len(event.qubits) = Arity(event.gate)
                               /\ Cardinality(WiresOf(event)) = Arity(event.gate)
    /\ event.movable => event.gate \in Gates

\* What loadCatalog accepts: two gates or more, each of its arity, on distinct
\* qubits, an angle on rz alone.
IsPattern(pattern) ==
    /\ DOMAIN pattern = {"gates", "tolerance"}
    /\ pattern.tolerance \in Nat
    /\ pattern.gates \in Seq(GateSpec)
    /\ Len(pattern.gates) >= 2
    /\ \A i \in DOMAIN pattern.gates :
          LET spec == pattern.gates[i]
          IN  /\ Len(spec.qubits) = Arity(spec.gate)
              /\ Cardinality(WiresOf(spec)) = Arity(spec.gate)
              /\ spec.angle # {} => spec.gate = "rz"

\* The union of the wires of a pattern's gates.
Scope(pattern) == UNION {WiresOf(pattern.gates[i]) : i \in DOMAIN pattern.gates}

Disjoint(a, b) == WiresOf(a) \cap WiresOf(b) = {}

-----------------------------------------------------------------------------
(***************************************************************************)
(* Matching.                                                               *)
(***************************************************************************)

\* The positions a pattern is matched against: every operation that touches
\* its scope, fences included; or, in the global ablation, all the gates,
\* measurements and barriers of the circuit.
Projected(trace, pattern, global) ==
    {i \in DOMAIN trace :
        IF global THEN trace[i].gate \in Gates \cup {"measure", "barrier"}
                  ELSE WiresOf(trace[i]) \cap Scope(pattern) # {}}

\* How many of the positions in P come before i, and the increasing sequence
\* of all of them.
Rank(P, i) == Cardinality({j \in P : j < i})
Increasing(P) == [r \in 1..Cardinality(P) |-> CHOOSE i \in P : Rank(P, i) = r - 1]

AngleMatches(expected, actual, tolerance) ==
    \A e \in expected : \E a \in actual : e - a \in (-tolerance)..tolerance

EventMatches(spec, event, tolerance) ==
    /\ spec.gate = event.gate
    /\ spec.qubits = event.qubits
    /\ AngleMatches(spec.angle, event.angle, tolerance)

\* The contiguous windows of the projection P that a pattern matches,
\* overlapping ones included, each as the sequence of its positions in the trace.
WindowsIn(P, trace, pattern) ==
    LET size == Len(pattern.gates)
        projected == Increasing(P)
    IN  {w \in {SubSeq(projected, start + 1, start + size) :
                    start \in 0..(Cardinality(P) - size)} :
            \A j \in 1..size :
                EventMatches(pattern.gates[j], trace[w[j]], pattern.tolerance)}

\* (Bound to an element of a singleton, the projection is computed only once.)
Windows(trace, pattern, global) ==
    UNION {WindowsIn(P, trace, pattern) : P \in {Projected(trace, pattern, global)}}

FindMatches(trace, patterns, global) ==
    UNION {{[pattern |-> p, steps |-> w] : w \in Windows(trace, patterns[p], global)} :
           p \in DOMAIN patterns}

CountMatches(matches, patterns) ==
    [p \in DOMAIN patterns |-> Cardinality({m \in matches : m.pattern = p})]

\* The sum of the counts, as the size of their disjoint union.
Total(counts) == Cardinality(UNION {{p} \X (1..counts[p]) : p \in DOMAIN counts})

-----------------------------------------------------------------------------
(***************************************************************************)
(* The rewrite rules and the acceptance rule.                              *)
(***************************************************************************)

Diagonal(event) == event.gate \in {"z", "rz", "cz"}
XAxis(event) == event.gate \in {"x", "sx"}
Unary(event) == Len(event.qubits) = 1

\* A single-qubit gate on the control (diagonal) or on the target (X axis) of
\* a CX passes it.
PassesCX(single, cx) ==
    /\ cx.gate = "cx"
    /\ Unary(single)
    /\ \/ Diagonal(single) /\ single.qubits[1] = cx.qubits[1]
       \/ XAxis(single) /\ single.qubits[1] = cx.qubits[2]

\* Seeded defect: fences are not looked at.
CommutesUnfenced(a, b, diagonalOnly) == Disjoint(a, b) \/ (Diagonal(a) /\ Diagonal(b))

\* Seeded defects: only one control is compared with the other's target; a CX
\* first and a single-qubit gate second are not looked at.
CommutesOneSided(a, b, diagonalOnly) ==
    a.movable /\ b.movable /\ (Disjoint(a, b) \/ (a.gate = "cx" /\ b.gate = "cx" /\ a.qubits[1] # b.qubits[2]))

CommutesSingleFirst(a, b, diagonalOnly) ==
    a.movable /\ b.movable /\ (Disjoint(a, b) \/ (~diagonalOnly /\ PassesCX(a, b)))

Commutes(a, b, diagonalOnly) ==
    /\ a.movable
    /\ b.movable
    /\ \/ Disjoint(a, b)
       \/ Diagonal(a) /\ Diagonal(b)
       \/ /\ ~diagonalOnly
          /\ \/ Unary(a) /\ Unary(b) /\ (a.gate = b.gate \/ (XAxis(a) /\ XAxis(b)))
             \/ /\ a.gate = "cx" /\ b.gate = "cx"
                /\ a.qubits[1] # b.qubits[2] /\ b.qubits[1] # a.qubits[2]
             \/ PassesCX(a, b)
             \/ PassesCX(b, a)

\* Seeded defect: an equal total counts as an improvement.
ImprovesOrEquals(candidate, current, totalOnly) ==
    /\ Total(candidate) <= Total(current)
    /\ totalOnly \/ \A p \in DOMAIN current : candidate[p] <= current[p]

Improves(candidate, current, totalOnly) ==
    /\ Total(candidate) < Total(current)
    /\ totalOnly \/ \A p \in DOMAIN current : candidate[p] <= current[p]

-----------------------------------------------------------------------------
(***************************************************************************)
(* Candidate moves.  Direction 0 takes the right event of a pair to the    *)
(* left one's position, direction 1 the left event to the right one's.     *)
(***************************************************************************)

\* The pairs of positions of an occurrence the search tries: those whose
\* events share a wire.
Endpoints(trace, match) ==
    LET positions == {match.steps[j] : j \in DOMAIN match.steps}
    IN  {e \in positions \X positions :
            e[1] < e[2] /\ ~Disjoint(trace[e[1]], trace[e[2]])}

Directions(left, right) == IF right = left + 1 THEN {0} ELSE {0, 1}

\* The moves a pass tries for one occurrence, and for all of them.
MovesOf(trace, match) ==
    UNION {{[pattern |-> match.pattern, start |-> match.steps[1],
             left |-> e[1], right |-> e[2], direction |-> d] : d \in Directions(e[1], e[2])} :
           e \in Endpoints(trace, match)}

Moves(trace, matches) == UNION {MovesOf(trace, m) : m \in matches}

\* The order of the nested loops: matches by pattern and first position, then
\* the left end, the right end and the direction.
Key(move) == <<move.pattern, move.start, move.left, move.right, move.direction>>

Precedes(a, b) ==
    \E i \in 1..5 : /\ Key(a)[i] < Key(b)[i]
                    /\ \A j \in 1..(i - 1) : Key(a)[j] = Key(b)[j]

\* Seeded defect: only the two ends are compared, not the events between them.
LegalAtEnds(trace, move, diagonalOnly) ==
    Commutes(trace[move.left], trace[move.right], diagonalOnly)

\* The moved event must pass each event between the two ends, and the far end.
Legal(trace, move, diagonalOnly) ==
    IF move.direction = 0
    THEN \A i \in move.left..(move.right - 1) : Commutes(trace[move.right], trace[i], diagonalOnly)
    ELSE \A i \in move.left..(move.right - 1) : Commutes(trace[move.left], trace[i + 1], diagonalOnly)

\* Seeded defect: the moved event is copied instead of rotated.
RotateCopying(seq, move) ==
    [i \in 1..Len(seq) |->
        IF i = move.left /\ move.direction = 0 THEN seq[move.right]
        ELSE IF i = move.right /\ move.direction = 1 THEN seq[move.left] ELSE seq[i]]

\* std::rotate over left..right, by one place to the right or to the left.
Rotate(seq, move) ==
    [i \in 1..Len(seq) |->
        IF i < move.left \/ i > move.right THEN seq[i]
        ELSE IF move.direction = 0
             THEN IF i = move.left THEN seq[move.right] ELSE seq[i - 1]
             ELSE IF i = move.right THEN seq[move.left] ELSE seq[i + 1]]

-----------------------------------------------------------------------------
(***************************************************************************)
(* applyOrder: the SSA operands of each operation are set again from the   *)
(* values that are live on its physical wires at its new place.            *)
(***************************************************************************)

\* Barriers name wires without using their values.
UsesWire(event, q) == event.gate # "barrier" /\ q \in WiresOf(event)

\* The wire q holds a value before position i: the last operation on it there
\* is not one that consumes it.
Live(trace, q, i) ==
    \E j \in 1..(i - 1) :
        /\ UsesWire(trace[j], q)
        /\ trace[j].gate \notin {"measure", "discard"}
        /\ \A k \in (j + 1)..(i - 1) : ~UsesWire(trace[k], q)

\* No operation is found before the allocation of its wire or after its end.
WithinLifetimes(trace) ==
    \A i \in DOMAIN trace : \A q \in WiresOf(trace[i]) :
        UsesWire(trace[i], q) /\ trace[i].gate # "alloc" => Live(trace, q, i)
=============================================================================
