---------------------------- MODULE GateMatrices ----------------------------
(***************************************************************************)
(* The reference the rewrites are checked against: the gates of the        *)
(* dialect as matrices on WireCount wires, and the matrix of a circuit.    *)
(*                                                                         *)
(* Each gate is a matrix of Gaussian integers <<re, im>>: H without its    *)
(* 1/sqrt(2), SX without its 1/2, rz(a) as diag(5, Phases[a]) where        *)
(* Phases[a] is five times e^(i a) for some angles of the unit circle.     *)
(* Whether two matrices commute does not depend on such factors, and two   *)
(* circuits are compared with the factors of their H gates made up for.    *)
(***************************************************************************)
EXTENDS QRiskTrace, SequencesExt

CONSTANTS
    WireCount,   \* wires of the register, numbered from 0
    Phases       \* angle -> 5 e^(i angle), a Gaussian integer of norm 25

ASSUME MatrixAssumption == WireCount \in Nat /\ Phases \in [DOMAIN Phases -> Int \X Int]

\* A row is a bit for each wire, told by the wires whose bit is one.
Register == 0..(WireCount - 1)
Row(ones) == [q \in Register |-> IF q \in ones THEN 1 ELSE 0]
Basis == {Row(ones) : ones \in SUBSET Register}

Plus(u, v) == <<u[1] + v[1], u[2] + v[2]>>
Times(u, v) == <<u[1] * v[1] - u[2] * v[2], u[1] * v[2] + u[2] * v[1]>>
Zero == <<0, 0>>
One == <<1, 0>>

\* The entry of a one-qubit gate from bit c to bit r.
UnaryEntry(event, r, c) ==
    CASE event.gate = "h" -> IF r = 1 /\ c = 1 THEN <<-1, 0>> ELSE One
      [] event.gate = "x" -> IF r # c THEN One ELSE Zero
      [] event.gate = "z" -> IF r # c THEN Zero ELSE IF r = 1 THEN <<-1, 0>> ELSE One
      [] event.gate = "sx" -> IF r = c THEN <<1, 1>> ELSE <<1, -1>>
      [] event.gate = "rz" -> IF r # c THEN Zero ELSE IF r = 1 THEN Phases[CHOOSE a \in event.angle : TRUE]
                                                     ELSE <<5, 0>>

\* The entry of a two-qubit gate, operands in order.
BinaryEntry(event, r1, r2, c1, c2) ==
    CASE event.gate = "cx" -> IF r1 = c1 /\ r2 = (c1 + c2) % 2 THEN One ELSE Zero
      [] event.gate = "cz" -> IF r1 # c1 \/ r2 # c2 THEN Zero
                              ELSE IF c1 = 1 /\ c2 = 1 THEN <<-1, 0>> ELSE One

Entry(event, row, col) ==
    IF \E q \in Register : q \notin WiresOf(event) /\ row[q] # col[q] THEN Zero
    ELSE LET r(i) == row[event.qubits[i]]
             c(i) == col[event.qubits[i]]
         IN  IF Unary(event) THEN UnaryEntry(event, r(1), c(1))
                             ELSE BinaryEntry(event, r(1), r(2), c(1), c(2))

GateEvents ==
    {[gate |-> g, qubits |-> <<q>>, angle |-> {}, movable |-> TRUE] :
        g \in {"h", "x", "z", "sx"}, q \in Register}
    \cup {[gate |-> "rz", qubits |-> <<q>>, angle |-> {a}, movable |-> TRUE] :
        q \in Register, a \in DOMAIN Phases}
    \cup {[gate |-> g, qubits |-> qs, angle |-> {}, movable |-> TRUE] :
        g \in {"cx", "cz"},
        qs \in {p \in Register \X Register : p[1] # p[2]}}

\* A gate leaves the wires as they are but for its last one: in a row of its
\* matrix only the entry of the row itself and that of the row with this wire
\* flipped are not zero.
Flip(row, q) == [row EXCEPT ![q] = 1 - @]
Flipped(event, row) == Flip(row, event.qubits[Len(event.qubits)])

Terms == [e \in GateEvents |-> [row \in Basis |->
             [other |-> Flipped(e, row), own |-> Entry(e, row, row),
              turned |-> Entry(e, row, Flipped(e, row))]]]

-----------------------------------------------------------------------------
(***************************************************************************)
(* Circuits.                                                               *)
(***************************************************************************)
Identity == [row \in Basis |-> [col \in Basis |-> IF row = col THEN One ELSE Zero]]

\* A gate after a matrix.
After(gate, m) ==
    LET terms == Terms[gate]
    IN  [row \in Basis |->
            LET t == terms[row]
                mine == m[row]
                others == m[t.other]
            IN  [col \in Basis |-> Plus(Times(t.own, mine[col]), Times(t.turned, others[col]))]]

Matrix == [e \in GateEvents |-> [row \in Basis |-> [col \in Basis |-> Entry(e, row, col)]]]

Scaled(factor, m) ==
    [row \in Basis |-> [col \in Basis |-> Times(<<factor, 0>>, m[row][col])]]

\* What a circuit did so far, the matrix of its gates and the number of its H,
\* and one event more: a gate, whether it may move or not, or no gate.
NoGates == [matrix |-> Identity, halves |-> 0]
Does(event, done) ==
    IF event.gate \notin Gates THEN done
    ELSE [matrix |-> After([event EXCEPT !.movable = TRUE], done.matrix),
          halves |-> done.halves + IF event.gate = "h" THEN 1 ELSE 0]

Behaviour(trace) == FoldLeft(LAMBDA done, event : Does(event, done), NoGates, trace)

TwoTo(k) == LET power[n \in 0..k] == IF n = 0 THEN 1 ELSE 2 * power[n - 1] IN power[k]

\* b may have some pairs of H less than a, each pair a factor 2.
SameBehaviour(a, b) ==
    \E k \in 0..(a.halves \div 2) :
        /\ a.halves = b.halves + 2 * k
        /\ a.matrix = Scaled(TwoTo(k), b.matrix)
=============================================================================
