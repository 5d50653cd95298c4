--------------------------- MODULE QRiskMitigateMC ---------------------------
(***************************************************************************)
(* Instances of QRiskMitigate for TLC: every word of WordLength gates over *)
(* a small alphabet on two wires, between the allocations and the ends of  *)
(* the wires, and a few longer circuits with fences in the middle.         *)
(***************************************************************************)
EXTENDS QRiskMitigate, SequencesExt

CONSTANT WordLength

Ev(gate, qubits) == [gate |-> gate, qubits |-> qubits, angle |-> {}, movable |-> gate \in Gates]
Rz(q, angle) == [gate |-> "rz", qubits |-> <<q>>, angle |-> {angle}, movable |-> TRUE]
Annotated(event) == [event EXCEPT !.movable = FALSE]

Z0 == Ev("z", <<0>>)
X1 == Ev("x", <<1>>)
H1 == Ev("h", <<1>>)
SX1 == Ev("sx", <<1>>)
CX == Ev("cx", <<0, 1>>)
CZ == Ev("cz", <<0, 1>>)

Opening == <<Ev("alloc", <<0>>), Ev("alloc", <<1>>)>>
Closing == <<Ev("measure", <<1>>), Ev("discard", <<0>>), Ev("output", <<>>)>>

Letters == {Z0, Rz(0, 3), X1, CX, H1}
Words == {Opening \o w \o Closing : w \in [1..WordLength -> Letters]}

\* Fences between gates: a late allocation, an early end of a wire, barriers
\* on a spectator and on no wire, an annotated gate; and three occurrences.
Fenced == {
    <<Ev("alloc", <<0>>), Rz(0, 3), Ev("alloc", <<1>>), CZ, Z0, CZ>> \o Closing,
    Opening \o <<Ev("alloc", <<2>>), Z0, Ev("measure", <<2>>), CX, Z0, CX>> \o Closing,
    Opening \o <<Z0, Ev("barrier", <<>>), CX, Ev("barrier", <<1>>), Rz(0, 3), CX, X1>> \o Closing,
    Opening \o <<Annotated(Z0), CX, X1, Z0, Annotated(CX), SX1, Z0, CX>> \o Closing,
    Opening \o <<Rz(0, 3), CX, X1, Rz(0, 5), CX, X1, Z0, CX>> \o Closing}

Circuits == Words \cup Fenced

Spec1(gate, qubits) == [gate |-> gate, qubits |-> qubits, angle |-> {}]
Pattern(gates) == [gates |-> gates, tolerance |-> 1]

ZCX == Pattern(<<Spec1("z", <<0>>), Spec1("cx", <<0, 1>>)>>)
CXZ == Pattern(<<Spec1("cx", <<0, 1>>), Spec1("z", <<0>>)>>)
CXX == Pattern(<<Spec1("cx", <<0, 1>>), Spec1("x", <<1>>)>>)
RzCXX == Pattern(<<[Spec1("rz", <<0>>) EXCEPT !.angle = {4}], Spec1("cx", <<0, 1>>), Spec1("x", <<1>>)>>)
RzCZ == Pattern(<<Spec1("rz", <<0>>), Spec1("cz", <<0, 1>>)>>)
ZRzX == Pattern(<<Spec1("z", <<0>>), Spec1("rz", <<0>>), Spec1("x", <<1>>)>>)
ZHZ == Pattern(<<Spec1("z", <<0>>), Spec1("h", <<1>>), Spec1("z", <<0>>)>>)
HCXZ == Pattern(<<Spec1("h", <<1>>), Spec1("cx", <<0, 1>>), Spec1("z", <<0>>)>>)
ZH == Pattern(<<Spec1("z", <<0>>), Spec1("h", <<1>>)>>)

\* Conflicting patterns (breaking one makes another), duplicates, overlaps.
PatternLists == {<<>>, <<RzCXX, ZCX>>, <<ZCX, ZCX, CXZ>>, <<ZCX, CXZ, CXZ>>,
                  <<ZRzX, CXX, RzCZ>>, <<ZHZ, ZH, HCXZ>>}

Default == [transform |-> TRUE, global |-> FALSE, totalOnly |-> FALSE, diagonalOnly |-> FALSE,
            localOnly |-> FALSE, maxCandidates |-> 0, maxRewrites |-> 0]

AllOptions == {
    Default,
    [Default EXCEPT !.transform = FALSE],
    [Default EXCEPT !.global = TRUE],
    [Default EXCEPT !.totalOnly = TRUE],
    [Default EXCEPT !.diagonalOnly = TRUE, !.maxCandidates = 2],
    [Default EXCEPT !.maxRewrites = 1],
    [Default EXCEPT !.localOnly = TRUE, !.maxCandidates = 4]}


DefaultOptions == {Default}
=============================================================================
