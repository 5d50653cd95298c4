-------------------------- MODULE OptimizePipelineMC --------------------------
(***************************************************************************)
(* Instances of OptimizePipeline for TLC, on two wires.                    *)
(***************************************************************************)
EXTENDS OptimizePipeline

Op(gate, qubits) == [gate |-> gate, qubits |-> qubits, angle |-> {}]
Rz(q, angle) == [gate |-> "rz", qubits |-> <<q>>, angle |-> {angle}]
CX == Op("cx", <<0, 1>>)
CZ == Op("cz", <<0, 1>>)
Z0 == Op("z", <<0>>)
X1 == Op("x", <<1>>)
Measure(q) == Op("measure", <<q>>)
Barrier(qubits) == Op("barrier", qubits)

TargetOps == {<<"cx", <<0, 1>>>>, <<"cz", <<0, 1>>>>, <<"z", <<0>>>>, <<"x", <<1>>>>,
              <<"rz", <<0>>>>, <<"measure", <<0>>>>, <<"measure", <<1>>>>}

Pattern(gates) == [gates |-> gates, tolerance |-> 1]
ZCX == Pattern(<<Z0, CX>>)
CXX == Pattern(<<CX, X1>>)
CXZ == Pattern(<<CX, Z0>>)
RzZ == Pattern(<<Rz(0, 4), Z0>>)
RzCX == Pattern(<<[Z0 EXCEPT !.gate = "rz"], CX>>)
OnlyX == Pattern(<<X1, X1>>)

Gone == [circuit |-> <<>>, patterns |-> <<>>]
EditChoices == {Gone}
NoEdits == {}

\* Gates, barriers on a wire, on both and on none, measurements in the middle,
\* and circuits that are not importable.
Alphabet == {Z0, Rz(0, 3), CX, X1, Barrier(<<1>>), Measure(0)}
Words == [1..4 -> Alphabet]
Longer == {<<Z0, CX, Barrier(<<>>), X1, CX, Z0>>, <<Rz(0, 3), Z0, Barrier(<<0, 1>>), CZ, Z0, Measure(1)>>,
           <<Op("t", <<0>>), CX>>, <<Op("cx", <<1, 0>>)>>, <<>>}
Lists == {<<ZCX, CXZ>>, <<RzZ, CXX>>, <<RzCX, OnlyX>>}
ContractCalls == [circuit : Words \cup Longer, patterns : Lists]

\* For the compiler gone wrong: three instructions are enough to lose one,
\* repeat one, alter one or carry one over a fence.
ShortCalls == [circuit : {<<Z0, CX, Z0>>, <<Z0, Barrier(<<1>>), CX>>, <<Z0, Measure(1), X1>>,
                          <<CX, Measure(0), X1>>}, patterns : {<<ZCX>>, <<CXX>>}]

Defaults == [matching |-> "scoped", acceptance |-> "componentwise", rules |-> "all",
             max_candidates |-> 0, max_rewrites |-> 0]
AllOptions == {Defaults, [Defaults EXCEPT !.matching = "global"], [Defaults EXCEPT !.acceptance = "total"],
               [Defaults EXCEPT !.acceptance = "local", !.max_candidates = 5],
               [Defaults EXCEPT !.rules = "diagonal"]}

\* The compiler gone wrong looks at no option but the acceptance rule.
FewOptions == {Defaults, [Defaults EXCEPT !.acceptance = "total"],
               [Defaults EXCEPT !.acceptance = "local", !.max_candidates = 5]}
=============================================================================
