--------------------------- MODULE CircuitPassesMC ---------------------------
(***************************************************************************)
(* Instances of CircuitPasses for TLC: circuits of two and three wires,    *)
(* written as operations on wires and brought to SSA form.                 *)
(***************************************************************************)
EXTENDS CircuitPasses

\* A quarter turn, a half turn and an angle that is no fraction of a turn.
SomePhases == 1 :> <<0, 5>> @@ 2 :> <<-5, 0>> @@ 3 :> <<3, 4>>

On(gate, wires) == [gate |-> gate, wires |-> wires, notes |-> {}]
Noted(event, note) == [event EXCEPT !.notes = {note}]
H0 == On("h", <<0>>)
X1 == On("x", <<1>>)
Z0 == On("z", <<0>>)
SX1 == On("sx", <<1>>)
CX01 == On("cx", <<0, 1>>)
CX10 == On("cx", <<1, 0>>)
CX02 == On("cx", <<0, 2>>)
CX12 == On("cx", <<1, 2>>)
CZ == On("cz", <<0, 1>>)
Barrier == On("barrier", <<0>>)
Alloc(q) == On("alloc", <<q>>)
End0 == On("measure", <<0>>)
End1 == On("discard", <<1>>)
End2 == On("measure", <<2>>)

\* The value on a wire before position i: a result of the last operation on it.
ValueAt(events, q, i) ==
    LET last == CHOOSE j \in 1..(i - 1) :
                    /\ events[j].gate # "barrier" /\ q \in ToSet(events[j].wires)
                    /\ \A k \in (j + 1)..(i - 1) : events[k].gate # "barrier" => q \notin ToSet(events[k].wires)
    IN  <<last, CHOOSE k \in DOMAIN events[last].wires : events[last].wires[k] = q>>

Bits(events) ==
    LET measures == SelectSeq([i \in DOMAIN events |-> i], LAMBDA i : events[i].gate = "measure")
    IN  [k \in DOMAIN measures |-> <<measures[k], 1>>]

OpAt(events, i, placed) ==
    LET e == events[i]
    IN  [id |-> i, gate |-> e.gate,
         operands |-> IF e.gate \in {"alloc", "barrier"} THEN <<>>
                      ELSE [k \in DOMAIN e.wires |-> ValueAt(events, e.wires[k], i)],
         physical |-> IF placed /\ e.gate = "alloc" THEN {e.wires[1]} ELSE {},
         qubits |-> IF e.gate = "barrier" THEN e.wires ELSE <<>>,
         angle |-> IF e.gate = "rz" THEN {2} ELSE {}, notes |-> e.notes]

Output(events) == [id |-> Len(events) + 1, gate |-> "output", operands |-> Bits(events),
                   physical |-> {}, qubits |-> <<>>, angle |-> {}, notes |-> {}]

\* At the architecture stage the wires are the physical qubits.
Build(events, stage, target) ==
    [stage |-> stage, target |-> target,
     ops |-> Append([i \in DOMAIN events |-> OpAt(events, i, stage = "architecture")], Output(events))]

Whole(word) == <<Alloc(0), Alloc(1)>> \o word \o <<End0, End1>>

Wide(word) == <<Alloc(2), Alloc(0), Alloc(1)>> \o word \o <<End2, End1, End0>>

Line(directed) == {[numQubits |-> 2, coupling |-> {<<0, 1>>}, directed |-> directed]}
Triangle == {[numQubits |-> 3, coupling |-> {<<0, 1>>, <<2, 0>>, <<2, 1>>}, directed |-> FALSE]}
Single == {[numQubits |-> 1, coupling |-> {}, directed |-> TRUE]}

\* Pairs side by side, nested, interleaved on two wires, with annotations.
Letters == {H0, X1, CX01, CX10, Noted(H0, "source")}
Nested == {<<H0, CX01, X1, X1, CX01, H0>>, <<H0, X1, H0, X1>>, <<X1, H0, H0, X1, X1>>,
           <<CX01, CX01, CX01>>, <<CZ, CZ>>, <<SX1, SX1>>, <<Noted(X1, "opaque"), X1, X1>>}
OnThree == {<<CX01, CX02>>, <<CX01, X1, CX01>>, <<CX01, CX12, CX12, CX01>>, <<CX02, CX12, CX02>>,
            <<H0, CX12, CX12, H0, CX02>>, <<CX02, H0, X1, X1, H0, CX02>>}
Logical == {<<Build(Whole(w), "none", Line(FALSE))>> : w \in [1..4 -> Letters] \cup Nested}
           \cup {<<Build(Wide(w), "none", Triangle)>> : w \in OnThree}

\* Two circuits of one module, each with its own target, stage and allocations.
Halves == {Build(Whole(<<CX01>>), "logical", Line(TRUE)), Build(Whole(<<CX10>>), "none", Line(TRUE)),
           Build(Whole(<<CX10, CX10>>), "none", Line(TRUE)), Build(Whole(<<X1, X1>>), "none", Single),
           Build(<<Alloc(0), H0, H0, End0>>, "none", Single), Build(Whole(<<H0>>), "none", {}),
           Build(Whole(<<CZ, Z0>>), "architecture", Line(TRUE))}
Pairs == Halves \X Halves

\* Mapped circuits, with fences, a second lifetime that starts late, and wires
\* placed the other way round.
Mapped == {<<Build(Whole(w), "architecture", Line(FALSE))>> :
              w \in {<<Z0, CX01, X1>>, <<CX01, SX1, Noted(Z0, "source")>>, <<Z0, Noted(CX01, "opaque"), X1>>,
                     <<Z0, Barrier, CX01>>, <<On("rz", <<0>>), CZ, CX01>>}}
          \cup {<<Build(w, "architecture", Line(FALSE))>> :
              w \in {<<Alloc(1), Alloc(0), X1, CX01, Z0, End0, X1, End1>>,
                     <<Alloc(0), Z0, H0, Alloc(1), CX01, End1, Z0, End0, Barrier>>,
                     <<Alloc(1), Barrier, Alloc(0), End0, End1>>}}
          \cup {<<Build(Wide(<<CX01, Z0, CX02, CX12>>), "architecture", Triangle)>>}

\* Circuits as nobody should write them: one operand replaced by another value.
Misused(circuit) ==
    UNION {{[circuit EXCEPT !.ops[i].operands[k] = v] :
               k \in DOMAIN circuit.ops[i].operands, v \in UNION {Values(op) : op \in ToSet(circuit.ops)}} :
           i \in DOMAIN circuit.ops}
Malformed ==
    {<<c>> : c \in Misused(Build(Whole(<<CX01, X1, CX01>>), "none", Line(FALSE)))
                    \cup Misused(Build(Whole(<<Z0, CX01>>), "architecture", Line(FALSE)))}

SomeInputs == Logical \cup Pairs \cup Mapped \cup Malformed

SomePipelines ==
    {<<>>, <<"verify-target">>, <<"logical-opt", "map-identity", "verify-target", "qrisk-mitigate">>,
     <<"map-identity", "qrisk-mitigate", "logical-opt">>, <<"qrisk-mitigate", "verify-target">>}
=============================================================================
