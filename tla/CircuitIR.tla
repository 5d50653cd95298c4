----------------------------- MODULE CircuitIR ------------------------------
(***************************************************************************)
(* The circuits of the dialect in their SSA form, what the verifiers       *)
(* accept (lib/IR/MLIRQOps.cpp, lib/IR/Target.cpp), and the three changes  *)
(* the passes make to operations: cancelling a pair, placing allocations   *)
(* (lib/Transforms/Passes.cpp) and moving operations to a new order        *)
(* (applyOrder, lib/Transforms/QRiskPasses.cpp).                           *)
(*                                                                         *)
(* A value is named by the operation that defines it and the number of the *)
(* result: <<id, k>>.  Names survive when operations move or go away, as   *)
(* pointers do.  An absent attribute is {}, a present one {value}.         *)
(***************************************************************************)
EXTENDS QRiskTrace, SequencesExt

\* "notes": the attributes besides the angle and the physical index, the Qiskit
\* source index or anything the compiler does not know.
Op == [id : Nat, gate : Gates \cup Effects, operands : Seq(Nat \X Nat), physical : SUBSET Int,
       qubits : Seq(Int), angle : Angles, notes : SUBSET {"source", "opaque"}]

\* "target" is {} or the one mlirq.target: a number of qubits, the pairs of the
\* coupling, and whether a pair is one direction only.
Circuit == [stage : {"none", "logical", "architecture"},
            target : SUBSET [numQubits : Int, coupling : SUBSET (Int \X Int), directed : BOOLEAN],
            ops : Seq(Op)]

\* What the parser ensures before any verifier runs: an operation defines values
\* of its own and has the operands its kind has; only a rotation has an angle.
IsCircuit(circuit) ==
    /\ circuit \in Circuit
    /\ \A i, j \in DOMAIN circuit.ops : circuit.ops[i].id = circuit.ops[j].id => i = j
    /\ \A i \in DOMAIN circuit.ops :
          LET op == circuit.ops[i]
          IN  /\ op.gate \in Gates => Len(op.operands) = Arity(op.gate)
              /\ op.gate \in {"measure", "discard"} => Len(op.operands) = 1
              /\ op.gate \in {"alloc", "barrier"} => op.operands = <<>>
              /\ op.angle # {} => op.gate = "rz"

ResultCount(op) ==
    CASE op.gate \in Gates -> Arity(op.gate)
      [] op.gate \in {"alloc", "measure"} -> 1
      [] OTHER -> 0

Values(op) == {op.id} \X (1..ResultCount(op))
Qubits(op) == IF op.gate = "measure" THEN {} ELSE Values(op)

Position(circuit, id) == SelectInSeq(circuit.ops, LAMBDA op : op.id = id)

Uses(circuit, value) ==
    UNION {{<<i, k>> : k \in {j \in DOMAIN circuit.ops[i].operands :
                                 circuit.ops[i].operands[j] = value}} : i \in DOMAIN circuit.ops}

\* Seeded defect: the number of uses is not looked at.
UsesUnchecked(circuit, value) == TRUE

HasOneUse(circuit, value) == Cardinality(Uses(circuit, value)) = 1

\* What MLIR itself checks: an operand is defined before it is used, and is a
\* qubit or, for the output, a bit.
OperandsDefined(circuit) ==
    \A i \in DOMAIN circuit.ops : \A k \in DOMAIN circuit.ops[i].operands :
        \E j \in 1..(i - 1) :
            circuit.ops[i].operands[k] \in
                IF circuit.ops[i].gate = "output" THEN Values(circuit.ops[j]) \ Qubits(circuit.ops[j])
                                                  ELSE Qubits(circuit.ops[j])

-----------------------------------------------------------------------------
(***************************************************************************)
(* Wires.  "index" numbers the allocations; an allocation it leaves out is *)
(* at Unplaced.                                                            *)
(***************************************************************************)
Unplaced == -1

Allocs(circuit) == {i \in DOMAIN circuit.ops : circuit.ops[i].gate = "alloc"}
AllocIds(circuit) == {op.id : op \in {o \in ToSet(circuit.ops) : o.gate = "alloc"}}

\* The physical attributes of the allocations, where they have one.
Physical(circuit) ==
    [id \in AllocIds(circuit) |->
        LET op == circuit.ops[Position(circuit, id)]
        IN  IF op.physical = {} THEN Unplaced ELSE CHOOSE p \in op.physical : TRUE]

\* The operations without their attributes: where the wires go.
Wiring(circuit) ==
    [i \in DOMAIN circuit.ops |->
        [id |-> circuit.ops[i].id, gate |-> circuit.ops[i].gate, operands |-> circuit.ops[i].operands]]

\* A result is on the wire of the operand it follows, place by place.
Extended(place, op, index) ==
    [v \in DOMAIN place \cup Qubits(op) |->
        IF v \in DOMAIN place THEN place[v]
        ELSE IF op.gate = "alloc" THEN index[op.id] ELSE place[op.operands[v[2]]]]

\* (Chosen from a singleton, the function is computed only once.)
Placement(circuit, index) ==
    LET ops == Wiring(circuit)
        after[n \in 0..Len(ops)] == IF n = 0 THEN <<>> ELSE Extended(after[n - 1], ops[n], index)
        places == after[Len(ops)]
    IN  CHOOSE place \in {places} : place = place

WiresUnder(op, place) ==
    CASE op.gate = "alloc" -> <<place[<<op.id, 1>>]>>
      [] op.gate = "barrier" -> op.qubits
      [] op.gate = "output" -> <<>>
      [] OTHER -> [k \in DOMAIN op.operands |-> place[op.operands[k]]]

\* A gate moves unless it has a note other than its source index.
EventUnder(op, place) ==
    [gate |-> op.gate, qubits |-> WiresUnder(op, place), angle |-> op.angle,
     movable |-> op.gate \in Gates /\ op.notes \subseteq {"source"}]

TraceUnder(circuit, index) ==
    LET place == Placement(circuit, index)
    IN  [i \in DOMAIN circuit.ops |-> EventUnder(circuit.ops[i], place)]

BuildTrace(circuit) == TraceUnder(circuit, Physical(circuit))

-----------------------------------------------------------------------------
(***************************************************************************)
(* The verifiers.                                                          *)
(***************************************************************************)
ParsesTarget(circuit) ==
    \E target \in circuit.target :
        /\ target.numQubits > 0
        /\ \A edge \in target.coupling :
              edge[1] # edge[2] /\ {edge[1], edge[2]} \subseteq 0..(target.numQubits - 1)

SupportsCX(target, control, other) ==
    \/ <<control, other>> \in target.coupling
    \/ ~target.directed /\ <<other, control>> \in target.coupling

\* CZ is symmetric, whatever the direction of CX.
SupportsCZ(target, a, b) == {<<a, b>>, <<b, a>>} \cap target.coupling # {}

Allocatable(circuit, index, target) ==
    /\ \A id \in AllocIds(circuit) : index[id] \in 0..(target.numQubits - 1)
    /\ \A a, b \in AllocIds(circuit) : index[a] = index[b] => a = b

\* verifyMappedCircuit, for the physical attributes or a candidate placement.
MappedVerifies(circuit, index) ==
    /\ ParsesTarget(circuit)
    /\ \A target \in circuit.target :
          /\ Allocatable(circuit, index, target)
          /\ LET trace == TraceUnder(circuit, index)
             IN  \A i \in DOMAIN trace :
                    /\ trace[i].gate = "barrier" =>
                          \A k \in DOMAIN trace[i].qubits : \E j \in 1..(i - 1) :
                             trace[j].gate = "alloc" /\ trace[j].qubits[1] = trace[i].qubits[k]
                    /\ trace[i].gate = "cx" => SupportsCX(target, trace[i].qubits[1], trace[i].qubits[2])
                    /\ trace[i].gate = "cz" => SupportsCZ(target, trace[i].qubits[1], trace[i].qubits[2])

\* The verifiers of the single operations.
OpVerifies(circuit, op) ==
    /\ \A p \in op.physical : p >= 0
    /\ op.gate \in {"cx", "cz"} => op.operands[1] # op.operands[2]
    /\ op.gate = "barrier" => /\ circuit.stage = "architecture"
                              /\ IsInjective(op.qubits)
                              /\ \A k \in DOMAIN op.qubits : op.qubits[k] >= 0

\* What CircuitOp::verifyRegions asks of every operation and of the circuit,
\* after MLIR's own checks.
CircuitVerifies(circuit) ==
    /\ OperandsDefined(circuit)
    /\ \A i \in DOMAIN circuit.ops :
          /\ OpVerifies(circuit, circuit.ops[i])
          /\ (circuit.ops[i].gate = "output") = (i = Len(circuit.ops))
          /\ \A value \in Qubits(circuit.ops[i]) : HasOneUse(circuit, value)
    /\ Len(circuit.ops) > 0
    /\ circuit.target # {} => ParsesTarget(circuit)
    /\ IF circuit.stage = "architecture" THEN MappedVerifies(circuit, Physical(circuit))
       ELSE \A id \in AllocIds(circuit) : Physical(circuit)[id] = Unplaced

Verifies(module) == \A c \in DOMAIN module : CircuitVerifies(module[c])

-----------------------------------------------------------------------------
(***************************************************************************)
(* CancelInversePair: the definition of the second gate's first operand is *)
(* the same gate, the operation before it, and its results are used by the *)
(* second gate alone, in their order.                                      *)
(***************************************************************************)
SelfInverse == {"h", "x", "z", "cx"}

Matches(circuit, first, second) ==
    LET a == circuit.ops[first]
        b == circuit.ops[second]
    IN  /\ a.gate = b.gate /\ b.gate \in SelfInverse
        /\ b.operands[1] \in Values(a)

\* Seeded defects: the order of the operands is not looked at; the gates need
\* not be neighbours.
CancelsInAnyOrder(circuit, first, second) ==
    /\ Matches(circuit, first, second) /\ second = first + 1
    /\ circuit.ops[first].notes = {} /\ circuit.ops[second].notes = {}
    /\ ToSet(circuit.ops[second].operands) = Values(circuit.ops[first])

CancelsApart(circuit, first, second) ==
    /\ Matches(circuit, first, second)
    /\ circuit.ops[first].notes = {} /\ circuit.ops[second].notes = {}
    /\ \A k \in DOMAIN circuit.ops[second].operands :
          circuit.ops[second].operands[k] = <<circuit.ops[first].id, k>>

Cancels(circuit, first, second) ==
    /\ Matches(circuit, first, second) /\ second = first + 1
    /\ circuit.ops[first].notes = {} /\ circuit.ops[second].notes = {}
    /\ \A k \in DOMAIN circuit.ops[second].operands :
          /\ circuit.ops[second].operands[k] = <<circuit.ops[first].id, k>>
          /\ HasOneUse(circuit, <<circuit.ops[first].id, k>>)

\* The circuit without the two operations, where the uses of some values became
\* uses of others: "renamed" says which.
Erased(circuit, first, second, renamed) ==
    LET rest == RemoveAt(RemoveAt(circuit.ops, second), first)
        follow(v) == IF v \in DOMAIN renamed THEN renamed[v] ELSE v
    IN  [circuit EXCEPT !.ops =
            [i \in DOMAIN rest |->
                [rest[i] EXCEPT !.operands = [k \in DOMAIN rest[i].operands |-> follow(rest[i].operands[k])]]]]

\* Seeded defect: only the uses of the first result are replaced.
ReplacesFirstResult(circuit, first, second) ==
    Erased(circuit, first, second, <<circuit.ops[second].id, 1>> :> circuit.ops[first].operands[1])

\* replaceOp and eraseOp: the uses of the second gate's results become uses of
\* the first one's operands.
Cancelled(circuit, first, second) ==
    Erased(circuit, first, second,
           [v \in Values(circuit.ops[second]) |-> circuit.ops[first].operands[v[2]]])

-----------------------------------------------------------------------------
(***************************************************************************)
(* MapIdentity's placement, and applyOrder.                                *)
(***************************************************************************)

\* The allocations of a circuit in their order, from 0.
IdentityPlacement(circuit) ==
    [id \in AllocIds(circuit) |-> Rank(Allocs(circuit), Position(circuit, id))]

Placed(circuit, index) ==
    LET place(op) == IF op.gate = "alloc" THEN [op EXCEPT !.physical = {index[op.id]}] ELSE op
    IN  [circuit EXCEPT !.stage = "architecture", !.ops = [i \in DOMAIN @ |-> place(@[i])]]

Lost == [ops |-> <<>>, live |-> <<>>, crossed |-> TRUE]

\* One operation moved to the end, its operands bound to the values live there.
Rebound(done, op, wires) ==
    LET uses == IF op.gate \in {"alloc", "barrier", "output"} THEN {} ELSE {wires[k] : k \in DOMAIN wires}
        bound == IF uses = {} THEN op.operands ELSE [k \in DOMAIN wires |-> done.live[wires[k]]]
        made == {wires[v[2]] : v \in Qubits(op)}
    IN  IF done.crossed \/ ~(uses \subseteq DOMAIN done.live) THEN Lost
        ELSE [ops |-> Append(done.ops, [op EXCEPT !.operands = bound]),
              live |-> [q \in (DOMAIN done.live \ uses) \cup made |->
                          IF q \in made THEN CHOOSE v \in Qubits(op) : wires[v[2]] = q ELSE done.live[q]],
              crossed |-> FALSE]

\* The circuit with its operations in the given order of positions.
ApplyOrder(circuit, trace, order) ==
    LET done[n \in 0..Len(order)] ==
            IF n = 0 THEN [ops |-> <<>>, live |-> <<>>, crossed |-> FALSE]
            ELSE Rebound(done[n - 1], circuit.ops[order[n]], trace[order[n]].qubits)
        last == done[Len(order)]
    IN  [crossed |-> last.crossed, circuit |-> [circuit EXCEPT !.ops = last.ops]]
=============================================================================
