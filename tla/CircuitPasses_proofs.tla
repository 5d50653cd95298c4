------------------------- MODULE CircuitPasses_proofs -------------------------
(***************************************************************************)
(* Proofs about the passes on circuits, for every input module, every      *)
(* command line and every number of wires: what cancelling a pair, placing *)
(* the allocations and reordering the operations do to a circuit the       *)
(* verifier accepts, the reduced form an optimization ends with, and, by   *)
(* the gates' matrices, that what was moved or cancelled keeps the ideal   *)
(* behaviour.                                                              *)
(***************************************************************************)
EXTENDS CircuitPasses, QRiskTrace_proofs

(***************************************************************************)
(* Circuits.                                                               *)
(***************************************************************************)

\* The parts of a circuit and of its operations.
LEMMA CircuitTyped ==
    ASSUME NEW circuit \in Circuit
    PROVE  /\ circuit.stage \in {"none", "logical", "architecture"}
           /\ circuit.ops \in Seq(Op)
           /\ Len(circuit.ops) \in Nat /\ DOMAIN circuit.ops = 1..Len(circuit.ops)
           /\ \A i \in DOMAIN circuit.ops :
                 /\ circuit.ops[i] \in Op
                 /\ circuit.ops[i].operands \in Seq(Nat \X Nat)
                 /\ Len(circuit.ops[i].operands) \in Nat
                 /\ DOMAIN circuit.ops[i].operands = 1..Len(circuit.ops[i].operands)
<1>1. circuit.stage \in {"none", "logical", "architecture"} /\ circuit.ops \in Seq(Op)
  BY DEF Circuit
<1>2. /\ Len(circuit.ops) \in Nat /\ DOMAIN circuit.ops = 1..Len(circuit.ops)
      /\ circuit.ops \in [1..Len(circuit.ops) -> Op]
  BY <1>1, LenProperties
<1>3. ASSUME NEW i \in DOMAIN circuit.ops
      PROVE  /\ circuit.ops[i] \in Op
             /\ circuit.ops[i].operands \in Seq(Nat \X Nat)
  BY <1>2, <1>3 DEF Op
<1> QED
  BY <1>1, <1>2, <1>3, LenProperties

\* The operand k of the operation at i is the value.
Use(circuit, value, i, k) ==
    /\ i \in DOMAIN circuit.ops /\ k \in DOMAIN circuit.ops[i].operands
    /\ circuit.ops[i].operands[k] = value

LEMMA UsesAre ==
    ASSUME NEW circuit, NEW value
    PROVE  /\ \A i, k : <<i, k>> \in Uses(circuit, value) <=> Use(circuit, value, i, k)
           /\ \A u \in Uses(circuit, value) : u = <<u[1], u[2]>>
BY DEF Uses, Use

LEMMA UsesFinite ==
    ASSUME NEW circuit \in Circuit, NEW value
    PROVE  IsFiniteSet(Uses(circuit, value))
<1> DEFINE D == DOMAIN circuit.ops
           At(i) == {<<i, k>> : k \in {j \in DOMAIN circuit.ops[i].operands :
                                         circuit.ops[i].operands[j] = value}}
           sets == {At(i) : i \in D}
           f == [i \in D |-> At(i)]
<1>1. IsFiniteSet(D)
  BY CircuitTyped, FS_Interval
<1>2. Uses(circuit, value) = UNION sets
  BY DEF Uses
<1>3. ASSUME NEW i \in D
      PROVE  IsFiniteSet(At(i))
  <2> DEFINE m == Len(circuit.ops[i].operands)
             K == DOMAIN circuit.ops[i].operands
             T == At(i)
  <2>1. K = 1..m /\ m \in Nat
    BY CircuitTyped
  <2>2. T \in SUBSET ({i} \X K)
    OBVIOUS
  <2> HIDE DEF K, m, T
  <2>3. IsFiniteSet(1..m)
    BY <2>1, FS_Interval
  <2>4. IsFiniteSet(K)
    BY <2>1, <2>3
  <2>5. IsFiniteSet({i})
    BY FS_Singleton
  <2>6. IsFiniteSet({i} \X K)
    BY <2>4, <2>5, FS_Product
  <2>7. IsFiniteSet(T)
    BY <2>2, <2>6, FS_Subset
  <2> QED
    BY <2>7 DEF T
<1> HIDE DEF At, D
<1>4. \A S \in sets : IsFiniteSet(S)
  BY <1>3
<1>5. f \in Surjection(D, sets)
  BY DEF Surjection
<1> HIDE DEF f, sets
<1>6. IsFiniteSet(sets)
  BY <1>1, <1>5, FS_Surjection
<1>7. IsFiniteSet(UNION sets)
  BY <1>4, <1>6, FS_UNION
<1> QED
  BY <1>2, <1>7

\* A value is used in one place.
LEMMA OneUse ==
    ASSUME NEW circuit \in Circuit, NEW value
    PROVE  HasOneUse(circuit, value) <=>
              \E i, k : /\ Use(circuit, value, i, k)
                        /\ \A j, l : Use(circuit, value, j, l) => j = i /\ l = k
<1> DEFINE U == Uses(circuit, value)
<1>1. HasOneUse(circuit, value) <=> \E u : U = {u}
  BY UsesFinite, FS_Singleton DEF HasOneUse
<1>2. /\ \A i, k : <<i, k>> \in U <=> Use(circuit, value, i, k)
      /\ \A u \in U : u = <<u[1], u[2]>>
  BY UsesAre
<1> HIDE DEF U
<1>3. ASSUME NEW u, U = {u}
      PROVE  \E i, k : /\ Use(circuit, value, i, k)
                       /\ \A j, l : Use(circuit, value, j, l) => j = i /\ l = k
  <2>1. u = <<u[1], u[2]>> /\ Use(circuit, value, u[1], u[2])
    BY <1>2, <1>3
  <2>2. ASSUME NEW j, NEW l, Use(circuit, value, j, l)
        PROVE  j = u[1] /\ l = u[2]
    <3>1. <<j, l>> = u
      BY <1>2, <1>3, <2>2
    <3> QED
      BY <3>1
  <2> QED
    BY <2>1, <2>2
<1>4. ASSUME NEW i, NEW k, Use(circuit, value, i, k),
             \A j, l : Use(circuit, value, j, l) => j = i /\ l = k
      PROVE  U = {<<i, k>>}
  <2>1. ASSUME NEW u \in U
        PROVE  u = <<i, k>>
    <3>1. u = <<u[1], u[2]>>
      BY <1>2
    <3>2. Use(circuit, value, u[1], u[2])
      BY <1>2, <3>1
    <3> QED
      BY <1>4, <3>1, <3>2
  <2> QED
    BY <1>2, <1>4, <2>1
<1> QED
  BY <1>1, <1>3, <1>4

\* Values of different operations are different, and a value knows its own.
LEMMA ValuesApart ==
    ASSUME NEW circuit, IsCircuit(circuit),
           NEW i \in DOMAIN circuit.ops, NEW j \in DOMAIN circuit.ops,
           NEW v, v \in Values(circuit.ops[i]), v \in Values(circuit.ops[j])
    PROVE  i = j
BY DEF IsCircuit, Values

LEMMA PositionIs ==
    ASSUME NEW circuit, IsCircuit(circuit), NEW i \in DOMAIN circuit.ops
    PROVE  Position(circuit, circuit.ops[i].id) = i
<1> DEFINE id == circuit.ops[i].id
           I == {j \in 1..Len(circuit.ops) : circuit.ops[j].id = id}
<1>1. DOMAIN circuit.ops = 1..Len(circuit.ops) /\ Len(circuit.ops) \in Nat
  BY CircuitTyped DEF IsCircuit
<1>2. I = {i} /\ i \in Nat
  BY <1>1 DEF IsCircuit
<1>3. Min(I) = i
  BY <1>2 DEF Min
<1> QED
  BY <1>2, <1>3 DEF Position, SelectInSeq

\* The physical attribute is that of the allocation.
LEMMA PhysicalIs ==
    ASSUME NEW circuit, IsCircuit(circuit), NEW i \in DOMAIN circuit.ops,
           circuit.ops[i].gate = "alloc"
    PROVE  /\ circuit.ops[i].id \in AllocIds(circuit)
           /\ Physical(circuit)[circuit.ops[i].id] =
                 IF circuit.ops[i].physical = {} THEN Unplaced
                 ELSE CHOOSE p \in circuit.ops[i].physical : TRUE
<1> DEFINE id == circuit.ops[i].id
<1>1. id \in AllocIds(circuit)
  BY DEF AllocIds, ToSet
<1>2. Position(circuit, id) = i
  BY PositionIs
<1> HIDE DEF id
<1>3. Physical(circuit)[id] =
          LET op == circuit.ops[Position(circuit, id)]
          IN  IF op.physical = {} THEN Unplaced ELSE CHOOSE p \in op.physical : TRUE
  BY <1>1 DEF Physical
<1> QED
  BY <1>1, <1>2, <1>3 DEF id

-----------------------------------------------------------------------------
(***************************************************************************)
(* Placing the allocations.                                                *)
(***************************************************************************)

PlacedAttribute(op, index) == IF op.gate = "alloc" THEN {index[op.id]} ELSE op.physical

\* Placing changes the stage and the physical attribute of the allocations.
IsPlaced(circuit, index, placed) ==
    /\ placed.stage = "architecture" /\ placed.target = circuit.target
    /\ placed = [stage |-> placed.stage, target |-> placed.target, ops |-> placed.ops]
    /\ DOMAIN placed.ops = DOMAIN circuit.ops /\ Len(placed.ops) = Len(circuit.ops)
    /\ placed.ops = [i \in DOMAIN circuit.ops |-> placed.ops[i]]
    /\ \A i \in DOMAIN circuit.ops :
          /\ placed.ops[i] = [circuit.ops[i] EXCEPT !.physical = PlacedAttribute(circuit.ops[i], index)]
          /\ placed.ops[i].id = circuit.ops[i].id
          /\ placed.ops[i].gate = circuit.ops[i].gate
          /\ placed.ops[i].operands = circuit.ops[i].operands
          /\ placed.ops[i].qubits = circuit.ops[i].qubits
          /\ placed.ops[i].angle = circuit.ops[i].angle
          /\ placed.ops[i].notes = circuit.ops[i].notes
          /\ placed.ops[i].physical = PlacedAttribute(circuit.ops[i], index)

LEMMA PlacedParts ==
    ASSUME NEW circuit \in Circuit, NEW index
    PROVE  IsPlaced(circuit, index, Placed(circuit, index))
<1> DEFINE place(op) == IF op.gate = "alloc" THEN [op EXCEPT !.physical = {index[op.id]}] ELSE op
           ops == [i \in DOMAIN circuit.ops |-> place(circuit.ops[i])]
           placed == Placed(circuit, index)
<1>1. placed = [[circuit EXCEPT !.stage = "architecture"] EXCEPT !.ops = ops]
  BY DEF Placed
<1>2. circuit = [stage |-> circuit.stage, target |-> circuit.target, ops |-> circuit.ops]
  BY DEF Circuit
<1>3. placed = [stage |-> "architecture", target |-> circuit.target, ops |-> ops]
  <2> HIDE DEF ops, placed
  <2> QED
    BY <1>1, <1>2
<1>4. DOMAIN ops = DOMAIN circuit.ops /\ ops = [i \in DOMAIN circuit.ops |-> ops[i]]
  OBVIOUS
<1>5. DOMAIN circuit.ops = 1..Len(circuit.ops) /\ Len(circuit.ops) \in Nat
  BY CircuitTyped
<1>6. Len(ops) = Len(circuit.ops)
  BY <1>5
<1>7. ASSUME NEW i \in DOMAIN circuit.ops
      PROVE  /\ circuit.ops[i] \in Op
             /\ ops[i] = [circuit.ops[i] EXCEPT !.physical = PlacedAttribute(circuit.ops[i], index)]
             /\ ops[i].id = circuit.ops[i].id /\ ops[i].gate = circuit.ops[i].gate
             /\ ops[i].operands = circuit.ops[i].operands /\ ops[i].qubits = circuit.ops[i].qubits
             /\ ops[i].angle = circuit.ops[i].angle /\ ops[i].notes = circuit.ops[i].notes
             /\ ops[i].physical = PlacedAttribute(circuit.ops[i], index)
  <2>1. circuit.ops[i] \in Op
    BY CircuitTyped
  <2>2. circuit.ops[i] = [circuit.ops[i] EXCEPT !.physical = @]
    BY <2>1 DEF Op
  <2>3. ops[i] = [circuit.ops[i] EXCEPT !.physical = PlacedAttribute(circuit.ops[i], index)]
    BY <2>2 DEF PlacedAttribute
  <2> HIDE DEF ops
  <2> QED
    BY <2>1, <2>3 DEF Op
<1> HIDE DEF ops, placed
<1>8. IsPlaced(circuit, index, placed)
  BY <1>3, <1>4, <1>6, <1>7 DEF IsPlaced
<1> QED
  BY <1>8 DEF placed

\* Nothing an operation is used by or runs on moves with the physical attributes.
LEMMA PlacedKeeps ==
    ASSUME NEW circuit, IsCircuit(circuit), NEW index
    PROVE  LET placed == Placed(circuit, index)
           IN  /\ AllocIds(placed) = AllocIds(circuit)
               /\ TraceUnder(placed, index) = TraceUnder(circuit, index)
               /\ \A i \in DOMAIN circuit.ops : Values(placed.ops[i]) = Values(circuit.ops[i])
               /\ \A i \in DOMAIN circuit.ops : Qubits(placed.ops[i]) = Qubits(circuit.ops[i])
               /\ \A v : Uses(placed, v) = Uses(circuit, v)
<1> DEFINE placed == Placed(circuit, index)
<1>0. circuit \in Circuit
  BY DEF IsCircuit
<1>p. IsPlaced(circuit, index, placed)
  BY <1>0, PlacedParts
<1> HIDE DEF placed
<1>1. /\ placed.stage = "architecture" /\ placed.target = circuit.target
      /\ DOMAIN placed.ops = DOMAIN circuit.ops
  BY <1>p DEF IsPlaced
<1>2. ASSUME NEW i \in DOMAIN circuit.ops
      PROVE  /\ placed.ops[i].id = circuit.ops[i].id /\ placed.ops[i].gate = circuit.ops[i].gate
             /\ placed.ops[i].operands = circuit.ops[i].operands
             /\ placed.ops[i].qubits = circuit.ops[i].qubits
             /\ placed.ops[i].angle = circuit.ops[i].angle
             /\ placed.ops[i].notes = circuit.ops[i].notes
  BY <1>p DEF IsPlaced
<1>3. AllocIds(placed) = AllocIds(circuit)
  BY <1>1, <1>2 DEF AllocIds, ToSet
<1>4. Wiring(placed) = Wiring(circuit)
  BY <1>1, <1>2 DEF Wiring
<1>5. Placement(placed, index) = Placement(circuit, index)
  BY <1>4 DEF Placement
<1>6. TraceUnder(placed, index) = TraceUnder(circuit, index)
  <2> DEFINE place == Placement(circuit, index)
  <2>1. \A i \in DOMAIN circuit.ops : EventUnder(placed.ops[i], place) = EventUnder(circuit.ops[i], place)
    BY <1>2 DEF EventUnder, WiresUnder
  <2>2. TraceUnder(placed, index) = [i \in DOMAIN placed.ops |-> EventUnder(placed.ops[i], place)]
    BY <1>5 DEF TraceUnder
  <2>3. TraceUnder(circuit, index) = [i \in DOMAIN circuit.ops |-> EventUnder(circuit.ops[i], place)]
    BY DEF TraceUnder
  <2> HIDE DEF place
  <2> QED
    BY <1>1, <2>1, <2>2, <2>3
<1>7. \A i \in DOMAIN circuit.ops :
        Values(placed.ops[i]) = Values(circuit.ops[i]) /\ Qubits(placed.ops[i]) = Qubits(circuit.ops[i])
  BY <1>2 DEF Values, Qubits, ResultCount
<1>8. \A v : Uses(placed, v) = Uses(circuit, v)
  BY <1>1, <1>2 DEF Uses
<1> QED
  BY <1>3, <1>6, <1>7, <1>8 DEF placed

\* A placement: a physical qubit for each allocation.
IsPlacement(circuit, index) ==
    index = [id \in AllocIds(circuit) |-> index[id]] /\ \A id \in AllocIds(circuit) : index[id] \in Nat

LEMMA PlacedCircuit ==
    ASSUME NEW circuit, IsCircuit(circuit), NEW index, IsPlacement(circuit, index)
    PROVE  /\ IsCircuit(Placed(circuit, index))
           /\ Physical(Placed(circuit, index)) = index
<1> DEFINE placed == Placed(circuit, index)
<1>0. circuit \in Circuit
  BY DEF IsCircuit
<1>p. IsPlaced(circuit, index, placed)
  BY <1>0, PlacedParts
<1> HIDE DEF placed
<1>1. /\ placed.stage = "architecture" /\ placed.target = circuit.target
      /\ DOMAIN placed.ops = DOMAIN circuit.ops /\ Len(placed.ops) = Len(circuit.ops)
  BY <1>p DEF IsPlaced
<1>2. DOMAIN circuit.ops = 1..Len(circuit.ops) /\ Len(circuit.ops) \in Nat
  BY <1>0, CircuitTyped
<1>3. ASSUME NEW i \in DOMAIN circuit.ops
      PROVE  PlacedAttribute(circuit.ops[i], index) \in SUBSET Int
  <2>1. circuit.ops[i] \in Op
    BY <1>0, CircuitTyped
  <2>2. circuit.ops[i].gate = "alloc" => circuit.ops[i].id \in AllocIds(circuit)
    BY DEF AllocIds, ToSet
  <2>3. circuit.ops[i].gate = "alloc" => index[circuit.ops[i].id] \in Int
    BY <2>2 DEF IsPlacement
  <2> QED
    BY <2>1, <2>3 DEF Op, PlacedAttribute
<1>4. ASSUME NEW i \in DOMAIN circuit.ops
      PROVE  /\ placed.ops[i] \in Op
             /\ placed.ops[i].id = circuit.ops[i].id /\ placed.ops[i].gate = circuit.ops[i].gate
             /\ placed.ops[i].operands = circuit.ops[i].operands
             /\ placed.ops[i].angle = circuit.ops[i].angle
             /\ placed.ops[i].physical = PlacedAttribute(circuit.ops[i], index)
  <2> DEFINE op == circuit.ops[i]
             attribute == PlacedAttribute(circuit.ops[i], index)
  <2>1. op \in Op /\ placed.ops[i] = [op EXCEPT !.physical = attribute]
    BY <1>0, <1>p, CircuitTyped DEF IsPlaced
  <2>2. attribute \in SUBSET Int
    BY <1>3
  <2>3. placed.ops[i] \in Op
    <3> HIDE DEF op, attribute
    <3> QED
      BY <2>1, <2>2 DEF Op
  <2> QED
    BY <1>p, <2>3 DEF IsPlaced
<1>5. placed \in Circuit
  <2>1. placed.ops \in [1..Len(circuit.ops) -> Op]
    BY <1>p, <1>2, <1>4 DEF IsPlaced
  <2>2. placed.ops \in Seq(Op)
    BY <1>2, <2>1
  <2>3. placed = [stage |-> placed.stage, target |-> placed.target, ops |-> placed.ops]
    BY <1>p DEF IsPlaced
  <2> QED
    BY <1>0, <1>1, <2>2, <2>3 DEF Circuit
<1>6. IsCircuit(placed)
  BY <1>1, <1>4, <1>5 DEF IsCircuit
<1>7. AllocIds(placed) = AllocIds(circuit)
  BY <1>1, <1>4 DEF AllocIds, ToSet
<1>8. ASSUME NEW id \in AllocIds(circuit)
      PROVE  Physical(placed)[id] = index[id]
  <2>1. PICK i \in DOMAIN circuit.ops : circuit.ops[i].gate = "alloc" /\ circuit.ops[i].id = id
    BY DEF AllocIds, ToSet
  <2>2. placed.ops[i].physical = {index[id]}
    BY <1>4, <2>1 DEF PlacedAttribute
  <2>3. Physical(placed)[id] = CHOOSE p \in {index[id]} : TRUE
    <3>1. i \in DOMAIN placed.ops /\ placed.ops[i].gate = "alloc" /\ placed.ops[i].id = id
      BY <1>1, <1>4, <2>1
    <3>2. {index[id]} # {}
      OBVIOUS
    <3> QED
      BY <1>6, <2>2, <3>1, <3>2, PhysicalIs
  <2> QED
    BY <2>3
<1>9. Physical(placed) = [id \in AllocIds(placed) |-> Physical(placed)[id]]
  BY DEF Physical
<1>10. Physical(placed) = index
  BY <1>7, <1>8, <1>9 DEF IsPlacement
<1> QED
  BY <1>6, <1>10 DEF placed

\* A circuit the verifier accepts, placed where its target allows, is accepted.
LEMMA PlacedVerifies ==
    ASSUME NEW circuit, IsCircuit(circuit), CircuitVerifies(circuit),
           circuit.stage # "architecture",
           NEW index, IsPlacement(circuit, index), MappedVerifies(circuit, index)
    PROVE  CircuitVerifies(Placed(circuit, index))
<1> DEFINE placed == Placed(circuit, index)
<1>0. circuit \in Circuit
  BY DEF IsCircuit
<1>p. IsPlaced(circuit, index, placed)
  BY <1>0, PlacedParts
<1> HIDE DEF placed
<1>1. /\ placed.stage = "architecture" /\ placed.target = circuit.target
      /\ DOMAIN placed.ops = DOMAIN circuit.ops /\ Len(placed.ops) = Len(circuit.ops)
  BY <1>p DEF IsPlaced
<1>2. /\ AllocIds(placed) = AllocIds(circuit)
      /\ TraceUnder(placed, index) = TraceUnder(circuit, index)
      /\ \A i \in DOMAIN circuit.ops : Values(placed.ops[i]) = Values(circuit.ops[i])
      /\ \A i \in DOMAIN circuit.ops : Qubits(placed.ops[i]) = Qubits(circuit.ops[i])
      /\ \A v : Uses(placed, v) = Uses(circuit, v)
  BY PlacedKeeps DEF placed
<1>3. Physical(placed) = index
  BY PlacedCircuit DEF placed
<1>4. ASSUME NEW i \in DOMAIN circuit.ops
      PROVE  /\ placed.ops[i].gate = circuit.ops[i].gate
             /\ placed.ops[i].operands = circuit.ops[i].operands
             /\ placed.ops[i].physical = PlacedAttribute(circuit.ops[i], index)
  BY <1>p DEF IsPlaced
<1>5. DOMAIN circuit.ops = 1..Len(circuit.ops) /\ Len(circuit.ops) \in Nat
  BY <1>0, CircuitTyped
<1>6. OperandsDefined(placed)
  <2>1. ASSUME NEW i \in DOMAIN circuit.ops, NEW k \in DOMAIN circuit.ops[i].operands
        PROVE  \E j \in 1..(i - 1) :
                  placed.ops[i].operands[k] \in
                    IF placed.ops[i].gate = "output" THEN Values(placed.ops[j]) \ Qubits(placed.ops[j])
                                                     ELSE Qubits(placed.ops[j])
    <3>1. PICK j \in 1..(i - 1) :
              circuit.ops[i].operands[k] \in
                IF circuit.ops[i].gate = "output" THEN Values(circuit.ops[j]) \ Qubits(circuit.ops[j])
                                                  ELSE Qubits(circuit.ops[j])
      BY <2>1 DEF CircuitVerifies, OperandsDefined
    <3>2. j \in DOMAIN circuit.ops
      BY <1>5
    <3> QED
      BY <1>2, <1>4, <3>1, <3>2
  <2> QED
    BY <1>1, <1>4, <2>1 DEF OperandsDefined
<1>7. ASSUME NEW i \in DOMAIN circuit.ops
      PROVE  OpVerifies(placed, placed.ops[i])
  <2>1. OpVerifies(circuit, circuit.ops[i])
    BY DEF CircuitVerifies
  <2>2. circuit.ops[i].gate # "barrier"
    BY <2>1 DEF OpVerifies
  <2>3. circuit.ops[i].gate = "alloc" => index[circuit.ops[i].id] \in Nat
    BY DEF AllocIds, ToSet, IsPlacement
  <2>4. \A p \in placed.ops[i].physical : p >= 0
    <3>1. CASE circuit.ops[i].gate = "alloc"
      <4>1. placed.ops[i].physical = {index[circuit.ops[i].id]}
        BY <1>4, <3>1 DEF PlacedAttribute
      <4> QED
        BY <2>3, <3>1, <4>1
    <3>2. CASE circuit.ops[i].gate # "alloc"
      BY <1>4, <2>1, <3>2 DEF OpVerifies, PlacedAttribute
    <3> QED
      BY <3>1, <3>2
  <2> QED
    BY <1>4, <2>1, <2>2, <2>4 DEF OpVerifies
<1>8. ASSUME NEW i \in DOMAIN circuit.ops
      PROVE  /\ (placed.ops[i].gate = "output") = (i = Len(placed.ops))
             /\ \A value \in Qubits(placed.ops[i]) : HasOneUse(placed, value)
  <2>1. (placed.ops[i].gate = "output") = (i = Len(placed.ops))
    <3>1. placed.ops[i].gate = circuit.ops[i].gate /\ Len(placed.ops) = Len(circuit.ops)
      BY <1>1, <1>4
    <3>2. (circuit.ops[i].gate = "output") = (i = Len(circuit.ops))
      BY DEF CircuitVerifies
    <3> QED
      BY <3>1, <3>2
  <2>2. \A value \in Qubits(placed.ops[i]) : HasOneUse(placed, value)
    BY <1>2 DEF CircuitVerifies, HasOneUse
  <2> QED
    BY <2>1, <2>2
<1>9. ParsesTarget(placed) /\ MappedVerifies(placed, index)
  BY <1>1, <1>2 DEF MappedVerifies, ParsesTarget, Allocatable
<1> QED
  BY <1>1, <1>3, <1>6, <1>7, <1>8, <1>9 DEF CircuitVerifies, placed

-----------------------------------------------------------------------------
(***************************************************************************)
(* Cancelling a pair of neighbours.                                        *)
(***************************************************************************)

\* A sequence without one element.
LEMMA RemovedOne ==
    ASSUME NEW S, NEW s \in Seq(S), NEW i \in 1..Len(s)
    PROVE  /\ RemoveAt(s, i) \in Seq(S) /\ Len(RemoveAt(s, i)) = Len(s) - 1
           /\ \A j \in 1..(Len(s) - 1) : RemoveAt(s, i)[j] = IF j < i THEN s[j] ELSE s[j + 1]
<1> DEFINE front == SubSeq(s, 1, i - 1)
           back == SubSeq(s, i + 1, Len(s))
<1>1. Len(s) \in Nat /\ \A j \in 1..Len(s) : s[j] \in S
  BY LenProperties
<1>2. /\ front \in Seq(S) /\ Len(front) = i - 1
      /\ \A j \in 1..(i - 1) : front[j] = s[j]
  <2>1. 1 \in Int /\ i - 1 \in Int /\ \A j \in 1..(i - 1) : s[j] \in S
    BY <1>1
  <2>2. /\ front \in Seq(S) /\ Len(front) = IF 1 <= i - 1 THEN (i - 1) - 1 + 1 ELSE 0
        /\ \A j \in 1..((i - 1) - 1 + 1) : front[j] = s[1 + j - 1]
    BY <2>1, SubSeqProperties
  <2> HIDE DEF front
  <2> QED
    BY <1>1, <2>2
<1>3. /\ back \in Seq(S) /\ Len(back) = Len(s) - i
      /\ \A j \in 1..(Len(s) - i) : back[j] = s[i + j]
  <2>1. i + 1 \in Int /\ Len(s) \in Int /\ \A j \in (i + 1)..Len(s) : s[j] \in S
    BY <1>1
  <2>2. /\ back \in Seq(S) /\ Len(back) = IF i + 1 <= Len(s) THEN Len(s) - (i + 1) + 1 ELSE 0
        /\ \A j \in 1..(Len(s) - (i + 1) + 1) : back[j] = s[(i + 1) + j - 1]
    BY <2>1, SubSeqProperties
  <2> HIDE DEF back
  <2> QED
    BY <1>1, <2>2
<1> HIDE DEF front, back
<1>4. /\ front \o back \in Seq(S) /\ Len(front \o back) = Len(front) + Len(back)
      /\ \A j \in 1..(Len(front) + Len(back)) :
            (front \o back)[j] = IF j <= Len(front) THEN front[j] ELSE back[j - Len(front)]
  BY <1>2, <1>3, ConcatProperties
<1>5. ASSUME NEW j \in 1..(Len(s) - 1)
      PROVE  (front \o back)[j] = IF j < i THEN s[j] ELSE s[j + 1]
  <2>1. CASE j < i
    BY <1>1, <1>2, <1>3, <1>4, <2>1
  <2>2. CASE ~(j < i)
    <3>1. j - (i - 1) \in 1..(Len(s) - i) /\ i + (j - (i - 1)) = j + 1 /\ ~(j <= i - 1)
      BY <1>1, <2>2
    <3>2. back[j - (i - 1)] = s[j + 1]
      BY <1>3, <3>1
    <3>3. j \in 1..(Len(front) + Len(back))
      BY <1>1, <1>2, <1>3
    <3>4. (front \o back)[j] = back[j - (i - 1)]
      BY <1>2, <1>4, <3>1, <3>3
    <3> QED
      BY <2>2, <3>2, <3>4
  <2> QED
    BY <2>1, <2>2
<1>6. RemoveAt(s, i) = front \o back
  BY DEF RemoveAt, front, back
<1>7. Len(front \o back) = Len(s) - 1
  BY <1>1, <1>2, <1>3, <1>4
<1> QED
  BY <1>4, <1>5, <1>6, <1>7

\* Where the operation at i was before the two at first and first + 1 went.
Kept(first, i) == IF i < first THEN i ELSE i + 2

LEMMA RemovedPair ==
    ASSUME NEW S, NEW s \in Seq(S), NEW first \in 1..(Len(s) - 1)
    PROVE  LET rest == RemoveAt(RemoveAt(s, first + 1), first)
           IN  /\ rest \in Seq(S) /\ Len(rest) = Len(s) - 2
               /\ \A i \in 1..(Len(s) - 2) : rest[i] = s[Kept(first, i)]
<1> DEFINE once == RemoveAt(s, first + 1)
           rest == RemoveAt(once, first)
<1>1. Len(s) \in Nat /\ first + 1 \in 1..Len(s)
  BY LenProperties
<1>2. /\ once \in Seq(S) /\ Len(once) = Len(s) - 1
      /\ \A j \in 1..(Len(s) - 1) : once[j] = IF j < first + 1 THEN s[j] ELSE s[j + 1]
  BY <1>1, RemovedOne
<1> HIDE DEF once
<1>3. first \in 1..Len(once)
  BY <1>2
<1>4. /\ rest \in Seq(S) /\ Len(rest) = Len(once) - 1
      /\ \A j \in 1..(Len(once) - 1) : rest[j] = IF j < first THEN once[j] ELSE once[j + 1]
  BY <1>2, <1>3, RemovedOne
<1> HIDE DEF rest
<1>5. ASSUME NEW i \in 1..(Len(s) - 2)
      PROVE  rest[i] = s[Kept(first, i)]
  <2>1. i \in 1..(Len(once) - 1) /\ i \in 1..(Len(s) - 1) /\ i + 1 \in 1..(Len(s) - 1)
    BY <1>1, <1>2
  <2>2. CASE i < first
    <3>1. i < first + 1
      BY <2>2
    <3> QED
      BY <1>2, <1>4, <2>1, <2>2, <3>1 DEF Kept
  <2>3. CASE ~(i < first)
    <3>1. ~(i + 1 < first + 1) /\ (i + 1) + 1 = i + 2
      BY <2>3
    <3>2. once[i + 1] = s[(i + 1) + 1]
      BY <1>2, <2>1, <3>1
    <3> QED
      BY <1>4, <2>1, <2>3, <3>1, <3>2 DEF Kept
  <2> QED
    BY <2>2, <2>3
<1>6. Len(rest) = Len(s) - 2
  BY <1>1, <1>2, <1>4
<1> QED
  BY <1>4, <1>5, <1>6 DEF rest, once

LEMMA KeptOnto ==
    ASSUME NEW n \in Nat, NEW first \in 1..(n - 1), NEW p \in 1..n, p # first, p # first + 1
    PROVE  \E i \in 1..(n - 2) : Kept(first, i) = p
<1>1. CASE p < first
  BY <1>1 DEF Kept
<1>2. CASE p > first
  <2>1. p - 2 \in 1..(n - 2) /\ Kept(first, p - 2) = p
    BY <1>2 DEF Kept
  <2> QED
    BY <2>1
<1> QED
  BY <1>1, <1>2

LEMMA KeptIs ==
    ASSUME NEW n \in Nat, NEW first \in 1..(n - 1)
    PROVE  /\ \A i \in 1..(n - 2) : Kept(first, i) \in 1..n \ {first, first + 1}
           /\ \A i, j \in 1..(n - 2) : Kept(first, i) = Kept(first, j) => i = j
           /\ \A i, j \in 1..(n - 2) : Kept(first, i) < Kept(first, j) => i < j
           /\ \A p \in 1..n \ {first, first + 1} : \E i \in 1..(n - 2) : Kept(first, i) = p
           /\ first + 1 < n => \A i \in 1..(n - 2) : (Kept(first, i) = n) = (i = n - 2)
<1>1. \A p \in 1..n \ {first, first + 1} : \E i \in 1..(n - 2) : Kept(first, i) = p
  BY KeptOnto
<1> QED
  BY <1>1 DEF Kept

Follow(circuit, first, v) ==
    IF v \in Values(circuit.ops[first + 1]) THEN circuit.ops[first].operands[v[2]] ELSE v

\* The circuit without the pair, its operations where they were.
IsCancelled(circuit, first, rest) ==
    /\ rest = [stage |-> circuit.stage, target |-> circuit.target, ops |-> rest.ops]
    /\ rest.stage = circuit.stage /\ rest.target = circuit.target
    /\ Len(rest.ops) = Len(circuit.ops) - 2
    /\ DOMAIN rest.ops = 1..(Len(circuit.ops) - 2)
    /\ rest.ops = [i \in 1..(Len(circuit.ops) - 2) |-> rest.ops[i]]
    /\ \A i \in 1..(Len(circuit.ops) - 2) :
          LET op == circuit.ops[Kept(first, i)]
          IN  /\ rest.ops[i] = [op EXCEPT !.operands = rest.ops[i].operands]
              /\ rest.ops[i].id = op.id /\ rest.ops[i].gate = op.gate
              /\ rest.ops[i].physical = op.physical /\ rest.ops[i].qubits = op.qubits
              /\ rest.ops[i].angle = op.angle /\ rest.ops[i].notes = op.notes
              /\ rest.ops[i].operands =
                    [k \in DOMAIN op.operands |-> Follow(circuit, first, op.operands[k])]

LEMMA CancelledParts ==
    ASSUME NEW circuit \in Circuit, NEW first \in 1..(Len(circuit.ops) - 1)
    PROVE  IsCancelled(circuit, first, Cancelled(circuit, first, first + 1))
<1> DEFINE b == circuit.ops[first + 1]
           renamed == [v \in Values(b) |-> circuit.ops[first].operands[v[2]]]
           left == RemoveAt(RemoveAt(circuit.ops, first + 1), first)
           follow(v) == IF v \in DOMAIN renamed THEN renamed[v] ELSE v
           operands(i) == [k \in DOMAIN left[i].operands |-> follow(left[i].operands[k])]
           ops == [i \in DOMAIN left |-> [left[i] EXCEPT !.operands = operands(i)]]
           n == Len(circuit.ops)
           rest == Cancelled(circuit, first, first + 1)
<1>1. rest = [circuit EXCEPT !.ops = ops]
  BY DEF Cancelled, Erased
<1>2. circuit = [stage |-> circuit.stage, target |-> circuit.target, ops |-> circuit.ops]
  BY DEF Circuit
<1>3. circuit.ops \in Seq(Op) /\ n \in Nat /\ DOMAIN circuit.ops = 1..n
  BY CircuitTyped
<1>4. /\ left \in Seq(Op) /\ Len(left) = n - 2
      /\ \A i \in 1..(n - 2) : left[i] = circuit.ops[Kept(first, i)]
  BY <1>3, RemovedPair
<1>5. DOMAIN left = 1..(n - 2) /\ n - 2 \in Nat
  BY <1>4, LenProperties
<1> HIDE DEF left
<1>6. \A v : follow(v) = Follow(circuit, first, v)
  BY DEF Follow
<1> HIDE DEF follow
<1>7. ASSUME NEW i \in 1..(n - 2)
      PROVE  LET op == circuit.ops[Kept(first, i)]
             IN  /\ ops[i] = [op EXCEPT !.operands = ops[i].operands]
                 /\ ops[i].id = op.id /\ ops[i].gate = op.gate
                 /\ ops[i].physical = op.physical /\ ops[i].qubits = op.qubits
                 /\ ops[i].angle = op.angle /\ ops[i].notes = op.notes
                 /\ ops[i].operands = [k \in DOMAIN op.operands |-> Follow(circuit, first, op.operands[k])]
  <2> DEFINE op == circuit.ops[Kept(first, i)]
  <2>1. left[i] = op /\ op \in Op
    BY <1>3, <1>4, KeptIs, CircuitTyped
  <2>2. operands(i) = [k \in DOMAIN op.operands |-> Follow(circuit, first, op.operands[k])]
    BY <1>6, <2>1
  <2> HIDE DEF operands
  <2>3. ops[i] = [op EXCEPT !.operands = operands(i)]
    BY <1>5, <2>1
  <2> HIDE DEF ops, op
  <2>4. /\ ops[i].operands = operands(i) /\ ops[i] = [op EXCEPT !.operands = ops[i].operands]
        /\ ops[i].id = op.id /\ ops[i].gate = op.gate
        /\ ops[i].physical = op.physical /\ ops[i].qubits = op.qubits
        /\ ops[i].angle = op.angle /\ ops[i].notes = op.notes
    BY <2>1, <2>3 DEF Op
  <2> QED
    BY <2>2, <2>4 DEF op
<1>8. Len(ops) = n - 2 /\ DOMAIN ops = 1..(n - 2) /\ ops = [i \in 1..(n - 2) |-> ops[i]]
  BY <1>5
<1> HIDE DEF ops, rest
<1>9. rest = [stage |-> circuit.stage, target |-> circuit.target, ops |-> ops]
  BY <1>1, <1>2
<1>10. IsCancelled(circuit, first, rest)
  BY <1>7, <1>8, <1>9 DEF IsCancelled
<1> QED
  BY <1>10 DEF rest

\* A circuit the verifier accepts, in which the pattern matches at first.
Pair(circuit, first) ==
    /\ IsCircuit(circuit) /\ CircuitVerifies(circuit) /\ circuit.stage # "architecture"
    /\ first \in 1..(Len(circuit.ops) - 1)
    /\ Cancels(circuit, first, first + 1)

Width(circuit, first) == Arity(circuit.ops[first].gate)

\* The two gates: their operands and results, place by place.
LEMMA PairParts ==
    ASSUME NEW circuit, NEW first, Pair(circuit, first)
    PROVE  LET a == circuit.ops[first]
               b == circuit.ops[first + 1]
               m == Width(circuit, first)
           IN  /\ circuit \in Circuit
               /\ Len(circuit.ops) \in Nat /\ DOMAIN circuit.ops = 1..Len(circuit.ops)
               /\ first \in DOMAIN circuit.ops /\ first + 1 \in DOMAIN circuit.ops
               /\ a.gate = b.gate /\ b.gate \in Gates /\ b.gate # "output" /\ a.id # b.id
               /\ m \in Nat /\ DOMAIN a.operands = 1..m /\ DOMAIN b.operands = 1..m
               /\ Values(a) = {a.id} \X (1..m) /\ Qubits(a) = Values(a)
               /\ Values(b) = {b.id} \X (1..m) /\ Qubits(b) = Values(b)
               /\ \A k \in 1..m : b.operands[k] = <<a.id, k>>
<1> DEFINE a == circuit.ops[first]
           b == circuit.ops[first + 1]
           m == Width(circuit, first)
<1>1. IsCircuit(circuit) /\ circuit \in Circuit
  BY DEF Pair, IsCircuit
<1>2. /\ Len(circuit.ops) \in Nat /\ DOMAIN circuit.ops = 1..Len(circuit.ops)
      /\ first \in DOMAIN circuit.ops /\ first + 1 \in DOMAIN circuit.ops
      /\ first \in Nat
  BY <1>1, CircuitTyped DEF Pair
<1>3. a.gate = b.gate /\ b.gate \in SelfInverse
  BY DEF Pair, Cancels, Matches
<1>4. b.gate \in Gates /\ b.gate # "output" /\ b.gate # "measure" /\ m \in Nat /\ m = Arity(b.gate)
  BY <1>3 DEF SelfInverse, Gates, Arity, Width
<1>5. DOMAIN a.operands = 1..m /\ DOMAIN b.operands = 1..m
  <2>1. Len(a.operands) = m /\ Len(b.operands) = m
    BY <1>1, <1>2, <1>3, <1>4 DEF IsCircuit
  <2> QED
    BY <1>1, <1>2, <2>1, CircuitTyped
<1>6. /\ Values(a) = {a.id} \X (1..m) /\ Qubits(a) = Values(a)
      /\ Values(b) = {b.id} \X (1..m) /\ Qubits(b) = Values(b)
  <2>1. ResultCount(a) = m /\ ResultCount(b) = m
    BY <1>3, <1>4 DEF ResultCount, Width, Gates
  <2> QED
    BY <1>3, <1>4, <2>1 DEF Values, Qubits
<1>7. \A k \in 1..m : b.operands[k] = <<a.id, k>>
  BY <1>5 DEF Pair, Cancels
<1>8. a.id # b.id
  <2>1. first # first + 1
    BY <1>2
  <2> QED
    BY <1>1, <1>2, <2>1 DEF IsCircuit
<1> QED
  BY <1>1, <1>2, <1>3, <1>4, <1>5, <1>6, <1>7, <1>8

\* The operand of an operation is defined before it.
LEMMA DefinedBefore ==
    ASSUME NEW circuit, OperandsDefined(circuit), NEW v, NEW i, NEW k, Use(circuit, v, i, k)
    PROVE  \E j \in 1..(i - 1) :
              /\ v \in Values(circuit.ops[j])
              /\ circuit.ops[i].gate # "output" => v \in Qubits(circuit.ops[j])
              /\ circuit.ops[i].gate = "output" => v \notin Qubits(circuit.ops[j])
BY DEF OperandsDefined, Use, Qubits

\* The results of the first gate go to the second, place by place and nowhere
\* else; an operand of the first is used there only; and a result of the second
\* is used behind it, by an operation other than the output, and once.
PairUsesAt(circuit, first, k) ==
    LET a == circuit.ops[first]
        b == circuit.ops[first + 1]
    IN  /\ Use(circuit, <<a.id, k>>, first + 1, k)
        /\ \A j, l : Use(circuit, <<a.id, k>>, j, l) => j = first + 1 /\ l = k
        /\ Use(circuit, a.operands[k], first, k)
        /\ \A j, l : Use(circuit, a.operands[k], j, l) => j = first /\ l = k
        /\ \E j \in 1..(first - 1) : a.operands[k] \in Qubits(circuit.ops[j])
        /\ \E i \in 1..Len(circuit.ops) \ {first, first + 1} : \E l :
              /\ Use(circuit, <<b.id, k>>, i, l) /\ i > first + 1
              /\ \A j, o : Use(circuit, <<b.id, k>>, j, o) => j = i /\ o = l

LEMMA PairUses ==
    ASSUME NEW circuit, NEW first, Pair(circuit, first), NEW k \in 1..Width(circuit, first)
    PROVE  PairUsesAt(circuit, first, k)
<1> DEFINE a == circuit.ops[first]
           b == circuit.ops[first + 1]
           m == Width(circuit, first)
           n == Len(circuit.ops)
<1>0. Pair(circuit, first) /\ IsCircuit(circuit) /\ CircuitVerifies(circuit)
      /\ OperandsDefined(circuit) /\ first \in Int
  BY DEF Pair, CircuitVerifies
<1>1. /\ circuit \in Circuit /\ n \in Nat /\ DOMAIN circuit.ops = 1..n
      /\ first \in 1..n /\ first + 1 \in 1..n
      /\ a.gate # "output" /\ a.id # b.id /\ m \in Nat
      /\ DOMAIN a.operands = 1..m /\ DOMAIN b.operands = 1..m
      /\ Values(a) = {a.id} \X (1..m) /\ Qubits(a) = Values(a)
      /\ Values(b) = {b.id} \X (1..m) /\ Qubits(b) = Values(b)
      /\ \A l \in 1..m : b.operands[l] = <<a.id, l>>
  BY <1>0, PairParts
<1>2. \A i \in 1..n : \A v \in Qubits(circuit.ops[i]) : HasOneUse(circuit, v)
  BY <1>0, <1>1 DEF CircuitVerifies
<1>3. k \in 1..m
  OBVIOUS
<1> HIDE DEF m, n, a, b
<1>4. Use(circuit, <<a.id, k>>, first + 1, k) /\ Use(circuit, a.operands[k], first, k)
  BY <1>1, <1>3 DEF Use, a, b
<1>5. <<a.id, k>> \in Qubits(a) /\ <<b.id, k>> \in Qubits(b)
  BY <1>1, <1>3
<1>6. \A j, l : Use(circuit, <<a.id, k>>, j, l) => j = first + 1 /\ l = k
  <2>1. HasOneUse(circuit, <<a.id, k>>)
    BY <1>1, <1>2, <1>5 DEF a
  <2> QED
    BY <1>1, <1>4, <2>1, OneUse
<1>7. PICK j0 \in 1..(first - 1) : a.operands[k] \in Qubits(circuit.ops[j0])
  BY <1>0, <1>1, <1>4, DefinedBefore DEF a
<1>8. \A j, l : Use(circuit, a.operands[k], j, l) => j = first /\ l = k
  <2>1. HasOneUse(circuit, a.operands[k])
    BY <1>1, <1>2, <1>7
  <2> QED
    BY <1>1, <1>4, <2>1, OneUse
<1>9. HasOneUse(circuit, <<b.id, k>>)
  BY <1>1, <1>2, <1>5 DEF b
<1>10. PICK i, l : /\ Use(circuit, <<b.id, k>>, i, l)
                   /\ \A j, o : Use(circuit, <<b.id, k>>, j, o) => j = i /\ o = l
  BY <1>1, <1>9, OneUse
<1>11. i \in 1..n /\ i > first + 1
  <2>1. i \in 1..n
    BY <1>1, <1>10 DEF Use
  <2>2. PICK j \in 1..(i - 1) : <<b.id, k>> \in Values(circuit.ops[j])
    BY <1>0, <1>10, DefinedBefore
  <2>3. j \in 1..n
    BY <1>1, <2>1
  <2>4. j = first + 1
    BY <1>0, <1>1, <1>5, <2>2, <2>3, ValuesApart DEF b
  <2> QED
    BY <1>0, <1>1, <2>1, <2>4
<1>12. i \in 1..n \ {first, first + 1}
  BY <1>0, <1>11
<1> QED
  BY <1>4, <1>6, <1>7, <1>8, <1>10, <1>11, <1>12 DEF a, b, n, PairUsesAt

\* A value other than the second gate's stays; its k-th becomes the k-th operand
\* of the first gate.
LEMMA FollowIs ==
    ASSUME NEW circuit, NEW first, Pair(circuit, first), NEW w
    PROVE  /\ w \notin Values(circuit.ops[first + 1]) => Follow(circuit, first, w) = w
           /\ w \in Values(circuit.ops[first + 1]) =>
                 \E k \in 1..Width(circuit, first) :
                    /\ w = <<circuit.ops[first + 1].id, k>>
                    /\ Follow(circuit, first, w) = circuit.ops[first].operands[k]
<1>1. Values(circuit.ops[first + 1]) = {circuit.ops[first + 1].id} \X (1..Width(circuit, first))
  BY PairParts
<1>2. ASSUME w \in Values(circuit.ops[first + 1])
      PROVE  w[2] \in 1..Width(circuit, first) /\ w = <<circuit.ops[first + 1].id, w[2]>>
  BY <1>1, <1>2
<1> QED
  BY <1>2 DEF Follow

LEMMA CancelledUse ==
    ASSUME NEW circuit, NEW first, Pair(circuit, first), NEW rest, IsCancelled(circuit, first, rest)
    PROVE  \A v, i, k : Use(rest, v, i, k) <=>
              /\ i \in 1..(Len(circuit.ops) - 2)
              /\ \E w : Use(circuit, w, Kept(first, i), k) /\ Follow(circuit, first, w) = v
<1>1. /\ Len(circuit.ops) \in Nat /\ DOMAIN circuit.ops = 1..Len(circuit.ops)
      /\ first \in 1..(Len(circuit.ops) - 1)
  BY PairParts DEF Pair
<1>2. ASSUME NEW i \in 1..(Len(circuit.ops) - 2)
      PROVE  Kept(first, i) \in DOMAIN circuit.ops
  BY <1>1, KeptIs
<1>3. /\ DOMAIN rest.ops = 1..(Len(circuit.ops) - 2)
      /\ \A i \in 1..(Len(circuit.ops) - 2) :
            rest.ops[i].operands = [k \in DOMAIN circuit.ops[Kept(first, i)].operands |->
                                       Follow(circuit, first, circuit.ops[Kept(first, i)].operands[k])]
  BY DEF IsCancelled
<1>4. ASSUME NEW v, NEW i, NEW k, Use(rest, v, i, k)
      PROVE  /\ i \in 1..(Len(circuit.ops) - 2)
             /\ \E w : Use(circuit, w, Kept(first, i), k) /\ Follow(circuit, first, w) = v
  <2>1. i \in 1..(Len(circuit.ops) - 2) /\ k \in DOMAIN circuit.ops[Kept(first, i)].operands
    BY <1>3, <1>4 DEF Use
  <2>2. Follow(circuit, first, circuit.ops[Kept(first, i)].operands[k]) = v
    BY <1>3, <1>4, <2>1 DEF Use
  <2>3. Use(circuit, circuit.ops[Kept(first, i)].operands[k], Kept(first, i), k)
    BY <1>2, <2>1 DEF Use
  <2> QED
    BY <2>1, <2>2, <2>3
<1>5. ASSUME NEW v, NEW i \in 1..(Len(circuit.ops) - 2), NEW k, NEW w,
             Use(circuit, w, Kept(first, i), k), Follow(circuit, first, w) = v
      PROVE  Use(rest, v, i, k)
  BY <1>3, <1>5 DEF Use
<1> QED
  BY <1>4, <1>5

LEMMA FunctionIsSeq ==
    ASSUME NEW S, NEW n \in Nat, NEW f \in [1..n -> S]
    PROVE  f \in Seq(S) /\ Len(f) = n
OBVIOUS

\* What is left is a circuit.
LEMMA CancelledCircuit ==
    ASSUME NEW circuit, NEW first, Pair(circuit, first), NEW rest, IsCancelled(circuit, first, rest)
    PROVE  IsCircuit(rest)
<1> DEFINE n == Len(circuit.ops)
<1>1. /\ circuit \in Circuit /\ IsCircuit(circuit)
      /\ n \in Nat /\ DOMAIN circuit.ops = 1..n /\ first \in 1..(n - 1) /\ first \in DOMAIN circuit.ops
  BY PairParts DEF Pair
<1>2. \A i \in 1..(n - 2) : Kept(first, i) \in DOMAIN circuit.ops
  BY <1>1, KeptIs
<1>3. ASSUME NEW w \in Nat \X Nat
      PROVE  Follow(circuit, first, w) \in Nat \X Nat
  <2>1. CASE w \in Values(circuit.ops[first + 1])
    <3>1. PICK k \in 1..Width(circuit, first) : Follow(circuit, first, w) = circuit.ops[first].operands[k]
      BY <2>1, FollowIs
    <3>2. k \in DOMAIN circuit.ops[first].operands
      BY PairParts
    <3>3. /\ circuit.ops[first].operands \in Seq(Nat \X Nat)
          /\ DOMAIN circuit.ops[first].operands = 1..Len(circuit.ops[first].operands)
      BY <1>1, CircuitTyped
    <3>4. circuit.ops[first].operands[k] \in Nat \X Nat
      BY <3>2, <3>3, ElementOfSeq
    <3> QED
      BY <3>1, <3>4
  <2>2. CASE w \notin Values(circuit.ops[first + 1])
    BY <2>2, FollowIs
  <2> QED
    BY <2>1, <2>2
<1>4. ASSUME NEW i \in 1..(n - 2)
      PROVE  /\ rest.ops[i] \in Op
             /\ rest.ops[i].id = circuit.ops[Kept(first, i)].id
             /\ rest.ops[i].gate = circuit.ops[Kept(first, i)].gate
             /\ rest.ops[i].angle = circuit.ops[Kept(first, i)].angle
             /\ Len(rest.ops[i].operands) = Len(circuit.ops[Kept(first, i)].operands)
             /\ circuit.ops[Kept(first, i)].operands = <<>> => rest.ops[i].operands = <<>>
  <2> DEFINE op == circuit.ops[Kept(first, i)]
             operands == rest.ops[i].operands
  <2>1. /\ op \in Op /\ op.operands \in Seq(Nat \X Nat) /\ Len(op.operands) \in Nat
        /\ DOMAIN op.operands = 1..Len(op.operands)
    BY <1>1, <1>2, CircuitTyped
  <2>2. /\ rest.ops[i] = [op EXCEPT !.operands = operands]
        /\ rest.ops[i].id = op.id /\ rest.ops[i].gate = op.gate /\ rest.ops[i].angle = op.angle
        /\ operands = [k \in DOMAIN op.operands |-> Follow(circuit, first, op.operands[k])]
    BY DEF IsCancelled
  <2> HIDE DEF op, operands
  <2>3. operands \in [1..Len(op.operands) -> Nat \X Nat]
    BY <1>3, <2>1, <2>2
  <2>4. operands \in Seq(Nat \X Nat) /\ Len(operands) = Len(op.operands)
    BY <2>1, <2>3, FunctionIsSeq
  <2>5. rest.ops[i] \in Op
    BY <2>1, <2>2, <2>4 DEF Op
  <2>6. op.operands = <<>> => operands = <<>>
    BY <2>1, <2>4
  <2> QED
    BY <2>2, <2>4, <2>5, <2>6 DEF op, operands
<1>5. DOMAIN rest.ops = 1..(n - 2) /\ rest.ops = [i \in 1..(n - 2) |-> rest.ops[i]] /\ n - 2 \in Int
  BY <1>1 DEF IsCancelled
<1>6. first + 1 \in 1..n
  BY <1>1
<1>7. n - 2 \in Nat
  BY <1>1, <1>6
<1>8. rest.ops \in Seq(Op)
  <2>1. rest.ops \in [1..(n - 2) -> Op]
    BY <1>4, <1>5
  <2> QED
    BY <1>7, <2>1
<1>9. rest \in Circuit
  <2>1. /\ rest = [stage |-> rest.stage, target |-> rest.target, ops |-> rest.ops]
        /\ rest.stage = circuit.stage /\ rest.target = circuit.target
    BY DEF IsCancelled
  <2> QED
    BY <1>1, <1>8, <2>1 DEF Circuit
<1>10. \A i, j \in 1..(n - 2) : rest.ops[i].id = rest.ops[j].id => i = j
  <2>1. ASSUME NEW i \in 1..(n - 2), NEW j \in 1..(n - 2), rest.ops[i].id = rest.ops[j].id
        PROVE  i = j
    <3>1. Kept(first, i) \in DOMAIN circuit.ops /\ Kept(first, j) \in DOMAIN circuit.ops
      BY <1>2
    <3>2. circuit.ops[Kept(first, i)].id = circuit.ops[Kept(first, j)].id
      BY <1>4, <2>1
    <3>3. Kept(first, i) = Kept(first, j)
      BY <1>1, <3>1, <3>2 DEF IsCircuit
    <3> QED
      BY <1>1, <3>3, KeptIs
  <2> QED
    BY <2>1
<1>11. ASSUME NEW i \in 1..(n - 2)
       PROVE  LET op == rest.ops[i]
              IN  /\ op.gate \in Gates => Len(op.operands) = Arity(op.gate)
                  /\ op.gate \in {"measure", "discard"} => Len(op.operands) = 1
                  /\ op.gate \in {"alloc", "barrier"} => op.operands = <<>>
                  /\ op.angle # {} => op.gate = "rz"
  <2> DEFINE old == circuit.ops[Kept(first, i)]
  <2>1. Kept(first, i) \in DOMAIN circuit.ops
    BY <1>2
  <2>2. /\ old.gate \in Gates => Len(old.operands) = Arity(old.gate)
        /\ old.gate \in {"measure", "discard"} => Len(old.operands) = 1
        /\ old.gate \in {"alloc", "barrier"} => old.operands = <<>>
        /\ old.angle # {} => old.gate = "rz"
    BY <1>1, <2>1 DEF IsCircuit
  <2> QED
    BY <1>4, <2>2
<1> QED
  BY <1>5, <1>9, <1>10, <1>11 DEF IsCircuit

\* Each operation left defines the values it defined.
LEMMA CancelledValues ==
    ASSUME NEW circuit, NEW first, NEW rest, IsCancelled(circuit, first, rest),
           NEW i \in 1..(Len(circuit.ops) - 2)
    PROVE  /\ Values(rest.ops[i]) = Values(circuit.ops[Kept(first, i)])
           /\ Qubits(rest.ops[i]) = Qubits(circuit.ops[Kept(first, i)])
BY DEF IsCancelled, Values, Qubits, ResultCount

\* Every operand of what is left is still defined before it.
LEMMA CancelledDefined ==
    ASSUME NEW circuit, NEW first, Pair(circuit, first), NEW rest, IsCancelled(circuit, first, rest)
    PROVE  OperandsDefined(rest)
<1> DEFINE n == Len(circuit.ops)
           a == circuit.ops[first]
           b == circuit.ops[first + 1]
<1>1. /\ circuit \in Circuit /\ IsCircuit(circuit) /\ OperandsDefined(circuit)
      /\ n \in Nat /\ DOMAIN circuit.ops = 1..n /\ first \in 1..(n - 1)
      /\ first \in 1..n /\ first + 1 \in 1..n
      /\ Values(a) = {a.id} \X (1..Width(circuit, first))
      /\ Values(b) = Qubits(b)
  <2>1. IsCircuit(circuit) /\ OperandsDefined(circuit) /\ first \in 1..(n - 1)
    BY DEF Pair, CircuitVerifies
  <2> QED
    BY <2>1, PairParts
<1>2. DOMAIN rest.ops = 1..(n - 2)
  BY DEF IsCancelled
<1> HIDE DEF n, a, b
<1>3. ASSUME NEW i \in 1..(n - 2), NEW k \in DOMAIN rest.ops[i].operands
      PROVE  \E j \in 1..(i - 1) :
                rest.ops[i].operands[k] \in
                  IF rest.ops[i].gate = "output" THEN Values(rest.ops[j]) \ Qubits(rest.ops[j])
                                                 ELSE Qubits(rest.ops[j])
  <2> DEFINE v == rest.ops[i].operands[k]
             p == Kept(first, i)
  <2>1. Use(rest, v, i, k)
    BY <1>2, <1>3 DEF Use
  <2>2. PICK w : Use(circuit, w, p, k) /\ Follow(circuit, first, w) = v
    BY <2>1, CancelledUse DEF n
  <2>3. rest.ops[i].gate = circuit.ops[p].gate
    BY DEF IsCancelled, n
  <2>4. p \in 1..n \ {first, first + 1}
    BY <1>1, KeptIs
  <2> HIDE DEF v, p
  <2>5. PICK o \in 1..(p - 1) :
            /\ w \in Values(circuit.ops[o])
            /\ circuit.ops[p].gate # "output" => w \in Qubits(circuit.ops[o])
            /\ circuit.ops[p].gate = "output" => w \notin Qubits(circuit.ops[o])
    BY <1>1, <2>2, DefinedBefore
  <2>6. o \in 1..n /\ o < p
    BY <1>1, <2>4
  <2>7. ASSUME NEW q \in 1..n, q < p, q \notin {first, first + 1}, v \in Values(circuit.ops[q]),
               circuit.ops[p].gate # "output" => v \in Qubits(circuit.ops[q]),
               circuit.ops[p].gate = "output" => v \notin Qubits(circuit.ops[q])
        PROVE  \E j \in 1..(i - 1) :
                  v \in IF rest.ops[i].gate = "output" THEN Values(rest.ops[j]) \ Qubits(rest.ops[j])
                                                       ELSE Qubits(rest.ops[j])
    <3>1. PICK j \in 1..(n - 2) : Kept(first, j) = q
      BY <1>1, <2>7, KeptOnto
    <3>2. Kept(first, j) < Kept(first, i)
      BY <2>7, <3>1 DEF p
    <3>3. j < i
      BY <1>1, <3>2, KeptIs
    <3>4. j \in 1..(i - 1)
      BY <1>1, <3>3
    <3>5. Values(rest.ops[j]) = Values(circuit.ops[q]) /\ Qubits(rest.ops[j]) = Qubits(circuit.ops[q])
      BY <3>1, CancelledValues DEF n
    <3> QED
      BY <2>3, <2>7, <3>4, <3>5
  <2>8. CASE w \notin Values(b)
    <3>1. v = w
      BY <2>2, <2>8, FollowIs DEF b
    <3>2. o # first + 1
      BY <2>5, <2>8 DEF b
    <3>3. o # first
      <4>1. ASSUME o = first
            PROVE  FALSE
        <5>1. PICK l \in 1..Width(circuit, first) : w = <<a.id, l>>
          BY <1>1, <2>5, <4>1 DEF a
        <5>2. \A j, r : Use(circuit, <<a.id, l>>, j, r) => j = first + 1
          <6>1. PairUsesAt(circuit, first, l)
            BY PairUses
          <6> QED
            BY <6>1 DEF PairUsesAt, a
        <5>3. p = first + 1
          BY <2>2, <5>1, <5>2
        <5> QED
          BY <2>4, <5>3
      <4> QED
        BY <4>1
    <3> QED
      BY <2>5, <2>6, <2>7, <3>1, <3>2, <3>3 DEF v
  <2>9. CASE w \in Values(b)
    <3>1. PICK l \in 1..Width(circuit, first) : w = <<b.id, l>> /\ v = a.operands[l]
      BY <2>2, <2>9, FollowIs DEF a, b
    <3>2. o = first + 1
      BY <1>1, <2>5, <2>6, <2>9, ValuesApart DEF b
    <3>3. circuit.ops[p].gate # "output"
      BY <1>1, <2>5, <2>9, <3>2 DEF b
    <3>4. PICK q \in 1..(first - 1) : v \in Qubits(circuit.ops[q])
      <4>1. \E q \in 1..(first - 1) : a.operands[l] \in Qubits(circuit.ops[q])
        <5>1. PairUsesAt(circuit, first, l)
          BY PairUses
        <5> QED
          BY <5>1 DEF PairUsesAt, a
      <4> QED
        BY <3>1, <4>1
    <3>5. q \in 1..n /\ q < p /\ q \notin {first, first + 1}
      <4>1. first \in Int /\ p \in Int /\ first + 1 < p
        BY <1>1, <2>4, <2>6, <3>2
      <4> QED
        BY <1>1, <4>1
    <3>6. v \in Values(circuit.ops[q])
      BY <3>4 DEF Qubits
    <3> QED
      BY <2>7, <3>3, <3>4, <3>5, <3>6 DEF v
  <2> QED
    BY <2>8, <2>9
<1> QED
  BY <1>2, <1>3 DEF OperandsDefined

\* A value used in one place is used in one place when the pair is gone: there,
\* or, as an operand of the pair, where the result it stands for was used.
LEMMA CancelledOneUse ==
    ASSUME NEW circuit, NEW first, Pair(circuit, first), NEW rest, IsCancelled(circuit, first, rest),
           NEW v, HasOneUse(circuit, v),
           v \notin Values(circuit.ops[first]), v \notin Values(circuit.ops[first + 1])
    PROVE  \E i, k : /\ Use(rest, v, i, k)
                     /\ \A j, l : Use(rest, v, j, l) => j = i /\ l = k
<1> DEFINE n == Len(circuit.ops)
           a == circuit.ops[first]
           b == circuit.ops[first + 1]
           m == Width(circuit, first)
<1>1. /\ circuit \in Circuit /\ n \in Nat /\ DOMAIN circuit.ops = 1..n
      /\ first \in 1..(n - 1) /\ first \in 1..n
      /\ Values(a) = {a.id} \X (1..m)
      /\ DOMAIN a.operands = 1..m /\ DOMAIN b.operands = 1..m
      /\ \A l \in 1..m : b.operands[l] = <<a.id, l>>
  BY PairParts DEF Pair
<1>2. PICK i0, k0 : /\ Use(circuit, v, i0, k0)
                    /\ \A j, l : Use(circuit, v, j, l) => j = i0 /\ l = k0
  BY <1>1, OneUse
<1> HIDE DEF n, a, b, m
<1>3. /\ v \notin Values(a) /\ v \notin Values(b)
      /\ i0 \in 1..n
  BY <1>1, <1>2 DEF a, b, Use
<1>4. ASSUME NEW j, NEW l, Use(rest, v, j, l)
      PROVE  /\ j \in 1..(n - 2)
             /\ \/ Use(circuit, v, Kept(first, j), l)
                \/ \E k \in 1..m : /\ a.operands[k] = v
                                   /\ Use(circuit, <<b.id, k>>, Kept(first, j), l)
  <2>1. j \in 1..(n - 2) /\ \E w : Use(circuit, w, Kept(first, j), l) /\ Follow(circuit, first, w) = v
    BY <1>4, CancelledUse DEF n
  <2>2. PICK w : Use(circuit, w, Kept(first, j), l) /\ Follow(circuit, first, w) = v
    BY <2>1
  <2>3. CASE w \notin Values(b)
    <3>1. w = v
      BY <2>2, <2>3, FollowIs DEF b
    <3> QED
      BY <2>1, <2>2, <3>1
  <2>4. CASE w \in Values(b)
    <3>1. \E k \in 1..m : w = <<b.id, k>> /\ a.operands[k] = v
      BY <2>2, <2>4, FollowIs DEF a, b, m
    <3> QED
      BY <2>1, <2>2, <3>1
  <2> QED
    BY <2>3, <2>4
<1>5. CASE i0 = first
  <2>1. k0 \in 1..m /\ a.operands[k0] = v
    BY <1>1, <1>2, <1>5 DEF Use, a
  <2>f. PICK p \in 1..n \ {first, first + 1} : \E o :
            /\ Use(circuit, <<b.id, k0>>, p, o)
            /\ \A j, l : Use(circuit, <<b.id, k0>>, j, l) => j = p /\ l = o
    <3>1. PairUsesAt(circuit, first, k0)
      BY <2>1, PairUses DEF m
    <3> QED
      BY <3>1 DEF PairUsesAt, b, n
  <2>2. PICK o : /\ Use(circuit, <<b.id, k0>>, p, o)
                 /\ \A j, l : Use(circuit, <<b.id, k0>>, j, l) => j = p /\ l = o
    BY <2>f
  <2>3. PICK i \in 1..(n - 2) : Kept(first, i) = p
    BY <1>1, KeptIs
  <2>4. Use(rest, v, i, o)
    <3>1. <<b.id, k0>> \in Values(b)
      BY <2>1, PairParts DEF b, m
    <3>2. Follow(circuit, first, <<b.id, k0>>) = v
      BY <2>1, <3>1 DEF Follow, a, b
    <3> QED
      BY <2>2, <2>3, <3>2, CancelledUse DEF n
  <2>5. ASSUME NEW j, NEW l, Use(rest, v, j, l)
        PROVE  j = i /\ l = o
    <3>1. j \in 1..(n - 2)
      BY <1>4, <2>5
    <3>2. Kept(first, j) # first
      BY <1>1, <3>1, KeptIs
    <3>3. ~Use(circuit, v, Kept(first, j), l)
      BY <1>2, <1>5, <3>2
    <3>4. PICK k \in 1..m : a.operands[k] = v /\ Use(circuit, <<b.id, k>>, Kept(first, j), l)
      BY <1>4, <2>5, <3>3
    <3>5. Use(circuit, v, first, k)
      BY <1>1, <3>4 DEF Use, a
    <3>6. k = k0
      BY <1>2, <3>5
    <3>7. Kept(first, j) = p /\ l = o
      BY <2>2, <3>4, <3>6
    <3> QED
      BY <1>1, <2>3, <3>1, <3>7, KeptIs
  <2> QED
    BY <2>4, <2>5
<1>6. CASE i0 = first + 1
  <2>1. k0 \in 1..m /\ v = <<a.id, k0>>
    BY <1>1, <1>2, <1>6 DEF Use, b
  <2> QED
    BY <1>1, <1>3, <2>1
<1>7. CASE i0 \notin {first, first + 1}
  <2>1. PICK i \in 1..(n - 2) : Kept(first, i) = i0
    BY <1>1, <1>3, <1>7, KeptIs
  <2>2. Use(rest, v, i, k0)
    <3>1. Follow(circuit, first, v) = v
      BY <1>3 DEF Follow, b
    <3> QED
      BY <1>2, <2>1, <3>1, CancelledUse DEF n
  <2>3. ASSUME NEW j, NEW l, Use(rest, v, j, l)
        PROVE  j = i /\ l = k0
    <3>1. \A k \in 1..m : a.operands[k] # v
      <4>1. ASSUME NEW k \in 1..m, a.operands[k] = v
            PROVE  FALSE
        <5>1. Use(circuit, v, first, k)
          BY <1>1, <4>1 DEF Use, a
        <5> QED
          BY <1>2, <1>7, <5>1
      <4> QED
        BY <4>1
    <3>2. j \in 1..(n - 2) /\ Use(circuit, v, Kept(first, j), l)
      BY <1>4, <2>3, <3>1
    <3>3. Kept(first, j) = Kept(first, i) /\ l = k0
      BY <1>2, <2>1, <3>2
    <3> QED
      BY <1>1, <3>2, <3>3, KeptIs
  <2> QED
    BY <2>2, <2>3
<1> QED
  BY <1>5, <1>6, <1>7

\* Two operands that were different qubits still are.
LEMMA CancelledApart ==
    ASSUME NEW circuit, NEW first, Pair(circuit, first), NEW rest, IsCancelled(circuit, first, rest),
           NEW i, NEW k, NEW l, NEW v, Use(rest, v, i, k), Use(rest, v, i, l),
           rest.ops[i].gate # "output"
    PROVE  k = l
<1>0. /\ circuit \in Circuit /\ IsCircuit(rest) /\ OperandsDefined(rest)
      /\ Len(circuit.ops) \in Nat /\ DOMAIN circuit.ops = 1..Len(circuit.ops)
      /\ first \in 1..(Len(circuit.ops) - 1)
      /\ first \in DOMAIN circuit.ops /\ first + 1 \in DOMAIN circuit.ops
      /\ IsCircuit(circuit) /\ CircuitVerifies(circuit)
  BY PairParts, CancelledCircuit, CancelledDefined DEF Pair
<1>1. i \in 1..(Len(circuit.ops) - 2)
  BY DEF Use, IsCancelled
<1>2. PICK j \in 1..(i - 1) : v \in Qubits(rest.ops[j])
  BY <1>0, DefinedBefore
<1>3. j \in 1..(Len(circuit.ops) - 2)
  BY <1>0, <1>1
<1>4. v \in Qubits(circuit.ops[Kept(first, j)])
  BY <1>2, <1>3, CancelledValues
<1>5. Kept(first, j) \in DOMAIN circuit.ops \ {first, first + 1}
  BY <1>0, <1>3, KeptIs
<1>6. v \in Values(circuit.ops[Kept(first, j)])
  BY <1>4 DEF Qubits
<1>7. v \notin Values(circuit.ops[first]) /\ v \notin Values(circuit.ops[first + 1])
  BY <1>0, <1>5, <1>6, ValuesApart
<1>8. HasOneUse(circuit, v)
  BY <1>0, <1>4, <1>5 DEF CircuitVerifies
<1> QED
  BY <1>7, <1>8, CancelledOneUse

\* Before the mapping no allocation has a physical index.
LEMMA NothingPlaced ==
    ASSUME NEW circuit, IsCircuit(circuit), CircuitVerifies(circuit), circuit.stage # "architecture",
           NEW i \in DOMAIN circuit.ops, circuit.ops[i].gate = "alloc"
    PROVE  circuit.ops[i].physical = {}
<1> DEFINE physical == circuit.ops[i].physical
<1>1. Physical(circuit)[circuit.ops[i].id] = Unplaced
  BY PhysicalIs DEF CircuitVerifies
<1>2. \A p \in physical : p >= 0
  BY DEF CircuitVerifies, OpVerifies
<1>3. Physical(circuit)[circuit.ops[i].id] = IF physical = {} THEN Unplaced ELSE CHOOSE p \in physical : TRUE
  BY PhysicalIs
<1> HIDE DEF physical
<1>4. physical # {} => (CHOOSE p \in physical : TRUE) \in physical
  OBVIOUS
<1>5. ~(Unplaced >= 0)
  BY DEF Unplaced
<1>6. physical = {}
  BY <1>1, <1>2, <1>3, <1>4, <1>5
<1> QED
  BY <1>6 DEF physical

\* Cancelling a pair leaves a circuit the verifier accepts.
LEMMA CancelledVerifies ==
    ASSUME NEW circuit, NEW first, Pair(circuit, first), NEW rest, IsCancelled(circuit, first, rest)
    PROVE  IsCircuit(rest) /\ CircuitVerifies(rest) /\ rest.stage = circuit.stage
<1> DEFINE n == Len(circuit.ops)
<1>1. /\ circuit \in Circuit /\ IsCircuit(circuit) /\ CircuitVerifies(circuit)
      /\ circuit.stage # "architecture"
      /\ n \in Nat /\ DOMAIN circuit.ops = 1..n /\ first \in 1..(n - 1)
      /\ first \in DOMAIN circuit.ops /\ first + 1 \in DOMAIN circuit.ops
      /\ circuit.ops[first + 1].gate # "output"
  BY PairParts DEF Pair
<1>2. IsCircuit(rest) /\ OperandsDefined(rest) /\ rest \in Circuit
  BY CancelledCircuit, CancelledDefined DEF IsCircuit
<1>3. /\ rest.stage = circuit.stage /\ rest.target = circuit.target
      /\ Len(rest.ops) = n - 2 /\ DOMAIN rest.ops = 1..(n - 2)
      /\ \A i \in 1..(n - 2) : /\ rest.ops[i].gate = circuit.ops[Kept(first, i)].gate
                               /\ rest.ops[i].physical = circuit.ops[Kept(first, i)].physical
  BY DEF IsCancelled
<1>4. \A i \in 1..(n - 2) : Kept(first, i) \in DOMAIN circuit.ops \ {first, first + 1}
  BY <1>1, KeptIs
<1> HIDE DEF n
<1>5. first + 1 < n
  <2>1. (circuit.ops[first + 1].gate = "output") = (first + 1 = n)
    BY <1>1 DEF CircuitVerifies, n
  <2> QED
    BY <1>1, <2>1
<1>6. ASSUME NEW i \in 1..(n - 2)
      PROVE  OpVerifies(rest, rest.ops[i])
  <2>1. OpVerifies(circuit, circuit.ops[Kept(first, i)])
    BY <1>1, <1>4 DEF CircuitVerifies
  <2>2. rest.ops[i].gate # "barrier"
    BY <1>1, <1>3, <2>1 DEF OpVerifies
  <2>3. rest.ops[i].gate \in {"cx", "cz"} => rest.ops[i].operands[1] # rest.ops[i].operands[2]
    <3> SUFFICES ASSUME rest.ops[i].gate \in {"cx", "cz"},
                        rest.ops[i].operands[1] = rest.ops[i].operands[2]
                 PROVE  FALSE
      OBVIOUS
    <3>1. Len(rest.ops[i].operands) = 2
      BY <1>2, <1>3 DEF IsCircuit, Gates, Arity
    <3>2. DOMAIN rest.ops[i].operands = 1..2
      BY <1>2, <1>3, <3>1, CircuitTyped
    <3>3. /\ Use(rest, rest.ops[i].operands[1], i, 1)
          /\ Use(rest, rest.ops[i].operands[1], i, 2)
      BY <1>3, <3>2 DEF Use
    <3>4. 1 = 2
      BY <3>3, CancelledApart
    <3> QED
      BY <3>4
  <2> QED
    BY <1>3, <2>1, <2>2, <2>3 DEF OpVerifies
<1>7. ASSUME NEW i \in 1..(n - 2)
      PROVE  (rest.ops[i].gate = "output") = (i = Len(rest.ops))
  <2>1. (circuit.ops[Kept(first, i)].gate = "output") = (Kept(first, i) = n)
    BY <1>1, <1>4 DEF CircuitVerifies, n
  <2>2. (Kept(first, i) = n) = (i = n - 2)
    BY <1>1, <1>5, KeptIs
  <2> QED
    BY <1>3, <2>1, <2>2
<1>8. ASSUME NEW i \in 1..(n - 2), NEW v \in Qubits(rest.ops[i])
      PROVE  HasOneUse(rest, v)
  <2>1. v \in Qubits(circuit.ops[Kept(first, i)])
    BY CancelledValues DEF n
  <2>2. v \in Values(circuit.ops[Kept(first, i)]) /\ HasOneUse(circuit, v)
    BY <1>1, <1>4, <2>1 DEF CircuitVerifies, Qubits
  <2>3. v \notin Values(circuit.ops[first]) /\ v \notin Values(circuit.ops[first + 1])
    BY <1>1, <1>4, <2>2, ValuesApart
  <2> QED
    BY <1>2, <2>2, <2>3, CancelledOneUse, OneUse
<1>9. Len(rest.ops) > 0
  BY <1>1, <1>3, <1>5
<1>10. rest.target # {} => ParsesTarget(rest)
  BY <1>1, <1>3 DEF CircuitVerifies, ParsesTarget
<1>11. \A id \in AllocIds(rest) : Physical(rest)[id] = Unplaced
  <2>1. ASSUME NEW id \in AllocIds(rest)
        PROVE  Physical(rest)[id] = Unplaced
    <3>1. PICK i \in DOMAIN rest.ops : rest.ops[i].gate = "alloc" /\ rest.ops[i].id = id
      BY DEF AllocIds, ToSet
    <3>2. rest.ops[i].physical = {}
      <4>1. i \in 1..(n - 2) /\ Kept(first, i) \in DOMAIN circuit.ops
        BY <1>3, <1>4, <3>1
      <4>2. circuit.ops[Kept(first, i)].gate = "alloc"
        BY <1>3, <3>1, <4>1
      <4>3. circuit.ops[Kept(first, i)].physical = {}
        BY <1>1, <4>1, <4>2, NothingPlaced
      <4> QED
        BY <1>3, <4>1, <4>3
    <3> QED
      BY <1>2, <3>1, <3>2, PhysicalIs
  <2> QED
    BY <2>1
<1> QED
  BY <1>1, <1>2, <1>3, <1>6, <1>7, <1>8, <1>9, <1>10, <1>11 DEF CircuitVerifies

-----------------------------------------------------------------------------
(***************************************************************************)
(* The wires of values, from operation to operation.                       *)
(***************************************************************************)
Placing(circuit, index) ==
    CHOOSE after : after = [n \in 0..Len(Wiring(circuit)) |->
                               IF n = 0 THEN <<>> ELSE Extended(after[n - 1], Wiring(circuit)[n], index)]

IsAfter(ops, index, n, after) ==
    after = [k \in 0..n |-> IF k = 0 THEN <<>> ELSE Extended(after[k - 1], ops[k], index)]

LEMMA AfterExists ==
    ASSUME NEW ops, NEW index, NEW n \in Nat
    PROVE  \E after : IsAfter(ops, index, n, after)
<1> DEFINE S == {k \in Nat : \E after : IsAfter(ops, index, k, after)}
<1>1. 0 \in S
  <2> DEFINE after == [k \in 0..0 |-> <<>>]
  <2>1. IsAfter(ops, index, 0, after)
    BY DEF IsAfter
  <2> QED
    BY <2>1
<1>2. ASSUME NEW k \in Nat, k \in S
      PROVE  k + 1 \in S
  <2>1. PICK shorter : IsAfter(ops, index, k, shorter)
    BY <1>2
  <2> DEFINE after == [j \in 0..(k + 1) |-> IF j = k + 1 THEN Extended(shorter[k], ops[k + 1], index)
                                            ELSE shorter[j]]
  <2>2. \A j \in 0..k : shorter[j] = IF j = 0 THEN <<>> ELSE Extended(shorter[j - 1], ops[j], index)
    BY <2>1 DEF IsAfter
  <2>3. \A j \in 0..(k + 1) : after[j] = IF j = 0 THEN <<>> ELSE Extended(after[j - 1], ops[j], index)
    <3> TAKE j \in 0..(k + 1)
    <3>1. CASE j = k + 1
      BY <3>1
    <3>2. CASE j # k + 1
      <4>1. j \in 0..k /\ (j # 0 => j - 1 \in 0..k /\ j - 1 # k + 1)
        BY <3>2
      <4> QED
        BY <2>2, <4>1
    <3> QED
      BY <3>1, <3>2
  <2>4. after = [j \in 0..(k + 1) |-> after[j]]
    OBVIOUS
  <2> HIDE DEF after
  <2>5. IsAfter(ops, index, k + 1, after)
    BY <2>3, <2>4 DEF IsAfter
  <2> QED
    BY <2>5
<1> HIDE DEF S
<1>3. n \in S
  BY <1>1, <1>2, Induct
<1> QED
  BY <1>3 DEF S

LEMMA WiringIs ==
    ASSUME NEW circuit \in Circuit
    PROVE  /\ Len(Wiring(circuit)) = Len(circuit.ops)
           /\ \A i \in DOMAIN circuit.ops :
                 /\ Wiring(circuit)[i].id = circuit.ops[i].id
                 /\ Wiring(circuit)[i].gate = circuit.ops[i].gate
                 /\ Wiring(circuit)[i].operands = circuit.ops[i].operands
                 /\ Qubits(Wiring(circuit)[i]) = Qubits(circuit.ops[i])
<1>1. DOMAIN circuit.ops = 1..Len(circuit.ops) /\ Len(circuit.ops) \in Nat
  BY CircuitTyped
<1>2. Len(Wiring(circuit)) = Len(circuit.ops)
  BY <1>1 DEF Wiring
<1> QED
  BY <1>2 DEF Wiring, Qubits, Values, ResultCount

LEMMA AfterIs ==
    ASSUME NEW circuit \in Circuit, NEW index
    PROVE  /\ IsAfter(Wiring(circuit), index, Len(circuit.ops), Placing(circuit, index))
           /\ Placement(circuit, index) = Placing(circuit, index)[Len(circuit.ops)]
<1> DEFINE N == Len(Wiring(circuit))
<1>1. N = Len(circuit.ops) /\ N \in Nat
  BY WiringIs, CircuitTyped
<1>2. Placement(circuit, index) = Placing(circuit, index)[N]
  <2>1. Placement(circuit, index) = CHOOSE place \in {Placing(circuit, index)[N]} : place = place
    BY DEF Placement, Placing
  <2> QED
    BY <2>1
<1>3. PICK after : IsAfter(Wiring(circuit), index, N, after)
  BY <1>1, AfterExists
<1>4. IsAfter(Wiring(circuit), index, N, Placing(circuit, index))
  BY <1>3 DEF IsAfter, Placing
<1> QED
  BY <1>1, <1>2, <1>4

\* What defines a qubit is an allocation or a gate.
LEMMA QubitsAre ==
    ASSUME NEW circuit, IsCircuit(circuit), NEW i \in DOMAIN circuit.ops, NEW v \in Qubits(circuit.ops[i])
    PROVE  /\ v = <<circuit.ops[i].id, v[2]>>
           /\ \/ circuit.ops[i].gate = "alloc" /\ v[2] = 1
              \/ circuit.ops[i].gate \in Gates /\ v[2] \in DOMAIN circuit.ops[i].operands
<1> DEFINE op == circuit.ops[i]
<1>1. op.gate # "measure" /\ v \in Values(op)
  BY DEF Qubits
<1>2. v = <<op.id, v[2]>> /\ v[2] \in 1..ResultCount(op)
  BY <1>1 DEF Values
<1>3. CASE op.gate \in Gates
  <2>1. ResultCount(op) = Arity(op.gate)
    BY <1>3 DEF ResultCount, Gates
  <2>2. DOMAIN op.operands = 1..Arity(op.gate)
    BY <1>3, CircuitTyped DEF IsCircuit
  <2> QED
    BY <1>2, <1>3, <2>1, <2>2
<1>4. CASE op.gate \notin Gates
  <2>1. op.gate = "alloc"
    <3> SUFFICES ASSUME op.gate # "alloc" PROVE FALSE
      OBVIOUS
    <3>1. ResultCount(op) = 0
      BY <1>1, <1>4 DEF ResultCount
    <3> QED
      BY <1>2, <3>1
  <2>2. ResultCount(op) = 1
    BY <1>4, <2>1 DEF ResultCount
  <2> QED
    BY <1>2, <2>1, <2>2
<1> QED
  BY <1>3, <1>4

\* A qubit is on the wire of its allocation, or of the operand it follows.
FollowsWire(circuit, index, place, i, v) ==
    place[v] = IF circuit.ops[i].gate = "alloc" THEN index[circuit.ops[i].id]
               ELSE place[circuit.ops[i].operands[v[2]]]

QubitsBefore(circuit, n) == {v \in UNION {Qubits(circuit.ops[i]) : i \in DOMAIN circuit.ops} :
                                \E i \in 1..n : v \in Qubits(circuit.ops[i])}

WiresAfter(circuit, index, n, place) ==
    /\ DOMAIN place = QubitsBefore(circuit, n)
    /\ \A i \in 1..n : \A v \in Qubits(circuit.ops[i]) : FollowsWire(circuit, index, place, i, v)

LEMMA WiresExtended ==
    ASSUME NEW circuit, IsCircuit(circuit), OperandsDefined(circuit), NEW index,
           NEW n \in Nat, n + 1 <= Len(circuit.ops), NEW place, WiresAfter(circuit, index, n, place)
    PROVE  WiresAfter(circuit, index, n + 1, Extended(place, Wiring(circuit)[n + 1], index))
<1> DEFINE op == circuit.ops[n + 1]
           next == Extended(place, Wiring(circuit)[n + 1], index)
<1>0. circuit \in Circuit /\ DOMAIN circuit.ops = 1..Len(circuit.ops) /\ Len(circuit.ops) \in Nat
  BY CircuitTyped DEF IsCircuit
<1>1. /\ Wiring(circuit)[n + 1].id = op.id /\ Wiring(circuit)[n + 1].gate = op.gate
      /\ Wiring(circuit)[n + 1].operands = op.operands
      /\ Qubits(Wiring(circuit)[n + 1]) = Qubits(op)
  BY <1>0, WiringIs
<1>2. next = [v \in DOMAIN place \cup Qubits(op) |->
                 IF v \in DOMAIN place THEN place[v]
                 ELSE IF op.gate = "alloc" THEN index[op.id] ELSE place[op.operands[v[2]]]]
  BY <1>1 DEF Extended
<1>3. n + 1 \in DOMAIN circuit.ops /\ 1..(n + 1) \subseteq DOMAIN circuit.ops
      /\ \A i \in 1..(n + 1) : i = n + 1 \/ i \in 1..n
  BY <1>0
<1> HIDE DEF op, next
<1>4. DOMAIN place = QubitsBefore(circuit, n)
  BY DEF WiresAfter
<1>5. DOMAIN next = QubitsBefore(circuit, n + 1)
  <2>1. DOMAIN next = DOMAIN place \cup Qubits(op)
    BY <1>2
  <2>2. QubitsBefore(circuit, n + 1) = QubitsBefore(circuit, n) \cup Qubits(op)
    <3>1. \A i \in 1..n : i \in 1..(n + 1)
      OBVIOUS
    <3>2. n + 1 \in 1..(n + 1)
      OBVIOUS
    <3> QED
      BY <1>3, <3>1, <3>2 DEF QubitsBefore, op
  <2> QED
    BY <1>4, <2>1, <2>2
\* What an operation uses was there before it.
<1>6. ASSUME NEW i \in 1..(n + 1), NEW v \in Qubits(circuit.ops[i]), circuit.ops[i].gate # "alloc"
      PROVE  /\ circuit.ops[i].operands[v[2]] \in DOMAIN place
             /\ next[circuit.ops[i].operands[v[2]]] = place[circuit.ops[i].operands[v[2]]]
  <2>1. v[2] \in DOMAIN circuit.ops[i].operands /\ circuit.ops[i].gate \in Gates
    BY <1>3, <1>6, QubitsAre
  <2>2. PICK j \in 1..(i - 1) : circuit.ops[i].operands[v[2]] \in Qubits(circuit.ops[j])
    BY <1>3, <2>1 DEF OperandsDefined, Gates
  <2>3. j \in 1..n
    BY <2>2
  <2>4. circuit.ops[i].operands[v[2]] \in DOMAIN place
    BY <1>3, <1>4, <2>2, <2>3 DEF QubitsBefore
  <2> QED
    BY <1>2, <2>4
<1>7. ASSUME NEW i \in 1..(n + 1), NEW v \in Qubits(circuit.ops[i])
      PROVE  FollowsWire(circuit, index, next, i, v)
  <2>1. CASE i = n + 1
    <3>1. v \notin DOMAIN place
      <4> SUFFICES ASSUME v \in DOMAIN place PROVE FALSE
        OBVIOUS
      <4>1. PICK j \in 1..n : v \in Qubits(circuit.ops[j])
        BY <1>4 DEF QubitsBefore
      <4>2. v \in Values(circuit.ops[j]) /\ v \in Values(circuit.ops[i])
        BY <4>1 DEF Qubits
      <4>3. j \in DOMAIN circuit.ops /\ i \in DOMAIN circuit.ops
        BY <1>3, <4>1
      <4>4. i = j
        BY <4>2, <4>3, ValuesApart
      <4> QED
        BY <2>1, <4>4
    <3>2. next[v] = IF op.gate = "alloc" THEN index[op.id] ELSE place[op.operands[v[2]]]
      BY <1>2, <2>1, <3>1 DEF op
    <3> QED
      BY <1>6, <2>1, <3>2 DEF FollowsWire, op
  <2>2. CASE i \in 1..n
    <3>1. v \in DOMAIN place
      BY <1>3, <1>4, <2>2 DEF QubitsBefore
    <3>2. next[v] = place[v]
      BY <1>2, <3>1
    <3>3. FollowsWire(circuit, index, place, i, v)
      BY <2>2 DEF WiresAfter
    <3> QED
      BY <1>6, <3>2, <3>3 DEF FollowsWire
  <2> QED
    BY <1>3, <2>1, <2>2
<1>8. WiresAfter(circuit, index, n + 1, next)
  BY <1>5, <1>7 DEF WiresAfter
<1> QED
  BY <1>8 DEF next

\* The equation of Placement.
LEMMA PlacementIs ==
    ASSUME NEW circuit, IsCircuit(circuit), OperandsDefined(circuit), NEW index,
           NEW i \in DOMAIN circuit.ops, NEW v \in Qubits(circuit.ops[i])
    PROVE  FollowsWire(circuit, index, Placement(circuit, index), i, v)
<1> DEFINE N == Len(circuit.ops)
           after == Placing(circuit, index)
           S == {n \in Nat : n <= N => WiresAfter(circuit, index, n, after[n])}
<1>0. circuit \in Circuit /\ DOMAIN circuit.ops = 1..N /\ N \in Nat
  BY CircuitTyped DEF IsCircuit
<1>1. IsAfter(Wiring(circuit), index, N, after) /\ Placement(circuit, index) = after[N]
  BY <1>0, AfterIs
<1> HIDE DEF after, N
<1>2. \A n \in 0..N : after[n] = IF n = 0 THEN <<>> ELSE Extended(after[n - 1], Wiring(circuit)[n], index)
  BY <1>1 DEF IsAfter
<1>3. 0 \in S
  <2>1. after[0] = <<>>
    BY <1>0, <1>2
  <2>2. WiresAfter(circuit, index, 0, <<>>)
    BY DEF WiresAfter, QubitsBefore
  <2> QED
    BY <2>1, <2>2
<1>4. ASSUME NEW n \in Nat, n \in S
      PROVE  n + 1 \in S
  <2> SUFFICES ASSUME n + 1 <= N
               PROVE  WiresAfter(circuit, index, n + 1, after[n + 1])
    OBVIOUS
  <2>1. WiresAfter(circuit, index, n, after[n])
    BY <1>0, <1>4
  <2>2. after[n + 1] = Extended(after[n], Wiring(circuit)[n + 1], index)
    <3>1. n + 1 \in 0..N /\ n + 1 # 0 /\ (n + 1) - 1 = n
      BY <1>0
    <3> QED
      BY <1>2, <3>1
  <2> QED
    BY <2>1, <2>2, WiresExtended DEF N
<1> HIDE DEF S
<1>5. N \in S
  BY <1>0, <1>3, <1>4, Induct
<1>6. WiresAfter(circuit, index, N, after[N])
  BY <1>0, <1>5 DEF S
<1> QED
  BY <1>0, <1>1, <1>6 DEF WiresAfter

-----------------------------------------------------------------------------
(***************************************************************************)
(* A verified circuit is linear: going through it, a wire holds no value,  *)
(* one, or has come to its end.                                            *)
(***************************************************************************)
IsAlloc(circuit, a) == a \in DOMAIN circuit.ops /\ circuit.ops[a].gate = "alloc"
AllocatedAt(circuit, index, a, w) == IsAlloc(circuit, a) /\ index[circuit.ops[a].id] = w
EndsAt(circuit, place, e, w) ==
    /\ e \in DOMAIN circuit.ops /\ circuit.ops[e].gate \in {"measure", "discard"}
    /\ place[circuit.ops[e].operands[1]] = w

IsQubit(circuit, v, j) == j \in DOMAIN circuit.ops /\ v \in Qubits(circuit.ops[j])

\* On wire w after n operations there is v: made already, and still to be used.
Holds(circuit, place, n, w, v) ==
    /\ place[v] = w
    /\ \E j : IsQubit(circuit, v, j) /\ j <= n
    /\ \E i, k : Use(circuit, v, i, k) /\ i > n

\* A verified circuit with a number of its own for each allocation.
Numbered(circuit, index) ==
    /\ IsCircuit(circuit) /\ CircuitVerifies(circuit)
    /\ \A a, b \in AllocIds(circuit) : index[a] = index[b] => a = b

\* What the verifier's rules say of single values.
Rules(circuit, index, place) ==
    /\ \A v, j : IsQubit(circuit, v, j) =>
          /\ \E i, k : Use(circuit, v, i, k)
          /\ \A i, k : Use(circuit, v, i, k) =>
                /\ j < i
                /\ circuit.ops[i].gate \in Gates \cup {"measure", "discard"}
                /\ \A l, m : Use(circuit, v, l, m) => l = i /\ m = k
          /\ \/ AllocatedAt(circuit, index, j, place[v]) /\ v = <<circuit.ops[j].id, 1>>
             \/ /\ circuit.ops[j].gate \in Gates /\ v = <<circuit.ops[j].id, v[2]>>
                /\ Use(circuit, circuit.ops[j].operands[v[2]], j, v[2])
                /\ place[circuit.ops[j].operands[v[2]]] = place[v]
    /\ \A v, i, k : Use(circuit, v, i, k) /\ circuit.ops[i].gate # "output" =>
          \E j : IsQubit(circuit, v, j) /\ j < i
    /\ \A i, k, v : Use(circuit, v, i, k) /\ circuit.ops[i].gate \in Gates =>
          /\ IsQubit(circuit, <<circuit.ops[i].id, k>>, i)
          /\ place[<<circuit.ops[i].id, k>>] = place[v]
    /\ \A i : i \in DOMAIN circuit.ops /\ circuit.ops[i].gate \in {"measure", "discard"} =>
          /\ Use(circuit, circuit.ops[i].operands[1], i, 1)
          /\ \A v, k : Use(circuit, v, i, k) => k = 1
          /\ \A v : ~IsQubit(circuit, v, i)
    /\ \A a, b, w : AllocatedAt(circuit, index, a, w) /\ AllocatedAt(circuit, index, b, w) => a = b
    /\ \A a : IsAlloc(circuit, a) =>
          /\ IsQubit(circuit, <<circuit.ops[a].id, 1>>, a)
          /\ place[<<circuit.ops[a].id, 1>>] = index[circuit.ops[a].id]
          /\ circuit.ops[a].gate \notin Gates \cup {"measure", "discard", "output"}

LEMMA RulesHold ==
    ASSUME NEW circuit, NEW index, Numbered(circuit, index)
    PROVE  Rules(circuit, index, Placement(circuit, index))
<1> DEFINE place == Placement(circuit, index)
<1>0. /\ circuit \in Circuit /\ IsCircuit(circuit) /\ CircuitVerifies(circuit) /\ OperandsDefined(circuit)
      /\ DOMAIN circuit.ops = 1..Len(circuit.ops) /\ Len(circuit.ops) \in Nat
  BY CircuitTyped DEF Numbered, IsCircuit, CircuitVerifies
<1>1. ASSUME NEW v, NEW j, IsQubit(circuit, v, j)
      PROVE  /\ j \in DOMAIN circuit.ops /\ v \in Qubits(circuit.ops[j]) /\ v \in Values(circuit.ops[j])
             /\ FollowsWire(circuit, index, place, j, v)
             /\ v = <<circuit.ops[j].id, v[2]>>
             /\ \/ circuit.ops[j].gate = "alloc" /\ v[2] = 1
                \/ circuit.ops[j].gate \in Gates /\ v[2] \in DOMAIN circuit.ops[j].operands
  <2>1. j \in DOMAIN circuit.ops /\ v \in Qubits(circuit.ops[j]) /\ v \in Values(circuit.ops[j])
    BY <1>1 DEF IsQubit, Qubits
  <2> QED
    BY <1>0, <2>1, PlacementIs, QubitsAre
<1> HIDE DEF place
<1>2. ASSUME NEW v, NEW i, NEW k, Use(circuit, v, i, k), circuit.ops[i].gate # "output"
      PROVE  \E j : IsQubit(circuit, v, j) /\ j < i
  <2>1. i \in DOMAIN circuit.ops
    BY <1>2 DEF Use
  <2>2. PICK j \in 1..(i - 1) : v \in Qubits(circuit.ops[j])
    BY <1>0, <1>2, DefinedBefore
  <2>3. j \in DOMAIN circuit.ops /\ j < i
    BY <1>0, <2>1
  <2> QED
    BY <2>2, <2>3 DEF IsQubit
<1>3. ASSUME NEW v, NEW j, IsQubit(circuit, v, j), NEW i, NEW k, Use(circuit, v, i, k)
      PROVE  j < i /\ circuit.ops[i].gate \in Gates \cup {"measure", "discard"}
  <2>1. i \in DOMAIN circuit.ops /\ k \in DOMAIN circuit.ops[i].operands /\ circuit.ops[i] \in Op
    BY <1>0, <1>3, CircuitTyped DEF Use
  <2>2. PICK l \in 1..(i - 1) : /\ v \in Values(circuit.ops[l])
                                /\ circuit.ops[i].gate = "output" => v \notin Qubits(circuit.ops[l])
    BY <1>0, <1>3, DefinedBefore
  <2>3. l \in DOMAIN circuit.ops /\ l < i
    BY <1>0, <2>1
  <2>4. l = j
    BY <1>0, <1>1, <1>3, <2>2, <2>3, ValuesApart
  <2>5. circuit.ops[i].gate # "output"
    BY <1>1, <1>3, <2>2, <2>4
  <2>6. circuit.ops[i].gate \notin {"alloc", "barrier"}
    <3> SUFFICES ASSUME circuit.ops[i].gate \in {"alloc", "barrier"} PROVE FALSE
      OBVIOUS
    <3>1. circuit.ops[i].operands = <<>>
      BY <1>0, <2>1 DEF IsCircuit
    <3> QED
      BY <2>1, <3>1
  <2>7. circuit.ops[i].gate \in Gates \cup Effects
    BY <2>1 DEF Op
  <2> QED
    BY <2>3, <2>4, <2>5, <2>6, <2>7 DEF Effects
<1>4. ASSUME NEW v, NEW j, IsQubit(circuit, v, j)
      PROVE  \E i, k : /\ Use(circuit, v, i, k)
                       /\ \A l, m : Use(circuit, v, l, m) => l = i /\ m = k
  <2>1. HasOneUse(circuit, v)
    BY <1>0, <1>1, <1>4 DEF CircuitVerifies
  <2> QED
    BY <1>0, <2>1, OneUse
<1>5. ASSUME NEW v, NEW j, IsQubit(circuit, v, j)
      PROVE  \/ AllocatedAt(circuit, index, j, place[v]) /\ v = <<circuit.ops[j].id, 1>>
             \/ /\ circuit.ops[j].gate \in Gates /\ v = <<circuit.ops[j].id, v[2]>>
                /\ Use(circuit, circuit.ops[j].operands[v[2]], j, v[2])
                /\ place[circuit.ops[j].operands[v[2]]] = place[v]
  <2>1. CASE circuit.ops[j].gate = "alloc"
    <3>1. v[2] = 1 /\ place[v] = index[circuit.ops[j].id] /\ v = <<circuit.ops[j].id, v[2]>>
      BY <1>1, <1>5, <2>1 DEF FollowsWire, Gates
    <3>2. v = <<circuit.ops[j].id, 1>>
      BY <3>1
    <3> QED
      BY <1>1, <1>5, <2>1, <3>1, <3>2 DEF AllocatedAt, IsAlloc
  <2>2. CASE circuit.ops[j].gate # "alloc"
    BY <1>1, <1>5, <2>2 DEF FollowsWire, Use
  <2> QED
    BY <2>1, <2>2
<1>6. ASSUME NEW v, NEW i, NEW k, Use(circuit, v, i, k), circuit.ops[i].gate \in Gates
      PROVE  IsQubit(circuit, <<circuit.ops[i].id, k>>, i) /\ place[<<circuit.ops[i].id, k>>] = place[v]
  <2> DEFINE r == <<circuit.ops[i].id, k>>
  <2>1. i \in DOMAIN circuit.ops /\ k \in DOMAIN circuit.ops[i].operands /\ circuit.ops[i].operands[k] = v
    BY <1>6 DEF Use
  <2>2. k \in 1..Arity(circuit.ops[i].gate)
    BY <1>0, <1>6, <2>1, CircuitTyped DEF IsCircuit
  <2>3. k \in 1..ResultCount(circuit.ops[i]) /\ circuit.ops[i].gate \notin {"measure", "alloc"}
    BY <1>6, <2>2 DEF ResultCount, Gates
  <2>4. r \in Qubits(circuit.ops[i]) /\ r[2] = k
    BY <2>3 DEF Qubits, Values
  <2>5. IsQubit(circuit, r, i)
    BY <2>1, <2>4 DEF IsQubit
  <2> HIDE DEF r
  <2>6. place[r] = place[v]
    BY <1>1, <2>1, <2>3, <2>4, <2>5 DEF FollowsWire
  <2> QED
    BY <2>5, <2>6 DEF r
<1>7. ASSUME NEW i \in DOMAIN circuit.ops, circuit.ops[i].gate \in {"measure", "discard"}
      PROVE  /\ Use(circuit, circuit.ops[i].operands[1], i, 1)
             /\ \A v, k : Use(circuit, v, i, k) => k = 1
             /\ \A v : ~IsQubit(circuit, v, i)
  <2>1. DOMAIN circuit.ops[i].operands = 1..1
    BY <1>0, <1>7, CircuitTyped DEF IsCircuit
  <2>2. circuit.ops[i].gate \notin Gates \cup {"alloc"}
    BY <1>7 DEF Gates
  <2>3. \A v : ~IsQubit(circuit, v, i)
    BY <1>1, <2>2
  <2> QED
    BY <2>1, <2>3 DEF Use
<1>8. ASSUME NEW a, NEW b, NEW w, AllocatedAt(circuit, index, a, w), AllocatedAt(circuit, index, b, w)
      PROVE  a = b
  <2>1. /\ a \in DOMAIN circuit.ops /\ b \in DOMAIN circuit.ops
        /\ circuit.ops[a].id \in AllocIds(circuit) /\ circuit.ops[b].id \in AllocIds(circuit)
        /\ index[circuit.ops[a].id] = index[circuit.ops[b].id]
    BY <1>0, <1>8, PhysicalIs DEF AllocatedAt, IsAlloc
  <2>2. circuit.ops[a].id = circuit.ops[b].id
    BY <2>1 DEF Numbered
  <2> QED
    BY <1>0, <2>1, <2>2 DEF IsCircuit
<1>9. ASSUME NEW a, IsAlloc(circuit, a)
      PROVE  /\ IsQubit(circuit, <<circuit.ops[a].id, 1>>, a)
             /\ place[<<circuit.ops[a].id, 1>>] = index[circuit.ops[a].id]
             /\ circuit.ops[a].gate \notin Gates \cup {"measure", "discard", "output"}
  <2> DEFINE r == <<circuit.ops[a].id, 1>>
  <2>1. a \in DOMAIN circuit.ops /\ circuit.ops[a].gate = "alloc"
    BY <1>9 DEF IsAlloc
  <2>2. ResultCount(circuit.ops[a]) = 1
    BY <2>1 DEF ResultCount, Gates
  <2>3. r \in Qubits(circuit.ops[a])
    BY <2>1, <2>2 DEF Qubits, Values
  <2>4. IsQubit(circuit, r, a)
    BY <2>1, <2>3 DEF IsQubit
  <2> HIDE DEF r
  <2>5. place[r] = index[circuit.ops[a].id]
    BY <1>1, <2>1, <2>4 DEF FollowsWire
  <2> QED
    BY <2>1, <2>4, <2>5 DEF r, Gates
<1>10. Rules(circuit, index, place)
  BY <1>2, <1>3, <1>4, <1>5, <1>6, <1>7, <1>8, <1>9 DEF Rules
<1> QED
  BY <1>10 DEF place

Linear(circuit, index, place, n) ==
    \* a value is on an allocated wire
    /\ \A v, j : IsQubit(circuit, v, j) /\ j <= n => \E a : a <= n /\ AllocatedAt(circuit, index, a, place[v])
    \* no two on one wire
    /\ \A w, u, v : Holds(circuit, place, n, w, u) /\ Holds(circuit, place, n, w, v) => u = v
    \* an allocated wire has one, or has come to its end
    /\ \A a, w : AllocatedAt(circuit, index, a, w) /\ a <= n =>
          \/ \E v : Holds(circuit, place, n, w, v)
          \/ \E e : EndsAt(circuit, place, e, w) /\ e <= n
    \* after the end there is none
    /\ \A e, w, v : EndsAt(circuit, place, e, w) /\ e <= n => ~Holds(circuit, place, n, w, v)

LEMMA LinearStep ==
    ASSUME NEW circuit, NEW index, NEW place, Rules(circuit, index, place),
           DOMAIN circuit.ops \subseteq Nat,
           NEW n \in Nat, n + 1 \in DOMAIN circuit.ops, Linear(circuit, index, place, n)
    PROVE  Linear(circuit, index, place, n + 1)
<1> DEFINE p == n + 1
           op == circuit.ops[p]
\* Positions are numbers.
<1>n. /\ \A v, i, k : Use(circuit, v, i, k) => i \in Nat
      /\ \A v, j : IsQubit(circuit, v, j) => j \in Nat
      /\ \A a, w : AllocatedAt(circuit, index, a, w) => a \in Nat
      /\ \A e, w : EndsAt(circuit, place, e, w) => e \in Nat
      /\ p \in Nat /\ ~(p <= n) /\ \A i \in Nat : (i <= p <=> i <= n \/ i = p) /\ (i > n <=> i = p \/ i > p)
  BY DEF Use, IsQubit, AllocatedAt, IsAlloc, EndsAt
<1>q. ASSUME NEW v, NEW j, IsQubit(circuit, v, j)
      PROVE  /\ \E i, k : Use(circuit, v, i, k)
             /\ \A i, k : Use(circuit, v, i, k) =>
                   /\ j < i
                   /\ circuit.ops[i].gate \in Gates \cup {"measure", "discard"}
                   /\ \A l, m : Use(circuit, v, l, m) => l = i /\ m = k
             /\ \/ AllocatedAt(circuit, index, j, place[v]) /\ v = <<circuit.ops[j].id, 1>>
                \/ /\ circuit.ops[j].gate \in Gates /\ v = <<circuit.ops[j].id, v[2]>>
                   /\ Use(circuit, circuit.ops[j].operands[v[2]], j, v[2])
                   /\ place[circuit.ops[j].operands[v[2]]] = place[v]
  BY <1>q DEF Rules
<1>u. ASSUME NEW v, NEW i, NEW k, Use(circuit, v, i, k), circuit.ops[i].gate # "output"
      PROVE  \E j : IsQubit(circuit, v, j) /\ j < i
  BY <1>u DEF Rules
<1>g. ASSUME NEW v, NEW i, NEW k, Use(circuit, v, i, k), circuit.ops[i].gate \in Gates
      PROVE  IsQubit(circuit, <<circuit.ops[i].id, k>>, i) /\ place[<<circuit.ops[i].id, k>>] = place[v]
  BY <1>g DEF Rules
<1>e. ASSUME NEW e, NEW w, EndsAt(circuit, place, e, w)
      PROVE  /\ Use(circuit, circuit.ops[e].operands[1], e, 1)
             /\ place[circuit.ops[e].operands[1]] = w
             /\ circuit.ops[e].gate \notin Gates \cup {"output"}
             /\ \A v : ~IsQubit(circuit, v, e)
  BY <1>e DEF Rules, EndsAt, Gates
<1>a. \A a, b, w : AllocatedAt(circuit, index, a, w) /\ AllocatedAt(circuit, index, b, w) => a = b
  BY DEF Rules
<1>s. \A a : IsAlloc(circuit, a) =>
          /\ IsQubit(circuit, <<circuit.ops[a].id, 1>>, a)
          /\ place[<<circuit.ops[a].id, 1>>] = index[circuit.ops[a].id]
  BY DEF Rules
<1>o. \A i : circuit.ops[i].gate \in Gates => circuit.ops[i].gate # "output"
  BY DEF Gates
<1>A. ASSUME NEW v, NEW j, IsQubit(circuit, v, j), j <= n
      PROVE  \E a : a <= n /\ AllocatedAt(circuit, index, a, place[v])
  BY <1>A DEF Linear
<1>U. ASSUME NEW w, NEW u, NEW v, Holds(circuit, place, n, w, u), Holds(circuit, place, n, w, v)
      PROVE  u = v
  BY <1>U DEF Linear
<1>E. ASSUME NEW a, NEW w, AllocatedAt(circuit, index, a, w), a <= n
      PROVE  \/ \E v : Holds(circuit, place, n, w, v)
             \/ \E e : EndsAt(circuit, place, e, w) /\ e <= n
  BY <1>E DEF Linear
<1>D. ASSUME NEW e, NEW w, NEW v, EndsAt(circuit, place, e, w), e <= n, Holds(circuit, place, n, w, v)
      PROVE  FALSE
  BY <1>D DEF Linear
<1> HIDE DEF p, op
\* What holds afterwards held before, or was made by the operation.
<1>1. ASSUME NEW w, NEW v, Holds(circuit, place, p, w, v)
      PROVE  Holds(circuit, place, n, w, v) \/ IsQubit(circuit, v, p)
  <2>1. /\ place[v] = w
        /\ \E i, k : Use(circuit, v, i, k) /\ i > n
    BY <1>1, <1>n DEF Holds
  <2>2. \E j : IsQubit(circuit, v, j) /\ (j <= n \/ j = p)
    BY <1>1, <1>n DEF Holds
  <2> QED
    BY <2>1, <2>2 DEF Holds
\* An operand of the operation was held before it.
<1>2. ASSUME NEW v, NEW k, Use(circuit, v, p, k), circuit.ops[p].gate # "output"
      PROVE  Holds(circuit, place, n, place[v], v)
  <2>1. PICK j : IsQubit(circuit, v, j) /\ j < p
    BY <1>2, <1>u
  <2>2. j <= n
    BY <2>1, <1>n
  <2>3. p > n
    BY <1>n
  <2> QED
    BY <1>2, <2>1, <2>2, <2>3 DEF Holds
\* And is not afterwards.
<1>3. ASSUME NEW v, NEW k, NEW w, Use(circuit, v, p, k), Holds(circuit, place, p, w, v)
      PROVE  FALSE
  <2>1. PICK i, l : Use(circuit, v, i, l) /\ i > p
    BY <1>3 DEF Holds
  <2>2. PICK j : IsQubit(circuit, v, j)
    BY <1>3 DEF Holds
  <2>3. i = p
    BY <1>3, <1>q, <2>1, <2>2
  <2> QED
    BY <2>1, <2>3, <1>n
\* What the operation makes is new on its wire: the wire was not allocated
\* before, or the operation takes what it held.
<1>4. ASSUME NEW v, IsQubit(circuit, v, p), NEW u, Holds(circuit, place, n, place[v], u)
      PROVE  /\ circuit.ops[p].gate \in Gates
             /\ v = <<circuit.ops[p].id, v[2]>>
             /\ Use(circuit, u, p, v[2])
  <2>1. CASE AllocatedAt(circuit, index, p, place[v])
    <3>1. PICK j : IsQubit(circuit, u, j) /\ j <= n /\ place[u] = place[v]
      BY <1>4 DEF Holds
    <3>2. PICK a : a <= n /\ AllocatedAt(circuit, index, a, place[u])
      BY <1>A, <3>1
    <3>3. a = p
      BY <1>a, <2>1, <3>1, <3>2
    <3> QED
      BY <3>2, <3>3, <1>n
  <2>2. CASE ~AllocatedAt(circuit, index, p, place[v])
    <3> DEFINE o == circuit.ops[p].operands[v[2]]
    <3>1. /\ circuit.ops[p].gate \in Gates /\ v = <<circuit.ops[p].id, v[2]>>
          /\ Use(circuit, o, p, v[2]) /\ place[o] = place[v]
      BY <1>4, <1>q, <2>2
    <3> HIDE DEF o
    <3>2. Holds(circuit, place, n, place[v], o)
      BY <1>2, <1>o, <3>1
    <3>3. o = u
      BY <1>4, <1>U, <3>2
    <3> QED
      BY <3>1, <3>3
  <2> QED
    BY <2>1, <2>2
<1>5. ASSUME NEW v, NEW j, IsQubit(circuit, v, j), j <= p
      PROVE  \E a : a <= p /\ AllocatedAt(circuit, index, a, place[v])
  <2>1. CASE j <= n
    <3>1. PICK a : a <= n /\ AllocatedAt(circuit, index, a, place[v])
      BY <1>5, <1>A, <2>1
    <3> QED
      BY <1>n, <3>1
  <2>2. CASE j = p /\ AllocatedAt(circuit, index, p, place[v])
    BY <1>n, <2>2
  <2>3. CASE j = p /\ ~AllocatedAt(circuit, index, p, place[v])
    <3> DEFINE o == circuit.ops[p].operands[v[2]]
    <3>1. Use(circuit, o, p, v[2]) /\ place[o] = place[v] /\ circuit.ops[p].gate \in Gates
      BY <1>5, <1>q, <2>3
    <3> HIDE DEF o
    <3>2. PICK l : IsQubit(circuit, o, l) /\ l < p
      BY <1>o, <1>u, <3>1
    <3>3. l <= n
      BY <1>n, <3>2
    <3>4. PICK a : a <= n /\ AllocatedAt(circuit, index, a, place[v])
      BY <1>A, <3>1, <3>2, <3>3
    <3> QED
      BY <1>n, <3>4
  <2> QED
    BY <1>5, <1>n, <2>1, <2>2, <2>3
<1>6. ASSUME NEW w, NEW u, NEW v, Holds(circuit, place, p, w, u), Holds(circuit, place, p, w, v)
      PROVE  u = v
  <2>0. place[u] = w /\ place[v] = w
    BY <1>6 DEF Holds
  <2>1. CASE Holds(circuit, place, n, w, u) /\ Holds(circuit, place, n, w, v)
    BY <1>U, <2>1
  <2>2. CASE Holds(circuit, place, n, w, u) /\ IsQubit(circuit, v, p)
    <3>1. Use(circuit, u, p, v[2])
      BY <1>4, <2>0, <2>2
    <3> QED
      BY <1>3, <1>6, <3>1
  <2>3. CASE Holds(circuit, place, n, w, v) /\ IsQubit(circuit, u, p)
    <3>1. Use(circuit, v, p, u[2])
      BY <1>4, <2>0, <2>3
    <3> QED
      BY <1>3, <1>6, <3>1
  <2>4. CASE IsQubit(circuit, u, p) /\ IsQubit(circuit, v, p)
    <3>1. CASE AllocatedAt(circuit, index, p, w)
      <4>1. \A x : IsQubit(circuit, x, p) => x = <<circuit.ops[p].id, 1>>
        <5> TAKE x
        <5> HAVE IsQubit(circuit, x, p)
        <5>1. circuit.ops[p].gate \notin Gates
          BY <3>1 DEF AllocatedAt, Rules
        <5> QED
          BY <1>q, <5>1
      <4> QED
        BY <2>4, <4>1
    <3>2. CASE ~AllocatedAt(circuit, index, p, w)
      <4> DEFINE o == circuit.ops[p].operands[v[2]]
      <4>1. Use(circuit, o, p, v[2]) /\ place[o] = w /\ circuit.ops[p].gate \in Gates
            /\ v = <<circuit.ops[p].id, v[2]>>
        BY <1>q, <2>0, <2>4, <3>2
      <4> HIDE DEF o
      <4>2. Holds(circuit, place, n, w, o)
        BY <1>2, <1>o, <4>1
      <4>3. Use(circuit, o, p, u[2]) /\ u = <<circuit.ops[p].id, u[2]>>
        BY <1>4, <2>0, <2>4, <4>2
      <4>4. PICK j : IsQubit(circuit, o, j)
        BY <4>2 DEF Holds
      <4>5. u[2] = v[2]
        BY <1>q, <4>1, <4>3, <4>4
      <4> QED
        BY <4>1, <4>3, <4>5
    <3> QED
      BY <3>1, <3>2
  <2> QED
    BY <1>1, <1>6, <2>1, <2>2, <2>3, <2>4
<1>7. ASSUME NEW a, NEW w, AllocatedAt(circuit, index, a, w), a <= p
      PROVE  \/ \E v : Holds(circuit, place, p, w, v)
             \/ \E e : EndsAt(circuit, place, e, w) /\ e <= p
  <2>1. CASE a = p
    <3> DEFINE v == <<circuit.ops[a].id, 1>>
    <3>1. IsQubit(circuit, v, p) /\ place[v] = w
      BY <1>7, <1>s, <2>1 DEF AllocatedAt
    <3> HIDE DEF v
    <3>2. PICK i, k : Use(circuit, v, i, k) /\ p < i
      BY <1>q, <3>1
    <3>3. i > p /\ p <= p
      BY <3>2, <1>n
    <3>4. Holds(circuit, place, p, w, v)
      BY <3>1, <3>2, <3>3 DEF Holds
    <3> QED
      BY <3>4
  <2>2. CASE \E e : EndsAt(circuit, place, e, w) /\ e <= n
    BY <1>n, <2>2
  <2>3. ASSUME NEW u, Holds(circuit, place, n, w, u)
        PROVE  \/ \E v : Holds(circuit, place, p, w, v)
               \/ \E e : EndsAt(circuit, place, e, w) /\ e <= p
    <3>1. PICK j : IsQubit(circuit, u, j) /\ j <= n /\ place[u] = w
      BY <2>3 DEF Holds
    <3>2. PICK i, k : Use(circuit, u, i, k) /\ i > n
      BY <2>3 DEF Holds
    <3>3. CASE i > p
      <4>1. j <= p
        BY <1>n, <3>1
      <4>2. Holds(circuit, place, p, w, u)
        BY <3>1, <3>2, <3>3, <4>1 DEF Holds
      <4> QED
        BY <4>2
    <3>4. CASE i = p /\ circuit.ops[p].gate \in Gates
      <4> DEFINE r == <<circuit.ops[p].id, k>>
      <4>1. IsQubit(circuit, r, p) /\ place[r] = w
        BY <1>g, <3>1, <3>2, <3>4
      <4> HIDE DEF r
      <4>2. PICK l, m : Use(circuit, r, l, m) /\ p < l
        BY <1>q, <4>1
      <4>3. l > p /\ p <= p
        BY <4>2, <1>n
      <4>4. Holds(circuit, place, p, w, r)
        BY <4>1, <4>2, <4>3 DEF Holds
      <4> QED
        BY <4>4
    <3>5. CASE i = p /\ circuit.ops[p].gate \notin Gates
      <4>1. circuit.ops[p].gate \in {"measure", "discard"}
        BY <1>q, <3>1, <3>2, <3>5
      <4>2. p \in DOMAIN circuit.ops /\ k \in DOMAIN circuit.ops[p].operands /\ circuit.ops[p].operands[k] = u
        BY <3>2, <3>5 DEF Use
      <4>3. k = 1
        BY <3>2, <3>5, <4>1, <4>2 DEF Rules
      <4>4. EndsAt(circuit, place, p, w) /\ p <= p
        BY <1>n, <3>1, <4>1, <4>2, <4>3 DEF EndsAt
      <4> QED
        BY <4>4
    <3> QED
      BY <1>n, <3>2, <3>3, <3>4, <3>5
  <2>4. CASE a <= n
    BY <1>7, <1>E, <2>2, <2>3, <2>4
  <2> QED
    BY <1>7, <1>n, <2>1, <2>4
<1>8. ASSUME NEW e, NEW w, NEW v, EndsAt(circuit, place, e, w), e <= p, Holds(circuit, place, p, w, v)
      PROVE  FALSE
  <2> DEFINE o == circuit.ops[e].operands[1]
  <2>0. Use(circuit, o, e, 1) /\ place[o] = w /\ circuit.ops[e].gate # "output" /\ place[v] = w
    BY <1>8, <1>e DEF Holds
  <2> HIDE DEF o
  <2>1. CASE e = p
    <3>1. Holds(circuit, place, n, w, o)
      BY <1>2, <2>0, <2>1
    <3>2. ~IsQubit(circuit, v, p)
      BY <1>8, <1>e, <2>1
    <3>3. o = v
      BY <1>1, <1>8, <1>U, <3>1, <3>2
    <3> QED
      BY <1>3, <1>8, <2>0, <2>1, <3>3
  <2>2. CASE e <= n
    <3>1. ~Holds(circuit, place, n, w, v)
      BY <1>8, <1>D, <2>2
    <3>2. IsQubit(circuit, v, p)
      BY <1>1, <1>8, <3>1
    <3>3. ~AllocatedAt(circuit, index, p, w)
      <4>1. PICK j : IsQubit(circuit, o, j) /\ j < e
        BY <1>u, <2>0
      <4>2. j <= n
        BY <1>8, <1>n, <2>2, <4>1
      <4>3. PICK a : a <= n /\ AllocatedAt(circuit, index, a, w)
        BY <1>A, <2>0, <4>1, <4>2
      <4> QED
        BY <1>a, <1>n, <4>3
    <3> DEFINE x == circuit.ops[p].operands[v[2]]
    <3>4. Use(circuit, x, p, v[2]) /\ place[x] = w /\ circuit.ops[p].gate \in Gates
      BY <1>q, <2>0, <3>2, <3>3
    <3> HIDE DEF x
    <3>5. Holds(circuit, place, n, w, x)
      BY <1>2, <1>o, <3>4
    <3> QED
      BY <1>8, <1>D, <2>2, <3>5
  <2> QED
    BY <1>8, <1>n, <2>1, <2>2
<1>9. Linear(circuit, index, place, p)
  BY <1>5, <1>6, <1>7, <1>8 DEF Linear
<1> QED
  BY <1>9 DEF p

LEMMA AlwaysLinear ==
    ASSUME NEW circuit, NEW index, Numbered(circuit, index), NEW n \in 0..Len(circuit.ops)
    PROVE  Linear(circuit, index, Placement(circuit, index), n)
<1> DEFINE place == Placement(circuit, index)
           N == Len(circuit.ops)
           S == {k \in Nat : k <= N => Linear(circuit, index, place, k)}
<1>0. DOMAIN circuit.ops = 1..N /\ N \in Nat /\ Rules(circuit, index, place)
  BY RulesHold, CircuitTyped DEF Numbered, IsCircuit
<1> HIDE DEF place, N
<1>1. 0 \in S
  <2>1. \A i \in DOMAIN circuit.ops : ~(i <= 0)
    BY <1>0
  <2>2. Linear(circuit, index, place, 0)
    BY <2>1 DEF Linear, Holds, IsQubit, AllocatedAt, IsAlloc, EndsAt
  <2> QED
    BY <2>2
<1>2. ASSUME NEW k \in Nat, k \in S
      PROVE  k + 1 \in S
  <2> SUFFICES ASSUME k + 1 <= N
               PROVE  Linear(circuit, index, place, k + 1)
    OBVIOUS
  <2>1. Linear(circuit, index, place, k)
    BY <1>0, <1>2
  <2>2. k + 1 \in DOMAIN circuit.ops /\ DOMAIN circuit.ops \subseteq Nat
    BY <1>0
  <2> QED
    BY <1>0, <2>1, <2>2, LinearStep
<1> HIDE DEF S
<1>3. n \in S
  BY <1>0, <1>1, <1>2, Induct DEF N
<1> QED
  BY <1>3 DEF S, N, place

\* What an operation does on a wire.
OnWires(circuit, place, i, event) ==
    /\ event.gate = circuit.ops[i].gate
    /\ circuit.ops[i].gate = "alloc" => event.qubits = <<place[<<circuit.ops[i].id, 1>>]>>
    /\ circuit.ops[i].gate = "barrier" => event.qubits = circuit.ops[i].qubits
    /\ circuit.ops[i].gate = "output" => event.qubits = <<>>
    /\ circuit.ops[i].gate \in Gates \cup {"measure", "discard"} =>
          event.qubits = [k \in DOMAIN circuit.ops[i].operands |-> place[circuit.ops[i].operands[k]]]
    /\ \A w : UsesWire(event, w) <=>
          \/ circuit.ops[i].gate = "alloc" /\ place[<<circuit.ops[i].id, 1>>] = w
          \/ /\ circuit.ops[i].gate \in Gates \cup {"measure", "discard"}
             /\ \E v, k : Use(circuit, v, i, k) /\ place[v] = w

LEMMA TraceOnWires ==
    ASSUME NEW circuit, IsCircuit(circuit), NEW index, NEW i \in DOMAIN circuit.ops
    PROVE  OnWires(circuit, Placement(circuit, index), i, TraceUnder(circuit, index)[i])
<1> DEFINE place == Placement(circuit, index)
           op == circuit.ops[i]
           event == TraceUnder(circuit, index)[i]
<1> SUFFICES OnWires(circuit, place, i, event)
  OBVIOUS
<1>0. op \in Op /\ op.gate \in Gates \cup Effects
  BY CircuitTyped DEF IsCircuit, Op
<1>1. event = EventUnder(op, place)
  BY DEF TraceUnder
<1> HIDE DEF place, event
<1>2. event.gate = op.gate /\ event.qubits = WiresUnder(op, place)
  BY <1>1 DEF EventUnder
<1>3. CASE op.gate = "alloc"
  <2>1. event.qubits = <<place[<<op.id, 1>>]>>
    BY <1>2, <1>3 DEF WiresUnder
  <2>2. WiresOf(event) = {place[<<op.id, 1>>]}
    BY <2>1 DEF WiresOf
  <2> QED
    BY <1>2, <1>3, <2>1, <2>2 DEF UsesWire, Gates, OnWires
<1>4. CASE op.gate = "barrier"
  <2>1. event.qubits = op.qubits
    BY <1>2, <1>4 DEF WiresUnder
  <2> QED
    BY <1>2, <1>4, <2>1 DEF UsesWire, Gates, OnWires
<1>5. CASE op.gate = "output"
  <2>1. event.qubits = <<>>
    BY <1>2, <1>5 DEF WiresUnder
  <2>2. WiresOf(event) = {}
    BY <2>1 DEF WiresOf
  <2> QED
    BY <1>2, <1>5, <2>1, <2>2 DEF UsesWire, Gates, OnWires
<1>6. CASE op.gate \in Gates \cup {"measure", "discard"}
  <2>0. op.gate \notin {"alloc", "barrier", "output"}
    BY <1>6 DEF Gates
  <2>1. event.qubits = [k \in DOMAIN op.operands |-> place[op.operands[k]]]
    BY <1>2, <2>0 DEF WiresUnder
  <2>2. \A w : w \in WiresOf(event) <=> \E k \in DOMAIN op.operands : place[op.operands[k]] = w
    BY <2>1 DEF WiresOf
  <2>3. \A w : w \in WiresOf(event) <=> \E v, k : Use(circuit, v, i, k) /\ place[v] = w
    BY <2>2 DEF Use
  <2>4. \A w : UsesWire(event, w) <=> w \in WiresOf(event)
    BY <1>2, <2>0 DEF UsesWire
  <2> QED
    BY <1>2, <1>6, <2>0, <2>1, <2>3, <2>4 DEF OnWires
<1> QED
  BY <1>0, <1>3, <1>4, <1>5, <1>6 DEF Effects

LEMMA LifetimesOfVerified ==
    ASSUME NEW circuit, NEW index, Numbered(circuit, index)
    PROVE  WithinLifetimes(TraceUnder(circuit, index))
<1> DEFINE place == Placement(circuit, index)
           trace == TraceUnder(circuit, index)
           N == Len(circuit.ops)
<1>0. /\ DOMAIN circuit.ops = 1..N /\ N \in Nat /\ IsCircuit(circuit) /\ Rules(circuit, index, place)
      /\ DOMAIN trace = 1..N
  BY RulesHold, CircuitTyped DEF Numbered, IsCircuit, TraceUnder
<1>1. ASSUME NEW i \in 1..N, NEW w
      PROVE  /\ trace[i].gate = circuit.ops[i].gate
             /\ UsesWire(trace[i], w) <=>
                     \/ circuit.ops[i].gate = "alloc" /\ place[<<circuit.ops[i].id, 1>>] = w
                     \/ /\ circuit.ops[i].gate \in Gates \cup {"measure", "discard"}
                        /\ \E v, k : Use(circuit, v, i, k) /\ place[v] = w
  <2>1. OnWires(circuit, place, i, trace[i])
    BY <1>0, TraceOnWires
  <2> QED
    BY <2>1 DEF OnWires
<1>2. \A n \in 0..N : Linear(circuit, index, place, n)
  BY AlwaysLinear
<1> HIDE DEF place, trace, N
<1> SUFFICES ASSUME NEW i \in 1..N, NEW w, UsesWire(trace[i], w), trace[i].gate # "alloc"
             PROVE  Live(trace, w, i)
  BY <1>0 DEF WithinLifetimes, trace
<1>3. PICK v, k : /\ Use(circuit, v, i, k) /\ place[v] = w
                  /\ circuit.ops[i].gate \in Gates \cup {"measure", "discard"}
  BY <1>1
<1>4. PICK j : IsQubit(circuit, v, j) /\ j < i
  BY <1>0, <1>3 DEF Rules, Gates
<1>5. j \in 1..N /\ j \in 1..(i - 1)
  BY <1>0, <1>4 DEF IsQubit
<1>6. UsesWire(trace[j], w) /\ trace[j].gate \notin {"measure", "discard"}
  <2>1. CASE AllocatedAt(circuit, index, j, place[v])
    <3>1. circuit.ops[j].gate = "alloc" /\ place[<<circuit.ops[j].id, 1>>] = w
      BY <1>0, <1>3, <2>1 DEF Rules, AllocatedAt, IsAlloc
    <3> QED
      BY <1>1, <1>5, <3>1
  <2>2. CASE ~AllocatedAt(circuit, index, j, place[v])
    <3>1. /\ circuit.ops[j].gate \in Gates
          /\ Use(circuit, circuit.ops[j].operands[v[2]], j, v[2])
          /\ place[circuit.ops[j].operands[v[2]]] = place[v]
      BY <1>0, <1>4, <2>2 DEF Rules
    <3>2. UsesWire(trace[j], w)
      BY <1>1, <1>3, <1>5, <3>1
    <3>3. circuit.ops[j].gate \notin {"measure", "discard"}
      BY <3>1 DEF Gates
    <3> QED
      BY <1>1, <1>5, <3>2, <3>3
  <2> QED
    BY <2>1, <2>2
<1>7. ASSUME NEW l \in (j + 1)..(i - 1), UsesWire(trace[l], w)
      PROVE  FALSE
  <2> DEFINE n == l - 1
  <2>1. l \in 1..N /\ n \in 0..N /\ j <= n /\ l > n /\ i > n /\ l < i
        /\ \A m \in 1..N : m <= n <=> m < l
    BY <1>0, <1>5
  <2> HIDE DEF n
  <2>2. Holds(circuit, place, n, w, v)
    BY <1>3, <1>4, <2>1 DEF Holds
  <2>3. CASE circuit.ops[l].gate = "alloc" /\ place[<<circuit.ops[l].id, 1>>] = w
    <3>1. PICK a : a <= n /\ AllocatedAt(circuit, index, a, w)
      BY <1>2, <1>3, <1>4, <2>1 DEF Linear
    <3>2. AllocatedAt(circuit, index, l, w)
      BY <1>0, <2>1, <2>3 DEF Rules, AllocatedAt, IsAlloc
    <3>3. a = l
      BY <1>0, <3>1, <3>2 DEF Rules
    <3> QED
      BY <2>1, <3>1, <3>3
  <2>4. ASSUME NEW u, NEW m, Use(circuit, u, l, m), place[u] = w,
               circuit.ops[l].gate \in Gates \cup {"measure", "discard"}
        PROVE  FALSE
    <3>1. PICK x : IsQubit(circuit, u, x) /\ x < l
      BY <1>0, <2>4 DEF Rules, Gates
    <3>2. x <= n
      BY <1>0, <2>1, <3>1 DEF IsQubit
    <3>3. Holds(circuit, place, n, w, u)
      BY <2>1, <2>4, <3>1, <3>2 DEF Holds
    <3>4. u = v
      BY <1>2, <2>1, <2>2, <3>3 DEF Linear
    <3>5. l = i
      BY <1>0, <1>3, <1>4, <2>4, <3>4 DEF Rules
    <3> QED
      BY <2>1, <3>5
  <2> QED
    BY <1>1, <1>7, <2>1, <2>3, <2>4
<1> QED
  BY <1>5, <1>6, <1>7 DEF Live

\* Every allocated wire ends, once.
LEMMA EndsOfVerified ==
    ASSUME NEW circuit, NEW index, Numbered(circuit, index), NEW id \in AllocIds(circuit)
    PROVE  Cardinality({i \in DOMAIN TraceUnder(circuit, index) :
                          /\ TraceUnder(circuit, index)[i].gate \in {"measure", "discard"}
                          /\ TraceUnder(circuit, index)[i].qubits = <<index[id]>>}) = 1
<1> DEFINE place == Placement(circuit, index)
           trace == TraceUnder(circuit, index)
           N == Len(circuit.ops)
           w == index[id]
           ends == {i \in DOMAIN trace : /\ trace[i].gate \in {"measure", "discard"}
                                         /\ trace[i].qubits = <<w>>}
<1>0. /\ DOMAIN circuit.ops = 1..N /\ N \in Nat /\ IsCircuit(circuit) /\ circuit \in Circuit
      /\ Rules(circuit, index, place) /\ DOMAIN trace = 1..N
  BY RulesHold, CircuitTyped DEF Numbered, IsCircuit, TraceUnder
<1>1. \A n \in 0..N : Linear(circuit, index, place, n)
  BY AlwaysLinear
<1>2. ASSUME NEW i \in 1..N
      PROVE  i \in ends <=> EndsAt(circuit, place, i, w)
  <2>0. OnWires(circuit, place, i, trace[i])
    BY <1>0, TraceOnWires
  <2>1. trace[i].gate = circuit.ops[i].gate
    BY <2>0 DEF OnWires
  <2>2. ASSUME circuit.ops[i].gate \in {"measure", "discard"}
        PROVE  trace[i].qubits = <<w>> <=> place[circuit.ops[i].operands[1]] = w
    <3>1. trace[i].qubits = [k \in DOMAIN circuit.ops[i].operands |-> place[circuit.ops[i].operands[k]]]
      BY <2>0, <2>2 DEF OnWires
    <3>2. DOMAIN circuit.ops[i].operands = 1..1
      <4>1. IsCircuit(circuit) /\ Len(circuit.ops[i].operands) = 1
        BY <1>0, <2>2 DEF IsCircuit
      <4> QED
        BY <2>2, <4>1, CircuitTyped DEF IsCircuit
    <3> HIDE DEF place, trace, w
    <3>3. trace[i].qubits = <<place[circuit.ops[i].operands[1]]>>
      BY <3>1, <3>2
    <3> QED
      BY <3>3
  <2> HIDE DEF place, trace, w
  <2> QED
    BY <1>0, <2>1, <2>2 DEF EndsAt
<1>3. PICK a \in 1..N : AllocatedAt(circuit, index, a, w)
  <2>1. PICK a \in DOMAIN circuit.ops : circuit.ops[a].gate = "alloc" /\ circuit.ops[a].id = id
    BY DEF AllocIds, ToSet
  <2> QED
    BY <1>0, <2>1 DEF AllocatedAt, IsAlloc
<1> HIDE DEF place, N, w
<1>4. PICK e \in 1..N : EndsAt(circuit, place, e, w)
  <2>1. N \in 0..N /\ a <= N
    BY <1>0
  <2>2. \/ \E v : Holds(circuit, place, N, w, v)
        \/ \E e : EndsAt(circuit, place, e, w)
    BY <1>1, <1>3, <2>1 DEF Linear
  <2>3. \A v : ~Holds(circuit, place, N, w, v)
    <3>1. \A v, i, k : Use(circuit, v, i, k) => ~(i > N)
      BY <1>0 DEF Use
    <3> QED
      BY <3>1 DEF Holds
  <2> QED
    BY <1>0, <2>2, <2>3 DEF EndsAt
<1>5. ASSUME NEW f \in 1..N, NEW g \in 1..N, EndsAt(circuit, place, f, w), EndsAt(circuit, place, g, w), f < g
      PROVE  FALSE
  <2> DEFINE n == g - 1
             o == circuit.ops[g].operands[1]
  <2>1. n \in 0..N /\ f <= n /\ g > n /\ \A m \in 1..N : m <= n <=> m < g
    BY <1>0, <1>5
  <2>2. Use(circuit, o, g, 1) /\ place[o] = w /\ circuit.ops[g].gate # "output"
    BY <1>0, <1>5 DEF EndsAt, Rules
  <2> HIDE DEF n, o
  <2>3. PICK j : IsQubit(circuit, o, j) /\ j < g
    BY <1>0, <2>2 DEF Rules
  <2>4. j <= n
    BY <1>0, <2>1, <2>3 DEF IsQubit
  <2>5. Holds(circuit, place, n, w, o)
    BY <2>1, <2>2, <2>3, <2>4 DEF Holds
  <2> QED
    BY <1>1, <1>5, <2>1, <2>5 DEF Linear
<1>6. \A f \in 1..N : EndsAt(circuit, place, f, w) => f = e
  BY <1>0, <1>4, <1>5
<1>7. ends = {e}
  <2>1. ends \subseteq 1..N
    BY <1>0
  <2> HIDE DEF ends
  <2> QED
    BY <1>2, <1>4, <1>6, <2>1
<1>8. Cardinality(ends) = 1
  BY <1>7, FS_Singleton
<1> QED
  BY <1>8 DEF w

-----------------------------------------------------------------------------
(***************************************************************************)
(* The orders moves reach are permutations, and keep the order of what the  *)
(* rules do not let pass each other.                                        *)
(***************************************************************************)
Moved(trace, orders) ==
    UNION {{o} \cup {Rotate(o, m) : m \in LegalMoves(Rearranged(trace, o))} : o \in orders}

IsReach(trace, n, reach) ==
    reach = [k \in 0..n |-> IF k = 0 THEN {[i \in DOMAIN trace |-> i]} ELSE Moved(trace, reach[k - 1])]

LEMMA ReachExists ==
    ASSUME NEW trace, NEW n \in Nat
    PROVE  \E reach : IsReach(trace, n, reach)
<1> DEFINE S == {k \in Nat : \E reach : IsReach(trace, k, reach)}
           unmoved == {[i \in DOMAIN trace |-> i]}
<1> HIDE DEF unmoved
<1>u. \A k, reach : IsReach(trace, k, reach) <=>
          reach = [j \in 0..k |-> IF j = 0 THEN unmoved ELSE Moved(trace, reach[j - 1])]
  BY DEF IsReach, unmoved
<1>1. 0 \in S
  <2> DEFINE reach == [k \in 0..0 |-> unmoved]
  <2>1. \A j \in 0..0 : j = 0 /\ reach[j] = unmoved
    OBVIOUS
  <2>2. reach = [j \in 0..0 |-> reach[j]]
    OBVIOUS
  <2> HIDE DEF reach
  <2>3. reach = [j \in 0..0 |-> IF j = 0 THEN unmoved ELSE Moved(trace, reach[j - 1])]
    BY <2>1, <2>2
  <2> QED
    BY <1>u, <2>3
<1>2. ASSUME NEW k \in Nat, k \in S
      PROVE  k + 1 \in S
  <2>1. PICK shorter : IsReach(trace, k, shorter)
    BY <1>2
  <2> DEFINE reach == [j \in 0..(k + 1) |-> IF j = k + 1 THEN Moved(trace, shorter[k]) ELSE shorter[j]]
  <2>2. \A j \in 0..k : shorter[j] = IF j = 0 THEN unmoved ELSE Moved(trace, shorter[j - 1])
    BY <1>u, <2>1
  <2>3. \A j \in 0..(k + 1) : reach[j] = IF j = 0 THEN unmoved ELSE Moved(trace, reach[j - 1])
    <3> TAKE j \in 0..(k + 1)
    <3>1. CASE j = k + 1
      BY <3>1
    <3>2. CASE j # k + 1
      <4>1. j \in 0..k /\ (j # 0 => j - 1 \in 0..k /\ j - 1 # k + 1)
        BY <3>2
      <4> QED
        BY <2>2, <4>1
    <3> QED
      BY <3>1, <3>2
  <2>4. reach = [j \in 0..(k + 1) |-> reach[j]]
    OBVIOUS
  <2> HIDE DEF reach
  <2>5. IsReach(trace, k + 1, reach)
    BY <1>u, <2>3, <2>4
  <2> QED
    BY <2>5
<1> HIDE DEF S
<1>3. n \in S
  BY <1>1, <1>2, Induct
<1> QED
  BY <1>3 DEF S

Keeping(trace, order, n) == IsPermutationOf(order, n) /\ KeepsOrder(trace, order, FALSE)

LEMMA MovedKeeps ==
    ASSUME NEW trace, NEW n \in Nat, NEW orders, \A o \in orders : Keeping(trace, o, n),
           NEW new \in Moved(trace, orders)
    PROVE  Keeping(trace, new, n)
<1>1. PICK o \in orders : new \in {o} \cup {Rotate(o, m) : m \in LegalMoves(Rearranged(trace, o))}
  BY DEF Moved
<1>2. /\ o \in [1..n -> 1..n] /\ \A i, j \in 1..n : o[i] = o[j] => i = j
      /\ KeepsOrder(trace, o, FALSE)
  BY DEF Keeping, IsPermutationOf
<1>3. CASE new = o
  BY <1>3
<1>4. ASSUME NEW m \in LegalMoves(Rearranged(trace, o)), new = Rotate(o, m)
      PROVE  Keeping(trace, new, n)
  <2>1. DOMAIN Rearranged(trace, o) = 1..n
    BY <1>2 DEF Rearranged
  <2>2. IsMove(m, n)
    BY <2>1 DEF LegalMoves, IsMove
  <2>3. new \in [1..n -> 1..n] /\ \A i \in 1..n : new[i] = o[Source(m, i)]
    <3>1. o \in [1..n -> 1..n]
      BY <1>2
    <3>2. /\ Rotate(o, m) \in [1..n -> 1..n]
          /\ \A i \in 1..n : Rotate(o, m)[i] = o[Source(m, i)]
      BY ONLY n \in Nat, <2>2, <3>1, RotateOrder
    <3> QED
      BY <1>4, <3>2
  <2>4. ASSUME NEW i \in 1..n, NEW j \in 1..n, new[i] = new[j]
        PROVE  i = j
    <3>1. Source(m, i) \in 1..n /\ Source(m, j) \in 1..n
      BY <2>2, SourceType
    <3>2. Source(m, i) = Source(m, j)
      BY <1>2, <2>3, <2>4, <3>1
    <3> QED
      BY <2>2, <3>2, SourceInjective
  <2>5. ASSUME NEW i \in 1..n, NEW j \in 1..n, i < j, ~Commutes(trace[new[i]], trace[new[j]], FALSE)
        PROVE  new[i] < new[j]
    <3> DEFINE a == Source(m, i)
               b == Source(m, j)
               u == Rearranged(trace, o)
    <3>1. a \in 1..n /\ b \in 1..n /\ new[i] = o[a] /\ new[j] = o[b]
      BY <2>2, <2>3, SourceType
    <3>2. a < b
      <4> SUFFICES ASSUME a >= b
                   PROVE  FALSE
        BY <3>1
      <4>1. Legal(u, m, FALSE)
        BY DEF LegalMoves
      <4>2. Commutes(u[a], u[b], FALSE)
        <5> HIDE DEF u
        <5> QED
          BY <2>2, <2>5, <4>1, LegalPairs
      <4>3. u[a] = trace[o[a]] /\ u[b] = trace[o[b]]
        <5> HIDE DEF a, b
        <5>1. Len(o) = n
          BY <1>2
        <5> QED
          BY <3>1, <5>1 DEF Rearranged
      <4> QED
        BY <2>5, <3>1, <4>2, <4>3
    <3> HIDE DEF a, b
    <3>3. DOMAIN o = 1..n
      BY <1>2
    <3> QED
      BY <1>2, <2>5, <3>1, <3>2, <3>3 DEF KeepsOrder
  <2>6. KeepsOrder(trace, new, FALSE)
    <3>1. DOMAIN new = 1..n
      BY <2>3
    <3> QED
      BY <2>5, <3>1 DEF KeepsOrder
  <2> QED
    BY <2>3, <2>4, <2>6 DEF Keeping, IsPermutationOf
<1> QED
  BY <1>1, <1>3, <1>4

LEMMA OrdersKeep ==
    ASSUME NEW trace, NEW n \in Nat, DOMAIN trace = 1..n, NEW order \in OrdersWithin(trace)
    PROVE  Keeping(trace, order, n)
<1> DEFINE reach == CHOOSE reach : IsReach(trace, MaxMoves, reach)
           S == {k \in Nat : k <= MaxMoves => \A o \in reach[k] : Keeping(trace, o, n)}
<1>0. MaxMoves \in Nat
  BY PassAssumption
<1>1. order \in reach[MaxMoves]
  BY DEF OrdersWithin, IsReach, Moved
<1>2. IsReach(trace, MaxMoves, reach)
  BY <1>0, ReachExists
<1> HIDE DEF reach
<1>3. 0 \in S
  <2>1. reach[0] = {[i \in 1..n |-> i]}
    BY <1>0, <1>2 DEF IsReach
  <2> DEFINE unmoved == [i \in 1..n |-> i]
  <2>2. Keeping(trace, unmoved, n)
    BY DEF Keeping, IsPermutationOf, KeepsOrder
  <2> QED
    BY <2>1, <2>2
<1>4. ASSUME NEW k \in Nat, k \in S
      PROVE  k + 1 \in S
  <2> SUFFICES ASSUME k + 1 <= MaxMoves, NEW new \in reach[k + 1]
               PROVE  Keeping(trace, new, n)
    OBVIOUS
  <2>1. k + 1 \in 0..MaxMoves /\ k + 1 # 0 /\ (k + 1) - 1 = k /\ k <= MaxMoves
    BY <1>0
  <2>2. reach[k + 1] = Moved(trace, reach[k])
    <3>1. reach[k + 1] = IF k + 1 = 0 THEN {[i \in DOMAIN trace |-> i]} ELSE Moved(trace, reach[(k + 1) - 1])
      BY <1>2, <2>1 DEF IsReach
    <3> QED
      BY <2>1, <3>1
  <2>3. \A o \in reach[k] : Keeping(trace, o, n)
    BY <1>4, <2>1
  <2> QED
    BY <2>2, <2>3, MovedKeeps
<1> HIDE DEF S
<1>5. MaxMoves \in S
  BY <1>0, <1>3, <1>4, Induct
<1> QED
  BY <1>0, <1>1, <1>5 DEF S

(***************************************************************************)
(* The circuit in a new order has the operations it had, with operands of  *)
(* their number.                                                           *)
(***************************************************************************)
Nothing == [ops |-> <<>>, live |-> <<>>, crossed |-> FALSE]

IsRebinding(circuit, trace, order, n, done) ==
    done = [k \in 0..n |->
               IF k = 0 THEN Nothing
               ELSE Rebound(done[k - 1], circuit.ops[order[k]], trace[order[k]].qubits)]

LEMMA RebindingExists ==
    ASSUME NEW circuit, NEW trace, NEW order, NEW n \in Nat
    PROVE  \E done : IsRebinding(circuit, trace, order, n, done)
<1> DEFINE S == {k \in Nat : \E done : IsRebinding(circuit, trace, order, k, done)}
           Step(last, k) == Rebound(last, circuit.ops[order[k]], trace[order[k]].qubits)
<1>u. \A k, done : IsRebinding(circuit, trace, order, k, done) <=>
          done = [j \in 0..k |-> IF j = 0 THEN Nothing ELSE Step(done[j - 1], j)]
  BY DEF IsRebinding
<1> HIDE DEF Step
<1>1. 0 \in S
  <2> DEFINE done == [k \in 0..0 |-> Nothing]
  <2>1. \A j \in 0..0 : j = 0 /\ done[j] = Nothing
    OBVIOUS
  <2>2. done = [j \in 0..0 |-> done[j]]
    OBVIOUS
  <2> HIDE DEF done
  <2>3. done = [j \in 0..0 |-> IF j = 0 THEN Nothing ELSE Step(done[j - 1], j)]
    BY <2>1, <2>2
  <2> QED
    BY <1>u, <2>3
<1>2. ASSUME NEW k \in Nat, k \in S
      PROVE  k + 1 \in S
  <2>1. PICK shorter : IsRebinding(circuit, trace, order, k, shorter)
    BY <1>2
  <2> DEFINE done == [j \in 0..(k + 1) |-> IF j = k + 1 THEN Step(shorter[k], k + 1) ELSE shorter[j]]
  <2>2. \A j \in 0..k : shorter[j] = IF j = 0 THEN Nothing ELSE Step(shorter[j - 1], j)
    BY <1>u, <2>1
  <2>3. \A j \in 0..(k + 1) : done[j] = IF j = 0 THEN Nothing ELSE Step(done[j - 1], j)
    <3> TAKE j \in 0..(k + 1)
    <3>1. CASE j = k + 1
      BY <3>1
    <3>2. CASE j # k + 1
      <4>1. j \in 0..k /\ (j # 0 => j - 1 \in 0..k /\ j - 1 # k + 1)
        BY <3>2
      <4> QED
        BY <2>2, <4>1
    <3> QED
      BY <3>1, <3>2
  <2>4. done = [j \in 0..(k + 1) |-> done[j]]
    OBVIOUS
  <2> HIDE DEF done
  <2>5. IsRebinding(circuit, trace, order, k + 1, done)
    BY <1>u, <2>3, <2>4
  <2> QED
    BY <2>5
<1> HIDE DEF S
<1>3. n \in S
  BY <1>1, <1>2, Induct
<1> QED
  BY <1>3 DEF S

\* What one operation takes from its wires, and its operands then.
Taken(op, wires) == IF op.gate \in {"alloc", "barrier", "output"} THEN {} ELSE {wires[k] : k \in DOMAIN wires}
BoundTo(live, op, wires) == IF Taken(op, wires) = {} THEN op.operands ELSE [k \in DOMAIN wires |-> live[wires[k]]]
Made(op, wires) == {wires[v[2]] : v \in Qubits(op)}

Rebinding(done, op, wires) ==
    [ops |-> Append(done.ops, [op EXCEPT !.operands = BoundTo(done.live, op, wires)]),
     live |-> [q \in (DOMAIN done.live \ Taken(op, wires)) \cup Made(op, wires) |->
                  IF q \in Made(op, wires) THEN CHOOSE v \in Qubits(op) : wires[v[2]] = q
                  ELSE done.live[q]],
     crossed |-> FALSE]

(***************************************************************************)
(* The trace of a mapped circuit that the verifier accepts.                *)
(***************************************************************************)
MappedCircuit(circuit) == IsCircuit(circuit) /\ CircuitVerifies(circuit) /\ circuit.stage = "architecture"

LEMMA MappedNumbered ==
    ASSUME NEW circuit, MappedCircuit(circuit)
    PROVE  /\ Numbered(circuit, Physical(circuit))
           /\ \A id \in AllocIds(circuit) : Physical(circuit)[id] \in Nat
<1> DEFINE index == Physical(circuit)
<1>1. PICK target \in circuit.target : TRUE
  BY DEF MappedCircuit, CircuitVerifies, MappedVerifies, ParsesTarget
<1>2. Allocatable(circuit, index, target)
  BY DEF MappedCircuit, CircuitVerifies, MappedVerifies
<1> HIDE DEF index
<1>3. /\ \A id \in AllocIds(circuit) : index[id] \in 0..(target.numQubits - 1)
      /\ \A a, b \in AllocIds(circuit) : index[a] = index[b] => a = b
  BY <1>2 DEF Allocatable
<1>4. Numbered(circuit, index)
  BY <1>3 DEF Numbered, MappedCircuit
<1> QED
  BY <1>3, <1>4 DEF index

\* Every value of a numbered circuit is on an allocated wire, and no operation
\* has two values of one wire.
LEMMA WiresOfUses ==
    ASSUME NEW circuit, NEW index, Numbered(circuit, index), NEW i, NEW v, NEW k,
           Use(circuit, v, i, k), circuit.ops[i].gate # "output"
    PROVE  /\ \E id \in AllocIds(circuit) : Placement(circuit, index)[v] = index[id]
           /\ \A u, l : Use(circuit, u, i, l) /\ Placement(circuit, index)[u] = Placement(circuit, index)[v]
                 => u = v
<1> DEFINE place == Placement(circuit, index)
           N == Len(circuit.ops)
           n == i - 1
<1>0. DOMAIN circuit.ops = 1..N /\ N \in Nat /\ Rules(circuit, index, place)
  BY RulesHold, CircuitTyped DEF Numbered, IsCircuit
<1>1. n \in 0..N /\ i \in 1..N /\ i > n /\ \A j \in 1..N : j <= n <=> j < i
  BY <1>0 DEF Use
<1>2. Linear(circuit, index, place, n)
  BY <1>1, AlwaysLinear
<1> HIDE DEF place, N, n
<1>3. PICK j : IsQubit(circuit, v, j) /\ j < i
  BY <1>0 DEF Rules
<1>4. j \in 1..N /\ j <= n
  BY <1>0, <1>1, <1>3 DEF IsQubit
<1>5. PICK a : a <= n /\ AllocatedAt(circuit, index, a, place[v])
  BY <1>2, <1>3, <1>4 DEF Linear
<1>6. circuit.ops[a].id \in AllocIds(circuit) /\ place[v] = index[circuit.ops[a].id]
  BY <1>5 DEF AllocatedAt, IsAlloc, AllocIds, ToSet
<1>7. ASSUME NEW u, NEW l, Use(circuit, u, i, l), place[u] = place[v]
      PROVE  u = v
  <2>1. PICK m : IsQubit(circuit, u, m) /\ m < i
    BY <1>0, <1>7 DEF Rules
  <2>2. m <= n
    BY <1>0, <1>1, <2>1 DEF IsQubit
  <2>3. Holds(circuit, place, n, place[v], u) /\ Holds(circuit, place, n, place[v], v)
    BY <1>1, <1>3, <1>4, <1>7, <2>1, <2>2 DEF Holds
  <2> QED
    BY <1>2, <2>3 DEF Linear
<1> QED
  BY <1>6, <1>7 DEF place

LEMMA EventParts ==
    ASSUME NEW gate, NEW qubits, NEW angle, NEW movable \in BOOLEAN, NEW event,
           event = [gate |-> gate, qubits |-> qubits, angle |-> angle, movable |-> movable]
    PROVE  event.gate = gate /\ event.qubits = qubits /\ event.angle = angle /\ event.movable = movable
<1>1. CASE movable = TRUE
  BY <1>1
<1>2. CASE movable = FALSE
  BY <1>2
<1> QED
  BY <1>1, <1>2

LEMMA TraceOfMapped ==
    ASSUME NEW circuit, MappedCircuit(circuit)
    PROVE  /\ DOMAIN BuildTrace(circuit) = 1..Len(circuit.ops)
           /\ WithinLifetimes(BuildTrace(circuit))
           /\ \A i \in DOMAIN circuit.ops :
                 /\ IsEvent(BuildTrace(circuit)[i])
                 /\ OnWires(circuit, Placement(circuit, Physical(circuit)), i, BuildTrace(circuit)[i])
<1> DEFINE index == Physical(circuit)
           place == Placement(circuit, index)
           trace == BuildTrace(circuit)
<1>0. /\ Numbered(circuit, index) /\ IsCircuit(circuit) /\ CircuitVerifies(circuit) /\ circuit \in Circuit
      /\ \A id \in AllocIds(circuit) : index[id] \in Nat
      /\ Rules(circuit, index, place)
      /\ DOMAIN circuit.ops = 1..Len(circuit.ops)
      /\ trace = TraceUnder(circuit, index)
  BY MappedNumbered, RulesHold, CircuitTyped DEF MappedCircuit, IsCircuit, BuildTrace
<1>1. DOMAIN trace = 1..Len(circuit.ops)
  BY <1>0 DEF TraceUnder
<1>2. WithinLifetimes(trace)
  BY <1>0, LifetimesOfVerified
<1>3. \A i \in DOMAIN circuit.ops : OnWires(circuit, place, i, trace[i])
  BY <1>0, TraceOnWires
<1>4. ASSUME NEW i \in DOMAIN circuit.ops
      PROVE  /\ trace[i].gate = circuit.ops[i].gate
             /\ trace[i] = [gate |-> circuit.ops[i].gate, qubits |-> trace[i].qubits,
                            angle |-> circuit.ops[i].angle, movable |-> trace[i].movable]
             /\ trace[i].movable \in BOOLEAN
             /\ trace[i].movable => circuit.ops[i].gate \in Gates
  <2> DEFINE op == circuit.ops[i]
  <2>1. trace[i] = EventUnder(op, place)
    BY <1>0 DEF TraceUnder
  <2> HIDE DEF trace, place, op
  <2> DEFINE moves == op.gate \in Gates /\ op.notes \subseteq {"source"}
  <2>2. trace[i] = [gate |-> op.gate, qubits |-> WiresUnder(op, place), angle |-> op.angle, movable |-> moves]
    BY <2>1, Zenon DEF EventUnder
  <2>3. moves \in BOOLEAN /\ (moves => op.gate \in Gates)
    OBVIOUS
  <2> HIDE DEF moves
  <2>4. trace[i].gate = op.gate /\ trace[i].qubits = WiresUnder(op, place) /\ trace[i].movable = moves
    BY <2>2, <2>3, EventParts
  <2> QED
    BY <2>2, <2>3, <2>4, Zenon DEF op
<1> HIDE DEF trace, place, index
<1>5. ASSUME NEW i \in DOMAIN circuit.ops
      PROVE  IsEvent(trace[i])
  <2> DEFINE op == circuit.ops[i]
             event == trace[i]
  <2>0. /\ op \in Op /\ DOMAIN op.operands = 1..Len(op.operands) /\ Len(op.operands) \in Nat
        /\ op.gate \in Gates \cup Effects /\ op.angle \in Angles /\ op.qubits \in Seq(Int)
    BY <1>0, CircuitTyped DEF Op
  <2>1. OnWires(circuit, place, i, event)
    BY <1>3
  <2>2. OpVerifies(circuit, op)
    BY <1>0 DEF CircuitVerifies
  <2>a. /\ event.gate = op.gate
        /\ event = [gate |-> op.gate, qubits |-> event.qubits, angle |-> op.angle, movable |-> event.movable]
        /\ event.movable \in BOOLEAN /\ (event.movable => op.gate \in Gates)
    BY <1>4
  <2> SUFFICES IsEvent(event)
    OBVIOUS
  <2> HIDE DEF event
  <2>b. ASSUME event.qubits \in Seq(Nat)
        PROVE  /\ event \in Event /\ event.gate = op.gate
               /\ op.gate \notin Gates => IsEvent(event)
               /\ /\ op.gate \in Gates
                  /\ Len(event.qubits) = Arity(op.gate) /\ Cardinality(WiresOf(event)) = Arity(op.gate)
                  => IsEvent(event)
    <3>1. op.gate \in Gates \cup Effects /\ op.angle \in Angles
      BY <2>0
    <3>2. event.gate = op.gate
      BY <2>a
    <3> HIDE DEF op
    <3>3. event \in Event
      BY <2>a, <2>b, <3>1 DEF Event
    <3>4. event.movable => event.gate \in Gates
      BY <2>a, <3>2, Zenon
    <3> QED
      BY <3>2, <3>3, <3>4, Zenon DEF IsEvent
  <2>3. CASE op.gate \in Gates \cup {"measure", "discard"}
    <3>1. event.qubits = [k \in 1..Len(op.operands) |-> place[op.operands[k]]]
      BY <2>0, <2>1, <2>3 DEF OnWires
    <3>2. op.gate # "output"
      BY <2>3 DEF Gates
    <3>3. \A k \in 1..Len(op.operands) : Use(circuit, op.operands[k], i, k)
      BY <2>0 DEF Use
    <3>4. \A k \in 1..Len(op.operands) : place[op.operands[k]] \in Nat
      BY <1>0, <3>2, <3>3, WiresOfUses DEF place
    <3>5. event.qubits \in Seq(Nat) /\ Len(event.qubits) = Len(op.operands)
      <4>1. event.qubits \in [1..Len(op.operands) -> Nat]
        BY <3>1, <3>4
      <4> QED
        BY <2>0, <4>1, FunctionIsSeq
    <3>7. ASSUME op.gate \in Gates
          PROVE  Len(event.qubits) = Arity(op.gate) /\ Cardinality(WiresOf(event)) = Arity(op.gate)
      <4>1. Len(op.operands) = Arity(op.gate)
        BY <1>0, <3>7 DEF IsCircuit
      <4>2. CASE op.gate \in {"cx", "cz"}
        <5>1. Arity(op.gate) = 2
          BY <4>2 DEF Arity
        <5>2. op.operands[1] # op.operands[2]
          BY <2>2, <4>2 DEF OpVerifies
        <5>3. place[op.operands[1]] # place[op.operands[2]]
          <6>1. Use(circuit, op.operands[1], i, 1) /\ Use(circuit, op.operands[2], i, 2)
            BY <3>3, <4>1, <5>1
          <6> QED
            BY <1>0, <3>2, <5>2, <6>1, WiresOfUses DEF place
        <5>4. WiresOf(event) = {place[op.operands[1]], place[op.operands[2]]}
          <6>1. DOMAIN event.qubits = 1..2 /\ event.qubits[1] = place[op.operands[1]]
                /\ event.qubits[2] = place[op.operands[2]]
            BY <3>1, <4>1, <5>1
          <6> HIDE DEF event
          <6> QED
            BY <6>1 DEF WiresOf
        <5> HIDE DEF event, op
        <5>5. Cardinality(WiresOf(event)) = 2
          <6> DEFINE a == place[op.operands[1]]
                     b == place[op.operands[2]]
          <6> HIDE DEF a, b
          <6>1. WiresOf(event) = {a} \cup {b} /\ b \notin {a}
            BY <5>3, <5>4 DEF a, b
          <6>2. IsFiniteSet({a}) /\ Cardinality({a}) = 1
            BY FS_Singleton
          <6>3. Cardinality({a} \cup {b}) = Cardinality({a}) + 1
            BY <6>1, <6>2, FS_AddElement
          <6> QED
            BY <6>1, <6>2, <6>3
        <5> QED
          BY <3>5, <4>1, <5>1, <5>5
      <4>3. CASE op.gate \notin {"cx", "cz"}
        <5>1. Arity(op.gate) = 1
          BY <4>3 DEF Arity
        <5>2. WiresOf(event) = {place[op.operands[1]]}
          <6>1. DOMAIN event.qubits = 1..1 /\ event.qubits[1] = place[op.operands[1]]
            BY <3>1, <4>1, <5>1
          <6> HIDE DEF event
          <6> QED
            BY <6>1 DEF WiresOf
        <5> HIDE DEF event, op
        <5> QED
          BY <3>5, <4>1, <5>1, <5>2, FS_Singleton
      <4> QED
        BY <4>2, <4>3
    <3> QED
      BY <2>b, <2>3, <3>5, <3>7, Zenon
  <2>4. CASE op.gate = "alloc"
    <3>1. event.qubits = <<place[<<op.id, 1>>]>>
      BY <2>1, <2>4 DEF OnWires
    <3>2. place[<<op.id, 1>>] = index[op.id]
      BY <1>0, <2>4 DEF Rules, IsAlloc
    <3>3. op.id \in AllocIds(circuit)
      BY <2>4 DEF AllocIds, ToSet
    <3>4. event.qubits \in Seq(Nat)
      BY <1>0, <3>1, <3>2, <3>3
    <3>9. op.gate \notin Gates
      BY <2>4 DEF Gates
    <3> QED
      BY <2>b, <3>4, <3>9, Zenon
  <2>5. CASE op.gate = "barrier"
    <3>1. event.qubits = op.qubits
      BY <2>1, <2>5 DEF OnWires
    <3>2. \A k \in DOMAIN op.qubits : op.qubits[k] >= 0
      BY <2>2, <2>5 DEF OpVerifies
    <3>3. event.qubits \in Seq(Nat)
      <4>1. op.qubits \in [1..Len(op.qubits) -> Int] /\ Len(op.qubits) \in Nat
        BY <2>0, LenProperties
      <4>2. op.qubits \in [1..Len(op.qubits) -> Nat]
        BY <3>2, <4>1
      <4> HIDE DEF op
      <4> QED
        BY <3>1, <4>1, <4>2, FunctionIsSeq
    <3>9. op.gate \notin Gates
      BY <2>5 DEF Gates
    <3> QED
      BY <2>b, <3>3, <3>9, Zenon
  <2>6. CASE op.gate = "output"
    <3>1. event.qubits = <<>>
      BY <2>1, <2>6 DEF OnWires
    <3>2. event.qubits \in Seq(Nat)
      BY <3>1
    <3>9. op.gate \notin Gates
      BY <2>6 DEF Gates
    <3> QED
      BY <2>b, <3>2, <3>9, Zenon
  <2> QED
    BY <2>0, <2>3, <2>4, <2>5, <2>6 DEF Effects
<1> QED
  BY <1>1, <1>2, <1>3, <1>5 DEF trace, place, index

\* The verifier's rules make the trace of a mapped circuit a whole one.
LEMMA MappedWhole ==
    ASSUME NEW circuit, MappedCircuit(circuit)
    PROVE  WholeTrace(Len(circuit.ops), BuildTrace(circuit))
<1> DEFINE index == Physical(circuit)
           place == Placement(circuit, index)
           t == BuildTrace(circuit)
           N == Len(circuit.ops)
<1>1. /\ DOMAIN t = 1..N /\ WithinLifetimes(t)
      /\ \A i \in 1..N : IsEvent(t[i]) /\ OnWires(circuit, place, i, t[i])
  <2>1. DOMAIN circuit.ops = 1..N
    BY CircuitTyped DEF MappedCircuit, IsCircuit
  <2> QED
    BY <2>1, TraceOfMapped
<1>2. Numbered(circuit, index) /\ Rules(circuit, index, place) /\ DOMAIN circuit.ops = 1..N
  BY MappedNumbered, RulesHold, CircuitTyped DEF MappedCircuit, IsCircuit
<1>3. t = TraceUnder(circuit, index)
  BY DEF BuildTrace
<1>e. \A id \in AllocIds(circuit) : \E e \in DOMAIN t : t[e].gate \in {"measure", "discard"} /\ t[e].qubits = <<index[id]>>
  <2> TAKE id \in AllocIds(circuit)
  <2> DEFINE ends == {i \in DOMAIN t : /\ t[i].gate \in {"measure", "discard"}
                                       /\ t[i].qubits = <<index[id]>>}
  <2>1. Cardinality(ends) = 1
    <3>1. Cardinality({i \in DOMAIN TraceUnder(circuit, index) :
                          /\ TraceUnder(circuit, index)[i].gate \in {"measure", "discard"}
                          /\ TraceUnder(circuit, index)[i].qubits = <<index[id]>>}) = 1
      BY <1>2, EndsOfVerified
    <3> QED
      BY <1>3, <3>1, Zenon
  <2>2. ends # {}
    BY <2>1, FS_EmptySet
  <2> QED
    BY <2>2
<1>l. IsCircuit(circuit)
  BY DEF MappedCircuit
<1> HIDE DEF t, place, index, N
<1>4. ASSUME NEW i \in 1..N
      PROVE  /\ t[i].gate = circuit.ops[i].gate
             /\ t[i].gate = "output" => t[i].qubits = <<>>
             /\ t[i].gate = "alloc" => t[i].qubits = <<index[circuit.ops[i].id]>> /\ AllocatedAt(circuit, index, i, t[i].qubits[1])
             /\ t[i].gate \in Ending \cup {"alloc"} => Len(t[i].qubits) = 1
  <2>1. OnWires(circuit, place, i, t[i])
    BY <1>1
  <2>2. t[i].gate = circuit.ops[i].gate /\ (t[i].gate = "output" => t[i].qubits = <<>>)
    BY <2>1 DEF OnWires
  <2>3. CASE t[i].gate = "alloc"
    <3>1. t[i].qubits = <<place[<<circuit.ops[i].id, 1>>]>>
      BY <2>1, <2>2, <2>3 DEF OnWires
    <3>2. IsAlloc(circuit, i)
      BY <1>2, <2>2, <2>3 DEF IsAlloc
    <3>3. place[<<circuit.ops[i].id, 1>>] = index[circuit.ops[i].id]
      BY <1>2, <3>2 DEF Rules
    <3>4. t[i].qubits = <<index[circuit.ops[i].id]>>
      BY <3>1, <3>3
    <3>5. t[i].qubits[1] = index[circuit.ops[i].id] /\ Len(t[i].qubits) = 1
      BY <3>4
    <3> QED
      BY <2>2, <3>2, <3>4, <3>5 DEF AllocatedAt
  <2>4. CASE t[i].gate \in Ending
    <3>1. t[i].qubits = [k \in DOMAIN circuit.ops[i].operands |-> place[circuit.ops[i].operands[k]]]
      BY <2>1, <2>2, <2>4 DEF OnWires, Ending
    <3>2. DOMAIN circuit.ops[i].operands = 1..1
      <4>1. Len(circuit.ops[i].operands) = 1
        BY <1>2, <1>l, <2>2, <2>4 DEF IsCircuit, Ending
      <4> QED
        BY <1>2, <1>l, <4>1, CircuitTyped DEF IsCircuit
    <3>3. t[i].qubits = <<place[circuit.ops[i].operands[1]]>>
      BY <3>1, <3>2
    <3>4. Len(t[i].qubits) = 1
      BY <3>3
    <3> QED
      BY <2>2, <2>4, <3>4 DEF Ending
  <2> QED
    BY <2>2, <2>3, <2>4
<1>5. ASSUME NEW a \in 1..N, NEW b \in 1..N,
             t[a].gate = "alloc", t[b].gate = "alloc", t[a].qubits[1] = t[b].qubits[1]
      PROVE  a = b
  <2>1. AllocatedAt(circuit, index, a, t[a].qubits[1]) /\ AllocatedAt(circuit, index, b, t[a].qubits[1])
    BY <1>4, <1>5
  <2> QED
    BY <1>2, <2>1 DEF Rules
<1>6. ASSUME NEW a \in 1..N, t[a].gate = "alloc"
      PROVE  \E e \in 1..N : t[e].gate \in Ending /\ t[e].qubits[1] = t[a].qubits[1]
  <2>1. circuit.ops[a].id \in AllocIds(circuit) /\ t[a].qubits = <<index[circuit.ops[a].id]>>
    BY <1>2, <1>4, <1>6 DEF AllocIds, ToSet
  <2>2. PICK e \in DOMAIN t : t[e].gate \in Ending /\ t[e].qubits = <<index[circuit.ops[a].id]>>
    BY <1>e, <2>1 DEF Ending
  <2>3. t[e].qubits = t[a].qubits
    BY <2>1, <2>2
  <2> QED
    BY <1>1, <2>2, <2>3
<1>7. \A i \in 1..N : /\ IsEvent(t[i])
                      /\ t[i].gate = "output" => t[i].qubits = <<>>
                      /\ t[i].gate \in Ending \cup {"alloc"} => Len(t[i].qubits) = 1
  BY <1>1, <1>4
<1>8. WholeTrace(N, t)
  BY <1>1, <1>5, <1>6, <1>7 DEF WholeTrace
<1> QED
  BY <1>8 DEF N, t

LEMMA OrderFenced ==
    ASSUME NEW n \in Nat, NEW t, WholeTrace(n, t), NEW order \in OrdersWithin(t)
    PROVE  FencedOrder(n, order, t, Rearranged(t, order)) /\ Len(order) = n
<1>1. Keeping(t, order, n)
  BY OrdersKeep DEF WholeTrace
<1>2. /\ order \in [1..n -> 1..n] /\ \A i, j \in 1..n : order[i] = order[j] => i = j
      /\ KeepsOrder(t, order, FALSE)
  BY <1>1 DEF Keeping, IsPermutationOf
<1>3. Len(order) = n /\ DOMAIN order = 1..n
  BY <1>2
<1> DEFINE u == Rearranged(t, order)
<1>4. DOMAIN u = 1..n /\ \A i \in 1..n : u[i] = t[order[i]]
  BY <1>3 DEF Rearranged
<1> HIDE DEF u
<1>5. ASSUME NEW i \in 1..n, NEW j \in 1..n, i < j, ~(u[i].movable /\ u[j].movable)
      PROVE  order[i] < order[j]
  <2>1. ~Commutes(t[order[i]], t[order[j]], FALSE)
    BY <1>4, <1>5, Zenon DEF Commutes
  <2> QED
    BY <1>2, <1>3, <1>5, <2>1 DEF KeepsOrder
<1>6. DOMAIN t = 1..n
  BY DEF WholeTrace
<1>7. FencedOrder(n, order, t, u)
  BY <1>2, <1>4, <1>5, <1>6 DEF FencedOrder
<1> QED
  BY <1>3, <1>7 DEF u

-----------------------------------------------------------------------------
(***************************************************************************)
(* Reordering a mapped circuit binds every operand to the value that the   *)
(* last operation before it on its wire left there.                        *)
(***************************************************************************)
Supplied(circuit, ord, u, n, q, v) ==
    \E j, k : /\ LastOn(u, q, n, j) /\ u[j].gate \notin Ending
              /\ k \in DOMAIN u[j].qubits /\ u[j].qubits[k] = q
              /\ v = <<circuit.ops[ord[j]].id, k>>

IsBound(circuit, ord, u, m, new) ==
    LET op == circuit.ops[ord[m]]
    IN  /\ new.id = op.id /\ new.gate = op.gate /\ new.physical = op.physical
        /\ new.qubits = op.qubits /\ new.angle = op.angle /\ new.notes = op.notes
        /\ DOMAIN new.operands = DOMAIN op.operands /\ Len(new.operands) = Len(op.operands)
        /\ op.gate \in Gates \cup Ending =>
              \A k \in DOMAIN op.operands : Supplied(circuit, ord, u, m - 1, u[m].qubits[k], new.operands[k])
        /\ op.gate \notin Gates \cup Ending => new.operands = op.operands

SoFarBound(circuit, ord, u, n, done) ==
    /\ done.crossed = FALSE
    /\ done.ops \in Seq(Op) /\ Len(done.ops) = n
    /\ \A m \in 1..n : IsBound(circuit, ord, u, m, done.ops[m])
    /\ \A q : q \in DOMAIN done.live <=> \E j : LastOn(u, q, n, j) /\ u[j].gate \notin Ending
    /\ \A q \in DOMAIN done.live : Supplied(circuit, ord, u, n, q, done.live[q])

\* The trace goes with the operations in their order.
Matched(circuit, ord, u) ==
    LET n == Len(circuit.ops)
    IN  /\ IsCircuit(circuit) /\ WholeTrace(n, u)
        /\ ord \in [1..n -> 1..n] /\ \A i, j \in 1..n : ord[i] = ord[j] => i = j
        /\ \A i \in 1..n :
              /\ u[i].gate = circuit.ops[ord[i]].gate
              /\ u[i].gate \in Gates \cup Ending => DOMAIN u[i].qubits = DOMAIN circuit.ops[ord[i]].operands

LEMMA ReboundGoes ==
    ASSUME NEW done, NEW op, NEW wires, ~done.crossed, Taken(op, wires) \subseteq DOMAIN done.live
    PROVE  Rebound(done, op, wires) = Rebinding(done, op, wires)
BY Zenon DEF Rebound, Taken, BoundTo, Made, Rebinding

\* The results of a matched operation are numbered by its wires.
LEMMA QubitsByWire ==
    ASSUME NEW circuit, NEW ord, NEW u, Matched(circuit, ord, u), NEW i \in 1..Len(circuit.ops), NEW v
    PROVE  v \in Qubits(circuit.ops[ord[i]]) <=>
              /\ u[i].gate \in Gates \cup {"alloc"}
              /\ \E k \in DOMAIN u[i].qubits : v = <<circuit.ops[ord[i]].id, k>>
<1> DEFINE n == Len(circuit.ops)
           op == circuit.ops[ord[i]]
           e == u[i]
<1>1. /\ n \in Nat /\ i \in 1..n /\ WholeTrace(n, u) /\ e.gate = op.gate
  BY CircuitTyped DEF Matched, IsCircuit
<1>2. /\ e.gate \in Gates \cup Effects
      /\ e.gate \in Ending \cup {"alloc"} => DOMAIN e.qubits = {1}
      /\ e.gate \in Gates => DOMAIN e.qubits = 1..Arity(e.gate)
  BY <1>1, WiresByGate
<1> HIDE DEF e, op, n
<1>3. CASE op.gate \in Gates
  <2>1. ResultCount(op) = Arity(op.gate) /\ op.gate # "measure"
    BY <1>3 DEF ResultCount, Gates
  <2> DEFINE D == 1..Arity(op.gate)
  <2>2. Qubits(op) = {op.id} \X D
    BY <2>1 DEF Qubits, Values
  <2>3. DOMAIN e.qubits = D /\ e.gate \in Gates \cup {"alloc"}
    BY <1>1, <1>2, <1>3
  <2> HIDE DEF D
  <2>4. v \in Qubits(op) <=> \E k \in D : v = <<op.id, k>>
    BY <2>2
  <2> QED
    BY <2>3, <2>4 DEF e, op
<1>4. CASE op.gate = "alloc"
  <2>1. ResultCount(op) = 1
    BY <1>4 DEF ResultCount, Gates
  <2>2. 1..1 = {1}
    OBVIOUS
  <2> QED
    BY <1>1, <1>2, <1>4, <2>1, <2>2 DEF Qubits, Values, e, op
<1>5. CASE op.gate \notin Gates \cup {"alloc"}
  <2>1. CASE op.gate = "measure"
    BY <1>1, <1>5, <2>1 DEF Qubits, e, op
  <2>2. CASE op.gate # "measure"
    <3>1. ResultCount(op) = 0
      BY <1>5, <2>2 DEF ResultCount
    <3>2. 1..0 = {}
      OBVIOUS
    <3>3. Qubits(op) = {}
      BY <3>1, <3>2 DEF Qubits, Values
    <3> QED
      BY <1>1, <1>5, <3>3 DEF e, op
  <2> QED
    BY <2>1, <2>2
<1> QED
  BY <1>3, <1>4, <1>5

LEMMA LastOnNext ==
    ASSUME NEW u, NEW q, NEW n \in Nat
    PROVE  /\ UsesWire(u[n + 1], q) => \A j : LastOn(u, q, n + 1, j) <=> j = n + 1
           /\ ~UsesWire(u[n + 1], q) => \A j : LastOn(u, q, n + 1, j) <=> LastOn(u, q, n, j)
<1>1. ASSUME UsesWire(u[n + 1], q), NEW j
      PROVE  LastOn(u, q, n + 1, j) <=> j = n + 1
  <2>1. LastOn(u, q, n + 1, n + 1)
    BY <1>1 DEF LastOn
  <2> QED
    BY <2>1, LastOnOne
<1>2. ASSUME ~UsesWire(u[n + 1], q), NEW j
      PROVE  LastOn(u, q, n + 1, j) <=> LastOn(u, q, n, j)
  <2>1. ASSUME LastOn(u, q, n + 1, j)
        PROVE  LastOn(u, q, n, j)
    <3>1. j \in 1..(n + 1) /\ UsesWire(u[j], q) /\ \A l \in (j + 1)..(n + 1) : ~UsesWire(u[l], q)
      BY <2>1 DEF LastOn
    <3>2. j \in 1..n
      BY <1>2, <3>1
    <3>3. \A l \in (j + 1)..n : l \in (j + 1)..(n + 1)
      BY <3>2
    <3> QED
      BY <3>1, <3>2, <3>3 DEF LastOn
  <2>2. ASSUME LastOn(u, q, n, j)
        PROVE  LastOn(u, q, n + 1, j)
    <3>1. j \in 1..n /\ UsesWire(u[j], q) /\ \A l \in (j + 1)..n : ~UsesWire(u[l], q)
      BY <2>2 DEF LastOn
    <3>2. j \in 1..(n + 1) /\ \A l \in (j + 1)..(n + 1) : l = n + 1 \/ l \in (j + 1)..n
      BY <3>1
    <3> QED
      BY <1>2, <3>1, <3>2 DEF LastOn
  <2> QED
    BY <2>1, <2>2
<1> QED
  BY <1>1, <1>2

LEMMA BoundStep ==
    ASSUME NEW circuit, NEW ord, NEW u, Matched(circuit, ord, u),
           NEW n \in Nat, n + 1 <= Len(circuit.ops), NEW done, SoFarBound(circuit, ord, u, n, done),
           NEW new, new = Rebound(done, circuit.ops[ord[n + 1]], u[n + 1].qubits)
    PROVE  SoFarBound(circuit, ord, u, n + 1, new)
<1> DEFINE op == circuit.ops[ord[n + 1]]
           e == u[n + 1]
           wires == e.qubits
           bound == BoundTo(done.live, op, wires)
           last == [op EXCEPT !.operands = bound]
           N == Len(circuit.ops)
<1>1. /\ N \in Nat /\ n + 1 \in 1..N /\ WholeTrace(N, u) /\ e.gate = op.gate
      /\ ord[n + 1] \in DOMAIN circuit.ops
      /\ e.gate \in Gates \cup Ending => DOMAIN wires = DOMAIN op.operands
  <2>1. N \in Nat /\ DOMAIN circuit.ops = 1..N
    BY CircuitTyped DEF Matched, IsCircuit
  <2>2. n + 1 \in 1..N
    BY <2>1
  <2> QED
    BY <2>1, <2>2 DEF Matched
<1>2. /\ op \in Op /\ op.operands \in Seq(Nat \X Nat) /\ Len(op.operands) \in Nat
      /\ DOMAIN op.operands = 1..Len(op.operands)
  BY <1>1, CircuitTyped DEF IsCircuit, Matched
<1>3. /\ e.gate \in Gates \cup Effects
      /\ \A q : UsesWire(e, q) <=> /\ e.gate \in Gates \cup Ending \cup {"alloc"}
                                   /\ \E k \in DOMAIN wires : wires[k] = q
      /\ e.gate \in Gates \cup Ending \cup {"alloc"} =>
            \A k, l \in DOMAIN wires : wires[k] = wires[l] => k = l
  BY <1>1, WiresByGate
<1>4. \A v : v \in Qubits(op) <=> /\ e.gate \in Gates \cup {"alloc"}
                                  /\ \E k \in DOMAIN wires : v = <<op.id, k>>
  BY <1>1, QubitsByWire
<1>r. new = Rebound(done, op, wires)
  OBVIOUS
<1>s. /\ done.crossed = FALSE
      /\ done.ops \in Seq(Op) /\ Len(done.ops) = n
      /\ \A m \in 1..n : IsBound(circuit, ord, u, m, done.ops[m])
      /\ \A q : q \in DOMAIN done.live <=> \E j : LastOn(u, q, n, j) /\ u[j].gate \notin Ending
      /\ \A q \in DOMAIN done.live : Supplied(circuit, ord, u, n, q, done.live[q])
  BY DEF SoFarBound
<1>5. /\ op.gate \in Gates \cup Ending => \A q : q \in Taken(op, wires) <=> UsesWire(e, q)
      /\ op.gate \notin Gates \cup Ending => Taken(op, wires) = {}
  <2>1. op.gate \in {"alloc", "barrier", "output"} <=> op.gate \notin Gates \cup Ending
    BY <1>1, <1>3 DEF Gates, Effects, Ending
  <2> HIDE DEF op, e
  <2> QED
    BY <1>1, <1>3, <2>1 DEF Taken
<1>6. /\ op.gate \in Gates \cup {"alloc"} => \A q : q \in Made(op, wires) <=> UsesWire(e, q)
      /\ op.gate \notin Gates \cup {"alloc"} => Made(op, wires) = {}
  <2> HIDE DEF op, e
  <2>1. ASSUME op.gate \in Gates \cup {"alloc"}, NEW q
        PROVE  q \in Made(op, wires) <=> UsesWire(e, q)
    <3>1. ASSUME q \in Made(op, wires)
          PROVE  UsesWire(e, q)
      <4>1. PICK v \in Qubits(op) : wires[v[2]] = q
        BY <3>1 DEF Made
      <4>2. PICK k \in DOMAIN wires : v = <<op.id, k>>
        BY <1>4
      <4>3. v[2] = k
        BY <4>2
      <4> QED
        BY <1>1, <1>3, <2>1, <4>1, <4>2, <4>3
    <3>2. ASSUME UsesWire(e, q)
          PROVE  q \in Made(op, wires)
      <4>1. PICK k \in DOMAIN wires : wires[k] = q
        BY <1>3, <3>2
      <4>2. <<op.id, k>> \in Qubits(op) /\ <<op.id, k>>[2] = k
        BY <1>1, <1>4, <2>1
      <4> QED
        BY <4>1, <4>2 DEF Made
    <3> QED
      BY <3>1, <3>2
  <2>2. ASSUME op.gate \notin Gates \cup {"alloc"}
        PROVE  Made(op, wires) = {}
    <3>1. Qubits(op) = {}
      BY <1>1, <1>4, <2>2
    <3> QED
      BY <3>1 DEF Made
  <2> QED
    BY <2>1, <2>2
<1>7. ASSUME NEW q, q \in Taken(op, wires)
      PROVE  q \in DOMAIN done.live
  <2>1. UsesWire(e, q) /\ e.gate # "alloc"
    BY <1>1, <1>5, <1>7 DEF Gates, Ending
  <2>2. PICK j : LastOn(u, q, (n + 1) - 1, j) /\ u[j].gate \notin Ending
    BY <1>1, <2>1, LastBefore
  <2>3. (n + 1) - 1 = n
    OBVIOUS
  <2> QED
    BY <1>s, <2>2, <2>3
<1> HIDE DEF op, e, bound, N
<1>8. new = Rebinding(done, op, wires)
  BY <1>7, <1>r, <1>s, ReboundGoes
<1>9. new = [ops |-> Append(done.ops, last),
             live |-> [q \in (DOMAIN done.live \ Taken(op, wires)) \cup Made(op, wires) |->
                          IF q \in Made(op, wires) THEN CHOOSE v \in Qubits(op) : wires[v[2]] = q
                          ELSE done.live[q]],
             crossed |-> FALSE]
  BY <1>8 DEF bound, Rebinding
<1>10. /\ op.gate \in Gates \cup Ending => bound = [k \in DOMAIN op.operands |-> done.live[wires[k]]]
       /\ op.gate \notin Gates \cup Ending => bound = op.operands
  <2>1. CASE Taken(op, wires) = {}
    <3>1. bound = op.operands
      BY <2>1 DEF bound, BoundTo
    <3>2. op.gate \in Gates \cup Ending => DOMAIN op.operands = {}
      <4> SUFFICES ASSUME op.gate \in Gates \cup Ending, NEW k \in DOMAIN op.operands
                   PROVE  FALSE
        OBVIOUS
      <4>1. k \in DOMAIN wires
        BY <1>1
      <4> QED
        BY <1>1, <1>3, <1>5, <2>1, <4>1
    <3>3. op.operands = [k \in DOMAIN op.operands |-> op.operands[k]]
      <4> DEFINE xs == op.operands
                 S == Nat \X Nat
      <4>1. xs \in Seq(S)
        BY <1>2
      <4> HIDE DEF xs, S
      <4>2. xs = [k \in DOMAIN xs |-> xs[k]]
        BY <4>1
      <4> QED
        BY <4>2 DEF xs
    <3>4. op.gate \in Gates \cup Ending =>
              [k \in DOMAIN op.operands |-> op.operands[k]] = [k \in DOMAIN op.operands |-> done.live[wires[k]]]
      BY <3>2
    <3> QED
      BY <3>1, <3>3, <3>4
  <2>2. CASE Taken(op, wires) # {}
    BY <1>1, <1>5, <2>2 DEF bound, BoundTo
  <2> QED
    BY <2>1, <2>2
<1>11. op.gate \in Gates \cup Ending =>
          \A k \in DOMAIN op.operands : Supplied(circuit, ord, u, n, wires[k], done.live[wires[k]])
  <2> SUFFICES ASSUME op.gate \in Gates \cup Ending, NEW k \in DOMAIN op.operands
               PROVE  Supplied(circuit, ord, u, n, wires[k], done.live[wires[k]])
    OBVIOUS
  <2>1. k \in DOMAIN wires
    BY <1>1
  <2>2. wires[k] \in Taken(op, wires)
    BY <1>1, <1>3, <1>5, <2>1
  <2> QED
    BY <1>7, <1>s, <2>2
<1>12. \A q, v : Supplied(circuit, ord, u, n, q, v) => v \in Nat \X Nat
  <2> TAKE q, v
  <2> HAVE Supplied(circuit, ord, u, n, q, v)
  <2>1. PICK j, k : /\ LastOn(u, q, n, j) /\ k \in DOMAIN u[j].qubits
                    /\ v = <<circuit.ops[ord[j]].id, k>>
    BY DEF Supplied
  <2>2. j \in 1..N
    BY <1>1, <2>1 DEF LastOn
  <2>3. k \in Nat
    BY <1>1, <2>1, <2>2, WiresByGate
  <2>4. ord[j] \in DOMAIN circuit.ops /\ circuit.ops[ord[j]] \in Op
    BY <2>2, CircuitTyped DEF Matched, IsCircuit, N
  <2> QED
    BY <2>1, <2>3, <2>4 DEF Op
<1>13. bound \in Seq(Nat \X Nat) /\ DOMAIN bound = DOMAIN op.operands /\ Len(bound) = Len(op.operands)
  <2>1. CASE op.gate \in Gates \cup Ending
    <3>1. bound \in [1..Len(op.operands) -> Nat \X Nat]
      BY <1>2, <1>10, <1>11, <1>12, <2>1
    <3> QED
      BY <1>2, <3>1, FunctionIsSeq
  <2>2. CASE op.gate \notin Gates \cup Ending
    BY <1>2, <1>10, <2>2
  <2> QED
    BY <2>1, <2>2
<1>14. /\ last \in Op /\ last.id = op.id /\ last.gate = op.gate /\ last.physical = op.physical
       /\ last.qubits = op.qubits /\ last.angle = op.angle /\ last.notes = op.notes /\ last.operands = bound
  BY <1>2, <1>13 DEF Op
<1> HIDE DEF last
<1>15. IsBound(circuit, ord, u, n + 1, last)
  <2>1. (n + 1) - 1 = n
    OBVIOUS
  <2>2. op.gate \in Gates \cup Ending =>
            \A k \in DOMAIN op.operands : Supplied(circuit, ord, u, (n + 1) - 1, u[n + 1].qubits[k], last.operands[k])
    BY <1>10, <1>11, <1>14, <2>1 DEF e
  <2>3. op.gate \notin Gates \cup Ending => last.operands = op.operands
    BY <1>10, <1>14
  <2> QED
    BY <1>13, <1>14, <2>2, <2>3 DEF IsBound, op
<1>16. /\ new.ops \in Seq(Op) /\ Len(new.ops) = n + 1
       /\ new.ops[n + 1] = last /\ \A m \in 1..n : new.ops[m] = done.ops[m]
  <2>1. new.ops = Append(done.ops, last)
    BY <1>9
  <2> QED
    BY <1>s, <1>14, <2>1
<1>17. \A m \in 1..(n + 1) : IsBound(circuit, ord, u, m, new.ops[m])
  <2> TAKE m \in 1..(n + 1)
  <2>1. CASE m = n + 1
    BY <1>15, <1>16, <2>1
  <2>2. CASE m \in 1..n
    BY <1>s, <1>16, <2>2
  <2> QED
    BY <2>1, <2>2
<1>18. /\ DOMAIN new.live = (DOMAIN done.live \ Taken(op, wires)) \cup Made(op, wires)
       /\ \A q \in DOMAIN new.live :
             new.live[q] = IF q \in Made(op, wires) THEN CHOOSE v \in Qubits(op) : wires[v[2]] = q
                           ELSE done.live[q]
  BY <1>9
<1>19. new.crossed = FALSE
  BY <1>9
<1>20. ASSUME NEW q
       PROVE  /\ q \in DOMAIN new.live <=> \E j : LastOn(u, q, n + 1, j) /\ u[j].gate \notin Ending
              /\ q \in DOMAIN new.live => Supplied(circuit, ord, u, n + 1, q, new.live[q])
  <2>1. CASE UsesWire(e, q)
    <3>1. \A j : LastOn(u, q, n + 1, j) <=> j = n + 1
      BY <2>1, LastOnNext DEF e
    <3>2. e.gate \in Gates \cup Ending \cup {"alloc"}
      BY <1>3, <2>1
    <3>3. CASE op.gate \in Gates \cup {"alloc"}
      <4>1. q \in Made(op, wires) /\ q \in DOMAIN new.live
        BY <1>6, <1>18, <2>1, <3>3
      <4>2. u[n + 1].gate \notin Ending
        BY <1>1, <3>3 DEF e, Gates, Ending
      <4>3. new.live[q] = CHOOSE v \in Qubits(op) : wires[v[2]] = q
        BY <1>18, <4>1
      <4>4. \E v \in Qubits(op) : wires[v[2]] = q
        BY <4>1 DEF Made
      <4>5. new.live[q] \in Qubits(op) /\ wires[new.live[q][2]] = q
        BY <4>3, <4>4
      <4>6. PICK k \in DOMAIN wires : new.live[q] = <<op.id, k>>
        BY <1>4, <4>5
      <4>7. wires[k] = q
        BY <4>5, <4>6
      <4>8. Supplied(circuit, ord, u, n + 1, q, new.live[q])
        BY <3>1, <4>2, <4>6, <4>7 DEF Supplied, e, op
      <4> QED
        BY <3>1, <4>1, <4>2, <4>8
    <3>4. CASE op.gate \notin Gates \cup {"alloc"}
      <4>1. op.gate \in Ending /\ u[n + 1].gate \in Ending
        BY <1>1, <3>2, <3>4 DEF e
      <4>2. q \in Taken(op, wires) /\ Made(op, wires) = {}
        BY <1>5, <1>6, <2>1, <3>4, <4>1
      <4>3. q \notin DOMAIN new.live
        BY <1>18, <4>2
      <4> QED
        BY <3>1, <4>1, <4>3
    <3> QED
      BY <3>3, <3>4
  <2>2. CASE ~UsesWire(e, q)
    <3>1. \A j : LastOn(u, q, n + 1, j) <=> LastOn(u, q, n, j)
      BY <2>2, LastOnNext DEF e
    <3>2. q \notin Taken(op, wires) /\ q \notin Made(op, wires)
      BY <1>5, <1>6, <2>2
    <3>3. q \in DOMAIN new.live <=> q \in DOMAIN done.live
      BY <1>18, <3>2
    <3>4. q \in DOMAIN new.live => new.live[q] = done.live[q]
      BY <1>18, <3>2
    <3>5. \A v : Supplied(circuit, ord, u, n, q, v) => Supplied(circuit, ord, u, n + 1, q, v)
      BY <3>1 DEF Supplied
    <3> QED
      BY <1>s, <3>1, <3>3, <3>4, <3>5
  <2> QED
    BY <2>1, <2>2
<1> QED
  BY <1>16, <1>17, <1>19, <1>20 DEF SoFarBound

\* The circuit with its operations in the order, their operands bound.
IsApplied(circuit, ord, u, new) ==
    /\ new = [stage |-> circuit.stage, target |-> circuit.target, ops |-> new.ops]
    /\ new.stage = circuit.stage /\ new.target = circuit.target
    /\ new.ops \in Seq(Op) /\ Len(new.ops) = Len(circuit.ops)
    /\ \A m \in 1..Len(circuit.ops) : IsBound(circuit, ord, u, m, new.ops[m])

\* What reordering starts from: the trace of a circuit the verifier accepts, and
\* an order that moves reach.
Reordering(circuit, ord, u) ==
    /\ MappedCircuit(circuit)
    /\ FencedOrder(Len(circuit.ops), ord, BuildTrace(circuit), u)
    /\ Matched(circuit, ord, u)

LEMMA OrderReorders ==
    ASSUME NEW circuit, MappedCircuit(circuit), NEW order \in OrdersWithin(BuildTrace(circuit))
    PROVE  /\ Reordering(circuit, order, Rearranged(BuildTrace(circuit), order))
           /\ Len(order) = Len(circuit.ops)
<1> DEFINE n == Len(circuit.ops)
           t == BuildTrace(circuit)
           u == Rearranged(t, order)
           place == Placement(circuit, Physical(circuit))
<1>1. IsCircuit(circuit) /\ n \in Nat /\ DOMAIN circuit.ops = 1..n
  BY CircuitTyped DEF MappedCircuit, IsCircuit
<1>2. WholeTrace(n, t)
  BY MappedWhole
<1>3. \A i \in 1..n : OnWires(circuit, place, i, t[i])
  BY <1>1, TraceOnWires DEF BuildTrace
<1> HIDE DEF n, t
<1>4. FencedOrder(n, order, t, u) /\ Len(order) = n
  BY <1>1, <1>2, OrderFenced DEF t
<1> HIDE DEF u, place
<1>5. WholeTrace(n, u)
  BY <1>1, <1>2, <1>4, WholeKept
<1>6. /\ order \in [1..n -> 1..n] /\ \A i, j \in 1..n : order[i] = order[j] => i = j
      /\ \A i \in 1..n : u[i] = t[order[i]]
  BY <1>4 DEF FencedOrder
<1>7. ASSUME NEW i \in 1..n
      PROVE  /\ u[i].gate = circuit.ops[order[i]].gate
             /\ u[i].gate \in Gates \cup Ending => DOMAIN u[i].qubits = DOMAIN circuit.ops[order[i]].operands
  <2>1. order[i] \in 1..n /\ u[i] = t[order[i]]
    BY <1>6
  <2>2. OnWires(circuit, place, order[i], t[order[i]])
    BY <1>3, <2>1
  <2> QED
    BY <2>1, <2>2 DEF OnWires, Ending
<1>8. Matched(circuit, order, u)
  BY <1>1, <1>5, <1>6, <1>7 DEF Matched, n
<1> QED
  BY <1>4, <1>8 DEF Reordering, n, t, u

LEMMA AppliedIs ==
    ASSUME NEW circuit, MappedCircuit(circuit), NEW order \in OrdersWithin(BuildTrace(circuit)),
           NEW applied, applied = ApplyOrder(circuit, BuildTrace(circuit), order)
    PROVE  ~applied.crossed /\ IsApplied(circuit, order, Rearranged(BuildTrace(circuit), order), applied.circuit)
<1> DEFINE n == Len(circuit.ops)
           t == BuildTrace(circuit)
           u == Rearranged(t, order)
           done == CHOOSE done : IsRebinding(circuit, t, order, Len(order), done)
           S == {k \in Nat : k <= n => SoFarBound(circuit, order, u, k, done[k])}
           new == applied.circuit
<1>1. /\ IsCircuit(circuit) /\ n \in Nat /\ DOMAIN circuit.ops = 1..n
      /\ circuit = [stage |-> circuit.stage, target |-> circuit.target, ops |-> circuit.ops]
  BY CircuitTyped DEF MappedCircuit, IsCircuit, Circuit
<1>2. applied = [crossed |-> done[Len(order)].crossed,
                 circuit |-> [circuit EXCEPT !.ops = done[Len(order)].ops]]
  BY Zenon DEF ApplyOrder, IsRebinding, Nothing
<1>3. Reordering(circuit, order, u) /\ Len(order) = n
  BY OrderReorders
<1>4. IsRebinding(circuit, t, order, n, done)
  BY <1>1, <1>3, RebindingExists
<1> HIDE DEF done, u, t, n
<1>5. Matched(circuit, order, u) /\ \A i \in 1..n : u[i] = t[order[i]]
  BY <1>3 DEF Reordering, FencedOrder, n, t
<1>6. 0 \in S
  <2>1. done[0] = Nothing
    BY <1>1, <1>4 DEF IsRebinding
  <2>2. \A q, j : ~LastOn(u, q, 0, j)
    BY DEF LastOn
  <2>3. SoFarBound(circuit, order, u, 0, Nothing)
    BY <2>2 DEF SoFarBound, Nothing
  <2> QED
    BY <2>1, <2>3
<1>7. ASSUME NEW k \in Nat, k \in S
      PROVE  k + 1 \in S
  <2> SUFFICES ASSUME k + 1 <= n
               PROVE  SoFarBound(circuit, order, u, k + 1, done[k + 1])
    OBVIOUS
  <2>1. k + 1 \in 0..n /\ k + 1 # 0 /\ (k + 1) - 1 = k /\ k <= n /\ k + 1 \in 1..n
    BY <1>1
  <2>2. done[k + 1] = Rebound(done[k], circuit.ops[order[k + 1]], u[k + 1].qubits)
    <3>1. done[k + 1] = IF k + 1 = 0 THEN Nothing
                        ELSE Rebound(done[(k + 1) - 1], circuit.ops[order[k + 1]], t[order[k + 1]].qubits)
      BY <1>4, <2>1 DEF IsRebinding
    <3> QED
      BY <1>5, <2>1, <3>1
  <2>3. SoFarBound(circuit, order, u, k, done[k])
    BY <1>7, <2>1
  <2>4. k + 1 <= Len(circuit.ops)
    BY DEF n
  <2> QED
    BY <1>5, <2>2, <2>3, <2>4, BoundStep
<1> HIDE DEF S
<1>8. n \in S
  BY <1>1, <1>6, <1>7, Induct
<1>9. SoFarBound(circuit, order, u, n, done[n])
  BY <1>1, <1>8 DEF S
<1>10. applied = [crossed |-> done[n].crossed, circuit |-> [circuit EXCEPT !.ops = done[n].ops]]
  BY <1>2, <1>3
<1>11. ~applied.crossed
  BY <1>9, <1>10 DEF SoFarBound
<1>12. new = [circuit EXCEPT !.ops = done[n].ops]
  BY <1>10
<1>13. /\ new = [stage |-> circuit.stage, target |-> circuit.target, ops |-> new.ops]
       /\ new.ops = done[n].ops /\ new.stage = circuit.stage /\ new.target = circuit.target
  <2> HIDE DEF new
  <2> QED
    BY <1>1, <1>12
<1> HIDE DEF new
<1>14. /\ new.ops \in Seq(Op) /\ Len(new.ops) = n
       /\ \A m \in 1..n : IsBound(circuit, order, u, m, new.ops[m])
  BY <1>9, <1>13 DEF SoFarBound
<1>15. IsApplied(circuit, order, u, new)
  BY <1>13, <1>14 DEF IsApplied, n
<1> QED
  BY <1>11, <1>15 DEF u, t, new

LEMMA AppliedParts ==
    ASSUME NEW circuit, NEW ord, NEW u, Reordering(circuit, ord, u), NEW new, IsApplied(circuit, ord, u, new)
    PROVE  /\ IsCircuit(new) /\ AllocIds(new) = AllocIds(circuit) /\ Physical(new) = Physical(circuit)
           /\ Len(new.ops) = Len(circuit.ops)
<1> DEFINE n == Len(circuit.ops)
<1>1. /\ IsCircuit(circuit) /\ circuit \in Circuit /\ n \in Nat /\ DOMAIN circuit.ops = 1..n
      /\ WholeTrace(n, u)
  BY CircuitTyped DEF Reordering, Matched, IsCircuit
<1>2. /\ ord \in [1..n -> 1..n] /\ \A i, j \in 1..n : ord[i] = ord[j] => i = j
  BY DEF Reordering, Matched
<1>3. \A c \in 1..n : \E m \in 1..n : ord[m] = c
  BY <1>1, <1>2, OrderOnto
<1>4. /\ new.ops \in Seq(Op) /\ Len(new.ops) = n /\ DOMAIN new.ops = 1..n
      /\ \A m \in 1..n : IsBound(circuit, ord, u, m, new.ops[m])
  BY LenProperties DEF IsApplied
<1>5. new \in Circuit
  <2>1. circuit.stage \in {"none", "logical", "architecture"}
        /\ circuit.target \in SUBSET [numQubits : Int, coupling : SUBSET (Int \X Int), directed : BOOLEAN]
    BY <1>1 DEF Circuit
  <2>2. new = [stage |-> circuit.stage, target |-> circuit.target, ops |-> new.ops]
    BY DEF IsApplied
  <2> DEFINE targets == SUBSET [numQubits : Int, coupling : SUBSET (Int \X Int), directed : BOOLEAN]
  <2> HIDE DEF targets
  <2>3. new \in [stage : {"none", "logical", "architecture"}, target : targets, ops : Seq(Op)]
    BY <1>4, <2>1, <2>2 DEF targets
  <2> QED
    BY <2>3 DEF Circuit, targets
<1> HIDE DEF n
<1>6. \A m \in 1..n : ord[m] \in 1..n /\ ord[m] \in DOMAIN circuit.ops
  BY <1>1, <1>2
<1>7. \A m \in 1..n : /\ new.ops[m].id = circuit.ops[ord[m]].id /\ new.ops[m].gate = circuit.ops[ord[m]].gate
                      /\ new.ops[m].physical = circuit.ops[ord[m]].physical
                      /\ new.ops[m].angle = circuit.ops[ord[m]].angle
                      /\ Len(new.ops[m].operands) = Len(circuit.ops[ord[m]].operands)
  BY <1>4 DEF IsBound
<1>8. ASSUME NEW i \in 1..n, NEW j \in 1..n, new.ops[i].id = new.ops[j].id
      PROVE  i = j
  <2>1. circuit.ops[ord[i]].id = circuit.ops[ord[j]].id
    BY <1>7, <1>8
  <2>2. ord[i] = ord[j]
    BY <1>1, <1>6, <2>1 DEF IsCircuit
  <2> QED
    BY <1>2, <2>2
<1>9. ASSUME NEW i \in 1..n
      PROVE  LET op == new.ops[i]
             IN  /\ op.gate \in Gates => Len(op.operands) = Arity(op.gate)
                 /\ op.gate \in {"measure", "discard"} => Len(op.operands) = 1
                 /\ op.gate \in {"alloc", "barrier"} => op.operands = <<>>
                 /\ op.angle # {} => op.gate = "rz"
  <2> DEFINE old == circuit.ops[ord[i]]
  <2>1. /\ old.gate \in Gates => Len(old.operands) = Arity(old.gate)
        /\ old.gate \in {"measure", "discard"} => Len(old.operands) = 1
        /\ old.gate \in {"alloc", "barrier"} => old.operands = <<>>
        /\ old.angle # {} => old.gate = "rz"
    BY <1>1, <1>6 DEF IsCircuit
  <2>2. new.ops[i].gate = old.gate /\ Len(new.ops[i].operands) = Len(old.operands) /\ new.ops[i].angle = old.angle
    BY <1>7
  <2>3. new.ops[i].operands \in Seq(Nat \X Nat)
    BY <1>4, <1>5, CircuitTyped
  <2>4. old.operands = <<>> => Len(old.operands) = 0
    OBVIOUS
  <2> HIDE DEF old
  <2>5. Len(new.ops[i].operands) = 0 => new.ops[i].operands = <<>>
    BY <2>3
  <2> QED
    BY <2>1, <2>2, <2>4, <2>5
<1>10. IsCircuit(new)
  BY <1>4, <1>5, <1>8, <1>9 DEF IsCircuit
<1>11. \A id : id \in AllocIds(new) <=> \E m \in 1..n : new.ops[m].gate = "alloc" /\ new.ops[m].id = id
  BY <1>4 DEF AllocIds, ToSet
<1>12. \A id : id \in AllocIds(circuit) <=> \E i \in 1..n : circuit.ops[i].gate = "alloc" /\ circuit.ops[i].id = id
  BY <1>1 DEF AllocIds, ToSet
<1>13. AllocIds(new) = AllocIds(circuit)
  <2>1. \A id : id \in AllocIds(new) => id \in AllocIds(circuit)
    BY <1>6, <1>7, <1>11, <1>12
  <2>2. ASSUME NEW id \in AllocIds(circuit)
        PROVE  id \in AllocIds(new)
    <3>1. PICK i \in 1..n : circuit.ops[i].gate = "alloc" /\ circuit.ops[i].id = id
      BY <1>12
    <3>2. PICK m \in 1..n : ord[m] = i
      BY <1>3
    <3> QED
      BY <1>7, <1>11, <3>1, <3>2
  <2> QED
    BY <2>1, <2>2
<1>14. ASSUME NEW id \in AllocIds(new)
       PROVE  Physical(new)[id] = Physical(circuit)[id]
  <2>1. PICK m \in 1..n : new.ops[m].gate = "alloc" /\ new.ops[m].id = id
    BY <1>11
  <2>2. /\ circuit.ops[ord[m]].gate = "alloc" /\ circuit.ops[ord[m]].id = id
        /\ new.ops[m].physical = circuit.ops[ord[m]].physical /\ ord[m] \in DOMAIN circuit.ops
    BY <1>6, <1>7, <2>1
  <2>3. Physical(new)[id] = IF new.ops[m].physical = {} THEN Unplaced ELSE CHOOSE p \in new.ops[m].physical : TRUE
    BY <1>4, <1>10, <2>1, PhysicalIs
  <2>4. Physical(circuit)[id] = IF circuit.ops[ord[m]].physical = {} THEN Unplaced
                                ELSE CHOOSE p \in circuit.ops[ord[m]].physical : TRUE
    BY <1>1, <2>2, PhysicalIs
  <2> QED
    BY <2>2, <2>3, <2>4
<1>15. Physical(new) = Physical(circuit)
  BY <1>13, <1>14 DEF Physical
<1> QED
  BY <1>4, <1>10, <1>13, <1>15 DEF n

\* What the operations of the reordered circuit are.
LEMMA AppliedOps ==
    ASSUME NEW circuit, NEW ord, NEW u, Reordering(circuit, ord, u), NEW new, IsApplied(circuit, ord, u, new)
    PROVE  /\ Len(circuit.ops) \in Nat /\ DOMAIN circuit.ops = 1..Len(circuit.ops) /\ DOMAIN new.ops = 1..Len(circuit.ops)
           /\ WholeTrace(Len(circuit.ops), u)
           /\ \A m \in 1..Len(circuit.ops) :
                 /\ ord[m] \in 1..Len(circuit.ops)
                 /\ new.ops[m].gate = u[m].gate /\ circuit.ops[ord[m]].gate = u[m].gate
                 /\ new.ops[m].id = circuit.ops[ord[m]].id
                 /\ u[m].gate \in Gates \cup Ending => DOMAIN new.ops[m].operands = DOMAIN u[m].qubits
<1>1. /\ Len(circuit.ops) \in Nat /\ DOMAIN circuit.ops = 1..Len(circuit.ops)
      /\ Matched(circuit, ord, u)
  BY CircuitTyped DEF Reordering, Matched, IsCircuit
<1>2. DOMAIN new.ops = 1..Len(circuit.ops)
  BY LenProperties DEF IsApplied
<1>3. ASSUME NEW m \in 1..Len(circuit.ops)
      PROVE  /\ new.ops[m].gate = circuit.ops[ord[m]].gate /\ new.ops[m].id = circuit.ops[ord[m]].id
             /\ DOMAIN new.ops[m].operands = DOMAIN circuit.ops[ord[m]].operands
  <2>1. IsBound(circuit, ord, u, m, new.ops[m])
    BY DEF IsApplied
  <2> QED
    BY <2>1 DEF IsBound
<1>4. ASSUME NEW m \in 1..Len(circuit.ops)
      PROVE  /\ ord[m] \in 1..Len(circuit.ops) /\ circuit.ops[ord[m]].gate = u[m].gate
             /\ u[m].gate \in Gates \cup Ending => DOMAIN u[m].qubits = DOMAIN circuit.ops[ord[m]].operands
  BY <1>1 DEF Matched
<1>5. WholeTrace(Len(circuit.ops), u)
  BY <1>1 DEF Matched
<1> QED
  BY <1>1, <1>2, <1>3, <1>4, <1>5

LEMMA AppliedQubit ==
    ASSUME NEW circuit, NEW ord, NEW u, Reordering(circuit, ord, u), NEW new, IsApplied(circuit, ord, u, new),
           NEW m \in 1..Len(circuit.ops), NEW v
    PROVE  /\ Qubits(new.ops[m]) = Qubits(circuit.ops[ord[m]])
           /\ Values(new.ops[m]) = Values(circuit.ops[ord[m]])
           /\ v \in Qubits(new.ops[m]) <=>
                 /\ u[m].gate \in Gates \cup {"alloc"}
                 /\ \E k \in DOMAIN u[m].qubits : v = <<new.ops[m].id, k>>
<1>1. /\ new.ops[m].gate = circuit.ops[ord[m]].gate /\ new.ops[m].id = circuit.ops[ord[m]].id
      /\ Matched(circuit, ord, u)
  BY AppliedOps DEF Reordering
<1>2. Values(new.ops[m]) = Values(circuit.ops[ord[m]])
  BY <1>1 DEF Values, ResultCount
<1>3. Qubits(new.ops[m]) = Qubits(circuit.ops[ord[m]])
  BY <1>1, <1>2 DEF Qubits
<1>4. v \in Qubits(circuit.ops[ord[m]]) <=>
          /\ u[m].gate \in Gates \cup {"alloc"}
          /\ \E k \in DOMAIN u[m].qubits : v = <<circuit.ops[ord[m]].id, k>>
  BY <1>1, QubitsByWire
<1> QED
  BY <1>1, <1>2, <1>3, <1>4

\* An operand comes from the last operation before on its wire.
SuppliedBy(u, m, k, j, l) ==
    /\ LastOn(u, u[m].qubits[k], m - 1, j) /\ u[j].gate \in Gates \cup {"alloc"}
    /\ k \in DOMAIN u[m].qubits /\ UsesWire(u[m], u[m].qubits[k])
    /\ l \in DOMAIN u[j].qubits /\ u[j].qubits[l] = u[m].qubits[k]

LEMMA AppliedSource ==
    ASSUME NEW circuit, NEW ord, NEW u, Reordering(circuit, ord, u), NEW new, IsApplied(circuit, ord, u, new),
           NEW m, NEW k, NEW v, Use(new, v, m, k), u[m].gate \in Gates \cup Ending
    PROVE  \E j, l : SuppliedBy(u, m, k, j, l) /\ v = <<new.ops[j].id, l>> /\ IsQubit(new, v, j) /\ j < m
<1> DEFINE n == Len(circuit.ops)
           q == u[m].qubits[k]
<1>1. /\ n \in Nat /\ DOMAIN new.ops = 1..n /\ WholeTrace(n, u)
      /\ m \in 1..n /\ k \in DOMAIN new.ops[m].operands /\ new.ops[m].operands[k] = v
      /\ DOMAIN new.ops[m].operands = DOMAIN u[m].qubits
  BY AppliedOps DEF Use
<1>2. IsBound(circuit, ord, u, m, new.ops[m])
  BY <1>1 DEF IsApplied
<1>3. circuit.ops[ord[m]].gate = u[m].gate
  BY <1>1, AppliedOps
<1>4. Supplied(circuit, ord, u, m - 1, q, v)
  BY <1>1, <1>2, <1>3 DEF IsBound
<1>5. PICK j, l : /\ LastOn(u, q, m - 1, j) /\ u[j].gate \notin Ending
                  /\ l \in DOMAIN u[j].qubits /\ u[j].qubits[l] = q
                  /\ v = <<circuit.ops[ord[j]].id, l>>
  BY <1>4 DEF Supplied
<1>6. j \in 1..n /\ j < m /\ UsesWire(u[j], q)
  BY <1>1, <1>5 DEF LastOn
<1>7. u[j].gate \in Gates \cup {"alloc"}
  <2>1. u[j].gate \in Gates \cup Ending \cup {"alloc"}
    BY <1>1, <1>6, GateOnWire
  <2> QED
    BY <1>5, <2>1
<1>8. UsesWire(u[m], q)
  <2>1. u[m].gate \in Gates \cup Ending \cup {"alloc"} /\ k \in DOMAIN u[m].qubits
    BY <1>1
  <2> QED
    BY <1>1, <2>1, WiresByGate
<1>9. new.ops[j].id = circuit.ops[ord[j]].id
  BY <1>6, AppliedOps
<1>10. IsQubit(new, v, j)
  <2>1. v \in Qubits(new.ops[j])
    BY <1>5, <1>6, <1>7, <1>9, AppliedQubit
  <2> QED
    BY <1>1, <1>6, <2>1 DEF IsQubit
<1> QED
  BY <1>1, <1>5, <1>6, <1>7, <1>8, <1>9, <1>10 DEF SuppliedBy

\* The output is last, as it was.
LEMMA OutputLast ==
    ASSUME NEW circuit, NEW ord, NEW u, Reordering(circuit, ord, u), NEW m \in 1..Len(circuit.ops)
    PROVE  /\ (u[m].gate = "output") = (m = Len(circuit.ops))
           /\ m = Len(circuit.ops) => ord[m] = m
<1> DEFINE n == Len(circuit.ops)
<1>1. /\ n \in Nat /\ DOMAIN circuit.ops = 1..n /\ Matched(circuit, ord, u) /\ n > 0
      /\ \A i \in 1..n : (circuit.ops[i].gate = "output") = (i = n)
  BY CircuitTyped DEF Reordering, Matched, IsCircuit, MappedCircuit, CircuitVerifies
<1>2. /\ ord \in [1..n -> 1..n]
      /\ \A i, j \in 1..n : ord[i] = ord[j] => i = j
      /\ \A i \in 1..n : u[i].gate = circuit.ops[ord[i]].gate
  BY <1>1 DEF Matched
<1>f. \A i, j \in 1..n : i < j /\ ~(u[i].movable /\ u[j].movable) => ord[i] < ord[j]
  BY DEF Reordering, FencedOrder
<1> HIDE DEF n
<1>3. PICK x \in 1..n : ord[x] = n
  <2>1. \A c \in 1..n : \E y \in 1..n : ord[y] = c
    BY <1>1, <1>2, OrderOnto
  <2> QED
    BY <1>1, <2>1
<1>4. ~u[x].movable
  <2>1. u[x].gate = "output"
    BY <1>1, <1>2, <1>3
  <2>2. IsEvent(u[x])
    BY <1>1 DEF Matched, WholeTrace, n
  <2> QED
    BY <2>1, <2>2 DEF IsEvent, Gates
<1>5. x = n
  <2> SUFFICES ASSUME x # n
               PROVE  FALSE
    OBVIOUS
  <2>1. n \in 1..n /\ x < n
    BY <1>1
  <2>2. ord[x] < ord[n] /\ ord[n] \in 1..n
    BY <1>2, <1>4, <1>f, <2>1
  <2> QED
    BY <1>1, <1>3, <2>2
<1>6. (u[m].gate = "output") = (ord[m] = n)
  <2>1. ord[m] \in 1..n
    BY <1>2 DEF n
  <2> QED
    BY <1>1, <1>2, <2>1 DEF n
<1>7. (ord[m] = n) = (m = n)
  BY <1>2, <1>3, <1>5 DEF n
<1> QED
  BY <1>6, <1>7 DEF n

LEMMA AppliedDefined ==
    ASSUME NEW circuit, NEW ord, NEW u, Reordering(circuit, ord, u), NEW new, IsApplied(circuit, ord, u, new)
    PROVE  OperandsDefined(new)
<1> DEFINE n == Len(circuit.ops)
<1>1. /\ n \in Nat /\ DOMAIN circuit.ops = 1..n /\ DOMAIN new.ops = 1..n /\ WholeTrace(n, u)
      /\ Matched(circuit, ord, u) /\ OperandsDefined(circuit) /\ IsCircuit(circuit) /\ IsCircuit(new)
  BY AppliedOps, AppliedParts DEF Reordering, MappedCircuit, CircuitVerifies
<1> SUFFICES ASSUME NEW m \in 1..n, NEW k \in DOMAIN new.ops[m].operands
             PROVE  \E j \in 1..(m - 1) :
                       new.ops[m].operands[k] \in
                          IF new.ops[m].gate = "output" THEN Values(new.ops[j]) \ Qubits(new.ops[j])
                                                        ELSE Qubits(new.ops[j])
  BY <1>1 DEF OperandsDefined
<1>2. new.ops[m].gate = u[m].gate /\ circuit.ops[ord[m]].gate = u[m].gate
  BY AppliedOps
<1>3. CASE u[m].gate \in Gates \cup Ending
  <2>1. Use(new, new.ops[m].operands[k], m, k)
    BY <1>1 DEF Use
  <2>2. PICK j, l : IsQubit(new, new.ops[m].operands[k], j) /\ j < m
    BY <1>3, <2>1, AppliedSource
  <2>3. j \in 1..(m - 1) /\ new.ops[m].operands[k] \in Qubits(new.ops[j])
    BY <1>1, <2>2 DEF IsQubit
  <2>4. new.ops[m].gate # "output"
    BY <1>2, <1>3 DEF Gates, Ending
  <2> QED
    BY <2>3, <2>4
<1>4. CASE u[m].gate = "output"
  <2>1. m = n /\ ord[m] = n
    BY <1>4, OutputLast
  <2>2. IsBound(circuit, ord, u, m, new.ops[m])
    BY DEF IsApplied
  <2>3. new.ops[m].operands = circuit.ops[n].operands
    BY <1>2, <1>4, <2>1, <2>2 DEF IsBound, Gates, Ending
  <2>4. PICK i \in 1..(n - 1) : new.ops[m].operands[k] \in Values(circuit.ops[i]) \ Qubits(circuit.ops[i])
    <3>1. n \in DOMAIN circuit.ops /\ k \in DOMAIN circuit.ops[n].operands /\ circuit.ops[n].gate = "output"
      BY <1>1, <1>2, <1>4, <2>1, <2>3
    <3> QED
      BY <1>1, <2>3, <3>1 DEF OperandsDefined
  <2>5. PICK j \in 1..n : ord[j] = i
    <3>1. ord \in [1..n -> 1..n] /\ \A a, b \in 1..n : ord[a] = ord[b] => a = b
      BY <1>1 DEF Matched
    <3>2. i \in 1..n
      BY <1>1
    <3> HIDE DEF n
    <3> QED
      BY <1>1, <3>1, <3>2, OrderOnto
  <2>6. j \in 1..(m - 1)
    BY <1>1, <2>1, <2>4, <2>5
  <2>7. Values(new.ops[j]) = Values(circuit.ops[i]) /\ Qubits(new.ops[j]) = Qubits(circuit.ops[i])
    BY <2>5, AppliedQubit
  <2> QED
    BY <1>2, <1>4, <2>4, <2>6, <2>7
<1>5. CASE u[m].gate \in {"alloc", "barrier"}
  <2>1. new.ops[m].operands = <<>>
    BY <1>1, <1>2, <1>5 DEF IsCircuit
  <2> QED
    BY <2>1
<1>6. u[m].gate \in Gates \cup Effects
  BY <1>1, WiresByGate
<1> QED
  BY <1>3, <1>4, <1>5, <1>6 DEF Effects, Ending

LEMMA AppliedOneUse ==
    ASSUME NEW circuit, NEW ord, NEW u, Reordering(circuit, ord, u), NEW new, IsApplied(circuit, ord, u, new),
           NEW m \in 1..Len(circuit.ops), NEW v \in Qubits(new.ops[m])
    PROVE  HasOneUse(new, v)
<1> DEFINE n == Len(circuit.ops)
<1>1. /\ n \in Nat /\ DOMAIN new.ops = 1..n /\ WholeTrace(n, u)
      /\ IsCircuit(new) /\ OperandsDefined(new)
  BY AppliedOps, AppliedParts, AppliedDefined
<1>2. \A i \in 1..n : /\ new.ops[i].gate = u[i].gate
                      /\ u[i].gate \in Gates \cup Ending => DOMAIN new.ops[i].operands = DOMAIN u[i].qubits
  BY AppliedOps
<1>3. PICK k \in DOMAIN u[m].qubits : v = <<new.ops[m].id, k>> /\ u[m].gate \in Gates \cup {"alloc"}
  BY AppliedQubit
<1> DEFINE q == u[m].qubits[k]
<1>4. UsesWire(u[m], q) /\ u[m].gate \notin Ending
  <2>1. u[m].gate \in Gates \cup Ending \cup {"alloc"}
    BY <1>3
  <2>2. UsesWire(u[m], q)
    BY <1>1, <2>1, WiresByGate
  <2>3. u[m].gate \notin Ending
    BY <1>3 DEF Gates, Ending
  <2> QED
    BY <2>2, <2>3
<1>5. \A l \in DOMAIN u[m].qubits : u[m].qubits[l] = q => l = k
  BY <1>1, <1>3, WiresByGate
<1>6. v \in Values(new.ops[m]) /\ IsQubit(new, v, m)
  BY <1>1 DEF Qubits, IsQubit
<1> HIDE DEF q
<1>7. PICK i \in 1..n : m < i /\ UsesWire(u[i], q) /\ u[i].gate # "alloc" /\ LastOn(u, q, i - 1, m)
  BY <1>1, <1>4, NextAfter
<1>8. u[i].gate \in Gates \cup Ending /\ \E l \in DOMAIN u[i].qubits : u[i].qubits[l] = q
  <2>1. u[i].gate \in Gates \cup Ending \cup {"alloc"}
    BY <1>1, <1>7, GateOnWire
  <2>2. \E l \in DOMAIN u[i].qubits : u[i].qubits[l] = q
    BY <1>7 DEF UsesWire, WiresOf
  <2> QED
    BY <1>7, <2>1, <2>2
<1>9. PICK l \in DOMAIN u[i].qubits : u[i].qubits[l] = q
  BY <1>8
<1>10. Use(new, v, i, l)
  <2> DEFINE w == new.ops[i].operands[l]
  <2>1. Use(new, w, i, l)
    BY <1>1, <1>2, <1>8, <1>9 DEF Use
  <2> HIDE DEF w
  <2>2. PICK j, h : SuppliedBy(u, i, l, j, h) /\ w = <<new.ops[j].id, h>>
    BY <1>8, <2>1, AppliedSource
  <2>3. LastOn(u, q, i - 1, j) /\ h \in DOMAIN u[j].qubits /\ u[j].qubits[h] = q
    BY <1>9, <2>2 DEF SuppliedBy
  <2>4. i - 1 \in Nat
    BY <1>1, <1>7
  <2>5. j = m
    BY <1>7, <2>3, <2>4, LastOnOne
  <2>6. h = k
    BY <1>5, <2>3, <2>5
  <2> QED
    BY <1>3, <2>1, <2>2, <2>5, <2>6
<1>11. ASSUME NEW x, NEW y, Use(new, v, x, y)
       PROVE  x = i /\ y = l
  <2>1. x \in 1..n /\ y \in DOMAIN new.ops[x].operands /\ new.ops[x].operands[y] = v
    BY <1>1, <1>11 DEF Use
  <2>2. u[x].gate # "output"
    <3> SUFFICES ASSUME u[x].gate = "output"
                 PROVE  FALSE
      OBVIOUS
    <3>1. PICK j \in 1..(x - 1) : v \in Values(new.ops[j]) \ Qubits(new.ops[j])
      <4>1. new.ops[x].gate = "output" /\ x \in DOMAIN new.ops
        BY <1>1, <1>2, <2>1
      <4> QED
        BY <1>1, <2>1, <4>1 DEF OperandsDefined
    <3>2. j \in DOMAIN new.ops /\ m \in DOMAIN new.ops
      BY <1>1, <2>1
    <3>3. j = m
      BY <1>1, <1>6, <3>1, <3>2, ValuesApart
    <3> QED
      BY <3>1, <3>3
  <2>3. u[x].gate \notin {"alloc", "barrier"}
    <3> SUFFICES ASSUME u[x].gate \in {"alloc", "barrier"}
                 PROVE  FALSE
      OBVIOUS
    <3>1. new.ops[x].operands = <<>>
      BY <1>1, <1>2, <2>1 DEF IsCircuit
    <3> QED
      BY <2>1, <3>1
  <2>4. u[x].gate \in Gates \cup Ending
    <3>1. u[x].gate \in Gates \cup Effects
      BY <1>1, <2>1, WiresByGate
    <3> QED
      BY <2>2, <2>3, <3>1 DEF Effects, Ending
  <2>5. PICK j, h : SuppliedBy(u, x, y, j, h) /\ v = <<new.ops[j].id, h>> /\ IsQubit(new, v, j)
    BY <1>11, <2>4, AppliedSource
  <2>6. j = m
    <3>1. j \in DOMAIN new.ops /\ v \in Values(new.ops[j])
      BY <2>5 DEF IsQubit, Qubits
    <3> QED
      BY <1>1, <1>6, <3>1, ValuesApart
  <2>7. h = k
    BY <1>3, <2>5
  <2>8. /\ LastOn(u, q, x - 1, m) /\ UsesWire(u[x], q) /\ y \in DOMAIN u[x].qubits /\ u[x].qubits[y] = q
    BY <2>5, <2>6, <2>7 DEF SuppliedBy, q
  <2>9. ~(i < x)
    <3> SUFFICES ASSUME i < x
                 PROVE  FALSE
      OBVIOUS
    <3>1. i \in (m + 1)..(x - 1)
      BY <1>1, <1>7, <2>1
    <3> QED
      BY <1>7, <2>8, <3>1 DEF LastOn
  <2>10. ~(x < i)
    <3> SUFFICES ASSUME x < i
                 PROVE  FALSE
      OBVIOUS
    <3>1. x \in (m + 1)..(i - 1)
      BY <1>1, <1>7, <2>1, <2>8 DEF LastOn
    <3> QED
      BY <1>7, <2>8, <3>1 DEF LastOn
  <2>11. x = i
    BY <1>1, <2>1, <2>9, <2>10
  <2>12. y = l
    <3>1. \A a, b \in DOMAIN u[i].qubits : u[i].qubits[a] = u[i].qubits[b] => a = b
      BY <1>1, <1>8, WiresByGate
    <3> QED
      BY <1>9, <2>8, <2>11, <3>1
  <2> QED
    BY <2>11, <2>12
<1>12. new \in Circuit
  BY <1>1 DEF IsCircuit
<1> QED
  BY <1>10, <1>11, <1>12, OneUse

\* A result is on the wire its operation had.
LEMMA AppliedWires ==
    ASSUME NEW circuit, NEW ord, NEW u, Reordering(circuit, ord, u), NEW new, IsApplied(circuit, ord, u, new),
           NEW m \in 1..Len(circuit.ops), u[m].gate \in Gates \cup {"alloc"}, NEW k \in DOMAIN u[m].qubits
    PROVE  Placement(new, Physical(circuit))[<<new.ops[m].id, k>>] = u[m].qubits[k]
<1> DEFINE n == Len(circuit.ops)
           index == Physical(circuit)
           place == Placement(new, index)
           Right(x) == u[x].gate \in Gates \cup {"alloc"} =>
                          \A h \in DOMAIN u[x].qubits : place[<<new.ops[x].id, h>>] = u[x].qubits[h]
           S == {c \in Nat : \A x \in 1..n : x <= c => Right(x)}
<1>1. /\ n \in Nat /\ DOMAIN new.ops = 1..n /\ WholeTrace(n, u) /\ DOMAIN circuit.ops = 1..n
      /\ IsCircuit(new) /\ OperandsDefined(new)
  BY AppliedOps, AppliedParts, AppliedDefined
<1>2. \A i \in 1..n : /\ new.ops[i].gate = u[i].gate /\ circuit.ops[ord[i]].gate = u[i].gate
                      /\ ord[i] \in 1..n /\ new.ops[i].id = circuit.ops[ord[i]].id
                      /\ u[i].gate \in Gates \cup Ending => DOMAIN new.ops[i].operands = DOMAIN u[i].qubits
  BY AppliedOps
<1>3. ASSUME NEW x \in 1..n, \A y \in 1..(x - 1) : Right(y)
      PROVE  Right(x)
  <2> SUFFICES ASSUME u[x].gate \in Gates \cup {"alloc"}, NEW h \in DOMAIN u[x].qubits
               PROVE  place[<<new.ops[x].id, h>>] = u[x].qubits[h]
    OBVIOUS
  <2> DEFINE v == <<new.ops[x].id, h>>
  <2>1. v \in Qubits(new.ops[x])
    BY AppliedQubit
  <2>2. v[2] = h
    OBVIOUS
  <2> HIDE DEF v
  <2>3. FollowsWire(new, index, place, x, v)
    BY <1>1, <2>1, PlacementIs
  <2>4. CASE u[x].gate = "alloc"
    <3> HIDE DEF place
    <3>1. place[v] = index[circuit.ops[ord[x]].id]
      BY <1>2, <2>3, <2>4 DEF FollowsWire
    <3>2. /\ Rules(circuit, index, Placement(circuit, index)) /\ IsCircuit(circuit)
          /\ u[x] = BuildTrace(circuit)[ord[x]]
      BY MappedNumbered, RulesHold DEF Reordering, MappedCircuit, FencedOrder
    <3>3. IsAlloc(circuit, ord[x])
      BY <1>1, <1>2, <2>4 DEF IsAlloc
    <3>4. Placement(circuit, index)[<<circuit.ops[ord[x]].id, 1>>] = index[circuit.ops[ord[x]].id]
      BY <3>2, <3>3 DEF Rules
    <3>5. OnWires(circuit, Placement(circuit, index), ord[x], u[x])
      BY <1>1, <1>2, <3>2, TraceOnWires DEF BuildTrace
    <3>6. u[x].qubits = <<Placement(circuit, index)[<<circuit.ops[ord[x]].id, 1>>]>>
      BY <1>2, <2>4, <3>5 DEF OnWires
    <3>7. u[x].qubits[h] = index[circuit.ops[ord[x]].id]
      BY <3>4, <3>6
    <3> QED
      BY <3>1, <3>7 DEF v
  <2>5. CASE u[x].gate \in Gates
    <3> DEFINE w == new.ops[x].operands[h]
    <3>1. Use(new, w, x, h) /\ new.ops[x].gate # "alloc"
      BY <1>1, <1>2, <2>5 DEF Use, Gates
    <3>2. place[v] = place[w]
      BY <2>2, <2>3, <3>1 DEF FollowsWire
    <3> HIDE DEF w, place
    <3>3. PICK j, l : SuppliedBy(u, x, h, j, l) /\ w = <<new.ops[j].id, l>>
      BY <2>5, <3>1, AppliedSource
    <3>4. /\ j \in 1..(x - 1) /\ u[j].gate \in Gates \cup {"alloc"}
          /\ l \in DOMAIN u[j].qubits /\ u[j].qubits[l] = u[x].qubits[h]
      BY <3>3 DEF SuppliedBy, LastOn
    <3>5. place[<<new.ops[j].id, l>>] = u[j].qubits[l]
      BY <1>3, <3>4
    <3> QED
      BY <3>2, <3>3, <3>4, <3>5 DEF v
  <2> QED
    BY <2>4, <2>5
<1> HIDE DEF n, Right
<1>4. 0 \in S
  OBVIOUS
<1>5. ASSUME NEW c \in Nat, c \in S
      PROVE  c + 1 \in S
  <2>1. \A x \in 1..n : x <= c => Right(x)
    BY <1>5
  <2>2. ASSUME NEW x \in 1..n, x <= c + 1
        PROVE  Right(x)
    <3>1. \A y \in 1..(x - 1) : y \in 1..n /\ y <= c
      BY <1>1, <2>2
    <3> QED
      BY <1>3, <2>1, <3>1
  <2> QED
    BY <2>2
<1> HIDE DEF S
<1>6. n \in S
  BY <1>1, <1>4, <1>5, Induct
<1>7. Right(m)
  <2>1. m \in 1..n /\ m <= n
    BY <1>1 DEF n
  <2> QED
    BY <1>6, <2>1 DEF S
<1> QED
  BY <1>7 DEF Right

\* The trace of the reordered circuit is the reordered trace.
LEMMA AppliedTrace ==
    ASSUME NEW circuit, NEW ord, NEW u, Reordering(circuit, ord, u), NEW new, IsApplied(circuit, ord, u, new),
           NEW m \in 1..Len(circuit.ops)
    PROVE  BuildTrace(new)[m] = u[m]
<1> DEFINE n == Len(circuit.ops)
           index == Physical(circuit)
           there == Placement(circuit, index)
           here == Placement(new, index)
           op == circuit.ops[ord[m]]
           now == new.ops[m]
<1>1. /\ n \in Nat /\ DOMAIN new.ops = 1..n /\ WholeTrace(n, u) /\ DOMAIN circuit.ops = 1..n
      /\ IsCircuit(circuit)
  BY AppliedOps DEF Reordering, MappedCircuit
<1>2. /\ now.gate = u[m].gate /\ op.gate = u[m].gate /\ ord[m] \in 1..n /\ now.id = op.id
      /\ u[m].gate \in Gates \cup Ending => DOMAIN now.operands = DOMAIN u[m].qubits
  BY AppliedOps
<1>3. IsBound(circuit, ord, u, m, now)
  BY DEF IsApplied
<1>4. now.qubits = op.qubits /\ now.angle = op.angle /\ now.notes = op.notes
  BY <1>3 DEF IsBound
<1>5. u[m] = BuildTrace(circuit)[ord[m]] /\ Physical(new) = index
  BY AppliedParts DEF Reordering, FencedOrder
<1>6. u[m] = EventUnder(op, there)
  BY <1>1, <1>2, <1>5 DEF BuildTrace, TraceUnder
<1>7. OnWires(circuit, there, ord[m], u[m])
  BY <1>1, <1>2, <1>5, TraceOnWires DEF BuildTrace
<1>8. BuildTrace(new)[m] = EventUnder(now, here)
  BY <1>1, <1>5 DEF BuildTrace, TraceUnder
<1>9. u[m].gate \in Gates \cup Effects
  BY <1>1, WiresByGate
<1> HIDE DEF now, op, n, here, there, index
<1>10. u[m].qubits = WiresUnder(op, there)
  BY <1>6 DEF EventUnder
<1>11. CASE u[m].gate = "alloc"
  <2>1. DOMAIN u[m].qubits = {1}
    BY <1>1, <1>11, WiresByGate DEF n
  <2>2. here[<<now.id, 1>>] = u[m].qubits[1]
    BY <1>11, <2>1, AppliedWires DEF here, now, index
  <2>3. u[m].qubits = <<there[<<op.id, 1>>]>>
    BY <1>2, <1>10, <1>11 DEF WiresUnder
  <2>4. WiresUnder(now, here) = <<here[<<now.id, 1>>]>>
    BY <1>2, <1>11 DEF WiresUnder
  <2>5. WiresUnder(now, here) = WiresUnder(op, there)
    <3>1. u[m].qubits[1] = there[<<op.id, 1>>]
      BY <2>3
    <3> QED
      BY <1>10, <2>2, <2>3, <2>4, <3>1
  <2> QED
    BY <1>2, <1>4, <1>6, <1>8, <2>5 DEF EventUnder
<1>12. CASE u[m].gate \in {"barrier", "output"}
  <2>1. WiresUnder(now, here) = WiresUnder(op, there)
    BY <1>2, <1>4, <1>12 DEF WiresUnder
  <2> QED
    BY <1>2, <1>4, <1>6, <1>8, <2>1 DEF EventUnder
<1>13. CASE u[m].gate \in Gates \cup Ending
  <2>0. u[m].gate \notin {"alloc", "barrier", "output"}
    BY <1>13 DEF Gates, Ending
  <2>1. WiresUnder(now, here) = [k \in DOMAIN now.operands |-> here[now.operands[k]]]
    BY <1>2, <2>0 DEF WiresUnder
  <2>2. u[m].qubits = [k \in DOMAIN op.operands |-> there[op.operands[k]]]
    BY <1>2, <1>10, <2>0 DEF WiresUnder
  <2>3. u[m].qubits = [k \in DOMAIN u[m].qubits |-> u[m].qubits[k]]
    BY <2>2
  <2>4. ASSUME NEW k \in DOMAIN now.operands
        PROVE  here[now.operands[k]] = u[m].qubits[k]
    <3> DEFINE w == now.operands[k]
    <3>1. Use(new, w, m, k)
      BY <1>1 DEF Use, now, n
    <3> HIDE DEF w
    <3>2. PICK j, l : SuppliedBy(u, m, k, j, l) /\ w = <<new.ops[j].id, l>>
      BY <1>13, <3>1, AppliedSource
    <3>3. /\ j \in 1..(m - 1) /\ u[j].gate \in Gates \cup {"alloc"}
          /\ l \in DOMAIN u[j].qubits /\ u[j].qubits[l] = u[m].qubits[k]
      BY <3>2 DEF SuppliedBy, LastOn
    <3>4. j \in 1..Len(circuit.ops)
      BY <1>1, <3>3 DEF n
    <3>5. here[<<new.ops[j].id, l>>] = u[j].qubits[l]
      BY <3>3, <3>4, AppliedWires DEF here, index
    <3> QED
      BY <3>2, <3>3, <3>5 DEF w
  <2>5. WiresUnder(now, here) = u[m].qubits
    BY <1>2, <1>13, <2>1, <2>3, <2>4
  <2> QED
    BY <1>2, <1>4, <1>6, <1>8, <1>10, <2>5 DEF EventUnder
<1> QED
  BY <1>9, <1>11, <1>12, <1>13 DEF Effects, Ending

LEMMA AppliedOpVerifies ==
    ASSUME NEW circuit, NEW ord, NEW u, Reordering(circuit, ord, u), NEW new, IsApplied(circuit, ord, u, new),
           NEW m \in 1..Len(circuit.ops)
    PROVE  OpVerifies(new, new.ops[m])
<1> DEFINE op == circuit.ops[ord[m]]
           now == new.ops[m]
<1>1. /\ WholeTrace(Len(circuit.ops), u) /\ Len(circuit.ops) \in Nat /\ DOMAIN new.ops = 1..Len(circuit.ops)
      /\ IsCircuit(new) /\ new \in Circuit /\ ord[m] \in DOMAIN circuit.ops
      /\ now.gate = u[m].gate /\ op.gate = u[m].gate
      /\ u[m].gate \in Gates \cup Ending => DOMAIN now.operands = DOMAIN u[m].qubits
  BY AppliedOps, AppliedParts DEF IsCircuit
<1>2. IsBound(circuit, ord, u, m, now) /\ new.stage = circuit.stage
  BY DEF IsApplied
<1>3. now.qubits = op.qubits /\ now.physical = op.physical
  BY <1>2 DEF IsBound
<1>4. OpVerifies(circuit, op)
  BY <1>1 DEF Reordering, MappedCircuit, CircuitVerifies
<1>5. ASSUME now.gate \in {"cx", "cz"}
      PROVE  now.operands[1] # now.operands[2]
  <2>1. now.gate \in Gates /\ Arity(now.gate) = 2
    BY <1>5 DEF Gates, Arity
  <2>2. DOMAIN u[m].qubits = 1..Arity(u[m].gate)
        /\ \A k, l \in DOMAIN u[m].qubits : u[m].qubits[k] = u[m].qubits[l] => k = l
    BY <1>1, <2>1, WiresByGate
  <2>3. DOMAIN u[m].qubits = 1..2
    BY <1>1, <2>1, <2>2
  <2>a. DOMAIN now.operands = 1..2
    BY <1>1, <2>1, <2>3
  <2>4. u[m].qubits[1] # u[m].qubits[2]
    <3>1. 1 \in 1..2 /\ 2 \in 1..2 /\ 1 # 2
      OBVIOUS
    <3> QED
      BY <2>2, <2>3, <3>1
  <2> SUFFICES ASSUME now.operands[1] = now.operands[2]
               PROVE  FALSE
    OBVIOUS
  <2>5. Use(new, now.operands[1], m, 1) /\ Use(new, now.operands[1], m, 2)
    BY <1>1, <2>a DEF Use
  <2> DEFINE w == now.operands[1]
  <2> HIDE DEF w, now
  <2>6. PICK i, k : SuppliedBy(u, m, 1, i, k) /\ w = <<new.ops[i].id, k>> /\ IsQubit(new, w, i)
    BY <1>1, <2>1, <2>5, AppliedSource DEF w
  <2>7. PICK j, l : SuppliedBy(u, m, 2, j, l) /\ w = <<new.ops[j].id, l>> /\ IsQubit(new, w, j)
    BY <1>1, <2>1, <2>5, AppliedSource DEF w
  <2>8. i = j
    BY <1>1, <2>6, <2>7, ValuesApart DEF IsQubit, Qubits
  <2>9. k = l
    BY <2>6, <2>7
  <2> QED
    BY <2>4, <2>6, <2>7, <2>8, <2>9 DEF SuppliedBy
<1> HIDE DEF now, op
<1>6. OpVerifies(new, now)
  BY <1>1, <1>2, <1>3, <1>4, <1>5 DEF OpVerifies
<1> QED
  BY <1>6 DEF now

LEMMA AppliedVerifies ==
    ASSUME NEW circuit, NEW ord, NEW u, Reordering(circuit, ord, u), NEW new, IsApplied(circuit, ord, u, new)
    PROVE  MappedCircuit(new)
<1> DEFINE n == Len(circuit.ops)
           t == BuildTrace(circuit)
           now == BuildTrace(new)
           index == Physical(circuit)
<1>1. /\ n \in Nat /\ DOMAIN new.ops = 1..n /\ DOMAIN circuit.ops = 1..n
      /\ IsCircuit(new) /\ OperandsDefined(new) /\ Len(new.ops) = n
      /\ AllocIds(new) = AllocIds(circuit) /\ Physical(new) = index
  BY AppliedOps, AppliedParts, AppliedDefined
<1>2. /\ new.stage = "architecture" /\ new.stage = circuit.stage /\ new.target = circuit.target
      /\ CircuitVerifies(circuit) /\ MappedVerifies(circuit, index)
  BY DEF IsApplied, Reordering, MappedCircuit, CircuitVerifies
<1>3. ASSUME NEW m \in 1..n
      PROVE  /\ OpVerifies(new, new.ops[m])
             /\ (new.ops[m].gate = "output") = (m = n)
             /\ \A v \in Qubits(new.ops[m]) : HasOneUse(new, v)
  <2>1. new.ops[m].gate = u[m].gate
    BY AppliedOps
  <2> QED
    BY <2>1, AppliedOpVerifies, AppliedOneUse, OutputLast
<1>4. n > 0 /\ (new.target # {} => ParsesTarget(new)) /\ ParsesTarget(new)
  BY <1>2 DEF CircuitVerifies, MappedVerifies, ParsesTarget
<1>5. DOMAIN now = 1..n /\ \A m \in 1..n : now[m] = u[m]
  <2>1. DOMAIN now = 1..n
    BY <1>1 DEF BuildTrace, TraceUnder
  <2>2. \A m \in 1..n : now[m] = u[m]
    BY AppliedTrace
  <2> QED
    BY <2>1, <2>2
<1>6. DOMAIN t = 1..n
  BY <1>1 DEF BuildTrace, TraceUnder
<1>7. /\ ord \in [1..n -> 1..n] /\ \A i, j \in 1..n : ord[i] = ord[j] => i = j
      /\ \A i \in 1..n : u[i] = t[ord[i]]
      /\ \A i, j \in 1..n : i < j /\ ~(u[i].movable /\ u[j].movable) => ord[i] < ord[j]
  BY DEF Reordering, FencedOrder
<1>8. \A c \in 1..n : \E m \in 1..n : ord[m] = c
  <2>1. ord \in [1..n -> 1..n] /\ \A i, j \in 1..n : ord[i] = ord[j] => i = j
    BY <1>7
  <2> HIDE DEF n
  <2> QED
    BY <1>1, <2>1, OrderOnto
<1>9. \A i \in 1..n : IsEvent(u[i])
  BY DEF Reordering, Matched, WholeTrace
<1>10. now = TraceUnder(new, index) /\ t = TraceUnder(circuit, index)
  BY <1>1 DEF BuildTrace
<1> HIDE DEF n, t, now, index
<1>11. ASSUME NEW target \in circuit.target
       PROVE  /\ Allocatable(new, index, target)
              /\ \A i \in DOMAIN now :
                    /\ now[i].gate = "barrier" =>
                          \A k \in DOMAIN now[i].qubits : \E j \in 1..(i - 1) :
                             now[j].gate = "alloc" /\ now[j].qubits[1] = now[i].qubits[k]
                    /\ now[i].gate = "cx" => SupportsCX(target, now[i].qubits[1], now[i].qubits[2])
                    /\ now[i].gate = "cz" => SupportsCZ(target, now[i].qubits[1], now[i].qubits[2])
  <2>1. /\ Allocatable(circuit, index, target)
        /\ \A i \in DOMAIN t :
              /\ t[i].gate = "barrier" =>
                    \A k \in DOMAIN t[i].qubits : \E j \in 1..(i - 1) :
                       t[j].gate = "alloc" /\ t[j].qubits[1] = t[i].qubits[k]
              /\ t[i].gate = "cx" => SupportsCX(target, t[i].qubits[1], t[i].qubits[2])
              /\ t[i].gate = "cz" => SupportsCZ(target, t[i].qubits[1], t[i].qubits[2])
    BY <1>2, <1>10 DEF MappedVerifies
  <2>2. Allocatable(new, index, target)
    BY <1>1, <2>1 DEF Allocatable
  <2>3. ASSUME NEW i \in 1..n
        PROVE  /\ now[i].gate = "cx" => SupportsCX(target, now[i].qubits[1], now[i].qubits[2])
               /\ now[i].gate = "cz" => SupportsCZ(target, now[i].qubits[1], now[i].qubits[2])
    <3>1. now[i] = t[ord[i]] /\ ord[i] \in DOMAIN t
      BY <1>5, <1>6, <1>7
    <3> QED
      BY <2>1, <3>1
  <2>4. ASSUME NEW i \in 1..n, now[i].gate = "barrier", NEW k \in DOMAIN now[i].qubits
        PROVE  \E j \in 1..(i - 1) : now[j].gate = "alloc" /\ now[j].qubits[1] = now[i].qubits[k]
    <3>1. now[i] = t[ord[i]] /\ ord[i] \in 1..n /\ ord[i] \in DOMAIN t /\ now[i] = u[i]
      BY <1>5, <1>6, <1>7
    <3>2. PICK c \in 1..(ord[i] - 1) : t[c].gate = "alloc" /\ t[c].qubits[1] = t[ord[i]].qubits[k]
      BY <2>1, <2>4, <3>1
    <3>3. c \in 1..n /\ c < ord[i]
      BY <1>1, <3>1, <3>2
    <3>4. PICK j \in 1..n : ord[j] = c
      BY <1>8, <3>3
    <3>5. now[j] = t[c] /\ now[j] = u[j]
      BY <1>5, <1>7, <3>4
    <3>6. ~u[i].movable
      BY <1>9, <2>4, <3>1 DEF IsEvent, Gates
    <3>7. ~(i < j) /\ i # j
      <4>1. i < j => ord[i] < ord[j]
        BY <1>7, <3>6
      <4> QED
        BY <1>7, <3>1, <3>3, <3>4, <4>1
    <3>8. j \in 1..(i - 1)
      BY <1>1, <3>7
    <3> QED
      BY <3>1, <3>2, <3>5, <3>8
  <2> QED
    BY <1>5, <2>2, <2>3, <2>4
<1>12. MappedVerifies(new, index)
  BY <1>2, <1>4, <1>10, <1>11 DEF MappedVerifies
<1>13. CircuitVerifies(new)
  <2>1. \A m \in DOMAIN new.ops : /\ OpVerifies(new, new.ops[m])
                                 /\ (new.ops[m].gate = "output") = (m = Len(new.ops))
                                 /\ \A v \in Qubits(new.ops[m]) : HasOneUse(new, v)
    BY <1>1, <1>3
  <2>2. Len(new.ops) > 0
    BY <1>1, <1>4
  <2>3. MappedVerifies(new, Physical(new))
    BY <1>1, <1>12
  <2> QED
    BY <1>1, <1>2, <1>4, <2>1, <2>2, <2>3 DEF CircuitVerifies
<1> QED
  BY <1>1, <1>2, <1>13 DEF MappedCircuit

\* The placement numbers the allocations, each with a number of its own.
LEMMA PlacementNumbers ==
    ASSUME NEW circuit, IsCircuit(circuit),
           NEW x \in AllocIds(circuit), NEW y \in AllocIds(circuit),
           IdentityPlacement(circuit)[x] = IdentityPlacement(circuit)[y]
    PROVE  x = y
<1> DEFINE P == Allocs(circuit)
<1>1. /\ DOMAIN circuit.ops = 1..Len(circuit.ops) /\ Len(circuit.ops) \in Nat
      /\ P \in SUBSET Int /\ IsFiniteSet(P)
  <2>1. DOMAIN circuit.ops = 1..Len(circuit.ops) /\ Len(circuit.ops) \in Nat
    BY CircuitTyped DEF IsCircuit
  <2>2. P \subseteq 1..Len(circuit.ops) /\ IsFiniteSet(1..Len(circuit.ops))
    BY <2>1, FS_Interval DEF Allocs
  <2> QED
    BY <2>1, <2>2, FS_Subset
<1>2. \A id \in AllocIds(circuit) :
          \E i \in P : circuit.ops[i].id = id /\ IdentityPlacement(circuit)[id] = Rank(P, i)
  <2> TAKE id \in AllocIds(circuit)
  <2>1. PICK i \in DOMAIN circuit.ops : circuit.ops[i].gate = "alloc" /\ circuit.ops[i].id = id
    BY DEF AllocIds, ToSet
  <2>2. i \in P
    BY <2>1 DEF Allocs
  <2>3. Position(circuit, id) = i
    BY <2>1, PositionIs
  <2>4. IdentityPlacement(circuit)[id] = Rank(P, Position(circuit, id))
    BY DEF IdentityPlacement
  <2> QED
    BY <2>1, <2>2, <2>3, <2>4
<1>3. PICK i \in P : circuit.ops[i].id = x /\ IdentityPlacement(circuit)[x] = Rank(P, i)
  BY <1>2
<1>4. PICK j \in P : circuit.ops[j].id = y /\ IdentityPlacement(circuit)[y] = Rank(P, j)
  BY <1>2
<1> HIDE DEF P
<1>5. Rank(P, i) \in Int /\ Rank(P, i) = Rank(P, j)
  <2>1. Rank(P, i) \in Nat
    BY <1>1, RankType
  <2>2. Rank(P, i) = Rank(P, j)
    BY <1>3, <1>4, Zenon
  <2> QED
    BY <2>1, <2>2
<1>6. i < j => Rank(P, i) < Rank(P, j)
  BY <1>1, RankIncreases
<1>7. j < i => Rank(P, j) < Rank(P, i)
  BY <1>1, RankIncreases
<1> DEFINE r == Rank(P, i)
<1> HIDE DEF r
<1>8. i = j
  <2>1. r \in Int /\ (i < j \/ j < i => r < r)
    BY <1>5, <1>6, <1>7 DEF r
  <2> QED
    BY <1>1, <2>1
<1> QED
  BY <1>3, <1>4, <1>8

\* No allocation is cancelled.
LEMMA CancelledAllocs ==
    ASSUME NEW circuit, NEW first, Pair(circuit, first), NEW rest, IsCancelled(circuit, first, rest)
    PROVE  AllocIds(rest) = AllocIds(circuit)
<1> DEFINE n == Len(circuit.ops)
<1>1. /\ n \in Nat /\ DOMAIN circuit.ops = 1..n /\ first \in 1..(n - 1)
      /\ circuit.ops[first].gate # "alloc" /\ circuit.ops[first + 1].gate # "alloc"
  BY PairParts DEF Pair, Gates
<1>2. /\ DOMAIN rest.ops = 1..(n - 2)
      /\ \A i \in 1..(n - 2) : /\ rest.ops[i].gate = circuit.ops[Kept(first, i)].gate
                               /\ rest.ops[i].id = circuit.ops[Kept(first, i)].id
  BY DEF IsCancelled
<1> HIDE DEF n
<1>3. \A id : id \in AllocIds(rest) <=>
          \E i \in 1..(n - 2) : rest.ops[i].gate = "alloc" /\ rest.ops[i].id = id
  BY <1>2 DEF AllocIds, ToSet
<1>4. \A id : id \in AllocIds(circuit) <=>
          \E i \in 1..n : circuit.ops[i].gate = "alloc" /\ circuit.ops[i].id = id
  BY <1>1 DEF AllocIds, ToSet
<1>5. \A i \in 1..(n - 2) : Kept(first, i) \in 1..n
  BY <1>1, KeptIs
<1>6. \A id \in AllocIds(rest) : id \in AllocIds(circuit)
  BY <1>2, <1>3, <1>4, <1>5
<1>7. ASSUME NEW id \in AllocIds(circuit)
      PROVE  id \in AllocIds(rest)
  <2>1. PICK p \in 1..n : circuit.ops[p].gate = "alloc" /\ circuit.ops[p].id = id
    BY <1>4
  <2>2. p \in 1..n \ {first, first + 1}
    BY <1>1, <2>1
  <2>3. PICK i \in 1..(n - 2) : Kept(first, i) = p
    BY <1>1, <2>2, KeptIs
  <2> QED
    BY <1>2, <1>3, <2>1, <2>3
<1> QED
  BY <1>6, <1>7

-----------------------------------------------------------------------------
(***************************************************************************)
(* The trace of a circuit without a pair.                                  *)
(***************************************************************************)

\* An operand of the first gate is on the wire of the result of the second that
\* becomes it.
LEMMA FollowedWire ==
    ASSUME NEW circuit, NEW first, Pair(circuit, first), NEW index, NEW v
    PROVE  Placement(circuit, index)[Follow(circuit, first, v)] = Placement(circuit, index)[v]
<1> DEFINE place == Placement(circuit, index)
           a == circuit.ops[first]
           b == circuit.ops[first + 1]
           m == Width(circuit, first)
<1>1. CASE v \notin Values(b)
  BY <1>1, FollowIs
<1>2. CASE v \in Values(b)
  <2>1. PICK k \in 1..m : v = <<b.id, k>> /\ Follow(circuit, first, v) = a.operands[k]
    BY <1>2, FollowIs
  <2>2. /\ first \in DOMAIN circuit.ops /\ first + 1 \in DOMAIN circuit.ops
        /\ a.gate \in Gates /\ b.gate \in Gates
        /\ <<a.id, k>> \in Qubits(a) /\ <<b.id, k>> \in Qubits(b)
        /\ b.operands[k] = <<a.id, k>>
    BY PairParts
  <2>3. IsCircuit(circuit) /\ OperandsDefined(circuit)
    BY DEF Pair, CircuitVerifies
  <2>4. /\ FollowsWire(circuit, index, place, first + 1, <<b.id, k>>)
        /\ FollowsWire(circuit, index, place, first, <<a.id, k>>)
    BY <2>2, <2>3, PlacementIs
  <2> HIDE DEF place
  <2>5. a.gate # "alloc" /\ b.gate # "alloc"
    BY <2>2 DEF Gates
  <2>6. place[<<b.id, k>>] = place[b.operands[k]] /\ place[<<a.id, k>>] = place[a.operands[k]]
    BY <2>4, <2>5 DEF FollowsWire
  <2> QED
    BY <2>1, <2>2, <2>6 DEF place
<1> QED
  BY <1>1, <1>2

\* The circuits before and after, and an operation in both.
LEMMA CancelledPair ==
    ASSUME NEW circuit, NEW first, Pair(circuit, first), NEW rest, IsCancelled(circuit, first, rest)
    PROVE  /\ IsCircuit(circuit) /\ OperandsDefined(circuit) /\ IsCircuit(rest) /\ OperandsDefined(rest)
           /\ Len(circuit.ops) \in Nat /\ DOMAIN circuit.ops = 1..Len(circuit.ops)
           /\ DOMAIN rest.ops = 1..(Len(circuit.ops) - 2) /\ first \in 1..(Len(circuit.ops) - 1)
           /\ \A i \in 1..(Len(circuit.ops) - 2) :
                 LET op == circuit.ops[Kept(first, i)]
                     new == rest.ops[i]
                 IN  /\ Kept(first, i) \in DOMAIN circuit.ops
                     /\ new.id = op.id /\ new.gate = op.gate /\ new.qubits = op.qubits
                     /\ new.angle = op.angle /\ new.notes = op.notes
                     /\ new.operands = [k \in DOMAIN op.operands |-> Follow(circuit, first, op.operands[k])]
                     /\ Qubits(new) = Qubits(op)
<1>1. IsCircuit(circuit) /\ OperandsDefined(circuit) /\ first \in 1..(Len(circuit.ops) - 1)
  BY DEF Pair, CircuitVerifies
<1>2. Len(circuit.ops) \in Nat /\ DOMAIN circuit.ops = 1..Len(circuit.ops)
  BY PairParts
<1>3. IsCircuit(rest) /\ OperandsDefined(rest)
  BY CancelledCircuit, CancelledDefined
<1>4. DOMAIN rest.ops = 1..(Len(circuit.ops) - 2)
  BY DEF IsCancelled
<1>5. ASSUME NEW i \in 1..(Len(circuit.ops) - 2)
      PROVE  LET op == circuit.ops[Kept(first, i)]
                 new == rest.ops[i]
             IN  /\ Kept(first, i) \in DOMAIN circuit.ops
                 /\ new.id = op.id /\ new.gate = op.gate /\ new.qubits = op.qubits
                 /\ new.angle = op.angle /\ new.notes = op.notes
                 /\ new.operands = [k \in DOMAIN op.operands |-> Follow(circuit, first, op.operands[k])]
                 /\ Qubits(new) = Qubits(op)
  <2>1. Kept(first, i) \in DOMAIN circuit.ops
    BY <1>1, <1>2, KeptIs
  <2>2. Qubits(rest.ops[i]) = Qubits(circuit.ops[Kept(first, i)])
    BY CancelledValues
  <2> QED
    BY <2>1, <2>2 DEF IsCancelled
<1> QED
  BY <1>1, <1>2, <1>3, <1>4, <1>5

LEMMA CancelledWires ==
    ASSUME NEW circuit, NEW first, Pair(circuit, first), NEW rest, IsCancelled(circuit, first, rest),
           NEW index
    PROVE  \A i \in 1..(Len(circuit.ops) - 2) : \A v \in Qubits(rest.ops[i]) :
               Placement(rest, index)[v] = Placement(circuit, index)[v]
<1> DEFINE n == Len(circuit.ops)
           here == Placement(rest, index)
           there == Placement(circuit, index)
           S == {m \in Nat : \A i \in 1..(n - 2) : i <= m =>
                               \A v \in Qubits(rest.ops[i]) : here[v] = there[v]}
<1>1. /\ IsCircuit(circuit) /\ OperandsDefined(circuit) /\ IsCircuit(rest) /\ OperandsDefined(rest)
      /\ n \in Nat /\ DOMAIN circuit.ops = 1..n /\ DOMAIN rest.ops = 1..(n - 2)
      /\ first \in 1..(n - 1)
  BY CancelledPair
<1>2. ASSUME NEW i \in 1..(n - 2), NEW v \in Qubits(rest.ops[i]),
             \A j \in 1..(i - 1) : \A u \in Qubits(rest.ops[j]) : here[u] = there[u]
      PROVE  here[v] = there[v]
  <2> DEFINE op == circuit.ops[Kept(first, i)]
             new == rest.ops[i]
  <2>0. i \in DOMAIN rest.ops /\ Kept(first, i) \in DOMAIN circuit.ops
    BY <1>1, KeptIs
  <2>1. /\ new.id = op.id /\ new.gate = op.gate
        /\ new.operands = [k \in DOMAIN op.operands |-> Follow(circuit, first, op.operands[k])]
        /\ v \in Qubits(op)
    BY CancelledPair
  <2>2. FollowsWire(rest, index, here, i, v)
    BY <1>1, <2>0, PlacementIs
  <2>3. FollowsWire(circuit, index, there, Kept(first, i), v)
    BY <1>1, <2>0, <2>1, PlacementIs
  <2>4. CASE op.gate = "alloc"
    <3> HIDE DEF here, there
    <3> QED
      BY <2>1, <2>2, <2>3, <2>4 DEF FollowsWire
  <2>5. CASE op.gate # "alloc"
    <3> DEFINE o == op.operands[v[2]]
               p == new.operands[v[2]]
    <3>1. v[2] \in DOMAIN new.operands /\ new.gate \in Gates
      BY <1>1, <2>0, <2>1, <2>5, QubitsAre
    <3>2. p = Follow(circuit, first, o)
      BY <2>1, <3>1
    <3>3. PICK j \in 1..(i - 1) : p \in Qubits(rest.ops[j])
      BY <1>1, <2>0, <3>1 DEF OperandsDefined, Gates
    <3>4. here[p] = there[p]
      BY <1>2, <3>3
    <3>5. there[p] = there[o]
      BY <3>2, FollowedWire
    <3> HIDE DEF here, there
    <3>6. here[v] = here[p] /\ there[v] = there[o]
      BY <2>1, <2>2, <2>3, <2>5 DEF FollowsWire
    <3> QED
      BY <3>4, <3>5, <3>6
  <2> QED
    BY <2>4, <2>5
<1> HIDE DEF n, here, there
<1>3. 0 \in S
  OBVIOUS
<1>4. ASSUME NEW m \in Nat, m \in S
      PROVE  m + 1 \in S
  <2>1. \A i \in 1..(n - 2) : i <= m => \A v \in Qubits(rest.ops[i]) : here[v] = there[v]
    BY <1>4
  <2>2. ASSUME NEW i \in 1..(n - 2), i <= m + 1, NEW v \in Qubits(rest.ops[i])
        PROVE  here[v] = there[v]
    <3>1. \A j \in 1..(i - 1) : j \in 1..(n - 2) /\ j <= m
      BY <1>1, <2>2
    <3>2. \A j \in 1..(i - 1) : \A u \in Qubits(rest.ops[j]) : here[u] = there[u]
      BY <2>1, <3>1
    <3> QED
      BY <1>2, <3>2
  <2> QED
    BY <2>2
<1> HIDE DEF S
<1>5. \A m \in Nat : m \in S
  BY <1>3, <1>4, Induct
<1>6. ASSUME NEW i \in 1..(n - 2), NEW v \in Qubits(rest.ops[i])
      PROVE  here[v] = there[v]
  <2>1. i \in Nat /\ i <= i
    BY <1>1
  <2>2. i \in S
    BY <1>5, <2>1
  <2> QED
    BY <2>1, <2>2 DEF S
<1> QED
  BY <1>6 DEF n, here, there

\* Every event of what is left is the event it was.
LEMMA CancelledTrace ==
    ASSUME NEW circuit, NEW first, Pair(circuit, first), NEW rest, IsCancelled(circuit, first, rest),
           NEW index
    PROVE  /\ DOMAIN TraceUnder(rest, index) = 1..(Len(circuit.ops) - 2)
           /\ \A i \in 1..(Len(circuit.ops) - 2) :
                 TraceUnder(rest, index)[i] = TraceUnder(circuit, index)[Kept(first, i)]
<1> DEFINE n == Len(circuit.ops)
           here == Placement(rest, index)
           there == Placement(circuit, index)
<1>1. /\ IsCircuit(circuit) /\ IsCircuit(rest) /\ OperandsDefined(rest)
      /\ n \in Nat /\ DOMAIN circuit.ops = 1..n /\ DOMAIN rest.ops = 1..(n - 2)
      /\ first \in 1..(n - 1)
  BY CancelledPair
<1>2. ASSUME NEW i \in 1..(n - 2)
      PROVE  TraceUnder(rest, index)[i] = TraceUnder(circuit, index)[Kept(first, i)]
  <2> DEFINE op == circuit.ops[Kept(first, i)]
             new == rest.ops[i]
  <2>0. i \in DOMAIN rest.ops /\ Kept(first, i) \in DOMAIN circuit.ops
    BY <1>1, KeptIs
  <2>1. /\ new.id = op.id /\ new.gate = op.gate /\ new.qubits = op.qubits
        /\ new.angle = op.angle /\ new.notes = op.notes
        /\ new.operands = [k \in DOMAIN op.operands |-> Follow(circuit, first, op.operands[k])]
        /\ Qubits(new) = Qubits(op)
    BY CancelledPair
  <2>2. TraceUnder(rest, index)[i] = EventUnder(new, here)
        /\ TraceUnder(circuit, index)[Kept(first, i)] = EventUnder(op, there)
    BY <2>0 DEF TraceUnder
  <2>3. ASSUME op.gate = "alloc"
        PROVE  here[<<op.id, 1>>] = there[<<op.id, 1>>]
    <3>1. <<new.id, 1>> \in Qubits(new)
      BY <2>1, <2>3 DEF Qubits, Values, ResultCount, Gates
    <3> QED
      BY <2>1, <3>1, CancelledWires
  <2>4. ASSUME op.gate \notin {"alloc", "output"}, NEW k \in DOMAIN op.operands
        PROVE  here[new.operands[k]] = there[op.operands[k]]
    <3>1. k \in DOMAIN new.operands /\ new.operands[k] = Follow(circuit, first, op.operands[k])
      BY <2>1
    <3>2. PICK j \in 1..(i - 1) : new.operands[k] \in Qubits(rest.ops[j])
      BY <1>1, <2>0, <2>1, <2>4, <3>1 DEF OperandsDefined
    <3>3. j \in 1..(n - 2)
      BY <1>1, <3>2
    <3>4. here[new.operands[k]] = there[new.operands[k]]
      BY <3>2, <3>3, CancelledWires
    <3> QED
      BY <3>1, <3>4, FollowedWire
  <2> HIDE DEF here, there, op, new
  <2>5. WiresUnder(new, here) = WiresUnder(op, there)
    <3>1. CASE op.gate = "alloc"
      BY <2>1, <2>3, <3>1 DEF WiresUnder
    <3>2. CASE op.gate = "barrier"
      BY <2>1, <3>2 DEF WiresUnder
    <3>3. CASE op.gate = "output"
      BY <2>1, <3>3 DEF WiresUnder
    <3>4. CASE op.gate \notin {"alloc", "barrier", "output"}
      <4>1. /\ WiresUnder(new, here) = [k \in DOMAIN new.operands |-> here[new.operands[k]]]
            /\ WiresUnder(op, there) = [k \in DOMAIN op.operands |-> there[op.operands[k]]]
        BY <2>1, <3>4 DEF WiresUnder
      <4>2. DOMAIN new.operands = DOMAIN op.operands
        BY <2>1
      <4> QED
        BY <2>4, <3>4, <4>1, <4>2
    <3> QED
      BY <3>1, <3>2, <3>3, <3>4
  <2>6. EventUnder(new, here) = EventUnder(op, there)
    BY <2>1, <2>5 DEF EventUnder
  <2> QED
    BY <2>2, <2>6
<1>3. DOMAIN TraceUnder(rest, index) = DOMAIN rest.ops
  BY DEF TraceUnder
<1> QED
  BY <1>1, <1>2, <1>3

\* The allocations keep their numbers.
LEMMA CancelledNumbers ==
    ASSUME NEW circuit, NEW first, Pair(circuit, first), NEW rest, IsCancelled(circuit, first, rest)
    PROVE  IdentityPlacement(rest) = IdentityPlacement(circuit)
<1> DEFINE n == Len(circuit.ops)
           P == Allocs(rest)
           Q == Allocs(circuit)
<1>1. /\ IsCircuit(circuit) /\ IsCircuit(rest) /\ n \in Nat /\ first \in 1..(n - 1)
      /\ DOMAIN circuit.ops = 1..n /\ DOMAIN rest.ops = 1..(n - 2)
  BY CancelledPair
<1> HIDE DEF n, P, Q
<1>a. ASSUME NEW i \in 1..(n - 2)
      PROVE  rest.ops[i].gate = circuit.ops[Kept(first, i)].gate /\ rest.ops[i].id = circuit.ops[Kept(first, i)].id
  <2>1. i \in 1..(Len(circuit.ops) - 2)
    BY DEF n
  <2> QED
    BY <2>1 DEF IsCancelled
<1>b. ASSUME NEW i \in 1..(n - 2), NEW j \in 1..(n - 2)
      PROVE  /\ Kept(first, i) = Kept(first, j) => i = j
             /\ Kept(first, i) < Kept(first, j) => i < j
  BY <1>1 DEF Kept
<1>c. ASSUME NEW p \in 1..n \ {first, first + 1}
      PROVE  \E i \in 1..(n - 2) : Kept(first, i) = p
  BY <1>1, KeptOnto
<1>d. \A i \in 1..(n - 2) : Kept(first, i) \in 1..n \ {first, first + 1}
  BY <1>1, KeptIs
<1>2. /\ \A i \in 1..(n - 2) : Kept(first, i) \in 1..n \ {first, first + 1}
      /\ \A i, j \in 1..(n - 2) : Kept(first, i) = Kept(first, j) => i = j
      /\ \A i, j \in 1..(n - 2) : Kept(first, i) < Kept(first, j) => i < j
      /\ \A p \in 1..n \ {first, first + 1} : \E i \in 1..(n - 2) : Kept(first, i) = p
  BY <1>b, <1>c, <1>d
<1>3. circuit.ops[first].gate # "alloc" /\ circuit.ops[first + 1].gate # "alloc"
  BY PairParts DEF Gates
<1>4. \A i, j \in 1..(n - 2) : i < j => Kept(first, i) < Kept(first, j)
  <2> TAKE i, j \in 1..(n - 2)
  <2> HAVE i < j
  <2>1. Kept(first, i) \in Int /\ Kept(first, j) \in Int
    BY <1>1, <1>2
  <2>2. ~(Kept(first, j) < Kept(first, i)) /\ Kept(first, i) # Kept(first, j)
    BY <1>1, <1>2
  <2> QED
    BY <2>1, <2>2
<1>5. /\ P = {i \in 1..(n - 2) : circuit.ops[Kept(first, i)].gate = "alloc"}
      /\ Q = {p \in 1..n : circuit.ops[p].gate = "alloc"}
      /\ IsFiniteSet(Q) /\ IsFiniteSet(P)
  <2>1. /\ P = {i \in 1..(n - 2) : circuit.ops[Kept(first, i)].gate = "alloc"}
        /\ Q = {p \in 1..n : circuit.ops[p].gate = "alloc"}
    BY <1>1, <1>a DEF P, Q, Allocs
  <2>2. IsFiniteSet(1..n) /\ IsFiniteSet(1..(n - 2))
    BY <1>1, FS_Interval
  <2> QED
    BY <2>1, <2>2, FS_Subset
<1>6. ASSUME NEW i \in P
      PROVE  Rank(P, i) = Rank(Q, Kept(first, i))
  <2> DEFINE A == {j \in P : j < i}
             B == {p \in Q : p < Kept(first, i)}
             f == [j \in A |-> Kept(first, j)]
  <2>1. IsFiniteSet(A)
    BY <1>5, FS_Subset
  <2>2. \A j \in A : Kept(first, j) \in B
    BY <1>2, <1>4, <1>5
  <2>3. \A j, k \in A : Kept(first, j) = Kept(first, k) => j = k
    BY <1>2, <1>5
  <2>4. ASSUME NEW p \in B
        PROVE  \E j \in A : Kept(first, j) = p
    <3>1. p \in 1..n \ {first, first + 1}
      BY <1>3, <1>5
    <3>2. PICK j \in 1..(n - 2) : Kept(first, j) = p
      BY <1>2, <3>1
    <3> QED
      BY <1>2, <1>5, <3>2
  <2> HIDE DEF A, B
  <2>5. f \in Bijection(A, B)
    BY <2>2, <2>3, <2>4 DEF Bijection, Injection, Surjection, IsInjective
  <2>6. ExistsBijection(A, B)
    BY <2>5 DEF ExistsBijection
  <2>7. Cardinality(A) = Cardinality(B)
    BY <2>1, <2>6, FS_Bijection
  <2> QED
    BY <2>7 DEF Rank, A, B
<1>7. AllocIds(rest) = AllocIds(circuit)
  BY CancelledAllocs
<1>8. ASSUME NEW id \in AllocIds(rest)
      PROVE  IdentityPlacement(rest)[id] = IdentityPlacement(circuit)[id]
  <2>1. PICK i \in DOMAIN rest.ops : rest.ops[i].gate = "alloc" /\ rest.ops[i].id = id
    BY DEF AllocIds, ToSet
  <2>2. i \in P /\ Kept(first, i) \in DOMAIN circuit.ops /\ circuit.ops[Kept(first, i)].id = id
    BY <1>1, <1>2, <1>a, <2>1 DEF P, Allocs
  <2>3. Position(rest, id) = i /\ Position(circuit, id) = Kept(first, i)
    BY <1>1, <2>1, <2>2, PositionIs
  <2>4. IdentityPlacement(rest)[id] = Rank(P, i)
    BY <2>3 DEF IdentityPlacement, P
  <2>5. IdentityPlacement(circuit)[id] = Rank(Q, Kept(first, i))
    BY <1>7, <2>3 DEF IdentityPlacement, Q
  <2> QED
    BY <1>6, <2>2, <2>4, <2>5
<1> QED
  BY <1>7, <1>8 DEF IdentityPlacement

\* A circuit that fits its target where it is placed still does without a pair.
LEMMA CancelledFits ==
    ASSUME NEW circuit, NEW first, Pair(circuit, first), NEW rest, IsCancelled(circuit, first, rest),
           NEW index, MappedVerifies(circuit, index)
    PROVE  MappedVerifies(rest, index)
<1> DEFINE n == Len(circuit.ops)
           old == TraceUnder(circuit, index)
           trace == TraceUnder(rest, index)
<1>1. rest.target = circuit.target /\ rest.stage = circuit.stage /\ circuit.stage # "architecture"
  BY DEF IsCancelled, Pair
<1>2. AllocIds(rest) = AllocIds(circuit)
  BY CancelledAllocs
<1>3. /\ DOMAIN trace = 1..(n - 2)
      /\ \A i \in 1..(n - 2) : trace[i] = old[Kept(first, i)]
  BY CancelledTrace
<1>4. /\ n \in Nat /\ DOMAIN circuit.ops = 1..n /\ first \in 1..(n - 1) /\ DOMAIN rest.ops = 1..(n - 2)
      /\ \A i \in 1..(n - 2) : Kept(first, i) \in 1..n
  BY CancelledPair
<1>5. DOMAIN old = 1..n
  BY <1>4 DEF TraceUnder
<1>6. CircuitVerifies(rest)
  BY CancelledVerifies
<1>7. ASSUME NEW i \in 1..(n - 2)
      PROVE  trace[i].gate # "barrier"
  <2>1. trace[i].gate = rest.ops[i].gate
    BY <1>4 DEF TraceUnder, EventUnder
  <2>2. OpVerifies(rest, rest.ops[i])
    BY <1>4, <1>6 DEF CircuitVerifies
  <2> QED
    BY <1>1, <2>1, <2>2 DEF OpVerifies
<1> HIDE DEF trace, old, n
<1>8. ASSUME NEW target \in circuit.target
      PROVE  /\ Allocatable(rest, index, target)
             /\ \A i \in DOMAIN trace :
                   /\ trace[i].gate = "cx" => SupportsCX(target, trace[i].qubits[1], trace[i].qubits[2])
                   /\ trace[i].gate = "cz" => SupportsCZ(target, trace[i].qubits[1], trace[i].qubits[2])
  <2>1. /\ Allocatable(circuit, index, target)
        /\ \A i \in DOMAIN old :
              /\ old[i].gate = "cx" => SupportsCX(target, old[i].qubits[1], old[i].qubits[2])
              /\ old[i].gate = "cz" => SupportsCZ(target, old[i].qubits[1], old[i].qubits[2])
    BY DEF MappedVerifies, old
  <2>2. Allocatable(rest, index, target)
    BY <1>2, <2>1 DEF Allocatable
  <2> QED
    BY <1>3, <1>4, <1>5, <2>1, <2>2
<1>9. ParsesTarget(rest)
  BY <1>1 DEF MappedVerifies, ParsesTarget
<1> QED
  BY <1>1, <1>3, <1>7, <1>8, <1>9 DEF MappedVerifies, trace

-----------------------------------------------------------------------------
(***************************************************************************)
(* The invariant.  Every circuit is one the parser could make, with the    *)
(* allocations of the circuit that was parsed in its place.                *)
(***************************************************************************)
Descends(parsed, circuit) ==
    /\ IsCircuit(parsed) /\ IsCircuit(circuit)
    /\ AllocIds(circuit) = AllocIds(parsed)

Shaped ==
    /\ at \in Nat /\ pc \in {"parse", "pass", "rewrite", "verify", "exit 0", "exit 1"}
    /\ pc = "parse" => at = 0
    /\ pc \in {"pass", "rewrite"} => at > 0
    /\ pc = "rewrite" => AtLogicalStage
    /\ DOMAIN module = DOMAIN input
    /\ \A c \in DOMAIN module : Descends(input[c], module[c])

Held == Shaped /\ (at > 0 => Verifies(module))

LEMMA HeldInit == Init => Held
<1> SUFFICES ASSUME Init
             PROVE  Held
  OBVIOUS
<1>1. input \in Inputs /\ module = input /\ at = 0 /\ pc = "parse"
  BY DEF Init
<1>2. ASSUME NEW c \in DOMAIN module
      PROVE  Descends(input[c], module[c])
  BY <1>1, PassAssumption DEF Descends
<1> QED
  BY <1>1, <1>2 DEF Held, Shaped

\* A module of circuits with the allocations of those there were.
LEMMA HeldBecomes ==
    ASSUME Held, NEW m, Becomes(m), DOMAIN m = DOMAIN module,
           at > 0 => Verifies(m),
           \A c \in DOMAIN m : IsCircuit(m[c]) /\ AllocIds(m[c]) = AllocIds(module[c])
    PROVE  Held'
BY DEF Held, Shaped, Becomes, Verifies, Descends, command

LEMMA HeldFails == ASSUME Held, Fails PROVE Held'
BY DEF Held, Shaped, Fails, Verifies, Descends, command

\* One rewrite: a pair goes from one circuit of the module.
CancelledAt(c, i) ==
    /\ c \in DOMAIN module
    /\ Pair(module[c], i) /\ IsCancelled(module[c], i, module'[c])
    /\ DOMAIN module' = DOMAIN module
    /\ \A d \in DOMAIN module : d # c => module'[d] = module[d]

LEMMA CancelIs ==
    ASSUME Held, Cancel
    PROVE  /\ pc = "rewrite" /\ at > 0 /\ Verifies(module) /\ AtLogicalStage
           /\ UNCHANGED <<at, pc, input, before, pipeline>>
           /\ \E c, i : CancelledAt(c, i)
<1>1. /\ pc = "rewrite" /\ at > 0 /\ Verifies(module) /\ AtLogicalStage
      /\ UNCHANGED <<at, pc, input, before, pipeline>>
  <2>1. pc = "rewrite" /\ UNCHANGED <<at, pc, input, before, pipeline>>
    BY DEF Cancel, command
  <2>2. AtLogicalStage /\ at > 0
    BY <2>1 DEF Held, Shaped
  <2>3. Verifies(module)
    BY <2>2 DEF Held
  <2> QED
    BY <2>1, <2>2, <2>3
<1>p. PICK p \in PairsOfOps : /\ Cancels(module[p[1]], p[2], p[3])
                               /\ module' = [module EXCEPT ![p[1]] = Cancelled(@, p[2], p[3])]
  BY DEF Cancel
<1>c. PICK c \in DOMAIN module : \E i, j \in DOMAIN module[c].ops : p = <<c, i, j>>
  BY DEF PairsOfOps
<1>i. PICK i \in DOMAIN module[c].ops, j \in DOMAIN module[c].ops : p = <<c, i, j>>
  BY <1>c
<1>2. /\ Cancels(module[c], i, j)
      /\ module' = [module EXCEPT ![c] = Cancelled(module[c], i, j)]
  BY <1>p, <1>i
<1> DEFINE circuit == module[c]
           rest == Cancelled(circuit, i, i + 1)
<1>3. /\ circuit.stage # "architecture" /\ IsCircuit(circuit) /\ CircuitVerifies(circuit)
      /\ circuit \in Circuit /\ j = i + 1
  BY <1>1, <1>2 DEF Held, Shaped, Descends, AtLogicalStage, Verifies, IsCircuit, Cancels
<1>4. i \in 1..(Len(circuit.ops) - 1)
  <2>1. DOMAIN circuit.ops = 1..Len(circuit.ops) /\ Len(circuit.ops) \in Nat
    BY <1>3, CircuitTyped
  <2> QED
    BY <1>2, <1>3, <2>1
<1>5. Pair(circuit, i)
  BY <1>2, <1>3, <1>4 DEF Pair
<1>6. IsCancelled(circuit, i, rest)
  BY <1>3, <1>4, CancelledParts
<1>7. DOMAIN module' = DOMAIN module /\ \A d \in DOMAIN module : module'[d] = IF d = c THEN rest ELSE module[d]
  BY <1>2, <1>3
<1> HIDE DEF rest
<1>8. CancelledAt(c, i)
  BY <1>5, <1>6, <1>7 DEF CancelledAt
<1> QED
  BY <1>1, <1>8

LEMMA HeldCancel == ASSUME Held, Cancel PROVE Held'
<1>1. /\ pc = "rewrite" /\ at > 0 /\ Verifies(module) /\ AtLogicalStage
      /\ at' = at /\ pc' = pc /\ input' = input
  BY CancelIs
<1>2. PICK c, i : CancelledAt(c, i)
  BY CancelIs
<1> DEFINE circuit == module[c]
           rest == module'[c]
<1>3. /\ DOMAIN module' = DOMAIN module /\ c \in DOMAIN module
      /\ \A d \in DOMAIN module : module'[d] = IF d = c THEN rest ELSE module[d]
      /\ Pair(circuit, i) /\ IsCancelled(circuit, i, rest)
  BY <1>2 DEF CancelledAt
<1> HIDE DEF circuit, rest
<1>6. /\ IsCircuit(rest) /\ CircuitVerifies(rest) /\ rest.stage = circuit.stage
      /\ AllocIds(rest) = AllocIds(circuit)
  BY <1>3, CancelledVerifies, CancelledAllocs
<1>8. AtLogicalStage'
  BY <1>1, <1>3, <1>6 DEF AtLogicalStage, circuit
<1>9. \A d \in DOMAIN module : Descends(input[d], module[d])
  BY DEF Held, Shaped
<1>10. \A d \in DOMAIN module' : Descends(input'[d], module'[d])
  BY <1>1, <1>3, <1>6, <1>9 DEF Descends, circuit
<1>11. Shaped'
  BY <1>1, <1>3, <1>8, <1>10 DEF Held, Shaped
<1>12. Verifies(module)'
  BY <1>1, <1>3, <1>6 DEF Verifies
<1> QED
  BY <1>11, <1>12 DEF Held

LEMMA HeldMapIdentity == ASSUME Held, MapIdentity PROVE Held'
<1>1. /\ at > 0 /\ Verifies(module) /\ AtLogicalStage
      /\ \A c \in DOMAIN module : MappedVerifies(module[c], Candidate(c))
  BY DEF Held, Shaped, MapIdentity, Running, Mappable
<1> DEFINE m == [c \in DOMAIN module |-> Placed(module[c], Candidate(c))]
<1>2. Becomes(m)
  BY DEF MapIdentity
<1>3. ASSUME NEW c \in DOMAIN module
      PROVE  /\ CircuitVerifies(m[c]) /\ IsCircuit(m[c])
             /\ AllocIds(m[c]) = AllocIds(module[c])
  <2> DEFINE index == Candidate(c)
             circuit == module[c]
  <2>1. IsCircuit(circuit) /\ CircuitVerifies(circuit) /\ circuit.stage # "architecture"
    BY <1>1 DEF Held, Shaped, Descends, AtLogicalStage, Verifies
  <2>2. MappedVerifies(circuit, index) /\ index = [id \in AllocIds(circuit) |-> index[id]]
    BY <1>1 DEF Candidate, IdentityPlacement
  <2>3. \A id \in AllocIds(circuit) : index[id] \in Nat
    <3> HIDE DEF index, circuit
    <3>1. PICK target \in circuit.target : TRUE
      BY <2>2 DEF MappedVerifies, ParsesTarget
    <3>2. \A id \in AllocIds(circuit) : index[id] \in 0..(target.numQubits - 1)
      BY <2>2 DEF MappedVerifies, Allocatable
    <3> QED
      BY <3>2
  <2>4. IsPlacement(circuit, index)
    BY <2>2, <2>3 DEF IsPlacement
  <2> HIDE DEF index, circuit
  <2>5. /\ CircuitVerifies(Placed(circuit, index)) /\ IsCircuit(Placed(circuit, index))
        /\ AllocIds(Placed(circuit, index)) = AllocIds(circuit)
    BY <2>1, <2>2, <2>4, PlacedVerifies, PlacedCircuit, PlacedKeeps
  <2>6. m[c] = Placed(circuit, index)
    BY DEF index, circuit
  <2> QED
    BY <2>5, <2>6 DEF circuit
<1>4. DOMAIN m = DOMAIN module
  OBVIOUS
<1> HIDE DEF m
<1>5. Verifies(m)
  BY <1>3, <1>4 DEF Verifies
<1> QED
  BY <1>2, <1>3, <1>4, <1>5, HeldBecomes

\* Whatever order the mitigation plans, the reordered circuit crosses nothing and
\* verifies on its target: no plan fails.
LEMMA PlanApplied ==
    ASSUME Held, at > 0, TargetVerifies, NEW plan \in Plans, NEW c \in DOMAIN module
    PROVE  /\ ~plan[c].crossed /\ MappedCircuit(plan[c].circuit)
           /\ AllocIds(plan[c].circuit) = AllocIds(module[c])
<1> DEFINE circuit == module[c]
           applied == plan[c]
           t == BuildTrace(circuit)
<1>1. MappedCircuit(circuit)
  BY DEF Held, Shaped, Descends, TargetVerifies, Verifies, MappedCircuit
<1>2. PICK order \in OrdersWithin(t) : applied = ApplyOrder(circuit, t, order)
  BY DEF Plans, Applied
<1> HIDE DEF circuit, applied
<1>3. Reordering(circuit, order, Rearranged(t, order))
  BY <1>1, <1>2, OrderReorders
<1>4. ~applied.crossed /\ IsApplied(circuit, order, Rearranged(t, order), applied.circuit)
  BY <1>1, <1>2, AppliedIs
<1>5. MappedCircuit(applied.circuit) /\ AllocIds(applied.circuit) = AllocIds(circuit)
  BY <1>3, <1>4, AppliedVerifies, AppliedParts
<1> QED
  BY <1>4, <1>5 DEF circuit, applied

LEMMA PlanSound ==
    ASSUME Held, at > 0, TargetVerifies, NEW plan \in Plans
    PROVE  Sound(plan)
<1>1. DOMAIN plan = DOMAIN module
  BY DEF Plans
<1>2. \A c \in DOMAIN module : ~plan[c].crossed /\ CircuitVerifies(plan[c].circuit)
  BY PlanApplied DEF MappedCircuit
<1> QED
  BY <1>1, <1>2 DEF Sound

LEMMA HeldMitigate == ASSUME Held, QRiskMitigate PROVE Held'
<1>1. at > 0 /\ TargetVerifies
  BY DEF Held, Shaped, QRiskMitigate, Running
<1>2. PICK plan \in Plans :
          IF Sound(plan) THEN Becomes([c \in DOMAIN module |-> plan[c].circuit]) ELSE Fails
  BY DEF QRiskMitigate
<1> DEFINE m == [c \in DOMAIN module |-> plan[c].circuit]
<1>3. Becomes(m) /\ DOMAIN m = DOMAIN module
  BY <1>1, <1>2, PlanSound
<1>4. ASSUME NEW c \in DOMAIN module
      PROVE  CircuitVerifies(m[c]) /\ IsCircuit(m[c]) /\ AllocIds(m[c]) = AllocIds(module[c])
  <2>1. /\ MappedCircuit(plan[c].circuit)
        /\ AllocIds(plan[c].circuit) = AllocIds(module[c])
    BY <1>1, PlanApplied
  <2>2. m[c] = plan[c].circuit
    OBVIOUS
  <2> HIDE DEF m
  <2> QED
    BY <2>1, <2>2 DEF MappedCircuit
<1> HIDE DEF m
<1>5. Verifies(m)
  BY <1>3, <1>4 DEF Verifies
<1> QED
  BY <1>3, <1>4, <1>5, HeldBecomes

LEMMA HeldNext == Held /\ [Next]_vars => Held'
<1> SUFFICES ASSUME Held, [Next]_vars
             PROVE  Held'
  OBVIOUS
<1>1. CASE Verify
  <2>1. /\ Verifies(module) /\ module' = module /\ at' = at + 1 /\ input' = input
        /\ pc' \in {"pass", "exit 0"}
    BY <1>1 DEF Verify, command
  <2>2. at' \in Nat /\ at' > 0
    <3>1. at \in Nat
      BY DEF Held, Shaped
    <3>2. at' = at + 1
      BY <2>1
    <3> QED
      BY <3>1, <3>2
  <2>3. Verifies(module)'
    BY <2>1 DEF Verifies
  <2>4. DOMAIN module' = DOMAIN input' /\ \A c \in DOMAIN module' : Descends(input'[c], module'[c])
    BY <2>1 DEF Held, Shaped
  <2>5. Shaped'
    BY <2>1, <2>2, <2>4 DEF Shaped
  <2> QED
    BY <2>3, <2>5 DEF Held
<1>2. CASE VerifyFails \/ LogicalOptRefuses \/ RewritesGivenUp \/ MapIdentityRefuses \/ VerifyTargetFails
           \/ QRiskMitigateRefuses
  BY <1>2, HeldFails DEF VerifyFails, LogicalOptRefuses, RewritesGivenUp, MapIdentityRefuses,
     VerifyTargetFails, QRiskMitigateRefuses
<1>3. CASE LogicalOpt
  BY <1>3 DEF LogicalOpt, Running, AtLogicalStage, Held, Shaped, Descends, Verifies, command
<1>4. CASE RewritesDone \/ VerifyTarget
  BY <1>4 DEF RewritesDone, VerifyTarget, Becomes, Held, Shaped, Descends, Verifies, command
<1>5. CASE UNCHANGED vars
  BY <1>5 DEF vars, Held, Shaped, Descends, AtLogicalStage, Verifies
<1> QED
  BY <1>1, <1>2, <1>3, <1>4, <1>5, HeldCancel, HeldMapIdentity, HeldMitigate DEF Next

\* Every pass, and every rewrite within a pass, leaves only circuits that the
\* verifier accepts: for modules of any size, whatever pairs are cancelled in
\* whatever order.
THEOREM VerifiedAlways == Spec => []ModuleStaysVerified
<1>1. Held => ModuleStaysVerified
  BY DEF Held, ModuleStaysVerified, Parsed
<1> QED
  BY <1>1, HeldInit, HeldNext, PTL DEF Spec

\* On the wire of its allocation in the parsed circuit no operation comes
\* before the allocation or after the end, and each such wire ends exactly once:
\* whatever the passes did, for circuits of any size.
THEOREM WiresAlwaysLiveAndEndOnce == Spec => []WiresLiveAndEndOnce
<1>1. ASSUME Held
      PROVE  WiresLiveAndEndOnce
  <2> SUFFICES ASSUME at > 0, NEW c \in DOMAIN module
               PROVE  LET trace == TraceUnder(module[c], IdentityPlacement(input[c]))
                      IN  /\ WithinLifetimes(trace)
                          /\ \A id \in AllocIds(module[c]) :
                                Cardinality({i \in DOMAIN trace :
                                    /\ trace[i].gate \in {"measure", "discard"}
                                    /\ trace[i].qubits = <<IdentityPlacement(input[c])[id]>>}) = 1
    BY DEF WiresLiveAndEndOnce, Parsed
  <2> DEFINE circuit == module[c]
             index == IdentityPlacement(input[c])
  <2>1. IsCircuit(circuit) /\ CircuitVerifies(circuit)
    BY <1>1 DEF Held, Shaped, Descends, Verifies
  <2>2. \A a, b \in AllocIds(circuit) : index[a] = index[b] => a = b
    <3>1. IsCircuit(input[c]) /\ AllocIds(circuit) = AllocIds(input[c])
      BY <1>1 DEF Held, Shaped, Descends
    <3> QED
      BY <3>1, PlacementNumbers
  <2> HIDE DEF circuit, index
  <2>3. Numbered(circuit, index)
    BY <2>1, <2>2 DEF Numbered
  <2>4. WithinLifetimes(TraceUnder(circuit, index))
    BY <2>3, LifetimesOfVerified
  <2>5. \A id \in AllocIds(circuit) :
            Cardinality({i \in DOMAIN TraceUnder(circuit, index) :
                           /\ TraceUnder(circuit, index)[i].gate \in {"measure", "discard"}
                           /\ TraceUnder(circuit, index)[i].qubits = <<index[id]>>}) = 1
    BY <2>3, EndsOfVerified
  <2> QED
    BY <2>4, <2>5 DEF circuit, index
<1> QED
  BY <1>1, HeldInit, HeldNext, PTL DEF Spec

-----------------------------------------------------------------------------
(***************************************************************************)
(* Why a pass fails.                                                       *)
(***************************************************************************)

\* Not yet mapped, a circuit has the numbers of the parsed one, and fits the
\* target if that does.
FitKept(parsed, circuit) ==
    circuit.stage # "architecture" =>
        /\ IdentityPlacement(circuit) = IdentityPlacement(parsed)
        /\ MappedVerifies(parsed, IdentityPlacement(parsed)) =>
              MappedVerifies(circuit, IdentityPlacement(parsed))

Fitting == \A c \in DOMAIN module : FitKept(input[c], module[c])

Rewriting == pc = "rewrite" => pipeline[at] = "logical-opt"

Accounted == Held /\ Fitting /\ Rewriting /\ FailuresAreStated

LEMMA FitMapped ==
    ASSUME Becomes(module'), DOMAIN module' = DOMAIN module,
           \A c \in DOMAIN module : module'[c].stage = "architecture"
    PROVE  Fitting'
BY DEF Fitting, FitKept, Becomes, command

LEMMA FitCancel == ASSUME Held, Fitting, Cancel PROVE Fitting'
<1>1. input' = input
  BY CancelIs
<1>2. PICK c, i : CancelledAt(c, i)
  BY CancelIs
<1> DEFINE circuit == module[c]
           rest == module'[c]
           parsed == input[c]
<1>3. Pair(circuit, i) /\ IsCancelled(circuit, i, rest) /\ DOMAIN module' = DOMAIN module
      /\ \A d \in DOMAIN module : d # c => module'[d] = module[d]
  BY <1>2 DEF CancelledAt
<1>4. FitKept(parsed, circuit)
  BY <1>2 DEF Fitting, CancelledAt
<1> HIDE DEF circuit, rest, parsed
<1>5. circuit.stage # "architecture"
  BY <1>3 DEF Pair
<1>6. IdentityPlacement(rest) = IdentityPlacement(circuit)
  BY <1>3, CancelledNumbers
<1>7. MappedVerifies(circuit, IdentityPlacement(parsed)) => MappedVerifies(rest, IdentityPlacement(parsed))
  BY <1>3, CancelledFits
<1>8. FitKept(parsed, rest)
  BY <1>4, <1>5, <1>6, <1>7 DEF FitKept
<1> QED
  BY <1>1, <1>3, <1>8 DEF Fitting, parsed, rest

LEMMA FitNext == ASSUME Held, Fitting, [Next]_vars PROVE Fitting'
<1>1. CASE module' = module /\ input' = input
  BY <1>1 DEF Fitting
<1>2. CASE Cancel
  BY <1>2, FitCancel
<1>3. CASE MapIdentity
  <2>1. Becomes([c \in DOMAIN module |-> Placed(module[c], Candidate(c))])
    BY <1>3 DEF MapIdentity
  <2>2. \A c \in DOMAIN module : module[c] \in Circuit
    BY DEF Held, Shaped, Descends, IsCircuit
  <2>3. \A c \in DOMAIN module : Placed(module[c], Candidate(c)).stage = "architecture"
    BY <2>2 DEF Placed, Circuit
  <2>4. module' = [c \in DOMAIN module |-> Placed(module[c], Candidate(c))]
    BY <2>1 DEF Becomes
  <2> QED
    BY <2>1, <2>3, <2>4, FitMapped
<1>4. CASE QRiskMitigate
  <2>1. at > 0 /\ TargetVerifies
    BY <1>4 DEF Held, Shaped, QRiskMitigate, Running
  <2>2. PICK plan \in Plans :
            IF Sound(plan) THEN Becomes([c \in DOMAIN module |-> plan[c].circuit]) ELSE Fails
    BY <1>4 DEF QRiskMitigate
  <2>3. Becomes([c \in DOMAIN module |-> plan[c].circuit])
    BY <2>1, <2>2, PlanSound
  <2>4. module' = [c \in DOMAIN module |-> plan[c].circuit]
    BY <2>3 DEF Becomes
  <2>5. \A c \in DOMAIN module : plan[c].circuit.stage = "architecture"
    BY <2>1, PlanApplied DEF MappedCircuit
  <2> QED
    BY <2>3, <2>4, <2>5, FitMapped
<1>5. CASE Verify \/ VerifyFails \/ LogicalOpt \/ LogicalOptRefuses \/ RewritesDone \/ RewritesGivenUp
           \/ MapIdentityRefuses \/ VerifyTarget \/ VerifyTargetFails \/ QRiskMitigateRefuses \/ UNCHANGED vars
  <2>1. module' = module /\ input' = input
    BY <1>5 DEF Verify, VerifyFails, LogicalOpt, LogicalOptRefuses, RewritesDone, RewritesGivenUp,
       MapIdentityRefuses, VerifyTarget, VerifyTargetFails, QRiskMitigateRefuses, Fails, Becomes, command, vars
  <2> QED
    BY <1>1, <2>1
<1> QED
  BY <1>2, <1>3, <1>4, <1>5 DEF Next

\* Only a failure has to be stated.
LEMMA StatedOtherwise ==
    ASSUME pc' # "exit 1"
    PROVE  FailuresAreStated'
BY DEF FailuresAreStated

LEMMA RefusedTarget ==
    ASSUME Held, at > 0, ~TargetVerifies
    PROVE  \E c \in DOMAIN module : module[c].stage # "architecture"
BY DEF Held, Verifies, CircuitVerifies, TargetVerifies

LEMMA RefusedMap ==
    ASSUME Held, Fitting, at > 0, ~Mappable
    PROVE  \E c \in DOMAIN module :
               \/ module[c].stage = "architecture"
               \/ ~MappedVerifies(input[c], IdentityPlacement(input[c]))
<1>1. CASE AtLogicalStage
  <2>1. PICK c \in DOMAIN module : ~MappedVerifies(module[c], IdentityPlacement(module[c]))
    BY <1>1 DEF Mappable, Candidate
  <2>2. FitKept(input[c], module[c])
    BY DEF Fitting
  <2> QED
    BY <2>1, <2>2 DEF FitKept
<1>2. CASE ~AtLogicalStage
  <2>1. PICK c \in DOMAIN module : module[c].stage \notin {"none", "logical"}
    BY <1>2 DEF AtLogicalStage
  <2>2. module[c].stage \in {"none", "logical", "architecture"}
    BY DEF Held, Shaped, Descends, IsCircuit, Circuit
  <2> QED
    BY <2>1, <2>2
<1> QED
  BY <1>1, <1>2

LEMMA StatedFails ==
    ASSUME Fails, at > 0 =>
               CASE pipeline[at] = "logical-opt" -> module # before \/ ~AtLogicalStage
                 [] pipeline[at] = "map-identity" ->
                       \E c \in DOMAIN module :
                           \/ module[c].stage = "architecture"
                           \/ ~MappedVerifies(input[c], IdentityPlacement(input[c]))
                 [] OTHER -> \E c \in DOMAIN module : module[c].stage # "architecture"
    PROVE  FailuresAreStated'
BY DEF FailuresAreStated, Parsed, Fails, command, AtLogicalStage

LEMMA StatedNext == ASSUME Accounted, [Next]_vars PROVE FailuresAreStated'
<1>a. Held /\ Fitting /\ Rewriting /\ FailuresAreStated
  BY DEF Accounted
<1>1. CASE VerifyFails
  <2>1. at = 0
    <3>1. at \in Nat /\ ~Verifies(module)
      BY <1>a, <1>1 DEF VerifyFails, Held, Shaped
    <3>2. ~(at > 0)
      BY <1>a, <3>1 DEF Held
    <3> QED
      BY <3>1, <3>2
  <2> QED
    BY <1>1, <2>1, StatedFails DEF VerifyFails
<1>2. CASE LogicalOptRefuses
  BY <1>2, StatedFails DEF LogicalOptRefuses, Running
<1>3. CASE RewritesGivenUp
  BY <1>a, <1>3, StatedFails DEF RewritesGivenUp, Rewriting
<1>4. CASE MapIdentityRefuses
  <2>1. pipeline[at] = "map-identity" /\ ~Mappable /\ Fails
    BY <1>4 DEF MapIdentityRefuses, Running
  <2>2. at > 0 => \E c \in DOMAIN module :
                      \/ module[c].stage = "architecture"
                      \/ ~MappedVerifies(input[c], IdentityPlacement(input[c]))
    BY <1>a, <2>1, RefusedMap
  <2> QED
    BY <2>1, <2>2, StatedFails
<1>5. CASE VerifyTargetFails \/ QRiskMitigateRefuses
  <2>1. pipeline[at] \in {"verify-target", "qrisk-mitigate"} /\ ~TargetVerifies /\ Fails
    BY <1>5 DEF VerifyTargetFails, QRiskMitigateRefuses, Running
  <2>2. at > 0 => \E c \in DOMAIN module : module[c].stage # "architecture"
    BY <1>a, <2>1, RefusedTarget
  <2> QED
    BY <2>1, <2>2, StatedFails
<1>6. CASE QRiskMitigate
  <2>1. at > 0 /\ TargetVerifies
    BY <1>a, <1>6 DEF Held, Shaped, QRiskMitigate, Running
  <2>2. pc' = "verify"
    BY <1>a, <1>6, <2>1, PlanSound DEF QRiskMitigate, Becomes
  <2> QED
    BY <2>2, StatedOtherwise
<1>7. CASE Verify \/ LogicalOpt \/ Cancel \/ RewritesDone \/ MapIdentity \/ VerifyTarget
  <2>1. pc' # "exit 1"
    BY <1>7 DEF Verify, LogicalOpt, Cancel, RewritesDone, MapIdentity, VerifyTarget, Becomes
  <2> QED
    BY <2>1, StatedOtherwise
<1>8. CASE UNCHANGED vars
  BY <1>a, <1>8 DEF vars, FailuresAreStated, Parsed, AtLogicalStage
<1> QED
  BY <1>1, <1>2, <1>3, <1>4, <1>5, <1>6, <1>7, <1>8 DEF Next

LEMMA RewritingNext == ASSUME Rewriting, [Next]_vars PROVE Rewriting'
<1>1. CASE LogicalOpt \/ Cancel \/ UNCHANGED vars
  BY <1>1 DEF LogicalOpt, Running, Cancel, Rewriting, command, vars
<1>2. CASE ~(LogicalOpt \/ Cancel \/ UNCHANGED vars)
  BY <1>2 DEF Next, Verify, VerifyFails, LogicalOptRefuses, RewritesDone, RewritesGivenUp, MapIdentity,
     MapIdentityRefuses, VerifyTarget, VerifyTargetFails, QRiskMitigate, QRiskMitigateRefuses,
     Fails, Becomes, Rewriting
<1> QED
  BY <1>1, <1>2

\* A pass fails only for what it documents, for modules of any size and any
\* command line: an optimization never costs the fit on the target, what was
\* mapped passes the target's verifier, and no reordering fails.
THEOREM FailuresAlwaysStated == Spec => []FailuresAreStated
<1>1. Init => Accounted
  <2>1. Init => Fitting /\ Rewriting /\ FailuresAreStated
    BY DEF Init, Fitting, FitKept, Rewriting, FailuresAreStated
  <2> QED
    BY <2>1, HeldInit DEF Accounted
<1>2. Accounted /\ [Next]_vars => Accounted'
  BY HeldNext, FitNext, RewritingNext, StatedNext DEF Accounted
<1>3. Accounted => FailuresAreStated
  BY DEF Accounted
<1> QED
  BY <1>1, <1>2, <1>3, PTL DEF Spec

-----------------------------------------------------------------------------
(***************************************************************************)
(* Reduced words.                                                          *)
(***************************************************************************)
Cancellable(e) == e.event.gate \in SelfInverse /\ e.notes = {}

\* One letter more.
Letter(kept, e) == IF kept # <<>> /\ Last(kept) = e /\ Cancellable(e) THEN Front(kept) ELSE Append(kept, e)

IsFold(word, S, iter) ==
    iter = [s \in SUBSET S |-> IF s = {} THEN <<>> ELSE Letter(iter[s \ {Max(s)}], word[Max(s)])]

LEMMA ReducedFolds ==
    ASSUME NEW word
    PROVE  Reduced(word) = (CHOOSE iter : IsFold(word, DOMAIN word, iter))[DOMAIN word]
BY DEF Reduced, FoldLeft, MapThenFoldSet, IsFold, Letter, Cancellable

LEMMA MaxIs ==
    ASSUME NEW k \in Nat, NEW s \in SUBSET (1..k), s # {}
    PROVE  Max(s) \in s /\ \A j \in s : j <= Max(s)
<1>1. PICK m \in s : \A j \in s : m >= j
  BY LastOf
<1> QED
  BY <1>1 DEF Max

LEMMA FoldExists ==
    ASSUME NEW word, NEW n \in Nat
    PROVE  \E iter : IsFold(word, 1..n, iter)
<1> DEFINE S == {k \in Nat : \E iter : IsFold(word, 1..k, iter)}
<1>1. 0 \in S
  <2> DEFINE iter == [s \in SUBSET (1..0) |-> <<>>]
  <2>1. \A s \in SUBSET (1..0) : s = {}
    OBVIOUS
  <2>2. IsFold(word, 1..0, iter)
    BY <2>1 DEF IsFold
  <2> QED
    BY <2>2
<1>2. ASSUME NEW k \in Nat, k \in S
      PROVE  k + 1 \in S
  <2>1. PICK shorter : IsFold(word, 1..k, shorter)
    BY <1>2
  <2> DEFINE iter == [s \in SUBSET (1..(k + 1)) |->
                        IF k + 1 \in s THEN Letter(shorter[s \ {k + 1}], word[k + 1]) ELSE shorter[s]]
             step(f, s) == IF s = {} THEN <<>> ELSE Letter(f[s \ {Max(s)}], word[Max(s)])
  <2>2. \A s \in SUBSET (1..k) : shorter[s] = step(shorter, s)
    BY <2>1 DEF IsFold
  <2>3. ASSUME NEW s \in SUBSET (1..(k + 1))
        PROVE  iter[s] = step(iter, s)
    <3>1. CASE k + 1 \in s
      <4>1. Max(s) \in s /\ k + 1 <= Max(s)
        BY <3>1, MaxIs
      <4>2. Max(s) = k + 1
        <5> DEFINE max == Max(s)
        <5>1. max \in 1..(k + 1) /\ k + 1 <= max
          BY <4>1
        <5> HIDE DEF max
        <5>2. max = k + 1
          BY <5>1
        <5> QED
          BY <5>2 DEF max
      <4>3. s \ {k + 1} \in SUBSET (1..(k + 1)) /\ k + 1 \notin s \ {k + 1}
        OBVIOUS
      <4>4. iter[s] = Letter(shorter[s \ {k + 1}], word[k + 1]) /\ iter[s \ {k + 1}] = shorter[s \ {k + 1}]
        BY <3>1, <4>3
      <4>5. s # {}
        BY <3>1
      <4> HIDE DEF iter
      <4> QED
        BY <4>2, <4>4, <4>5
    <3>2. CASE k + 1 \notin s
      <4>1. s \in SUBSET (1..k)
        <5>1. \A j \in s : j \in 1..(k + 1) /\ j # k + 1
          BY <3>2
        <5> QED
          BY <5>1
      <4>2. iter[s] = step(shorter, s)
        BY <2>2, <3>2, <4>1
      <4>3. s # {} => iter[s \ {Max(s)}] = shorter[s \ {Max(s)}]
        BY <3>2
      <4> HIDE DEF iter
      <4> QED
        BY <4>2, <4>3
    <3> QED
      BY <3>1, <3>2
  <2>4. iter = [s \in SUBSET (1..(k + 1)) |-> iter[s]]
    OBVIOUS
  <2> HIDE DEF iter
  <2>5. IsFold(word, 1..(k + 1), iter)
    BY <2>3, <2>4 DEF IsFold
  <2> QED
    BY <2>5
<1> HIDE DEF S
<1>3. n \in S
  BY <1>1, <1>2, Induct
<1> QED
  BY <1>3 DEF S

LEMMA LetterTyped ==
    ASSUME NEW S, NEW kept \in Seq(S), NEW e \in S
    PROVE  Letter(kept, e) \in Seq(S)
BY DEF Letter, Front

\* What is kept of a word, letter by letter.
IsReduction(S, word, red) ==
    /\ word \in Seq(S)
    /\ red \in [0..Len(word) -> Seq(S)]
    /\ red[0] = <<>>
    /\ \A i \in 1..Len(word) : red[i] = Letter(red[i - 1], word[i])

LEMMA ReductionIs ==
    ASSUME NEW S, NEW word \in Seq(S)
    PROVE  \E red : IsReduction(S, word, red) /\ Reduced(word) = red[Len(word)]
<1> DEFINE n == Len(word)
           iter == CHOOSE iter : IsFold(word, 1..n, iter)
           red == [k \in 0..n |-> iter[1..k]]
           T == {k \in Nat : k <= n => red[k] \in Seq(S)}
<1>1. n \in Nat /\ DOMAIN word = 1..n /\ \A i \in 1..n : word[i] \in S
  OBVIOUS
<1>2. IsFold(word, 1..n, iter)
  BY <1>1, FoldExists
<1>3. Reduced(word) = iter[1..n]
  BY <1>1, ReducedFolds
<1> HIDE DEF iter, n
<1>4. \A s \in SUBSET (1..n) : iter[s] = IF s = {} THEN <<>> ELSE Letter(iter[s \ {Max(s)}], word[Max(s)])
  BY <1>2 DEF IsFold
<1>5. red[0] = <<>>
  <2>1. 1..0 = {} /\ 1..0 \in SUBSET (1..n) /\ 0 \in 0..n
    BY <1>1
  <2> QED
    BY <1>4, <2>1
<1>6. ASSUME NEW i \in 1..n
      PROVE  red[i] = Letter(red[i - 1], word[i])
  <2>1. 1..i \in SUBSET (1..n) /\ 1..i # {} /\ i \in Nat /\ i \in 1..i
    BY <1>1
  <2>2. Max(1..i) \in 1..i /\ i <= Max(1..i)
    BY <2>1, MaxIs
  <2>3. Max(1..i) = i
    BY <2>1, <2>2
  <2>4. (1..i) \ {i} = 1..(i - 1)
    BY <2>1
  <2>5. iter[1..i] = Letter(iter[1..(i - 1)], word[i])
    BY <1>4, <2>1, <2>3, <2>4
  <2>6. i \in 0..n /\ i - 1 \in 0..n
    BY <1>1
  <2> QED
    BY <2>5, <2>6
<1>a. red = [k \in 0..n |-> red[k]] /\ red[n] = iter[1..n]
  BY <1>1
<1> HIDE DEF red
<1>7. 0 \in T
  <2>1. <<>> \in Seq(S)
    OBVIOUS
  <2> QED
    BY <1>5, <2>1
<1>8. ASSUME NEW k \in Nat, k \in T
      PROVE  k + 1 \in T
  <2> SUFFICES ASSUME k + 1 <= n
               PROVE  red[k + 1] \in Seq(S)
    OBVIOUS
  <2>1. k + 1 \in 1..n /\ (k + 1) - 1 = k /\ k <= n
    BY <1>1
  <2> QED
    BY <1>1, <1>6, <1>8, <2>1, LetterTyped
<1> HIDE DEF T
<1>9. \A k \in Nat : k \in T
  BY <1>7, <1>8, Induct
<1>10. \A k \in 0..n : red[k] \in Seq(S)
  BY <1>1, <1>9 DEF T
<1>11. red \in [0..n -> Seq(S)] /\ red[n] = iter[1..n]
  BY <1>a, <1>10
<1>12. IsReduction(S, word, red)
  BY <1>5, <1>6, <1>11 DEF IsReduction, n
<1> QED
  BY <1>3, <1>11, <1>12 DEF n

\* No letter stands next to its inverse.
Tight(word) == \A i \in 1..(Len(word) - 1) : word[i] = word[i + 1] => ~Cancellable(word[i])

LEMMA FrontIs ==
    ASSUME NEW S, NEW kept \in Seq(S), kept # <<>>
    PROVE  /\ Len(kept) \in Nat /\ Len(kept) > 0
           /\ Front(kept) \in Seq(S) /\ Len(Front(kept)) = Len(kept) - 1
           /\ \A i \in 1..(Len(kept) - 1) : Front(kept)[i] = kept[i]
           /\ Last(kept) = kept[Len(kept)]
<1>1. Len(kept) \in Nat /\ Len(kept) > 0
  OBVIOUS
<1>2. Front(kept) = SubSeq(kept, 1, Len(kept) - 1)
  BY DEF Front
<1>3. Len(Front(kept)) = Len(kept) - 1 /\ Front(kept) \in Seq(S)
  <2> DEFINE m == Len(kept) - 1
  <2>1. m \in Nat /\ 1 \in Int /\ \A i \in 1..m : kept[i] \in S
    BY <1>1
  <2> HIDE DEF m
  <2>2. SubSeq(kept, 1, m) \in Seq(S) /\ Len(SubSeq(kept, 1, m)) = IF 1 <= m THEN m - 1 + 1 ELSE 0
    BY <2>1, SubSeqProperties
  <2>3. Len(SubSeq(kept, 1, m)) = m
    BY <2>1, <2>2
  <2> QED
    BY <1>2, <2>2, <2>3 DEF m
<1>4. \A i \in 1..(Len(kept) - 1) : Front(kept)[i] = kept[i]
  BY <1>1, <1>2
<1> QED
  BY <1>1, <1>3, <1>4 DEF Last

LEMMA AppendIs ==
    ASSUME NEW S, NEW kept \in Seq(S), NEW e \in S
    PROVE  /\ Append(kept, e) \in Seq(S) /\ Len(kept) \in Nat /\ Len(Append(kept, e)) = Len(kept) + 1
           /\ \A i \in 1..Len(kept) : Append(kept, e)[i] = kept[i]
           /\ Append(kept, e)[Len(kept) + 1] = e
           /\ Append(kept, e) # <<>>
OBVIOUS

LEMMA SameSequence ==
    ASSUME NEW S, NEW a \in Seq(S), NEW b \in Seq(S), Len(a) = Len(b),
           \A i \in 1..Len(a) : a[i] = b[i]
    PROVE  a = b
OBVIOUS

LEMMA LetterTight ==
    ASSUME NEW S, NEW kept \in Seq(S), NEW e \in S, Tight(kept)
    PROVE  Tight(Letter(kept, e))
<1>1. CASE kept # <<>> /\ Last(kept) = e /\ Cancellable(e)
  <2> DEFINE new == Front(kept)
  <2>1. /\ Len(kept) \in Nat /\ Len(new) = Len(kept) - 1
        /\ \A i \in 1..(Len(kept) - 1) : new[i] = kept[i]
    BY <1>1, FrontIs
  <2>2. Letter(kept, e) = new
    BY <1>1 DEF Letter
  <2> HIDE DEF new
  <2>3. Tight(new)
    BY <2>1 DEF Tight
  <2> QED
    BY <2>2, <2>3
<1>2. CASE ~(kept # <<>> /\ Last(kept) = e /\ Cancellable(e))
  <2> DEFINE new == Append(kept, e)
             k == Len(kept)
  <2>1. k \in Nat /\ Len(new) = k + 1 /\ new[k + 1] = e /\ \A i \in 1..k : new[i] = kept[i]
    BY AppendIs
  <2>2. Letter(kept, e) = new
    BY <1>2 DEF Letter
  <2>3. k > 0 => kept # <<>> /\ Last(kept) = kept[k]
    BY DEF Last
  <2> HIDE DEF new
  <2>4. ASSUME NEW i \in 1..k, new[i] = new[i + 1]
        PROVE  ~Cancellable(new[i])
    <3>1. CASE i = k
      <4>1. new[i] = e /\ kept[k] = e /\ k > 0
        BY <2>1, <2>4, <3>1
      <4> QED
        BY <1>2, <2>3, <4>1
    <3>2. CASE i # k
      <4>1. i \in 1..(k - 1) /\ i + 1 \in 1..k
        BY <2>1, <3>2
      <4>2. kept[i] = kept[i + 1] /\ new[i] = kept[i]
        BY <2>1, <2>4, <4>1
      <4> QED
        BY <4>1, <4>2 DEF Tight
    <3> QED
      BY <3>1, <3>2
  <2>5. Len(new) - 1 = k
    BY <2>1
  <2>6. Tight(new)
    BY <2>4, <2>5 DEF Tight
  <2> QED
    BY <2>2, <2>6
<1> QED
  BY <1>1, <1>2

LEMMA LetterTwice ==
    ASSUME NEW S, NEW kept \in Seq(S), NEW e \in S, Tight(kept), Cancellable(e)
    PROVE  Letter(Letter(kept, e), e) = kept
<1> DEFINE k == Len(kept)
<1>1. CASE kept # <<>> /\ Last(kept) = e
  <2> DEFINE new == Front(kept)
             back == Append(new, e)
  <2>1. /\ k \in Nat /\ k > 0 /\ new \in Seq(S) /\ Len(new) = k - 1
        /\ \A i \in 1..(k - 1) : new[i] = kept[i]
        /\ kept[k] = e
    BY <1>1, FrontIs
  <2>2. Letter(kept, e) = new
    BY <1>1 DEF Letter
  <2> HIDE DEF new
  <2>3. ~(new # <<>> /\ Last(new) = e)
    <3> SUFFICES ASSUME new # <<>>, Last(new) = e
                 PROVE  FALSE
      OBVIOUS
    <3>1. k - 1 > 0 /\ new[k - 1] = e
      BY <2>1 DEF Last
    <3>2. k - 1 \in 1..(k - 1) /\ (k - 1) + 1 = k
      BY <2>1, <3>1
    <3>3. kept[k - 1] = e
      BY <2>1, <3>1, <3>2
    <3> QED
      BY <2>1, <3>2, <3>3 DEF Tight
  <2>4. Letter(new, e) = back
    BY <2>3 DEF Letter
  <2>5. /\ back \in Seq(S) /\ Len(back) = (k - 1) + 1
        /\ \A i \in 1..(k - 1) : back[i] = new[i]
        /\ back[(k - 1) + 1] = e
    BY <2>1, AppendIs
  <2> HIDE DEF back
  <2>6. \A i \in 1..k : back[i] = kept[i]
    <3> TAKE i \in 1..k
    <3>1. CASE i = k
      BY <2>1, <2>5, <3>1
    <3>2. CASE i # k
      <4>1. i \in 1..(k - 1)
        BY <2>1, <3>2
      <4> QED
        BY <2>1, <2>5, <4>1
    <3> QED
      BY <3>1, <3>2
  <2>7. Len(back) = k
    BY <2>1, <2>5
  <2>8. back = kept
    BY <2>5, <2>6, <2>7, SameSequence
  <2> QED
    BY <2>2, <2>4, <2>8
<1>2. CASE ~(kept # <<>> /\ Last(kept) = e)
  <2> DEFINE new == Append(kept, e)
             back == Front(new)
  <2>1. /\ k \in Nat /\ new \in Seq(S) /\ Len(new) = k + 1 /\ new # <<>>
        /\ \A i \in 1..k : new[i] = kept[i]
        /\ new[k + 1] = e
    BY AppendIs
  <2>2. Letter(kept, e) = new
    BY <1>2 DEF Letter
  <2> HIDE DEF new
  <2>3. /\ back \in Seq(S) /\ Len(back) = (k + 1) - 1 /\ Last(new) = new[k + 1]
        /\ \A i \in 1..((k + 1) - 1) : back[i] = new[i]
    BY <2>1, FrontIs
  <2>4. Letter(new, e) = back
    BY <2>1, <2>3 DEF Letter
  <2> HIDE DEF back
  <2>5. (k + 1) - 1 = k
    BY <2>1
  <2>6. back = kept
    BY <2>1, <2>3, <2>5, SameSequence
  <2> QED
    BY <2>2, <2>4, <2>6
<1> QED
  BY <1>1, <1>2

LEMMA ReductionTight ==
    ASSUME NEW S, NEW word, NEW red, IsReduction(S, word, red), NEW n \in 0..Len(word)
    PROVE  Tight(red[n])
<1> DEFINE T == {k \in Nat : k <= Len(word) => Tight(red[k])}
<1>1. /\ Len(word) \in Nat /\ \A i \in 1..Len(word) : word[i] \in S
      /\ red[0] = <<>> /\ \A i \in 0..Len(word) : red[i] \in Seq(S)
      /\ \A i \in 1..Len(word) : red[i] = Letter(red[i - 1], word[i])
  <2>1. word \in Seq(S)
    BY DEF IsReduction
  <2>2. Len(word) \in Nat /\ \A i \in 1..Len(word) : word[i] \in S
    BY <2>1
  <2> QED
    BY <2>2 DEF IsReduction
<1>2. 0 \in T
  <2>1. Len(<<>>) = 0
    OBVIOUS
  <2>2. Tight(<<>>)
    BY <2>1 DEF Tight
  <2> QED
    BY <1>1, <2>2
<1>3. ASSUME NEW k \in Nat, k \in T
      PROVE  k + 1 \in T
  <2> SUFFICES ASSUME k + 1 <= Len(word)
               PROVE  Tight(red[k + 1])
    OBVIOUS
  <2>1. k + 1 \in 1..Len(word) /\ (k + 1) - 1 = k /\ k <= Len(word) /\ k \in 0..Len(word)
    BY <1>1
  <2>2. Tight(red[k])
    BY <1>3, <2>1
  <2> QED
    BY <1>1, <2>1, <2>2, LetterTight
<1> HIDE DEF T
<1>4. \A k \in Nat : k \in T
  BY <1>2, <1>3, Induct
<1> QED
  BY <1>1, <1>4 DEF T

\* A pair of neighbours goes without a trace.
LEMMA ReducedWithout ==
    ASSUME NEW S, NEW word \in Seq(S), NEW rest \in Seq(S), NEW first \in 1..(Len(word) - 1),
           word[first] = word[first + 1], Cancellable(word[first]),
           Len(rest) = Len(word) - 2,
           \A i \in 1..(Len(word) - 2) : rest[i] = word[Kept(first, i)]
    PROVE  Reduced(rest) = Reduced(word)
<1> DEFINE n == Len(word)
           e == word[first]
<1>1. PICK red : IsReduction(S, word, red) /\ Reduced(word) = red[Len(word)]
  BY ReductionIs
<1>2. PICK left : IsReduction(S, rest, left) /\ Reduced(rest) = left[Len(rest)]
  BY ReductionIs
<1> DEFINE T == {k \in Nat : k <= n - 2 => left[k] = red[IF k < first THEN k ELSE k + 2]}
<1>3. /\ n \in Nat /\ Len(rest) = n - 2 /\ first \in 1..(n - 1) /\ first + 1 \in 1..n
      /\ \A i \in 1..n : word[i] \in S
  OBVIOUS
<1>4. /\ red[0] = <<>> /\ \A i \in 0..n : red[i] \in Seq(S)
      /\ \A i \in 1..n : red[i] = Letter(red[i - 1], word[i])
  BY <1>1 DEF IsReduction
<1>5. left[0] = <<>> /\ \A i \in 1..(n - 2) : left[i] = Letter(left[i - 1], word[Kept(first, i)])
  BY <1>2 DEF IsReduction
<1>6. \A i \in 0..n : Tight(red[i])
  BY <1>1, ReductionTight
<1>7. e \in S /\ word[first + 1] = e /\ Cancellable(e)
  BY <1>3
<1> HIDE DEF n, e
<1>8. red[first + 1] = red[first - 1]
  <2>1. first \in 1..n /\ (first + 1) - 1 = first /\ first - 1 \in 0..n
    BY <1>3
  <2>2. red[first] = Letter(red[first - 1], e)
    BY <1>4, <2>1 DEF e
  <2>3. red[first + 1] = Letter(red[first], e)
    BY <1>3, <1>4, <1>7, <2>1
  <2>4. red[first - 1] \in Seq(S) /\ Tight(red[first - 1])
    BY <1>4, <1>6, <2>1
  <2> QED
    BY <1>7, <2>2, <2>3, <2>4, LetterTwice
<1>9. 0 \in T
  BY <1>3, <1>4, <1>5
<1>10. ASSUME NEW k \in Nat, k \in T
       PROVE  k + 1 \in T
  <2> SUFFICES ASSUME k + 1 <= n - 2
               PROVE  left[k + 1] = red[IF k + 1 < first THEN k + 1 ELSE (k + 1) + 2]
    OBVIOUS
  <2>1. k + 1 \in 1..(n - 2) /\ k <= n - 2 /\ (k + 1) - 1 = k
    BY <1>3
  <2>2. left[k] = red[IF k < first THEN k ELSE k + 2]
    BY <1>10, <2>1
  <2>3. left[k + 1] = Letter(left[k], word[Kept(first, k + 1)])
    BY <1>5, <2>1
  <2>4. CASE k + 1 < first
    <3>1. k < first /\ k + 1 \in 1..n /\ Kept(first, k + 1) = k + 1
      BY <1>3, <2>1, <2>4 DEF Kept
    <3>2. red[k + 1] = Letter(red[k], word[k + 1])
      BY <1>4, <2>1, <3>1
    <3> QED
      BY <2>2, <2>3, <2>4, <3>1, <3>2
  <2>5. CASE ~(k + 1 < first)
    <3>1. k + 3 \in 1..n /\ Kept(first, k + 1) = k + 3 /\ (k + 3) - 1 = k + 2 /\ (k + 1) + 2 = k + 3
      BY <1>3, <2>1, <2>5 DEF Kept
    <3>2. red[k + 3] = Letter(red[k + 2], word[k + 3])
      BY <1>4, <3>1
    <3>3. left[k] = red[k + 2]
      <4>1. CASE k < first
        <5>1. k = first - 1 /\ k + 2 = first + 1
          BY <1>3, <2>5, <4>1
        <5> QED
          BY <1>8, <2>2, <4>1, <5>1
      <4>2. CASE ~(k < first)
        BY <2>2, <4>2
      <4> QED
        BY <4>1, <4>2
    <3> QED
      BY <2>3, <2>5, <3>1, <3>2, <3>3
  <2> QED
    BY <2>4, <2>5
<1> HIDE DEF T
<1>11. \A k \in Nat : k \in T
  BY <1>9, <1>10, Induct
<1>12. left[n - 2] = red[n]
  <2>1. n - 2 \in Nat
    BY <1>2, <1>3 DEF IsReduction
  <2>2. left[n - 2] = red[IF n - 2 < first THEN n - 2 ELSE (n - 2) + 2]
    BY <1>11, <2>1 DEF T
  <2>3. CASE n - 2 < first
    <3>1. first = n - 1 /\ first + 1 = n /\ first - 1 = n - 2
      BY <1>3, <2>3
    <3> QED
      BY <1>8, <2>2, <2>3, <3>1
  <2>4. CASE ~(n - 2 < first)
    <3>1. (n - 2) + 2 = n
      BY <1>3
    <3> QED
      BY <2>2, <2>4, <3>1
  <2> QED
    BY <2>3, <2>4
<1> QED
  BY <1>1, <1>2, <1>3, <1>12 DEF n

\* Without such neighbours a word is its own reduced form.
LEMMA ReducedItself ==
    ASSUME NEW S, NEW word \in Seq(S), Tight(word)
    PROVE  Reduced(word) = word
<1> DEFINE n == Len(word)
<1>1. PICK red : IsReduction(S, word, red) /\ Reduced(word) = red[Len(word)]
  BY ReductionIs
<1> DEFINE begins(k) == Len(red[k]) = k /\ \A i \in 1..k : red[k][i] = word[i]
           T == {k \in Nat : k <= n => begins(k)}
<1>2. n \in Nat /\ \A i \in 1..n : word[i] \in S
  OBVIOUS
<1>3. /\ red[0] = <<>> /\ \A i \in 0..n : red[i] \in Seq(S)
      /\ \A i \in 1..n : red[i] = Letter(red[i - 1], word[i])
  BY <1>1 DEF IsReduction
<1>a. \A i \in 1..(n - 1) : word[i] = word[i + 1] => ~Cancellable(word[i])
  BY DEF Tight
<1> HIDE DEF n
<1>4. 0 \in T
  <2>1. Len(<<>>) = 0
    OBVIOUS
  <2> QED
    BY <1>3, <2>1
<1>5. ASSUME NEW k \in Nat, k \in T
      PROVE  k + 1 \in T
  <2> SUFFICES ASSUME k + 1 <= n
               PROVE  begins(k + 1)
    OBVIOUS
  <2> DEFINE kept == red[k]
             e == word[k + 1]
  <2>1. k + 1 \in 1..n /\ k \in 0..n /\ k <= n /\ (k + 1) - 1 = k
    BY <1>2
  <2>2. Len(kept) = k /\ \A i \in 1..k : kept[i] = word[i]
    BY <1>5, <2>1
  <2>3. kept \in Seq(S) /\ e \in S /\ red[k + 1] = Letter(kept, e)
    BY <1>2, <1>3, <2>1
  <2> HIDE DEF kept
  <2>4. ~(kept # <<>> /\ Last(kept) = e /\ Cancellable(e))
    <3> SUFFICES ASSUME kept # <<>>, Last(kept) = e, Cancellable(e)
                 PROVE  FALSE
      OBVIOUS
    <3>1. k > 0 /\ kept[k] = e
      BY <2>2, <2>3, FrontIs
    <3>2. k \in 1..(n - 1) /\ k \in 1..k
      BY <1>2, <2>1, <3>1
    <3>3. word[k] = word[k + 1]
      BY <2>2, <3>1, <3>2
    <3> QED
      BY <1>a, <3>2, <3>3
  <2>5. red[k + 1] = Append(kept, e)
    BY <2>3, <2>4 DEF Letter
  <2>6. Len(Append(kept, e)) = k + 1 /\ Append(kept, e)[k + 1] = e /\ \A i \in 1..k : Append(kept, e)[i] = kept[i]
    BY <2>2, <2>3, AppendIs
  <2>7. \A i \in 1..(k + 1) : red[k + 1][i] = word[i]
    <3> TAKE i \in 1..(k + 1)
    <3>1. CASE i = k + 1
      BY <2>5, <2>6, <3>1
    <3>2. CASE i # k + 1
      <4>1. i \in 1..k
        BY <3>2
      <4> QED
        BY <2>2, <2>5, <2>6, <4>1
    <3> QED
      BY <3>1, <3>2
  <2> QED
    BY <2>5, <2>6, <2>7
<1> HIDE DEF T
<1>6. n \in T
  BY <1>2, <1>4, <1>5, Induct
<1>7. Len(red[n]) = n /\ (\A i \in 1..n : red[n][i] = word[i]) /\ red[n] \in Seq(S)
  BY <1>2, <1>3, <1>6 DEF T
<1>8. red[n] = word
  BY <1>7, SameSequence DEF n
<1> QED
  BY <1>1, <1>8 DEF n

LEMMA LetterOf ==
    ASSUME NEW circuit, NEW index, NEW i \in DOMAIN circuit.ops
    PROVE  /\ DOMAIN Words(circuit, index) = DOMAIN circuit.ops
           /\ Words(circuit, index)[i] = [event |-> TraceUnder(circuit, index)[i], notes |-> circuit.ops[i].notes]
           /\ TraceUnder(circuit, index)[i].gate = circuit.ops[i].gate
<1>1. /\ DOMAIN TraceUnder(circuit, index) = DOMAIN circuit.ops
      /\ TraceUnder(circuit, index)[i] = EventUnder(circuit.ops[i], Placement(circuit, index))
  BY DEF TraceUnder
<1>2. TraceUnder(circuit, index)[i].gate = circuit.ops[i].gate
  BY <1>1 DEF EventUnder
<1> QED
  BY <1>1, <1>2 DEF Words

\* The two gates of a pair make the same letter.
LEMMA PairLetters ==
    ASSUME NEW circuit, NEW first, Pair(circuit, first), NEW index
    PROVE  /\ Words(circuit, index)[first] = Words(circuit, index)[first + 1]
           /\ Cancellable(Words(circuit, index)[first])
<1> DEFINE place == Placement(circuit, index)
           a == circuit.ops[first]
           b == circuit.ops[first + 1]
           m == Width(circuit, first)
<1>1. /\ first \in DOMAIN circuit.ops /\ first + 1 \in DOMAIN circuit.ops
      /\ a.gate = b.gate /\ a.gate \in Gates
      /\ DOMAIN a.operands = 1..m /\ DOMAIN b.operands = 1..m
      /\ Qubits(a) = {a.id} \X (1..m)
      /\ \A k \in 1..m : b.operands[k] = <<a.id, k>>
  BY PairParts
<1>2. a.gate \in SelfInverse /\ a.notes = {} /\ b.notes = {}
  BY DEF Pair, Cancels, Matches
<1>3. IsCircuit(circuit) /\ OperandsDefined(circuit)
  BY DEF Pair, CircuitVerifies
<1>4. a.angle = {} /\ b.angle = {}
  BY <1>1, <1>2, <1>3 DEF IsCircuit, SelfInverse
<1>5. ASSUME NEW k \in 1..m
      PROVE  place[b.operands[k]] = place[a.operands[k]]
  <2>1. <<a.id, k>> \in Qubits(a)
    BY <1>1
  <2>2. FollowsWire(circuit, index, place, first, <<a.id, k>>)
    BY <1>1, <1>3, <2>1, PlacementIs
  <2> HIDE DEF place
  <2>3. a.gate # "alloc"
    BY <1>1 DEF Gates
  <2> QED
    BY <1>1, <2>2, <2>3 DEF FollowsWire
<1> HIDE DEF place, a, b, m
<1>6. a.gate \notin {"alloc", "barrier", "output"}
  BY <1>1 DEF Gates
<1>7. WiresUnder(a, place) = WiresUnder(b, place)
  <2>1. /\ WiresUnder(a, place) = [k \in DOMAIN a.operands |-> place[a.operands[k]]]
        /\ WiresUnder(b, place) = [k \in DOMAIN b.operands |-> place[b.operands[k]]]
    BY <1>1, <1>6 DEF WiresUnder
  <2> QED
    BY <1>1, <1>5, <2>1
<1>8. EventUnder(a, place) = EventUnder(b, place)
  BY <1>1, <1>2, <1>4, <1>7 DEF EventUnder
<1>9. /\ TraceUnder(circuit, index)[first] = EventUnder(a, place)
      /\ TraceUnder(circuit, index)[first + 1] = EventUnder(b, place)
  BY <1>1 DEF TraceUnder, a, b, place
<1> DEFINE x == TraceUnder(circuit, index)[first]
           y == TraceUnder(circuit, index)[first + 1]
<1>10. /\ Words(circuit, index)[first] = [event |-> x, notes |-> a.notes]
       /\ Words(circuit, index)[first + 1] = [event |-> y, notes |-> b.notes]
       /\ x.gate = a.gate
  BY <1>1, LetterOf DEF a, b
<1>11. x = y
  BY <1>8, <1>9
<1> HIDE DEF x, y
<1> QED
  BY <1>2, <1>10, <1>11 DEF Cancellable

LEMMA WordIsSeq ==
    ASSUME NEW circuit, IsCircuit(circuit), NEW index
    PROVE  /\ Words(circuit, index) \in Seq({Words(circuit, index)[i] : i \in 1..Len(circuit.ops)})
           /\ Len(Words(circuit, index)) = Len(circuit.ops)
<1> DEFINE w == Words(circuit, index)
           n == Len(circuit.ops)
           S == {w[i] : i \in 1..n}
<1>1. DOMAIN circuit.ops = 1..n /\ n \in Nat
  BY CircuitTyped DEF IsCircuit
<1>2. w = [i \in 1..n |-> w[i]]
  BY <1>1 DEF Words, TraceUnder
<1> HIDE DEF w, n
<1>3. w \in [1..n -> S]
  BY <1>2
<1> HIDE DEF S
<1>4. w \in Seq(S) /\ Len(w) = n
  BY <1>1, <1>3, FunctionIsSeq
<1> QED
  BY <1>4 DEF S, w, n

\* A cancellation keeps the reduced form.
LEMMA CancelledReduced ==
    ASSUME NEW circuit, NEW first, Pair(circuit, first), NEW rest, IsCancelled(circuit, first, rest),
           NEW index
    PROVE  Reduced(Words(rest, index)) = Reduced(Words(circuit, index))
<1> DEFINE n == Len(circuit.ops)
           w == Words(circuit, index)
           left == Words(rest, index)
           S == {w[i] : i \in 1..n}
<1>1. /\ IsCircuit(circuit) /\ IsCircuit(rest) /\ n \in Nat /\ first \in 1..(n - 1)
      /\ DOMAIN circuit.ops = 1..n /\ DOMAIN rest.ops = 1..(n - 2)
  BY CancelledPair
<1>2. w \in Seq(S) /\ Len(w) = n
  BY <1>1, WordIsSeq
<1>3. ASSUME NEW i \in 1..(n - 2)
      PROVE  left[i] = w[Kept(first, i)]
  <2>1. i \in DOMAIN rest.ops /\ Kept(first, i) \in DOMAIN circuit.ops
    BY <1>1, KeptIs
  <2>2. TraceUnder(rest, index)[i] = TraceUnder(circuit, index)[Kept(first, i)]
    BY CancelledTrace
  <2>3. rest.ops[i].notes = circuit.ops[Kept(first, i)].notes
    BY DEF IsCancelled
  <2>4. /\ left[i] = [event |-> TraceUnder(rest, index)[i], notes |-> rest.ops[i].notes]
        /\ w[Kept(first, i)] = [event |-> TraceUnder(circuit, index)[Kept(first, i)],
                                notes |-> circuit.ops[Kept(first, i)].notes]
    BY <2>1, LetterOf
  <2> QED
    BY <2>2, <2>3, <2>4
<1>4. left = [i \in 1..(n - 2) |-> left[i]] /\ Len(left) = n - 2
  <2>1. left = [i \in 1..(n - 2) |-> left[i]]
    BY <1>1 DEF Words, TraceUnder
  <2>2. Len(left) = Len(rest.ops) /\ Len(rest.ops) = n - 2
    BY <1>1, WordIsSeq DEF IsCancelled
  <2> QED
    BY <2>1, <2>2
<1>5. w[first] = w[first + 1] /\ Cancellable(w[first])
  BY PairLetters
<1> HIDE DEF w, left, n
<1>6. left \in Seq(S)
  <2>1. \A i \in 1..(n - 2) : Kept(first, i) \in 1..n
    BY <1>1, KeptIs
  <2>2. left \in [1..(n - 2) -> S]
    BY <1>3, <1>4, <2>1
  <2>3. n - 2 \in Nat
    <3>1. Len(rest.ops) = n - 2 /\ Len(rest.ops) \in Nat
      BY <1>1, CircuitTyped DEF IsCircuit, IsCancelled, n
    <3> QED
      BY <3>1
  <2> HIDE DEF S
  <2> QED
    BY <2>2, <2>3, FunctionIsSeq
<1> HIDE DEF S
<1>7. first \in 1..(Len(w) - 1)
  BY <1>1, <1>2
<1>8. Reduced(left) = Reduced(w)
  BY <1>2, <1>3, <1>4, <1>5, <1>6, <1>7, ReducedWithout
<1> QED
  BY <1>8 DEF left, w

\* Two neighbours that make the same letter are a pair: the results of the first
\* are all there is on its wires, and so what the second one takes.
LEMMA NeighboursCancel ==
    ASSUME NEW circuit, NEW index, Numbered(circuit, index),
           NEW i \in DOMAIN circuit.ops, i + 1 \in DOMAIN circuit.ops,
           Words(circuit, index)[i] = Words(circuit, index)[i + 1],
           Cancellable(Words(circuit, index)[i])
    PROVE  Cancels(circuit, i, i + 1)
<1> DEFINE place == Placement(circuit, index)
           a == circuit.ops[i]
           b == circuit.ops[i + 1]
           m == Arity(a.gate)
           x == TraceUnder(circuit, index)[i]
           y == TraceUnder(circuit, index)[i + 1]
<1>1. /\ IsCircuit(circuit) /\ CircuitVerifies(circuit) /\ Rules(circuit, index, place)
      /\ DOMAIN circuit.ops = 1..Len(circuit.ops) /\ Len(circuit.ops) \in Nat /\ i \in Nat
      /\ i \in 0..Len(circuit.ops)
  <2>1. IsCircuit(circuit) /\ CircuitVerifies(circuit) /\ circuit \in Circuit
    BY DEF Numbered, IsCircuit
  <2>2. Rules(circuit, index, place)
    BY RulesHold
  <2>3. DOMAIN circuit.ops = 1..Len(circuit.ops) /\ Len(circuit.ops) \in Nat
    BY <2>1, CircuitTyped
  <2> QED
    BY <2>1, <2>2, <2>3
<1>2. /\ Words(circuit, index)[i] = [event |-> x, notes |-> a.notes] /\ x.gate = a.gate
      /\ Words(circuit, index)[i + 1] = [event |-> y, notes |-> b.notes] /\ y.gate = b.gate
  BY LetterOf
<1>3. OnWires(circuit, place, i, x) /\ OnWires(circuit, place, i + 1, y)
  BY <1>1, TraceOnWires
<1>4. Linear(circuit, index, place, i)
  BY <1>1, AlwaysLinear
<1> HIDE DEF place, x, y
<1>5. /\ x = y /\ a.gate = b.gate /\ a.notes = {} /\ b.notes = {}
      /\ a.gate \in SelfInverse
  <2> DEFINE e == [event |-> x, notes |-> a.notes]
             f == [event |-> y, notes |-> b.notes]
  <2>1. e = f /\ Cancellable(e)
    BY <1>2
  <2>2. e.event = x /\ e.notes = a.notes /\ f.event = y /\ f.notes = b.notes
    OBVIOUS
  <2> HIDE DEF e, f
  <2> QED
    BY <1>2, <2>1, <2>2 DEF Cancellable
<1>6. a.gate \in Gates /\ a.gate \notin {"measure", "output"} /\ m \in Nat /\ m >= 1
  BY <1>5 DEF SelfInverse, Gates, Arity
<1>7. DOMAIN a.operands = 1..m /\ DOMAIN b.operands = 1..m
  <2>1. Len(a.operands) = m /\ Len(b.operands) = m
    BY <1>1, <1>5, <1>6 DEF IsCircuit
  <2>2. circuit \in Circuit
    BY <1>1 DEF IsCircuit
  <2> QED
    BY <2>1, <2>2, CircuitTyped
<1>8. Values(a) = {a.id} \X (1..m) /\ Qubits(a) = Values(a)
  <2>1. ResultCount(a) = m
    BY <1>6 DEF ResultCount, Gates
  <2> QED
    BY <1>6, <2>1 DEF Values, Qubits
<1>9. ASSUME NEW k \in 1..m
      PROVE  place[a.operands[k]] = place[b.operands[k]]
  <2>1. /\ x.qubits = [l \in 1..m |-> place[a.operands[l]]]
        /\ y.qubits = [l \in 1..m |-> place[b.operands[l]]]
    BY <1>3, <1>5, <1>6, <1>7 DEF OnWires
  <2> DEFINE p == [l \in 1..m |-> place[a.operands[l]]]
             q == [l \in 1..m |-> place[b.operands[l]]]
  <2>2. p = q
    BY <1>5, <2>1
  <2>3. p[k] = place[a.operands[k]] /\ q[k] = place[b.operands[k]]
    OBVIOUS
  <2> HIDE DEF p, q
  <2> QED
    BY <2>2, <2>3
<1>10. ASSUME NEW k \in 1..m
       PROVE  b.operands[k] = <<a.id, k>> /\ HasOneUse(circuit, <<a.id, k>>)
  <2> DEFINE v == <<a.id, k>>
             u == b.operands[k]
  <2>1. v \in Qubits(a) /\ IsQubit(circuit, v, i)
    BY <1>8 DEF IsQubit
  <2>2. HasOneUse(circuit, v)
    BY <1>1, <2>1 DEF CircuitVerifies
  <2>3. Use(circuit, a.operands[k], i, k) /\ Use(circuit, u, i + 1, k)
    BY <1>7 DEF Use
  <2> HIDE DEF v, u
  <2>4. place[v] = place[a.operands[k]]
    <3>1. Rules(circuit, index, place)
      BY <1>1
    <3>2. \A l, h, o : Use(circuit, o, l, h) /\ circuit.ops[l].gate \in Gates =>
              /\ IsQubit(circuit, <<circuit.ops[l].id, h>>, l)
              /\ place[<<circuit.ops[l].id, h>>] = place[o]
      BY ONLY <3>1 DEF Rules
    <3> QED
      BY <1>6, <2>3, <3>2 DEF v
  <2>5. \E l, h : Use(circuit, v, l, h) /\ i < l
    BY <1>1, <2>1 DEF Rules
  <2>6. PICK j : IsQubit(circuit, u, j) /\ j < i + 1
    BY <1>1, <1>5, <1>6, <2>3 DEF Rules
  <2>7. Holds(circuit, place, i, place[v], v)
    <3>1. \E l, h : Use(circuit, v, l, h) /\ l > i
      BY <1>1, <2>5 DEF Use
    <3>2. i <= i
      BY <1>1
    <3> QED
      BY <2>1, <3>1, <3>2 DEF Holds
  <2>8. Holds(circuit, place, i, place[v], u)
    <3>1. place[u] = place[v]
      BY <1>9, <2>4 DEF u
    <3>2. j <= i
      BY <1>1, <2>6 DEF IsQubit
    <3>3. i + 1 > i
      BY <1>1
    <3> QED
      BY <2>3, <2>6, <3>1, <3>2, <3>3 DEF Holds
  <2>9. u = v
    BY <1>4, <2>7, <2>8 DEF Linear
  <2> QED
    BY <2>2, <2>9 DEF u, v
<1>11. b.operands[1] \in Values(a)
  <2>1. 1 \in 1..m
    BY <1>6
  <2> QED
    BY <1>8, <1>10, <2>1
<1> HIDE DEF m
<1>12. Matches(circuit, i, i + 1)
  BY <1>5, <1>11 DEF Matches
<1> QED
  BY <1>5, <1>7, <1>10, <1>12 DEF Cancels

LEMMA WordTight ==
    ASSUME NEW circuit, NEW index, Numbered(circuit, index),
           \A i, j \in DOMAIN circuit.ops : ~Cancels(circuit, i, j)
    PROVE  Tight(Words(circuit, index))
<1> DEFINE w == Words(circuit, index)
<1>1. IsCircuit(circuit)
  BY DEF Numbered
<1>2. Len(w) = Len(circuit.ops) /\ DOMAIN circuit.ops = 1..Len(circuit.ops) /\ Len(circuit.ops) \in Nat
  BY <1>1, WordIsSeq, CircuitTyped DEF IsCircuit
<1> SUFFICES ASSUME NEW i \in 1..(Len(w) - 1), w[i] = w[i + 1], Cancellable(w[i])
             PROVE  FALSE
  BY DEF Tight
<1>3. i \in DOMAIN circuit.ops /\ i + 1 \in DOMAIN circuit.ops
  BY <1>2
<1>4. Cancels(circuit, i, i + 1)
  BY <1>3, NeighboursCancel
<1> QED
  BY <1>3, <1>4

-----------------------------------------------------------------------------
Optimizing == pc = "rewrite" \/ (pc = "verify" /\ pipeline[at] = "logical-opt")

\* A pass starts from the module as it is; while the driver rewrites, the reduced
\* forms are those of what it got.
Reducing ==
    /\ pc = "pass" => before = module
    /\ Optimizing =>
          \A c \in DOMAIN module :
              Reduced(Word(c)) = Reduced(Words(before[c], IdentityPlacement(input[c])))

Reduces == Held /\ Rewriting /\ Reducing /\ OptimizedIsReduced

LEMMA ReducingCancel == ASSUME Held, Reducing, Cancel PROVE Reducing'
<1>1. /\ pc = "rewrite" /\ UNCHANGED <<at, pc, input, before, pipeline>>
  BY CancelIs
<1>2. PICK c, i : CancelledAt(c, i)
  BY CancelIs
<1> DEFINE index(d) == IdentityPlacement(input[d])
<1>3. /\ Pair(module[c], i) /\ IsCancelled(module[c], i, module'[c]) /\ DOMAIN module' = DOMAIN module
      /\ \A d \in DOMAIN module : d # c => module'[d] = module[d]
  BY <1>2 DEF CancelledAt
<1>4. \A d \in DOMAIN module : Reduced(Words(module[d], index(d))) = Reduced(Words(before[d], index(d)))
  BY <1>1 DEF Reducing, Optimizing, Word
<1>5. Reduced(Words(module'[c], index(c))) = Reduced(Words(module[c], index(c)))
  BY <1>3, CancelledReduced
<1>6. \A d \in DOMAIN module' : Reduced(Words(module'[d], index(d))) = Reduced(Words(before[d], index(d)))
  <2> HIDE DEF index
  <2> QED
    BY <1>3, <1>4, <1>5
<1>7. \A d \in DOMAIN module' : Reduced(Word(d)') = Reduced(Words(before'[d], IdentityPlacement(input'[d])))
  BY <1>1, <1>6 DEF Word
<1> QED
  BY <1>1, <1>7 DEF Reducing

LEMMA ReducingNext == ASSUME Held, Reducing, [Next]_vars PROVE Reducing'
<1>1. CASE Verify
  <2>1. pc' # "rewrite" /\ pc' # "verify" /\ before' = module /\ module' = module
    BY <1>1 DEF Verify, command
  <2> QED
    BY <2>1 DEF Reducing, Optimizing
<1>2. CASE Fails
  BY <1>2 DEF Fails, Reducing, Optimizing
<1>3. CASE LogicalOpt
  <2>1. UNCHANGED <<module, before, input>> /\ before = module /\ pc' = "rewrite"
    BY <1>3 DEF LogicalOpt, Running, Reducing, command
  <2> QED
    BY <2>1 DEF Reducing, Word
<1>4. CASE Cancel
  BY <1>4, ReducingCancel
<1>5. CASE RewritesDone
  <2>1. UNCHANGED <<module, before, input>> /\ pc = "rewrite" /\ pc' = "verify"
    BY <1>5 DEF RewritesDone, Becomes, command
  <2> QED
    BY <2>1 DEF Reducing, Optimizing, Word
<1>6. CASE MapIdentity \/ VerifyTarget \/ (QRiskMitigate /\ ~Fails)
  <2>1. pc' = "verify" /\ pipeline[at] # "logical-opt" /\ UNCHANGED <<pipeline, at>>
    BY <1>6 DEF MapIdentity, VerifyTarget, QRiskMitigate, Running, Becomes, command
  <2> QED
    BY <2>1 DEF Reducing, Optimizing
<1>7. CASE UNCHANGED vars
  BY <1>7 DEF vars, Reducing, Optimizing, Word
<1>8. Fails \/ Verify \/ LogicalOpt \/ Cancel \/ RewritesDone \/ MapIdentity \/ VerifyTarget
      \/ (QRiskMitigate /\ ~Fails) \/ UNCHANGED vars
  BY DEF Next, VerifyFails, LogicalOptRefuses, RewritesGivenUp, MapIdentityRefuses,
     VerifyTargetFails, QRiskMitigateRefuses
<1> QED
  BY <1>1, <1>2, <1>3, <1>4, <1>5, <1>6, <1>7, <1>8

LEMMA OptimizedNext == ASSUME Reduces, [Next]_vars PROVE OptimizedIsReduced'
<1>a. Held /\ Rewriting /\ Reducing /\ OptimizedIsReduced
  BY DEF Reduces
<1>1. CASE RewritesDone
  <2>1. /\ UNCHANGED <<module, before, input>> /\ pc = "rewrite"
        /\ \A p \in PairsOfOps : ~Cancels(module[p[1]], p[2], p[3])
    BY <1>1 DEF RewritesDone, Becomes, command
  <2>2. ASSUME NEW c \in DOMAIN module
        PROVE  Word(c) = Reduced(Words(before[c], IdentityPlacement(input[c])))
    <3> DEFINE circuit == module[c]
               index == IdentityPlacement(input[c])
    <3>1. at > 0
      BY <1>a, <2>1 DEF Held, Shaped
    <3>2. IsCircuit(circuit) /\ CircuitVerifies(circuit)
      BY <1>a, <3>1 DEF Held, Shaped, Descends, Verifies
    <3>3. \A a, b \in AllocIds(circuit) : index[a] = index[b] => a = b
      <4>1. IsCircuit(input[c]) /\ AllocIds(circuit) = AllocIds(input[c])
        BY <1>a DEF Held, Shaped, Descends
      <4> QED
        BY <4>1, PlacementNumbers
    <3>4. ASSUME NEW i \in DOMAIN circuit.ops, NEW j \in DOMAIN circuit.ops
          PROVE  ~Cancels(circuit, i, j)
      <4> DEFINE p == <<c, i, j>>
      <4>1. p \in PairsOfOps
        BY DEF PairsOfOps
      <4>2. p[1] = c /\ p[2] = i /\ p[3] = j
        OBVIOUS
      <4> QED
        BY <2>1, <4>1, <4>2
    <3>5. Reduced(Word(c)) = Reduced(Words(before[c], index))
      BY <1>a, <2>1 DEF Reducing, Optimizing
    <3>6. Word(c) = Words(circuit, index)
      BY DEF Word
    <3> HIDE DEF circuit, index
    <3>7. Numbered(circuit, index)
      BY <3>2, <3>3 DEF Numbered
    <3>8. Tight(Words(circuit, index))
      BY <3>4, <3>7, WordTight
    <3>9. Reduced(Words(circuit, index)) = Words(circuit, index)
      BY <3>2, <3>8, WordIsSeq, ReducedItself
    <3> QED
      BY <3>5, <3>6, <3>9 DEF index
  <2> QED
    BY <2>1, <2>2 DEF OptimizedIsReduced, Word
<1>2. CASE UNCHANGED vars
  BY <1>a, <1>2 DEF vars, OptimizedIsReduced, Word
<1>3. CASE MapIdentity \/ VerifyTarget \/ QRiskMitigate
  <2>1. pipeline[at] # "logical-opt" /\ UNCHANGED <<pipeline, at>>
    BY <1>3 DEF MapIdentity, VerifyTarget, QRiskMitigate, Running, Becomes, Fails, command
  <2> QED
    BY <2>1 DEF OptimizedIsReduced
<1>4. CASE Verify \/ VerifyFails \/ LogicalOpt \/ LogicalOptRefuses \/ Cancel \/ RewritesGivenUp
           \/ MapIdentityRefuses \/ VerifyTargetFails \/ QRiskMitigateRefuses
  <2>1. pc' # "verify"
    BY <1>4 DEF Verify, VerifyFails, LogicalOpt, LogicalOptRefuses, Cancel, RewritesGivenUp,
       MapIdentityRefuses, VerifyTargetFails, QRiskMitigateRefuses, Fails
  <2> QED
    BY <2>1 DEF OptimizedIsReduced
<1> QED
  BY <1>1, <1>2, <1>3, <1>4 DEF Next

\* Whatever order the driver cancels in, and whatever pairs that exposes, a
\* logical optimization that succeeds leaves of every circuit the one reduced
\* form of what it got: no pair is left, and no other operation is lost.
THEOREM OptimizedAlwaysReduced == Spec => []OptimizedIsReduced
<1>1. Init => Reduces
  <2>1. Init => Rewriting /\ Reducing /\ OptimizedIsReduced
    BY DEF Init, Rewriting, Reducing, Optimizing, OptimizedIsReduced
  <2> QED
    BY <2>1, HeldInit DEF Reduces
<1>2. Reduces /\ [Next]_vars => Reduces'
  BY HeldNext, RewritingNext, ReducingNext, OptimizedNext DEF Reduces
<1>3. Reduces => OptimizedIsReduced
  BY DEF Reduces
<1> QED
  BY <1>1, <1>2, <1>3, PTL DEF Spec

-----------------------------------------------------------------------------
(***************************************************************************)
(* The gates as matrices: the gates of the whitelist commute.              *)
(***************************************************************************)
Gauss == Int \X Int
Own(e, row) == Entry(e, row, row)
Turned(e, row) == Entry(e, row, Flipped(e, row))
Matrices == [Basis -> [Basis -> Gauss]]

LEMMA GaussClosed ==
    ASSUME NEW u \in Gauss, NEW v \in Gauss
    PROVE  Plus(u, v) \in Gauss /\ Times(u, v) \in Gauss
BY DEF Gauss, Plus, Times

LEMMA BasisIs == Basis = [Register -> {0, 1}]
<1>1. \A ones \in SUBSET Register : Row(ones) \in [Register -> {0, 1}]
  BY DEF Row
<1>2. ASSUME NEW row \in [Register -> {0, 1}]
      PROVE  row = Row({q \in Register : row[q] = 1})
  BY DEF Row
<1> QED
  BY <1>1, <1>2 DEF Basis

LEMMA FlipIs ==
    ASSUME NEW row \in Basis, NEW q \in Register
    PROVE  /\ Flip(row, q) \in Basis
           /\ Flip(row, q)[q] = 1 - row[q]
           /\ Flip(row, q)[q] # row[q]
           /\ \A w \in Register \ {q} : Flip(row, q)[w] = row[w]
<1>1. row[q] \in {0, 1} /\ 1 - row[q] \in {0, 1} /\ 1 - row[q] # row[q]
  BY BasisIs
<1>2. row \in [Register -> {0, 1}]
  BY BasisIs
<1>3. Flip(row, q) = [row EXCEPT ![q] = 1 - row[q]]
  BY DEF Flip
<1> QED
  BY <1>1, <1>2, <1>3, BasisIs

LEMMA FlipsSwap ==
    ASSUME NEW row \in Basis, NEW p \in Register, NEW q \in Register
    PROVE  Flip(Flip(row, p), q) = Flip(Flip(row, q), p)
<1>1. ASSUME NEW w \in Register
      PROVE  Flip(Flip(row, p), q)[w] = Flip(Flip(row, q), p)[w]
  <2>1. Flip(row, p) \in Basis /\ Flip(row, q) \in Basis
    BY FlipIs
  <2>2. CASE w = p /\ w = q
    BY <2>2
  <2>3. CASE w = p /\ w # q
    <3>1. Flip(Flip(row, p), q)[w] = 1 - row[w]
      BY <2>1, <2>3, FlipIs
    <3>2. Flip(Flip(row, q), p)[w] = 1 - row[w]
      BY <2>1, <2>3, FlipIs
    <3> QED
      BY <3>1, <3>2
  <2>4. CASE w # p /\ w = q
    <3>1. Flip(Flip(row, p), q)[w] = 1 - row[w]
      BY <2>1, <2>4, FlipIs
    <3>2. Flip(Flip(row, q), p)[w] = 1 - row[w]
      BY <2>1, <2>4, FlipIs
    <3> QED
      BY <3>1, <3>2
  <2>5. CASE w # p /\ w # q
    <3>1. Flip(Flip(row, p), q)[w] = row[w]
      BY <2>1, <2>5, FlipIs
    <3>2. Flip(Flip(row, q), p)[w] = row[w]
      BY <2>1, <2>5, FlipIs
    <3> QED
      BY <3>1, <3>2
  <2> QED
    BY <2>2, <2>3, <2>4, <2>5
<1>2. Flip(Flip(row, p), q) \in Basis /\ Flip(Flip(row, q), p) \in Basis
  BY FlipIs
<1> QED
  BY <1>1, <1>2, BasisIs

\* Flipping a wire twice changes nothing.
LEMMA FlipTwice ==
    ASSUME NEW row \in Basis, NEW q \in Register
    PROVE  Flip(Flip(row, q), q) = row
<1>1. Flip(row, q) \in Basis /\ Flip(Flip(row, q), q) \in Basis
  BY FlipIs
<1>2. ASSUME NEW w \in Register
      PROVE  Flip(Flip(row, q), q)[w] = row[w]
  <2>1. row[w] \in {0, 1}
    BY BasisIs
  <2> QED
    BY <1>1, <2>1, FlipIs
<1> QED
  BY <1>1, <1>2, BasisIs

-----------------------------------------------------------------------------
\* The gates of one operand and of two.
LEMMA GateForms ==
    ASSUME NEW e \in GateEvents
    PROVE  \/ /\ e.gate \in {"h", "x", "z", "sx", "rz"}
              /\ \E q \in Register : e.qubits = <<q>>
           \/ /\ e.gate \in {"cx", "cz"}
              /\ \E p, q \in Register : p # q /\ e.qubits = <<p, q>>
<1>1. CASE e \in {[gate |-> g, qubits |-> <<q>>, angle |-> {}, movable |-> TRUE] :
        g \in {"h", "x", "z", "sx"}, q \in Register}
  BY <1>1
<1>2. CASE e \in {[gate |-> "rz", qubits |-> <<q>>, angle |-> {a}, movable |-> TRUE] :
        q \in Register, a \in DOMAIN Phases}
  BY <1>2
<1>3. CASE e \in {[gate |-> g, qubits |-> qs, angle |-> {}, movable |-> TRUE] :
        g \in {"cx", "cz"},
        qs \in {p \in Register \X Register : p[1] # p[2]}}
  BY <1>3
<1> QED
  BY <1>1, <1>2, <1>3 DEF GateEvents

LEMMA PhaseType ==
    ASSUME NEW e \in GateEvents, e.gate = "rz"
    PROVE  Phases[CHOOSE a \in e.angle : TRUE] \in Gauss
<1>1. PICK q \in Register, a \in DOMAIN Phases :
         e = [gate |-> "rz", qubits |-> <<q>>, angle |-> {a}, movable |-> TRUE]
  BY DEF GateEvents
<1>2. (CHOOSE x \in e.angle : TRUE) = a
  BY <1>1
<1> QED
  BY <1>2, MatrixAssumption DEF Gauss

LEMMA UnaryCoefficients ==
    ASSUME NEW e \in GateEvents, NEW q \in Register, e.qubits = <<q>>, NEW row \in Basis
    PROVE  /\ Flipped(e, row) = Flip(row, q)
           /\ Own(e, row) = UnaryEntry(e, row[q], row[q])
           /\ Turned(e, row) = UnaryEntry(e, row[q], 1 - row[q])
<1>1. Flipped(e, row) = Flip(row, q)
  BY DEF Flipped
<1>2. Unary(e) /\ e.qubits[1] = q /\ WiresOf(e) = {q}
  BY DEF Unary, WiresOf
<1>3. Own(e, row) = UnaryEntry(e, row[q], row[q])
  BY <1>2 DEF Own, Entry
<1>4. ~\E w \in Register : w \notin WiresOf(e) /\ row[w] # Flip(row, q)[w]
  BY <1>2, FlipIs
<1>5. Turned(e, row) = UnaryEntry(e, row[q], Flip(row, q)[q])
  BY <1>1, <1>2, <1>4 DEF Turned, Entry
<1> QED
  BY <1>1, <1>3, <1>5, FlipIs

LEMMA BinaryCoefficients ==
    ASSUME NEW e \in GateEvents, NEW p \in Register, NEW q \in Register, p # q,
           e.qubits = <<p, q>>, NEW row \in Basis
    PROVE  /\ Flipped(e, row) = Flip(row, q)
           /\ Own(e, row) = BinaryEntry(e, row[p], row[q], row[p], row[q])
           /\ Turned(e, row) = BinaryEntry(e, row[p], row[q], row[p], 1 - row[q])
<1>1. Flipped(e, row) = Flip(row, q)
  BY DEF Flipped
<1>2. ~Unary(e) /\ e.qubits[1] = p /\ e.qubits[2] = q /\ WiresOf(e) = {p, q}
  <2>1. WiresOf(e) = {p, q}
    <3>1. DOMAIN e.qubits = {1, 2}
      BY SMT
    <3> QED
      BY <3>1 DEF WiresOf
  <2> QED
    BY <2>1 DEF Unary
<1>3. Own(e, row) = BinaryEntry(e, row[p], row[q], row[p], row[q])
  BY <1>2 DEF Own, Entry
<1>4. ~\E w \in Register : w \notin WiresOf(e) /\ row[w] # Flip(row, q)[w]
  BY <1>2, FlipIs
<1>5. Turned(e, row) = BinaryEntry(e, row[p], row[q], Flip(row, q)[p], Flip(row, q)[q])
  BY <1>1, <1>2, <1>4 DEF Turned, Entry
<1> QED
  BY <1>1, <1>3, <1>5, FlipIs

LEMMA Coefficients ==
    ASSUME NEW e \in GateEvents, NEW row \in Basis
    PROVE  /\ Own(e, row) \in Gauss
           /\ Turned(e, row) \in Gauss
           /\ Flipped(e, row) \in Basis
<1>1. ASSUME NEW q \in Register, e.qubits = <<q>>, e.gate \in {"h", "x", "z", "sx", "rz"}
      PROVE  /\ Own(e, row) \in Gauss
             /\ Turned(e, row) \in Gauss
             /\ Flipped(e, row) \in Basis
  <2>1. row[q] \in {0, 1} /\ 1 - row[q] \in {0, 1}
    BY BasisIs
  <2>2. ASSUME NEW r \in {0, 1}, NEW c \in {0, 1}
        PROVE  UnaryEntry(e, r, c) \in Gauss
    <3>1. CASE e.gate = "rz"
      BY <3>1, PhaseType DEF UnaryEntry, Zero, Gauss
    <3>2. CASE e.gate # "rz"
      BY <1>1, <3>2 DEF UnaryEntry, Zero, One, Gauss
    <3> QED
      BY <3>1, <3>2
  <2> QED
    BY <1>1, <2>1, <2>2, UnaryCoefficients, FlipIs
<1>2. ASSUME NEW p \in Register, NEW q \in Register, p # q, e.qubits = <<p, q>>, e.gate \in {"cx", "cz"}
      PROVE  /\ Own(e, row) \in Gauss
             /\ Turned(e, row) \in Gauss
             /\ Flipped(e, row) \in Basis
  <2>1. ASSUME NEW r1, NEW r2, NEW c1, NEW c2
        PROVE  BinaryEntry(e, r1, r2, c1, c2) \in Gauss
    BY <1>2 DEF BinaryEntry, Zero, One, Gauss
  <2> QED
    BY <1>2, <2>1, BinaryCoefficients, FlipIs
<1> QED
  BY <1>1, <1>2, GateForms
-----------------------------------------------------------------------------
LEMMA AfterType ==
    ASSUME NEW e \in GateEvents, NEW m \in Matrices
    PROVE  /\ After(e, m) \in Matrices
           /\ \A row, col \in Basis :
                 After(e, m)[row][col] = Plus(Times(Own(e, row), m[row][col]),
                                              Times(Turned(e, row), m[Flipped(e, row)][col]))
<1> DEFINE entry(row, col) == Plus(Times(Own(e, row), m[row][col]),
                                   Times(Turned(e, row), m[Flipped(e, row)][col]))
<1>1. After(e, m) = [row \in Basis |-> [col \in Basis |-> entry(row, col)]]
  BY DEF After, Terms, Own, Turned
<1>2. ASSUME NEW row \in Basis, NEW col \in Basis
      PROVE  entry(row, col) \in Gauss
  <2>1. m[row][col] \in Gauss /\ m[Flipped(e, row)][col] \in Gauss
    BY Coefficients DEF Matrices
  <2> QED
    BY <2>1, Coefficients, GaussClosed
<1> HIDE DEF entry
<1>3. After(e, m) \in Matrices
  BY <1>1, <1>2 DEF Matrices
<1>4. \A row, col \in Basis : After(e, m)[row][col] = entry(row, col)
  BY <1>1
<1> QED
  BY <1>3, <1>4 DEF entry

\* b turns a wire the coefficients of a do not depend on, or turns none.
Free(a, b) ==
    \A row \in Basis :
        \/ Turned(b, row) = Zero
        \/ /\ Own(a, Flipped(b, row)) = Own(a, row)
           /\ Turned(a, Flipped(b, row)) = Turned(a, row)

LEMMA FreeGatesCommute ==
    ASSUME NEW a \in GateEvents, NEW b \in GateEvents, Free(a, b), Free(b, a), NEW m \in Matrices
    PROVE  After(a, After(b, m)) = After(b, After(a, m))
<1>1. After(a, m) \in Matrices /\ After(b, m) \in Matrices
  BY AfterType
<1>2. After(a, After(b, m)) \in Matrices /\ After(b, After(a, m)) \in Matrices
  BY <1>1, AfterType
<1>3. ASSUME NEW row \in Basis, NEW col \in Basis
      PROVE  After(a, After(b, m))[row][col] = After(b, After(a, m))[row][col]
  <2> DEFINE ra == Flipped(a, row)
             rb == Flipped(b, row)
             rab == Flipped(a, rb)
  <2>1. ra \in Basis /\ rb \in Basis
    BY Coefficients
  <2>2. Flipped(b, ra) = rab /\ rab \in Basis
    <3>1. PICK p \in Register : \A r \in Basis : Flipped(a, r) = Flip(r, p)
      BY GateForms, UnaryCoefficients, BinaryCoefficients
    <3>2. PICK q \in Register : \A r \in Basis : Flipped(b, r) = Flip(r, q)
      BY GateForms, UnaryCoefficients, BinaryCoefficients
    <3> QED
      BY <2>1, <3>1, <3>2, FlipsSwap, Coefficients
  <2> DEFINE oa == Own(a, row)
             ob == Own(b, row)
             ta == Turned(a, row)
             tb == Turned(b, row)
             oa1 == Own(a, rb)
             ob1 == Own(b, ra)
             ta1 == Turned(a, rb)
             tb1 == Turned(b, ra)
             m0 == m[row][col]
             ma == m[ra][col]
             mb == m[rb][col]
             mab == m[rab][col]
  <2>3. After(a, After(b, m))[row][col]
          = Plus(Times(oa, Plus(Times(ob, m0), Times(tb, mb))),
                 Times(ta, Plus(Times(ob1, ma), Times(tb1, mab))))
    <3>1. After(b, m)[row][col] = Plus(Times(ob, m0), Times(tb, mb))
      BY AfterType
    <3>2. After(b, m)[ra][col] = Plus(Times(ob1, ma), Times(tb1, mab))
      BY <2>1, <2>2, AfterType
    <3>3. After(a, After(b, m))[row][col]
            = Plus(Times(oa, After(b, m)[row][col]), Times(ta, After(b, m)[ra][col]))
      BY <1>1, AfterType
    <3> QED
      BY <3>1, <3>2, <3>3
  <2>4. After(b, After(a, m))[row][col]
          = Plus(Times(ob, Plus(Times(oa, m0), Times(ta, ma))),
                 Times(tb, Plus(Times(oa1, mb), Times(ta1, mab))))
    <3>1. After(a, m)[row][col] = Plus(Times(oa, m0), Times(ta, ma))
      BY AfterType
    <3>2. After(a, m)[rb][col] = Plus(Times(oa1, mb), Times(ta1, mab))
      BY <2>1, AfterType
    <3>3. After(b, After(a, m))[row][col]
            = Plus(Times(ob, After(a, m)[row][col]), Times(tb, After(a, m)[rb][col]))
      BY <1>1, AfterType
    <3> QED
      BY <3>1, <3>2, <3>3
  <2>5. /\ oa \in Gauss /\ ob \in Gauss /\ ta \in Gauss /\ tb \in Gauss
        /\ oa1 \in Gauss /\ ob1 \in Gauss /\ ta1 \in Gauss /\ tb1 \in Gauss
    BY <2>1, Coefficients
  <2>6. m0 \in Gauss /\ ma \in Gauss /\ mb \in Gauss /\ mab \in Gauss
    BY <2>1, <2>2 DEF Matrices
  <2>7. tb = Zero \/ (oa1 = oa /\ ta1 = ta)
    BY DEF Free
  <2>8. ta = Zero \/ (ob1 = ob /\ tb1 = tb)
    BY DEF Free
  <2> HIDE DEF oa, ob, ta, tb, oa1, ob1, ta1, tb1, m0, ma, mb, mab
  <2>9. Plus(Times(oa, Plus(Times(ob, m0), Times(tb, mb))),
             Times(ta, Plus(Times(ob1, ma), Times(tb1, mab))))
          = Plus(Times(ob, Plus(Times(oa, m0), Times(ta, ma))),
                 Times(tb, Plus(Times(oa1, mb), Times(ta1, mab))))
    <3>1. \A u \in Gauss : u = <<u[1], u[2]>> /\ u[1] \in Int /\ u[2] \in Int
      BY DEF Gauss
    <3>2. CASE ta = Zero /\ tb = Zero
      BY ONLY <2>5, <2>6, <3>1, <3>2 DEF Plus, Times, Zero
    <3>3. CASE ta = Zero /\ oa1 = oa /\ ta1 = ta
      BY ONLY <2>5, <2>6, <3>1, <3>3 DEF Plus, Times, Zero
    <3>4. CASE tb = Zero /\ ob1 = ob /\ tb1 = tb
      BY ONLY <2>5, <2>6, <3>1, <3>4 DEF Plus, Times, Zero
    <3>5. CASE oa1 = oa /\ ta1 = ta /\ ob1 = ob /\ tb1 = tb
      BY ONLY <2>5, <2>6, <3>1, <3>5 DEF Plus, Times, Zero
    <3> QED
      BY <2>7, <2>8, <3>2, <3>3, <3>4, <3>5
  <2> QED
    BY ONLY <2>3, <2>4, <2>9
<1> HIDE DEF Matrices
<1>4. \A x, y \in Matrices : (\A row, col \in Basis : x[row][col] = y[row][col]) => x = y
  BY DEF Matrices
<1> QED
  BY <1>2, <1>3, <1>4

-----------------------------------------------------------------------------
\* Flipping a wire an event does not depend on.
DependsOn(e) == IF XAxis(e) THEN {} ELSE IF e.gate = "cx" THEN {e.qubits[1]} ELSE WiresOf(e)

LEMMA Independent ==
    ASSUME NEW e \in GateEvents, NEW row \in Basis, NEW w \in Register, w \notin DependsOn(e)
    PROVE  /\ Own(e, Flip(row, w)) = Own(e, row)
           /\ Turned(e, Flip(row, w)) = Turned(e, row)
<1>0. Flip(row, w) \in Basis
  BY FlipIs
<1>1. ASSUME NEW q \in Register, e.qubits = <<q>>, e.gate \in {"h", "x", "z", "sx", "rz"}
      PROVE  /\ Own(e, Flip(row, w)) = Own(e, row)
             /\ Turned(e, Flip(row, w)) = Turned(e, row)
  <2>1. CASE XAxis(e)
    <3>1. \A r \in {0, 1} : UnaryEntry(e, r, r) = UnaryEntry(e, 0, 0)
                            /\ UnaryEntry(e, r, 1 - r) = UnaryEntry(e, 0, 1)
      BY <2>1 DEF UnaryEntry, XAxis
    <3>2. row[q] \in {0, 1} /\ Flip(row, w)[q] \in {0, 1}
      BY <1>0, BasisIs
    <3> QED
      BY <1>0, <1>1, <3>1, <3>2, UnaryCoefficients
  <2>2. CASE ~XAxis(e)
    <3>1. w # q
      <4>1. WiresOf(e) = {q}
        BY <1>1 DEF WiresOf
      <4> QED
        BY <1>1, <2>2, <4>1 DEF DependsOn
    <3> QED
      BY <1>0, <1>1, <3>1, UnaryCoefficients, FlipIs
  <2> QED
    BY <2>1, <2>2
<1>2. ASSUME NEW p \in Register, NEW q \in Register, p # q, e.qubits = <<p, q>>, e.gate \in {"cx", "cz"}
      PROVE  /\ Own(e, Flip(row, w)) = Own(e, row)
             /\ Turned(e, Flip(row, w)) = Turned(e, row)
  <2>0. ~XAxis(e) /\ e.qubits[1] = p
    BY <1>2 DEF XAxis
  <2>1. CASE e.gate = "cx"
    <3>1. w # p
      BY <2>0, <2>1 DEF DependsOn
    <3>2. Flip(row, w)[p] = row[p]
      BY <3>1, FlipIs
    <3>3. \A r \in {0, 1}, c \in {0, 1} :
            /\ BinaryEntry(e, r, c, r, c) = IF r = 0 THEN One ELSE Zero
            /\ BinaryEntry(e, r, c, r, 1 - c) = IF r = 1 THEN One ELSE Zero
      <4> SUFFICES ASSUME NEW r \in {0, 1}, NEW c \in {0, 1}
                   PROVE  /\ BinaryEntry(e, r, c, r, c) = IF r = 0 THEN One ELSE Zero
                          /\ BinaryEntry(e, r, c, r, 1 - c) = IF r = 1 THEN One ELSE Zero
        OBVIOUS
      <4>1. CASE r = 0
        BY <2>1, <4>1 DEF BinaryEntry
      <4>2. CASE r = 1
        BY <2>1, <4>2 DEF BinaryEntry
      <4> QED
        BY <4>1, <4>2
    <3>4. row[p] \in {0, 1} /\ row[q] \in {0, 1} /\ Flip(row, w)[q] \in {0, 1}
      BY <1>0, BasisIs
    <3> QED
      BY <1>0, <1>2, <3>2, <3>3, <3>4, BinaryCoefficients
  <2>2. CASE e.gate = "cz"
    <3>1. w # p /\ w # q
      <4>1. WiresOf(e) = {p, q}
        <5>1. DOMAIN e.qubits = {1, 2}
          BY <1>2, SMT
        <5> QED
          BY <1>2, <5>1 DEF WiresOf
      <4> QED
        BY <2>0, <2>2, <4>1 DEF DependsOn
    <3>2. Flip(row, w)[p] = row[p] /\ Flip(row, w)[q] = row[q]
      BY <3>1, FlipIs
    <3> QED
      BY <1>0, <1>2, <3>2, BinaryCoefficients
  <2> QED
    BY <1>2, <2>1, <2>2
<1> QED
  BY <1>1, <1>2, GateForms

LEMMA DiagonalTurnsNothing ==
    ASSUME NEW e \in GateEvents, Diagonal(e), NEW row \in Basis
    PROVE  Turned(e, row) = Zero
<1>1. ASSUME NEW q \in Register, e.qubits = <<q>>, e.gate \in {"h", "x", "z", "sx", "rz"}
      PROVE  Turned(e, row) = Zero
  <2>1. row[q] \in {0, 1} /\ 1 - row[q] # row[q]
    BY BasisIs
  <2>2. UnaryEntry(e, row[q], 1 - row[q]) = Zero
    BY <1>1, <2>1 DEF Diagonal, UnaryEntry
  <2> QED
    BY <1>1, <2>2, UnaryCoefficients
<1>2. ASSUME NEW p \in Register, NEW q \in Register, p # q, e.qubits = <<p, q>>, e.gate \in {"cx", "cz"}
      PROVE  Turned(e, row) = Zero
  <2>1. row[q] \in {0, 1} /\ 1 - row[q] # row[q]
    BY BasisIs
  <2>2. BinaryEntry(e, row[p], row[q], row[p], 1 - row[q]) = Zero
    BY <1>2, <2>1 DEF Diagonal, BinaryEntry
  <2> QED
    BY <1>2, <2>2, BinaryCoefficients
<1> QED
  BY <1>1, <1>2, GateForms

\* The wire an event turns.
Target(e) == e.qubits[Len(e.qubits)]

LEMMA FreeIf ==
    ASSUME NEW a \in GateEvents, NEW b \in GateEvents,
           Diagonal(b) \/ Target(b) \notin DependsOn(a)
    PROVE  Free(a, b)
<1> SUFFICES ASSUME NEW row \in Basis
             PROVE  \/ Turned(b, row) = Zero
                    \/ /\ Own(a, Flipped(b, row)) = Own(a, row)
                       /\ Turned(a, Flipped(b, row)) = Turned(a, row)
  BY DEF Free
<1>1. CASE Diagonal(b)
  BY <1>1, DiagonalTurnsNothing
<1>2. CASE Target(b) \notin DependsOn(a)
  <2>1. Target(b) \in Register
    BY GateForms DEF Target
  <2>2. Flipped(b, row) = Flip(row, Target(b))
    BY DEF Flipped, Target
  <2> QED
    BY <1>2, <2>1, <2>2, Independent
<1> QED
  BY <1>1, <1>2

LEMMA GateWires ==
    ASSUME NEW e \in GateEvents
    PROVE  /\ Target(e) \in WiresOf(e)
           /\ DependsOn(e) \subseteq WiresOf(e)
           /\ Unary(e) => WiresOf(e) = {e.qubits[1]} /\ Target(e) = e.qubits[1] /\ e.qubits = <<e.qubits[1]>>
           /\ Unary(e) <=> e.gate \notin {"cx", "cz"}
           /\ e.gate = "cx" => Target(e) = e.qubits[2] /\ DependsOn(e) = {e.qubits[1]} /\ e.qubits[1] # e.qubits[2]
<1>1. ASSUME NEW q \in Register, e.qubits = <<q>>, e.gate \in {"h", "x", "z", "sx", "rz"}
      PROVE  /\ WiresOf(e) = {q} /\ Target(e) = q /\ e.qubits[1] = q /\ Unary(e)
  BY <1>1 DEF WiresOf, Target, Unary
<1>2. ASSUME NEW p \in Register, NEW q \in Register, p # q, e.qubits = <<p, q>>, e.gate \in {"cx", "cz"}
      PROVE  /\ WiresOf(e) = {p, q} /\ Target(e) = q /\ e.qubits[1] = p /\ e.qubits[2] = q /\ ~Unary(e)
  <2>1. DOMAIN e.qubits = {1, 2}
    BY <1>2, SMT
  <2> QED
    BY <1>2, <2>1 DEF WiresOf, Target, Unary
<1>3. CASE e.gate \in {"h", "x", "z", "sx", "rz"} /\ \E q \in Register : e.qubits = <<q>>
  BY <1>1, <1>3 DEF DependsOn
<1>4. CASE e.gate \in {"cx", "cz"} /\ \E p, q \in Register : p # q /\ e.qubits = <<p, q>>
  BY <1>2, <1>4 DEF DependsOn, XAxis
<1> QED
  BY <1>3, <1>4, GateForms

\* Every pair the rules let pass each other is free in both directions, or the
\* same gate twice.
LEMMA WhitelistedFree ==
    ASSUME NEW a \in GateEvents, NEW b \in GateEvents, Commutes(a, b, FALSE)
    PROVE  a = b \/ (Free(a, b) /\ Free(b, a))
<1>1. CASE Disjoint(a, b)
  BY <1>1, GateWires, FreeIf DEF Disjoint
<1>2. CASE Diagonal(a) /\ Diagonal(b)
  BY <1>2, FreeIf
<1>3. CASE ~Disjoint(a, b) /\ Unary(a) /\ Unary(b) /\ XAxis(a) /\ XAxis(b)
  BY <1>3, FreeIf DEF DependsOn
<1>4. CASE ~Disjoint(a, b) /\ Unary(a) /\ Unary(b) /\ a.gate = b.gate
  <2>1. CASE a.gate = "rz"
    BY <1>4, <2>1, FreeIf DEF Diagonal
  <2>2. CASE a.gate # "rz"
    <3>1. a.qubits = b.qubits
      BY <1>4, GateWires DEF Disjoint
    <3>2. \A e \in GateEvents : Unary(e) /\ e.gate # "rz"
             => e = [gate |-> e.gate, qubits |-> e.qubits, angle |-> {}, movable |-> TRUE]
      BY DEF GateEvents, Unary
    <3> QED
      BY <1>4, <2>2, <3>1, <3>2
  <2> QED
    BY <2>1, <2>2
<1>5. CASE a.gate = "cx" /\ b.gate = "cx" /\ a.qubits[1] # b.qubits[2] /\ b.qubits[1] # a.qubits[2]
  BY <1>5, GateWires, FreeIf
<1>6. ASSUME NEW s \in GateEvents, NEW c \in GateEvents, PassesCX(s, c)
      PROVE  Free(s, c) /\ Free(c, s)
  <2>1. CASE Diagonal(s) /\ s.qubits[1] = c.qubits[1]
    <3>1. DependsOn(s) \subseteq {s.qubits[1]}
      BY <1>6, GateWires DEF PassesCX
    <3> QED
      BY <1>6, <2>1, <3>1, GateWires, FreeIf DEF PassesCX
  <2>2. CASE XAxis(s) /\ s.qubits[1] = c.qubits[2]
    <3>1. DependsOn(s) = {}
      BY <2>2 DEF DependsOn
    <3> QED
      BY <1>6, <2>2, <3>1, GateWires, FreeIf DEF PassesCX
  <2> QED
    BY <1>6, <2>1, <2>2 DEF PassesCX
<1> QED
  BY <1>1, <1>2, <1>3, <1>4, <1>5, <1>6 DEF Commutes

LEMMA WhitelistedCommute ==
    ASSUME NEW a \in GateEvents, NEW b \in GateEvents, NEW d \in BOOLEAN, Commutes(a, b, d), NEW m \in Matrices
    PROVE  After(a, After(b, m)) = After(b, After(a, m))
<1>1. Commutes(a, b, FALSE)
  BY DEF Commutes
<1> QED
  BY <1>1, WhitelistedFree, FreeGatesCommute

LEMMA TargetIs ==
    ASSUME NEW e \in GateEvents
    PROVE  /\ Target(e) \in Register
           /\ \A row \in Basis : Flipped(e, row) = Flip(row, Target(e))
<1>1. Target(e) \in Register
  BY GateForms DEF Target
<1> QED
  BY <1>1 DEF Flipped, Target

LEMMA BasisEqual ==
    ASSUME NEW row \in Basis, NEW col \in Basis, \A w \in Register : row[w] = col[w]
    PROVE  row = col
BY BasisIs

\* A row of a gate's matrix is zero but at the row and at the row flipped.
LEMMA EntryZero ==
    ASSUME NEW e \in GateEvents, NEW row \in Basis, NEW col \in Basis,
           col # row, col # Flipped(e, row)
    PROVE  Entry(e, row, col) = Zero
<1>1. Target(e) \in Register /\ Flipped(e, row) = Flip(row, Target(e)) /\ Flip(row, Target(e)) \in Basis
  BY TargetIs, FlipIs
<1>2. PICK w \in Register : w # Target(e) /\ row[w] # col[w]
  <2> SUFFICES ASSUME \A w \in Register : w # Target(e) => row[w] = col[w]
               PROVE  FALSE
    OBVIOUS
  <2>1. CASE row[Target(e)] = col[Target(e)]
    BY <2>1, BasisEqual
  <2>2. CASE row[Target(e)] # col[Target(e)]
    <3>1. col[Target(e)] = Flip(row, Target(e))[Target(e)]
      <4>1. row[Target(e)] \in {0, 1} /\ col[Target(e)] \in {0, 1}
        BY <1>1, BasisIs
      <4> QED
        BY <1>1, <2>2, <4>1, FlipIs
    <3>2. \A w \in Register : Flip(row, Target(e))[w] = col[w]
      BY <1>1, <3>1, FlipIs
    <3> QED
      BY <1>1, <3>2, BasisEqual
  <2> QED
    BY <2>1, <2>2
<1>3. CASE w \notin WiresOf(e)
  BY <1>2, <1>3 DEF Entry
<1>4. CASE w \in WiresOf(e)
  <2>1. PICK p \in Register, q \in Register : p # q /\ e.qubits = <<p, q>> /\ e.gate \in {"cx", "cz"}
    BY <1>2, <1>4, GateWires, GateForms
  <2>2. Target(e) = q /\ ~Unary(e) /\ e.qubits[1] = p /\ e.qubits[2] = q
    BY <2>1 DEF Target, Unary
  <2>3. w = p
    <3>1. DOMAIN e.qubits = {1, 2}
      BY <2>1, SMT
    <3> QED
      BY <1>2, <1>4, <2>1, <2>2, <3>1 DEF WiresOf
  <2>4. BinaryEntry(e, row[p], row[q], col[p], col[q]) = Zero
    BY <1>2, <2>1, <2>3 DEF BinaryEntry
  <2> QED
    BY <2>2, <2>4 DEF Entry
<1> QED
  BY <1>3, <1>4

LEMMA IdentityType ==
    /\ Identity \in Matrices
    /\ \A row, col \in Basis : Identity[row][col] = IF row = col THEN One ELSE Zero
<1>1. One \in Gauss /\ Zero \in Gauss
  BY DEF One, Zero, Gauss
<1> QED
  BY <1>1 DEF Identity, Matrices

LEMMA MatrixIs ==
    ASSUME NEW e \in GateEvents
    PROVE  Matrix[e] = After(e, Identity)
<1>1. After(e, Identity) \in Matrices
  BY AfterType, IdentityType
<1>2. Matrix[e] = [row \in Basis |-> [col \in Basis |-> Entry(e, row, col)]]
  BY DEF Matrix
<1>3. ASSUME NEW row \in Basis, NEW col \in Basis
      PROVE  After(e, Identity)[row][col] = Entry(e, row, col)
  <2> DEFINE own == Own(e, row)
             turned == Turned(e, row)
             flipped == Flipped(e, row)
  <2>1. own \in Gauss /\ turned \in Gauss /\ flipped \in Basis
    BY Coefficients
  <2>2. flipped # row
    <3>1. Target(e) \in Register /\ flipped = Flip(row, Target(e))
      BY TargetIs
    <3> QED
      BY <3>1, FlipIs
  <2>3. After(e, Identity)[row][col] = Plus(Times(own, IF row = col THEN One ELSE Zero),
                                            Times(turned, IF flipped = col THEN One ELSE Zero))
    <3>1. After(e, Identity)[row][col] = Plus(Times(own, Identity[row][col]),
                                              Times(turned, Identity[flipped][col]))
      BY IdentityType, AfterType
    <3> QED
      BY <2>1, <3>1, IdentityType
  <2>4. \A u, v \in Gauss : /\ Plus(Times(u, One), Times(v, Zero)) = u
                            /\ Plus(Times(u, Zero), Times(v, One)) = v
                            /\ Plus(Times(u, Zero), Times(v, Zero)) = Zero
    BY DEF Plus, Times, One, Zero, Gauss
  <2>5. CASE col = row
    <3>1. After(e, Identity)[row][col] = own
      BY <2>1, <2>2, <2>3, <2>4, <2>5
    <3> QED
      BY <2>5, <3>1 DEF Own
  <2>6. CASE col = flipped
    <3>1. After(e, Identity)[row][col] = turned
      BY <2>1, <2>2, <2>3, <2>4, <2>6
    <3> QED
      BY <2>6, <3>1 DEF Turned
  <2>7. CASE col # row /\ col # flipped
    <3>1. After(e, Identity)[row][col] = Zero
      BY <2>1, <2>3, <2>4, <2>7
    <3> QED
      BY <2>7, <3>1, EntryZero
  <2> QED
    BY <2>5, <2>6, <2>7
<1>4. After(e, Identity) = [row \in Basis |-> [col \in Basis |-> Entry(e, row, col)]]
  <2>1. \A m \in Matrices : m = [row \in Basis |-> [col \in Basis |-> m[row][col]]]
    BY DEF Matrices
  <2>2. After(e, Identity) = [row \in Basis |-> [col \in Basis |-> After(e, Identity)[row][col]]]
    BY <1>1, <2>1
  <2> QED
    BY <1>3, <2>2
<1> QED
  BY <1>2, <1>4

-----------------------------------------------------------------------------
(***************************************************************************)
(* Scaled matrices, and a self-inverse gate twice.                         *)
(***************************************************************************)
LEMMA MatricesEqual ==
    ASSUME NEW m \in Matrices, NEW n \in Matrices, \A row, col \in Basis : m[row][col] = n[row][col]
    PROVE  m = n
BY DEF Matrices

LEMMA ScaledType ==
    ASSUME NEW x \in Int, NEW m \in Matrices
    PROVE  /\ Scaled(x, m) \in Matrices
           /\ \A row, col \in Basis : Scaled(x, m)[row][col] = Times(<<x, 0>>, m[row][col])
<1>1. <<x, 0>> \in Gauss
  BY DEF Gauss
<1>2. \A row, col \in Basis : m[row][col] \in Gauss
  BY DEF Matrices
<1>3. \A row, col \in Basis : Times(<<x, 0>>, m[row][col]) \in Gauss
  BY <1>1, <1>2, GaussClosed
<1>4. Scaled(x, m) \in Matrices
  BY <1>3 DEF Scaled, Matrices
<1> QED
  BY <1>4 DEF Scaled

LEMMA GaussParts ==
    ASSUME NEW u \in Gauss
    PROVE  u = <<u[1], u[2]>> /\ u[1] \in Int /\ u[2] \in Int
BY DEF Gauss

LEMMA ScaledOnce ==
    ASSUME NEW m \in Matrices
    PROVE  Scaled(1, m) = m
<1>0. 1 \in Int
  OBVIOUS
<1>1. Scaled(1, m) \in Matrices
  BY <1>0, ScaledType
<1>2. ASSUME NEW row \in Basis, NEW col \in Basis
      PROVE  Scaled(1, m)[row][col] = m[row][col]
  <2>1. m[row][col] \in Gauss
    BY DEF Matrices
  <2>2. Scaled(1, m)[row][col] = Times(<<1, 0>>, m[row][col])
    BY <1>0, ScaledType
  <2> QED
    BY <2>1, <2>2, GaussParts DEF Times
<1> QED
  BY <1>1, <1>2, MatricesEqual

LEMMA ScaledTwice ==
    ASSUME NEW x \in Int, NEW y \in Int, NEW m \in Matrices
    PROVE  Scaled(x, Scaled(y, m)) = Scaled(x * y, m)
<1>1. x * y \in Int
  OBVIOUS
<1>2. Scaled(x, Scaled(y, m)) \in Matrices /\ Scaled(x * y, m) \in Matrices
  BY <1>1, ScaledType
<1>3. ASSUME NEW row \in Basis, NEW col \in Basis
      PROVE  Scaled(x, Scaled(y, m))[row][col] = Scaled(x * y, m)[row][col]
  <2> DEFINE u == m[row][col]
  <2>1. u \in Gauss
    BY DEF Matrices
  <2>2. Scaled(x, Scaled(y, m))[row][col] = Times(<<x, 0>>, Times(<<y, 0>>, u))
    BY ScaledType
  <2>3. Scaled(x * y, m)[row][col] = Times(<<x * y, 0>>, u)
    BY <1>1, ScaledType
  <2> HIDE DEF u
  <2>4. u[1] \in Int /\ u[2] \in Int
    BY <2>1, GaussParts
  <2>5. Times(<<x, 0>>, Times(<<y, 0>>, u)) = Times(<<x * y, 0>>, u)
    BY <2>4 DEF Times
  <2> QED
    BY <2>2, <2>3, <2>5
<1> QED
  BY <1>2, <1>3, MatricesEqual

\* A gate after a scaled matrix.
LEMMA AfterScaled ==
    ASSUME NEW e \in GateEvents, NEW x \in Int, NEW m \in Matrices
    PROVE  After(e, Scaled(x, m)) = Scaled(x, After(e, m))
<1>1. Scaled(x, m) \in Matrices /\ After(e, m) \in Matrices
  BY ScaledType, AfterType
<1>2. After(e, Scaled(x, m)) \in Matrices /\ Scaled(x, After(e, m)) \in Matrices
  BY <1>1, ScaledType, AfterType
<1>3. ASSUME NEW row \in Basis, NEW col \in Basis
      PROVE  After(e, Scaled(x, m))[row][col] = Scaled(x, After(e, m))[row][col]
  <2> DEFINE r == Flipped(e, row)
             o == Own(e, row)
             t == Turned(e, row)
             u == m[row][col]
             v == m[r][col]
  <2>1. r \in Basis /\ o \in Gauss /\ t \in Gauss
    BY Coefficients
  <2>2. u \in Gauss /\ v \in Gauss
    BY <2>1 DEF Matrices
  <2>3. After(e, Scaled(x, m))[row][col] = Plus(Times(o, Times(<<x, 0>>, u)), Times(t, Times(<<x, 0>>, v)))
    BY <1>1, <2>1, ScaledType, AfterType
  <2>4. Scaled(x, After(e, m))[row][col] = Times(<<x, 0>>, Plus(Times(o, u), Times(t, v)))
    BY <1>1, ScaledType, AfterType
  <2> HIDE DEF r, o, t, u, v
  <2>5. /\ o[1] \in Int /\ o[2] \in Int /\ t[1] \in Int /\ t[2] \in Int
        /\ u[1] \in Int /\ u[2] \in Int /\ v[1] \in Int /\ v[2] \in Int
    BY <2>1, <2>2, GaussParts
  <2>6. Plus(Times(o, Times(<<x, 0>>, u)), Times(t, Times(<<x, 0>>, v)))
          = Times(<<x, 0>>, Plus(Times(o, u), Times(t, v)))
    <3>1. x \in Int
      OBVIOUS
    <3>2. Times(o, Times(<<x, 0>>, u)) = Times(<<x, 0>>, Times(o, u))
      BY ONLY <2>5, <3>1 DEF Times
    <3>3. Times(t, Times(<<x, 0>>, v)) = Times(<<x, 0>>, Times(t, v))
      BY ONLY <2>5, <3>1 DEF Times
    <3>4. \A a, b \in Gauss : Plus(Times(<<x, 0>>, a), Times(<<x, 0>>, b)) = Times(<<x, 0>>, Plus(a, b))
      BY <3>1, GaussParts DEF Times, Plus
    <3>5. Times(o, u) \in Gauss /\ Times(t, v) \in Gauss
      BY <2>1, <2>2, GaussClosed
    <3> QED
      BY ONLY <3>2, <3>3, <3>4, <3>5
  <2> QED
    BY <2>3, <2>4, <2>6
<1> QED
  BY <1>2, <1>3, MatricesEqual

\* The two paths of a self-inverse gate and itself: back to the row, and to the
\* row flipped.
Factor(e) == IF e.gate = "h" THEN 2 ELSE 1

LEMMA SquareCoefficients ==
    ASSUME NEW e \in GateEvents, e.gate \in SelfInverse, NEW row \in Basis
    PROVE  LET r == Flipped(e, row)
           IN  /\ Flipped(e, r) = row
               /\ Plus(Times(Own(e, row), Own(e, row)), Times(Turned(e, row), Turned(e, r))) = <<Factor(e), 0>>
               /\ Plus(Times(Own(e, row), Turned(e, row)), Times(Turned(e, row), Own(e, r))) = Zero
<1> DEFINE r == Flipped(e, row)
<1>1. Flipped(e, r) = row /\ r \in Basis
  <2>1. Target(e) \in Register /\ r = Flip(row, Target(e)) /\ r \in Basis
    BY TargetIs, Coefficients
  <2>2. Flipped(e, r) = Flip(r, Target(e))
    BY <2>1, TargetIs
  <2> QED
    BY <2>1, <2>2, FlipTwice
<1>2. ASSUME NEW q \in Register, e.qubits = <<q>>, e.gate \in {"h", "x", "z"}
      PROVE  /\ Plus(Times(Own(e, row), Own(e, row)), Times(Turned(e, row), Turned(e, r))) = <<Factor(e), 0>>
             /\ Plus(Times(Own(e, row), Turned(e, row)), Times(Turned(e, row), Own(e, r))) = Zero
  <2>1. r = Flip(row, q) /\ r[q] = 1 - row[q] /\ row[q] \in {0, 1}
    BY <1>2, UnaryCoefficients, FlipIs, BasisIs
  <2>2. /\ Own(e, row) = UnaryEntry(e, row[q], row[q]) /\ Turned(e, row) = UnaryEntry(e, row[q], 1 - row[q])
        /\ Own(e, r) = UnaryEntry(e, r[q], r[q]) /\ Turned(e, r) = UnaryEntry(e, r[q], 1 - r[q])
    BY <1>1, <1>2, UnaryCoefficients
  <2> HIDE DEF r
  <2>3. CASE row[q] = 0
    <3>1. r[q] = 1
      BY <2>1, <2>3
    <3>2. CASE e.gate = "h"
      BY <2>2, <2>3, <3>1, <3>2 DEF UnaryEntry, Plus, Times, One, Zero, Factor
    <3>3. CASE e.gate = "x"
      BY <2>2, <2>3, <3>1, <3>3 DEF UnaryEntry, Plus, Times, One, Zero, Factor
    <3>4. CASE e.gate = "z"
      BY <2>2, <2>3, <3>1, <3>4 DEF UnaryEntry, Plus, Times, One, Zero, Factor
    <3> QED
      BY <1>2, <3>2, <3>3, <3>4
  <2>4. CASE row[q] = 1
    <3>1. r[q] = 0
      BY <2>1, <2>4
    <3>2. CASE e.gate = "h"
      BY <2>2, <2>4, <3>1, <3>2 DEF UnaryEntry, Plus, Times, One, Zero, Factor
    <3>3. CASE e.gate = "x"
      BY <2>2, <2>4, <3>1, <3>3 DEF UnaryEntry, Plus, Times, One, Zero, Factor
    <3>4. CASE e.gate = "z"
      BY <2>2, <2>4, <3>1, <3>4 DEF UnaryEntry, Plus, Times, One, Zero, Factor
    <3> QED
      BY <1>2, <3>2, <3>3, <3>4
  <2> QED
    BY <2>1, <2>3, <2>4
<1>3. ASSUME NEW p \in Register, NEW q \in Register, p # q, e.qubits = <<p, q>>, e.gate = "cx"
      PROVE  /\ Plus(Times(Own(e, row), Own(e, row)), Times(Turned(e, row), Turned(e, r))) = <<Factor(e), 0>>
             /\ Plus(Times(Own(e, row), Turned(e, row)), Times(Turned(e, row), Own(e, r))) = Zero
  <2>1. /\ r = Flip(row, q) /\ r[p] = row[p] /\ r[q] = 1 - row[q]
        /\ row[p] \in {0, 1} /\ row[q] \in {0, 1} /\ r[q] \in {0, 1}
    BY <1>1, <1>3, BinaryCoefficients, FlipIs, BasisIs
  <2>2. /\ Own(e, row) = BinaryEntry(e, row[p], row[q], row[p], row[q])
        /\ Turned(e, row) = BinaryEntry(e, row[p], row[q], row[p], 1 - row[q])
        /\ Own(e, r) = BinaryEntry(e, row[p], r[q], row[p], r[q])
        /\ Turned(e, r) = BinaryEntry(e, row[p], r[q], row[p], 1 - r[q])
    BY <1>1, <1>3, <2>1, BinaryCoefficients
  <2> HIDE DEF r
  <2>3. CASE row[p] = 0
    <3>1. \A c \in {0, 1} : /\ BinaryEntry(e, 0, c, 0, c) = One
                            /\ BinaryEntry(e, 0, c, 0, 1 - c) = Zero
      BY <1>3 DEF BinaryEntry
    <3>2. Own(e, row) = One /\ Turned(e, row) = Zero /\ Own(e, r) = One /\ Turned(e, r) = Zero
      BY <2>1, <2>2, <2>3, <3>1
    <3> QED
      BY <1>3, <3>2 DEF Plus, Times, One, Zero, Factor
  <2>4. CASE row[p] = 1
    <3>1. \A c \in {0, 1} : /\ BinaryEntry(e, 1, c, 1, c) = Zero
                            /\ BinaryEntry(e, 1, c, 1, 1 - c) = One
      BY <1>3 DEF BinaryEntry
    <3>2. Own(e, row) = Zero /\ Turned(e, row) = One /\ Own(e, r) = Zero /\ Turned(e, r) = One
      BY <2>1, <2>2, <2>4, <3>1
    <3> QED
      BY <1>3, <3>2 DEF Plus, Times, One, Zero, Factor
  <2> QED
    BY <2>1, <2>3, <2>4
<1>4. \/ e.gate \in {"h", "x", "z"} /\ \E q \in Register : e.qubits = <<q>>
      \/ e.gate = "cx" /\ \E p, q \in Register : p # q /\ e.qubits = <<p, q>>
  BY GateForms DEF SelfInverse
<1> QED
  BY <1>1, <1>2, <1>3, <1>4

LEMMA AfterTwice ==
    ASSUME NEW e \in GateEvents, e.gate \in SelfInverse, NEW m \in Matrices
    PROVE  After(e, After(e, m)) = Scaled(Factor(e), m)
<1>0. Factor(e) \in Int
  BY DEF Factor
<1>1. After(e, m) \in Matrices
  BY AfterType
<1>2. After(e, After(e, m)) \in Matrices /\ Scaled(Factor(e), m) \in Matrices
  BY <1>0, <1>1, ScaledType, AfterType
<1>3. ASSUME NEW row \in Basis, NEW col \in Basis
      PROVE  After(e, After(e, m))[row][col] = Scaled(Factor(e), m)[row][col]
  <2> DEFINE r == Flipped(e, row)
             o == Own(e, row)
             t == Turned(e, row)
             o1 == Own(e, r)
             t1 == Turned(e, r)
             u == m[row][col]
             v == m[r][col]
             c == Factor(e)
  <2>1. r \in Basis /\ o \in Gauss /\ t \in Gauss
    BY Coefficients
  <2>2. o1 \in Gauss /\ t1 \in Gauss
    BY <2>1, Coefficients
  <2>3. u \in Gauss /\ v \in Gauss
    BY <2>1 DEF Matrices
  <2>4. Flipped(e, r) = row /\ Plus(Times(o, o), Times(t, t1)) = <<c, 0>> /\ Plus(Times(o, t), Times(t, o1)) = Zero
    BY SquareCoefficients
  <2>5. After(e, After(e, m))[row][col]
          = Plus(Times(o, Plus(Times(o, u), Times(t, v))), Times(t, Plus(Times(o1, v), Times(t1, u))))
    <3>1. After(e, m)[row][col] = Plus(Times(o, u), Times(t, v))
      BY AfterType
    <3>2. After(e, m)[r][col] = Plus(Times(o1, v), Times(t1, u))
      BY <2>1, <2>4, AfterType
    <3>3. After(e, After(e, m))[row][col]
            = Plus(Times(o, After(e, m)[row][col]), Times(t, After(e, m)[r][col]))
      BY <1>1, AfterType
    <3> QED
      BY <3>1, <3>2, <3>3
  <2>6. Scaled(c, m)[row][col] = Times(<<c, 0>>, u)
    BY <1>0, ScaledType
  <2> HIDE DEF r, o, t, o1, t1, u, v, c
  <2>7. /\ o[1] \in Int /\ o[2] \in Int /\ t[1] \in Int /\ t[2] \in Int
        /\ o1[1] \in Int /\ o1[2] \in Int /\ t1[1] \in Int /\ t1[2] \in Int
        /\ u[1] \in Int /\ u[2] \in Int /\ v[1] \in Int /\ v[2] \in Int
    BY <2>1, <2>2, <2>3, GaussParts
  <2>8. Plus(Times(o, Plus(Times(o, u), Times(t, v))), Times(t, Plus(Times(o1, v), Times(t1, u))))
          = Plus(Times(Plus(Times(o, o), Times(t, t1)), u), Times(Plus(Times(o, t), Times(t, o1)), v))
    BY ONLY <2>7 DEF Plus, Times
  <2>9. Plus(Times(<<c, 0>>, u), Times(Zero, v)) = Times(<<c, 0>>, u)
    <3>1. c \in Int
      BY <1>0 DEF c
    <3> QED
      BY ONLY <2>7, <3>1 DEF Plus, Times, Zero
  <2> QED
    BY <2>4, <2>5, <2>6, <2>8, <2>9 DEF c
<1> QED
  BY <1>2, <1>3, MatricesEqual

-----------------------------------------------------------------------------
(***************************************************************************)
(* What a trace does, event by event.                                      *)
(***************************************************************************)
Done == [matrix : Matrices, halves : Nat]

\* An event is no gate, or one there is a matrix for.
Moving(e) == [e EXCEPT !.movable = TRUE]
Meant(e) == e.gate \in Gates => Moving(e) \in GateEvents /\ Moving(e).gate = e.gate

LEMMA DoneParts ==
    ASSUME NEW a \in Done, NEW b \in Done, a.matrix = b.matrix, a.halves = b.halves
    PROVE  a = b
BY DEF Done

LEMMA DoesGate ==
    ASSUME NEW e, e.gate \in Gates, NEW done
    PROVE  /\ Does(e, done).matrix = After(Moving(e), done.matrix)
           /\ Does(e, done).halves = done.halves + IF e.gate = "h" THEN 1 ELSE 0
BY DEF Does, Moving

LEMMA DoesType ==
    ASSUME NEW e, Meant(e), NEW done \in Done
    PROVE  Does(e, done) \in Done
<1>1. CASE e.gate \notin Gates
  BY <1>1 DEF Does
<1>2. CASE e.gate \in Gates
  <2>1. done.matrix \in Matrices /\ done.halves \in Nat
    BY DEF Done
  <2>2. After(Moving(e), done.matrix) \in Matrices
    BY <1>2, <2>1, AfterType DEF Meant
  <2>3. done.halves + (IF e.gate = "h" THEN 1 ELSE 0) \in Nat
    BY <2>1
  <2> QED
    BY <1>2, <2>2, <2>3 DEF Does, Moving, Done
<1> QED
  BY <1>1, <1>2

LEMMA NoGatesType == NoGates \in Done
BY IdentityType DEF NoGates, Done

\* Two events the rules let pass each other.
LEMMA DoesCommute ==
    ASSUME NEW a, Meant(a), NEW b, Meant(b), Commutes(Moving(a), Moving(b), FALSE), NEW done \in Done
    PROVE  Does(a, Does(b, done)) = Does(b, Does(a, done))
<1>1. CASE a.gate \notin Gates \/ b.gate \notin Gates
  BY <1>1 DEF Does
<1>2. CASE a.gate \in Gates /\ b.gate \in Gates
  <2> DEFINE ab == Does(a, Does(b, done))
             ba == Does(b, Does(a, done))
  <2>1. Does(a, done) \in Done /\ Does(b, done) \in Done /\ ab \in Done /\ ba \in Done
    BY DoesType
  <2>2. done.matrix \in Matrices /\ done.halves \in Nat
    BY DEF Done
  <2>3. ab.matrix = After(Moving(a), After(Moving(b), done.matrix))
    BY <1>2, DoesGate
  <2>4. ba.matrix = After(Moving(b), After(Moving(a), done.matrix))
    BY <1>2, DoesGate
  <2>5. ab.matrix = ba.matrix
    BY <1>2, <2>2, <2>3, <2>4, WhitelistedCommute DEF Meant
  <2>6. ab.halves = ba.halves
    <3> DEFINE ha == IF a.gate = "h" THEN 1 ELSE 0
               hb == IF b.gate = "h" THEN 1 ELSE 0
    <3>1. ab.halves = (done.halves + hb) + ha
      BY <1>2, DoesGate
    <3>2. ba.halves = (done.halves + ha) + hb
      BY <1>2, DoesGate
    <3>3. ha \in Int /\ hb \in Int
      OBVIOUS
    <3> HIDE DEF ha, hb
    <3> QED
      BY <2>2, <3>1, <3>2, <3>3
  <2> HIDE DEF ab, ba
  <2>7. ab = ba
    BY <2>1, <2>5, <2>6, DoneParts
  <2> QED
    BY <2>7 DEF ab, ba
<1> QED
  BY <1>1, <1>2

\* The run of a trace: what it did after each event.
IsRun(t, n, f) ==
    /\ f \in [0..n -> Done]
    /\ f[0] = NoGates
    /\ \A k \in 1..n : f[k] = Does(t[k], f[k - 1])

AllMeant(t, n) == \A k \in 1..n : Meant(t[k])

LEMMA RunUnique ==
    ASSUME NEW t, NEW n \in Nat, NEW f, IsRun(t, n, f), NEW g, IsRun(t, n, g)
    PROVE  f[n] = g[n]
<1> DEFINE S == {k \in Nat : k <= n => f[k] = g[k]}
<1>1. 0 \in S
  BY DEF IsRun
<1>2. ASSUME NEW k \in Nat, k \in S
      PROVE  k + 1 \in S
  <2> SUFFICES ASSUME k + 1 <= n
               PROVE  f[k + 1] = g[k + 1]
    OBVIOUS
  <2>1. k + 1 \in 1..n /\ (k + 1) - 1 = k /\ k <= n
    OBVIOUS
  <2>2. f[k + 1] = Does(t[k + 1], f[k]) /\ g[k + 1] = Does(t[k + 1], g[k])
    BY <2>1 DEF IsRun
  <2> QED
    BY <1>2, <2>1, <2>2
<1> HIDE DEF S
<1>3. n \in S
  BY <1>1, <1>2, Induct
<1> QED
  BY <1>3 DEF S

\* The fold of a trace, as its set of positions grows.
IsDoing(t, S, iter) ==
    iter = [s \in SUBSET S |-> IF s = {} THEN NoGates ELSE Does(t[Max(s)], iter[s \ {Max(s)}])]

LEMMA BehaviourFolds ==
    ASSUME NEW t
    PROVE  Behaviour(t) = (CHOOSE iter : IsDoing(t, DOMAIN t, iter))[DOMAIN t]
BY DEF Behaviour, FoldLeft, MapThenFoldSet, IsDoing

LEMMA DoingExists ==
    ASSUME NEW t, NEW n \in Nat
    PROVE  \E iter : IsDoing(t, 1..n, iter)
<1> DEFINE S == {k \in Nat : \E iter : IsDoing(t, 1..k, iter)}
<1>1. 0 \in S
  <2> DEFINE iter == [s \in SUBSET (1..0) |-> NoGates]
  <2>1. \A s \in SUBSET (1..0) : s = {}
    OBVIOUS
  <2>2. IsDoing(t, 1..0, iter)
    BY <2>1 DEF IsDoing
  <2> QED
    BY <2>2
<1>2. ASSUME NEW k \in Nat, k \in S
      PROVE  k + 1 \in S
  <2>1. PICK shorter : IsDoing(t, 1..k, shorter)
    BY <1>2
  <2> DEFINE iter == [s \in SUBSET (1..(k + 1)) |->
                        IF k + 1 \in s THEN Does(t[k + 1], shorter[s \ {k + 1}]) ELSE shorter[s]]
             step(f, s) == IF s = {} THEN NoGates ELSE Does(t[Max(s)], f[s \ {Max(s)}])
  <2>2. \A s \in SUBSET (1..k) : shorter[s] = step(shorter, s)
    BY <2>1 DEF IsDoing
  <2>3. ASSUME NEW s \in SUBSET (1..(k + 1))
        PROVE  iter[s] = step(iter, s)
    <3>1. CASE k + 1 \in s
      <4>1. Max(s) \in s /\ k + 1 <= Max(s)
        BY <3>1, MaxIs
      <4>2. Max(s) = k + 1
        <5> DEFINE max == Max(s)
        <5>1. max \in 1..(k + 1) /\ k + 1 <= max
          BY <4>1
        <5> HIDE DEF max
        <5>2. max = k + 1
          BY <5>1
        <5> QED
          BY <5>2 DEF max
      <4>3. s \ {k + 1} \in SUBSET (1..(k + 1)) /\ k + 1 \notin s \ {k + 1}
        OBVIOUS
      <4>4. iter[s] = Does(t[k + 1], shorter[s \ {k + 1}]) /\ iter[s \ {k + 1}] = shorter[s \ {k + 1}]
        BY <3>1, <4>3
      <4>5. s # {}
        BY <3>1
      <4> HIDE DEF iter
      <4> QED
        BY <4>2, <4>4, <4>5
    <3>2. CASE k + 1 \notin s
      <4>1. s \in SUBSET (1..k)
        <5>1. \A j \in s : j \in 1..(k + 1) /\ j # k + 1
          BY <3>2
        <5> QED
          BY <5>1
      <4>2. iter[s] = step(shorter, s)
        BY <2>2, <3>2, <4>1
      <4>3. s # {} => iter[s \ {Max(s)}] = shorter[s \ {Max(s)}]
        BY <3>2
      <4> HIDE DEF iter
      <4> QED
        BY <4>2, <4>3
    <3> QED
      BY <3>1, <3>2
  <2>4. iter = [s \in SUBSET (1..(k + 1)) |-> iter[s]]
    OBVIOUS
  <2> HIDE DEF iter
  <2>5. IsDoing(t, 1..(k + 1), iter)
    BY <2>3, <2>4 DEF IsDoing
  <2> QED
    BY <2>5
<1> HIDE DEF S
<1>3. n \in S
  BY <1>1, <1>2, Induct
<1> QED
  BY <1>3 DEF S

LEMMA BehaviourRuns ==
    ASSUME NEW t, NEW n \in Nat, DOMAIN t = 1..n, AllMeant(t, n)
    PROVE  \E f : IsRun(t, n, f) /\ Behaviour(t) = f[n]
<1> DEFINE iter == CHOOSE iter : IsDoing(t, 1..n, iter)
           f == [k \in 0..n |-> iter[1..k]]
           T == {k \in Nat : k <= n => f[k] \in Done}
<1>2. IsDoing(t, 1..n, iter)
  BY DoingExists
<1>3. Behaviour(t) = iter[1..n]
  BY BehaviourFolds
<1> HIDE DEF iter
<1>4. \A s \in SUBSET (1..n) : iter[s] = IF s = {} THEN NoGates ELSE Does(t[Max(s)], iter[s \ {Max(s)}])
  BY <1>2 DEF IsDoing
<1>5. f[0] = NoGates
  <2>1. 1..0 = {} /\ 1..0 \in SUBSET (1..n) /\ 0 \in 0..n
    OBVIOUS
  <2> QED
    BY <1>4, <2>1
<1>6. ASSUME NEW i \in 1..n
      PROVE  f[i] = Does(t[i], f[i - 1])
  <2>0. i \in Nat /\ i >= 1 /\ i <= n
    OBVIOUS
  <2>1. 1..i \in SUBSET (1..n) /\ 1..i # {} /\ i \in Nat /\ i \in 1..i
    BY ONLY <2>0, n \in Nat
  <2>2. Max(1..i) \in 1..i /\ i <= Max(1..i)
    BY <2>1, MaxIs
  <2>3. Max(1..i) = i
    BY <2>1, <2>2
  <2>4. (1..i) \ {i} = 1..(i - 1)
    BY <2>1
  <2>5. iter[1..i] = Does(t[i], iter[1..(i - 1)])
    BY <1>4, <2>1, <2>3, <2>4
  <2>6. i \in 0..n /\ i - 1 \in 0..n
    OBVIOUS
  <2> QED
    BY <2>5, <2>6
<1>a. f = [k \in 0..n |-> f[k]] /\ f[n] = iter[1..n]
  OBVIOUS
<1> HIDE DEF f
<1>7. 0 \in T
  BY <1>5, NoGatesType
<1>8. ASSUME NEW k \in Nat, k \in T
      PROVE  k + 1 \in T
  <2> SUFFICES ASSUME k + 1 <= n
               PROVE  f[k + 1] \in Done
    OBVIOUS
  <2>1. k + 1 \in 1..n /\ (k + 1) - 1 = k /\ k <= n
    OBVIOUS
  <2>2. Meant(t[k + 1])
    BY <2>1 DEF AllMeant
  <2> QED
    BY <1>6, <1>8, <2>1, <2>2, DoesType
<1> HIDE DEF T
<1>9. \A k \in Nat : k \in T
  BY <1>7, <1>8, Induct
<1>10. \A k \in 0..n : f[k] \in Done
  BY <1>9 DEF T
<1>11. f \in [0..n -> Done] /\ f[n] = iter[1..n]
  BY <1>a, <1>10
<1>12. IsRun(t, n, f)
  BY <1>5, <1>6, <1>11 DEF IsRun
<1> QED
  BY <1>3, <1>11, <1>12

\* An event taken to an earlier place, past events it commutes with.
TakenBack(t, u, n, left, right) ==
    /\ left \in 1..n /\ right \in 1..n /\ left < right
    /\ u[left] = t[right]
    /\ \A k \in (left + 1)..right : u[k] = t[k - 1]
    /\ \A k \in 1..n : k < left \/ k > right => u[k] = t[k]
    /\ \A k \in left..(right - 1) : Commutes(Moving(t[right]), Moving(t[k]), FALSE)

LEMMA TakenBackRuns ==
    ASSUME NEW t, NEW u, NEW n \in Nat, NEW left, NEW right, TakenBack(t, u, n, left, right),
           AllMeant(t, n), NEW f, IsRun(t, n, f)
    PROVE  \E g : IsRun(u, n, g) /\ g[n] = f[n]
<1> DEFINE e == t[right]
           g == [k \in 0..n |-> IF k \in left..(right - 1) THEN Does(e, f[k - 1]) ELSE f[k]]
<1>1. left \in 1..n /\ right \in 1..n /\ left < right
  BY DEF TakenBack
<1>2. /\ f \in [0..n -> Done] /\ f[0] = NoGates /\ \A k \in 1..n : f[k] = Does(t[k], f[k - 1])
  BY DEF IsRun
<1>3. Meant(e)
  BY <1>1 DEF AllMeant
<1>4. \A k \in 0..n : g[k] \in Done
  <2> SUFFICES ASSUME NEW k \in 0..n
               PROVE  g[k] \in Done
    OBVIOUS
  <2>1. CASE k \in left..(right - 1)
    <3>1. k - 1 \in 0..n
      BY <1>1, <2>1
    <3> QED
      BY <1>2, <1>3, <2>1, <3>1, DoesType
  <2>2. CASE k \notin left..(right - 1)
    BY <1>2, <2>2
  <2> QED
    BY <2>1, <2>2
<1>5. g[0] = NoGates /\ g[n] = f[n]
  BY <1>1, <1>2
<1>6. ASSUME NEW k \in 1..n
      PROVE  g[k] = Does(u[k], g[k - 1])
  <2>0. k \in 0..n /\ k - 1 \in 0..n
    OBVIOUS
  <2>1. CASE k < left
    <3>1. u[k] = t[k] /\ k \notin left..(right - 1) /\ k - 1 \notin left..(right - 1)
      BY <1>1, <2>1 DEF TakenBack
    <3> QED
      BY <1>2, <2>0, <3>1
  <2>2. CASE k > right
    <3>1. u[k] = t[k] /\ k \notin left..(right - 1) /\ k - 1 \notin left..(right - 1)
      BY <1>1, <2>2 DEF TakenBack
    <3> QED
      BY <1>2, <2>0, <3>1
  <2>3. CASE k = left
    <3>1. u[k] = e /\ k \in left..(right - 1) /\ k - 1 \notin left..(right - 1)
      BY <1>1, <2>3 DEF TakenBack
    <3> QED
      BY <1>2, <2>0, <3>1
  <2>4. CASE left < k /\ k <= right
    <3>1. k \in (left + 1)..right /\ k - 1 \in left..(right - 1) /\ k - 1 \in 1..n /\ (k - 1) - 1 \in 0..n
      BY <1>1, <2>4
    <3>2. u[k] = t[k - 1] /\ Commutes(Moving(e), Moving(t[k - 1]), FALSE) /\ Meant(t[k - 1])
      BY <3>1 DEF TakenBack, AllMeant
    <3>3. g[k - 1] = Does(e, f[(k - 1) - 1]) /\ f[k - 1] = Does(t[k - 1], f[(k - 1) - 1])
      BY <1>2, <2>0, <3>1
    <3>4. f[(k - 1) - 1] \in Done
      BY <1>2, <3>1
    <3>5. g[k] = Does(e, f[k - 1])
      <4>1. CASE k = right
        <5>1. k \notin left..(right - 1)
          BY <1>1, <4>1
        <5> QED
          BY <1>2, <2>0, <4>1, <5>1
      <4>2. CASE k # right
        <5>1. k \in left..(right - 1)
          BY <1>1, <2>4, <4>2
        <5> QED
          BY <2>0, <5>1
      <4> QED
        BY <4>1, <4>2
    <3> HIDE DEF g, e
    <3>6. Does(e, Does(t[k - 1], f[(k - 1) - 1])) = Does(t[k - 1], Does(e, f[(k - 1) - 1]))
      BY <1>3, <3>2, <3>4, DoesCommute
    <3> QED
      BY <3>2, <3>3, <3>5, <3>6
  <2> QED
    BY <1>1, <2>1, <2>2, <2>3, <2>4
<1>7. g \in [0..n -> Done]
  <2>1. g = [k \in 0..n |-> g[k]]
    OBVIOUS
  <2> HIDE DEF g
  <2> QED
    BY <1>4, <2>1
<1> HIDE DEF g
<1>8. IsRun(u, n, g)
  BY <1>5, <1>6, <1>7 DEF IsRun
<1> QED
  BY <1>5, <1>8

\* The same event taken the other way.
LEMMA TakenBackEqual ==
    ASSUME NEW t, NEW u, NEW n \in Nat, NEW left, NEW right, TakenBack(t, u, n, left, right),
           DOMAIN t = 1..n, DOMAIN u = 1..n, AllMeant(t, n), AllMeant(u, n)
    PROVE  Behaviour(t) = Behaviour(u)
<1>1. PICK f : IsRun(t, n, f) /\ Behaviour(t) = f[n]
  BY BehaviourRuns
<1>2. PICK h : IsRun(u, n, h) /\ Behaviour(u) = h[n]
  BY BehaviourRuns
<1>3. PICK g : IsRun(u, n, g) /\ g[n] = f[n]
  BY <1>1, TakenBackRuns
<1> QED
  BY <1>1, <1>2, <1>3, RunUnique

-----------------------------------------------------------------------------
(***************************************************************************)
(* Powers of two, and what a circuit does with some pairs of H less.       *)
(***************************************************************************)
IsPower(f, k) == f = [n \in 0..k |-> IF n = 0 THEN 1 ELSE 2 * f[n - 1]]

LEMMA PowerUnique ==
    ASSUME NEW k \in Nat, NEW l \in Nat, k <= l, NEW f, IsPower(f, k), NEW g, IsPower(g, l)
    PROVE  f[k] = g[k]
<1> DEFINE S == {n \in Nat : n <= k => f[n] = g[n]}
<1>1. /\ \A n \in 0..k : f[n] = IF n = 0 THEN 1 ELSE 2 * f[n - 1]
      /\ \A n \in 0..l : g[n] = IF n = 0 THEN 1 ELSE 2 * g[n - 1]
  BY DEF IsPower
<1>2. 0 \in S
  BY <1>1
<1>3. ASSUME NEW n \in Nat, n \in S
      PROVE  n + 1 \in S
  <2> SUFFICES ASSUME n + 1 <= k
               PROVE  f[n + 1] = g[n + 1]
    OBVIOUS
  <2>1. n + 1 \in 0..k /\ n + 1 \in 0..l /\ n + 1 # 0 /\ (n + 1) - 1 = n /\ n <= k
    OBVIOUS
  <2>2. f[n + 1] = 2 * f[n] /\ g[n + 1] = 2 * g[n]
    BY <1>1, <2>1
  <2> QED
    BY <1>3, <2>1, <2>2
<1> HIDE DEF S
<1>4. k \in S
  BY <1>2, <1>3, Induct
<1> QED
  BY <1>4 DEF S

LEMMA PowerExists ==
    ASSUME NEW k \in Nat
    PROVE  \E f : IsPower(f, k)
<1> DEFINE S == {n \in Nat : \E f : IsPower(f, n)}
<1>1. 0 \in S
  <2> DEFINE f == [n \in 0..0 |-> 1]
  <2>1. \A n \in 0..0 : n = 0 /\ f[n] = 1
    OBVIOUS
  <2>2. f = [n \in 0..0 |-> f[n]]
    OBVIOUS
  <2> HIDE DEF f
  <2>3. IsPower(f, 0)
    BY <2>1, <2>2 DEF IsPower
  <2> QED
    BY <2>3
<1>2. ASSUME NEW n \in Nat, n \in S
      PROVE  n + 1 \in S
  <2>1. PICK f : IsPower(f, n)
    BY <1>2
  <2> DEFINE g == [j \in 0..(n + 1) |-> IF j = n + 1 THEN 2 * f[n] ELSE f[j]]
  <2>2. \A j \in 0..n : f[j] = IF j = 0 THEN 1 ELSE 2 * f[j - 1]
    BY <2>1 DEF IsPower
  <2>3. \A j \in 0..(n + 1) : g[j] = IF j = 0 THEN 1 ELSE 2 * g[j - 1]
    <3> TAKE j \in 0..(n + 1)
    <3>1. CASE j = n + 1
      BY <3>1
    <3>2. CASE j # n + 1
      <4>1. j \in 0..n /\ (j # 0 => j - 1 \in 0..n /\ j - 1 # n + 1)
        BY <3>2
      <4> QED
        BY <2>2, <4>1
    <3> QED
      BY <3>1, <3>2
  <2>4. g = [j \in 0..(n + 1) |-> g[j]]
    OBVIOUS
  <2> HIDE DEF g
  <2>5. IsPower(g, n + 1)
    BY <2>3, <2>4 DEF IsPower
  <2> QED
    BY <2>5
<1> HIDE DEF S
<1>3. k \in S
  BY <1>1, <1>2, Induct
<1> QED
  BY <1>3 DEF S

LEMMA TwoToIs ==
    ASSUME NEW k \in Nat
    PROVE  \E f : IsPower(f, k) /\ TwoTo(k) = f[k]
<1> DEFINE f == CHOOSE f : IsPower(f, k)
<1>1. IsPower(f, k)
  BY PowerExists
<1>2. TwoTo(k) = f[k]
  BY DEF TwoTo, IsPower
<1> QED
  BY <1>1, <1>2

LEMMA TwoToNext ==
    /\ TwoTo(0) = 1
    /\ \A k \in Nat : TwoTo(k + 1) = 2 * TwoTo(k)
<1>1. TwoTo(0) = 1
  <2>1. PICK f : IsPower(f, 0) /\ TwoTo(0) = f[0]
    BY TwoToIs
  <2> QED
    BY <2>1 DEF IsPower
<1>2. ASSUME NEW k \in Nat
      PROVE  TwoTo(k + 1) = 2 * TwoTo(k)
  <2>1. PICK f : IsPower(f, k) /\ TwoTo(k) = f[k]
    BY TwoToIs
  <2>2. PICK g : IsPower(g, k + 1) /\ TwoTo(k + 1) = g[k + 1]
    BY TwoToIs
  <2>3. f[k] = g[k]
    BY <2>1, <2>2, PowerUnique
  <2>4. k + 1 \in 0..(k + 1) /\ k + 1 # 0 /\ (k + 1) - 1 = k
    OBVIOUS
  <2>5. g[k + 1] = 2 * g[k]
    BY <2>2, <2>4 DEF IsPower
  <2> QED
    BY <2>1, <2>2, <2>3, <2>5
<1> QED
  BY <1>1, <1>2

LEMMA TwoToType == \A k \in Nat : TwoTo(k) \in Nat
<1> DEFINE S == {k \in Nat : TwoTo(k) \in Nat}
<1>1. 0 \in S
  BY TwoToNext
<1>2. ASSUME NEW k \in Nat, k \in S
      PROVE  k + 1 \in S
  BY <1>2, TwoToNext
<1> HIDE DEF S
<1>3. \A k \in Nat : k \in S
  BY <1>1, <1>2, Induct
<1> QED
  BY <1>3 DEF S

Doubled(a, b, k) == a.halves = b.halves + 2 * k /\ a.matrix = Scaled(TwoTo(k), b.matrix)

LEMMA DoubledNone ==
    ASSUME NEW a \in Done
    PROVE  Doubled(a, a, 0)
<1>1. a.matrix \in Matrices /\ a.halves \in Nat
  BY DEF Done
<1> QED
  BY <1>1, ScaledOnce, TwoToNext DEF Doubled

LEMMA DoubledMore ==
    ASSUME NEW a \in Done, NEW b \in Done, NEW c \in Done, NEW k \in Nat, NEW j \in {0, 1},
           Doubled(a, b, k), Doubled(b, c, j)
    PROVE  Doubled(a, c, k + j)
<1>1. a.matrix \in Matrices /\ b.matrix \in Matrices /\ c.matrix \in Matrices
  BY DEF Done
<1>2. a.halves \in Nat /\ b.halves \in Nat /\ c.halves \in Nat
  BY DEF Done
<1>3. a.halves = b.halves + 2 * k /\ b.halves = c.halves + 2 * j
  BY DEF Doubled
<1>4. a.halves = c.halves + 2 * (k + j)
  BY <1>2, <1>3
<1>5. TwoTo(k) \in Int /\ TwoTo(j) \in Int
  BY TwoToType
<1>6. TwoTo(k) * TwoTo(j) = TwoTo(k + j)
  <2>1. CASE j = 0
    BY <1>5, <2>1, TwoToNext
  <2>2. CASE j = 1
    <3>1. TwoTo(1) = 2
      <4>1. TwoTo(0 + 1) = 2 * TwoTo(0)
        BY TwoToNext
      <4> QED
        BY <4>1, TwoToNext
    <3> QED
      BY <1>5, <2>2, <3>1, TwoToNext
  <2> QED
    BY <2>1, <2>2
<1>7. Scaled(TwoTo(k), Scaled(TwoTo(j), c.matrix)) = Scaled(TwoTo(k) * TwoTo(j), c.matrix)
  BY <1>1, <1>5, ScaledTwice
<1> QED
  BY <1>4, <1>6, <1>7 DEF Doubled

\* One event after both.
LEMMA DoesDoubled ==
    ASSUME NEW a \in Done, NEW b \in Done, NEW k \in Nat, Doubled(a, b, k), NEW e, Meant(e)
    PROVE  Doubled(Does(e, a), Does(e, b), k)
<1>1. CASE e.gate \notin Gates
  BY <1>1 DEF Does
<1>2. CASE e.gate \in Gates
  <2>1. a.matrix \in Matrices /\ b.matrix \in Matrices /\ a.halves \in Nat /\ b.halves \in Nat
    BY DEF Done
  <2>2. a.halves = b.halves + 2 * k /\ a.matrix = Scaled(TwoTo(k), b.matrix)
    BY DEF Doubled
  <2>3. TwoTo(k) \in Int
    BY TwoToType
  <2>4. After(Moving(e), a.matrix) = Scaled(TwoTo(k), After(Moving(e), b.matrix))
    BY <1>2, <2>1, <2>2, <2>3, AfterScaled DEF Meant
  <2>5. Does(e, a).matrix = Scaled(TwoTo(k), Does(e, b).matrix)
    BY <1>2, <2>4, DoesGate
  <2>6. Does(e, a).halves = Does(e, b).halves + 2 * k
    <3> DEFINE h == IF e.gate = "h" THEN 1 ELSE 0
    <3>1. Does(e, a).halves = a.halves + h /\ Does(e, b).halves = b.halves + h
      BY <1>2, DoesGate
    <3>2. h \in Int
      OBVIOUS
    <3> HIDE DEF h
    <3> QED
      BY <2>1, <2>2, <3>1, <3>2
  <2> QED
    BY <2>5, <2>6 DEF Doubled
<1> QED
  BY <1>1, <1>2

\* A gate that is its own inverse, twice: a pair of H doubles, any other does nothing.
Pairs(e) == IF e.gate = "h" THEN 1 ELSE 0

LEMMA DoesTwice ==
    ASSUME NEW e, Meant(e), e.gate \in SelfInverse, NEW done \in Done
    PROVE  Doubled(Does(e, Does(e, done)), done, Pairs(e))
<1>1. e.gate \in Gates /\ Moving(e) \in GateEvents /\ Moving(e).gate = e.gate
  BY DEF Meant, SelfInverse, Gates
<1>2. done.matrix \in Matrices /\ done.halves \in Nat
  BY DEF Done
<1>3. Does(e, Does(e, done)).matrix = After(Moving(e), After(Moving(e), done.matrix))
  BY <1>1, DoesGate
<1>4. Does(e, Does(e, done)).matrix = Scaled(Factor(Moving(e)), done.matrix)
  BY <1>1, <1>2, <1>3, AfterTwice
<1>5. Factor(Moving(e)) = TwoTo(Pairs(e))
  <2>1. TwoTo(0) = 1 /\ TwoTo(0 + 1) = 2 * TwoTo(0)
    BY TwoToNext
  <2>2. TwoTo(1) = 2
    BY <2>1
  <2> QED
    BY <1>1, <2>1, <2>2 DEF Factor, Pairs
<1>6. Does(e, Does(e, done)).halves = done.halves + 2 * Pairs(e)
  <2> DEFINE h == IF e.gate = "h" THEN 1 ELSE 0
  <2>1. Does(e, Does(e, done)).halves = (done.halves + h) + h
    BY <1>1, DoesGate
  <2>2. h \in Int /\ h = Pairs(e)
    BY DEF Pairs
  <2> HIDE DEF h
  <2> QED
    BY <1>2, <2>1, <2>2
<1> QED
  BY <1>4, <1>5, <1>6 DEF Doubled

\* A pair of neighbours gone from a trace.
LEMMA PairGone ==
    ASSUME NEW t, NEW u, NEW n \in Nat, NEW first \in 1..(n - 1),
           DOMAIN t = 1..n, DOMAIN u = 1..(n - 2),
           \A i \in 1..(n - 2) : u[i] = t[Kept(first, i)],
           t[first] = t[first + 1], t[first].gate \in SelfInverse, AllMeant(t, n)
    PROVE  /\ Behaviour(t) \in Done /\ Behaviour(u) \in Done
           /\ \E j \in {0, 1} : Doubled(Behaviour(t), Behaviour(u), j)
<1> DEFINE m == n - 2
           e == t[first]
           j == Pairs(e)
<1>1. m \in Nat /\ first \in Nat /\ first >= 1 /\ first <= m + 1 /\ n = m + 2
  OBVIOUS
<1>2. AllMeant(u, m)
  <2> SUFFICES ASSUME NEW i \in 1..(n - 2)
               PROVE  Meant(u[i])
    BY DEF AllMeant
  <2>1. Kept(first, i) \in 1..n
    BY DEF Kept
  <2> QED
    BY <2>1 DEF AllMeant
<1>3. PICK f : IsRun(t, n, f) /\ Behaviour(t) = f[n]
  BY BehaviourRuns
<1>4. PICK g : IsRun(u, m, g) /\ Behaviour(u) = g[m]
  BY <1>1, <1>2, BehaviourRuns
<1>5. /\ \A k \in 0..n : f[k] \in Done /\ f[0] = NoGates /\ \A l \in 1..n : f[l] = Does(t[l], f[l - 1])
      /\ \A k \in 0..m : g[k] \in Done /\ g[0] = NoGates /\ \A l \in 1..m : g[l] = Does(u[l], g[l - 1])
  BY <1>3, <1>4 DEF IsRun
<1>6. Meant(e) /\ j \in {0, 1} /\ e.gate \in SelfInverse
  BY DEF AllMeant, Pairs
<1>t. t[first + 1] = e
  OBVIOUS
<1>u. \A i \in 1..m : u[i] = t[Kept(first, i)]
  OBVIOUS
<1>k. \A i \in 1..n : Meant(t[i])
  BY DEF AllMeant
<1> HIDE DEF m, e, j
<1> DEFINE A == {k \in Nat : k < first => f[k] = g[k]}
           B == {k \in Nat : k <= m /\ k >= first - 1 => Doubled(f[k + 2], g[k], j)}
<1>7. 0 \in A
  BY <1>1, <1>5
<1>8. ASSUME NEW k \in Nat, k \in A
      PROVE  k + 1 \in A
  <2> SUFFICES ASSUME k + 1 < first
               PROVE  f[k + 1] = g[k + 1]
    OBVIOUS
  <2>1. k + 1 \in 1..m /\ k + 1 \in 1..n /\ (k + 1) - 1 = k /\ k < first
    BY <1>1
  <2>2. u[k + 1] = t[k + 1]
    BY <1>u, <2>1 DEF Kept
  <2>3. f[k + 1] = Does(t[k + 1], f[k]) /\ g[k + 1] = Does(u[k + 1], g[k])
    BY <1>5, <2>1
  <2> QED
    BY <1>8, <2>1, <2>2, <2>3
<1> HIDE DEF A
<1>9. \A k \in Nat : k \in A
  BY <1>7, <1>8, Induct
<1>10. \A k \in Nat : k < first => f[k] = g[k]
  BY <1>9 DEF A
<1>11. Doubled(f[(first - 1) + 2], g[first - 1], j)
  <2>1. first \in 1..n /\ first + 1 \in 1..n /\ first - 1 \in 0..n /\ first - 1 \in 0..m
        /\ (first + 1) - 1 = first /\ (first - 1) + 2 = first + 1 /\ first - 1 \in Nat /\ first - 1 < first
    BY <1>1
  <2>2. f[first + 1] = Does(t[first + 1], f[first]) /\ f[first] = Does(t[first], f[first - 1])
    BY <1>5, <2>1
  <2>3. f[first + 1] = Does(e, Does(e, f[first - 1])) /\ f[first - 1] \in Done
    BY <1>5, <1>t, <2>1, <2>2 DEF e
  <2>4. f[first - 1] = g[first - 1]
    BY <1>10, <2>1
  <2>5. Doubled(f[first + 1], f[first - 1], j)
    BY <1>6, <2>3, DoesTwice DEF j
  <2> QED
    BY <2>1, <2>4, <2>5
<1>12. 0 \in B
  <2> SUFFICES ASSUME 0 >= first - 1
               PROVE  Doubled(f[0 + 2], g[0], j)
    OBVIOUS
  <2>1. first - 1 = 0
    BY <1>1
  <2> QED
    BY <1>11, <2>1
<1>13. ASSUME NEW k \in Nat, k \in B
       PROVE  k + 1 \in B
  <2> SUFFICES ASSUME k + 1 <= m, k + 1 >= first - 1
               PROVE  Doubled(f[(k + 1) + 2], g[k + 1], j)
    OBVIOUS
  <2>1. CASE k + 1 = first - 1
    BY <1>11, <2>1
  <2>2. CASE k + 1 # first - 1
    <3>0. k + 1 <= m /\ k + 1 >= first - 1
      OBVIOUS
    <3>1. /\ k <= m /\ k >= first - 1 /\ k + 1 >= first
          /\ k + 1 \in 1..m /\ (k + 1) + 2 \in 1..n /\ (k + 1) - 1 = k /\ ((k + 1) + 2) - 1 = k + 2
          /\ k \in 0..m /\ k + 2 \in 0..n
      BY ONLY <1>1, <2>2, <3>0, k \in Nat
    <3>2. u[k + 1] = t[(k + 1) + 2]
      <4>1. ~(k + 1 < first)
        BY <1>1, <3>1
      <4> QED
        BY <1>u, <3>1, <4>1 DEF Kept
    <3>3. f[(k + 1) + 2] = Does(t[(k + 1) + 2], f[k + 2]) /\ g[k + 1] = Does(t[(k + 1) + 2], g[k])
      <4>1. f[(k + 1) + 2] = Does(t[(k + 1) + 2], f[((k + 1) + 2) - 1])
        BY <1>5, <3>1
      <4>2. g[k + 1] = Does(u[k + 1], g[(k + 1) - 1])
        BY <1>5, <3>1
      <4> QED
        BY <3>1, <3>2, <4>1, <4>2
    <3>4. Doubled(f[k + 2], g[k], j) /\ f[k + 2] \in Done /\ g[k] \in Done
      BY <1>5, <1>13, <3>1
    <3>5. Meant(t[(k + 1) + 2]) /\ j \in Nat
      BY <1>6, <1>k, <3>1
    <3> QED
      BY <3>3, <3>4, <3>5, DoesDoubled
  <2> QED
    BY <2>1, <2>2
<1> HIDE DEF B
<1>14. m \in B
  BY <1>1, <1>12, <1>13, Induct
<1>15. Doubled(f[n], g[m], j)
  <2>1. m <= m /\ m >= first - 1 /\ m + 2 = n
    BY <1>1
  <2> QED
    BY <1>14, <2>1 DEF B
<1>16. f[n] \in Done /\ g[m] \in Done
  <2>1. n \in 0..n /\ m \in 0..m
    BY <1>1
  <2> QED
    BY <1>5, <2>1
<1> QED
  BY <1>3, <1>4, <1>6, <1>15, <1>16

-----------------------------------------------------------------------------
(***************************************************************************)
(* The wires under two numberings of the allocations: a value is on the    *)
(* wire of one allocation, whatever its number.                            *)
(***************************************************************************)
NamedBy(circuit, p, q, x, y) == \E id \in AllocIds(circuit) : x = p[id] /\ y = q[id]

LEMMA ValueNamed ==
    ASSUME NEW circuit, IsCircuit(circuit), OperandsDefined(circuit), NEW p, NEW q,
           NEW i \in DOMAIN circuit.ops, NEW v \in Qubits(circuit.ops[i])
    PROVE  NamedBy(circuit, p, q, Placement(circuit, p)[v], Placement(circuit, q)[v])
<1> DEFINE n == Len(circuit.ops)
           here == Placement(circuit, p)
           there == Placement(circuit, q)
           S == {m \in Nat : \A j \in 1..n : j <= m =>
                               \A u \in Qubits(circuit.ops[j]) : NamedBy(circuit, p, q, here[u], there[u])}
<1>1. DOMAIN circuit.ops = 1..n /\ n \in Nat
  BY CircuitTyped DEF IsCircuit
<1>2. ASSUME NEW j \in 1..n, NEW u \in Qubits(circuit.ops[j]),
             \A l \in 1..(j - 1) : \A w \in Qubits(circuit.ops[l]) : NamedBy(circuit, p, q, here[w], there[w])
      PROVE  NamedBy(circuit, p, q, here[u], there[u])
  <2>1. FollowsWire(circuit, p, here, j, u) /\ FollowsWire(circuit, q, there, j, u)
    BY <1>1, PlacementIs
  <2>2. CASE circuit.ops[j].gate = "alloc"
    <3>1. circuit.ops[j].id \in AllocIds(circuit)
      BY <1>1, <2>2 DEF AllocIds, ToSet
    <3> HIDE DEF here, there
    <3>2. here[u] = p[circuit.ops[j].id] /\ there[u] = q[circuit.ops[j].id]
      BY <2>1, <2>2 DEF FollowsWire
    <3> QED
      BY <3>1, <3>2 DEF NamedBy
  <2>3. CASE circuit.ops[j].gate # "alloc"
    <3> DEFINE w == circuit.ops[j].operands[u[2]]
    <3>1. circuit.ops[j].gate \in Gates /\ u[2] \in DOMAIN circuit.ops[j].operands
      BY <1>1, <2>3, QubitsAre
    <3>2. PICK l \in 1..(j - 1) : w \in Qubits(circuit.ops[l])
      BY <1>1, <3>1 DEF OperandsDefined, Gates
    <3>3. NamedBy(circuit, p, q, here[w], there[w])
      BY <1>2, <3>2
    <3> HIDE DEF here, there
    <3>4. here[u] = here[w] /\ there[u] = there[w]
      BY <2>1, <2>3 DEF FollowsWire
    <3> QED
      BY <3>3, <3>4
  <2> QED
    BY <2>2, <2>3
<1> HIDE DEF n, here, there
<1>3. 0 \in S
  OBVIOUS
<1>4. ASSUME NEW m \in Nat, m \in S
      PROVE  m + 1 \in S
  <2>1. \A j \in 1..n : j <= m => \A u \in Qubits(circuit.ops[j]) : NamedBy(circuit, p, q, here[u], there[u])
    BY <1>4
  <2>2. ASSUME NEW j \in 1..n, j <= m + 1, NEW u \in Qubits(circuit.ops[j])
        PROVE  NamedBy(circuit, p, q, here[u], there[u])
    <3>1. \A l \in 1..(j - 1) : l \in 1..n /\ l <= m
      BY <1>1, <2>2
    <3>2. \A l \in 1..(j - 1) : \A w \in Qubits(circuit.ops[l]) : NamedBy(circuit, p, q, here[w], there[w])
      BY <2>1, <3>1
    <3> QED
      BY <1>2, <3>2
  <2> QED
    BY <2>2
<1> HIDE DEF S
<1>5. \A m \in Nat : m \in S
  BY <1>3, <1>4, Induct
<1>6. i \in Nat /\ i <= i /\ i \in 1..n
  BY <1>1
<1>7. i \in S
  BY <1>5, <1>6
<1> QED
  BY <1>6, <1>7 DEF S, here, there

\* So are the wires of an event; barriers name the wires of their own.
LEMMA WireNamed ==
    ASSUME NEW circuit, IsCircuit(circuit), OperandsDefined(circuit), NEW p, NEW q,
           NEW i \in DOMAIN circuit.ops, circuit.ops[i].gate \in Gates \cup Ending \cup {"alloc"}
    PROVE  /\ DOMAIN TraceUnder(circuit, p)[i].qubits = DOMAIN TraceUnder(circuit, q)[i].qubits
           /\ \A k \in DOMAIN TraceUnder(circuit, p)[i].qubits :
                 NamedBy(circuit, p, q, TraceUnder(circuit, p)[i].qubits[k], TraceUnder(circuit, q)[i].qubits[k])
<1> DEFINE here == Placement(circuit, p)
           there == Placement(circuit, q)
           op == circuit.ops[i]
           x == TraceUnder(circuit, p)[i].qubits
           y == TraceUnder(circuit, q)[i].qubits
<1>1. DOMAIN circuit.ops = 1..Len(circuit.ops) /\ Len(circuit.ops) \in Nat
  BY CircuitTyped DEF IsCircuit
<1>2. OnWires(circuit, here, i, TraceUnder(circuit, p)[i]) /\ OnWires(circuit, there, i, TraceUnder(circuit, q)[i])
  BY TraceOnWires
<1>3. CASE op.gate = "alloc"
  <2> DEFINE v == <<op.id, 1>>
  <2>1. v \in Qubits(op)
    BY <1>3 DEF Qubits, Values, ResultCount, Gates
  <2>2. NamedBy(circuit, p, q, here[v], there[v])
    BY <2>1, ValueNamed
  <2> HIDE DEF here, there, v
  <2>3. x = <<here[v]>> /\ y = <<there[v]>>
    BY <1>2, <1>3 DEF OnWires, v
  <2>4. DOMAIN x = {1} /\ DOMAIN y = {1} /\ x[1] = here[v] /\ y[1] = there[v]
    BY <2>3
  <2> HIDE DEF x, y
  <2>5. /\ DOMAIN x = DOMAIN y
        /\ \A k \in DOMAIN x : NamedBy(circuit, p, q, x[k], y[k])
    BY <2>2, <2>4
  <2> QED
    BY <2>5 DEF x, y
<1>4. CASE op.gate # "alloc"
  <2>1. op.gate \in Gates \cup {"measure", "discard"}
    BY <1>4 DEF Ending
  <2>2. ASSUME NEW k \in DOMAIN op.operands
        PROVE  NamedBy(circuit, p, q, here[op.operands[k]], there[op.operands[k]])
    <3>1. op.gate # "output"
      BY <2>1 DEF Gates
    <3>2. PICK j \in 1..(i - 1) : op.operands[k] \in Qubits(circuit.ops[j])
      BY <3>1 DEF OperandsDefined
    <3>3. j \in DOMAIN circuit.ops
      BY <1>1, <3>2
    <3> QED
      BY <3>2, <3>3, ValueNamed
  <2> HIDE DEF here, there
  <2>3. /\ x = [k \in DOMAIN op.operands |-> here[op.operands[k]]]
        /\ y = [k \in DOMAIN op.operands |-> there[op.operands[k]]]
    BY <1>2, <2>1 DEF OnWires
  <2> HIDE DEF x, y, op
  <2>4. /\ DOMAIN x = DOMAIN y
        /\ \A k \in DOMAIN x : NamedBy(circuit, p, q, x[k], y[k])
    BY <2>2, <2>3
  <2> QED
    BY <2>4 DEF x, y
<1> QED
  BY <1>3, <1>4

\* The parts of an event that the number of a wire does not change.
LEMMA EventIs ==
    ASSUME NEW circuit, NEW p, NEW i \in DOMAIN circuit.ops
    PROVE  LET event == TraceUnder(circuit, p)[i]
               op == circuit.ops[i]
           IN  /\ event = [gate |-> op.gate, qubits |-> event.qubits, angle |-> op.angle,
                           movable |-> event.movable]
               /\ event.gate = op.gate /\ event.angle = op.angle
               /\ event.movable \in BOOLEAN
               /\ event.movable <=> op.gate \in Gates /\ op.notes \subseteq {"source"}
<1> DEFINE event == TraceUnder(circuit, p)[i]
           op == circuit.ops[i]
           place == Placement(circuit, p)
           moves == op.gate \in Gates /\ op.notes \subseteq {"source"}
<1>1. event = EventUnder(op, place)
  BY DEF TraceUnder
<1> HIDE DEF event, place, op
<1>2. event = [gate |-> op.gate, qubits |-> WiresUnder(op, place), angle |-> op.angle, movable |-> moves]
  BY <1>1, Zenon DEF EventUnder
<1>3. moves \in BOOLEAN
  OBVIOUS
<1> HIDE DEF moves
<1>4. /\ event.gate = op.gate /\ event.qubits = WiresUnder(op, place) /\ event.angle = op.angle
      /\ event.movable = moves
  BY <1>2, <1>3, EventParts
<1>5. event = [gate |-> op.gate, qubits |-> event.qubits, angle |-> op.angle, movable |-> event.movable]
  BY <1>2, <1>4, Zenon
<1>6. event.movable \in BOOLEAN
  BY <1>3, <1>4, Zenon
<1>7. event.movable <=> op.gate \in Gates /\ op.notes \subseteq {"source"}
  BY <1>4, Zenon DEF moves
<1> QED
  BY <1>4, <1>5, <1>6, <1>7, Zenon DEF event, op

\* The rules look at gates and at which wires are the same.
Alike(a, b, x, y) ==
    /\ x.gate = a.gate /\ y.gate = b.gate
    /\ a.movable /\ b.movable
    /\ DOMAIN x.qubits = DOMAIN a.qubits /\ DOMAIN y.qubits = DOMAIN b.qubits
    /\ Len(x.qubits) = Len(a.qubits) /\ Len(y.qubits) = Len(b.qubits)
    /\ \A k \in DOMAIN a.qubits : \A l \in DOMAIN b.qubits :
          (x.qubits[k] = y.qubits[l]) <=> (a.qubits[k] = b.qubits[l])

LEMMA AlikeCommute ==
    ASSUME NEW a, NEW b, NEW x, NEW y, Alike(a, b, x, y), x.movable, y.movable,
           a.gate \in Gates, b.gate \in Gates,
           DOMAIN a.qubits = 1..Arity(a.gate), DOMAIN b.qubits = 1..Arity(b.gate),
           Len(a.qubits) = Arity(a.gate), Len(b.qubits) = Arity(b.gate),
           Commutes(a, b, FALSE)
    PROVE  Commutes(x, y, FALSE)
<1>1. /\ x.gate = a.gate /\ y.gate = b.gate
      /\ DOMAIN x.qubits = DOMAIN a.qubits /\ DOMAIN y.qubits = DOMAIN b.qubits
      /\ Len(x.qubits) = Len(a.qubits) /\ Len(y.qubits) = Len(b.qubits)
      /\ \A k \in DOMAIN a.qubits : \A l \in DOMAIN b.qubits :
            (x.qubits[k] = y.qubits[l]) <=> (a.qubits[k] = b.qubits[l])
  BY DEF Alike
<1>2. Disjoint(a, b) => Disjoint(x, y)
  <2> SUFFICES ASSUME Disjoint(a, b), NEW w \in WiresOf(x), w \in WiresOf(y)
               PROVE  FALSE
    BY DEF Disjoint
  <2>1. PICK k \in DOMAIN x.qubits : x.qubits[k] = w
    BY DEF WiresOf
  <2>2. PICK l \in DOMAIN y.qubits : y.qubits[l] = w
    BY DEF WiresOf
  <2>3. a.qubits[k] = b.qubits[l]
    BY <1>1, <2>1, <2>2
  <2>4. a.qubits[k] \in WiresOf(a) /\ b.qubits[l] \in WiresOf(b)
    BY <1>1, <2>1, <2>2 DEF WiresOf
  <2> QED
    BY <2>3, <2>4 DEF Disjoint
<1>3. /\ Diagonal(x) = Diagonal(a) /\ Diagonal(y) = Diagonal(b)
      /\ XAxis(x) = XAxis(a) /\ XAxis(y) = XAxis(b)
      /\ Unary(x) = Unary(a) /\ Unary(y) = Unary(b)
  BY <1>1 DEF Diagonal, XAxis, Unary
<1>4. 1 \in DOMAIN a.qubits /\ 1 \in DOMAIN b.qubits
      /\ (a.gate = "cx" => 2 \in DOMAIN a.qubits) /\ (b.gate = "cx" => 2 \in DOMAIN b.qubits)
  BY DEF Arity
<1>5. PassesCX(a, b) => PassesCX(x, y)
  BY <1>1, <1>3, <1>4 DEF PassesCX
<1>6. PassesCX(b, a) => PassesCX(y, x)
  BY <1>1, <1>3, <1>4 DEF PassesCX
<1>7. a.gate = "cx" /\ b.gate = "cx" /\ a.qubits[1] # b.qubits[2] /\ b.qubits[1] # a.qubits[2]
          => x.gate = "cx" /\ y.gate = "cx" /\ x.qubits[1] # y.qubits[2] /\ y.qubits[1] # x.qubits[2]
  BY <1>1, <1>4
<1> QED
  BY <1>1, <1>2, <1>3, <1>5, <1>6, <1>7 DEF Commutes

-----------------------------------------------------------------------------
(***************************************************************************)
(* A verified circuit whose wires and angles the matrices have.            *)
(***************************************************************************)
Angled(circuit) ==
    \A i \in DOMAIN circuit.ops :
        circuit.ops[i].gate = "rz" => \E angle \in DOMAIN Phases : circuit.ops[i].angle = {angle}

Suited(circuit, index) ==
    /\ Numbered(circuit, index) /\ Angled(circuit)
    /\ \A id \in AllocIds(circuit) : index[id] \in Register

LEMMA GateOperands ==
    ASSUME NEW circuit, IsCircuit(circuit), NEW index, NEW i \in DOMAIN circuit.ops,
           circuit.ops[i].gate \in Gates
    PROVE  /\ DOMAIN circuit.ops[i].operands = 1..Arity(circuit.ops[i].gate)
           /\ TraceUnder(circuit, index)[i].qubits =
                 [k \in 1..Arity(circuit.ops[i].gate) |-> Placement(circuit, index)[circuit.ops[i].operands[k]]]
           /\ Arity(circuit.ops[i].gate) \in {1, 2}
<1> DEFINE op == circuit.ops[i]
           e == TraceUnder(circuit, index)[i]
           place == Placement(circuit, index)
<1>1. DOMAIN op.operands = 1..Arity(op.gate) /\ Arity(op.gate) \in {1, 2}
  BY CircuitTyped DEF IsCircuit, Arity
<1>2. OnWires(circuit, place, i, e)
  BY TraceOnWires
<1> HIDE DEF place, e
<1>3. e.qubits = [k \in 1..Arity(op.gate) |-> place[op.operands[k]]]
  BY <1>1, <1>2 DEF OnWires
<1> HIDE DEF op
<1> QED
  BY <1>1, <1>3, Zenon DEF op, e, place

LEMMA GateLengths ==
    ASSUME NEW circuit, IsCircuit(circuit), NEW index, NEW i \in DOMAIN circuit.ops,
           circuit.ops[i].gate \in Gates
    PROVE  /\ DOMAIN TraceUnder(circuit, index)[i].qubits = 1..Arity(circuit.ops[i].gate)
           /\ Len(TraceUnder(circuit, index)[i].qubits) = Arity(circuit.ops[i].gate)
<1> DEFINE arity == Arity(circuit.ops[i].gate)
           qubits == TraceUnder(circuit, index)[i].qubits
           place == Placement(circuit, index)
<1>1. qubits = [k \in 1..arity |-> place[circuit.ops[i].operands[k]]] /\ arity \in {1, 2}
  BY GateOperands
<1> HIDE DEF arity, qubits, place
<1>2. DOMAIN qubits = 1..arity /\ Len(qubits) = arity
  BY <1>1
<1> QED
  BY <1>2 DEF qubits, arity

LEMMA GateWired ==
    ASSUME NEW circuit, NEW index, Suited(circuit, index), NEW i \in DOMAIN circuit.ops,
           circuit.ops[i].gate \in Gates
    PROVE  LET qubits == TraceUnder(circuit, index)[i].qubits
           IN  /\ \A k \in 1..Arity(circuit.ops[i].gate) : qubits[k] \in Register
               /\ Arity(circuit.ops[i].gate) = 2 => qubits[1] # qubits[2]
<1> DEFINE op == circuit.ops[i]
           qubits == TraceUnder(circuit, index)[i].qubits
           place == Placement(circuit, index)
<1>1. /\ Numbered(circuit, index) /\ IsCircuit(circuit) /\ CircuitVerifies(circuit)
      /\ \A id \in AllocIds(circuit) : index[id] \in Register
  BY DEF Suited, Numbered
<1>2. /\ DOMAIN op.operands = 1..Arity(op.gate)
      /\ qubits = [k \in 1..Arity(op.gate) |-> place[op.operands[k]]]
  BY <1>1, GateOperands
<1>3. op.gate # "output"
  BY DEF Gates
<1>4. \A k \in 1..Arity(op.gate) : Use(circuit, op.operands[k], i, k)
  BY <1>2 DEF Use
<1>5. ASSUME NEW k \in 1..Arity(op.gate)
      PROVE  qubits[k] \in Register
  <2>1. \E id \in AllocIds(circuit) : place[op.operands[k]] = index[id]
    BY <1>1, <1>3, <1>4, WiresOfUses
  <2> QED
    BY <1>1, <1>2, <2>1
<1>6. ASSUME Arity(op.gate) = 2
      PROVE  qubits[1] # qubits[2]
  <2>1. op.operands[1] # op.operands[2]
    <3>1. op.gate \in {"cx", "cz"}
      BY <1>6 DEF Arity
    <3> QED
      BY <1>1, <3>1 DEF CircuitVerifies, OpVerifies
  <2>2. Use(circuit, op.operands[1], i, 1) /\ Use(circuit, op.operands[2], i, 2)
    BY <1>4, <1>6
  <2>3. place[op.operands[1]] # place[op.operands[2]]
    BY <1>1, <1>3, <2>1, <2>2, WiresOfUses
  <2> QED
    BY <1>2, <1>6, <2>3
<1> QED
  BY <1>5, <1>6

LEMMA PairEvent ==
    ASSUME NEW g \in {"cx", "cz"}, NEW p \in Register, NEW q \in Register, p # q
    PROVE  [gate |-> g, qubits |-> <<p, q>>, angle |-> {}, movable |-> TRUE] \in GateEvents
<1> DEFINE S == {pair \in Register \X Register : pair[1] # pair[2]}
           event(h, qs) == [gate |-> h, qubits |-> qs, angle |-> {}, movable |-> TRUE]
           A == {event(h, qs) : h \in {"cx", "cz"}, qs \in S}
<1>1. <<p, q>> \in S
  OBVIOUS
<1>2. A \subseteq GateEvents
  BY DEF GateEvents
<1> HIDE DEF S, event
<1>3. event(g, <<p, q>>) \in A
  BY <1>1
<1>4. event(g, <<p, q>>) \in GateEvents
  BY <1>2, <1>3
<1> QED
  BY <1>4 DEF event

LEMMA PlainEvent ==
    ASSUME NEW g \in {"h", "x", "z", "sx"}, NEW q \in Register
    PROVE  [gate |-> g, qubits |-> <<q>>, angle |-> {}, movable |-> TRUE] \in GateEvents
<1> DEFINE event(h, r) == [gate |-> h, qubits |-> <<r>>, angle |-> {}, movable |-> TRUE]
           A == {event(h, r) : h \in {"h", "x", "z", "sx"}, r \in Register}
<1>1. A \subseteq GateEvents
  BY DEF GateEvents
<1> HIDE DEF event
<1>2. event(g, q) \in A
  OBVIOUS
<1>3. event(g, q) \in GateEvents
  BY <1>1, <1>2
<1> QED
  BY <1>3 DEF event

LEMMA TurningEvent ==
    ASSUME NEW angle \in DOMAIN Phases, NEW q \in Register
    PROVE  [gate |-> "rz", qubits |-> <<q>>, angle |-> {angle}, movable |-> TRUE] \in GateEvents
<1> DEFINE event(r, a) == [gate |-> "rz", qubits |-> <<r>>, angle |-> {a}, movable |-> TRUE]
           A == {event(r, a) : r \in Register, a \in DOMAIN Phases}
<1>1. A \subseteq GateEvents
  BY DEF GateEvents
<1> HIDE DEF event
<1>2. event(q, angle) \in A
  OBVIOUS
<1>3. event(q, angle) \in GateEvents
  BY <1>1, <1>2
<1> QED
  BY <1>3 DEF event

LEMMA MovingIs ==
    ASSUME NEW event, NEW gate, NEW qubits, NEW angle, NEW moves,
           event = [gate |-> gate, qubits |-> qubits, angle |-> angle, movable |-> moves]
    PROVE  Moving(event) = [gate |-> gate, qubits |-> qubits, angle |-> angle, movable |-> TRUE]
<1> DEFINE yes == TRUE
<1> HIDE DEF yes
<1>1. [[gate |-> gate, qubits |-> qubits, angle |-> angle, movable |-> moves] EXCEPT !.movable = yes]
          = [gate |-> gate, qubits |-> qubits, angle |-> angle, movable |-> yes]
  OBVIOUS
<1> QED
  BY <1>1, Zenon DEF Moving, yes

LEMMA SuitedMeant ==
    ASSUME NEW circuit, NEW index, Suited(circuit, index), NEW i \in DOMAIN circuit.ops
    PROVE  Meant(TraceUnder(circuit, index)[i])
<1> DEFINE op == circuit.ops[i]
           e == TraceUnder(circuit, index)[i]
<1>1. IsCircuit(circuit) /\ circuit \in Circuit /\ Angled(circuit)
  BY DEF Suited, Numbered, IsCircuit
<1>2. /\ e = [gate |-> op.gate, qubits |-> e.qubits, angle |-> op.angle, movable |-> e.movable]
      /\ e.gate = op.gate /\ e.movable \in BOOLEAN
  BY EventIs
<1> SUFFICES ASSUME op.gate \in Gates
             PROVE  Moving(e) \in GateEvents /\ Moving(e).gate = e.gate
  BY <1>2 DEF Meant
<1>3. /\ e.qubits = [k \in 1..Arity(op.gate) |-> e.qubits[k]]
      /\ \A k \in 1..Arity(op.gate) : e.qubits[k] \in Register
      /\ Arity(op.gate) = 2 => e.qubits[1] # e.qubits[2]
  <2>1. e.qubits = [k \in 1..Arity(op.gate) |-> Placement(circuit, index)[op.operands[k]]]
    BY <1>1, GateOperands
  <2>2. /\ \A k \in 1..Arity(op.gate) : e.qubits[k] \in Register
        /\ Arity(op.gate) = 2 => e.qubits[1] # e.qubits[2]
    BY GateWired
  <2> QED
    BY <2>1, <2>2
<1>4. op.gate = "rz" => \E angle \in DOMAIN Phases : op.angle = {angle}
  BY <1>1 DEF Angled
<1>5. op.gate # "rz" => op.angle = {}
  BY <1>1 DEF IsCircuit
<1> HIDE DEF e, op
<1> DEFINE qubits == e.qubits
           m == Moving(e)
<1>6. m = [gate |-> op.gate, qubits |-> qubits, angle |-> op.angle, movable |-> TRUE]
  <2> HIDE DEF qubits
  <2>1. e = [gate |-> op.gate, qubits |-> qubits, angle |-> op.angle, movable |-> e.movable]
    BY <1>2 DEF qubits
  <2> QED
    BY ONLY <2>1, MovingIs DEF m
<1>7. /\ qubits = [k \in 1..Arity(op.gate) |-> qubits[k]]
      /\ \A k \in 1..Arity(op.gate) : qubits[k] \in Register
      /\ Arity(op.gate) = 2 => qubits[1] # qubits[2]
  BY <1>3
<1> HIDE DEF qubits, m
<1>8. m.gate = op.gate
  BY <1>6
<1>9. CASE op.gate \in {"cx", "cz"}
  <2>1. Arity(op.gate) = 2
    BY <1>9 DEF Arity
  <2>2. qubits[1] \in Register /\ qubits[2] \in Register /\ qubits[1] # qubits[2]
    BY <1>7, <2>1
  <2>3. qubits = <<qubits[1], qubits[2]>>
    <3>1. qubits = [k \in 1..2 |-> qubits[k]]
      BY <1>7, <2>1
    <3> QED
      BY <3>1
  <2>5. op.angle = {}
    BY <1>5, <1>9
  <2>6. [gate |-> op.gate, qubits |-> <<qubits[1], qubits[2]>>, angle |-> {}, movable |-> TRUE] \in GateEvents
    BY <1>9, <2>2, PairEvent
  <2>7. m \in GateEvents
    BY <1>6, <2>3, <2>5, <2>6, Zenon
  <2> QED
    BY <1>2, <1>8, <2>7 DEF m
<1>10. CASE op.gate \notin {"cx", "cz"}
  <2>1. Arity(op.gate) = 1
    BY <1>10 DEF Arity
  <2>2. qubits[1] \in Register
    BY <1>7, <2>1
  <2>3. qubits = <<qubits[1]>>
    <3>1. qubits = [k \in 1..1 |-> qubits[k]]
      BY <1>7, <2>1
    <3> QED
      BY <3>1
  <2>4. m \in GateEvents
    <3>1. CASE op.gate = "rz"
      <4>1. PICK angle \in DOMAIN Phases : op.angle = {angle}
        BY <1>4, <3>1
      <4>2. [gate |-> "rz", qubits |-> <<qubits[1]>>, angle |-> {angle}, movable |-> TRUE] \in GateEvents
        BY <2>2, TurningEvent
      <4> QED
        BY <1>6, <2>3, <3>1, <4>1, <4>2, Zenon
    <3>2. CASE op.gate # "rz"
      <4>1. op.angle = {} /\ op.gate \in {"h", "x", "z", "sx"}
        BY <1>5, <1>10, <3>2 DEF Gates
      <4>2. [gate |-> op.gate, qubits |-> <<qubits[1]>>, angle |-> {}, movable |-> TRUE] \in GateEvents
        BY <2>2, <4>1, PlainEvent
      <4> QED
        BY <1>6, <2>3, <4>1, <4>2, Zenon
    <3> QED
      BY <3>1, <3>2
  <2> QED
    BY <1>2, <1>8, <2>4 DEF m
<1> QED
  BY <1>9, <1>10

LEMMA SuitedTrace ==
    ASSUME NEW circuit, NEW index, Suited(circuit, index)
    PROVE  /\ Len(circuit.ops) \in Nat /\ DOMAIN circuit.ops = 1..Len(circuit.ops)
           /\ DOMAIN TraceUnder(circuit, index) = 1..Len(circuit.ops)
           /\ AllMeant(TraceUnder(circuit, index), Len(circuit.ops))
<1>1. Len(circuit.ops) \in Nat /\ DOMAIN circuit.ops = 1..Len(circuit.ops)
  BY CircuitTyped DEF Suited, Numbered, IsCircuit
<1>2. DOMAIN TraceUnder(circuit, index) = 1..Len(circuit.ops)
  BY <1>1 DEF TraceUnder
<1>3. AllMeant(TraceUnder(circuit, index), Len(circuit.ops))
  BY <1>1, SuitedMeant DEF AllMeant
<1> QED
  BY <1>1, <1>2, <1>3

-----------------------------------------------------------------------------
(***************************************************************************)
(* What may pass on the physical wires may pass on the numbered ones.      *)
(***************************************************************************)
MayPass(t, u, n) == \A i, j \in 1..n : Commutes(t[i], t[j], FALSE) => Commutes(Moving(u[i]), Moving(u[j]), FALSE)

LEMMA EventMoves ==
    ASSUME NEW circuit, NEW p, NEW i \in DOMAIN circuit.ops
    PROVE  /\ TraceUnder(circuit, p)[i].gate = circuit.ops[i].gate
           /\ TraceUnder(circuit, p)[i].movable \in BOOLEAN
           /\ TraceUnder(circuit, p)[i].movable
                 <=> circuit.ops[i].gate \in Gates /\ circuit.ops[i].notes \subseteq {"source"}
           /\ TraceUnder(circuit, p)[i].movable => Moving(TraceUnder(circuit, p)[i]) = TraceUnder(circuit, p)[i]
<1> DEFINE e == TraceUnder(circuit, p)[i]
           op == circuit.ops[i]
<1>1. /\ e = [gate |-> op.gate, qubits |-> e.qubits, angle |-> op.angle, movable |-> e.movable]
      /\ e.gate = op.gate /\ e.movable \in BOOLEAN
      /\ e.movable <=> op.gate \in Gates /\ op.notes \subseteq {"source"}
  BY EventIs
<1> HIDE DEF e, op
<1>2. e.movable => Moving(e) = e
  <2> SUFFICES ASSUME e.movable
               PROVE  Moving(e) = e
    OBVIOUS
  <2>1. e.movable = TRUE
    BY <1>1, Zenon
  <2>2. e = [gate |-> op.gate, qubits |-> e.qubits, angle |-> op.angle, movable |-> TRUE]
    BY <1>1, <2>1, Zenon
  <2>3. Moving(e) = [gate |-> op.gate, qubits |-> e.qubits, angle |-> op.angle, movable |-> TRUE]
    BY ONLY <2>2, MovingIs
  <2> QED
    BY <2>2, <2>3, Zenon
<1> QED
  BY <1>1, <1>2, Zenon DEF e, op

LEMMA SuitedPass ==
    ASSUME NEW circuit, NEW index, Suited(circuit, index), MappedCircuit(circuit)
    PROVE  MayPass(BuildTrace(circuit), TraceUnder(circuit, index), Len(circuit.ops))
<1> DEFINE p == Physical(circuit)
           t == TraceUnder(circuit, p)
           u == TraceUnder(circuit, index)
<1>1. /\ Len(circuit.ops) \in Nat /\ DOMAIN circuit.ops = 1..Len(circuit.ops)
      /\ IsCircuit(circuit) /\ OperandsDefined(circuit)
      /\ \A a, b \in AllocIds(circuit) : index[a] = index[b] => a = b
  BY SuitedTrace DEF Suited, Numbered, CircuitVerifies
<1>2. \A a, b \in AllocIds(circuit) : p[a] = p[b] => a = b
  BY MappedNumbered DEF Numbered
<1> HIDE DEF p
<1> SUFFICES ASSUME NEW i \in 1..Len(circuit.ops), NEW j \in 1..Len(circuit.ops),
                    Commutes(t[i], t[j], FALSE)
             PROVE  Commutes(Moving(u[i]), Moving(u[j]), FALSE)
  BY DEF MayPass, BuildTrace, p
<1>3. ASSUME NEW x \in 1..Len(circuit.ops), t[x].movable
      PROVE  /\ t[x].gate \in Gates /\ u[x].gate = t[x].gate /\ u[x].movable /\ Moving(u[x]) = u[x]
             /\ DOMAIN t[x].qubits = 1..Arity(t[x].gate) /\ Len(t[x].qubits) = Arity(t[x].gate)
             /\ DOMAIN u[x].qubits = 1..Arity(t[x].gate) /\ Len(u[x].qubits) = Arity(t[x].gate)
             /\ \A k \in DOMAIN t[x].qubits : NamedBy(circuit, p, index, t[x].qubits[k], u[x].qubits[k])
  <2> DEFINE op == circuit.ops[x]
  <2>0. x \in DOMAIN circuit.ops
    BY <1>1
  <2>1. t[x].gate = op.gate /\ (t[x].movable <=> op.gate \in Gates /\ op.notes \subseteq {"source"})
    BY <2>0, EventMoves, Zenon
  <2>2. /\ u[x].gate = op.gate /\ (u[x].movable <=> op.gate \in Gates /\ op.notes \subseteq {"source"})
        /\ u[x].movable => Moving(u[x]) = u[x]
    BY <2>0, EventMoves, Zenon
  <2>3. op.gate \in Gates /\ u[x].movable /\ Moving(u[x]) = u[x]
    BY <1>3, <2>1, <2>2, Zenon
  <2>4. IsCircuit(circuit) /\ circuit.ops[x].gate \in Gates
    BY <1>1, <2>3
  <2>5. /\ DOMAIN t[x].qubits = 1..Arity(op.gate) /\ Len(t[x].qubits) = Arity(op.gate)
        /\ DOMAIN u[x].qubits = 1..Arity(op.gate) /\ Len(u[x].qubits) = Arity(op.gate)
    <3>1. /\ DOMAIN TraceUnder(circuit, p)[x].qubits = 1..Arity(circuit.ops[x].gate)
          /\ Len(TraceUnder(circuit, p)[x].qubits) = Arity(circuit.ops[x].gate)
      BY ONLY <2>0, <2>4, GateLengths
    <3>2. /\ DOMAIN TraceUnder(circuit, index)[x].qubits = 1..Arity(circuit.ops[x].gate)
          /\ Len(TraceUnder(circuit, index)[x].qubits) = Arity(circuit.ops[x].gate)
      BY ONLY <2>0, <2>4, GateLengths
    <3> QED
      BY <3>1, <3>2, Zenon
  <2>6. \A k \in DOMAIN t[x].qubits : NamedBy(circuit, p, index, t[x].qubits[k], u[x].qubits[k])
    <3>1. op.gate \in Gates \cup Ending \cup {"alloc"}
      BY <2>3
    <3> QED
      BY <1>1, <2>0, <3>1, WireNamed
  <2> QED
    BY <2>1, <2>2, <2>3, <2>5, <2>6
<1> HIDE DEF t, u
<1>4. t[i].movable /\ t[j].movable
  BY DEF Commutes
<1>5. /\ t[i].gate \in Gates /\ u[i].gate = t[i].gate /\ u[i].movable /\ Moving(u[i]) = u[i]
      /\ DOMAIN t[i].qubits = 1..Arity(t[i].gate) /\ Len(t[i].qubits) = Arity(t[i].gate)
      /\ DOMAIN u[i].qubits = 1..Arity(t[i].gate) /\ Len(u[i].qubits) = Arity(t[i].gate)
      /\ \A k \in DOMAIN t[i].qubits : NamedBy(circuit, p, index, t[i].qubits[k], u[i].qubits[k])
  BY <1>3, <1>4
<1>6. /\ t[j].gate \in Gates /\ u[j].gate = t[j].gate /\ u[j].movable /\ Moving(u[j]) = u[j]
      /\ DOMAIN t[j].qubits = 1..Arity(t[j].gate) /\ Len(t[j].qubits) = Arity(t[j].gate)
      /\ DOMAIN u[j].qubits = 1..Arity(t[j].gate) /\ Len(u[j].qubits) = Arity(t[j].gate)
      /\ \A k \in DOMAIN t[j].qubits : NamedBy(circuit, p, index, t[j].qubits[k], u[j].qubits[k])
  BY <1>3, <1>4
<1>7. ASSUME NEW k \in DOMAIN t[i].qubits, NEW l \in DOMAIN t[j].qubits
      PROVE  (u[i].qubits[k] = u[j].qubits[l]) <=> (t[i].qubits[k] = t[j].qubits[l])
  <2>1. PICK a \in AllocIds(circuit) : t[i].qubits[k] = p[a] /\ u[i].qubits[k] = index[a]
    BY <1>5 DEF NamedBy
  <2>2. PICK b \in AllocIds(circuit) : t[j].qubits[l] = p[b] /\ u[j].qubits[l] = index[b]
    BY <1>6 DEF NamedBy
  <2> QED
    BY <1>1, <1>2, <2>1, <2>2
<1>8. Alike(t[i], t[j], u[i], u[j])
  BY <1>4, <1>5, <1>6, <1>7 DEF Alike
<1>9. Commutes(u[i], u[j], FALSE)
  BY <1>5, <1>6, <1>8, AlikeCommute
<1> QED
  BY <1>5, <1>6, <1>9

-----------------------------------------------------------------------------
(***************************************************************************)
(* The orders that moves reach keep the behaviour.                         *)
(***************************************************************************)
Reorder(u, o, n) == [i \in 1..n |-> u[o[i]]]

\* What moves reach from the present order, for any events in the place of the
\* ones the rules looked at.
ReachedOrder(t, u, n, o) ==
    o \in [1..n -> 1..n] /\ Behaviour(Reorder(u, o, n)) = Behaviour(u)

LEMMA ReorderStep ==
    ASSUME NEW n \in Nat, NEW t, NEW u, MayPass(t, u, n), AllMeant(u, n),
           NEW o \in [1..n -> 1..n], NEW m, IsMove(m, n), Legal(Rearranged(t, o), m, FALSE)
    PROVE  /\ Rotate(o, m) \in [1..n -> 1..n]
           /\ Behaviour(Reorder(u, Rotate(o, m), n)) = Behaviour(Reorder(u, o, n))
<1> DEFINE new == Rotate(o, m)
           old == Reorder(u, o, n)
           now == Reorder(u, new, n)
           r == Rearranged(t, o)
           left == m.left
           right == m.right
<1>1. /\ new \in [1..n -> 1..n]
      /\ \A i \in 1..n : new[i] = o[Source(m, i)]
  BY ONLY n \in Nat, IsMove(m, n), o \in [1..n -> 1..n], RotateOrder
<1>2. \A i \in 1..n : Source(m, i) \in 1..n
  BY SourceType
<1>3. /\ DOMAIN old = 1..n /\ DOMAIN now = 1..n
      /\ \A i \in 1..n : old[i] = u[o[i]] /\ now[i] = u[new[i]]
  BY DEF Reorder
<1>4. \A i \in 1..n : r[i] = t[o[i]]
  <2>1. Len(o) = n
    OBVIOUS
  <2> QED
    BY <2>1 DEF Rearranged
<1>5. left \in 1..n /\ right \in 1..n /\ left < right /\ m.direction \in {0, 1}
  BY DEF IsMove, left, right
<1>6. Legal(r, m, FALSE)
  OBVIOUS
<1> HIDE DEF new, old, now, r
<1>7. \A i \in 1..n : now[i] = old[Source(m, i)]
  BY <1>1, <1>2, <1>3
<1>s. \A i \in 1..n : Source(m, i) = IF i < left \/ i > right THEN i
                                    ELSE IF m.direction = 0 THEN IF i = left THEN right ELSE i - 1
                                                            ELSE IF i = right THEN left ELSE i + 1
  BY DEF Source
<1> HIDE DEF left, right
<1>8. AllMeant(old, n) /\ AllMeant(now, n)
  <2>1. \A i \in 1..n : o[i] \in 1..n /\ new[i] \in 1..n
    BY <1>1
  <2> QED
    BY <1>3, <2>1 DEF AllMeant
<1>9. ASSUME NEW i \in 1..n, NEW j \in 1..n, Commutes(r[i], r[j], FALSE)
      PROVE  Commutes(Moving(old[i]), Moving(old[j]), FALSE)
  <2>1. o[i] \in 1..n /\ o[j] \in 1..n
    OBVIOUS
  <2>2. Commutes(t[o[i]], t[o[j]], FALSE)
    BY <1>4, <1>9
  <2> QED
    BY <1>3, <2>1, <2>2 DEF MayPass
<1>10. CASE m.direction = 0
  <2>0. \A i \in 1..n : Source(m, i) = IF i < left \/ i > right THEN i ELSE IF i = left THEN right ELSE i - 1
    BY <1>s, <1>10
  <2>1. now[left] = old[right]
    <3>1. Source(m, left) = right
      BY <1>5, <2>0
    <3> QED
      BY <1>5, <1>7, <3>1
  <2>2. ASSUME NEW k \in (left + 1)..right
        PROVE  now[k] = old[k - 1]
    <3>1. k \in 1..n /\ ~(k < left) /\ ~(k > right) /\ k # left
      BY <1>5
    <3>2. Source(m, k) = k - 1
      BY <2>0, <3>1
    <3> QED
      BY <1>7, <3>1, <3>2
  <2>3. ASSUME NEW k \in 1..n, k < left \/ k > right
        PROVE  now[k] = old[k]
    <3>1. Source(m, k) = k
      BY <2>0, <2>3
    <3> QED
      BY <1>7, <3>1
  <2>4. \A k \in left..(right - 1) : Commutes(r[right], r[k], FALSE)
    BY <1>6, <1>10 DEF Legal, left, right
  <2>5. \A k \in left..(right - 1) : k \in 1..n
    BY <1>5
  <2>6. \A k \in left..(right - 1) : Commutes(Moving(old[right]), Moving(old[k]), FALSE)
    BY <1>5, <1>9, <2>4, <2>5
  <2>7. TakenBack(old, now, n, left, right)
    BY <1>5, <2>1, <2>2, <2>3, <2>6 DEF TakenBack
  <2>8. Behaviour(old) = Behaviour(now)
    BY <1>3, <1>8, <2>7, TakenBackEqual
  <2> QED
    BY <1>1, <2>8 DEF new, now, old
<1>11. CASE m.direction = 1
  <2>0. \A i \in 1..n : Source(m, i) = IF i < left \/ i > right THEN i ELSE IF i = right THEN left ELSE i + 1
    BY <1>s, <1>11
  <2>1. now[right] = old[left]
    <3>1. Source(m, right) = left
      BY <1>5, <2>0
    <3> QED
      BY <1>5, <1>7, <3>1
  <2>2. ASSUME NEW k \in left..(right - 1)
        PROVE  k \in 1..n /\ now[k] = old[k + 1] /\ k + 1 \in 1..n
    <3>1. k \in 1..n /\ k + 1 \in 1..n /\ ~(k < left) /\ ~(k > right) /\ k # right
      BY <1>5
    <3>2. Source(m, k) = k + 1
      BY <2>0, <3>1
    <3> QED
      BY <1>7, <3>1, <3>2
  <2>3. \A k \in (left + 1)..right : old[k] = now[k - 1]
    <3> SUFFICES ASSUME NEW k \in (left + 1)..right
                 PROVE  old[k] = now[k - 1]
      OBVIOUS
    <3>1. left \in Int /\ right \in Int /\ k \in Int
      BY <1>5
    <3>1a. k - 1 \in left..(right - 1) /\ (k - 1) + 1 = k
      BY <3>1
    <3>2. now[k - 1] = old[(k - 1) + 1]
      BY <2>2, <3>1a
    <3> QED
      BY <3>1a, <3>2
  <2>4. ASSUME NEW k \in 1..n, k < left \/ k > right
        PROVE  old[k] = now[k]
    <3>1. Source(m, k) = k
      BY <2>0, <2>4
    <3> QED
      BY <1>7, <3>1
  <2>5. \A k \in left..(right - 1) : Commutes(r[left], r[k + 1], FALSE)
    <3>1. m.direction # 0
      BY <1>11
    <3>2. \A k \in m.left..(m.right - 1) : Commutes(r[m.left], r[k + 1], FALSE)
      BY <1>6, <3>1, Zenon DEF Legal
    <3> QED
      BY <3>2, Zenon DEF left, right
  <2>6. \A k \in left..(right - 1) : Commutes(Moving(now[right]), Moving(now[k]), FALSE)
    BY <1>5, <1>9, <2>1, <2>2, <2>5
  <2>7. TakenBack(now, old, n, left, right)
    BY <1>5, <2>1, <2>3, <2>4, <2>6 DEF TakenBack
  <2>8. Behaviour(now) = Behaviour(old)
    BY <1>3, <1>8, <2>7, TakenBackEqual
  <2> QED
    BY <1>1, <2>8 DEF new, now, old
<1> QED
  BY <1>5, <1>10, <1>11

LEMMA OrdersBehave ==
    ASSUME NEW n \in Nat, NEW t, DOMAIN t = 1..n, NEW u, u = [i \in 1..n |-> u[i]],
           MayPass(t, u, n), AllMeant(u, n), NEW order \in OrdersWithin(t)
    PROVE  ReachedOrder(t, u, n, order)
<1> DEFINE reach == CHOOSE reach : IsReach(t, MaxMoves, reach)
           S == {k \in Nat : k <= MaxMoves => \A o \in reach[k] : ReachedOrder(t, u, n, o)}
<1>0. MaxMoves \in Nat
  BY PassAssumption
<1>1. order \in reach[MaxMoves]
  BY DEF OrdersWithin, IsReach, Moved
<1>2. IsReach(t, MaxMoves, reach)
  BY <1>0, ReachExists
<1> HIDE DEF reach
<1>3. 0 \in S
  <2> DEFINE unmoved == [i \in 1..n |-> i]
  <2>1. reach[0] = {unmoved}
    BY <1>0, <1>2 DEF IsReach
  <2>2. Reorder(u, unmoved, n) = [i \in 1..n |-> u[i]] /\ unmoved \in [1..n -> 1..n]
    BY DEF Reorder
  <2>3. ReachedOrder(t, u, n, unmoved)
    BY <2>2 DEF ReachedOrder
  <2> HIDE DEF unmoved
  <2> QED
    BY <2>1, <2>3
<1>4. ASSUME NEW k \in Nat, k \in S
      PROVE  k + 1 \in S
  <2> SUFFICES ASSUME k + 1 <= MaxMoves, NEW new \in reach[k + 1]
               PROVE  ReachedOrder(t, u, n, new)
    OBVIOUS
  <2>1. k + 1 \in 0..MaxMoves /\ k + 1 # 0 /\ (k + 1) - 1 = k /\ k <= MaxMoves
    BY <1>0
  <2>2. reach[k + 1] = Moved(t, reach[k])
    <3>1. reach[k + 1] = IF k + 1 = 0 THEN {[i \in DOMAIN t |-> i]} ELSE Moved(t, reach[(k + 1) - 1])
      BY <1>2, <2>1 DEF IsReach
    <3> QED
      BY <2>1, <3>1
  <2>3. PICK o \in reach[k] : new \in {o} \cup {Rotate(o, m) : m \in LegalMoves(Rearranged(t, o))}
    BY <2>2 DEF Moved
  <2>4. o \in [1..n -> 1..n] /\ Behaviour(Reorder(u, o, n)) = Behaviour(u)
    BY <1>4, <2>1, <2>3 DEF ReachedOrder
  <2>5. CASE new = o
    BY <2>4, <2>5 DEF ReachedOrder
  <2>6. ASSUME NEW m \in LegalMoves(Rearranged(t, o)), new = Rotate(o, m)
        PROVE  ReachedOrder(t, u, n, new)
    <3>1. DOMAIN Rearranged(t, o) = 1..n
      BY <2>4 DEF Rearranged
    <3>2. IsMove(m, n) /\ Legal(Rearranged(t, o), m, FALSE)
      BY <3>1 DEF LegalMoves, IsMove
    <3>3. /\ Rotate(o, m) \in [1..n -> 1..n]
          /\ Behaviour(Reorder(u, Rotate(o, m), n)) = Behaviour(Reorder(u, o, n))
      BY <2>4, <3>2, ReorderStep
    <3> QED
      BY <2>4, <2>6, <3>3 DEF ReachedOrder
  <2> QED
    BY <2>3, <2>5, <2>6
<1> HIDE DEF S
<1>5. MaxMoves \in S
  BY <1>0, <1>3, <1>4, Induct
<1> QED
  BY <1>0, <1>1, <1>5 DEF S

-----------------------------------------------------------------------------
(***************************************************************************)
(* Events of two circuits, under one numbering of the allocations.         *)
(***************************************************************************)
ComesFrom(old, new, index, i, j) ==
    /\ i \in DOMAIN old.ops
    /\ new.ops[j].id = old.ops[i].id /\ new.ops[j].gate = old.ops[i].gate
    /\ TraceUnder(new, index)[j] = TraceUnder(old, index)[i]

Bits(circuit) == circuit.ops[Len(circuit.ops)].operands

\* Every operation has its event from the old circuit, and the output its bits.
Inherits(old, new, index) ==
    /\ Bits(new) = Bits(old)
    /\ \A j \in DOMAIN new.ops : \E i : ComesFrom(old, new, index, i, j)

LEMMA SameEvent ==
    ASSUME NEW old, NEW p, NEW i \in DOMAIN old.ops, NEW new, NEW q, NEW j \in DOMAIN new.ops,
           new.ops[j].gate = old.ops[i].gate, new.ops[j].angle = old.ops[i].angle,
           new.ops[j].notes = old.ops[i].notes,
           TraceUnder(new, q)[j].qubits = TraceUnder(old, p)[i].qubits
    PROVE  TraceUnder(new, q)[j] = TraceUnder(old, p)[i]
<1> DEFINE a == TraceUnder(old, p)[i]
           b == TraceUnder(new, q)[j]
           moves == old.ops[i].gate \in Gates /\ old.ops[i].notes \subseteq {"source"}
<1>1. /\ a = [gate |-> old.ops[i].gate, qubits |-> a.qubits, angle |-> old.ops[i].angle, movable |-> a.movable]
      /\ a.movable \in BOOLEAN
      /\ a.movable <=> moves
  BY EventIs
<1>2. /\ b = [gate |-> new.ops[j].gate, qubits |-> b.qubits, angle |-> new.ops[j].angle, movable |-> b.movable]
      /\ b.movable \in BOOLEAN
      /\ b.movable <=> new.ops[j].gate \in Gates /\ new.ops[j].notes \subseteq {"source"}
  BY EventIs
<1>3. b.qubits = a.qubits
  OBVIOUS
<1> HIDE DEF a, b
<1>4. b.movable <=> moves
  BY <1>2
<1> HIDE DEF moves
<1>5. a.movable = b.movable
  BY <1>1, <1>2, <1>4, Zenon
<1>6. b = [gate |-> old.ops[i].gate, qubits |-> a.qubits, angle |-> old.ops[i].angle, movable |-> a.movable]
  BY <1>2, <1>3, <1>5, Zenon
<1> QED
  BY <1>1, <1>6, Zenon DEF a, b

LEMMA WiresListed ==
    ASSUME NEW circuit, IsCircuit(circuit), NEW index, NEW i \in DOMAIN circuit.ops,
           circuit.ops[i].gate \in Gates \cup Ending \cup {"alloc"}
    PROVE  LET qubits == TraceUnder(circuit, index)[i].qubits
           IN  qubits = [k \in DOMAIN qubits |-> qubits[k]]
<1> DEFINE place == Placement(circuit, index)
           op == circuit.ops[i]
           qubits == TraceUnder(circuit, index)[i].qubits
<1>1. OnWires(circuit, place, i, TraceUnder(circuit, index)[i])
  BY TraceOnWires
<1>2. CASE op.gate = "alloc"
  <2>1. qubits = <<place[<<op.id, 1>>]>>
    BY <1>1, <1>2 DEF OnWires
  <2> HIDE DEF qubits
  <2>2. qubits = [k \in DOMAIN qubits |-> qubits[k]]
    BY <2>1
  <2> QED
    BY <2>2 DEF qubits
<1>3. CASE op.gate # "alloc"
  <2>1. op.gate \in Gates \cup {"measure", "discard"}
    BY <1>3 DEF Ending
  <2>2. qubits = [k \in DOMAIN op.operands |-> place[op.operands[k]]]
    BY <1>1, <2>1 DEF OnWires
  <2> HIDE DEF qubits
  <2>3. qubits = [k \in DOMAIN qubits |-> qubits[k]]
    BY <2>2
  <2> QED
    BY <2>3 DEF qubits
<1> QED
  BY <1>2, <1>3

\* What a measurement is of.
LEMMA MeasureWire ==
    ASSUME NEW circuit, IsCircuit(circuit), NEW index, NEW i \in DOMAIN circuit.ops,
           circuit.ops[i].gate = "measure"
    PROVE  Placement(circuit, index)[circuit.ops[i].operands[1]] = TraceUnder(circuit, index)[i].qubits[1]
<1> DEFINE place == Placement(circuit, index)
           op == circuit.ops[i]
           qubits == TraceUnder(circuit, index)[i].qubits
<1>1. OnWires(circuit, place, i, TraceUnder(circuit, index)[i])
  BY TraceOnWires
<1>2. qubits = [k \in DOMAIN op.operands |-> place[op.operands[k]]]
  BY <1>1 DEF OnWires
<1>3. 1 \in DOMAIN op.operands
  <2>1. Len(op.operands) = 1
    BY DEF IsCircuit
  <2> QED
    BY <2>1, CircuitTyped DEF IsCircuit
<1> HIDE DEF qubits, place
<1>4. place[op.operands[1]] = qubits[1]
  BY <1>2, <1>3
<1> QED
  BY <1>4 DEF qubits, place

\* What an output's bit is of: its measurement is where its name says.
LEMMA BitMeasured ==
    ASSUME NEW circuit, IsCircuit(circuit), CircuitVerifies(circuit), NEW k \in DOMAIN Bits(circuit)
    PROVE  \E j \in DOMAIN circuit.ops :
              /\ circuit.ops[j].gate = "measure"
              /\ Bits(circuit)[k] \in Values(circuit.ops[j])
              /\ Bits(circuit)[k][1] = circuit.ops[j].id
              /\ Position(circuit, Bits(circuit)[k][1]) = j
<1> DEFINE n == Len(circuit.ops)
           v == Bits(circuit)[k]
<1>1. n \in Nat /\ DOMAIN circuit.ops = 1..n /\ n > 0 /\ OperandsDefined(circuit)
      /\ circuit.ops[n].gate = "output"
  <2>1. n \in Nat /\ DOMAIN circuit.ops = 1..n
    BY CircuitTyped DEF IsCircuit
  <2>2. n > 0 /\ OperandsDefined(circuit)
    BY DEF CircuitVerifies
  <2>3. n \in DOMAIN circuit.ops
    BY <2>1, <2>2
  <2>4. circuit.ops[n].gate = "output"
    BY <2>3 DEF CircuitVerifies
  <2> QED
    BY <2>1, <2>2, <2>4
<1>2. n \in DOMAIN circuit.ops /\ k \in DOMAIN circuit.ops[n].operands /\ v = circuit.ops[n].operands[k]
  BY <1>1 DEF Bits
<1>3. PICK j \in 1..(n - 1) : v \in Values(circuit.ops[j]) \ Qubits(circuit.ops[j])
  BY <1>1, <1>2 DEF OperandsDefined
<1>4. j \in DOMAIN circuit.ops
  BY <1>1, <1>3
<1>5. circuit.ops[j].gate = "measure"
  BY <1>3 DEF Qubits
<1> HIDE DEF v
<1>6. v[1] = circuit.ops[j].id
  BY <1>3 DEF Values
<1>7. Position(circuit, v[1]) = j
  BY <1>4, <1>6, PositionIs
<1> QED
  BY <1>3, <1>4, <1>5, <1>6, <1>7 DEF v

LEMMA SameMeasured ==
    ASSUME NEW old, IsCircuit(old), NEW new, IsCircuit(new), CircuitVerifies(new), NEW index,
           Inherits(old, new, index)
    PROVE  Measured(new, index) = Measured(old, index)
<1> DEFINE here == Placement(new, index)
           there == Placement(old, index)
           bits == Bits(new)
<1>1. /\ Measured(new, index) = [k \in DOMAIN Bits(new) |-> here[new.ops[Position(new, Bits(new)[k][1])].operands[1]]]
      /\ Measured(old, index) = [k \in DOMAIN Bits(old) |-> there[old.ops[Position(old, Bits(old)[k][1])].operands[1]]]
  BY DEF Measured, Bits
<1>2. Bits(old) = bits
  BY DEF Inherits
<1>3. ASSUME NEW k \in DOMAIN bits
      PROVE  here[new.ops[Position(new, bits[k][1])].operands[1]] = there[old.ops[Position(old, bits[k][1])].operands[1]]
  <2>1. PICK j \in DOMAIN new.ops : /\ new.ops[j].gate = "measure"
                                    /\ bits[k][1] = new.ops[j].id
                                    /\ Position(new, bits[k][1]) = j
    BY BitMeasured
  <2>2. PICK i : ComesFrom(old, new, index, i, j)
    BY DEF Inherits
  <2>3. i \in DOMAIN old.ops /\ old.ops[i].id = new.ops[j].id /\ old.ops[i].gate = "measure"
        /\ TraceUnder(new, index)[j] = TraceUnder(old, index)[i]
    BY <2>1, <2>2 DEF ComesFrom
  <2>4. Position(old, bits[k][1]) = i
    BY <2>1, <2>3, PositionIs
  <2>5. here[new.ops[j].operands[1]] = TraceUnder(new, index)[j].qubits[1]
    BY <2>1, MeasureWire
  <2>6. there[old.ops[i].operands[1]] = TraceUnder(old, index)[i].qubits[1]
    BY <2>3, MeasureWire
  <2> HIDE DEF here, there, bits
  <2> QED
    BY <2>1, <2>3, <2>4, <2>5, <2>6
<1> HIDE DEF here, there
<1> QED
  BY <1>1, <1>2, <1>3

-----------------------------------------------------------------------------
(***************************************************************************)
(* What each change to a circuit carries over: the wires measured, and the *)
(* behaviour but for a pair of H.                                          *)
(***************************************************************************)
Carries(old, new, index) ==
    /\ Measured(new, index) = Measured(old, index)
    /\ BehaviourOf(old, index) \in Done /\ BehaviourOf(new, index) \in Done
    /\ \E j \in {0, 1} : Doubled(BehaviourOf(old, index), BehaviourOf(new, index), j)

LEMMA BehaviourDone ==
    ASSUME NEW t, NEW n \in Nat, DOMAIN t = 1..n, AllMeant(t, n)
    PROVE  Behaviour(t) \in Done
<1>1. PICK f : IsRun(t, n, f) /\ Behaviour(t) = f[n]
  BY BehaviourRuns
<1> QED
  BY <1>1 DEF IsRun

LEMMA CarriesSame ==
    ASSUME NEW old, NEW new, NEW index, Suited(old, index),
           Measured(new, index) = Measured(old, index), BehaviourOf(new, index) = BehaviourOf(old, index)
    PROVE  Carries(old, new, index)
<1>1. BehaviourOf(old, index) \in Done
  BY SuitedTrace, BehaviourDone DEF BehaviourOf
<1>2. Doubled(BehaviourOf(old, index), BehaviourOf(new, index), 0)
  BY <1>1, DoubledNone
<1> QED
  BY <1>1, <1>2 DEF Carries

-----------------------------------------------------------------------------
(***************************************************************************)
(* Cancelling a pair.                                                      *)
(***************************************************************************)
LEMMA CancelledInherits ==
    ASSUME NEW circuit, NEW first, Pair(circuit, first), NEW rest, IsCancelled(circuit, first, rest),
           NEW index
    PROVE  Inherits(circuit, rest, index)
<1> DEFINE n == Len(circuit.ops)
           b == circuit.ops[first + 1]
<1>1. /\ IsCircuit(circuit) /\ CircuitVerifies(circuit) /\ first \in 1..(n - 1)
      /\ n \in Nat /\ DOMAIN circuit.ops = 1..n /\ DOMAIN rest.ops = 1..(n - 2)
      /\ IsCircuit(rest)
  BY CancelledPair DEF Pair
<1>2. ASSUME NEW j \in DOMAIN rest.ops
      PROVE  \E i : ComesFrom(circuit, rest, index, i, j)
  <2>1. j \in 1..(n - 2)
    BY <1>1
  <2>2. /\ Kept(first, j) \in DOMAIN circuit.ops
        /\ rest.ops[j].id = circuit.ops[Kept(first, j)].id /\ rest.ops[j].gate = circuit.ops[Kept(first, j)].gate
    <3>1. Kept(first, j) \in DOMAIN circuit.ops
      BY <1>1, <2>1, KeptIs
    <3>2. /\ rest.ops[j].id = circuit.ops[Kept(first, j)].id
          /\ rest.ops[j].gate = circuit.ops[Kept(first, j)].gate
      BY <2>1 DEF IsCancelled
    <3> QED
      BY <3>1, <3>2
  <2>3. TraceUnder(rest, index)[j] = TraceUnder(circuit, index)[Kept(first, j)]
    BY <2>1, CancelledTrace
  <2> QED
    BY <2>2, <2>3 DEF ComesFrom
<1>3. /\ n > 0 /\ circuit.ops[n].gate = "output"
      /\ first + 1 \in DOMAIN circuit.ops /\ first + 1 # n /\ b.gate \in Gates /\ Qubits(b) = Values(b)
  <2>1. n > 0
    BY <1>1 DEF CircuitVerifies
  <2>2. n \in DOMAIN circuit.ops
    BY <1>1, <2>1
  <2>3. circuit.ops[n].gate = "output"
    BY <1>1, <2>2 DEF CircuitVerifies
  <2>4. first + 1 \in DOMAIN circuit.ops /\ b.gate \in Gates /\ Qubits(b) = Values(b)
    BY PairParts
  <2>5. first + 1 # n
    BY <2>3, <2>4 DEF Gates
  <2> QED
    BY <2>1, <2>3, <2>4, <2>5
<1>4. n - 2 \in 1..(n - 2) /\ Kept(first, n - 2) = n
  BY <1>1, <1>3 DEF Kept
<1>5. rest.ops[n - 2].operands = [k \in DOMAIN circuit.ops[n].operands |-> Follow(circuit, first, circuit.ops[n].operands[k])]
  BY <1>4, CancelledPair
<1>6. ASSUME NEW k \in DOMAIN Bits(circuit)
      PROVE  Follow(circuit, first, Bits(circuit)[k]) = Bits(circuit)[k]
  <2>1. PICK j \in DOMAIN circuit.ops : /\ circuit.ops[j].gate = "measure"
                                        /\ Bits(circuit)[k] \in Values(circuit.ops[j])
    BY <1>1, BitMeasured
  <2>2. j # first + 1
    BY <1>3, <2>1 DEF Gates
  <2>3. Bits(circuit)[k] \notin Values(b)
    BY <1>1, <1>3, <2>1, <2>2, ValuesApart
  <2> QED
    BY <2>3 DEF Follow
<1>7. circuit.ops[n].operands = [k \in DOMAIN circuit.ops[n].operands |-> circuit.ops[n].operands[k]]
  <2>1. n \in DOMAIN circuit.ops
    BY <1>1, <1>3
  <2>2. circuit.ops[n].operands \in Seq(Nat \X Nat)
    BY <1>1, <2>1, CircuitTyped DEF IsCircuit
  <2> QED
    BY <2>2
<1>8. Len(rest.ops) = n - 2
  BY DEF IsCancelled
<1>9. Bits(rest) = Bits(circuit)
  BY <1>5, <1>6, <1>7, <1>8 DEF Bits
<1> QED
  BY <1>2, <1>9 DEF Inherits

LEMMA CancelledCarries ==
    ASSUME NEW circuit, NEW first, Pair(circuit, first), NEW rest, IsCancelled(circuit, first, rest),
           NEW index, Suited(circuit, index)
    PROVE  Carries(circuit, rest, index)
<1> DEFINE n == Len(circuit.ops)
           t == TraceUnder(circuit, index)
           u == TraceUnder(rest, index)
<1>1. /\ IsCircuit(circuit) /\ n \in Nat /\ first \in 1..(n - 1) /\ first \in DOMAIN circuit.ops
      /\ first + 1 \in DOMAIN circuit.ops
      /\ IsCircuit(rest) /\ CircuitVerifies(rest)
  BY CancelledPair, CancelledVerifies, PairParts
<1>2. Measured(rest, index) = Measured(circuit, index)
  BY <1>1, CancelledInherits, SameMeasured
<1>3. DOMAIN t = 1..n /\ AllMeant(t, n)
  BY SuitedTrace
<1>4. DOMAIN u = 1..(n - 2) /\ \A i \in 1..(n - 2) : u[i] = t[Kept(first, i)]
  BY CancelledTrace
<1>5. t[first] = t[first + 1] /\ t[first].gate \in SelfInverse
  <2>1. /\ Words(circuit, index)[first] = [event |-> t[first], notes |-> circuit.ops[first].notes]
        /\ Words(circuit, index)[first + 1] = [event |-> t[first + 1], notes |-> circuit.ops[first + 1].notes]
    BY <1>1, LetterOf
  <2>2. /\ Words(circuit, index)[first] = Words(circuit, index)[first + 1]
        /\ Cancellable(Words(circuit, index)[first])
    BY PairLetters
  <2> HIDE DEF t
  <2>3. Words(circuit, index)[first].event = t[first] /\ Words(circuit, index)[first + 1].event = t[first + 1]
    BY <2>1
  <2> QED
    BY <2>2, <2>3 DEF Cancellable
<1> HIDE DEF t, u, n
<1>6. /\ Behaviour(t) \in Done /\ Behaviour(u) \in Done
      /\ \E j \in {0, 1} : Doubled(Behaviour(t), Behaviour(u), j)
  BY <1>1, <1>3, <1>4, <1>5, PairGone
<1> QED
  BY <1>2, <1>6 DEF Carries, BehaviourOf, t, u

-----------------------------------------------------------------------------
(***************************************************************************)
(* Placing the allocations.                                                *)
(***************************************************************************)
LEMMA PlacedTrace ==
    ASSUME NEW circuit, IsCircuit(circuit), NEW index, NEW numbers
    PROVE  TraceUnder(Placed(circuit, index), numbers) = TraceUnder(circuit, numbers)
<1> DEFINE placed == Placed(circuit, index)
<1>0. IsPlaced(circuit, index, placed)
  BY PlacedParts DEF IsCircuit
<1> HIDE DEF placed
<1>1. DOMAIN placed.ops = DOMAIN circuit.ops
  BY <1>0 DEF IsPlaced
<1>2. ASSUME NEW i \in DOMAIN circuit.ops
      PROVE  /\ placed.ops[i].id = circuit.ops[i].id /\ placed.ops[i].gate = circuit.ops[i].gate
             /\ placed.ops[i].operands = circuit.ops[i].operands
             /\ placed.ops[i].qubits = circuit.ops[i].qubits
             /\ placed.ops[i].angle = circuit.ops[i].angle
             /\ placed.ops[i].notes = circuit.ops[i].notes
  BY <1>0 DEF IsPlaced
<1>3. Wiring(placed) = Wiring(circuit)
  BY <1>1, <1>2 DEF Wiring
<1>4. Placement(placed, numbers) = Placement(circuit, numbers)
  BY <1>3 DEF Placement
<1> DEFINE place == Placement(circuit, numbers)
<1>5. \A i \in DOMAIN circuit.ops : EventUnder(placed.ops[i], place) = EventUnder(circuit.ops[i], place)
  BY <1>2 DEF EventUnder, WiresUnder
<1>6. TraceUnder(placed, numbers) = [i \in DOMAIN placed.ops |-> EventUnder(placed.ops[i], place)]
  BY <1>4 DEF TraceUnder
<1>7. TraceUnder(circuit, numbers) = [i \in DOMAIN circuit.ops |-> EventUnder(circuit.ops[i], place)]
  BY DEF TraceUnder
<1> HIDE DEF place
<1> QED
  BY <1>1, <1>5, <1>6, <1>7 DEF placed

LEMMA PlacedCarries ==
    ASSUME NEW circuit, NEW index, NEW numbers, Suited(circuit, numbers),
           IsCircuit(Placed(circuit, index)), CircuitVerifies(Placed(circuit, index))
    PROVE  Carries(circuit, Placed(circuit, index), numbers)
<1> DEFINE placed == Placed(circuit, index)
<1>1. IsCircuit(circuit) /\ CircuitVerifies(circuit) /\ circuit \in Circuit
  BY DEF Suited, Numbered, IsCircuit
<1>2. TraceUnder(placed, numbers) = TraceUnder(circuit, numbers)
  BY <1>1, PlacedTrace
<1>3. IsPlaced(circuit, index, placed)
  BY <1>1, PlacedParts
<1>s. IsCircuit(placed) /\ CircuitVerifies(placed)
  OBVIOUS
<1> HIDE DEF placed
<1>4. /\ DOMAIN placed.ops = DOMAIN circuit.ops /\ Len(placed.ops) = Len(circuit.ops)
      /\ \A i \in DOMAIN circuit.ops : /\ placed.ops[i].id = circuit.ops[i].id
                                       /\ placed.ops[i].gate = circuit.ops[i].gate
                                       /\ placed.ops[i].operands = circuit.ops[i].operands
  BY <1>3 DEF IsPlaced
<1>5. \A j \in DOMAIN placed.ops : ComesFrom(circuit, placed, numbers, j, j)
  BY <1>2, <1>4 DEF ComesFrom
<1>6. Bits(placed) = Bits(circuit)
  <2>1. Len(circuit.ops) \in DOMAIN circuit.ops
    BY <1>1, CircuitTyped DEF CircuitVerifies
  <2> QED
    BY <1>4, <2>1 DEF Bits
<1>7. Inherits(circuit, placed, numbers)
  BY <1>5, <1>6 DEF Inherits
<1>8. Measured(placed, numbers) = Measured(circuit, numbers)
  BY <1>1, <1>s, <1>7, SameMeasured
<1>9. BehaviourOf(placed, numbers) = BehaviourOf(circuit, numbers)
  BY <1>2 DEF BehaviourOf
<1> QED
  BY <1>8, <1>9, CarriesSame DEF placed

-----------------------------------------------------------------------------
(***************************************************************************)
(* Reordering: whatever numbers the allocations have, the trace goes with  *)
(* the operations.                                                         *)
(***************************************************************************)
LEMMA AppliedEvent ==
    ASSUME NEW circuit, NEW ord, NEW u, Reordering(circuit, ord, u), NEW new, IsApplied(circuit, ord, u, new),
           NEW index, NEW m \in 1..Len(circuit.ops)
    PROVE  TraceUnder(new, index)[m] = TraceUnder(circuit, index)[ord[m]]
<1> DEFINE p == Physical(circuit)
           a == TraceUnder(circuit, index)[ord[m]].qubits
           b == TraceUnder(new, index)[m].qubits
           x == TraceUnder(circuit, p)[ord[m]].qubits
           y == TraceUnder(new, p)[m].qubits
           old == circuit.ops[ord[m]]
           now == new.ops[m]
<1>1. /\ IsCircuit(circuit) /\ OperandsDefined(circuit) /\ IsCircuit(new) /\ OperandsDefined(new)
      /\ AllocIds(new) = AllocIds(circuit)
      /\ m \in DOMAIN new.ops /\ ord[m] \in DOMAIN circuit.ops
  <2>1. IsCircuit(circuit) /\ OperandsDefined(circuit)
    BY DEF Reordering, MappedCircuit, CircuitVerifies
  <2>2. IsCircuit(new) /\ AllocIds(new) = AllocIds(circuit)
    BY AppliedParts
  <2>3. OperandsDefined(new)
    BY AppliedDefined
  <2>4. m \in DOMAIN new.ops /\ ord[m] \in DOMAIN circuit.ops
    BY AppliedOps
  <2> QED
    BY <2>1, <2>2, <2>3, <2>4
<1>2. now.gate = old.gate /\ now.angle = old.angle /\ now.notes = old.notes /\ now.qubits = old.qubits
  <2>1. IsBound(circuit, ord, u, m, now)
    BY DEF IsApplied
  <2> QED
    BY <2>1 DEF IsBound
<1>3. y = x
  <2>1. BuildTrace(new)[m] = u[m]
    BY AppliedTrace
  <2>2. u[m] = BuildTrace(circuit)[ord[m]]
    BY DEF Reordering, FencedOrder
  <2>3. Physical(new) = p
    BY AppliedParts
  <2> QED
    BY <2>1, <2>2, <2>3 DEF BuildTrace
<1>4. \A c, d \in AllocIds(circuit) : p[c] = p[d] => c = d
  <2>1. Numbered(circuit, p)
    BY MappedNumbered DEF Reordering
  <2> QED
    BY <2>1 DEF Numbered
<1> HIDE DEF p
<1>5. b = a
  <2>1. CASE old.gate \in Gates \cup Ending \cup {"alloc"}
    <3>1. /\ DOMAIN x = DOMAIN a
          /\ \A k \in DOMAIN x : NamedBy(circuit, p, index, x[k], a[k])
      BY <1>1, <2>1, WireNamed
    <3>2. /\ DOMAIN y = DOMAIN b
          /\ \A k \in DOMAIN y : NamedBy(new, p, index, y[k], b[k])
      BY <1>1, <1>2, <2>1, WireNamed
    <3>3. a = [k \in DOMAIN a |-> a[k]] /\ b = [k \in DOMAIN b |-> b[k]]
      BY <1>1, <1>2, <2>1, WiresListed
    <3> HIDE DEF a, b, x, y
    <3>4. ASSUME NEW k \in DOMAIN x
          PROVE  b[k] = a[k]
      <4>1. PICK c \in AllocIds(circuit) : x[k] = p[c] /\ a[k] = index[c]
        BY <3>1 DEF NamedBy
      <4>2. k \in DOMAIN y
        BY <1>3
      <4>3. PICK d \in AllocIds(new) : y[k] = p[d] /\ b[k] = index[d]
        BY <3>2, <4>2 DEF NamedBy
      <4>4. d \in AllocIds(circuit) /\ p[d] = p[c]
        BY <1>1, <1>3, <4>1, <4>3
      <4> QED
        BY <1>4, <4>1, <4>3, <4>4
    <3> QED
      BY <1>3, <3>1, <3>2, <3>3, <3>4
  <2>2. CASE old.gate \in {"barrier", "output"}
    <3>1. /\ OnWires(circuit, Placement(circuit, index), ord[m], TraceUnder(circuit, index)[ord[m]])
          /\ OnWires(new, Placement(new, index), m, TraceUnder(new, index)[m])
      BY <1>1, TraceOnWires
    <3>2. (old.gate = "barrier" => a = old.qubits) /\ (old.gate = "output" => a = <<>>)
      BY <3>1 DEF OnWires
    <3>3. (now.gate = "barrier" => b = now.qubits) /\ (now.gate = "output" => b = <<>>)
      BY <3>1 DEF OnWires
    <3> HIDE DEF a, b, old, now
    <3> QED
      BY <1>2, <2>2, <3>2, <3>3
  <2>3. old.gate \in Gates \cup Effects
    BY <1>1, CircuitTyped DEF IsCircuit, Op
  <2> QED
    BY <2>1, <2>2, <2>3 DEF Effects, Ending
<1> QED
  BY <1>1, <1>2, <1>5, SameEvent

LEMMA AppliedCarries ==
    ASSUME NEW circuit, MappedCircuit(circuit), NEW order \in OrdersWithin(BuildTrace(circuit)),
           NEW new, IsApplied(circuit, order, Rearranged(BuildTrace(circuit), order), new),
           CircuitVerifies(new), NEW index, Suited(circuit, index)
    PROVE  Carries(circuit, new, index)
<1> DEFINE n == Len(circuit.ops)
           t == BuildTrace(circuit)
           r == Rearranged(t, order)
           u == TraceUnder(circuit, index)
           v == TraceUnder(new, index)
<1>1. Reordering(circuit, order, r)
  BY OrderReorders
<1>2. /\ n \in Nat /\ DOMAIN circuit.ops = 1..n /\ n > 0 /\ IsCircuit(circuit)
      /\ DOMAIN new.ops = 1..n /\ Len(new.ops) = n /\ IsCircuit(new)
      /\ \A m \in 1..n : /\ order[m] \in 1..n /\ new.ops[m].id = circuit.ops[order[m]].id
                         /\ new.ops[m].gate = circuit.ops[order[m]].gate
  <2>1. /\ n \in Nat /\ DOMAIN circuit.ops = 1..n /\ DOMAIN new.ops = 1..n
        /\ \A m \in 1..n : /\ order[m] \in 1..n /\ new.ops[m].id = circuit.ops[order[m]].id
                           /\ new.ops[m].gate = circuit.ops[order[m]].gate
    BY <1>1, AppliedOps
  <2>2. IsCircuit(new) /\ Len(new.ops) = n
    BY <1>1, AppliedParts
  <2>3. IsCircuit(circuit) /\ n > 0
    BY DEF MappedCircuit, CircuitVerifies
  <2> QED
    BY <2>1, <2>2, <2>3
<1>3. \A m \in 1..n : v[m] = u[order[m]]
  BY <1>1, AppliedEvent
<1>4. ASSUME NEW j \in DOMAIN new.ops
      PROVE  ComesFrom(circuit, new, index, order[j], j)
  BY <1>2, <1>3 DEF ComesFrom
<1>5. Bits(new) = Bits(circuit)
  <2>1. n \in 1..n
    BY <1>2
  <2>2. (r[n].gate = "output") = (n = n) /\ (n = n => order[n] = n)
    BY <1>1, <2>1, OutputLast
  <2>3. IsBound(circuit, order, r, n, new.ops[n])
    BY <2>1 DEF IsApplied
  <2>4. circuit.ops[n].gate = "output"
    BY <1>2, <2>1 DEF MappedCircuit, CircuitVerifies
  <2>5. circuit.ops[n].gate \notin Gates \cup Ending
    BY <2>4 DEF Gates, Ending
  <2>6. new.ops[n].operands = circuit.ops[n].operands
    BY <2>2, <2>3, <2>5 DEF IsBound
  <2> QED
    BY <1>2, <2>6 DEF Bits
<1>6. Measured(new, index) = Measured(circuit, index)
  <2>1. Inherits(circuit, new, index)
    BY <1>4, <1>5 DEF Inherits
  <2> QED
    BY <1>2, <2>1, SameMeasured
<1>7. BehaviourOf(new, index) = BehaviourOf(circuit, index)
  <2>1. DOMAIN t = 1..n
    BY TraceOfMapped
  <2>2. u = [i \in 1..n |-> u[i]] /\ v = [i \in 1..n |-> v[i]]
    BY <1>2 DEF TraceUnder
  <2>3. AllMeant(u, n)
    BY SuitedTrace
  <2>4. MayPass(t, u, n)
    BY SuitedPass
  <2> HIDE DEF u, v, t, n
  <2>5. ReachedOrder(t, u, n, order)
    BY <1>2, <2>1, <2>2, <2>3, <2>4, OrdersBehave DEF t
  <2>6. Reorder(u, order, n) = v
    BY <1>3, <2>2 DEF Reorder
  <2>7. Behaviour(v) = Behaviour(u)
    BY <2>5, <2>6 DEF ReachedOrder
  <2> QED
    BY <2>7 DEF BehaviourOf, u, v
<1> QED
  BY <1>6, <1>7, CarriesSame

-----------------------------------------------------------------------------
(***************************************************************************)
(* Along a command line: every circuit behaves as the one it was parsed    *)
(* from, with some pairs of H less.                                        *)
(***************************************************************************)
BehavesLike(parsed, circuit) ==
    LET index == IdentityPlacement(parsed)
    IN  /\ Measured(circuit, index) = Measured(parsed, index)
        /\ BehaviourOf(parsed, index) \in Done /\ BehaviourOf(circuit, index) \in Done
        /\ \E k \in Nat : Doubled(BehaviourOf(parsed, index), BehaviourOf(circuit, index), k)

Behaving ==
    /\ input \in Inputs
    /\ at = 0 => module = input
    /\ \A c \in DOMAIN module : Angled(module[c])
    /\ at > 0 => \A c \in DOMAIN module : BehavesLike(input[c], module[c])

LEMMA LikeCarries ==
    ASSUME NEW parsed, NEW old, NEW new, BehavesLike(parsed, old), Carries(old, new, IdentityPlacement(parsed))
    PROVE  BehavesLike(parsed, new)
<1> DEFINE index == IdentityPlacement(parsed)
           a == BehaviourOf(parsed, index)
           b == BehaviourOf(old, index)
           c == BehaviourOf(new, index)
<1>1. Measured(new, index) = Measured(parsed, index) /\ a \in Done /\ b \in Done /\ c \in Done
  BY DEF BehavesLike, Carries
<1>2. PICK k \in Nat : Doubled(a, b, k)
  BY DEF BehavesLike
<1>3. PICK j \in {0, 1} : Doubled(b, c, j)
  BY DEF Carries
<1> HIDE DEF a, b, c
<1>4. Doubled(a, c, k + j) /\ k + j \in Nat
  BY <1>1, <1>2, <1>3, DoubledMore
<1> QED
  BY <1>1, <1>4 DEF BehavesLike, a, c

LEMMA LikeSame ==
    ASSUME NEW parsed, NEW circuit, BehavesLike(parsed, circuit)
    PROVE  LET index == IdentityPlacement(parsed)
           IN  /\ Measured(circuit, index) = Measured(parsed, index)
               /\ SameBehaviour(BehaviourOf(parsed, index), BehaviourOf(circuit, index))
<1> DEFINE index == IdentityPlacement(parsed)
           a == BehaviourOf(parsed, index)
           b == BehaviourOf(circuit, index)
<1>1. Measured(circuit, index) = Measured(parsed, index) /\ a \in Done /\ b \in Done
  BY DEF BehavesLike
<1>2. PICK k \in Nat : Doubled(a, b, k)
  BY DEF BehavesLike
<1> HIDE DEF a, b
<1>3. a.halves = b.halves + 2 * k /\ a.matrix = Scaled(TwoTo(k), b.matrix)
  BY <1>2 DEF Doubled
<1>4. a.halves \in Nat /\ b.halves \in Nat
  BY <1>1 DEF Done
<1>5. k \in 0..(a.halves \div 2)
  <2>1. 2 * k <= a.halves
    BY <1>3, <1>4
  <2> QED
    BY <1>4, <2>1
<1>6. SameBehaviour(a, b)
  BY <1>3, <1>5 DEF SameBehaviour
<1> QED
  BY <1>1, <1>6 DEF a, b

\* The wires of a module's circuits are those of the circuits they descend from.
LEMMA PlacementBound ==
    ASSUME NEW circuit, IsCircuit(circuit), NEW id \in AllocIds(circuit)
    PROVE  /\ Cardinality(Allocs(circuit)) \in Nat
           /\ IdentityPlacement(circuit)[id] \in 0..(Cardinality(Allocs(circuit)) - 1)
<1> DEFINE P == Allocs(circuit)
<1>1. P \in SUBSET Int /\ IsFiniteSet(P) /\ P \subseteq DOMAIN circuit.ops
  <2>1. DOMAIN circuit.ops = 1..Len(circuit.ops) /\ Len(circuit.ops) \in Nat
    BY CircuitTyped DEF IsCircuit
  <2>2. P \subseteq 1..Len(circuit.ops) /\ IsFiniteSet(1..Len(circuit.ops))
    BY <2>1, FS_Interval DEF Allocs
  <2> QED
    BY <2>1, <2>2, FS_Subset
<1>2. PICK i \in DOMAIN circuit.ops : circuit.ops[i].gate = "alloc" /\ circuit.ops[i].id = id
  BY DEF AllocIds, ToSet
<1>3. i \in P /\ Position(circuit, id) = i
  BY <1>2, PositionIs DEF Allocs
<1>4. IdentityPlacement(circuit)[id] = Rank(P, Position(circuit, id))
  BY DEF IdentityPlacement
<1> HIDE DEF P
<1>5. Rank(P, i) \in 0..(Cardinality(P) - 1)
  BY <1>1, <1>3, RankBound
<1>6. Cardinality(P) \in Nat
  BY <1>1, FS_CardinalityType
<1> QED
  BY <1>3, <1>4, <1>5, <1>6, Zenon DEF P

LEMMA DescendsSuited ==
    ASSUME NEW parsed, NEW circuit, Descends(parsed, circuit), CircuitVerifies(circuit), Angled(circuit),
           FitsRegister(parsed)
    PROVE  Suited(circuit, IdentityPlacement(parsed))
<1> DEFINE index == IdentityPlacement(parsed)
           n == Cardinality(Allocs(parsed))
<1>1. IsCircuit(parsed) /\ IsCircuit(circuit) /\ AllocIds(circuit) = AllocIds(parsed)
  BY DEF Descends
<1>2. \A a, b \in AllocIds(circuit) : index[a] = index[b] => a = b
  BY <1>1, PlacementNumbers
<1>3. Numbered(circuit, index)
  BY <1>1, <1>2 DEF Numbered
<1>4. ASSUME NEW id \in AllocIds(circuit)
      PROVE  index[id] \in Register
  <2>1. n \in Nat /\ index[id] \in 0..(n - 1)
    BY <1>1, PlacementBound
  <2>2. n <= WireCount /\ WireCount \in Nat
    BY MatrixAssumption DEF FitsRegister
  <2> HIDE DEF n, index
  <2> QED
    BY <2>1, <2>2 DEF Register
<1> QED
  BY <1>3, <1>4 DEF Suited

LEMMA ModuleSuited ==
    ASSUME Held, Behaving, Verifies(module), NEW c \in DOMAIN module
    PROVE  Suited(module[c], IdentityPlacement(input[c]))
<1>1. Descends(input[c], module[c]) /\ c \in DOMAIN input
  BY DEF Held, Shaped
<1>2. FitsRegister(input[c])
  BY <1>1, PassAssumption DEF Behaving
<1>3. CircuitVerifies(module[c]) /\ Angled(module[c])
  BY DEF Verifies, Behaving
<1> QED
  BY <1>1, <1>2, <1>3, DescendsSuited

\* The angles are those that were parsed.
LEMMA AngledFrom ==
    ASSUME NEW old, Angled(old), NEW new,
           \A j \in DOMAIN new.ops : \E i \in DOMAIN old.ops :
              new.ops[j].gate = old.ops[i].gate /\ new.ops[j].angle = old.ops[i].angle
    PROVE  Angled(new)
<1> SUFFICES ASSUME NEW j \in DOMAIN new.ops, new.ops[j].gate = "rz"
             PROVE  \E angle \in DOMAIN Phases : new.ops[j].angle = {angle}
  BY DEF Angled
<1>1. PICK i \in DOMAIN old.ops : new.ops[j].gate = old.ops[i].gate /\ new.ops[j].angle = old.ops[i].angle
  OBVIOUS
<1> QED
  BY <1>1 DEF Angled

LEMMA BehavingInit == Init => Behaving
<1> SUFFICES ASSUME Init
             PROVE  Behaving
  OBVIOUS
<1>1. input \in Inputs /\ module = input /\ at = 0
  BY DEF Init
<1>2. ASSUME NEW c \in DOMAIN module
      PROVE  Angled(module[c])
  <2>1. FitsRegister(module[c])
    BY <1>1, PassAssumption
  <2> QED
    BY <2>1 DEF FitsRegister, Angled, ToSet
<1> QED
  BY <1>1, <1>2 DEF Behaving

\* A module that carries over what the one before did.
LEMMA BehavingChange ==
    ASSUME Held, Behaving, at > 0, UNCHANGED <<input, at>>, DOMAIN module' = DOMAIN module,
           \A c \in DOMAIN module : /\ Angled(module'[c])
                                    /\ \/ module'[c] = module[c]
                                       \/ Carries(module[c], module'[c], IdentityPlacement(input[c]))
    PROVE  Behaving'
<1>1. input' \in Inputs /\ ~(at' = 0)
  <2>1. at \in Nat
    BY DEF Held, Shaped
  <2>2. at # 0
    BY <2>1
  <2> QED
    BY <2>2 DEF Behaving
<1>2. ASSUME NEW c \in DOMAIN module
      PROVE  BehavesLike(input'[c], module'[c])
  <2>1. BehavesLike(input[c], module[c])
    BY DEF Behaving
  <2> QED
    BY <2>1, LikeCarries
<1> QED
  BY <1>1, <1>2 DEF Behaving

LEMMA BehavingCancel == ASSUME Held, Behaving, Cancel PROVE Behaving'
<1>1. /\ at > 0 /\ Verifies(module) /\ UNCHANGED <<input, at>>
  BY CancelIs
<1>2. PICK c, i : CancelledAt(c, i)
  BY CancelIs
<1>3. /\ c \in DOMAIN module /\ DOMAIN module' = DOMAIN module
      /\ Pair(module[c], i) /\ IsCancelled(module[c], i, module'[c])
      /\ \A d \in DOMAIN module : d # c => module'[d] = module[d]
  BY <1>2 DEF CancelledAt
<1>4. Suited(module[c], IdentityPlacement(input[c]))
  BY <1>1, <1>3, ModuleSuited
<1>5. Carries(module[c], module'[c], IdentityPlacement(input[c]))
  BY <1>3, <1>4, CancelledCarries
<1>6. \A d \in DOMAIN module : Angled(module[d])
  BY DEF Behaving
<1>7. Angled(module'[c])
  <2> DEFINE old == module[c]
             new == module'[c]
             n == Len(old.ops)
  <2>1. /\ n \in Nat /\ DOMAIN old.ops = 1..n /\ DOMAIN new.ops = 1..(n - 2) /\ i \in 1..(n - 1)
    BY <1>3, CancelledPair
  <2>2. ASSUME NEW j \in DOMAIN new.ops
        PROVE  \E l \in DOMAIN old.ops : new.ops[j].gate = old.ops[l].gate /\ new.ops[j].angle = old.ops[l].angle
    <3>1. j \in 1..(n - 2)
      BY <2>1
    <3>2. Kept(i, j) \in 1..n
      BY <2>1, <3>1, KeptIs
    <3>3. new.ops[j].gate = old.ops[Kept(i, j)].gate /\ new.ops[j].angle = old.ops[Kept(i, j)].angle
      BY <1>3, <3>1 DEF IsCancelled
    <3> QED
      BY <2>1, <3>2, <3>3
  <2>3. Angled(old)
    BY <1>3, <1>6
  <2> HIDE DEF old, new
  <2>4. Angled(new)
    BY <2>2, <2>3, AngledFrom
  <2> QED
    BY <2>4 DEF new
<1>8. ASSUME NEW d \in DOMAIN module
      PROVE  /\ Angled(module'[d])
             /\ \/ module'[d] = module[d]
                \/ Carries(module[d], module'[d], IdentityPlacement(input[d]))
  <2>1. CASE d = c
    BY <1>5, <1>7, <2>1
  <2>2. CASE d # c
    BY <1>3, <1>6, <2>2
  <2> QED
    BY <2>1, <2>2
<1> QED
  BY <1>1, <1>3, <1>8, BehavingChange

LEMMA BehavingMap == ASSUME Held, Behaving, MapIdentity PROVE Behaving'
<1>1. at > 0 /\ Verifies(module) /\ UNCHANGED <<input, at>>
  BY DEF Held, Shaped, MapIdentity, Running, Becomes, command
<1>2. Held'
  BY HeldMapIdentity
<1>3. module' = [c \in DOMAIN module |-> Placed(module[c], Candidate(c))]
  BY DEF MapIdentity, Becomes
<1>4. DOMAIN module' = DOMAIN module
  BY <1>3
<1>5. Verifies(module') /\ \A c \in DOMAIN module : IsCircuit(module'[c])
  BY <1>1, <1>2, <1>4 DEF Held, Shaped, Descends, Verifies
<1>6. ASSUME NEW c \in DOMAIN module
      PROVE  /\ Angled(module'[c])
             /\ Carries(module[c], module'[c], IdentityPlacement(input[c]))
  <2> DEFINE old == module[c]
             index == Candidate(c)
             new == Placed(old, index)
  <2>1. module'[c] = new
    BY <1>3
  <2>2. IsCircuit(new) /\ CircuitVerifies(new)
    BY <1>4, <1>5, <2>1 DEF Verifies
  <2>3. Suited(old, IdentityPlacement(input[c]))
    BY <1>1, ModuleSuited
  <2> HIDE DEF index, old
  <2>4. Carries(old, new, IdentityPlacement(input[c]))
    BY <2>2, <2>3, PlacedCarries
  <2>5. IsPlaced(old, index, new)
    <3>1. old \in Circuit
      BY <2>3 DEF Suited, Numbered, IsCircuit
    <3> QED
      BY <3>1, PlacedParts
  <2>6. Angled(old)
    BY DEF Behaving, old
  <2> HIDE DEF new
  <2>7. \A j \in DOMAIN new.ops : \E i \in DOMAIN old.ops :
           new.ops[j].gate = old.ops[i].gate /\ new.ops[j].angle = old.ops[i].angle
    BY <2>5 DEF IsPlaced
  <2>8. Angled(new)
    BY <2>6, <2>7, AngledFrom
  <2> QED
    BY <2>1, <2>4, <2>8 DEF old
<1> QED
  BY <1>1, <1>4, <1>6, BehavingChange

LEMMA BehavingMitigate == ASSUME Held, Behaving, QRiskMitigate PROVE Behaving'
<1>1. at > 0 /\ TargetVerifies /\ Verifies(module)
  BY DEF Held, Shaped, QRiskMitigate, Running
<1>2. PICK plan \in Plans :
          IF Sound(plan) THEN Becomes([c \in DOMAIN module |-> plan[c].circuit]) ELSE Fails
  BY DEF QRiskMitigate
<1>3. Becomes([c \in DOMAIN module |-> plan[c].circuit])
  BY <1>1, <1>2, PlanSound
<1>4. /\ UNCHANGED <<input, at>> /\ DOMAIN module' = DOMAIN module
      /\ \A c \in DOMAIN module : module'[c] = plan[c].circuit
  BY <1>3 DEF Becomes, command
<1>5. ASSUME NEW c \in DOMAIN module
      PROVE  /\ Angled(module'[c])
             /\ Carries(module[c], module'[c], IdentityPlacement(input[c]))
  <2> DEFINE old == module[c]
             new == plan[c].circuit
             t == BuildTrace(old)
             applied == plan[c]
  <2>1. MappedCircuit(old)
    BY <1>1 DEF Held, Shaped, Descends, TargetVerifies, Verifies, MappedCircuit
  <2>2. PICK order \in OrdersWithin(t) : applied = ApplyOrder(old, t, order)
    BY DEF Plans, Applied
  <2>3. Suited(old, IdentityPlacement(input[c])) /\ Angled(old)
    BY <1>1, ModuleSuited DEF Behaving
  <2>4. CircuitVerifies(new)
    BY <1>1, PlanApplied DEF MappedCircuit
  <2>5. module'[c] = new
    BY <1>4
  <2> HIDE DEF old, applied
  <2>6. IsApplied(old, order, Rearranged(t, order), applied.circuit)
    BY <2>1, <2>2, AppliedIs
  <2>7. Reordering(old, order, Rearranged(t, order))
    BY <2>1, <2>2, OrderReorders
  <2>8. IsApplied(old, order, Rearranged(t, order), new)
    BY <2>6 DEF applied
  <2> HIDE DEF new
  <2>9. Carries(old, new, IdentityPlacement(input[c]))
    BY <2>1, <2>2, <2>3, <2>4, <2>8, AppliedCarries
  <2>10. \A j \in DOMAIN new.ops : \E i \in DOMAIN old.ops :
            new.ops[j].gate = old.ops[i].gate /\ new.ops[j].angle = old.ops[i].angle
    <3> TAKE j \in DOMAIN new.ops
    <3>1. /\ DOMAIN old.ops = 1..Len(old.ops) /\ j \in 1..Len(old.ops) /\ order[j] \in 1..Len(old.ops)
      BY <2>7, <2>8, AppliedOps
    <3>2. IsBound(old, order, Rearranged(t, order), j, new.ops[j])
      BY <2>8, <3>1 DEF IsApplied
    <3>3. new.ops[j].gate = old.ops[order[j]].gate /\ new.ops[j].angle = old.ops[order[j]].angle
      BY <3>2 DEF IsBound
    <3> QED
      BY <3>1, <3>3
  <2>11. Angled(new)
    BY <2>3, <2>10, AngledFrom
  <2> QED
    BY <2>5, <2>9, <2>11 DEF old
<1> QED
  BY <1>1, <1>4, <1>5, BehavingChange

LEMMA BehavingVerify == ASSUME Held, Behaving, Verify PROVE Behaving'
<1>1. /\ Verifies(module) /\ module' = module /\ input' = input /\ at' = at + 1 /\ at \in Nat
      /\ DOMAIN input = DOMAIN module
  BY DEF Verify, command, Held, Shaped
<1>2. at' > 0 /\ ~(at' = 0)
  BY <1>1
<1>3. ASSUME NEW c \in DOMAIN module
      PROVE  BehavesLike(input[c], module[c])
  <2>1. CASE at = 0
    <3> DEFINE index == IdentityPlacement(input[c])
               a == BehaviourOf(module[c], index)
    <3>1. input[c] = module[c]
      BY <2>1 DEF Behaving
    <3>2. Suited(module[c], index)
      BY <1>1, ModuleSuited
    <3>3. a \in Done
      BY <3>2, SuitedTrace, BehaviourDone DEF BehaviourOf
    <3>4. Doubled(a, a, 0)
      BY <3>3, DoubledNone
    <3> HIDE DEF a
    <3>5. \E k \in Nat : Doubled(a, a, k)
      BY <3>4
    <3> QED
      BY <3>1, <3>3, <3>5 DEF BehavesLike, a
  <2>2. CASE at # 0
    BY <1>1, <2>2 DEF Behaving
  <2> QED
    BY <2>1, <2>2
<1> QED
  BY <1>1, <1>2, <1>3 DEF Behaving

LEMMA BehavingNext == ASSUME Held, Behaving, [Next]_vars PROVE Behaving'
<1>1. CASE UNCHANGED <<input, module, at>>
  BY <1>1 DEF Behaving
<1>2. \/ Verify \/ Cancel \/ MapIdentity \/ QRiskMitigate \/ UNCHANGED <<input, module, at>>
  BY DEF Next, vars, command, VerifyFails, LogicalOpt, LogicalOptRefuses, RewritesDone, RewritesGivenUp,
     MapIdentityRefuses, VerifyTarget, VerifyTargetFails, QRiskMitigateRefuses, Fails, Becomes
<1> QED
  BY <1>1, <1>2, BehavingVerify, BehavingCancel, BehavingMap, BehavingMitigate

\* Cancelling, placing and reordering keep the ideal behaviour, for circuits of
\* any size and whatever pairs are cancelled and moves are made: the gates left
\* have the matrix of those that were parsed, phase included, but for a factor
\* two for each pair of H cancelled, and the output has the bits of the same wires.
THEOREM IdealBehaviourAlwaysKept == Spec => []IdealBehaviourKept
<1>1. Init => Held /\ Behaving
  BY HeldInit, BehavingInit
<1>2. Held /\ Behaving /\ [Next]_vars => (Held /\ Behaving)'
  BY HeldNext, BehavingNext
<1>3. Behaving => IdealBehaviourKept
  <2> SUFFICES ASSUME Behaving, at > 0, NEW c \in DOMAIN module
               PROVE  LET index == IdentityPlacement(input[c])
                      IN  /\ Measured(module[c], index) = Measured(input[c], index)
                          /\ SameBehaviour(BehaviourOf(input[c], index), BehaviourOf(module[c], index))
    BY DEF IdealBehaviourKept, Parsed
  <2>1. BehavesLike(input[c], module[c])
    BY DEF Behaving
  <2> QED
    BY <2>1, LikeSame
<1> QED
  BY <1>1, <1>2, <1>3, PTL DEF Spec

-----------------------------------------------------------------------------
(***************************************************************************)
(* The whitelist, for every pair of gates.                                 *)
(***************************************************************************)
\* "These identities commute exactly, including phase, for all input states":
\* on a register of any number of wires and for any table of angles, the two
\* gates of every pair the whitelist of QRiskPasses.cpp accepts have the same
\* matrix in either order.
THEOREM WhitelistAlwaysSound == Spec => []CommutesSound
<1>1. WhitelistExact
  <2> SUFFICES ASSUME NEW a \in GateEvents, NEW b \in GateEvents, Commutes(a, b, FALSE)
               PROVE  CommuteExactly(a, b)
    BY DEF WhitelistExact, Whitelist, CommutingPairs, PairsOfGates
  <2> QED
    BY WhitelistedCommute, MatrixIs, IdentityType DEF CommuteExactly
<1>2. CommutesSound
  BY <1>1 DEF CommutesSound
<1> QED
  BY <1>2, PTL

\* The whitelist answers the same for a pair of gates either way round, and
\* what it accepts with the diagonal rules alone it accepts with all of them.
THEOREM WhitelistAlwaysSymmetric == Spec => []CommutesSymmetric
<1>1. ASSUME NEW d \in BOOLEAN, NEW a \in GateEvents, NEW b \in GateEvents
      PROVE  Commutes(a, b, d) = Commutes(b, a, d)
  BY DEF Commutes, Disjoint
<1>2. ASSUME NEW d \in BOOLEAN, NEW p \in Whitelist[d]
      PROVE  <<p[2], p[1]>> \in Whitelist[d]
  <2>1. /\ Whitelist[d] = {q \in PairsOfGates : Commutes(q[1], q[2], d)}
        /\ p[1] \in GateEvents /\ p[2] \in GateEvents /\ Commutes(p[1], p[2], d)
    BY DEF Whitelist, PairsOfGates
  <2>2. <<p[2], p[1]>> \in PairsOfGates /\ Commutes(p[2], p[1], d)
    BY <1>1, <2>1 DEF PairsOfGates
  <2> QED
    BY <2>1, <2>2
<1>3. Whitelist[TRUE] \subseteq Whitelist[FALSE]
  <2>1. \A a, b \in GateEvents : Commutes(a, b, TRUE) => Commutes(a, b, FALSE)
    BY DEF Commutes
  <2> QED
    BY <2>1 DEF Whitelist, PairsOfGates
<1>4. CommutesSymmetric
  BY <1>2, <1>3 DEF CommutesSymmetric, WhitelistSymmetric
<1> QED
  BY <1>4, PTL
=============================================================================
