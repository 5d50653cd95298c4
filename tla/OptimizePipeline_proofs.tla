----------------------- MODULE OptimizePipeline_proofs -----------------------
(***************************************************************************)
(* What optimize_compiled_circuit guarantees of a circuit it returns, for  *)
(* every circuit, Target, catalog and option, and whatever the compiler    *)
(* did: the exporter's epochs alone keep every instruction on its side of  *)
(* every barrier and measurement.                                          *)
(***************************************************************************)
EXTENDS OptimizePipeline, QRiskTrace_proofs

Item == [source_index : Int, instruction : Instruction]

-----------------------------------------------------------------------------
(***************************************************************************)
(* Epochs.                                                                 *)
(***************************************************************************)
FencesBefore(circuit, i) == {j \in 1..(i - 1) : circuit[j].gate \in Fences}

LEMMA EpochType ==
    ASSUME NEW circuit, NEW i \in Nat
    PROVE  /\ IsFiniteSet(FencesBefore(circuit, i))
           /\ Epoch(circuit, i) = Cardinality(FencesBefore(circuit, i))
           /\ Epoch(circuit, i) \in Nat
<1>1. IsFiniteSet(1..(i - 1))
  BY FS_Interval
<1>2. IsFiniteSet(FencesBefore(circuit, i))
  BY <1>1, FS_Subset DEF FencesBefore
<1> QED
  BY <1>2, FS_CardinalityType DEF Epoch, FencesBefore

LEMMA EpochMonotone ==
    ASSUME NEW circuit, NEW i \in Nat, NEW j \in Nat, i <= j
    PROVE  Epoch(circuit, i) <= Epoch(circuit, j)
<1>1. FencesBefore(circuit, i) \subseteq FencesBefore(circuit, j)
  BY DEF FencesBefore
<1> QED
  BY <1>1, EpochType, FS_Subset

\* A fence ends the epoch it is in.
LEMMA EpochIncreases ==
    ASSUME NEW circuit, NEW i \in Nat \ {0}, NEW j \in Nat, i < j, circuit[i].gate \in Fences
    PROVE  Epoch(circuit, i) < Epoch(circuit, j)
<1>1. FencesBefore(circuit, i) \subseteq FencesBefore(circuit, j)
  BY DEF FencesBefore
<1>2. i \in FencesBefore(circuit, j) /\ i \notin FencesBefore(circuit, i)
  BY DEF FencesBefore
<1>3. /\ Cardinality(FencesBefore(circuit, i)) <= Cardinality(FencesBefore(circuit, j))
      /\ Cardinality(FencesBefore(circuit, i)) = Cardinality(FencesBefore(circuit, j))
            => FencesBefore(circuit, i) = FencesBefore(circuit, j)
  BY <1>1, EpochType, FS_Subset
<1> QED
  BY <1>2, <1>3, EpochType

\* Instructions that keep their epochs keep their order with every fence.
LEMMA EpochsOrderFences ==
    ASSUME NEW n \in Nat, NEW circuit, NEW order \in [1..n -> 1..n], NEW moved,
           \A i, j \in 1..n : order[i] = order[j] => i = j,
           \A i \in 1..n : moved[i].gate = circuit[order[i]].gate,
           \A i \in 1..n : Epoch(circuit, order[i]) = Epoch(moved, i),
           NEW a \in 1..n, NEW b \in 1..n, a < b,
           moved[a].gate \in Fences \/ moved[b].gate \in Fences
    PROVE  order[a] < order[b]
<1>1. /\ order[a] \in 1..n /\ order[b] \in 1..n /\ order[a] # order[b]
  OBVIOUS
<1>2. /\ Epoch(circuit, order[a]) \in Nat /\ Epoch(circuit, order[b]) \in Nat
      /\ Epoch(circuit, order[a]) = Epoch(moved, a)
      /\ Epoch(circuit, order[b]) = Epoch(moved, b)
  BY <1>1, EpochType
<1>3. CASE moved[a].gate \in Fences
  <2>1. Epoch(moved, a) < Epoch(moved, b)
    <3>1. a \in Nat \ {0} /\ b \in Nat /\ a < b
      OBVIOUS
    <3> QED
      BY ONLY <1>3, <3>1, EpochIncreases
  <2>2. ASSUME order[b] <= order[a]
        PROVE  FALSE
    <3>1. order[b] \in Nat /\ order[a] \in Nat
      BY ONLY <1>1, n \in Nat
    <3>2. Epoch(circuit, order[b]) <= Epoch(circuit, order[a])
      BY ONLY <2>2, <3>1, EpochMonotone
    <3> QED
      BY <1>2, <2>1, <3>2
  <2> QED
    BY <1>1, <2>2
<1>4. CASE moved[b].gate \in Fences
  <2>1. Epoch(moved, a) <= Epoch(moved, b)
    BY EpochMonotone
  <2>2. circuit[order[b]].gate \in Fences
    BY <1>4
  <2>3. ASSUME order[b] < order[a]
        PROVE  FALSE
    <3>1. order[b] \in Nat \ {0} /\ order[a] \in Nat
      BY ONLY <1>1, n \in Nat
    <3>2. Epoch(circuit, order[b]) < Epoch(circuit, order[a])
      BY ONLY <2>2, <2>3, <3>1, EpochIncreases
    <3> QED
      BY <1>2, <2>1, <3>2
  <2> QED
    BY <1>1, <2>3
<1> QED
  BY <1>3, <1>4

-----------------------------------------------------------------------------
(***************************************************************************)
(* The invariant: the snapshot was importable, and from the export on the  *)
(* output is the payload that passed its checks.                           *)
(***************************************************************************)
Snapshot ==
    /\ caller \in Calls \cup Edits
    /\ source \in Seq(Instruction)
    /\ Importable(source)

PayloadType == payload.instructions \in Seq(Item)

OutputOfPayload ==
    phase \in {"exported", "validated", "returned"} =>
        /\ Reconstructs(payload)
        /\ output = [k \in DOMAIN payload.instructions |-> payload.instructions[k].source_index]

Inv == Snapshot /\ PayloadType /\ OutputOfPayload

LEMMA InvInit == Init => Inv
<1> SUFFICES ASSUME Init
             PROVE  Inv
  OBVIOUS
<1>1. source = <<>> /\ payload.instructions = <<>> /\ caller \in Calls
  BY DEF Init
<1>2. Snapshot
  BY <1>1 DEF Snapshot, Importable, TargetAccepts
<1> QED
  BY <1>1, <1>2 DEF Init, Inv, PayloadType, OutputOfPayload

\* What comes back from the compiler is a list of items, whatever else it is.
LEMMA OutcomesType ==
    ASSUME source \in Seq(Instruction), NEW r \in Outcomes
    PROVE  r.payload.instructions \in Seq(Item)
<1>1. Len(source) \in Nat /\ \A i \in 1..Len(source) : source[i] \in Instruction
  BY LenProperties, ElementOfSeq
<1>2. CASE Compiler = "contract"
  <2>1. r \in ContractOutcomes
    BY <1>2 DEF Outcomes
  <2>2. PICK o \in [1..Len(source) -> 1..Len(source)] :
               r.payload.instructions = Items(source, o)
    BY <2>1 DEF ContractOutcomes
  <2>3. Len(o) = Len(source)
    BY <1>1
  <2>4. \A k \in 1..Len(source) : [source_index |-> o[k], instruction |-> source[o[k]]] \in Item
    BY <1>1 DEF Item
  <2>5. Items(source, o) \in [1..Len(source) -> Item]
    BY <2>3, <2>4 DEF Items
  <2> QED
    BY <1>1, <2>2, <2>5
<1>3. CASE Compiler # "contract"
  <2>1. r \in ArbitraryOutcomes
    BY <1>3 DEF Outcomes
  <2> DEFINE items == [source_index : 0..Len(source), instruction : {source[i] : i \in DOMAIN source}]
             lists == UNION {[1..n -> items] : n \in 0..Len(source)}
  <2>2. r.payload.instructions \in lists
    BY <2>1 DEF ArbitraryOutcomes
  <2>3. items \subseteq Item
    BY <1>1 DEF Item
  <2>4. PICK n \in 0..Len(source) : r.payload.instructions \in [1..n -> items]
    BY <2>2
  <2>5. r.payload.instructions \in [1..n -> Item]
    BY <2>3, <2>4
  <2> QED
    BY <1>1, <2>5
<1> QED
  BY <1>2, <1>3

\* Importability is a matter of the snapshot alone.
LEMMA InvNext == Inv /\ [Next]_vars => Inv'
<1> SUFFICES ASSUME Inv, [Next]_vars
             PROVE  Inv'
  OBVIOUS
<1> USE DEF Inv, Snapshot, PayloadType, OutputOfPayload
<1>1. ASSUME UNCHANGED <<caller, source, payload, output>>,
             phase' \in {"exported", "validated", "returned"} =>
                phase \in {"exported", "validated", "returned"}
      PROVE  Inv'
  <2>1. Importable(source)' <=> Importable(source)
    BY <1>1
  <2>2. Reconstructs(payload)' <=> Reconstructs(payload)
    BY <1>1 DEF Reconstructs, Complete, EpochsKept
  <2> QED
    BY <1>1, <2>1, <2>2
<1>2. ASSUME NEW kind, Raise(kind)
      PROVE  Inv'
  BY <1>1, <1>2 DEF Raise
<1>3. CASE RejectInput
  BY <1>2, <1>3 DEF RejectInput
<1>4. CASE Import
  <2>1. caller.circuit \in Seq(Instruction)
    BY PipelineAssumption
  <2>2. source' = caller.circuit /\ phase' = "imported" /\ UNCHANGED <<caller, payload>>
    BY <1>4 DEF Import
  <2>3. Importable(source)'
    BY <1>4, <2>2 DEF Import
  <2> QED
    BY <2>1, <2>2, <2>3
<1>5. CASE CompilerFails
  BY <1>2, <1>5 DEF CompilerFails
<1>6. CASE Mitigate
  <2>1. UNCHANGED <<caller, source>> /\ phase' = "mitigated"
    BY <1>6 DEF Mitigate
  <2>2. PICK r \in Outcomes : payload' = r.payload
    BY <1>6 DEF Mitigate
  <2>3. payload'.instructions \in Seq(Item)
    BY <2>2, OutcomesType
  <2>4. Importable(source)' <=> Importable(source)
    BY <2>1
  <2> QED
    BY <2>1, <2>3, <2>4
<1>7. CASE Export
  <2>1. /\ UNCHANGED <<caller, source, payload>>
        /\ Reconstructs(payload)
        /\ output' = [k \in DOMAIN payload.instructions |-> payload.instructions[k].source_index]
    BY <1>7 DEF Export
  <2>2. (Importable(source)' <=> Importable(source)) /\ (Reconstructs(payload)' <=> Reconstructs(payload))
    BY <2>1 DEF Reconstructs, Complete, EpochsKept
  <2> QED
    BY <2>1, <2>2
<1>8. CASE RejectExport
  BY <1>2, <1>8 DEF RejectExport
<1>9. CASE Validate
  <2>1. CASE TargetAccepts(Result)
    BY <1>1, <1>9, <2>1 DEF Validate
  <2>2. CASE ~TargetAccepts(Result)
    BY <1>2, <1>9, <2>2 DEF Validate
  <2> QED
    BY <2>1, <2>2
<1>10. CASE Return
  BY <1>1, <1>10 DEF Return
<1>11. CASE RejectReport
  BY <1>2, <1>11 DEF RejectReport
<1>12. CASE CallerEdits
  <2>1. caller' \in Calls \cup Edits /\ UNCHANGED <<source, payload, output, phase>>
    BY <1>12 DEF CallerEdits
  <2>2. (Importable(source)' <=> Importable(source)) /\ (Reconstructs(payload)' <=> Reconstructs(payload))
    BY <2>1 DEF Reconstructs, Complete, EpochsKept
  <2> QED
    BY <2>1, <2>2
<1>13. CASE UNCHANGED vars
  BY <1>1, <1>13 DEF vars
<1> QED
  BY <1>3, <1>4, <1>5, <1>6, <1>7, <1>8, <1>9, <1>10, <1>11, <1>12, <1>13 DEF Next

-----------------------------------------------------------------------------
\* What passed the exporter is the source up to exchanges within its epochs.
LEMMA ExportedOrder ==
    ASSUME Inv, phase \in {"exported", "validated", "returned"}
    PROVE  /\ Len(source) \in Nat
           /\ Len(output) = Len(source)
           /\ output \in [1..Len(source) -> 1..Len(source)]
           /\ \A i, j \in 1..Len(source) : output[i] = output[j] => i = j
           /\ DOMAIN Result = 1..Len(source)
           /\ \A i \in 1..Len(source) : Result[i] = source[output[i]]
           /\ \A i \in 1..Len(source) : Epoch(source, output[i]) = Epoch(Result, i)
<1> DEFINE n == Len(source)
           items == payload.instructions
<1>1. /\ n \in Nat /\ DOMAIN source = 1..n
      /\ Complete(items) /\ EpochsKept(items)
      /\ items \in Seq(Item)
      /\ output = [k \in DOMAIN items |-> items[k].source_index]
  BY DEF Inv, Snapshot, PayloadType, OutputOfPayload, Reconstructs
<1>2. DOMAIN items = 1..n
  BY <1>1 DEF Complete
<1>3. /\ output \in [1..n -> 1..n]
      /\ \A i, j \in 1..n : output[i] = output[j] => i = j
  BY <1>1, <1>2 DEF Complete
<1>4. Len(output) = n
  BY <1>1, <1>3
<1>5. /\ DOMAIN Result = 1..n
      /\ \A i \in 1..n : Result[i] = source[output[i]]
  BY <1>4 DEF Result, Rearranged
<1>6. Result = [l \in DOMAIN items |-> items[l].instruction]
  BY <1>1, <1>2, <1>4 DEF Result, Rearranged, Complete
<1>7. \A i \in 1..n : Epoch(source, output[i]) = Epoch(Result, i)
  BY <1>1, <1>2, <1>6 DEF EpochsKept
<1> QED
  BY <1>1, <1>3, <1>4, <1>5, <1>7

\* What passed the exporter is complete, in order, and importable again.
LEMMA ExportedComplete ==
    ASSUME Inv, phase \in {"exported", "validated", "returned"}
    PROVE  /\ IsPermutationOf(output, Len(source))
           /\ \A i, j \in DOMAIN output :
                 i < j /\ (Result[i].gate \in Fences \/ Result[j].gate \in Fences)
                     => output[i] < output[j]
           /\ Importable(Result)
<1> DEFINE n == Len(source)
<1>1. /\ n \in Nat /\ Len(output) = n
      /\ output \in [1..n -> 1..n]
      /\ \A i, j \in 1..n : output[i] = output[j] => i = j
      /\ DOMAIN Result = 1..n
      /\ \A i \in 1..n : Result[i] = source[output[i]]
      /\ \A i \in 1..n : Epoch(source, output[i]) = Epoch(Result, i)
  BY ExportedOrder
<1>2. IsPermutationOf(output, n)
  BY <1>1 DEF IsPermutationOf
<1>3. \A i, j \in 1..n :
         i < j /\ (Result[i].gate \in Fences \/ Result[j].gate \in Fences) => output[i] < output[j]
  <2> SUFFICES ASSUME NEW a \in 1..n, NEW b \in 1..n, a < b,
                      Result[a].gate \in Fences \/ Result[b].gate \in Fences
               PROVE  output[a] < output[b]
    OBVIOUS
  <2> HIDE DEF n
  <2>1. \A i \in 1..n : Result[i].gate = source[output[i]].gate
    BY <1>1
  <2>2. \A i \in 1..n : Epoch(source, output[i]) = Epoch(Result, i)
    BY <1>1
  <2>3. /\ n \in Nat /\ output \in [1..n -> 1..n]
        /\ \A i, j \in 1..n : output[i] = output[j] => i = j
    BY <1>1
  <2>4. Result[a].gate \in Fences \/ Result[b].gate \in Fences
    OBVIOUS
  <2> QED
    BY ONLY <2>1, <2>2, <2>3, <2>4, EpochsOrderFences, a < b, a \in 1..n, b \in 1..n
<1>4. Importable(source) /\ DOMAIN source = 1..n
  BY DEF Inv, Snapshot
<1>5. ASSUME NEW i \in 1..n
      PROVE  Result[i].gate \in Gates \cup Fences /\ InstructionAccepted(Result, i)
  <2>1. output[i] \in 1..n /\ Result[i] = source[output[i]]
    BY <1>1
  <2>2. source[output[i]].gate \in Gates \cup Fences /\ InstructionAccepted(source, output[i])
    BY <1>4, <2>1 DEF Importable, TargetAccepts
  <2>3. ASSUME NEW j \in 1..(i - 1), Result[j].gate = "measure", Result[i].gate # "barrier"
        PROVE  Disjoint(Result[j], Result[i])
    <3>1. j \in 1..n /\ j < i
      BY <1>1
    <3>2. Result[j].gate \in Fences /\ Result[j] = source[output[j]] /\ output[j] \in 1..n
      BY <1>1, <2>3, <3>1 DEF Fences
    <3>3. output[j] < output[i]
      BY <1>3, <3>1, <3>2
    <3>4. output[j] \in 1..(output[i] - 1)
      BY <2>1, <3>2, <3>3
    <3> QED
      BY <2>1, <2>2, <2>3, <3>2, <3>4 DEF InstructionAccepted
  <2> QED
    BY <2>1, <2>2, <2>3 DEF InstructionAccepted
<1>6. Importable(Result)
  BY <1>1, <1>5 DEF Importable, TargetAccepts
<1> QED
  BY <1>1, <1>2, <1>3, <1>6

\* A circuit that is returned has every instruction exactly once, each on its
\* side of every barrier and measurement, and is importable again: no compiler
\* output can make optimize_compiled_circuit return anything else.
THEOREM ReturnedCircuitAlwaysComplete == Spec => []ReturnedCircuitComplete
<1>1. Inv => ReturnedCircuitComplete
  BY ExportedComplete DEF ReturnedCircuitComplete
<1> QED
  BY <1>1, InvInit, InvNext, PTL DEF Spec

-----------------------------------------------------------------------------
(***************************************************************************)
(* Two matchers.  The trace the compiler scans has the circuit in its      *)
(* middle: the projection of the one is, there, the projection of the      *)
(* other moved by as many places as bookkeeping comes before.              *)
(***************************************************************************)
LEMMA IncreasingRank ==
    ASSUME NEW P \in SUBSET Int, IsFiniteSet(P), NEW r \in 1..Cardinality(P)
    PROVE  Increasing(P)[r] \in P /\ Rank(P, Increasing(P)[r]) = r - 1
<1>1. r - 1 \in 0..(Cardinality(P) - 1)
  BY FS_CardinalityType
<1>2. \E i \in P : Rank(P, i) = r - 1
  BY <1>1, RankOnto
<1>3. Increasing(P)[r] = CHOOSE i \in P : Rank(P, i) = r - 1
  BY DEF Increasing
<1> QED
  BY <1>2, <1>3

LEMMA RankInjective ==
    ASSUME NEW P \in SUBSET Int, IsFiniteSet(P), NEW i \in P, NEW j \in P, Rank(P, i) = Rank(P, j)
    PROVE  i = j
<1>1. Rank(P, i) \in Nat
  BY RankType
<1>2. CASE i < j
  BY <1>1, <1>2, RankIncreases
<1>3. CASE j < i
  BY <1>1, <1>3, RankIncreases
<1> QED
  BY <1>2, <1>3

\* P has the positions Q moved by w, and others before and after them.
Shifted(P, Q, w, n) ==
    /\ w \in Nat /\ n \in Nat
    /\ P \in SUBSET (Nat \ {0}) /\ IsFiniteSet(P)
    /\ Q \in SUBSET (1..n)
    /\ \A i \in 1..n : (w + i) \in P <=> i \in Q

LEMMA ShiftedTyped ==
    ASSUME NEW P, NEW Q, NEW w, NEW n, Shifted(P, Q, w, n)
    PROVE  /\ w \in Nat /\ n \in Nat
           /\ P \in SUBSET Int /\ IsFiniteSet(P) /\ Cardinality(P) \in Nat
           /\ Q \in SUBSET Int /\ IsFiniteSet(Q) /\ Cardinality(Q) \in Nat
<1>1. w \in Nat /\ n \in Nat /\ P \in SUBSET Int /\ IsFiniteSet(P) /\ Q \in SUBSET (1..n)
  BY DEF Shifted
<1>2. IsFiniteSet(1..n)
  BY <1>1, FS_Interval
<1>3. IsFiniteSet(Q)
  BY <1>1, <1>2, FS_Subset
<1>4. Q \in SUBSET Int
  BY <1>1
<1> QED
  BY <1>1, <1>3, <1>4, FS_CardinalityType

LEMMA ShiftedRank ==
    ASSUME NEW P, NEW Q, NEW w, NEW n, Shifted(P, Q, w, n), NEW i \in 1..n
    PROVE  Rank(P, w + i) = Rank(P, w + 1) + Rank(Q, i)
<1> DEFINE A == {j \in P : j < w + 1}
           B == {j \in Q : j < i}
           f == [j \in B |-> w + j]
           C == {f[j] : j \in B}
<1> USE DEF Shifted
<1>1. IsFiniteSet(Q)
  BY ShiftedTyped
<1>2. IsFiniteSet(A) /\ IsFiniteSet(B)
  BY <1>1, FS_Subset
<1>3. f \in Bijection(B, C)
  <2>1. \A j, k \in B : f[j] = f[k] => j = k
    OBVIOUS
  <2>2. f \in [B -> C] /\ \A c \in C : \E j \in B : f[j] = c
    OBVIOUS
  <2> HIDE DEF f, B, C
  <2> QED
    BY <2>1, <2>2 DEF Bijection, Injection, Surjection, IsInjective
<1>4. IsFiniteSet(C) /\ Cardinality(C) = Cardinality(B)
  <2> HIDE DEF f, B, C
  <2> QED
    BY <1>2, <1>3, FS_Bijection DEF ExistsBijection
<1>5. {j \in P : j < w + i} = A \cup C
  <2>1. ASSUME NEW j \in P, j < w + i, ~(j < w + 1)
        PROVE  j \in C
    <3>1. j - w \in 1..n /\ w + (j - w) = j
      BY <2>1
    <3>2. j - w \in B
      BY <2>1, <3>1
    <3>3. f[j - w] = j
      BY <3>1, <3>2
    <3> QED
      BY <3>2, <3>3
  <2>2. ASSUME NEW j \in B
        PROVE  f[j] \in P /\ f[j] < w + i
    OBVIOUS
  <2>3. \A j \in A : j < w + i
    OBVIOUS
  <2>4. {j \in P : j < w + i} \subseteq A \cup C
    BY <2>1
  <2>5. C \subseteq {j \in P : j < w + i}
    BY <2>2
  <2> QED
    BY <2>3, <2>4, <2>5
<1>6. A \cap C = {}
  OBVIOUS
<1>7. Cardinality(A \cup C) = Cardinality(A) + Cardinality(C)
  <2>1. Cardinality(A \cap C) = 0
    BY <1>6, FS_EmptySet
  <2>2. Cardinality(A) \in Nat /\ Cardinality(C) \in Nat
    BY <1>2, <1>4, FS_CardinalityType
  <2> HIDE DEF A, C
  <2>3. Cardinality(A \cup C) = Cardinality(A) + Cardinality(C) - Cardinality(A \cap C)
    BY <1>2, <1>4, FS_Union
  <2> QED
    BY <2>1, <2>2, <2>3
<1> QED
  BY <1>4, <1>5, <1>7 DEF Rank

LEMMA ShiftedIncreasing ==
    ASSUME NEW P, NEW Q, NEW w, NEW n, Shifted(P, Q, w, n), NEW r \in 1..Cardinality(Q)
    PROVE  /\ Increasing(Q)[r] \in Q
           /\ Rank(P, w + 1) + r \in 1..Cardinality(P)
           /\ Increasing(P)[Rank(P, w + 1) + r] = w + Increasing(Q)[r]
<1> DEFINE i == Increasing(Q)[r]
           a == Rank(P, w + 1)
<1>1. /\ Q \in SUBSET Int /\ IsFiniteSet(Q) /\ P \in SUBSET Int /\ IsFiniteSet(P)
      /\ w \in Nat /\ n \in Nat /\ Cardinality(P) \in Nat /\ a \in Nat /\ Cardinality(Q) \in Nat
  BY ShiftedTyped, RankType
<1>2. i \in Q /\ Rank(Q, i) = r - 1
  BY <1>1, IncreasingRank
<1> HIDE DEF i, a
<1>3. i \in 1..n /\ w + i \in P
  BY <1>2 DEF Shifted
<1>4. Rank(P, w + i) = a + (r - 1)
  BY <1>2, <1>3, ShiftedRank DEF a
<1>5. a + (r - 1) \in 0..(Cardinality(P) - 1)
  BY <1>1, <1>3, <1>4, RankBound
<1>6. a + r \in 1..Cardinality(P)
  BY <1>1, <1>5
<1> DEFINE p == Increasing(P)[a + r]
<1>7. p \in P /\ Rank(P, p) = (a + r) - 1
  BY <1>1, <1>6, IncreasingRank
<1> HIDE DEF p
<1>8. Rank(P, p) = Rank(P, w + i)
  BY <1>1, <1>4, <1>7
<1>9. p = w + i
  BY <1>1, <1>3, <1>7, <1>8, RankInjective
<1> QED
  BY <1>2, <1>6, <1>9 DEF i, a, p

LEMMA WindowAt ==
    ASSUME NEW S, NEW N \in Nat, NEW inc \in [1..N -> S],
           NEW start \in Nat, NEW size \in Nat \ {0}, start + size <= N
    PROVE  SubSeq(inc, start + 1, start + size) = [j \in 1..size |-> inc[start + j]]
<1> DEFINE sub == SubSeq(inc, start + 1, start + size)
<1>1. \A i \in (start + 1)..(start + size) : inc[i] \in S
  OBVIOUS
<1>2. /\ sub \in Seq(S)
      /\ Len(sub) = IF start + 1 <= start + size THEN (start + size) - (start + 1) + 1 ELSE 0
      /\ \A i \in 1..((start + size) - (start + 1) + 1) : sub[i] = inc[(start + 1) + i - 1]
  BY <1>1, SubSeqProperties
<1> HIDE DEF sub
<1>3. Len(sub) = size
  BY <1>2
<1>4. sub \in [1..size -> S]
  BY <1>2, <1>3, LenProperties
<1>5. \A i \in 1..size : sub[i] = inc[start + i]
  <2> TAKE i \in 1..size
  <2>1. i \in 1..((start + size) - (start + 1) + 1) /\ (start + 1) + i - 1 = start + i
    OBVIOUS
  <2> QED
    BY <1>2, <2>1
<1>6. sub = [j \in 1..size |-> inc[start + j]]
  BY <1>4, <1>5
<1> QED
  BY <1>6 DEF sub

\* The starts at which the adapter's matcher finds a pattern in the projection
\* Q of a circuit.
StartsIn(Q, circuit, pattern) ==
    {s \in 0..(Cardinality(Q) - Len(pattern.gates)) :
        \A j \in 1..Len(pattern.gates) :
            Equal(circuit[Increasing(Q)[s + j]], pattern.gates[j], pattern.tolerance)}

\* The window of the trace that starts at s in the circuit.
WindowFrom(Q, w, size, s) == [j \in 1..size |-> w + Increasing(Q)[s + j]]

\* The two matchers ask the same of an instruction and of its event.
Agree(trace, circuit, w, n, pattern) ==
    \A i \in 1..n : \A j \in 1..Len(pattern.gates) :
        EventMatches(pattern.gates[j], trace[w + i], pattern.tolerance)
            <=> Equal(circuit[i], pattern.gates[j], pattern.tolerance)

LEMMA FromStart ==
    ASSUME NEW P, NEW Q, NEW w, NEW n, Shifted(P, Q, w, n), NEW t, NEW c, NEW pat,
           pat.gates \in Seq(GateSpec), Len(pat.gates) >= 2, Agree(t, c, w, n, pat),
           NEW s \in StartsIn(Q, c, pat)
    PROVE  WindowFrom(Q, w, Len(pat.gates), s) \in WindowsIn(P, t, pat)
<1> DEFINE size == Len(pat.gates)
           a == Rank(P, w + 1)
           inc == Increasing(P)
           pro == Increasing(Q)
           N == Cardinality(P)
           M == Cardinality(Q)
<1>1. /\ w \in Nat /\ n \in Nat /\ P \in SUBSET Int /\ IsFiniteSet(P) /\ N \in Nat
      /\ M \in Nat /\ Q \in SUBSET (1..n)
  <2>1. Q \in SUBSET (1..n)
    BY DEF Shifted
  <2> QED
    BY <2>1, ShiftedTyped
<1>2. size \in Nat \ {0} /\ a \in Nat /\ inc \in [1..N -> P]
  BY <1>1, LenProperties, RankType, IncreasingInP
<1>3. /\ s \in 0..(M - size)
      /\ \A j \in 1..size : Equal(c[pro[s + j]], pat.gates[j], pat.tolerance)
  BY DEF StartsIn
<1>4. ASSUME NEW j \in 1..size
      PROVE  /\ pro[s + j] \in Q /\ pro[s + j] \in 1..n
             /\ a + (s + j) \in 1..N
             /\ inc[a + (s + j)] = w + pro[s + j]
  <2>1. s + j \in 1..M
    BY <1>1, <1>2, <1>3
  <2>2. /\ pro[s + j] \in Q
        /\ a + (s + j) \in 1..N
        /\ inc[a + (s + j)] = w + pro[s + j]
    BY <2>1, ShiftedIncreasing
  <2> QED
    BY <1>1, <2>2
<1> HIDE DEF size, a, inc, pro, N, M
<1> DEFINE start == a + s
<1>5. start \in 0..(N - size) /\ start \in Nat /\ start + size <= N
  <2>1. size \in 1..size
    BY <1>2
  <2>2. a + (s + size) \in 1..N
    BY <1>4, <2>1
  <2> QED
    BY <1>1, <1>2, <1>3, <2>2
<1> DEFINE win == SubSeq(inc, start + 1, start + size)
<1>6. win = [j \in 1..size |-> inc[start + j]]
  <2> HIDE DEF start
  <2>1. inc \in [1..N -> P] /\ start \in Nat /\ start + size <= N /\ N \in Nat /\ size \in Nat \ {0}
    BY <1>1, <1>2, <1>5
  <2> QED
    BY <2>1, WindowAt
<1>7. \A j \in 1..size : inc[start + j] = w + pro[s + j]
  <2> TAKE j \in 1..size
  <2>1. start + j = a + (s + j)
    BY <1>1, <1>2, <1>3
  <2> QED
    BY <1>4, <2>1
<1> HIDE DEF start, win
<1>8. win = [j \in 1..size |-> w + pro[s + j]]
  BY <1>6, <1>7
<1>9. \A j \in 1..size : EventMatches(pat.gates[j], t[win[j]], pat.tolerance)
  <2> TAKE j \in 1..size
  <2>1. win[j] = w + pro[s + j] /\ pro[s + j] \in 1..n
    BY <1>4, <1>8
  <2> QED
    BY <1>3, <2>1 DEF Agree, size
<1>10. win \in WindowsIn(P, t, pat)
  BY <1>5, <1>9 DEF WindowsIn, win, size, inc, N
<1> QED
  BY <1>8, <1>10 DEF WindowFrom, size, pro

LEMMA ToStart ==
    ASSUME NEW P, NEW Q, NEW w, NEW n, Shifted(P, Q, w, n), NEW t, NEW c, NEW pat,
           pat.gates \in Seq(GateSpec), Len(pat.gates) >= 2, Agree(t, c, w, n, pat),
           \A p \in P : t[p].gate \in Gates => p \in (w + 1)..(w + n),
           NEW win \in WindowsIn(P, t, pat)
    PROVE  \E s \in StartsIn(Q, c, pat) : win = WindowFrom(Q, w, Len(pat.gates), s)
<1> DEFINE size == Len(pat.gates)
           a == Rank(P, w + 1)
           inc == Increasing(P)
           pro == Increasing(Q)
           N == Cardinality(P)
           M == Cardinality(Q)
<1>1. /\ w \in Nat /\ n \in Nat /\ P \in SUBSET Int /\ IsFiniteSet(P) /\ N \in Nat
      /\ M \in Nat /\ Q \in SUBSET (1..n) /\ Q \in SUBSET Int /\ IsFiniteSet(Q)
  <2>1. Q \in SUBSET (1..n)
    BY DEF Shifted
  <2> QED
    BY <2>1, ShiftedTyped
<1>2. size \in Nat \ {0} /\ a \in Nat /\ inc \in [1..N -> P] /\ size >= 2
  BY <1>1, LenProperties, RankType, IncreasingInP
<1>3. PICK start \in 0..(N - size) :
          /\ win = SubSeq(inc, start + 1, start + size)
          /\ \A j \in 1..size : EventMatches(pat.gates[j], t[win[j]], pat.tolerance)
  BY DEF WindowsIn
<1>4. \A j \in 1..size : pat.gates[j].gate \in Gates
  <2> TAKE j \in 1..size
  <2>1. pat.gates[j] \in GateSpec
    BY ElementOfSeq
  <2> QED
    BY <2>1 DEF GateSpec
<1>n. start \in Nat /\ start + size <= N
  BY <1>1, <1>2, <1>3
<1> HIDE DEF a, inc, pro, N, M, size
<1>5. win = [j \in 1..size |-> inc[start + j]]
  BY <1>1, <1>2, <1>3, <1>n, WindowAt
<1> DEFINE s == start - a
\* Each position of the window is an instruction's.
<1>6. ASSUME NEW j \in 1..size
      PROVE  /\ s + j \in 1..M
             /\ pro[s + j] \in 1..n
             /\ win[j] = w + pro[s + j]
  <2> DEFINE p == win[j]
             i == p - w
  <2>1. start + j \in 1..N /\ p = inc[start + j]
    BY <1>1, <1>2, <1>5, <1>n
  <2>2. p \in P /\ Rank(P, p) = (start + j) - 1
    BY <1>1, <2>1, IncreasingRank DEF inc, N
  <2>3. t[p].gate \in Gates
    BY <1>3, <1>4 DEF EventMatches
  <2>4. p \in (w + 1)..(w + n)
    BY <2>2, <2>3
  <2> HIDE DEF p
  <2>5. i \in 1..n /\ w + i = p
    BY <1>1, <2>4
  <2> HIDE DEF i
  <2>6. i \in Q
    BY <2>2, <2>5 DEF Shifted
  <2>7. Rank(P, p) = a + Rank(Q, i)
    BY <2>5, ShiftedRank DEF a
  <2>8. Rank(Q, i) \in 0..(M - 1)
    BY <1>1, <2>6, RankBound DEF M
  <2>9. s + j \in 1..M /\ Rank(Q, i) = (s + j) - 1
    BY <1>1, <1>2, <1>n, <2>2, <2>7, <2>8
  <2>10. pro[s + j] \in Q /\ Rank(Q, pro[s + j]) = (s + j) - 1
    BY <1>1, <2>9, IncreasingRank DEF pro, M
  <2>11. pro[s + j] = i
    <3> DEFINE q == pro[s + j]
    <3>1. q \in Q /\ Rank(Q, q) = Rank(Q, i)
      BY <2>9, <2>10
    <3> HIDE DEF q
    <3>2. q = i
      BY <1>1, <2>6, <3>1, RankInjective
    <3> QED
      BY <3>2 DEF q
  <2> QED
    BY <2>5, <2>9, <2>11 DEF p
<1>7. s \in 0..(M - size)
  <2>1. 1 \in 1..size /\ size \in 1..size
    BY <1>2
  <2>2. s + 1 \in 1..M /\ s + size \in 1..M
    BY <1>6, <2>1
  <2>3. s \in Int
    BY <1>2, <1>n
  <2> HIDE DEF s
  <2> QED
    BY <1>1, <1>2, <2>2, <2>3
<1> HIDE DEF s
<1>8. \A j \in 1..size : Equal(c[pro[s + j]], pat.gates[j], pat.tolerance)
  BY <1>3, <1>6 DEF Agree, size
<1>9. s \in StartsIn(Q, c, pat)
  BY <1>7, <1>8 DEF StartsIn, size, pro, M
<1>10. win = [j \in 1..size |-> w + pro[s + j]]
  BY <1>5, <1>6
<1> QED
  BY <1>9, <1>10 DEF WindowFrom, size, pro

LEMMA SameWindows ==
    ASSUME NEW P, NEW Q, NEW w, NEW n, Shifted(P, Q, w, n), NEW t, NEW c, NEW pat,
           pat.gates \in Seq(GateSpec), Len(pat.gates) >= 2, Agree(t, c, w, n, pat),
           \A p \in P : t[p].gate \in Gates => p \in (w + 1)..(w + n)
    PROVE  Cardinality(WindowsIn(P, t, pat)) = Cardinality(StartsIn(Q, c, pat))
<1> DEFINE size == Len(pat.gates)
           pro == Increasing(Q)
           M == Cardinality(Q)
           S == StartsIn(Q, c, pat)
           W == WindowsIn(P, t, pat)
           F == [s \in S |-> WindowFrom(Q, w, size, s)]
<1>1. /\ w \in Nat /\ M \in Nat /\ Q \in SUBSET Int /\ IsFiniteSet(Q)
      /\ size \in Nat /\ size >= 2
  BY ShiftedTyped, LenProperties
<1>2. S \subseteq 0..(M - size)
  BY DEF StartsIn
<1>3. IsFiniteSet(S)
  <2>1. M - size \in Int
    BY <1>1
  <2>2. IsFiniteSet(0..(M - size))
    BY <2>1, FS_Interval
  <2> QED
    BY <1>2, <2>2, FS_Subset
<1>4. \A s \in S : F[s] \in W
  BY FromStart
<1>5. \A win \in W : \E s \in S : F[s] = win
  BY ToStart
<1>6. ASSUME NEW s \in S, NEW r \in S, F[s] = F[r]
      PROVE  s = r
  <2>1. s + 1 \in 1..M /\ r + 1 \in 1..M /\ s \in Int /\ r \in Int /\ 1 \in 1..size
    BY <1>1, <1>2
  <2>2. WindowFrom(Q, w, size, s)[1] = WindowFrom(Q, w, size, r)[1]
    BY <1>6
  <2>3. w + pro[s + 1] = w + pro[r + 1]
    BY <2>1, <2>2 DEF WindowFrom
  <2>4. /\ pro[s + 1] \in Q /\ Rank(Q, pro[s + 1]) = (s + 1) - 1
        /\ pro[r + 1] \in Q /\ Rank(Q, pro[r + 1]) = (r + 1) - 1
    BY <1>1, <2>1, IncreasingRank
  <2> HIDE DEF pro, M, size, S
  <2>5. pro[s + 1] \in Int /\ pro[r + 1] \in Int
    BY <1>1, <2>4
  <2>6. pro[s + 1] = pro[r + 1]
    BY <1>1, <2>3, <2>5
  <2> QED
    BY <2>1, <2>4, <2>6
<1> HIDE DEF S, W, size, pro, M
<1>7. F \in Bijection(S, W)
  <2>1. F \in [S -> W]
    BY <1>4
  <2> HIDE DEF F
  <2> QED
    BY <1>5, <1>6, <2>1 DEF Bijection, Injection, Surjection, IsInjective
<1> HIDE DEF F
<1>8. Cardinality(W) = Cardinality(S)
  BY <1>3, <1>7, FS_Bijection DEF ExistsBijection
<1> QED
  BY <1>8 DEF W, S

\* u is s, of length l, followed by t, of length m.
Follows(u, s, l, t, m) ==
    /\ Len(u) = l + m
    /\ \A i \in 1..l : u[i] = s[i]
    /\ \A i \in 1..m : u[l + i] = t[i]

LEMMA AppendedParts ==
    ASSUME NEW s \in Seq(Event), NEW t \in Seq(Event), NEW l \in Nat, NEW m \in Nat,
           Len(s) = l, Len(t) = m
    PROVE  s \o t \in Seq(Event) /\ Follows(s \o t, s, l, t, m)
<1>1. /\ s \o t \in Seq(Event) /\ Len(s \o t) = l + m
      /\ \A i \in 1..(l + m) : (s \o t)[i] = IF i <= l THEN s[i] ELSE t[i - l]
  BY ConcatProperties
<1>2. \A i \in 1..l : i \in 1..(l + m) /\ i <= l
  OBVIOUS
<1>3. \A i \in 1..m : l + i \in 1..(l + m) /\ ~(l + i <= l) /\ (l + i) - l = i
  OBVIOUS
<1> QED
  BY <1>1, <1>2, <1>3 DEF Follows

LEMMA FunctionIsSeq ==
    ASSUME NEW S, NEW n \in Nat, NEW f \in [1..n -> S]
    PROVE  f \in Seq(S) /\ Len(f) = n
OBVIOUS

-----------------------------------------------------------------------------
(***************************************************************************)
(* The trace of the lowered module, part by part.                          *)
(***************************************************************************)
LEMMA UnmeasuredTyped ==
    ASSUME NEW circuit
    PROVE  /\ Unmeasured(circuit) \in SUBSET Nat /\ Unmeasured(circuit) \in SUBSET Int
           /\ IsFiniteSet(Unmeasured(circuit))
           /\ Cardinality(Unmeasured(circuit)) \in Nat
           /\ Increasing(Unmeasured(circuit))
                 \in [1..Cardinality(Unmeasured(circuit)) -> Unmeasured(circuit)]
<1> DEFINE U == Unmeasured(circuit)
<1>1. Width - 1 \in Int /\ U \subseteq 0..(Width - 1)
  BY PipelineAssumption DEF Unmeasured
<1>2. IsFiniteSet(0..(Width - 1))
  BY <1>1, FS_Interval
<1>3. IsFiniteSet(U)
  BY <1>1, <1>2, FS_Subset
<1>4. U \in SUBSET Int /\ U \in SUBSET Nat
  BY <1>1
<1> HIDE DEF U
<1>5. Cardinality(U) \in Nat /\ Increasing(U) \in [1..Cardinality(U) -> U]
  BY <1>3, <1>4, FS_CardinalityType, IncreasingInP
<1> QED
  BY <1>3, <1>4, <1>5 DEF U

\* The lowered module: allocations, the instructions, discards, the output.
IsLower(trace, circuit) ==
    LET n == Len(circuit)
        rest == Increasing(Unmeasured(circuit))
        k == Cardinality(Unmeasured(circuit))
    IN  /\ trace \in Seq(Event)
        /\ Len(trace) = Width + n + k + 1
        /\ \A i \in 1..Width : trace[i] = Bookkeeping("alloc", <<i - 1>>)
        /\ \A i \in 1..n : trace[Width + i] = EventOf(circuit[i])
        /\ \A i \in 1..k : trace[Width + n + i] = Bookkeeping("discard", <<rest[i]>>)
        /\ trace[Width + n + k + 1] = Bookkeeping("output", <<>>)

LEMMA BookkeepingTyped ==
    ASSUME NEW e \in Effects, NEW qubits \in Seq(Nat)
    PROVE  Bookkeeping(e, qubits) \in Event
<1>1. {} \in Angles
  BY DEF Angles
<1> QED
  BY <1>1 DEF Bookkeeping, Event

LEMMA EventTyped ==
    ASSUME NEW x \in Instruction, x.gate \in Gates \cup Fences
    PROVE  EventOf(x) \in Event
<1>1. x.gate \in Gates \cup Effects /\ x.qubits \in Seq(Nat) /\ x.angle \in Angles
  BY DEF Instruction, Fences, Effects
<1>2. CASE x.gate \in Gates
  <2>1. EventOf(x) = [gate |-> x.gate, qubits |-> x.qubits, angle |-> x.angle, movable |-> TRUE]
    BY <1>2, Zenon DEF EventOf
  <2> QED
    BY <1>1, <2>1 DEF Event
<1>3. CASE x.gate \notin Gates
  <2>1. EventOf(x) = [gate |-> x.gate, qubits |-> x.qubits, angle |-> x.angle, movable |-> FALSE]
    <3>1. (x.gate \in Gates) = FALSE
      BY <1>3
    <3> QED
      BY <3>1, Zenon DEF EventOf
  <2> QED
    BY <1>1, <2>1 DEF Event
<1> QED
  BY <1>2, <1>3

LEMMA LowerIs ==
    ASSUME NEW circuit \in Seq(Instruction), \A i \in DOMAIN circuit : circuit[i].gate \in Gates \cup Fences
    PROVE  IsLower(Lower(circuit), circuit)
<1> DEFINE n == Len(circuit)
           U == Unmeasured(circuit)
           k == Cardinality(U)
           rest == Increasing(U)
           A == [q \in 1..Width |-> Bookkeeping("alloc", <<q - 1>>)]
           B == [i \in 1..n |-> EventOf(circuit[i])]
           C == [i \in 1..Len(rest) |-> Bookkeeping("discard", <<rest[i]>>)]
           D == <<Bookkeeping("output", <<>>)>>
           AB == A \o B
           ABC == AB \o C
           ABCD == ABC \o D
<1>1. n \in Nat /\ Width \in Nat /\ \A i \in 1..n : circuit[i] \in Instruction /\ circuit[i].gate \in Gates \cup Fences
  BY LenProperties, ElementOfSeq, PipelineAssumption
<1>2. U \in SUBSET Nat /\ k \in Nat /\ rest \in [1..k -> U] /\ Len(rest) = k
  BY UnmeasuredTyped
<1>e. "alloc" \in Effects /\ "discard" \in Effects /\ "output" \in Effects
  BY DEF Effects
<1>3. A \in Seq(Event) /\ Len(A) = Width
  <2>1. \A q \in 1..Width : Bookkeeping("alloc", <<q - 1>>) \in Event
    <3> TAKE q \in 1..Width
    <3>1. <<q - 1>> \in Seq(Nat)
      BY <1>1
    <3> QED
      BY <1>e, <3>1, BookkeepingTyped
  <2>2. A \in [1..Width -> Event]
    BY <2>1
  <2> HIDE DEF A
  <2> QED
    BY <1>1, <2>2, FunctionIsSeq
<1>4. B \in Seq(Event) /\ Len(B) = n
  <2>1. \A i \in 1..n : EventOf(circuit[i]) \in Event
    BY <1>1, EventTyped
  <2>2. B \in [1..n -> Event]
    BY <2>1
  <2> HIDE DEF B
  <2> QED
    BY <1>1, <2>2, FunctionIsSeq
<1>5. C \in Seq(Event) /\ Len(C) = k
  <2>1. \A i \in 1..k : Bookkeeping("discard", <<rest[i]>>) \in Event
    <3> TAKE i \in 1..k
    <3>1. <<rest[i]>> \in Seq(Nat)
      BY <1>2
    <3> QED
      BY <1>e, <3>1, BookkeepingTyped
  <2>2. C \in [1..k -> Event]
    BY <1>2, <2>1
  <2> HIDE DEF C, k
  <2> QED
    BY <1>2, <2>2, FunctionIsSeq
<1>6. D \in Seq(Event) /\ Len(D) = 1 /\ D[1] = Bookkeeping("output", <<>>)
  <2>0. <<>> \in Seq(Nat)
    OBVIOUS
  <2>1. Bookkeeping("output", <<>>) \in Event
    BY <1>e, <2>0, BookkeepingTyped
  <2> QED
    BY <2>1
<1>7. Lower(circuit) = ABCD
  BY DEF Lower
<1>8. /\ \A i \in 1..Width : A[i] = Bookkeeping("alloc", <<i - 1>>)
      /\ \A i \in 1..n : B[i] = EventOf(circuit[i])
      /\ \A i \in 1..k : C[i] = Bookkeeping("discard", <<rest[i]>>)
  BY <1>2
<1> HIDE DEF A, B, C, D, n, k, rest
<1>9. AB \in Seq(Event) /\ Follows(AB, A, Width, B, n)
  BY <1>1, <1>3, <1>4, AppendedParts
<1>l. Len(AB) = Width + n /\ Width + n \in Nat
  BY <1>1, <1>9 DEF Follows
<1> HIDE DEF AB
<1>10. ABC \in Seq(Event) /\ Follows(ABC, AB, Width + n, C, k)
  BY <1>l, <1>2, <1>5, <1>9, AppendedParts
<1>m. Len(ABC) = Width + n + k /\ Width + n + k \in Nat
  BY <1>1, <1>2, <1>10 DEF Follows
<1> HIDE DEF ABC
<1>11. ABCD \in Seq(Event) /\ Follows(ABCD, ABC, Width + n + k, D, 1)
  BY <1>m, <1>6, <1>10, AppendedParts
<1> HIDE DEF ABCD
<1>12. \A i \in 1..Width : ABCD[i] = Bookkeeping("alloc", <<i - 1>>)
  <2> TAKE i \in 1..Width
  <2>1. i \in 1..(Width + n) /\ i \in 1..(Width + n + k)
    BY <1>1, <1>2
  <2> QED
    BY <1>8, <1>9, <1>10, <1>11, <2>1 DEF Follows
<1>13. \A i \in 1..n : ABCD[Width + i] = EventOf(circuit[i])
  <2> TAKE i \in 1..n
  <2>1. Width + i \in 1..(Width + n) /\ Width + i \in 1..(Width + n + k)
    BY <1>1, <1>2
  <2> QED
    BY <1>8, <1>9, <1>10, <1>11, <2>1 DEF Follows
<1>14. \A i \in 1..k : ABCD[Width + n + i] = Bookkeeping("discard", <<rest[i]>>)
  <2> TAKE i \in 1..k
  <2>1. Width + n + i \in 1..(Width + n + k)
    BY <1>1, <1>2
  <2> QED
    BY <1>8, <1>10, <1>11, <2>1 DEF Follows
<1>15. Len(ABCD) = Width + n + k + 1 /\ ABCD[Width + n + k + 1] = Bookkeeping("output", <<>>)
  BY <1>6, <1>11 DEF Follows
<1> QED
  BY <1>7, <1>11, <1>12, <1>13, <1>14, <1>15 DEF IsLower, n, k, rest, U

-----------------------------------------------------------------------------
(***************************************************************************)
(* The two matchers count the same.                                        *)
(***************************************************************************)
LEMMA AnglesAgree ==
    ASSUME NEW expected \in Angles, NEW actual \in Angles, NEW tolerance \in Nat
    PROVE  AngleMatches(expected, actual, tolerance) <=>
              (expected # {} => /\ Cardinality(actual) = 1
                                /\ \A a \in actual, e \in expected : a - e \in (-tolerance)..tolerance)
<1>1. expected \in SUBSET Int /\ actual \in SUBSET Int /\ \A a, b \in actual : a = b
  BY DEF Angles
<1>2. \A a \in actual, e \in expected :
          a - e \in (-tolerance)..tolerance <=> e - a \in (-tolerance)..tolerance
  BY <1>1
<1>3. CASE expected = {}
  BY <1>3 DEF AngleMatches
<1>4. CASE expected # {} /\ actual = {}
  <2>1. Cardinality(actual) # 1
    BY <1>4, FS_EmptySet
  <2> QED
    BY <1>4, <2>1 DEF AngleMatches
<1>5. CASE expected # {} /\ actual # {}
  <2>0. PICK a \in actual : TRUE
    BY <1>5
  <2>1. actual = {a}
    BY <1>1, <2>0
  <2>2. Cardinality(actual) = 1
    BY <2>1, FS_Singleton
  <2> QED
    BY <1>2, <2>1, <2>2 DEF AngleMatches
<1> QED
  BY <1>3, <1>4, <1>5

LEMMA MatchersAgree ==
    ASSUME NEW spec \in GateSpec, NEW x \in Instruction, NEW tolerance \in Nat
    PROVE  EventMatches(spec, EventOf(x), tolerance) <=> Equal(x, spec, tolerance)
<1>1. spec.angle \in Angles /\ x.angle \in Angles
  BY DEF GateSpec, Instruction
<1>2. AngleMatches(spec.angle, x.angle, tolerance) <=>
         (spec.angle # {} => /\ Cardinality(x.angle) = 1
                             /\ \A a \in x.angle, e \in spec.angle : a - e \in (-tolerance)..tolerance)
  BY <1>1, AnglesAgree
<1>3. EventOf(x).gate = x.gate /\ EventOf(x).qubits = x.qubits /\ EventOf(x).angle = x.angle
  BY DEF EventOf
<1> QED
  BY <1>2, <1>3 DEF EventMatches, Equal

\* Circuits of the gates and fences import_compiled_circuit lets in.
Known(circuit) ==
    /\ circuit \in Seq(Instruction)
    /\ \A i \in DOMAIN circuit : circuit[i].gate \in Gates \cup Fences

\* The instructions the adapter's matcher looks at.
InScope(circuit, pattern, global) ==
    {i \in DOMAIN circuit : global \/ WiresOf(circuit[i]) \cap Scope(pattern) # {}}

LEMMA ProjectionShifted ==
    ASSUME NEW circuit, Known(circuit), NEW pat, NEW g \in BOOLEAN, NEW t, IsLower(t, circuit)
    PROVE  LET P == Projected(t, pat, g)
               n == Len(circuit)
           IN  /\ Shifted(P, InScope(circuit, pat, g), Width, n)
               /\ \A p \in P : t[p].gate \in Gates => p \in (Width + 1)..(Width + n)
<1> DEFINE P == Projected(t, pat, g)
           Q == InScope(circuit, pat, g)
           n == Len(circuit)
           k == Cardinality(Unmeasured(circuit))
<1>1. /\ n \in Nat /\ Width \in Nat /\ k \in Nat /\ DOMAIN circuit = 1..n
      /\ \A i \in 1..n : circuit[i].gate \in Gates \cup Fences
  BY LenProperties, PipelineAssumption, UnmeasuredTyped DEF Known
<1>2. /\ t \in Seq(Event) /\ Len(t) = Width + n + k + 1
      /\ \A i \in 1..Width : t[i].gate = "alloc"
      /\ \A i \in 1..n : t[Width + i] = EventOf(circuit[i])
      /\ \A i \in 1..k : t[Width + n + i].gate = "discard"
      /\ t[Width + n + k + 1].gate = "output"
  <2>1. \A e, q : Bookkeeping(e, q).gate = e
    BY DEF Bookkeeping
  <2> QED
    BY <2>1 DEF IsLower
<1>3. P \in SUBSET (1..Len(t)) /\ IsFiniteSet(P) /\ DOMAIN t = 1..Len(t)
  BY <1>2, ProjectedFinite, LenProperties
<1>4. Q \in SUBSET (1..n)
  BY <1>1 DEF InScope
<1>5. ASSUME NEW i \in 1..n
      PROVE  (Width + i) \in P <=> i \in Q
  <2>1. Width + i \in DOMAIN t
    BY <1>1, <1>2, <1>3
  <2>2. t[Width + i].gate = circuit[i].gate /\ WiresOf(t[Width + i]) = WiresOf(circuit[i])
    <3>1. t[Width + i] = EventOf(circuit[i])
      BY <1>2
    <3>2. EventOf(circuit[i]).gate = circuit[i].gate /\ EventOf(circuit[i]).qubits = circuit[i].qubits
      BY DEF EventOf
    <3> QED
      BY <3>1, <3>2 DEF WiresOf
  <2>3. g => t[Width + i].gate \in Gates \cup {"measure", "barrier"}
    BY <1>1, <2>2 DEF Fences
  <2> QED
    BY <1>1, <2>1, <2>2, <2>3 DEF Projected, InScope
<1>6. ASSUME NEW p \in P, t[p].gate \in Gates
      PROVE  p \in (Width + 1)..(Width + n)
  <2>1. p \in 1..(Width + n + k + 1)
    BY <1>2, <1>3
  <2>2. "alloc" \notin Gates /\ "discard" \notin Gates /\ "output" \notin Gates
    BY DEF Gates
  <2>3. ~(p \in 1..Width)
    BY <1>2, <1>6, <2>2
  <2>4. ASSUME p > Width + n, p < Width + n + k + 1
        PROVE  FALSE
    <3>1. p - (Width + n) \in 1..k /\ Width + n + (p - (Width + n)) = p
      BY <1>1, <2>1, <2>4
    <3> QED
      BY <1>2, <1>6, <2>2, <3>1
  <2>5. p # Width + n + k + 1
    BY <1>2, <1>6, <2>2
  <2> HIDE DEF n, k, P
  <2> QED
    BY <1>1, <2>1, <2>3, <2>4, <2>5
<1>7. P \in SUBSET (Nat \ {0})
  BY <1>1, <1>2, <1>3
<1> QED
  BY <1>1, <1>3, <1>4, <1>5, <1>6, <1>7 DEF Shifted

LEMMA OneCount ==
    ASSUME NEW circuit, Known(circuit), NEW g \in BOOLEAN, NEW t, IsLower(t, circuit),
           NEW pat, pat.gates \in Seq(GateSpec), pat.tolerance \in Nat, Len(pat.gates) >= 2
    PROVE  Cardinality(Windows(t, pat, g)) = OracleCount(circuit, pat, g)
<1> DEFINE P == Projected(t, pat, g)
           Q == InScope(circuit, pat, g)
           n == Len(circuit)
<1>1. Shifted(P, Q, Width, n) /\ \A p \in P : t[p].gate \in Gates => p \in (Width + 1)..(Width + n)
  BY ProjectionShifted
<1>2. Agree(t, circuit, Width, n, pat)
  <2> SUFFICES ASSUME NEW i \in 1..n, NEW j \in 1..Len(pat.gates)
               PROVE  EventMatches(pat.gates[j], t[Width + i], pat.tolerance)
                         <=> Equal(circuit[i], pat.gates[j], pat.tolerance)
    BY DEF Agree
  <2>1. circuit[i] \in Instruction /\ t[Width + i] = EventOf(circuit[i])
    BY ElementOfSeq DEF Known, IsLower
  <2>2. pat.gates[j] \in GateSpec
    BY ElementOfSeq
  <2> QED
    BY <2>1, <2>2, MatchersAgree
<1>3. Q \in SUBSET Int /\ IsFiniteSet(Q) /\ Cardinality(Q) \in Nat
  BY <1>1, ShiftedTyped
<1> HIDE DEF P, Q, n
<1>4. Cardinality(WindowsIn(P, t, pat)) = Cardinality(StartsIn(Q, circuit, pat))
  BY <1>1, <1>2, SameWindows
<1>5. Windows(t, pat, g) = WindowsIn(P, t, pat)
  BY DEF Windows, P
<1>6. Len(Increasing(Q)) = Cardinality(Q)
  BY <1>3, IncreasingInP
<1>7. OracleCount(circuit, pat, g) = Cardinality(StartsIn(Q, circuit, pat))
  BY <1>6 DEF OracleCount, StartsIn, Q, InScope
<1> QED
  BY <1>4, <1>5, <1>7

LEMMA CountsAgree ==
    ASSUME NEW circuit, Known(circuit), NEW t, IsLower(t, circuit),
           NEW ps, PatternList(ps), NEW m
    PROVE  CountsOf(t, ps, m = "global") = CountPatterns(circuit, ps, m)
<1> DEFINE g == (m = "global")
<1>1. IsLower(t, circuit)
  OBVIOUS
<1> HIDE DEF g
<1>2. ASSUME NEW p \in DOMAIN ps
      PROVE  Cardinality({x \in FindMatches(t, ps, g) : x.pattern = p}) = OracleCount(circuit, ps[p], g)
  <2> DEFINE W == Windows(t, ps[p], g)
             F == [w \in W |-> [pattern |-> p, steps |-> w]]
             X == {x \in FindMatches(t, ps, g) : x.pattern = p}
  <2>1. /\ ps[p].gates \in Seq(GateSpec) /\ ps[p].tolerance \in Nat /\ Len(ps[p].gates) >= 2
    BY DEF PatternList, IsPattern
  <2>2. g \in BOOLEAN
    BY DEF g
  <2>3. Cardinality(W) = OracleCount(circuit, ps[p], g)
    BY <1>1, <2>1, <2>2, OneCount
  <2>4. IsFiniteSet(W)
    <3>1. t \in Seq(Event)
      BY <1>1 DEF IsLower
    <3> DEFINE P == Projected(t, ps[p], g)
    <3>2. P \in SUBSET (1..Len(t)) /\ IsFiniteSet(P)
      BY <3>1, ProjectedFinite
    <3>3. P \in SUBSET Int
      BY <3>2
    <3>4. W = WindowsIn(P, t, ps[p])
      BY DEF Windows
    <3> HIDE DEF P
    <3> QED
      BY <2>1, <3>2, <3>3, <3>4, WindowsFinite
  <2>5. \A w \in W : F[w] \in X
    <3> TAKE w \in W
    <3>1. F[w] = [pattern |-> p, steps |-> w] /\ F[w].pattern = p
      OBVIOUS
    <3>2. [pattern |-> p, steps |-> w] \in FindMatches(t, ps, g)
      BY DEF FindMatches
    <3> QED
      BY <3>1, <3>2
  <2>6. \A x \in X : \E w \in W : F[w] = x
    <3> SUFFICES ASSUME NEW x \in FindMatches(t, ps, g), x.pattern = p
                 PROVE  \E w \in W : F[w] = x
      OBVIOUS
    <3>1. PICK q \in DOMAIN ps : \E w \in Windows(t, ps[q], g) : x = [pattern |-> q, steps |-> w]
      BY DEF FindMatches
    <3>2. PICK w \in Windows(t, ps[q], g) : x = [pattern |-> q, steps |-> w]
      BY <3>1
    <3>3. q = p
      BY <3>2
    <3> QED
      BY <3>2, <3>3
  <2>7. \A v, w \in W : F[v] = F[w] => v = w
    OBVIOUS
  <2> HIDE DEF W, X
  <2>8. F \in [W -> X]
    BY <2>5
  <2> HIDE DEF F
  <2>9. F \in Bijection(W, X)
    BY <2>6, <2>7, <2>8 DEF Bijection, Injection, Surjection, IsInjective
  <2>10. Cardinality(X) = Cardinality(W)
    BY <2>4, <2>9, FS_Bijection DEF ExistsBijection
  <2> QED
    BY <2>3, <2>10 DEF X
<1>3. CountsOf(t, ps, g) = [p \in DOMAIN ps |-> OracleCount(circuit, ps[p], g)]
  BY <1>2 DEF CountsOf, CountMatches
<1> QED
  BY <1>3 DEF CountPatterns, g

-----------------------------------------------------------------------------
(***************************************************************************)
(* The counts that are returned.                                           *)
(***************************************************************************)
Catalogued ==
    /\ PatternList(catalog)
    /\ options \in MitigationOptions

\* A circuit is returned on the comparison of the report with the own counts.
Compared ==
    phase = "returned" => Consistent(CountsBefore, CountsAfter) /\ Acceptable(CountsBefore, CountsAfter)

Counted == Inv /\ Catalogued /\ Compared

LEMMA CountedInit == Init => Counted
<1> SUFFICES ASSUME Init
             PROVE  Counted
  OBVIOUS
<1>1. Inv
  BY InvInit
<1>2. catalog = <<>> /\ options \in OptionSets /\ phase = "called"
  BY DEF Init
<1>3. PatternList(catalog)
  BY <1>2 DEF PatternList
<1> QED
  BY <1>1, <1>2, <1>3, PipelineAssumption DEF Counted, Catalogued, Compared

\* The caller's patterns are a catalog the native matcher's lemmas apply to.
LEMMA CallerCatalogued == ASSUME Inv PROVE PatternList(caller.patterns)
<1>1. caller \in Calls \cup Edits
  BY DEF Inv, Snapshot
<1> QED
  BY <1>1, PipelineAssumption DEF PatternList

LEMMA CountedNext == Counted /\ [Next]_vars => Counted'
<1> SUFFICES ASSUME Counted, [Next]_vars
             PROVE  Counted'
  OBVIOUS
<1>1. Inv'
  BY InvNext DEF Counted
<1>2. Catalogued'
  <2>1. CASE Import
    <3>1. catalog' = caller.patterns /\ options' = options
      BY <2>1 DEF Import
    <3>2. PatternList(caller.patterns)
      BY CallerCatalogued DEF Counted
    <3> QED
      BY <3>1, <3>2 DEF Counted, Catalogued
  <2>2. CASE UNCHANGED <<catalog, options>>
    BY <2>2 DEF Counted, Catalogued
  <2>3. Import \/ UNCHANGED <<catalog, options>>
    BY DEF Next, vars, RejectInput, CompilerFails, Mitigate, RejectExport, Export, Validate,
       RejectReport, Return, CallerEdits, Raise
  <2> QED
    BY <2>1, <2>2, <2>3
<1>3. Compared'
  <2>1. CASE UNCHANGED <<source, catalog, options, report, output>> /\ (phase' = "returned" => phase = "returned")
    BY <2>1 DEF Counted, Compared, Consistent, Acceptable, CountsBefore, CountsAfter, Result
  <2>2. CASE Return
    <3>1. /\ Consistent(CountsBefore, CountsAfter) /\ Acceptable(CountsBefore, CountsAfter)
          /\ UNCHANGED <<source, catalog, options, report, output>>
      BY <2>2 DEF Return
    <3> QED
      BY <3>1 DEF Compared, Consistent, Acceptable, CountsBefore, CountsAfter, Result
  <2>3. CASE Import \/ Mitigate \/ Export
    BY <2>3 DEF Import, Mitigate, Export, Compared
  <2>4. \/ Return \/ Import \/ Mitigate \/ Export
        \/ UNCHANGED <<source, catalog, options, report, output>> /\ (phase' = "returned" => phase = "returned")
    BY DEF Next, vars, RejectInput, CompilerFails, RejectExport, Validate, RejectReport, CallerEdits, Raise
  <2> QED
    BY <2>1, <2>2, <2>3, <2>4
<1> QED
  BY <1>1, <1>2, <1>3 DEF Counted

\* What the exporter let through is of the gates and fences of the snapshot.
LEMMA CircuitsKnown ==
    ASSUME Inv, phase \in {"exported", "validated", "returned"}
    PROVE  Known(source) /\ Known(Result)
<1>1. source \in Seq(Instruction) /\ Importable(source) /\ Importable(Result)
  BY ExportedComplete DEF Inv, Snapshot
<1>2. /\ Len(source) \in Nat
      /\ output \in [1..Len(source) -> 1..Len(source)]
      /\ Len(output) = Len(source)
      /\ \A i \in 1..Len(source) : Result[i] = source[output[i]]
  BY ExportedOrder
<1>3. Result \in Seq(Instruction)
  <2> DEFINE n == Len(source)
  <2>1. \A i \in 1..n : source[output[i]] \in Instruction
    <3> TAKE i \in 1..n
    <3>1. output[i] \in 1..n
      BY <1>2
    <3> QED
      BY <1>1, <3>1, ElementOfSeq
  <2>2. Result = [i \in 1..n |-> source[output[i]]]
    BY <1>2 DEF Result, Rearranged
  <2>3. Result \in [1..n -> Instruction]
    BY <2>1, <2>2
  <2> QED
    BY <1>2, <2>3, FunctionIsSeq
<1> QED
  BY <1>1, <1>3 DEF Known, Importable

LEMMA NativeGlobal ==
    /\ NativeOptions(options).global = (options.matching = "global")
    /\ NativeOptions(options).localOnly = (options.acceptance = "local")
    /\ NativeOptions(options).totalOnly = (options.acceptance = "total")
BY Zenon DEF NativeOptions

\* Whatever mlirq-opt reported, the counts handed to the caller are the native
\* matcher's occurrences in the circuit that was imported and in the one that
\* is returned, and they keep the acceptance rule: count_patterns, written
\* apart, counts the same on every circuit, so that a report it agrees with is
\* true.
THEOREM ReturnedCountsAlwaysTrue == Spec => []ReturnedCountsTrue
<1>1. Counted => ReturnedCountsTrue
  <2> SUFFICES ASSUME Counted, phase = "returned"
               PROVE  LET native == NativeOptions(options)
                      IN  /\ report.before = CountsOf(Lower(source), catalog, native.global)
                          /\ report.after = CountsOf(Lower(Result), catalog, native.global)
                          /\ CountsAllowed(report.before, report.after, native)
    BY DEF ReturnedCountsTrue
  <2>1. Known(source) /\ Known(Result) /\ PatternList(catalog)
    BY CircuitsKnown DEF Counted, Catalogued
  <2>2. /\ CountsOf(Lower(source), catalog, options.matching = "global") = CountsBefore
        /\ CountsOf(Lower(Result), catalog, options.matching = "global") = CountsAfter
    <3>1. IsLower(Lower(source), source) /\ IsLower(Lower(Result), Result)
      BY <2>1, LowerIs DEF Known
    <3> QED
      BY <2>1, <3>1, CountsAgree DEF CountsBefore, CountsAfter
  <2>3. report.before = CountsBefore /\ report.after = CountsAfter /\ Acceptable(CountsBefore, CountsAfter)
    BY DEF Counted, Compared, Consistent
  <2>4. CountsAllowed(report.before, report.after, NativeOptions(options))
    <3>1. options.acceptance \in {"componentwise", "total", "local"}
      BY DEF Counted, Catalogued, MitigationOptions
    <3>2. /\ NativeOptions(options).localOnly <=> options.acceptance = "local"
          /\ NativeOptions(options).totalOnly <=> options.acceptance = "total"
      BY NativeGlobal
    <3> QED
      BY <2>3, <3>1, <3>2 DEF CountsAllowed, Acceptable
  <2>5. NativeOptions(options).global = (options.matching = "global")
    BY NativeGlobal
  <2>6. /\ CountsOf(Lower(source), catalog, NativeOptions(options).global) = CountsBefore
        /\ CountsOf(Lower(Result), catalog, NativeOptions(options).global) = CountsAfter
    BY <2>2, <2>5, Zenon
  <2> QED
    BY <2>3, <2>4, <2>6
<1> QED
  BY <1>1, CountedInit, CountedNext, PTL DEF Spec

-----------------------------------------------------------------------------
(***************************************************************************)
(* What a compiler that keeps its contract hands back.                     *)
(***************************************************************************)
\* The circuit moved is circuit in an order that keeps the sides of its fences.
FencesKept(n, circuit, order, moved) ==
    /\ n \in Nat /\ order \in [1..n -> 1..n]
    /\ \A i, j \in 1..n : order[i] = order[j] => i = j
    /\ \A i \in 1..n : moved[i].gate = circuit[order[i]].gate
    /\ \A i, j \in 1..n :
          i < j /\ (moved[i].gate \in Fences \/ moved[j].gate \in Fences) => order[i] < order[j]

\* Such an order keeps the epochs.
LEMMA FencesKeepEpochs ==
    ASSUME NEW n, NEW circuit, NEW order, NEW moved, FencesKept(n, circuit, order, moved),
           NEW k \in 1..n
    PROVE  Epoch(circuit, order[k]) = Epoch(moved, k)
<1> USE DEF FencesKept
<1> DEFINE A == FencesBefore(moved, k)
           B == FencesBefore(circuit, order[k])
           f == [j \in A |-> order[j]]
<1>0. \A c \in 1..n : \E j \in 1..n : order[j] = c
  BY OrderOnto
<1>1. order[k] \in 1..n /\ k \in Nat /\ order[k] \in Nat
  OBVIOUS
<1>2. ASSUME NEW j \in A
      PROVE  order[j] \in B
  <2>1. j \in 1..n /\ j < k /\ moved[j].gate \in Fences
    BY DEF FencesBefore
  <2>2. order[j] < order[k] /\ order[j] \in 1..n /\ circuit[order[j]].gate \in Fences
    BY <2>1
  <2> QED
    BY <1>1, <2>2 DEF FencesBefore
<1>3. ASSUME NEW b \in B
      PROVE  \E j \in A : order[j] = b
  <2>1. b \in 1..n /\ b < order[k] /\ circuit[b].gate \in Fences
    BY <1>1 DEF FencesBefore
  <2>2. PICK j \in 1..n : order[j] = b
    BY <1>0, <2>1
  <2>3. moved[j].gate \in Fences /\ j # k
    BY <2>1, <2>2
  <2>4. ~(k < j)
    BY <1>1, <2>1, <2>2, <2>3
  <2>5. j \in A
    BY <2>3, <2>4 DEF FencesBefore
  <2> QED
    BY <2>2, <2>5
<1>4. \A i, j \in A : f[i] = f[j] => i = j
  <2>1. \A j \in A : j \in 1..n
    BY DEF FencesBefore
  <2> QED
    BY <2>1
<1>5. f \in Bijection(A, B)
  <2>1. f \in [A -> B] /\ \A b \in B : \E j \in A : f[j] = b
    BY <1>2, <1>3
  <2> HIDE DEF f, A, B
  <2> QED
    BY <1>4, <2>1 DEF Bijection, Injection, Surjection, IsInjective
<1>6. IsFiniteSet(A)
  BY <1>1, EpochType
<1>7. Cardinality(A) = Cardinality(B)
  <2> HIDE DEF f, A, B
  <2> QED
    BY <1>5, <1>6, FS_Bijection DEF ExistsBijection
<1> QED
  BY <1>1, <1>7, EpochType

\* The rearrangement of a circuit by a permutation.
LEMMA RearrangedIs ==
    ASSUME NEW circuit, Known(circuit), NEW order, IsPermutationOf(order, Len(circuit))
    PROVE  /\ Len(circuit) \in Nat /\ DOMAIN circuit = 1..Len(circuit)
           /\ order \in [1..Len(circuit) -> 1..Len(circuit)]
           /\ \A i, j \in 1..Len(circuit) : order[i] = order[j] => i = j
           /\ Len(order) = Len(circuit)
           /\ Known(Rearranged(circuit, order))
           /\ Len(Rearranged(circuit, order)) = Len(circuit)
           /\ \A i \in 1..Len(circuit) : Rearranged(circuit, order)[i] = circuit[order[i]]
<1> DEFINE n == Len(circuit)
           moved == Rearranged(circuit, order)
<1>1. n \in Nat /\ DOMAIN circuit = 1..n
  BY LenProperties DEF Known
<1>2. order \in [1..n -> 1..n] /\ \A i, j \in 1..n : order[i] = order[j] => i = j
  BY DEF IsPermutationOf
<1>3. Len(order) = n
  BY <1>1, <1>2
<1>4. moved = [i \in 1..n |-> circuit[order[i]]]
  BY <1>3 DEF Rearranged
<1>5. \A i \in 1..n : circuit[order[i]] \in Instruction /\ circuit[order[i]].gate \in Gates \cup Fences
  <2> TAKE i \in 1..n
  <2>1. order[i] \in 1..n
    BY <1>2
  <2> QED
    BY <1>1, <2>1, ElementOfSeq DEF Known
<1> HIDE DEF n, moved
<1>6. moved \in [1..n -> Instruction]
  BY <1>4, <1>5
<1>7. moved \in Seq(Instruction) /\ Len(moved) = n
  BY <1>1, <1>6, FunctionIsSeq
<1>8. DOMAIN moved = 1..n /\ \A i \in 1..n : moved[i] = circuit[order[i]]
  BY <1>4
<1>9. Known(moved)
  BY <1>5, <1>7, <1>8 DEF Known
<1> QED
  BY <1>1, <1>2, <1>3, <1>7, <1>8, <1>9 DEF n, moved

\* A permutation of the instructions measures the same wires.
LEMMA UnmeasuredKept ==
    ASSUME NEW circuit, Known(circuit), NEW order, IsPermutationOf(order, Len(circuit))
    PROVE  Unmeasured(Rearranged(circuit, order)) = Unmeasured(circuit)
<1> DEFINE n == Len(circuit)
           moved == Rearranged(circuit, order)
<1>1. /\ n \in Nat /\ order \in [1..n -> 1..n] /\ DOMAIN circuit = 1..n
      /\ \A i, j \in 1..n : order[i] = order[j] => i = j
      /\ DOMAIN moved = 1..n /\ \A i \in 1..n : moved[i] = circuit[order[i]]
  <2>1. Len(order) = n
    BY RearrangedIs
  <2>2. DOMAIN moved = 1..n
    BY <2>1 DEF Rearranged
  <2> QED
    BY <2>2, RearrangedIs
<1>2. \A c \in 1..n : \E i \in 1..n : order[i] = c
  BY <1>1, OrderOnto
<1> HIDE DEF n, moved
<1>3. ASSUME NEW q, \A i \in 1..n : moved[i].gate = "measure" => q \notin WiresOf(moved[i]),
             NEW c \in 1..n, circuit[c].gate = "measure"
      PROVE  q \notin WiresOf(circuit[c])
  <2>1. PICK i \in 1..n : order[i] = c
    BY <1>2
  <2>2. moved[i] = circuit[c]
    BY <1>1, <2>1
  <2> QED
    BY <1>3, <2>2
<1>4. ASSUME NEW q, \A c \in 1..n : circuit[c].gate = "measure" => q \notin WiresOf(circuit[c]),
             NEW i \in 1..n, moved[i].gate = "measure"
      PROVE  q \notin WiresOf(moved[i])
  <2>1. order[i] \in 1..n /\ moved[i] = circuit[order[i]]
    BY <1>1
  <2> QED
    BY <1>4, <2>1
<1>5. \A q : (\A i \in 1..n : moved[i].gate = "measure" => q \notin WiresOf(moved[i]))
              <=> (\A c \in 1..n : circuit[c].gate = "measure" => q \notin WiresOf(circuit[c]))
  BY <1>3, <1>4
<1>6. Unmeasured(moved) = Unmeasured(circuit)
  BY <1>1, <1>5 DEF Unmeasured
<1> QED
  BY <1>6 DEF moved

\* The lowered module, rearranged by a lifted order, is the lowered module of
\* the rearranged circuit.
LEMMA LiftedIs ==
    ASSUME NEW circuit, Known(circuit), NEW order, IsPermutationOf(order, Len(circuit))
    PROVE  LET t == Lower(circuit)
               l == Lift(order, Len(t))
               n == Len(circuit)
           IN  /\ DOMAIN l = 1..Len(t)
               /\ \A i \in 1..n : Width + i \in 1..Len(t) /\ l[Width + i] = Width + order[i]
               /\ \A i \in 1..n : t[l[Width + i]] = EventOf(circuit[order[i]])
               /\ IsLower(Rearranged(t, l), Rearranged(circuit, order))
<1> DEFINE t == Lower(circuit)
           size == Len(t)
           l == Lift(order, size)
           n == Len(circuit)
           u == Rearranged(t, l)
           moved == Rearranged(circuit, order)
           k == Cardinality(Unmeasured(circuit))
           rest == Increasing(Unmeasured(circuit))
<1>1. /\ n \in Nat /\ Width \in Nat /\ k \in Nat
      /\ order \in [1..n -> 1..n] /\ Len(order) = n
      /\ Len(moved) = n /\ \A i \in 1..n : moved[i] = circuit[order[i]]
  BY RearrangedIs, UnmeasuredTyped, PipelineAssumption
<1>2. /\ t \in Seq(Event) /\ size = Width + n + k + 1 /\ size \in Nat
      /\ \A i \in 1..Width : t[i] = Bookkeeping("alloc", <<i - 1>>)
      /\ \A i \in 1..n : t[Width + i] = EventOf(circuit[i])
      /\ \A i \in 1..k : t[Width + n + i] = Bookkeeping("discard", <<rest[i]>>)
      /\ t[Width + n + k + 1] = Bookkeeping("output", <<>>)
  <2>1. IsLower(t, circuit)
    BY LowerIs DEF Known
  <2>2. size \in Nat
    BY <2>1, LenProperties DEF IsLower
  <2> QED
    BY <2>1, <2>2 DEF IsLower
<1>3. Unmeasured(moved) = Unmeasured(circuit)
  BY UnmeasuredKept
<1>4. l = [i \in 1..size |-> IF i \in (Width + 1)..(Width + n) THEN Width + order[i - Width] ELSE i]
  BY <1>1 DEF Lift
<1> HIDE DEF t, size, l, n, moved, k, rest
<1>5. \A i \in 1..n : Width + i \in 1..size /\ l[Width + i] = Width + order[i]
  <2> TAKE i \in 1..n
  <2>1. Width + i \in 1..size /\ Width + i \in (Width + 1)..(Width + n) /\ (Width + i) - Width = i
    BY <1>1, <1>2
  <2> QED
    BY <1>4, <2>1
<1>6. \A i \in 1..size : ~(i \in (Width + 1)..(Width + n)) => l[i] = i
  BY <1>4
<1>7. \A i \in 1..size : l[i] \in 1..size
  <2> TAKE i \in 1..size
  <2>1. CASE i \in (Width + 1)..(Width + n)
    <3>1. i - Width \in 1..n /\ l[i] = Width + order[i - Width]
      BY <1>1, <1>4, <2>1
    <3>2. order[i - Width] \in 1..n
      BY <1>1, <3>1
    <3>3. \A c \in 1..n : Width + c \in 1..size
      BY <1>1, <1>2
    <3> QED
      BY <3>1, <3>2, <3>3
  <2>2. CASE ~(i \in (Width + 1)..(Width + n))
    BY <1>6, <2>2
  <2> QED
    BY <2>1, <2>2
<1>8. Len(l) = size /\ DOMAIN l = 1..size
  BY <1>2, <1>4
<1>9. u = [i \in 1..size |-> t[l[i]]]
  BY <1>8 DEF Rearranged
<1> HIDE DEF u
<1>10. u \in Seq(Event) /\ Len(u) = size
  <2>1. \A i \in 1..size : t[l[i]] \in Event
    BY <1>2, <1>7, ElementOfSeq DEF size
  <2>2. u \in [1..size -> Event]
    BY <1>9, <2>1
  <2> QED
    BY <1>2, <2>2, FunctionIsSeq
<1>11. \A i \in 1..n : t[l[Width + i]] = EventOf(circuit[order[i]])
  BY <1>1, <1>2, <1>5
<1>12. \A i \in 1..n : u[Width + i] = EventOf(moved[i])
  BY <1>1, <1>5, <1>9, <1>11
<1>13. \A i \in 1..size : ~(i \in (Width + 1)..(Width + n)) => u[i] = t[i]
  BY <1>6, <1>9
<1>14. \A i \in 1..Width : u[i] = Bookkeeping("alloc", <<i - 1>>)
  <2> TAKE i \in 1..Width
  <2>1. i \in 1..size /\ ~(i \in (Width + 1)..(Width + n))
    BY <1>1, <1>2
  <2> QED
    BY <1>2, <1>13, <2>1
<1>15. \A i \in 1..k : u[Width + n + i] = Bookkeeping("discard", <<rest[i]>>)
  <2> TAKE i \in 1..k
  <2>1. Width + n + i \in 1..size /\ ~(Width + n + i \in (Width + 1)..(Width + n))
    BY <1>1, <1>2
  <2> QED
    BY <1>2, <1>13, <2>1
<1>16. u[Width + n + k + 1] = Bookkeeping("output", <<>>)
  <2>1. /\ Width + n + k + 1 \in 1..size
        /\ ~(Width + n + k + 1 \in (Width + 1)..(Width + n))
    BY <1>1, <1>2
  <2> QED
    BY <1>2, <1>13, <2>1
<1>17. IsLower(u, moved)
  BY <1>1, <1>2, <1>3, <1>10, <1>12, <1>14, <1>15, <1>16 DEF IsLower, k, rest
<1> QED
  BY <1>5, <1>8, <1>11, <1>17 DEF u, l, t, n, moved, size

\* A legal order leaves every instruction on its side of every fence: no rule
\* lets anything pass an event that may not move.
LEMMA LegalKeepsFences ==
    ASSUME NEW circuit, Known(circuit), NEW order, IsPermutationOf(order, Len(circuit)),
           NEW diagonalOnly,
           KeepsOrder(Lower(circuit), Lift(order, Len(Lower(circuit))), diagonalOnly),
           NEW i \in 1..Len(circuit), NEW j \in 1..Len(circuit), i < j,
           circuit[order[i]].gate \in Fences \/ circuit[order[j]].gate \in Fences
    PROVE  order[i] < order[j]
<1> DEFINE t == Lower(circuit)
           l == Lift(order, Len(t))
           n == Len(circuit)
<1>1. /\ DOMAIN l = 1..Len(t)
      /\ Width + i \in 1..Len(t) /\ l[Width + i] = Width + order[i]
      /\ Width + j \in 1..Len(t) /\ l[Width + j] = Width + order[j]
      /\ t[l[Width + i]] = EventOf(circuit[order[i]])
      /\ t[l[Width + j]] = EventOf(circuit[order[j]])
  BY LiftedIs
<1>2. n \in Nat /\ order[i] \in 1..n /\ order[j] \in 1..n /\ Width \in Nat
  <2>1. n \in Nat /\ order \in [1..n -> 1..n]
    BY RearrangedIs
  <2> QED
    BY <2>1, PipelineAssumption
<1>3. \A x : x.gate \in Fences => ~EventOf(x).movable
  <2> SUFFICES ASSUME NEW x, x.gate \in Fences
               PROVE  ~EventOf(x).movable
    OBVIOUS
  <2>1. EventOf(x).movable = (x.gate \in Gates)
    BY Zenon DEF EventOf
  <2>2. x.gate \notin Gates
    BY DEF Fences, Gates
  <2> QED
    BY <2>1, <2>2, Zenon
<1>4. ~Commutes(t[l[Width + i]], t[l[Width + j]], diagonalOnly)
  <2>1. ~EventOf(circuit[order[i]]).movable \/ ~EventOf(circuit[order[j]]).movable
    BY <1>3
  <2> QED
    BY <1>1, <2>1, Zenon DEF Commutes
<1> HIDE DEF t, l
<1>5. KeepsOrder(t, l, diagonalOnly)
  BY DEF t, l
<1>6. Width + i < Width + j
  BY <1>2
<1>7. l[Width + i] < l[Width + j]
  BY <1>1, <1>4, <1>5, <1>6 DEF KeepsOrder
<1> QED
  BY <1>1, <1>2, <1>7

-----------------------------------------------------------------------------
(***************************************************************************)
(* A compiler that keeps its contract is never turned down.                *)
(***************************************************************************)
Instructions(items) == [k \in DOMAIN items |-> items[k].instruction]

\* What came back passes every check that is still ahead of it.
Acknowledged ==
    LET after == CountPatterns(Instructions(payload.instructions), catalog, options.matching)
    IN  /\ Reconstructs(payload)
        /\ Consistent(CountsBefore, after)
        /\ Acceptable(CountsBefore, after)

Unrejected ==
    /\ ContractNeverRejected
    /\ phase \in {"mitigated", "exported", "validated"} => Acknowledged

\* The outcome the contract gives for an order of the instructions.
OutcomeOf(r, order) ==
    LET lowered == Lower(source)
        lifted == Lift(order, Len(lowered))
        before == CountsOf(lowered, catalog, options.matching = "global")
        after == CountsOf(Rearranged(lowered, lifted), catalog, options.matching = "global")
    IN  /\ IsPermutationOf(order, Len(source))
        /\ KeepsOrder(lowered, lifted, NativeOptions(options).diagonalOnly)
        /\ CountsAllowed(before, after, NativeOptions(options))
        /\ r.payload = [context |-> TRUE, instructions |-> Items(source, order)]
        /\ r.report.before = before /\ r.report.before_total = Total(before)
        /\ r.report.after = after /\ r.report.after_total = Total(after)

LEMMA ContractOrder ==
    ASSUME NEW r \in ContractOutcomes
    PROVE  \E order \in [1..Len(source) -> 1..Len(source)] : OutcomeOf(r, order)
<1> DEFINE native == NativeOptions(options)
           lowered == Lower(source)
           before == CountsOf(lowered, catalog, native.global)
           lifted(o) == Lift(o, Len(lowered))
           after(o) == CountsOf(Rearranged(lowered, lifted(o)), catalog, native.global)
           out(o) == [payload |-> [context |-> TRUE, instructions |-> Items(source, o)],
                      report |-> [before |-> before, after |-> after(o), before_total |-> Total(before),
                                  after_total |-> Total(after(o))],
                      kept |-> Contract(lowered, catalog, native, lifted(o), before, after(o))]
           orders == {o \in [1..Len(source) -> 1..Len(source)] : IsPermutationOf(o, Len(source))}
<1>1. ContractOutcomes =
         {[payload |-> x.payload, report |-> x.report] : x \in {y \in {out(o) : o \in orders} : y.kept}}
  BY DEF ContractOutcomes
<1>2. PICK x \in {y \in {out(o) : o \in orders} : y.kept} : r = [payload |-> x.payload, report |-> x.report]
  BY <1>1
<1>3. x.kept /\ \E o \in orders : x = out(o)
  BY <1>2
<1>4. PICK o \in orders : x = out(o)
  BY <1>3
<1>5. /\ o \in [1..Len(source) -> 1..Len(source)]
      /\ IsPermutationOf(o, Len(source))
  BY <1>4
<1> HIDE DEF before, after, lifted, orders, native, lowered
<1>6. Contract(lowered, catalog, native, lifted(o), before, after(o))
  BY <1>3, <1>4, Zenon
<1>7. /\ r.payload = [context |-> TRUE, instructions |-> Items(source, o)]
      /\ r.report = [before |-> before, after |-> after(o), before_total |-> Total(before),
                     after_total |-> Total(after(o))]
  BY <1>2, <1>4
<1>8. /\ r.report.before = before /\ r.report.before_total = Total(before)
      /\ r.report.after = after(o) /\ r.report.after_total = Total(after(o))
  BY <1>7
<1>9. native.global = (options.matching = "global")
  BY NativeGlobal DEF native
<1>10. /\ before = CountsOf(lowered, catalog, options.matching = "global")
       /\ after(o) = CountsOf(Rearranged(lowered, lifted(o)), catalog, options.matching = "global")
  BY <1>9, Zenon DEF before, after
<1>11. /\ KeepsOrder(lowered, lifted(o), native.diagonalOnly)
       /\ CountsAllowed(before, after(o), native)
  BY <1>6 DEF Contract
<1> QED
  BY <1>5, <1>7, <1>8, <1>10, <1>11, Zenon DEF OutcomeOf, native, lowered, lifted

\* The checks of the adapter, which shares no code with the native passes,
\* accept every outcome of the contract.
LEMMA OutcomeAccepted ==
    ASSUME Inv, Catalogued, NEW r \in ContractOutcomes
    PROVE  LET items == r.payload.instructions
               after == CountPatterns(Instructions(items), catalog, options.matching)
           IN  /\ r.payload.context /\ Complete(items) /\ EpochsKept(items)
               /\ r.report.before = CountsBefore /\ r.report.before_total = Total(CountsBefore)
               /\ r.report.after = after /\ r.report.after_total = Total(after)
               /\ Acceptable(CountsBefore, after)
<1>1. PICK order \in [1..Len(source) -> 1..Len(source)] : OutcomeOf(r, order)
  BY ContractOrder
<1> DEFINE n == Len(source)
           items == r.payload.instructions
           moved == Rearranged(source, order)
           lowered == Lower(source)
           lifted == Lift(order, Len(lowered))
           g == (options.matching = "global")
           before == CountsOf(lowered, catalog, g)
           after == CountsOf(Rearranged(lowered, lifted), catalog, g)
<1>2. /\ IsPermutationOf(order, n)
      /\ KeepsOrder(lowered, lifted, NativeOptions(options).diagonalOnly)
      /\ CountsAllowed(before, after, NativeOptions(options))
      /\ r.payload = [context |-> TRUE, instructions |-> Items(source, order)]
      /\ r.report.before = before /\ r.report.before_total = Total(before)
      /\ r.report.after = after /\ r.report.after_total = Total(after)
  BY <1>1, Zenon DEF OutcomeOf
<1>p. r.payload.context /\ items = Items(source, order)
  BY <1>2
<1>3. Known(source)
  BY DEF Inv, Snapshot, Importable, Known
<1>4. /\ n \in Nat /\ DOMAIN source = 1..n
      /\ order \in [1..n -> 1..n] /\ \A i, j \in 1..n : order[i] = order[j] => i = j
      /\ Len(order) = n /\ Known(moved) /\ Len(moved) = n
      /\ \A i \in 1..n : moved[i] = source[order[i]]
  BY <1>2, <1>3, RearrangedIs
<1>5. \A i, j \in 1..n :
         i < j /\ (moved[i].gate \in Fences \/ moved[j].gate \in Fences) => order[i] < order[j]
  BY <1>2, <1>3, <1>4, LegalKeepsFences
<1>6. items = [k \in 1..n |-> [source_index |-> order[k], instruction |-> source[order[k]]]]
  BY <1>p, <1>4 DEF Items
<1>7. /\ DOMAIN items = 1..n /\ Len(items) = n
      /\ \A k \in 1..n : items[k].source_index = order[k] /\ items[k].instruction = source[order[k]]
  BY <1>4, <1>6
<1>8. moved = [k \in 1..n |-> source[order[k]]]
  BY <1>4 DEF Rearranged
<1> HIDE DEF items, moved, n, lowered, lifted
<1>9. Instructions(items) = moved
  BY <1>7, <1>8 DEF Instructions
<1>10. Complete(items)
  BY <1>4, <1>7 DEF Complete, n
<1>11. EpochsKept(items)
  <2>1. \A i \in 1..n : moved[i].gate = source[order[i]].gate
    BY <1>4
  <2>2. FencesKept(n, source, order, moved)
    BY <1>4, <1>5, <2>1 DEF FencesKept
  <2>3. \A k \in 1..n : Epoch(source, order[k]) = Epoch(moved, k)
    BY <2>2, FencesKeepEpochs
  <2> QED
    BY <1>7, <1>9, <2>3 DEF EpochsKept, Instructions
<1>12. before = CountsBefore
  <2>1. IsLower(lowered, source)
    BY <1>3, LowerIs DEF Known, lowered
  <2> QED
    BY <1>3, <2>1, CountsAgree DEF CountsBefore, Catalogued
<1>13. after = CountPatterns(moved, catalog, options.matching)
  <2>1. IsLower(Rearranged(lowered, lifted), moved)
    BY <1>2, <1>3, LiftedIs DEF lowered, lifted, moved, n
  <2> QED
    BY <1>4, <2>1, CountsAgree DEF Catalogued
<1>14. Acceptable(before, after)
  <2>1. options.acceptance \in {"componentwise", "total", "local"}
    BY DEF Catalogued, MitigationOptions
  <2>2. /\ NativeOptions(options).localOnly <=> options.acceptance = "local"
        /\ NativeOptions(options).totalOnly <=> options.acceptance = "total"
    BY NativeGlobal
  <2> HIDE DEF before, after
  <2> QED
    BY <1>2, <2>1, <2>2 DEF CountsAllowed, Acceptable
<1> HIDE DEF before, after
<1> QED
  BY <1>2, <1>p, <1>9, <1>10, <1>11, <1>12, <1>13, <1>14 DEF items

\* The circuit that is rebuilt is the one that came back.
LEMMA ResultIsPayload ==
    ASSUME Inv, phase \in {"exported", "validated", "returned"}
    PROVE  Result = Instructions(payload.instructions)
<1> DEFINE n == Len(source)
           items == payload.instructions
<1>1. /\ n \in Nat /\ DOMAIN source = 1..n /\ Complete(items) /\ items \in Seq(Item)
      /\ output = [k \in DOMAIN items |-> items[k].source_index]
  BY DEF Inv, Snapshot, PayloadType, OutputOfPayload, Reconstructs
<1>2. DOMAIN items = 1..n
  BY <1>1 DEF Complete
<1>3. Len(output) = n
  BY <1>1, <1>2
<1> QED
  BY <1>1, <1>2, <1>3 DEF Result, Rearranged, Complete, Instructions

Accepting == Inv /\ Catalogued /\ Unrejected

LEMMA AcceptingNext ==
    ASSUME Compiler = "contract", Accepting, Counted', [Next]_vars
    PROVE  Accepting'
<1> USE DEF Accepting
<1> SUFFICES Unrejected'
  BY DEF Counted
<1>2. ASSUME UNCHANGED <<source, catalog, options, payload, report, error>>,
             phase' \in {"mitigated", "exported", "validated"} =>
                phase \in {"mitigated", "exported", "validated"}
      PROVE  Unrejected'
  BY <1>2 DEF Unrejected, ContractNeverRejected, Acknowledged, Reconstructs, Complete, EpochsKept,
     Consistent, Acceptable, CountsBefore
<1>3. CASE RejectInput
  BY <1>3 DEF RejectInput, Raise, Unrejected, ContractNeverRejected
<1>4. CASE Import
  BY <1>4 DEF Import, Unrejected, ContractNeverRejected
<1>5. CASE CompilerFails
  BY <1>5 DEF CompilerFails, Raise, Unrejected, ContractNeverRejected
<1>6. CASE Mitigate
  <2>1. PICK r \in ContractOutcomes : payload' = r.payload /\ report' = r.report
    BY <1>6 DEF Mitigate, Outcomes
  <2>2. /\ UNCHANGED <<source, catalog, options, error>> /\ phase' = "mitigated"
    BY <1>6 DEF Mitigate
  <2> DEFINE items == r.payload.instructions
             after == CountPatterns(Instructions(items), catalog, options.matching)
  <2>3. /\ r.payload.context /\ Complete(items) /\ EpochsKept(items)
        /\ r.report.before = CountsBefore /\ r.report.before_total = Total(CountsBefore)
        /\ r.report.after = after /\ r.report.after_total = Total(after)
        /\ Acceptable(CountsBefore, after)
    BY OutcomeAccepted
  <2>4. CountsBefore' = CountsBefore
    BY <2>2 DEF CountsBefore
  <2>5. Reconstructs(payload)'
    BY <2>1, <2>2, <2>3 DEF Reconstructs, Complete, EpochsKept
  <2>6. Acknowledged'
    BY <2>1, <2>2, <2>3, <2>4, <2>5 DEF Acknowledged, Consistent, Acceptable
  <2> QED
    BY <2>2, <2>6 DEF Unrejected, ContractNeverRejected
<1>7. CASE Export
  BY <1>2, <1>7 DEF Export
<1>8. CASE RejectExport
  BY <1>8 DEF RejectExport, Unrejected, Acknowledged
<1>9. CASE Validate
  <2>1. TargetAccepts(Result)
    BY <1>9, ExportedComplete DEF Validate, Importable
  <2> QED
    BY <1>2, <1>9, <2>1 DEF Validate
<1>10. CASE Return
  BY <1>10 DEF Return, Unrejected, ContractNeverRejected
<1>11. CASE RejectReport
  <2>1. phase = "validated" /\ ~(Consistent(CountsBefore, CountsAfter) /\ Acceptable(CountsBefore, CountsAfter))
    BY <1>11 DEF RejectReport
  <2>2. Result = Instructions(payload.instructions)
    BY <2>1, ResultIsPayload
  <2>3. Acknowledged
    BY <2>1 DEF Unrejected
  <2> QED
    BY <2>1, <2>2, <2>3 DEF Acknowledged, CountsAfter
<1>12. CASE CallerEdits
  BY <1>2, <1>12 DEF CallerEdits
<1>13. CASE UNCHANGED vars
  BY <1>2, <1>13 DEF vars
<1> QED
  BY <1>3, <1>4, <1>5, <1>6, <1>7, <1>8, <1>9, <1>10, <1>11, <1>12, <1>13 DEF Next

\* A compiler that keeps the contract of MitigateContract is never turned down,
\* on any circuit, Target, catalog or options: no export, target or report
\* error is raised over what it hands back.
THEOREM ContractAlwaysAccepted ==
    ASSUME Compiler = "contract"
    PROVE  Spec => []ContractNeverRejected
<1>1. Init => Counted /\ Accepting
  <2> SUFFICES ASSUME Init
               PROVE  Counted /\ Accepting
    OBVIOUS
  <2>1. Counted
    BY CountedInit
  <2>2. Unrejected
    BY DEF Init, Unrejected, ContractNeverRejected
  <2> QED
    BY <2>1, <2>2 DEF Counted, Accepting
<1>2. Counted /\ Accepting /\ [Next]_vars => (Counted /\ Accepting)'
  BY CountedNext, AcceptingNext
<1>3. Counted /\ Accepting => ContractNeverRejected
  BY DEF Accepting, Unrejected
<1> QED
  BY <1>1, <1>2, <1>3, PTL DEF Spec


-----------------------------------------------------------------------------
(***************************************************************************)
(* Types.                                                                  *)
(***************************************************************************)
Typed == Inv /\ TypeOK

\* What comes back from the compiler can be read as a payload.
LEMMA PayloadReadable ==
    ASSUME NEW r \in Outcomes
    PROVE  DOMAIN r.payload = {"context", "instructions"}
<1>1. CASE Compiler = "contract"
  <2>1. r \in ContractOutcomes
    BY <1>1 DEF Outcomes
  <2>2. PICK order \in [1..Len(source) -> 1..Len(source)] : OutcomeOf(r, order)
    BY <2>1, ContractOrder
  <2>3. r.payload = [context |-> TRUE, instructions |-> Items(source, order)]
    BY <2>2, Zenon DEF OutcomeOf
  <2> QED
    BY <2>3
<1>2. CASE Compiler # "contract"
  <2>1. r \in ArbitraryOutcomes
    BY <1>2 DEF Outcomes
  <2> DEFINE items == [source_index : 0..Len(source), instruction : {source[i] : i \in DOMAIN source}]
             lists == UNION {[1..n -> items] : n \in 0..Len(source)}
  <2>2. r.payload \in [context : BOOLEAN, instructions : lists]
    BY <2>1 DEF ArbitraryOutcomes
  <2> HIDE DEF lists
  <2> QED
    BY <2>2
<1> QED
  BY <1>1, <1>2

LEMMA TypedNext == Typed /\ [Next]_vars => Typed'
<1> SUFFICES ASSUME Typed, [Next]_vars
             PROVE  TypeOK'
  BY InvNext DEF Typed
<1> USE DEF Typed, TypeOK
<1>1. ASSUME UNCHANGED <<options, payload, output, error>>, caller' \in Calls \cup Edits,
             phase # "raised",
             phase' \in {"imported", "mitigated", "exported", "validated", "returned"}
      PROVE  TypeOK'
  BY <1>1
<1>2. ASSUME NEW kind \in {"input", "native", "export", "target", "report"}, Raise(kind)
      PROVE  TypeOK'
  <2>1. kind # "none"
    OBVIOUS
  <2> QED
    BY <1>2, <2>1 DEF Raise
<1>3. CASE RejectInput
  BY <1>2, <1>3 DEF RejectInput
<1>4. CASE Import
  BY <1>1, <1>4 DEF Import
<1>5. CASE CompilerFails
  BY <1>2, <1>5 DEF CompilerFails
<1>6. CASE Mitigate
  <2>1. PICK r \in Outcomes : payload' = r.payload
    BY <1>6 DEF Mitigate
  <2>2. DOMAIN payload' = {"context", "instructions"}
    BY <2>1, PayloadReadable
  <2> QED
    BY <1>6, <2>2 DEF Mitigate
<1>7. CASE Export
  <2> DEFINE items == payload.instructions
             n == Len(source)
  <2>1. /\ n \in Nat /\ DOMAIN source = 1..n /\ items \in Seq(Item) /\ Complete(items)
        /\ output' = [k \in DOMAIN items |-> items[k].source_index]
    BY <1>7 DEF Export, Reconstructs, Inv, Snapshot, PayloadType
  <2>2. DOMAIN items = 1..n /\ \A k \in 1..n : items[k].source_index \in 1..n
    BY <2>1 DEF Complete
  <2>3. output' \in [1..n -> Nat]
    BY <2>1, <2>2
  <2>4. output' \in Seq(Nat)
    BY <2>1, <2>3, FunctionIsSeq
  <2> QED
    BY <1>7, <2>4 DEF Export
<1>8. CASE RejectExport
  BY <1>2, <1>8 DEF RejectExport
<1>9. CASE Validate
  <2>1. CASE TargetAccepts(Result)
    BY <1>1, <1>9, <2>1 DEF Validate
  <2>2. CASE ~TargetAccepts(Result)
    BY <1>2, <1>9, <2>2 DEF Validate
  <2> QED
    BY <2>1, <2>2
<1>10. CASE Return
  BY <1>1, <1>10 DEF Return
<1>11. CASE RejectReport
  BY <1>2, <1>11 DEF RejectReport
<1>12. CASE CallerEdits
  BY <1>12 DEF CallerEdits
<1>13. CASE UNCHANGED vars
  BY <1>13 DEF vars
<1> QED
  BY <1>3, <1>4, <1>5, <1>6, <1>7, <1>8, <1>9, <1>10, <1>11, <1>12, <1>13 DEF Next

\* The call's fields have their types, and an exception is recorded exactly
\* when the call was ended by one.
THEOREM TypeCorrect == Spec => []TypeOK
<1>1. Init => Typed
  <2> SUFFICES ASSUME Init
               PROVE  TypeOK
    BY InvInit DEF Typed
  <2> QED
    BY DEF Init, TypeOK
<1>2. Typed => TypeOK
  BY DEF Typed
<1> QED
  BY <1>1, <1>2, TypedNext, PTL DEF Spec
=============================================================================
