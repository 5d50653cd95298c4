---------------------------- MODULE CircuitPasses ----------------------------
(***************************************************************************)
(* mlirq-opt on a module of circuits: the verifier on what it parsed, then *)
(* the passes of the command line, the verifier after each of them.  Where *)
(* CompilerRun follows failures and files, this module follows the circuits*)
(* themselves, operation by operation: what the passes of                  *)
(* lib/Transforms/Passes.cpp and the reordering of QRiskPasses.cpp do to   *)
(* SSA form, to placements and to the meaning of a circuit.                *)
(*                                                                         *)
(* The greedy rewrite driver and the pass manager are MLIR's: the driver   *)
(* rewrites any pair the pattern matches, in any order, and gives up after *)
(* a number of rounds.                                                     *)
(***************************************************************************)
EXTENDS CircuitIR, GateAlgebra, MitigateContract

CONSTANTS
    Inputs,     \* what is parsed: sequences of circuits
    Pipelines,  \* sequences of passes
    MaxMoves    \* the moves of one mitigation

\* The register of the matrices is wide enough, and their table has the angles.
FitsRegister(circuit) ==
    /\ Cardinality(Allocs(circuit)) <= WireCount
    /\ \A op \in ToSet(circuit.ops) :
          op.gate = "rz" => \E angle \in DOMAIN Phases : op.angle = {angle}

ASSUME PassAssumption ==
    /\ MaxMoves \in Nat
    /\ \A parsed \in Inputs : parsed \in Seq(Circuit) /\ \A c \in DOMAIN parsed : IsCircuit(parsed[c])
    /\ \A parsed \in Inputs : \A c \in DOMAIN parsed : FitsRegister(parsed[c])
    /\ Pipelines \subseteq Seq({"logical-opt", "map-identity", "qrisk-mitigate", "verify-target"})

VARIABLES
    input,      \* the module as it was parsed
    module,     \* the module the passes work on
    before,     \* the module the running pass got
    pipeline,   \* the passes of the command line
    at,         \* the running pass
    pc          \* "parse", "pass", "rewrite", "verify", "exit 0" or "exit 1"

vars == <<input, module, before, pipeline, at, pc>>
command == <<input, pipeline>>

Init ==
    /\ input \in Inputs
    /\ module = input /\ before = input
    /\ pipeline \in Pipelines
    /\ at = 0
    /\ pc = "parse"

Running(pass) == pc = "pass" /\ pipeline[at] = pass

\* What is left unsaid is kept by a pass that fails.
Fails ==
    /\ pc' = "exit 1"
    /\ UNCHANGED <<command, module, before, at>>

Becomes(m) ==
    /\ module' = m
    /\ pc' = "verify"
    /\ UNCHANGED <<command, before, at>>

\* The parser's verification, and the pass manager's after each pass.
Verify ==
    /\ pc \in {"parse", "verify"}
    /\ Verifies(module)
    /\ before' = module
    /\ at' = at + 1
    /\ pc' = IF at = Len(pipeline) THEN "exit 0" ELSE "pass"
    /\ UNCHANGED <<command, module>>

VerifyFails == pc \in {"parse", "verify"} /\ ~Verifies(module) /\ Fails

-----------------------------------------------------------------------------
(***************************************************************************)
(* mlirq-logical-opt.                                                      *)
(***************************************************************************)
AtLogicalStage == \A c \in DOMAIN module : module[c].stage \in {"none", "logical"}

LogicalOpt ==
    /\ Running("logical-opt") /\ AtLogicalStage
    /\ pc' = "rewrite"
    /\ UNCHANGED <<command, module, before, at>>

LogicalOptRefuses == Running("logical-opt") /\ ~AtLogicalStage /\ Fails

PairsOfOps ==
    UNION {{<<c, i, j>> : i \in DOMAIN module[c].ops, j \in DOMAIN module[c].ops} : c \in DOMAIN module}

Cancel ==
    /\ pc = "rewrite"
    /\ \E p \in PairsOfOps :
          /\ Cancels(module[p[1]], p[2], p[3])
          /\ module' = [module EXCEPT ![p[1]] = Cancelled(@, p[2], p[3])]
    /\ UNCHANGED <<command, before, at, pc>>

\* The driver is done when no pattern matches.
RewritesDone ==
    /\ pc = "rewrite"
    /\ \A p \in PairsOfOps : ~Cancels(module[p[1]], p[2], p[3])
    /\ Becomes(module)

\* It does not converge within its rounds: the pass fails as it is.
RewritesGivenUp == pc = "rewrite" /\ module # before /\ Fails

-----------------------------------------------------------------------------
(***************************************************************************)
(* mlirq-map-identity and mlirq-verify-target.                             *)
(***************************************************************************)

\* Seeded defect: the count goes on from one circuit to the next.
CandidateAcrossCircuits(c) ==
    [id \in AllocIds(module[c]) |->
        IdentityPlacement(module[c])[id]
            + IF c = 1 THEN 0 ELSE Cardinality(AllocIds(module[c - 1]))]

Candidate(c) == IdentityPlacement(module[c])

Mappable == AtLogicalStage /\ \A c \in DOMAIN module : MappedVerifies(module[c], Candidate(c))

MapIdentity ==
    /\ Running("map-identity") /\ Mappable
    /\ Becomes([c \in DOMAIN module |-> Placed(module[c], Candidate(c))])

MapIdentityRefuses == Running("map-identity") /\ ~Mappable /\ Fails

TargetVerifies ==
    \A c \in DOMAIN module :
        module[c].stage = "architecture" /\ MappedVerifies(module[c], Physical(module[c]))

VerifyTarget == Running("verify-target") /\ TargetVerifies /\ Becomes(module)
VerifyTargetFails == Running("verify-target") /\ ~TargetVerifies /\ Fails

-----------------------------------------------------------------------------
(***************************************************************************)
(* mlirq-qrisk-mitigate, for any moves its rules allow (QRiskMitigate has  *)
(* the search): the new order is applied to a clone and verified there.    *)
(***************************************************************************)
LegalMoves(trace) ==
    {m \in [left : DOMAIN trace, right : DOMAIN trace, direction : {0, 1}] :
        m.left < m.right /\ Legal(trace, m, FALSE)}

\* The orders up to MaxMoves moves reach from the present one.
OrdersWithin(trace) ==
    LET unmoved == [i \in DOMAIN trace |-> i]
        reach[n \in 0..MaxMoves] ==
            IF n = 0 THEN {unmoved}
            ELSE UNION {{o} \cup {Rotate(o, m) : m \in LegalMoves(Rearranged(trace, o))} : o \in reach[n - 1]}
    IN  reach[MaxMoves]

Applied(c) ==
    LET trace == BuildTrace(module[c])
    IN  {ApplyOrder(module[c], trace, order) : order \in OrdersWithin(trace)}

\* One order for each circuit of the module.
Plans ==
    {plan \in [DOMAIN module -> UNION {Applied(c) : c \in DOMAIN module}] :
        \A c \in DOMAIN module : plan[c] \in Applied(c)}

Sound(plan) == \A c \in DOMAIN plan : ~plan[c].crossed /\ CircuitVerifies(plan[c].circuit)

QRiskMitigate ==
    /\ Running("qrisk-mitigate") /\ TargetVerifies
    /\ \E plan \in Plans :
          IF Sound(plan) THEN Becomes([c \in DOMAIN module |-> plan[c].circuit]) ELSE Fails

QRiskMitigateRefuses == Running("qrisk-mitigate") /\ ~TargetVerifies /\ Fails

Next ==
    \/ Verify \/ VerifyFails
    \/ LogicalOpt \/ LogicalOptRefuses \/ Cancel \/ RewritesDone \/ RewritesGivenUp
    \/ MapIdentity \/ MapIdentityRefuses
    \/ VerifyTarget \/ VerifyTargetFails
    \/ QRiskMitigate \/ QRiskMitigateRefuses

Spec == Init /\ [][Next]_vars

-----------------------------------------------------------------------------
(***************************************************************************)
(* Properties.  Wires are the allocations of the parsed circuit, in order. *)
(***************************************************************************)
Parsed == at > 0

Words(circuit, index) ==
    LET trace == TraceUnder(circuit, index)
    IN  [i \in DOMAIN trace |-> [event |-> trace[i], notes |-> circuit.ops[i].notes]]

Word(c) == Words(module[c], IdentityPlacement(input[c]))

\* Every pass, and every single rewrite within a pass, leaves circuits the
\* verifier accepts: each quantum value with exactly one use, mapped circuits
\* legal for their target ("valid linear SSA", docs/architecture.md).
ModuleStaysVerified == Parsed => Verifies(module)

\* The SSA rules of the verifier give what the QRisk passes rely on: on its
\* wire no operation comes before the allocation or after the end, and every
\* allocated wire has exactly one end, a measurement or a discard.
WiresLiveAndEndOnce ==
    Parsed => \A c \in DOMAIN module :
        LET trace == TraceUnder(module[c], IdentityPlacement(input[c]))
        IN  /\ WithinLifetimes(trace)
            /\ \A id \in AllocIds(module[c]) :
                  Cardinality({i \in DOMAIN trace :
                      /\ trace[i].gate \in {"measure", "discard"}
                      /\ trace[i].qubits = <<IdentityPlacement(input[c])[id]>>}) = 1

\* The wires the output's bits were measured on, in the order of the output.
Measured(circuit, index) ==
    LET place == Placement(circuit, index)
        bits == circuit.ops[Len(circuit.ops)].operands
    IN  [k \in DOMAIN bits |-> place[circuit.ops[Position(circuit, bits[k][1])].operands[1]]]

BehaviourOf(circuit, index) == Behaviour(TraceUnder(circuit, index))

\* Cancelling, placing and reordering keep the ideal behaviour: the gates as
\* they stand have the matrix of the gates as they were parsed, phase included,
\* and the output still returns the bits of the same wires.
IdealBehaviourKept ==
    Parsed => \A c \in DOMAIN module :
        LET index == IdentityPlacement(input[c])
        IN  /\ Measured(module[c], index) = Measured(input[c], index)
            /\ SameBehaviour(BehaviourOf(input[c], index), BehaviourOf(module[c], index))

\* Taking the operations in turn and dropping each that is equal to the last
\* one kept, with it.
Reduced(word) ==
    FoldLeft(LAMBDA kept, e :
                IF kept # <<>> /\ Last(kept) = e /\ e.event.gate \in SelfInverse /\ e.notes = {}
                THEN Front(kept) ELSE Append(kept, e), <<>>, word)

\* Whatever order the driver cancels in, and whatever pairs that exposes, a
\* logical optimization that succeeds ends with the one reduced form of what it
\* got: no adjacent pair is left and nothing else is lost.
OptimizedIsReduced ==
    pc = "verify" /\ pipeline[at] = "logical-opt" =>
        \A c \in DOMAIN module :
            Word(c) = Reduced(Words(before[c], IdentityPlacement(input[c])))

\* A pass fails only for what it documents: the wrong stage, a circuit that
\* does not fit its target already as it was parsed (an optimization before does
\* not cost the fit), or a driver that gave up.  In particular mapped circuits
\* pass the target verifier, and no reordering fails.
FailuresAreStated ==
    Parsed /\ pc = "exit 1" =>
        CASE pipeline[at] = "logical-opt" -> module # before \/ ~AtLogicalStage
          [] pipeline[at] = "map-identity" ->
                \E c \in DOMAIN module :
                    \/ module[c].stage = "architecture"
                    \/ ~MappedVerifies(input[c], IdentityPlacement(input[c]))
          [] OTHER -> \E c \in DOMAIN module : module[c].stage # "architecture"

\* "These identities commute exactly, including phase, for all input states":
\* whatever gates a circuit may have, each pair qrisk-mitigate will exchange has
\* the same matrix in either order.
CommutesSound == Running("qrisk-mitigate") => WhitelistExact

\* The search asks about a pair in either order (direction 0 and 1), and a later
\* run of the pass may ask about it the other way round: the answer has to be the
\* same, and the diagonal rules alone accept no pair that all of them refuse.
CommutesSymmetric == Running("qrisk-mitigate") => WhitelistSymmetric
=============================================================================
