\* Circuits of two and three wires, up to seven gates, one or two in a module; all
\* pairs of gates on three wires.
CONSTANTS
    WireCount = 3
    Phases <- SomePhases
    Inputs <- SomeInputs
    Pipelines <- SomePipelines
    MaxMoves = 2
SPECIFICATION Spec
INVARIANTS
    ModuleStaysVerified
    WiresLiveAndEndOnce
    IdealBehaviourKept
    OptimizedIsReduced
    FailuresAreStated
    CommutesSound
    CommutesSymmetric
CHECK_DEADLOCK FALSE
