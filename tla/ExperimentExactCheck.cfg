\* Two circuits of rq4: one may be simulated, the other fail its exact check.
CONSTANTS
    Setups <- ExactCheckSetups
SPECIFICATION Spec
INVARIANT ChangedMeaningFails
CHECK_DEADLOCK FALSE
