------------------------- MODULE ExperimentRunnerMC -------------------------
(***************************************************************************)
(* Instances of ExperimentRunner for TLC.                                  *)
(***************************************************************************)
EXTENDS ExperimentRunner

Setup(rq, cases, restricted, methods, repeats) ==
    [rq |-> rq, cases |-> cases, restricted |-> restricted, methods |-> methods, repeats |-> repeats]

\* Two cases of which QRisk takes one, a case for three methods, and repeats.
SomeSetups ==
    {Setup("rq1", 2, {}, {}, 1),
     Setup("rq2", 2, {1}, {"mlirq", "qrisk"}, 1),
     Setup("rq2", 1, {}, {"mlirq", "qrisk", "qiskit"}, 1),
     Setup("rq3", 1, {1}, {"qrisk", "local"}, 2),
     Setup("rq4", 2, {}, {}, 2)}

\* Two circuits whose meaning is checked before they are simulated.
ExactCheckSetups == {Setup("rq4", 2, {}, {}, 1)}
=============================================================================
