---------------------------- MODULE CompilerRunMC ----------------------------
(***************************************************************************)
(* Instances of CompilerRun for TLC: modules of up to two circuits, the    *)
(* pipelines of the adapter and those of the documentation.                *)
(***************************************************************************)
EXTENDS CompilerRun

Inputs == {[stage |-> s, routable |-> r, fits |-> f, imported |-> i, form |-> "source", note |-> "none"] :
              s \in {"none", "logical", "architecture"}, r \in BOOLEAN, f \in BOOLEAN, i \in BOOLEAN}
ValidInputs == Inputs \cap Circuit

Mapped == [stage |-> "architecture", routable |-> TRUE, fits |-> TRUE, imported |-> TRUE,
           form |-> "source", note |-> "none"]

AdapterPasses == {<<"qrisk-mitigate", "verify-target">>, <<"qrisk-scan", "verify-target">>,
                  <<"verify-target">>, <<"verify-target", "export-qiskit">>}

ShellPasses == {<<"logical-opt", "map-identity", "verify-target">>,
                <<"map-identity", "qrisk-scan">>,
                <<"map-identity", "logical-opt">>,
                <<"qrisk-mitigate", "map-identity">>,
                <<"map-identity", "export-qiskit", "qrisk-mitigate">>,
                <<"logical-opt", "map-identity", "qrisk-mitigate", "verify-target", "export-qiskit">>}

AdapterJobs == [by : {"adapter"}, passes : AdapterPasses, catalog : BOOLEAN, oldReport : {FALSE},
                module : {<<c>> : c \in {d \in ValidInputs : d.stage = "architecture" /\ d.imported}}]

ShellJobs == [by : {"shell"}, passes : ShellPasses, catalog : BOOLEAN, oldReport : BOOLEAN,
              module : UNION {[1..n -> ValidInputs] : n \in 0..2}]

AllJobs == AdapterJobs \cup ShellJobs
=============================================================================
