---------------------------- MODULE ImportCatalog ----------------------------
(***************************************************************************)
(* tools/import_qrisk.py: reports and pattern memories of upstream QRisk,  *)
(* each bound to a backend, become the observations of a pattern catalog;  *)
(* a pattern is promoted when it was observed at enough different times.   *)
(* At the other end loadCatalog (lib/Transforms/QRiskPasses.cpp) reads it. *)
(*                                                                         *)
(* A timestamp is an instant and the notation it is written in.  Malformed *)
(* JSON, names and schema versions are one flag of a file, "readable".     *)
(***************************************************************************)
EXTENDS QRiskTrace, SequencesExt

CONSTANTS
    Files,    \* path -> what the file holds
    Calls,    \* records: the reports and databases of the command line, both
              \* sequences of [backend, path], and the least number of observations
    MaxIndex  \* the largest integer getAsInteger yields, 2^63 - 1

Tolerance == 1       \* angle_tolerance, in units of 1e-5
MaxTolerance == 1    \* what loadCatalog accepts, the boundary included

ASSUME IndexAssumption == MaxIndex \in Nat

ASSUME FileAssumption ==
    \A path \in DOMAIN Files :
        LET file == Files[path]
        IN  /\ file.kind \in {"report", "database"} /\ file.readable \in BOOLEAN
            /\ file.kind = "report" => DOMAIN file =
                  {"kind", "readable", "pattern", "simulated", "backend", "time"}
            /\ file.kind = "database" => DOMAIN file = {"kind", "readable", "backend", "entries"}

Input == [backend : STRING, path : DOMAIN Files]

ASSUME CallAssumption ==
    \A c \in Calls : /\ c.reports \in Seq(Input) /\ c.databases \in Seq(Input)
                     /\ c.least \in Nat \ {0}

VARIABLES
    call,
    todo,      \* the inputs not read yet, reports first
    groups,    \* [backend, gates] -> time -> the sources that say so
    pc,        \* "read", "done" (and written) or "rejected"
    catalog    \* the patterns promoted

vars == <<call, todo, groups, pc, catalog>>

Nothing == <<>>

Init ==
    /\ call \in Calls
    /\ todo = call.reports \o call.databases
    /\ groups = Nothing
    /\ pc = "read"
    /\ catalog = {}

-----------------------------------------------------------------------------
(***************************************************************************)
(* Reading one input.                                                      *)
(***************************************************************************)

\* A token: a gate's name, its qubits (Python integers, of any size), its
\* parameters.
RawToken == [gate : STRING, qubits : Seq(Int), params : Seq(Int)]

\* Seeded defect: a gate may name one qubit twice.
TokenOfEqualQubits(token) ==
    /\ token.gate \in Gates
    /\ Len(token.qubits) = Arity(token.gate)
    /\ \A i \in DOMAIN token.qubits : token.qubits[i] >= 0
    /\ Len(token.params) = IF token.gate = "rz" THEN 1 ELSE 0

IsToken(token) ==
    /\ token.gate \in Gates
    /\ Len(token.qubits) = Arity(token.gate)
    /\ IsInjective(token.qubits)
    /\ \A i \in DOMAIN token.qubits : token.qubits[i] >= 0
    /\ Len(token.params) = IF token.gate = "rz" THEN 1 ELSE 0

Convertible(tokens) == Len(tokens) >= 2 /\ \A i \in DOMAIN tokens : IsToken(tokens[i])

ConvertTokens(tokens) ==
    [i \in DOMAIN tokens |-> [gate |-> tokens[i].gate, qubits |-> tokens[i].qubits,
                              angle |-> ToSet(tokens[i].params)]]

IsTime(time) == time.notation # "invalid"

\* The observations a file reports of one backend: tokens and a time each.
ObservationsIn(file) ==
    IF file.kind = "report"
    THEN IF file.pattern = <<>> THEN <<>>
         ELSE <<[tokens |-> file.pattern, time |-> file.time]>>
    ELSE FlattenSeq([e \in DOMAIN file.entries |->
            [o \in DOMAIN file.entries[e].observations |->
                [tokens |-> file.entries[e].tokens, time |-> file.entries[e].observations[o].time]]])

ASSUME TokenAssumption ==
    \A path \in DOMAIN Files : \A o \in ToSet(ObservationsIn(Files[path])) : o.tokens \in Seq(RawToken)

\* A cleared report is skipped before anything else of it is looked at.
FileFits(file, backend) ==
    /\ file.readable
    /\ IF file.kind = "report"
       THEN file.pattern # <<>> => ~file.simulated /\ \A b \in file.backend : b = backend
       ELSE /\ file.backend = {backend}
            /\ \A e \in DOMAIN file.entries :
                  /\ Len(file.entries[e].observations) > 0
                  /\ \A o \in DOMAIN file.entries[e].observations :
                        file.entries[e].observations[o].backend = backend

Fits(input) ==
    LET file == Files[input.path]
    IN  /\ FileFits(file, input.backend)
        /\ \A i \in DOMAIN ObservationsIn(file) :
              Convertible(ObservationsIn(file)[i].tokens) /\ IsTime(ObservationsIn(file)[i].time)

\* Seeded defect: each reading of a file is a source of its own.
JoinedAgain(sources, source) == Append(sources, source)

\* A file is one source of an observation, however often it says so.
Joined(sources, source) == IF source \in ToSet(sources) THEN sources ELSE Append(sources, source)

TimesOf(known, key) == IF key \in DOMAIN known THEN DOMAIN known[key] ELSE {}
SourcesAt(known, key, time) == IF time \in TimesOf(known, key) THEN known[key][time] ELSE <<>>

KeyOf(backend, observation) == [backend |-> backend, gates |-> ConvertTokens(observation.tokens)]

\* The observations of one file: the same time is the same observation.
Add(known, backend, observations, source) ==
    LET keys == {KeyOf(backend, o) : o \in ToSet(observations)}
        times(key) == {o.time : o \in {p \in ToSet(observations) : KeyOf(backend, p) = key}}
    IN  [key \in DOMAIN known \cup keys |->
            [time \in TimesOf(known, key) \cup times(key) |->
                IF time \in times(key) THEN Joined(SourcesAt(known, key, time), source)
                                       ELSE SourcesAt(known, key, time)]]

Read ==
    /\ pc = "read" /\ todo # <<>>
    /\ Fits(Head(todo))
    /\ groups' = Add(groups, Head(todo).backend, ObservationsIn(Files[Head(todo).path]), Head(todo).path)
    /\ todo' = Tail(todo)
    /\ UNCHANGED <<call, pc, catalog>>

\* Any error ends the import before anything is written.
Reject ==
    /\ pc = "read" /\ todo # <<>>
    /\ ~Fits(Head(todo))
    /\ pc' = "rejected"
    /\ UNCHANGED <<call, todo, groups, catalog>>

-----------------------------------------------------------------------------
(***************************************************************************)
(* Promotion, and what the compiler makes of the catalog.                  *)
(***************************************************************************)

\* The backend and a digest of the whole key.
IdOf(key) == <<key.backend, key>>

Promoted(key) == Cardinality(DOMAIN groups[key]) >= call.least

Promote ==
    /\ pc = "read" /\ todo = <<>>
    /\ catalog' = {[id |-> IdOf(key), backend |-> key.backend, gates |-> key.gates,
                    tolerance |-> Tolerance, observations |-> groups[key]] :
                   key \in {k \in DOMAIN groups : Promoted(k)}}
    /\ pc' = "done"
    /\ UNCHANGED <<call, todo, groups>>

\* loadCatalog's own checks of a gate and of a catalog.
LoadsGate(spec) ==
    /\ spec.gate \in Gates
    /\ Len(spec.qubits) = Arity(spec.gate)
    /\ \A k \in DOMAIN spec.qubits : spec.qubits[k] \in 0..MaxIndex
    /\ Len(spec.qubits) = 2 => spec.qubits[1] # spec.qubits[2]
    /\ spec.angle # {} => spec.gate = "rz"

Loads(patterns) ==
    /\ \A p, q \in patterns : p.id = q.id => p = q
    /\ \A p \in patterns :
          /\ Len(p.gates) >= 2
          /\ p.tolerance \in 0..MaxTolerance
          /\ \A i \in DOMAIN p.gates : LoadsGate(p.gates[i])

Next == Read \/ Reject \/ Promote

Spec == Init /\ [][Next]_vars

-----------------------------------------------------------------------------
(***************************************************************************)
(* Properties.                                                             *)
(***************************************************************************)
Inputs == ToSet(call.reports \o call.databases)

\* The inputs that say a pattern was seen on a backend at a time.
SourcesOf(key, time) ==
    {i \in Inputs :
        /\ i.backend = key.backend
        /\ \E k \in DOMAIN ObservationsIn(Files[i.path]) :
              LET o == ObservationsIn(Files[i.path])[k]
              IN  o.time = time /\ ConvertTokens(o.tokens) = key.gates}

Times == UNION {{o.time : o \in ToSet(ObservationsIn(Files[i.path]))} : i \in Inputs}
Keys == UNION {{[backend |-> i.backend, gates |-> ConvertTokens(o.tokens)] :
                o \in ToSet(ObservationsIn(Files[i.path]))} : i \in Inputs}

\* Whatever order the inputs come in, and however often a file or a run is among
\* them, a pattern is promoted exactly when enough different timestamps support
\* it, of its own backend and its own gates, and each lists each of its files
\* once ("re-reading a file or importing the same run through a DB is not new
\* evidence", tools/import_qrisk.py).
PromotedByEvidence ==
    pc = "done" =>
        /\ {[backend |-> p.backend, gates |-> p.gates] : p \in catalog} =
              {key \in Keys : Cardinality({t \in Times : SourcesOf(key, t) # {}}) >= call.least}
        /\ \A p \in catalog : \A t \in DOMAIN p.observations :
              /\ IsInjective(p.observations[t])
              /\ ToSet(p.observations[t]) =
                    {i.path : i \in SourcesOf([backend |-> p.backend, gates |-> p.gates], t)}

IndicesFit(gates) ==
    \A i \in DOMAIN gates : \A k \in DOMAIN gates[i].qubits : gates[i].qubits[k] <= MaxIndex

\* The two validations, written apart in Python and in C++, agree on what the
\* tool writes up to one bound: a catalog is refused exactly when an index does
\* not fit in 64 bits, which convert_tokens does not ask.  Its patterns are of
\* the form the matching assumes, and none is a wildcard ("The importer always
\* supplies Rz angles", docs/qrisk.md).
CatalogLoads ==
    pc = "done" =>
        /\ Loads(catalog) <=> \A p \in catalog : IndicesFit(p.gates)
        /\ \A p \in catalog :
              /\ IsPattern([gates |-> p.gates, tolerance |-> p.tolerance])
              /\ \A i \in DOMAIN p.gates : p.gates[i].gate = "rz" => p.gates[i].angle # {}
=============================================================================
