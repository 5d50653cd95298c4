--------------------------- MODULE ImportCatalogMC ---------------------------
(***************************************************************************)
(* Instances of ImportCatalog for TLC: two backends, two runs, the second  *)
(* one in two notations, in reports, in a pattern memory and in both.  The *)
(* largest index is small, and one report is past it.                      *)
(***************************************************************************)
EXTENDS ImportCatalog

Token(gate, qubits, params) == [gate |-> gate, qubits |-> qubits, params |-> params]
RzCZ(angle) == <<Token("rz", <<3>>, <<angle>>), Token("cz", <<3, 4>>, <<>>)>>

Time(instant, notation) == [instant |-> instant, notation |-> notation]
June == Time("june", "Z")
July == Time("july", "Z")
JulyOffset == Time("july", "+00:00")

Report(pattern, time) ==
    [kind |-> "report", readable |-> TRUE, pattern |-> pattern, simulated |-> FALSE,
     backend |-> {}, time |-> time]
Seen(backend, time) == [backend |-> backend, time |-> time]
Database(entries) ==
    [kind |-> "database", readable |-> TRUE, backend |-> {"fez"}, entries |-> entries]
Entry(tokens, observations) == [tokens |-> tokens, observations |-> observations]

SomeFiles ==
    "june" :> Report(RzCZ(1), June) @@
    "copy" :> Report(RzCZ(1), June) @@
    "july" :> [Report(RzCZ(1), July) EXCEPT !.backend = {"fez"}] @@
    "offset" :> Report(RzCZ(1), JulyOffset) @@
    "turned" :> Report(RzCZ(2), June) @@
    "high" :> Report(<<Token("x", <<4>>, <<>>), Token("cz", <<4, 5>>, <<>>)>>, June) @@
    "cleared" :> [Report(<<>>, July) EXCEPT !.simulated = TRUE] @@
    "simulated" :> [Report(RzCZ(1), July) EXCEPT !.simulated = TRUE] @@
    "undated" :> Report(RzCZ(1), Time("june", "invalid")) @@
    "single" :> Report(<<Token("x", <<1>>, <<>>)>>, June) @@
    "loop" :> Report(<<Token("cz", <<3, 3>>, <<>>), Token("x", <<3>>, <<>>)>>, June) @@
    "bare" :> Report(<<Token("rz", <<3>>, <<>>), Token("x", <<3>>, <<>>)>>, June) @@
    "broken" :> [Report(RzCZ(1), June) EXCEPT !.readable = FALSE] @@
    "memory" :> Database(<<Entry(RzCZ(1), <<Seen("fez", June), Seen("fez", July)>>),
                           Entry(RzCZ(2), <<Seen("fez", July)>>)>>) @@
    "mixed" :> Database(<<Entry(RzCZ(1), <<Seen("fez", June), Seen("marrakesh", July)>>)>>) @@
    "unseen" :> Database(<<Entry(RzCZ(1), <<>>)>>)

On(backend, path) == [backend |-> backend, path |-> path]
Reports == {On("fez", p) : p \in {"june", "copy", "july", "offset", "turned", "cleared"}}
           \cup {On("marrakesh", p) : p \in {"june", "july"}}
Refused == {On("fez", p) : p \in {"simulated", "undated", "single", "loop", "bare", "broken"}}

SomeCalls ==
    [reports : BoundedSeq(Reports, 3), databases : {<<>>, <<On("fez", "memory")>>}, least : {1, 2}]
    \cup [reports : {<<On("fez", "high")>>, <<On("fez", "high"), On("fez", "june")>>},
          databases : {<<>>, <<On("fez", "memory")>>}, least : {1, 2}]
    \cup [reports : {<<On("fez", "june"), r>> : r \in Refused}, databases : {<<>>}, least : {1}]
    \cup [reports : {<<On("fez", "june")>>},
          databases : {<<On("fez", "memory"), On("fez", "memory")>>, <<On("marrakesh", "memory")>>,
                       <<On("fez", "mixed")>>, <<On("fez", "unseen")>>}, least : {2}]
=============================================================================
