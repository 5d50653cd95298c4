------------------------- MODULE ImportCatalog_proofs -------------------------
(***************************************************************************)
(* What tools/import_qrisk.py promotes, for every list of inputs and every *)
(* content of the files: exactly what enough different times support.      *)
(***************************************************************************)
EXTENDS FiniteSetTheorems, SequenceTheorems, ImportCatalog, TLAPS

(***************************************************************************)
(* The sources of one observation.                                         *)
(***************************************************************************)
LEMMA JoinedIs ==
    ASSUME NEW S, NEW s \in Seq(S), IsInjective(s), NEW x \in S
    PROVE  /\ Joined(s, x) \in Seq(S) /\ IsInjective(Joined(s, x))
           /\ ToSet(Joined(s, x)) = ToSet(s) \cup {x}
<1>1. CASE x \in ToSet(s)
  BY <1>1 DEF Joined
<1>2. CASE x \notin ToSet(s)
  <2> DEFINE u == Append(s, x)
             n == Len(s)
  <2>1. /\ n \in Nat /\ DOMAIN s = 1..n
        /\ u \in Seq(S) /\ Len(u) = n + 1 /\ DOMAIN u = 1..(n + 1)
        /\ u[n + 1] = x /\ \A k \in 1..n : u[k] = s[k]
    BY AppendProperties, LenProperties
  <2>2. \A k \in 1..n : s[k] # x
    BY <1>2, <2>1 DEF ToSet
  <2> HIDE DEF u, n
  <2>3. \A k \in 1..(n + 1) : k \in 1..n \/ k = n + 1
    BY <2>1
  <2>4. IsInjective(u)
    <3>1. \A k, l \in 1..n : s[k] = s[l] => k = l
      BY <2>1 DEF IsInjective
    <3> SUFFICES ASSUME NEW k \in 1..(n + 1), NEW l \in 1..(n + 1), u[k] = u[l]
                 PROVE  k = l
      BY <2>1 DEF IsInjective
    <3> QED
      BY <2>1, <2>2, <2>3, <3>1
  <2>5. ToSet(u) = ToSet(s) \cup {x}
    <3>1. n + 1 \in 1..(n + 1) /\ \A k \in 1..n : k \in 1..(n + 1)
      BY <2>1
    <3>2. ToSet(u) = {u[k] : k \in 1..(n + 1)} /\ ToSet(s) = {s[k] : k \in 1..n}
      BY <2>1 DEF ToSet
    <3> QED
      BY <2>1, <2>3, <3>1, <3>2
  <2> QED
    BY <1>2, <2>1, <2>4, <2>5 DEF Joined, u
<1> QED
  BY <1>1, <1>2

(***************************************************************************)
(* What a set of inputs says, and what is gathered of it.                  *)
(***************************************************************************)
IsKey(key) == key = [backend |-> key.backend, gates |-> key.gates]

Observed(i) == ToSet(ObservationsIn(Files[i.path]))

\* The input i saw the pattern at that time.
Says(i, key, time) ==
    /\ i.backend = key.backend
    /\ \E o \in Observed(i) : o.time = time /\ ConvertTokens(o.tokens) = key.gates

Gathered(past, known) ==
    /\ \A key : key \in DOMAIN known <=> IsKey(key) /\ \E i \in past : \E t : Says(i, key, t)
    /\ \A key \in DOMAIN known :
          /\ \A t : t \in DOMAIN known[key] <=> \E i \in past : Says(i, key, t)
          /\ \A t \in DOMAIN known[key] :
                /\ known[key][t] \in Seq(DOMAIN Files)
                /\ IsInjective(known[key][t])
                /\ ToSet(known[key][t]) = {i.path : i \in {j \in past : Says(j, key, t)}}

\* The sources known of any observation, none of them included.
LEMMA SourcesKnown ==
    ASSUME NEW past, NEW known, Gathered(past, known), NEW key, IsKey(key), NEW t
    PROVE  /\ t \in TimesOf(known, key) <=> \E i \in past : Says(i, key, t)
           /\ SourcesAt(known, key, t) \in Seq(DOMAIN Files)
           /\ IsInjective(SourcesAt(known, key, t))
           /\ ToSet(SourcesAt(known, key, t)) = {i.path : i \in {j \in past : Says(j, key, t)}}
<1>1. t \in TimesOf(known, key) <=> \E i \in past : Says(i, key, t)
  <2>1. CASE key \in DOMAIN known
    BY <2>1 DEF Gathered, TimesOf
  <2>2. CASE key \notin DOMAIN known
    BY <2>2 DEF Gathered, TimesOf
  <2> QED
    BY <2>1, <2>2
<1>2. CASE t \in TimesOf(known, key)
  <2>1. key \in DOMAIN known /\ t \in DOMAIN known[key] /\ SourcesAt(known, key, t) = known[key][t]
    BY <1>2 DEF TimesOf, SourcesAt
  <2> QED
    BY <1>1, <2>1 DEF Gathered
<1>3. CASE t \notin TimesOf(known, key)
  <2>1. SourcesAt(known, key, t) = <<>>
    BY <1>3 DEF SourcesAt
  <2>2. {j \in past : Says(j, key, t)} = {}
    BY <1>1, <1>3
  <2>3. ToSet(<<>>) = {} /\ IsInjective(<<>>) /\ <<>> \in Seq(DOMAIN Files)
    BY DEF ToSet, IsInjective
  <2> QED
    BY <1>1, <2>1, <2>2, <2>3
<1> QED
  BY <1>2, <1>3

\* One more input is gathered by adding its observations.
LEMMA AddGathers ==
    ASSUME NEW past, NEW known, Gathered(past, known), NEW i \in Input
    PROVE  Gathered(past \cup {i}, Add(known, i.backend, ObservationsIn(Files[i.path]), i.path))
<1> DEFINE obs == Observed(i)
           keys == {KeyOf(i.backend, o) : o \in obs}
           times(key) == {o.time : o \in {p \in obs : KeyOf(i.backend, p) = key}}
           new == Add(known, i.backend, ObservationsIn(Files[i.path]), i.path)
           after == past \cup {i}
<1>1. /\ DOMAIN new = DOMAIN known \cup keys
      /\ \A key \in DOMAIN new :
            /\ DOMAIN new[key] = TimesOf(known, key) \cup times(key)
            /\ \A t \in DOMAIN new[key] :
                  new[key][t] = IF t \in times(key) THEN Joined(SourcesAt(known, key, t), i.path)
                                                    ELSE SourcesAt(known, key, t)
  BY DEF Add, Observed
<1>2. \A o : IsKey(KeyOf(i.backend, o)) /\ KeyOf(i.backend, o).backend = i.backend
             /\ KeyOf(i.backend, o).gates = ConvertTokens(o.tokens)
  BY DEF IsKey, KeyOf
<1>3. ASSUME NEW key, IsKey(key), NEW o
      PROVE  KeyOf(i.backend, o) = key <=> i.backend = key.backend /\ ConvertTokens(o.tokens) = key.gates
  BY <1>3 DEF IsKey, KeyOf
<1>4. ASSUME NEW key, IsKey(key), NEW t
      PROVE  t \in times(key) <=> Says(i, key, t)
  BY <1>3, <1>4 DEF Says
<1>5. ASSUME NEW key
      PROVE  key \in keys <=> IsKey(key) /\ \E t : Says(i, key, t)
  BY <1>2, <1>3 DEF Says
<1> HIDE DEF obs, keys, times, new
<1>6. ASSUME NEW key
      PROVE  key \in DOMAIN new <=> IsKey(key) /\ \E j \in after : \E t : Says(j, key, t)
  <2>1. key \in DOMAIN known <=> IsKey(key) /\ \E j \in past : \E t : Says(j, key, t)
    BY DEF Gathered
  <2> QED
    BY <1>1, <1>5, <2>1
<1>7. ASSUME NEW key \in DOMAIN new
      PROVE  /\ \A t : t \in DOMAIN new[key] <=> \E j \in after : Says(j, key, t)
             /\ \A t \in DOMAIN new[key] :
                   /\ new[key][t] \in Seq(DOMAIN Files)
                   /\ IsInjective(new[key][t])
                   /\ ToSet(new[key][t]) = {j.path : j \in {k \in after : Says(k, key, t)}}
  <2>1. IsKey(key)
    BY <1>6
  <2>2. ASSUME NEW t
        PROVE  t \in DOMAIN new[key] <=> \E j \in after : Says(j, key, t)
    <3>1. t \in TimesOf(known, key) <=> \E j \in past : Says(j, key, t)
      BY <2>1, SourcesKnown
    <3>2. t \in times(key) <=> Says(i, key, t)
      BY <1>4, <2>1
    <3> QED
      BY <1>1, <3>1, <3>2
  <2>3. ASSUME NEW t \in DOMAIN new[key]
        PROVE  /\ new[key][t] \in Seq(DOMAIN Files)
               /\ IsInjective(new[key][t])
               /\ ToSet(new[key][t]) = {j.path : j \in {k \in after : Says(k, key, t)}}
    <3> DEFINE s == SourcesAt(known, key, t)
               sayers == {k \in past : Says(k, key, t)}
    <3>1. s \in Seq(DOMAIN Files) /\ IsInjective(s) /\ ToSet(s) = {j.path : j \in sayers}
      BY <2>1, SourcesKnown
    <3>2. t \in times(key) <=> Says(i, key, t)
      BY <1>4, <2>1
    <3>3. i.path \in DOMAIN Files
      BY DEF Input
    <3> HIDE DEF s
    <3>4. CASE t \in times(key)
      <4>1. new[key][t] = Joined(s, i.path)
        BY <1>1, <3>4 DEF s
      <4>2. /\ Joined(s, i.path) \in Seq(DOMAIN Files) /\ IsInjective(Joined(s, i.path))
            /\ ToSet(Joined(s, i.path)) = ToSet(s) \cup {i.path}
        BY <3>1, <3>3, JoinedIs
      <4>3. {k \in after : Says(k, key, t)} = sayers \cup {i}
        BY <3>2, <3>4
      <4> QED
        BY <3>1, <4>1, <4>2, <4>3
    <3>5. CASE t \notin times(key)
      <4>1. new[key][t] = s
        BY <1>1, <3>5 DEF s
      <4>2. {k \in after : Says(k, key, t)} = sayers
        BY <3>2, <3>5
      <4> QED
        BY <3>1, <4>1, <4>2
    <3> QED
      BY <3>4, <3>5
  <2> QED
    BY <2>2, <2>3
<1> QED
  BY <1>6, <1>7 DEF Gathered, new, after

(***************************************************************************)
(* What the compiler accepts.                                              *)
(***************************************************************************)
LEMMA InjectiveCard ==
    ASSUME NEW S, NEW s \in Seq(S), IsInjective(s)
    PROVE  Cardinality(ToSet(s)) = Len(s)
<1> DEFINE n == Len(s)
<1>1. n \in Nat /\ DOMAIN s = 1..n /\ s \in [1..n -> S]
  BY LenProperties
<1>2. ToSet(s) = {s[k] : k \in 1..n}
  BY <1>1 DEF ToSet
<1>3. \A k, l \in 1..n : s[k] = s[l] => k = l
  BY <1>1 DEF IsInjective
<1> DEFINE f == [k \in 1..n |-> s[k]]
<1> HIDE DEF n
<1>4. f \in Bijection(1..n, ToSet(s))
  <2>1. f \in [1..n -> ToSet(s)] /\ \A y \in ToSet(s) : \E k \in 1..n : f[k] = y
    BY <1>2
  <2>2. \A k, l \in 1..n : f[k] = f[l] => k = l
    BY <1>3
  <2> HIDE DEF f
  <2> QED
    BY <2>1, <2>2 DEF Bijection, Injection, Surjection, IsInjective
<1>5. IsFiniteSet(1..n) /\ Cardinality(1..n) = n
  <2>1. Cardinality(1..n) = IF 1 > n THEN 0 ELSE n - 1 + 1
    BY <1>1, FS_Interval
  <2> QED
    BY <1>1, <2>1, FS_Interval
<1>6. Cardinality(ToSet(s)) = Cardinality(1..n)
  <2> HIDE DEF f
  <2> QED
    BY <1>4, <1>5, FS_Bijection DEF ExistsBijection
<1> QED
  BY <1>5, <1>6 DEF n

\* One token that is accepted becomes a gate of a catalog.
GateLoads(spec) ==
    /\ spec \in GateSpec
    /\ Len(spec.qubits) = Arity(spec.gate)
    /\ Cardinality(WiresOf(spec)) = Arity(spec.gate)
    /\ spec.angle # {} <=> spec.gate = "rz"

LEMMA TokenLoads ==
    ASSUME NEW token \in RawToken, IsToken(token)
    PROVE  GateLoads([gate |-> token.gate, qubits |-> token.qubits, angle |-> ToSet(token.params)])
<1> DEFINE spec == [gate |-> token.gate, qubits |-> token.qubits, angle |-> ToSet(token.params)]
<1>1. /\ token.gate \in Gates /\ token.qubits \in Seq(Int) /\ token.params \in Seq(Int)
      /\ Len(token.qubits) = Arity(token.gate) /\ IsInjective(token.qubits)
      /\ \A k \in DOMAIN token.qubits : token.qubits[k] >= 0
      /\ Len(token.params) = IF token.gate = "rz" THEN 1 ELSE 0
  BY DEF RawToken, IsToken
<1>2. spec.gate = token.gate /\ spec.qubits = token.qubits /\ spec.angle = ToSet(token.params)
  OBVIOUS
<1>3. token.qubits \in Seq(Nat)
  <2> DEFINE n == Len(token.qubits)
  <2>1. n \in Nat /\ DOMAIN token.qubits = 1..n /\ token.qubits \in [1..n -> Int]
    BY <1>1, LenProperties
  <2>2. token.qubits \in [1..n -> Nat]
    BY <1>1, <2>1
  <2> HIDE DEF n
  <2> QED
    BY <2>1, <2>2
<1>4. ToSet(token.params) \in Angles /\ (ToSet(token.params) # {} <=> token.gate = "rz")
  <2> DEFINE p == token.params
  <2>1. DOMAIN p = 1..Len(p) /\ \A k \in 1..Len(p) : p[k] \in Int
    BY <1>1, LenProperties
  <2>2. ToSet(p) = {p[k] : k \in 1..Len(p)}
    BY <2>1 DEF ToSet
  <2>3. CASE token.gate = "rz"
    <3>1. Len(p) = 1
      BY <1>1, <2>3
    <3>2. ToSet(p) = {p[1]} /\ p[1] \in Int
      BY <2>1, <2>2, <3>1
    <3> QED
      BY <2>3, <3>2 DEF Angles
  <2>4. CASE token.gate # "rz"
    <3>1. Len(p) = 0
      BY <1>1, <2>4
    <3>2. ToSet(p) = {}
      BY <2>2, <3>1
    <3>3. {} \in Angles
      BY DEF Angles
    <3> QED
      BY <2>4, <3>2, <3>3
  <2> QED
    BY <2>3, <2>4
<1>5. WiresOf(spec) = ToSet(token.qubits)
  BY <1>2 DEF WiresOf, ToSet
<1>6. Cardinality(WiresOf(spec)) = Arity(token.gate)
  BY <1>1, <1>5, InjectiveCard
<1>7. spec \in GateSpec
  BY <1>1, <1>3, <1>4 DEF GateSpec
<1> HIDE DEF spec
<1> QED
  BY <1>1, <1>2, <1>4, <1>6, <1>7 DEF GateLoads, spec

\* loadCatalog's checks ask no more of such a gate than the size of its indices.
LEMMA GateLoadsIs ==
    ASSUME NEW spec, GateLoads(spec)
    PROVE  LoadsGate(spec) <=> \A k \in DOMAIN spec.qubits : spec.qubits[k] <= MaxIndex
<1> USE IndexAssumption
<1>1. /\ spec.gate \in Gates /\ spec.qubits \in Seq(Nat)
      /\ Len(spec.qubits) = Arity(spec.gate)
      /\ Cardinality(WiresOf(spec)) = Arity(spec.gate)
      /\ spec.angle # {} => spec.gate = "rz"
  BY DEF GateLoads, GateSpec
<1>2. \A k \in DOMAIN spec.qubits : spec.qubits[k] \in Nat
  BY <1>1
<1>3. Len(spec.qubits) = 2 => spec.qubits[1] # spec.qubits[2]
  <2> SUFFICES ASSUME Len(spec.qubits) = 2, spec.qubits[1] = spec.qubits[2]
               PROVE  FALSE
    OBVIOUS
  <2>1. DOMAIN spec.qubits = 1..2
    BY <1>1
  <2>2. WiresOf(spec) = {spec.qubits[1]}
    BY <2>1 DEF WiresOf
  <2>3. Cardinality(WiresOf(spec)) = 1
    BY <2>2, FS_Singleton
  <2> QED
    BY <1>1, <2>3
<1> QED
  BY <1>1, <1>2, <1>3 DEF LoadsGate

\* The form of the patterns: that of the matcher, with an angle on every rz.
Formed(gates) ==
    /\ IsPattern([gates |-> gates, tolerance |-> Tolerance])
    /\ Len(gates) >= 2
    /\ \A i \in DOMAIN gates : GateLoads(gates[i])

LEMMA ConvertedLoads ==
    ASSUME NEW tokens \in Seq(RawToken), Convertible(tokens)
    PROVE  Formed(ConvertTokens(tokens))
<1> DEFINE gates == ConvertTokens(tokens)
           n == Len(tokens)
<1>1. n \in Nat /\ n >= 2 /\ DOMAIN tokens = 1..n
  BY LenProperties DEF Convertible
<1>2. \A k \in 1..n : GateLoads(gates[k])
  <2> TAKE k \in 1..n
  <2>1. tokens[k] \in RawToken /\ IsToken(tokens[k])
    BY <1>1, ElementOfSeq DEF Convertible
  <2>2. gates[k] = [gate |-> tokens[k].gate, qubits |-> tokens[k].qubits, angle |-> ToSet(tokens[k].params)]
    BY <1>1 DEF ConvertTokens
  <2> QED
    BY <2>1, <2>2, TokenLoads
<1>3. gates = [k \in 1..n |-> gates[k]]
  BY <1>1 DEF ConvertTokens
<1> HIDE DEF gates, n
<1>4. gates \in [1..n -> GateSpec]
  BY <1>2, <1>3 DEF GateLoads
<1>5. gates \in Seq(GateSpec) /\ Len(gates) = n /\ DOMAIN gates = 1..n
  BY <1>1, <1>4
<1> QED
  BY <1>1, <1>2, <1>5 DEF Formed, IsPattern, GateLoads, Tolerance, gates

(***************************************************************************)
(* The inputs read so far.                                                 *)
(***************************************************************************)
Listed == call.reports \o call.databases
Past == {Listed[k] : k \in 1..(Len(Listed) - Len(todo))}

ReadSoFar ==
    /\ call \in Calls
    /\ todo \in Seq(Input) /\ Len(todo) <= Len(Listed)
    /\ \A k \in 1..Len(todo) : todo[k] = Listed[Len(Listed) - Len(todo) + k]

Loadable == \A key \in DOMAIN groups : Formed(key.gates)

\* A catalog is only made once everything is read, and of what was gathered.
Evidence ==
    /\ ReadSoFar
    /\ Gathered(Past, groups)
    /\ Loadable
    /\ pc \in {"read", "rejected", "done"}
    /\ pc = "done" => PromotedByEvidence /\ CatalogLoads

LEMMA ListedIs ==
    ASSUME call \in Calls
    PROVE  /\ Listed \in Seq(Input) /\ Len(Listed) \in Nat
           /\ DOMAIN Listed = 1..Len(Listed) /\ Inputs = {Listed[k] : k \in 1..Len(Listed)}
<1>1. Listed \in Seq(Input)
  BY CallAssumption, ConcatProperties DEF Listed
<1> QED
  BY <1>1, LenProperties DEF Inputs, ToSet, Listed

LEMMA EvidenceInit == Init => Evidence
<1> SUFFICES ASSUME Init
             PROVE  Evidence
  OBVIOUS
<1>1. call \in Calls /\ todo = Listed /\ groups = <<>> /\ pc = "read"
  BY DEF Init, Listed, Nothing
<1>2. Listed \in Seq(Input) /\ Len(Listed) \in Nat
  BY <1>1, ListedIs
<1>3. ReadSoFar
  BY <1>1, <1>2 DEF ReadSoFar
<1>4. Past = {}
  BY <1>1, <1>2 DEF Past
<1>5. DOMAIN groups = {}
  BY <1>1
<1>6. Gathered(Past, groups)
  BY <1>4, <1>5 DEF Gathered
<1> QED
  BY <1>1, <1>3, <1>5, <1>6 DEF Evidence, Loadable

\* The next input joins those that are read.
LEMMA ReadOne ==
    ASSUME ReadSoFar, todo # <<>>, todo' = Tail(todo), call' = call
    PROVE  /\ Head(todo) \in Input
           /\ ReadSoFar'
           /\ Past' = Past \cup {Head(todo)}
<1> DEFINE N == Len(Listed)
           m == Len(todo)
           rest == Tail(todo)
<1>1. /\ N \in Nat /\ m \in Nat /\ m <= N /\ todo \in Seq(Input)
      /\ \A k \in 1..m : todo[k] = Listed[N - m + k]
  BY ListedIs, LenProperties DEF ReadSoFar
<1>2. /\ m > 0 /\ Head(todo) = todo[1] /\ Head(todo) \in Input
      /\ rest \in Seq(Input) /\ Len(rest) = m - 1
      /\ \A k \in 1..(m - 1) : rest[k] = todo[k + 1]
  BY <1>1, HeadTailProperties, EmptySeq
<1>3. Listed' = Listed
  BY DEF Listed
<1> HIDE DEF N, m, rest
<1>4. \A k \in 1..(m - 1) : rest[k] = Listed[N - (m - 1) + k]
  <2> TAKE k \in 1..(m - 1)
  <2>1. k + 1 \in 1..m /\ N - m + (k + 1) = N - (m - 1) + k
    BY <1>1
  <2> QED
    BY <1>1, <1>2, <2>1
<1>5. ReadSoFar'
  <2>1. todo' = rest /\ Len(rest) = m - 1 /\ rest \in Seq(Input)
    BY <1>2 DEF rest
  <2>2. m - 1 <= N
    BY <1>1
  <2> QED
    BY <1>3, <1>4, <2>1, <2>2 DEF ReadSoFar, N
<1>6. Past' = {Listed[k] : k \in 1..(N - (m - 1))}
  BY <1>2, <1>3 DEF Past, N, m, rest
<1>7. Head(todo) = Listed[N - m + 1]
  <2>1. 1 \in 1..m
    BY <1>1, <1>2
  <2> QED
    BY <1>1, <1>2, <2>1
<1>8. Past = {Listed[k] : k \in 1..(N - m)}
  BY DEF Past, N, m
<1>9. 1..(N - (m - 1)) = 1..(N - m) \cup {N - m + 1}
  BY <1>1
<1>10. \A A, x : {Listed[k] : k \in A \cup {x}} = {Listed[k] : k \in A} \cup {Listed[x]}
  OBVIOUS
<1>11. Past' = Past \cup {Head(todo)}
  BY <1>6, <1>7, <1>8, <1>9, <1>10
<1> QED
  BY <1>2, <1>5, <1>11

\* What an input that fits reports can be loaded.
LEMMA FittingLoads ==
    ASSUME NEW i \in Input, Fits(i), NEW o \in Observed(i)
    PROVE  Formed(ConvertTokens(o.tokens))
<1>1. i.path \in DOMAIN Files
  BY DEF Input
<1>2. o.tokens \in Seq(RawToken)
  BY <1>1, TokenAssumption DEF Observed
<1>3. Convertible(o.tokens)
  BY DEF Fits, Observed, ToSet
<1> QED
  BY <1>2, <1>3, ConvertedLoads

LEMMA EvidenceRead == ASSUME Evidence, Read PROVE Evidence'
<1> DEFINE i == Head(todo)
           obs == ObservationsIn(Files[i.path])
<1>1. /\ todo # <<>> /\ Fits(i) /\ pc = "read"
      /\ groups' = Add(groups, i.backend, obs, i.path)
      /\ todo' = Tail(todo) /\ UNCHANGED <<call, pc, catalog>>
  BY DEF Read
<1>2. i \in Input /\ ReadSoFar' /\ Past' = Past \cup {i}
  BY <1>1, ReadOne DEF Evidence
<1> HIDE DEF i
<1>3. Gathered(Past', groups')
  BY <1>1, <1>2, AddGathers DEF Evidence
<1>4. Gathered(Past, groups)'
  BY <1>3 DEF Gathered, Says, Observed
<1>5. Loadable'
  <2> SUFFICES ASSUME NEW key \in DOMAIN groups'
               PROVE  Formed(key.gates)
    BY DEF Loadable
  <2>1. key \in DOMAIN groups \/ \E o \in ToSet(obs) : key = KeyOf(i.backend, o)
    BY <1>1 DEF Add
  <2>2. CASE key \in DOMAIN groups
    BY <2>2 DEF Evidence, Loadable
  <2>3. CASE \E o \in ToSet(obs) : key = KeyOf(i.backend, o)
    <3>1. PICK o \in Observed(i) : key = KeyOf(i.backend, o)
      BY <2>3 DEF Observed
    <3>2. key.gates = ConvertTokens(o.tokens)
      BY <3>1 DEF KeyOf
    <3> QED
      BY <1>1, <1>2, <3>2, FittingLoads
  <2> QED
    BY <2>1, <2>2, <2>3
<1> QED
  BY <1>1, <1>2, <1>4, <1>5 DEF Evidence

\* When everything is read, the sources gathered are the sources there are.
LEMMA AllGathered ==
    ASSUME Evidence, todo = <<>>, NEW key, IsKey(key), NEW t
    PROVE  /\ SourcesOf(key, t) = {i \in Past : Says(i, key, t)}
           /\ SourcesOf(key, t) # {} => t \in Times
           /\ key \in Keys <=> key \in DOMAIN groups
<1>1. Past = Inputs
  BY ListedIs DEF Evidence, ReadSoFar, Past
<1>2. \A i : Says(i, key, t) <=>
         /\ i.backend = key.backend
         /\ \E k \in DOMAIN ObservationsIn(Files[i.path]) :
               LET o == ObservationsIn(Files[i.path])[k]
               IN  o.time = t /\ ConvertTokens(o.tokens) = key.gates
  BY DEF Says, Observed, ToSet
<1>3. SourcesOf(key, t) = {i \in Past : Says(i, key, t)}
  BY <1>1, <1>2 DEF SourcesOf
<1>4. SourcesOf(key, t) # {} => t \in Times
  BY <1>1, <1>3 DEF Says, Observed, Times
<1>5. key \in Keys <=> \E i \in Past : \E u : Says(i, key, u)
  <2>1. key \in Keys <=> \E i \in Past : \E o \in Observed(i) :
                            key = [backend |-> i.backend, gates |-> ConvertTokens(o.tokens)]
    BY <1>1 DEF Keys, Observed
  <2>2. \A b, g : key = [backend |-> b, gates |-> g] <=> b = key.backend /\ g = key.gates
    BY DEF IsKey
  <2> QED
    BY <2>1, <2>2 DEF Says
<1>6. key \in Keys <=> key \in DOMAIN groups
  BY <1>5 DEF Evidence, Gathered
<1> QED
  BY <1>3, <1>4, <1>6

\* The entry of the catalog for a pattern.
Entry(key) ==
    [id |-> IdOf(key), backend |-> key.backend, gates |-> key.gates,
     tolerance |-> Tolerance, observations |-> groups[key]]

LEMMA EntryParts ==
    ASSUME NEW key
    PROVE  /\ Entry(key).id = IdOf(key) /\ Entry(key).backend = key.backend
           /\ Entry(key).gates = key.gates /\ Entry(key).tolerance = Tolerance
           /\ Entry(key).observations = groups[key]
BY DEF Entry

LEMMA EvidencePromote == ASSUME Evidence, Promote PROVE Evidence'
<1> DEFINE chosen == {k \in DOMAIN groups : Promoted(k)}
<1>1. /\ pc = "read" /\ todo = <<>> /\ pc' = "done" /\ UNCHANGED <<call, todo, groups>>
      /\ catalog' = {Entry(key) : key \in chosen}
  BY DEF Promote, Entry
<1>2. ReadSoFar' /\ Loadable' /\ Gathered(Past, groups)'
  <2>1. Listed' = Listed
    BY <1>1 DEF Listed
  <2>2. Past' = Past
    BY <1>1, <2>1 DEF Past
  <2>3. ReadSoFar'
    BY <1>1, <2>1 DEF Evidence, ReadSoFar
  <2>4. Loadable'
    BY <1>1 DEF Evidence, Loadable
  <2> QED
    BY <1>1, <2>2, <2>3, <2>4 DEF Evidence, Gathered, Says, Observed
<1>3. \A key \in DOMAIN groups : IsKey(key)
  BY DEF Evidence, Gathered
<1>4. ASSUME NEW key \in DOMAIN groups
      PROVE  DOMAIN groups[key] = {t \in Times : SourcesOf(key, t) # {}}
  <2>1. \A t : t \in DOMAIN groups[key] <=> \E i \in Past : Says(i, key, t)
    BY DEF Evidence, Gathered
  <2>2. \A t : /\ SourcesOf(key, t) = {i \in Past : Says(i, key, t)}
               /\ SourcesOf(key, t) # {} => t \in Times
    BY <1>1, <1>3, AllGathered
  <2>3. \A t : t \in DOMAIN groups[key] <=> SourcesOf(key, t) # {}
    BY <2>1, <2>2
  <2> QED
    BY <2>2, <2>3
<1>5. ASSUME NEW key \in chosen, NEW t \in DOMAIN groups[key]
      PROVE  /\ IsInjective(groups[key][t])
             /\ ToSet(groups[key][t]) = {i.path : i \in SourcesOf(key, t)}
  <2>1. SourcesOf(key, t) = {i \in Past : Says(i, key, t)}
    BY <1>1, <1>3, AllGathered
  <2> QED
    BY <2>1 DEF Evidence, Gathered
<1>6. {[backend |-> p.backend, gates |-> p.gates] : p \in catalog'} = chosen
  <2>1. \A key \in chosen : [backend |-> Entry(key).backend, gates |-> Entry(key).gates] = key
    BY <1>3, EntryParts DEF IsKey
  <2>2. {[backend |-> p.backend, gates |-> p.gates] : p \in catalog'}
            = {[backend |-> Entry(key).backend, gates |-> Entry(key).gates] : key \in chosen}
    BY <1>1
  <2> QED
    BY <2>1, <2>2
<1>7. chosen = {key \in Keys : Cardinality({t \in Times : SourcesOf(key, t) # {}}) >= call.least}
  <2>1. \A key \in Keys : IsKey(key)
    BY DEF Keys, IsKey
  <2>2. \A key : IsKey(key) => (key \in Keys <=> key \in DOMAIN groups)
    BY <1>1, AllGathered
  <2>3. Keys = DOMAIN groups
    BY <1>3, <2>1, <2>2
  <2> QED
    BY <1>4, <2>3 DEF Promoted
<1>8. \A key \in chosen : \A t :
         SourcesOf([backend |-> Entry(key).backend, gates |-> Entry(key).gates], t) = SourcesOf(key, t)
  BY EntryParts DEF SourcesOf
<1>9. PromotedByEvidence'
  <2>1. /\ Keys' = Keys /\ Times' = Times /\ call' = call
        /\ \A key, t : SourcesOf(key, t)' = SourcesOf(key, t)
    BY <1>1 DEF Keys, Times, SourcesOf, Inputs
  <2>2. ASSUME NEW p \in catalog', NEW t \in DOMAIN p.observations
        PROVE  /\ IsInjective(p.observations[t])
               /\ ToSet(p.observations[t]) =
                     {i.path : i \in SourcesOf([backend |-> p.backend, gates |-> p.gates], t)}
    <3>1. PICK key \in chosen : p = Entry(key)
      BY <1>1
    <3>2. p.observations = groups[key]
      BY <3>1, EntryParts
    <3>3. SourcesOf([backend |-> p.backend, gates |-> p.gates], t) = SourcesOf(key, t)
      BY <1>8, <3>1
    <3> QED
      BY <1>5, <2>2, <3>2, <3>3
  <2> HIDE DEF chosen
  <2> QED
    BY <1>6, <1>7, <2>1, <2>2 DEF PromotedByEvidence
<1>10. CatalogLoads'
  <2>1. ASSUME NEW p \in catalog', NEW q \in catalog', p.id = q.id
        PROVE  p = q
    <3>1. PICK k \in chosen : p = Entry(k)
      BY <1>1
    <3>2. PICK l \in chosen : q = Entry(l)
      BY <1>1
    <3>3. IdOf(k) = IdOf(l)
      BY <2>1, <3>1, <3>2, EntryParts
    <3>4. k = l
      BY <3>3 DEF IdOf
    <3> QED
      BY <3>1, <3>2, <3>4
  <2>2. ASSUME NEW p \in catalog'
        PROVE  Formed(p.gates) /\ p.tolerance = Tolerance
    <3>1. PICK k \in chosen : p = Entry(k)
      BY <1>1
    <3>2. Formed(k.gates)
      BY DEF Evidence, Loadable
    <3> QED
      BY <3>1, <3>2, EntryParts
  <2>3. ASSUME NEW p \in catalog'
        PROVE  /\ (\A i \in DOMAIN p.gates : LoadsGate(p.gates[i])) <=> IndicesFit(p.gates)
               /\ Len(p.gates) >= 2 /\ p.tolerance \in 0..MaxTolerance
               /\ IsPattern([gates |-> p.gates, tolerance |-> p.tolerance])
               /\ \A i \in DOMAIN p.gates : p.gates[i].gate = "rz" => p.gates[i].angle # {}
    <3>1. Formed(p.gates) /\ p.tolerance = Tolerance
      BY <2>2
    <3>2. \A i \in DOMAIN p.gates : GateLoads(p.gates[i])
      BY <3>1 DEF Formed
    <3>3. (\A i \in DOMAIN p.gates : LoadsGate(p.gates[i])) <=> IndicesFit(p.gates)
      BY <3>2, GateLoadsIs DEF IndicesFit
    <3>4. \A i \in DOMAIN p.gates : p.gates[i].gate = "rz" => p.gates[i].angle # {}
      BY <3>2 DEF GateLoads
    <3> QED
      BY <3>1, <3>3, <3>4 DEF Formed, Tolerance, MaxTolerance
  <2>4. Loads(catalog') <=> \A p \in catalog' : IndicesFit(p.gates)
    BY <2>1, <2>3 DEF Loads
  <2> QED
    BY <2>3, <2>4 DEF CatalogLoads
<1> QED
  BY <1>1, <1>2, <1>9, <1>10 DEF Evidence

LEMMA EvidenceNext == Evidence /\ [Next]_vars => Evidence'
<1> SUFFICES ASSUME Evidence, [Next]_vars
             PROVE  Evidence'
  OBVIOUS
<1>1. CASE Read
  BY <1>1, EvidenceRead
<1>2. CASE Promote
  BY <1>2, EvidencePromote
<1>3. CASE Reject \/ UNCHANGED vars
  <2>1. /\ UNCHANGED <<call, todo, groups, catalog>>
        /\ pc' \in {"read", "rejected", "done"} /\ (pc' = "done" => pc = "done")
    BY <1>3 DEF Reject, vars, Evidence
  <2>2. Listed' = Listed
    BY <2>1 DEF Listed
  <2>3. Past' = Past
    BY <2>1, <2>2 DEF Past
  <2>4. ReadSoFar' /\ Loadable'
    BY <2>1, <2>2 DEF Evidence, ReadSoFar, Loadable
  <2>5. Gathered(Past, groups)'
    BY <2>1, <2>3 DEF Evidence, Gathered, Says, Observed
  <2>6. PromotedByEvidence /\ pc = "done" => PromotedByEvidence'
    BY <2>1 DEF PromotedByEvidence, Keys, Times, SourcesOf, Inputs
  <2>7. CatalogLoads /\ pc = "done" => CatalogLoads'
    BY <2>1 DEF CatalogLoads, Loads
  <2> QED
    BY <2>1, <2>4, <2>5, <2>6, <2>7 DEF Evidence
<1> QED
  BY <1>1, <1>2, <1>3 DEF Next

\* Whatever the files hold and in whatever order, and however often, they are
\* listed: a pattern is in the catalog exactly when enough different times of
\* its own backend support it, and each of them lists each of its files once.
THEOREM AlwaysPromotedByEvidence == Spec => []PromotedByEvidence
<1>1. Evidence => PromotedByEvidence
  BY DEF Evidence, PromotedByEvidence
<1> QED
  BY <1>1, EvidenceInit, EvidenceNext, PTL DEF Spec

\* The catalogs the tool writes that loadCatalog refuses are those with an index
\* it cannot represent, and no others; each pattern is of the form the native
\* matcher is written for, with an angle for every rz.
THEOREM CatalogAlwaysLoads == Spec => []CatalogLoads
<1>1. Evidence => CatalogLoads
  BY DEF Evidence, CatalogLoads
<1> QED
  BY <1>1, EvidenceInit, EvidenceNext, PTL DEF Spec
=============================================================================
