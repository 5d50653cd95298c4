-------------------------- MODULE QRiskTrace_proofs --------------------------
(***************************************************************************)
(* Lemmas about the pure functions of QRiskTrace: what a projection, an    *)
(* occurrence, a move and a rotation are, for every circuit and catalog,   *)
(* and what the operations on a wire are.                                  *)
(***************************************************************************)
EXTENDS QRiskTrace, FiniteSetTheorems, SequenceTheorems, TLAPS

(***************************************************************************)
(* The rules do not depend on the order a pair is asked in.                *)
(***************************************************************************)
LEMMA CommutesEitherWay ==
    ASSUME NEW a, NEW b, NEW d
    PROVE  Commutes(a, b, d) <=> Commutes(b, a, d)
<1>1. Disjoint(a, b) <=> Disjoint(b, a)
  BY DEF Disjoint
<1> QED
  BY <1>1 DEF Commutes

(***************************************************************************)
(* The projection of a trace: Increasing(P) lists elements of P.           *)
(***************************************************************************)
LEMMA RankType ==
    ASSUME NEW P, IsFiniteSet(P), NEW i
    PROVE  Rank(P, i) \in Nat
<1>1. IsFiniteSet({j \in P : j < i})
  BY FS_Subset
<1> QED
  BY <1>1, FS_CardinalityType DEF Rank

\* The rank of an element is that of any smaller element plus one, or more.
LEMMA RankIncreases ==
    ASSUME NEW P \in SUBSET Int, IsFiniteSet(P), NEW i \in P, NEW j \in P, i < j
    PROVE  Rank(P, i) < Rank(P, j)
<1> DEFINE A == {k \in P : k < i}
           B == {k \in P : k < j}
<1>1. IsFiniteSet(A) /\ IsFiniteSet(B)
  BY FS_Subset
<1>2. A \subseteq B /\ A # B
  <2>1. A \subseteq B
    <3> SUFFICES ASSUME NEW k \in P, k < i
                 PROVE  k < j
      OBVIOUS
    <3>1. i \in Int /\ j \in Int /\ k \in Int
      OBVIOUS
    <3> QED
      BY <3>1
  <2>2. i \in B /\ i \notin A
    OBVIOUS
  <2> QED
    BY <2>1, <2>2
<1>3. Cardinality(A) < Cardinality(B)
  <2>1. Cardinality(A) <= Cardinality(B) /\ (Cardinality(A) = Cardinality(B) => A = B)
    BY <1>1, <1>2, FS_Subset
  <2>2. Cardinality(A) \in Nat /\ Cardinality(B) \in Nat
    BY <1>1, FS_CardinalityType
  <2> QED
    BY <1>2, <2>1, <2>2
<1> QED
  BY <1>3 DEF Rank

LEMMA RankBound ==
    ASSUME NEW P \in SUBSET Int, IsFiniteSet(P), NEW i \in P
    PROVE  Rank(P, i) \in 0..(Cardinality(P) - 1)
<1> DEFINE A == {k \in P : k < i}
<1>1. A \subseteq P /\ A # P
  OBVIOUS
<1>2. IsFiniteSet(A) /\ Cardinality(A) <= Cardinality(P)
        /\ (Cardinality(A) = Cardinality(P) => A = P)
  BY <1>1, FS_Subset
<1>3. Cardinality(A) \in Nat /\ Cardinality(P) \in Nat
  BY <1>2, FS_CardinalityType
<1> QED
  BY <1>1, <1>2, <1>3 DEF Rank

\* Every rank below the size of P is taken: the ranks are as many as P.
LEMMA RankOnto ==
    ASSUME NEW P \in SUBSET Int, IsFiniteSet(P), NEW r \in 0..(Cardinality(P) - 1)
    PROVE  \E i \in P : Rank(P, i) = r
<1> DEFINE f == [i \in P |-> Rank(P, i)]
           R == {f[i] : i \in P}
           N == 0..(Cardinality(P) - 1)
<1>1. Cardinality(P) \in Nat
  BY FS_CardinalityType
<1>2. \A i, j \in P : f[i] = f[j] => i = j
  <2> SUFFICES ASSUME NEW i \in P, NEW j \in P, i # j
               PROVE  f[i] # f[j]
    OBVIOUS
  <2>1. Rank(P, i) \in Nat /\ Rank(P, j) \in Nat
    BY RankType
  <2>2. CASE i < j
    BY <2>1, <2>2, RankIncreases
  <2>3. CASE j < i
    BY <2>1, <2>3, RankIncreases
  <2> QED
    BY <2>2, <2>3
<1>3. f \in Bijection(P, R)
  BY <1>2 DEF Bijection, Injection, Surjection, IsInjective
<1>4. IsFiniteSet(R) /\ Cardinality(R) = Cardinality(P)
  <2> HIDE DEF f, R
  <2> QED
    BY <1>3, FS_Bijection DEF ExistsBijection
<1>5. R \subseteq N
  BY RankBound
<1>6. IsFiniteSet(N) /\ Cardinality(N) = Cardinality(P)
  BY <1>1, FS_Interval
<1>7. R = N
  BY <1>4, <1>5, <1>6, FS_Subset
<1> QED
  BY <1>7

LEMMA IncreasingInP ==
    ASSUME NEW P \in SUBSET Int, IsFiniteSet(P)
    PROVE  Increasing(P) \in [1..Cardinality(P) -> P]
<1>1. \A r \in 1..Cardinality(P) : \E i \in P : Rank(P, i) = r - 1
  BY RankOnto, FS_CardinalityType
<1> QED
  BY <1>1 DEF Increasing

(***************************************************************************)
(* The occurrences of a pattern: finitely many, of positions of the trace. *)
(***************************************************************************)
LEMMA ProjectedFinite ==
    ASSUME NEW S, NEW t \in Seq(S), NEW p, NEW g
    PROVE  /\ Projected(t, p, g) \in SUBSET (1..Len(t))
           /\ IsFiniteSet(Projected(t, p, g))
           /\ Cardinality(Projected(t, p, g)) \in Nat
<1>1. Len(t) \in Nat /\ DOMAIN t = 1..Len(t)
  BY LenProperties
<1>2. IsFiniteSet(1..Len(t))
  BY <1>1, FS_Interval
<1>3. Projected(t, p, g) \in SUBSET (1..Len(t))
  BY <1>1 DEF Projected
<1> QED
  BY <1>2, <1>3, FS_Subset, FS_CardinalityType

\* A window is the projection read from some start, and names positions of it.
LEMMA WindowShape ==
    ASSUME NEW P \in SUBSET Int, IsFiniteSet(P), NEW t,
           NEW pat, pat.gates \in Seq(GateSpec),
           NEW w \in WindowsIn(P, t, pat)
    PROVE  w \in Seq(P) /\ Len(w) = Len(pat.gates)
<1> DEFINE size == Len(pat.gates)
           inc == Increasing(P)
<1>1. size \in Nat /\ Cardinality(P) \in Nat
  BY LenProperties, FS_CardinalityType
<1>2. inc \in [1..Cardinality(P) -> P]
  BY IncreasingInP
<1>3. PICK start \in 0..(Cardinality(P) - size) : w = SubSeq(inc, start + 1, start + size)
  BY DEF WindowsIn
<1> HIDE DEF inc, size
<1>4. \A i \in (start + 1)..(start + size) : inc[i] \in P
  BY <1>1, <1>2
<1>5. start + 1 \in Int /\ start + size \in Int
  BY <1>1
<1>6. /\ w \in Seq(P)
      /\ Len(w) = IF start + 1 <= start + size THEN (start + size) - (start + 1) + 1 ELSE 0
  BY <1>3, <1>4, <1>5, SubSeqProperties
<1>7. Len(w) = size
  BY <1>1, <1>6
<1> QED
  BY <1>6, <1>7 DEF size

LEMMA WindowsFinite ==
    ASSUME NEW P \in SUBSET Int, IsFiniteSet(P), NEW t,
           NEW pat, pat.gates \in Seq(GateSpec)
    PROVE  IsFiniteSet(WindowsIn(P, t, pat))
<1> DEFINE starts == 0..(Cardinality(P) - Len(pat.gates))
           f == [s \in starts |-> SubSeq(Increasing(P), s + 1, s + Len(pat.gates))]
           T == {f[s] : s \in starts}
<1>1. IsFiniteSet(starts)
  <2>1. Cardinality(P) - Len(pat.gates) \in Int
    BY LenProperties, FS_CardinalityType
  <2> QED
    BY <2>1, FS_Interval
<1>2. f \in Surjection(starts, T)
  BY DEF Surjection
<1>3. IsFiniteSet(T)
  <2> HIDE DEF f, T, starts
  <2> QED
    BY <1>1, <1>2, FS_Surjection
<1>4. WindowsIn(P, t, pat) \subseteq T
  BY DEF WindowsIn
<1> QED
  BY <1>3, <1>4, FS_Subset

\* Catalogs that loadCatalog accepts.
PatternList(ps) ==
    /\ ps \in Seq([gates : Seq(GateSpec), tolerance : Nat])
    /\ \A p \in DOMAIN ps : IsPattern(ps[p])

LEMMA MatchShape ==
    ASSUME NEW S, NEW t \in Seq(S), NEW ps, PatternList(ps), NEW g,
           NEW m \in FindMatches(t, ps, g)
    PROVE  /\ m.pattern \in DOMAIN ps
           /\ m.steps \in Seq(1..Len(t))
           /\ Len(m.steps) = Len(ps[m.pattern].gates)
<1>0. PICK p \in DOMAIN ps : \E w \in Windows(t, ps[p], g) : m = [pattern |-> p, steps |-> w]
  BY DEF FindMatches
<1>1. PICK w \in Windows(t, ps[p], g) : m = [pattern |-> p, steps |-> w]
  BY <1>0
<1> DEFINE P == Projected(t, ps[p], g)
<1>2. w \in WindowsIn(P, t, ps[p])
  BY DEF Windows
<1>3. P \in SUBSET (1..Len(t)) /\ P \in SUBSET Int /\ IsFiniteSet(P)
  BY ProjectedFinite
<1>4. ps[p].gates \in Seq(GateSpec)
  BY DEF PatternList, IsPattern
<1>5. w \in Seq(P) /\ Len(w) = Len(ps[p].gates)
  <2> HIDE DEF P
  <2> QED
    BY <1>2, <1>3, <1>4, WindowShape
<1>6. w \in Seq(1..Len(t))
  <2>1. Len(w) \in Nat /\ w \in [1..Len(w) -> P]
    BY <1>5, LenProperties
  <2>2. w \in [1..Len(w) -> 1..Len(t)]
    BY <1>3, <2>1
  <2> QED
    BY <2>1, <2>2
<1> QED
  BY <1>1, <1>5, <1>6

LEMMA MatchesFinite ==
    ASSUME NEW S, NEW t \in Seq(S), NEW ps, PatternList(ps), NEW g, NEW p \in DOMAIN ps
    PROVE  IsFiniteSet({m \in FindMatches(t, ps, g) : m.pattern = p})
<1> DEFINE M == FindMatches(t, ps, g)
           P == Projected(t, ps[p], g)
           W == WindowsIn(P, t, ps[p])
           f == [w \in W |-> [pattern |-> p, steps |-> w]]
           T == {f[w] : w \in W}
<1>1. IsFiniteSet(W)
  <2>1. P \in SUBSET Int /\ IsFiniteSet(P)
    BY ProjectedFinite
  <2>2. ps[p].gates \in Seq(GateSpec)
    BY DEF PatternList, IsPattern
  <2> QED
    BY <2>1, <2>2, WindowsFinite
<1>2. IsFiniteSet(T)
  <2>1. f \in Surjection(W, T)
    BY DEF Surjection
  <2> HIDE DEF f, T, W
  <2> QED
    BY <1>1, <2>1, FS_Surjection
<1>3. {m \in M : m.pattern = p} \subseteq T
  <2> SUFFICES ASSUME NEW m \in M, m.pattern = p
               PROVE  m \in T
    OBVIOUS
  <2>0. PICK q \in DOMAIN ps : \E w \in Windows(t, ps[q], g) : m = [pattern |-> q, steps |-> w]
    BY DEF FindMatches
  <2>1. PICK w \in Windows(t, ps[q], g) : m = [pattern |-> q, steps |-> w]
    BY <2>0
  <2>2. q = p
    BY <2>1
  <2>3. w \in W
    BY <2>1, <2>2 DEF Windows
  <2>4. m = f[w]
    BY <2>1, <2>2, <2>3
  <2> QED
    BY <2>3, <2>4
<1> HIDE DEF T
<1> QED
  BY <1>2, <1>3, FS_Subset

LEMMA CountsType ==
    ASSUME NEW S, NEW t \in Seq(S), NEW ps, PatternList(ps), NEW g
    PROVE  CountMatches(FindMatches(t, ps, g), ps) \in [DOMAIN ps -> Nat]
<1> SUFFICES ASSUME NEW p \in DOMAIN ps
             PROVE  Cardinality({m \in FindMatches(t, ps, g) : m.pattern = p}) \in Nat
  BY DEF CountMatches
<1> QED
  BY MatchesFinite, FS_CardinalityType
(***************************************************************************)
(* A move is between two positions of the trace, the first one smaller.    *)
(***************************************************************************)
IsMove(move, n) ==
    /\ move.left \in 1..n
    /\ move.right \in 1..n
    /\ move.left < move.right
    /\ move.direction \in {0, 1}

LEMMA MoveShape ==
    ASSUME NEW S, NEW t \in Seq(S), NEW ps, PatternList(ps), NEW g,
           NEW move \in Moves(t, FindMatches(t, ps, g))
    PROVE  IsMove(move, Len(t)) /\ move.pattern \in DOMAIN ps
<1>1. PICK m \in FindMatches(t, ps, g) : move \in MovesOf(t, m)
  BY DEF Moves
<1>2. PICK e \in Endpoints(t, m) :
        \E d \in Directions(e[1], e[2]) :
            move = [pattern |-> m.pattern, start |-> m.steps[1],
                    left |-> e[1], right |-> e[2], direction |-> d]
  BY <1>1 DEF MovesOf
<1>3. m.pattern \in DOMAIN ps /\ m.steps \in Seq(1..Len(t))
  BY MatchShape
<1>4. {m.steps[j] : j \in DOMAIN m.steps} \subseteq 1..Len(t)
  BY <1>3, LenProperties
<1>5. e[1] \in 1..Len(t) /\ e[2] \in 1..Len(t) /\ e[1] < e[2]
  BY <1>4 DEF Endpoints
<1> QED
  BY <1>2, <1>3, <1>5 DEF Directions, IsMove

(***************************************************************************)
(* A rotation permutes: place i of the result comes from place Source(i).  *)
(***************************************************************************)
Source(move, i) ==
    IF i < move.left \/ i > move.right THEN i
    ELSE IF move.direction = 0
         THEN IF i = move.left THEN move.right ELSE i - 1
         ELSE IF i = move.right THEN move.left ELSE i + 1

LEMMA SourceType ==
    ASSUME NEW n \in Nat, NEW move, IsMove(move, n), NEW i \in 1..n
    PROVE  Source(move, i) \in 1..n
BY DEF IsMove, Source

LEMMA SourceInjective ==
    ASSUME NEW n \in Nat, NEW move, IsMove(move, n), NEW i \in 1..n, NEW j \in 1..n,
           Source(move, i) = Source(move, j)
    PROVE  i = j
BY DEF IsMove, Source

LEMMA RotateOrder ==
    ASSUME NEW n \in Nat, NEW seq \in [1..n -> 1..n], NEW move, IsMove(move, n)
    PROVE  /\ Rotate(seq, move) \in [1..n -> 1..n]
           /\ \A i \in 1..n : Rotate(seq, move)[i] = seq[Source(move, i)]
<1>1. Len(seq) = n
  OBVIOUS
<1>2. Rotate(seq, move) = [i \in 1..n |-> seq[Source(move, i)]]
  BY <1>1 DEF Rotate, Source
<1>3. \A i \in 1..n : Source(move, i) \in 1..n
  BY SourceType
<1> QED
  BY <1>2, <1>3

\* The pairs a rotation turns around are those of the moved event with an event
\* it passes, which are the pairs that Legal has looked at.
LEMMA LegalPairs ==
    ASSUME NEW t, NEW n \in Nat, NEW move, IsMove(move, n), NEW d,
           Legal(t, move, d),
           NEW i \in 1..n, NEW j \in 1..n, i < j, Source(move, i) >= Source(move, j)
    PROVE  Commutes(t[Source(move, i)], t[Source(move, j)], d)
<1> USE DEF IsMove
<1>1. CASE move.direction = 0
  <2>1. i = move.left /\ j > move.left /\ j <= move.right
    BY <1>1 DEF Source
  <2>2. Source(move, i) = move.right /\ Source(move, j) = j - 1
    BY <1>1, <2>1 DEF Source
  <2>3. j - 1 \in move.left..(move.right - 1)
    BY <2>1
  <2> QED
    BY <1>1, <2>2, <2>3 DEF Legal
<1>2. CASE move.direction = 1
  <2>1. j = move.right /\ i >= move.left /\ i < move.right
    BY <1>2 DEF Source
  <2>2. Source(move, j) = move.left /\ Source(move, i) = i + 1
    BY <1>2, <2>1 DEF Source
  <2>3. i \in move.left..(move.right - 1)
    BY <2>1
  <2>4. Commutes(t[move.left], t[i + 1], d)
    BY <1>2, <2>3 DEF Legal
  <2> QED
    BY <2>2, <2>4, CommutesEitherWay
<1> QED
  BY <1>1, <1>2
(***************************************************************************)
(* The total that the acceptance rule compares is a number.                *)
(***************************************************************************)
LEMMA TotalFinite ==
    ASSUME NEW ps, PatternList(ps), NEW counts \in [DOMAIN ps -> Nat]
    PROVE  IsFiniteSet(UNION {{p} \X (1..counts[p]) : p \in DOMAIN counts})
<1> DEFINE D == DOMAIN ps
           slice(p) == {p} \X (1..counts[p])
           f == [p \in D |-> slice(p)]
           T == {f[p] : p \in D}
<1>1. IsFiniteSet(D)
  BY LenProperties, FS_Interval DEF PatternList
<1>2. IsFiniteSet(T)
  <2>1. f \in Surjection(D, T)
    BY DEF Surjection
  <2> HIDE DEF f, T, D
  <2> QED
    BY <1>1, <2>1, FS_Surjection
<1>3. ASSUME NEW p \in D
      PROVE  IsFiniteSet(slice(p))
  <2>1. IsFiniteSet({p})
    BY FS_Singleton
  <2>2. IsFiniteSet(1..counts[p])
    <3>1. counts[p] \in Int
      OBVIOUS
    <3> QED
      BY <3>1, FS_Interval
  <2> QED
    BY <2>1, <2>2, FS_Product
<1>4. IsFiniteSet(UNION T)
  <2>1. \A X \in T : IsFiniteSet(X)
    BY <1>3
  <2> HIDE DEF T
  <2> QED
    BY <1>2, <2>1, FS_UNION
<1>5. UNION T = UNION {slice(p) : p \in DOMAIN counts}
  BY Zenon
<1> HIDE DEF T
<1> QED
  BY <1>4, <1>5

LEMMA TotalType ==
    ASSUME NEW ps, PatternList(ps), NEW counts \in [DOMAIN ps -> Nat]
    PROVE  Total(counts) \in Nat
BY TotalFinite, FS_CardinalityType DEF Total

\* Nothing is counted exactly when nothing matches.
LEMMA TotalZero ==
    ASSUME NEW S, NEW t \in Seq(S), NEW ps, PatternList(ps), NEW g
    PROVE  Total(CountMatches(FindMatches(t, ps, g), ps)) = 0 <=> FindMatches(t, ps, g) = {}
<1> DEFINE M == FindMatches(t, ps, g)
           counts == CountMatches(M, ps)
           all == UNION {{p} \X (1..counts[p]) : p \in DOMAIN counts}
<1>1. counts \in [DOMAIN ps -> Nat]
  BY CountsType
<1>2. \A p \in DOMAIN ps : counts[p] = 0 <=> {m \in M : m.pattern = p} = {}
  BY MatchesFinite, FS_EmptySet DEF CountMatches
<1>3. \A m \in M : m.pattern \in DOMAIN ps
  BY MatchShape
<1> HIDE DEF M, counts
<1>4. Total(counts) = 0 <=> all = {}
  <2>1. IsFiniteSet(all)
    BY <1>1, TotalFinite
  <2>2. Total(counts) = Cardinality(all)
    BY DEF Total
  <2> HIDE DEF all
  <2> QED
    BY <2>1, <2>2, FS_EmptySet
<1>5. all = {} <=> \A p \in DOMAIN ps : counts[p] = 0
  <2>1. ASSUME NEW p \in DOMAIN ps, counts[p] # 0
        PROVE  <<p, 1>> \in all
    BY <1>1, <2>1
  <2>2. ASSUME NEW x \in all
        PROVE  \E p \in DOMAIN ps : counts[p] # 0
    BY <1>1, <2>2
  <2> QED
    BY <2>1, <2>2
<1>6. (\A p \in DOMAIN ps : counts[p] = 0) <=> M = {}
  BY <1>2, <1>3
<1> QED
  BY <1>4, <1>5, <1>6, Zenon DEF M, counts

(***************************************************************************)
(* Every set of positions has a first one: among the intervals from 0 to   *)
(* one of its elements, one has no other below it.                         *)
(***************************************************************************)
LEMMA FirstOf ==
    ASSUME NEW S \in SUBSET Nat, S # {}
    PROVE  \E m \in S : \A k \in S : m <= k
<1> DEFINE R == {ss \in Nat \X Nat : ss[1] < ss[2]}
<1>1. IsWellFoundedOn(R, Nat)
  BY NatLessThanWellFounded DEF OpToRel
<1> HIDE DEF R
<1>2. PICK m \in S : \A k \in S : <<k, m>> \notin R
  BY <1>1, WFMin
<1>3. ASSUME NEW k \in S
      PROVE  m <= k
  <2>1. <<k, m>> \notin R
    BY <1>2
  <2> QED
    BY <2>1 DEF R
<1> QED
  BY <1>3

\* Induction over the numbers, for a set of them.
LEMMA Induct ==
    ASSUME NEW S, 0 \in S, \A n \in Nat : n \in S => n + 1 \in S
    PROVE  \A n \in Nat : n \in S
<1> DEFINE T == Nat \ S
<1> SUFFICES ASSUME T # {}
             PROVE  FALSE
  OBVIOUS
<1>1. T \in SUBSET Nat
  OBVIOUS
<1> HIDE DEF T
<1>2. PICK m \in T : \A k \in T : m <= k
  BY <1>1, FirstOf
<1>3. m \in Nat /\ m # 0
  BY DEF T
<1>4. m - 1 \in Nat /\ m - 1 \notin T /\ (m - 1) + 1 = m
  BY <1>2, <1>3
<1>5. m - 1 \in S
  BY <1>4 DEF T
<1>6. m \in S
  BY <1>4, <1>5
<1> QED
  BY <1>6 DEF T

LEMMA LastOf ==
    ASSUME NEW n \in Nat, NEW S \in SUBSET (1..n), S # {}
    PROVE  \E m \in S : \A k \in S : k <= m
<1> DEFINE T == {n - k : k \in S}
<1>1. T \in SUBSET Nat /\ T # {}
  <2>1. \A k \in S : n - k \in Nat
    OBVIOUS
  <2> QED
    BY <2>1
<1>2. PICK x \in T : \A y \in T : x <= y
  <2> HIDE DEF T
  <2> QED
    BY <1>1, FirstOf
<1>3. PICK m \in S : x = n - m
  OBVIOUS
<1>4. \A k \in S : n - m <= n - k
  BY <1>2, <1>3
<1> QED
  BY <1>4

\* An injection of the positions into themselves reaches all of them.
LEMMA OrderOnto ==
    ASSUME NEW n \in Nat, NEW ord \in [1..n -> 1..n],
           \A i, j \in 1..n : ord[i] = ord[j] => i = j
    PROVE  \A c \in 1..n : \E k \in 1..n : ord[k] = c
<1>1. IsFiniteSet(1..n)
  BY FS_Interval
<1>2. ord \in Injection(1..n, 1..n)
  BY DEF Injection, IsInjective
<1>3. ord \in Surjection(1..n, 1..n)
  BY <1>1, <1>2, FS_Injection
<1> QED
  BY <1>3 DEF Surjection

(***************************************************************************)
(* An order that keeps the sides of every fence keeps every operation      *)
(* within the lifetimes of its wires.  The operation before it on its wire *)
(* may be another one than in the source circuit; it cannot be missing,    *)
(* because the allocation is a fence, nor end the wire, because an         *)
(* operation that ends a wire is a fence too.                              *)
(***************************************************************************)
FencedOrder(n, ord, t, u) ==
    /\ ord \in [1..n -> 1..n] /\ \A i, j \in 1..n : ord[i] = ord[j] => i = j
    /\ DOMAIN t = 1..n /\ DOMAIN u = 1..n /\ \A i \in 1..n : u[i] = t[ord[i]]
    /\ \A i, j \in 1..n : i < j /\ ~(u[i].movable /\ u[j].movable) => ord[i] < ord[j]

LEMMA FencedOrderKeepsLifetimes ==
    ASSUME NEW n \in Nat, NEW t, NEW ord, NEW u, FencedOrder(n, ord, t, u),
           \A i \in 1..n : IsEvent(t[i]),
           WithinLifetimes(t)
    PROVE  WithinLifetimes(u)
<1> USE DEF FencedOrder
<1>onto. \A c \in 1..n : \E k \in 1..n : ord[k] = c
  BY OrderOnto
<1> SUFFICES ASSUME NEW i \in 1..n, NEW q, UsesWire(u[i], q), u[i].gate # "alloc"
             PROVE  Live(u, q, i)
  BY DEF WithinLifetimes
<1> DEFINE users == {c \in 1..n : UsesWire(t[c], q)}
           a == ord[i]
           earlier == {k \in 1..n : k < i /\ UsesWire(u[k], q)}
<1>0. \A c \in 1..n : t[c].gate \in Effects => ~t[c].movable
  BY DEF IsEvent, Gates, Effects
<1>1. a \in users /\ a \in 1..n /\ t[a].gate # "alloc"
  OBVIOUS
\* Where the source circuit is at fault, so is its verifier.
<1>2. ASSUME NEW c \in users, t[c].gate # "alloc"
      PROVE  \E j \in users : /\ j < c /\ t[j].gate \notin {"measure", "discard"}
                              /\ \A k \in users : ~(j < k /\ k < c)
  <2>1. Live(t, q, c)
    BY <1>2 DEF WithinLifetimes, UsesWire
  <2>2. PICK j \in 1..(c - 1) : /\ UsesWire(t[j], q) /\ t[j].gate \notin {"measure", "discard"}
                                /\ \A k \in (j + 1)..(c - 1) : ~UsesWire(t[k], q)
    BY <2>1 DEF Live
  <2>3. j \in users /\ j < c
    BY <2>2
  <2>4. \A k \in users : j < k /\ k < c => k \in (j + 1)..(c - 1)
    BY <2>3
  <2> QED
    BY <2>2, <2>3, <2>4
\* A fence before the operation in the source is before it in the new order.
<1>3. ASSUME NEW c \in users, t[c].gate \in Effects, c < a
      PROVE  \E k \in earlier : ord[k] = c
  <2>1. PICK k \in 1..n : ord[k] = c
    BY <1>onto
  <2>2. ~u[k].movable /\ UsesWire(u[k], q)
    BY <1>0, <1>3, <2>1
  <2>3. ~(i < k) /\ k # i
    BY <1>1, <1>3, <2>1, <2>2
  <2> QED
    BY <2>1, <2>2, <2>3
<1> HIDE DEF a
<1>4. earlier # {}
  <2>1. PICK c \in users : \A d \in users : c <= d
    <3>1. users \in SUBSET Nat /\ users # {}
      BY <1>1
    <3> HIDE DEF users
    <3> QED
      BY <3>1, FirstOf
  <2>2. t[c].gate = "alloc"
    BY <1>2, <2>1
  <2>3. c < a
    BY <1>1, <2>1, <2>2
  <2> QED
    BY <1>3, <2>2, <2>3 DEF Effects
<1>5. PICK k \in earlier : \A l \in earlier : l <= k
  <2>1. earlier \in SUBSET (1..n)
    OBVIOUS
  <2> HIDE DEF earlier
  <2> QED
    BY <1>4, <2>1, LastOf
<1>6. u[k].gate \notin {"measure", "discard"}
  <2> SUFFICES ASSUME u[k].gate \in {"measure", "discard"}
               PROVE  FALSE
    OBVIOUS
  <2> DEFINE c == ord[k]
             later == {d \in users : d > c}
  <2>1. c \in users /\ c < a /\ ~u[k].movable
    BY <1>0 DEF Effects, a
  <2>2. PICK d \in later : \A e \in later : d <= e
    <3>1. a \in later
      BY <1>1, <2>1
    <3>2. later \in SUBSET Nat /\ later # {}
      <4>1. \A d \in users : d \in Nat
        OBVIOUS
      <4> QED
        BY <3>1, <4>1
    <3> HIDE DEF later
    <3> QED
      BY <3>2, FirstOf
  <2>3. t[d].gate = "alloc"
    <3> SUFFICES ASSUME t[d].gate # "alloc"
                 PROVE  FALSE
      OBVIOUS
    <3>1. PICK j \in users : /\ j < d /\ t[j].gate \notin {"measure", "discard"}
                             /\ \A l \in users : ~(j < l /\ l < d)
      BY <1>2
    <3>2. ~(j < c)
      BY <2>1, <3>1
    <3>3. j # c
      BY <3>1
    <3>4. ~(c < j)
      BY <2>2, <3>1
    <3> QED
      BY <2>1, <3>2, <3>3, <3>4
  <2>4. d < a
    BY <1>1, <2>1, <2>2, <2>3
  <2>5. PICK l \in earlier : ord[l] = d
    BY <1>3, <2>3, <2>4 DEF Effects
  <2>6. ~u[l].movable
    BY <1>0, <2>3, <2>5 DEF Effects
  <2>7. l # k /\ ~(l < k)
    <3> DEFINE x == ord[k]
               y == ord[l]
    <3>1. x < y /\ x \in 1..n /\ y \in 1..n
      BY <2>2, <2>5
    <3>2. l < k => y < x
      BY <2>6
    <3>3. l = k => x = y
      OBVIOUS
    <3> HIDE DEF x, y
    <3> QED
      BY <3>1, <3>2, <3>3
  <2> QED
    BY <1>5, <2>7
<1>7. k \in 1..(i - 1) /\ UsesWire(u[k], q)
  OBVIOUS
<1>8. \A l \in (k + 1)..(i - 1) : ~UsesWire(u[l], q)
  <2> SUFFICES ASSUME NEW l \in (k + 1)..(i - 1), UsesWire(u[l], q)
               PROVE  FALSE
    OBVIOUS
  <2>1. l \in earlier
    BY <1>7
  <2> QED
    BY <1>5, <1>7, <2>1
<1> QED
  BY <1>6, <1>7, <1>8 DEF Live

-----------------------------------------------------------------------------
(***************************************************************************)
(* A whole trace: every wire is allocated once, has its end, and has its   *)
(* operations between the two.  A fenced order keeps a trace whole.        *)
(***************************************************************************)
Ending == {"measure", "discard"}

WholeTrace(n, t) ==
    /\ DOMAIN t = 1..n
    /\ WithinLifetimes(t)
    /\ \A i \in 1..n : /\ IsEvent(t[i])
                       /\ t[i].gate = "output" => t[i].qubits = <<>>
                       /\ t[i].gate \in Ending \cup {"alloc"} => Len(t[i].qubits) = 1
    /\ \A a, b \in 1..n : t[a].gate = "alloc" /\ t[b].gate = "alloc" /\ t[a].qubits[1] = t[b].qubits[1] => a = b
    /\ \A a \in 1..n : t[a].gate = "alloc" =>
          \E e \in 1..n : t[e].gate \in Ending /\ t[e].qubits[1] = t[a].qubits[1]

LEMMA WholeKept ==
    ASSUME NEW n \in Nat, NEW t, NEW ord, NEW u, FencedOrder(n, ord, t, u), WholeTrace(n, t)
    PROVE  WholeTrace(n, u)
<1>1. /\ ord \in [1..n -> 1..n] /\ \A i, j \in 1..n : ord[i] = ord[j] => i = j
      /\ DOMAIN u = 1..n /\ \A i \in 1..n : u[i] = t[ord[i]]
  BY DEF FencedOrder
<1>2. WithinLifetimes(u)
  BY FencedOrderKeepsLifetimes DEF WholeTrace
<1>3. \A c \in 1..n : \E k \in 1..n : ord[k] = c
  BY <1>1, OrderOnto
<1>4. \A i \in 1..n : /\ IsEvent(u[i])
                      /\ u[i].gate = "output" => u[i].qubits = <<>>
                      /\ u[i].gate \in Ending \cup {"alloc"} => Len(u[i].qubits) = 1
  BY <1>1 DEF WholeTrace
<1>5. ASSUME NEW a \in 1..n, NEW b \in 1..n,
             u[a].gate = "alloc" /\ u[b].gate = "alloc" /\ u[a].qubits[1] = u[b].qubits[1]
      PROVE  a = b
  <2>1. ord[a] \in 1..n /\ ord[b] \in 1..n /\ u[a] = t[ord[a]] /\ u[b] = t[ord[b]]
    BY <1>1
  <2>2. ord[a] = ord[b]
    BY <1>5, <2>1 DEF WholeTrace
  <2> QED
    BY <1>1, <2>2
<1>6. ASSUME NEW a \in 1..n, u[a].gate = "alloc"
      PROVE  \E e \in 1..n : u[e].gate \in Ending /\ u[e].qubits[1] = u[a].qubits[1]
  <2>1. ord[a] \in 1..n /\ u[a] = t[ord[a]]
    BY <1>1
  <2>2. PICK c \in 1..n : t[c].gate \in Ending /\ t[c].qubits[1] = t[ord[a]].qubits[1]
    BY <1>6, <2>1 DEF WholeTrace
  <2>3. PICK e \in 1..n : ord[e] = c
    BY <1>3
  <2>4. u[e] = t[c]
    BY <1>1, <2>3
  <2> QED
    BY <2>1, <2>2, <2>4
<1> QED
  BY <1>1, <1>2, <1>4, <1>5, <1>6 DEF WholeTrace

\* The wires of the operations that make or take values.
LEMMA WiresByGate ==
    ASSUME NEW n \in Nat, NEW u, WholeTrace(n, u), NEW i \in 1..n
    PROVE  /\ u[i].gate \in Gates \cup Effects /\ DOMAIN u[i].qubits = 1..Len(u[i].qubits) /\ Len(u[i].qubits) \in Nat
           /\ \A q : UsesWire(u[i], q) <=>
                 /\ u[i].gate \in Gates \cup Ending \cup {"alloc"}
                 /\ \E k \in DOMAIN u[i].qubits : u[i].qubits[k] = q
           /\ u[i].gate \in Ending \cup {"alloc"} => DOMAIN u[i].qubits = {1}
           /\ u[i].gate \in Gates => DOMAIN u[i].qubits = 1..Arity(u[i].gate)
           /\ u[i].gate \in Gates \cup Ending \cup {"alloc"} =>
                 \A k, l \in DOMAIN u[i].qubits : u[i].qubits[k] = u[i].qubits[l] => k = l
<1> DEFINE e == u[i]
<1>1. IsEvent(e) /\ (e.gate = "output" => e.qubits = <<>>) /\ (e.gate \in Ending \cup {"alloc"} => Len(e.qubits) = 1)
  BY DEF WholeTrace
<1> HIDE DEF e
<1>2. e.gate \in Gates \cup Effects /\ e.qubits \in Seq(Nat)
  BY <1>1 DEF IsEvent, Event
<1>3. DOMAIN e.qubits = 1..Len(e.qubits) /\ Len(e.qubits) \in Nat
  BY <1>2, LenProperties
<1>4. e.gate \in Gates => Len(e.qubits) = Arity(e.gate) /\ Cardinality(WiresOf(e)) = Arity(e.gate)
  BY <1>1 DEF IsEvent
<1>5. \A q : UsesWire(e, q) <=>
          /\ e.gate \in Gates \cup Ending \cup {"alloc"}
          /\ \E k \in DOMAIN e.qubits : e.qubits[k] = q
  <2>1. "barrier" \notin Gates \cup Ending \cup {"alloc"}
    BY DEF Gates, Ending
  <2>2. e.gate \in Gates \cup Ending \cup {"alloc", "barrier", "output"}
    BY <1>2 DEF Effects, Ending
  <2>3. \A q : q \in WiresOf(e) <=> \E k \in DOMAIN e.qubits : e.qubits[k] = q
    BY DEF WiresOf
  <2>4. e.gate = "output" => DOMAIN e.qubits = {}
    BY <1>1, <1>3
  <2> TAKE q
  <2>5. CASE e.gate = "barrier"
    BY <2>1, <2>5 DEF UsesWire
  <2>6. CASE e.gate = "output"
    <3>1. "output" \notin Gates \cup Ending \cup {"alloc"}
      BY DEF Gates, Ending
    <3> QED
      BY <2>3, <2>4, <2>6, <3>1 DEF UsesWire
  <2>7. CASE e.gate \in Gates \cup Ending \cup {"alloc"}
    BY <2>1, <2>3, <2>7 DEF UsesWire
  <2> QED
    BY <2>2, <2>5, <2>6, <2>7
<1>6. e.gate \in Ending \cup {"alloc"} => DOMAIN e.qubits = {1}
  <2> SUFFICES ASSUME e.gate \in Ending \cup {"alloc"}
               PROVE  DOMAIN e.qubits = {1}
    OBVIOUS
  <2>1. Len(e.qubits) = 1
    BY <1>1
  <2>2. DOMAIN e.qubits = 1..1
    BY <1>3, <2>1
  <2> QED
    BY <2>2
<1>7. ASSUME e.gate \in Gates
      PROVE  \A k, l \in DOMAIN e.qubits : e.qubits[k] = e.qubits[l] => k = l
  <2>1. CASE e.gate \notin {"cx", "cz"}
    <3>1. Len(e.qubits) = 1
      BY <1>4, <1>7, <2>1 DEF Arity
    <3> QED
      BY <1>3, <3>1
  <2>2. CASE e.gate \in {"cx", "cz"}
    <3>1. Len(e.qubits) = 2 /\ Cardinality(WiresOf(e)) = 2
      BY <1>4, <1>7, <2>2 DEF Arity
    <3>2. DOMAIN e.qubits = 1..2
      BY <1>3, <3>1
    <3>3. e.qubits[1] # e.qubits[2]
      <4> SUFFICES ASSUME e.qubits[1] = e.qubits[2]
                   PROVE  FALSE
        OBVIOUS
      <4>1. WiresOf(e) = {e.qubits[1]}
        BY <3>2 DEF WiresOf
      <4>2. Cardinality(WiresOf(e)) = 1
        BY <4>1, FS_Singleton
      <4> QED
        BY <3>1, <4>2
    <3> QED
      BY <3>2, <3>3
  <2> QED
    BY <2>1, <2>2
<1> QED
  BY <1>2, <1>3, <1>4, <1>5, <1>6, <1>7 DEF e

LEMMA GateOnWire ==
    ASSUME NEW n \in Nat, NEW u, WholeTrace(n, u), NEW i \in 1..n, NEW q, UsesWire(u[i], q)
    PROVE  u[i].gate \in Gates \cup Ending \cup {"alloc"} /\ \E k \in DOMAIN u[i].qubits : u[i].qubits[k] = q
<1>1. UsesWire(u[i], q) <=>
          /\ u[i].gate \in Gates \cup Ending \cup {"alloc"}
          /\ \E k \in DOMAIN u[i].qubits : u[i].qubits[k] = q
  BY WiresByGate
<1> QED
  BY <1>1

LEMMA OneWire ==
    ASSUME NEW n \in Nat, NEW u, WholeTrace(n, u), NEW i \in 1..n, u[i].gate \in Ending \cup {"alloc"}, NEW q
    PROVE  UsesWire(u[i], q) <=> u[i].qubits[1] = q
<1>1. DOMAIN u[i].qubits = {1}
  BY WiresByGate
<1>2. UsesWire(u[i], q) <=> \E k \in DOMAIN u[i].qubits : u[i].qubits[k] = q
  BY WiresByGate
<1> QED
  BY <1>1, <1>2

LastOn(u, q, n, j) == j \in 1..n /\ UsesWire(u[j], q) /\ \A l \in (j + 1)..n : ~UsesWire(u[l], q)

LEMMA LastOnOne ==
    ASSUME NEW u, NEW q, NEW n \in Nat, NEW i, NEW j, LastOn(u, q, n, i), LastOn(u, q, n, j)
    PROVE  i = j
<1>1. i \in 1..n /\ j \in 1..n /\ (i < j => j \in (i + 1)..n) /\ (j < i => i \in (j + 1)..n)
  BY DEF LastOn
<1>2. ~(i < j) /\ ~(j < i)
  BY <1>1 DEF LastOn
<1> QED
  BY <1>1, <1>2

\* Before an operation on its wire comes another, unless it is the allocation.
LEMMA LastBefore ==
    ASSUME NEW n \in Nat, NEW u, WholeTrace(n, u), NEW i \in 1..n, NEW q, UsesWire(u[i], q), u[i].gate # "alloc"
    PROVE  \E j : LastOn(u, q, i - 1, j) /\ u[j].gate \notin Ending
<1>1. q \in WiresOf(u[i]) /\ i \in DOMAIN u
  BY DEF UsesWire, WholeTrace
<1>2. Live(u, q, i)
  BY <1>1 DEF WholeTrace, WithinLifetimes
<1> QED
  BY <1>2 DEF Live, LastOn, Ending

\* After an operation on its wire comes another, unless it is the end.
LEMMA NextAfter ==
    ASSUME NEW n \in Nat, NEW u, WholeTrace(n, u), NEW m \in 1..n, NEW q, UsesWire(u[m], q), u[m].gate \notin Ending
    PROVE  \E i \in 1..n : /\ m < i /\ UsesWire(u[i], q) /\ u[i].gate # "alloc"
                           /\ LastOn(u, q, i - 1, m)
<1> DEFINE users == {c \in 1..n : UsesWire(u[c], q)}
<1>1. /\ \A c \in users : c \in 1..n /\ UsesWire(u[c], q)
      /\ \A c \in 1..n : UsesWire(u[c], q) => c \in users
      /\ users \in SUBSET (1..n)
  OBVIOUS
<1> HIDE DEF users
<1>2. PICK a \in users : \A c \in users : a <= c
  <2>1. users \in SUBSET Nat /\ users # {}
    BY <1>1
  <2> QED
    BY <2>1, FirstOf
<1>3. u[a].gate = "alloc"
  <2> SUFFICES ASSUME u[a].gate # "alloc"
               PROVE  FALSE
    OBVIOUS
  <2>1. PICK j : LastOn(u, q, a - 1, j)
    BY <1>1, LastBefore
  <2>2. j \in users /\ j < a
    BY <1>1, <2>1 DEF LastOn
  <2> QED
    BY <1>1, <1>2, <2>2
<1>4. u[a].qubits[1] = q
  BY <1>1, <1>3, OneWire
<1>5. PICK e \in 1..n : u[e].gate \in Ending /\ u[e].qubits[1] = q
  BY <1>1, <1>3, <1>4 DEF WholeTrace
<1>6. e \in users
  <2>1. UsesWire(u[e], q)
    BY <1>5, OneWire
  <2> QED
    BY <1>1, <2>1
<1>7. \A c \in users : u[c].gate = "alloc" => c = a
  <2> TAKE c \in users
  <2> HAVE u[c].gate = "alloc"
  <2>1. u[c].qubits[1] = q
    BY <1>1, OneWire
  <2> QED
    BY <1>1, <1>3, <1>4, <2>1 DEF WholeTrace
<1>8. m < e
  <2> SUFFICES ASSUME ~(m < e)
               PROVE  FALSE
    OBVIOUS
  <2> DEFINE later == {c \in users : c > e}
  <2>0. e < m
    BY <1>5, <1>1
  <2>a. m \in users /\ \A c \in users : c \in Nat
    BY <1>1
  <2>1. m \in later /\ later \in SUBSET Nat /\ later \subseteq users /\ \A c \in users : c > e => c \in later
    BY <2>0, <2>a
  <2>2. \A c \in later : c > e
    OBVIOUS
  <2> HIDE DEF later
  <2>3. PICK d \in later : \A c \in later : d <= c
    BY <2>1, FirstOf
  <2>4. d \in users /\ d > e /\ d \in 1..n /\ a <= e
    BY <1>1, <1>2, <1>6, <2>1, <2>2, <2>3
  <2>5. u[d].gate # "alloc"
    BY <1>1, <1>7, <2>4
  <2>6. PICK j : LastOn(u, q, d - 1, j) /\ u[j].gate \notin Ending
    BY <1>1, <2>4, <2>5, LastBefore
  <2>7. j \in users /\ j < d /\ j \in 1..n /\ ~(j < e)
    <3>1. j \in 1..n /\ j < d /\ UsesWire(u[j], q) /\ \A l \in (j + 1)..(d - 1) : ~UsesWire(u[l], q)
      BY <2>4, <2>6 DEF LastOn
    <3>2. j < e => e \in (j + 1)..(d - 1)
      BY <2>4, <3>1
    <3> QED
      BY <1>1, <1>6, <3>1, <3>2
  <2>8. j # e
    BY <1>5, <2>6
  <2>9. j \in later
    BY <2>1, <2>7, <2>8
  <2> QED
    BY <2>3, <2>4, <2>7, <2>9
<1> DEFINE after == {c \in users : c > m}
<1>a. \A c \in users : c \in Nat
  BY <1>1
<1>9. e \in after /\ after \in SUBSET Nat /\ after \subseteq users /\ \A c \in users : c > m => c \in after
  BY <1>6, <1>8, <1>a
<1>10. \A c \in after : c > m
  OBVIOUS
<1> HIDE DEF after
<1>11. PICK i \in after : \A c \in after : i <= c
  BY <1>9, FirstOf
<1>12. i \in 1..n /\ m < i /\ UsesWire(u[i], q) /\ i \in users
  BY <1>1, <1>9, <1>10, <1>11
<1>13. u[i].gate # "alloc"
  <2>1. m \in users /\ a <= m
    BY <1>1, <1>2
  <2> QED
    BY <1>1, <1>7, <1>12, <2>1
<1>14. LastOn(u, q, i - 1, m)
  <2>1. m \in 1..(i - 1)
    BY <1>12
  <2>2. ASSUME NEW l \in (m + 1)..(i - 1), UsesWire(u[l], q)
        PROVE  FALSE
    <3>1. l \in users /\ l > m /\ l < i
      BY <1>1, <1>12, <2>2
    <3> QED
      BY <1>9, <1>11, <1>12, <3>1
  <2> QED
    BY <2>1, <2>2 DEF LastOn
<1> QED
  BY <1>12, <1>13, <1>14
=============================================================================
