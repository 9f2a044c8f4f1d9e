----------------------- MODULE ConversationChainProofs -----------------------
(***************************************************************************)
(* Theorems about ConversationChain and ForkTranscript, for every set of   *)
(* shapes of entries and transcripts of any length, forked anywhere and    *)
(* with batches written twice: what recovery does to the walk from the     *)
(* newest leaf, that a response is returned whole, that no answered call   *)
(* loses its answer, and where a fork cut at a message goes on.            *)
(***************************************************************************)
EXTENDS ForkTranscript, SequenceTheorems, FiniteSetTheorems, WellFoundedInduction, TLAPS

-----------------------------------------------------------------------------
(* Data: least and greatest numbers, recursion, order, and flattening *)

\* A non-empty set of naturals has a least member, and a greatest below a bound.
LEMMA Least ==
    ASSUME NEW T, T \subseteq Nat, T # {}
    PROVE  \E n \in T : \A m \in T : n <= m
<1>1. PICK n \in T : \A m \in T : ~(<<m, n>> \in OpToRel(<, Nat))
  BY WFMin, NatLessThanWellFounded, Zenon
<1>2. \A m \in T : ~(m < n)
  <2> SUFFICES ASSUME NEW m \in T, m < n PROVE <<m, n>> \in OpToRel(<, Nat)
    BY <1>1
  <2>1. m \in Nat /\ n \in Nat
    OBVIOUS
  <2> QED
    BY <2>1 DEF OpToRel
<1> QED
  BY <1>2

LEMMA Greatest ==
    ASSUME NEW n \in Nat, NEW T, T \subseteq 0..n, T # {}
    PROVE  \E m \in T : \A q \in T : q <= m
<1> DEFINE R == {x \in 0..n : n - x \in T}
<1>1. R \subseteq Nat /\ R # {}
  <2>1. PICK q \in T : TRUE
    OBVIOUS
  <2>2. n - q \in 0..n /\ n - (n - q) = q
    OBVIOUS
  <2> QED
    BY <2>1, <2>2
<1>2. PICK x \in R : \A y \in R : x <= y
  BY <1>1, Least
<1>3. ASSUME NEW q \in T PROVE q <= n - x
  <2>1. n - q \in 0..n /\ n - (n - q) = q
    OBVIOUS
  <2>2. x <= n - q
    BY <1>2, <2>1
  <2> QED
    BY <2>2
<1> QED
  BY <1>3

\* Max and Min are those.
LEMMA MaxIs ==
    ASSUME NEW n \in Nat, NEW T, T \subseteq 0..n, T # {}
    PROVE  Max(T) \in T /\ \A q \in T : q <= Max(T)
BY Greatest DEF Max

LEMMA MinIs ==
    ASSUME NEW T, T \subseteq Nat, T # {}
    PROVE  Min(T) \in T /\ \A q \in T : Min(T) <= q
BY Least DEF Min

\* A function defined step by step from b, by g.
StepsBy(f, S, b, g, m) ==
    f \in [0..m -> S] /\ f[0] = b /\ \A i \in 1..m : f[i] = g[<<f[i - 1], i>>]

\* It exists.
LEMMA StepsExist ==
    ASSUME NEW S, NEW b \in S, NEW n \in Nat, NEW g \in [S \X (1..n) -> S]
    PROVE  \E f : StepsBy(f, S, b, g, n)
<1> DEFINE T == {m \in 0..n : ~\E f : StepsBy(f, S, b, g, m)}
<1>1. ASSUME T # {} PROVE FALSE
  <2>0. T \subseteq Nat
    OBVIOUS
  <2>1. PICK m \in T : \A q \in T : m <= q
    <3> HIDE DEF T
    <3> QED
      BY <1>1, <2>0, Least
  <2>2. CASE m = 0
    <3>1. StepsBy([i \in 0..0 |-> b], S, b, g, 0)
      BY DEF StepsBy
    <3> QED
      BY <2>1, <2>2, <3>1
  <2>3. CASE m # 0
    <3>1. m \in Nat /\ m \in 1..n /\ m - 1 \in 0..n /\ m - 1 \notin T /\ m - 1 \in Nat
      BY <2>1, <2>3
    <3>2. PICK f : StepsBy(f, S, b, g, m - 1)
      BY <3>1
    <3>2a. f \in [0..m - 1 -> S] /\ f[0] = b /\ \A i \in 1..m - 1 : f[i] = g[<<f[i - 1], i>>]
      BY <3>2 DEF StepsBy
    <3> DEFINE last == g[<<f[m - 1], m>>]
               h == [i \in 0..m |-> IF i = m THEN last ELSE f[i]]
    <3>3. last \in S
      <4>1. f[m - 1] \in S
        BY <3>1, <3>2a
      <4> QED
        BY <3>1, <4>1
    <3> HIDE DEF last
    <3>4. h \in [0..m -> S] /\ h[0] = b
      BY <3>1, <3>2a, <3>3, <2>3
    <3>5. ASSUME NEW i \in 1..m PROVE h[i] = g[<<h[i - 1], i>>]
      <4>0. i \in 0..m /\ i - 1 \in 0..m /\ i - 1 # m /\ h[i - 1] = f[i - 1]
        BY <3>1
      <4>1. CASE i = m
        BY <4>0, <4>1 DEF last
      <4>2. CASE i # m
        <5>1. i \in 1..m - 1 /\ h[i] = f[i]
          BY <4>2, <3>1, <4>0
        <5> QED
          BY <5>1, <3>2a, <4>0
      <4> QED
        BY <4>1, <4>2
    <3>6. StepsBy(h, S, b, g, m)
      BY <3>4, <3>5 DEF StepsBy
    <3> QED
      BY <2>1, <3>6
  <2> QED
    BY <2>2, <2>3
<1>2. n \notin T
  BY <1>1
<1> QED
  BY <1>2

\* o lists a set, each member once, in the order of the key.
Lists(o, S, key) ==
    /\ o \in Seq(S)
    /\ \A x \in S : \E i \in DOMAIN o : o[i] = x
    /\ \A i, j \in DOMAIN o : i < j => key[o[i]] < key[o[j]]

\* InOrder does so with a finite set.
LEMMA InOrderLists ==
    ASSUME NEW S, IsFiniteSet(S), NEW key, \A x \in S : key[x] \in Nat,
           \A x, y \in S : key[x] = key[y] => x = y
    PROVE  Lists(InOrder(S, key), S, key)
<1> DEFINE n == Cardinality(S)
           below(x) == {y \in S : key[y] < key[x]}
           rank == [x \in S |-> Cardinality(below(x))]
           o == InOrder(S, key)
<1>1. n \in Nat
  BY FS_CardinalityType
<1>2. ASSUME NEW x \in S PROVE IsFiniteSet(below(x)) /\ rank[x] \in 0..n - 1 /\ rank[x] \in Nat
  <2>1. below(x) \in SUBSET S /\ x \notin below(x)
    OBVIOUS
  <2>2. /\ IsFiniteSet(below(x)) /\ Cardinality(below(x)) <= n
        /\ n = Cardinality(below(x)) => S = below(x)
    BY <2>1, FS_Subset
  <2>3. Cardinality(below(x)) \in Nat
    BY <2>2, FS_CardinalityType
  <2> QED
    BY <1>1, <2>1, <2>2, <2>3
<1>3. ASSUME NEW x \in S, NEW z \in S, key[x] < key[z] PROVE rank[x] < rank[z]
  <2>1. below(x) \in SUBSET below(z) /\ x \in below(z) /\ x \notin below(x)
    BY <1>3
  <2>2. /\ Cardinality(below(x)) <= Cardinality(below(z))
        /\ Cardinality(below(z)) = Cardinality(below(x)) => below(z) = below(x)
    BY <1>2, <2>1, FS_Subset
  <2>3. rank[x] \in Nat /\ rank[z] \in Nat
    BY <1>1, <1>2
  <2> QED
    BY <2>1, <2>2, <2>3
<1>a. /\ rank \in [S -> 0..n - 1]
      /\ \A x \in S : rank[x] = Cardinality(below(x)) /\ rank[x] \in Nat
  BY <1>2
<1> HIDE DEF rank
<1>4. \A x, z \in S : rank[x] = rank[z] => x = z
  <2> SUFFICES ASSUME NEW x \in S, NEW z \in S, rank[x] = rank[z], x # z PROVE FALSE
    OBVIOUS
  <2>1. rank[x] \in Nat /\ rank[z] \in Nat
    BY <1>a
  <2>2. key[x] < key[z] \/ key[z] < key[x]
    OBVIOUS
  <2> QED
    BY <1>3, <2>1, <2>2
<1>5. \A i \in 0..n - 1 : \E x \in S : rank[x] = i
  <2>1. rank \in Injection(S, 0..n - 1)
    BY <1>a, <1>4 DEF Injection, IsInjective
  <2>2. IsFiniteSet(0..n - 1) /\ Cardinality(0..n - 1) = n
    BY <1>1, FS_Interval
  <2>3. rank \in Surjection(S, 0..n - 1)
    BY <2>1, <2>2, FS_Injection
  <2> QED
    BY <2>3 DEF Surjection
<1>6. \A i \in 1..n : o[i] \in S /\ rank[o[i]] = i - 1
  <2> SUFFICES ASSUME NEW i \in 1..n PROVE o[i] \in S /\ rank[o[i]] = i - 1
    OBVIOUS
  <2>1. o[i] = CHOOSE x \in S : Cardinality(below(x)) = i - 1
    BY DEF InOrder
  <2>2. \E x \in S : Cardinality(below(x)) = i - 1
    <3>1. i - 1 \in 0..n - 1
      BY <1>1
    <3> QED
      BY <1>a, <1>5, <3>1
  <2>3. o[i] \in S /\ Cardinality(below(o[i])) = i - 1
    BY <2>1, <2>2
  <2> QED
    BY <1>a, <2>3
<1>7. o \in [1..n -> S]
  BY <1>6 DEF InOrder
<1> HIDE DEF o, n
<1>8. o \in Seq(S) /\ Len(o) = n /\ DOMAIN o = 1..n
  BY <1>1, <1>7, IsASeq, LenProperties
<1>9. \A x \in S : \E i \in 1..n : o[i] = x
  <2> SUFFICES ASSUME NEW x \in S PROVE \E i \in 1..n : o[i] = x
    OBVIOUS
  <2>0. rank[x] \in 0..n - 1
    BY <1>a
  <2>1. rank[x] \in Nat /\ rank[x] + 1 \in 1..n
    BY <1>1, <2>0
  <2>2. o[rank[x] + 1] \in S /\ rank[o[rank[x] + 1]] = rank[x]
    BY <2>1, <1>6
  <2> QED
    BY <2>1, <2>2, <1>4
<1>10. \A i, j \in 1..n : i < j => key[o[i]] < key[o[j]]
  <2> SUFFICES ASSUME NEW i \in 1..n, NEW j \in 1..n, i < j PROVE key[o[i]] < key[o[j]]
    OBVIOUS
  <2>1. /\ o[i] \in S /\ o[j] \in S /\ rank[o[i]] = i - 1 /\ rank[o[j]] = j - 1
    BY <1>6
  <2>2. i \in Nat /\ j \in Nat
    BY <1>1
  <2>3. ~(key[o[j]] < key[o[i]]) /\ key[o[i]] # key[o[j]]
    BY <1>3, <2>1, <2>2
  <2> QED
    BY <2>1, <2>3
<1> QED
  BY <1>8, <1>9, <1>10 DEF o, Lists

\* Induction up to n, over a set.
LEMMA Induct ==
    ASSUME NEW n \in Nat, NEW P, 0 \in P, \A i \in 1..n : i - 1 \in P => i \in P
    PROVE  \A i \in 0..n : i \in P
<1> DEFINE T == {i \in 0..n : i \notin P}
<1>1. ASSUME T # {} PROVE FALSE
  <2>0. T \subseteq Nat
    OBVIOUS
  <2>1. PICK m \in T : \A q \in T : m <= q
    <3> HIDE DEF T
    <3> QED
      BY <1>1, <2>0, Least
  <2>2. m \in 1..n /\ m - 1 \in 0..n /\ m - 1 \notin T
    BY <2>1
  <2> QED
    BY <2>1, <2>2
<1> QED
  BY <1>1

\* u has the members of s, then those of t.
IsJoin(s, t, u) ==
    /\ Len(u) = Len(s) + Len(t) /\ DOMAIN u = 1..Len(s) + Len(t)
    /\ Len(s) \in Nat /\ Len(t) \in Nat /\ DOMAIN s = 1..Len(s) /\ DOMAIN t = 1..Len(t)
    /\ \A i \in DOMAIN s : i \in DOMAIN u /\ u[i] = s[i]
    /\ \A q \in DOMAIN t : Len(s) + q \in DOMAIN u /\ u[Len(s) + q] = t[q]
    /\ \A i \in DOMAIN u : i \in DOMAIN s \/ \E q \in DOMAIN t : i = Len(s) + q

\* A concatenation is one.
LEMMA Joined ==
    ASSUME NEW S, NEW s \in Seq(S), NEW t \in Seq(S)
    PROVE  s \o t \in Seq(S) /\ IsJoin(s, t, s \o t)
<1> DEFINE u == s \o t
<1>1. /\ u \in Seq(S) /\ Len(u) = Len(s) + Len(t)
      /\ \A i \in 1..Len(s) + Len(t) : u[i] = IF i <= Len(s) THEN s[i] ELSE t[i - Len(s)]
  BY ConcatProperties
<1>2. Len(s) \in Nat /\ Len(t) \in Nat /\ DOMAIN s = 1..Len(s) /\ DOMAIN t = 1..Len(t)
  BY LenProperties
<1> HIDE DEF u
<1>3. DOMAIN u = 1..Len(s) + Len(t)
  BY <1>1, LenProperties
<1>4. ASSUME NEW i \in DOMAIN s PROVE i \in DOMAIN u /\ u[i] = s[i]
  <2>1. i \in 1..Len(s) + Len(t) /\ i <= Len(s)
    BY <1>2
  <2> QED
    BY <1>1, <1>3, <2>1
<1>5. ASSUME NEW q \in DOMAIN t PROVE Len(s) + q \in DOMAIN u /\ u[Len(s) + q] = t[q]
  <2>1. /\ Len(s) + q \in 1..Len(s) + Len(t) /\ ~(Len(s) + q <= Len(s))
        /\ Len(s) + q - Len(s) = q
    BY <1>2
  <2> QED
    BY <1>1, <1>3, <2>1
<1>6. ASSUME NEW i \in DOMAIN u PROVE i \in DOMAIN s \/ \E q \in DOMAIN t : i = Len(s) + q
  <2>1. CASE i <= Len(s)
    BY <1>2, <1>3, <2>1
  <2>2. CASE ~(i <= Len(s))
    <3>1. i - Len(s) \in DOMAIN t /\ i = Len(s) + (i - Len(s))
      BY <1>2, <1>3, <2>2
    <3> QED
      BY <3>1
  <2> QED
    BY <2>1, <2>2
<1> QED
  BY <1>1, <1>2, <1>3, <1>4, <1>5, <1>6 DEF u, IsJoin

\* Of several lists put one after the other, every member has a place: its list, and
\* its place there.
Places(seqs, n, flat, at) ==
    /\ Len(flat) = Len(at)
    /\ \A i \in DOMAIN at : /\ at[i][1] \in 1..n /\ at[i][2] \in DOMAIN seqs[at[i][1]]
                            /\ flat[i] = seqs[at[i][1]][at[i][2]]
    /\ \A i, j \in DOMAIN at :
        i < j => at[i][1] < at[j][1] \/ (at[i][1] = at[j][1] /\ at[i][2] < at[j][2])
    /\ \A b \in 1..n : \A q \in DOMAIN seqs[b] : \E i \in DOMAIN at : at[i] = <<b, q>>

\* One more list keeps the places.
LEMMA OneMoreList ==
    ASSUME NEW S, NEW seqs \in Seq(Seq(S)), NEW n \in 1..Len(seqs), NEW flat \in Seq(S),
           NEW at \in Seq(Nat \X Nat), Places(seqs, n - 1, flat, at),
           NEW more \in Seq(Nat \X Nat), Len(more) = Len(seqs[n]),
           \A q \in DOMAIN more : more[q] = <<n, q>>
    PROVE  Places(seqs, n, flat \o seqs[n], at \o more)
<1> DEFINE f == flat \o seqs[n]
           a == at \o more
<1>0. /\ n \in Nat /\ n - 1 \in Nat /\ n \in DOMAIN seqs /\ seqs[n] \in Seq(S) /\ n \in 1..n
      /\ \A b \in 1..n : b # n => b \in 1..n - 1
      /\ \A b \in 1..n - 1 : b \in 1..n /\ b < n
  <2>1. Len(seqs) \in Nat /\ DOMAIN seqs = 1..Len(seqs) /\ seqs[n] \in Seq(S)
    BY LenProperties, ElementOfSeq
  <2> QED
    BY <2>1
<1>j. IsJoin(flat, seqs[n], f) /\ IsJoin(at, more, a)
  BY <1>0, Joined
<1> HIDE DEF f, a
<1>1. /\ Len(f) = Len(flat) + Len(seqs[n]) /\ Len(a) = Len(at) + Len(more)
      /\ Len(flat) = Len(at) /\ Len(at) \in Nat /\ Len(more) \in Nat
      /\ DOMAIN at = 1..Len(at) /\ DOMAIN more = 1..Len(more) /\ DOMAIN seqs[n] = 1..Len(more)
      /\ DOMAIN flat = DOMAIN at /\ DOMAIN a \subseteq Nat
  <2>1. Len(flat) = Len(at)
    BY DEF Places
  <2> QED
    BY <1>j, <2>1 DEF IsJoin
<1>2. /\ \A i \in DOMAIN at : i \in DOMAIN a /\ a[i] = at[i]
      /\ \A q \in DOMAIN more : Len(at) + q \in DOMAIN a /\ a[Len(at) + q] = more[q]
      /\ \A i \in DOMAIN a : i \in DOMAIN at \/ \E q \in DOMAIN more : i = Len(at) + q
  BY <1>j DEF IsJoin
<1>3. ASSUME NEW i \in DOMAIN at PROVE i \in DOMAIN a /\ a[i] = at[i] /\ f[i] = flat[i]
  BY <1>j, <1>1, <1>2 DEF IsJoin
<1>4. ASSUME NEW q \in DOMAIN more
      PROVE  /\ Len(at) + q \in DOMAIN a /\ a[Len(at) + q] = <<n, q>>
             /\ f[Len(at) + q] = seqs[n][q] /\ q \in DOMAIN seqs[n]
  BY <1>j, <1>1, <1>2 DEF IsJoin
<1>5. ASSUME NEW i \in DOMAIN a
      PROVE  i \in DOMAIN at \/ \E q \in DOMAIN more : i = Len(at) + q
  BY <1>2
<1>6. ASSUME NEW i \in DOMAIN at
      PROVE  /\ at[i][1] \in 1..n - 1 /\ at[i][2] \in DOMAIN seqs[at[i][1]]
             /\ flat[i] = seqs[at[i][1]][at[i][2]]
  BY DEF Places
<1>7. ASSUME NEW i \in DOMAIN a
      PROVE  /\ a[i][1] \in 1..n /\ a[i][2] \in DOMAIN seqs[a[i][1]]
             /\ f[i] = seqs[a[i][1]][a[i][2]]
  <2>1. CASE i \in DOMAIN at
    <3>1. /\ at[i][1] \in 1..n - 1 /\ at[i][2] \in DOMAIN seqs[at[i][1]]
          /\ flat[i] = seqs[at[i][1]][at[i][2]]
      BY <1>6, <2>1
    <3>2. a[i] = at[i] /\ f[i] = flat[i]
      BY <1>3, <2>1
    <3> QED
      BY <1>0, <3>1, <3>2
  <2>2. ASSUME NEW q \in DOMAIN more, i = Len(at) + q
        PROVE  /\ a[i][1] \in 1..n /\ a[i][2] \in DOMAIN seqs[a[i][1]]
               /\ f[i] = seqs[a[i][1]][a[i][2]]
    <3>1. a[i] = <<n, q>> /\ f[i] = seqs[n][q] /\ q \in DOMAIN seqs[n]
      BY <1>4, <2>2
    <3>2. a[i][1] = n /\ a[i][2] = q
      BY <3>1
    <3> QED
      BY <1>0, <3>1, <3>2
  <2> QED
    BY <1>5, <2>1, <2>2
<1>8. ASSUME NEW i \in DOMAIN a, NEW j \in DOMAIN a, i < j
      PROVE  a[i][1] < a[j][1] \/ (a[i][1] = a[j][1] /\ a[i][2] < a[j][2])
  <2>1. CASE i \in DOMAIN at /\ j \in DOMAIN at
    <3>1. at[i][1] < at[j][1] \/ (at[i][1] = at[j][1] /\ at[i][2] < at[j][2])
      BY <1>8, <2>1 DEF Places
    <3> QED
      BY <1>3, <2>1, <3>1
  <2>2. ASSUME i \in DOMAIN at, NEW q \in DOMAIN more, j = Len(at) + q PROVE a[i][1] < a[j][1]
    <3>1. a[j][1] = n
      BY <1>4, <2>2
    <3>2. a[i] = at[i] /\ at[i][1] \in 1..n - 1
      BY <1>3, <1>6, <2>2
    <3>3. at[i][1] < n
      BY <1>0, <3>2
    <3> QED
      BY <3>1, <3>2, <3>3
  <2>3. ASSUME NEW p \in DOMAIN more, i = Len(at) + p, NEW q \in DOMAIN more, j = Len(at) + q
        PROVE  a[i][1] = a[j][1] /\ a[i][2] < a[j][2]
    <3>1. a[i] = <<n, p>> /\ a[j] = <<n, q>>
      BY <1>4, <2>3
    <3>2. p < q
      BY <1>1, <1>8, <2>3
    <3> QED
      BY <3>1, <3>2
  <2>4. ASSUME NEW p \in DOMAIN more, i = Len(at) + p PROVE j \notin DOMAIN at
    BY <1>1, <1>8, <2>4
  <2> QED
    BY <1>5, <2>1, <2>2, <2>3, <2>4
<1>9. ASSUME NEW b \in 1..n, NEW q \in DOMAIN seqs[b] PROVE \E i \in DOMAIN a : a[i] = <<b, q>>
  <2>1. CASE b = n
    BY <1>1, <1>4, <2>1
  <2>2. CASE b # n
    <3>1. b \in 1..n - 1
      BY <1>0, <2>2
    <3>2. PICK i \in DOMAIN at : at[i] = <<b, q>>
      BY <3>1 DEF Places
    <3> QED
      BY <1>3, <3>2
  <2> QED
    BY <2>1, <2>2
<1>10. Len(f) = Len(a)
  <2>1. Len(seqs[n]) = Len(more)
    OBVIOUS
  <2> QED
    BY <1>1, <2>1
<1> QED
  BY <1>7, <1>8, <1>9, <1>10 DEF Places, f, a

\* FlattenSeq puts the lists one after the other.
LEMMA Flattened ==
    ASSUME NEW S, NEW seqs \in Seq(Seq(S))
    PROVE  /\ FlattenSeq(seqs) \in Seq(S)
           /\ \E at \in Seq(Nat \X Nat) : Places(seqs, Len(seqs), FlattenSeq(seqs), at)
<1> DEFINE n == Len(seqs)
<1>0. n \in Nat /\ DOMAIN seqs = 1..n /\ \A i \in 1..n : seqs[i] \in Seq(S)
  BY LenProperties, ElementOfSeq
<1>1. CASE n = 0
  <2>1. FlattenSeq(seqs) = <<>> /\ <<>> \in Seq(S) /\ <<>> \in Seq(Nat \X Nat)
    BY <1>1 DEF FlattenSeq
  <2>2. Places(seqs, 0, <<>>, <<>>)
    BY DEF Places
  <2> QED
    BY <1>1, <2>1, <2>2
<1>2. CASE n # 0
  <2> DEFINE g == [x \in Seq(S) \X (1..n) |-> x[1] \o seqs[x[2]]]
             P2 == Nat \X Nat
             row(i) == [q \in 1..Len(seqs[i]) |-> <<i, q>>]
             h == [x \in Seq(P2) \X (1..n) |-> x[1] \o row(x[2])]
  <2>1. g \in [Seq(S) \X (1..n) -> Seq(S)] /\ <<>> \in Seq(S)
    BY <1>0, ConcatProperties
  <2>2. PICK f : StepsBy(f, Seq(S), <<>>, g, n)
    BY <1>0, <2>1, StepsExist
  <2>3. ASSUME NEW i \in 1..n
        PROVE  /\ row(i) \in Seq(P2) /\ Len(row(i)) = Len(seqs[i])
               /\ \A q \in DOMAIN row(i) : row(i)[q] = <<i, q>>
    <3>1. seqs[i] \in Seq(S) /\ i \in Nat
      BY <1>0
    <3>2. Len(seqs[i]) \in Nat
      BY <3>1, LenProperties
    <3>3. row(i) \in Seq(P2)
      BY <3>1, <3>2, IsASeq
    <3>4. DOMAIN row(i) = 1..Len(row(i)) /\ Len(row(i)) \in Nat
      BY <3>3, LenProperties
    <3>5. DOMAIN row(i) = 1..Len(seqs[i])
      OBVIOUS
    <3> HIDE DEF row
    <3>6. Len(row(i)) = Len(seqs[i])
      BY <3>2, <3>4, <3>5
    <3> QED
      BY <3>3, <3>6 DEF row
  <2> HIDE DEF row
  <2>4. h \in [Seq(P2) \X (1..n) -> Seq(P2)] /\ <<>> \in Seq(P2)
    <3> HIDE DEF P2
    <3> QED
      BY <2>3, ConcatProperties
  <2>5. PICK at : StepsBy(at, Seq(P2), <<>>, h, n)
    <3> HIDE DEF P2, h
    <3> QED
      BY <1>0, <2>4, StepsExist
  <2>6. /\ f \in [0..n -> Seq(S)] /\ f[0] = <<>>
        /\ \A i \in 1..n : f[i] = f[i - 1] \o seqs[i]
    <3>1. /\ f \in [0..n -> Seq(S)] /\ f[0] = <<>>
          /\ \A i \in 1..n : f[i] = g[<<f[i - 1], i>>]
      BY <2>2 DEF StepsBy
    <3>2. ASSUME NEW i \in 1..n PROVE f[i] = f[i - 1] \o seqs[i]
      <4>1. i - 1 \in 0..n
        BY <1>0
      <4>2. <<f[i - 1], i>> \in Seq(S) \X (1..n)
        BY <3>1, <4>1
      <4> QED
        BY <3>1, <4>2
    <3> QED
      BY <3>1, <3>2
  <2>7. /\ at \in [0..n -> Seq(P2)] /\ at[0] = <<>>
        /\ \A i \in 1..n : at[i] = at[i - 1] \o row(i)
    <3>1. /\ at \in [0..n -> Seq(P2)] /\ at[0] = <<>>
          /\ \A i \in 1..n : at[i] = h[<<at[i - 1], i>>]
      BY <2>5 DEF StepsBy
    <3>2. ASSUME NEW i \in 1..n PROVE at[i] = at[i - 1] \o row(i)
      <4>1. i - 1 \in 0..n
        BY <1>0
      <4>2. <<at[i - 1], i>> \in Seq(P2) \X (1..n)
        BY <3>1, <4>1
      <4> QED
        BY <3>1, <4>2
    <3> QED
      BY <3>1, <3>2
  <2> HIDE DEF g, h
  <2>8. \A i \in 0..n : i \in {j \in 0..n : Places(seqs, j, f[j], at[j])}
    <3> DEFINE T == {j \in 0..n : Places(seqs, j, f[j], at[j])}
    <3>1. 0 \in T
      BY <1>0, <2>6, <2>7 DEF Places
    <3>2. ASSUME NEW i \in 1..n, i - 1 \in T PROVE i \in T
      <4>1. /\ f[i - 1] \in Seq(S) /\ at[i - 1] \in Seq(P2)
            /\ Places(seqs, i - 1, f[i - 1], at[i - 1])
            /\ i \in 0..n
        <5>1. i \in 0..n /\ i - 1 \in 0..n
          BY <1>0
        <5>2. Places(seqs, i - 1, f[i - 1], at[i - 1])
          BY <3>2
        <5>3. f[i - 1] \in Seq(S) /\ at[i - 1] \in Seq(P2)
          <6> HIDE DEF P2
          <6> QED
            BY <5>1, <2>6, <2>7
        <5> QED
          BY <5>1, <5>2, <5>3
      <4>2. Places(seqs, i, f[i - 1] \o seqs[i], at[i - 1] \o row(i))
        BY <2>3, <4>1, OneMoreList
      <4> QED
        BY <2>6, <2>7, <4>1, <4>2
    <3> HIDE DEF T
    <3> QED
      BY <1>0, <3>1, <3>2, Induct DEF T
  <2>9. FlattenSeq(seqs) = f[n]
    <3> DEFINE fl == [i \in 1..n |-> f[i]]
               Is(x) == x = [i \in 1..n |-> IF i = 1 THEN seqs[i] ELSE x[i - 1] \o seqs[i]]
    <3>1. Is(fl)
      <4>1. ASSUME NEW i \in 1..n, i # 1 PROVE fl[i] = fl[i - 1] \o seqs[i]
        BY <1>0, <2>6, <4>1
      <4>2. fl[1] = seqs[1]
        <5>1. f[1] = <<>> \o seqs[1]
          <6>1. 1 \in 1..n /\ 1 - 1 = 0
            BY <1>0, <1>2
          <6> QED
            BY <2>6, <6>1
        <5>2. seqs[1] \in Seq(S)
          BY <1>0, <1>2
        <5> QED
          BY <1>0, <1>2, <5>1, <5>2, ConcatEmptySeq
      <4> QED
        BY <4>1, <4>2
    <3>2. ASSUME NEW x, Is(x) PROVE x[n] = f[n]
      <4> DEFINE T == {i \in 0..n : i = 0 \/ x[i] = f[i]}
      <4>0. /\ \A i \in 1..n : x[i] = IF i = 1 THEN seqs[i] ELSE x[i - 1] \o seqs[i]
            /\ \A i \in 1..n : f[i] = IF i = 1 THEN seqs[i] ELSE f[i - 1] \o seqs[i]
        <5>1. \A i \in 1..n : x[i] = IF i = 1 THEN seqs[i] ELSE x[i - 1] \o seqs[i]
          BY <3>2
        <5>2. \A i \in 1..n : fl[i] = IF i = 1 THEN seqs[i] ELSE fl[i - 1] \o seqs[i]
          BY <3>1
        <5>3. \A i \in 1..n : i # 1 => i - 1 \in 1..n
          BY <1>0
        <5> QED
          BY <5>1, <5>2, <5>3
      <4>1. ASSUME NEW i \in 1..n, i - 1 \in T PROVE i \in T
        <5>1. CASE i = 1
          <6>1. x[1] = seqs[1] /\ f[1] = seqs[1]
            BY <4>0, <5>1
          <6> QED
            BY <1>0, <5>1, <6>1
        <5>2. CASE i # 1
          <6>1. x[i - 1] = f[i - 1]
            BY <4>1, <5>2
          <6> QED
            BY <1>0, <4>0, <5>2, <6>1
        <5> QED
          BY <5>1, <5>2
      <4>2. 0 \in T
        BY <1>0
      <4>3. n \in T
        <5> HIDE DEF T
        <5>1. n \in 0..n
          BY <1>0
        <5> QED
          BY <1>0, <4>1, <4>2, <5>1, Induct
      <4> QED
        BY <1>2, <4>3
    <3>3. FlattenSeq(seqs) = (CHOOSE x : Is(x))[n]
      BY <1>2 DEF FlattenSeq
    <3> HIDE DEF Is
    <3>4. Is(CHOOSE x : Is(x))
      BY <3>1
    <3> QED
      BY <3>2, <3>3, <3>4
  <2> QED
    BY <1>0, <2>6, <2>7, <2>8, <2>9
<1> QED
  BY <1>1, <1>2

-----------------------------------------------------------------------------
(* The walk *)

\* What an entry is.
EntryType == [
    uuid : Nat, ts : Nat, parent : Nat, source : Nat, type : {"user", "assistant", "progress"},
    mid : Nat, calls : SUBSET Nat, answers : SUBSET Nat, writer : {"main", "side"},
    meta : BOOLEAN, team : BOOLEAN]

\* by_uuid finds the last entry of a uuid.
LEMMA ByUuidIs ==
    ASSUME NEW es \in Seq(EntryType), NEW u
    PROVE  /\ ByUuid(es, u) \in Nat /\ DOMAIN es = 1..Len(es) /\ Len(es) \in Nat
           /\ (ByUuid(es, u) # None => ByUuid(es, u) \in DOMAIN es /\ es[ByUuid(es, u)].uuid = u)
           /\ \A i \in DOMAIN es :
                es[i].uuid = u => i <= ByUuid(es, u) /\ ByUuid(es, u) # None
<1> DEFINE T == {i \in 1..Len(es) : es[i].uuid = u}
<1>1. DOMAIN es = 1..Len(es) /\ Len(es) \in Nat
  BY LenProperties
<1>2. ByUuid(es, u) = IF T # {} THEN Max(T) ELSE 0
  BY DEF ByUuid, SelectLastInSeq
<1>3. T \subseteq 0..Len(es)
  BY <1>1
<1>4. CASE T = {}
  BY <1>1, <1>2, <1>4 DEF None
<1>5. CASE T # {}
  <2>1. Max(T) \in T /\ \A i \in T : i <= Max(T)
    <3> HIDE DEF T
    <3> QED
      BY <1>1, <1>3, <1>5, MaxIs
  <2> QED
    BY <1>1, <1>2, <1>5, <2>1 DEF None
<1> QED
  BY <1>4, <1>5

\* The paths upwards from entry i that meet no uuid twice.
Paths(es, i) ==
    {p \in Seq(DOMAIN es) :
        /\ Len(p) > 0 /\ p[1] = i
        /\ \A k \in DOMAIN p : k + 1 \in DOMAIN p => p[k + 1] = Up(es, p[k]) /\ p[k + 1] # None
        /\ \A j, k \in DOMAIN p : es[p[j]].uuid = es[p[k]].uuid => j = k}

\* A path goes on with the parent of its last entry, unless that has been met.
LEMMA PathGrows ==
    ASSUME NEW es \in Seq(EntryType), NEW i \in DOMAIN es, NEW p \in Paths(es, i),
           Up(es, Last(p)) # None, es[Up(es, Last(p))].uuid \notin Uuids(EntriesAt(es, p))
    PROVE  Append(p, Up(es, Last(p))) \in Paths(es, i)
<1> DEFINE n == Len(p)
           j == Up(es, Last(p))
           q == Append(p, j)
<1>1. p \in Seq(DOMAIN es) /\ n \in Nat /\ DOMAIN p = 1..n /\ n > 0 /\ p[1] = i
  BY LenProperties DEF Paths
<1>2. Last(p) = p[n] /\ n \in DOMAIN p /\ p[n] \in DOMAIN es
  BY <1>1, ElementOfSeq DEF Last
<1>3. j \in DOMAIN es
  BY ByUuidIs DEF Up
<1>4. /\ q \in Seq(DOMAIN es) /\ Len(q) = n + 1 /\ q[n + 1] = j /\ \A k \in 1..n : q[k] = p[k]
  BY <1>1, <1>3, AppendProperties
<1> HIDE DEF q
<1>5. DOMAIN q = 1..n + 1
  BY <1>4, LenProperties
<1>6. \A k \in DOMAIN p : es[p[k]].uuid # es[j].uuid
  BY DEF Uuids, EntriesAt
<1>7. ASSUME NEW k \in DOMAIN q, k + 1 \in DOMAIN q PROVE q[k + 1] = Up(es, q[k]) /\ q[k + 1] # None
  <2>1. k \in 1..n
    BY <1>1, <1>5, <1>7
  <2>2. CASE k = n
    BY <1>2, <1>4, <2>1, <2>2
  <2>3. CASE k # n
    <3>1. k + 1 \in 1..n
      BY <1>1, <2>1, <2>3
    <3> QED
      BY <1>1, <1>4, <2>1, <3>1 DEF Paths
  <2> QED
    BY <2>2, <2>3
<1>8. ASSUME NEW a \in DOMAIN q, NEW b \in DOMAIN q, es[q[a]].uuid = es[q[b]].uuid PROVE a = b
  <2>0. (a \in 1..n \/ a = n + 1) /\ (b \in 1..n \/ b = n + 1)
    BY <1>1, <1>5
  <2>1. CASE a \in 1..n /\ b \in 1..n
    BY <1>1, <1>4, <1>8, <2>1 DEF Paths
  <2>2. CASE a = n + 1 /\ b \in 1..n
    BY <1>1, <1>4, <1>6, <1>8, <2>2
  <2>3. CASE a \in 1..n /\ b = n + 1
    BY <1>1, <1>4, <1>6, <1>8, <2>3
  <2> QED
    BY <2>0, <2>1, <2>2, <2>3
<1>9. Len(q) > 0 /\ q[1] = i
  BY <1>1, <1>4
<1> QED
  BY <1>4, <1>7, <1>8, <1>9 DEF Paths, q

\* The walk is such a path.
LEMMA WalkIs ==
    ASSUME NEW es \in Seq(EntryType), NEW i \in DOMAIN es
    PROVE  Walk(es, i) \in Paths(es, i)
<1> DEFINE n == Len(es)
           P == Paths(es, i)
           up(p) == Up(es, Last(p))
           step(p) == IF up(p) = None \/ es[up(p)].uuid \in Uuids(EntriesAt(es, p))
                        THEN p ELSE Append(p, up(p))
           g == [x \in P \X (1..n) |-> step(x[1])]
<1>0. n \in Nat /\ DOMAIN es = 1..n
  BY LenProperties
<1>1. <<i>> \in P
  <2>1. <<i>> \in Seq(DOMAIN es) /\ Len(<<i>>) = 1 /\ <<i>>[1] = i /\ DOMAIN <<i>> = 1..1
    OBVIOUS
  <2> QED
    BY <2>1 DEF Paths
<1>2. g \in [P \X (1..n) -> P]
  BY PathGrows
<1> HIDE DEF P
<1>3. PICK f : StepsBy(f, P, <<i>>, g, n)
  <2> HIDE DEF g
  <2> QED
    BY <1>0, <1>1, <1>2, StepsExist
<1>4. f \in [0..n -> P] /\ f[0] = <<i>> /\ \A k \in 1..n : f[k] = step(f[k - 1])
  <2>1. /\ f \in [0..n -> P] /\ f[0] = <<i>>
        /\ \A k \in 1..n : f[k] = g[<<f[k - 1], k>>]
    BY <1>3 DEF StepsBy
  <2>2. ASSUME NEW k \in 1..n PROVE f[k] = step(f[k - 1])
    <3>1. k - 1 \in 0..n
      BY <1>0
    <3>2. <<f[k - 1], k>> \in P \X (1..n)
      BY <2>1, <3>1
    <3>3. g[<<f[k - 1], k>>] = step(f[k - 1])
      BY <3>2
    <3> QED
      BY <2>1, <3>3
  <2> QED
    BY <2>1, <2>2
<1> HIDE DEF g, step
<1> DEFINE Is(x) == x = [k \in 0..n |-> IF k = 0 THEN <<i>> ELSE step(x[k - 1])]
<1>5. Is(f)
  <2>1. \A k \in 0..n : k = 0 \/ k \in 1..n
    BY <1>0
  <2> QED
    BY <1>4, <2>1
<1>6. ASSUME NEW x, Is(x) PROVE x[n] = f[n]
  <2> DEFINE T == {k \in 0..n : x[k] = f[k]}
  <2>1. \A k \in 0..n : x[k] = IF k = 0 THEN <<i>> ELSE step(x[k - 1])
    BY <1>6
  <2>2. 0 \in T
    BY <1>0, <1>4, <2>1
  <2>3. ASSUME NEW k \in 1..n, k - 1 \in T PROVE k \in T
    BY <1>0, <1>4, <2>1, <2>3
  <2>4. n \in T
    <3> HIDE DEF T
    <3>1. n \in 0..n
      BY <1>0
    <3> QED
      BY <1>0, <2>2, <2>3, <3>1, Induct
  <2> QED
    BY <2>4
<1>7. Walk(es, i) = (CHOOSE x : Is(x))[n]
  BY DEF Walk, step
<1> HIDE DEF Is
<1>8. Is(CHOOSE x : Is(x))
  BY <1>5
<1>9. f[n] \in P
  BY <1>0, <1>4
<1> QED
  BY <1>6, <1>7, <1>8, <1>9 DEF P

\* A list of entries of a transcript, no uuid twice.
Chain(E, c) ==
    /\ c \in Seq(E)
    /\ \A j, k \in DOMAIN c : c[j].uuid = c[k].uuid => j = k

\* A leaf is an entry.
LEMMA LeavesAre ==
    ASSUME NEW es \in Seq(EntryType)
    PROVE  Leaves(es) \subseteq DOMAIN es
<1> DEFINE D == DOMAIN es
<1>0. D = 1..Len(es) /\ Len(es) \in Nat /\ 0 \notin D
  <2>1. D = 1..Len(es) /\ Len(es) \in Nat
    BY LenProperties
  <2> QED
    BY <2>1
<1> DEFINE talking(w) == {k \in DOMAIN w : Talks(es[w[k]])}
<1>1. ASSUME NEW t \in D, talking(Walk(es, t)) # {}
      PROVE  Walk(es, t)[Min(talking(Walk(es, t)))] \in D
  <2> DEFINE w == Walk(es, t)
  <2>1. w \in Seq(D)
    BY WalkIs DEF Paths
  <2>2. DOMAIN w = 1..Len(w) /\ Len(w) \in Nat /\ talking(w) \subseteq DOMAIN w
    BY <2>1, LenProperties
  <2>3. Min(talking(w)) \in talking(w)
    <3>1. talking(w) \subseteq Nat
      BY <2>2
    <3> HIDE DEF talking
    <3> QED
      BY <1>1, <3>1, MinIs
  <2> HIDE DEF w, talking
  <2> QED
    BY <2>1, <2>2, <2>3, ElementOfSeq DEF w
<1> QED
  BY <1>1 DEF Leaves, Terminals

\* So is the leaf.
LEMMA LeafIs ==
    ASSUME NEW es \in Seq(EntryType)
    PROVE  Leaf(es) # None => Leaf(es) \in DOMAIN es
<1> DEFINE D == DOMAIN es
<1>0. D = 1..Len(es) /\ Len(es) \in Nat /\ 0 \notin D
  <2>1. D = 1..Len(es) /\ Len(es) \in Nat
    BY LenProperties
  <2> QED
    BY <2>1
<1>1. Leaves(es) \subseteq D
  BY LeavesAre
<1>2. ASSUME NEW C, C \subseteq D, C # {} PROVE PickBest(es, C) \in C
  <2> DEFINE place(i) == ByUuid(es, es[i].uuid)
             T == {place(i) : i \in C}
  <2>1. T \subseteq 0..Len(es) /\ T # {} /\ \A i \in C : place(i) \in Nat
    <3>1. ASSUME NEW i \in C PROVE place(i) \in 0..Len(es) /\ place(i) \in Nat
      BY <1>0, <1>2, ByUuidIs
    <3> QED
      BY <1>2, <3>1
  <2>2. \E m \in T : \A q \in T : q <= m
    <3> HIDE DEF T
    <3> QED
      BY <1>0, <2>1, Greatest
  <2>3. \E i \in C : \A j \in C : place(j) <= place(i)
    BY <2>2
  <2>4. PickBest(es, C) = CHOOSE i \in C : \A j \in C : place(j) <= place(i)
    BY DEF PickBest
  <2> HIDE DEF place
  <2> QED
    BY <2>3, <2>4
<1> HIDE DEF D
<1> DEFINE L == Leaves(es)
           M == {i \in L : OnMainChain(es[i])}
<1>3. Leaf(es) = IF L = {} THEN None ELSE PickBest(es, IF M = {} THEN L ELSE M)
  BY DEF Leaf, PickMain
<1>4. L # {} => PickBest(es, IF M = {} THEN L ELSE M) \in D
  <2>1. CASE M = {} /\ L # {}
    BY <1>1, <1>2, <2>1
  <2>2. CASE M # {}
    <3>1. M \subseteq D
      BY <1>1
    <3> QED
      BY <1>2, <2>2, <3>1
  <2> QED
    BY <2>1, <2>2
<1> QED
  BY <1>3, <1>4 DEF D

\* The walk from a leaf is a list of entries, no uuid twice.
LEMMA WalkToIs ==
    ASSUME NEW es \in Seq(EntryType), NEW leaf \in DOMAIN es
    PROVE  /\ Chain(ToSet(es), WalkTo(es, leaf))
           /\ Len(WalkTo(es, leaf)) > 0 /\ Last(WalkTo(es, leaf)) = es[leaf]
<1> DEFINE p == Walk(es, leaf)
           n == Len(p)
           c == WalkTo(es, leaf)
<1>1. /\ p \in Seq(DOMAIN es) /\ n \in Nat /\ DOMAIN p = 1..n /\ n > 0 /\ p[1] = leaf
      /\ \A j, k \in DOMAIN p : es[p[j]].uuid = es[p[k]].uuid => j = k
  <2>1. p \in Paths(es, leaf)
    BY WalkIs
  <2>2. p \in Seq(DOMAIN es)
    BY <2>1 DEF Paths
  <2> QED
    BY <2>1, <2>2, LenProperties DEF Paths
<1>2. leaf # None
  BY ByUuidIs DEF None
<1>3. c = [k \in 1..n |-> es[p[n - k + 1]]]
  <2>1. Reverse(p) = [k \in 1..n |-> p[n - k + 1]]
    BY <1>1 DEF Reverse
  <2> QED
    BY <1>2, <2>1 DEF WalkTo, EntriesAt
<1> HIDE DEF p, n, c
<1>4. ASSUME NEW k \in 1..n PROVE n - k + 1 \in DOMAIN p /\ c[k] \in ToSet(es)
  <2>1. n - k + 1 \in DOMAIN p
    BY <1>1
  <2>2. p[n - k + 1] \in DOMAIN es
    BY <1>1, <2>1, ElementOfSeq
  <2> QED
    BY <1>3, <2>1, <2>2 DEF ToSet
<1>5. c \in Seq(ToSet(es)) /\ Len(c) = n /\ DOMAIN c = 1..n
  <2>1. c \in [1..n -> ToSet(es)]
    BY <1>3, <1>4
  <2> QED
    BY <1>1, <2>1
<1>6. ASSUME NEW j \in DOMAIN c, NEW k \in DOMAIN c, c[j].uuid = c[k].uuid PROVE j = k
  <2>1. n - j + 1 = n - k + 1
    BY <1>1, <1>3, <1>4, <1>5, <1>6
  <2> QED
    BY <1>1, <1>5, <2>1
<1>7. Last(c) = es[leaf] /\ Len(c) > 0
  <2>1. n \in 1..n /\ n - n + 1 = 1
    BY <1>1
  <2> QED
    BY <1>1, <1>3, <1>5, <2>1 DEF Last
<1> QED
  BY <1>5, <1>6, <1>7 DEF Chain, c

LEMMA MainWalkIs ==
    ASSUME NEW es \in Seq(EntryType)
    PROVE  Chain(ToSet(es), MainWalk(es))
<1>1. CASE Leaf(es) = None
  BY <1>1 DEF MainWalk, WalkTo, Chain
<1>2. CASE Leaf(es) # None
  BY <1>2, LeafIs, WalkToIs DEF MainWalk
<1> QED
  BY <1>1, <1>2

\* c lists some members of a transcript, each once.
Picked(c, us, T) ==
    /\ \A k \in DOMAIN c : \E i \in T : c[k] = us[i]
    /\ \A i \in T : \E k \in DOMAIN c : c[k] = us[i]
    /\ \A j, k \in DOMAIN c : c[j].uuid = c[k].uuid => j = k

LEMMA ListedInOrder ==
    ASSUME NEW E, NEW us \in Seq(E), NEW T, T \subseteq DOMAIN us, NEW key,
           \A x \in T : key[x] \in Nat, \A x, y \in T : key[x] = key[y] => x = y,
           \A x, y \in T : us[x].uuid = us[y].uuid => x = y
    PROVE  /\ EntriesAt(us, InOrder(T, key)) \in Seq(E)
           /\ Picked(EntriesAt(us, InOrder(T, key)), us, T)
<1> DEFINE o == InOrder(T, key)
           c == EntriesAt(us, o)
<1>1. IsFiniteSet(T)
  <2>1. DOMAIN us = 1..Len(us) /\ Len(us) \in Nat
    BY LenProperties
  <2>2. IsFiniteSet(1..Len(us))
    BY <2>1, FS_Interval
  <2> QED
    BY <2>1, <2>2, FS_Subset
<1>2. /\ o \in Seq(T) /\ Len(o) \in Nat /\ DOMAIN o = 1..Len(o)
      /\ \A x \in T : \E i \in DOMAIN o : o[i] = x
      /\ \A i, j \in DOMAIN o : i < j => key[o[i]] < key[o[j]]
  <2>0. Lists(o, T, key)
    BY <1>1, InOrderLists
  <2>1. o \in Seq(T)
    BY <2>0 DEF Lists
  <2>2. Len(o) \in Nat /\ DOMAIN o = 1..Len(o)
    BY <2>1, LenProperties
  <2>3. \A x \in T : \E i \in DOMAIN o : o[i] = x
    BY <2>0 DEF Lists
  <2>4. \A i, j \in DOMAIN o : i < j => key[o[i]] < key[o[j]]
    BY <2>0 DEF Lists
  <2> QED
    BY <2>1, <2>2, <2>3, <2>4
<1> HIDE DEF o
<1>3. \A i \in DOMAIN o : o[i] \in T /\ o[i] \in DOMAIN us
  BY <1>2, ElementOfSeq
<1>4. c = [k \in 1..Len(o) |-> us[o[k]]] /\ \A k \in 1..Len(o) : us[o[k]] \in E
  BY <1>2, <1>3, LenProperties DEF EntriesAt
<1>5. c \in Seq(E) /\ DOMAIN c = DOMAIN o
  BY <1>2, <1>4
<1>6. ASSUME NEW j \in DOMAIN o, NEW k \in DOMAIN o, j # k PROVE o[j] # o[k]
  <2>1. j < k \/ k < j
    BY <1>2, <1>6
  <2>2. key[o[j]] \in Nat /\ key[o[k]] \in Nat
    BY <1>3
  <2> QED
    BY <1>2, <2>1, <2>2
<1>7. \A k \in DOMAIN o : c[k] = us[o[k]]
  BY <1>2, <1>4
<1> HIDE DEF c
<1>8. \A k \in DOMAIN c : \E i \in T : c[k] = us[i]
  BY <1>3, <1>5, <1>7
<1>9. \A i \in T : \E k \in DOMAIN c : c[k] = us[i]
  BY <1>2, <1>5, <1>7
<1>10. \A j, k \in DOMAIN c : c[j].uuid = c[k].uuid => j = k
  BY <1>3, <1>5, <1>6, <1>7
<1> QED
  BY <1>5, <1>8, <1>9, <1>10 DEF Picked, c, o

-----------------------------------------------------------------------------
(* What the walk missed *)

\* An entry has one uuid, however often it was written.
OneEach(E) == \A e, f \in E : e.uuid = f.uuid => e = f

\* Entries by uuid: every entry of the transcript once.
LEMMA UniqueIs ==
    ASSUME NEW es \in Seq(EntryType), OneEach(ToSet(es))
    PROVE  Chain(EntryType, Unique(es)) /\ ToSet(Unique(es)) = ToSet(es)
<1> DEFINE F == {i \in DOMAIN es : \A j \in 1..i - 1 : es[j].uuid # es[i].uuid}
           key == [i \in F |-> i]
           c == EntriesAt(es, InOrder(F, key))
           us == Unique(es)
<1>0. DOMAIN es = 1..Len(es) /\ Len(es) \in Nat /\ \A i \in DOMAIN es : es[i] \in EntryType
  BY LenProperties, ElementOfSeq
<1>1. F \subseteq DOMAIN es
  OBVIOUS
<1>2. (\A x \in F : key[x] \in Nat) /\ \A x, y \in F : key[x] = key[y] => x = y
  BY <1>0
<1>3. \A i \in DOMAIN es : \E f \in F : es[f] = es[i]
  <2> SUFFICES ASSUME NEW i \in DOMAIN es PROVE \E f \in F : es[f] = es[i]
    OBVIOUS
  <2> DEFINE T == {j \in DOMAIN es : es[j].uuid = es[i].uuid}
  <2>1. T \subseteq Nat /\ T # {}
    BY <1>0
  <2>2. PICK f \in T : \A j \in T : f <= j
    <3> HIDE DEF T
    <3> QED
      BY <2>1, Least
  <2>3. f \in F
    <3> SUFFICES ASSUME NEW j \in 1..f - 1, es[j].uuid = es[f].uuid PROVE FALSE
      OBVIOUS
    <3>1. j \in T /\ ~(f <= j)
      BY <1>0
    <3> QED
      BY <2>2, <3>1
  <2>4. es[f] = es[i]
    BY <2>2 DEF OneEach, ToSet
  <2> QED
    BY <2>3, <2>4
<1>4. \A a, b \in F : es[a].uuid = es[b].uuid => a = b
  <2> SUFFICES ASSUME NEW a \in F, NEW b \in F, es[a].uuid = es[b].uuid, a # b PROVE FALSE
    OBVIOUS
  <2>1. a < b \/ b < a
    BY <1>0
  <2> QED
    BY <1>0, <2>1
<1> HIDE DEF F, key
<1>5. c \in Seq(EntryType) /\ Picked(c, es, F)
  BY <1>1, <1>2, <1>4, ListedInOrder
<1> HIDE DEF c
<1>6. us = c
  <2>1. us = [k \in DOMAIN c |-> es[ByUuid(es, c[k].uuid)]]
    BY DEF Unique, Those, c, F, key
  <2>2. ASSUME NEW k \in DOMAIN c PROVE es[ByUuid(es, c[k].uuid)] = c[k]
    <3>1. PICK i \in DOMAIN es : c[k] = es[i]
      BY <1>1, <1>5 DEF Picked
    <3>2. ByUuid(es, c[k].uuid) \in DOMAIN es /\ es[ByUuid(es, c[k].uuid)].uuid = c[k].uuid
      BY <3>1, ByUuidIs
    <3> QED
      BY <3>1, <3>2 DEF OneEach, ToSet
  <2>3. c = [k \in DOMAIN c |-> c[k]]
    BY <1>5
  <2> QED
    BY <2>1, <2>2, <2>3
<1> HIDE DEF us
<1>7. \A j, k \in DOMAIN c : c[j].uuid = c[k].uuid => j = k
  BY <1>5 DEF Picked
<1>8. ToSet(c) = ToSet(es)
  BY <1>1, <1>3, <1>5 DEF ToSet, Picked
<1> QED
  BY <1>5, <1>6, <1>7, <1>8 DEF Chain, us

\* Entries with a uuid each, written at times as different as the uuids.
Fine(us) == Chain(EntryType, us) /\ \A i \in DOMAIN us : us[i].ts = us[i].uuid

\* By time.
LEMMA InTime ==
    ASSUME NEW us, Fine(us), NEW T, T \subseteq DOMAIN us
    PROVE  ByTime(us, T) \in Seq(EntryType) /\ Picked(ByTime(us, T), us, T)
<1> DEFINE key == [i \in T |-> us[i].ts]
           c == EntriesAt(us, InOrder(T, key))
<1>0. us \in Seq(EntryType) /\ \A i, j \in DOMAIN us : us[i].uuid = us[j].uuid => i = j
  BY DEF Fine, Chain
<1>1. \A i \in DOMAIN us : us[i] \in EntryType /\ us[i].ts = us[i].uuid /\ us[i].ts \in Nat
  <2>1. \A i \in DOMAIN us : us[i] \in EntryType
    BY <1>0, LenProperties, ElementOfSeq
  <2> QED
    BY <2>1 DEF EntryType, Fine
<1>2. (\A x \in T : key[x] \in Nat) /\ \A x, y \in T : key[x] = key[y] => x = y
  BY <1>0, <1>1
<1> HIDE DEF key
<1>3. \A x, y \in T : us[x].uuid = us[y].uuid => x = y
  BY <1>0
<1> HIDE DEF c
<1>4. c \in Seq(EntryType) /\ Picked(c, us, T)
  BY <1>0, <1>2, <1>3, ListedInOrder DEF c
<1> QED
  BY <1>4 DEF ByTime, c, key

\* The results that are put back with a response.
PutBack(us, chain, seen, m) ==
    Settled(us, chain, Group(us, m), Results(us, Group(us, m), seen))

\* x holds the response's entries and results that are not seen yet, entries first.
HoldsMissed(us, chain, seen, m, x) ==
    /\ Chain(ToSet(us), x)
    /\ \A k \in DOMAIN x : x[k].uuid \notin seen
    /\ \A k \in DOMAIN x :
        \E i \in Group(us, m) \cup PutBack(us, chain, seen, m) : x[k] = us[i]
    /\ \A i \in Group(us, m) : us[i].uuid \notin seen => \E k \in DOMAIN x : x[k] = us[i]
    /\ \A i \in PutBack(us, chain, seen, m) : \E k \in DOMAIN x : x[k] = us[i]
    /\ \A j, k \in DOMAIN x : j < k /\ x[j].type = "user" => x[k].type = "user"

LEMMA MissedIs ==
    ASSUME NEW us, Fine(us), NEW chain, NEW seen, NEW m, m # None
    PROVE  HoldsMissed(us, chain, seen, m, Missed(us, chain, seen, m))
<1> DEFINE G == Group(us, m)
           A == {i \in G : us[i].uuid \notin seen}
           B == PutBack(us, chain, seen, m)
           a == ByTime(us, A)
           b == ByTime(us, B)
           x == Missed(us, chain, seen, m)
<1>1. /\ A \subseteq DOMAIN us /\ A \subseteq G
      /\ \A i \in G : us[i].type = "assistant"
  BY DEF Group, Response
<1>2. /\ B \subseteq DOMAIN us
      /\ \A i \in B : us[i].type = "user" /\ us[i].uuid \notin seen
  BY DEF PutBack, Settled, TakeStrays, Results, IsToolResult
<1>3. x = a \o b
  BY DEF Missed, PutBack
<1> HIDE DEF A, B, G
<1>4. a \in Seq(EntryType) /\ Picked(a, us, A)
  BY <1>1, InTime
<1>5. b \in Seq(EntryType) /\ Picked(b, us, B)
  BY <1>2, InTime
<1> HIDE DEF a, b, x
<1>6. x \in Seq(EntryType) /\ IsJoin(a, b, x)
  BY <1>3, <1>4, <1>5, Joined
<1>7. \A k \in DOMAIN x : (\E i \in A : x[k] = us[i]) \/ \E i \in B : x[k] = us[i]
  <2> SUFFICES ASSUME NEW k \in DOMAIN x
               PROVE  (\E i \in A : x[k] = us[i]) \/ \E i \in B : x[k] = us[i]
    OBVIOUS
  <2>1. CASE k \in DOMAIN a
    BY <1>4, <1>6, <2>1 DEF IsJoin, Picked
  <2>2. ASSUME NEW q \in DOMAIN b, k = Len(a) + q PROVE \E i \in B : x[k] = us[i]
    <3>1. x[k] = b[q]
      BY <1>6, <2>2 DEF IsJoin
    <3> QED
      BY <1>5, <3>1 DEF Picked
  <2> QED
    BY <1>6, <2>1, <2>2 DEF IsJoin
<1>8. /\ \A i \in A : \E k \in DOMAIN x : x[k] = us[i]
      /\ \A i \in B : \E k \in DOMAIN x : x[k] = us[i]
  <2>1. ASSUME NEW i \in A PROVE \E k \in DOMAIN x : x[k] = us[i]
    <3>1. PICK k \in DOMAIN a : a[k] = us[i]
      BY <1>4 DEF Picked
    <3> QED
      BY <1>6, <3>1 DEF IsJoin
  <2>2. ASSUME NEW i \in B PROVE \E k \in DOMAIN x : x[k] = us[i]
    <3>1. PICK q \in DOMAIN b : b[q] = us[i]
      BY <1>5 DEF Picked
    <3>2. Len(a) + q \in DOMAIN x /\ x[Len(a) + q] = us[i]
      BY <1>6, <3>1 DEF IsJoin
    <3> QED
      BY <3>2
  <2> QED
    BY <2>1, <2>2
<1>9. ASSUME NEW j \in DOMAIN x, NEW k \in DOMAIN x, x[j].uuid = x[k].uuid PROVE j = k
  <2>0. \A i, n \in DOMAIN us : us[i].uuid = us[n].uuid => i = n
    BY DEF Fine, Chain
  <2>1. CASE j \in DOMAIN a /\ k \in DOMAIN a
    BY <1>4, <1>6, <1>9, <2>1 DEF IsJoin, Picked
  <2>2. ASSUME NEW p \in DOMAIN b, j = Len(a) + p, NEW q \in DOMAIN b, k = Len(a) + q PROVE j = k
    BY <1>5, <1>6, <1>9, <2>2 DEF IsJoin, Picked
  <2>3. ASSUME NEW p \in DOMAIN a, NEW q \in DOMAIN b, a[p].uuid = b[q].uuid PROVE FALSE
    <3>1. PICK i \in A : a[p] = us[i]
      BY <1>4 DEF Picked
    <3>2. PICK r \in B : b[q] = us[r]
      BY <1>5 DEF Picked
    <3>3. i = r
      BY <1>1, <1>2, <2>0, <2>3, <3>1, <3>2
    <3> QED
      BY <1>1, <1>2, <3>3
  <2> QED
    BY <1>6, <1>9, <2>1, <2>2, <2>3 DEF IsJoin
<1>10. ASSUME NEW j \in DOMAIN x, NEW k \in DOMAIN x, j < k, x[j].type = "user"
       PROVE  x[k].type = "user"
  <2>1. j \notin DOMAIN a
    BY <1>1, <1>4, <1>6, <1>10 DEF IsJoin, Picked
  <2>2. k \notin DOMAIN a
    BY <1>6, <1>10, <2>1 DEF IsJoin
  <2> QED
    BY <1>2, <1>5, <1>6, <2>2 DEF IsJoin, Picked
<1>11. \A k \in DOMAIN x : x[k].uuid \notin seen
  BY <1>2, <1>7 DEF A
<1>12. x \in Seq(ToSet(us))
  <2>1. \A k \in DOMAIN x : x[k] \in ToSet(us)
    BY <1>1, <1>2, <1>7 DEF ToSet
  <2>2. DOMAIN x = 1..Len(x) /\ Len(x) \in Nat
    BY <1>6, LenProperties
  <2>3. x = [k \in 1..Len(x) |-> x[k]]
    BY <1>6, LenProperties
  <2> QED
    BY <2>1, <2>2, <2>3
<1> QED
  BY <1>1, <1>7, <1>8, <1>9, <1>10, <1>11, <1>12 DEF HoldsMissed, Chain, A, B, G, x

-----------------------------------------------------------------------------
(* One response after the other *)

\* The responses a chain has entries of.
Responses(chain) == {Response(chain[k]) : k \in DOMAIN chain} \ {None}

\* Of every response that is on the chain, ins holds what was missed by then: seen
\* has the uuids of the chain, else only uuids that are put back, and of two responses
\* one has seen what was put back of the other.
HoldsRecovered(us, chain, ins, seen) ==
    /\ DOMAIN ins = Responses(chain)
    /\ \A m \in Responses(chain) :
        /\ HoldsMissed(us, chain, seen[m], m, ins[m])
        /\ Uuids(chain) \subseteq seen[m]
        /\ \A u \in seen[m] : u \in Uuids(chain) \/ \E w \in Responses(chain) : u \in Uuids(ins[w])
        /\ \A w \in Responses(chain) :
            w = m \/ Uuids(ins[w]) \subseteq seen[m] \/ Uuids(ins[m]) \subseteq seen[w]

LEMMA FirstExists ==
    ASSUME NEW E, NEW chain \in Seq(E), NEW m \in Responses(chain)
    PROVE  \E k \in DOMAIN chain : IsFirstOf(chain, k) /\ Response(chain[k]) = m
<1> DEFINE T == {k \in DOMAIN chain : Response(chain[k]) = m}
<1>0. DOMAIN chain = 1..Len(chain) /\ Len(chain) \in Nat
  BY LenProperties
<1>1. T \subseteq Nat /\ T # {} /\ m # None
  BY <1>0 DEF Responses
<1>2. PICK k \in T : \A j \in T : k <= j
  <2> HIDE DEF T
  <2> QED
    BY <1>1, Least
<1>3. ASSUME NEW j \in 1..k - 1 PROVE Response(chain[j]) # Response(chain[k])
  <2>1. j \in DOMAIN chain /\ ~(k <= j)
    BY <1>0
  <2> QED
    BY <1>2, <2>1
<1> QED
  BY <1>1, <1>2, <1>3 DEF IsFirstOf

LEMMA LastExists ==
    ASSUME NEW E, NEW chain \in Seq(E), NEW m \in Responses(chain)
    PROVE  \E k \in DOMAIN chain : IsLastOf(chain, k) /\ Response(chain[k]) = m
<1> DEFINE T == {k \in DOMAIN chain : Response(chain[k]) = m}
<1>0. DOMAIN chain = 1..Len(chain) /\ Len(chain) \in Nat
  BY LenProperties
<1>1. T \subseteq 0..Len(chain) /\ T # {} /\ m # None
  BY <1>0 DEF Responses
<1>2. PICK k \in T : \A j \in T : j <= k
  <2> HIDE DEF T
  <2> QED
    BY <1>0, <1>1, Greatest
<1>3. ASSUME NEW j \in k + 1..Len(chain) PROVE Response(chain[j]) # Response(chain[k])
  <2>1. j \in DOMAIN chain /\ ~(j <= k)
    BY <1>0
  <2> QED
    BY <1>2, <2>1
<1> QED
  BY <1>1, <1>2, <1>3 DEF IsLastOf

LEMMA RecoveredIs ==
    ASSUME NEW us, Fine(us), NEW chain, Chain(ToSet(us), chain)
    PROVE  \E seen : HoldsRecovered(us, chain, Recovered(us, chain), seen)
<1> DEFINE n == Len(chain)
           S == SUBSET Nat
           missed(s, k) == Missed(us, chain, s, Response(chain[k]))
           step(s, k) == s \cup (IF IsFirstOf(chain, k) THEN Uuids(missed(s, k)) ELSE {})
           g == [x \in S \X (1..n) |-> step(x[1], x[2])]
           first == {k \in DOMAIN chain : IsFirstOf(chain, k)}
           ins == Recovered(us, chain)
<1>0. n \in Nat /\ DOMAIN chain = 1..n /\ \A k \in 1..n : chain[k] \in ToSet(us)
  BY LenProperties, ElementOfSeq DEF Chain
<1>1. \A e \in ToSet(us) : e.uuid \in Nat
  <2>1. us \in Seq(EntryType)
    BY DEF Fine, Chain
  <2>2. \A i \in DOMAIN us : us[i] \in EntryType
    BY <2>1, LenProperties, ElementOfSeq
  <2> QED
    BY <2>2 DEF ToSet, EntryType
<1>2. ASSUME NEW c \in Seq(ToSet(us)) PROVE Uuids(c) \in S
  <2>1. \A k \in DOMAIN c : c[k] \in ToSet(us)
    BY LenProperties, ElementOfSeq
  <2> QED
    BY <1>1, <2>1 DEF Uuids
<1>3. ASSUME NEW s, NEW k \in 1..n, IsFirstOf(chain, k)
      PROVE  HoldsMissed(us, chain, s, Response(chain[k]), missed(s, k))
  BY <1>3, MissedIs DEF IsFirstOf
<1>4. ASSUME NEW s \in S, NEW k \in 1..n PROVE step(s, k) \in S
  <2>1. IsFirstOf(chain, k) => missed(s, k) \in Seq(ToSet(us))
    BY <1>3 DEF HoldsMissed, Chain
  <2> QED
    BY <1>2, <2>1
<1> HIDE DEF missed
<1>5. g \in [S \X (1..n) -> S] /\ Uuids(chain) \in S
  BY <1>2, <1>4 DEF Chain
<1> HIDE DEF step, S
<1>6. PICK f : StepsBy(f, S, Uuids(chain), g, n)
  <2> HIDE DEF g
  <2> QED
    BY <1>0, <1>5, StepsExist
<1> DEFINE Is(x) == x = [k \in 0..n |-> IF k = 0 THEN Uuids(chain) ELSE step(x[k - 1], k)]
<1>7. Is(f)
  <2>1. /\ f \in [0..n -> S] /\ f[0] = Uuids(chain)
        /\ \A k \in 1..n : f[k] = g[<<f[k - 1], k>>]
    BY <1>6 DEF StepsBy
  <2>2. ASSUME NEW k \in 1..n PROVE f[k] = step(f[k - 1], k)
    <3>1. k - 1 \in 0..n
      BY <1>0
    <3>2. <<f[k - 1], k>> \in S \X (1..n)
      BY <2>1, <3>1
    <3> QED
      BY <2>1, <3>2
  <2>3. \A k \in 0..n : k = 0 \/ k \in 1..n
    BY <1>0
  <2> QED
    BY <2>1, <2>2, <2>3
<1> DEFINE sn == CHOOSE x : Is(x)
<1>8. Is(sn)
  <2> HIDE DEF Is
  <2> QED
    BY <1>7
<1>9. ins = [m \in {Response(chain[k]) : k \in first} |->
                Missed(us, chain, sn[(CHOOSE i \in first : Response(chain[i]) = m) - 1], m)]
  BY DEF Recovered, step, missed
<1> HIDE DEF sn
<1>10. sn[0] = Uuids(chain) /\ \A k \in 1..n : sn[k] = step(sn[k - 1], k)
  <2>1. \A k \in 0..n : sn[k] = IF k = 0 THEN Uuids(chain) ELSE step(sn[k - 1], k)
    BY <1>8
  <2>2. 0 \in 0..n /\ \A k \in 1..n : k \in 0..n /\ k # 0
    BY <1>0
  <2> QED
    BY <2>1, <2>2
<1> HIDE DEF Is, g, ins
<1> DEFINE R == Responses(chain)
           at(m) == CHOOSE i \in first : Response(chain[i]) = m
           seen == [m \in R |-> sn[at(m) - 1]]
<1>11. ASSUME NEW m \in R PROVE at(m) \in first /\ Response(chain[at(m)]) = m
  <2>1. \E i \in first : Response(chain[i]) = m
    BY FirstExists DEF Chain
  <2> HIDE DEF first
  <2> QED
    BY <2>1
<1>12. DOMAIN ins = R /\ \A m \in R : ins[m] = Missed(us, chain, sn[at(m) - 1], m)
  <2>1. {Response(chain[k]) : k \in first} = R
    <3>1. ASSUME NEW m \in R PROVE m \in {Response(chain[k]) : k \in first}
      BY <1>11
    <3>2. ASSUME NEW k \in first PROVE Response(chain[k]) \in R
      BY DEF IsFirstOf, Responses
    <3> HIDE DEF R, first
    <3> QED
      BY <3>1, <3>2
  <2> HIDE DEF R
  <2> QED
    BY <1>9, <2>1
<1>13. ASSUME NEW k \in first
       PROVE  /\ k = at(Response(chain[k])) /\ Response(chain[k]) \in R
              /\ sn[k] = sn[k - 1] \cup Uuids(ins[Response(chain[k])])
  <2> DEFINE m == Response(chain[k])
             j == at(m)
  <2>1. m \in R
    BY DEF IsFirstOf, Responses
  <2>2. j \in first /\ Response(chain[j]) = m
    BY <1>11, <2>1
  <2> HIDE DEF j
  <2>3. j = k
    <3>1. ASSUME j < k PROVE FALSE
      <4>1. j \in 1..k - 1
        BY <1>0, <2>2, <3>1
      <4> QED
        BY <2>2, <4>1 DEF IsFirstOf
    <3>2. ASSUME k < j PROVE FALSE
      <4>1. k \in 1..j - 1
        BY <1>0, <2>2, <3>2
      <4> QED
        BY <2>2, <4>1 DEF IsFirstOf
    <3> QED
      BY <1>0, <2>2, <3>1, <3>2
  <2>4. sn[k] = sn[k - 1] \cup Uuids(missed(sn[k - 1], k))
    BY <1>0, <1>10 DEF step
  <2>5. ins[m] = missed(sn[k - 1], k)
    BY <1>12, <2>1, <2>3 DEF missed, j
  <2> QED
    BY <2>1, <2>3, <2>4, <2>5 DEF j
<1> HIDE DEF at
\* What is seen stays seen.
<1>14. ASSUME NEW j \in 0..n PROVE \A k \in 0..n : j <= k => sn[j] \subseteq sn[k]
  <2> DEFINE T == {k \in 0..n : j <= k => sn[j] \subseteq sn[k]}
  <2>1. 0 \in T
    BY <1>0
  <2>2. ASSUME NEW k \in 1..n, k - 1 \in T PROVE k \in T
    <3>1. sn[k - 1] \subseteq sn[k]
      BY <1>10 DEF step
    <3>2. j <= k => j = k \/ j <= k - 1
      BY <1>0
    <3> QED
      BY <1>0, <2>2, <3>1, <3>2
  <2> HIDE DEF T
  <2>3. \A k \in 0..n : k \in T
    BY <1>0, <2>1, <2>2, Induct
  <2> QED
    BY <2>3 DEF T
\* Nothing else is.
<1>15. \A k \in 0..n : \A u \in sn[k] :
          u \in Uuids(chain) \/ \E w \in R : u \in Uuids(ins[w])
  <2> DEFINE T == {k \in 0..n : \A u \in sn[k] :
                     u \in Uuids(chain) \/ \E w \in R : u \in Uuids(ins[w])}
  <2>1. 0 \in T
    BY <1>0, <1>10
  <2>2. ASSUME NEW k \in 1..n, k - 1 \in T PROVE k \in T
    <3>1. CASE k \in first
      BY <1>0, <1>13, <2>2, <3>1
    <3>2. CASE k \notin first
      <4>1. sn[k] = sn[k - 1]
        BY <1>0, <1>10, <3>2 DEF step
      <4> QED
        BY <1>0, <2>2, <4>1
    <3> QED
      BY <3>1, <3>2
  <2> HIDE DEF T
  <2>3. \A k \in 0..n : k \in T
    BY <1>0, <2>1, <2>2, Induct
  <2> QED
    BY <2>3 DEF T
<1>16. ASSUME NEW m \in R
       PROVE  /\ HoldsMissed(us, chain, seen[m], m, ins[m])
              /\ Uuids(chain) \subseteq seen[m]
              /\ \A u \in seen[m] : u \in Uuids(chain) \/ \E w \in R : u \in Uuids(ins[w])
  <2>1. at(m) \in 1..n /\ at(m) - 1 \in 0..n /\ 0 \in 0..n /\ 0 <= at(m) - 1
    BY <1>0, <1>11
  <2>2. seen[m] = sn[at(m) - 1] /\ m # None
    BY DEF Responses
  <2>3. HoldsMissed(us, chain, seen[m], m, ins[m])
    BY <1>12, <2>2, MissedIs
  <2>4. Uuids(chain) \subseteq seen[m]
    BY <1>10, <1>14, <2>1, <2>2
  <2> QED
    BY <1>15, <2>1, <2>2, <2>3, <2>4
<1>17. ASSUME NEW m \in R, NEW w \in R, at(w) < at(m) PROVE Uuids(ins[w]) \subseteq seen[m]
  <2>1. at(m) \in 1..n /\ at(w) \in first /\ at(w) \in 1..n /\ Response(chain[at(w)]) = w
    BY <1>0, <1>11
  <2>2. Uuids(ins[w]) \subseteq sn[at(w)]
    BY <1>13, <2>1
  <2>3. at(w) \in 0..n /\ at(m) - 1 \in 0..n /\ at(w) <= at(m) - 1
    BY <1>0, <1>17, <2>1
  <2>4. sn[at(w)] \subseteq sn[at(m) - 1]
    BY <1>14, <2>3
  <2> QED
    BY <2>2, <2>4
<1>18. ASSUME NEW m \in R, NEW w \in R
       PROVE  w = m \/ Uuids(ins[w]) \subseteq seen[m] \/ Uuids(ins[m]) \subseteq seen[w]
  <2>1. /\ at(m) \in 1..n /\ Response(chain[at(m)]) = m
        /\ at(w) \in 1..n /\ Response(chain[at(w)]) = w
    BY <1>0, <1>11
  <2>2. at(w) < at(m) \/ at(m) < at(w) \/ at(m) = at(w)
    BY <1>0, <2>1
  <2> QED
    BY <1>17, <2>1, <2>2
<1> HIDE DEF seen
<1>19. HoldsRecovered(us, chain, ins, seen)
  BY <1>12, <1>16, <1>18 DEF HoldsRecovered
<1> QED
  BY <1>19 DEF ins

-----------------------------------------------------------------------------
(* The conversation *)

\* Where the entries of a conversation come from: at[i] = <<k, 1>> is entry k of the
\* chain, at[i] = <<k, q + 1>> entry q of what was put back behind it.
Layout(chain, ins, conv, at) ==
    /\ DOMAIN at = DOMAIN conv /\ DOMAIN conv \subseteq Nat
    /\ \A i \in DOMAIN conv :
        /\ at[i] \in Nat \X Nat /\ at[i][1] \in DOMAIN chain
        /\ at[i][2] = 1 => conv[i] = chain[at[i][1]]
        /\ at[i][2] # 1 =>
            /\ at[i][2] > 1 /\ IsLastOf(chain, at[i][1])
            /\ at[i][2] - 1 \in DOMAIN ins[Response(chain[at[i][1]])]
            /\ conv[i] = ins[Response(chain[at[i][1]])][at[i][2] - 1]
    /\ \A i, j \in DOMAIN conv :
        i < j => at[i][1] < at[j][1] \/ (at[i][1] = at[j][1] /\ at[i][2] < at[j][2])
    /\ \A k \in DOMAIN chain : \E i \in DOMAIN conv : at[i] = <<k, 1>>
    /\ \A m \in Responses(chain) : \A q \in DOMAIN ins[m] :
        \E i \in DOMAIN conv : conv[i] = ins[m][q]

LEMMA LaidOut ==
    ASSUME NEW E, NEW chain \in Seq(E), NEW ins, DOMAIN ins = Responses(chain),
           \A m \in Responses(chain) : ins[m] \in Seq(E)
    PROVE  /\ InsertInto(chain, ins) \in Seq(E)
           /\ \E at : Layout(chain, ins, InsertInto(chain, ins), at)
<1> DEFINE n == Len(chain)
           more(k) == IF IsLastOf(chain, k) THEN ins[Response(chain[k])] ELSE <<>>
           seqs == [k \in DOMAIN chain |-> <<chain[k]>> \o more(k)]
           conv == InsertInto(chain, ins)
<1>0. n \in Nat /\ DOMAIN chain = 1..n /\ \A k \in 1..n : chain[k] \in E
  BY LenProperties, ElementOfSeq
<1>1. ASSUME NEW k \in 1..n
      PROVE  /\ more(k) \in Seq(E) /\ <<chain[k]>> \in Seq(E)
             /\ IsLastOf(chain, k) => Response(chain[k]) \in Responses(chain)
  BY <1>0 DEF IsLastOf, Responses
<1>2. ASSUME NEW k \in 1..n
      PROVE  /\ seqs[k] \in Seq(E) /\ DOMAIN seqs[k] \subseteq Nat
             /\ 1 \in DOMAIN seqs[k] /\ seqs[k][1] = chain[k]
             /\ \A q \in DOMAIN more(k) : q + 1 \in DOMAIN seqs[k] /\ seqs[k][q + 1] = more(k)[q]
             /\ \A q \in DOMAIN seqs[k] :
                  q # 1 => q > 1 /\ q - 1 \in DOMAIN more(k) /\ seqs[k][q] = more(k)[q - 1]
  <2> DEFINE one == <<chain[k]>>
             m == more(k)
             t == seqs[k]
  <2>1. Len(one) = 1 /\ DOMAIN one = 1..1 /\ one[1] = chain[k]
    OBVIOUS
  <2>2. t = one \o m /\ m \in Seq(E) /\ one \in Seq(E)
    BY <1>0, <1>1
  <2> HIDE DEF one, m, t
  <2>3. t \in Seq(E) /\ IsJoin(one, m, t)
    BY <2>2, Joined
  <2>4. DOMAIN t \subseteq Nat /\ 1 \in DOMAIN t /\ t[1] = chain[k]
    BY <2>1, <2>3 DEF IsJoin
  <2>5. ASSUME NEW q \in DOMAIN m PROVE q + 1 \in DOMAIN t /\ t[q + 1] = m[q]
    <3>1. 1 + q = q + 1
      BY <2>3 DEF IsJoin
    <3> QED
      BY <2>1, <2>3, <3>1 DEF IsJoin
  <2>6. ASSUME NEW q \in DOMAIN t, q # 1
        PROVE  q > 1 /\ q - 1 \in DOMAIN m /\ t[q] = m[q - 1]
    <3>1. PICK p \in DOMAIN m : q = 1 + p
      BY <2>1, <2>3, <2>6 DEF IsJoin
    <3>2. q - 1 = p /\ q > 1
      BY <2>3, <3>1 DEF IsJoin
    <3> QED
      BY <2>1, <2>3, <3>1, <3>2 DEF IsJoin
  <2> QED
    BY <2>3, <2>4, <2>5, <2>6 DEF t, m
<1>3. seqs \in Seq(Seq(E)) /\ Len(seqs) = n
  <2>1. seqs \in [1..n -> Seq(E)]
    BY <1>0, <1>2
  <2> HIDE DEF seqs
  <2> QED
    BY <1>0, <2>1
<1>4. conv = FlattenSeq(seqs)
  BY DEF InsertInto
<1> HIDE DEF seqs, conv
<1>5. /\ conv \in Seq(E)
      /\ \E at \in Seq(Nat \X Nat) : Places(seqs, n, conv, at)
  BY <1>3, <1>4, Flattened
<1>6. PICK at \in Seq(Nat \X Nat) : Places(seqs, n, conv, at)
  BY <1>5
<1>7. DOMAIN at = DOMAIN conv /\ DOMAIN conv \subseteq Nat
  <2>1. Len(at) = Len(conv)
    BY <1>6 DEF Places
  <2>2. DOMAIN at = 1..Len(at)
    BY <1>6, LenProperties
  <2>3. DOMAIN conv = 1..Len(conv)
    BY <1>5, LenProperties
  <2> QED
    BY <2>1, <2>2, <2>3
<1>8. ASSUME NEW i \in DOMAIN conv
      PROVE  /\ at[i] \in Nat \X Nat /\ at[i][1] \in DOMAIN chain
             /\ at[i][2] = 1 => conv[i] = chain[at[i][1]]
             /\ at[i][2] # 1 =>
                  /\ at[i][2] > 1 /\ IsLastOf(chain, at[i][1])
                  /\ at[i][2] - 1 \in DOMAIN ins[Response(chain[at[i][1]])]
                  /\ conv[i] = ins[Response(chain[at[i][1]])][at[i][2] - 1]
  <2>1. /\ at[i][1] \in 1..n /\ at[i][2] \in DOMAIN seqs[at[i][1]]
        /\ conv[i] = seqs[at[i][1]][at[i][2]]
    BY <1>6, <1>7 DEF Places
  <2>2. at[i] \in Nat \X Nat
    BY <1>6, <1>7, LenProperties, ElementOfSeq
  <2> DEFINE k == at[i][1]
             q == at[i][2]
  <2>3. q = 1 => conv[i] = chain[k]
    BY <1>2, <2>1
  <2>4. q # 1 => q > 1 /\ q - 1 \in DOMAIN more(k) /\ conv[i] = more(k)[q - 1]
    <3> HIDE DEF more
    <3> QED
      BY <1>2, <2>1
  <2>5. q # 1 => IsLastOf(chain, k)
    <3> SUFFICES ASSUME q # 1, ~IsLastOf(chain, k) PROVE FALSE
      OBVIOUS
    <3>1. more(k) = <<>>
      OBVIOUS
    <3>2. q - 1 \in DOMAIN <<>>
      BY <2>4, <3>1
    <3> QED
      BY <3>2
  <2> QED
    BY <1>0, <2>1, <2>2, <2>3, <2>4, <2>5
<1>9. \A i, j \in DOMAIN conv :
        i < j => at[i][1] < at[j][1] \/ (at[i][1] = at[j][1] /\ at[i][2] < at[j][2])
  BY <1>6, <1>7 DEF Places
<1>10. ASSUME NEW k \in DOMAIN chain PROVE \E i \in DOMAIN conv : at[i] = <<k, 1>>
  <2>1. k \in 1..n /\ 1 \in DOMAIN seqs[k]
    BY <1>0, <1>2
  <2> QED
    BY <1>6, <1>7, <2>1 DEF Places
<1>11. ASSUME NEW m \in Responses(chain), NEW q \in DOMAIN ins[m]
       PROVE  \E i \in DOMAIN conv : conv[i] = ins[m][q]
  <2>1. PICK k \in DOMAIN chain : IsLastOf(chain, k) /\ Response(chain[k]) = m
    BY LastExists
  <2>2. more(k) = ins[m] /\ k \in 1..n
    BY <1>0, <2>1
  <2> HIDE DEF more
  <2>3. q + 1 \in DOMAIN seqs[k] /\ seqs[k][q + 1] = ins[m][q]
    BY <1>2, <2>2
  <2>4. PICK i \in DOMAIN at : at[i] = <<k, q + 1>>
    BY <1>6, <2>2, <2>3 DEF Places
  <2>5. conv[i] = seqs[at[i][1]][at[i][2]]
    BY <1>6 DEF Places
  <2>6. conv[i] = seqs[k][q + 1]
    BY <2>4, <2>5
  <2> QED
    BY <1>7, <2>3, <2>6
<1>12. Layout(chain, ins, conv, at)
  BY <1>7, <1>8, <1>9, <1>10, <1>11 DEF Layout
<1> QED
  BY <1>5, <1>12 DEF conv

\* All there is to know about what recover_orphaned_parallel_tool_results makes of a chain.
IsRecovery(us, chain, conv, ins, seen, at) ==
    /\ Fine(us) /\ Chain(ToSet(us), chain) /\ conv \in Seq(ToSet(us))
    /\ HoldsRecovered(us, chain, ins, seen)
    /\ Layout(chain, ins, conv, at)

LEMMA RecoveryIs ==
    ASSUME NEW us, Fine(us), NEW chain, Chain(ToSet(us), chain)
    PROVE  \E ins, seen, at :
             IsRecovery(us, chain, InsertInto(chain, Recovered(us, chain)), ins, seen, at)
<1> DEFINE ins == Recovered(us, chain)
           conv == InsertInto(chain, ins)
<1>1. PICK seen : HoldsRecovered(us, chain, ins, seen)
  BY RecoveredIs
<1> HIDE DEF ins
<1>2. chain \in Seq(ToSet(us)) /\ DOMAIN ins = Responses(chain)
  BY <1>1 DEF Chain, HoldsRecovered
<1>3. \A m \in Responses(chain) : ins[m] \in Seq(ToSet(us))
  BY <1>1 DEF HoldsRecovered, HoldsMissed, Chain
<1>4. conv \in Seq(ToSet(us)) /\ \E at : Layout(chain, ins, conv, at)
  BY <1>2, <1>3, LaidOut
<1> HIDE DEF conv
<1>5. PICK at : Layout(chain, ins, conv, at)
  BY <1>4
<1>6. IsRecovery(us, chain, conv, ins, seen, at)
  BY <1>1, <1>4, <1>5 DEF IsRecovery
<1> QED
  BY <1>6 DEF conv, ins

\* An entry of the conversation is on the chain, or was put back behind the last entry
\* of its response.
LEMMA WhereFrom ==
    ASSUME NEW us, NEW chain, NEW conv, NEW ins, NEW seen, NEW at,
           IsRecovery(us, chain, conv, ins, seen, at), NEW i \in DOMAIN conv
    PROVE  LET k == at[i][1]  q == at[i][2]  m == Response(chain[k]) IN
           /\ k \in Nat /\ q \in Nat /\ at[i] = <<k, q>> /\ k \in DOMAIN chain
           /\ \/ q = 1 /\ conv[i] = chain[k] /\ conv[i].uuid \in Uuids(chain)
              \/ /\ q > 1 /\ IsLastOf(chain, k) /\ m \in Responses(chain)
                 /\ q - 1 \in DOMAIN ins[m] /\ conv[i] = ins[m][q - 1]
                 /\ conv[i].uuid \in Uuids(ins[m]) /\ conv[i].uuid \notin seen[m]
<1> DEFINE k == at[i][1]
           q == at[i][2]
           m == Response(chain[k])
<1>1. /\ at[i] \in Nat \X Nat /\ k \in DOMAIN chain
      /\ q = 1 => conv[i] = chain[k]
      /\ q # 1 => /\ q > 1 /\ IsLastOf(chain, k) /\ q - 1 \in DOMAIN ins[m]
                  /\ conv[i] = ins[m][q - 1]
  BY DEF IsRecovery, Layout
<1>2. k \in Nat /\ q \in Nat /\ at[i] = <<k, q>>
  BY <1>1
<1>3. CASE q = 1
  BY <1>1, <1>2, <1>3 DEF Uuids
<1>4. CASE q # 1
  <2>1. m \in Responses(chain)
    BY <1>1, <1>4 DEF IsLastOf, Responses
  <2>2. HoldsMissed(us, chain, seen[m], m, ins[m])
    BY <2>1 DEF IsRecovery, HoldsRecovered
  <2>3. ins[m][q - 1].uuid \notin seen[m]
    BY <1>1, <1>4, <2>2 DEF HoldsMissed
  <2> QED
    BY <1>1, <1>2, <1>4, <2>1, <2>3 DEF Uuids
<1> QED
  BY <1>3, <1>4

\* A place of its own.
LEMMA OnePlace ==
    ASSUME NEW us, NEW chain, NEW conv, NEW ins, NEW seen, NEW at,
           IsRecovery(us, chain, conv, ins, seen, at), NEW i \in DOMAIN conv,
           NEW j \in DOMAIN conv, at[i] = at[j]
    PROVE  i = j
<1>1. at[i][1] \in Nat /\ at[i][2] \in Nat
  BY WhereFrom
<1>2. i \in Nat /\ j \in Nat
  BY DEF IsRecovery, Layout
<1>3. ~(i < j) /\ ~(j < i)
  BY <1>1 DEF IsRecovery, Layout
<1> QED
  BY <1>2, <1>3

LEMMA OneLast ==
    ASSUME NEW E, NEW chain \in Seq(E), NEW j \in DOMAIN chain, NEW k \in DOMAIN chain,
           IsLastOf(chain, k), Response(chain[j]) = Response(chain[k])
    PROVE  j <= k
<1>1. DOMAIN chain = 1..Len(chain) /\ Len(chain) \in Nat
  BY LenProperties
<1>2. ~(k < j)
  <2> SUFFICES ASSUME k < j PROVE FALSE
    OBVIOUS
  <2>1. j \in k + 1..Len(chain)
    BY <1>1
  <2> QED
    BY <2>1 DEF IsLastOf
<1> QED
  BY <1>1, <1>2

\* No uuid is in the conversation twice.
LEMMA NoUuidTwice ==
    ASSUME NEW us, NEW chain, NEW conv, NEW ins, NEW seen, NEW at,
           IsRecovery(us, chain, conv, ins, seen, at), NEW i \in DOMAIN conv,
           NEW j \in DOMAIN conv, conv[i].uuid = conv[j].uuid
    PROVE  i = j
<1> DEFINE k == at[i][1]
           q == at[i][2]
           m == Response(chain[k])
           l == at[j][1]
           p == at[j][2]
           w == Response(chain[l])
<1>1. /\ k \in Nat /\ q \in Nat /\ at[i] = <<k, q>> /\ k \in DOMAIN chain
      /\ \/ q = 1 /\ conv[i] = chain[k] /\ conv[i].uuid \in Uuids(chain)
         \/ /\ q > 1 /\ IsLastOf(chain, k) /\ m \in Responses(chain)
            /\ q - 1 \in DOMAIN ins[m] /\ conv[i] = ins[m][q - 1]
            /\ conv[i].uuid \in Uuids(ins[m]) /\ conv[i].uuid \notin seen[m]
  BY WhereFrom
<1>2. /\ l \in Nat /\ p \in Nat /\ at[j] = <<l, p>> /\ l \in DOMAIN chain
      /\ \/ p = 1 /\ conv[j] = chain[l] /\ conv[j].uuid \in Uuids(chain)
         \/ /\ p > 1 /\ IsLastOf(chain, l) /\ w \in Responses(chain)
            /\ p - 1 \in DOMAIN ins[w] /\ conv[j] = ins[w][p - 1]
            /\ conv[j].uuid \in Uuids(ins[w]) /\ conv[j].uuid \notin seen[w]
  BY WhereFrom
<1> HIDE DEF k, q, m, l, p, w
<1>3. /\ \A a, b \in DOMAIN chain : chain[a].uuid = chain[b].uuid => a = b
      /\ chain \in Seq(ToSet(us))
  BY DEF IsRecovery, Chain
<1>4. \A r \in Responses(chain) :
        /\ Uuids(chain) \subseteq seen[r]
        /\ \A a, b \in DOMAIN ins[r] : ins[r][a].uuid = ins[r][b].uuid => a = b
        /\ \A v \in Responses(chain) :
            v = r \/ Uuids(ins[v]) \subseteq seen[r] \/ Uuids(ins[r]) \subseteq seen[v]
  BY DEF IsRecovery, HoldsRecovered, HoldsMissed, Chain
<1>5. at[i] = at[j]
  <2>1. CASE q = 1 /\ p = 1
    BY <1>1, <1>2, <1>3, <2>1
  <2>2. CASE q = 1 /\ p > 1
    BY <1>1, <1>2, <1>4, <2>2
  <2>3. CASE q > 1 /\ p = 1
    BY <1>1, <1>2, <1>4, <2>3
  <2>4. CASE q > 1 /\ p > 1
    <3>1. m = w
      BY <1>1, <1>2, <1>4, <2>4
    <3>2. l <= k /\ k <= l
      BY <1>1, <1>2, <1>3, <2>4, <3>1, OneLast DEF m, w
    <3>3. q - 1 = p - 1
      BY <1>1, <1>2, <1>4, <2>4, <3>1
    <3> QED
      BY <1>1, <1>2, <3>2, <3>3
  <2> QED
    BY <1>1, <1>2, <2>1, <2>2, <2>3, <2>4
<1> QED
  BY <1>5, OnePlace

\* What was read of a transcript stays, in its order.
LEMMA Inserts ==
    ASSUME NEW us, NEW chain, NEW conv, NEW ins, NEW seen, NEW at,
           IsRecovery(us, chain, conv, ins, seen, at)
    PROVE  OnlyInserts(chain, conv)
<1>1. \A k \in DOMAIN chain : \E i \in DOMAIN conv : at[i] = <<k, 1>> /\ conv[i] = chain[k]
  <2> SUFFICES ASSUME NEW k \in DOMAIN chain
               PROVE  \E i \in DOMAIN conv : at[i] = <<k, 1>> /\ conv[i] = chain[k]
    OBVIOUS
  <2>1. PICK i \in DOMAIN conv : at[i] = <<k, 1>>
    BY DEF IsRecovery, Layout
  <2>2. at[i][1] = k /\ at[i][2] = 1
    BY <2>1
  <2>3. conv[i] = chain[k]
    BY <2>2 DEF IsRecovery, Layout
  <2> QED
    BY <2>1, <2>3
<1>2. ASSUME NEW i \in DOMAIN chain, NEW j \in DOMAIN chain, NEW p \in DOMAIN conv,
             NEW q \in DOMAIN conv, i < j, conv[p] = chain[i], conv[q] = chain[j]
      PROVE  p < q
  <2>1. at[p] = <<i, 1>> /\ at[q] = <<j, 1>>
    <3>1. PICK x \in DOMAIN conv : at[x] = <<i, 1>> /\ conv[x] = chain[i]
      BY <1>1
    <3>2. PICK y \in DOMAIN conv : at[y] = <<j, 1>> /\ conv[y] = chain[j]
      BY <1>1
    <3>3. x = p /\ y = q
      BY <1>2, <3>1, <3>2, NoUuidTwice
    <3> QED
      BY <3>1, <3>2, <3>3
  <2>2. at[p][1] = i /\ at[p][2] = 1 /\ at[q][1] = j /\ at[q][2] = 1
    BY <2>1
  <2>3. p \in Nat /\ q \in Nat /\ i \in Nat /\ j \in Nat
    <3>1. p \in Nat /\ q \in Nat
      BY DEF IsRecovery, Layout
    <3>2. i \in Nat /\ j \in Nat
      BY <2>2, WhereFrom
    <3> QED
      BY <3>1, <3>2
  <2>4. ~(q < p)
    BY <1>2, <2>2, <2>3 DEF IsRecovery, Layout
  <2>5. p # q
    BY <1>2, <2>2, <2>3
  <2> QED
    BY <2>3, <2>4, <2>5
<1>3. \A k \in DOMAIN chain : chain[k] \in ToSet(conv)
  BY <1>1 DEF ToSet
<1>4. \A p, q \in DOMAIN conv : conv[p].uuid = conv[q].uuid => p = q
  BY NoUuidTwice
<1> QED
  BY <1>2, <1>3, <1>4 DEF OnlyInserts

-----------------------------------------------------------------------------
(* Results and the calls they answer *)

\* A result whose parent made calls answers only those; and it answers calls of one
\* response.
OwnCalls(E) ==
    \A r, a \in E : a.type = "assistant" /\ r.parent = a.uuid => r.answers \subseteq a.calls
OneResponse(E) ==
    \A r \in E : r.answers # {} =>
        \E m \in Nat \ {None} : \A c \in r.answers : \E e \in E : Response(e) = m /\ c \in e.calls

\* The owner of a call made it, and whoever else made it is of the same response.
LEMMA OwnerIs ==
    ASSUME NEW us \in Seq(EntryType), NEW c, Owner(us, c) # None
    PROVE  /\ Owner(us, c) \in DOMAIN us /\ c \in us[Owner(us, c)].calls
           /\ Response(us[Owner(us, c)]) # None
           /\ \A i \in DOMAIN us : Response(us[i]) # None /\ c \in us[i].calls =>
                Response(us[i]) = Response(us[Owner(us, c)])
<1> DEFINE callers == {i \in DOMAIN us : Response(us[i]) # None /\ c \in us[i].calls}
           o == Owner(us, c)
<1>1. /\ callers # {} /\ \A i, j \in callers : us[i].mid = us[j].mid
      /\ o = Max(callers)
  BY DEF Owner
<1>2. callers \subseteq 0..Len(us) /\ Len(us) \in Nat
  BY LenProperties
<1>3. o \in callers
  <2> HIDE DEF callers
  <2> QED
    BY <1>1, <1>2, MaxIs
<1>4. \A i \in callers : Response(us[i]) = us[i].mid
  BY DEF Response
<1> QED
  BY <1>1, <1>3, <1>4

\* A result that is put back with a response answers calls of that response.
LEMMA AnswersItsResponse ==
    ASSUME NEW us, Fine(us), OwnCalls(ToSet(us)), OneResponse(ToSet(us)), NEW chain, NEW seen,
           NEW m, m # None, NEW r \in PutBack(us, chain, seen, m), NEW c \in us[r].answers,
           Owner(us, c) # None
    PROVE  Response(us[Owner(us, c)]) = m
<1> DEFINE G == Group(us, m)
<1>0. us \in Seq(EntryType)
  BY DEF Fine, Chain
<1>1. r \in DOMAIN us /\ (IsOwn(us, G, r) \/ \E d \in us[r].answers : Owner(us, d) \in G)
  BY DEF PutBack, Settled, TakeStrays, Results, AnswersOpen
<1>2. \A i \in G : i \in DOMAIN us /\ Response(us[i]) = m /\ us[i].type = "assistant"
  BY DEF Group, Response
<1> HIDE DEF G
<1>3. CASE IsOwn(us, G, r)
  <2>1. PICK a \in G : us[r].parent = us[a].uuid
    BY <1>3 DEF IsOwn
  <2>2. c \in us[a].calls
    BY <1>1, <1>2, <2>1 DEF OwnCalls, ToSet
  <2> QED
    BY <1>0, <1>2, <2>1, <2>2, OwnerIs
<1>4. ASSUME NEW d \in us[r].answers, Owner(us, d) \in G PROVE Response(us[Owner(us, c)]) = m
  <2>1. PICK w \in Nat \ {None} : \A b \in us[r].answers : \E e \in ToSet(us) :
                                      Response(e) = w /\ b \in e.calls
    BY <1>1 DEF OneResponse, ToSet
  <2>2. PICK i \in DOMAIN us : Response(us[i]) = w /\ d \in us[i].calls
    BY <2>1 DEF ToSet
  <2>3. PICK j \in DOMAIN us : Response(us[j]) = w /\ c \in us[j].calls
    BY <2>1 DEF ToSet
  <2>4. Owner(us, d) # None
    <3>1. 0 \notin DOMAIN us
      BY <1>0, LenProperties
    <3> QED
      BY <1>2, <1>4, <3>1 DEF None
  <2>5. w = m
    BY <1>0, <1>2, <1>4, <2>1, <2>2, <2>4, OwnerIs
  <2> QED
    BY <1>0, <2>1, <2>3, <2>5, OwnerIs
<1> QED
  BY <1>1, <1>3, <1>4

\* Of what is put back, an entry that is no result is of the response.
LEMMA PutBackIs ==
    ASSUME NEW us, NEW chain, NEW seen, NEW m, m # None, NEW x, HoldsMissed(us, chain, seen, m, x),
           NEW k \in DOMAIN x, x[k].type # "user"
    PROVE  Response(x[k]) = m
<1>1. PICK i \in Group(us, m) \cup PutBack(us, chain, seen, m) : x[k] = us[i]
  BY DEF HoldsMissed
<1>2. i \in Group(us, m) => Response(us[i]) = m
  BY DEF Group
<1>3. i \in PutBack(us, chain, seen, m) => us[i].type = "user"
  BY DEF PutBack, Settled, TakeStrays, Results, IsToolResult
<1> QED
  BY <1>1, <1>2, <1>3

LEMMA PutBackResult ==
    ASSUME NEW us, NEW chain, NEW seen, NEW m, m # None, NEW x, HoldsMissed(us, chain, seen, m, x),
           NEW k \in DOMAIN x, x[k].type = "user"
    PROVE  \E r \in PutBack(us, chain, seen, m) : x[k] = us[r]
<1>1. PICK i \in Group(us, m) \cup PutBack(us, chain, seen, m) : x[k] = us[i]
  BY DEF HoldsMissed
<1>2. i \in Group(us, m) => us[i].type = "assistant"
  BY DEF Group, Response, None
<1> QED
  BY <1>1, <1>2

\* No result is put back before its call.
LEMMA ResultsFollow ==
    ASSUME NEW us, NEW chain, NEW conv, NEW ins, NEW seen, NEW at,
           IsRecovery(us, chain, conv, ins, seen, at), OwnCalls(ToSet(us)), OneResponse(ToSet(us))
    PROVE  RecoveredFollowCalls(us, chain, conv)
<1> SUFFICES ASSUME NEW i \in DOMAIN conv, IsToolResult(conv[i]), conv[i] \notin ToSet(chain),
                    NEW j \in i + 1..Len(conv), NEW c \in conv[i].answers, Owner(us, c) # None,
                    us[Owner(us, c)] = conv[j]
             PROVE  FALSE
  BY DEF RecoveredFollowCalls
<1> DEFINE k == at[i][1]
           q == at[i][2]
           m == Response(chain[k])
           l == at[j][1]
           p == at[j][2]
           w == Response(chain[l])
           o == Owner(us, c)
<1>0. Fine(us) /\ us \in Seq(EntryType) /\ chain \in Seq(ToSet(us))
  BY DEF IsRecovery, Fine, Chain
<1>1. i \in Nat /\ j \in DOMAIN conv /\ i < j
  <2>1. conv \in Seq(ToSet(us))
    BY DEF IsRecovery
  <2> QED
    BY <2>1, LenProperties
<1>2. /\ k \in Nat /\ q \in Nat /\ k \in DOMAIN chain
      /\ \/ q = 1 /\ conv[i] = chain[k] /\ conv[i].uuid \in Uuids(chain)
         \/ /\ q > 1 /\ IsLastOf(chain, k) /\ m \in Responses(chain)
            /\ q - 1 \in DOMAIN ins[m] /\ conv[i] = ins[m][q - 1]
            /\ conv[i].uuid \in Uuids(ins[m]) /\ conv[i].uuid \notin seen[m]
  BY WhereFrom
<1>3. /\ l \in Nat /\ p \in Nat /\ l \in DOMAIN chain
      /\ \/ p = 1 /\ conv[j] = chain[l] /\ conv[j].uuid \in Uuids(chain)
         \/ /\ p > 1 /\ IsLastOf(chain, l) /\ w \in Responses(chain)
            /\ p - 1 \in DOMAIN ins[w] /\ conv[j] = ins[w][p - 1]
            /\ conv[j].uuid \in Uuids(ins[w]) /\ conv[j].uuid \notin seen[w]
  BY <1>1, WhereFrom
<1>4. k < l \/ (k = l /\ q < p)
  BY <1>1 DEF IsRecovery, Layout
<1> HIDE DEF k, q, l, p, o
<1>5. /\ q > 1 /\ IsLastOf(chain, k) /\ m \in Responses(chain) /\ m # None
      /\ q - 1 \in DOMAIN ins[m] /\ conv[i] = ins[m][q - 1]
  <2>1. q # 1
    BY <1>2 DEF ToSet
  <2> QED
    BY <1>2, <2>1 DEF Responses
<1>6. \A r \in Responses(chain) : HoldsMissed(us, chain, seen[r], r, ins[r]) /\ r # None
  BY DEF IsRecovery, HoldsRecovered, Responses
<1>7. conv[i].type = "user"
  BY DEF IsToolResult
<1>8. Response(conv[j]) = m /\ conv[j].type = "assistant"
  <2>1. PICK r \in PutBack(us, chain, seen[m], m) : conv[i] = us[r]
    BY <1>5, <1>6, <1>7, PutBackResult
  <2>2. Response(us[o]) = m
    BY <1>0, <1>5, <2>1, AnswersItsResponse DEF o
  <2> QED
    BY <1>5, <2>2 DEF Response, o
<1>9. CASE p = 1
  <2>1. Response(chain[l]) = Response(chain[k])
    BY <1>3, <1>8, <1>9
  <2>2. l <= k
    BY <1>0, <1>2, <1>3, <1>5, <2>1, OneLast
  <2> QED
    BY <1>2, <1>3, <1>4, <1>5, <1>9, <2>2
<1>10. CASE p # 1
  <2>1. /\ p > 1 /\ IsLastOf(chain, l) /\ w \in Responses(chain)
        /\ p - 1 \in DOMAIN ins[w] /\ conv[j] = ins[w][p - 1]
    BY <1>3, <1>10
  <2>2. w = m
    <3>1. HoldsMissed(us, chain, seen[w], w, ins[w]) /\ w # None
      BY <1>6, <2>1
    <3>2. ins[w][p - 1].type # "user"
      BY <1>8, <2>1
    <3>3. Response(ins[w][p - 1]) = w
      BY <2>1, <3>1, <3>2, PutBackIs
    <3> QED
      BY <1>8, <2>1, <3>3
  <2>3. l <= k
    BY <1>0, <1>2, <1>3, <1>5, <2>2, OneLast
  <2>4. q - 1 < p - 1
    BY <1>2, <1>3, <1>4, <2>3
  <2>5. ins[m][p - 1].type = "user"
    BY <1>5, <1>6, <1>7, <2>1, <2>2, <2>4 DEF HoldsMissed
  <2> QED
    BY <1>8, <2>1, <2>2, <2>5
<1> QED
  BY <1>9, <1>10

\* Every uuid that was seen is in the conversation.
LEMMA SeenIsThere ==
    ASSUME NEW us, NEW chain, NEW conv, NEW ins, NEW seen, NEW at,
           IsRecovery(us, chain, conv, ins, seen, at), NEW m \in Responses(chain)
    PROVE  /\ \A u \in seen[m] : u \in Uuids(conv)
           /\ \A q \in DOMAIN ins[m] : ins[m][q] \in ToSet(conv)
<1>1. \A k \in DOMAIN chain : chain[k] \in ToSet(conv)
  BY Inserts DEF OnlyInserts
<1>2. \A w \in Responses(chain) : \A q \in DOMAIN ins[w] : ins[w][q] \in ToSet(conv)
  BY DEF IsRecovery, Layout, ToSet
<1>3. \A u \in seen[m] : u \in Uuids(chain) \/ \E w \in Responses(chain) : u \in Uuids(ins[w])
  BY DEF IsRecovery, HoldsRecovered
<1>4. \A e \in ToSet(conv) : e.uuid \in Uuids(conv)
  BY DEF ToSet, Uuids
<1>5. (\A u \in Uuids(chain) : u \in Uuids(conv))
      /\ \A w \in Responses(chain) : \A u \in Uuids(ins[w]) : u \in Uuids(conv)
  BY <1>1, <1>2, <1>4 DEF Uuids
<1> QED
  BY <1>2, <1>3, <1>5

\* The responses of the conversation are those of the chain.
LEMMA ResponsesOf ==
    ASSUME NEW us, NEW chain, NEW conv, NEW ins, NEW seen, NEW at,
           IsRecovery(us, chain, conv, ins, seen, at), NEW e \in ToSet(conv), Response(e) # None
    PROVE  Response(e) \in Responses(chain)
<1>1. PICK i \in DOMAIN conv : conv[i] = e
  BY DEF ToSet
<1> DEFINE k == at[i][1]
           q == at[i][2]
           m == Response(chain[k])
<1>2. /\ k \in DOMAIN chain
      /\ \/ conv[i] = chain[k]
         \/ m \in Responses(chain) /\ q - 1 \in DOMAIN ins[m] /\ conv[i] = ins[m][q - 1]
  BY WhereFrom
<1>3. CASE conv[i] = chain[k]
  BY <1>1, <1>2, <1>3 DEF Responses
<1>4. CASE m \in Responses(chain) /\ q - 1 \in DOMAIN ins[m] /\ conv[i] = ins[m][q - 1]
  <2>1. HoldsMissed(us, chain, seen[m], m, ins[m]) /\ m # None
    BY <1>4 DEF IsRecovery, HoldsRecovered, Responses
  <2>2. Response(e) = m
    <3>1. ins[m][q - 1].type # "user"
      BY <1>1, <1>4 DEF Response
    <3> QED
      BY <1>1, <1>4, <2>1, <3>1, PutBackIs
  <2> QED
    BY <1>4, <2>2
<1> QED
  BY <1>2, <1>3, <1>4

\* A stray that is not taken answers, of the response's calls, only such as were
\* answered on the chain or by a stray that is taken.
LEMMA LeftOut ==
    ASSUME NEW us \in Seq(EntryType), NEW group, NEW strays, strays \subseteq DOMAIN us,
           NEW onChain \in SUBSET Nat, NEW r \in strays,
           r \notin TakeStrays(us, group, strays, onChain), NEW c \in us[r].answers,
           Owner(us, c) \in group
    PROVE  c \in onChain \/ \E t \in TakeStrays(us, group, strays, onChain) : c \in us[t].answers
<1> DEFINE n == Len(us)
           S == SUBSET Nat
           step(s, k) == s \cup (IF k \in strays /\ AnswersOpen(us, group, k, s)
                                   THEN us[k].answers ELSE {})
           g == [x \in S \X (1..n) |-> step(x[1], x[2])]
           taken == TakeStrays(us, group, strays, onChain)
           Is(x) == x = [k \in 0..n |-> IF k = 0 THEN onChain ELSE step(x[k - 1], k)]
           an == CHOOSE x : Is(x)
<1>0. n \in Nat /\ DOMAIN us = 1..n /\ \A k \in 1..n : us[k].answers \in SUBSET Nat
  <2>1. \A k \in 1..n : us[k] \in EntryType
    BY ElementOfSeq
  <2> QED
    BY <2>1, LenProperties DEF EntryType
<1>1. g \in [S \X (1..n) -> S] /\ onChain \in S
  BY <1>0
<1> HIDE DEF step, S
<1>2. PICK f : StepsBy(f, S, onChain, g, n)
  <2> HIDE DEF g
  <2> QED
    BY <1>0, <1>1, StepsExist
<1>3. Is(f)
  <2>1. /\ f \in [0..n -> S] /\ f[0] = onChain
        /\ \A k \in 1..n : f[k] = g[<<f[k - 1], k>>]
    BY <1>2 DEF StepsBy
  <2>2. ASSUME NEW k \in 1..n PROVE f[k] = step(f[k - 1], k)
    <3>1. k - 1 \in 0..n
      BY <1>0
    <3>2. <<f[k - 1], k>> \in S \X (1..n)
      BY <2>1, <3>1
    <3> QED
      BY <2>1, <3>2
  <2>3. \A k \in 0..n : k = 0 \/ k \in 1..n
    BY <1>0
  <2> QED
    BY <2>1, <2>2, <2>3
<1>4. Is(an)
  <2> HIDE DEF Is
  <2> QED
    BY <1>3
<1>5. taken = {t \in strays : AnswersOpen(us, group, t, an[t - 1])}
  BY DEF TakeStrays, step
<1> HIDE DEF an, taken, g
<1>6. an[0] = onChain /\ \A k \in 1..n : an[k] = step(an[k - 1], k)
  <2>1. \A k \in 0..n : an[k] = IF k = 0 THEN onChain ELSE step(an[k - 1], k)
    BY <1>4
  <2>2. 0 \in 0..n /\ \A k \in 1..n : k \in 0..n /\ k # 0
    BY <1>0
  <2> QED
    BY <2>1, <2>2
<1> HIDE DEF Is
<1>7. \A k \in 0..n : \A d \in an[k] : d \in onChain \/ \E t \in taken : d \in us[t].answers
  <2> DEFINE T == {k \in 0..n : \A d \in an[k] :
                     d \in onChain \/ \E t \in taken : d \in us[t].answers}
  <2>1. 0 \in T
    BY <1>0, <1>6
  <2>2. ASSUME NEW k \in 1..n, k - 1 \in T PROVE k \in T
    <3>1. an[k] = step(an[k - 1], k)
      BY <1>6
    <3>2. k \in strays /\ AnswersOpen(us, group, k, an[k - 1]) => k \in taken
      BY <1>5
    <3>3. k \in 0..n
      BY <1>0
    <3> QED
      BY <2>2, <3>1, <3>2, <3>3 DEF step
  <2> HIDE DEF T
  <2>3. \A k \in 0..n : k \in T
    BY <1>0, <2>1, <2>2, Induct
  <2> QED
    BY <2>3 DEF T
<1>8. c \in an[r - 1]
  BY <1>5 DEF AnswersOpen, taken
<1>9. r - 1 \in 0..n
  BY <1>0
<1> QED
  BY <1>7, <1>8, <1>9 DEF taken

\* What a response's results are, that the walk missed, is put back, or nothing new.
LEMMA ResultsPutBack ==
    ASSUME NEW us, Fine(us), NEW chain, Chain(ToSet(us), chain), NEW seen, NEW m,
           NEW r \in Results(us, Group(us, m), seen)
    PROVE  /\ IsOwn(us, Group(us, m), r) => r \in PutBack(us, chain, seen, m)
           /\ \A c \in us[r].answers : Owner(us, c) \in Group(us, m) =>
                \/ \E k \in DOMAIN chain : c \in chain[k].answers
                \/ \E t \in PutBack(us, chain, seen, m) : c \in us[t].answers
<1> DEFINE G == Group(us, m)
           R == Results(us, G, seen)
           own == {x \in R : IsOwn(us, G, x)}
           strays == R \ own
           onChain == UNION {chain[k].answers : k \in DOMAIN chain}
           inOwn == UNION {us[x].answers : x \in own}
           open == onChain \cup inOwn
           taken == TakeStrays(us, G, strays, open)
<1>0. us \in Seq(EntryType) /\ R \subseteq DOMAIN us
  BY DEF Fine, Chain, Results
<1>1. PutBack(us, chain, seen, m) = own \cup taken
  <2>1. Settled(us, chain, G, R) = own \cup taken
    <3> HIDE DEF R, G
    <3> QED
      BY DEF Settled
  <2> QED
    BY <2>1 DEF PutBack
<1>2. open \in SUBSET Nat
  <2>1. \A i \in DOMAIN us : us[i].answers \in SUBSET Nat
    <3>1. \A i \in DOMAIN us : us[i] \in EntryType
      BY <1>0, LenProperties, ElementOfSeq
    <3> QED
      BY <3>1 DEF EntryType
  <2>2. \A k \in DOMAIN chain : chain[k] \in ToSet(us)
    BY LenProperties, ElementOfSeq DEF Chain
  <2>3. \A k \in DOMAIN chain : chain[k].answers \in SUBSET Nat
    BY <2>1, <2>2 DEF ToSet
  <2>4. \A x \in own : us[x].answers \in SUBSET Nat
    BY <1>0, <2>1
  <2>5. onChain \in SUBSET Nat
    BY <2>3
  <2>6. inOwn \in SUBSET Nat
    <3> HIDE DEF own
    <3> QED
      BY <2>4
  <2> HIDE DEF onChain, inOwn
  <2> QED
    BY <2>5, <2>6
<1> HIDE DEF taken, R, G
<1>3. ASSUME NEW c \in us[r].answers, Owner(us, c) \in G
      PROVE  \/ \E k \in DOMAIN chain : c \in chain[k].answers
             \/ \E t \in own \cup taken : c \in us[t].answers
  <2>1. CASE r \in own
    BY <2>1
  <2>2. CASE r \in taken
    BY <2>2
  <2>3. CASE r \notin own /\ r \notin taken
    <3>1. r \in strays /\ strays \subseteq DOMAIN us
      BY <1>0, <2>3 DEF R, G
    <3> HIDE DEF strays
    <3>2. c \in open \/ \E t \in taken : c \in us[t].answers
      <4> HIDE DEF open
      <4> QED
        BY <1>0, <1>2, <1>3, <2>3, <3>1, LeftOut DEF taken
    <3>3. c \in open => \/ \E k \in DOMAIN chain : c \in chain[k].answers
                        \/ \E t \in own : c \in us[t].answers
      <4>1. c \in onChain => \E k \in DOMAIN chain : c \in chain[k].answers
        OBVIOUS
      <4>2. c \in inOwn => \E t \in own : c \in us[t].answers
        <5> HIDE DEF own
        <5> QED
          OBVIOUS
      <4> HIDE DEF onChain, inOwn, own
      <4> QED
        BY <4>1, <4>2
    <3> QED
      BY <3>2, <3>3
  <2> QED
    BY <2>1, <2>2, <2>3
<1>4. IsOwn(us, G, r) => r \in own
  BY DEF R, G
<1> QED
  BY <1>1, <1>3, <1>4 DEF G

\* A response with an entry in the conversation is there with all its entries and the
\* results that hang from them.
LEMMA IsWhole ==
    ASSUME NEW us, NEW chain, NEW conv, NEW ins, NEW seen, NEW at,
           IsRecovery(us, chain, conv, ins, seen, at), NEW e \in ToSet(us), Response(e) # None,
           NEW x \in ToSet(conv), Response(x) = Response(e), NEW f \in ToSet(us),
           Response(f) = Response(e) \/ (IsToolResult(f) /\ f.parent = e.uuid)
    PROVE  \E y \in ToSet(conv) : y.uuid = f.uuid
<1> DEFINE m == Response(e)
<1>1. m \in Responses(chain)
  BY ResponsesOf
<1>2. PICK i \in DOMAIN us : us[i] = e
  BY DEF ToSet
<1>3. PICK j \in DOMAIN us : us[j] = f
  BY DEF ToSet
<1>4. HoldsMissed(us, chain, seen[m], m, ins[m])
  BY <1>1 DEF IsRecovery, HoldsRecovered
<1>5. i \in Group(us, m)
  BY <1>2 DEF Group
<1> HIDE DEF m
<1>6. CASE f.uuid \in seen[m]
  <2>1. f.uuid \in Uuids(conv)
    BY <1>1, <1>6, SeenIsThere
  <2> QED
    BY <2>1 DEF Uuids, ToSet
<1>7. CASE f.uuid \notin seen[m]
  <2>1. \E q \in DOMAIN ins[m] : ins[m][q] = f
    <3>1. CASE Response(f) = m
      BY <1>3, <1>4, <1>7, <3>1 DEF HoldsMissed, Group
    <3>2. CASE IsToolResult(f) /\ f.parent = e.uuid
      <4>1. j \in Results(us, Group(us, m), seen[m]) /\ IsOwn(us, Group(us, m), j)
        BY <1>2, <1>3, <1>5, <1>7, <3>2 DEF Results, BelongsTo, IsOwn
      <4>2. Fine(us) /\ Chain(ToSet(us), chain)
        BY DEF IsRecovery
      <4>3. j \in PutBack(us, chain, seen[m], m)
        BY <4>1, <4>2, ResultsPutBack
      <4> QED
        BY <1>3, <1>4, <4>3 DEF HoldsMissed
    <3> QED
      BY <3>1, <3>2 DEF m
  <2> QED
    BY <1>1, <2>1, SeenIsThere
<1> QED
  BY <1>6, <1>7

\* A call of the conversation that its writer answered anywhere is answered there.
LEMMA AnswersStay ==
    ASSUME NEW us, NEW chain, NEW conv, NEW ins, NEW seen, NEW at,
           IsRecovery(us, chain, conv, ins, seen, at)
    PROVE  Answered(us, ToSet(conv))
<1> SUFFICES ASSUME NEW o \in DOMAIN us, NEW c \in us[o].calls, Owner(us, c) = o,
                    us[o] \in ToSet(conv), NEW e \in ToSet(us), IsToolResult(e),
                    c \in e.answers, e.writer = us[o].writer
             PROVE  \E x \in ToSet(conv) : c \in x.answers
  BY DEF Answered
<1> DEFINE m == Response(us[o])
<1>0. Fine(us) /\ us \in Seq(EntryType) /\ Chain(ToSet(us), chain) /\ conv \in Seq(ToSet(us))
  BY DEF IsRecovery, Fine, Chain
<1>1. m # None /\ o \in Group(us, m) /\ m \in Responses(chain)
  <2>1. o # None
    BY <1>0, LenProperties DEF None
  <2>2. m # None
    BY <1>0, <2>1, OwnerIs
  <2> QED
    BY <2>2, ResponsesOf DEF Group
<1>2. PICK r \in DOMAIN us : us[r] = e
  BY DEF ToSet
<1> HIDE DEF m
<1>3. HoldsMissed(us, chain, seen[m], m, ins[m])
  BY <1>1 DEF IsRecovery, HoldsRecovered
<1>4. CASE e.uuid \in seen[m]
  <2>1. e.uuid \in Uuids(conv)
    BY <1>1, <1>4, SeenIsThere
  <2>2. PICK k \in DOMAIN conv : conv[k].uuid = e.uuid
    BY <2>1 DEF Uuids
  <2>3. conv[k] \in ToSet(us)
    BY <1>0, LenProperties, ElementOfSeq
  <2>4. conv[k] = e
    BY <1>0, <2>2, <2>3 DEF Fine, Chain, ToSet
  <2> QED
    BY <2>4 DEF ToSet
<1>5. CASE e.uuid \notin seen[m]
  <2>1. r \in Results(us, Group(us, m), seen[m])
    BY <1>1, <1>2, <1>5 DEF Results, BelongsTo
  <2>2. \/ \E k \in DOMAIN chain : c \in chain[k].answers
        \/ \E t \in PutBack(us, chain, seen[m], m) : c \in us[t].answers
    BY <1>0, <1>1, <1>2, <2>1, ResultsPutBack
  <2>3. ASSUME NEW k \in DOMAIN chain, c \in chain[k].answers
        PROVE  \E x \in ToSet(conv) : c \in x.answers
    BY <2>3, Inserts DEF OnlyInserts
  <2>4. ASSUME NEW t \in PutBack(us, chain, seen[m], m), c \in us[t].answers
        PROVE  \E x \in ToSet(conv) : c \in x.answers
    <3>1. PICK q \in DOMAIN ins[m] : ins[m][q] = us[t]
      BY <1>3 DEF HoldsMissed
    <3>2. ins[m][q] \in ToSet(conv)
      BY <1>1, SeenIsThere
    <3> QED
      BY <2>4, <3>1, <3>2
  <2> QED
    BY <2>2, <2>3, <2>4
<1> QED
  BY <1>4, <1>5

-----------------------------------------------------------------------------
(* The transcript *)

\* The uuid of an entry is where it was first written, behind its parent.
Dated(es) ==
    \A i \in DOMAIN es : /\ es[i].uuid \in 1..i /\ es[es[i].uuid] = es[i] /\ es[i].ts = es[i].uuid
                         /\ es[i].parent \in 0..es[i].uuid - 1

TranscriptInv ==
    /\ entries \in Seq(EntryType) /\ Dated(entries)
    /\ OwnCalls(ToSet(entries)) /\ OneResponse(ToSet(entries))

\* So entries with one uuid are one entry.
LEMMA DatedOnce == ASSUME NEW es, Dated(es) PROVE OneEach(ToSet(es))
<1> SUFFICES ASSUME NEW i \in DOMAIN es, NEW j \in DOMAIN es, es[i].uuid = es[j].uuid
             PROVE  es[i] = es[j]
  BY DEF OneEach, ToSet
<1> QED
  BY DEF Dated

\* A new entry keeps the transcript in order.
LEMMA WriteKeeps ==
    ASSUME TranscriptInv, NEW s \in Shape, NEW p \in Uuids(entries) \cup {None}, Write(s, p)
    PROVE  TranscriptInv'
<1> DEFINE n == Len(entries)
           E == ToSet(entries)
           assistants == {i \in DOMAIN entries : entries[i].type = "assistant"}
           new == [uuid |-> n + 1, ts |-> n + 1, parent |-> p, type |-> s.type, mid |-> s.mid,
                   calls |-> s.calls, answers |-> s.answers, writer |-> s.writer,
                   meta |-> s.meta, team |-> s.team,
                   source |-> IF s.sourced THEN entries[Max(assistants)].uuid ELSE None]
<1>1. /\ entries \in Seq(EntryType) /\ n \in Nat /\ DOMAIN entries = 1..n
      /\ \A i \in 1..n : entries[i] \in EntryType
  BY LenProperties, ElementOfSeq DEF TranscriptInv
<1>2. entries' = Append(entries, new)
  BY DEF Write
<1>3. s \in TypeOfShape
  BY ChainAssumption
<1>4. p \in 0..n
  <2>1. \A i \in 1..n : entries[i].uuid \in 1..i
    BY <1>1 DEF TranscriptInv, Dated
  <2> QED
    BY <1>1, <2>1 DEF Uuids, None
<1>5. new \in EntryType
  <2>1. s.sourced => entries[Max(assistants)].uuid \in Nat
    <3>1. assistants \subseteq 0..n
      BY <1>1
    <3>2. s.sourced => assistants # {}
      BY DEF Write
    <3>3. s.sourced => Max(assistants) \in assistants
      <4> HIDE DEF assistants
      <4> QED
        BY <1>1, <3>1, <3>2, MaxIs
    <3> QED
      BY <1>1, <3>3 DEF EntryType
  <2>2. (IF s.sourced THEN entries[Max(assistants)].uuid ELSE None) \in Nat
    BY <2>1 DEF None
  <2> HIDE DEF assistants
  <2> QED
    BY <1>1, <1>3, <1>4, <2>2 DEF EntryType, TypeOfShape
<1>6. /\ new.uuid = n + 1 /\ new.ts = n + 1 /\ new.parent = p /\ new.answers = s.answers
      /\ new.calls = s.calls /\ new.type = s.type /\ new.mid = s.mid
  OBVIOUS
<1> HIDE DEF new
<1>7. /\ entries' \in Seq(EntryType) /\ ToSet(entries') = E \cup {new}
      /\ DOMAIN entries' = 1..n + 1 /\ entries'[n + 1] = new
      /\ \A i \in 1..n : entries'[i] = entries[i]
  <2>1. /\ entries' \in Seq(EntryType) /\ Len(entries') = n + 1
        /\ \A i \in 1..n : entries'[i] = entries[i]
        /\ entries'[n + 1] = new
    BY <1>1, <1>2, <1>5, AppendProperties
  <2>2. DOMAIN entries' = 1..n + 1
    BY <2>1, LenProperties
  <2>3. \A i \in 1..n + 1 : i \in 1..n \/ i = n + 1
    BY <1>1
  <2>4. n + 1 \in 1..n + 1 /\ \A i \in 1..n : i \in 1..n + 1
    BY <1>1
  <2> QED
    BY <1>1, <2>1, <2>2, <2>3, <2>4 DEF ToSet
<1>8. OwnCalls(E) /\ OneResponse(E) /\ Dated(entries)
  BY DEF TranscriptInv
<1>9. \A e \in E : e.uuid # n + 1 /\ e.parent # n + 1
  <2>1. ASSUME NEW i \in DOMAIN entries
        PROVE  entries[i].uuid # n + 1 /\ entries[i].parent # n + 1
    <3>1. entries[i].uuid \in 1..i /\ entries[i].parent \in 0..entries[i].uuid - 1
      BY <1>8 DEF Dated
    <3> QED
      BY <1>1, <3>1
  <2> QED
    BY <2>1 DEF ToSet
<1> DEFINE F == E \cup {new}
<1>11. Dated(entries')
  <2>1. ASSUME NEW i \in 1..n
        PROVE  /\ entries'[i].uuid \in 1..i /\ entries'[entries'[i].uuid] = entries'[i]
               /\ entries'[i].ts = entries'[i].uuid
               /\ entries'[i].parent \in 0..entries'[i].uuid - 1
    <3>1. /\ entries[i].uuid \in 1..i /\ entries[entries[i].uuid] = entries[i]
          /\ entries[i].ts = entries[i].uuid /\ entries[i].parent \in 0..entries[i].uuid - 1
      BY <1>1, <1>8 DEF Dated
    <3>2. entries[i].uuid \in 1..n
      BY <1>1, <3>1
    <3> QED
      BY <1>7, <3>1, <3>2
  <2>2. new.uuid \in 1..n + 1 /\ new.parent \in 0..new.uuid - 1
    BY <1>1, <1>4, <1>6
  <2>3. \A i \in 1..n + 1 : i \in 1..n \/ i = n + 1
    BY <1>1
  <2> QED
    BY <1>6, <1>7, <2>1, <2>2, <2>3 DEF Dated
<1>12. OwnCalls(F)
  <2> SUFFICES ASSUME NEW r \in F, NEW a \in F, a.type = "assistant", r.parent = a.uuid
               PROVE  r.answers \subseteq a.calls
    BY DEF OwnCalls
  <2>1. CASE r \in E /\ a \in E
    BY <1>8, <2>1 DEF OwnCalls
  <2>2. CASE r = new /\ a \in E
    <3>1. PICK i \in DOMAIN entries : entries[i] = a
      BY <2>2 DEF ToSet
    <3>2. entries[i].uuid = p /\ i \in assistants
      BY <1>6, <2>2, <3>1
    <3>3. s.answers \subseteq entries[i].calls
      BY <3>2 DEF Write
    <3> QED
      BY <1>6, <2>2, <3>1, <3>3
  <2>3. a # new
    <3>1. p # n + 1
      BY <1>1, <1>4
    <3> QED
      BY <1>6, <1>9, <3>1
  <2> QED
    BY <2>1, <2>2, <2>3
<1>13. OneResponse(F)
  <2> SUFFICES ASSUME NEW r \in F, r.answers # {}
               PROVE  \E m \in Nat \ {None} : \A c \in r.answers :
                        \E e \in F : Response(e) = m /\ c \in e.calls
    BY DEF OneResponse
  <2>1. CASE r \in E
    <3>1. PICK m \in Nat \ {None} :
            \A c \in r.answers : \E e \in E : Response(e) = m /\ c \in e.calls
      BY <1>8, <2>1 DEF OneResponse
    <3> QED
      BY <3>1
  <2>2. CASE r = new
    <3>1. PICK m \in {entries[i].mid : i \in assistants} \ {None} :
            s.answers \subseteq UNION {entries[i].calls : i \in Group(entries, m)}
      BY <1>6, <2>2 DEF Write
    <3>2. m \in Nat \ {None}
      BY <1>1 DEF EntryType
    <3>3. ASSUME NEW c \in r.answers PROVE \E e \in F : Response(e) = m /\ c \in e.calls
      <4>1. PICK i \in Group(entries, m) : c \in entries[i].calls
        BY <1>6, <2>2, <3>1
      <4>2. i \in DOMAIN entries /\ Response(entries[i]) = m
        BY DEF Group
      <4> QED
        BY <4>1, <4>2 DEF ToSet
    <3> QED
      BY <3>2, <3>3
  <2> QED
    BY <2>1, <2>2
<1> QED
  BY <1>7, <1>11, <1>12, <1>13 DEF TranscriptInv

\* Writing a batch once more adds no entry.
LEMMA WriteAgainKeeps ==
    ASSUME TranscriptInv, NEW k \in DOMAIN entries, WriteAgain(k)
    PROVE  TranscriptInv'
<1> DEFINE n == Len(entries)
           E == ToSet(entries)
           tail == SubSeq(entries, n - k + 1, n)
<1>1. /\ entries \in Seq(EntryType) /\ n \in Nat /\ DOMAIN entries = 1..n /\ k \in 1..n
      /\ \A i \in 1..n : entries[i] \in EntryType
  BY LenProperties, ElementOfSeq DEF TranscriptInv
<1>2. /\ tail \in Seq(EntryType) /\ Len(tail) = k
      /\ \A i \in DOMAIN tail : \E j \in DOMAIN entries : tail[i] = entries[j]
  <2>1. /\ tail \in Seq(EntryType)
        /\ Len(tail) = (IF n - k + 1 <= n THEN n - (n - k + 1) + 1 ELSE 0)
        /\ \A i \in 1..n - (n - k + 1) + 1 : tail[i] = entries[n - k + 1 + i - 1]
    <3>1. n - k + 1 \in Int /\ n \in Int
      BY <1>1
    <3>2. \A i \in n - k + 1..n : entries[i] \in EntryType
      BY <1>1
    <3> QED
      BY <3>1, <3>2, SubSeqProperties
  <2>2. n - (n - k + 1) + 1 = k /\ n - k + 1 <= n
    BY <1>1
  <2> HIDE DEF tail
  <2>3. DOMAIN tail = 1..k
    BY <1>1, <2>1, <2>2, LenProperties
  <2>4. ASSUME NEW i \in 1..k PROVE n - k + 1 + i - 1 \in 1..n
    BY <1>1
  <2> QED
    BY <1>1, <2>1, <2>2, <2>3, <2>4
<1> HIDE DEF tail
<1>3. entries' = entries \o tail
  BY DEF WriteAgain, tail
<1>4. entries' \in Seq(EntryType) /\ IsJoin(entries, tail, entries')
  BY <1>1, <1>2, <1>3, Joined
<1>5. ToSet(entries') = E
  <2>1. ASSUME NEW i \in DOMAIN entries' PROVE \E j \in DOMAIN entries : entries'[i] = entries[j]
    BY <1>2, <1>4 DEF IsJoin
  <2>2. ASSUME NEW j \in DOMAIN entries PROVE j \in DOMAIN entries' /\ entries'[j] = entries[j]
    BY <1>4 DEF IsJoin
  <2> QED
    BY <2>1, <2>2 DEF ToSet
<1>6. ASSUME NEW i \in DOMAIN entries'
      PROVE  \E j \in 1..n : j <= i /\ entries'[i] = entries[j]
  <2>1. ASSUME NEW q \in DOMAIN tail, i = n + q
        PROVE  \E j \in 1..n : j <= i /\ entries'[i] = entries[j]
    <3>1. PICK j \in DOMAIN entries : tail[q] = entries[j]
      BY <1>2
    <3>2. q \in Nat
      BY <1>4 DEF IsJoin
    <3>3. j <= i
      BY <1>1, <2>1, <3>2
    <3> QED
      BY <1>1, <1>4, <2>1, <3>1, <3>3 DEF IsJoin
  <2>2. CASE i \in DOMAIN entries
    BY <1>1, <1>4, <2>2 DEF IsJoin
  <2> QED
    BY <1>4, <2>1, <2>2 DEF IsJoin
<1>7. Dated(entries')
  <2> SUFFICES ASSUME NEW i \in DOMAIN entries'
               PROVE  /\ entries'[i].uuid \in 1..i /\ entries'[entries'[i].uuid] = entries'[i]
                      /\ entries'[i].ts = entries'[i].uuid
                      /\ entries'[i].parent \in 0..entries'[i].uuid - 1
    BY DEF Dated
  <2>1. PICK j \in 1..n : j <= i /\ entries'[i] = entries[j]
    BY <1>6
  <2>2. /\ entries[j].uuid \in 1..j /\ entries[entries[j].uuid] = entries[j]
        /\ entries[j].ts = entries[j].uuid /\ entries[j].parent \in 0..entries[j].uuid - 1
    BY <1>1 DEF TranscriptInv, Dated
  <2>3. i \in Nat
    BY <1>4, LenProperties
  <2>4. entries[j].uuid \in 1..i /\ entries[j].uuid \in DOMAIN entries
    BY <1>1, <2>1, <2>2, <2>3
  <2>5. entries'[entries[j].uuid] = entries[entries[j].uuid]
    BY <1>4, <2>4 DEF IsJoin
  <2> QED
    BY <2>1, <2>2, <2>4, <2>5
<1> QED
  BY <1>4, <1>5, <1>7 DEF TranscriptInv

\* What the CLI writes is in order, however it forks and whatever is written twice: entries follow
\* their parents, those with one uuid are one entry, results answer calls of one response.
THEOREM InOrderAlways == Spec => []TranscriptInv
<1>1. Init => TranscriptInv
  <2> SUFFICES ASSUME Init PROVE TranscriptInv
    OBVIOUS
  <2>1. entries = <<>> /\ DOMAIN entries = {}
    BY DEF Init
  <2>2. ToSet(entries) = {} /\ entries \in Seq(EntryType)
    BY <2>1 DEF ToSet
  <2> QED
    BY <2>1, <2>2 DEF TranscriptInv, Dated, OwnCalls, OneResponse
<1>2. TranscriptInv /\ [Next]_vars => TranscriptInv'
  <2> SUFFICES ASSUME TranscriptInv, [Next]_vars PROVE TranscriptInv'
    OBVIOUS
  <2>1. ASSUME NEW s \in Shape, NEW p \in Uuids(entries) \cup {None}, Write(s, p)
        PROVE  TranscriptInv'
    BY <2>1, WriteKeeps
  <2>2. ASSUME NEW k \in DOMAIN entries, WriteAgain(k) PROVE TranscriptInv'
    BY <2>2, WriteAgainKeeps
  <2>3. CASE UNCHANGED vars
    BY <2>3 DEF vars, TranscriptInv
  <2> QED
    BY <2>1, <2>2, <2>3 DEF Next
<1> QED
  BY <1>1, <1>2, PTL DEF Spec

\* The conversation is a recovery of the walk.
LEMMA ConversationIs ==
    ASSUME TranscriptInv
    PROVE  /\ ToSet(Unique(entries)) = ToSet(entries)
           /\ \E ins, seen, at : IsRecovery(Unique(entries), MainWalk(entries),
                                   BuildConversationChain(entries), ins, seen, at)
<1> DEFINE us == Unique(entries)
           chain == MainWalk(entries)
<1>1. Chain(EntryType, us) /\ ToSet(us) = ToSet(entries)
  BY UniqueIs, DatedOnce DEF TranscriptInv
<1>2. Fine(us)
  BY <1>1 DEF Fine, ToSet, TranscriptInv, Dated
<1>3. Chain(ToSet(us), chain)
  BY <1>1, MainWalkIs DEF TranscriptInv
<1>4. BuildConversationChain(entries) = InsertInto(chain, Recovered(us, chain))
  BY DEF BuildConversationChain, RecoverOrphans
<1> HIDE DEF us, chain
<1>5. \E ins, seen, at : IsRecovery(us, chain, BuildConversationChain(entries), ins, seen, at)
  BY <1>2, <1>3, <1>4, RecoveryIs
<1> QED
  BY <1>1, <1>5 DEF us, chain

\* RecoveryFits: recover_orphaned_parallel_tool_results only inserts, each uuid once, and puts no
\* result back before a call that it answers.
THEOREM RecoveryInserts == Spec => []RecoveryFits
<1>1. TranscriptInv => RecoveryFits
  <2> SUFFICES ASSUME TranscriptInv PROVE RecoveryFits
    OBVIOUS
  <2> DEFINE us == Unique(entries)
             chain == MainWalk(entries)
             conv == BuildConversationChain(entries)
  <2>1. ToSet(us) = ToSet(entries)
    BY ConversationIs
  <2>2. PICK ins, seen, at : IsRecovery(us, chain, conv, ins, seen, at)
    BY ConversationIs
  <2>3. OwnCalls(ToSet(us)) /\ OneResponse(ToSet(us))
    BY <2>1 DEF TranscriptInv
  <2> HIDE DEF us, chain, conv
  <2>4. Fits(us, chain, conv)
    BY <2>2, <2>3, Inserts, ResultsFollow DEF Fits
  <2> QED
    BY <2>4 DEF RecoveryFits, us, chain, conv
<1> QED
  BY <1>1, InOrderAlways, PTL

\* ResponseIsWhole: of a response in the conversation every block is, and every result that hangs
\* from one, wherever the transcript forked.
THEOREM ResponsesWhole == Spec => []ResponseIsWhole
<1>1. TranscriptInv => ResponseIsWhole
  <2> SUFFICES ASSUME TranscriptInv PROVE ResponseIsWhole
    OBVIOUS
  <2> DEFINE us == Unique(entries)
             chain == MainWalk(entries)
             conv == BuildConversationChain(entries)
  <2>1. ToSet(us) = ToSet(entries)
    BY ConversationIs
  <2>2. PICK ins, seen, at : IsRecovery(us, chain, conv, ins, seen, at)
    BY ConversationIs
  <2> HIDE DEF us, chain, conv
  <2>3. \A i \in DOMAIN entries : entries[i] \in ToSet(us)
    BY <2>1 DEF ToSet
  <2>4. ASSUME NEW i \in DOMAIN entries, NEW j \in DOMAIN entries, Response(entries[i]) # None,
               NEW x \in ToSet(conv), Response(x) = Response(entries[i]),
               \/ Response(entries[j]) = Response(entries[i])
               \/ IsToolResult(entries[j]) /\ entries[j].parent = entries[i].uuid
        PROVE  \E y \in ToSet(conv) : y.uuid = entries[j].uuid
    BY <2>2, <2>3, <2>4, IsWhole
  <2>5. Whole(ToSet(conv))
    BY <2>4 DEF Whole
  <2> QED
    BY <2>5 DEF ResponseIsWhole, conv
<1> QED
  BY <1>1, InOrderAlways, PTL

\* AnsweredCallsStayAnswered: a call of the conversation that its writer answered anywhere in the
\* transcript, under an id of one response, has an answer in what build_conversation_chain returns.
THEOREM AnswersAreKept == Spec => []AnsweredCallsStayAnswered
<1>1. TranscriptInv => AnsweredCallsStayAnswered
  <2> SUFFICES ASSUME TranscriptInv PROVE AnsweredCallsStayAnswered
    OBVIOUS
  <2> DEFINE us == Unique(entries)
             chain == MainWalk(entries)
             conv == BuildConversationChain(entries)
  <2>1. PICK ins, seen, at : IsRecovery(us, chain, conv, ins, seen, at)
    BY ConversationIs
  <2> HIDE DEF us, chain, conv
  <2>2. Answered(us, ToSet(conv))
    BY <2>1, AnswersStay
  <2> QED
    BY <2>2 DEF AnsweredCallsStayAnswered, us, conv
<1> QED
  BY <1>1, InOrderAlways, PTL

-----------------------------------------------------------------------------
(* A fork that is cut at a message *)

\* On a walk no entry is newer than the first.
LEMMA WalkGoesBack ==
    ASSUME NEW es \in Seq(EntryType), NEW i \in DOMAIN es,
           \A j \in DOMAIN es : es[j].parent < es[j].uuid
    PROVE  \A k \in DOMAIN Walk(es, i) :
             Walk(es, i)[k] \in DOMAIN es /\ es[Walk(es, i)[k]].uuid <= es[i].uuid
<1> DEFINE p == Walk(es, i)
           n == Len(p)
           T == {k \in 0..n : k # 0 => es[p[k]].uuid <= es[i].uuid}
<1>1. p \in Paths(es, i)
  BY WalkIs
<1>2. p \in Seq(DOMAIN es)
  BY <1>1 DEF Paths
<1>3. n \in Nat /\ DOMAIN p = 1..n /\ \A k \in DOMAIN p : p[k] \in DOMAIN es
  BY <1>2, LenProperties, ElementOfSeq
<1>4. \A j \in DOMAIN es : es[j].uuid \in Nat /\ es[j].parent \in Nat
  <2> SUFFICES ASSUME NEW j \in DOMAIN es PROVE es[j].uuid \in Nat /\ es[j].parent \in Nat
    OBVIOUS
  <2>1. es[j] \in EntryType
    BY LenProperties, ElementOfSeq
  <2> QED
    BY <2>1 DEF EntryType
<1>5. ASSUME NEW k \in 1..n, k - 1 \in T PROVE k \in T
  <2>1. CASE k = 1
    <3>1. p[1] = i
      BY <1>1 DEF Paths
    <3> QED
      BY <1>4, <2>1, <3>1, <1>5
  <2>2. CASE k # 1
    <3>1. k - 1 \in DOMAIN p /\ (k - 1) + 1 = k /\ k \in DOMAIN p /\ k - 1 # 0
      BY <1>3, <2>2
    <3>2. p[k] = Up(es, p[k - 1]) /\ p[k] # None
      <4>1. /\ \A q \in DOMAIN p : q + 1 \in DOMAIN p => p[q + 1] = Up(es, p[q]) /\ p[q + 1] # None
        BY <1>1 DEF Paths
      <4> QED
        BY <3>1, <4>1
    <3>3. es[p[k]].uuid = es[p[k - 1]].parent
      BY <3>2, ByUuidIs DEF Up
    <3>4. es[p[k - 1]].parent < es[p[k - 1]].uuid /\ p[k - 1] \in DOMAIN es
      BY <1>3, <3>1
    <3>5. es[p[k - 1]].uuid <= es[i].uuid
      BY <1>5, <3>1
    <3>6. es[p[k]].uuid <= es[i].uuid
      BY <1>4, <3>3, <3>4, <3>5
    <3> QED
      BY <3>6, <1>5
  <2> QED
    BY <2>1, <2>2
<1> HIDE DEF p
<1>6. \A k \in 0..n : k \in T
  <2>1. 0 \in T
    BY <1>3
  <2> HIDE DEF T
  <2> QED
    BY <1>3, <1>5, <2>1, Induct
<1>7. ASSUME NEW k \in DOMAIN p PROVE es[p[k]].uuid <= es[i].uuid
  <2>1. k \in 0..n /\ k # 0
    BY <1>3
  <2> QED
    BY <1>6, <2>1
<1> QED
  BY <1>3, <1>7 DEF p

\* Some entries in the order of the transcript.
ThoseAre(c, es, T, o) ==
    /\ c \in Seq(EntryType) /\ o \in Seq(T)
    /\ Len(o) \in Nat /\ DOMAIN o = 1..Len(o) /\ DOMAIN c = 1..Len(o) /\ Len(c) = Len(o)
    /\ \A k \in DOMAIN o : o[k] \in T /\ c[k] = es[o[k]]
    /\ \A x \in T : \E k \in DOMAIN o : o[k] = x
    /\ \A j, k \in DOMAIN o : j < k => o[j] < o[k]

LEMMA ThoseIs ==
    ASSUME NEW es \in Seq(EntryType), NEW T, T \subseteq DOMAIN es
    PROVE  \E o : ThoseAre(Those(es, T), es, T, o)
<1> DEFINE key == [i \in T |-> i]
           o == InOrder(T, key)
           c == EntriesAt(es, o)
<1>1. DOMAIN es = 1..Len(es) /\ Len(es) \in Nat
  BY LenProperties
<1>2. IsFiniteSet(T) /\ \A x \in T : key[x] \in Nat /\ key[x] = x
  <2>1. IsFiniteSet(1..Len(es))
    BY <1>1, FS_Interval
  <2> QED
    BY <1>1, <2>1, FS_Subset
<1> HIDE DEF key
<1>3. Lists(o, T, key)
  BY <1>2, InOrderLists
<1> HIDE DEF o
<1>4. o \in Seq(T) /\ Len(o) \in Nat /\ DOMAIN o = 1..Len(o) /\ \A k \in DOMAIN o : o[k] \in T
  <2>1. o \in Seq(T)
    BY <1>3 DEF Lists
  <2> QED
    BY <2>1, LenProperties, ElementOfSeq
<1>5. c = [k \in 1..Len(o) |-> es[o[k]]] /\ \A k \in 1..Len(o) : es[o[k]] \in EntryType
  BY <1>1, <1>4, ElementOfSeq DEF EntriesAt
<1>6. c \in Seq(EntryType) /\ DOMAIN c = 1..Len(o) /\ Len(c) = Len(o)
  BY <1>4, <1>5
<1>7. \A j, k \in DOMAIN o : j < k => o[j] < o[k]
  BY <1>2, <1>3, <1>4 DEF Lists
<1>8. \A x \in T : \E k \in DOMAIN o : o[k] = x
  BY <1>3 DEF Lists
<1>9. ThoseAre(c, es, T, o)
  BY <1>4, <1>5, <1>6, <1>7, <1>8 DEF ThoseAre
<1>10. Those(es, T) = c
  BY DEF Those, o, key
<1> QED
  BY <1>9, <1>10

\* What a transcript cut behind the first entry with uuid u is: that entry comes last, all
\* before it are older, and each is newer than its parent.
CutTo(kept, es, u) ==
    /\ kept \in Seq(EntryType) /\ Len(kept) \in Nat \ {0} /\ DOMAIN kept = 1..Len(kept)
    /\ kept[Len(kept)] = es[u] /\ es[u].uuid = u /\ es[u].writer = "main"
    /\ \A i \in DOMAIN kept : /\ kept[i].uuid \in Nat /\ kept[i].parent \in Nat
                              /\ kept[i].parent < kept[i].uuid
                              /\ i # Len(kept) => kept[i].uuid < u

LEMMA CutIs ==
    ASSUME NEW es \in Seq(EntryType), Dated(es), NEW u \in Uuids(Forkable(es))
    PROVE  u \in DOMAIN es /\ u \in Nat \ {0} /\ CutTo(CutAt(Forkable(es), u), es, u)
<1> DEFINE S == {i \in DOMAIN es : es[i].writer = "main"}
           F == Forkable(es)
           T == {i \in 1..Len(F) : F[i].uuid = u}
<1>1. DOMAIN es = 1..Len(es) /\ Len(es) \in Nat
  BY LenProperties
<1>2. PICK o : ThoseAre(F, es, S, o)
  BY ThoseIs DEF Forkable
<1> DEFINE m == Len(o)
<1>3. /\ F \in Seq(EntryType) /\ m \in Nat /\ DOMAIN o = 1..m /\ DOMAIN F = 1..m /\ Len(F) = m
      /\ \A k \in 1..m : o[k] \in S /\ F[k] = es[o[k]]
      /\ \A x \in S : \E k \in 1..m : o[k] = x
      /\ \A j, k \in 1..m : j < k => o[j] < o[k]
  BY <1>2 DEF ThoseAre
<1>4. \A i \in DOMAIN es : /\ es[i].uuid \in 1..i /\ es[es[i].uuid] = es[i]
                           /\ es[i].parent \in 0..es[i].uuid - 1
  BY DEF Dated
<1>5. T \subseteq Nat /\ T # {}
  BY <1>3 DEF Uuids
<1> DEFINE n == Min(T)
<1>6. n \in T /\ \A i \in T : n <= i
  <2> HIDE DEF T
  <2> QED
    BY <1>5, MinIs
<1> HIDE DEF n, m
<1>7. n \in 1..m /\ F[n].uuid = u /\ \A i \in 1..m : F[i].uuid = u => n <= i
  BY <1>3, <1>6
<1>8. u \in 1..o[n] /\ o[n] \in S /\ es[u] = es[o[n]] /\ F[n] = es[o[n]] /\ es[u].uuid = u
  BY <1>3, <1>4, <1>7
<1>9. o[n] = u
  <2>1. u \in S
    BY <1>1, <1>8
  <2>2. PICK k \in 1..m : o[k] = u
    BY <1>3, <2>1
  <2>3. n <= k
    BY <1>3, <1>7, <1>8, <2>2
  <2>4. n = k \/ o[n] < o[k]
    BY <1>3, <1>7, <2>3
  <2> QED
    BY <1>1, <1>8, <2>2, <2>4
<1>10. \A i \in 1..n - 1 : i \in 1..m /\ F[i].uuid < u
  <2> SUFFICES ASSUME NEW i \in 1..n - 1 PROVE i \in 1..m /\ F[i].uuid < u
    OBVIOUS
  <2>1. i \in 1..m /\ i < n
    BY <1>3, <1>7
  <2>2. o[i] < u /\ o[i] \in DOMAIN es
    BY <1>3, <1>7, <1>9, <2>1
  <2>3. F[i].uuid \in 1..o[i]
    BY <1>3, <1>4, <2>1, <2>2
  <2> QED
    BY <1>1, <1>8, <2>1, <2>2, <2>3
<1>11. u \in DOMAIN es /\ u \in Nat \ {0} /\ u # None
  BY <1>1, <1>8, <1>9 DEF None
<1> DEFINE kept == CutAt(F, u)
<1>12. kept = SubSeq(F, 1, n)
  <2>1. n = SelectInSeq(F, LAMBDA e : e.uuid = u)
    BY <1>5 DEF SelectInSeq, n
  <2> QED
    BY <1>11, <2>1 DEF CutAt
<1>13. /\ kept \in Seq(EntryType) /\ Len(kept) = n /\ DOMAIN kept = 1..n
       /\ \A i \in 1..n : kept[i] = F[i]
  BY <1>3, <1>7, <1>12
<1>14. \A i \in 1..n : /\ kept[i].uuid \in Nat /\ kept[i].parent \in Nat
                       /\ kept[i].parent < kept[i].uuid /\ (i # n => kept[i].uuid < u)
  <2> SUFFICES ASSUME NEW i \in 1..n
               PROVE  /\ kept[i].uuid \in Nat /\ kept[i].parent \in Nat
                      /\ kept[i].parent < kept[i].uuid /\ (i # n => kept[i].uuid < u)
    OBVIOUS
  <2>1. i \in 1..m /\ o[i] \in DOMAIN es /\ kept[i] = es[o[i]]
    BY <1>3, <1>7, <1>13
  <2>2. es[o[i]].uuid \in 1..o[i] /\ es[o[i]].parent \in 0..es[o[i]].uuid - 1 /\ o[i] \in Nat
    BY <1>1, <1>4, <2>1
  <2>3. i # n => i \in 1..n - 1
    BY <1>3, <1>7
  <2> QED
    BY <1>10, <1>13, <2>1, <2>2, <2>3
<1>15. kept[n] = es[u] /\ es[u].writer = "main" /\ n \in Nat \ {0} /\ n \in 1..n
  BY <1>3, <1>7, <1>8, <1>13
<1> HIDE DEF kept
<1>16. CutTo(kept, es, u)
  BY <1>8, <1>13, <1>14, <1>15 DEF CutTo
<1> QED
  BY <1>11, <1>16 DEF kept

\* The parent of a forked message is the copy of an older one, if it has any.
LEMMA ParentIsOlder ==
    ASSUME NEW kept \in Seq(EntryType), NEW e \in EntryType, e.parent < e.uuid,
           \A i \in DOMAIN kept : kept[i].parent < kept[i].uuid
    PROVE  \/ WrittenParent(kept, e) = None
           \/ \E x \in Nat : x < e.uuid /\ WrittenParent(kept, e) = Fresh(x)
<1> DEFINE i == ByUuid(kept, e.parent)
           p == Walk(kept, i)
           walk == EntriesAt(kept, p)
           written == {k \in DOMAIN walk : walk[k].type # "progress"}
<1>1. CASE e.parent = None \/ i = None
  BY <1>1 DEF WrittenParent
<1>2. CASE e.parent # None /\ i # None /\ written = {}
  BY <1>2 DEF WrittenParent
<1>3. CASE e.parent # None /\ i # None /\ written # {}
  <2>1. i \in DOMAIN kept /\ kept[i].uuid = e.parent
    BY <1>3, ByUuidIs
  <2>2. \A k \in DOMAIN p : p[k] \in DOMAIN kept /\ kept[p[k]].uuid <= kept[i].uuid
    BY <2>1, WalkGoesBack
  <2>3. DOMAIN p = 1..Len(p) /\ Len(p) \in Nat
    <3>1. p \in Seq(DOMAIN kept)
      BY <2>1, WalkIs DEF Paths
    <3> QED
      BY <3>1, LenProperties
  <2> HIDE DEF p
  <2>4. DOMAIN walk = DOMAIN p /\ \A k \in DOMAIN p : walk[k] = kept[p[k]]
    BY DEF EntriesAt
  <2> DEFINE j == Min(written)
  <2>5. j \in DOMAIN p
    <3>1. written \subseteq Nat
      BY <2>3, <2>4
    <3>2. written \subseteq DOMAIN p
      BY <2>4
    <3> HIDE DEF written
    <3> QED
      BY <1>3, <3>1, <3>2, MinIs
  <2>6. WrittenParent(kept, e) = Fresh(walk[j].uuid)
    BY <1>3 DEF WrittenParent, p
  <2> HIDE DEF j
  <2>7. walk[j].uuid \in Nat /\ walk[j].uuid <= e.parent
    <3>1. kept[p[j]] \in EntryType
      BY <2>2, <2>5, LenProperties, ElementOfSeq
    <3> QED
      BY <2>1, <2>2, <2>4, <2>5, <3>1 DEF EntryType
  <2>8. e.parent \in Nat /\ e.uuid \in Nat
    BY DEF EntryType
  <2> HIDE DEF walk
  <2> QED
    BY <2>6, <2>7, <2>8
<1> QED
  BY <1>1, <1>2, <1>3

\* A transcript whose last entry nobody names as its parent.
EndsWith(es, v) ==
    /\ es \in Seq(EntryType) /\ Len(es) \in Nat \ {0} /\ DOMAIN es = 1..Len(es)
    /\ es[Len(es)].uuid = v /\ IsVisible(es[Len(es)])
    /\ \A k \in DOMAIN es : (k # Len(es) => es[k].uuid # v) /\ es[k].parent # v

\* Its conversation ends there.
LEMMA EndIsLeaf ==
    ASSUME NEW es, NEW v, EndsWith(es, v)
    PROVE  Leaf(es) = Len(es)
<1> DEFINE n == Len(es)
           C == Leaves(es)
           M == {i \in C : OnMainChain(es[i])}
<1>1. /\ es \in Seq(EntryType) /\ n \in Nat \ {0} /\ DOMAIN es = 1..n /\ n \in 1..n
      /\ es[n].uuid = v /\ Talks(es[n]) /\ OnMainChain(es[n])
      /\ \A k \in 1..n : (k # n => es[k].uuid # v) /\ es[k].parent # v
  <2>1. /\ es \in Seq(EntryType) /\ n \in Nat \ {0} /\ DOMAIN es = 1..n
        /\ es[n].uuid = v /\ IsVisible(es[n])
        /\ \A k \in DOMAIN es : (k # n => es[k].uuid # v) /\ es[k].parent # v
    BY DEF EndsWith
  <2> HIDE DEF n
  <2>2. n \in 1..n
    BY <2>1
  <2> QED
    BY <2>1, <2>2 DEF IsVisible
<1> HIDE DEF n
<1>2. n \in C
  <2> DEFINE talking(w) == {k \in DOMAIN w : Talks(es[w[k]])}
             leaf(t) == IF talking(Walk(es, t)) = {} THEN None
                        ELSE Walk(es, t)[Min(talking(Walk(es, t)))]
             w == Walk(es, n)
  <2>1. w \in Seq(DOMAIN es) /\ Len(w) > 0 /\ w[1] = n
    BY <1>1, WalkIs DEF Paths
  <2>2. DOMAIN w = 1..Len(w) /\ Len(w) \in Nat /\ 1 \in DOMAIN w
    BY <2>1, LenProperties
  <2>3. 1 \in talking(w) /\ talking(w) \subseteq Nat /\ \A k \in talking(w) : 1 <= k
    <3>1. talking(w) \subseteq DOMAIN w /\ (Talks(es[w[1]]) => 1 \in talking(w))
      BY <2>2
    <3> HIDE DEF talking, w
    <3> QED
      BY <1>1, <2>1, <2>2, <3>1
  <2>4. Min(talking(w)) = 1
    <3> HIDE DEF talking, w
    <3>1. Min(talking(w)) \in talking(w) /\ Min(talking(w)) <= 1
      BY <2>3, MinIs
    <3>2. Min(talking(w)) \in Nat /\ 1 <= Min(talking(w))
      BY <2>3, <3>1
    <3> QED
      BY <3>1, <3>2
  <2>5. leaf(n) = n
    <3>1. talking(w) # {}
      BY <2>3
    <3> QED
      BY <2>1, <2>4, <3>1
  <2>6. n \in Terminals(es)
    BY <1>1 DEF Terminals
  <2>7. C = {leaf(t) : t \in Terminals(es)} \ {None}
    BY DEF Leaves
  <2>8. n # None
    BY <1>1 DEF None
  <2> HIDE DEF leaf, C
  <2> QED
    BY <2>5, <2>6, <2>7, <2>8
<1>3. n \in M /\ C # {} /\ M # {} /\ M \subseteq DOMAIN es
  <2>1. C \subseteq DOMAIN es
    BY <1>1, LeavesAre
  <2> HIDE DEF C
  <2> QED
    BY <1>1, <1>2, <2>1
<1>4. Leaf(es) = PickBest(es, M)
  BY <1>3 DEF Leaf, PickMain
<1> HIDE DEF M, C
<1> DEFINE place(i) == ByUuid(es, es[i].uuid)
<1>5. \A i \in M : place(i) \in Nat /\ place(i) <= n /\ (place(i) = n => i = n)
  <2> SUFFICES ASSUME NEW i \in M
               PROVE  place(i) \in Nat /\ place(i) <= n /\ (place(i) = n => i = n)
    OBVIOUS
  <2>1. i \in DOMAIN es /\ es[i].uuid = es[i].uuid
    BY <1>3
  <2>2. place(i) \in DOMAIN es /\ es[place(i)].uuid = es[i].uuid
    BY <1>1, <2>1, ByUuidIs
  <2> HIDE DEF place
  <2> QED
    BY <1>1, <2>1, <2>2
<1>6. place(n) = n
  <2>1. place(n) \in Nat /\ n <= place(n)
    BY <1>1, ByUuidIs
  <2> HIDE DEF place
  <2> QED
    BY <1>1, <1>3, <1>5, <2>1
<1>7. PickBest(es, M) = CHOOSE i \in M : \A j \in M : place(j) <= place(i)
  BY DEF PickBest
<1> HIDE DEF place
<1>8. \E i \in M : \A j \in M : place(j) <= place(i)
  BY <1>3, <1>5, <1>6
<1>9. PickBest(es, M) \in M /\ \A j \in M : place(j) <= place(PickBest(es, M))
  BY <1>7, <1>8
<1>10. place(PickBest(es, M)) = n
  <2>1. n <= place(PickBest(es, M))
    BY <1>3, <1>6, <1>9
  <2>2. place(PickBest(es, M)) \in Nat /\ place(PickBest(es, M)) <= n
    BY <1>5, <1>9
  <2> QED
    BY <1>1, <2>1, <2>2
<1> QED
  BY <1>4, <1>5, <1>9, <1>10 DEF n

\* Without the progress entries it is still such a transcript, if it ends with a message.
LEMMA WrittenIs ==
    ASSUME NEW kept, NEW es, NEW u, CutTo(kept, es, u), Talks(es[u])
    PROVE  CutTo(Those(kept, {i \in DOMAIN kept : kept[i].type # "progress"}), es, u)
<1> DEFINE T == {i \in DOMAIN kept : kept[i].type # "progress"}
           W == Those(kept, T)
           n == Len(kept)
<1>1. /\ kept \in Seq(EntryType) /\ n \in Nat \ {0} /\ DOMAIN kept = 1..n
      /\ kept[n] = es[u] /\ es[u].uuid = u /\ es[u].writer = "main"
      /\ \A i \in DOMAIN kept : /\ kept[i].uuid \in Nat /\ kept[i].parent \in Nat
                                /\ kept[i].parent < kept[i].uuid /\ (i # n => kept[i].uuid < u)
  BY DEF CutTo
<1> HIDE DEF n
<1>2. T \subseteq DOMAIN kept /\ n \in T
  <2>1. kept[n].type # "progress" /\ n \in DOMAIN kept
    BY <1>1 DEF Talks
  <2> QED
    BY <2>1
<1> HIDE DEF T
<1>3. PICK o : ThoseAre(W, kept, T, o)
  BY <1>1, <1>2, ThoseIs
<1> DEFINE m == Len(o)
<1>4. /\ W \in Seq(EntryType) /\ m \in Nat /\ DOMAIN W = 1..m /\ Len(W) = m
      /\ \A k \in 1..m : o[k] \in T /\ W[k] = kept[o[k]]
      /\ \A x \in T : \E k \in 1..m : o[k] = x
      /\ \A j, k \in 1..m : j < k => o[j] < o[k]
  BY <1>3 DEF ThoseAre
<1> HIDE DEF m, W
<1>5. PICK l \in 1..m : o[l] = n
  BY <1>2, <1>4
<1>6. \A k \in 1..m : o[k] \in 1..n
  BY <1>1, <1>2, <1>4
<1>7. l = m /\ m \in Nat \ {0} /\ m \in 1..m
  <2>1. m \in 1..m
    BY <1>4
  <2>2. l < m => o[l] < o[m]
    BY <1>4, <2>1
  <2> QED
    BY <1>1, <1>4, <1>5, <1>6, <2>1, <2>2
<1>8. ASSUME NEW k \in 1..m
      PROVE  /\ W[k].uuid \in Nat /\ W[k].parent \in Nat /\ W[k].parent < W[k].uuid
             /\ (k # m => W[k].uuid < u)
  <2>1. W[k] = kept[o[k]] /\ o[k] \in DOMAIN kept
    BY <1>1, <1>4, <1>6
  <2>2. k # m => o[k] # n
    <3>1. k # m => k < m
      BY <1>4
    <3>2. k # m => o[k] < o[m]
      BY <1>4, <1>7, <3>1
    <3> QED
      BY <1>1, <1>5, <1>7, <3>2
  <2> QED
    BY <1>1, <2>1, <2>2
<1>9. W[m] = es[u]
  BY <1>1, <1>4, <1>5, <1>7
<1>10. CutTo(W, es, u)
  BY <1>1, <1>4, <1>7, <1>8, <1>9 DEF CutTo
<1> QED
  BY <1>10 DEF W, T

\* What a fork keeps of an entry.
CopyOf(c, e, a, b) ==
    /\ c \in EntryType /\ c.uuid = a /\ c.parent = b /\ c.type = e.type
    /\ c.writer = e.writer /\ c.meta = e.meta /\ c.team = FALSE

LEMMA Copied ==
    ASSUME NEW e \in EntryType, NEW a \in Nat, NEW b \in Nat, NEW t \in Nat, NEW c,
           c = [e EXCEPT !.uuid = a, !.parent = b, !.source = None, !.team = FALSE, !.ts = t]
    PROVE  CopyOf(c, e, a, b)
BY DEF EntryType, None, CopyOf

\* A fork cut at a message ends with its copy, which nobody names as its parent.
LEMMA ForkIs ==
    ASSUME NEW es \in Seq(EntryType), Dated(es), NEW u \in Uuids(Forkable(es)), IsVisible(es[u])
    PROVE  EndsWith(Fork(es, u), Fresh(u))
<1> DEFINE kept == CutAt(Forkable(es), u)
           W == Those(kept, {i \in DOMAIN kept : kept[i].type # "progress"})
           f == [k \in DOMAIN W |-> Forked(kept, W, k)]
           L == Len(W)
<1>1. u \in Nat \ {0} /\ CutTo(kept, es, u)
  BY CutIs
<1>2. Talks(es[u]) /\ OnMainChain(es[u])
  BY DEF IsVisible
<1>3. Fork(es, u) = f
  BY DEF Fork
<1> HIDE DEF kept
<1>4. CutTo(W, es, u)
  BY <1>1, <1>2, WrittenIs
<1> HIDE DEF W
<1>5. kept \in Seq(EntryType) /\ \A i \in DOMAIN kept : kept[i].parent < kept[i].uuid
  BY <1>1 DEF CutTo
<1>6. /\ W \in Seq(EntryType) /\ L \in Nat \ {0} /\ DOMAIN W = 1..L /\ W[L] = es[u]
      /\ es[u].uuid = u
      /\ \A i \in 1..L : /\ W[i].uuid \in Nat /\ W[i].parent < W[i].uuid
                         /\ (i # L => W[i].uuid < u)
  BY <1>4 DEF CutTo
<1> HIDE DEF L
<1>7. MaxEntries \in Nat
  BY ChainAssumption
<1>8. ASSUME NEW k \in 1..L
      PROVE  /\ f[k] \in EntryType /\ f[k].uuid = Fresh(W[k].uuid) /\ f[k].parent # Fresh(u)
             /\ f[k].type = W[k].type /\ f[k].writer = W[k].writer /\ f[k].meta = W[k].meta
             /\ f[k].team = FALSE
  <2> DEFINE e == W[k]
             a == Fresh(e.uuid)
             b == WrittenParent(kept, e)
             t == IF k = L THEN Fresh(MaxEntries) ELSE e.ts
  <2>1. e \in EntryType /\ e.uuid \in Nat /\ e.uuid <= u
    <3>1. e \in EntryType
      BY <1>6, ElementOfSeq
    <3> QED
      BY <1>1, <1>6, <3>1
  <2>2. b = None \/ \E x \in Nat : x < e.uuid /\ b = Fresh(x)
    BY <1>5, <1>6, <2>1, ParentIsOlder
  <2>3. f[k] = [e EXCEPT !.uuid = a, !.parent = b, !.source = None, !.team = FALSE, !.ts = t]
    BY <1>6 DEF Forked, L
  <2>4. a \in Nat /\ t \in Nat
    <3>1. e.ts \in Nat
      BY <2>1 DEF EntryType
    <3> HIDE DEF e
    <3> QED
      BY <1>7, <2>1, <3>1 DEF Fresh
  <2> HIDE DEF e, f, a, b, t
  <2>5. b \in Nat /\ b # Fresh(u)
    BY <1>1, <1>7, <2>1, <2>2 DEF Fresh, None
  <2>6. /\ f[k] \in EntryType /\ f[k].uuid = a /\ f[k].parent = b /\ f[k].type = e.type
        /\ f[k].writer = e.writer /\ f[k].meta = e.meta /\ f[k].team = FALSE
    <3>1. CopyOf(f[k], e, a, b)
      BY <2>1, <2>3, <2>4, <2>5, Copied
    <3> QED
      BY <3>1 DEF CopyOf
  <2> QED
    BY <2>5, <2>6 DEF a, e
<1>9. f \in Seq(EntryType) /\ Len(f) = L /\ DOMAIN f = 1..L
  <2>1. f \in [1..L -> EntryType]
    BY <1>6, <1>8
  <2> HIDE DEF f
  <2> QED
    BY <1>6, <2>1
<1> HIDE DEF f
<1>10. \A k \in 1..L : (k # L => f[k].uuid # Fresh(u)) /\ f[k].parent # Fresh(u)
  <2> SUFFICES ASSUME NEW k \in 1..L, k # L PROVE f[k].uuid # Fresh(u)
    BY <1>8
  <2>1. W[k].uuid \in Nat /\ W[k].uuid < u /\ f[k].uuid = Fresh(W[k].uuid)
    BY <1>6, <1>8
  <2> QED
    BY <1>1, <1>7, <2>1 DEF Fresh
<1>11. f[L].uuid = Fresh(u) /\ IsVisible(f[L])
  <2>1. L \in 1..L
    BY <1>6
  <2> QED
    BY <1>2, <1>6, <1>8, <2>1 DEF IsVisible, Talks, OnMainChain
<1>12. EndsWith(f, Fresh(u))
  BY <1>6, <1>9, <1>10, <1>11 DEF EndsWith
<1> QED
  BY <1>3, <1>12

\* ForkEndsAtMessage: a fork cut at a message of the main chain goes on from the copy of that
\* message, whichever branch its source went on with (fork_session, up_to_message_id).
THEOREM ForkEnds == Spec => []ForkEndsAtMessage
<1>1. TranscriptInv => ForkEndsAtMessage
  <2> SUFFICES ASSUME TranscriptInv, NEW u \in Uuids(Forkable(entries)),
                      IsVisible(entries[ByUuid(entries, u)])
               PROVE  LET walk == Origins(MainWalk(Fork(entries, u)))
                      IN  walk # <<>> /\ Last(walk) = u
    BY DEF ForkEndsAtMessage
  <2> DEFINE f == Fork(entries, u)
             w == MainWalk(f)
             L == Len(f)
  <2>1. entries \in Seq(EntryType) /\ Dated(entries)
    BY DEF TranscriptInv
  <2>2. u \in DOMAIN entries /\ u \in Nat /\ entries[u].uuid = u
    BY <2>1, CutIs DEF CutTo
  <2>3. entries[ByUuid(entries, u)] = entries[u]
    <3>1. /\ ByUuid(entries, u) \in DOMAIN entries
          /\ entries[ByUuid(entries, u)].uuid = u
      BY <2>1, <2>2, ByUuidIs
    <3> QED
      BY <2>1, <3>1 DEF Dated
  <2>4. EndsWith(f, Fresh(u))
    BY <2>1, <2>3, ForkIs
  <2> HIDE DEF f
  <2>5. /\ f \in Seq(EntryType) /\ L \in DOMAIN f /\ f[L].uuid = Fresh(u) /\ Leaf(f) = L
    BY <2>4, EndIsLeaf DEF EndsWith
  <2>6. w \in Seq(ToSet(f)) /\ Len(w) > 0 /\ Last(w) = f[L]
    BY <2>5, WalkToIs DEF MainWalk, Chain
  <2> HIDE DEF w, L
  <2>7. DOMAIN w = 1..Len(w) /\ Len(w) \in Nat /\ Len(w) \in DOMAIN w /\ w[Len(w)] = f[L]
    <3>1. DOMAIN w = 1..Len(w) /\ Len(w) \in Nat
      BY <2>6, LenProperties
    <3> QED
      BY <2>6, <3>1 DEF Last
  <2> DEFINE n == Len(w)
             walk == [k \in DOMAIN w |-> w[k].uuid - MaxEntries]
  <2>8. walk[n] = u
    <3>1. MaxEntries \in Nat
      BY ChainAssumption
    <3>2. (MaxEntries + u) - MaxEntries = u
      BY <2>2, <3>1
    <3> QED
      BY <2>5, <2>7, <3>2 DEF Fresh
  <2>9. DOMAIN walk = 1..n /\ n \in Nat /\ n # 0
    BY <2>6, <2>7
  <2>10. Len(walk) = n /\ walk # <<>>
    <3> HIDE DEF n
    <3> QED
      BY <2>9
  <2>11. Origins(w) = walk
    BY DEF Origins
  <2> HIDE DEF walk, n
  <2>12. Last(walk) = u
    BY <2>8, <2>10 DEF Last
  <2> QED
    BY <2>10, <2>11, <2>12 DEF w, f
<1> QED
  BY <1>1, InOrderAlways, PTL

=============================================================================
