--------------------------- MODULE StoreCallsProofs ---------------------------
(***************************************************************************)
(* Theorems about StoreCalls, for every set of keys, batches, adapters and *)
(* files, and every number of writes, reads and failures: the contracts of *)
(* the store in every state, its summaries, which show what a parse of the *)
(* transcripts shows, and what a resume and a listing get out of it while  *)
(* others write.                                                           *)
(***************************************************************************)
EXTENDS StoreCalls, SequenceTheorems, FiniteSetTheorems, WellFoundedInduction, TLAPS

-----------------------------------------------------------------------------
(* Data: induction by the least number that fails, orders and folds *)

LEMMA Least ==
    ASSUME NEW T, T \subseteq Nat, T # {}
    PROVE  \E n \in T : \A m \in T : n <= m
<1>1. PICK n \in T : \A m \in T : ~(<<m, n>> \in OpToRel(<, Nat))
  BY WFMin, NatLessThanWellFounded, Zenon
<1>2. \A m \in T : ~(m < n)
  <2> SUFFICES ASSUME NEW m \in T, m < n PROVE <<m, n>> \in OpToRel(<, Nat)
    BY <1>1
  <2>1. m \in Nat /\ n \in Nat
    OBVIOUS
  <2> QED
    BY <2>1 DEF OpToRel
<1> QED
  BY <1>2

\* A relation that is a strict total order on a set.
Orders(R, S) ==
    /\ \A x \in S : <<x, x>> \notin R
    /\ \A x, y, z \in S : <<x, y>> \in R /\ <<y, z>> \in R => <<x, z>> \in R
    /\ \A x, y \in S : x = y \/ <<x, y>> \in R \/ <<y, x>> \in R

\* InOrder lists a finite set, each member once, and in order.
LEMMA InOrderLists ==
    ASSUME NEW S, IsFiniteSet(S), NEW R, Orders(R, S)
    PROVE  /\ Cardinality(S) \in Nat
           /\ InOrder(S, R) \in [1..Cardinality(S) -> S]
           /\ \A x \in S : \E i \in 1..Cardinality(S) : InOrder(S, R)[i] = x
           /\ \A i, j \in 1..Cardinality(S) :
                i < j => <<InOrder(S, R)[i], InOrder(S, R)[j]>> \in R
<1> DEFINE n == Cardinality(S)
           below(x) == {y \in S : <<y, x>> \in R}
           rank == [x \in S |-> Cardinality(below(x))]
           o == InOrder(S, R)
<1>1. n \in Nat
  BY FS_CardinalityType
<1>2. ASSUME NEW x \in S PROVE IsFiniteSet(below(x)) /\ rank[x] \in 0..n - 1 /\ rank[x] \in Nat
  <2>1. below(x) \in SUBSET S /\ x \notin below(x)
    BY DEF Orders
  <2>2. /\ IsFiniteSet(below(x)) /\ Cardinality(below(x)) <= n
        /\ n = Cardinality(below(x)) => S = below(x)
    BY <2>1, FS_Subset
  <2>3. Cardinality(below(x)) \in Nat
    BY <2>2, FS_CardinalityType
  <2> QED
    BY <1>1, <2>1, <2>2, <2>3
<1>3. ASSUME NEW x \in S, NEW z \in S, <<x, z>> \in R PROVE rank[x] < rank[z]
  <2>1. below(x) \in SUBSET below(z) /\ x \in below(z) /\ x \notin below(x)
    BY <1>3 DEF Orders
  <2>2. /\ Cardinality(below(x)) <= Cardinality(below(z))
        /\ Cardinality(below(z)) = Cardinality(below(x)) => below(z) = below(x)
    BY <1>2, <2>1, FS_Subset
  <2>3. rank[x] \in Nat /\ rank[z] \in Nat
    BY <1>1, <1>2
  <2> QED
    BY <2>1, <2>2, <2>3
<1>a. /\ rank \in [S -> 0..n - 1]
      /\ \A x \in S : rank[x] = Cardinality(below(x)) /\ rank[x] \in Nat
  BY <1>2
<1> HIDE DEF rank
<1>4. \A x, z \in S : rank[x] = rank[z] => x = z
  <2> SUFFICES ASSUME NEW x \in S, NEW z \in S, rank[x] = rank[z], x # z PROVE FALSE
    OBVIOUS
  <2>1. rank[x] \in Nat /\ rank[z] \in Nat
    BY <1>a
  <2>2. <<x, z>> \in R \/ <<z, x>> \in R
    BY DEF Orders
  <2> QED
    BY <1>3, <2>1, <2>2
<1>5. \A i \in 0..n - 1 : \E x \in S : rank[x] = i
  <2>1. rank \in Injection(S, 0..n - 1)
    BY <1>a, <1>4 DEF Injection, IsInjective
  <2>2. IsFiniteSet(0..n - 1) /\ Cardinality(0..n - 1) = n
    BY <1>1, FS_Interval
  <2>3. rank \in Surjection(S, 0..n - 1)
    BY <2>1, <2>2, FS_Injection
  <2> QED
    BY <2>3 DEF Surjection
<1>6. \A i \in 1..n : o[i] \in S /\ rank[o[i]] = i - 1
  <2> SUFFICES ASSUME NEW i \in 1..n PROVE o[i] \in S /\ rank[o[i]] = i - 1
    OBVIOUS
  <2>1. o[i] = CHOOSE x \in S : Cardinality(below(x)) = i - 1
    BY DEF InOrder
  <2>2. \E x \in S : Cardinality(below(x)) = i - 1
    <3>1. i - 1 \in 0..n - 1
      BY <1>1
    <3> QED
      BY <1>a, <1>5, <3>1
  <2>3. o[i] \in S /\ Cardinality(below(o[i])) = i - 1
    BY <2>1, <2>2
  <2> QED
    BY <1>a, <2>3
<1>7. o \in [1..n -> S]
  BY <1>6 DEF InOrder
<1> HIDE DEF o, n
<1>8. \A x \in S : \E i \in 1..n : o[i] = x
  <2> SUFFICES ASSUME NEW x \in S PROVE \E i \in 1..n : o[i] = x
    OBVIOUS
  <2>0. rank[x] \in 0..n - 1
    BY <1>a
  <2>1. rank[x] \in Nat /\ rank[x] + 1 \in 1..n
    BY <1>1, <2>0
  <2>2. o[rank[x] + 1] \in S /\ rank[o[rank[x] + 1]] = rank[x]
    BY <2>1, <1>6
  <2> QED
    BY <2>1, <2>2, <1>4
<1>9. \A i, j \in 1..n : i < j => <<o[i], o[j]>> \in R
  <2> SUFFICES ASSUME NEW i \in 1..n, NEW j \in 1..n, i < j PROVE <<o[i], o[j]>> \in R
    OBVIOUS
  <2>1. /\ o[i] \in S /\ o[j] \in S /\ rank[o[i]] = i - 1 /\ rank[o[j]] = j - 1
    BY <1>6
  <2>2. i \in Nat /\ j \in Nat
    BY <1>1
  <2>3. ~(<<o[j], o[i]>> \in R) /\ o[i] # o[j]
    BY <1>3, <2>1, <2>2
  <2> QED
    BY <2>1, <2>3 DEF Orders
<1> QED
  BY <1>1, <1>7, <1>8, <1>9 DEF n, o

-----------------------------------------------------------------------------
(* The fold *)

\* The data of a summary after each entry.
IsFold(f, d, es, n) ==
    f = [i \in 0..n |-> IF i = 0 THEN d ELSE FoldEntry(f[i - 1], es[i])]
Fold(d, es) == FoldSummary([mtime |-> 0, data |-> d], es).data

LEMMA FoldExists == ASSUME NEW d, NEW es, NEW n \in Nat PROVE \E f : IsFold(f, d, es, n)
<1> DEFINE T == {m \in Nat : ~\E f : IsFold(f, d, es, m)}
<1>1. ASSUME T # {} PROVE FALSE
  <2>1. PICK m \in T : \A q \in T : m <= q
    BY <1>1, Least
  <2>2. CASE m = 0
    <3> DEFINE f == [i \in 0..0 |-> d]
    <3>1. f = [i \in 0..0 |-> IF i = 0 THEN d ELSE FoldEntry(f[i - 1], es[i])]
      OBVIOUS
    <3>2. IsFold(f, d, es, m)
      BY <2>2, <3>1 DEF IsFold
    <3> QED
      BY <3>2
  <2>3. CASE m # 0
    <3>1. m \in Nat /\ m - 1 \in Nat /\ m - 1 \notin T
      BY <2>1, <2>3
    <3>2. PICK g : IsFold(g, d, es, m - 1)
      BY <3>1
    <3> DEFINE f == [i \in 0..m |-> IF i = m THEN FoldEntry(g[m - 1], es[m]) ELSE g[i]]
    <3>3. ASSUME NEW i \in 0..m
          PROVE  f[i] = IF i = 0 THEN d ELSE FoldEntry(f[i - 1], es[i])
      <4>1. CASE i = m
        <5>1. f[i - 1] = g[m - 1] /\ f[i] = FoldEntry(g[m - 1], es[m])
          BY <3>1, <4>1, <2>3
        <5> QED
          BY <5>1, <4>1, <2>3
      <4>2. CASE i # m
        <5>1. i \in 0..m - 1 /\ f[i] = g[i]
          BY <4>2, <3>1
        <5>2. g[i] = IF i = 0 THEN d ELSE FoldEntry(g[i - 1], es[i])
          BY <5>1, <3>2 DEF IsFold
        <5>3. i # 0 => f[i - 1] = g[i - 1]
          BY <5>1, <3>1
        <5> QED
          BY <5>1, <5>2, <5>3
      <4> QED
        BY <4>1, <4>2
    <3>4. f = [i \in 0..m |-> f[i]]
      OBVIOUS
    <3> HIDE DEF f
    <3>5. IsFold(f, d, es, m)
      BY <3>3, <3>4 DEF IsFold
    <3> QED
      BY <3>5
  <2> QED
    BY <2>2, <2>3
<1> QED
  BY <1>1

\* What FoldSummary computes.
LEMMA FoldIs ==
    ASSUME NEW prev, NEW es, Len(es) \in Nat
    PROVE  \E f : /\ IsFold(f, prev.data, es, Len(es))
                  /\ FoldSummary(prev, es) = [mtime |-> prev.mtime, data |-> f[Len(es)]]
<1> DEFINE f == CHOOSE g : IsFold(g, prev.data, es, Len(es))
<1>1. IsFold(f, prev.data, es, Len(es))
  BY FoldExists
<1>2. FoldSummary(prev, es) = [mtime |-> prev.mtime, data |-> f[Len(es)]]
  BY Zenon DEF FoldSummary, IsFold
<1> QED
  BY <1>1, <1>2

\* Folding batch by batch is folding all at once.
LEMMA FoldJoined ==
    ASSUME NEW S, NEW a \in Seq(S), NEW b \in Seq(S), NEW d
    PROVE  Fold(Fold(d, a), b) = Fold(d, a \o b)
<1> DEFINE ab == a \o b
           m == Len(ab)
<1>1. /\ Len(a) \in Nat /\ Len(b) \in Nat
      /\ ab \in Seq(S) /\ m = Len(a) + Len(b) /\ m \in Nat
      /\ \A i \in 1..Len(a) : ab[i] = a[i]
      /\ \A i \in 1..Len(b) : ab[Len(a) + i] = b[i]
  BY ConcatProperties
<1> HIDE DEF ab
<1>2. ASSUME NEW x, NEW c \in Seq(S)
      PROVE  \E f : IsFold(f, x, c, Len(c)) /\ Fold(x, c) = f[Len(c)]
  <2> DEFINE prev == [mtime |-> 0, data |-> x]
  <2>0. Len(c) \in Nat
    OBVIOUS
  <2> HIDE DEF prev
  <2>1. PICK f : /\ IsFold(f, prev.data, c, Len(c))
                 /\ FoldSummary(prev, c) = [mtime |-> prev.mtime, data |-> f[Len(c)]]
    BY <2>0, FoldIs
  <2>2. prev.data = x /\ Fold(x, c) = FoldSummary(prev, c).data
    BY DEF prev, Fold
  <2> QED
    BY <2>1, <2>2
<1>3. PICK h : IsFold(h, d, ab, m) /\ Fold(d, ab) = h[m]
  BY <1>1, <1>2
<1> HIDE DEF m
<1>4. h[0] = d /\ \A i \in 1..m : h[i] = FoldEntry(h[i - 1], ab[i])
  <2>1. /\ 0 \in 0..m
        /\ \A i \in 1..m : i \in 0..m /\ i # 0
    BY <1>1
  <2> QED
    BY <1>3, <2>1 DEF IsFold
\* From k on, the fold of the whole is that of a part.
<1>5. ASSUME NEW k \in Nat, NEW c \in Seq(S), NEW f, IsFold(f, h[k], c, Len(c)),
             k + Len(c) <= m, \A i \in 1..Len(c) : ab[k + i] = c[i]
      PROVE  h[k + Len(c)] = f[Len(c)]
  <2> DEFINE T == {i \in Nat : i <= Len(c) /\ h[k + i] # f[i]}
  <2>0. Len(c) \in Nat
    OBVIOUS
  <2>1. ASSUME T # {} PROVE FALSE
    <3>1. PICK i \in T : \A j \in T : i <= j
      BY <2>1, Least
    <3>2. CASE i = 0
      <4>1. 0 \in 0..Len(c)
        BY <2>0
      <4>2. f[0] = h[k]
        BY <1>5, <4>1 DEF IsFold
      <4> QED
        BY <3>2, <4>2
    <3>3. CASE i # 0
      <4>1. i \in 1..Len(c) /\ i - 1 \in Nat /\ i - 1 \notin T /\ i \in 0..Len(c)
        BY <2>0, <3>1, <3>3
      <4>2. h[k + (i - 1)] = f[i - 1]
        BY <4>1
      <4>3. f[i] = FoldEntry(f[i - 1], c[i])
        BY <1>5, <3>3, <4>1 DEF IsFold
      <4>4. k + i \in 1..m /\ (k + i) - 1 = k + (i - 1)
        BY <1>1, <1>5, <2>0, <4>1
      <4>5. h[k + i] = FoldEntry(h[k + (i - 1)], c[i])
        BY <1>4, <1>5, <4>1, <4>4
      <4> QED
        BY <4>2, <4>3, <4>5
    <3> QED
      BY <3>2, <3>3
  <2>2. Len(c) \notin T
    BY <2>1
  <2> QED
    BY <2>0, <2>2
<1>6. PICK f : IsFold(f, d, a, Len(a)) /\ Fold(d, a) = f[Len(a)]
  BY <1>2
<1>7. h[Len(a)] = Fold(d, a)
  <2>1. /\ 0 + Len(a) <= m /\ 0 + Len(a) = Len(a)
        /\ \A i \in 1..Len(a) : ab[0 + i] = a[i]
    BY <1>1
  <2>2. IsFold(f, h[0], a, Len(a))
    BY <1>4, <1>6
  <2>3. h[0 + Len(a)] = f[Len(a)]
    BY <1>5, <2>1, <2>2
  <2> QED
    BY <1>6, <2>1, <2>3
<1>8. PICK g : IsFold(g, Fold(d, a), b, Len(b)) /\ Fold(Fold(d, a), b) = g[Len(b)]
  BY <1>2
<1>9. h[m] = g[Len(b)]
  <2>1. IsFold(g, h[Len(a)], b, Len(b))
    BY <1>7, <1>8
  <2>2. /\ Len(a) \in Nat /\ Len(a) + Len(b) <= m
        /\ \A i \in 1..Len(b) : ab[Len(a) + i] = b[i]
    BY <1>1
  <2> DEFINE k == Len(a)
  <2> HIDE DEF k
  <2>3. h[k + Len(b)] = g[Len(b)]
    BY <1>5, <2>1, <2>2 DEF k
  <2> QED
    BY <1>1, <2>3 DEF k
<1> QED
  BY <1>3, <1>8, <1>9 DEF ab

-----------------------------------------------------------------------------
(* One entry is folded *)

\* Two objects have the same under a key.
SameAt(d, c, k) == /\ k \in DOMAIN d <=> k \in DOMAIN c
                   /\ k \in DOMAIN d => c[k] = d[k]

\* What an update leaves and what it sets.
LEMMA PutHas ==
    ASSUME NEW d, NEW k, NEW v
    PROVE  /\ k \in DOMAIN Put(d, k, v) /\ Put(d, k, v)[k] = v
           /\ \A j : j # k => SameAt(d, Put(d, k, v), j)
BY DEF Put, SameAt

LEMMA PutOnceHas ==
    ASSUME NEW d, NEW k, NEW v
    PROVE  /\ k \in DOMAIN PutOnce(d, k, v)
           /\ PutOnce(d, k, v)[k] = IF k \in DOMAIN d THEN d[k] ELSE v
           /\ \A j : j # k => SameAt(d, PutOnce(d, k, v), j)
BY PutHas DEF PutOnce, SameAt

LEMMA SameThrough ==
    ASSUME NEW a, NEW b, NEW c, NEW k, SameAt(a, b, k), SameAt(b, c, k)
    PROVE  SameAt(a, c, k)
BY DEF SameAt

LEMMA SameReads ==
    ASSUME NEW a, NEW b, NEW k, SameAt(a, b, k)
    PROVE  Get(a, k) = Get(b, k) /\ (IsSet(a, k) <=> IsSet(b, k))
BY DEF SameAt, Get, IsSet

PromptKeys == {"first_prompt_locked", "first_prompt", "command_fallback"}
LastKeys == {"custom_title", "ai_title", "last_prompt", "summary_hint", "git_branch"}

\* Each last-wins field has a key of its own.
LEMMA LastKeysAre ==
    /\ \A f \in DOMAIN LastWins : LastWins[f] \in LastKeys
    /\ \A f, g \in DOMAIN LastWins : LastWins[f] = LastWins[g] => f = g
BY DEF LastWins, LastKeys

\* The first prompt.
LEMMA PromptFolds ==
    ASSUME NEW d, NEW e, NEW c, c = FoldFirstPrompt(d, e),
           NEW prompt, prompt = Says(Asked(e), "prompt"),
           NEW command, command = Says(Asked(e), "command")
    PROVE  /\ \A k : k \notin PromptKeys => SameAt(d, c, k)
           /\ IsSet(d, "first_prompt_locked") => c = d
           /\ ~IsSet(d, "first_prompt_locked") /\ prompt # Absent =>
                IsSet(c, "first_prompt_locked") /\ Get(c, "first_prompt") = prompt
           /\ ~IsSet(d, "first_prompt_locked") /\ prompt = Absent =>
                /\ ~IsSet(c, "first_prompt_locked")
                /\ IF command = Absent \/ "command_fallback" \in DOMAIN d
                     THEN SameAt(d, c, "command_fallback")
                     ELSE "command_fallback" \in DOMAIN c /\ c["command_fallback"] = command
<1> DEFINE d1 == IF command = Absent THEN d ELSE PutOnce(d, "command_fallback", command)
           d2 == Put(d1, "first_prompt", prompt)
           d3 == Put(d2, "first_prompt_locked", TRUE)
<1>1. c = IF IsSet(d, "first_prompt_locked") THEN d ELSE IF prompt = Absent THEN d1 ELSE d3
  BY DEF FoldFirstPrompt
<1>2. \A k : k # "command_fallback" => SameAt(d, d1, k)
  BY PutOnceHas DEF SameAt
<1>3. IF command = Absent \/ "command_fallback" \in DOMAIN d
        THEN SameAt(d, d1, "command_fallback")
        ELSE "command_fallback" \in DOMAIN d1 /\ d1["command_fallback"] = command
  BY PutOnceHas DEF SameAt
<1>4. /\ "first_prompt" \in DOMAIN d2 /\ d2["first_prompt"] = prompt
      /\ \A k : k # "first_prompt" => SameAt(d1, d2, k)
  BY PutHas
<1>5. /\ "first_prompt_locked" \in DOMAIN d3 /\ d3["first_prompt_locked"] = TRUE
      /\ \A k : k # "first_prompt_locked" => SameAt(d2, d3, k)
  BY PutHas
<1> HIDE DEF d1, d2, d3
<1>6. \A k : k \notin PromptKeys => SameAt(d, d1, k) /\ SameAt(d, d3, k)
  BY <1>2, <1>4, <1>5, SameThrough DEF PromptKeys
<1>7. IsSet(d3, "first_prompt_locked") /\ Get(d3, "first_prompt") = prompt
  <2>1. "first_prompt" \in DOMAIN d3 /\ d3["first_prompt"] = prompt
    BY <1>4, <1>5 DEF SameAt
  <2> QED
    BY <2>1, <1>5 DEF IsSet, Get
<1>8. IsSet(d, "first_prompt_locked") <=> IsSet(d1, "first_prompt_locked")
  BY <1>2, SameReads
<1>9. \A k : SameAt(d, d, k)
  BY DEF SameAt
<1> QED
  BY <1>1, <1>3, <1>6, <1>7, <1>8, <1>9

\* What each field of a summary is once an entry was folded.
LEMMA EntryFolds ==
    ASSUME NEW d, NEW e, NEW c, c = FoldEntry(d, e),
           NEW prompt, prompt = Says(Asked(e), "prompt"),
           NEW command, command = Says(Asked(e), "command")
    PROVE  /\ \A f \in DOMAIN LastWins :
                Get(c, LastWins[f]) = IF Get(e, f) # Absent THEN Get(e, f) ELSE Get(d, LastWins[f])
           /\ IF NonEmpty(Get(e, "cwd")) = Absent \/ "cwd" \in DOMAIN d THEN SameAt(d, c, "cwd")
                ELSE "cwd" \in DOMAIN c /\ c["cwd"] = e["cwd"]
           /\ "is_sidechain" \in DOMAIN c
           /\ c["is_sidechain"] = IF "is_sidechain" \in DOMAIN d THEN d["is_sidechain"]
                                  ELSE IsSet(e, "isSidechain")
           /\ IF "timestamp" \in DOMAIN e /\ "created_at" \notin DOMAIN d
                THEN "created_at" \in DOMAIN c /\ c["created_at"] = e["timestamp"]
                ELSE SameAt(d, c, "created_at")
           /\ IF IsType(e, "tag") THEN Get(c, "tag") = NonEmpty(Get(e, "tag"))
                ELSE SameAt(d, c, "tag")
           /\ IsSet(d, "first_prompt_locked") => \A k \in PromptKeys : SameAt(d, c, k)
           /\ ~IsSet(d, "first_prompt_locked") /\ prompt # Absent =>
                IsSet(c, "first_prompt_locked") /\ Get(c, "first_prompt") = prompt
           /\ ~IsSet(d, "first_prompt_locked") /\ prompt = Absent =>
                /\ ~IsSet(c, "first_prompt_locked")
                /\ IF command = Absent \/ "command_fallback" \in DOMAIN d
                     THEN SameAt(d, c, "command_fallback")
                     ELSE "command_fallback" \in DOMAIN c /\ c["command_fallback"] = command
<1> DEFINE once == PutOnce(d, "is_sidechain", IsSet(e, "isSidechain"))
           dated == IF "timestamp" \in DOMAIN e THEN PutOnce(once, "created_at", e.timestamp)
                    ELSE once
           placed == IF NonEmpty(Get(e, "cwd")) = Absent THEN dated
                     ELSE PutOnce(dated, "cwd", e.cwd)
           prompted == FoldFirstPrompt(placed, e)
           there == {f \in DOMAIN LastWins : Get(e, f) # Absent}
           last == {LastWins[f] : f \in there}
           named == [k \in DOMAIN prompted \cup last |->
                       IF k \in last THEN e[CHOOSE f \in there : LastWins[f] = k] ELSE prompted[k]]
<1>1. c = FoldTag(named, e)
  BY DEF FoldEntry
<1>2. /\ "is_sidechain" \in DOMAIN once
      /\ once["is_sidechain"] = IF "is_sidechain" \in DOMAIN d THEN d["is_sidechain"]
                                ELSE IsSet(e, "isSidechain")
      /\ \A k : k # "is_sidechain" => SameAt(d, once, k)
  BY PutOnceHas
<1> HIDE DEF once
<1>3. /\ \A k : k # "created_at" => SameAt(once, dated, k)
      /\ IF "timestamp" \in DOMAIN e /\ "created_at" \notin DOMAIN once
           THEN "created_at" \in DOMAIN dated /\ dated["created_at"] = e["timestamp"]
           ELSE SameAt(once, dated, "created_at")
  BY PutOnceHas DEF SameAt
<1> HIDE DEF dated
<1>4. /\ \A k : k # "cwd" => SameAt(dated, placed, k)
      /\ IF NonEmpty(Get(e, "cwd")) = Absent \/ "cwd" \in DOMAIN dated
           THEN SameAt(dated, placed, "cwd")
           ELSE "cwd" \in DOMAIN placed /\ placed["cwd"] = e["cwd"]
  BY PutOnceHas DEF SameAt
<1> HIDE DEF placed
<1>5. /\ \A k : k \notin PromptKeys => SameAt(placed, prompted, k)
      /\ IsSet(placed, "first_prompt_locked") => prompted = placed
      /\ ~IsSet(placed, "first_prompt_locked") /\ prompt # Absent =>
           IsSet(prompted, "first_prompt_locked") /\ Get(prompted, "first_prompt") = prompt
      /\ ~IsSet(placed, "first_prompt_locked") /\ prompt = Absent =>
           /\ ~IsSet(prompted, "first_prompt_locked")
           /\ IF command = Absent \/ "command_fallback" \in DOMAIN placed
                THEN SameAt(placed, prompted, "command_fallback")
                ELSE /\ "command_fallback" \in DOMAIN prompted
                     /\ prompted["command_fallback"] = command
  BY PromptFolds
<1> HIDE DEF prompted
<1>6. \A k : k \notin LastKeys => SameAt(prompted, named, k)
  BY LastKeysAre DEF SameAt
<1>7. ASSUME NEW f \in DOMAIN LastWins
      PROVE  Get(named, LastWins[f]) =
               IF Get(e, f) # Absent THEN Get(e, f) ELSE Get(prompted, LastWins[f])
  <2>1. CASE f \in there
    <3>1. LastWins[f] \in last /\ (CHOOSE g \in there : LastWins[g] = LastWins[f]) = f
      BY <2>1, LastKeysAre
    <3>2. Get(e, f) = e[f]
      BY <2>1 DEF Get
    <3> QED
      BY <2>1, <3>1, <3>2 DEF Get
  <2>2. CASE f \notin there
    <3>1. LastWins[f] \notin last
      BY <2>2, LastKeysAre
    <3> QED
      BY <2>2, <3>1 DEF Get
  <2> QED
    BY <2>1, <2>2
<1> HIDE DEF named, there, last
<1>8. /\ \A k : k # "tag" => SameAt(named, c, k)
      /\ IF IsType(e, "tag") THEN Get(c, "tag") = NonEmpty(Get(e, "tag"))
           ELSE SameAt(named, c, "tag")
  <2>1. CASE ~IsType(e, "tag")
    BY <1>1, <2>1 DEF FoldTag, SameAt
  <2>2. CASE IsType(e, "tag") /\ NonEmpty(Get(e, "tag")) = Absent
    <3>1. c = Without(named, "tag")
      BY <1>1, <2>2 DEF FoldTag
    <3> QED
      BY <2>2, <3>1 DEF Without, SameAt, Get
  <2>3. CASE IsType(e, "tag") /\ NonEmpty(Get(e, "tag")) # Absent
    <3>1. c = Put(named, "tag", e.tag)
      BY <1>1, <2>3 DEF FoldTag
    <3>2. NonEmpty(Get(e, "tag")) = e.tag
      BY <2>3 DEF NonEmpty, Get
    <3> QED
      BY <2>3, <3>1, <3>2, PutHas DEF Get
  <2> QED
    BY <2>1, <2>2, <2>3
\* Each step changes keys of its own.
<1>9. \A k : /\ k \notin {"is_sidechain", "created_at", "cwd"} => SameAt(d, placed, k)
             /\ k \notin PromptKeys \cup {"is_sidechain", "created_at", "cwd"} =>
                  SameAt(d, prompted, k)
             /\ k \notin PromptKeys \cup {"cwd"} => SameAt(dated, prompted, k)
             /\ k \notin LastKeys \cup {"tag"} => SameAt(prompted, c, k)
  <2>1. \A k : k \notin {"is_sidechain", "created_at"} => SameAt(d, dated, k)
    BY <1>2, <1>3, SameThrough
  <2>2. \A k : k \notin {"is_sidechain", "created_at", "cwd"} => SameAt(d, placed, k)
    BY <2>1, <1>4, SameThrough
  <2>3. \A k : k \notin PromptKeys \cup {"is_sidechain", "created_at", "cwd"} =>
          SameAt(d, prompted, k)
    BY <2>2, <1>5, SameThrough
  <2>4. \A k : k \notin PromptKeys \cup {"cwd"} => SameAt(dated, prompted, k)
    BY <1>4, <1>5, SameThrough
  <2>5. \A k : k \notin LastKeys \cup {"tag"} => SameAt(prompted, c, k)
    BY <1>6, <1>8, SameThrough
  <2> QED
    BY <2>2, <2>3, <2>4, <2>5
<1>10. \A f \in DOMAIN LastWins :
         Get(c, LastWins[f]) = IF Get(e, f) # Absent THEN Get(e, f) ELSE Get(d, LastWins[f])
  <2> SUFFICES ASSUME NEW f \in DOMAIN LastWins
               PROVE  Get(c, LastWins[f]) =
                        IF Get(e, f) # Absent THEN Get(e, f) ELSE Get(d, LastWins[f])
    OBVIOUS
  <2> DEFINE k == LastWins[f]
  <2>1. k \in LastKeys
    BY LastKeysAre
  <2> HIDE DEF k
  <2>2. SameAt(d, prompted, k) /\ SameAt(named, c, k)
    BY <2>1, <1>8, <1>9 DEF LastKeys, PromptKeys
  <2>3. Get(d, k) = Get(prompted, k) /\ Get(named, k) = Get(c, k)
    BY <2>2, SameReads
  <2> QED
    BY <2>3, <1>7 DEF k
<1>11. IF NonEmpty(Get(e, "cwd")) = Absent \/ "cwd" \in DOMAIN d THEN SameAt(d, c, "cwd")
         ELSE "cwd" \in DOMAIN c /\ c["cwd"] = e["cwd"]
  <2>1. SameAt(d, dated, "cwd") /\ SameAt(placed, c, "cwd")
    BY <1>2, <1>3, <1>5, <1>9, SameThrough DEF LastKeys, PromptKeys
  <2> QED
    BY <2>1, <1>4 DEF SameAt
<1>12. /\ "is_sidechain" \in DOMAIN c
       /\ c["is_sidechain"] = IF "is_sidechain" \in DOMAIN d THEN d["is_sidechain"]
                              ELSE IsSet(e, "isSidechain")
  <2>1. SameAt(once, c, "is_sidechain")
    BY <1>3, <1>9, SameThrough DEF LastKeys, PromptKeys
  <2> QED
    BY <2>1, <1>2 DEF SameAt
<1>13. IF "timestamp" \in DOMAIN e /\ "created_at" \notin DOMAIN d
         THEN "created_at" \in DOMAIN c /\ c["created_at"] = e["timestamp"]
         ELSE SameAt(d, c, "created_at")
  <2>1. SameAt(d, once, "created_at") /\ SameAt(dated, c, "created_at")
    BY <1>2, <1>9, SameThrough DEF LastKeys, PromptKeys
  <2> QED
    BY <2>1, <1>3 DEF SameAt
<1>14. IF IsType(e, "tag") THEN Get(c, "tag") = NonEmpty(Get(e, "tag")) ELSE SameAt(d, c, "tag")
  <2>1. SameAt(d, named, "tag")
    BY <1>6, <1>9, SameThrough DEF LastKeys, PromptKeys
  <2> QED
    BY <2>1, <1>8, SameThrough
<1>15. \A k \in PromptKeys : SameAt(d, placed, k) /\ SameAt(prompted, c, k)
  BY <1>9 DEF LastKeys, PromptKeys
<1>16. /\ IsSet(d, "first_prompt_locked") <=> IsSet(placed, "first_prompt_locked")
       /\ IsSet(prompted, "first_prompt_locked") <=> IsSet(c, "first_prompt_locked")
       /\ Get(prompted, "first_prompt") = Get(c, "first_prompt")
  BY <1>15, SameReads DEF PromptKeys
<1>17. /\ SameAt(d, placed, "command_fallback") /\ SameAt(prompted, c, "command_fallback")
  BY <1>15 DEF PromptKeys
<1>18. IsSet(d, "first_prompt_locked") => \A k \in PromptKeys : SameAt(d, c, k)
  BY <1>5, <1>15, <1>16, SameThrough
<1>19. ~IsSet(d, "first_prompt_locked") /\ prompt = Absent =>
         IF command = Absent \/ "command_fallback" \in DOMAIN d
           THEN SameAt(d, c, "command_fallback")
           ELSE "command_fallback" \in DOMAIN c /\ c["command_fallback"] = command
  BY <1>5, <1>16, <1>17 DEF SameAt
<1> QED
  BY <1>5, <1>10, <1>11, <1>12, <1>13, <1>14, <1>16, <1>18, <1>19

-----------------------------------------------------------------------------
(* The first and the last of the values that are there *)

\* x is the first, or the last, value of v up to n that is there, or Absent.
IsFirst(v, n, x) ==
    \/ x = Absent /\ \A j \in 1..n : v[j] = Absent
    \/ /\ x # Absent
       /\ \E j \in 1..n : v[j] = x /\ \A q \in 1..n : q < j => v[q] = Absent
IsLast(v, n, x) ==
    \/ x = Absent /\ \A j \in 1..n : v[j] = Absent
    \/ /\ x # Absent
       /\ \E j \in 1..n : v[j] = x /\ \A q \in 1..n : q > j => v[q] = Absent

\* There is one first and one last.
LEMMA OnlyOne ==
    ASSUME NEW v, NEW n \in Nat, NEW x, NEW y
    PROVE  /\ IsFirst(v, n, x) /\ IsFirst(v, n, y) => x = y
           /\ IsLast(v, n, x) /\ IsLast(v, n, y) => x = y
<1>1. \A i, j \in 1..n : i < j \/ i = j \/ i > j
  OBVIOUS
<1>2. IsFirst(v, n, x) /\ IsFirst(v, n, y) => x = y
  BY <1>1 DEF IsFirst
<1>3. IsLast(v, n, x) /\ IsLast(v, n, y) => x = y
  BY <1>1 DEF IsLast
<1> QED
  BY <1>2, <1>3

\* FirstPresent is the first.
LEMMA FirstPresentIs ==
    ASSUME NEW v, NEW n \in Nat, DOMAIN v = 1..n
    PROVE  IsFirst(v, n, FirstPresent(v))
<1> DEFINE there == {i \in DOMAIN v : v[i] # Absent}
           least == CHOOSE i \in there : \A j \in there : i <= j
<1>1. FirstPresent(v) = IF there = {} THEN Absent ELSE v[least]
  BY DEF FirstPresent
<1>2. CASE there = {}
  BY <1>1, <1>2 DEF IsFirst
<1>3. CASE there # {}
  <2>1. there \subseteq Nat
    OBVIOUS
  <2>2. \E i \in there : \A j \in there : i <= j
    BY <1>3, <2>1, Least
  <2>3. least \in there /\ \A j \in there : least <= j
    BY <2>2
  <2> HIDE DEF least
  <2>4. /\ least \in 1..n /\ v[least] # Absent
        /\ \A q \in 1..n : q < least => v[q] = Absent
    BY <2>3
  <2> QED
    BY <1>1, <1>3, <2>4 DEF IsFirst
<1> QED
  BY <1>2, <1>3

\* Backwards the first is the last.
LEMMA FirstReversed ==
    ASSUME NEW v, NEW w, NEW n \in Nat, \A i \in 1..n : w[i] = v[n - i + 1], NEW x,
           IsFirst(w, n, x)
    PROVE  IsLast(v, n, x)
<1>1. \A i \in 1..n : n - i + 1 \in 1..n /\ w[n - i + 1] = v[i]
  <2> SUFFICES ASSUME NEW i \in 1..n PROVE n - i + 1 \in 1..n /\ w[n - i + 1] = v[i]
    OBVIOUS
  <2>1. n - i + 1 \in 1..n /\ n - (n - i + 1) + 1 = i
    OBVIOUS
  <2> QED
    BY <2>1
<1>2. CASE x = Absent /\ \A j \in 1..n : w[j] = Absent
  BY <1>1, <1>2 DEF IsLast
<1>3. ASSUME x # Absent, NEW j \in 1..n, w[j] = x, \A q \in 1..n : q < j => w[q] = Absent
      PROVE  IsLast(v, n, x)
  <2>1. n - j + 1 \in 1..n /\ v[n - j + 1] = x
    BY <1>3
  <2>2. ASSUME NEW q \in 1..n, q > n - j + 1 PROVE v[q] = Absent
    <3>1. n - q + 1 \in 1..n /\ n - q + 1 < j
      BY <2>2
    <3> QED
      BY <3>1, <1>1, <1>3
  <2> QED
    BY <1>3, <2>1, <2>2 DEF IsLast
<1> QED
  BY <1>2, <1>3 DEF IsFirst

\* One more value.
LEMMA OneMore ==
    ASSUME NEW v, NEW n \in Nat, NEW x
    PROVE  /\ IsFirst(v, n, x) => IsFirst(v, n + 1, IF x = Absent THEN v[n + 1] ELSE x)
           /\ IsLast(v, n, x) => IsLast(v, n + 1, IF v[n + 1] = Absent THEN x ELSE v[n + 1])
<1>1. /\ \A j \in 1..n + 1 : j \in 1..n \/ j = n + 1
      /\ \A j \in 1..n : j \in 1..n + 1 /\ j < n + 1
      /\ n + 1 \in 1..n + 1
  OBVIOUS
<1>2. IsFirst(v, n, x) => IsFirst(v, n + 1, IF x = Absent THEN v[n + 1] ELSE x)
  BY <1>1 DEF IsFirst
<1>3. IsLast(v, n, x) => IsLast(v, n + 1, IF v[n + 1] = Absent THEN x ELSE v[n + 1])
  BY <1>1 DEF IsLast
<1> QED
  BY <1>2, <1>3

\* Of no values there is none.
LEMMA NoneIsAbsent ==
    ASSUME NEW v PROVE IsFirst(v, 0, Absent) /\ IsLast(v, 0, Absent)
BY DEF IsFirst, IsLast

-----------------------------------------------------------------------------
(* What a summary holds of the entries that were folded *)

Values(es, f) == [i \in 1..Len(es) |-> Get(es[i], f)]
Asks(es, kind) == [i \in 1..Len(es) |-> Says(Asked(es[i]), kind)]
Dirs(es) == [i \in 1..Len(es) |-> NonEmpty(Get(es[i], "cwd"))]
IsDated(e) == "timestamp" \in DOMAIN e

\* d is the data of a summary once the entries up to i were folded.
Holds(es, i, d) ==
    /\ \A f \in DOMAIN LastWins : IsLast(Values(es, f), i, Get(d, LastWins[f]))
    /\ IsFirst(Dirs(es), i, Get(d, "cwd"))
    /\ "cwd" \in DOMAIN d => d["cwd"] # Absent
    /\ "is_sidechain" \in DOMAIN d <=> i # 0
    /\ i # 0 => d["is_sidechain"] = IsSet(es[1], "isSidechain")
    /\ \/ "created_at" \notin DOMAIN d /\ \A j \in 1..i : ~IsDated(es[j])
       \/ /\ "created_at" \in DOMAIN d
          /\ \E j \in 1..i : /\ IsDated(es[j]) /\ d["created_at"] = es[j]["timestamp"]
                             /\ \A q \in 1..i : q < j => ~IsDated(es[q])
    /\ \/ Get(d, "tag") = Absent /\ \A j \in 1..i : ~IsType(es[j], "tag")
       \/ \E j \in 1..i : /\ IsType(es[j], "tag") /\ Get(d, "tag") = NonEmpty(Get(es[j], "tag"))
                          /\ \A q \in 1..i : q > j => ~IsType(es[q], "tag")
    /\ IF IsSet(d, "first_prompt_locked")
         THEN /\ Get(d, "first_prompt") # Absent
              /\ IsFirst(Asks(es, "prompt"), i, Get(d, "first_prompt"))
         ELSE /\ IsFirst(Asks(es, "prompt"), i, Absent)
              /\ IsFirst(Asks(es, "command"), i, Get(d, "command_fallback"))
              /\ "command_fallback" \in DOMAIN d => d["command_fallback"] # Absent

LEMMA HoldsNothing == ASSUME NEW es PROVE Holds(es, 0, <<>>)
<1>1. DOMAIN <<>> = {}
  OBVIOUS
<1>2. \A k : Get(<<>>, k) = Absent /\ ~IsSet(<<>>, k) /\ k \notin DOMAIN <<>>
  BY <1>1 DEF Get, IsSet
<1>3. \A j : j \notin 1..0
  OBVIOUS
<1> QED
  BY <1>2, <1>3, NoneIsAbsent DEF Holds

\* One more entry.
LEMMA HoldsMore ==
    ASSUME NEW es, Len(es) \in Nat, NEW i \in Nat, i + 1 <= Len(es), NEW d, Holds(es, i, d)
    PROVE  Holds(es, i + 1, FoldEntry(d, es[i + 1]))
<1> DEFINE n == i + 1
           e == es[n]
           c == FoldEntry(d, e)
           prompt == Says(Asked(e), "prompt")
           command == Says(Asked(e), "command")
<1>1. /\ n \in 1..Len(es) /\ n \in 1..n /\ n # 0 /\ n \in Nat
      /\ \A j \in 1..n : j \in 1..i \/ j = n
      /\ \A j \in 1..i : j \in 1..n /\ j < n
  OBVIOUS
<1>2. /\ \A f : Values(es, f)[n] = Get(e, f)
      /\ Asks(es, "prompt")[n] = prompt /\ Asks(es, "command")[n] = command
      /\ Dirs(es)[n] = NonEmpty(Get(e, "cwd"))
  BY <1>1 DEF Values, Asks, Dirs
<1>3. /\ \A f \in DOMAIN LastWins :
           Get(c, LastWins[f]) = IF Get(e, f) # Absent THEN Get(e, f) ELSE Get(d, LastWins[f])
      /\ IF NonEmpty(Get(e, "cwd")) = Absent \/ "cwd" \in DOMAIN d THEN SameAt(d, c, "cwd")
           ELSE "cwd" \in DOMAIN c /\ c["cwd"] = e["cwd"]
      /\ "is_sidechain" \in DOMAIN c
      /\ c["is_sidechain"] = IF "is_sidechain" \in DOMAIN d THEN d["is_sidechain"]
                             ELSE IsSet(e, "isSidechain")
      /\ IF "timestamp" \in DOMAIN e /\ "created_at" \notin DOMAIN d
           THEN "created_at" \in DOMAIN c /\ c["created_at"] = e["timestamp"]
           ELSE SameAt(d, c, "created_at")
      /\ IF IsType(e, "tag") THEN Get(c, "tag") = NonEmpty(Get(e, "tag"))
           ELSE SameAt(d, c, "tag")
  BY EntryFolds
<1>4. /\ IsSet(d, "first_prompt_locked") => \A k \in PromptKeys : SameAt(d, c, k)
      /\ ~IsSet(d, "first_prompt_locked") /\ prompt # Absent =>
           IsSet(c, "first_prompt_locked") /\ Get(c, "first_prompt") = prompt
      /\ ~IsSet(d, "first_prompt_locked") /\ prompt = Absent =>
           /\ ~IsSet(c, "first_prompt_locked")
           /\ IF command = Absent \/ "command_fallback" \in DOMAIN d
                THEN SameAt(d, c, "command_fallback")
                ELSE "command_fallback" \in DOMAIN c /\ c["command_fallback"] = command
  BY EntryFolds
<1> HIDE DEF n, e, c, prompt, command
<1>5. \A v, x : /\ IsFirst(v, i, x) => IsFirst(v, n, IF x = Absent THEN v[n] ELSE x)
                /\ IsLast(v, i, x) => IsLast(v, n, IF v[n] = Absent THEN x ELSE v[n])
  BY OneMore DEF n
<1>6. \A f \in DOMAIN LastWins : IsLast(Values(es, f), n, Get(c, LastWins[f]))
  <2> SUFFICES ASSUME NEW f \in DOMAIN LastWins
               PROVE  IsLast(Values(es, f), n, Get(c, LastWins[f]))
    OBVIOUS
  <2>1. IsLast(Values(es, f), i, Get(d, LastWins[f]))
    BY DEF Holds
  <2>2. IsLast(Values(es, f), n,
               IF Get(e, f) = Absent THEN Get(d, LastWins[f]) ELSE Get(e, f))
    BY <2>1, <1>2, <1>5
  <2>3. Get(c, LastWins[f]) = IF Get(e, f) = Absent THEN Get(d, LastWins[f]) ELSE Get(e, f)
    BY <1>3
  <2> QED
    BY <2>2, <2>3
<1>7. IsFirst(Dirs(es), n, Get(c, "cwd")) /\ ("cwd" \in DOMAIN c => c["cwd"] # Absent)
  <2>1. /\ IsFirst(Dirs(es), i, Get(d, "cwd"))
        /\ "cwd" \in DOMAIN d => d["cwd"] # Absent
    BY DEF Holds
  <2>2. IsFirst(Dirs(es), n, IF Get(d, "cwd") = Absent THEN NonEmpty(Get(e, "cwd"))
                             ELSE Get(d, "cwd"))
    BY <2>1, <1>2, <1>5
  <2>3. NonEmpty(Get(e, "cwd")) # Absent => NonEmpty(Get(e, "cwd")) = e["cwd"]
    BY DEF NonEmpty, Get
  <2>4. "cwd" \in DOMAIN d <=> Get(d, "cwd") # Absent
    BY <2>1 DEF Get
  <2>5. /\ Get(c, "cwd") = IF Get(d, "cwd") = Absent THEN NonEmpty(Get(e, "cwd"))
                           ELSE Get(d, "cwd")
        /\ "cwd" \in DOMAIN c => c["cwd"] # Absent
    BY <1>3, <2>1, <2>3, <2>4 DEF SameAt, Get
  <2> QED
    BY <2>2, <2>5
<1>8. /\ "is_sidechain" \in DOMAIN c <=> n # 0
      /\ n # 0 => c["is_sidechain"] = IsSet(es[1], "isSidechain")
  <2>1. CASE i = 0
    <3>1. n = 1 /\ "is_sidechain" \notin DOMAIN d
      BY <2>1 DEF n, Holds
    <3>2. e = es[1]
      BY <3>1 DEF e
    <3> QED
      BY <1>1, <1>3, <3>1, <3>2
  <2>2. CASE i # 0
    BY <1>1, <1>3, <2>2 DEF Holds
  <2> QED
    BY <2>1, <2>2
<1>9. \/ "created_at" \notin DOMAIN c /\ \A j \in 1..n : ~IsDated(es[j])
      \/ /\ "created_at" \in DOMAIN c
         /\ \E j \in 1..n : /\ IsDated(es[j]) /\ c["created_at"] = es[j]["timestamp"]
                            /\ \A q \in 1..n : q < j => ~IsDated(es[q])
  <2>1. CASE "created_at" \notin DOMAIN d /\ \A j \in 1..i : ~IsDated(es[j])
    <3>1. CASE IsDated(e)
      <4>1. "created_at" \in DOMAIN c /\ c["created_at"] = e["timestamp"]
        BY <1>3, <2>1, <3>1 DEF IsDated
      <4>2. \A q \in 1..n : q < n => ~IsDated(es[q])
        BY <2>1, <1>1
      <4> QED
        BY <4>1, <4>2, <3>1, <1>1 DEF e
    <3>2. CASE ~IsDated(e)
      <4>1. "created_at" \notin DOMAIN c
        BY <1>3, <2>1, <3>2 DEF IsDated, SameAt
      <4> QED
        BY <4>1, <2>1, <3>2, <1>1 DEF e
    <3> QED
      BY <3>1, <3>2
  <2>2. ASSUME "created_at" \in DOMAIN d, NEW j \in 1..i, IsDated(es[j]),
               d["created_at"] = es[j]["timestamp"], \A q \in 1..i : q < j => ~IsDated(es[q])
        PROVE  /\ "created_at" \in DOMAIN c
               /\ \E k \in 1..n : /\ IsDated(es[k]) /\ c["created_at"] = es[k]["timestamp"]
                                  /\ \A q \in 1..n : q < k => ~IsDated(es[q])
    <3>1. "created_at" \in DOMAIN c /\ c["created_at"] = d["created_at"]
      BY <1>3, <2>2 DEF SameAt
    <3>2. j \in 1..n /\ \A q \in 1..n : q < j => q \in 1..i
      BY <1>1
    <3> QED
      BY <3>1, <3>2, <2>2
  <2> QED
    BY <2>1, <2>2 DEF Holds
<1>10. \/ Get(c, "tag") = Absent /\ \A j \in 1..n : ~IsType(es[j], "tag")
       \/ \E j \in 1..n : /\ IsType(es[j], "tag") /\ Get(c, "tag") = NonEmpty(Get(es[j], "tag"))
                          /\ \A q \in 1..n : q > j => ~IsType(es[q], "tag")
  <2>1. CASE IsType(e, "tag")
    <3>1. \A q \in 1..n : ~(q > n)
      BY <1>1
    <3> QED
      BY <2>1, <3>1, <1>1, <1>3 DEF e
  <2>2. CASE ~IsType(e, "tag")
    <3>1. Get(c, "tag") = Get(d, "tag")
      BY <1>3, <2>2, SameReads
    <3>2. CASE Get(d, "tag") = Absent /\ \A j \in 1..i : ~IsType(es[j], "tag")
      BY <3>1, <3>2, <2>2, <1>1 DEF e
    <3>3. ASSUME NEW j \in 1..i, IsType(es[j], "tag"),
                 Get(d, "tag") = NonEmpty(Get(es[j], "tag")),
                 \A q \in 1..i : q > j => ~IsType(es[q], "tag")
          PROVE  \E k \in 1..n : /\ IsType(es[k], "tag")
                                 /\ Get(c, "tag") = NonEmpty(Get(es[k], "tag"))
                                 /\ \A q \in 1..n : q > k => ~IsType(es[q], "tag")
      BY <3>1, <3>3, <2>2, <1>1 DEF e
    <3> QED
      BY <3>2, <3>3 DEF Holds
  <2> QED
    BY <2>1, <2>2
<1>11. IF IsSet(c, "first_prompt_locked")
         THEN /\ Get(c, "first_prompt") # Absent
              /\ IsFirst(Asks(es, "prompt"), n, Get(c, "first_prompt"))
         ELSE /\ IsFirst(Asks(es, "prompt"), n, Absent)
              /\ IsFirst(Asks(es, "command"), n, Get(c, "command_fallback"))
              /\ "command_fallback" \in DOMAIN c => c["command_fallback"] # Absent
  <2>1. CASE IsSet(d, "first_prompt_locked")
    <3>1. /\ IsSet(c, "first_prompt_locked") /\ Get(c, "first_prompt") = Get(d, "first_prompt")
      BY <2>1, <1>4, SameReads DEF PromptKeys
    <3>2. /\ Get(d, "first_prompt") # Absent
          /\ IsFirst(Asks(es, "prompt"), i, Get(d, "first_prompt"))
      BY <2>1 DEF Holds
    <3>3. IsFirst(Asks(es, "prompt"), n, Get(d, "first_prompt"))
      BY <3>2, <1>5
    <3> QED
      BY <3>1, <3>2, <3>3
  <2>2. CASE ~IsSet(d, "first_prompt_locked")
    <3>1. /\ IsFirst(Asks(es, "prompt"), i, Absent)
          /\ IsFirst(Asks(es, "command"), i, Get(d, "command_fallback"))
          /\ "command_fallback" \in DOMAIN d => d["command_fallback"] # Absent
      BY <2>2 DEF Holds
    <3>2. IsFirst(Asks(es, "prompt"), n, prompt)
      BY <3>1, <1>2, <1>5
    <3>3. IsFirst(Asks(es, "command"), n,
                  IF Get(d, "command_fallback") = Absent THEN command
                  ELSE Get(d, "command_fallback"))
      BY <3>1, <1>2, <1>5
    <3>4. CASE prompt # Absent
      BY <2>2, <3>2, <3>4, <1>4
    <3>5. CASE prompt = Absent
      <4>1. "command_fallback" \in DOMAIN d <=> Get(d, "command_fallback") # Absent
        BY <3>1 DEF Get
      <4>2. /\ Get(c, "command_fallback") =
                 IF Get(d, "command_fallback") = Absent THEN command
                 ELSE Get(d, "command_fallback")
            /\ "command_fallback" \in DOMAIN c => c["command_fallback"] # Absent
        BY <2>2, <3>1, <3>5, <4>1, <1>4 DEF SameAt, Get
      <4> QED
        BY <2>2, <3>2, <3>3, <3>5, <4>2, <1>4
    <3> QED
      BY <3>4, <3>5
  <2> QED
    BY <2>1, <2>2
<1>12. Holds(es, n, c)
  BY <1>6, <1>7, <1>8, <1>9, <1>10, <1>11 DEF Holds
<1> QED
  BY <1>12 DEF n, c, e

\* And so the fold of a transcript, by the least prefix that fails.
LEMMA FoldHolds == ASSUME NEW es, Len(es) \in Nat PROVE Holds(es, Len(es), Fold(<<>>, es))
<1> DEFINE n == Len(es)
           prev == [mtime |-> 0, data |-> <<>>]
<1> HIDE DEF prev
<1>1. PICK f : /\ IsFold(f, prev.data, es, Len(es))
               /\ FoldSummary(prev, es) = [mtime |-> prev.mtime, data |-> f[Len(es)]]
  BY FoldIs
<1>2. prev.data = <<>> /\ Fold(<<>>, es) = f[n]
  BY <1>1 DEF prev, Fold
<1>3. f[0] = <<>> /\ \A i \in Nat : i + 1 <= n => f[i + 1] = FoldEntry(f[i], es[i + 1])
  <2>1. 0 \in 0..n
    OBVIOUS
  <2>2. \A i \in Nat : i + 1 <= n => i + 1 \in 0..n /\ i + 1 # 0 /\ (i + 1) - 1 = i
    OBVIOUS
  <2> QED
    BY <1>1, <1>2, <2>1, <2>2 DEF IsFold
<1> DEFINE T == {i \in Nat : i <= n /\ ~Holds(es, i, f[i])}
<1>4. ASSUME T # {} PROVE FALSE
  <2>1. PICK i \in T : \A j \in T : i <= j
    BY <1>4, Least
  <2>2. i # 0
    BY <2>1, <1>3, HoldsNothing
  <2>3. i - 1 \in Nat /\ i - 1 \notin T /\ (i - 1) + 1 = i /\ i <= n
    BY <2>1, <2>2
  <2>4. Holds(es, i - 1, f[i - 1])
    BY <2>3
  <2>5. Holds(es, (i - 1) + 1, FoldEntry(f[i - 1], es[(i - 1) + 1]))
    BY <2>3, <2>4, HoldsMore
  <2>6. f[i] = FoldEntry(f[i - 1], es[i])
    BY <2>3, <1>3
  <2> QED
    BY <2>1, <2>3, <2>5, <2>6
<1>5. n \notin T
  BY <1>4
<1> QED
  BY <1>2, <1>5

-----------------------------------------------------------------------------
(* What the parse of a transcript that fits into its window finds *)

\* The first of two and of four.
LEMMA PairPresent ==
    ASSUME NEW a, NEW b
    PROVE  /\ FirstPresent(<<a, b>>) = IF a # Absent THEN a ELSE b
           /\ FirstNonEmpty(<<a, b>>) = IF NonEmpty(a) # Absent THEN NonEmpty(a) ELSE NonEmpty(b)
<1>1. \A x, y : FirstPresent(<<x, y>>) = IF x # Absent THEN x ELSE y
  <2> SUFFICES ASSUME NEW x, NEW y PROVE FirstPresent(<<x, y>>) = IF x # Absent THEN x ELSE y
    OBVIOUS
  <2> DEFINE v == <<x, y>>
  <2>1. DOMAIN v = 1..2 /\ v[1] = x /\ v[2] = y
    OBVIOUS
  <2> HIDE DEF v
  <2>2. IsFirst(v, 2, FirstPresent(v))
    BY <2>1, FirstPresentIs
  <2>3. \A j \in 1..2 : j = 1 \/ j = 2
    OBVIOUS
  <2>4. 1 \in 1..2 /\ 2 \in 1..2
    OBVIOUS
  <2>5. FirstPresent(v) = IF x # Absent THEN x ELSE y
    BY <2>1, <2>2, <2>3, <2>4 DEF IsFirst
  <2> QED
    BY <2>5 DEF v
<1>2. [i \in DOMAIN <<a, b>> |-> NonEmpty(<<a, b>>[i])] = <<NonEmpty(a), NonEmpty(b)>>
  OBVIOUS
<1> QED
  BY <1>1, <1>2 DEF FirstNonEmpty

LEMMA FourPresent ==
    ASSUME NEW a, NEW b, NEW c, NEW d
    PROVE  FirstPresent(<<a, b, c, d>>) =
             IF a # Absent THEN a ELSE IF b # Absent THEN b ELSE IF c # Absent THEN c ELSE d
<1> DEFINE v == <<a, b, c, d>>
<1>1. DOMAIN v = 1..4 /\ v[1] = a /\ v[2] = b /\ v[3] = c /\ v[4] = d
  OBVIOUS
<1> HIDE DEF v
<1>3. IsFirst(v, 4, FirstPresent(v))
  BY <1>1, FirstPresentIs
<1>4. /\ \A j \in 1..4 : j = 1 \/ j = 2 \/ j = 3 \/ j = 4
      /\ 1 \in 1..4 /\ 2 \in 1..4 /\ 3 \in 1..4 /\ 4 \in 1..4
  OBVIOUS
<1>5. FirstPresent(v) =
        IF a # Absent THEN a ELSE IF b # Absent THEN b ELSE IF c # Absent THEN c ELSE d
  BY <1>1, <1>3, <1>4 DEF IsFirst
<1> QED
  BY <1>5 DEF v

LEMMA FourNonEmpty ==
    ASSUME NEW a, NEW b, NEW c, NEW d
    PROVE  FirstNonEmpty(<<a, b, c, d>>) =
             FirstPresent(<<NonEmpty(a), NonEmpty(b), NonEmpty(c), NonEmpty(d)>>)
<1>1. [i \in DOMAIN <<a, b, c, d>> |-> NonEmpty(<<a, b, c, d>>[i])]
        = <<NonEmpty(a), NonEmpty(b), NonEmpty(c), NonEmpty(d)>>
  OBVIOUS
<1> QED
  BY <1>1 DEF FirstNonEmpty

\* Head and tail are the whole transcript.
LEMMA WindowHasAll ==
    ASSUME NEW es, IsSequence(es), Len(es) <= Window
    PROVE  /\ Len(es) \in Nat /\ DOMAIN es = 1..Len(es)
           /\ Head64(es) = es /\ Tail64(es) = es
<1> DEFINE S == {es[i] : i \in DOMAIN es}
<1>1. es \in Seq(S)
  BY DEF IsSequence
<1> HIDE DEF S
<1>2. Len(es) \in Nat /\ DOMAIN es = 1..Len(es) /\ es = [i \in 1..Len(es) |-> es[i]]
  BY <1>1
<1>3. SubSeq(es, 1, Len(es)) = es
  BY <1>1, <1>2
<1>4. Window \in Nat /\ (~(Len(es) < Window) => Len(es) = Window)
  BY <1>2, WindowAssumption
<1>5. Len(es) - Len(es) + 1 = 1
  BY <1>2
<1> QED
  BY <1>2, <1>3, <1>4, <1>5 DEF Head64, Tail64

\* No field is there and empty, nothing is nested: the text of a line has what its entry has.
Plain(es) == \A i \in DOMAIN es : IsPlain(es[i])

LEMMA PlainText ==
    ASSUME NEW e, IsPlain(e)
    PROVE  /\ \A k : /\ FirstIn(e, k) = Get(e, k) /\ LastIn(e, k) = Get(e, k)
                     /\ IsInText(e, k) <=> IsSet(e, k)
           /\ Objects(e)[2] = e
           /\ {i \in 1..3 : "timestamp" \in DOMAIN Objects(e)[i]} =
                IF IsDated(e) THEN {2} ELSE {}
<1>1. Nested(e, "before") = <<>> /\ Nested(e, "after") = <<>>
  BY DEF Nested, IsPlain
<1>2. DOMAIN <<>> = {}
  OBVIOUS
<1>3. /\ Objects(e)[1] = <<>> /\ Objects(e)[2] = e /\ Objects(e)[3] = <<>>
  BY <1>1 DEF Objects
<1>4. \A k : Get(<<>>, k) = Absent /\ ~IsSet(<<>>, k)
  BY <1>2 DEF Get, IsSet
<1>5. /\ \A i \in 1..3 : i = 1 \/ i = 2 \/ i = 3
      /\ 1 \in 1..3 /\ 2 \in 1..3 /\ 3 \in 1..3 /\ 4 - 1 = 3 /\ 4 - 2 = 2 /\ 4 - 3 = 1
  OBVIOUS
<1>6. ASSUME NEW v, DOMAIN v = 1..3, v[1] = Absent, v[3] = Absent
      PROVE  FirstPresent(v) = v[2]
  <2>1. IsFirst(v, 3, FirstPresent(v))
    BY <1>6, FirstPresentIs
  <2> QED
    BY <2>1, <1>5, <1>6 DEF IsFirst
<1>7. ASSUME NEW k
      PROVE  /\ FirstIn(e, k) = Get(e, k) /\ LastIn(e, k) = Get(e, k)
             /\ IsInText(e, k) <=> IsSet(e, k)
  <2> DEFINE v == [i \in 1..3 |-> Get(Objects(e)[i], k)]
             w == [i \in 1..3 |-> Get(Objects(e)[4 - i], k)]
  <2>1. /\ DOMAIN v = 1..3 /\ v[1] = Absent /\ v[2] = Get(e, k) /\ v[3] = Absent
        /\ DOMAIN w = 1..3 /\ w[1] = Absent /\ w[2] = Get(e, k) /\ w[3] = Absent
    BY <1>3, <1>4, <1>5
  <2>2. FirstIn(e, k) = FirstPresent(v) /\ LastIn(e, k) = FirstPresent(w)
    BY DEF FirstIn, LastIn
  <2> HIDE DEF v, w
  <2>3. FirstIn(e, k) = Get(e, k) /\ LastIn(e, k) = Get(e, k)
    BY <2>1, <2>2, <1>6
  <2>4. IsInText(e, k) <=> IsSet(e, k)
    BY <1>3, <1>4, <1>5 DEF IsInText
  <2> QED
    BY <2>3, <2>4
<1>8. {i \in 1..3 : "timestamp" \in DOMAIN Objects(e)[i]} = IF IsDated(e) THEN {2} ELSE {}
  BY <1>2, <1>3, <1>5 DEF IsDated
<1> QED
  BY <1>3, <1>7, <1>8

LEMMA PlainAsks == ASSUME NEW e, IsPlain(e) PROVE AskedInText(e) = Asked(e)
<1>1. \A k : IsInText(e, k) <=> IsSet(e, k)
  BY PlainText
<1> QED
  BY <1>1 DEF AskedInText, Asked

\* What the parse looks for: the first and the last value of a field, ...
LEMMA FirstOfIs ==
    ASSUME NEW es, Len(es) \in Nat, DOMAIN es = 1..Len(es), Plain(es), NEW f
    PROVE  IsFirst(Values(es, f), Len(es), FirstOf(es, f))
<1>1. \A i \in DOMAIN es : FirstIn(es[i], f) = Get(es[i], f)
  BY PlainText DEF Plain
<1>2. [i \in DOMAIN es |-> FirstIn(es[i], f)] = Values(es, f)
  BY <1>1 DEF Values
<1>3. DOMAIN Values(es, f) = 1..Len(es) /\ FirstOf(es, f) = FirstPresent(Values(es, f))
  BY <1>2 DEF Values, FirstOf
<1> QED
  BY <1>3, FirstPresentIs

LEMMA LastOfIs ==
    ASSUME NEW es, Len(es) \in Nat, DOMAIN es = 1..Len(es), Plain(es), NEW f
    PROVE  IsLast(Values(es, f), Len(es), LastOf(es, f))
<1> DEFINE n == Len(es)
           rev == Reverse(es)
           v == Values(es, f)
           w == [i \in DOMAIN rev |-> LastIn(rev[i], f)]
<1>1. DOMAIN rev = 1..n /\ \A i \in 1..n : rev[i] = es[n - i + 1] /\ n - i + 1 \in 1..n
  BY DEF Reverse
<1>2. LastOf(es, f) = FirstPresent(w)
  BY DEF LastOf
<1> HIDE DEF rev
<1>a. \A i \in 1..n : LastIn(es[i], f) = Get(es[i], f)
  BY PlainText DEF Plain
<1>3. DOMAIN w = 1..n /\ \A i \in 1..n : w[i] = v[n - i + 1]
  BY <1>1, <1>a DEF Values
<1> HIDE DEF w, v
<1>4. IsFirst(w, n, FirstPresent(w))
  BY <1>3, FirstPresentIs
<1>5. IsLast(v, n, FirstPresent(w))
  BY <1>3, <1>4, FirstReversed
<1> QED
  BY <1>2, <1>5 DEF v

\* ... the first prompt, ...
LEMMA FirstPromptIs ==
    ASSUME NEW es, Len(es) \in Nat, DOMAIN es = 1..Len(es), Plain(es),
           NEW d, Holds(es, Len(es), d)
    PROVE  FirstPrompt(es) = IF IsSet(d, "first_prompt_locked") THEN Get(d, "first_prompt")
                             ELSE Get(d, "command_fallback")
<1> DEFINE p == FirstPresent(Asks(es, "prompt"))
           c == FirstPresent(Asks(es, "command"))
<1>a. ASSUME NEW kind
      PROVE  [i \in DOMAIN es |-> Says(AskedInText(es[i]), kind)] = Asks(es, kind)
  <2>1. \A i \in DOMAIN es : AskedInText(es[i]) = Asked(es[i])
    BY PlainAsks DEF Plain
  <2> QED
    BY <2>1 DEF Asks
<1>1. FirstPrompt(es) = FirstPresent(<<p, c>>)
  BY <1>a DEF FirstPrompt
<1>2. \A kind : DOMAIN Asks(es, kind) = 1..Len(es)
  BY DEF Asks
<1>3. IsFirst(Asks(es, "prompt"), Len(es), p) /\ IsFirst(Asks(es, "command"), Len(es), c)
  BY <1>2, FirstPresentIs
<1> HIDE DEF p, c
<1>4. FirstPrompt(es) = IF p # Absent THEN p ELSE c
  BY <1>1, PairPresent
<1>5. CASE IsSet(d, "first_prompt_locked")
  <2>1. p = Get(d, "first_prompt") /\ p # Absent
    BY <1>3, <1>5, OnlyOne DEF Holds
  <2> QED
    BY <2>1, <1>4, <1>5
<1>6. CASE ~IsSet(d, "first_prompt_locked")
  <2>1. p = Absent /\ c = Get(d, "command_fallback")
    BY <1>3, <1>6, OnlyOne DEF Holds
  <2> QED
    BY <2>1, <1>4, <1>6
<1> QED
  BY <1>5, <1>6

\* ... and the first timestamp.
LEMMA FirstTimestampIs ==
    ASSUME NEW es, Len(es) \in Nat, DOMAIN es = 1..Len(es), Plain(es),
           NEW d, Holds(es, Len(es), d)
    PROVE  FirstTimestamp(es) = IF "created_at" \in DOMAIN d THEN d["created_at"] ELSE 0
<1> DEFINE dated(e) == {i \in 1..3 : "timestamp" \in DOMAIN Objects(e)[i]}
           lines == {i \in DOMAIN es : dated(es[i]) # {}}
           first == es[Min(lines)]
<1>1. FirstTimestamp(es) =
        IF lines = {} THEN 0 ELSE Objects(first)[Min(dated(first))]["timestamp"]
  BY DEF FirstTimestamp
<1>a. ASSUME NEW i \in DOMAIN es
      PROVE  /\ Objects(es[i])[2] = es[i]
             /\ dated(es[i]) = IF IsDated(es[i]) THEN {2} ELSE {}
  BY PlainText DEF Plain
<1>b. Min({2}) = 2
  <2>1. \A x \in {2} : x = 2 /\ x <= 2
    OBVIOUS
  <2> QED
    BY <2>1 DEF Min
<1> HIDE DEF dated
<1>c. \A i \in DOMAIN es : i \in lines <=> IsDated(es[i])
  BY <1>a
<1>2. CASE "created_at" \notin DOMAIN d /\ \A j \in 1..Len(es) : ~IsDated(es[j])
  <2>1. lines = {}
    BY <1>2, <1>c
  <2> QED
    BY <1>1, <1>2, <2>1
<1>3. ASSUME "created_at" \in DOMAIN d, NEW j \in 1..Len(es), IsDated(es[j]),
             d["created_at"] = es[j]["timestamp"], \A q \in 1..Len(es) : q < j => ~IsDated(es[q])
      PROVE  FirstTimestamp(es) = d["created_at"]
  <2>1. /\ j \in lines /\ \A q \in lines : j <= q
        /\ \A i \in lines : i <= j => i = j
    BY <1>3, <1>c
  <2>2. Min(lines) = j
    BY <2>1 DEF Min
  <2>3. dated(es[j]) = {2} /\ Objects(es[j])[2] = es[j]
    BY <1>3, <1>a
  <2> QED
    BY <1>1, <1>3, <1>b, <2>1, <2>2, <2>3
<1> QED
  BY <1>2, <1>3 DEF Holds

\* Two ways to one row.
LEMMA SummaryIsParse ==
    ASSUME NEW s, NEW es, IsSequence(es), Len(es) <= Window, Plain(es), NEW m,
           NEW sum, sum = [mtime |-> m, data |-> Fold(<<>>, es)]
    PROVE  Without(SummaryToInfo(s, sum, Project), "tag") =
             Without(LiteInfo(s, es, m, Project), "tag")
<1> DEFINE d == Fold(<<>>, es)
           n == Len(es)
<1>1. n \in Nat /\ DOMAIN es = 1..n /\ Head64(es) = es /\ Tail64(es) = es
  BY WindowHasAll
<1>2. Holds(es, n, d)
  BY <1>1, FoldHolds
<1>3. sum.data = d /\ sum.mtime = m
  OBVIOUS
<1> HIDE DEF d
<1>4. ASSUME NEW f \in DOMAIN LastWins
      PROVE  Get(d, LastWins[f]) = LastOf(es, f) /\ LastOf(es, f) # ""
  <2>1. IsLast(Values(es, f), n, LastOf(es, f)) /\ IsLast(Values(es, f), n, Get(d, LastWins[f]))
    BY <1>1, <1>2, LastOfIs DEF Holds
  <2>2. Get(d, LastWins[f]) = LastOf(es, f)
    BY <1>1, <2>1, OnlyOne
  <2>3. \A i \in 1..n : Values(es, f)[i] # ""
    BY <1>1 DEF Values, Plain, IsPlain
  <2>4. LastOf(es, f) # ""
    BY <2>1, <2>3 DEF IsLast, Absent
  <2> QED
    BY <2>2, <2>4
<1> DEFINE custom == LastOf(es, "customTitle")
           ai == LastOf(es, "aiTitle")
           lastPrompt == LastOf(es, "lastPrompt")
           hint == LastOf(es, "summary")
           git == LastOf(es, "gitBranch")
<1>5. /\ Get(d, "custom_title") = custom /\ custom # ""
      /\ Get(d, "ai_title") = ai /\ ai # ""
      /\ Get(d, "last_prompt") = lastPrompt /\ lastPrompt # ""
      /\ Get(d, "summary_hint") = hint /\ hint # ""
      /\ Get(d, "git_branch") = git /\ git # ""
  BY <1>4 DEF LastWins
<1> HIDE DEF custom, ai, lastPrompt, hint, git
<1>6. \A x : x # "" => NonEmpty(x) = x
  BY DEF NonEmpty
<1>7. NonEmpty(Absent) = Absent /\ Absent # ""
  BY DEF NonEmpty, Absent
\* Title.
<1> DEFINE title == IF custom # Absent THEN custom ELSE ai
<1>8. /\ NonEmpty(FirstPresent(<<Get(d, "custom_title"), Get(d, "ai_title")>>)) = title
      /\ FirstNonEmpty(TitleOf(es, es)) = title
  <2>1. FirstPresent(<<custom, ai>>) = title
    BY PairPresent
  <2>2. TitleOf(es, es) = <<custom, custom, ai, ai>>
    BY DEF TitleOf, custom, ai
  <2>3. FirstNonEmpty(<<custom, custom, ai, ai>>) =
          FirstPresent(<<NonEmpty(custom), NonEmpty(custom), NonEmpty(ai), NonEmpty(ai)>>)
    BY FourNonEmpty
  <2>a. FirstPresent(<<custom, custom, ai, ai>>) =
          IF custom # Absent THEN custom ELSE IF custom # Absent THEN custom
          ELSE IF ai # Absent THEN ai ELSE ai
    BY FourPresent
  <2>4. FirstPresent(<<custom, custom, ai, ai>>) = title
    BY <2>a
  <2> QED
    BY <2>1, <2>2, <2>3, <2>4, <1>5, <1>6
<1>9. title # ""
  BY <1>5
<1> HIDE DEF title
\* Prompt.
<1> DEFINE prompt == NonEmpty(FirstPrompt(es))
<1>10. prompt = NonEmpty(IF IsSet(d, "first_prompt_locked") THEN Get(d, "first_prompt")
                         ELSE Get(d, "command_fallback"))
  BY <1>1, <1>2, FirstPromptIs
<1>11. prompt # ""
  BY <1>7 DEF NonEmpty
<1> HIDE DEF prompt
\* Summary.
<1> DEFINE summary == FirstPresent(<<title, lastPrompt, hint, prompt>>)
<1>a. summary = IF title # Absent THEN title ELSE IF lastPrompt # Absent THEN lastPrompt
                ELSE IF hint # Absent THEN hint ELSE prompt
  BY FourPresent
<1>b. FirstNonEmpty(<<title, lastPrompt, hint, prompt>>) =
        FirstPresent(<<NonEmpty(title), NonEmpty(lastPrompt), NonEmpty(hint), NonEmpty(prompt)>>)
  BY FourNonEmpty
<1>12. /\ NonEmpty(FirstPresent(<<title, Get(d, "last_prompt"), Get(d, "summary_hint"), prompt>>))
            = summary
       /\ FirstNonEmpty(<<title, LastOf(es, "lastPrompt"), LastOf(es, "summary"), prompt>>)
            = summary
  <2>1. summary # ""
    BY <1>5, <1>9, <1>11, <1>a
  <2>2. FirstNonEmpty(<<title, lastPrompt, hint, prompt>>) = summary
    BY <1>5, <1>6, <1>9, <1>11, <1>b
  <2> QED
    BY <2>1, <2>2, <1>5, <1>6 DEF lastPrompt, hint
\* Branch and directory.
<1>13. NonEmpty(Get(d, "git_branch"))
         = FirstNonEmpty(<<LastOf(es, "gitBranch"), FirstOf(es, "gitBranch")>>)
  <2>1. FirstNonEmpty(<<git, FirstOf(es, "gitBranch")>>) =
          IF git # Absent THEN git ELSE NonEmpty(FirstOf(es, "gitBranch"))
    BY <1>5, <1>6, PairPresent
  <2>2. ASSUME git = Absent PROVE FirstOf(es, "gitBranch") = Absent
    <3>1. /\ IsLast(Values(es, "gitBranch"), n, Absent)
          /\ IsFirst(Values(es, "gitBranch"), n, FirstOf(es, "gitBranch"))
      BY <1>1, <2>2, LastOfIs, FirstOfIs DEF git
    <3> QED
      BY <3>1 DEF IsLast, IsFirst
  <2> QED
    BY <2>1, <2>2, <1>5, <1>6, <1>7 DEF git
<1>14. FirstOf(es, "cwd") = Get(d, "cwd")
  <2>1. IsFirst(Dirs(es), n, Get(d, "cwd")) /\ IsFirst(Values(es, "cwd"), n, FirstOf(es, "cwd"))
    BY <1>1, <1>2, FirstOfIs DEF Holds
  <2>2. \A i \in 1..n : Dirs(es)[i] = Values(es, "cwd")[i]
    BY <1>1, <1>6 DEF Dirs, Values, Plain, IsPlain
  <2>3. IsFirst(Values(es, "cwd"), n, Get(d, "cwd"))
    BY <2>1, <2>2 DEF IsFirst
  <2> QED
    BY <1>1, <2>1, <2>3, OnlyOne
<1>16. FirstTimestamp(es) = IF "created_at" \in DOMAIN d THEN d.created_at ELSE 0
  BY <1>1, <1>2, FirstTimestampIs
\* Whether there is a row.
<1>17. IsSet(d, "is_sidechain") \/ summary = Absent <=>
         IsInText(es[1], "isSidechain") \/ summary = Absent
  <2>1. CASE n = 0
    <3>1. \A f \in DOMAIN LastWins : Get(d, LastWins[f]) = Absent
      BY <1>2, <2>1 DEF Holds, IsLast
    <3>2. custom = Absent /\ ai = Absent /\ lastPrompt = Absent /\ hint = Absent
      BY <3>1, <1>5 DEF LastWins
    <3>3. prompt = Absent
      <4>1. ~IsSet(d, "first_prompt_locked") /\ Get(d, "command_fallback") = Absent
        BY <1>2, <2>1 DEF Holds, IsFirst
      <4> QED
        BY <4>1, <1>7, <1>10
    <3>4. summary = Absent
      BY <3>2, <3>3, <1>a DEF title
    <3> QED
      BY <3>4
  <2>2. CASE n # 0
    <3>1. "is_sidechain" \in DOMAIN d /\ d["is_sidechain"] = IsSet(es[1], "isSidechain")
      BY <1>2, <2>2 DEF Holds
    <3>2. IsSet(d, "is_sidechain") <=> IsSet(es[1], "isSidechain")
      BY <3>1 DEF IsSet
    <3>3. 1 \in DOMAIN es
      BY <1>1, <2>2
    <3>4. IsInText(es[1], "isSidechain") <=> IsSet(es[1], "isSidechain")
      BY <3>3, PlainText DEF Plain
    <3> QED
      BY <3>2, <3>4
  <2> QED
    BY <2>1, <2>2
<1> DEFINE row(tag) == [session |-> s, summary |-> summary, custom_title |-> title,
                   first_prompt |-> prompt, git_branch |-> NonEmpty(Get(d, "git_branch")),
                   cwd |-> FirstNonEmpty(<<Get(d, "cwd"), Project>>),
                   tag |-> tag,
                   created_at |-> IF "created_at" \in DOMAIN d THEN d.created_at ELSE 0,
                   last_modified |-> m]
<1> HIDE DEF summary
<1>18. SummaryToInfo(s, sum, Project) =
         IF IsSet(d, "is_sidechain") \/ summary = Absent THEN NoInfo
         ELSE row(NonEmpty(Get(d, "tag")))
  BY <1>3, <1>8, <1>10, <1>12 DEF SummaryToInfo
<1>19. LiteInfo(s, es, m, Project) =
         IF IsInText(es[1], "isSidechain") \/ summary = Absent THEN NoInfo ELSE row(TagOf(es))
  BY <1>1, <1>8, <1>12, <1>13, <1>14, <1>16 DEF LiteInfo, prompt
<1>20. \A x, y : Without(row(x), "tag") = Without(row(y), "tag")
  BY DEF Without
<1> HIDE DEF row
<1> QED
  BY <1>17, <1>18, <1>19, <1>20

-----------------------------------------------------------------------------
(* Keys *)

KeySet == {k \in Seq(Part) : Len(k) >= 2}

\* What is written to is a key, and the main transcripts are among them.
LEMMA KeysAreKeys ==
    /\ Keys \subseteq KeySet
    /\ \A s \in Sessions : s \in Part /\ MainKey(Project, s) \in Keys
<1>1. GivenKeys \subseteq KeySet
  BY CallsAssumption DEF KeySet
<1>2. \A s \in Sessions : s \in Part
  <2> SUFFICES ASSUME NEW k \in GivenKeys PROVE k[2] \in Part
    BY DEF Sessions
  <2>1. k \in Seq(Part) /\ Len(k) >= 2
    BY <1>1 DEF KeySet
  <2> QED
    BY <2>1
<1>3. \A s \in Sessions : MainKey(Project, s) \in Keys
  BY DEF Keys
<1>4. \A s \in Sessions : MainKey(Project, s) \in KeySet
  <2> SUFFICES ASSUME NEW s \in Sessions PROVE MainKey(Project, s) \in KeySet
    OBVIOUS
  <2>1. s \in Part /\ Project \in Part
    BY <1>2, CallsAssumption
  <2> QED
    BY <2>1 DEF MainKey, KeySet
<1> QED
  BY <1>1, <1>2, <1>3, <1>4 DEF Keys

\* The key of a main transcript is the pair of its parts.
LEMMA MainIsPair ==
    ASSUME NEW k \in KeySet, IsMain(k) PROVE k = MainKey(k[1], k[2])
BY DEF KeySet, IsMain, MainKey

LEMMA Joined ==
    ASSUME NEW S, NEW m \in Seq(S), NEW r \in Seq(S)
    PROVE  /\ m \o r \in Seq(S) /\ Len(m \o r) = Len(m) + Len(r)
           /\ \A i \in 1..Len(m) + Len(r) :
                (m \o r)[i] = IF i <= Len(m) THEN m[i] ELSE r[i - Len(m)]
BY ConcatProperties

\* A sequence is its first two elements and the rest.
LEMMA PairAndRest ==
    ASSUME NEW S, NEW j \in Seq(S), Len(j) > 2,
           NEW m \in Seq(S), Len(m) = 2, m[1] = j[1], m[2] = j[2],
           NEW r \in Seq(S), Len(r) = Len(j) - 2, \A i \in 1..Len(r) : r[i] = j[i + 2]
    PROVE  m \o r = j /\ r # <<>>
<1>1. Len(j) \in Nat /\ Len(r) \in Nat
  OBVIOUS
<1>a. m \in Seq(S) /\ r \in Seq(S)
  OBVIOUS
<1>2. /\ m \o r \in Seq(S) /\ Len(m \o r) = 2 + Len(r)
      /\ \A i \in 1..2 + Len(r) : (m \o r)[i] = IF i <= 2 THEN m[i] ELSE r[i - 2]
  <2>1. /\ m \o r \in Seq(S) /\ Len(m \o r) = Len(m) + Len(r)
        /\ \A i \in 1..Len(m) + Len(r) :
             (m \o r)[i] = IF i <= Len(m) THEN m[i] ELSE r[i - Len(m)]
    BY ONLY <1>a, Joined
  <2> QED
    BY <2>1
<1>3. Len(m \o r) = Len(j)
  BY <1>1, <1>2
<1>4. ASSUME NEW i \in 1..Len(m \o r) PROVE (m \o r)[i] = j[i]
  <2>1. (m \o r)[i] = IF i <= 2 THEN m[i] ELSE r[i - 2]
    BY <1>2
  <2>2. CASE i <= 2
    <3>1. i = 1 \/ i = 2
      BY <1>3, <1>1, <2>2
    <3> QED
      BY <3>1, <2>1
  <2>3. CASE ~(i <= 2)
    <3>1. i - 2 \in 1..Len(r) /\ (i - 2) + 2 = i
      BY <1>1, <1>3, <2>3
    <3>2. r[i - 2] = j[(i - 2) + 2]
      BY <3>1
    <3> QED
      BY <3>1, <3>2, <2>1, <2>3
  <2> QED
    BY <2>2, <2>3
<1>5. m \o r = j
  BY <1>2, <1>3, <1>4, SeqEqual
<1>6. r # <<>>
  BY <1>1
<1> QED
  BY <1>5, <1>6

\* A key under the key of a main transcript is that key and a subpath.
LEMMA UnderMain ==
    ASSUME NEW p \in Part, NEW s \in Part, NEW j \in KeySet, Under(MainKey(p, s), j)
    PROVE  /\ Len(j) > 2 /\ j[1] = p /\ j[2] = s
           /\ SubSeq(j, 3, Len(j)) # <<>>
           /\ SubKey(p, s, SubSeq(j, 3, Len(j))) = j
<1> DEFINE m == MainKey(p, s)
           r == SubSeq(j, 3, Len(j))
<1>1. m \in Seq(Part) /\ Len(m) = 2 /\ m[1] = p /\ m[2] = s
  BY DEF MainKey
<1>2. j \in Seq(Part) /\ Len(j) \in Nat
  BY DEF KeySet
<1>3. Len(m) <= Len(j) /\ m # j /\ \A i \in 1..2 : m[i] = j[i]
  BY <1>1, <1>2 DEF Under, IsStrictPrefix, IsPrefix
<1>4. Len(j) # 2
  BY <1>1, <1>2, <1>3, SeqEqual
<1>5. Len(j) > 2 /\ j[1] = p /\ j[2] = s
  BY <1>1, <1>2, <1>3, <1>4
<1>6. r \in Seq(Part) /\ Len(r) = Len(j) - 2 /\ \A i \in 1..Len(r) : r[i] = j[i + 2]
  BY <1>2, <1>5
<1>7. m \o r = j /\ r # <<>>
  <2> HIDE DEF m, r
  <2> QED
    BY <1>1, <1>2, <1>5, <1>6, PairAndRest
<1> QED
  BY <1>5, <1>7 DEF SubKey, MainKey
-----------------------------------------------------------------------------
(* The store *)

\* Every key with data has a write time of its own, none later than the last one given
\* out, and every main transcript has a summary: the fold of all its entries, with the
\* time of the last write.
WellFormed(st) ==
    /\ DOMAIN st.data \subseteq Keys /\ IsFiniteSet(DOMAIN st.data)
    /\ \A k \in DOMAIN st.data : IsSequence(st.data[k])
    /\ DOMAIN st.mtimes = DOMAIN st.data
    /\ st.last_mtime \in Nat
    /\ \A k \in DOMAIN st.data : st.mtimes[k] \in Nat /\ st.mtimes[k] <= st.last_mtime
    /\ \A j, k \in DOMAIN st.data : st.mtimes[j] = st.mtimes[k] => j = k
    /\ DOMAIN st.summaries = {k \in DOMAIN st.data : IsMain(k)}
    /\ \A k \in DOMAIN st.summaries :
        st.summaries[k] = [mtime |-> st.mtimes[k], data |-> Fold(<<>>, st.data[k])]

\* What a write leaves as it was keeps its time, and what it changes gets a later one.
Later(st, after) ==
    /\ after.last_mtime >= st.last_mtime
    /\ \A j \in DOMAIN after.data :
        \/ after.mtimes[j] > st.last_mtime
        \/ /\ j \in DOMAIN st.data /\ after.mtimes[j] = st.mtimes[j]
           /\ after.data[j] = st.data[j]

\* The keys of a listing's rows, by the pair they make.
LEMMA PairsDiffer ==
    ASSUME NEW k \in KeySet, NEW j \in KeySet, IsMain(k), IsMain(j), j[1] = k[1], j[2] = k[2]
    PROVE  j = k
BY MainIsPair

\* A fold of a summary depends on its data, and of nothing is nothing.
LEMMA FoldOf ==
    ASSUME NEW prev, NEW es
    PROVE  /\ FoldSummary(prev, es) = [mtime |-> prev.mtime, data |-> Fold(prev.data, es)]
           /\ FoldSummary(NoSummary, es) = [mtime |-> 0, data |-> Fold(<<>>, es)]
BY DEF FoldSummary, Fold, NoSummary

LEMMA FoldOfNothing == \A d : Fold(d, <<>>) = d
<1> SUFFICES ASSUME NEW d PROVE Fold(d, <<>>) = d
  OBVIOUS
<1> DEFINE prev == [mtime |-> 0, data |-> d]
<1>1. prev.data = d /\ Fold(d, <<>>) = FoldSummary(prev, <<>>).data
  BY DEF Fold
<1> HIDE DEF prev
<1>2. Len(<<>>) = 0
  OBVIOUS
<1>3. PICK f : /\ IsFold(f, d, <<>>, 0)
               /\ FoldSummary(prev, <<>>) = [mtime |-> prev.mtime, data |-> f[0]]
  BY <1>1, <1>2, FoldIs
<1>4. f[0] = d
  BY <1>3 DEF IsFold
<1> QED
  BY <1>1, <1>3, <1>4

LEMMA OnInterval ==
    ASSUME NEW R, NEW n \in Nat, NEW c \in [1..n -> R] PROVE c \in Seq(R)
BY SeqDef

\* What is in a sequence is no matter.
LEMMA InSeq == ASSUME NEW S, NEW c \in Seq(S) PROVE IsSequence(c)
<1> DEFINE R == {c[i] : i \in DOMAIN c}
<1>1. DOMAIN c = 1..Len(c) /\ Len(c) \in Nat /\ c = [i \in 1..Len(c) |-> c[i]]
  OBVIOUS
<1>2. \A i \in 1..Len(c) : c[i] \in R
  BY <1>1
<1> HIDE DEF R
<1>3. c \in [1..Len(c) -> R]
  BY <1>1, <1>2
<1>4. c \in Seq(R)
  BY <1>1, <1>3, OnInterval
<1> QED
  BY <1>4 DEF R, IsSequence

LEMMA SequencesJoin ==
    ASSUME NEW a, IsSequence(a), NEW b, IsSequence(b)
    PROVE  /\ IsSequence(a \o b)
           /\ \A d : Fold(Fold(d, a), b) = Fold(d, a \o b)
<1> DEFINE S == {a[i] : i \in DOMAIN a} \cup {b[i] : i \in DOMAIN b}
<1>1. a \in Seq(S) /\ b \in Seq(S)
  BY SeqMonotonic DEF IsSequence
<1> HIDE DEF S
<1>2. a \o b \in Seq(S)
  BY <1>1, ConcatProperties
<1> QED
  BY <1>1, <1>2, InSeq, FoldJoined

\* append keeps the store well formed and its contract.
LEMMA AppendKeeps ==
    ASSUME NEW st, WellFormed(st), NEW k \in Keys, NEW batch, IsSequence(batch)
    PROVE  /\ WellFormed(AppendTo(st, k, batch)) /\ Later(st, AppendTo(st, k, batch))
           /\ AppendContract(st, k, batch)
<1> DEFINE now == NextMtime(st)
           after == AppendTo(st, k, batch)
           es == Stored(st, k) \o batch
           sum == [mtime |-> now, data |-> Fold(<<>>, es)]
<1>1. /\ after.data = Put(st.data, k, es)
      /\ after.mtimes = Put(st.mtimes, k, now)
      /\ after.last_mtime = now
  BY DEF AppendTo
<1>2. /\ now \in Nat /\ st.last_mtime \in Nat /\ now > st.last_mtime
      /\ sum.mtime = now
  BY DEF NextMtime, WellFormed
<1>3. k \in KeySet /\ DOMAIN st.data \subseteq KeySet
  BY KeysAreKeys DEF WellFormed
<1>a. IsMain(k) => FoldSummary(Summary(st, k), batch).data = Fold(<<>>, es)
  <2>1. CASE k \in DOMAIN st.data
    <3>1. Stored(st, k) = st.data[k] /\ IsSequence(st.data[k])
      BY <2>1 DEF Stored, WellFormed
    <3>2. IsSequence(es) /\ Fold(Fold(<<>>, st.data[k]), batch) = Fold(<<>>, es)
      BY <3>1, SequencesJoin
    <3>3. ASSUME IsMain(k) PROVE Summary(st, k).data = Fold(<<>>, st.data[k])
      <4>1. k \in DOMAIN st.summaries
        BY <2>1, <3>3 DEF WellFormed
      <4>2. st.summaries[k] = [mtime |-> st.mtimes[k], data |-> Fold(<<>>, st.data[k])]
        BY <4>1 DEF WellFormed
      <4>3. st.summaries[k].data = Fold(<<>>, st.data[k])
        BY <4>2
      <4> QED
        BY <4>1, <4>3 DEF Summary
    <3>4. FoldSummary(Summary(st, k), batch).data = Fold(Summary(st, k).data, batch)
      BY FoldOf
    <3> QED
      BY <3>2, <3>3, <3>4
  <2>2. CASE k \notin DOMAIN st.data
    <3>1. Stored(st, k) = <<>> /\ Summary(st, k) = NoSummary
      BY <2>2 DEF Stored, Summary, WellFormed
    <3>2. es = batch
      BY <3>1, ConcatEmptySeq DEF IsSequence
    <3> QED
      BY <3>1, <3>2, FoldOf
  <2> QED
    BY <2>1, <2>2
<1>b. IsSequence(es)
  <2>1. IsSequence(Stored(st, k))
    BY DEF Stored, WellFormed, IsSequence
  <2> QED
    BY <2>1, SequencesJoin
<1>c. after.summaries = IF ~IsMain(k) THEN st.summaries ELSE Put(st.summaries, k, sum)
  BY <1>a DEF AppendTo
<1> HIDE DEF after, now, sum, es
<1>4. /\ DOMAIN after.data = DOMAIN st.data \cup {k}
      /\ after.data[k] = es
      /\ \A j \in DOMAIN st.data \ {k} : after.data[j] = st.data[j]
  <2>1. /\ DOMAIN Put(st.data, k, es) = DOMAIN st.data \cup {k}
        /\ Put(st.data, k, es)[k] = es
        /\ \A j \in DOMAIN st.data \ {k} : Put(st.data, k, es)[j] = st.data[j]
    BY DEF Put
  <2> QED
    BY <2>1, <1>1
<1>5. /\ DOMAIN after.mtimes = DOMAIN st.data \cup {k} /\ after.mtimes[k] = now
      /\ \A j \in DOMAIN st.data \ {k} : after.mtimes[j] = st.mtimes[j]
  <2>1. /\ DOMAIN Put(st.mtimes, k, now) = DOMAIN st.mtimes \cup {k}
        /\ Put(st.mtimes, k, now)[k] = now
        /\ \A j \in DOMAIN st.mtimes \ {k} : Put(st.mtimes, k, now)[j] = st.mtimes[j]
    BY DEF Put
  <2> QED
    BY <2>1, <1>1 DEF WellFormed
<1>6. /\ DOMAIN after.summaries = {j \in DOMAIN after.data : IsMain(j)}
      /\ IsMain(k) => after.summaries[k] = sum
      /\ \A j \in DOMAIN after.summaries \ {k} :
           j \in DOMAIN st.summaries /\ after.summaries[j] = st.summaries[j]
  <2>1. CASE IsMain(k)
    <3>1. /\ DOMAIN Put(st.summaries, k, sum) = DOMAIN st.summaries \cup {k}
          /\ Put(st.summaries, k, sum)[k] = sum
          /\ \A j \in DOMAIN st.summaries \ {k} : Put(st.summaries, k, sum)[j] = st.summaries[j]
      BY DEF Put
    <3>2. after.summaries = Put(st.summaries, k, sum)
      BY <2>1, <1>c
    <3>3. DOMAIN st.summaries = {j \in DOMAIN st.data : IsMain(j)}
      BY DEF WellFormed
    <3>4. DOMAIN after.summaries = {j \in DOMAIN after.data : IsMain(j)}
      BY <3>1, <3>2, <3>3, <2>1, <1>4
    <3> QED
      BY <3>1, <3>2, <3>4
  <2>2. CASE ~IsMain(k)
    BY <2>2, <1>4, <1>c DEF WellFormed
  <2> QED
    BY <2>1, <2>2
<1>7. WellFormed(after)
  <2>1. \A j \in DOMAIN after.data : after.mtimes[j] \in Nat /\ after.mtimes[j] <= now
    BY <1>2, <1>4, <1>5 DEF WellFormed
  <2>2. \A i, j \in DOMAIN after.data : after.mtimes[i] = after.mtimes[j] => i = j
    <3>1. \A j \in DOMAIN st.data : st.mtimes[j] < now
      BY <1>2 DEF WellFormed
    <3> QED
      BY <3>1, <1>2, <1>4, <1>5 DEF WellFormed
  <2>3. \A j \in DOMAIN after.data : IsSequence(after.data[j])
    BY <1>b, <1>4 DEF WellFormed
  <2>4. \A j \in DOMAIN after.summaries :
          after.summaries[j] = [mtime |-> after.mtimes[j], data |-> Fold(<<>>, after.data[j])]
    <3> SUFFICES ASSUME NEW j \in DOMAIN after.summaries
                 PROVE  after.summaries[j] = [mtime |-> after.mtimes[j],
                                              data |-> Fold(<<>>, after.data[j])]
      OBVIOUS
    <3>1. CASE j = k
      BY <3>1, <1>4, <1>5, <1>6 DEF sum
    <3>2. CASE j # k
      BY <3>2, <1>4, <1>5, <1>6 DEF WellFormed
    <3> QED
      BY <3>1, <3>2
  <2>5. IsFiniteSet(DOMAIN after.data)
    BY <1>4, FS_AddElement DEF WellFormed
  <2>6. DOMAIN after.data \subseteq Keys /\ DOMAIN after.mtimes = DOMAIN after.data
    BY <1>4, <1>5 DEF WellFormed
  <2> QED
    BY <2>1, <2>2, <2>3, <2>4, <2>5, <2>6, <1>1, <1>2, <1>6 DEF WellFormed
<1>8. /\ Load(after, k) = Stored(st, k) \o batch
      /\ \A j \in DOMAIN st.data \ {k} : j \in DOMAIN after.data /\ Load(after, j) = Load(st, j)
  BY <1>4 DEF Load, Stored, es
<1>9. \A j \in DOMAIN after.summaries \ {k} : Summary(after, j) = Summary(st, j)
  BY <1>6 DEF Summary
<1>10. ASSUME IsMain(k)
       PROVE  /\ [session_id |-> k[2], mtime |-> after.mtimes[k]] \in ListSessions(after, k[1])
              /\ \A t \in ListSessions(st, k[1]) : after.mtimes[k] > t.mtime
              /\ \A s \in ListSessionSummaries(after, k[1]) :
                   s.session_id = k[2] => s.mtime >= after.mtimes[k]
  <2>1. [session_id |-> k[2], mtime |-> after.mtimes[k]] \in ListSessions(after, k[1])
    BY <1>4, <1>10 DEF ListSessions
  <2>2. ASSUME NEW t \in ListSessions(st, k[1]) PROVE after.mtimes[k] > t.mtime
    <3>1. PICK j \in DOMAIN st.data : t.mtime = st.mtimes[j]
      BY <2>2 DEF ListSessions
    <3>2. st.mtimes[j] \in Nat /\ st.mtimes[j] <= st.last_mtime
      BY <3>1 DEF WellFormed
    <3> QED
      BY <3>1, <3>2, <1>2, <1>5
  <2>3. ASSUME NEW s \in ListSessionSummaries(after, k[1]), s.session_id = k[2]
        PROVE  s.mtime >= after.mtimes[k]
    <3>1. PICK j \in DOMAIN after.summaries :
            j[1] = k[1] /\ s.session_id = j[2] /\ s.mtime = after.summaries[j].mtime
      BY <2>3 DEF ListSessionSummaries
    <3>2. j \in KeySet /\ IsMain(j)
      BY <1>7, <3>1, KeysAreKeys DEF WellFormed
    <3>3. j = k
      BY <3>1, <3>2, <2>3, <1>3, <1>10, PairsDiffer
    <3>4. s.mtime = now /\ after.mtimes[k] = now
      BY <3>1, <3>3, <1>2, <1>5, <1>6, <1>10
    <3> QED
      BY <3>4, <1>2
  <2> QED
    BY <2>1, <2>2, <2>3
<1>11. Appended(st, after, k, batch)
  BY <1>8, <1>9, <1>10 DEF Appended
<1>12. Later(st, after)
  BY <1>1, <1>2, <1>4, <1>5 DEF Later
<1> QED
  BY <1>7, <1>11, <1>12 DEF after, AppendContract

\* delete does, too.
LEMMA DeleteKeeps ==
    ASSUME NEW st, WellFormed(st), NEW k \in Keys
    PROVE  /\ WellFormed(DeleteKey(st, k)) /\ Later(st, DeleteKey(st, k))
           /\ DeleteContract(st, k)
<1> DEFINE gone == {k} \cup IF IsMain(k) THEN {j \in DOMAIN st.data : Under(k, j)} ELSE {}
           after == DeleteKey(st, k)
<1>1. /\ after.data = [j \in DOMAIN st.data \ gone |-> st.data[j]]
      /\ after.mtimes = [j \in DOMAIN st.mtimes \ gone |-> st.mtimes[j]]
      /\ after.summaries = [j \in DOMAIN st.summaries \ gone |-> st.summaries[j]]
      /\ after.last_mtime = st.last_mtime
  BY DEF DeleteKey
<1>2. k \in gone /\ \A j \in gone : j = k \/ (IsMain(k) /\ Under(k, j))
  OBVIOUS
<1>3. IsMain(k) => \A j \in DOMAIN st.data : Under(k, j) => j \in gone
  OBVIOUS
<1>4. k \in KeySet /\ DOMAIN st.data \subseteq KeySet
  BY KeysAreKeys DEF WellFormed
<1> HIDE DEF gone, after
<1>5. WellFormed(after)
  <2>1. IsFiniteSet(DOMAIN after.data)
    BY <1>1, FS_Subset DEF WellFormed
  <2> QED
    BY <1>1, <2>1 DEF WellFormed
<1>6. k \notin DOMAIN after.data
  BY <1>1, <1>2
<1>7. ASSUME IsMain(k)
      PROVE  /\ ListSubkeys(after, k[1], k[2]) = {}
             /\ \A s \in ListSessions(after, k[1]) \cup ListSessionSummaries(after, k[1]) :
                  s.session_id # k[2]
  <2>1. k = MainKey(k[1], k[2])
    BY <1>4, <1>7, MainIsPair
  <2>2. \A j \in DOMAIN after.data : ~Under(MainKey(k[1], k[2]), j)
    BY <1>1, <1>3, <1>7, <2>1
  <2>3. ListSubkeys(after, k[1], k[2]) = {}
    BY <2>2 DEF ListSubkeys
  <2>4. ASSUME NEW s \in ListSessions(after, k[1]) \cup ListSessionSummaries(after, k[1]),
               s.session_id = k[2]
        PROVE  FALSE
    <3>1. PICK j \in DOMAIN after.data : IsMain(j) /\ j[1] = k[1] /\ s.session_id = j[2]
      BY <1>5, <2>4 DEF ListSessions, ListSessionSummaries, WellFormed
    <3>2. j = k
      BY <3>1, <2>4, <1>1, <1>4, <1>7, PairsDiffer
    <3> QED
      BY <3>1, <3>2, <1>6
  <2> QED
    BY <2>3, <2>4
<1>8. ASSUME NEW j \in DOMAIN st.data, j # k, ~(IsMain(k) /\ Under(k, j))
      PROVE  j \in DOMAIN after.data /\ Load(after, j) = Load(st, j)
  BY <1>1, <1>2, <1>8 DEF Load, Stored
<1>9. Deleted(st, after, k)
  BY <1>6, <1>7, <1>8 DEF Deleted
<1>10. Later(st, after)
  BY <1>1 DEF Later, WellFormed
<1> QED
  BY <1>5, <1>9, <1>10 DEF after, DeleteContract

LEMMA ListingHolds ==
    ASSUME NEW st, WellFormed(st), NEW k \in Keys
    PROVE  ListingContract(st, k)
<1>1. k \in KeySet /\ DOMAIN st.data \subseteq KeySet
  BY KeysAreKeys DEF WellFormed
<1>2. k[1] \in Part /\ k[2] \in Part
  BY <1>1 DEF KeySet
<1>3. ASSUME NEW s \in ListSessions(st, k[1])
      PROVE  MainKey(k[1], s.session_id) \in DOMAIN st.data
  <2>1. PICK j \in DOMAIN st.data : IsMain(j) /\ j[1] = k[1] /\ s.session_id = j[2]
    BY <1>3 DEF ListSessions
  <2> QED
    BY <2>1, <1>1, MainIsPair
<1>4. ASSUME NEW p \in ListSubkeys(st, k[1], k[2])
      PROVE  p # <<>> /\ SubKey(k[1], k[2], p) \in DOMAIN st.data
  <2>1. PICK j \in DOMAIN st.data : Under(MainKey(k[1], k[2]), j) /\ p = SubSeq(j, 3, Len(j))
    BY <1>4 DEF ListSubkeys
  <2> QED
    BY <2>1, <1>1, <1>2, UnderMain
<1> QED
  BY <1>3, <1>4 DEF ListingContract

LEMMA ContractsHold == WellFormed(store) => Conforms
<1>1. \A b \in MirrorBatches : IsSequence(b.entries)
  BY CallsAssumption
<1> QED
  BY <1>1, AppendKeeps, DeleteKeeps, ListingHolds DEF Conforms

LEMMA FoldsHold == WellFormed(store) => SummariesCurrent
<1> SUFFICES ASSUME WellFormed(store), NEW k \in DOMAIN store.summaries
             PROVE  store.summaries[k] = [mtime |-> store.mtimes[k],
                                          data |-> FoldSummary(NoSummary, store.data[k]).data]
  BY DEF SummariesCurrent, WellFormed
<1>1. FoldSummary(NoSummary, store.data[k]).data = Fold(<<>>, store.data[k])
  BY FoldOf
<1> QED
  BY <1>1 DEF WellFormed

-----------------------------------------------------------------------------
(* The call under way *)

\* The sessions a resume may pick, and the rows it picks from.
Ids == {s \in Part : s # Absent /\ MainKey(Project, s) \in Keys}
Row == [session_id : Ids, mtime : Nat]

\* The forms of a call.  What else it holds, in a set S, does not matter.
Opening(S) == [op : {"list"}, at : {"summaries", "sessions"}, limit : S, caps : S, sums : S]
Loading(S) == [op : {"list"}, at : {"load"}, limit : S, caps : S, page : S]
Shown(S) == [op : {"list"}, at : {"done"}, limit : S, rows : S]
Resuming(S) ==
    [op : {"resume"}, at : {"sessions", "candidate", "subkeys", "subs", "done"},
     sid : S, subkeys : S, listed : SUBSET Row, candidates : SUBSET Row,
     picked : S, main : S, left : SUBSET S, files : S]
Importing(S) ==
    [op : {"import"}, at : {"append"}, key : Keys, left : Seq(Seq(S)), subs : Seq(DOMAIN Disk)]
Over(S) == [op : {"none", "import", "failed"}, at : {"done"}]
CallOf(S) == UNION {Opening(S), Loading(S), Shown(S), Resuming(S), Importing(S), Over(S)}
CallShape == \E S : call \in CallOf(S)

\* A resume: what the store holds was seen; the candidates are what is left of the
\* listing, or the session that was asked for.
WasSeen(k, es) == <<k, es>> \in seen
Side(es) == es # <<>> /\ IsSet(es[1], "isSidechain")
Passed(r) == \E es : WasSeen(MainKey(Project, r.session_id), es) /\ (es = <<>> \/ Side(es))
Newer(r) == \A q \in call.listed : q.session_id = call.picked => r.mtime > q.mtime

SearchInv ==
    /\ call.at # "done" => Snapshot(store) \subseteq seen
    /\ call.at = "sessions" => call.sid = Absent
    /\ call.sid = Absent => call.candidates \subseteq call.listed
    /\ call.sid # Absent => /\ call.listed = {}
                            /\ \A r \in call.candidates : r.session_id = call.sid
    /\ call.at \in {"sessions", "candidate"} =>
         call.picked = Absent /\ call.files = <<>> /\ call.left = {}
    /\ call.at = "candidate" => \A r \in call.listed \ call.candidates : Passed(r)

\* What it picked, and what it has of it.
PickInv ==
    /\ call.at \in {"subkeys", "subs"} => call.picked \in Ids
    /\ call.at \in {"subkeys", "subs", "done"} => \A r \in call.listed : Newer(r) => Passed(r)
    /\ call.picked # Absent =>
         /\ call.main # <<>> /\ WasSeen(MainKey(Project, call.picked), call.main)
         /\ call.sid = Absent => ~Side(call.main)
         /\ call.sid # Absent => call.picked = call.sid
    /\ \A p \in call.left : SubKey(Project, call.picked, p) \in Keys
    /\ \A p \in DOMAIN call.files :
         \E es : /\ WasSeen(SubKey(Project, call.picked, p), es)
                 /\ call.files[p] = Materialized(es)

ResumeInv == call.op = "resume" => SearchInv /\ PickInv

IInv == WellFormed(store) /\ CallShape /\ ResumeInv

LEMMA InitIInv == Init => IInv
<1> SUFFICES ASSUME Init PROVE IInv
  OBVIOUS
<1>1. WellFormed(store)
  <2>1. /\ store.data = <<>> /\ store.mtimes = <<>> /\ store.summaries = <<>>
        /\ store.last_mtime = 0
    BY DEF Init, EmptyStore
  <2>2. DOMAIN <<>> = {}
    OBVIOUS
  <2>3. IsFiniteSet({})
    BY FS_EmptySet
  <2> QED
    BY <2>1, <2>2, <2>3 DEF WellFormed
<1>2. Idle \in Over({})
  BY DEF Idle, Over
<1>3. CallShape
  BY <1>2 DEF Init, CallShape, CallOf
<1>4. call.op # "resume"
  BY DEF Init, Idle
<1> QED
  BY <1>1, <1>3, <1>4 DEF IInv, ResumeInv

\* A call of one form is of no other.
LEMMA Forms ==
    ASSUME CallShape
    PROVE  /\ call.op = "list" /\ call.at \in {"summaries", "sessions"} =>
                \E S : call \in Opening(S)
           /\ call.op = "list" /\ call.at = "load" => \E S : call \in Loading(S)
           /\ call.op = "resume" => \E S : call \in Resuming(S)
           /\ call.op = "import" /\ call.at = "append" => \E S : call \in Importing(S)
<1>1. PICK S : call \in CallOf(S)
  BY DEF CallShape
<1> QED
  BY <1>1 DEF CallOf, Opening, Loading, Shown, Resuming, Importing, Over

\* What others write keeps the store well formed.
StoreMoves == WellFormed(store') /\ Later(store, store')

LEMMA StoreStep == IInv /\ [Next]_vars => StoreMoves
<1> SUFFICES ASSUME IInv, [Next]_vars PROVE StoreMoves
  OBVIOUS
<1> WellFormed(store) /\ CallShape
  BY DEF IInv
<1>1. CASE store' = store
  BY <1>1 DEF StoreMoves, Later, WellFormed
<1>2. ASSUME NEW b \in MirrorBatches, store' = AppendTo(store, b.key, b.entries)
      PROVE  StoreMoves
  <2>1. b.key \in Keys /\ IsSequence(b.entries)
    BY CallsAssumption DEF Keys, GivenKeys
  <2>2. /\ WellFormed(AppendTo(store, b.key, b.entries))
        /\ Later(store, AppendTo(store, b.key, b.entries))
    BY <2>1, AppendKeeps
  <2> QED
    BY <1>2, <2>2 DEF StoreMoves
<1>3. ASSUME NEW s \in Sessions, NEW e, store' = AppendTo(store, MainKey(Project, s), <<e>>)
      PROVE  StoreMoves
  <2>0. <<e>> \in Seq({e})
    OBVIOUS
  <2>1. /\ WellFormed(AppendTo(store, MainKey(Project, s), <<e>>))
        /\ Later(store, AppendTo(store, MainKey(Project, s), <<e>>))
    BY <2>0, InSeq, KeysAreKeys, AppendKeeps
  <2> QED
    BY <1>3, <2>1 DEF StoreMoves
<1>4. ASSUME NEW s \in Sessions, store' = DeleteKey(store, MainKey(Project, s))
      PROVE  StoreMoves
  <2>1. /\ WellFormed(DeleteKey(store, MainKey(Project, s)))
        /\ Later(store, DeleteKey(store, MainKey(Project, s)))
    BY KeysAreKeys, DeleteKeeps
  <2> QED
    BY <1>4, <2>1 DEF StoreMoves
<1>5. ASSUME ImportAppend PROVE StoreMoves
  <2>1. call.key \in Keys /\ IsSequence(Head(call.left))
    <3>1. PICK S : call \in Importing(S)
      BY <1>5, Forms DEF ImportAppend
    <3>2. call.left # <<>>
      BY <1>5 DEF ImportAppend
    <3>3. PICK T : call.left \in Seq(Seq(T)) /\ call.key \in Keys
      BY <3>1 DEF Importing
    <3>4. Head(call.left) \in Seq(T)
      BY <3>2, <3>3
    <3> QED
      BY <3>3, <3>4, InSeq
  <2>2. /\ WellFormed(AppendTo(store, call.key, Head(call.left)))
        /\ Later(store, AppendTo(store, call.key, Head(call.left)))
    BY <2>1, AppendKeeps
  <2> QED
    BY <1>5, <2>2 DEF ImportAppend, StoreMoves
<1>6. Mirror => StoreMoves
  BY <1>2 DEF Mirror, Written
<1>7. ASSUME NEW s \in Sessions, Delete(s) \/ (\E t \in Titles : Rename(s, t))
                                  \/ \E t \in Tags : TagSession(s, t)
      PROVE  StoreMoves
  BY <1>7, <1>3, <1>4 DEF Delete, Rename, TagSession, Written
<1>8. Next => \/ UNCHANGED store \/ ImportAppend \/ Mirror
              \/ \E s \in Sessions : Delete(s) \/ (\E t \in Titles : Rename(s, t))
                                       \/ \E t \in Tags : TagSession(s, t)
  BY DEF Next, List, ReadSummaries, ReadListing, Listed, LoadGap, LoadGapFails, Resume,
         ReadCandidates, NothingToResume, LoadCandidate, ReadSubkeys, Materialize, LoadSubkey,
         ReadFails, Import, ImportSubagent, Imported, ImportFails, Reads
<1>9. CASE Next
  BY <1>1, <1>5, <1>6, <1>7, <1>8, <1>9
<1> QED
  BY <1>1, <1>9 DEF vars

\* The elements of a finite set in some order.
LEMMA SetInOrder ==
    ASSUME NEW S, IsFiniteSet(S), NEW T \in SUBSET S
    PROVE  SetToSeq(T) \in Seq(S)
<1>1. IsFiniteSet(T)
  BY FS_Subset
<1>2. Cardinality(T) \in Nat /\ ExistsBijection(1..Cardinality(T), T)
  BY <1>1, FS_CardinalityType
<1>3. \E f \in [1..Cardinality(T) -> T] : IsInjective(f)
  BY <1>2 DEF ExistsBijection, Bijection, Injection, IsInjective
<1>4. SetToSeq(T) \in [1..Cardinality(T) -> T]
  BY <1>3 DEF SetToSeq
<1> QED
  BY <1>2, <1>4

\* What an import appends are sequences.
LEMMA BatchesAreParts == ASSUME NEW S, NEW lines \in Seq(S) PROVE Batches(lines) \in Seq(Seq(S))
<1> DEFINE n == (Len(lines) + BatchSize - 1) \div BatchSize
           last(i) == IF i * BatchSize < Len(lines) THEN i * BatchSize ELSE Len(lines)
           batches == [i \in 1..n |-> SubSeq(lines, (i - 1) * BatchSize + 1, last(i))]
<1>1. BatchSize \in Nat \ {0} /\ Len(lines) \in Nat
  BY CallsAssumption
<1>2. n \in Nat
  <2>1. Len(lines) + BatchSize - 1 \in Nat
    BY <1>1
  <2> QED
    BY <1>1, <2>1
<1>3. ASSUME NEW i \in 1..n PROVE SubSeq(lines, (i - 1) * BatchSize + 1, last(i)) \in Seq(S)
  <2>1. i \in Nat /\ i - 1 \in Nat
    BY <1>2
  <2>2. i * BatchSize \in Nat /\ (i - 1) * BatchSize \in Nat
    BY <1>1, <2>1
  <2>3. (i - 1) * BatchSize + 1 \in Nat \ {0} /\ last(i) \in Nat /\ last(i) <= Len(lines)
    BY <1>1, <2>2
  <2> QED
    BY <2>3
<1> HIDE DEF n, last
<1>4. batches \in [1..n -> Seq(S)]
  BY <1>3
<1>5. batches \in Seq(Seq(S))
  BY <1>2, <1>4, OnInterval
<1> QED
  BY <1>5 DEF Batches, n, last

LEMMA ImportsAreParts == ASSUME NEW k \in DOMAIN Disk PROVE \E S : ImportsOf(k) \in Seq(Seq(S))
<1> DEFINE lines == Disk[k].lines
           sidecar == Sidecar(Disk[k].meta)
           S == {lines[i] : i \in DOMAIN lines} \cup {sidecar}
           rest == IF Disk[k].meta = NoMeta THEN <<>> ELSE <<<<sidecar>>>>
<1>a. IsSequence(lines)
  BY CallsAssumption DEF IsTranscript
<1>1. lines \in Seq(S)
  BY ONLY <1>a, SeqMonotonic DEF IsSequence
<1>2. rest \in Seq(Seq(S))
  <2>1. sidecar \in S
    OBVIOUS
  <2> HIDE DEF S, sidecar
  <2> QED
    BY <2>1
<1> HIDE DEF S
<1>3. Batches(lines) \in Seq(Seq(S))
  BY <1>1, BatchesAreParts
<1>4. Batches(lines) \o rest \in Seq(Seq(S))
  <2> DEFINE b == Batches(lines)
  <2> HIDE DEF b, rest
  <2>1. b \in Seq(Seq(S)) /\ rest \in Seq(Seq(S))
    BY <1>2, <1>3 DEF b
  <2>2. b \o rest \in Seq(Seq(S))
    BY <2>1, ConcatProperties
  <2> QED
    BY <2>2 DEF b
<1> QED
  BY <1>4 DEF ImportsOf

\* Which steps move a resume, and which have nothing to do with one.
ResumeStep ==
    \/ ReadCandidates \/ NothingToResume \/ ReadSubkeys \/ Materialize
    \/ call.op = "resume" /\ \E r \in call.candidates : LoadCandidate(r)
    \/ call.op = "resume" /\ \E p \in call.left : LoadSubkey(p)

\* A listing and an import keep to their forms.
LEMMA OtherShapes ==
    ASSUME IInv
    PROVE  /\ (\E limit \in Limits, caps \in Adapters : List(limit, caps)) \/ ReadSummaries
                \/ ReadListing \/ Listed \/ (\E i \in 1..Cardinality(Sessions) :
                                                LoadGap(i) \/ LoadGapFails(i))
              => CallShape' /\ call'.op # "resume"
           /\ Import \/ ImportAppend \/ ImportSubagent \/ Imported \/ ImportFails \/ ReadFails
              => CallShape' /\ call'.op # "resume"
<1> CallShape
  BY DEF IInv
<1> USE DEF CallShape, CallOf
<1>1. ASSUME NEW limit \in Limits, NEW caps \in Adapters, List(limit, caps)
      PROVE  CallShape' /\ call'.op # "resume"
  <2>1. call' \in Opening({limit, caps, {}}) /\ call'.op = "list"
    BY <1>1 DEF List, Begin, Opening
  <2> QED
    BY <2>1
<1>2. ASSUME NEW sums, NEW rows, call.op = "list", call' = Opened(call, sums, rows)
      PROVE  CallShape' /\ call'.op # "resume"
  <2>1. PICK page : call' = [op |-> "list", at |-> "load", limit |-> call.limit,
                             caps |-> call.caps, page |-> page]
    BY <1>2 DEF Opened
  <2>2. call' \in Loading({call.limit, call.caps, page}) /\ call'.op = "list"
    BY <2>1 DEF Loading
  <2> QED
    BY <2>2
<1>3. ASSUME ReadSummaries PROVE CallShape' /\ call'.op # "resume"
  <2> DEFINE sums == ListSessionSummaries(store, Project)
  <2>1. PICK S : call \in Opening(S)
    BY <1>3, Forms DEF ReadSummaries
  <2>2. CASE call' = [call EXCEPT !.at = "sessions", !.sums = sums]
    <3> HIDE DEF sums
    <3>1. call' \in Opening(S \cup {sums}) /\ call'.op = "list"
      BY <2>1, <2>2 DEF Opening
    <3> QED
      BY <3>1
  <2> QED
    BY <1>2, <1>3, <2>2 DEF ReadSummaries
<1>4. ReadListing => CallShape' /\ call'.op # "resume"
  BY <1>2 DEF ReadListing
<1>5. ASSUME NEW i, NEW info, call.op = "list", call.at = "load",
             call' = [call EXCEPT !.page[i].info = info]
      PROVE  CallShape' /\ call'.op # "resume"
  <2>1. PICK S : call \in Loading(S)
    BY <1>5, Forms
  <2>2. PICK page : call' = [call EXCEPT !.page = page]
    BY <1>5
  <2>3. call' \in Loading(S \cup {page}) /\ call'.op = "list"
    BY <2>1, <2>2 DEF Loading
  <2> QED
    BY <2>3
<1>6. ASSUME NEW i, LoadGap(i) \/ LoadGapFails(i) PROVE CallShape' /\ call'.op # "resume"
  BY <1>5, <1>6 DEF LoadGap, LoadGapFails
<1>7. ASSUME Listed PROVE CallShape' /\ call'.op # "resume"
  <2>1. PICK rows : call' = [op |-> "list", at |-> "done", limit |-> call.limit, rows |-> rows]
    BY <1>7 DEF Listed
  <2>2. call' \in Shown({call.limit, rows}) /\ call'.op = "list"
    BY <2>1 DEF Shown
  <2> QED
    BY <2>2
<1>8. ASSUME Imported \/ ImportFails \/ ReadFails PROVE CallShape' /\ call'.op # "resume"
  <2>1. call' \in Over({}) /\ call'.op # "resume"
    BY <1>8 DEF Imported, ImportFails, ReadFails, Over
  <2> QED
    BY <2>1
<1>9. DiskMain \in DOMAIN Disk /\ DOMAIN Disk \subseteq Keys
  BY CallsAssumption DEF DiskMain, Keys, GivenKeys
<1>10. ASSUME Import PROVE CallShape' /\ call'.op # "resume"
  <2>1. SetToSeq(DOMAIN Disk \ {DiskMain}) \in Seq(DOMAIN Disk)
    BY SetInOrder, CallsAssumption
  <2> DEFINE left == ImportsOf(DiskMain)
             subs == SetToSeq(DOMAIN Disk \ {DiskMain})
  <2>2. call' = [op |-> "import", at |-> "append", key |-> DiskMain, left |-> left,
                 subs |-> subs]
    BY <1>10 DEF Import, Begin
  <2>a. PICK S : left \in Seq(Seq(S))
    BY <1>9, ImportsAreParts
  <2> HIDE DEF left, subs
  <2>3. call' \in Importing(S) /\ call'.op = "import"
    BY <1>9, <2>1, <2>2, <2>a DEF Importing, subs
  <2> QED
    BY <2>3
<1>11. ASSUME ImportAppend PROVE CallShape' /\ call'.op # "resume"
  <2>1. PICK S : call \in Importing(S)
    BY <1>11, Forms DEF ImportAppend
  <2> DEFINE left == Tail(call.left)
  <2>2. call' = [call EXCEPT !.left = left] /\ call.left # <<>>
    BY <1>11 DEF ImportAppend
  <2>a. left \in Seq(Seq(S))
    BY <2>1, <2>2 DEF Importing
  <2> HIDE DEF left
  <2>3. call' \in Importing(S) /\ call'.op = "import"
    BY <2>1, <2>2, <2>a DEF Importing
  <2> QED
    BY <2>3
<1>12. ASSUME ImportSubagent PROVE CallShape' /\ call'.op # "resume"
  <2>1. PICK S : call \in Importing(S)
    BY <1>12, Forms DEF ImportSubagent
  <2>2. Head(call.subs) \in DOMAIN Disk /\ Tail(call.subs) \in Seq(DOMAIN Disk)
    BY <2>1, <1>12 DEF Importing, ImportSubagent
  <2> DEFINE left == ImportsOf(Head(call.subs))
             key == Head(call.subs)
             subs == Tail(call.subs)
  <2>3. call' = [call EXCEPT !.key = key, !.left = left, !.subs = subs]
    BY <1>12 DEF ImportSubagent
  <2>4. key \in Keys /\ subs \in Seq(DOMAIN Disk)
    BY <1>9, <2>2
  <2>a. PICK T : left \in Seq(Seq(T))
    BY <2>2, ImportsAreParts
  <2> HIDE DEF left, key, subs
  <2>5. call' \in Importing(T) /\ call'.op = "import"
    BY <2>1, <2>3, <2>4, <2>a DEF Importing
  <2> QED
    BY <2>5
<1> QED
  BY <1>1, <1>3, <1>4, <1>6, <1>7, <1>8, <1>10, <1>11, <1>12

\* What the store holds is seen, under every key.
LEMMA SeenNow ==
    ASSUME Snapshot(store) \subseteq seen, NEW k \in Keys
    PROVE  WasSeen(k, Load(store, k))
BY DEF Snapshot, WasSeen, Load

\* A listing has rows of sessions only.
LEMMA ListingRows == WellFormed(store) => ListSessions(store, Project) \subseteq Row
<1> SUFFICES ASSUME WellFormed(store), NEW r \in ListSessions(store, Project) PROVE r \in Row
  OBVIOUS
<1>1. PICK k \in DOMAIN store.data :
        /\ IsMain(k) /\ k[1] = Project
        /\ r = [session_id |-> k[2], mtime |-> store.mtimes[k]]
  BY DEF ListSessions
<1>2. k \in Keys /\ k \in KeySet /\ store.mtimes[k] \in Nat
  BY KeysAreKeys DEF WellFormed
<1>3. k = MainKey(Project, k[2])
  BY <1>1, <1>2, MainIsPair
<1>4. k[2] \in Part /\ k[2] # Absent
  <2>1. k[2] \in Part
    BY <1>2 DEF KeySet
  <2>2. k[2] # Absent
    <3>1. CASE k \in GivenKeys
      BY <3>1, CallsAssumption
    <3>2. ASSUME NEW s \in Sessions, k = MainKey(Project, s) PROVE k[2] # Absent
      BY <3>2, CallsAssumption DEF Sessions, MainKey
    <3> QED
      BY <1>2, <3>1, <3>2 DEF Keys
  <2> QED
    BY <2>1, <2>2
<1>5. k[2] \in Ids
  BY <1>2, <1>3, <1>4 DEF Ids
<1> QED
  BY <1>1, <1>2, <1>5 DEF Row

\* A session that may be asked for is one that may be picked.
LEMMA SessionsAreIds == Sessions \subseteq Ids
<1>1. \A s \in Sessions : s # Absent
  BY CallsAssumption DEF Sessions
<1> QED
  BY <1>1, KeysAreKeys DEF Ids

\* A resume begins with nothing.
LEMMA BeginResume ==
    ASSUME IInv, NEW s \in Sessions \cup {Absent}, NEW caps \in Adapters, Resume(s, caps)
    PROVE  CallShape' /\ ResumeInv'
<1> DEFINE rows == IF s = Absent THEN {} ELSE {[session_id |-> s, mtime |-> 0]}
           at == IF s = Absent THEN "sessions" ELSE "candidate"
           subkeys == caps.subkeys
<1>1. call' = [op |-> "resume", at |-> at, sid |-> s, subkeys |-> subkeys, listed |-> {},
               candidates |-> rows, picked |-> Absent, main |-> <<>>, left |-> {},
               files |-> <<>>]
  BY DEF Resume, Begin
<1>2. seen' = Snapshot(store) /\ store' = store
  BY DEF Resume
<1>3. rows \in SUBSET Row /\ \A r \in rows : r.session_id = s
  BY SessionsAreIds DEF Row
<1>4. /\ at \in {"sessions", "candidate"}
      /\ at = "sessions" => s = Absent
      /\ s = Absent => rows = {}
  OBVIOUS
<1> HIDE DEF rows, at, subkeys
<1>5. call' \in Resuming({s, subkeys, Absent, <<>>})
  BY <1>1, <1>3, <1>4 DEF Resuming
<1>6. CallShape'
  BY <1>5 DEF CallShape, CallOf
<1>7. /\ call'.at = at /\ call'.sid = s /\ call'.listed = {} /\ call'.candidates = rows
      /\ call'.picked = Absent /\ call'.left = {} /\ call'.files = <<>>
  BY <1>1
<1>8. SearchInv'
  BY <1>2, <1>3, <1>4, <1>7 DEF SearchInv, Snapshot
<1>9. PickInv'
  BY <1>4, <1>7 DEF PickInv
<1> QED
  BY <1>6, <1>8, <1>9 DEF ResumeInv

LEMMA ReadCandidatesStep ==
    ASSUME IInv, ReadCandidates PROVE CallShape' /\ ResumeInv'
<1> DEFINE rows == ListSessions(store, Project)
<1>1. PICK S : call \in Resuming(S)
  BY Forms DEF IInv, ReadCandidates
<1>2. call' = [call EXCEPT !.at = "candidate", !.listed = rows, !.candidates = rows]
  BY DEF ReadCandidates
<1>3. rows \in SUBSET Row
  BY ListingRows DEF IInv
<1>4. seen' = Snapshot(store) /\ store' = store
  BY DEF ReadCandidates, Reads
<1>5. call.op = "resume" /\ call.at = "sessions" /\ SearchInv /\ PickInv
  BY DEF IInv, ResumeInv, ReadCandidates
<1> HIDE DEF rows
<1>6. /\ call' \in Resuming(S)
      /\ call'.at = "candidate" /\ call'.listed = rows /\ call'.candidates = rows
      /\ call'.sid = call.sid /\ call'.picked = call.picked /\ call'.left = call.left
      /\ call'.files = call.files
  BY <1>1, <1>2, <1>3 DEF Resuming
<1>7. call.sid = Absent /\ call.picked = Absent /\ call.files = <<>> /\ call.left = {}
  BY <1>5 DEF SearchInv
<1>8. SearchInv'
  BY <1>4, <1>6, <1>7 DEF SearchInv, Snapshot
<1>9. PickInv'
  BY <1>5, <1>6, <1>7 DEF PickInv
<1> QED
  BY <1>6, <1>8, <1>9 DEF ResumeInv, CallShape, CallOf

\* Nothing is left: all that was listed was passed.
LEMMA NothingStep ==
    ASSUME IInv, NothingToResume PROVE CallShape' /\ ResumeInv'
<1>1. PICK S : call \in Resuming(S)
  BY Forms DEF IInv, NothingToResume
<1>2. call' = [call EXCEPT !.at = "done"] /\ call.candidates = {} /\ seen' = seen
  BY DEF NothingToResume
<1>3. call.op = "resume" /\ call.at = "candidate" /\ SearchInv /\ PickInv
  BY DEF IInv, ResumeInv, NothingToResume
<1>4. /\ call' \in Resuming(S)
      /\ call'.at = "done" /\ call'.listed = call.listed /\ call'.candidates = {}
      /\ call'.sid = call.sid /\ call'.picked = call.picked /\ call'.left = call.left
      /\ call'.files = call.files
  BY <1>1, <1>2 DEF Resuming
<1>5. \A r \in call.listed : Passed(r)
  BY <1>2, <1>3 DEF SearchInv
<1>6. SearchInv'
  BY <1>3, <1>4 DEF SearchInv
<1>7. \A r \in call'.listed : Passed(r)'
  BY <1>2, <1>4, <1>5 DEF Passed, WasSeen
<1>8. call.picked = Absent /\ call.files = <<>>
  BY <1>3 DEF SearchInv
<1>9. PickInv'
  BY <1>3, <1>4, <1>7, <1>8 DEF PickInv
<1> QED
  BY <1>4, <1>6, <1>9 DEF ResumeInv, CallShape, CallOf

\* A candidate that is passed was seen so; with the one that is picked the newer
\* ones have all been passed.
LEMMA LoadCandidateStep ==
    ASSUME IInv, NEW r \in call.candidates, LoadCandidate(r) PROVE CallShape' /\ ResumeInv'
<1> DEFINE k == MainKey(Project, r.session_id)
           es == Load(store, k)
<1>1. PICK S : call \in Resuming(S)
  BY Forms DEF IInv, LoadCandidate
<1>2. seen' = seen /\ store' = store
  BY DEF LoadCandidate, Reads
<1>3. call.op = "resume" /\ call.at = "candidate" /\ SearchInv /\ PickInv
  BY DEF IInv, ResumeInv, LoadCandidate
<1>4. r \in Row /\ call.candidates \subseteq Row /\ call.listed \subseteq Row
  BY <1>1 DEF Resuming
<1>5. r.session_id \in Ids /\ k \in Keys
  BY <1>4 DEF Row, Ids
<1>6. WasSeen(k, es)
  BY <1>3, <1>5, SeenNow DEF SearchInv
<1>7. call.picked = Absent /\ call.files = <<>>
  BY <1>3 DEF SearchInv
<1>8. ASSUME IsSkipped(es), call' = [call EXCEPT !.candidates = @ \ {r}]
      PROVE  CallShape' /\ ResumeInv'
  <2>1. /\ call' \in Resuming(S)
        /\ call'.at = "candidate" /\ call'.listed = call.listed
        /\ call'.candidates = call.candidates \ {r}
        /\ call'.sid = call.sid /\ call'.picked = call.picked /\ call'.left = call.left
        /\ call'.files = call.files
    BY <1>1, <1>3, <1>8 DEF Resuming
  <2>2. es = <<>> \/ Side(es)
    BY <1>8 DEF IsSkipped, HasEntries, Side
  <2>3. Passed(r)
    BY <1>6, <2>2 DEF Passed
  <2>4. \A q \in call'.listed \ call'.candidates : Passed(q)
    BY <1>3, <2>1, <2>3 DEF SearchInv
  <2>5. \A q \in call'.listed \ call'.candidates : Passed(q)'
    BY <1>2, <2>4 DEF Passed, WasSeen
  <2>6. SearchInv'
    BY <1>2, <1>3, <2>1, <2>5 DEF SearchInv, Snapshot
  <2>7. PickInv'
    BY <1>3, <1>7, <2>1 DEF PickInv
  <2> QED
    BY <2>1, <2>6, <2>7 DEF ResumeInv, CallShape, CallOf
<1>9. ASSUME ~IsSkipped(es),
             call' = [call EXCEPT !.at = "subkeys", !.picked = r.session_id, !.main = es]
      PROVE  CallShape' /\ ResumeInv'
  <2> DEFINE id == r.session_id
             main == es
  <2> HIDE DEF es
  <2>1. call' = [call EXCEPT !.at = "subkeys", !.picked = id, !.main = main]
    BY <1>9
  <2> HIDE DEF id, main
  <2>2. /\ call' \in Resuming(S \cup {id, main})
        /\ call'.at = "subkeys" /\ call'.listed = call.listed
        /\ call'.candidates = call.candidates /\ call'.sid = call.sid
        /\ call'.picked = id /\ call'.main = main /\ call'.left = call.left
        /\ call'.files = call.files
    BY <1>1, <2>1 DEF Resuming
  <2>3. main # <<>> /\ (call.sid = Absent => ~Side(main))
    BY <1>9 DEF main, IsSkipped, HasEntries, Side
  <2>4. id \in Ids /\ WasSeen(MainKey(Project, id), main)
    BY <1>5, <1>6 DEF id, main
  <2>5. \A q \in call.candidates : q.mtime <= r.mtime
    BY DEF LoadCandidate, IsNext
  <2>6. ASSUME NEW q \in call.listed, Newer(q)' PROVE Passed(q)
    <3>1. call.sid = Absent /\ r \in call.listed
      BY <1>3, <2>6 DEF SearchInv
    <3>2. q.mtime > r.mtime /\ q.mtime \in Nat /\ r.mtime \in Nat
      BY <1>4, <2>2, <2>6, <3>1 DEF Newer, Row, id
    <3>3. q \notin call.candidates
      BY <2>5, <3>2
    <3> QED
      BY <1>3, <3>3 DEF SearchInv
  <2>7. \A q \in call'.listed : Newer(q)' => Passed(q)'
    BY <1>2, <2>2, <2>6 DEF Passed, WasSeen
  <2>8. call.sid # Absent => id = call.sid
    BY <1>3 DEF SearchInv, id
  <2>9. SearchInv'
    BY <1>2, <1>3, <2>2 DEF SearchInv, Snapshot
  <2>10. call.left = {}
    BY <1>3 DEF SearchInv
  <2>11. PickInv'
    BY <1>2, <1>7, <2>2, <2>3, <2>4, <2>7, <2>8, <2>10 DEF PickInv, WasSeen, Side
  <2> QED
    BY <2>2, <2>9, <2>11 DEF ResumeInv, CallShape, CallOf
<1> QED
  BY <1>8, <1>9 DEF LoadCandidate

LEMMA ReadSubkeysStep ==
    ASSUME IInv, ReadSubkeys PROVE CallShape' /\ ResumeInv'
<1> DEFINE left == {p \in ListSubkeys(store, Project, call.picked) : call.subkeys /\ SafeSubpath(p)}
<1>1. PICK S : call \in Resuming(S)
  BY Forms DEF IInv, ReadSubkeys
<1>2. call' = [call EXCEPT !.at = "subs", !.left = left] /\ seen' = seen /\ store' = store
  BY DEF ReadSubkeys, Reads
<1>3. call.op = "resume" /\ call.at = "subkeys" /\ SearchInv /\ PickInv
  BY DEF IInv, ResumeInv, ReadSubkeys
<1>4. call.picked \in Ids /\ call.picked \in Part
  BY <1>3 DEF PickInv, Ids
<1>5. ASSUME NEW p \in left PROVE SubKey(Project, call.picked, p) \in Keys
  <2>1. PICK j \in DOMAIN store.data :
          Under(MainKey(Project, call.picked), j) /\ p = SubSeq(j, 3, Len(j))
    BY <1>5 DEF ListSubkeys
  <2>2. j \in Keys /\ j \in KeySet
    BY KeysAreKeys DEF IInv, WellFormed
  <2> QED
    BY <2>1, <2>2, <1>4, UnderMain, CallsAssumption
<1> HIDE DEF left
<1>6. /\ call' \in Resuming(S \cup left)
      /\ call'.at = "subs" /\ call'.left = left
      /\ call'.listed = call.listed /\ call'.candidates = call.candidates
      /\ call'.sid = call.sid /\ call'.picked = call.picked /\ call'.main = call.main
      /\ call'.files = call.files
  BY <1>1, <1>2 DEF Resuming
<1>7. SearchInv'
  BY <1>2, <1>3, <1>6 DEF SearchInv, Snapshot
<1>8. \A r \in call.listed : Newer(r)' => Passed(r)'
  BY <1>2, <1>3, <1>6 DEF PickInv, Newer, Passed, WasSeen
<1>9. \A p \in DOMAIN call.files :
        \E es : WasSeen(SubKey(Project, call.picked, p), es) /\ call.files[p] = Materialized(es)
  BY <1>3 DEF PickInv
<1>10. \A p \in left : SubKey(Project, call.picked, p) \in Keys
  BY <1>5
<1>11. PickInv'
  BY <1>2, <1>3, <1>4, <1>6, <1>8, <1>9, <1>10 DEF PickInv, WasSeen, Side
<1> QED
  BY <1>6, <1>7, <1>11 DEF ResumeInv, CallShape, CallOf

LEMMA LoadSubkeyStep ==
    ASSUME IInv, NEW p, LoadSubkey(p) PROVE CallShape' /\ ResumeInv'
<1> DEFINE k == SubKey(Project, call.picked, p)
           es == Load(store, k)
           made == Materialized(es)
           left == call.left \ {p}
           files == IF HasEntries(es) THEN Put(call.files, p, made) ELSE call.files
<1>1. PICK S : call \in Resuming(S)
  BY Forms DEF IInv, LoadSubkey
<1>2. /\ call' = [call EXCEPT !.left = left, !.files = files]
      /\ seen' = seen /\ store' = store
  BY DEF LoadSubkey, Reads
<1>3. call.op = "resume" /\ call.at = "subs" /\ p \in call.left /\ SearchInv /\ PickInv
  BY DEF IInv, ResumeInv, LoadSubkey
<1>4. k \in Keys
  BY <1>3 DEF PickInv
<1>5. WasSeen(k, es)
  BY <1>3, <1>4, SeenNow DEF SearchInv
<1> HIDE DEF k, es, made
<1>6. \A q \in DOMAIN files : \/ q = p /\ files[q] = made
                              \/ q \in DOMAIN call.files /\ files[q] = call.files[q]
  <2>1. CASE HasEntries(es)
    <3>1. files = [q \in DOMAIN call.files \cup {p} |-> IF q = p THEN made ELSE call.files[q]]
      BY <2>1 DEF Put
    <3> HIDE DEF files
    <3> QED
      BY <3>1
  <2>2. CASE ~HasEntries(es)
    BY <2>2
  <2> QED
    BY <2>1, <2>2
<1> HIDE DEF files, left
<1>7. /\ call' \in Resuming(S \cup {files})
      /\ call'.at = "subs" /\ call'.left = left
      /\ call'.listed = call.listed /\ call'.candidates = call.candidates
      /\ call'.sid = call.sid /\ call'.picked = call.picked /\ call'.main = call.main
      /\ call'.files = files
  <2>1. left \in SUBSET S
    BY <1>1 DEF left, Resuming
  <2> QED
    BY <1>1, <1>2, <1>3, <2>1 DEF Resuming
<1>8. SearchInv'
  BY <1>2, <1>3, <1>7 DEF SearchInv, Snapshot
<1>9. \A q \in DOMAIN files :
        \E x : WasSeen(SubKey(Project, call.picked, q), x) /\ files[q] = Materialized(x)
  BY <1>3, <1>5, <1>6 DEF PickInv, k, made
<1>10. \A q \in left : SubKey(Project, call.picked, q) \in Keys
  BY <1>3 DEF PickInv, left
<1>11. \A r \in call.listed : Newer(r)' => Passed(r)'
  BY <1>2, <1>3, <1>7 DEF PickInv, Newer, Passed, WasSeen
<1>12. PickInv'
  BY <1>2, <1>3, <1>7, <1>9, <1>10, <1>11 DEF PickInv, WasSeen, Side
<1> QED
  BY <1>7, <1>8, <1>12 DEF ResumeInv, CallShape, CallOf

LEMMA MaterializeStep ==
    ASSUME IInv, Materialize PROVE CallShape' /\ ResumeInv'
<1>1. PICK S : call \in Resuming(S)
  BY Forms DEF IInv, Materialize
<1>2. call' = [call EXCEPT !.at = "done"] /\ seen' = seen
  BY DEF Materialize
<1>3. call.op = "resume" /\ call.at = "subs" /\ SearchInv /\ PickInv
  BY DEF IInv, ResumeInv, Materialize
<1>4. /\ call' \in Resuming(S)
      /\ call'.at = "done" /\ call'.left = call.left
      /\ call'.listed = call.listed /\ call'.candidates = call.candidates
      /\ call'.sid = call.sid /\ call'.picked = call.picked /\ call'.main = call.main
      /\ call'.files = call.files
  BY <1>1, <1>2 DEF Resuming
<1>5. SearchInv'
  BY <1>3, <1>4 DEF SearchInv
<1>6. \A r \in call.listed : Newer(r)' => Passed(r)'
  BY <1>2, <1>3, <1>4 DEF PickInv, Newer, Passed, WasSeen
<1>7. PickInv'
  BY <1>2, <1>3, <1>4, <1>6 DEF PickInv, WasSeen, Side
<1> QED
  BY <1>4, <1>5, <1>7 DEF ResumeInv, CallShape, CallOf

\* While others write, what the store comes to hold is seen; what a call returned
\* is forgotten.
LEMMA WrittenStep ==
    ASSUME IInv, NEW st, NEW k, Written(st, k) PROVE CallShape' /\ ResumeInv'
<1>1. CASE ~Running
  <2>1. call' = Idle
    BY <1>1 DEF Written
  <2>2. call' \in Over({}) /\ call'.op # "resume"
    BY <2>1 DEF Idle, Over
  <2> QED
    BY <2>2 DEF ResumeInv, CallShape, CallOf
<1>2. CASE Running
  <2>1. call' = call /\ seen \subseteq seen' /\ Snapshot(store') \subseteq seen'
    BY <1>2 DEF Written
  <2>2. CallShape'
    BY <2>1 DEF IInv, CallShape
  <2>3. ASSUME call.op = "resume" PROVE SearchInv' /\ PickInv'
    <3>1. SearchInv /\ PickInv
      BY <2>3 DEF IInv, ResumeInv
    <3>2. \A x, es : WasSeen(x, es) => WasSeen(x, es)'
      BY <2>1 DEF WasSeen
    <3>3. \A r : Passed(r) => Passed(r)'
      BY <3>2 DEF Passed
    <3>4. SearchInv'
      BY <2>1, <3>1, <3>3 DEF SearchInv, Snapshot
    <3>5. PickInv'
      BY <2>1, <3>1, <3>2, <3>3 DEF PickInv, Newer
    <3> QED
      BY <3>4, <3>5
  <2> QED
    BY <2>1, <2>2, <2>3 DEF ResumeInv
<1> QED
  BY <1>1, <1>2
-----------------------------------------------------------------------------
(* Every step *)

LEMMA IInvStep == IInv /\ [Next]_vars => IInv'
<1> SUFFICES ASSUME IInv, [Next]_vars PROVE IInv'
  OBVIOUS
<1>1. WellFormed(store)'
  BY StoreStep DEF StoreMoves
<1>2. CASE UNCHANGED vars
  BY <1>2 DEF vars, IInv, WellFormed, CallShape, ResumeInv, SearchInv, PickInv, Snapshot,
              Newer, Passed, WasSeen
<1>3. ASSUME NEW s \in Sessions \cup {Absent}, NEW caps \in Adapters, Resume(s, caps)
      PROVE  CallShape' /\ ResumeInv'
  BY <1>3, BeginResume
<1>4. ASSUME call.op = "resume", ResumeStep PROVE CallShape' /\ ResumeInv'
  BY <1>4, ReadCandidatesStep, NothingStep, LoadCandidateStep, ReadSubkeysStep,
     LoadSubkeyStep, MaterializeStep DEF ResumeStep
<1>5. ASSUME CallShape' /\ call'.op # "resume" PROVE CallShape' /\ ResumeInv'
  BY <1>5 DEF ResumeInv
<1>6. ASSUME \/ Mirror
             \/ \E s \in Sessions : Delete(s) \/ \E t \in Titles : Rename(s, t)
             \/ \E s \in Sessions : \E t \in Tags : TagSession(s, t)
      PROVE  CallShape' /\ ResumeInv'
  BY <1>6, WrittenStep DEF Mirror, Delete, Rename, TagSession
<1>7. ASSUME \/ \E limit \in Limits : \E caps \in Adapters : List(limit, caps)
             \/ ReadSummaries \/ ReadListing \/ Listed
             \/ \E i \in 1..Cardinality(Sessions) : LoadGap(i) \/ LoadGapFails(i)
      PROVE  CallShape' /\ ResumeInv'
  BY <1>5, <1>7, OtherShapes
<1>8. ASSUME \/ ReadFails
             \/ Import \/ ImportAppend \/ ImportSubagent \/ Imported \/ ImportFails
      PROVE  CallShape' /\ ResumeInv'
  BY <1>5, <1>8, OtherShapes
<1>9. CASE Next
  <2>1. ReadCandidates \/ NothingToResume \/ ReadSubkeys \/ Materialize =>
          call.op = "resume" /\ ResumeStep
    BY DEF ReadCandidates, NothingToResume, ReadSubkeys, Materialize, ResumeStep
  <2> DEFINE Kept == CallShape' /\ ResumeInv'
  <2>2. /\ \A s \in Sessions \cup {Absent}, caps \in Adapters : Resume(s, caps) => Kept
        /\ call.op = "resume" /\ ResumeStep => Kept
    BY <1>3, <1>4
  <2>3. /\ Mirror => Kept
        /\ \A s \in Sessions : (Delete(s) \/ \E t \in Titles : Rename(s, t)) => Kept
        /\ \A s \in Sessions : (\E t \in Tags : TagSession(s, t)) => Kept
    BY <1>6
  <2>4. /\ \A limit \in Limits : \A caps \in Adapters : List(limit, caps) => Kept
        /\ ReadSummaries \/ ReadListing \/ Listed => Kept
        /\ \A i \in 1..Cardinality(Sessions) : LoadGap(i) \/ LoadGapFails(i) => Kept
    BY <1>7
  <2>5. ReadFails \/ Import \/ ImportAppend \/ ImportSubagent \/ Imported \/ ImportFails => Kept
    BY <1>8
  <2>6. /\ call.op = "resume" /\ (\E r \in call.candidates : LoadCandidate(r)) => Kept
        /\ call.op = "resume" /\ (\E p \in call.left : LoadSubkey(p)) => Kept
        /\ ReadCandidates \/ NothingToResume \/ ReadSubkeys \/ Materialize => Kept
    BY <2>1, <2>2 DEF ResumeStep
  <2> HIDE DEF Kept
  <2>7. Kept
    BY <1>9, <2>2, <2>3, <2>4, <2>5, <2>6 DEF Next
  <2> QED
    BY <1>1, <2>7 DEF Kept, IInv
<1> QED
  BY <1>2, <1>9

LEMMA Invariance == Spec => []IInv
<1> QED
  BY InitIInv, IInvStep, PTL DEF Spec

\* What a resume that ended returned is what ResumesNewestConversation says.
LEMMA PickedRight == IInv => ResumesNewestConversation
<1> SUFFICES ASSUME IInv, call.op = "resume", call.at = "done"
             PROVE  ResumesNewestConversation
  BY DEF ResumesNewestConversation
<1> DEFINE held(k) == {x[2] : x \in {y \in seen : y[1] = k}}
           main(s) == held(MainKey(Project, s))
           newer == {r \in call.listed : \A q \in call.listed :
                       q.session_id = call.picked => r.mtime > q.mtime}
<1>1. PickInv
  BY DEF IInv, ResumeInv
<1>2. ASSUME NEW k, NEW es, WasSeen(k, es) PROVE es \in held(k)
  <2>1. <<k, es>> \in {y \in seen : y[1] = k} /\ <<k, es>>[2] = es
    BY <1>2 DEF WasSeen
  <2> QED
    BY <2>1
<1> HIDE DEF held
<1>3. ASSUME NEW r \in newer PROVE \E es \in main(r.session_id) : es = <<>> \/ Side(es)
  <2>1. r \in call.listed /\ Newer(r)
    BY DEF Newer
  <2>2. Passed(r)
    BY <2>1, <1>1 DEF PickInv
  <2> QED
    BY <2>2, <1>2 DEF Passed
<1>4. ASSUME call.picked # Absent
      PROVE  /\ call.main # <<>> /\ call.main \in main(call.picked)
             /\ call.sid = Absent => ~Side(call.main)
             /\ call.sid # Absent => call.picked = call.sid
             /\ \A p \in DOMAIN call.files :
                 \E es \in held(SubKey(Project, call.picked, p)) :
                     call.files[p] = Materialized(es)
  BY <1>1, <1>2, <1>4 DEF PickInv
<1> QED
  BY <1>3, <1>4 DEF ResumesNewestConversation, Side, held

-----------------------------------------------------------------------------
(* What a row shows *)

\* But for the time of its modification, a row is what is said of it.
LEMMA FactsAgree ==
    ASSUME NEW r, NEW q, DOMAIN r = DOMAIN q,
           \A j \in DOMAIN r \ {"last_modified"} : r[j] = q[j]
    PROVE  Facts(r) = Facts(q)
BY DEF Facts, Without

\* A row that says what Rows allow, or that there is nothing to show.
RowSays(info, s, m, es) ==
    /\ Facts(info) \in Rows(s, es)
    /\ info # NoInfo => info.session = s /\ info.last_modified = m
    /\ info # Waiting

\* A summary that is the fold of a transcript shows a row of it.
LEMMA SummaryShows ==
    ASSUME NEW s, NEW es, NEW sum, sum.data = Fold(<<>>, es)
    PROVE  RowSays(SummaryToInfo(s, sum, Project), s, sum.mtime, es)
<1> DEFINE d == Fold(<<>>, es)
           prompt == NonEmpty(IF IsSet(d, "first_prompt_locked") THEN Get(d, "first_prompt")
                              ELSE Get(d, "command_fallback"))
           title == NonEmpty(FirstPresent(<<Get(d, "custom_title"), Get(d, "ai_title")>>))
           summary == NonEmpty(FirstPresent(<<title, Get(d, "last_prompt"),
                                              Get(d, "summary_hint"), prompt>>))
           hidden == IsSet(d, "is_sidechain") \/ summary = Absent
           branch == NonEmpty(Get(d, "git_branch"))
           cwd == FirstNonEmpty(<<Get(d, "cwd"), Project>>)
           tag == NonEmpty(Get(d, "tag"))
           created == IF "created_at" \in DOMAIN d THEN d.created_at ELSE 0
           row(m) == [session |-> s, summary |-> summary, custom_title |-> title,
                      first_prompt |-> prompt, git_branch |-> branch, cwd |-> cwd,
                      tag |-> tag, created_at |-> created, last_modified |-> m]
<1>1. ASSUME NEW u, u.data = d
      PROVE  SummaryToInfo(s, u, Project) = IF hidden THEN NoInfo ELSE row(u.mtime)
  BY <1>1 DEF SummaryToInfo
<1> DEFINE none == FoldSummary(NoSummary, es)
<1>2. none.data = d /\ none.mtime = 0
  <2>1. none = [mtime |-> 0, data |-> d]
    BY FoldOf
  <2> QED
    BY <2>1
<1>a. Facts(SummaryToInfo(s, none, Project)) \in Rows(s, es)
  BY DEF Rows
<1> HIDE DEF none, hidden, summary, title, prompt, branch, cwd, tag, created, d
<1>3. SummaryToInfo(s, none, Project) = IF hidden THEN NoInfo ELSE row(0)
  BY <1>1, <1>2
<1>4. SummaryToInfo(s, sum, Project) = IF hidden THEN NoInfo ELSE row(sum.mtime)
  BY <1>1 DEF d
<1>5. Facts(row(sum.mtime)) = Facts(row(0))
  BY FactsAgree
<1>6. row(sum.mtime) # Waiting /\ NoInfo # Waiting
  BY DEF Waiting, NoInfo, Absent
<1> QED
  BY <1>a, <1>3, <1>4, <1>5, <1>6 DEF RowSays

\* So does the parse of the transcript.
LEMMA LiteShows ==
    ASSUME NEW s, NEW es, NEW m
    PROVE  RowSays(LiteInfo(s, es, m, Project), s, m, es)
<1> DEFINE head == Head64(es)
           tail == Tail64(es)
           title == FirstNonEmpty(TitleOf(head, tail))
           prompt == NonEmpty(FirstPrompt(head))
           summary == FirstNonEmpty(<<title, LastOf(tail, "lastPrompt"),
                                      LastOf(tail, "summary"), prompt>>)
           hidden == IsInText(es[1], "isSidechain") \/ summary = Absent
           branch == FirstNonEmpty(<<LastOf(tail, "gitBranch"), FirstOf(head, "gitBranch")>>)
           cwd == FirstNonEmpty(<<FirstOf(head, "cwd"), Project>>)
           tag == TagOf(tail)
           created == FirstTimestamp(head)
           row(t) == [session |-> s, summary |-> summary, custom_title |-> title,
                      first_prompt |-> prompt, git_branch |-> branch, cwd |-> cwd,
                      tag |-> tag, created_at |-> created, last_modified |-> t]
<1>1. ASSUME NEW t
      PROVE  LiteInfo(s, es, t, Project) = IF hidden THEN NoInfo ELSE row(t)
  BY DEF LiteInfo
<1>a. Facts(LiteInfo(s, es, 0, Project)) \in Rows(s, es)
  BY DEF Rows
<1> HIDE DEF hidden, summary, title, prompt, branch, cwd, tag, created
<1>3. LiteInfo(s, es, 0, Project) = IF hidden THEN NoInfo ELSE row(0)
  BY <1>1
<1>4. LiteInfo(s, es, m, Project) = IF hidden THEN NoInfo ELSE row(m)
  BY <1>1
<1>5. Facts(row(m)) = Facts(row(0))
  BY FactsAgree
<1>6. row(m) # Waiting /\ NoInfo # Waiting
  BY DEF Waiting, NoInfo, Absent
<1> QED
  BY <1>a, <1>3, <1>4, <1>5, <1>6 DEF RowSays

\* Of no entries there is nothing to show.
LEMMA NothingToShow ==
    ASSUME NEW s, NEW sum, sum.data = <<>>
    PROVE  SummaryToInfo(s, sum, Project) = NoInfo
<1>1. DOMAIN <<>> = {}
  OBVIOUS
<1>2. \A k : Get(<<>>, k) = Absent /\ ~IsSet(<<>>, k)
  BY <1>1 DEF Get, IsSet
<1>3. NonEmpty(Absent) = Absent
  BY DEF NonEmpty, Absent
<1>4. /\ FirstPresent(<<Absent, Absent>>) = Absent
      /\ FirstPresent(<<Absent, Absent, Absent, Absent>>) = Absent
  BY DEF FirstPresent
<1> QED
  BY <1>2, <1>3, <1>4 DEF SummaryToInfo

\* Equal summaries show the same.
LEMMA SummaryDecides ==
    ASSUME NEW s, NEW u, NEW v, u.data = v.data, u.mtime = v.mtime
    PROVE  SummaryToInfo(s, u, Project) = SummaryToInfo(s, v, Project)
BY DEF SummaryToInfo

-----------------------------------------------------------------------------
(* Slots *)

\* A summary that was read: its session has been written to since, or it is current.
Past(sums) ==
    \A s \in sums :
        LET k == MainKey(Project, s.session_id) IN
        /\ s.session_id \in Ids /\ s.mtime \in Nat /\ s.mtime <= store.last_mtime
        /\ k \in DOMAIN store.data =>
             /\ store.mtimes[k] >= s.mtime
             /\ store.mtimes[k] = s.mtime => s.data = Fold(<<>>, store.data[k])

\* A summary as the store holds it.
Current(s) ==
    LET k == MainKey(Project, s.session_id) IN
    /\ s.session_id \in Ids /\ k \in DOMAIN store.data
    /\ s.mtime = store.mtimes[k] /\ s.data = Fold(<<>>, store.data[k])

\* list_session_summaries reads summaries as they are now.
LEMMA SummariesAreCurrent ==
    ASSUME WellFormed(store), NEW s \in ListSessionSummaries(store, Project)
    PROVE  Current(s)
<1>1. PICK k \in DOMAIN store.summaries :
        /\ k[1] = Project
        /\ s = [session_id |-> k[2], mtime |-> store.summaries[k].mtime,
                data |-> store.summaries[k].data]
  BY DEF ListSessionSummaries
<1>2. /\ k \in DOMAIN store.data /\ IsMain(k) /\ k \in KeySet
      /\ store.summaries[k] = [mtime |-> store.mtimes[k], data |-> Fold(<<>>, store.data[k])]
  BY KeysAreKeys DEF WellFormed
<1>3. k = MainKey(Project, k[2])
  BY <1>1, <1>2, MainIsPair
<1>4. [session_id |-> k[2], mtime |-> store.mtimes[k]] \in ListSessions(store, Project)
  BY <1>1, <1>2 DEF ListSessions
<1>5. k[2] \in Ids
  BY <1>4, ListingRows DEF Row
<1> QED
  BY <1>1, <1>2, <1>3, <1>5 DEF Current

\* What is current is not ahead of the store.
LEMMA CurrentIsPast ==
    ASSUME WellFormed(store), NEW sums, \A s \in sums : Current(s)
    PROVE  Past(sums)
BY DEF Past, Current, WellFormed

\* A row of a listing is a session with its time.
LEMMA ListedIsThere ==
    ASSUME WellFormed(store), NEW l \in ListSessions(store, Project)
    PROVE  LET k == MainKey(Project, l.session_id) IN
           l.session_id \in Ids /\ k \in DOMAIN store.data /\ l.mtime = store.mtimes[k]
<1>1. PICK k \in DOMAIN store.data :
        /\ IsMain(k) /\ k[1] = Project
        /\ l = [session_id |-> k[2], mtime |-> store.mtimes[k]]
  BY DEF ListSessions
<1>2. k \in KeySet
  BY KeysAreKeys DEF WellFormed
<1>3. k = MainKey(Project, k[2])
  BY <1>1, <1>2, MainIsPair
<1> QED
  BY <1>1, <1>3, ListingRows DEF Row

\* What there is to say of a session that has a slot.
SlotOf(r) ==
    LET k == MainKey(Project, r.session_id) IN
    /\ r = [mtime |-> r.mtime, session_id |-> r.session_id, info |-> r.info]
    /\ r.session_id \in Ids /\ k \in DOMAIN store.data /\ r.mtime = store.mtimes[k]
    /\ \/ r.info = Waiting
       \/ /\ r.info # NoInfo /\ store.data[k] # <<>>
          /\ RowSays(r.info, r.session_id, r.mtime, store.data[k])

\* Every session has one slot, but for those with nothing to show.
Slotted(slots) ==
    /\ \A r \in slots : SlotOf(r)
    /\ \A r, q \in slots : r.session_id = q.session_id => r = q
    /\ \A s \in Ids :
        LET k == MainKey(Project, s) IN
        k \in DOMAIN store.data =>
            \/ \E r \in slots : r.session_id = s
            \/ Facts(NoInfo) \in Rows(s, store.data[k])

\* The slots of the fast path, from summaries that may be behind and a listing that is not.
LEMMA SlotsRight ==
    ASSUME WellFormed(store), NEW sums, NEW listing, NEW enumerates \in BOOLEAN,
           \/ enumerates /\ listing = ListSessions(store, Project) /\ Past(sums)
           \/ ~enumerates /\ listing = {} /\ sums = ListSessionSummaries(store, Project)
    PROVE  Slotted(Slots(sums, listing, enumerates, Project))
<1> DEFINE fresh == {s \in sums : enumerates => IsFresh(s, listing)}
           slot(s) == [mtime |-> s.mtime, session_id |-> s.session_id,
                       info |-> SummaryToInfo(s.session_id, s, Project)]
           shown == {slot(s) : s \in fresh}
           missing == {l \in listing : \A s \in fresh : s.session_id # l.session_id}
           slots == Slots(sums, listing, enumerates, Project)
<1>1. slots = {r \in shown : r.info # NoInfo} \cup {Gap(l) : l \in missing}
  BY DEF Slots
<1>2. ASSUME NEW s \in fresh PROVE Current(s)
  <2>1. CASE enumerates
    <3>1. PICK l \in ListSessions(store, Project) :
            l.session_id = s.session_id /\ s.mtime >= l.mtime
      BY <2>1 DEF IsFresh
    <3>2. s \in sums /\ Past(sums)
      BY <2>1
    <3>3. /\ MainKey(Project, s.session_id) \in DOMAIN store.data
          /\ l.mtime = store.mtimes[MainKey(Project, s.session_id)]
      BY <3>1, ListedIsThere
    <3>4. l.mtime \in Nat
      BY <3>3 DEF WellFormed
    <3> QED
      BY <3>1, <3>2, <3>3, <3>4 DEF Past, Current
  <2>2. CASE ~enumerates
    BY <2>2, SummariesAreCurrent
  <2> QED
    BY <2>1, <2>2
<1>3. \A l \in listing : LET k == MainKey(Project, l.session_id) IN
        l.session_id \in Ids /\ k \in DOMAIN store.data /\ l.mtime = store.mtimes[k]
  BY ListedIsThere
<1>4. ASSUME NEW s \in fresh
      PROVE  LET k == MainKey(Project, s.session_id)
                 info == SummaryToInfo(s.session_id, s, Project)
             IN  /\ RowSays(info, s.session_id, s.mtime, store.data[k])
                 /\ info # NoInfo => store.data[k] # <<>>
  BY <1>2, SummaryShows, NothingToShow, FoldOfNothing DEF Current
<1>5. \A s \in fresh : slot(s).mtime = s.mtime /\ slot(s).session_id = s.session_id
                    /\ slot(s).info = SummaryToInfo(s.session_id, s, Project)
  OBVIOUS
<1>6. \A l \in missing : /\ Gap(l) =
                              [mtime |-> l.mtime, session_id |-> l.session_id, info |-> Waiting]
                         /\ Gap(l).mtime = l.mtime /\ Gap(l).session_id = l.session_id
                         /\ Gap(l).info = Waiting
  BY DEF Gap
<1>7. ASSUME NEW r \in slots
      PROVE  \/ \E s \in fresh : r = slot(s) /\ r.info # NoInfo
             \/ \E l \in missing : r = Gap(l)
  BY <1>1
<1> HIDE DEF fresh, missing, shown, slots
<1>8. ASSUME NEW r \in slots PROVE SlotOf(r)
  <2>1. ASSUME NEW s \in fresh, r = slot(s), r.info # NoInfo PROVE SlotOf(r)
    BY <2>1, <1>2, <1>4, <1>5 DEF SlotOf, Current
  <2>2. ASSUME NEW l \in missing, r = Gap(l) PROVE SlotOf(r)
    BY <2>2, <1>3, <1>6 DEF SlotOf, missing
  <2> QED
    BY <1>7, <2>1, <2>2
<1>9. ASSUME NEW r \in slots, NEW q \in slots, r.session_id = q.session_id PROVE r = q
  <2>1. ASSUME NEW s \in fresh, r = slot(s), NEW t \in fresh, q = slot(t) PROVE r = q
    <3>1. s.session_id = t.session_id
      BY <1>9, <2>1, <1>5
    <3>2. s.data = t.data /\ s.mtime = t.mtime
      BY <1>2, <3>1 DEF Current
    <3> QED
      BY <2>1, <3>1, <3>2, SummaryDecides
  <2>2. ASSUME NEW l \in missing, r = Gap(l), NEW m \in missing, q = Gap(m) PROVE r = q
    <3>1. l.session_id = m.session_id
      BY <1>9, <2>2, <1>6
    <3>2. l.mtime = m.mtime
      BY <1>3, <3>1 DEF missing
    <3> QED
      BY <2>2, <3>1, <3>2, <1>6
  <2>3. ASSUME NEW s \in fresh, NEW l \in missing PROVE s.session_id # l.session_id
    BY DEF missing
  <2>4. ASSUME NEW s \in fresh, NEW l \in missing, r = slot(s), q = Gap(l) PROVE FALSE
    BY <1>9, <2>4, <2>3, <1>5, <1>6
  <2>5. ASSUME NEW s \in fresh, NEW l \in missing, q = slot(s), r = Gap(l) PROVE FALSE
    BY <1>9, <2>5, <2>3, <1>5, <1>6
  <2> HIDE DEF slot
  <2> QED
    BY <1>7, <2>1, <2>2, <2>4, <2>5
<1>10. ASSUME NEW s \in Ids, MainKey(Project, s) \in DOMAIN store.data
       PROVE  \/ \E r \in slots : r.session_id = s
              \/ Facts(NoInfo) \in Rows(s, store.data[MainKey(Project, s)])
  <2> DEFINE k == MainKey(Project, s)
  <2>1. IsMain(k) /\ k[1] = Project /\ k[2] = s
    BY DEF IsMain, MainKey
  <2>2. CASE \E u \in fresh : u.session_id = s
    <3>1. PICK u \in fresh : u.session_id = s
      BY <2>2
    <3>2. CASE SummaryToInfo(s, u, Project) = NoInfo
      BY <1>4, <3>1, <3>2 DEF RowSays
    <3>3. CASE SummaryToInfo(s, u, Project) # NoInfo
      <4>1. slot(u) \in shown /\ slot(u).info # NoInfo
        BY <1>5, <3>1, <3>3 DEF shown
      <4> HIDE DEF slot
      <4>2. slot(u) \in slots
        BY <1>1, <4>1
      <4> QED
        BY <1>5, <3>1, <4>2
    <3> QED
      BY <3>2, <3>3
  <2>3. CASE ~\E u \in fresh : u.session_id = s
    <3>1. CASE enumerates
      <4> DEFINE l == [session_id |-> s, mtime |-> store.mtimes[k]]
      <4>1. l \in listing
        BY <3>1, <1>10, <2>1 DEF ListSessions
      <4>2. l.session_id = s
        OBVIOUS
      <4> HIDE DEF l
      <4>3. l \in missing
        BY <2>3, <4>1, <4>2 DEF missing
      <4>4. Gap(l) \in slots
        BY <1>1, <4>3
      <4> QED
        BY <1>6, <4>2, <4>3, <4>4
    <3>2. CASE ~enumerates
      <4>1. k \in DOMAIN store.summaries
        BY <1>10, <2>1 DEF WellFormed
      <4> DEFINE u == [session_id |-> k[2], mtime |-> store.summaries[k].mtime,
                       data |-> store.summaries[k].data]
      <4>2. u \in ListSessionSummaries(store, Project)
        BY <2>1, <4>1 DEF ListSessionSummaries
      <4>3. u.session_id = s
        BY <2>1
      <4> HIDE DEF u
      <4>4. u \in fresh
        BY <3>2, <4>2 DEF fresh
      <4> QED
        BY <2>3, <4>3, <4>4
    <3> QED
      BY <3>1, <3>2
  <2> QED
    BY <2>2, <2>3
<1> HIDE DEF slot
<1>11. Slotted(slots)
  BY <1>8, <1>9, <1>10 DEF Slotted
<1> QED
  BY <1>11 DEF slots

-----------------------------------------------------------------------------
(* Pages *)

\* There are as many slots as sessions, at most.
LEMMA SlotsAreFinite ==
    ASSUME WellFormed(store), NEW slots, Slotted(slots)
    PROVE  IsFiniteSet(slots)
<1> DEFINE f == [r \in slots |-> MainKey(Project, r.session_id)]
<1>1. f \in [slots -> DOMAIN store.data]
  BY DEF Slotted, SlotOf
<1>2. \A r, q \in slots : f[r] = f[q] => r = q
  <2> SUFFICES ASSUME NEW r \in slots, NEW q \in slots, f[r] = f[q] PROVE r = q
    OBVIOUS
  <2>1. MainKey(Project, r.session_id)[2] = MainKey(Project, q.session_id)[2]
    OBVIOUS
  <2>2. r.session_id = q.session_id
    BY <2>1 DEF MainKey
  <2> QED
    BY <2>2 DEF Slotted
<1> HIDE DEF f
<1>3. f \in Injection(slots, DOMAIN store.data)
  BY <1>1, <1>2 DEF Injection, IsInjective
<1> QED
  BY <1>3, FS_Injection DEF WellFormed

\* Newest has them all, from the latest on.
LEMMA NewestOf ==
    ASSUME WellFormed(store), NEW slots, Slotted(slots)
    PROVE  LET sorted == Newest(slots) IN
           /\ sorted \in Seq(slots)
           /\ \A r \in slots : \E i \in 1..Len(sorted) : sorted[i] = r
           /\ \A i, j \in 1..Len(sorted) : i < j =>
                sorted[i].mtime > sorted[j].mtime /\ sorted[i].session_id # sorted[j].session_id
<1> DEFINE R == {p \in slots \X slots : p[1].mtime > p[2].mtime}
           n == Cardinality(slots)
           sorted == InOrder(slots, R)
<1>1. IsFiniteSet(slots)
  BY SlotsAreFinite
<1>2. \A r \in slots : r.mtime \in Nat
  BY DEF Slotted, SlotOf, WellFormed
<1>3. \A r, q \in slots : <<r, q>> \in R <=> r.mtime > q.mtime
  OBVIOUS
<1>4. \A r, q \in slots : r.mtime = q.mtime => r = q
  <2> SUFFICES ASSUME NEW r \in slots, NEW q \in slots, r.mtime = q.mtime PROVE r = q
    OBVIOUS
  <2>1. MainKey(Project, r.session_id) = MainKey(Project, q.session_id)
    BY DEF Slotted, SlotOf, WellFormed
  <2>2. r.session_id = q.session_id
    BY <2>1 DEF MainKey
  <2> QED
    BY <2>2 DEF Slotted
<1>a. Newest(slots) = sorted
  BY DEF Newest
<1> HIDE DEF R, sorted
<1>5. Orders(R, slots)
  BY <1>2, <1>3, <1>4 DEF Orders
<1>6. /\ n \in Nat /\ sorted \in [1..n -> slots]
      /\ \A r \in slots : \E i \in 1..n : sorted[i] = r
      /\ \A i, j \in 1..n : i < j => <<sorted[i], sorted[j]>> \in R
  BY <1>1, <1>5, InOrderLists DEF sorted
<1> HIDE DEF n
<1>7. sorted \in Seq(slots) /\ Len(sorted) = n
  <2>1. sorted \in Seq(slots)
    BY <1>6, OnInterval
  <2>2. DOMAIN sorted = 1..n
    BY <1>6
  <2> QED
    BY <1>6, <2>1, <2>2
<1>8. ASSUME NEW i \in 1..n, NEW j \in 1..n, i < j
      PROVE  sorted[i].mtime > sorted[j].mtime /\ sorted[i].session_id # sorted[j].session_id
  <2>1. sorted[i] \in slots /\ sorted[j] \in slots
    BY <1>6
  <2>2. sorted[i].mtime > sorted[j].mtime
    BY <1>3, <1>6, <1>8, <2>1
  <2>3. sorted[i] # sorted[j]
    BY <2>1, <2>2, <1>2
  <2> QED
    BY <2>1, <2>2, <2>3 DEF Slotted
<1> QED
  BY <1>6, <1>7, <1>8, <1>a

\* A page is a prefix of what was sorted, without a limit all of it.
LEMMA PageIsPrefix ==
    ASSUME NEW S, NEW sorted \in Seq(S), NEW limit \in Nat
    PROVE  LET page == PageOf(sorted, limit, 0) IN
           /\ page \in Seq(S) /\ Len(page) <= Len(sorted)
           /\ \A i \in 1..Len(page) : page[i] = sorted[i]
           /\ limit = 0 => Len(page) = Len(sorted)
<1>1. SubSeq(sorted, 0 + 1, Len(sorted)) = sorted /\ Len(sorted) \in Nat
  OBVIOUS
<1>2. PageOf(sorted, limit, 0) =
        IF limit = 0 \/ limit > Len(sorted) THEN sorted ELSE SubSeq(sorted, 1, limit)
  BY <1>1, Zenon DEF PageOf
<1>3. CASE limit = 0 \/ limit > Len(sorted)
  BY <1>1, <1>2, <1>3
<1>4. CASE ~(limit = 0 \/ limit > Len(sorted))
  BY <1>1, <1>2, <1>4
<1> QED
  BY <1>3, <1>4

\* What is shown of a session: the store held a transcript during the call of which it
\* says what it is, or the adapter failed.
ShownOf(S, info, id, m) ==
    /\ info # NoInfo /\ info # Waiting
    /\ info.session = id /\ info.last_modified = m
    /\ \/ info.summary = ""
       \/ \E es : /\ <<MainKey(Project, id), es>> \in S /\ es # <<>>
                  /\ Facts(info) \in Rows(id, es)

\* The rows of a page: from the latest on, each of another session, with what was
\* shown of it, or nothing, or waiting for that.
PageRows(S, page) ==
    /\ \E T : page \in Seq([mtime : Nat, session_id : Ids, info : T])
    /\ \A i, j \in 1..Len(page) : i < j =>
         page[i].mtime > page[j].mtime /\ page[i].session_id # page[j].session_id
    /\ \A i \in 1..Len(page) :
         \/ page[i].info = Waiting
         \/ page[i].info = NoInfo
         \/ ShownOf(S, page[i].info, page[i].session_id, page[i].mtime)

\* Whatever was seen of a session is something to show, and so it has a row.
Showable(S, s) ==
    \A es : <<MainKey(Project, s), es>> \in S =>
        es # <<>> /\ Facts(NoInfo) \notin Rows(s, es)

PageWhole(S, page) ==
    \A s \in Sessions : Showable(S, s) =>
        \E i \in 1..Len(page) : page[i].session_id = s /\ page[i].info # NoInfo

\* A page of the sorted slots.
LEMMA PageOpens ==
    ASSUME WellFormed(store), NEW S, Snapshot(store) \subseteq S, NEW slots, Slotted(slots),
           NEW page, NEW limit \in Nat,
           page = PageOf(Newest(slots), limit, 0)
    PROVE  PageRows(S, page) /\ (limit = 0 => PageWhole(S, page))
<1> DEFINE sorted == Newest(slots)
<1>1. /\ sorted \in Seq(slots)
      /\ \A r \in slots : \E i \in 1..Len(sorted) : sorted[i] = r
      /\ \A i, j \in 1..Len(sorted) : i < j =>
           sorted[i].mtime > sorted[j].mtime /\ sorted[i].session_id # sorted[j].session_id
  BY NewestOf
<1> HIDE DEF sorted
<1>2. /\ page \in Seq(slots) /\ Len(page) <= Len(sorted)
      /\ \A i \in 1..Len(page) : page[i] = sorted[i]
      /\ limit = 0 => Len(page) = Len(sorted)
  <2>1. page = PageOf(sorted, limit, 0) /\ sorted \in Seq(slots)
    BY <1>1 DEF sorted
  <2> QED
    BY <2>1, PageIsPrefix
<1>a. Len(page) \in Nat /\ Len(sorted) \in Nat /\ \A i \in 1..Len(page) : page[i] \in slots
  BY <1>1, <1>2
<1>3. \A i, j \in 1..Len(page) : i < j =>
         page[i].mtime > page[j].mtime /\ page[i].session_id # page[j].session_id
  <2> SUFFICES ASSUME NEW i \in 1..Len(page), NEW j \in 1..Len(page), i < j
               PROVE  page[i].mtime > page[j].mtime /\ page[i].session_id # page[j].session_id
    OBVIOUS
  <2>1. i \in 1..Len(sorted) /\ j \in 1..Len(sorted)
    BY <1>2, <1>a
  <2>2. page[i] = sorted[i] /\ page[j] = sorted[j]
    BY <1>2
  <2>3. sorted[i].mtime > sorted[j].mtime /\ sorted[i].session_id # sorted[j].session_id
    BY <1>1, <2>1
  <2> QED
    BY <2>2, <2>3
<1>4. \E T : page \in Seq([mtime : Nat, session_id : Ids, info : T])
  <2> DEFINE T == {r.info : r \in slots}
  <2>1. \A r \in slots : r.mtime \in Nat /\ r.info \in T
    BY DEF Slotted, SlotOf, WellFormed
  <2> HIDE DEF T
  <2>2. slots \subseteq [mtime : Nat, session_id : Ids, info : T]
    BY <2>1 DEF Slotted, SlotOf
  <2> QED
    BY <1>2, <2>2, SeqMonotonic
<1>5. ASSUME NEW r \in slots
      PROVE  r.info = Waiting \/ ShownOf(S, r.info, r.session_id, r.mtime)
  <2> DEFINE k == MainKey(Project, r.session_id)
  <2>1. SlotOf(r)
    BY DEF Slotted
  <2>2. r.session_id \in Ids /\ k \in DOMAIN store.data
    BY <2>1 DEF SlotOf
  <2>3. <<k, store.data[k]>> \in S
    BY <2>2 DEF Snapshot, Stored, Ids
  <2> QED
    BY <2>1, <2>3 DEF SlotOf, ShownOf, RowSays
<1>6. ASSUME limit = 0, NEW s \in Sessions, Showable(S, s)
      PROVE  \E i \in 1..Len(page) : page[i].session_id = s /\ page[i].info # NoInfo
  <2> DEFINE k == MainKey(Project, s)
  <2>1. s \in Ids /\ k \in Keys
    BY SessionsAreIds, KeysAreKeys
  <2>2. <<k, Stored(store, k)>> \in S
    BY <2>1 DEF Snapshot
  <2>3. k \in DOMAIN store.data /\ Facts(NoInfo) \notin Rows(s, store.data[k])
    BY <2>2, <1>6 DEF Showable, Stored
  <2>4. PICK r \in slots : r.session_id = s
    BY <2>1, <2>3 DEF Slotted
  <2>5. PICK i \in 1..Len(sorted) : sorted[i] = r
    BY <1>1
  <2>6. i \in 1..Len(page) /\ page[i] = r
    BY <1>2, <1>6, <2>5
  <2>7. r.info # NoInfo
    <3>1. NoInfo # Waiting
      BY DEF Waiting, NoInfo, Absent
    <3>2. r.info = Waiting \/ r.info # NoInfo
      BY <1>5 DEF ShownOf
    <3> QED
      BY <3>1, <3>2
  <2> QED
    BY <2>4, <2>6, <2>7
<1> QED
  BY <1>3, <1>4, <1>5, <1>6, <1>a DEF PageRows, PageWhole

\* What a page holds beside the rows does not matter.
LEMMA PageIsTyped ==
    ASSUME NEW T, NEW page \in Seq([mtime : Nat, session_id : Ids, info : T])
    PROVE  /\ DOMAIN page = 1..Len(page) /\ Len(page) \in Nat
           /\ \A i \in 1..Len(page) : /\ page[i] \in [mtime : Nat, session_id : Ids, info : T]
                                     /\ page[i].mtime \in Nat
<1> DEFINE R == [mtime : Nat, session_id : Ids, info : T]
<1>1. \A r \in R : r.mtime \in Nat
  OBVIOUS
<1>2. page \in Seq(R)
  OBVIOUS
<1> HIDE DEF R
<1>3. DOMAIN page = 1..Len(page) /\ Len(page) \in Nat /\ \A i \in 1..Len(page) : page[i] \in R
  BY <1>2
<1> QED
  BY <1>1, <1>3 DEF R

\* A row that waited gets what was loaded, or nothing.
LEMMA PageFills ==
    ASSUME NEW S, NEW page, PageRows(S, page), NEW i \in DOMAIN page, NEW info,
           info = NoInfo \/ ShownOf(S, info, page[i].session_id, page[i].mtime),
           NEW filled, filled = [page EXCEPT ![i].info = info]
    PROVE  /\ PageRows(S, filled)
           /\ PageWhole(S, page) /\ (info = NoInfo => ~Showable(S, page[i].session_id))
                => PageWhole(S, filled)
<1>1. PICK T : page \in Seq([mtime : Nat, session_id : Ids, info : T])
  BY DEF PageRows
<1> DEFINE R == [mtime : Nat, session_id : Ids, info : T \cup {info}]
<1>2. /\ DOMAIN page = 1..Len(page) /\ Len(page) \in Nat
      /\ \A j \in 1..Len(page) : page[j] \in [mtime : Nat, session_id : Ids, info : T]
  BY <1>1, PageIsTyped
<1>3. /\ DOMAIN filled = 1..Len(page)
      /\ filled[i] = [page[i] EXCEPT !.info = info]
      /\ \A j \in 1..Len(page) \ {i} : filled[j] = page[j]
  BY <1>2
<1>4. ASSUME NEW j \in 1..Len(page)
      PROVE  /\ filled[j] \in R
             /\ filled[j].mtime = page[j].mtime /\ filled[j].session_id = page[j].session_id
             /\ filled[j].info = IF j = i THEN info ELSE page[j].info
  <2>1. page[j] \in [mtime : Nat, session_id : Ids, info : T]
    BY <1>2
  <2>2. CASE j = i
    BY <1>3, <2>1, <2>2
  <2>3. CASE j # i
    BY <1>3, <2>1, <2>3
  <2> QED
    BY <2>2, <2>3
<1> HIDE DEF R
<1>5. filled \in Seq(R) /\ Len(filled) = Len(page)
  <2>1. filled = [j \in 1..Len(page) |-> filled[j]]
    BY <1>3
  <2>2. filled \in [1..Len(page) -> R]
    BY <1>4, <2>1
  <2>3. filled \in Seq(R)
    BY <1>2, <2>2, OnInterval
  <2> QED
    BY <1>2, <1>3, <2>3
<1>6. PageRows(S, filled)
  <2>1. \E Q : filled \in Seq([mtime : Nat, session_id : Ids, info : Q])
    BY <1>5 DEF R
  <2>2. \A j, k \in 1..Len(filled) : j < k =>
          filled[j].mtime > filled[k].mtime /\ filled[j].session_id # filled[k].session_id
    BY <1>4, <1>5 DEF PageRows
  <2>3. \A j \in 1..Len(filled) :
          \/ filled[j].info = Waiting
          \/ filled[j].info = NoInfo
          \/ ShownOf(S, filled[j].info, filled[j].session_id, filled[j].mtime)
    BY <1>4, <1>5 DEF PageRows
  <2> QED
    BY <2>1, <2>2, <2>3 DEF PageRows
<1>7. ASSUME PageWhole(S, page), info = NoInfo => ~Showable(S, page[i].session_id)
      PROVE  PageWhole(S, filled)
  <2> SUFFICES ASSUME NEW s \in Sessions, Showable(S, s)
               PROVE  \E j \in 1..Len(filled) : filled[j].session_id = s /\ filled[j].info # NoInfo
    BY DEF PageWhole
  <2>1. PICK j \in 1..Len(page) : page[j].session_id = s /\ page[j].info # NoInfo
    BY <1>7 DEF PageWhole
  <2>2. j = i => info # NoInfo
    BY <1>7, <2>1
  <2> QED
    BY <1>4, <1>5, <2>1, <2>2
<1> QED
  BY <1>6, <1>7

\* The places that are kept, in order.
LEMMA AscendingOf ==
    ASSUME NEW n \in Nat, NEW places \in SUBSET (1..n)
    PROVE  LET shown == Ascending(places) IN
           /\ Cardinality(places) \in Nat /\ shown \in [1..Cardinality(places) -> places]
           /\ \A i \in places : \E j \in 1..Cardinality(places) : shown[j] = i
           /\ \A i, j \in 1..Cardinality(places) : i < j => shown[i] < shown[j]
<1> DEFINE R == {p \in places \X places : p[1] < p[2]}
           shown == InOrder(places, R)
<1>1. IsFiniteSet(places)
  <2>1. IsFiniteSet(1..n)
    BY FS_Interval
  <2> QED
    BY <2>1, FS_Subset
<1>2. \A i \in places : i \in Nat
  OBVIOUS
<1>3. \A i, j \in places : <<i, j>> \in R <=> i < j
  OBVIOUS
<1>a. Ascending(places) = shown
  BY DEF Ascending
<1> HIDE DEF R, shown
<1>4. Orders(R, places)
  BY <1>2, <1>3 DEF Orders
<1>5. /\ Cardinality(places) \in Nat /\ shown \in [1..Cardinality(places) -> places]
      /\ \A i \in places : \E j \in 1..Cardinality(places) : shown[j] = i
      /\ \A i, j \in 1..Cardinality(places) : i < j => <<shown[i], shown[j]>> \in R
  BY <1>1, <1>4, InOrderLists DEF shown
<1> QED
  BY <1>3, <1>5, <1>a

\* What ListedSinceEnumeration says of the rows that were returned.
RowsRight(S, rows, limit) ==
    LET listed == {rows[i].session : i \in DOMAIN rows} IN
    /\ Cardinality(listed) = Len(rows)
    /\ \A i \in DOMAIN rows :
        \/ rows[i].summary = ""
        \/ \E es : /\ <<MainKey(Project, rows[i].session), es>> \in S /\ es # <<>>
                   /\ Facts(rows[i]) \in Rows(rows[i].session, es)
    /\ \A i, j \in DOMAIN rows : i < j => rows[i].last_modified > rows[j].last_modified
    /\ limit = 0 => \A s \in Sessions : Showable(S, s) => s \in listed

\* The rows that have something to show, and a page of them.
LEMMA PageShows ==
    ASSUME NEW S, NEW page, PageRows(S, page), \A i \in DOMAIN page : ~IsWaiting(page[i]),
           NEW limit \in Nat, NEW paged \in BOOLEAN, limit = 0 \/ ~paged => PageWhole(S, page)
    PROVE  LET shown == Ascending({i \in DOMAIN page : page[i].info # NoInfo})
               rows == [n \in DOMAIN shown |-> page[shown[n]].info]
           IN  RowsRight(S, IF paged THEN rows ELSE PageOf(rows, limit, 0), limit)
<1> DEFINE places == {i \in DOMAIN page : page[i].info # NoInfo}
           shown == Ascending(places)
           rows == [n \in DOMAIN shown |-> page[shown[n]].info]
           final == IF paged THEN rows ELSE PageOf(rows, limit, 0)
           N == Cardinality(places)
           T == {page[i].info : i \in DOMAIN page}
<1>1. DOMAIN page = 1..Len(page) /\ Len(page) \in Nat
  BY DEF PageRows
<1>2. /\ N \in Nat /\ shown \in [1..N -> places]
      /\ \A i \in places : \E j \in 1..N : shown[j] = i
      /\ \A i, j \in 1..N : i < j => shown[i] < shown[j]
  <2>1. places \in SUBSET (1..Len(page))
    BY <1>1
  <2> HIDE DEF places
  <2> QED
    BY <1>1, <2>1, AscendingOf
<1>3. \A i \in places : /\ i \in 1..Len(page)
                        /\ ShownOf(S, page[i].info, page[i].session_id, page[i].mtime)
                        /\ page[i].mtime \in Nat
  <2>1. PICK Q : page \in Seq([mtime : Nat, session_id : Ids, info : Q])
    BY DEF PageRows
  <2>2. \A i \in 1..Len(page) : page[i].mtime \in Nat
    BY <2>1, PageIsTyped
  <2>3. \A i \in 1..Len(page) :
          page[i].info = NoInfo \/ ShownOf(S, page[i].info, page[i].session_id, page[i].mtime)
    BY <1>1 DEF PageRows, IsWaiting
  <2> QED
    BY <1>1, <2>2, <2>3
<1> HIDE DEF places, shown, N
<1>4. /\ DOMAIN rows = 1..N
      /\ \A n \in 1..N : shown[n] \in places /\ rows[n] = page[shown[n]].info /\ rows[n] \in T
  BY <1>1, <1>2, <1>3
<1> HIDE DEF rows, T
<1>5. rows \in Seq(T) /\ Len(rows) = N
  <2>1. rows = [n \in 1..N |-> rows[n]]
    BY <1>4 DEF rows
  <2>2. rows \in [1..N -> T]
    BY <1>4, <2>1
  <2>3. rows \in Seq(T)
    BY <1>2, <2>2, OnInterval
  <2> QED
    BY <1>2, <1>4, <2>3
<1>6. /\ final \in Seq(T) /\ Len(final) <= N
      /\ \A n \in 1..Len(final) : final[n] = rows[n]
      /\ limit = 0 \/ paged => Len(final) = N
  <2>1. CASE paged
    BY <1>2, <1>5, <2>1
  <2>2. CASE ~paged
    <3>1. final = PageOf(rows, limit, 0)
      BY <2>2
    <3> HIDE DEF final
    <3> QED
      BY <1>5, <2>2, <3>1, PageIsPrefix
  <2> QED
    BY <2>1, <2>2
<1> HIDE DEF final
<1>7. DOMAIN final = 1..Len(final) /\ Len(final) \in Nat /\ Len(final) \in 0..N
  BY <1>2, <1>6
<1>8. ASSUME NEW n \in 1..Len(final)
      PROVE  /\ n \in 1..N /\ shown[n] \in places
             /\ ShownOf(S, final[n], page[shown[n]].session_id, page[shown[n]].mtime)
             /\ final[n].session = page[shown[n]].session_id
             /\ final[n].last_modified = page[shown[n]].mtime
  <2>1. n \in 1..N
    BY <1>2, <1>7
  <2>2. shown[n] \in places /\ final[n] = page[shown[n]].info
    BY <1>4, <1>6, <2>1
  <2> QED
    BY <1>3, <2>1, <2>2 DEF ShownOf
<1>9. ASSUME NEW m \in 1..Len(final), NEW n \in 1..Len(final), m < n
      PROVE  final[m].last_modified > final[n].last_modified /\ final[m].session # final[n].session
  <2>1. shown[m] < shown[n]
    BY <1>2, <1>8, <1>9
  <2>2. shown[m] \in 1..Len(page) /\ shown[n] \in 1..Len(page)
    BY <1>3, <1>8
  <2>3. /\ page[shown[m]].mtime > page[shown[n]].mtime
        /\ page[shown[m]].session_id # page[shown[n]].session_id
    BY <2>1, <2>2 DEF PageRows
  <2> QED
    BY <1>8, <2>3
<1> DEFINE listed == {final[i].session : i \in DOMAIN final}
<1>10. Cardinality(listed) = Len(final)
  <2> DEFINE f == [n \in 1..Len(final) |-> final[n].session]
  <2>1. f \in [1..Len(final) -> listed]
    BY <1>7
  <2>2. \A m, n \in 1..Len(final) : f[m] = f[n] => m = n
    <3> SUFFICES ASSUME NEW m \in 1..Len(final), NEW n \in 1..Len(final),
                        final[m].session = final[n].session, m # n
                 PROVE  FALSE
      OBVIOUS
    <3>1. m < n \/ n < m
      BY <1>7
    <3> QED
      BY <1>9, <3>1
  <2>3. \A s \in listed : \E n \in 1..Len(final) : f[n] = s
    BY <1>7
  <2> HIDE DEF f, listed
  <2>4. f \in Bijection(1..Len(final), listed)
    BY <2>1, <2>2, <2>3 DEF Bijection, Injection, Surjection, IsInjective
  <2> QED
    BY <1>7, <2>4, FS_CountingElements DEF ExistsBijection
<1>11. ASSUME limit = 0, NEW s \in Sessions, Showable(S, s) PROVE s \in listed
  <2>1. PICK i \in 1..Len(page) : page[i].session_id = s /\ page[i].info # NoInfo
    BY <1>11 DEF PageWhole
  <2>2. i \in places
    BY <1>1, <2>1 DEF places
  <2>3. PICK n \in 1..N : shown[n] = i
    BY <1>2, <2>2
  <2>4. n \in 1..Len(final)
    BY <1>6, <1>11, <2>3
  <2>5. final[n].session = s
    BY <1>8, <2>1, <2>3, <2>4
  <2> QED
    BY <1>7, <2>4, <2>5
<1>12. \A i \in DOMAIN final :
        \/ final[i].summary = ""
        \/ \E es : /\ <<MainKey(Project, final[i].session), es>> \in S /\ es # <<>>
                   /\ Facts(final[i]) \in Rows(final[i].session, es)
  BY <1>7, <1>8 DEF ShownOf
<1>13. RowsRight(S, final, limit)
  BY <1>7, <1>9, <1>10, <1>11, <1>12 DEF RowsRight
<1> QED
  BY <1>13 DEF final, rows, shown, places

-----------------------------------------------------------------------------
(* The steps of a listing *)

\* Through a listing: summaries that were read may be behind the store, never ahead of
\* it; from the enumeration on, the page shows what was seen since then and, unless it
\* was cut to a limit, misses no session with something to show.
ListInv == call.op = "list" =>
    /\ call.at # "done" => call.limit \in Limits /\ call.caps \in Adapters
    /\ call.at = "summaries" => call.caps.summaries
    /\ call.at = "sessions" => call.caps.list /\ (call.caps.summaries => Past(call.sums))
    /\ call.at = "load" =>
         /\ Snapshot(store) \subseteq seen /\ PageRows(seen, call.page)
         /\ call.limit = 0 \/ ~call.caps.summaries => PageWhole(seen, call.page)
    /\ call.at = "done" => RowsRight(seen, call.rows, call.limit)

LEMMA Capable ==
    ASSUME NEW caps \in Adapters PROVE caps.list \in BOOLEAN /\ caps.summaries \in BOOLEAN
BY CallsAssumption

LEMMA LimitIsNat == ASSUME NEW limit \in Limits PROVE limit \in Nat
BY CallsAssumption

\* A listing begins.
LEMMA BeginList ==
    ASSUME NEW limit \in Limits, NEW caps \in Adapters, List(limit, caps)
    PROVE  ListInv'
<1>1. /\ call'.op = "list" /\ call'.limit = limit /\ call'.caps = caps /\ call'.sums = {}
      /\ call'.at = IF caps.summaries THEN "summaries" ELSE "sessions"
  BY DEF List, Begin
<1>2. caps.list \/ caps.summaries
  BY DEF List
<1>3. Past({})'
  BY DEF Past
<1> QED
  BY <1>1, <1>2, <1>3 DEF ListInv, Past

\* Once the sessions are enumerated the page is there, with all that was seen until now.
LEMMA Opens ==
    ASSUME WellFormed(store), NEW limit \in Limits, NEW caps \in Adapters,
           NEW sums, NEW listing,
           \/ caps.list /\ listing = ListSessions(store, Project)
                /\ (caps.summaries => Past(sums))
           \/ /\ ~caps.list /\ caps.summaries /\ listing = {}
              /\ sums = ListSessionSummaries(store, Project),
           call.limit = limit, call.caps = caps,
           call' = Opened(call, sums, listing), seen' = Snapshot(store), store' = store
    PROVE  ListInv'
<1> DEFINE slots == IF caps.summaries THEN Slots(sums, listing, caps.list, Project)
                    ELSE {Gap(l) : l \in listing}
           sorted == Newest(slots)
           page == IF caps.summaries THEN PageOf(sorted, limit, 0) ELSE sorted
           size == IF caps.summaries THEN limit ELSE 0
<1>1. call' = [op |-> "list", at |-> "load", limit |-> limit, caps |-> caps, page |-> page]
  BY DEF Opened
<1>2. Slotted(slots)
  <2>1. CASE caps.summaries
    BY <2>1, Capable, SlotsRight
  <2>2. CASE ~caps.summaries
    <3>1. Slots({}, listing, TRUE, Project) = {Gap(l) : l \in listing}
      BY DEF Slots
    <3>2. Past({})
      BY DEF Past
    <3> QED
      BY <2>2, <3>1, <3>2, SlotsRight
  <2> QED
    BY <2>1, <2>2
<1>3. limit \in Nat /\ size \in Nat
  BY LimitIsNat
<1> HIDE DEF slots
<1>4. page = PageOf(sorted, size, 0)
  <2>1. CASE caps.summaries
    BY <2>1
  <2>2. CASE ~caps.summaries
    <3>1. sorted \in Seq(slots)
      BY <1>2, NewestOf
    <3> HIDE DEF sorted
    <3>2. SubSeq(sorted, 0 + 1, Len(sorted)) = sorted
      BY <3>1
    <3>3. PageOf(sorted, 0, 0) = sorted
      BY <3>2, Zenon DEF PageOf
    <3> QED
      BY <2>2, <3>3
  <2> QED
    BY <2>1, <2>2
<1> HIDE DEF page
<1>5. PageRows(Snapshot(store), page) /\ (size = 0 => PageWhole(Snapshot(store), page))
  BY <1>2, <1>3, <1>4, PageOpens
<1>6. limit = 0 \/ ~caps.summaries => size = 0
  OBVIOUS
<1> HIDE DEF size
<1>7. /\ call'.op = "list" /\ call'.at = "load" /\ call'.limit = limit /\ call'.caps = caps
      /\ call'.page = page
  BY <1>1
<1>8. Snapshot(store)' \subseteq seen'
  BY DEF Snapshot
<1> QED
  BY <1>5, <1>6, <1>7, <1>8 DEF ListInv

\* The summaries are read; without list_sessions they are all there is.
LEMMA ReadSummariesStep ==
    ASSUME IInv, ListInv, ReadSummaries PROVE ListInv'
<1> DEFINE sums == ListSessionSummaries(store, Project)
<1>0. call.op = "list" /\ call.at = "summaries" /\ store' = store
  BY DEF ReadSummaries, Reads
<1>1. call.limit \in Limits /\ call.caps \in Adapters /\ call.caps.summaries
  BY <1>0 DEF ListInv
<1>2. WellFormed(store)
  BY DEF IInv
<1>3. CASE call.caps.list
  <2>0. PICK now : now = sums
    OBVIOUS
  <2>1. call' = [call EXCEPT !.at = "sessions", !.sums = now]
    BY <1>3, <2>0 DEF ReadSummaries
  <2>2. Past(now)
    BY <1>2, <2>0, SummariesAreCurrent, CurrentIsPast
  <2> HIDE DEF sums
  <2>3. PICK S : call \in Opening(S)
    BY <1>0, Forms DEF IInv
  <2>4. /\ call'.op = "list" /\ call'.at = "sessions" /\ call'.sums = now
        /\ call'.limit = call.limit /\ call'.caps = call.caps
    BY <2>1, <2>3 DEF Opening
  <2>5. Past(call.sums)'
    BY <2>2, <2>4, <1>0 DEF Past
  <2> QED
    BY <1>1, <1>3, <2>4, <2>5 DEF ListInv
<1>4. CASE ~call.caps.list
  <2>1. call' = Opened(call, sums, {}) /\ seen' = Snapshot(store)
    BY <1>4 DEF ReadSummaries
  <2> QED
    BY <1>0, <1>1, <1>2, <1>4, <2>1, Opens
<1> QED
  BY <1>3, <1>4

\* The sessions are enumerated.
LEMMA ReadListingStep ==
    ASSUME IInv, ListInv, ReadListing PROVE ListInv'
<1>1. /\ call.op = "list" /\ call.at = "sessions" /\ store' = store /\ seen' = Snapshot(store)
      /\ call' = Opened(call, call.sums, ListSessions(store, Project))
  BY DEF ReadListing, Reads
<1>2. /\ call.limit \in Limits /\ call.caps \in Adapters /\ call.caps.list
      /\ call.caps.summaries => Past(call.sums)
  BY <1>1 DEF ListInv
<1>3. WellFormed(store)
  BY DEF IInv
<1> QED
  BY <1>1, <1>2, <1>3, Opens

\* A load that ends, in whatever order.
LEMMA Fills ==
    ASSUME IInv, ListInv, call.op = "list", call.at = "load",
           NEW i \in DOMAIN call.page, NEW info,
           info = NoInfo \/ ShownOf(seen, info, call.page[i].session_id, call.page[i].mtime),
           info = NoInfo => ~Showable(seen, call.page[i].session_id),
           call' = [call EXCEPT !.page[i].info = info], seen' = seen, store' = store
    PROVE  ListInv'
<1>1. PICK S : call \in Loading(S)
  BY Forms DEF IInv
<1> DEFINE filled == [call.page EXCEPT ![i].info = info]
<1>2. call' = [call EXCEPT !.page = filled]
  BY <1>1 DEF Loading
<1> HIDE DEF filled
<1>3. /\ call'.op = "list" /\ call'.at = "load" /\ call'.page = filled
      /\ call'.limit = call.limit /\ call'.caps = call.caps
  BY <1>1, <1>2 DEF Loading
<1> DEFINE page == call.page
<1>4. /\ call.limit \in Limits /\ call.caps \in Adapters /\ Snapshot(store) \subseteq seen
      /\ PageRows(seen, page) /\ (call.limit = 0 \/ ~call.caps.summaries => PageWhole(seen, page))
  BY DEF ListInv
<1>5. filled = [page EXCEPT ![i].info = info]
  BY DEF filled
<1>6. info = NoInfo \/ ShownOf(seen, info, page[i].session_id, page[i].mtime)
  OBVIOUS
<1>7. info = NoInfo => ~Showable(seen, page[i].session_id)
  OBVIOUS
<1>a. i \in DOMAIN page
  OBVIOUS
<1> HIDE DEF page
<1>8. PageRows(seen, filled) /\ (PageWhole(seen, page) => PageWhole(seen, filled))
  BY <1>4, <1>5, <1>6, <1>7, <1>a, PageFills
<1>9. Snapshot(store)' \subseteq seen'
  BY <1>4 DEF Snapshot
<1> QED
  BY <1>3, <1>4, <1>8, <1>9 DEF ListInv

\* A load ends, or the adapter fails.
LEMMA LoadGapStep ==
    ASSUME IInv, ListInv, NEW i, LoadGap(i) \/ LoadGapFails(i) PROVE ListInv'
<1>1. /\ call.op = "list" /\ call.at = "load" /\ i \in DOMAIN call.page
      /\ seen' = seen /\ store' = store
  BY DEF LoadGap, LoadGapFails, Reads
<1> DEFINE id == call.page[i].session_id
           m == call.page[i].mtime
           es == Load(store, MainKey(Project, id))
<1>2. PageRows(seen, call.page) /\ Snapshot(store) \subseteq seen
  BY <1>1 DEF ListInv
<1>3. id \in Ids
  <2> DEFINE page == call.page
  <2>1. PICK T : page \in Seq([mtime : Nat, session_id : Ids, info : T])
    BY <1>2 DEF PageRows
  <2>2. i \in DOMAIN page
    BY <1>1
  <2> HIDE DEF page
  <2>3. page[i] \in [mtime : Nat, session_id : Ids, info : T]
    BY <2>1, <2>2, PageIsTyped
  <2>4. page[i].session_id \in Ids
    BY <2>3
  <2> QED
    BY <2>4 DEF page
<1>4. <<MainKey(Project, id), es>> \in seen
  BY <1>2, <1>3 DEF Snapshot, Load, Ids
<1>5. ASSUME LoadGap(i) PROVE ListInv'
  <2> DEFINE info == LoadedInfo(id, es, m, Project)
  <2>1. call' = [call EXCEPT !.page[i].info = info]
    BY <1>5 DEF LoadGap
  <2>2. info = NoInfo => ~Showable(seen, id)
    <3>1. CASE es = <<>>
      BY <1>4, <3>1 DEF Showable
    <3>2. CASE es # <<>>
      BY <1>4, <3>2, LiteShows DEF Showable, LoadedInfo, HasEntries, RowSays
    <3> QED
      BY <3>1, <3>2
  <2>3. info = NoInfo \/ ShownOf(seen, info, id, m)
    BY <1>4, LiteShows DEF ShownOf, LoadedInfo, HasEntries, RowSays
  <2> HIDE DEF info
  <2> QED
    BY <1>1, <2>1, <2>2, <2>3, Fills
<1>6. ASSUME LoadGapFails(i) PROVE ListInv'
  <2> DEFINE info == EmptyRow(id, m)
  <2>1. call' = [call EXCEPT !.page[i].info = info]
    BY <1>6 DEF LoadGapFails
  <2>2. info # NoInfo /\ info # Waiting /\ info.session = id /\ info.last_modified = m
        /\ info.summary = ""
    BY DEF EmptyRow, NoInfo, Waiting
  <2> HIDE DEF info
  <2>3. ShownOf(seen, info, id, m)
    BY <2>2 DEF ShownOf
  <2> QED
    BY <1>1, <2>1, <2>2, <2>3, Fills
<1> QED
  BY <1>5, <1>6

\* All loads have ended.
LEMMA ListedStep ==
    ASSUME IInv, ListInv, Listed PROVE ListInv'
<1> DEFINE page == call.page
           shown == Ascending({i \in DOMAIN page : page[i].info # NoInfo})
           rows == [n \in DOMAIN shown |-> page[shown[n]].info]
           limit == call.limit
           paged == call.caps.summaries
           final == IF paged THEN rows ELSE PageOf(rows, limit, 0)
<1>1. /\ call.op = "list" /\ call.at = "load" /\ seen' = seen
      /\ \A i \in DOMAIN page : ~IsWaiting(page[i])
      /\ call' = [op |-> "list", at |-> "done", limit |-> limit, rows |-> final]
  BY DEF Listed
<1>2. /\ limit \in Nat /\ paged \in BOOLEAN /\ PageRows(seen, page)
      /\ limit = 0 \/ ~paged => PageWhole(seen, page)
  BY <1>1, Capable, LimitIsNat DEF ListInv
<1>3. RowsRight(seen, final, limit)
  <2> HIDE DEF page, limit, paged
  <2> QED
    BY <1>1, <1>2, PageShows
<1> HIDE DEF final, limit
<1>4. /\ call'.op = "list" /\ call'.at = "done" /\ call'.limit = limit /\ call'.rows = final
  BY <1>1
<1> QED
  BY <1>1, <1>3, <1>4 DEF ListInv

\* What others write while a call runs only adds to what was seen.
LEMMA SeenGrows ==
    ASSUME NEW S, NEW T, S \subseteq T, NEW page
    PROVE  /\ PageRows(S, page) => PageRows(T, page)
           /\ PageWhole(S, page) => PageWhole(T, page)
<1>1. \A info, id, m : ShownOf(S, info, id, m) => ShownOf(T, info, id, m)
  BY DEF ShownOf
<1>2. \A s : Showable(T, s) => Showable(S, s)
  BY DEF Showable
<1> QED
  BY <1>1, <1>2 DEF PageRows, PageWhole

\* What others write leaves a summary behind the store.
LEMMA StaysPast ==
    ASSUME WellFormed(store), StoreMoves, NEW sums, Past(sums)
    PROVE  Past(sums)'
<1> SUFFICES ASSUME NEW s \in sums
             PROVE  LET k == MainKey(Project, s.session_id) IN
                    /\ s.session_id \in Ids /\ s.mtime \in Nat /\ s.mtime <= store'.last_mtime
                    /\ k \in DOMAIN store'.data =>
                         /\ store'.mtimes[k] >= s.mtime
                         /\ store'.mtimes[k] = s.mtime => s.data = Fold(<<>>, store'.data[k])
  BY DEF Past
<1> DEFINE k == MainKey(Project, s.session_id)
<1>1. /\ s.session_id \in Ids /\ s.mtime \in Nat /\ s.mtime <= store.last_mtime
      /\ k \in DOMAIN store.data =>
           /\ store.mtimes[k] >= s.mtime
           /\ store.mtimes[k] = s.mtime => s.data = Fold(<<>>, store.data[k])
  BY DEF Past
<1>2. store.last_mtime \in Nat /\ store'.last_mtime \in Nat /\ store'.last_mtime >= store.last_mtime
  BY DEF WellFormed, StoreMoves, Later
<1> HIDE DEF k
<1>3. ASSUME k \in DOMAIN store'.data
      PROVE  /\ store'.mtimes[k] >= s.mtime
             /\ store'.mtimes[k] = s.mtime => s.data = Fold(<<>>, store'.data[k])
  <2>1. store'.mtimes[k] \in Nat
    BY <1>3 DEF StoreMoves, WellFormed
  <2>2. CASE store'.mtimes[k] > store.last_mtime
    BY <1>1, <1>2, <2>1, <2>2
  <2>3. CASE /\ k \in DOMAIN store.data /\ store'.mtimes[k] = store.mtimes[k]
             /\ store'.data[k] = store.data[k]
    BY <1>1, <2>3
  <2> QED
    BY <1>3, <2>2, <2>3 DEF StoreMoves, Later
<1>4. s.mtime <= store'.last_mtime
  BY <1>1, <1>2
<1> QED
  BY <1>1, <1>3, <1>4 DEF k

\* Others write while a listing runs.
LEMMA WrittenListStep ==
    ASSUME IInv, ListInv, StoreMoves, NEW st, NEW k, Written(st, k) PROVE ListInv'
<1>1. CASE ~Running
  BY <1>1 DEF Written, ListInv, Idle
<1>2. CASE Running
  <2>1. /\ call' = call /\ seen \subseteq seen' /\ Snapshot(store)' \subseteq seen'
        /\ call.at # "done"
    BY <1>2 DEF Written, Running, Snapshot
  <2>2. ASSUME call.op = "list", call.at = "sessions", call.caps.summaries PROVE Past(call.sums)'
    <3>1. PICK sums : sums = call.sums
      OBVIOUS
    <3>2. Past(sums)
      BY <2>2, <3>1 DEF ListInv
    <3>3. Past(sums)'
      BY <3>2, StaysPast DEF IInv
    <3> QED
      BY <2>1, <3>1, <3>3 DEF Past
  <2>3. ASSUME call.op = "list", call.at = "load"
        PROVE  /\ PageRows(seen', call.page)
               /\ call.limit = 0 \/ ~call.caps.summaries => PageWhole(seen', call.page)
    BY <2>1, <2>3, SeenGrows DEF ListInv
  <2> QED
    BY <2>1, <2>2, <2>3 DEF ListInv
<1> QED
  BY <1>1, <1>2

\* The other calls never turn into a listing.
LEMMA OtherOps ==
    ASSUME CallShape,
           \/ ReadFails
           \/ Import \/ ImportAppend \/ ImportSubagent \/ Imported \/ ImportFails
           \/ \E s \in Sessions \cup {Absent}, caps \in Adapters : Resume(s, caps)
           \/ call.op = "resume" /\ ResumeStep
    PROVE  call'.op # "list"
<1>1. "op" \in DOMAIN call
  BY DEF CallShape, CallOf, Opening, Loading, Shown, Resuming, Importing, Over
<1>2. ASSUME \/ ReadFails
             \/ Import \/ ImportAppend \/ ImportSubagent \/ Imported \/ ImportFails
      PROVE  call'.op # "list"
  <2>1. ReadFails \/ Imported \/ ImportFails => call'.op # "list"
    BY DEF ReadFails, Imported, ImportFails
  <2>2. Import => call'.op # "list"
    BY DEF Import, Begin
  <2>3. ImportAppend => call'.op # "list"
    BY <1>1 DEF ImportAppend
  <2>4. ImportSubagent => call'.op # "list"
    BY <1>1 DEF ImportSubagent
  <2> QED
    BY <1>2, <2>1, <2>2, <2>3, <2>4
<1>3. ASSUME NEW s, NEW caps, Resume(s, caps) PROVE call'.op # "list"
  BY <1>3 DEF Resume, Begin
<1>4. ASSUME call.op = "resume", ResumeStep PROVE call'.op # "list"
  BY <1>1, <1>4 DEF ResumeStep, ReadCandidates, NothingToResume, ReadSubkeys, Materialize,
     LoadCandidate, LoadSubkey
<1> QED
  BY <1>2, <1>3, <1>4

\* Every step keeps what ListInv says.
LEMMA ListStep == IInv /\ ListInv /\ [Next]_vars => ListInv'
<1> SUFFICES ASSUME IInv, ListInv, [Next]_vars PROVE ListInv'
  OBVIOUS
<1>0. CallShape
  BY DEF IInv
<1>1. StoreMoves
  BY StoreStep
<1>2. CASE UNCHANGED vars
  BY <1>2 DEF vars, ListInv, Past, Snapshot
<1>3. ASSUME \/ Mirror
             \/ \E s \in Sessions : Delete(s) \/ \E t \in Titles : Rename(s, t)
             \/ \E s \in Sessions : \E t \in Tags : TagSession(s, t)
      PROVE  ListInv'
  BY <1>1, <1>3, WrittenListStep DEF Mirror, Delete, Rename, TagSession
<1>4. ASSUME \/ \E limit \in Limits : \E caps \in Adapters : List(limit, caps)
             \/ ReadSummaries \/ ReadListing \/ Listed
             \/ \E i \in 1..Cardinality(Sessions) : LoadGap(i) \/ LoadGapFails(i)
      PROVE  ListInv'
  BY <1>4, BeginList, ReadSummariesStep, ReadListingStep, ListedStep, LoadGapStep
<1>5. ASSUME call'.op # "list" PROVE ListInv'
  BY <1>5 DEF ListInv
<1>6. ASSUME \/ ReadFails
             \/ Import \/ ImportAppend \/ ImportSubagent \/ Imported \/ ImportFails
      PROVE  ListInv'
  <2>1. call'.op # "list"
    BY <1>0, <1>6, OtherOps
  <2> QED
    BY <1>5, <2>1
<1>7. ASSUME \/ \E s \in Sessions \cup {Absent}, caps \in Adapters : Resume(s, caps)
             \/ call.op = "resume" /\ ResumeStep
      PROVE  ListInv'
  <2>1. call'.op # "list"
    BY <1>0, <1>7, OtherOps
  <2> QED
    BY <1>5, <2>1
<1>8. CASE Next
  <2>1. ReadCandidates \/ NothingToResume \/ ReadSubkeys \/ Materialize =>
          call.op = "resume" /\ ResumeStep
    BY DEF ReadCandidates, NothingToResume, ReadSubkeys, Materialize, ResumeStep
  <2> DEFINE Kept == ListInv'
  <2>2. /\ \A s \in Sessions \cup {Absent}, caps \in Adapters : Resume(s, caps) => Kept
        /\ call.op = "resume" /\ ResumeStep => Kept
    BY <1>7
  <2>3. /\ Mirror => Kept
        /\ \A s \in Sessions : (Delete(s) \/ \E t \in Titles : Rename(s, t)) => Kept
        /\ \A s \in Sessions : (\E t \in Tags : TagSession(s, t)) => Kept
    BY <1>3
  <2>4. /\ \A limit \in Limits : \A caps \in Adapters : List(limit, caps) => Kept
        /\ ReadSummaries \/ ReadListing \/ Listed => Kept
        /\ \A i \in 1..Cardinality(Sessions) : LoadGap(i) \/ LoadGapFails(i) => Kept
    BY <1>4
  <2>5. ReadFails \/ Import \/ ImportAppend \/ ImportSubagent \/ Imported \/ ImportFails => Kept
    BY <1>6
  <2>6. /\ call.op = "resume" /\ (\E r \in call.candidates : LoadCandidate(r)) => Kept
        /\ call.op = "resume" /\ (\E p \in call.left : LoadSubkey(p)) => Kept
        /\ ReadCandidates \/ NothingToResume \/ ReadSubkeys \/ Materialize => Kept
    BY <2>1, <2>2 DEF ResumeStep
  <2> HIDE DEF Kept
  <2>7. Kept
    BY <1>8, <2>2, <2>3, <2>4, <2>5, <2>6 DEF Next
  <2> QED
    BY <2>7 DEF Kept
<1> QED
  BY <1>2, <1>8

LEMMA ListInvariance == Spec => []ListInv
<1>1. Init => ListInv
  BY DEF Init, Idle, ListInv
<1> QED
  BY <1>1, Invariance, ListStep, PTL DEF Spec

\* What a listing that ended returned is what ListedSinceEnumeration says.
LEMMA RowsAreRight == ListInv => ListedSinceEnumeration
<1> SUFFICES ASSUME ListInv, call.op = "list", call.at = "done" PROVE ListedSinceEnumeration
  BY DEF ListedSinceEnumeration
<1> DEFINE held(s) == {x[2] : x \in {y \in seen : y[1] = MainKey(Project, s)}}
<1>1. RowsRight(seen, call.rows, call.limit)
  BY DEF ListInv
<1>2. ASSUME NEW s, NEW es, <<MainKey(Project, s), es>> \in seen PROVE es \in held(s)
  <2>1. /\ <<MainKey(Project, s), es>> \in {y \in seen : y[1] = MainKey(Project, s)}
        /\ <<MainKey(Project, s), es>>[2] = es
    BY <1>2
  <2> QED
    BY <2>1
<1> HIDE DEF held
<1>3. ASSUME NEW s, \A es \in held(s) : es # <<>> /\ Facts(NoInfo) \notin Rows(s, es)
      PROVE  Showable(seen, s)
  BY <1>2, <1>3 DEF Showable
<1> QED
  BY <1>1, <1>2, <1>3 DEF RowsRight, ListedSinceEnumeration, held

\* What summaries show is what the parse shows.
LEMMA ParsesMatch == WellFormed(store) => SummariesMatch
<1> SUFFICES ASSUME WellFormed(store), NEW k \in DOMAIN store.summaries, k[1] = Project,
                    Len(store.data[k]) <= Window, Plain(store.data[k])
             PROVE  Without(SummaryToInfo(k[2], store.summaries[k], Project), "tag") =
                      Without(LiteInfo(k[2], store.data[k], store.mtimes[k], Project), "tag")
  BY DEF SummariesMatch, Plain
<1> DEFINE es == store.data[k]
<1>1. /\ k \in DOMAIN store.data /\ IsSequence(es)
      /\ store.summaries[k] = [mtime |-> store.mtimes[k], data |-> Fold(<<>>, es)]
  BY KeysAreKeys DEF WellFormed
<1> QED
  BY <1>1, SummaryIsParse

-----------------------------------------------------------------------------
(* What an import appends *)

\* The files of the session, the main transcript among them.
LEMMA DiskHolds ==
    /\ DiskMain \in DOMAIN Disk /\ IsMain(DiskMain) /\ Disk[DiskMain].meta = NoMeta
    /\ DiskMain[2] \in Part /\ DiskMain = MainKey(Project, DiskMain[2]) /\ DiskMain[2] # Absent
    /\ \A j \in DOMAIN Disk \ {DiskMain} : Under(DiskMain, j) /\ OfSubagent(j)
    /\ DOMAIN Disk \subseteq Keys /\ DOMAIN Disk \subseteq KeySet
<1>1. DOMAIN Disk \subseteq Keys /\ DOMAIN Disk \subseteq KeySet
  BY KeysAreKeys DEF Keys, GivenKeys
<1>2. PICK k \in DOMAIN Disk : /\ IsMain(k) /\ Disk[k].meta = NoMeta
                               /\ \A j \in DOMAIN Disk \ {k} : Under(k, j) /\ OfSubagent(j)
  BY CallsAssumption
<1>3. /\ k \in KeySet /\ k[1] = Project /\ k[2] # Absent /\ k[2] \in Part /\ Project \in Part
      /\ k = MainKey(Project, k[2])
  <2>1. k \in KeySet /\ k[1] = Project /\ k[2] # Absent /\ Project \in Part
    BY <1>1, CallsAssumption DEF GivenKeys
  <2>2. k[2] \in Part
    BY <2>1 DEF KeySet
  <2> QED
    BY <1>2, <2>1, <2>2, MainIsPair
<1>4. ASSUME NEW j \in DOMAIN Disk, IsMain(j) PROVE j = k
  <2> SUFFICES ASSUME j # k PROVE FALSE
    OBVIOUS
  <2>1. Under(MainKey(Project, k[2]), j) /\ j \in KeySet
    BY <1>1, <1>2, <1>3
  <2>2. Len(j) > 2
    BY <1>3, <2>1, UnderMain
  <2> QED
    BY <1>4, <2>2 DEF IsMain
<1>5. DiskMain = k
  BY <1>2, <1>4 DEF DiskMain
<1> QED
  BY <1>1, <1>2, <1>3, <1>5

\* All that is appended for a file, in one go.
Whole(k) ==
    Disk[k].lines \o IF Disk[k].meta = NoMeta THEN <<>> ELSE <<Sidecar(Disk[k].meta)>>

\* Two sequences are over one set.
LEMMA OverOne ==
    ASSUME NEW a, IsSequence(a), NEW b, IsSequence(b)
    PROVE  \E S : a \in Seq(S) /\ b \in Seq(S)
<1> DEFINE S == {a[i] : i \in DOMAIN a} \cup {b[i] : i \in DOMAIN b}
<1>1. a \in Seq(S) /\ b \in Seq(S)
  BY SeqMonotonic DEF IsSequence
<1> QED
  BY <1>1

LEMMA NothingAndOne ==
    /\ IsSequence(<<>>)
    /\ \A e : IsSequence(<<e>>) /\ Len(<<e>>) = 1 /\ <<e>>[1] = e
<1>1. IsSequence(<<>>)
  BY DEF IsSequence
<1>2. ASSUME NEW e PROVE IsSequence(<<e>>)
  <2>1. <<e>> \in Seq({e})
    OBVIOUS
  <2> QED
    BY <2>1, InSeq
<1> QED
  BY <1>1, <1>2

\* A sidecar that is appended is metadata, and only that is.
LEMMA SidecarIs ==
    ASSUME NEW meta
    PROVE  /\ IsMetadata(Sidecar(meta)) /\ Sidecar(meta) # NoMeta
           /\ Without(Sidecar(meta), "type") = Without(meta, "type")
<1>1. /\ "type" \in DOMAIN Sidecar(meta) /\ Sidecar(meta)["type"] = "agent_metadata"
      /\ DOMAIN Sidecar(meta) = DOMAIN meta \cup {"type"}
      /\ \A j \in DOMAIN meta \ {"type"} : Sidecar(meta)[j] = meta[j]
  BY DEF Sidecar, Put
<1>2. IsMetadata(Sidecar(meta))
  BY <1>1 DEF IsMetadata, IsType, Get
<1>3. DOMAIN NoMeta = {Absent} /\ Absent # "type"
  BY DEF NoMeta, Absent
<1>4. Sidecar(meta) # NoMeta
  BY <1>1, <1>3
<1>5. Without(Sidecar(meta), "type") = Without(meta, "type")
  <2>1. DOMAIN Sidecar(meta) \ {"type"} = DOMAIN meta \ {"type"}
    BY <1>1
  <2> QED
    BY <1>1, <2>1 DEF Without
<1> QED
  BY <1>2, <1>4, <1>5

\* What the whole of a file is.
IsWhole(w, lines, meta) ==
    /\ IsSequence(w) /\ IsSequence(lines) /\ Len(lines) \in Nat /\ Len(w) \in Nat
    /\ \A i \in 1..Len(lines) : w[i] = lines[i] /\ ~IsMetadata(lines[i])
    /\ meta = NoMeta => Len(w) = Len(lines) /\ w = lines
    /\ meta # NoMeta => /\ Len(w) = Len(lines) + 1
                        /\ w[Len(lines) + 1] = Sidecar(meta)

LEMMA WholeIs == ASSUME NEW k \in DOMAIN Disk PROVE IsWhole(Whole(k), Disk[k].lines, Disk[k].meta)
<1> DEFINE lines == Disk[k].lines
           meta == Disk[k].meta
           rest == IF meta = NoMeta THEN <<>> ELSE <<Sidecar(meta)>>
<1>1. IsSequence(lines) /\ \A i \in DOMAIN lines : ~IsMetadata(lines[i])
  BY CallsAssumption DEF IsTranscript
<1>2. /\ IsSequence(rest)
      /\ meta = NoMeta => rest = <<>>
      /\ meta # NoMeta => Len(rest) = 1 /\ rest[1] = Sidecar(meta)
  BY NothingAndOne
<1>3. Whole(k) = lines \o rest
  BY DEF Whole
<1> HIDE DEF lines, meta, rest
<1>4. PICK S : lines \in Seq(S) /\ rest \in Seq(S)
  BY <1>1, <1>2, OverOne
<1>5. /\ lines \o rest \in Seq(S) /\ Len(lines \o rest) = Len(lines) + Len(rest)
      /\ Len(lines) \in Nat /\ Len(rest) \in Nat /\ DOMAIN lines = 1..Len(lines)
      /\ \A i \in 1..Len(lines) + Len(rest) :
           (lines \o rest)[i] = IF i <= Len(lines) THEN lines[i] ELSE rest[i - Len(lines)]
  BY <1>4, ConcatProperties
<1>6. IsSequence(lines \o rest)
  BY <1>5, InSeq
<1>7. meta = NoMeta => lines \o rest = lines
  BY <1>2, <1>4, ConcatEmptySeq
<1>8. \A i \in 1..Len(lines) : (lines \o rest)[i] = lines[i]
  BY <1>5
<1>9. meta # NoMeta => (lines \o rest)[Len(lines) + 1] = Sidecar(meta)
  <2> SUFFICES ASSUME meta # NoMeta PROVE (lines \o rest)[Len(lines) + 1] = Sidecar(meta)
    OBVIOUS
  <2>1. Len(rest) = 1 /\ rest[1] = Sidecar(meta)
    BY <1>2
  <2>2. Len(lines) + 1 \in 1..Len(lines) + Len(rest) /\ (Len(lines) + 1) - Len(lines) = 1
    BY <1>5, <2>1
  <2>3. ~(Len(lines) + 1 <= Len(lines))
    BY <1>5
  <2> QED
    BY <1>5, <2>1, <2>2, <2>3
<1>10. Len(lines \o rest) = Len(lines) + IF meta = NoMeta THEN 0 ELSE 1
  BY <1>2, <1>5
<1> DEFINE w == lines \o rest
<1>11. /\ IsSequence(w) /\ Len(w) = Len(lines) + IF meta = NoMeta THEN 0 ELSE 1
       /\ \A i \in 1..Len(lines) : w[i] = lines[i] /\ ~IsMetadata(lines[i])
       /\ meta = NoMeta => w = lines
       /\ meta # NoMeta => w[Len(lines) + 1] = Sidecar(meta)
  BY <1>1, <1>5, <1>6, <1>7, <1>8, <1>9, <1>10
<1> HIDE DEF w
<1>12. IsWhole(w, lines, meta)
  <2>1. Len(w) \in Nat /\ Len(lines) \in Nat
    BY <1>5, <1>11
  <2> QED
    BY <1>1, <1>11, <2>1 DEF IsWhole
<1> QED
  BY <1>3, <1>12 DEF w, lines, meta

\* What is left to append brings what is stored from the n-th entry to the end.
Feeds(left, w, n) ==
    \E cut \in [0..Len(left) -> 0..Len(w)] :
        /\ cut[0] = n /\ cut[Len(left)] = Len(w)
        /\ \A i \in 1..Len(left) : /\ cut[i - 1] < cut[i]
                                   /\ left[i] = SubSeq(w, cut[i - 1] + 1, cut[i])

\* The append that comes next, and the rest.
LEMMA FeedsOn ==
    ASSUME NEW S, NEW left \in Seq(S), NEW w, Len(w) \in Nat, NEW n, Feeds(left, w, n)
    PROVE  /\ n \in 0..Len(w)
           /\ left = <<>> => n = Len(w)
           /\ left # <<>> => \E m \in 0..Len(w) : /\ n < m /\ Head(left) = SubSeq(w, n + 1, m)
                                                  /\ Feeds(Tail(left), w, m)
<1>0. Len(left) \in Nat /\ 0 \in 0..Len(left)
  OBVIOUS
<1>1. PICK cut \in [0..Len(left) -> 0..Len(w)] :
        /\ cut[0] = n /\ cut[Len(left)] = Len(w)
        /\ \A i \in 1..Len(left) : /\ cut[i - 1] < cut[i]
                                   /\ left[i] = SubSeq(w, cut[i - 1] + 1, cut[i])
  BY DEF Feeds
<1>2. n \in 0..Len(w)
  BY <1>0, <1>1
<1>3. left = <<>> => n = Len(w)
  BY <1>1
<1>4. ASSUME left # <<>>
      PROVE  \E m \in 0..Len(w) : /\ n < m /\ Head(left) = SubSeq(w, n + 1, m)
                                  /\ Feeds(Tail(left), w, m)
  <2> DEFINE rest == Tail(left)
             after == [i \in 0..Len(rest) |-> cut[i + 1]]
  <2>1. /\ Len(left) >= 1 /\ Len(rest) = Len(left) - 1 /\ Len(rest) \in Nat
        /\ Head(left) = left[1] /\ \A i \in 1..Len(rest) : rest[i] = left[i + 1]
    BY <1>4, HeadTailProperties
  <2>2. 1 \in 1..Len(left) /\ 1 \in 0..Len(left)
    BY <2>1, <1>0
  <2>3. cut[1] \in 0..Len(w) /\ n < cut[1] /\ Head(left) = SubSeq(w, n + 1, cut[1])
    BY <1>1, <2>1, <2>2
  <2> HIDE DEF rest
  <2>4. after \in [0..Len(rest) -> 0..Len(w)]
    <3>1. ASSUME NEW i \in 0..Len(rest) PROVE cut[i + 1] \in 0..Len(w)
      <4>1. i + 1 \in 0..Len(left)
        BY <1>0, <2>1
      <4> QED
        BY <4>1
    <3> QED
      BY <3>1
  <2>5. after[0] = cut[1] /\ after[Len(rest)] = Len(w)
    <3>1. 0 \in 0..Len(rest) /\ Len(rest) \in 0..Len(rest) /\ Len(rest) + 1 = Len(left)
      BY <1>0, <2>1
    <3> QED
      BY <1>1, <3>1
  <2>6. ASSUME NEW i \in 1..Len(rest)
        PROVE  after[i - 1] < after[i] /\ rest[i] = SubSeq(w, after[i - 1] + 1, after[i])
    <3>1. /\ i + 1 \in 1..Len(left) /\ (i + 1) - 1 = i /\ i \in 0..Len(rest)
          /\ i - 1 \in 0..Len(rest) /\ (i - 1) + 1 = i
      BY <1>0, <2>1
    <3>2. after[i - 1] = cut[i] /\ after[i] = cut[i + 1] /\ rest[i] = left[i + 1]
      BY <2>1, <3>1
    <3>3. cut[i] < cut[i + 1] /\ left[i + 1] = SubSeq(w, cut[i] + 1, cut[i + 1])
      BY <1>1, <3>1
    <3> QED
      BY <3>2, <3>3
  <2> HIDE DEF after
  <2>7. Feeds(rest, w, cut[1])
    BY <2>4, <2>5, <2>6 DEF Feeds
  <2> QED
    BY <2>3, <2>7 DEF rest
<1> QED
  BY <1>2, <1>3, <1>4

\* The batches of the lines cut them up.
LEMMA BatchesCut ==
    ASSUME NEW S, NEW lines \in Seq(S)
    PROVE  \E n \in Nat : \E cut \in [0..n -> 0..Len(lines)] :
             /\ Len(Batches(lines)) = n /\ cut[0] = 0 /\ cut[n] = Len(lines)
             /\ \A i \in 1..n : /\ cut[i - 1] < cut[i]
                                /\ Batches(lines)[i] = SubSeq(lines, cut[i - 1] + 1, cut[i])
<1> DEFINE B == BatchSize
           L == Len(lines)
           n == (L + B - 1) \div B
           cut == [i \in 0..n |-> IF i * B < L THEN i * B ELSE L]
<1>1. B \in Nat /\ B >= 1 /\ L \in Nat
  BY CallsAssumption
<1>2. n \in Nat /\ n * B <= L + B - 1 /\ L + B - 1 < (n + 1) * B
  <2>1. L + B - 1 \in Nat
    BY <1>1
  <2> HIDE DEF L, B
  <2>2. (L + B - 1) \div B \in Nat
    BY <1>1, <2>1
  <2>3. ((L + B - 1) \div B) * B <= L + B - 1 /\ L + B - 1 < (((L + B - 1) \div B) + 1) * B
    BY <1>1, <2>1
  <2> QED
    BY <2>2, <2>3
<1> HIDE DEF n, B, L
<1>3. /\ \A i \in Nat : i * B \in Nat
      /\ \A i \in Nat : (i + 1) * B = i * B + B
      /\ 0 * B = 0
  BY <1>1
<1>4. L <= n * B
  BY <1>1, <1>2, <1>3
<1>5. ASSUME NEW i \in 1..n PROVE (i - 1) * B < L
  <2>1. i \in Nat /\ i - 1 \in Nat /\ i <= n /\ i * B = (i - 1) * B + B
    BY <1>1, <1>2
  <2>2. i * B <= n * B
    BY <1>1, <1>2, <2>1
  <2>3. (i - 1) * B \in Nat /\ n * B \in Nat
    BY <1>2, <1>3, <2>1
  <2>4. i * B \in Nat
    BY <1>3, <2>1
  <2> QED
    BY <1>1, <1>2, <2>1, <2>2, <2>3, <2>4
<1>6. cut \in [0..n -> 0..L]
  <2>1. ASSUME NEW i \in 0..n PROVE (IF i * B < L THEN i * B ELSE L) \in 0..L
    <3>0. i \in Nat
      BY <1>2
    <3>1. i * B \in Nat
      BY <1>3, <3>0
    <3> QED
      BY <1>1, <3>1
  <2> QED
    BY <2>1
<1>7. cut[0] = 0 /\ cut[n] = L
  <2>1. 0 \in 0..n /\ n \in 0..n /\ n * B \in Nat
    BY <1>2, <1>3
  <2>2. ~(n * B < L)
    BY <1>1, <1>4, <2>1
  <2> QED
    BY <1>1, <1>3, <2>1, <2>2
<1>8. Batches(lines) = [i \in 1..n |-> SubSeq(lines, (i - 1) * B + 1, IF i * B < L THEN i * B ELSE L)]
  BY DEF Batches, n, L, B
<1>9. Len(Batches(lines)) = n
  BY <1>2, <1>8
<1>10. ASSUME NEW i \in 1..n
       PROVE  cut[i - 1] < cut[i] /\ Batches(lines)[i] = SubSeq(lines, cut[i - 1] + 1, cut[i])
  <2>1. i \in 0..n /\ i - 1 \in 0..n /\ i - 1 \in Nat /\ i \in Nat
    BY <1>2
  <2>2. cut[i - 1] = (i - 1) * B /\ cut[i] = IF i * B < L THEN i * B ELSE L
    BY <1>5, <2>1
  <2>3. i * B = (i - 1) * B + B
    BY <1>1, <2>1
  <2>4. (i - 1) * B \in Nat /\ i * B \in Nat
    BY <1>3, <2>1
  <2>5. cut[i - 1] < cut[i]
    BY <1>1, <1>5, <2>2, <2>3, <2>4
  <2>6. Batches(lines)[i] = SubSeq(lines, (i - 1) * B + 1, IF i * B < L THEN i * B ELSE L)
    BY <1>8
  <2> QED
    BY <2>2, <2>5, <2>6
<1> HIDE DEF cut
<1> QED
  BY <1>2, <1>6, <1>7, <1>9, <1>10 DEF L

\* What a piece of a sequence has.
LEMMA PieceHas ==
    ASSUME NEW S, NEW s, NEW x \in Nat, NEW y \in Nat, x < y, \A j \in x + 1..y : s[j] \in S
    PROVE  /\ SubSeq(s, x + 1, y) \in Seq(S) /\ Len(SubSeq(s, x + 1, y)) = y - x
           /\ \A j \in 1..y - x : SubSeq(s, x + 1, y)[j] = s[x + j]
<1> DEFINE m == x + 1
<1>1. m \in Int /\ y \in Int /\ m <= y /\ y - m + 1 = y - x
  OBVIOUS
<1>2. \A j \in 1..y - x : m + j - 1 = x + j
  OBVIOUS
<1>3. \A j \in m..y : s[j] \in S
  OBVIOUS
<1> HIDE DEF m
<1>4. /\ SubSeq(s, m, y) \in Seq(S)
      /\ Len(SubSeq(s, m, y)) = IF m <= y THEN y - m + 1 ELSE 0
      /\ \A j \in 1..y - m + 1 : SubSeq(s, m, y)[j] = s[m + j - 1]
  BY <1>1, <1>3, SubSeqProperties
<1> QED
  BY <1>1, <1>2, <1>4 DEF m

\* Where two sequences agree, so do their pieces.
LEMMA SamePiece ==
    ASSUME NEW S, NEW s, NEW t, NEW x \in Nat, NEW y \in Nat, x < y,
           \A j \in x + 1..y : s[j] \in S /\ t[j] \in S /\ s[j] = t[j]
    PROVE  SubSeq(s, x + 1, y) = SubSeq(t, x + 1, y)
<1> DEFINE u == SubSeq(s, x + 1, y)
           v == SubSeq(t, x + 1, y)
<1>1. \A j \in x + 1..y : s[j] \in S
  OBVIOUS
<1>2. \A j \in x + 1..y : t[j] \in S
  OBVIOUS
<1>3. u \in Seq(S) /\ Len(u) = y - x /\ \A j \in 1..y - x : u[j] = s[x + j]
  BY <1>1, PieceHas
<1>4. v \in Seq(S) /\ Len(v) = y - x /\ \A j \in 1..y - x : v[j] = t[x + j]
  BY <1>2, PieceHas
<1>5. \A j \in 1..y - x : s[x + j] = t[x + j]
  <2> SUFFICES ASSUME NEW j \in 1..y - x PROVE s[x + j] = t[x + j]
    OBVIOUS
  <2>1. x + j \in x + 1..y
    OBVIOUS
  <2> QED
    BY <2>1
<1> HIDE DEF u, v
<1>6. u = v
  BY <1>3, <1>4, <1>5, SeqEqual
<1> QED
  BY <1>6 DEF u, v

\* The batches of a file and its sidecar make its whole.
LEMMA ImportsFeed ==
    ASSUME NEW k \in DOMAIN Disk
    PROVE  Feeds(ImportsOf(k), Whole(k), 0)
<1> DEFINE lines == Disk[k].lines
           meta == Disk[k].meta
           w == Whole(k)
           b == Batches(lines)
<1>1. IsWhole(w, lines, meta)
  BY WholeIs
<1>2. ImportsOf(k) = b \o IF meta = NoMeta THEN <<>> ELSE <<<<Sidecar(meta)>>>>
  BY DEF ImportsOf
<1>3. PICK S : w \in Seq(S) /\ lines \in Seq(S)
  BY <1>1, OverOne DEF IsWhole
<1>4. b \in Seq(Seq(S))
  BY <1>3, BatchesAreParts
<1>a. PICK n \in Nat : \E cut \in [0..n -> 0..Len(lines)] :
        /\ Len(b) = n /\ cut[0] = 0 /\ cut[n] = Len(lines)
        /\ \A i \in 1..n : /\ cut[i - 1] < cut[i]
                           /\ b[i] = SubSeq(lines, cut[i - 1] + 1, cut[i])
  BY <1>3, BatchesCut
<1>5. PICK cut \in [0..n -> 0..Len(lines)] :
        /\ Len(b) = n /\ cut[0] = 0 /\ cut[n] = Len(lines)
        /\ \A i \in 1..n : /\ cut[i - 1] < cut[i]
                           /\ b[i] = SubSeq(lines, cut[i - 1] + 1, cut[i])
  BY <1>a
<1> HIDE DEF lines, meta, w, b
<1>6. Len(lines) \in Nat /\ Len(w) \in Nat
  BY <1>1 DEF IsWhole
<1>7. CASE meta = NoMeta
  <2>1. w = lines /\ b \o <<>> = b
    BY <1>1, <1>4, <1>7, ConcatEmptySeq DEF IsWhole
  <2>2. Feeds(b, w, 0)
    BY <1>5, <2>1 DEF Feeds
  <2> QED
    BY <1>2, <1>7, <2>1, <2>2 DEF w
<1>8. CASE meta # NoMeta
  <2> DEFINE side == Sidecar(meta)
             left == b \o <<<<side>>>>
             after == [i \in 0..n + 1 |-> IF i <= n THEN cut[i] ELSE Len(w)]
  <2>1. Len(w) = Len(lines) + 1 /\ w[Len(lines) + 1] = side
    BY <1>1, <1>8 DEF IsWhole
  <2>2. \A i \in 1..Len(lines) : w[i] = lines[i]
    BY <1>1 DEF IsWhole
  <2>3. <<<<side>>>> \in Seq(Seq(S))
    <3>1. side \in S
      <4>1. Len(lines) + 1 \in 1..Len(w)
        BY <1>6, <2>1
      <4> QED
        BY <1>3, <2>1, <4>1, ElementOfSeq
    <3> HIDE DEF side
    <3> QED
      BY <3>1
  <2> HIDE DEF side
  <2>4. Len(left) = n + 1 /\ \A i \in 1..n + 1 : left[i] = IF i <= n THEN b[i] ELSE <<side>>
    <3>1. Len(<<<<side>>>>) = 1 /\ <<<<side>>>>[1] = <<side>>
      OBVIOUS
    <3>2. /\ Len(b \o <<<<side>>>>) = n + 1
          /\ \A i \in 1..n + 1 : (b \o <<<<side>>>>)[i] = IF i <= n THEN b[i] ELSE <<<<side>>>>[i - n]
      BY <1>4, <1>5, <2>3, <3>1, ConcatProperties
    <3>3. \A i \in 1..n + 1 : ~(i <= n) => i - n = 1
      BY <1>5
    <3> QED
      BY <3>1, <3>2, <3>3
  <2> HIDE DEF left
  <2>5. after \in [0..n + 1 -> 0..Len(w)]
    <3>1. ASSUME NEW i \in 0..n + 1 PROVE (IF i <= n THEN cut[i] ELSE Len(w)) \in 0..Len(w)
      <4>1. i <= n => cut[i] \in 0..Len(lines)
        BY <1>5
      <4> QED
        BY <1>6, <2>1, <4>1
    <3> QED
      BY <3>1
  <2>6. after[0] = 0 /\ after[n + 1] = Len(w)
    BY <1>5
  <2>7. ASSUME NEW i \in 1..n + 1
        PROVE  after[i - 1] < after[i] /\ left[i] = SubSeq(w, after[i - 1] + 1, after[i])
    <3>1. i \in Nat /\ i \in 0..n + 1 /\ i - 1 \in 0..n /\ i - 1 \in 0..n + 1 /\ i - 1 <= n
      BY <1>5
    <3>2. after[i - 1] = cut[i - 1] /\ cut[i - 1] \in 0..Len(lines)
      BY <1>5, <3>1
    <3>3. CASE i <= n
      <4>1. i \in 1..n /\ i \in 0..n
        BY <3>1, <3>3, <1>5
      <4>2. after[i] = cut[i] /\ cut[i] \in 0..Len(lines) /\ cut[i - 1] < cut[i] /\ left[i] = b[i]
        BY <1>5, <2>4, <3>1, <3>3, <4>1
      <4>3. b[i] = SubSeq(lines, cut[i - 1] + 1, cut[i])
        BY <1>5, <4>1
      <4>4. SubSeq(lines, cut[i - 1] + 1, cut[i]) = SubSeq(w, cut[i - 1] + 1, cut[i])
        <5> DEFINE x == cut[i - 1]
                   y == cut[i]
        <5>1. x \in Nat /\ y \in Nat /\ x < y /\ y <= Len(lines)
          BY <1>6, <3>2, <4>2
        <5> HIDE DEF x, y
        <5>2. \A j \in x + 1..y : j \in 1..Len(lines) /\ j \in 1..Len(w)
          BY <1>6, <2>1, <5>1
        <5>3. \A j \in x + 1..y : lines[j] \in S /\ w[j] \in S /\ lines[j] = w[j]
          BY <1>3, <2>2, <5>2, ElementOfSeq
        <5>4. SubSeq(lines, x + 1, y) = SubSeq(w, x + 1, y)
          BY <5>1, <5>3, SamePiece
        <5> QED
          BY <5>4 DEF x, y
      <4> QED
        BY <3>2, <4>2, <4>3, <4>4
    <3>4. CASE ~(i <= n)
      <4>1. i = n + 1 /\ i - 1 = n
        BY <3>1, <3>4, <1>5
      <4>2. after[i] = Len(w) /\ after[i - 1] = Len(lines) /\ left[i] = <<side>>
        BY <1>5, <2>4, <3>2, <3>4, <4>1, <2>6
      <4>3. SubSeq(w, Len(w), Len(w)) = <<w[Len(w)]>>
        <5>1. Len(w) \in 1..Len(w) /\ Len(w) \in Len(w)..Len(w)
          BY <1>6, <2>1
        <5>2. SubSeq(w, Len(w), Len(w)) = <<w[Len(w)]>> \o SubSeq(w, Len(w) + 1, Len(w))
          BY <1>3, <5>1, SubSeqRecursiveFirst
        <5>3. SubSeq(w, Len(w) + 1, Len(w)) = <<>>
          BY <1>6, SubSeqEmpty
        <5>4. <<w[Len(w)]>> \in Seq({w[Len(w)]})
          OBVIOUS
        <5> QED
          BY <5>2, <5>3, <5>4, ConcatEmptySeq
      <4>4. SubSeq(w, Len(lines) + 1, Len(w)) = <<side>>
        BY <2>1, <4>3
      <4> QED
        BY <1>6, <2>1, <4>2, <4>4
    <3> QED
      BY <3>3, <3>4
  <2> HIDE DEF after
  <2>8. Feeds(left, w, 0)
    BY <2>4, <2>5, <2>6, <2>7 DEF Feeds
  <2> QED
    BY <1>2, <1>8, <2>8 DEF left, side, w
<1> QED
  BY <1>7, <1>8

LEMMA ImportsSome ==
    ASSUME NEW k \in DOMAIN Disk
    PROVE  ImportsOf(k) # <<>> <=> Whole(k) # <<>>
<1> DEFINE left == ImportsOf(k)
           w == Whole(k)
<1>1. IsSequence(w) /\ Len(w) \in Nat
  BY WholeIs DEF IsWhole
<1>2. PICK S : left \in Seq(Seq(S))
  BY ImportsAreParts
<1>3. Feeds(left, w, 0)
  BY ImportsFeed
<1> HIDE DEF left, w
<1>4. /\ left = <<>> => 0 = Len(w)
      /\ left # <<>> => \E m \in 0..Len(w) : 0 < m
  BY <1>1, <1>2, <1>3, FeedsOn
<1>5. w = <<>> <=> Len(w) = 0
  BY <1>1, EmptySeq DEF IsSequence
<1>6. left # <<>> <=> w # <<>>
  BY <1>1, <1>4, <1>5
<1> QED
  BY <1>6 DEF left, w

-----------------------------------------------------------------------------
(* What is stored of a file *)

\* No metadata among the entries of a file that has no sidecar.
Clean(k, es) == Disk[k].meta = NoMeta => \A i \in DOMAIN es : ~IsMetadata(es[i])

\* What earlier tries stored, and the first n entries of the whole.
Ends(k, es, n, tries) ==
    \E before : /\ IsSequence(before) /\ Clean(k, before)
                /\ es = before \o SubSeq(Whole(k), 1, n)
                /\ tries <= 1 => before = <<>>

\* A first part of a sequence.
LEMMA FirstPart ==
    ASSUME NEW S, NEW w \in Seq(S), NEW n \in 0..Len(w)
    PROVE  /\ SubSeq(w, 1, n) \in Seq(S) /\ Len(SubSeq(w, 1, n)) = n
           /\ \A i \in 1..n : SubSeq(w, 1, n)[i] = w[i]
<1>1. n \in Int /\ n \in Nat /\ 1 \in Int /\ Len(w) \in Nat
  OBVIOUS
<1>2. \A i \in 1..n : w[i] \in S
  BY <1>1, ElementOfSeq
<1> QED
  BY <1>1, <1>2, SubSeqProperties

LEMMA EndsNothing == ASSUME NEW k \in DOMAIN Disk, NEW tries PROVE Ends(k, <<>>, 0, tries)
<1>1. SubSeq(Whole(k), 1, 0) = <<>>
  BY SubSeqEmpty
<1>2. <<>> \o <<>> = <<>>
  BY EmptySeq, ConcatEmptySeq
<1>3. IsSequence(<<>>) /\ Clean(k, <<>>)
  BY NothingAndOne DEF Clean
<1> QED
  BY <1>1, <1>2, <1>3 DEF Ends

LEMMA EndsGrow ==
    ASSUME NEW k \in DOMAIN Disk, NEW n \in 0..Len(Whole(k)), NEW m \in n..Len(Whole(k)),
           NEW es, NEW tries, Ends(k, es, n, tries)
    PROVE  Ends(k, es \o SubSeq(Whole(k), n + 1, m), m, tries)
<1> DEFINE w == Whole(k)
           more == SubSeq(w, n + 1, m)
           part == SubSeq(w, 1, n)
<1>1. PICK before : /\ IsSequence(before) /\ Clean(k, before) /\ es = before \o part
                    /\ tries <= 1 => before = <<>>
  BY DEF Ends
<1>2. IsSequence(w) /\ Len(w) \in Nat
  BY WholeIs DEF IsWhole
<1>0. n \in 0..Len(w) /\ m \in n..Len(w)
  OBVIOUS
<1> HIDE DEF w
<1>3. PICK S : before \in Seq(S) /\ w \in Seq(S)
  BY <1>1, <1>2, OverOne
<1>4. part \in Seq(S)
  BY <1>0, <1>3, FirstPart
<1>5. more \in Seq(S)
  <2>1. \A i \in n + 1..m : w[i] \in S
    <3>1. \A i \in n + 1..m : i \in 1..Len(w)
      BY <1>0, <1>2
    <3> QED
      BY <1>3, <3>1, ElementOfSeq
  <2>2. n + 1 \in Int /\ m \in Int
    BY <1>0, <1>2
  <2> QED
    BY <2>1, <2>2, SubSeqProperties
<1>6. part \o more = SubSeq(w, 1, m)
  <2>1. 1 \in 1..Len(w) + 1 /\ n \in 1 - 1..Len(w) /\ m \in n..Len(w)
    BY <1>0, <1>2
  <2> QED
    BY <1>3, <2>1, ConcatAdjacentSubSeq
<1> HIDE DEF part, more
<1>7. (before \o part) \o more = before \o (part \o more)
  BY <1>3, <1>4, <1>5, ConcatAssociative
<1>8. es \o more = before \o SubSeq(w, 1, m)
  BY <1>1, <1>6, <1>7
<1> QED
  BY <1>1, <1>8 DEF Ends, w, more

\* A try begins behind what the one before it stored.
LEMMA EndsAgain ==
    ASSUME NEW k \in DOMAIN Disk, NEW n \in 0..Len(Whole(k)), NEW es, NEW tries \in Nat,
           Ends(k, es, n, tries), tries # 0
    PROVE  Ends(k, es, 0, tries + 1)
<1> DEFINE w == Whole(k)
           part == SubSeq(w, 1, n)
           lines == Disk[k].lines
           meta == Disk[k].meta
<1>1. PICK before : IsSequence(before) /\ Clean(k, before) /\ es = before \o part
  BY DEF Ends
<1>2. IsWhole(w, lines, meta)
  BY WholeIs
<1>0. n \in 0..Len(w)
  OBVIOUS
<1>a. meta = NoMeta => \A i \in DOMAIN before : ~IsMetadata(before[i])
  BY <1>1 DEF Clean
<1> HIDE DEF w, lines, meta
<1>3. PICK S : before \in Seq(S) /\ w \in Seq(S)
  BY <1>1, <1>2, OverOne DEF IsWhole
<1>4. part \in Seq(S) /\ Len(part) = n /\ \A i \in 1..n : part[i] = w[i]
  BY <1>0, <1>3, FirstPart
<1> HIDE DEF part
<1>5. /\ es \in Seq(S) /\ Len(es) = Len(before) + n /\ Len(before) \in Nat /\ n \in Nat
      /\ \A i \in 1..Len(before) + n : es[i] = IF i <= Len(before) THEN before[i]
                                               ELSE part[i - Len(before)]
  <2>1. Len(before) \in Nat
    BY <1>3
  <2>2. n \in Nat
    BY <1>0, <1>2 DEF IsWhole
  <2>3. /\ before \o part \in Seq(S) /\ Len(before \o part) = Len(before) + Len(part)
        /\ \A i \in 1..Len(before) + Len(part) :
             (before \o part)[i] = IF i <= Len(before) THEN before[i] ELSE part[i - Len(before)]
    BY <1>3, <1>4, ConcatProperties
  <2> QED
    BY <1>1, <1>4, <2>1, <2>2, <2>3
<1>6. meta = NoMeta => \A i \in DOMAIN es : ~IsMetadata(es[i])
  <2> SUFFICES ASSUME meta = NoMeta, NEW i \in 1..Len(before) + n PROVE ~IsMetadata(es[i])
    BY <1>5
  <2>1. CASE i <= Len(before)
    <3>1. i \in DOMAIN before /\ es[i] = before[i]
      BY <1>3, <1>5, <2>1
    <3> QED
      BY <1>a, <3>1
  <2>2. CASE ~(i <= Len(before))
    <3>1. i - Len(before) \in 1..n
      BY <1>5, <2>2
    <3>2. es[i] = w[i - Len(before)]
      BY <1>4, <1>5, <2>2, <3>1
    <3>3. i - Len(before) \in 1..Len(lines)
      BY <1>0, <1>2, <3>1 DEF IsWhole
    <3> QED
      BY <1>2, <3>2, <3>3 DEF IsWhole
  <2> QED
    BY <2>1, <2>2
<1>7. Clean(k, es) /\ IsSequence(es)
  BY <1>5, <1>6, InSeq DEF Clean, meta
<1>8. SubSeq(w, 1, 0) = <<>> /\ es \o <<>> = es
  BY <1>5, SubSeqEmpty, ConcatEmptySeq
<1>9. ~(tries + 1 <= 1)
  OBVIOUS
<1> QED
  BY <1>7, <1>8, <1>9 DEF Ends, w

-----------------------------------------------------------------------------
(* What split_agent_metadata makes of it *)

\* The transcript after each entry.
IsKept(f, es, n) ==
    f = [i \in 0..n |-> IF i = 0 THEN <<>>
                        ELSE IF IsMetadata(es[i]) THEN f[i - 1] ELSE Append(f[i - 1], es[i])]

LEMMA KeptExists == ASSUME NEW es, NEW n \in Nat PROVE \E f : IsKept(f, es, n)
<1> DEFINE T == {m \in Nat : ~\E f : IsKept(f, es, m)}
           More(s, e) == IF IsMetadata(e) THEN s ELSE Append(s, e)
<1>1. ASSUME T # {} PROVE FALSE
  <2>1. PICK m \in T : \A q \in T : m <= q
    BY <1>1, Least
  <2>2. CASE m = 0
    <3> DEFINE f == [i \in 0..0 |-> <<>>]
    <3>1. f = [i \in 0..0 |-> IF i = 0 THEN <<>> ELSE More(f[i - 1], es[i])]
      OBVIOUS
    <3>2. IsKept(f, es, m)
      BY <2>2, <3>1 DEF IsKept
    <3> QED
      BY <3>2
  <2>3. CASE m # 0
    <3>1. m \in Nat /\ m - 1 \in Nat /\ m - 1 \notin T
      BY <2>1, <2>3
    <3>2. PICK g : IsKept(g, es, m - 1)
      BY <3>1
    <3> DEFINE f == [i \in 0..m |-> IF i = m THEN More(g[m - 1], es[m]) ELSE g[i]]
    <3>3. ASSUME NEW i \in 0..m
          PROVE  f[i] = IF i = 0 THEN <<>> ELSE More(f[i - 1], es[i])
      <4>1. CASE i = m
        <5>1. f[i - 1] = g[m - 1] /\ f[i] = More(g[m - 1], es[m])
          BY <3>1, <4>1, <2>3
        <5> QED
          BY <5>1, <4>1, <2>3
      <4>2. CASE i # m
        <5>1. i \in 0..m - 1 /\ f[i] = g[i]
          BY <4>2, <3>1
        <5>2. g[i] = IF i = 0 THEN <<>> ELSE More(g[i - 1], es[i])
          BY <5>1, <3>2 DEF IsKept
        <5>3. i # 0 => f[i - 1] = g[i - 1]
          BY <5>1, <3>1
        <5> QED
          BY <5>1, <5>2, <5>3
      <4> QED
        BY <4>1, <4>2
    <3>4. f = [i \in 0..m |-> f[i]]
      OBVIOUS
    <3> HIDE DEF f
    <3>5. IsKept(f, es, m)
      BY <3>3, <3>4 DEF IsKept
    <3> QED
      BY <3>5
  <2> QED
    BY <2>2, <2>3
<1> QED
  BY <1>1

LEMMA TranscriptIs ==
    ASSUME NEW es, Len(es) \in Nat
    PROVE  \E f : IsKept(f, es, Len(es)) /\ Transcript(es) = f[Len(es)]
<1> DEFINE f == CHOOSE g : IsKept(g, es, Len(es))
<1>1. IsKept(f, es, Len(es))
  BY KeptExists
<1>2. Transcript(es) = f[Len(es)]
  BY Zenon DEF Transcript, IsKept
<1> QED
  BY <1>1, <1>2

\* A sequence one longer.
LEMMA PartAndOne ==
    ASSUME NEW S, NEW b \in Seq(S), NEW w \in Seq(S), NEW i \in 1..Len(w)
    PROVE  Append(b \o SubSeq(w, 1, i - 1), w[i]) = b \o SubSeq(w, 1, i)
<1> DEFINE part == SubSeq(w, 1, i - 1)
<1>0. i \in Nat /\ Len(w) \in Nat /\ i - 1 \in 0..Len(w) /\ w[i] \in S
  BY ElementOfSeq
<1>1. part \in Seq(S)
  BY <1>0, FirstPart
<1>2. SubSeq(w, 1, i) = part \o <<w[i]>>
  <2>1. 1 \in 1..Len(w) /\ i \in 1..Len(w)
    BY <1>0
  <2> QED
    BY <2>1, SubSeqRecursiveSecond
<1> HIDE DEF part
<1>3. b \o part \in Seq(S) /\ <<w[i]>> \in Seq(S)
  BY <1>0, <1>1, ConcatProperties
<1>4. Append(b \o part, w[i]) = (b \o part) \o <<w[i]>>
  BY <1>0, <1>3, AppendIsConcat
<1> DEFINE one == <<w[i]>>
<1> HIDE DEF one
<1>5. (b \o part) \o one = b \o (part \o one)
  <2>1. one \in Seq(S)
    BY <1>3 DEF one
  <2> QED
    BY ONLY b \in Seq(S), <1>1, <2>1, ConcatAssociative
<1> QED
  BY <1>2, <1>4, <1>5 DEF part, one

\* Lines behind others, or behind nothing.
Follow(lines, got, before) ==
    \E b : IsSequence(b) /\ got = b \o lines /\ (before = <<>> => b = <<>>)

\* The transcript ends with the lines of the file.
LEMMA TranscriptEnds ==
    ASSUME NEW S, NEW before \in Seq(S), NEW w \in Seq(S), NEW lines \in Seq(S), NEW meta,
           IsWhole(w, lines, meta)
    PROVE  Follow(lines, Transcript(before \o w), before)
<1> DEFINE es == before \o w
           p == Len(before)
           l == Len(lines)
           n == Len(es)
<1>1. /\ es \in Seq(S) /\ n = p + Len(w) /\ p \in Nat /\ l \in Nat /\ n \in Nat /\ Len(w) \in Nat
      /\ \A i \in 1..p + Len(w) : es[i] = IF i <= p THEN before[i] ELSE w[i - p]
  BY ConcatProperties
<1>2. PICK f : IsKept(f, es, n) /\ Transcript(es) = f[n]
  BY <1>1, TranscriptIs
<1> HIDE DEF es, p, l, n
<1>3. /\ f[0] = <<>>
      /\ \A i \in 1..n : f[i] = IF IsMetadata(es[i]) THEN f[i - 1] ELSE Append(f[i - 1], es[i])
  <2>1. 0 \in 0..n /\ \A i \in 1..n : i \in 0..n /\ i # 0
    BY <1>1
  <2> QED
    BY <1>2, <2>1 DEF IsKept
<1>4. \A i \in 0..n : f[i] \in Seq(S)
  <2> DEFINE T == {i \in Nat : i <= n /\ f[i] \notin Seq(S)}
  <2>1. ASSUME T # {} PROVE FALSE
    <3>1. PICK i \in T : \A j \in T : i <= j
      BY <2>1, Least
    <3>2. CASE i = 0
      <4>1. <<>> \in Seq(S)
        BY EmptySeq
      <4> QED
        BY <1>3, <3>2, <4>1
    <3>3. CASE i # 0
      <4>1. i \in 1..n /\ i - 1 \in Nat /\ i - 1 \notin T
        BY <1>1, <3>1, <3>3
      <4>2. f[i - 1] \in Seq(S) /\ es[i] \in S
        <5>1. f[i - 1] \in Seq(S)
          BY <1>1, <4>1
        <5> QED
          BY <1>1, <4>1, <5>1, ElementOfSeq DEF n
      <4>3. Append(f[i - 1], es[i]) \in Seq(S)
        BY <4>2, AppendProperties
      <4> QED
        BY <1>3, <4>1, <4>2, <4>3
    <3> QED
      BY <3>2, <3>3
  <2> QED
    BY <1>1, <2>1
<1> DEFINE b == f[p]
<1>5. b \in Seq(S)
  <2>1. p \in 0..n
    BY <1>1
  <2> QED
    BY <1>4, <2>1
<1>6. before = <<>> => b = <<>>
  BY <1>3 DEF p
<1>7. l <= Len(w) /\ \A i \in 1..l : w[i] = lines[i] /\ ~IsMetadata(lines[i])
  BY <1>1 DEF IsWhole, l
<1> HIDE DEF b
<1>8. f[p + l] = b \o lines
  <2> DEFINE Ended(i) == f[p + i] = b \o SubSeq(lines, 1, i)
             T == {i \in Nat : i <= l /\ ~Ended(i)}
  <2>1. Ended(0)
    <3>1. SubSeq(lines, 1, 0) = <<>> /\ b \o <<>> = b
      BY <1>5, SubSeqEmpty, ConcatEmptySeq
    <3>2. p + 0 = p
      BY <1>1
    <3> QED
      BY <3>1, <3>2 DEF b
  <2>2. ASSUME NEW i \in 1..l, Ended(i - 1) PROVE Ended(i)
    <3>1. p + i \in 1..n /\ (p + i) - 1 = p + (i - 1) /\ ~(p + i <= p) /\ (p + i) - p = i
      BY <1>1, <1>7
    <3>2. es[p + i] = lines[i] /\ ~IsMetadata(lines[i])
      <4>1. es[p + i] = w[i]
        BY <1>1, <3>1
      <4> QED
        BY <1>7, <4>1
    <3>3. f[p + i] = Append(f[p + (i - 1)], lines[i])
      BY <1>3, <3>1, <3>2
    <3>4. Append(b \o SubSeq(lines, 1, i - 1), lines[i]) = b \o SubSeq(lines, 1, i)
      BY <1>5, PartAndOne DEF l
    <3> QED
      BY <2>2, <3>3, <3>4
  <2> HIDE DEF Ended
  <2>3. ASSUME T # {} PROVE FALSE
    <3>1. PICK i \in T : \A j \in T : i <= j
      BY <2>3, Least
    <3>2. i # 0
      BY <2>1, <3>1
    <3>3. i \in 1..l /\ i - 1 \in Nat /\ i - 1 <= l /\ i - 1 \notin T
      BY <1>1, <3>1, <3>2
    <3> QED
      BY <2>2, <3>1, <3>3
  <2>4. Ended(l)
    BY <1>1, <2>3
  <2>5. SubSeq(lines, 1, l) = lines
    BY SubSeqFull DEF l
  <2> QED
    BY <2>4, <2>5 DEF Ended
<1>9. f[n] = f[p + l]
  <2>1. CASE meta = NoMeta
    <3>1. Len(w) = l
      BY <2>1 DEF IsWhole, l
    <3> QED
      BY <1>1, <3>1
  <2>2. CASE meta # NoMeta
    <3>1. Len(w) = l + 1 /\ w[l + 1] = Sidecar(meta)
      BY <2>2 DEF IsWhole, l
    <3>2. n = p + l + 1 /\ n \in 1..n /\ n - 1 = p + l /\ n - p = l + 1 /\ ~(n <= p)
      BY <1>1, <3>1
    <3>3. es[n] = Sidecar(meta)
      BY <1>1, <3>1, <3>2
    <3>4. IsMetadata(es[n])
      BY <3>3, SidecarIs
    <3> QED
      BY <1>3, <3>2, <3>4
  <2> QED
    BY <2>1, <2>2
<1>10. Transcript(before \o w) = b \o lines
  BY <1>2, <1>8, <1>9 DEF es
<1> QED
  BY <1>5, <1>6, <1>10, InSeq DEF Follow

\* The metadata is the sidecar of the file, if it has one.
LEMMA MetadataOf ==
    ASSUME NEW S, NEW before \in Seq(S), NEW w \in Seq(S), NEW lines, NEW meta,
           IsWhole(w, lines, meta),
           meta = NoMeta => \A i \in DOMAIN before : ~IsMetadata(before[i])
    PROVE  Metadata(before \o w) = IF meta = NoMeta THEN NoMeta ELSE Sidecar(meta)
<1> DEFINE es == before \o w
           p == Len(before)
           n == Len(es)
           metas == {i \in DOMAIN es : IsMetadata(es[i])}
<1>1. /\ es \in Seq(S) /\ n = p + Len(w) /\ p \in Nat /\ n \in Nat /\ Len(w) \in Nat
      /\ \A i \in 1..p + Len(w) : es[i] = IF i <= p THEN before[i] ELSE w[i - p]
  BY ConcatProperties
<1>2. DOMAIN es = 1..n /\ DOMAIN before = 1..p
  BY <1>1
<1> HIDE DEF es, p, n
<1>3. CASE meta = NoMeta
  <2>1. ASSUME NEW i \in 1..n PROVE ~IsMetadata(es[i])
    <3>1. CASE i <= p
      BY <1>1, <1>2, <1>3, <3>1
    <3>2. CASE ~(i <= p)
      <4>1. i - p \in 1..Len(w) /\ es[i] = w[i - p]
        BY <1>1, <3>2
      <4>2. i - p \in 1..Len(lines)
        BY <1>3, <4>1 DEF IsWhole
      <4> QED
        BY <4>1, <4>2 DEF IsWhole
    <3> QED
      BY <3>1, <3>2
  <2>2. metas = {}
    BY <1>2, <2>1
  <2> QED
    BY <1>3, <2>2 DEF Metadata, es
<1>4. CASE meta # NoMeta
  <2>1. Len(w) = Len(lines) + 1 /\ w[Len(lines) + 1] = Sidecar(meta) /\ Len(lines) \in Nat
    BY <1>4 DEF IsWhole
  <2>2. n \in 1..n /\ n - p = Len(w) /\ ~(n <= p)
    BY <1>1, <2>1
  <2>3. es[n] = Sidecar(meta)
    BY <1>1, <2>1, <2>2
  <2>4. n \in metas /\ \A i \in metas : i <= n /\ i \in Nat
    BY <1>1, <1>2, <2>2, <2>3, SidecarIs
  <2>5. Max(metas) = n
    <3>1. \A x \in metas : (\A y \in metas : x >= y) => x = n
      BY <1>1, <2>4
    <3>2. \E x \in metas : \A y \in metas : x >= y
      BY <1>1, <2>4
    <3> HIDE DEF metas
    <3> QED
      BY <3>1, <3>2 DEF Max
  <2>6. metas # {}
    BY <2>4
  <2>7. Metadata(es) = IF metas = {} THEN NoMeta ELSE es[Max(metas)]
    BY DEF Metadata
  <2> HIDE DEF metas
  <2> QED
    BY <1>4, <2>3, <2>5, <2>6, <2>7 DEF es
<1> QED
  BY <1>3, <1>4

\* A sequence ends with its second part.
LEMMA EndsWith ==
    ASSUME NEW S, NEW a \in Seq(S), NEW b \in Seq(S)
    PROVE  IsSuffix(b, a \o b)
<1> DEFINE c == a \o b
           m == Len(b)
           u == SubSeq(Reverse(b), 1, m)
           v == SubSeq(Reverse(c), 1, m)
<1>1. /\ c \in Seq(S) /\ Len(c) = Len(a) + m /\ Len(a) \in Nat /\ m \in Nat /\ Len(c) \in Nat
      /\ \A i \in 1..Len(a) + m : c[i] = IF i <= Len(a) THEN a[i] ELSE b[i - Len(a)]
  BY ConcatProperties
<1> HIDE DEF c
<1>2. ASSUME NEW s \in Seq(S)
      PROVE  Reverse(s) \in Seq(S) /\ Len(Reverse(s)) = Len(s)
             /\ \A i \in 1..Len(s) : Reverse(s)[i] = s[Len(s) - i + 1]
  <2>1. Len(s) \in Nat
    OBVIOUS
  <2>2. \A i \in 1..Len(s) : Len(s) - i + 1 \in 1..Len(s)
    BY <2>1
  <2>3. Reverse(s) \in [1..Len(s) -> S]
    BY <2>2, ElementOfSeq DEF Reverse
  <2>4. Reverse(s) \in Seq(S)
    BY <2>1, <2>3, OnInterval
  <2> QED
    BY <2>1, <2>3, <2>4 DEF Reverse
<1> DEFINE rb == Reverse(b)
           rc == Reverse(c)
<1>3. /\ rb \in Seq(S) /\ Len(rb) = m /\ \A i \in 1..m : rb[i] = b[m - i + 1]
      /\ rc \in Seq(S) /\ Len(rc) = Len(c) /\ \A i \in 1..Len(c) : rc[i] = c[Len(c) - i + 1]
  BY <1>1, <1>2
<1> HIDE DEF rb, rc, m
<1>4. /\ SubSeq(rb, 1, m) \in Seq(S) /\ Len(SubSeq(rb, 1, m)) = m
      /\ \A i \in 1..m : SubSeq(rb, 1, m)[i] = rb[i]
  <2>1. m \in 0..Len(rb)
    BY <1>1, <1>3
  <2> QED
    BY <1>3, <2>1, FirstPart
<1>5. /\ SubSeq(rc, 1, m) \in Seq(S) /\ Len(SubSeq(rc, 1, m)) = m
      /\ \A i \in 1..m : SubSeq(rc, 1, m)[i] = rc[i]
  <2>1. m \in 0..Len(rc)
    BY <1>1, <1>3
  <2> QED
    BY <1>3, <2>1, FirstPart
<1>6. ASSUME NEW i \in 1..m PROVE rb[i] = rc[i]
  <2>1. i \in 1..Len(c) /\ Len(c) - i + 1 \in 1..Len(a) + m /\ ~(Len(c) - i + 1 <= Len(a))
        /\ (Len(c) - i + 1) - Len(a) = m - i + 1
    BY <1>1
  <2>2. rc[i] = c[Len(c) - i + 1] /\ rb[i] = b[m - i + 1]
    BY <1>3, <2>1
  <2> QED
    BY <1>1, <2>1, <2>2
<1> DEFINE x == SubSeq(rb, 1, m)
           y == SubSeq(rc, 1, m)
<1>7. x \in Seq(S) /\ y \in Seq(S) /\ Len(x) = Len(y) /\ \A i \in 1..Len(x) : x[i] = y[i]
  BY <1>4, <1>5, <1>6
<1> HIDE DEF x, y
<1>8. x = y
  BY <1>7, SeqEqual
<1>9. m <= Len(c)
  BY <1>1
<1> QED
  BY <1>3, <1>8, <1>9 DEF IsSuffix, IsPrefix, x, y, rb, rc, c

\* What is read back is what was on disk, behind what tries before had stored.
Same(lines, got, tries) == IF tries = 1 THEN got = lines ELSE IsSuffix(lines, got)

LEMMA EndsShows ==
    ASSUME NEW k \in DOMAIN Disk, NEW es, NEW tries, Ends(k, es, Len(Whole(k)), tries)
    PROVE  /\ Whole(k) # <<>> => es # <<>>
           /\ Disk[k].meta = NoMeta => Same(Disk[k].lines, es, tries)
           /\ Same(Disk[k].lines, Materialized(es).lines, tries)
           /\ Materialized(es).meta = IF Disk[k].meta = NoMeta THEN NoMeta
                                      ELSE Without(Disk[k].meta, "type")
<1> DEFINE w == Whole(k)
           lines == Disk[k].lines
           meta == Disk[k].meta
<1>1. PICK before : /\ IsSequence(before) /\ Clean(k, before)
                    /\ es = before \o SubSeq(w, 1, Len(w))
                    /\ tries <= 1 => before = <<>>
  BY DEF Ends
<1>2. IsWhole(w, lines, meta)
  BY WholeIs
<1>a. meta = NoMeta => \A i \in DOMAIN before : ~IsMetadata(before[i])
  BY <1>1 DEF Clean
<1> HIDE DEF w, lines, meta
<1> DEFINE S == {w[i] : i \in DOMAIN w} \cup {lines[i] : i \in DOMAIN lines}
                  \cup {before[i] : i \in DOMAIN before}
<1>3. before \in Seq(S) /\ w \in Seq(S) /\ lines \in Seq(S)
  BY <1>1, <1>2, SeqMonotonic DEF IsSequence, IsWhole
<1> HIDE DEF S
<1>4. es = before \o w
  BY <1>1, <1>3, SubSeqFull
<1>5. w # <<>> => es # <<>>
  BY <1>3, <1>4, ConcatEqualIffEmpty
<1>6. ASSUME NEW b, IsSequence(b), tries = 1 => b = <<>> PROVE Same(lines, b \o lines, tries)
  <2>1. PICK R : b \in Seq(R) /\ lines \in Seq(R)
    BY <1>2, <1>6, OverOne DEF IsWhole
  <2> QED
    BY <1>6, <2>1, EndsWith, ConcatEmptySeq DEF Same
<1>7. tries = 1 => before = <<>>
  BY <1>1
<1>8. meta = NoMeta => Same(lines, es, tries)
  BY <1>1, <1>2, <1>4, <1>6, <1>7 DEF IsWhole
<1>9. Same(lines, Transcript(es), tries)
  <2>0. Follow(lines, Transcript(before \o w), before)
    BY <1>2, <1>3, TranscriptEnds
  <2>1. PICK b : /\ IsSequence(b) /\ Transcript(before \o w) = b \o lines
                 /\ before = <<>> => b = <<>>
    BY <2>0 DEF Follow
  <2>2. tries = 1 => b = <<>>
    BY <1>7, <2>1
  <2>3. Same(lines, b \o lines, tries)
    BY <1>6, <2>1, <2>2
  <2> QED
    BY <1>4, <2>1, <2>3
<1>10. Metadata(es) = IF meta = NoMeta THEN NoMeta ELSE Sidecar(meta)
  BY <1>2, <1>3, <1>4, <1>a, MetadataOf
<1>11. /\ Materialized(es).lines = Transcript(es)
       /\ Materialized(es).meta = IF Metadata(es) = NoMeta THEN NoMeta
                                  ELSE Without(Metadata(es), "type")
  BY DEF Materialized
<1>12. Materialized(es).meta = IF meta = NoMeta THEN NoMeta ELSE Without(meta, "type")
  BY <1>10, <1>11, SidecarIs
<1> QED
  BY <1>5, <1>8, <1>9, <1>11, <1>12 DEF w, lines, meta

-----------------------------------------------------------------------------
(* How far an import came *)

\* The keys of the session that is imported.
OfImport(j) == j = DiskMain \/ Under(DiskMain, j)

\* The files of subagents of which something is appended, and their subpaths.
WithPart == {j \in DOMAIN Disk \ {DiskMain} : Whole(j) # <<>>}
Subpaths == {SubSeq(k, 3, Len(k)) : k \in WithPart}

\* Nothing but files is stored, of each a first part, and all of it once an import
\* went through.
FilesHeld(st, imp) ==
    /\ \A j \in DOMAIN st.data : OfImport(j) => j \in DOMAIN Disk /\ Whole(j) # <<>>
    /\ imp.tries = 0 => \A k \in DOMAIN Disk : Stored(st, k) = <<>>
    /\ \A k \in DOMAIN Disk : \E n \in 0..Len(Whole(k)) : Ends(k, Stored(st, k), n, imp.tries)
    /\ imp.complete =>
         \A k \in DOMAIN Disk : Ends(k, Stored(st, k), Len(Whole(k)), imp.tries)

\* A file is still to come.
ToCome(c, j) == \E i \in DOMAIN c.subs : c.subs[i] = j

\* While it appends, one file is under way, those to come are as the tries before left
\* them, and of all others this try has stored the whole.
Appending(st, c, imp) ==
    /\ imp.tries # 0 /\ ~imp.complete
    /\ c.key \in DOMAIN Disk /\ ~ToCome(c, c.key)
    /\ \A i, j \in DOMAIN c.subs : c.subs[i] = c.subs[j] => i = j
    /\ \E n \in 0..Len(Whole(c.key)) : /\ Ends(c.key, Stored(st, c.key), n, imp.tries)
                                       /\ Feeds(c.left, Whole(c.key), n)
    /\ \A j \in DOMAIN Disk \ {c.key} :
         /\ ToCome(c, j) => Ends(j, Stored(st, j), 0, imp.tries)
         /\ ~ToCome(c, j) => Ends(j, Stored(st, j), Len(Whole(j)), imp.tries)

\* A resume of a session imported as a whole gets what is stored.
Resumed(st, c) ==
    /\ c.at \in {"subkeys", "subs", "done"}
    /\ c.main = Stored(st, DiskMain)
    /\ c.at = "subkeys" => c.files = <<>>
    /\ c.at = "done" => c.left = {}
    /\ c.at # "subkeys" => c.left \cup DOMAIN c.files = IF c.subkeys THEN Subpaths ELSE {}
    /\ \A p \in DOMAIN c.files :
         /\ p \in Subpaths
         /\ c.files[p] = Materialized(Stored(st, SubKey(Project, DiskMain[2], p)))

ImportOk(st, c, imp) ==
    /\ imp \in [tries : Nat, alone : BOOLEAN, complete : BOOLEAN]
    /\ imp.alone =>
         /\ FilesHeld(st, imp)
         /\ c.op = "import" /\ c.at = "append" => Appending(st, c, imp)
         /\ imp.complete /\ c.op = "resume" /\ c.picked = DiskMain[2] => Resumed(st, c)

ImportInv == ImportOk(store, call, imports)

\* A store that holds the same of the session.
SameFiles(st, after) ==
    \A j : OfImport(j) => /\ j \in DOMAIN st.data <=> j \in DOMAIN after.data
                          /\ j \in DOMAIN st.data => after.data[j] = st.data[j]

LEMMA FilesOfImport == \A k \in DOMAIN Disk : OfImport(k)
BY DiskHolds DEF OfImport

\* A subpath is that of one file.
LEMMA SubpathsAre ==
    /\ \A k \in WithPart : SubKey(Project, DiskMain[2], SubSeq(k, 3, Len(k))) = k
    /\ \A p \in Subpaths : /\ SubKey(Project, DiskMain[2], p) \in WithPart
                           /\ p = SubSeq(SubKey(Project, DiskMain[2], p), 3,
                                         Len(SubKey(Project, DiskMain[2], p)))
                           /\ IsAgentPath(p) /\ SafeSubpath(p)
<1>1. ASSUME NEW k \in WithPart
      PROVE  /\ SubKey(Project, DiskMain[2], SubSeq(k, 3, Len(k))) = k
             /\ IsAgentPath(SubSeq(k, 3, Len(k))) /\ SafeSubpath(SubSeq(k, 3, Len(k)))
  <2>1. k \in DOMAIN Disk /\ k # DiskMain /\ Under(DiskMain, k) /\ OfSubagent(k) /\ k \in KeySet
    BY DiskHolds DEF WithPart
  <2>2. Project \in Part /\ FilePathToSessionKey(k) = k
    BY <2>1, CallsAssumption
  <2>3. SubKey(Project, DiskMain[2], SubSeq(k, 3, Len(k))) = k /\ Len(k) > 2
    BY <2>1, <2>2, DiskHolds, UnderMain
  <2>4. k \in Seq(Part) /\ Len(k) \in Nat
    BY <2>1 DEF KeySet
  <2>5. Len(k) >= 4
    <3>1. Len(k) > 2
      BY <2>3
    <3>2. ~(Len(k) = 2)
      <4> DEFINE n == Len(k)
      <4>1. n \in Nat /\ n > 2
        BY <2>4, <3>1
      <4> HIDE DEF n
      <4>2. ~(n = 2)
        BY <4>1
      <4> QED
        BY <4>2 DEF n
    <3>4. ASSUME k = <<>> PROVE FALSE
      <4>1. Len(<<>>) = 0
        OBVIOUS
      <4> QED
        BY <3>1, <3>4, <4>1
    <3>3. Len(k) >= 4 /\ ValidSubpath(SubSeq(k, 3, Len(k)))
      BY <2>2, <3>2, <3>4, Zenon DEF FilePathToSessionKey, NoKey
    <3> QED
      BY <3>3
  <2>6. Len(SubSeq(k, 3, Len(k))) = Len(k) - 2 /\ SubSeq(k, 3, Len(k))[1] = k[3]
    BY <2>4, <2>5
  <2>7. IsAgentPath(SubSeq(k, 3, Len(k)))
    BY <2>1, <2>4, <2>5, <2>6 DEF IsAgentPath, OfSubagent
  <2> QED
    BY <2>1, <2>3, <2>7 DEF OfSubagent
<1>2. ASSUME NEW p \in Subpaths PROVE \E k \in WithPart : p = SubSeq(k, 3, Len(k))
  BY DEF Subpaths, WithPart
<1> QED
  BY <1>1, <1>2

\* What the store lists of a session that was imported as a whole.
LEMMA SubkeysAre ==
    ASSUME NEW st, WellFormed(st), NEW imp, FilesHeld(st, imp), imp.complete
    PROVE  ListSubkeys(st, Project, DiskMain[2]) = Subpaths
<1>1. \A j : Under(MainKey(Project, DiskMain[2]), j) <=> Under(DiskMain, j)
  BY DiskHolds
<1>2. ASSUME NEW k \in WithPart PROVE k \in DOMAIN st.data /\ Under(DiskMain, k)
  <2>1. k \in DOMAIN Disk /\ Whole(k) # <<>> /\ Under(DiskMain, k)
    BY DiskHolds DEF WithPart
  <2>2. Stored(st, k) # <<>>
    BY <2>1, EndsShows DEF FilesHeld
  <2> QED
    BY <2>1, <2>2 DEF Stored
<1>3. ASSUME NEW j \in DOMAIN st.data, Under(DiskMain, j) PROVE j \in WithPart
  <2>1. j \in DOMAIN Disk /\ Whole(j) # <<>>
    BY <1>3 DEF FilesHeld, OfImport
  <2>2. j # DiskMain
    BY <1>3 DEF Under, IsStrictPrefix
  <2> QED
    BY <2>1, <2>2 DEF WithPart
<1>4. {j \in DOMAIN st.data : Under(MainKey(Project, DiskMain[2]), j)} = WithPart
  BY <1>1, <1>2, <1>3
<1> QED
  BY <1>4 DEF ListSubkeys, Subpaths, WithPart

\* What is said of the files depends on what is stored of them.
LEMMA SameHeld ==
    ASSUME NEW st, NEW after, SameFiles(st, after), NEW imp, NEW c
    PROVE  /\ FilesHeld(st, imp) => FilesHeld(after, imp)
           /\ Appending(st, c, imp) => Appending(after, c, imp)
           /\ Resumed(st, c) => Resumed(after, c)
<1>1. \A k : OfImport(k) => Stored(after, k) = Stored(st, k)
  BY DEF SameFiles, Stored
<1>2. \A k \in DOMAIN Disk : Stored(after, k) = Stored(st, k)
  BY <1>1, FilesOfImport
<1>3. FilesHeld(st, imp) => FilesHeld(after, imp)
  BY <1>2 DEF FilesHeld, SameFiles
<1>4. Appending(st, c, imp) => Appending(after, c, imp)
  BY <1>2 DEF Appending
<1>5. Resumed(st, c) => Resumed(after, c)
  <2>1. \A p \in Subpaths : SubKey(Project, DiskMain[2], p) \in DOMAIN Disk
    BY SubpathsAre DEF WithPart
  <2>2. DiskMain \in DOMAIN Disk
    BY DiskHolds
  <2> QED
    BY <1>2, <2>1, <2>2 DEF Resumed
<1> QED
  BY <1>3, <1>4, <1>5

\* An append to another session, and a delete of one, leave the files alone.
LEMMA AppendElsewhere ==
    ASSUME NEW st, NEW k, ~OfImport(k), NEW batch
    PROVE  SameFiles(st, AppendTo(st, k, batch))
<1>1. AppendTo(st, k, batch).data = Put(st.data, k, Stored(st, k) \o batch)
  BY DEF AppendTo
<1>2. \A j : j # k => SameAt(st.data, AppendTo(st, k, batch).data, j)
  BY <1>1, PutHas
<1> QED
  BY <1>2 DEF SameFiles, SameAt

LEMMA DeleteElsewhere ==
    ASSUME NEW st, WellFormed(st), NEW s \in Sessions, ~OfImport(MainKey(Project, s))
    PROVE  SameFiles(st, DeleteKey(st, MainKey(Project, s)))
<1> DEFINE k == MainKey(Project, s)
           gone == {k} \cup IF IsMain(k) THEN {j \in DOMAIN st.data : Under(k, j)} ELSE {}
<1>1. DeleteKey(st, k).data = [j \in DOMAIN st.data \ gone |-> st.data[j]]
  BY DEF DeleteKey
<1>2. s \in Part /\ Project \in Part
  BY KeysAreKeys, CallsAssumption
<1>3. ASSUME NEW j \in gone, j \in DOMAIN st.data, OfImport(j) PROVE FALSE
  <2>1. j # k /\ Under(k, j)
    BY <1>3
  <2>2. j \in KeySet
    BY <1>3, KeysAreKeys DEF WellFormed
  <2>3. j[2] = s
    BY <1>2, <2>1, <2>2, UnderMain
  <2>4. j[2] = DiskMain[2]
    <3>1. CASE Under(DiskMain, j)
      <4>1. Under(MainKey(Project, DiskMain[2]), j) /\ DiskMain[2] \in Part
        BY <3>1, DiskHolds
      <4> QED
        BY <1>2, <2>2, <4>1, UnderMain
    <3> QED
      BY <1>3, <3>1 DEF OfImport
  <2>5. k = DiskMain
    BY <2>3, <2>4, DiskHolds
  <2> QED
    BY <2>5 DEF OfImport
<1> HIDE DEF gone, k
<1>4. SameFiles(st, DeleteKey(st, k))
  BY <1>1, <1>3 DEF SameFiles
<1> QED
  BY <1>4 DEF k

-----------------------------------------------------------------------------
(* The steps of an import *)

\* Where nothing of the store and the history changes and the call is neither an
\* import nor a resume, nothing is to be shown.
LEMMA OthersKeep ==
    ASSUME ImportInv, SameFiles(store, store'), imports' = imports,
           ~(call'.op = "import" /\ call'.at = "append"), call'.op # "resume"
    PROVE  ImportInv'
<1>1. /\ imports \in [tries : Nat, alone : BOOLEAN, complete : BOOLEAN]
      /\ imports.alone => FilesHeld(store, imports)
  BY DEF ImportInv, ImportOk
<1>2. imports.alone => FilesHeld(store', imports')
  BY <1>1, SameHeld
<1>3. ImportOk(store', call', imports')
  BY <1>1, <1>2 DEF ImportOk
<1> QED
  BY <1>3 DEF ImportInv

\* What others write to the session ends what is said of it, what they write to another
\* session changes nothing.
LEMMA WrittenImport ==
    ASSUME ImportInv, NEW st, NEW k, Written(st, k), ~OfImport(k) => SameFiles(store, st)
    PROVE  ImportInv'
<1>1. /\ imports \in [tries : Nat, alone : BOOLEAN, complete : BOOLEAN]
      /\ imports.alone => FilesHeld(store, imports)
      /\ imports.alone /\ call.op = "import" /\ call.at = "append" =>
           Appending(store, call, imports)
      /\ imports.alone /\ imports.complete /\ call.op = "resume" /\ call.picked = DiskMain[2] =>
           Resumed(store, call)
  BY DEF ImportInv, ImportOk
<1>2. store' = st /\ (call' = call \/ call' = Idle)
  BY DEF Written
<1>3. /\ imports' \in [tries : Nat, alone : BOOLEAN, complete : BOOLEAN]
      /\ imports'.alone => imports.alone /\ ~OfImport(k)
      /\ imports'.tries = imports.tries /\ imports'.complete = imports.complete
  <2>1. imports' = [imports EXCEPT !.alone = @ /\ ~(k = DiskMain \/ Under(DiskMain, k))]
    BY DEF Written
  <2> QED
    BY <1>1, <2>1 DEF OfImport
<1>4. ASSUME imports'.alone
      PROVE  /\ FilesHeld(store', imports')
             /\ call'.op = "import" /\ call'.at = "append" => Appending(store', call', imports')
             /\ imports'.complete /\ call'.op = "resume" /\ call'.picked = DiskMain[2] =>
                  Resumed(store', call')
  <2>1. imports.alone /\ SameFiles(store, store')
    BY <1>2, <1>3, <1>4
  <2>2. FilesHeld(store', imports')
    <3>1. FilesHeld(store', imports)
      BY <1>1, <2>1, SameHeld
    <3> QED
      BY <1>3, <3>1 DEF FilesHeld
  <2>3. ASSUME call'.op = "import", call'.at = "append"
        PROVE  Appending(store', call', imports')
    <3>1. call' = call
      BY <1>2, <2>3 DEF Idle
    <3>2. Appending(store', call, imports)
      BY <1>1, <2>1, <2>3, <3>1, SameHeld
    <3> QED
      BY <1>3, <3>1, <3>2 DEF Appending
  <2>4. ASSUME imports'.complete, call'.op = "resume", call'.picked = DiskMain[2]
        PROVE  Resumed(store', call')
    <3>1. call' = call
      BY <1>2, <2>4 DEF Idle
    <3>2. Resumed(store', call)
      BY <1>1, <1>3, <2>1, <2>4, <3>1, SameHeld
    <3> QED
      BY <3>1, <3>2
  <2> QED
    BY <2>2, <2>3, <2>4
<1>5. ImportOk(store', call', imports')
  BY <1>3, <1>4 DEF ImportOk
<1> QED
  BY <1>5 DEF ImportInv

LEMMA WritersImport ==
    ASSUME IInv, ImportInv,
           \/ Mirror
           \/ \E s \in Sessions : Delete(s) \/ \E t \in Titles : Rename(s, t)
           \/ \E s \in Sessions : \E t \in Tags : TagSession(s, t)
    PROVE  ImportInv'
<1>1. ASSUME Mirror PROVE ImportInv'
  <2>1. PICK b \in MirrorBatches : Written(AppendTo(store, b.key, b.entries), b.key)
    BY <1>1 DEF Mirror
  <2> QED
    BY <2>1, AppendElsewhere, WrittenImport
<1>2. ASSUME NEW s \in Sessions, NEW t, Rename(s, t) \/ TagSession(s, t) PROVE ImportInv'
  BY <1>2, AppendElsewhere, WrittenImport DEF Rename, TagSession
<1>3. ASSUME NEW s \in Sessions, Delete(s) PROVE ImportInv'
  <2>1. ~OfImport(MainKey(Project, s)) => SameFiles(store, DeleteKey(store, MainKey(Project, s)))
    BY DeleteElsewhere DEF IInv
  <2> QED
    BY <1>3, <2>1, WrittenImport DEF Delete
<1> QED
  BY <1>1, <1>2, <1>3

\* The elements of a finite set in some order, each once.
LEMMA SetInSequence ==
    ASSUME NEW T, IsFiniteSet(T)
    PROVE  /\ SetToSeq(T) \in Seq(T)
           /\ \A i, j \in DOMAIN SetToSeq(T) : SetToSeq(T)[i] = SetToSeq(T)[j] => i = j
           /\ \A x \in T : \E i \in DOMAIN SetToSeq(T) : SetToSeq(T)[i] = x
<1> DEFINE n == Cardinality(T)
           f == SetToSeq(T)
<1>1. n \in Nat /\ ExistsBijection(1..n, T)
  BY FS_CardinalityType
<1>2. \E g \in [1..n -> T] : IsInjective(g)
  BY <1>1 DEF ExistsBijection, Bijection, Injection, IsInjective
<1>3. f \in [1..n -> T] /\ IsInjective(f)
  BY <1>2 DEF SetToSeq
<1>4. f \in Injection(1..n, T)
  BY <1>3 DEF Injection
<1>5. IsFiniteSet(1..n) /\ Cardinality(1..n) = n
  <2>1. IsFiniteSet(1..n) /\ Cardinality(1..n) = IF 1 > n THEN 0 ELSE n - 1 + 1
    BY <1>1, FS_Interval
  <2> QED
    BY <1>1, <2>1
<1>6. f \in Surjection(1..n, T)
  BY <1>4, <1>5, FS_Injection
<1> HIDE DEF f
<1>7. f \in Seq(T) /\ DOMAIN f = 1..n
  BY <1>1, <1>3
<1>8. \A i, j \in DOMAIN f : f[i] = f[j] => i = j
  BY <1>3, <1>7 DEF IsInjective
<1>9. \A x \in T : \E i \in DOMAIN f : f[i] = x
  BY <1>6, <1>7 DEF Surjection
<1> QED
  BY <1>7, <1>8, <1>9 DEF f

\* A try begins with the main transcript.
LEMMA BeginImport == ASSUME ImportInv, Import PROVE ImportInv'
<1> DEFINE others == DOMAIN Disk \ {DiskMain}
           subs == SetToSeq(others)
<1>1. /\ imports \in [tries : Nat, alone : BOOLEAN, complete : BOOLEAN]
      /\ imports.alone => FilesHeld(store, imports)
  BY DEF ImportInv, ImportOk
<1>2. /\ call' = [op |-> "import", at |-> "append", key |-> DiskMain,
                  left |-> ImportsOf(DiskMain), subs |-> subs]
      /\ imports' = [imports EXCEPT !.tries = @ + 1, !.complete = FALSE] /\ store' = store
  BY DEF Import, Begin
<1>3. /\ imports' \in [tries : Nat, alone : BOOLEAN, complete : BOOLEAN]
      /\ imports'.alone = imports.alone /\ imports'.tries = imports.tries + 1
      /\ imports'.tries # 0 /\ ~imports'.complete
  <2> DEFINE n == imports.tries
  <2>1. n \in Nat /\ n + 1 \in Nat /\ n + 1 # 0
    BY <1>1
  <2> HIDE DEF n
  <2>2. imports' = [imports EXCEPT !.tries = n + 1, !.complete = FALSE]
    BY <1>2 DEF n
  <2>3. /\ imports'.tries = n + 1 /\ imports'.alone = imports.alone
        /\ imports'.complete = FALSE
    BY <1>1, <2>2
  <2>4. imports' \in [tries : Nat, alone : BOOLEAN, complete : BOOLEAN]
    BY <1>1, <2>1, <2>2
  <2> QED
    BY <2>1, <2>3, <2>4 DEF n
<1>4. DiskMain \in DOMAIN Disk
  BY DiskHolds
<1>5. /\ subs \in Seq(others)
      /\ \A i, j \in DOMAIN subs : subs[i] = subs[j] => i = j
      /\ \A x \in others : \E i \in DOMAIN subs : subs[i] = x
  <2>1. IsFiniteSet(others)
    <3>1. IsFiniteSet(DOMAIN Disk) /\ others \in SUBSET DOMAIN Disk
      BY CallsAssumption
    <3> QED
      BY <3>1, FS_Subset
  <2> QED
    BY <2>1, SetInSequence
<1>6. ~\E i \in DOMAIN subs : subs[i] = DiskMain
  <2>1. \A i \in DOMAIN subs : subs[i] \in others
    BY <1>5
  <2> QED
    BY <2>1
<1> HIDE DEF subs
<1>7. /\ call'.key = DiskMain /\ call'.left = ImportsOf(DiskMain) /\ call'.subs = subs
      /\ call'.op = "import" /\ call'.at = "append"
  BY <1>2
<1>8. ASSUME imports.alone, NEW k \in DOMAIN Disk PROVE Ends(k, Stored(store, k), 0, imports.tries + 1)
  <2>1. CASE imports.tries = 0
    <3>1. Stored(store, k) = <<>>
      BY <1>1, <1>8, <2>1 DEF FilesHeld
    <3> QED
      BY <3>1, EndsNothing
  <2>2. CASE imports.tries # 0
    <3>1. PICK n \in 0..Len(Whole(k)) : Ends(k, Stored(store, k), n, imports.tries)
      BY <1>1, <1>8 DEF FilesHeld
    <3>2. imports.tries \in Nat
      BY <1>1
    <3> QED
      BY <2>2, <3>1, <3>2, EndsAgain
  <2> QED
    BY <2>1, <2>2
<1>9. \A k \in DOMAIN Disk : 0 \in 0..Len(Whole(k))
  <2>1. \A k \in DOMAIN Disk : Len(Whole(k)) \in Nat
    BY WholeIs DEF IsWhole
  <2> QED
    BY <2>1
<1>10. ASSUME imports.alone PROVE FilesHeld(store', imports')
  BY <1>1, <1>2, <1>3, <1>8, <1>9, <1>10 DEF FilesHeld
<1>11. ASSUME imports.alone PROVE Appending(store', call', imports')
  <2>1. Feeds(ImportsOf(DiskMain), Whole(DiskMain), 0)
    BY <1>4, ImportsFeed
  <2>2. \A j : ToCome(call', j) <=> \E i \in DOMAIN subs : subs[i] = j
    BY <1>7 DEF ToCome
  <2>3. ~ToCome(call', DiskMain) /\ \A j \in others : ToCome(call', j)
    BY <1>5, <1>6, <2>2
  <2> QED
    BY <1>2, <1>3, <1>4, <1>5, <1>7, <1>8, <1>9, <1>11, <2>1, <2>3 DEF Appending
<1>12. ImportOk(store', call', imports')
  BY <1>3, <1>7, <1>10, <1>11 DEF ImportOk
<1> QED
  BY <1>12 DEF ImportInv

\* What a step of an import finds.
LEMMA ImportFinds ==
    ASSUME IInv, ImportInv, call.op = "import", call.at = "append", imports.alone
    PROVE  /\ FilesHeld(store, imports) /\ Appending(store, call, imports)
           /\ \E S : call.left \in Seq(Seq(S))
           /\ call.subs \in Seq(DOMAIN Disk)
           /\ \E S : call \in Importing(S)
<1>1. PICK S : call \in Importing(S)
  BY Forms DEF IInv
<1> QED
  BY <1>1 DEF ImportInv, ImportOk, Importing

\* An append adds what comes next of the file under way.
LEMMA AppendImport == ASSUME IInv, ImportInv, ImportAppend PROVE ImportInv'
<1> DEFINE k == call.key
           w == Whole(k)
<1>1. /\ call.op = "import" /\ call.at = "append" /\ call.left # <<>>
      /\ store' = AppendTo(store, k, Head(call.left))
      /\ call' = [call EXCEPT !.left = Tail(@)] /\ imports' = imports
  BY DEF ImportAppend
<1>2. imports \in [tries : Nat, alone : BOOLEAN, complete : BOOLEAN]
  BY DEF ImportInv, ImportOk
<1>3. ASSUME imports.alone PROVE FilesHeld(store', imports) /\ Appending(store', call', imports)
  <2>1. FilesHeld(store, imports) /\ Appending(store, call, imports)
    BY <1>1, <1>3, ImportFinds
  <2>2. PICK S : call.left \in Seq(Seq(S))
    BY <1>1, <1>3, ImportFinds
  <2>3. /\ k \in DOMAIN Disk /\ imports.tries # 0 /\ ~imports.complete
    BY <2>1 DEF Appending
  <2>4. PICK n \in 0..Len(w) : Ends(k, Stored(store, k), n, imports.tries) /\ Feeds(call.left, w, n)
    BY <2>1 DEF Appending
  <2>5. Len(w) \in Nat
    BY <2>3, WholeIs DEF IsWhole
  <2>6. PICK m \in 0..Len(w) : /\ n < m /\ Head(call.left) = SubSeq(w, n + 1, m)
                               /\ Feeds(Tail(call.left), w, m)
    BY <1>1, <2>2, <2>4, <2>5, FeedsOn
  <2>7. /\ call'.op = "import" /\ call'.at = "append" /\ call'.key = k
        /\ call'.left = Tail(call.left) /\ call'.subs = call.subs
    <3>1. PICK R : call \in Importing(R)
      BY <1>1, <1>3, ImportFinds
    <3> QED
      BY <1>1, <3>1 DEF Importing
  <2>8. /\ Stored(store', k) = Stored(store, k) \o SubSeq(w, n + 1, m)
        /\ DOMAIN store'.data = DOMAIN store.data \cup {k}
        /\ \A j : j # k => Stored(store', j) = Stored(store, j)
    <3>1. store'.data = Put(store.data, k, Stored(store, k) \o SubSeq(w, n + 1, m))
      BY <1>1, <2>6 DEF AppendTo
    <3> QED
      BY <3>1 DEF Put, Stored
  <2>9. Ends(k, Stored(store', k), m, imports.tries)
    <3>1. m \in n..Len(w)
      BY <2>4, <2>5, <2>6
    <3> QED
      BY <2>3, <2>4, <2>8, <3>1, EndsGrow
  <2>10. w # <<>>
    <3>1. Len(w) # 0
      BY <2>4, <2>5, <2>6
    <3> QED
      BY <3>1, EmptySeq
  <2>11. FilesHeld(store', imports)
    <3>1. ASSUME NEW j \in DOMAIN store'.data, OfImport(j) PROVE j \in DOMAIN Disk /\ Whole(j) # <<>>
      BY <2>1, <2>3, <2>8, <2>10, <3>1 DEF FilesHeld
    <3>2. ASSUME NEW j \in DOMAIN Disk
          PROVE  \E x \in 0..Len(Whole(j)) : Ends(j, Stored(store', j), x, imports.tries)
      <4>1. CASE j = k
        BY <2>9, <4>1
      <4>2. CASE j # k
        BY <2>1, <2>8, <4>2 DEF FilesHeld
      <4> QED
        BY <4>1, <4>2
    <3> QED
      BY <2>3, <3>1, <3>2 DEF FilesHeld
  <2>12. \A j : ToCome(call', j) <=> ToCome(call, j)
    BY <2>7 DEF ToCome
  <2> HIDE DEF w, k
  <2>13. Appending(store', call', imports)
    <3>1. \A j \in DOMAIN Disk \ {k} :
            /\ ToCome(call, j) => Ends(j, Stored(store, j), 0, imports.tries)
            /\ ~ToCome(call, j) => Ends(j, Stored(store, j), Len(Whole(j)), imports.tries)
      BY <2>1 DEF Appending, k
    <3>2. /\ ~ToCome(call, k) /\ \A i, j \in DOMAIN call.subs : call.subs[i] = call.subs[j] => i = j
      BY <2>1 DEF Appending, k
    <3>3. w = Whole(call'.key)
      BY <2>7 DEF w, k
    <3> QED
      BY <2>3, <2>6, <2>7, <2>8, <2>9, <2>12, <3>1, <3>2, <3>3 DEF Appending
  <2> QED
    BY <2>11, <2>13
<1>4. call'.op # "resume"
  <2>1. PICK S : call \in Importing(S)
    BY <1>1, Forms DEF IInv
  <2> QED
    BY <1>1, <2>1 DEF Importing
<1>5. ImportOk(store', call', imports')
  BY <1>1, <1>2, <1>3, <1>4 DEF ImportOk
<1> QED
  BY <1>5 DEF ImportInv

\* Of a file no append is left, and the next one is taken up.
LEMMA SubagentImport == ASSUME IInv, ImportInv, ImportSubagent PROVE ImportInv'
<1> DEFINE k == call.key
           next == Head(call.subs)
<1>1. /\ call.op = "import" /\ call.at = "append" /\ call.left = <<>> /\ call.subs # <<>>
      /\ call' = [call EXCEPT !.key = next, !.left = ImportsOf(next), !.subs = Tail(@)]
      /\ store' = store /\ imports' = imports
  BY DEF ImportSubagent
<1>2. imports \in [tries : Nat, alone : BOOLEAN, complete : BOOLEAN]
  BY DEF ImportInv, ImportOk
<1>3. PICK S : call \in Importing(S)
  BY <1>1, Forms DEF IInv
<1>4. /\ call'.op = "import" /\ call'.at = "append" /\ call'.key = next
      /\ call'.left = ImportsOf(next) /\ call'.subs = Tail(call.subs)
  BY <1>1, <1>3 DEF Importing
<1>5. ASSUME imports.alone PROVE FilesHeld(store, imports) /\ Appending(store, call', imports)
  <2>1. FilesHeld(store, imports) /\ Appending(store, call, imports)
    BY <1>1, <1>5, ImportFinds
  <2>2. /\ imports.tries # 0 /\ ~imports.complete /\ k \in DOMAIN Disk /\ ~ToCome(call, k)
        /\ \A i, j \in DOMAIN call.subs : call.subs[i] = call.subs[j] => i = j
    BY <2>1 DEF Appending
  <2>3. PICK R : call.left \in Seq(Seq(R))
    BY <1>1, <1>5, ImportFinds
  <2>4. Ends(k, Stored(store, k), Len(Whole(k)), imports.tries)
    <3>1. PICK n \in 0..Len(Whole(k)) : /\ Ends(k, Stored(store, k), n, imports.tries)
                                        /\ Feeds(call.left, Whole(k), n)
      BY <2>1 DEF Appending
    <3>2. Len(Whole(k)) \in Nat
      BY <2>2, WholeIs DEF IsWhole
    <3>3. n = Len(Whole(k))
      BY <1>1, <2>3, <3>1, <3>2, FeedsOn
    <3> QED
      BY <3>1, <3>3
  <2> DEFINE subs == call.subs
             rest == Tail(call.subs)
  <2>5. subs \in Seq(DOMAIN Disk) /\ subs # <<>>
    BY <1>1, <1>5, ImportFinds
  <2>6. /\ next \in DOMAIN Disk /\ next = subs[1] /\ 1 \in DOMAIN subs
        /\ DOMAIN rest = 1..Len(rest) /\ DOMAIN subs = 1..Len(subs)
        /\ Len(rest) = Len(subs) - 1 /\ Len(subs) \in Nat
        /\ \A i \in 1..Len(rest) : rest[i] = subs[i + 1]
    BY <2>5, HeadTailProperties
  <2>7. \A j : ToCome(call', j) <=> \E i \in DOMAIN rest : rest[i] = j
    BY <1>4 DEF ToCome
  <2>8. \A j : ToCome(call, j) <=> \E i \in DOMAIN subs : subs[i] = j
    BY DEF ToCome
  <2> HIDE DEF subs, rest, next, k
  <2>9. \A i \in DOMAIN rest : i + 1 \in DOMAIN subs /\ i + 1 # 1 /\ rest[i] = subs[i + 1]
    BY <2>6
  <2>10. \A i, j \in DOMAIN rest : rest[i] = rest[j] => i = j
    <3> SUFFICES ASSUME NEW i \in DOMAIN rest, NEW j \in DOMAIN rest, rest[i] = rest[j] PROVE i = j
      OBVIOUS
    <3>1. i + 1 = j + 1
      BY <2>2, <2>9 DEF subs
    <3>2. i \in Nat /\ j \in Nat
      BY <2>6
    <3> QED
      BY <3>1, <3>2
  <2>11. ~ToCome(call', next)
    BY <2>2, <2>6, <2>7, <2>9 DEF subs
  <2>12. ToCome(call, next) /\ next # k
    BY <2>2, <2>6, <2>8
  <2>13. ASSUME NEW j, j # next PROVE ToCome(call', j) <=> ToCome(call, j)
    <3>1. ASSUME ToCome(call, j) PROVE ToCome(call', j)
      <4>1. PICK i \in DOMAIN subs : subs[i] = j
        BY <2>8, <3>1
      <4>2. i # 1
        BY <2>6, <2>13, <4>1
      <4>3. i - 1 \in DOMAIN rest /\ (i - 1) + 1 = i
        BY <2>6, <4>2
      <4>4. rest[i - 1] = j
        BY <2>9, <4>1, <4>3
      <4> QED
        BY <2>7, <4>3, <4>4
    <3>2. ASSUME ToCome(call', j) PROVE ToCome(call, j)
      BY <2>7, <2>8, <2>9, <3>2
    <3> QED
      BY <3>1, <3>2
  <2>14. \A j \in DOMAIN Disk \ {k} :
           /\ ToCome(call, j) => Ends(j, Stored(store, j), 0, imports.tries)
           /\ ~ToCome(call, j) => Ends(j, Stored(store, j), Len(Whole(j)), imports.tries)
    BY <2>1 DEF Appending, k
  <2>15. ASSUME NEW j \in DOMAIN Disk \ {next}
         PROVE  /\ ToCome(call', j) => Ends(j, Stored(store, j), 0, imports.tries)
                /\ ~ToCome(call', j) => Ends(j, Stored(store, j), Len(Whole(j)), imports.tries)
    <3>1. CASE j = k
      BY <2>2, <2>4, <2>13, <3>1 DEF k
    <3>2. CASE j # k
      BY <2>13, <2>14, <3>2
    <3> QED
      BY <3>1, <3>2
  <2>16. /\ 0 \in 0..Len(Whole(next)) /\ Ends(next, Stored(store, next), 0, imports.tries)
         /\ Feeds(ImportsOf(next), Whole(next), 0)
    <3>1. Len(Whole(next)) \in Nat
      BY <2>6, WholeIs DEF IsWhole
    <3> QED
      BY <2>6, <2>12, <2>14, <3>1, ImportsFeed
  <2>17. /\ call'.key = next /\ call'.left = ImportsOf(next) /\ call'.subs = rest
    BY <1>4 DEF next, rest
  <2>18. Appending(store, call', imports)
    BY <2>2, <2>6, <2>10, <2>11, <2>15, <2>16, <2>17 DEF Appending
  <2> QED
    BY <2>1, <2>18
<1>6. ImportOk(store', call', imports')
  BY <1>1, <1>2, <1>4, <1>5 DEF ImportOk
<1> QED
  BY <1>6 DEF ImportInv

\* All files are stored as a whole.
LEMMA ImportedImport == ASSUME IInv, ImportInv, Imported PROVE ImportInv'
<1>1. /\ call.op = "import" /\ call.at = "append" /\ call.left = <<>> /\ call.subs = <<>>
      /\ call' = [op |-> "import", at |-> "done"]
      /\ store' = store /\ imports' = [imports EXCEPT !.complete = TRUE]
  BY DEF Imported
<1>2. imports \in [tries : Nat, alone : BOOLEAN, complete : BOOLEAN]
  BY DEF ImportInv, ImportOk
<1>3. /\ imports' \in [tries : Nat, alone : BOOLEAN, complete : BOOLEAN]
      /\ imports'.alone = imports.alone /\ imports'.tries = imports.tries
  BY <1>1, <1>2
<1>4. ASSUME imports.alone PROVE FilesHeld(store', imports')
  <2>1. FilesHeld(store, imports) /\ Appending(store, call, imports)
    BY <1>1, <1>4, ImportFinds
  <2>2. PICK S : call.left \in Seq(Seq(S))
    BY <1>1, <1>4, ImportFinds
  <2>3. call.key \in DOMAIN Disk
    BY <2>1 DEF Appending
  <2>4. Ends(call.key, Stored(store, call.key), Len(Whole(call.key)), imports.tries)
    <3>1. PICK n \in 0..Len(Whole(call.key)) :
            /\ Ends(call.key, Stored(store, call.key), n, imports.tries)
            /\ Feeds(call.left, Whole(call.key), n)
      BY <2>1 DEF Appending
    <3>2. Len(Whole(call.key)) \in Nat
      BY <2>3, WholeIs DEF IsWhole
    <3>3. n = Len(Whole(call.key))
      BY <1>1, <2>2, <3>1, <3>2, FeedsOn
    <3> QED
      BY <3>1, <3>3
  <2>5. \A j : ~ToCome(call, j)
    BY <1>1 DEF ToCome
  <2>6. \A j \in DOMAIN Disk : Ends(j, Stored(store, j), Len(Whole(j)), imports.tries)
    BY <2>1, <2>4, <2>5 DEF Appending
  <2> QED
    BY <1>1, <1>3, <2>1, <2>6 DEF FilesHeld
<1>5. ImportOk(store', call', imports')
  BY <1>1, <1>3, <1>4 DEF ImportOk
<1> QED
  BY <1>5 DEF ImportInv

-----------------------------------------------------------------------------
(* The steps of a resume *)

\* A resume reads; what it has got by then is what is to be shown.
LEMMA ReadingImport ==
    ASSUME ImportInv, store' = store, imports' = imports, call'.op = "resume",
           /\ imports.alone /\ imports.complete /\ call'.picked = DiskMain[2]
             => Resumed(store, call')
    PROVE  ImportInv'
<1>1. /\ imports \in [tries : Nat, alone : BOOLEAN, complete : BOOLEAN]
      /\ imports.alone => FilesHeld(store, imports)
  BY DEF ImportInv, ImportOk
<1>2. ImportOk(store', call', imports')
  BY <1>1 DEF ImportOk
<1> QED
  BY <1>2 DEF ImportInv

LEMMA BeginResumeImport ==
    ASSUME ImportInv, NEW sid, NEW caps, Resume(sid, caps) PROVE ImportInv'
<1>1. /\ store' = store /\ imports' = imports
      /\ call'.op = "resume" /\ call'.picked = Absent
  BY DEF Resume, Begin
<1>2. DiskMain[2] # Absent
  BY DiskHolds
<1> QED
  BY <1>1, <1>2, ReadingImport

\* Nothing is picked yet.
LEMMA SearchImport ==
    ASSUME IInv, ImportInv, ReadCandidates \/ NothingToResume PROVE ImportInv'
<1>1. /\ call.op = "resume" /\ call.at \in {"sessions", "candidate"}
      /\ store' = store /\ imports' = imports
  BY DEF ReadCandidates, NothingToResume, Reads
<1>2. PICK S : call \in Resuming(S)
  BY <1>1, Forms DEF IInv
<1>3. call.picked = Absent
  BY <1>1 DEF IInv, ResumeInv, SearchInv
<1>4. call'.op = "resume" /\ call'.picked = Absent
  BY <1>1, <1>2, <1>3 DEF ReadCandidates, NothingToResume, Resuming
<1>5. DiskMain[2] # Absent
  BY DiskHolds
<1> QED
  BY <1>1, <1>4, <1>5, ReadingImport

LEMMA CandidateImport ==
    ASSUME IInv, ImportInv, NEW r, LoadCandidate(r) PROVE ImportInv'
<1> DEFINE es == Load(store, MainKey(Project, r.session_id))
<1>1. /\ call.op = "resume" /\ call.at = "candidate"
      /\ store' = store /\ imports' = imports
  BY DEF LoadCandidate, Reads
<1>2. PICK S : call \in Resuming(S)
  BY <1>1, Forms DEF IInv
<1>3. call.picked = Absent /\ call.files = <<>>
  BY <1>1 DEF IInv, ResumeInv, SearchInv
<1>4. DiskMain[2] # Absent /\ DiskMain = MainKey(Project, DiskMain[2])
  BY DiskHolds
<1>5. ASSUME call' = [call EXCEPT !.candidates = @ \ {r}] PROVE ImportInv'
  <2>1. call'.op = "resume" /\ call'.picked = Absent
    BY <1>1, <1>2, <1>3, <1>5 DEF Resuming
  <2> QED
    BY <1>1, <1>4, <2>1, ReadingImport
<1>6. ASSUME call' = [call EXCEPT !.at = "subkeys", !.picked = r.session_id, !.main = es]
      PROVE  ImportInv'
  <2> HIDE DEF es
  <2>1. /\ call'.op = "resume" /\ call'.at = "subkeys" /\ call'.picked = r.session_id
        /\ call'.main = es /\ call'.files = <<>>
    BY <1>1, <1>2, <1>3, <1>6 DEF Resuming
  <2>2. ASSUME r.session_id = DiskMain[2] PROVE Resumed(store, call')
    <3>1. es = Stored(store, DiskMain)
      BY <1>4, <2>2 DEF es, Load
    <3>2. DOMAIN call'.files = {}
      BY <2>1
    <3> QED
      BY <2>1, <3>1, <3>2 DEF Resumed
  <2> QED
    BY <1>1, <2>1, <2>2, ReadingImport
<1> QED
  BY <1>5, <1>6 DEF LoadCandidate

\* The store lists the subagents that were imported, and no other.
LEMMA SubkeysImport == ASSUME IInv, ImportInv, ReadSubkeys PROVE ImportInv'
<1> DEFINE left == {p \in ListSubkeys(store, Project, call.picked) :
                      call.subkeys /\ SafeSubpath(p)}
<1>1. /\ call.op = "resume" /\ call.at = "subkeys"
      /\ call' = [call EXCEPT !.at = "subs", !.left = left]
      /\ store' = store /\ imports' = imports
  BY DEF ReadSubkeys, Reads
<1>2. PICK S : call \in Resuming(S)
  BY <1>1, Forms DEF IInv
<1>3. ASSUME imports.alone, imports.complete, call.picked = DiskMain[2]
      PROVE  /\ Resumed(store, call)
             /\ left = IF call.subkeys THEN Subpaths ELSE {}
  <2>1. Resumed(store, call) /\ FilesHeld(store, imports)
    BY <1>1, <1>3 DEF ImportInv, ImportOk
  <2>2. ListSubkeys(store, Project, DiskMain[2]) = Subpaths
    BY <1>3, <2>1, SubkeysAre DEF IInv
  <2>3. \A p \in Subpaths : SafeSubpath(p)
    BY SubpathsAre
  <2>4. left = {p \in Subpaths : call.subkeys /\ SafeSubpath(p)}
    BY <1>3, <2>2
  <2> HIDE DEF left
  <2>5. left = IF call.subkeys THEN Subpaths ELSE {}
    BY <2>3, <2>4
  <2> QED
    BY <2>1, <2>5
<1> HIDE DEF left
<1>4. /\ call'.op = "resume" /\ call'.at = "subs" /\ call'.left = left
      /\ call'.picked = call.picked /\ call'.main = call.main /\ call'.files = call.files
      /\ call'.subkeys = call.subkeys
  BY <1>1, <1>2 DEF Resuming
<1>5. ASSUME imports.alone, imports.complete, call'.picked = DiskMain[2]
      PROVE  Resumed(store, call')
  <2>1. Resumed(store, call) /\ left = IF call.subkeys THEN Subpaths ELSE {}
    BY <1>3, <1>4, <1>5
  <2>2. call.files = <<>>
    BY <1>1, <2>1 DEF Resumed
  <2>3. DOMAIN call'.files = {}
    BY <1>4, <2>2
  <2>4. call'.left \cup DOMAIN call'.files = IF call'.subkeys THEN Subpaths ELSE {}
    BY <1>4, <2>1, <2>3
  <2> QED
    BY <1>4, <2>1, <2>3, <2>4 DEF Resumed
<1> QED
  BY <1>1, <1>4, <1>5, ReadingImport

\* Of each something is stored, so that none is left out.
LEMMA SubkeyImport == ASSUME IInv, ImportInv, NEW p, LoadSubkey(p) PROVE ImportInv'
<1> DEFINE k == SubKey(Project, call.picked, p)
           es == Load(store, k)
           left == call.left \ {p}
           made == Materialized(es)
           files == IF HasEntries(es) THEN Put(call.files, p, made) ELSE call.files
<1>1. /\ call.op = "resume" /\ call.at = "subs" /\ p \in call.left
      /\ call' = [call EXCEPT !.left = left, !.files = files]
      /\ store' = store /\ imports' = imports
  BY DEF LoadSubkey, Reads
<1>2. PICK S : call \in Resuming(S)
  BY <1>1, Forms DEF IInv
<1> HIDE DEF files, left, made
<1>4. /\ call'.op = "resume" /\ call'.at = "subs" /\ call'.left = left
      /\ call'.picked = call.picked /\ call'.main = call.main /\ call'.files = files
      /\ call'.subkeys = call.subkeys
  BY <1>1, <1>2 DEF Resuming
<1>5. ASSUME imports.alone, imports.complete, call'.picked = DiskMain[2]
      PROVE  Resumed(store, call')
  <2>1. Resumed(store, call) /\ FilesHeld(store, imports)
    BY <1>1, <1>4, <1>5 DEF ImportInv, ImportOk
  <2>2. call.left \cup DOMAIN call.files = IF call.subkeys THEN Subpaths ELSE {}
    BY <1>1, <2>1 DEF Resumed
  <2>3. p \in Subpaths
    BY <1>1, <2>2
  <2>4. k \in DOMAIN Disk /\ Whole(k) # <<>>
    BY <1>4, <1>5, <2>3, SubpathsAre DEF WithPart
  <2>5. es = Stored(store, k)
    BY DEF Load
  <2>6. Ends(k, es, Len(Whole(k)), imports.tries)
    BY <1>5, <2>1, <2>4, <2>5 DEF FilesHeld
  <2>7. HasEntries(es)
    BY <2>4, <2>6, EndsShows DEF HasEntries
  <2>8. files = [q \in DOMAIN call.files \cup {p} |-> IF q = p THEN made ELSE call.files[q]]
    BY <2>7 DEF files, Put
  <2>9. DOMAIN files = DOMAIN call.files \cup {p}
    BY <2>8
  <2>10. left \cup DOMAIN files = IF call.subkeys THEN Subpaths ELSE {}
    BY <1>1, <2>2, <2>9 DEF left
  <2>11. ASSUME NEW q \in DOMAIN files
         PROVE  /\ q \in Subpaths
                /\ files[q] = Materialized(Stored(store, SubKey(Project, DiskMain[2], q)))
    <3>1. CASE q = p
      <4>1. files[q] = made
        BY <2>8, <2>9, <3>1
      <4>2. made = Materialized(Stored(store, SubKey(Project, DiskMain[2], p)))
        BY <1>4, <1>5, <2>5 DEF made
      <4> QED
        BY <2>3, <3>1, <4>1, <4>2
    <3>2. CASE q # p
      BY <2>1, <2>8, <2>9, <2>11, <3>2 DEF Resumed
    <3> QED
      BY <3>1, <3>2
  <2>12. call'.main = Stored(store, DiskMain)
    BY <1>4, <2>1 DEF Resumed
  <2> HIDE DEF k, es
  <2> QED
    BY <1>4, <2>10, <2>11, <2>12 DEF Resumed
<1> QED
  BY <1>1, <1>4, <1>5, ReadingImport

LEMMA MaterializeImport == ASSUME IInv, ImportInv, Materialize PROVE ImportInv'
<1>1. /\ call.op = "resume" /\ call.at = "subs" /\ call.left = {}
      /\ call' = [call EXCEPT !.at = "done"]
      /\ store' = store /\ imports' = imports
  BY DEF Materialize, Reads
<1>2. PICK S : call \in Resuming(S)
  BY <1>1, Forms DEF IInv
<1>3. /\ call'.op = "resume" /\ call'.at = "done" /\ call'.left = call.left
      /\ call'.picked = call.picked /\ call'.main = call.main /\ call'.files = call.files
      /\ call'.subkeys = call.subkeys
  BY <1>1, <1>2 DEF Resuming
<1>4. ASSUME imports.alone, imports.complete, call'.picked = DiskMain[2]
      PROVE  Resumed(store, call')
  <2>1. Resumed(store, call)
    BY <1>1, <1>3, <1>4 DEF ImportInv, ImportOk
  <2> QED
    BY <1>1, <1>3, <2>1 DEF Resumed
<1> QED
  BY <1>1, <1>3, <1>4, ReadingImport

-----------------------------------------------------------------------------
(* What is imported is resumed *)

\* A listing, and a call that fails, are neither an import under way nor a resume.
LEMMA ListsImport ==
    ASSUME IInv, ImportInv,
           \/ \E limit \in Limits : \E caps \in Adapters : List(limit, caps)
           \/ ReadSummaries \/ ReadListing \/ Listed
           \/ \E i \in 1..Cardinality(Sessions) : LoadGap(i) \/ LoadGapFails(i)
           \/ ReadFails \/ ImportFails
    PROVE  ImportInv'
<1>1. SameFiles(store, store)
  BY DEF SameFiles
<1>2. ASSUME NEW limit, NEW caps, List(limit, caps) PROVE ImportInv'
  <2>1. store' = store /\ imports' = imports /\ call'.op = "list"
    BY <1>2 DEF List, Begin
  <2> QED
    BY <1>1, <2>1, OthersKeep
<1>3. ASSUME ReadSummaries \/ ReadListing \/ Listed PROVE ImportInv'
  <2>1. store' = store /\ imports' = imports
    BY <1>3 DEF ReadSummaries, ReadListing, Listed, Reads
  <2>2. ReadSummaries => call'.op = "list"
    <3> SUFFICES ASSUME ReadSummaries PROVE call'.op = "list"
      OBVIOUS
    <3>1. PICK S : call \in Opening(S)
      BY Forms DEF IInv, ReadSummaries
    <3>2. \/ call' = [call EXCEPT !.at = "sessions",
                                  !.sums = ListSessionSummaries(store, Project)]
          \/ call' = Opened(call, ListSessionSummaries(store, Project), {})
      BY DEF ReadSummaries
    <3>3. call' = [call EXCEPT !.at = "sessions",
                               !.sums = ListSessionSummaries(store, Project)]
            => call'.op = "list"
      BY <3>1 DEF Opening
    <3>4. \A c, sums, listing : Opened(c, sums, listing).op = "list"
      BY DEF Opened
    <3> QED
      BY <3>2, <3>3, <3>4
  <2>3. ReadListing => call'.op = "list"
    BY DEF ReadListing, Opened
  <2>4. Listed => call'.op = "list"
    BY DEF Listed
  <2> QED
    BY <1>1, <1>3, <2>1, <2>2, <2>3, <2>4, OthersKeep
<1>4. ASSUME NEW i, LoadGap(i) \/ LoadGapFails(i) PROVE ImportInv'
  <2>1. store' = store /\ imports' = imports /\ call.op = "list" /\ call.at = "load"
    BY <1>4 DEF LoadGap, LoadGapFails, Reads
  <2>2. PICK S : call \in Loading(S)
    BY <2>1, Forms DEF IInv
  <2>3. call'.op = "list"
    <3>1. \E x : call' = [call EXCEPT !.page[i].info = x]
      BY <1>4 DEF LoadGap, LoadGapFails
    <3> QED
      BY <2>2, <3>1 DEF Loading
  <2> QED
    BY <1>1, <2>1, <2>3, OthersKeep
<1>5. ASSUME ReadFails \/ ImportFails PROVE ImportInv'
  <2>1. store' = store /\ imports' = imports /\ call'.op = "failed"
    BY <1>5 DEF ReadFails, ImportFails
  <2> QED
    BY <1>1, <2>1, OthersKeep
<1> QED
  BY <1>2, <1>3, <1>4, <1>5

\* Every step keeps what ImportInv says.
LEMMA ImportStep == IInv /\ ImportInv /\ [Next]_vars => ImportInv'
<1> SUFFICES ASSUME IInv, ImportInv, [Next]_vars PROVE ImportInv'
  OBVIOUS
<1>1. CASE UNCHANGED vars
  BY <1>1 DEF vars, ImportInv
<1>2. CASE Next
  <2> DEFINE Kept == ImportInv'
  <2>1. /\ Mirror => Kept
        /\ \A s \in Sessions : (Delete(s) \/ \E t \in Titles : Rename(s, t)) => Kept
        /\ \A s \in Sessions : (\E t \in Tags : TagSession(s, t)) => Kept
    BY WritersImport
  <2>2. /\ \A limit \in Limits : \A caps \in Adapters : List(limit, caps) => Kept
        /\ ReadSummaries \/ ReadListing \/ Listed => Kept
        /\ \A i \in 1..Cardinality(Sessions) : LoadGap(i) \/ LoadGapFails(i) => Kept
        /\ ReadFails \/ ImportFails => Kept
    BY ListsImport
  <2>3. /\ \A s \in Sessions \cup {Absent}, caps \in Adapters : Resume(s, caps) => Kept
        /\ ReadCandidates \/ NothingToResume => Kept
        /\ \A r : LoadCandidate(r) => Kept
    BY BeginResumeImport, SearchImport, CandidateImport
  <2>4. /\ ReadSubkeys \/ Materialize => Kept
        /\ \A p : LoadSubkey(p) => Kept
    BY SubkeysImport, SubkeyImport, MaterializeImport
  <2>5. Import \/ ImportAppend \/ ImportSubagent \/ Imported => Kept
    BY BeginImport, AppendImport, SubagentImport, ImportedImport
  <2> HIDE DEF Kept
  <2>6. Kept
    BY <1>2, <2>1, <2>2, <2>3, <2>4, <2>5 DEF Next
  <2> QED
    BY <2>6 DEF Kept
<1> QED
  BY <1>1, <1>2

LEMMA ImportInvariance == Spec => []ImportInv
<1>1. Init => ImportInv
  <2> SUFFICES ASSUME Init PROVE ImportInv
    OBVIOUS
  <2>1. /\ imports = [tries |-> 0, alone |-> TRUE, complete |-> FALSE]
        /\ call.op = "none"
    BY DEF Init, Idle
  <2>2. store.data = <<>> /\ DOMAIN store.data = {}
    BY DEF Init, EmptyStore
  <2>3. \A k : Stored(store, k) = <<>>
    BY <2>2 DEF Stored
  <2>4. \A k \in DOMAIN Disk : Ends(k, <<>>, 0, imports.tries) /\ 0 \in 0..Len(Whole(k))
    <3>1. \A k \in DOMAIN Disk : Len(Whole(k)) \in Nat
      BY WholeIs DEF IsWhole
    <3> QED
      BY <3>1, EndsNothing
  <2>5. FilesHeld(store, imports)
    BY <2>1, <2>2, <2>3, <2>4 DEF FilesHeld
  <2>6. ImportOk(store, call, imports)
    BY <2>1, <2>5 DEF ImportOk
  <2> QED
    BY <2>6 DEF ImportInv
<1> QED
  BY <1>1, Invariance, ImportStep, PTL DEF Spec

\* What a resume of the imported session that ended returned is what
\* ImportedSessionResumes says.
LEMMA ImportedRight == IInv /\ ImportInv => ImportedSessionResumes
<1> SUFFICES ASSUME IInv, ImportInv, call.op = "resume", call.at = "done",
                    call.picked = DiskMain[2], imports.alone, imports.complete
             PROVE  ImportedSessionResumes
  BY DEF ImportedSessionResumes
<1> DEFINE file(p) == Disk[SubKey(Project, call.picked, p)]
           kept == {k \in DOMAIN Disk \ {DiskMain} : ImportsOf(k) # <<>>}
           subpaths == {SubSeq(k, 3, Len(k)) : k \in kept}
<1>1. FilesHeld(store, imports) /\ Resumed(store, call)
  BY DEF ImportInv, ImportOk
<1>2. \A k \in DOMAIN Disk : Ends(k, Stored(store, k), Len(Whole(k)), imports.tries)
  BY <1>1 DEF FilesHeld
<1>3. kept = WithPart
  BY ImportsSome DEF WithPart
<1>4. subpaths = Subpaths
  BY <1>3 DEF Subpaths
<1>5. Same(Disk[DiskMain].lines, call.main, imports.tries)
  BY <1>1, <1>2, DiskHolds, EndsShows DEF Resumed
<1>6. DOMAIN call.files = IF call.subkeys THEN Subpaths ELSE {}
  <2>1. /\ call.left = {}
        /\ call.left \cup DOMAIN call.files = IF call.subkeys THEN Subpaths ELSE {}
    BY <1>1 DEF Resumed
  <2> QED
    BY <2>1
<1>7. Subagents(store, Project, call.picked) = {Last(p) : p \in Subpaths}
  <2>1. ListSubkeys(store, Project, call.picked) = Subpaths
    BY <1>1, SubkeysAre DEF IInv
  <2>2. {q \in Subpaths : IsAgentPath(q)} = Subpaths
    BY SubpathsAre
  <2> QED
    BY <2>1, <2>2 DEF Subagents
<1>8. ASSUME NEW p \in DOMAIN call.files
      PROVE  /\ Same(file(p).lines, call.files[p].lines, imports.tries)
             /\ call.files[p].meta = IF file(p).meta = NoMeta THEN NoMeta
                                     ELSE Without(file(p).meta, "type")
  <2> DEFINE k == SubKey(Project, call.picked, p)
             es == Stored(store, k)
  <2>1. p \in Subpaths /\ call.files[p] = Materialized(es)
    BY <1>1 DEF Resumed
  <2>2. k \in DOMAIN Disk
    BY <2>1, SubpathsAre DEF WithPart
  <2>3. Ends(k, es, Len(Whole(k)), imports.tries)
    BY <1>2, <2>2
  <2> HIDE DEF k, es
  <2>4. /\ Same(Disk[k].lines, Materialized(es).lines, imports.tries)
        /\ Materialized(es).meta = IF Disk[k].meta = NoMeta THEN NoMeta
                                   ELSE Without(Disk[k].meta, "type")
    BY <2>2, <2>3, EndsShows
  <2> QED
    BY <2>1, <2>4 DEF k
<1> HIDE DEF subpaths
<1>9. /\ DOMAIN call.files = IF call.subkeys THEN subpaths ELSE {}
      /\ Subagents(store, Project, call.picked) = {Last(p) : p \in subpaths}
  BY <1>4, <1>6, <1>7
<1> QED
  BY <1>5, <1>8, <1>9 DEF ImportedSessionResumes, Same, subpaths

-----------------------------------------------------------------------------
(* The theorems *)

\* THEOREM: however mirrors, renames, tags, deletes and imports of any batches follow
\* one another, in_memory.rs keeps the contracts that conformance.rs tests on a few
\* calls: an append adds to one transcript, makes its session the newest and moves
\* no other; a delete takes the session, its subagents and its summary and nothing
\* else; a listing names what a load finds.
THEOREM StoreConforms == Spec => []Conforms
<1> QED
  BY Invariance, ContractsHold, PTL DEF IInv

\* THEOREM: summary.rs folds batch by batch, and the store stamps what it folds; after
\* any appends, renames, tags, deletes and imports the summaries are those of the
\* sessions that are there, each the fold of the whole transcript in one go, with the
\* time of its last write.
THEOREM SummariesFold == Spec => []SummariesCurrent
<1> QED
  BY Invariance, FoldsHold, PTL DEF IInv

\* THEOREM: "disk and store paths produce identical results for the same transcript
\* content": what summary.rs shows of a session, folded batch by batch, is what the lite
\* parse of filesystem.rs shows of its transcript, field by field apart from the tag, for
\* transcripts of any length up to the window of the parse and with any entries that have
\* no empty field and nest none of the keys the parse looks for.
THEOREM SummariesAgree == Spec => []SummariesMatch
<1> QED
  BY Invariance, ParsesMatch, PTL DEF IInv

\* THEOREM: whatever others write between two reads of resume.rs, a continue ends
\* with a session that is no sidechain, all newer ones of its listing having been
\* seen empty, deleted or a sidechain; and each transcript of the tree is one the
\* store held under its key during the call.
THEOREM ContinuesNewest == Spec => []ResumesNewestConversation
<1> QED
  BY Invariance, PickedRight, PTL

\* THEOREM: store_queries.rs reads summaries, enumerates the sessions and loads what is
\* missing while others write; a session deleted by the enumeration is not listed, one
\* written to since its summary was read is not shown as it was, each is listed once,
\* the latest first, and without a limit none is missed that was there throughout with
\* something to show.
THEOREM ListsSinceEnumeration == Spec => []ListedSinceEnumeration
<1> QED
  BY ListInvariance, RowsAreRight, PTL

\* THEOREM: "The inverse of resume materialization": import.rs appends file by file and
\* batch by batch, resume.rs reads key by key, and others write to other sessions in
\* between; for any files, sidecars, batch size and number of tries that failed before,
\* a resume of the session puts on disk what was there, all subagents with their
\* sidecars if the store can list them: each transcript as it was after one try, else
\* ending with all its lines.
THEOREM ImportsResume == Spec => []ImportedSessionResumes
<1> QED
  BY Invariance, ImportInvariance, ImportedRight, PTL
=============================================================================
