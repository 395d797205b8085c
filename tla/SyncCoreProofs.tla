---------------------------- MODULE SyncCoreProofs ----------------------------
(***************************************************************************)
(* Lemmas about SyncCore, for arguments of any length.                      *)
(*                                                                          *)
(* Retained history: what filtering, sorting, push_history_snapshot,        *)
(* merge_history and a rollback make of it.                                 *)
(*                                                                          *)
(* The reference index: what ChainLogs and Ideal are, for any chain and any *)
(* sources, without the folds they are computed with.                       *)
(***************************************************************************)
EXTENDS SyncCore, TLAPS, WellFoundedInduction, FiniteSetTheorems, FunctionTheorems

\* Every nonempty set of naturals has a least element: what takes the place of
\* induction here, a counterexample having a least one.
LEMMA LeastElement ==
  ASSUME NEW S \in SUBSET Nat, S # {}
  PROVE  \E n \in S : \A m \in S : n <= m
  <1>1. IsWellFoundedOn(OpToRel(<, Nat), Nat)
    BY NatLessThanWellFounded
  <1>2. PICK n \in S : \A m \in S : ~(<<m, n>> \in OpToRel(<, Nat))
    BY <1>1, WFMin
  <1>3. \A m \in S : ~(m < n)
    BY <1>2 DEF OpToRel
  <1> QED
    BY <1>3

(***************************************************************************)
(* Order.                                                                   *)
(***************************************************************************)
\* i comes before j.
Precedes(key, i, j) == key[i] < key[j] \/ (key[i] = key[j] /\ i < j)

\* The indices up to j.
UpTo(I, key, j) == {i \in I : key[i] < key[j] \/ (key[i] = key[j] /\ i <= j)}

\* Indices are ranked one by one.
LEMMA Ranks ==
  ASSUME NEW I \in SUBSET Int, IsFiniteSet(I), NEW key, \A i \in I : key[i] \in Int
  PROVE  /\ \A j \in I : Cardinality(UpTo(I, key, j)) \in 1 .. Cardinality(I)
         /\ \A i, j \in I : Precedes(key, i, j) =>
               Cardinality(UpTo(I, key, i)) < Cardinality(UpTo(I, key, j))
         /\ \A k \in 1 .. Cardinality(I) :
               \E j \in I : Cardinality(UpTo(I, key, j)) = k
  <1> DEFINE n == Cardinality(I)
             rank == [j \in I |-> Cardinality(UpTo(I, key, j))]
  <1>0. n \in Nat
    BY FS_CardinalityType
  <1>1. ASSUME NEW j \in I
        PROVE  /\ IsFiniteSet(UpTo(I, key, j)) /\ j \in UpTo(I, key, j)
               /\ Cardinality(UpTo(I, key, j)) \in 1 .. n
    <2>1. UpTo(I, key, j) \in SUBSET I /\ j \in UpTo(I, key, j)
      BY DEF UpTo
    <2>2. IsFiniteSet(UpTo(I, key, j)) /\ Cardinality(UpTo(I, key, j)) <= n
      BY <2>1, FS_Subset
    <2> DEFINE up == UpTo(I, key, j)
    <2> HIDE DEF up
    <2>3. Cardinality(up) \in Nat
      BY <2>2, FS_CardinalityType DEF up
    <2>4. IsFiniteSet(up) /\ up # {}
      BY <2>1, <2>2 DEF up
    <2>5. Cardinality(up) # 0
      BY <2>4, FS_EmptySet
    <2> QED
      BY <1>0, <2>1, <2>2, <2>3, <2>5 DEF up
  <1>2. ASSUME NEW i \in I, NEW j \in I, Precedes(key, i, j)
        PROVE  Cardinality(UpTo(I, key, i)) < Cardinality(UpTo(I, key, j))
    <2>1. UpTo(I, key, i) \in SUBSET UpTo(I, key, j)
      <3> SUFFICES ASSUME NEW m \in UpTo(I, key, i) PROVE m \in UpTo(I, key, j)
        OBVIOUS
      <3>1. m \in I /\ (key[m] < key[i] \/ (key[m] = key[i] /\ m <= i))
        BY DEF UpTo
      <3>2. key[m] \in Int /\ key[i] \in Int /\ key[j] \in Int /\ m \in Int /\ i \in Int /\ j \in Int
        BY <3>1
      <3>3. key[m] < key[j] \/ (key[m] = key[j] /\ m <= j)
        BY <1>2, <3>1, <3>2 DEF Precedes
      <3> QED
        BY <3>1, <3>3 DEF UpTo
    <2>2. j \notin UpTo(I, key, i)
      BY <1>2 DEF UpTo, Precedes
    <2>3. Cardinality(UpTo(I, key, i)) # Cardinality(UpTo(I, key, j))
      BY <1>1, <2>1, <2>2, FS_Subset
    <2>4. Cardinality(UpTo(I, key, i)) <= Cardinality(UpTo(I, key, j))
      BY <1>1, <2>1, FS_Subset
    <2> QED
      BY <1>0, <1>1, <2>3, <2>4
  <1>3. \A i, j \in I : i # j => Precedes(key, i, j) \/ Precedes(key, j, i)
    BY DEF Precedes
  <1>4. rank \in [I -> 1 .. n]
    BY <1>1
  <1>5. \A i, j \in I : rank[i] = rank[j] => i = j
    BY <1>0, <1>1, <1>2, <1>3
  <1> HIDE DEF rank, n
  <1>6. rank \in Injection(I, 1 .. n)
    BY <1>4, <1>5, Fun_IsInj
  <1>7. IsFiniteSet(1 .. n) /\ Cardinality(1 .. n) = n
    BY <1>0, FS_Interval
  <1>8. rank \in Surjection(I, 1 .. n)
    BY <1>6, <1>7, FS_Injection DEF n
  <1>9. \A k \in 1 .. n : \E j \in I : rank[j] = k
    BY <1>8, Fun_SurjectionProperties
  <1> QED
    BY <1>1, <1>2, <1>9 DEF rank, n

\* InOrder lists every index once, in the order of the keys.
LEMMA InOrderFacts ==
  ASSUME NEW I \in SUBSET Int, IsFiniteSet(I), NEW key, \A i \in I : key[i] \in Int
  PROVE  /\ Cardinality(I) \in Nat
         /\ InOrder(I, key) \in [1 .. Cardinality(I) -> I]
         /\ \A j \in I : \E k \in 1 .. Cardinality(I) : InOrder(I, key)[k] = j
         /\ \A k, l \in 1 .. Cardinality(I) :
               k < l => Precedes(key, InOrder(I, key)[k], InOrder(I, key)[l])
  <1> DEFINE n == Cardinality(I)
             at == InOrder(I, key)
  <1>0. n \in Nat
    BY FS_CardinalityType
  <1>1. at = [k \in 1 .. n |-> CHOOSE j \in I : Cardinality(UpTo(I, key, j)) = k]
    BY DEF InOrder, UpTo
  <1>2. PICK rank : /\ rank \in [I -> 1 .. n]
                    /\ \A i, j \in I : Precedes(key, i, j) => rank[i] < rank[j]
                    /\ \A k \in 1 .. n : at[k] \in I /\ rank[at[k]] = k
    <2>1. WITNESS [j \in I |-> Cardinality(UpTo(I, key, j))]
    <2> QED
      BY <1>1, Ranks
  <1> HIDE DEF at
  <1>3. at \in [1 .. n -> I]
    BY <1>1, <1>2
  <1>4. \A i, j \in I : i = j \/ Precedes(key, i, j) \/ Precedes(key, j, i)
    BY DEF Precedes
  <1>5. ASSUME NEW j \in I PROVE \E k \in 1 .. n : at[k] = j
    <2>1. rank[j] \in 1 .. n
      BY <1>2
    <2>2. PICK i \in I : i = at[rank[j]] /\ rank[i] = rank[j]
      BY <1>2, <2>1
    <2>3. rank[j] \in Int /\ ~(rank[j] < rank[j])
      BY <1>0, <2>1
    <2>4. ~Precedes(key, i, j) /\ ~Precedes(key, j, i)
      BY <1>2, <2>2, <2>3
    <2> QED
      BY <1>4, <2>1, <2>2, <2>4
  <1>6. ASSUME NEW k \in 1 .. n, NEW l \in 1 .. n, k < l
        PROVE  Precedes(key, at[k], at[l])
    <2>1. /\ at[k] \in I /\ at[l] \in I /\ rank[at[k]] = k /\ rank[at[l]] = l
          /\ ~(l < k) /\ l # k
      BY <1>0, <1>2, <1>6
    <2>2. at[k] # at[l] /\ ~Precedes(key, at[l], at[k])
      BY <1>2, <2>1
    <2> QED
      BY <1>4, <2>1, <2>2
  <1> QED
    BY <1>0, <1>3, <1>5, <1>6 DEF at

(***************************************************************************)
(* Sequences.                                                               *)
(***************************************************************************)
\* A sequence, of whatever elements it has.
IsList(s) == s \in Seq(Range(s))

LEMMA ListFacts ==
  ASSUME NEW s, IsList(s)
  PROVE  /\ Len(s) \in Nat /\ DOMAIN s = 1 .. Len(s)
         /\ s = [i \in 1 .. Len(s) |-> s[i]]
         /\ IsFiniteSet(DOMAIN s)
         /\ \A i \in DOMAIN s : s[i] \in Range(s)
  <1>1. Len(s) \in Nat /\ DOMAIN s = 1 .. Len(s) /\ s = [i \in 1 .. Len(s) |-> s[i]]
    BY DEF IsList
  <1> QED
    BY <1>1, FS_Interval DEF Range

\* A function on 1 .. n is a sequence.
LEMMA FunctionIsList ==
  ASSUME NEW n \in Nat, NEW s, DOMAIN s = 1 .. n, s = [i \in 1 .. n |-> s[i]]
  PROVE  IsList(s) /\ Len(s) = n
  <1>1. s \in [1 .. n -> Range(s)]
    BY DEF Range
  <1> HIDE DEF Range
  <1>2. s \in Seq(Range(s)) /\ Len(s) = n
    BY <1>1
  <1> QED
    BY <1>2 DEF IsList

\* KeepOnly keeps the elements of the set, and their order.
LEMMA KeepOnlyFacts ==
  ASSUME NEW s, IsList(s), NEW S
  PROVE  /\ IsList(KeepOnly(s, S)) /\ Len(KeepOnly(s, S)) <= Len(s)
         /\ Range(KeepOnly(s, S)) = Range(s) \cap S
         /\ \A k, l \in DOMAIN KeepOnly(s, S) : k < l =>
               \E a, b \in DOMAIN s :
                  a < b /\ KeepOnly(s, S)[k] = s[a] /\ KeepOnly(s, S)[l] = s[b]
  <1> DEFINE kept == {i \in DOMAIN s : s[i] \in S}
             key == [i \in kept |-> i]
             at == InOrder(kept, key)
             n == Cardinality(kept)
             t == KeepOnly(s, S)
  <1>1. Len(s) \in Nat /\ DOMAIN s = 1 .. Len(s) /\ IsFiniteSet(DOMAIN s)
    BY ListFacts
  <1>2. kept \in SUBSET Int /\ IsFiniteSet(kept) /\ \A i \in kept : key[i] \in Int
    BY <1>1, FS_Subset
  <1>3. t = [k \in DOMAIN at |-> s[at[k]]]
    BY DEF KeepOnly
  <1>4. \A i, j : Precedes(key, i, j) /\ i \in kept /\ j \in kept => i < j
    BY <1>1 DEF Precedes
  <1>k. \A i : i \in kept <=> i \in DOMAIN s /\ s[i] \in S
    OBVIOUS
  <1> HIDE DEF kept, key, at, n, t
  <1>5. /\ n \in Nat /\ at \in [1 .. n -> kept]
        /\ \A j \in kept : \E k \in 1 .. n : at[k] = j
        /\ \A k, l \in 1 .. n : k < l => Precedes(key, at[k], at[l])
    BY <1>2, InOrderFacts DEF n, at
  <1>6. DOMAIN t = 1 .. n /\ t = [k \in 1 .. n |-> t[k]] /\ \A k \in 1 .. n : t[k] = s[at[k]]
    BY <1>3, <1>5
  <1>7. IsList(t) /\ Len(t) = n
    BY <1>5, <1>6, FunctionIsList
  <1>7a. n <= Len(s)
    <2>1. kept \subseteq DOMAIN s
      BY <1>k
    <2>2. Cardinality(kept) <= Cardinality(DOMAIN s)
      BY <1>1, <2>1, FS_Subset
    <2> QED
      BY <1>1, <2>2, FS_Interval DEF n
  <1>8. Range(t) = Range(s) \cap S
    BY <1>5, <1>6, <1>k DEF Range
  <1>9. ASSUME NEW k \in 1 .. n, NEW l \in 1 .. n, k < l
        PROVE  \E a, b \in DOMAIN s : a < b /\ t[k] = s[a] /\ t[l] = s[b]
    <2>1. at[k] \in kept /\ at[l] \in kept /\ at[k] < at[l]
      BY <1>4, <1>5, <1>9
    <2> QED
      BY <1>6, <1>k, <2>1
  <1> QED
    BY <1>6, <1>7, <1>7a, <1>8, <1>9 DEF t

(***************************************************************************)
(* Retained histories.                                                      *)
(***************************************************************************)
\* Every entry has a block number.
Numbered(s) == \A i \in DOMAIN s : s[i].ckpt.to \in Int

\* One entry per block, in block order.
Ordered(s) == \A i, j \in DOMAIN s : i < j => s[i].ckpt.to < s[j].ckpt.to

IsHistory(s) == IsList(s) /\ Numbered(s) /\ Ordered(s)

\* Sorting keeps the entries; entries of different blocks end up in order.
LEMMA SortFacts ==
  ASSUME NEW s, IsList(s), Numbered(s),
         \A i, j \in DOMAIN s : i # j => s[i].ckpt.to # s[j].ckpt.to
  PROVE  /\ IsHistory(SortByToBlock(s))
         /\ Len(SortByToBlock(s)) = Len(s)
         /\ Range(SortByToBlock(s)) = Range(s)
  <1> DEFINE key == [i \in DOMAIN s |-> s[i].ckpt.to]
             at == InOrder(DOMAIN s, key)
             n == Len(s)
             t == SortByToBlock(s)
  <1>1. n \in Nat /\ DOMAIN s = 1 .. n /\ IsFiniteSet(DOMAIN s)
    BY ListFacts
  <1>2. DOMAIN s \in SUBSET Int /\ \A i \in DOMAIN s : key[i] \in Int
    BY <1>1 DEF Numbered
  <1>3. Cardinality(DOMAIN s) = n
    BY <1>1, FS_Interval
  <1>4. t = [k \in DOMAIN at |-> s[at[k]]]
    BY DEF SortByToBlock
  <1>5. \A i \in DOMAIN s : key[i] = s[i].ckpt.to
    OBVIOUS
  <1> HIDE DEF key, at, n, t
  <1>6. /\ at \in [1 .. n -> DOMAIN s]
        /\ \A j \in DOMAIN s : \E k \in 1 .. n : at[k] = j
        /\ \A k, l \in 1 .. n : k < l => Precedes(key, at[k], at[l])
    <2> DEFINE D == DOMAIN s
    <2>1. D \in SUBSET Int /\ IsFiniteSet(D) /\ \A i \in D : key[i] \in Int
      BY <1>1, <1>2
    <2> HIDE DEF D
    <2>2. /\ InOrder(D, key) \in [1 .. Cardinality(D) -> D]
          /\ \A j \in D : \E k \in 1 .. Cardinality(D) : InOrder(D, key)[k] = j
          /\ \A k, l \in 1 .. Cardinality(D) :
                k < l => Precedes(key, InOrder(D, key)[k], InOrder(D, key)[l])
      BY <2>1, InOrderFacts
    <2>3. Cardinality(D) = n /\ at = InOrder(D, key)
      BY <1>3 DEF at, D
    <2> QED
      BY <2>2, <2>3 DEF D
  <1>7. DOMAIN t = 1 .. n /\ t = [k \in 1 .. n |-> t[k]] /\ \A k \in 1 .. n : t[k] = s[at[k]]
    BY <1>4, <1>6
  <1>8. IsList(t) /\ Len(t) = n
    BY <1>1, <1>7, FunctionIsList
  <1>9. Range(t) = Range(s)
    BY <1>6, <1>7 DEF Range
  <1>10. Numbered(t)
    BY <1>6, <1>7 DEF Numbered
  <1>11. ASSUME NEW k \in 1 .. n, NEW l \in 1 .. n, k < l
         PROVE  t[k].ckpt.to < t[l].ckpt.to
    <2>1. /\ at[k] \in DOMAIN s /\ at[l] \in DOMAIN s
          /\ Precedes(key, at[k], at[l])
      BY <1>6, <1>11
    <2>2. at[k] # at[l] => key[at[k]] # key[at[l]]
      BY <1>5, <2>1
    <2>3. at[k] \in Int /\ at[l] \in Int
      BY <1>1, <2>1
    <2>4. key[at[k]] < key[at[l]]
      BY <2>1, <2>2, <2>3 DEF Precedes
    <2> QED
      BY <1>5, <1>7, <2>1, <2>4
  <1>12. Ordered(t)
    BY <1>7, <1>11 DEF Ordered
  <1> QED
    BY <1>8, <1>9, <1>10, <1>12 DEF IsHistory, t, n

\* retain and push leave one entry per block.
LEMMA ReplacingFacts ==
  ASSUME NEW h, IsHistory(h), NEW e, e.ckpt.to \in Int
  PROVE  LET r == Replacing(h, e)
         IN  /\ IsList(r) /\ Numbered(r) /\ Len(r) \in Nat \ {0}
             /\ \A i, j \in DOMAIN r : i # j => r[i].ckpt.to # r[j].ckpt.to
             /\ Range(r) \subseteq Range(h) \cup {e}
             /\ e \in Range(r)
  <1> DEFINE S == {x \in Range(h) : x.ckpt.to # e.ckpt.to}
             others == KeepOnly(h, S)
             n == Len(others)
             r == Replacing(h, e)
  <1>0. IsList(h) /\ Numbered(h) /\ Ordered(h)
    BY DEF IsHistory
  <1>s. \A x \in S : x.ckpt.to # e.ckpt.to
    OBVIOUS
  <1>2. r = Append(others, e)
    BY DEF Replacing
  <1> HIDE DEF S
  <1>1. /\ IsList(others)
        /\ Range(others) = Range(h) \cap S
        /\ \A k, l \in DOMAIN others : k < l =>
               \E a, b \in DOMAIN h : a < b /\ others[k] = h[a] /\ others[l] = h[b]
    BY <1>0, KeepOnlyFacts
  <1>3. \A x \in Range(others) : x \in Range(h) /\ x.ckpt.to # e.ckpt.to /\ x.ckpt.to \in Int
    BY <1>0, <1>s, <1>1 DEF Numbered, Range
  <1> HIDE DEF others, r, n
  <1>4. /\ n \in Nat /\ DOMAIN others = 1 .. n /\ others \in Seq(Range(others))
        /\ \A i \in 1 .. n : others[i] \in Range(others)
    BY <1>1, ListFacts DEF n, IsList
  <1>5. r \in Seq(Range(others) \cup {e}) /\ Len(r) = n + 1 /\ DOMAIN r = 1 .. n + 1
        /\ r[n + 1] = e /\ \A i \in 1 .. n : r[i] = others[i]
    <2> DEFINE V == Range(others) \cup {e}
    <2>1. others \in Seq(V) /\ e \in V
      BY <1>4
    <2> HIDE DEF V
    <2>2. Append(others, e) \in Seq(V) /\ Len(Append(others, e)) = n + 1
      BY <2>1 DEF n
    <2>3. /\ Append(others, e)[n + 1] = e
          /\ \A i \in 1 .. n : Append(others, e)[i] = others[i]
      BY <1>4, <2>1 DEF n
    <2> QED
      BY <1>2, <1>4, <2>2, <2>3 DEF V
  <1>6. IsList(r)
    BY <1>4, <1>5, FunctionIsList
  <1>7. ASSUME NEW i \in DOMAIN r
        PROVE  r[i].ckpt.to \in Int /\ r[i] \in Range(h) \cup {e}
    BY <1>3, <1>4, <1>5
  <1>8. \A k, l \in 1 .. n : k < l => others[k].ckpt.to # others[l].ckpt.to
    BY <1>0, <1>1, <1>4 DEF Ordered, Numbered
  <1>9. ASSUME NEW i \in DOMAIN r, NEW j \in DOMAIN r, i < j
        PROVE  r[i].ckpt.to # r[j].ckpt.to
    <2>1. CASE j = n + 1
      BY <1>3, <1>4, <1>5, <1>9, <2>1
    <2>2. CASE j # n + 1
      BY <1>4, <1>5, <1>8, <1>9, <2>2
    <2> QED
      BY <2>1, <2>2
  <1>10. \A i, j \in DOMAIN r : i # j => i < j \/ j < i
    BY <1>4, <1>5
  <1>11. e \in Range(r) /\ Range(r) \subseteq Range(h) \cup {e}
    BY <1>4, <1>5, <1>7 DEF Range
  <1> QED
    BY <1>4, <1>5, <1>6, <1>7, <1>9, <1>10, <1>11 DEF Numbered, r

\* push_history_snapshot: a history again, within the limit, that ends with the
\* new entry when no other entry is of a later block.
LEMMA PushFacts ==
  ASSUME NEW h, IsHistory(h), NEW e, e.ckpt.to \in Int, NEW limit \in Nat
  PROVE  LET p == PushHistorySnapshot(h, e, limit)
         IN  /\ IsHistory(p) /\ Len(p) \in Nat \ {0}
             /\ Range(p) \subseteq Range(h) \cup {e}
             /\ limit > 0 => Len(p) <= limit
             /\ (\A x \in Range(h) : x.ckpt.to <= e.ckpt.to) => p[Len(p)] = e
  <1> DEFINE r == Replacing(h, e)
             all == SortByToBlock(r)
             n == Len(all)
             excess == IF limit > 0 THEN MaxOf(n - limit, 0) ELSE 0
             p == PushHistorySnapshot(h, e, limit)
  <1>1. /\ IsList(r) /\ Numbered(r) /\ Len(r) \in Nat \ {0}
        /\ \A i, j \in DOMAIN r : i # j => r[i].ckpt.to # r[j].ckpt.to
        /\ Range(r) \subseteq Range(h) \cup {e}
        /\ e \in Range(r)
    BY ReplacingFacts
  <1>2. p = SubSeq(all, excess + 1, n)
    <2>1. p \in {SubSeq(all, excess + 1, n)}
      BY DEF PushHistorySnapshot
    <2> QED
      BY <2>1
  <1> HIDE DEF r
  <1>3. IsHistory(all) /\ n = Len(r) /\ Range(all) = Range(r)
    BY <1>1, SortFacts
  <1> HIDE DEF all, n, p
  <1>4. n \in Nat \ {0} /\ excess \in 0 .. n - 1 /\ (limit > 0 => n - excess <= limit)
    BY <1>1, <1>3 DEF MaxOf
  <1> HIDE DEF excess
  <1>5. /\ IsList(all) /\ Numbered(all) /\ Ordered(all)
        /\ DOMAIN all = 1 .. n /\ \A i \in 1 .. n : all[i] \in Range(all)
    BY <1>3, ListFacts DEF IsHistory, n
  <1>6. /\ DOMAIN p = 1 .. n - excess
        /\ p = [i \in 1 .. n - excess |-> p[i]]
        /\ \A i \in 1 .. n - excess : p[i] = all[i + excess]
    <2> DEFINE V == Range(all)
    <2>1. all \in Seq(V)
      BY <1>5 DEF IsList
    <2> HIDE DEF V
    <2>2. /\ SubSeq(all, excess + 1, n) \in Seq(V)
          /\ Len(SubSeq(all, excess + 1, n)) = n - excess
          /\ \A i \in 1 .. n - excess : SubSeq(all, excess + 1, n)[i] = all[i + excess]
      BY <1>4, <2>1 DEF n
    <2> DEFINE q == SubSeq(all, excess + 1, n)
    <2> HIDE DEF q
    <2>3. DOMAIN q = 1 .. n - excess /\ q = [i \in 1 .. n - excess |-> q[i]]
      BY <1>4, <2>2 DEF q
    <2>4. \A i \in 1 .. n - excess : q[i] = all[i + excess]
      BY <2>2 DEF q
    <2> QED
      BY <1>2, <2>3, <2>4 DEF q
  <1>7. IsList(p) /\ Len(p) = n - excess
    BY <1>4, <1>6, FunctionIsList
  <1>8. \A i \in 1 .. n - excess : i + excess \in 1 .. n
    BY <1>4
  <1>9. Numbered(p)
    BY <1>5, <1>6, <1>8 DEF Numbered
  <1>10. Ordered(p)
    BY <1>4, <1>5, <1>6, <1>8 DEF Ordered
  <1>11. Range(p) \subseteq Range(h) \cup {e}
    <2> SUFFICES ASSUME NEW i \in 1 .. n - excess PROVE p[i] \in Range(h) \cup {e}
      BY <1>6 DEF Range
    <2>1. i + excess \in 1 .. n /\ p[i] = all[i + excess]
      BY <1>6, <1>8
    <2> QED
      BY <1>1, <1>3, <1>5, <2>1
  <1>12. ASSUME \A x \in Range(h) : x.ckpt.to <= e.ckpt.to
         PROVE  all[n] = e
    <2>1. PICK k \in 1 .. n : all[k] = e
      BY <1>1, <1>3, <1>5 DEF Range
    <2>2. all[n] \in Range(h) \cup {e} /\ all[n].ckpt.to \in Int
      BY <1>1, <1>3, <1>4, <1>5 DEF Numbered
    <2>3. CASE k < n
      <3>1. e.ckpt.to < all[n].ckpt.to
        BY <1>4, <1>5, <2>1, <2>3 DEF Ordered
      <3> QED
        BY <1>12, <2>2, <3>1
    <2> QED
      BY <1>4, <2>1, <2>3
  <1>13. p[Len(p)] = all[n]
    BY <1>4, <1>6, <1>7
  <1> QED
    BY <1>4, <1>7, <1>9, <1>10, <1>11, <1>12, <1>13 DEF IsHistory, p

\* The history a rollback keeps.
LEMMA UpToBlockFacts ==
  ASSUME NEW h, IsHistory(h), NEW b \in Int
  PROVE  /\ IsHistory(UpToBlock(h, b)) /\ Len(UpToBlock(h, b)) <= Len(h)
         /\ Range(UpToBlock(h, b)) = {e \in Range(h) : e.ckpt.to <= b}
  <1> DEFINE S == {e \in Range(h) : e.ckpt.to <= b}
             t == KeepOnly(h, S)
  <1>0. IsList(h) /\ Numbered(h) /\ Ordered(h)
    BY DEF IsHistory
  <1>1. UpToBlock(h, b) = t /\ S \subseteq Range(h)
    BY DEF UpToBlock
  <1> HIDE DEF S
  <1>2. /\ IsList(t) /\ Len(t) <= Len(h)
        /\ Range(t) = Range(h) \cap S
        /\ \A k, l \in DOMAIN t : k < l =>
               \E i, j \in DOMAIN h : i < j /\ t[k] = h[i] /\ t[l] = h[j]
    BY <1>0, KeepOnlyFacts
  <1> HIDE DEF t
  <1>3. Numbered(t)
    <2> SUFFICES ASSUME NEW i \in DOMAIN t PROVE t[i].ckpt.to \in Int
      BY DEF Numbered
    <2>1. t[i] \in Range(h)
      BY <1>2 DEF Range
    <2> QED
      BY <1>0, <2>1 DEF Numbered, Range
  <1>4. Ordered(t)
    BY <1>0, <1>2 DEF Ordered
  <1> QED
    BY <1>1, <1>2, <1>3, <1>4 DEF IsHistory, S

(***************************************************************************)
(* merge_history: one push after the other.                                 *)
(***************************************************************************)
\* The largest of some numbers below m is m, if m is one of them.
LEMMA MaxOfTop ==
  ASSUME NEW m \in Int, NEW s \in SUBSET (1 .. m), m \in s
  PROVE  Max(s) = m
  <1>1. m \in s /\ \A y \in s : m >= y
    OBVIOUS
  <1>2. ASSUME NEW x \in s, \A y \in s : x >= y PROVE x = m
    <2>1. x \in Int /\ x >= m /\ m >= x
      BY <1>1, <1>2
    <2> QED
      BY <2>1
  <1>3. Max(s) \in s /\ \A y \in s : Max(s) >= y
    BY <1>1 DEF Max
  <1> QED
    BY <1>2, <1>3

\* The function that the fold over `news' is taken from.
Folding(g, base, news, limit, n) ==
    g = [s \in SUBSET (1 .. n) |->
            IF s = {} THEN base
            ELSE PushHistorySnapshot(g[s \ {Max(s)}], news[Max(s)], limit)]

\* The fold's function exists: else there were a least length without one.
LEMMA FoldingExists ==
  ASSUME NEW base, NEW news, NEW limit, NEW n \in Nat
  PROVE  \E g : Folding(g, base, news, limit, n)
  <1> DEFINE Missing == {m \in Nat : ~\E g : Folding(g, base, news, limit, m)}
  <1> SUFFICES ASSUME Missing # {} PROVE FALSE
    OBVIOUS
  <1>1. PICK m \in Missing : \A k \in Missing : m <= k
    BY LeastElement
  <1>2. CASE m = 0
    <2> DEFINE g == [s \in SUBSET (1 .. 0) |-> base]
    <2>1. \A s \in SUBSET (1 .. 0) : s = {}
      OBVIOUS
    <2>2. Folding(g, base, news, limit, 0)
      BY <2>1 DEF Folding
    <2> QED
      BY <1>2, <2>2
  <1>3. CASE m > 0
    <2>1. m - 1 \in Nat /\ m - 1 \notin Missing
      BY <1>1, <1>3
    <2>2. PICK g : Folding(g, base, news, limit, m - 1)
      BY <2>1
    <2> DEFINE h == [s \in SUBSET (1 .. m) |->
                       IF m \in s THEN PushHistorySnapshot(g[s \ {m}], news[m], limit) ELSE g[s]]
    <2>3. ASSUME NEW s \in SUBSET (1 .. m), m \notin s
          PROVE  s \in SUBSET (1 .. m - 1)
      BY <1>3, <2>3
    <2>4. ASSUME NEW s \in SUBSET (1 .. m)
          PROVE  h[s] = IF s = {} THEN base
                        ELSE PushHistorySnapshot(h[s \ {Max(s)}], news[Max(s)], limit)
      <3>1. CASE m \in s
        <4>1. Max(s) = m
          BY <3>1, MaxOfTop
        <4>2. s \ {m} \in SUBSET (1 .. m) /\ h[s \ {m}] = g[s \ {m}]
          OBVIOUS
        <4> QED
          BY <3>1, <4>1, <4>2
      <3>2. CASE m \notin s
        <4>1. s \in SUBSET (1 .. m - 1) /\ h[s] = g[s]
          BY <2>3, <3>2
        <4>2. g[s] = IF s = {} THEN base
                     ELSE PushHistorySnapshot(g[s \ {Max(s)}], news[Max(s)], limit)
          BY <2>2, <4>1 DEF Folding
        <4>3. h[s \ {Max(s)}] = g[s \ {Max(s)}]
          BY <3>2
        <4> QED
          BY <4>1, <4>2, <4>3
      <3> QED
        BY <3>1, <3>2
    <2>5. Folding(h, base, news, limit, m)
      BY <2>4 DEF Folding
    <2> QED
      BY <2>5
  <1> QED
    BY <1>1, <1>2, <1>3

\* The histories between the pushes.
Merging(g, base, news, limit) ==
    /\ g[0] = base
    /\ \A k \in 1 .. Len(news) : g[k] = PushHistorySnapshot(g[k - 1], news[k], limit)

LEMMA MergeSteps ==
  ASSUME NEW base, NEW news, IsList(news), NEW limit
  PROVE  \E g : Merging(g, base, news, limit) /\ MergeHistory(base, news, limit) = g[Len(news)]
  <1> DEFINE n == Len(news)
             iter == CHOOSE g : Folding(g, base, news, limit, n)
  <1>1. n \in Nat /\ DOMAIN news = 1 .. n
    BY ListFacts
  <1>2. Folding(iter, base, news, limit, n)
    BY <1>1, FoldingExists
  <1>3. MergeHistory(base, news, limit) = iter[1 .. n]
    BY <1>1 DEF MergeHistory, FoldLeft, MapThenFoldSet, Folding
  <1> HIDE DEF iter, n
  <1> DEFINE g == [k \in 0 .. n |-> iter[1 .. k]]
  <1>4. iter[{}] = base
    BY <1>2 DEF Folding
  <1>5. g[0] = base
    BY <1>1, <1>4
  <1>6. ASSUME NEW k \in 1 .. n
        PROVE  g[k] = PushHistorySnapshot(g[k - 1], news[k], limit)
    <2>1. (1 .. k) \in SUBSET (1 .. n) /\ k \in 1 .. k /\ (1 .. k) \ {k} = 1 .. k - 1
      BY <1>1
    <2>2. Max(1 .. k) = k
      <3>1. k \in Int /\ (1 .. k) \in SUBSET (1 .. k)
        BY <1>1
      <3> QED
        BY <2>1, <3>1, MaxOfTop
    <2>3. iter[1 .. k] = PushHistorySnapshot(iter[1 .. k - 1], news[k], limit)
      BY <1>2, <2>1, <2>2 DEF Folding
    <2> QED
      BY <1>1, <2>3
  <1>7. Merging(g, base, news, limit)
    BY <1>5, <1>6 DEF Merging, n
  <1>8. MergeHistory(base, news, limit) = g[n]
    BY <1>1, <1>3
  <1> QED
    <2> HIDE DEF g
    <2> QED
      BY <1>7, <1>8 DEF n

\* merge_history: a history again, of entries it was given, within the limit,
\* that ends with the newest entry when no other one is of a later block.
LEMMA MergeFacts ==
  ASSUME NEW base, IsHistory(base), NEW news, IsList(news), Numbered(news), NEW limit \in Nat
  PROVE  LET m == MergeHistory(base, news, limit)
             n == Len(news)
         IN  /\ IsHistory(m)
             /\ Range(m) \subseteq Range(base) \cup Range(news)
             /\ n > 0 => Len(m) > 0 /\ (limit > 0 => Len(m) <= limit)
             /\ n > 0 /\ (\A x \in Range(base) \cup Range(news) : x.ckpt.to <= news[n].ckpt.to)
                   => m[Len(m)] = news[n]
  <1> DEFINE n == Len(news)
             m == MergeHistory(base, news, limit)
  <1>1. n \in Nat /\ DOMAIN news = 1 .. n
    BY ListFacts
  <1>2. PICK g : Merging(g, base, news, limit) /\ m = g[n]
    BY MergeSteps
  <1> DEFINE Good(k) == IsHistory(g[k]) /\ Range(g[k]) \subseteq Range(base) \cup Range(news)
             Bad == {k \in 0 .. n : ~Good(k)}
  <1>3. ASSUME NEW k \in 1 .. n, Good(k - 1)
        PROVE  /\ Good(k)
               /\ Len(g[k]) \in Nat \ {0} /\ (limit > 0 => Len(g[k]) <= limit)
               /\ (\A x \in Range(base) \cup Range(news) : x.ckpt.to <= news[k].ckpt.to)
                     => g[k][Len(g[k])] = news[k]
    <2>1. g[k] = PushHistorySnapshot(g[k - 1], news[k], limit)
      BY <1>2 DEF Merging
    <2>2. news[k].ckpt.to \in Int /\ news[k] \in Range(news)
      BY <1>1 DEF Numbered, Range
    <2> HIDE DEF Bad, n, m
    <2>3. IsHistory(g[k - 1]) /\ Range(g[k - 1]) \subseteq Range(base) \cup Range(news)
      BY <1>3
    <2>4. LET p == g[k]
          IN  /\ IsHistory(p) /\ Len(p) \in Nat \ {0}
              /\ Range(p) \subseteq Range(g[k - 1]) \cup {news[k]}
              /\ limit > 0 => Len(p) <= limit
              /\ (\A x \in Range(g[k - 1]) : x.ckpt.to <= news[k].ckpt.to) => p[Len(p)] = news[k]
      BY <2>1, <2>2, <2>3, PushFacts
    <2> QED
      BY <2>2, <2>3, <2>4
  <1>4. Good(0)
    BY <1>2 DEF Merging
  <1>5. ASSUME Bad # {} PROVE FALSE
    <2>1. Bad \in SUBSET Nat
      OBVIOUS
    <2>2. PICK k \in Bad : \A j \in Bad : k <= j
      BY <1>5, <2>1, LeastElement
    <2>3. k # 0 /\ k \in 0 .. n /\ ~Good(k)
      BY <1>4, <2>2
    <2>4. k \in 1 .. n /\ k - 1 \in 0 .. n /\ ~(k <= k - 1)
      BY <1>1, <2>3
    <2>5. Good(k - 1)
      BY <2>2, <2>4
    <2> QED
      BY <1>3, <2>3, <2>4, <2>5
  <1>6. \A k \in 0 .. n : Good(k)
    BY <1>5
  <1>7. Good(n)
    BY <1>1, <1>6
  <1>8. n > 0 => n \in 1 .. n /\ Good(n - 1)
    BY <1>1, <1>6
  <1> QED
    BY <1>1, <1>2, <1>3, <1>7, <1>8

(***************************************************************************)
(* Logs in their order.                                                     *)
(***************************************************************************)
\* The logs up to a block.
AllLogs(c, to) == UNION {BlockLogs(c, b) : b \in BlocksIn(c, 0, to)}

\* A finite set of logs, each at a place of its own.
LogSet(S) ==
    /\ IsFiniteSet(S)
    /\ \A l \in S : l.blk \in Nat /\ l.ev.idx \in Nat
    /\ \A l, m \in S : l.blk = m.blk /\ l.ev.idx = m.ev.idx => l = m

\* Block bodies as a chain has them: finitely many events, each with an index of
\* its own.
IsBody(B) ==
    /\ IsFiniteSet(B)
    /\ \A e \in B : e.idx \in Nat
    /\ \A e, f \in B : e.idx = f.idx => e = f

\* The logs of a block are images of its events.
LEMMA BlockIsFinite ==
  ASSUME NEW c, NEW b, IsFiniteSet(c[b + 1].body)
  PROVE  IsFiniteSet(BlockLogs(c, b))
  <1> DEFINE B == c[b + 1].body
             f == [e \in B |-> LogAt(c, b, e)]
             T == BlockLogs(c, b)
  <1>1. f \in [B -> T] /\ \A l \in T : \E e \in B : f[e] = l
    BY DEF BlockLogs
  <1> HIDE DEF f, T
  <1>2. f \in Surjection(B, T)
    BY <1>1 DEF Surjection
  <1> QED
    BY <1>2, FS_Surjection DEF T

\* The logs up to a block are a set of logs.
LEMMA AllLogsFacts ==
  ASSUME NEW c, NEW to \in Int, \A b \in DOMAIN c : IsBody(c[b].body)
  PROVE  /\ LogSet(AllLogs(c, to))
         /\ \A l : l \in AllLogs(c, to) <=>
               \E b \in BlocksIn(c, 0, to) : l \in BlockLogs(c, b)
         /\ \A l \in AllLogs(c, to) :
               /\ l.blk \in 0 .. to /\ l.blk + 1 \in DOMAIN c
               /\ l.ev \in c[l.blk + 1].body
               /\ l = LogAt(c, l.blk, l.ev) /\ l.fork = c[l.blk + 1].fork
  <1> DEFINE all == AllLogs(c, to)
             blocks == BlocksIn(c, 0, to)
  <1>1. \A l : l \in all <=> \E b \in blocks : l \in BlockLogs(c, b)
    BY DEF AllLogs
  <1>2. \A b \in blocks : b \in 0 .. to /\ b + 1 \in DOMAIN c
    BY DEF BlocksIn
  <1>3. ASSUME NEW l \in all
        PROVE  /\ l.blk \in 0 .. to /\ l.blk + 1 \in DOMAIN c
               /\ l.ev \in c[l.blk + 1].body
               /\ l = LogAt(c, l.blk, l.ev) /\ l.fork = c[l.blk + 1].fork
    <2>1. PICK b \in blocks : l \in BlockLogs(c, b)
      BY <1>1
    <2>2. PICK e \in c[b + 1].body : l = LogAt(c, b, e)
      BY <2>1 DEF BlockLogs
    <2>3. l.blk = b /\ l.ev = e /\ l.fork = c[b + 1].fork
      BY <2>2 DEF LogAt
    <2>4. b \in 0 .. to /\ b + 1 \in DOMAIN c
      BY <1>2
    <2> HIDE DEF all, blocks
    <2> QED
      BY <2>2, <2>3, <2>4
  <1>4. IsFiniteSet(all)
    <2> DEFINE T == {BlockLogs(c, b) : b \in blocks}
               f == [b \in blocks |-> BlockLogs(c, b)]
    <2>1. blocks \in SUBSET (0 .. to)
      BY DEF BlocksIn
    <2>2. IsFiniteSet(blocks)
      <3> HIDE DEF blocks, T, f
      <3>1. IsFiniteSet(0 .. to)
        BY FS_Interval
      <3> QED
        BY <2>1, <3>1, FS_Subset
    <2>3. f \in [blocks -> T] /\ \A t \in T : \E b \in blocks : f[b] = t
      OBVIOUS
    <2>4. \A t \in T : IsFiniteSet(t)
      BY <1>2, BlockIsFinite DEF IsBody
    <2>5. all = UNION T
      BY DEF AllLogs
    <2> HIDE DEF f, T, blocks, all
    <2>6. f \in Surjection(blocks, T)
      BY <2>3 DEF Surjection
    <2>7. IsFiniteSet(T)
      BY <2>2, <2>6, FS_Surjection
    <2> QED
      BY <2>4, <2>5, <2>7, FS_UNION
  <1>5. ASSUME NEW l \in all, NEW m \in all, l.blk = m.blk, l.ev.idx = m.ev.idx
        PROVE  l = m
    <2>1. l.ev = m.ev
      BY <1>3, <1>5 DEF IsBody
    <2> QED
      BY <1>3, <1>5, <2>1
  <1>6. LogSet(all)
    <2> HIDE DEF all
    <2>1. \A l \in all : l.blk \in Nat /\ l.ev.idx \in Nat
      BY <1>3 DEF IsBody
    <2> QED
      BY <1>4, <1>5, <2>1 DEF LogSet
  <1> QED
    BY <1>1, <1>3, <1>6

\* Before is a strict total order on a set of logs.
LEMMA LogOrder ==
  ASSUME NEW S, LogSet(S)
  PROVE  /\ \A l \in S : ~Before(l, l)
         /\ \A l, m \in S : Before(l, m) => ~Before(m, l)
         /\ \A l, m \in S : l = m \/ Before(l, m) \/ Before(m, l)
         /\ \A l, m, n \in S : Before(l, m) /\ Before(m, n) => Before(l, n)
  <1>1. \A l \in S : l.blk \in Nat /\ l.ev.idx \in Nat
    BY DEF LogSet
  <1>2. \A l, m \in S : l = m \/ Before(l, m) \/ Before(m, l)
    BY <1>1 DEF LogSet, Before
  <1>3. \A l, m, n \in S : Before(l, m) /\ Before(m, n) => Before(l, n)
    BY <1>1 DEF Before
  <1>4. \A l, m \in S : Before(l, m) => ~Before(m, l)
    BY <1>1 DEF Before
  <1> QED
    BY <1>2, <1>3, <1>4

\* Some log of a nonempty set has none before it.
LEMMA EarliestLog ==
  ASSUME NEW S, LogSet(S), NEW X \in SUBSET S, X # {}
  PROVE  \E l \in X : \A m \in X : ~Before(m, l)
  <1>1. \A l \in X : l.blk \in Nat /\ l.ev.idx \in Nat
    BY DEF LogSet
  <1> DEFINE blks == {l.blk : l \in X}
  <1>2. PICK b \in blks : \A n \in blks : b <= n
    <2>1. blks \in SUBSET Nat /\ blks # {}
      BY <1>1
    <2> QED
      BY <2>1, LeastElement
  <1> DEFINE idxs == {l.ev.idx : l \in {m \in X : m.blk = b}}
  <1>3. PICK i \in idxs : \A n \in idxs : i <= n
    <2>1. idxs \in SUBSET Nat /\ idxs # {}
      BY <1>1
    <2> QED
      BY <2>1, LeastElement
  <1>4. PICK l \in X : l.blk = b /\ l.ev.idx = i
    OBVIOUS
  <1>5. ASSUME NEW m \in X, Before(m, l) PROVE FALSE
    <2>1. b <= m.blk
      BY <1>2
    <2>2. m.blk = b => i <= m.ev.idx
      BY <1>3
    <2> QED
      BY <1>1, <1>4, <1>5, <2>1, <2>2 DEF Before
  <1> QED
    BY <1>5

\* The logs before one of them.
Earlier(S, l) == {m \in S : Before(m, l)}

\* The logs of a set are ranked one by one.
LEMMA LogRanks ==
  ASSUME NEW S, LogSet(S)
  PROVE  /\ \A l \in S : Cardinality(Earlier(S, l)) \in 0 .. Cardinality(S) - 1
         /\ \A l, m \in S : Before(l, m) =>
               Cardinality(Earlier(S, l)) < Cardinality(Earlier(S, m))
         /\ \A k \in 1 .. Cardinality(S) :
               \E l \in S : Cardinality(Earlier(S, l)) = k - 1
  <1> DEFINE n == Cardinality(S)
             rank == [l \in S |-> Cardinality(Earlier(S, l)) + 1]
  <1>0. n \in Nat /\ IsFiniteSet(S)
    BY FS_CardinalityType DEF LogSet
  <1>1. ASSUME NEW l \in S
        PROVE  /\ IsFiniteSet(Earlier(S, l)) /\ l \notin Earlier(S, l)
               /\ Cardinality(Earlier(S, l)) \in 0 .. n - 1
    <2> DEFINE early == Earlier(S, l)
    <2>1. early \in SUBSET S /\ l \notin early
      BY LogOrder DEF Earlier
    <2> HIDE DEF early
    <2>2. IsFiniteSet(early) /\ Cardinality(early) <= n /\ Cardinality(early) # n
      BY <1>0, <2>1, FS_Subset
    <2>3. Cardinality(early) \in Nat
      BY <2>2, FS_CardinalityType
    <2> QED
      BY <1>0, <2>1, <2>2, <2>3 DEF early
  <1>2. ASSUME NEW l \in S, NEW m \in S, Before(l, m)
        PROVE  Cardinality(Earlier(S, l)) < Cardinality(Earlier(S, m))
    <2> DEFINE el == Earlier(S, l)
               em == Earlier(S, m)
    <2>1. el \in SUBSET em /\ l \in em /\ l \notin el
      BY <1>2, LogOrder DEF Earlier
    <2>2. IsFiniteSet(em) /\ Cardinality(el) \in Nat /\ Cardinality(em) \in Nat
      BY <1>0, <1>1
    <2> HIDE DEF el, em
    <2>3. Cardinality(el) <= Cardinality(em) /\ Cardinality(el) # Cardinality(em)
      BY <2>1, <2>2, FS_Subset
    <2> QED
      BY <2>2, <2>3 DEF el, em
  <1>3. rank \in [S -> 1 .. n]
    BY <1>0, <1>1
  <1>4. ASSUME NEW l \in S, NEW m \in S, rank[l] = rank[m] PROVE l = m
    <2>1. Cardinality(Earlier(S, l)) = Cardinality(Earlier(S, m))
      BY <1>0, <1>1, <1>4
    <2>2. Cardinality(Earlier(S, l)) \in Int
      BY <1>0, <1>1
    <2>3. ~Before(l, m) /\ ~Before(m, l)
      BY <1>2, <2>1, <2>2
    <2> HIDE DEF rank, n
    <2> QED
      BY <2>3, LogOrder
  <1>5. \A l \in S : rank[l] = Cardinality(Earlier(S, l)) + 1
    OBVIOUS
  <1> HIDE DEF rank, n
  <1>6. rank \in Injection(S, 1 .. n)
    BY <1>3, <1>4, Fun_IsInj
  <1>7. IsFiniteSet(1 .. n) /\ Cardinality(1 .. n) = n
    BY <1>0, FS_Interval
  <1>8. rank \in Surjection(S, 1 .. n)
    BY <1>6, <1>7, FS_Injection DEF n
  <1>9. \A k \in 1 .. n : \E l \in S : rank[l] = k
    BY <1>8, Fun_SurjectionProperties
  <1>10. ASSUME NEW k \in 1 .. n PROVE \E l \in S : Cardinality(Earlier(S, l)) = k - 1
    <2>1. PICK l \in S : rank[l] = k
      BY <1>9
    <2> QED
      BY <1>0, <1>1, <1>5, <2>1
  <1> QED
    BY <1>1, <1>2, <1>10 DEF n

\* Log by log.
InChainOrder(s) == \A i, j \in DOMAIN s : i < j => Before(s[i], s[j])

\* ChainLogs lists the logs up to a block once each, in chain order.
LEMMA ChainLogsFacts ==
  ASSUME NEW c, NEW to, LogSet(AllLogs(c, to))
  PROVE  /\ IsList(ChainLogs(c, to)) /\ InChainOrder(ChainLogs(c, to))
         /\ Range(ChainLogs(c, to)) = AllLogs(c, to)
  <1> DEFINE all == AllLogs(c, to)
             n == Cardinality(all)
             s == ChainLogs(c, to)
  <1>0. n \in Nat
    BY FS_CardinalityType DEF LogSet
  <1>1. s = [i \in 1 .. n |-> CHOOSE l \in all : Cardinality(Earlier(all, l)) = i - 1]
    BY DEF ChainLogs, AllLogs, Earlier
  <1> HIDE DEF all, s, n
  <1>2. /\ \A l \in all : Cardinality(Earlier(all, l)) \in 0 .. n - 1
        /\ \A l, m \in all : Before(l, m) =>
              Cardinality(Earlier(all, l)) < Cardinality(Earlier(all, m))
        /\ \A k \in 1 .. n : \E l \in all : Cardinality(Earlier(all, l)) = k - 1
    BY LogRanks DEF all, n
  <1>3. DOMAIN s = 1 .. n /\ s = [i \in 1 .. n |-> s[i]]
        /\ \A k \in 1 .. n : s[k] \in all /\ Cardinality(Earlier(all, s[k])) = k - 1
    BY <1>1, <1>2
  <1>4. \A l, m \in all : l = m \/ Before(l, m) \/ Before(m, l)
    BY LogOrder DEF all
  <1>5. ASSUME NEW i \in 1 .. n, NEW j \in 1 .. n, i < j PROVE Before(s[i], s[j])
    <2>1. /\ s[i] \in all /\ s[j] \in all
          /\ Cardinality(Earlier(all, s[i])) = i - 1
          /\ Cardinality(Earlier(all, s[j])) = j - 1
      BY <1>3
    <2>2. i - 1 # j - 1 /\ ~(j - 1 < i - 1)
      BY <1>0, <1>5
    <2>3. s[i] # s[j] /\ ~Before(s[j], s[i])
      BY <1>2, <2>1, <2>2
    <2> QED
      BY <1>4, <2>1, <2>3
  <1>6. ASSUME NEW l \in all PROVE \E k \in 1 .. n : s[k] = l
    <2>1. PICK k \in 1 .. n : Cardinality(Earlier(all, l)) = k - 1
      <3>1. Cardinality(Earlier(all, l)) + 1 \in 1 .. n
        BY <1>0, <1>2
      <3>2. Cardinality(Earlier(all, l)) = (Cardinality(Earlier(all, l)) + 1) - 1
        BY <1>2
      <3> QED
        BY <3>1, <3>2
    <2>2. s[k] \in all /\ Cardinality(Earlier(all, s[k])) = Cardinality(Earlier(all, l))
      BY <1>3, <2>1
    <2>3. ~(Cardinality(Earlier(all, l)) < Cardinality(Earlier(all, l)))
      BY <1>2
    <2>4. ~Before(s[k], l) /\ ~Before(l, s[k])
      BY <1>2, <2>2, <2>3
    <2> QED
      BY <1>4, <2>2, <2>4
  <1>7. IsList(s)
    BY <1>0, <1>3, FunctionIsList
  <1>8. Range(s) = all
    BY <1>3, <1>6 DEF Range
  <1> QED
    BY <1>3, <1>5, <1>7, <1>8 DEF InChainOrder, s, all

\* A list of logs in chain order whose logs come before all others of a second
\* one is a prefix of it.
LEMMA OrderedPrefix ==
  ASSUME NEW S, LogSet(S), NEW s, NEW t, IsList(s), IsList(t),
         Range(s) \subseteq Range(t), Range(t) \subseteq S,
         InChainOrder(s), InChainOrder(t),
         \A l \in Range(s) : \A m \in Range(t) : m \notin Range(s) => Before(l, m)
  PROVE  /\ IsPrefix(s, t)
         /\ Range(s) = Range(t) => s = t
  <1>1. /\ Len(s) \in Nat /\ DOMAIN s = 1 .. Len(s) /\ s = [i \in 1 .. Len(s) |-> s[i]]
        /\ Len(t) \in Nat /\ DOMAIN t = 1 .. Len(t) /\ t = [i \in 1 .. Len(t) |-> t[i]]
        /\ \A i \in DOMAIN s : s[i] \in Range(s)
        /\ \A i \in DOMAIN t : t[i] \in Range(t)
    BY ListFacts
  <1>2. \A l \in Range(s) : \E i \in DOMAIN t : t[i] = l
    BY DEF Range
  <1>3. \A l \in Range(s) : \E i \in DOMAIN s : s[i] = l
    BY DEF Range
  <1>4. /\ \A l \in S : ~Before(l, l)
        /\ \A l, m \in S : Before(l, m) => ~Before(m, l)
    BY LogOrder
  <1> DEFINE bad == {i \in DOMAIN s : ~(i \in DOMAIN t /\ s[i] = t[i])}
  <1>5. ASSUME bad # {} PROVE FALSE
    <2>1. bad \in SUBSET Nat
      BY <1>1
    <2>2. PICK i \in bad : \A j \in bad : i <= j
      BY <1>5, <2>1, LeastElement
    <2>3. i \in DOMAIN s /\ ~(i \in DOMAIN t /\ s[i] = t[i]) /\ i \in Nat
      BY <1>1, <2>2
    <2>4. ASSUME NEW k \in DOMAIN s, k < i PROVE k \in DOMAIN t /\ s[k] = t[k]
      <3>1. k \notin bad
        BY <1>1, <2>2, <2>3, <2>4
      <3> QED
        BY <3>1
    <2>5. s[i] \in Range(s) /\ s[i] \in S
      BY <1>1, <2>3
    <2>6. PICK j \in DOMAIN t : t[j] = s[i]
      BY <1>2, <2>5
    <2>7. ASSUME j < i PROVE FALSE
      <3>1. j \in DOMAIN s
        BY <1>1, <2>3, <2>7
      <3>2. s[j] = s[i] /\ Before(s[j], s[i])
        BY <2>3, <2>4, <2>6, <2>7, <3>1 DEF InChainOrder
      <3> QED
        BY <1>4, <2>5, <3>2
    <2>8. j # i
      BY <2>3, <2>6
    <2>9. ASSUME i < j PROVE FALSE
      <3>1. i \in DOMAIN t
        BY <1>1, <2>3, <2>9
      <3>2. Before(t[i], s[i]) /\ t[i] \in S /\ t[i] \in Range(t)
        BY <1>1, <2>6, <2>9, <3>1 DEF InChainOrder
      <3>3. t[i] \in Range(s)
        BY <1>4, <2>5, <3>2
      <3>4. PICK k \in DOMAIN s : s[k] = t[i]
        BY <1>3, <3>3
      <3>5. k < i
        <4>1. CASE i < k
          <5>1. Before(s[i], s[k])
            BY <2>3, <4>1 DEF InChainOrder
          <5> QED
            BY <1>4, <2>5, <3>2, <3>4, <5>1
        <4>2. CASE k = i
          BY <1>4, <2>5, <3>2, <3>4, <4>2
        <4> QED
          BY <1>1, <2>3, <4>1, <4>2
      <3>6. t[k] = t[i] /\ k \in DOMAIN t
        BY <2>4, <3>4, <3>5
      <3>7. Before(t[k], t[i])
        BY <3>1, <3>5, <3>6 DEF InChainOrder
      <3> QED
        BY <1>4, <3>2, <3>6, <3>7
    <2> QED
      BY <1>1, <2>3, <2>7, <2>8, <2>9
  <1>6. \A i \in 1 .. Len(s) : i \in 1 .. Len(t) /\ s[i] = t[i]
    BY <1>1, <1>5
  <1>7. Len(s) <= Len(t)
    <2>1. CASE Len(s) = 0
      BY <1>1, <2>1
    <2>2. CASE Len(s) # 0
      BY <1>1, <1>6, <2>2
    <2> QED
      BY <2>1, <2>2
  <1>8. SubSeq(s, 1, Len(s)) = SubSeq(t, 1, Len(s))
    <2> DEFINE n == Len(s)
               u == SubSeq(s, 1, n)
               v == SubSeq(t, 1, n)
    <2>1. s \in Seq(S) /\ t \in Seq(S)
      <3>1. \A i \in 1 .. Len(s) : s[i] \in S
        BY <1>1
      <3>2. \A i \in 1 .. Len(t) : t[i] \in S
        BY <1>1
      <3> QED
        BY <1>1, <3>1, <3>2
    <2>2. n \in Nat /\ n <= Len(s) /\ n <= Len(t)
      BY <1>1, <1>7
    <2>3. /\ u \in Seq(S) /\ Len(u) = n /\ \A i \in 1 .. n : u[i] = s[i]
          /\ v \in Seq(S) /\ Len(v) = n /\ \A i \in 1 .. n : v[i] = t[i]
      <3> HIDE DEF n
      <3> QED
        BY <2>1, <2>2
    <2>4. \A i \in 1 .. n : u[i] = v[i]
      BY <1>6, <2>3
    <2> HIDE DEF u, v
    <2>5. u = v
      BY <2>3, <2>4
    <2> QED
      BY <2>5 DEF u, v
  <1>9. ASSUME Range(s) = Range(t) PROVE s = t
    <2>1. Len(s) = Len(t)
      <3> DEFINE n == Len(t)
      <3>0. Len(s) \in Nat /\ n \in Nat
        BY <1>1
      <3>1. CASE n = 0
        BY <3>0, <1>7, <3>1
      <3>2. CASE n > 0
        <4>1. n \in DOMAIN t
          BY <1>1, <3>2
        <4>2. t[n] \in Range(s) /\ t[n] \in S
          BY <1>1, <1>9, <4>1
        <4>3. PICK k \in DOMAIN s : s[k] = t[n]
          BY <1>3, <4>2
        <4>4. k \in DOMAIN t /\ t[k] = t[n] /\ k \in 1 .. Len(s)
          BY <1>1, <1>6, <4>3
        <4>5. ~(k < n)
          BY <1>4, <4>1, <4>2, <4>4 DEF InChainOrder
        <4> QED
          BY <3>0, <1>7, <4>4, <4>5
      <3> QED
        BY <3>0, <3>1, <3>2
    <2> QED
      BY <1>1, <1>6, <2>1
  <1> QED
    BY <1>7, <1>8, <1>9 DEF IsPrefix

(***************************************************************************)
(* The index of some sources.                                               *)
(***************************************************************************)
\* A log of a static source, in the range indexed.
StaticLog(l, static, origin) ==
    \E s \in static : s.addr = l.ev.addr /\ l.blk >= MaxOf(origin, s.at)

\* What the logs of A make an indexer handle: the static sources' logs, and those
\* of the templates they create, from the creation on.
Follows(A, l, static, origin) ==
    \/ StaticLog(l, static, origin)
    \/ \E m \in A : Before(m, l) /\ l.ev.addr \in m.ev.creates

\* A is exactly what it makes an indexer handle among the logs of S.
IsIndex(A, S, static, origin) ==
    /\ A \subseteq S
    /\ \A l \in S : l \in A <=> Follows(A, l, static, origin)

\* A is a beginning of the index: what it misses comes after all of it.
IsBeginning(A, S, static, origin) ==
    /\ A \subseteq S
    /\ \A l \in A : Follows(A, l, static, origin)
    /\ \A l \in S : Follows(A, l, static, origin) /\ l \notin A => \A m \in A : Before(m, l)

\* An index is a beginning.
LEMMA IndexIsBeginning ==
  ASSUME NEW A, NEW S, NEW static, NEW origin, IsIndex(A, S, static, origin)
  PROVE  IsBeginning(A, S, static, origin)
  BY DEF IsIndex, IsBeginning

\* What a beginning misses of the index comes after all of it.
LEMMA BeginningFacts ==
  ASSUME NEW S, LogSet(S), NEW static, NEW origin,
         NEW I, IsIndex(I, S, static, origin),
         NEW A, IsBeginning(A, S, static, origin)
  PROVE  /\ A \subseteq I
         /\ \A l \in I : l \notin A => \A m \in A : Before(m, l)
  <1> DEFINE F(X, l) == Follows(X, l, static, origin)
  <1>1. A \subseteq S /\ I \subseteq S
    BY DEF IsIndex, IsBeginning
  <1>2. A \subseteq I
    <2> DEFINE X == {l \in A : l \notin I}
    <2> SUFFICES ASSUME X # {} PROVE FALSE
      OBVIOUS
    <2>1. X \in SUBSET S
      BY <1>1
    <2>2. PICK l \in X : \A m \in X : ~Before(m, l)
      BY <2>1, EarliestLog
    <2>3. F(A, l) /\ l \in S /\ l \notin I
      BY <1>1, <2>2 DEF IsBeginning
    <2>4. F(I, l)
      BY <2>2, <2>3 DEF Follows
    <2> QED
      BY <2>3, <2>4 DEF IsIndex
  <1>3. ASSUME NEW x \in I, x \notin A PROVE \A m \in A : Before(m, x)
    <2> DEFINE X == {l \in I : l \notin A /\ ~\A m \in A : Before(m, l)}
    <2> SUFFICES ASSUME X # {} PROVE FALSE
      BY <1>3
    <2>1. X \in SUBSET S
      BY <1>1
    <2>2. PICK l \in X : \A m \in X : ~Before(m, l)
      BY <2>1, EarliestLog
    <2>3. l \in I /\ l \in S /\ l \notin A /\ ~\A m \in A : Before(m, l)
      BY <1>1, <2>2
    <2>4. F(I, l)
      BY <2>3 DEF IsIndex
    <2>5. ~F(A, l)
      BY <2>3 DEF IsBeginning
    <2>6. PICK m \in I : Before(m, l) /\ l.ev.addr \in m.ev.creates /\ m \notin A
      BY <2>4, <2>5 DEF Follows
    <2>7. \A k \in A : Before(k, m)
      BY <2>2, <2>6
    <2>8. \A k \in A : Before(k, l)
      BY <1>1, <2>3, <2>6, <2>7, LogOrder
    <2> QED
      BY <2>3, <2>8
  <1> QED
    BY <1>2, <1>3

\* One step of the reference: the lambda of IdealRun.
IdealStep(acc, l, static, origin) ==
    IF \/ l.ev.addr \in acc.live
       \/ \E s \in static : s.addr = l.ev.addr /\ l.blk >= MaxOf(origin, s.at)
    THEN [live |-> acc.live \cup l.ev.creates, out |-> Append(acc.out, l)]
    ELSE acc

NothingYet == [live |-> {}, out |-> <<>>]

\* The function that IdealRun is taken from.
IdealFolding(g, logs, static, origin, n) ==
    g = [s \in SUBSET (1 .. n) |->
            IF s = {} THEN NothingYet
            ELSE IdealStep(g[s \ {Max(s)}], logs[Max(s)], static, origin)]

\* It exists: else there were a least length without one.
LEMMA IdealFoldingExists ==
  ASSUME NEW logs, NEW static, NEW origin, NEW n \in Nat
  PROVE  \E g : IdealFolding(g, logs, static, origin, n)
  <1> DEFINE Missing == {m \in Nat : ~\E g : IdealFolding(g, logs, static, origin, m)}
  <1> SUFFICES ASSUME Missing # {} PROVE FALSE
    OBVIOUS
  <1>1. PICK m \in Missing : \A k \in Missing : m <= k
    BY LeastElement
  <1>2. CASE m = 0
    <2> DEFINE g == [s \in SUBSET (1 .. 0) |-> NothingYet]
    <2>1. \A s \in SUBSET (1 .. 0) : s = {}
      OBVIOUS
    <2>2. IdealFolding(g, logs, static, origin, 0)
      BY <2>1 DEF IdealFolding
    <2> QED
      BY <1>2, <2>2
  <1>3. CASE m > 0
    <2>1. m - 1 \in Nat /\ m - 1 \notin Missing
      BY <1>1, <1>3
    <2>2. PICK g : IdealFolding(g, logs, static, origin, m - 1)
      BY <2>1
    <2> DEFINE h == [s \in SUBSET (1 .. m) |->
                       IF m \in s THEN IdealStep(g[s \ {m}], logs[m], static, origin) ELSE g[s]]
    <2>3. ASSUME NEW s \in SUBSET (1 .. m), m \notin s
          PROVE  s \in SUBSET (1 .. m - 1)
      BY <1>3, <2>3
    <2>4. ASSUME NEW s \in SUBSET (1 .. m)
          PROVE  h[s] = IF s = {} THEN NothingYet
                        ELSE IdealStep(h[s \ {Max(s)}], logs[Max(s)], static, origin)
      <3>1. CASE m \in s
        <4>1. Max(s) = m
          BY <3>1, MaxOfTop
        <4>2. s \ {m} \in SUBSET (1 .. m) /\ h[s \ {m}] = g[s \ {m}]
          OBVIOUS
        <4> QED
          BY <3>1, <4>1, <4>2
      <3>2. CASE m \notin s
        <4>1. s \in SUBSET (1 .. m - 1) /\ h[s] = g[s]
          BY <2>3, <3>2
        <4>2. g[s] = IF s = {} THEN NothingYet
                     ELSE IdealStep(g[s \ {Max(s)}], logs[Max(s)], static, origin)
          BY <2>2, <4>1 DEF IdealFolding
        <4>3. h[s \ {Max(s)}] = g[s \ {Max(s)}]
          BY <3>2
        <4> QED
          BY <4>1, <4>2, <4>3
      <3> QED
        BY <3>1, <3>2
    <2>5. IdealFolding(h, logs, static, origin, m)
      BY <2>4 DEF IdealFolding
    <2> QED
      BY <2>5
  <1> QED
    BY <1>1, <1>3, <1>2

\* The states of the reference between its steps.
IdealSteps(g, logs, static, origin) ==
    /\ g[0] = NothingYet
    /\ \A k \in 1 .. Len(logs) : g[k] = IdealStep(g[k - 1], logs[k], static, origin)

LEMMA IdealRunSteps ==
  ASSUME NEW c, NEW static, NEW origin, NEW to, IsList(ChainLogs(c, to))
  PROVE  \E g : /\ IdealSteps(g, ChainLogs(c, to), static, origin)
                /\ Ideal(c, static, origin, to) = g[Len(ChainLogs(c, to))].out
  <1> DEFINE logs == ChainLogs(c, to)
             n == Len(logs)
             iter == CHOOSE g : IdealFolding(g, logs, static, origin, n)
  <1>1. n \in Nat /\ DOMAIN logs = 1 .. n
    BY ListFacts
  <1>2. IdealFolding(iter, logs, static, origin, n)
    BY <1>1, IdealFoldingExists
  <1>3. IdealRun(c, static, origin, to) = iter[1 .. n]
    <2> HIDE DEF n, logs
    <2> QED
      BY <1>1 DEF IdealRun, FoldLeft, MapThenFoldSet, IdealFolding, IdealStep, NothingYet, logs
  <1> HIDE DEF iter, n, logs
  <1> DEFINE g == [k \in 0 .. n |-> iter[1 .. k]]
  <1>4. iter[{}] = NothingYet
    BY <1>2 DEF IdealFolding
  <1>5. g[0] = NothingYet
    BY <1>1, <1>4
  <1>6. ASSUME NEW k \in 1 .. n
        PROVE  g[k] = IdealStep(g[k - 1], logs[k], static, origin)
    <2>1. (1 .. k) \in SUBSET (1 .. n) /\ k \in 1 .. k /\ (1 .. k) \ {k} = 1 .. k - 1
      BY <1>1
    <2>2. Max(1 .. k) = k
      <3>1. k \in Int /\ (1 .. k) \in SUBSET (1 .. k)
        BY <1>1
      <3> QED
        BY <2>1, <3>1, MaxOfTop
    <2>3. iter[1 .. k] = IdealStep(iter[1 .. k - 1], logs[k], static, origin)
      BY <1>2, <2>1, <2>2 DEF IdealFolding
    <2> QED
      BY <1>1, <2>3
  <1>7. IdealSteps(g, logs, static, origin)
    BY <1>5, <1>6 DEF IdealSteps, n
  <1>8. Ideal(c, static, origin, to) = g[n].out
    BY <1>1, <1>3 DEF Ideal
  <1> QED
    <2> HIDE DEF g
    <2> QED
      BY <1>7, <1>8 DEF n, logs

\* The reference lists the index of its sources, in chain order.
LEMMA IdealFacts ==
  ASSUME NEW c, NEW to, LogSet(AllLogs(c, to)), NEW static, NEW origin
  PROVE  LET s == Ideal(c, static, origin, to)
         IN  /\ IsList(s) /\ InChainOrder(s)
             /\ IsIndex(Range(s), AllLogs(c, to), static, origin)
  <1> DEFINE all == AllLogs(c, to)
             logs == ChainLogs(c, to)
             n == Len(logs)
             F(A, l) == Follows(A, l, static, origin)
  <1>1. IsList(logs) /\ InChainOrder(logs) /\ Range(logs) = all
    BY ChainLogsFacts
  <1>2. PICK g : IdealSteps(g, logs, static, origin)
                 /\ Ideal(c, static, origin, to) = g[n].out
    BY <1>1, IdealRunSteps
  <1> HIDE DEF logs, n
  <1>3. n \in Nat /\ DOMAIN logs = 1 .. n /\ \A i \in 1 .. n : logs[i] \in all
    BY <1>1, ListFacts DEF n
  <1>4. g[0] = NothingYet
        /\ \A k \in 1 .. n : g[k] = IdealStep(g[k - 1], logs[k], static, origin)
    BY <1>2 DEF IdealSteps, n
  <1> DEFINE Good(k) ==
               /\ IsList(g[k].out) /\ InChainOrder(g[k].out)
               /\ \A l \in Range(g[k].out) : \E j \in 1 .. k : l = logs[j]
               /\ \A a : a \in g[k].live <=> \E m \in Range(g[k].out) : a \in m.ev.creates
               /\ \A j \in 1 .. k : logs[j] \in Range(g[k].out) <=> F(Range(g[k].out), logs[j])
             Bad == {k \in 0 .. n : ~Good(k)}
  <1>5. Good(0)
    <2>1. g[0].out = <<>> /\ g[0].live = {}
      BY <1>4 DEF NothingYet
    <2>2. IsList(<<>>) /\ Range(<<>>) = {} /\ InChainOrder(<<>>)
      BY DEF IsList, Range, InChainOrder
    <2> QED
      BY <2>1, <2>2
  <1>6. ASSUME NEW k \in 1 .. n, Good(k - 1) PROVE Good(k)
    <2> DEFINE l == logs[k]
               out == g[k - 1].out
               A == Range(out)
               live == g[k - 1].live
               takes == \/ l.ev.addr \in live
                        \/ \E s \in static : s.addr = l.ev.addr /\ l.blk >= MaxOf(origin, s.at)
    <2>1. /\ IsList(out) /\ InChainOrder(out)
          /\ \A m \in A : \E j \in 1 .. k - 1 : m = logs[j]
          /\ \A a : a \in live <=> \E m \in A : a \in m.ev.creates
          /\ \A j \in 1 .. k - 1 : logs[j] \in A <=> F(A, logs[j])
      BY <1>6
    <2>2. g[k] = IF takes THEN [live |-> live \cup l.ev.creates, out |-> Append(out, l)]
                 ELSE g[k - 1]
      BY <1>4 DEF IdealStep
    <2> HIDE DEF l, out, A, live, Good, Bad
    <2>3. l \in all /\ \A j \in 1 .. k - 1 : logs[j] \in all /\ Before(logs[j], l)
      BY <1>1, <1>3 DEF InChainOrder, l
    <2>4. A \subseteq all /\ (\A m \in A : Before(m, l)) /\ l \notin A
      <3>1. A \subseteq all /\ (\A m \in A : Before(m, l))
        BY <2>1, <2>3
      <3> QED
        BY <2>3, <3>1, LogOrder
    <2>5. takes <=> F(A, l)
      BY <2>1, <2>4 DEF Follows, StaticLog
    <2> HIDE DEF takes
    <2>6. \A j \in 1 .. k : j = k \/ j \in 1 .. k - 1
      BY <1>3
    <2>7. CASE ~takes
      <3>1. g[k].out = out /\ g[k].live = live
        BY <2>2, <2>7 DEF out, live
      <3>2. \A m \in A : \E j \in 1 .. k : m = logs[j]
        BY <1>3, <2>1
      <3>3. \A j \in 1 .. k : logs[j] \in A <=> F(A, logs[j])
        BY <2>1, <2>4, <2>5, <2>6, <2>7 DEF l
      <3> QED
        BY <2>1, <3>1, <3>2, <3>3 DEF Good, A
    <2>8. CASE takes
      <3> DEFINE new == Append(out, l)
                 B == A \cup {l}
                 E == A \cup {l}
      <3>1. g[k].out = new /\ g[k].live = live \cup l.ev.creates
        BY <2>2, <2>8
      <3>2. out \in Seq(E) /\ l \in E /\ Len(out) \in Nat /\ DOMAIN out = 1 .. Len(out)
            /\ \A i \in DOMAIN out : out[i] \in A
        <4>1. /\ Len(out) \in Nat /\ DOMAIN out = 1 .. Len(out)
              /\ out = [i \in 1 .. Len(out) |-> out[i]]
              /\ \A i \in DOMAIN out : out[i] \in A
          BY <2>1, ListFacts DEF A
        <4> QED
          BY <4>1
      <3> HIDE DEF E, new, B
      <3>3. /\ new \in Seq(E) /\ Len(new) = Len(out) + 1 /\ DOMAIN new = 1 .. Len(out) + 1
            /\ new[Len(out) + 1] = l /\ \A i \in 1 .. Len(out) : new[i] = out[i]
        BY <3>2 DEF new
      <3>4. IsList(new)
        <4>1. new = [i \in 1 .. Len(out) + 1 |-> new[i]]
          BY <3>2, <3>3
        <4> QED
          BY <3>2, <3>3, <4>1, FunctionIsList
      <3>5. Range(new) = B
        <4>1. \A x \in A : \E i \in 1 .. Len(out) : out[i] = x
          BY <3>2 DEF A, Range
        <4>2. \A i \in 1 .. Len(out) + 1 : i = Len(out) + 1 \/ i \in 1 .. Len(out)
          BY <3>2
        <4>3. \A i \in 1 .. Len(out) : i \in 1 .. Len(out) + 1
          BY <3>2
        <4>4. Len(out) + 1 \in 1 .. Len(out) + 1
          BY <3>2
        <4> QED
          BY <3>2, <3>3, <4>1, <4>2, <4>3, <4>4 DEF Range, B
      <3>6. InChainOrder(new)
        <4> SUFFICES ASSUME NEW i \in DOMAIN new, NEW j \in DOMAIN new, i < j
                     PROVE  Before(new[i], new[j])
          BY DEF InChainOrder
        <4>1. i \in 1 .. Len(out) /\ new[i] = out[i] /\ out[i] \in A
          BY <3>2, <3>3
        <4>2. CASE j = Len(out) + 1
          BY <2>4, <3>3, <4>1, <4>2
        <4>3. CASE j # Len(out) + 1
          <5>1. j \in 1 .. Len(out) /\ new[j] = out[j]
            BY <3>2, <3>3, <4>3
          <5> QED
            BY <2>1, <3>2, <4>1, <5>1 DEF InChainOrder
        <4> QED
          BY <4>2, <4>3
      <3>7. \A m \in B : \E j \in 1 .. k : m = logs[j]
        BY <1>3, <2>1 DEF B, l
      <3>8. \A a : a \in live \cup l.ev.creates <=> \E m \in B : a \in m.ev.creates
        BY <2>1 DEF B
      <3>9. ASSUME NEW j \in 1 .. k PROVE logs[j] \in B <=> F(B, logs[j])
        <4>1. CASE j = k
          <5>1. F(B, l) /\ l \in B
            BY <2>5, <2>8 DEF Follows, B
          <5> QED
            BY <4>1, <5>1 DEF l
        <4>2. CASE j \in 1 .. k - 1
          <5>1. logs[j] \in all /\ Before(logs[j], l) /\ ~Before(l, logs[j]) /\ logs[j] # l
            BY <2>3, <4>2, LogOrder
          <5>2. F(B, logs[j]) <=> F(A, logs[j])
            BY <5>1 DEF Follows, B
          <5> QED
            BY <2>1, <4>2, <5>1, <5>2 DEF B
        <4> QED
          BY <2>6, <4>1, <4>2
      <3> QED
        BY <3>1, <3>4, <3>5, <3>6, <3>7, <3>8, <3>9 DEF Good
    <2> QED
      BY <2>7, <2>8
  <1> HIDE DEF Good
  <1>7. ASSUME Bad # {} PROVE FALSE
    <2>1. Bad \in SUBSET Nat
      BY <1>3
    <2>2. PICK k \in Bad : \A j \in Bad : k <= j
      BY <1>7, <2>1, LeastElement
    <2>3. k \in 0 .. n /\ ~Good(k) /\ k # 0
      BY <1>5, <2>2
    <2>4. k \in 1 .. n /\ k - 1 \in 0 .. n /\ ~(k <= k - 1)
      BY <1>3, <2>3
    <2>5. Good(k - 1)
      BY <2>2, <2>4
    <2> QED
      BY <1>6, <2>3, <2>4, <2>5
  <1>8. Good(n)
    BY <1>3, <1>7
  <1> DEFINE out == g[n].out
  <1>9. /\ IsList(out) /\ InChainOrder(out)
        /\ \A l \in Range(out) : \E j \in 1 .. n : l = logs[j]
        /\ \A j \in 1 .. n : logs[j] \in Range(out) <=> F(Range(out), logs[j])
    BY <1>8 DEF Good
  <1>10. \A l \in all : \E j \in 1 .. n : l = logs[j]
    BY <1>1, <1>3 DEF Range
  <1>11. IsIndex(Range(out), all, static, origin)
    <2> HIDE DEF out, all
    <2> QED
      BY <1>3, <1>9, <1>10 DEF IsIndex
  <1> QED
    BY <1>2, <1>9, <1>11

\* What an indexer has is the reference, or a prefix of it.
LEMMA HoldsIdeal ==
  ASSUME NEW c, NEW to, LogSet(AllLogs(c, to)), NEW static, NEW origin,
         NEW s, IsList(s), InChainOrder(s),
         IsBeginning(Range(s), AllLogs(c, to), static, origin)
  PROVE  /\ IsPrefix(s, Ideal(c, static, origin, to))
         /\ IsIndex(Range(s), AllLogs(c, to), static, origin) =>
               s = Ideal(c, static, origin, to)
  <1> DEFINE t == Ideal(c, static, origin, to)
             all == AllLogs(c, to)
  <1>1. IsList(t) /\ InChainOrder(t) /\ IsIndex(Range(t), all, static, origin)
    BY IdealFacts
  <1> HIDE DEF t
  <1>2. /\ Range(s) \subseteq Range(t)
        /\ \A l \in Range(t) : l \notin Range(s) => \A m \in Range(s) : Before(m, l)
    BY <1>1, BeginningFacts
  <1>3. Range(t) \subseteq all
    BY <1>1 DEF IsIndex
  <1>4. IsPrefix(s, t) /\ (Range(s) = Range(t) => s = t)
    BY <1>1, <1>2, <1>3, OrderedPrefix
  <1>5. ASSUME IsIndex(Range(s), all, static, origin) PROVE s = t
    <2>1. Range(t) \subseteq Range(s)
      BY <1>1, <1>5, IndexIsBeginning, BeginningFacts
    <2> QED
      BY <1>2, <1>4, <2>1
  <1> QED
    BY <1>4, <1>5 DEF t
=============================================================================
