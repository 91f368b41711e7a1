--------------------------- MODULE OverlayProofs ---------------------------
(***************************************************************************)
(* What the merge of Overlay does to any two lists: local entries keep     *)
(* their places, every key of the server without a local counterpart is    *)
(* appended exactly once, with the entry that counts for it.  The lemmas   *)
(* speak of the keys alone; SensingProofs applies them to sensors and to   *)
(* relays.                                                                 *)
(***************************************************************************)
EXTENDS Overlay, FiniteSetTheorems, FunctionTheorems, SequenceTheorems, WellFoundedInduction,
        TLAPS

-----------------------------------------------------------------------------
(* The first and the last of a set of positions. *)

(* A set of positions that is not empty has a first. *)
LEMMA FirstOfSet ==
  ASSUME NEW I \in SUBSET Nat, I # {}
  PROVE  FirstOf(I) \in I /\ \A j \in I : FirstOf(I) <= j
<1>1. \E i \in I : \A j \in I : ~(<<j, i>> \in OpToRel(<, Nat))
  BY NatLessThanWellFounded, WFMin
<1>2. PICK i \in I : \A j \in I : ~(<<j, i>> \in OpToRel(<, Nat))
  BY <1>1
<1>3. ASSUME NEW j \in I PROVE i <= j
  <2>1. <<j, i>> \in Nat \X Nat
    OBVIOUS
  <2>2. ~(j < i)
    BY <1>2, <2>1 DEF OpToRel
  <2> QED BY <2>2
<1> QED BY <1>3 DEF FirstOf

(* The distances to the end of the list have a smallest. *)
LEMMA LastOfSet ==
  ASSUME NEW N \in Nat, NEW I \in SUBSET (1..N), I # {}
  PROVE  LastOf(I) \in I /\ \A j \in I : j <= LastOf(I)
<1> DEFINE fromEnd == {N - i : i \in I}
<1>0. \A i \in I : i \in Nat /\ N - i \in Nat
  OBVIOUS
<1>1. fromEnd \in SUBSET Nat /\ fromEnd # {}
  BY <1>0
<1>2. PICK i \in I : FirstOf(fromEnd) = N - i
  BY <1>1, FirstOfSet
<1>3. ASSUME NEW j \in I PROVE j <= i
  <2>1. FirstOf(fromEnd) <= N - j
    BY <1>1, FirstOfSet
  <2>2. i \in Int /\ j \in Int /\ N \in Int
    BY <1>0
  <2>3. N - i <= N - j
    BY <1>2, <2>1
  <2> QED BY <2>2, <2>3
<1> QED BY <1>3 DEF LastOf

-----------------------------------------------------------------------------
(* Nth numbers a finite set of positions in their order. *)

Rank(I, i) == Cardinality({j \in I : j <= i})

(* The number of a position is that of the positions up to it. *)
LEMMA RankOf ==
  ASSUME NEW N \in Nat, NEW I \in SUBSET (1..N)
  PROVE  /\ IsFiniteSet(I) /\ Cardinality(I) \in Nat
         /\ \A i \in I : Rank(I, i) \in 1..Cardinality(I)
         /\ \A i, k \in I : i < k => Rank(I, i) < Rank(I, k)
<1>0. \A i \in I : i \in Nat
  OBVIOUS
<1>1. IsFiniteSet(I) /\ Cardinality(I) \in Nat
  <2>1. IsFiniteSet(1..N)
    BY FS_Interval
  <2>2. IsFiniteSet(I)
    BY <2>1, FS_Subset
  <2> QED BY <2>2, FS_CardinalityType
<1>2. ASSUME NEW i \in I
      PROVE  /\ IsFiniteSet({j \in I : j <= i}) /\ Rank(I, i) \in Nat
             /\ Rank(I, i) <= Cardinality(I)
  BY <1>1, FS_Subset, FS_CardinalityType DEF Rank
<1>3. ASSUME NEW i \in I PROVE Rank(I, i) # 0
  <2>1. i \in {j \in I : j <= i}
    OBVIOUS
  <2> QED BY <1>2, <2>1, FS_EmptySet DEF Rank
<1>4. ASSUME NEW i \in I, NEW k \in I, i < k PROVE Rank(I, i) < Rank(I, k)
  <2> DEFINE A == {j \in I : j <= i}
             B == {j \in I : j <= k}
  <2>0. i \in Nat /\ k \in Nat
    BY <1>0
  <2>1. A \in SUBSET B /\ k \in B /\ k \notin A
    <3>1. \A j \in A : j \in B
      BY <1>0, <1>4, <2>0
    <3>2. k \in B
      BY <2>0
    <3>3. k \notin A
      BY <1>4, <2>0
    <3> QED BY <3>1, <3>2, <3>3
  <2>2. Cardinality(A) <= Cardinality(B) /\ (Cardinality(B) = Cardinality(A) => B = A)
    BY <1>2, <2>1, FS_Subset
  <2>3. Cardinality(A) # Cardinality(B)
    BY <2>1, <2>2
  <2> QED BY <1>2, <2>2, <2>3 DEF Rank
<1>5. ASSUME NEW i \in I PROVE Rank(I, i) \in 1..Cardinality(I)
  <2>1. Rank(I, i) \in Nat /\ Rank(I, i) <= Cardinality(I) /\ Rank(I, i) # 0
    BY <1>2, <1>3
  <2>2. Cardinality(I) \in Nat
    BY <1>1
  <2> QED BY <2>1, <2>2
<1> QED BY <1>1, <1>4, <1>5

(* Every position has its number, and the numbers follow the order. *)
LEMMA NthOf ==
  ASSUME NEW N \in Nat, NEW I \in SUBSET (1..N)
  PROVE  /\ Cardinality(I) \in Nat
         /\ \A n \in 1..Cardinality(I) : Nth(I, n) \in I
         /\ \A n, m \in 1..Cardinality(I) : n < m => Nth(I, n) < Nth(I, m)
         /\ \A i \in I : \E n \in 1..Cardinality(I) : Nth(I, n) = i
<1> DEFINE ranks == [i \in I |-> Rank(I, i)]
           C == Cardinality(I)
<1>0. \A i \in I : i \in Nat
  OBVIOUS
<1>1. /\ IsFiniteSet(I) /\ C \in Nat
      /\ \A i \in I : Rank(I, i) \in 1..C
      /\ \A i, k \in I : i < k => Rank(I, i) < Rank(I, k)
  BY RankOf
<1>2. \A i, k \in I : Rank(I, i) = Rank(I, k) => i = k
  BY <1>1
<1>3. ranks \in Injection(I, 1..C)
  <2>1. ranks \in [I -> 1..C]
    BY <1>1
  <2> QED BY <1>2, <2>1 DEF Injection, IsInjective
<1>4. IsFiniteSet(1..C) /\ Cardinality(1..C) = C
  BY <1>1, FS_Interval
<1>5. ranks \in Surjection(I, 1..C)
  BY <1>3, <1>4, FS_Injection
<1>6. ASSUME NEW n \in 1..C PROVE Nth(I, n) \in I /\ Rank(I, Nth(I, n)) = n
  <2>1. \E i \in I : Rank(I, i) = n
    BY <1>5 DEF Surjection
  <2> QED BY <2>1 DEF Nth, Rank
<1>7. ASSUME NEW n \in 1..C, NEW m \in 1..C, n < m PROVE Nth(I, n) < Nth(I, m)
  <2>1. PICK i \in I : i = Nth(I, n) /\ Rank(I, i) = n
    BY <1>6
  <2>2. PICK k \in I : k = Nth(I, m) /\ Rank(I, k) = m
    BY <1>6
  <2>3. n \in Nat /\ m \in Nat /\ i \in Nat /\ k \in Nat
    BY <1>0, <1>1
  <2>4. ~(k < i) /\ k # i
    BY <1>1, <1>7, <2>1, <2>2, <2>3
  <2> QED BY <2>1, <2>2, <2>3, <2>4
<1>8. ASSUME NEW i \in I PROVE Nth(I, Rank(I, i)) = i
  BY <1>1, <1>2, <1>6
<1> QED BY <1>1, <1>6, <1>7, <1>8

(* Keep takes each entry at the positions once, and nothing else. *)
IsKept(kept, C, at, s, I) ==
    /\ DOMAIN kept = 1..C
    /\ \A n \in 1..C : kept[n] = s[at[n]]
    /\ \A a, b \in 1..C : at[a] = at[b] => a = b
    /\ \A i \in I : \E n \in 1..C : at[n] = i

(* For any positions of a list of any length. *)
LEMMA KeepOf ==
  ASSUME NEW N \in Nat, NEW I \in SUBSET (1..N), NEW s, NEW kept, kept = Keep(s, I)
  PROVE  \E C \in Nat : \E at \in [1..C -> I] : IsKept(kept, C, at, s, I)
<1>1. PICK C \in Nat : C = Cardinality(I)
  BY NthOf
<1>2. /\ \A n \in 1..C : Nth(I, n) \in I
      /\ \A n, m \in 1..C : n < m => Nth(I, n) < Nth(I, m)
      /\ \A i \in I : \E n \in 1..C : Nth(I, n) = i
  BY <1>1, NthOf
<1> DEFINE at == [n \in 1..C |-> Nth(I, n)]
<1>3. at \in [1..C -> I]
  BY <1>2
<1>4. \A n \in 1..C : at[n] = Nth(I, n)
  OBVIOUS
<1>5. kept = [n \in 1..C |-> s[Nth(I, n)]]
  BY <1>1 DEF Keep
<1> HIDE DEF at
<1>6. ASSUME NEW a \in 1..C, NEW b \in 1..C, at[a] = at[b] PROVE a = b
  <2>1. Nth(I, a) = Nth(I, b)
    BY <1>4, <1>6
  <2>2. PICK i \in 1..N : i = Nth(I, a)
    BY <1>2
  <2>3. ~(a < b) /\ ~(b < a)
    BY <1>2, <2>1, <2>2
  <2> QED BY <2>3
<1>7. DOMAIN kept = 1..C /\ \A n \in 1..C : kept[n] = s[at[n]]
  BY <1>4, <1>5
<1>8. \A i \in I : \E n \in 1..C : at[n] = i
  BY <1>2, <1>4
<1> WITNESS C \in Nat
<1> WITNESS at \in [1..C -> I]
<1> QED BY <1>6, <1>7, <1>8 DEF IsKept

-----------------------------------------------------------------------------
(* The index of the server's entries by key. *)

(* The entry that counts for a key has that key, and no later one has. *)
LEMMA WinnerOf ==
  ASSUME NEW N \in Nat, NEW named \in SUBSET (1..N), NEW keys, NEW m \in named
  PROVE  /\ Winner(named, keys, keys[m]) \in named
         /\ keys[Winner(named, keys, keys[m])] = keys[m]
         /\ \A j \in named : keys[j] = keys[m] => j <= Winner(named, keys, keys[m])
<1> DEFINE I == {j \in named : keys[j] = keys[m]}
<1>1. I \in SUBSET (1..N) /\ I # {}
  OBVIOUS
<1>2. LastOf(I) \in I /\ \A j \in I : j <= LastOf(I)
  BY <1>1, LastOfSet
<1>3. Winner(named, keys, keys[m]) = LastOf(I)
  BY DEF Winner
<1> HIDE DEF I
<1>4. \A j : j \in I <=> j \in named /\ keys[j] = keys[m]
  BY DEF I
<1> QED BY <1>2, <1>3, <1>4

(* A key that is appended is named, not local, can be converted and comes once;
   every such key is appended. *)
LEMMA FreshOf ==
  ASSUME NEW N \in Nat, NEW localKeys, NEW remote, NEW keys, DOMAIN keys = 1..N, NEW converted,
         NEW named, named = Named(remote, keys),
         NEW fresh, fresh = Fresh(localKeys, remote, keys, converted)
  PROVE  /\ fresh \subseteq named
         /\ \A m \in fresh : /\ \A n \in DOMAIN localKeys : localKeys[n] # keys[m]
                             /\ Winner(named, keys, keys[m]) \in DOMAIN converted
         /\ \A a, b \in fresh : keys[a] = keys[b] => a = b
         /\ \A m \in named :
               \/ \E n \in DOMAIN localKeys : localKeys[n] = keys[m]
               \/ Winner(named, keys, keys[m]) \notin DOMAIN converted
               \/ \E f \in fresh : keys[f] = keys[m]
<1>1. named \in SUBSET (1..N)
  BY DEF Named
<1>2. ASSUME NEW a \in fresh, NEW b \in fresh, keys[a] = keys[b] PROVE a = b
  BY <1>2 DEF Fresh
<1>3. ASSUME NEW m \in named,
             \A n \in DOMAIN localKeys : localKeys[n] # keys[m],
             Winner(named, keys, keys[m]) \in DOMAIN converted
      PROVE  \E f \in fresh : keys[f] = keys[m]
  <2> DEFINE I == {j \in named : keys[j] = keys[m]}
             f == FirstOf(I)
  <2>1. I \in SUBSET Nat /\ I # {}
    BY <1>1
  <2>2. f \in I
    BY <2>1, FirstOfSet
  <2>3. f \in named /\ keys[f] = keys[m]
    BY <2>2
  <2>4. f = FirstOf({j \in named : keys[j] = keys[f]})
    BY <2>3
  <2>5. f \in fresh
    BY <1>3, <2>3, <2>4 DEF Fresh
  <2> QED BY <2>3, <2>5
<1>4. fresh \subseteq named
  BY DEF Fresh
<1>5. ASSUME NEW m \in fresh
      PROVE  /\ \A n \in DOMAIN localKeys : localKeys[n] # keys[m]
             /\ Winner(named, keys, keys[m]) \in DOMAIN converted
  BY DEF Fresh
<1>6. \A m \in named :
         \/ \E n \in DOMAIN localKeys : localKeys[n] = keys[m]
         \/ Winner(named, keys, keys[m]) \notin DOMAIN converted
         \/ \E f \in fresh : keys[f] = keys[m]
  BY <1>3
<1> QED BY <1>2, <1>4, <1>5, <1>6

-----------------------------------------------------------------------------
(* Two lists, one behind the other. *)
LEMMA ConcatOf ==
  ASSUME NEW K \in Nat, NEW C \in Nat, NEW first, NEW rest,
         DOMAIN first = 1..K, first = [n \in DOMAIN first |-> first[n]],
         DOMAIN rest = 1..C, rest = [n \in DOMAIN rest |-> rest[n]],
         NEW both, both = first \o rest
  PROVE  /\ DOMAIN both = 1..(K + C)
         /\ \A i \in 1..K : both[i] = first[i]
         /\ \A i \in (K + 1)..(K + C) : both[i] = rest[i - K]
<1>1. PICK S : S = {first[n] : n \in 1..K} \cup {rest[n] : n \in 1..C}
  OBVIOUS
<1>2. first \in Seq(S) /\ Len(first) = K
  <2>1. first \in [1..K -> S]
    BY <1>1
  <2> QED BY <2>1
<1>3. rest \in Seq(S) /\ Len(rest) = C
  <2>1. rest \in [1..C -> S]
    BY <1>1
  <2> QED BY <2>1
<1>4. /\ both \in Seq(S) /\ Len(both) = Len(first) + Len(rest)
      /\ \A i \in 1..(Len(first) + Len(rest)) :
            both[i] = IF i <= Len(first) THEN first[i] ELSE rest[i - Len(first)]
  BY <1>2, <1>3, ConcatProperties, Zenon
<1>5. /\ both \in Seq(S) /\ Len(both) = K + C
      /\ \A i \in 1..(K + C) : both[i] = IF i <= K THEN first[i] ELSE rest[i - K]
  BY <1>2, <1>3, <1>4
<1> QED BY <1>5

(* The merged list has T entries: first the local ones in their places, then
   one for each fresh key; source tells which. *)
MergedFrom(merged, T, source, K, local, localKeys, remote, keys, converted, named, fresh) ==
    /\ K <= T
    /\ DOMAIN merged = 1..T
    /\ \A n \in 1..K :
          merged[n] = IF \E m \in named : keys[m] = localKeys[n]
                         THEN [local[n] EXCEPT !.id =
                                 remote[Winner(named, keys, localKeys[n])].id]
                         ELSE local[n]
    /\ \A n \in (K + 1)..T : merged[n] = converted[Winner(named, keys, keys[source[n]])]
    /\ \A a, b \in (K + 1)..T : source[a] = source[b] => a = b
    /\ \A f \in fresh : \E n \in (K + 1)..T : source[n] = f

(* Merge, entry by entry, for lists of any length. *)
LEMMA MergeEntries ==
  ASSUME NEW K \in Nat, NEW N \in Nat, NEW local, NEW localKeys, NEW remote, NEW keys, NEW converted,
         DOMAIN local = 1..K, DOMAIN keys = 1..N,
         NEW named, named = Named(remote, keys),
         NEW fresh, fresh = Fresh(localKeys, remote, keys, converted),
         NEW merged, merged = Merge(local, localKeys, remote, keys, converted)
  PROVE  \E T \in Nat : \E source \in [(K + 1)..T -> fresh] :
            MergedFrom(merged, T, source, K, local, localKeys, remote, keys, converted,
                       named, fresh)
<1>1. fresh \in SUBSET (1..N)
  BY DEF Fresh, Named
<1>2. PICK first, rest, entry :
         /\ first = Matched(local, localKeys, remote, keys)
         /\ rest = Appended(localKeys, remote, keys, converted)
         /\ entry = [m \in fresh |-> converted[Winner(named, keys, keys[m])]]
  OBVIOUS
<1>3. merged = first \o rest
  BY <1>2 DEF Merge
<1>4. first = [n \in 1..K |-> IF \E m \in named : keys[m] = localKeys[n]
                  THEN [local[n] EXCEPT !.id = remote[Winner(named, keys, localKeys[n])].id]
                  ELSE local[n]]
  BY <1>2 DEF Matched
<1>5. rest = Keep(entry, fresh)
  BY <1>2 DEF Appended
<1>6. PICK C \in Nat : \E at \in [1..C -> fresh] : IsKept(rest, C, at, entry, fresh)
  BY <1>1, <1>5, KeepOf
<1>7. PICK at \in [1..C -> fresh] : IsKept(rest, C, at, entry, fresh)
  BY <1>6
<1>8. /\ DOMAIN rest = 1..C
      /\ \A n \in 1..C : rest[n] = converted[Winner(named, keys, keys[at[n]])]
      /\ \A a, b \in 1..C : at[a] = at[b] => a = b
      /\ \A f \in fresh : \E n \in 1..C : at[n] = f
  BY <1>2, <1>7 DEF IsKept
<1>9. /\ DOMAIN merged = 1..(K + C)
      /\ \A i \in 1..K : merged[i] = first[i]
      /\ \A i \in (K + 1)..(K + C) : merged[i] = rest[i - K]
  <2>1. DOMAIN first = 1..K /\ first = [n \in DOMAIN first |-> first[n]]
    BY <1>4
  <2>2. rest = [n \in DOMAIN rest |-> rest[n]]
    BY <1>5 DEF Keep
  <2> QED BY <1>3, <1>8, <2>1, <2>2, ConcatOf
<1>10. PICK T \in Nat : T = K + C
  OBVIOUS
<1> DEFINE source == [n \in (K + 1)..T |-> at[n - K]]
<1>11. \A n \in (K + 1)..T : n - K \in 1..C
  BY <1>10
<1>12. source \in [(K + 1)..T -> fresh] /\ \A n \in (K + 1)..T : source[n] = at[n - K]
  BY <1>11
<1> HIDE DEF source
<1>13. ASSUME NEW a \in (K + 1)..T, NEW b \in (K + 1)..T, source[a] = source[b] PROVE a = b
  <2>0. PICK i \in 1..C, j \in 1..C : i = a - K /\ j = b - K
    BY <1>11
  <2>1. at[i] = at[j]
    BY <1>12, <1>13, <2>0
  <2>2. a - K = b - K
    BY <1>8, <2>0, <2>1
  <2>3. a \in Int /\ b \in Int
    BY <1>10
  <2> QED BY <2>2, <2>3
<1>14. ASSUME NEW f \in fresh PROVE \E n \in (K + 1)..T : source[n] = f
  <2>1. PICK k \in 1..C : at[k] = f
    BY <1>8
  <2>2. K + k \in (K + 1)..T /\ (K + k) - K = k
    BY <1>10
  <2> QED BY <1>12, <2>1, <2>2
<1>15. ASSUME NEW n \in 1..K
       PROVE  merged[n] = IF \E m \in named : keys[m] = localKeys[n]
                THEN [local[n] EXCEPT !.id = remote[Winner(named, keys, localKeys[n])].id]
                ELSE local[n]
  <2>1. merged[n] = first[n]
    BY <1>9
  <2> QED BY <1>4, <2>1
<1>16. ASSUME NEW n \in (K + 1)..T
       PROVE  merged[n] = converted[Winner(named, keys, keys[source[n]])]
  <2>1. merged[n] = rest[n - K]
    BY <1>9, <1>10
  <2>2. PICK k \in 1..C : k = n - K
    BY <1>11
  <2>3. merged[n] = converted[Winner(named, keys, keys[at[k]])]
    BY <1>8, <2>1, <2>2
  <2>4. source[n] = at[k]
    BY <1>12, <2>2
  <2> QED BY <2>3, <2>4
<1>17. K <= T /\ DOMAIN merged = 1..T
  BY <1>9, <1>10
<1>18. source \in [(K + 1)..T -> fresh]
  BY <1>12
<1> WITNESS T \in Nat
<1> WITNESS source \in [(K + 1)..T -> fresh]
<1> QED BY <1>13, <1>14, <1>15, <1>16, <1>17 DEF MergedFrom

-----------------------------------------------------------------------------
(* Entry w of the server is the one that counts for its key. *)
Counts(named, keys, w) == w \in named /\ \A j \in named : keys[j] = keys[w] => j <= w

(* Some entry counts for every key that is named. *)
LEMMA SomeCounts ==
  ASSUME NEW N \in Nat, NEW named \in SUBSET (1..N), NEW keys, NEW m \in named
  PROVE  \E w \in named : keys[w] = keys[m] /\ Counts(named, keys, w)
BY WinnerOf DEF Counts

(* Only one entry counts for a key. *)
LEMMA OneCounts ==
  ASSUME NEW N \in Nat, NEW named \in SUBSET (1..N), NEW keys,
         NEW v, NEW w, Counts(named, keys, v), Counts(named, keys, w), keys[v] = keys[w]
  PROVE  v = w
<1>1. v \in named /\ w \in named /\ v <= w /\ w <= v
  BY DEF Counts
<1>2. v \in Nat /\ w \in Nat
  BY <1>1
<1> QED BY <1>1, <1>2

(* The merge, entry by entry: a local entry is as it was, or has the id of the
   entry that counts for its key; each further entry is the one that counts for
   a key without a local counterpart; no key is appended twice, and none is
   left out that can be converted. *)
IsMerge(merged, T, winner, K, local, localKeys, remote, keys, converted, named) ==
    /\ K <= T
    /\ DOMAIN merged = 1..T
    /\ \A n \in 1..K :
          \/ merged[n] = local[n] /\ \A m \in named : keys[m] # localKeys[n]
          \/ \E w \in named : /\ Counts(named, keys, w)
                              /\ keys[w] = localKeys[n]
                              /\ merged[n] = [local[n] EXCEPT !.id = remote[w].id]
    /\ \A n \in (K + 1)..T :
          /\ Counts(named, keys, winner[n])
          /\ winner[n] \in DOMAIN converted /\ merged[n] = converted[winner[n]]
          /\ \A l \in 1..K : localKeys[l] # keys[winner[n]]
    /\ \A a, b \in (K + 1)..T : keys[winner[a]] = keys[winner[b]] => a = b
    /\ \A w \in named : Counts(named, keys, w) =>
          \/ \E l \in 1..K : localKeys[l] = keys[w]
          \/ w \notin DOMAIN converted
          \/ \E n \in (K + 1)..T : winner[n] = w

(* Merge, which the overlays of sensors and of devices are, does that. *)
THEOREM MergeOf ==
  ASSUME NEW K \in Nat, NEW N \in Nat, NEW local, NEW localKeys, NEW remote, NEW keys, NEW converted,
         DOMAIN local = 1..K, DOMAIN localKeys = 1..K, DOMAIN keys = 1..N,
         NEW named, named = Named(remote, keys),
         NEW merged, merged = Merge(local, localKeys, remote, keys, converted)
  PROVE  \E T \in Nat : \E winner \in [(K + 1)..T -> named] :
            IsMerge(merged, T, winner, K, local, localKeys, remote, keys, converted, named)
<1>0. PICK fresh : fresh = Fresh(localKeys, remote, keys, converted)
  OBVIOUS
<1> DEFINE W(m) == Winner(named, keys, keys[m])
<1>1. named \in SUBSET (1..N)
  BY DEF Named
<1>2. /\ fresh \subseteq named
      /\ \A m \in fresh : (\A n \in 1..K : localKeys[n] # keys[m]) /\ W(m) \in DOMAIN converted
      /\ \A a, b \in fresh : keys[a] = keys[b] => a = b
      /\ \A m \in named : \/ \E n \in 1..K : localKeys[n] = keys[m]
                         \/ W(m) \notin DOMAIN converted
                         \/ \E f \in fresh : keys[f] = keys[m]
  BY <1>0, FreshOf
<1>3. ASSUME NEW m \in named
      PROVE  W(m) \in named /\ keys[W(m)] = keys[m] /\ Counts(named, keys, W(m))
  BY <1>1, WinnerOf DEF Counts
<1>a. PICK T \in Nat : \E source \in [(K + 1)..T -> fresh] :
            MergedFrom(merged, T, source, K, local, localKeys, remote, keys, converted,
                       named, fresh)
  BY <1>0, MergeEntries
<1>b. PICK source \in [(K + 1)..T -> fresh] :
            MergedFrom(merged, T, source, K, local, localKeys, remote, keys, converted,
                       named, fresh)
  BY <1>a
<1>4. /\ K <= T
      /\ DOMAIN merged = 1..T
      /\ \A n \in 1..K :
            merged[n] = IF \E m \in named : keys[m] = localKeys[n]
                           THEN [local[n] EXCEPT !.id =
                                   remote[Winner(named, keys, localKeys[n])].id]
                           ELSE local[n]
      /\ \A n \in (K + 1)..T : merged[n] = converted[W(source[n])]
      /\ \A a, b \in (K + 1)..T : source[a] = source[b] => a = b
      /\ \A f \in fresh : \E n \in (K + 1)..T : source[n] = f
  BY <1>b DEF MergedFrom
<1> DEFINE winner == [n \in (K + 1)..T |-> W(source[n])]
<1>5. ASSUME NEW n \in (K + 1)..T
      PROVE  /\ source[n] \in fresh /\ source[n] \in named
             /\ winner[n] = W(source[n]) /\ winner[n] \in named
             /\ keys[winner[n]] = keys[source[n]]
             /\ Counts(named, keys, winner[n])
  BY <1>2, <1>3
<1> HIDE DEF W
<1>6. winner \in [(K + 1)..T -> named]
  BY <1>5
<1>7. ASSUME NEW n \in 1..K
      PROVE  \/ merged[n] = local[n] /\ \A m \in named : keys[m] # localKeys[n]
             \/ \E w \in named : /\ Counts(named, keys, w)
                                 /\ keys[w] = localKeys[n]
                                 /\ merged[n] = [local[n] EXCEPT !.id = remote[w].id]
  <2>1. CASE \A m \in named : keys[m] # localKeys[n]
    BY <1>4, <2>1
  <2>2. ASSUME NEW m \in named, keys[m] = localKeys[n]
        PROVE  merged[n] = [local[n] EXCEPT !.id = remote[W(m)].id]
    BY <1>4, <2>2 DEF W
  <2> QED BY <1>3, <2>1, <2>2
<1>8. ASSUME NEW n \in (K + 1)..T
      PROVE  /\ winner[n] \in DOMAIN converted /\ merged[n] = converted[winner[n]]
             /\ \A l \in 1..K : localKeys[l] # keys[winner[n]]
  BY <1>2, <1>4, <1>5
<1> HIDE DEF winner
<1>9. ASSUME NEW a \in (K + 1)..T, NEW b \in (K + 1)..T, keys[winner[a]] = keys[winner[b]]
      PROVE  a = b
  BY <1>2, <1>4, <1>5, <1>9
<1>10. ASSUME NEW w \in named, Counts(named, keys, w),
              \A l \in 1..K : localKeys[l] # keys[w], w \in DOMAIN converted
       PROVE  \E n \in (K + 1)..T : winner[n] = w
  <2>1. W(w) = w
    BY <1>1, <1>3, <1>10, OneCounts
  <2>2. PICK f \in fresh : keys[f] = keys[w]
    BY <1>2, <1>10, <2>1
  <2>3. PICK n \in (K + 1)..T : source[n] = f
    BY <1>4
  <2>4. Counts(named, keys, winner[n]) /\ keys[winner[n]] = keys[w]
    BY <1>5, <2>2, <2>3
  <2>5. winner[n] = w
    BY <1>1, <1>10, <2>4, OneCounts
  <2> QED BY <2>5
<1>11. K <= T /\ DOMAIN merged = 1..T
  BY <1>4
<1> WITNESS T \in Nat
<1> WITNESS winner \in [(K + 1)..T -> named]
<1> QED BY <1>5, <1>7, <1>8, <1>9, <1>10, <1>11 DEF IsMerge

-----------------------------------------------------------------------------
(* The key that brought the entry at place p into a merged list. *)
EntryKey(p, winner, K, localKeys, keys) == IF p <= K THEN localKeys[p] ELSE keys[winner[p]]

(* No key brings in two entries, as long as it is not in the local list twice. *)
LEMMA EntriesDistinct ==
  ASSUME NEW K \in Nat, NEW T \in Nat, NEW winner, NEW merged, NEW local, NEW localKeys,
         NEW remote, NEW keys, NEW converted, NEW named,
         IsMerge(merged, T, winner, K, local, localKeys, remote, keys, converted, named),
         NEW p \in 1..T, NEW q \in 1..T,
         EntryKey(p, winner, K, localKeys, keys) = EntryKey(q, winner, K, localKeys, keys),
         \A a, b \in 1..K : localKeys[a] = EntryKey(p, winner, K, localKeys, keys)
                            /\ localKeys[a] = localKeys[b] => a = b
  PROVE  p = q
<1>1. /\ \A n \in (K + 1)..T : \A l \in 1..K : localKeys[l] # keys[winner[n]]
      /\ \A a, b \in (K + 1)..T : keys[winner[a]] = keys[winner[b]] => a = b
  BY DEF IsMerge
<1>2. ASSUME NEW n \in 1..T
      PROVE  \/ n \in 1..K /\ EntryKey(n, winner, K, localKeys, keys) = localKeys[n]
             \/ n \in (K + 1)..T /\ EntryKey(n, winner, K, localKeys, keys) = keys[winner[n]]
  <2>1. CASE n <= K
    BY <2>1 DEF EntryKey
  <2>2. CASE ~(n <= K)
    BY <2>2 DEF EntryKey
  <2> QED BY <2>1, <2>2
<1>3. CASE p \in 1..K /\ EntryKey(p, winner, K, localKeys, keys) = localKeys[p]
  BY <1>1, <1>2, <1>3
<1>4. CASE p \in (K + 1)..T /\ EntryKey(p, winner, K, localKeys, keys) = keys[winner[p]]
  BY <1>1, <1>2, <1>4
<1> QED BY <1>2, <1>3, <1>4

(* The entry that counts for a key and can be converted is in the merged list:
   its id at the place of its local counterpart, or its converted form. *)
IsPresent(p, w, merged, winner, K, local, localKeys, remote, keys, converted) ==
    /\ EntryKey(p, winner, K, localKeys, keys) = keys[w]
    /\ \/ p \in 1..K /\ merged[p] = [local[p] EXCEPT !.id = remote[w].id]
       \/ merged[p] = converted[w]

(* Each entry that counts and has a local form is in the list. *)
LEMMA EntryPresent ==
  ASSUME NEW K \in Nat, NEW T \in Nat, NEW winner, NEW merged, NEW local, NEW localKeys,
         NEW remote, NEW keys, NEW converted, NEW N \in Nat, NEW named \in SUBSET (1..N),
         IsMerge(merged, T, winner, K, local, localKeys, remote, keys, converted, named),
         NEW w \in named, Counts(named, keys, w), w \in DOMAIN converted
  PROVE  \E p \in 1..T :
            IsPresent(p, w, merged, winner, K, local, localKeys, remote, keys, converted)
<1>0. K <= T
  BY DEF IsMerge
<1>1. CASE \E l \in 1..K : localKeys[l] = keys[w]
  <2>1. PICK l \in 1..K : localKeys[l] = keys[w]
    BY <1>1
  <2>2. PICK v \in named : /\ Counts(named, keys, v) /\ keys[v] = localKeys[l]
                          /\ merged[l] = [local[l] EXCEPT !.id = remote[v].id]
    BY <2>1 DEF IsMerge
  <2>3. v = w
    BY <2>1, <2>2, OneCounts
  <2>4. l \in 1..T /\ EntryKey(l, winner, K, localKeys, keys) = localKeys[l]
    BY <1>0 DEF EntryKey
  <2> QED BY <2>1, <2>2, <2>3, <2>4 DEF IsPresent
<1>2. CASE \A l \in 1..K : localKeys[l] # keys[w]
  <2>1. PICK n \in (K + 1)..T : winner[n] = w
    BY <1>2 DEF IsMerge
  <2>2. merged[n] = converted[w]
    BY <2>1 DEF IsMerge
  <2>3. n \in 1..T /\ EntryKey(n, winner, K, localKeys, keys) = keys[w]
    BY <2>1 DEF EntryKey
  <2> QED BY <2>2, <2>3 DEF IsPresent
<1> QED BY <1>1, <1>2
=============================================================================
