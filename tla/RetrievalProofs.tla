---------------------------- MODULE RetrievalProofs ----------------------------
(* What a search of MemGate returns, for every store, ranking, query and limit. *)
(* The loop that removes similar results is a function by recursion over them;  *)
(* what holds of it after every pass is proved by way of the first pass after   *)
(* which it would not.                                                          *)
EXTENDS MemGateProofs, WellFoundedInduction

-----------------------------------------------------------------------------
(* Natural numbers and recursion over them.                                     *)

LEMMA Least ==
  ASSUME NEW T \in SUBSET Nat, T # {}
  PROVE \E n \in T : \A m \in T : n <= m
<1> DEFINE R == {p \in Nat \X Nat : p[1] < p[2]}
<1>1. IsWellFoundedOn(R, Nat)
  BY NatLessThanWellFounded DEF OpToRel
<1>2. \E n \in T : \A m \in T : <<m, n>> \notin R
  <2> HIDE DEF R
  <2> QED
    BY <1>1, WFMin
<1>3. PICK n \in T : \A m \in T : <<m, n>> \notin R
  BY <1>2
<1>4. ASSUME NEW m \in T PROVE n <= m
  <2>1. <<m, n>> \in Nat \X Nat /\ <<m, n>> \notin R
    BY <1>3
  <2> QED
    BY <2>1
<1> QED
  BY <1>4

LEMMA Greatest ==
  ASSUME NEW b \in Nat, NEW T \in SUBSET (0 .. b), T # {}
  PROVE \E n \in T : \A m \in T : m <= n
<1>1. PICK d \in {b - n : n \in T} : \A e \in {b - n : n \in T} : d <= e
  <2>1. ASSUME NEW n \in T PROVE b - n \in Nat
    <3>1. n \in 0 .. b
      OBVIOUS
    <3> QED
      BY <3>1
  <2>2. {b - n : n \in T} # {}
    OBVIOUS
  <2>3. {b - n : n \in T} \in SUBSET Nat
    BY <2>1
  <2> QED
    BY ONLY <2>2, <2>3, Least
<1>2. PICK n \in T : d = b - n
  BY <1>1
<1>3. ASSUME NEW m \in T PROVE m <= n
  <2>1. b - n <= b - m
    BY <1>1, <1>2
  <2> QED
    BY <2>1
<1> QED
  BY <1>3

(* The loop over the results has an outcome.                                    *)
Loop(results, n, g) ==
  g = [i \in 0 .. n |-> IF i = 0 THEN {} ELSE Pass(results, i, g[i - 1])]

LEMMA LoopExists ==
  ASSUME NEW results, NEW n \in Nat
  PROVE \E g : Loop(results, n, g)
<1> DEFINE T == {k \in Nat : ~ \E g : Loop(results, k, g)}
<1> SUFFICES ASSUME T # {} PROVE FALSE
  OBVIOUS
<1>1. PICK k \in T : \A m \in T : k <= m
  <2>1. T \in SUBSET Nat /\ T # {}
    OBVIOUS
  <2> HIDE DEF T
  <2> QED
    BY <2>1, Least
<1>2. k # 0
  <2>1. Loop(results, 0, [i \in 0 .. 0 |-> {}])
    BY DEF Loop
  <2> QED
    BY <2>1
<1>3. k - 1 \in Nat /\ k - 1 \notin T
  BY <1>1, <1>2
<1>4. PICK g : Loop(results, k - 1, g)
  BY <1>3
<1> DEFINE h == [i \in 0 .. k |-> IF i = k THEN Pass(results, k, g[k - 1]) ELSE g[i]]
<1>5. ASSUME NEW i \in 0 .. k
      PROVE h[i] = IF i = 0 THEN {} ELSE Pass(results, i, h[i - 1])
  <2>1. g = [j \in 0 .. k - 1 |-> IF j = 0 THEN {} ELSE Pass(results, j, g[j - 1])]
    BY <1>4 DEF Loop
  <2>2. i # k => i \in 0 .. k - 1
    BY <1>3
  <2>3. i # 0 => i - 1 \in 0 .. k /\ i - 1 # k
    BY <1>3
  <2> QED
    BY <1>2, <2>1, <2>2, <2>3
<1>6. Loop(results, k, h)
  BY <1>5 DEF Loop
<1> QED
  BY <1>6

LEMMA DedupIsLoop ==
  ASSUME NEW results, Len(results) \in Nat
  PROVE \E g : Loop(results, Len(results), g) /\ Dedup(results) = ToSet(results) \ g[Len(results)]
<1> DEFINE G == CHOOSE g : g = [i \in 0 .. Len(results) |->
                                  IF i = 0 THEN {} ELSE Pass(results, i, g[i - 1])]
<1>1. Loop(results, Len(results), G)
  BY LoopExists DEF Loop
<1>2. Dedup(results) = ToSet(results) \ G[Len(results)]
  BY DEF Dedup
<1> QED
  BY <1>1, <1>2

-----------------------------------------------------------------------------
(* Rankings, and the first rows in one.                                         *)

Ranks(s, S) ==
  /\ s \in Seq(S)
  /\ \A i, j \in 1 .. Len(s) : s[i] = s[j] => i = j
  /\ Elems(s) = S

LEMMA Ranking ==
  ASSUME NEW S, IsFiniteSet(S), NEW s \in SetToSeqs(S)
  PROVE Ranks(s, S)
<1> DEFINE n == Cardinality(S)
<1>1. n \in Nat
  BY FS_CardinalityType
<1>2. s \in [1 .. n -> S] /\ \A i, j \in 1 .. n : s[i] = s[j] => i = j
  BY DEF SetToSeqs
<1>3. s \in Seq(S) /\ Len(s) = n
  BY <1>1, <1>2
<1>4. s \in Surjection(1 .. n, S)
  <2>1. IsFiniteSet(1 .. n) /\ Cardinality(1 .. n) = n
    BY <1>1, FS_Interval
  <2>2. s \in Injection(1 .. n, S)
    BY <1>2 DEF Injection, IsInjective
  <2> QED
    BY <2>1, <2>2, FS_Injection
<1>5. Elems(s) = S
  BY <1>2, <1>3, <1>4 DEF Surjection, Elems
<1> QED
  BY <1>2, <1>3, <1>5 DEF Ranks

(* What comes first is part of what was asked for, no more than the limit; all  *)
(* of it when there is no more, and never nothing when there is something.      *)
LEMMA FirstFacts ==
  ASSUME NEW U, NEW s, Ranks(s, U), NEW S \in SUBSET U, NEW k \in Nat
  PROVE /\ First(s, S, k) \subseteq S
        /\ IsFiniteSet(First(s, S, k)) /\ Cardinality(First(s, S, k)) <= k
        /\ IsFiniteSet(S)
        /\ S # {} /\ k > 0 => First(s, S, k) # {}
        /\ Cardinality(S) <= k => First(s, S, k) = S
<1> DEFINE n == Len(s)
           hits == {i \in 1 .. n : s[i] \in S}
           Before(i) == {j \in hits : j < i}
           chosen == {i \in hits : Cardinality(Before(i)) < k}
<1>1. /\ s \in Seq(U) /\ n \in Nat /\ DOMAIN s = 1 .. n
      /\ \A i, j \in 1 .. n : s[i] = s[j] => i = j
      /\ \A x \in U : \E i \in 1 .. n : s[i] = x
  BY DEF Ranks, Elems
<1>2. First(s, S, k) = {s[i] : i \in chosen}
  BY <1>1 DEF First
<1>3. IsFiniteSet(hits)
  <2>1. IsFiniteSet(1 .. n) /\ hits \in SUBSET (1 .. n)
    BY <1>1, FS_Interval
  <2> QED
    BY <2>1, FS_Subset
<1>4. IsFiniteSet(S)
  <2>1. [i \in hits |-> s[i]] \in Surjection(hits, S)
    BY <1>1 DEF Surjection
  <2> QED
    BY <1>3, <2>1, FS_Surjection
<1>5. ASSUME NEW i \in hits PROVE IsFiniteSet(Before(i)) /\ Cardinality(Before(i)) \in Nat
  BY <1>3, FS_Subset, FS_CardinalityType
<1>6. IsFiniteSet(chosen) /\ Cardinality(chosen) <= k
  <2> DEFINE f == [i \in chosen |-> Cardinality(Before(i))]
  <2>1. f \in [chosen -> 0 .. k - 1]
    <3>1. ASSUME NEW i \in chosen PROVE Cardinality(Before(i)) \in 0 .. k - 1
      <4>1. Cardinality(Before(i)) \in Nat /\ Cardinality(Before(i)) < k
        BY <1>5
      <4> HIDE DEF Before
      <4> QED
        BY <4>1
    <3> HIDE DEF Before, chosen
    <3> QED
      BY <3>1
  <2>2. ASSUME NEW i \in chosen, NEW j \in chosen, i < j PROVE f[i] # f[j]
    <3>1. Before(i) \subseteq Before(j) /\ i \in Before(j) /\ i \notin Before(i)
      BY <1>1, <2>2
    <3>2. Cardinality(Before(i)) # Cardinality(Before(j))
      BY <1>5, <3>1, FS_Subset
    <3> QED
      BY <3>2
  <2>3. IsInjective(f)
    <3>1. ASSUME NEW i \in chosen, NEW j \in chosen, f[i] = f[j] PROVE i = j
      <4>1. i \in Nat /\ j \in Nat
        BY <1>1
      <4> HIDE DEF f, chosen
      <4> QED
        BY <2>2, <3>1, <4>1
    <3> QED
      BY <3>1 DEF IsInjective
  <2>4. IsFiniteSet(0 .. k - 1) /\ Cardinality(0 .. k - 1) = k
    BY FS_Interval
  <2>5. f \in Injection(chosen, 0 .. k - 1)
    BY <2>1, <2>3 DEF Injection
  <2> HIDE DEF f
  <2> QED
    BY <2>4, <2>5, FS_Injection
<1>7. IsFiniteSet(First(s, S, k)) /\ Cardinality(First(s, S, k)) <= k
  <2>1. [i \in chosen |-> s[i]] \in Surjection(chosen, First(s, S, k))
    BY <1>2 DEF Surjection
  <2>2. IsFiniteSet(First(s, S, k)) /\ Cardinality(First(s, S, k)) <= Cardinality(chosen)
    BY <1>6, <2>1, FS_Surjection
  <2>3. Cardinality(chosen) \in Nat /\ Cardinality(First(s, S, k)) \in Nat
    BY <1>6, <2>2, FS_CardinalityType
  <2> QED
    BY <1>6, <2>2, <2>3
<1>8. ASSUME S # {}, k > 0 PROVE First(s, S, k) # {}
  <2>1. hits \in SUBSET Nat /\ hits # {}
    BY <1>1, <1>8
  <2>2. PICK i \in hits : \A j \in hits : i <= j
    <3> HIDE DEF hits
    <3> QED
      BY <2>1, Least
  <2>3. Before(i) = {}
    BY <1>1, <2>2
  <2>4. i \in chosen
    BY <1>8, <2>3, FS_EmptySet
  <2> QED
    BY <1>2, <2>4
<1>9. ASSUME Cardinality(S) <= k PROVE First(s, S, k) = S
  <2>1. ASSUME NEW i \in hits PROVE i \in chosen
    <3> DEFINE T == S \ {s[i]}
               f == [j \in Before(i) |-> s[j]]
    <3>1. IsFiniteSet(T) /\ Cardinality(T) = Cardinality(S) - 1
      BY <1>4, FS_RemoveElement
    <3>2. f \in [Before(i) -> T]
      BY <1>1
    <3>3. IsInjective(f)
      BY <1>1 DEF IsInjective
    <3>4. f \in Injection(Before(i), T)
      BY <3>2, <3>3 DEF Injection
    <3>5. Cardinality(Before(i)) <= Cardinality(T)
      <4> HIDE DEF f, T, Before
      <4> QED
        BY <3>1, <3>4, FS_Injection
    <3>6. Cardinality(S) \in Nat
      BY <1>4, FS_CardinalityType
    <3> QED
      BY <1>5, <1>9, <3>1, <3>5, <3>6
  <2>2. ASSUME NEW x \in S PROVE x \in First(s, S, k)
    <3>1. PICK i \in hits : s[i] = x
      BY <1>1
    <3> HIDE DEF hits, chosen
    <3> QED
      BY <1>2, <2>1, <3>1
  <2>3. First(s, S, k) \subseteq S
    BY <1>2
  <2> QED
    BY <2>2, <2>3
<1> QED
  BY <1>2, <1>4, <1>7, <1>8, <1>9

-----------------------------------------------------------------------------
(* Deduplication.                                                               *)

(* After i passes over the results, which are the rows of S: the newest of all  *)
(* is there, and of two similar ones, the first of which had its pass, one is   *)
(* gone.                                                                        *)
Passed(results, S, i, gone) ==
  /\ gone \subseteq S
  /\ \A r \in S : (\A q \in S : q <= r) => r \notin gone
  /\ \A a \in 1 .. i, b \in 1 .. Len(results) :
       a < b /\ Alike(mems[results[a]].text, mems[results[b]].text)
         => results[a] \in gone \/ results[b] \in gone

LEMMA PassStep ==
  ASSUME NEW S \in SUBSET Nat, NEW results, Ranks(results, S),
         NEW i \in 1 .. Len(results), NEW gone, Passed(results, S, i - 1, gone)
  PROVE Passed(results, S, i, Pass(results, i, gone))
<1> DEFINE n == Len(results)
           mine == results[i]
           rivals == {j \in i + 1 .. n :
                        results[j] \notin gone /\ Alike(mems[mine].text, mems[results[j]].text)}
           newer == {j \in rivals : results[j] > mine}
           beaten == {results[j] : j \in {j \in rivals : \A k \in newer : j < k}}
           next == Pass(results, i, gone)
<1>1. /\ n \in Nat /\ i \in 1 .. n /\ \A j \in 1 .. n : results[j] \in S
      /\ \A j, k \in 1 .. n : results[j] = results[k] => j = k
  <2>1. results \in Seq(S) /\ n \in Nat
    BY DEF Ranks
  <2> QED
    BY <2>1 DEF Ranks
<1>2. next = IF mine \in gone THEN gone
             ELSE gone \cup beaten \cup (IF newer = {} THEN {} ELSE {mine})
  BY DEF Pass, Newer
<1>3. gone \subseteq next /\ next \subseteq S
  <2>1. gone \subseteq S /\ beaten \subseteq S /\ mine \in S
    BY <1>1 DEF Passed
  <2> HIDE DEF beaten, newer, mine, next
  <2> QED
    BY <1>2, <2>1
<1>4. ASSUME NEW r \in S, \A q \in S : q <= r PROVE r \notin next
  <2>1. r \notin gone
    BY <1>4 DEF Passed
  <2>2. r \notin beaten
    <3> SUFFICES ASSUME NEW j \in rivals, \A k \in newer : j < k, results[j] = r PROVE FALSE
      OBVIOUS
    <3>1. j \in 1 .. n /\ j # i /\ mine \in S
      BY <1>1
    <3>2. mine \in Nat /\ r \in Nat /\ mine # r /\ mine <= r
      BY <1>1, <1>4, <3>1
    <3>3. results[j] > mine
      BY <3>2
    <3>4. j \in newer
      BY <3>3
    <3>5. j \in Nat /\ j < j
      BY <3>1, <3>4
    <3> QED
      BY <3>5
  <2>3. mine = r => newer = {}
    <3> SUFFICES ASSUME mine = r, NEW j \in newer PROVE FALSE
      OBVIOUS
    <3>1. j \in 1 .. n /\ results[j] > r
      BY <1>1
    <3>2. results[j] \in S /\ results[j] <= r
      BY <1>1, <1>4, <3>1
    <3>3. results[j] \in Nat /\ r \in Nat
      BY <3>2
    <3> QED
      BY <3>1, <3>2, <3>3
  <2> HIDE DEF beaten, newer, mine, next
  <2> QED
    BY <1>2, <2>1, <2>2, <2>3
<1>5. ASSUME NEW a \in 1 .. i, NEW b \in 1 .. n, a < b,
             Alike(mems[results[a]].text, mems[results[b]].text)
      PROVE results[a] \in next \/ results[b] \in next
  <2>1. CASE a # i
    <3>1. a \in 1 .. i - 1
      BY <1>1, <2>1
    <3>2. results[a] \in gone \/ results[b] \in gone
      BY <1>5, <3>1 DEF Passed
    <3> QED
      BY <1>3, <3>2
  <2>2. CASE a = i /\ mine \notin gone /\ results[b] \notin gone
    <3>1. b \in rivals
      BY <1>1, <1>5, <2>2
    <3>2. newer = {} => results[b] \in beaten
      BY <3>1
    <3> HIDE DEF rivals, newer, beaten, next
    <3> QED
      BY <1>2, <2>2, <3>2
  <2>3. CASE a = i /\ (mine \in gone \/ results[b] \in gone)
    BY <1>3, <2>3
  <2> QED
    BY <2>1, <2>2, <2>3
<1> QED
  BY <1>3, <1>4, <1>5 DEF Passed

LEMMA LoopPasses ==
  ASSUME NEW S \in SUBSET Nat, NEW results, Ranks(results, S),
         NEW g, Loop(results, Len(results), g)
  PROVE Passed(results, S, Len(results), g[Len(results)])
<1> DEFINE n == Len(results)
           T == {i \in 0 .. n : ~Passed(results, S, i, g[i])}
<1>1. n \in Nat
  BY DEF Ranks
<1>2. ASSUME NEW i \in 0 .. n
      PROVE g[i] = IF i = 0 THEN {} ELSE Pass(results, i, g[i - 1])
  BY DEF Loop
<1>3. Passed(results, S, 0, g[0])
  BY <1>1, <1>2 DEF Passed
<1> SUFFICES ASSUME T # {} PROVE FALSE
  BY <1>1
<1>4. PICK i \in T : \A m \in T : i <= m
  <2>1. T \in SUBSET Nat
    BY <1>1
  <2> HIDE DEF T
  <2> QED
    BY <2>1, Least
<1>5. i \in 1 .. n /\ i - 1 \in 0 .. n /\ i - 1 \notin T
  BY <1>1, <1>3, <1>4
<1>6. Passed(results, S, i - 1, g[i - 1])
  BY <1>5
<1>7. Passed(results, S, i, g[i])
  BY <1>2, <1>5, <1>6, PassStep
<1> QED
  BY <1>7

(* What is left says nothing twice, and has the newest of the results.          *)
LEMMA DedupFacts ==
  ASSUME TypeOK, NEW S \in SUBSET Rows, NEW results, Ranks(results, S)
  PROVE /\ Dedup(results) \subseteq S
        /\ \A r \in S : (\A q \in S : q <= r) => r \in Dedup(results)
        /\ \A r, q \in Dedup(results) : r # q => ~Alike(mems[r].text, mems[q].text)
<1> DEFINE n == Len(results)
<1>1. S \in SUBSET Nat /\ n \in Nat
  BY DEF Ranks, Rows
<1>2. PICK g : Loop(results, n, g) /\ Dedup(results) = ToSet(results) \ g[n]
  BY <1>1, DedupIsLoop
<1>3. Passed(results, S, n, g[n])
  BY <1>1, <1>2, LoopPasses
<1>4. ToSet(results) = S /\ \A r \in S : \E j \in 1 .. n : results[j] = r
  BY DEF Ranks, Elems, ToSet
<1>5. ASSUME NEW r \in S, NEW q \in S PROVE Alike(mems[r].text, mems[q].text) => Alike(mems[q].text, mems[r].text)
  <2>1. mems[r].text \in {p.text : p \in Payloads} /\ mems[q].text \in {p.text : p \in Payloads}
    BY DEF TypeOK, Texts
  <2> QED
    BY <2>1, MemGateAssumption DEF Alike
<1>6. ASSUME NEW r \in Dedup(results), NEW q \in Dedup(results), r # q
      PROVE ~Alike(mems[r].text, mems[q].text)
  <2>1. r \in S /\ q \in S /\ r \notin g[n] /\ q \notin g[n]
    BY <1>2, <1>4
  <2>2. PICK a \in 1 .. n : results[a] = r
    BY <1>4, <2>1
  <2>3. PICK b \in 1 .. n : results[b] = q
    BY <1>4, <2>1
  <2>4. a < b \/ b < a
    BY <1>6, <2>2, <2>3
  <2>5. a < b => ~Alike(mems[r].text, mems[q].text)
    BY <1>3, <2>1, <2>2, <2>3 DEF Passed
  <2>6. b < a => ~Alike(mems[q].text, mems[r].text)
    BY <1>3, <2>1, <2>2, <2>3 DEF Passed
  <2> QED
    BY <1>5, <2>1, <2>4, <2>5, <2>6
<1> QED
  BY <1>2, <1>3, <1>4, <1>6 DEF Passed

-----------------------------------------------------------------------------
(* The tiers find only active rows, something when there is any, and all of     *)
(* them while they are no more than a search may return.                        *)
LEMMA FoundFacts ==
  ASSUME IsFiniteSet(Active), NEW rank, Ranks(rank, Active), NEW hints, NEW near, NEW topic
  PROVE LET found == Found(rank, hints, near, topic) IN
        /\ found \subseteq Active
        /\ Active # {} => found # {}
        /\ Cardinality(Active) <= TopK => found = Active
<1> DEFINE wide == IF Cardinality(hints) > 1 THEN 3 * TopK ELSE TopK
           named == UNION {First(rank, Linked(n), wide) : n \in hints}
           themes == near \cup ({topic} \ {NoCluster})
           close == named \cup UNION {First(rank, InCluster(c), TopK) : c \in themes}
           size == Cardinality(close)
           more == First(rank, Active, TopK + size) \ close
           rest == First(rank, more, 2 * TopK - size)
           found == Found(rank, hints, near, topic)
<1>1. TopK \in Nat \ {0} /\ wide \in Nat
  BY MemGateAssumption
<1>2. close \subseteq Active
  <2>1. ASSUME NEW n \in hints PROVE First(rank, Linked(n), wide) \subseteq Active
    <3>1. Linked(n) \in SUBSET Active
      BY DEF Linked
    <3> HIDE DEF wide
    <3> QED
      BY <1>1, <3>1, FirstFacts
  <2>2. ASSUME NEW c \in themes PROVE First(rank, InCluster(c), TopK) \subseteq Active
    <3>1. InCluster(c) \in SUBSET Active
      BY DEF InCluster
    <3> QED
      BY <1>1, <3>1, FirstFacts
  <2> HIDE DEF wide, themes
  <2> QED
    BY <2>1, <2>2
<1>3. found = close \cup (IF size < TopK THEN rest ELSE {})
  BY DEF Found
<1> HIDE DEF close, found
<1>4. size \in Nat /\ Cardinality(Active) \in Nat /\ size <= Cardinality(Active)
  BY <1>2, FS_Subset, FS_CardinalityType
<1>5. /\ First(rank, Active, TopK + size) \subseteq Active
      /\ Active # {} => First(rank, Active, TopK + size) # {}
      /\ Cardinality(Active) <= TopK + size => First(rank, Active, TopK + size) = Active
  <2>1. TopK + size \in Nat /\ TopK + size > 0 /\ Active \in SUBSET Active
    BY <1>1, <1>4
  <2> HIDE DEF size
  <2> QED
    BY <2>1, FirstFacts
<1>6. more \in SUBSET Active
  BY <1>5
<1>7. size < TopK =>
        /\ rest \subseteq more
        /\ more # {} => rest # {}
        /\ Cardinality(more) <= 2 * TopK - size => rest = more
  <2> SUFFICES ASSUME size < TopK
               PROVE /\ rest \subseteq more
                     /\ more # {} => rest # {}
                     /\ Cardinality(more) <= 2 * TopK - size => rest = more
    OBVIOUS
  <2>1. 2 * TopK - size \in Nat /\ 2 * TopK - size > 0
    BY <1>1, <1>4
  <2> HIDE DEF size, more
  <2> QED
    BY <1>6, <2>1, FirstFacts
<1>8. found \subseteq Active
  <2> HIDE DEF more, rest, size
  <2> QED
    BY <1>2, <1>3, <1>6, <1>7
<1>9. ASSUME Active # {} PROVE found # {}
  <2> SUFFICES ASSUME close = {} PROVE found # {}
    BY <1>3
  <2>1. size = 0 /\ size < TopK
    BY <1>1, FS_EmptySet
  <2>2. more # {}
    BY <1>5, <1>9
  <2> HIDE DEF more, rest, size
  <2> QED
    BY <1>3, <1>7, <2>1, <2>2
<1>10. ASSUME Cardinality(Active) <= TopK PROVE found = Active
  <2>1. CASE size < TopK
    <3>1. more = Active \ close
      BY <1>1, <1>4, <1>5, <1>10
    <3>2. Cardinality(more) \in Nat /\ Cardinality(more) <= Cardinality(Active)
      BY <1>6, FS_Subset, FS_CardinalityType
    <3>3. Cardinality(more) <= 2 * TopK - size
      <4> HIDE DEF more, size
      <4> QED
        BY <1>1, <1>4, <1>10, <2>1, <3>2
    <3>4. rest = more
      BY <1>7, <2>1, <3>3
    <3> HIDE DEF more, rest, size
    <3> QED
      BY <1>2, <1>3, <2>1, <3>1, <3>4
  <2>2. CASE ~(size < TopK)
    <3>1. size = Cardinality(Active)
      BY <1>1, <1>4, <1>10, <2>2
    <3>2. close = Active
      BY <1>2, <3>1, FS_Subset
    <3> QED
      BY <1>3, <2>2, <3>2
  <2> QED
    BY <2>1, <2>2
<1> QED
  BY <1>8, <1>9, <1>10 DEF found

LEMMA ActiveFinite ==
  ASSUME ShapeInv
  PROVE /\ Rows \in SUBSET (0 .. Len(mems)) /\ Len(mems) \in Nat
        /\ Active \in SUBSET Rows /\ IsFiniteSet(Active)
<1>1. Len(mems) \in Nat
  BY DEF ShapeInv
<1>2. IsFiniteSet(Rows)
  BY <1>1, FS_Interval DEF Rows
<1>3. Active \in SUBSET Rows
  BY DEF Active
<1>4. Rows \in SUBSET (0 .. Len(mems))
  BY <1>1 DEF Rows
<1>5. IsFiniteSet(Active)
  BY <1>2, <1>3, FS_Subset
<1> QED
  BY <1>1, <1>3, <1>4, <1>5

LEMMA SearchAnswers ==
  ASSUME TypeOK, ShapeInv, Search
  PROVE Answers'
<1>1. PICK rank \in SetToSeqs(Active), hints \in SUBSET KnownNames,
           near \in {S \in SUBSET summaries : Cardinality(S) <= 2}, topic \in Topics(clusters) :
        \E results \in SetToSeqs(Found(rank, hints, near, topic)) :
          answer' = [kind |-> "search", rows |-> First(results, Dedup(results), TopK)]
  BY DEF Search
<1> DEFINE S == Found(rank, hints, near, topic)
<1>2. PICK results \in SetToSeqs(S) :
        answer' = [kind |-> "search", rows |-> First(results, Dedup(results), TopK)]
  BY <1>1
<1> DEFINE rows == First(results, Dedup(results), TopK)
<1>3. /\ S \subseteq Active
      /\ Active # {} => S # {}
      /\ Cardinality(Active) <= TopK => S = Active
  <2>1. IsFiniteSet(Active) /\ Ranks(rank, Active)
    BY ActiveFinite, Ranking
  <2> QED
    BY <2>1, FoundFacts
<1> HIDE DEF S
<1>4. IsFiniteSet(S) /\ S \in SUBSET Rows
  BY <1>3, ActiveFinite, FS_Subset
<1>5. Ranks(results, S)
  BY <1>2, <1>4, Ranking
<1>6. /\ Dedup(results) \subseteq S
      /\ \A r \in S : (\A q \in S : q <= r) => r \in Dedup(results)
      /\ \A r, q \in Dedup(results) : r # q => ~Alike(mems[r].text, mems[q].text)
  BY <1>4, <1>5, DedupFacts
<1>7. TopK \in Nat \ {0}
  BY MemGateAssumption
<1>8. /\ rows \subseteq Dedup(results)
      /\ Cardinality(rows) <= TopK
      /\ Dedup(results) # {} => rows # {}
      /\ Cardinality(Dedup(results)) <= TopK => rows = Dedup(results)
  BY <1>5, <1>6, <1>7, FirstFacts
<1> HIDE DEF rows
<1>9. ASSUME Active # {} PROVE \E r \in Dedup(results) : \A q \in S : q <= r
  <2>1. S \in SUBSET (0 .. Len(mems)) /\ S # {} /\ Len(mems) \in Nat
    BY <1>3, <1>4, <1>9, ActiveFinite
  <2>2. PICK r \in S : \A q \in S : q <= r
    BY <2>1, Greatest
  <2> QED
    BY <1>6, <2>2
<1>10. ASSUME Active # {}, Cardinality(Active) <= TopK
       PROVE \E r \in rows : \A q \in Active : q <= r
  <2>1. S = Active
    BY <1>3, <1>10
  <2>2. Cardinality(Dedup(results)) <= TopK
    <3>1. /\ Cardinality(Dedup(results)) \in Nat /\ Cardinality(Active) \in Nat
          /\ Cardinality(Dedup(results)) <= Cardinality(Active)
      BY <1>4, <1>6, <2>1, FS_Subset, FS_CardinalityType
    <3> QED
      BY <1>7, <1>10, <3>1
  <2> QED
    BY <1>8, <1>9, <1>10, <2>1, <2>2
<1>11. answer'.kind = "search" /\ answer'.rows = rows
  BY <1>2 DEF rows
<1>12. mems' = mems /\ Active' = Active
  BY DEF Search, tables, Active, Rows
<1>13. Active # {} => rows # {}
  BY <1>8, <1>9
<1>14. \A r, q \in rows : r # q => ~Alike(mems[r].text, mems[q].text)
  BY <1>6, <1>8
<1>15. rows \subseteq Active
  BY <1>3, <1>6, <1>8
<1> QED
  BY <1>8, <1>10, <1>11, <1>12, <1>13, <1>14, <1>15 DEF Answers

-----------------------------------------------------------------------------
(* An answer stands until the next call, and no call is being carried out then: *)
(* nothing it relies on is written meanwhile.                                   *)
StandsInv == script # <<>> => answer = NoAnswer

LEMMA StandsStep ==
  ASSUME StandsInv, Next \/ UNCHANGED vars
  PROVE StandsInv'
<1> USE DEF StandsInv
<1>1. CASE Open \/ Close \/ Crash \/ Raise
  BY <1>1 DEF Open, Close, Crash, Raise, Idle
<1>2. ASSUME NEW p \in Payloads, Ingest(p) \/ IngestFails(p) PROVE StandsInv'
  BY <1>2 DEF Ingest, IngestFails
<1>3. CASE Mark \/ AddFact \/ Retire \/ Mention \/ Link \/ Checkpoint \/ Consolidate \/ Summarise
  BY <1>3 DEF Mark, AddFact, Retire, Mention, Link, Checkpoint, Consolidate, Summarise, Doing
<1>4. CASE Search \/ RelatedMemories
  BY <1>4 DEF Search, RelatedMemories, Idle
<1>5. CASE UNCHANGED vars
  BY <1>5 DEF vars
<1> QED
  BY <1>1, <1>2, <1>3, <1>4, <1>5 DEF Next

LEMMA AnswersStep ==
  ASSUME TypeOK, ShapeInv, StandsInv, Answers, Next \/ UNCHANGED vars
  PROVE Answers'
<1>1. ASSUME mems' = mems, answer' = answer PROVE Answers'
  <2>1. Active' = Active
    BY <1>1 DEF Active, Rows
  <2> QED
    BY <1>1, <2>1 DEF Answers
<1>2. ASSUME answer' = NoAnswer PROVE Answers'
  BY <1>2 DEF Answers
<1>3. CASE Open
  BY <1>1, <1>3 DEF Open, tables
<1>4. CASE Close \/ Crash
  BY <1>2, <1>4 DEF Close, Crash
<1>5. ASSUME NEW p \in Payloads, Ingest(p) \/ IngestFails(p) PROVE Answers'
  BY <1>2, <1>5 DEF Ingest, IngestFails
<1>6. CASE Raise \/ Mark \/ AddFact \/ Retire \/ Mention \/ Link \/ Checkpoint \/ Consolidate \/ Summarise
  <2>1. script # <<>> /\ answer' = answer
    BY <1>6 DEF Raise, Mark, AddFact, Retire, Mention, Link, Checkpoint, Consolidate, Summarise, Doing
  <2> QED
    BY <1>2, <2>1 DEF StandsInv
<1>7. CASE Search
  BY <1>7, SearchAnswers
<1>8. CASE RelatedMemories
  <2>1. PICK a, b \in KnownNames : answer' = [kind |-> "related", rows |-> Shared(a, b)]
    BY <1>8 DEF RelatedMemories
  <2>2. Active' = Active
    BY <1>8 DEF RelatedMemories, tables, Active, Rows
  <2>3. Shared(a, b) \subseteq Active
    BY DEF Shared, Linked
  <2> QED
    BY <2>1, <2>2, <2>3 DEF Answers
<1>9. CASE UNCHANGED vars
  BY <1>1, <1>9 DEF vars, tables
<1> QED
  BY <1>3, <1>4, <1>5, <1>6, <1>7, <1>8, <1>9 DEF Next

-----------------------------------------------------------------------------
(* What a search of MemGate returns is stored and not superseded, says nothing  *)
(* twice, is no more than was asked for, is not empty while there is something  *)
(* to find, and has the newest memory while there are no more than it may       *)
(* return.                                                                      *)
THEOREM AnswersSafe == Spec => []Answers
<1>1. Init => StandsInv /\ Answers
  BY DEF Init, StandsInv, Answers
<1>2. IInv /\ StandsInv /\ Answers /\ [Next]_vars => StandsInv' /\ Answers'
  BY StandsStep, AnswersStep DEF IInv
<1> QED
  BY <1>1, <1>2, Invariance, PTL DEF Spec
=============================================================================
