---------------------------- MODULE MemGateProofs ----------------------------
(* For every set of payloads, every similarity and score, every threshold and   *)
(* limit, and any number of ingestions, of such that raise, and of kills: what  *)
(* is superseded, what a profile shows, and the cold start.  What a search      *)
(* returns is the subject of RetrievalProofs.                                   *)
EXTENDS MemGate, FiniteSetTheorems, SequenceTheorems, TLAPS

-----------------------------------------------------------------------------
(* Sequences.                                                                   *)

Elems(s) == {s[i] : i \in 1 .. Len(s)}

LEMMA ElemsTyped ==
  ASSUME NEW S, NEW s \in Seq(S)
  PROVE Elems(s) \subseteq S
BY DEF Elems

LEMMA ElemsOfTail ==
  ASSUME NEW S, NEW s \in Seq(S), s # <<>>
  PROVE /\ Tail(s) \in Seq(S) /\ Head(s) \in Elems(s)
        /\ Elems(Tail(s)) \subseteq Elems(s) /\ Elems(s) \subseteq Elems(Tail(s)) \cup {Head(s)}
<1>1. /\ Len(s) \in Nat \ {0} /\ Tail(s) \in Seq(S) /\ Len(Tail(s)) = Len(s) - 1 /\ Head(s) = s[1]
      /\ \A i \in 1 .. Len(s) - 1 : Tail(s)[i] = s[i + 1]
  BY EmptySeq, HeadTailProperties
<1>2. ASSUME NEW i \in 1 .. Len(s) PROVE s[i] \in Elems(Tail(s)) \cup {Head(s)}
  <2>1. CASE i = 1
    BY <1>1, <2>1
  <2>2. CASE i # 1
    <3>1. i - 1 \in 1 .. Len(Tail(s)) /\ Tail(s)[i - 1] = s[i]
      BY <1>1, <2>2
    <3> QED
      BY <3>1 DEF Elems
  <2> QED
    BY <2>1, <2>2
<1>3. ASSUME NEW i \in 1 .. Len(Tail(s)) PROVE Tail(s)[i] \in Elems(s)
  <2>1. i + 1 \in 1 .. Len(s) /\ Tail(s)[i] = s[i + 1]
    BY <1>1
  <2> QED
    BY <2>1 DEF Elems
<1> QED
  BY <1>1, <1>2, <1>3 DEF Elems

LEMMA ElemsOfConcat ==
  ASSUME NEW S, NEW s \in Seq(S), NEW t \in Seq(S)
  PROVE s \o t \in Seq(S) /\ Elems(s \o t) = Elems(s) \cup Elems(t)
<1>1. /\ s \o t \in Seq(S) /\ Len(s \o t) = Len(s) + Len(t) /\ Len(s) \in Nat /\ Len(t) \in Nat
      /\ \A i \in 1 .. Len(s) + Len(t) : (s \o t)[i] = IF i <= Len(s) THEN s[i] ELSE t[i - Len(s)]
  BY ConcatProperties
<1>2. ASSUME NEW i \in 1 .. Len(s \o t) PROVE (s \o t)[i] \in Elems(s) \cup Elems(t)
  <2>1. CASE i <= Len(s)
    BY <1>1, <2>1 DEF Elems
  <2>2. CASE i > Len(s)
    <3>1. i - Len(s) \in 1 .. Len(t) /\ (s \o t)[i] = t[i - Len(s)]
      BY <1>1, <2>2
    <3> QED
      BY <3>1 DEF Elems
  <2> QED
    BY <1>1, <2>1, <2>2
<1>3. ASSUME NEW i \in 1 .. Len(s) PROVE s[i] \in Elems(s \o t)
  <2>1. i \in 1 .. Len(s \o t) /\ (s \o t)[i] = s[i]
    BY <1>1
  <2> QED
    BY <2>1 DEF Elems
<1>4. ASSUME NEW i \in 1 .. Len(t) PROVE t[i] \in Elems(s \o t)
  <2>1. Len(s) + i \in 1 .. Len(s \o t) /\ (s \o t)[Len(s) + i] = t[i]
    BY <1>1
  <2> QED
    BY <2>1 DEF Elems
<1> QED
  BY <1>1, <1>2, <1>3, <1>4 DEF Elems

LEMMA EachTyped ==
  ASSUME NEW op, NEW S, IsFiniteSet(S)
  PROVE Each(op, S) \in Seq([op : {op}, arg : S])
<1> DEFINE n == Cardinality(S)
           args == SetToSeq(S)
<1>1. n \in Nat /\ ExistsBijection(1 .. n, S)
  BY FS_CardinalityType
<1>2. PICK f : f \in Bijection(1 .. n, S)
  BY <1>1 DEF ExistsBijection
<1>3. f \in [1 .. n -> S] /\ IsInjective(f)
  BY <1>2 DEF Bijection, Injection
<1>4. args \in [1 .. n -> S] /\ IsInjective(args)
  BY <1>3 DEF SetToSeq
<1> HIDE DEF n, args
<1>5. [i \in DOMAIN args |-> [op |-> op, arg |-> args[i]]] \in Seq([op : {op}, arg : S])
  BY <1>1, <1>4
<1> QED
  BY <1>5 DEF Each, args

-----------------------------------------------------------------------------
(* Multiples.                                                                   *)

LEMMA Product ==
  ASSUME NEW c \in Nat, NEW x \in Nat, NEW y \in Nat
  PROVE /\ c * x \in Nat /\ c * (x + y) = c * x + c * y
        /\ x <= y => c * x <= c * y
OBVIOUS

(* Every number lies between two neighbouring multiples of c.                   *)
LEMMA Floor ==
  ASSUME NEW n \in Nat, NEW c \in Nat \ {0}
  PROVE \E a \in Nat : c * a <= n /\ n < c * a + c
<1>1. n \div c \in Nat /\ n % c \in 0 .. c - 1 /\ n = c * (n \div c) + (n % c)
  OBVIOUS
<1>2. c * (n \div c) \in Nat
  BY <1>1
<1> QED
  BY <1>1, <1>2

(* One more failure, and one more missed checkpoint at most, stay within bounds. *)
LEMMA OneMore ==
  ASSUME NEW max \in Nat, NEW n \in 0 .. max, n < max, NEW m \in 0 .. n,
         NEW m2 \in {m, m + 1}
  PROVE  n + 1 \in 0 .. max /\ m2 \in 0 .. n + 1
<1>1. n \in Nat /\ m \in Nat /\ m <= n
  OBVIOUS
<1>2. n + 1 \in 0 .. max
  BY <1>1
<1>3. m2 \in 0 .. n + 1
  BY <1>1
<1> QED
  BY <1>2, <1>3

(* After a number between two multiples comes a multiple only if it is the next *)
(* of them.                                                                     *)
LEMMA NextMultiple ==
  ASSUME NEW n \in Nat, NEW c \in Nat \ {0}, NEW a \in Nat, c * a <= n, n < c * a + c
  PROVE (n + 1) % c = 0 <=> n + 1 = c * (a + 1)
<1>1. c * a \in Nat /\ c * (a + 1) = c * a + c
  OBVIOUS
<1>2. ASSUME n + 1 = c * (a + 1) PROVE (n + 1) % c = 0
  BY <1>2
<1>3. ASSUME (n + 1) % c = 0 PROVE n + 1 = c * (a + 1)
  <2> DEFINE b == (n + 1) \div c
  <2>1. b \in Nat /\ n + 1 = c * b
    BY <1>3
  <2>2. ASSUME b <= a PROVE FALSE
    <3>1. c * b <= c * a
      BY <2>1, <2>2
    <3> QED
      BY <1>1, <2>1, <3>1
  <2>3. ASSUME b >= a + 1 PROVE n + 1 = c * (a + 1)
    <3>1. c * b >= c * (a + 1)
      BY <2>1, <2>3
    <3> QED
      BY <1>1, <2>1, <3>1
  <2> QED
    BY <2>1, <2>2, <2>3
<1> QED
  BY <1>2, <1>3

-----------------------------------------------------------------------------
(* The inductive invariant.                                                     *)

Said == UNION {{p.facts[i] : i \in DOMAIN p.facts} : p \in Payloads}
Names == UNION {p.names : p \in Payloads}
Stated == UNION {p.links : p \in Payloads}

(* The writes of an ingestion that supersedes the given rows, those it ends     *)
(* with, and those that come up meanwhile.                                      *)
Writes(rivals) ==
  [op : {"mark"}, arg : rivals] \cup [op : {"fact"}, arg : [p : Payloads, fact : Said]]
  \cup [op : {"mention"}, arg : Names] \cup [op : {"link"}, arg : Stated]
Endings(n) ==
  [op : IF n % CheckpointEvery = 0 THEN {"checkpoint", "consolidate"} ELSE {"consolidate"}, arg : {n}]
Tasks ==
  Writes(Nat) \cup [op : {"checkpoint", "consolidate", "retire"}, arg : Nat]
  \cup [op : {"summary"}, arg : Nat \ {NoCluster}]

Row == [text : Texts, stored : BOOLEAN, by : Nat, cluster : Nat]
Left == Elems(script)

ShapeInv ==
  /\ mems \in Seq(Row)
  /\ facts \in Seq([key : {f.key : f \in Said}, value : {f.value : f \in Said}, by : Nat])
  /\ script \in Seq(Tasks)
  /\ script # <<>> => up /\ mems # <<>>
  /\ nextId \in Nat /\ IsFiniteSet(terms)
  /\ count <= Len(mems) + failures

(* A memory that is to be superseded is an older one that is similar to the     *)
(* newest, which was stored.                                                    *)
MarksInv ==
  \A t \in Left : t.op = "mark" =>
    /\ t.arg \in Rows /\ t.arg < Len(mems) /\ mems[t.arg].stored
    /\ mems[Len(mems)].stored /\ <<mems[t.arg].text, mems[Len(mems)].text>> \in Similar

(* There is a newer fact of the same entity and attribute.                      *)
Outdated(f) == \E g \in DOMAIN facts : g > f /\ facts[g].key = facts[f].key
FactsInv ==
  /\ \A f \in DOMAIN facts : facts[f].by # NoRow => Outdated(f)
  /\ \A t \in Left : t.op = "retire" => t.arg \in DOMAIN facts /\ Outdated(t.arg)

(* Only the checkpoint that is due now is about to be made.                     *)
DueInv == \A t \in Left : t.op = "checkpoint" => t.arg = count

(* How far what is saved is behind: of the a checkpoints that were due up to    *)
(* the count, it lacks those that were missed since the last one, m of them,    *)
(* and the one that is about to be made.                                        *)
Pending == IF Due THEN 1 ELSE 0
Behind(a, m) ==
  /\ CheckpointEvery * a <= count /\ count < CheckpointEvery * a + CheckpointEvery
  /\ Due => count = CheckpointEvery * a
  /\ CheckpointEvery * a <= saved + CheckpointEvery * (m + Pending)

(* What was let in without the gate is among what was counted since the store   *)
(* was new, and what the kills made the engine forget: but for the checkpoints  *)
(* missed since the last one, that has happened.                                *)
UngatedInv ==
  /\ up => \E a \in Nat, m \in 0 .. missed :
             Behind(a, m) /\ ungated <= count + CheckpointEvery * (crashes + (missed - m))
  /\ ~up => ungated <= saved + CheckpointEvery * (crashes + missed)
  /\ ColdOnce

IInv == TypeOK /\ ShapeInv /\ MarksInv /\ Succession /\ FactsInv /\ DueInv /\ UngatedInv

LEMMA InitIInv == Init => IInv
<1> SUFFICES ASSUME Init PROVE IInv
  OBVIOUS
<1> USE MemGateAssumption DEF Init
<1>1. Rows = {} /\ DOMAIN facts = {} /\ Len(mems) = 0
  BY DEF Rows
<1>2. Left = {}
  BY DEF Left, Elems
<1>3. ShapeInv
  BY <1>1, FS_EmptySet DEF ShapeInv
<1>4. TypeOK
  <2>1. saved \in Nat /\ count \in Nat /\ saved <= Len(mems) + failures /\ ungated \in Nat
    BY <1>1
  <2>3. crashes \in 0 .. MaxCrashes /\ failures \in 0 .. MaxFailures /\ missed \in 0 .. failures
    OBVIOUS
  <2>4. up \in BOOLEAN
    OBVIOUS
  <2>2. mentions = {} /\ summaries = {} /\ terms = {} /\ clusters = {}
    OBVIOUS
  <2> QED
    BY <1>1, <2>1, <2>2, <2>3, <2>4 DEF TypeOK
<1>5. MarksInv /\ Succession /\ FactsInv /\ DueInv
  BY <1>1, <1>2 DEF MarksInv, Succession, FactsInv, DueInv
<1>6. UngatedInv
  BY DEF UngatedInv, ColdOnce
<1> QED
  BY <1>3, <1>4, <1>5, <1>6 DEF IInv

-----------------------------------------------------------------------------
(* What is left to do.                                                          *)

(* A write is carried out, and others may come up first.                        *)
LEMMA WriteDone ==
  ASSUME ShapeInv, NEW op, Doing(op)
  PROVE /\ up /\ mems # <<>> /\ Head(script) \in Left /\ Head(script) \in Tasks /\ Head(script).op = op
        /\ Tail(script) \in Seq(Tasks) /\ Elems(Tail(script)) \subseteq Left
        /\ Left \subseteq Elems(Tail(script)) \cup {Head(script)}
        /\ \A more \in Seq(Tasks) :
             more \o Tail(script) \in Seq(Tasks) /\ Elems(more \o Tail(script)) = Elems(more) \cup Elems(Tail(script))
<1>1. up /\ script # <<>> /\ Head(script).op = op /\ script \in Seq(Tasks) /\ mems # <<>>
  BY DEF Doing, ShapeInv
<1>2. Tail(script) \in Seq(Tasks) /\ Head(script) \in Left /\ Head(script) \in Tasks
      /\ Elems(Tail(script)) \subseteq Left /\ Left \subseteq Elems(Tail(script)) \cup {Head(script)}
  BY <1>1, ElemsOfTail, ElemsTyped DEF Left
<1> QED
  BY <1>1, <1>2, ElemsOfConcat

LEMMA ChoresTyped ==
  ASSUME NEW p \in Payloads, NEW rivals \in SUBSET Nat, IsFiniteSet(rivals)
  PROVE Chores(p, rivals) \in Seq(Writes(rivals))
<1> DEFINE W == Writes(rivals)
           marks == Each("mark", rivals)
           said == [i \in DOMAIN p.facts |-> [op |-> "fact", arg |-> [p |-> p, fact |-> p.facts[i]]]]
           rest == Each("mention", p.names) \o Each("link", p.links)
<1>1. marks \in Seq(W)
  <2>1. [op : {"mark"}, arg : rivals] \subseteq W
    BY DEF Writes
  <2> HIDE DEF W
  <2> QED
    BY <2>1, EachTyped, SeqMonotonic
<1>2. said \in Seq(W)
  <2>1. p.facts \in Seq({p.facts[i] : i \in DOMAIN p.facts})
    BY MemGateAssumption
  <2>2. Len(p.facts) \in Nat /\ DOMAIN p.facts = 1 .. Len(p.facts)
    BY <2>1, LenProperties
  <2>3. \A i \in DOMAIN p.facts : [op |-> "fact", arg |-> [p |-> p, fact |-> p.facts[i]]] \in W
    BY DEF Writes, Said
  <2> HIDE DEF W
  <2> QED
    BY <2>2, <2>3
<1>3. rest \in Seq(W)
  <2>1. IsFiniteSet(p.names) /\ IsFiniteSet(p.links)
    BY MemGateAssumption
  <2>2. [op : {"mention"}, arg : p.names] \subseteq W /\ [op : {"link"}, arg : p.links] \subseteq W
    BY DEF Writes, Names, Stated
  <2> HIDE DEF W
  <2>3. /\ Each("mention", p.names) \in Seq([op : {"mention"}, arg : p.names])
        /\ Each("link", p.links) \in Seq([op : {"link"}, arg : p.links])
    BY <2>1, EachTyped
  <2>4. Each("mention", p.names) \in Seq(W) /\ Each("link", p.links) \in Seq(W)
    BY <2>2, <2>3, SeqMonotonic
  <2> QED
    BY <2>4, ConcatProperties
<1> HIDE DEF W, marks, said, rest
<1>4. (said \o rest) \o marks \in Seq(W) /\ (marks \o said) \o rest \in Seq(W)
  BY <1>1, <1>2, <1>3, ConcatProperties
<1> QED
  BY <1>4 DEF Chores, W, marks, said, rest

LEMMA HousekeepingTyped ==
  ASSUME NEW n \in Nat
  PROVE /\ Housekeeping(n) \in Seq(Endings(n))
        /\ n % CheckpointEvery = 0 => [op |-> "checkpoint", arg |-> n] \in Elems(Housekeeping(n))
<1> DEFINE E == Endings(n)
           task == [op |-> "checkpoint", arg |-> n]
           first == IF n % CheckpointEvery = 0 THEN <<task>> ELSE <<>>
           second == IF n % ConsolidateEvery = 0 THEN <<[op |-> "consolidate", arg |-> n]>> ELSE <<>>
<1>1. (n % CheckpointEvery = 0 => task \in E) /\ [op |-> "consolidate", arg |-> n] \in E
  BY DEF Endings
<1> HIDE DEF E
<1>2. first \in Seq(E) /\ second \in Seq(E)
  BY <1>1
<1>3. n % CheckpointEvery = 0 => task \in Elems(first)
  <2>1. Len(<<task>>) = 1 /\ <<task>>[1] = task
    OBVIOUS
  <2> QED
    BY <2>1 DEF Elems
<1> HIDE DEF first, second, task
<1>4. first \o second \in Seq(E) /\ Elems(first \o second) = Elems(first) \cup Elems(second)
  BY <1>2, ElemsOfConcat
<1>5. Housekeeping(n) = first \o second
  BY DEF Housekeeping, first, second, task
<1> QED
  BY <1>3, <1>4, <1>5 DEF E, task

LEMMA IngestScript ==
  ASSUME NEW p \in Payloads, NEW rivals \in SUBSET Nat, IsFiniteSet(rivals), NEW keep \in BOOLEAN, NEW n \in Nat,
         script' = (IF keep THEN Chores(p, rivals) ELSE <<>>) \o Housekeeping(n)
  PROVE /\ script' \in Seq(Tasks)
        /\ Left' \subseteq (IF keep THEN Writes(rivals) ELSE {}) \cup Endings(n)
        /\ n % CheckpointEvery = 0 => [op |-> "checkpoint", arg |-> n] \in Left'
<1> DEFINE first == IF keep THEN Chores(p, rivals) ELSE <<>>
           second == Housekeeping(n)
           W == IF keep THEN Writes(rivals) ELSE {}
           E == Endings(n)
<1>1. first \in Seq(W) /\ second \in Seq(E)
  <2>1. CASE keep
    BY <2>1, ChoresTyped, HousekeepingTyped
  <2>2. CASE ~keep
    <3>1. <<>> \in Seq({})
      OBVIOUS
    <3> QED
      BY <2>2, <3>1, HousekeepingTyped
  <2> QED
    BY <2>1, <2>2
<1>2. W \subseteq Tasks /\ E \subseteq Tasks
  BY DEF Writes, Endings, Tasks
<1>3. script' = first \o second
  OBVIOUS
<1>4. n % CheckpointEvery = 0 => [op |-> "checkpoint", arg |-> n] \in Elems(second)
  BY HousekeepingTyped
<1> HIDE DEF first, second, W, E
<1>5. first \in Seq(Tasks) /\ second \in Seq(Tasks)
  BY <1>1, <1>2, SeqMonotonic
<1>6. script' \in Seq(Tasks) /\ Left' = Elems(first) \cup Elems(second)
  <2>1. first \o second \in Seq(Tasks) /\ Elems(first \o second) = Elems(first) \cup Elems(second)
    BY <1>5, ElemsOfConcat
  <2>2. Left' = Elems(script')
    BY DEF Left, Elems
  <2> QED
    BY <1>3, <2>1, <2>2
<1>7. Elems(first) \subseteq W /\ Elems(second) \subseteq E
  BY <1>1, ElemsTyped
<1> QED
  BY <1>4, <1>6, <1>7 DEF W, E

(* A new row, and the rows it is to supersede.                                  *)
LEMMA RivalsFacts ==
  ASSUME ShapeInv, NEW text, NEW rivals \in Rivals(text)
  PROVE /\ rivals \in SUBSET Rows /\ IsFiniteSet(rivals)
        /\ \A r \in rivals : mems[r].stored /\ <<mems[r].text, text>> \in Similar
<1>1. rivals \in SUBSET Rows /\ \A r \in rivals : mems[r].stored /\ <<mems[r].text, text>> \in Similar
  BY DEF Rivals, Active
<1>2. IsFiniteSet(Rows)
  <2>1. Len(mems) \in Int
    BY DEF ShapeInv
  <2> QED
    BY <2>1, FS_Interval DEF Rows
<1> QED
  BY <1>1, <1>2, FS_Subset

LEMMA ExtractionsFacts ==
  ASSUME TypeOK, ShapeInv, NEW cache, IsFiniteSet(cache), NEW found \in Extractions(cache),
         NEW next, next = IF Cardinality(cache) < MinTerms THEN nextId ELSE nextId + Cardinality(found)
  PROVE next \in Nat /\ found \subseteq 1 .. next
<1>1. nextId \in Nat /\ clusters \subseteq 1 .. nextId /\ Cardinality(cache) \in Nat
  BY FS_CardinalityType DEF TypeOK, ShapeInv
<1>2. CASE Cardinality(cache) < MinTerms
  BY <1>1, <1>2 DEF Extractions
<1>3. CASE ~(Cardinality(cache) < MinTerms)
  <2>1. PICK k \in 0 .. Cardinality(cache) \div 2 : found = nextId + 1 .. nextId + k
    BY <1>3 DEF Extractions
  <2>2. k \in Nat
    OBVIOUS
  <2>3. Cardinality(nextId + 1 .. nextId + k) = k
    <3>1. nextId + 1 \in Int /\ nextId + k \in Int
      BY <1>1, <2>2
    <3> DEFINE a == nextId + 1
               b == nextId + k
    <3>2. (a > b <=> k = 0) /\ b - a + 1 = k
      BY <1>1, <2>2
    <3> HIDE DEF a, b
    <3>3. Cardinality(a .. b) = IF a > b THEN 0 ELSE b - a + 1
      BY <3>1, FS_Interval DEF a, b
    <3>4. Cardinality(a .. b) = k
      BY <2>2, <3>2, <3>3
    <3> QED
      BY <3>4 DEF a, b
  <2> QED
    BY <1>1, <1>3, <2>1, <2>2, <2>3
<1> QED
  BY <1>2, <1>3

LEMMA ExtractFacts ==
  ASSUME TypeOK, ShapeInv, NEW cache, IsFiniteSet(cache), Extract(cache)
  PROVE nextId' \in Nat /\ clusters' \subseteq 1 .. nextId'
<1>1. PICK found \in Extractions(cache) :
        /\ clusters' = found
        /\ nextId' = IF Cardinality(cache) < MinTerms THEN nextId ELSE nextId + Cardinality(found)
  BY DEF Extract
<1> QED
  BY <1>1, ExtractionsFacts

LEMMA IngestFacts ==
  ASSUME TypeOK, ShapeInv, NEW p \in Payloads, Ingest(p)
  PROVE \E keep \in BOOLEAN, c \in Nat, rivals \in SUBSET Rows :
          /\ mems' = Append(mems, [text |-> p.text, stored |-> keep, by |-> NoRow, cluster |-> c])
          /\ \A r \in rivals : mems[r].stored /\ <<mems[r].text, p.text>> \in Similar
          /\ script' \in Seq(Tasks)
          /\ Left' \subseteq (IF keep THEN Writes(rivals) ELSE {}) \cup Endings(count + 1)
          /\ (count + 1) % CheckpointEvery = 0 => [op |-> "checkpoint", arg |-> count + 1] \in Left'
          /\ nextId' \in Nat /\ clusters' \subseteq 1 .. nextId'
          /\ terms' \subseteq Texts /\ IsFiniteSet(terms')
          /\ ungated' = IF count < ColdStart THEN ungated + 1 ELSE ungated
<1>1. Extract(terms')
  BY DEF Ingest
<1>2. PICK keep \in Verdicts(p) :
        /\ \E c \in Topics(clusters') :
             mems' = Append(mems, IF keep THEN Stored(p, c) ELSE Skipped(p, NoCluster))
        /\ ungated' = IF count < ColdStart THEN ungated + 1 ELSE ungated
        /\ \E rivals \in IF p.update \/ ~p.structured THEN Rivals(p.text) ELSE {{}} :
             script' = (IF keep THEN Chores(p, rivals) ELSE <<>>) \o Housekeeping(count + 1)
  BY DEF Ingest
<1>3. terms' = terms \cup {p.text} /\ count \in Nat
  BY DEF Ingest, TypeOK
<1>4. terms' \subseteq Texts /\ IsFiniteSet(terms')
  BY <1>3, FS_AddElement DEF TypeOK, ShapeInv, Texts
<1>5. nextId' \in Nat /\ clusters' \subseteq 1 .. nextId'
  BY <1>1, <1>4, ExtractFacts
<1>6. PICK c \in Topics(clusters') : mems' = Append(mems, IF keep THEN Stored(p, c) ELSE Skipped(p, NoCluster))
  BY <1>2
<1>7. keep \in BOOLEAN
  <2>1. PICK n \in Scores, m \in Scores :
          keep = (count < ColdStart \/ Passes(n, m) \/ (p.update /\ Quality(n, m) > 20000))
    BY DEF Verdicts
  <2> QED
    BY <2>1
<1>8. PICK cluster \in Nat :
        mems' = Append(mems, [text |-> p.text, stored |-> keep, by |-> NoRow, cluster |-> cluster])
  <2>1. c \in Nat /\ NoCluster \in Nat
    BY <1>5 DEF Topics, NoCluster
  <2>2. CASE keep
    BY <1>6, <2>1, <2>2 DEF Stored
  <2>3. CASE ~keep
    BY <1>6, <1>7, <2>1, <2>3 DEF Skipped
  <2> QED
    BY <2>2, <2>3
<1>9. PICK rivals \in IF p.update \/ ~p.structured THEN Rivals(p.text) ELSE {{}} :
        script' = (IF keep THEN Chores(p, rivals) ELSE <<>>) \o Housekeeping(count + 1)
  BY <1>2
<1>10. /\ rivals \in SUBSET Rows /\ IsFiniteSet(rivals)
       /\ \A r \in rivals : mems[r].stored /\ <<mems[r].text, p.text>> \in Similar
  <2>1. rivals \in Rivals(p.text) \/ rivals = {}
    OBVIOUS
  <2> QED
    BY <2>1, RivalsFacts, FS_EmptySet
<1>11. /\ script' \in Seq(Tasks)
       /\ Left' \subseteq (IF keep THEN Writes(rivals) ELSE {}) \cup Endings(count + 1)
       /\ (count + 1) % CheckpointEvery = 0 => [op |-> "checkpoint", arg |-> count + 1] \in Left'
  <2>1. rivals \in SUBSET Nat /\ count + 1 \in Nat
    BY <1>3, <1>10 DEF Rows
  <2> QED
    BY <1>7, <1>9, <1>10, <2>1, IngestScript
<1> QED
  BY <1>2, <1>4, <1>5, <1>7, <1>8, <1>10, <1>11

-----------------------------------------------------------------------------
(* The writes to the two tables that rows are superseded in.                    *)

(* The last row supersedes another.                                             *)
LEMMA MarkFacts ==
  ASSUME ShapeInv, MarksInv, Mark
  PROVE /\ Arg \in Rows /\ Arg < Len(mems) /\ mems[Arg].stored /\ mems[Len(mems)].stored
        /\ <<mems[Arg].text, mems[Len(mems)].text>> \in Similar
        /\ mems' \in Seq(Row) /\ Len(mems') = Len(mems) /\ Rows' = Rows
        /\ \A r \in Rows : /\ mems'[r].text = mems[r].text /\ mems'[r].stored = mems[r].stored
                           /\ mems'[r].cluster = mems[r].cluster
                           /\ mems'[r].by = IF r = Arg THEN Len(mems) ELSE mems[r].by
<1>1. Head(script) \in Left /\ Head(script).op = "mark"
  BY WriteDone DEF Mark
<1>2. /\ Arg \in Rows /\ Arg < Len(mems) /\ mems[Arg].stored /\ mems[Len(mems)].stored
      /\ <<mems[Arg].text, mems[Len(mems)].text>> \in Similar
  BY <1>1 DEF MarksInv, Arg
<1>3. mems' = [mems EXCEPT ![Arg].by = Len(mems)]
  BY DEF Mark
<1> DEFINE row == [mems[Arg] EXCEPT !.by = Len(mems)]
<1>4. /\ mems \in Seq(Row) /\ Len(mems) \in Nat /\ mems[Arg] \in Row
      /\ row \in Row /\ row.text = mems[Arg].text /\ row.stored = mems[Arg].stored
      /\ row.cluster = mems[Arg].cluster /\ row.by = Len(mems)
  <2>1. mems \in Seq(Row) /\ Len(mems) \in Nat /\ mems[Arg] \in Row
    BY <1>2 DEF ShapeInv, Rows
  <2> QED
    BY <2>1 DEF Row
<1>5. mems' = [mems EXCEPT ![Arg] = row]
  BY <1>3
<1> HIDE DEF row
<1>6. /\ mems' \in Seq(Row) /\ Len(mems') = Len(mems)
      /\ \A r \in Rows : mems'[r] = IF r = Arg THEN row ELSE mems[r]
  BY <1>2, <1>4, <1>5, ExceptSeq DEF Rows
<1> QED
  BY <1>2, <1>4, <1>6 DEF Rows

(* The last fact replaces another.                                              *)
Fact == [key : {f.key : f \in Said}, value : {f.value : f \in Said}, by : Nat]

LEMMA RetireFacts ==
  ASSUME ShapeInv, FactsInv, Retire
  PROVE /\ Arg \in DOMAIN facts /\ Outdated(Arg)
        /\ facts' \in Seq(Fact) /\ Len(facts') = Len(facts) /\ DOMAIN facts' = DOMAIN facts
        /\ \A f \in DOMAIN facts : /\ facts'[f].key = facts[f].key
                                   /\ facts'[f].by = IF f = Arg THEN Len(facts) ELSE facts[f].by
<1>1. Head(script) \in Left /\ Head(script).op = "retire"
  BY WriteDone DEF Retire
<1>2. Arg \in DOMAIN facts /\ Outdated(Arg)
  BY <1>1 DEF FactsInv, Arg
<1>3. facts' = [facts EXCEPT ![Arg].by = Len(facts)]
  BY DEF Retire
<1> DEFINE row == [facts[Arg] EXCEPT !.by = Len(facts)]
<1>4. /\ facts \in Seq(Fact) /\ Len(facts) \in Nat /\ DOMAIN facts = 1 .. Len(facts)
      /\ facts[Arg] \in Fact /\ row \in Fact /\ row.key = facts[Arg].key /\ row.by = Len(facts)
  <2>1. facts \in Seq(Fact)
    BY DEF ShapeInv, Fact
  <2>2. Len(facts) \in Nat /\ DOMAIN facts = 1 .. Len(facts) /\ facts[Arg] \in Fact
    BY <1>2, <2>1
  <2> QED
    BY <2>1, <2>2 DEF Fact
<1>5. facts' = [facts EXCEPT ![Arg] = row]
  BY <1>3
<1> HIDE DEF row
<1>6. /\ facts' \in Seq(Fact) /\ Len(facts') = Len(facts) /\ DOMAIN facts' = 1 .. Len(facts)
      /\ \A f \in DOMAIN facts : facts'[f] = IF f = Arg THEN row ELSE facts[f]
  BY <1>2, <1>4, <1>5, ExceptSeq, LenProperties
<1> QED
  BY <1>2, <1>4, <1>6

(* A new fact, and those it replaces.                                           *)
LEMMA AddFactFacts ==
  ASSUME ShapeInv, AddFact
  PROVE /\ facts' \in Seq(Fact) /\ Len(facts') = Len(facts) + 1 /\ Len(facts) \in Nat
        /\ DOMAIN facts' = DOMAIN facts \cup {Len(facts) + 1} /\ DOMAIN facts = 1 .. Len(facts)
        /\ \A f \in DOMAIN facts : facts'[f] = facts[f]
        /\ facts'[Len(facts) + 1].by = NoRow
        /\ script' \in Seq(Tasks) /\ Left \subseteq Left' \cup {Head(script)}
        /\ \E S \in SUBSET DOMAIN facts :
             /\ \A f \in S : facts[f].key = facts'[Len(facts) + 1].key
             /\ Left' \subseteq Left \cup [op : {"retire"}, arg : S]
<1> DEFINE S == Replaced(Arg.p, Arg.fact)
           new == [key |-> Arg.fact.key, value |-> Arg.fact.value, by |-> NoRow]
<1>1. Head(script) \in Tasks /\ Head(script).op = "fact"
  BY WriteDone DEF AddFact
<1>2. Arg.fact \in Said
  BY <1>1 DEF Arg, Tasks, Writes
<1>3. facts' = Append(facts, new) /\ script' = Each("retire", S) \o Tail(script)
  BY DEF AddFact
<1>4. facts \in Seq(Fact) /\ new \in Fact /\ new.by = NoRow /\ new.key = Arg.fact.key
  BY <1>2 DEF ShapeInv, Fact, NoRow
<1> HIDE DEF new
<1>5. /\ facts' \in Seq(Fact) /\ Len(facts') = Len(facts) + 1 /\ Len(facts) \in Nat
      /\ DOMAIN facts = 1 .. Len(facts) /\ DOMAIN facts' = 1 .. Len(facts) + 1
      /\ \A f \in 1 .. Len(facts) : facts'[f] = facts[f]
      /\ facts'[Len(facts) + 1] = new
  BY <1>3, <1>4
<1>6. S \subseteq DOMAIN facts /\ \A f \in S : facts[f].key = Arg.fact.key
  BY DEF Replaced, ActiveFacts
<1> HIDE DEF S
<1>7. IsFiniteSet(S)
  <2>1. IsFiniteSet(1 .. Len(facts))
    BY <1>5, FS_Interval
  <2> QED
    BY <1>5, <1>6, <2>1, FS_Subset
<1>8. /\ Each("retire", S) \in Seq(Tasks)
      /\ Elems(Each("retire", S)) \subseteq [op : {"retire"}, arg : S]
  <2>1. Each("retire", S) \in Seq([op : {"retire"}, arg : S])
    BY <1>7, EachTyped
  <2>2. [op : {"retire"}, arg : S] \subseteq Tasks
    BY <1>5, <1>6 DEF Tasks
  <2> QED
    BY <2>1, <2>2, SeqMonotonic, ElemsTyped
<1>9. /\ script' \in Seq(Tasks) /\ Left' \subseteq Left \cup [op : {"retire"}, arg : S]
      /\ Left \subseteq Left' \cup {Head(script)}
  <2>1. /\ Each("retire", S) \o Tail(script) \in Seq(Tasks)
        /\ Elems(Each("retire", S) \o Tail(script)) = Elems(Each("retire", S)) \cup Elems(Tail(script))
        /\ Elems(Tail(script)) \subseteq Left /\ Left \subseteq Elems(Tail(script)) \cup {Head(script)}
    BY <1>8, WriteDone DEF AddFact
  <2>2. Left' = Elems(script')
    BY DEF Left, Elems
  <2> QED
    BY <1>3, <1>8, <2>1, <2>2
<1>10. DOMAIN facts' = DOMAIN facts \cup {Len(facts) + 1}
  BY <1>5
<1>11. S \in SUBSET DOMAIN facts /\ \A f \in S : facts[f].key = facts'[Len(facts) + 1].key
  BY <1>4, <1>5, <1>6
<1>12. facts'[Len(facts) + 1].by = NoRow
  BY <1>4, <1>5
<1> QED
  BY <1>5, <1>9, <1>10, <1>11, <1>12

(* The clusters that are summed up.                                             *)
LEMMA ConsolidateFacts ==
  ASSUME ShapeInv, Consolidate
  PROVE /\ script' \in Seq(Tasks) /\ Left' \subseteq Left \cup [op : {"summary"}, arg : Nat]
        /\ Left \subseteq Left' \cup {Head(script)}
<1> DEFINE S == Consolidable
           all == {mems[r].cluster : r \in Rows}
<1>1. Len(mems) \in Nat /\ \A r \in Rows : mems[r].cluster \in Nat
  <2>1. Len(mems) \in Nat /\ \A r \in Rows : mems[r] \in Row
    BY DEF ShapeInv, Rows
  <2> QED
    BY <2>1 DEF Row
<1>2. S \subseteq Nat \ {NoCluster} /\ S \subseteq all
  BY <1>1 DEF Consolidable
<1>3. IsFiniteSet(all)
  <2>1. IsFiniteSet(Rows)
    <3>1. IsFiniteSet(1 .. Len(mems))
      BY <1>1, FS_Interval
    <3> QED
      BY <3>1 DEF Rows
  <2> DEFINE f == [r \in Rows |-> mems[r].cluster]
  <2>2. f \in Surjection(Rows, all)
    BY DEF Surjection
  <2> QED
    BY <2>1, <2>2, FS_Surjection
<1> HIDE DEF S, all
<1>4. IsFiniteSet(S)
  BY <1>2, <1>3, FS_Subset
<1>5. /\ Each("summary", S) \in Seq(Tasks)
      /\ Elems(Each("summary", S)) \subseteq [op : {"summary"}, arg : Nat]
  <2>1. Each("summary", S) \in Seq([op : {"summary"}, arg : S])
    BY <1>4, EachTyped
  <2>2. [op : {"summary"}, arg : S] \subseteq Tasks /\ [op : {"summary"}, arg : S] \subseteq [op : {"summary"}, arg : Nat]
    BY <1>2 DEF Tasks
  <2> QED
    BY <2>1, <2>2, SeqMonotonic, ElemsTyped
<1>6. /\ Each("summary", S) \o Tail(script) \in Seq(Tasks)
      /\ Elems(Each("summary", S) \o Tail(script)) = Elems(Each("summary", S)) \cup Elems(Tail(script))
      /\ Elems(Tail(script)) \subseteq Left /\ Left \subseteq Elems(Tail(script)) \cup {Head(script)}
  BY <1>5, WriteDone DEF Consolidate
<1>7. Left' = Elems(script') /\ script' = Each("summary", S) \o Tail(script)
  BY DEF Left, Elems, Consolidate, S
<1> QED
  BY <1>5, <1>6, <1>7

(* The writes that nothing comes of.                                            *)
LEMMA PlainFacts ==
  ASSUME ShapeInv, Mark \/ Retire \/ Mention \/ Link \/ Checkpoint \/ Summarise
  PROVE script' \in Seq(Tasks) /\ Left' \subseteq Left
<1>1. script' = Tail(script) /\ \E op \in {"mark", "retire", "mention", "link", "checkpoint", "summary"} : Doing(op)
  BY DEF Mark, Retire, Mention, Link, Checkpoint, Summarise
<1>2. Left' = Elems(script')
  BY DEF Left, Elems
<1> QED
  BY <1>1, <1>2, WriteDone

-----------------------------------------------------------------------------
(* The parts of the invariant, step by step.                                    *)

(* Whoever opens, closes or kills the engine, asks it, or makes it raise.       *)
Aside ==
  \/ Open \/ Close \/ Crash \/ Raise \/ Search \/ RelatedMemories \/ UNCHANGED vars
  \/ \E p \in Payloads : IngestFails(p)
Quiet ==
  /\ UNCHANGED <<mems, mentions, facts, links, summaries>>
  /\ Left' \subseteq Left /\ script' \in Seq(Tasks) /\ (script' # <<>> => up')

LEMMA QuietSteps ==
  ASSUME ShapeInv, Aside
  PROVE Quiet
<1> USE DEF Quiet, Left, Elems, ShapeInv, tables, engine
<1>1. CASE Open
  BY <1>1 DEF Open
<1>2. CASE Close
  BY <1>2 DEF Close, Idle
<1>3. CASE Crash
  BY <1>3 DEF Crash
<1>4. CASE Search \/ RelatedMemories
  BY <1>4 DEF Search, RelatedMemories
<1>5. CASE UNCHANGED vars
  BY <1>5 DEF vars
<1>6. CASE Raise
  BY <1>6 DEF Raise
<1>7. ASSUME NEW p \in Payloads, IngestFails(p) PROVE Quiet
  BY <1>7 DEF IngestFails, Idle
<1> QED
  BY <1>1, <1>2, <1>3, <1>4, <1>5, <1>6, <1>7 DEF Aside

(* A new row.                                                                   *)
LEMMA IngestRows ==
  ASSUME TypeOK, ShapeInv, NEW p \in Payloads, NEW keep \in BOOLEAN, NEW c \in Nat,
         mems' = Append(mems, [text |-> p.text, stored |-> keep, by |-> NoRow, cluster |-> c])
  PROVE /\ Len(mems) \in Nat /\ Len(mems') = Len(mems) + 1 /\ mems' \in Seq(Row)
        /\ Rows = 1 .. Len(mems) /\ Rows' = 1 .. Len(mems) + 1
        /\ \A r \in Rows : mems'[r] = mems[r]
        /\ mems'[Len(mems) + 1] = [text |-> p.text, stored |-> keep, by |-> NoRow, cluster |-> c]
<1> DEFINE row == [text |-> p.text, stored |-> keep, by |-> NoRow, cluster |-> c]
<1>1. row \in Row /\ mems \in Seq(Row)
  BY DEF Row, ShapeInv, Texts, NoRow
<1> HIDE DEF row
<1>2. mems' = Append(mems, row)
  BY DEF row
<1>3. /\ Len(mems) \in Nat /\ Len(mems') = Len(mems) + 1 /\ mems' \in Seq(Row)
      /\ \A r \in 1 .. Len(mems) : mems'[r] = mems[r]
      /\ mems'[Len(mems) + 1] = row
  BY <1>1, <1>2
<1> QED
  BY <1>3 DEF Rows, row

LEMMA TypeStep ==
  ASSUME IInv, [Next]_vars
  PROVE TypeOK' /\ ShapeInv'
<1>types. TypeOK /\ ShapeInv
  BY DEF IInv
<1>1. ASSUME NEW p \in Payloads, Ingest(p) PROVE TypeOK' /\ ShapeInv'
  <2>1. PICK keep \in BOOLEAN, c \in Nat :
          /\ mems' = Append(mems, [text |-> p.text, stored |-> keep, by |-> NoRow, cluster |-> c])
          /\ script' \in Seq(Tasks)
          /\ nextId' \in Nat /\ clusters' \subseteq 1 .. nextId'
          /\ terms' \subseteq Texts /\ IsFiniteSet(terms')
          /\ ungated' = IF count < ColdStart THEN ungated + 1 ELSE ungated
    BY <1>1, <1>types, IngestFacts
  <2>2. /\ Len(mems) \in Nat /\ Len(mems') = Len(mems) + 1 /\ mems' \in Seq(Row)
        /\ Rows = 1 .. Len(mems) /\ Rows' = 1 .. Len(mems) + 1
        /\ \A r \in Rows : mems'[r] = mems[r]
        /\ mems'[Len(mems) + 1] = [text |-> p.text, stored |-> keep, by |-> NoRow, cluster |-> c]
    BY <1>types, <2>1, IngestRows
  <2>3. /\ count' = count + 1 /\ up = TRUE
        /\ UNCHANGED <<mentions, facts, links, summaries, saved, up, crashes, failures, missed>>
    BY <1>1, <1>types DEF Ingest, Idle, TypeOK
  <2>4. \A r \in Rows' : mems'[r] \in [text : Texts, stored : BOOLEAN, by : 0 .. Len(mems'), cluster : Nat]
    <3>1. ASSUME NEW r \in Rows PROVE mems'[r] \in [text : Texts, stored : BOOLEAN, by : 0 .. Len(mems'), cluster : Nat]
      <4>1. mems[r] \in [text : Texts, stored : BOOLEAN, by : 0 .. Len(mems), cluster : Nat]
        BY <1>types DEF TypeOK
      <4>2. 0 .. Len(mems) \subseteq 0 .. Len(mems')
        BY <2>2
      <4> QED
        BY <2>2, <4>1, <4>2
    <3>2. mems'[Len(mems) + 1] \in [text : Texts, stored : BOOLEAN, by : 0 .. Len(mems'), cluster : Nat]
      <4>1. NoRow \in 0 .. Len(mems') /\ p.text \in Texts
        BY <2>2 DEF NoRow, Texts
      <4> QED
        BY <2>2, <4>1
    <3> QED
      BY <2>2, <3>1, <3>2
  <2>5. TypeOK'
    <3>1. saved \in Nat /\ count' \in Nat /\ saved <= Len(mems') + failures /\ ungated' \in Nat
      BY <1>types, <2>1, <2>2, <2>3 DEF TypeOK
    <3>2. \A m \in mentions : m[1] \in Rows'
      BY <1>types, <2>2 DEF TypeOK
    <3> QED
      BY <1>types, <2>1, <2>3, <2>4, <3>1, <3>2 DEF TypeOK
  <2>6. ShapeInv'
    <3>1. count' <= Len(mems') + failures /\ mems' # <<>>
      BY <1>types, <2>2, <2>3 DEF TypeOK, ShapeInv
    <3> QED
      BY <1>types, <2>1, <2>2, <2>3, <3>1 DEF ShapeInv
  <2> QED
    BY <2>5, <2>6
<1>2. ASSUME Aside PROVE TypeOK' /\ ShapeInv'
  <2>1. Quiet
    BY <1>2, <1>types, QuietSteps
  <2>2. /\ saved' \in Nat /\ count' \in Nat /\ saved' <= Len(mems) + failures' /\ count' <= Len(mems) + failures'
        /\ up' \in BOOLEAN
        /\ terms' \subseteq Texts /\ clusters' \subseteq 1 .. nextId' /\ nextId' \in Nat /\ IsFiniteSet(terms')
        /\ ungated' \in Nat /\ crashes' \in 0 .. MaxCrashes
        /\ failures' \in 0 .. MaxFailures /\ missed' \in 0 .. failures'
    <3>0. /\ saved \in Nat /\ count \in Nat /\ saved <= Len(mems) + failures /\ count <= Len(mems) + failures
          /\ up \in BOOLEAN
          /\ terms \subseteq Texts /\ clusters \subseteq 1 .. nextId /\ nextId \in Nat /\ IsFiniteSet(terms)
          /\ ungated \in Nat /\ crashes \in 0 .. MaxCrashes /\ Len(mems) \in Nat
          /\ failures \in 0 .. MaxFailures /\ missed \in 0 .. failures
      BY <1>types DEF TypeOK, ShapeInv
    <3> USE DEF tables, engine, history
    <3>1. CASE Open
      BY <3>0, <3>1 DEF Open
    <3>empty. IsFiniteSet({}) /\ {} \subseteq Texts /\ {} \subseteq 1 .. 0
      BY FS_EmptySet
    <3>2. CASE Close
      <4>1. saved' = count /\ count' = 0 /\ nextId' = 0 /\ UNCHANGED history
        BY <3>2 DEF Close, Forget
      <4>2. terms' = {} /\ clusters' = {} /\ up' \in BOOLEAN
        BY <3>2 DEF Close, Forget
      <4>3. saved' \in Nat /\ count' \in Nat /\ saved' <= Len(mems) + failures' /\ count' <= Len(mems) + failures'
        BY <3>0, <4>1
      <4> QED
        BY <3>0, <3>empty, <4>1, <4>2, <4>3
    <3>3. CASE Crash
      <4>1. crashes' \in 0 .. MaxCrashes
        BY <3>0, <3>3, MemGateAssumption DEF Crash
      <4>2. count' = 0 /\ nextId' = 0 /\ UNCHANGED <<saved, ungated, failures, missed>>
        BY <3>3 DEF Crash, Forget
      <4>3. terms' = {} /\ clusters' = {} /\ up' \in BOOLEAN
        BY <3>3 DEF Crash, Forget
      <4>4. count' \in Nat /\ count' <= Len(mems) + failures'
        BY <3>0, <4>2
      <4> QED
        BY <3>0, <3>empty, <4>1, <4>2, <4>3, <4>4
    <3>4. CASE Search \/ RelatedMemories
      <4>1. UNCHANGED <<tables, engine, history>>
        BY <3>4 DEF Search, RelatedMemories
      <4> QED
        BY <3>0, <4>1
    <3>5. CASE UNCHANGED vars
      BY <3>0, <3>5 DEF vars
    <3>6. CASE Raise
      <4>1. /\ failures < MaxFailures /\ failures' = failures + 1 /\ missed' \in {missed, missed + 1}
            /\ UNCHANGED <<tables, engine, ungated, crashes>>
        BY <3>6 DEF Raise
      <4>2. failures' \in 0 .. MaxFailures /\ missed' \in 0 .. failures'
        <5>1. failures \in 0 .. MaxFailures /\ missed \in 0 .. failures /\ MaxFailures \in Nat
          BY <3>0, MemGateAssumption
        <5> QED
          BY <4>1, <5>1, OneMore
      <4>3. saved <= Len(mems) + failures' /\ count <= Len(mems) + failures'
        BY <3>0, <4>1
      <4> QED
        BY <3>0, <4>1, <4>2, <4>3
    <3>7. CASE \E p \in Payloads : IngestFails(p)
      <4>0. PICK p \in Payloads : IngestFails(p)
        BY <3>7
      <4>1. /\ failures < MaxFailures /\ failures' = failures + 1 /\ missed' \in {missed, missed + 1}
            /\ count' \in {count, count + 1} /\ terms' = terms \cup {p.text}
            /\ UNCHANGED <<tables, up, ungated, crashes>>
        BY <4>0 DEF IngestFails
      <4>2. failures' \in 0 .. MaxFailures /\ missed' \in 0 .. failures'
        <5>1. failures \in 0 .. MaxFailures /\ missed \in 0 .. failures /\ MaxFailures \in Nat
          BY <3>0, MemGateAssumption
        <5> QED
          BY <4>1, <5>1, OneMore
      <4>3. count' \in Nat /\ saved <= Len(mems) + failures' /\ count' <= Len(mems) + failures'
        BY <3>0, <4>1
      <4>4. terms' \subseteq Texts /\ IsFiniteSet(terms')
        BY <3>0, <4>1, FS_AddElement DEF Texts
      <4>5. nextId' \in Nat /\ clusters' \subseteq 1 .. nextId'
        <5>1. UNCHANGED <<clusters, nextId>> \/ Extract(terms')
          BY <4>0 DEF IngestFails
        <5> QED
          BY <1>types, <3>0, <4>4, <5>1, ExtractFacts
      <4> QED
        BY <3>0, <4>1, <4>2, <4>3, <4>4, <4>5
    <3> QED
      BY <1>2, <3>1, <3>2, <3>3, <3>4, <3>5, <3>6, <3>7 DEF Aside
  <2>3. TypeOK'
    BY <1>types, <2>1, <2>2 DEF TypeOK, Quiet, Rows
  <2>4. ShapeInv'
    <3>1. script' # <<>> => mems # <<>>
      <4>1. Elems(<<>>) = {} /\ (script' # <<>> => Len(script') \in Nat \ {0})
        BY <2>1, EmptySeq DEF Elems, Quiet
      <4>2. script' # <<>> => script'[1] \in Left'
        BY <4>1 DEF Left, Elems
      <4>3. script = <<>> => Left = {}
        BY <4>1 DEF Left
      <4> QED
        BY <1>types, <2>1, <4>2, <4>3 DEF Quiet, ShapeInv
    <3> QED
      BY <1>types, <2>1, <2>2, <3>1 DEF ShapeInv, Quiet
  <2> QED
    BY <2>3, <2>4
<1>3. ASSUME Mark \/ AddFact \/ Retire \/ Mention \/ Link \/ Checkpoint \/ Consolidate \/ Summarise
      PROVE TypeOK' /\ ShapeInv'
  <2>1. \E op \in {"mark", "fact", "retire", "mention", "link", "checkpoint", "consolidate", "summary"} : Doing(op)
    BY <1>3 DEF Mark, AddFact, Retire, Mention, Link, Checkpoint, Consolidate, Summarise
  <2>2. up /\ mems # <<>> /\ Head(script) \in Left /\ Head(script) \in Tasks /\ Len(mems) \in Nat \ {0}
    BY <1>types, <2>1, WriteDone, EmptySeq DEF ShapeInv
  <2>3. script' \in Seq(Tasks)
    BY <1>3, <1>types, AddFactFacts, ConsolidateFacts, PlainFacts
  <2>4. UNCHANGED engine /\ UNCHANGED history
    BY <1>3 DEF Mark, AddFact, Retire, Mention, Link, Checkpoint, Consolidate, Summarise
  <2>5. /\ mems' \in Seq(Row) /\ Len(mems') = Len(mems) /\ Rows' = Rows
        /\ \A r \in Rows : mems'[r] \in [text : Texts, stored : BOOLEAN, by : 0 .. Len(mems), cluster : Nat]
    <3>1. CASE Mark
      <4>1. /\ mems' \in Seq(Row) /\ Len(mems') = Len(mems) /\ Rows' = Rows
            /\ \A r \in Rows : mems'[r].by = IF r = Arg THEN Len(mems) ELSE mems[r].by
        BY <1>types, <3>1, MarkFacts DEF IInv
      <4>2. \A r \in Rows : mems[r].by \in 0 .. Len(mems) /\ mems'[r] \in Row
        <5>1. \A r \in Rows : mems[r].by \in 0 .. Len(mems)
          BY <1>types DEF TypeOK
        <5>2. \A r \in Rows : mems'[r] \in Row
          BY <4>1 DEF Rows
        <5> QED
          BY <5>1, <5>2
      <4>3. \A r \in Rows : mems'[r].by \in 0 .. Len(mems)
        BY <2>2, <4>1, <4>2
      <4> QED
        BY <4>1, <4>2, <4>3 DEF Row
    <3>2. CASE AddFact \/ Retire \/ Mention \/ Link \/ Checkpoint \/ Consolidate \/ Summarise
      BY <1>types, <3>2 DEF AddFact, Retire, Mention, Link, Checkpoint, Consolidate, Summarise, tables,
                            TypeOK, ShapeInv, Rows
    <3> QED
      BY <1>3, <3>1, <3>2
  <2>6. facts' \in Seq(Fact) /\ \A f \in DOMAIN facts' : facts'[f].by \in 0 .. Len(facts')
    <3>0. facts \in Seq(Fact) /\ Len(facts) \in Nat /\ \A f \in DOMAIN facts : facts[f].by \in 0 .. Len(facts)
      BY <1>types DEF TypeOK, ShapeInv, Fact
    <3>1. CASE AddFact
      BY <1>types, <3>0, <3>1, AddFactFacts DEF NoRow
    <3>2. CASE Retire
      BY <1>types, <3>0, <3>2, RetireFacts DEF IInv
    <3>3. CASE Mark \/ Mention \/ Link \/ Checkpoint \/ Consolidate \/ Summarise
      BY <3>0, <3>3 DEF Mark, Mention, Link, Checkpoint, Consolidate, Summarise, tables
    <3> QED
      BY <1>3, <3>1, <3>2, <3>3
  <2>7. /\ \A m \in mentions' : m[1] \in Rows
        /\ summaries' \subseteq Nat \ {NoCluster} /\ saved' \in Nat /\ saved' <= Len(mems) + failures
    <3> USE <1>types DEF TypeOK
    <3>1. CASE Mention
      BY <2>2, <3>1 DEF Mention, Rows
    <3>2. CASE Checkpoint
      <4>1. Arg = count /\ count \in Nat /\ count <= Len(mems) + failures
        BY <2>2, <3>2 DEF IInv, DueInv, Checkpoint, Doing, Arg, ShapeInv
      <4> QED
        BY <3>2, <4>1 DEF Checkpoint
    <3>3. CASE Summarise
      <4>1. Arg \in Nat \ {NoCluster}
        BY <2>2, <3>3 DEF Summarise, Doing, Arg, Tasks, Writes
      <4> QED
        BY <3>3, <4>1 DEF Summarise
    <3>4. CASE Mark \/ AddFact \/ Retire \/ Link \/ Consolidate
      BY <3>4 DEF Mark, AddFact, Retire, Link, Consolidate, tables
    <3> QED
      BY <1>3, <3>1, <3>2, <3>3, <3>4
  <2>8. TypeOK'
    BY <1>types, <2>4, <2>5, <2>6, <2>7 DEF TypeOK, engine, history
  <2>9. ShapeInv'
    <3>1. mems' # <<>>
      BY <2>2, <2>5
    <3> QED
      BY <1>types, <2>2, <2>3, <2>4, <2>5, <2>6, <3>1 DEF ShapeInv, Fact, engine, history
  <2> QED
    BY <2>8, <2>9
<1> QED
  BY <1>1, <1>2, <1>3 DEF Next, Aside

(* Nothing is superseded but by what is similar, stored and newer: marks are    *)
(* made while no row comes after the one that caused them.                      *)
LEMMA MarksStep ==
  ASSUME IInv, [Next]_vars
  PROVE MarksInv' /\ Succession'
<1>types. TypeOK /\ ShapeInv
  BY DEF IInv
<1>1. ASSUME NEW p \in Payloads, Ingest(p) PROVE MarksInv' /\ Succession'
  <2>1. PICK keep \in BOOLEAN, c \in Nat, rivals \in SUBSET Rows :
          /\ mems' = Append(mems, [text |-> p.text, stored |-> keep, by |-> NoRow, cluster |-> c])
          /\ \A r \in rivals : mems[r].stored /\ <<mems[r].text, p.text>> \in Similar
          /\ Left' \subseteq (IF keep THEN Writes(rivals) ELSE {}) \cup Endings(count + 1)
    BY <1>1, <1>types, IngestFacts
  <2> DEFINE last == Len(mems) + 1
  <2>2. /\ Len(mems) \in Nat /\ Len(mems') = last
        /\ Rows = 1 .. Len(mems) /\ Rows' = 1 .. last
        /\ \A r \in Rows : mems'[r] = mems[r]
        /\ mems'[last].text = p.text /\ mems'[last].stored = keep /\ mems'[last].by = NoRow
    BY <1>types, <2>1, IngestRows
  <2>3. MarksInv'
    <3> SUFFICES ASSUME NEW t \in Left', t.op = "mark"
                 PROVE /\ t.arg \in Rows' /\ t.arg < Len(mems') /\ mems'[t.arg].stored
                       /\ mems'[Len(mems')].stored
                       /\ <<mems'[t.arg].text, mems'[Len(mems')].text>> \in Similar
      BY DEF MarksInv
    <3>1. keep /\ t.arg \in rivals
      BY <2>1 DEF Writes, Endings
    <3>2. mems'[last].stored
      BY <2>2, <3>1
    <3> DEFINE r == t.arg
    <3>5. r \in Rows
      BY <3>1
    <3> HIDE DEF r
    <3>6. r \in Nat /\ r < last /\ r \in Rows' /\ mems'[r] = mems[r]
      BY <2>2, <3>5
    <3>3. t.arg < Len(mems') /\ t.arg \in Rows' /\ mems'[t.arg] = mems[t.arg]
      BY <2>2, <3>6 DEF r
    <3>4. mems[t.arg].stored /\ <<mems[t.arg].text, p.text>> \in Similar
      BY <2>1, <3>1
    <3> QED
      BY <2>2, <3>2, <3>3, <3>4
  <2>4. Succession'
    <3> SUFFICES ASSUME NEW r \in Rows', mems'[r].by # NoRow
                 PROVE /\ mems'[r].stored
                       /\ mems'[r].by > r /\ mems'[mems'[r].by].stored
                       /\ <<mems'[r].text, mems'[mems'[r].by].text>> \in Similar
      BY DEF Succession
    <3>1. r \in Rows
      BY <2>2
    <3>2. mems[r].by \in Rows
      BY <1>types, <2>2, <3>1 DEF TypeOK, NoRow
    <3> QED
      BY <2>2, <3>1, <3>2 DEF IInv, Succession
  <2> QED
    BY <2>3, <2>4
<1>2. CASE Mark
  <2>1. /\ Arg \in Rows /\ Arg < Len(mems) /\ mems[Arg].stored /\ mems[Len(mems)].stored
        /\ <<mems[Arg].text, mems[Len(mems)].text>> \in Similar
        /\ Len(mems') = Len(mems) /\ Rows' = Rows
        /\ \A r \in Rows : /\ mems'[r].text = mems[r].text /\ mems'[r].stored = mems[r].stored
                           /\ mems'[r].by = IF r = Arg THEN Len(mems) ELSE mems[r].by
    BY <1>2, <1>types, MarkFacts DEF IInv
  <2>2. Len(mems) \in Rows /\ Left' \subseteq Left
    BY <1>2, <1>types, <2>1, PlainFacts DEF Rows
  <2>3. MarksInv'
    BY <2>1, <2>2 DEF IInv, MarksInv
  <2>4. Succession'
    <3> SUFFICES ASSUME NEW r \in Rows, mems'[r].by # NoRow
                 PROVE /\ mems'[r].stored
                       /\ mems'[r].by > r /\ mems'[mems'[r].by].stored
                       /\ <<mems'[r].text, mems'[mems'[r].by].text>> \in Similar
      BY <2>1 DEF Succession
    <3>1. CASE r = Arg
      <4>1. mems'[r].by = Len(mems)
        BY <2>1, <3>1
      <4>2. /\ mems'[r].stored = mems[r].stored /\ mems'[r].text = mems[r].text
            /\ mems'[Len(mems)].stored = mems[Len(mems)].stored
            /\ mems'[Len(mems)].text = mems[Len(mems)].text
        BY <2>1, <2>2
      <4> QED
        BY <2>1, <3>1, <4>1, <4>2
    <3>2. CASE r # Arg
      <4>1. mems'[r].by = mems[r].by /\ mems[r].by \in Rows
        BY <1>types, <2>1, <3>2 DEF TypeOK, NoRow, Rows
      <4> QED
        BY <2>1, <4>1 DEF IInv, Succession
    <3> QED
      BY <3>1, <3>2
  <2> QED
    BY <2>3, <2>4
<1>3. ASSUME UNCHANGED mems, \A t \in Left' : t.op = "mark" => t \in Left
      PROVE MarksInv' /\ Succession'
  BY <1>3 DEF IInv, MarksInv, Succession, Rows
<1>4. CASE Aside
  BY <1>3, <1>4, <1>types, QuietSteps DEF Quiet
<1>5. CASE Retire \/ Mention \/ Link \/ Checkpoint \/ Summarise
  <2>1. UNCHANGED mems
    BY <1>5 DEF Retire, Mention, Link, Checkpoint, Summarise
  <2> QED
    BY <1>3, <1>5, <1>types, <2>1, PlainFacts
<1>6. CASE AddFact
  <2>1. PICK S : Left' \subseteq Left \cup [op : {"retire"}, arg : S]
    BY <1>6, <1>types, AddFactFacts
  <2>2. UNCHANGED mems
    BY <1>6 DEF AddFact
  <2> QED
    BY <1>3, <2>1, <2>2
<1>7. CASE Consolidate
  <2>1. Left' \subseteq Left \cup [op : {"summary"}, arg : Nat]
    BY <1>7, <1>types, ConsolidateFacts
  <2>2. UNCHANGED mems
    BY <1>7 DEF Consolidate, tables
  <2> QED
    BY <1>3, <2>1, <2>2
<1> QED
  BY <1>1, <1>2, <1>4, <1>5, <1>6, <1>7 DEF Next, Aside

(* A fact is replaced only while there is a newer one, and facts are not taken  *)
(* back.                                                                        *)
LEMMA FactsStep ==
  ASSUME IInv, [Next]_vars
  PROVE FactsInv'
<1>types. TypeOK /\ ShapeInv
  BY DEF IInv
<1>1. CASE AddFact
  <2> DEFINE last == Len(facts) + 1
  <2>1. /\ Len(facts) \in Nat /\ DOMAIN facts = 1 .. Len(facts)
        /\ DOMAIN facts' = DOMAIN facts \cup {last}
        /\ \A f \in DOMAIN facts : facts'[f] = facts[f]
        /\ facts'[last].by = NoRow
    BY <1>1, <1>types, AddFactFacts
  <2>2. PICK S \in SUBSET DOMAIN facts :
          /\ \A f \in S : facts[f].key = facts'[last].key
          /\ Left' \subseteq Left \cup [op : {"retire"}, arg : S]
    BY <1>1, <1>types, AddFactFacts
  <2>3. \A f \in DOMAIN facts : Outdated(f) => Outdated(f)'
    BY <2>1 DEF Outdated
  <2>4. \A f \in S : Outdated(f)'
    BY <2>1, <2>2 DEF Outdated
  <2>5. ASSUME NEW f \in DOMAIN facts', facts'[f].by # NoRow PROVE Outdated(f)'
    BY <2>1, <2>3, <2>5 DEF IInv, FactsInv
  <2>6. ASSUME NEW t \in Left', t.op = "retire" PROVE t.arg \in DOMAIN facts' /\ Outdated(t.arg)'
    <3>1. CASE t \in Left
      BY <2>1, <2>3, <2>6, <3>1 DEF IInv, FactsInv
    <3>2. CASE t \notin Left
      BY <2>1, <2>2, <2>4, <3>2
    <3> QED
      BY <3>1, <3>2
  <2> QED
    BY <2>5, <2>6 DEF FactsInv
<1>2. CASE Retire
  <2>1. /\ Arg \in DOMAIN facts /\ Outdated(Arg) /\ DOMAIN facts' = DOMAIN facts
        /\ \A f \in DOMAIN facts : /\ facts'[f].key = facts[f].key
                                   /\ f # Arg => facts'[f].by = facts[f].by
    BY <1>2, <1>types, RetireFacts DEF IInv
  <2>2. Left' \subseteq Left
    BY <1>2, <1>types, PlainFacts
  <2>3. \A f \in DOMAIN facts : Outdated(f) => Outdated(f)'
    BY <2>1 DEF Outdated
  <2> QED
    BY <2>1, <2>2, <2>3 DEF IInv, FactsInv
<1>3. ASSUME UNCHANGED facts, \A t \in Left' : t.op = "retire" => t \in Left
      PROVE FactsInv'
  BY <1>3 DEF IInv, FactsInv, Outdated
<1>4. CASE Aside
  BY <1>3, <1>4, <1>types, QuietSteps DEF Quiet
<1>5. ASSUME NEW p \in Payloads, Ingest(p) PROVE FactsInv'
  <2>1. PICK keep \in BOOLEAN, rivals \in SUBSET Rows :
          Left' \subseteq (IF keep THEN Writes(rivals) ELSE {}) \cup Endings(count + 1)
    BY <1>5, <1>types, IngestFacts
  <2>2. \A t \in Left' : t.op # "retire"
    BY <2>1 DEF Writes, Endings
  <2>3. UNCHANGED facts
    BY <1>5 DEF Ingest
  <2> QED
    BY <1>3, <2>2, <2>3
<1>6. CASE Mark \/ Mention \/ Link \/ Checkpoint \/ Summarise
  <2>1. UNCHANGED facts
    BY <1>6 DEF Mark, Mention, Link, Checkpoint, Summarise
  <2> QED
    BY <1>3, <1>6, <1>types, <2>1, PlainFacts
<1>7. CASE Consolidate
  <2>1. Left' \subseteq Left \cup [op : {"summary"}, arg : Nat]
    BY <1>7, <1>types, ConsolidateFacts
  <2>2. UNCHANGED facts
    BY <1>7 DEF Consolidate, tables
  <2> QED
    BY <1>3, <2>1, <2>2
<1> QED
  BY <1>1, <1>2, <1>4, <1>5, <1>6, <1>7 DEF Next, Aside

(* Whether a checkpoint is among what is left to do.                            *)
LEMMA DueInElems ==
  ASSUME NEW S, NEW s \in Seq(S)
  PROVE (\E i \in DOMAIN s : s[i].op = "checkpoint") <=> \E t \in Elems(s) : t.op = "checkpoint"
<1>1. DOMAIN s = 1 .. Len(s)
  OBVIOUS
<1> QED
  BY <1>1 DEF Elems

LEMMA DueLeft ==
  ASSUME ShapeInv, ShapeInv'
  PROVE /\ Due <=> \E t \in Left : t.op = "checkpoint"
        /\ Due' <=> \E t \in Left' : t.op = "checkpoint"
<1>1. script \in Seq(Tasks) /\ script' \in Seq(Tasks)
  BY DEF ShapeInv
<1>2. Left' = Elems(script')
  BY DEF Left, Elems
<1> QED
  BY <1>1, <1>2, DueInElems DEF Due, Left

(* Where checkpoints neither come up nor are made.                              *)
Unsaved == UNCHANGED <<saved, count, up, ungated, crashes, missed>>

LEMMA UnsavedSteps ==
  ASSUME TypeOK, ShapeInv,
         Mark \/ Retire \/ Mention \/ Link \/ Summarise \/ AddFact \/ Consolidate \/ Search \/ RelatedMemories
         \/ UNCHANGED vars
  PROVE Unsaved /\ \A t : t.op = "checkpoint" => (t \in Left' <=> t \in Left)
<1>1. CASE Mark \/ Retire \/ Mention \/ Link \/ Summarise
  <2>1. PICK op \in {"mark", "retire", "mention", "link", "summary"} :
          Doing(op) /\ script' = Tail(script)
    BY <1>1 DEF Mark, Retire, Mention, Link, Summarise
  <2>2. Unsaved
    BY <1>1 DEF Unsaved, Mark, Retire, Mention, Link, Summarise, engine, history
  <2>3. /\ Elems(Tail(script)) \subseteq Left /\ Left \subseteq Elems(Tail(script)) \cup {Head(script)}
        /\ Head(script).op # "checkpoint"
    BY <2>1, WriteDone
  <2>4. Left' = Elems(Tail(script))
    BY <2>1 DEF Left, Elems
  <2> QED
    BY <2>2, <2>3, <2>4
<1>2. CASE AddFact
  <2>1. PICK S : Left' \subseteq Left \cup [op : {"retire"}, arg : S]
    BY <1>2, AddFactFacts
  <2>2. Unsaved
    BY <1>2 DEF Unsaved, AddFact, engine, history
  <2>3. Left \subseteq Left' \cup {Head(script)} /\ Head(script).op = "fact"
    BY <1>2, AddFactFacts DEF AddFact, Doing
  <2> QED
    BY <2>1, <2>2, <2>3
<1>3. CASE Consolidate
  <2>1. Left' \subseteq Left \cup [op : {"summary"}, arg : Nat]
    BY <1>3, ConsolidateFacts
  <2>2. Unsaved
    BY <1>3 DEF Unsaved, Consolidate, tables, engine, history
  <2>3. Left \subseteq Left' \cup {Head(script)} /\ Head(script).op = "consolidate"
    BY <1>3, ConsolidateFacts DEF Consolidate, Doing
  <2> QED
    BY <2>1, <2>2, <2>3
<1>4. CASE Search \/ RelatedMemories \/ UNCHANGED vars
  <2>1. UNCHANGED script /\ Unsaved
    BY <1>4 DEF Unsaved, Search, RelatedMemories, vars, tables, engine, history
  <2>2. Left' = Left
    BY <2>1 DEF Left, Elems
  <2> QED
    BY <2>1, <2>2
<1> QED
  BY <1>1, <1>2, <1>3, <1>4

LEMMA DueStep ==
  ASSUME IInv, [Next]_vars
  PROVE DueInv'
<1>types. TypeOK /\ ShapeInv /\ DueInv
  BY DEF IInv
<1>1. ASSUME script' = <<>> PROVE DueInv'
  <2>1. Left' = {}
    BY <1>1 DEF Left, Elems
  <2> QED
    BY <2>1 DEF DueInv
<1>2. CASE Open \/ Close \/ Crash \/ Raise \/ \E p \in Payloads : IngestFails(p)
  BY <1>1, <1>2, <1>types DEF Open, Close, Crash, Raise, IngestFails, Idle, ShapeInv
<1>3. ASSUME NEW p \in Payloads, Ingest(p) PROVE DueInv'
  <2>1. PICK keep \in BOOLEAN, rivals \in SUBSET Rows :
          Left' \subseteq (IF keep THEN Writes(rivals) ELSE {}) \cup Endings(count + 1)
    BY <1>3, <1>types, IngestFacts
  <2>2. count' = count + 1
    BY <1>3 DEF Ingest
  <2> QED
    BY <2>1, <2>2 DEF DueInv, Writes, Endings
<1>4. CASE Checkpoint
  <2>1. Left' \subseteq Left
    BY <1>4, <1>types, PlainFacts
  <2>2. UNCHANGED count
    BY <1>4 DEF Checkpoint, engine
  <2> QED
    BY <2>1, <2>2, <1>types DEF DueInv
<1>5. CASE Mark \/ Retire \/ Mention \/ Link \/ Summarise \/ AddFact \/ Consolidate \/ Search \/ RelatedMemories
           \/ UNCHANGED vars
  <2>1. Unsaved /\ \A t : t.op = "checkpoint" => (t \in Left' <=> t \in Left)
    BY <1>5, <1>types, UnsavedSteps
  <2> QED
    BY <2>1, <1>types DEF DueInv, Unsaved
<1> QED
  BY <1>2, <1>3, <1>4, <1>5 DEF Next

(* The products that the invariant counts with.                                 *)
LEMMA Sums ==
  ASSUME NEW c \in Nat \ {0}, NEW a \in Nat, NEW kills \in Nat, NEW n \in Nat, NEW m \in 0 .. n
  PROVE /\ c * a \in Nat /\ c * m \in Nat /\ c * (kills + (n - m)) \in Nat
        /\ c * (a + 1) = c * a + c /\ c * (m + 1) = c * m + c
        /\ c * (kills + n) = c * (kills + (n - m)) + c * m
        /\ c * ((kills + 1) + n) = c * (kills + n) + c
        /\ c * (kills + (n + 1)) = c * (kills + n) + c
        /\ (n + 1) - (m + 1) = n - m /\ m + 0 = m /\ m \in Nat
<1>1. n - m \in Nat /\ m \in Nat /\ kills + (n - m) \in Nat /\ kills + n \in Nat
      /\ kills + n = (kills + (n - m)) + m /\ (kills + 1) + n = (kills + n) + 1
      /\ kills + (n + 1) = (kills + n) + 1 /\ 1 \in Nat /\ c * 1 = c
  OBVIOUS
<1>2. c * (a + 1) = c * a + c * 1 /\ c * (m + 1) = c * m + c * 1 /\ c * a \in Nat /\ c * m \in Nat
  BY <1>1, Product
<1>3. c * ((kills + (n - m)) + m) = c * (kills + (n - m)) + c * m /\ c * (kills + (n - m)) \in Nat
  BY <1>1, Product
<1>4. c * ((kills + n) + 1) = c * (kills + n) + c * 1
  BY <1>1, Product
<1> QED
  BY <1>1, <1>2, <1>3, <1>4

LEMMA MoreMissed ==
  ASSUME NEW c \in Nat \ {0}, NEW kills \in Nat, NEW n \in Nat, NEW m \in 0 .. n,
         NEW later \in Nat, NEW k \in Nat, k <= later, later - k >= n - m, later >= n
  PROVE /\ c * (kills + (n - m)) <= c * (kills + (later - k)) /\ c * (kills + (later - k)) \in Nat
        /\ c * (kills + n) <= c * (kills + later) /\ c * (kills + later) \in Nat
        /\ k \in 0 .. later
<1>1. /\ kills + (n - m) \in Nat /\ kills + (later - k) \in Nat /\ kills + n \in Nat /\ kills + later \in Nat
      /\ kills + (n - m) <= kills + (later - k) /\ kills + n <= kills + later /\ k \in 0 .. later
  OBVIOUS
<1> QED
  BY <1>1, Product

(* How far the count is behind, and how often the cold start was repeated.      *)
LEMMA ColdStep ==
  ASSUME IInv, [Next]_vars
  PROVE UngatedInv'
<1>types. TypeOK /\ ShapeInv /\ ShapeInv' /\ DueInv /\ UngatedInv
  BY TypeStep DEF IInv
<1>n. /\ ColdStart \in Nat /\ CheckpointEvery \in Nat \ {0} /\ crashes \in Nat /\ missed \in Nat
      /\ saved \in Nat /\ count \in Nat /\ ungated \in Nat
  BY <1>types, MemGateAssumption DEF TypeOK
<1>due. /\ Due <=> \E t \in Left : t.op = "checkpoint"
        /\ Due' <=> \E t \in Left' : t.op = "checkpoint"
  BY <1>types, DueLeft
<1>empty. (script = <<>> => ~Due) /\ (script' = <<>> => ~Due')
  BY DEF Due
<1>1. CASE Open
  <2>1. ~up /\ script' = <<>> /\ count' = saved /\ up' = TRUE /\ UNCHANGED <<saved, ungated, crashes, missed>>
    BY <1>1, <1>types DEF Open, ShapeInv, tables, history
  <2>2. PICK a \in Nat : CheckpointEvery * a <= saved /\ saved < CheckpointEvery * a + CheckpointEvery
    BY <1>n, Floor
  <2>3. 0 \in 0 .. missed /\ missed - 0 = missed /\ CheckpointEvery * (0 + 0) = 0
    BY <1>n
  <2>4. Pending' = 0 /\ ~Due'
    BY <2>1, <1>empty DEF Pending
  <2>5. Behind(a, 0)'
    BY <2>1, <2>2, <2>3, <2>4, <1>n DEF Behind
  <2>6. ungated' <= count' + CheckpointEvery * (crashes' + (missed' - 0)) /\ ColdOnce'
    BY <2>1, <2>3, <1>types DEF UngatedInv, ColdOnce
  <2>7. 0 \in 0 .. missed'
    BY <2>1, <2>3
  <2> QED
    BY <2>1, <2>5, <2>6, <2>7 DEF UngatedInv
<1>2. ASSUME ~up, UNCHANGED <<up, saved, ungated, crashes, missed>> PROVE UngatedInv'
  BY <1>2, <1>types DEF UngatedInv, ColdOnce
<1>3. ASSUME up PROVE UngatedInv'
  <2>0. \A m \in 0 .. missed : m \in Nat /\ m <= missed
    BY <1>n
  <2>1. PICK a \in Nat, m \in Nat :
          m <= missed /\ Behind(a, m) /\ ungated <= count + CheckpointEvery * (crashes + (missed - m))
    BY <1>3, <1>types, <2>0 DEF UngatedInv
  <2>2. /\ CheckpointEvery * a \in Nat /\ CheckpointEvery * m \in Nat
        /\ CheckpointEvery * (crashes + (missed - m)) \in Nat
        /\ CheckpointEvery * (a + 1) = CheckpointEvery * a + CheckpointEvery
        /\ CheckpointEvery * (m + 1) = CheckpointEvery * m + CheckpointEvery
        /\ CheckpointEvery * (crashes + missed) =
             CheckpointEvery * (crashes + (missed - m)) + CheckpointEvery * m
        /\ CheckpointEvery * ((crashes + 1) + missed) = CheckpointEvery * (crashes + missed) + CheckpointEvery
        /\ CheckpointEvery * (crashes + (missed + 1)) = CheckpointEvery * (crashes + missed) + CheckpointEvery
        /\ (missed + 1) - (m + 1) = missed - m /\ m + 0 = m /\ m \in 0 .. missed /\ m <= missed
    BY <1>n, <2>1, Sums
  <2>3. PICK A \in Nat, M \in Nat, R \in Nat :
          A = CheckpointEvery * a /\ M = CheckpointEvery * m
          /\ R = CheckpointEvery * (crashes + (missed - m))
          /\ R + M = CheckpointEvery * (crashes + missed)
    BY <2>2
  <2>4. /\ A <= count /\ count < A + CheckpointEvery /\ (Due => count = A)
        /\ A <= saved + (M + (IF Due THEN CheckpointEvery ELSE 0))
        /\ ungated <= count + R /\ ungated <= ColdStart + (R + M)
    BY <2>1, <2>2, <2>3, <1>types, <1>n DEF Behind, Pending, UngatedInv, ColdOnce
  <2>5. ASSUME UNCHANGED <<up, crashes>>, NEW b \in Nat, NEW k \in Nat, missed' \in Nat,
               k <= missed', missed' - k >= missed - m, missed' >= missed, Behind(b, k)',
               ungated' \in Nat, count' \in Nat, ungated' <= count' + R, ungated' <= ColdStart + (R + M)
        PROVE UngatedInv'
    <3>0. /\ missed' \in Nat /\ k <= missed' /\ missed' - k >= missed - m /\ missed' >= missed
          /\ ungated' \in Nat /\ count' \in Nat /\ ungated' <= count' + R /\ ungated' <= ColdStart + (R + M)
      BY <2>5
    <3>1. /\ CheckpointEvery * (crashes + (missed - m)) <= CheckpointEvery * (crashes + (missed' - k))
          /\ CheckpointEvery * (crashes + missed) <= CheckpointEvery * (crashes + missed')
          /\ CheckpointEvery * (crashes + (missed' - k)) \in Nat
          /\ CheckpointEvery * (crashes + missed') \in Nat
          /\ k \in 0 .. missed'
      <4>1. CheckpointEvery \in Nat \ {0} /\ crashes \in Nat /\ missed \in Nat /\ m \in 0 .. missed
        BY <1>n, <2>2
      <4> QED
        BY <3>0, <4>1, MoreMissed
    <3>2. PICK x \in Nat, y \in Nat : /\ x = CheckpointEvery * (crashes + (missed' - k))
                                      /\ y = CheckpointEvery * (crashes + missed')
      BY <3>1
    <3>3. ungated' <= count' + x /\ ungated' <= ColdStart + y
      <4>1. R <= x /\ R + M <= y
        BY <2>3, <3>1, <3>2, Zenon
      <4>2. PICK u \in Nat, n \in Nat : u = ungated' /\ n = count'
        BY <3>0
      <4>3. u <= n + x /\ u <= ColdStart + y
        <5>1. u <= n + R /\ u <= ColdStart + (R + M) /\ ColdStart \in Nat
          BY <3>0, <4>2, <1>n
        <5> QED
          BY <4>1, <5>1
      <4> QED
        BY <4>2, <4>3
    <3> QED
      BY <1>3, <2>5, <3>1, <3>2, <3>3 DEF UngatedInv, ColdOnce
  <2>6. CASE Close
    <3>1. script = <<>> /\ saved' = count /\ up' = FALSE /\ UNCHANGED <<ungated, crashes, missed>>
      BY <2>6 DEF Close, Idle, history
    <3>2. ungated <= count + CheckpointEvery * (crashes + missed)
      BY <2>2, <2>3, <2>4, <1>n
    <3> QED
      BY <3>1, <3>2, <1>types DEF UngatedInv, ColdOnce
  <2>7. CASE Crash
    <3>1. crashes' = crashes + 1 /\ up' = FALSE /\ UNCHANGED <<saved, ungated, missed>>
      BY <2>7 DEF Crash, tables
    <3>2. count <= saved + (M + CheckpointEvery)
      BY <2>4, <1>n
    <3>3. /\ ungated <= saved + (R + M + CheckpointEvery)
          /\ ungated <= ColdStart + (R + M + CheckpointEvery)
      BY <2>4, <3>2, <1>n
    <3>4. CheckpointEvery * (crashes' + missed') = R + M + CheckpointEvery
      BY <2>2, <2>3, <3>1
    <3> QED
      BY <3>1, <3>3, <3>4 DEF UngatedInv, ColdOnce
  <2>8. ASSUME count' = count + 1, ~Due, UNCHANGED <<saved, crashes>>, missed' \in {missed, missed + 1},
               missed' = missed + 1 => ~Due',
               missed' = missed => (Due' <=> count' % CheckpointEvery = 0),
               missed' = missed + 1 => count' % CheckpointEvery = 0
        PROVE \E b \in Nat, k \in Nat :
                k <= missed' /\ missed' - k >= missed - m /\ missed' >= missed /\ Behind(b, k)'
    <3>1. count' % CheckpointEvery = 0 <=> count + 1 = CheckpointEvery * (a + 1)
      <4>0. CheckpointEvery * a <= count /\ count < CheckpointEvery * a + CheckpointEvery
        BY <2>1 DEF Behind
      <4>1. (count + 1) % CheckpointEvery = 0 <=> count + 1 = CheckpointEvery * (a + 1)
        <5>1. CheckpointEvery \in Nat \ {0} /\ count \in Nat /\ a \in Nat
          BY <1>n
        <5> QED
          BY <4>0, <5>1, NextMultiple, Zenon
      <4> QED
        BY <2>8, <4>1
    <3>2. CASE count' % CheckpointEvery # 0
      <4>1. missed' = missed /\ Pending' = 0 /\ ~Due'
        BY <2>8, <3>2, <1>n DEF Pending
      <4>2. A <= count + 1 /\ count + 1 < A + CheckpointEvery /\ A <= saved + M
        BY <2>2, <2>3, <2>4, <2>8, <3>1, <3>2, <1>n
      <4>3. Behind(a, m)'
        BY <2>2, <2>3, <2>8, <4>1, <4>2 DEF Behind
      <4> QED
        BY <2>2, <4>1, <4>3, <1>n
    <3>3. CASE count' % CheckpointEvery = 0 /\ missed' = missed
      <4>1. Due' /\ Pending' = 1
        BY <2>8, <3>3 DEF Pending
      <4>2. /\ CheckpointEvery * (a + 1) = count + 1 /\ count + 1 < CheckpointEvery * (a + 1) + CheckpointEvery
            /\ CheckpointEvery * (a + 1) <= saved + CheckpointEvery * (m + 1)
        BY <2>2, <2>3, <2>4, <2>8, <3>1, <3>3, <1>n
      <4>3. Behind(a + 1, m)'
        BY <2>8, <4>1, <4>2, <1>n DEF Behind
      <4>4. a + 1 \in Nat
        OBVIOUS
      <4> QED
        BY <2>2, <3>3, <4>3, <4>4, <1>n
    <3>4. CASE count' % CheckpointEvery = 0 /\ missed' = missed + 1
      <4>1. ~Due' /\ Pending' = 0
        BY <2>8, <3>4 DEF Pending
      <4>2. /\ CheckpointEvery * (a + 1) = count + 1 /\ count + 1 < CheckpointEvery * (a + 1) + CheckpointEvery
            /\ CheckpointEvery * (a + 1) <= saved + CheckpointEvery * (m + 1)
        BY <2>2, <2>3, <2>4, <2>8, <3>1, <3>4, <1>n
      <4>3. (m + 1) + 0 = m + 1 /\ m + 1 \in Nat /\ a + 1 \in Nat /\ m + 1 <= missed + 1
        BY <2>2, <1>n
      <4>4. Behind(a + 1, m + 1)'
        BY <2>8, <4>1, <4>2, <4>3, <1>n DEF Behind
      <4>5. missed' - (m + 1) >= missed - m /\ missed' >= missed /\ m + 1 <= missed'
        BY <2>2, <3>4, <4>3, <1>n
      <4> QED
        BY <4>3, <4>4, <4>5
    <3> QED
      BY <2>8, <3>2, <3>3, <3>4
  <2>9. ASSUME NEW p \in Payloads, Ingest(p) PROVE UngatedInv'
    <3>1. PICK keep \in BOOLEAN, rivals \in SUBSET Rows :
            /\ Left' \subseteq (IF keep THEN Writes(rivals) ELSE {}) \cup Endings(count + 1)
            /\ (count + 1) % CheckpointEvery = 0 => [op |-> "checkpoint", arg |-> count + 1] \in Left'
            /\ ungated' = IF count < ColdStart THEN ungated + 1 ELSE ungated
      BY <2>9, <1>types, IngestFacts
    <3>2. script = <<>> /\ count' = count + 1 /\ UNCHANGED <<up, saved, crashes, missed>>
      BY <2>9 DEF Ingest, Idle
    <3>3. Due' <=> count' % CheckpointEvery = 0
      <4>1. ASSUME NEW t \in Left', t.op = "checkpoint" PROVE (count + 1) % CheckpointEvery = 0
        BY <3>1, <4>1 DEF Writes, Endings
      <4> QED
        BY <3>1, <3>2, <4>1, <1>due
    <3>4. PICK b \in Nat, k \in Nat :
            k <= missed' /\ missed' - k >= missed - m /\ missed' >= missed /\ Behind(b, k)'
      BY <3>2, <3>3, <2>8, <1>empty, <1>n
    <3>5. ungated' \in Nat /\ ungated' <= count' + R /\ ungated' <= ColdStart + (R + M)
      BY <2>4, <3>1, <3>2, <1>n
    <3> QED
      BY <2>5, <3>2, <3>4, <3>5, <1>n
  <2>10. ASSUME NEW p \in Payloads, IngestFails(p) PROVE UngatedInv'
    <3>1. /\ script = <<>> /\ script' = <<>> /\ count' \in {count, count + 1}
          /\ UNCHANGED <<up, saved, ungated, crashes>>
          /\ missed' = IF count' # count /\ count' % CheckpointEvery = 0 THEN missed + 1 ELSE missed
      BY <2>10 DEF IngestFails, Idle, tables
    <3>2. CASE count' = count
      <4>1. missed' = missed /\ Pending' = Pending /\ ~Due /\ ~Due'
        BY <3>1, <3>2, <1>empty DEF Pending
      <4>2. Behind(a, m)'
        BY <2>1, <3>1, <3>2, <4>1 DEF Behind
      <4>3. m <= missed' /\ missed' - m >= missed - m /\ missed' >= missed /\ m \in Nat
        BY <2>2, <4>1, <1>n
      <4> QED
        BY <2>4, <2>5, <3>1, <3>2, <4>1, <4>2, <4>3, <1>n
    <3>3. CASE count' = count + 1
      <4>1. missed' = IF count' % CheckpointEvery = 0 THEN missed + 1 ELSE missed
        BY <3>1, <3>3, <1>n
      <4>2. PICK b \in Nat, k \in Nat :
              k <= missed' /\ missed' - k >= missed - m /\ missed' >= missed /\ Behind(b, k)'
        BY <3>1, <3>3, <4>1, <2>8, <1>empty, <1>n
      <4>3. missed' \in Nat
        BY <4>1, <1>n
      <4> QED
        BY <2>4, <2>5, <3>1, <3>3, <4>2, <4>3, <1>n
    <3> QED
      BY <3>1, <3>2, <3>3
  <2>11. CASE Raise
    <3>1. /\ script' = <<>> /\ missed' = (IF Due THEN missed + 1 ELSE missed)
          /\ UNCHANGED <<up, count, saved, ungated, crashes>>
      BY <2>11 DEF Raise, tables, engine
    <3>2. ~Due' /\ Pending' = 0
      BY <3>1, <1>empty DEF Pending
    <3>3. CASE Due
      <4>1. (m + 1) + 0 = m + 1 /\ m + 1 \in Nat /\ missed' = missed + 1
        BY <3>1, <3>3, <1>n
      <4>2. CheckpointEvery * a <= saved + CheckpointEvery * (m + 1)
        BY <2>2, <2>3, <2>4, <3>3, <1>n
      <4>3. Behind(a, m + 1)'
        BY <2>3, <2>4, <3>1, <3>2, <4>1, <4>2 DEF Behind
      <4>4. m + 1 <= missed' /\ missed' - (m + 1) >= missed - m /\ missed' >= missed /\ missed' \in Nat
        BY <2>2, <4>1, <1>n
      <4> QED
        BY <2>4, <2>5, <3>1, <4>1, <4>3, <4>4, <1>n
    <3>4. CASE ~Due
      <4>1. missed' = missed /\ m <= missed /\ m \in Nat
        BY <2>2, <3>1, <3>4, <1>n
      <4>2. CheckpointEvery * a <= saved + CheckpointEvery * (m + 0)
        BY <2>2, <2>3, <2>4, <3>4, <1>n
      <4>3. Behind(a, m)'
        BY <2>3, <2>4, <3>1, <3>2, <4>1, <4>2 DEF Behind
      <4> QED
        BY <2>4, <2>5, <3>1, <4>1, <4>3, <1>n
    <3> QED
      BY <3>3, <3>4
  <2>12. CASE Checkpoint
    <3>1. Head(script) \in Left /\ Head(script).op = "checkpoint"
      BY <2>12, <1>types, WriteDone DEF Checkpoint
    <3>2. saved' = count /\ UNCHANGED <<count, up, ungated, crashes, missed>>
      BY <2>12, <3>1, <1>types DEF Checkpoint, engine, history, Arg, DueInv
    <3>3. Due
      BY <3>1, <1>due
    <3>4. CheckpointEvery * (0 + Pending') \in Nat
      BY <1>n DEF Pending
    <3>5. CheckpointEvery * a <= saved' + CheckpointEvery * (0 + Pending')
      <4>1. CheckpointEvery * a = saved' /\ saved' \in Nat
        BY <2>3, <2>4, <3>2, <3>3, <1>n
      <4> QED
        BY <3>4, <4>1
    <3>6. Behind(a, 0)'
      BY <2>3, <2>4, <3>2, <3>3, <3>5 DEF Behind
    <3>7. 0 <= missed' /\ missed' - 0 >= missed - m /\ missed' >= missed /\ 0 \in Nat /\ missed' \in Nat
      BY <2>2, <3>2, <1>n
    <3> QED
      BY <2>4, <2>5, <3>2, <3>6, <3>7, <1>n
  <2>13. CASE Mark \/ Retire \/ Mention \/ Link \/ Summarise \/ AddFact \/ Consolidate \/ Search \/ RelatedMemories
              \/ UNCHANGED vars
    <3>1. Unsaved /\ (Due' <=> Due)
      BY <2>13, <1>types, <1>due, UnsavedSteps
    <3>2. Pending' = Pending
      BY <3>1 DEF Pending
    <3>3. Behind(a, m)' /\ m <= missed' /\ missed' = missed /\ m \in Nat
      BY <2>1, <2>2, <3>1, <3>2, <1>n DEF Behind, Unsaved
    <3> QED
      BY <2>4, <2>5, <3>1, <3>3, <1>n DEF Unsaved
  <2> QED
    BY <1>3, <2>6, <2>7, <2>9, <2>10, <2>11, <2>12, <2>13 DEF Next, Open
<1>4. CASE ~up
  <2>1. Open \/ UNCHANGED vars
    BY <1>4, <1>types DEF Next, Close, Crash, Ingest, IngestFails, Raise, Idle, Mark, AddFact, Retire, Mention, Link,
                          Checkpoint, Consolidate, Summarise, Doing, Search, RelatedMemories
  <2> QED
    BY <1>1, <1>2, <1>4, <2>1 DEF vars, tables, engine, history
<1> QED
  BY <1>3, <1>4

-----------------------------------------------------------------------------
(* The theorems.                                                                *)

(* The strengthened invariant, of which the others are consequences.            *)
THEOREM Invariance == Spec => []IInv
<1>1. Init => IInv
  BY InitIInv
<1>2. IInv /\ [Next]_vars => IInv'
  BY TypeStep, MarksStep, FactsStep, DueStep, ColdStep DEF IInv
<1> QED
  BY <1>1, <1>2, PTL DEF Spec

(* The tables, the engine's counters and its caches stay in their types: every  *)
(* superseded_by and every mention refers to a row that exists (store.py).      *)
THEOREM TypeCorrect == Spec => []TypeOK
<1>1. IInv => TypeOK
  BY DEF IInv
<1> QED
  BY <1>1, Invariance, PTL

(* A memory gives way only to a newer, similar one that is in the store,        *)
(* wherever the engine is killed (engine.py, ingest and ingest_structured).     *)
THEOREM SuccessionSafe == Spec => []Succession
<1>1. IInv => Succession
  BY DEF IInv
<1> QED
  BY <1>1, Invariance, PTL

(* A profile shows what was said last of every entity and attribute, wherever   *)
(* an ingestion stops (engine.py, ingest; store.py, store_fact, supersede_fact; *)
(* profiles.py, build_profile).                                                 *)
THEOREM LastWordSafe == Spec => []LastWord
<1>1. ASSUME IInv PROVE LastWord
  <2> SUFFICES ASSUME NEW f \in DOMAIN facts,
                      \A g \in DOMAIN facts : ~(g > f /\ facts[g].key = facts[f].key)
               PROVE Profile(facts[f].key) = {f}
    BY DEF LastWord
  <2>1. DOMAIN facts = 1 .. Len(facts) /\ Len(facts) \in Nat
    BY <1>1 DEF IInv, ShapeInv
  <2>2. facts[f].by = NoRow
    BY <1>1 DEF IInv, FactsInv, Outdated
  <2>3. f \in ActiveFacts(facts[f].key)
    BY <2>2 DEF ActiveFacts
  <2>4. \A g \in ActiveFacts(facts[f].key) : g \in DOMAIN facts /\ g <= f
    BY <2>1 DEF ActiveFacts
  <2>5. ASSUME NEW g \in Profile(facts[f].key) PROVE g = f
    <3>1. g \in DOMAIN facts /\ g <= f /\ f <= g
      BY <2>3, <2>4 DEF Profile
    <3> QED
      BY <2>1, <3>1
  <2> QED
    BY <2>3, <2>4, <2>5 DEF Profile
<1> QED
  BY <1>1, Invariance, PTL

(* A kill makes the engine repeat of the cold start at most what one checkpoint *)
(* covers, and as much again for every checkpoint that was due in an ingestion  *)
(* that raised (engine.py, _checkpoint and __init__; memgate_daemon.py, main).  *)
THEOREM ColdOnceSafe == Spec => []ColdOnce
<1>1. IInv => ColdOnce
  BY DEF IInv, UngatedInv
<1> QED
  BY <1>1, Invariance, PTL

=============================================================================
