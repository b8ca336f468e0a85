------------------------------- MODULE MemGate -------------------------------
(* MemGate, the extension's long-term memory (vscode-extension/scripts/memgate):*)
(* what the engine lets into its SQLite store, how a memory or a fact comes to  *)
(* be superseded, and what a search finds.                                      *)
(*                                                                              *)
(* One process has the store open, and may be killed between any two of its     *)
(* statements: the store commits each on its own, and what the engine keeps in  *)
(* memory is lost up to the last checkpoint.  An ingestion may also raise       *)
(* between any two of them; the daemon answers with the error and goes on with  *)
(* the same engine.  Embeddings are reduced to what is compared with the        *)
(* similarity threshold, ranks and scores to any outcome of their comparisons.  *)
(* A row's number is its age.                                                   *)
EXTENDS Naturals, Sequences, FiniteSets, SequencesExt

CONSTANTS Payloads,         (* what is ingested: records with the fields        *)
                            (* text, structured, update, facts, names, links    *)
          Similar,          (* pairs of texts with a cosine of at least 0.85    *)
          Updating,         (* the texts with update language                   *)
          Scores,           (* scores, in per cent, of novelty and continuity   *)
          ColdStart,        (* cold_start_count                                 *)
          CheckpointEvery,  (* ingestions between two checkpoints               *)
          ConsolidateEvery, (* consolidation_interval                           *)
          MinTerms,         (* terms from which on clusters are extracted       *)
          TopK,             (* top_k of a search                                *)
          TopConflicts,     (* top_k of the search for conflicts                *)
          NoAnswer,         (* no search is being answered                      *)
          MaxRows,          (* bound: memories, skipped ones included           *)
          MaxSearched,      (* bound: memories of a store that is searched      *)
          MaxCrashes,       (* bound: kills                                     *)
          MaxFailures       (* bound: ingestions that raise                     *)

ASSUME MemGateAssumption ==
  /\ \A p \in Payloads :
       /\ p.structured \in BOOLEAN /\ p.update \in BOOLEAN /\ (p.update => p.structured)
       /\ p.facts \in Seq({p.facts[i] : i \in DOMAIN p.facts})
       /\ IsFiniteSet(p.names) /\ IsFiniteSet(p.links)
  /\ \A s, t \in {p.text : p \in Payloads} : <<s, t>> \in Similar => <<t, s>> \in Similar
  /\ {ColdStart, CheckpointEvery, ConsolidateEvery, MinTerms} \subseteq Nat \ {0}
  /\ {TopK, TopConflicts, MaxRows, MaxSearched} \subseteq Nat \ {0}
  /\ MaxCrashes \in Nat /\ MaxFailures \in Nat

VARIABLES mems,       (* table memories                                         *)
          mentions,   (* table entity_mentions: pairs of a row and a name       *)
          facts,      (* table facts                                            *)
          links,      (* table relationships                                    *)
          summaries,  (* table cluster_summaries: the clusters that have one    *)
          saved,      (* table model_state: its ingest_count                    *)
          up,         (* the engine is running                                  *)
          count,      (* _ingest_count                                          *)
          terms,      (* keys of the h1 cache                                   *)
          clusters,   (* the topic model's clusters                             *)
          nextId,     (* _next_cluster_id                                       *)
          script,     (* what the call that is being carried out has yet to do  *)
          answer,     (* what a search returned, until the next call            *)
          ungated,    (* history: memories let in by the cold start             *)
          crashes,    (* history: kills so far                                  *)
          failures,   (* history: ingestions that raised                        *)
          missed      (* history: checkpoints that were due in one that raised  *)

tables == <<mems, mentions, facts, links, summaries, saved>>
engine == <<up, count, terms, clusters, nextId>>
history == <<ungated, crashes, failures, missed>>
vars == <<tables, engine, script, answer, history>>

Texts == {p.text : p \in Payloads}
Rows == 1 .. Len(mems)
NoRow == 0
NoCluster == 0
Idle == up /\ script = <<>>

Init ==
  /\ mems = <<>> /\ mentions = {} /\ facts = <<>> /\ links = {} /\ summaries = {}
  /\ saved = 0
  /\ up = FALSE
  /\ count = 0 /\ terms = {} /\ clusters = {} /\ nextId = 0
  /\ script = <<>>
  /\ answer = NoAnswer
  /\ ungated = 0 /\ crashes = 0 /\ failures = 0 /\ missed = 0

-----------------------------------------------------------------------------
(* Queries of the store.                                                        *)

Alike(s, t) == s = t \/ <<s, t>> \in Similar

(* Every search is confined to what was stored and is not superseded.           *)
Active == {r \in Rows : mems[r].stored /\ mems[r].by = NoRow}
InCluster(c) == {r \in Active : mems[r].cluster = c}
Linked(n) == {r \in Active : <<r, n>> \in mentions}
KnownNames == {m[2] : m \in {m \in mentions : m[1] \in Active}}
Shared(a, b) == Linked(a) \cap Linked(b)

ActiveFacts(k) == {f \in DOMAIN facts : facts[f].key = k /\ facts[f].by = NoRow}

(* What a profile shows for an attribute: the newest fact that is active.       *)
Profile(k) == {f \in ActiveFacts(k) : \A g \in ActiveFacts(k) : g <= f}

(* Consolidation looks at every stored memory, the superseded ones too.         *)
Consolidable ==
  {c \in {mems[r].cluster : r \in Rows} \ {NoCluster} :
     Cardinality({r \in Rows : mems[r].stored /\ mems[r].cluster = c}) >= 2}

-----------------------------------------------------------------------------
(* The engine's process.                                                        *)

Forget == count' = 0 /\ terms' = {} /\ clusters' = {} /\ nextId' = 0

(* Only the model's state and the count outlive the process.                    *)
Open ==
  /\ ~up
  /\ up' = TRUE
  /\ count' = saved
  /\ UNCHANGED <<tables, terms, clusters, nextId, script, answer, history>>

(* With a checkpoint.                                                           *)
Close ==
  /\ Idle
  /\ saved' = count
  /\ up' = FALSE
  /\ Forget
  /\ answer' = NoAnswer
  /\ UNCHANGED <<mems, mentions, facts, links, summaries, script, history>>

(* Fault: the topic model's numbers start over while its clusters stay.         *)
CrashKeepsClusters ==
  /\ up /\ crashes < MaxCrashes
  /\ crashes' = crashes + 1
  /\ up' = FALSE
  /\ count' = 0 /\ terms' = {} /\ nextId' = 0
  /\ script' = <<>>
  /\ answer' = NoAnswer
  /\ UNCHANGED <<tables, clusters, ungated, failures, missed>>

Crash ==
  /\ up /\ crashes < MaxCrashes
  /\ crashes' = crashes + 1
  /\ up' = FALSE
  /\ Forget
  /\ script' = <<>>
  /\ answer' = NoAnswer
  /\ UNCHANGED <<tables, ungated, failures, missed>>

-----------------------------------------------------------------------------
(* Ingestion.                                                                   *)

(* The gate, in units of 1/50000: novelty, doubled, times a factor from 0.6 to  *)
(* 1.4 for continuity; the thresholds are 0.8 and, for an update, 0.4.          *)
Quality(n, c) == n * (600 + 8 * c)
Passes(n, c) == Quality(n, c) > 40000

(* Whether a payload is stored.  The gate is passed over during the cold start; *)
(* an update needs half the quality.                                            *)
Verdicts(p) ==
  {count < ColdStart \/ Passes(n, c) \/ (p.update /\ Quality(n, c) > 20000) :
     n, c \in Scores}

(* Every ingestion extracts the clusters anew, under numbers not used before,   *)
(* once there are enough terms.  A cluster has two terms at least.              *)
Extractions(cache) ==
  IF Cardinality(cache) < MinTerms THEN {clusters}
  ELSE {nextId + 1 .. nextId + k : k \in 0 .. Cardinality(cache) \div 2}

(* The topic of a text or a query: a cluster it overlaps with, or none.         *)
Topics(found) == found \cup {NoCluster}

Extract(cache) ==
  \E found \in Extractions(cache) :
    /\ clusters' = found
    /\ nextId' = IF Cardinality(cache) < MinTerms THEN nextId ELSE nextId + Cardinality(found)

(* The row of a memory that passed the gate, and of one that did not: a skipped *)
(* one is kept in the same table.                                               *)
Stored(p, c) == [text |-> p.text, stored |-> TRUE, by |-> NoRow, cluster |-> c]
Skipped(p, c) == [text |-> p.text, stored |-> FALSE, by |-> NoRow, cluster |-> c]

(* The memories a text with update language supersedes: of its nearest active   *)
(* neighbours, itself among them, those that are similar and not the same text. *)
Rivals(text) ==
  LET same == {r \in Active : mems[r].text = text}
      near == {r \in Active : <<mems[r].text, text>> \in Similar /\ mems[r].text # text}
      room == IF TopConflicts > Cardinality(same) + 1
              THEN TopConflicts - Cardinality(same) - 1 ELSE 0
      fit == IF text \notin Updating THEN 0
             ELSE IF Cardinality(near) < room THEN Cardinality(near) ELSE room IN
  {S \in SUBSET near : Cardinality(S) = fit}

Each(op, S) ==
  LET args == SetToSeq(S) IN [i \in DOMAIN args |-> [op |-> op, arg |-> args[i]]]

(* The writes of one ingestion, in the code's order, but that given names are   *)
(* written between the facts and the relationships there.  The log of decisions *)
(* and dates of events are left out.                                            *)
Chores(p, rivals) ==
  LET marks == Each("mark", rivals)
      said == [i \in DOMAIN p.facts |-> [op |-> "fact", arg |-> [p |-> p, fact |-> p.facts[i]]]]
      rest == Each("mention", p.names) \o Each("link", p.links) IN
  IF p.structured THEN said \o rest \o marks ELSE marks \o said \o rest

(* What every ingestion ends with.  No row is added in between.                 *)
Housekeeping(n) ==
  (IF n % CheckpointEvery = 0 THEN <<[op |-> "checkpoint", arg |-> n]>> ELSE <<>>)
  \o (IF n % ConsolidateEvery = 0 THEN <<[op |-> "consolidate", arg |-> n]>> ELSE <<>>)

(* The row is inserted; what else is to be written follows.  The cluster of a   *)
(* skipped row is never read, and left out.                                     *)
Ingest(p) ==
  /\ Idle /\ Len(mems) < MaxRows
  /\ count' = count + 1
  /\ terms' = terms \cup {p.text}
  /\ Extract(terms')
  /\ \E keep \in Verdicts(p) :
       /\ \E c \in Topics(clusters') :
            mems' = Append(mems, IF keep THEN Stored(p, c) ELSE Skipped(p, NoCluster))
       /\ ungated' = IF count < ColdStart THEN ungated + 1 ELSE ungated
       /\ \E rivals \in IF p.update \/ ~p.structured THEN Rivals(p.text) ELSE {{}} :
            script' = (IF keep THEN Chores(p, rivals) ELSE <<>>) \o Housekeeping(count + 1)
  /\ answer' = NoAnswer
  /\ UNCHANGED <<mentions, facts, links, summaries, saved, up, crashes, failures, missed>>

(* It raises before the row is inserted: in the novelty detector, before it is  *)
(* counted, or thereafter, before or after the clusters are extracted.          *)
IngestFails(p) ==
  /\ Idle /\ failures < MaxFailures
  /\ failures' = failures + 1
  /\ terms' = terms \cup {p.text}
  /\ count' \in {count, count + 1}
  /\ missed' = IF count' # count /\ count' % CheckpointEvery = 0 THEN missed + 1 ELSE missed
  /\ UNCHANGED <<clusters, nextId>> \/ (count' # count /\ Extract(terms'))
  /\ answer' = NoAnswer
  /\ UNCHANGED <<tables, up, script, ungated, crashes>>

(* It raises later, in any of its statements or between them: what it has yet   *)
(* to do is not done, by the same engine, which goes on.                        *)
Due == \E i \in DOMAIN script : script[i].op = "checkpoint"
Raise ==
  /\ up /\ script # <<>> /\ failures < MaxFailures
  /\ failures' = failures + 1
  /\ missed' = IF Due THEN missed + 1 ELSE missed
  /\ script' = <<>>
  /\ UNCHANGED <<tables, engine, answer, ungated, crashes>>

Doing(op) == up /\ script # <<>> /\ Head(script).op = op
Arg == Head(script).arg

(* Fault: the memory is marked as superseded by itself.                         *)
MarkItself ==
  /\ Doing("mark")
  /\ mems' = [mems EXCEPT ![Arg].by = Arg]
  /\ script' = Tail(script)
  /\ UNCHANGED <<mentions, facts, links, summaries, saved, engine, answer, history>>

Mark ==
  /\ Doing("mark")
  /\ mems' = [mems EXCEPT ![Arg].by = Len(mems)]
  /\ script' = Tail(script)
  /\ UNCHANGED <<mentions, facts, links, summaries, saved, engine, answer, history>>

(* Which facts a new one replaces: those of the same entity and attribute, with *)
(* another value when it was read from the text; when it was given, all of them *)
(* but only if it names a previous value.                                       *)
Replaced(p, fact) ==
  {f \in ActiveFacts(fact.key) :
     IF p.structured THEN fact.previous ELSE facts[f].value # fact.value}

(* Fault: the new fact is among those it replaces.                              *)
AddFactRetired ==
  LET fact == Arg.fact
      added == Len(facts) + 1 IN
  /\ Doing("fact")
  /\ facts' = Append(facts, [key |-> fact.key, value |-> fact.value, by |-> NoRow])
  /\ script' = Each("retire", Replaced(Arg.p, fact)
                              \cup (IF fact.previous THEN {added} ELSE {})) \o Tail(script)
  /\ UNCHANGED <<mems, mentions, links, summaries, saved, engine, answer, history>>

AddFact ==
  LET fact == Arg.fact IN
  /\ Doing("fact")
  /\ facts' = Append(facts, [key |-> fact.key, value |-> fact.value, by |-> NoRow])
  /\ script' = Each("retire", Replaced(Arg.p, fact)) \o Tail(script)
  /\ UNCHANGED <<mems, mentions, links, summaries, saved, engine, answer, history>>

Retire ==
  /\ Doing("retire")
  /\ facts' = [facts EXCEPT ![Arg].by = Len(facts)]
  /\ script' = Tail(script)
  /\ UNCHANGED <<mems, mentions, links, summaries, saved, engine, answer, history>>

Mention ==
  /\ Doing("mention")
  /\ mentions' = mentions \cup {<<Len(mems), Arg>>}
  /\ script' = Tail(script)
  /\ UNCHANGED <<mems, facts, links, summaries, saved, engine, answer, history>>

Link ==
  /\ Doing("link")
  /\ links' = links \cup {Arg}
  /\ script' = Tail(script)
  /\ UNCHANGED <<mems, mentions, facts, summaries, saved, engine, answer, history>>

(* Fault: the count is not among what is saved.                                 *)
CheckpointUncounted ==
  /\ Doing("checkpoint")
  /\ script' = Tail(script)
  /\ UNCHANGED <<tables, engine, answer, history>>

Checkpoint ==
  /\ Doing("checkpoint")
  /\ saved' = Arg
  /\ script' = Tail(script)
  /\ UNCHANGED <<mems, mentions, facts, links, summaries, engine, answer, history>>

(* One summary after the other.                                                 *)
Consolidate ==
  /\ Doing("consolidate")
  /\ script' = Each("summary", Consolidable) \o Tail(script)
  /\ UNCHANGED <<tables, engine, answer, history>>

Summarise ==
  /\ Doing("summary")
  /\ summaries' = summaries \cup {Arg}
  /\ script' = Tail(script)
  /\ UNCHANGED <<mems, mentions, facts, links, saved, engine, answer, history>>

-----------------------------------------------------------------------------
(* Retrieval.                                                                   *)

(* The first k rows of S in a ranking.                                          *)
First(rank, S, k) ==
  LET hits == {i \in DOMAIN rank : rank[i] \in S} IN
  {rank[i] : i \in {i \in hits : Cardinality({j \in hits : j < i}) < k}}

(* The tiers of a search: memories that mention the names in the query, those   *)
(* of the clusters whose summary is near, those of the query's topic, and, to   *)
(* fill up, any.                                                                *)
Found(rank, hints, near, topic) ==
  LET wide == IF Cardinality(hints) > 1 THEN 3 * TopK ELSE TopK
      named == UNION {First(rank, Linked(n), wide) : n \in hints}
      themes == near \cup ({topic} \ {NoCluster})
      close == named \cup UNION {First(rank, InCluster(c), TopK) : c \in themes}
      size == Cardinality(close)
      more == First(rank, Active, TopK + size) \ close IN
  close \cup (IF size < TopK THEN First(rank, more, 2 * TopK - size) ELSE {})

(* Fault: the older of two similar results stays.                               *)
NewerSwapped(r, q) == r < q

(* The newer of two similar results stays.                                      *)
Newer(r, q) == r > q

(* One pass of the loop over the results, for the i-th: it is compared with the *)
(* similar ones that come after it and are not gone yet.  They go, until there  *)
(* is a newer one; then it goes itself.                                         *)
Pass(results, i, gone) ==
  LET mine == results[i]
      rivals == {j \in i + 1 .. Len(results) :
                   results[j] \notin gone /\ Alike(mems[mine].text, mems[results[j]].text)}
      newer == {j \in rivals : Newer(results[j], mine)} IN
  IF mine \in gone THEN gone
  ELSE gone \cup {results[j] : j \in {j \in rivals : \A k \in newer : j < k}}
            \cup (IF newer = {} THEN {} ELSE {mine})

(* What _dedup_with_recency leaves of the results.                              *)
Dedup(results) ==
  LET gone[i \in 0 .. Len(results)] == IF i = 0 THEN {} ELSE Pass(results, i, gone[i - 1]) IN
  ToSet(results) \ gone[Len(results)]

(* What is found comes in any order: a date in the query moves the row nearest  *)
(* to it to the front, after the tiers have been cut.  The answer is the rows   *)
(* without their order.                                                         *)
Search ==
  /\ Idle /\ answer = NoAnswer /\ mems # <<>> /\ Len(mems) <= MaxSearched
  /\ \E rank \in SetToSeqs(Active), hints \in SUBSET KnownNames,
        near \in {S \in SUBSET summaries : Cardinality(S) <= 2}, topic \in Topics(clusters) :
       \E results \in SetToSeqs(Found(rank, hints, near, topic)) :
         answer' = [kind |-> "search", rows |-> First(results, Dedup(results), TopK)]
  /\ UNCHANGED <<tables, engine, script, history>>

(* The memories that mention both of two names.                                 *)
RelatedMemories ==
  /\ Idle /\ answer = NoAnswer
  /\ \E a, b \in KnownNames : answer' = [kind |-> "related", rows |-> Shared(a, b)]
  /\ UNCHANGED <<tables, engine, script, history>>

-----------------------------------------------------------------------------
Next ==
  \/ Open
  \/ Close
  \/ Crash
  \/ \E p \in Payloads : Ingest(p) \/ IngestFails(p)
  \/ Raise
  \/ Mark
  \/ AddFact
  \/ Retire
  \/ Mention
  \/ Link
  \/ Checkpoint
  \/ Consolidate
  \/ Summarise
  \/ Search
  \/ RelatedMemories

Spec == Init /\ [][Next]_vars

-----------------------------------------------------------------------------
TypeOK ==
  /\ \A r \in Rows :
       mems[r] \in [text : Texts, stored : BOOLEAN, by : 0 .. Len(mems), cluster : Nat]
  /\ \A m \in mentions : m[1] \in Rows
  /\ \A f \in DOMAIN facts : facts[f].by \in 0 .. Len(facts)
  /\ summaries \subseteq Nat \ {NoCluster}
  /\ saved \in Nat /\ count \in Nat /\ saved <= Len(mems) + failures
  /\ up \in BOOLEAN
  /\ terms \subseteq Texts /\ clusters \subseteq 1 .. nextId
  /\ ungated \in Nat /\ crashes \in 0 .. MaxCrashes
  /\ failures \in 0 .. MaxFailures /\ missed \in 0 .. failures

(* A memory gives way only to a newer one about the same that is in the store:  *)
(* following superseded_by from any memory ends at one that searches find,      *)
(* wherever the engine was killed.                                              *)
Succession ==
  \A r \in Rows : mems[r].by # NoRow =>
    /\ mems[r].stored
    /\ mems[r].by > r /\ mems[mems[r].by].stored
    /\ <<mems[r].text, mems[mems[r].by].text>> \in Similar

(* What a search returns is stored and not superseded, and says nothing twice;  *)
(* it is not empty while there is something to find, and has the newest memory  *)
(* while there are no more than it may return.                                  *)
Answers ==
  answer # NoAnswer =>
    /\ answer.rows \subseteq Active
    /\ answer.kind = "search" =>
         /\ Cardinality(answer.rows) <= TopK
         /\ \A r, q \in answer.rows : r # q => ~Alike(mems[r].text, mems[q].text)
         /\ Active # {} => answer.rows # {}
         /\ Active # {} /\ Cardinality(Active) <= TopK =>
              \E r \in answer.rows : \A q \in Active : q <= r

(* A profile shows what was said last: the newest fact of an entity and         *)
(* attribute, whatever it replaced and wherever the engine was killed.          *)
LastWord ==
  \A f \in DOMAIN facts :
    \/ \E g \in DOMAIN facts : g > f /\ facts[g].key = facts[f].key
    \/ Profile(facts[f].key) = {f}

(* The cold start is over once: a restart after a kill repeats of it at most    *)
(* what was ingested since the last checkpoint, and that one was the last that  *)
(* was due, unless the ingestion it was due in raised.                          *)
ColdOnce == ungated <= ColdStart + CheckpointEvery * (crashes + missed)

=============================================================================
