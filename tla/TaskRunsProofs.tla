---------------------------- MODULE TaskRunsProofs ----------------------------
(* For every set of goals, requests, rules and intents, every configuration of  *)
(* the classifier and every bound: the invariants of TaskRuns, and what a new   *)
(* rule may change.                                                             *)
EXTENDS TaskRuns, SequenceTheorems, TLAPS

-----------------------------------------------------------------------------
(* The outcome of an evaluation, whatever rule is quoted for it.                *)
LEMMA Outcome ==
  ASSUME NEW s, NEW q
  PROVE Evaluate(s, q).outcome =
          IF Matches(s, q, Denying) # {} THEN "deny"
          ELSE IF Matches(s, q, Allowing) # {} THEN "allow"
          ELSE IF RequiresConfirmation(q) THEN "ask" ELSE "allow"
BY DEF Evaluate, Decision

-----------------------------------------------------------------------------
(* The inductive invariant.                                                     *)

Run == [goal : Goals, req : Requests, seen : Nat,
        stage : {"over"} \cup SandboxStages \cup AgentStages,
        events : Seq({"spawned", "running", "done", "failed"})]
ShapeInv == rules \in Seq(RuleChoices) /\ runs \in Seq(Run)

(* What a sub-agent told, stage by stage.                                       *)
StoryInv ==
  \A n \in Ids : IsAgent(n) =>
    /\ runs[n].stage = "spawned" => runs[n].events = <<"spawned">>
    /\ runs[n].stage = "thinking" => runs[n].events = <<"spawned", "running">>
    /\ runs[n].stage = "joined" =>
         runs[n].events \in {<<"spawned", "running", "done">>, <<"spawned", "running", "failed">>}
    /\ runs[n].stage = "over" =>
         runs[n].events \in {<<"spawned">>, <<"spawned", "running">>,
                             <<"spawned", "running", "done">>, <<"spawned", "running", "failed">>}

(* A container, and the manager's note of it, belong to a thread that is not    *)
(* through with it, or that failed to remove the container.                     *)
PlaceInv ==
  /\ \A n \in docker : runs[n].stage \in {"created", "waiting", "ended"} \/ n \in stray
  /\ \A n \in tracked : runs[n].stage \in SandboxStages

IInv == TypeOK /\ ShapeInv /\ Lawful /\ StoryInv /\ PlaceInv

LEMMA InitIInv == Init => IInv
<1> SUFFICES ASSUME Init PROVE IInv
  OBVIOUS
<1>1. rules = <<>> /\ runs = <<>> /\ DOMAIN rules = {} /\ Ids = {}
  BY DEF Init, Ids
<1>2. TypeOK /\ Lawful /\ StoryInv
  BY <1>1 DEF Init, TypeOK, Lawful, StoryInv
<1>3. ShapeInv /\ PlaceInv
  BY <1>1 DEF Init, ShapeInv, PlaceInv
<1> QED
  BY <1>2, <1>3 DEF IInv

-----------------------------------------------------------------------------
(* How a step changes the runs: not at all, by a new one, or one of them, in    *)
(* its stage and what it told.                                                  *)

Becomes(n, from, to, events) ==
  /\ n \in Ids /\ runs[n].stage = from
  /\ Ids' = Ids
  /\ \A m \in Ids \ {n} : runs'[m] = runs[m]
  /\ runs'[n] = [runs[n] EXCEPT !.stage = to, !.events = events]

LEMMA MoveBecomes ==
  ASSUME ShapeInv, NEW n, NEW from, NEW to \in {"over"} \cup SandboxStages \cup AgentStages,
         Move(n, from, to)
  PROVE Becomes(n, from, to, runs[n].events) /\ runs' \in Seq(Run)
<1>1. n \in Ids /\ runs[n] \in Run /\ runs[n].stage = from
  BY DEF Move, At, Ids, ShapeInv
<1>2. runs' = [runs EXCEPT ![n] = [runs[n] EXCEPT !.stage = to]]
  BY DEF Move
<1>3. [runs[n] EXCEPT !.stage = to] = [runs[n] EXCEPT !.stage = to, !.events = runs[n].events]
  BY <1>1 DEF Run
<1>4. [runs[n] EXCEPT !.stage = to] \in Run
  BY <1>1 DEF Run
<1>5. runs' \in Seq(Run)
  BY <1>1, <1>2, <1>4 DEF ShapeInv, Ids
<1>6. Ids' = Ids /\ (\A m \in Ids \ {n} : runs'[m] = runs[m])
      /\ runs'[n] = [runs[n] EXCEPT !.stage = to]
  BY <1>1, <1>2 DEF ShapeInv, Ids
<1> QED
  BY <1>1, <1>3, <1>5, <1>6 DEF Becomes

LEMMA PublishBecomes ==
  ASSUME ShapeInv, NEW n, NEW from, NEW to \in {"over"} \cup SandboxStages \cup AgentStages,
         NEW status \in {"spawned", "running", "done", "failed"}, Publish(n, from, to, status)
  PROVE Becomes(n, from, to, Append(runs[n].events, status)) /\ runs' \in Seq(Run)
<1> DEFINE events == Append(runs[n].events, status)
<1>1. n \in Ids /\ runs[n] \in Run /\ runs[n].stage = from
  BY DEF Publish, At, Ids, ShapeInv
<1>2. runs' = [runs EXCEPT ![n] = [runs[n] EXCEPT !.stage = to, !.events = events]]
  BY <1>1 DEF Publish, ShapeInv, Run
<1>3. events \in Seq({"spawned", "running", "done", "failed"})
  BY <1>1 DEF Run
<1>4. [runs[n] EXCEPT !.stage = to, !.events = events] \in Run
  BY <1>1, <1>3 DEF Run
<1>5. runs' \in Seq(Run)
  BY <1>1, <1>2, <1>4 DEF ShapeInv, Ids
<1>6. Ids' = Ids /\ (\A m \in Ids \ {n} : runs'[m] = runs[m])
      /\ runs'[n] = [runs[n] EXCEPT !.stage = to, !.events = events]
  BY <1>1, <1>2 DEF ShapeInv, Ids
<1> QED
  BY <1>1, <1>5, <1>6 DEF Becomes

LEMMA StartAppends ==
  ASSUME ShapeInv, TypeOK, NEW g \in Goals, NEW q \in Requests, Start(g, q)
  PROVE /\ runs' \in Seq(Run) /\ Ids' = Ids \cup {Len(runs) + 1} /\ Len(runs) + 1 \notin Ids
        /\ \A m \in Ids : runs'[m] = runs[m]
        /\ runs'[Len(runs) + 1] =
              [goal |-> g, req |-> q, seen |-> Len(rules),
               stage |-> IF q \in Agents THEN "spawned" ELSE "queued",
               events |-> IF q \in Agents THEN <<"spawned">> ELSE <<>>]
<1> DEFINE run == [goal |-> g, req |-> q, seen |-> Len(rules),
                   stage |-> IF q \in Agents THEN "spawned" ELSE "queued",
                   events |-> IF q \in Agents THEN <<"spawned">> ELSE <<>>]
<1>1. run \in Run
  <2>1. Len(rules) \in Nat
    BY DEF ShapeInv
  <2>2. run.stage \in SandboxStages \cup AgentStages
    BY DEF SandboxStages, AgentStages
  <2>3. run.events \in Seq({"spawned", "running", "done", "failed"})
    <3>1. <<>> \in Seq({"spawned", "running", "done", "failed"})
      OBVIOUS
    <3>2. <<"spawned">> \in Seq({"spawned", "running", "done", "failed"})
      OBVIOUS
    <3> QED
      BY <3>1, <3>2
  <2> QED
    BY <2>1, <2>2, <2>3 DEF Run
<1>2. runs' = Append(runs, run)
  BY DEF Start
<1> QED
  BY <1>1, <1>2 DEF ShapeInv, Ids

-----------------------------------------------------------------------------
(* Types and lawfulness survive the move of a run to a stage of its kind.       *)
LEMMA MoveKeeps ==
  ASSUME TypeOK, ShapeInv, Lawful, NEW n, NEW from, NEW to, NEW events,
         Becomes(n, from, to, events), runs' \in Seq(Run), UNCHANGED rules,
         to \in {"over"} \cup (IF IsAgent(n) THEN AgentStages ELSE SandboxStages),
         tracked' \subseteq Ids, docker' \subseteq Ids, cleaning' \subseteq Ids, stray' \subseteq Ids
  PROVE TypeOK' /\ ShapeInv' /\ Lawful'
<1>1. ASSUME NEW m \in Ids
      PROVE /\ runs'[m].goal = runs[m].goal /\ runs'[m].req = runs[m].req
            /\ runs'[m].seen = runs[m].seen
            /\ runs'[m].stage \in {"over"} \cup (IF IsAgent(m) THEN AgentStages ELSE SandboxStages)
  <2>1. runs[m] \in Run /\ runs[n] \in Run
    BY DEF ShapeInv, Ids, Becomes
  <2> QED
    BY <2>1 DEF Becomes, Run, TypeOK
<1>2. Ids' = Ids
  BY DEF Becomes
<1>3. ShapeInv'
  BY DEF ShapeInv
<1>4. TypeOK'
  BY <1>1, <1>2 DEF TypeOK, IsAgent
<1>5. Lawful'
  BY <1>1, <1>2 DEF Lawful, Allows
<1> QED
  BY <1>3, <1>4, <1>5

LEMMA TypeStep ==
  ASSUME TypeOK, ShapeInv, Lawful, [Next]_vars
  PROVE TypeOK' /\ ShapeInv' /\ Lawful'
<1>stages. \A n \in Ids : runs[n].stage \in SandboxStages => ~IsAgent(n)
  BY DEF TypeOK, SandboxStages, AgentStages
<1>1. ASSUME NEW r \in RuleChoices, AddRule(r) PROVE TypeOK' /\ ShapeInv' /\ Lawful'
  <2>1. /\ rules' \in Seq(RuleChoices) /\ UNCHANGED <<runs, tracked, docker, cleaning, stray>>
        /\ Len(rules) \in Nat /\ Len(rules') = Len(rules) + 1
        /\ DOMAIN rules = 1 .. Len(rules) /\ DOMAIN rules' = 1 .. Len(rules')
        /\ \A i \in 1 .. Len(rules) : rules'[i] = rules[i]
    BY <1>1 DEF AddRule, ShapeInv
  <2>2. Ids' = Ids
    BY <2>1 DEF Ids
  <2>3. TypeOK' /\ ShapeInv'
    BY <2>1, <2>2 DEF TypeOK, ShapeInv, IsAgent
  <2>4. Lawful'
    <3> SUFFICES ASSUME NEW n \in Ids PROVE Allows(runs[n].req, runs[n].seen)'
      BY <2>2 DEF Lawful
    <3>1. runs[n].seen \in 0 .. Len(rules) /\ Allows(runs[n].req, runs[n].seen)
      BY DEF TypeOK, Lawful
    <3> QED
      BY <2>1, <3>1 DEF Allows
  <2> QED
    BY <2>3, <2>4
<1>2. ASSUME NEW g \in Goals, NEW q \in Requests, Start(g, q) PROVE TypeOK' /\ ShapeInv' /\ Lawful'
  <2> DEFINE new == Len(runs) + 1
  <2>1. /\ runs' \in Seq(Run) /\ Ids' = Ids \cup {new} /\ new \notin Ids
        /\ \A m \in Ids : runs'[m] = runs[m]
        /\ runs'[new] = [goal |-> g, req |-> q, seen |-> Len(rules),
                         stage |-> IF q \in Agents THEN "spawned" ELSE "queued",
                         events |-> IF q \in Agents THEN <<"spawned">> ELSE <<>>]
    BY <1>2, StartAppends
  <2>2. UNCHANGED <<rules, tracked, docker, cleaning, stray>> /\ Len(rules) \in Nat
    BY <1>2 DEF Start, ShapeInv
  <2>3. TypeOK' /\ ShapeInv'
    BY <2>1, <2>2 DEF TypeOK, ShapeInv, IsAgent, SandboxStages, AgentStages
  <2>4. Allows(q, Len(rules))
    <3>1. Matches(rules, q, Denying) = {}
          /\ (Matches(rules, q, Allowing) # {} \/ ~RequiresConfirmation(q))
      BY <1>2, Outcome DEF Start
    <3> QED
      BY <2>2, <3>1 DEF Allows, Matches, Denying, ShapeInv
  <2>5. Lawful'
    BY <2>1, <2>2, <2>4 DEF Lawful, Allows
  <2> QED
    BY <2>3, <2>5
<1>3. ASSUME NEW n \in Ids, Step(n) \/ Cancel(n) PROVE TypeOK' /\ ShapeInv' /\ Lawful'
  <2> USE DEF SandboxStages, AgentStages
  <2>1. UNCHANGED rules /\ tracked' \subseteq Ids /\ docker' \subseteq Ids /\ cleaning' \subseteq Ids
      /\ stray' \subseteq Ids
    BY <1>3 DEF Step, Cancel, TypeOK, Register, Create, CreateFails, SetId, Exits, WaitRaises, Remove,
                RemoveFails, Untrack, Begin, Concludes, Fails, Join, Publish
  <2>2. CASE Register(n) \/ Create(n) \/ CreateFails(n) \/ SetId(n) \/ Exits(n) \/ WaitRaises(n)
             \/ Remove(n) \/ RemoveFails(n) \/ Untrack(n)
    <3>1. \E from \in SandboxStages, to \in {"over"} \cup SandboxStages : Move(n, from, to)
      BY <2>2 DEF Register, Create, CreateFails, SetId, Exits, WaitRaises, Remove, RemoveFails, Untrack
    <3>2. PICK from \in SandboxStages, to \in {"over"} \cup SandboxStages : Move(n, from, to)
      BY <3>1
    <3>3. ~IsAgent(n)
      BY <1>stages, <3>2 DEF Move, At
    <3> QED
      BY <2>1, <3>2, <3>3, MoveBecomes, MoveKeeps
  <2>3. CASE Begin(n) \/ Concludes(n) \/ Fails(n)
    <3>1. PICK from \in AgentStages, to \in AgentStages, status \in {"running", "done", "failed"} :
            Publish(n, from, to, status)
      BY <2>3 DEF Begin, Concludes, Fails
    <3>2. IsAgent(n)
      BY <3>1 DEF Publish, At, TypeOK
    <3> QED
      BY <2>1, <3>1, <3>2, PublishBecomes, MoveKeeps
  <2>4. CASE Join(n) \/ Cancel(n)
    <3>1. PICK from \in AgentStages : Move(n, from, "over")
      BY <2>4 DEF Join, Cancel, Move, At
    <3> QED
      BY <2>1, <3>1, MoveBecomes, MoveKeeps
  <2> QED
    BY <1>3, <2>2, <2>3, <2>4 DEF Step
<1>4. ASSUME Cleanup \/ (\E n \in cleaning : CleanOne(n)) \/ UNCHANGED vars
      PROVE TypeOK' /\ ShapeInv' /\ Lawful'
  <2>1. UNCHANGED <<rules, runs>> /\ tracked' \subseteq Ids /\ docker' \subseteq Ids /\ cleaning' \subseteq Ids
      /\ stray' \subseteq Ids
    BY <1>4 DEF Cleanup, CleanOne, TypeOK, vars
  <2> QED
    BY <2>1 DEF TypeOK, ShapeInv, Lawful, Allows, Ids, IsAgent
<1> QED
  BY <1>1, <1>2, <1>3, <1>4 DEF Next

-----------------------------------------------------------------------------
(* Sequences written out, and one event more.                                   *)
LEMMA AppendToOne ==
  ASSUME NEW a, NEW b
  PROVE Append(<<a>>, b) = <<a, b>>
<1> DEFINE S == {a, b}
           s == Append(<<a>>, b)
           t == <<a, b>>
<1>1. <<a>> \in Seq(S) /\ Len(<<a>>) = 1 /\ <<a>>[1] = a
  OBVIOUS
<1>2. t \in Seq(S) /\ Len(t) = 2 /\ t[1] = a /\ t[2] = b
  OBVIOUS
<1> HIDE DEF S, t
<1>3. s \in Seq(S) /\ Len(s) = 2 /\ s[1] = a /\ s[2] = b
  BY <1>1 DEF S
<1> HIDE DEF s
<1>4. \A i \in 1 .. Len(s) : s[i] = t[i]
  BY <1>2, <1>3
<1>5. s = t
  BY <1>2, <1>3, <1>4, SeqEqual
<1> QED
  BY <1>5 DEF s, t

LEMMA AppendToTwo ==
  ASSUME NEW a, NEW b, NEW c
  PROVE Append(<<a, b>>, c) = <<a, b, c>>
<1> DEFINE S == {a, b, c}
           s == Append(<<a, b>>, c)
           t == <<a, b, c>>
<1>1. <<a, b>> \in Seq(S) /\ Len(<<a, b>>) = 2 /\ <<a, b>>[1] = a /\ <<a, b>>[2] = b
  OBVIOUS
<1>2. t \in Seq(S) /\ Len(t) = 3 /\ t[1] = a /\ t[2] = b /\ t[3] = c
  OBVIOUS
<1> HIDE DEF S, t
<1>3. s \in Seq(S) /\ Len(s) = 3 /\ s[1] = a /\ s[2] = b /\ s[3] = c
  BY <1>1 DEF S
<1> HIDE DEF s
<1>4. \A i \in 1 .. Len(s) : s[i] = t[i]
  BY <1>2, <1>3
<1>5. s = t
  BY <1>2, <1>3, <1>4, SeqEqual
<1> QED
  BY <1>5 DEF s, t

-----------------------------------------------------------------------------
(* A sub-agent's story goes on with its stage.                                  *)
LEMMA StoryStep ==
  ASSUME TypeOK, ShapeInv, StoryInv, [Next]_vars
  PROVE StoryInv'
<1> USE DEF SandboxStages, AgentStages
<1>1. ASSUME UNCHANGED runs PROVE StoryInv'
  BY <1>1 DEF StoryInv, Ids, IsAgent
<1>2. ASSUME NEW g \in Goals, NEW q \in Requests, Start(g, q) PROVE StoryInv'
  <2> DEFINE new == Len(runs) + 1
  <2>1. /\ Ids' = Ids \cup {new} /\ \A m \in Ids : runs'[m] = runs[m]
        /\ runs'[new] = [goal |-> g, req |-> q, seen |-> Len(rules),
                         stage |-> IF q \in Agents THEN "spawned" ELSE "queued",
                         events |-> IF q \in Agents THEN <<"spawned">> ELSE <<>>]
    BY <1>2, StartAppends
  <2>2. q \in Agents => runs'[new].stage = "spawned" /\ runs'[new].events = <<"spawned">>
    BY <2>1
  <2>3. runs'[new].req = q
    BY <2>1
  <2> HIDE DEF new
  <2> QED
    BY <2>1, <2>2, <2>3 DEF StoryInv, IsAgent
<1>3. ASSUME NEW n \in Ids, NEW from, NEW to, NEW events, Becomes(n, from, to, events),
             IsAgent(n) =>
               /\ to = "thinking" => events = <<"spawned", "running">>
               /\ to = "joined" => events \in {<<"spawned", "running", "done">>,
                                                <<"spawned", "running", "failed">>}
               /\ to = "over" => events \in {<<"spawned">>, <<"spawned", "running">>,
                                              <<"spawned", "running", "done">>,
                                              <<"spawned", "running", "failed">>}
               /\ to # "spawned"
      PROVE StoryInv'
  <2>1. \A m \in Ids : runs[m] \in Run
    BY DEF ShapeInv, Ids
  <2>2. /\ Ids' = Ids /\ \A m \in Ids \ {n} : runs'[m] = runs[m]
        /\ runs'[n].req = runs[n].req /\ runs'[n].stage = to /\ runs'[n].events = events
    BY <1>3, <2>1 DEF Becomes, Run
  <2> QED
    BY <1>3, <2>2 DEF StoryInv, IsAgent
<1>4. ASSUME NEW n \in Ids,
             Register(n) \/ Create(n) \/ CreateFails(n) \/ SetId(n) \/ Exits(n) \/ WaitRaises(n)
             \/ Remove(n) \/ RemoveFails(n) \/ Untrack(n)
      PROVE StoryInv'
  <2>1. PICK from \in SandboxStages, to \in {"over"} \cup SandboxStages : Move(n, from, to)
    BY <1>4 DEF Register, Create, CreateFails, SetId, Exits, WaitRaises, Remove, RemoveFails, Untrack
  <2>2. ~IsAgent(n)
    BY <2>1 DEF Move, At, TypeOK
  <2> QED
    BY <1>3, <2>1, <2>2, MoveBecomes
<1>5. ASSUME NEW n \in Ids, Begin(n) PROVE StoryInv'
  <2>1. IsAgent(n) /\ runs[n].events = <<"spawned">>
    BY <1>5 DEF Begin, Publish, At, TypeOK, StoryInv
  <2>2. Publish(n, "spawned", "thinking", "running")
    BY <1>5 DEF Begin
  <2>3. Becomes(n, "spawned", "thinking", Append(runs[n].events, "running"))
    BY <2>2, PublishBecomes
  <2>4. Append(<<"spawned">>, "running") = <<"spawned", "running">>
    BY AppendToOne
  <2> QED
    BY <1>3, <2>1, <2>3, <2>4
<1>6. ASSUME NEW n \in Ids, Concludes(n) PROVE StoryInv'
  <2>1. IsAgent(n) /\ runs[n].events = <<"spawned", "running">>
    BY <1>6 DEF Concludes, Publish, At, TypeOK, StoryInv
  <2>2. Publish(n, "thinking", "joined", "done")
    BY <1>6 DEF Concludes
  <2>3. Becomes(n, "thinking", "joined", Append(runs[n].events, "done"))
    BY <2>2, PublishBecomes
  <2>4. Append(<<"spawned", "running">>, "done") = <<"spawned", "running", "done">>
    BY AppendToTwo
  <2> QED
    BY <1>3, <2>1, <2>3, <2>4
<1>7. ASSUME NEW n \in Ids, Fails(n) PROVE StoryInv'
  <2>1. IsAgent(n) /\ runs[n].events = <<"spawned", "running">>
    BY <1>7 DEF Fails, Publish, At, TypeOK, StoryInv
  <2>2. Publish(n, "thinking", "joined", "failed")
    BY <1>7 DEF Fails
  <2>3. Becomes(n, "thinking", "joined", Append(runs[n].events, "failed"))
    BY <2>2, PublishBecomes
  <2>4. Append(<<"spawned", "running">>, "failed") = <<"spawned", "running", "failed">>
    BY AppendToTwo
  <2> QED
    BY <1>3, <2>1, <2>3, <2>4
<1>8. ASSUME NEW n \in Ids, Join(n) \/ Cancel(n) PROVE StoryInv'
  <2>1. PICK from \in AgentStages : Move(n, from, "over")
    BY <1>8 DEF Join, Cancel, Move, At
  <2>2. Becomes(n, from, "over", runs[n].events) /\ runs[n].stage = from
    BY <2>1, MoveBecomes DEF Move, At
  <2> QED
    BY <1>3, <2>2 DEF StoryInv
<1>9. ASSUME (\E r \in RuleChoices : AddRule(r)) \/ Cleanup \/ (\E n \in cleaning : CleanOne(n)) \/ UNCHANGED vars
      PROVE UNCHANGED runs
  BY <1>9 DEF AddRule, Cleanup, CleanOne, vars
<1> QED
  BY <1>1, <1>2, <1>4, <1>5, <1>6, <1>7, <1>8, <1>9 DEF Next, Step

(* A container is started and removed, and its note made and dropped, at the    *)
(* right stages of its thread; a cleanup only takes away.                       *)
LEMMA PlaceStep ==
  ASSUME TypeOK, ShapeInv, PlaceInv, [Next]_vars
  PROVE PlaceInv'
<1> USE DEF SandboxStages, AgentStages, PlaceInv, TypeOK
<1>1. ASSUME NEW g \in Goals, NEW q \in Requests, Start(g, q) PROVE PlaceInv'
  <2>1. UNCHANGED <<docker, tracked, stray>> /\ \A m \in Ids : runs'[m] = runs[m]
    BY <1>1, StartAppends DEF Start
  <2> QED
    BY <2>1
<1>2. ASSUME NEW n \in Ids, NEW from, NEW to \in {"over"} \cup SandboxStages \cup AgentStages,
             Move(n, from, to),
             docker' \subseteq docker \cup {n}, tracked' \subseteq tracked \cup {n},
             n \in docker' => to \in {"created", "waiting", "ended"} \/ n \in stray',
             stray \subseteq stray',
             n \in tracked' => to \in SandboxStages
      PROVE PlaceInv'
  <2>1. Becomes(n, from, to, runs[n].events) /\ runs[n] \in Run
    BY <1>2, MoveBecomes DEF ShapeInv, Ids
  <2>2. runs'[n].stage = to /\ \A m \in Ids \ {n} : runs'[m] = runs[m]
    BY <2>1 DEF Becomes, Run
  <2> QED
    BY <1>2, <2>2
<1>3. ASSUME NEW n \in Ids, Register(n) \/ Create(n) \/ CreateFails(n) \/ SetId(n) PROVE PlaceInv'
  BY <1>2, <1>3 DEF Register, Create, CreateFails, SetId, Move, At
<1>4. ASSUME NEW n \in Ids, Exits(n) \/ WaitRaises(n) \/ Remove(n) \/ RemoveFails(n) \/ Untrack(n) PROVE PlaceInv'
  BY <1>2, <1>4 DEF Exits, WaitRaises, Remove, RemoveFails, Untrack, Move, At
<1>5. ASSUME NEW n \in Ids, Join(n) PROVE PlaceInv'
  BY <1>2, <1>5 DEF Join, Move, At
<1>6. ASSUME NEW n \in Ids, Cancel(n) PROVE PlaceInv'
  <2>1. UNCHANGED <<docker, tracked, stray>> /\ n \notin tracked /\ (n \in docker => n \in stray)
    BY <1>6 DEF Cancel
  <2>2. Move(n, runs[n].stage, "over")
    BY <1>6 DEF Cancel, Move, At
  <2> QED
    BY <1>2, <2>1, <2>2
<1>7. ASSUME NEW n \in Ids, Begin(n) \/ Concludes(n) \/ Fails(n) PROVE PlaceInv'
  <2>1. PICK from \in AgentStages, to \in AgentStages, status \in {"running", "done", "failed"} :
          Publish(n, from, to, status)
    BY <1>7 DEF Begin, Concludes, Fails
  <2>2. UNCHANGED <<docker, tracked, stray>> /\ n \notin tracked /\ (n \in docker => n \in stray)
    BY <2>1 DEF Publish, At
  <2>3. Becomes(n, from, to, Append(runs[n].events, status))
    BY <2>1, PublishBecomes
  <2>4. \A m \in Ids \ {n} : runs'[m] = runs[m]
    BY <2>3 DEF Becomes
  <2> QED
    BY <2>2, <2>4
<1>8. ASSUME (\E r \in RuleChoices : AddRule(r)) \/ Cleanup \/ (\E n \in cleaning : CleanOne(n)) \/ UNCHANGED vars
      PROVE PlaceInv'
  <2>1. UNCHANGED <<runs, stray>> /\ docker' \subseteq docker /\ tracked' \subseteq tracked
    BY <1>8 DEF AddRule, Cleanup, CleanOne, vars
  <2> QED
    BY <2>1
<1> QED
  BY <1>1, <1>3, <1>4, <1>5, <1>6, <1>7, <1>8 DEF Next, Step

-----------------------------------------------------------------------------
(* The inductive invariant holds in every reachable state.                      *)
THEOREM Invariance == Spec => []IInv
<1>1. IInv /\ [Next]_vars => IInv'
  BY TypeStep, StoryStep, PlaceStep DEF IInv
<1> QED
  BY InitIInv, <1>1, PTL DEF Spec

(* What is stored and run has its type: no thread is ever at a stage of a       *)
(* sub-agent, nor a sub-agent at one of a thread.                               *)
THEOREM TypeCorrect == Spec => []TypeOK
<1>1. IInv => TypeOK
  BY DEF IInv
<1> QED
  BY <1>1, Invariance, PTL

(* Nothing was ever run against a rule that was stored when the pipeline        *)
(* (autonomy/pipeline.py) was asked, nor risky without one that allows it.      *)
THEOREM LawfulSafe == Spec => []Lawful
<1>1. IInv => Lawful
  BY DEF IInv
<1> QED
  BY <1>1, Invariance, PTL

-----------------------------------------------------------------------------
(* A task that runs a command cannot write the project or the user's home.      *)
LEMMA TaskIsConfined == TaskProfile.project # "rw" /\ TaskProfile.home # "rw"
<1>1. ProfileFor(TaskIntent) = "project"
  BY DEF ProfileFor, TaskIntent
<1>2. Resolve(TaskIntent, NoApproval).profile.name = "project"
  BY <1>1 DEF Resolve, GetProfile
<1>3. TaskProfile = GetProfile("project", "ro")
  BY <1>2 DEF TaskProfile
<1> QED
  BY <1>3 DEF GetProfile

(* However a command's thread (sandbox/docker.py) and cleanup() interleave, and *)
(* whichever removals by cleanup() fail, a container and the note of it are     *)
(* gone when the thread is, unless the thread's own removal of it failed.       *)
THEOREM NoneLeftSafe == Spec => []NoneLeft
<1>1. IInv => NoneLeft
  BY TaskIsConfined DEF IInv, PlaceInv, NoneLeft
<1> QED
  BY <1>1, Invariance, PTL

(* No slot of the manager (agents/manager.py) is lost to a sub-agent that ended *)
(* or failed.                                                                   *)
THEOREM SlotsSafe == Spec => []Slots
<1>1. ASSUME IInv PROVE Slots
  <2> SUFFICES ASSUME NEW n \in Ids, IsAgent(n)
               PROVE /\ runs[n].events \in {<<"spawned">>, <<"spawned", "running">>,
                            <<"spawned", "running", "done">>, <<"spawned", "running", "failed">>}
                     /\ runs[n].stage = "spawned" => Status(n) = "spawned"
                     /\ runs[n].stage = "thinking" <=> runs[n].stage # "over" /\ Status(n) = "running"
    BY DEF Slots
  <2>1. runs[n].stage \in {"over", "spawned", "thinking", "joined"}
    BY <1>1 DEF IInv, TypeOK, AgentStages
  <2>2. runs[n].events = <<"spawned">> => Status(n) = "spawned"
    BY DEF Status
  <2>3. runs[n].events = <<"spawned", "running">> => Status(n) = "running"
    BY DEF Status
  <2>4. runs[n].events = <<"spawned", "running", "done">> => Status(n) = "done"
    BY DEF Status
  <2>5. runs[n].events = <<"spawned", "running", "failed">> => Status(n) = "failed"
    BY DEF Status
  <2> QED
    BY <1>1, <2>1, <2>2, <2>3, <2>4, <2>5 DEF IInv, StoryInv
<1> QED
  BY <1>1, Invariance, PTL

-----------------------------------------------------------------------------
(* A decision as the risk, or a rule, makes it.                                 *)
LEMMA AllowedByAll ==
  ASSUME ShapeInv, NEW q, Evaluate(rules, q).outcome = "allow"
  PROVE Allows(q, Len(rules))
<1>1. Matches(rules, q, Denying) = {} /\ (Matches(rules, q, Allowing) # {} \/ ~RequiresConfirmation(q))
  BY Outcome
<1> QED
  BY <1>1 DEF Allows, Matches, Denying, ShapeInv

(* A policy (sandbox/policy.py) resolved with a decision of the pipeline clears *)
(* a container that writes the project or home only for what may be run.        *)
THEOREM ElevatedSafe == Spec => []Elevated
<1>1. ASSUME IInv PROVE Elevated
  <2> SUFFICES ASSUME NEW intent \in Intents, NEW q \in Requests,
                      Resolve(intent, Evaluate(rules, q).outcome).executionAllowed,
                      ~Resolve(intent, Evaluate(rules, q).outcome).requiresApproval
               PROVE LET is == Resolve(intent, Evaluate(rules, q).outcome) IN
                     /\ is.profile.home = "rw" => Allows(q, Len(rules))
                     /\ is.profile.project = "rw" => intent.writes /\ Allows(q, Len(rules))
    BY DEF Elevated
  <2> DEFINE outcome == Evaluate(rules, q).outcome
  <2>1. outcome \in {"allow", "ask", "deny"} /\ outcome # NoApproval
    BY Outcome, TaskRunsAssumption
  <2>2. outcome = "allow"
    BY <2>1 DEF Resolve
  <2>3. Allows(q, Len(rules))
    BY <1>1, <2>2, AllowedByAll DEF IInv
  <2>4. Resolve(intent, outcome).profile.project = "rw" => ProjectMode(intent) = "rw"
    BY DEF Resolve, GetProfile
  <2>5. ProjectMode(intent) = "rw" => intent.writes
    BY DEF ProjectMode
  <2> QED
    BY <2>3, <2>4, <2>5
<1> QED
  BY <1>1, Invariance, PTL

(* A rule that is added (autonomy/pipeline.py) changes only what it covers, and *)
(* none turns a denial into anything else.                                      *)
THEOREM RuleEffectSafe == Spec => RuleEffect
<1> DEFINE Effect ==
      \A q \in Requests :
        LET was == Evaluate(rules, q).outcome
            is == Evaluate(rules', q).outcome
            new == rules'[Len(rules')] IN
        was # is =>
          /\ Covers(new, q)
          /\ IF new.mode = "deny" THEN is = "deny" ELSE was = "ask" /\ is = "allow"
<1>1. ASSUME IInv, [Next]_vars PROVE [Effect]_rules
  <2> SUFFICES ASSUME rules' # rules PROVE Effect
    OBVIOUS
  <2>1. PICK r \in RuleChoices : AddRule(r)
    BY <1>1 DEF Next, Step, Start, Cleanup, CleanOne, Register, Create, CreateFails, SetId, Exits,
                WaitRaises, Remove, RemoveFails, Untrack, Begin, Concludes, Fails, Publish, Join, Cancel, vars
  <2> DEFINE n == Len(rules)
  <2>2. /\ n \in Nat /\ Len(rules') = n + 1 /\ DOMAIN rules = 1 .. n /\ DOMAIN rules' = 1 .. n + 1
        /\ rules'[n + 1] = r /\ \A i \in 1 .. n : rules'[i] = rules[i]
    BY <1>1, <2>1 DEF AddRule, IInv, ShapeInv
  <2>3. SUFFICES ASSUME NEW q \in Requests,
                        Evaluate(rules, q).outcome # Evaluate(rules', q).outcome
                 PROVE /\ Covers(r, q)
                       /\ IF r.mode = "deny" THEN Evaluate(rules', q).outcome = "deny"
                          ELSE /\ Evaluate(rules, q).outcome = "ask"
                               /\ Evaluate(rules', q).outcome = "allow"
    BY <2>2
  <2>4. ASSUME NEW modes
        PROVE Matches(rules', q, modes) =
                Matches(rules, q, modes) \cup
                  (IF r.mode \in modes /\ Covers(r, q) THEN {n + 1} ELSE {})
    BY <2>2 DEF Matches
  <2> HIDE DEF n
  <2>5. /\ (Matches(rules', q, Denying) # {}) <=>
             (Matches(rules, q, Denying) # {} \/ (r.mode = "deny" /\ Covers(r, q)))
        /\ (Matches(rules', q, Allowing) # {}) <=>
             (Matches(rules, q, Allowing) # {} \/ (r.mode \in Allowing /\ Covers(r, q)))
        /\ r.mode \in Allowing => r.mode # "deny"
    BY <2>4 DEF Denying, Allowing
  <2> QED
    BY <2>3, <2>5, Outcome
<1>2. Spec => [][Effect]_rules
  BY <1>1, Invariance, PTL DEF Spec
<1> QED
  BY <1>2 DEF RuleEffect
=============================================================================
