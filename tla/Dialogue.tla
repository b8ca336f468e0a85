------------------------------- MODULE Dialogue -------------------------------
(* What the process promises to whoever asks it something.  A question is       *)
(* answered once at most; its answer is told once, or given up for good; and    *)
(* it is the last word: errors are told only while there is no answer.  A       *)
(* question that is missed is never answered.                                   *)
EXTENDS Naturals

CONSTANT Questions

VARIABLES stage,    (* how far each question is                                 *)
          errors    (* how many errors were told for it                         *)

dialogueVars == <<stage, errors>>

Stages == {"new", "missed", "open", "answered", "told", "dropped"}

DialogueInit ==
  /\ stage = [q \in Questions |-> "new"]
  /\ errors = [q \in Questions |-> 0]

Moves(q, from, to) ==
  /\ stage[q] = from
  /\ stage' = [stage EXCEPT ![q] = to]
  /\ UNCHANGED errors

(* The question is accepted: it is not lost from now on.                        *)
Open(q) == Moves(q, "new", "open")

(* An attempt has failed; there will be another one.                            *)
Excuse(q) ==
  /\ stage[q] = "open"
  /\ errors' = [errors EXCEPT ![q] = @ + 1]
  /\ UNCHANGED stage

(* The answer is there; nothing is told of one that is empty.                   *)
Answer(q) == Moves(q, "open", "answered") \/ Moves(q, "open", "dropped")

Tell(q) == Moves(q, "answered", "told")

(* Some that were not accepted yet are missed, some answers are given up:       *)
(* one of them when a call fails, all at hand when the process ends.            *)
GiveUp(unheard, untold) ==
  /\ \A q \in unheard : stage[q] = "new"
  /\ \A q \in untold : stage[q] = "answered"
  /\ stage' = [q \in Questions |-> IF q \in unheard THEN "missed"
                                   ELSE IF q \in untold THEN "dropped" ELSE stage[q]]
  /\ UNCHANGED errors

DialogueNext ==
  \/ \E q \in Questions : Open(q) \/ Excuse(q) \/ Answer(q) \/ Tell(q)
  \/ \E unheard, untold \in SUBSET Questions : GiveUp(unheard, untold)

DialogueSpec == DialogueInit /\ [][DialogueNext]_dialogueVars
=============================================================================
