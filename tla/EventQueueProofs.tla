--------------------------- MODULE EventQueueProofs ---------------------------
(* For every set of events, every priority, every number of attempts and of     *)
(* crashes: the invariants of the event queue, the order of its claims, and     *)
(* that it implements the mailbox.                                              *)
EXTENDS EventQueue, TLAPS

(* The consumer holds an event exactly from the SELECT to the verdict, and the  *)
(* row it selected stays pending until it claims it.                            *)
CurInv ==
  /\ pc \in {"claim", "handling"} => cur \in Events
  /\ pc \notin {"claim", "handling"} => cur = NoEvent
  /\ pc = "claim" => status[cur] = "pending"

(* AttemptsBounded is not inductive: what may still be claimed, now or after    *)
(* the recovery, is one attempt short of the bound.                             *)
AttemptsInv ==
  \A e \in Events :
    status[e] = "pending" \/ (status[e] = "processing" /\ pc \in {"down", "starting"})
      => attempts[e] < MaxAttempts + crashes

(* The selected row still goes before every pending row that was there at the   *)
(* SELECT.                                                                      *)
ClaimInv ==
  pc = "claim" =>
    \A f \in Events \ late :
      status[f] = "pending" /\ f # cur =>
        \/ Priority[cur] < Priority[f]
        \/ Priority[cur] = Priority[f] /\ <<cur, f>> \in older

IInv ==
  /\ TypeOK
  /\ OneTable
  /\ OneDelivery
  /\ AttemptsBounded
  /\ CurInv
  /\ AttemptsInv
  /\ ClaimInv

LEMMA InitIInv == Init => IInv
<1> SUFFICES ASSUME Init PROVE IInv
  OBVIOUS
<1>1. TypeOK
  <2>1. crashes \in 0 .. MaxCrashes
    BY QueueAssumption DEF Init
  <2> QED
    BY <2>1 DEF Init, TypeOK, Statuses, PCs
<1>2. OneTable /\ OneDelivery /\ CurInv /\ ClaimInv
  BY DEF Init, OneTable, OneDelivery, CurInv, ClaimInv, Stored, InQueue
<1>3. AttemptsBounded /\ AttemptsInv
  BY QueueAssumption DEF Init, AttemptsBounded, AttemptsInv
<1> QED
  BY <1>1, <1>2, <1>3 DEF IInv

LEMMA TypeStep == TypeOK /\ CurInv /\ [Next]_vars => TypeOK'
<1> SUFFICES ASSUME TypeOK, CurInv, [Next]_vars PROVE TypeOK'
  OBVIOUS
<1> USE DEF TypeOK, Statuses, PCs
<1>1. ASSUME NEW e \in Events, Push(e) PROVE TypeOK'
  BY <1>1 DEF Push, Stored, InQueue
<1>2. CASE Boot
  BY <1>2 DEF Boot
<1>3. CASE RecoverStale
  BY <1>3 DEF RecoverStale
<1>4. CASE PopSelect
  BY <1>4 DEF PopSelect
<1>5. CASE PopClaim
  BY <1>5 DEF PopClaim, CurInv
<1>6. CASE ClearNotify
  BY <1>6 DEF ClearNotify
<1>7. CASE Notified \/ PollTimeout
  BY <1>7 DEF Notified, PollTimeout
<1>8. CASE HandleOk
  BY <1>8 DEF HandleOk, CurInv
<1>9. CASE HandleError
  BY <1>9 DEF HandleError, CurInv
<1>10. CASE Crash
  <2>1. crashes' \in 0 .. MaxCrashes
    <3>1. crashes \in Nat /\ crashes < MaxCrashes /\ crashes' = crashes + 1
      BY <1>10 DEF Crash
    <3> QED
      BY <3>1, QueueAssumption
  <2> QED
    BY <1>10, <2>1 DEF Crash, tables
<1>11. CASE UNCHANGED vars
  BY <1>11 DEF vars
<1>12. ASSUME NEW e \in Events, Replay(e) PROVE TypeOK'
  BY <1>12 DEF Replay
<1> QED
  BY <1>1, <1>2, <1>3, <1>4, <1>5, <1>6, <1>7, <1>8, <1>9, <1>10, <1>11, <1>12 DEF Next, Consume

LEMMA StepIInv == IInv /\ [Next]_vars => IInv'
<1> SUFFICES ASSUME IInv, [Next]_vars PROVE IInv'
  OBVIOUS
<1> USE DEF IInv, TypeOK, Statuses, OneTable, OneDelivery, AttemptsBounded, CurInv, AttemptsInv,
          ClaimInv, Stored, InQueue
<1>0. TypeOK'
  BY TypeStep
<1>1. ASSUME NEW e \in Events, Push(e) PROVE IInv'
  BY <1>0, <1>1, QueueAssumption DEF Push
<1>2. CASE Boot
  BY <1>0, <1>2, QueueAssumption DEF Boot
<1>3. CASE RecoverStale
  BY <1>0, <1>3, QueueAssumption DEF RecoverStale
<1>4. CASE PopSelect
  BY <1>0, <1>4, QueueAssumption DEF PopSelect, Best
<1>5. CASE PopClaim
  BY <1>0, <1>5, QueueAssumption DEF PopClaim
<1>6. CASE ClearNotify
  BY <1>0, <1>6, QueueAssumption DEF ClearNotify
<1>7. CASE Notified
  BY <1>0, <1>7, QueueAssumption DEF Notified
<1>8. CASE PollTimeout
  BY <1>0, <1>8, QueueAssumption DEF PollTimeout
<1>9. CASE HandleOk
  BY <1>0, <1>9, QueueAssumption DEF HandleOk
<1>10. CASE HandleError
  BY <1>0, <1>10, QueueAssumption DEF HandleError
<1>11. CASE Crash
  BY <1>0, <1>11, QueueAssumption DEF Crash, tables
<1>12. CASE UNCHANGED vars
  BY <1>0, <1>12, QueueAssumption DEF vars
<1>13. ASSUME NEW e \in Events, Replay(e) PROVE IInv'
  BY <1>0, <1>13, QueueAssumption DEF Replay
<1> QED
  BY <1>1, <1>2, <1>3, <1>4, <1>5, <1>6, <1>7, <1>8, <1>9, <1>10, <1>11, <1>12, <1>13
     DEF Next, Consume

(* Type correctness and the invariants of the run, for every instance.          *)
THEOREM Invariance == Spec => []IInv
<1>1. Init => IInv
  BY InitIInv
<1>2. IInv /\ [Next]_vars => IInv'
  BY StepIInv
<1> QED
  BY <1>1, <1>2, PTL DEF Spec

THEOREM TypeCorrect == Spec => []TypeOK
<1>1. IInv => TypeOK
  BY DEF IInv
<1> QED
  BY <1>1, Invariance, PTL

(* Rows: one table at most, and a completed event never returns.                *)
THEOREM OneTableSafe == Spec => []OneTable
<1>1. IInv => OneTable
  BY DEF IInv
<1> QED
  BY <1>1, Invariance, PTL

(* Deliveries never overlap.                                                    *)
THEOREM OneDeliverySafe == Spec => []OneDelivery
<1>1. IInv => OneDelivery
  BY DEF IInv
<1> QED
  BY <1>1, Invariance, PTL

(* Deliveries are bounded by MAX_ATTEMPTS plus the crashes.                     *)
THEOREM AttemptsSafe == Spec => []AttemptsBounded
<1>1. IInv => AttemptsBounded
  BY DEF IInv
<1> QED
  BY <1>1, Invariance, PTL

-----------------------------------------------------------------------------
(* A row becomes 'processing' in PopClaim only, and it is the selected one.     *)
LEMMA ClaimStep ==
  ASSUME IInv, [Next]_vars, NEW e \in Events,
         status[e] = "pending", status'[e] = "processing"
  PROVE  pc = "claim" /\ e = cur
<1> USE DEF IInv, TypeOK, Statuses
<1>1. ASSUME NEW x \in Events, Push(x) PROVE FALSE
  BY <1>1 DEF Push
<1>2. CASE PopClaim
  BY <1>2 DEF PopClaim, CurInv
<1>3. CASE RecoverStale
  BY <1>3 DEF RecoverStale
<1>4. CASE Boot \/ PopSelect \/ ClearNotify \/ Notified \/ PollTimeout \/ Crash \/ UNCHANGED vars
  BY <1>4 DEF Boot, PopSelect, ClearNotify, Notified, PollTimeout, Crash, tables, vars
<1>5. CASE HandleOk
  BY <1>5 DEF HandleOk, CurInv
<1>6. CASE HandleError
  BY <1>6 DEF HandleError, CurInv
<1>7. ASSUME NEW x \in Events, Replay(x) PROVE FALSE
  BY <1>7 DEF Replay
<1> QED
  BY <1>1, <1>2, <1>3, <1>4, <1>5, <1>6, <1>7 DEF Next, Consume

(* Claims go by priority and age, but for what came after the SELECT.           *)
THEOREM ClaimOrderSafe == Spec => ClaimOrder
<1>1. ASSUME IInv, [Next]_vars
      PROVE  [\A e \in Events, f \in Events \ late :
                /\ status[e] = "pending" /\ status'[e] = "processing"
                /\ status[f] = "pending" /\ e # f
                => \/ Priority[e] < Priority[f]
                   \/ Priority[e] = Priority[f] /\ <<e, f>> \in older]_vars
  BY <1>1, ClaimStep DEF IInv, ClaimInv
<1> QED
  BY <1>1, Invariance, PTL DEF Spec, ClaimOrder

-----------------------------------------------------------------------------
(* Refinement.                                                                  *)

LEMMA InitRefines == Init => Box!MailboxInit
  BY DEF Init, Box!MailboxInit, place, tries, active

LEMMA StepRefines == IInv /\ IInv' /\ [Next]_vars => [Box!MailboxNext]_(Box!mailboxVars)
<1> SUFFICES ASSUME IInv, IInv', [Next]_vars
             PROVE  Box!MailboxNext \/ UNCHANGED <<place, tries, active>>
  BY DEF Box!mailboxVars
<1> USE DEF IInv, TypeOK, Statuses, PCs
<1>1. ASSUME NEW e \in Events, Push(e) PROVE Box!Accept(e)
  <2>1. place[e] \in {"nowhere", "finished"}
    BY <1>1 DEF Push, place, Stored, InQueue
  <2>2. place' = [place EXCEPT ![e] = "queued"]
    BY <1>1 DEF Push, place, Stored, InQueue
  <2>3. tries' = [tries EXCEPT ![e] = 0]
    BY <1>1 DEF Push, tries
  <2>4. UNCHANGED active
    BY <1>1 DEF Push, active
  <2> QED
    BY <2>1, <2>2, <2>3, <2>4 DEF Box!Accept
<1>2. CASE Boot \/ PopSelect \/ ClearNotify \/ Notified \/ PollTimeout
  BY <1>2 DEF Boot, PopSelect, ClearNotify, Notified, PollTimeout, place, tries, active
<1>3. CASE RecoverStale
  BY <1>3 DEF RecoverStale, place, tries, active
<1>4. CASE PopClaim
  <2>1. cur \in Events /\ place[cur] = "queued"
    BY <1>4 DEF PopClaim, CurInv, place
  <2>2. active = NoEvent /\ active' = cur
    BY <1>4 DEF PopClaim, active
  <2>3. tries' = [tries EXCEPT ![cur] = @ + 1] /\ UNCHANGED place
    BY <1>4, <2>1 DEF PopClaim, tries, place, CurInv
  <2>4. Box!Deliver(cur)
    BY <2>1, <2>2, <2>3 DEF Box!Deliver
  <2> QED
    BY <2>1, <2>4 DEF Box!MailboxNext
<1>5. CASE HandleOk
  <2>1. cur \in Events /\ active = cur /\ active' = NoEvent /\ UNCHANGED tries
    BY <1>5 DEF HandleOk, CurInv, active, tries
  <2>2. place' = [place EXCEPT ![cur] = "finished"]
    BY <1>5, <2>1 DEF HandleOk, place, OneTable, OneDelivery, InQueue, Stored
  <2>3. Box!Acknowledge(cur)
    BY <2>1, <2>2 DEF Box!Acknowledge
  <2> QED
    BY <2>1, <2>3 DEF Box!MailboxNext
<1>6. CASE HandleError
  <2>1. cur \in Events /\ active = cur /\ active' = NoEvent /\ UNCHANGED tries
    BY <1>6 DEF HandleError, CurInv, active, tries
  <2>2. CASE attempts[cur] >= MaxAttempts
    <3>1. place' = [place EXCEPT ![cur] = "parked"]
      BY <1>6, <2>1, <2>2 DEF HandleError, place
    <3> QED
      BY <2>1, <2>2, <3>1 DEF Box!Park, Box!MailboxNext, tries
  <2>3. CASE ~(attempts[cur] >= MaxAttempts)
    <3>1. UNCHANGED place
      BY <1>6, <2>1, <2>3 DEF HandleError, place, OneDelivery
    <3> QED
      BY <2>1, <3>1 DEF Box!Return, Box!MailboxNext
  <2> QED
    BY <2>2, <2>3
<1>7. CASE Crash
  <2>1. UNCHANGED <<place, tries>> /\ active' = NoEvent
    BY <1>7 DEF Crash, tables, place, tries, active
  <2>2. CASE pc = "handling"
    BY <2>1, <2>2 DEF Box!Return, Box!MailboxNext, CurInv, active
  <2>3. CASE pc # "handling"
    BY <2>1, <2>3 DEF active
  <2> QED
    BY <2>2, <2>3
<1>8. CASE UNCHANGED vars
  BY <1>8 DEF vars, place, tries, active
<1>9. ASSUME NEW e \in Events, Replay(e) PROVE Box!Unpark(e)
  <2>1. place[e] = "parked" /\ place' = [place EXCEPT ![e] = "queued"]
    BY <1>9 DEF Replay, place, OneTable, InQueue
  <2>2. tries' = [tries EXCEPT ![e] = 0] /\ UNCHANGED active
    BY <1>9 DEF Replay, tries, active
  <2> QED
    BY <2>1, <2>2 DEF Box!Unpark
<1> QED
  BY <1>1, <1>2, <1>3, <1>4, <1>5, <1>6, <1>7, <1>8, <1>9 DEF Next, Consume, Box!MailboxNext

(* The queue and its consumer implement the at-least-once mailbox.              *)
THEOREM Refinement == Spec => ImplementsMailbox
<1>1. Init => Box!MailboxInit
  BY InitRefines
<1>2. IInv /\ IInv' /\ [Next]_vars => [Box!MailboxNext]_(Box!mailboxVars)
  BY StepRefines
<1> QED
  BY <1>1, <1>2, Invariance, PTL DEF Spec, ImplementsMailbox, Box!MailboxSpec
=============================================================================
