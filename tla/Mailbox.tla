------------------------------- MODULE Mailbox -------------------------------
(* What the event queue promises to whoever hands it an event: at-least-once   *)
(* handling by a single handler.  An accepted event stays with the mailbox     *)
(* until a delivery of it is acknowledged; it is parked only after MaxAttempts *)
(* deliveries, and a parked event can be put back with a clean record.         *)
EXTENDS Naturals

CONSTANTS Events,       (* identifiers of the events                           *)
          NoEvent,      (* the handler holds no event                          *)
          MaxAttempts   (* deliveries before an event may be parked            *)

VARIABLES place,        (* where the mailbox keeps each event                  *)
          tries,        (* deliveries of the event since it was last accepted  *)
          active        (* the event in the handler's hands                    *)

mailboxVars == <<place, tries, active>>

Places == {"nowhere", "queued", "parked", "finished"}

MailboxInit ==
  /\ place = [e \in Events |-> "nowhere"]
  /\ tries = [e \in Events |-> 0]
  /\ active = NoEvent

Accept(e) ==
  /\ place[e] \in {"nowhere", "finished"}
  /\ place' = [place EXCEPT ![e] = "queued"]
  /\ tries' = [tries EXCEPT ![e] = 0]
  /\ UNCHANGED active

Deliver(e) ==
  /\ active = NoEvent
  /\ place[e] = "queued"
  /\ active' = e
  /\ tries' = [tries EXCEPT ![e] = @ + 1]
  /\ UNCHANGED place

(* The handler succeeded.                                                      *)
Acknowledge(e) ==
  /\ active = e
  /\ place' = [place EXCEPT ![e] = "finished"]
  /\ active' = NoEvent
  /\ UNCHANGED tries

(* A parked event is put back, with a clean record.                            *)
Unpark(e) ==
  /\ place[e] = "parked"
  /\ place' = [place EXCEPT ![e] = "queued"]
  /\ tries' = [tries EXCEPT ![e] = 0]
  /\ UNCHANGED active

Park(e) ==
  /\ active = e
  /\ tries[e] >= MaxAttempts
  /\ place' = [place EXCEPT ![e] = "parked"]
  /\ active' = NoEvent
  /\ UNCHANGED tries

(* The handler failed or died: the event is still in the mailbox.              *)
Return(e) ==
  /\ active = e
  /\ active' = NoEvent
  /\ UNCHANGED <<place, tries>>

MailboxNext ==
  \E e \in Events :
    \/ Accept(e)
    \/ Deliver(e)
    \/ Acknowledge(e)
    \/ Park(e)
    \/ Return(e)
    \/ Unpark(e)

MailboxSpec == MailboxInit /\ [][MailboxNext]_mailboxVars
=============================================================================
