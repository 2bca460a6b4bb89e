--------------------------- MODULE PurchaseEvents ---------------------------
(***************************************************************************)
(* The purchase event of a checkout that succeeded.  A goroutine posts it   *)
(* to the conversions API, up to Attempts times; an answer that does not    *)
(* come says nothing about whether the event arrived.  Its event_id is the  *)
(* order's id, by which the receiver takes repeated events for one.  A      *)
(* stopped process forgets its goroutines and its requests.                *)
(***************************************************************************)
EXTENDS Checkout

CONSTANT Attempts

ASSUME AttemptsAssumption == Attempts \in Nat \ {0}

VARIABLES
  reports,    \* order -> [state, tries] of its goroutine
  received    \* the orders whose event arrived

evars == <<cvars, reports, received>>

ReportStates == {"none", "sending", "sent", "refused", "failed", "lost"}
Report == [state : ReportStates, tries : 0..Attempts]

Arrives(o) == received' = received \union {o}

-----------------------------------------------------------------------------
(* Mutant: the event is sent when the order row is inserted.                *)
SendForPlaced(o) ==
  /\ o \in placed /\ reports[o].state = "none"
  /\ reports' = [reports EXCEPT ![o].state = "sending"]
  /\ UNCHANGED <<cvars, received>>

(* Checkout calls SendPurchaseEvent after Do has returned without error.    *)
SendPurchaseEvent(o) ==
  /\ o \in confirmed /\ reports[o].state = "none"
  /\ reports' = [reports EXCEPT ![o].state = "sending"]
  /\ UNCHANGED <<cvars, received>>

Accepted(o) ==
  /\ reports[o].state = "sending"
  /\ Arrives(o)
  /\ reports' = [reports EXCEPT ![o].state = "sent"]
  /\ UNCHANGED cvars

(* 4xx other than 429: not tried again.                                     *)
Refused(o) ==
  /\ reports[o].state = "sending"
  /\ reports' = [reports EXCEPT ![o].state = "refused"]
  /\ UNCHANGED <<cvars, received>>

(* Mutant: the last of the attempts is not made.                            *)
RetriedTooSeldom(o) ==
  /\ reports[o].state = "sending"
  /\ reports' = [reports EXCEPT ![o] =
       [state |-> IF @.tries + 2 >= Attempts THEN "failed" ELSE "sending",
        tries |-> @.tries + 1]]
  /\ \/ UNCHANGED received
     \/ Arrives(o)
  /\ UNCHANGED cvars

(* Mutant: the attempts are not counted against their limit.                *)
RetriedAlways(o) ==
  /\ reports[o].state = "sending" /\ reports[o].tries <= Attempts
  /\ reports' = [reports EXCEPT ![o].tries = @ + 1]
  /\ \/ UNCHANGED received
     \/ Arrives(o)
  /\ UNCHANGED cvars

(* No answer, 429 or 5xx: the event may have arrived all the same.          *)
Retried(o) ==
  /\ reports[o].state = "sending"
  /\ reports' = [reports EXCEPT ![o] =
       [state |-> IF @.tries + 1 = Attempts THEN "failed" ELSE "sending",
        tries |-> @.tries + 1]]
  /\ \/ UNCHANGED received
     \/ Arrives(o)
  /\ UNCHANGED cvars

(* The process stops: shutdown waits for requests, at most five seconds, and *)
(* not for goroutines.                                                     *)
Stop ==
  /\ todo' = [c \in Calls |-> <<>>]
  /\ reports' = [o \in Orders |->
       IF reports[o].state = "sending" \/ (o \in confirmed /\ reports[o].state = "none")
       THEN [reports[o] EXCEPT !.state = "lost"] ELSE reports[o]]
  /\ UNCHANGED <<tables, begun, carts, confirmed, received>>

EventInit ==
  /\ Init
  /\ reports = [o \in Orders |-> [state |-> "none", tries |-> 0]]
  /\ received = {}

EventNext ==
  \/ Next /\ UNCHANGED <<reports, received>>
  \/ \E o \in Orders :
       SendPurchaseEvent(o) \/ Accepted(o) \/ Refused(o) \/ Retried(o)
  \/ Stop

EventSpec == EventInit /\ [][EventNext]_evars

-----------------------------------------------------------------------------
(* Properties *)

(* The goroutines and what they sent have their types: no attempt is made   *)
(* beyond the last one that SendEvent allows.                              *)
EventsTypeOK ==
  /\ reports \in [Orders -> Report]
  /\ received \subseteq Orders

(* Nothing is reported of a checkout that failed, whatever rows it left.     *)
OnlyConfirmedReported == received \subseteq confirmed

(* A purchase that never reaches the receiver was refused, tried in vain     *)
(* as often as it may be, or its process stopped.                          *)
LossExplained ==
  \A o \in confirmed \ received :
    \/ reports[o].state \in {"none", "sending", "refused", "lost"}
    \/ reports[o].state = "failed" /\ reports[o].tries = Attempts
=============================================================================
