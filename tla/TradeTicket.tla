------------------------------- MODULE TradeTicket -------------------------------
(***************************************************************************)
(* What the decision registry promises of each of its decisions, without   *)
(* statuses, records or logs: a ticket is opened, approved or closed       *)
(* without a trade, works once in the market, and after it is closed is    *)
(* delivered, settled and scored in that order.  booked is the volume      *)
(* executed for it.                                                        *)
(***************************************************************************)
EXTENDS Integers

CONSTANT Ids

VARIABLES phase, booked

Phases == {"none", "open", "approved", "working", "closed", "delivered", "settled", "scored"}

Init == /\ phase = [id \in Ids |-> "none"]
        /\ booked = [id \in Ids |-> 0]

\* a set of tickets is opened at once
Open(S) == /\ \A id \in S : phase[id] = "none"
           /\ phase' = [id \in Ids |-> IF id \in S THEN "open" ELSE phase[id]]
           /\ UNCHANGED booked

Move(id, from, to) == /\ phase[id] \in from
                      /\ phase' = [phase EXCEPT ![id] = to]
                      /\ UNCHANGED booked

Approve(id) == Move(id, {"open"}, "approved")

Decline(id) == Move(id, {"open", "approved"}, "closed")

Place(id) == /\ booked[id] = 0
             /\ Move(id, {"approved"}, "working")

\* a fill: the ticket goes on working or is closed by it; the booked volume never shrinks
Book(id) == /\ phase[id] = "working"
            /\ booked'[id] >= booked[id]
            /\ booked' = [booked EXCEPT ![id] = booked'[id]]
            /\ \E to \in {"working", "closed"} : phase' = [phase EXCEPT ![id] = to]

Deliver(id) == Move(id, {"closed", "working"}, "delivered")

Settle(id) == Move(id, {"delivered"}, "settled")

Score(id) == Move(id, {"settled"}, "scored")

Forget == /\ phase' = [id \in Ids |-> "none"]
          /\ booked' = [id \in Ids |-> 0]

Next ==
  \/ \E S \in SUBSET Ids : Open(S)
  \/ \E id \in Ids :
       \/ Approve(id) \/ Decline(id) \/ Place(id) \/ Book(id)
       \/ Deliver(id) \/ Settle(id) \/ Score(id)
  \/ Forget

Spec == Init /\ [][Next]_<<phase, booked>>
================================================================================
