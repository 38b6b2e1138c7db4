------------------------------ MODULE Delivery ------------------------------
(***************************************************************************)
(* What an asynchronous stage promises for the items handed to it: nothing   *)
(* comes out that was not handed in, what has come out stays out, and every  *)
(* accepted item comes out in the end, unless the stage may give items up.   *)
(* The outbox relay keeps the promise without loss, the welcome e-mails with.*)
(***************************************************************************)
CONSTANTS Items, LossAllowed

VARIABLES
    accepted,    \* items handed to the stage
    delivered,   \* items that have come out, once or more
    lost         \* items given up, and not delivered since

vars == <<accepted, delivered, lost>>

Init == accepted = {} /\ delivered = {} /\ lost = {}

Accept(i) ==
    /\ i \in Items \ accepted
    /\ accepted' = accepted \cup {i}
    /\ UNCHANGED <<delivered, lost>>

Deliver(i) ==
    /\ i \in accepted \ delivered
    /\ delivered' = delivered \cup {i}
    /\ lost' = lost \ {i}
    /\ UNCHANGED accepted

Lose(i) ==
    /\ LossAllowed
    /\ i \in accepted \ (delivered \cup lost)
    /\ lost' = lost \cup {i}
    /\ UNCHANGED <<accepted, delivered>>

Next == \E i \in Items : Accept(i) \/ Deliver(i) \/ Lose(i)

Safety == Init /\ [][Next]_vars

Settled(i) == i \in delivered \/ i \in lost

Spec == Safety /\ \A i \in Items : i \in accepted ~> Settled(i)
=============================================================================
