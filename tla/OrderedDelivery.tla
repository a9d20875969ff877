--------------------------- MODULE OrderedDelivery ---------------------------
(***************************************************************************)
(* What the components that pass something on promise about it: the log    *)
(* forwarder about records, a log handler of the agent about lines, a run  *)
(* of the publisher about bitrates.  What was accepted is delivered in the *)
(* order in which it was accepted, each once and none left out between two *)
(* others.  They differ in what may be left when they end.                 *)
(***************************************************************************)
EXTENDS Naturals, Sequences

CONSTANTS
    Message, \* what can be accepted
    First    \* what is accepted from the beginning

VARIABLES
    accepted,  \* the messages accepted so far
    delivered, \* those delivered so far
    open       \* deliveries go on

vars == <<accepted, delivered, open>>

Init == accepted = First /\ delivered = <<>> /\ open = TRUE

Accept ==
    /\ \E m \in Message : accepted' = Append(accepted, m)
    /\ UNCHANGED <<delivered, open>>

\* Deliveries may take several messages at once.
Deliver ==
    /\ open
    /\ \E n \in (Len(delivered) + 1)..Len(accepted) : delivered' = SubSeq(accepted, 1, n)
    /\ UNCHANGED <<accepted, open>>

End ==
    /\ open /\ open' = FALSE
    /\ UNCHANGED <<accepted, delivered>>

\* The end with the last delivery, if there is one.
Drain ==
    /\ open /\ open' = FALSE
    /\ delivered' = accepted
    /\ UNCHANGED accepted

\* A new one in the place of one that ended.
Renew ==
    /\ ~open /\ open' = TRUE
    /\ accepted' = First /\ delivered' = <<>>

\* The end leaves nothing behind, and nothing is accepted after it.
DrainedNext == (open /\ Accept) \/ Deliver \/ Drain

\* The end may leave messages behind, and does not stop whoever sends them.
LossyNext == Accept \/ Deliver \/ End

RenewedNext == LossyNext \/ Renew

DrainedSpec == Init /\ [][DrainedNext]_vars
LossySpec == Init /\ [][LossyNext]_vars
RenewedSpec == Init /\ [][RenewedNext]_vars
=============================================================================
