--------------------------- MODULE ReliableChannel ---------------------------
(***************************************************************************)
(* What the transport promises: the messages handed to the sender's upper  *)
(* interface come out of the receiver's, unchanged, once each, in order.   *)
(***************************************************************************)
EXTENDS Sequences, Naturals

CONSTANT Messages

VARIABLES
    sent,       \* messages accepted from the upper layer
    delivered   \* messages passed to the upper layer

vars == <<sent, delivered>>

Init ==
    /\ sent = << >>
    /\ delivered = << >>

Send ==
    /\ Len(sent') = Len(sent) + 1
    /\ \E msg \in Messages : sent' = Append(sent, msg)
    /\ UNCHANGED delivered

Deliver ==
    /\ Len(delivered) < Len(sent)
    /\ delivered' = Append(delivered, sent[Len(delivered) + 1])
    /\ UNCHANGED sent

Next == Send \/ Deliver

Spec == Init /\ [][Next]_vars

=============================================================================
