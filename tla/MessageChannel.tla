--------------------------- MODULE MessageChannel ---------------------------
(***************************************************************************)
(* What a WebSocket connection promises in one direction, whatever its      *)
(* frames look like: messages arrive whole, once and in the order they were *)
(* sent, until the connection ends.                                        *)
(***************************************************************************)
EXTENDS Naturals, Sequences

CONSTANT Messages

VARIABLES open, sent, delivered

Init ==
    /\ open = TRUE
    /\ sent = <<>>
    /\ delivered = <<>>

(* Sending does not notice that the other end is gone.                      *)
Send(m) ==
    /\ sent' = Append(sent, m)
    /\ UNCHANGED <<open, delivered>>

Deliver ==
    /\ open
    /\ Len(delivered) < Len(sent)
    /\ delivered' = Append(delivered, sent[Len(delivered) + 1])
    /\ UNCHANGED <<open, sent>>

End ==
    /\ open
    /\ open' = FALSE
    /\ UNCHANGED <<sent, delivered>>

Next == Deliver \/ End \/ \E m \in Messages : Send(m)

Spec == Init /\ [][Next]_<<open, sent, delivered>>
=============================================================================
