---------------------------- MODULE MCFrameStream ----------------------------
(* Model checking of FrameStream: the frames of the run.                   *)
EXTENDS FrameStream

Lengths == {0, 125, 126, 300, 65534, 65535, 70000, 70001}

(* A client masks every frame, with a random key only when it may change    *)
(* the payload: a copy of a short one.                                     *)
Key(mask, n) == IF mask /\ n \in 1 .. 1399 THEN <<1, 2, 3, 254>> ELSE NoKey

(* Text of every length, from a client and from a server, and one frame of  *)
(* every other kind.                                                       *)
MCFrames ==
    {[fin |-> TRUE, opcode |-> Text, mask |-> m, length |-> n, key |-> Key(m, n)] :
        m \in BOOLEAN, n \in Lengths}
    \union
    {[fin |-> op # Text, opcode |-> op, mask |-> FALSE, length |-> 2, key |-> NoKey] :
        op \in Received \union {CloseFrame, 3}}
=============================================================================
