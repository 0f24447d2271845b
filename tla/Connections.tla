---------------------------- MODULE Connections ----------------------------
(***************************************************************************)
(* What the client and the server promise a sketch about connections,       *)
(* whatever they do inside: a socket is opened, may come up after a          *)
(* handshake of its own, and ends once.  The sketch is told                  *)
(* (WStype_CONNECTED) of those that came up, and of the end                  *)
(* (WStype_DISCONNECTED) of every one, up or not, before the next is opened  *)
(* in the same place.                                                      *)
(*                                                                         *)
(* One step of the code may be a step of several places, because callbacks  *)
(* call back.                                                              *)
(***************************************************************************)
EXTENDS Integers

CONSTANT Places             \* one in the client; the slots of a server

VARIABLES
    stage,                  \* of each place's socket
    told,                   \* the place's last event was WStype_CONNECTED
    owed                    \* sockets opened in it minus WStype_DISCONNECTED events

Stages == {"none", "opening", "up"}

Init ==
    /\ stage = [c \in Places |-> "none"]
    /\ told = [c \in Places |-> FALSE]
    /\ owed = [c \in Places |-> 0]

Moves(c, from, to) ==
    /\ stage[c] \in from
    /\ stage'[c] = to

Opens(c) ==
    /\ Moves(c, {"none"}, "opening")
    /\ told'[c] = FALSE
    /\ owed'[c] = owed[c] + 1

ComesUp(c) ==
    /\ Moves(c, {"opening"}, "up")
    /\ told'[c] = TRUE
    /\ owed'[c] = owed[c]

Ends(c) ==
    /\ Moves(c, {"opening", "up"}, "none")
    /\ told'[c] = FALSE
    /\ owed'[c] = owed[c] - 1

(* One socket ends and another is opened in its place.                      *)
IsReplaced(c) ==
    /\ Moves(c, {"opening", "up"}, "opening")
    /\ told'[c] = FALSE
    /\ owed'[c] = owed[c]

Stays(c) ==
    /\ stage'[c] = stage[c]
    /\ told'[c] = told[c]
    /\ owed'[c] = owed[c]

Step(c) == Opens(c) \/ ComesUp(c) \/ Ends(c) \/ IsReplaced(c) \/ Stays(c)

Next == \A c \in Places : Step(c)

Spec == Init /\ [][Next]_<<stage, told, owed>>
=============================================================================
