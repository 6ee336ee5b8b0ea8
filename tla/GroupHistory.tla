---------------------------- MODULE GroupHistory ----------------------------
(***************************************************************************)
(* What a group promises its clients: there is one history of rosters, one *)
(* roster per epoch, and every client that is in the group walks through   *)
(* it, epoch by epoch, seeing the roster the others see.  Only a client at *)
(* the end of the history, or one that joins from outside, extends it; a   *)
(* client is out of the group only when the next roster is without it.     *)
(***************************************************************************)
EXTENDS Integers, Sequences

CONSTANTS Client

VARIABLES
  history,   \* the roster of every epoch so far
  position,  \* the epoch a client is in, or Outside
  roster     \* the members a client sees

vars == <<history, position, roster>>

Outside == 0

Init ==
  \E founders \in (SUBSET Client) \ {{}} :
    /\ history = <<founders>>
    /\ position = [c \in Client |-> IF c \in founders THEN 1 ELSE Outside]
    /\ roster = [c \in Client |-> IF c \in founders THEN founders ELSE {}]

MoveTo(c, p, members) ==
  /\ position' = [position EXCEPT ![c] = p]
  /\ roster' = [roster EXCEPT ![c] = members]

Extend(c, members) ==
  /\ history' = Append(history, members)
  /\ MoveTo(c, Len(history) + 1, members)

\* A member commits in the newest epoch only, and stays a member itself.
Commit(c) ==
  /\ position[c] = Len(history)
  /\ \E members \in SUBSET Client : c \in members /\ Extend(c, members)

\* A client that joins, or joins again, without being invited changes nothing
\* but its own membership.
JoinExternally(c) == Extend(c, history[Len(history)] \union {c})

Follow(c) ==
  /\ position[c] \in 1 .. Len(history) - 1
  /\ c \in history[position[c] + 1]
  /\ MoveTo(c, position[c] + 1, history[position[c] + 1])
  /\ UNCHANGED history

Leave(c) ==
  /\ position[c] \in 1 .. Len(history) - 1
  /\ c \notin history[position[c] + 1]
  /\ MoveTo(c, Outside, {})
  /\ UNCHANGED history

\* An invited client starts in the epoch of its invitation.
Join(c) ==
  /\ position[c] = Outside
  /\ \E p \in 2 .. Len(history) :
       /\ c \in history[p] \ history[p - 1]
       /\ MoveTo(c, p, history[p])
  /\ UNCHANGED history

Next ==
  \E c \in Client : Commit(c) \/ JoinExternally(c) \/ Follow(c) \/ Leave(c) \/ Join(c)

Spec == Init /\ [][Next]_vars
=============================================================================
