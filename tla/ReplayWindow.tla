---------------------------- MODULE ReplayWindow ----------------------------
(***************************************************************************)
(* What the secret tree of an epoch promises to the code that seals and    *)
(* opens messages, one stream per (leaf, ratchet).  A generation is used   *)
(* at most once.  A use may be refused only if the generation was used,    *)
(* fell behind the window of retained generations, or lies further ahead   *)
(* than the receiver is willing to ratchet.  Whether a generation behind   *)
(* the window is still available is left open: it depends on the order in  *)
(* which messages arrived.                                                 *)
(***************************************************************************)
EXTENDS Naturals

CONSTANTS
  Stream,         \* the ratchets
  Behind,         \* how many generations behind the newest are kept for sure
  Ahead,          \* how far past the newest a generation may be
  MaxGeneration   \* bound on the generations asked for

VARIABLES
  head,    \* per stream, the first generation never reached
  used,    \* the <<stream, generation>> pairs whose key was handed out
  answer   \* the last request and whether it was granted

vars == <<head, used, answer>>

Init ==
  /\ head = [s \in Stream |-> 0]
  /\ used = {}
  /\ answer = [stream |-> "none", generation |-> 0, granted |-> FALSE]

MayRefuse(s, g) ==
  \/ <<s, g>> \in used
  \/ g + Behind + 1 < head[s]
  \/ g > head[s] + Ahead

Grant(s, g) ==
  /\ <<s, g>> \notin used
  /\ g <= head[s] + Ahead
  /\ used' = used \union {<<s, g>>}
  /\ head' = [head EXCEPT ![s] = IF g < @ THEN @ ELSE g + 1]
  /\ answer' = [stream |-> s, generation |-> g, granted |-> TRUE]

Refuse(s, g) ==
  /\ MayRefuse(s, g)
  /\ answer' = [stream |-> s, generation |-> g, granted |-> FALSE]
  /\ UNCHANGED <<head, used>>

Next == \E s \in Stream, g \in 0 .. MaxGeneration : Grant(s, g) \/ Refuse(s, g)

Spec == Init /\ [][Next]_vars
=============================================================================
