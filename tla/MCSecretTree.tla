---------------------------- MODULE MCSecretTree ----------------------------
(***************************************************************************)
(* An instance of SecretTreeClient: in a tree of four leaves, a member     *)
(* opens messages of two others that share a parent, and seals its own.    *)
(***************************************************************************)
EXTENDS SecretTreeClient

\* Leaf 0's own handshake ratchet and the application ratchets of 2 and 3.
Exchange == {<<0, "handshake">>, <<2, "application">>, <<3, "application">>}

-----------------------------------------------------------------------------
\* ratchetUntil and updateUnusedGenerations as the loop they are.
LoopStep(ratchet) ==
  LET withNew == ratchet.unusedGenerations \union {ratchet.generation}
  IN  [generation        |-> ratchet.generation + 1,
       unusedGenerations |-> IF Cardinality(withNew) >= RetainKeysForGenerations
                             THEN Newest(withNew, RetainKeysForGenerations)
                             ELSE withNew]

Loop(ratchet, desired) ==
  LET run[i \in 0 .. desired - ratchet.generation] ==
        IF i = 0 THEN ratchet ELSE LoopStep(run[i - 1])
  IN  run[desired - ratchet.generation]

(***************************************************************************)
(* On every reachable ratchet, trimming once gives what the code's loop    *)
(* gives by trimming at each step (secretTree.ts:188-255).                 *)
(***************************************************************************)
RatchetUntilIsTheLoop ==
  \A s \in Streams :
    LET ratchet == tree.ratchets[s[1]][s[2]]
    IN  \A desired \in ratchet.generation .. ratchet.generation + MaximumForwardRatchetSteps :
          RatchetUntil(ratchet, desired).ratchet = Loop(ratchet, desired)
=============================================================================
