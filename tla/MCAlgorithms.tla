---------------------------- MODULE MCAlgorithms ----------------------------
(***************************************************************************)
(* The algorithms below the protocol, in one run: each behaviour climbs a  *)
(* tree, or sends a record through the codec, or validates the credentials *)
(* of a tree, and the other two have nothing to do.                        *)
(***************************************************************************)
EXTENDS TreeBits, Codec, CredentialBatches

CONSTANTS
  Widths,    \* leaf counts of the trees climbed, powers of two as in the code
  Lengths,   \* of data, around the changes of the prefix and the limits
  MaxLeaves  \* bound: credentials in a tree

\* Records like those of the code: numbers, optional and repeated data in any place.
Records ==
  {<<Number(2, 1), Bytes(Data(n, 7)), Optional(o)>> : n \in Lengths, o \in {<<>>, <<Data(1, 9)>>}}
  \union {<<Bytes(Data(n, 7)), Bytes(Data(1, 5)), Number(8, 1)>> : n \in Lengths}
  \union {<<Vector(<<Data(n, 7), Data(m, 8)>>), Optional(<<>>)>> : n \in {0, 1, 60, 62, 63, 64}, m \in {0, 1, 16383}}
  \union {<<Vector(<<>>), Optional(<<Data(64, 3)>>), Number(1, 3)>>, <<Vector(<<Data(MaxLength - 1, 1)>>)>>}

NoCredentials == CredentialsInit({<<>>}) /\ maxConcurrency = 1 /\ batchSize = 1

Init ==
  \/ ClimbInit(Widths) /\ CodecInit({<<>>}) /\ NoCredentials
  \/ ClimbInit({1}) /\ CodecInit(Records) /\ NoCredentials
  \/ ClimbInit({1}) /\ CodecInit({<<>>}) /\ CredentialsInit(UNION {[1 .. n -> BOOLEAN] : n \in 0 .. MaxLeaves})

Next ==
  \/ Climb /\ UNCHANGED codecVars /\ UNCHANGED credentialVars
  \/ fields # <<>> /\ CodecNext /\ UNCHANGED climbVars /\ UNCHANGED credentialVars
  \/ CredentialsNext /\ UNCHANGED climbVars /\ UNCHANGED codecVars

Spec == Init /\ [][Next]_<<climbVars, codecVars, credentialVars>>
=============================================================================
