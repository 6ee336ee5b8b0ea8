---------------------------- MODULE MCEpochKeys ----------------------------
(***************************************************************************)
(* Instances of EpochKeys: a pair in a tree of two leaves over several     *)
(* epochs, ended by public and private commits in any order.               *)
(***************************************************************************)
EXTENDS EpochKeys
=============================================================================
