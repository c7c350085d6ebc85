---------------------------- MODULE MCKVarNOwner ----------------------------
(***************************************************************************)
(* KVarNOwner for TLC: one group of two target layers and the drafter's    *)
(* layer, so that a builder drives more than one layer and two builders    *)
(* are made for the same one.                                              *)
(***************************************************************************)
EXTENDS KVarNOwner

CONSTANTS l1, l2, d1

MCLayer == {l1, l2, d1}
MCGroups == {{l1, l2, d1}}
MCDraftLayers == {d1}
=============================================================================
