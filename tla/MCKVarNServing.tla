--------------------------- MODULE MCKVarNServing ---------------------------
(***************************************************************************)
(* KVarNServing for TLC.  Blocks, slots, requests and conversations are    *)
(* model values the specification never distinguishes, so their            *)
(* permutations are symmetries.  No run with a symmetry set checks a       *)
(* liveness property.                                                      *)
(***************************************************************************)
EXTENDS KVarNServing, TLC

Symmetry ==
    Permutations(Block) \cup Permutations(Slot) \cup Permutations(Request)
        \cup Permutations(Conversation)
=============================================================================
