---------------------------- MODULE AttentionView ----------------------------
(***************************************************************************)
(* What a KV cache promises the attention kernels, with no pool, no int4   *)
(* tiles and no blocks: the keys and values a request's forward pass reads *)
(* for its committed positions are exactly those of its own conversation,  *)
(* in order.  A request opens with a prefix somebody computed before (a    *)
(* prefix-cache hit), grows by its own tokens, and closes.                 *)
(***************************************************************************)
EXTENDS Integers, Sequences

CONSTANTS Request, Conversation, None

VARIABLES conversation, view

Token(c, p) == <<c, p>>

Prefix(c, n) == [i \in 1 .. n |-> Token(c, i - 1)]

Init ==
    /\ conversation = [r \in Request |-> None]
    /\ view = [r \in Request |-> <<>>]

\* The length of the prefix is the cache's choice.
Open(r) ==
    /\ conversation[r] = None
    /\ \E c \in Conversation :
        /\ conversation' = [conversation EXCEPT ![r] = c]
        /\ view' = [view EXCEPT ![r] = Prefix(c, Len(view'[r]))]

\* One engine step commits tokens of every request of its batch.
Extend ==
    /\ \A r \in Request :
        /\ Len(view'[r]) >= Len(view[r])
        /\ view'[r] = Prefix(conversation[r], Len(view'[r]))
        /\ conversation[r] = None => view'[r] = <<>>
    /\ UNCHANGED conversation

Close(r) ==
    /\ conversation[r] # None
    /\ conversation' = [conversation EXCEPT ![r] = None]
    /\ view' = [view EXCEPT ![r] = <<>>]

Next == Extend \/ \E r \in Request : Open(r) \/ Close(r)

Spec == Init /\ [][Next]_<<conversation, view>>
=============================================================================
