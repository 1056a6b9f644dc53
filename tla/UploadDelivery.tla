--------------------------- MODULE UploadDelivery ---------------------------
(***************************************************************************)
(* What an upload queue and a team server promise together                 *)
(* (src/docs/team-sharing.md, "Outages and retries"): an entry leaves the  *)
(* queue once, as delivered or as expired; the server stores it at most    *)
(* once, whatever is retried; and delivered means stored.  An entry that   *)
(* expired may have been stored all the same.                              *)
(***************************************************************************)
EXTENDS Naturals

CONSTANT Items

VARIABLES
    status,  \* "new", "queued", "delivered" or "expired"
    stored   \* number of times the server has stored the entry

vars == <<status, stored>>

Init ==
    /\ status = [i \in Items |-> "new"]
    /\ stored = [i \in Items |-> 0]

\* Any set of entries changes at once; each goes one step on.
Move(i) ==
    \/ status'[i] = status[i]
    \/ status[i] = "new" /\ status'[i] = "queued"
    \/ status[i] = "queued" /\ status'[i] = "expired"
    \/ status[i] = "queued" /\ status'[i] = "delivered" /\ stored[i] = 1

Queue ==
    /\ \A i \in Items : Move(i)
    /\ UNCHANGED stored

Store(i) ==
    /\ status[i] # "new" /\ stored[i] = 0
    /\ stored' = [stored EXCEPT ![i] = 1]
    /\ UNCHANGED status

Next == Queue \/ \E i \in Items : Store(i)

Spec == Init /\ [][Next]_vars
=============================================================================
