----------------------------- MODULE LossyQueue -----------------------------
(***************************************************************************)
(* What a bounded queue between a monitor and a slow reader promises       *)
(* (src/docs/python-api.md, src/docs/usage.md): it may lose items, and     *)
(* counts every one it loses, but what arrives arrives once and in the     *)
(* order it was sent.  Items are numbered in that order.                   *)
(***************************************************************************)
EXTENDS Selection

VARIABLES
    sent,     \* items sent so far
    waiting,  \* the items in the queue, oldest first
    arrived,  \* the items the reader took, oldest first
    lost      \* number of items counted as lost

vars == <<sent, waiting, arrived, lost>>

Init == sent = 0 /\ waiting = <<>> /\ arrived = <<>> /\ lost = 0

\* Any of the items in "items" are in the queue next, the others are counted.
Keeps(items) ==
    /\ \E kept \in SUBSET (1..Len(items)) : waiting' = Selected(items, kept)
    /\ lost' = lost + Len(items) - Len(waiting')

\* An item is sent; any items, the new one too, may be lost over it.
Send ==
    /\ sent' = sent + 1
    /\ Keeps(Append(waiting, sent + 1))
    /\ UNCHANGED arrived

\* The reader takes the oldest items, and the queue may lose others.
Take ==
    /\ \E n \in 0..Len(waiting) :
         /\ arrived' = arrived \o SubSeq(waiting, 1, n)
         /\ Keeps(SubSeq(waiting, n + 1, Len(waiting)))
    /\ UNCHANGED sent

Next == Send \/ Take

Spec == Init /\ [][Next]_vars
=============================================================================
