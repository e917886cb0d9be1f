----------------------------- MODULE BoundedFifo -----------------------------
(***************************************************************************)
(* What the DMA read thread and the file write thread expect of            *)
(* data_queue_: a first-in first-out channel of at most Cap blocks, whose   *)
(* write() returns false exactly when it is full and whose read() returns   *)
(* false exactly when it is empty.  SpscQueue.tla, the index-level model of *)
(* folly::ProducerConsumerQueue, implements it; EventReadout.tla uses it.   *)
(***************************************************************************)
EXTENDS Naturals, Sequences

CONSTANTS
  Item,    \* the values that can be queued (DMA blocks)
  Cap,     \* usable slots
  NoItem   \* content of the caller's variable before the first read

VARIABLES
  q,       \* the queued items, oldest first
  wres,    \* what the last completed write() returned
  rres,    \* what the last completed read() or popFront() returned
  out      \* the item the last successful read() handed over

vars == <<q, wres, rres, out>>

Init == /\ q = <<>>
        /\ wres = "none"
        /\ rres = "none"
        /\ out = NoItem

(* write() on a queue with a free slot. *)
Put(x) == /\ Len(q) < Cap
          /\ q' = Append(q, x)
          /\ wres' = "ok"
          /\ UNCHANGED <<rres, out>>

(* write() on a full queue: the block is refused. *)
PutFull == /\ Len(q) = Cap
           /\ wres' = "full"
           /\ UNCHANGED <<q, rres, out>>

(* read() on a queue that holds something. *)
Take == /\ q # <<>>
        /\ out' = Head(q)
        /\ q' = Tail(q)
        /\ rres' = "ok"
        /\ UNCHANGED wres

(* read() or isEmpty() on an empty queue. *)
TakeEmpty == /\ q = <<>>
             /\ rres' = "empty"
             /\ UNCHANGED <<q, wres, out>>

(* popFront(): the oldest item is discarded. *)
Drop == /\ q # <<>>
        /\ q' = Tail(q)
        /\ rres' = "dropped"
        /\ UNCHANGED <<wres, out>>

Next == \/ \E x \in Item : Put(x)
        \/ PutFull
        \/ Take
        \/ TakeEmpty
        \/ Drop

Spec == Init /\ [][Next]_vars
=============================================================================
