-------------------------- MODULE MessageNodeQueue --------------------------
(***************************************************************************)
(* The FIFO queue of one message tree (messaging/trees/queue.py): a deque  *)
(* of prompt ids with a set index.  The set is always the range of the     *)
(* deque, so a queue is modelled by the sequence alone.                    *)
(***************************************************************************)
EXTENDS Integers, Sequences, Functions

(* Mutant: the newest item goes to the front.                              *)
PutFront(q, item) == IF item \in Range(q) THEN q ELSE <<item>> \o q

(* Append a unique item; an item already queued leaves the queue as it is. *)
Put(q, item) == IF item \in Range(q) THEN q ELSE Append(q, item)

(* The queue after every item of a set has been removed from it, the items *)
(* that stay keeping their order.  kept[i] is what is left of the first i  *)
(* items.                                                                  *)
Without(q, items) ==
  LET kept[i \in 0..Len(q)] ==
        IF i = 0 THEN << >>
        ELSE IF q[i] \in items THEN kept[i - 1] ELSE Append(kept[i - 1], q[i])
  IN  kept[Len(q)]
=============================================================================
