----------------------------- MODULE ReplyQueue -----------------------------
(***************************************************************************)
(* What the outbound side of a channel promises: replies are delivered in  *)
(* the order they were queued, each at least once; one may be delivered    *)
(* again, none is passed over.  Outbound implements it.                    *)
(*                                                                         *)
(* The promise ends when the queue is spoilt: the appends of src/channel/  *)
(* subscribe.rs are not atomic, and a line that holds two replies, or none,*)
(* stops every later drain.                                                *)
(***************************************************************************)
EXTENDS Naturals, Sequences

CONSTANT Reply

VARIABLES
  queue,    \* the replies queued, in order
  out,      \* the deliveries made, in order
  dropped,  \* replies given up for want of a session
  spoilt    \* nothing is promised any more

vars == <<queue, out, dropped, spoilt>>

TypeOK ==
  /\ queue \in Seq(Reply) /\ out \in Seq(Reply)
  /\ dropped \subseteq Reply
  /\ spoilt \in BOOLEAN

Init == queue = <<>> /\ out = <<>> /\ dropped = {} /\ spoilt = FALSE

Delivered == {out[k] : k \in 1 .. Len(out)}

(* Whatever was queued before the i-th reply has been delivered or dropped. *)
TurnOf(i) == \A j \in 1 .. (i - 1) : queue[j] \in Delivered \cup dropped

(* A reply is queued once.                                                  *)
Enqueue(e) == /\ \A i \in 1 .. Len(queue) : queue[i] # e
              /\ queue' = Append(queue, e)
              /\ UNCHANGED <<out, dropped, spoilt>>

Deliver(i) == /\ TurnOf(i)
              /\ out' = Append(out, queue[i])
              /\ UNCHANGED <<queue, dropped, spoilt>>

Drop(i) == /\ TurnOf(i)
           /\ dropped' = dropped \cup {queue[i]}
           /\ UNCHANGED <<queue, out, spoilt>>

Spoil == /\ spoilt' = TRUE
         /\ queue' = <<>> /\ out' = <<>> /\ dropped' = {}

Next == \/ ~spoilt /\ \/ \E e \in Reply : Enqueue(e)
                      \/ \E i \in 1 .. Len(queue) : Deliver(i) \/ Drop(i)
        \/ Spoil

Spec == Init /\ [][Next]_vars

(* No reply is passed over: behind a delivered reply everything was         *)
(* delivered or dropped.                                                    *)
NoneIsPassedOver ==
  \A i \in 1 .. Len(queue) : queue[i] \in Delivered => TurnOf(i)
=============================================================================
