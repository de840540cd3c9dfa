--------------------------- MODULE Promises_proofs ---------------------------
(***************************************************************************)
(* Proofs that the two abstract specifications say what they are meant to  *)
(* say, so that whatever implements them inherits these facts.             *)
(***************************************************************************)
EXTENDS TaskGraphRun, SequenceTheorems, TLAPS

(* The variables keep their types: what the other proofs rest on.          *)
THEOREM PromiseTypes == Spec => []TypeOK
<1>1. ASSUME Init PROVE TypeOK
  BY <1>1 DEF Init, TypeOK, Phases
<1>2. TypeOK /\ [Next]_vars => TypeOK'
  <2> SUFFICES ASSUME TypeOK, [Next]_vars PROVE TypeOK'
    OBVIOUS
  <2> USE DEF TypeOK, Phases
  <2>1. CASE LeaveOut
    BY <2>1 DEF LeaveOut
  <2>2. CASE End
    BY <2>2 DEF End
  <2>3. ASSUME NEW t \in Tasks, Begin(t) PROVE TypeOK'
    BY <2>3 DEF Begin, Move
  <2>4. ASSUME NEW t \in Tasks, TryAgain(t) PROVE TypeOK'
    BY <2>4 DEF TryAgain, Move
  <2>5. ASSUME NEW t \in Tasks, Release(t) PROVE TypeOK'
    BY <2>5 DEF Release, Move
  <2>6. ASSUME NEW S \in SUBSET Tasks, Drop(S) PROVE TypeOK'
    BY <2>6 DEF Drop
  <2>7. CASE UNCHANGED vars
    BY <2>7 DEF vars
  <2>8. QED
    BY <2>1, <2>2, <2>3, <2>4, <2>5, <2>6, <2>7 DEF Next
<1>3. QED
  BY <1>1, <1>2, PTL DEF Spec

(* Work stands on released work and is begun at most MaxTries times: what  *)
(* an implementation promises about dependencies and retries.              *)
THEOREM WorkIsGrounded ==
  ASSUME MaxTries \in Nat
  PROVE  Spec => []GroundedWork
<1>1. ASSUME Init PROVE GroundedWork
  <2>1. \A t \in Tasks : phase[t] = "waiting" /\ tries[t] = 0
    BY <1>1 DEF Init
  <2>2. QED
    <3>1. \A t \in Tasks : ~(phase[t] \in {"active", "released"})
      BY <2>1
    <3>2. \A t \in Tasks : tries[t] = 0
      BY <2>1
    <3>3. ~(0 > 0)
      OBVIOUS
    <3>4. QED
      BY <3>1, <3>2, <3>3 DEF GroundedWork
<1>2. TypeOK /\ GroundedWork /\ [Next]_vars => GroundedWork'
  <2> SUFFICES ASSUME TypeOK, GroundedWork, [Next]_vars PROVE GroundedWork'
    OBVIOUS
  <2> USE DEF TypeOK, GroundedWork, Satisfied
  <2>1. CASE LeaveOut
    BY <2>1 DEF LeaveOut
  <2>2. CASE End
    BY <2>2 DEF End
  <2>3. ASSUME NEW t \in Tasks, Begin(t) PROVE GroundedWork'
    BY <2>3 DEF Begin, Move
  <2>4. ASSUME NEW t \in Tasks, TryAgain(t) PROVE GroundedWork'
    BY <2>4 DEF TryAgain, Move
  <2>5. ASSUME NEW t \in Tasks, Release(t) PROVE GroundedWork'
    BY <2>5 DEF Release, Move
  <2>6. ASSUME NEW S \in SUBSET Tasks, Drop(S) PROVE GroundedWork'
    BY <2>6 DEF Drop
  <2>7. CASE UNCHANGED vars
    BY <2>7 DEF vars
  <2>8. QED
    BY <2>1, <2>2, <2>3, <2>4, <2>5, <2>6, <2>7 DEF Next
<1>3. QED
  BY <1>1, <1>2, PromiseTypes, PTL DEF Spec

(* Released, left out and dropped tasks are done with.                     *)
THEOREM SettledForGood == Spec => FinalIsFinal
<1> DEFINE Stays == \A t \in Tasks : phase[t] \in Settled =>
                      phase'[t] = phase[t] /\ tries'[t] = tries[t]
<1>1. TypeOK /\ [Next]_vars => [Stays]_vars
  <2> SUFFICES ASSUME TypeOK, Next, NEW u \in Tasks, phase[u] \in Settled
               PROVE  phase'[u] = phase[u] /\ tries'[u] = tries[u]
    OBVIOUS
  <2> USE DEF TypeOK, Settled
  <2>1. CASE LeaveOut
    BY <2>1 DEF LeaveOut
  <2>2. CASE End
    BY <2>2 DEF End
  <2>3. ASSUME NEW t \in Tasks, Begin(t) \/ TryAgain(t) \/ Release(t)
        PROVE  phase'[u] = phase[u] /\ tries'[u] = tries[u]
    BY <2>3 DEF Begin, TryAgain, Release, Move
  <2>4. ASSUME NEW S \in SUBSET Tasks, Drop(S)
        PROVE  phase'[u] = phase[u] /\ tries'[u] = tries[u]
    BY <2>4 DEF Drop
  <2>5. QED
    BY <2>1, <2>2, <2>3, <2>4 DEF Next
<1>2. QED
  BY <1>1, PromiseTypes, PTL DEF Spec, FinalIsFinal

------------------------------------------------------------------------------
(* What the promise of the outbound side comes to.                          *)
CONSTANT Reply
VARIABLES queue, out, dropped, spoilt

Queue == INSTANCE ReplyQueue WITH Reply <- Reply, queue <- queue, out <- out,
                                  dropped <- dropped, spoilt <- spoilt

(* A reply stands once in the queue, and only what was queued is given up   *)
(* or delivered, in its turn.                                               *)
QueuedOnce == \A i, j \in 1 .. Len(queue) : queue[i] = queue[j] => i = j
HandledInTurn ==
  \A i \in 1 .. Len(queue) : queue[i] \in Queue!Delivered \cup dropped => Queue!TurnOf(i)
OnlyQueued ==
  \A e \in Queue!Delivered \cup dropped : \E i \in 1 .. Len(queue) : queue[i] = e

QueueInv == Queue!TypeOK /\ QueuedOnce /\ HandledInTurn /\ OnlyQueued

LEMMA QueueInit == Queue!Init => QueueInv
<1> SUFFICES ASSUME Queue!Init PROVE QueueInv
  OBVIOUS
<1>1. Queue!TypeOK
  <2>1. <<>> \in Seq(Reply)
    OBVIOUS
  <2> QED BY <2>1 DEF Queue!Init, Queue!TypeOK
<1>2. Len(queue) = 0 /\ Queue!Delivered \cup dropped = {}
  BY DEF Queue!Init, Queue!Delivered
<1> QED BY <1>1, <1>2 DEF QueueInv, QueuedOnce, HandledInTurn, OnlyQueued

LEMMA QueueSpoil ==
  ASSUME Queue!Spoil
  PROVE  QueueInv'
<1>1. queue' = <<>> /\ Queue!Delivered' = {} /\ dropped' = {}
  BY DEF Queue!Spoil, Queue!Delivered
<1>2. Queue!TypeOK'
  <2>1. <<>> \in Seq(Reply)
    OBVIOUS
  <2> QED BY <2>1 DEF Queue!Spoil, Queue!TypeOK
<1> QED BY <1>1, <1>2 DEF QueueInv, QueuedOnce, HandledInTurn, OnlyQueued

LEMMA QueueEnqueue ==
  ASSUME QueueInv, NEW e \in Reply, Queue!Enqueue(e)
  PROVE  QueueInv'
<1> USE DEF QueueInv
<1>1. /\ queue \in Seq(Reply) /\ Len(queue) \in Nat
      /\ \A i \in 1 .. Len(queue) : queue[i] # e
      /\ queue' = Append(queue, e) /\ UNCHANGED <<out, dropped, spoilt>>
  BY DEF Queue!TypeOK, Queue!Enqueue
<1>2. /\ queue' \in Seq(Reply) /\ Len(queue') = Len(queue) + 1
      /\ \A i \in 1 .. Len(queue) : queue'[i] = queue[i]
      /\ queue'[Len(queue) + 1] = e
  BY <1>1, AppendProperties
<1>3. Queue!Delivered' = Queue!Delivered
  BY <1>1 DEF Queue!Delivered
<1>4. Queue!TypeOK'
  BY <1>1, <1>2 DEF Queue!TypeOK
<1>5. QueuedOnce'
  BY <1>1, <1>2 DEF QueuedOnce
<1>6. OnlyQueued'
  BY <1>1, <1>2, <1>3 DEF OnlyQueued
<1>7. HandledInTurn'
  <2> SUFFICES ASSUME NEW i \in 1 .. Len(queue'), queue'[i] \in Queue!Delivered \cup dropped,
                      NEW j \in 1 .. (i - 1)
               PROVE  queue'[j] \in Queue!Delivered \cup dropped
    BY <1>1, <1>3 DEF HandledInTurn, Queue!TurnOf
  <2>1. i \in 1 .. Len(queue)
    BY <1>1, <1>2 DEF OnlyQueued
  <2>2. queue[i] \in Queue!Delivered \cup dropped /\ j \in 1 .. Len(queue)
    BY <1>1, <1>2, <2>1
  <2> QED BY <1>2, <2>1, <2>2 DEF HandledInTurn, Queue!TurnOf
<1> QED BY <1>4, <1>5, <1>6, <1>7

(* A delivery and a drop alike handle the i-th reply in its turn.           *)
LEMMA QueueHandles ==
  ASSUME QueueInv, NEW i \in 1 .. Len(queue), Queue!TurnOf(i), Queue!TypeOK', queue' = queue,
         (Queue!Delivered \cup dropped)' = Queue!Delivered \cup dropped \cup {queue[i]}
  PROVE  QueueInv'
<1> USE DEF QueueInv
<1>1. QueuedOnce' /\ OnlyQueued'
  BY DEF QueuedOnce, OnlyQueued
<1>2. HandledInTurn'
  BY DEF HandledInTurn, Queue!TurnOf, QueuedOnce
<1> QED BY <1>1, <1>2

LEMMA QueueStep ==
  ASSUME QueueInv, [Queue!Next]_(Queue!vars)
  PROVE  QueueInv'
<1>1. CASE UNCHANGED Queue!vars
  <2>1. UNCHANGED <<queue, out, dropped, spoilt>> /\ Queue!Delivered' = Queue!Delivered
    BY <1>1 DEF Queue!vars, Queue!Delivered
  <2>2. Queue!TypeOK'
    BY <2>1 DEF QueueInv, Queue!TypeOK
  <2>3. QueuedOnce' /\ OnlyQueued'
    BY <2>1 DEF QueueInv, QueuedOnce, OnlyQueued
  <2>4. HandledInTurn'
    BY <2>1 DEF QueueInv, HandledInTurn, Queue!TurnOf
  <2> QED BY <2>2, <2>3, <2>4 DEF QueueInv
<1>2. CASE Queue!Spoil
  BY <1>2, QueueSpoil
<1>3. CASE \E e \in Reply : Queue!Enqueue(e)
  BY <1>3, QueueEnqueue
<1>4. CASE \E i \in 1 .. Len(queue) : Queue!Deliver(i)
  <2>1. PICK i \in 1 .. Len(queue) : Queue!Deliver(i)
    BY <1>4
  <2>2. queue[i] \in Reply /\ out \in Seq(Reply)
    BY DEF QueueInv, Queue!TypeOK
  <2>3. /\ out' \in Seq(Reply) /\ Len(out') = Len(out) + 1
        /\ \A k \in 1 .. Len(out) : out'[k] = out[k]
        /\ out'[Len(out) + 1] = queue[i]
    BY <2>1, <2>2, AppendProperties DEF Queue!Deliver
  <2>4. Queue!TypeOK'
    BY <2>1, <2>3 DEF Queue!Deliver, QueueInv, Queue!TypeOK
  <2>5. Queue!Delivered' = Queue!Delivered \cup {queue[i]}
    BY <2>2, <2>3 DEF Queue!Delivered
  <2> QED BY <2>1, <2>4, <2>5, QueueHandles DEF Queue!Deliver
<1>5. CASE \E i \in 1 .. Len(queue) : Queue!Drop(i)
  <2>1. PICK i \in 1 .. Len(queue) : Queue!Drop(i)
    BY <1>5
  <2>2. queue[i] \in Reply
    BY DEF QueueInv, Queue!TypeOK
  <2>3. Queue!TypeOK' /\ Queue!Delivered' = Queue!Delivered
    BY <2>1, <2>2 DEF Queue!Drop, QueueInv, Queue!TypeOK, Queue!Delivered
  <2> QED BY <2>1, <2>3, QueueHandles DEF Queue!Drop
<1> QED BY <1>1, <1>2, <1>3, <1>4, <1>5 DEF Queue!Next

(* No reply is passed over: behind a delivered reply everything was         *)
(* delivered or given up (the loop of drain_once, src/channel/drain.rs).    *)
THEOREM NonePassedOver == Queue!Spec => []Queue!NoneIsPassedOver
<1>1. Queue!Init => QueueInv
  BY QueueInit
<1>2. QueueInv /\ [Queue!Next]_(Queue!vars) => QueueInv'
  BY QueueStep
<1>3. QueueInv => Queue!NoneIsPassedOver
  BY DEF QueueInv, HandledInTurn, Queue!NoneIsPassedOver
<1> QED BY <1>1, <1>2, <1>3, PTL DEF Queue!Spec
=============================================================================
