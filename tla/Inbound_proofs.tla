---------------------------- MODULE Inbound_proofs ----------------------------
(***************************************************************************)
(* Theorems about Inbound, for any channels, messages and configurations.  *)
(***************************************************************************)
EXTENDS Inbound, FiniteSetTheorems, SequenceTheorems, TLAPS

Chan(m) == Sent[m].channel
Now(ch) == poller[ch].now

LEMMA MessageFacts ==
  ASSUME NEW m \in Messages
  PROVE  /\ Chan(m) \in Channels /\ m \in Of(Chan(m))
         /\ Sent[m].time \in Nat /\ Sent[m].rank \in Nat
         /\ \A now \in Nat : Time(m, now) \in Nat
BY SentAssumption DEF Chan, Of, Time

LEMMA OfFacts ==
  ASSUME NEW ch \in Channels, NEW m \in Of(ch)
  PROVE  m \in Messages /\ Chan(m) = ch
BY DEF Of, Chan

(* A sorted batch is a sequence that holds each message of the set once.    *)
LEMMA SortedIsABatch ==
  ASSUME NEW M \in SUBSET Messages, NEW s \in Sorted(M)
  PROVE  /\ s \in Seq(Messages) /\ Len(s) \in Nat /\ DOMAIN s = 1 .. Len(s)
         /\ \A i \in 1 .. Len(s) : s[i] \in M
         /\ \A m \in M : \E i \in 1 .. Len(s) : s[i] = m
         /\ \A i, j \in 1 .. Len(s) : i < j => Precedes(s[i], s[j])
<1> DEFINE n == Cardinality(M)
<1>1. IsFiniteSet(M) /\ n \in Nat
  BY MessagesAssumption, FS_Subset, FS_CardinalityType
<1> HIDE DEF n
<1>2. /\ s \in [1 .. n -> M]
      /\ \A i, j \in 1 .. n : i < j => s[i] # s[j] /\ Precedes(s[i], s[j])
  BY DEF Sorted, n
<1>3. s \in [1 .. n -> Messages]
  BY <1>2
<1>4. s \in Seq(Messages) /\ Len(s) = n /\ DOMAIN s = 1 .. n
  BY <1>1, <1>2, <1>3, SeqDef, LenProperties
<1>5. \A m \in M : \E i \in 1 .. n : s[i] = m
  <2>1. \A i, j \in 1 .. n : s[i] = s[j] => i = j
    <3> SUFFICES ASSUME NEW i \in 1 .. n, NEW j \in 1 .. n, i < j, s[i] = s[j] PROVE FALSE
      BY <1>1
    <3> QED BY <1>2
  <2>2. s \in Injection(1 .. n, M)
    BY <1>2, <2>1 DEF Injection, IsInjective
  <2>3. Cardinality(1 .. n) = Cardinality(M)
    BY <1>1, FS_Interval DEF n
  <2>4. s \in Surjection(1 .. n, M)
    BY <1>1, <2>2, <2>3, FS_Injection
  <2> QED BY <2>4 DEF Surjection
<1> QED BY <1>1, <1>2, <1>4, <1>5

------------------------------------------------------------------------------
(* The type invariant, with what a poller at work has before it.            *)

Working(ch) == poller[ch].pc \in {"work", "decided"}

Batch(ch) == poller[ch].batch
BatchFits(ch) ==
  /\ ~Working(ch) => Batch(ch) = <<>>
  /\ poller[ch].pc = "decided" => Batch(ch) # <<>> /\ decided[Head1(ch)] > 0
  /\ \A i \in 1 .. Len(Batch(ch)) : Batch(ch)[i] \in arrived /\ Batch(ch)[i] \in Of(ch)
  /\ \A i, j \in 1 .. Len(Batch(ch)) : i < j => Precedes(Batch(ch)[i], Batch(ch)[j])
  /\ \A i \in 1 .. Len(Batch(ch)) : ~AtOrBefore(Batch(ch)[i], State(ch)[ch])
  /\ Working(ch) => State(ch)[ch].time <= Now(ch)
  /\ \A i \in 1 .. Len(Batch(ch)) : /\ Sent[Batch(ch)[i]].time <= Now(ch)
                                    /\ Dated(Batch(ch)[i]) \/ Now(ch) <= read[ch]

(* No cursor is ahead of the clock, nor is a message that arrived.          *)
Past(state) == \A ch \in Channels : state[ch].time <= clock
TimesFit ==
  /\ \A m \in arrived : Sent[m].time < clock
  /\ Past(saved)
  /\ \A ch \in Channels : Past(State(ch)) /\ Now(ch) <= clock /\ read[ch] <= clock

TypeInv == InboundTypeOK /\ TimesFit /\ \A ch \in Channels : BatchFits(ch)

LEMMA CursorFacts ==
  ASSUME NEW cur \in Cursor, NEW m \in Messages, NEW now \in Nat
  PROVE  /\ SetCursor(cur, m, now) \in Cursor
         /\ SetCursor(cur, m, now).time = Time(m, now)
BY MessageFacts DEF SetCursor, Cursor

LEMMA StateType ==
  ASSUME InboundTypeOK, NEW ch \in Channels
  PROVE  /\ poller[ch] \in Poller
         /\ Now(ch) \in Nat /\ read[ch] \in Nat /\ clock \in Nat
         /\ State(ch) \in PollState /\ poller[ch].batch \in Seq(Messages)
         /\ Len(poller[ch].batch) \in Nat
         /\ saved \in PollState
         /\ \A c \in Channels : State(ch)[c] \in Cursor /\ saved[c] \in Cursor
         /\ \A i \in 1 .. Len(poller[ch].batch) : poller[ch].batch[i] \in Messages
BY DEF InboundTypeOK, Poller, PollState, State, Now

(* The cursor after a message, for one that sorts behind it.                *)
LEMMA CursorMoves ==
  ASSUME NEW cur \in Cursor, NEW m \in Messages, NEW k \in Messages, NEW now \in Nat,
         ~AtOrBefore(m, cur), cur.time <= now
  PROVE  /\ Dated(m) => AtOrBefore(m, SetCursor(cur, m, now))
         /\ AtOrBefore(k, cur) => AtOrBefore(k, SetCursor(cur, m, now))
         /\ ~AtOrBefore(k, cur) /\ Precedes(m, k) => ~AtOrBefore(k, SetCursor(cur, m, now))
         /\ AtOrBefore(k, SetCursor(cur, m, now)) =>
              AtOrBefore(k, cur) \/ k = m \/ Sent[k].time < Time(m, now)
<1>1. /\ Sent[m].time \in Nat /\ Sent[k].time \in Nat /\ cur.time \in Nat
      /\ cur.time <= Time(m, now) /\ Time(m, now) \in Nat
      /\ Dated(m) => Time(m, now) = Sent[m].time
  BY MessageFacts DEF Time, AtOrBefore, Dated, Cursor
<1>2. /\ SetCursor(cur, m, now).time = Time(m, now)
      /\ SetCursor(cur, m, now).ids = IF cur.time = Time(m, now) THEN cur.ids \cup {m} ELSE {m}
  BY <1>1 DEF SetCursor
<1> HIDE DEF SetCursor, Time
<1>3. Dated(m) => AtOrBefore(m, SetCursor(cur, m, now))
  BY <1>1, <1>2 DEF AtOrBefore
<1>4. AtOrBefore(k, cur) => AtOrBefore(k, SetCursor(cur, m, now))
  BY <1>1, <1>2 DEF AtOrBefore
<1>5. AtOrBefore(k, SetCursor(cur, m, now)) =>
        AtOrBefore(k, cur) \/ k = m \/ Sent[k].time < Time(m, now)
  BY <1>1, <1>2 DEF AtOrBefore
<1>6. ~AtOrBefore(k, cur) /\ Precedes(m, k) => ~AtOrBefore(k, SetCursor(cur, m, now))
  <2> SUFFICES ASSUME ~AtOrBefore(k, cur), Precedes(m, k), Dated(k)
               PROVE  ~AtOrBefore(k, SetCursor(cur, m, now))
    BY DEF AtOrBefore
  <2>1. Dated(m) /\ Sent[m].rank \in Nat /\ Time(m, now) = Sent[m].time /\ Sent[m].time <= Sent[k].time
    BY <1>1, MessageFacts DEF Precedes
  <2>2. CASE k = m
    BY <1>1, <2>1, <2>2 DEF Precedes
  <2>3. CASE k # m
    BY <1>1, <1>5, <2>1, <2>3
  <2> QED BY <2>2, <2>3
<1> QED BY <1>3, <1>4, <1>5, <1>6

LEMMA RestingType ==
  ASSUME NEW c \in Config
  PROVE  Resting(c) \in Poller /\ Resting(c).batch = <<>> /\ Resting(c).pc = "idle"
<1>1. [ch \in Channels |-> NoCursor] \in PollState
  BY DEF PollState, Cursor, NoCursor
<1>2. <<>> \in Seq(Messages)
  OBVIOUS
<1> QED BY <1>1, <1>2 DEF Resting, Poller

LEMMA TypeInit == InboundInit => TypeInv
<1> SUFFICES ASSUME InboundInit PROVE TypeInv
  OBVIOUS
<1>1. config \in poll.configs /\ poll \in Polls /\ config \in Config
  BY PollAssumption DEF InboundInit
<1>2. poller = [ch \in Channels |-> Resting(config)] /\ Resting(config) \in Poller
  BY <1>1, RestingType DEF InboundInit
<1>3. saved \in PollState
  BY DEF InboundInit, PollState, Cursor, NoCursor
<1>4. decision \in [Messages -> Decisions]
  BY DEF InboundInit, Decisions, Reply
<1>5. poll.deaths \in Nat /\ poll.from \in Nat
  BY <1>1, PollAssumption
<1>6. InboundTypeOK
  BY <1>1, <1>2, <1>3, <1>4, <1>5 DEF InboundInit, InboundTypeOK
<1>8. TimesFit
  <2>1. Resting(config).now = 0 /\ \A ch \in Channels : Resting(config).state[ch].time = 0
    BY DEF Resting, NoCursor
  <2>2. clock \in Nat /\ \A ch \in Channels : saved[ch].time = 0 /\ read[ch] = 0
    BY <1>6 DEF InboundInit, InboundTypeOK, NoCursor
  <2> QED BY <1>2, <2>1, <2>2 DEF InboundInit, TimesFit, Past, State, Now
<1>7. \A ch \in Channels : BatchFits(ch)
  <2>1. \A ch \in Channels : poller[ch].batch = <<>> /\ poller[ch].pc = "idle"
    BY <1>1, <1>2, RestingType
  <2> QED BY <2>1 DEF BatchFits, Batch, Working
<1> QED BY <1>6, <1>7, <1>8 DEF TypeInv

(* A poller that does not move, while messages arrive and are decided.      *)
LEMMA OthersFit ==
  ASSUME TypeInv, NEW c \in Channels, poller'[c] = poller[c], read'[c] = read[c],
         arrived \subseteq arrived',
         \A m \in Messages : decided[m] > 0 => decided'[m] > 0
  PROVE  BatchFits(c)'
<1>1. \A i \in 1 .. Len(Batch(c)) : Batch(c)[i] \in Messages
  BY StateType DEF TypeInv, Batch
<1>2. Batch(c) # <<>> => Head1(c) \in Messages
  <2> SUFFICES ASSUME Batch(c) # <<>> PROVE Head1(c) \in Messages
    OBVIOUS
  <2>1. Len(Batch(c)) > 0
    BY StateType DEF TypeInv, Batch
  <2> QED BY <1>1, <2>1, StateType DEF TypeInv, Batch, Head1
<1>3. /\ Batch(c)' = Batch(c) /\ State(c)' = State(c) /\ Head1(c)' = Head1(c) /\ Working(c)' = Working(c)
      /\ Now(c)' = Now(c)
  BY DEF Batch, State, Head1, Working, Now
<1> QED BY <1>1, <1>2, <1>3 DEF TypeInv, BatchFits, AtOrBefore, Precedes, Dated

(* What every step of a poller does to `poller`.                            *)
LEMMA PollerMoves ==
  ASSUME InboundTypeOK, NEW ch \in Channels, NEW r \in Poller, SetPoller(ch, r)
  PROVE  /\ poller' \in [Channels -> Poller] /\ poller'[ch] = r
         /\ \A c \in Channels \ {ch} : poller'[c] = poller[c]
BY DEF InboundTypeOK, SetPoller

LEMMA HeadFacts ==
  ASSUME TypeInv, NEW ch \in Channels, Batch(ch) # <<>>
  PROVE  /\ Len(Batch(ch)) \in Nat \ {0}
         /\ Head1(ch) \in Messages /\ Head1(ch) \in arrived /\ Head1(ch) \in Of(ch)
         /\ Chan(Head1(ch)) = ch
         /\ ~AtOrBefore(Head1(ch), State(ch)[ch])
<1>1. Len(Batch(ch)) \in Nat /\ Len(Batch(ch)) > 0
  BY StateType DEF TypeInv, Batch
<1>2. Batch(ch)[1] \in Messages /\ Head1(ch) = Batch(ch)[1]
  BY <1>1, StateType DEF TypeInv, Batch, Head1
<1> QED BY <1>1, <1>2, OfFacts DEF TypeInv, BatchFits

LEMMA ConfigType ==
  ASSUME InboundTypeOK
  PROVE  config \in Config /\ poll.deaths \in Nat /\ poll.window \in Nat
BY PollAssumption DEF InboundTypeOK

LEMMA TypeArrive ==
  ASSUME TypeInv, NEW m \in Messages, Arrive(m)
  PROVE  InboundTypeOK' /\ \A c \in Channels : BatchFits(c)'
<1>1. poll.messages \subseteq Messages
  BY PollAssumption DEF TypeInv, InboundTypeOK
<1>2. InboundTypeOK'
  BY <1>1 DEF TypeInv, InboundTypeOK, Arrive
<1>3. \A c \in Channels : BatchFits(c)'
  BY OthersFit DEF Arrive
<1> QED BY <1>2, <1>3 DEF TypeInv

LEMMA TypeEdit ==
  ASSUME TypeInv, Edit
  PROVE  InboundTypeOK' /\ \A c \in Channels : BatchFits(c)'
<1>1. InboundTypeOK'
  BY DEF TypeInv, InboundTypeOK, Edit
<1>2. \A c \in Channels : BatchFits(c)'
  BY OthersFit DEF Edit
<1> QED BY <1>1, <1>2 DEF TypeInv

(* The steps after which a poller has no batch.                             *)
LEMMA TypeUnbatched ==
  ASSUME TypeInv, NEW ch \in Channels, NEW r \in Poller, SetPoller(ch, r),
         r.batch = <<>>, r.pc \in {"idle", "history", "ended"},
         deaths' \in [Channels -> 0 .. poll.deaths],
         UNCHANGED <<poll, clock, arrived, config, saved, decided, decision, read, late, pushed,
                     rolled>>
  PROVE  InboundTypeOK' /\ \A c \in Channels : BatchFits(c)'
<1>1. poller' \in [Channels -> Poller] /\ poller'[ch] = r
  BY PollerMoves DEF TypeInv
<1>2. InboundTypeOK'
  BY <1>1 DEF TypeInv, InboundTypeOK
<1>3. \A c \in Channels \ {ch} : BatchFits(c)'
  BY PollerMoves, OthersFit DEF TypeInv
<1>4. BatchFits(ch)'
  BY <1>1 DEF BatchFits, Batch, Working
<1> QED BY <1>2, <1>3, <1>4 DEF TypeInv

LEMMA TypeLoadState ==
  ASSUME TypeInv, NEW ch \in Channels, LoadState(ch)
  PROVE  InboundTypeOK' /\ \A c \in Channels : BatchFits(c)'
<1> DEFINE r == [poller[ch] EXCEPT !.pc = "history", !.state = saved]
<1>1. r \in Poller /\ r.pc = "history" /\ r.batch = poller[ch].batch
  BY StateType DEF TypeInv, Poller
<1>2. poller[ch].batch = <<>>
  BY DEF TypeInv, BatchFits, Batch, Working, LoadState
<1>3. SetPoller(ch, r) /\ deaths' \in [Channels -> 0 .. poll.deaths]
  BY DEF LoadState, TypeInv, InboundTypeOK
<1> HIDE DEF r
<1> QED BY <1>1, <1>2, <1>3, TypeUnbatched DEF LoadState

LEMMA TypeRests ==
  ASSUME TypeInv, NEW ch \in Channels, Refused(ch) \/ PollEnds(ch) \/ PollerDies(ch) \/ StartAgain(ch)
  PROVE  InboundTypeOK' /\ \A c \in Channels : BatchFits(c)'
<1>1. poller[ch].config \in Config
  BY StateType DEF TypeInv, Poller
<1> DEFINE r == [Rest(ch) EXCEPT !.pc = "ended"]
<1>2. Rest(ch) \in Poller /\ Rest(ch).batch = <<>> /\ Rest(ch).pc = "idle"
  BY <1>1, RestingType DEF Rest
<1>3. r \in Poller /\ r.batch = <<>> /\ r.pc = "ended"
  BY <1>2 DEF Poller
<1>4. Resting(config) \in Poller /\ Resting(config).batch = <<>> /\ Resting(config).pc = "idle"
  BY ConfigType, RestingType DEF TypeInv
<1>5. deaths \in [Channels -> 0 .. poll.deaths]
  BY DEF TypeInv, InboundTypeOK
<1> HIDE DEF r
<1>6. CASE Refused(ch)
  <2>1. SetPoller(ch, r) /\ deaths' = deaths
    BY <1>6 DEF Refused, r
  <2> QED BY <1>3, <1>5, <1>6, <2>1, TypeUnbatched DEF Refused
<1>7. CASE PollEnds(ch)
  BY <1>2, <1>5, <1>7, TypeUnbatched DEF PollEnds
<1>8. CASE PollerDies(ch)
  <2>1. SetPoller(ch, r)
    BY <1>8 DEF PollerDies, r
  <2>2. deaths' \in [Channels -> 0 .. poll.deaths]
    BY <1>5, <1>8, ConfigType DEF PollerDies, TypeInv
  <2> QED BY <1>3, <1>8, <2>1, <2>2, TypeUnbatched DEF PollerDies
<1>9. CASE StartAgain(ch)
  BY <1>4, <1>5, <1>9, TypeUnbatched DEF StartAgain
<1> QED BY <1>6, <1>7, <1>8, <1>9

(* The batch a poller takes: its messages are of its channel, in order, and *)
(* none is at or before the cursor it loaded.                               *)
LEMMA HistoryTakes ==
  ASSUME TypeInv, NEW ch \in Channels, History(ch)
  PROVE  \E W \in Windows(arrived \cap Of(ch)), s \in Seq(Messages) :
           /\ s \in Sorted({m \in W : ~AtOrBefore(m, State(ch)[ch])})
           /\ SetPoller(ch, [poller[ch] EXCEPT !.pc = "work", !.now = clock, !.batch = s])
           /\ read' = [read EXCEPT ![ch] = IF \A m \in W : Dated(m) THEN @ ELSE clock]
           /\ pushed' = pushed \cup {m \in (arrived \cap Of(ch)) \ W : ~AtOrBefore(m, State(ch)[ch])}
<1>1. PICK W \in Windows(arrived \cap Of(ch)) :
        LET unseen(M) == {m \in M : ~AtOrBefore(m, State(ch)[ch])}
        IN  /\ \E s \in Sorted(unseen(W)) :
                 SetPoller(ch, [poller[ch] EXCEPT !.pc = "work", !.now = clock, !.batch = s])
            /\ read' = [read EXCEPT ![ch] = IF \A m \in W : Dated(m) THEN @ ELSE clock]
            /\ pushed' = pushed \cup unseen((arrived \cap Of(ch)) \ W)
  BY DEF History
<1> DEFINE U == {m \in W : ~AtOrBefore(m, State(ch)[ch])}
<1>2. PICK s \in Sorted(U) :
        SetPoller(ch, [poller[ch] EXCEPT !.pc = "work", !.now = clock, !.batch = s])
  BY <1>1
<1>3. U \in SUBSET Messages
  BY DEF Windows, Of
<1>4. s \in Seq(Messages)
  BY <1>2, <1>3, SortedIsABatch
<1> QED BY <1>1, <1>2, <1>4

LEMMA TypeHistory ==
  ASSUME TypeInv, NEW ch \in Channels, History(ch)
  PROVE  InboundTypeOK' /\ \A c \in Channels : BatchFits(c)'
<1>1. PICK W \in Windows(arrived \cap Of(ch)), s \in Seq(Messages) :
        /\ s \in Sorted({m \in W : ~AtOrBefore(m, State(ch)[ch])})
        /\ SetPoller(ch, [poller[ch] EXCEPT !.pc = "work", !.now = clock, !.batch = s])
        /\ read' = [read EXCEPT ![ch] = IF \A m \in W : Dated(m) THEN @ ELSE clock]
        /\ pushed' = pushed \cup {m \in (arrived \cap Of(ch)) \ W : ~AtOrBefore(m, State(ch)[ch])}
  BY HistoryTakes
<1> DEFINE U == {m \in W : ~AtOrBefore(m, State(ch)[ch])}
           r == [poller[ch] EXCEPT !.pc = "work", !.now = clock, !.batch = s]
<1>2. W \subseteq arrived \cap Of(ch) /\ U \in SUBSET Messages /\ U \subseteq arrived \cap Of(ch)
  BY DEF Windows, Of
<1>3. r \in Poller /\ r.pc = "work" /\ r.batch = s /\ r.state = State(ch) /\ r.now = clock
  BY StateType DEF TypeInv, Poller, State
<1>4. /\ Len(s) \in Nat
      /\ \A i \in 1 .. Len(s) : s[i] \in U
      /\ \A i, j \in 1 .. Len(s) : i < j => Precedes(s[i], s[j])
  BY <1>1, <1>2, SortedIsABatch
<1>5. SetPoller(ch, r)
  BY <1>1
<1> HIDE DEF r
<1>6. poller' \in [Channels -> Poller] /\ poller'[ch] = r /\ \A c \in Channels \ {ch} : poller'[c] = poller[c]
  BY <1>3, <1>5, PollerMoves DEF TypeInv
<1>7. pushed' \subseteq arrived /\ read' \in [Channels -> Nat]
  BY <1>1 DEF TypeInv, InboundTypeOK
<1>8. InboundTypeOK'
  BY <1>6, <1>7 DEF TypeInv, InboundTypeOK, History
<1>9. \A c \in Channels \ {ch} : BatchFits(c)'
  BY <1>6, OthersFit DEF History
<1>10. BatchFits(ch)'
  <2>1. /\ Batch(ch)' = s /\ State(ch)' = State(ch) /\ Working(ch)' /\ poller'[ch].pc = "work"
        /\ Now(ch)' = clock
    BY <1>3, <1>6 DEF Batch, State, Working, Now
  <2>2. \A i \in 1 .. Len(s) : s[i] \in arrived' /\ s[i] \in Of(ch) /\ ~AtOrBefore(s[i], State(ch)[ch])
    BY <1>2, <1>4 DEF History
  <2>3. \A i \in 1 .. Len(s) : ~AtOrBefore(s[i], State(ch)'[ch])
    BY <2>1, <2>2
  <2>4. \A i \in 1 .. Len(s) : Sent[s[i]].time <= clock
    <3>1. \A m \in arrived : Sent[m].time < clock /\ Sent[m].time \in Nat
      BY MessageFacts DEF TypeInv, InboundTypeOK, TimesFit
    <3>2. clock \in Nat
      BY DEF TypeInv, InboundTypeOK
    <3>3. \A m \in arrived : Sent[m].time <= clock
      BY <3>1, <3>2
    <3> QED BY <1>2, <1>4, <3>3
  <2>5. \A i \in 1 .. Len(s) : ~Dated(s[i]) => clock <= read'[ch]
    BY <1>1, <1>4, StateType DEF TypeInv, InboundTypeOK
  <2>6. State(ch)[ch].time <= clock
    BY DEF TypeInv, TimesFit, Past
  <2> QED BY <1>4, <2>1, <2>2, <2>3, <2>4, <2>5, <2>6 DEF BatchFits, Precedes, AtOrBefore, Dated
<1> QED BY <1>8, <1>9, <1>10 DEF TypeInv

LEMMA RouteType ==
  ASSUME NEW m \in Messages, NEW c \in Config
  PROVE  Route(m, c) \in Decisions
BY SentAssumption DEF Route, Reply, Dispatch, Decisions, Verbs, Config

LEMMA TypeDecide ==
  ASSUME TypeInv, NEW ch \in Channels, Decide(ch)
  PROVE  InboundTypeOK' /\ \A c \in Channels : BatchFits(c)'
<1> DEFINE r == [poller[ch] EXCEPT !.pc = "decided"]
<1>1. Batch(ch) # <<>> /\ Batch(ch) = poller[ch].batch
  BY DEF Decide, Batch
<1>2. /\ r \in Poller /\ r.pc = "decided" /\ r.batch = Batch(ch) /\ r.state = State(ch) /\ SetPoller(ch, r)
      /\ r.now = Now(ch)
  BY StateType DEF TypeInv, Poller, State, Batch, Decide, Now
<1> HIDE DEF r
<1>3. poller' \in [Channels -> Poller] /\ poller'[ch] = r /\ \A c \in Channels \ {ch} : poller'[c] = poller[c]
  BY <1>2, PollerMoves DEF TypeInv
<1>4. Head1(ch) \in Messages /\ decided \in [Messages -> Nat]
  BY <1>1, HeadFacts DEF TypeInv, InboundTypeOK
<1>5. /\ decided' \in [Messages -> Nat]
      /\ \A m \in Messages : decided[m] > 0 => decided'[m] > 0
      /\ decided'[Head1(ch)] > 0
  BY <1>4 DEF Decide
<1>6. decision' \in [Messages -> Decisions]
  BY <1>4, RouteType, StateType DEF Decide, TypeInv, InboundTypeOK, Poller
<1>7. InboundTypeOK'
  BY <1>3, <1>5, <1>6 DEF TypeInv, InboundTypeOK, Decide
<1>8. \A c \in Channels \ {ch} : BatchFits(c)'
  BY <1>3, <1>5, OthersFit DEF Decide
<1>9. BatchFits(ch)'
  <2>1. /\ Batch(ch)' = Batch(ch) /\ State(ch)' = State(ch) /\ Working(ch)' /\ Head1(ch)' = Head1(ch)
        /\ arrived' = arrived /\ Now(ch)' = Now(ch) /\ read' = read /\ Working(ch)
    BY <1>2, <1>3 DEF Batch, State, Working, Head1, Decide, Now
  <2>2. (\A i, j \in 1 .. Len(Batch(ch)) : i < j => Precedes(Batch(ch)[i], Batch(ch)[j]))'
    BY <2>1 DEF TypeInv, BatchFits, Precedes, Dated
  <2>3. (\A i \in 1 .. Len(Batch(ch)) : ~AtOrBefore(Batch(ch)[i], State(ch)[ch]))'
    BY <2>1 DEF TypeInv, BatchFits, AtOrBefore, Dated
  <2>4. (\A i \in 1 .. Len(Batch(ch)) : /\ Sent[Batch(ch)[i]].time <= Now(ch)
                                        /\ Dated(Batch(ch)[i]) \/ Now(ch) <= read[ch])'
    BY <2>1 DEF TypeInv, BatchFits, Dated
  <2> QED BY <1>1, <1>5, <2>1, <2>2, <2>3, <2>4 DEF TypeInv, BatchFits
<1> QED BY <1>7, <1>8, <1>9 DEF TypeInv

(* What a save writes.                                                      *)
LEMMA SaveFacts ==
  ASSUME TypeInv, NEW ch \in Channels, SaveState(ch)
  PROVE  /\ Batch(ch) # <<>> /\ Len(Batch(ch)) \in Nat \ {0}
         /\ saved' \in PollState /\ State(ch)' = saved'
         /\ saved'[ch] = SetCursor(State(ch)[ch], Head1(ch), Now(ch)) /\ Now(ch)' = Now(ch)
         /\ \A c \in Channels \ {ch} : saved'[c] = State(ch)[c] /\ poller'[c] = poller[c]
         /\ poller' \in [Channels -> Poller] /\ poller'[ch].pc = "work"
         /\ Batch(ch)' \in Seq(Messages) /\ Len(Batch(ch)') = Len(Batch(ch)) - 1
         /\ \A i \in 1 .. Len(Batch(ch)') : Batch(ch)'[i] = Batch(ch)[i + 1]
<1> DEFINE state == [State(ch) EXCEPT ![ch] = SetCursor(@, Head1(ch), Now(ch))]
           r == [poller[ch] EXCEPT !.pc = "work", !.state = state, !.batch = Tail(@)]
<1>1. Batch(ch) # <<>> /\ Batch(ch) \in Seq(Messages) /\ Batch(ch) = poller[ch].batch
  BY StateType DEF TypeInv, BatchFits, SaveState, Batch
<1>2. State(ch) \in PollState /\ SetCursor(State(ch)[ch], Head1(ch), Now(ch)) \in Cursor
  BY <1>1, HeadFacts, StateType, CursorFacts DEF TypeInv
<1>3. /\ state \in PollState /\ state[ch] = SetCursor(State(ch)[ch], Head1(ch), Now(ch))
      /\ \A c \in Channels \ {ch} : state[c] = State(ch)[c]
  BY <1>2 DEF PollState
<1>4. saved' = state /\ SetPoller(ch, r)
  BY DEF SaveState, Now
<1> HIDE DEF state
<1>5. Tail(Batch(ch)) \in Seq(Messages) /\ Len(Tail(Batch(ch))) = Len(Batch(ch)) - 1
      /\ \A i \in 1 .. Len(Tail(Batch(ch))) : Tail(Batch(ch))[i] = Batch(ch)[i + 1]
  BY <1>1, HeadTailProperties
<1>6. r \in Poller /\ r.pc = "work" /\ r.state = state /\ r.batch = Tail(Batch(ch)) /\ r.now = Now(ch)
  BY <1>1, <1>3, <1>5, StateType DEF TypeInv, Poller, Now
<1> HIDE DEF r
<1>7. poller' \in [Channels -> Poller] /\ poller'[ch] = r /\ \A c \in Channels \ {ch} : poller'[c] = poller[c]
  BY <1>4, <1>6, PollerMoves DEF TypeInv
<1>8. Batch(ch)' = Tail(Batch(ch)) /\ State(ch)' = state /\ Now(ch)' = Now(ch)
  BY <1>6, <1>7 DEF Batch, State, Now
<1> QED BY <1>1, <1>3, <1>4, <1>5, <1>6, <1>7, <1>8, HeadFacts

LEMMA TypeSaveState ==
  ASSUME TypeInv, NEW ch \in Channels, SaveState(ch)
  PROVE  InboundTypeOK' /\ \A c \in Channels : BatchFits(c)'
<1>1. rolled' \in [Channels -> Nat]
  BY DEF SaveState, TypeInv, InboundTypeOK
<1>2. InboundTypeOK'
  BY <1>1, SaveFacts DEF TypeInv, InboundTypeOK, SaveState
<1>3. \A c \in Channels \ {ch} : BatchFits(c)'
  BY SaveFacts, OthersFit DEF SaveState
<1>4. BatchFits(ch)'
  <2> DEFINE b == Batch(ch)
             t == Batch(ch)'
  <2>0. Working(ch)
    BY DEF SaveState, Working
  <2>1. arrived' = arrived /\ read' = read /\ Now(ch)' = Now(ch) /\ Working(ch)' /\ poller'[ch].pc = "work"
    BY SaveFacts DEF SaveState, Working
  <2>2. /\ Len(b) \in Nat \ {0} /\ Len(t) = Len(b) - 1
        /\ \A i \in 1 .. Len(t) : t[i] = b[i + 1]
    BY SaveFacts
  <2>3. \A i \in 1 .. Len(b) : b[i] \in Messages
    BY StateType DEF TypeInv, Batch
  <2>4. \A i \in 1 .. Len(t) : t[i] \in arrived /\ t[i] \in Of(ch)
    BY <2>2 DEF TypeInv, BatchFits
  <2>5. \A i, j \in 1 .. Len(t) : i < j => Precedes(t[i], t[j])
    BY <2>2 DEF TypeInv, BatchFits
  <2>6. \A i \in 1 .. Len(t) : ~AtOrBefore(t[i], SetCursor(State(ch)[ch], Head1(ch), Now(ch)))
    <3> SUFFICES ASSUME NEW i \in 1 .. Len(t)
                 PROVE  ~AtOrBefore(t[i], SetCursor(State(ch)[ch], Head1(ch), Now(ch)))
      OBVIOUS
    <3>1. t[i] = b[i + 1] /\ i + 1 \in 1 .. Len(b) /\ 1 \in 1 .. Len(b) /\ 1 < i + 1
      BY <2>2
    <3>2. Precedes(Head1(ch), t[i]) /\ ~AtOrBefore(t[i], State(ch)[ch])
      BY <3>1 DEF TypeInv, BatchFits, Head1, Batch
    <3>3. Head1(ch) \in Messages /\ ~AtOrBefore(Head1(ch), State(ch)[ch]) /\ State(ch)[ch] \in Cursor
      BY SaveFacts, HeadFacts, StateType DEF TypeInv
    <3>4. Now(ch) \in Nat /\ State(ch)[ch].time <= Now(ch)
      BY <2>0, StateType DEF TypeInv, BatchFits
    <3> QED BY <2>3, <3>1, <3>2, <3>3, <3>4, CursorMoves
  <2>7. State(ch)'[ch] = SetCursor(State(ch)[ch], Head1(ch), Now(ch))
    BY SaveFacts
  <2>8. \A i \in 1 .. Len(t) : ~AtOrBefore(t[i], State(ch)'[ch])
    BY <2>6, <2>7
  <2> HIDE DEF t, b
  <2>9. \A i \in 1 .. Len(Batch(ch)') : Batch(ch)'[i] \in arrived' /\ Batch(ch)'[i] \in Of(ch)
    BY <2>1, <2>4 DEF t
  <2>10. \A i, j \in 1 .. Len(Batch(ch)') : i < j => Precedes(Batch(ch)'[i], Batch(ch)'[j])
    BY <2>5 DEF t
  <2>11. \A i \in 1 .. Len(Batch(ch)') : ~AtOrBefore(Batch(ch)'[i], State(ch)'[ch])
    BY <2>8 DEF t
  <2>12. State(ch)'[ch].time <= Now(ch)
    <3>a. 1 \in 1 .. Len(Batch(ch)) /\ Head1(ch) = Batch(ch)[1]
      BY <2>2 DEF b, Head1, Batch
    <3>b. Sent[Head1(ch)].time <= Now(ch)
      BY <3>a DEF TypeInv, BatchFits
    <3>1. Head1(ch) \in Messages /\ Sent[Head1(ch)].time <= Now(ch) /\ Now(ch) \in Nat
      BY <3>b, SaveFacts, HeadFacts, StateType DEF TypeInv
    <3>2. SetCursor(State(ch)[ch], Head1(ch), Now(ch)).time = Time(Head1(ch), Now(ch))
      BY <3>1, StateType, CursorFacts DEF TypeInv
    <3> QED BY <2>7, <3>1, <3>2 DEF Time
  <2>13. \A i \in 1 .. Len(Batch(ch)') : /\ Sent[Batch(ch)'[i]].time <= Now(ch)
                                         /\ Dated(Batch(ch)'[i]) \/ Now(ch) <= read[ch]
    BY <2>2 DEF TypeInv, BatchFits, b, t
  <2> QED BY <2>1, <2>9, <2>10, <2>11, <2>12, <2>13 DEF BatchFits, Precedes, AtOrBefore, Dated
<1> QED BY <1>2, <1>3, <1>4 DEF TypeInv

(* The steps of a poller other than its save.                               *)
LEMMA OneMoves ==
  ASSUME TypeInv, NEW ch \in Channels, PollStep(ch) \/ PollerDies(ch), ~SaveState(ch)
  PROVE  /\ saved' = saved
         /\ \A c \in Channels \ {ch} : poller'[c] = poller[c]
         /\ \/ State(ch)' = State(ch) \/ State(ch)' = saved
            \/ \A d \in Channels : State(ch)'[d] = NoCursor
         /\ Now(ch)' \in {0, Now(ch), clock}
         /\ \/ History(ch)
            \/ Working(ch)' => /\ Working(ch) /\ Batch(ch)' = Batch(ch) /\ State(ch)' = State(ch)
                               /\ Now(ch)' = Now(ch)
<1> USE DEF State, Batch, Working, Now, SetPoller, TypeInv, InboundTypeOK
<1>1. CASE LoadState(ch)
  BY <1>1, StateType DEF LoadState, Poller
<1>2. CASE History(ch)
  <2>1. PICK s \in Seq(Messages) :
          SetPoller(ch, [poller[ch] EXCEPT !.pc = "work", !.now = clock, !.batch = s])
    BY <1>2, HistoryTakes
  <2> QED BY <1>2, <2>1, StateType DEF History, Poller
<1>3. CASE Decide(ch)
  BY <1>3, StateType DEF Decide, Poller
<1>4. CASE Refused(ch) \/ PollerDies(ch) \/ PollEnds(ch) \/ StartAgain(ch)
  <2>1. \E c \in {poller[ch].config, config}, pc \in {"idle", "ended"} :
          poller' = [poller EXCEPT ![ch] = [Resting(c) EXCEPT !.pc = pc]]
    BY <1>4 DEF Refused, PollerDies, PollEnds, StartAgain, Rest, Resting
  <2>2. saved' = saved
    BY <1>4 DEF Refused, PollerDies, PollEnds, StartAgain
  <2> QED BY <2>1, <2>2 DEF Resting
<1> QED BY <1>1, <1>2, <1>3, <1>4 DEF PollStep

(* Time moves forward only.                                                 *)
LEMMA TimesPoll ==
  ASSUME TypeInv, NEW ch \in Channels, PollStep(ch) \/ PollerDies(ch)
  PROVE  TimesFit'
<1>1. /\ clock' = clock /\ clock \in Nat /\ arrived' = arrived
      /\ read \in [Channels -> Nat]
      /\ read' = read \/ read' = [read EXCEPT ![ch] = clock]
  BY DEF TypeInv, InboundTypeOK, PollStep, PollerDies, LoadState, History, Decide, Refused,
     SaveState, PollEnds, StartAgain
<1>2. \A c \in Channels : read'[c] <= clock
  BY <1>1 DEF TypeInv, TimesFit
<1>3. \A c \in Channels : Past(State(c)) /\ Now(c) <= clock /\ Past(saved)
  BY DEF TypeInv, TimesFit
<1>4. \A st : (\A d \in Channels : st[d] = NoCursor) => Past(st)
  BY <1>1 DEF Past, NoCursor
<1>5. CASE SaveState(ch)
  <2>1. /\ Head1(ch) \in Messages /\ Sent[Head1(ch)].time < clock /\ Now(ch) \in Nat
        /\ State(ch)[ch] \in Cursor
    BY <1>5, SaveFacts, HeadFacts, StateType DEF TypeInv, TimesFit
  <2>2. saved'[ch].time = Time(Head1(ch), Now(ch))
    BY <1>5, <2>1, SaveFacts, CursorFacts
  <2>3. Time(Head1(ch), Now(ch)) <= clock
    BY <1>1, <1>3, <2>1, MessageFacts DEF Time
  <2>4. \A d \in Channels : saved'[d].time <= clock
    BY <1>3, <1>5, <2>2, <2>3, SaveFacts DEF Past
  <2>5. State(ch)' = saved' /\ Now(ch)' = Now(ch)
    BY <1>5, SaveFacts
  <2>6. \A c \in Channels \ {ch} : State(c)' = State(c) /\ Now(c)' = Now(c)
    BY <1>5, SaveFacts DEF State, Now
  <2>7. \A c \in Channels : Past(State(c))' /\ Now(c)' <= clock
    BY <1>1, <1>3, <2>4, <2>5, <2>6 DEF Past
  <2> QED BY <1>1, <1>2, <2>4, <2>7 DEF TypeInv, TimesFit, Past
<1>6. CASE ~SaveState(ch)
  <2>1. saved' = saved /\ \A c \in Channels \ {ch} : State(c)' = State(c) /\ Now(c)' = Now(c)
    BY <1>6, OneMoves DEF State, Now
  <2>2. Now(ch)' \in {0, Now(ch), clock}
    BY <1>6, OneMoves
  <2>3. Now(ch)' <= clock
    BY <1>1, <1>3, <2>2
  <2>4. \A d \in Channels : State(ch)'[d].time <= clock
    BY <1>3, <1>4, <1>6, OneMoves DEF Past
  <2>5. \A c \in Channels : Past(State(c))' /\ Now(c)' <= clock
    BY <1>1, <1>3, <2>1, <2>3, <2>4 DEF Past
  <2> QED BY <1>1, <1>2, <1>3, <2>1, <2>5 DEF TypeInv, TimesFit, Past
<1> QED BY <1>5, <1>6

LEMMA TimesStep ==
  ASSUME TypeInv, [InboundNext]_inboundVars
  PROVE  TimesFit'
<1>1. clock \in Nat /\ \A ch \in Channels : Now(ch) \in Nat /\ read[ch] \in Nat
  BY StateType DEF TypeInv, InboundTypeOK
<1>2. CASE \E ch \in Channels : PollStep(ch) \/ PollerDies(ch)
  BY <1>2, TimesPoll
<1>3. CASE UNCHANGED <<saved, poller, read>> /\ clock' \in {clock, clock + 1}
           /\ \A m \in arrived' : Sent[m].time < clock /\ Sent[m].time \in Nat
  <2>1. \A x \in Nat : x <= clock => x <= clock'
    BY <1>1, <1>3
  <2>2. /\ \A ch \in Channels : saved[ch].time \in Nat
        /\ \A c, ch \in Channels : State(c)[ch].time \in Nat
    BY StateType DEF TypeInv, Cursor
  <2>3. \A c \in Channels : State(c)' = State(c) /\ Now(c)' = Now(c)
    BY <1>3 DEF State, Now
  <2>4. Past(saved)' /\ \A c \in Channels : Past(State(c))'
    BY <1>3, <2>1, <2>2, <2>3 DEF Past, TypeInv, TimesFit
  <2>5. \A c \in Channels : Now(c)' <= clock' /\ read'[c] <= clock'
    BY <1>1, <1>3, <2>1, <2>3 DEF TypeInv, TimesFit
  <2>6. \A m \in arrived' : Sent[m].time < clock'
    BY <1>1, <1>3
  <2> QED BY <2>4, <2>5, <2>6 DEF TimesFit
<1>4. \A m \in Messages : Sent[m].time \in Nat
  BY MessageFacts
<1>5. CASE \E m \in Messages : Arrive(m)
  <2>1. UNCHANGED <<saved, poller, read, clock>>
    BY <1>5 DEF Arrive
  <2>2. \A m \in arrived' : Sent[m].time < clock /\ Sent[m].time \in Nat
    BY <1>4, <1>5 DEF Arrive, TypeInv, InboundTypeOK, TimesFit
  <2> QED BY <1>3, <2>1, <2>2
<1>6. CASE Edit \/ Tick \/ UNCHANGED inboundVars
  <2>1. UNCHANGED <<saved, poller, read, arrived>> /\ clock' \in {clock, clock + 1}
    BY <1>6 DEF Edit, Tick, inboundVars
  <2> QED BY <1>3, <1>4, <2>1 DEF TypeInv, InboundTypeOK, TimesFit
<1> QED BY <1>2, <1>5, <1>6 DEF InboundNext

LEMMA TypeStep ==
  ASSUME TypeInv, [InboundNext]_inboundVars
  PROVE  TypeInv'
<1>0. TimesFit'
  BY TimesStep
<1>1. CASE Tick \/ UNCHANGED inboundVars
  <2>1. clock' \in Nat
    BY <1>1 DEF TypeInv, InboundTypeOK, inboundVars, Tick
  <2>2. InboundTypeOK'
    BY <1>1, <2>1 DEF TypeInv, InboundTypeOK, inboundVars, Tick
  <2>3. \A c \in Channels : BatchFits(c)'
    BY <1>1, OthersFit DEF inboundVars, Tick
  <2> QED BY <1>0, <2>2, <2>3 DEF TypeInv
<1>2. CASE \E m \in Messages : Arrive(m)
  BY <1>0, <1>2, TypeArrive DEF TypeInv
<1>3. CASE Edit
  BY <1>0, <1>3, TypeEdit DEF TypeInv
<1>4. CASE \E ch \in Channels : PollStep(ch) \/ PollerDies(ch)
  <2>1. PICK ch \in Channels : PollStep(ch) \/ PollerDies(ch)
    BY <1>4
  <2>2. InboundTypeOK' /\ \A c \in Channels : BatchFits(c)'
    BY <2>1, TypeLoadState, TypeHistory, TypeDecide, TypeRests, TypeSaveState DEF PollStep
  <2> QED BY <1>0, <2>2 DEF TypeInv
<1> QED BY <1>1, <1>2, <1>3, <1>4 DEF InboundNext

(* Every poller and every cursor keeps its type, and what a poller is about *)
(* to decide are messages of its channel that arrived, in the order of      *)
(* parse_history and none of them at or before its cursor                   *)
(* (src/channel/poll.rs).                                                   *)
THEOREM InboundTypesHold == InboundSpec => []InboundTypeOK
<1>1. InboundInit => TypeInv
  BY TypeInit
<1>2. TypeInv /\ [InboundNext]_inboundVars => TypeInv'
  BY TypeStep
<1>3. TypeInv => InboundTypeOK
  BY DEF TypeInv
<1> QED BY <1>1, <1>2, <1>3, PTL DEF InboundSpec

------------------------------------------------------------------------------
(* No message is passed over.  A cursor is honest when the spared messages  *)
(* it claims were decided, and when no message can still arrive in time to  *)
(* be claimed: its time is that of a message that arrived, or of a poll     *)
(* that took a message without createTime.                                  *)

Honest(cur, ch) ==
  /\ cur.time > 0 => \/ \E n \in arrived \cap Of(ch) : Sent[n].time = cur.time
                     \/ cur.time <= read[ch]
  /\ cur.ids \subseteq arrived
  /\ \A m \in arrived \cap Of(ch) : Spared(m) /\ AtOrBefore(m, cur) => decided[m] > 0

(* What a poller took is all there was to take, up to its last message.     *)
Covered(ch) ==
  Working(ch) =>
    \A m \in arrived \cap Of(ch) :
      Spared(m) /\ Dated(m) =>
        \/ AtOrBefore(m, State(ch)[ch])
        \/ \E i \in 1 .. Len(Batch(ch)) : Batch(ch)[i] = m
        \/ \A i \in 1 .. Len(Batch(ch)) : Time(Batch(ch)[i], Now(ch)) <= Sent[m].time

CoverInv ==
  /\ TypeInv
  /\ \A ch \in Channels : Honest(saved[ch], ch)
  /\ \A c, ch \in Channels : Honest(State(c)[ch], ch)
  /\ \A ch \in Channels : Covered(ch)

LEMMA NoCursorHonest ==
  ASSUME NEW ch \in Channels
  PROVE  Honest(NoCursor, ch)
BY OfFacts, MessageFacts DEF Honest, NoCursor, AtOrBefore, Dated

(* Messages that arrived stay, decisions too; a message with a createTime   *)
(* that arrives is spared only if nothing newer is there.                   *)
Forward ==
  /\ arrived \subseteq arrived'
  /\ \A m \in Messages : decided[m] > 0 => decided'[m] > 0
  /\ \A m \in Messages : Spared(m)' => Spared(m)
  /\ \A ch \in Channels : read[ch] <= read'[ch]
  /\ \A m \in arrived' \ arrived :
       Spared(m)' /\ Dated(m) =>
         /\ \A n \in arrived \cap Of(Chan(m)) : Sent[n].time <= Sent[m].time
         /\ read[Chan(m)] <= Sent[m].time

LEMMA ForwardArrive ==
  ASSUME TypeInv, NEW m \in Messages, Arrive(m)
  PROVE  Forward
<1>1. arrived' \ arrived = {m} /\ arrived \subseteq arrived' /\ decided' = decided /\ read' = read
  BY DEF Arrive
<1>2. \A k \in Messages : Spared(k)' => Spared(k)
  BY DEF Arrive, Spared
<1>3. Chan(m) \in Channels /\ Sent[m].time \in Nat /\ \A ch \in Channels : read[ch] \in Nat
  BY MessageFacts DEF TypeInv, InboundTypeOK
<1>4. ASSUME Spared(m)', Dated(m)
      PROVE  /\ \A n \in arrived \cap Of(Chan(m)) : Sent[n].time <= Sent[m].time
             /\ read[Chan(m)] <= Sent[m].time
  <2>1. /\ \A n \in arrived \cap Of(Chan(m)) : ~(Sent[n].time > Sent[m].time)
        /\ ~(read[Chan(m)] > Sent[m].time)
    BY <1>4 DEF Arrive, Spared, Chan
  <2>2. \A n \in arrived \cap Of(Chan(m)) : Sent[n].time \in Nat
    BY OfFacts, MessageFacts
  <2> QED BY <1>3, <2>1, <2>2
<1> QED BY <1>1, <1>2, <1>3, <1>4 DEF Forward

LEMMA ForwardSteps ==
  ASSUME TypeInv, [InboundNext]_inboundVars
  PROVE  Forward
<1>1. CASE \E m \in Messages : Arrive(m)
  BY <1>1, ForwardArrive
<1>0. \A ch \in Channels : read[ch] \in Nat /\ read[ch] <= clock
  BY DEF TypeInv, InboundTypeOK, TimesFit
<1>2. CASE UNCHANGED <<arrived, decided, late, pushed, read>>
  BY <1>0, <1>2 DEF Forward, Spared
<1>3. CASE \E ch \in Channels : History(ch)
  <2>1. PICK ch \in Channels : History(ch)
    BY <1>3
  <2>2. pushed \subseteq pushed' /\ UNCHANGED <<arrived, decided, late>>
    BY <2>1 DEF History
  <2>3. \A c \in Channels : read[c] <= read'[c]
    BY <1>0, <2>1 DEF History, TypeInv, InboundTypeOK
  <2> QED BY <2>2, <2>3 DEF Forward, Spared
<1>4. CASE \E ch \in Channels : Decide(ch)
  <2>1. PICK ch \in Channels : Decide(ch)
    BY <1>4
  <2>2. Head1(ch) \in Messages /\ decided \in [Messages -> Nat]
    BY <2>1, HeadFacts DEF Decide, Batch, TypeInv, InboundTypeOK
  <2>3. \A m \in Messages : decided[m] > 0 => decided'[m] > 0
    BY <2>1, <2>2 DEF Decide
  <2>4. UNCHANGED <<arrived, late, pushed, read>>
    BY <2>1 DEF Decide
  <2> QED BY <1>0, <2>3, <2>4 DEF Forward, Spared
<1> QED BY <1>1, <1>2, <1>3, <1>4 DEF InboundNext, PollStep, LoadState, Refused, SaveState,
       PollEnds, PollerDies, StartAgain, Edit, Tick, inboundVars

LEMMA HonestStays ==
  ASSUME TypeInv, TypeInv', Forward, NEW ch \in Channels, NEW cur \in Cursor, Honest(cur, ch)
  PROVE  Honest(cur, ch)'
<1>1. cur.time \in Nat /\ arrived' \subseteq Messages /\ arrived \subseteq arrived'
  BY DEF Cursor, TypeInv, InboundTypeOK, Forward
<1>2. cur.time > 0 => \/ \E n \in arrived' \cap Of(ch) : Sent[n].time = cur.time
                      \/ cur.time <= read'[ch]
  <2>1. read[ch] \in Nat /\ read'[ch] \in Nat /\ read[ch] <= read'[ch]
    BY DEF TypeInv, InboundTypeOK, Forward
  <2> QED BY <1>1, <2>1 DEF Honest
<1>3. cur.ids \subseteq arrived'
  BY <1>1 DEF Honest
<1>4. ASSUME NEW m \in arrived' \cap Of(ch), Spared(m)', AtOrBefore(m, cur)
      PROVE  decided'[m] > 0
  <2>1. CASE m \in arrived
    BY <1>1, <1>4, <2>1 DEF Honest, Forward
  <2>2. CASE m \notin arrived
    <3>1. /\ \A n \in arrived \cap Of(ch) : Sent[n].time <= Sent[m].time
          /\ read[ch] <= Sent[m].time /\ Dated(m)
      BY <1>4, <2>2, OfFacts DEF Forward, AtOrBefore
    <3>2. Sent[m].time \in Nat /\ Sent[m].time > 0 /\ read[ch] \in Nat
      BY <1>4, <3>1, OfFacts, MessageFacts DEF Dated, TypeInv, InboundTypeOK
    <3>3. cur.time <= Sent[m].time
      BY <1>1, <3>1, <3>2 DEF Honest
    <3>4. m \in cur.ids
      BY <1>1, <1>4, <3>2, <3>3 DEF AtOrBefore
    <3> QED BY <2>2, <3>4 DEF Honest
  <2> QED BY <2>1, <2>2
<1>5. \A m \in Messages : AtOrBefore(m, cur)' <=> AtOrBefore(m, cur)
  BY DEF AtOrBefore, Dated
<1> QED BY <1>1, <1>2, <1>3, <1>4, <1>5 DEF Honest, Of

LEMMA CompleteStays ==
  ASSUME CoverInv, TypeInv', Forward, NEW ch \in Channels,
         Working(ch)' => /\ Working(ch) /\ Batch(ch)' = Batch(ch) /\ State(ch)' = State(ch)
                         /\ Now(ch)' = Now(ch)
  PROVE  Covered(ch)'
<1> SUFFICES ASSUME Working(ch)', NEW m \in arrived' \cap Of(ch), Spared(m)', Dated(m)
             PROVE  \/ AtOrBefore(m, State(ch)[ch])
                    \/ \E i \in 1 .. Len(Batch(ch)) : Batch(ch)[i] = m
                    \/ \A i \in 1 .. Len(Batch(ch)) : Time(Batch(ch)[i], Now(ch)) <= Sent[m].time
  BY DEF Covered, Of, Time, Dated, AtOrBefore
<1>1. m \in Messages /\ Covered(ch) /\ Working(ch)
  BY DEF Of, CoverInv
<1>2. CASE m \in arrived
  BY <1>1, <1>2 DEF Covered, Forward
<1>3. CASE m \notin arrived
  <2>1. /\ \A n \in arrived \cap Of(ch) : Sent[n].time <= Sent[m].time
        /\ read[ch] <= Sent[m].time
    BY <1>3, OfFacts DEF Forward
  <2>2. \A i \in 1 .. Len(Batch(ch)) : /\ Batch(ch)[i] \in arrived \cap Of(ch)
                                       /\ ~Dated(Batch(ch)[i]) => Now(ch) <= read[ch]
    BY DEF CoverInv, TypeInv, BatchFits
  <2>3. Now(ch) \in Nat /\ read[ch] \in Nat /\ Sent[m].time \in Nat
    BY <1>1, StateType, MessageFacts DEF CoverInv, TypeInv
  <2>4. ASSUME NEW i \in 1 .. Len(Batch(ch))
        PROVE  Time(Batch(ch)[i], Now(ch)) <= Sent[m].time
    <3>1. CASE Dated(Batch(ch)[i])
      BY <2>1, <2>2, <3>1 DEF Time
    <3>2. CASE ~Dated(Batch(ch)[i])
      BY <2>1, <2>2, <2>3, <3>2 DEF Time
    <3> QED BY <3>1, <3>2
  <2> QED BY <2>4
<1> QED BY <1>2, <1>3

LEMMA CoverInit == InboundInit => CoverInv
<1> SUFFICES ASSUME InboundInit PROVE CoverInv
  OBVIOUS
<1>1. TypeInv
  BY TypeInit
<1>2. \A ch \in Channels : saved[ch] = NoCursor /\ \A c \in Channels : State(c)[ch] = NoCursor
  BY DEF InboundInit, State, Resting
<1>3. \A ch \in Channels : ~Working(ch)
  BY DEF InboundInit, Working, Resting
<1> QED BY <1>1, <1>2, <1>3, NoCursorHonest DEF CoverInv, Covered

(* Steps that neither read nor save cursors other than whole.               *)
LEMMA CoverKeeps ==
  ASSUME CoverInv, TypeInv', Forward, saved' = saved,
         \A c \in Channels : \/ State(c)' = State(c) \/ State(c)' = saved
                             \/ \A ch \in Channels : State(c)'[ch] = NoCursor
  PROVE  /\ \A ch \in Channels : Honest(saved[ch], ch)'
         /\ \A c, ch \in Channels : Honest(State(c)[ch], ch)'
<1>1. \A ch \in Channels : saved[ch] \in Cursor /\ \A c \in Channels : State(c)[ch] \in Cursor
  BY StateType DEF CoverInv, TypeInv
<1>2. NoCursor \in Cursor
  BY DEF NoCursor, Cursor
<1>3. \A ch \in Channels : \A x \in Cursor : Honest(x, ch) => Honest(x, ch)'
  BY HonestStays DEF CoverInv
<1>4. \A ch \in Channels : Honest(saved[ch], ch)'
  BY <1>1, <1>3 DEF CoverInv, Honest, AtOrBefore
<1>5. ASSUME NEW c \in Channels, NEW ch \in Channels
      PROVE  Honest(State(c)[ch], ch)'
  <2>1. PICK x \in Cursor : Honest(x, ch) /\ State(c)'[ch] = x
    BY <1>1, <1>2, NoCursorHonest DEF CoverInv
  <2>2. Honest(x, ch)'
    BY <1>3, <2>1
  <2> QED BY <2>1, <2>2 DEF Honest, AtOrBefore, Dated, Spared
<1> QED BY <1>4, <1>5

LEMMA CompleteHistory ==
  ASSUME CoverInv, TypeInv', NEW ch \in Channels, History(ch)
  PROVE  Covered(ch)'
<1>0. TypeInv
  BY DEF CoverInv
<1>1. PICK W \in Windows(arrived \cap Of(ch)), s \in Seq(Messages) :
        /\ s \in Sorted({m \in W : ~AtOrBefore(m, State(ch)[ch])})
        /\ SetPoller(ch, [poller[ch] EXCEPT !.pc = "work", !.now = clock, !.batch = s])
        /\ read' = [read EXCEPT ![ch] = IF \A m \in W : Dated(m) THEN @ ELSE clock]
        /\ pushed' = pushed \cup {m \in (arrived \cap Of(ch)) \ W : ~AtOrBefore(m, State(ch)[ch])}
  BY <1>0, HistoryTakes
<1> DEFINE U == {m \in W : ~AtOrBefore(m, State(ch)[ch])}
<1>2. U \in SUBSET Messages
  BY DEF Windows, Of
<1>3. \A m \in U : \E i \in 1 .. Len(s) : s[i] = m
  BY <1>1, <1>2, SortedIsABatch
<1>4. Batch(ch)' = s /\ State(ch)' = State(ch) /\ arrived' = arrived
  <2>1. poller'[ch] = [poller[ch] EXCEPT !.pc = "work", !.now = clock, !.batch = s] /\ poller[ch] \in Poller
    BY <1>0, <1>1 DEF TypeInv, InboundTypeOK, SetPoller
  <2>2. poller'[ch].pc = "work" /\ poller'[ch].batch = s /\ poller'[ch].state = poller[ch].state
    BY <2>1 DEF Poller
  <2> QED BY <2>2 DEF Batch, State, History
<1>5. ASSUME NEW m \in arrived \cap Of(ch), Spared(m)', ~AtOrBefore(m, State(ch)[ch])
      PROVE  \E i \in 1 .. Len(s) : s[i] = m
  <2>1. m \notin pushed'
    BY <1>5 DEF Spared
  <2>2. m \in U
    BY <1>1, <1>5, <2>1
  <2> QED BY <1>3, <2>2
<1> QED BY <1>4, <1>5 DEF Covered, Of, AtOrBefore, Dated

LEMMA CompleteSave ==
  ASSUME CoverInv, TypeInv', Forward, NEW ch \in Channels, SaveState(ch)
  PROVE  Covered(ch)'
<1>0. TypeInv
  BY DEF CoverInv
<1> DEFINE h == Head1(ch)
           b == Batch(ch)
           t == Batch(ch)'
<1>1. /\ b # <<>> /\ Len(b) \in Nat \ {0} /\ Len(t) = Len(b) - 1
      /\ \A i \in 1 .. Len(t) : t[i] = b[i + 1]
      /\ State(ch)'[ch] = SetCursor(State(ch)[ch], h, Now(ch)) /\ Now(ch)' = Now(ch)
  BY <1>0, SaveFacts
<1>2. /\ h = b[1] /\ h \in Messages /\ ~AtOrBefore(h, State(ch)[ch]) /\ State(ch)[ch] \in Cursor
  BY <1>0, <1>1, HeadFacts, StateType DEF TypeInv, Head1, Batch
<1>3. arrived' = arrived /\ Working(ch)
  BY DEF SaveState, Working
<1>5. Now(ch) \in Nat /\ State(ch)[ch].time <= Now(ch)
  BY <1>0, <1>3, StateType DEF TypeInv, BatchFits
<1>4. ASSUME NEW m \in arrived \cap Of(ch), Spared(m)', Dated(m)
      PROVE  \/ AtOrBefore(m, SetCursor(State(ch)[ch], h, Now(ch)))
             \/ \E i \in 1 .. Len(t) : t[i] = m
             \/ \A i \in 1 .. Len(t) : Time(t[i], Now(ch)) <= Sent[m].time
  <2>1. m \in Messages /\ Spared(m)
    BY <1>4 DEF Of, Forward
  <2>2. \/ AtOrBefore(m, State(ch)[ch])
        \/ \E i \in 1 .. Len(b) : b[i] = m
        \/ \A i \in 1 .. Len(b) : Time(b[i], Now(ch)) <= Sent[m].time
    BY <1>3, <1>4, <2>1 DEF CoverInv, Covered
  <2>3. CASE AtOrBefore(m, State(ch)[ch])
    BY <1>2, <1>5, <2>1, <2>3, CursorMoves
  <2>4. CASE \E i \in 1 .. Len(b) : b[i] = m
    <3>1. PICK i \in 1 .. Len(b) : b[i] = m
      BY <2>4
    <3>2. CASE i = 1
      BY <1>2, <1>4, <1>5, <2>1, <3>1, <3>2, CursorMoves
    <3>3. CASE i # 1
      <4>1. i - 1 \in 1 .. Len(t) /\ (i - 1) + 1 = i
        BY <1>1, <3>3
      <4>2. t[i - 1] = m
        BY <1>1, <3>1, <4>1
      <4> QED BY <4>1, <4>2
    <3> QED BY <3>2, <3>3
  <2>5. CASE \A i \in 1 .. Len(b) : Time(b[i], Now(ch)) <= Sent[m].time
    BY <1>1, <2>5
  <2> QED BY <2>2, <2>3, <2>4, <2>5
<1> QED BY <1>1, <1>3, <1>4 DEF Covered, Of, AtOrBefore, Dated

(* The cursor a poller saves is honest.                                     *)
LEMMA HonestSave ==
  ASSUME CoverInv, NEW ch \in Channels, SaveState(ch)
  PROVE  Honest(SetCursor(State(ch)[ch], Head1(ch), Now(ch)), ch)
<1>0. TypeInv
  BY DEF CoverInv
<1> DEFINE h == Head1(ch)
           cur == State(ch)[ch]
           new == SetCursor(cur, h, Now(ch))
<1>1. Batch(ch) # <<>> /\ Working(ch) /\ poller[ch].pc = "decided"
  BY <1>0 DEF TypeInv, BatchFits, SaveState, Working
<1>2. /\ h \in Messages /\ h \in arrived \cap Of(ch) /\ ~AtOrBefore(h, cur) /\ cur \in Cursor
      /\ h = Batch(ch)[1] /\ Len(Batch(ch)) \in Nat \ {0} /\ decided[h] > 0
  BY <1>0, <1>1, HeadFacts, StateType DEF TypeInv, BatchFits, Head1, Batch
<1>6. /\ Now(ch) \in Nat /\ cur.time <= Now(ch)
      /\ ~Dated(h) => Now(ch) <= read[ch]
  <2>1. 1 \in 1 .. Len(Batch(ch))
    BY <1>2
  <2> QED BY <1>0, <1>1, <1>2, <2>1, StateType DEF TypeInv, BatchFits
<1>3. new.time = Time(h, Now(ch)) /\ new.ids \subseteq cur.ids \cup {h}
  BY <1>2 DEF SetCursor
<1>7. \/ \E n \in arrived \cap Of(ch) : Sent[n].time = new.time
      \/ new.time <= read[ch]
  BY <1>2, <1>3, <1>6 DEF Time
<1>4. Honest(cur, ch) /\ Covered(ch)
  BY DEF CoverInv
<1>5. ASSUME NEW m \in arrived \cap Of(ch), Spared(m), AtOrBefore(m, new)
      PROVE  decided[m] > 0
  <2>1. m \in Messages /\ Dated(m)
    BY <1>5 DEF Of, AtOrBefore
  <2>2. AtOrBefore(m, cur) \/ m = h \/ Sent[m].time < Time(h, Now(ch))
    BY <1>2, <1>5, <1>6, <2>1, CursorMoves
  <2>3. CASE AtOrBefore(m, cur)
    BY <1>4, <1>5, <2>3 DEF Honest
  <2>4. CASE m = h
    BY <1>2, <2>4
  <2>6. Sent[m].time \in Nat /\ Sent[h].time \in Nat /\ Time(h, Now(ch)) \in Nat
    BY <1>2, <1>6, <2>1, MessageFacts
  <2>5. CASE Sent[m].time < Time(h, Now(ch)) /\ ~AtOrBefore(m, cur)
    <3>1. CASE \E i \in 1 .. Len(Batch(ch)) : Batch(ch)[i] = m
      <4>1. PICK i \in 1 .. Len(Batch(ch)) : Batch(ch)[i] = m
        BY <3>1
      <4>2. i = 1 \/ Precedes(h, m)
        BY <1>0, <1>2, <4>1 DEF TypeInv, BatchFits
      <4>3. CASE i = 1
        BY <1>2, <4>1, <4>3
      <4>4. CASE Precedes(h, m)
        <5>1. Dated(h) /\ Sent[h].time <= Sent[m].time
          BY <2>1, <2>6, <4>4 DEF Precedes
        <5> QED BY <2>5, <2>6, <5>1 DEF Time
      <4> QED BY <4>2, <4>3, <4>4
    <3>2. CASE \A i \in 1 .. Len(Batch(ch)) : Time(Batch(ch)[i], Now(ch)) <= Sent[m].time
      <4>1. Time(h, Now(ch)) <= Sent[m].time
        BY <1>2, <3>2
      <4> QED BY <2>5, <2>6, <4>1
    <3> QED BY <1>1, <1>4, <1>5, <2>1, <2>5, <3>1, <3>2 DEF Covered
  <2> QED BY <2>2, <2>3, <2>4, <2>5
<1> HIDE DEF new
<1> QED BY <1>2, <1>3, <1>4, <1>5, <1>7 DEF Honest, new

LEMMA CoverSave ==
  ASSUME CoverInv, TypeInv', Forward, NEW ch \in Channels, SaveState(ch)
  PROVE  CoverInv'
<1>0. TypeInv
  BY DEF CoverInv
<1>1. /\ saved' \in PollState /\ State(ch)' = saved'
      /\ saved'[ch] = SetCursor(State(ch)[ch], Head1(ch), Now(ch)) /\ Now(ch)' = Now(ch)
      /\ \A c \in Channels \ {ch} : saved'[c] = State(ch)[c] /\ poller'[c] = poller[c]
  BY <1>0, SaveFacts
<1>2. \A c \in Channels : \A x \in Cursor : Honest(x, c) => Honest(x, c)'
  BY <1>0, HonestStays
<1>3. \A d \in Channels : saved'[d] \in Cursor /\ Honest(saved'[d], d)
  BY <1>1, HonestSave DEF CoverInv, PollState
<1>4. ASSUME NEW d \in Channels
      PROVE  Honest(saved[d], d)'
  <2>1. PICK x \in Cursor : Honest(x, d) /\ saved'[d] = x
    BY <1>3
  <2>2. Honest(x, d)'
    BY <1>2, <2>1
  <2> QED BY <2>1, <2>2 DEF Honest, AtOrBefore, Dated, Spared
<1>5. ASSUME NEW c \in Channels, NEW d \in Channels
      PROVE  Honest(State(c)[d], d)'
  <2>1. CASE c = ch
    BY <1>1, <1>4, <2>1 DEF Honest, AtOrBefore, Dated, Spared
  <2>2. CASE c # ch
    <3>1. State(c)' = State(c) /\ State(c)[d] \in Cursor /\ Honest(State(c)[d], d)
      BY <1>0, <1>1, <2>2, StateType DEF State, CoverInv, TypeInv
    <3>2. PICK x \in Cursor : Honest(x, d) /\ State(c)'[d] = x
      BY <3>1
    <3>3. Honest(x, d)'
      BY <1>2, <3>2
    <3> QED BY <3>2, <3>3 DEF Honest, AtOrBefore, Dated, Spared
  <2> QED BY <2>1, <2>2
<1>6. ASSUME NEW c \in Channels
      PROVE  Covered(c)'
  <2>1. CASE c = ch
    BY <2>1, CompleteSave
  <2>2. CASE c # ch
    <3>1. /\ Working(c)' = Working(c) /\ Batch(c)' = Batch(c) /\ State(c)' = State(c)
          /\ Now(c)' = Now(c)
      BY <1>1, <2>2 DEF Working, Batch, State, Now
    <3> QED BY <3>1, CompleteStays
  <2> QED BY <2>1, <2>2
<1> QED BY <1>4, <1>5, <1>6 DEF CoverInv

LEMMA CoverStep ==
  ASSUME CoverInv, [InboundNext]_inboundVars
  PROVE  CoverInv'
<1>1. TypeInv /\ TypeInv' /\ Forward
  BY TypeStep, ForwardSteps DEF CoverInv
<1>2. CASE \E ch \in Channels : SaveState(ch)
  BY <1>1, <1>2, CoverSave
<1>3. CASE UNCHANGED <<saved, poller>>
  <2>1. \A c \in Channels : /\ State(c)' = State(c) /\ Batch(c)' = Batch(c)
                            /\ Working(c)' = Working(c) /\ Now(c)' = Now(c)
    BY <1>3 DEF State, Batch, Working, Now
  <2> QED BY <1>1, <1>3, <2>1, CoverKeeps, CompleteStays DEF CoverInv
<1>4. CASE \E ch \in Channels : (PollStep(ch) \/ PollerDies(ch)) /\ ~SaveState(ch)
  <2>1. PICK ch \in Channels : (PollStep(ch) \/ PollerDies(ch)) /\ ~SaveState(ch)
    BY <1>4
  <2>2. /\ saved' = saved
        /\ \A c \in Channels \ {ch} : /\ State(c)' = State(c) /\ Batch(c)' = Batch(c)
                                       /\ Working(c)' = Working(c) /\ Now(c)' = Now(c)
        /\ \/ State(ch)' = State(ch) \/ State(ch)' = saved
           \/ \A d \in Channels : State(ch)'[d] = NoCursor
    BY <1>1, <2>1, OneMoves DEF State, Batch, Working, Now
  <2>3. /\ \A d \in Channels : Honest(saved[d], d)'
        /\ \A c, d \in Channels : Honest(State(c)[d], d)'
    BY <1>1, <2>2, CoverKeeps
  <2>4. Covered(ch)'
    BY <1>1, <2>1, OneMoves, CompleteHistory, CompleteStays
  <2>5. \A c \in Channels \ {ch} : Covered(c)'
    BY <1>1, <2>2, CompleteStays
  <2> QED BY <1>1, <2>3, <2>4, <2>5 DEF CoverInv
<1> QED BY <1>2, <1>3, <1>4 DEF InboundNext, Arrive, Edit, Tick, inboundVars

(* The cursor of the file passes over no message: one at or before it was   *)
(* decided, unless the service delivered it late or left it out             *)
(* (message_is_at_or_before_cursor and set_cursor, src/channel/poll.rs).    *)
THEOREM NoneOverlooked == InboundSpec => []NoneIsOverlooked
<1>1. InboundInit => CoverInv
  BY CoverInit
<1>2. CoverInv /\ [InboundNext]_inboundVars => CoverInv'
  BY CoverStep
<1>3. CoverInv => NoneIsOverlooked
  <2> SUFFICES ASSUME CoverInv, NEW m \in arrived, AtOrBefore(m, saved[Chan(m)]), Spared(m)
               PROVE  decided[m] > 0
    BY DEF NoneIsOverlooked, Chan
  <2>1. m \in Messages /\ Chan(m) \in Channels /\ m \in arrived \cap Of(Chan(m))
    BY MessageFacts DEF CoverInv, TypeInv, InboundTypeOK
  <2> QED BY <2>1 DEF CoverInv, Honest
<1> QED BY <1>1, <1>2, <1>3, PTL DEF InboundSpec

------------------------------------------------------------------------------
(* Nothing is decided twice without a reason.  A message a poller may take  *)
(* up was decided at most as often as there were reasons.                   *)

Reasons(ch) == deaths[ch] + rolled[ch]
Active(ch)  == poller[ch].pc \in {"history", "work", "decided"}
StillDue(ch, m) ==
  IF Active(ch)
    THEN /\ ~(poller[ch].pc = "decided" /\ m = Head1(ch))
         /\ ~AtOrBefore(m, State(ch)[ch]) \/ saved[ch] # State(ch)[ch]
    ELSE ~AtOrBefore(m, saved[ch])

Dates(ch) == {m \in Of(ch) : Dated(m)}
CountFits(ch) ==
  \A m \in Dates(ch) : /\ decided[m] <= 1 + Reasons(ch)
                       /\ StillDue(ch, m) => decided[m] <= Reasons(ch)

CountInv == TypeInv /\ \A ch \in Channels : CountFits(ch)

LEMMA CountType ==
  ASSUME InboundTypeOK, NEW ch \in Channels
  PROVE  Reasons(ch) \in Nat /\ \A m \in Dates(ch) : m \in Messages /\ decided[m] \in Nat
BY ConfigType, OfFacts DEF InboundTypeOK, Reasons, Dates

(* A channel where nothing is decided, and whose poller has no more to take *)
(* up than before, or one more reason.                                      *)
LEMMA CountStays ==
  ASSUME CountInv, TypeInv', NEW ch \in Channels, decided' = decided,
         \/ /\ Reasons(ch)' >= Reasons(ch)
            /\ \A m \in Dates(ch) : StillDue(ch, m)' => StillDue(ch, m)
         \/ Reasons(ch)' >= Reasons(ch) + 1
  PROVE  CountFits(ch)'
<1>1. Reasons(ch) \in Nat /\ \A m \in Dates(ch) : m \in Messages /\ decided[m] \in Nat
  BY CountType DEF CountInv, TypeInv
<1>2. Reasons(ch)' \in Nat
  BY CountType DEF TypeInv, InboundTypeOK, Reasons
<1> SUFFICES ASSUME NEW m \in Dates(ch)
             PROVE  /\ decided[m] <= 1 + Reasons(ch)'
                    /\ StillDue(ch, m)' => decided[m] <= Reasons(ch)'
  BY DEF CountFits, Dates, Of, Dated
<1>3. decided[m] <= 1 + Reasons(ch) /\ (StillDue(ch, m) => decided[m] <= Reasons(ch))
  BY DEF CountInv, CountFits
<1> QED BY <1>1, <1>2, <1>3

LEMMA CountUntouched ==
  ASSUME CountInv, TypeInv', NEW ch \in Channels, decided' = decided, poller'[ch] = poller[ch],
         saved'[ch] = saved[ch], deaths'[ch] = deaths[ch], rolled'[ch] = rolled[ch]
  PROVE  CountFits(ch)'
<1>1. Reasons(ch)' = Reasons(ch) /\ Reasons(ch) \in Nat
  BY CountType DEF CountInv, TypeInv, Reasons
<1>2. \A m \in Dates(ch) : StillDue(ch, m)' => StillDue(ch, m)
  BY DEF StillDue, Active, Head1, State, AtOrBefore, Dated
<1> QED BY <1>1, <1>2, CountStays

LEMMA CountInit == InboundInit => CountInv
<1> SUFFICES ASSUME InboundInit PROVE CountInv
  OBVIOUS
<1>1. TypeInv
  BY TypeInit
<1>2. \A ch \in Channels : Reasons(ch) = 0
  BY DEF InboundInit, Reasons
<1>3. \A ch \in Channels : \A m \in Dates(ch) : decided[m] = 0
  BY OfFacts DEF InboundInit, Dates
<1> QED BY <1>1, <1>2, <1>3 DEF CountInv, CountFits

LEMMA CountDecide ==
  ASSUME CountInv, TypeInv', NEW ch \in Channels, Decide(ch)
  PROVE  CountInv'
<1>0. TypeInv
  BY DEF CountInv
<1> DEFINE h == Head1(ch)
<1>1. /\ poller[ch].pc = "work" /\ Batch(ch) # <<>>
      /\ decided' = [decided EXCEPT ![h] = IF Dated(h) THEN @ + 1 ELSE 1]
      /\ UNCHANGED <<saved, deaths, rolled>>
      /\ SetPoller(ch, [poller[ch] EXCEPT !.pc = "decided"])
  BY DEF Decide, Batch
<1>2. h \in Messages /\ Chan(h) = ch /\ h \in Of(ch) /\ ~AtOrBefore(h, State(ch)[ch])
  BY <1>0, <1>1, HeadFacts
<1>3. /\ poller'[ch].pc = "decided" /\ State(ch)' = State(ch) /\ Head1(ch)' = h
      /\ \A c \in Channels \ {ch} : poller'[c] = poller[c]
  BY <1>0, <1>1, StateType DEF TypeInv, InboundTypeOK, Poller, SetPoller, State, Head1
<1>4. /\ \A c \in Channels : Reasons(c) \in Nat /\ Reasons(c)' = Reasons(c)
      /\ \A c \in Channels : \A m \in Dates(c) : m \in Messages /\ decided[m] \in Nat
  BY <1>0, <1>1, CountType DEF TypeInv, Reasons
<1>5. /\ \A m \in Messages \ {h} : decided'[m] = decided[m]
      /\ Dated(h) => decided'[h] = decided[h] + 1
  BY <1>1, <1>2 DEF CountInv, TypeInv, InboundTypeOK
<1>6. ASSUME NEW c \in Channels, NEW m \in Dates(c)
      PROVE  /\ decided'[m] <= 1 + Reasons(c)
             /\ StillDue(c, m)' => decided'[m] <= Reasons(c)
  <2>1. /\ decided[m] <= 1 + Reasons(c)
        /\ StillDue(c, m) => decided[m] <= Reasons(c)
    BY DEF CountInv, CountFits
  <2>2. CASE m = h
    <3>1. c = ch /\ Dated(h)
      BY <1>2, <2>2, OfFacts DEF Dates
    <3>2. StillDue(c, m)
      BY <1>1, <1>2, <2>2, <3>1 DEF StillDue, Active
    <3>3. ~StillDue(c, m)'
      BY <1>3, <2>2, <3>1 DEF StillDue, Active
    <3> QED BY <1>2, <1>4, <1>5, <2>1, <2>2, <3>1, <3>2, <3>3
  <2>3. CASE m # h
    <3>1. StillDue(c, m)' => StillDue(c, m)
      <4>1. CASE c = ch
        BY <1>1, <1>3, <4>1 DEF StillDue, Active, AtOrBefore, Dated
      <4>2. CASE c # ch
        BY <1>1, <1>3, <4>2 DEF StillDue, Active, Head1, State, AtOrBefore, Dated
      <4> QED BY <4>1, <4>2
    <3> QED BY <1>4, <1>5, <2>1, <2>3, <3>1
  <2> QED BY <2>2, <2>3
<1> QED BY <1>4, <1>6 DEF CountInv, CountFits, Dates, Of, Dated

LEMMA CountSave ==
  ASSUME CountInv, TypeInv', NEW ch \in Channels, SaveState(ch)
  PROVE  CountInv'
<1>0. TypeInv
  BY DEF CountInv
<1> DEFINE h == Head1(ch)
<1>1. /\ Batch(ch) # <<>> /\ State(ch)' = saved' /\ poller'[ch].pc = "work"
      /\ saved'[ch] = SetCursor(State(ch)[ch], h, Now(ch))
      /\ \A c \in Channels \ {ch} : saved'[c] = State(ch)[c] /\ poller'[c] = poller[c]
  BY <1>0, SaveFacts
<1>2. /\ poller[ch].pc = "decided" /\ decided' = decided /\ deaths' = deaths
      /\ rolled' = [c \in Channels |-> IF c # ch /\ saved[c] # State(ch)[c] THEN rolled[c] + 1
                                       ELSE rolled[c]]
  <2>1. \A c \in Channels \ {ch} : saved[c] # [State(ch) EXCEPT ![ch] = SetCursor(@, h, Now(ch))][c]
                                     <=> saved[c] # State(ch)[c]
    BY <1>0, StateType DEF TypeInv, PollState
  <2> QED BY <2>1 DEF SaveState, Now
<1>3. /\ h \in Messages /\ ~AtOrBefore(h, State(ch)[ch]) /\ State(ch)[ch] \in Cursor
      /\ Now(ch) \in Nat /\ State(ch)[ch].time <= Now(ch)
  BY <1>0, <1>1, <1>2, HeadFacts, StateType DEF TypeInv, BatchFits, Working
<1>4. CountFits(ch)'
  <2>1. Reasons(ch)' = Reasons(ch) /\ Reasons(ch) \in Nat
    BY <1>0, <1>2, CountType DEF TypeInv, InboundTypeOK, Reasons
  <2>2. ASSUME NEW m \in Dates(ch), StillDue(ch, m)'
        PROVE  StillDue(ch, m)
    <3>1. ~AtOrBefore(m, SetCursor(State(ch)[ch], h, Now(ch)))
      BY <1>1, <2>2 DEF StillDue, Active, AtOrBefore, Dated
    <3>2. m # h /\ ~AtOrBefore(m, State(ch)[ch])
      BY <1>3, <2>2, <3>1, OfFacts, CursorMoves DEF Dates
    <3> QED BY <1>2, <3>2 DEF StillDue, Active
  <2> QED BY <1>2, <2>1, <2>2, CountStays
<1>5. ASSUME NEW c \in Channels \ {ch}
      PROVE  CountFits(c)'
  <2>1. CASE saved[c] # State(ch)[c]
    <3>1. Reasons(c)' = Reasons(c) + 1 /\ Reasons(c) \in Nat
      BY <1>0, <1>2, <2>1, CountType, ConfigType DEF TypeInv, InboundTypeOK, Reasons
    <3> QED BY <1>2, <3>1, CountStays
  <2>2. CASE saved[c] = State(ch)[c]
    BY <1>1, <1>2, <2>2, CountUntouched
  <2> QED BY <2>1, <2>2
<1> QED BY <1>4, <1>5 DEF CountInv

(* A poller that starts, looks, or stops.                                   *)
LEMMA CountMoves ==
  ASSUME CountInv, TypeInv', NEW ch \in Channels, PollStep(ch) \/ PollerDies(ch),
         ~SaveState(ch), ~Decide(ch)
  PROVE  CountInv'
<1>a. TypeInv
  BY DEF CountInv
<1>0. TypeInv /\ poller[ch] \in Poller
  BY <1>a, StateType DEF TypeInv
<1>1. /\ UNCHANGED <<decided, saved, rolled>>
      /\ \A c \in Channels \ {ch} : poller'[c] = poller[c] /\ deaths'[c] = deaths[c]
  BY <1>0, OneMoves DEF TypeInv, InboundTypeOK, PollStep, LoadState, History, Refused, PollEnds,
     StartAgain, PollerDies
<1>2. \A c \in Channels \ {ch} : CountFits(c)'
  BY <1>1, CountUntouched
<1>3. Reasons(ch) \in Nat
  BY <1>0, CountType DEF TypeInv
<1>4. CASE PollerDies(ch)
  <2>1. deaths'[ch] = deaths[ch] + 1 /\ rolled' = rolled
    BY <1>0, <1>4 DEF PollerDies, TypeInv, InboundTypeOK
  <2>2. Reasons(ch)' = Reasons(ch) + 1
    BY <1>0, <1>3, <2>1, ConfigType DEF Reasons, TypeInv, InboundTypeOK
  <2>3. CountFits(ch)'
    BY <1>1, <1>3, <2>2, CountStays
  <2> QED BY <1>2, <2>3 DEF CountInv
<1>5. CASE ~PollerDies(ch)
  <2>1. Reasons(ch)' = Reasons(ch)
    BY <1>1, <1>5 DEF PollStep, LoadState, History, Decide, Refused, SaveState, PollEnds,
       StartAgain, Reasons
  <2>2. \A m \in Dates(ch) : StillDue(ch, m)' => StillDue(ch, m)
    <3>1. CASE LoadState(ch)
      <4>1. poller'[ch].pc = "history" /\ State(ch)' = saved /\ saved' = saved /\ poller[ch].pc = "idle"
        BY <1>0, <3>1 DEF LoadState, SetPoller, TypeInv, InboundTypeOK, Poller, State
      <4> QED BY <4>1 DEF StillDue, Active, AtOrBefore, Dated
    <3>2. CASE History(ch)
      <4>1. PICK s \in Seq(Messages) :
              SetPoller(ch, [poller[ch] EXCEPT !.pc = "work", !.now = clock, !.batch = s])
        BY <1>0, <3>2, HistoryTakes
      <4>2. poller'[ch].pc = "work" /\ State(ch)' = State(ch) /\ saved' = saved /\ poller[ch].pc = "history"
        BY <1>0, <3>2, <4>1 DEF History, SetPoller, TypeInv, InboundTypeOK, Poller, State
      <4> QED BY <4>2 DEF StillDue, Active, AtOrBefore, Dated
    <3>3. CASE Refused(ch) \/ PollEnds(ch) \/ StartAgain(ch)
      <4>1. poller'[ch].pc \in {"idle", "ended"} /\ poller[ch].pc \in {"work", "ended"} /\ saved' = saved
        BY <1>0, <3>3 DEF Refused, PollEnds, StartAgain, SetPoller, TypeInv, InboundTypeOK, Rest, Resting
      <4>2. \A m \in Dates(ch) : StillDue(ch, m)' => ~AtOrBefore(m, saved[ch])
        BY <4>1 DEF StillDue, Active, AtOrBefore, Dated
      <4> QED BY <4>1, <4>2 DEF StillDue, Active
    <3> QED BY <1>5, <3>1, <3>2, <3>3 DEF PollStep
  <2>3. CountFits(ch)'
    BY <1>1, <1>3, <2>1, <2>2, CountStays
  <2> QED BY <1>2, <2>3 DEF CountInv
<1> QED BY <1>4, <1>5

LEMMA CountStep ==
  ASSUME CountInv, [InboundNext]_inboundVars
  PROVE  CountInv'
<1>1. TypeInv'
  BY TypeStep DEF CountInv
<1>2. CASE UNCHANGED <<decided, poller, saved, deaths, rolled>>
  <2>1. \A c \in Channels : CountFits(c)'
    BY <1>1, <1>2, CountUntouched
  <2> QED BY <1>1, <2>1 DEF CountInv
<1>3. CASE \E ch \in Channels : PollStep(ch) \/ PollerDies(ch)
  BY <1>1, <1>3, CountDecide, CountSave, CountMoves
<1> QED BY <1>2, <1>3 DEF InboundNext, Arrive, Edit, Tick, inboundVars

(* A message with a createTime is decided at most once for each death of    *)
(* the poller of its channel and for each older cursor another poller wrote *)
(* back over its own (save_state, src/channel/poll.rs), and once more,      *)
(* however often the poll decides the messages without one again            *)
(* (parse_create_time, src/channel/transport.rs).                           *)
THEOREM DecidedForAReason == InboundSpec => []DecidedAgainForAReason
<1>1. InboundInit => CountInv
  BY CountInit
<1>2. CountInv /\ [InboundNext]_inboundVars => CountInv'
  BY CountStep
<1>3. CountInv => DecidedAgainForAReason
  <2> SUFFICES ASSUME CountInv, NEW m \in Messages, Dated(m)
               PROVE  decided[m] <= 1 + deaths[Chan(m)] + rolled[Chan(m)]
    BY DEF DecidedAgainForAReason, Chan
  <2>1. Chan(m) \in Channels /\ m \in Of(Chan(m)) /\ decided[m] <= 1 + Reasons(Chan(m))
    BY MessageFacts DEF CountInv, CountFits, Dates
  <2>2. deaths[Chan(m)] \in Nat /\ rolled[Chan(m)] \in Nat /\ decided[m] \in Nat
    BY <2>1, ConfigType DEF CountInv, TypeInv, InboundTypeOK
  <2> QED BY <2>1, <2>2 DEF Reasons
<1> QED BY <1>1, <1>2, <1>3, PTL DEF InboundSpec

------------------------------------------------------------------------------
(* What a message may set going.                                            *)

LEMMA LiveIsGranted ==
  ASSUME NEW m \in Messages, NEW c \in Config, Route(m, c) = Dispatch(FALSE)
  PROVE  /\ Sent[m].sender \in c.allowed_senders
         /\ Sent[m].verb \in c.allowed_actions \ {"plan", "status"}
         /\ Sent[m].confirmed
<1>1. Sent[m].confirmed \in BOOLEAN
  BY SentAssumption
<1>2. \A k \in {"usage", "disabled", "not_allowed", "untrusted"} : Reply(k) # Dispatch(FALSE)
  BY DEF Reply, Dispatch
<1>3. \A dry \in BOOLEAN : Dispatch(dry) = Dispatch(FALSE) => dry = FALSE
  BY DEF Dispatch
<1> QED BY <1>1, <1>2, <1>3 DEF Route, Trusted

LEMMA LiveStep ==
  ASSUME TypeInv, [InboundNext]_inboundVars, NEW m \in Messages, Live(m)', ~Live(m)
  PROVE  Grants(m) \/ poller[Chan(m)].config # config
<1>1. CASE decision' = decision
  BY <1>1 DEF Live
<1>2. CASE \E ch \in Channels : Decide(ch)
  <2>1. PICK ch \in Channels : Decide(ch)
    BY <1>2
  <2>2. Head1(ch) \in Messages /\ Chan(Head1(ch)) = ch
    BY <2>1, HeadFacts DEF Decide, Batch
  <2>3. m = Head1(ch) /\ Route(m, poller[ch].config) = Dispatch(FALSE)
    BY <2>1, <2>2 DEF Decide, Live, TypeInv, InboundTypeOK
  <2>4. poller[ch].config \in Config
    BY StateType DEF TypeInv, Poller
  <2> QED BY <2>2, <2>3, <2>4, LiveIsGranted DEF Grants
<1> QED BY <1>1, <1>2 DEF InboundNext, Arrive, Edit, Tick, PollStep, LoadState, History, Refused,
       SaveState, PollEnds, PollerDies, StartAgain, inboundVars

(* A message sets something going for real only if the configuration its    *)
(* poller read allows its sender and its verb and it carried the confirm    *)
(* token (resolve_trust, src/channel/trust.rs; route_inbound,               *)
(* src/channel/route.rs).                                                   *)
THEOREM OnlyTheTrustedAct == InboundSpec => ActsOnlyForTheTrusted
<1>1. InboundInit => TypeInv
  BY TypeInit
<1>2. TypeInv /\ [InboundNext]_inboundVars => TypeInv'
  BY TypeStep
<1>3. TypeInv /\ [InboundNext]_inboundVars =>
        [\A m \in Messages : Live(m)' /\ ~Live(m) =>
           Grants(m) \/ poller[Sent[m].channel].config # config]_inboundVars
  BY LiveStep DEF Chan
<1> QED BY <1>1, <1>2, <1>3, PTL DEF InboundSpec, ActsOnlyForTheTrusted
==============================================================================
