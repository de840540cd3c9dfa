--------------------------- MODULE Outbound_proofs ---------------------------
(***************************************************************************)
(* Theorems about Outbound, for any threads, quotas, subscriptions and     *)
(* drains: types, the numbering of the ledger, that the drains implement   *)
(* ReplyQueue, and what a copy of a reply costs.                           *)
(***************************************************************************)
EXTENDS Outbound, SequenceTheorems, FiniteSetTheorems, TLAPS

(* Each thread records as many events as its quota, numbered from one.      *)
Recorders ==
  \A t \in Threads : rec[t].n <= Quota[t] /\ (rec[t].pc # "idle" => rec[t].n >= 1)

(* A line without its newline holds a reply.                                *)
OpenLines == \A i \in 1 .. Len(text) : ~text[i].closed => Len(text[i].ids) >= 1

TypeInv == TypeOK /\ Recorders /\ OpenLines

LEMMA EventIn ==
  ASSUME NEW t \in Threads, NEW n \in 1 .. Quota[t]
  PROVE  <<t, n>> \in Events
<1>1. <<t, n>> \in {t} \X (1 .. Quota[t])
  OBVIOUS
<1> QED BY <1>1 DEF Events

LEMMA EventParts ==
  ASSUME NEW e \in Events
  PROVE  e[1] \in Threads /\ e[2] \in Nat /\ e[2] >= 1 /\ e = <<e[1], e[2]>>
<1>1. PICK t \in Threads : e \in {t} \X (1 .. Quota[t])
  BY DEF Events
<1>2. Quota[t] \in Nat
  BY QuotaAssumption
<1> QED BY <1>1, <1>2

LEMMA EventType ==
  ASSUME TypeInv, NEW t \in Threads
  PROVE  /\ rec[t] \in Recorder /\ rec[t].n \in Nat
         /\ rec[t].pc # "idle" => Event(t) \in Events
<1>1. rec[t] \in Recorder /\ Quota[t] \in Nat
  BY QuotaAssumption DEF TypeInv, TypeOK
<1>2. rec[t].pc # "idle" => rec[t].n \in 1 .. Quota[t]
  BY <1>1 DEF TypeInv, Recorders, Recorder
<1>3. rec[t].pc # "idle" => <<t, rec[t].n>> \in Events
  BY <1>2, EventIn
<1> QED BY <1>1, <1>3 DEF Recorder, Event

LEMMA AppendFacts ==
  ASSUME NEW S, NEW s \in Seq(S), NEW x \in S
  PROVE  /\ Append(s, x) \in Seq(S) /\ Len(s) \in Nat /\ Len(Append(s, x)) = Len(s) + 1
         /\ \A i \in 1 .. Len(s) : Append(s, x)[i] = s[i] /\ s[i] \in S
         /\ Append(s, x)[Len(s) + 1] = x
BY AppendProperties, ElementOfSeq, LenProperties

------------------------------------------------------------------------------
(* What the two writes of append_reply do to the queue's file.              *)

LEMMA ReplyWritten ==
  ASSUME TypeInv, NEW e \in Events
  PROVE  LET new == WithReply(text, e)
         IN  /\ new \in Seq(Line)
             /\ IsOpen(text) =>
                  /\ Len(new) = Len(text) /\ Len(text) >= 1
                  /\ \A i \in 1 .. (Len(text) - 1) : new[i] = text[i]
                  /\ ~new[Len(text)].closed
                  /\ new[Len(text)].ids = Append(text[Len(text)].ids, e)
                  /\ Len(text[Len(text)].ids) >= 1
             /\ ~IsOpen(text) =>
                  /\ Len(new) = Len(text) + 1
                  /\ \A i \in 1 .. Len(text) : new[i] = text[i]
                  /\ new[Len(text) + 1] = [ids |-> <<e>>, closed |-> FALSE]
<1>1. text \in Seq(Line) /\ Len(text) \in Nat
  BY DEF TypeInv, TypeOK
<1>2. CASE IsOpen(text)
  <2> DEFINE n == Len(text)
  <2>1. n >= 1 /\ n \in 1 .. n /\ ~text[n].closed /\ text[n] \in Line
    BY <1>1, <1>2 DEF IsOpen
  <2>2. text[n].ids \in Seq(Events) /\ Append(text[n].ids, e) \in Seq(Events)
    BY <2>1, AppendFacts DEF Line
  <2> DEFINE line == [text[n] EXCEPT !.ids = Append(@, e)]
  <2>3. line \in Line /\ line.ids = Append(text[n].ids, e) /\ ~line.closed
    BY <2>1, <2>2 DEF Line
  <2>4. WithReply(text, e) = [text EXCEPT ![n] = line]
    BY <1>2 DEF WithReply
  <2> HIDE DEF line
  <2>5. /\ [text EXCEPT ![n] = line] \in Seq(Line) /\ Len([text EXCEPT ![n] = line]) = n
        /\ \A i \in 1 .. n : [text EXCEPT ![n] = line][i] = IF i = n THEN line ELSE text[i]
    BY <1>1, <2>1, <2>3, ExceptSeq
  <2>6. Len(text[n].ids) >= 1
    BY <2>1 DEF TypeInv, OpenLines
  <2> QED BY <1>2, <2>1, <2>3, <2>4, <2>5, <2>6
<1>3. CASE ~IsOpen(text)
  <2> DEFINE line == [ids |-> <<e>>, closed |-> FALSE]
  <2>1. line \in Line
    BY DEF Line
  <2>2. WithReply(text, e) = Append(text, line)
    BY <1>3 DEF WithReply
  <2> HIDE DEF line
  <2>3. /\ Append(text, line) \in Seq(Line) /\ Len(Append(text, line)) = Len(text) + 1
        /\ \A i \in 1 .. Len(text) : Append(text, line)[i] = text[i]
        /\ Append(text, line)[Len(text) + 1] = line
    BY <1>1, <2>1, AppendFacts
  <2> QED BY <1>3, <2>2, <2>3 DEF line
<1> QED BY <1>2, <1>3

LEMMA NewlineWritten ==
  ASSUME TypeInv
  PROVE  LET new == WithNewline(text)
         IN  /\ new \in Seq(Line)
             /\ IsOpen(text) =>
                  /\ Len(new) = Len(text)
                  /\ \A i \in 1 .. Len(text) : new[i].ids = text[i].ids
                  /\ \A i \in 1 .. Len(text) : ~new[i].closed => ~text[i].closed
             /\ ~IsOpen(text) =>
                  /\ Len(new) = Len(text) + 1
                  /\ \A i \in 1 .. Len(text) : new[i] = text[i]
                  /\ new[Len(text) + 1] = [ids |-> <<>>, closed |-> TRUE]
<1>1. text \in Seq(Line) /\ Len(text) \in Nat
  BY DEF TypeInv, TypeOK
<1>2. CASE IsOpen(text)
  <2> DEFINE n == Len(text)
  <2>1. n >= 1 /\ n \in 1 .. n /\ text[n] \in Line
    BY <1>1, <1>2 DEF IsOpen
  <2> DEFINE line == [text[n] EXCEPT !.closed = TRUE]
  <2>2. line \in Line /\ line.ids = text[n].ids /\ line.closed
    BY <2>1 DEF Line
  <2>3. WithNewline(text) = [text EXCEPT ![n] = line]
    BY <1>2 DEF WithNewline
  <2> HIDE DEF line
  <2>4. /\ [text EXCEPT ![n] = line] \in Seq(Line) /\ Len([text EXCEPT ![n] = line]) = n
        /\ \A i \in 1 .. n : [text EXCEPT ![n] = line][i] = IF i = n THEN line ELSE text[i]
    BY <1>1, <2>1, <2>2, ExceptSeq
  <2> QED BY <1>2, <2>1, <2>2, <2>3, <2>4
<1>3. CASE ~IsOpen(text)
  <2> DEFINE line == [ids |-> <<>>, closed |-> TRUE]
  <2>1. line \in Line
    BY EmptySeq DEF Line
  <2>2. WithNewline(text) = Append(text, line)
    BY <1>3 DEF WithNewline
  <2> HIDE DEF line
  <2>3. /\ Append(text, line) \in Seq(Line) /\ Len(Append(text, line)) = Len(text) + 1
        /\ \A i \in 1 .. Len(text) : Append(text, line)[i] = text[i]
        /\ Append(text, line)[Len(text) + 1] = line
    BY <1>1, <2>1, AppendFacts
  <2> QED BY <1>3, <2>2, <2>3 DEF line
<1> QED BY <1>2, <1>3

(* A queue that is whole was whole before, and its lines hold what they     *)
(* held.                                                                    *)
Grows ==
  /\ Len(text') >= Len(text)
  /\ Whole' => Whole /\ \A i \in 1 .. Len(text) : text'[i].ids = text[i].ids

LEMMA ReplyGrows ==
  ASSUME TypeInv, NEW e \in Events, text' = WithReply(text, e)
  PROVE  Grows
<1>1. text \in Seq(Line) /\ Len(text) \in Nat
  BY DEF TypeInv, TypeOK
<1>2. CASE IsOpen(text)
  <2> DEFINE n == Len(text)
  <2>1. n \in 1 .. n /\ n = Len(text') /\ text[n].ids \in Seq(Events) /\ Len(text[n].ids) >= 1
        /\ text'[n].ids = Append(text[n].ids, e)
    <3>1. n >= 1 /\ Len(text') = n /\ text'[n].ids = Append(text[n].ids, e) /\ Len(text[n].ids) >= 1
      BY <1>2, ReplyWritten
    <3>2. text[n] \in Line
      BY <1>1, <3>1
    <3> QED BY <1>1, <3>1, <3>2 DEF Line
  <2>2. Len(text'[n].ids) # 1
    BY <2>1, AppendFacts
  <2>3. ~Whole'
    BY <2>1, <2>2 DEF Whole, Parses
  <2> QED BY <1>1, <2>1, <2>3 DEF Grows
<1>3. CASE ~IsOpen(text)
  <2>1. Len(text') = Len(text) + 1 /\ \A i \in 1 .. Len(text) : text'[i] = text[i]
    BY <1>3, ReplyWritten
  <2> QED BY <1>1, <2>1 DEF Grows, Whole, Parses
<1> QED BY <1>2, <1>3

LEMMA NewlineGrows ==
  ASSUME TypeInv, text' = WithNewline(text)
  PROVE  Grows
<1>1. text \in Seq(Line) /\ Len(text) \in Nat
  BY DEF TypeInv, TypeOK
<1>2. CASE IsOpen(text)
  <2>1. Len(text') = Len(text) /\ \A i \in 1 .. Len(text) : text'[i].ids = text[i].ids
    BY <1>2, NewlineWritten
  <2> QED BY <1>1, <2>1 DEF Grows, Whole, Parses
<1>3. CASE ~IsOpen(text)
  <2>1. Len(text') = Len(text) + 1 /\ text'[Len(text) + 1] = [ids |-> <<>>, closed |-> TRUE]
    BY <1>3, NewlineWritten
  <2>2. Len(text'[Len(text) + 1].ids) # 1
    BY <2>1, EmptySeq
  <2>3. ~Whole'
    BY <1>1, <2>1, <2>2 DEF Whole, Parses
  <2> QED BY <1>1, <2>1, <2>3 DEF Grows
<1> QED BY <1>2, <1>3

LEMMA Growth ==
  ASSUME TypeInv, [Next]_vars
  PROVE  Grows
<1>1. CASE text' = text
  BY <1>1 DEF Grows, Whole, Parses, TypeInv, TypeOK
<1>2. CASE \E t \in Threads : QueueReply(t)
  <2>1. PICK t \in Threads : QueueReply(t)
    BY <1>2
  <2> QED BY <2>1, EventType, ReplyGrows DEF QueueReply
<1>3. CASE \E t \in Threads : EndLine(t)
  BY <1>3, NewlineGrows DEF EndLine
<1> QED BY <1>1, <1>2, <1>3 DEF Next, Record, ReadLedger, AppendEvent, RunDies, DoctorReads, DoctorAppends,
       DrainStep, LoadCursor, QueueMissing, SaveLoaded, ReadQueue, DrainedAll, ParseFailed, SkipReply, SendReply, SaveCursor,
       SendFailed, DrainDies, Restart, vars, queueVars

------------------------------------------------------------------------------
(* Types.                                                                   *)

LEMMA TypeInit == Init => TypeInv
<1> SUFFICES ASSUME Init PROVE TypeInv
  OBVIOUS
<1>1. /\ <<>> \in Seq(Entries)
      /\ <<>> \in Seq(Line) /\ <<>> \in Seq(Events)
  OBVIOUS
<1>2. AtRest \in Drain
  BY <1>1 DEF AtRest, Drain
<1>3. [pc |-> "idle", n |-> 0, last |-> 0] \in Recorder
  BY DEF Recorder
<1>4. team.trouble \in Nat
  BY TeamsAssumption DEF Init
<1>5. TypeOK
  <2>1. doctor \in [Doctors -> AtWork]
    BY DEF Init, AtWork
  <2>2. rec \in [Threads -> Recorder] /\ drain \in [Drainers -> Drain]
    BY <1>2, <1>3 DEF Init
  <2>3. /\ ledger \in Seq(Entries) /\ text \in Seq(Line) /\ out \in Seq(Events)
        /\ lock \in Threads \cup {NoThread} /\ cursor \in Nat /\ dropped \subseteq Events
        /\ team \in Teams /\ alive \in BOOLEAN /\ crowded \in BOOLEAN
    BY <1>1 DEF Init
  <2>4. trouble \in 0 .. team.trouble
    BY <1>4 DEF Init
  <2> QED BY <2>1, <2>2, <2>3, <2>4 DEF TypeOK
<1>6. Recorders
  BY QuotaAssumption DEF Init, Recorders
<1>7. OpenLines
  BY DEF Init, OpenLines
<1> QED BY <1>5, <1>6, <1>7 DEF TypeInv

LEMMA LastSeqType ==
  ASSUME TypeInv
  PROVE  LastSeq \in Nat /\ (ledger # <<>> => Len(ledger) \in 1 .. Len(ledger))
<1> DEFINE S == Entries
<1>1. ledger \in Seq(S)
  BY DEF TypeInv, TypeOK
<1>2. CASE ledger = <<>>
  BY <1>2 DEF LastSeq
<1>3. CASE ledger # <<>>
  <2>1. Len(ledger) \in 1 .. Len(ledger)
    BY <1>1, <1>3, EmptySeq
  <2>2. ledger[Len(ledger)] \in S
    BY <1>1, <2>1, ElementOfSeq
  <2> QED BY <1>3, <2>1, <2>2 DEF LastSeq, Entries
<1> QED BY <1>2, <1>3

LEMMA TypeReadLedger ==
  ASSUME TypeInv, NEW t \in Threads, ReadLedger(t)
  PROVE  TypeInv'
<1> DEFINE r == [pc |-> "append", n |-> rec[t].n + 1, last |-> LastSeq]
<1>1. LastSeq \in Nat
  BY LastSeqType
<1>2. r \in Recorder /\ Quota[t] \in Nat /\ rec[t].n \in Nat
  BY <1>1, EventType, QuotaAssumption DEF Recorder
<1>3. rec' = [rec EXCEPT ![t] = r] /\ lock' = t /\ rec[t].n < Quota[t]
  BY DEF ReadLedger
<1>4. r.pc = "append" /\ r.n = rec[t].n + 1
  OBVIOUS
<1> HIDE DEF r
<1>5. TypeOK'
  BY <1>2, <1>3 DEF TypeInv, TypeOK, ReadLedger, doctorVars, queueVars, drainVars
<1>6. Recorders'
  BY <1>2, <1>3, <1>4 DEF TypeInv, TypeOK, Recorders
<1>7. OpenLines'
  BY DEF TypeInv, OpenLines, ReadLedger, queueVars
<1> QED BY <1>5, <1>6, <1>7 DEF TypeInv

(* A recorder moves on within the same event.                               *)
LEMMA RecorderMoves ==
  ASSUME TypeInv, NEW t \in Threads, NEW pc \in {"idle", "append", "queue", "newline"}, NEW last \in Nat,
         rec[t].pc # "idle", rec' = [rec EXCEPT ![t].pc = pc, ![t].last = last]
  PROVE  rec' \in [Threads -> Recorder] /\ Recorders'
<1>1. rec \in [Threads -> Recorder] /\ rec[t] \in Recorder
  BY DEF TypeInv, TypeOK
<1> DEFINE r == [rec[t] EXCEPT !.pc = pc, !.last = last]
<1>2. r \in Recorder /\ r.n = rec[t].n /\ r.pc = pc
  BY <1>1 DEF Recorder
<1>3. rec' = [rec EXCEPT ![t] = r]
  BY <1>1 DEF Recorder
<1> HIDE DEF r
<1>4. rec' \in [Threads -> Recorder] /\ rec'[t] = r /\ \A u \in Threads \ {t} : rec'[u] = rec[u]
  BY <1>1, <1>2, <1>3
<1>5. ASSUME NEW u \in Threads
      PROVE  rec'[u].n = rec[u].n /\ (rec'[u].pc # "idle" => rec[u].pc # "idle")
  <2>1. CASE u = t
    BY <1>2, <1>4, <2>1
  <2>2. CASE u # t
    BY <1>4, <2>2
  <2> QED BY <2>1, <2>2
<1> QED BY <1>4, <1>5 DEF Recorders, TypeInv

LEMMA TypeAppendEvent ==
  ASSUME TypeInv, NEW t \in Threads, AppendEvent(t)
  PROVE  TypeInv'
<1> DEFINE entry == [seq |-> rec[t].last + 1, ev |-> Event(t)]
<1>1. entry \in Entries
  BY EventType DEF AppendEvent, Recorder, Entries
<1>2. ledger' \in Seq(Entries)
  BY <1>1, AppendFacts DEF AppendEvent, TypeInv, TypeOK
<1>3. rec' \in [Threads -> Recorder] /\ Recorders'
  <2>1. PICK pc \in {"queue", "idle"} : rec' = [rec EXCEPT ![t].pc = pc, ![t].last = 0]
    BY DEF AppendEvent
  <2> QED BY <2>1, RecorderMoves DEF AppendEvent
<1>4. TypeOK'
  BY <1>2, <1>3 DEF TypeInv, TypeOK, AppendEvent, doctorVars, queueVars, drainVars
<1>5. OpenLines'
  BY DEF TypeInv, OpenLines, AppendEvent, queueVars
<1> QED BY <1>3, <1>4, <1>5 DEF TypeInv

LEMMA TypeQueueReply ==
  ASSUME TypeInv, NEW t \in Threads, QueueReply(t)
  PROVE  TypeInv'
<1>1. Event(t) \in Events /\ text' = WithReply(text, Event(t)) /\ rec[t] \in Recorder
  BY EventType DEF QueueReply
<1>2. rec' \in [Threads -> Recorder] /\ Recorders'
  <2>1. rec' = [rec EXCEPT ![t].pc = "newline", ![t].last = rec[t].last] /\ rec[t].last \in Nat
    BY <1>1 DEF QueueReply, TypeInv, TypeOK, Recorder
  <2> QED BY <2>1, RecorderMoves DEF QueueReply
<1>3. text' \in Seq(Line) /\ Len(text) \in Nat /\ text \in Seq(Line)
  <2>1. text \in Seq(Line)
    BY DEF TypeInv, TypeOK
  <2>2. text' \in Seq(Line)
    BY <1>1, ReplyWritten
  <2> QED BY <2>1, <2>2, LenProperties
<1>4. TypeOK'
  BY <1>2, <1>3 DEF TypeInv, TypeOK, QueueReply, ledgerVars, doctorVars, drainVars
<1>5. OpenLines'
  <2>1. CASE IsOpen(text)
    <3> DEFINE n == Len(text)
    <3>1. /\ Len(text') = n /\ n >= 1 /\ \A i \in 1 .. (n - 1) : text'[i] = text[i]
          /\ text'[n].ids = Append(text[n].ids, Event(t)) /\ Len(text[n].ids) >= 1
      BY <1>1, <2>1, ReplyWritten
    <3>2. text[n] \in Line
      BY <1>3, <3>1
    <3>3. text[n].ids \in Seq(Events)
      BY <3>2 DEF Line
    <3>4. Len(text'[n].ids) >= 1
      BY <1>1, <3>1, <3>3, AppendFacts
    <3>5. \A i \in 1 .. n : i = n \/ i \in 1 .. (n - 1)
      BY <1>3
    <3> HIDE DEF n
    <3> QED BY <3>1, <3>4, <3>5 DEF TypeInv, OpenLines, n
  <2>2. CASE ~IsOpen(text)
    <3>1. /\ Len(text') = Len(text) + 1 /\ \A i \in 1 .. Len(text) : text'[i] = text[i]
          /\ text'[Len(text) + 1] = [ids |-> <<Event(t)>>, closed |-> FALSE]
      BY <1>1, <2>2, ReplyWritten
    <3>2. Len(text'[Len(text) + 1].ids) = 1 /\ Len(text'[Len(text) + 1].ids) >= 1
      BY <3>1
    <3>3. \A i \in 1 .. Len(text') : i \in 1 .. Len(text) \/ i = Len(text) + 1
      BY <1>3, <3>1
    <3>4. \A i \in 1 .. Len(text) : ~text'[i].closed => Len(text'[i].ids) >= 1
      BY <3>1 DEF TypeInv, OpenLines
    <3> QED BY <3>2, <3>3, <3>4 DEF OpenLines
  <2> QED BY <2>1, <2>2
<1> QED BY <1>2, <1>4, <1>5 DEF TypeInv

LEMMA TypeEndLine ==
  ASSUME TypeInv, NEW t \in Threads, EndLine(t)
  PROVE  TypeInv'
<1>1. text' = WithNewline(text) /\ rec[t] \in Recorder
  BY EventType DEF EndLine
<1>2. rec' \in [Threads -> Recorder] /\ Recorders'
  <2>1. rec' = [rec EXCEPT ![t].pc = "idle", ![t].last = rec[t].last] /\ rec[t].last \in Nat
    BY <1>1 DEF EndLine, TypeInv, TypeOK, Recorder
  <2> QED BY <2>1, RecorderMoves DEF EndLine
<1>3. text' \in Seq(Line) /\ Len(text) \in Nat
  BY <1>1, NewlineWritten DEF TypeInv, TypeOK
<1>4. TypeOK'
  BY <1>2, <1>3 DEF TypeInv, TypeOK, EndLine, ledgerVars, doctorVars, drainVars
<1>5. OpenLines'
  <2>1. CASE IsOpen(text)
    BY <1>1, <2>1, NewlineWritten DEF TypeInv, OpenLines
  <2>2. CASE ~IsOpen(text)
    <3>1. /\ Len(text') = Len(text) + 1 /\ \A i \in 1 .. Len(text) : text'[i] = text[i]
          /\ text'[Len(text) + 1].closed
      BY <1>1, <2>2, NewlineWritten
    <3> QED BY <1>3, <3>1 DEF TypeInv, OpenLines
  <2> QED BY <2>1, <2>2
<1> QED BY <1>2, <1>4, <1>5 DEF TypeInv

(* What every step of a drain does to `drain`.                              *)
LEMMA DrainMoves ==
  ASSUME TypeOK, NEW d \in Drainers, NEW r \in Drain, SetDrain(d, r)
  PROVE  /\ drain' \in [Drainers -> Drain] /\ drain'[d] = r
         /\ \A e \in Drainers \ {d} : drain'[e] = drain[e]
BY DEF TypeOK, SetDrain

LEMMA RestTypes ==
  /\ AtRest \in Drain /\ AtRest.count = 0 /\ AtRest.lines = <<>> /\ AtRest.pc = "idle"
  /\ \A n \in Nat : /\ [AtRest EXCEPT !.pc = "read", !.count = n] \in Drain
                    /\ [AtRest EXCEPT !.pc = "read", !.count = n].pc = "read"
                    /\ [AtRest EXCEPT !.pc = "read", !.count = n].count = n
                    /\ [AtRest EXCEPT !.pc = "read", !.count = n].lines = <<>>
  /\ [AtRest EXCEPT !.pc = "ended"] \in Drain
  /\ [AtRest EXCEPT !.pc = "ended"].pc = "ended"
  /\ [AtRest EXCEPT !.pc = "ended"].count = 0
  /\ [AtRest EXCEPT !.pc = "ended"].lines = <<>>
<1>1. <<>> \in Seq(Line)
  OBVIOUS
<1> QED BY <1>1 DEF AtRest, Drain

(* The line a drain works on.                                               *)
LEMMA LineFacts ==
  ASSUME TypeOK, NEW d \in Drainers, HasLine(d), Parses(NextLine(d))
  PROVE  /\ drain[d].count + 1 \in 1 .. Len(drain[d].lines)
         /\ NextLine(d).ids[1] \in Events /\ Len(NextLine(d).ids) = 1
<1>1. drain[d] \in Drain /\ drain[d].pc = "work"
  BY DEF TypeOK, HasLine, Working
<1>2. drain[d].lines \in Seq(Line) /\ drain[d].count \in Nat
  BY <1>1 DEF Drain
<1>3. drain[d].count + 1 \in 1 .. Len(drain[d].lines)
  BY <1>2, LenProperties DEF HasLine
<1>4. NextLine(d) \in Line
  BY <1>2, <1>3, ElementOfSeq DEF NextLine
<1>5. NextLine(d).ids \in Seq(Events) /\ Len(NextLine(d).ids) = 1
  BY <1>4 DEF Line, Parses
<1>6. NextLine(d).ids[1] \in Events
  BY <1>5, ElementOfSeq
<1> QED BY <1>3, <1>5, <1>6

LEMMA SavedFacts ==
  ASSUME TypeOK, NEW d \in Drainers, drain[d].pc \in {"work", "sent"}, Saved(d)
  PROVE  /\ cursor' = drain[d].count + 1 /\ cursor' \in Nat
         /\ drain' \in [Drainers -> Drain]
         /\ drain'[d].pc = "work" /\ drain'[d].count = drain[d].count + 1
         /\ drain'[d].lines = drain[d].lines
         /\ \A e \in Drainers \ {d} : drain'[e] = drain[e]
<1> DEFINE n == drain[d].count + 1
           r == [drain[d] EXCEPT !.pc = "work", !.count = n]
<1>1. drain[d] \in Drain /\ n \in Nat
  BY DEF TypeOK, Drain
<1>2. SetDrain(d, r) /\ cursor' = n
  BY DEF Saved
<1> HIDE DEF n
<1>3. r \in Drain /\ r.pc = "work" /\ r.count = n /\ r.lines = drain[d].lines
  BY <1>1 DEF Drain
<1> HIDE DEF r
<1> QED BY <1>1, <1>2, <1>3, DrainMoves DEF n

LEMMA TypeDrain ==
  ASSUME TypeInv, UNCHANGED <<team, alive, ledgerVars, rec, queueVars>>,
         drain' \in [Drainers -> Drain], cursor' \in Nat, out' \in Seq(Events),
         dropped' \subseteq Events, trouble' \in 0 .. team.trouble
  PROVE  TypeInv'
BY DEF TypeInv, TypeOK, Recorders, OpenLines, ledgerVars, doctorVars, queueVars

LEMMA TypeDrainSteps ==
  ASSUME TypeInv, NEW d \in Drainers,
         DrainStep(d) \/ SendFailed(d) \/ DrainDies(d) \/ Restart(d)
  PROVE  TypeInv'
<1>1. /\ TypeOK /\ drain[d] \in Drain /\ cursor \in Nat /\ out \in Seq(Events) /\ dropped \subseteq Events
      /\ trouble \in 0 .. team.trouble /\ text \in Seq(Line) /\ team.trouble \in Nat
      /\ drain \in [Drainers -> Drain]
  BY TeamsAssumption DEF TypeInv, TypeOK
<1>2. CASE LoadCursor(d)
  <2>1. drain' \in [Drainers -> Drain]
    BY <1>1, <1>2, RestTypes, DrainMoves DEF LoadCursor
  <2> QED BY <1>1, <1>2, <2>1, TypeDrain DEF LoadCursor
<1>3. CASE ReadQueue(d)
  <2>1. [drain[d] EXCEPT !.pc = "work", !.lines = text] \in Drain
    BY <1>1 DEF Drain
  <2>2. drain' \in [Drainers -> Drain]
    BY <1>1, <1>3, <2>1, DrainMoves DEF ReadQueue
  <2> QED BY <1>1, <1>3, <2>2, TypeDrain DEF ReadQueue
<1>4. CASE DrainedAll(d) \/ Restart(d)
  <2>1. drain' \in [Drainers -> Drain]
    BY <1>1, <1>4, RestTypes, DrainMoves DEF DrainedAll, Restart
  <2> QED BY <1>1, <1>4, <2>1, TypeDrain DEF DrainedAll, Restart
<1>5. CASE ParseFailed(d) \/ SendFailed(d) \/ DrainDies(d)
  <2>1. drain' \in [Drainers -> Drain]
    BY <1>1, <1>5, RestTypes, DrainMoves DEF ParseFailed, SendFailed, DrainDies
  <2>2. trouble' \in 0 .. team.trouble
    BY <1>1, <1>5 DEF ParseFailed, SendFailed, DrainDies
  <2> QED BY <1>1, <1>5, <2>1, <2>2, TypeDrain DEF ParseFailed, SendFailed, DrainDies
<1>6. CASE SkipReply(d)
  <2>1. drain' \in [Drainers -> Drain] /\ cursor' \in Nat
    BY <1>1, <1>6, SavedFacts DEF SkipReply, HasLine, Working
  <2>2. NextLine(d).ids[1] \in Events
    BY <1>1, <1>6, LineFacts DEF SkipReply
  <2> QED BY <1>1, <1>6, <2>1, <2>2, TypeDrain DEF SkipReply
<1>7. CASE SendReply(d)
  <2>1. [drain[d] EXCEPT !.pc = "sent"] \in Drain
    BY <1>1 DEF Drain
  <2>2. drain' \in [Drainers -> Drain]
    BY <1>1, <1>7, <2>1, DrainMoves DEF SendReply
  <2>3. out' \in Seq(Events)
    BY <1>1, <1>7, LineFacts, AppendFacts DEF SendReply
  <2> QED BY <1>1, <1>7, <2>2, <2>3, TypeDrain DEF SendReply
<1>8. CASE SaveCursor(d)
  <2>1. drain' \in [Drainers -> Drain] /\ cursor' \in Nat
    BY <1>1, <1>8, SavedFacts DEF SaveCursor
  <2> QED BY <1>1, <1>8, <2>1, TypeDrain DEF SaveCursor
<1>9. CASE QueueMissing(d)
  <2>1. [drain[d] EXCEPT !.pc = "missing"] \in Drain
    BY <1>1 DEF Drain
  <2>2. drain' \in [Drainers -> Drain]
    BY <1>1, <1>9, <2>1, DrainMoves DEF QueueMissing
  <2> QED BY <1>1, <1>9, <2>2, TypeDrain DEF QueueMissing
<1>10. CASE SaveLoaded(d)
  <2>1. drain' \in [Drainers -> Drain] /\ cursor' \in Nat
    BY <1>1, <1>10, RestTypes, DrainMoves DEF SaveLoaded, Drain
  <2> QED BY <1>1, <1>10, <2>1, TypeDrain DEF SaveLoaded
<1> QED BY <1>2, <1>3, <1>4, <1>5, <1>6, <1>7, <1>8, <1>9, <1>10 DEF DrainStep

LEMMA DoctorType ==
  ASSUME TypeInv, NEW x \in Doctors
  PROVE  doctor[x] \in AtWork /\ doctor[x].last \in Nat /\ doctor \in [Doctors -> AtWork]
BY DEF TypeInv, TypeOK, AtWork

LEMMA TypeDoctor ==
  ASSUME TypeInv, NEW x \in Doctors, DoctorReads(x) \/ DoctorAppends(x)
  PROVE  TypeInv'
<1>1. LastSeq \in Nat /\ ledger \in Seq(Entries) /\ doctor[x].last \in Nat
  BY LastSeqType, DoctorType DEF TypeInv, TypeOK
<1>2. CASE DoctorReads(x)
  <2>1. [pc |-> "append", last |-> LastSeq] \in AtWork
    BY <1>1 DEF AtWork
  <2>2. doctor' \in [Doctors -> AtWork] /\ crowded' \in BOOLEAN
    BY <1>2, <2>1 DEF DoctorReads, TypeInv, TypeOK
  <2>3. TypeOK'
    BY <1>2, <2>2 DEF TypeInv, TypeOK, DoctorReads, queueVars, drainVars
  <2> QED BY <1>2, <2>3 DEF TypeInv, Recorders, OpenLines, DoctorReads, queueVars
<1>3. CASE DoctorAppends(x)
  <2>1. [pc |-> "ended", last |-> 0] \in AtWork
    BY DEF AtWork
  <2>2. doctor' \in [Doctors -> AtWork]
    BY <1>3, <2>1 DEF DoctorAppends, TypeInv, TypeOK
  <2>3. [seq |-> doctor[x].last + 1, ev |-> x] \in Entries
    BY <1>1 DEF Entries
  <2>4. ledger' \in Seq(Entries)
    BY <1>1, <1>3, <2>3, AppendFacts DEF DoctorAppends
  <2>5. TypeOK'
    BY <1>3, <2>2, <2>4 DEF TypeInv, TypeOK, DoctorAppends, queueVars, drainVars
  <2> QED BY <1>3, <2>5 DEF TypeInv, Recorders, OpenLines, DoctorAppends, queueVars
<1> QED BY <1>2, <1>3

LEMMA TypeStep ==
  ASSUME TypeInv, [Next]_vars
  PROVE  TypeInv'
<1>1. CASE UNCHANGED vars
  BY <1>1 DEF TypeInv, TypeOK, Recorders, OpenLines, vars, ledgerVars, doctorVars, queueVars,
     drainVars
<1>2. CASE RunDies
  BY <1>2 DEF TypeInv, TypeOK, Recorders, OpenLines, RunDies, doctorVars, queueVars, drainVars
<1>3. CASE \E x \in Doctors : DoctorReads(x) \/ DoctorAppends(x)
  BY <1>3, TypeDoctor
<1>4. CASE \E t \in Threads : Record(t)
  BY <1>4, TypeReadLedger, TypeAppendEvent, TypeQueueReply, TypeEndLine DEF Record
<1>5. CASE \E d \in Drainers : DrainStep(d) \/ SendFailed(d) \/ DrainDies(d) \/ Restart(d)
  BY <1>5, TypeDrainSteps
<1> QED BY <1>1, <1>2, <1>3, <1>4, <1>5 DEF Next

(* The ledger, the queue's file and the drains keep their types, whoever    *)
(* dies and whichever appends run into each other (src/scheduler/events.rs, *)
(* src/channel/subscribe.rs, src/channel/drain.rs).                         *)
THEOREM OutboundTypesHold == Spec => []TypeOK
<1>1. Init => TypeInv
  BY TypeInit
<1>2. TypeInv /\ [Next]_vars => TypeInv'
  BY TypeStep
<1>3. TypeInv => TypeOK
  BY DEF TypeInv
<1> QED BY <1>1, <1>2, <1>3, PTL DEF Spec

------------------------------------------------------------------------------
(* The numbering of the ledger.                                             *)

(* Who is about to append holds the lock and has seen the whole ledger.     *)
AppendersHoldTheLock ==
  \A t \in Threads : alive /\ rec[t].pc = "append" => lock = t /\ rec[t].last = Len(ledger)

(* Doctors come after the run, and one that is alone saw the whole ledger.  *)
DoctorsInTurn ==
  /\ alive => ~crowded /\ \A x \in Doctors : doctor[x].pc = "idle"
  /\ ~crowded => \A x \in Doctors : doctor[x].pc = "append" =>
       /\ doctor[x].last = Len(ledger)
       /\ \A y \in Doctors : doctor[y].pc = "append" => y = x

LedgerInv == TypeInv /\ LedgerNumbered /\ AppendersHoldTheLock /\ DoctorsInTurn

LEMMA LastIsLength ==
  ASSUME TypeInv, LedgerNumbered, ~crowded
  PROVE  LastSeq = Len(ledger) /\ Len(ledger) \in Nat
<1>1. Len(ledger) \in Nat
  BY LenProperties DEF TypeInv, TypeOK
<1>2. ledger = <<>> => Len(ledger) = 0
  OBVIOUS
<1> QED BY <1>1, <1>2, LastSeqType DEF LastSeq, LedgerNumbered

LEMMA NumberedAppend ==
  ASSUME TypeInv, LedgerNumbered, NEW e \in Events \cup Doctors, NEW n \in Nat,
         crowded' = crowded, e \in Events \/ ~crowded => n = Len(ledger) + 1,
         ledger' = Append(ledger, [seq |-> n, ev |-> e])
  PROVE  LedgerNumbered' /\ Len(ledger') = Len(ledger) + 1
<1> DEFINE entry == [seq |-> n, ev |-> e]
<1>1. ledger \in Seq(Entries) /\ Len(ledger) \in Nat
  BY LenProperties DEF TypeInv, TypeOK
<1>2. entry \in Entries /\ entry.seq = n /\ entry.ev = e
  BY DEF Entries
<1> HIDE DEF entry
<1>3. /\ Len(ledger') = Len(ledger) + 1
      /\ \A i \in 1 .. Len(ledger) : ledger'[i] = ledger[i]
      /\ ledger'[Len(ledger) + 1] = entry
  BY <1>1, <1>2, AppendFacts DEF entry
<1>4. \A i \in 1 .. Len(ledger') : i \in 1 .. Len(ledger) \/ i = Len(ledger) + 1
  BY <1>1, <1>3
<1> QED BY <1>1, <1>2, <1>3, <1>4 DEF LedgerNumbered

LEMMA LedgerRecords ==
  ASSUME LedgerInv, NEW t \in Threads, Record(t)
  PROVE  LedgerInv'
<1>0. TypeInv /\ TypeInv' /\ rec \in [Threads -> Recorder]
  BY TypeStep DEF LedgerInv, Next, TypeInv, TypeOK
<1>a. alive /\ alive' = alive /\ UNCHANGED <<doctor, crowded>> /\ ~crowded
  BY DEF Record, ReadLedger, AppendEvent, QueueReply, EndLine, ledgerVars, doctorVars,
         LedgerInv, DoctorsInTurn
<1>b. DoctorsInTurn'
  BY <1>a DEF LedgerInv, DoctorsInTurn
<1>1. CASE ReadLedger(t)
  <2>1. LastSeq = Len(ledger)
    BY <1>0, <1>a, LastIsLength DEF LedgerInv
  <2>2. /\ ledger' = ledger /\ alive /\ lock' = t /\ lock = "none"
        /\ rec'[t] = [pc |-> "append", n |-> rec[t].n + 1, last |-> LastSeq]
        /\ \A u \in Threads \ {t} : rec'[u] = rec[u]
    BY <1>0, <1>1 DEF ReadLedger, LockFree, NoThread
  <2>3. \A u \in Threads : rec[u].pc # "append"
    BY <2>2, QuotaAssumption DEF LedgerInv, AppendersHoldTheLock
  <2> QED BY <1>0, <1>a, <1>b, <2>1, <2>2, <2>3 DEF LedgerInv, LedgerNumbered, AppendersHoldTheLock
<1>2. CASE AppendEvent(t)
  <2>1. alive /\ rec[t].pc = "append" /\ rec[t].last = Len(ledger) /\ Event(t) \in Events
    BY <1>0, <1>2, EventType DEF AppendEvent, LedgerInv, AppendersHoldTheLock
  <2>2. LedgerNumbered'
    <3>1. Len(ledger) \in Nat
      BY <1>0, LenProperties DEF TypeInv, TypeOK
    <3> QED BY <1>0, <1>a, <1>2, <2>1, <3>1, NumberedAppend DEF AppendEvent, LedgerInv
  <2>3. \A u \in Threads \ {t} : rec'[u].pc # "append"
    BY <1>0, <1>2, <2>1 DEF AppendEvent, LedgerInv, AppendersHoldTheLock
  <2>4. rec'[t].pc # "append"
    BY <1>0, <1>2 DEF AppendEvent, Recorder
  <2> QED BY <1>0, <1>b, <2>2, <2>3, <2>4 DEF LedgerInv, AppendersHoldTheLock
<1>3. CASE QueueReply(t) \/ EndLine(t)
  <2>1. /\ UNCHANGED <<ledger, alive, lock>> /\ rec'[t].pc # "append"
        /\ \A u \in Threads \ {t} : rec'[u] = rec[u]
    BY <1>0, <1>3 DEF QueueReply, EndLine, ledgerVars, Recorder
  <2> QED BY <1>0, <1>a, <1>b, <2>1 DEF LedgerInv, LedgerNumbered, AppendersHoldTheLock
<1> QED BY <1>1, <1>2, <1>3 DEF Record

LEMMA LedgerDoctor ==
  ASSUME LedgerInv, NEW x \in Doctors, DoctorReads(x) \/ DoctorAppends(x)
  PROVE  LedgerInv'
<1>0. TypeInv /\ TypeInv' /\ doctor \in [Doctors -> AtWork] /\ doctor[x].last \in Nat
  BY TypeDoctor, DoctorType DEF LedgerInv
<1>1. CASE DoctorReads(x)
  <2>1. /\ ~alive /\ UNCHANGED <<ledger, alive, lock, rec>>
        /\ crowded' = (crowded \/ \E y \in Doctors : doctor[y].pc = "append")
        /\ doctor'[x] = [pc |-> "append", last |-> LastSeq]
        /\ \A y \in Doctors \ {x} : doctor'[y] = doctor[y]
    BY <1>0, <1>1 DEF DoctorReads
  <2>2. ~crowded => LastSeq = Len(ledger)
    BY <1>0, LastIsLength DEF LedgerInv
  <2>3. ~crowded' => \A y \in Doctors \ {x} : doctor'[y].pc # "append"
    BY <2>1
  <2>4. DoctorsInTurn'
    <3>1. ~alive' /\ (~crowded' => ~crowded)
      BY <2>1
    <3>2. ~crowded' => doctor'[x].last = Len(ledger')
      BY <2>1, <2>2, <3>1
    <3>3. ~crowded' => \A y \in Doctors : doctor'[y].pc = "append" => y = x
      BY <2>3
    <3> QED BY <3>1, <3>2, <3>3 DEF DoctorsInTurn
  <2> QED BY <1>0, <2>1, <2>4 DEF LedgerInv, LedgerNumbered, AppendersHoldTheLock
<1>2. CASE DoctorAppends(x)
  <2>1. /\ UNCHANGED <<alive, lock, rec, crowded>> /\ doctor[x].pc = "append"
        /\ ledger' = Append(ledger, [seq |-> doctor[x].last + 1, ev |-> x])
        /\ doctor'[x].pc = "ended"
        /\ \A y \in Doctors \ {x} : doctor'[y] = doctor[y]
    BY <1>0, <1>2 DEF DoctorAppends
  <2>2. x \notin Events /\ (~crowded => doctor[x].last = Len(ledger)) /\ ~alive
    BY <2>1, HeardAssumption DEF LedgerInv, DoctorsInTurn
  <2>3. LedgerNumbered'
    BY <1>0, <2>1, <2>2, NumberedAppend DEF LedgerInv
  <2>4. ~crowded' => \A y \in Doctors : doctor'[y].pc # "append"
    BY <2>1 DEF LedgerInv, DoctorsInTurn
  <2>5. DoctorsInTurn'
    BY <2>1, <2>2, <2>4 DEF DoctorsInTurn
  <2> QED BY <1>0, <2>1, <2>2, <2>3, <2>5 DEF LedgerInv, AppendersHoldTheLock
<1> QED BY <1>1, <1>2

LEMMA LedgerStep ==
  ASSUME LedgerInv, [Next]_vars
  PROVE  LedgerInv'
<1>0. TypeInv /\ TypeInv'
  BY TypeStep DEF LedgerInv
<1>1. CASE UNCHANGED <<alive, ledger, lock, rec, doctor, crowded>>
  BY <1>0, <1>1 DEF LedgerInv, LedgerNumbered, AppendersHoldTheLock, DoctorsInTurn
<1>2. CASE RunDies
  BY <1>0, <1>2 DEF RunDies, doctorVars, LedgerInv, LedgerNumbered, AppendersHoldTheLock,
                    DoctorsInTurn
<1>3. CASE \E x \in Doctors : DoctorReads(x) \/ DoctorAppends(x)
  BY <1>3, LedgerDoctor
<1>4. CASE \E t \in Threads : Record(t)
  BY <1>4, LedgerRecords
<1> QED BY <1>1, <1>2, <1>3, <1>4 DEF Next, DrainStep, LoadCursor, QueueMissing, SaveLoaded, ReadQueue, DrainedAll,
       ParseFailed, SkipReply, SendReply, SaveCursor, SendFailed, DrainDies, Restart, vars, ledgerVars, doctorVars

(* The events of a run are numbered 1, 2, 3, ..., whichever threads record  *)
(* them, and so is the whole ledger unless two doctors of different         *)
(* processes were at it at once (append_event_draft, src/scheduler/         *)
(* events.rs).                                                              *)
THEOREM LedgerIsNumbered == Spec => []LedgerNumbered
<1>1. Init => LedgerInv
  <2> SUFFICES ASSUME Init PROVE LedgerInv
    OBVIOUS
  <2>1. TypeInv /\ ledger = <<>> /\ \A t \in Threads : rec[t].pc = "idle"
    BY TypeInit DEF Init
  <2>2. ~crowded /\ \A x \in Doctors : doctor[x].pc = "idle"
    BY DEF Init
  <2> QED BY <2>1, <2>2 DEF LedgerInv, LedgerNumbered, AppendersHoldTheLock, DoctorsInTurn
<1>2. LedgerInv /\ [Next]_vars => LedgerInv'
  BY LedgerStep
<1>3. LedgerInv => LedgerNumbered
  BY DEF LedgerInv
<1> QED BY <1>1, <1>2, <1>3, PTL DEF Spec

------------------------------------------------------------------------------
(* What the drains have worked off.                                         *)

Handled == SentSet \cup dropped

(* The first n replies were sent or dropped.                                *)
Settled(n) ==
  /\ n <= Len(text)
  /\ Whole => \A i \in 1 .. n : text[i].ids[1] \in Handled

(* A drain works on a prefix of the queue.                                  *)
Prefix(d) ==
  /\ Len(drain[d].lines) <= Len(text)
  /\ Whole => \A i \in 1 .. Len(drain[d].lines) : drain[d].lines[i].ids = text[i].ids

AtReply(d) ==
  /\ drain[d].pc \in {"work", "sent"} => drain[d].count <= Len(drain[d].lines)
  /\ drain[d].pc = "sent" => /\ drain[d].count < Len(drain[d].lines)
                             /\ NextLine(d).ids[1] \in Handled

DrainFits(d) == Settled(drain[d].count) /\ Prefix(d) /\ AtReply(d)
DrainInv == TypeInv /\ Settled(cursor) /\ \A d \in Drainers : DrainFits(d)

LEMMA SettledStays ==
  ASSUME TypeInv, TypeInv', Grows, Handled \subseteq Handled', NEW n \in Nat, Settled(n)
  PROVE  Settled(n)'
<1>1. Len(text) \in Nat /\ Len(text') \in Nat
  BY LenProperties DEF TypeInv, TypeOK
<1>2. n <= Len(text')
  BY <1>1 DEF Settled, Grows
<1>3. Whole' => \A i \in 1 .. n : text'[i].ids[1] \in Handled'
  BY <1>1 DEF Settled, Grows
<1> QED BY <1>2, <1>3 DEF Settled

LEMMA DrainType ==
  ASSUME TypeInv, NEW d \in Drainers
  PROVE  /\ drain[d] \in Drain /\ drain[d].count \in Nat /\ drain[d].lines \in Seq(Line)
         /\ Len(drain[d].lines) \in Nat /\ cursor \in Nat /\ Len(text) \in Nat
         /\ text \in Seq(Line) /\ out \in Seq(Events) /\ Len(out) \in Nat
<1>1. /\ drain[d] \in Drain /\ cursor \in Nat /\ text \in Seq(Line) /\ out \in Seq(Events)
  BY DEF TypeInv, TypeOK
<1>2. drain[d].count \in Nat /\ drain[d].lines \in Seq(Line)
  BY <1>1 DEF Drain
<1> QED BY <1>1, <1>2, LenProperties

LEMMA FitsStays ==
  ASSUME TypeInv, TypeInv', Grows, Handled \subseteq Handled', NEW d \in Drainers,
         DrainFits(d), drain'[d] = drain[d]
  PROVE  DrainFits(d)'
<1>1. drain[d].count \in Nat /\ Len(text) \in Nat /\ Len(drain[d].lines) \in Nat
  BY DrainType
<1>2. Len(text') \in Nat
  BY LenProperties DEF TypeInv, TypeOK
<1>3. Settled(drain[d].count)'
  <2>1. \A n \in Nat : Settled(n) => Settled(n)'
    BY SettledStays
  <2> QED BY <1>1, <2>1 DEF DrainFits, Settled
<1>4. Prefix(d)'
  BY <1>1, <1>2 DEF DrainFits, Prefix, Grows
<1>5. AtReply(d)'
  BY DEF DrainFits, AtReply, NextLine
<1> QED BY <1>3, <1>4, <1>5 DEF DrainFits

LEMMA SentFacts ==
  ASSUME TypeInv, NEW e \in Events, out' = Append(out, e)
  PROVE  SentSet' = SentSet \cup {e}
<1>1. out \in Seq(Events)
  BY DEF TypeInv, TypeOK
<1>2. /\ Len(out) \in Nat /\ Len(out') = Len(out) + 1
      /\ \A i \in 1 .. Len(out) : out'[i] = out[i]
      /\ out'[Len(out) + 1] = e
  BY <1>1, AppendFacts
<1>3. 1 .. Len(out') = (1 .. Len(out)) \cup {Len(out) + 1}
  BY <1>2
<1> QED BY <1>2, <1>3 DEF SentSet

(* A step of one drain; the queue is as it was.                             *)
LEMMA OneDrain ==
  ASSUME DrainInv, TypeInv', text' = text, Handled \subseteq Handled', NEW d \in Drainers,
         \A e \in Drainers \ {d} : drain'[e] = drain[e],
         DrainFits(d)', cursor' = cursor \/ Settled(cursor)'
  PROVE  DrainInv'
<1>1. Grows /\ TypeInv /\ cursor \in Nat
  BY DEF Grows, Whole, DrainInv, TypeInv, TypeOK
<1>2. \A n \in Nat : Settled(n) => Settled(n)'
  BY <1>1, SettledStays
<1>3. Settled(cursor)'
  <2>1. CASE cursor' = cursor
    <3>1. Settled(cursor) /\ cursor \in Nat
      BY <1>1 DEF DrainInv
    <3> QED BY <1>2, <2>1, <3>1 DEF Settled
  <2> QED BY <2>1
<1>4. \A e \in Drainers \ {d} : DrainFits(e)'
  BY <1>1, FitsStays DEF DrainInv
<1> QED BY <1>3, <1>4 DEF DrainInv

LEMMA DrainRests ==
  ASSUME DrainInv, TypeInv', text' = text, NEW d \in Drainers, NEW r \in Drain, SetDrain(d, r),
         r.pc \in {"idle", "ended"}, r.count = 0, r.lines = <<>>, UNCHANGED <<cursor, out, dropped>>
  PROVE  DrainInv'
<1>1. /\ drain'[d] = r /\ \A e \in Drainers \ {d} : drain'[e] = drain[e]
      /\ Handled' = Handled /\ Len(text) \in Nat /\ Len(<<>>) = 0
  BY DrainMoves, DrainType DEF DrainInv, TypeInv, Handled, SentSet
<1>2. DrainFits(d)'
  <2>1. Settled(drain[d].count)'
    BY <1>1 DEF Settled
  <2>2. Prefix(d)'
    BY <1>1 DEF Prefix
  <2>3. AtReply(d)'
    BY <1>1 DEF AtReply
  <2> QED BY <2>1, <2>2, <2>3 DEF DrainFits
<1> QED BY <1>1, <1>2, OneDrain

LEMMA DrainLoads ==
  ASSUME DrainInv, TypeInv', NEW d \in Drainers, LoadCursor(d)
  PROVE  DrainInv'
<1>1. /\ TypeInv /\ cursor \in Nat /\ text' = text /\ UNCHANGED <<cursor, out, dropped>>
      /\ Handled' = Handled /\ Len(<<>>) = 0 /\ Len(text) \in Nat
  BY DrainType DEF DrainInv, LoadCursor, queueVars, Handled, SentSet
<1>2. /\ drain'[d].pc = "read" /\ drain'[d].count = cursor /\ drain'[d].lines = <<>>
      /\ \A e \in Drainers \ {d} : drain'[e] = drain[e]
  <2> DEFINE r == [AtRest EXCEPT !.pc = "read", !.count = cursor]
  <2>1. r \in Drain /\ r.pc = "read" /\ r.count = cursor /\ r.lines = <<>> /\ SetDrain(d, r)
    BY <1>1, RestTypes DEF LoadCursor
  <2> HIDE DEF r
  <2> QED BY <1>1, <2>1, DrainMoves DEF TypeInv
<1>3. DrainFits(d)'
  <2>1. Settled(drain[d].count)'
    BY <1>1, <1>2 DEF Settled, DrainInv, Whole
  <2>2. Prefix(d)' /\ AtReply(d)'
    BY <1>1, <1>2 DEF Prefix, AtReply
  <2> QED BY <2>1, <2>2 DEF DrainFits
<1> QED BY <1>1, <1>2, <1>3, OneDrain

LEMMA DrainReads ==
  ASSUME DrainInv, TypeInv', NEW d \in Drainers, ReadQueue(d)
  PROVE  DrainInv'
<1>1. /\ TypeInv /\ text' = text /\ UNCHANGED <<cursor, out, dropped>> /\ Handled' = Handled
      /\ drain[d].count \in Nat /\ Len(text) \in Nat /\ DrainFits(d)
  BY DrainType DEF DrainInv, ReadQueue, queueVars, Handled, SentSet
<1>2. /\ drain'[d].pc = "work" /\ drain'[d].count = drain[d].count /\ drain'[d].lines = text
      /\ \A e \in Drainers \ {d} : drain'[e] = drain[e]
  BY <1>1, DrainType DEF ReadQueue, SetDrain, Drain, TypeInv, TypeOK
<1>3. DrainFits(d)'
  <2>1. Settled(drain[d].count)'
    BY <1>1, <1>2 DEF Settled, DrainFits, Whole
  <2>2. Prefix(d)'
    BY <1>1, <1>2 DEF Prefix
  <2>3. AtReply(d)'
    BY <1>1, <1>2 DEF AtReply, DrainFits, Settled
  <2> QED BY <2>1, <2>2, <2>3 DEF DrainFits
<1> QED BY <1>1, <1>2, <1>3, OneDrain

(* A reply that was sent or dropped is settled once the count is saved.     *)
LEMMA DrainSaves ==
  ASSUME DrainInv, TypeInv', NEW d \in Drainers, text' = text, Saved(d),
         drain[d].pc \in {"work", "sent"}, drain[d].count < Len(drain[d].lines),
         NextLine(d).ids[1] \in Handled', Handled \subseteq Handled'
  PROVE  DrainInv'
<1> DEFINE n == drain[d].count
           lines == drain[d].lines
<1>1. /\ TypeInv /\ n \in Nat /\ Len(lines) \in Nat /\ Len(text) \in Nat /\ DrainFits(d)
      /\ n + 1 \in 1 .. Len(lines) /\ n + 1 <= Len(text)
  BY DrainType DEF DrainInv, DrainFits, Prefix
<1>2. /\ cursor' = n + 1 /\ drain'[d].count = n + 1 /\ drain'[d].pc = "work" /\ drain'[d].lines = lines
      /\ \A e \in Drainers \ {d} : drain'[e] = drain[e]
  BY <1>1, SavedFacts DEF TypeInv
<1>3. Whole => text[n + 1].ids = lines[n + 1].ids
  BY <1>1 DEF DrainFits, Prefix
<1>4. Whole => \A i \in 1 .. (n + 1) : text[i].ids[1] \in Handled'
  <2> SUFFICES ASSUME Whole, NEW i \in 1 .. (n + 1) PROVE text[i].ids[1] \in Handled'
    OBVIOUS
  <2>1. CASE i = n + 1
    BY <1>3, <2>1 DEF NextLine
  <2>2. CASE i \in 1 .. n
    BY <1>1, <2>2 DEF DrainFits, Settled
  <2> QED BY <1>1, <2>1, <2>2
<1> HIDE DEF n, lines
<1>5. Settled(cursor)' /\ Settled(drain[d].count)'
  BY <1>1, <1>2, <1>4 DEF Settled, Whole
<1>6. Prefix(d)'
  BY <1>1, <1>2 DEF Prefix, DrainFits, Whole, lines
<1>7. AtReply(d)'
  BY <1>1, <1>2 DEF AtReply
<1> QED BY <1>2, <1>5, <1>6, <1>7, OneDrain DEF DrainFits

LEMMA DrainSends ==
  ASSUME DrainInv, TypeInv', NEW d \in Drainers, SendReply(d)
  PROVE  DrainInv'
<1> DEFINE e == NextLine(d).ids[1]
<1>1. /\ TypeInv /\ TypeOK /\ text' = text /\ UNCHANGED <<cursor, dropped>> /\ out' = Append(out, e)
      /\ drain[d].pc = "work" /\ drain[d].count < Len(drain[d].lines) /\ DrainFits(d)
      /\ drain[d] \in Drain /\ drain \in [Drainers -> Drain]
  BY DEF DrainInv, TypeInv, TypeOK, SendReply, queueVars, HasLine, Working
<1>2. e \in Events
  BY <1>1, LineFacts DEF SendReply
<1> HIDE DEF e
<1>3. SentSet' = SentSet \cup {e} /\ Handled' = Handled \cup {e}
  BY <1>1, <1>2, SentFacts DEF Handled
<1>4. /\ drain'[d].pc = "sent" /\ drain'[d].count = drain[d].count /\ drain'[d].lines = drain[d].lines
      /\ \A x \in Drainers \ {d} : drain'[x] = drain[x]
  BY <1>1 DEF SendReply, SetDrain, Drain
<1>5. Settled(drain[d].count)' /\ Prefix(d)'
  BY <1>1, <1>3, <1>4 DEF DrainFits, Settled, Prefix, Whole
<1>6. AtReply(d)'
  BY <1>1, <1>3, <1>4 DEF DrainFits, AtReply, NextLine, e
<1> QED BY <1>1, <1>3, <1>4, <1>5, <1>6, OneDrain DEF DrainFits

LEMMA DrainMissing ==
  ASSUME DrainInv, TypeInv', NEW d \in Drainers, QueueMissing(d)
  PROVE  DrainInv'
<1>1. /\ TypeInv /\ text' = text /\ UNCHANGED <<cursor, out, dropped>> /\ Handled' = Handled
      /\ drain[d].count \in Nat /\ Len(text) \in Nat /\ DrainFits(d)
  BY DrainType DEF DrainInv, QueueMissing, queueVars, Handled, SentSet
<1>2. /\ drain'[d].pc = "missing" /\ drain'[d].count = drain[d].count
      /\ drain'[d].lines = drain[d].lines
      /\ \A e \in Drainers \ {d} : drain'[e] = drain[e]
  BY <1>1, DrainType DEF QueueMissing, SetDrain, Drain, TypeInv, TypeOK
<1>3. DrainFits(d)'
  BY <1>1, <1>2 DEF DrainFits, Settled, Prefix, AtReply, Whole
<1> QED BY <1>1, <1>2, <1>3, OneDrain

(* What is saved was settled when it was loaded.                            *)
LEMMA DrainSavesLoaded ==
  ASSUME DrainInv, TypeInv', NEW d \in Drainers, SaveLoaded(d)
  PROVE  DrainInv'
<1>1. /\ TypeInv /\ text' = text /\ UNCHANGED <<out, dropped>> /\ Handled' = Handled
      /\ drain[d].count \in Nat /\ Len(text) \in Nat /\ DrainFits(d) /\ Len(<<>>) = 0
      /\ cursor' = drain[d].count
  BY DrainType DEF DrainInv, SaveLoaded, queueVars, Handled, SentSet
<1>2. drain'[d] = AtRest /\ \A e \in Drainers \ {d} : drain'[e] = drain[e]
  BY <1>1, RestTypes, DrainMoves DEF SaveLoaded, TypeInv
<1>3. Settled(cursor)'
  BY <1>1 DEF DrainFits, Settled, Whole
<1>4. DrainFits(d)'
  <2>1. drain'[d].count = 0 /\ drain'[d].lines = <<>> /\ drain'[d].pc = "idle"
    BY <1>2, RestTypes
  <2>2. Settled(drain[d].count)' /\ Prefix(d)'
    BY <1>1, <2>1 DEF Settled, Prefix
  <2>3. AtReply(d)'
    BY <2>1 DEF AtReply
  <2> QED BY <2>2, <2>3 DEF DrainFits
<1> QED BY <1>1, <1>2, <1>3, <1>4, OneDrain

LEMMA DrainSteps ==
  ASSUME DrainInv, TypeInv', NEW d \in Drainers,
         DrainStep(d) \/ SendFailed(d) \/ DrainDies(d) \/ Restart(d)
  PROVE  DrainInv'
<1>1. TypeInv /\ TypeOK /\ DrainFits(d)
  BY DEF DrainInv, TypeInv
<1>2. CASE LoadCursor(d)
  BY <1>2, DrainLoads
<1>3. CASE ReadQueue(d)
  BY <1>3, DrainReads
<1>4. CASE DrainedAll(d) \/ Restart(d)
  BY <1>4, RestTypes, DrainRests DEF DrainedAll, Restart, queueVars
<1>5. CASE ParseFailed(d) \/ SendFailed(d) \/ DrainDies(d)
  BY <1>5, RestTypes, DrainRests DEF ParseFailed, SendFailed, DrainDies, queueVars
<1>6. CASE SkipReply(d)
  <2>1. /\ NextLine(d).ids[1] \in Handled' /\ Handled \subseteq Handled' /\ text' = text
        /\ drain[d].pc = "work" /\ drain[d].count < Len(drain[d].lines) /\ Saved(d)
    BY <1>6 DEF SkipReply, Handled, SentSet, queueVars, HasLine, Working
  <2> QED BY <2>1, DrainSaves
<1>7. CASE SendReply(d)
  BY <1>7, DrainSends
<1>8. CASE SaveCursor(d)
  <2>1. /\ drain[d].pc = "sent" /\ Saved(d) /\ text' = text /\ Handled' = Handled
    BY <1>8 DEF SaveCursor, Handled, SentSet, queueVars
  <2>2. NextLine(d).ids[1] \in Handled /\ drain[d].count < Len(drain[d].lines)
    BY <1>1, <2>1 DEF DrainFits, AtReply
  <2> QED BY <2>1, <2>2, DrainSaves
<1>9. CASE QueueMissing(d) \/ SaveLoaded(d)
  BY <1>9, DrainMissing, DrainSavesLoaded
<1> QED BY <1>2, <1>3, <1>4, <1>5, <1>6, <1>7, <1>8, <1>9 DEF DrainStep

LEMMA DrainInvInit == Init => DrainInv
<1> SUFFICES ASSUME Init PROVE DrainInv
  OBVIOUS
<1>1. TypeInv /\ cursor = 0 /\ text = <<>> /\ drain = [d \in Drainers |-> AtRest]
  BY TypeInit DEF Init
<1>2. Settled(0)
  BY <1>1 DEF Settled
<1>3. ASSUME NEW d \in Drainers
      PROVE  DrainFits(d)
  <2>1. drain[d].count = 0 /\ drain[d].lines = <<>> /\ drain[d].pc = "idle"
    BY <1>1, RestTypes
  <2>2. Settled(drain[d].count) /\ Prefix(d) /\ AtReply(d)
    BY <1>1, <1>2, <2>1 DEF Prefix, AtReply
  <2> QED BY <2>2 DEF DrainFits
<1> QED BY <1>1, <1>2, <1>3 DEF DrainInv

LEMMA DrainInvStep ==
  ASSUME DrainInv, [Next]_vars
  PROVE  DrainInv'
<1>0. TypeInv /\ TypeInv' /\ Grows
  BY TypeStep, Growth DEF DrainInv
<1>1. CASE UNCHANGED <<cursor, drain, out, dropped>>
  <2>1. Handled' = Handled
    BY <1>1 DEF Handled, SentSet
  <2>2. \A d \in Drainers : DrainFits(d)'
    BY <1>0, <1>1, <2>1, FitsStays DEF DrainInv
  <2>3. \A n \in Nat : Settled(n) => Settled(n)'
    BY <1>0, <2>1, SettledStays
  <2>4. Settled(cursor)'
    <3>1. cursor \in Nat /\ cursor' = cursor /\ Settled(cursor)
      BY <1>0, <1>1 DEF TypeInv, TypeOK, DrainInv
    <3> QED BY <2>3, <3>1 DEF Settled
  <2> QED BY <1>0, <2>2, <2>4 DEF DrainInv
<1>2. CASE \E d \in Drainers : DrainStep(d) \/ SendFailed(d) \/ DrainDies(d) \/ Restart(d)
  BY <1>0, <1>2, DrainSteps
<1> QED BY <1>1, <1>2 DEF Next, Record, ReadLedger, AppendEvent, QueueReply, EndLine, RunDies, DoctorReads,
       DoctorAppends, vars, drainVars

(* As long as every line of the queue holds one reply, what the cursor has  *)
(* passed was sent or had no session (drain_once, src/channel/drain.rs).    *)
THEOREM NothingIsSkipped == Spec => []NothingSkipped
<1>1. Init => DrainInv
  BY DrainInvInit
<1>2. DrainInv /\ [Next]_vars => DrainInv'
  BY DrainInvStep
<1>3. DrainInv => NothingSkipped
  BY DEF DrainInv, Settled, NothingSkipped, Handled
<1> QED BY <1>1, <1>2, <1>3, PTL DEF Spec

------------------------------------------------------------------------------
(* The drains implement ReplyQueue.  A reply is queued once, for a thread   *)
(* queues the event it just recorded and all it queued before are older.    *)

Older(e, r) == /\ e[2] <= r[e[1]].n
               /\ r[e[1]].pc \in {"append", "queue"} => e[2] < r[e[1]].n
QueuedOlder == Whole => \A i \in 1 .. Len(text) : Older(text[i].ids[1], rec)
RefInv == DrainInv /\ QueuedOlder

LEMMA WholeType ==
  ASSUME TypeInv, Whole, NEW i \in 1 .. Len(text)
  PROVE  text[i].ids[1] \in Events /\ text[i].ids \in Seq(Events) /\ Len(text[i].ids) = 1
<1>1. text[i] \in Line
  BY ElementOfSeq DEF TypeInv, TypeOK
<1>2. text[i].ids \in Seq(Events) /\ Len(text[i].ids) = 1
  BY <1>1 DEF Line, Whole, Parses
<1>3. text[i].ids[1] \in Events
  BY <1>2, ElementOfSeq
<1> QED BY <1>2, <1>3

(* The reply of a step that leaves the queue whole.                         *)
LEMMA WholeReply ==
  ASSUME TypeInv, NEW t \in Threads, QueueReply(t), Whole'
  PROVE  /\ Whole /\ Event(t) \in Events /\ Len(text) \in Nat
         /\ Len(text') = Len(text) + 1
         /\ \A i \in 1 .. Len(text) : text'[i].ids = text[i].ids
         /\ text'[Len(text) + 1].ids[1] = Event(t)
<1>1. Event(t) \in Events /\ text' = WithReply(text, Event(t)) /\ text \in Seq(Line) /\ Len(text) \in Nat
  BY EventType, LenProperties DEF QueueReply, TypeInv, TypeOK
<1>2. Grows /\ Whole
  BY <1>1, ReplyGrows DEF Grows
<1>3. ~IsOpen(text)
  <2> SUFFICES ASSUME IsOpen(text) PROVE FALSE
    OBVIOUS
  <2> DEFINE n == Len(text)
  <2>1. n \in 1 .. n /\ Len(text') = n /\ text'[n].ids = Append(text[n].ids, Event(t))
        /\ Len(text[n].ids) >= 1
    BY <1>1, ReplyWritten
  <2>2. text[n].ids \in Seq(Events)
    BY <1>2, <2>1, WholeType
  <2>3. Len(text'[n].ids) = Len(text[n].ids) + 1 /\ Len(text[n].ids) \in Nat
    BY <1>1, <2>1, <2>2, AppendFacts
  <2>4. Len(text'[n].ids) = 1
    BY <2>1 DEF Whole, Parses
  <2> QED BY <2>1, <2>3, <2>4
<1>4. /\ Len(text') = Len(text) + 1
      /\ \A i \in 1 .. Len(text) : text'[i] = text[i]
      /\ text'[Len(text) + 1] = [ids |-> <<Event(t)>>, closed |-> FALSE]
  BY <1>1, <1>3, ReplyWritten
<1> QED BY <1>1, <1>2, <1>4

LEMMA OlderRecords ==
  ASSUME TypeInv, TypeInv', QueuedOlder, Grows, NEW t \in Threads, Record(t)
  PROVE  QueuedOlder'
<1> SUFFICES ASSUME Whole', NEW i \in 1 .. Len(text')
             PROVE  Older(text'[i].ids[1], rec')
  BY DEF QueuedOlder, Older
<1> DEFINE e == text'[i].ids[1]
<1>1. /\ rec \in [Threads -> Recorder] /\ rec' \in [Threads -> Recorder] /\ Len(text) \in Nat
      /\ rec[t].n \in Nat /\ rec'[t].n \in Nat /\ Whole
  BY LenProperties DEF TypeInv, TypeOK, Recorder, Grows
<1>2. \A k \in 1 .. Len(text) : /\ text[k].ids[1] \in Events /\ Older(text[k].ids[1], rec)
                                /\ text'[k].ids[1] = text[k].ids[1]
  BY <1>1, WholeType DEF QueuedOlder, Grows
<1>3. \A u \in Threads \ {t} : rec'[u] = rec[u]
  BY <1>1 DEF Record, ReadLedger, AppendEvent, QueueReply, EndLine
<1>4. CASE i \in 1 .. Len(text)
  <2>1. e \in Events /\ Older(e, rec) /\ e[1] \in Threads /\ e[2] \in Nat
    <3>1. e \in Events /\ Older(e, rec)
      BY <1>2, <1>4
    <3> HIDE DEF e
    <3>2. e[1] \in Threads /\ e[2] \in Nat
      BY <3>1, EventParts
    <3> QED BY <3>1, <3>2
  <2>2. CASE e[1] # t
    BY <1>3, <2>1, <2>2 DEF Older
  <2>3. CASE e[1] = t
    <3>1. CASE ReadLedger(t)
      <4>1. rec'[t].n = rec[t].n + 1
        BY <1>1, <3>1 DEF ReadLedger
      <4> QED BY <1>1, <2>1, <2>3, <4>1 DEF Older
    <3>2. CASE AppendEvent(t)
      <4>1. rec'[t].n = rec[t].n /\ rec[t].pc = "append"
        BY <1>1, <3>2 DEF AppendEvent, Recorder
      <4> QED BY <1>1, <2>1, <2>3, <4>1 DEF Older
    <3>3. CASE QueueReply(t) \/ EndLine(t)
      <4>1. rec'[t].n = rec[t].n /\ rec'[t].pc \in {"newline", "idle"}
        BY <1>1, <3>3 DEF QueueReply, EndLine, Recorder
      <4> QED BY <1>1, <2>1, <2>3, <4>1 DEF Older
    <3> QED BY <3>1, <3>2, <3>3 DEF Record
  <2> QED BY <2>2, <2>3
<1>5. CASE i \notin 1 .. Len(text)
  <2>1. CASE QueueReply(t)
    <3>1. i = Len(text) + 1 /\ e = Event(t)
      BY <1>5, <2>1, WholeReply
    <3>2. rec'[t].n = rec[t].n /\ rec'[t].pc = "newline"
      BY <1>1, <2>1 DEF QueueReply, Recorder
    <3>3. e[1] = t /\ e[2] = rec[t].n
      BY <3>1 DEF Event
    <3> QED BY <1>1, <3>2, <3>3 DEF Older
  <2>2. CASE EndLine(t)
    <3>1. ~IsOpen(text) /\ text'[Len(text) + 1] = [ids |-> <<>>, closed |-> TRUE]
          /\ Len(text') = Len(text) + 1
      BY <1>1, <1>5, <2>2, NewlineWritten DEF EndLine
    <3>2. Len(text'[Len(text) + 1].ids) = 0 /\ Len(text) + 1 \in 1 .. Len(text')
      BY <1>1, <3>1
    <3> QED BY <3>2 DEF Whole, Parses
  <2>3. CASE ReadLedger(t) \/ AppendEvent(t)
    BY <1>5, <2>3 DEF ReadLedger, AppendEvent, queueVars
  <2> QED BY <2>1, <2>2, <2>3 DEF Record
<1> QED BY <1>4, <1>5

LEMMA RefStep ==
  ASSUME RefInv, [Next]_vars
  PROVE  RefInv'
<1>0. TypeInv /\ TypeInv' /\ Grows /\ DrainInv' /\ QueuedOlder
  BY TypeStep, Growth, DrainInvStep DEF RefInv, DrainInv
<1>1. CASE UNCHANGED <<text, rec>>
  BY <1>0, <1>1 DEF RefInv, QueuedOlder, Older, Whole
<1>2. CASE \E t \in Threads : Record(t)
  BY <1>0, <1>2, OlderRecords DEF RefInv
<1> QED BY <1>1, <1>2 DEF Next, RunDies, DoctorReads, DoctorAppends, DrainStep, LoadCursor, QueueMissing, SaveLoaded,
       ReadQueue, DrainedAll, ParseFailed, SkipReply, SendReply, SaveCursor, SendFailed, DrainDies, Restart,
       vars, queueVars

(* The replies of lines that hold one each.                                 *)
LEMMA RepliesOf ==
  ASSUME NEW lines \in Seq(Line), \A i \in 1 .. Len(lines) : Parses(lines[i])
  PROVE  LET q == [i \in 1 .. Len(lines) |-> lines[i].ids[1]]
         IN  /\ q \in Seq(Events) /\ Len(q) = Len(lines)
             /\ \A i \in 1 .. Len(lines) : q[i] = lines[i].ids[1]
<1> DEFINE q == [i \in 1 .. Len(lines) |-> lines[i].ids[1]]
<1>1. Len(lines) \in Nat
  BY LenProperties
<1>2. ASSUME NEW i \in 1 .. Len(lines)
      PROVE  lines[i].ids[1] \in Events
  <2>1. lines[i] \in Line
    BY ElementOfSeq
  <2>2. lines[i].ids \in Seq(Events) /\ Len(lines[i].ids) = 1
    BY <2>1 DEF Line, Parses
  <2> QED BY <2>2, ElementOfSeq
<1>3. q \in [1 .. Len(lines) -> Events]
  BY <1>2
<1> HIDE DEF q
<1>4. q \in Seq(Events) /\ Len(q) = Len(lines)
  BY <1>1, <1>3, SeqDef, LenProperties
<1> QED BY <1>4 DEF q

(* The views of ReplyQueue.                                                 *)
LEMMA Views ==
  ASSUME TypeInv, Whole
  PROVE  /\ QueueView \in Seq(Events) /\ Len(QueueView) = Len(text)
         /\ \A i \in 1 .. Len(text) : QueueView[i] = text[i].ids[1]
         /\ OutView = out /\ DroppedView = dropped
         /\ Queue!Delivered = SentSet
<1>1. text \in Seq(Line) /\ \A i \in 1 .. Len(text) : Parses(text[i])
  BY DEF TypeInv, TypeOK, Whole
<1>2. QueueView = [i \in 1 .. Len(text) |-> text[i].ids[1]]
  BY DEF QueueView
<1>3. OutView = out /\ DroppedView = dropped
  BY DEF OutView, DroppedView
<1> QED BY <1>1, <1>2, <1>3, RepliesOf DEF Queue!Delivered, SentSet

LEMMA Spoilt ==
  ASSUME ~Whole'
  PROVE  Queue!Spoil
<1>1. QueueView' = <<>> /\ OutView' = <<>> /\ DroppedView' = {}
  BY DEF QueueView, OutView, DroppedView
<1>2. (~Whole)' = TRUE
  OBVIOUS
<1> QED BY <1>1, <1>2 DEF Queue!Spoil

LEMMA SameQueue ==
  ASSUME TypeInv, TypeInv', Whole, Whole', Grows, Len(text') = Len(text)
  PROVE  QueueView' = QueueView
<1>1. Len(text) \in Nat
  BY LenProperties DEF TypeInv, TypeOK
<1>2. \A i \in 1 .. Len(text) : text'[i].ids = text[i].ids
  BY DEF Grows
<1> QED BY <1>1, <1>2 DEF QueueView

LEMMA Stutters ==
  ASSUME Whole, Whole', QueueView' = QueueView, UNCHANGED <<out, dropped>>
  PROVE  UNCHANGED Queue!vars
<1>1. OutView' = OutView /\ DroppedView' = DroppedView
  BY DEF OutView, DroppedView
<1>2. (~Whole)' = ~Whole
  OBVIOUS
<1> QED BY <1>1, <1>2 DEF Queue!vars

LEMMA ImplEnqueue ==
  ASSUME RefInv, TypeInv', NEW t \in Threads, QueueReply(t), Whole'
  PROVE  Queue!Enqueue(Event(t)) /\ Event(t) \in Events
<1>0. TypeInv /\ Whole
  BY WholeReply DEF RefInv, DrainInv
<1>1. /\ Event(t) \in Events /\ Len(text) \in Nat /\ Len(text') = Len(text) + 1
      /\ \A i \in 1 .. Len(text) : text'[i].ids = text[i].ids
      /\ text'[Len(text) + 1].ids[1] = Event(t)
  BY <1>0, WholeReply
<1>2. /\ QueueView \in Seq(Events) /\ Len(QueueView) = Len(text)
      /\ \A i \in 1 .. Len(text) : QueueView[i] = text[i].ids[1]
  BY <1>0, Views
<1>3. /\ QueueView' \in Seq(Events) /\ Len(QueueView') = Len(text')
      /\ \A i \in 1 .. Len(text') : QueueView'[i] = text'[i].ids[1]
  <2>1. text' \in Seq(Line) /\ \A i \in 1 .. Len(text') : Parses(text'[i])
    BY DEF TypeInv, TypeOK, Whole, Parses
  <2>2. QueueView' = [i \in 1 .. Len(text') |-> text'[i].ids[1]]
    BY DEF QueueView
  <2> QED BY <2>1, <2>2, RepliesOf
<1>4. /\ Append(QueueView, Event(t)) \in Seq(Events)
      /\ Len(Append(QueueView, Event(t))) = Len(text) + 1
      /\ \A i \in 1 .. Len(text) : Append(QueueView, Event(t))[i] = QueueView[i]
      /\ Append(QueueView, Event(t))[Len(text) + 1] = Event(t)
  BY <1>1, <1>2, AppendFacts
<1>5. QueueView' = Append(QueueView, Event(t))
  <2>1. \A i \in 1 .. Len(QueueView') : i \in 1 .. Len(text) \/ i = Len(text) + 1
    BY <1>1, <1>3
  <2>2. \A i \in 1 .. Len(QueueView') : QueueView'[i] = Append(QueueView, Event(t))[i]
    BY <1>1, <1>2, <1>3, <1>4, <2>1
  <2> QED BY <1>1, <1>3, <1>4, <2>2, SeqEqual
<1>6. \A i \in 1 .. Len(QueueView) : QueueView[i] # Event(t)
  <2> SUFFICES ASSUME NEW i \in 1 .. Len(text), text[i].ids[1] = Event(t) PROVE FALSE
    BY <1>2
  <2>1. Older(Event(t), rec)
    BY <1>0 DEF RefInv, QueuedOlder
  <2>2. Event(t)[1] = t /\ Event(t)[2] = rec[t].n /\ rec[t].pc = "queue"
    BY DEF Event, QueueReply
  <2> QED BY <1>0, <2>1, <2>2, EventType DEF Older
<1>7. UNCHANGED <<OutView, DroppedView>> /\ (~Whole)' = ~Whole
  <2>1. UNCHANGED <<out, dropped>>
    BY DEF QueueReply, drainVars
  <2> QED BY <1>0, <2>1 DEF OutView, DroppedView
<1> QED BY <1>1, <1>5, <1>6, <1>7 DEF Queue!Enqueue

(* The turn of the reply a drain sends or drops.                            *)
LEMMA TurnOfNext ==
  ASSUME RefInv, Whole, NEW d \in Drainers, HasLine(d), Parses(NextLine(d))
  PROVE  /\ drain[d].count + 1 \in 1 .. Len(QueueView)
         /\ QueueView[drain[d].count + 1] = NextLine(d).ids[1]
         /\ Queue!TurnOf(drain[d].count + 1)
<1> DEFINE n == drain[d].count
<1>1. /\ TypeInv /\ TypeOK /\ DrainFits(d) /\ n \in Nat /\ Len(text) \in Nat /\ n + 1 \in 1 .. Len(text)
      /\ n + 1 \in 1 .. Len(drain[d].lines)
  BY DrainType, LineFacts DEF RefInv, DrainInv, TypeInv, DrainFits, Prefix
<1>2. /\ Len(QueueView) = Len(text) /\ \A i \in 1 .. Len(text) : QueueView[i] = text[i].ids[1]
      /\ DroppedView = dropped /\ Queue!Delivered = SentSet
  BY <1>1, Views
<1>3. text[n + 1].ids = NextLine(d).ids
  BY <1>1 DEF DrainFits, Prefix, NextLine
<1>4. \A j \in 1 .. ((n + 1) - 1) : QueueView[j] \in Queue!Delivered \cup DroppedView
  <2>1. \A j \in 1 .. ((n + 1) - 1) : j \in 1 .. n /\ j \in 1 .. Len(text)
    BY <1>1
  <2> QED BY <1>1, <1>2, <2>1 DEF DrainFits, Settled, Handled
<1> QED BY <1>1, <1>2, <1>3, <1>4 DEF Queue!TurnOf

LEMMA ImplDeliver ==
  ASSUME RefInv, TypeInv', Whole', Whole, NEW d \in Drainers, SendReply(d)
  PROVE  \E i \in 1 .. Len(QueueView) : Queue!Deliver(i)
<1> DEFINE i == drain[d].count + 1
<1>1. /\ i \in 1 .. Len(QueueView) /\ QueueView[i] = NextLine(d).ids[1] /\ Queue!TurnOf(i)
  BY TurnOfNext DEF SendReply
<1>2. /\ out' = Append(out, QueueView[i]) /\ text' = text /\ dropped' = dropped
  BY <1>1 DEF SendReply, queueVars
<1>3. OutView' = Append(OutView, QueueView[i]) /\ DroppedView' = DroppedView
  BY <1>2 DEF OutView, DroppedView
<1>4. QueueView' = QueueView /\ (~Whole)' = ~Whole
  BY <1>2 DEF QueueView, Whole
<1> QED BY <1>1, <1>3, <1>4 DEF Queue!Deliver

LEMMA ImplDrop ==
  ASSUME RefInv, TypeInv', Whole', Whole, NEW d \in Drainers, SkipReply(d)
  PROVE  \E i \in 1 .. Len(QueueView) : Queue!Drop(i)
<1> DEFINE i == drain[d].count + 1
<1>1. /\ i \in 1 .. Len(QueueView) /\ QueueView[i] = NextLine(d).ids[1] /\ Queue!TurnOf(i)
  BY TurnOfNext DEF SkipReply
<1>2. /\ dropped' = dropped \cup {QueueView[i]} /\ text' = text /\ out' = out
  BY <1>1 DEF SkipReply, queueVars
<1>3. DroppedView' = DroppedView \cup {QueueView[i]} /\ OutView' = OutView
  BY <1>2 DEF OutView, DroppedView
<1>4. QueueView' = QueueView /\ (~Whole)' = ~Whole
  BY <1>2 DEF QueueView, Whole
<1> QED BY <1>1, <1>3, <1>4 DEF Queue!Drop

LEMMA ImplStep ==
  ASSUME RefInv, [Next]_vars
  PROVE  [Queue!Next]_(Queue!vars)
<1>0. TypeInv /\ TypeInv' /\ Grows
  BY TypeStep, Growth DEF RefInv, DrainInv
<1>1. CASE ~Whole'
  BY <1>1, Spoilt DEF Queue!Next
<1>2. CASE Whole'
  <2>0. Whole
    BY <1>0, <1>2 DEF Grows
  <2>1. CASE \E t \in Threads : QueueReply(t)
    BY <1>0, <1>2, <2>0, <2>1, ImplEnqueue DEF Queue!Next
  <2>2. CASE \E d \in Drainers : SendReply(d)
    BY <1>0, <1>2, <2>0, <2>2, ImplDeliver DEF Queue!Next
  <2>3. CASE \E d \in Drainers : SkipReply(d)
    BY <1>0, <1>2, <2>0, <2>3, ImplDrop DEF Queue!Next
  <2>4. CASE \E t \in Threads : EndLine(t)
    <3>1. PICK t \in Threads : EndLine(t)
      BY <2>4
    <3>2. Len(text') = Len(text)
      <4>1. CASE IsOpen(text)
        BY <1>0, <3>1, <4>1, NewlineWritten DEF EndLine
      <4>2. CASE ~IsOpen(text)
        <5>1. /\ text'[Len(text) + 1] = [ids |-> <<>>, closed |-> TRUE]
              /\ Len(text') = Len(text) + 1
          BY <1>0, <3>1, <4>2, NewlineWritten DEF EndLine
        <5>2. Len(text) + 1 \in 1 .. Len(text') /\ Len(text'[Len(text) + 1].ids) # 1
          BY <1>0, <5>1, EmptySeq, LenProperties DEF TypeInv, TypeOK
        <5>3. Len(text'[Len(text) + 1].ids) = 1
          BY <1>2, <5>2 DEF Whole, Parses
        <5> QED BY <5>2, <5>3
      <4> QED BY <4>1, <4>2
    <3>3. UNCHANGED <<out, dropped>>
      BY <3>1 DEF EndLine, drainVars
    <3> QED BY <1>0, <1>2, <2>0, <3>2, <3>3, SameQueue, Stutters
  <2>5. CASE UNCHANGED <<text, out, dropped>>
    BY <1>0, <1>2, <2>0, <2>5, SameQueue, Stutters
  <2> QED BY <2>1, <2>2, <2>3, <2>4, <2>5 DEF Next, Record, ReadLedger, AppendEvent, RunDies, DoctorReads,
         DoctorAppends, DrainStep, LoadCursor, QueueMissing, SaveLoaded, ReadQueue, DrainedAll, ParseFailed, SaveCursor,
         SendFailed, DrainDies, Restart, vars, queueVars, drainVars
<1> QED BY <1>1, <1>2

(* The drains keep the promise of ReplyQueue: replies are delivered in the  *)
(* order they were queued and none is passed over, until two appends run    *)
(* into each other (drain_once, src/channel/drain.rs).                      *)
THEOREM ImplementsReplyQueue == Spec => DeliversInOrder
<1>1. Init => RefInv
  <2> SUFFICES ASSUME Init PROVE RefInv
    OBVIOUS
  <2>1. DrainInv /\ text = <<>>
    BY DrainInvInit DEF Init
  <2> QED BY <2>1 DEF RefInv, QueuedOlder
<1>2. RefInv /\ [Next]_vars => RefInv'
  BY RefStep
<1>3. Init => Queue!Init
  <2> SUFFICES ASSUME Init PROVE Queue!Init
    OBVIOUS
  <2>1. TypeInv /\ text = <<>> /\ out = <<>> /\ dropped = {}
    BY TypeInit DEF Init
  <2>2. Whole /\ Len(text) = 0
    BY <2>1 DEF Whole
  <2>3. QueueView = <<>>
    BY <2>1, <2>2, Views, EmptySeq
  <2>4. OutView = <<>> /\ DroppedView = {}
    BY <2>1, <2>2 DEF OutView, DroppedView
  <2>5. (~Whole) = FALSE
    BY <2>2
  <2> QED BY <2>3, <2>4, <2>5 DEF Queue!Init
<1>4. RefInv /\ [Next]_vars => [Queue!Next]_(Queue!vars)
  BY ImplStep
<1> QED BY <1>1, <1>2, <1>3, <1>4, PTL DEF Spec, DeliversInOrder, Queue!Spec

------------------------------------------------------------------------------
(* Copies.  A reply is in one line of the queue, and a drain on its own has *)
(* sent what its cursor has not passed only as often as it died or failed.  *)

Ids(line) == {line.ids[k] : k \in 1 .. Len(line.ids)}
Held(i)   == IF i <= Len(text) THEN Ids(text[i]) ELSE {}

QueuedAreOld ==
  \A i \in 1 .. Len(text) : \A e \in Ids(text[i]) : e \in Events /\ Older(e, rec)
OnePlace ==
  \A i, j \in 1 .. Len(text) : \A e \in Ids(text[i]) \cap Ids(text[j]) : i = j
SnapshotsKept ==
  \A d \in Drainers : \A i \in 1 .. Len(drain[d].lines) : Ids(drain[d].lines[i]) \subseteq Ids(text[i])
QueueInv == DrainInv /\ QueuedAreOld /\ OnePlace /\ SnapshotsKept

(* The lines up to the n-th hold e; what they do not hold is paid for.      *)
SeenBy(n, e) == \E i \in 1 .. n : e \in Ids(text[i])
PaidUpTo(n)  == \A e \in Events : /\ Copies(e) <= 1 + trouble
                                  /\ SeenBy(n, e) \/ Copies(e) <= trouble
Passed(d)    == IF drain[d].pc = "sent" THEN cursor + 1 ELSE cursor
Lonely(d) ==
  /\ \A x \in Drainers \ {d} : drain[x].pc = "idle"
  /\ drain[d].pc \in {"read", "missing", "work", "sent"} => drain[d].count = cursor
  /\ PaidUpTo(Passed(d))
CopyInv == QueueInv /\ \A d \in Drainers : team.drains = {d} => Lonely(d)

LEMMA LineIds ==
  ASSUME TypeInv, NEW i \in 1 .. Len(text)
  PROVE  text[i] \in Line /\ text[i].ids \in Seq(Events) /\ Ids(text[i]) \subseteq Events
<1>1. text[i] \in Line
  BY ElementOfSeq DEF TypeInv, TypeOK
<1>2. text[i].ids \in Seq(Events)
  BY <1>1 DEF Line
<1>3. \A k \in 1 .. Len(text[i].ids) : text[i].ids[k] \in Events
  BY <1>2, ElementOfSeq
<1> QED BY <1>1, <1>2, <1>3 DEF Ids

LEMMA IdsOfReply ==
  ASSUME TypeInv, NEW e \in Events, text' = WithReply(text, e)
  PROVE  /\ Len(text) <= Len(text')
         /\ \E p \in 1 .. Len(text') : \A i \in 1 .. Len(text') :
              Ids(text'[i]) = Held(i) \cup (IF i = p THEN {e} ELSE {})
<1>1. text \in Seq(Line) /\ Len(text) \in Nat
  BY LenProperties DEF TypeInv, TypeOK
<1>2. CASE IsOpen(text)
  <2> DEFINE n == Len(text)
  <2>1. /\ Len(text') = n /\ n \in 1 .. n
        /\ \A i \in 1 .. (n - 1) : text'[i] = text[i]
        /\ text'[n].ids = Append(text[n].ids, e)
    <3>1. /\ Len(text') = n /\ n >= 1
          /\ \A i \in 1 .. (n - 1) : text'[i] = text[i]
          /\ text'[n].ids = Append(text[n].ids, e)
      BY <1>2, ReplyWritten, Zenon
    <3>2. n \in 1 .. n
      BY <1>1, <3>1
    <3> QED BY <3>1, <3>2
  <2>2. text[n].ids \in Seq(Events)
    BY <2>1, LineIds
  <2>3. Ids(text'[n]) = Ids(text[n]) \cup {e}
    <3> DEFINE s == text[n].ids
    <3>1. /\ Len(s) \in Nat /\ Len(Append(s, e)) = Len(s) + 1
          /\ \A k \in 1 .. Len(s) : Append(s, e)[k] = s[k]
          /\ Append(s, e)[Len(s) + 1] = e
      BY <2>2, AppendFacts
    <3>2. 1 .. (Len(s) + 1) = (1 .. Len(s)) \cup {Len(s) + 1}
      BY <3>1
    <3> QED BY <2>1, <3>1, <3>2 DEF Ids
  <2>4. \A i \in 1 .. n : Ids(text'[i]) = Held(i) \cup (IF i = n THEN {e} ELSE {})
    <3> TAKE i \in 1 .. n
    <3>1. CASE i = n
      BY <1>1, <2>3, <3>1 DEF Held
    <3>2. CASE i # n
      <4>1. i \in 1 .. (n - 1) /\ i <= Len(text)
        BY <1>1, <3>2
      <4>2. Held(i) = Ids(text[i]) /\ text'[i] = text[i]
        BY <2>1, <4>1 DEF Held
      <4> QED BY <3>2, <4>2
    <3> QED BY <3>1, <3>2
  <2>5. \A i \in 1 .. Len(text') : Ids(text'[i]) = Held(i) \cup (IF i = n THEN {e} ELSE {})
    BY <2>1, <2>4
  <2>6. n \in 1 .. Len(text') /\ Len(text) <= Len(text')
    BY <1>1, <2>1
  <2> HIDE DEF n
  <2> QED BY <2>5, <2>6
<1>3. CASE ~IsOpen(text)
  <2> DEFINE n == Len(text)
             line == [ids |-> <<e>>, closed |-> FALSE]
  <2>1. /\ Len(text') = n + 1 /\ \A i \in 1 .. n : text'[i] = text[i]
        /\ text'[n + 1] = line
    BY <1>3, ReplyWritten
  <2>2. Ids(line) = {e}
    <3>1. line.ids = <<e>> /\ Len(<<e>>) = 1 /\ <<e>>[1] = e
      OBVIOUS
    <3> QED BY <3>1 DEF Ids
  <2> HIDE DEF line
  <2>3. \A i \in 1 .. (n + 1) : Ids(text'[i]) = Held(i) \cup (IF i = n + 1 THEN {e} ELSE {})
    <3> TAKE i \in 1 .. (n + 1)
    <3>1. CASE i = n + 1
      <4>1. Held(i) = {}
        BY <1>1, <3>1 DEF Held
      <4> QED BY <2>1, <2>2, <3>1, <4>1
    <3>2. CASE i # n + 1
      <4>1. i \in 1 .. n /\ i <= Len(text)
        BY <1>1, <3>2
      <4>2. Held(i) = Ids(text[i]) /\ text'[i] = text[i]
        BY <2>1, <4>1 DEF Held
      <4> QED BY <3>2, <4>2
    <3> QED BY <3>1, <3>2
  <2>4. n + 1 \in 1 .. Len(text') /\ Len(text) <= Len(text')
    BY <1>1, <2>1
  <2>5. \A i \in 1 .. Len(text') : Ids(text'[i]) = Held(i) \cup (IF i = n + 1 THEN {e} ELSE {})
    BY <2>1, <2>3
  <2> HIDE DEF n
  <2> QED BY <2>4, <2>5
<1> QED BY <1>2, <1>3

LEMMA IdsOfNewline ==
  ASSUME TypeInv, text' = WithNewline(text)
  PROVE  /\ Len(text) <= Len(text')
         /\ \A i \in 1 .. Len(text') : Ids(text'[i]) = Held(i)
<1>1. text \in Seq(Line) /\ Len(text) \in Nat
  BY LenProperties DEF TypeInv, TypeOK
<1>2. CASE IsOpen(text)
  <2>1. Len(text') = Len(text) /\ \A i \in 1 .. Len(text) : text'[i].ids = text[i].ids
    BY <1>2, NewlineWritten
  <2> QED BY <1>1, <2>1 DEF Ids, Held
<1>3. CASE ~IsOpen(text)
  <2> DEFINE n == Len(text)
             line == [ids |-> <<>>, closed |-> TRUE]
  <2>1. /\ Len(text') = n + 1 /\ \A i \in 1 .. n : text'[i] = text[i]
        /\ text'[n + 1] = line
    BY <1>3, NewlineWritten
  <2>2. Ids(line) = {}
    <3>1. line.ids = <<>> /\ Len(<<>>) = 0
      OBVIOUS
    <3> QED BY <3>1 DEF Ids
  <2> HIDE DEF line
  <2>3. \A i \in 1 .. (n + 1) : i \in 1 .. n \/ i = n + 1
    BY <1>1
  <2>4. \A i \in 1 .. n : i <= Len(text)
    BY <1>1
  <2> QED BY <1>1, <2>1, <2>2, <2>3, <2>4 DEF Held
<1> QED BY <1>2, <1>3

(* The lines keep what they hold.                                           *)
Kept == /\ Len(text) <= Len(text')
        /\ \A i \in 1 .. Len(text) : Ids(text[i]) \subseteq Ids(text'[i])

LEMMA OldStays ==
  ASSUME TypeInv, TypeInv', NEW t \in Threads, Record(t), NEW e \in Events, Older(e, rec)
  PROVE  Older(e, rec')
<1>1. /\ rec \in [Threads -> Recorder] /\ rec' \in [Threads -> Recorder]
      /\ rec[t].n \in Nat /\ rec'[t].n \in Nat /\ e[1] \in Threads /\ e[2] \in Nat
  <2>1. rec \in [Threads -> Recorder] /\ rec' \in [Threads -> Recorder]
    BY DEF TypeInv, TypeOK
  <2>2. rec[t].n \in Nat /\ rec'[t].n \in Nat
    BY <2>1 DEF Recorder
  <2>3. e[1] \in Threads /\ e[2] \in Nat
    BY EventParts
  <2> QED BY <2>1, <2>2, <2>3
<1>2. \A u \in Threads \ {t} : rec'[u] = rec[u]
  BY <1>1 DEF Record, ReadLedger, AppendEvent, QueueReply, EndLine
<1>3. CASE e[1] # t
  BY <1>1, <1>2, <1>3 DEF Older
<1>4. CASE e[1] = t
  <2>1. CASE ReadLedger(t)
    <3>1. rec'[t].n = rec[t].n + 1
      BY <1>1, <2>1 DEF ReadLedger
    <3> QED BY <1>1, <1>4, <3>1 DEF Older
  <2>2. CASE AppendEvent(t)
    <3>1. rec'[t].n = rec[t].n /\ rec[t].pc = "append"
      BY <1>1, <2>2 DEF AppendEvent, Recorder
    <3> QED BY <1>1, <1>4, <3>1 DEF Older
  <2>3. CASE QueueReply(t) \/ EndLine(t)
    <3>1. rec'[t].n = rec[t].n /\ rec'[t].pc \in {"newline", "idle"}
      BY <1>1, <2>3 DEF QueueReply, EndLine, Recorder
    <3> QED BY <1>1, <1>4, <3>1 DEF Older
  <2> QED BY <2>1, <2>2, <2>3 DEF Record
<1> QED BY <1>3, <1>4

LEMMA TextKept ==
  ASSUME TypeInv, QueuedAreOld, OnePlace, text' = text,
         \A e \in Events : Older(e, rec) => Older(e, rec')
  PROVE  QueuedAreOld' /\ OnePlace' /\ Kept
<1>1. Len(text) \in Nat
  BY LenProperties DEF TypeInv, TypeOK
<1> QED BY <1>1 DEF QueuedAreOld, OnePlace, Kept

LEMMA TextRecords ==
  ASSUME TypeInv, TypeInv', QueuedAreOld, OnePlace, NEW t \in Threads, Record(t)
  PROVE  QueuedAreOld' /\ OnePlace' /\ Kept
<1>1. \A e \in Events : Older(e, rec) => Older(e, rec')
  BY OldStays
<1>2. Len(text) \in Nat /\ Len(text') \in Nat
  BY LenProperties DEF TypeInv, TypeOK
<1>3. CASE text' = text
  BY <1>1, <1>3, TextKept
<1>4. CASE EndLine(t)
  <2>1. Len(text) <= Len(text') /\ \A i \in 1 .. Len(text') : Ids(text'[i]) = Held(i)
    BY <1>4, IdsOfNewline DEF EndLine
  <2>2. \A i \in 1 .. Len(text') : \A e \in Ids(text'[i]) : i \in 1 .. Len(text) /\ e \in Ids(text[i])
    BY <1>2, <2>1 DEF Held
  <2>3. QueuedAreOld'
    BY <1>1, <2>2 DEF QueuedAreOld
  <2>4. OnePlace'
    BY <2>2 DEF OnePlace
  <2>5. Kept
    BY <1>2, <2>1 DEF Kept, Held
  <2> QED BY <2>3, <2>4, <2>5
<1>5. CASE QueueReply(t)
  <2> DEFINE f == Event(t)
  <2>1. /\ f \in Events /\ text' = WithReply(text, f) /\ rec[t].pc = "queue"
        /\ f[1] = t /\ f[2] = rec[t].n /\ rec[t].n \in Nat
    BY <1>5, EventType DEF QueueReply, Event
  <2>2. Older(f, rec') /\ ~Older(f, rec)
    <3>1. rec'[t].n = rec[t].n /\ rec'[t].pc = "newline"
      BY <1>5 DEF QueueReply, TypeInv, TypeOK, Recorder
    <3> QED BY <2>1, <3>1 DEF Older
  <2> HIDE DEF f
  <2>3. /\ Len(text) <= Len(text')
        /\ \E p \in 1 .. Len(text') : \A i \in 1 .. Len(text') :
             Ids(text'[i]) = Held(i) \cup (IF i = p THEN {f} ELSE {})
    BY <2>1, IdsOfReply
  <2>4. PICK p \in 1 .. Len(text') : \A i \in 1 .. Len(text') :
             Ids(text'[i]) = Held(i) \cup (IF i = p THEN {f} ELSE {})
    BY <2>3
  <2>5. \A i \in 1 .. Len(text') : \A e \in Ids(text'[i]) :
          \/ i \in 1 .. Len(text) /\ e \in Ids(text[i])
          \/ i = p /\ e = f
    BY <1>2, <2>4 DEF Held
  <2>6. \A i \in 1 .. Len(text) : f \notin Ids(text[i])
    BY <2>2 DEF QueuedAreOld
  <2>7. QueuedAreOld'
    BY <1>1, <2>1, <2>2, <2>5 DEF QueuedAreOld
  <2>8. OnePlace'
    <3> SUFFICES ASSUME NEW i \in 1 .. Len(text'), NEW j \in 1 .. Len(text'),
                        NEW e \in Ids(text'[i]) \cap Ids(text'[j])
                 PROVE  i = j
      BY DEF OnePlace
    <3>1. CASE e = f
      BY <2>5, <2>6, <3>1
    <3>2. CASE e # f
      BY <2>5, <3>2 DEF OnePlace
    <3> QED BY <3>1, <3>2
  <2>9. Kept
    BY <1>2, <2>3, <2>4 DEF Kept, Held
  <2> QED BY <2>7, <2>8, <2>9
<1>6. CASE ReadLedger(t) \/ AppendEvent(t)
  BY <1>3, <1>6 DEF ReadLedger, AppendEvent, queueVars
<1> QED BY <1>4, <1>5, <1>6 DEF Record

(* What a drain has read the queue still holds.                             *)
LEMMA SnapshotStays ==
  ASSUME DrainInv, TypeInv', SnapshotsKept, Kept, NEW d \in Drainers,
         drain'[d].lines = drain[d].lines
  PROVE  \A i \in 1 .. Len(drain'[d].lines) : Ids(drain'[d].lines[i]) \subseteq Ids(text'[i])
<1>1. Len(drain[d].lines) <= Len(text) /\ Len(drain[d].lines) \in Nat /\ Len(text) \in Nat
  BY DrainType DEF DrainInv, DrainFits, Prefix
<1> SUFFICES ASSUME NEW i \in 1 .. Len(drain[d].lines)
             PROVE  Ids(drain[d].lines[i]) \subseteq Ids(text'[i])
  BY <1>1
<1>2. Ids(drain[d].lines[i]) \subseteq Ids(text[i])
  BY DEF SnapshotsKept
<1>3. i \in 1 .. Len(text)
  BY <1>1
<1>4. Ids(text[i]) \subseteq Ids(text'[i])
  BY <1>3 DEF Kept
<1> QED BY <1>2, <1>4

LEMMA SnapshotsStep ==
  ASSUME QueueInv, TypeInv', Kept, [Next]_vars
  PROVE  SnapshotsKept'
<1> SUFFICES ASSUME NEW d \in Drainers
             PROVE  \A i \in 1 .. Len(drain'[d].lines) :
                      Ids(drain'[d].lines[i]) \subseteq Ids(text'[i])
  BY DEF SnapshotsKept
<1>0. DrainInv /\ TypeOK /\ SnapshotsKept /\ drain \in [Drainers -> Drain]
  BY DEF QueueInv, DrainInv, TypeInv, TypeOK
<1>1. CASE drain'[d].lines = drain[d].lines
  BY <1>0, <1>1, SnapshotStays
<1>2. CASE drain'[d].lines = <<>>
  <2>1. Len(drain'[d].lines) = 0
    BY <1>2
  <2> QED BY <2>1
<1>3. CASE drain'[d].lines = text /\ text' = text
  BY <1>3
<1>4. ASSUME NEW x \in Drainers, DrainStep(x) \/ SendFailed(x) \/ DrainDies(x) \/ Restart(x)
      PROVE  \/ drain'[d].lines = drain[d].lines
             \/ drain'[d].lines = <<>>
             \/ drain'[d].lines = text /\ text' = text
  <2>0. x # d => drain'[d] = drain[d]
    BY <1>0, <1>4 DEF DrainStep, LoadCursor, QueueMissing, SaveLoaded, ReadQueue, DrainedAll, ParseFailed, SkipReply,
       SendReply, SaveCursor, SendFailed, DrainDies, Restart, SetDrain, Saved
  <2>1. CASE LoadCursor(x) /\ x = d
    <3>1. cursor \in Nat
      BY <1>0 DEF TypeOK
    <3> QED BY <1>0, <2>1, <3>1, RestTypes, DrainMoves DEF LoadCursor
  <2>2. CASE ReadQueue(x) /\ x = d
    BY <1>0, <2>2 DEF ReadQueue, SetDrain, Drain, queueVars
  <2>3. CASE (DrainedAll(x) \/ Restart(x)) /\ x = d
    BY <1>0, <2>3, RestTypes, DrainMoves DEF DrainedAll, Restart
  <2>4. CASE (ParseFailed(x) \/ SendFailed(x) \/ DrainDies(x)) /\ x = d
    BY <1>0, <2>4, RestTypes, DrainMoves DEF ParseFailed, SendFailed, DrainDies
  <2>5. CASE (SkipReply(x) \/ SaveCursor(x)) /\ x = d
    BY <1>0, <2>5, SavedFacts DEF SkipReply, SaveCursor, HasLine, Working
  <2>6. CASE SendReply(x) /\ x = d
    BY <1>0, <2>6 DEF SendReply, SetDrain, Drain
  <2>7. CASE QueueMissing(x) /\ x = d
    BY <1>0, <2>7 DEF QueueMissing, SetDrain, Drain
  <2>8. CASE SaveLoaded(x) /\ x = d
    BY <1>0, <2>8, RestTypes, DrainMoves DEF SaveLoaded
  <2> QED BY <1>4, <2>0, <2>1, <2>2, <2>3, <2>4, <2>5, <2>6, <2>7, <2>8 DEF DrainStep
<1>5. CASE drain' = drain
  BY <1>1, <1>5
<1>6. CASE \E x \in Drainers : DrainStep(x) \/ SendFailed(x) \/ DrainDies(x) \/ Restart(x)
  BY <1>1, <1>2, <1>3, <1>4, <1>6
<1> QED BY <1>5, <1>6 DEF Next, Record, ReadLedger, AppendEvent, QueueReply, EndLine, RunDies, DoctorReads,
       DoctorAppends, vars, drainVars

LEMMA QueueStep ==
  ASSUME QueueInv, [Next]_vars
  PROVE  QueueInv' /\ Kept
<1>1. /\ TypeInv /\ TypeInv' /\ DrainInv /\ DrainInv' /\ QueuedAreOld /\ OnePlace
  BY TypeStep, DrainInvStep DEF QueueInv, DrainInv
<1>2. QueuedAreOld' /\ OnePlace' /\ Kept
  <2>1. CASE \E t \in Threads : Record(t)
    BY <1>1, <2>1, TextRecords
  <2>2. CASE UNCHANGED <<text, rec>>
    BY <1>1, <2>2, TextKept
  <2> QED BY <2>1, <2>2 DEF Next, RunDies, DoctorReads, DoctorAppends, DrainStep, LoadCursor, QueueMissing, SaveLoaded,
         ReadQueue, DrainedAll, ParseFailed, SkipReply, SendReply, SaveCursor, SendFailed, DrainDies,
         Restart, vars, queueVars
<1> QED BY <1>1, <1>2, SnapshotsStep DEF QueueInv

------------------------------------------------------------------------------
(* Counting copies.                                                         *)

LEMMA CopiesType ==
  ASSUME TypeInv, NEW e \in Events
  PROVE  /\ Copies(e) \in Nat
         /\ IsFiniteSet({k \in 1 .. Len(out) : out[k] = e})
<1>1. Len(out) \in Nat
  BY LenProperties DEF TypeInv, TypeOK
<1>2. IsFiniteSet(1 .. Len(out))
  BY <1>1, FS_Interval
<1>3. IsFiniteSet({k \in 1 .. Len(out) : out[k] = e})
  BY <1>2, FS_Subset
<1> QED BY <1>3, FS_CardinalityType DEF Copies

LEMMA CopiesSent ==
  ASSUME TypeInv, NEW x \in Events, out' = Append(out, x), NEW e \in Events
  PROVE  Copies(e)' = IF e = x THEN Copies(e) + 1 ELSE Copies(e)
<1> DEFINE n == Len(out)
           S == {k \in 1 .. n : out[k] = e}
           T == {k \in 1 .. (n + 1) : out'[k] = e}
<1>1. /\ n \in Nat /\ Len(out') = n + 1
      /\ \A k \in 1 .. n : out'[k] = out[k]
      /\ out'[n + 1] = x
  <2>1. out \in Seq(Events)
    BY DEF TypeInv, TypeOK
  <2> QED BY <2>1, AppendFacts
<1>2. Copies(e) = Cardinality(S) /\ Copies(e)' = Cardinality(T) /\ IsFiniteSet(S)
  BY <1>1, CopiesType DEF Copies
<1>3. n + 1 \notin S
  BY <1>1
<1>4. T = IF e = x THEN S \cup {n + 1} ELSE S
  <2>1. \A k : k \in 1 .. (n + 1) <=> k \in 1 .. n \/ k = n + 1
    BY <1>1
  <2> QED BY <1>1, <2>1
<1> HIDE DEF n, S, T
<1>5. Cardinality(S \cup {n + 1}) = Cardinality(S) + 1
  BY <1>2, <1>3, FS_AddElement
<1> QED BY <1>2, <1>4, <1>5

(* What was paid for stays paid for when the drain has passed no less, or   *)
(* has met with trouble.                                                    *)
LEMMA PaidStays ==
  ASSUME TypeInv, TypeInv', Kept, out' = out, NEW n \in Nat, NEW m \in Nat,
         n <= Len(text), PaidUpTo(n),
         (n <= m /\ trouble' = trouble) \/ trouble' = trouble + 1
  PROVE  PaidUpTo(m)'
<1> SUFFICES ASSUME NEW e \in Events
             PROVE  /\ Copies(e)' <= 1 + trouble'
                    /\ SeenBy(m, e)' \/ Copies(e)' <= trouble'
  BY DEF PaidUpTo
<1>1. /\ Copies(e)' = Copies(e) /\ Copies(e) \in Nat
      /\ trouble \in Nat /\ trouble' \in Nat /\ Len(text) \in Nat
  <2>1. Copies(e)' = Copies(e) /\ Copies(e) \in Nat
    BY CopiesType DEF Copies
  <2>2. team \in Teams /\ trouble \in 0 .. team.trouble /\ trouble' \in 0 .. team'.trouble
    BY DEF TypeInv, TypeOK
  <2>3. trouble \in Nat /\ trouble' \in Nat
    BY <2>2
  <2> QED BY <2>1, <2>3, LenProperties DEF TypeInv, TypeOK
<1>2. Copies(e) <= 1 + trouble /\ (SeenBy(n, e) \/ Copies(e) <= trouble)
  BY DEF PaidUpTo
<1>3. CASE trouble' = trouble + 1
  BY <1>1, <1>2, <1>3
<1>4. CASE n <= m /\ trouble' = trouble
  <2>1. SeenBy(n, e) => SeenBy(m, e)'
    <3> SUFFICES ASSUME NEW i \in 1 .. n, e \in Ids(text[i]) PROVE SeenBy(m, e)'
      BY DEF SeenBy
    <3>1. i \in 1 .. m /\ i \in 1 .. Len(text)
      BY <1>1, <1>4
    <3>2. e \in Ids(text'[i])
      BY <3>1 DEF Kept
    <3> QED BY <3>1, <3>2 DEF SeenBy
  <2> QED BY <1>1, <1>2, <1>4, <2>1
<1> QED BY <1>3, <1>4

LEMMA PassedFits ==
  ASSUME DrainInv, NEW d \in Drainers, Lonely(d)
  PROVE  Passed(d) \in Nat /\ Passed(d) <= Len(text) /\ cursor \in Nat /\ cursor <= Passed(d)
<1>1. /\ cursor \in Nat /\ Len(text) \in Nat /\ Len(drain[d].lines) \in Nat
      /\ DrainFits(d) /\ Settled(cursor)
  BY DrainType DEF DrainInv
<1>2. CASE drain[d].pc = "sent"
  <2>1. drain[d].count = cursor /\ drain[d].count < Len(drain[d].lines)
        /\ Len(drain[d].lines) <= Len(text)
    BY <1>1, <1>2 DEF Lonely, DrainFits, AtReply, Prefix
  <2> QED BY <1>1, <1>2, <2>1 DEF Passed
<1>3. CASE drain[d].pc # "sent"
  BY <1>1, <1>3 DEF Passed, Settled
<1> QED BY <1>2, <1>3

(* A step that sends nothing.                                               *)
LEMMA LonelyKept ==
  ASSUME QueueInv, TypeInv', Kept, NEW d \in Drainers, Lonely(d), out' = out,
         \A x \in Drainers \ {d} : drain'[x] = drain[x],
         drain'[d].pc \in {"read", "missing", "work", "sent"} => drain'[d].count = cursor',
         NEW m \in Nat, Passed(d)' = m,
         (Passed(d) <= m /\ trouble' = trouble) \/ trouble' = trouble + 1
  PROVE  Lonely(d)'
<1>1. /\ DrainInv /\ TypeInv /\ Passed(d) \in Nat /\ Passed(d) <= Len(text) /\ PaidUpTo(Passed(d))
  BY PassedFits DEF QueueInv, DrainInv, Lonely
<1>2. PaidUpTo(m)'
  BY <1>1, PaidStays
<1>3. PaidUpTo(Passed(d))'
  BY <1>2 DEF PaidUpTo, SeenBy
<1> QED BY <1>3 DEF Lonely

(* A delivery: the reply is in the line after the cursor and in no other.   *)
LEMMA LonelySends ==
  ASSUME QueueInv, TypeInv', NEW d \in Drainers, Lonely(d), SendReply(d)
  PROVE  Lonely(d)'
<1> DEFINE x == NextLine(d).ids[1]
<1>0. PICK n \in Nat : n = drain[d].count
  BY DrainType DEF QueueInv, DrainInv
<1>1. /\ DrainInv /\ TypeInv /\ TypeOK /\ DrainFits(d) /\ SnapshotsKept /\ OnePlace /\ PaidUpTo(Passed(d))
  BY DEF QueueInv, DrainInv, TypeInv, Lonely
<1>2. /\ drain[d].pc = "work" /\ n = cursor /\ n \in Nat /\ n + 1 \in 1 .. Len(drain[d].lines)
      /\ x \in Events /\ Len(NextLine(d).ids) = 1
  BY <1>0, <1>1, LineFacts, DrainType DEF SendReply, HasLine, Working, Lonely
<1>3. /\ text' = text /\ cursor' = cursor /\ trouble' = trouble /\ out' = Append(out, x)
      /\ drain'[d].pc = "sent" /\ drain'[d].count = n
      /\ \A y \in Drainers \ {d} : drain'[y] = drain[y]
  BY <1>0, <1>1 DEF SendReply, SetDrain, queueVars, TypeOK, Drain
<1>4. x \in Ids(text[n + 1]) /\ n + 1 \in 1 .. Len(text) /\ Len(text) \in Nat
  <2>1. x \in Ids(NextLine(d))
    BY <1>2 DEF Ids
  <2>2. Ids(drain[d].lines[n + 1]) \subseteq Ids(text[n + 1])
    BY <1>1, <1>2 DEF SnapshotsKept
  <2>3. Len(drain[d].lines) <= Len(text) /\ Len(drain[d].lines) \in Nat /\ Len(text) \in Nat
    BY <1>1, DrainType DEF DrainFits, Prefix
  <2> QED BY <1>0, <1>2, <2>1, <2>2, <2>3 DEF NextLine
<1>5. ~SeenBy(n, x)
  <2> SUFFICES ASSUME NEW i \in 1 .. n, x \in Ids(text[i]) PROVE FALSE
    BY DEF SeenBy
  <2>1. i \in 1 .. Len(text) /\ i # n + 1
    BY <1>2, <1>4
  <2> QED BY <1>1, <1>4, <2>1 DEF OnePlace
<1> HIDE DEF x
<1>6. PaidUpTo(n)
  BY <1>1, <1>2 DEF Passed
<1>7. /\ trouble \in Nat /\ \A e \in Events : Copies(e) \in Nat
      /\ \A e \in Events : Copies(e)' = IF e = x THEN Copies(e) + 1 ELSE Copies(e)
  <2>1. trouble \in 0 .. team.trouble
    BY <1>1 DEF TypeOK
  <2>2. trouble \in Nat
    BY <2>1
  <2> QED BY <1>1, <1>2, <1>3, <2>2, CopiesType, CopiesSent
<1>8. \A e \in Events : /\ Copies(e)' <= 1 + trouble'
                        /\ SeenBy(n + 1, e)' \/ Copies(e)' <= trouble'
  <2> TAKE e \in Events
  <2>1. /\ Copies(e) <= 1 + trouble
        /\ SeenBy(n, e) \/ Copies(e) <= trouble
    BY <1>6 DEF PaidUpTo
  <2>2. SeenBy(n, e) => SeenBy(n + 1, e)'
    <3>1. \A i \in 1 .. n : i \in 1 .. (n + 1)
      BY <1>2
    <3> QED BY <1>3, <3>1 DEF SeenBy
  <2>3. CASE e = x
    <3>1. SeenBy(n + 1, e)'
      <4>1. n + 1 \in 1 .. (n + 1)
        BY <1>2
      <4> QED BY <1>3, <1>4, <2>3, <4>1 DEF SeenBy
    <3>2. Copies(x) <= trouble
      BY <1>2, <1>5, <1>6 DEF PaidUpTo
    <3> QED BY <1>2, <1>3, <1>7, <2>3, <3>1, <3>2
  <2>4. CASE e # x
    BY <1>3, <1>7, <2>1, <2>2, <2>4
  <2> QED BY <2>3, <2>4
<1>9. PaidUpTo(Passed(d))'
  <2>1. Passed(d)' = n + 1
    BY <1>2, <1>3 DEF Passed
  <2> QED BY <1>8, <2>1 DEF PaidUpTo, SeenBy
<1> QED BY <1>2, <1>3, <1>9 DEF Lonely

LEMMA LonelySteps ==
  ASSUME QueueInv, TypeInv', Kept, NEW d \in Drainers, team.drains = {d}, Lonely(d),
         NEW x \in Drainers, DrainStep(x) \/ SendFailed(x) \/ DrainDies(x) \/ Restart(x)
  PROVE  Lonely(d)'
<1>1. /\ DrainInv /\ TypeInv /\ TypeOK /\ drain \in [Drainers -> Drain] /\ cursor \in Nat
      /\ Passed(d) \in Nat
  BY PassedFits DEF QueueInv, DrainInv, TypeInv, TypeOK
<1>2. x = d
  <2> SUFFICES ASSUME x # d PROVE FALSE
    OBVIOUS
  <2>1. drain[x].pc = "idle"
    BY DEF Lonely
  <2> QED BY <2>1 DEF DrainStep, LoadCursor, QueueMissing, SaveLoaded, ReadQueue, DrainedAll, ParseFailed, SkipReply,
         SendReply, SaveCursor, SendFailed, DrainDies, Restart, HasLine, Working
<1>3. drain[d].pc \in {"read", "missing", "work", "sent"} => drain[d].count = cursor
  BY DEF Lonely
<1>4. CASE LoadCursor(d)
  <2> DEFINE r == [AtRest EXCEPT !.pc = "read", !.count = cursor]
  <2>1. r \in Drain /\ r.pc = "read" /\ r.count = cursor /\ SetDrain(d, r)
    BY <1>1, <1>4, RestTypes DEF LoadCursor
  <2> HIDE DEF r
  <2>2. drain'[d] = r /\ \A y \in Drainers \ {d} : drain'[y] = drain[y]
    BY <1>1, <2>1, DrainMoves
  <2>3. UNCHANGED <<cursor, out, trouble>> /\ drain[d].pc = "idle"
    BY <1>4 DEF LoadCursor
  <2>4. Passed(d)' = cursor /\ Passed(d) = cursor
    BY <2>1, <2>2, <2>3 DEF Passed
  <2> QED BY <1>1, <2>1, <2>2, <2>3, <2>4, LonelyKept
<1>5. CASE ReadQueue(d)
  <2>1. /\ drain'[d].pc = "work" /\ drain'[d].count = drain[d].count /\ drain[d].pc = "read"
        /\ \A y \in Drainers \ {d} : drain'[y] = drain[y]
        /\ UNCHANGED <<cursor, out, trouble>>
    BY <1>1, <1>5 DEF ReadQueue, SetDrain, Drain
  <2>2. Passed(d)' = cursor /\ Passed(d) = cursor
    BY <2>1 DEF Passed
  <2> QED BY <1>1, <1>3, <2>1, <2>2, LonelyKept
<1>6. CASE DrainedAll(d) \/ Restart(d)
  <2>1. /\ drain'[d].pc = "idle" /\ drain[d].pc # "sent"
        /\ \A y \in Drainers \ {d} : drain'[y] = drain[y]
        /\ UNCHANGED <<cursor, out, trouble>>
    BY <1>1, <1>6, RestTypes, DrainMoves DEF DrainedAll, Restart, Working
  <2>2. Passed(d)' = cursor /\ Passed(d) = cursor
    BY <2>1 DEF Passed
  <2> QED BY <1>1, <2>1, <2>2, LonelyKept
<1>7. CASE ParseFailed(d)
  <2>1. /\ drain'[d].pc = "ended" /\ drain[d].pc = "work"
        /\ \A y \in Drainers \ {d} : drain'[y] = drain[y]
        /\ UNCHANGED <<cursor, out, trouble>>
    BY <1>1, <1>7, RestTypes, DrainMoves DEF ParseFailed, HasLine, Working
  <2>2. Passed(d)' = cursor /\ Passed(d) = cursor
    BY <2>1 DEF Passed
  <2> QED BY <1>1, <2>1, <2>2, LonelyKept
<1>8. CASE SendFailed(d) \/ DrainDies(d)
  <2>1. /\ drain'[d].pc = "ended" /\ trouble' = trouble + 1
        /\ \A y \in Drainers \ {d} : drain'[y] = drain[y]
        /\ UNCHANGED <<cursor, out>>
    BY <1>1, <1>8, RestTypes, DrainMoves DEF SendFailed, DrainDies
  <2>2. Passed(d)' = cursor
    BY <2>1 DEF Passed
  <2> QED BY <1>1, <2>1, <2>2, LonelyKept
<1>9. CASE SkipReply(d) \/ SaveCursor(d)
  <2>1. drain[d].pc \in {"work", "sent"} /\ Saved(d) /\ UNCHANGED <<out, trouble>>
    BY <1>9 DEF SkipReply, SaveCursor, HasLine, Working
  <2>2. /\ cursor' = cursor + 1 /\ drain'[d].pc = "work" /\ drain'[d].count = cursor'
        /\ \A y \in Drainers \ {d} : drain'[y] = drain[y]
    BY <1>1, <1>3, <2>1, SavedFacts
  <2>3. Passed(d)' = cursor + 1 /\ Passed(d) <= cursor + 1
    BY <1>1, <2>1, <2>2 DEF Passed
  <2> QED BY <1>1, <2>1, <2>2, <2>3, LonelyKept
<1>10. CASE SendReply(d)
  BY <1>10, LonelySends
<1>11. CASE QueueMissing(d)
  <2>1. /\ drain'[d].pc = "missing" /\ drain'[d].count = drain[d].count /\ drain[d].pc = "read"
        /\ \A y \in Drainers \ {d} : drain'[y] = drain[y]
        /\ UNCHANGED <<cursor, out, trouble>>
    BY <1>1, <1>11 DEF QueueMissing, SetDrain, Drain
  <2>2. Passed(d)' = cursor /\ Passed(d) = cursor
    BY <2>1 DEF Passed
  <2> QED BY <1>1, <1>3, <2>1, <2>2, LonelyKept
<1>12. CASE SaveLoaded(d)
  <2>1. /\ drain'[d].pc = "idle" /\ drain[d].pc = "missing" /\ cursor' = drain[d].count
        /\ \A y \in Drainers \ {d} : drain'[y] = drain[y]
        /\ UNCHANGED <<out, trouble>>
    BY <1>1, <1>12, RestTypes, DrainMoves DEF SaveLoaded
  <2>2. Passed(d)' = cursor /\ Passed(d) = cursor
    BY <1>3, <2>1 DEF Passed
  <2> QED BY <1>1, <2>1, <2>2, LonelyKept
<1> QED BY <1>2, <1>4, <1>5, <1>6, <1>7, <1>8, <1>9, <1>10, <1>11, <1>12 DEF DrainStep

LEMMA CopyStep ==
  ASSUME CopyInv, [Next]_vars
  PROVE  CopyInv'
<1>1. QueueInv /\ QueueInv' /\ Kept /\ TypeInv /\ TypeInv' /\ DrainInv
  BY QueueStep, TypeStep DEF CopyInv, QueueInv, DrainInv
<1>2. team' = team
  BY DEF Next, Record, ReadLedger, AppendEvent, QueueReply, EndLine, RunDies, DoctorReads, DoctorAppends,
     DrainStep, LoadCursor, QueueMissing, SaveLoaded, ReadQueue, DrainedAll, ParseFailed, SkipReply, SendReply, SaveCursor,
     SendFailed, DrainDies, Restart, vars
<1>3. ASSUME NEW d \in Drainers, team.drains = {d}
      PROVE  Lonely(d)'
  <2>1. Lonely(d)
    BY <1>3 DEF CopyInv
  <2>2. CASE \E x \in Drainers : DrainStep(x) \/ SendFailed(x) \/ DrainDies(x) \/ Restart(x)
    BY <1>1, <1>3, <2>1, <2>2, LonelySteps
  <2>3. CASE UNCHANGED <<cursor, drain, out, trouble>>
    <3>1. Passed(d)' = Passed(d) /\ Passed(d) \in Nat
      BY <1>1, <2>1, <2>3, PassedFits DEF Passed
    <3> QED BY <1>1, <2>1, <2>3, <3>1, LonelyKept DEF Lonely
  <2> QED BY <2>2, <2>3 DEF Next, Record, ReadLedger, AppendEvent, QueueReply, EndLine, RunDies, DoctorReads,
         DoctorAppends, vars, drainVars
<1> QED BY <1>1, <1>2, <1>3 DEF CopyInv

(* A drain on its own sends a reply once, and once more for each death or   *)
(* failed send it met: the cursor is saved after the send (drain_once,      *)
(* src/channel/drain.rs).                                                   *)
THEOREM DuplicatesArePaid == Spec => []DuplicatesArePaidFor
<1>1. Init => CopyInv
  <2> SUFFICES ASSUME Init PROVE CopyInv
    OBVIOUS
  <2>1. /\ DrainInv /\ TypeInv /\ text = <<>> /\ out = <<>> /\ trouble = 0 /\ cursor = 0
        /\ drain = [d \in Drainers |-> AtRest]
    BY DrainInvInit, TypeInit DEF Init
  <2>2. \A d \in Drainers : drain[d].lines = <<>> /\ drain[d].pc = "idle"
    BY <2>1, RestTypes
  <2>3. QueueInv
    BY <2>1, <2>2 DEF QueueInv, QueuedAreOld, OnePlace, SnapshotsKept
  <2>4. \A e \in Events : Copies(e) = 0
    <3> TAKE e \in Events
    <3>1. {k \in 1 .. Len(out) : out[k] = e} = {}
      BY <2>1
    <3> QED BY <3>1, FS_EmptySet DEF Copies
  <2>5. \A d \in Drainers : Lonely(d)
    BY <2>1, <2>2, <2>4 DEF Lonely, PaidUpTo
  <2> QED BY <2>3, <2>5 DEF CopyInv
<1>2. CopyInv /\ [Next]_vars => CopyInv'
  BY CopyStep
<1>3. CopyInv => DuplicatesArePaidFor
  <2> SUFFICES ASSUME CopyInv, Cardinality(team.drains) = 1, NEW e \in Events
               PROVE  Copies(e) <= 1 + trouble
    BY DEF DuplicatesArePaidFor
  <2>1. team.drains \subseteq Drainers /\ IsFiniteSet(Drainers)
    BY TeamsAssumption DEF CopyInv, QueueInv, DrainInv, TypeInv, TypeOK
  <2>2. IsFiniteSet(team.drains)
    BY <2>1, FS_Subset
  <2>3. PICK d : team.drains = {d}
    BY <2>2, FS_Singleton
  <2>4. d \in Drainers
    BY <2>1, <2>3
  <2> QED BY <2>3, <2>4 DEF CopyInv, Lonely, PaidUpTo
<1> QED BY <1>1, <1>2, <1>3, PTL DEF Spec
==============================================================================
