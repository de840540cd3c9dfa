------------------------------ MODULE Outbound ------------------------------
(***************************************************************************)
(* From the events of a run to the replies of a chat: the event ledger     *)
(* (src/scheduler/events.rs), the outbound queue it feeds (src/channel/    *)
(* subscribe.rs) and `maestro channels drain` (src/channel/drain.rs).      *)
(*                                                                         *)
(* The threads of the run's process, its scheduler and its attempts, record*)
(* events at any time.  Appending to the ledger is serialised by a lock of *)
(* that process; appending to the queue is not, and takes two writes, the  *)
(* line and its newline.  Drain is one or more other processes, which may  *)
(* die or fail at any point and be started again.  Once the run's process  *)
(* is dead, commands that force-cancel the run append to the ledger, each  *)
(* under a lock of its own process, which keeps no other one out.          *)
(*                                                                         *)
(* Abstracted: the text of a reply (an event stands for its reply), the    *)
(* transport (a delivery is handed over or fails), and the temporary file  *)
(* of the cursor (a save is one step).                                     *)
(***************************************************************************)
EXTENDS Integers, FiniteSets, Sequences

CONSTANTS
  Threads,     \* threads of the run's process that record events
  Quota,       \* Quota[t] is how many events thread t records
  Heard,       \* events that match reply_to_run_events of the channel
  Drainers,    \* drain processes
  Doctors,     \* the commands that force-cancel the run once it is dead
  Teams        \* bounds of a behaviour: the drains and the doctors that run
               \* in it, and the deaths and failed sends the drains may meet

Events  == UNION {{t} \X (1 .. Quota[t]) : t \in Threads}
Entries == [seq : Nat, ev : Events \cup Doctors]

ASSUME QuotaAssumption   == Quota \in [Threads -> Nat] /\ "none" \notin Threads
ASSUME HeardAssumption   == Heard \subseteq Events /\ Doctors \cap Events = {}
ASSUME TeamsAssumption   == /\ IsFiniteSet(Drainers)
                            /\ Teams \subseteq [drains : SUBSET Drainers, doctors : SUBSET Doctors,
                                          trouble : Nat]

NoThread == "none"
Line  == [ids : Seq(Events), closed : BOOLEAN]    \* closed: ends in a newline
Drain == [pc : {"idle", "load", "read", "missing", "work", "sent", "ended"},
          count : Nat, lines : Seq(Line)]
AtRest == [pc |-> "idle", count |-> 0, lines |-> <<>>]

VARIABLES
  team,     \* the bounds of this behaviour, never changed
  alive,    \* the run's process
  ledger,   \* EVENTS.ndjson
  lock,     \* event_append_lock of the run's process
  doctor,   \* what each doctor is doing in append_event_draft
  crowded,  \* two doctors were at it at once (for properties)
  rec,      \* what each thread is doing in append_event_draft_with_subscribe
  text,     \* outbound_replies.ndjson
  cursor,   \* channel_drain_cursor.json
  drain,    \* the drain processes
  out,      \* deliveries handed to the transport
  dropped,  \* replies skipped for want of a session
  trouble   \* deaths and failures so far

doctorVars == <<doctor, crowded>>
ledgerVars == <<ledger, lock, doctorVars>>
queueVars  == <<text>>
drainVars  == <<cursor, drain, out, dropped>>
vars == <<team, alive, ledgerVars, rec, queueVars, drainVars, trouble>>

Recorder == [pc : {"idle", "append", "queue", "newline"}, n : Nat, last : Nat]
AtWork   == [pc : {"idle", "append", "ended"}, last : Nat]

TypeOK ==
  /\ team \in Teams
  /\ alive \in BOOLEAN
  /\ ledger \in Seq(Entries)
  /\ lock \in Threads \cup {NoThread}
  /\ doctor \in [Doctors -> AtWork] /\ crowded \in BOOLEAN
  /\ rec \in [Threads -> Recorder]
  /\ text \in Seq(Line)
  /\ cursor \in Nat
  /\ drain \in [Drainers -> Drain]
  /\ out \in Seq(Events)
  /\ dropped \subseteq Events
  /\ trouble \in 0 .. team.trouble

Init ==
  /\ team \in Teams
  /\ alive = TRUE
  /\ ledger = <<>> /\ lock = NoThread
  /\ doctor = [x \in Doctors |-> [pc |-> "idle", last |-> 0]] /\ crowded = FALSE
  /\ rec = [t \in Threads |-> [pc |-> "idle", n |-> 0, last |-> 0]]
  /\ text = <<>>
  /\ cursor = 0
  /\ drain = [d \in Drainers |-> AtRest]
  /\ out = <<>> /\ dropped = {}
  /\ trouble = 0

------------------------------------------------------------------------------
(* Recording an event.                                                      *)

FromZero == IF ledger = <<>> THEN -1 ELSE ledger[Len(ledger)].seq    \* mutant
LastSeq  == IF ledger = <<>> THEN 0 ELSE ledger[Len(ledger)].seq
Event(t) == <<t, rec[t].n>>

NoLock(t)   == TRUE                                                \* mutant
LockFree(t) == lock = NoThread

ReadLedger(t) ==
  /\ alive /\ LockFree(t)
  /\ rec[t].pc = "idle" /\ rec[t].n < Quota[t]
  /\ lock' = t
  /\ rec' = [rec EXCEPT ![t] = [pc |-> "append", n |-> rec[t].n + 1, last |-> LastSeq]]
  /\ UNCHANGED <<team, alive, ledger, doctorVars, queueVars, drainVars, trouble>>

AppendEvent(t) ==
  /\ alive
  /\ rec[t].pc = "append"
  /\ ledger' = Append(ledger, [seq |-> rec[t].last + 1, ev |-> Event(t)])
  /\ lock' = NoThread
  /\ rec' = [rec EXCEPT ![t].pc = IF Event(t) \in Heard THEN "queue" ELSE "idle",
                        ![t].last = 0]
  /\ UNCHANGED <<team, alive, doctorVars, queueVars, drainVars, trouble>>

(* append_reply, after the lock was released: writeln! on an unbuffered     *)
(* file is a write of the line and a write of the newline.                  *)
IsOpen(lines) == lines # <<>> /\ ~lines[Len(lines)].closed

WithReply(lines, e) ==
  IF IsOpen(lines) THEN [lines EXCEPT ![Len(lines)].ids = Append(@, e)]
  ELSE Append(lines, [ids |-> <<e>>, closed |-> FALSE])

WithNewline(lines) ==
  IF IsOpen(lines) THEN [lines EXCEPT ![Len(lines)].closed = TRUE]
  ELSE Append(lines, [ids |-> <<>>, closed |-> TRUE])

QueueReply(t) ==
  /\ alive
  /\ rec[t].pc = "queue"
  /\ text' = WithReply(text, Event(t))
  /\ rec' = [rec EXCEPT ![t].pc = "newline"]
  /\ UNCHANGED <<team, alive, ledgerVars, drainVars, trouble>>

EndLine(t) ==
  /\ alive
  /\ rec[t].pc = "newline"
  /\ text' = WithNewline(text)
  /\ rec' = [rec EXCEPT ![t].pc = "idle"]
  /\ UNCHANGED <<team, alive, ledgerVars, drainVars, trouble>>

RunDies ==
  /\ alive
  /\ alive' = FALSE
  /\ lock' = NoThread
  /\ UNCHANGED <<team, ledger, doctorVars, rec, queueVars, drainVars, trouble>>

(* force_cancel_if_abandoned projects its finding into the ledger, from its *)
(* own process and with no channel to reply to: the last number is read and *)
(* the line appended under a lock that only this process knows.             *)
DoctorReads(x) ==
  /\ ~alive
  /\ x \in team.doctors /\ doctor[x].pc = "idle"
  /\ doctor' = [doctor EXCEPT ![x] = [pc |-> "append", last |-> LastSeq]]
  /\ crowded' = (crowded \/ \E y \in Doctors : doctor[y].pc = "append")
  /\ UNCHANGED <<team, alive, ledger, lock, rec, queueVars, drainVars, trouble>>

DoctorAppends(x) ==
  /\ doctor[x].pc = "append"
  /\ ledger' = Append(ledger, [seq |-> doctor[x].last + 1, ev |-> x])
  /\ doctor' = [doctor EXCEPT ![x] = [pc |-> "ended", last |-> 0]]
  /\ UNCHANGED <<team, alive, lock, crowded, rec, queueVars, drainVars, trouble>>

------------------------------------------------------------------------------
(* drain_once, in a loop.                                                   *)

Parses(line) == Len(line.ids) = 1
SetDrain(d, r) == drain' = [drain EXCEPT ![d] = r]

LoadCursor(d) ==
  /\ d \in team.drains /\ drain[d].pc = "idle"
  /\ SetDrain(d, [AtRest EXCEPT !.pc = "read", !.count = cursor])
  /\ UNCHANGED <<team, alive, ledgerVars, rec, queueVars, cursor, out, dropped, trouble>>

ReadQueue(d) ==
  /\ drain[d].pc = "read"
  /\ SetDrain(d, [drain[d] EXCEPT !.pc = "work", !.lines = text])
  /\ UNCHANGED <<team, alive, ledgerVars, rec, queueVars, cursor, out, dropped, trouble>>

(* No reply was ever queued: the cursor is saved as it was loaded.          *)
QueueMissing(d) ==
  /\ drain[d].pc = "read" /\ text = <<>>
  /\ SetDrain(d, [drain[d] EXCEPT !.pc = "missing"])
  /\ UNCHANGED <<team, alive, ledgerVars, rec, queueVars, cursor, out, dropped, trouble>>

SaveLoaded(d) ==
  /\ drain[d].pc = "missing"
  /\ cursor' = drain[d].count
  /\ SetDrain(d, AtRest)
  /\ UNCHANGED <<team, alive, ledgerVars, rec, queueVars, out, dropped, trouble>>

Working(d) == drain[d].pc = "work"

ButTheLast(d) == Working(d) /\ drain[d].count + 1 < Len(drain[d].lines)   \* mutant
HasLine(d)    == Working(d) /\ drain[d].count < Len(drain[d].lines)

NewestLine(d) == drain[d].lines[Len(drain[d].lines)]                      \* mutant
NextLine(d)   == drain[d].lines[drain[d].count + 1]

DrainedAll(d) ==
  /\ Working(d) /\ ~HasLine(d)
  /\ SetDrain(d, AtRest)
  /\ UNCHANGED <<team, alive, ledgerVars, rec, queueVars, cursor, out, dropped, trouble>>

(* An error ends the process.                                               *)
ParseFailed(d) ==
  /\ HasLine(d) /\ ~Parses(NextLine(d))
  /\ SetDrain(d, [AtRest EXCEPT !.pc = "ended"])
  /\ UNCHANGED <<team, alive, ledgerVars, rec, queueVars, cursor, out, dropped, trouble>>

AllRead(d) == /\ cursor' = Len(drain[d].lines)                            \* mutant
              /\ SetDrain(d, [drain[d] EXCEPT !.pc = "work", !.count = @ + 1])

OneBehind(d) == /\ cursor' = drain[d].count                                \* mutant
                /\ SetDrain(d, [drain[d] EXCEPT !.pc = "work", !.count = @ + 1])

Saved(d) == /\ cursor' = drain[d].count + 1
            /\ SetDrain(d, [drain[d] EXCEPT !.pc = "work", !.count = @ + 1])

(* The channel is not configured any more, or has no session.               *)
SkipReply(d) ==
  /\ HasLine(d) /\ Parses(NextLine(d))
  /\ dropped' = dropped \cup {NextLine(d).ids[1]}
  /\ Saved(d)
  /\ UNCHANGED <<team, alive, ledgerVars, rec, queueVars, out, trouble>>

SendReply(d) ==
  /\ HasLine(d) /\ Parses(NextLine(d))
  /\ out' = Append(out, NextLine(d).ids[1])
  /\ SetDrain(d, [drain[d] EXCEPT !.pc = "sent"])
  /\ UNCHANGED <<team, alive, ledgerVars, rec, queueVars, cursor, dropped, trouble>>

SendFailed(d) ==
  /\ HasLine(d) /\ Parses(NextLine(d))
  /\ trouble < team.trouble /\ trouble' = trouble + 1
  /\ SetDrain(d, [AtRest EXCEPT !.pc = "ended"])
  /\ UNCHANGED <<team, alive, ledgerVars, rec, queueVars, cursor, out, dropped>>

SaveCursor(d) ==
  /\ drain[d].pc = "sent"
  /\ Saved(d)
  /\ UNCHANGED <<team, alive, ledgerVars, rec, queueVars, out, dropped, trouble>>

DrainDies(d) ==
  /\ drain[d].pc \in {"read", "missing", "work", "sent"}
  /\ trouble < team.trouble /\ trouble' = trouble + 1
  /\ SetDrain(d, [AtRest EXCEPT !.pc = "ended"])
  /\ UNCHANGED <<team, alive, ledgerVars, rec, queueVars, cursor, out, dropped>>

Restart(d) ==
  /\ drain[d].pc = "ended"
  /\ SetDrain(d, AtRest)
  /\ UNCHANGED <<team, alive, ledgerVars, rec, queueVars, cursor, out, dropped, trouble>>

------------------------------------------------------------------------------
Record(t) == ReadLedger(t) \/ AppendEvent(t) \/ QueueReply(t) \/ EndLine(t)

DrainStep(d) == \/ LoadCursor(d) \/ QueueMissing(d) \/ SaveLoaded(d)
                \/ ReadQueue(d) \/ DrainedAll(d) \/ ParseFailed(d)
                \/ SkipReply(d) \/ SendReply(d) \/ SaveCursor(d)

Next == \/ \E t \in Threads : Record(t)
        \/ RunDies
        \/ \E x \in Doctors : DoctorReads(x) \/ DoctorAppends(x)
        \/ \E d \in Drainers : DrainStep(d) \/ SendFailed(d) \/ DrainDies(d) \/ Restart(d)

(* A drain keeps polling, and one that ended is started again.              *)
Fairness == \A d \in Drainers : WF_vars(DrainStep(d)) /\ WF_vars(Restart(d))

Spec == Init /\ [][Next]_vars /\ Fairness

------------------------------------------------------------------------------
(* Properties.                                                              *)

Whole   == \A i \in 1 .. Len(text) : Parses(text[i])
SentSet == {out[k] : k \in 1 .. Len(out)}
Copies(e) == Cardinality({k \in 1 .. Len(out) : out[k] = e})

(* The ledger is numbered 1, 2, 3, ... whichever threads of the run append  *)
(* to it, and goes on so with the findings of doctors after its death:      *)
(* since_seq filters and cursors of readers rely on it.  Two doctors that   *)
(* are at it at once take the same number, which spoils the findings'       *)
(* numbers from there on, never those of the run.                           *)
LedgerNumbered ==
  \A i \in 1 .. Len(ledger) :
    ledger[i].ev \in Events \/ ~crowded => ledger[i].seq = i

(* What the cursor has passed was sent, or had no session to be sent to, as *)
(* long as no two appends ran into each other.                              *)
NothingSkipped ==
  Whole => \A i \in 1 .. cursor : text[i].ids[1] \in SentSet \cup dropped

(* With a single drain, every copy but the first is paid for by a death or  *)
(* a failure of that process.                                               *)
DuplicatesArePaidFor ==
  Cardinality(team.drains) = 1 => \A e \in Events : Copies(e) <= 1 + trouble

(* Replies go out in order and none is passed over: the drain implements    *)
(* ReplyQueue, for as long as every line holds one reply.                   *)
QueueView   == IF Whole THEN [i \in 1 .. Len(text) |-> text[i].ids[1]] ELSE <<>>
OutView     == IF Whole THEN out ELSE <<>>
DroppedView == IF Whole THEN dropped ELSE {}

Queue == INSTANCE ReplyQueue WITH
           Reply <- Events, queue <- QueueView, out <- OutView, dropped <- DroppedView,
           spoilt <- ~Whole
DeliversInOrder == Queue!Spec

(* Every queued reply is sent some day, by a drain that is started again    *)
(* whenever it ended, unless it had no session or a line was spoilt.        *)
Queued(e) == \E i \in 1 .. Len(text) : e \in {text[i].ids[k] : k \in 1 .. Len(text[i].ids)}
EventuallySent ==
  \A e \in Events : Queued(e) ~> (e \in SentSet \cup dropped \/ ~Whole)
=============================================================================
