------------------------------ MODULE Inbound ------------------------------
(***************************************************************************)
(* `maestro channels listen --poll`: one process per channel asks the      *)
(* transport for the newest messages (src/channel/transport.rs), writes a  *)
(* decision for each one it has not seen (src/channel/feishu.rs, trust.rs, *)
(* route.rs) and moves its cursor (src/channel/poll.rs).  All pollers of a *)
(* workspace keep their cursors in one file, which each of them loads and  *)
(* saves whole; the configuration is read when a poller starts.            *)
(*                                                                         *)
(* Messages may arrive out of order and share a timestamp; a poller may    *)
(* die between any two steps and is started again.  A message without a    *)
(* createTime is given the time of the poll, a new one at every poll.      *)
(*                                                                         *)
(* Abstracted: the texts (a message has a verb, a confirm token or none),  *)
(* and the temporary file of a save.  Left out: what parse_history skips   *)
(* before it looks at any time, messages that are not a user's and those   *)
(* without an id, without a sender or with a createTime that does not      *)
(* parse.  The clocks of the service and of the poller agree.  External:   *)
(* the chat service and `botmux history`.                                  *)
(***************************************************************************)
EXTENDS Integers, FiniteSets, Sequences

CONSTANTS
  Channels,
  Messages,
  Senders,
  Sent,      \* Sent[m]: its channel, createTime or 0 for none, place in the
             \* order of ids, sender, verb, whether it carries the confirm token
  Poison,    \* messages that parse_inbound refuses: an empty body
  Polls      \* bounds of a behaviour: the messages that arrive, poll_limit, how
             \* many deaths there are, the contents channels.yaml may have, and
             \* the times between which the clock moves

Verbs   == {"plan", "run", "approve", "status", "none"}
Actions == Verbs \ {"none"}
Config  == [enabled : BOOLEAN, allowed_senders : SUBSET Senders, allowed_actions : SUBSET Actions]

ASSUME SentAssumption ==
  Sent \in [Messages -> [channel : Channels, time : Nat, rank : Nat, sender : Senders,
                         verb : Verbs, confirmed : BOOLEAN]]
ASSUME MessagesAssumption == IsFiniteSet(Messages)
ASSUME PollAssumption ==
  /\ Poison \subseteq Messages
  /\ Polls \subseteq [messages : SUBSET Messages, window : Nat, deaths : Nat,
                     configs : SUBSET Config, from : Nat, until : Nat]

Of(ch)   == {m \in Messages : Sent[m].channel = ch}
Dated(m) == Sent[m].time > 0

(* parse_create_time, in a poll at `now`.                                   *)
Time(m, now) == IF Dated(m) THEN Sent[m].time ELSE now

(* ChannelPollState: time 0 stands for no cursor; ids is last_ids_at_boundary. *)
Cursor    == [time : Nat, ids : SUBSET Messages]
PollState == [Channels -> Cursor]
NoCursor  == [time |-> 0, ids |-> {}]

VARIABLES
  poll,      \* the bounds of this behaviour, never changed
  clock,     \* the time of day
  arrived,   \* messages the chat service has
  config,    \* the entry `feishu` of channels.yaml, which parse_inbound names
  saved,     \* channel_inbound_cursor.json
  poller,    \* the process of each channel
  decided,   \* how many decisions were written for each message with a
             \* createTime; 1 for one without, once it has any
  decision,  \* the last of them
  deaths,    \* deaths of each poller
  read,      \* when a message without createTime was last taken (a ghost)
  late,      \* messages that arrived when a newer one had, or one that was
             \* taken for newer (a ghost)
  pushed,    \* messages an answer of the service left out (a ghost)
  rolled     \* how often another poller wrote an older cursor (a ghost)

inboundVars == <<poll, clock, arrived, config, saved, poller, decided, decision, deaths,
                 read, late, pushed, rolled>>

Poller == [pc : {"idle", "history", "work", "decided", "ended"},
           state : PollState, now : Nat, batch : Seq(Messages), config : Config]
Resting(c) == [pc |-> "idle", state |-> [ch \in Channels |-> NoCursor], now |-> 0,
               batch |-> <<>>, config |-> c]

(* RouteDecision.                                                           *)
Decisions == [kind : {"undecided", "usage", "dispatch", "disabled", "not_allowed", "untrusted"},
              dry_run : BOOLEAN]
Reply(kind)   == [kind |-> kind, dry_run |-> TRUE]
Dispatch(dry) == [kind |-> "dispatch", dry_run |-> dry]

InboundTypeOK ==
  /\ poll \in Polls /\ clock \in Nat
  /\ arrived \subseteq Messages
  /\ config \in poll.configs
  /\ saved \in PollState
  /\ poller \in [Channels -> Poller]
  /\ decided \in [Messages -> Nat] /\ decision \in [Messages -> Decisions]
  /\ deaths \in [Channels -> 0 .. poll.deaths]
  /\ read \in [Channels -> Nat] /\ rolled \in [Channels -> Nat]
  /\ late \subseteq arrived /\ pushed \subseteq arrived

InboundInit ==
  /\ poll \in Polls /\ clock = poll.from
  /\ arrived = {} /\ late = {} /\ pushed = {}
  /\ config \in poll.configs
  /\ saved = [ch \in Channels |-> NoCursor]
  /\ poller = [ch \in Channels |-> Resting(config)]
  /\ decided = [m \in Messages |-> 0] /\ decision = [m \in Messages |-> Reply("undecided")]
  /\ deaths = [ch \in Channels |-> 0]
  /\ read = [ch \in Channels |-> 0] /\ rolled = [ch \in Channels |-> 0]

------------------------------------------------------------------------------
(* message_is_at_or_before_cursor.  A boundary keeps the ids seen at its    *)
(* time, for ids are not monotonic.  The time of a poll is after every      *)
(* cursor.                                                                  *)
UpToBoundary(m, cursor) == Dated(m) /\ Sent[m].time <= cursor.time        \* mutant
AtOrBefore(m, cursor) ==
  /\ Dated(m)
  /\ \/ Sent[m].time < cursor.time
     \/ Sent[m].time = cursor.time /\ m \in cursor.ids

(* set_cursor.                                                              *)
NewBoundary(cursor, m, now) == [time |-> Time(m, now), ids |-> {m}]       \* mutant
SetCursor(cursor, m, now) ==
  [ time |-> Time(m, now),
    ids  |-> IF cursor.time = Time(m, now) THEN cursor.ids \cup {m}
             ELSE IF cursor.time > Time(m, now) THEN cursor.ids
             ELSE {m} ]

(* parse_history: ascending in (create_time, message_id).  Messages without *)
(* createTime come last, one after the other in the order of the answer.    *)
Precedes(m, n) ==
  Dated(n) => /\ Dated(m)
              /\ \/ Sent[m].time < Sent[n].time
                 \/ Sent[m].time = Sent[n].time /\ Sent[m].rank < Sent[n].rank
Sorted(M) == {s \in [1 .. Cardinality(M) -> M] :
                \A i, j \in DOMAIN s : i < j => s[i] # s[j] /\ Precedes(s[i], s[j])}

(* What `botmux history --limit` may answer: the newest messages, that many *)
(* at most; where it puts those without createTime is its own choice.      *)
Windows(M) ==
  {W \in SUBSET M : /\ Cardinality(W) = IF Cardinality(M) < poll.window
                                        THEN Cardinality(M) ELSE poll.window
                    /\ \A m \in W, n \in M \ W :
                         Dated(m) /\ Dated(n) => Sent[n].time <= Sent[m].time}

(* resolve_trust and route_inbound.                                         *)
Trusted(m, c) == Sent[m].sender \in c.allowed_senders

RouteUntrusted(m, c) ==                                                   \* mutant
  IF ~c.enabled THEN Reply("disabled")
  ELSE IF Sent[m].verb = "none" THEN Reply("usage")
  ELSE IF Sent[m].verb \notin c.allowed_actions THEN Reply("not_allowed")
  ELSE Dispatch(~Sent[m].confirmed)

Route(m, c) ==
  IF ~c.enabled THEN Reply("disabled")
  ELSE IF Sent[m].verb = "none" THEN Reply("usage")
  ELSE IF Sent[m].verb \notin c.allowed_actions THEN Reply("not_allowed")
  ELSE IF Sent[m].verb \in {"plan", "status"} THEN Dispatch(TRUE)
  ELSE IF ~Trusted(m, c) THEN Reply("untrusted")
  ELSE Dispatch(~Sent[m].confirmed)

------------------------------------------------------------------------------
Tick ==
  /\ clock < poll.until
  /\ clock' = clock + 1
  /\ UNCHANGED <<poll, arrived, config, saved, poller, decided, decision, deaths, read, late,
                 pushed, rolled>>

Arrive(m) ==
  /\ m \in poll.messages \ arrived
  /\ Sent[m].time < clock
  /\ arrived' = arrived \cup {m}
  /\ late' = IF /\ Dated(m)
                /\ \/ \E n \in arrived \cap Of(Sent[m].channel) : Sent[n].time > Sent[m].time
                   \/ read[Sent[m].channel] > Sent[m].time
             THEN late \cup {m} ELSE late
  /\ UNCHANGED <<poll, clock, config, saved, poller, decided, decision, deaths, read, pushed,
                 rolled>>

SetPoller(ch, r) == poller' = [poller EXCEPT ![ch] = r]
State(ch) == poller[ch].state
Head1(ch) == poller[ch].batch[1]
Rest(ch)  == Resting(poller[ch].config)

LoadState(ch) ==
  /\ poller[ch].pc = "idle"
  /\ SetPoller(ch, [poller[ch] EXCEPT !.pc = "history", !.state = saved])
  /\ UNCHANGED <<poll, clock, arrived, config, saved, decided, decision, deaths, read, late,
                 pushed, rolled>>

History(ch) ==
  /\ poller[ch].pc = "history"
  /\ \E W \in Windows(arrived \cap Of(ch)) :
       LET unseen(M) == {m \in M : ~AtOrBefore(m, State(ch)[ch])}
       IN  /\ \E s \in Sorted(unseen(W)) :
                SetPoller(ch, [poller[ch] EXCEPT !.pc = "work", !.now = clock, !.batch = s])
           /\ read' = [read EXCEPT ![ch] = IF \A m \in W : Dated(m) THEN @ ELSE clock]
           /\ pushed' = pushed \cup unseen((arrived \cap Of(ch)) \ W)
  /\ UNCHANGED <<poll, clock, arrived, config, saved, decided, decision, deaths, late, rolled>>

(* parse_inbound, resolve_trust, route_inbound, append_decision.            *)
Decide(ch) ==
  /\ poller[ch].pc = "work" /\ poller[ch].batch # <<>>
  /\ Head1(ch) \notin Poison
  /\ decided' = [decided EXCEPT ![Head1(ch)] = IF Dated(Head1(ch)) THEN @ + 1 ELSE 1]
  /\ decision' = [decision EXCEPT ![Head1(ch)] = Route(Head1(ch), poller[ch].config)]
  /\ SetPoller(ch, [poller[ch] EXCEPT !.pc = "decided"])
  /\ UNCHANGED <<poll, clock, arrived, config, saved, deaths, read, late, pushed, rolled>>

(* An error ends `listen`.                                                  *)
Refused(ch) ==
  /\ poller[ch].pc = "work" /\ poller[ch].batch # <<>>
  /\ Head1(ch) \in Poison
  /\ SetPoller(ch, [Rest(ch) EXCEPT !.pc = "ended"])
  /\ UNCHANGED <<poll, clock, arrived, config, saved, decided, decision, deaths, read, late,
                 pushed, rolled>>

SaveState(ch) ==
  LET state == [State(ch) EXCEPT ![ch] = SetCursor(@, Head1(ch), poller[ch].now)]
  IN  /\ poller[ch].pc = "decided"
      /\ saved' = state
      /\ rolled' = [c \in Channels |-> IF c # ch /\ saved[c] # state[c] THEN rolled[c] + 1
                                       ELSE rolled[c]]
      /\ SetPoller(ch, [poller[ch] EXCEPT !.pc = "work", !.state = state,
                                         !.batch = Tail(@)])
      /\ UNCHANGED <<poll, clock, arrived, config, decided, decision, deaths, read, late,
                     pushed>>

PollEnds(ch) ==
  /\ poller[ch].pc = "work" /\ poller[ch].batch = <<>>
  /\ SetPoller(ch, Rest(ch))
  /\ UNCHANGED <<poll, clock, arrived, config, saved, decided, decision, deaths, read, late,
                 pushed, rolled>>

PollerDies(ch) ==
  /\ poller[ch].pc \in {"history", "work", "decided"}
  /\ deaths[ch] < poll.deaths
  /\ deaths' = [deaths EXCEPT ![ch] = @ + 1]
  /\ SetPoller(ch, [Rest(ch) EXCEPT !.pc = "ended"])
  /\ UNCHANGED <<poll, clock, arrived, config, saved, decided, decision, read, late, pushed,
                 rolled>>

StartAgain(ch) ==
  /\ poller[ch].pc = "ended"
  /\ SetPoller(ch, Resting(config))
  /\ UNCHANGED <<poll, clock, arrived, config, saved, decided, decision, deaths, read, late,
                 pushed, rolled>>

(* Somebody edits channels.yaml.                                            *)
Edit ==
  /\ config' \in poll.configs \ {config}
  /\ UNCHANGED <<poll, clock, arrived, saved, poller, decided, decision, deaths, read, late,
                 pushed, rolled>>

------------------------------------------------------------------------------
PollStep(ch) == \/ LoadState(ch) \/ History(ch) \/ Decide(ch) \/ Refused(ch)
                \/ SaveState(ch) \/ PollEnds(ch) \/ StartAgain(ch)

InboundNext == \/ \E m \in Messages : Arrive(m)
               \/ Edit \/ Tick
               \/ \E ch \in Channels : PollStep(ch) \/ PollerDies(ch)

InboundSpec == InboundInit /\ [][InboundNext]_inboundVars

------------------------------------------------------------------------------
(* Properties.                                                              *)

Spared(m) == m \notin late \cup pushed
Blocked(ch) == arrived \cap Of(ch) \cap Poison # {}

(* The cursor passes over no message: one at or before it was decided,      *)
(* unless the service delivered it after a newer one, or after the poll     *)
(* that took a message without createTime, or in a burst larger than        *)
(* poll_limit.  Ids that sort lower, several messages of one instant,       *)
(* deaths and the other channels' saves lose none.                          *)
NoneIsOverlooked ==
  \A m \in arrived : /\ AtOrBefore(m, saved[Sent[m].channel])
                     /\ Spared(m)
                     => decided[m] > 0

(* A message with a createTime is decided again only after the poller died  *)
(* before it saved, or after the poller of another channel wrote its older  *)
(* copy back; messages without one, which every poll decides again, do not  *)
(* make it decide the others again.                                         *)
DecidedAgainForAReason ==
  \A m \in Messages : Dated(m) =>
    decided[m] <= 1 + deaths[Sent[m].channel] + rolled[Sent[m].channel]

Live(m)   == decision[m] = Dispatch(FALSE)
Grants(m) == /\ Sent[m].sender \in config.allowed_senders
             /\ Sent[m].verb \in config.allowed_actions \ {"plan", "status"}
             /\ Sent[m].confirmed
(* A message sets something going for real only if channels.yaml allows its *)
(* sender and its verb and it was confirmed, unless the file was edited     *)
(* after the poller had read it: a poller keeps what it read at its start.  *)
ActsOnlyForTheTrusted ==
  [][\A m \in Messages : Live(m)' /\ ~Live(m) =>
        Grants(m) \/ poller[Sent[m].channel].config # config]_inboundVars

(* Every message that arrived is decided in the end, unless it is one of   *)
(* the lost or behind a message that parse_inbound refuses, which ends      *)
(* every poll.                                                              *)
EventuallyDecided ==
  <>[](\A m \in arrived :
         decided[m] > 0 \/ ~Spared(m) \/ Blocked(Sent[m].channel))
=============================================================================
