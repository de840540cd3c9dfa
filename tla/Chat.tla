-------------------------------- MODULE Chat --------------------------------
(***************************************************************************)
(* One chat session of the web interface (src/server/handlers/chat.rs and  *)
(* src/chat/): a file that every request handler loads, changes in memory  *)
(* and saves whole, with no lock.  Between its load and its save a handler *)
(* may wait for a provider for minutes: a turn, tagging and compaction keep*)
(* the copy they loaded; an approved action loads the session again when   *)
(* it has run.                                                             *)
(*                                                                         *)
(* Abstracted: the texts (a title is the request that gave it); an answer  *)
(* proposes one action; the order of tags; the pins, which are overwritten *)
(* as the title is; a save is one step (its temporary file is the one of   *)
(* Mailbox).  A turn that finds no session goes on in a new one, which is  *)
(* not this one.  External: the providers and the actions' runs.           *)
(***************************************************************************)
EXTENDS Integers, Sequences, FiniteSets

CONSTANTS
  Requests,      \* the requests, one handler each
  Request,       \* Request[r]: its kind; the turn a decision is about; the tags
                 \* put or found; whether a patch or a question's text has a title
  Tags,          \* the tags of sessions
  KeepRecent,    \* KEEP_RECENT
  MinToCompact,  \* MIN_TO_COMPACT
  Busy,          \* sets of requests that may come together
  NoFile         \* no session file

Kinds == {"turn", "approve", "reject", "put", "patch", "auto_tag", "compact", "delete"}

ASSUME RequestAssumption ==
  /\ Request \in [Requests -> [kind : Kinds, of : Requests, tags : SUBSET Tags, titled : BOOLEAN]]
  /\ KeepRecent \in Nat /\ MinToCompact \in Nat /\ MinToCompact > KeepRecent
  /\ Busy \subseteq SUBSET Requests

(* Session: an entry of its log is a message, or a summary that holds many; *)
(* an answer carries the status of its action.                              *)
Name    == Requests \X {"user", "assistant"}
Status  == {"none", "Pending", "Running", "Done", "Failed", "Rejected"}
Entry   == [holds : SUBSET Name, status : Status]
NewChat == "New chat"
Session == [log : Seq(Entry), tags : SUBSET Tags, title : Requests \cup {NewChat}]
NewSession == [log |-> <<>>, tags |-> {}, title |-> NewChat]

ASSUME NoFileAssumption == NoFile \notin Session

VARIABLES
  busy,       \* the requests of this behaviour, never changed
  session,    \* the file
  handler,    \* the handlers
  told,       \* questions, tags and patches, in the order of their saves (a ghost)
  clobbered,  \* a handler saved over what another one had saved (a ghost)
  deleted,    \* the session was deleted (a ghost)
  bystander   \* a handler was at work at that moment (a ghost)

chatVars == <<busy, session, handler, told, clobbered, deleted, bystander>>

Handler == [pc : {"idle", "loaded", "asked", "running", "reloaded", "done", "failed", "left"},
            copy : Session \cup {NoFile},    \* its session in memory
            base : Session \cup {NoFile}]    \* what it last loaded or saved

ChatTypeOK ==
  /\ busy \in Busy
  /\ session \in Session \cup {NoFile}
  /\ handler \in [Requests -> Handler]
  /\ told \in Seq(Requests)
  /\ clobbered \in BOOLEAN /\ deleted \in BOOLEAN /\ bystander \in BOOLEAN

ChatInit ==
  /\ busy \in Busy
  /\ session = NewSession
  /\ handler = [r \in Requests |-> [pc |-> "idle", copy |-> NoFile, base |-> NoFile]]
  /\ told = <<>> /\ clobbered = FALSE /\ deleted = FALSE /\ bystander = FALSE

------------------------------------------------------------------------------
Message(r, role, status) == [holds |-> {<<r, role>>}, status |-> status]
With(s, entry)  == [s EXCEPT !.log = Append(@, entry)]
Titled(r, s)    == IF Request[r].titled THEN [s EXCEPT !.title = r] ELSE s
FirstTitle(r, s) == IF s.log = <<>> THEN Titled(r, s) ELSE s
Asked(r, s)     == With(FirstTitle(r, s), Message(r, "user", "none"))
Answered(r, s)  == With(s, Message(r, "assistant", "Pending"))

(* The answer a decision is about, which a summary has no more.             *)
ItsAnswer(r, entry) == entry.holds = {<<Request[r].of, "assistant">>}
Marked(r, s, status) ==
  [s EXCEPT !.log = [i \in DOMAIN @ |-> IF ItsAnswer(r, @[i]) THEN [@[i] EXCEPT !.status = status]
                                        ELSE @[i]]]

(* compact_session.                                                         *)
Compacted(s) ==
  LET cutoff == Len(s.log) - KeepRecent
  IN  [s EXCEPT !.log = <<[holds |-> UNION {s.log[i].holds : i \in 1 .. cutoff},
                           status |-> "none"]>>
                        \o SubSeq(s.log, cutoff + 1, Len(s.log))]

(* What a handler finds when it looks for its session.                      *)
OrEmpty == IF session = NoFile THEN NewSession ELSE session                \* mutant
OrNone  == session

(* Whether it has anything to do then.                                      *)
Applies(r, s) ==
  /\ s # NoFile
  /\ Request[r].kind \in {"approve", "reject"} => \E i \in DOMAIN s.log : ItsAnswer(r, s.log[i])
  /\ Request[r].kind = "compact" => Len(s.log) >= MinToCompact

Kept(r)     == handler[r].copy                                             \* mutant
Reloaded(r) == IF session = NoFile THEN handler[r].copy ELSE session

Stage(r, kind, pc) == r \in busy /\ Request[r].kind = kind /\ handler[r].pc = pc

(* sessions::save.                                                          *)
Write(r, s, pc) ==
  /\ session' = s
  /\ clobbered' = (clobbered \/ session # handler[r].base)
  /\ handler' = [handler EXCEPT ![r] = [pc |-> pc, copy |-> s, base |-> s]]
  /\ UNCHANGED <<busy, deleted, bystander>>

SaveAs(r, s, pc) == Write(r, s, pc) /\ told' = told
TellAs(r, s, pc) == Write(r, s, pc) /\ told' = Append(told, r)

Leave(r, pc) ==
  /\ handler' = [handler EXCEPT ![r].pc = pc]
  /\ UNCHANGED <<busy, session, told, clobbered, deleted, bystander>>

------------------------------------------------------------------------------
LoadSession(r) ==
  /\ r \in busy /\ handler[r].pc = "idle" /\ Request[r].kind # "delete"
  /\ IF Applies(r, OrNone)
     THEN /\ handler' = [handler EXCEPT ![r] = [pc |-> "loaded", copy |-> OrNone,
                                                base |-> session]]
          /\ UNCHANGED <<busy, session, told, clobbered, deleted, bystander>>
     ELSE Leave(r, "left")

(* chat_messages_post: the question is saved, the provider asked, and the   *)
(* answer saved with the copy from before.                                  *)
Ask(r)    == Stage(r, "turn", "loaded") /\ TellAs(r, Asked(r, handler[r].copy), "asked")
Answer(r) == Stage(r, "turn", "asked") /\ SaveAs(r, Answered(r, handler[r].copy), "done")

(* chat_action_post, which asks for no status before it runs the action.    *)
Reject(r) ==
  Stage(r, "reject", "loaded") /\ SaveAs(r, Marked(r, handler[r].copy, "Rejected"), "done")
Approve(r) ==
  Stage(r, "approve", "loaded") /\ SaveAs(r, Marked(r, handler[r].copy, "Running"), "running")

Executed(r) ==
  /\ Stage(r, "approve", "running")
  /\ handler' = [handler EXCEPT ![r] = [pc |-> "reloaded", copy |-> Reloaded(r),
                                        base |-> session]]
  /\ UNCHANGED <<busy, session, told, clobbered, deleted, bystander>>

Report(r) ==
  /\ Stage(r, "approve", "reloaded")
  /\ \E status \in {"Done", "Failed"} : SaveAs(r, Marked(r, handler[r].copy, status), "done")

(* tags_put replaces the whole list, a patch the title it names, and saves  *)
(* if it names none too.                                                    *)
Replaced(r, s) == [s EXCEPT !.tags = Request[r].tags]
Merged(r, s)   == [s EXCEPT !.tags = @ \cup Request[r].tags]

PutTags(r) ==
  Stage(r, "put", "loaded") /\ TellAs(r, Replaced(r, handler[r].copy), "done")
Patch(r) ==
  Stage(r, "patch", "loaded") /\ TellAs(r, Titled(r, handler[r].copy), "done")

(* auto_tag adds what the provider finds in the questions, if there are any *)
(* and it finds some; it saves nothing otherwise.                           *)
HasQuestion(s) == \E i \in DOMAIN s.log, q \in Requests : s.log[i].holds = {<<q, "user">>}

AutoTag(r) ==
  /\ Stage(r, "auto_tag", "loaded") /\ HasQuestion(handler[r].copy)
  /\ TellAs(r, Merged(r, handler[r].copy), "done")

NothingToTag(r) == Stage(r, "auto_tag", "loaded") /\ Leave(r, "left")

Compact(r) ==
  Stage(r, "compact", "loaded") /\ SaveAs(r, Compacted(handler[r].copy), "done")

(* The provider fails; the one a patch pins is unknown.                     *)
ProviderFails(r) ==
  /\ \/ Stage(r, "turn", "asked") \/ Stage(r, "patch", "loaded")
     \/ Stage(r, "auto_tag", "loaded") /\ HasQuestion(handler[r].copy)
     \/ Stage(r, "compact", "loaded")
  /\ Leave(r, "failed")

InFlight(r) == handler[r].pc \in {"loaded", "asked", "running", "reloaded"}

Delete(r) ==
  /\ Stage(r, "delete", "idle")
  /\ session' = NoFile
  /\ deleted' = TRUE
  /\ bystander' = (bystander \/ \E h \in busy : InFlight(h))
  /\ handler' = [handler EXCEPT ![r].pc = "done"]
  /\ UNCHANGED <<busy, told, clobbered>>

ChatNext == \E r \in Requests : \/ LoadSession(r) \/ Ask(r) \/ Answer(r) \/ Reject(r)
                                \/ Approve(r) \/ Executed(r) \/ Report(r)
                                \/ PutTags(r) \/ Patch(r) \/ AutoTag(r) \/ NothingToTag(r)
                                \/ Compact(r) \/ ProviderFails(r) \/ Delete(r)

ChatSpec == ChatInit /\ [][ChatNext]_chatVars

------------------------------------------------------------------------------
(* Properties.                                                              *)

Held == UNION {session.log[i].holds : i \in DOMAIN session.log}
Did(r, kind) == r \in busy /\ Request[r].kind = kind /\ handler[r].pc = "done"
Decides(r, t) == r \in busy /\ Request[r].kind \in {"approve", "reject"} /\ Request[r].of = t

(* A tag is in the session that some request gave and no later put left     *)
(* out; the title is the last one given, by a patch or by the question that *)
(* opened the session.                                                      *)
Kind(i)     == Request[told[i]].kind
TagsTold ==
  \A x \in Tags :
    x \in session.tags <=>
      \E i \in DOMAIN told : /\ Kind(i) \in {"put", "auto_tag"} /\ x \in Request[told[i]].tags
                             /\ \A j \in DOMAIN told : j > i => Kind(j) # "put"

GivesTitle(i) ==
  /\ Request[told[i]].titled
  /\ \/ Kind(i) = "patch"
     \/ Kind(i) = "turn" /\ \A j \in DOMAIN told : j < i => Kind(j) # "turn"
TitleTold ==
  \/ session.title = NewChat /\ \A i \in DOMAIN told : ~GivesTitle(i)
  \/ \E i \in DOMAIN told : /\ session.title = told[i] /\ GivesTitle(i)
                            /\ \A j \in DOMAIN told : j > i => ~GivesTitle(j)

(* As long as no handler saved over another one's save, the session keeps   *)
(* all that happened in it: the messages, told or summarised; the tags and  *)
(* the title as the requests gave and replaced them; and of an action that  *)
(* nobody is running any more and that no summary took, how it ended.  The  *)
(* minutes an approved action runs are no such overlap: what was saved      *)
(* meanwhile stays.                                                         *)
NothingIsLost ==
  ~clobbered /\ ~deleted =>
    /\ \A r \in busy :
         /\ Request[r].kind = "turn" /\ handler[r].pc \in {"asked", "failed", "done"} =>
              <<r, "user">> \in Held
         /\ Did(r, "turn") => <<r, "assistant">> \in Held
    /\ TagsTold /\ TitleTold
    /\ \A i \in DOMAIN session.log, t \in busy :
         /\ session.log[i].holds = {<<t, "assistant">>}
         /\ \E r \in busy : Decides(r, t) /\ handler[r].pc = "done"
         /\ ~\E r \in busy : Decides(r, t) /\ InFlight(r)
         => session.log[i].status \in {"Done", "Failed", "Rejected"}

(* A session that was deleted while no handler was at work on it stays      *)
(* deleted: the late requests find none and leave.                          *)
DeletedStaysDeleted == deleted /\ ~bystander => session = NoFile
=============================================================================
