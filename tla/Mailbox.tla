------------------------------ MODULE Mailbox ------------------------------
(***************************************************************************)
(* One blocking message of the mailbox (src/mailbox.rs) and all who touch  *)
(* it: `resolve` and `answer` commands from the CLI, the web interface and *)
(* the MCP tools; the MCP tool that asked a question and waits for its     *)
(* answer (src/mcp/tools.rs); and the gate that holds a task back while    *)
(* blocking mail for it is open (src/scheduler/executor.rs).               *)
(*                                                                         *)
(* A command loads the message, changes it and saves it: it opens and      *)
(* empties a temporary file of a fixed name, writes it and renames it over *)
(* the message.  No lock is held, so the commands interleave at each of    *)
(* these steps, and any of them may die.                                   *)
(*                                                                         *)
(* Abstracted: the texts, and their lengths: a text written over another   *)
(* one leaves it whole or with the other's tail.                           *)
(***************************************************************************)
EXTENDS Integers, FiniteSets, Sequences, SequencesExt

CONSTANTS
  Commands,   \* one resolve or answer each
  Keys,       \* Keys[c]: the option keys c answers with, Mute for a resolve
  Mute,
  Default     \* the answer of the asking tool itself, in Commands

ASSUME DefaultAssumption  == Default \in Commands /\ Keys[Default] # Mute
ASSUME CommandsAssumption  == IsFiniteSet(Commands)

Inodes  == 1 .. Cardinality(Commands) + 1
NoInode == 0
Nobody  == "nobody"

Mail     == [status : {"Open", "Resolved"}, answer : {Keys[c] : c \in Commands} \cup {Mute},
             by : Commands \cup {Nobody}]    \* by: whose resolution it carries
SentMail == [status |-> "Open", answer |-> Mute, by |-> Nobody]
Content  == [whole : BOOLEAN, empty : BOOLEAN, mail : Mail]
Blank    == [whole |-> FALSE, empty |-> TRUE, mail |-> SentMail]
Garbled  == [whole |-> FALSE, empty |-> FALSE, mail |-> SentMail]
Text(m)  == [whole |-> TRUE, empty |-> FALSE, mail |-> m]

VARIABLES
  kind,     \* whether the message is a question or mail for a task
  inode,    \* contents
  file,     \* the message's file
  tmp,      \* the temporary file
  command,  \* the commands
  asker,    \* mailbox_ask
  overdue,  \* its timeout has elapsed
  gate,     \* the task the mail is for
  closed,   \* commands that renamed, in order (a ghost)
  seen,     \* how many of them the last poll of the asker could see (a ghost)
  crossed   \* two commands had loaded the message and not saved it (a ghost)

mailVars == <<kind, inode, file, tmp, command, asker, overdue, gate, closed, seen, crossed>>

Command == [pc : {"idle", "open", "write", "rename", "done", "failed"},
            mail : Mail, fd : Inodes \cup {NoInode}]
Unborn  == [pc |-> "idle", mail |-> SentMail, fd |-> NoInode]

MailTypeOK ==
  /\ kind \in {"question", "blocking"}
  /\ inode \in [Inodes -> Content]
  /\ file \in Inodes /\ tmp \in Inodes \cup {NoInode}
  /\ command \in [Commands -> Command]
  /\ asker \in {"asking", "polled", "answering", "answered", "defaulted", "failed"}
  /\ overdue \in BOOLEAN
  /\ gate \in {"held", "passed"}
  /\ closed \in Seq(Commands)
  /\ seen \in 0 .. Len(closed)
  /\ crossed \in BOOLEAN

MailInit ==
  /\ kind \in {"question", "blocking"}
  /\ inode = [i \in Inodes |-> IF i = 1 THEN Text(SentMail) ELSE Blank]
  /\ file = 1 /\ tmp = NoInode
  /\ command = [c \in Commands |-> Unborn]
  /\ asker = "asking" /\ overdue = FALSE /\ gate = "held"
  /\ closed = <<>> /\ seen = 0 /\ crossed = FALSE

------------------------------------------------------------------------------
Readable == inode[file].whole
Current  == inode[file].mail

(* resolve and answer.  Neither asks whether the message is open still.     *)
Piled(c, m)     == [status |-> "Resolved", answer |-> <<m.answer, Keys[c]>>, by |-> c]  \* mutant
LeftOpen(c, m)  == [m EXCEPT !.answer = IF Keys[c] = Mute THEN @ ELSE Keys[c], \* mutant
                             !.by = c]
Settled(c, m)   == [ status |-> "Resolved",
                     answer |-> IF Keys[c] = Mute THEN m.answer ELSE Keys[c],
                     by     |-> c ]

Step(c, pc) == command' = [command EXCEPT ![c].pc = pc]
AtWork(c)   == command[c].pc \in {"open", "write", "rename"}

(* load, and the change in memory.  A file that does not parse is an error. *)
LoadMail(c) ==
  /\ command[c].pc = "idle"
  /\ IF c = Default THEN asker = "answering" ELSE TRUE
  /\ IF Readable
     THEN /\ command' = [command EXCEPT ![c] = [pc |-> "open", mail |-> Settled(c, Current),
                                                fd |-> NoInode]]
          /\ crossed' = (crossed \/ \E d \in Commands : AtWork(d))
     ELSE Step(c, "failed") /\ UNCHANGED crossed
  /\ UNCHANGED <<kind, inode, file, tmp, asker, overdue, gate, closed, seen>>

Used  == {file, tmp} \cup {command[c].fd : c \in Commands}
Fresh == CHOOSE i \in Inodes : i \notin Used

InPlace == file                                                            \* mutant
Target  == IF tmp = NoInode THEN Fresh ELSE tmp

(* std::fs::write: open with create and truncate, then write.               *)
OpenTmp(c) ==
  /\ command[c].pc = "open"
  /\ inode' = [inode EXCEPT ![Target] = Blank]
  /\ tmp' = Target
  /\ command' = [command EXCEPT ![c].pc = "write", ![c].fd = Target]
  /\ UNCHANGED <<kind, file, asker, overdue, gate, closed, seen, crossed>>

WriteTmp(c) ==
  LET i == command[c].fd
      m == Text(command[c].mail)
  IN  /\ command[c].pc = "write"
      /\ \E after \in IF inode[i].empty \/ inode[i] = m THEN {m} ELSE {m, Garbled} :
           inode' = [inode EXCEPT ![i] = after]
      /\ Step(c, "rename")
      /\ UNCHANGED <<kind, file, tmp, asker, overdue, gate, closed, seen, crossed>>

(* Whoever renames first takes the temporary file, whoever wrote it; the    *)
(* other one gets an error.                                                 *)
Rename(c) ==
  /\ command[c].pc = "rename" /\ tmp # NoInode
  /\ file' = tmp /\ tmp' = NoInode
  /\ closed' = Append(closed, c)
  /\ Step(c, "done")
  /\ UNCHANGED <<kind, inode, asker, overdue, gate, seen, crossed>>

RenameFailed(c) ==
  /\ command[c].pc = "rename" /\ tmp = NoInode
  /\ Step(c, "failed")
  /\ UNCHANGED <<kind, inode, file, tmp, asker, overdue, gate, closed, seen, crossed>>

CommandDies(c) ==
  /\ AtWork(c) /\ c # Default
  /\ Step(c, "failed")
  /\ UNCHANGED <<kind, inode, file, tmp, asker, overdue, gate, closed, seen, crossed>>

------------------------------------------------------------------------------
(* mailbox_ask: load; return when resolved; else, past the timeout, answer  *)
(* with the default, else sleep.                                            *)
AskPoll ==
  /\ kind = "question" /\ asker = "asking"
  /\ asker' = IF ~Readable THEN "failed"
              ELSE IF Current.status = "Resolved" THEN "answered" ELSE "polled"
  /\ seen' = Len(closed)
  /\ UNCHANGED <<kind, inode, file, tmp, command, overdue, gate, closed, crossed>>

NeverDue == FALSE                                                          \* mutant
Due      == overdue

TimePasses ==
  /\ kind = "question" /\ asker \in {"asking", "polled"} /\ ~overdue
  /\ overdue' = TRUE
  /\ UNCHANGED <<kind, inode, file, tmp, command, asker, gate, closed, seen, crossed>>

AskAgain ==
  /\ asker = "polled" /\ ~Due
  /\ asker' = "asking"
  /\ UNCHANGED <<kind, inode, file, tmp, command, overdue, gate, closed, seen, crossed>>

AskTimeout ==
  /\ asker = "polled" /\ Due
  /\ asker' = "answering"
  /\ UNCHANGED <<kind, inode, file, tmp, command, overdue, gate, closed, seen, crossed>>

AskDone ==
  /\ asker = "answering" /\ command[Default].pc \in {"done", "failed"}
  /\ asker' = IF command[Default].pc = "done" THEN "defaulted" ELSE "failed"
  /\ UNCHANGED <<kind, inode, file, tmp, command, overdue, gate, closed, seen, crossed>>

(* open_blocking_count: list skips a file it cannot read.                   *)
GatePasses ==
  /\ kind = "blocking" /\ gate = "held"
  /\ ~(Readable /\ Current.status = "Open")
  /\ gate' = "passed"
  /\ UNCHANGED <<kind, inode, file, tmp, command, asker, overdue, closed, seen, crossed>>

------------------------------------------------------------------------------
Save(c) == OpenTmp(c) \/ WriteTmp(c) \/ Rename(c) \/ RenameFailed(c)

Asking == AskPoll \/ AskAgain \/ AskTimeout \/ AskDone

MailNext == \/ \E c \in Commands : LoadMail(c) \/ Save(c) \/ CommandDies(c)
            \/ Asking \/ TimePasses
            \/ GatePasses

MailSpec == MailInit /\ [][MailNext]_mailVars

------------------------------------------------------------------------------
(* Properties.                                                              *)

LastAnswer ==
  LET answers == {i \in DOMAIN closed : Keys[closed[i]] # Mute}
  IN  IF answers = {} THEN Mute ELSE Keys[closed[Max(answers)]]

(* Commands that do not overlap compose, whatever dies between them: the    *)
(* file reads as the message with the last resolution, and a resolution     *)
(* keeps the answer given before.                                           *)
CommandsCompose ==
  ~crossed => /\ Readable
              /\ Current.answer = LastAnswer
              /\ Current.by = IF closed = <<>> THEN Nobody ELSE Last(closed)

(* A question that was closed when the tool last looked is never answered   *)
(* with the default: only an answer that came between that look and the     *)
(* timeout is overruled.                                                    *)
AnswerInTimeIsHeard == asker \in {"answering", "defaulted"} => seen = 0

(* Mail that somebody closed holds no task back, overlapping saves and      *)
(* half-written files included.                                             *)
GateOpens == (kind = "blocking" /\ closed # <<>>) ~> (gate = "passed")

(* mailbox_ask comes back: with an answer, with its default or with an      *)
(* error.                                                                   *)
AskReturns == (kind = "question") ~> (asker \in {"answered", "defaulted", "failed"})
=============================================================================
