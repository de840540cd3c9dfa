------------------------- MODULE Conversation_proofs -------------------------
(***************************************************************************)
(* Theorems about Mailbox, for any number of commands, and about Chat, for *)
(* every set of requests and every threshold of compaction.                *)
(***************************************************************************)
EXTENDS Mailbox, Chat, FiniteSetTheorems, SequenceTheorems, TLAPS

(* The mailbox.                                                             *)
(* There is an inode left for whoever opens a temporary file: each of the   *)
(* other commands holds one at most, and the message another.               *)
LEMMA FreshInode ==
  ASSUME MailTypeOK, tmp = NoInode, NEW c \in Commands, command[c].fd = NoInode
  PROVE  Fresh \in Inodes /\ Fresh # file
<1> DEFINE others == Commands \ {c}
           fds    == {command[d].fd : d \in others}
<1>1. Cardinality(Commands) \in Nat
  BY CommandsAssumption, FS_CardinalityType
<1>2. IsFiniteSet(others) /\ Cardinality(others) = Cardinality(Commands) - 1
  BY CommandsAssumption, FS_RemoveElement
<1>3. IsFiniteSet(fds) /\ Cardinality(fds) <= Cardinality(others)
  <2> DEFINE f == [d \in others |-> command[d].fd]
  <2>1. f \in Surjection(others, fds)
    BY DEF Surjection
  <2> QED BY <1>2, <2>1, FS_Surjection
<1> HIDE DEF fds, others
<1>4. IsFiniteSet(fds \cup {file}) /\ Cardinality(fds \cup {file}) <= Cardinality(fds) + 1
  <2>1. Cardinality(fds) \in Nat
    BY <1>3, FS_CardinalityType
  <2>2. /\ IsFiniteSet(fds \cup {file})
        /\ Cardinality(fds \cup {file}) = IF file \in fds THEN Cardinality(fds)
                                           ELSE Cardinality(fds) + 1
    BY <1>3, FS_AddElement
  <2> QED BY <2>1, <2>2
<1>5. Cardinality(fds \cup {file}) < Cardinality(Commands) + 1
  <2>1. Cardinality(fds \cup {file}) \in Nat /\ Cardinality(fds) \in Nat
        /\ Cardinality(others) \in Nat
    BY <1>2, <1>3, <1>4, FS_CardinalityType
  <2> QED BY <1>1, <1>2, <1>3, <1>4, <2>1
<1>6. IsFiniteSet(Inodes) /\ Cardinality(Inodes) = Cardinality(Commands) + 1
  BY <1>1, FS_Interval DEF Inodes
<1>7. ~(Inodes \subseteq fds \cup {file})
  <2>1. Cardinality(fds \cup {file}) \in Nat
    BY <1>4, FS_CardinalityType
  <2> SUFFICES ASSUME Inodes \subseteq fds \cup {file} PROVE FALSE
    OBVIOUS
  <2>2. Cardinality(Inodes) <= Cardinality(fds \cup {file})
    BY <1>4, FS_Subset
  <2> QED BY <1>1, <1>5, <1>6, <2>1, <2>2
<1>8. PICK i \in Inodes : i \notin fds \cup {file}
  BY <1>7
<1>9. i \notin Used
  <2>1. i # NoInode
    BY <1>1, <1>8 DEF Inodes, NoInode
  <2> QED BY <1>8, <2>1 DEF Used, fds, others
<1> QED BY <1>9 DEF Fresh, Used

------------------------------------------------------------------------------
(* The inductive invariant.  Whatever may become the message after somebody *)
(* closed it reads as closed, or does not read at all.                      *)

Closing(i) == inode[i].whole => inode[i].mail.status = "Resolved"

Closes ==
  /\ tmp # file
  /\ tmp # NoInode => Closing(tmp)
  /\ closed # <<>> => Closing(file)
  /\ \A c \in Commands : /\ AtWork(c) => command[c].mail.status = "Resolved"
                         /\ command[c].pc = "open" => command[c].fd = NoInode
                         /\ command[c].pc \in {"write", "rename"} => command[c].fd # NoInode

Listens == asker \in {"polled", "answering", "defaulted"} => seen = 0

MailInv == MailTypeOK /\ Closes /\ Listens

LEMMA MailInitHolds == MailInit => MailInv
<1> SUFFICES ASSUME MailInit PROVE MailInv
  OBVIOUS
<1>1. Cardinality(Commands) \in Nat /\ 1 \in Inodes /\ NoInode \notin Inodes
  BY CommandsAssumption, FS_CardinalityType DEF Inodes, NoInode
<1>2. SentMail \in Mail
  BY DEF SentMail, Mail
<1>3. Text(SentMail) \in Content /\ Blank \in Content /\ Unborn \in Command
  BY <1>2 DEF Text, Blank, Content, Unborn, Command
<1>4. MailTypeOK
  <2>1. <<>> \in Seq(Commands) /\ 0 \in 0 .. Len(<<>>)
    OBVIOUS
  <2>2. inode \in [Inodes -> Content] /\ command \in [Commands -> Command]
    BY <1>3 DEF MailInit
  <2> QED BY <1>1, <2>1, <2>2 DEF MailInit, MailTypeOK
<1>5. Closes
  BY <1>1 DEF MailInit, Closes, AtWork, Unborn
<1>6. Listens
  BY DEF MailInit, Listens
<1> QED BY <1>4, <1>5, <1>6 DEF MailInv

LEMMA SettledType ==
  ASSUME NEW c \in Commands, NEW m \in Mail
  PROVE  Settled(c, m) \in Mail /\ Settled(c, m).status = "Resolved"
BY DEF Settled, Mail

LEMMA TypeFacts ==
  ASSUME MailTypeOK
  PROVE  /\ SentMail \in Mail /\ Blank \in Content /\ Garbled \in Content
         /\ \A m \in Mail : Text(m) \in Content
         /\ \A c \in Commands : command[c] \in Command
         /\ \A i \in Inodes : inode[i] \in Content
         /\ Current \in Mail /\ NoInode \notin Inodes
<1>1. SentMail \in Mail
  BY DEF SentMail, Mail
<1>2. NoInode \notin Inodes
  BY DEF Inodes, NoInode
<1> QED BY <1>1, <1>2 DEF MailTypeOK, Text, Blank, Garbled, Content, Current

LEMMA CommandKeeps ==
  ASSUME MailInv, NEW c \in Commands, LoadMail(c) \/ CommandDies(c) \/ RenameFailed(c)
  PROVE  MailInv'
<1> USE TypeFacts, SettledType DEF MailInv
<1>1. CASE LoadMail(c) /\ Readable
  <2> DEFINE new == [pc |-> "open", mail |-> Settled(c, Current), fd |-> NoInode]
  <2>1. new \in Command
    BY DEF Command
  <2>2. /\ command' = [command EXCEPT ![c] = new] /\ crossed' \in BOOLEAN
        /\ UNCHANGED <<kind, inode, file, tmp, asker, overdue, gate, closed, seen>>
    BY <1>1 DEF LoadMail, MailTypeOK
  <2>3. MailTypeOK'
    BY <2>1, <2>2 DEF MailTypeOK
  <2>4. Closes'
    BY <2>2 DEF MailTypeOK, Closes, Closing, AtWork
  <2>5. Listens'
    BY <2>2 DEF Listens
  <2> QED BY <2>3, <2>4, <2>5
<1>2. CASE (LoadMail(c) /\ ~Readable) \/ CommandDies(c) \/ RenameFailed(c)
  <2>1. /\ command' = [command EXCEPT ![c].pc = "failed"]
        /\ UNCHANGED <<kind, inode, file, tmp, asker, overdue, gate, closed, seen, crossed>>
    BY <1>2 DEF LoadMail, CommandDies, RenameFailed, Step
  <2>2. [command[c] EXCEPT !.pc = "failed"] \in Command
    BY DEF Command
  <2>3. MailTypeOK'
    BY <2>1, <2>2 DEF MailTypeOK
  <2>4. Closes'
    BY <2>1 DEF MailTypeOK, Closes, Closing, AtWork
  <2>5. Listens'
    BY <2>1 DEF Listens
  <2> QED BY <2>3, <2>4, <2>5
<1> QED BY <1>1, <1>2

LEMMA OpenKeeps ==
  ASSUME MailInv, NEW c \in Commands, OpenTmp(c)
  PROVE  MailInv' /\ Target \in Inodes /\ Target # file
<1>1. Target \in Inodes /\ Target # file
  <2>1. command[c].fd = NoInode
    BY DEF MailInv, Closes, OpenTmp
  <2>2. CASE tmp = NoInode
    BY <2>1, <2>2, FreshInode DEF MailInv, Target
  <2>3. CASE tmp # NoInode
    BY <2>3 DEF MailInv, MailTypeOK, Closes, Target
  <2> QED BY <2>2, <2>3
<1>2. PICK i \in Inodes : i = Target
  BY <1>1
<1> USE TypeFacts DEF MailInv
<1>3. /\ inode' = [inode EXCEPT ![i] = Blank] /\ tmp' = i /\ i # file
      /\ command' = [command EXCEPT ![c].pc = "write", ![c].fd = i]
      /\ UNCHANGED <<kind, file, asker, overdue, gate, closed, seen, crossed>>
      /\ command[c].pc = "open"
  BY <1>1, <1>2 DEF OpenTmp
<1>4. [command[c] EXCEPT !.pc = "write", !.fd = i] \in Command
  BY DEF Command
<1>5. MailTypeOK'
  BY <1>3, <1>4 DEF MailTypeOK
<1>6. Closes'
  <2>1. Closing(file)' <=> Closing(file)
    BY <1>3 DEF Closing, MailTypeOK
  <2>2. Closing(tmp)'
    BY <1>3 DEF Closing, MailTypeOK, Blank
  <2>3. \A d \in Commands : /\ AtWork(d)' => command'[d].mail.status = "Resolved"
                            /\ command'[d].pc = "open" => command'[d].fd = NoInode
                            /\ command'[d].pc \in {"write", "rename"} => command'[d].fd # NoInode
    BY <1>3 DEF Closes, AtWork, MailTypeOK
  <2> QED BY <1>3, <2>1, <2>2, <2>3 DEF Closes
<1>7. Listens'
  BY <1>3 DEF Listens
<1> QED BY <1>1, <1>5, <1>6, <1>7

LEMMA WriteKeeps ==
  ASSUME MailInv, NEW c \in Commands, WriteTmp(c)
  PROVE  MailInv'
<1> USE TypeFacts DEF MailInv
<1>1. PICK i \in Inodes, after \in {Text(command[c].mail), Garbled} :
        /\ i = command[c].fd /\ inode' = [inode EXCEPT ![i] = after]
        /\ command' = [command EXCEPT ![c].pc = "rename"]
        /\ UNCHANGED <<kind, file, tmp, asker, overdue, gate, closed, seen, crossed>>
  <2>1. command[c].fd \in Inodes
    BY DEF WriteTmp, Closes, Command
  <2> QED BY <2>1 DEF WriteTmp, Step
<1>2. /\ after \in Content /\ [command[c] EXCEPT !.pc = "rename"] \in Command
      /\ command[c].mail.status = "Resolved" /\ command[c].pc = "write"
  BY DEF Command, WriteTmp, Closes, AtWork
<1>3. MailTypeOK'
  BY <1>1, <1>2 DEF MailTypeOK
<1>4. Closes'
  <2>1. \A j \in Inodes : Closing(j) => Closing(j)'
    <3>1. after.whole => after.mail.status = "Resolved"
      BY <1>2 DEF Text, Garbled
    <3> QED BY <1>1, <3>1 DEF Closing, MailTypeOK
  <2>2. file \in Inodes /\ (tmp # NoInode => tmp \in Inodes)
    BY DEF MailTypeOK
  <2>3. \A d \in Commands : /\ AtWork(d)' => command'[d].mail.status = "Resolved"
                            /\ command'[d].pc = "open" => command'[d].fd = NoInode
                            /\ command'[d].pc \in {"write", "rename"} => command'[d].fd # NoInode
    BY <1>1, <1>2 DEF Closes, AtWork, MailTypeOK
  <2>4. (closed # <<>> => Closing(file)') /\ (tmp # NoInode => Closing(tmp)')
    BY <1>1, <2>1, <2>2 DEF Closes, Closing
  <2> QED BY <1>1, <2>3, <2>4 DEF Closes
<1>5. Listens'
  BY <1>1 DEF Listens
<1> QED BY <1>3, <1>4, <1>5

LEMMA RenameKeeps ==
  ASSUME MailInv, NEW c \in Commands, Rename(c)
  PROVE  MailInv'
<1> USE TypeFacts DEF MailInv
<1>1. /\ tmp \in Inodes /\ file' = tmp /\ tmp' = NoInode
      /\ closed' = Append(closed, c) /\ command' = [command EXCEPT ![c].pc = "done"]
      /\ UNCHANGED <<kind, inode, asker, overdue, gate, seen, crossed>>
  BY DEF Rename, Step, MailTypeOK
<1>2. [command[c] EXCEPT !.pc = "done"] \in Command
  BY DEF Command
<1>3. Len(closed) \in Nat /\ closed' \in Seq(Commands) /\ Len(closed') = Len(closed) + 1
  BY <1>1 DEF MailTypeOK
<1>4. MailTypeOK'
  BY <1>1, <1>2, <1>3 DEF MailTypeOK
<1>5. Closes'
  BY <1>1 DEF Closes, Closing, AtWork, MailTypeOK
<1>6. Listens'
  BY <1>1 DEF Listens
<1> QED BY <1>4, <1>5, <1>6

LEMMA AskingKeeps ==
  ASSUME MailInv, Asking \/ TimePasses \/ GatePasses
  PROVE  MailInv'
<1> USE DEF MailInv
<1>1. UNCHANGED <<kind, inode, file, tmp, command, closed, crossed>>
  BY DEF Asking, AskPoll, AskAgain, AskTimeout, AskDone, TimePasses, GatePasses
<1>2. Closes'
  BY <1>1 DEF Closes, Closing, AtWork
<1>3. CASE AskPoll
  <2>1. asker' = "polled" => closed = <<>>
    BY <1>3 DEF AskPoll, Closes, Closing, Readable, Current
  <2>2. Len(closed) \in Nat /\ (closed = <<>> => Len(closed) = 0)
    BY DEF MailTypeOK
  <2> QED BY <1>1, <1>2, <1>3, <2>1, <2>2 DEF AskPoll, MailTypeOK, Listens
<1>4. CASE AskAgain \/ AskTimeout \/ AskDone \/ TimePasses \/ GatePasses
  BY <1>1, <1>2, <1>4 DEF AskAgain, AskTimeout, AskDone, TimePasses, GatePasses, MailTypeOK, Listens
<1> QED BY <1>3, <1>4 DEF Asking

------------------------------------------------------------------------------
(* Commands that never overlapped: at most one is at work, on the message   *)
(* as it is, and its temporary file is its own.                             *)

Answers == {i \in DOMAIN closed : Keys[closed[i]] # Mute}

Alone ==
  ~crossed =>
    /\ \A c, d \in Commands : AtWork(c) /\ AtWork(d) => c = d
    /\ \A c \in Commands :
         /\ AtWork(c) => command[c].mail = Settled(c, Current)
         /\ command[c].pc = "write" => tmp = command[c].fd /\ tmp # NoInode /\ inode[tmp] = Blank
         /\ command[c].pc = "rename" => tmp # NoInode /\ inode[tmp] = Text(command[c].mail)

AnswersLast == Answers = {} \/ \E i \in Answers : \A j \in Answers : i >= j

ComposeInv == MailInv /\ Alone /\ AnswersLast /\ CommandsCompose

LEMMA LastAnswered ==
  ASSUME closed \in Seq(Commands), AnswersLast, NEW c \in Commands, closed' = Append(closed, c)
  PROVE  /\ LastAnswer' = IF Keys[c] = Mute THEN LastAnswer ELSE Keys[c]
         /\ closed' # <<>> /\ Last(closed') = c
         /\ AnswersLast'
<1> DEFINE n == Len(closed)
<1>1. /\ n \in Nat /\ DOMAIN closed = 1 .. n /\ DOMAIN closed' = 1 .. n + 1
      /\ Len(closed') = n + 1 /\ closed'[n + 1] = c
      /\ \A i \in 1 .. n : closed'[i] = closed[i]
  OBVIOUS
<1> HIDE DEF n
<1>2. closed' # <<>> /\ Last(closed') = c
  BY <1>1 DEF Last
<1>3. Answers \subseteq 1 .. n
  BY <1>1 DEF Answers
<1>4. CASE Keys[c] = Mute
  <2>1. Answers' = Answers
    BY <1>1, <1>4 DEF Answers
  <2>2. Answers # {} => Max(Answers) \in Answers
    BY DEF AnswersLast, Max
  <2>3. LastAnswer' = LastAnswer
    BY <1>1, <1>3, <2>1, <2>2 DEF LastAnswer, Answers
  <2> QED BY <1>2, <1>4, <2>1, <2>3 DEF AnswersLast
<1>5. CASE Keys[c] # Mute
  <2>1. Answers' = Answers \cup {n + 1}
    BY <1>1, <1>5 DEF Answers
  <2>2. n + 1 \in Answers' /\ \A j \in Answers' : n + 1 >= j
    BY <1>1, <1>3, <2>1
  <2>3. \A i \in Answers' : (\A j \in Answers' : i >= j) => i = n + 1
    BY <1>1, <1>3, <2>1
  <2>4. Max(Answers') = n + 1
    BY <2>2, <2>3 DEF Max
  <2>5. LastAnswer' = Keys[c]
    BY <1>1, <2>2, <2>4 DEF LastAnswer, Answers
  <2> QED BY <1>2, <1>5, <2>2, <2>5 DEF AnswersLast
<1> QED BY <1>4, <1>5

LEMMA ComposeInit == MailInit => ComposeInv
<1> SUFFICES ASSUME MailInit PROVE ComposeInv
  OBVIOUS
<1>1. DOMAIN closed = {} /\ Answers = {} /\ 1 \in Inodes
  <2>1. Cardinality(Commands) \in Nat
    BY CommandsAssumption, FS_CardinalityType
  <2> QED BY <2>1 DEF MailInit, Answers, Inodes
<1>2. Alone
  BY DEF MailInit, Alone, AtWork, Unborn
<1>3. CommandsCompose
  BY <1>1 DEF MailInit, CommandsCompose, Readable, Current, LastAnswer, Text, SentMail
<1> QED BY <1>1, <1>2, <1>3, MailInitHolds DEF ComposeInv, AnswersLast

(* Steps that touch neither the message nor any command's file.             *)
LEMMA QuietCompose ==
  ASSUME ComposeInv, UNCHANGED <<inode, file, tmp, closed>>,
         crossed' = crossed,
         \A c \in Commands : \/ command'[c] = command[c]
                             \/ command'[c].pc \notin {"open", "write", "rename"}
  PROVE  Alone' /\ AnswersLast' /\ CommandsCompose'
<1>1. AnswersLast' /\ CommandsCompose'
  BY DEF ComposeInv, AnswersLast, Answers, CommandsCompose, Readable, Current, LastAnswer
<1>2. Current' = Current
  BY DEF Current
<1>3. Alone'
  BY <1>2 DEF ComposeInv, Alone, AtWork
<1> QED BY <1>1, <1>3

LEMMA LoadCompose ==
  ASSUME ComposeInv, NEW c \in Commands, LoadMail(c), Readable
  PROVE  Alone' /\ AnswersLast' /\ CommandsCompose'
<1> DEFINE new == [pc |-> "open", mail |-> Settled(c, Current), fd |-> NoInode]
<1>1. /\ command' = [command EXCEPT ![c] = new]
      /\ crossed' = (crossed \/ \E d \in Commands : AtWork(d))
      /\ UNCHANGED <<inode, file, tmp, closed>>
  BY DEF LoadMail
<1>2. command'[c] = new /\ \A d \in Commands \ {c} : command'[d] = command[d]
  BY <1>1 DEF ComposeInv, MailInv, MailTypeOK
<1>3. AnswersLast' /\ CommandsCompose'
  BY <1>1 DEF ComposeInv, AnswersLast, Answers, CommandsCompose, Readable, Current, LastAnswer
<1>4. Current' = Current
  BY <1>1 DEF Current
<1>5. ASSUME ~crossed' PROVE \A d \in Commands \ {c} : command'[d].pc \notin {"open", "write", "rename"}
  BY <1>1, <1>2, <1>5 DEF AtWork
<1>6. command'[c].pc = "open" /\ command'[c].mail = Settled(c, Current')
  BY <1>2, <1>4
<1>7. Alone'
  <2> SUFFICES ASSUME ~crossed' PROVE Alone!2'
    BY DEF Alone
  <2>1. \A d \in Commands : AtWork(d)' => d = c
    BY <1>5 DEF AtWork
  <2> QED BY <1>4, <1>5, <1>6, <2>1 DEF AtWork
<1> QED BY <1>3, <1>7

LEMMA OpenCompose ==
  ASSUME ComposeInv, NEW c \in Commands, OpenTmp(c)
  PROVE  Alone' /\ AnswersLast' /\ CommandsCompose'
<1>1. PICK i \in Inodes : i = Target /\ i # file
  BY OpenKeeps DEF ComposeInv
<1>2. /\ inode' = [inode EXCEPT ![i] = Blank] /\ tmp' = i
      /\ command' = [command EXCEPT ![c].pc = "write", ![c].fd = i]
      /\ UNCHANGED <<file, closed, crossed>> /\ command[c].pc = "open"
  BY <1>1 DEF OpenTmp
<1>3. /\ inode \in [Inodes -> Content] /\ file \in Inodes /\ NoInode \notin Inodes
      /\ command \in [Commands -> Command]
  BY TypeFacts DEF ComposeInv, MailInv, MailTypeOK
<1>4. inode'[file] = inode[file] /\ inode'[i] = Blank /\ Current' = Current /\ Readable' = Readable
  BY <1>1, <1>2, <1>3 DEF Current, Readable
<1>5. AnswersLast' /\ CommandsCompose'
  BY <1>2, <1>4 DEF ComposeInv, AnswersLast, Answers, CommandsCompose, LastAnswer
<1>6. /\ command'[c].pc = "write" /\ command'[c].fd = i /\ command'[c].mail = command[c].mail
      /\ \A d \in Commands \ {c} : command'[d] = command[d]
  BY <1>2, <1>3 DEF Command
<1>7. Alone'
  BY <1>1, <1>2, <1>3, <1>4, <1>6 DEF ComposeInv, Alone, AtWork
<1> QED BY <1>5, <1>7

LEMMA WriteCompose ==
  ASSUME ComposeInv, NEW c \in Commands, WriteTmp(c)
  PROVE  Alone' /\ AnswersLast' /\ CommandsCompose'
<1> DEFINE m == command[c].mail
<1>1. /\ inode \in [Inodes -> Content] /\ file \in Inodes /\ NoInode \notin Inodes
      /\ tmp \in Inodes \cup {NoInode} /\ tmp # file /\ command \in [Commands -> Command]
  BY TypeFacts DEF ComposeInv, MailInv, MailTypeOK, Closes
<1>2. /\ command' = [command EXCEPT ![c].pc = "rename"] /\ command[c].pc = "write" /\ AtWork(c)
      /\ UNCHANGED <<file, tmp, closed, crossed>>
  BY DEF WriteTmp, Step, AtWork
<1>3. AnswersLast'
  BY <1>2 DEF ComposeInv, AnswersLast, Answers
<1> SUFFICES ASSUME ~crossed PROVE Alone' /\ CommandsCompose'
  BY <1>2, <1>3 DEF Alone, CommandsCompose
<1>4. tmp = command[c].fd /\ tmp \in Inodes /\ inode[tmp] = Blank
  BY <1>1, <1>2 DEF ComposeInv, Alone
<1>5. inode' = [inode EXCEPT ![tmp] = Text(m)]
  BY <1>4 DEF WriteTmp, Blank
<1>6. /\ inode'[tmp] = Text(m) /\ inode'[file] = inode[file]
      /\ Current' = Current /\ Readable' = Readable
  BY <1>1, <1>2, <1>4, <1>5 DEF Current, Readable
<1>7. /\ command'[c].pc = "rename" /\ command'[c].mail = m
      /\ \A d \in Commands \ {c} : command'[d] = command[d]
  BY <1>1, <1>2 DEF Command
<1>8. CommandsCompose'
  BY <1>2, <1>6 DEF ComposeInv, CommandsCompose, LastAnswer
<1>9. \A d \in Commands \ {c} : ~AtWork(d) /\ command'[d].pc \notin {"open", "write", "rename"}
  BY <1>2, <1>7 DEF ComposeInv, Alone, AtWork
<1>10. m = Settled(c, Current) /\ tmp' = tmp /\ tmp # NoInode
  BY <1>1, <1>2, <1>4 DEF ComposeInv, Alone
<1>11. Alone'
  BY <1>6, <1>7, <1>9, <1>10 DEF Alone, AtWork
<1> QED BY <1>8, <1>11

LEMMA RenameCompose ==
  ASSUME ComposeInv, NEW c \in Commands, Rename(c)
  PROVE  Alone' /\ AnswersLast' /\ CommandsCompose'
<1>1. /\ inode \in [Inodes -> Content] /\ closed \in Seq(Commands)
      /\ command \in [Commands -> Command] /\ Current \in Mail
  BY TypeFacts DEF ComposeInv, MailInv, MailTypeOK
<1>2. /\ file' = tmp /\ tmp' = NoInode /\ closed' = Append(closed, c)
      /\ command' = [command EXCEPT ![c].pc = "done"] /\ command[c].pc = "rename" /\ AtWork(c)
      /\ UNCHANGED <<inode, crossed>>
  BY DEF Rename, Step, AtWork
<1>3. /\ LastAnswer' = IF Keys[c] = Mute THEN LastAnswer ELSE Keys[c]
      /\ closed' # <<>> /\ Last(closed') = c /\ AnswersLast'
  BY <1>1, <1>2, LastAnswered DEF ComposeInv
<1> SUFFICES ASSUME ~crossed PROVE Alone' /\ CommandsCompose'
  BY <1>2, <1>3 DEF Alone, CommandsCompose
<1>4. inode[tmp] = Text(Settled(c, Current)) /\ Current.answer = LastAnswer
  <2>1. inode[tmp] = Text(command[c].mail) /\ command[c].mail = Settled(c, Current)
    BY <1>2 DEF ComposeInv, Alone
  <2>2. Current.answer = LastAnswer
    BY DEF ComposeInv, CommandsCompose
  <2> QED BY <2>1, <2>2
<1>5. Readable' /\ Current' = Settled(c, Current)
  BY <1>2, <1>4 DEF Readable, Current, Text
<1>6. CommandsCompose'
  <2>1. Settled(c, Current).answer = LastAnswer' /\ Settled(c, Current).by = c
    BY <1>3, <1>4 DEF Settled
  <2> QED BY <1>3, <1>5, <2>1 DEF CommandsCompose
<1>7. \A d \in Commands : command'[d].pc \notin {"open", "write", "rename"}
  BY <1>1, <1>2 DEF ComposeInv, Alone, AtWork
<1>8. Alone'
  BY <1>7 DEF Alone, AtWork
<1> QED BY <1>6, <1>8

LEMMA RenameFailedCompose ==
  ASSUME ComposeInv, NEW c \in Commands, RenameFailed(c) \/ CommandDies(c) \/ (LoadMail(c) /\ ~Readable)
  PROVE  Alone' /\ AnswersLast' /\ CommandsCompose'
<1>1. /\ command' = [command EXCEPT ![c].pc = "failed"]
      /\ UNCHANGED <<inode, file, tmp, closed, crossed>>
  BY DEF RenameFailed, CommandDies, LoadMail, Step
<1>2. \A d \in Commands : \/ command'[d] = command[d]
                          \/ command'[d].pc \notin {"open", "write", "rename"}
  BY <1>1 DEF ComposeInv, MailInv, MailTypeOK, Command
<1> QED BY <1>1, <1>2, QuietCompose

LEMMA MailStepKeeps == ComposeInv /\ [MailNext]_mailVars => ComposeInv'
<1> SUFFICES ASSUME ComposeInv, [MailNext]_mailVars PROVE ComposeInv'
  OBVIOUS
<1> USE DEF ComposeInv
<1>1. CASE UNCHANGED mailVars
  BY <1>1 DEF mailVars, MailInv, MailTypeOK, Closes, Closing, AtWork, Listens, Alone, AnswersLast,
              Answers, CommandsCompose, Readable, Current, LastAnswer
<1>2. ASSUME NEW c \in Commands, LoadMail(c) PROVE ComposeInv'
  BY <1>2, CommandKeeps, LoadCompose, RenameFailedCompose
<1>3. ASSUME NEW c \in Commands, OpenTmp(c) PROVE ComposeInv'
  BY <1>3, OpenKeeps, OpenCompose
<1>4. ASSUME NEW c \in Commands, WriteTmp(c) PROVE ComposeInv'
  BY <1>4, WriteKeeps, WriteCompose
<1>5. ASSUME NEW c \in Commands, Rename(c) PROVE ComposeInv'
  BY <1>5, RenameKeeps, RenameCompose
<1>6. ASSUME NEW c \in Commands, RenameFailed(c) \/ CommandDies(c) PROVE ComposeInv'
  BY <1>6, CommandKeeps, RenameFailedCompose
<1>7. CASE Asking \/ TimePasses \/ GatePasses
  <2>1. UNCHANGED <<inode, file, tmp, command, closed, crossed>>
    BY <1>7 DEF Asking, AskPoll, AskAgain, AskTimeout, AskDone, TimePasses, GatePasses
  <2> QED BY <1>7, <2>1, AskingKeeps, QuietCompose
<1> QED BY <1>1, <1>2, <1>3, <1>4, <1>5, <1>6, <1>7 DEF MailNext, Save

LEMMA ComposeInvHolds == MailSpec => []ComposeInv
BY ComposeInit, MailStepKeeps, PTL DEF MailSpec

(* The message, its files and the commands always have their types; of all  *)
(* inodes one is left for whoever opens a temporary file.                   *)
THEOREM MailTypesHold == MailSpec => []MailTypeOK
<1>1. ComposeInv => MailTypeOK
  BY DEF ComposeInv, MailInv
<1> QED BY <1>1, ComposeInvHolds, PTL

(* resolve and answer compose as long as no two overlap: the message keeps  *)
(* the last resolution and the last answer, and always reads.               *)
THEOREM CommandsDoCompose == MailSpec => []CommandsCompose
<1>1. ComposeInv => CommandsCompose
  BY DEF ComposeInv
<1> QED BY <1>1, ComposeInvHolds, PTL

(* mailbox_ask never falls back to its default when the question was closed *)
(* at its last look, overlapping saves and half-written files included.     *)
THEOREM AnswersAreHeard == MailSpec => []AnswerInTimeIsHeard
<1>1. ComposeInv => AnswerInTimeIsHeard
  BY DEF ComposeInv, MailInv, Listens, AnswerInTimeIsHeard
<1> QED BY <1>1, ComposeInvHolds, PTL

------------------------------------------------------------------------------
(* The chat.                                                                *)
HeldIn(s) == UNION {s.log[i].holds : i \in DOMAIN s.log}

(* A log begins with a question, or with a summary that took one in.        *)
Opens(s) == s.log # <<>> => \E q \in Requests : <<q, "user">> \in s.log[1].holds

(* What an edit of a session may do to it: the handlers make no other.      *)
LEMMA SessionFields ==
  ASSUME NEW s \in Session
  PROVE  /\ s.log \in Seq(Entry) /\ s.tags \subseteq Tags /\ s.title \in Requests \cup {NewChat}
         /\ Len(s.log) \in Nat /\ DOMAIN s.log = 1 .. Len(s.log)
         /\ \A i \in DOMAIN s.log : /\ s.log[i] \in Entry /\ s.log[i].holds \subseteq Name
                                    /\ s.log[i].status \in Status
         /\ HeldIn(s) \subseteq Name
<1>1. s.log \in Seq(Entry) /\ s.tags \subseteq Tags /\ s.title \in Requests \cup {NewChat}
  BY DEF Session
<1>2. Len(s.log) \in Nat /\ DOMAIN s.log = 1 .. Len(s.log)
  BY <1>1, LenProperties
<1>3. ASSUME NEW i \in DOMAIN s.log
      PROVE  s.log[i] \in Entry /\ s.log[i].holds \subseteq Name /\ s.log[i].status \in Status
  <2>1. s.log[i] \in Entry
    BY <1>1, <1>2, ElementOfSeq
  <2> QED BY <2>1 DEF Entry
<1> QED BY <1>1, <1>2, <1>3 DEF HeldIn

(* An entry more: a question, or an answer.                                 *)
LEMMA WithAdds ==
  ASSUME NEW s \in Session, NEW e \in Entry
  PROVE  /\ With(s, e) \in Session
         /\ With(s, e).log = Append(s.log, e)
         /\ With(s, e).tags = s.tags /\ With(s, e).title = s.title
         /\ Len(With(s, e).log) = Len(s.log) + 1
         /\ \A i \in 1 .. Len(s.log) : With(s, e).log[i] = s.log[i]
         /\ With(s, e).log[Len(s.log) + 1] = e
         /\ HeldIn(With(s, e)) = HeldIn(s) \cup e.holds
<1>1. s.log \in Seq(Entry) /\ s.tags \subseteq Tags /\ s.title \in Requests \cup {NewChat}
  BY DEF Session
<1>2. With(s, e) = [log |-> Append(s.log, e), tags |-> s.tags, title |-> s.title]
  <2> DEFINE more == Append(s.log, e)
  <2>1. With(s, e) = [s EXCEPT !.log = more]
    BY DEF With
  <2> HIDE DEF more
  <2>2. With(s, e) = [log |-> more, tags |-> s.tags, title |-> s.title]
    BY <2>1 DEF Session
  <2> QED BY <2>2 DEF more
<1>3. /\ Append(s.log, e) \in Seq(Entry)
      /\ Len(Append(s.log, e)) = Len(s.log) + 1
      /\ \A i \in 1 .. Len(s.log) : Append(s.log, e)[i] = s.log[i]
      /\ Append(s.log, e)[Len(s.log) + 1] = e
  BY <1>1, AppendProperties
<1>4. With(s, e) \in Session
  BY <1>1, <1>2, <1>3 DEF Session
<1>5. /\ DOMAIN s.log = 1 .. Len(s.log) /\ Len(s.log) \in Nat
      /\ DOMAIN With(s, e).log = 1 .. Len(s.log) + 1
  BY <1>1, <1>2, <1>3, <1>4, SessionFields
<1>6. HeldIn(With(s, e)) = HeldIn(s) \cup e.holds
  <2>1. ASSUME NEW x \in HeldIn(With(s, e)) PROVE x \in HeldIn(s) \cup e.holds
    BY <1>2, <1>3, <1>5, <2>1 DEF HeldIn
  <2>2. ASSUME NEW x \in HeldIn(s) PROVE x \in HeldIn(With(s, e))
    BY <1>2, <1>3, <1>5, <2>2 DEF HeldIn
  <2>3. ASSUME NEW x \in e.holds PROVE x \in HeldIn(With(s, e))
    <3>1. Len(s.log) + 1 \in DOMAIN With(s, e).log /\ With(s, e).log[Len(s.log) + 1] = e
      BY <1>2, <1>3, <1>5
    <3> QED BY <2>3, <3>1 DEF HeldIn
  <2> QED BY <2>1, <2>2, <2>3
<1>7. /\ With(s, e).log = Append(s.log, e)
      /\ With(s, e).tags = s.tags /\ With(s, e).title = s.title
  BY <1>2
<1> QED BY <1>3, <1>4, <1>6, <1>7

(* The title of a session that has none of its own yet.                     *)
LEMMA TitledKeeps ==
  ASSUME NEW s \in Session, NEW r \in Requests, NEW x \in {Titled(r, s), FirstTitle(r, s)}
  PROVE  /\ x \in Session /\ x.log = s.log /\ x.tags = s.tags /\ HeldIn(x) = HeldIn(s)
         /\ x = Titled(r, s) => x.title = IF Request[r].titled THEN r ELSE s.title
         /\ x = FirstTitle(r, s) =>
              x.title = IF Request[r].titled /\ s.log = <<>> THEN r ELSE s.title
<1>1. x = s \/ (x = [s EXCEPT !.title = r] /\ Request[r].titled)
  BY DEF Titled, FirstTitle
<1>2. x \in Session /\ x.log = s.log /\ x.tags = s.tags
  BY <1>1 DEF Session
<1>3. HeldIn(x) = HeldIn(s)
  BY <1>2 DEF HeldIn
<1>4. x = Titled(r, s) => x.title = IF Request[r].titled THEN r ELSE s.title
  BY DEF Titled, Session
<1>5. x = FirstTitle(r, s) =>
        x.title = IF Request[r].titled /\ s.log = <<>> THEN r ELSE s.title
  BY DEF FirstTitle, Titled, Session
<1> QED BY <1>2, <1>3, <1>4, <1>5

(* A decision noted on the answer it is about.                              *)
LEMMA MarkedKeeps ==
  ASSUME NEW s \in Session, NEW r \in Requests, NEW st \in Status
  PROVE  /\ Marked(r, s, st) \in Session
         /\ Marked(r, s, st).tags = s.tags /\ Marked(r, s, st).title = s.title
         /\ DOMAIN Marked(r, s, st).log = DOMAIN s.log
         /\ Len(Marked(r, s, st).log) = Len(s.log)
         /\ \A i \in DOMAIN s.log :
              /\ Marked(r, s, st).log[i].holds = s.log[i].holds
              /\ Marked(r, s, st).log[i].status =
                   IF ItsAnswer(r, s.log[i]) THEN st ELSE s.log[i].status
         /\ HeldIn(Marked(r, s, st)) = HeldIn(s)
<1> DEFINE new == [i \in DOMAIN s.log |-> IF ItsAnswer(r, s.log[i])
                                          THEN [s.log[i] EXCEPT !.status = st] ELSE s.log[i]]
<1>1. /\ s.log \in Seq(Entry) /\ s.tags \subseteq Tags /\ s.title \in Requests \cup {NewChat}
      /\ Len(s.log) \in Nat /\ DOMAIN s.log = 1 .. Len(s.log)
      /\ \A i \in DOMAIN s.log : s.log[i] \in Entry
  BY SessionFields
<1>2. Marked(r, s, st) = [log |-> new, tags |-> s.tags, title |-> s.title]
  <2>1. Marked(r, s, st) = [s EXCEPT !.log = new]
    BY DEF Marked
  <2> HIDE DEF new
  <2> QED BY <2>1 DEF Session
<1>3. \A i \in DOMAIN s.log : /\ new[i] \in Entry
                              /\ new[i].holds = s.log[i].holds
                              /\ new[i].status = IF ItsAnswer(r, s.log[i]) THEN st
                                                 ELSE s.log[i].status
  BY <1>1 DEF Entry
<1>4. new \in [1 .. Len(s.log) -> Entry]
  BY <1>1, <1>3
<1>5. new \in Seq(Entry) /\ DOMAIN new = DOMAIN s.log /\ Len(new) = Len(s.log)
  BY <1>1, <1>4, SeqDef, LenProperties
<1> HIDE DEF new
<1>6. Marked(r, s, st) \in Session
  BY <1>1, <1>2, <1>5 DEF Session
<1>7. HeldIn(Marked(r, s, st)) = HeldIn(s)
  BY <1>2, <1>3, <1>5 DEF HeldIn
<1> QED BY <1>2, <1>3, <1>5, <1>6, <1>7

(* The first entries folded into a summary, the last ones kept.             *)
LEMMA CompactedKeeps ==
  ASSUME NEW s \in Session, Len(s.log) >= MinToCompact
  PROVE  /\ Compacted(s) \in Session
         /\ Compacted(s).tags = s.tags /\ Compacted(s).title = s.title
         /\ HeldIn(Compacted(s)) = HeldIn(s)
         /\ Compacted(s).log # <<>> /\ s.log # <<>>
         /\ s.log[1].holds \subseteq Compacted(s).log[1].holds
         /\ \A j \in DOMAIN Compacted(s).log : j # 1 =>
              \E i \in DOMAIN s.log : Compacted(s).log[j] = s.log[i]
<1> DEFINE cutoff == Len(s.log) - KeepRecent
           first  == [holds |-> UNION {s.log[i].holds : i \in 1 .. cutoff}, status |-> "none"]
           rest   == SubSeq(s.log, cutoff + 1, Len(s.log))
<1>1. /\ s.log \in Seq(Entry) /\ s.tags \subseteq Tags /\ s.title \in Requests \cup {NewChat}
      /\ Len(s.log) \in Nat /\ DOMAIN s.log = 1 .. Len(s.log)
      /\ \A i \in DOMAIN s.log : s.log[i] \in Entry /\ s.log[i].holds \subseteq Name
  BY SessionFields
<1>2. cutoff \in Nat /\ cutoff >= 1 /\ cutoff <= Len(s.log)
  BY <1>1, RequestAssumption
<1>3. first \in Entry
  BY <1>1, <1>2 DEF Entry, Status
<1>4. /\ rest \in Seq(Entry) /\ Len(rest) = Len(s.log) - cutoff
      /\ \A i \in 1 .. Len(s.log) - cutoff : rest[i] = s.log[cutoff + i]
  <2>1. cutoff + 1 \in Int /\ Len(s.log) \in Int
    BY <1>1, <1>2
  <2>2. \A i \in cutoff + 1 .. Len(s.log) : s.log[i] \in Entry
    BY <1>1, <1>2
  <2>3. /\ rest \in Seq(Entry)
        /\ Len(rest) = IF cutoff + 1 <= Len(s.log) THEN Len(s.log) - (cutoff + 1) + 1 ELSE 0
        /\ \A i \in 1 .. Len(s.log) - (cutoff + 1) + 1 : rest[i] = s.log[cutoff + 1 + i - 1]
    BY <2>1, <2>2, SubSeqProperties
  <2> QED BY <1>1, <1>2, <2>3
<1>5. Compacted(s) = [log |-> <<first>> \o rest, tags |-> s.tags, title |-> s.title]
  <2>1. Compacted(s) = [s EXCEPT !.log = <<first>> \o rest]
    BY DEF Compacted
  <2> HIDE DEF cutoff, first, rest
  <2> QED BY <2>1 DEF Session
<1> HIDE DEF cutoff, first, rest
<1>6. <<first>> \in Seq(Entry) /\ Len(<<first>>) = 1 /\ <<first>>[1] = first
  BY <1>3
<1>7. /\ <<first>> \o rest \in Seq(Entry)
      /\ Len(<<first>> \o rest) = 1 + Len(rest)
      /\ \A i \in 1 .. 1 + Len(rest) : (<<first>> \o rest)[i] =
             IF i <= 1 THEN <<first>>[i] ELSE rest[i - 1]
  BY <1>4, <1>6, ConcatProperties
<1> DEFINE new == Compacted(s).log
<1>8. /\ Compacted(s) \in Session /\ Compacted(s).tags = s.tags /\ Compacted(s).title = s.title
      /\ DOMAIN new = 1 .. 1 + (Len(s.log) - cutoff)
      /\ new[1] = first
      /\ \A j \in 2 .. 1 + (Len(s.log) - cutoff) : new[j] = s.log[cutoff + j - 1]
  <2>1. /\ Compacted(s) \in Session /\ Compacted(s).tags = s.tags
        /\ Compacted(s).title = s.title /\ new = <<first>> \o rest
    BY <1>1, <1>5, <1>7 DEF Session
  <2>2. DOMAIN new = 1 .. 1 + (Len(s.log) - cutoff)
    BY <1>4, <1>7, <2>1, LenProperties
  <2>3. new[1] = first
    BY <1>1, <1>2, <1>4, <1>6, <1>7, <2>1
  <2>4. ASSUME NEW j \in 2 .. 1 + (Len(s.log) - cutoff) PROVE new[j] = s.log[cutoff + j - 1]
    <3>1. j \in 1 .. 1 + Len(rest) /\ ~(j <= 1) /\ j - 1 \in 1 .. Len(s.log) - cutoff
      BY <1>1, <1>2, <1>4, <2>4
    <3>2. new[j] = rest[j - 1]
      BY <1>7, <2>1, <3>1
    <3>3. rest[j - 1] = s.log[cutoff + (j - 1)]
      BY <1>4, <3>1
    <3> QED BY <1>1, <1>2, <3>1, <3>2, <3>3
  <2> QED BY <2>1, <2>2, <2>3, <2>4
<1> HIDE DEF new
<1>9. HeldIn(Compacted(s)) = HeldIn(s)
  <2>1. ASSUME NEW x \in HeldIn(Compacted(s)) PROVE x \in HeldIn(s)
    <3>1. PICK j \in DOMAIN new : x \in new[j].holds
      BY <2>1 DEF HeldIn, new
    <3>2. CASE j = 1
      <4>1. first.holds = UNION {s.log[i].holds : i \in 1 .. cutoff}
        BY DEF first
      <4>2. PICK i \in 1 .. cutoff : x \in s.log[i].holds
        BY <1>8, <3>1, <3>2, <4>1
      <4>3. i \in DOMAIN s.log
        BY <1>1, <1>2
      <4> QED BY <4>2, <4>3 DEF HeldIn
    <3>3. CASE j # 1
      <4>1. j \in 2 .. 1 + (Len(s.log) - cutoff) /\ cutoff + j - 1 \in DOMAIN s.log
        BY <1>1, <1>2, <1>8, <3>1, <3>3
      <4> QED BY <1>8, <3>1, <4>1 DEF HeldIn
    <3> QED BY <3>2, <3>3
  <2>2. ASSUME NEW x \in HeldIn(s) PROVE x \in HeldIn(Compacted(s))
    <3>1. PICK i \in DOMAIN s.log : x \in s.log[i].holds
      BY <2>2 DEF HeldIn
    <3>2. CASE i <= cutoff
      <4>1. 1 \in DOMAIN new /\ x \in new[1].holds
        BY <1>1, <1>2, <1>8, <3>1, <3>2 DEF first
      <4> QED BY <4>1 DEF HeldIn, new
    <3>3. CASE i > cutoff
      <4>1. i - cutoff + 1 \in 2 .. 1 + (Len(s.log) - cutoff)
        BY <1>1, <1>2, <3>1, <3>3
      <4>2. i - cutoff + 1 \in DOMAIN new /\ new[i - cutoff + 1] = s.log[cutoff + (i - cutoff + 1) - 1]
        BY <1>1, <1>2, <1>8, <4>1
      <4>3. cutoff + (i - cutoff + 1) - 1 = i
        BY <1>1, <1>2, <3>1
      <4> QED BY <3>1, <4>2, <4>3 DEF HeldIn, new
    <3> QED BY <1>1, <1>2, <3>1, <3>2, <3>3
  <2> QED BY <2>1, <2>2
<1>10. s.log # <<>> /\ Compacted(s).log # <<>> /\ s.log[1].holds \subseteq new[1].holds
  <2>1. 1 \in DOMAIN s.log /\ 1 \in DOMAIN new /\ 1 \in 1 .. cutoff
    BY <1>1, <1>2, <1>8
  <2>2. s.log[1].holds \subseteq first.holds
    BY <2>1 DEF first
  <2>3. DOMAIN s.log # {} /\ DOMAIN new # {}
    BY <2>1
  <2>4. s.log # <<>> /\ new # <<>>
    BY <2>3
  <2> QED BY <1>8, <2>2, <2>4 DEF new
<1>11. ASSUME NEW j \in DOMAIN new, j # 1 PROVE \E i \in DOMAIN s.log : new[j] = s.log[i]
  <2>1. j \in 2 .. 1 + (Len(s.log) - cutoff) /\ cutoff + j - 1 \in DOMAIN s.log
    BY <1>1, <1>2, <1>8, <1>11
  <2> QED BY <1>8, <2>1
<1> QED BY <1>8, <1>9, <1>10, <1>11 DEF new

------------------------------------------------------------------------------
(* The inductive invariant.                                                 *)

Decision(r) == Request[r].kind \in {"approve", "reject"}

(* An answer is in a session only after its turn ended.                     *)
Sound(s) == /\ Opens(s)
            /\ \A t \in Requests : <<t, "assistant">> \in HeldIn(s) => handler[t].pc = "done"

HandlersSound ==
  \A r \in Requests :
    /\ InFlight(r) => /\ r \in busy /\ Request[r].kind # "delete"
                      /\ handler[r].copy \in Session /\ Sound(handler[r].copy)
                      /\ handler[r].base # NoFile => handler[r].copy = handler[r].base
    /\ handler[r].pc = "asked" => /\ Request[r].kind = "turn" /\ handler[r].copy.log # <<>>
                                  /\ <<r, "user">> \in HeldIn(handler[r].copy)
    /\ handler[r].pc \in {"running", "reloaded"} => Request[r].kind = "approve"
    /\ handler[r].pc = "loaded" /\ Request[r].kind = "compact" =>
         Len(handler[r].copy.log) >= MinToCompact
    /\ handler[r].pc = "failed" => ~Decision(r)
    /\ Decision(r) /\ (InFlight(r) \/ handler[r].pc = "done") =>
         handler[Request[r].of].pc = "done"

FileSound ==
  IF session = NoFile THEN deleted ELSE session \in Session /\ Sound(session)

(* Nobody is left to bring a deleted session back.                          *)
NobodyLeft ==
  deleted /\ ~bystander => session = NoFile /\ \A r \in Requests : ~InFlight(r)

ChatInv == ChatTypeOK /\ HandlersSound /\ FileSound /\ NobodyLeft

LEMMA ChatInitHolds == ChatInit => ChatInv
<1> SUFFICES ASSUME ChatInit PROVE ChatInv
  OBVIOUS
<1>1. /\ session = [log |-> <<>>, tags |-> {}, title |-> NewChat] /\ session \in Session
      /\ HeldIn(session) = {} /\ session.log = <<>>
  BY DEF ChatInit, NewSession, Session, HeldIn
<1>2. \A r \in Requests : handler[r].pc = "idle"
  BY DEF ChatInit
<1>3. ChatTypeOK
  <2>1. <<>> \in Seq(Requests) /\ handler \in [Requests -> Handler]
    BY DEF ChatInit, Handler
  <2> QED BY <1>1, <2>1 DEF ChatInit, ChatTypeOK
<1>4. HandlersSound
  BY <1>2 DEF HandlersSound, InFlight
<1>5. FileSound
  BY <1>1, NoFileAssumption DEF FileSound, Sound, Opens
<1>6. NobodyLeft
  BY DEF ChatInit, NobodyLeft
<1> QED BY <1>3, <1>4, <1>5, <1>6 DEF ChatInv

(* A save of a session that is sound once the handler has moved on.         *)
LEMMA SaveKeeps ==
  ASSUME ChatInv, NEW r \in Requests, NEW s \in Session, NEW pc \in {"asked", "running", "done"},
         InFlight(r), Write(r, s, pc), told' \in {told, Append(told, r)}, Opens(s),
         \A t \in Requests : <<t, "assistant">> \in HeldIn(s) =>
           handler[t].pc = "done" \/ (t = r /\ pc = "done"),
         pc = "asked" => Request[r].kind = "turn" /\ s.log # <<>> /\ <<r, "user">> \in HeldIn(s),
         pc = "running" => Request[r].kind = "approve"
  PROVE  ChatInv'
<1>1. /\ session' = s /\ busy' = busy /\ deleted' = deleted /\ bystander' = bystander
      /\ handler' = [handler EXCEPT ![r] = [pc |-> pc, copy |-> s, base |-> s]]
      /\ clobbered' \in BOOLEAN
  BY DEF Write, ChatInv, ChatTypeOK
<1>2. handler \in [Requests -> Handler] /\ handler[r].pc # "done" /\ r \in busy
  BY DEF ChatInv, ChatTypeOK, InFlight, HandlersSound
<1>3. /\ handler'[r] = [pc |-> pc, copy |-> s, base |-> s]
      /\ \A t \in Requests \ {r} : handler'[t] = handler[t]
  BY <1>1, <1>2
<1>4. \A t \in Requests : handler[t].pc = "done" => handler'[t].pc = "done"
  BY <1>2, <1>3
<1>5. Sound(s)'
  BY <1>3, <1>4 DEF Sound
<1>6. ChatTypeOK'
  <2>1. [pc |-> pc, copy |-> s, base |-> s] \in Handler
    BY DEF Handler
  <2>2. told' \in Seq(Requests)
    BY AppendProperties DEF ChatInv, ChatTypeOK
  <2> QED BY <1>1, <1>2, <2>1, <2>2 DEF ChatTypeOK, ChatInv
<1>7. HandlersSound'
  <2> SUFFICES ASSUME NEW t \in Requests PROVE HandlersSound!(t)'
    BY DEF HandlersSound
  <2>1. CASE t = r
    <3>1. Decision(r) => handler[Request[r].of].pc = "done"
      BY DEF ChatInv, HandlersSound
    <3>2. Request[r].of \in Requests
      BY RequestAssumption
    <3> QED BY <1>1, <1>2, <1>3, <1>4, <1>5, <2>1, <3>1, <3>2
            DEF ChatInv, HandlersSound, InFlight, Decision
  <2>2. CASE t # r
    <3>1. handler'[t] = handler[t] /\ HandlersSound!(t)
      BY <1>3, <2>2 DEF ChatInv, HandlersSound
    <3>2. Sound(handler[t].copy) => Sound(handler[t].copy)'
      BY <1>4, <3>1 DEF Sound
    <3>3. Request[t].of \in Requests
      BY RequestAssumption
    <3>4. InFlight(t)' <=> InFlight(t)
      BY <3>1 DEF InFlight
    <3>5. InFlight(t)' => /\ t \in busy' /\ Request[t].kind # "delete"
                          /\ handler'[t].copy \in Session /\ Sound(handler[t].copy)'
                          /\ handler'[t].base # NoFile => handler'[t].copy = handler'[t].base
      BY <1>1, <3>1, <3>2, <3>4
    <3> QED BY <1>4, <3>1, <3>3, <3>4, <3>5 DEF Decision
  <2> QED BY <2>1, <2>2
<1>8. FileSound'
  BY <1>1, <1>5, NoFileAssumption DEF FileSound
<1>9. NobodyLeft'
  BY <1>1 DEF ChatInv, NobodyLeft
<1> QED BY <1>6, <1>7, <1>8, <1>9 DEF ChatInv

(* A handler that moves on without a save.                                  *)
Moves(r, h) == /\ handler' = [handler EXCEPT ![r] = h]
               /\ UNCHANGED <<busy, session, told, clobbered, deleted, bystander>>

LEMMA MoveKeeps ==
  ASSUME ChatInv, NEW r \in busy, NEW h \in Handler, Moves(r, h),
         handler[r].pc # "done", h.pc \in {"loaded", "reloaded", "failed", "left"},
         h.pc \in {"loaded", "reloaded"} =>
           /\ Request[r].kind # "delete"
           /\ h.copy \in Session /\ Sound(h.copy)
           /\ h.base # NoFile => h.copy = h.base
           /\ ~(deleted /\ ~bystander)
           /\ Decision(r) => handler[Request[r].of].pc = "done",
         h.pc = "reloaded" => Request[r].kind = "approve",
         h.pc = "loaded" /\ Request[r].kind = "compact" => Len(h.copy.log) >= MinToCompact,
         h.pc = "failed" => ~Decision(r)
  PROVE  ChatInv'
<1>1. handler \in [Requests -> Handler] /\ r \in Requests
  BY RequestAssumption DEF ChatInv, ChatTypeOK
<1>2. handler'[r] = h /\ \A t \in Requests \ {r} : handler'[t] = handler[t]
  BY <1>1 DEF Moves
<1>3. \A t \in Requests : handler[t].pc = "done" => handler'[t].pc = "done"
  BY <1>1, <1>2
<1>4. \A x : Sound(x) => Sound(x)'
  BY <1>3 DEF Sound
<1>5. ChatTypeOK'
  BY <1>1 DEF Moves, ChatTypeOK, ChatInv
<1>6. HandlersSound'
  <2> SUFFICES ASSUME NEW t \in Requests PROVE HandlersSound!(t)'
    BY DEF HandlersSound
  <2>1. CASE t = r
    <3>1. Request[r].of \in Requests
      BY <1>1, RequestAssumption
    <3>2. Sound(h.copy) => Sound(h.copy)'
      BY <1>4
    <3>3. busy' = busy
      BY DEF Moves
    <3> QED BY <1>1, <1>2, <1>3, <2>1, <3>1, <3>2, <3>3
            DEF InFlight, Decision
  <2>2. CASE t # r
    <3>1. handler'[t] = handler[t] /\ HandlersSound!(t) /\ busy' = busy
      BY <1>2, <2>2 DEF ChatInv, HandlersSound, Moves
    <3>2. Sound(handler[t].copy) => Sound(handler[t].copy)'
      BY <1>3, <3>1 DEF Sound
    <3>3. Request[t].of \in Requests
      BY RequestAssumption
    <3>4. InFlight(t)' <=> InFlight(t)
      BY <3>1 DEF InFlight
    <3>5. InFlight(t)' => /\ t \in busy' /\ Request[t].kind # "delete"
                          /\ handler'[t].copy \in Session /\ Sound(handler[t].copy)'
                          /\ handler'[t].base # NoFile => handler'[t].copy = handler'[t].base
      BY <3>1, <3>2, <3>4
    <3> QED BY <1>3, <3>1, <3>3, <3>4, <3>5 DEF Decision
  <2> QED BY <2>1, <2>2
<1>7. FileSound'
  <2>1. session' = session /\ deleted' = deleted
    BY DEF Moves
  <2>2. Sound(session) => Sound(session)'
    BY <1>3, <2>1 DEF Sound
  <2> QED BY <2>1, <2>2 DEF FileSound, ChatInv
<1>8. NobodyLeft'
  <2>1. UNCHANGED <<busy, session, deleted, bystander>>
    BY DEF Moves
  <2>2. ASSUME NEW t \in Requests, deleted, ~bystander PROVE ~InFlight(t)'
    BY <1>1, <1>2, <2>2 DEF ChatInv, NobodyLeft, InFlight
  <2> QED BY <2>1, <2>2 DEF ChatInv, NobodyLeft
<1> QED BY <1>5, <1>6, <1>7, <1>8 DEF ChatInv

LEMMA LoadKeeps ==
  ASSUME ChatInv, NEW r \in Requests, LoadSession(r)
  PROVE  \E h \in Handler : /\ Moves(r, h) /\ h.pc \in {"loaded", "left"}
                            /\ r \in busy /\ handler[r].pc = "idle"
                            /\ ChatInv'
<1>1. r \in busy /\ handler[r].pc = "idle" /\ Request[r].kind # "delete"
  BY DEF LoadSession
<1>2. handler[r] \in Handler
  BY DEF ChatInv, ChatTypeOK
<1>3. CASE Applies(r, session)
  <2> DEFINE h == [pc |-> "loaded", copy |-> session, base |-> session]
  <2>1. session # NoFile /\ session \in Session /\ Sound(session)
    BY <1>3 DEF Applies, ChatInv, FileSound
  <2>2. h \in Handler /\ Moves(r, h)
    BY <1>3, <2>1 DEF LoadSession, OrNone, Moves, Handler
  <2>3. ~(deleted /\ ~bystander)
    BY <2>1 DEF ChatInv, NobodyLeft
  <2>4. Decision(r) => handler[Request[r].of].pc = "done"
    <3> SUFFICES ASSUME Decision(r) PROVE handler[Request[r].of].pc = "done"
      OBVIOUS
    <3>1. PICK i \in DOMAIN session.log : ItsAnswer(r, session.log[i])
      BY <1>3 DEF Applies, Decision
    <3>2. <<Request[r].of, "assistant">> \in HeldIn(session)
      BY <3>1 DEF ItsAnswer, HeldIn
    <3>3. Request[r].of \in Requests
      BY RequestAssumption
    <3> QED BY <2>1, <3>2, <3>3 DEF Sound
  <2>5. Request[r].kind = "compact" => Len(session.log) >= MinToCompact
    BY <1>3 DEF Applies
  <2>6. ChatInv'
    BY <1>1, <2>1, <2>2, <2>3, <2>4, <2>5, MoveKeeps
  <2> QED BY <1>1, <2>2, <2>6
<1>4. CASE ~Applies(r, session)
  <2> DEFINE h == [handler[r] EXCEPT !.pc = "left"]
  <2>1. h \in Handler /\ h.pc = "left"
    BY <1>2 DEF Handler
  <2>2. Moves(r, h)
    BY <1>4 DEF LoadSession, OrNone, Moves, Leave, ChatInv, ChatTypeOK
  <2>3. ChatInv'
    BY <1>1, <2>1, <2>2, MoveKeeps
  <2> QED BY <1>1, <2>1, <2>2, <2>3
<1> QED BY <1>3, <1>4

LEMMA FailKeeps ==
  ASSUME ChatInv, NEW r \in Requests, ProviderFails(r)
  PROVE  \E h \in Handler : /\ Moves(r, h) /\ h.pc = "failed" /\ r \in busy /\ ~Decision(r)
                            /\ Request[r].kind = "turn" => handler[r].pc = "asked"
                            /\ ChatInv'
<1> DEFINE h == [handler[r] EXCEPT !.pc = "failed"]
<1>1. handler[r] \in Handler
  BY DEF ChatInv, ChatTypeOK
<1>2. h \in Handler /\ h.pc = "failed"
  BY <1>1 DEF Handler
<1>3. /\ r \in busy /\ ~Decision(r) /\ handler[r].pc # "done"
      /\ Request[r].kind = "turn" => handler[r].pc = "asked"
  BY DEF ProviderFails, Stage, Decision
<1>4. Moves(r, h)
  BY DEF ProviderFails, Leave, Moves
<1>5. ChatInv'
  BY <1>2, <1>3, <1>4, MoveKeeps
<1> QED BY <1>2, <1>3, <1>4, <1>5

LEMMA NothingKeeps ==
  ASSUME ChatInv, NEW r \in Requests, NothingToTag(r)
  PROVE  \E h \in Handler : /\ Moves(r, h) /\ h.pc = "left" /\ r \in busy /\ ~Decision(r)
                            /\ ChatInv'
<1> DEFINE h == [handler[r] EXCEPT !.pc = "left"]
<1>1. handler[r] \in Handler
  BY DEF ChatInv, ChatTypeOK
<1>2. h \in Handler /\ h.pc = "left"
  BY <1>1 DEF Handler
<1>3. r \in busy /\ ~Decision(r) /\ handler[r].pc # "done"
  BY DEF NothingToTag, Stage, Decision
<1>4. Moves(r, h)
  BY DEF NothingToTag, Leave, Moves
<1>5. ChatInv'
  BY <1>2, <1>3, <1>4, MoveKeeps
<1> QED BY <1>2, <1>3, <1>4, <1>5

LEMMA ExecutedKeeps ==
  ASSUME ChatInv, NEW r \in Requests, Executed(r)
  PROVE  \E h \in Handler : /\ Moves(r, h) /\ h.pc = "reloaded" /\ r \in busy
                            /\ Request[r].kind = "approve" /\ ChatInv'
<1> DEFINE h == [pc |-> "reloaded", copy |-> Reloaded(r), base |-> session]
<1>1. r \in busy /\ Request[r].kind = "approve" /\ handler[r].pc = "running" /\ InFlight(r)
  BY DEF Executed, Stage, InFlight
<1>2. /\ handler[r].copy \in Session /\ Sound(handler[r].copy)
      /\ Decision(r) => handler[Request[r].of].pc = "done"
  BY <1>1 DEF ChatInv, HandlersSound
<1>3. session # NoFile => session \in Session /\ Sound(session)
  BY DEF ChatInv, FileSound
<1>4. /\ Reloaded(r) \in Session /\ Sound(Reloaded(r))
      /\ session # NoFile => Reloaded(r) = session
  BY <1>2, <1>3 DEF Reloaded
<1>5. h \in Handler /\ Moves(r, h)
  BY <1>4 DEF Executed, Handler, Moves, ChatInv, ChatTypeOK
<1>6. ~(deleted /\ ~bystander)
  BY <1>1 DEF ChatInv, NobodyLeft
<1>7. ChatInv'
  BY <1>1, <1>2, <1>4, <1>5, <1>6, MoveKeeps
<1> QED BY <1>1, <1>5, <1>7

(* How a save changes the tags and the title of the copy, and the history.  *)
Noted(r, s) ==
  LET old == handler[r].copy
  IN  /\ s.tags = IF Request[r].kind = "put" THEN Request[r].tags
                  ELSE IF Request[r].kind = "auto_tag" THEN old.tags \cup Request[r].tags
                  ELSE old.tags
      /\ s.title = IF Request[r].titled /\ (\/ Request[r].kind = "patch"
                                            \/ Request[r].kind = "turn" /\ old.log = <<>>)
                   THEN r ELSE old.title
      /\ (s.log = <<>>) <=> (old.log = <<>> /\ Request[r].kind # "turn")

Unnoted(r, s) ==
  LET old == handler[r].copy
  IN  s.tags = old.tags /\ s.title = old.title /\ ((s.log = <<>>) <=> (old.log = <<>>))

Recorded(r, s) == \/ told' = Append(told, r) /\ Noted(r, s)
                  \/ told' = told /\ Unnoted(r, s)

(* What each save writes: an edit of the copy its handler holds, which is   *)
(* sound once that handler has moved on.                                    *)
Edits(r, s, pc) ==
  LET old == handler[r].copy
  IN  /\ r \in busy /\ InFlight(r) /\ old \in Session /\ s \in Session /\ Write(r, s, pc)
      /\ HeldIn(old) \subseteq HeldIn(s) /\ Recorded(r, s)
      /\ Request[r].kind = "turn" => <<r, "user">> \in HeldIn(s)
      /\ Request[r].kind = "turn" /\ pc = "done" => <<r, "assistant">> \in HeldIn(s)
      /\ \A j \in DOMAIN s.log, t \in busy : s.log[j].holds = {<<t, "assistant">>} =>
           \/ \E i \in DOMAIN old.log : old.log[i] = s.log[j] /\ ~Decides(r, t)
           \/ s.log[j].status \in {"Done", "Failed", "Rejected"}
           \/ pc = "running" /\ Decides(r, t)
           \/ handler[t].pc # "done"

Saved(r) == \E s \in Session, pc \in {"asked", "running", "done"} : Edits(r, s, pc)

(* What holds of the copy of a handler at work.                             *)
LEMMA HandlerAtWork ==
  ASSUME ChatInv, NEW r \in Requests, NEW ask, NEW pc, Stage(r, ask, pc),
         pc \in {"loaded", "asked", "running", "reloaded"}
  PROVE  /\ r \in busy /\ InFlight(r) /\ Request[r].kind = ask /\ handler[r].pc = pc
         /\ handler[r].copy \in Session /\ Opens(handler[r].copy)
         /\ \A t \in Requests : <<t, "assistant">> \in HeldIn(handler[r].copy) =>
              handler[t].pc = "done"
         /\ Decision(r) => handler[Request[r].of].pc = "done"
  BY DEF Stage, InFlight, ChatInv, HandlersSound, Sound

LEMMA MessageType ==
  ASSUME NEW r \in Requests
  PROVE  /\ Message(r, "user", "none") \in Entry
         /\ Message(r, "user", "none").holds = {<<r, "user">>}
         /\ Message(r, "assistant", "Pending") \in Entry
         /\ Message(r, "assistant", "Pending").holds = {<<r, "assistant">>}
<1>1. <<r, "user">> \in Name /\ <<r, "assistant">> \in Name
  BY DEF Name
<1> QED BY <1>1 DEF Message, Entry, Status

LEMMA AskKeeps ==
  ASSUME ChatInv, NEW r \in Requests, Ask(r)
  PROVE  ChatInv' /\ Saved(r)
<1> DEFINE old == handler[r].copy
           mid == FirstTitle(r, old)
           e   == Message(r, "user", "none")
           s   == With(mid, e)
<1>1. Stage(r, "turn", "loaded") /\ Write(r, s, "asked") /\ told' = Append(told, r)
  BY DEF Ask, Asked, TellAs
<1>2. /\ r \in busy /\ InFlight(r) /\ Request[r].kind = "turn" /\ handler[r].pc = "loaded"
      /\ old \in Session /\ Opens(old)
      /\ \A t \in Requests : <<t, "assistant">> \in HeldIn(old) => handler[t].pc = "done"
  BY <1>1, HandlerAtWork
<1>3. e \in Entry /\ e.holds = {<<r, "user">>}
  BY MessageType
<1>4. Len(old.log) \in Nat /\ DOMAIN old.log = 1 .. Len(old.log) /\ old.log \in Seq(Entry)
  BY <1>2, SessionFields
<1>0. /\ mid \in Session /\ mid.log = old.log /\ mid.tags = old.tags /\ HeldIn(mid) = HeldIn(old)
      /\ mid.title = IF Request[r].titled /\ old.log = <<>> THEN r ELSE old.title
  BY <1>2, TitledKeeps
<1> HIDE DEF e, old, mid
<1>5. /\ s \in Session /\ s.tags = old.tags /\ s.title = mid.title
      /\ Len(s.log) = Len(old.log) + 1
      /\ \A i \in 1 .. Len(old.log) : s.log[i] = old.log[i]
      /\ s.log[Len(old.log) + 1] = e
      /\ HeldIn(s) = HeldIn(old) \cup e.holds
  <2>1. /\ s \in Session /\ s.tags = mid.tags /\ s.title = mid.title
        /\ Len(s.log) = Len(mid.log) + 1
        /\ \A i \in 1 .. Len(mid.log) : s.log[i] = mid.log[i]
        /\ s.log[Len(mid.log) + 1] = e
        /\ HeldIn(s) = HeldIn(mid) \cup e.holds
    BY <1>0, <1>3, WithAdds
  <2> HIDE DEF s
  <2> QED BY <1>0, <2>1
<1> HIDE DEF s
<1>6. DOMAIN s.log = 1 .. Len(old.log) + 1 /\ s.log # <<>>
  BY <1>4, <1>5, SessionFields, EmptySeq
<1>7. Opens(s)
  <2>1. CASE old.log = <<>>
    <3>1. Len(old.log) = 0
      BY <2>1
    <3>2. s.log[1] = e
      BY <1>5, <3>1
    <3> QED BY <1>3, <3>2 DEF Opens
  <2>2. CASE old.log # <<>>
    <3>1. 1 \in 1 .. Len(old.log)
      BY <1>4, <2>2, EmptySeq
    <3>2. s.log[1] = old.log[1]
      BY <1>5, <3>1
    <3> QED BY <1>2, <2>2, <3>2 DEF Opens
  <2> QED BY <2>1, <2>2
<1>8. \A t \in Requests : <<t, "assistant">> \in HeldIn(s) => handler[t].pc = "done"
  BY <1>2, <1>3, <1>5
<1>9. ChatInv'
  BY <1>1, <1>2, <1>3, <1>5, <1>6, <1>7, <1>8, SaveKeeps
<1>10. Edits(r, s, "asked")
  <2>1. ASSUME NEW j \in DOMAIN s.log, NEW t \in busy, s.log[j].holds = {<<t, "assistant">>}
        PROVE  \E i \in DOMAIN old.log : old.log[i] = s.log[j] /\ ~Decides(r, t)
    <3>1. j # Len(old.log) + 1
      <4>1. <<t, "assistant">> # <<r, "user">>
        OBVIOUS
      <4>2. {<<t, "assistant">>} # {<<r, "user">>}
        BY <4>1
      <4> QED BY <1>3, <1>5, <2>1, <4>2
    <3>2. j \in DOMAIN old.log
      BY <1>4, <1>6, <2>1, <3>1
    <3> QED BY <1>2, <1>4, <1>5, <3>2 DEF Decides
  <2>2. Recorded(r, s)
    BY <1>0, <1>1, <1>2, <1>5, <1>6 DEF Recorded, Noted, old
  <2> QED BY <1>1, <1>2, <1>3, <1>5, <2>1, <2>2 DEF Edits, old
<1> QED BY <1>5, <1>9, <1>10 DEF Saved

LEMMA AnswerKeeps ==
  ASSUME ChatInv, NEW r \in Requests, Answer(r)
  PROVE  ChatInv' /\ Saved(r)
<1> DEFINE old == handler[r].copy
           e   == Message(r, "assistant", "Pending")
           s   == With(old, e)
<1>1. Stage(r, "turn", "asked") /\ Write(r, s, "done") /\ told' = told
  BY DEF Answer, Answered, SaveAs
<1>2. /\ r \in busy /\ InFlight(r) /\ Request[r].kind = "turn" /\ handler[r].pc = "asked"
      /\ old \in Session /\ Opens(old)
      /\ \A t \in Requests : <<t, "assistant">> \in HeldIn(old) => handler[t].pc = "done"
  BY <1>1, HandlerAtWork
<1>3. old.log # <<>> /\ <<r, "user">> \in HeldIn(old)
  BY <1>2 DEF ChatInv, HandlersSound
<1>4. e \in Entry /\ e.holds = {<<r, "assistant">>}
  BY MessageType
<1>5. Len(old.log) \in Nat /\ DOMAIN old.log = 1 .. Len(old.log) /\ old.log \in Seq(Entry)
  BY <1>2, SessionFields
<1> HIDE DEF e
<1>6. /\ s \in Session /\ s.tags = old.tags /\ s.title = old.title
      /\ Len(s.log) = Len(old.log) + 1
      /\ \A i \in 1 .. Len(old.log) : s.log[i] = old.log[i]
      /\ s.log[Len(old.log) + 1] = e
      /\ HeldIn(s) = HeldIn(old) \cup e.holds
  BY <1>2, <1>4, WithAdds
<1> HIDE DEF s, old
<1>7. DOMAIN s.log = 1 .. Len(old.log) + 1
  BY <1>5, <1>6, SessionFields
<1>8. Opens(s)
  <2>1. 1 \in 1 .. Len(old.log)
    BY <1>3, <1>5, EmptySeq
  <2> QED BY <1>2, <1>3, <1>6, <2>1 DEF Opens
<1>9. \A t \in Requests : <<t, "assistant">> \in HeldIn(s) => handler[t].pc = "done" \/ t = r
  BY <1>2, <1>4, <1>6
<1>10. ChatInv'
  BY <1>1, <1>2, <1>6, <1>8, <1>9, SaveKeeps
<1>11. Edits(r, s, "done")
  <2>1. ASSUME NEW j \in DOMAIN s.log, NEW t \in busy, s.log[j].holds = {<<t, "assistant">>}
        PROVE  \/ \E i \in DOMAIN old.log : old.log[i] = s.log[j] /\ ~Decides(r, t)
               \/ handler[t].pc # "done"
    <3>1. CASE j = Len(old.log) + 1
      <4>1. {<<t, "assistant">>} = {<<r, "assistant">>}
        BY <1>4, <1>6, <2>1, <3>1
      <4>2. <<t, "assistant">> = <<r, "assistant">>
        BY <4>1
      <4>3. t = r
        BY <4>2
      <4> QED BY <1>2, <4>3
    <3>2. CASE j # Len(old.log) + 1
      <4>1. j \in DOMAIN old.log
        BY <1>5, <1>7, <2>1, <3>2
      <4> QED BY <1>2, <1>5, <1>6, <4>1 DEF Decides
    <3> QED BY <3>1, <3>2
  <2>2. <<r, "user">> \in HeldIn(s)
    BY <1>3, <1>6
  <2>3. s.log # <<>>
    BY <1>5, <1>6, EmptySeq, SessionFields
  <2>4. Recorded(r, s)
    BY <1>1, <1>3, <1>6, <2>3 DEF Recorded, Unnoted, old
  <2> QED BY <1>1, <1>2, <1>4, <1>6, <2>1, <2>2, <2>4 DEF Edits, old
<1> QED BY <1>6, <1>10, <1>11 DEF Saved

(* The decisions: their saves change the status of the answer only.         *)
LEMMA MarkKeeps ==
  ASSUME ChatInv, NEW r \in Requests, NEW st \in Status, NEW ask, NEW from, NEW pc,
         Decision(r), Stage(r, ask, from), from \in {"loaded", "reloaded"},
         SaveAs(r, Marked(r, handler[r].copy, st), pc),
         \/ pc = "running" /\ ask = "approve"
         \/ pc = "done" /\ st \in {"Done", "Failed", "Rejected"}
  PROVE  ChatInv' /\ Saved(r)
<1> DEFINE old == handler[r].copy
           s   == Marked(r, old, st)
<1>1. /\ r \in busy /\ InFlight(r) /\ Request[r].kind = ask
      /\ old \in Session /\ Opens(old)
      /\ \A t \in Requests : <<t, "assistant">> \in HeldIn(old) => handler[t].pc = "done"
  BY HandlerAtWork
<1>2. Len(old.log) \in Nat /\ DOMAIN old.log = 1 .. Len(old.log) /\ old.log \in Seq(Entry)
  BY <1>1, SessionFields
<1>3. /\ s \in Session /\ s.tags = old.tags /\ s.title = old.title
      /\ DOMAIN s.log = DOMAIN old.log /\ Len(s.log) = Len(old.log)
      /\ \A i \in DOMAIN old.log :
           /\ s.log[i].holds = old.log[i].holds
           /\ s.log[i].status = IF ItsAnswer(r, old.log[i]) THEN st ELSE old.log[i].status
      /\ HeldIn(s) = HeldIn(old)
  BY <1>1, MarkedKeeps
<1>4. \A i \in DOMAIN old.log : ~ItsAnswer(r, old.log[i]) => s.log[i] = old.log[i]
  <2>1. \A i \in DOMAIN old.log : s.log[i] \in Entry /\ old.log[i] \in Entry
    BY <1>1, <1>3, SessionFields
  <2> HIDE DEF s, old
  <2>2. \A a, b \in Entry : a.holds = b.holds /\ a.status = b.status => a = b
    BY DEF Entry
  <2> QED BY <1>3, <2>1, <2>2
<1>5. /\ Write(r, s, pc) /\ told' = told
      /\ pc \in {"asked", "running", "done"} /\ pc # "asked"
  BY DEF SaveAs
<1> HIDE DEF s
<1>6. Opens(s)
  <2> SUFFICES ASSUME s.log # <<>> PROVE \E q \in Requests : <<q, "user">> \in s.log[1].holds
    BY DEF Opens
  <2>1. 1 \in DOMAIN old.log /\ old.log # <<>>
    <3>1. Len(s.log) # 0
      BY <1>3, EmptySeq, SessionFields
    <3> QED BY <1>2, <1>3, <3>1
  <2> QED BY <1>1, <1>3, <2>1 DEF Opens
<1>7. ChatInv'
  BY <1>1, <1>3, <1>5, <1>6, SaveKeeps
<1>8. Edits(r, s, pc)
  <2>1. ASSUME NEW j \in DOMAIN s.log, NEW t \in busy, s.log[j].holds = {<<t, "assistant">>}
        PROVE  \/ \E i \in DOMAIN old.log : old.log[i] = s.log[j] /\ ~Decides(r, t)
               \/ s.log[j].status \in {"Done", "Failed", "Rejected"}
               \/ pc = "running" /\ Decides(r, t)
    <3>1. CASE Request[r].of = t
      <4>1. ItsAnswer(r, old.log[j]) /\ s.log[j].status = st
        BY <1>3, <2>1, <3>1 DEF ItsAnswer
      <4> QED BY <1>1, <3>1, <4>1 DEF Decides, Decision
    <3>2. CASE Request[r].of # t
      <4>1. {<<Request[r].of, "assistant">>} # {<<t, "assistant">>}
        <5>1. <<Request[r].of, "assistant">> # <<t, "assistant">>
          BY <3>2
        <5> QED BY <5>1
      <4>2. ~ItsAnswer(r, old.log[j])
        BY <1>3, <2>1, <4>1 DEF ItsAnswer
      <4> QED BY <1>3, <1>4, <2>1, <3>2, <4>2 DEF Decides
    <3> QED BY <3>1, <3>2
  <2>2. Recorded(r, s)
    <3>1. (s.log = <<>>) <=> (old.log = <<>>)
      BY <1>1, <1>3, EmptySeq, SessionFields
    <3> QED BY <1>3, <1>5, <3>1 DEF Recorded, Unnoted
  <2> QED BY <1>1, <1>3, <1>5, <2>1, <2>2 DEF Edits, Decision
<1> QED BY <1>3, <1>5, <1>7, <1>8 DEF Saved

LEMMA DecisionsKeep ==
  ASSUME ChatInv, NEW r \in Requests, Reject(r) \/ Approve(r) \/ Report(r)
  PROVE  ChatInv' /\ Saved(r)
<1>1. CASE Reject(r)
  BY <1>1, MarkKeeps DEF Reject, Stage, Decision, Status
<1>2. CASE Approve(r)
  BY <1>2, MarkKeeps DEF Approve, Stage, Decision, Status
<1>3. CASE Report(r)
  BY <1>3, MarkKeeps DEF Report, Stage, Decision, Status
<1> QED BY <1>1, <1>2, <1>3

LEMMA TagKeeps ==
  ASSUME ChatInv, NEW r \in Requests, PutTags(r) \/ Patch(r) \/ AutoTag(r)
  PROVE  ChatInv' /\ Saved(r)
<1> DEFINE old == handler[r].copy
<1>1. PICK k \in {"put", "patch", "auto_tag"} :
        /\ Stage(r, k, "loaded") /\ told' = Append(told, r)
        /\ Write(r, IF k = "put" THEN Replaced(r, old) ELSE IF k = "patch" THEN Titled(r, old)
                    ELSE Merged(r, old), "done")
  BY DEF PutTags, Patch, AutoTag, TellAs
<1>2. /\ r \in busy /\ InFlight(r) /\ Request[r].kind = k
      /\ old \in Session /\ Opens(old)
      /\ \A t \in Requests : <<t, "assistant">> \in HeldIn(old) => handler[t].pc = "done"
  BY <1>1, HandlerAtWork
<1>3. PICK s \in Session : Write(r, s, "done") /\ s.log = old.log /\ Noted(r, s)
  <2>1. Request[r].tags \subseteq Tags
    BY RequestAssumption
  <2>2. CASE k = "put"
    <3>1. /\ Replaced(r, old) \in Session /\ Replaced(r, old).log = old.log
          /\ Replaced(r, old).tags = Request[r].tags /\ Replaced(r, old).title = old.title
      BY <1>2, <2>1 DEF Session, Replaced
    <3> QED BY <1>1, <1>2, <2>2, <3>1 DEF Noted
  <2>3. CASE k = "patch"
    BY <1>1, <1>2, <2>3, TitledKeeps DEF Noted
  <2>4. CASE k = "auto_tag"
    <3>1. /\ Merged(r, old) \in Session /\ Merged(r, old).log = old.log
          /\ Merged(r, old).tags = old.tags \cup Request[r].tags /\ Merged(r, old).title = old.title
      BY <1>2, <2>1 DEF Session, Merged
    <3> QED BY <1>1, <1>2, <2>4, <3>1 DEF Noted
  <2> QED BY <2>2, <2>3, <2>4
<1>4. HeldIn(s) = HeldIn(old) /\ Opens(s)
  BY <1>2, <1>3 DEF HeldIn, Opens
<1>5. ChatInv'
  BY <1>1, <1>2, <1>3, <1>4, SaveKeeps
<1>6. Edits(r, s, "done")
  BY <1>1, <1>2, <1>3, <1>4 DEF Edits, Decides, Recorded
<1> QED BY <1>3, <1>5, <1>6 DEF Saved

LEMMA CompactKeeps ==
  ASSUME ChatInv, NEW r \in Requests, Compact(r)
  PROVE  ChatInv' /\ Saved(r)
<1> DEFINE old == handler[r].copy
           s   == Compacted(old)
<1>1. Stage(r, "compact", "loaded") /\ Write(r, s, "done") /\ told' = told
  BY DEF Compact, SaveAs
<1>2. /\ r \in busy /\ InFlight(r) /\ Request[r].kind = "compact" /\ handler[r].pc = "loaded"
      /\ old \in Session /\ Opens(old)
      /\ \A t \in Requests : <<t, "assistant">> \in HeldIn(old) => handler[t].pc = "done"
  BY <1>1, HandlerAtWork
<1>3. Len(old.log) >= MinToCompact
  BY <1>2 DEF ChatInv, HandlersSound
<1>4. /\ s \in Session /\ s.tags = old.tags /\ s.title = old.title /\ HeldIn(s) = HeldIn(old)
      /\ s.log # <<>> /\ old.log # <<>> /\ old.log[1].holds \subseteq s.log[1].holds
      /\ \A j \in DOMAIN s.log : j # 1 => \E i \in DOMAIN old.log : s.log[j] = old.log[i]
  BY <1>2, <1>3, CompactedKeeps
<1> HIDE DEF s
<1>5. PICK q \in Requests : <<q, "user">> \in s.log[1].holds
  BY <1>2, <1>4 DEF Opens
<1>6. Opens(s)
  BY <1>5 DEF Opens
<1>7. ChatInv'
  BY <1>1, <1>2, <1>4, <1>6, SaveKeeps
<1>8. Edits(r, s, "done")
  <2>1. ASSUME NEW j \in DOMAIN s.log, NEW t \in busy, s.log[j].holds = {<<t, "assistant">>}
        PROVE  \E i \in DOMAIN old.log : old.log[i] = s.log[j] /\ ~Decides(r, t)
    <3>1. <<q, "user">> # <<t, "assistant">>
      OBVIOUS
    <3>2. j # 1
      BY <1>5, <2>1, <3>1
    <3> QED BY <1>2, <1>4, <2>1, <3>2 DEF Decides
  <2>2. Recorded(r, s)
    BY <1>1, <1>4 DEF Recorded, Unnoted
  <2> QED BY <1>1, <1>2, <1>4, <2>1, <2>2 DEF Edits
<1> QED BY <1>4, <1>7, <1>8 DEF Saved

LEMMA DeleteKeeps ==
  ASSUME ChatInv, NEW r \in Requests, Delete(r)
  PROVE  ChatInv' /\ deleted'
<1> DEFINE h == [handler[r] EXCEPT !.pc = "done"]
<1>1. /\ r \in busy /\ Request[r].kind = "delete" /\ handler[r].pc = "idle"
      /\ session' = NoFile /\ deleted' = TRUE /\ busy' = busy /\ clobbered' = clobbered
      /\ told' = told
      /\ bystander' = (bystander \/ \E q \in busy : InFlight(q))
      /\ handler' = [handler EXCEPT ![r] = h]
  BY DEF Delete, Stage
<1>2. handler \in [Requests -> Handler] /\ h \in Handler /\ h.pc = "done"
  BY DEF ChatInv, ChatTypeOK, Handler
<1> HIDE DEF h
<1>3. handler'[r] = h /\ \A t \in Requests \ {r} : handler'[t] = handler[t]
  BY <1>1, <1>2
<1>4. \A t \in Requests : handler[t].pc = "done" => handler'[t].pc = "done"
  BY <1>2, <1>3
<1>5. ChatTypeOK'
  BY <1>1, <1>2 DEF ChatTypeOK, ChatInv
<1>6. HandlersSound'
  <2> SUFFICES ASSUME NEW t \in Requests PROVE HandlersSound!(t)'
    BY DEF HandlersSound
  <2>1. CASE t = r
    BY <1>1, <1>2, <1>3, <2>1 DEF InFlight, Decision
  <2>2. CASE t # r
    <3>1. handler'[t] = handler[t] /\ HandlersSound!(t) /\ busy' = busy
      BY <1>1, <1>3, <2>2 DEF ChatInv, HandlersSound
    <3>2. Sound(handler[t].copy) => Sound(handler[t].copy)'
      BY <1>4, <3>1 DEF Sound
    <3>3. Request[t].of \in Requests
      BY RequestAssumption
    <3>4. InFlight(t)' <=> InFlight(t)
      BY <3>1 DEF InFlight
    <3>5. InFlight(t)' => /\ t \in busy' /\ Request[t].kind # "delete"
                          /\ handler'[t].copy \in Session /\ Sound(handler[t].copy)'
                          /\ handler'[t].base # NoFile => handler'[t].copy = handler'[t].base
      BY <3>1, <3>2, <3>4
    <3> QED BY <1>4, <3>1, <3>3, <3>4, <3>5 DEF Decision
  <2> QED BY <2>1, <2>2
<1>7. FileSound'
  BY <1>1 DEF FileSound
<1>8. NobodyLeft'
  <2>1. ASSUME ~bystander', NEW t \in Requests PROVE ~InFlight(t)'
    BY <1>1, <1>2, <1>3, <2>1 DEF ChatInv, HandlersSound, InFlight
  <2> QED BY <1>1, <2>1 DEF NobodyLeft
<1> QED BY <1>1, <1>5, <1>6, <1>7, <1>8 DEF ChatInv

------------------------------------------------------------------------------
(* Nothing is lost: neither by a handler that moves on nor by a save of     *)
(* what the file held.                                                      *)


(* Only a question opens a log.                                             *)
LogTold ==
  ~clobbered /\ ~deleted =>
    ((session.log = <<>>) <=> \A i \in DOMAIN told : Kind(i) # "turn")

LEMMA ToldGrows ==
  ASSUME ChatTypeOK, NEW r \in Requests, told' = Append(told, r)
  PROVE  /\ Len(told) \in Nat /\ DOMAIN told = 1 .. Len(told)
         /\ DOMAIN told' = 1 .. Len(told) + 1 /\ told'[Len(told) + 1] = r
         /\ \A i \in 1 .. Len(told) : told'[i] = told[i]
<1>1. told \in Seq(Requests)
  BY DEF ChatTypeOK
<1>2. /\ told' \in Seq(Requests) /\ Len(told') = Len(told) + 1 /\ told'[Len(told) + 1] = r
      /\ \A i \in 1 .. Len(told) : told'[i] = told[i]
  BY <1>1, AppendProperties
<1> QED BY <1>1, <1>2, LenProperties

LEMMA TagsStay ==
  ASSUME ChatTypeOK, NEW r \in Requests, handler[r].copy = session, Recorded(r, session'), TagsTold
  PROVE  TagsTold'
<1>1. CASE told' = told /\ Unnoted(r, session')
  BY <1>1 DEF TagsTold, Unnoted, Kind
<1>2. CASE told' = Append(told, r) /\ Noted(r, session')
  <2> DEFINE n == Len(told)
  <2>1. /\ n \in Nat /\ DOMAIN told = 1 .. n /\ DOMAIN told' = 1 .. n + 1 /\ told'[n + 1] = r
        /\ \A i \in 1 .. n : told'[i] = told[i]
    BY <1>2, ToldGrows
  <2> HIDE DEF n
  <2> SUFFICES ASSUME NEW x \in Tags
               PROVE  x \in session'.tags <=>
                        \E i \in 1 .. n + 1 :
                          /\ Request[told'[i]].kind \in {"put", "auto_tag"}
                          /\ x \in Request[told'[i]].tags
                          /\ \A j \in 1 .. n + 1 : j > i => Request[told'[j]].kind # "put"
    BY <2>1 DEF TagsTold, Kind
  <2>2. x \in session.tags <=>
          \E i \in 1 .. n : /\ Request[told[i]].kind \in {"put", "auto_tag"}
                            /\ x \in Request[told[i]].tags
                            /\ \A j \in 1 .. n : j > i => Request[told[j]].kind # "put"
    BY <2>1 DEF TagsTold, Kind
  <2>3. CASE Request[r].kind = "put"
    <3>1. session'.tags = Request[r].tags
      BY <1>2, <2>3 DEF Noted
    <3>2. \A i \in 1 .. n : n + 1 > i
      BY <2>1
    <3>3. \A j \in 1 .. n + 1 : ~(j > n + 1)
      BY <2>1
    <3>4. n + 1 \in 1 .. n + 1 /\ \A i \in 1 .. n + 1 : i = n + 1 \/ i \in 1 .. n
      BY <2>1
    <3> QED BY <2>1, <2>3, <3>1, <3>2, <3>3, <3>4
  <2>4. CASE Request[r].kind # "put"
    <3>1. session'.tags = session.tags \cup (IF Request[r].kind = "auto_tag" THEN Request[r].tags
                                              ELSE {})
      BY <1>2, <2>4 DEF Noted
    <3>2. \A j \in 1 .. n + 1 : ~(j > n + 1)
      BY <2>1
    <3>3. n + 1 \in 1 .. n + 1 /\ \A i \in 1 .. n + 1 : i = n + 1 \/ i \in 1 .. n
      BY <2>1
    <3>4. \A i \in 1 .. n : i \in 1 .. n + 1
      BY <2>1
    <3> QED BY <2>1, <2>2, <2>4, <3>1, <3>2, <3>3, <3>4
  <2> QED BY <2>3, <2>4
<1> QED BY <1>1, <1>2 DEF Recorded

LEMMA TitleStays ==
  ASSUME ChatTypeOK, NEW r \in Requests, handler[r].copy = session, Recorded(r, session'), TitleTold,
         (session.log = <<>>) <=> \A i \in DOMAIN told : Kind(i) # "turn"
  PROVE  /\ TitleTold'
         /\ (session'.log = <<>>) <=> (\A i \in DOMAIN told : Kind(i) # "turn")'
<1>1. CASE told' = told /\ Unnoted(r, session')
  BY <1>1 DEF TitleTold, Unnoted, GivesTitle, Kind
<1>2. CASE told' = Append(told, r) /\ Noted(r, session')
  <2>0. PICK n \in Nat : n = Len(told)
    BY <1>2, ToldGrows
  <2>1. /\ DOMAIN told = 1 .. n /\ DOMAIN told' = 1 .. n + 1 /\ told'[n + 1] = r
        /\ \A i \in 1 .. n : told'[i] = told[i]
    BY <1>2, <2>0, ToldGrows
  <2>2. /\ n + 1 \in 1 .. n + 1
        /\ \A i \in 1 .. n + 1 : i = n + 1 \/ (i \in 1 .. n /\ n + 1 > i /\ ~(n + 1 < i))
        /\ \A i \in 1 .. n : i \in 1 .. n + 1 /\ i < n + 1
        /\ ~(n + 1 < n + 1)
    BY <2>1
  <2>3. \A i \in 1 .. n : GivesTitle(i)' <=> GivesTitle(i)
    BY <2>1, <2>2 DEF GivesTitle, Kind
  <2>4. (\A i \in DOMAIN told : Kind(i) # "turn")' <=>
           (\A i \in DOMAIN told : Kind(i) # "turn") /\ Request[r].kind # "turn"
    BY <2>1, <2>2 DEF Kind
  <2>5. GivesTitle(n + 1)' <=>
          /\ Request[r].titled
          /\ \/ Request[r].kind = "patch"
             \/ Request[r].kind = "turn" /\ session.log = <<>>
    BY <2>1, <2>2 DEF GivesTitle, Kind
  <2>6. session'.title = IF GivesTitle(n + 1)' THEN r ELSE session.title
    BY <1>2, <2>5 DEF Noted
  <2>7. TitleTold'
    <3>1. CASE GivesTitle(n + 1)'
      BY <2>1, <2>2, <2>6, <3>1 DEF TitleTold
    <3>2. CASE ~GivesTitle(n + 1)'
      BY <2>1, <2>2, <2>3, <2>6, <3>2 DEF TitleTold
    <3> QED BY <3>1, <3>2
  <2>8. (session'.log = <<>>) <=> (session.log = <<>> /\ Request[r].kind # "turn")
    BY <1>2 DEF Noted
  <2> QED BY <2>4, <2>7, <2>8
<1> QED BY <1>1, <1>2 DEF Recorded

LEMMA MoveLosesNothing ==
  ASSUME ChatInv, NothingIsLost, LogTold, NEW r \in busy, NEW h \in Handler, Moves(r, h),
         h.pc \in {"loaded", "reloaded", "failed", "left"},
         h.pc = "failed" /\ Request[r].kind = "turn" => handler[r].pc = "asked",
         Decision(r) => h.pc # "failed" /\ (h.pc = "left" => ~InFlight(r))
  PROVE  NothingIsLost' /\ LogTold'
<1>1. handler \in [Requests -> Handler] /\ r \in Requests /\ busy \subseteq Requests
  BY RequestAssumption DEF ChatInv, ChatTypeOK
<1>2. handler'[r] = h /\ \A t \in Requests \ {r} : handler'[t] = handler[t]
  BY <1>1 DEF Moves
<1>3. UNCHANGED <<busy, session, told, clobbered, deleted>>
  BY DEF Moves
<1>0. LogTold'
  BY <1>3 DEF LogTold, Kind
<1> SUFFICES ASSUME ~clobbered, ~deleted PROVE NothingIsLost!2'
  BY <1>0, <1>3 DEF NothingIsLost
<1>4. Held' = Held
  BY <1>3 DEF Held
<1>5. ASSUME NEW t \in busy
      PROVE  /\ Request[t].kind = "turn" /\ handler'[t].pc \in {"asked", "failed", "done"} =>
                  <<t, "user">> \in Held
             /\ Did(t, "turn")' => <<t, "assistant">> \in Held
  BY <1>1, <1>2, <1>3, <1>5 DEF NothingIsLost, Did
<1>6. ASSUME NEW i \in DOMAIN session.log, NEW t \in busy,
             session.log[i].holds = {<<t, "assistant">>},
             NEW q \in busy, Decides(q, t), handler'[q].pc = "done",
             ~\E p \in busy : Decides(p, t) /\ InFlight(p)'
      PROVE  session.log[i].status \in {"Done", "Failed", "Rejected"}
  <2>1. q # r /\ handler[q].pc = "done"
    BY <1>1, <1>2, <1>6
  <2>2. ASSUME NEW p \in busy, Decides(p, t), InFlight(p) PROVE FALSE
    <3>1. CASE p = r
      <4>1. h.pc \in {"loaded", "reloaded"}
        BY <2>2, <3>1 DEF Decides, Decision
      <4>2. InFlight(p)'
        BY <1>2, <1>1, <3>1, <4>1 DEF InFlight
      <4> QED BY <1>6, <2>2, <4>2
    <3>2. CASE p # r
      BY <1>1, <1>2, <1>6, <2>2, <3>2 DEF InFlight
    <3> QED BY <3>1, <3>2
  <2> QED BY <1>6, <2>1, <2>2 DEF NothingIsLost
<1>7. \A q, t : Decides(q, t)' <=> Decides(q, t)
  BY <1>3 DEF Decides
<1>8. TagsTold' /\ TitleTold'
  BY <1>3 DEF NothingIsLost, TagsTold, TitleTold, GivesTitle, Kind
<1> QED BY <1>3, <1>4, <1>5, <1>6, <1>7, <1>8

LEMMA SaveLosesNothing ==
  ASSUME ChatInv, ChatInv', NothingIsLost, LogTold, NEW r \in Requests, Saved(r)
  PROVE  NothingIsLost' /\ LogTold'
<1>1. PICK s \in Session, pc \in {"asked", "running", "done"} : Edits(r, s, pc)
  BY DEF Saved
<1>2. /\ r \in busy /\ InFlight(r) /\ handler[r].copy \in Session
      /\ session' = s /\ busy' = busy /\ deleted' = deleted
      /\ clobbered' = (clobbered \/ session # handler[r].base)
      /\ handler' = [handler EXCEPT ![r] = [pc |-> pc, copy |-> s, base |-> s]]
  BY <1>1 DEF Edits, Write
<1>3. handler \in [Requests -> Handler] /\ busy \subseteq Requests
  BY RequestAssumption DEF ChatInv, ChatTypeOK
<1>4. handler'[r].pc = pc /\ \A t \in Requests \ {r} : handler'[t] = handler[t]
  BY <1>2, <1>3
<1> SUFFICES ASSUME ~clobbered', ~deleted'
             PROVE  /\ NothingIsLost!2'
                    /\ (session'.log = <<>>) <=> (\A i \in DOMAIN told : Kind(i) # "turn")'
  BY DEF NothingIsLost, LogTold
<1>5. ~clobbered /\ ~deleted /\ handler[r].copy = session
  BY <1>2 DEF ChatInv, FileSound, HandlersSound
<1>6. Held = HeldIn(session) /\ Held' = HeldIn(s)
  BY <1>2 DEF Held, HeldIn
<1>7. HeldIn(session) \subseteq HeldIn(s) /\ Recorded(r, session')
  BY <1>1, <1>2, <1>5 DEF Edits
<1>8. ASSUME NEW t \in busy
      PROVE  /\ Request[t].kind = "turn" /\ handler'[t].pc \in {"asked", "failed", "done"} =>
                  <<t, "user">> \in HeldIn(s)
             /\ Did(t, "turn")' => <<t, "assistant">> \in HeldIn(s)
  <2>1. CASE t = r
    <3>1. Request[t].kind = "turn" => <<t, "user">> \in HeldIn(s)
      BY <1>1, <2>1 DEF Edits
    <3>2. Request[t].kind = "turn" /\ pc = "done" => <<t, "assistant">> \in HeldIn(s)
      BY <1>1, <2>1 DEF Edits
    <3> QED BY <1>4, <2>1, <3>1, <3>2 DEF Did
  <2>2. CASE t # r
    <3>1. handler'[t] = handler[t]
      BY <1>3, <1>4, <2>2
    <3> QED BY <1>2, <1>5, <1>6, <1>7, <3>1 DEF NothingIsLost, Did
  <2> QED BY <2>1, <2>2
<1>9. ASSUME NEW j \in DOMAIN s.log, NEW t \in busy, s.log[j].holds = {<<t, "assistant">>},
             NEW q \in busy, Decides(q, t), handler'[q].pc = "done",
             ~\E p \in busy : Decides(p, t) /\ InFlight(p)'
      PROVE  s.log[j].status \in {"Done", "Failed", "Rejected"}
  <2>1. \/ \E i \in DOMAIN session.log : session.log[i] = s.log[j] /\ ~Decides(r, t)
        \/ s.log[j].status \in {"Done", "Failed", "Rejected"}
        \/ pc = "running" /\ Decides(r, t)
        \/ handler[t].pc # "done"
    BY <1>1, <1>5, <1>9 DEF Edits
  <2>2. ASSUME NEW i \in DOMAIN session.log, session.log[i] = s.log[j], ~Decides(r, t)
        PROVE  s.log[j].status \in {"Done", "Failed", "Rejected"}
    <3>1. \A p \in busy : Decides(p, t) => handler'[p] = handler[p]
      BY <1>3, <1>4, <2>2
    <3>2. handler[q].pc = "done" /\ ~\E p \in busy : Decides(p, t) /\ InFlight(p)
      BY <1>9, <3>1 DEF InFlight
    <3> QED BY <1>5, <1>9, <2>2, <3>2 DEF NothingIsLost
  <2>3. ~(pc = "running" /\ Decides(r, t))
    BY <1>2, <1>4, <1>9 DEF InFlight
  <2>4. handler[t].pc = "done"
    <3>1. Request[q].of = t /\ Decision(q) /\ q \in Requests /\ (InFlight(q) \/ handler[q].pc = "done")
      BY <1>2, <1>3, <1>4, <1>9 DEF Decides, Decision
    <3> QED BY <3>1 DEF ChatInv, HandlersSound
  <2> QED BY <2>1, <2>2, <2>3, <2>4
<1>10. \A q, t : Decides(q, t)' <=> Decides(q, t)
  BY <1>2 DEF Decides
<1>11. /\ TagsTold' /\ TitleTold'
       /\ (session'.log = <<>>) <=> (\A i \in DOMAIN told : Kind(i) # "turn")'
  BY <1>5, <1>7, TagsStay, TitleStays DEF NothingIsLost, LogTold, ChatInv
<1> QED BY <1>2, <1>6, <1>8, <1>9, <1>10, <1>11

LEMMA ChatStepKeeps ==
  ASSUME ChatInv, NothingIsLost, LogTold, [ChatNext]_chatVars
  PROVE  ChatInv' /\ NothingIsLost' /\ LogTold'
<1>1. CASE UNCHANGED chatVars
  <2>1. ChatInv'
    BY <1>1 DEF chatVars, ChatInv, ChatTypeOK, HandlersSound, Sound, FileSound, NobodyLeft, InFlight
  <2>2. TagsTold' <=> TagsTold
    BY <1>1 DEF chatVars, TagsTold, Kind
  <2>3. TitleTold' <=> TitleTold
    BY <1>1 DEF chatVars, TitleTold, GivesTitle, Kind
  <2>4. LogTold'
    BY <1>1 DEF chatVars, LogTold, Kind
  <2>5. NothingIsLost'
    BY <1>1, <2>2, <2>3 DEF chatVars, NothingIsLost, Held, Did, Decides, InFlight
  <2> QED BY <2>1, <2>4, <2>5
<1>2. ASSUME NEW r \in Requests, LoadSession(r) PROVE ChatInv' /\ NothingIsLost' /\ LogTold'
  BY <1>2, LoadKeeps, MoveLosesNothing DEF InFlight
<1>3. ASSUME NEW r \in Requests, ProviderFails(r) PROVE ChatInv' /\ NothingIsLost' /\ LogTold'
  BY <1>3, FailKeeps, MoveLosesNothing
<1>4. ASSUME NEW r \in Requests, Executed(r) PROVE ChatInv' /\ NothingIsLost' /\ LogTold'
  BY <1>4, ExecutedKeeps, MoveLosesNothing
<1>5. ASSUME NEW r \in Requests,
             Ask(r) \/ Answer(r) \/ Reject(r) \/ Approve(r) \/ Report(r) \/ Compact(r)
             \/ PutTags(r) \/ Patch(r) \/ AutoTag(r)
      PROVE  ChatInv' /\ NothingIsLost' /\ LogTold'
  BY <1>5, AskKeeps, AnswerKeeps, DecisionsKeep, TagKeeps, CompactKeeps, SaveLosesNothing
<1>6. ASSUME NEW r \in Requests, Delete(r) PROVE ChatInv' /\ NothingIsLost' /\ LogTold'
  BY <1>6, DeleteKeeps DEF NothingIsLost, LogTold
<1>7. ASSUME NEW r \in Requests, NothingToTag(r) PROVE ChatInv' /\ NothingIsLost' /\ LogTold'
  BY <1>7, NothingKeeps, MoveLosesNothing
<1> QED BY <1>1, <1>2, <1>3, <1>4, <1>5, <1>6, <1>7 DEF ChatNext

(* The invariant holds of every behaviour of a session.                     *)
LEMMA ChatInvHolds == ChatSpec => [](ChatInv /\ NothingIsLost /\ LogTold)
<1>1. ASSUME ChatInit PROVE NothingIsLost /\ LogTold
  <2>1. session.log = <<>> /\ DOMAIN session.log = {} /\ \A r \in Requests : handler[r].pc = "idle"
    BY <1>1 DEF ChatInit, NewSession
  <2>2. busy \subseteq Requests
    BY <1>1, RequestAssumption DEF ChatInit
  <2>3. DOMAIN told = {} /\ session.tags = {} /\ session.title = NewChat
    BY <1>1 DEF ChatInit, NewSession
  <2>4. TagsTold /\ TitleTold /\ LogTold
    BY <2>1, <2>3 DEF TagsTold, TitleTold, LogTold
  <2> QED BY <2>1, <2>2, <2>4 DEF NothingIsLost, Did
<1>2. ChatInit => ChatInv /\ NothingIsLost /\ LogTold
  BY <1>1, ChatInitHolds
<1> QED BY <1>2, ChatStepKeeps, PTL DEF ChatSpec

(* A session and what its handlers hold of it always have their types.      *)
THEOREM ChatTypesHold == ChatSpec => []ChatTypeOK
<1>1. ChatInv => ChatTypeOK
  BY DEF ChatInv
<1> QED BY <1>1, ChatInvHolds, PTL

(* As long as no handler saves over another one's save, every message and   *)
(* decision stays in the session, and its tags and its title are what the   *)
(* requests made of them one after the other: handlers of chat.rs lose      *)
(* nothing by themselves, and the only overlap that costs is of two saves.  *)
THEOREM ChatLosesNothing == ChatSpec => []NothingIsLost
BY ChatInvHolds, PTL

(* No late request brings back a session that was deleted while none was at *)
(* work on it.                                                              *)
THEOREM DeletedForGood == ChatSpec => []DeletedStaysDeleted
<1>1. ChatInv => DeletedStaysDeleted
  BY DEF ChatInv, NobodyLeft, DeletedStaysDeleted
<1> QED BY <1>1, ChatInvHolds, PTL
==============================================================================
