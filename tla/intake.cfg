\* Polled channels, a mailbox message under concurrent commands, a chat session, plan files.
SPECIFICATION Spec
CONSTANTS
  web = web
  app = app
  m1 = m1
  m2 = m2
  m3 = m3
  m4 = m4
  m5 = m5
  m6 = m6
  friend = friend
  stranger = stranger
  human = human
  peer = peer
  tool = tool
  yes = yes
  no = no
  Mute = Mute
  Channels <- TwoChannels
  Messages <- SixMessages
  Senders <- TwoSenders
  Sent <- Posts
  Poison <- EmptyBody
  Polls <- SomePolls
  Commands <- ThreeCommands
  Keys <- TheirKeys
  Default <- tool
  t1 = t1
  t2 = t2
  yes1 = yes1
  yes2 = yes2
  not1 = not1
  put1 = put1
  put2 = put2
  auto = auto
  name = name
  red = red
  blue = blue
  fold = fold
  del = del
  Requests <- SomeRequests
  Request <- Asks
  Tags <- TwoTags
  KeepRecent = 2
  MinToCompact = 3
  Busy <- Together
  NoFile = NoFile
  a = a
  b = b
  c = c
  d = d
  lib = lib
  ui = ui
  gen = gen
  docs = docs
  here = here
  api = api
  sdk = sdk
  out = out
  other = other
  NoProject = NoProject
  Names <- AllNames
  Projects <- AllProjects
  Parts <- AllParts
  Outputs <- AllOutputs
  Files <- AllFiles
INVARIANTS
  TypeOK
  NoneIsOverlooked
  DecidedAgainForAReason
  CommandsCompose
  AnswerInTimeIsHeard
  NothingIsLost
  DeletedStaysDeleted
  LoadsWhatIsWritten
  NoSilentRace
PROPERTIES
  ActsOnlyForTheTrusted
  EventuallyDecided
  GateOpens
  AskReturns
CHECK_DEADLOCK FALSE
