--------------------------- MODULE Recovery_proofs ---------------------------
(***************************************************************************)
(* Theorems about Recovery, for any plan, any number of runs and any       *)
(* number of cancel commands.                                              *)
(***************************************************************************)
EXTENDS Recovery, FiniteSetTheorems, SequenceTheorems, TLAPS

------------------------------------------------------------------------------
(* States.                                                                  *)

LEMMA StateParts ==
  ASSUME NEW state \in RunState
  PROVE  /\ state.tasks \in [Tasks -> Statuses]
         /\ \A t \in Tasks : state.tasks[t] \in Statuses
         /\ FinishedIn(state) \subseteq Tasks
BY DEF RunState, FinishedIn

FirstState == [NoState EXCEPT !.status = "Running"]
LEMMA NoStateType ==
  /\ NoState \in RunState /\ NoState.status = "none"
  /\ \A t \in Tasks : NoState.tasks[t] = "Pending"
  /\ FirstState \in RunState /\ FirstState.status = "Running"
  /\ \A t \in Tasks : FirstState.tasks[t] = "Pending"
BY DEF NoState, FirstState, RunState, Statuses

LEMMA CancelledFacts ==
  ASSUME NEW state \in RunState
  PROVE  /\ Cancelled(state) \in RunState /\ Cancelled(state).status = "Cancelled"
         /\ FinishedIn(Cancelled(state)) = FinishedIn(state)
<1>1. \A t \in Tasks : state.tasks[t] \in Statuses
  BY StateParts
<1>2. Cancelled(state).tasks \in [Tasks -> Statuses]
  BY <1>1 DEF Cancelled, Statuses
<1>3. Cancelled(state) \in RunState /\ Cancelled(state).status = "Cancelled"
  BY <1>2 DEF Cancelled, RunState
<1>4. \A t \in Tasks : Cancelled(state).tasks[t] = "Done" <=> state.tasks[t] = "Done"
  BY DEF Cancelled, Unfinished
<1> QED BY <1>3, <1>4 DEF FinishedIn

LEMMA FailedFacts ==
  ASSUME NEW state \in RunState, NEW t \in Tasks, state.tasks[t] = "Running"
  PROVE  /\ Failed(state, t) \in RunState /\ Failed(state, t).status = "Failed"
         /\ FinishedIn(state) \subseteq FinishedIn(Failed(state, t))
<1>1. \A u \in Tasks : state.tasks[u] \in Statuses
  BY StateParts
<1>2. Failed(state, t).tasks \in [Tasks -> Statuses]
  BY <1>1 DEF Failed, Statuses
<1>3. Failed(state, t) \in RunState /\ Failed(state, t).status = "Failed"
  BY <1>2 DEF Failed, RunState
<1>4. ASSUME NEW u \in Blocked(state.tasks, t), u \in Tasks
      PROVE  state.tasks[u] # "Done"
  <2> DEFINE step == [d \in Tasks |-> {v \in Users[d] : state.tasks[v] = "Pending"}]
             S == {t} \cup {v \in Tasks : state.tasks[v] = "Pending"}
  <2>1. S \in SUBSET Tasks /\ {t} \subseteq S /\ \A v \in S : step[v] \subseteq S
    BY DEF Users
  <2>2. u \in S /\ u # t
    BY <1>4, <2>1 DEF Blocked, Least
  <2> QED BY <2>2
<1>5. \A u \in Tasks : state.tasks[u] = "Done" => Failed(state, t).tasks[u] = "Done"
  BY <1>4 DEF Failed, Unfinished
<1> QED BY <1>3, <1>5 DEF FinishedIn

WithTask(state, t, x) == [state EXCEPT !.tasks[t] = x]
LEMMA SetTaskFacts ==
  ASSUME NEW state \in RunState, NEW t \in Tasks, NEW x \in Statuses
  PROVE  /\ WithTask(state, t, x) \in RunState /\ WithTask(state, t, x).status = state.status
         /\ WithTask(state, t, x).tasks[t] = x
         /\ \A u \in Tasks \ {t} : WithTask(state, t, x).tasks[u] = state.tasks[u]
BY DEF RunState, WithTask

LEMMA DoneFacts ==
  ASSUME NEW state \in RunState
  PROVE  /\ [state EXCEPT !.status = "Done"] \in RunState
         /\ [state EXCEPT !.status = "Done"].tasks = state.tasks
BY DEF RunState

(* The state after set-up.                                                  *)
SetUpState(r) == [mem[r] EXCEPT !.tasks = [t \in Tasks |-> IF t \in skip[r] THEN "Skipped"
                                                           ELSE @[t]]]
LEMMA SetUpFacts ==
  ASSUME NEW r, mem[r] \in RunState
  PROVE  /\ SetUpState(r) \in RunState /\ SetUpState(r).status = mem[r].status
         /\ \A t \in Tasks : SetUpState(r).tasks[t] = IF t \in skip[r] THEN "Skipped"
                                                      ELSE mem[r].tasks[t]
<1> DEFINE f == [t \in Tasks |-> IF t \in skip[r] THEN "Skipped" ELSE mem[r].tasks[t]]
<1>1. f \in [Tasks -> Statuses] /\ \A t \in Tasks : f[t] = IF t \in skip[r] THEN "Skipped"
                                                           ELSE mem[r].tasks[t]
  BY DEF RunState, Statuses
<1>2. SetUpState(r) = [mem[r] EXCEPT !.tasks = f]
  BY DEF SetUpState
<1> HIDE DEF f
<1> QED BY <1>1, <1>2 DEF RunState

------------------------------------------------------------------------------
(* Types.  A cancel command at work has a run for its target, and so does a *)
(* loaded draft; nothing is the target before a command is given.           *)

Busy == {"load", "probe", "write", "ledger", "append"}
Targets == /\ \A c \in Cancellers : /\ cmd[c].pc \in Busy => cmd[c].target \in RunIds
                                    /\ cmd[c].pc = "idle" => cmd[c] = Idle
           /\ draft.pc = "loaded" => draft.target \in RunIds

TypeInv == TypeOK /\ Targets

LEMMA RunIdFacts ==
  /\ NoRun \notin RunIds /\ Current \notin RunIds /\ NoRun # Current
  /\ \A r \in RunIds : r \in Nat /\ r # NoRun /\ r # Current
BY RunsAssumption DEF RunIds, NoRun, Current

LEMMA IdleType == Idle \in Command /\ Idle.pc = "idle" /\ Idle.target = NoRun /\ Idle.marker = NoRun
BY NoStateType DEF Idle, Command

LEMMA RunTypes ==
  ASSUME TypeInv, NEW r \in RunIds
  PROVE  /\ disk[r] \in RunState /\ mem[r] \in RunState
         /\ owner[r] \in {"none", "live", "dead"}
         /\ phase[r] \in {"none", "loaded", "setup", "work", "ended", "braked"}
         /\ skip[r] \subseteq Tasks /\ seed[r] \subseteq Tasks
         /\ released[r] \subseteq Tasks /\ started[r] \subseteq Tasks
         /\ doctor[r] \in Seq(Nat) /\ undone[r] \subseteq Tasks
         /\ origin[r] \in Origin /\ origin[r].way \in Ways /\ origin[r].source \in RunIds \cup {NoRun}
BY DEF Origin, TypeInv, TypeOK

LEMMA WriteFacts ==
  ASSUME TypeInv, NEW r \in RunIds, NEW state \in RunState, Write(r, state)
  PROVE  /\ disk' \in [RunIds -> RunState] /\ mem' \in [RunIds -> RunState]
         /\ disk'[r] = state /\ mem'[r] = state
         /\ \A q \in RunIds \ {r} : disk'[q] = disk[q] /\ mem'[q] = mem[q]
BY DEF Write, TypeInv, TypeOK

LEMMA TypeInit == Init => TypeInv
<1> SUFFICES ASSUME Init PROVE TypeInv
  OBVIOUS
<1>1. TypeOK
  <2>1. disk \in [RunIds -> RunState] /\ mem \in [RunIds -> RunState]
    BY NoStateType DEF Init
  <2>2. cmd \in [Cancellers -> Command]
    BY IdleType DEF Init
  <2>3. doctor \in [RunIds -> Seq(Nat)]
    <3>1. <<>> \in Seq(Nat)
      OBVIOUS
    <3> QED BY <3>1 DEF Init
  <2>4. draft \in [pc : {"idle", "loaded", "done"}, target : RunIds \cup {NoRun}, snap : RunState]
    BY NoStateType DEF Init, NoDraft
  <2>5. origin \in [RunIds -> Origin]
    BY DEF Init, Fresh, Origin, Ways
  <2> QED BY <2>1, <2>2, <2>3, <2>4, <2>5 DEF Init, TypeOK
<1>2. Targets
  BY DEF Init, Targets, Idle, Busy, NoDraft
<1> QED BY <1>1, <1>2 DEF TypeInv

(* A step of an owner, or of its process.                                   *)
LEMMA TypeOwner ==
  ASSUME TypeInv, disk' \in [RunIds -> RunState], mem' \in [RunIds -> RunState],
         owner' \in [RunIds -> {"none", "live", "dead"}], reused' \subseteq RunIds,
         phase' \in [RunIds -> {"none", "loaded", "setup", "work", "ended", "braked"}],
         released' \in [RunIds -> SUBSET Tasks], started' \in [RunIds -> SUBSET Tasks],
         markers' \subseteq markers,
         UNCHANGED <<origin, skip, seed, current, cmd, doctor, fixVars>>
  PROVE  TypeInv'
BY DEF TypeInv, TypeOK, Targets, fixVars

LEMMA NewRunFacts ==
  ASSUME TypeInv, NEW r \in RunIds, NEW how \in Origin, NewRun(r, how)
  PROVE  /\ disk' \in [RunIds -> RunState] /\ mem' \in [RunIds -> RunState]
         /\ disk'[r] = FirstState /\ mem'[r] = FirstState
         /\ \A q \in RunIds \ {r} : disk'[q] = disk[q] /\ mem'[q] = mem[q]
<1>1. Write(r, FirstState)
  BY DEF NewRun, FirstState
<1> QED BY <1>1, NoStateType, WriteFacts

LEMMA TypeNewRun ==
  ASSUME TypeInv, NEW r \in RunIds, NEW how \in Origin, NewRun(r, how)
  PROVE  TypeInv'
<1>1. disk' \in [RunIds -> RunState] /\ mem' \in [RunIds -> RunState]
  BY NewRunFacts
<1>2. /\ owner' \in [RunIds -> {"none", "live", "dead"}]
      /\ phase' \in [RunIds -> {"none", "loaded", "setup", "work", "ended", "braked"}]
      /\ origin' \in [RunIds -> Origin]
      /\ current' \in RunIds \cup {NoRun}
  BY DEF NewRun, TypeInv, TypeOK
<1>3. UNCHANGED <<limit, reused, skip, seed, released, started, markers, cmd, doctor, draft, undone,
                  crowded, drafted, seen>>
  BY DEF NewRun, cmdVars, fixVars
<1> QED BY <1>1, <1>2, <1>3 DEF TypeInv, TypeOK, Targets

(* A run is started as a fresh one, or as the recovery its command loaded.  *)
Begins(r, how) ==
  /\ NewRun(r, how)
  /\ \/ phase[r] = "none" /\ how = Fresh
     \/ /\ phase[r] = "loaded" /\ how.source = origin[r].source
        /\ \/ how.way = origin[r].way
           \/ origin[r].way = "resume" /\ how.way = "forced"

(* The command of a run loads what it recovers, or gives up.  What a resume *)
(* skips it is seeded with.                                                 *)
Blank(r) == origin[r] = Fresh /\ skip[r] = {} /\ seed[r] = {}
Prepares(r) ==
  /\ phase[r] \in {"none", "loaded"}
  /\ phase' \in [RunIds -> {"none", "loaded", "setup", "work", "ended", "braked"}]
  /\ origin' \in [RunIds -> Origin]
  /\ skip' \in [RunIds -> SUBSET Tasks] /\ seed' \in [RunIds -> SUBSET Tasks]
  /\ seen' \in [RunIds -> SUBSET Tasks]
  /\ \A q \in RunIds \ {r} :
       /\ phase'[q] = phase[q] /\ origin'[q] = origin[q] /\ skip'[q] = skip[q] /\ seed'[q] = seed[q]
       /\ seen'[q] = seen[q]
  /\ \/ phase'[r] = "none" /\ Blank(r)'
     \/ phase'[r] = "loaded" /\ origin'[r].way = "from"
     \/ /\ phase'[r] = "loaded" /\ origin'[r].way = "resume" /\ origin'[r].source \in RunIds
        /\ disk[origin'[r].source].status # "none"
        /\ skip'[r] = FinishedIn(disk[origin'[r].source]) /\ seed'[r] = skip'[r]
        /\ seen'[r] = released[origin'[r].source]
  /\ UNCHANGED <<disk, mem, owner, reused, released, started, current, markers, cmd, doctor, limit,
                 draft, undone, crowded, drafted>>

LEMMA TypePrepares ==
  ASSUME TypeInv, NEW r \in RunIds, Prepares(r)
  PROVE  TypeInv'
BY DEF Prepares, TypeInv, TypeOK, Targets

LEMMA Loads ==
  ASSUME TypeInv, NEW r \in RunIds, NEW how \in Origin, NEW s \in SUBSET Tasks, LoadSource(r, how, s)
  PROVE  /\ phase[r] \in {"none", "loaded"} /\ phase'[r] = "loaded" /\ origin'[r] = how
         /\ phase' \in [RunIds -> {"none", "loaded", "setup", "work", "ended", "braked"}]
         /\ origin' \in [RunIds -> Origin]
         /\ skip' \in [RunIds -> SUBSET Tasks] /\ seed' \in [RunIds -> SUBSET Tasks]
         /\ seen' \in [RunIds -> SUBSET Tasks]
         /\ \A q \in RunIds \ {r} :
              /\ phase'[q] = phase[q] /\ origin'[q] = origin[q] /\ skip'[q] = skip[q] /\ seed'[q] = seed[q]
              /\ seen'[q] = seen[q]
         /\ how.source # NoRun => /\ skip'[r] = s /\ seed'[r] = s \cap FinishedIn(disk[how.source])
                                  /\ seen'[r] = released[how.source]
         /\ UNCHANGED <<disk, mem, owner, reused, released, started, current, markers, cmd, doctor,
                        limit, draft, undone, crowded, drafted>>
<1> DEFINE q == how.source
           x == IF q = NoRun THEN {} ELSE s \cap FinishedIn(disk[q])
           y == IF q = NoRun THEN {} ELSE released[q]
<1>1. /\ phase[r] = "none" /\ phase' = [phase EXCEPT ![r] = "loaded"]
      /\ origin' = [origin EXCEPT ![r] = how] /\ skip' = [skip EXCEPT ![r] = s]
      /\ seed' = [seed EXCEPT ![r] = x] /\ seen' = [seen EXCEPT ![r] = y]
      /\ UNCHANGED <<disk, mem, owner, reused, released, started, current, markers, cmd, doctor,
                     limit, draft, undone, crowded, drafted>>
  BY DEF LoadSource, Unused, cmdVars
<1>2. x \in SUBSET Tasks /\ y \in SUBSET Tasks
  <2>1. q \in RunIds \cup {NoRun}
    BY DEF Origin
  <2> QED BY <2>1 DEF TypeInv, TypeOK
<1>3. q # NoRun => x = s \cap FinishedIn(disk[q]) /\ y = released[q]
  OBVIOUS
<1> HIDE DEF x, y
<1> QED BY <1>1, <1>2, <1>3 DEF TypeInv, TypeOK

LEMMA Starts ==
  ASSUME TypeInv, NEW r \in RunIds, StartStep(r)
  PROVE  Prepares(r) \/ \E how \in Origin : Begins(r, how)
<1>0. origin[r] \in Origin /\ origin[r].way \in Ways /\ origin[r].source \in RunIds \cup {NoRun}
  BY RunTypes
<1>1. CASE Run(r)
  <2>1. Fresh \in Origin /\ Begins(r, Fresh)
    BY <1>1 DEF Run, Unused, Begins, Fresh, Origin, Ways
  <2> QED BY <2>1
<1>2. CASE Resume(r) \/ RerunFrom(r)
  <2>1. Begins(r, origin[r])
    BY <1>2 DEF Resume, RerunFrom, Resuming, Begins
  <2> QED BY <1>0, <2>1
<1>3. CASE ForceResume(r)
  <2> DEFINE how == [origin[r] EXCEPT !.way = "forced"]
  <2>1. how \in Origin /\ how.way = "forced" /\ how.source = origin[r].source
    BY <1>0 DEF Origin, Ways
  <2>2. NewRun(r, how) /\ phase[r] = "loaded" /\ origin[r].way = "resume"
    BY <1>3 DEF ForceResume, Resuming
  <2> HIDE DEF how
  <2> QED BY <2>1, <2>2 DEF Begins
<1>4. CASE ResumeRefused(r)
  <2>1. Fresh \in Origin
    BY DEF Fresh, Origin, Ways
  <2> QED BY <1>4, <2>1 DEF ResumeRefused, Resuming, Prepares, Blank, TypeInv, TypeOK, cmdVars
<1>5. CASE \E q \in RunIds : ResumeLoad(r, q)
  <2>1. PICK q \in RunIds : ResumeLoad(r, q)
    BY <1>5
  <2> DEFINE how == [way |-> "resume", source |-> q]
             s == FinishedIn(disk[q])
  <2>2. /\ how \in Origin /\ how.way = "resume" /\ how.source = q /\ q # NoRun
        /\ LoadSource(r, how, s) /\ disk[q].status # "none" /\ s \in SUBSET Tasks
    BY <2>1, RunIdFacts DEF ResumeLoad, Resumable, Origin, Ways, FinishedIn
  <2> HIDE DEF how, s
  <2>3. /\ phase'[r] = "loaded" /\ origin'[r] = how /\ skip'[r] = s
        /\ seed'[r] = s \cap FinishedIn(disk[q]) /\ seen'[r] = released[q]
    BY <2>2, Loads
  <2>4. /\ origin'[r].way = "resume" /\ origin'[r].source = q /\ disk[q].status # "none"
        /\ skip'[r] = FinishedIn(disk[q]) /\ seed'[r] = skip'[r]
    BY <2>2, <2>3 DEF s
  <2>5. /\ phase'[r] = "loaded" /\ origin'[r].way = "resume" /\ origin'[r].source \in RunIds
        /\ disk[origin'[r].source].status # "none"
        /\ skip'[r] = FinishedIn(disk[origin'[r].source]) /\ seed'[r] = skip'[r]
        /\ seen'[r] = released[origin'[r].source]
    BY <2>3, <2>4
  <2> QED BY <2>2, <2>5, Loads DEF Prepares
<1>6. CASE \E t \in Tasks : RerunLoad(r, t)
  <2>1. PICK t \in Tasks : RerunLoad(r, t)
    BY <1>6
  <2> DEFINE state == IF current = NoRun THEN NoState ELSE disk[current]
             how == [way |-> "from", source |-> current]
             s == RerunSkip(t, state)
  <2>2. how \in Origin /\ how.way = "from"
    BY DEF Origin, Ways, TypeInv, TypeOK
  <2>3. s \in SUBSET Tasks
    BY DEF RerunSkip, Upstream, Least, FinishedIn
  <2>4. LoadSource(r, how, s)
    BY <2>1 DEF RerunLoad
  <2> HIDE DEF how, s
  <2> QED BY <2>2, <2>3, <2>4, Loads DEF Prepares
<1> QED BY <1>1, <1>2, <1>3, <1>4, <1>5, <1>6 DEF StartStep

(* What a step of an owner leaves alone.                                    *)
OnlyRun(r) ==
  /\ disk' \in [RunIds -> RunState] /\ mem' \in [RunIds -> RunState]
  /\ owner' \in [RunIds -> {"none", "live", "dead"}]
  /\ phase' \in [RunIds -> {"none", "loaded", "setup", "work", "ended", "braked"}]
  /\ released' \in [RunIds -> SUBSET Tasks] /\ started' \in [RunIds -> SUBSET Tasks]
  /\ reused' \subseteq RunIds /\ markers' \subseteq markers
  /\ \A q \in RunIds \ {r} :
       /\ disk'[q] = disk[q] /\ mem'[q] = mem[q] /\ owner'[q] = owner[q] /\ phase'[q] = phase[q]
       /\ released'[q] = released[q] /\ started'[q] = started[q]
  /\ UNCHANGED <<origin, skip, seed, current, cmd, doctor, fixVars>>

LEMMA OnlyRunTypes ==
  ASSUME TypeInv, NEW r \in RunIds, OnlyRun(r)
  PROVE  TypeInv'
BY TypeOwner DEF OnlyRun

LEMMA OnlySetUp ==
  ASSUME TypeInv, NEW r \in RunIds, SetUp(r)
  PROVE  /\ OnlyRun(r) /\ disk'[r] = SetUpState(r) /\ mem'[r] = SetUpState(r) /\ phase'[r] = "work"
         /\ SetUpState(r) \in RunState
<1>1. SetUpState(r) \in RunState /\ Write(r, SetUpState(r))
  BY RunTypes, SetUpFacts DEF SetUp, SetUpState
<1> QED BY <1>1, WriteFacts DEF SetUp, OnlyRun, TypeInv, TypeOK, cmdVars

LEMMA OnlySeedRefused ==
  ASSUME TypeInv, NEW r \in RunIds, SeedRefused(r)
  PROVE  OnlyRun(r) /\ UNCHANGED <<disk, mem>> /\ phase'[r] = "ended" /\ owner'[r] = "dead"
BY DEF SeedRefused, OnlyRun, TypeInv, TypeOK, cmdVars

LEMMA OnlyStart ==
  ASSUME TypeInv, NEW r \in RunIds, NEW t \in Tasks, Start(r, t)
  PROVE  LET new == WithTask(mem[r], t, "Running")
         IN  /\ OnlyRun(r) /\ new \in RunState /\ disk'[r] = new /\ mem'[r] = new
             /\ started'[r] = started[r] \cup {t}
<1> DEFINE new == WithTask(mem[r], t, "Running")
<1>1. new \in RunState /\ Write(r, new)
  BY RunTypes, SetTaskFacts DEF Start, SetTask, WithTask, Statuses
<1> HIDE DEF new
<1> QED BY <1>1, WriteFacts DEF Start, OnlyRun, TypeInv, TypeOK, cmdVars, new

LEMMA OnlyFinish ==
  ASSUME TypeInv, NEW r \in RunIds, NEW t \in Tasks, Finish(r, t)
  PROVE  LET new == WithTask(mem[r], t, "Done")
         IN  OnlyRun(r) /\ new \in RunState /\ disk'[r] = new /\ mem'[r] = new
<1> DEFINE new == WithTask(mem[r], t, "Done")
<1>1. new \in RunState /\ Write(r, new)
  BY RunTypes, SetTaskFacts DEF Finish, SetTask, WithTask, Statuses
<1> HIDE DEF new
<1> QED BY <1>1, WriteFacts DEF Finish, OnlyRun, TypeInv, TypeOK, cmdVars, new

LEMMA OnlyRelease ==
  ASSUME TypeInv, NEW r \in RunIds, NEW t \in Tasks, Release(r, t)
  PROVE  /\ OnlyRun(r) /\ disk'[r] = mem[r] /\ mem'[r] = mem[r]
         /\ released'[r] = released[r] \cup {t}
<1>1. mem[r] \in RunState /\ Write(r, mem[r])
  BY RunTypes DEF Release
<1> QED BY <1>1, WriteFacts DEF Release, OnlyRun, TypeInv, TypeOK, cmdVars

LEMMA OnlyEndRun ==
  ASSUME TypeInv, NEW r \in RunIds, NEW state \in RunState, NEW how \in {"ended", "braked"},
         EndRun(r, state, how), markers' \subseteq markers
  PROVE  OnlyRun(r) /\ disk'[r] = state /\ mem'[r] = state /\ phase'[r] = how
<1>1. Write(r, state)
  BY DEF EndRun
<1> QED BY <1>1, WriteFacts DEF EndRun, OnlyRun, TypeInv, TypeOK

(* The ends of a run: what was Done in memory is Done on disk.              *)
LEMMA OnlyEnds ==
  ASSUME TypeInv, NEW r \in RunIds, Complete(r) \/ Brake(r) \/ \E t \in Tasks : Fail(r, t)
  PROVE  /\ OnlyRun(r) /\ mem'[r] = disk'[r] /\ FinishedIn(mem[r]) \subseteq FinishedIn(disk'[r])
         /\ phase'[r] \in {"ended", "braked"} /\ UNCHANGED <<released, started, owner, reused>>
         /\ phase'[r] = "braked" => TakesMarker(r) \in markers
<1>0. mem[r] \in RunState
  BY RunTypes
<1>1. CASE Complete(r)
  <2> DEFINE new == [mem[r] EXCEPT !.status = "Done"]
  <2>1. new \in RunState /\ FinishedIn(new) = FinishedIn(mem[r])
    BY <1>0, DoneFacts DEF FinishedIn
  <2>2. EndRun(r, new, "ended") /\ markers' \subseteq markers
    BY <1>1 DEF Complete
  <2> HIDE DEF new
  <2> QED BY <2>1, <2>2, OnlyEndRun DEF EndRun
<1>2. CASE Brake(r)
  <2>1. EndRun(r, Cancelled(mem[r]), "braked") /\ markers' \subseteq markers
        /\ TakesMarker(r) \in markers
    BY <1>2 DEF Brake
  <2> QED BY <1>0, <2>1, CancelledFacts, OnlyEndRun DEF EndRun
<1>3. CASE \E t \in Tasks : Fail(r, t)
  <2>1. PICK t \in Tasks : Fail(r, t)
    BY <1>3
  <2>2. EndRun(r, Failed(mem[r], t), "ended") /\ markers' \subseteq markers
        /\ mem[r].tasks[t] = "Running"
    BY <2>1 DEF Fail
  <2> QED BY <1>0, <2>2, FailedFacts, OnlyEndRun DEF EndRun
<1> QED BY <1>1, <1>2, <1>3

LEMMA OnlyDies ==
  ASSUME TypeInv, NEW r \in RunIds, Die(r) \/ ReusePid(r)
  PROVE  /\ OnlyRun(r) /\ UNCHANGED <<disk, mem, phase, released, started, markers>>
         /\ owner'[r] = "dead" /\ owner[r] # "none"
BY DEF Die, ReusePid, OnlyRun, TypeInv, TypeOK, cmdVars

LEMMA OnlySteps ==
  ASSUME TypeInv, NEW r \in RunIds, OwnerStep(r) \/ Die(r) \/ ReusePid(r)
  PROVE  OnlyRun(r)
BY OnlySetUp, OnlySeedRefused, OnlyStart, OnlyFinish, OnlyRelease, OnlyEnds, OnlyDies DEF OwnerStep

------------------------------------------------------------------------------
(* Cancel commands and drafts.                                              *)

LEMMA CmdType ==
  ASSUME TypeInv, NEW c \in Cancellers
  PROVE  /\ cmd[c] \in Command /\ cmd[c].pc \in Busy \cup {"idle", "done"}
         /\ cmd[c].pc \in Busy => cmd[c].target \in RunIds
         /\ cmd[c].pc = "idle" => cmd[c] = Idle
BY DEF TypeInv, TypeOK, Targets, Command, Busy

(* A command that moves on keeps its target and its marker.                 *)
LEMMA CmdMoves ==
  ASSUME TypeInv, NEW c \in Cancellers, NEW r \in Command, cmd' = [cmd EXCEPT ![c] = r],
         r.target = cmd[c].target, r.marker = cmd[c].marker, cmd[c].pc \in Busy, r.pc # "idle"
  PROVE  /\ cmd' \in [Cancellers -> Command] /\ cmd'[c] = r
         /\ \A d \in Cancellers \ {c} : cmd'[d] = cmd[d]
         /\ \A d \in Cancellers : /\ cmd'[d].pc \in Busy => cmd'[d].target \in RunIds
                                  /\ cmd'[d].pc = "idle" => cmd'[d] = Idle
BY DEF TypeInv, TypeOK, Targets

LEMMA StepFacts ==
  ASSUME TypeInv, NEW c \in Cancellers, cmd[c].pc \in Busy,
         NEW pc \in {"write", "ledger", "done"}, Step(c, pc)
  PROVE  \E r \in Command : /\ cmd' = [cmd EXCEPT ![c] = r] /\ r.pc = pc /\ r.last = 0
                            /\ r.target = cmd[c].target /\ r.marker = cmd[c].marker
                            /\ r.snap = IF pc = "write" THEN cmd[c].snap ELSE NoState
<1> DEFINE snap == IF pc = "write" THEN cmd[c].snap ELSE NoState
           r == [cmd[c] EXCEPT !.pc = pc, !.last = 0, !.snap = snap]
<1>1. cmd[c] \in Command /\ snap \in RunState /\ cmd \in [Cancellers -> Command]
  BY NoStateType DEF TypeInv, TypeOK, Command
<1>2. cmd' = [cmd EXCEPT ![c] = r]
  BY <1>1 DEF Step, Command
<1> HIDE DEF snap
<1>3. r \in Command /\ r.pc = pc /\ r.last = 0 /\ r.target = cmd[c].target /\ r.marker = cmd[c].marker
      /\ r.snap = snap
  BY <1>1 DEF Command
<1> QED BY <1>2, <1>3 DEF snap

(* A step of a command: where it goes on, for the target and the marker it  *)
(* was given.                                                               *)
Goes(c, r) == /\ cmd' = [cmd EXCEPT ![c] = r]
              /\ r.target = cmd[c].target /\ r.marker = cmd[c].marker

LEMMA CmdLoad ==
  ASSUME TypeInv, NEW c \in Cancellers, Load(c)
  PROVE  \E r \in Command :
           /\ Goes(c, r) /\ cmd[c].pc = "load" /\ UNCHANGED <<runVars, markers, doctor, fixVars>>
           /\ \/ r.pc = "done"
              \/ r.pc = "probe" /\ disk[cmd[c].target].status = "Running" /\ r.snap = disk[cmd[c].target]
<1> DEFINE x == disk[cmd[c].target]
<1>1. cmd[c].pc = "load" /\ cmd[c] \in Command /\ x \in RunState /\ cmd \in [Cancellers -> Command]
  BY CmdType, RunTypes DEF Load, Busy, TypeInv, TypeOK
<1>2. CASE IsOver(x)
  <2>1. Step(c, "done")
    BY <1>2 DEF Load
  <2> QED BY <1>1, <2>1, StepFacts DEF Load, Goes, Busy
<1>3. CASE ~IsOver(x)
  <2> DEFINE r == [cmd[c] EXCEPT !.pc = "probe", !.snap = x]
  <2>1. cmd' = [cmd EXCEPT ![c] = r] /\ x.status = "Running"
    BY <1>1, <1>3 DEF Load, IsOver, Command
  <2> HIDE DEF x
  <2>2. r \in Command /\ r.pc = "probe" /\ r.snap = x /\ r.target = cmd[c].target
        /\ r.marker = cmd[c].marker
    BY <1>1 DEF Command
  <2> QED BY <1>1, <2>1, <2>2 DEF Load, Goes, x
<1> QED BY <1>2, <1>3

LEMMA CmdProbe ==
  ASSUME TypeInv, NEW c \in Cancellers, Probe(c)
  PROVE  \E r \in Command :
           /\ Goes(c, r) /\ cmd[c].pc = "probe" /\ UNCHANGED <<runVars, markers, doctor, fixVars>>
           /\ \/ r.pc = "done"
              \/ r.pc = "write" /\ ~Live(cmd[c].target) /\ r.snap = cmd[c].snap
<1>1. cmd[c].pc = "probe" /\ cmd[c].pc \in Busy
  BY DEF Probe, Busy
<1>2. CASE Live(cmd[c].target)
  BY <1>1, <1>2, StepFacts DEF Probe, Goes
<1>3. CASE ~Live(cmd[c].target)
  <2>1. Step(c, "write")
    BY <1>3 DEF Probe
  <2>2. PICK r \in Command : /\ cmd' = [cmd EXCEPT ![c] = r] /\ r.pc = "write"
                             /\ r.target = cmd[c].target /\ r.marker = cmd[c].marker
                             /\ r.snap = cmd[c].snap
    BY <1>1, <2>1, StepFacts
  <2> QED BY <1>1, <1>3, <2>2 DEF Probe, Goes
<1> QED BY <1>2, <1>3

LEMMA CmdOverwrite ==
  ASSUME TypeInv, NEW c \in Cancellers, Overwrite(c)
  PROVE  \E r \in Command :
           LET t == cmd[c].target
           IN  /\ Goes(c, r) /\ cmd[c].pc = "write" /\ r.pc = "ledger" /\ r.last = 0 /\ t \in RunIds
               /\ disk' \in [RunIds -> RunState] /\ disk'[t] = Cancelled(cmd[c].snap)
               /\ disk'[t].status = "Cancelled"
               /\ \A q \in RunIds \ {t} : disk'[q] = disk[q] /\ undone'[q] = undone[q]
               /\ undone' \in [RunIds -> SUBSET Tasks]
               /\ undone'[t] = undone[t] \cup (FinishedIn(disk[t]) \ FinishedIn(disk'[t]))
               /\ UNCHANGED <<mem, owner, reused, phase, origin, skip, seed, released, started,
                              current, markers, doctor, limit, draft, drafted, seen>>
<1> DEFINE t == cmd[c].target
<1>1. cmd[c].pc = "write" /\ cmd[c].pc \in Busy /\ t \in RunIds /\ cmd[c].snap \in RunState
  BY CmdType DEF Overwrite, Busy, Command
<1>2. /\ Cancelled(cmd[c].snap) \in RunState /\ Cancelled(cmd[c].snap).status = "Cancelled"
      /\ FinishedIn(disk[t]) \subseteq Tasks
  BY <1>1, CancelledFacts, RunTypes, StateParts
<1>3. /\ disk' = [disk EXCEPT ![t] = Cancelled(cmd[c].snap)] /\ Step(c, "ledger")
      /\ undone' = [undone EXCEPT ![t] = @ \cup (FinishedIn(disk[t])
                                                 \ FinishedIn(Cancelled(cmd[c].snap)))]
  BY DEF Overwrite
<1>4. PICK r \in Command : Goes(c, r) /\ r.pc = "ledger" /\ r.last = 0
  BY <1>1, <1>3, StepFacts DEF Goes
<1>5. /\ disk \in [RunIds -> RunState] /\ undone \in [RunIds -> SUBSET Tasks]
  BY DEF TypeInv, TypeOK
<1>6. /\ disk' \in [RunIds -> RunState] /\ disk'[t] = Cancelled(cmd[c].snap)
      /\ \A q \in RunIds \ {t} : disk'[q] = disk[q] /\ undone'[q] = undone[q]
      /\ undone' \in [RunIds -> SUBSET Tasks]
      /\ undone'[t] = undone[t] \cup (FinishedIn(disk[t]) \ FinishedIn(disk'[t]))
  BY <1>1, <1>2, <1>3, <1>5
<1> QED BY <1>1, <1>2, <1>4, <1>6 DEF Overwrite

LEMMA CmdReadLedger ==
  ASSUME TypeInv, NEW c \in Cancellers, ReadLedger(c)
  PROVE  \E r \in Command :
           /\ Goes(c, r) /\ cmd[c].pc = "ledger" /\ r.pc = "append"
           /\ doctor[cmd[c].target] = <<>> => r.last = 0
           /\ UNCHANGED <<runVars, markers, doctor, fixVars>>
<1> DEFINE file == doctor[cmd[c].target]
           n == IF file = <<>> THEN 0 ELSE file[Len(file)]
           r == [cmd[c] EXCEPT !.pc = "append", !.last = n]
<1>1. cmd[c].pc = "ledger" /\ cmd[c] \in Command /\ cmd \in [Cancellers -> Command] /\ file \in Seq(Nat)
  BY CmdType, RunTypes DEF ReadLedger, Busy, TypeInv, TypeOK
<1>2. n \in Nat
  <2>1. file # <<>> => Len(file) \in 1 .. Len(file)
    BY <1>1, EmptySeq
  <2> QED BY <1>1, <2>1, ElementOfSeq
<1>3. cmd' = [cmd EXCEPT ![c] = r]
  BY <1>1 DEF ReadLedger, Command
<1>4. file = <<>> => n = 0
  OBVIOUS
<1> HIDE DEF n
<1>5. r \in Command /\ r.pc = "append" /\ r.last = n /\ r.target = cmd[c].target
      /\ r.marker = cmd[c].marker
  BY <1>1, <1>2 DEF Command
<1> QED BY <1>1, <1>3, <1>4, <1>5 DEF ReadLedger, Goes

LEMMA CmdAppend ==
  ASSUME TypeInv, NEW c \in Cancellers, AppendFinding(c)
  PROVE  \E r \in Command :
           LET t == cmd[c].target
           IN  /\ Goes(c, r) /\ cmd[c].pc = "append" /\ r.pc = "done" /\ t \in RunIds
               /\ doctor' \in [RunIds -> Seq(Nat)]
               /\ doctor'[t] = Append(doctor[t], cmd[c].last + 1)
               /\ \A q \in RunIds \ {t} : doctor'[q] = doctor[q]
               /\ UNCHANGED <<runVars, markers, fixVars>>
<1> DEFINE t == cmd[c].target
           s == Append(doctor[t], cmd[c].last + 1)
<1>1. cmd[c].pc = "append" /\ cmd[c].pc \in Busy /\ t \in RunIds /\ cmd[c].last + 1 \in Nat
  BY CmdType DEF AppendFinding, Busy, Command
<1>2. doctor \in [RunIds -> Seq(Nat)] /\ s \in Seq(Nat)
  BY <1>1, RunTypes, AppendProperties DEF TypeInv, TypeOK
<1>3. doctor' = [doctor EXCEPT ![t] = s] /\ Step(c, "done")
  BY <1>2 DEF AppendFinding
<1>4. PICK r \in Command : Goes(c, r) /\ r.pc = "done"
  BY <1>1, <1>3, StepFacts DEF Goes
<1> HIDE DEF s
<1>5. /\ doctor' \in [RunIds -> Seq(Nat)] /\ doctor'[t] = s
      /\ \A q \in RunIds \ {t} : doctor'[q] = doctor[q]
  BY <1>1, <1>2, <1>3
<1> QED BY <1>1, <1>4, <1>5 DEF AppendFinding, s

LEMMA TypeCancel ==
  ASSUME TypeInv, NEW c \in Cancellers, CancelStep(c)
  PROVE  TypeInv'
<1>1. PICK r \in Command : Goes(c, r) /\ cmd[c].pc \in Busy /\ r.pc # "idle"
  BY CmdLoad, CmdProbe, CmdOverwrite, CmdReadLedger, CmdAppend DEF CancelStep, Busy
<1>2. cmd' \in [Cancellers -> Command]
      /\ \A d \in Cancellers : /\ cmd'[d].pc \in Busy => cmd'[d].target \in RunIds
                               /\ cmd'[d].pc = "idle" => cmd'[d] = Idle
  BY <1>1, CmdMoves DEF Goes
<1>3. CASE Load(c) \/ Probe(c) \/ ReadLedger(c)
  <2>1. UNCHANGED <<runVars, markers, doctor, fixVars>>
    BY <1>3 DEF Load, Probe, ReadLedger
  <2> QED BY <1>2, <2>1 DEF TypeInv, TypeOK, Targets, runVars, fixVars
<1>4. CASE Overwrite(c)
  <2>1. /\ disk' \in [RunIds -> RunState] /\ undone' \in [RunIds -> SUBSET Tasks]
        /\ UNCHANGED <<mem, owner, reused, phase, origin, skip, seed, released, started, current,
                       markers, doctor, limit, draft, drafted, seen>>
    BY <1>4, CmdOverwrite
  <2>2. crowded' \subseteq RunIds
    BY <1>4, CmdType DEF Overwrite, Busy, TypeInv, TypeOK
  <2> QED BY <1>2, <2>1, <2>2 DEF TypeInv, TypeOK, Targets
<1>5. CASE AppendFinding(c)
  <2>1. doctor' \in [RunIds -> Seq(Nat)] /\ UNCHANGED <<runVars, markers, fixVars>>
    BY <1>5, CmdAppend
  <2> QED BY <1>2, <2>1 DEF TypeInv, TypeOK, Targets, runVars, fixVars
<1> QED BY <1>3, <1>4, <1>5 DEF CancelStep

(* A command that is given.                                                 *)
LEMMA CmdRequest ==
  ASSUME TypeInv, NEW c \in Cancellers,
         RequestNoRun(c) \/ \E r \in RunIds, literal \in BOOLEAN : Request(c, r, literal)
  PROVE  \E x \in Command, m \in RunIds \cup {Current} :
           /\ cmd[c] = Idle /\ cmd' = [cmd EXCEPT ![c] = x] /\ markers' = markers \cup {m}
           /\ x.marker = m /\ UNCHANGED <<runVars, doctor, fixVars>>
           /\ \/ x.pc = "done" /\ m = Current
              \/ x.pc = "load" /\ x.target \in RunIds /\ disk[x.target].status # "none"
                 /\ m \in {x.target, Current}
<1>1. CASE RequestNoRun(c)
  <2> DEFINE x == [Idle EXCEPT !.pc = "done", !.marker = Current]
  <2>1. x \in Command /\ x.pc = "done" /\ x.marker = Current
    BY IdleType DEF Command
  <2>2. cmd[c] = Idle /\ cmd' = [cmd EXCEPT ![c] = x] /\ markers' = markers \cup {Current}
        /\ UNCHANGED <<runVars, doctor, fixVars>>
    BY <1>1, CmdType DEF RequestNoRun
  <2> HIDE DEF x
  <2> QED BY <2>1, <2>2
<1>2. CASE \E r \in RunIds, literal \in BOOLEAN : Request(c, r, literal)
  <2>1. PICK r \in RunIds, literal \in BOOLEAN : Request(c, r, literal)
    BY <1>2
  <2> DEFINE m == MarkerOf(r, literal)
             x == [Idle EXCEPT !.pc = "load", !.target = r, !.marker = m]
  <2>2. m \in {r, Current}
    BY DEF MarkerOf
  <2>3. cmd[c] = Idle /\ cmd' = [cmd EXCEPT ![c] = x] /\ markers' = markers \cup {m}
        /\ disk[r].status # "none" /\ UNCHANGED <<runVars, doctor, fixVars>>
    BY <2>1, CmdType DEF Request
  <2> HIDE DEF m
  <2>4. x \in Command /\ x.pc = "load" /\ x.target = r /\ x.marker = m
    BY <2>2, IdleType DEF Command
  <2> HIDE DEF x
  <2> QED BY <2>2, <2>3, <2>4
<1> QED BY <1>1, <1>2

LEMMA TypeRequest ==
  ASSUME TypeInv, NEW c \in Cancellers,
         RequestNoRun(c) \/ \E r \in RunIds, literal \in BOOLEAN : Request(c, r, literal)
  PROVE  TypeInv'
<1>1. PICK x \in Command, m \in RunIds \cup {Current} :
        /\ cmd[c] = Idle /\ cmd' = [cmd EXCEPT ![c] = x] /\ markers' = markers \cup {m}
        /\ UNCHANGED <<runVars, doctor, fixVars>>
        /\ \/ x.pc = "done"
           \/ x.pc = "load" /\ x.target \in RunIds
  BY CmdRequest
<1>2. cmd' \in [Cancellers -> Command]
      /\ \A d \in Cancellers : /\ cmd'[d].pc \in Busy => cmd'[d].target \in RunIds
                               /\ cmd'[d].pc = "idle" => cmd'[d] = Idle
  BY <1>1 DEF TypeInv, TypeOK, Targets, Busy
<1> QED BY <1>1, <1>2 DEF TypeInv, TypeOK, Targets, runVars, fixVars

LEMMA DraftFacts ==
  ASSUME TypeInv, DraftWrite
  PROVE  LET r == draft.target
         IN  /\ r \in RunIds /\ disk' \in [RunIds -> RunState]
             /\ \A q \in RunIds \ {r} : disk'[q] = disk[q] /\ undone'[q] = undone[q]
             /\ undone' \in [RunIds -> SUBSET Tasks]
             /\ undone'[r] = undone[r] \cup (FinishedIn(disk[r]) \ FinishedIn(disk'[r]))
             /\ drafted' = drafted \cup {r} /\ draft' = [NoDraft EXCEPT !.pc = "done"]
             /\ UNCHANGED <<mem, owner, reused, phase, origin, skip, seed, released, started,
                            current, cmdVars, limit, crowded, seen>>
<1>1. draft.target \in RunIds /\ draft.snap \in RunState
  BY DEF DraftWrite, TypeInv, TypeOK, Targets
<1>2. FinishedIn(disk[draft.target]) \subseteq Tasks
  BY <1>1, RunTypes, StateParts
<1> QED BY <1>1, <1>2 DEF DraftWrite, TypeInv, TypeOK

LEMMA TypeDraft ==
  ASSUME TypeInv, DraftWrite \/ \E r \in RunIds : DraftLoad(r)
  PROVE  TypeInv'
<1> DEFINE D == [pc : {"idle", "loaded", "done"}, target : RunIds \cup {NoRun}, snap : RunState]
<1>1. CASE DraftWrite
  <2>1. [NoDraft EXCEPT !.pc = "done"] \in D /\ [NoDraft EXCEPT !.pc = "done"].pc = "done"
    BY NoStateType DEF NoDraft
  <2>2. /\ disk' \in [RunIds -> RunState] /\ undone' \in [RunIds -> SUBSET Tasks]
        /\ drafted' = drafted \cup {draft.target} /\ draft.target \in RunIds
        /\ draft' = [NoDraft EXCEPT !.pc = "done"]
        /\ UNCHANGED <<mem, owner, reused, phase, origin, skip, seed, released, started, current,
                       markers, cmd, doctor, limit, crowded, seen>>
    BY <1>1, DraftFacts DEF cmdVars
  <2>3. TypeOK'
    BY <2>1, <2>2 DEF TypeInv, TypeOK
  <2>4. Targets'
    BY <2>1, <2>2 DEF TypeInv, Targets
  <2> QED BY <2>3, <2>4 DEF TypeInv
<1>2. CASE \E r \in RunIds : DraftLoad(r)
  <2>1. PICK r \in RunIds : DraftLoad(r)
    BY <1>2
  <2>2. [pc |-> "loaded", target |-> r, snap |-> disk[r]] \in D
    BY RunTypes
  <2> QED BY <2>1, <2>2 DEF DraftLoad, TypeInv, TypeOK, Targets, runVars, cmdVars
<1> QED BY <1>1, <1>2

LEMMA TypeStep ==
  ASSUME TypeInv, [Next]_vars
  PROVE  TypeInv'
<1>1. CASE UNCHANGED vars
  BY <1>1 DEF TypeInv, TypeOK, Targets, vars, runVars, cmdVars, fixVars
<1>2. CASE \E r \in RunIds : StartStep(r)
  BY <1>2, Starts, TypeNewRun, TypePrepares DEF Begins
<1>3. CASE \E r \in RunIds : OwnerStep(r) \/ Die(r) \/ ReusePid(r)
  BY <1>3, OnlySteps, OnlyRunTypes
<1>4. CASE DraftWrite \/ \E r \in RunIds : DraftLoad(r)
  BY <1>4, TypeDraft
<1>5. CASE \E c \in Cancellers : CancelStep(c)
  BY <1>5, TypeCancel
<1>6. CASE \E c \in Cancellers : RequestNoRun(c) \/ \E r \in RunIds, literal \in BOOLEAN : Request(c, r, literal)
  BY <1>6, TypeRequest
<1> QED BY <1>1, <1>2, <1>3, <1>4, <1>5, <1>6 DEF Next

(* The control directory and its processes keep their types, and a cancel   *)
(* command that loads, writes or records does so for a run that exists      *)
(* (force_cancel_if_abandoned, src/scheduler/liveness.rs).                  *)
THEOREM RecoveryTypesHold == Spec => []TypeOK
<1>1. Init => TypeInv
  BY TypeInit
<1>2. TypeInv /\ [Next]_vars => TypeInv'
  BY TypeStep
<1>3. TypeInv => TypeOK
  BY DEF TypeInv
<1> QED BY <1>1, <1>2, <1>3, PTL DEF Spec

------------------------------------------------------------------------------
(* What a run and the commands aimed at it hold between steps.              *)

Begun(r) ==
  /\ phase[r] = "none" => Blank(r)
  /\ phase[r] \in {"none", "loaded"} =>
       owner[r] = "none" /\ disk[r] = NoState /\ mem[r] = NoState
  /\ owner[r] = "none" => phase[r] \in {"none", "loaded"}
  /\ phase[r] \in {"none", "loaded", "setup"} => started[r] = {} /\ released[r] = {}
  /\ phase[r] \in {"setup", "work"} => mem[r].status = "Running"
  /\ phase[r] = "work" => /\ \A t \in skip[r] : mem[r].tasks[t] = "Skipped"
                          /\ \A t \in started[r] : mem[r].tasks[t] \in {"Running", "Done"}
  /\ released[r] \subseteq FinishedIn(mem[r])

(* A command is aimed at a run that was begun, and writes over one whose    *)
(* owner is gone.                                                           *)
Aimed == /\ \A c \in Cancellers : /\ cmd[c].pc \in Busy => owner[cmd[c].target] # "none"
                                  /\ cmd[c].pc = "write" => owner[cmd[c].target] = "dead"
         /\ draft.pc = "loaded" => owner[draft.target] # "none"

RunsInv == TypeInv /\ (\A r \in RunIds : Begun(r)) /\ Aimed

LEMMA RunsInit == Init => RunsInv
<1> SUFFICES ASSUME Init PROVE (\A r \in RunIds : Begun(r)) /\ Aimed
  BY TypeInit DEF RunsInv
<1>1. \A r \in RunIds : Begun(r)
  BY DEF Init, Begun, Blank
<1>2. Aimed
  BY DEF Init, Aimed, Idle, NoDraft, Busy
<1> QED BY <1>1, <1>2

(* What every step that is not an owner's or a command line's leaves alone. *)
LEMMA Beside ==
  ASSUME RunsInv, \/ UNCHANGED vars
                  \/ \E c \in Cancellers : CancelStep(c)
                  \/ \E c \in Cancellers : RequestNoRun(c) \/ \E r \in RunIds, literal \in BOOLEAN : Request(c, r, literal)
                  \/ DraftWrite \/ \E r \in RunIds : DraftLoad(r)
  PROVE  /\ UNCHANGED <<mem, owner, reused, phase, origin, skip, seed, released, started, current>>
         /\ \A q \in RunIds : owner[q] = "none" => disk'[q] = disk[q]
         /\ \A q \in RunIds : undone[q] \subseteq undone'[q]
         /\ \A q \in RunIds : FinishedIn(disk[q]) \subseteq FinishedIn(disk'[q]) \cup undone'[q]
<1>1. CASE UNCHANGED vars
  BY <1>1 DEF vars, runVars, fixVars
<1>2. CASE \E c \in Cancellers : Overwrite(c)
  <2>1. PICK c \in Cancellers : Overwrite(c)
    BY <1>2
  <2>2. owner[cmd[c].target] # "none"
    BY <2>1 DEF RunsInv, Aimed, Overwrite, Busy
  <2> DEFINE t == cmd[c].target
  <2>3. /\ t \in RunIds /\ \A q \in RunIds \ {t} : disk'[q] = disk[q] /\ undone'[q] = undone[q]
        /\ undone'[t] = undone[t] \cup (FinishedIn(disk[t]) \ FinishedIn(disk'[t]))
        /\ UNCHANGED <<mem, owner, reused, phase, origin, skip, seed, released, started, current>>
    BY <2>1, CmdOverwrite DEF RunsInv
  <2> HIDE DEF t
  <2>4. ASSUME NEW q \in RunIds
        PROVE  undone[q] \subseteq undone'[q] /\ FinishedIn(disk[q]) \subseteq FinishedIn(disk'[q]) \cup undone'[q]
    <3>1. CASE q = t
      BY <2>3, <3>1
    <3>2. CASE q # t
      <4>1. disk'[q] = disk[q] /\ undone'[q] = undone[q]
        BY <2>3, <3>2
      <4> QED BY <4>1
    <3> QED BY <3>1, <3>2
  <2> QED BY <2>2, <2>3, <2>4 DEF t
<1>3. CASE \E c \in Cancellers : Load(c) \/ Probe(c) \/ ReadLedger(c) \/ AppendFinding(c)
  <2>1. UNCHANGED <<runVars, undone>>
    BY <1>3 DEF Load, Probe, ReadLedger, AppendFinding, fixVars
  <2> QED BY <2>1 DEF runVars
<1>4. CASE \E c \in Cancellers : RequestNoRun(c) \/ \E r \in RunIds, literal \in BOOLEAN : Request(c, r, literal)
  BY <1>4 DEF RequestNoRun, Request, runVars, fixVars
<1>5. CASE \E r \in RunIds : DraftLoad(r)
  BY <1>5 DEF DraftLoad, runVars
<1>6. CASE DraftWrite
  <2>1. owner[draft.target] # "none"
    BY <1>6 DEF RunsInv, Aimed, DraftWrite
  <2> QED BY <1>6, <2>1, DraftFacts DEF RunsInv
<1> QED BY <1>1, <1>2, <1>3, <1>4, <1>5, <1>6 DEF CancelStep

(* What a new run finds and leaves.                                         *)
LEMMA NewBegun ==
  ASSUME RunsInv, NEW r \in RunIds, NEW how \in Origin, Begins(r, how)
  PROVE  /\ phase[r] \in {"none", "loaded"} /\ owner[r] = "none"
         /\ owner'[r] = "live" /\ phase'[r] = "setup"
         /\ disk'[r] = mem'[r] /\ mem'[r].status = "Running"
         /\ started'[r] = {} /\ released'[r] = {} /\ FinishedIn(mem'[r]) = {}
         /\ origin'[r] = how
         /\ \A q \in RunIds \ {r} :
              /\ disk'[q] = disk[q] /\ mem'[q] = mem[q] /\ owner'[q] = owner[q] /\ phase'[q] = phase[q]
              /\ origin'[q] = origin[q]
         /\ UNCHANGED <<reused, skip, seed, started, released, markers, cmd, doctor, fixVars>>
<1>0. NewRun(r, how) /\ phase[r] \in {"none", "loaded"}
  BY DEF Begins
<1>1. /\ disk'[r] = mem'[r] /\ mem'[r].status = "Running" /\ \A t \in Tasks : mem'[r].tasks[t] = "Pending"
      /\ \A q \in RunIds \ {r} : disk'[q] = disk[q] /\ mem'[q] = mem[q]
  BY <1>0, NewRunFacts, NoStateType DEF RunsInv
<1>2. owner[r] = "none" /\ started[r] = {} /\ released[r] = {}
  BY <1>0 DEF RunsInv, Begun
<1>3. FinishedIn(mem'[r]) = {}
  BY <1>1 DEF FinishedIn
<1>4. UNCHANGED <<reused, skip, seed, started, released, markers, cmd, doctor, fixVars>>
  BY <1>0 DEF NewRun, cmdVars
<1>5. /\ owner'[r] = "live" /\ phase'[r] = "setup" /\ origin'[r] = how
      /\ \A q \in RunIds \ {r} :
           owner'[q] = owner[q] /\ phase'[q] = phase[q] /\ origin'[q] = origin[q]
  BY <1>0 DEF NewRun, RunsInv, TypeInv, TypeOK
<1> QED BY <1>0, <1>1, <1>2, <1>3, <1>4, <1>5

(* A command that prepares a run finds nothing of it.                       *)
LEMMA Unborn ==
  ASSUME RunsInv, NEW r \in RunIds, Prepares(r)
  PROVE  /\ owner[r] = "none" /\ disk[r] = NoState /\ mem[r] = NoState /\ started[r] = {} /\ released[r] = {}
         /\ phase'[r] \in {"none", "loaded"}
BY DEF RunsInv, Begun, Prepares

(* What a command line that starts a run, or is about to, leaves alone.     *)
LEMMA StartsAside ==
  ASSUME RunsInv, NEW r \in RunIds, StartStep(r)
  PROVE  /\ owner[r] = "none" /\ phase'[r] \in {"none", "loaded", "setup"}
         /\ started[r] = {} /\ released[r] = {}
         /\ \A q \in RunIds \ {r} :
              /\ disk'[q] = disk[q] /\ mem'[q] = mem[q] /\ owner'[q] = owner[q] /\ phase'[q] = phase[q]
              /\ origin'[q] = origin[q] /\ skip'[q] = skip[q] /\ seed'[q] = seed[q] /\ seen'[q] = seen[q]
         /\ UNCHANGED <<reused, started, released, markers, cmd, doctor, draft, undone, crowded, drafted>>
<1>0. TypeInv
  BY DEF RunsInv
<1>1. CASE Prepares(r)
  BY <1>1, Unborn DEF Prepares
<1>2. CASE \E how \in Origin : Begins(r, how)
  <2>1. PICK how \in Origin : Begins(r, how)
    BY <1>2
  <2>2. /\ owner[r] = "none" /\ phase'[r] = "setup" /\ started'[r] = {} /\ released'[r] = {}
        /\ \A q \in RunIds \ {r} :
             /\ disk'[q] = disk[q] /\ mem'[q] = mem[q] /\ owner'[q] = owner[q] /\ phase'[q] = phase[q]
             /\ origin'[q] = origin[q]
        /\ UNCHANGED <<reused, skip, seed, started, released, markers, cmd, doctor, fixVars>>
    BY <2>1, NewBegun
  <2> QED BY <2>2 DEF fixVars
<1> QED BY <1>0, <1>1, <1>2, Starts

(* What a step of an owner does to its own run; it does nothing to others.  *)
Grows(r) ==
  /\ owner[r] # "none" /\ owner'[r] # "none"
  /\ owner[r] = "dead" => /\ owner'[r] = "dead" /\ disk'[r] = disk[r]
                          /\ released'[r] = released[r] /\ started'[r] = started[r]
  /\ \/ owner'[r] = "dead" /\ disk'[r] = disk[r] /\ mem'[r] = mem[r] /\ released'[r] = released[r]
     \/ owner'[r] = "live" /\ disk'[r] = mem'[r]
  /\ released[r] \subseteq released'[r]
  /\ \A t \in started'[r] \ started[r] :
       phase[r] = "work" /\ mem[r].tasks[t] = "Pending" /\ Deps[t] \subseteq skip[r] \cup released[r]
  /\ Begun(r)'

LEMMA GrowSetUp ==
  ASSUME RunsInv, NEW r \in RunIds, SetUp(r)
  PROVE  Grows(r)
<1>1. TypeInv /\ Begun(r) /\ phase[r] = "setup" /\ owner[r] = "live" /\ mem[r] \in RunState
  BY RunTypes DEF RunsInv, SetUp
<1>2. /\ disk'[r] = SetUpState(r) /\ mem'[r] = SetUpState(r) /\ phase'[r] = "work"
      /\ UNCHANGED <<owner, skip, started, released>>
  BY <1>1, OnlySetUp DEF SetUp
<1>3. started[r] = {} /\ released[r] = {} /\ mem[r].status = "Running" /\ skip[r] \subseteq Tasks
  BY <1>1, RunTypes DEF Begun
<1> QED BY <1>1, <1>2, <1>3, SetUpFacts DEF Grows, Begun

LEMMA GrowTask ==
  ASSUME RunsInv, NEW r \in RunIds, NEW t \in Tasks, Start(r, t) \/ Finish(r, t)
  PROVE  Grows(r)
<1> DEFINE x == IF Start(r, t) THEN "Running" ELSE "Done"
           new == WithTask(mem[r], t, x)
<1>1. TypeInv /\ Begun(r) /\ phase[r] = "work" /\ owner[r] = "live" /\ mem[r] \in RunState
      /\ started[r] \subseteq Tasks /\ skip[r] \subseteq Tasks
  BY RunTypes DEF RunsInv, Start, Finish, Working
<1>2. mem'[r] = new /\ disk'[r] = new
  BY <1>1, OnlyStart, OnlyFinish
<1>3. /\ new.status = mem[r].status /\ new.tasks[t] = x
      /\ \A u \in Tasks \ {t} : new.tasks[u] = mem[r].tasks[u]
  <2>1. x \in Statuses
    BY DEF Statuses
  <2> HIDE DEF x
  <2> QED BY <1>1, <2>1, SetTaskFacts
<1>4. UNCHANGED <<owner, phase, skip, released>>
  BY DEF Start, Finish
<1>5. /\ started[r] \subseteq started'[r] /\ started'[r] \subseteq started[r] \cup {t}
      /\ t \in started'[r] \ started[r] => Start(r, t)
  BY <1>1, OnlyStart DEF Finish
<1>6. mem[r].tasks[t] = IF Start(r, t) THEN "Pending" ELSE "Running"
  BY DEF Start, Finish
<1>7. Start(r, t) => Deps[t] \subseteq skip[r] \cup released[r]
  BY DEF Start, Ready
<1> HIDE DEF new
<1>8. FinishedIn(mem[r]) \subseteq FinishedIn(mem'[r])
  BY <1>2, <1>3, <1>6 DEF FinishedIn
<1>9. Begun(r)'
  <2>1. \A u \in skip[r] : mem'[r].tasks[u] = "Skipped"
    BY <1>1, <1>2, <1>3, <1>6 DEF Begun
  <2>2. \A u \in started'[r] : mem'[r].tasks[u] \in {"Running", "Done"}
    BY <1>1, <1>2, <1>3, <1>5 DEF Begun
  <2> QED BY <1>1, <1>2, <1>3, <1>4, <1>8, <2>1, <2>2 DEF Begun
<1> QED BY <1>1, <1>2, <1>4, <1>5, <1>6, <1>7, <1>9 DEF Grows

LEMMA GrowRelease ==
  ASSUME RunsInv, NEW r \in RunIds, NEW t \in Tasks, Release(r, t)
  PROVE  Grows(r)
<1>1. TypeInv /\ Begun(r) /\ phase[r] = "work" /\ owner[r] = "live"
  BY DEF RunsInv, Release, Working
<1>2. /\ disk'[r] = mem[r] /\ mem'[r] = mem[r] /\ released'[r] = released[r] \cup {t}
      /\ t \in FinishedIn(mem[r]) /\ UNCHANGED <<owner, phase, skip, started>>
  BY <1>1, OnlyRelease DEF Release, FinishedIn
<1> QED BY <1>1, <1>2 DEF Grows, Begun

LEMMA GrowEnds ==
  ASSUME RunsInv, NEW r \in RunIds, Complete(r) \/ Brake(r) \/ \E t \in Tasks : Fail(r, t)
  PROVE  Grows(r)
<1>1. TypeInv /\ Begun(r) /\ phase[r] = "work" /\ owner[r] = "live"
  BY DEF RunsInv, Complete, Brake, Fail, Working
<1>2. /\ mem'[r] = disk'[r] /\ FinishedIn(mem[r]) \subseteq FinishedIn(mem'[r])
      /\ phase'[r] \in {"ended", "braked"} /\ UNCHANGED <<released, started, owner>>
  BY <1>1, OnlyEnds
<1> QED BY <1>1, <1>2 DEF Grows, Begun

LEMMA GrowQuiet ==
  ASSUME RunsInv, NEW r \in RunIds, SeedRefused(r) \/ Die(r) \/ ReusePid(r)
  PROVE  Grows(r)
<1>1. TypeInv /\ Begun(r)
  BY DEF RunsInv
<1>2. /\ UNCHANGED <<disk, mem, released, started, skip>> /\ owner[r] # "none" /\ owner'[r] = "dead"
      /\ phase'[r] = phase[r] \/ phase'[r] = "ended"
  BY <1>1, OnlySeedRefused, OnlyDies DEF SeedRefused, Die, ReusePid
<1> QED BY <1>1, <1>2 DEF Grows, Begun

LEMMA OwnerGrows ==
  ASSUME RunsInv, NEW r \in RunIds, OwnerStep(r) \/ Die(r) \/ ReusePid(r)
  PROVE  Grows(r) /\ OnlyRun(r)
BY GrowSetUp, GrowTask, GrowRelease, GrowEnds, GrowQuiet, OnlySteps DEF OwnerStep, RunsInv

LEMMA AimedStep ==
  ASSUME RunsInv, [Next]_vars
  PROVE  Aimed'
<1>1. CASE \E r \in RunIds : StartStep(r)
  <2>1. PICK r \in RunIds : StartStep(r)
    BY <1>1
  <2>2. /\ owner[r] = "none" /\ UNCHANGED <<cmd, draft>>
        /\ \A q \in RunIds \ {r} : owner'[q] = owner[q]
    BY <2>1, StartsAside
  <2>3. \A c \in Cancellers : cmd[c].pc \in Busy => cmd[c].target \in RunIds \ {r}
    BY <2>2, CmdType DEF RunsInv, Aimed
  <2>4. draft.pc = "loaded" => draft.target \in RunIds \ {r}
    BY <2>2 DEF RunsInv, Aimed, TypeInv, Targets
  <2> QED BY <2>2, <2>3, <2>4 DEF RunsInv, Aimed, Busy
<1>2. CASE \E r \in RunIds : OwnerStep(r) \/ Die(r) \/ ReusePid(r)
  <2>1. PICK r \in RunIds : Grows(r) /\ OnlyRun(r)
    BY <1>2, OwnerGrows
  <2>2. /\ \A q \in RunIds : /\ owner[q] # "none" => owner'[q] # "none"
                             /\ owner[q] = "dead" => owner'[q] = "dead"
        /\ UNCHANGED <<cmd, draft>>
    BY <2>1 DEF Grows, OnlyRun, fixVars
  <2>3. \A c \in Cancellers : cmd[c].pc \in Busy => cmd[c].target \in RunIds
    BY CmdType DEF RunsInv
  <2>4. draft.pc = "loaded" => draft.target \in RunIds
    BY DEF RunsInv, TypeInv, Targets
  <2> QED BY <2>2, <2>3, <2>4 DEF RunsInv, Aimed, Busy
<1>3. CASE \E c \in Cancellers : CancelStep(c)
  <2>1. PICK c \in Cancellers : CancelStep(c)
    BY <1>3
  <2>2. UNCHANGED <<owner, phase, reused>>
    BY <1>3, Beside
  <2>3. draft' = draft
    BY <2>1 DEF CancelStep, Load, Probe, Overwrite, ReadLedger, AppendFinding, fixVars
  <2>4. PICK x \in Command : /\ Goes(c, x) /\ cmd[c].pc \in Busy /\ x.pc # "idle"
                             /\ x.pc = "write" => ~Live(cmd[c].target)
    BY <2>1, CmdLoad, CmdProbe, CmdOverwrite, CmdReadLedger, CmdAppend DEF CancelStep, Busy, RunsInv
  <2>5. /\ cmd'[c] = x /\ \A d \in Cancellers \ {c} : cmd'[d] = cmd[d]
        /\ x.target = cmd[c].target
    BY <2>4, CmdMoves DEF Goes, RunsInv
  <2>6. cmd[c].target \in RunIds /\ owner[cmd[c].target] # "none"
    BY <2>4, CmdType DEF RunsInv, Aimed
  <2>7. x.pc = "write" => owner[cmd[c].target] = "dead"
    BY <2>4, <2>6, RunTypes DEF RunsInv, Begun, Live
  <2> QED BY <2>2, <2>3, <2>5, <2>6, <2>7 DEF RunsInv, Aimed
<1>4. CASE \E c \in Cancellers : RequestNoRun(c) \/ \E r \in RunIds, literal \in BOOLEAN : Request(c, r, literal)
  <2>1. PICK c \in Cancellers : RequestNoRun(c) \/ \E r \in RunIds, literal \in BOOLEAN : Request(c, r, literal)
    BY <1>4
  <2>2. UNCHANGED <<owner, phase, draft>>
    BY <2>1 DEF RequestNoRun, Request, runVars, fixVars
  <2>3. PICK x \in Command : /\ cmd' = [cmd EXCEPT ![c] = x]
                             /\ \/ x.pc = "done"
                                \/ x.pc = "load" /\ x.target \in RunIds /\ disk[x.target].status # "none"
    BY <2>1, CmdRequest DEF RunsInv
  <2>4. cmd'[c] = x /\ \A d \in Cancellers \ {c} : cmd'[d] = cmd[d]
    BY <2>3 DEF RunsInv, TypeInv, TypeOK
  <2>5. x.pc = "load" => owner[x.target] # "none"
    BY <2>3, NoStateType DEF RunsInv, Begun
  <2> QED BY <2>2, <2>3, <2>4, <2>5 DEF RunsInv, Aimed, Busy
<1>5. CASE DraftWrite
  BY <1>5 DEF DraftWrite, NoDraft, RunsInv, Aimed, cmdVars
<1>6. CASE \E r \in RunIds : DraftLoad(r)
  <2>1. PICK r \in RunIds : DraftLoad(r)
    BY <1>6
  <2>2. owner[r] # "none"
    BY <2>1, NoStateType DEF RunsInv, Begun, DraftLoad, FinishedIn
  <2> QED BY <2>1, <2>2 DEF DraftLoad, RunsInv, Aimed, runVars, cmdVars
<1>7. CASE UNCHANGED vars
  BY <1>7 DEF RunsInv, Aimed, vars, runVars, cmdVars, fixVars
<1> QED BY <1>1, <1>2, <1>3, <1>4, <1>5, <1>6, <1>7 DEF Next

LEMMA RunsStep ==
  ASSUME RunsInv, [Next]_vars
  PROVE  RunsInv'
<1> SUFFICES ASSUME NEW q \in RunIds PROVE Begun(q)'
  BY TypeStep, AimedStep DEF RunsInv
<1>0. Begun(q)
  BY DEF RunsInv
<1>1. CASE \E r \in RunIds : StartStep(r)
  <2>1. PICK r \in RunIds : StartStep(r)
    BY <1>1
  <2>2. CASE q = r /\ Prepares(r)
    BY <1>0, <2>2, Unborn DEF Prepares, Begun
  <2>3. CASE q = r /\ \E how \in Origin : Begins(r, how)
    BY <2>3, NewBegun DEF Begun
  <2>4. CASE q # r
    <3>1. /\ disk'[q] = disk[q] /\ mem'[q] = mem[q] /\ owner'[q] = owner[q] /\ phase'[q] = phase[q]
          /\ origin'[q] = origin[q] /\ skip'[q] = skip[q] /\ seed'[q] = seed[q]
          /\ released'[q] = released[q] /\ started'[q] = started[q]
      BY <2>1, <2>4, StartsAside
    <3> QED BY <1>0, <3>1 DEF Begun, Blank
  <2> QED BY <2>1, <2>2, <2>3, <2>4, Starts DEF RunsInv
<1>2. CASE \E r \in RunIds : OwnerStep(r) \/ Die(r) \/ ReusePid(r)
  <2>1. PICK r \in RunIds : Grows(r) /\ OnlyRun(r)
    BY <1>2, OwnerGrows
  <2> QED BY <1>0, <2>1 DEF Grows, OnlyRun, Begun, Blank
<1>3. CASE \/ UNCHANGED vars
           \/ \E c \in Cancellers : CancelStep(c)
           \/ \E c \in Cancellers : RequestNoRun(c) \/ \E r \in RunIds, literal \in BOOLEAN : Request(c, r, literal)
           \/ DraftWrite \/ \E r \in RunIds : DraftLoad(r)
  BY <1>0, <1>3, Beside DEF Begun, Blank
<1> QED BY <1>1, <1>2, <1>3 DEF Next

LEMMA RunsHold == Spec => []RunsInv
BY RunsInit, RunsStep, PTL DEF Spec

------------------------------------------------------------------------------
(* What a run may stand on.                                                 *)

StandInv ==
  /\ RunsInv
  /\ \A r \in RunIds : origin[r].way # "from" => skip[r] \subseteq seed[r]
  /\ StandsOnOutputs

LEMMA StandStep ==
  ASSUME StandInv, RunsInv', [Next]_vars
  PROVE  StandInv'
<1> DEFINE Holds(q) == origin[q].way # "from" =>
                         /\ skip[q] \subseteq seed[q]
                         /\ \A t \in started[q] : Deps[t] \subseteq seed[q] \cup released[q]
<1> SUFFICES ASSUME NEW q \in RunIds PROVE Holds(q)'
  BY DEF StandInv, StandsOnOutputs
<1>0. Holds(q) /\ RunsInv
  BY DEF StandInv, StandsOnOutputs
<1>1. CASE \E r \in RunIds : StartStep(r)
  <2>1. PICK r \in RunIds : StartStep(r)
    BY <1>1
  <2>2. CASE q = r /\ Prepares(r)
    BY <1>0, <2>2, Unborn DEF Prepares, Blank
  <2>3. CASE q = r /\ \E how \in Origin : Begins(r, how)
    <3>1. PICK how \in Origin : Begins(r, how)
      BY <2>3
    <3>2. UNCHANGED <<skip, seed>> /\ origin'[r] = how /\ started'[r] = {}
      BY <1>0, <3>1, NewBegun
    <3>3. how.way # "from" => skip[r] \subseteq seed[r]
      BY <1>0, <2>3, <3>1 DEF Begins, RunsInv, Begun, Blank
    <3> QED BY <2>3, <3>2, <3>3
  <2>4. CASE q # r
    <3>1. /\ skip'[q] = skip[q] /\ seed'[q] = seed[q] /\ origin'[q] = origin[q]
          /\ released'[q] = released[q] /\ started'[q] = started[q]
      BY <1>0, <2>1, <2>4, StartsAside
    <3> QED BY <1>0, <3>1
  <2> QED BY <1>0, <2>1, <2>2, <2>3, <2>4, Starts DEF RunsInv
<1>2. CASE \E r \in RunIds : OwnerStep(r) \/ Die(r) \/ ReusePid(r)
  <2>1. PICK r \in RunIds : Grows(r) /\ OnlyRun(r)
    BY <1>0, <1>2, OwnerGrows
  <2>2. UNCHANGED <<origin, skip, seed>>
    BY <2>1 DEF OnlyRun
  <2>3. /\ released[q] \subseteq released'[q]
        /\ \A t \in started'[q] \ started[q] : Deps[t] \subseteq skip[q] \cup released[q]
    BY <2>1 DEF Grows, OnlyRun
  <2> QED BY <1>0, <2>2, <2>3
<1>3. CASE \/ UNCHANGED vars
           \/ \E c \in Cancellers : CancelStep(c)
           \/ \E c \in Cancellers : RequestNoRun(c) \/ \E r \in RunIds, literal \in BOOLEAN : Request(c, r, literal)
           \/ DraftWrite \/ \E r \in RunIds : DraftLoad(r)
  BY <1>0, <1>3, Beside
<1> QED BY <1>1, <1>2, <1>3 DEF Next

(* In every run but the ones of `rerun --from`, a task is started only when *)
(* each of its producers was seeded or released (run_plan's ready queue,    *)
(* src/scheduler/executor.rs, over the skips of src/cli/commands/run.rs).   *)
THEOREM StandsOnItsProducers == Spec => []StandsOnOutputs
<1>1. Init => StandInv
  BY RunsInit DEF Init, StandInv, StandsOnOutputs
<1>2. StandInv /\ RunsInv' /\ [Next]_vars => StandInv'
  BY StandStep
<1>3. StandInv => StandsOnOutputs
  BY DEF StandInv
<1> QED BY <1>1, <1>2, <1>3, RunsHold, PTL DEF Spec

------------------------------------------------------------------------------
(* What resume does again.  A released task is Done on disk, or was when a  *)
(* command wrote an older state; so what the source of a resume had released*)
(* when its state was read is what the resume skips, and no run starts a    *)
(* task it was told to skip.                                                *)

RedoInv ==
  /\ RunsInv
  /\ \A q \in RunIds : released[q] \subseteq FinishedIn(disk[q]) \cup undone[q]
  /\ \A r, q \in RunIds : origin[r] = [way |-> "resume", source |-> q] =>
       seen[r] \subseteq skip[r] \cup undone[q]
  /\ \A r \in RunIds : started[r] \cap skip[r] = {}

LEMMA RedoNewRun ==
  ASSUME RedoInv, NEW r \in RunIds, StartStep(r), RunsInv'
  PROVE  RedoInv'
<1>0. RunsInv /\ TypeInv
  BY DEF RedoInv, RunsInv
<1>1. /\ started[r] = {} /\ released[r] = {}
      /\ \A q \in RunIds \ {r} : /\ disk'[q] = disk[q] /\ skip'[q] = skip[q] /\ seen'[q] = seen[q]
                                 /\ origin'[q] = origin[q]
      /\ released' = released /\ started' = started /\ undone' = undone
  BY <1>0, StartsAside
<1>2. \A q \in RunIds : released'[q] \subseteq FinishedIn(disk'[q]) \cup undone'[q]
  BY <1>1 DEF RedoInv
<1>3. ASSUME NEW q \in RunIds, origin'[r] = [way |-> "resume", source |-> q]
      PROVE  seen'[r] \subseteq skip'[r] \cup undone'[q]
  <2>0. origin'[r].way = "resume" /\ origin'[r].source = q
    BY <1>3
  <2>1. CASE Prepares(r)
    <3>1. skip'[r] = FinishedIn(disk[q]) /\ seen'[r] = released[q]
      BY <2>0, <2>1 DEF Prepares, Blank, Fresh
    <3> QED BY <1>1, <3>1 DEF RedoInv
  <2>2. CASE \E how \in Origin : Begins(r, how)
    <3>1. PICK how \in Origin : Begins(r, how)
      BY <2>2
    <3>2. origin'[r] = how /\ UNCHANGED <<skip, seen>>
      BY <1>0, <3>1, NewBegun DEF fixVars
    <3>3. origin[r].way = "resume" /\ origin[r].source = q
      BY <2>0, <3>1, <3>2 DEF Begins, Fresh
    <3>4. origin[r] = [way |-> "resume", source |-> q]
      BY <1>0, <3>3, RunTypes DEF Origin
    <3> QED BY <1>1, <3>2, <3>4 DEF RedoInv
  <2> QED BY <1>0, <2>1, <2>2, Starts
<1>4. \A p, q \in RunIds : origin'[p] = [way |-> "resume", source |-> q] =>
        seen'[p] \subseteq skip'[p] \cup undone'[q]
  BY <1>1, <1>3 DEF RedoInv
<1>5. \A p \in RunIds : started'[p] \cap skip'[p] = {}
  BY <1>1 DEF RedoInv
<1> QED BY <1>2, <1>4, <1>5 DEF RedoInv

LEMMA RedoOwner ==
  ASSUME RedoInv, NEW r \in RunIds, OwnerStep(r) \/ Die(r) \/ ReusePid(r), RunsInv'
  PROVE  RedoInv'
<1>0. RunsInv /\ TypeInv
  BY DEF RedoInv, RunsInv
<1>1. Grows(r) /\ OnlyRun(r)
  BY <1>0, OwnerGrows
<1>2. UNCHANGED <<origin, skip, undone, seen>>
  BY <1>1 DEF OnlyRun, fixVars
<1>3. ASSUME NEW q \in RunIds
      PROVE  released'[q] \subseteq FinishedIn(disk'[q]) \cup undone'[q]
  <2>1. CASE q # r
    BY <1>1, <1>2, <2>1 DEF OnlyRun, RedoInv
  <2>2. CASE q = r
    <3>1. CASE owner'[r] = "dead" /\ disk'[r] = disk[r] /\ released'[r] = released[r]
      BY <1>2, <2>2, <3>1 DEF RedoInv
    <3>2. CASE disk'[r] = mem'[r]
      BY <1>1, <2>2, <3>2 DEF Grows, Begun
    <3> QED BY <1>1, <3>1, <3>2 DEF Grows
  <2> QED BY <2>1, <2>2
<1>4. \A p, q \in RunIds : origin'[p] = [way |-> "resume", source |-> q] =>
        seen'[p] \subseteq skip'[p] \cup undone'[q]
  BY <1>2 DEF RedoInv
<1>5. ASSUME NEW q \in RunIds
      PROVE  started'[q] \cap skip'[q] = {}
  <2>1. \A t \in started'[q] \ started[q] : phase[q] = "work" /\ mem[q].tasks[t] = "Pending"
    BY <1>1 DEF Grows, OnlyRun
  <2>2. phase[q] = "work" => \A t \in skip[q] : mem[q].tasks[t] = "Skipped"
    BY <1>0 DEF RunsInv, Begun
  <2>3. started[q] \cap skip[q] = {} /\ skip'[q] = skip[q]
    BY <1>2 DEF RedoInv
  <2>4. ASSUME NEW t \in started'[q] \cap skip'[q]
        PROVE  FALSE
    <3>1. t \in started'[q] \ started[q]
      BY <2>3, <2>4
    <3> QED BY <2>1, <2>2, <2>3, <2>4, <3>1
  <2> QED BY <2>4
<1> QED BY <1>3, <1>4, <1>5 DEF RedoInv

LEMMA RedoBeside ==
  ASSUME RedoInv, RunsInv',
         \/ UNCHANGED vars
         \/ \E c \in Cancellers : CancelStep(c)
         \/ \E c \in Cancellers : RequestNoRun(c) \/ \E r \in RunIds, literal \in BOOLEAN : Request(c, r, literal)
         \/ DraftWrite \/ \E r \in RunIds : DraftLoad(r)
  PROVE  RedoInv'
<1>1. RunsInv
  BY DEF RedoInv
<1>2. UNCHANGED <<origin, skip, released, started, seen>>
  <2>1. seen' = seen
    BY Zenon DEF vars, fixVars, CancelStep, Load, Probe, Overwrite, ReadLedger, AppendFinding, RequestNoRun,
           Request, DraftWrite, DraftLoad
  <2> QED BY <1>1, <2>1, Beside, Zenon
<1>3. \A q \in RunIds : /\ undone[q] \subseteq undone'[q]
                        /\ FinishedIn(disk[q]) \subseteq FinishedIn(disk'[q]) \cup undone'[q]
  BY <1>1, Beside
<1>4. \A q \in RunIds : released'[q] \subseteq FinishedIn(disk'[q]) \cup undone'[q]
  BY <1>2, <1>3 DEF RedoInv
<1>5. ASSUME NEW p \in RunIds, NEW q \in RunIds, origin'[p] = [way |-> "resume", source |-> q]
      PROVE  seen'[p] \subseteq skip'[p] \cup undone'[q]
  <2>1. seen[p] \subseteq skip[p] \cup undone[q]
    BY <1>2, <1>5 DEF RedoInv
  <2> QED BY <1>2, <1>3, <2>1
<1> QED BY <1>2, <1>4, <1>5 DEF RedoInv

(* Resume starts nothing that the run it resumes had released when its      *)
(* command read the state, however far the owner gets before the command    *)
(* finds it dead, unless a forced cancel or `pr draft` has written an older *)
(* state over the one that named it (run_resume, src/cli/commands/run.rs).  *)
THEOREM ResumeKeepsReleased == Spec => []ReleasedIsNotRedone
<1>1. Init => RedoInv
  BY RunsInit DEF Init, RedoInv
<1>2. RedoInv /\ RunsInv' /\ [Next]_vars => RedoInv'
  BY RedoNewRun, RedoOwner, RedoBeside DEF Next
<1>3. RedoInv => ReleasedIsNotRedone
  BY DEF RedoInv, ReleasedIsNotRedone
<1> QED BY <1>1, <1>2, <1>3, RunsHold, PTL DEF Spec

------------------------------------------------------------------------------
(* The file of a run at work.                                               *)

AgreeInv ==
  /\ RunsInv
  /\ \A r \in RunIds \ drafted : owner[r] = "live" /\ phase[r] \in {"setup", "work"} =>
       disk[r] = mem[r]

LEMMA AgreeStep ==
  ASSUME AgreeInv, RunsInv', [Next]_vars
  PROVE  AgreeInv'
<1> SUFFICES ASSUME NEW q \in RunIds, q \notin drafted', owner'[q] = "live",
                    phase'[q] \in {"setup", "work"}
             PROVE  disk'[q] = mem'[q]
  BY DEF AgreeInv
<1>0. RunsInv /\ TypeInv
  BY DEF AgreeInv, RunsInv
<1>1. CASE \E r \in RunIds : StartStep(r)
  <2>1. PICK r \in RunIds : StartStep(r)
    BY <1>1
  <2>2. /\ drafted' = drafted
        /\ q # r => /\ disk'[q] = disk[q] /\ mem'[q] = mem[q] /\ owner'[q] = owner[q]
                    /\ phase'[q] = phase[q]
    BY <1>0, <2>1, StartsAside
  <2>3. q = r => disk'[q] = mem'[q]
    BY <1>0, <2>1, Starts, Unborn, NewBegun
  <2> QED BY <2>2, <2>3 DEF AgreeInv
<1>2. CASE \E r \in RunIds : OwnerStep(r) \/ Die(r) \/ ReusePid(r)
  <2>1. PICK r \in RunIds : Grows(r) /\ OnlyRun(r)
    BY <1>0, <1>2, OwnerGrows
  <2>2. drafted' = drafted
    BY <2>1 DEF OnlyRun, fixVars
  <2>3. CASE q = r
    BY <2>1, <2>3 DEF Grows
  <2>4. CASE q # r
    <3>1. disk'[q] = disk[q] /\ mem'[q] = mem[q] /\ owner'[q] = owner[q] /\ phase'[q] = phase[q]
      BY <2>1, <2>4 DEF OnlyRun
    <3> QED BY <2>2, <3>1 DEF AgreeInv
  <2> QED BY <2>3, <2>4
<1>3. CASE \/ UNCHANGED vars
           \/ \E c \in Cancellers : CancelStep(c)
           \/ \E c \in Cancellers : RequestNoRun(c) \/ \E r \in RunIds, literal \in BOOLEAN : Request(c, r, literal)
           \/ DraftWrite \/ \E r \in RunIds : DraftLoad(r)
  <2>1. UNCHANGED <<owner, phase, mem>>
    BY <1>0, <1>3, Beside
  <2>2. disk'[q] = disk[q] /\ drafted \subseteq drafted'
    <3>1. CASE \E c \in Cancellers : Overwrite(c)
      <4>1. PICK c \in Cancellers : Overwrite(c)
        BY <3>1
      <4>2. owner[cmd[c].target] = "dead"
        BY <1>0, <4>1 DEF RunsInv, Aimed, Overwrite
      <4> QED BY <1>0, <2>1, <4>1, <4>2, CmdOverwrite
    <3>2. CASE DraftWrite
      BY <1>0, <3>2, DraftFacts
    <3>3. CASE \/ UNCHANGED vars
               \/ \E c \in Cancellers : Load(c) \/ Probe(c) \/ ReadLedger(c) \/ AppendFinding(c)
               \/ \E c \in Cancellers : RequestNoRun(c) \/ \E r \in RunIds, literal \in BOOLEAN : Request(c, r, literal)
               \/ \E r \in RunIds : DraftLoad(r)
      <4>1. disk' = disk /\ drafted' = drafted
        BY <3>3, Zenon DEF vars, Load, Probe, ReadLedger, AppendFinding, RequestNoRun, Request, DraftLoad,
                    runVars, fixVars
      <4> QED BY <4>1, Zenon
    <3> QED BY <1>3, <3>1, <3>2, <3>3 DEF CancelStep
  <2> QED BY <2>1, <2>2 DEF AgreeInv
<1> QED BY <1>1, <1>2, <1>3 DEF Next

(* While a run is at work its file reads Running and names each task it     *)
(* started as Running or Done: only `pr draft` writes over the state of a   *)
(* live owner (force_cancel_if_abandoned, src/scheduler/liveness.rs).       *)
THEOREM FileFollowsOwner == Spec => []OwnerAgreesWithDisk
<1>1. Init => AgreeInv
  BY RunsInit DEF Init, AgreeInv
<1>2. AgreeInv /\ RunsInv' /\ [Next]_vars => AgreeInv'
  BY AgreeStep
<1>3. AgreeInv => OwnerAgreesWithDisk
  <2> SUFFICES ASSUME AgreeInv, NEW r \in RunIds \ drafted, Working(r)
               PROVE  /\ disk[r].status = "Running"
                      /\ \A t \in started[r] : disk[r].tasks[t] \in {"Running", "Done"}
                      /\ released[r] \subseteq FinishedIn(disk[r])
    BY DEF OwnerAgreesWithDisk
  <2>1. disk[r] = mem[r] /\ phase[r] = "work" /\ Begun(r)
    BY DEF AgreeInv, RunsInv, Working
  <2> QED BY <2>1 DEF Begun
<1> QED BY <1>1, <1>2, <1>3, RunsHold, PTL DEF Spec

------------------------------------------------------------------------------
(* Whom a cancel request stops.                                             *)

LEMMA Asked ==
  ASSUME TypeInv, [Next]_vars
  PROVE  /\ \A c \in Cancellers : /\ cmd[c].target # NoRun => cmd'[c].target = cmd[c].target
                                  /\ cmd[c].marker # NoRun => cmd'[c].marker = cmd[c].marker
         /\ \A m \in markers' \ markers : \E c \in Cancellers :
              \/ cmd'[c].marker = Current /\ m = Current
              \/ cmd'[c].target = m /\ m \in RunIds
<1>1. CASE \E c \in Cancellers : CancelStep(c)
  <2>1. PICK c \in Cancellers : CancelStep(c)
    BY <1>1
  <2>2. PICK x \in Command : Goes(c, x) /\ cmd[c].pc \in Busy /\ x.pc # "idle" /\ markers' = markers
    BY <2>1, CmdLoad, CmdProbe, CmdOverwrite, CmdReadLedger, CmdAppend DEF CancelStep, Busy
  <2> QED BY <2>2, CmdMoves DEF Goes
<1>2. CASE \E c \in Cancellers : RequestNoRun(c) \/ \E r \in RunIds, literal \in BOOLEAN : Request(c, r, literal)
  <2>1. PICK c \in Cancellers : RequestNoRun(c) \/ \E r \in RunIds, literal \in BOOLEAN : Request(c, r, literal)
    BY <1>2
  <2>2. PICK x \in Command, m \in RunIds \cup {Current} :
          /\ cmd[c] = Idle /\ cmd' = [cmd EXCEPT ![c] = x] /\ markers' = markers \cup {m}
          /\ x.marker = m
          /\ \/ m = Current
             \/ x.target \in RunIds /\ m = x.target
    BY <2>1, CmdRequest
  <2>3. cmd'[c] = x /\ \A d \in Cancellers \ {c} : cmd'[d] = cmd[d]
    BY <2>2 DEF TypeInv, TypeOK
  <2> QED BY <2>2, <2>3, IdleType
<1>3. CASE \E r \in RunIds : StartStep(r)
  <2>1. cmd' = cmd /\ markers' = markers
    BY <1>3, Starts DEF Prepares, Begins, NewRun, cmdVars
  <2> QED BY <2>1
<1>4. CASE \E r \in RunIds : OwnerStep(r) \/ Die(r) \/ ReusePid(r)
  <2>1. cmd' = cmd /\ markers' \subseteq markers
    BY <1>4, OnlySteps DEF OnlyRun
  <2> QED BY <2>1
<1>5. CASE UNCHANGED vars \/ DraftWrite \/ \E r \in RunIds : DraftLoad(r)
  <2>1. UNCHANGED cmdVars
    BY <1>5 DEF vars, DraftWrite, DraftLoad
  <2> QED BY <2>1 DEF cmdVars
<1> QED BY <1>1, <1>2, <1>3, <1>4, <1>5 DEF Next

LEMMA Braked ==
  ASSUME RunsInv, [Next]_vars, NEW r \in RunIds, phase'[r] = "braked"
  PROVE  phase[r] = "braked" \/ TakesMarker(r) \in markers
<1>0. TypeInv
  BY DEF RunsInv
<1>1. CASE \E q \in RunIds : StartStep(q)
  <2>1. PICK q \in RunIds : StartStep(q)
    BY <1>1
  <2>2. phase'[q] # "braked" /\ \A p \in RunIds \ {q} : phase'[p] = phase[p]
    BY <2>1, StartsAside
  <2> QED BY <2>2
<1>2. CASE \E q \in RunIds : OwnerStep(q) \/ Die(q) \/ ReusePid(q)
  <2>1. PICK q \in RunIds : OwnerStep(q) \/ Die(q) \/ ReusePid(q)
    BY <1>2
  <2>2. CASE q # r
    BY <1>0, <2>1, <2>2, OnlySteps DEF OnlyRun
  <2>3. CASE Complete(r) \/ Brake(r) \/ \E t \in Tasks : Fail(r, t)
    BY <1>0, <2>3, OnlyEnds
  <2>4. CASE \/ SetUp(r) \/ SeedRefused(r) \/ Die(r) \/ ReusePid(r)
             \/ \E t \in Tasks : Start(r, t) \/ Finish(r, t) \/ Release(r, t)
    <3>1. phase'[r] \in {"work", "ended", phase[r]}
      BY <1>0, <2>4, OnlySetUp, OnlySeedRefused, OnlyDies DEF Start, Finish, Release
    <3> QED BY <3>1
  <2> QED BY <2>1, <2>2, <2>3, <2>4 DEF OwnerStep
<1>3. CASE \/ UNCHANGED vars
           \/ \E c \in Cancellers : CancelStep(c)
           \/ \E c \in Cancellers : RequestNoRun(c) \/ \E q \in RunIds, literal \in BOOLEAN : Request(c, q, literal)
           \/ DraftWrite \/ \E q \in RunIds : DraftLoad(q)
  BY <1>3, Beside
<1> QED BY <1>1, <1>2, <1>3 DEF Next

(* A marker that is there was asked for, and so was one that was taken.     *)
NamedInv ==
  /\ TypeInv
  /\ Current \in markers => \E c \in Cancellers : cmd[c].marker = Current
  /\ \A r \in RunIds : r \in markers => \E c \in Cancellers : cmd[c].target = r
  /\ NamedCancelHitsItsTarget

LEMMA NamedStep ==
  ASSUME NamedInv, RunsInv, RunsInv', [Next]_vars
  PROVE  NamedInv'
<1>0. TypeInv /\ TypeInv'
  BY DEF RunsInv
<1>1. \A c \in Cancellers, m \in RunIds \cup {Current} :
        /\ cmd[c].target = m => cmd'[c].target = m
        /\ cmd[c].marker = m => cmd'[c].marker = m
  BY <1>0, Asked, RunIdFacts
<1>2. Current \in markers' => \E c \in Cancellers : cmd'[c].marker = Current
  BY <1>0, <1>1, Asked, RunIdFacts DEF NamedInv
<1>3. \A r \in RunIds : r \in markers' => \E c \in Cancellers : cmd'[c].target = r
  BY <1>0, <1>1, Asked, RunIdFacts DEF NamedInv
<1>4. ASSUME NEW r \in RunIds, phase'[r] = "braked"
      PROVE  \E c \in Cancellers : cmd'[c].target = r \/ cmd'[c].marker = Current
  <2>1. \E c \in Cancellers : cmd[c].target = r \/ cmd[c].marker = Current
    BY <1>4, Braked DEF NamedInv, NamedCancelHitsItsTarget, TakesMarker
  <2> QED BY <1>1, <2>1
<1> QED BY <1>0, <1>2, <1>3, <1>4 DEF NamedInv, NamedCancelHitsItsTarget

(* A run stops on a cancel request only if a command named it or wrote the  *)
(* marker called "current" (check_cancelled, src/scheduler/executor.rs).    *)
THEOREM CancelHitsItsTarget == Spec => []NamedCancelHitsItsTarget
<1>1. Init => NamedInv
  BY TypeInit DEF Init, NamedInv, NamedCancelHitsItsTarget
<1>2. NamedInv /\ RunsInv /\ RunsInv' /\ [Next]_vars => NamedInv'
  BY NamedStep
<1>3. NamedInv => NamedCancelHitsItsTarget
  BY DEF NamedInv
<1> QED BY <1>1, <1>2, <1>3, RunsHold, PTL DEF Spec

------------------------------------------------------------------------------
(* Doctor findings.  Until a forced cancel writes, none is there; the one   *)
(* that writes was the only one at work, and leaves a state that no later   *)
(* command takes for a run at work; when it has told, no other is coming.   *)

AtIt       == {"probe", "write", "ledger", "append"}
Sealed(r)  == owner[r] = "dead" /\ disk[r].status # "Running"
Untold(r)  == doctor[r] = <<>> /\ \A c \in Forcing(r) : cmd[c].pc \in {"probe", "write"}
Telling(r) == /\ doctor[r] = <<>> /\ Sealed(r)
              /\ \E c \in Cancellers : /\ Forcing(r) = {c} /\ cmd[c].last = 0
                                       /\ cmd[c].pc \in {"ledger", "append"}
Told(r)    == doctor[r] = <<1>> /\ Sealed(r) /\ Forcing(r) = {}
Counted(r) == Untold(r) \/ Telling(r) \/ Told(r)

FindingsInv == RunsInv /\ \A r \in RunIds \ (crowded \cup drafted) : Counted(r)

LEMMA StaysCounted ==
  ASSUME NEW r, Counted(r), doctor'[r] = doctor[r], Sealed(r) => Sealed(r)', Forcing(r)' = Forcing(r),
         \A c \in Forcing(r) : cmd'[c] = cmd[c]
  PROVE  Counted(r)'
<1>1. CASE Untold(r)
  BY <1>1 DEF Counted, Untold
<1>2. CASE Telling(r)
  <2>1. PICK c \in Cancellers : /\ Forcing(r) = {c} /\ cmd[c].last = 0
                                /\ cmd[c].pc \in {"ledger", "append"}
    BY <1>2 DEF Telling
  <2> QED BY <1>2, <2>1 DEF Counted, Telling
<1>3. CASE Told(r)
  BY <1>3 DEF Counted, Told
<1> QED BY <1>1, <1>2, <1>3 DEF Counted

LEMMA ForcingMoves ==
  ASSUME TypeInv, NEW c \in Cancellers, NEW x \in Command, Goes(c, x), cmd[c].pc \in Busy, x.pc # "idle",
         NEW t, t = cmd[c].target
  PROVE  /\ cmd'[c] = x /\ \A d \in Cancellers \ {c} : cmd'[d] = cmd[d]
         /\ \A q : t # q => Forcing(q)' = Forcing(q) /\ c \notin Forcing(q)
         /\ cmd[c].pc \in AtIt /\ x.pc \in AtIt => Forcing(t)' = Forcing(t)
         /\ x.pc \notin AtIt => Forcing(t)' = Forcing(t) \ {c}
         /\ cmd[c].pc \in AtIt => c \in Forcing(t)
         /\ cmd[c].pc \notin AtIt => c \notin Forcing(t)
         /\ x.pc \in AtIt => c \in Forcing(t)'
<1>1. /\ cmd'[c] = x /\ \A d \in Cancellers \ {c} : cmd'[d] = cmd[d]
      /\ x.target = cmd[c].target
  BY CmdMoves DEF Goes
<1> QED BY <1>1 DEF Forcing, AtIt

(* A step beside the target of a command.                                   *)
LEMMA CountedElsewhere ==
  ASSUME FindingsInv, NEW c \in Cancellers, NEW x \in Command, Goes(c, x), cmd[c].pc \in Busy,
         x.pc # "idle", NEW q \in RunIds \ (crowded \cup drafted), q # cmd[c].target,
         doctor'[q] = doctor[q], disk'[q] = disk[q], owner' = owner
  PROVE  Counted(q)'
<1>1. TypeInv /\ Counted(q)
  BY DEF FindingsInv, RunsInv
<1>2. /\ Forcing(q)' = Forcing(q) /\ c \notin Forcing(q)
      /\ \A d \in Cancellers \ {c} : cmd'[d] = cmd[d]
  BY <1>1, ForcingMoves
<1>3. \A d \in Forcing(q) : cmd'[d] = cmd[d]
  BY <1>2 DEF Forcing
<1>4. Sealed(q) => Sealed(q)'
  BY DEF Sealed
<1> QED BY <1>1, <1>2, <1>3, <1>4, StaysCounted

LEMMA CountedLoad ==
  ASSUME FindingsInv, NEW c \in Cancellers, Load(c) \/ Probe(c), NEW q \in RunIds \ (crowded \cup drafted)
  PROVE  Counted(q)'
<1>0. TypeInv /\ Counted(q)
  BY DEF FindingsInv, RunsInv
<1>1. PICK x \in Command :
        /\ Goes(c, x) /\ UNCHANGED <<runVars, doctor>>
        /\ \/ cmd[c].pc = "load" /\ x.pc = "probe" /\ disk[cmd[c].target].status = "Running"
           \/ cmd[c].pc = "load" /\ x.pc = "done"
           \/ cmd[c].pc = "probe" /\ x.pc \in {"write", "done"}
  BY <1>0, CmdLoad, CmdProbe
<1>2. cmd[c].pc \in Busy /\ x.pc # "idle" /\ UNCHANGED <<disk, owner>>
  BY <1>1 DEF Busy, runVars
<1>3. CASE q # cmd[c].target
  BY <1>1, <1>2, <1>3, CountedElsewhere
<1>4. CASE q = cmd[c].target
  <2>1. /\ cmd'[c] = x /\ \A d \in Cancellers \ {c} : cmd'[d] = cmd[d]
        /\ x.pc = "done" => Forcing(q)' = Forcing(q) \ {c}
        /\ cmd[c].pc = "probe" /\ x.pc = "write" => Forcing(q)' = Forcing(q)
        /\ cmd[c].pc = "probe" => c \in Forcing(q)
        /\ cmd[c].pc = "load" => c \notin Forcing(q)
    BY <1>0, <1>1, <1>2, <1>4, ForcingMoves DEF AtIt
  <2>2. CASE Untold(q)
    <3>1. \A d \in Forcing(q)' : d = c \/ d \in Forcing(q) \ {c}
      BY <2>1 DEF Forcing
    <3>2. \A d \in Forcing(q)' : cmd'[d].pc \in {"probe", "write"}
      <4>1. c \in Forcing(q)' => x.pc \in {"probe", "write"}
        BY <1>1, <2>1
      <4>2. \A d \in Forcing(q) \ {c} : cmd'[d] = cmd[d]
        BY <2>1 DEF Forcing
      <4> QED BY <2>1, <2>2, <3>1, <4>1, <4>2 DEF Untold
    <3> QED BY <1>1, <2>2, <3>2 DEF Untold, Counted
  <2>3. CASE Telling(q) \/ Told(q)
    <3>1. Sealed(q) /\ (cmd[c].pc = "probe" => c \notin Forcing(q))
      BY <2>3 DEF Telling, Told
    <3>2. cmd[c].pc = "load" /\ x.pc = "done"
      BY <1>1, <1>4, <2>1, <3>1 DEF Sealed
    <3>3. Forcing(q)' = Forcing(q) /\ \A d \in Forcing(q) : cmd'[d] = cmd[d]
      BY <2>1, <3>2 DEF Forcing
    <3>4. Sealed(q)'
      BY <1>2, <3>1 DEF Sealed
    <3> QED BY <1>0, <1>1, <3>3, <3>4, StaysCounted
  <2> QED BY <1>0, <2>2, <2>3 DEF Counted
<1> QED BY <1>3, <1>4

LEMMA CountedOverwrite ==
  ASSUME FindingsInv, NEW c \in Cancellers, Overwrite(c), NEW q \in RunIds \ (crowded' \cup drafted')
  PROVE  Counted(q)'
<1>0. TypeInv /\ RunsInv
  BY DEF FindingsInv, RunsInv
<1>1. PICK x \in Command :
        /\ Goes(c, x) /\ cmd[c].pc = "write" /\ x.pc = "ledger" /\ x.last = 0
        /\ disk'[cmd[c].target].status = "Cancelled"
        /\ \A p \in RunIds \ {cmd[c].target} : disk'[p] = disk[p]
        /\ UNCHANGED <<owner, doctor, drafted>>
  BY <1>0, CmdOverwrite
<1>2. cmd[c].pc \in Busy /\ crowded \subseteq crowded'
  BY <1>1 DEF Busy, Overwrite
<1>3. q \notin crowded \cup drafted /\ Counted(q)
  BY <1>1, <1>2 DEF FindingsInv
<1>4. CASE q # cmd[c].target
  BY <1>1, <1>2, <1>3, <1>4, CountedElsewhere
<1>5. CASE q = cmd[c].target
  <2>1. /\ cmd'[c] = x /\ Forcing(q)' = Forcing(q) /\ c \in Forcing(q)
    BY <1>0, <1>1, <1>2, <1>5, ForcingMoves DEF AtIt
  <2>2. doctor[q] = <<>>
    <3>1. ~Telling(q) /\ ~Told(q)
      BY <1>1, <2>1 DEF Telling, Told
    <3> QED BY <1>3, <3>1 DEF Counted, Untold
  <2>3. Forcing(q) = {c}
    <3>1. ~(Cardinality(Forcing(q)) > 1)
      BY <1>5, <1>3 DEF Overwrite
    <3>2. IsFiniteSet(Forcing(q))
      BY CancellersAssumption, FS_Subset DEF Forcing
    <3>3. ASSUME NEW d \in Forcing(q), d # c
          PROVE  FALSE
      <4>1. Cardinality({c, d}) = 2 /\ IsFiniteSet({c, d})
        <5>1. IsFiniteSet({c}) /\ Cardinality({c}) = 1
          BY FS_Singleton
        <5>2. IsFiniteSet({c} \cup {d}) /\ Cardinality({c} \cup {d}) = 1 + 1
          BY <3>3, <5>1, FS_AddElement
        <5> QED BY <5>2
      <4>2. Cardinality({c, d}) <= Cardinality(Forcing(q))
        BY <2>1, <3>2, <3>3, FS_Subset
      <4>3. Cardinality(Forcing(q)) \in Nat
        BY <3>2, FS_CardinalityType
      <4> QED BY <3>1, <4>1, <4>2, <4>3
    <3> QED BY <2>1, <3>3
  <2>4. Sealed(q)'
    BY <1>0, <1>1, <1>5 DEF Sealed, RunsInv, Aimed
  <2> QED BY <1>1, <2>1, <2>2, <2>3, <2>4 DEF Telling, Counted
<1> QED BY <1>4, <1>5

LEMMA CountedTell ==
  ASSUME FindingsInv, NEW c \in Cancellers, ReadLedger(c) \/ AppendFinding(c),
         NEW q \in RunIds \ (crowded \cup drafted)
  PROVE  Counted(q)'
<1>0. TypeInv /\ Counted(q)
  BY DEF FindingsInv, RunsInv
<1>1. PICK x \in Command :
        /\ Goes(c, x) /\ UNCHANGED runVars
        /\ \A p \in RunIds \ {cmd[c].target} : doctor'[p] = doctor[p]
        /\ \/ /\ cmd[c].pc = "ledger" /\ x.pc = "append" /\ doctor' = doctor
              /\ doctor[cmd[c].target] = <<>> => x.last = 0
           \/ /\ cmd[c].pc = "append" /\ x.pc = "done"
              /\ doctor'[cmd[c].target] = Append(doctor[cmd[c].target], cmd[c].last + 1)
  BY <1>0, CmdReadLedger, CmdAppend
<1>2. cmd[c].pc \in Busy /\ x.pc # "idle" /\ UNCHANGED <<disk, owner>>
  BY <1>1 DEF Busy, runVars
<1>3. CASE q # cmd[c].target
  BY <1>1, <1>2, <1>3, CountedElsewhere
<1>4. CASE q = cmd[c].target
  <2>1. /\ cmd'[c] = x /\ c \in Forcing(q)
        /\ x.pc = "append" => Forcing(q)' = Forcing(q)
        /\ x.pc = "done" => Forcing(q)' = Forcing(q) \ {c}
    BY <1>0, <1>1, <1>2, <1>4, ForcingMoves DEF AtIt
  <2>2. Telling(q)
    BY <1>0, <1>1, <2>1 DEF Counted, Untold, Told
  <2>3. Forcing(q) = {c} /\ cmd[c].last = 0 /\ doctor[q] = <<>> /\ Sealed(q)
    BY <2>1, <2>2 DEF Telling
  <2>4. Sealed(q)'
    BY <1>2, <2>3 DEF Sealed
  <2>5. CASE x.pc = "append"
    BY <1>1, <1>4, <2>1, <2>3, <2>4, <2>5 DEF Telling, Counted
  <2>6. CASE x.pc = "done"
    <3>1. doctor'[q] = Append(<<>>, 0 + 1)
      BY <1>1, <1>4, <2>3, <2>6
    <3>2. doctor'[q] = <<1>>
      BY <3>1
    <3> QED BY <2>1, <2>3, <2>4, <2>6, <3>2 DEF Told, Counted
  <2> QED BY <1>1, <2>5, <2>6
<1> QED BY <1>3, <1>4

LEMMA CountedBeside ==
  ASSUME FindingsInv, NEW q \in RunIds \ (crowded' \cup drafted'),
         \/ UNCHANGED vars
         \/ \E r \in RunIds : StartStep(r) \/ OwnerStep(r) \/ Die(r) \/ ReusePid(r)
         \/ \E c \in Cancellers : RequestNoRun(c) \/ \E r \in RunIds, literal \in BOOLEAN : Request(c, r, literal)
         \/ DraftWrite \/ \E r \in RunIds : DraftLoad(r)
  PROVE  Counted(q)'
<1>0. TypeInv /\ RunsInv
  BY DEF FindingsInv, RunsInv
<1>1. CASE \E r \in RunIds : StartStep(r)
  <2>1. PICK r \in RunIds : StartStep(r)
    BY <1>1
  <2>2. /\ owner[r] = "none" /\ UNCHANGED <<cmd, doctor, crowded, drafted>>
        /\ q # r => disk'[q] = disk[q] /\ owner'[q] = owner[q]
    BY <1>0, <2>1, StartsAside
  <2>3. Counted(q) /\ Forcing(q)' = Forcing(q)
    BY <2>2 DEF FindingsInv, Forcing
  <2>4. Sealed(q) => Sealed(q)'
    BY <2>2 DEF Sealed
  <2> QED BY <2>2, <2>3, <2>4, StaysCounted
<1>2. CASE \E r \in RunIds : OwnerStep(r) \/ Die(r) \/ ReusePid(r)
  <2>1. PICK r \in RunIds : Grows(r) /\ OnlyRun(r)
    BY <1>0, <1>2, OwnerGrows
  <2>2. UNCHANGED <<cmd, doctor, crowded, drafted>>
    BY <2>1 DEF OnlyRun, fixVars
  <2>3. Counted(q) /\ Forcing(q)' = Forcing(q)
    BY <2>2 DEF FindingsInv, Forcing
  <2>4. Sealed(q) => Sealed(q)'
    BY <2>1 DEF Sealed, Grows, OnlyRun
  <2> QED BY <2>2, <2>3, <2>4, StaysCounted
<1>3. CASE \E c \in Cancellers : RequestNoRun(c) \/ \E r \in RunIds, literal \in BOOLEAN : Request(c, r, literal)
  <2>1. PICK c \in Cancellers : RequestNoRun(c) \/ \E r \in RunIds, literal \in BOOLEAN : Request(c, r, literal)
    BY <1>3
  <2>2. PICK x \in Command : /\ cmd[c] = Idle /\ cmd' = [cmd EXCEPT ![c] = x]
                             /\ x.pc \in {"done", "load"} /\ UNCHANGED <<runVars, doctor, fixVars>>
    BY <1>0, <2>1, CmdRequest
  <2>3. cmd'[c] = x /\ \A d \in Cancellers \ {c} : cmd'[d] = cmd[d]
    BY <1>0, <2>2 DEF TypeInv, TypeOK
  <2>4. /\ Forcing(q)' = Forcing(q)
        /\ \A d \in Forcing(q) : cmd'[d] = cmd[d]
    BY <2>2, <2>3, IdleType DEF Forcing
  <2>5. Counted(q) /\ UNCHANGED <<disk, owner, doctor>>
    BY <2>2 DEF FindingsInv, runVars, fixVars
  <2>6. Sealed(q) => Sealed(q)'
    BY <2>5 DEF Sealed
  <2> QED BY <2>4, <2>5, <2>6, StaysCounted
<1>4. CASE UNCHANGED vars \/ DraftWrite \/ \E r \in RunIds : DraftLoad(r)
  <2>1. /\ UNCHANGED <<cmd, doctor, owner, crowded>> /\ drafted \subseteq drafted'
        /\ disk'[q] = disk[q]
    <3>1. CASE DraftWrite
      BY <1>0, <3>1, DraftFacts DEF cmdVars
    <3>2. CASE UNCHANGED vars \/ \E r \in RunIds : DraftLoad(r)
      <4>1. UNCHANGED <<cmd, doctor, owner, crowded, drafted, disk>>
        BY <3>2 DEF DraftLoad, vars, runVars, cmdVars, fixVars
      <4> QED BY <4>1
    <3> QED BY <1>4, <3>1, <3>2
  <2>2. Counted(q) /\ Forcing(q)' = Forcing(q)
    BY <2>1 DEF FindingsInv, Forcing
  <2>3. Sealed(q) => Sealed(q)'
    BY <2>1 DEF Sealed
  <2> QED BY <2>1, <2>2, <2>3, StaysCounted
<1> QED BY <1>1, <1>2, <1>3, <1>4

(* A dead run has at most one doctor finding, numbered one, unless two      *)
(* cancel commands forced it at once or `pr draft` wrote it back            *)
(* (force_cancel_if_abandoned, src/scheduler/liveness.rs).                  *)
THEOREM DoctorSpeaksOnce == Spec => []OneDoctorFinding
<1>1. Init => FindingsInv
  <2>1. Init => \A r \in RunIds : Counted(r)
    BY DEF Init, Counted, Untold, Forcing, Idle
  <2> QED BY <2>1, RunsInit DEF FindingsInv
<1>2. FindingsInv /\ RunsInv' /\ [Next]_vars => FindingsInv'
  <2> SUFFICES ASSUME FindingsInv, [Next]_vars, NEW q \in RunIds \ (crowded' \cup drafted')
               PROVE  Counted(q)'
    BY DEF FindingsInv
  <2>1. CASE \E c \in Cancellers : Overwrite(c)
    BY <2>1, CountedOverwrite
  <2>2. CASE \E c \in Cancellers : Load(c) \/ Probe(c) \/ ReadLedger(c) \/ AppendFinding(c)
    <3>1. crowded' = crowded /\ drafted' = drafted
      BY <2>2 DEF Load, Probe, ReadLedger, AppendFinding, fixVars
    <3> QED BY <2>2, <3>1, CountedLoad, CountedTell
  <2>3. CASE ~\E c \in Cancellers : CancelStep(c)
    BY <2>3, CountedBeside DEF Next
  <2> QED BY <2>1, <2>2, <2>3 DEF CancelStep
<1>3. FindingsInv => OneDoctorFinding
  BY DEF FindingsInv, Counted, Untold, Telling, Told, OneDoctorFinding
<1> QED BY <1>1, <1>2, <1>3, RunsHold, PTL DEF Spec

------------------------------------------------------------------------------
(* What a run that ends Done has.  The states of a fresh run that a recovery*)
(* may reuse, on disk, in memory or in the hands of a command, are closed   *)
(* under producers, so what its first recovery skips is closed too, and the *)
(* walk of run_plan then reaches every task.                                *)

Acyclic   == \A S \in SUBSET Tasks : S # {} => \E t \in S : Deps[t] \cap S = {}
Closed(X) == \A t \in X : Deps[t] \subseteq X

Sound(q, state) ==
  /\ origin[q].way = "run" => Closed(FinishedIn(state))
  /\ Acyclic /\ FirstRecovery(q) /\ state.status = "Done" => seed[q] \cup released[q] = Tasks

Sourced(q) ==
  /\ origin[q].way = "run" => origin[q].source = NoRun /\ skip[q] = {}
  /\ origin[q].way \in {"resume", "forced"} =>
       origin[q].source \in RunIds /\ owner[origin[q].source] # "none"
  /\ origin[q].way # "from" => skip[q] \subseteq seed[q]
  /\ FirstRecovery(q) => Closed(skip[q])
Behind(q) ==
  \A t \in Tasks : mem[q].tasks[t] \in {"Running", "Done"} => Deps[t] \subseteq skip[q] \cup released[q]
Recorded ==
  /\ \A q \in RunIds : Sound(q, disk[q]) /\ Sound(q, mem[q])
  /\ \A c \in Cancellers : cmd[c].pc \in {"probe", "write"} => Sound(cmd[c].target, cmd[c].snap)
  /\ draft.pc = "loaded" => Sound(draft.target, draft.snap)
RestInv == /\ RunsInv
           /\ \A q \in RunIds : Sourced(q) /\ Behind(q)
           /\ Recorded

(* The walk of run_plan finds every task behind skipped ones only.          *)
LEMMA WalkIsComplete ==
  ASSUME Acyclic, NEW X \in SUBSET Tasks, Closed(X), NEW t \in Tasks \ X, Deps[t] \subseteq X
  PROVE  t \in InitialWork(X)
<1> DEFINE step == [d \in Tasks |-> IF d \in X THEN {u \in Users[d] : Deps[u] \subseteq X} ELSE {}]
<1>0. InitialWork(X) = Least(Roots, step) \ X
  BY DEF InitialWork
<1>1. SUFFICES ASSUME NEW S \in SUBSET Tasks, Roots \subseteq S, \A u \in S : step[u] \subseteq S
               PROVE  t \in S
  BY <1>0 DEF Least
<1>2. \A u \in S \cap X, d \in Tasks : u \in Deps[d] /\ Deps[d] \subseteq X => d \in S
  <2> TAKE u \in S \cap X, d \in Tasks
  <2> HAVE u \in Deps[d] /\ Deps[d] \subseteq X
  <2>1. d \in Users[u] /\ u \in Tasks
    BY DEF Users
  <2>2. d \in step[u]
    BY <2>1
  <2> QED BY <1>1, <2>2
<1> HIDE DEF step
<1> DEFINE B == (X \cup {t}) \ S
<1>3. SUFFICES ASSUME B # {} PROVE FALSE
  OBVIOUS
<1>4. PICK m \in B : Deps[m] \cap B = {}
  BY <1>3 DEF Acyclic
<1>5. m \in Tasks /\ Deps[m] \subseteq X /\ m \notin S
  BY <1>4 DEF Closed
<1>6. Deps[m] \subseteq S \cap X
  BY <1>4, <1>5
<1>7. Deps[m] # {}
  BY <1>1, <1>5 DEF Roots
<1> QED BY <1>2, <1>5, <1>6, <1>7

(* A run that ends of itself has left no task behind.                       *)
LEMMA CompleteIsAll ==
  ASSUME RestInv, NEW r \in RunIds, Complete(r), Acyclic, FirstRecovery(r)
  PROVE  seed[r] \cup released[r] = Tasks
<1>1. /\ TypeInv /\ Closed(skip[r]) /\ skip[r] \subseteq seed[r]
      /\ skip[r] \in SUBSET Tasks /\ seed[r] \subseteq Tasks /\ released[r] \subseteq Tasks
  BY RunTypes DEF RestInv, RunsInv, Sourced, FirstRecovery
<1> DEFINE U == Tasks \ (skip[r] \cup released[r])
<1>2. SUFFICES ASSUME U # {} PROVE FALSE
  BY <1>1
<1>3. PICK m \in U : Deps[m] \cap U = {}
  BY <1>2 DEF Acyclic
<1>4. m \in Tasks /\ Deps[m] \subseteq Tasks /\ Deps[m] \subseteq skip[r] \cup released[r]
  BY <1>3, DepsAssumption
<1>5. ~Ready(r, m)
  BY <1>3 DEF Complete
<1>6. m \notin InitialWork(skip[r]) /\ Deps[m] \subseteq skip[r]
  BY <1>4, <1>5 DEF Ready, Reached
<1> QED BY <1>1, <1>3, <1>6, WalkIsComplete

LEMMA SoundStays ==
  ASSUME NEW q, NEW state, Sound(q, state), origin'[q] = origin[q], seed'[q] = seed[q],
         released[q] \subseteq released'[q], seed'[q] \cup released'[q] \subseteq Tasks,
         FirstRecovery(q)' => FirstRecovery(q)
  PROVE  Sound(q, state)'
<1>1. seed[q] \cup released[q] = Tasks => seed'[q] \cup released'[q] = Tasks
  OBVIOUS
<1> QED BY <1>1 DEF Sound

(* What an owner does to the statuses of its tasks.                         *)
LEMMA MemMoves ==
  ASSUME RunsInv, NEW r \in RunIds, OwnerStep(r) \/ Die(r) \/ ReusePid(r)
  PROVE  /\ \A t \in Tasks : mem'[r].tasks[t] \in {"Running", "Done"} =>
              \/ mem[r].tasks[t] \in {"Running", "Done"}
              \/ Deps[t] \subseteq skip[r] \cup released[r]
         /\ mem'[r].status = "Done" => mem'[r] = mem[r] \/ Complete(r)
<1>0. TypeInv /\ Begun(r) /\ mem[r] \in RunState
  BY RunTypes DEF RunsInv
<1>1. CASE SetUp(r)
  <2>1. mem'[r] = SetUpState(r) /\ mem[r].status = "Running"
    BY <1>0, <1>1, OnlySetUp DEF SetUp, Begun
  <2>2. SetUpState(r).status = "Running"
        /\ \A t \in Tasks : SetUpState(r).tasks[t] = IF t \in skip[r] THEN "Skipped" ELSE mem[r].tasks[t]
    BY <1>0, <2>1, SetUpFacts
  <2> QED BY <2>1, <2>2
<1>2. CASE SeedRefused(r) \/ Die(r) \/ ReusePid(r)
  <2>1. mem' = mem
    BY <1>2 DEF SeedRefused, Die, ReusePid
  <2> QED BY <2>1
<1>3. ASSUME NEW t \in Tasks, Start(r, t) \/ Finish(r, t)
      PROVE  /\ \A u \in Tasks : mem'[r].tasks[u] \in {"Running", "Done"} =>
                  \/ mem[r].tasks[u] \in {"Running", "Done"}
                  \/ Deps[u] \subseteq skip[r] \cup released[r]
             /\ mem'[r].status # "Done"
  <2> DEFINE x == IF Start(r, t) THEN "Running" ELSE "Done"
             new == WithTask(mem[r], t, x)
  <2>1. mem'[r] = new /\ mem[r].status = "Running"
    BY <1>0, <1>3, OnlyStart, OnlyFinish DEF Start, Finish, Working, Begun
  <2>2. new.status = mem[r].status /\ \A u \in Tasks \ {t} : new.tasks[u] = mem[r].tasks[u]
    <3>1. x \in Statuses
      BY DEF Statuses
    <3> HIDE DEF x
    <3> QED BY <1>0, <3>1, SetTaskFacts
  <2> HIDE DEF new
  <2>3. CASE Start(r, t)
    <3>1. Deps[t] \subseteq skip[r] \cup released[r]
      BY <2>3 DEF Start, Ready
    <3> QED BY <2>1, <2>2, <3>1
  <2>4. CASE Finish(r, t)
    <3>1. mem[r].tasks[t] = "Running"
      BY <2>4 DEF Finish
    <3> QED BY <2>1, <2>2, <3>1
  <2> QED BY <1>3, <2>3, <2>4
<1>4. CASE \E t \in Tasks : Release(r, t)
  <2>1. mem'[r] = mem[r]
    BY <1>0, <1>4, OnlyRelease
  <2> QED BY <2>1
<1>5. ASSUME NEW t \in Tasks, Fail(r, t)
      PROVE  /\ \A u \in Tasks : mem'[r].tasks[u] \in {"Running", "Done"} =>
                  mem[r].tasks[u] \in {"Running", "Done"}
             /\ mem'[r].status # "Done"
  <2>1. Failed(mem[r], t) \in RunState /\ Failed(mem[r], t).status = "Failed"
    BY <1>0, <1>5, FailedFacts DEF Fail
  <2>2. mem'[r] = Failed(mem[r], t)
    BY <1>0, <1>5, <2>1, OnlyEndRun DEF Fail
  <2>3. \A u \in Tasks : Failed(mem[r], t).tasks[u] \in {"Failed", "Skipped", "Cancelled", mem[r].tasks[u]}
    BY DEF Failed
  <2> QED BY <2>1, <2>2, <2>3
<1>6. CASE Brake(r)
  <2>1. Cancelled(mem[r]) \in RunState /\ Cancelled(mem[r]).status = "Cancelled"
    BY <1>0, CancelledFacts
  <2>2. mem'[r] = Cancelled(mem[r])
    BY <1>0, <1>6, <2>1, OnlyEndRun DEF Brake
  <2>3. \A u \in Tasks : Cancelled(mem[r]).tasks[u] \in {"Cancelled", mem[r].tasks[u]}
    BY DEF Cancelled
  <2> QED BY <2>1, <2>2, <2>3
<1>7. CASE Complete(r)
  <2> DEFINE new == [mem[r] EXCEPT !.status = "Done"]
  <2>1. new \in RunState /\ new.tasks = mem[r].tasks
    BY <1>0, DoneFacts
  <2>2. EndRun(r, new, "ended") /\ markers' \subseteq markers
    BY <1>7 DEF Complete
  <2> HIDE DEF new
  <2>3. mem'[r] = new
    BY <1>0, <2>1, <2>2, OnlyEndRun
  <2> QED BY <1>7, <2>1, <2>3
<1> QED BY <1>1, <1>2, <1>3, <1>4, <1>5, <1>6, <1>7 DEF OwnerStep

LEMMA RestTypes ==
  ASSUME RestInv
  PROVE  /\ RunsInv /\ TypeInv /\ Aimed /\ Recorded
         /\ \A q \in RunIds : /\ Sourced(q) /\ Behind(q) /\ Begun(q)
                              /\ seed[q] \cup released[q] \subseteq Tasks
         /\ \A c \in Cancellers : cmd[c].pc \in {"probe", "write"} =>
              cmd[c].target \in RunIds /\ owner[cmd[c].target] # "none"
         /\ draft.pc = "loaded" => draft.target \in RunIds /\ owner[draft.target] # "none"
<1>1. RunsInv /\ TypeInv /\ Aimed /\ Recorded
  BY DEF RestInv, RunsInv
<1>2. \A q \in RunIds : seed[q] \cup released[q] \subseteq Tasks
  BY <1>1, RunTypes
<1>3. \A c \in Cancellers : cmd[c].pc \in {"probe", "write"} =>
        cmd[c].target \in RunIds /\ owner[cmd[c].target] # "none"
  BY <1>1, CmdType DEF Busy, Aimed
<1> QED BY <1>1, <1>2, <1>3 DEF RestInv, RunsInv, Aimed, TypeInv, Targets

(* A new run: what it reuses of a fresh run is closed under producers.      *)
LEMMA RestOthers ==
  ASSUME RestInv, RunsInv', NEW r \in RunIds, StartStep(r), NEW q \in RunIds \ {r}
  PROVE  /\ \A state : Sound(q, state) => Sound(q, state)'
         /\ Sourced(q)' /\ Behind(q)'
<1>0. RunsInv /\ Sourced(q) /\ Behind(q)
  BY RestTypes
<1>1. /\ owner[r] = "none"
      /\ mem'[q] = mem[q] /\ origin'[q] = origin[q] /\ skip'[q] = skip[q] /\ seed'[q] = seed[q]
      /\ released'[q] = released[q] /\ \A p \in RunIds \ {r} : owner'[p] = owner[p] /\ origin'[p] = origin[p]
  BY <1>0, StartsAside
<1>2. origin[q].way \in {"resume", "forced"} => origin[q].source \in RunIds \ {r}
  BY <1>0, <1>1 DEF Sourced
<1>3. FirstRecovery(q)' => FirstRecovery(q)
  <2>1. CASE origin[q].way = "run"
    BY <1>0, <2>1 DEF Sourced, FirstRecovery, FirstRun
  <2>2. CASE origin[q].way = "from"
    BY <1>1, <2>2 DEF FirstRecovery
  <2>3. CASE origin[q].way \in {"resume", "forced"}
    BY <1>1, <1>2, <2>3 DEF FirstRecovery, FirstRun
  <2> QED BY <1>0, <2>1, <2>2, <2>3, RunTypes DEF RunsInv, Ways
<1>4. ASSUME NEW state, Sound(q, state)
      PROVE  Sound(q, state)'
  <2>1. seed'[q] \cup released'[q] \subseteq Tasks
    BY <1>1, RestTypes
  <2> QED BY <1>1, <1>3, <1>4, <2>1, SoundStays
<1>5. Sourced(q)'
  <2>1. origin[q].way \in {"resume", "forced"} => owner'[origin[q].source] # "none"
    BY <1>0, <1>1, <1>2 DEF Sourced
  <2> QED BY <1>0, <1>1, <1>3, <2>1 DEF Sourced
<1>6. Behind(q)'
  BY <1>0, <1>1 DEF Behind
<1> QED BY <1>4, <1>5, <1>6

(* The command of the run itself.                                           *)
LEMMA RestPrepares ==
  ASSUME RestInv, RunsInv', NEW r \in RunIds, Prepares(r)
  PROVE  Sourced(r)' /\ Behind(r)' /\ Sound(r, disk[r])' /\ Sound(r, mem[r])'
<1>0. RunsInv /\ Recorded /\ owner[r] = "none" /\ disk[r] = NoState /\ mem[r] = NoState
  BY RestTypes, Unborn
<1>1. /\ \A q \in RunIds \ {r} : origin'[q] = origin[q]
      /\ UNCHANGED <<disk, mem, owner, released>>
      /\ phase'[r] \in {"none", "loaded"}
  BY DEF Prepares
<1>2. Blank(r)' => Sourced(r)'
  BY DEF Blank, Fresh, Sourced, Closed
<1>3. origin'[r].way = "from" => Sourced(r)'
  BY DEF Sourced, FirstRecovery
<1>4. ASSUME origin'[r].way = "resume", origin'[r].source \in RunIds,
             disk[origin'[r].source].status # "none",
             skip'[r] = FinishedIn(disk[origin'[r].source]), seed'[r] = skip'[r]
      PROVE  Sourced(r)'
  <2>1. PICK q \in RunIds : q = origin'[r].source
    BY <1>4
  <2>2. owner[q] # "none"
    BY <1>0, <1>4, <2>1, NoStateType DEF RunsInv, Begun
  <2>3. q # r /\ q # NoRun
    BY <1>0, <2>2, RunIdFacts
  <2>4. FirstRecovery(r)' => Closed(skip'[r])
    <3> HAVE FirstRecovery(r)'
    <3>1. origin[q].way = "run"
      BY <1>1, <2>1, <2>3 DEF FirstRecovery, FirstRun
    <3> QED BY <1>0, <1>4, <2>1, <3>1 DEF Recorded, Sound
  <2> QED BY <1>1, <1>4, <2>1, <2>2, <2>4 DEF Sourced, Closed
<1>5. Sourced(r)'
  BY <1>2, <1>3, <1>4 DEF Prepares
<1>6. mem'[r] = NoState /\ disk'[r] = NoState
  BY <1>0, <1>1
<1>7. Behind(r)'
  BY <1>6, NoStateType DEF Behind
<1>8. Sound(r, mem[r])' /\ Sound(r, disk[r])'
  <2>1. FinishedIn(NoState) = {} /\ NoState.status # "Done"
    BY NoStateType DEF FinishedIn
  <2> QED BY <1>6, <2>1 DEF Sound, Closed
<1> QED BY <1>5, <1>7, <1>8

LEMMA RestBegins ==
  ASSUME RestInv, RunsInv', NEW r \in RunIds, NEW how \in Origin, Begins(r, how)
  PROVE  Sourced(r)' /\ Behind(r)' /\ Sound(r, disk[r])' /\ Sound(r, mem[r])'
<1>0. RunsInv /\ TypeInv /\ Sourced(r) /\ Begun(r)
  BY RestTypes
<1>1. /\ owner[r] = "none" /\ owner'[r] = "live" /\ disk'[r] = mem'[r] /\ mem'[r].status = "Running"
      /\ origin'[r] = how /\ FinishedIn(mem'[r]) = {}
      /\ \A q \in RunIds \ {r} : owner'[q] = owner[q] /\ origin'[q] = origin[q]
      /\ UNCHANGED <<skip, seed>>
  BY <1>0, NewBegun
<1>2. phase[r] = "none" /\ how = Fresh => Sourced(r)'
  BY <1>0, <1>1 DEF Begun, Blank, Fresh, Sourced, Closed
<1>3. ASSUME how.source = origin[r].source,
             how.way = origin[r].way \/ (origin[r].way = "resume" /\ how.way = "forced")
      PROVE  Sourced(r)'
  <2>1. origin[r].way \in {"resume", "forced"} =>
          origin[r].source \in RunIds \ {r} /\ owner'[origin[r].source] # "none"
    BY <1>0, <1>1 DEF Sourced
  <2>2. FirstRecovery(r)' => FirstRecovery(r)
    BY <1>0, <1>1, <1>3, <2>1, RunTypes DEF FirstRecovery, FirstRun, Sourced, Ways
  <2> QED BY <1>0, <1>1, <1>3, <2>1, <2>2 DEF Sourced
<1>4. Sourced(r)'
  <2>1. \/ phase[r] = "none" /\ how = Fresh
        \/ /\ how.source = origin[r].source
           /\ how.way = origin[r].way \/ (origin[r].way = "resume" /\ how.way = "forced")
    BY DEF Begins
  <2>2. CASE phase[r] = "none" /\ how = Fresh
    BY <1>2, <2>2
  <2>3. CASE /\ how.source = origin[r].source
             /\ how.way = origin[r].way \/ (origin[r].way = "resume" /\ how.way = "forced")
    BY <1>3, <2>3
  <2> QED BY <2>1, <2>2, <2>3
<1>5. \A t \in Tasks : mem'[r].tasks[t] = "Pending"
  <2>1. TypeInv /\ NewRun(r, how)
    BY <1>0 DEF Begins
  <2>2. mem'[r] = FirstState
    BY <2>1, NewRunFacts
  <2> QED BY <2>2, NoStateType
<1>6. Behind(r)'
  BY <1>5 DEF Behind
<1>7. Sound(r, mem[r])' /\ Sound(r, disk[r])'
  BY <1>1 DEF Sound, Closed
<1> QED BY <1>4, <1>6, <1>7

LEMMA RestNewRun ==
  ASSUME RestInv, RunsInv', NEW r \in RunIds, StartStep(r)
  PROVE  RestInv'
<1>0. /\ RunsInv /\ TypeInv /\ Aimed /\ Recorded
  BY RestTypes
<1>1. /\ owner[r] = "none" /\ cmd' = cmd /\ draft' = draft
      /\ \A q \in RunIds \ {r} : disk'[q] = disk[q] /\ mem'[q] = mem[q]
  BY <1>0, StartsAside
<1>2. \A q \in RunIds \ {r} : \A state : Sound(q, state) => Sound(q, state)'
  BY RestOthers
<1>3. Sourced(r)' /\ Behind(r)' /\ Sound(r, disk[r])' /\ Sound(r, mem[r])'
  BY <1>0, Starts, RestPrepares, RestBegins
<1>4. \A q \in RunIds : Sourced(q)' /\ Behind(q)'
  BY <1>3, RestOthers
<1>5. Recorded'
  <2>1. \A q \in RunIds : Sound(q, disk[q])' /\ Sound(q, mem[q])'
    <3> TAKE q \in RunIds
    <3>1. CASE q = r
      BY <1>3, <3>1
    <3>2. CASE q # r
      <4>1. Sound(q, disk[q]) /\ Sound(q, mem[q]) /\ disk'[q] = disk[q] /\ mem'[q] = mem[q]
        BY <1>0, <1>1, <3>2 DEF Recorded
      <4>2. \A state : Sound(q, state) => Sound(q, state)'
        BY <1>2, <3>2
      <4> QED BY <4>1, <4>2 DEF Sound
    <3> QED BY <3>1, <3>2
  <2>2. \A c \in Cancellers : cmd[c].pc \in {"probe", "write"} => Sound(cmd[c].target, cmd[c].snap)'
    <3> TAKE c \in Cancellers
    <3> HAVE cmd[c].pc \in {"probe", "write"}
    <3>1. cmd[c].target \in RunIds \ {r} /\ Sound(cmd[c].target, cmd[c].snap)
      BY <1>0, <1>1, RestTypes DEF Recorded
    <3> QED BY <1>1, <1>2, <3>1 DEF Sound
  <2>3. draft.pc = "loaded" => Sound(draft.target, draft.snap)'
    <3> HAVE draft.pc = "loaded"
    <3>1. draft.target \in RunIds \ {r} /\ Sound(draft.target, draft.snap)
      BY <1>0, <1>1, RestTypes DEF Recorded
    <3> QED BY <1>1, <1>2, <3>1 DEF Sound
  <2> QED BY <1>1, <2>1, <2>2, <2>3 DEF Recorded
<1> QED BY <1>4, <1>5 DEF RestInv

(* Steps that start nothing keep what is recorded, but for what they write. *)
LEMMA RestStays ==
  ASSUME RestInv, RunsInv', UNCHANGED <<origin, skip, seed>>,
         \A q \in RunIds : released[q] \subseteq released'[q],
         NEW q \in RunIds, NEW state, Sound(q, state)
  PROVE  Sound(q, state)'
<1>1. seed'[q] \cup released'[q] \subseteq Tasks
  BY RunTypes DEF RunsInv, TypeInv, TypeOK
<1>2. FirstRecovery(q)' => FirstRecovery(q)
  BY DEF FirstRecovery, FirstRun
<1> QED BY <1>1, <1>2, SoundStays

LEMMA RestOwner ==
  ASSUME RestInv, RunsInv', NEW r \in RunIds, OwnerStep(r) \/ Die(r) \/ ReusePid(r)
  PROVE  RestInv'
<1>0. /\ RunsInv /\ TypeInv /\ Recorded /\ \A q \in RunIds : Sourced(q) /\ Behind(q) /\ Begun(q)
  BY RestTypes
<1>1. Grows(r) /\ OnlyRun(r)
  BY <1>0, OwnerGrows
<1>2. /\ UNCHANGED <<origin, skip, seed, cmd, draft>>
      /\ \A q \in RunIds \ {r} : /\ disk'[q] = disk[q] /\ mem'[q] = mem[q] /\ released'[q] = released[q]
                                 /\ owner'[q] = owner[q]
      /\ released[r] \subseteq released'[r] /\ owner'[r] # "none"
      /\ disk'[r] \in {disk[r], mem'[r]}
      /\ released'[r] \subseteq FinishedIn(mem'[r])
  BY <1>1 DEF Grows, OnlyRun, fixVars, Begun
<1>3. \A q \in RunIds : \A state : Sound(q, state) => Sound(q, state)'
  <2> TAKE q \in RunIds
  <2> TAKE state
  <2>1. \A p \in RunIds : released[p] \subseteq released'[p]
    BY <1>2
  <2>2. UNCHANGED <<origin, skip, seed>>
    BY <1>2
  <2> QED BY <2>1, <2>2, RestStays
<1>4. \A q \in RunIds : Sourced(q)'
  BY <1>0, <1>2 DEF Sourced, FirstRecovery, FirstRun
<1>5. Behind(r)'
  <2>1. \A t \in Tasks : mem'[r].tasks[t] \in {"Running", "Done"} =>
          \/ mem[r].tasks[t] \in {"Running", "Done"}
          \/ Deps[t] \subseteq skip[r] \cup released[r]
    BY <1>0, MemMoves
  <2> QED BY <1>0, <1>2, <2>1 DEF Behind
<1>6. \A q \in RunIds : Behind(q)'
  <2> TAKE q \in RunIds
  <2>1. CASE q = r
    BY <1>5, <2>1
  <2>2. CASE q # r
    BY <1>0, <1>2, <2>2 DEF Behind
  <2> QED BY <2>1, <2>2
<1>7. Sound(r, mem[r])'
  <2>1. origin[r].way = "run" => Closed(FinishedIn(mem'[r]))
    <3> HAVE origin[r].way = "run"
    <3>1. skip[r] = {}
      BY <1>0 DEF Sourced
    <3>2. \A t \in FinishedIn(mem'[r]) : Deps[t] \subseteq released'[r]
      BY <1>2, <1>5, <3>1 DEF Behind, FinishedIn
    <3> QED BY <1>2, <3>2 DEF Closed
  <2>2. CASE mem'[r] = mem[r]
    BY <1>0, <1>3, <2>2 DEF Recorded, Sound
  <2>3. CASE Complete(r)
    <3>1. Acyclic /\ FirstRecovery(r) => seed[r] \cup released[r] = Tasks
      BY <2>3, CompleteIsAll
    <3>2. released' = released
      BY <2>3 DEF Complete, EndRun
    <3>3. FirstRecovery(r)' => FirstRecovery(r)
      BY <1>2 DEF FirstRecovery, FirstRun
    <3> QED BY <1>2, <2>1, <3>1, <3>2, <3>3 DEF Sound
  <2>4. CASE mem'[r].status # "Done"
    BY <1>2, <2>1, <2>4 DEF Sound
  <2> QED BY <1>0, <2>2, <2>3, <2>4, MemMoves
<1>8. Recorded'
  <2>1. \A q \in RunIds : Sound(q, disk[q])' /\ Sound(q, mem[q])'
    <3> TAKE q \in RunIds
    <3>0. Sound(q, disk[q]) /\ Sound(q, mem[q])
      BY <1>0 DEF Recorded
    <3>1. CASE q = r
      BY <1>2, <1>3, <1>7, <3>0, <3>1 DEF Sound
    <3>2. CASE q # r
      BY <1>2, <1>3, <3>0, <3>2 DEF Sound
    <3> QED BY <3>1, <3>2
  <2>2. \A c \in Cancellers : cmd[c].pc \in {"probe", "write"} => Sound(cmd[c].target, cmd[c].snap)'
    <3> TAKE c \in Cancellers
    <3> HAVE cmd[c].pc \in {"probe", "write"}
    <3>1. cmd[c].target \in RunIds /\ Sound(cmd[c].target, cmd[c].snap)
      BY <1>0, RestTypes DEF Recorded
    <3> QED BY <1>2, <1>3, <3>1 DEF Sound
  <2>3. draft.pc = "loaded" => Sound(draft.target, draft.snap)'
    <3> HAVE draft.pc = "loaded"
    <3>1. draft.target \in RunIds /\ Sound(draft.target, draft.snap)
      BY <1>0, RestTypes DEF Recorded
    <3> QED BY <1>2, <1>3, <3>1 DEF Sound
  <2> QED BY <1>2, <2>1, <2>2, <2>3 DEF Recorded
<1> QED BY <1>4, <1>6, <1>8 DEF RestInv

(* Commands and drafts write only what they have read, or its cancelled     *)
(* form, which is not Done.                                                 *)
LEMMA RestKept ==
  ASSUME RestInv, RunsInv', UNCHANGED <<mem, owner, origin, skip, seed, released>>,
         \A q \in RunIds : Sound(q, disk'[q]),
         \A c \in Cancellers : cmd'[c].pc \in {"probe", "write"} => Sound(cmd'[c].target, cmd'[c].snap),
         draft'.pc = "loaded" => Sound(draft'.target, draft'.snap)
  PROVE  RestInv'
<1>1. \A q \in RunIds : Sourced(q)' /\ Behind(q)'
  BY RestTypes DEF Sourced, Behind, FirstRecovery, FirstRun
<1>2. Recorded'
  BY RestTypes DEF Recorded, Sound, FirstRecovery, FirstRun
<1> QED BY <1>1, <1>2 DEF RestInv

LEMMA RestCommand ==
  ASSUME RestInv, RunsInv', NEW c \in Cancellers, CancelStep(c)
  PROVE  RestInv'
<1>0. RunsInv /\ TypeInv /\ Recorded
  BY RestTypes
<1>1. UNCHANGED <<mem, owner, origin, skip, seed, released>>
  BY <1>0, Beside
<1>2. ASSUME NEW x \in Command, Goes(c, x), cmd[c].pc \in Busy, x.pc # "idle", draft' = draft,
             \A q \in RunIds : Sound(q, disk'[q]),
             x.pc \in {"probe", "write"} => Sound(cmd[c].target, x.snap)
      PROVE  RestInv'
  <2>1. cmd'[c] = x /\ x.target = cmd[c].target /\ \A d \in Cancellers \ {c} : cmd'[d] = cmd[d]
    BY <1>0, <1>2, CmdMoves DEF Goes
  <2>2. \A d \in Cancellers : cmd'[d].pc \in {"probe", "write"} => Sound(cmd'[d].target, cmd'[d].snap)
    BY <1>0, <1>2, <2>1 DEF Recorded
  <2>3. draft'.pc = "loaded" => Sound(draft'.target, draft'.snap)
    BY <1>0, <1>2 DEF Recorded
  <2> QED BY <1>1, <1>2, <2>2, <2>3, RestKept
<1>3. CASE Load(c)
  <2>1. PICK x \in Command :
           /\ Goes(c, x) /\ cmd[c].pc = "load" /\ UNCHANGED <<runVars, markers, doctor, fixVars>>
           /\ \/ x.pc = "done"
              \/ x.pc = "probe" /\ x.snap = disk[cmd[c].target]
    BY <1>0, <1>3, CmdLoad
  <2>2. cmd[c].target \in RunIds /\ cmd[c].pc \in Busy
    BY <1>0, <2>1, CmdType DEF Busy
  <2>3. disk' = disk /\ draft' = draft
    BY <2>1 DEF runVars, fixVars
  <2> QED BY <1>0, <1>2, <2>1, <2>2, <2>3 DEF Recorded
<1>4. CASE Probe(c)
  <2>1. PICK x \in Command :
           /\ Goes(c, x) /\ cmd[c].pc = "probe" /\ UNCHANGED <<runVars, markers, doctor, fixVars>>
           /\ \/ x.pc = "done"
              \/ x.pc = "write" /\ x.snap = cmd[c].snap
    BY <1>0, <1>4, CmdProbe
  <2>2. disk' = disk /\ draft' = draft /\ cmd[c].pc \in Busy
    BY <2>1 DEF runVars, fixVars, Busy
  <2> QED BY <1>0, <1>2, <2>1, <2>2 DEF Recorded
<1>5. CASE Overwrite(c)
  <2>1. PICK x \in Command :
           /\ Goes(c, x) /\ cmd[c].pc = "write" /\ x.pc = "ledger" /\ cmd[c].target \in RunIds
           /\ disk'[cmd[c].target] = Cancelled(cmd[c].snap)
           /\ \A q \in RunIds \ {cmd[c].target} : disk'[q] = disk[q]
           /\ draft' = draft
    BY <1>0, <1>5, CmdOverwrite
  <2>2. cmd[c].snap \in RunState /\ cmd[c].pc \in Busy
    BY <1>0, <2>1, CmdType DEF Command, Busy
  <2>3. Cancelled(cmd[c].snap).status = "Cancelled"
        /\ FinishedIn(Cancelled(cmd[c].snap)) = FinishedIn(cmd[c].snap)
    BY <2>2, CancelledFacts
  <2>4. Sound(cmd[c].target, cmd[c].snap)
    BY <1>0, <2>1 DEF Recorded
  <2>5. Sound(cmd[c].target, disk'[cmd[c].target])
    BY <2>1, <2>3, <2>4 DEF Sound
  <2>6. \A q \in RunIds : Sound(q, disk'[q])
    BY <1>0, <2>1, <2>5 DEF Recorded
  <2> QED BY <1>2, <2>1, <2>2, <2>6
<1>6. CASE ReadLedger(c) \/ AppendFinding(c)
  <2>1. PICK x \in Command : Goes(c, x) /\ cmd[c].pc \in {"ledger", "append"}
                             /\ x.pc \in {"append", "done"} /\ disk' = disk /\ draft' = draft
    BY <1>0, <1>6, CmdReadLedger, CmdAppend DEF runVars, fixVars
  <2> QED BY <1>0, <1>2, <2>1 DEF Recorded, Busy
<1> QED BY <1>3, <1>4, <1>5, <1>6 DEF CancelStep

LEMMA RestRequest ==
  ASSUME RestInv, RunsInv', NEW c \in Cancellers,
         RequestNoRun(c) \/ \E r \in RunIds, literal \in BOOLEAN : Request(c, r, literal)
  PROVE  RestInv'
<1>0. RunsInv /\ TypeInv /\ Recorded
  BY RestTypes
<1>1. PICK x \in Command : /\ cmd' = [cmd EXCEPT ![c] = x] /\ x.pc \in {"done", "load"}
                           /\ UNCHANGED <<runVars, doctor, fixVars>>
  BY <1>0, CmdRequest
<1>2. cmd'[c] = x /\ \A d \in Cancellers \ {c} : cmd'[d] = cmd[d]
  BY <1>0, <1>1 DEF TypeInv, TypeOK
<1>3. UNCHANGED <<mem, owner, origin, skip, seed, released, disk, draft>>
  BY <1>1 DEF runVars, fixVars
<1>4. \A d \in Cancellers : cmd'[d].pc \in {"probe", "write"} => Sound(cmd'[d].target, cmd'[d].snap)
  BY <1>0, <1>1, <1>2 DEF Recorded
<1>5. \A q \in RunIds : Sound(q, disk'[q])
  BY <1>0, <1>3 DEF Recorded
<1>6. draft'.pc = "loaded" => Sound(draft'.target, draft'.snap)
  BY <1>0, <1>3 DEF Recorded
<1> QED BY <1>3, <1>4, <1>5, <1>6, RestKept

LEMMA RestDraft ==
  ASSUME RestInv, RunsInv', DraftWrite \/ \E r \in RunIds : DraftLoad(r)
  PROVE  RestInv'
<1>0. RunsInv /\ TypeInv /\ Recorded
  BY RestTypes
<1>1. UNCHANGED <<mem, owner, origin, skip, seed, released>> /\ cmd' = cmd
  <2>1. UNCHANGED <<mem, owner, origin, skip, seed, released>>
    BY <1>0, Beside
  <2> QED BY <2>1 DEF DraftWrite, DraftLoad, cmdVars
<1>2. \A c \in Cancellers : cmd'[c].pc \in {"probe", "write"} => Sound(cmd'[c].target, cmd'[c].snap)
  BY <1>0, <1>1 DEF Recorded
<1>3. CASE \E r \in RunIds : DraftLoad(r)
  <2>1. PICK r \in RunIds : DraftLoad(r)
    BY <1>3
  <2>2. disk' = disk /\ draft' = [pc |-> "loaded", target |-> r, snap |-> disk[r]]
    BY <2>1 DEF DraftLoad, runVars
  <2>3. Sound(draft'.target, draft'.snap)
    BY <1>0, <2>2 DEF Recorded
  <2>4. \A q \in RunIds : Sound(q, disk'[q])
    BY <1>0, <2>2 DEF Recorded
  <2> QED BY <1>1, <1>2, <2>3, <2>4, RestKept
<1>4. CASE DraftWrite
  <2>1. /\ draft.pc = "loaded" /\ disk' = [disk EXCEPT ![draft.target] = draft.snap]
        /\ draft' = [NoDraft EXCEPT !.pc = "done"]
    BY <1>4 DEF DraftWrite
  <2>2. draft'.pc = "done"
    BY <2>1 DEF NoDraft
  <2>3. Sound(draft.target, draft.snap) /\ disk \in [RunIds -> RunState]
    BY <1>0, <2>1 DEF Recorded, TypeInv, TypeOK
  <2>4. \A q \in RunIds : disk'[q] = IF q = draft.target THEN draft.snap ELSE disk[q]
    BY <2>1, <2>3
  <2>5. \A q \in RunIds : Sound(q, disk'[q])
    BY <1>0, <2>3, <2>4 DEF Recorded
  <2> QED BY <1>1, <1>2, <2>2, <2>5, RestKept
<1> QED BY <1>3, <1>4

(* Where the dependencies of a plan form no cycle, a run that ends Done has *)
(* the output of every task, seeded or made by itself, if it is a fresh run *)
(* or the first recovery of one (run_plan, src/scheduler/executor.rs;       *)
(* run_resume, src/cli/commands/run.rs).                                    *)
THEOREM NothingIsMissing == Spec => [](Acyclic => RestIsRun)
<1>1. Init => RestInv
  <2> SUFFICES ASSUME Init PROVE (\A q \in RunIds : Sourced(q) /\ Behind(q)) /\ Recorded
    BY RunsInit DEF RestInv
  <2>1. /\ \A q \in RunIds : /\ origin[q] = Fresh /\ skip[q] = {}
                             /\ disk[q] = NoState /\ mem[q] = NoState
        /\ \A c \in Cancellers : cmd[c].pc = "idle"
        /\ draft.pc = "idle"
    BY IdleType DEF Init, NoDraft
  <2>2. \A q \in RunIds : Sourced(q) /\ Behind(q)
    BY <2>1, NoStateType DEF Fresh, Sourced, Behind, Closed
  <2>3. \A q \in RunIds : Sound(q, NoState)
    BY NoStateType DEF Sound, Closed, FinishedIn
  <2> QED BY <2>1, <2>2, <2>3 DEF Recorded
<1>2. RestInv /\ RunsInv' /\ [Next]_vars => RestInv'
  <2> SUFFICES ASSUME RestInv, RunsInv', [Next]_vars PROVE RestInv'
    OBVIOUS
  <2>1. CASE UNCHANGED vars
    <3>1. UNCHANGED <<mem, owner, origin, skip, seed, released, disk, cmd, draft>>
      BY <2>1 DEF vars, runVars, cmdVars, fixVars
    <3> QED BY <3>1, RestKept, RestTypes DEF Recorded
  <2>2. CASE \E r \in RunIds : StartStep(r)
    BY <2>2, RestNewRun
  <2>3. CASE \E r \in RunIds : OwnerStep(r) \/ Die(r) \/ ReusePid(r)
    BY <2>3, RestOwner
  <2>4. CASE \E c \in Cancellers : CancelStep(c)
    BY <2>4, RestCommand
  <2>5. CASE \E c \in Cancellers : RequestNoRun(c) \/ \E r \in RunIds, literal \in BOOLEAN : Request(c, r, literal)
    BY <2>5, RestRequest
  <2>6. CASE DraftWrite \/ \E r \in RunIds : DraftLoad(r)
    BY <2>6, RestDraft
  <2> QED BY <2>1, <2>2, <2>3, <2>4, <2>5, <2>6 DEF Next
<1>3. RestInv => (Acyclic => RestIsRun)
  BY DEF RestInv, Recorded, Sound, RestIsRun
<1> QED BY <1>1, <1>2, <1>3, RunsHold, PTL DEF Spec

------------------------------------------------------------------------------
(* Every run keeps the promise.  What TaskGraphRun sees of a run is in the  *)
(* memory of its owner, which no other process can reach.                   *)

(* The statuses an owner's memory may hold before and while it works.       *)
Orderly(r) ==
  /\ phase[r] \in {"none", "loaded", "setup"} => \A t \in Tasks : mem[r].tasks[t] = "Pending"
  /\ phase[r] = "work" => \A t \in Tasks : /\ mem[r].tasks[t] \in {"Pending", "Running", "Done", "Skipped"}
                                           /\ mem[r].tasks[t] = "Skipped" => t \in skip[r]
KeepInv == RunsInv /\ \A r \in RunIds : Orderly(r)

LeftOut(r, t) == t \in skip[r] /\ mem[r].tasks[t] = "Skipped"
LEMMA ViewNow ==
  ASSUME NEW r \in RunIds, NEW t \in Tasks
  PROVE  /\ t \in released[r] => TaskView(r, t) = "released"
         /\ t \notin released[r] /\ LeftOut(r, t) => TaskView(r, t) = "leftOut"
         /\ t \notin released[r] /\ ~LeftOut(r, t) =>
              TaskView(r, t) = IF Stopped(r) THEN "dropped"
                               ELSE IF mem[r].tasks[t] \in {"Running", "Done"} THEN "active"
                               ELSE "waiting"
BY DEF TaskView, LeftOut

LEMMA ViewNext ==
  ASSUME NEW r \in RunIds, NEW t \in Tasks
  PROVE  /\ t \in released'[r] => TaskView(r, t)' = "released"
         /\ t \notin released'[r] /\ LeftOut(r, t)' => TaskView(r, t)' = "leftOut"
         /\ t \notin released'[r] /\ ~LeftOut(r, t)' =>
              TaskView(r, t)' = IF Stopped(r)' THEN "dropped"
                                ELSE IF mem'[r].tasks[t] \in {"Running", "Done"} THEN "active"
                                ELSE "waiting"
BY DEF TaskView, LeftOut

(* Nothing TaskGraphRun could see.                                          *)
LEMMA SeenUnchanged ==
  ASSUME NEW r \in RunIds, started'[r] = started[r], Stopped(r)' <=> Stopped(r),
         \A t \in Tasks : TaskView(r, t)' = TaskView(r, t)
  PROVE  UNCHANGED RunOf(r)!vars
<1>1. [t \in Tasks |-> TaskView(r, t)]' = [t \in Tasks |-> TaskView(r, t)]
  OBVIOUS
<1>2. [t \in Tasks |-> IF t \in started[r] THEN 1 ELSE 0]' = [t \in Tasks |-> IF t \in started[r] THEN 1 ELSE 0]
  OBVIOUS
<1>3. Stopped(r)' = Stopped(r)
  BY DEF Stopped
<1> QED BY <1>1, <1>2, <1>3 DEF RunOf!vars

LEMMA SeenNothing ==
  ASSUME NEW r \in RunIds, mem'[r] = mem[r], skip'[r] = skip[r], released'[r] = released[r],
         started'[r] = started[r], Stopped(r)' <=> Stopped(r)
  PROVE  UNCHANGED RunOf(r)!vars
<1>1. \A t \in Tasks : TaskView(r, t)' = TaskView(r, t)
  BY ViewNow, ViewNext DEF LeftOut
<1> QED BY <1>1, SeenUnchanged

(* The owner ends or dies: what is not settled is dropped.                  *)
LEMMA SeenEnd ==
  ASSUME NEW r \in RunIds, ~Stopped(r), Stopped(r)', released'[r] = released[r],
         started'[r] = started[r], \A t \in Tasks : LeftOut(r, t)' <=> LeftOut(r, t)
  PROVE  RunOf(r)!Next
<1>1. \A t \in Tasks : TaskView(r, t)' = IF TaskView(r, t) \in {"waiting", "active"} THEN "dropped"
                                          ELSE TaskView(r, t)
  BY ViewNow, ViewNext
<1>2. [t \in Tasks |-> TaskView(r, t)]'
        = [t \in Tasks |-> IF [u \in Tasks |-> TaskView(r, u)][t] \in {"waiting", "active"} THEN "dropped"
                           ELSE [u \in Tasks |-> TaskView(r, u)][t]]
  BY <1>1
<1>3. [t \in Tasks |-> IF t \in started[r] THEN 1 ELSE 0]' = [t \in Tasks |-> IF t \in started[r] THEN 1 ELSE 0]
  OBVIOUS
<1>4. Stopped(r)' = TRUE
  BY DEF Stopped
<1>5. RunOf(r)!End
  BY <1>2, <1>3, <1>4 DEF RunOf!End
<1> QED BY <1>5 DEF RunOf!Next

(* One task moves, the others stay.                                         *)
LEMMA SeenMove ==
  ASSUME NEW r \in RunIds, Stopped(r)' <=> Stopped(r), NEW t \in Tasks, NEW p,
         TaskView(r, t)' = p, \A u \in Tasks \ {t} : TaskView(r, u)' = TaskView(r, u)
  PROVE  RunOf(r)!Move(t, p) /\ Stopped(r)' = Stopped(r)
<1>1. [u \in Tasks |-> TaskView(r, u)]' = [[u \in Tasks |-> TaskView(r, u)] EXCEPT ![t] = p]
  OBVIOUS
<1>2. Stopped(r)' = Stopped(r)
  BY DEF Stopped
<1> QED BY <1>1, <1>2 DEF RunOf!Move

(* An owner at work holds the skipped tasks as Skipped, what it released as *)
(* Done, and what it has not started as Pending.                            *)
LEMMA AtWork ==
  ASSUME KeepInv, NEW r \in RunIds, phase[r] = "work"
  PROVE  /\ \A t \in Tasks : LeftOut(r, t) <=> t \in skip[r]
         /\ \A t \in released[r] : mem[r].tasks[t] = "Done"
         /\ \A t \in started[r] : mem[r].tasks[t] \in {"Running", "Done"}
         /\ mem[r] \in RunState /\ skip[r] \subseteq Tasks /\ released[r] \subseteq Tasks
BY RunTypes DEF KeepInv, RunsInv, Begun, Orderly, LeftOut, FinishedIn

LEMMA KeepSetUp ==
  ASSUME KeepInv, NEW r \in RunIds, SetUp(r)
  PROVE  RunOf(r)!Next /\ Orderly(r)'
<1>1. /\ phase[r] = "setup" /\ owner[r] = "live" /\ mem[r] \in RunState /\ skip[r] \subseteq Tasks
      /\ started[r] = {} /\ released[r] = {} /\ \A t \in Tasks : mem[r].tasks[t] = "Pending"
  BY RunTypes DEF SetUp, KeepInv, RunsInv, Begun, Orderly
<1>2. /\ mem'[r] = SetUpState(r) /\ phase'[r] = "work"
      /\ UNCHANGED <<owner, skip, started, released>>
  BY OnlySetUp DEF SetUp, KeepInv, RunsInv
<1>3. \A t \in Tasks : mem'[r].tasks[t] = IF t \in skip[r] THEN "Skipped" ELSE "Pending"
  BY <1>1, <1>2, SetUpFacts
<1>4. ~Stopped(r) /\ ~Stopped(r)' /\ Stopped(r)' = Stopped(r)
  BY <1>1, <1>2 DEF Stopped
<1>5. \A t \in Tasks : /\ TaskView(r, t) = "waiting"
                       /\ TaskView(r, t)' = IF t \in skip[r] THEN "leftOut" ELSE "waiting"
  BY <1>1, <1>2, <1>3, <1>4, ViewNow, ViewNext DEF LeftOut
<1>6. [t \in Tasks |-> TaskView(r, t)]' = [t \in Tasks |-> IF t \in skip[r] THEN "leftOut" ELSE "waiting"]
  BY <1>5
<1>7. [t \in Tasks |-> IF t \in started[r] THEN 1 ELSE 0]' = [t \in Tasks |-> IF t \in started[r] THEN 1 ELSE 0]
  BY <1>2
<1>8. RunOf(r)!LeaveOut
  BY <1>1, <1>4, <1>5, <1>6, <1>7 DEF RunOf!LeaveOut
<1> QED BY <1>2, <1>3, <1>8 DEF RunOf!Next, Orderly

LEMMA KeepStart ==
  ASSUME KeepInv, NEW r \in RunIds, NEW t \in Tasks, Start(r, t)
  PROVE  RunOf(r)!Next /\ Orderly(r)'
<1> DEFINE new == WithTask(mem[r], t, "Running")
<1>1. /\ phase[r] = "work" /\ owner[r] = "live" /\ mem[r].tasks[t] = "Pending"
      /\ Deps[t] \subseteq skip[r] \cup released[r]
  BY DEF Start, Working, Ready
<1>2. /\ mem'[r] = new /\ started'[r] = started[r] \cup {t} /\ started' \in [RunIds -> SUBSET Tasks]
      /\ UNCHANGED <<owner, phase, skip, released>>
  BY OnlyStart DEF Start, KeepInv, RunsInv, OnlyRun
<1>3. new.tasks[t] = "Running" /\ \A u \in Tasks \ {t} : new.tasks[u] = mem[r].tasks[u]
  <2>1. mem[r] \in RunState
    BY <1>1, AtWork
  <2>2. "Running" \in Statuses
    BY DEF Statuses
  <2> QED BY <2>1, <2>2, SetTaskFacts
<1> HIDE DEF new
<1>4. ~Stopped(r) /\ ~Stopped(r)' /\ Stopped(r)' = Stopped(r)
  BY <1>1, <1>2 DEF Stopped
<1>5. t \notin released[r] /\ t \notin skip[r] /\ t \notin started[r]
  BY <1>1, AtWork DEF LeftOut
<1>6. TaskView(r, t) = "waiting" /\ TaskView(r, t)' = "active"
  BY <1>1, <1>2, <1>3, <1>4, <1>5, ViewNow, ViewNext DEF LeftOut
<1>7. \A u \in Tasks \ {t} : TaskView(r, u)' = TaskView(r, u)
  BY <1>2, <1>3, <1>4, ViewNow, ViewNext DEF LeftOut
<1>8. \A d \in Deps[t] : TaskView(r, d) \in {"released", "leftOut"}
  BY <1>1, AtWork, ViewNow
<1>9. RunOf(r)!Move(t, "active")
  BY <1>4, <1>6, <1>7, SeenMove
<1>10. [u \in Tasks |-> IF u \in started[r] THEN 1 ELSE 0]'
         = [[u \in Tasks |-> IF u \in started[r] THEN 1 ELSE 0] EXCEPT ![t] = 1]
  BY <1>2
<1>11. Deps[t] \subseteq Tasks
  BY DepsAssumption
<1>12. RunOf(r)!Satisfied(t)
  BY <1>8, <1>11 DEF RunOf!Satisfied
<1>13. RunOf(r)!Begin(t)
  BY <1>4, <1>5, <1>6, <1>9, <1>10, <1>12 DEF RunOf!Begin
<1>14. \A u \in Tasks : /\ mem'[r].tasks[u] \in {"Pending", "Running", "Done", "Skipped"}
                        /\ mem'[r].tasks[u] = "Skipped" => u \in skip[r]
  BY <1>1, <1>2, <1>3 DEF KeepInv, Orderly
<1> QED BY <1>1, <1>2, <1>13, <1>14 DEF RunOf!Next, Orderly

LEMMA KeepFinish ==
  ASSUME KeepInv, NEW r \in RunIds, NEW t \in Tasks, Finish(r, t)
  PROVE  UNCHANGED RunOf(r)!vars /\ Orderly(r)'
<1> DEFINE new == WithTask(mem[r], t, "Done")
<1>1. phase[r] = "work" /\ owner[r] = "live" /\ mem[r].tasks[t] = "Running"
  BY DEF Finish, Working
<1>2. mem'[r] = new /\ UNCHANGED <<owner, phase, skip, released, started>>
  BY OnlyFinish DEF Finish, KeepInv, RunsInv
<1>3. new.tasks[t] = "Done" /\ \A u \in Tasks \ {t} : new.tasks[u] = mem[r].tasks[u]
  <2>1. mem[r] \in RunState
    BY <1>1, AtWork
  <2>2. "Done" \in Statuses
    BY DEF Statuses
  <2> QED BY <2>1, <2>2, SetTaskFacts
<1> HIDE DEF new
<1>4. Stopped(r)' <=> Stopped(r)
  BY <1>2 DEF Stopped
<1>5. \A u \in Tasks : TaskView(r, u)' = TaskView(r, u)
  BY <1>1, <1>2, <1>3, <1>4, ViewNow, ViewNext DEF LeftOut
<1>6. \A u \in Tasks : /\ mem'[r].tasks[u] \in {"Pending", "Running", "Done", "Skipped"}
                       /\ mem'[r].tasks[u] = "Skipped" => u \in skip[r]
  BY <1>1, <1>2, <1>3 DEF KeepInv, Orderly
<1>7. UNCHANGED RunOf(r)!vars
  BY <1>2, <1>4, <1>5, SeenUnchanged
<1> QED BY <1>1, <1>2, <1>6, <1>7 DEF Orderly

LEMMA KeepRelease ==
  ASSUME KeepInv, NEW r \in RunIds, NEW t \in Tasks, Release(r, t)
  PROVE  RunOf(r)!Next /\ Orderly(r)'
<1>1. phase[r] = "work" /\ owner[r] = "live" /\ mem[r].tasks[t] = "Done" /\ t \notin released[r]
  BY DEF Release, Working
<1>2. mem'[r] = mem[r] /\ released'[r] = released[r] \cup {t} /\ UNCHANGED <<owner, phase, skip, started>>
  BY OnlyRelease DEF Release, KeepInv, RunsInv
<1>3. ~Stopped(r) /\ ~Stopped(r)' /\ Stopped(r)' = Stopped(r)
  BY <1>1, <1>2 DEF Stopped
<1>4. TaskView(r, t) = "active" /\ TaskView(r, t)' = "released"
  BY <1>1, <1>2, <1>3, ViewNow, ViewNext DEF LeftOut
<1>5. \A u \in Tasks \ {t} : TaskView(r, u)' = TaskView(r, u)
  BY <1>2, <1>3, ViewNow, ViewNext DEF LeftOut
<1>6. RunOf(r)!Move(t, "released")
  BY <1>3, <1>4, <1>5, SeenMove
<1>7. [u \in Tasks |-> IF u \in started[r] THEN 1 ELSE 0]' = [u \in Tasks |-> IF u \in started[r] THEN 1 ELSE 0]
  BY <1>2
<1>8. RunOf(r)!Release(t)
  BY <1>3, <1>4, <1>6, <1>7 DEF RunOf!Release
<1> QED BY <1>1, <1>2, <1>8 DEF RunOf!Next, Orderly, KeepInv

LEMMA KeepEnds ==
  ASSUME KeepInv, NEW r \in RunIds, Complete(r) \/ Brake(r) \/ \E t \in Tasks : Fail(r, t)
  PROVE  RunOf(r)!Next /\ Orderly(r)'
<1>1. phase[r] = "work" /\ owner[r] = "live"
  BY DEF Complete, Brake, Fail, Working
<1>2. phase'[r] \in {"ended", "braked"} /\ UNCHANGED <<released, started, skip>>
  BY OnlyEnds DEF KeepInv, RunsInv, OnlyRun
<1>3. mem[r] \in RunState /\ \A t \in skip[r] : mem[r].tasks[t] = "Skipped"
  BY <1>1, AtWork DEF LeftOut
<1>4. \A t \in skip[r] \cap Tasks : mem'[r].tasks[t] = "Skipped"
  <2>1. CASE Complete(r)
    <3>1. Write(r, [mem[r] EXCEPT !.status = "Done"])
      BY <2>1 DEF Complete, EndRun
    <3>2. mem'[r].tasks = mem[r].tasks
      BY <1>3, <3>1, DoneFacts, WriteFacts DEF KeepInv, RunsInv
    <3> QED BY <1>3, <3>2
  <2>2. CASE Brake(r)
    <3>1. Write(r, Cancelled(mem[r]))
      BY <2>2 DEF Brake, EndRun
    <3>2. mem'[r] = Cancelled(mem[r])
      BY <1>3, <3>1, CancelledFacts, WriteFacts DEF KeepInv, RunsInv
    <3> QED BY <1>3, <3>2 DEF Cancelled, Unfinished
  <2>3. CASE \E t \in Tasks : Fail(r, t)
    <3>1. PICK t \in Tasks : Fail(r, t)
      BY <2>3
    <3>2. Write(r, Failed(mem[r], t)) /\ mem[r].tasks[t] = "Running"
      BY <3>1 DEF Fail, EndRun
    <3>3. mem'[r] = Failed(mem[r], t)
      BY <1>3, <3>2, FailedFacts, WriteFacts DEF KeepInv, RunsInv
    <3> QED BY <1>3, <3>2, <3>3 DEF Failed, Unfinished
  <2> QED BY <2>1, <2>2, <2>3
<1>5. ~Stopped(r) /\ Stopped(r)'
  BY <1>1, <1>2 DEF Stopped
<1>6. \A t \in Tasks : LeftOut(r, t)' <=> LeftOut(r, t)
  BY <1>2, <1>3, <1>4 DEF LeftOut
<1>7. RunOf(r)!Next
  BY <1>2, <1>5, <1>6, SeenEnd
<1> QED BY <1>2, <1>7 DEF Orderly

LEMMA KeepDies ==
  ASSUME KeepInv, NEW r \in RunIds, SeedRefused(r) \/ Die(r) \/ ReusePid(r)
  PROVE  (UNCHANGED RunOf(r)!vars \/ RunOf(r)!Next) /\ Orderly(r)'
<1>1. /\ UNCHANGED <<mem, released, started, skip>> /\ owner'[r] = "dead"
      /\ phase'[r] = phase[r] \/ phase'[r] = "ended"
  BY OnlySeedRefused, OnlyDies DEF SeedRefused, Die, ReusePid, KeepInv, RunsInv
<1>2. Stopped(r)' /\ \A t \in Tasks : LeftOut(r, t)' <=> LeftOut(r, t)
  BY <1>1 DEF Stopped, LeftOut
<1>3. UNCHANGED RunOf(r)!vars \/ RunOf(r)!Next
  BY <1>1, <1>2, SeenEnd, SeenNothing
<1> QED BY <1>1, <1>3 DEF Orderly, KeepInv

LEMMA KeepNew ==
  ASSUME KeepInv, NEW r \in RunIds, NEW how \in Origin, Begins(r, how)
  PROVE  UNCHANGED RunOf(r)!vars /\ Orderly(r)'
<1>1. /\ phase[r] \in {"none", "loaded"} /\ owner[r] = "none"
      /\ owner'[r] = "live" /\ phase'[r] = "setup" /\ UNCHANGED <<started, released>>
  BY NewBegun DEF KeepInv
<1>2. released[r] = {} /\ \A t \in Tasks : mem[r].tasks[t] = "Pending"
  BY <1>1 DEF KeepInv, RunsInv, Begun, Orderly
<1>3. \A t \in Tasks : mem'[r].tasks[t] = "Pending"
  BY NewRunFacts, NoStateType DEF Begins, KeepInv, RunsInv
<1>4. ~Stopped(r) /\ ~Stopped(r)'
  BY <1>1 DEF Stopped
<1>5. \A t \in Tasks : TaskView(r, t)' = TaskView(r, t)
  BY <1>1, <1>2, <1>3, <1>4, ViewNow, ViewNext DEF LeftOut
<1>6. UNCHANGED RunOf(r)!vars
  BY <1>1, <1>4, <1>5, SeenUnchanged
<1> QED BY <1>1, <1>3, <1>6 DEF Orderly

LEMMA KeepPrepares ==
  ASSUME KeepInv, NEW r \in RunIds, Prepares(r)
  PROVE  UNCHANGED RunOf(r)!vars /\ Orderly(r)'
<1>1. /\ phase[r] \in {"none", "loaded"} /\ phase'[r] \in {"none", "loaded"}
      /\ UNCHANGED <<mem, owner, started, released>>
  BY DEF Prepares
<1>2. \A t \in Tasks : mem[r].tasks[t] = "Pending"
  BY <1>1 DEF KeepInv, Orderly
<1>3. Stopped(r)' <=> Stopped(r)
  BY <1>1 DEF Stopped
<1>4. \A t \in Tasks : TaskView(r, t)' = TaskView(r, t)
  BY <1>1, <1>2, <1>3, ViewNow, ViewNext DEF LeftOut
<1>5. UNCHANGED RunOf(r)!vars
  BY <1>1, <1>3, <1>4, SeenUnchanged
<1> QED BY <1>1, <1>2, <1>5 DEF Orderly

(* Whatever happens, for each run it is a step of the promise or none.      *)
LEMMA KeepStep ==
  ASSUME KeepInv, [Next]_vars, NEW q \in RunIds
  PROVE  (UNCHANGED RunOf(q)!vars \/ RunOf(q)!Next) /\ Orderly(q)'
<1>0. Orderly(q)
  BY DEF KeepInv
<1>1. CASE \E r \in RunIds : StartStep(r)
  <2>1. PICK r \in RunIds : StartStep(r)
    BY <1>1
  <2>2. CASE q = r
    BY <2>1, <2>2, Starts, KeepNew, KeepPrepares DEF KeepInv, RunsInv
  <2>3. CASE q # r
    <3>1. /\ mem'[q] = mem[q] /\ owner'[q] = owner[q] /\ phase'[q] = phase[q]
          /\ skip'[q] = skip[q] /\ released'[q] = released[q] /\ started'[q] = started[q]
      BY <2>1, <2>3, StartsAside DEF KeepInv
    <3> QED BY <1>0, <3>1, SeenNothing DEF Stopped, Orderly
  <2> QED BY <2>2, <2>3
<1>2. CASE \E r \in RunIds : OwnerStep(r) \/ Die(r) \/ ReusePid(r)
  <2>1. PICK r \in RunIds : OwnerStep(r) \/ Die(r) \/ ReusePid(r)
    BY <1>2
  <2>2. CASE q = r
    BY <2>1, <2>2, KeepSetUp, KeepStart, KeepFinish, KeepRelease, KeepEnds, KeepDies DEF OwnerStep
  <2>3. CASE q # r
    <3>1. /\ mem'[q] = mem[q] /\ owner'[q] = owner[q] /\ phase'[q] = phase[q]
          /\ skip'[q] = skip[q] /\ released'[q] = released[q] /\ started'[q] = started[q]
      BY <2>1, <2>3, OnlySteps DEF KeepInv, RunsInv, OnlyRun
    <3> QED BY <1>0, <3>1, SeenNothing DEF Stopped, Orderly
  <2> QED BY <2>2, <2>3
<1>3. CASE \/ UNCHANGED vars
           \/ \E c \in Cancellers : CancelStep(c)
           \/ \E c \in Cancellers : RequestNoRun(c) \/ \E r \in RunIds, literal \in BOOLEAN : Request(c, r, literal)
           \/ DraftWrite \/ \E r \in RunIds : DraftLoad(r)
  <2>1. UNCHANGED <<mem, owner, phase, skip, released, started>>
    BY <1>3, Beside DEF KeepInv
  <2> QED BY <1>0, <2>1, SeenNothing DEF Stopped, Orderly
<1> QED BY <1>1, <1>2, <1>3 DEF Next

LEMMA KeepInit == Init => KeepInv /\ \A r \in RunIds : RunOf(r)!Init
<1> SUFFICES ASSUME Init PROVE KeepInv /\ \A r \in RunIds : RunOf(r)!Init
  OBVIOUS
<1>1. \A r \in RunIds : /\ phase[r] = "none" /\ owner[r] = "none" /\ released[r] = {} /\ started[r] = {}
                        /\ \A t \in Tasks : mem[r].tasks[t] = "Pending"
  BY NoStateType DEF Init
<1>2. KeepInv
  BY <1>1, RunsInit DEF KeepInv, Orderly
<1> SUFFICES ASSUME NEW r \in RunIds PROVE RunOf(r)!Init
  BY <1>2
<1>3. ~Stopped(r) /\ Stopped(r) = FALSE
  BY <1>1 DEF Stopped
<1>4. [t \in Tasks |-> TaskView(r, t)] = [t \in Tasks |-> "waiting"]
  BY <1>1, <1>3, ViewNow DEF LeftOut
<1>5. [t \in Tasks |-> IF t \in started[r] THEN 1 ELSE 0] = [t \in Tasks |-> 0]
  BY <1>1
<1> QED BY <1>3, <1>4, <1>5, DepsAssumption DEF RunOf!Init

LEMMA PromiseKept == Spec => []KeepInv
<1>1. Init => KeepInv
  BY KeepInit
<1>2. KeepInv /\ [Next]_vars => KeepInv'
  BY KeepStep, RunsStep DEF KeepInv
<1> QED BY <1>1, <1>2, PTL DEF Spec

(* A run that resumes, is cancelled or dies among others is to TaskGraphRun *)
(* the run RunExecutor is: it begins a task only behind what it released or *)
(* left out, once, and what it released stays so, whatever the commands of  *)
(* other processes do to its file (src/cli/commands/run.rs,                 *)
(* src/scheduler/liveness.rs, src/cli/commands/pr.rs).                      *)
THEOREM EachRunImplementsPromise ==
  ASSUME NEW r \in RunIds
  PROVE  Spec => RunOf(r)!Spec
<1>1. Init => RunOf(r)!Init
  BY KeepInit
<1>2. KeepInv /\ [Next]_vars => [RunOf(r)!Next]_(RunOf(r)!vars)
  BY KeepStep
<1> QED BY <1>1, <1>2, PromiseKept, PTL DEF Spec, RunOf!Spec

(* The same of all the runs of a control directory together.                *)
THEOREM RunsKeepThePromise == Spec => EveryRunKeepsThePromise
<1> DEFINE Keeps == \A r \in RunIds : UNCHANGED RunOf(r)!vars \/ RunOf(r)!Next
<1>1. Init => \A r \in RunIds : RunOf(r)!Init
  BY KeepInit
<1>2. KeepInv /\ [Next]_vars => [Keeps]_vars
  BY KeepStep
<1>3. Spec => [][Keeps]_vars
  BY <1>2, PromiseKept, PTL DEF Spec
<1> QED BY <1>1, <1>3, PTL DEF Spec, EveryRunKeepsThePromise
==============================================================================
