------------------------------ MODULE Recovery ------------------------------
(***************************************************************************)
(* The runs of one plan over one control directory: fresh runs, resume and *)
(* rerun (src/cli/commands/run.rs), cancel requests from the CLI and the   *)
(* server, and the forced cancel of a run whose owner is gone              *)
(* (src/scheduler/liveness.rs).                                            *)
(*                                                                         *)
(* A run is owned by one process, which keeps its state in memory and      *)
(* writes it to RUN_STATE.json at every step.  A command that resumes or   *)
(* reruns loads the state of an earlier run, and a resume then tests the   *)
(* pid of its owner, before it becomes the owner of a run of its own.      *)
(* Cancel commands are other processes: each writes a marker, loads the    *)
(* state, tests the owner's pid and may write the state it loaded back.    *)
(* `maestro pr draft`                                                      *)
(* (src/cli/commands/pr.rs) loads the state, waits for gh and writes it    *)
(* back whole.  All of them interleave with the owner, with its death and  *)
(* with each other.  What RunExecutor says of the inside of a run is       *)
(* reduced here to the statuses a later run or a command can read.         *)
(*                                                                         *)
(* Abstracted: retries, gates and parallel limits (RunExecutor has them);  *)
(* a patch is integrated or it is not; every run has the same plan.        *)
(***************************************************************************)
EXTENDS Integers, FiniteSets, Sequences

CONSTANTS
  Tasks,        \* task ids of the plan
  Deps,         \* Deps[t]: depends_on
  MaxRuns,      \* bound: runs started on this control directory
  Cancellers,   \* processes that execute one cancel command each
  Limits        \* bounds of a behaviour: how many runs are started, how many
                \* of them live at a time, how many commands have loaded a
                \* state and not started a run at a time, who cancels, how many
                \* pids of dead owners are given away, how many pull requests
                \* are drafted (one at most)

ASSUME DepsAssumption  == Deps \in [Tasks -> SUBSET Tasks]
ASSUME RunsAssumption  == MaxRuns \in Nat
ASSUME CancellersAssumption == IsFiniteSet(Cancellers)
ASSUME LimitAssumption == Limits \subseteq [runs : Nat, live : Nat, loaded : Nat, cancels : SUBSET Cancellers,
                                          pids : Nat, drafts : Nat]

RunIds  == 1 .. MaxRuns          \* in the order they were started
NoRun   == 0
Current == MaxRuns + 1           \* the literal id "current"

Statuses   == {"Pending", "Running", "Done", "Failed", "Skipped", "Cancelled"}
Unfinished == {"Pending", "Running"}
RunState   == [status : {"none", "Running", "Done", "Failed", "Cancelled"},
               tasks : [Tasks -> Statuses]]
NoState    == [status |-> "none", tasks |-> [t \in Tasks |-> "Pending"]]

Ways   == {"run", "resume", "forced", "from"}
Origin == [way : Ways, source : RunIds \cup {NoRun}]

VARIABLES
  limit,     \* the bounds of this behaviour, never changed
  disk,      \* RUN_STATE.json of each run
  mem,       \* the state each owner has in memory
  owner,     \* the process of each run: "none", "live" or "dead"
  reused,    \* runs whose dead owner's pid belongs to another process now
  phase,     \* how far each run is: "none", "loaded" (its command has read the
             \* state it starts from), "setup", "work", "ended", "braked"
  origin,    \* the command that started each run
  skip,      \* ExecConfig.skip of each run
  seed,      \* the skipped tasks whose outputs it was given
  released,  \* tasks integrated by each run
  started,   \* tasks each run has dispatched
  current,   \* the `current` link
  markers,   \* cancel marker files
  cmd,       \* the cancel command of each canceller
  doctor,    \* sequence numbers of the doctor findings of each run
  draft,     \* the `pr draft` command: the run it loaded, and its state
  undone,    \* Done tasks that a command took off the disk (a ghost)
  crowded,   \* runs two cancellers forced at once (a ghost)
  drafted,   \* runs whose state a pull request draft wrote back (a ghost)
  seen       \* what the source of each run had released when the command
             \* loaded its state (a ghost)

runVars  == <<disk, mem, owner, reused, phase, origin, skip, seed, released, started, current>>
cmdVars  == <<markers, cmd, doctor>>
fixVars  == <<limit, draft, undone, crowded, drafted, seen>>
vars     == <<runVars, cmdVars, fixVars>>

Fresh == [way |-> "run", source |-> NoRun]
Idle == [pc |-> "idle", target |-> NoRun, marker |-> NoRun, snap |-> NoState, last |-> 0]
Command == [pc : {"idle", "load", "probe", "write", "ledger", "append", "done"},
            target : RunIds \cup {NoRun}, marker : RunIds \cup {NoRun, Current},
            snap : RunState, last : Nat]
NoDraft == [pc |-> "idle", target |-> NoRun, snap |-> NoState]

TypeOK ==
  /\ limit \in Limits
  /\ disk \in [RunIds -> RunState] /\ mem \in [RunIds -> RunState]
  /\ owner \in [RunIds -> {"none", "live", "dead"}]
  /\ reused \subseteq RunIds
  /\ phase \in [RunIds -> {"none", "loaded", "setup", "work", "ended", "braked"}]
  /\ origin \in [RunIds -> Origin]
  /\ skip \in [RunIds -> SUBSET Tasks] /\ seed \in [RunIds -> SUBSET Tasks]
  /\ released \in [RunIds -> SUBSET Tasks] /\ started \in [RunIds -> SUBSET Tasks]
  /\ current \in RunIds \cup {NoRun}
  /\ markers \subseteq RunIds \cup {Current}
  /\ cmd \in [Cancellers -> Command]
  /\ doctor \in [RunIds -> Seq(Nat)]
  /\ undone \in [RunIds -> SUBSET Tasks] /\ seen \in [RunIds -> SUBSET Tasks]
  /\ crowded \subseteq RunIds /\ drafted \subseteq RunIds
  /\ draft \in [pc : {"idle", "loaded", "done"}, target : RunIds \cup {NoRun}, snap : RunState]

Init ==
  /\ limit \in Limits
  /\ disk = [r \in RunIds |-> NoState] /\ mem = disk
  /\ owner = [r \in RunIds |-> "none"]
  /\ reused = {}
  /\ phase = [r \in RunIds |-> "none"]
  /\ origin = [r \in RunIds |-> Fresh]
  /\ skip = [r \in RunIds |-> {}] /\ seed = [r \in RunIds |-> {}]
  /\ released = [r \in RunIds |-> {}] /\ started = [r \in RunIds |-> {}]
  /\ current = NoRun
  /\ markers = {}
  /\ cmd = [c \in Cancellers |-> Idle]
  /\ doctor = [r \in RunIds |-> <<>>]
  /\ undone = [r \in RunIds |-> {}] /\ seen = [r \in RunIds |-> {}]
  /\ crowded = {} /\ drafted = {}
  /\ draft = NoDraft

------------------------------------------------------------------------------
(* The task graph, as compute_rerun_skip walks it.                          *)

Least(T, step) ==     \* what is reached from T by the relation step
  {t \in Tasks : \A S \in SUBSET Tasks :
                   T \subseteq S /\ (\A u \in S : step[u] \subseteq S) => t \in S}
Users == [d \in Tasks |-> {t \in Tasks : d \in Deps[t]}]
Roots == {t \in Tasks : Deps[t] = {}}
Upstream(t)   == Least(Deps[t], Deps)
Downstream(t) == Least({t}, Users)

(* The tasks run_plan queues at the start: it walks from the roots and goes *)
(* on behind filtered tasks only.                                           *)
RootsOnly(filtered) == Roots \ filtered                                  \* mutant
InitialWork(filtered) ==
  Least(Roots, [d \in Tasks |-> IF d \in filtered
                                 THEN {t \in Users[d] : Deps[t] \subseteq filtered}
                                 ELSE {}]) \ filtered

FinishedIn(state) == {t \in Tasks : state.tasks[t] = "Done"}

(* compute_rerun_skip without --only and --skip, given the current run's   *)
(* state (NoState when there is none).                                     *)
RerunSkip(from, state) == Upstream(from) \cup (FinishedIn(state) \ Downstream(from))

(* classify_run: the pid answers, whoever it belongs to.                    *)
NeverLive(r) == FALSE                                                     \* mutant
Live(r)      == owner[r] = "live" \/ r \in reused

(* force_cancel_if_abandoned and mark_unfinished_tasks_cancelled.           *)
Cancelled(state) ==
  [ status |-> "Cancelled",
    tasks  |-> [t \in Tasks |-> IF state.tasks[t] \in Unfinished THEN "Cancelled"
                                ELSE state.tasks[t]] ]

(* mark_blocked_pending_tasks, then mark_unfinished_tasks_cancelled.        *)
Blocked(tasks, t) ==
  Least({t}, [d \in Tasks |-> {u \in Users[d] : tasks[u] = "Pending"}]) \ {t}

Failed(state, t) ==
  [ status |-> "Failed",
    tasks  |-> [u \in Tasks |-> IF u = t THEN "Failed"
                                ELSE IF u \in Blocked(state.tasks, t) THEN "Skipped"
                                ELSE IF state.tasks[u] \in Unfinished THEN "Cancelled"
                                ELSE state.tasks[u]] ]

------------------------------------------------------------------------------
(* Starting a run.  run_plan points `current` at the new directory and      *)
(* writes a state with every task Pending before it looks at the filters.   *)

(* write_atomic, by the owner.                                              *)
Write(r, state) == /\ mem' = [mem EXCEPT ![r] = state]
                   /\ disk' = [disk EXCEPT ![r] = state]

NewRun(r, how) ==
  /\ \A q \in RunIds : q < r => owner[q] # "none"
  /\ Cardinality({q \in RunIds : owner[q] = "live"}) < limit.live
  /\ Write(r, [NoState EXCEPT !.status = "Running"])
  /\ owner' = [owner EXCEPT ![r] = "live"]
  /\ phase' = [phase EXCEPT ![r] = "setup"]
  /\ origin' = [origin EXCEPT ![r] = how]
  /\ current' = r
  /\ UNCHANGED <<reused, skip, seed, released, started, cmdVars, fixVars>>

Unused(r) == phase[r] = "none" /\ r <= limit.runs

(* `maestro run`; also `maestro rerun` without --from, which the server's    *)
(* Rerun button runs: compute_rerun_skip then returns the --skip list alone,*)
(* here empty, so nothing is seeded.                                        *)
Run(r) == Unused(r) /\ NewRun(r, Fresh)

(* The other commands load the state of the run they recover, or none, and  *)
(* settle what to skip and to seed; how far everybody else gets before they *)
(* start is open.                                                           *)
LoadSource(r, how, s) ==
  LET q == how.source
  IN  /\ Unused(r)
      /\ Cardinality({p \in RunIds : phase[p] = "loaded"}) < limit.loaded
      /\ phase' = [phase EXCEPT ![r] = "loaded"]
      /\ origin' = [origin EXCEPT ![r] = how]
      /\ skip' = [skip EXCEPT ![r] = s]
      /\ seed' = [seed EXCEPT ![r] = IF q = NoRun THEN {} ELSE s \cap FinishedIn(disk[q])]
      /\ seen' = [seen EXCEPT ![r] = IF q = NoRun THEN {} ELSE released[q]]
      /\ UNCHANGED <<disk, mem, owner, reused, released, started, current, cmdVars, limit,
                     draft, undone, crowded, drafted>>

OrSkipped(state)  == {t \in Tasks : state.tasks[t] \in {"Done", "Skipped"}}  \* mutant
Nothing(state)    == {}                                                      \* mutant
Resumable(state)  == FinishedIn(state)

(* resume: the run named, or the current one; nothing to do when every task *)
(* is Done.                                                                 *)
ResumeLoad(r, q) ==
  /\ disk[q].status # "none"
  /\ FinishedIn(disk[q]) # Tasks
  /\ LoadSource(r, [way |-> "resume", source |-> q], Resumable(disk[q]))

(* Its probe: refused while the pid of the run it read answers, unless with *)
(* --force.  From there to run_plan it reads nothing that others write.     *)
Resuming(r) == phase[r] = "loaded" /\ origin[r].way = "resume"
Resume(r)      == Resuming(r) /\ ~Live(origin[r].source) /\ NewRun(r, origin[r])
ForceResume(r) == Resuming(r) /\ Live(origin[r].source)
                  /\ NewRun(r, [origin[r] EXCEPT !.way = "forced"])

ResumeRefused(r) ==
  /\ Resuming(r) /\ Live(origin[r].source)
  /\ phase' = [phase EXCEPT ![r] = "none"]
  /\ origin' = [origin EXCEPT ![r] = Fresh]
  /\ skip' = [skip EXCEPT ![r] = {}] /\ seed' = [seed EXCEPT ![r] = {}]
  /\ seen' = [seen EXCEPT ![r] = {}]
  /\ UNCHANGED <<disk, mem, owner, reused, released, started, current, cmdVars, limit,
                 draft, undone, crowded, drafted>>

(* rerun: the outputs to seed come from the current run, whatever it is.    *)
RerunLoad(r, t) ==
  LET state == IF current = NoRun THEN NoState ELSE disk[current]
  IN  LoadSource(r, [way |-> "from", source |-> current], RerunSkip(t, state))

RerunFrom(r) == phase[r] = "loaded" /\ origin[r].way = "from" /\ NewRun(r, origin[r])

(* Filtered tasks become Skipped, their seeds are integrated, the state is  *)
(* written.                                                                 *)
SetUp(r) ==
  /\ phase[r] = "setup" /\ owner[r] = "live"
  /\ phase' = [phase EXCEPT ![r] = "work"]
  /\ Write(r, [mem[r] EXCEPT !.tasks = [t \in Tasks |-> IF t \in skip[r] THEN "Skipped"
                                                        ELSE @[t]]])
  /\ UNCHANGED <<owner, reused, origin, skip, seed, released, started, current, cmdVars, fixVars>>

(* A seed that does not apply ends run_plan with an error and the state as  *)
(* it was first written.                                                    *)
SeedRefused(r) ==
  /\ phase[r] = "setup" /\ owner[r] = "live" /\ seed[r] # {}
  /\ phase' = [phase EXCEPT ![r] = "ended"]
  /\ owner' = [owner EXCEPT ![r] = "dead"]
  /\ UNCHANGED <<disk, mem, reused, origin, skip, seed, released, started, current, cmdVars, fixVars>>

------------------------------------------------------------------------------
(* The owner at work.                                                       *)

Working(r) == phase[r] = "work" /\ owner[r] = "live"
SetTask(r, t, s) == Write(r, [mem[r] EXCEPT !.tasks[t] = s])

(* Queued at the start, or behind a producer that was released since.       *)
Reached(r, t) == t \in InitialWork(skip[r]) \/ Deps[t] \cap released[r] # {}
BehindDone(r, t) == Deps[t] \subseteq skip[r] \cup FinishedIn(mem[r])     \* mutant
Ready(r, t)   == Deps[t] \subseteq skip[r] \cup released[r] /\ Reached(r, t)

Start(r, t) ==
  /\ Working(r)
  /\ mem[r].tasks[t] = "Pending"
  /\ Ready(r, t)
  /\ SetTask(r, t, "Running")
  /\ started' = [started EXCEPT ![r] = @ \cup {t}]
  /\ UNCHANGED <<owner, reused, phase, origin, skip, seed, released, current, cmdVars, fixVars>>

(* An attempt succeeded and was joined: Done is on disk before review,      *)
(* approval and integration.                                                *)
Finish(r, t) ==
  /\ Working(r)
  /\ mem[r].tasks[t] = "Running"
  /\ SetTask(r, t, "Done")
  /\ UNCHANGED <<owner, reused, phase, origin, skip, seed, released, started, current,
                 cmdVars, fixVars>>

Release(r, t) ==
  /\ Working(r)
  /\ mem[r].tasks[t] = "Done" /\ t \notin released[r]
  /\ released' = [released EXCEPT ![r] = @ \cup {t}]
  /\ Write(r, mem[r])
  /\ UNCHANGED <<owner, reused, phase, origin, skip, seed, started, current,
                 cmdVars, fixVars>>

EndRun(r, state, how) ==
  /\ Write(r, state)
  /\ phase' = [phase EXCEPT ![r] = how]
  /\ UNCHANGED <<owner, reused, origin, skip, seed, released, started, current, cmd, doctor, fixVars>>

(* A task that failed for good ends the run.                                *)
Fail(r, t) ==
  /\ Working(r)
  /\ mem[r].tasks[t] = "Running"
  /\ EndRun(r, Failed(mem[r], t), "ended")
  /\ UNCHANGED markers

(* The loop ends when nothing is in flight and nothing is ready, even if    *)
(* tasks are left Pending.                                                  *)
Complete(r) ==
  /\ Working(r)
  /\ \A t \in Tasks : \/ t \in skip[r] \cup released[r]
                      \/ mem[r].tasks[t] = "Pending" /\ ~Ready(r, t)
  /\ EndRun(r, [mem[r] EXCEPT !.status = "Done"], "ended")
  /\ UNCHANGED markers

(* check_cancelled: the run's own marker first, then the one named          *)
(* "current", which any run takes.                                          *)
OnlyCurrent(r) == Current                                                 \* mutant
AnyMarker(r)   == IF markers = {} THEN r ELSE CHOOSE m \in markers : TRUE \* mutant
TakesMarker(r) == IF r \in markers THEN r ELSE Current

Brake(r) ==
  /\ Working(r)
  /\ TakesMarker(r) \in markers
  /\ markers' = markers \ {TakesMarker(r)}
  /\ EndRun(r, Cancelled(mem[r]), "braked")

(* The process ends, of its own accord or not; its pid may be given away.   *)
Die(r) ==
  /\ owner[r] = "live"
  /\ owner' = [owner EXCEPT ![r] = "dead"]
  /\ UNCHANGED <<disk, mem, reused, phase, origin, skip, seed, released, started, current,
                 cmdVars, fixVars>>

ReusePid(r) ==
  /\ owner[r] = "dead" /\ r \notin reused
  /\ Cardinality(reused) < limit.pids
  /\ reused' = reused \cup {r}
  /\ UNCHANGED <<disk, mem, owner, phase, origin, skip, seed, released, started, current,
                 cmdVars, fixVars>>

------------------------------------------------------------------------------
(* A cancel command.  The CLI resolves "no id" to the id of the current     *)
(* run; the server writes the marker under the id it was given, which may   *)
(* be the literal "current".                                                *)

(* The next step of command c; what it read is no use after the last one.   *)
Step(c, pc) ==
  cmd' = [cmd EXCEPT ![c].pc = pc, ![c].last = 0,
                     ![c].snap = IF pc = "write" THEN @ ELSE NoState]

Unresolved(r, literal) == IF literal THEN NoRun ELSE r                    \* mutant
MarkerOf(r, literal)   == IF literal THEN Current ELSE r

Request(c, r, literal) ==
  /\ c \in limit.cancels /\ cmd[c].pc = "idle"
  /\ disk[r].status # "none"
  /\ literal => r = current
  /\ markers' = markers \cup {MarkerOf(r, literal)}
  /\ cmd' = [cmd EXCEPT ![c] = [Idle EXCEPT !.pc = "load", !.target = r,
                                            !.marker = MarkerOf(r, literal)]]
  /\ UNCHANGED <<runVars, doctor, fixVars>>

(* The server accepts "current" when there is no current run: the marker    *)
(* stays for the first run to come.                                         *)
RequestNoRun(c) ==
  /\ c \in limit.cancels /\ cmd[c].pc = "idle" /\ current = NoRun
  /\ markers' = markers \cup {Current}
  /\ cmd' = [cmd EXCEPT ![c] = [Idle EXCEPT !.pc = "done", !.marker = Current]]
  /\ UNCHANGED <<runVars, doctor, fixVars>>

NeverOver(state) == FALSE                                                 \* mutant
IsOver(state)    == state.status # "Running"

(* force_cancel_if_abandoned, one read or write at a time.                  *)
Load(c) ==
  LET r == cmd[c].target
  IN  /\ cmd[c].pc = "load"
      /\ IF IsOver(disk[r]) THEN Step(c, "done")
         ELSE cmd' = [cmd EXCEPT ![c].pc = "probe", ![c].snap = disk[r]]
      /\ UNCHANGED <<runVars, markers, doctor, fixVars>>

Probe(c) ==
  /\ cmd[c].pc = "probe"
  /\ Step(c, IF Live(cmd[c].target) THEN "done" ELSE "write")
  /\ UNCHANGED <<runVars, markers, doctor, fixVars>>

Forcing(r) == {c \in Cancellers : cmd[c].target = r
                                  /\ cmd[c].pc \in {"probe", "write", "ledger", "append"}}

Overwrite(c) ==
  LET r == cmd[c].target
  IN  /\ cmd[c].pc = "write"
      /\ disk' = [disk EXCEPT ![r] = Cancelled(cmd[c].snap)]
      /\ undone' = [undone EXCEPT ![r] = @ \cup (FinishedIn(disk[r])
                                                 \ FinishedIn(Cancelled(cmd[c].snap)))]
      /\ crowded' = IF Cardinality(Forcing(r)) > 1 THEN crowded \cup {r} ELSE crowded
      /\ Step(c, "ledger")
      /\ UNCHANGED <<mem, owner, reused, phase, origin, skip, seed, released, started, current,
                     markers, doctor, limit, draft, drafted, seen>>

(* append_finding locks within its own process only: the number it will     *)
(* use is read in one step and written in another.                          *)
ReadLedger(c) ==
  LET file == doctor[cmd[c].target]
  IN  /\ cmd[c].pc = "ledger"
      /\ cmd' = [cmd EXCEPT ![c].pc = "append",
                            ![c].last = IF file = <<>> THEN 0 ELSE file[Len(file)]]
      /\ UNCHANGED <<runVars, markers, doctor, fixVars>>

AppendFinding(c) ==
  LET r == cmd[c].target
  IN  /\ cmd[c].pc = "append"
      /\ doctor' = [doctor EXCEPT ![r] = Append(@, cmd[c].last + 1)]
      /\ Step(c, "done")
      /\ UNCHANGED <<runVars, markers, fixVars>>

------------------------------------------------------------------------------
(* `maestro pr draft` on a run with a completed task.                       *)
DraftLoad(r) ==
  /\ draft.pc = "idle" /\ limit.drafts > 0
  /\ FinishedIn(disk[r]) # {}
  /\ draft' = [pc |-> "loaded", target |-> r, snap |-> disk[r]]
  /\ UNCHANGED <<runVars, cmdVars, limit, undone, crowded, drafted, seen>>

DraftWrite ==
  LET r == draft.target
  IN  /\ draft.pc = "loaded"
      /\ disk' = [disk EXCEPT ![r] = draft.snap]
      /\ undone' = [undone EXCEPT ![r] = @ \cup (FinishedIn(disk[r]) \ FinishedIn(draft.snap))]
      /\ drafted' = drafted \cup {r}
      /\ draft' = [NoDraft EXCEPT !.pc = "done"]
      /\ UNCHANGED <<mem, owner, reused, phase, origin, skip, seed, released, started, current,
                     cmdVars, limit, crowded, seen>>

------------------------------------------------------------------------------
OwnerStep(r) == \/ SetUp(r) \/ SeedRefused(r) \/ Complete(r) \/ Brake(r)
                \/ \E t \in Tasks : Start(r, t) \/ Finish(r, t) \/ Release(r, t) \/ Fail(r, t)

StartStep(r) == \/ Run(r) \/ Resume(r) \/ ForceResume(r) \/ ResumeRefused(r) \/ RerunFrom(r)
                \/ \E q \in RunIds : ResumeLoad(r, q)
                \/ \E t \in Tasks : RerunLoad(r, t)

CancelStep(c) == Load(c) \/ Probe(c) \/ Overwrite(c) \/ ReadLedger(c) \/ AppendFinding(c)

Next == \/ \E r \in RunIds : StartStep(r) \/ OwnerStep(r) \/ Die(r) \/ ReusePid(r) \/ DraftLoad(r)
        \/ DraftWrite
        \/ \E c \in Cancellers : CancelStep(c) \/ RequestNoRun(c)
        \/ \E c \in Cancellers, r \in RunIds, literal \in BOOLEAN : Request(c, r, literal)

Fairness == /\ \A r \in RunIds : WF_vars(SetUp(r)) /\ WF_vars(Brake(r))
            /\ \A c \in Cancellers : WF_vars(CancelStep(c))

Spec == Init /\ [][Next]_vars /\ Fairness

------------------------------------------------------------------------------
(* Properties.                                                              *)

FirstRun(q) == q = NoRun \/ origin[q].way = "run"
FirstRecovery(r) == origin[r].way # "from" /\ FirstRun(origin[r].source)

(* A task is started only when the worktree it will see holds the output of *)
(* each of its producers, seeded or made in this run, in every run but the  *)
(* ones of `rerun --from`, which take the upstream of the named task as     *)
(* given.                                                                   *)
StandsOnOutputs ==
  \A r \in RunIds : origin[r].way # "from" =>
    \A t \in started[r] : Deps[t] \subseteq seed[r] \cup released[r]

(* A run that ends Done has the output of every task, if it is a fresh run  *)
(* or the first recovery of one: its skips are closed under producers, and  *)
(* the walk of run_plan then misses nothing.                                *)
RestIsRun ==
  \A r \in RunIds : FirstRecovery(r) /\ disk[r].status = "Done" =>
    seed[r] \cup released[r] = Tasks

(* Resume does again nothing that the run it resumes had released when the  *)
(* command loaded its state, unless a forced cancel or a pull request draft *)
(* has written an older state over the one that named it.  (What an owner   *)
(* still releases between that load and the probe that finds it dead is     *)
(* done again.)                                                             *)
ReleasedIsNotRedone ==
  \A r, q \in RunIds : origin[r] = [way |-> "resume", source |-> q] =>
    started[r] \cap seen[r] \subseteq undone[q]

(* While a run is at work its file says so, and says it of each task it has *)
(* finished or started: no cancel, resume or rerun writes over the state of *)
(* a live owner; only `pr draft` does.                                      *)
OwnerAgreesWithDisk ==
  \A r \in RunIds \ drafted : Working(r) =>
    /\ disk[r].status = "Running"
    /\ \A t \in started[r] : disk[r].tasks[t] \in {"Running", "Done"}
    /\ released[r] \subseteq FinishedIn(disk[r])

(* A run stops on a cancel request only if one named it, or if one was      *)
(* written under "current".                                                 *)
NamedCancelHitsItsTarget ==
  \A r \in RunIds : phase[r] = "braked" =>
    \E c \in Cancellers : cmd[c].target = r \/ cmd[c].marker = Current

(* A dead run yields one doctor finding, numbered from one, unless two      *)
(* cancel commands forced it at the same time, or a pull request draft made *)
(* it look alive again.                                                     *)
OneDoctorFinding ==
  \A r \in RunIds \ (crowded \cup drafted) : doctor[r] \in {<<>>, <<1>>}

OwnerOf(c) == IF cmd[c].target = NoRun THEN "none" ELSE owner[cmd[c].target]
Ended(c)   == IF cmd[c].target = NoRun THEN FALSE ELSE disk[cmd[c].target].status # "Running"
Named(c)   == cmd[c].pc = "load" /\ cmd[c].marker = cmd[c].target
(* A cancel command on a run whose owner is gone ends it on paper, unless   *)
(* another process has the owner's pid; one on a run at work ends it or the *)
(* owner dies first.  (`pr draft` can undo either.)                         *)
CancelEndsTheRun ==
  \A c \in Cancellers :
    /\ (Named(c) /\ OwnerOf(c) = "dead") ~> (Ended(c) \/ cmd[c].target \in reused \cup drafted)
    /\ (Named(c) /\ OwnerOf(c) = "live") ~>
         (Ended(c) \/ OwnerOf(c) = "dead" \/ cmd[c].target \in drafted)

(* Each run on its own, as TaskGraphRun sees it.  Retries are abstracted    *)
(* here, so work on a task begins once; what is left when the owner ends or *)
(* dies is dropped.                                                         *)
Stopped(r) == phase[r] \in {"ended", "braked"} \/ owner[r] = "dead"
TaskView(r, t) ==
  CASE t \in released[r] -> "released"
    [] t \notin released[r] /\ t \in skip[r] /\ mem[r].tasks[t] = "Skipped" -> "leftOut"
    [] t \notin released[r] /\ ~(t \in skip[r] /\ mem[r].tasks[t] = "Skipped") /\ Stopped(r) -> "dropped"
    [] t \notin released[r] /\ ~Stopped(r) /\ mem[r].tasks[t] \in {"Running", "Done"} -> "active"
    [] OTHER -> "waiting"

RunOf(r) == INSTANCE TaskGraphRun WITH
  MaxTries <- 1,
  deps     <- Deps,
  phase    <- [t \in Tasks |-> TaskView(r, t)],
  tries    <- [t \in Tasks |-> IF t \in started[r] THEN 1 ELSE 0],
  over     <- Stopped(r)

(* Whatever recovers, cancels, dies or drafts around it, every run keeps the*)
(* promise that RunExecutor keeps: no other process can make it start a task*)
(* early or twice, or take back what it released.                           *)
EveryRunKeepsThePromise ==
  /\ \A r \in RunIds : RunOf(r)!Init
  /\ [][\A r \in RunIds : UNCHANGED RunOf(r)!vars \/ RunOf(r)!Next]_vars

Resumes(r, p) == origin[r] = [way |-> "resume", source |-> p]
(* "Continue an interrupted run without redoing completed work": said of    *)
(* every resume, the resume of a resumed run included, and of the work that *)
(* was completed when the first command read the state.                     *)
ResumeRedoesNothing ==
  \A r, p, q \in RunIds : /\ Resumes(r, p) => started[r] \cap seen[r] = {}
                          /\ Resumes(r, p) /\ Resumes(p, q) => started[r] \cap seen[p] = {}
==============================================================================
