----------------------------- MODULE RunExecutor -----------------------------
(***************************************************************************)
(* The dispatch loop of a run: `run_plan` in src/scheduler/executor.rs and *)
(* the handlers it calls.                                                  *)
(*                                                                         *)
(* Three kinds of actor interleave:                                        *)
(*   - the scheduler, one sequential loop.  pc is the handler it is about  *)
(*     to run; every handler is one action per outcome;                    *)
(*   - the attempts it spawned into the JoinSet `running` (here jobs), each*)
(*     of which ends in its own time and writes the shared RunState itself;*)
(*   - the outside: peers writing blocking mail, humans writing approval   *)
(*     and cancel markers, and the machine, which may kill the process.    *)
(*                                                                         *)
(* status is the RunState in memory, disk the copy write_state last put in *)
(* RUN_STATE.json, which is all that a crash leaves behind.                *)
(*                                                                         *)
(* Abstracted: the order of the ready queue (a bag, popped in any order),  *)
(* what an agent does (an attempt ends with a low-risk success, a high-risk*)
(* success or an error signature), token counts (over the cap or not),     *)
(* time (the mail stall is counted in polls), and the acceptance checks.   *)
(*                                                                         *)
(* An operator marked "mutant" is a plausible wrong version of the one that*)
(* follows it; no definition uses it.                                      *)
(***************************************************************************)
EXTENDS Integers, FiniteSets

CONSTANTS
  Tasks,        \* task ids of PLAN.yaml
  Runs,         \* the (plan, configuration) pairs a behaviour may start with
  Errors,       \* normalised error signatures (`error_signature`)
  MaxRetries,   \* DEFAULT_MAX_RETRIES
  MailPolls,    \* BLOCKED_MAIL_TIMEOUT counted in polls of the stalled loop
  NoTask        \* not a task: what `cur` holds between two joins

GatePlan    == "__gate_plan__"
GateOutcome == "__gate_outcome__"
GateKeys    == Tasks \cup {GatePlan, GateOutcome}
Markers     == {"none", "old", "ours", "theirs"}

(* What a run is started with.  need[t][d] counts how often task t lists d *)
(* in depends_on: Plan::validate accepts a repeated entry, and TaskGraph   *)
(* adds one edge per entry.  filtered is --skip together with what --only  *)
(* leaves out; gated has requires_approval_after; reviewed has a reviewer; *)
(* misreviewed names a review profile that is missing or disabled; mailable*)
(* are the Agent tasks a peer may address blocking mail to; shared: at the *)
(* same time another run of the workspace waits at gates of the same names.*)
RunType ==
  [ need : [Tasks -> [Tasks -> Nat]], filtered : SUBSET Tasks,
    gated : SUBSET Tasks, reviewed : SUBSET Tasks, misreviewed : SUBSET Tasks,
    mailable : SUBSET Tasks, width : Nat, continueOnError : BOOLEAN,
    gateHighRisk : BOOLEAN, refuteHighRisk : BOOLEAN, capped : BOOLEAN,
    planGate : BOOLEAN, outcomeGate : BOOLEAN, shared : BOOLEAN ]

OkResults == {"low", "high"}        \* classified risk of what succeeded
Results   == OkResults \cup Errors
NoError   == "none"

ASSUME RunsAssumption   == Runs \subseteq RunType
ASSUME TasksAssumption  == /\ IsFiniteSet(Tasks)
                           /\ NoTask \notin Tasks
                           /\ {GatePlan, GateOutcome} \cap (Tasks \cup {NoTask}) = {}
ASSUME ErrorsAssumption == Errors \cap (OkResults \cup {"busy", NoError}) = {}
ASSUME BoundsAssumption == MaxRetries \in Nat /\ MailPolls \in Nat

Statuses == { "Pending", "Running", "AwaitingApproval", "Done", "Failed",
              "Skipped", "Cancelled" }
Unfinished  == {"Pending", "Running", "AwaitingApproval"}
RunStatuses == {"Running", "Done", "Failed", "Cancelled"}

(* One spawned attempt: its task, its ordinal among the attempts of that   *)
(* task, and its result once it has ended.                                 *)
Job   == [task : Tasks, att : Nat, res : Results \cup {"busy"}]
NoJob == [task |-> NoTask, att |-> 0, res |-> "busy"]

Handlers == { "failure", "review", "budget", "approval", "approve",
              "integrate" }
Final    == {"ended", "crashed"}
PCs      == Handlers \cup Final \cup
            { "planGate", "setup", "top", "dispatch", "poll", "join",
              "finalize", "outcome" }

VARIABLES
  run,          \* Plan and ExecConfig, never changed
  pc,           \* where the scheduler is
  cur,          \* the joined attempt a handler is working on, or NoJob
  status,       \* RunState.tasks[*].status in memory
  disk,         \* the same as last written to RUN_STATE.json
  runStatus,    \* RunState.status
  ready,        \* `ready`: how often each task is queued
  jobs,         \* `running`: attempts spawned and not yet joined
  blocked,      \* `blocked`: set aside by the blocking-mail gate
  completed,    \* `completed`: tasks that satisfy dependency gates
  retries,      \* `retries_used`
  lastErr,      \* `last_errors`
  spawned,      \* attempts spawned so far, per task
  hadFailure, cancelled, budgetTripped,
  overCap,      \* token usage has crossed the cap
  stall,        \* `all_blocked_since`, in polls
  marker,       \* approval marker files, one per gate key for all runs:
                \* absent, older than the grace, or fresher and written for
                \* this run ("ours") or for another one ("theirs")
  cancelMark,   \* the cancel marker file: one request per run
  mail,         \* the blocking message addressed to a task
  answered,     \* gates of this run a human answered while they were open,
                \* or less than the grace before (for properties)
  lent          \* the same for answers meant for another run

loopVars == <<ready, jobs, blocked, completed, retries, lastErr, spawned>>
flagVars == <<hadFailure, cancelled, budgetTripped, overCap, stall>>
askVars  == <<answered, lent>>
envVars  == <<marker, cancelMark, mail, askVars>>
vars == <<run, pc, cur, status, disk, runStatus, loopVars, flagVars, envVars>>

TypeOK ==
  /\ run \in Runs
  /\ pc \in PCs
  /\ cur \in Job \cup {NoJob}
  /\ status \in [Tasks -> Statuses]
  /\ disk \in [Tasks -> Statuses]
  /\ runStatus \in RunStatuses
  /\ ready \in [Tasks -> Nat]
  /\ jobs \subseteq Job
  /\ blocked \subseteq Tasks
  /\ completed \subseteq Tasks
  /\ retries \in [Tasks -> 0 .. MaxRetries]
  /\ lastErr \in [Tasks -> Errors \cup {NoError}]
  /\ spawned \in [Tasks -> Nat]
  /\ hadFailure \in BOOLEAN /\ cancelled \in BOOLEAN
  /\ budgetTripped \in BOOLEAN /\ overCap \in BOOLEAN
  /\ stall \in 0 .. MailPolls
  /\ marker \in [GateKeys -> Markers]
  /\ cancelMark \in {"none", "set", "taken"}
  /\ mail \in [Tasks -> {"none", "open", "resolved"}]
  /\ answered \subseteq GateKeys /\ lent \subseteq GateKeys

------------------------------------------------------------------------------
(* The task graph.  TaskGraph::downstream lists a task once per edge.      *)

Deps(t)  == {d \in Tasks : run.need[t][d] > 0}
IsRoot(t) == Deps(t) = {}

SomeDepDone(done, t) == Deps(t) \cap done # {} \/ IsRoot(t)   \* mutant
AllDepsDone(done, t) == Deps(t) \subseteq done

(* What the expansion loop of run_plan walks: the roots and, through tasks *)
(* that are filtered out, the downstream tasks whose dependencies are all  *)
(* filtered out.  The walk is the least set closed under that rule.        *)
RootsClosed(S) == \A t \in Tasks : IsRoot(t) => t \in S         \* mutant
WalkClosed(S) ==
  /\ \A t \in Tasks : IsRoot(t) => t \in S
  /\ \A t \in S \cap run.filtered, d \in Tasks :
        t \in Deps(d) /\ AllDepsDone(run.filtered, d) => d \in S
InitialWork ==
  {t \in Tasks \ run.filtered : \A S \in SUBSET Tasks : WalkClosed(S) => t \in S}

Width == IF run.width < 1 THEN 1 ELSE run.width
HasReady == \E t \in Tasks : ready[t] > 0
HasWork  == HasReady \/ jobs # {} \/ blocked # {}
NothingReady == [t \in Tasks |-> 0]

(* Tasks whose producer failed, and in turn their consumers: the fixpoint  *)
(* of mark_blocked_pending_tasks over the tasks still Pending.             *)
BlameDirect(S) ==                                               \* mutant
  \A t \in Tasks :
    status[t] = "Pending" /\ (\E d \in Deps(t) : status[d] = "Failed") => t \in S
BlameClosed(S) ==
  \A t \in Tasks :
    /\ status[t] = "Pending"
    /\ \E d \in Deps(t) : status[d] = "Failed" \/ d \in S
    => t \in S
BlockedByFailure ==
  {t \in Tasks : \A S \in SUBSET Tasks : BlameClosed(S) => t \in S}

(* A handler that gives up: under --continue-on-error the loop goes on to  *)
(* `next`, otherwise every attempt is aborted and drained and the loop ends*)
StopWithoutAbort(next) ==                                        \* mutant
  /\ hadFailure' = TRUE
  /\ pc' = IF run.continueOnError THEN next ELSE "finalize"
  /\ UNCHANGED jobs
StopOrGoOn(next) ==
  /\ hadFailure' = TRUE
  /\ pc' = IF run.continueOnError THEN next ELSE "finalize"
  /\ jobs' = IF run.continueOnError THEN jobs ELSE {}

(* check_cancelled saw the marker and removed it; the attempts are aborted.*)
CancelSeenWhileBusy == cancelMark = "set" /\ jobs # {}          \* mutant
CancelSeen == cancelMark = "set"
CancelLoop ==
  /\ CancelSeen
  /\ cancelMark' = "taken"
  /\ cancelled' = TRUE
  /\ jobs' = {}
  /\ pc' = "finalize"

(* Set one task's status and persist it (a locked update and write_state). *)
SetStatus(t, st) ==
  /\ status' = [status EXCEPT ![t] = st]
  /\ disk' = status'

DropMarker(k) == marker' = [marker EXCEPT ![k] = "none"]
(* Only a marker written since the gate opened (less the grace) releases   *)
(* it.  The file does not say which run it was written for.                *)
AnyMarkerReleases(k) == marker[k] # "none"                      \* mutant
Releases(k) == marker[k] \in {"ours", "theirs"}

(* Between the writing of a marker and the opening of the gate it answers, *)
(* more or less than the two seconds of grace may pass.                    *)
OpenMarker(k) ==
  \E age \in IF marker[k] \in {"ours", "theirs"} THEN {marker[k], "old"} ELSE {marker[k]} :
    /\ marker' = [marker EXCEPT ![k] = age]
    /\ answered' = IF age = "ours" THEN answered \cup {k} ELSE answered
    /\ lent' = IF age = "theirs" THEN lent \cup {k} ELSE lent

------------------------------------------------------------------------------
(* Start of the run.  Markers of earlier runs may still lie around, and, if*)
(* the directory is shared, one that another run was given this moment.    *)

Init ==
  /\ run \in Runs
  /\ pc = IF run.planGate THEN "planGate" ELSE "setup"
  /\ cur = NoJob
  /\ status = [t \in Tasks |-> "Pending"]
  /\ disk = status
  /\ runStatus = "Running"
  /\ ready = NothingReady
  /\ jobs = {}
  /\ blocked = {}
  /\ completed = {}
  /\ retries = [t \in Tasks |-> 0]
  /\ lastErr = [t \in Tasks |-> NoError]
  /\ spawned = [t \in Tasks |-> 0]
  /\ hadFailure = FALSE /\ cancelled = FALSE
  /\ budgetTripped = FALSE /\ overCap = FALSE
  /\ stall = 0
  /\ \E left \in IF run.shared THEN {"none", "old", "theirs"} ELSE {"none", "old"} :
       /\ marker = [k \in GateKeys |-> left]
       /\ lent = IF left = "theirs" /\ run.planGate THEN {GatePlan} ELSE {}
  /\ cancelMark = "none"
  /\ mail = [t \in Tasks |-> "none"]
  /\ answered = {}

PlanGateApproved ==
  /\ pc = "planGate"
  /\ Releases(GatePlan)
  /\ DropMarker(GatePlan)
  /\ pc' = "setup"
  /\ UNCHANGED <<run, cur, status, disk, runStatus, loopVars, flagVars,
                 cancelMark, mail, askVars>>

(* run_plan returns at once: no task is touched.                           *)
PlanGateCancelled ==
  /\ pc = "planGate"
  /\ ~Releases(GatePlan)
  /\ cancelMark = "set"
  /\ DropMarker(GatePlan)
  /\ cancelMark' = "taken"
  /\ runStatus' = "Cancelled"
  /\ pc' = "ended"
  /\ UNCHANGED <<run, cur, status, disk, loopVars, flagVars, mail, askVars>>

Setup ==
  /\ pc = "setup"
  /\ status' = [t \in Tasks |->
                  IF t \in run.filtered THEN "Skipped" ELSE status[t]]
  /\ disk' = status'
  /\ completed' = run.filtered
  /\ ready' = [t \in Tasks |-> IF t \in InitialWork THEN 1 ELSE 0]
  /\ pc' = "top"
  /\ UNCHANGED <<run, cur, runStatus, jobs, blocked, retries, lastErr,
                 spawned, flagVars, envVars>>

------------------------------------------------------------------------------
(* One pass of the loop: cancellation, re-admission, dispatch, mail stall. *)

LoopExit ==
  /\ pc = "top"
  /\ ~HasWork
  /\ pc' = "finalize"
  /\ UNCHANGED <<run, cur, status, disk, runStatus, loopVars, flagVars, envVars>>

LoopCancelled ==
  /\ pc = "top"
  /\ HasWork
  /\ CancelLoop
  /\ UNCHANGED <<run, cur, status, disk, runStatus, ready, blocked, completed,
                 retries, lastErr, spawned, hadFailure, budgetTripped, overCap,
                 stall, marker, mail, askVars>>

(* Gated tasks whose blocking mail has been resolved go back to `ready`.   *)
Readmit ==
  LET cleared == {t \in blocked : mail[t] # "open"} IN
  /\ pc = "top"
  /\ HasWork
  /\ cancelMark # "set"
  /\ status' = [t \in Tasks |-> IF t \in cleared THEN "Pending" ELSE status[t]]
  /\ ready' = [t \in Tasks |-> IF t \in cleared THEN ready[t] + 1 ELSE ready[t]]
  /\ blocked' = blocked \ cleared
  /\ stall' = IF cleared # {} THEN 0 ELSE stall
  /\ pc' = "dispatch"
  /\ UNCHANGED <<run, cur, disk, runStatus, jobs, completed, retries, lastErr,
                 spawned, hadFailure, cancelled, budgetTripped, overCap, envVars>>

HasRoom == Cardinality(jobs) < Width
Peeked(t) == [ready EXCEPT ![t] = @]                             \* mutant
Popped(t) == [ready EXCEPT ![t] = @ - 1]

(* dispatch_one_task, the mail gate: the task is set aside.                *)
DispatchGated(t) ==
  /\ pc = "dispatch"
  /\ ready[t] > 0 /\ HasRoom
  /\ mail[t] = "open"
  /\ ready' = Popped(t)
  /\ blocked' = blocked \cup {t}
  /\ SetStatus(t, "AwaitingApproval")
  /\ UNCHANGED <<run, pc, cur, runStatus, jobs, completed, retries, lastErr,
                 spawned, flagVars, envVars>>

(* dispatch_one_task, all the way to the spawned attempt.                  *)
DispatchSpawned(t) ==
  /\ pc = "dispatch"
  /\ ready[t] > 0 /\ HasRoom
  /\ mail[t] # "open"
  /\ ready' = Popped(t)
  /\ jobs' = jobs \cup {[task |-> t, att |-> spawned[t] + 1, res |-> "busy"]}
  /\ spawned' = [spawned EXCEPT ![t] = @ + 1]
  /\ SetStatus(t, "Running")
  /\ UNCHANGED <<run, pc, cur, runStatus, blocked, completed, retries, lastErr,
                 flagVars, envVars>>

(* dispatch_one_task, setup failed (fail_task_inline): a workflow input, an*)
(* agent profile, a skill or a worktree policy.  Only the inner loop is    *)
(* left: `ready` is cleared and the attempts aborted, `blocked` is not.    *)
DispatchFailed(t) ==
  /\ pc = "dispatch"
  /\ ready[t] > 0 /\ HasRoom
  /\ mail[t] # "open"
  /\ SetStatus(t, "Failed")
  /\ hadFailure' = TRUE
  /\ ready' = IF run.continueOnError THEN Popped(t) ELSE NothingReady
  /\ jobs' = IF run.continueOnError THEN jobs ELSE {}
  /\ pc' = IF run.continueOnError THEN "dispatch" ELSE "poll"
  /\ UNCHANGED <<run, cur, runStatus, blocked, completed, retries, lastErr,
                 spawned, cancelled, budgetTripped, overCap, stall, envVars>>

DispatchDone ==
  /\ pc = "dispatch"
  /\ ~(HasReady /\ HasRoom)
  /\ pc' = "poll"
  /\ UNCHANGED <<run, cur, status, disk, runStatus, loopVars, flagVars, envVars>>

Stalled == jobs = {} /\ blocked # {}

PollNotStalled ==
  /\ pc = "poll"
  /\ ~Stalled
  /\ pc' = "join"
  /\ UNCHANGED <<run, cur, status, disk, runStatus, loopVars, flagVars, envVars>>

PollCancelled ==
  /\ pc = "poll"
  /\ Stalled
  /\ CancelLoop
  /\ UNCHANGED <<run, cur, status, disk, runStatus, ready, blocked, completed,
                 retries, lastErr, spawned, hadFailure, budgetTripped, overCap,
                 stall, marker, mail, askVars>>

PollSleptUncounted ==                                           \* mutant
  /\ pc = "poll"
  /\ Stalled
  /\ cancelMark # "set"
  /\ stall < MailPolls
  /\ pc' = "top"
  /\ UNCHANGED <<run, cur, status, disk, runStatus, loopVars, flagVars, envVars>>
PollSlept ==
  /\ pc = "poll"
  /\ Stalled
  /\ cancelMark # "set"
  /\ stall < MailPolls
  /\ stall' = stall + 1
  /\ pc' = "top"
  /\ UNCHANGED <<run, cur, status, disk, runStatus, loopVars, hadFailure,
                 cancelled, budgetTripped, overCap, envVars>>

(* BLOCKED_MAIL_TIMEOUT: every parked task fails and the loop ends, with or*)
(* without --continue-on-error.                                            *)
PollTimedOut ==
  /\ pc = "poll"
  /\ Stalled
  /\ cancelMark # "set"
  /\ stall = MailPolls
  /\ status' = [t \in Tasks |-> IF t \in blocked THEN "Failed" ELSE status[t]]
  /\ disk' = status'
  /\ blocked' = {}
  /\ hadFailure' = TRUE
  /\ pc' = "finalize"
  /\ UNCHANGED <<run, cur, runStatus, ready, jobs, completed, retries, lastErr,
                 spawned, cancelled, budgetTripped, overCap, stall, envVars>>

(* The attempt itself: adapter.run, the output capture and the locked      *)
(* update of the RunState.  It may end at any time after it was spawned;   *)
(* nothing is written to disk.  A success adds its token usage to the run's*)
FinishStatus(r) == IF r \in OkResults THEN "Done" ELSE "Failed"
Finish(j, r) ==
  /\ pc \notin Final
  /\ j \in jobs /\ j.res = "busy"
  /\ jobs' = (jobs \ {j}) \cup {[j EXCEPT !.res = r]}
  /\ status' = [status EXCEPT ![j.task] = FinishStatus(r)]
  /\ overCap' \in {overCap, overCap \/ (run.capped /\ r \in OkResults)}
  /\ UNCHANGED <<run, pc, cur, disk, runStatus, ready, blocked, completed,
                 retries, lastErr, spawned, hadFailure, cancelled,
                 budgetTripped, stall, envVars>>

JoinNone ==
  /\ pc = "join"
  /\ jobs = {}
  /\ pc' = "finalize"
  /\ UNCHANGED <<run, cur, status, disk, runStatus, loopVars, flagVars, envVars>>

JoinCancelled ==
  /\ pc = "join"
  /\ jobs # {}
  /\ CancelLoop
  /\ UNCHANGED <<run, cur, status, disk, runStatus, ready, blocked, completed,
                 retries, lastErr, spawned, hadFailure, budgetTripped, overCap,
                 stall, marker, mail, askVars>>

JoinOne(j) ==
  /\ pc = "join"
  /\ j \in jobs /\ j.res # "busy"
  /\ jobs' = jobs \ {j}
  /\ cur' = j
  /\ disk' = status
  /\ pc' = IF j.res \in OkResults THEN "review" ELSE "failure"
  /\ UNCHANGED <<run, status, runStatus, ready, blocked, completed, retries,
                 lastErr, spawned, flagVars, envVars>>

------------------------------------------------------------------------------
(* The handlers of a joined attempt, in the order run_plan calls them.     *)

(* A retry: the task is Pending again and queued, its budget is one less.  *)
BudgetOffByOne(t) == retries[t] <= MaxRetries                   \* mutant
BudgetLeft(t) == retries[t] < MaxRetries
RequeueUncounted(t) ==                                          \* mutant
  /\ BudgetLeft(t)
  /\ ready' = [ready EXCEPT ![t] = @ + 1]
  /\ SetStatus(t, "Pending")
  /\ cur' = NoJob
  /\ pc' = "top"
  /\ UNCHANGED <<retries, jobs, hadFailure>>
Requeue(t) ==
  /\ BudgetLeft(t)
  /\ retries' = [retries EXCEPT ![t] = @ + 1]
  /\ ready' = [ready EXCEPT ![t] = @ + 1]
  /\ SetStatus(t, "Pending")
  /\ cur' = NoJob
  /\ pc' = "top"
  /\ UNCHANGED <<jobs, hadFailure>>

(* Giving up on the task: it stays Failed and the run stops or goes on.    *)
GiveUp(t) ==
  /\ SetStatus(t, "Failed")
  /\ cur' = NoJob
  /\ StopOrGoOn("top")
  /\ UNCHANGED <<retries, ready>>

(* handle_task_failure.  The circuit breaker: the same signature twice in  *)
(* a row ends the retries early.                                           *)
NoProgress == lastErr[cur.task] = cur.res

FailureRetried ==
  /\ pc = "failure"
  /\ ~NoProgress
  /\ Requeue(cur.task)
  /\ lastErr' = [lastErr EXCEPT ![cur.task] = cur.res]
  /\ UNCHANGED <<run, runStatus, blocked, completed, spawned, cancelled,
                 budgetTripped, overCap, stall, envVars>>

FailureEscalated ==
  /\ pc = "failure"
  /\ NoProgress \/ ~BudgetLeft(cur.task)
  /\ GiveUp(cur.task)
  /\ lastErr' = [lastErr EXCEPT ![cur.task] = cur.res]
  /\ UNCHANGED <<run, runStatus, blocked, completed, spawned, cancelled,
                 budgetTripped, overCap, stall, envVars>>

(* handle_task_review.  A reviewer is attached by the plan or a profile, or*)
(* by the risk of the change; what it costs counts towards the cap.        *)
ReviewConfigBroken == cur.task \in run.misreviewed
Reviewed ==
  \/ cur.task \in run.reviewed
  \/ run.refuteHighRisk /\ cur.res = "high"
ReviewUsage == overCap' \in {overCap, overCap \/ run.capped}

ReviewMisconfigured ==
  /\ pc = "review"
  /\ ReviewConfigBroken
  /\ GiveUp(cur.task)
  /\ UNCHANGED <<run, runStatus, blocked, completed, lastErr, spawned, cancelled,
                 budgetTripped, overCap, stall, envVars>>

(* No reviewer, a PASS, or a reviewer that could not run.                  *)
ReviewPassed ==
  /\ pc = "review"
  /\ ~ReviewConfigBroken
  /\ IF Reviewed THEN ReviewUsage ELSE overCap' = overCap
  /\ pc' = "budget"
  /\ UNCHANGED <<run, cur, status, disk, runStatus, loopVars, hadFailure,
                 cancelled, budgetTripped, stall, envVars>>

ReviewRetried ==
  /\ pc = "review"
  /\ ~ReviewConfigBroken /\ Reviewed
  /\ ReviewUsage
  /\ Requeue(cur.task)
  /\ UNCHANGED <<run, runStatus, blocked, completed, lastErr, spawned, cancelled,
                 budgetTripped, stall, envVars>>

ReviewRejected ==
  /\ pc = "review"
  /\ ~ReviewConfigBroken /\ Reviewed
  /\ ~BudgetLeft(cur.task)
  /\ ReviewUsage
  /\ GiveUp(cur.task)
  /\ UNCHANGED <<run, runStatus, blocked, completed, lastErr, spawned, cancelled,
                 budgetTripped, stall, envVars>>

(* check_budget_gate: trips once.                                          *)
BudgetOk ==
  /\ pc = "budget"
  /\ ~overCap \/ budgetTripped
  /\ pc' = "approval"
  /\ UNCHANGED <<run, cur, status, disk, runStatus, loopVars, flagVars, envVars>>

BudgetTripped ==
  /\ pc = "budget"
  /\ overCap /\ ~budgetTripped
  /\ budgetTripped' = TRUE
  /\ disk' = status
  /\ StopOrGoOn("approval")
  /\ cur' = IF run.continueOnError THEN cur ELSE NoJob
  /\ UNCHANGED <<run, status, runStatus, ready, blocked, completed, retries,
                 lastErr, spawned, cancelled, overCap, stall, envVars>>

(* handle_post_task_approval and wait_for_approval.                        *)
NeedsGate ==
  \/ cur.task \in run.gated
  \/ run.gateHighRisk /\ cur.res = "high"

ApprovalSkipped ==
  /\ pc = "approval"
  /\ ~NeedsGate
  /\ disk' = status
  /\ pc' = "integrate"
  /\ UNCHANGED <<run, cur, status, runStatus, loopVars, flagVars, envVars>>

ApprovalOpened ==
  /\ pc = "approval"
  /\ NeedsGate
  /\ SetStatus(cur.task, "AwaitingApproval")
  /\ OpenMarker(cur.task)
  /\ pc' = "approve"
  /\ UNCHANGED <<run, cur, runStatus, loopVars, flagVars, cancelMark, mail>>

GrantedNotWritten ==                                            \* mutant
  /\ pc = "approve"
  /\ Releases(cur.task)
  /\ DropMarker(cur.task)
  /\ status' = [status EXCEPT ![cur.task] = "Done"]
  /\ pc' = "integrate"
  /\ UNCHANGED <<run, cur, disk, runStatus, loopVars, flagVars, cancelMark, mail,
                 askVars>>
ApprovalGranted ==
  /\ pc = "approve"
  /\ Releases(cur.task)
  /\ DropMarker(cur.task)
  /\ SetStatus(cur.task, "Done")
  /\ pc' = "integrate"
  /\ UNCHANGED <<run, cur, runStatus, loopVars, flagVars, cancelMark, mail, askVars>>

ApprovalCancelled ==
  /\ pc = "approve"
  /\ ~Releases(cur.task)
  /\ CancelLoop
  /\ DropMarker(cur.task)
  /\ SetStatus(cur.task, "Cancelled")
  /\ cur' = NoJob
  /\ UNCHANGED <<run, runStatus, ready, blocked, completed, retries, lastErr,
                 spawned, hadFailure, budgetTripped, overCap, stall, mail, askVars>>

(* integrate_completed_task, and the release of the consumers.             *)
NewlyReady(t, d) ==
  IF AllDepsDone(completed', d) /\ d \notin completed' THEN run.need[d][t] ELSE 0

Integrated ==
  LET t == cur.task IN
  /\ pc = "integrate"
  /\ \/ /\ status[t] = "Done"
        /\ completed' = completed \cup {t}
        /\ ready' = [d \in Tasks |-> ready[d] + NewlyReady(t, d)]
     \/ /\ status[t] # "Done"
        /\ UNCHANGED <<completed, ready>>
  /\ cur' = NoJob
  /\ pc' = "top"
  /\ UNCHANGED <<run, status, disk, runStatus, jobs, blocked, retries, lastErr,
                 spawned, flagVars, envVars>>

(* Worktrees are isolated, hence patches applied, only in parallel runs.   *)
IntegrateConflict ==
  /\ pc = "integrate"
  /\ Width > 1
  /\ GiveUp(cur.task)
  /\ UNCHANGED <<run, runStatus, blocked, completed, lastErr, spawned, cancelled,
                 budgetTripped, overCap, stall, envVars>>

------------------------------------------------------------------------------
(* The end of the run.                                                     *)

FinalStatus(t) ==
  IF status[t] \notin Unfinished \/ ~(cancelled \/ hadFailure) THEN status[t]
  ELSE IF ~cancelled /\ t \in BlockedByFailure THEN "Skipped"
  ELSE "Cancelled"
FinalRunStatus ==
  IF cancelled THEN "Cancelled" ELSE IF hadFailure THEN "Failed" ELSE "Done"
OutcomeGateOpens == run.outcomeGate /\ ~cancelled /\ ~hadFailure

Finalize ==
  /\ pc = "finalize"
  /\ status' = [t \in Tasks |-> FinalStatus(t)]
  /\ disk' = status'
  /\ runStatus' = FinalRunStatus
  /\ \/ /\ OutcomeGateOpens
        /\ OpenMarker(GateOutcome)
        /\ pc' = "outcome"
     \/ /\ ~OutcomeGateOpens
        /\ pc' = "ended"
        /\ UNCHANGED <<marker, askVars>>
  /\ UNCHANGED <<run, cur, loopVars, flagVars, cancelMark, mail>>

OutcomeApproved ==
  /\ pc = "outcome"
  /\ Releases(GateOutcome)
  /\ DropMarker(GateOutcome)
  /\ pc' = "ended"
  /\ UNCHANGED <<run, cur, status, disk, runStatus, loopVars, flagVars,
                 cancelMark, mail, askVars>>

OutcomeCancelled ==
  /\ pc = "outcome"
  /\ ~Releases(GateOutcome)
  /\ cancelMark = "set"
  /\ DropMarker(GateOutcome)
  /\ cancelMark' = "taken"
  /\ runStatus' = "Cancelled"
  /\ pc' = "ended"
  /\ UNCHANGED <<run, cur, status, disk, loopVars, flagVars, mail, askVars>>

(* Waiting at any gate: a marker left over from another run is removed.    *)
OpenGate ==
  CASE pc = "planGate" -> GatePlan
    [] pc = "outcome"  -> GateOutcome
    [] pc = "approve"  -> cur.task
    [] OTHER           -> NoTask
StaleMarkerDropped ==
  /\ OpenGate # NoTask
  /\ marker[OpenGate] = "old"
  /\ ~Releases(OpenGate)
  /\ DropMarker(OpenGate)
  /\ UNCHANGED <<run, pc, cur, status, disk, runStatus, loopVars, flagVars,
                 cancelMark, mail, askVars>>

------------------------------------------------------------------------------
(* Outside the scheduler.                                                  *)

(* The gates this run can open; a marker for any other id is never read.   *)
Gates ==
  {t \in Tasks : t \in run.gated \/ run.gateHighRisk}
    \cup (IF run.planGate THEN {GatePlan} ELSE {})
    \cup (IF run.outcomeGate THEN {GateOutcome} ELSE {})

(* `maestro approve`: cmd_approve writes the marker, asked for or not.     *)
Approve(k) ==
  /\ pc \notin Final
  /\ k \in Gates /\ marker[k] # "ours"
  /\ marker' = [marker EXCEPT ![k] = "ours"]
  /\ answered' = IF k = OpenGate THEN answered \cup {k} ELSE answered
  /\ UNCHANGED <<run, pc, cur, status, disk, runStatus, loopVars, flagVars,
                 cancelMark, mail, lent>>

(* The same command, by someone who means the other run: the file is keyed *)
(* by the task id alone.  The other run takes the marker it finds first.   *)
ApproveElsewhere(k) ==
  /\ pc \notin Final
  /\ run.shared
  /\ k \in Gates /\ marker[k] # "theirs"
  /\ marker' = [marker EXCEPT ![k] = "theirs"]
  /\ lent' = IF k = OpenGate THEN lent \cup {k} ELSE lent
  /\ UNCHANGED <<run, pc, cur, status, disk, runStatus, loopVars, flagVars,
                 cancelMark, mail, answered>>

TakenElsewhere(k) ==
  /\ pc \notin Final
  /\ run.shared
  /\ k \in Gates /\ marker[k] # "none"
  /\ DropMarker(k)
  /\ UNCHANGED <<run, pc, cur, status, disk, runStatus, loopVars, flagVars,
                 cancelMark, mail, askVars>>

(* `maestro cancel-run`, once per run.                                     *)
RequestCancel ==
  /\ pc \notin Final
  /\ cancelMark = "none"
  /\ cancelMark' = "set"
  /\ UNCHANGED <<run, pc, cur, status, disk, runStatus, loopVars, flagVars,
                 marker, mail, askVars>>

(* A peer or a human writes blocking mail, once per task; later it may be  *)
(* resolved or answered.                                                   *)
MailSent(t) ==
  /\ pc \notin Final
  /\ t \in run.mailable /\ mail[t] = "none"
  /\ mail' = [mail EXCEPT ![t] = "open"]
  /\ UNCHANGED <<run, pc, cur, status, disk, runStatus, loopVars, flagVars,
                 marker, cancelMark, askVars>>
MailResolved(t) ==
  /\ pc \notin Final
  /\ mail[t] = "open"
  /\ mail' = [mail EXCEPT ![t] = "resolved"]
  /\ UNCHANGED <<run, pc, cur, status, disk, runStatus, loopVars, flagVars,
                 marker, cancelMark, askVars>>

(* The process is killed, or run_plan returns an error: what is on disk    *)
(* stays as it was last written.                                           *)
Crash ==
  /\ pc \notin Final
  /\ pc' = "crashed"
  /\ jobs' = {}
  /\ cur' = NoJob
  /\ UNCHANGED <<run, status, disk, runStatus, ready, blocked, completed,
                 retries, lastErr, spawned, flagVars, envVars>>

Terminated == pc \in Final /\ UNCHANGED vars

------------------------------------------------------------------------------
Start    == PlanGateApproved \/ PlanGateCancelled \/ Setup
Top      == LoopExit \/ LoopCancelled \/ Readmit
Dispatch ==
  \/ \E t \in Tasks : DispatchGated(t) \/ DispatchSpawned(t) \/ DispatchFailed(t)
  \/ DispatchDone
Poll     == PollNotStalled \/ PollCancelled \/ PollSlept \/ PollTimedOut
Join     == JoinNone \/ JoinCancelled \/ \E j \in jobs : JoinOne(j)
Handle ==
  \/ FailureRetried \/ FailureEscalated
  \/ ReviewMisconfigured \/ ReviewPassed \/ ReviewRetried \/ ReviewRejected
  \/ BudgetOk \/ BudgetTripped
  \/ ApprovalSkipped \/ ApprovalOpened \/ ApprovalGranted \/ ApprovalCancelled
  \/ Integrated \/ IntegrateConflict
Closing  == Finalize \/ OutcomeApproved \/ OutcomeCancelled

Scheduler == \/ Start \/ Top \/ Dispatch \/ Poll \/ Join \/ Handle \/ Closing
             \/ StaleMarkerDropped
Attempt   == \E j \in jobs, r \in Results : Finish(j, r)
Human     == \E k \in GateKeys : Approve(k) \/ ApproveElsewhere(k) \/ TakenElsewhere(k)
World     == \/ Human \/ RequestCancel
             \/ \E t \in Tasks : MailSent(t) \/ MailResolved(t)
             \/ Crash
Next == Scheduler \/ Attempt \/ World \/ Terminated

Spec == Init /\ [][Next]_vars

(* The scheduler is one async loop that is always polled; an attempt ends, *)
(* because adapters run under a timeout.                                   *)
Fairness == WF_vars(Scheduler) /\ WF_vars(Attempt)
FairSpec == Spec /\ Fairness

------------------------------------------------------------------------------
(* Properties.                                                             *)

(* Plans that name no dependency twice, and skip sets that take, with a    *)
(* task, everything it depends on (what a first `maestro resume` passes).  *)
NoRepeats == \A t, d \in Tasks : run.need[t][d] <= 1
SkipsUpstreamClosed == \A t \in run.filtered : Deps(t) \subseteq run.filtered

(* An attempt starts only when every dependency has been released, and has *)
(* the status a consumer may rely on: Done, or filtered out of the run.    *)
(* What must hold across the ready queue, retries, the mailbox gate and the*)
(* expansion over filtered tasks.                                          *)
ReleasedStatus(t) == IF t \in run.filtered THEN "Skipped" ELSE "Done"
StartsBehindDeps ==
  [][NoRepeats =>
       \A t \in Tasks : spawned'[t] > spawned[t] =>
         \A d \in Deps(t) : d \in completed /\ status[d] = ReleasedStatus(d)]_vars

(* A task never has two attempts alive, nor one alive and one queued: they *)
(* would share a worktree, a log and an entry of the RunState.             *)
InFlight(t) == cur.task = t \/ \E j \in jobs : j.task = t
Waiting(t)  == ready[t] > 0 \/ t \in blocked
OneAttemptAtATime ==
  NoRepeats =>
    /\ \A i, j \in jobs : i.task = j.task => i = j
    /\ \A t \in Tasks :
         /\ cur.task = t => \A j \in jobs : j.task # t
         /\ InFlight(t) => ~Waiting(t)
         /\ t \in completed => ~InFlight(t) /\ ~Waiting(t)

(* Errors, rejected reviews and mail gates together never buy a task more  *)
(* than 1 + DEFAULT_MAX_RETRIES attempts.                                  *)
AttemptsWithinBudget == \A t \in Tasks : spawned[t] <= 1 + MaxRetries
AttemptsBounded == NoRepeats => AttemptsWithinBudget

(* What consumers were released on stays true in memory and is already on  *)
(* disk, so a crash cannot lose it: no late attempt, retry, cancellation or*)
(* finalization touches a released task again.                             *)
ReleasedIsDurable ==
  NoRepeats =>
    \A t \in completed :
      /\ status[t] = ReleasedStatus(t)
      /\ disk[t] = status[t]

(* A task behind an approval gate is released only if somebody approved    *)
(* that name while the gate was open, or less than the grace before: a     *)
(* marker that was left behind, by whichever run, does not count.  An      *)
(* answer meant for another run does, for the file does not tell them apart*)
(* (ReleasedByItsOwnAnswer).                                               *)
Vouched(k) == k \in answered \cup lent
GateHeld ==
  \A t \in completed \ run.filtered : t \in run.gated => Vouched(t)
(* The same for the gates of the whole run.                                *)
RunGatesHeld ==
  /\ run.planGate /\ completed # {} => Vouched(GatePlan)
  /\ run.outcomeGate /\ pc = "ended" /\ runStatus = "Done" => Vouched(GateOutcome)
(* When no other run waits at gates of these names, the answers are ours.  *)
OwnGates == ~run.shared => lent = {}
GatesHeld == GateHeld /\ RunGatesHeld /\ OwnGates

(* A run that was neither cancelled nor stopped at its first failure leaves*)
(* no task behind: each was released, failed, or has a failed producer.    *)
Blocking(d) ==
  \/ status[d] = "Failed"
  \/ status[d] = "Skipped" /\ d \notin run.filtered
Blamed(t) == Blocking(t) /\ status[t] # "Failed" /\ \E d \in Deps(t) : Blocking(d)
Drained == \A t \in Tasks : t \in completed \/ status[t] = "Failed" \/ Blamed(t)
DrainsTheDag ==
  /\ pc = "ended" /\ runStatus # "Cancelled"
  /\ run.continueOnError \/ ~hadFailure
  /\ SkipsUpstreamClosed
  => Drained

(* The verdict fits the tasks: Done hides no failure and, if the skips     *)
(* allow it, no unfinished work (every task is Done or was left out);      *)
(* Failed names a culprit, and a task is called Skipped exactly when one of*)
(* its producers failed.                                                   *)
VerdictFits ==
  pc = "ended" =>
    /\ runStatus = "Done" =>
         /\ \A t \in Tasks : status[t] # "Failed"
         /\ SkipsUpstreamClosed => \A t \in Tasks : status[t] = ReleasedStatus(t)
    /\ runStatus = "Failed" =>
         /\ budgetTripped \/ \E t \in Tasks : status[t] = "Failed"
         /\ \A t \in Tasks \ run.filtered :
              /\ status[t] = "Skipped" => Blamed(t)
              /\ status[t] = "Cancelled" =>
                   \A d \in Deps(t) : ~Blocking(d)

(* When run_plan returns no attempt is left running, nothing will write the*)
(* RunState any more, and RUN_STATE.json says what was decided.            *)
EndIsQuietAndOnDisk ==
  pc \in {"outcome", "ended"} => jobs = {} /\ cur = NoJob /\ disk = status
------------------------------------------------------------------------------
(* The invariants above are not inductive; these are what makes them so.   *)

(* A handler works on an attempt that has ended, nothing else holds one.   *)
CurMatchesPc ==
  /\ pc \in Handlers => cur \in Job
  /\ pc = "failure" => cur.res \in Errors
  /\ pc \notin Handlers => cur = NoJob

(* Before Setup nothing has happened to any task; after it the filtered    *)
(* tasks count as completed.                                               *)
NotStarted == pc \in {"planGate", "setup"}
StartOfRun ==
  /\ NotStarted => /\ completed = {} /\ blocked = {} /\ jobs = {}
                   /\ \A t \in Tasks : ready[t] = 0 /\ spawned[t] = 0
  /\ ~NotStarted /\ pc \notin Final => run.filtered \subseteq completed

(* Whatever is queued, set aside, in flight or was ever started has its    *)
(* dependencies released.                                                  *)
Touched(t) == Waiting(t) \/ InFlight(t) \/ spawned[t] > 0
GroundedTasks == \A t \in Tasks : Touched(t) => Deps(t) \subseteq completed

(* A task is in one place, at most once.                                   *)
InOnePlace ==
  /\ OneAttemptAtATime
  /\ NoRepeats =>
       \A t \in Tasks : ready[t] <= 1 /\ (t \in blocked => ready[t] = 0)

(* Every attempt but the first was paid for by a retry, and a task that    *)
(* waits has paid for the attempt it waits for.                            *)
RetriesPayForAttempts ==
  NoRepeats =>
    \A t \in Tasks :
      /\ spawned[t] <= retries[t] + 1
      /\ Waiting(t) => spawned[t] <= retries[t]

(* The task a handler works on is on disk as it is in memory.              *)
CurOnDisk == NoRepeats /\ cur # NoJob => disk[cur.task] = status[cur.task]

IndInv ==
  /\ TypeOK /\ CurMatchesPc /\ StartOfRun /\ GroundedTasks
  /\ InOnePlace /\ RetriesPayForAttempts /\ CurOnDisk /\ ReleasedIsDurable

------------------------------------------------------------------------------
(* The run as TaskGraphRun sees it.  A task whose attempt was aborted, that*)
(* failed for good or that was swept out of the ready queue is dropped.    *)

Over == pc \in {"finalize", "outcome"} \cup Final
TaskView(t) ==
  CASE t \in completed                      -> IF t \in run.filtered THEN "leftOut"
                                               ELSE "released"
    [] t \notin completed /\ Over           -> "dropped"
    [] t \notin completed /\ ~Over /\ InFlight(t) -> "active"
    [] t \notin completed /\ ~Over /\ ~InFlight(t) /\ ~Waiting(t)
       /\ (spawned[t] > 0 \/ status[t] = "Failed") -> "dropped"
    [] OTHER                                -> "waiting"

Promise == INSTANCE TaskGraphRun WITH
  MaxTries <- 1 + MaxRetries,
  deps     <- [t \in Tasks |-> Deps(t)],
  phase    <- [t \in Tasks |-> TaskView(t)],
  tries    <- spawned,
  over     <- Over

(* For plans without repeated dependencies the executor keeps the promise. *)
KeepsThePromise == Promise!Spec

(* The only thing that can keep a run from ending is a gate nobody answers:*)
(* retries, mail waits and attempts are all bounded, and the loop never    *)
(* waits on a task that will not be queued again.                          *)
EndsUnlessUnanswered == <>(pc \in Final) \/ <>[](OpenGate # NoTask)

(* Whatever the run is waiting for - a gate nobody answers, mail, a busy   *)
(* attempt - a cancel request gets through, or the run ends first.         *)
CancelGetsThrough == cancelMark = "set" ~> (cancelMark = "taken" \/ pc \in Final)
------------------------------------------------------------------------------
(* What the documentation says and the code does not keep.                 *)

(* docs/site/11-plans.md: the loop continues until the DAG is drained.  A  *)
(* run that ends as Done has worked off every task.                        *)
DoneMeansDrained ==
  pc = "ended" /\ runStatus = "Done" => completed = Tasks

(* fail_task_inline: without --continue-on-error a failure aborts the run. *)
(* No attempt starts after the first failure.                              *)
FailFast ==
  [][hadFailure /\ ~run.continueOnError => spawned' = spawned]_vars

(* docs/site/23-approvals.md: a task with requires_approval_after pauses   *)
(* the DAG until a human releases it.  What the finished run records as    *)
(* Done behind a gate, which a resumed run will build upon, was released.  *)
GatedDoneWasReleased ==
  pc = "ended" => \A t \in run.gated : disk[t] = "Done" => t \in answered

(* wait_for_approval: a marker left over "from a different run, since task *)
(* ids like T_1/T_lint repeat", must not silently approve this gate.  A    *)
(* gated task is released on an answer to the gate of this run.            *)
ReleasedByItsOwnAnswer ==
  \A t \in completed \ run.filtered : t \in run.gated => t \in answered
=============================================================================
