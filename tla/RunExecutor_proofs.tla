------------------------- MODULE RunExecutor_proofs --------------------------
(***************************************************************************)
(* Theorems about RunExecutor, for every plan, configuration and bound.    *)
(***************************************************************************)
EXTENDS RunExecutor, FiniteSetTheorems, TLAPS

(* The type invariant needs to know which attempt a handler works on.      *)
TypeInv == TypeOK /\ CurMatchesPc

LEMMA InitTypes == Init => TypeInv
<1> SUFFICES ASSUME Init PROVE TypeInv
  OBVIOUS
<1>1. pc \in {"planGate", "setup"}
  BY DEF Init
<1>2. CurMatchesPc
  BY <1>1 DEF CurMatchesPc, Handlers, Init
<1>3. pc \in PCs
  BY <1>1 DEF PCs
<1>4. marker \in [GateKeys -> Markers] /\ lent \subseteq GateKeys
  BY DEF Init, Markers, GateKeys
<1>5. retries \in [Tasks -> 0 .. MaxRetries] /\ stall \in 0 .. MailPolls
  BY BoundsAssumption DEF Init
<1>6. ready \in [Tasks -> Nat] /\ spawned \in [Tasks -> Nat]
  BY DEF Init, NothingReady
<1>7. status \in [Tasks -> Statuses] /\ disk \in [Tasks -> Statuses]
  BY DEF Init, Statuses
<1>8. /\ run \in Runs /\ cur \in Job \cup {NoJob} /\ runStatus \in RunStatuses
  BY DEF Init, RunStatuses
<1>9. /\ jobs \subseteq Job /\ blocked \subseteq Tasks /\ completed \subseteq Tasks
  BY DEF Init
<1>10. lastErr \in [Tasks -> Errors \cup {NoError}]
  BY DEF Init
<1>11. /\ hadFailure \in BOOLEAN /\ cancelled \in BOOLEAN
       /\ budgetTripped \in BOOLEAN /\ overCap \in BOOLEAN
       /\ cancelMark \in {"none", "set", "taken"}
       /\ mail \in [Tasks -> {"none", "open", "resolved"}]
       /\ answered \subseteq GateKeys
  BY DEF Init
<1>12. TypeOK
  BY <1>3, <1>4, <1>5, <1>6, <1>7, <1>8, <1>9, <1>10, <1>11 DEF TypeOK
<1> QED BY <1>2, <1>12 DEF TypeInv

LEMMA StartTypes == TypeInv /\ Start => TypeInv'
<1> SUFFICES ASSUME TypeInv, Start PROVE TypeInv'
  OBVIOUS
<1> USE DEF TypeInv, TypeOK, CurMatchesPc, PCs, Handlers, Final, loopVars,
            flagVars, envVars, askVars
<1>1. CASE PlanGateApproved
  BY <1>1 DEF PlanGateApproved, DropMarker, Markers, GateKeys
<1>2. CASE PlanGateCancelled
  BY <1>2 DEF PlanGateCancelled, DropMarker, Markers, RunStatuses
<1>3. CASE Setup
  BY <1>3, RunsAssumption DEF Setup, RunType, Statuses
<1> QED BY <1>1, <1>2, <1>3 DEF Start

LEMMA TopTypes == TypeInv /\ Top => TypeInv'
<1> SUFFICES ASSUME TypeInv, Top PROVE TypeInv'
  OBVIOUS
<1> USE DEF TypeInv, TypeOK, CurMatchesPc, PCs, Handlers, Final, loopVars,
            flagVars, envVars, askVars
<1>1. CASE LoopExit
  BY <1>1 DEF LoopExit
<1>2. CASE LoopCancelled
  BY <1>2 DEF LoopCancelled, CancelLoop
<1>3. CASE Readmit
  BY <1>3, BoundsAssumption DEF Readmit, Statuses
<1> QED BY <1>1, <1>2, <1>3 DEF Top

LEMMA DispatchTypes == TypeInv /\ Dispatch => TypeInv'
<1> SUFFICES ASSUME TypeInv, Dispatch PROVE TypeInv'
  OBVIOUS
<1> USE DEF TypeInv, TypeOK, CurMatchesPc, PCs, Handlers, Final, loopVars,
            flagVars, envVars, askVars
<1>1. ASSUME NEW t \in Tasks, DispatchGated(t) PROVE TypeInv'
  BY <1>1 DEF DispatchGated, Popped, SetStatus, Statuses
<1>2. ASSUME NEW t \in Tasks, DispatchSpawned(t) PROVE TypeInv'
  <2>1. spawned[t] + 1 \in Nat /\ spawned' \in [Tasks -> Nat]
    BY <1>2 DEF DispatchSpawned
  <2>2. [task |-> t, att |-> spawned[t] + 1, res |-> "busy"] \in Job
    BY <2>1 DEF Job
  <2> QED BY <1>2, <2>1, <2>2 DEF DispatchSpawned, Popped, SetStatus, Statuses
<1>3. ASSUME NEW t \in Tasks, DispatchFailed(t) PROVE TypeInv'
  BY <1>3 DEF DispatchFailed, Popped, NothingReady, SetStatus, Statuses
<1>4. CASE DispatchDone
  BY <1>4 DEF DispatchDone
<1> QED BY <1>1, <1>2, <1>3, <1>4 DEF Dispatch

LEMMA PollTypes == TypeInv /\ Poll => TypeInv'
<1> SUFFICES ASSUME TypeInv, Poll PROVE TypeInv'
  OBVIOUS
<1> USE DEF TypeInv, TypeOK, CurMatchesPc, PCs, Handlers, Final, loopVars,
            flagVars, envVars, askVars
<1>1. CASE PollNotStalled
  BY <1>1 DEF PollNotStalled
<1>2. CASE PollCancelled
  BY <1>2 DEF PollCancelled, CancelLoop
<1>3. CASE PollSlept
  BY <1>3, BoundsAssumption DEF PollSlept
<1>4. CASE PollTimedOut
  BY <1>4 DEF PollTimedOut, Statuses
<1> QED BY <1>1, <1>2, <1>3, <1>4 DEF Poll

LEMMA JoinTypes == TypeInv /\ Join => TypeInv'
<1> SUFFICES ASSUME TypeInv, Join PROVE TypeInv'
  OBVIOUS
<1> USE DEF TypeInv, TypeOK, CurMatchesPc, PCs, Handlers, Final, loopVars,
            flagVars, envVars, askVars
<1>1. CASE JoinNone
  BY <1>1 DEF JoinNone
<1>2. CASE JoinCancelled
  BY <1>2 DEF JoinCancelled, CancelLoop
<1>3. ASSUME NEW j \in jobs, JoinOne(j) PROVE TypeInv'
  <2>1. j \in Job /\ j.res \in Results
    BY <1>3 DEF JoinOne, Job
  <2>2. pc' \in {"review", "failure"} /\ (pc' = "failure" => j.res \in Errors)
    BY <1>3, <2>1 DEF JoinOne, Results
  <2> QED BY <1>3, <2>1, <2>2 DEF JoinOne
<1> QED BY <1>1, <1>2, <1>3 DEF Join

LEMMA AttemptTypes == TypeInv /\ Attempt => TypeInv'
<1> SUFFICES ASSUME TypeInv, NEW j \in jobs, NEW r \in Results, Finish(j, r)
             PROVE  TypeInv'
  BY DEF Attempt
<1> USE DEF TypeInv, TypeOK, CurMatchesPc
<1>1. j \in Job /\ j.task \in Tasks /\ [j EXCEPT !.res = r] \in Job
  BY DEF Job
<1>2. FinishStatus(r) \in Statuses
  BY DEF FinishStatus, Statuses
<1>3. overCap' \in BOOLEAN
  BY DEF Finish
<1> QED BY <1>1, <1>2, <1>3 DEF Finish, envVars, askVars

(* What a retry and a final failure do to the state, for every handler that*)
(* ends in one.                                                            *)
LEMMA RequeueTypes ==
  ASSUME TypeInv, NEW t \in Tasks, Requeue(t)
  PROVE  /\ status' \in [Tasks -> Statuses] /\ disk' \in [Tasks -> Statuses]
         /\ retries' \in [Tasks -> 0 .. MaxRetries]
         /\ ready' \in [Tasks -> Nat]
         /\ cur' = NoJob /\ pc' = "top" /\ jobs' = jobs
         /\ hadFailure' \in BOOLEAN
BY BoundsAssumption
   DEF TypeInv, TypeOK, Requeue, BudgetLeft, SetStatus, Statuses

LEMMA GiveUpTypes ==
  ASSUME TypeInv, NEW t \in Tasks, GiveUp(t)
  PROVE  /\ status' \in [Tasks -> Statuses] /\ disk' \in [Tasks -> Statuses]
         /\ retries' = retries /\ ready' = ready
         /\ cur' = NoJob /\ pc' \in {"top", "finalize"}
         /\ jobs' \in {jobs, {}}
         /\ hadFailure' \in BOOLEAN
BY DEF TypeInv, TypeOK, GiveUp, StopOrGoOn, SetStatus, Statuses

LEMMA OpenMarkerTypes ==
  ASSUME TypeOK, NEW k \in GateKeys, OpenMarker(k)
  PROVE  /\ marker' \in [GateKeys -> Markers]
         /\ answered' \subseteq GateKeys /\ lent' \subseteq GateKeys
<1>1. PICK age \in Markers :
        /\ marker' = [marker EXCEPT ![k] = age]
        /\ answered' = IF age = "ours" THEN answered \cup {k} ELSE answered
        /\ lent' = IF age = "theirs" THEN lent \cup {k} ELSE lent
  BY DEF OpenMarker, TypeOK, Markers
<1> QED BY <1>1 DEF TypeOK

LEMMA HandleTypes == TypeInv /\ Handle => TypeInv'
<1> SUFFICES ASSUME TypeInv, Handle PROVE TypeInv'
  OBVIOUS
<1> USE DEF TypeInv, TypeOK, CurMatchesPc, PCs, Handlers, Final, loopVars,
            flagVars, envVars, askVars
<1>1. pc \in Handlers
  BY DEF Handle, FailureRetried, FailureEscalated, ReviewMisconfigured,
         ReviewPassed, ReviewRetried, ReviewRejected, BudgetOk, BudgetTripped,
         ApprovalSkipped, ApprovalOpened, ApprovalGranted, ApprovalCancelled,
         Integrated, IntegrateConflict
<1>2. cur \in Job /\ cur.task \in Tasks
  BY <1>1 DEF Job
<1>3. CASE FailureRetried
  <2>1. lastErr' \in [Tasks -> Errors \cup {NoError}]
    BY <1>2, <1>3 DEF FailureRetried
  <2> QED BY <1>2, <1>3, <2>1, RequeueTypes DEF FailureRetried
<1>4. CASE FailureEscalated
  <2>1. lastErr' \in [Tasks -> Errors \cup {NoError}]
    BY <1>2, <1>4 DEF FailureEscalated
  <2> QED BY <1>2, <1>4, <2>1, GiveUpTypes DEF FailureEscalated
<1>5. CASE ReviewMisconfigured
  BY <1>2, <1>5, GiveUpTypes DEF ReviewMisconfigured
<1>6. CASE ReviewPassed
  BY <1>2, <1>6 DEF ReviewPassed, ReviewUsage
<1>7. CASE ReviewRetried
  BY <1>2, <1>7, RequeueTypes DEF ReviewRetried, ReviewUsage
<1>8. CASE ReviewRejected
  BY <1>2, <1>8, GiveUpTypes DEF ReviewRejected, ReviewUsage
<1>9. CASE BudgetOk
  BY <1>2, <1>9 DEF BudgetOk
<1>10. CASE BudgetTripped
  BY <1>2, <1>10 DEF BudgetTripped, StopOrGoOn
<1>11. CASE ApprovalSkipped
  BY <1>2, <1>11 DEF ApprovalSkipped
<1>12. CASE ApprovalOpened
  <2>1. cur.task \in GateKeys /\ OpenMarker(cur.task)
    BY <1>2, <1>12 DEF ApprovalOpened, GateKeys
  <2>2. /\ marker' \in [GateKeys -> Markers]
        /\ answered' \subseteq GateKeys /\ lent' \subseteq GateKeys
    BY <2>1, OpenMarkerTypes
  <2> QED BY <1>2, <1>12, <2>2 DEF ApprovalOpened, SetStatus, Statuses
<1>13. CASE ApprovalGranted
  BY <1>2, <1>13 DEF ApprovalGranted, SetStatus, DropMarker, Markers, GateKeys, Statuses
<1>14. CASE ApprovalCancelled
  BY <1>2, <1>14 DEF ApprovalCancelled, CancelLoop, SetStatus, DropMarker, Markers,
                     GateKeys, Statuses
<1>15. CASE Integrated
  <2>1. \A d \in Tasks : NewlyReady(cur.task, d) \in Nat
    BY <1>2, RunsAssumption DEF NewlyReady, RunType
  <2>2. ready' \in [Tasks -> Nat]
    BY <1>15, <2>1 DEF Integrated
  <2> QED BY <1>2, <1>15, <2>2 DEF Integrated
<1>16. CASE IntegrateConflict
  BY <1>2, <1>16, GiveUpTypes DEF IntegrateConflict
<1> QED
  BY <1>3, <1>4, <1>5, <1>6, <1>7, <1>8, <1>9, <1>10, <1>11, <1>12, <1>13,
     <1>14, <1>15, <1>16 DEF Handle

LEMMA ClosingTypes == TypeInv /\ Closing => TypeInv'
<1> SUFFICES ASSUME TypeInv, Closing PROVE TypeInv'
  OBVIOUS
<1> USE DEF TypeInv, TypeOK, CurMatchesPc, PCs, Handlers, Final, loopVars,
            flagVars, envVars, askVars
<1>1. CASE Finalize
  <2>1. \A t \in Tasks : FinalStatus(t) \in Statuses
    BY DEF FinalStatus, Statuses
  <2>2. status' \in [Tasks -> Statuses] /\ disk' \in [Tasks -> Statuses]
    BY <1>1, <2>1 DEF Finalize
  <2>3. runStatus' \in RunStatuses
    BY <1>1 DEF Finalize, FinalRunStatus, RunStatuses
  <2>4. /\ marker' \in [GateKeys -> Markers]
        /\ answered' \subseteq GateKeys /\ lent' \subseteq GateKeys
    <3>1. GateOutcome \in GateKeys
      BY DEF GateKeys
    <3>2. CASE OpenMarker(GateOutcome)
      BY <3>1, <3>2, OpenMarkerTypes
    <3> QED BY <1>1, <3>2 DEF Finalize
  <2> QED BY <1>1, <2>2, <2>3, <2>4 DEF Finalize
<1>2. CASE OutcomeApproved
  BY <1>2 DEF OutcomeApproved, DropMarker, Markers, GateKeys
<1>3. CASE OutcomeCancelled
  BY <1>3 DEF OutcomeCancelled, DropMarker, Markers, GateKeys, RunStatuses
<1> QED BY <1>1, <1>2, <1>3 DEF Closing

LEMMA WorldTypes == TypeInv /\ (World \/ StaleMarkerDropped) => TypeInv'
<1> SUFFICES ASSUME TypeInv, World \/ StaleMarkerDropped PROVE TypeInv'
  OBVIOUS
<1> USE DEF TypeInv, TypeOK, CurMatchesPc, PCs, Handlers, Final, loopVars,
            flagVars, envVars, askVars
<1>1. CASE StaleMarkerDropped
  <2>1. marker' \in [GateKeys -> Markers]
    BY <1>1 DEF StaleMarkerDropped, DropMarker, Markers
  <2>2. UNCHANGED <<run, pc, cur, status, disk, runStatus, loopVars, flagVars, cancelMark, mail, askVars>>
    BY <1>1 DEF StaleMarkerDropped
  <2> QED BY <2>1, <2>2
<1>2. ASSUME NEW k \in GateKeys, Approve(k) \/ ApproveElsewhere(k) \/ TakenElsewhere(k)
      PROVE  TypeInv'
  <2>1. marker' \in [GateKeys -> Markers]
    BY <1>2 DEF Approve, ApproveElsewhere, TakenElsewhere, DropMarker, Markers
  <2>2. answered' \subseteq GateKeys /\ lent' \subseteq GateKeys
    BY <1>2 DEF Approve, ApproveElsewhere, TakenElsewhere
  <2>3. UNCHANGED <<run, pc, cur, status, disk, runStatus, loopVars, flagVars, cancelMark, mail>>
    BY <1>2 DEF Approve, ApproveElsewhere, TakenElsewhere
  <2> QED BY <2>1, <2>2, <2>3
<1>3. CASE RequestCancel
  BY <1>3 DEF RequestCancel
<1>4. ASSUME NEW t \in Tasks, MailSent(t) \/ MailResolved(t) PROVE TypeInv'
  BY <1>4 DEF MailSent, MailResolved
<1>5. CASE Crash
  BY <1>5 DEF Crash
<1> QED BY <1>1, <1>2, <1>3, <1>4, <1>5 DEF World, Human

LEMMA TypeStep == TypeInv /\ [Next]_vars => TypeInv'
<1> SUFFICES ASSUME TypeInv, [Next]_vars PROVE TypeInv'
  OBVIOUS
<1>1. CASE UNCHANGED vars
  BY <1>1 DEF vars, loopVars, flagVars, envVars, askVars, TypeInv, TypeOK, CurMatchesPc
<1>2. CASE Scheduler
  BY <1>2, StartTypes, TopTypes, DispatchTypes, PollTypes, JoinTypes,
     HandleTypes, ClosingTypes, WorldTypes DEF Scheduler
<1> QED BY <1>1, <1>2, AttemptTypes, WorldTypes DEF Next, Terminated

(* Every variable of the executor keeps its type.                          *)
THEOREM TypeCorrect == Spec => []TypeOK
<1>1. Spec => []TypeInv
  BY InitTypes, TypeStep, PTL DEF Spec
<1>2. TypeInv => TypeOK
  BY DEF TypeInv
<1> QED BY <1>1, <1>2, PTL
------------------------------------------------------------------------------
(* The task graph is respected.  IndInv is inductive; its parts fall into  *)
(* what says where a task is (Places) and what its status is (Records).    *)

Places  == GroundedTasks /\ InOnePlace /\ RetriesPayForAttempts
Records == CurOnDisk /\ ReleasedIsDurable

LEMMA SameRun ==
  ASSUME run' = run
  PROVE  /\ NoRepeats' <=> NoRepeats
         /\ \A t \in Tasks : Deps(t)' = Deps(t)
         /\ \A t \in Tasks : ReleasedStatus(t)' = ReleasedStatus(t)
BY DEF NoRepeats, Deps, ReleasedStatus

(* Queues that only shrink, attempts that are aborted, a handler that lets *)
(* go of its attempt: no task comes to be anywhere it was not.             *)
LEMMA PlacesShrink ==
  ASSUME IndInv, UNCHANGED <<run, completed, spawned, retries>>,
         \A t \in Tasks : ready'[t] \in Nat /\ ready'[t] <= ready[t],
         blocked' \subseteq blocked, jobs' \subseteq jobs, cur' \in {cur, NoJob}
  PROVE  Places'
<1>1. \A t \in Tasks : InFlight(t)' => InFlight(t)
  BY TasksAssumption DEF InFlight, NoJob
<1>2. \A t \in Tasks : Waiting(t)' => Waiting(t)
  BY DEF Waiting, IndInv, TypeOK
<1>3. GroundedTasks'
  BY <1>1, <1>2, SameRun DEF IndInv, GroundedTasks, Touched
<1>4. OneAttemptAtATime'
  BY <1>1, <1>2, SameRun, TasksAssumption
     DEF IndInv, InOnePlace, OneAttemptAtATime, NoJob
<1>5. InOnePlace'
  BY <1>4, SameRun DEF IndInv, TypeOK, InOnePlace
<1>6. RetriesPayForAttempts'
  BY <1>2, SameRun DEF IndInv, RetriesPayForAttempts
<1> QED BY <1>3, <1>5, <1>6 DEF Places

(* Released tasks keep their status, on disk too.                          *)
LEMMA RecordsKept ==
  ASSUME IndInv, UNCHANGED <<run, completed>>,
         NoRepeats => \A t \in completed :
           status'[t] = status[t] /\ disk'[t] \in {disk[t], status[t]},
         NoRepeats /\ cur' # NoJob => disk'[cur'.task] = status'[cur'.task]
  PROVE  Records'
<1>1. CurOnDisk'
  BY SameRun DEF CurOnDisk
<1>2. ReleasedIsDurable'
  BY SameRun DEF IndInv, TypeOK, ReleasedIsDurable
<1> QED BY <1>1, <1>2 DEF Records
(* Once the loop has started, completed only grows.                        *)
LEMMA LoopHasStarted ==
  ASSUME StartOfRun, run' = run, ~NotStarted, pc \notin Final,
         pc' \notin {"planGate", "setup"}, completed \subseteq completed'
  PROVE  StartOfRun'
BY DEF StartOfRun, NotStarted

GraphInv == StartOfRun /\ Places /\ Records

LEMMA InitGraph == Init => GraphInv
<1> SUFFICES ASSUME Init PROVE GraphInv
  OBVIOUS
<1>1. \A t \in Tasks : ready[t] = 0 /\ spawned[t] = 0 /\ retries[t] = 0
  BY DEF Init, NothingReady
<1>2. \A t \in Tasks : ~Waiting(t) /\ ~InFlight(t)
  BY <1>1, TasksAssumption DEF Init, Waiting, InFlight, NoJob
<1>3. StartOfRun
  BY <1>1 DEF Init, StartOfRun, NotStarted
<1>4. Places
  BY <1>1, <1>2, TasksAssumption
     DEF Init, Places, GroundedTasks, Touched, InOnePlace, OneAttemptAtATime,
         RetriesPayForAttempts, NoJob
<1>5. Records
  BY DEF Init, Records, CurOnDisk, ReleasedIsDurable
<1> QED BY <1>3, <1>4, <1>5 DEF GraphInv

(* The walk over filtered tasks reaches only tasks whose dependencies are  *)
(* all filtered out.                                                       *)
LEMMA InitialWorkGrounded ==
  \A t \in InitialWork : t \in Tasks \ run.filtered /\ Deps(t) \subseteq run.filtered
<1> DEFINE S == {t \in Tasks : Deps(t) \subseteq run.filtered}
<1>1. WalkClosed(S)
  BY DEF WalkClosed, IsRoot, AllDepsDone
<1>2. S \in SUBSET Tasks
  OBVIOUS
<1> QED BY <1>1, <1>2 DEF InitialWork

LEMMA StartGraph == IndInv /\ Start => GraphInv'
<1> SUFFICES ASSUME IndInv, Start PROVE GraphInv'
  OBVIOUS
<1> USE DEF loopVars, flagVars, envVars, askVars
<1>1. CASE PlanGateApproved
  <2>1. UNCHANGED <<run, cur, status, disk, loopVars>> /\ NotStarted /\ pc' = "setup"
    BY <1>1 DEF PlanGateApproved, NotStarted
  <2>2. Places'
    BY <2>1, PlacesShrink DEF IndInv, TypeOK
  <2>3. Records'
    BY <2>1, RecordsKept DEF IndInv, CurOnDisk
  <2>4. StartOfRun'
    BY <2>1 DEF IndInv, StartOfRun, NotStarted
  <2> QED BY <2>2, <2>3, <2>4 DEF GraphInv
<1>2. CASE PlanGateCancelled
  <2>1. UNCHANGED <<run, cur, status, disk, loopVars>> /\ NotStarted /\ pc' = "ended"
    BY <1>2 DEF PlanGateCancelled, NotStarted
  <2>2. Places'
    BY <2>1, PlacesShrink DEF IndInv, TypeOK
  <2>3. Records'
    BY <2>1, RecordsKept DEF IndInv, CurOnDisk
  <2>4. StartOfRun'
    BY <2>1 DEF IndInv, StartOfRun, NotStarted, Final
  <2> QED BY <2>2, <2>3, <2>4 DEF GraphInv
<1>3. CASE Setup
  <2>1. /\ run' = run /\ cur' = NoJob /\ jobs' = {} /\ blocked' = {}
        /\ spawned' = spawned /\ retries' = retries /\ pc' = "top"
        /\ completed' = run.filtered
        /\ \A t \in Tasks : spawned[t] = 0
    BY <1>3 DEF Setup, IndInv, StartOfRun, NotStarted, CurMatchesPc, Handlers
  <2>2. \A t \in Tasks : /\ ready'[t] \in {0, 1}
                         /\ ready'[t] > 0 => t \in InitialWork
    BY <1>3 DEF Setup
  <2>3. \A t \in Tasks : ~InFlight(t)' /\ (Waiting(t)' => t \in InitialWork)
    BY <2>1, <2>2, TasksAssumption DEF InFlight, Waiting, NoJob
  <2>4. GroundedTasks'
    BY <2>1, <2>3, InitialWorkGrounded, SameRun DEF GroundedTasks, Touched
  <2>5. InOnePlace'
    BY <2>1, <2>2, <2>3, InitialWorkGrounded, TasksAssumption
       DEF InOnePlace, OneAttemptAtATime, NoJob
  <2>6. RetriesPayForAttempts'
    BY <2>1, BoundsAssumption DEF RetriesPayForAttempts, IndInv, TypeOK
  <2>7. \A t \in run.filtered : status'[t] = "Skipped" /\ disk'[t] = "Skipped"
    <3>1. run.filtered \subseteq Tasks
      BY RunsAssumption DEF IndInv, TypeOK, RunType
    <3> QED BY <1>3, <3>1 DEF Setup
  <2>8. Records'
    BY <2>1, <2>7 DEF Records, CurOnDisk, ReleasedIsDurable, ReleasedStatus
  <2>9. StartOfRun'
    BY <2>1 DEF StartOfRun, NotStarted
  <2> QED BY <2>4, <2>5, <2>6, <2>8, <2>9 DEF GraphInv, Places
<1> QED BY <1>1, <1>2, <1>3 DEF Start
(* A step of the loop that touches neither the queues nor any status.      *)
LEMMA QuietStep ==
  ASSUME IndInv, UNCHANGED <<run, cur, status, disk, loopVars>>,
         ~NotStarted, pc \notin Final, pc' \notin {"planGate", "setup"}
  PROVE  GraphInv'
<1> USE DEF loopVars
<1>1. Places'
  BY PlacesShrink DEF IndInv, TypeOK
<1>2. Records'
  BY RecordsKept DEF IndInv, CurOnDisk
<1>3. StartOfRun'
  BY LoopHasStarted DEF IndInv
<1> QED BY <1>1, <1>2, <1>3 DEF GraphInv

(* check_cancelled outside the handlers: the attempts are aborted.         *)
LEMMA CancelStep ==
  ASSUME IndInv, CancelLoop, ~NotStarted, pc \notin Final,
         UNCHANGED <<run, cur, status, disk, ready, blocked, completed, retries,
                     spawned>>
  PROVE  GraphInv'
<1>1. Places'
  BY PlacesShrink DEF IndInv, TypeOK, CancelLoop
<1>2. Records'
  BY RecordsKept DEF IndInv, CurOnDisk
<1>3. StartOfRun'
  BY LoopHasStarted DEF IndInv, CancelLoop
<1> QED BY <1>1, <1>2, <1>3 DEF GraphInv

LEMMA TopGraph == IndInv /\ Top => GraphInv'
<1> SUFFICES ASSUME IndInv, Top PROVE GraphInv'
  OBVIOUS
<1> USE DEF flagVars, envVars, askVars
<1>1. CASE LoopExit
  BY <1>1, QuietStep DEF LoopExit, NotStarted, Final
<1>2. CASE LoopCancelled
  BY <1>2, CancelStep DEF LoopCancelled, NotStarted, Final
<1>3. CASE Readmit
  <2> DEFINE cleared == {t \in blocked : mail[t] # "open"}
  <2>1. /\ UNCHANGED <<run, cur, disk, jobs, completed, retries, spawned>>
        /\ pc = "top" /\ pc' = "dispatch"
        /\ blocked' = blocked \ cleared
        /\ ready' = [t \in Tasks |-> IF t \in cleared THEN ready[t] + 1 ELSE ready[t]]
        /\ status' = [t \in Tasks |-> IF t \in cleared THEN "Pending" ELSE status[t]]
    BY <1>3 DEF Readmit
  <2> HIDE DEF cleared
  <2>2. cleared \subseteq blocked
    BY DEF cleared
  <2>3. /\ cleared \subseteq Tasks /\ ready \in [Tasks -> Nat]
        /\ status \in [Tasks -> Statuses] /\ completed \subseteq Tasks
        /\ cur = NoJob
    BY <2>1, <2>2 DEF IndInv, TypeOK, CurMatchesPc, Handlers
  <2>4. \A t \in Tasks : /\ InFlight(t)' <=> InFlight(t)
                         /\ Waiting(t)' => Waiting(t)
    BY <2>1, <2>2, <2>3 DEF InFlight, Waiting
  <2>5. GroundedTasks'
    BY <2>1, <2>4, SameRun DEF IndInv, GroundedTasks, Touched
  <2>6. InOnePlace'
    BY <2>1, <2>2, <2>3, <2>4, SameRun DEF IndInv, InOnePlace, OneAttemptAtATime
  <2>7. RetriesPayForAttempts'
    BY <2>1, <2>4, SameRun DEF IndInv, RetriesPayForAttempts
  <2>8. NoRepeats => \A t \in completed : t \notin cleared
    BY <2>2, <2>3 DEF IndInv, InOnePlace, OneAttemptAtATime, Waiting
  <2>9. Records'
    BY <2>1, <2>3, <2>8, RecordsKept
  <2>10. StartOfRun'
    BY <2>1, LoopHasStarted DEF IndInv, NotStarted, Final
  <2> QED BY <2>5, <2>6, <2>7, <2>9, <2>10 DEF GraphInv, Places
<1> QED BY <1>1, <1>2, <1>3 DEF Top

(* Setting the status of a task that is not released, and persisting it,   *)
(* disturbs nothing that was recorded.                                     *)
LEMMA SetStatusKeeps ==
  ASSUME IndInv, NEW t \in Tasks, NEW st, SetStatus(t, st),
         UNCHANGED <<run, completed>>, NoRepeats => t \notin completed
  PROVE  Records'
<1>1. disk' = status' /\ \A u \in Tasks : u # t => status'[u] = status[u]
  BY DEF SetStatus, IndInv, TypeOK
<1>2. completed \subseteq Tasks
  BY DEF IndInv, TypeOK
<1> QED BY <1>1, <1>2, RecordsKept

LEMMA DispatchGraph == IndInv /\ Dispatch => GraphInv'
<1> SUFFICES ASSUME IndInv, Dispatch PROVE GraphInv'
  OBVIOUS
<1> USE DEF flagVars, envVars, askVars
<1>1. \A t \in Tasks : ready[t] > 0 => /\ Waiting(t)
                                       /\ NoRepeats => /\ ready[t] = 1
                                                       /\ t \notin blocked
                                                       /\ t \notin completed
                                                       /\ ~InFlight(t)
  BY DEF IndInv, TypeOK, InOnePlace, OneAttemptAtATime, Waiting
<1>2. ASSUME NEW t \in Tasks, DispatchGated(t) PROVE GraphInv'
  <2>1. /\ UNCHANGED <<run, cur, jobs, completed, retries, spawned, pc>>
        /\ pc = "dispatch" /\ ready[t] > 0
        /\ ready' = [ready EXCEPT ![t] = @ - 1] /\ blocked' = blocked \cup {t}
        /\ SetStatus(t, "AwaitingApproval")
        /\ ready \in [Tasks -> Nat]
    BY <1>2 DEF DispatchGated, Popped, IndInv, TypeOK
  <2>2. \A u \in Tasks : /\ InFlight(u)' <=> InFlight(u)
                         /\ Waiting(u)' => Waiting(u)
                         /\ ready'[u] = IF u = t THEN ready[t] - 1 ELSE ready[u]
    BY <2>1 DEF InFlight, Waiting
  <2>3. GroundedTasks'
    BY <2>1, <2>2, SameRun DEF IndInv, GroundedTasks, Touched
  <2>4. OneAttemptAtATime'
    BY <2>1, <2>2, SameRun DEF IndInv, InOnePlace, OneAttemptAtATime
  <2>5. InOnePlace'
    BY <2>1, <2>2, <2>4, <1>1, SameRun DEF IndInv, InOnePlace, TypeOK
  <2>6. RetriesPayForAttempts'
    BY <2>1, <2>2, SameRun DEF IndInv, RetriesPayForAttempts
  <2>7. Records'
    BY <2>1, <1>1, SetStatusKeeps
  <2>8. StartOfRun'
    BY <2>1, LoopHasStarted DEF IndInv, NotStarted, Final
  <2> QED BY <2>3, <2>5, <2>6, <2>7, <2>8 DEF GraphInv, Places
<1>3. ASSUME NEW t \in Tasks, DispatchSpawned(t) PROVE GraphInv'
  <2> DEFINE new == [task |-> t, att |-> spawned[t] + 1, res |-> "busy"]
  <2>1. /\ UNCHANGED <<run, cur, blocked, completed, retries, pc>>
        /\ pc = "dispatch" /\ ready[t] > 0
        /\ ready' = [ready EXCEPT ![t] = @ - 1]
        /\ jobs' = jobs \cup {new} /\ new.task = t
        /\ spawned' = [spawned EXCEPT ![t] = @ + 1]
        /\ SetStatus(t, "Running")
        /\ ready \in [Tasks -> Nat] /\ spawned \in [Tasks -> Nat]
        /\ cur = NoJob
    BY <1>3 DEF DispatchSpawned, Popped, IndInv, TypeOK, CurMatchesPc, Handlers
  <2> HIDE DEF new
  <2>2. \A u \in Tasks : /\ u # t => (InFlight(u)' <=> InFlight(u))
                         /\ u # t => (Waiting(u)' <=> Waiting(u))
                         /\ ready'[u] = IF u = t THEN ready[t] - 1 ELSE ready[u]
                         /\ spawned'[u] = IF u = t THEN spawned[t] + 1 ELSE spawned[u]
    BY <2>1 DEF InFlight, Waiting
  <2>3. NoRepeats => ~Waiting(t)'
    BY <2>1, <2>2, <1>1 DEF Waiting
  <2>4. Touched(t)
    BY <2>1, <1>1 DEF Touched
  <2>5. GroundedTasks'
    BY <2>1, <2>2, <2>4, SameRun DEF IndInv, GroundedTasks, Touched
  <2>6. OneAttemptAtATime'
    <3>1. NoRepeats => \A j \in jobs : j.task # t
      BY <2>1, <1>1 DEF InFlight
    <3> QED
      BY <2>1, <2>2, <2>3, <3>1, <1>1, SameRun, TasksAssumption
         DEF IndInv, InOnePlace, OneAttemptAtATime, NoJob
  <2>7. InOnePlace'
    BY <2>1, <2>2, <2>6, <1>1, SameRun DEF IndInv, InOnePlace, TypeOK
  <2>8. RetriesPayForAttempts'
    <3>1. NoRepeats => spawned[t] <= retries[t]
      BY <2>1, <1>1 DEF IndInv, RetriesPayForAttempts
    <3> QED
      BY <2>1, <2>2, <2>3, <3>1, SameRun
         DEF IndInv, TypeOK, RetriesPayForAttempts
  <2>9. Records'
    BY <2>1, <1>1, SetStatusKeeps
  <2>10. StartOfRun'
    BY <2>1, LoopHasStarted DEF IndInv, NotStarted, Final
  <2> QED BY <2>5, <2>7, <2>8, <2>9, <2>10 DEF GraphInv, Places
<1>4. ASSUME NEW t \in Tasks, DispatchFailed(t) PROVE GraphInv'
  <2>1. /\ UNCHANGED <<run, cur, blocked, completed, retries, spawned>>
        /\ pc = "dispatch" /\ pc' \in {"dispatch", "poll"} /\ ready[t] > 0
        /\ ready' \in {[ready EXCEPT ![t] = @ - 1], [u \in Tasks |-> 0]}
        /\ jobs' \in {jobs, {}} /\ SetStatus(t, "Failed")
        /\ ready \in [Tasks -> Nat]
    BY <1>4 DEF DispatchFailed, Popped, NothingReady, IndInv, TypeOK
  <2>2. Places'
    BY <2>1, PlacesShrink
  <2>3. Records'
    BY <2>1, <1>1, SetStatusKeeps
  <2>4. StartOfRun'
    BY <2>1, LoopHasStarted DEF IndInv, NotStarted, Final
  <2> QED BY <2>2, <2>3, <2>4 DEF GraphInv
<1>5. CASE DispatchDone
  BY <1>5, QuietStep DEF DispatchDone, NotStarted, Final
<1> QED BY <1>2, <1>3, <1>4, <1>5 DEF Dispatch
LEMMA PollGraph == IndInv /\ Poll => GraphInv'
<1> SUFFICES ASSUME IndInv, Poll PROVE GraphInv'
  OBVIOUS
<1> USE DEF flagVars, envVars, askVars
<1>1. CASE PollNotStalled
  BY <1>1, QuietStep DEF PollNotStalled, NotStarted, Final
<1>2. CASE PollCancelled
  BY <1>2, CancelStep DEF PollCancelled, NotStarted, Final
<1>3. CASE PollSlept
  BY <1>3, QuietStep DEF PollSlept, NotStarted, Final
<1>4. CASE PollTimedOut
  <2>1. /\ UNCHANGED <<run, cur, ready, jobs, completed, retries, spawned>>
        /\ pc = "poll" /\ pc' = "finalize" /\ blocked' = {} /\ cur = NoJob
        /\ status' = [t \in Tasks |-> IF t \in blocked THEN "Failed" ELSE status[t]]
        /\ disk' = status'
        /\ completed \subseteq Tasks
    BY <1>4 DEF PollTimedOut, IndInv, TypeOK, CurMatchesPc, Handlers
  <2>2. NoRepeats => \A t \in completed : t \notin blocked
    BY <2>1 DEF IndInv, InOnePlace, OneAttemptAtATime, Waiting
  <2>3. Places'
    BY <2>1, PlacesShrink DEF IndInv, TypeOK
  <2>4. Records'
    BY <2>1, <2>2, RecordsKept
  <2>5. StartOfRun'
    BY <2>1, LoopHasStarted DEF IndInv, NotStarted, Final
  <2> QED BY <2>3, <2>4, <2>5 DEF GraphInv
<1> QED BY <1>1, <1>2, <1>3, <1>4 DEF Poll

LEMMA JoinGraph == IndInv /\ Join => GraphInv'
<1> SUFFICES ASSUME IndInv, Join PROVE GraphInv'
  OBVIOUS
<1> USE DEF flagVars, envVars, askVars, loopVars
<1>1. CASE JoinNone
  BY <1>1, QuietStep DEF JoinNone, NotStarted, Final
<1>2. CASE JoinCancelled
  BY <1>2, CancelStep DEF JoinCancelled, NotStarted, Final
<1>3. ASSUME NEW j \in jobs, JoinOne(j) PROVE GraphInv'
  <2>1. /\ UNCHANGED <<run, status, ready, blocked, completed, retries, spawned>>
        /\ pc = "join" /\ pc' \in {"review", "failure"}
        /\ jobs' = jobs \ {j} /\ cur' = j /\ disk' = status /\ cur = NoJob
        /\ j.task \in Tasks
    BY <1>3 DEF JoinOne, IndInv, TypeOK, CurMatchesPc, Handlers, Job
  <2>2. \A t \in Tasks : /\ InFlight(t)' => InFlight(t)
                         /\ Waiting(t)' <=> Waiting(t)
    BY <2>1 DEF InFlight, Waiting
  <2>3. GroundedTasks'
    BY <2>1, <2>2, SameRun DEF IndInv, GroundedTasks, Touched
  <2>4. OneAttemptAtATime'
    BY <2>1, <2>2, SameRun DEF IndInv, InOnePlace, OneAttemptAtATime
  <2>5. InOnePlace'
    BY <2>1, <2>4, SameRun DEF IndInv, InOnePlace
  <2>6. RetriesPayForAttempts'
    BY <2>1, <2>2, SameRun DEF IndInv, RetriesPayForAttempts
  <2>7. Records'
    BY <2>1, RecordsKept
  <2>8. StartOfRun'
    BY <2>1, LoopHasStarted DEF IndInv, NotStarted, Final
  <2> QED BY <2>3, <2>5, <2>6, <2>7, <2>8 DEF GraphInv, Places
<1> QED BY <1>1, <1>2, <1>3 DEF Join

(* An attempt ends: its task is in flight, hence not released.             *)
LEMMA AttemptGraph == IndInv /\ Attempt => GraphInv'
<1> SUFFICES ASSUME IndInv, NEW j \in jobs, NEW r \in Results, Finish(j, r)
             PROVE  GraphInv'
  BY DEF Attempt
<1> DEFINE done == [j EXCEPT !.res = r]
<1>1. /\ UNCHANGED <<run, pc, cur, disk, ready, blocked, completed, retries, spawned>>
      /\ jobs' = (jobs \ {j}) \cup {done} /\ done.task = j.task
      /\ status' = [status EXCEPT ![j.task] = FinishStatus(r)]
      /\ pc \notin Final /\ j.task \in Tasks
      /\ status \in [Tasks -> Statuses] /\ completed \subseteq Tasks
  BY DEF Finish, IndInv, TypeOK, Job, envVars
<1> HIDE DEF done
<1>2. \A t \in Tasks : /\ InFlight(t)' <=> InFlight(t)
                       /\ Waiting(t)' <=> Waiting(t)
  BY <1>1 DEF InFlight, Waiting
<1>3. GroundedTasks'
  BY <1>1, <1>2, SameRun DEF IndInv, GroundedTasks, Touched
<1>4. OneAttemptAtATime'
  BY <1>1, <1>2, SameRun DEF IndInv, InOnePlace, OneAttemptAtATime
<1>5. InOnePlace'
  BY <1>1, <1>4, SameRun DEF IndInv, InOnePlace
<1>6. RetriesPayForAttempts'
  BY <1>1, <1>2, SameRun DEF IndInv, RetriesPayForAttempts
<1>7. NoRepeats => /\ \A t \in completed : t # j.task
                   /\ cur # NoJob => cur.task # j.task
  BY <1>1 DEF IndInv, InOnePlace, OneAttemptAtATime, InFlight
<1>8. cur # NoJob => cur.task \in Tasks
  BY DEF IndInv, TypeOK, Job
<1>9. Records'
  BY <1>1, <1>7, <1>8, RecordsKept DEF IndInv, CurOnDisk
<1>10. StartOfRun'
  BY <1>1, LoopHasStarted DEF IndInv, StartOfRun, NotStarted
<1> QED BY <1>3, <1>5, <1>6, <1>9, <1>10 DEF GraphInv, Places

LEMMA ClosingGraph == IndInv /\ Closing => GraphInv'
<1> SUFFICES ASSUME IndInv, Closing PROVE GraphInv'
  OBVIOUS
<1> USE DEF flagVars, envVars, askVars, loopVars
<1>1. CASE Finalize
  <2>1. /\ UNCHANGED <<run, cur, loopVars>> /\ cur = NoJob
        /\ pc = "finalize" /\ pc' \in {"outcome", "ended"}
        /\ status' = [t \in Tasks |-> FinalStatus(t)] /\ disk' = status'
        /\ completed \subseteq Tasks
    BY <1>1 DEF Finalize, IndInv, TypeOK, CurMatchesPc, Handlers
  <2>2. NoRepeats => \A t \in completed : FinalStatus(t) = status[t]
    BY DEF IndInv, ReleasedIsDurable, ReleasedStatus, FinalStatus, Unfinished
  <2>3. Places'
    BY <2>1, PlacesShrink DEF IndInv, TypeOK
  <2>4. Records'
    BY <2>1, <2>2, RecordsKept
  <2>5. StartOfRun'
    BY <2>1, LoopHasStarted DEF IndInv, NotStarted, Final
  <2> QED BY <2>3, <2>4, <2>5 DEF GraphInv
<1>2. CASE OutcomeApproved
  BY <1>2, QuietStep DEF OutcomeApproved, NotStarted, Final
<1>3. CASE OutcomeCancelled
  BY <1>3, QuietStep DEF OutcomeCancelled, NotStarted, Final
<1> QED BY <1>1, <1>2, <1>3 DEF Closing

LEMMA WorldGraph == IndInv /\ (World \/ StaleMarkerDropped) => GraphInv'
<1> SUFFICES ASSUME IndInv, World \/ StaleMarkerDropped PROVE GraphInv'
  OBVIOUS
<1> USE DEF flagVars, envVars, askVars, loopVars
<1>1. CASE Crash
  <2>1. /\ UNCHANGED <<run, status, disk, ready, blocked, completed, retries, spawned>>
        /\ jobs' = {} /\ cur' = NoJob /\ pc' = "crashed"
    BY <1>1 DEF Crash
  <2>2. Places'
    BY <2>1, PlacesShrink DEF IndInv, TypeOK
  <2>3. Records'
    BY <2>1, RecordsKept
  <2>4. StartOfRun'
    BY <2>1 DEF StartOfRun, NotStarted, Final
  <2> QED BY <2>2, <2>3, <2>4 DEF GraphInv
<1>2. CASE ~Crash
  <2>1. UNCHANGED <<run, pc, cur, status, disk, loopVars>>
    BY <1>2 DEF World, Human, Approve, ApproveElsewhere,
                TakenElsewhere, RequestCancel, MailSent, MailResolved,
               StaleMarkerDropped
  <2>2. Places'
    BY <2>1, PlacesShrink DEF IndInv, TypeOK
  <2>3. Records'
    BY <2>1, RecordsKept DEF IndInv, CurOnDisk
  <2>4. StartOfRun'
    BY <2>1 DEF IndInv, StartOfRun, NotStarted
  <2> QED BY <2>2, <2>3, <2>4 DEF GraphInv
<1> QED BY <1>1, <1>2
(* While a handler runs, its task is nowhere else and not released.        *)
LEMMA CurTask ==
  ASSUME IndInv, pc \in Handlers
  PROVE  /\ cur \in Job /\ cur.task \in Tasks /\ cur # NoJob
         /\ Deps(cur.task) \subseteq completed
         /\ NoRepeats => /\ cur.task \notin completed
                         /\ ~Waiting(cur.task)
                         /\ \A j \in jobs : j.task # cur.task
                         /\ disk[cur.task] = status[cur.task]
<1>1. cur \in Job /\ cur.task \in Tasks
  BY DEF IndInv, CurMatchesPc, Job
<1>2. cur # NoJob
  BY <1>1, TasksAssumption DEF NoJob
<1>3. InFlight(cur.task) /\ Touched(cur.task)
  BY DEF InFlight, Touched
<1> QED
  BY <1>1, <1>2, <1>3
     DEF IndInv, GroundedTasks, InOnePlace, OneAttemptAtATime, CurOnDisk

LEMMA RequeueGraph ==
  ASSUME IndInv, pc \in Handlers, Requeue(cur.task),
         UNCHANGED <<run, blocked, completed, spawned>>
  PROVE  GraphInv'
<1>0. PICK t \in Tasks : t = cur.task
  BY CurTask
<1>1. /\ Deps(t) \subseteq completed
      /\ NoRepeats => /\ t \notin completed /\ ~Waiting(t)
                      /\ \A j \in jobs : j.task # t
  BY <1>0, CurTask
<1>2. /\ retries' = [retries EXCEPT ![t] = @ + 1]
      /\ ready' = [ready EXCEPT ![t] = @ + 1]
      /\ SetStatus(t, "Pending")
      /\ cur' = NoJob /\ jobs' = jobs /\ pc' = "top"
      /\ ready \in [Tasks -> Nat] /\ retries \in [Tasks -> Nat]
      /\ spawned \in [Tasks -> Nat]
  BY <1>0, BoundsAssumption DEF Requeue, IndInv, TypeOK
<1>3. \A u \in Tasks : /\ InFlight(u)' => InFlight(u)
                       /\ u # t => (Waiting(u)' <=> Waiting(u))
                       /\ ready'[u] = IF u = t THEN ready[t] + 1 ELSE ready[u]
                       /\ retries'[u] = IF u = t THEN retries[t] + 1 ELSE retries[u]
  BY <1>1, <1>2, TasksAssumption DEF InFlight, Waiting, NoJob
<1>4. NoRepeats => ~InFlight(t)'
  BY <1>1, <1>2, TasksAssumption DEF InFlight, NoJob
<1>5. NoRepeats => ready[t] = 0 /\ t \notin blocked
  BY <1>1, <1>2 DEF Waiting
<1>6. GroundedTasks'
  BY <1>1, <1>2, <1>3, SameRun DEF IndInv, GroundedTasks, Touched
<1>7. OneAttemptAtATime'
  BY <1>1, <1>2, <1>3, <1>4, SameRun, TasksAssumption
     DEF IndInv, InOnePlace, OneAttemptAtATime, NoJob
<1>8. InOnePlace'
  BY <1>1, <1>2, <1>3, <1>5, <1>7, SameRun DEF IndInv, InOnePlace
<1>9. RetriesPayForAttempts'
  BY <1>1, <1>2, <1>3, SameRun DEF IndInv, RetriesPayForAttempts
<1>10. Records'
  BY <1>1, <1>2, SetStatusKeeps
<1>11. StartOfRun'
  BY <1>2, LoopHasStarted DEF IndInv, NotStarted, Final, Handlers
<1> QED BY <1>6, <1>8, <1>9, <1>10, <1>11 DEF GraphInv, Places

LEMMA GiveUpGraph ==
  ASSUME IndInv, pc \in Handlers, GiveUp(cur.task),
         UNCHANGED <<run, blocked, completed, spawned>>
  PROVE  GraphInv'
<1>1. /\ retries' = retries /\ ready' = ready /\ cur' = NoJob
      /\ jobs' \in {jobs, {}} /\ pc' \in {"top", "finalize"}
      /\ SetStatus(cur.task, "Failed")
  BY DEF GiveUp, StopOrGoOn
<1>2. Places'
  BY <1>1, PlacesShrink DEF IndInv, TypeOK
<1>3. Records'
  BY <1>1, CurTask, SetStatusKeeps
<1>4. StartOfRun'
  BY <1>1, LoopHasStarted DEF IndInv, NotStarted, Final, Handlers
<1> QED BY <1>2, <1>3, <1>4 DEF GraphInv

LEMMA ReviewGraph ==
  IndInv /\ (FailureRetried \/ FailureEscalated \/ ReviewMisconfigured
             \/ ReviewPassed \/ ReviewRetried \/ ReviewRejected) => GraphInv'
<1> SUFFICES ASSUME IndInv,
                    \/ FailureRetried \/ FailureEscalated \/ ReviewMisconfigured
                    \/ ReviewPassed \/ ReviewRetried \/ ReviewRejected
             PROVE  GraphInv'
  OBVIOUS
<1> USE DEF Handlers
<1>1. CASE FailureRetried
  BY <1>1, RequeueGraph DEF FailureRetried
<1>2. CASE FailureEscalated
  BY <1>2, GiveUpGraph DEF FailureEscalated
<1>3. CASE ReviewMisconfigured
  BY <1>3, GiveUpGraph DEF ReviewMisconfigured
<1>4. CASE ReviewPassed
  BY <1>4, QuietStep DEF ReviewPassed, NotStarted, Final
<1>5. CASE ReviewRetried
  BY <1>5, RequeueGraph DEF ReviewRetried
<1>6. CASE ReviewRejected
  BY <1>6, GiveUpGraph DEF ReviewRejected
<1> QED BY <1>1, <1>2, <1>3, <1>4, <1>5, <1>6

LEMMA GateGraph ==
  IndInv /\ (BudgetOk \/ BudgetTripped \/ ApprovalSkipped \/ ApprovalOpened
             \/ ApprovalGranted \/ ApprovalCancelled) => GraphInv'
<1> SUFFICES ASSUME IndInv,
                    \/ BudgetOk \/ BudgetTripped \/ ApprovalSkipped
                    \/ ApprovalOpened \/ ApprovalGranted \/ ApprovalCancelled
             PROVE  GraphInv'
  OBVIOUS
<1> USE DEF Handlers, flagVars, envVars, askVars, loopVars
<1>1. CASE BudgetOk
  BY <1>1, QuietStep DEF BudgetOk, NotStarted, Final
<1>2. ASSUME UNCHANGED <<run, ready, blocked, completed, retries, spawned>>,
             jobs' \in {jobs, {}}, cur' \in {cur, NoJob}, pc \in Handlers,
             pc' \notin {"planGate", "setup"}, Records'
      PROVE  GraphInv'
  <2>1. Places'
    BY <1>2, PlacesShrink DEF IndInv, TypeOK
  <2>2. StartOfRun'
    BY <1>2, LoopHasStarted DEF IndInv, NotStarted, Final
  <2> QED BY <1>2, <2>1, <2>2 DEF GraphInv
<1>3. CASE BudgetTripped
  <2>1. Records'
    BY <1>3, RecordsKept DEF BudgetTripped
  <2> QED BY <1>2, <1>3, <2>1 DEF BudgetTripped, StopOrGoOn
<1>4. CASE ApprovalSkipped
  <2>1. Records'
    BY <1>4, RecordsKept DEF ApprovalSkipped
  <2> QED BY <1>2, <1>4, <2>1 DEF ApprovalSkipped
<1>5. CASE ApprovalOpened
  <2>1. Records'
    BY <1>5, CurTask, SetStatusKeeps DEF ApprovalOpened
  <2> QED BY <1>2, <1>5, <2>1 DEF ApprovalOpened
<1>6. CASE ApprovalGranted
  <2>1. Records'
    BY <1>6, CurTask, SetStatusKeeps DEF ApprovalGranted
  <2> QED BY <1>2, <1>6, <2>1 DEF ApprovalGranted
<1>7. CASE ApprovalCancelled
  <2>1. Records'
    BY <1>7, CurTask, SetStatusKeeps DEF ApprovalCancelled
  <2> QED BY <1>2, <1>7, <2>1 DEF ApprovalCancelled, CancelLoop
<1> QED BY <1>1, <1>3, <1>4, <1>5, <1>6, <1>7

(* The release of a task: only consumers that were not yet touched become  *)
(* ready, because until now one of their dependencies was missing.         *)
LEMMA IntegrateGraph == IndInv /\ (Integrated \/ IntegrateConflict) => GraphInv'
<1> SUFFICES ASSUME IndInv, Integrated \/ IntegrateConflict PROVE GraphInv'
  OBVIOUS
<1>1. CASE IntegrateConflict
  BY <1>1, GiveUpGraph DEF IntegrateConflict, Handlers
<1>2. CASE Integrated
  <2>0. PICK t : t = cur.task
    OBVIOUS
  <2>1. /\ UNCHANGED <<run, status, disk, jobs, blocked, retries, spawned>>
        /\ pc = "integrate" /\ pc' = "top" /\ cur' = NoJob
        /\ status[t] # "Done" => UNCHANGED <<completed, ready>>
        /\ status[t] = "Done" =>
             /\ completed' = completed \cup {t}
             /\ ready' = [d \in Tasks |-> ready[d] + NewlyReady(t, d)]
    BY <1>2, <2>0 DEF Integrated
  <2>2. /\ t \in Tasks /\ cur # NoJob
        /\ NoRepeats => /\ t \notin completed /\ ~Waiting(t)
                        /\ \A j \in jobs : j.task # t
                        /\ disk[t] = status[t]
    BY <2>0, <2>1, CurTask DEF Handlers
  <2>3. CASE status[t] # "Done"
    <3>1. Places'
      BY <2>1, <2>3, PlacesShrink DEF IndInv, TypeOK
    <3>2. Records'
      BY <2>1, <2>3, RecordsKept
    <3>3. StartOfRun'
      BY <2>1, <2>3, LoopHasStarted DEF IndInv, NotStarted, Final
    <3> QED BY <3>1, <3>2, <3>3 DEF GraphInv
  <2>4. CASE status[t] = "Done"
    <3>1. /\ completed' = completed \cup {t}
          /\ ready' = [d \in Tasks |-> ready[d] + NewlyReady(t, d)]
      BY <2>1, <2>4
    <3>2. \A d \in Tasks :
            /\ NewlyReady(t, d) \in Nat
            /\ NewlyReady(t, d) > 0 =>
                 t \in Deps(d) /\ Deps(d) \subseteq completed' /\ d \notin completed'
            /\ NoRepeats => NewlyReady(t, d) <= 1
      <4>1. run.need \in [Tasks -> [Tasks -> Nat]]
        BY RunsAssumption DEF IndInv, TypeOK, RunType
      <4> QED BY <2>2, <4>1 DEF NewlyReady, AllDepsDone, Deps, NoRepeats
    <3>3. \A d \in Tasks : InFlight(d)' => InFlight(d) /\ (NoRepeats => d # t)
      BY <2>1, <2>2, TasksAssumption DEF InFlight, NoJob
    <3>4. \A d \in Tasks :
            NoRepeats /\ NewlyReady(t, d) > 0 => ~Touched(d)
      BY <2>2, <3>2 DEF IndInv, GroundedTasks
    <3>5. ready \in [Tasks -> Nat]
      BY DEF IndInv, TypeOK
    <3>6. \A d \in Tasks : Waiting(d)' => Waiting(d) \/ NewlyReady(t, d) > 0
      BY <2>1, <3>1, <3>2, <3>5 DEF Waiting
    <3>7. GroundedTasks'
      BY <2>1, <3>1, <3>2, <3>3, <3>6, SameRun DEF IndInv, GroundedTasks, Touched
    <3>8. OneAttemptAtATime'
      <4>1. NoRepeats => ~Waiting(t)'
        BY <2>2, <3>1, <3>2, <3>6
      <4>2. NoRepeats => \A d \in Tasks : InFlight(d)' => ~Waiting(d)'
        BY <3>3, <3>4, <3>6 DEF IndInv, InOnePlace, OneAttemptAtATime, Touched
      <4>3. NoRepeats => \A d \in Tasks : d \in completed' => ~InFlight(d)' /\ ~Waiting(d)'
        BY <3>1, <3>2, <3>3, <3>6, <4>1
           DEF IndInv, InOnePlace, OneAttemptAtATime
      <4>4. NoRepeats => \A i, j \in jobs : i.task = j.task => i = j
        BY DEF IndInv, InOnePlace, OneAttemptAtATime
      <4> QED
        BY <2>1, <4>2, <4>3, <4>4, SameRun, TasksAssumption
           DEF OneAttemptAtATime, NoJob
    <3>9. InOnePlace'
      <4>1. NoRepeats => \A d \in Tasks :
              NewlyReady(t, d) > 0 => ready[d] = 0 /\ d \notin blocked
        BY <3>4, <3>5 DEF Touched, Waiting
      <4>2. NoRepeats => \A d \in Tasks :
              ready[d] <= 1 /\ (d \in blocked => ready[d] = 0)
        BY DEF IndInv, InOnePlace
      <4>3. NoRepeats => \A d \in Tasks :
              ready'[d] <= 1 /\ (d \in blocked' => ready'[d] = 0)
        BY <2>1, <3>1, <3>2, <3>5, <4>1, <4>2
      <4> QED BY <2>1, <3>8, <4>3, SameRun DEF InOnePlace
    <3>10. RetriesPayForAttempts'
      <4>1. NoRepeats => \A d \in Tasks : NewlyReady(t, d) > 0 => spawned[d] = 0
        BY <3>4 DEF Touched, IndInv, TypeOK
      <4>2. retries \in [Tasks -> Nat]
        BY BoundsAssumption DEF IndInv, TypeOK
      <4> QED
        BY <2>1, <3>6, <4>1, <4>2, SameRun DEF IndInv, RetriesPayForAttempts
    <3>11. Records'
      <4>1. NoRepeats => t \notin run.filtered
        BY <2>1, <2>2 DEF IndInv, StartOfRun, NotStarted, Final
      <4> QED
        BY <2>1, <2>2, <2>4, <3>1, <4>1, SameRun
           DEF IndInv, Records, CurOnDisk, ReleasedIsDurable, ReleasedStatus
    <3>12. StartOfRun'
      BY <2>1, <3>1, LoopHasStarted DEF IndInv, NotStarted, Final
    <3> QED BY <3>7, <3>9, <3>10, <3>11, <3>12 DEF GraphInv, Places
  <2> QED BY <2>3, <2>4
<1> QED BY <1>1, <1>2

LEMMA IndInvStep == IndInv /\ [Next]_vars => IndInv'
<1> SUFFICES ASSUME IndInv, [Next]_vars PROVE IndInv'
  OBVIOUS
<1>1. TypeInv'
  BY TypeStep DEF IndInv, TypeInv
<1>2. GraphInv'
  <2>1. CASE Handle
    BY <2>1, ReviewGraph, GateGraph, IntegrateGraph DEF Handle
  <2>2. CASE Scheduler
    BY <2>1, <2>2, StartGraph, TopGraph, DispatchGraph, PollGraph, JoinGraph,
       ClosingGraph, WorldGraph DEF Scheduler
  <2>3. CASE UNCHANGED vars
    <3>1. UNCHANGED <<run, pc, cur, status, disk, loopVars>>
      BY <2>3 DEF vars
    <3>2. Places'
      BY <3>1, PlacesShrink DEF IndInv, TypeOK, loopVars
    <3>3. Records'
      BY <3>1, RecordsKept DEF IndInv, CurOnDisk, loopVars
    <3>4. StartOfRun'
      BY <3>1 DEF IndInv, StartOfRun, NotStarted, loopVars
    <3> QED BY <3>2, <3>3, <3>4 DEF GraphInv
  <2> QED BY <2>2, <2>3, AttemptGraph, WorldGraph DEF Next, Terminated
<1> QED BY <1>1, <1>2 DEF IndInv, TypeInv, GraphInv, Places, Records

THEOREM IndInvHolds == Spec => []IndInv
<1>1. Init => IndInv
  BY InitTypes, InitGraph DEF IndInv, TypeInv, GraphInv, Places, Records
<1> QED BY <1>1, IndInvStep, PTL DEF Spec
(* What IndInv was needed for.                                             *)

(* A task is never worked on twice at the same time, for any plan that     *)
(* names no dependency twice.                                              *)
THEOREM NeverTwoAttempts == Spec => []OneAttemptAtATime
<1>1. IndInv => OneAttemptAtATime
  BY DEF IndInv, InOnePlace
<1> QED BY <1>1, IndInvHolds, PTL

(* No mix of failures, rejections and mail gates exceeds the retry budget. *)
THEOREM RetriesAreBounded == Spec => []AttemptsBounded
<1>1. IndInv => AttemptsBounded
  BY BoundsAssumption
     DEF IndInv, RetriesPayForAttempts, AttemptsBounded, AttemptsWithinBudget,
         TypeOK
<1> QED BY <1>1, IndInvHolds, PTL

(* What was released stays Done, in memory and on disk.                    *)
THEOREM ReleasedSurvives == Spec => []ReleasedIsDurable
<1>1. IndInv => ReleasedIsDurable
  BY DEF IndInv
<1> QED BY <1>1, IndInvHolds, PTL

(* Only dispatch_one_task starts an attempt.                               *)
LEMMA WhoSpawns ==
  ASSUME [Next]_vars, NEW t \in Tasks, spawned'[t] # spawned[t]
  PROVE  \E u \in Tasks : DispatchSpawned(u)
<1> USE DEF vars, loopVars, flagVars, envVars, askVars
<1>1. ~(Start \/ Top \/ Poll \/ Join)
  BY DEF Start, PlanGateApproved, PlanGateCancelled, Setup, Top, LoopExit,
         LoopCancelled, Readmit, Poll, PollNotStalled, PollCancelled, PollSlept,
         PollTimedOut, Join, JoinNone, JoinCancelled, JoinOne
<1>2. ~Handle
  BY DEF Handle, FailureRetried, FailureEscalated, ReviewMisconfigured,
         ReviewPassed, ReviewRetried, ReviewRejected, BudgetOk, BudgetTripped,
         ApprovalSkipped, ApprovalOpened, ApprovalGranted, ApprovalCancelled,
         Integrated, IntegrateConflict
<1>3. ~(Closing \/ StaleMarkerDropped \/ Attempt)
  BY DEF Closing, Finalize, OutcomeApproved, OutcomeCancelled,
         StaleMarkerDropped, Attempt, Finish
<1>4. ~(World \/ Terminated)
  BY DEF World, Human, Approve, ApproveElsewhere,
         TakenElsewhere, RequestCancel, MailSent, MailResolved, Crash,
         Terminated
<1>5. Dispatch
  BY <1>1, <1>2, <1>3, <1>4 DEF Next, Scheduler
<1> QED BY <1>5 DEF Dispatch, DispatchGated, DispatchFailed, DispatchDone

(* An attempt starts only behind dependencies that are Done, or left out.  *)
THEOREM DependenciesFirst == Spec => StartsBehindDeps
<1> DEFINE Behind ==
      NoRepeats =>
        \A t \in Tasks : spawned'[t] > spawned[t] =>
          \A d \in Deps(t) : d \in completed /\ status[d] = ReleasedStatus(d)
<1>1. IndInv /\ [Next]_vars => [Behind]_vars
  <2> SUFFICES ASSUME IndInv, [Next]_vars, NoRepeats, NEW t \in Tasks,
                      spawned'[t] > spawned[t], NEW d \in Deps(t)
               PROVE  d \in completed /\ status[d] = ReleasedStatus(d)
    OBVIOUS
  <2>1. spawned \in [Tasks -> Nat] /\ ready \in [Tasks -> Nat]
    BY DEF IndInv, TypeOK
  <2>2. PICK u \in Tasks : DispatchSpawned(u)
    BY <2>1, WhoSpawns
  <2>3. ready[t] > 0
    BY <2>1, <2>2 DEF DispatchSpawned
  <2>4. d \in completed
    BY <2>3 DEF IndInv, GroundedTasks, Touched, Waiting
  <2> QED BY <2>4 DEF IndInv, ReleasedIsDurable
<1>2. StartsBehindDeps <=> [][Behind]_vars
  BY DEF StartsBehindDeps
<1> QED BY <1>1, <1>2, IndInvHolds, PTL DEF Spec
------------------------------------------------------------------------------
(* Gates.  A marker that would release the gate that is open was written   *)
(* while it was open or within the grace, and a gated task reaches         *)
(* integration only through its gate.                                      *)

MarkerInv == \A k \in GateKeys : OpenGate = k /\ Releases(k) => Vouched(k)
GateInv ==
  /\ MarkerInv
  /\ pc = "integrate" /\ cur.task \in run.gated => Vouched(cur.task)
  /\ GateHeld

LEMMA NoGateIsNoTask == NoTask \notin GateKeys
BY TasksAssumption DEF GateKeys

(* The gate at hand stays the same, and no marker comes up.                *)
LEMMA MarkersFade ==
  ASSUME TypeInv, MarkerInv, pc' = pc, cur' = cur, UNCHANGED askVars,
         \/ marker' = marker
         \/ \E k \in GateKeys : DropMarker(k)
  PROVE  MarkerInv'
<1> SUFFICES ASSUME NEW k \in GateKeys, OpenGate' = k, Releases(k)'
             PROVE  Vouched(k)'
  BY DEF MarkerInv
<1>1. OpenGate = k
  BY DEF OpenGate
<1>2. Releases(k)
  BY DEF Releases, DropMarker, TypeInv, TypeOK
<1> QED BY <1>1, <1>2 DEF MarkerInv, Vouched, askVars

(* No gate is at hand after the step.                                      *)
LEMMA NoGateAtHand ==
  ASSUME pc' \notin {"planGate", "outcome", "approve"}
  PROVE  MarkerInv'
<1>1. OpenGate' = NoTask
  BY DEF OpenGate
<1> QED BY <1>1, NoGateIsNoTask DEF MarkerInv

(* A gate opens: what would release it now counts as an answer.            *)
LEMMA MarkerOnOpening ==
  ASSUME TypeInv, NEW k \in GateKeys, OpenMarker(k), OpenGate' = k
  PROVE  MarkerInv'
<1>1. PICK age \in Markers :
        /\ marker' = [marker EXCEPT ![k] = age]
        /\ answered' = IF age = "ours" THEN answered \cup {k} ELSE answered
        /\ lent' = IF age = "theirs" THEN lent \cup {k} ELSE lent
  BY DEF OpenMarker, TypeInv, TypeOK, Markers
<1>2. marker'[k] = age
  BY <1>1 DEF TypeInv, TypeOK
<1>3. Releases(k)' => Vouched(k)'
  BY <1>1, <1>2 DEF Releases, Vouched
<1> QED BY <1>3 DEF MarkerInv

(* Somebody writes a marker, for this run or another, or takes one away.   *)
LEMMA MarkerWritten ==
  ASSUME TypeInv, MarkerInv, Human
  PROVE  MarkerInv'
<1>1. PICK u \in GateKeys : Approve(u) \/ ApproveElsewhere(u) \/ TakenElsewhere(u)
  BY DEF Human
<1>2. pc' = pc /\ cur' = cur /\ OpenGate' = OpenGate
  BY <1>1 DEF Approve, ApproveElsewhere, TakenElsewhere, OpenGate
<1> SUFFICES ASSUME NEW k \in GateKeys, OpenGate = k, Releases(k)'
             PROVE  Vouched(k)'
  BY <1>2 DEF MarkerInv
<1>3. answered \subseteq answered' /\ lent \subseteq lent'
  BY <1>1 DEF Approve, ApproveElsewhere, TakenElsewhere, askVars
<1>4. CASE Releases(k)
  BY <1>3, <1>4 DEF MarkerInv, Vouched
<1>5. CASE ~Releases(k)
  <2>1. marker' # marker /\ marker'[k] # marker[k] /\ marker'[k] # "none"
    BY <1>5 DEF Releases
  <2>2. ~TakenElsewhere(u)
    BY <2>1 DEF TakenElsewhere, DropMarker, TypeInv, TypeOK
  <2>3. u = k
    BY <1>1, <2>1, <2>2 DEF Approve, ApproveElsewhere, TypeInv, TypeOK
  <2> QED BY <1>1, <2>2, <2>3 DEF Approve, ApproveElsewhere, Vouched
<1> QED BY <1>4, <1>5

LEMMA MarkerStep ==
  ASSUME TypeInv, MarkerInv, [Next]_vars
  PROVE  MarkerInv'
<1> USE DEF vars, loopVars, flagVars, envVars, askVars
<1>1. CASE Start \/ Top \/ Poll \/ Join
  <2>1. pc' \notin {"planGate", "outcome", "approve"}
    BY <1>1
       DEF Start, PlanGateApproved, PlanGateCancelled, Setup, Top, LoopExit,
           LoopCancelled, Readmit, CancelLoop, Poll, PollNotStalled, PollCancelled,
           PollSlept, PollTimedOut, Join, JoinNone, JoinCancelled, JoinOne
  <2> QED BY <2>1, NoGateAtHand
<1>2. CASE Dispatch
  <2>1. pc' \notin {"planGate", "outcome", "approve"}
    BY <1>2 DEF Dispatch, DispatchGated, DispatchSpawned, DispatchFailed, DispatchDone
  <2> QED BY <2>1, NoGateAtHand
<1>3. CASE Handle /\ ~ApprovalOpened
  <2>1. pc' \notin {"planGate", "outcome", "approve"}
    BY <1>3
       DEF Handle, FailureRetried, FailureEscalated, ReviewMisconfigured,
           ReviewPassed, ReviewRetried, ReviewRejected, BudgetOk, BudgetTripped,
           ApprovalSkipped, ApprovalGranted, ApprovalCancelled, Integrated,
           IntegrateConflict, Requeue, GiveUp, StopOrGoOn, CancelLoop
  <2> QED BY <2>1, NoGateAtHand
<1>4. CASE ApprovalOpened
  <2>1. cur' = cur /\ pc' = "approve" /\ OpenMarker(cur.task) /\ cur.task \in GateKeys
    BY <1>4 DEF ApprovalOpened, TypeInv, CurMatchesPc, Handlers, Job, GateKeys
  <2>2. OpenGate' = cur.task
    BY <2>1 DEF OpenGate
  <2> QED BY <2>1, <2>2, MarkerOnOpening
<1>5. CASE Finalize
  <2>1. GateOutcome \in GateKeys
    BY DEF GateKeys
  <2>2. CASE pc' = "ended"
    BY <2>2, NoGateAtHand
  <2>3. CASE pc' = "outcome" /\ OpenMarker(GateOutcome)
    <3>1. OpenGate' = GateOutcome
      BY <2>3 DEF OpenGate
    <3> QED BY <2>1, <2>3, <3>1, MarkerOnOpening
  <2> QED BY <1>5, <2>2, <2>3 DEF Finalize
<1>6. CASE OutcomeApproved \/ OutcomeCancelled \/ Crash
  <2>1. pc' \notin {"planGate", "outcome", "approve"}
    BY <1>6 DEF OutcomeApproved, OutcomeCancelled, Crash
  <2> QED BY <2>1, NoGateAtHand
<1>7. CASE StaleMarkerDropped
  <2>1. OpenGate \in GateKeys
    BY <1>7 DEF StaleMarkerDropped, OpenGate, TypeInv, CurMatchesPc, Handlers, Job, GateKeys
  <2>2. pc' = pc /\ cur' = cur /\ UNCHANGED askVars /\ DropMarker(OpenGate)
    BY <1>7 DEF StaleMarkerDropped
  <2> QED BY <2>1, <2>2, MarkersFade
<1>8. CASE \/ Attempt \/ RequestCancel \/ Terminated \/ UNCHANGED vars
           \/ \E t \in Tasks : MailSent(t) \/ MailResolved(t)
  <2>1. pc' = pc /\ cur' = cur /\ UNCHANGED askVars /\ marker' = marker
    BY <1>8 DEF Attempt, Finish, RequestCancel, Terminated, MailSent, MailResolved
  <2> QED BY <2>1, MarkersFade
<1>9. CASE Human
  BY <1>9, MarkerWritten
<1> QED BY <1>1, <1>2, <1>3, <1>4, <1>5, <1>6, <1>7, <1>8, <1>9
        DEF Next, Scheduler, Closing, World

LEMMA OpeningAdds ==
  ASSUME NEW k, OpenMarker(k)
  PROVE  answered \subseteq answered' /\ lent \subseteq lent'
BY DEF OpenMarker

(* The run is fixed, answers accumulate, and only the setup of the run and *)
(* the integration of a task add to completed.                             *)
LEMMA WhoReleases ==
  ASSUME [Next]_vars
  PROVE  /\ run' = run
         /\ answered \subseteq answered' /\ lent \subseteq lent'
         /\ completed' = completed \/ Setup \/ Integrated
<1> USE DEF vars, loopVars, flagVars, envVars, askVars
<1>1. CASE Setup \/ Integrated
  BY <1>1 DEF Setup, Integrated
<1>2. CASE PlanGateApproved \/ PlanGateCancelled \/ Top \/ Poll \/ Join \/ Dispatch
  BY <1>2
     DEF PlanGateApproved, PlanGateCancelled, Top, LoopExit, LoopCancelled, Readmit,
         Poll, PollNotStalled, PollCancelled, PollSlept, PollTimedOut, Join,
         JoinNone, JoinCancelled, JoinOne, Dispatch, DispatchGated,
         DispatchSpawned, DispatchFailed, DispatchDone
<1>3. CASE Handle /\ ~Integrated
  BY <1>3, OpeningAdds
     DEF Handle, FailureRetried, FailureEscalated, ReviewMisconfigured,
         ReviewPassed, ReviewRetried, ReviewRejected, BudgetOk, BudgetTripped,
         ApprovalSkipped, ApprovalOpened, ApprovalGranted, ApprovalCancelled,
         IntegrateConflict
<1>4. CASE Closing \/ StaleMarkerDropped \/ Attempt
  BY <1>4, OpeningAdds
     DEF Closing, Finalize, OutcomeApproved, OutcomeCancelled, StaleMarkerDropped,
         Attempt, Finish
<1>5. CASE World \/ Terminated \/ UNCHANGED vars
  BY <1>5 DEF World, Human, Approve, ApproveElsewhere,
              TakenElsewhere, RequestCancel, MailSent, MailResolved,
              Crash, Terminated
<1> QED BY <1>1, <1>2, <1>3, <1>4, <1>5 DEF Next, Scheduler, Start

(* Integration is entered from the approval handler only.                  *)
LEMMA WhoIntegrates ==
  ASSUME [Next]_vars, pc' = "integrate"
  PROVE  \/ pc = "integrate" /\ cur' = cur
         \/ ApprovalSkipped \/ ApprovalGranted
<1> USE DEF vars, loopVars, flagVars, envVars, askVars
<1>1. ~(Start \/ Top \/ Poll \/ Join \/ Closing)
  BY DEF Start, PlanGateApproved, PlanGateCancelled, Setup, Top, LoopExit,
         LoopCancelled, Readmit, Poll, PollNotStalled, PollCancelled, PollSlept,
         PollTimedOut, Join, JoinNone, JoinCancelled, JoinOne, CancelLoop,
         Closing, Finalize, OutcomeApproved, OutcomeCancelled
<1>2. ~Dispatch
  BY DEF Dispatch, DispatchGated, DispatchSpawned, DispatchFailed, DispatchDone
<1>3. ~(FailureRetried \/ FailureEscalated \/ ReviewMisconfigured
        \/ ReviewRetried \/ ReviewRejected \/ IntegrateConflict)
  BY DEF FailureRetried, FailureEscalated, ReviewMisconfigured, ReviewRetried,
         ReviewRejected, IntegrateConflict, Requeue, GiveUp, StopOrGoOn
<1>4. ~(ReviewPassed \/ BudgetOk \/ BudgetTripped \/ ApprovalOpened
        \/ ApprovalCancelled \/ Integrated)
  BY DEF ReviewPassed, BudgetOk, BudgetTripped, ApprovalOpened,
         ApprovalCancelled, Integrated, StopOrGoOn, CancelLoop
<1>5. CASE StaleMarkerDropped \/ Attempt \/ World \/ Terminated \/ UNCHANGED vars
  BY <1>5 DEF StaleMarkerDropped, Attempt, Finish, World, Human, Approve, ApproveElsewhere,
              TakenElsewhere,
              RequestCancel, MailSent, MailResolved, Crash, Terminated
<1> QED BY <1>1, <1>2, <1>3, <1>4, <1>5 DEF Next, Scheduler, Handle

LEMMA GateStep == TypeInv /\ GateInv /\ [Next]_vars => GateInv'
<1> SUFFICES ASSUME TypeInv, GateInv, [Next]_vars PROVE GateInv'
  OBVIOUS
<1>1. /\ run' = run /\ \A k : Vouched(k) => Vouched(k)'
      /\ completed' = completed \/ Setup \/ Integrated
  BY WhoReleases DEF Vouched
<1>2. MarkerInv'
  BY MarkerStep DEF GateInv
<1>3. pc' = "integrate" /\ cur'.task \in run'.gated => Vouched(cur.task)'
  <2> SUFFICES ASSUME pc' = "integrate", cur'.task \in run'.gated
               PROVE  Vouched(cur.task)'
    OBVIOUS
  <2>1. CASE pc = "integrate" /\ cur' = cur
    BY <1>1, <2>1 DEF GateInv
  <2>2. CASE ApprovalSkipped
    BY <1>1, <2>2 DEF ApprovalSkipped, NeedsGate
  <2>3. CASE ApprovalGranted
    <3>1. cur.task \in GateKeys /\ OpenGate = cur.task /\ Releases(cur.task) /\ cur' = cur
      BY <2>3 DEF ApprovalGranted, TypeInv, CurMatchesPc, Handlers, Job, GateKeys, OpenGate
    <3>2. Vouched(cur.task)
      BY <3>1 DEF GateInv, MarkerInv
    <3> QED BY <1>1, <3>1, <3>2
  <2> QED BY <2>1, <2>2, <2>3, WhoIntegrates
<1>4. GateHeld'
  <2>1. CASE completed' = completed
    BY <1>1, <2>1 DEF GateInv, GateHeld
  <2>2. CASE Setup
    BY <1>1, <2>2 DEF Setup, GateHeld
  <2>3. CASE Integrated
    <3>1. /\ pc = "integrate" /\ completed' \subseteq completed \cup {cur.task}
          /\ \A t \in completed \ run.filtered : t \in run.gated => Vouched(t)
          /\ cur.task \in run.gated => Vouched(cur.task)
      BY <2>3 DEF Integrated, GateInv, GateHeld
    <3>2. \A t \in completed' \ run'.filtered : t \in run'.gated => Vouched(t)'
      BY <1>1, <3>1
    <3> QED BY <3>2 DEF GateHeld
  <2> QED BY <1>1, <2>1, <2>2, <2>3
<1> QED BY <1>2, <1>3, <1>4 DEF GateInv

LEMMA InitMarkers == Init => MarkerInv
<1> SUFFICES ASSUME Init, NEW k \in GateKeys, OpenGate = k, Releases(k) PROVE Vouched(k)
  BY DEF MarkerInv
<1>1. k = GatePlan /\ run.planGate
  BY NoGateIsNoTask DEF Init, OpenGate
<1>2. lent = {GatePlan}
  BY <1>1 DEF Init, Releases
<1> QED BY <1>1, <1>2 DEF Vouched

(* A gated task is released only on a marker written while its gate was    *)
(* open or within the grace before.                                        *)
LEMMA TaskGatesHold == Spec => []GateHeld
<1>1. Init => GateInv
  BY InitMarkers DEF Init, GateInv, GateHeld
<1>2. TypeInv /\ GateInv /\ [Next]_vars => (TypeInv /\ GateInv)'
  BY TypeStep, GateStep
<1>3. Spec => [](TypeInv /\ GateInv)
  BY InitTypes, <1>1, <1>2, PTL DEF Spec
<1>4. TypeInv /\ GateInv => GateHeld
  BY DEF GateInv
<1> QED BY <1>3, <1>4, PTL

------------------------------------------------------------------------------
(* The end of a run.                                                       *)

EndInv ==
  /\ pc \in {"planGate", "setup", "finalize", "outcome", "ended"}
       => jobs = {} /\ cur = NoJob
  /\ pc \in {"planGate", "setup", "outcome", "ended"} => disk = status

LEMMA EndStep == TypeInv /\ EndInv /\ [Next]_vars => EndInv'
<1> SUFFICES ASSUME TypeInv, EndInv, [Next]_vars PROVE EndInv'
  OBVIOUS
<1> USE DEF vars, loopVars, flagVars, envVars, askVars, EndInv
<1>1. pc \notin Handlers => cur = NoJob
  BY DEF TypeInv, CurMatchesPc
<1>2. CASE Start \/ Top \/ Poll
  BY <1>1, <1>2
     DEF Start, PlanGateApproved, PlanGateCancelled, Setup, Top, LoopExit, HasWork,
         LoopCancelled, Readmit, Poll, PollNotStalled, PollCancelled, PollSlept,
         PollTimedOut, Stalled, CancelLoop, Handlers
<1>3. CASE Dispatch
  BY <1>3 DEF Dispatch, DispatchGated, DispatchSpawned, DispatchFailed, DispatchDone
<1>4. CASE Join
  BY <1>1, <1>4 DEF Join, JoinNone, JoinCancelled, JoinOne, CancelLoop, Handlers
<1>5. CASE Handle
  <2>1. CASE FailureRetried \/ FailureEscalated \/ ReviewMisconfigured
             \/ ReviewRetried \/ ReviewRejected \/ IntegrateConflict
    BY <2>1 DEF FailureRetried, FailureEscalated, ReviewMisconfigured,
                ReviewRetried, ReviewRejected, IntegrateConflict, Requeue, GiveUp,
                StopOrGoOn
  <2>2. CASE ReviewPassed \/ BudgetOk \/ BudgetTripped \/ ApprovalSkipped
             \/ ApprovalOpened \/ ApprovalGranted \/ ApprovalCancelled \/ Integrated
    BY <2>2 DEF ReviewPassed, BudgetOk, BudgetTripped, ApprovalSkipped,
                ApprovalOpened, ApprovalGranted, ApprovalCancelled, Integrated,
                StopOrGoOn, CancelLoop
  <2> QED BY <1>5, <2>1, <2>2 DEF Handle
<1>6. CASE Closing
  BY <1>6 DEF Closing, Finalize, OutcomeApproved, OutcomeCancelled
<1>7. CASE Attempt
  BY <1>7 DEF Attempt, Finish, Final
<1>8. CASE StaleMarkerDropped \/ World \/ Terminated \/ UNCHANGED vars
  BY <1>8 DEF StaleMarkerDropped, World, Human, Approve, ApproveElsewhere,
              TakenElsewhere, RequestCancel, MailSent,
              MailResolved, Crash, Terminated
<1> QED BY <1>2, <1>3, <1>4, <1>5, <1>6, <1>7, <1>8 DEF Next, Scheduler

(* When the run has ended no attempt is alive and RUN_STATE.json is what   *)
(* was decided in memory.                                                  *)
THEOREM EndsQuietly == Spec => []EndIsQuietAndOnDisk
<1>1. Init => EndInv
  BY DEF Init, EndInv
<1>2. TypeInv /\ EndInv /\ [Next]_vars => (TypeInv /\ EndInv)'
  BY TypeStep, EndStep
<1>3. Spec => [](TypeInv /\ EndInv)
  BY InitTypes, <1>1, <1>2, PTL DEF Spec
<1>4. TypeInv /\ EndInv => EndIsQuietAndOnDisk
  BY DEF EndInv, EndIsQuietAndOnDisk
<1> QED BY <1>3, <1>4, PTL

------------------------------------------------------------------------------
(* The gates of the whole run.  Until the plan is approved nothing happens,*)
(* and a run is Done only once it is at, or past, its outcome gate.        *)

RunGateInv ==
  /\ MarkerInv
  /\ run.planGate /\ ~Vouched(GatePlan)
       => completed = {} /\ pc \in {"planGate", "ended", "crashed"}
  /\ runStatus = "Done" => pc \in {"outcome", "ended", "crashed"}
  /\ run.outcomeGate /\ pc = "ended" /\ runStatus = "Done"
       => Vouched(GateOutcome)

LEMMA RunGateStep == TypeInv /\ RunGateInv /\ [Next]_vars => RunGateInv'
<1> SUFFICES ASSUME TypeInv, RunGateInv, [Next]_vars PROVE RunGateInv'
  OBVIOUS
<1>1. run' = run /\ \A k : Vouched(k) => Vouched(k)'
  BY WhoReleases DEF Vouched
<1>2. MarkerInv'
  BY MarkerStep DEF RunGateInv
<1>3. /\ pc = "planGate" /\ Releases(GatePlan) => Vouched(GatePlan)
      /\ pc = "outcome" /\ Releases(GateOutcome) => Vouched(GateOutcome)
  BY DEF GateKeys, RunGateInv, MarkerInv, OpenGate
<1> DEFINE Unasked == run.planGate /\ ~Vouched(GatePlan)'
           Quiet   == completed' = {} /\ pc' \in {"planGate", "ended", "crashed"}
           Closed  == /\ runStatus' = "Done" => pc' \in {"outcome", "ended", "crashed"}
                      /\ run.outcomeGate /\ pc' = "ended" /\ runStatus' = "Done"
                           => Vouched(GateOutcome)'
<1> SUFFICES (Unasked => Quiet) /\ Closed
  BY <1>1, <1>2 DEF RunGateInv
<1> USE DEF vars, loopVars, flagVars, envVars, RunGateInv
<1>4. CASE Start
  BY <1>1, <1>3, <1>4
     DEF Start, PlanGateApproved, PlanGateCancelled, Setup
<1>5. CASE Top \/ Poll \/ Join
  BY <1>1, <1>5
     DEF Top, LoopExit, LoopCancelled, Readmit, Poll, PollNotStalled, PollCancelled,
         PollSlept, PollTimedOut, Join, JoinNone, JoinCancelled, JoinOne, CancelLoop
<1>6. CASE Dispatch
  BY <1>1, <1>6
     DEF Dispatch, DispatchGated, DispatchSpawned, DispatchFailed, DispatchDone
<1>7. CASE Handle
  <2>1. CASE FailureRetried \/ FailureEscalated \/ ReviewMisconfigured
             \/ ReviewRetried \/ ReviewRejected \/ IntegrateConflict
    BY <1>1, <2>1
       DEF FailureRetried, FailureEscalated, ReviewMisconfigured, ReviewRetried,
           ReviewRejected, IntegrateConflict, Requeue, GiveUp, StopOrGoOn
  <2>2. CASE ReviewPassed \/ BudgetOk \/ BudgetTripped \/ ApprovalSkipped
             \/ ApprovalOpened \/ ApprovalGranted \/ ApprovalCancelled \/ Integrated
    BY <1>1, <2>2
       DEF ReviewPassed, BudgetOk, BudgetTripped, ApprovalSkipped, ApprovalOpened,
           ApprovalGranted, ApprovalCancelled, Integrated, StopOrGoOn, CancelLoop
  <2> QED BY <1>7, <2>1, <2>2 DEF Handle
<1>8. CASE Closing
  BY <1>1, <1>3, <1>8
     DEF Closing, Finalize, FinalRunStatus, OutcomeGateOpens, OutcomeApproved,
         OutcomeCancelled
<1>9. CASE Attempt \/ StaleMarkerDropped \/ World \/ Terminated \/ UNCHANGED vars
  BY <1>1, <1>9
     DEF Attempt, Finish, StaleMarkerDropped, World, Human, Approve, ApproveElsewhere,
         TakenElsewhere, RequestCancel,
         MailSent, MailResolved, Crash, Terminated, Final
<1> QED BY <1>4, <1>5, <1>6, <1>7, <1>8, <1>9 DEF Next, Scheduler

(* Only a run whose gates have the same names as those of another run that *)
(* waits at the same time is ever answered in that run's stead.            *)
OwnInv == ~run.shared => lent = {} /\ \A k \in GateKeys : marker[k] # "theirs"

LEMMA OwnStep ==
  ASSUME TypeInv, OwnInv, [Next]_vars
  PROVE  OwnInv'
<1> SUFFICES ASSUME ~run.shared
             PROVE  lent' = {} /\ \A k \in GateKeys : marker'[k] # "theirs"
  BY WhoReleases DEF OwnInv
<1>1. lent = {} /\ \A k \in GateKeys : marker[k] # "theirs"
  BY DEF OwnInv
<1> USE DEF vars, loopVars, flagVars, envVars, askVars
<1>2. CASE lent' = lent /\ marker' = marker
  BY <1>1, <1>2
<1>3. ASSUME NEW k, DropMarker(k), lent' = lent
      PROVE  lent' = {} /\ \A x \in GateKeys : marker'[x] # "theirs"
  BY <1>1, <1>3 DEF DropMarker, TypeInv, TypeOK
<1>4. ASSUME NEW k \in GateKeys, OpenMarker(k)
      PROVE  lent' = {} /\ \A x \in GateKeys : marker'[x] # "theirs"
  <2>1. PICK age \in Markers \ {"theirs"} :
          /\ marker' = [marker EXCEPT ![k] = age]
          /\ lent' = IF age = "theirs" THEN lent \cup {k} ELSE lent
    BY <1>1, <1>4 DEF OpenMarker, Markers, TypeInv, TypeOK
  <2> QED BY <1>1, <2>1 DEF TypeInv, TypeOK
<1>5. CASE Handle
  <2>1. ApprovalOpened => cur.task \in GateKeys
    BY DEF ApprovalOpened, TypeInv, CurMatchesPc, Handlers, Job, GateKeys
  <2>2. \/ lent' = lent /\ marker' = marker
        \/ lent' = lent /\ DropMarker(cur.task)
        \/ cur.task \in GateKeys /\ OpenMarker(cur.task)
    BY <1>5, <2>1
       DEF Handle, FailureRetried, FailureEscalated, ReviewMisconfigured,
           ReviewPassed, ReviewRetried, ReviewRejected, BudgetOk, BudgetTripped,
           ApprovalSkipped, ApprovalOpened, ApprovalGranted, ApprovalCancelled,
           Integrated, IntegrateConflict
  <2> QED BY <1>2, <1>3, <1>4, <2>2
<1>6. CASE Start \/ Closing \/ StaleMarkerDropped
  <2>1. GateOutcome \in GateKeys
    BY DEF GateKeys
  <2> QED
    BY <1>2, <1>3, <1>4, <1>6, <2>1
       DEF Start, PlanGateApproved, PlanGateCancelled, Setup, Closing, Finalize,
           OutcomeApproved, OutcomeCancelled, StaleMarkerDropped
<1>7. CASE Top \/ Dispatch \/ Poll \/ Join \/ Attempt
  BY <1>2, <1>7
     DEF Top, LoopExit, LoopCancelled, Readmit, Dispatch, DispatchGated,
         DispatchSpawned, DispatchFailed, DispatchDone, Poll, PollNotStalled,
         PollCancelled, PollSlept, PollTimedOut, Join, JoinNone, JoinCancelled,
         JoinOne, Attempt, Finish
<1>8. CASE Human
  <2>1. PICK u \in GateKeys : Approve(u) \/ ApproveElsewhere(u) \/ TakenElsewhere(u)
    BY <1>8 DEF Human
  <2>2. Approve(u)
    BY <2>1 DEF ApproveElsewhere, TakenElsewhere
  <2> QED BY <1>1, <2>2 DEF Approve, TypeInv, TypeOK
<1>9. CASE (World /\ ~Human) \/ Terminated \/ UNCHANGED vars
  BY <1>2, <1>9 DEF World, RequestCancel, MailSent, MailResolved, Crash, Terminated
<1> QED BY <1>5, <1>6, <1>7, <1>8, <1>9 DEF Next, Scheduler

LEMMA OwnGatesHold == Spec => []OwnGates
<1>1. Init => OwnInv
  BY DEF Init, OwnInv
<1>2. TypeInv /\ OwnInv /\ [Next]_vars => (TypeInv /\ OwnInv)'
  BY TypeStep, OwnStep
<1>3. OwnInv => OwnGates
  BY DEF OwnInv, OwnGates
<1> QED BY InitTypes, <1>1, <1>2, <1>3, PTL DEF Spec

(* A gate is passed only on a marker that was written while it was open or *)
(* less than the grace before, whenever, by whomever and for whichever run *)
(* markers are written: a gated task is released only so, nothing is       *)
(* released before the plan gate of a run that asks for it, and a run with *)
(* an outcome gate ends Done only so.  Where no other run waits at gates of*)
(* the same names, that is the answer of a human to this run.              *)
THEOREM GatesHold == Spec => []GatesHeld
<1>1. Init => RunGateInv
  BY InitMarkers DEF Init, RunGateInv
<1>2. TypeInv /\ RunGateInv /\ [Next]_vars => (TypeInv /\ RunGateInv)'
  BY TypeStep, RunGateStep
<1>3. Spec => [](TypeInv /\ RunGateInv)
  BY InitTypes, <1>1, <1>2, PTL DEF Spec
<1>4. TypeInv /\ RunGateInv => RunGatesHeld
  BY DEF RunGateInv, RunGatesHeld
<1>5. GateHeld /\ RunGatesHeld /\ OwnGates => GatesHeld
  BY DEF GatesHeld
<1> QED BY <1>3, <1>4, <1>5, TaskGatesHold, OwnGatesHold, PTL

------------------------------------------------------------------------------
(* The verdict.  Until the run is finalized: a task that failed for good is*)
(* nowhere any more, so nothing can rehabilitate it; a failure that is not *)
(* yet accounted for is still in a job or with its handler; and only       *)
(* grounded tasks have left Pending.                                       *)

Live      == pc \notin {"outcome", "ended", "crashed"}
Placed(t) == InFlight(t) \/ Waiting(t)
Failing(t) ==
  \/ \E j \in jobs : j.task = t /\ j.res \in Errors
  \/ pc = "failure" /\ cur.task = t
Culprit(t) == status[t] = "Failed" /\ ~Placed(t)

Accounted ==
  \A t \in Tasks : status[t] = "Failed" => hadFailure \/ cancelled \/ Failing(t)
FailureHasCulprit ==
  hadFailure => budgetTripped \/ \E t \in Tasks : Culprit(t)
MovedAreGrounded ==
  \A t \in Tasks :
    /\ status[t] \notin {"Pending", "Skipped"} => Deps(t) \subseteq completed
    /\ status[t] = "Skipped" => t \in run.filtered
    /\ status[t] = "Cancelled" => cancelled
(* What is known of the verdict before the DAG is known to be drained.     *)
NothingAmiss ==
  /\ ~hadFailure
  /\ \A t \in Tasks : status[t] # "Failed"
  /\ \A t \in Tasks : status[t] = "Skipped" => t \in run.filtered
VerdictRead ==
  pc = "ended" =>
    /\ runStatus = "Done" => NothingAmiss
    /\ runStatus = "Failed" =>
         /\ budgetTripped \/ \E t \in Tasks : status[t] = "Failed"
         /\ \A t \in Tasks \ run.filtered :
              /\ status[t] = "Skipped" => Blamed(t)
              /\ status[t] = "Cancelled" => \A d \in Deps(t) : ~Blocking(d)
VerdictInv ==
  /\ NotStarted => ~hadFailure /\ \A t \in Tasks : status[t] = "Pending"
  /\ Live => Accounted /\ FailureHasCulprit /\ MovedAreGrounded
  /\ pc = "outcome" => runStatus = "Done" /\ NothingAmiss
  /\ VerdictRead

VerdictStart == IndInv /\ EndInv /\ NoRepeats /\ VerdictInv

(* A step of the loop keeps the invariant when only tasks that are         *)
(* somewhere change their status and no settled task comes back.           *)
LEMMA VerdictKept ==
  ASSUME VerdictStart, ~NotStarted, Live, Live', ~NotStarted', run' = run,
         completed \subseteq completed',
         hadFailure => hadFailure', cancelled => cancelled',
         budgetTripped => budgetTripped',
         \A t \in Tasks :
           \/ status'[t] = status[t]
           \/ /\ Placed(t) /\ status'[t] # "Skipped"
              /\ status'[t] = "Cancelled" => cancelled',
         \A t \in Tasks : status[t] = "Failed" /\ Placed(t)' => Placed(t),
         Accounted',
         hadFailure' /\ ~hadFailure =>
           budgetTripped' \/ \E t \in Tasks : Culprit(t)'
  PROVE  VerdictInv'
<1>1. Accounted /\ FailureHasCulprit /\ MovedAreGrounded
  BY DEF VerdictStart, VerdictInv
<1>2. \A t \in Tasks : Culprit(t) => Culprit(t)'
  BY DEF Culprit
<1>3. FailureHasCulprit'
  BY <1>1, <1>2 DEF FailureHasCulprit
<1>4. \A t \in Tasks : Placed(t) => Deps(t) \subseteq completed
  BY DEF VerdictStart, IndInv, GroundedTasks, Touched, Placed
<1>5. MovedAreGrounded'
  BY <1>1, <1>4, SameRun DEF MovedAreGrounded
<1>6. pc' # "outcome" /\ pc' # "ended"
  BY DEF Live
<1> QED BY <1>3, <1>5, <1>6 DEF VerdictInv, VerdictRead

(* A step that leaves the tasks, the queues and the failures alone.        *)
LEMMA VerdictQuiet ==
  ASSUME VerdictStart, ~NotStarted, Live, Live', ~NotStarted',
         UNCHANGED <<run, status, cur, jobs, ready, blocked, completed, hadFailure,
                     cancelled>>,
         budgetTripped => budgetTripped', pc = "failure" => pc' = "failure"
  PROVE  VerdictInv'
<1>1. \A t \in Tasks : Placed(t)' <=> Placed(t)
  BY DEF Placed, InFlight, Waiting
<1>2. Accounted
  BY DEF VerdictStart, VerdictInv
<1>3. Accounted'
  BY <1>2 DEF Accounted, Failing
<1> QED BY <1>1, <1>3, VerdictKept

(* check_cancelled outside the handlers.                                   *)
LEMMA VerdictCancelled ==
  ASSUME VerdictStart, ~NotStarted, Live, CancelLoop,
         UNCHANGED <<run, status, cur, ready, blocked, completed, hadFailure,
                     budgetTripped>>
  PROVE  VerdictInv'
<1>1. jobs' = {} /\ cancelled' = TRUE /\ pc' = "finalize"
  BY DEF CancelLoop
<1>2. \A t \in Tasks : Placed(t)' => Placed(t)
  BY <1>1 DEF Placed, InFlight, Waiting
<1>3. Accounted' /\ Live' /\ ~NotStarted'
  BY <1>1 DEF Accounted, Live, NotStarted
<1> QED BY <1>1, <1>2, <1>3, VerdictKept

LEMMA StartVerdict == VerdictStart /\ Start => VerdictInv'
<1> SUFFICES ASSUME VerdictStart, Start PROVE VerdictInv'
  OBVIOUS
<1>1. /\ NotStarted /\ ~hadFailure
      /\ \A t \in Tasks : status[t] = "Pending"
  BY DEF Start, PlanGateApproved, PlanGateCancelled, Setup, NotStarted,
         VerdictStart, VerdictInv
<1> USE DEF loopVars, flagVars, envVars, askVars
<1>2. CASE PlanGateApproved
  BY <1>1, <1>2
     DEF PlanGateApproved, VerdictInv, NotStarted, Live, Accounted,
         FailureHasCulprit, MovedAreGrounded, VerdictRead
<1>3. CASE PlanGateCancelled
  BY <1>1, <1>3 DEF PlanGateCancelled, VerdictInv, NotStarted, Live, VerdictRead
<1>4. CASE Setup
  BY <1>1, <1>4
     DEF Setup, VerdictInv, NotStarted, Live, Accounted, FailureHasCulprit,
         MovedAreGrounded, VerdictRead
<1> QED BY <1>2, <1>3, <1>4 DEF Start

LEMMA TopVerdict == VerdictStart /\ Top => VerdictInv'
<1> SUFFICES ASSUME VerdictStart, Top PROVE VerdictInv'
  OBVIOUS
<1> USE DEF loopVars, flagVars, envVars, askVars
<1>1. pc = "top" /\ Live /\ ~NotStarted
  BY DEF Top, LoopExit, LoopCancelled, Readmit, Live, NotStarted
<1>2. CASE LoopExit
  BY <1>1, <1>2, VerdictQuiet DEF LoopExit, Live, NotStarted
<1>3. CASE LoopCancelled
  BY <1>1, <1>3, VerdictCancelled DEF LoopCancelled
<1>4. CASE Readmit
  <2> DEFINE cleared == {t \in blocked : mail[t] # "open"}
  <2>1. /\ UNCHANGED <<run, cur, jobs, completed, hadFailure, cancelled,
                       budgetTripped>>
        /\ pc' = "dispatch"
        /\ blocked' = blocked \ cleared
        /\ ready' = [t \in Tasks |-> IF t \in cleared THEN ready[t] + 1 ELSE ready[t]]
        /\ status' = [t \in Tasks |-> IF t \in cleared THEN "Pending" ELSE status[t]]
    BY <1>4 DEF Readmit
  <2>2. cleared \subseteq blocked
    OBVIOUS
  <2> HIDE DEF cleared
  <2>3. \A t \in Tasks : Placed(t)' => Placed(t)
    BY <2>1, <2>2 DEF Placed, InFlight, Waiting
  <2>4. \A t \in Tasks : \/ status'[t] = status[t]
                         \/ Placed(t) /\ status'[t] = "Pending"
    BY <2>1, <2>2 DEF Placed, Waiting
  <2>5. Accounted'
    BY <1>1, <2>1, <2>4 DEF VerdictStart, VerdictInv, Accounted, Failing
  <2>6. Live' /\ ~NotStarted'
    BY <2>1 DEF Live, NotStarted
  <2> QED BY <1>1, <2>1, <2>3, <2>4, <2>5, <2>6, VerdictKept
<1> QED BY <1>2, <1>3, <1>4 DEF Top

LEMMA DispatchVerdict == VerdictStart /\ Dispatch => VerdictInv'
<1> SUFFICES ASSUME VerdictStart, Dispatch PROVE VerdictInv'
  OBVIOUS
<1> USE DEF loopVars, flagVars, envVars, askVars
<1>1. /\ pc = "dispatch" /\ Live /\ ~NotStarted /\ Accounted
      /\ status \in [Tasks -> Statuses] /\ ready \in [Tasks -> Nat]
  BY DEF Dispatch, DispatchGated, DispatchSpawned, DispatchFailed, DispatchDone,
         Live, NotStarted, VerdictStart, VerdictInv, IndInv, TypeOK
<1>2. CASE DispatchDone
  BY <1>1, <1>2, VerdictQuiet DEF DispatchDone, Live, NotStarted
<1>3. ASSUME NEW t \in Tasks, DispatchGated(t) \/ DispatchSpawned(t)
      PROVE  VerdictInv'
  <2>1. /\ UNCHANGED <<run, pc, cur, completed, hadFailure, cancelled, budgetTripped>>
        /\ ready[t] > 0 /\ ready' = Popped(t)
        /\ \A u \in Tasks : u # t => status'[u] = status[u]
        /\ status'[t] \in {"AwaitingApproval", "Running"}
    BY <1>1, <1>3 DEF DispatchGated, DispatchSpawned, SetStatus
  <2>2. /\ blocked' \subseteq blocked \cup {t}
        /\ jobs \subseteq jobs'
        /\ \A j \in jobs' \ jobs : j.task = t
    BY <1>3 DEF DispatchGated, DispatchSpawned
  <2>3. Placed(t)
    BY <2>1 DEF Placed, Waiting
  <2>4. \A u \in Tasks : ready'[u] <= ready[u] /\ ready'[u] \in Int
    BY <1>1, <2>1 DEF Popped
  <2>5. \A u \in Tasks : Placed(u)' => Placed(u)
    BY <1>1, <2>1, <2>2, <2>3, <2>4 DEF Placed, InFlight, Waiting
  <2>6. Accounted'
    BY <1>1, <2>1, <2>2 DEF Accounted, Failing
  <2>7. Live' /\ ~NotStarted'
    BY <1>1, <2>1 DEF Live, NotStarted
  <2> QED BY <1>1, <2>1, <2>3, <2>5, <2>6, <2>7, VerdictKept
<1>4. ASSUME NEW t \in Tasks, DispatchFailed(t)
      PROVE  VerdictInv'
  <2>1. /\ UNCHANGED <<run, cur, blocked, completed, cancelled, budgetTripped>>
        /\ ready[t] > 0 /\ hadFailure' = TRUE
        /\ \A u \in Tasks : u # t => status'[u] = status[u]
        /\ status'[t] = "Failed" /\ pc' \in {"dispatch", "poll"}
    BY <1>1, <1>4 DEF DispatchFailed, SetStatus
  <2>2. /\ ready' \in {Popped(t), NothingReady}
        /\ jobs' \subseteq jobs
    BY <1>4 DEF DispatchFailed
  <2>3. Placed(t)
    BY <2>1 DEF Placed, Waiting
  <2>4. \A u \in Tasks : ready'[u] <= ready[u] /\ ready'[u] \in Int
    BY <1>1, <2>1, <2>2 DEF Popped, NothingReady
  <2>5. \A u \in Tasks : Placed(u)' => Placed(u)
    BY <1>1, <2>1, <2>2, <2>4 DEF Placed, InFlight, Waiting
  <2>6. Accounted' /\ Live' /\ ~NotStarted'
    BY <2>1 DEF Accounted, Live, NotStarted
  <2>7. ready[t] <= 1 /\ t \notin blocked /\ ~InFlight(t)
    BY <1>1, <2>1, <2>3
       DEF VerdictStart, IndInv, InOnePlace, OneAttemptAtATime, Waiting
  <2>8. ready'[t] = 0
    BY <1>1, <2>1, <2>2, <2>7 DEF Popped, NothingReady
  <2>9. Culprit(t)'
    BY <2>1, <2>2, <2>7, <2>8 DEF Culprit, Placed, InFlight, Waiting
  <2> QED BY <1>1, <2>1, <2>3, <2>5, <2>6, <2>9, VerdictKept
<1> QED BY <1>2, <1>3, <1>4 DEF Dispatch

LEMMA PollVerdict == VerdictStart /\ Poll => VerdictInv'
<1> SUFFICES ASSUME VerdictStart, Poll PROVE VerdictInv'
  OBVIOUS
<1> USE DEF loopVars, flagVars, envVars, askVars
<1>1. pc = "poll" /\ Live /\ ~NotStarted /\ cur = NoJob
  BY DEF Poll, PollNotStalled, PollCancelled, PollSlept, PollTimedOut, Live,
         NotStarted, VerdictStart, IndInv, CurMatchesPc, Handlers
<1>2. CASE PollNotStalled \/ PollSlept
  BY <1>1, <1>2, VerdictQuiet DEF PollNotStalled, PollSlept, Live, NotStarted
<1>3. CASE PollCancelled
  BY <1>1, <1>3, VerdictCancelled DEF PollCancelled
<1>4. CASE PollTimedOut
  <2>1. /\ UNCHANGED <<run, cur, ready, jobs, completed, cancelled, budgetTripped>>
        /\ jobs = {} /\ blocked # {} /\ blocked' = {} /\ hadFailure' = TRUE
        /\ pc' = "finalize" /\ blocked \subseteq Tasks
        /\ \A t \in Tasks :
             status'[t] = IF t \in blocked THEN "Failed" ELSE status[t]
    BY <1>4 DEF PollTimedOut, Stalled, VerdictStart, IndInv, TypeOK, Statuses
  <2>2. \A t \in Tasks : Placed(t)' => Placed(t)
    BY <2>1 DEF Placed, InFlight, Waiting
  <2>3. Accounted' /\ Live' /\ ~NotStarted'
    BY <2>1 DEF Accounted, Live, NotStarted
  <2>4. PICK t \in Tasks : t \in blocked
    BY <2>1
  <2>5. ready[t] = 0
    BY <2>4 DEF VerdictStart, IndInv, InOnePlace
  <2>6. Culprit(t)'
    BY <1>1, <2>1, <2>4, <2>5, TasksAssumption
       DEF Culprit, Placed, InFlight, Waiting, NoJob
  <2>7. \A u \in Tasks : \/ status'[u] = status[u]
                         \/ Placed(u) /\ status'[u] = "Failed"
    BY <2>1 DEF Placed, Waiting
  <2> QED BY <1>1, <2>1, <2>2, <2>3, <2>6, <2>7, VerdictKept
<1> QED BY <1>2, <1>3, <1>4 DEF Poll

LEMMA JoinVerdict == VerdictStart /\ Join => VerdictInv'
<1> SUFFICES ASSUME VerdictStart, Join PROVE VerdictInv'
  OBVIOUS
<1> USE DEF loopVars, flagVars, envVars, askVars
<1>1. pc = "join" /\ Live /\ ~NotStarted /\ cur = NoJob /\ Accounted
  BY DEF Join, JoinNone, JoinCancelled, JoinOne, Live, NotStarted, VerdictStart,
         VerdictInv, IndInv, CurMatchesPc, Handlers
<1>2. CASE JoinNone
  BY <1>1, <1>2, VerdictQuiet DEF JoinNone, Live, NotStarted
<1>3. CASE JoinCancelled
  BY <1>1, <1>3, VerdictCancelled DEF JoinCancelled
<1>4. ASSUME NEW j \in jobs, JoinOne(j)
      PROVE  VerdictInv'
  <2>1. /\ UNCHANGED <<run, status, ready, blocked, completed, hadFailure,
                       cancelled, budgetTripped>>
        /\ jobs' = jobs \ {j} /\ cur' = j /\ j.res # "busy"
        /\ pc' = IF j.res \in OkResults THEN "review" ELSE "failure"
    BY <1>4 DEF JoinOne
  <2>2. \A t \in Tasks : Placed(t)' => Placed(t)
    BY <2>1 DEF Placed, InFlight, Waiting
  <2>3. j.res \in Errors => pc' = "failure"
    BY <2>1, ErrorsAssumption
  <2>4. Accounted'
    BY <1>1, <2>1, <2>3 DEF Accounted, Failing
  <2>5. Live' /\ ~NotStarted'
    BY <2>1 DEF Live, NotStarted
  <2> QED BY <1>1, <2>1, <2>2, <2>4, <2>5, VerdictKept
<1> QED BY <1>2, <1>3, <1>4 DEF Join

LEMMA AttemptVerdict == VerdictStart /\ Attempt => VerdictInv'
<1> SUFFICES ASSUME VerdictStart, NEW j \in jobs, NEW r \in Results, Finish(j, r)
             PROVE  VerdictInv'
  BY DEF Attempt
<1> USE DEF loopVars, flagVars, envVars, askVars
<1> DEFINE n == [j EXCEPT !.res = r]
<1>1. /\ UNCHANGED <<run, pc, cur, ready, blocked, completed, hadFailure, cancelled,
                     budgetTripped>>
      /\ jobs' = (jobs \ {j}) \cup {n} /\ j.res = "busy" /\ pc \notin Final
      /\ status' = [status EXCEPT ![j.task] = FinishStatus(r)]
  BY DEF Finish
<1>2. j \in Job /\ j.task \in Tasks /\ status \in [Tasks -> Statuses]
  BY DEF VerdictStart, IndInv, TypeOK, Job
<1>3. n.task = j.task /\ n.res = r
  BY <1>2 DEF Job
<1> HIDE DEF n
<1>4. Live /\ ~NotStarted /\ Live' /\ ~NotStarted'
  BY <1>1 DEF Live, NotStarted, Final, VerdictStart, EndInv
<1>5. /\ \A u \in Tasks : u # j.task => status'[u] = status[u]
      /\ status'[j.task] = FinishStatus(r)
  BY <1>1, <1>2
<1>6. Placed(j.task)
  BY DEF Placed, InFlight
<1>7. \A u \in Tasks : Placed(u)' => Placed(u)
  BY <1>1, <1>3 DEF Placed, InFlight, Waiting
<1>8. FinishStatus(r) = "Failed" => r \in Errors
  BY DEF FinishStatus, Results
<1>9. FinishStatus(r) \in {"Done", "Failed"}
  BY DEF FinishStatus
<1>10. j.res \notin Errors
  BY <1>1, ErrorsAssumption
<1>11. Accounted
  BY <1>4 DEF VerdictStart, VerdictInv
<1>12. Accounted'
  <2> SUFFICES ASSUME NEW t \in Tasks, status'[t] = "Failed", ~hadFailure, ~cancelled
               PROVE  Failing(t)'
    BY <1>1 DEF Accounted
  <2>1. CASE t = j.task
    BY <1>1, <1>3, <1>5, <1>8, <2>1 DEF Failing
  <2>2. CASE t # j.task
    BY <1>1, <1>5, <1>11, <2>2 DEF Failing, Accounted
  <2> QED BY <2>1, <2>2
<1> QED BY <1>1, <1>4, <1>5, <1>6, <1>7, <1>9, <1>12, VerdictKept

(* What the handlers have in common.                                       *)
LEMMA VerdictHandled ==
  ASSUME VerdictStart, pc \in Handlers, NEW t, t = cur.task
  PROVE  /\ Live /\ ~NotStarted /\ Accounted /\ t \in Tasks /\ Placed(t)
         /\ status \in [Tasks -> Statuses] /\ ready \in [Tasks -> Nat]
         /\ ready[t] = 0 /\ t \notin blocked /\ \A j \in jobs : j.task # t
         /\ t \notin completed /\ cur # NoJob
<1>1. pc \notin {"outcome", "ended", "crashed", "planGate", "setup"}
  BY DEF Handlers
<1>2. cur \in Job /\ t \in Tasks
  BY DEF VerdictStart, IndInv, CurMatchesPc, Job
<1>3. InFlight(t)
  BY DEF InFlight
<1>4. ~Waiting(t) /\ t \notin completed /\ \A j \in jobs : j.task # t
  BY <1>2, <1>3 DEF VerdictStart, IndInv, InOnePlace, OneAttemptAtATime
<1>5. status \in [Tasks -> Statuses] /\ ready \in [Tasks -> Nat]
  BY DEF VerdictStart, IndInv, TypeOK
<1>6. ready[t] = 0 /\ t \notin blocked
  BY <1>2, <1>4, <1>5 DEF Waiting
<1>7. cur # NoJob
  BY <1>2, TasksAssumption DEF NoJob
<1> QED BY <1>1, <1>2, <1>3, <1>4, <1>5, <1>6, <1>7
        DEF Live, NotStarted, Placed, VerdictStart, VerdictInv

LEMMA RequeueVerdict ==
  ASSUME VerdictStart, pc \in Handlers, NEW t, t = cur.task, Requeue(t),
         UNCHANGED <<run, blocked, completed, cancelled, budgetTripped>>
  PROVE  VerdictInv'
<1>1. /\ Live /\ ~NotStarted /\ Accounted /\ t \in Tasks /\ Placed(t)
      /\ status \in [Tasks -> Statuses] /\ ready \in [Tasks -> Nat]
      /\ \A j \in jobs : j.task # t
  BY VerdictHandled
<1>2. /\ UNCHANGED <<jobs, hadFailure>> /\ cur' = NoJob /\ pc' = "top"
      /\ \A u \in Tasks : u # t => status'[u] = status[u] /\ ready'[u] = ready[u]
      /\ status'[t] = "Pending"
  BY <1>1 DEF Requeue, SetStatus
<1>3. \A u \in Tasks : Placed(u)' => Placed(u)
  BY <1>1, <1>2, TasksAssumption DEF Placed, InFlight, Waiting, NoJob
<1>4. Accounted'
  BY <1>1, <1>2 DEF Accounted, Failing
<1>5. Live' /\ ~NotStarted'
  BY <1>2 DEF Live, NotStarted
<1> QED BY <1>1, <1>2, <1>3, <1>4, <1>5, VerdictKept

LEMMA GiveUpVerdict ==
  ASSUME VerdictStart, pc \in Handlers, NEW t, t = cur.task, GiveUp(t),
         UNCHANGED <<run, blocked, completed, cancelled, budgetTripped>>
  PROVE  VerdictInv'
<1>1. /\ Live /\ ~NotStarted /\ t \in Tasks /\ Placed(t)
      /\ status \in [Tasks -> Statuses]
      /\ ready[t] = 0 /\ t \notin blocked /\ \A j \in jobs : j.task # t
  BY VerdictHandled
<1>2. /\ ready' = ready /\ hadFailure' = TRUE /\ jobs' \subseteq jobs /\ cur' = NoJob
      /\ pc' \in {"top", "finalize"} /\ status'[t] = "Failed"
      /\ \A u \in Tasks : u # t => status'[u] = status[u]
  BY <1>1 DEF GiveUp, SetStatus, StopOrGoOn
<1>3. \A u \in Tasks : Placed(u)' => Placed(u)
  BY <1>2, TasksAssumption DEF Placed, InFlight, Waiting, NoJob
<1>4. Accounted' /\ Live' /\ ~NotStarted'
  BY <1>2 DEF Accounted, Live, NotStarted
<1>5. Culprit(t)'
  BY <1>1, <1>2, TasksAssumption DEF Culprit, Placed, InFlight, Waiting, NoJob
<1> QED BY <1>1, <1>2, <1>3, <1>4, <1>5, VerdictKept

LEMMA HandleVerdict == VerdictStart /\ Handle => VerdictInv'
<1> SUFFICES ASSUME VerdictStart, Handle PROVE VerdictInv'
  OBVIOUS
<1> USE DEF loopVars, flagVars, envVars, askVars
<1>1. pc \in Handlers
  BY DEF Handlers, Handle, FailureRetried, FailureEscalated, ReviewMisconfigured,
     ReviewPassed, ReviewRetried, ReviewRejected, BudgetOk, BudgetTripped,
     ApprovalSkipped, ApprovalOpened, ApprovalGranted, ApprovalCancelled,
     Integrated, IntegrateConflict
<1>2. CASE FailureRetried \/ ReviewRetried
  BY <1>1, <1>2, RequeueVerdict DEF FailureRetried, ReviewRetried
<1>3. CASE FailureEscalated \/ ReviewMisconfigured \/ ReviewRejected \/ IntegrateConflict
  BY <1>1, <1>3, GiveUpVerdict
     DEF FailureEscalated, ReviewMisconfigured, ReviewRejected, IntegrateConflict
<1>4. PICK t : t = cur.task
  OBVIOUS
<1>5. /\ Live /\ ~NotStarted /\ Accounted /\ t \in Tasks /\ Placed(t)
      /\ status \in [Tasks -> Statuses] /\ ready \in [Tasks -> Nat]
      /\ ready[t] = 0 /\ t \notin blocked /\ \A j \in jobs : j.task # t
      /\ t \notin completed /\ cur # NoJob
  BY <1>1, <1>4, VerdictHandled
<1>6. CASE ReviewPassed \/ BudgetOk \/ ApprovalSkipped
  BY <1>5, <1>6, VerdictQuiet
     DEF ReviewPassed, BudgetOk, ApprovalSkipped, Live, NotStarted
<1>7. CASE BudgetTripped
  <2>1. /\ UNCHANGED <<run, status, ready, blocked, completed, cancelled>>
        /\ budgetTripped' = TRUE /\ hadFailure' = TRUE /\ jobs' \subseteq jobs
        /\ cur' \in {cur, NoJob} /\ pc' \in {"approval", "finalize"}
    BY <1>7 DEF BudgetTripped, StopOrGoOn
  <2>2. \A u \in Tasks : Placed(u)' => Placed(u)
    BY <2>1, TasksAssumption DEF Placed, InFlight, Waiting, NoJob
  <2>3. Accounted' /\ Live' /\ ~NotStarted'
    BY <2>1 DEF Accounted, Live, NotStarted
  <2> QED BY <1>5, <2>1, <2>2, <2>3, VerdictKept
<1>8. CASE ApprovalOpened \/ ApprovalGranted
  <2>1. /\ UNCHANGED <<run, cur, ready, jobs, blocked, completed, hadFailure,
                       cancelled, budgetTripped>>
        /\ pc \in {"approval", "approve"} /\ pc' \in {"approve", "integrate"}
        /\ \A u \in Tasks : u # t => status'[u] = status[u]
        /\ status'[t] \in {"AwaitingApproval", "Done"}
    BY <1>4, <1>5, <1>8 DEF ApprovalOpened, ApprovalGranted, SetStatus
  <2>2. \A u \in Tasks : Placed(u)' => Placed(u)
    BY <2>1 DEF Placed, InFlight, Waiting
  <2>3. Accounted'
    BY <1>5, <2>1 DEF Accounted, Failing
  <2>4. Live' /\ ~NotStarted'
    BY <2>1 DEF Live, NotStarted
  <2> QED BY <1>5, <2>1, <2>2, <2>3, <2>4, VerdictKept
<1>9. CASE ApprovalCancelled
  <2>1. /\ UNCHANGED <<run, ready, blocked, completed, hadFailure, budgetTripped>>
        /\ cancelled' = TRUE /\ jobs' = {} /\ cur' = NoJob /\ pc' = "finalize"
        /\ \A u \in Tasks : u # t => status'[u] = status[u]
        /\ status'[t] = "Cancelled"
    BY <1>4, <1>5, <1>9 DEF ApprovalCancelled, CancelLoop, SetStatus
  <2>2. \A u \in Tasks : Placed(u)' => Placed(u)
    BY <2>1, TasksAssumption DEF Placed, InFlight, Waiting, NoJob
  <2>3. Accounted' /\ Live' /\ ~NotStarted'
    BY <2>1 DEF Accounted, Live, NotStarted
  <2> QED BY <1>5, <2>1, <2>2, <2>3, VerdictKept
<1>10. CASE Integrated
  <2>1. /\ UNCHANGED <<run, status, jobs, blocked, hadFailure, cancelled,
                       budgetTripped>>
        /\ cur' = NoJob /\ pc = "integrate" /\ pc' = "top"
        /\ completed \subseteq completed'
        /\ \/ ready' = ready
           \/ ready' = [d \in Tasks |-> ready[d] + NewlyReady(t, d)]
    BY <1>4, <1>10 DEF Integrated
  <2>2. run.need \in [Tasks -> [Tasks -> Nat]]
    BY RunsAssumption DEF VerdictStart, IndInv, TypeOK, RunType
  <2>3. \A d \in Tasks : t \notin Deps(d) => NewlyReady(t, d) = 0
    BY <1>5, <2>2 DEF NewlyReady, Deps
  <2>4. \A u \in Tasks : status[u] = "Failed" => t \notin Deps(u)
    BY <1>5 DEF VerdictStart, VerdictInv, MovedAreGrounded
  <2>5. \A u \in Tasks : status[u] = "Failed" => ready'[u] = ready[u]
    BY <1>5, <2>1, <2>3, <2>4
  <2>6. \A u \in Tasks : status[u] = "Failed" /\ Placed(u)' => Placed(u)
    BY <2>1, <2>5, TasksAssumption DEF Placed, InFlight, Waiting, NoJob
  <2>7. Accounted'
    BY <1>5, <2>1 DEF Accounted, Failing
  <2>8. Live' /\ ~NotStarted'
    BY <2>1 DEF Live, NotStarted
  <2> QED BY <1>5, <2>1, <2>6, <2>7, <2>8, VerdictKept
<1> QED BY <1>2, <1>3, <1>6, <1>7, <1>8, <1>9, <1>10 DEF Handle

(* mark_blocked_pending_tasks labels the Pending tasks that a failure, or a*)
(* task so labelled, stands in front of, and no others.                    *)
LEMMA BlameIsFixpoint ==
  \A t \in Tasks :
    t \in BlockedByFailure <=>
      /\ status[t] = "Pending"
      /\ \E d \in Deps(t) : status[d] = "Failed" \/ d \in BlockedByFailure
<1> DEFINE Cause(t, X) == /\ status[t] = "Pending"
                          /\ \E d \in Deps(t) : status[d] = "Failed" \/ d \in X
           L == BlockedByFailure
           S == {t \in Tasks : Cause(t, L)}
<1>1. \A X : BlameClosed(X) <=> \A t \in Tasks : Cause(t, X) => t \in X
  BY DEF BlameClosed
<1>2. \A t \in Tasks : t \in L <=> \A X \in SUBSET Tasks : BlameClosed(X) => t \in X
  BY DEF BlockedByFailure
<1> HIDE DEF L
<1>3. \A t, d : d \in Deps(t) => d \in Tasks
  BY DEF Deps
<1>4. ASSUME NEW t \in Tasks, Cause(t, L) PROVE t \in L
  <2> SUFFICES ASSUME NEW X \in SUBSET Tasks, BlameClosed(X) PROVE t \in X
    BY <1>2
  <2>1. Cause(t, X)
    BY <1>2, <1>3, <1>4
  <2> QED BY <1>1, <2>1
<1>5. BlameClosed(S)
  <2>1. \A t \in Tasks : Cause(t, S) => Cause(t, L)
    BY <1>4
  <2> QED BY <1>1, <2>1
<1>6. \A t \in Tasks : t \in L => t \in S
  BY <1>2, <1>5
<1> QED BY <1>4, <1>6 DEF L

LEMMA FinalizeVerdict == VerdictStart /\ Finalize => VerdictInv'
<1> SUFFICES ASSUME VerdictStart, Finalize PROVE VerdictInv'
  OBVIOUS
<1> USE DEF loopVars, flagVars, envVars, askVars
<1>1. /\ pc = "finalize" /\ Live /\ ~NotStarted /\ jobs = {} /\ cur = NoJob
      /\ Accounted /\ FailureHasCulprit /\ MovedAreGrounded
  BY DEF Finalize, Live, NotStarted, VerdictStart, VerdictInv, EndInv
<1>2. /\ UNCHANGED <<run, completed, hadFailure, cancelled, budgetTripped>>
      /\ runStatus' = FinalRunStatus /\ pc' \in {"outcome", "ended"}
      /\ \A t \in Tasks : status'[t] = FinalStatus(t)
      /\ pc' = "outcome" => ~cancelled /\ ~hadFailure
  BY DEF Finalize, OutcomeGateOpens
<1>3. \A t \in Tasks : status'[t] = "Failed" <=> status[t] = "Failed"
  BY <1>2 DEF FinalStatus, Unfinished
<1>4. \A t \in Tasks : ~Failing(t)
  BY <1>1 DEF Failing
<1>5. runStatus' = "Done" => NothingAmiss'
  <2> SUFFICES ASSUME runStatus' = "Done" PROVE NothingAmiss'
    OBVIOUS
  <2>1. ~cancelled /\ ~hadFailure
    BY <1>2 DEF FinalRunStatus
  <2>2. \A t \in Tasks : status'[t] = status[t] /\ status[t] # "Failed"
    BY <1>1, <1>2, <1>4, <2>1 DEF Accounted, FinalStatus
  <2> QED BY <1>1, <1>2, <2>1, <2>2 DEF NothingAmiss, MovedAreGrounded
<1>6. pc' = "outcome" => runStatus' = "Done"
  BY <1>2 DEF FinalRunStatus
<1>7. ASSUME runStatus' = "Failed"
      PROVE  /\ budgetTripped' \/ \E t \in Tasks : status'[t] = "Failed"
             /\ \A t \in Tasks \ run'.filtered :
                  /\ status'[t] = "Skipped" => Blamed(t)'
                  /\ status'[t] = "Cancelled" => \A d \in Deps(t)' : ~Blocking(d)'
  <2>1. ~cancelled /\ hadFailure
    BY <1>2, <1>7 DEF FinalRunStatus
  <2>2. budgetTripped' \/ \E t \in Tasks : status'[t] = "Failed"
    BY <1>1, <1>2, <1>3, <2>1 DEF FailureHasCulprit, Culprit
  <2> DEFINE L == BlockedByFailure
  <2>3. \A t \in Tasks :
          t \in L <=> /\ status[t] = "Pending"
                      /\ \E d \in Deps(t) : status[d] = "Failed" \/ d \in L
    BY BlameIsFixpoint
  <2>4. \A t \in Tasks : status'[t] = IF status[t] \notin Unfinished THEN status[t]
                                      ELSE IF t \in L THEN "Skipped" ELSE "Cancelled"
    BY <1>2, <2>1 DEF FinalStatus
  <2> HIDE DEF L
  <2>5. \A t \in run.filtered : t \in Tasks /\ status[t] = "Skipped"
    <3>1. run.filtered \subseteq completed /\ completed \subseteq Tasks
      BY <1>1 DEF VerdictStart, IndInv, TypeOK, StartOfRun, Final
    <3> QED BY <3>1 DEF VerdictStart, IndInv, ReleasedIsDurable, ReleasedStatus
  <2>6. \A t \in Tasks : status[t] = "Skipped" => t \in run.filtered
    BY <1>1 DEF MovedAreGrounded
  <2>7. \A t \in Tasks : Blocking(t)' <=> status[t] = "Failed" \/ t \in L
    BY <1>2, <1>3, <2>3, <2>4, <2>5, <2>6 DEF Blocking, Unfinished
  <2>8. \A t, d : d \in Deps(t) => d \in Tasks
    BY DEF Deps
  <2>9. \A t \in Tasks : Deps(t)' = Deps(t)
    BY <1>2, SameRun
  <2>10. ASSUME NEW t \in Tasks \ run.filtered, status'[t] = "Skipped"
         PROVE  Blamed(t)'
    <3>1. t \in L
      BY <2>4, <2>6, <2>10
    <3>2. \E d \in Deps(t) : status[d] = "Failed" \/ d \in L
      BY <2>3, <3>1
    <3> QED BY <2>7, <2>8, <2>9, <2>10, <3>1, <3>2 DEF Blamed
  <2>11. ASSUME NEW t \in Tasks \ run.filtered, status'[t] = "Cancelled",
                NEW d \in Deps(t)
         PROVE  ~Blocking(d)'
    <3>1. status[t] # "Cancelled"
      BY <1>1, <2>1 DEF MovedAreGrounded
    <3>2. status[t] \in Unfinished /\ t \notin L
      BY <2>4, <2>11, <3>1
    <3>3. CASE status[t] = "Pending"
      BY <2>3, <2>7, <2>8, <2>11, <3>2, <3>3
    <3>4. CASE status[t] # "Pending"
      <4>1. d \in completed
        BY <1>1, <3>2, <3>4 DEF MovedAreGrounded, Unfinished
      <4>2. status[d] \in {"Done", "Skipped"}
        BY <4>1 DEF VerdictStart, IndInv, ReleasedIsDurable, ReleasedStatus
      <4> QED BY <2>3, <2>7, <2>8, <2>11, <4>2
    <3> QED BY <3>3, <3>4
  <2> QED BY <1>2, <2>2, <2>9, <2>10, <2>11
<1>8. VerdictRead'
  BY <1>5, <1>7 DEF VerdictRead
<1>9. ~NotStarted' /\ ~Live'
  BY <1>2 DEF NotStarted, Live
<1> QED BY <1>5, <1>6, <1>8, <1>9 DEF VerdictInv

LEMMA VerdictStep == VerdictStart /\ [Next]_vars => VerdictInv'
<1> SUFFICES ASSUME VerdictStart, [Next]_vars PROVE VerdictInv'
  OBVIOUS
<1> USE DEF loopVars, flagVars, envVars, askVars
<1>1. VerdictInv
  BY DEF VerdictStart
<1>2. CASE Start
  BY <1>2, StartVerdict
<1>3. CASE Top \/ Dispatch
  BY <1>3, TopVerdict, DispatchVerdict
<1>4. CASE Poll \/ Join \/ Attempt
  BY <1>4, PollVerdict, JoinVerdict, AttemptVerdict
<1>5. CASE Handle \/ Finalize
  BY <1>5, HandleVerdict, FinalizeVerdict
<1>6. CASE OutcomeApproved \/ OutcomeCancelled
  BY <1>1, <1>6
     DEF OutcomeApproved, OutcomeCancelled, VerdictInv, NotStarted, Live, VerdictRead,
         NothingAmiss
<1>7. CASE Crash
  BY <1>1, <1>7 DEF Crash, VerdictInv, NotStarted, Live, VerdictRead
<1>8. CASE \/ StaleMarkerDropped \/ Human \/ RequestCancel \/ Terminated
           \/ \E t \in Tasks : MailSent(t) \/ MailResolved(t)
           \/ UNCHANGED vars
  <2>1. UNCHANGED <<run, pc, cur, status, runStatus, jobs, completed, hadFailure,
                    cancelled, budgetTripped, ready, blocked>>
    BY <1>8 DEF StaleMarkerDropped, Human, Approve, ApproveElsewhere,
                TakenElsewhere, RequestCancel, Terminated,
                MailSent, MailResolved, vars
  <2>2. \A t \in Tasks : /\ Failing(t)' <=> Failing(t)
                         /\ Culprit(t)' <=> Culprit(t)
                         /\ Blamed(t)' <=> Blamed(t)
    BY <2>1 DEF Failing, Culprit, Placed, InFlight, Waiting, Blamed, Blocking, Deps
  <2>3. /\ Accounted' <=> Accounted
        /\ FailureHasCulprit' <=> FailureHasCulprit
        /\ MovedAreGrounded' <=> MovedAreGrounded
    BY <2>1, <2>2, SameRun DEF Accounted, FailureHasCulprit, MovedAreGrounded
  <2>4. NothingAmiss' <=> NothingAmiss
    BY <2>1 DEF NothingAmiss
  <2>5. VerdictRead' <=> VerdictRead
    BY <2>1, <2>2, <2>4 DEF VerdictRead, Deps, Blocking
  <2> QED BY <1>1, <2>1, <2>3, <2>4, <2>5 DEF VerdictInv, NotStarted, Live
<1> QED BY <1>2, <1>3, <1>4, <1>5, <1>6, <1>7, <1>8
        DEF Next, Scheduler, Closing, World

------------------------------------------------------------------------------
(* The refinement.  What TaskGraphRun sees of a step follows from where    *)
(* each task is before and after it.                                       *)

PromiseInv ==
  /\ IndInv /\ EndInv /\ NoRepeats /\ VerdictInv
  /\ \A t \in Tasks : InFlight(t) => spawned[t] > 0

LEMMA ViewNow ==
  \A t \in Tasks :
    /\ t \in completed =>
         TaskView(t) = IF t \in run.filtered THEN "leftOut" ELSE "released"
    /\ t \notin completed /\ Over => TaskView(t) = "dropped"
    /\ t \notin completed /\ ~Over /\ InFlight(t) => TaskView(t) = "active"
    /\ t \notin completed /\ ~Over /\ ~InFlight(t) =>
         TaskView(t) = IF ~Waiting(t) /\ (spawned[t] > 0 \/ status[t] = "Failed")
                       THEN "dropped" ELSE "waiting"
BY DEF TaskView

LEMMA ViewNext ==
  \A t \in Tasks :
    /\ t \in completed' =>
         TaskView(t)' = IF t \in run'.filtered THEN "leftOut" ELSE "released"
    /\ t \notin completed' /\ Over' => TaskView(t)' = "dropped"
    /\ t \notin completed' /\ ~Over' /\ InFlight(t)' => TaskView(t)' = "active"
    /\ t \notin completed' /\ ~Over' /\ ~InFlight(t)' =>
         TaskView(t)' = IF ~Waiting(t)' /\ (spawned'[t] > 0 \/ status'[t] = "Failed")
                        THEN "dropped" ELSE "waiting"
BY DEF TaskView

(* Nothing TaskGraphRun could see.                                         *)
LEMMA SeenUnchanged ==
  ASSUME UNCHANGED <<run, spawned>>, Over' <=> Over,
         \A t \in Tasks : TaskView(t)' = TaskView(t)
  PROVE  UNCHANGED Promise!vars
<1>1. [t \in Tasks |-> Deps(t)]' = [t \in Tasks |-> Deps(t)]
  BY SameRun
<1>2. [t \in Tasks |-> TaskView(t)]' = [t \in Tasks |-> TaskView(t)]
  OBVIOUS
<1> QED BY <1>1, <1>2 DEF Promise!vars, Over

(* The places and statuses that matter are as they were.                   *)
LEMMA SeenNothing ==
  ASSUME UNCHANGED <<run, completed, spawned>>, Over' <=> Over,
         \A t \in Tasks : InFlight(t)' <=> InFlight(t),
         \A t \in Tasks : ~InFlight(t) =>
           /\ Waiting(t)' <=> Waiting(t)
           /\ Waiting(t) \/ status'[t] = status[t]
  PROVE  UNCHANGED Promise!vars
<1>1. \A t \in Tasks : TaskView(t)' = TaskView(t)
  BY ViewNow, ViewNext
<1> QED BY <1>1, SeenUnchanged

(* After the loop only what is recorded changes.                           *)
LEMMA SeenOver ==
  ASSUME UNCHANGED <<run, completed, spawned>>, Over, Over'
  PROVE  UNCHANGED Promise!vars
<1>1. \A t \in Tasks : TaskView(t)' = TaskView(t)
  BY ViewNow, ViewNext
<1> QED BY <1>1, SeenUnchanged

(* Leaving the loop drops whatever is not settled.                         *)
LEMMA SeenEnd ==
  ASSUME UNCHANGED <<run, completed, spawned>>, ~Over, Over'
  PROVE  Promise!End
<1>1. [t \in Tasks |-> Deps(t)]' = [t \in Tasks |-> Deps(t)]
  BY SameRun
<1>2. \A t \in Tasks :
        TaskView(t)' = IF TaskView(t) \in {"waiting", "active"} THEN "dropped"
                       ELSE TaskView(t)
  BY ViewNow, ViewNext
<1>3. [t \in Tasks |-> TaskView(t)]'
        = [t \in Tasks |-> IF [u \in Tasks |-> TaskView(u)][t] \in {"waiting", "active"}
                           THEN "dropped" ELSE [u \in Tasks |-> TaskView(u)][t]]
  BY <1>2
<1>4. ~Over /\ Over' = TRUE
  BY DEF Over
<1> QED BY <1>1, <1>3, <1>4 DEF Promise!End

(* Within the loop tasks may be dropped, all at once.                      *)
LEMMA SeenDrop ==
  ASSUME UNCHANGED <<run, spawned>>, ~Over, ~Over',
         \A t \in Tasks :
           \/ TaskView(t)' = TaskView(t)
           \/ TaskView(t) \in {"waiting", "active"} /\ TaskView(t)' = "dropped"
  PROVE  Promise!Next
<1> DEFINE S == {t \in Tasks : TaskView(t)' # TaskView(t)}
           phase == [t \in Tasks |-> TaskView(t)]
<1>1. [t \in Tasks |-> Deps(t)]' = [t \in Tasks |-> Deps(t)]
  BY SameRun
<1>2. phase' = [t \in Tasks |-> IF t \in S THEN "dropped" ELSE phase[t]]
  OBVIOUS
<1>3. \A t \in S : phase[t] \in {"waiting", "active"}
  OBVIOUS
<1>4. Over' = Over
  BY DEF Over
<1>5. Promise!Drop(S)
  BY <1>1, <1>2, <1>3, <1>4 DEF Promise!Drop
<1>6. S \in SUBSET Tasks
  OBVIOUS
<1> QED BY <1>5, <1>6 DEF Promise!Next

(* One task moves, the others stay.                                        *)
LEMMA SeenMove ==
  ASSUME run' = run, ~Over, ~Over', NEW t \in Tasks, NEW p,
         TaskView(t)' = p, \A u \in Tasks : u # t => TaskView(u)' = TaskView(u)
  PROVE  /\ Promise!Move(t, p)
         /\ [u \in Tasks |-> Deps(u)]' = [u \in Tasks |-> Deps(u)]
         /\ Over' = Over
<1>1. [u \in Tasks |-> Deps(u)]' = [u \in Tasks |-> Deps(u)]
  BY SameRun
<1>2. Over' = Over
  BY DEF Over
<1>3. [u \in Tasks |-> TaskView(u)]'
        = [[u \in Tasks |-> TaskView(u)] EXCEPT ![t] = p]
  OBVIOUS
<1> QED BY <1>1, <1>2, <1>3 DEF Promise!Move

Seen == Promise!Next \/ UNCHANGED Promise!vars

(* No task comes to be anywhere it was not.                                *)
LEMMA SeenShrink ==
  ASSUME PromiseInv, UNCHANGED <<run, completed, spawned>>, ~Over, ~Over',
         \A t \in Tasks : InFlight(t)' => InFlight(t),
         \A t \in Tasks : Waiting(t)' => Waiting(t),
         \A t \in Tasks : status'[t] = status[t] \/ Placed(t)
  PROVE  Seen
<1>1. \A t \in Tasks : InFlight(t) => ~Waiting(t) /\ spawned[t] > 0
  BY DEF PromiseInv, IndInv, InOnePlace, OneAttemptAtATime
<1>2. ASSUME NEW t \in Tasks
      PROVE  \/ TaskView(t)' = TaskView(t)
             \/ TaskView(t) \in {"waiting", "active"} /\ TaskView(t)' = "dropped"
  <2>1. CASE t \in completed
    BY <2>1, ViewNow, ViewNext
  <2>2. CASE t \notin completed /\ InFlight(t)
    BY <1>1, <2>2, ViewNow, ViewNext
  <2>3. CASE t \notin completed /\ ~InFlight(t) /\ Waiting(t)
    BY <2>3, ViewNow, ViewNext
  <2>4. CASE t \notin completed /\ ~InFlight(t) /\ ~Waiting(t)
    BY <2>4, ViewNow, ViewNext DEF Placed
  <2> QED BY <2>1, <2>2, <2>3, <2>4
<1> QED BY <1>2, SeenDrop DEF Seen

LEMMA SeenStart == PromiseInv /\ Start => Seen
<1> SUFFICES ASSUME PromiseInv, Start PROVE Seen
  OBVIOUS
<1>1. NotStarted /\ ~Over
  BY DEF Start, PlanGateApproved, PlanGateCancelled, Setup, NotStarted, Over, Final
<1>2. CASE PlanGateApproved
  <2>1. UNCHANGED <<run, cur, status, loopVars>> /\ pc' = "setup"
    BY <1>2 DEF PlanGateApproved
  <2> QED BY <1>1, <2>1, SeenNothing DEF Seen, Over, Final, InFlight, Waiting, loopVars
<1>3. CASE PlanGateCancelled
  BY <1>1, <1>3, SeenEnd
     DEF PlanGateCancelled, Seen, Promise!Next, Over, Final, loopVars
<1>4. CASE Setup
  <2> DEFINE phase == [t \in Tasks |-> TaskView(t)]
  <2>1. /\ run' = run /\ cur' = NoJob /\ jobs' = {} /\ blocked' = {} /\ jobs = {}
        /\ spawned' = spawned /\ completed = {} /\ completed' = run.filtered
        /\ cur = NoJob /\ pc' = "top"
        /\ \A t \in Tasks : spawned[t] = 0 /\ ~Waiting(t) /\ status[t] = "Pending"
        /\ \A t \in Tasks :
             status'[t] = IF t \in run.filtered THEN "Skipped" ELSE status[t]
    BY <1>1, <1>4
       DEF Setup, PromiseInv, IndInv, StartOfRun, NotStarted, EndInv, VerdictInv,
           Waiting
  <2>2. ~Over' /\ Over' = Over
    BY <1>1, <2>1 DEF Over, Final
  <2>3. \A t \in Tasks : ~InFlight(t) /\ ~InFlight(t)'
    BY <2>1, TasksAssumption DEF InFlight, NoJob
  <2>4. \A t \in Tasks : TaskView(t) = "waiting"
    BY <1>1, <2>1, <2>3, ViewNow
  <2>5. \A t \in Tasks :
          TaskView(t)' = IF t \in run.filtered THEN "leftOut" ELSE "waiting"
    BY <2>1, <2>2, <2>3, ViewNext
  <2>6. run.filtered \in SUBSET Tasks
    BY RunsAssumption DEF PromiseInv, IndInv, TypeOK, RunType
  <2>7. phase' = [t \in Tasks |-> IF t \in run.filtered THEN "leftOut" ELSE "waiting"]
    BY <2>5
  <2>8. [t \in Tasks |-> Deps(t)]' = [t \in Tasks |-> Deps(t)]
    BY <2>1, SameRun
  <2>9. \A t \in Tasks : phase[t] = "waiting" /\ spawned[t] = 0
    BY <2>1, <2>4
  <2>10. Promise!LeaveOut
    BY <1>1, <2>1, <2>2, <2>6, <2>7, <2>8, <2>9 DEF Promise!LeaveOut
  <2> QED BY <2>10 DEF Seen, Promise!Next
<1> QED BY <1>2, <1>3, <1>4 DEF Start

LEMMA SeenTop == PromiseInv /\ (Top \/ Poll) => Seen
<1> SUFFICES ASSUME PromiseInv, Top \/ Poll PROVE Seen
  OBVIOUS
<1> USE DEF loopVars, flagVars, envVars, askVars
<1>1. ~Over
  BY DEF Top, LoopExit, LoopCancelled, Readmit, Poll, PollNotStalled, PollCancelled,
         PollSlept, PollTimedOut, Over, Final
<1>2. CASE LoopExit \/ LoopCancelled \/ PollCancelled \/ PollTimedOut
  <2>1. UNCHANGED <<run, completed, spawned>> /\ pc' = "finalize"
    BY <1>2 DEF LoopExit, LoopCancelled, PollCancelled, PollTimedOut, CancelLoop
  <2> QED BY <1>1, <2>1, SeenEnd DEF Seen, Promise!Next, Over
<1>3. CASE PollNotStalled \/ PollSlept
  <2>1. UNCHANGED <<run, cur, status, loopVars>> /\ pc' \in {"join", "top"}
    BY <1>3 DEF PollNotStalled, PollSlept
  <2> QED BY <1>1, <2>1, SeenNothing DEF Seen, Over, Final, InFlight, Waiting
<1>4. CASE Readmit
  <2> DEFINE cleared == {t \in blocked : mail[t] # "open"}
  <2>1. /\ UNCHANGED <<run, cur, jobs, completed, spawned>>
        /\ pc' = "dispatch"
        /\ blocked' = blocked \ cleared
        /\ ready' = [t \in Tasks |-> IF t \in cleared THEN ready[t] + 1 ELSE ready[t]]
        /\ status' = [t \in Tasks |-> IF t \in cleared THEN "Pending" ELSE status[t]]
    BY <1>4 DEF Readmit
  <2>2. cleared \subseteq blocked
    OBVIOUS
  <2> HIDE DEF cleared
  <2>3. ready \in [Tasks -> Nat]
    BY DEF PromiseInv, IndInv, TypeOK
  <2>4. \A t \in Tasks : /\ InFlight(t)' <=> InFlight(t)
                         /\ Waiting(t)' <=> Waiting(t)
                         /\ Waiting(t) \/ status'[t] = status[t]
    BY <2>1, <2>2, <2>3 DEF InFlight, Waiting
  <2>5. ~Over'
    BY <2>1 DEF Over, Final
  <2> QED BY <1>1, <2>1, <2>4, <2>5, SeenNothing DEF Seen
<1> QED BY <1>2, <1>3, <1>4 DEF Top, Poll

LEMMA SeenDispatch == PromiseInv /\ Dispatch => Seen
<1> SUFFICES ASSUME PromiseInv, Dispatch PROVE Seen
  OBVIOUS
<1> USE DEF loopVars, flagVars, envVars, askVars
<1>1. /\ pc = "dispatch" /\ pc' \in {"dispatch", "poll"} /\ ~Over /\ ~Over'
      /\ run' = run /\ completed' = completed /\ cur = NoJob
      /\ status \in [Tasks -> Statuses] /\ ready \in [Tasks -> Nat]
      /\ spawned \in [Tasks -> Nat]
  BY DEF Dispatch, DispatchGated, DispatchSpawned, DispatchFailed, DispatchDone,
         Over, Final, PromiseInv, IndInv, TypeOK, CurMatchesPc, Handlers
<1>2. CASE DispatchDone
  BY <1>1, <1>2, SeenNothing DEF DispatchDone, Seen, InFlight, Waiting
<1>3. ASSUME NEW t \in Tasks, DispatchGated(t)
      PROVE  Seen
  <2>1. /\ UNCHANGED <<cur, jobs, spawned>> /\ ready[t] > 0 /\ ready' = Popped(t)
        /\ blocked' = blocked \cup {t}
        /\ \A u \in Tasks : u # t => status'[u] = status[u]
    BY <1>1, <1>3 DEF DispatchGated, SetStatus
  <2>2. \A u \in Tasks : u # t => ready'[u] = ready[u]
    BY <1>1, <2>1 DEF Popped
  <2>3. \A u \in Tasks : /\ InFlight(u)' <=> InFlight(u)
                         /\ Waiting(u)' <=> Waiting(u)
                         /\ Waiting(u) \/ status'[u] = status[u]
    BY <2>1, <2>2 DEF InFlight, Waiting
  <2> QED BY <1>1, <2>1, <2>3, SeenNothing DEF Seen
<1>4. ASSUME NEW t \in Tasks, DispatchSpawned(t)
      PROVE  Seen
  <2> DEFINE n == [task |-> t, att |-> spawned[t] + 1, res |-> "busy"]
             phase == [u \in Tasks |-> TaskView(u)]
  <2>1. /\ UNCHANGED <<cur, blocked>> /\ ready[t] > 0 /\ ready' = Popped(t)
        /\ jobs' = jobs \cup {n} /\ spawned' = [spawned EXCEPT ![t] = @ + 1]
        /\ \A u \in Tasks : u # t => status'[u] = status[u]
    BY <1>1, <1>4 DEF DispatchSpawned, SetStatus
  <2>2. n.task = t
    OBVIOUS
  <2> HIDE DEF n
  <2>3. Waiting(t) /\ ~InFlight(t) /\ t \notin completed
    BY <2>1 DEF Waiting, PromiseInv, IndInv, InOnePlace, OneAttemptAtATime
  <2>4. InFlight(t)'
    BY <2>1, <2>2 DEF InFlight
  <2>5. \A u \in Tasks : u # t =>
          /\ ready'[u] = ready[u] /\ spawned'[u] = spawned[u]
          /\ InFlight(u)' <=> InFlight(u)
    BY <1>1, <2>1, <2>2 DEF Popped, InFlight
  <2>6. TaskView(t) = "waiting" /\ TaskView(t)' = "active"
    BY <1>1, <2>3, <2>4, ViewNow, ViewNext
  <2>7. \A u \in Tasks : u # t => (Waiting(u)' <=> Waiting(u))
    BY <2>1, <2>5 DEF Waiting
  <2>8. \A u \in Tasks : u # t => TaskView(u)' = TaskView(u)
    BY <1>1, <2>1, <2>5, <2>7, ViewNow, ViewNext
  <2>9. /\ Promise!Move(t, "active")
        /\ [u \in Tasks |-> Deps(u)]' = [u \in Tasks |-> Deps(u)]
        /\ Over' = Over
    BY <1>1, <2>6, <2>8, SeenMove
  <2>10. \A d \in Deps(t) : d \in Tasks /\ phase[d] \in {"released", "leftOut"}
    <3>1. Deps(t) \subseteq completed /\ Deps(t) \subseteq Tasks
      BY <2>3 DEF PromiseInv, IndInv, GroundedTasks, Touched, Deps
    <3> QED BY <3>1, ViewNow
  <2>11. Promise!Satisfied(t)
    BY <2>10 DEF Promise!Satisfied
  <2>12. spawned[t] < 1 + MaxRetries
    <3>1. spawned[t] <= retries[t] /\ retries[t] \in 0 .. MaxRetries
      BY <2>3 DEF PromiseInv, IndInv, RetriesPayForAttempts, TypeOK
    <3> QED BY <1>1, <3>1, BoundsAssumption
  <2>13. Promise!Begin(t)
    BY <1>1, <2>1, <2>6, <2>9, <2>11, <2>12 DEF Promise!Begin
  <2> QED BY <2>13 DEF Seen, Promise!Next
<1>5. ASSUME NEW t \in Tasks, DispatchFailed(t)
      PROVE  Seen
  <2>1. /\ UNCHANGED <<cur, blocked, spawned>> /\ ready[t] > 0
        /\ ready' \in {Popped(t), NothingReady} /\ jobs' \subseteq jobs
        /\ \A u \in Tasks : u # t => status'[u] = status[u]
    BY <1>1, <1>5 DEF DispatchFailed, SetStatus
  <2>2. \A u \in Tasks : ready'[u] <= ready[u] /\ ready'[u] \in Int
    BY <1>1, <2>1 DEF Popped, NothingReady
  <2>3. \A u \in Tasks : InFlight(u)' => InFlight(u)
    BY <2>1 DEF InFlight
  <2>4. \A u \in Tasks : Waiting(u)' => Waiting(u)
    BY <1>1, <2>1, <2>2 DEF Waiting
  <2>5. Placed(t)
    BY <2>1 DEF Placed, Waiting
  <2> QED BY <1>1, <2>1, <2>3, <2>4, <2>5, SeenShrink
<1> QED BY <1>2, <1>3, <1>4, <1>5 DEF Dispatch

LEMMA SeenJoin == PromiseInv /\ (Join \/ Attempt) => Seen
<1> SUFFICES ASSUME PromiseInv, Join \/ Attempt PROVE Seen
  OBVIOUS
<1> USE DEF loopVars, flagVars, envVars, askVars
<1>1. CASE JoinNone \/ JoinCancelled
  <2>1. UNCHANGED <<run, completed, spawned>> /\ pc = "join" /\ pc' = "finalize"
    BY <1>1 DEF JoinNone, JoinCancelled, CancelLoop
  <2>2. ~Over /\ Over'
    BY <2>1 DEF Over, Final
  <2> QED BY <2>1, <2>2, SeenEnd DEF Seen, Promise!Next
<1>2. ASSUME NEW j \in jobs, JoinOne(j)
      PROVE  Seen
  <2>1. /\ UNCHANGED <<run, status, ready, blocked, completed, spawned>>
        /\ jobs' = jobs \ {j} /\ cur' = j /\ pc = "join" /\ cur = NoJob
        /\ pc' \in {"review", "failure"}
    BY <1>2 DEF JoinOne, PromiseInv, IndInv, CurMatchesPc, Handlers
  <2>2. \A t \in Tasks : InFlight(t)' <=> InFlight(t)
    <3>1. \A t \in Tasks : InFlight(t)' => InFlight(t)
      BY <2>1 DEF InFlight
    <3>2. \A t \in Tasks : InFlight(t) => InFlight(t)'
      BY <2>1, TasksAssumption DEF InFlight, NoJob
    <3> QED BY <3>1, <3>2
  <2>3. ~Over /\ ~Over'
    BY <2>1 DEF Over, Final
  <2> QED BY <2>1, <2>2, <2>3, SeenNothing DEF Seen, Waiting
<1>3. ASSUME NEW j \in jobs, NEW r \in Results, Finish(j, r)
      PROVE  Seen
  <2> DEFINE n == [j EXCEPT !.res = r]
  <2>1. /\ UNCHANGED <<run, pc, cur, ready, blocked, completed, spawned>>
        /\ jobs' = (jobs \ {j}) \cup {n} /\ pc \notin Final
        /\ status' = [status EXCEPT ![j.task] = FinishStatus(r)]
    BY <1>3 DEF Finish
  <2>2. j \in Job /\ status \in [Tasks -> Statuses] /\ jobs # {}
    BY <1>3 DEF PromiseInv, IndInv, TypeOK
  <2>3. n.task = j.task
    BY <2>2 DEF Job
  <2> HIDE DEF n
  <2>4. ~Over /\ ~Over'
    BY <2>1, <2>2 DEF Over, Final, PromiseInv, EndInv
  <2>5. \A u \in Tasks : u # j.task => status'[u] = status[u]
    BY <2>1, <2>2
  <2>6. \A u \in Tasks : InFlight(u)' <=> InFlight(u)
    BY <2>1, <2>3 DEF InFlight
  <2>7. InFlight(j.task)
    BY DEF InFlight
  <2>8. \A u \in Tasks : Waiting(u)' <=> Waiting(u)
    BY <2>1 DEF Waiting
  <2> QED BY <2>1, <2>4, <2>5, <2>6, <2>7, <2>8, SeenNothing DEF Seen
<1> QED BY <1>1, <1>2, <1>3 DEF Join, Attempt

LEMMA SeenHandle == PromiseInv /\ Handle => Seen
<1> SUFFICES ASSUME PromiseInv, Handle PROVE Seen
  OBVIOUS
<1> USE DEF loopVars, flagVars, envVars, askVars
<1>1. pc \in Handlers
  BY DEF Handlers, Handle, FailureRetried, FailureEscalated, ReviewMisconfigured,
     ReviewPassed, ReviewRetried, ReviewRejected, BudgetOk, BudgetTripped,
     ApprovalSkipped, ApprovalOpened, ApprovalGranted, ApprovalCancelled,
     Integrated, IntegrateConflict
<1>2. PICK t : t = cur.task
  OBVIOUS
<1>3. /\ Live /\ ~NotStarted /\ t \in Tasks /\ Placed(t)
      /\ status \in [Tasks -> Statuses] /\ ready \in [Tasks -> Nat]
      /\ ready[t] = 0 /\ t \notin blocked /\ \A j \in jobs : j.task # t
      /\ t \notin completed /\ cur # NoJob
  BY <1>1, <1>2, VerdictHandled DEF PromiseInv, VerdictStart
<1>4. ~Over /\ InFlight(t) /\ ~Waiting(t) /\ spawned[t] > 0
  BY <1>1, <1>2, <1>3
     DEF Over, Final, Handlers, InFlight, Waiting, PromiseInv
<1> DEFINE Ended == pc' = "finalize" /\ UNCHANGED <<run, completed, spawned>>
<1>5. Ended => Seen
  BY <1>4, SeenEnd DEF Seen, Promise!Next, Over
<1>6. CASE FailureRetried \/ ReviewRetried
  <2>1. /\ UNCHANGED <<run, completed, spawned, blocked, jobs>>
        /\ cur' = NoJob /\ pc' = "top" /\ ready' = [ready EXCEPT ![t] = @ + 1]
        /\ \A u \in Tasks : u # t => status'[u] = status[u]
    BY <1>2, <1>3, <1>6 DEF FailureRetried, ReviewRetried, Requeue, SetStatus
  <2>2. ~Over'
    BY <2>1 DEF Over, Final
  <2>3. Waiting(t)' /\ ~InFlight(t)'
    BY <1>3, <2>1, TasksAssumption DEF Waiting, InFlight, NoJob
  <2>4. \A u \in Tasks : u # t => /\ InFlight(u)' <=> InFlight(u)
                                  /\ Waiting(u)' <=> Waiting(u)
    BY <1>2, <1>3, <2>1, TasksAssumption DEF Waiting, InFlight, NoJob
  <2>5. TaskView(t) = "active" /\ TaskView(t)' = "waiting"
    BY <1>3, <1>4, <2>1, <2>2, <2>3, ViewNow, ViewNext
  <2>6. \A u \in Tasks : u # t => TaskView(u)' = TaskView(u)
    BY <1>4, <2>1, <2>2, <2>4, ViewNow, ViewNext
  <2>7. /\ Promise!Move(t, "waiting")
        /\ [u \in Tasks |-> Deps(u)]' = [u \in Tasks |-> Deps(u)]
        /\ Over' = Over
    BY <1>3, <1>4, <2>1, <2>2, <2>5, <2>6, SeenMove
  <2>8. Promise!TryAgain(t)
    BY <1>3, <1>4, <2>1, <2>5, <2>7 DEF Promise!TryAgain
  <2> QED BY <1>3, <2>8 DEF Seen, Promise!Next
<1>7. CASE FailureEscalated \/ ReviewMisconfigured \/ ReviewRejected \/ IntegrateConflict
  <2>1. /\ UNCHANGED <<run, completed, spawned, blocked, ready>>
        /\ cur' = NoJob /\ jobs' \subseteq jobs /\ pc' \in {"top", "finalize"}
        /\ \A u \in Tasks : u # t => status'[u] = status[u]
    BY <1>2, <1>3, <1>7
       DEF FailureEscalated, ReviewMisconfigured, ReviewRejected, IntegrateConflict,
           GiveUp, StopOrGoOn, SetStatus
  <2>2. \A u \in Tasks : InFlight(u)' => InFlight(u)
    BY <2>1, TasksAssumption DEF InFlight, NoJob
  <2>3. \A u \in Tasks : Waiting(u)' => Waiting(u)
    BY <2>1 DEF Waiting
  <2>4. pc' = "top" => ~Over'
    BY DEF Over, Final
  <2> QED BY <1>3, <1>4, <1>5, <2>1, <2>2, <2>3, <2>4, SeenShrink
<1>8. CASE BudgetTripped
  <2>1. /\ UNCHANGED <<run, completed, spawned, blocked, ready, status>>
        /\ cur' \in {cur, NoJob} /\ jobs' \subseteq jobs
        /\ pc' \in {"approval", "finalize"}
    BY <1>8 DEF BudgetTripped, StopOrGoOn
  <2>2. \A u \in Tasks : InFlight(u)' => InFlight(u)
    BY <2>1, TasksAssumption DEF InFlight, NoJob
  <2>3. \A u \in Tasks : Waiting(u)' => Waiting(u)
    BY <2>1 DEF Waiting
  <2>4. pc' = "approval" => ~Over'
    BY DEF Over, Final
  <2> QED BY <1>3, <1>4, <1>5, <2>1, <2>2, <2>3, <2>4, SeenShrink
<1>9. CASE ReviewPassed \/ BudgetOk \/ ApprovalSkipped \/ ApprovalOpened \/ ApprovalGranted
  <2>1. /\ UNCHANGED <<run, completed, spawned, blocked, ready, jobs, cur>>
        /\ pc' \in {"budget", "approval", "approve", "integrate"}
        /\ \A u \in Tasks : u # t => status'[u] = status[u]
    BY <1>2, <1>3, <1>9
       DEF ReviewPassed, BudgetOk, ApprovalSkipped, ApprovalOpened, ApprovalGranted,
           SetStatus
  <2>2. \A u \in Tasks : /\ InFlight(u)' <=> InFlight(u)
                         /\ Waiting(u)' <=> Waiting(u)
    BY <2>1 DEF InFlight, Waiting
  <2>3. ~Over'
    BY <2>1 DEF Over, Final
  <2> QED BY <1>3, <1>4, <2>1, <2>2, <2>3, SeenShrink
<1>10. CASE ApprovalCancelled
  BY <1>5, <1>10 DEF ApprovalCancelled, CancelLoop
<1>11. CASE Integrated
  <2>1. /\ UNCHANGED <<run, status, jobs, blocked, spawned>>
        /\ cur' = NoJob /\ pc' = "top"
    BY <1>11 DEF Integrated
  <2>2. ~Over'
    BY <2>1 DEF Over, Final
  <2>3. ~InFlight(t)' /\ \A u \in Tasks : u # t => (InFlight(u)' <=> InFlight(u))
    BY <1>2, <1>3, <2>1, TasksAssumption DEF InFlight, NoJob
  <2>4. CASE UNCHANGED <<completed, ready>>
    <3>1. \A u \in Tasks : Waiting(u)' <=> Waiting(u)
      BY <2>1, <2>4 DEF Waiting
    <3>2. \A u \in Tasks : InFlight(u)' => InFlight(u)
      BY <2>3
    <3> QED BY <1>4, <2>1, <2>2, <2>4, <3>1, <3>2, SeenShrink
  <2>5. CASE /\ completed' = completed \cup {t}
             /\ ready' = [d \in Tasks |-> ready[d] + NewlyReady(t, d)]
    <3>1. run.need \in [Tasks -> [Tasks -> Nat]]
      BY RunsAssumption DEF PromiseInv, IndInv, TypeOK, RunType
    <3>2. \A d \in Tasks : /\ t \notin Deps(d) => NewlyReady(t, d) = 0
                           /\ NewlyReady(t, d) \in Nat
      BY <1>3, <3>1 DEF NewlyReady, Deps
    <3>3. \A u \in Tasks : t \in Deps(u) =>
            status[u] # "Failed" /\ spawned[u] = 0 /\ ~InFlight(u)
      <4>1. \A u \in Tasks : t \in Deps(u) => status[u] # "Failed"
        BY <1>3 DEF PromiseInv, VerdictInv, MovedAreGrounded
      <4>2. \A u \in Tasks : t \in Deps(u) => ~Touched(u)
        BY <1>3 DEF PromiseInv, IndInv, GroundedTasks
      <4>3. spawned \in [Tasks -> Nat]
        BY DEF PromiseInv, IndInv, TypeOK
      <4> QED BY <4>1, <4>2, <4>3 DEF Touched
    <3>4. \A u \in Tasks : t \notin Deps(u) => ready'[u] = ready[u]
      BY <1>3, <2>5, <3>2
    <3>5. \A u \in Tasks : t \notin Deps(u) => (Waiting(u)' <=> Waiting(u))
      BY <2>1, <3>4 DEF Waiting
    <3>6. \A u \in Tasks : u # t => TaskView(u)' = TaskView(u)
      BY <1>4, <2>1, <2>2, <2>3, <2>5, <3>3, <3>5, ViewNow, ViewNext
    <3>7. t \notin run.filtered
      BY <1>3 DEF PromiseInv, IndInv, StartOfRun, Live, Final
    <3>8. TaskView(t) = "active" /\ TaskView(t)' = "released"
      BY <1>3, <1>4, <2>1, <2>5, <3>7, ViewNow, ViewNext
    <3>9. /\ Promise!Move(t, "released")
          /\ [u \in Tasks |-> Deps(u)]' = [u \in Tasks |-> Deps(u)]
          /\ Over' = Over
      BY <1>3, <1>4, <2>1, <2>2, <3>6, <3>8, SeenMove
    <3>10. Promise!Release(t)
      BY <1>3, <1>4, <2>1, <3>8, <3>9 DEF Promise!Release
    <3> QED BY <1>3, <3>10 DEF Seen, Promise!Next
  <2> QED BY <1>2, <1>11, <2>4, <2>5 DEF Integrated
<1> QED BY <1>6, <1>7, <1>8, <1>9, <1>10, <1>11 DEF Handle

LEMMA SeenStep == PromiseInv /\ [Next]_vars => Seen
<1> SUFFICES ASSUME PromiseInv, [Next]_vars PROVE Seen
  OBVIOUS
<1> USE DEF loopVars, flagVars, envVars, askVars
<1>1. CASE Start \/ Top \/ Dispatch
  BY <1>1, SeenStart, SeenTop, SeenDispatch
<1>2. CASE Poll \/ Join \/ Attempt \/ Handle
  BY <1>2, SeenTop, SeenJoin, SeenHandle
<1>3. CASE Closing
  <2>1. UNCHANGED <<run, completed, spawned>> /\ Over /\ Over'
    BY <1>3 DEF Closing, Finalize, OutcomeApproved, OutcomeCancelled, Over, Final
  <2> QED BY <2>1, SeenOver DEF Seen
<1>4. CASE Crash
  <2>1. UNCHANGED <<run, completed, spawned>> /\ Over'
    BY <1>4 DEF Crash, Over, Final
  <2> QED BY <2>1, SeenOver, SeenEnd DEF Seen, Promise!Next
<1>5. CASE \/ StaleMarkerDropped \/ Human \/ RequestCancel \/ Terminated
           \/ \E t \in Tasks : MailSent(t) \/ MailResolved(t)
           \/ UNCHANGED vars
  <2>1. UNCHANGED <<run, pc, cur, status, jobs, completed, ready, blocked, spawned>>
    BY <1>5 DEF StaleMarkerDropped, Human, Approve, ApproveElsewhere,
                TakenElsewhere, RequestCancel, Terminated,
                MailSent, MailResolved, vars
  <2> QED BY <2>1, SeenNothing DEF Seen, Over, InFlight, Waiting
<1> QED BY <1>1, <1>2, <1>3, <1>4, <1>5 DEF Next, Scheduler, World

(* Whatever is in flight was spawned.                                      *)
LEMMA InFlightWasSpawned ==
  ASSUME IndInv, [Next]_vars, \A t \in Tasks : InFlight(t) => spawned[t] > 0
  PROVE  \A t \in Tasks : InFlight(t)' => spawned'[t] > 0
<1> USE DEF vars, loopVars, flagVars, envVars, askVars
<1>1. spawned \in [Tasks -> Nat] /\ jobs \subseteq Job
  BY DEF IndInv, TypeOK
<1>2. ASSUME NEW u \in Tasks, DispatchSpawned(u)
      PROVE  \A t \in Tasks : InFlight(t)' => spawned'[t] > 0
  <2>1. /\ cur' = cur /\ \A j \in jobs' : j \in jobs \/ j.task = u
        /\ spawned' = [spawned EXCEPT ![u] = @ + 1]
    BY <1>2 DEF DispatchSpawned
  <2>2. \A t \in Tasks : InFlight(t)' => InFlight(t) \/ t = u
    BY <2>1 DEF InFlight
  <2> QED BY <1>1, <2>1, <2>2
<1>3. CASE ~\E u \in Tasks : DispatchSpawned(u)
  <2>1. \A t \in Tasks : spawned'[t] = spawned[t]
    BY <1>3, WhoSpawns
  <2> DEFINE Fewer == /\ cur' \in jobs \cup {cur, NoJob}
                      /\ \A j \in jobs' : \E i \in jobs : i.task = j.task
  <2>2. Fewer => \A t \in Tasks : InFlight(t)' => InFlight(t)
    BY TasksAssumption DEF InFlight, NoJob
  <2>3. ASSUME Start \/ Top \/ Poll \/ Join PROVE Fewer
    BY <2>3
       DEF Start, PlanGateApproved, PlanGateCancelled, Setup, Top, LoopExit,
           LoopCancelled, Readmit, Poll, PollNotStalled, PollCancelled, PollSlept,
           PollTimedOut, Join, JoinNone, JoinCancelled, JoinOne, CancelLoop
  <2>4. ASSUME Dispatch PROVE Fewer
    BY <1>3, <2>4 DEF Dispatch, DispatchGated, DispatchFailed, DispatchDone
  <2>5. ASSUME Handle PROVE Fewer
    BY <2>5
       DEF Handle, FailureRetried, FailureEscalated, ReviewMisconfigured,
           ReviewPassed, ReviewRetried, ReviewRejected, BudgetOk, BudgetTripped,
           ApprovalSkipped, ApprovalOpened, ApprovalGranted, ApprovalCancelled,
           Integrated, IntegrateConflict, Requeue, GiveUp, StopOrGoOn, CancelLoop
  <2>6. ASSUME \/ Closing \/ StaleMarkerDropped \/ World \/ Terminated
               \/ UNCHANGED vars
        PROVE  Fewer
    BY <2>6
       DEF Closing, Finalize, OutcomeApproved, OutcomeCancelled, StaleMarkerDropped,
           World, Human, Approve, ApproveElsewhere,
           TakenElsewhere, RequestCancel, MailSent, MailResolved, Crash,
           Terminated
  <2>7. ASSUME NEW j \in jobs, NEW r \in Results, Finish(j, r)
        PROVE  Fewer
    <3> DEFINE n == [j EXCEPT !.res = r]
    <3>1. n.task = j.task
      BY <1>1 DEF Job
    <3> HIDE DEF n
    <3>2. cur' = cur /\ jobs' = (jobs \ {j}) \cup {n}
      BY <2>7 DEF Finish, n
    <3> QED BY <3>1, <3>2
  <2>8. Fewer
    BY <2>3, <2>4, <2>5, <2>6, <2>7 DEF Next, Scheduler, Attempt
  <2> QED BY <2>1, <2>2, <2>8
<1> QED BY <1>2, <1>3

(* For plans that name no dependency twice the executor implements the     *)
(* promise: work stands on released work, a task is tried a bounded number *)
(* of times, and released, left out and dropped are final.                 *)
THEOREM ImplementsPromise == Spec /\ NoRepeats => KeepsThePromise
<1>1. Init /\ NoRepeats => PromiseInv
  <2> SUFFICES ASSUME Init, NoRepeats PROVE PromiseInv
    OBVIOUS
  <2>1. IndInv
    BY InitTypes, InitGraph DEF TypeInv, IndInv, GraphInv, Places, Records
  <2>2. EndInv
    BY DEF Init, EndInv
  <2>3. NotStarted /\ ~hadFailure /\ \A t \in Tasks : status[t] = "Pending"
    BY DEF Init, NotStarted
  <2>4. VerdictInv
    BY <2>3 DEF VerdictInv, NotStarted, Accounted, FailureHasCulprit,
                MovedAreGrounded, VerdictRead
  <2>5. \A t \in Tasks : ~InFlight(t)
    BY TasksAssumption DEF Init, InFlight, NoJob
  <2> QED BY <2>1, <2>2, <2>4, <2>5 DEF PromiseInv
<1>2. PromiseInv /\ [Next]_vars => PromiseInv'
  <2> SUFFICES ASSUME PromiseInv, [Next]_vars PROVE PromiseInv'
    OBVIOUS
  <2>1. IndInv' /\ EndInv'
    BY IndInvStep, EndStep DEF IndInv, TypeInv, PromiseInv
  <2>2. NoRepeats'
    BY WhoReleases, SameRun DEF PromiseInv
  <2>3. VerdictInv'
    BY VerdictStep DEF VerdictStart, PromiseInv
  <2>4. \A t \in Tasks : InFlight(t)' => spawned'[t] > 0
    BY InFlightWasSpawned DEF PromiseInv
  <2> QED BY <2>1, <2>2, <2>3, <2>4 DEF PromiseInv
<1>3. Init => Promise!Init
  <2> SUFFICES ASSUME Init PROVE Promise!Init
    OBVIOUS
  <2>1. completed = {} /\ jobs = {} /\ blocked = {} /\ cur = NoJob /\ ~Over
    BY DEF Init, Over, Final
  <2>2. \A t \in Tasks : ~InFlight(t)
    BY <2>1, TasksAssumption DEF InFlight, NoJob
  <2>3. \A t \in Tasks : spawned[t] = 0 /\ status[t] = "Pending"
    BY DEF Init
  <2>4. \A t \in Tasks : TaskView(t) = "waiting"
    BY <2>1, <2>2, <2>3, ViewNow
  <2>5. [t \in Tasks |-> TaskView(t)] = [t \in Tasks |-> "waiting"]
    BY <2>4
  <2>6. [t \in Tasks |-> Deps(t)] \in [Tasks -> SUBSET Tasks]
    BY DEF Deps
  <2>7. spawned = [t \in Tasks |-> 0]
    BY DEF Init
  <2>8. Over = FALSE
    BY <2>1 DEF Over
  <2> QED BY <2>5, <2>6, <2>7, <2>8 DEF Promise!Init
<1>4. PromiseInv /\ [Next]_vars => [Promise!Next]_(Promise!vars)
  BY SeenStep DEF Seen
<1> QED BY <1>1, <1>2, <1>3, <1>4, PTL DEF Spec, KeepsThePromise, Promise!Spec

------------------------------------------------------------------------------
(* The DAG is drained.  Unless the run was stopped, a task whose producers *)
(* are all released is never forgotten, and the loop ends only when no task*)
(* is anywhere.                                                            *)

(* Plan::validate accepts no cycle: every set of tasks has a first one.    *)
Acyclic ==
  \A S \in SUBSET Tasks : S # {} => \E t \in S : Deps(t) \cap S = {}

Gone == cancelled \/ (hadFailure /\ ~run.continueOnError)

OkIsDone ==
  /\ \A j \in jobs : j.res \in OkResults => status[j.task] = "Done"
  /\ pc \in {"review", "budget", "approval", "integrate"}
       => status[cur.task] = "Done"
NoneForgotten ==
  ~Gone => \A t \in Tasks \ run.filtered : Deps(t) \subseteq completed
             => Placed(t) \/ t \in completed \/ status[t] = "Failed"
WorkedOff ==
  ~Gone => /\ pc = "poll" /\ jobs = {} => ~HasReady
           /\ pc = "join" /\ jobs = {} => ~HasReady /\ blocked = {}
           /\ pc = "finalize" => ~HasWork
DrainInv ==
  /\ ~NotStarted /\ Live => OkIsDone /\ NoneForgotten /\ WorkedOff
  /\ pc \in {"outcome", "ended"} /\ runStatus # "Cancelled"
       /\ (run.continueOnError \/ ~hadFailure) => Drained

DrainStart == VerdictStart /\ SkipsUpstreamClosed /\ Acyclic /\ DrainInv

(* A step of the loop that releases nothing.                               *)
LEMMA DrainKept ==
  ASSUME DrainStart, ~NotStarted, Live, Live', ~NotStarted',
         UNCHANGED <<run, completed>>, Gone => Gone',
         ~Gone' => \A t \in Tasks :
           /\ Placed(t) => Placed(t)' \/ status'[t] = "Failed"
           /\ status'[t] = status[t] \/ status'[t] = "Failed" \/ Placed(t)',
         OkIsDone', WorkedOff'
  PROVE  DrainInv'
<1>1. NoneForgotten
  BY DEF DrainStart, DrainInv
<1>2. NoneForgotten'
  BY <1>1, SameRun DEF NoneForgotten
<1>3. pc' \notin {"outcome", "ended"}
  BY DEF Live
<1> QED BY <1>2, <1>3 DEF DrainInv

(* A step after which the run is stopped.                                  *)
LEMMA DrainGone ==
  ASSUME pc' \notin {"outcome", "ended"}, Gone', OkIsDone'
  PROVE  DrainInv'
BY DEF DrainInv, NoneForgotten, WorkedOff

(* Tasks and queues as they were, and the loop goes on.                    *)
LEMMA DrainQuiet ==
  ASSUME DrainStart, ~NotStarted, Live, Live', ~NotStarted',
         UNCHANGED <<run, status, cur, jobs, ready, blocked, completed, hadFailure,
                     cancelled>>,
         pc' \in {"review", "budget", "approval", "integrate"}
           => pc \in {"review", "budget", "approval", "integrate"},
         WorkedOff'
  PROVE  DrainInv'
<1>1. \A t \in Tasks : Placed(t)' <=> Placed(t)
  BY DEF Placed, InFlight, Waiting
<1>2. OkIsDone'
  BY DEF DrainStart, DrainInv, OkIsDone
<1>3. Gone' <=> Gone
  BY DEF Gone
<1> QED BY <1>1, <1>2, <1>3, DrainKept

LEMMA DrainCancelled ==
  ASSUME CancelLoop PROVE DrainInv'
<1>1. pc' = "finalize" /\ jobs' = {} /\ cancelled' = TRUE
  BY DEF CancelLoop
<1> QED BY <1>1, DrainGone DEF Gone, OkIsDone

(* Everything whose producers are all filtered out is found by the walk.   *)
LEMMA InitialWorkComplete ==
  ASSUME SkipsUpstreamClosed, Acyclic, run.filtered \subseteq Tasks,
         NEW t \in Tasks \ run.filtered, Deps(t) \subseteq run.filtered
  PROVE  t \in InitialWork
<1> SUFFICES ASSUME NEW S \in SUBSET Tasks, WalkClosed(S) PROVE t \in S
  BY DEF InitialWork
<1>1. \A u \in Tasks : IsRoot(u) => u \in S
  BY DEF WalkClosed
<1>2. \A u \in S \cap run.filtered, d \in Tasks :
        u \in Deps(d) /\ Deps(d) \subseteq run.filtered => d \in S
  BY DEF WalkClosed, AllDepsDone
<1> DEFINE B == (run.filtered \cup {t}) \ S
<1>3. SUFFICES ASSUME B # {} PROVE FALSE
  OBVIOUS
<1>4. PICK m \in B : Deps(m) \cap B = {}
  BY <1>3 DEF Acyclic
<1>5. m \in Tasks /\ Deps(m) \subseteq run.filtered /\ m \notin S
  BY <1>4 DEF SkipsUpstreamClosed
<1>6. Deps(m) \subseteq S \cap run.filtered
  BY <1>4, <1>5
<1>7. ~IsRoot(m)
  BY <1>1, <1>5
<1>8. PICK d \in Deps(m) : TRUE
  BY <1>7 DEF IsRoot
<1> QED BY <1>2, <1>5, <1>6, <1>8

LEMMA StartDrain == DrainStart /\ Start => DrainInv'
<1> SUFFICES ASSUME DrainStart, Start PROVE DrainInv'
  OBVIOUS
<1> USE DEF loopVars, flagVars, envVars, askVars
<1>1. CASE PlanGateApproved \/ PlanGateCancelled
  BY <1>1 DEF PlanGateApproved, PlanGateCancelled, DrainInv, NotStarted, Live
<1>2. CASE Setup
  <2>1. /\ run' = run /\ jobs' = {} /\ completed' = run.filtered /\ pc' = "top"
        /\ \A t \in Tasks : t \in InitialWork => ready'[t] = 1
    BY <1>2 DEF Setup, DrainStart, VerdictStart, IndInv, StartOfRun, NotStarted
  <2>2. run.filtered \subseteq Tasks
    BY RunsAssumption DEF DrainStart, VerdictStart, IndInv, TypeOK, RunType
  <2>3. \A t \in Tasks \ run.filtered :
          Deps(t) \subseteq run.filtered => t \in InitialWork
    BY <2>2, InitialWorkComplete DEF DrainStart
  <2>4. \A t \in Tasks \ run.filtered : Deps(t) \subseteq run.filtered => Placed(t)'
    BY <2>1, <2>3 DEF Placed, Waiting
  <2>5. NoneForgotten'
    BY <2>1, <2>4, SameRun DEF NoneForgotten
  <2>6. OkIsDone' /\ WorkedOff'
    BY <2>1 DEF OkIsDone, WorkedOff
  <2> QED BY <2>1, <2>5, <2>6 DEF DrainInv
<1> QED BY <1>1, <1>2 DEF Start

LEMMA TopDrain == DrainStart /\ Top => DrainInv'
<1> SUFFICES ASSUME DrainStart, Top PROVE DrainInv'
  OBVIOUS
<1> USE DEF loopVars, flagVars, envVars, askVars
<1>1. pc = "top" /\ Live /\ ~NotStarted
  BY DEF Top, LoopExit, LoopCancelled, Readmit, Live, NotStarted
<1>2. CASE LoopExit
  <2>1. WorkedOff'
    BY <1>2 DEF LoopExit, WorkedOff, HasWork, HasReady
  <2> QED BY <1>1, <1>2, <2>1, DrainQuiet DEF LoopExit, Live, NotStarted
<1>3. CASE LoopCancelled
  BY <1>3, DrainCancelled DEF LoopCancelled
<1>4. CASE Readmit
  <2> DEFINE cleared == {t \in blocked : mail[t] # "open"}
  <2>1. /\ UNCHANGED <<run, cur, jobs, completed, hadFailure, cancelled>>
        /\ pc' = "dispatch"
        /\ blocked' = blocked \ cleared
        /\ ready' = [t \in Tasks |-> IF t \in cleared THEN ready[t] + 1 ELSE ready[t]]
        /\ status' = [t \in Tasks |-> IF t \in cleared THEN "Pending" ELSE status[t]]
    BY <1>4 DEF Readmit
  <2>2. cleared \subseteq blocked
    OBVIOUS
  <2> HIDE DEF cleared
  <2>3. ready \in [Tasks -> Nat] /\ jobs \subseteq Job
    BY DEF DrainStart, VerdictStart, IndInv, TypeOK
  <2>4. \A t \in Tasks : /\ Placed(t) => Placed(t)'
                         /\ status'[t] = status[t] \/ Placed(t)
                         /\ InFlight(t) => status'[t] = status[t]
    <3>1. \A t \in Tasks : InFlight(t) => t \notin blocked
      BY DEF DrainStart, VerdictStart, IndInv, InOnePlace, OneAttemptAtATime, Waiting
    <3> QED BY <2>1, <2>2, <2>3, <3>1 DEF Placed, InFlight, Waiting
  <2>5. OkIsDone'
    BY <1>1, <2>1, <2>3, <2>4 DEF DrainStart, DrainInv, OkIsDone, InFlight, Job
  <2>6. WorkedOff' /\ Live' /\ ~NotStarted'
    BY <2>1 DEF WorkedOff, Live, NotStarted
  <2> QED BY <1>1, <2>1, <2>4, <2>5, <2>6, DrainKept DEF Gone
<1> QED BY <1>2, <1>3, <1>4 DEF Top

LEMMA DispatchDrain == DrainStart /\ Dispatch => DrainInv'
<1> SUFFICES ASSUME DrainStart, Dispatch PROVE DrainInv'
  OBVIOUS
<1> USE DEF loopVars, flagVars, envVars, askVars
<1>1. /\ pc = "dispatch" /\ Live /\ ~NotStarted /\ Live' /\ ~NotStarted'
      /\ pc' \in {"dispatch", "poll"} /\ UNCHANGED <<run, completed, cur>>
      /\ status \in [Tasks -> Statuses] /\ ready \in [Tasks -> Nat]
      /\ jobs \subseteq Job
  BY DEF Dispatch, DispatchGated, DispatchSpawned, DispatchFailed, DispatchDone,
         Live, NotStarted, DrainStart, VerdictStart, IndInv, TypeOK
<1>2. OkIsDone
  BY <1>1 DEF DrainStart, DrainInv
<1>3. CASE DispatchDone
  <2>1. jobs = {} => HasRoom
    <3>1. run.width \in Nat
      BY RunsAssumption DEF DrainStart, VerdictStart, IndInv, TypeOK, RunType
    <3> QED BY <3>1, FS_EmptySet DEF HasRoom, Width
  <2>2. WorkedOff'
    BY <1>3, <2>1 DEF DispatchDone, WorkedOff, HasReady
  <2> QED BY <1>1, <1>3, <2>2, DrainQuiet DEF DispatchDone
<1>4. ASSUME NEW t \in Tasks, DispatchGated(t) \/ DispatchSpawned(t)
      PROVE  DrainInv'
  <2>1. /\ UNCHANGED <<hadFailure, cancelled>> /\ pc' = "dispatch"
        /\ ready[t] > 0 /\ ready' = Popped(t)
        /\ \A u \in Tasks : u # t => status'[u] = status[u]
    BY <1>1, <1>4 DEF DispatchGated, DispatchSpawned, SetStatus
  <2>2. /\ blocked \subseteq blocked' /\ jobs \subseteq jobs'
        /\ \A j \in jobs' \ jobs : j.task = t /\ j.res = "busy"
    BY <1>4 DEF DispatchGated, DispatchSpawned
  <2>3. ~InFlight(t)
    BY <1>1, <2>1
       DEF DrainStart, VerdictStart, IndInv, InOnePlace, OneAttemptAtATime, Waiting
  <2>4. \A u \in Tasks : u # t => ready'[u] = ready[u]
    BY <1>1, <2>1 DEF Popped
  <2>5. Placed(t)'
    <3>1. CASE DispatchGated(t)
      BY <3>1 DEF DispatchGated, Placed, Waiting
    <3>2. CASE DispatchSpawned(t)
      <4> DEFINE n == [task |-> t, att |-> spawned[t] + 1, res |-> "busy"]
      <4>1. n \in jobs' /\ n.task = t
        BY <3>2 DEF DispatchSpawned
      <4> HIDE DEF n
      <4> QED BY <4>1 DEF Placed, InFlight
    <3> QED BY <1>4, <3>1, <3>2
  <2>6. \A u \in Tasks : Placed(u) => Placed(u)'
    BY <1>1, <2>2, <2>4, <2>5 DEF Placed, InFlight, Waiting
  <2>7. OkIsDone'
    BY <1>1, <1>2, <2>1, <2>2, <2>3 DEF OkIsDone, InFlight, OkResults, Job
  <2>8. WorkedOff'
    BY <2>1 DEF WorkedOff
  <2> QED BY <1>1, <2>1, <2>5, <2>6, <2>7, <2>8, DrainKept DEF Gone
<1>5. ASSUME NEW t \in Tasks, DispatchFailed(t)
      PROVE  DrainInv'
  <2>1. /\ UNCHANGED <<blocked, cancelled>> /\ hadFailure' = TRUE
        /\ ready[t] > 0 /\ jobs' \subseteq jobs
        /\ \A u \in Tasks : u # t => status'[u] = status[u]
        /\ status'[t] = "Failed"
        /\ run.continueOnError =>
             pc' = "dispatch" /\ ready' = Popped(t) /\ jobs' = jobs
    BY <1>1, <1>5 DEF DispatchFailed, SetStatus
  <2>2. ~InFlight(t)
    BY <1>1, <2>1
       DEF DrainStart, VerdictStart, IndInv, InOnePlace, OneAttemptAtATime, Waiting
  <2>3. OkIsDone'
    BY <1>1, <1>2, <2>1, <2>2 DEF OkIsDone, InFlight, Job
  <2>4. CASE ~run.continueOnError
    BY <1>1, <2>1, <2>3, <2>4, DrainGone DEF Gone
  <2>5. CASE run.continueOnError
    <3>1. \A u \in Tasks : u # t => (Placed(u) => Placed(u)')
      BY <1>1, <2>1, <2>5 DEF Popped, Placed, InFlight, Waiting
    <3>2. WorkedOff'
      BY <2>1, <2>5 DEF WorkedOff
    <3> QED BY <1>1, <2>1, <2>3, <2>5, <3>1, <3>2, DrainKept DEF Gone
  <2> QED BY <2>4, <2>5
<1> QED BY <1>3, <1>4, <1>5 DEF Dispatch

LEMMA PollDrain == DrainStart /\ Poll => DrainInv'
<1> SUFFICES ASSUME DrainStart, Poll PROVE DrainInv'
  OBVIOUS
<1> USE DEF loopVars, flagVars, envVars, askVars
<1>1. /\ pc = "poll" /\ Live /\ ~NotStarted /\ cur = NoJob /\ WorkedOff
      /\ status \in [Tasks -> Statuses] /\ ready \in [Tasks -> Nat]
  BY DEF Poll, PollNotStalled, PollCancelled, PollSlept, PollTimedOut, Live,
         NotStarted, DrainStart, DrainInv, VerdictStart, IndInv, TypeOK,
         CurMatchesPc, Handlers
<1>2. CASE PollNotStalled \/ PollSlept
  <2>1. WorkedOff'
    BY <1>1, <1>2 DEF PollNotStalled, PollSlept, Stalled, WorkedOff, Gone, HasReady
  <2> QED BY <1>1, <1>2, <2>1, DrainQuiet
          DEF PollNotStalled, PollSlept, Live, NotStarted
<1>3. CASE PollCancelled
  BY <1>3, DrainCancelled DEF PollCancelled
<1>4. CASE PollTimedOut
  <2>1. /\ UNCHANGED <<run, cur, ready, jobs, completed, cancelled>>
        /\ jobs = {} /\ blocked' = {} /\ hadFailure' = TRUE /\ pc' = "finalize"
        /\ \A t \in Tasks :
             status'[t] = IF t \in blocked THEN "Failed" ELSE status[t]
    BY <1>4 DEF PollTimedOut, Stalled
  <2>2. \A t \in Tasks : Placed(t) => Placed(t)' \/ status'[t] = "Failed"
    BY <2>1 DEF Placed, InFlight, Waiting
  <2>3. OkIsDone' /\ Live' /\ ~NotStarted'
    BY <2>1 DEF OkIsDone, Live, NotStarted
  <2>4. WorkedOff'
    BY <1>1, <2>1 DEF WorkedOff, Gone, HasWork, HasReady
  <2> QED BY <1>1, <2>1, <2>2, <2>3, <2>4, DrainKept DEF Gone
<1> QED BY <1>2, <1>3, <1>4 DEF Poll

LEMMA JoinDrain == DrainStart /\ Join => DrainInv'
<1> SUFFICES ASSUME DrainStart, Join PROVE DrainInv'
  OBVIOUS
<1> USE DEF loopVars, flagVars, envVars, askVars
<1>1. /\ pc = "join" /\ Live /\ ~NotStarted /\ cur = NoJob /\ WorkedOff /\ OkIsDone
  BY DEF Join, JoinNone, JoinCancelled, JoinOne, Live, NotStarted, DrainStart,
         DrainInv, VerdictStart, IndInv, CurMatchesPc, Handlers
<1>2. CASE JoinNone
  <2>1. WorkedOff'
    BY <1>1, <1>2 DEF JoinNone, WorkedOff, Gone, HasWork, HasReady
  <2> QED BY <1>1, <1>2, <2>1, DrainQuiet DEF JoinNone, Live, NotStarted
<1>3. CASE JoinCancelled
  BY <1>3, DrainCancelled DEF JoinCancelled
<1>4. ASSUME NEW j \in jobs, JoinOne(j)
      PROVE  DrainInv'
  <2>1. /\ UNCHANGED <<run, status, ready, blocked, completed, hadFailure, cancelled>>
        /\ jobs' = jobs \ {j} /\ cur' = j
        /\ pc' = IF j.res \in OkResults THEN "review" ELSE "failure"
    BY <1>4 DEF JoinOne
  <2>2. \A t \in Tasks : Placed(t) => Placed(t)'
    BY <1>1, <2>1, TasksAssumption DEF Placed, InFlight, Waiting, NoJob
  <2>3. OkIsDone'
    BY <1>1, <2>1 DEF OkIsDone
  <2>4. WorkedOff' /\ Live' /\ ~NotStarted'
    BY <2>1 DEF WorkedOff, Live, NotStarted
  <2> QED BY <1>1, <2>1, <2>2, <2>3, <2>4, DrainKept DEF Gone
<1> QED BY <1>2, <1>3, <1>4 DEF Join

LEMMA AttemptDrain == DrainStart /\ Attempt => DrainInv'
<1> SUFFICES ASSUME DrainStart, NEW j \in jobs, NEW r \in Results, Finish(j, r)
             PROVE  DrainInv'
  BY DEF Attempt
<1> USE DEF loopVars, flagVars, envVars, askVars
<1> DEFINE n == [j EXCEPT !.res = r]
<1>1. /\ UNCHANGED <<run, pc, cur, ready, blocked, completed, hadFailure, cancelled>>
      /\ jobs' = (jobs \ {j}) \cup {n} /\ pc \notin Final
      /\ status' = [status EXCEPT ![j.task] = FinishStatus(r)]
  BY DEF Finish
<1>2. /\ jobs \subseteq Job /\ j.task \in Tasks /\ status \in [Tasks -> Statuses]
      /\ ready \in [Tasks -> Nat]
  BY DEF DrainStart, VerdictStart, IndInv, TypeOK, Job
<1>3. n.task = j.task /\ n.res = r
  BY <1>2 DEF Job
<1> HIDE DEF n
<1>4. Live /\ ~NotStarted /\ Live' /\ ~NotStarted'
  BY <1>1 DEF Live, NotStarted, Final, DrainStart, VerdictStart, EndInv
<1>5. /\ \A u \in Tasks : u # j.task => status'[u] = status[u]
      /\ status'[j.task] = FinishStatus(r)
  BY <1>1, <1>2
<1>6. Placed(j.task)'
  BY <1>1, <1>3 DEF Placed, InFlight
<1>7. \A u \in Tasks : Placed(u) => Placed(u)'
  BY <1>1, <1>3 DEF Placed, InFlight, Waiting
<1>8. /\ \A i \in jobs : i.task = j.task => i = j
      /\ cur.task # j.task
  BY <1>2 DEF DrainStart, VerdictStart, IndInv, InOnePlace, OneAttemptAtATime
<1>9. pc \in {"review", "budget", "approval", "integrate"} => cur.task \in Tasks
  BY DEF DrainStart, VerdictStart, IndInv, CurMatchesPc, Handlers, Job
<1>10. OkIsDone /\ WorkedOff
  BY <1>4 DEF DrainStart, DrainInv
<1>11. OkIsDone'
  <2>1. ASSUME NEW i \in jobs', i.res \in OkResults
        PROVE  status'[i.task] = "Done"
    <3>1. CASE i = n
      BY <1>3, <1>5, <2>1, <3>1 DEF FinishStatus
    <3>2. CASE i # n
      <4>1. i \in jobs /\ i # j
        BY <1>1, <2>1, <3>2
      <4> QED BY <1>2, <1>5, <1>8, <1>10, <2>1, <4>1 DEF OkIsDone, Job
    <3> QED BY <3>1, <3>2
  <2> QED BY <1>1, <1>5, <1>8, <1>9, <1>10, <2>1 DEF OkIsDone
<1>12. WorkedOff'
  BY <1>1, <1>10 DEF WorkedOff, Gone, HasReady, HasWork
<1> QED BY <1>1, <1>4, <1>5, <1>6, <1>7, <1>11, <1>12, DrainKept DEF Gone

LEMMA HandleDrain == DrainStart /\ Handle => DrainInv'
<1> SUFFICES ASSUME DrainStart, Handle PROVE DrainInv'
  OBVIOUS
<1> USE DEF loopVars, flagVars, envVars, askVars
<1>1. pc \in Handlers
  BY DEF Handlers, Handle, FailureRetried, FailureEscalated, ReviewMisconfigured,
     ReviewPassed, ReviewRetried, ReviewRejected, BudgetOk, BudgetTripped,
     ApprovalSkipped, ApprovalOpened, ApprovalGranted, ApprovalCancelled,
     Integrated, IntegrateConflict
<1>2. PICK t : t = cur.task
  OBVIOUS
<1>3. /\ Live /\ ~NotStarted /\ t \in Tasks /\ Placed(t)
      /\ status \in [Tasks -> Statuses] /\ ready \in [Tasks -> Nat]
      /\ ready[t] = 0 /\ t \notin blocked /\ \A j \in jobs : j.task # t
      /\ t \notin completed /\ cur # NoJob
  BY <1>1, <1>2, VerdictHandled DEF DrainStart
<1>4. OkIsDone /\ NoneForgotten /\ jobs \subseteq Job
  BY <1>3 DEF DrainStart, DrainInv, VerdictStart, IndInv, TypeOK
<1>5. CASE FailureRetried \/ ReviewRetried
  <2>1. /\ UNCHANGED <<run, completed, blocked, jobs, hadFailure, cancelled>>
        /\ cur' = NoJob /\ pc' = "top" /\ ready' = [ready EXCEPT ![t] = @ + 1]
        /\ \A u \in Tasks : u # t => status'[u] = status[u]
    BY <1>2, <1>3, <1>5 DEF FailureRetried, ReviewRetried, Requeue, SetStatus
  <2>2. Placed(t)' /\ \A u \in Tasks : Placed(u) => Placed(u)'
    BY <1>2, <1>3, <2>1 DEF Placed, Waiting, InFlight
  <2>3. OkIsDone'
    BY <1>3, <1>4, <2>1 DEF OkIsDone, Job
  <2>4. WorkedOff' /\ Live' /\ ~NotStarted'
    BY <2>1 DEF WorkedOff, Live, NotStarted
  <2> QED BY <1>3, <2>1, <2>2, <2>3, <2>4, DrainKept DEF Gone
<1>6. CASE FailureEscalated \/ ReviewMisconfigured \/ ReviewRejected \/ IntegrateConflict
  <2>1. /\ UNCHANGED <<run, completed, blocked, ready, cancelled>>
        /\ cur' = NoJob /\ hadFailure' = TRUE /\ status'[t] = "Failed"
        /\ \A u \in Tasks : u # t => status'[u] = status[u]
        /\ IF run.continueOnError THEN pc' = "top" /\ jobs' = jobs
           ELSE pc' = "finalize" /\ jobs' = {}
    BY <1>2, <1>3, <1>6
       DEF FailureEscalated, ReviewMisconfigured, ReviewRejected, IntegrateConflict,
           GiveUp, StopOrGoOn, SetStatus
  <2>2. OkIsDone' /\ Live' /\ ~NotStarted'
    BY <1>3, <1>4, <2>1 DEF OkIsDone, Job, Live, NotStarted
  <2>3. CASE ~run.continueOnError
    BY <2>1, <2>2, <2>3, DrainGone DEF Gone
  <2>4. CASE run.continueOnError
    <3>1. \A u \in Tasks : u # t => (Placed(u) => Placed(u)')
      BY <1>2, <2>1, <2>4 DEF Placed, Waiting, InFlight
    <3>2. WorkedOff'
      BY <2>1, <2>4 DEF WorkedOff
    <3> QED BY <1>3, <2>1, <2>2, <2>4, <3>1, <3>2, DrainKept DEF Gone
  <2> QED BY <2>3, <2>4
<1>7. CASE BudgetTripped
  <2>1. /\ UNCHANGED <<run, completed, blocked, ready, status, cancelled>>
        /\ hadFailure' = TRUE /\ pc = "budget"
        /\ IF run.continueOnError THEN pc' = "approval" /\ jobs' = jobs /\ cur' = cur
           ELSE pc' = "finalize" /\ jobs' = {} /\ cur' = NoJob
    BY <1>7 DEF BudgetTripped, StopOrGoOn
  <2>2. OkIsDone' /\ Live' /\ ~NotStarted'
    BY <1>4, <2>1 DEF OkIsDone, Live, NotStarted
  <2>3. CASE ~run.continueOnError
    BY <2>1, <2>2, <2>3, DrainGone DEF Gone
  <2>4. CASE run.continueOnError
    <3>1. \A u \in Tasks : Placed(u)' <=> Placed(u)
      BY <2>1, <2>4 DEF Placed, Waiting, InFlight
    <3>2. WorkedOff'
      BY <2>1, <2>4 DEF WorkedOff
    <3> QED BY <1>3, <2>1, <2>2, <2>4, <3>1, <3>2, DrainKept DEF Gone
  <2> QED BY <2>3, <2>4
<1>8. CASE ReviewPassed \/ BudgetOk \/ ApprovalSkipped
  <2>1. WorkedOff'
    BY <1>8 DEF ReviewPassed, BudgetOk, ApprovalSkipped, WorkedOff
  <2> QED BY <1>3, <1>8, <2>1, DrainQuiet
          DEF ReviewPassed, BudgetOk, ApprovalSkipped, Live, NotStarted
<1>9. CASE ApprovalOpened \/ ApprovalGranted
  <2>1. /\ UNCHANGED <<run, completed, blocked, ready, jobs, cur, hadFailure, cancelled>>
        /\ \/ pc' = "approve"
           \/ pc' = "integrate" /\ status'[t] = "Done"
        /\ \A u \in Tasks : u # t => status'[u] = status[u]
    BY <1>2, <1>3, <1>9 DEF ApprovalOpened, ApprovalGranted, SetStatus
  <2>2. \A u \in Tasks : Placed(u)' <=> Placed(u)
    BY <2>1 DEF Placed, InFlight, Waiting
  <2>3. OkIsDone'
    BY <1>2, <1>3, <1>4, <2>1 DEF OkIsDone, Job
  <2>4. WorkedOff' /\ Live' /\ ~NotStarted'
    BY <2>1 DEF WorkedOff, Live, NotStarted
  <2> QED BY <1>3, <2>1, <2>2, <2>3, <2>4, DrainKept DEF Gone
<1>10. CASE ApprovalCancelled
  BY <1>10, DrainCancelled DEF ApprovalCancelled
<1>11. CASE Integrated
  <2>1. /\ UNCHANGED <<run, status, jobs, blocked, hadFailure, cancelled>>
        /\ cur' = NoJob /\ pc = "integrate" /\ pc' = "top" /\ status[t] = "Done"
    BY <1>2, <1>4, <1>11 DEF Integrated, OkIsDone
  <2>2. /\ completed' = completed \cup {t}
        /\ ready' = [d \in Tasks |-> ready[d] + NewlyReady(t, d)]
    BY <1>2, <1>11, <2>1 DEF Integrated
  <2>3. run.need \in [Tasks -> [Tasks -> Nat]]
    BY RunsAssumption DEF DrainStart, VerdictStart, IndInv, TypeOK, RunType
  <2>4. \A d \in Tasks :
          /\ NewlyReady(t, d) \in Nat
          /\ t \in Deps(d) /\ Deps(d)' \subseteq completed' /\ d \notin completed'
               => NewlyReady(t, d) > 0
    <3>1. \A d \in Tasks : Deps(d)' = Deps(d)
      BY <2>1, SameRun
    <3> QED BY <1>3, <2>3, <3>1 DEF NewlyReady, AllDepsDone, Deps
  <2>5. \A u \in Tasks : /\ ready'[u] >= ready[u]
                         /\ NewlyReady(t, u) > 0 => ready'[u] > 0
    BY <1>3, <2>2, <2>4
  <2>6. \A u \in Tasks : Placed(u) => Placed(u)' \/ u = t
    BY <1>2, <1>3, <2>1, <2>2, <2>4 DEF Placed, InFlight, Waiting
  <2>7. ASSUME NEW u \in Tasks \ run.filtered, Deps(u) \subseteq completed', ~Gone,
               u \notin completed', status[u] # "Failed"
        PROVE  Placed(u)'
    <3>1. CASE t \in Deps(u)
      <4>1. Deps(u)' = Deps(u)
        BY <2>1, SameRun
      <4> QED BY <2>4, <2>5, <2>7, <3>1, <4>1 DEF Placed, Waiting
    <3>2. CASE t \notin Deps(u)
      BY <1>4, <2>2, <2>6, <2>7, <3>2 DEF NoneForgotten
    <3> QED BY <3>1, <3>2
  <2>8. NoneForgotten'
    BY <2>1, <2>7, SameRun DEF NoneForgotten, Gone
  <2>9. OkIsDone' /\ WorkedOff'
    BY <1>4, <2>1 DEF OkIsDone, WorkedOff
  <2> QED BY <2>1, <2>8, <2>9 DEF DrainInv
<1> QED BY <1>5, <1>6, <1>7, <1>8, <1>9, <1>10, <1>11 DEF Handle

LEMMA FinalizeDrain == DrainStart /\ Finalize => DrainInv'
<1> SUFFICES ASSUME DrainStart, Finalize PROVE DrainInv'
  OBVIOUS
<1> USE DEF loopVars, flagVars, envVars, askVars
<1>1. /\ pc = "finalize" /\ Live /\ ~NotStarted /\ jobs = {} /\ cur = NoJob
      /\ Accounted /\ MovedAreGrounded /\ NoneForgotten /\ WorkedOff
  BY DEF Finalize, Live, NotStarted, DrainStart, DrainInv, VerdictStart,
         VerdictInv, EndInv
<1>2. /\ UNCHANGED <<run, completed, hadFailure, cancelled>>
      /\ runStatus' = FinalRunStatus /\ pc' \in {"outcome", "ended"}
      /\ \A t \in Tasks : status'[t] = FinalStatus(t)
  BY DEF Finalize
<1>3. SUFFICES ASSUME ~Gone, ~cancelled PROVE Drained'
  BY <1>2 DEF DrainInv, Live, Gone, FinalRunStatus
<1>4. \A t \in Tasks : ~Placed(t)
  <2>1. ready \in [Tasks -> Nat]
    BY DEF DrainStart, VerdictStart, IndInv, TypeOK
  <2> QED BY <1>1, <1>3, <2>1, TasksAssumption
          DEF WorkedOff, HasWork, HasReady, Placed, InFlight, Waiting, NoJob
<1> DEFINE L == BlockedByFailure
<1>5. \A t \in Tasks :
        t \in L <=> /\ status[t] = "Pending"
                    /\ \E d \in Deps(t) : status[d] = "Failed" \/ d \in L
  BY BlameIsFixpoint
<1>6. \A t \in Tasks :
        status'[t] = IF status[t] \notin Unfinished \/ ~hadFailure THEN status[t]
                     ELSE IF t \in L THEN "Skipped" ELSE "Cancelled"
  BY <1>2, <1>3 DEF FinalStatus
<1>7. ~hadFailure => L = {}
  <2> SUFFICES ASSUME ~hadFailure PROVE L = {}
    OBVIOUS
  <2>1. \A t \in Tasks : status[t] # "Failed"
    BY <1>1, <1>3 DEF Accounted, Failing
  <2>2. BlameClosed({})
    BY <2>1 DEF BlameClosed, Deps
  <2> QED BY <2>2 DEF BlockedByFailure
<1> HIDE DEF L
<1>8. run.filtered \subseteq completed /\ completed \subseteq Tasks
  BY <1>1 DEF DrainStart, VerdictStart, IndInv, TypeOK, StartOfRun, Final
<1>9. \A t, d : d \in Deps(t) => d \in Tasks
  BY DEF Deps
<1> DEFINE U == {t \in Tasks : t \notin completed /\ status[t] # "Failed" /\ t \notin L}
<1>10. U = {}
  <2> SUFFICES ASSUME U # {} PROVE FALSE
    OBVIOUS
  <2>1. PICK m \in U : Deps(m) \cap U = {}
    BY DEF DrainStart, Acyclic
  <2>2. m \in Tasks \ run.filtered /\ m \notin completed /\ status[m] # "Failed"
        /\ m \notin L
    BY <1>8, <2>1
  <2>3. ~(Deps(m) \subseteq completed)
    BY <1>1, <1>3, <1>4, <2>2 DEF NoneForgotten
  <2>4. status[m] = "Pending"
    BY <1>1, <2>2, <2>3 DEF MovedAreGrounded
  <2>5. PICK d \in Deps(m) : d \notin completed
    BY <2>3
  <2>6. status[d] = "Failed" \/ d \in L
    BY <1>9, <2>1, <2>5
  <2> QED BY <1>5, <2>2, <2>4, <2>6
<1>11. \A t \in Tasks : t \in L => Blocking(t)' /\ status'[t] = "Skipped"
  <2>1. \A t \in Tasks : status[t] = "Pending" => t \notin run.filtered
    <3>1. \A t \in completed : status[t] = ReleasedStatus(t)
      BY DEF DrainStart, VerdictStart, IndInv, ReleasedIsDurable
    <3> QED BY <1>8, <3>1 DEF ReleasedStatus
  <2> QED BY <1>2, <1>5, <1>6, <1>7, <2>1 DEF Blocking, Unfinished
<1>12. \A t \in Tasks : status[t] = "Failed" => Blocking(t)' /\ status'[t] = "Failed"
  BY <1>6 DEF Blocking, Unfinished
<1>13. \A t \in Tasks : t \in L => Blamed(t)'
  <2> SUFFICES ASSUME NEW t \in Tasks, t \in L PROVE Blamed(t)'
    OBVIOUS
  <2>1. PICK d \in Deps(t) : status[d] = "Failed" \/ d \in L
    BY <1>5
  <2>2. Deps(t)' = Deps(t)
    BY <1>2, SameRun
  <2> QED BY <1>9, <1>11, <1>12, <2>1, <2>2 DEF Blamed
<1> QED BY <1>2, <1>10, <1>12, <1>13 DEF Drained

LEMMA DrainStep == DrainStart /\ [Next]_vars => DrainInv'
<1> SUFFICES ASSUME DrainStart, [Next]_vars PROVE DrainInv'
  OBVIOUS
<1> USE DEF loopVars, flagVars, envVars, askVars
<1>1. DrainInv
  BY DEF DrainStart
<1>2. CASE Start \/ Top \/ Dispatch
  BY <1>2, StartDrain, TopDrain, DispatchDrain
<1>3. CASE Poll \/ Join \/ Attempt
  BY <1>3, PollDrain, JoinDrain, AttemptDrain
<1>4. CASE Handle \/ Finalize
  BY <1>4, HandleDrain, FinalizeDrain
<1>5. CASE Crash
  BY <1>5 DEF Crash, DrainInv, Live
<1>6. CASE \/ OutcomeApproved \/ OutcomeCancelled \/ StaleMarkerDropped \/ Human
           \/ RequestCancel \/ Terminated
           \/ \E t \in Tasks : MailSent(t) \/ MailResolved(t)
           \/ UNCHANGED vars
  <2>1. /\ UNCHANGED <<run, cur, status, jobs, completed, hadFailure, cancelled,
                       ready, blocked>>
        /\ \/ UNCHANGED <<pc, runStatus>>
           \/ /\ pc = "outcome" /\ pc' = "ended"
              /\ runStatus' \in {runStatus, "Cancelled"}
    BY <1>6 DEF OutcomeApproved, OutcomeCancelled, StaleMarkerDropped, Human,
                Approve, ApproveElsewhere, TakenElsewhere, RequestCancel, Terminated,
                MailSent, MailResolved, vars
  <2>2. Drained' <=> Drained
    BY <2>1 DEF Drained, Blamed, Blocking, Deps
  <2>3. CASE UNCHANGED <<pc, runStatus>>
    <3>1. \A t \in Tasks : Placed(t)' <=> Placed(t)
      BY <2>1 DEF Placed, InFlight, Waiting
    <3>2. Gone' <=> Gone
      BY <2>1 DEF Gone
    <3>3. NoneForgotten => NoneForgotten'
      BY <2>1, <3>1, <3>2, SameRun DEF NoneForgotten
    <3>4. (OkIsDone => OkIsDone') /\ (WorkedOff => WorkedOff')
      BY <2>1, <2>3, <3>2 DEF OkIsDone, WorkedOff, HasReady, HasWork
    <3> QED BY <1>1, <2>1, <2>2, <2>3, <3>3, <3>4 DEF DrainInv, NotStarted, Live
  <2>4. CASE pc = "outcome" /\ pc' = "ended" /\ runStatus' \in {runStatus, "Cancelled"}
    BY <1>1, <2>1, <2>2, <2>4 DEF DrainInv, Live
  <2> QED BY <2>1, <2>3, <2>4
<1> QED BY <1>2, <1>3, <1>4, <1>5, <1>6 DEF Next, Scheduler, Closing, World

Fit == NoRepeats /\ SkipsUpstreamClosed /\ Acyclic
EndOfRunInv ==
  IndInv /\ EndInv /\ (NoRepeats => VerdictInv) /\ (Fit => DrainInv)

LEMMA EndOfRunHolds == Spec => []EndOfRunInv
<1> DEFINE Inv == EndOfRunInv
<1> USE DEF EndOfRunInv, Fit
<1>1. Init => Inv
  <2> SUFFICES ASSUME Init PROVE Inv
    OBVIOUS
  <2>1. IndInv
    BY InitTypes, InitGraph DEF TypeInv, IndInv, GraphInv, Places, Records
  <2>2. EndInv
    BY DEF Init, EndInv
  <2>3. /\ NotStarted /\ ~hadFailure /\ \A t \in Tasks : status[t] = "Pending"
        /\ pc \in {"planGate", "setup"}
    BY DEF Init, NotStarted
  <2>4. VerdictInv
    BY <2>3 DEF VerdictInv, NotStarted, Accounted, FailureHasCulprit,
                MovedAreGrounded, VerdictRead
  <2>5. DrainInv
    BY <2>3 DEF DrainInv
  <2> QED BY <2>1, <2>2, <2>4, <2>5
<1>2. Inv /\ [Next]_vars => Inv'
  <2> SUFFICES ASSUME Inv, [Next]_vars PROVE Inv'
    OBVIOUS
  <2>1. IndInv' /\ EndInv'
    BY IndInvStep, EndStep DEF IndInv, TypeInv
  <2>2. run' = run
    BY WhoReleases
  <2>3. NoRepeats' <=> NoRepeats
    BY <2>2, SameRun
  <2>4. Acyclic' <=> Acyclic
    BY <2>2 DEF Acyclic, Deps
  <2>5. SkipsUpstreamClosed' <=> SkipsUpstreamClosed
    BY <2>2 DEF SkipsUpstreamClosed, Deps
  <2>6. NoRepeats => VerdictInv'
    BY VerdictStep DEF VerdictStart
  <2>7. Fit => DrainInv'
    BY DrainStep DEF DrainStart, VerdictStart
  <2> QED BY <2>1, <2>3, <2>4, <2>5, <2>6, <2>7
<1> HIDE DEF EndOfRunInv
<1> QED BY <1>1, <1>2, PTL DEF Spec

(* An acyclic plan that names no dependency twice is drained by a run that *)
(* is not stopped: every task is released, has failed, or has a producer   *)
(* that failed or was skipped for it.                                      *)
THEOREM TheDagIsDrained == Spec => [](NoRepeats /\ Acyclic => DrainsTheDag)
<1>1. EndOfRunInv => (NoRepeats /\ Acyclic => DrainsTheDag)
  BY DEF EndOfRunInv, Fit, DrainInv, DrainsTheDag
<1> QED BY <1>1, EndOfRunHolds, PTL

(* For acyclic plans that name no dependency twice the verdict of a        *)
(* finished run fits its tasks: Done hides neither a failure nor, if the   *)
(* skips allow it, a task that was not released; Failed names a culprit (or*)
(* the budget); Skipped is said of a task exactly when a producer of it    *)
(* failed.                                                                 *)
THEOREM VerdictHolds == Spec => [](NoRepeats /\ Acyclic => VerdictFits)
<1>1. ASSUME EndOfRunInv, NoRepeats, Acyclic PROVE VerdictFits
  <2>1. VerdictRead
    BY <1>1 DEF EndOfRunInv, VerdictInv
  <2>2. ASSUME pc = "ended", runStatus = "Done", SkipsUpstreamClosed, NEW t \in Tasks
        PROVE  status[t] = ReleasedStatus(t)
    <3>1. NothingAmiss
      BY <2>1, <2>2 DEF VerdictRead
    <3>2. Drained
      BY <1>1, <2>2, <3>1 DEF EndOfRunInv, Fit, DrainInv, NothingAmiss
    <3>3. \A d \in Tasks : ~Blocking(d)
      BY <3>1 DEF NothingAmiss, Blocking
    <3>4. t \in completed
      BY <2>2, <3>1, <3>2, <3>3 DEF Drained, Blamed, NothingAmiss
    <3> QED BY <1>1, <3>4 DEF EndOfRunInv, IndInv, ReleasedIsDurable
  <2>3. pc = "ended" /\ runStatus = "Done" => \A t \in Tasks : status[t] # "Failed"
    BY <2>1 DEF VerdictRead, NothingAmiss
  <2> QED BY <2>1, <2>2, <2>3 DEF VerdictFits, VerdictRead
<1>2. EndOfRunInv => (NoRepeats /\ Acyclic => VerdictFits)
  BY <1>1
<1> QED BY <1>2, EndOfRunHolds, PTL

------------------------------------------------------------------------------
(* How late an attempt can start.  FailFast does not hold: a setup failure *)
(* leaves the parked tasks alone.  What starts after a failure that was to *)
(* stop the run is behind one of those, and so behind mail.                *)

MailClosed(S) ==
  \A t \in Tasks : mail[t] # "none" \/ (\E d \in Deps(t) : d \in S) => t \in S
BehindMail == {t \in Tasks : \A S \in SUBSET Tasks : MailClosed(S) => t \in S}

Halted  == hadFailure /\ ~run.continueOnError
Looping == pc \in {"top", "dispatch", "poll", "join"} \cup Handlers
LateInv ==
  /\ NotStarted => ~hadFailure
  /\ \A t \in blocked : mail[t] # "none"
  /\ Halted /\ Looping => \A t \in Tasks : Placed(t) => t \in BehindMail

LEMMA MailStays ==
  ASSUME TypeOK, [Next]_vars, NEW t \in Tasks, mail[t] # "none"
  PROVE  mail'[t] # "none"
<1> USE DEF vars, loopVars, flagVars, envVars, askVars
<1>1. CASE \E u \in Tasks : MailSent(u) \/ MailResolved(u)
  BY <1>1 DEF MailSent, MailResolved, TypeOK
<1>2. CASE mail' = mail
  BY <1>2
<1>3. CASE Start \/ Top \/ Dispatch \/ Poll \/ Join
  BY <1>2, <1>3
     DEF Start, PlanGateApproved, PlanGateCancelled, Setup, Top, LoopExit,
         LoopCancelled, Readmit, Dispatch, DispatchGated, DispatchSpawned,
         DispatchFailed, DispatchDone, Poll, PollNotStalled, PollCancelled,
         PollSlept, PollTimedOut, Join, JoinNone, JoinCancelled, JoinOne
<1>4. CASE Handle
  BY <1>2, <1>4
     DEF Handle, FailureRetried, FailureEscalated, ReviewMisconfigured,
         ReviewPassed, ReviewRetried, ReviewRejected, BudgetOk, BudgetTripped,
         ApprovalSkipped, ApprovalOpened, ApprovalGranted, ApprovalCancelled,
         Integrated, IntegrateConflict
<1>5. CASE Closing \/ StaleMarkerDropped \/ Attempt \/ Human \/ RequestCancel \/ Crash
           \/ Terminated \/ UNCHANGED vars
  BY <1>2, <1>5
     DEF Closing, Finalize, OutcomeApproved, OutcomeCancelled, StaleMarkerDropped,
         Attempt, Finish, Human, Approve, ApproveElsewhere,
         TakenElsewhere, RequestCancel, Crash, Terminated
<1> QED BY <1>1, <1>3, <1>4, <1>5 DEF Next, Scheduler, World

(* What is behind mail stays there, and so does what depends on it.        *)
LEMMA BehindMailGrows ==
  ASSUME run' = run, \A t \in Tasks : mail[t] # "none" => mail'[t] # "none"
  PROVE  /\ BehindMail \subseteq BehindMail'
         /\ \A t \in Tasks : mail'[t] # "none" => t \in BehindMail'
         /\ \A t, d \in Tasks : d \in Deps(t) /\ d \in BehindMail => t \in BehindMail'
<1>1. \A S \in SUBSET Tasks : MailClosed(S)' => MailClosed(S)
  BY SameRun DEF MailClosed
<1>2. BehindMail \subseteq BehindMail'
  BY <1>1 DEF BehindMail
<1>3. \A t \in Tasks : mail'[t] # "none" => t \in BehindMail'
  BY DEF BehindMail, MailClosed
<1>4. ASSUME NEW t \in Tasks, NEW d \in Tasks, d \in Deps(t), d \in BehindMail
      PROVE  t \in BehindMail'
  <2> SUFFICES ASSUME NEW S \in SUBSET Tasks, MailClosed(S)' PROVE t \in S
    BY DEF BehindMail
  <2>1. d \in S /\ MailClosed(S)
    BY <1>1, <1>4 DEF BehindMail
  <2> QED BY <1>4, <2>1 DEF MailClosed
<1> QED BY <1>2, <1>3, <1>4

(* Three kinds of step: the run is not stopped after it, or it was stopped *)
(* before and only tasks behind placed ones are placed, or it stops with   *)
(* nothing left but the parked tasks.                                      *)
LEMMA LateKept ==
  ASSUME LateInv, run' = run, Looping,
         \A t \in Tasks : mail[t] # "none" => mail'[t] # "none",
         ~NotStarted', blocked' \subseteq Tasks,
         \A t \in blocked' : t \in blocked \/ mail[t] # "none",
         \/ ~(Halted' /\ Looping')
         \/ Halted /\ \A t \in Tasks : Placed(t)' => Placed(t) \/ \E d \in Deps(t) : Placed(d)
         \/ \A t \in Tasks : Placed(t)' => t \in blocked'
  PROVE  LateInv'
<1>1. \A t \in blocked' : mail'[t] # "none"
  BY DEF LateInv
<1>2. \A t \in Tasks : Deps(t) \subseteq Tasks
  BY DEF Deps
<1>3. Halted' /\ Looping' => \A t \in Tasks : Placed(t)' => t \in BehindMail'
  BY <1>1, <1>2, BehindMailGrows DEF LateInv
<1> QED BY <1>1, <1>3 DEF LateInv

LEMMA StopIsHalt ==
  ASSUME NEW p, StopOrGoOn(p), run' = run
  PROVE  ~(Halted' /\ Looping')
BY DEF StopOrGoOn, Halted, Looping, Handlers

LEMMA LateStep ==
  ASSUME TypeInv, EndInv, LateInv, [Next]_vars
  PROVE  LateInv'
<1> USE DEF vars, loopVars, flagVars, envVars, askVars
<1>1. /\ run' = run /\ TypeInv' /\ blocked' \subseteq Tasks
      /\ \A t \in Tasks : mail[t] # "none" => mail'[t] # "none"
  BY WhoReleases, TypeStep, MailStays DEF TypeInv, TypeOK
<1>2. /\ ready \in [Tasks -> Nat] /\ blocked \subseteq Tasks /\ NoTask \notin Tasks
      /\ NoJob.task = NoTask
  BY TasksAssumption DEF TypeInv, TypeOK, NoJob
<1>3. pc \notin Handlers => cur = NoJob
  BY DEF TypeInv, CurMatchesPc
<1>4. CASE Start
  BY <1>4 DEF Start, PlanGateApproved, PlanGateCancelled, Setup, LateInv, NotStarted,
              Halted, Looping, Handlers
<1>5. CASE Top
  <2>1. pc = "top" /\ Looping /\ ~NotStarted'
    BY <1>5 DEF Top, LoopExit, LoopCancelled, Readmit, CancelLoop, Looping, NotStarted
  <2>2. CASE LoopExit \/ LoopCancelled
    BY <1>1, <2>1, <2>2, LateKept DEF LoopExit, LoopCancelled, CancelLoop, Looping, Handlers
  <2>3. CASE Readmit
    <3>1. \A t \in Tasks : Placed(t)' => Placed(t)
      BY <1>2, <2>3 DEF Readmit, Placed, InFlight, Waiting
    <3>2. blocked' \subseteq blocked /\ hadFailure' = hadFailure
      BY <2>3 DEF Readmit
    <3>3. Halted' => Halted
      BY <1>1, <3>2 DEF Halted
    <3> QED BY <1>1, <2>1, <3>1, <3>2, <3>3, LateKept
  <2> QED BY <1>5, <2>2, <2>3 DEF Top
<1>6. CASE Dispatch
  <2>1. pc = "dispatch" /\ Looping /\ ~NotStarted'
    BY <1>6 DEF Dispatch, DispatchGated, DispatchSpawned, DispatchFailed, DispatchDone, Looping,
                NotStarted
  <2>2. CASE \E t \in Tasks : DispatchGated(t)
    <3>1. PICK t \in Tasks : DispatchGated(t)
      BY <2>2
    <3>2. \A u \in Tasks : Placed(u)' => Placed(u)
      BY <1>2, <3>1 DEF DispatchGated, Placed, InFlight, Waiting, Popped
    <3>3. blocked' = blocked \cup {t} /\ mail[t] # "none" /\ hadFailure' = hadFailure
      BY <3>1 DEF DispatchGated
    <3>4. Halted' => Halted
      BY <1>1, <3>3 DEF Halted
    <3> QED BY <1>1, <2>1, <3>2, <3>3, <3>4, LateKept
  <2>3. CASE \E t \in Tasks : DispatchSpawned(t)
    <3>1. PICK t \in Tasks : DispatchSpawned(t)
      BY <2>3
    <3>2. \A u \in Tasks : Placed(u)' => Placed(u)
      BY <1>2, <3>1 DEF DispatchSpawned, Placed, InFlight, Waiting, Popped
    <3>3. blocked' = blocked /\ hadFailure' = hadFailure
      BY <3>1 DEF DispatchSpawned
    <3>4. Halted' => Halted
      BY <1>1, <3>3 DEF Halted
    <3> QED BY <1>1, <2>1, <3>2, <3>3, <3>4, LateKept
  <2>4. CASE \E t \in Tasks : DispatchFailed(t)
    <3>1. PICK t \in Tasks : DispatchFailed(t)
      BY <2>4
    <3>2. blocked' = blocked
      BY <3>1 DEF DispatchFailed
    <3>3. CASE run.continueOnError
      <4>1. ~Halted'
        BY <1>1, <3>3 DEF Halted
      <4> QED BY <1>1, <2>1, <3>2, <4>1, LateKept
    <3>4. CASE ~run.continueOnError
      <4>1. \A u \in Tasks : Placed(u)' => u \in blocked'
        BY <1>3, <1>2, <2>1, <3>1, <3>2, <3>4
           DEF DispatchFailed, Placed, InFlight, Waiting, NothingReady, Handlers
      <4> QED BY <1>1, <2>1, <3>2, <4>1, LateKept
    <3> QED BY <3>3, <3>4
  <2>5. CASE DispatchDone
    <3>1. \A u \in Tasks : Placed(u)' => Placed(u)
      BY <2>5 DEF DispatchDone, Placed, InFlight, Waiting
    <3>2. blocked' = blocked /\ hadFailure' = hadFailure
      BY <2>5 DEF DispatchDone
    <3>3. Halted' => Halted
      BY <1>1, <3>2 DEF Halted
    <3> QED BY <1>1, <2>1, <3>1, <3>2, <3>3, LateKept
  <2> QED BY <1>6, <2>2, <2>3, <2>4, <2>5 DEF Dispatch
<1>7. CASE Poll \/ JoinNone \/ JoinCancelled
  <2>1. Looping /\ ~NotStarted'
    BY <1>7 DEF Poll, PollNotStalled, PollCancelled, PollSlept, PollTimedOut, JoinNone,
                JoinCancelled, CancelLoop, Looping, NotStarted
  <2>2. CASE PollCancelled \/ PollTimedOut \/ JoinNone \/ JoinCancelled
    <3>1. ~Looping' /\ blocked' \subseteq blocked
      BY <2>2 DEF PollCancelled, PollTimedOut, JoinNone, JoinCancelled, CancelLoop, Looping,
                  Handlers
    <3> QED BY <1>1, <2>1, <3>1, LateKept
  <2>3. CASE PollNotStalled \/ PollSlept
    <3>1. UNCHANGED <<ready, blocked, jobs, cur, hadFailure>>
      BY <2>3 DEF PollNotStalled, PollSlept
    <3>2. (\A u \in Tasks : Placed(u)' => Placed(u)) /\ (Halted' => Halted)
      BY <1>1, <3>1 DEF Placed, InFlight, Waiting, Halted
    <3> QED BY <1>1, <2>1, <3>1, <3>2, LateKept
  <2> QED BY <1>7, <2>2, <2>3 DEF Poll
<1>8. CASE \E j \in jobs : JoinOne(j)
  <2>1. PICK j \in jobs : JoinOne(j)
    BY <1>8
  <2>2. Looping /\ ~NotStarted' /\ UNCHANGED <<ready, blocked, hadFailure>>
    BY <2>1 DEF JoinOne, Looping, NotStarted
  <2>3. \A u \in Tasks : Placed(u)' => Placed(u)
    BY <2>1, <2>2 DEF JoinOne, Placed, InFlight, Waiting
  <2>4. Halted' => Halted
    BY <1>1, <2>2 DEF Halted
  <2> QED BY <1>1, <2>2, <2>3, <2>4, LateKept
<1>9. CASE Handle
  <2>1. pc \in Handlers /\ Looping /\ ~NotStarted' /\ blocked' = blocked
    BY <1>9 DEF Handlers, Looping, NotStarted, Handle, FailureRetried, FailureEscalated,
       ReviewMisconfigured, ReviewPassed, ReviewRetried, ReviewRejected, BudgetOk,
       BudgetTripped, ApprovalSkipped, ApprovalOpened, ApprovalGranted,
       ApprovalCancelled, Integrated, IntegrateConflict, Requeue, GiveUp, StopOrGoOn,
       CancelLoop
  <2>2. cur.task \in Tasks
    BY <2>1 DEF TypeInv, CurMatchesPc, Job
  <2>3. CASE FailureEscalated \/ ReviewMisconfigured \/ ReviewRejected \/ IntegrateConflict
             \/ BudgetTripped
    <3>1. PICK p \in {"top", "approval"} : StopOrGoOn(p)
      BY <2>3 DEF FailureEscalated, ReviewMisconfigured, ReviewRejected, IntegrateConflict,
                  BudgetTripped, GiveUp
    <3>2. ~(Halted' /\ Looping')
      BY <1>1, <3>1, StopIsHalt
    <3> QED BY <1>1, <2>1, <3>2, LateKept
  <2>4. CASE ApprovalCancelled
    <3>1. ~Looping'
      BY <2>4 DEF ApprovalCancelled, CancelLoop, Looping, Handlers
    <3> QED BY <1>1, <2>1, <3>1, LateKept
  <2>5. CASE FailureRetried \/ ReviewRetried
    <3>1. Requeue(cur.task) /\ hadFailure' = hadFailure
      BY <2>5 DEF FailureRetried, ReviewRetried, Requeue
    <3>2. \A u \in Tasks : Placed(u)' => Placed(u)
      BY <1>2, <2>1, <2>2, <3>1 DEF Requeue, Placed, InFlight, Waiting
    <3>3. Halted' => Halted
      BY <1>1, <3>1 DEF Halted
    <3> QED BY <1>1, <2>1, <3>2, <3>3, LateKept
  <2>6. CASE ReviewPassed \/ BudgetOk \/ ApprovalSkipped \/ ApprovalOpened \/ ApprovalGranted
    <3>1. UNCHANGED <<ready, jobs, cur, hadFailure>>
      BY <2>6 DEF ReviewPassed, BudgetOk, ApprovalSkipped, ApprovalOpened, ApprovalGranted
    <3>2. (\A u \in Tasks : Placed(u)' => Placed(u)) /\ (Halted' => Halted)
      BY <1>1, <2>1, <3>1 DEF Placed, InFlight, Waiting, Halted
    <3> QED BY <1>1, <2>1, <3>2, LateKept
  <2>7. CASE Integrated
    <3>1. jobs' = jobs /\ cur' = NoJob /\ hadFailure' = hadFailure
      BY <2>7 DEF Integrated
    <3>2. \A u \in Tasks : ready'[u] > 0 => ready[u] > 0 \/ run.need[u][cur.task] > 0
      <4>1. CASE ready' = [u \in Tasks |-> ready[u] + NewlyReady(cur.task, u)]
        <5>1. SUFFICES ASSUME NEW u \in Tasks, ready'[u] > 0, ~(run.need[u][cur.task] > 0)
                       PROVE  ready[u] > 0
          OBVIOUS
        <5>2. run.need[u][cur.task] \in Nat /\ ready[u] \in Nat
          BY <1>2, <2>2, RunsAssumption DEF TypeInv, TypeOK, RunType
        <5>3. NewlyReady(cur.task, u) = 0
          BY <5>1, <5>2 DEF NewlyReady
        <5>4. ready'[u] = ready[u] + NewlyReady(cur.task, u)
          BY <4>1
        <5> QED BY <5>1, <5>2, <5>3, <5>4
      <4>2. CASE ready' = ready
        BY <4>2
      <4> QED BY <2>7, <4>1, <4>2 DEF Integrated
    <3>3. \A u \in Tasks : Placed(u)' => Placed(u) \/ cur.task \in Deps(u)
      BY <1>2, <2>1, <2>2, <3>1, <3>2 DEF Placed, InFlight, Waiting, Deps
    <3>4. Placed(cur.task) /\ (Halted' => Halted)
      BY <1>1, <3>1 DEF Placed, InFlight, Halted
    <3> QED BY <1>1, <2>1, <3>3, <3>4, LateKept
  <2> QED BY <1>9, <2>3, <2>4, <2>5, <2>6, <2>7 DEF Handle
<1>10. CASE Attempt
  <2>1. PICK j \in jobs, r \in Results : Finish(j, r)
    BY <1>10 DEF Attempt
  <2>2. /\ jobs' = (jobs \ {j}) \cup {[j EXCEPT !.res = r]} /\ j \in Job
        /\ UNCHANGED <<pc, run, cur, ready, blocked, hadFailure, mail>>
    BY <2>1 DEF Finish, TypeInv, TypeOK
  <2>3. [j EXCEPT !.res = r].task = j.task
    BY <2>2 DEF Job
  <2>4. \A u \in Tasks : Placed(u)' => Placed(u)
    BY <2>2, <2>3 DEF Placed, InFlight, Waiting
  <2> QED BY <1>1, <2>2, <2>4, BehindMailGrows DEF LateInv, Halted, Looping, NotStarted
<1>11. CASE Closing
  BY <1>11 DEF Closing, Finalize, OutcomeApproved, OutcomeCancelled, LateInv, NotStarted,
              Looping, Handlers
<1>12. CASE StaleMarkerDropped \/ World \/ Terminated \/ UNCHANGED vars
  <2>1. \/ UNCHANGED <<pc, run, cur, jobs, ready, blocked, hadFailure>>
        \/ pc' = "crashed" /\ blocked' = blocked
    BY <1>12 DEF StaleMarkerDropped, World, Human, Approve, ApproveElsewhere,
                 TakenElsewhere, RequestCancel, MailSent,
                MailResolved, Crash, Terminated
  <2>2. CASE UNCHANGED <<pc, run, cur, jobs, ready, blocked, hadFailure>>
    <3>1. \A u \in Tasks : Placed(u)' => Placed(u)
      BY <2>2 DEF Placed, InFlight, Waiting
    <3> QED BY <1>1, <1>2, <2>2, <3>1, BehindMailGrows DEF LateInv, Halted, Looping, NotStarted
  <2>3. CASE pc' = "crashed" /\ blocked' = blocked
    BY <1>1, <1>2, <2>3 DEF LateInv, Looping, Handlers, NotStarted
  <2> QED BY <2>1, <2>2, <2>3
<1> QED BY <1>4, <1>5, <1>6, <1>7, <1>8, <1>9, <1>10, <1>11, <1>12 DEF Next, Scheduler, Join

(* After a failure that stops the run (no --continue-on-error) an attempt  *)
(* starts only for a task that blocking mail was sent to in this run, or   *)
(* that depends on such a task: this is how far fail_task_inline and the   *)
(* parked tasks it forgets can be from the promise to abort the run, and a *)
(* run without blocking mail keeps it.                                     *)
THEOREM LateStartsAreBehindMail ==
  Spec => [][Halted => \A t \in Tasks \ BehindMail : spawned'[t] = spawned[t]]_vars
<1> DEFINE Inv == TypeInv /\ EndInv /\ LateInv
           Late == Halted => \A t \in Tasks \ BehindMail : spawned'[t] = spawned[t]
<1>1. Init => Inv
  BY InitTypes DEF Init, EndInv, LateInv, Halted, Looping, NotStarted, Handlers
<1>2. Inv /\ [Next]_vars => Inv'
  BY TypeStep, EndStep, LateStep
<1>3. Inv /\ [Next]_vars => [Late]_vars
  <2> SUFFICES ASSUME Inv, [Next]_vars, Halted, NEW t \in Tasks \ BehindMail,
                      spawned'[t] # spawned[t]
               PROVE  FALSE
    OBVIOUS
  <2>1. PICK u \in Tasks : DispatchSpawned(u)
    BY WhoSpawns
  <2>2. u = t
    BY <2>1 DEF DispatchSpawned, TypeInv, TypeOK
  <2>3. Looping /\ Placed(t)
    BY <2>1, <2>2 DEF DispatchSpawned, Looping, Placed, Waiting
  <2> QED BY <2>3 DEF LateInv
<1> QED BY <1>1, <1>2, <1>3, PTL DEF Spec

------------------------------------------------------------------------------
(* What is Done behind a gate.  GatedDoneWasReleased does not hold: Done is*)
(* written before the gate opens.  A run that is not stopped joins every   *)
(* attempt, and so opens the gate of every task it records as Done.        *)

InHand(t) ==
  \/ \E j \in jobs : j.task = t /\ j.res \in OkResults
  \/ cur.task = t /\ pc \in {"review", "budget", "approval"}
GatedInv ==
  ~Gone /\ pc # "crashed" =>
    \A t \in run.gated : status[t] = "Done" => Vouched(t) \/ InHand(t)

(* A step that finishes no attempt and lets none out of hand.              *)
LEMMA GatedKept ==
  ASSUME GatedInv, run' = run, Gone => Gone', \A k : Vouched(k) => Vouched(k)', pc # "crashed",
         \A t \in run.gated : status'[t] = "Done" => status[t] = "Done" /\ (InHand(t) => InHand(t)')
  PROVE  GatedInv'
BY DEF GatedInv

LEMMA GatedGone ==
  ASSUME Gone' PROVE GatedInv'
BY DEF GatedInv

LEMMA GatedStep ==
  ASSUME TypeInv, GateInv, GatedInv, [Next]_vars
  PROVE  GatedInv'
<1> USE DEF vars, loopVars, flagVars, envVars, askVars
<1>1. run' = run /\ (\A k : Vouched(k) => Vouched(k)') /\ run.gated \subseteq Tasks
  BY WhoReleases, RunsAssumption DEF TypeInv, TypeOK, RunType, Vouched
<1>2. status \in [Tasks -> Statuses]
  BY DEF TypeInv, TypeOK
<1>3. CASE Start
  <2>1. UNCHANGED <<jobs, cur, hadFailure, cancelled>> /\ pc # "crashed"
        /\ pc \notin {"review", "budget", "approval"}
    BY <1>3 DEF Start, PlanGateApproved, PlanGateCancelled, Setup
  <2>2. \A t \in Tasks : status'[t] = "Done" => status[t] = "Done"
    BY <1>2, <1>3 DEF Start, PlanGateApproved, PlanGateCancelled, Setup
  <2> QED BY <1>1, <2>1, <2>2, GatedKept DEF InHand, Gone
<1>4. CASE LoopExit \/ Readmit \/ DispatchDone \/ PollNotStalled \/ PollSlept \/ JoinNone
           \/ PollTimedOut
  <2>1. UNCHANGED <<jobs, cur, cancelled>> /\ pc # "crashed" /\ (hadFailure => hadFailure')
        /\ pc \notin {"review", "budget", "approval"}
    BY <1>4 DEF LoopExit, Readmit, DispatchDone, PollNotStalled, PollSlept, JoinNone, PollTimedOut
  <2>2. \A t \in Tasks : status'[t] = "Done" => status[t] = "Done"
    BY <1>2, <1>4 DEF LoopExit, Readmit, DispatchDone, PollNotStalled, PollSlept, JoinNone, PollTimedOut
  <2> QED BY <1>1, <2>1, <2>2, GatedKept DEF InHand, Gone
<1>5. CASE LoopCancelled \/ PollCancelled \/ JoinCancelled
  <2>1. Gone'
    BY <1>5 DEF LoopCancelled, PollCancelled, JoinCancelled, CancelLoop, Gone
  <2> QED BY <2>1, GatedGone
<1>6. CASE \E t \in Tasks : DispatchGated(t) \/ DispatchSpawned(t)
  <2>1. PICK t \in Tasks : DispatchGated(t) \/ DispatchSpawned(t)
    BY <1>6
  <2>2. UNCHANGED <<cur, cancelled, hadFailure>> /\ pc = "dispatch" /\ jobs \subseteq jobs'
    BY <2>1 DEF DispatchGated, DispatchSpawned
  <2>3. \A u \in Tasks : status'[u] = "Done" => status[u] = "Done"
    BY <1>2, <2>1 DEF DispatchGated, DispatchSpawned, SetStatus
  <2> QED BY <1>1, <2>2, <2>3, GatedKept DEF InHand, Gone
<1>7. CASE \E t \in Tasks : DispatchFailed(t)
  <2>1. PICK t \in Tasks : DispatchFailed(t)
    BY <1>7
  <2>2. CASE ~run.continueOnError
    <3>1. Gone'
      BY <1>1, <2>1, <2>2 DEF DispatchFailed, Gone
    <3> QED BY <3>1, GatedGone
  <2>3. CASE run.continueOnError
    <3>1. UNCHANGED <<cur, cancelled, jobs>> /\ hadFailure' = TRUE /\ pc = "dispatch"
      BY <2>1, <2>3 DEF DispatchFailed
    <3>2. \A u \in Tasks : status'[u] = "Done" => status[u] = "Done"
      BY <1>2, <2>1 DEF DispatchFailed, SetStatus
    <3> QED BY <1>1, <3>1, <3>2, GatedKept DEF InHand, Gone
  <2> QED BY <2>2, <2>3
<1>8. CASE \E j \in jobs : JoinOne(j)
  <2>1. PICK j \in jobs : JoinOne(j)
    BY <1>8
  <2>2. /\ pc = "join" /\ UNCHANGED <<status, hadFailure, cancelled>>
        /\ jobs' = jobs \ {j} /\ cur' = j
        /\ j.res \in OkResults => pc' = "review"
    BY <2>1 DEF JoinOne
  <2>3. \A t \in Tasks : InHand(t) => InHand(t)'
    BY <2>2 DEF InHand
  <2> QED BY <1>1, <2>2, <2>3, GatedKept DEF Gone
<1>9. CASE Handle
  <2>1. pc \in Handlers /\ pc # "crashed" /\ cur.task \in Tasks
    <3>1. pc \in Handlers /\ pc # "crashed"
      BY <1>9 DEF Handlers, Handle, FailureRetried, FailureEscalated,
       ReviewMisconfigured, ReviewPassed, ReviewRetried, ReviewRejected, BudgetOk,
       BudgetTripped, ApprovalSkipped, ApprovalOpened, ApprovalGranted,
       ApprovalCancelled, Integrated, IntegrateConflict
    <3> QED BY <3>1 DEF TypeInv, CurMatchesPc, Job
  <2>2. CASE FailureRetried \/ ReviewRetried
    <3>1. Requeue(cur.task) /\ cancelled' = cancelled
      BY <2>2 DEF FailureRetried, ReviewRetried
    <3>2. /\ UNCHANGED <<jobs, hadFailure>> /\ status'[cur.task] = "Pending"
          /\ \A u \in Tasks \ {cur.task} : status'[u] = status[u]
      BY <1>2, <2>1, <3>1 DEF Requeue, SetStatus
    <3>3. \A u \in Tasks : status'[u] = "Done" => status[u] = "Done" /\ (InHand(u) => InHand(u)')
      BY <3>2 DEF InHand
    <3> QED BY <1>1, <2>1, <3>1, <3>2, <3>3, GatedKept DEF Gone
  <2>3. CASE FailureEscalated \/ ReviewMisconfigured \/ ReviewRejected \/ IntegrateConflict
    <3>1. GiveUp(cur.task) /\ cancelled' = cancelled
      BY <2>3 DEF FailureEscalated, ReviewMisconfigured, ReviewRejected, IntegrateConflict
    <3>2. /\ hadFailure' = TRUE /\ status'[cur.task] = "Failed"
          /\ \A u \in Tasks \ {cur.task} : status'[u] = status[u]
          /\ run.continueOnError => jobs' = jobs
      BY <1>2, <2>1, <3>1 DEF GiveUp, SetStatus, StopOrGoOn
    <3>3. CASE run.continueOnError
      <4>1. \A u \in Tasks : status'[u] = "Done" => status[u] = "Done" /\ (InHand(u) => InHand(u)')
        BY <3>2, <3>3 DEF InHand
      <4> QED BY <1>1, <2>1, <3>1, <3>2, <3>3, <4>1, GatedKept DEF Gone
    <3>4. CASE ~run.continueOnError
      BY <1>1, <3>2, <3>4, GatedGone DEF Gone
    <3> QED BY <3>3, <3>4
  <2>4. CASE ReviewPassed \/ BudgetOk
    <3>1. /\ UNCHANGED <<status, jobs, cur, cancelled, hadFailure>>
          /\ pc' \in {"budget", "approval"}
      BY <2>4 DEF ReviewPassed, BudgetOk
    <3> QED BY <1>1, <2>1, <3>1, GatedKept DEF InHand, Gone
  <2>5. CASE BudgetTripped
    <3>1. hadFailure' = TRUE /\ cancelled' = cancelled /\ status' = status
      BY <2>5 DEF BudgetTripped, StopOrGoOn
    <3>2. CASE run.continueOnError
      <4>1. UNCHANGED <<jobs, cur>> /\ pc' = "approval"
        BY <2>5, <3>2 DEF BudgetTripped, StopOrGoOn
      <4> QED BY <1>1, <2>1, <3>1, <3>2, <4>1, GatedKept DEF InHand, Gone
    <3>3. CASE ~run.continueOnError
      BY <1>1, <3>1, <3>3, GatedGone DEF Gone
    <3> QED BY <3>2, <3>3
  <2>6. CASE ApprovalSkipped
    <3>1. UNCHANGED <<status, jobs, cur, cancelled, hadFailure>> /\ cur.task \notin run.gated
      BY <2>6 DEF ApprovalSkipped, NeedsGate
    <3>2. \A u \in run.gated : InHand(u) => InHand(u)'
      BY <3>1 DEF InHand
    <3> QED BY <1>1, <2>1, <3>1, <3>2, GatedKept DEF Gone
  <2>7. CASE ApprovalOpened
    <3>1. /\ UNCHANGED <<jobs, cur, cancelled, hadFailure>>
          /\ status'[cur.task] = "AwaitingApproval"
          /\ \A u \in Tasks \ {cur.task} : status'[u] = status[u]
      BY <1>2, <2>1, <2>7 DEF ApprovalOpened, SetStatus
    <3>2. \A u \in Tasks : status'[u] = "Done" => status[u] = "Done" /\ (InHand(u) => InHand(u)')
      BY <3>1 DEF InHand
    <3> QED BY <1>1, <2>1, <3>1, <3>2, GatedKept DEF Gone
  <2>8. CASE ApprovalGranted
    <3>1. /\ UNCHANGED <<jobs, cur, cancelled, hadFailure>> /\ pc = "approve"
          /\ \A u \in Tasks \ {cur.task} : status'[u] = status[u]
      BY <1>2, <2>1, <2>8 DEF ApprovalGranted, SetStatus
    <3>2. Vouched(cur.task)'
      BY <1>1, <2>1, <2>8, <3>1 DEF ApprovalGranted, GateInv, MarkerInv, OpenGate, GateKeys
    <3>3. \A u \in Tasks : InHand(u) => InHand(u)'
      BY <3>1 DEF InHand
    <3> QED BY <1>1, <3>1, <3>2, <3>3 DEF GatedInv, Gone
  <2>9. CASE ApprovalCancelled
    BY <2>9, GatedGone DEF ApprovalCancelled, CancelLoop, Gone
  <2>10. CASE Integrated
    <3>1. UNCHANGED <<status, jobs, cancelled, hadFailure>> /\ pc = "integrate"
      BY <2>10 DEF Integrated
    <3> QED BY <1>1, <3>1, GatedKept DEF InHand, Gone
  <2> QED BY <1>9, <2>2, <2>3, <2>4, <2>5, <2>6, <2>7, <2>8, <2>9, <2>10 DEF Handle
<1>10. CASE Closing
  <2>1. /\ UNCHANGED <<jobs, cur, cancelled, hadFailure>> /\ pc # "crashed"
        /\ pc \notin {"review", "budget", "approval"}
    BY <1>10 DEF Closing, Finalize, OutcomeApproved, OutcomeCancelled
  <2>2. \A t \in Tasks : status'[t] = "Done" => status[t] = "Done"
    BY <1>10 DEF Closing, Finalize, FinalStatus, OutcomeApproved, OutcomeCancelled
  <2> QED BY <1>1, <2>1, <2>2, GatedKept DEF InHand, Gone
<1>11. CASE Attempt
  <2>1. PICK j \in jobs, r \in Results : Finish(j, r)
    BY <1>11 DEF Attempt
  <2> DEFINE ended == [j EXCEPT !.res = r]
  <2>2. /\ jobs' = (jobs \ {j}) \cup {ended} /\ j \in Job /\ j.res = "busy"
        /\ status' = [status EXCEPT ![j.task] = FinishStatus(r)]
        /\ UNCHANGED <<pc, run, cur, hadFailure, cancelled>>
    BY <2>1 DEF Finish, TypeInv, TypeOK
  <2>3. ended.task = j.task /\ ended.res = r /\ j.task \in Tasks
    BY <2>2 DEF Job
  <2> HIDE DEF ended
  <2>4. \A u \in Tasks : InHand(u) => InHand(u)'
    BY <2>2 DEF InHand, OkResults
  <2>5. status'[j.task] = "Done" => InHand(j.task)'
    BY <1>2, <2>2, <2>3 DEF InHand, FinishStatus
  <2>6. \A u \in Tasks \ {j.task} : status'[u] = status[u]
    BY <1>2, <2>2
  <2> QED BY <1>1, <2>2, <2>4, <2>5, <2>6 DEF GatedInv, Gone
<1>12. CASE StaleMarkerDropped \/ World \/ Terminated \/ UNCHANGED vars
  <2>1. \/ UNCHANGED <<pc, run, cur, jobs, status, hadFailure, cancelled>>
        \/ pc' = "crashed"
    BY <1>12 DEF StaleMarkerDropped, World, Human, Approve, ApproveElsewhere,
                 TakenElsewhere, RequestCancel, MailSent,
                 MailResolved, Crash, Terminated
  <2> QED BY <1>1, <2>1 DEF GatedInv, InHand, Gone
<1> QED BY <1>3, <1>4, <1>5, <1>6, <1>7, <1>8, <1>9, <1>10, <1>11, <1>12
    DEF Next, Scheduler, Top, Dispatch, Poll, Join

(* A run that ends of its own accord (not cancelled, and not stopped at a  *)
(* failure) has on disk as Done behind a gate only what a human released:  *)
(* what executor_unreleased_done finds takes a run that was cut short.     *)
THEOREM UncutRunsReleaseTheirGates ==
  Spec => [](pc = "ended" /\ ~Gone => \A t \in run.gated : disk[t] = "Done" => Vouched(t))
<1> DEFINE Inv == TypeInv /\ EndInv /\ GateInv /\ GatedInv
           Uncut == pc = "ended" /\ ~Gone => \A t \in run.gated : disk[t] = "Done" => Vouched(t)
<1>1. Init => Inv
  <2> SUFFICES ASSUME Init PROVE Inv
    OBVIOUS
  <2>1. \A t \in run.gated : status[t] # "Done"
    BY RunsAssumption DEF Init, RunType
  <2> QED BY <2>1, InitTypes, InitMarkers DEF Init, EndInv, GateInv, GateHeld, GatedInv
<1>2. Inv /\ [Next]_vars => Inv'
  BY TypeStep, EndStep, GateStep, GatedStep
<1>3. Inv => Uncut
  <2> SUFFICES ASSUME Inv, pc = "ended", ~Gone, NEW t \in run.gated, disk[t] = "Done"
               PROVE  Vouched(t)
    OBVIOUS
  <2>1. disk = status /\ jobs = {}
    BY DEF EndInv
  <2>2. ~InHand(t)
    BY <2>1 DEF InHand
  <2> QED BY <2>1, <2>2 DEF GatedInv
<1> QED BY <1>1, <1>2, <1>3, PTL DEF Spec
==============================================================================
