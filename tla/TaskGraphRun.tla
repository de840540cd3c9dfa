---------------------------- MODULE TaskGraphRun -----------------------------
(***************************************************************************)
(* What a run of a plan promises, with nothing of how it is scheduled: the *)
(* view of somebody who only watches the tasks.                            *)
(*                                                                         *)
(* A task waits, is worked on, and is then released to its consumers or    *)
(* waits for another try, at most MaxTries of them.  Work on a task begins *)
(* only when everything it depends on has been released or was left out of *)
(* the run.  A released task is never worked on again.  A task may be      *)
(* dropped at any time before that (it failed, or the run stops), and stays*)
(* dropped.  When the run is over nothing changes any more.                *)
(*                                                                         *)
(* RunExecutor implements this specification: see TaskView there.          *)
(***************************************************************************)
EXTENDS Integers

CONSTANTS
  Tasks,
  MaxTries    \* how often work on a task may begin

VARIABLES
  deps,     \* the dependencies of each task, fixed
  phase,
  tries,    \* how often work on a task has begun
  over

vars == <<deps, phase, tries, over>>

Phases == {"waiting", "active", "released", "leftOut", "dropped"}

TypeOK ==
  /\ deps \in [Tasks -> SUBSET Tasks]
  /\ phase \in [Tasks -> Phases]
  /\ tries \in [Tasks -> Nat]
  /\ over \in BOOLEAN

Init ==
  /\ deps \in [Tasks -> SUBSET Tasks]
  /\ phase = [t \in Tasks |-> "waiting"]
  /\ tries = [t \in Tasks |-> 0]
  /\ over = FALSE

Satisfied(t) == \A d \in deps[t] : phase[d] \in {"released", "leftOut"}
Move(t, p)   == phase' = [phase EXCEPT ![t] = p]

(* Filters are applied before anything starts.                             *)
LeaveOut ==
  /\ ~over
  /\ \A t \in Tasks : phase[t] = "waiting" /\ tries[t] = 0
  /\ \E S \in SUBSET Tasks :
       phase' = [t \in Tasks |-> IF t \in S THEN "leftOut" ELSE "waiting"]
  /\ UNCHANGED <<deps, tries, over>>

Begin(t) ==
  /\ ~over
  /\ phase[t] = "waiting" /\ tries[t] < MaxTries /\ Satisfied(t)
  /\ Move(t, "active")
  /\ tries' = [tries EXCEPT ![t] = @ + 1]
  /\ UNCHANGED <<deps, over>>

TryAgain(t) ==
  /\ ~over
  /\ phase[t] = "active"
  /\ Move(t, "waiting")
  /\ UNCHANGED <<deps, tries, over>>

Release(t) ==
  /\ ~over
  /\ phase[t] = "active"
  /\ Move(t, "released")
  /\ UNCHANGED <<deps, tries, over>>

Drop(S) ==
  /\ ~over
  /\ \A t \in S : phase[t] \in {"waiting", "active"}
  /\ phase' = [t \in Tasks |-> IF t \in S THEN "dropped" ELSE phase[t]]
  /\ UNCHANGED <<deps, tries, over>>

End ==
  /\ ~over
  /\ over' = TRUE
  /\ phase' = [t \in Tasks |-> IF phase[t] \in {"waiting", "active"}
                               THEN "dropped" ELSE phase[t]]
  /\ UNCHANGED <<deps, tries>>

Next ==
  \/ LeaveOut \/ End
  \/ \E t \in Tasks : Begin(t) \/ TryAgain(t) \/ Release(t)
  \/ \E S \in SUBSET Tasks : Drop(S)

Spec == Init /\ [][Next]_vars

------------------------------------------------------------------------------
(* What the promise amounts to.                                            *)

(* Work in progress, and work that was released, stands on released work,  *)
(* and no task is worked on more often than it may be.                     *)
GroundedWork ==
  \A t \in Tasks :
    /\ phase[t] \in {"active", "released"} => Satisfied(t)
    /\ tries[t] > 0 => tries[t] <= MaxTries

(* A released, left out or dropped task is done with: nothing moves it and *)
(* no work on it begins again.                                             *)
Settled == {"released", "leftOut", "dropped"}
FinalIsFinal ==
  [][\A t \in Tasks : phase[t] \in Settled =>
       phase'[t] = phase[t] /\ tries'[t] = tries[t]]_vars
=============================================================================
