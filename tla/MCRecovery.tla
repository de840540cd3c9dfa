----------------------------- MODULE MCRecovery -----------------------------
(***************************************************************************)
(* Small plans and control directories for model-checking Recovery.        *)
(***************************************************************************)
EXTENDS Recovery, TLC

CONSTANTS a, b, c, c1, c2

TwoTasks   == {a, b}
ThreeTasks == {a, b, c}

Pair  == a :> {} @@ b :> {a}
Chain == a :> {} @@ b :> {a} @@ c :> {b}

Limit(runs, live, loaded, cancels, pids, drafts) ==
  [runs |-> runs, live |-> live, loaded |-> loaded, cancels |-> cancels, pids |-> pids,
   drafts |-> drafts]

(* One run and two commands on it, or one and a draft; two runs and one     *)
(* command or a draft, one of the runs or both alive; three runs one after  *)
(* the other.                                                               *)
SafetyLimits == { Limit(1, 1, 0, {c1, c2}, 0, 0), Limit(1, 1, 0, {c1}, 1, 0),
                  Limit(1, 1, 0, {c1}, 0, 1), Limit(2, 1, 1, {c1}, 0, 0),
                  Limit(2, 2, 2, {}, 1, 0), Limit(2, 1, 1, {}, 0, 1),
                  Limit(3, 1, 1, {}, 0, 0) }

ThreeInARow == {Limit(3, 1, 1, {}, 0, 0)}
=============================================================================
