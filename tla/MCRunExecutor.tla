---------------------------- MODULE MCRunExecutor ----------------------------
(***************************************************************************)
(* Plans and configurations for model-checking RunExecutor.                *)
(***************************************************************************)
EXTENDS RunExecutor, TLC

CONSTANTS a, b, c

TwoTasks   == {a, b}
ThreeTasks == {a, b, c}

(* A plan from its dependency edges, each <<consumer, producer>>.          *)
Need(T, E) == [t \in T |-> [d \in T |-> IF <<t, d>> \in E THEN 1 ELSE 0]]
Config(need) ==
  [ need |-> need, filtered |-> {}, gated |-> {}, reviewed |-> {},
    misreviewed |-> {}, mailable |-> {}, width |-> 2, continueOnError |-> FALSE,
    gateHighRisk |-> FALSE, refuteHighRisk |-> FALSE, capped |-> FALSE,
    planGate |-> FALSE, outcomeGate |-> FALSE, shared |-> FALSE ]

Chain == Need(ThreeTasks, {<<b, a>>, <<c, b>>})
Join_  == Need(ThreeTasks, {<<c, a>>, <<c, b>>})
Fork  == Need(ThreeTasks, {<<b, a>>, <<c, a>>})

SafetyRuns ==
  { [Config(Join_) EXCEPT !.gated = {a}, !.mailable = {b}],
    [Config(Join_) EXCEPT !.continueOnError = TRUE, !.reviewed = {a}, !.mailable = {b}],
    [Config(Join_) EXCEPT !.capped = TRUE, !.filtered = {b}, !.width = 0],
    [Config(Fork) EXCEPT !.continueOnError = TRUE, !.capped = TRUE, !.gated = {b}],
    [Config(Fork) EXCEPT !.gateHighRisk = TRUE, !.refuteHighRisk = TRUE, !.width = 1],
    [Config(Chain) EXCEPT !.filtered = {a}, !.planGate = TRUE, !.outcomeGate = TRUE],
    [Config(Chain) EXCEPT !.filtered = {a}, !.gated = {c}, !.outcomeGate = TRUE, !.shared = TRUE],
    [Config(Chain) EXCEPT !.filtered = {a, b}, !.planGate = TRUE, !.shared = TRUE],
    [Config(Chain) EXCEPT !.continueOnError = TRUE, !.misreviewed = {b}] }

(* For liveness and the refinement: two tasks, and a third that is skipped, *)
(* then three.                                                             *)
Pair == Need(TwoTasks, {<<b, a>>})
Free == Need(TwoTasks, {})
TwoOf(E) == [Config(Need(ThreeTasks, E)) EXCEPT !.filtered = {c}]

ProgressRuns ==
  { [TwoOf({<<b, a>>}) EXCEPT !.gated = {a}, !.mailable = {b}],
    [TwoOf({<<b, a>>}) EXCEPT !.reviewed = {a}, !.planGate = TRUE, !.outcomeGate = TRUE],
    [TwoOf({}) EXCEPT !.continueOnError = TRUE, !.mailable = {a}],
    [TwoOf({}) EXCEPT !.gateHighRisk = TRUE, !.width = 1],
    [TwoOf({<<b, a>>}) EXCEPT !.gated = {a}, !.shared = TRUE],
    [Config(Join_) EXCEPT !.gated = {a}, !.mailable = {b}],
    [Config(Fork) EXCEPT !.continueOnError = TRUE, !.reviewed = {b}, !.width = 1],
    [Config(Chain) EXCEPT !.filtered = {a}, !.mailable = {b}, !.continueOnError = TRUE] }

(* --skip of a task in the middle of a chain.                              *)
MiddleSkipped == {[Config(Chain) EXCEPT !.filtered = {b}]}

(* One task may be parked on mail, the other may fail.                     *)
MailAndFailure == {[Config(Free) EXCEPT !.mailable = {a}]}

(* One task is gated, the other may fail.                                  *)
GateAndFailure == {[Config(Free) EXCEPT !.gated = {a}]}

(* The same, and another run waits at a gate of the same name.             *)
GateOfTwoRuns == {[Config(Free) EXCEPT !.gated = {a}, !.shared = TRUE]}

(* depends_on: [a, a].                                                     *)
Repeated == {[Config([Pair EXCEPT ![b][a] = 2]) EXCEPT !.width = 1]}
=============================================================================
