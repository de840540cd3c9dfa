# A verification model of repo-maestro

repo-maestro runs plans: a `PLAN.yaml` lists tasks with dependencies, a
scheduler dispatches them to coding agents in isolated worktrees, reviews,
retries and integrates what they produce, and pauses at gates until a human
answers. The TLA+ modules in this directory model the part of the program that
decides *when* something may run and *what* a run reports, and say what it
promises. Paths below are relative to the repository (`src/...` is the Rust
crate, `docs/...` its documentation).

## 1. Inventory

| component | state | operations | interacts through |
|---|---|---|---|
| Run executor, `src/scheduler/executor.rs` | ready queue, join set of attempts, parked tasks, retry counters, flags (`run_plan` locals); the shared `RunState` | dispatch, join, and the handlers failure / review / budget / approval / integrate; finalization; two boundary gates | `RunState` under a mutex, `RUN_STATE.json`, marker files, mailbox, event ledger |
| Task graph, `src/scheduler/dag.rs` | edges | `initial_ready`, `downstream`, `upstream` | built from the plan |
| Run state, `src/scheduler/state.rs` | statuses, artifacts, usage | `write_atomic`, `load` | one file per run, rewritten whole |
| Liveness and recovery, `src/scheduler/liveness.rs`, `src/cli/commands/run.rs`, `pr.rs` | none | force-cancel of an abandoned run, resume, rerun, `pr draft` | `RUN_STATE.json`, process id |
| Control markers, `src/paths.rs`, CLI, server | one file per task id or run id | approve, cancel | polled by the executor |
| Mailbox, `src/mailbox.rs`, `src/mcp/tools.rs` | one JSON file per message | send, resolve, answer, inbox; a tool that asks and waits | blocking mail parks a task |
| Channels, `src/channel/` | outbound queue and cursor, inbound cursor | subscribe, drain, poll, route, trust | events in, replies out |
| Ledgers, `src/scheduler/events.rs`, `findings.rs` | append-only files with sequence numbers | append, read | every other component writes to them |
| Plans and configuration, `src/config/` | none | load, fan-out, validate, contract wiring, reviewer resolution | input of the executor |
| Chat, `src/chat/`, `src/server/handlers/chat.rs` | one session file | turn, decide on an action, tag, compact, delete | provider calls that take minutes |
| Memory, learning, skills | topic files | save, search, propose | best effort around a run |
| Server, CLI, MCP | none of their own | write markers, spawn runs, read state | files |
| Adapters, git | external processes | run an agent; worktrees and patches | an attempt's result |

What makes each component correct:

* **Executor** - a task starts only behind its producers; it is attempted once
  at a time and a bounded number of times; what consumers were released on is
  true and durable; no gate is passed on an answer that was lying around when it
  opened; a run ends, can be cancelled, leaves nothing running, and its verdict agrees
  with its tasks.
* **Recovery** - resume redoes nothing that was released and skips nothing that
  was not; a forced cancel never overwrites a decision of a live owner; a cancel
  request stops the run it names and no other.
* **Mailbox** - an answer is not lost, a resolved message stays resolved, and who
  asked hears an answer that came in time.
* **Channels** - every reply is delivered at least once and in order; no inbound
  message is skipped, and none sets anything going for a sender who may not.
* **Ledgers** - sequence numbers are unique and grow.
* **Plans** - fan-out and wiring keep the graph acyclic and refer to tasks that
  exist.
* **Chat** - what happened in a session is still there afterwards, and a deleted
  session stays deleted.

What is hard: attempts write the shared state on their own while a handler works
on another task; three queues (ready, running, parked) pass tasks around; the
process may die between a status change and its write; markers are files shared
by all runs; mail may be sent, resolved and sent again while a task waits. The
hazards list of `PROJECT.json` names each at its line, with the properties that
would catch it going wrong.

## 2. Modules

| module | models |
|---|---|
| `TaskGraphRun` | the abstract promise: tasks wait, are worked on, are released, left out or dropped; work begins behind released producers and at most `MaxTries` times; implemented by `RunExecutor`, and by each run of `Recovery` |
| `RunExecutor` | `run_plan`, the attempts it spawns, humans, mail and crashes |
| `Recovery` | the runs of one plan over one control directory: run, resume, rerun, cancel commands, forced cancels, `pr draft`, deaths |
| `ReplyQueue` | the abstract promise of the outbound channel: replies are delivered in order, at least once |
| `Outbound` | the threads of a run that record events, the ledger, the outbound file, and the drains |
| `Inbound` | the pollers of the channels, their shared cursor file, trust and routing |
| `Mailbox` | one message under concurrent commands, the tool that asked, the gate that waits |
| `Chat` | one session under concurrent request handlers |
| `PlanLoading` | from `PLAN.yaml` to a task graph: expansion, validation, cap, contract wiring, lint |
| `MCRunExecutor`, `MCRecovery`, `MCOutbound`, `MCIntake`, `MCPlans` | small instances for TLC; `MCIntake` puts `Inbound`, `Mailbox`, `Chat` and `PlanLoading` behind one choice |
| `RunExecutor_proofs`, `Recovery_proofs`, `Outbound_proofs`, `Inbound_proofs`, `PlanLoading_proofs` | the inductive invariants and the theorems of the module they are named after |
| `Promises_proofs` | those of the abstract specifications `TaskGraphRun` and `ReplyQueue` |
| `Conversation_proofs` | those of `Mailbox` and `Chat` |
| `Intake_proofs` | those of `MCIntake`: what holds of its four parts holds of the whole |

`RunExecutor` and `Recovery` look at the same program from two distances.
`RunExecutor` has the inside of one run, with the control directory reduced to
the markers it polls; `Recovery` has many runs and the processes around them, with
the inside of a run reduced to the statuses that another process can read. They
meet at two facts, that a task is Done on disk before its patch is integrated and that
what was released is Done on disk (`ReleasedIsDurable` there, the shape of `Release`
here), and in one promise: both implement `TaskGraphRun`, `RunExecutor` as a whole and
`Recovery` once for each of its runs (`RunOf(r)`). `Mailbox` has the message that
`RunExecutor` reduces to open or resolved.

### How RunExecutor corresponds to the code

The scheduler is one sequential async loop, so its state has a program counter
`pc` and each handler is a set of actions, one per outcome. The order is that of
`run_plan`:

    planGate -> setup -> top -> dispatch -> poll -> join
      join -> failure -> top | finalize
      join -> review -> budget -> approval (-> approve) -> integrate -> top
      finalize (-> outcome) -> ended          any -> crashed

* `top` is the loop condition, the cancellation poll and the re-admission of
  parked tasks; `dispatch` the inner loop around `dispatch_one_task` (mail gate,
  failed setup, spawn); `poll` the branch taken when only parked work is left;
  `join` the `select!` between the join set and the cancel poll.
* `jobs` is the `JoinSet`: attempts spawned and not joined. `Finish` is the end
  of an attempt: it writes Done or Failed into the in-memory state and nothing to
  disk, at any moment, including while the scheduler waits at a gate.
* `status` is the `RunState` in memory; `disk` is what `write_state` last wrote.
  An action that ends in `write_state` sets both.
* `StopOrGoOn` is the tail of every handler that gives up: under
  `--continue-on-error` the loop goes on, otherwise `abort_all` and a drain empty
  `jobs`. An attempt may finish up to the moment it is aborted.
* `marker` holds the approval files, one per gate for all runs of a workspace:
  absent, older than the two seconds of grace before the gate opened, or fresher, and
  then meant for this run (`Approve`) or for another one (`ApproveElsewhere`), which
  the code cannot tell apart. `Init` allows files of other runs at every key;
  `OpenMarker` lets a fresh marker age before its gate opens (an approval given in
  advance), `StaleMarkerDropped` deletes an old one, and where `run.shared` says that
  another run waits at gates of the same names, that run may take a marker first
  (`TakenElsewhere`). `answered` and `lent` are ghosts: gates that got an answer of
  either kind while they were open or within the grace.
* `need[t][d]` counts how often `t` lists `d`: validation accepts repetitions and
  the graph keeps them as parallel edges, so the consumer is queued that often.

Abstractions, and why they are safe for the properties:

* The ready deque is a bag: any queued task may be popped. The code pops in a
  fixed order, so the model has more behaviours.
* What an agent does is one of: a success classified low or high risk, or one of
  the error signatures. The circuit breaker compares signatures only.
* Token usage is "over the cap" or not; it may cross at any successful attempt or review of
  a run that has a cap.
* Time is counted in polls of the stalled loop (`MailPolls` stands for 1800
  seconds of 800 ms polls). The stall clock only runs while nothing else can.
* A handler is one step. Between its `write_state` and its `abort_all` an attempt
  may finish in the code; in the model it finishes just before or is aborted.
  Both leave the same in-memory state after finalization, and the tasks the
  properties speak of (released ones) are not affected.
* Acceptance checks, reports and the seeding of skipped tasks' patches change no
  task status and are left out of this module.

### How Recovery corresponds to the code

* `disk` is `RUN_STATE.json` of each run, `mem` what its owner holds. `Write` is
  `write_atomic`. The four writers of the file are actions: the owner's steps, the
  first write of a new run (`NewRun`), the forced cancel (`Overwrite`) and
  `pr draft` (`DraftWrite`). The benchmark runner writes into directories of its own.
* `Run`, `Resume`, `ForceResume` and `RerunFrom` are the ways of starting a run. All
  but the first are two steps, as in the code: `ResumeLoad` and `RerunLoad` read the
  state of an earlier run and compute `skip` and `seed` the way `resume` and
  `compute_rerun_skip` do, and then, whatever everybody else has done meanwhile, a
  resume tests the owner's pid (and may be refused, `ResumeRefused`) and the run
  starts with what was read.
  `maestro rerun` without `--from` (what the Rerun button of the web interface
  runs) skips nothing, so it is `Run`.
* `Request` and `RequestNoRun` are the cancel commands of the CLI and the server,
  which also accepts the literal id `current`; `Load`, `Probe`, `Overwrite`,
  `ReadLedger` and `AppendFinding` are `force_cancel_if_abandoned`, one read or
  write at a time. `Live` is what `classify_run` can know: a pid answers, whoever
  has it now (`ReusePid`).
* `undone`, `crowded`, `drafted` and `seen` are ghosts. The first three record that a
  command wrote an older state over a newer one, and the properties that need the
  exception name it; `seen` is what the resumed run had released when its state was
  loaded. What its owner releases between that load and its death is done again.
* `TaskView(r, t)` is what `TaskGraphRun` sees of a task of run `r`: released, left out
  (skipped and never done in this run), dropped (the owner ended or is dead), worked on,
  or waiting. Retries are inside an attempt here, so `MaxTries` is 1.
* The `current` link is moved a moment before the first state is written; the model
  does both in one step.

### How Outbound corresponds to the code

* `rec[t]` is where a thread is in `append_event_draft_with_subscribe`: it takes
  `event_append_lock`, reads the last sequence number, appends, releases the lock,
  and only then queues the reply, in two writes (`QueueReply`, `EndLine`): the
  line and its newline. A line of `text` therefore may hold two replies; `Parses`
  is what `drain_once` can read.
* A drain loads the cursor (`LoadCursor`), reads the file (`ReadQueue`), and for each line
  behind the cursor skips it for want of a session or sends it and then saves the
  cursor. It may die or fail between any two of these. When there is no outbound file
  it saves the cursor as it loaded it (`QueueMissing`, `SaveLoaded`).
* The finding of a doctor is appended by another process after the run died, in the
  same two steps, a read of the last number (`DoctorReads`) and an append
  (`DoctorAppends`), under a lock that keeps no other process out.

### How Inbound corresponds to the code

* `saved` is `channel_inbound_cursor.json`, one file for all channels, which each
  poller loads and saves whole. `arrived`, `late` and `pushed` describe the chat
  service: messages may come out of order, share a time, or arrive in a burst larger
  than `poll_limit`.
* `Time(m, now)` is `parse_create_time`: a message without a createTime counts as sent
  at the moment of the poll, so each poll takes it for new and decides it again, and its
  cursor passes over whatever arrives later with an older time. `clock` is the time of
  day. Of messages without createTime the model remembers that they were decided, not
  how often.
* A poll sorts what it got and, for each message the cursor has not passed, decides it
  (`resolve_trust`, then `route_inbound`), appends the decision, moves the cursor and
  saves it, before it goes on to the next. A message that `parse_inbound` refuses ends
  the process. The configuration is read once, when the process starts.
* What `parse_history` skips before it looks at any time (messages that are not a
  user's, or without an id or a sender, or with a createTime that does not parse) never
  enters the model.
* The channel of a decision always is `feishu` (`src/channel/feishu.rs:57`), so one
  entry of `channels.yaml` speaks for every channel name.
* Decisions are written to `INBOUND_DECISIONS`; nothing in the code reads that file.

### How Mailbox, Chat and PlanLoading correspond to the code

* `Mailbox` has the files below a save: `open` creates or empties the temporary file
  (an inode shared by all writers), `write` fills it, `rename` puts it in the
  message's place. Two writers of one inode may leave a text that no longer parses.
  `Asking` is one turn of `mailbox_ask`: look, look at the clock, sleep; on timeout it
  answers with the default like any other command.
* `Chat` has one handler per request; what a handler holds while it waits for a
  provider is its `copy`. An approved action is the exception: it is run in the
  background and its end loads the session again. Approving twice runs the action
  twice, as in the code. A handler that puts tags replaces the list, a patch the title,
  and the tagger adds to the list, or finds nothing and saves nothing. `KeepRecent`
  and `MinToCompact` are 6 and 10 in the code and constants here.
* `PlanLoading` turns the recursion of `detect_dependency_cycle` and
  `compute_ancestors` into a stack, one visit, dependency or return per step. What
  the loader should return is stated independently (`Statement`, `Sensible`): sets
  and quantifiers over the text of the plan, with no search and no expansion.

## 3. Model checking

| run | question | instance |
|---|---|---|
| `executor_safety` | do the type invariant, seven invariants and one action property hold? | nine plans of three tasks (join, fork, chain) that between them use every option: approval gate, mail, reviewer, broken reviewer, cap, filters, plan and outcome gate, risk gate and refuter, gates shared with another run, sequential and parallel, with and without `--continue-on-error` |
| `executor_progress` | does a run end, does a cancel request get through, and is every step a step of `TaskGraphRun`? | eight plans, of two tasks and a skipped one, or of three |
| `recovery` | is what a recovery reuses there, and what it redoes to be redone; does a cancel hit the run it names, and end it; is each run a `TaskGraphRun`? | a plan of two tasks; the seven bounds of `SafetyLimits` |
| `outbound` | is the ledger numbered, and does the drain implement `ReplyQueue`? | two threads, three events, two of them heard; one drain with two deaths or failures, two drains, or two doctors |
| `intake` | is no message overlooked, decided twice or trusted wrongly; do mailbox commands compose; does a session keep what happened; does a plan load as written? | see below |
| `executor_lost_task` (violation) | is the DAG drained when a run ends Done? | `--skip` of the middle of a chain |
| `executor_late_start` (violation) | does a failed setup stop the run? | one parked task, one that fails |
| `executor_borrowed_answer` (violation) | does an answer meant for another run leave this run's gate shut? | one gated task, gates shared with another run |
| `executor_unreleased_done` (violation) | is a gated Done task one that was released? | one gated task, one that fails |
| `executor_repeated_dependency` (violation) | do retries stay within the budget for every valid plan? | `depends_on: [a, a]` |
| `recovery_redone` (violation) | does a resume of a resumed run redo nothing? | three runs in a row |
| `plans_wired_loop` (violation) | does contract wiring close no loop? | the plans of `MCPlans` |

Bounds. Nothing is symmetric: the tasks of a plan, the threads and the commands play
different roles.

* *Executor.* Two error signatures (so that the circuit breaker can trip or not),
  `MaxRetries = 1`, `MailPolls = 1`. One retry is enough to reach every branch on the
  counter; the theorems hold for every bound. Cancellation (once per run), blocking
  mail (once per task), approvals at any time, stale markers and a crash at any point
  are possible in every run. The other run that shares the gates is there or not; how
  many others there are makes no difference to a file that names none of them.
* *Recovery.* What a second run does depends on the first only, a third on the second,
  so three runs one after the other reach a resume of a resume; two alive at once
  reach a `current` link that belongs to another run; two commands on one run reach
  every order of two forced cancels. These do not multiply: a limit fixes how many
  runs, live owners, recoveries between their load and their start (`loaded`), cancel
  commands (`cancels`: none, `c1`, or `c1` and `c2`), reused pids and drafts a behaviour
  may have, and the run checks seven limits. Two recoveries at once that have loaded
  reach both orders of load and start. A plan of two tasks, one behind the other, has a
  producer to seed and a consumer to redo (835,150 states). The theorems hold for every
  bound.
* *Outbound.* Three events, because one thread must be able to overtake the other in
  the queue and the ledger must have an event nobody hears. Two troubles reach a
  death after a send and another one after its repetition; two drains need none to
  send a reply twice; two doctors reach every order of their reads and appends
  (317,532 states).
* *Intake.* A behaviour takes one of the four paths (`scene`). *Poll:* two messages of
  one instant whose ids sort the other way, an older one, and one of another channel;
  an empty one; one without a createTime, and a clock that moves once between polls; one
  death; an edit of the configuration. *Mail:* a command that
  answers, one that resolves, the tool that asked. *Chat:* two turns with a decision
  and a compaction; contradicting decisions; a decision, a list of tags and a delete; two
  lists of tags and the tagger; two turns, a new title and a list of tags. The log is
  compacted at three messages and two are kept. *Plan:* every graph on three tasks, two
  tasks in every combination of templates, dependencies and inputs the loader tells
  apart, and four tasks under three shapes of contracts.

### Properties

Executor:

* `StartsBehindDeps` (action) - an attempt starts only when each producer was
  released and still has the status its consumers rely on.
* `OneAttemptAtATime` - no task is in two places: two attempts would share a
  worktree, a log and a `RunState` entry.
* `AttemptsBounded` - errors, rejected reviews and mail gates together buy at most
  `1 + MaxRetries` attempts.
* `ReleasedIsDurable` - a released task's status is final and on disk.
* `GatesHeld` - no task gate, plan gate or outcome gate is passed unless somebody
  approved that name while it was open, or less than the grace before; and where no other
  run waits at gates of the same names, that was an answer to this run.
* `DrainsTheDag` - a run that was not cut short leaves no task behind.
* `VerdictFits` - the verdict and the labels Skipped and Cancelled name the truth; Done
  hides no failure and, if the skip set is closed under producers, no unfinished work.
* `EndIsQuietAndOnDisk` - after the end nothing runs and the file agrees.
* `KeepsThePromise` - the refinement. `TaskView` maps a task to waiting, active,
  released, left out or dropped; `tries` is the number of attempts.
* `EndsUnlessUnanswered`, `CancelGetsThrough` - liveness.

`StartsBehindDeps`, `OneAttemptAtATime`, `AttemptsBounded` and `ReleasedIsDurable`
are stated for plans that list no dependency twice; for the others they fail, which
is what `executor_repeated_dependency` shows. `DrainsTheDag` is stated for skip sets
closed under producers; for the others it fails, which is what `executor_lost_task`
shows. The first resume of a run passes a closed set, a later one need not: of a
chain a, b, c whose run was resumed after a, the second resume finds b Done and a
Skipped, skips b alone, and is of the kind `executor_lost_task` is about.

Recovery:

* `StandsOnOutputs` - a task starts only where the outputs of its producers are, in
  every run but those of `rerun --from`, which take the upstream of the task for granted.
* `RestIsRun` - a fresh run, or the first recovery of one, that ends Done has every
  output.
* `ReleasedIsNotRedone` - resume repeats nothing that was released when it read the
  state, unless an older state was written over the one that named it.
* `OwnerAgreesWithDisk` - nobody but `pr draft` writes over the state of a run at work.
* `NamedCancelHitsItsTarget`, `CancelEndsTheRun` - whom a cancel stops, and that it does.
* `OneDoctorFinding` - a dead run is reported once, unless two commands force it at once.
  (`LedgerNumbered`, below, is about the number that report gets in the event ledger.)
* `EveryRunKeepsThePromise` - the refinement, for every run at once: whatever recovers,
  cancels, dies or drafts around it, a run starts a task only behind what it released or
  left out, once, and what it released stays released.

Outbound: `LedgerNumbered` (the events of the run always, the findings of doctors unless
two are at it at once); `NothingSkipped` (the cursor passes nothing unsent);
`DuplicatesArePaidFor` (with one drain, each extra copy costs a death or failure);
`DeliversInOrder` (the refinement of `ReplyQueue`, while no two lines ran into each
other); `EventuallySent`.

Intake: `NoneIsOverlooked`, `DecidedAgainForAReason`, `ActsOnlyForTheTrusted`,
`EventuallyDecided` (channels); `CommandsCompose`, `AnswerInTimeIsHeard`, `GateOpens`,
`AskReturns` (mailbox); `NothingIsLost`, `DeletedStaysDeleted` (chat);
`LoadsWhatIsWritten`, `NoSilentRace` (plans). Where the code guards nothing, the
property names the overlap under which it may fail (`crossed`, `clobbered`,
`bystander`, `rolled`, `late`, `pushed`, and in `Outbound` `crowded`), and the mutants
show that nothing else breaks it. So these properties do not show that the overlap is
harmless, which it is not: they bound the damage to it.

`NothingIsLost` compares the session with what the requests said, in the order of their
saves (`told`): the tags are those given and not left out by a later list, the title the
last one given.

### Fairness

* *Executor:* weak fairness of the scheduler and of the attempts. The scheduler is one
  future that the runtime keeps polling, and every wait in it is a timer or the join
  set. An attempt ends because every adapter runs its agent under the task's
  `timeout_minutes` (`src/adapter/shell.rs:118`, `codex.rs:144`, `cursor.rs:131`).
* *Recovery:* weak fairness of each cancel command, and of an owner's set-up and its
  cancel poll. A command is a straight line of file operations; the poll is the one
  `executor_progress` shows to be reached. Owners need not finish, and may die.
* *Outbound:* weak fairness of the steps of a drain and of its restart: `drain` is meant
  to run again and again. Deaths and failures are bounded.
* *Intake:* pollers loop and are started again; the loop of the asking tool and its
  clock go on; the scheduler looks at its mail gate again at every pass.

Nothing is assumed of humans, mail, senders or the machine: nobody has to approve,
resolve or cancel, which is why a run may wait at a gate for ever, and only there.

### Findings

Seven statements of the documentation or comments are not what the code does; each
has a run with a counterexample, and the quoted line is in `PROJECT.json`. Where a
theorem says how far the code can be from the statement, it is named:

* a task behind a skipped one may be lost (`executor_lost_task`);
* a parked task may start after the run was to be aborted (`executor_late_start`); only
  tasks that were sent blocking mail, and those behind them, can
  (`LateStartsAreBehindMail`);
* an answer meant for another run that waits at a gate of the same name releases this
  run's gate, because the marker names the task only (`executor_borrowed_answer`); a
  marker that was left behind does not (`GatesHold`);
* a gated task may be recorded Done without a release, because Done is written before
  the gate opens (`executor_unreleased_done`); not in a run that ended of its own
  accord (`UncutRunsReleaseTheirGates`);
* a repeated dependency doubles the attempts (`executor_repeated_dependency`);
* the second resume of a run repeats released work, because the first one records what
  it reused as Skipped and resume reuses Done only (`recovery_redone`);
* two contract edges, each harmless against the plan as it was, close a loop together
  (`plans_wired_loop`); it takes two tasks that were given edges, so a plan with one
  consumer, or `--no-wire-contracts`, is never refused by the graph (`LoopsTakeTwo`).

Smaller observations, which the models show and no run is devoted to:

* a plan gate that is cancelled leaves every task Pending, while
  `docs/site/23-approvals.md:67` says it "Marks all unstarted tasks as `cancelled`";
* an approval given in advance (kept on purpose, `src/cli/commands/builtins.rs:1126`)
  is discarded when its gate opens more than two seconds later;
* a marker named `current` that outlives the run it was meant for stops the next one
  (`NamedCancelHitsItsTarget` allows it by its second disjunct);
* two forced cancels at once leave two doctor findings, which the comment at
  `src/scheduler/liveness.rs:62` rules out, and may give two events of the ledger one
  number (`crowded`);
* a resume that loads the state of a run whose owner is about to release a task and end
  does that task again (`seen`);
* a message without a createTime is decided at every poll (`Dated`);
* `pr draft` writes back the state it loaded before it waited for `gh`: a cancelled
  run may read Running again (`drafted`);
* a template drops a plain task of its own id without a word (`Hidden`);
* two templates of one id whose `project_each` lists have no project in common are
  refused, although no two of their copies would have one id: the expansions are kept by
  the id of the template, so both get the ids of the later one (`Sensible` names it; the
  proof of `LoadsWhatIsWritten` met it, and the instance has such a plan since).

## 4. Proofs

Each of the eight modules `..._proofs` is checked with `tlapm X_proofs.tla`. A theorem
holds for every value of the constants that meets the assumptions stated with
them, and TLC evaluates the same assumptions in every run:

| module | assumed of the constants |
|---|---|
| `RunExecutor` | the configurations have the declared type; `Tasks` is finite and contains no gate id; error signatures are not the names of other results; the bounds are naturals |
| `Recovery` | a task depends on tasks; the limits are naturals and sets of cancel commands; finitely many of these |
| `Outbound` | each thread records some number of events, of which any may be heard; the doctors' findings are none of them; finitely many drains |
| `Inbound` | finitely many messages, each with a channel, a sender, a verb and a time or none; the instances are of the declared type |
| `Mailbox` | the default answer of the asking tool is one of finitely many commands, and is not silent |
| `Chat` | a request is of a known kind; compaction keeps fewer messages than it starts at; no session looks like the missing file |
| `PlanLoading` | the plan files are of the declared type (any sequence of tasks over any ids, projects and contracts); having no project is not a project |

Nothing is assumed of the order in which processes move. Four theorems carry a
condition in their statement, because without it they are false: `NoRepeats` (no
plan lists a dependency twice; `executor_repeated_dependency` shows what happens
otherwise) in `VerdictHolds`, `TheDagIsDrained` and `ImplementsPromise`, and `Acyclic`
in `VerdictHolds`, `TheDagIsDrained` and `NothingIsMissing`. `Acyclic` is what `LoopsAreRefused` proves of
plan validation, in `PlanLoading`.

### The arguments

*Executor.* The properties are not inductive. `IndInv` adds:

* `CurMatchesPc` - a handler holds an attempt that ended the way its branch says;
* `StartOfRun` - nothing has happened before setup, and filtered tasks count as
  completed after it;
* `GroundedTasks` - whatever is queued, parked, in flight or was ever started has
  its producers in `completed`. Without it a re-queue after a retry or a mail wait
  could not be shown to respect the graph, for the code does not look again;
* `InOnePlace` - a task is queued at most once, and not while parked or in flight;
* `RetriesPayForAttempts` - every attempt but the first was paid by a retry, and a
  waiting task has already paid for the attempt it waits for;
* `CurOnDisk` - what a handler works on was written when it was joined. This is why
  a release is durable although integration writes nothing itself.

The proof takes the groups of `Next` one at a time: `...Types` lemmas for the
types, `...Graph` lemmas for the rest. Most steps fall under four shapes that are
lemmas of their own: a step that moves only flags (`QuietStep`), queues that only
shrink (`PlacesShrink`), one task's status set and written (`SetStatusKeeps`), and
a cancellation (`CancelStep`). On top of `IndInv` stand four more invariants:

* `RunGateInv` - a fresh marker at an open gate means an answer given in time, nothing is completed before the plan
  gate was answered, and Done is said only on the way through the outcome gate;
* `VerdictInv` - while the loop runs, a Failed task is one whose failure was counted
  or is being handled (`Accounted`), a counted failure has a task that will not be
  tried again, or the budget, behind it (`FailureHasCulprit`), and a task that left
  Pending has completed producers (`MovedAreGrounded`). The
  labels of the finalization are a least set; the proof uses only that it is a
  fixpoint (`BlameIsFixpoint`);
* `PromiseInv` - with the two above, what `TaskView` says of a task before and after a
  step is a step of `TaskGraphRun`; the `Seen...` lemmas go through its actions;
* `DrainInv` - a task behind completed producers is completed, failed or in one of the
  queues (`NoneForgotten`), and the loop leaves only empty queues (`WorkedOff`). Then
  acyclicity turns "every open task has an open or failed producer" into `Drained`;
* `LateInv` - after the run was to be aborted, whatever is still queued, parked or in
  flight is in the least set that holds the tasks with blocking mail and is closed under
  consumers (`BehindMail`);
* `GatedInv` - a gated task that is Done was answered, or is in flight or in the hands
  of a handler; both are empty at the end of a run that was not cut short (`Gone`).

*Recovery.* `RunsInv` says what a run that was begun looks like (`Begun`) and that a
command at work is aimed at one, whose owner is dead when it writes (`Aimed`); its
proof cuts `Next` into steps of an owner (`OwnerGrows`), of a command line
(`NewBegun`) and of everybody else (`Beside`). Each theorem adds its own part:

* `StandInv` - what is skipped is seeded, but for `rerun --from`;
* `RedoInv` - what was released is Done in the file, or named in `undone`; so what was
  released when a resume loaded the file is in its skip set or was undone before, and
  stays so however far the owner gets before the resume finds it dead;
* `AgreeInv` - the file of a live owner is what the owner holds, for a command writes only
  after it found no pid that answers, and an owner that is gone does not come back;
* `NamedInv` - a marker has somebody who wrote it;
* `FindingsInv` - commands on one run are counted by how far they are: none has told,
  one is telling, one has told;
* `RestInv` - every state of a fresh run that a recovery may reuse, on disk, in memory,
  or in the hands of a command that will write it back, is closed under producers.
  So the first recovery skips a closed set, from which the walk of `run_plan` reaches
  every task (`WalkIsComplete`, by acyclicity), and Done is written only when none
  is left (`CompleteIsAll`);
* `KeepInv` - what an owner holds in memory fits its phase: all Pending before the set-up,
  and at work nothing but Pending, Running, Done and what it was told to skip
  (`Orderly`). Then a step of an owner is a step of `TaskGraphRun` for its run, and
  everybody else leaves what that run shows as it is, or drops what is open when its owner
  dies.

*Outbound and ReplyQueue.* `LedgerInv`: a thread that is about to append holds the lock
and has seen the whole ledger, and so has a doctor that is alone, for the threads are gone
by then. `DrainInv`: lines before a cursor, saved or in memory, are
settled (sent, or without a session), and what a drain has read is a prefix of the file.
`RefInv` adds that the queue holds no event its thread has not recorded yet, which makes an
append an `Enqueue` of the abstract queue. `CopyInv`: a reply is in one line only, and a drain
on its own has paid, by a trouble, for each copy of what its cursor has not passed. In
`ReplyQueue` itself, `QueueInv` (queued once, handled in turn) gives that nothing is
passed over.

*Inbound.* `CoverInv`: a cursor passes nothing undecided (`Honest`), and what is not
passed is still in the batch or not older than what remains of it (`Covered`). The time of a poll is
after the time of every message, so those without createTime come last. The
batch must be sorted for this (`BatchFits`): a mutant without the sort breaks it.
`CountInv`: a message was decided at most once more than there were deaths of its poller
and write-backs of an older cursor, and at most as often while a poller may take it up
(`StillDue`).

*Mailbox.* `MailInv`: whatever may become the message after somebody closed it reads as
closed, or does not read at all (`Closes`). `ComposeInv`: while no two commands overlapped,
at most one is at work, on the message as it is, and the temporary file is its own
(`Alone`). *Chat.* `ChatInv`: neither what a handler in flight last loaded or saved
(`HandlersSound`) nor the file (`FileSound`) has an answer of a turn that is not over;
nobody is left who could bring a deleted session back (`NobodyLeft`). That tags and title
are what the saves so far say (`TagsTold`, `TitleTold`) is kept save by save, in the order
of the saves (`told`).

*Plan loading.* `SearchInv` follows the two depth-first searches. The stack is a path of
tasks that are not finished (`Walk`), and a dependency of a task on it is yet to be
looked at, finished, or next on the stack. In the cycle search the finished tasks are
`Grounded` (of any set of them some task waits for none of the set), which is to have no
loop; in the search for ancestors each finished task has gathered all that comes before it
(`Gathered`). From this follow that loops are refused and ancestors found, against
definitions by least sets, on every graph; `SearchLeft` shows that both searches end. `RaceInv`
adds what the wiring did with the ancestors of the plan as it was. `LoadInv` compares the
loaded plan with what was written: a plan is accepted if and only if it is `Sensible`,
and what its tasks say is the `Statement`. Expansion and data dependencies are folds
over sequences. What they return for every input is proved by induction with the
induction hypothesis as a set of numbers (`NatSetInduction`, from the well-foundedness
of the order of the naturals), because the library's induction theorems, which take a
predicate as a parameter, are not usable with these provers.

*The intake as a whole.* The parts of `MCIntake` share no variable, so its specification
implies that of each part (`PartsRun`), and the theorems about the parts hold of what the run
`intake` checks.

### The theorems

| module | theorem | statement |
|---|---|---|
| `RunExecutor` | `TypeCorrect`, `IndInvHolds` | `[]TypeOK`, `[]IndInv` |
| | `NeverTwoAttempts`, `RetriesAreBounded` | `[]OneAttemptAtATime`, `[]AttemptsBounded` |
| | `ReleasedSurvives` | `[]ReleasedIsDurable` |
| | `DependenciesFirst` | `StartsBehindDeps` |
| | `GatesHold` | `[]GatesHeld` |
| | `EndsQuietly` | `[]EndIsQuietAndOnDisk` |
| | `VerdictHolds` | `[](NoRepeats /\ Acyclic => VerdictFits)` |
| | `TheDagIsDrained` | `[](NoRepeats /\ Acyclic => DrainsTheDag)` |
| | `ImplementsPromise` | `Spec /\ NoRepeats => KeepsThePromise` |
| | `LateStartsAreBehindMail` | after a failure that stops the run only tasks of `BehindMail` start |
| | `UncutRunsReleaseTheirGates` | a run that was not cut short has a gated task Done on disk only if its gate got an answer |
| `TaskGraphRun` | `WorkIsGrounded` | work stands on released work, and tries are bounded |
| | `SettledForGood` | released, left out and dropped are final |
| `Recovery` | `RecoveryTypesHold` | `[]TypeOK` |
| | `StandsOnItsProducers`, `ResumeKeepsReleased` | `[]StandsOnOutputs`, `[]ReleasedIsNotRedone` |
| | `NothingIsMissing` | `[](Acyclic => RestIsRun)` |
| | `FileFollowsOwner` | `[]OwnerAgreesWithDisk` |
| | `CancelHitsItsTarget`, `DoctorSpeaksOnce` | `[]NamedCancelHitsItsTarget`, `[]OneDoctorFinding` |
| | `EachRunImplementsPromise` | `Spec => RunOf(r)!Spec`, for each run `r` |
| | `RunsKeepThePromise` | `Spec => EveryRunKeepsThePromise` |
| `Outbound` | `OutboundTypesHold`, `LedgerIsNumbered` | `[]TypeOK`, `[]LedgerNumbered` |
| | `NothingIsSkipped`, `DuplicatesArePaid` | `[]NothingSkipped`, `[]DuplicatesArePaidFor` |
| | `ImplementsReplyQueue` | `Spec => DeliversInOrder` |
| `ReplyQueue` | `NonePassedOver` | no reply is first sent before one queued ahead of it |
| `Inbound` | `InboundTypesHold`, `NoneOverlooked` | `[]InboundTypeOK`, `[]NoneIsOverlooked` |
| | `DecidedForAReason`, `OnlyTheTrustedAct` | `[]DecidedAgainForAReason`, `[]ActsOnlyForTheTrusted` |
| `Mailbox` | `MailTypesHold`, `CommandsDoCompose`, `AnswersAreHeard` | `[]MailTypeOK`, `[]CommandsCompose`, `[]AnswerInTimeIsHeard` |
| `Chat` | `ChatTypesHold`, `ChatLosesNothing`, `DeletedForGood` | `[]ChatTypeOK`, `[]NothingIsLost`, `[]DeletedStaysDeleted` |
| `PlanLoading` | `PlanTypesHold`, `WrittenIsLoaded`, `RacesAreWarned` | `[]PlanTypeOK`, `[]LoadsWhatIsWritten`, `[]NoSilentRace` |
| | `LoopsAreRefused` | the cycle search ends in a refusal if and only if the graph has a loop |
| | `AncestorsAreFound` | without loops, the other search gives each task all that comes before it |
| | `SearchesEnd` | each step of a search lowers `SearchLeft`, three naturals, lexicographically |
| | `LoopsTakeTwo` | a plan the graph refuses has two tasks that were given edges |
| `MCIntake` | `IntakeTypesHold`, `IntakeHolds` | `[]TypeOK`, and the safety properties of the four parts |

### Only model-checked

* All liveness: `EndsUnlessUnanswered`, `CancelGetsThrough`, `CancelEndsTheRun`,
  `EventuallySent`, `EventuallyDecided`, `GateOpens`, `AskReturns`. Arguments from
  fairness need `ENABLED`, which is out of this prover's reach. `SearchesEnd` is the part of
  a liveness argument that can be proved: a measure that every step lowers.
* The seven runs that find a violation: a counterexample needs no proof.

Every invariant and action property of a passing run, and both refinements, is stated
by a theorem.

## 5. Plan

Done: the executor with its promise; recovery over one control directory; the
ledgers, the outbound channel and its promise; the inbound channel; mailbox; chat
sessions; plan loading and contract wiring; the proofs above.

What remains, in the order in which it would add most:

1. The seeding of skipped tasks inside `RunExecutor`, which today is in `Recovery` only.
   The two modules implement one promise of a run; that the steps of an owner in `Recovery` are
   those of `RunExecutor` is argued in section 2 and not proved.
2. An abstract "plan finished over several runs" that `Recovery` implements; by
   `recovery_redone` it can only be stated for the first recovery.
3. The reaction rules (`src/scheduler/reactions.rs`) and the precedence of reviewers
   (`src/config/agent_resolver.rs`) as operators against a reference definition.
4. Measures like `SearchLeft` for the other loops: the scheduler between two gates, a poll,
   a drain.
5. `mailbox send` and the prefix matching of ids; the file-based mock transport of the
   inbound channel.

### Not modelled

* *Reactions, reviewer resolution.* Pure functions of one record; unit tests reach
  them. `RunExecutor` has their outcomes.
* *Project configuration and discovery.* Parsing and scanning, without state.
* *Verification and replanning, evidence and trajectory.* Sequential, after the loop or
  by one writer; their results are text for a reader or an agent.
* *Memory, learning, skills.* Scoring and stores of text, best effort around a run.
* *Reports, docs, benchmarks, code graph, roles, modes, models, architecture, ask,
  external, schema, file guard, providers.* Formatting, tables, generators and thin
  wrappers of processes.
* *Agents and git.* External; an attempt has an outcome, a patch applies or does not.
* *Of the modelled parts:* the text of prompts, logs and events, worktree contents, the
  terminal interface, the streams of the server, and the commands that only print.

The definitions stand for a small share of the source lines, and that share cannot
grow much: most of the crate is prompts, parsing, formatting, command-line and terminal
interface, discovery, reports and benchmarks. The parts that keep shared state and have
more than one actor are the ones modelled.
