----------------------------- MODULE PlanLoading -----------------------------
(***************************************************************************)
(* From PLAN.yaml to a task graph, as `maestro run` goes: the plan is      *)
(* expanded and validated (src/config/plan.rs), admitted by its size, wired*)
(* along the projects' contracts and linted (src/config/analyze.rs), and   *)
(* made a graph (src/scheduler/dag.rs).                                    *)
(*                                                                         *)
(* detect_dependency_cycle and compute_ancestors are recursive; here their *)
(* recursion is a stack and a step is one visit, one dependency or one     *)
(* return.                                                                 *)
(*                                                                         *)
(* Abstracted: texts, and the checks of one task's own fields; an id is a  *)
(* name, or a name and a project where the code joins the two with "__";   *)
(* a path is the sequence of its components.                               *)
(***************************************************************************)
EXTENDS Integers, FiniteSets, SequencesExt

CONSTANTS
  Names, Projects, NoProject,
  Parts,       \* components of paths
  Outputs,     \* names of outputs
  Files        \* what there is to read: PLAN.yaml, projects.yaml and the flags

Ids     == Seq(Names \cup Projects)
Task    == [id : Ids, project : Projects \cup {NoProject}, each : Seq(Projects),
            depends_on : Seq(Ids), inputs : Seq([from : Ids, output : Outputs]),
            outputs : SUBSET Outputs]
Path    == Seq(Parts)     \* <<>>: none declared
File    == [tasks : Seq(Task), provides : [Projects -> Path], consumes : [Projects -> Path],
            cap : Nat, wire : BOOLEAN]

ASSUME FilesAssumption == Files \subseteq File /\ NoProject \notin Projects

VARIABLES
  source,      \* what is read, never changed
  pc,        \* how far it is
  tasks,     \* the plan's tasks
  loaded,    \* those that Plan::load returned (a ghost)
  stack,     \* the calls of a search, the innermost last
  found,     \* its finished tasks, each with the ancestors it gathered
  warned     \* the tasks analyze warns about

planVars == <<source, pc, tasks, loaded, stack, found, warned>>

Searches == {"cycle", "wire", "analyze"}
Ended    == {"invalid", "too_large", "cyclic", "started"}
Stages   == Searches \cup Ended \cup {"read", "check", "loaded", "graph"}

Frame == [id : Ids, rest : Seq(Ids), set : SUBSET Ids]

PlanTypeOK ==
  /\ source \in File
  /\ pc \in Stages
  /\ tasks \in Seq(Task) /\ loaded \in Seq(Task)
  /\ stack \in Seq(Frame)
  /\ DOMAIN found \subseteq Ids /\ \A id \in DOMAIN found : found[id] \in SUBSET Ids
  /\ warned \subseteq Ids

PlanInit ==
  /\ source \in Files
  /\ pc = "read"
  /\ tasks = <<>> /\ loaded = <<>>
  /\ stack = <<>> /\ found = <<>> /\ warned = {}

------------------------------------------------------------------------------
(* expand_for_each, rewrite_deps, add_data_dependency_edges.                *)
Template(t)   == t.each # <<>> /\ t.project = NoProject
Templates(ts) == {i \in DOMAIN ts : Template(ts[i])}
CopyIds(t)    == [k \in DOMAIN t.each |-> Append(t.id, t.each[k])]

(* expansion_map: of two templates with one id the later one counts.        *)
Expandable(ts, id) == \E i \in Templates(ts) : ts[i].id = id
Expansion(ts, id)  == CopyIds(ts[Max({i \in Templates(ts) : ts[i].id = id})])

Rewritten(ts, deps) ==
  FlattenSeq([k \in DOMAIN deps |->
                IF Expandable(ts, deps[k]) THEN Expansion(ts, deps[k]) ELSE <<deps[k]>>])

Copies(ts, t) ==
  LET copy == [t EXCEPT !.depends_on = Rewritten(ts, t.depends_on)]
      ids  == Expansion(ts, t.id)
  IN  IF ~Expandable(ts, t.id) THEN <<copy>>
      ELSE [k \in 1 .. Min({Len(t.each), Len(ids)}) |->
              [copy EXCEPT !.id = ids[k], !.project = t.each[k], !.each = <<>>]]

WithInputs(t) ==
  LET Data(deps, input) == IF input.from = t.id \/ input.from \in ToSet(deps) THEN deps
                           ELSE Append(deps, input.from)
  IN  [t EXCEPT !.depends_on = FoldLeft(Data, t.depends_on, t.inputs)]

Expanded(ts) ==
  LET all == FlattenSeq([i \in DOMAIN ts |-> Copies(ts, ts[i])])
  IN  [i \in DOMAIN all |-> WithInputs(all[i])]

Expand ==
  /\ pc = "read"
  /\ tasks' = Expanded(source.tasks)
  /\ pc' = "check"
  /\ UNCHANGED <<source, loaded, stack, found, warned>>

IdsOf(ts) == {ts[i].id : i \in DOMAIN ts}
ById(id)  == tasks[CHOOSE i \in DOMAIN tasks : tasks[i].id = id]

(* validate, up to its search.                                              *)
Feeds(input, t) ==
  /\ input.from # t.id
  /\ input.from \in IdsOf(tasks) /\ input.output \in ById(input.from).outputs

Valid ==
  /\ \A i, j \in DOMAIN tasks : tasks[i].id = tasks[j].id => i = j
  /\ \A i \in DOMAIN tasks :
       /\ ToSet(tasks[i].depends_on) \subseteq IdsOf(tasks) \ {tasks[i].id}
       /\ tasks[i].project # NoProject \/ tasks[i].each # <<>>
       /\ \A input \in ToSet(tasks[i].inputs) :
            Feeds(input, tasks[i]) /\ input.from \in ToSet(tasks[i].depends_on)

Validate ==
  /\ pc = "check"
  /\ pc' = IF Valid THEN "cycle" ELSE "invalid"
  /\ UNCHANGED <<source, tasks, loaded, stack, found, warned>>

------------------------------------------------------------------------------
(* The search, depth first: detect_dependency_cycle gives up at a task it   *)
(* is still visiting, compute_ancestors passes over it and gathers.         *)
Top       == stack[Len(stack)]
Visiting  == {stack[k].id : k \in DOMAIN stack}
Call(id)  == [id |-> id, rest |-> ById(id).depends_on, set |-> {}]
Gather(S) == IF pc = "cycle" THEN {} ELSE S
OnTop(frame)   == [stack EXCEPT ![Len(stack)] = frame]
StillToVisit   == {i \in DOMAIN tasks : tasks[i].id \notin DOMAIN found}

Visit ==
  /\ pc \in Searches /\ stack = <<>> /\ StillToVisit # {}
  /\ stack' = <<Call(tasks[Min(StillToVisit)].id)>>
  /\ UNCHANGED <<source, pc, tasks, loaded, found, warned>>

NoLoopAt(d) == FALSE                                                        \* mutant
LoopAt(d) == d \in Visiting

Depend ==
  /\ pc \in Searches /\ stack # <<>> /\ Top.rest # <<>>
  /\ LET dep  == Head(Top.rest)
         next == [Top EXCEPT !.rest = Tail(@),
                             !.set = @ \cup Gather({dep} \cup IF dep \in DOMAIN found
                                                              THEN found[dep] ELSE {})]
     IN  IF pc = "cycle" /\ dep \notin DOMAIN found /\ LoopAt(dep)
         THEN pc' = "invalid" /\ UNCHANGED stack
         ELSE /\ stack' = IF dep \in DOMAIN found \cup Visiting THEN OnTop(next)
                          ELSE Append(OnTop(next), Call(dep))
              /\ UNCHANGED pc
  /\ UNCHANGED <<source, tasks, loaded, found, warned>>

Return ==
  /\ pc \in Searches /\ stack # <<>> /\ Top.rest = <<>>
  /\ found' = [id \in DOMAIN found \cup {Top.id} |->
                 IF id = Top.id THEN Top.set ELSE found[id]]
  /\ LET callers == SubSeq(stack, 1, Len(stack) - 1)
     IN  stack' = IF callers = <<>> THEN <<>>
                  ELSE [callers EXCEPT ![Len(callers)].set = @ \cup Top.set]
  /\ UNCHANGED <<source, pc, tasks, loaded, warned>>

SearchOver == pc \in Searches /\ stack = <<>> /\ StillToVisit = {}

Load ==
  /\ pc = "cycle" /\ SearchOver
  /\ pc' = "loaded" /\ loaded' = tasks /\ found' = <<>>
  /\ UNCHANGED <<source, tasks, stack, warned>>

(* enforce_task_cap; 0 is no cap.  --no-wire-contracts.                     *)
Admit ==
  /\ pc = "loaded"
  /\ pc' = IF source.cap > 0 /\ Len(tasks) > source.cap THEN "too_large"
           ELSE IF source.wire THEN "wire" ELSE "analyze"
  /\ UNCHANGED <<source, tasks, loaded, stack, found, warned>>

------------------------------------------------------------------------------
(* contracts_match: the last two components.  producer_projects_for.        *)
Last2(path) == SubSeq(path, Max({1, Len(path) - 1}), Len(path))
Match(a, b) == a # <<>> /\ b # <<>> /\ Last2(a) = Last2(b)
ProducersFor(p) ==
  {q \in Projects \ {p} : p # NoProject /\ Match(source.provides[q], source.consumes[p])}

Tasks1(ts)         == {ts[i] : i \in DOMAIN ts}
ProducerIds(ts, t) == {s.id : s \in {s \in Tasks1(ts) : s.project \in ProducersFor(t.project)}}
Consumers(ts)      == {t \in Tasks1(ts) : ProducerIds(ts, t) # {}}

(* Terminal producers: those behind which no other one waits.               *)
Firsts(P)    == {p \in P : \A q \in P \ {p} : q \notin found[p]}           \* mutant
Terminals(P) == {p \in P : \A q \in P \ {p} : p \notin found[q]}

(* wire_contract_dependencies: the edges are all chosen by the ancestors    *)
(* there were before.                                                       *)
NewEdges(t) ==
  LET P == ProducerIds(tasks, t)
  IN  IF P \cap found[t.id] # {} THEN {}
      ELSE {p \in Terminals(P) : t.id \notin found[p]}

Wired(t) == [t EXCEPT !.depends_on = @ \o SetToSeq(NewEdges(t) \ ToSet(@))]

Wire ==
  /\ pc = "wire" /\ SearchOver
  /\ tasks' = [i \in DOMAIN tasks |-> Wired(tasks[i])]
  /\ pc' = "analyze" /\ found' = <<>>
  /\ UNCHANGED <<source, loaded, stack, warned>>

(* check_contracts.                                                         *)
CheckContracts ==
  /\ pc = "analyze" /\ SearchOver
  /\ warned' = {t.id : t \in {t \in Consumers(tasks) :
                                ProducerIds(tasks, t) \cap found[t.id] = {}}}
  /\ pc' = "graph"
  /\ UNCHANGED <<source, tasks, loaded, stack, found>>

(* What must come before a task: the least set that holds its dependencies  *)
(* and theirs.                                                              *)
DependsOn(ts, id) == UNION {ToSet(t.depends_on) : t \in {t \in Tasks1(ts) : t.id = id}}
Before(ts, id) ==
  {b \in IdsOf(ts) : \A S \in SUBSET IdsOf(ts) :
     /\ DependsOn(ts, id) \subseteq S
     /\ \A s \in S : DependsOn(ts, s) \subseteq S
     => b \in S}
Loops(ts) == \E id \in IdsOf(ts) : id \in Before(ts, id)

(* TaskGraph::from_plan, which asks petgraph.                               *)
FromPlan ==
  /\ pc = "graph"
  /\ pc' = IF Loops(tasks) THEN "cyclic" ELSE "started"
  /\ UNCHANGED <<source, tasks, loaded, stack, found, warned>>

PlanNext == \/ Expand \/ Validate \/ Visit \/ Depend \/ Return \/ Load \/ Admit
            \/ Wire \/ CheckContracts \/ FromPlan

PlanSpec == PlanInit /\ [][PlanNext]_planVars

------------------------------------------------------------------------------
(* Properties.                                                              *)

(* What a plan file says: every task, or every copy of a template, waits    *)
(* for every task, or every copy of a template, it depends on, and for the  *)
(* tasks its inputs come from.                                              *)
Written    == source.tasks
OwnIds(t)  == IF Template(t) THEN ToSet(CopyIds(t)) ELSE {t.id}
Meant(ids) == UNION {LET T == {i \in DOMAIN Written : Written[i].id = d}
                     IN  IF T = {} THEN {d} ELSE UNION {OwnIds(Written[i]) : i \in T} : d \in ids}
Waits(t, id) == Meant(ToSet(t.depends_on)) \cup ({n.from : n \in ToSet(t.inputs)} \ {id})
Statement ==
  UNION {{[task |-> <<i, id>>, id |-> id, waits |-> Waits(Written[i], id)] :
            id \in OwnIds(Written[i])} : i \in DOMAIN Written}
Makes(id, output) ==
  \E i \in DOMAIN Written : id \in OwnIds(Written[i]) /\ output \in Written[i].outputs

(* It makes sense if no id is given twice and it can be carried out in some *)
(* order.                                                                   *)
Sensible ==
  /\ \A i, j \in DOMAIN Written : i # j =>
       Written[i].id # Written[j].id /\ OwnIds(Written[i]) \cap OwnIds(Written[j]) = {}
  /\ \A i \in DOMAIN Written :
       /\ Template(Written[i]) => IsInjective(Written[i].each)
       /\ Written[i].project # NoProject \/ Written[i].each # <<>>
       /\ \A n \in ToSet(Written[i].inputs) :
            Makes(n.from, n.output) /\ n.from \notin OwnIds(Written[i])
  /\ \A s \in Statement : s.waits \subseteq {r.id : r \in Statement}
  /\ \A S \in SUBSET Statement : S # {} => \E s \in S : s.waits \cap {r.id : r \in S} = {}

(* A template hides a plain task of its own id, without a word.             *)
Hidden == \E i \in Templates(Written), j \in DOMAIN Written \ Templates(Written) :
            Written[i].id = Written[j].id

(* Plan::load accepts the plans that can be carried out in some order and   *)
(* refuses the others, and what it returns asks for the order that was      *)
(* written, for every copy of a template; except that a template drops a    *)
(* plain task with its id.                                                  *)
LoadsWhatIsWritten ==
  ~Hidden =>
    /\ pc = "invalid" => ~Sensible
    /\ pc = "loaded" =>
         /\ Sensible
         /\ {[id |-> t.id, waits |-> ToSet(t.depends_on)] : t \in Tasks1(loaded)}
              = {[id |-> s.id, waits |-> s.waits] : s \in Statement}

(* A run that starts lets no consumer of a contract overtake all its        *)
(* producers without a warning.  With wiring, one that waited for none of   *)
(* them waits for all the last ones, those excepted that already waited for *)
(* it: a contract declared the wrong way round.                             *)
NoSilentRace ==
  pc = "started" =>
    \A t \in Consumers(tasks) :
      LET P        == ProducerIds(tasks, t)
          LastOnes == {p \in P : \A q \in P \ {p} : p \notin Before(loaded, q)}
      IN  /\ t.id \in warned <=> P \cap Before(tasks, t.id) = {}
          /\ source.wire /\ P \cap Before(loaded, t.id) = {} =>
               \A p \in LastOnes : p \in Before(tasks, t.id) \/ t.id \in Before(loaded, p)

(* analyze.rs says of the wiring "Cycle-safe: an edge that would close a    *)
(* loop is skipped": a plan that loads still makes a graph afterwards.      *)
WiringClosesNoLoop == pc # "cyclic"
=============================================================================
