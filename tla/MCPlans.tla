------------------------------ MODULE MCPlans ------------------------------
(***************************************************************************)
(* Plan files for TLC: every way three tasks can depend on each other; two *)
(* tasks, one of them maybe a template, in every way the loader tells      *)
(* apart; and four tasks under contracts.                                  *)
(***************************************************************************)
EXTENDS PlanLoading, TLC

CONSTANTS a, b, c, d, lib, ui, gen, docs, here, api, sdk, out, other

AllNames    == {a, b, c, d}
AllProjects == {lib, ui, gen, docs}
AllParts    == {here, api, sdk}
AllOutputs  == {out, other}

Nothing == [j \in AllProjects |-> <<>>]
PlanOf(ts, provides, consumes, cap, wire) ==
  [tasks |-> ts, provides |-> provides, consumes |-> consumes, cap |-> cap, wire |-> wire]
TaskOf(id, project, each, deps, inputs) ==
  [id |-> id, project |-> project, each |-> each, depends_on |-> deps, inputs |-> inputs,
   outputs |-> {out}]

Plain(n, project, deps) == TaskOf(<<n>>, project, <<>>, SetToSeq({<<m>> : m \in deps}), <<>>)

Knots == {PlanOf(<<Plain(a, lib, A), Plain(b, lib, B), Plain(c, lib, C)>>,
                 Nothing, Nothing, 0, FALSE) : A, B, C \in SUBSET {a, b, c}}

Shapes   == {<<lib, <<>>>>, <<NoProject, <<lib, ui>>>>, <<NoProject, <<lib, lib>>>>, <<NoProject, <<gen>>>>,
             <<NoProject, <<>>>>, <<lib, <<ui>>>>}
Need(id, output) == <<[from |-> id, output |-> output]>>
FanOuts  == {PlanOf(<<TaskOf(<<a>>, x[1], x[2], A, <<>>), TaskOf(n, y[1], y[2], B, I)>>,
                    Nothing, Nothing, 3, TRUE) :
               x \in Shapes, A \in {<<>>, <<<<b>>>>, <<<<a>>>>}, n \in {<<a>>, <<b>>, <<a, lib>>},
               y \in {<<ui, <<>>>>, <<NoProject, <<lib, ui>>>>},
               B \in {<<>>, <<<<a>>>>, <<<<b>>>>, <<<<a, lib>>>>},
               I \in {<<>>, Need(<<a>>, out), Need(<<a, lib>>, out), Need(<<a>>, other)}}

(* lib and ui consume each other's contract; lib and gen provide for ui and *)
(* for docs; lib and gen both provide the one that ui consumes.             *)
Api == <<here, api>>
Far == <<here, here, api>>
Sdk == <<here, sdk>>
Mutual == [provides |-> (lib :> Api @@ ui :> Sdk) @@ Nothing,
           consumes |-> (ui :> Far @@ lib :> Sdk) @@ Nothing]
Pairs  == [provides |-> (lib :> Api @@ gen :> Sdk) @@ Nothing,
           consumes |-> (ui :> Far @@ docs :> Sdk) @@ Nothing]
Shared == [provides |-> (lib :> Api @@ gen :> Far) @@ Nothing,
           consumes |-> (ui :> Api) @@ Nothing]

Few(n) == {{}} \cup {{m} : m \in AllNames \ {n}}
Wirings == {PlanOf(<<Plain(a, lib, A), Plain(b, ui, B), Plain(c, gen, C), Plain(d, z[2], D)>>,
                   z[1].provides, z[1].consumes, 0, z[3]) :
              A \in Few(a), B \in Few(b), C \in Few(c), D \in Few(d),
              z \in {<<Mutual, lib, TRUE>>, <<Pairs, docs, TRUE>>, <<Shared, ui, TRUE>>,
                     <<Shared, docs, FALSE>>}}

APlan    == PlanOf(<<Plain(a, lib, {})>>, Nothing, Nothing, 0, FALSE)
AllFiles == UNION {{APlan}, Knots, FanOuts, Wirings}
=============================================================================
