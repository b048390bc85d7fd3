------------------------------- MODULE Planner -------------------------------
(***************************************************************************)
(* From a goal to a task graph, and the two readings of a graph: the       *)
(* groups of tasks that can run side by side, which every surface reports  *)
(* of a new run, and the order of all tasks, or the finding that there is  *)
(* a cycle.                                                                *)
(*                                                                         *)
(* A node is the place of its task in the plan.  Edges are kept in a list, *)
(* with repetitions.  Goals, files and capabilities of the tasks are left  *)
(* out.                                                                    *)
(***************************************************************************)
EXTENDS Integers, Sequences, SequencesExt, FiniteSets, Positions

CONSTANTS
  Plans,     \* plans a model may answer with: sequences of [id, needs]
  MaxParts   \* bound: parts a goal is split into

ASSUME PlannerAssumption ==
  /\ MaxParts \in Nat
  /\ \A p \in Plans : p # <<>> /\ p \in Seq([id : STRING, needs : SUBSET STRING])

VARIABLES
  plan,    \* the graph: [nodes, edges]
  status,  \* of each node
  reading, \* what it is read for: "groups" or "order"
  groups, remaining, finished,   \* independent_groups
  degree, queue, sorted,         \* topological_sort
  outcome  \* "running", "grouped", "sorted" or "cycle"

planvars == <<plan, status, reading, groups, remaining, finished, degree, queue,
              sorted, outcome>>

-----------------------------------------------------------------------------
(* parse_llm_decomposition: an id names the last task that has it, and a   *)
(* dependency on an id no task has is dropped.                             *)
NodeOf(tasks, id) ==
  LET with == {i \in DOMAIN tasks : tasks[i].id = id}
  IN IF with = {} THEN {} ELSE {CHOOSE i \in with : \A j \in with : j <= i}

EdgesOf(tasks, i) ==
  SetToSeq({<<f, t>> : f \in UNION {NodeOf(tasks, d) : d \in tasks[i].needs},
                       t \in NodeOf(tasks, tasks[i].id)})

Parsed(tasks) ==
  [nodes |-> DOMAIN tasks,
   edges |-> Along([i \in DOMAIN tasks |-> EdgesOf(tasks, i)], <<>>, \o)[Len(tasks)]]

(* Without a plan that can be parsed the goal is split at its commas, or   *)
(* at "and"; the parts do not depend on each other.  A goal of commas only *)
(* has no parts, and is one task.                                          *)
Heuristic(parts) ==
  [nodes |-> 1..(IF parts = 0 THEN 1 ELSE parts), edges |-> <<>>]

From(n) == {i \in DOMAIN plan.edges : plan.edges[i][1] = n}
Into(n) == {i \in DOMAIN plan.edges : plan.edges[i][2] = n}

(* A way leads from m to n along the edges: n is in every set that holds    *)
(* what m leads to and what its members lead to.                           *)
Behind(m, n) ==
  \A S \in SUBSET plan.nodes :
    (\A i \in DOMAIN plan.edges :
       plan.edges[i][1] \in S \cup {m} => plan.edges[i][2] \in S) => n \in S
OnCycle(n) == Behind(n, n)
Upstreams(n) == {m \in plan.nodes : Behind(m, n)}

(* A graph is grouped when it is new, or as it is stored: a task runs when *)
(* all it needs is done.                                                   *)
Statuses ==
  {s \in [plan.nodes -> {"pending", "running", "done", "failed"}] :
     \A n \in plan.nodes : s[n] \in {"running", "done"} =>
       ~OnCycle(n) /\ \A m \in Upstreams(n) : s[m] = "done"}

PlanInit ==
  /\ plan \in {Parsed(p) : p \in Plans} \cup {Heuristic(k) : k \in 0..MaxParts}
  /\ reading \in {"groups", "order"}
  /\ IF reading = "order" THEN status = [n \in plan.nodes |-> "pending"]
     ELSE status \in Statuses
  /\ groups = <<>>
  /\ remaining = {n \in plan.nodes : status[n] = "pending"}
  /\ finished = {n \in plan.nodes : status[n] = "done"}
  /\ degree = [n \in plan.nodes |-> Cardinality(Into(n))]
  /\ queue \in SetToSeqs({n \in plan.nodes : degree[n] = 0})
  /\ sorted = <<>>
  /\ outcome = "running"

-----------------------------------------------------------------------------
(* One turn of the loop of independent_groups.                             *)
Group ==
  {n \in remaining : \A i \in Into(n) : plan.edges[i][1] \in finished}

NextGroup ==
  /\ outcome = "running" /\ reading = "groups"
  /\ IF Group = {}
     THEN /\ outcome' = "grouped"
          /\ UNCHANGED <<groups, remaining, finished>>
     ELSE /\ groups' = Append(groups, Group)
          /\ remaining' = remaining \ Group
          /\ finished' = finished \cup Group
          /\ UNCHANGED outcome
  /\ UNCHANGED <<plan, status, reading, degree, queue, sorted>>

(* mutant: a repeated edge is counted once *)
DegreeOnce(n) ==
  [m \in plan.nodes |->
     degree[m] - Cardinality({plan.edges[i] : i \in From(n) \cap Into(m)})]

DegreeAfter(n) ==
  [m \in plan.nodes |-> degree[m] - Cardinality(From(n) \cap Into(m))]

(* One turn of the loop of topological_sort: the neighbours whose last     *)
(* incoming edge this was are queued in the order of the edges.            *)
Freeing(n) ==
  {i \in From(n) :
     LET m == plan.edges[i][2]
     IN /\ degree[m] > 0 /\ DegreeAfter(n)[m] = 0
        /\ \A j \in From(n) \cap Into(m) : j <= i}

NextSorted ==
  /\ outcome = "running" /\ reading = "order" /\ queue # <<>>
  /\ LET n     == Head(queue)
         freed == Pick(plan.edges, Freeing(n))
     IN /\ sorted' = Append(sorted, n)
        /\ degree' = DegreeAfter(n)
        /\ queue' = Tail(queue) \o [k \in DOMAIN freed |-> freed[k][2]]
  /\ UNCHANGED <<plan, status, reading, groups, remaining, finished, outcome>>

EndSort ==
  /\ outcome = "running" /\ reading = "order" /\ queue = <<>>
  /\ outcome' = IF Len(sorted) = Cardinality(plan.nodes) THEN "sorted" ELSE "cycle"
  /\ UNCHANGED <<plan, status, reading, groups, remaining, finished, degree, queue, sorted>>

PlanNext == NextGroup \/ NextSorted \/ EndSort

PlanSpec == PlanInit /\ [][PlanNext]_planvars

-----------------------------------------------------------------------------
(* The order is an order: all tasks, none twice, each after those it       *)
(* needs; it is refused only if there is a cycle.  A task is in a group    *)
(* just when nothing it needs, however far away, has failed, is running or *)
(* waits for itself; and it is in the first group it can be in             *)
(* (topological_sort, independent_groups).                                 *)
ReadingsAreRight ==
  /\ outcome = "sorted" =>
       /\ ToSet(sorted) = plan.nodes
       /\ \A i, j \in DOMAIN sorted : Behind(sorted[i], sorted[j]) => i < j
  /\ outcome = "cycle" => \E n \in plan.nodes : OnCycle(n)
  /\ outcome = "grouped" =>
       /\ \A n \in plan.nodes :
            (\E i \in DOMAIN groups : n \in groups[i]) <=>
              /\ status[n] = "pending"
              /\ \A m \in Upstreams(n) : ~OnCycle(m) /\ status[m] \in {"pending", "done"}
       /\ \A i \in DOMAIN groups : \A n \in groups[i] :
            i > 1 => \E m \in groups[i - 1] : Behind(m, n)
=============================================================================
