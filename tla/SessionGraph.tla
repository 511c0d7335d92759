---------------------------- MODULE SessionGraph ----------------------------
(***************************************************************************)
(* The session graph (sessionGraph.ts): what the core knows of its         *)
(* sessions over restarts, who delegated to whom, which sessions are       *)
(* subagents of which, and the tree the shell draws of it.                 *)
(*                                                                         *)
(* Delegation models the edges the broker decides by, and the core dying   *)
(* between the save of the graph and that of the tasks.  Here every writer *)
(* of the graph is an action, which changes and saves it in one step.      *)
(***************************************************************************)
EXTENDS Naturals, FiniteSets, SequencesExt

CONSTANTS
  Refs,       \* the sessions agents have
  Human,      \* HUMAN_NODE
  MaxEdges    \* edges of the graph (bound)

\* The reference of a session has a "#", HUMAN_NODE has none.
ASSUME HumanAssumption == Human \notin Refs

VARIABLES
  graph,      \* its nodes, their kinds, its edges in order, subagentParents
  disk        \* session-graph.json

graphVars == <<graph, disk>>

Nodes == Refs \cup {Human}

Empty == [nodes |-> << >>, edges |-> << >>, parents |-> << >>]

Edge(kind, from, to) == [kind |-> kind, from |-> from, to |-> to]

(* save: a temporary file that is renamed. *)
Save == disk' = graph'

(* Map.set *)
Upserted(map, key, value) ==
  [k \in DOMAIN map \cup {key} |-> IF k = key THEN value ELSE map[k]]

(* upsertNode, and the nodes it is called with. *)
WithNode(g, r, kind) == [g EXCEPT !.nodes = Upserted(@, r, kind)]

(* addDelegate, addSupplement, addResult *)
WithEdge(g, kind, from, to) == [g EXCEPT !.edges = Append(@, Edge(kind, from, to))]

MayGrow == Len(graph.edges) < MaxEdges
-----------------------------------------------------------------------------
(* session/new *)
NewSessionNode(r) ==
  /\ r \notin DOMAIN graph.nodes
  /\ graph' = WithNode(graph, r, "root")
  /\ Save

(* Mutant: session/resume makes a root of whatever it resumes. *)
ResumedAsRoot(r) == graph' = WithNode(graph, r, "root") /\ Save

(* session/resume keeps the kind of a node. *)
ResumedNode(r) ==
  /\ graph' = WithNode(graph, r, IF r \in DOMAIN graph.nodes THEN graph.nodes[r] ELSE "root")
  /\ Save

(* task/delegate, by the session of an agent, by a human in a session, of  *)
(* which the core may know nothing, or by a human in none.                 *)
DelegatedNode(from, r) ==
  /\ MayGrow /\ r \notin DOMAIN graph.nodes /\ from # r
  /\ LET origin == IF from = Human THEN WithNode(graph, Human, "root") ELSE graph
     IN  graph' = WithEdge(WithNode(origin, r, "delegation-child"), "delegate", from, r)
  /\ Save

(* The task ends: its result goes back to where it came from. *)
ResultAdded(i) ==
  /\ MayGrow /\ i \in DOMAIN graph.edges /\ graph.edges[i].kind = "delegate"
  /\ graph' = WithEdge(graph, "result", graph.edges[i].to, graph.edges[i].from)
  /\ Save

(* delivery/send and task/send_input. *)
SupplementAdded(from, r) ==
  /\ MayGrow
  /\ graph' = WithEdge(graph, "supplement", from, r)
  /\ Save

(* registerNativeSubagent: an agent names a subagent in the stream of its  *)
(* parent, once or again, also one the core has met by itself, but never   *)
(* in the streams of two.                                                  *)
SubagentSpawned(parent, r) ==
  /\ parent \in DOMAIN graph.nodes \ {Human} /\ parent # r
  /\ r \in DOMAIN graph.parents => graph.parents[r] = parent
  /\ graph' = [WithNode(graph, r, "native-subagent")
                 EXCEPT !.parents = Upserted(@, r, parent)]
  /\ Save

(* The core is started again, after a stop or a crash. *)
LoadGraph == graph' = disk /\ UNCHANGED disk

GraphInit == graph = Empty /\ disk = Empty

GraphNext ==
  \/ LoadGraph
  \/ \E i \in 1 .. MaxEdges : ResultAdded(i)
  \/ \E r \in Refs :
       \/ NewSessionNode(r) \/ ResumedNode(r)
       \/ \E from \in Refs : SubagentSpawned(from, r)
       \/ \E from \in Refs \cup {Human} : DelegatedNode(from, r) \/ SupplementAdded(from, r)

GraphSpec == GraphInit /\ [][GraphNext]_graphVars
-----------------------------------------------------------------------------
(* What r delegated to, and its subagents, in graph g. *)
Delegated(g, r) ==
  {g.edges[i].to : i \in {j \in DOMAIN g.edges :
                            g.edges[j].kind = "delegate" /\ g.edges[j].from = r}}
Natives(g, r) ==
  {s \in DOMAIN g.parents : g.parents[s] = r /\ g.nodes[s] = "native-subagent"}

(* The order among those, that of the edges and that of the nodes, is left *)
(* open.                                                                   *)
Children(g, r) == SetToSeq(Delegated(g, r)) \o SetToSeq(Natives(g, r))

(* The first session to do is built and its children are next; one that    *)
(* was met before, or that has no node, is cut off.                        *)
Visit(g, todo, built) ==
  IF Head(todo) \in DOMAIN g.nodes \ ToSet(built)
  THEN <<Children(g, Head(todo)) \o Tail(todo), Append(built, Head(todo))>>
  ELSE <<Tail(todo), built>>

(* build, depth first *)
Build(g) ==
  LET b[p \in Seq(Nodes) \X Seq(Nodes)] ==
        IF p[1] = << >> THEN p[2] ELSE b[Visit(g, p[1], p[2])]
  IN  b

(* tree *)
Tree(g, root) == Build(g)[<< <<root>>, << >> >>]
-----------------------------------------------------------------------------
(* The tree of a session shows each session once, with all that is below   *)
(* it, however sessions delegate to and descend from one another; it loses *)
(* none over results, resumes and restarts, and a session that was         *)
(* delegated to or spawned never becomes a root (sessionGraph.ts, tree;    *)
(* PROTOCOL.md:536-560).                                                   *)
TreesOnlyGrow ==
  [][\A r \in DOMAIN graph.nodes :
       LET tree == Tree(graph', r)
       IN  /\ ToSet(Tree(graph, r)) \subseteq ToSet(tree)
           /\ Cardinality(ToSet(tree)) = Len(tree)
           /\ \A s \in ToSet(tree) : ToSet(Children(graph', s)) \subseteq ToSet(tree)
           /\ graph.nodes[r] # "root" => graph'.nodes[r] # "root"]_graphVars
=============================================================================
