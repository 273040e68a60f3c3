------------------------------ MODULE MC_Graph ------------------------------
(***************************************************************************)
(* The queue, alone and in the hands of the graph's algorithms: a          *)
(* behaviour is of one kind, chosen at the start and then fixed.           *)
(*                                                                         *)
(* Up to four vertices: enough for a vertex reached over two ways of       *)
(* different lengths or costs, for a second and a third sub-graph, and for *)
(* a path that is replaced twice.  Weights that are powers of two give     *)
(* different paths different costs.                                        *)
(***************************************************************************)
EXTENDS Graph

CONSTANTS Kinds, QueueValue

VARIABLE kind

MCVertices == 1 .. 4
MCWeight == {1, 2, 4, 8, 16}

Forward == {p \in AllPairs : p[1] < p[2]}

GraphsInit == kind \in Kinds /\ GraphInit

GraphsNext ==
  /\ UNCHANGED kind
  /\ \/ kind = "queue" /\ Next /\ UNCHANGED graphVars
     \/ kind # "queue" /\ Build
     \/ kind = "traverse" /\ (Traverse \/ Link(AllPairs, {1}))
     \/ kind = "weigh" /\ (Weigh \/ Link(AllPairs, Weight))
     \/ kind = "schedule" /\ (Schedule \/ Link(Forward, {1, 2}))

(* As FairSpec: queue_free, once called, runs on. *)
GraphsSpec ==
  /\ GraphsInit
  /\ [][GraphsNext]_<<vars, graphVars, kind>>
  /\ WF_<<vars, graphVars, kind>>(pc = "freeing" /\ GraphsNext)

-----------------------------------------------------------------------------
(* The graphs that are built.  Edges are added in one order, and all       *)
(* vertices before the first of them; a traversal looks at no weight;      *)
(* where weights are compared the graph is simple and they are distinct;   *)
(* a schedule has no cycle and begins with the first vertex.  The queue    *)
(* alone holds two values.                                                 *)
EdgesOf(g) == IF g = NULL THEN <<>> ELSE g.edges

Smaller(e, f) == e.from < f.from \/ (e.from = f.from /\ e.to <= f.to)

Scope ==
  LET edges == EdgesOf(graph')
      n == Len(edges)
  IN
  /\ kind = "queue" => \A c \in DOMAIN heap' : heap'[c].data \in QueueValue
  /\ n > 1 => Smaller(edges[n - 1], edges[n])
  /\ graph # NULL /\ graph' # NULL /\ graph.edges # <<>> => VertexNum = Len(graph'.incident)
  /\ call' \in {"bfs first", "dfs"} /\ call = "none" => run'.start \in {1, 3}
  /\ call' = "forward first" => run'.start = 1
  /\ kind = "traverse" => n <= 3
  /\ n > 0 /\ kind # "schedule" /\ graph'.graphType = "undirected" =>
       edges[n].from <= edges[n].to
  /\ kind = "weigh" =>
       /\ graph' # NULL => Simple'
       /\ \A i, j \in 1 .. n : i # j => edges[i].weight # edges[j].weight
       /\ n > 0 /\ graph'.graphType = "directed" =>
            n <= 3 /\ \A i \in 1 .. n : edges[i].weight <= 4
  /\ kind = "schedule" => n <= 4

=============================================================================
