------------------------------- MODULE Graph -------------------------------
(***************************************************************************)
(* The graph of src/src/base/graph.c: vertices and edges in lists, every   *)
(* vertex with the list of its edges, and the algorithms on them.          *)
(*                                                                         *)
(* The two traversals and the critical path run step by step.  The first   *)
(* traversal and the critical path use the queue of module Queue, whose    *)
(* pushes they never test: every push of a traversal can be refused.  The  *)
(* other algorithms touch nothing but their own result and are one step.   *)
(* The lists are sequences, the AVL tree of Dijkstra's algorithm a set of  *)
(* costs and vertices.  Allocations other than the traversal's succeed.    *)
(*                                                                         *)
(* An operator X_Suffix next to an operator X is X with a plausible bug;   *)
(* no action uses it.                                                      *)
(***************************************************************************)
EXTENDS Queue, SequencesExt, FiniteSetsExt

CONSTANTS
  MaxVertices,   \* bounds of the graphs built
  MaxEdges,
  Weight,        \* the weights of edges
  Infinity,      \* FLT_MAX
  MaxRefused     \* how many pushes of one traversal can be refused

ASSUME GraphAssumption ==
  /\ MaxVertices \in Nat
  /\ 1 .. MaxVertices \subseteq Value    \* a queue takes any pointer

VARIABLES
  graph,    \* the graph's type and lists, or NULL
  call,     \* the call that runs and how far it is, or "none"
  run,      \* its local variables
  answer    \* what the last call gave its caller

graphVars == <<graph, call, run, answer>>

NoAnswer == [op |-> "none"]

(* The ids are the places in the list of vertices. *)
Vertices == DOMAIN graph.incident
VertexNum == Len(graph.incident)
Undirected == graph.graphType = "undirected"

-----------------------------------------------------------------------------
(* graph_new, graph_add_new_vertex, graph_add_new_edge and graph_free.     *)
(* The weight of a new edge is 1 until its creator assigns another one.    *)
NewGraph(type) ==
  /\ graph = NULL
  /\ graph' = [graphType |-> type, incident |-> <<>>, edges |-> <<>>]
  /\ UNCHANGED <<call, run, answer>>

CanChange == graph # NULL /\ call = "none" /\ answer = NoAnswer

AddVertex ==
  /\ CanChange
  /\ VertexNum < MaxVertices
  /\ graph' = [graph EXCEPT !.incident = Append(@, <<>>)]
  /\ UNCHANGED <<call, run, answer>>

(* An undirected edge goes to the lists of both ends. *)
Attach_Source(incident, s, t, e) ==    \* mutant: only to the first
  [incident EXCEPT ![s] = Append(@, e)]
Attach(incident, s, t, e) ==
  LET atSource == [incident EXCEPT ![s] = Append(@, e)] IN
  IF Undirected THEN [atSource EXCEPT ![t] = Append(@, e)] ELSE atSource

AddEdge(s, t, w) ==
  /\ CanChange
  /\ {s, t} \subseteq Vertices
  /\ Len(graph.edges) < MaxEdges
  /\ graph' = [graph EXCEPT
       !.edges = Append(@, [from |-> s, to |-> t, weight |-> w]),
       !.incident = Attach(@, s, t, Len(graph.edges) + 1)]
  /\ UNCHANGED <<call, run, answer>>

GraphFree ==
  /\ CanChange
  /\ graph' = NULL
  /\ UNCHANGED <<call, run, answer>>

(* The caller is done with what the last call gave it. *)
TakeAnswer ==
  /\ answer # NoAnswer
  /\ answer' = NoAnswer
  /\ UNCHANGED <<graph, call, run>>

-----------------------------------------------------------------------------
(* What the traversals share: the neighbour over an edge, the marks of the *)
(* vertices, and the edges of the current vertex still to be looked at.    *)
Neighbor(v, e) ==
  LET edge == graph.edges[e] IN
  IF Undirected /\ edge.from # v THEN edge.from ELSE edge.to

NoRun == [refused |-> {}]

NewRun(start) ==
  [start |-> start,
   visited |-> [v \in Vertices |-> "0"],
   frames |-> <<>>,            \* innermost call first
   subGraphNo |-> 0,
   calls |-> <<>>,             \* the arguments of the callback
   refused |-> {},             \* the vertices a failed push has dropped
   early |-> [v \in Vertices |-> 0],
   late |-> [v \in Vertices |-> Infinity]]

Frame(v, edges) == [vertex |-> v, iter |-> edges]

Unvisited == {v \in Vertices : run.visited[v] = "0"}
Looking == run.frames # <<>> /\ run.frames[1].iter # <<>>
Current == run.frames[1].vertex
NextEdge == Head(run.frames[1].iter)
Advance(r) == [r EXCEPT !.frames[1].iter = Tail(@)]

(* The address malloc gives an entry of the queue is compared with none.   *)
FreshCell == CHOOSE c \in Cell : c \notin DOMAIN heap
PushVertex(v) == FreshCell \in Cell /\ PushTail(FreshCell, v)

(* queue_push_tail of a vertex, with its result ignored. *)
Enqueue(v, role, r) ==
  \/ PushVertex(v) /\ run' = r
  \/ /\ Cardinality(run.refused) < MaxRefused
     /\ PushFails
     /\ run' = [r EXCEPT !.refused = @ \cup {<<role, v>>}]

CanCall == graph # NULL /\ call = "none" /\ answer = NoAnswer

-----------------------------------------------------------------------------
(* graph_traverse_bfs: a vertex is marked 1 when it is queued and 2 when   *)
(* it is taken; when the queue is empty the traversal goes on from the     *)
(* first vertex it has not met.                                            *)
BfsStart(start) ==
  /\ CanCall
  /\ start \in Vertices
  /\ New
  /\ call' = "bfs first"
  /\ run' = NewRun(start)
  /\ UNCHANGED <<graph, answer>>

BfsFirst ==
  /\ call = "bfs first"
  /\ call' = "bfs"
  /\ Enqueue(run.start, "root", run)
  /\ UNCHANGED <<graph, answer>>

BfsVisit ==
  /\ call = "bfs"
  /\ ~Looking
  /\ PopHead
  /\ run' = [run EXCEPT
       !.visited[PeekHead] = "2",
       !.calls = Append(@, <<PeekHead, run.subGraphNo>>),
       !.frames = <<Frame(PeekHead, graph.incident[PeekHead])>>]
  /\ UNCHANGED <<graph, call, answer>>

Met_Taken(n) == run.visited[n] = "2"    \* mutant: a queued one is queued again
Met(n) == run.visited[n] # "0"

BfsLook ==
  LET n == Neighbor(Current, NextEdge) IN
  /\ call = "bfs"
  /\ Looking
  /\ IF Met(n)
     THEN run' = Advance(run) /\ UNCHANGED vars
     ELSE Enqueue(n, "edge", [Advance(run) EXCEPT !.visited[n] = "1"])
  /\ UNCHANGED <<graph, call, answer>>

BfsRestart ==
  /\ call = "bfs"
  /\ ~Looking
  /\ IsEmpty
  /\ Unvisited # {}
  /\ Enqueue(Min(Unvisited), "root", [run EXCEPT !.subGraphNo = @ + 1])
  /\ UNCHANGED <<graph, call, answer>>

BfsDone ==
  /\ call = "bfs"
  /\ ~Looking
  /\ IsEmpty
  /\ Unvisited = {}
  /\ Free
  /\ call' = "bfs free"
  /\ UNCHANGED <<graph, run, answer>>

BfsReturn ==
  /\ call = "bfs free"
  /\ FreeQueue
  /\ call' = "none"
  /\ answer' = [op |-> "bfs", start |-> run.start, calls |-> run.calls,
                refused |-> run.refused]
  /\ run' = NoRun
  /\ UNCHANGED graph

-----------------------------------------------------------------------------
(* graph_traverse_dfs and graph_traverse_dfs_impl: one frame per call of   *)
(* the latter, that makes the callback and marks the vertex on entry.      *)
Enter(v, r) ==
  [r EXCEPT !.visited[v] = "1",
            !.calls = Append(@, <<v, r.subGraphNo>>),
            !.frames = <<Frame(v, graph.incident[v])>> \o @]

DfsStart(start) ==
  /\ CanCall
  /\ start \in Vertices
  /\ call' = "dfs"
  /\ run' = Enter(start, NewRun(start))
  /\ UNCHANGED <<graph, answer>>

DfsLook ==
  LET n == Neighbor(Current, NextEdge) IN
  /\ call = "dfs"
  /\ Looking
  /\ run' = IF Met(n) THEN Advance(run) ELSE Enter(n, Advance(run))
  /\ UNCHANGED <<graph, call, answer>>

DfsLeave ==
  /\ call = "dfs"
  /\ run.frames # <<>>
  /\ ~Looking
  /\ run' = [run EXCEPT !.frames = Tail(@)]
  /\ UNCHANGED <<graph, call, answer>>

DfsRestart ==
  /\ call = "dfs"
  /\ run.frames = <<>>
  /\ Unvisited # {}
  /\ run' = Enter(Min(Unvisited), [run EXCEPT !.subGraphNo = @ + 1])
  /\ UNCHANGED <<graph, call, answer>>

DfsReturn ==
  /\ call = "dfs"
  /\ run.frames = <<>>
  /\ Unvisited = {}
  /\ call' = "none"
  /\ answer' = [op |-> "dfs", start |-> run.start, calls |-> run.calls,
                refused |-> {}]
  /\ run' = NoRun
  /\ UNCHANGED graph

-----------------------------------------------------------------------------
(* critical_path_method: earliest times forward from start, then latest    *)
(* times backward from the vertex that was taken last.                     *)
CpmStart(start) ==
  /\ CanCall
  /\ start \in Vertices
  /\ ~Undirected
  /\ New
  /\ call' = "forward first"
  /\ run' = NewRun(start)
  /\ UNCHANGED <<graph, answer>>

(* An undirected graph is turned away. *)
CpmRefuses ==
  /\ CanCall
  /\ Undirected
  /\ answer' = [op |-> "refused"]
  /\ UNCHANGED <<graph, call, run>>

CpmFirst ==
  /\ call = "forward first"
  /\ PushVertex(run.start)
  /\ call' = "forward"
  /\ UNCHANGED <<graph, run, answer>>

(* Backward, all edges are gone through for those into the current vertex. *)
Scan(v) ==
  IF call = "forward" THEN graph.incident[v] ELSE [e \in DOMAIN graph.edges |-> e]

CpmVisit ==
  /\ call \in {"forward", "backward"}
  /\ ~Looking
  /\ PopHead
  /\ run' = [run EXCEPT
       !.visited[PeekHead] = "2",
       !.frames = <<Frame(PeekHead, Scan(PeekHead))>>]
  /\ UNCHANGED <<graph, call, answer>>

(* The time of the neighbour is updated whether or not it is queued.       *)
Timed_First(r, n, e) ==    \* mutant: the first path decides
  IF call = "forward"
  THEN [r EXCEPT !.early[n] =
          IF @ = 0 THEN run.early[Current] + graph.edges[e].weight ELSE @]
  ELSE [r EXCEPT !.late[n] = Min({@, run.late[Current] - graph.edges[e].weight})]
Timed(r, n, e) ==
  IF call = "forward"
  THEN [r EXCEPT !.early[n] = Max({@, run.early[Current] + graph.edges[e].weight})]
  ELSE [r EXCEPT !.late[n] = Min({@, run.late[Current] - graph.edges[e].weight})]

IntoAnother == call = "backward" /\ graph.edges[NextEdge].to # Current

CpmPass ==
  /\ call \in {"forward", "backward"}
  /\ Looking
  /\ IntoAnother
  /\ run' = Advance(run)
  /\ UNCHANGED <<graph, call, answer, vars>>

CpmLook ==
  LET e == NextEdge
      n == IF call = "forward" THEN graph.edges[e].to ELSE graph.edges[e].from
      r == Timed(Advance(run), n, e)
  IN
  /\ call \in {"forward", "backward"}
  /\ Looking
  /\ ~IntoAnother
  /\ IF Met(n)
     THEN run' = r /\ UNCHANGED vars
     ELSE PushVertex(n) /\ run' = [r EXCEPT !.visited[n] = "1"]
  /\ UNCHANGED <<graph, call, answer>>

CpmTurn ==
  /\ call = "forward"
  /\ ~Looking
  /\ IsEmpty
  /\ PushVertex(Current)
  /\ call' = "backward"
  /\ run' = [run EXCEPT !.visited = [v \in Vertices |-> "0"],
                        !.late[Current] = run.early[Current]]
  /\ UNCHANGED <<graph, answer>>

CpmDone ==
  /\ call = "backward"
  /\ ~Looking
  /\ IsEmpty
  /\ Free
  /\ call' = "cpm free"
  /\ UNCHANGED <<graph, run, answer>>

CpmReturn ==
  /\ call = "cpm free"
  /\ FreeQueue
  /\ call' = "none"
  /\ answer' = [op |-> "cpm", start |-> run.start,
                early |-> run.early, late |-> run.late]
  /\ run' = NoRun
  /\ UNCHANGED graph

-----------------------------------------------------------------------------
(* graph_prim_spanning_tree.  A turn scans the edges of the vertices of    *)
(* the tree, in the order these joined it, for the first of the lightest   *)
(* that leads out of it; where none does, FLT_MAX is added, with the edge  *)
(* and the vertex of the turn before.                                      *)
Scanned(t) ==
  {p \in (DOMAIN t.nodes) \X (DOMAIN graph.edges) :
     /\ p[2] \in DOMAIN graph.incident[t.nodes[p[1]]]
     /\ LET e == graph.incident[t.nodes[p[1]]][p[2]] IN
        graph.edges[e].from + graph.edges[e].to - t.nodes[p[1]]
          \notin ToSet(t.nodes)}

Lighter_Any(t, e, f) == TRUE    \* mutant: the first edge out is taken
Lighter(t, e, f) == graph.edges[e].weight <= graph.edges[f].weight

PrimTurn(t) ==
  LET edgeAt(p) == graph.incident[t.nodes[p[1]]][p[2]]
      lightest == {p \in Scanned(t) :
                     \A q \in Scanned(t) : Lighter(t, edgeAt(p), edgeAt(q))}
      p == CHOOSE p \in lightest : \A q \in lightest :
             p[1] < q[1] \/ (p[1] = q[1] /\ p[2] <= q[2])
      e == IF lightest = {} THEN t.edge ELSE edgeAt(p)
      v == IF lightest = {} THEN Last(t.nodes)
           ELSE graph.edges[e].from + graph.edges[e].to - t.nodes[p[1]]
  IN  [nodes |-> Append(t.nodes, v),
       edge |-> e,
       edges |-> Append(t.edges, e),
       cost |-> t.cost + IF lightest = {} THEN Infinity ELSE graph.edges[e].weight]

Prim ==
  LET turn[i \in 0 .. VertexNum - 1] ==
        IF i = 0 THEN [nodes |-> <<1>>, edge |-> NULL, edges |-> <<>>, cost |-> 0]
        ELSE PrimTurn(turn[i - 1])
  IN  /\ CanCall
      /\ VertexNum > 0
      /\ answer' = [op |-> "prim", edges |-> turn[VertexNum - 1].edges,
                    cost |-> turn[VertexNum - 1].cost]
      /\ UNCHANGED <<graph, call, run>>

-----------------------------------------------------------------------------
(* graph_kruskal_spanning_tree.  An edge counts when one of its ends is    *)
(* new; what is appended to the tree is what the iterator gives next, and  *)
(* the loop ends with the turn that finds count at vertexNum - 1.          *)
Sorted ==
  SortSeq([e \in DOMAIN graph.edges |-> e],
          LAMBDA e, f : graph.edges[e].weight < graph.edges[f].weight)

Ends(e) == {graph.edges[e].from, graph.edges[e].to}

KruskalTurn(t) ==
  IF t.left = <<>> THEN t
  ELSE LET e == Head(t.left)
           rest == Tail(t.left)
       IN  IF Ends(e) \subseteq t.nodes THEN [t EXCEPT !.left = rest]
           ELSE [nodes |-> t.nodes \cup Ends(e),
                 cost |-> t.cost + graph.edges[e].weight,
                 counted |-> t.counted \cup {e},
                 edges |-> Append(t.edges, IF rest = <<>> THEN NULL ELSE Head(rest)),
                 left |-> IF rest = <<>> THEN <<>> ELSE Tail(rest)]

Kruskal ==
  LET turn[i \in 0 .. VertexNum] ==
        IF i = 0 THEN [nodes |-> {}, cost |-> 0, counted |-> {}, edges |-> <<>>,
                       left |-> Sorted]
        ELSE KruskalTurn(turn[i - 1])
      t == turn[VertexNum]
  IN  /\ CanCall
      /\ VertexNum > 0
      /\ answer' = [op |-> "kruskal", edges |-> t.edges, cost |-> t.cost,
                    counted |-> t.counted]
      /\ UNCHANGED <<graph, call, run>>

-----------------------------------------------------------------------------
(* graph_floyd.  Round k changes no distance to or from vertex k, so that  *)
(* the order in which it goes through the matrix does not show.            *)
OneEdge ==
  LET pairs(e) == {<<graph.edges[e].from, graph.edges[e].to>>}
                    \cup (IF Undirected
                          THEN {<<graph.edges[e].to, graph.edges[e].from>>}
                          ELSE {})
      over(u, v) == {e \in DOMAIN graph.edges : <<u, v>> \in pairs(e)}
  IN  [u \in Vertices |-> [v \in Vertices |->
         IF over(u, v) # {} THEN graph.edges[Max(over(u, v))].weight
         ELSE IF u = v THEN 0
         ELSE Infinity]]

Round_Missed(d, k) ==    \* mutant: paths through the first vertex are missed
  IF k = 1 THEN d
  ELSE [u \in Vertices |-> [v \in Vertices |-> Min({d[u][v], d[u][k] + d[k][v]})]]
Round(d, k) ==
  [u \in Vertices |-> [v \in Vertices |-> Min({d[u][v], d[u][k] + d[k][v]})]]

FloydStart ==
  /\ CanCall
  /\ call' = "floyd"
  /\ run' = [d |-> OneEdge, k |-> 1]
  /\ UNCHANGED <<graph, answer>>

FloydRound ==
  /\ call = "floyd"
  /\ run.k <= VertexNum
  /\ run' = [d |-> Round(run.d, run.k), k |-> run.k + 1]
  /\ UNCHANGED <<graph, call, answer>>

FloydReturn ==
  /\ call = "floyd"
  /\ run.k > VertexNum
  /\ call' = "none"
  /\ answer' = [op |-> "floyd", d |-> run.d]
  /\ run' = NoRun
  /\ UNCHANGED graph

-----------------------------------------------------------------------------
(* graph_dijkstra_avl, from the vertex with id 1, as it puts start in the  *)
(* first place of its array of nodes.  A candidate is taken out of the     *)
(* tree by its cost: of several with the same, the first the search meets. *)
Without(candidates, cost) ==
  candidates \ {CHOOSE c \in candidates : c[1] = cost}

Relax(t, m, e) ==
  LET n == Neighbor(m[2], e)
      cost == m[1] + graph.edges[e].weight
      others == IF t.costs[n] < Infinity
                THEN Without(t.candidates, t.costs[n]) ELSE t.candidates
  IN  IF n \in ToSet(t.ids) \/ cost >= t.costs[n] THEN t
      ELSE [t EXCEPT !.costs[n] = cost,
                     !.candidates = others \cup {<<cost, n>>}]

DijkstraTurn(t) ==
  IF t.candidates = {} THEN t
  ELSE LET m == CHOOSE c \in t.candidates : \A d \in t.candidates : c[1] <= d[1]
           r == FoldLeft(LAMBDA s, e : Relax(s, m, e), t, graph.incident[m[2]])
       IN  [costs |-> [r.costs EXCEPT ![m[2]] = m[1]],
            ids |-> Append(r.ids, m[2]),
            candidates |-> Without(r.candidates, m[1])]

Dijkstra ==
  LET turn[i \in 0 .. VertexNum] ==
        IF i = 0 THEN [costs |-> [v \in Vertices |-> Infinity], ids |-> <<>>,
                       candidates |-> {<<0, 1>>}]
        ELSE DijkstraTurn(turn[i - 1])
      t == turn[VertexNum]
  IN  /\ CanCall
      /\ VertexNum > 0
      /\ answer' = [op |-> "dijkstra", costs |-> t.costs,
                    ids |-> [i \in Vertices |-> IF i <= Len(t.ids) THEN t.ids[i]
                                                ELSE -1]]
      /\ UNCHANGED <<graph, call, run>>

-----------------------------------------------------------------------------
GraphInit ==
  /\ Init
  /\ graph = NULL
  /\ call = "none"
  /\ run = NoRun
  /\ answer = NoAnswer

Build ==
  /\ \/ \E type \in {"directed", "undirected"} : NewGraph(type)
     \/ AddVertex
     \/ GraphFree
     \/ TakeAnswer
  /\ UNCHANGED vars

Link(pairs, weights) ==
  \E p \in pairs, w \in weights : AddEdge(p[1], p[2], w) /\ UNCHANGED vars

AllPairs == (1 .. MaxVertices) \X (1 .. MaxVertices)

Traverse ==
  \/ \E start \in 1 .. MaxVertices : BfsStart(start)
  \/ BfsFirst
  \/ BfsVisit
  \/ BfsLook
  \/ BfsRestart
  \/ BfsDone
  \/ BfsReturn
  \/ (\E start \in 1 .. MaxVertices : DfsStart(start)) /\ UNCHANGED vars
  \/ (DfsLook \/ DfsLeave \/ DfsRestart \/ DfsReturn) /\ UNCHANGED vars

Weigh ==
  /\ Prim \/ Kruskal \/ FloydStart \/ FloydRound \/ FloydReturn \/ Dijkstra
  /\ UNCHANGED vars

Schedule ==
  \/ \E start \in 1 .. MaxVertices : CpmStart(start)
  \/ CpmRefuses /\ UNCHANGED vars
  \/ CpmFirst
  \/ CpmVisit
  \/ CpmPass
  \/ CpmLook
  \/ CpmTurn
  \/ CpmDone
  \/ CpmReturn

GraphNext == Build \/ Link(AllPairs, Weight) \/ Traverse \/ Weigh \/ Schedule

GraphSpec == GraphInit /\ [][GraphNext]_<<vars, graphVars>>

-----------------------------------------------------------------------------
(* What the answers are compared with: reachability, distance, the paths   *)
(* without a repeated vertex and their costs, and the spanning trees.      *)
Arcs ==
  LET forward == {<<graph.edges[e].from, graph.edges[e].to>> : e \in DOMAIN graph.edges}
  IN  IF Undirected THEN forward \cup {<<a[2], a[1]>> : a \in forward} ELSE forward

Within(v) ==    \* the vertices at most k edges from v, for each k
  LET arcs == Arcs
      ball[k \in 0 .. VertexNum] ==
        IF k = 0 THEN {v}
        ELSE LET near == ball[k - 1] IN near \cup {a[2] : a \in {b \in arcs : b[1] \in near}}
  IN  ball

Reached(v) == Within(v)[VertexNum]
Distance(v, u) == Min({k \in 0 .. VertexNum : u \in Within(v)[k]})

PathsFrom(v) ==
  LET arcs == Arcs IN
  {p \in UNION {[1 .. n -> Vertices] : n \in 1 .. VertexNum} :
     /\ p[1] = v
     /\ IsInjective(p)
     /\ \A i \in 1 .. Len(p) - 1 : <<p[i], p[i + 1]>> \in arcs}

WeightsOver(u, v) ==
  {graph.edges[e].weight : e \in {f \in DOMAIN graph.edges :
     \/ graph.edges[f].from = u /\ graph.edges[f].to = v
     \/ Undirected /\ graph.edges[f].from = v /\ graph.edges[f].to = u}}

Length(p, Pick(_)) ==
  LET upTo[i \in 1 .. Len(p)] ==
        IF i = 1 THEN 0 ELSE upTo[i - 1] + Pick(WeightsOver(p[i - 1], p[i]))
  IN  upTo[Len(p)]

Connected(edges) ==
  LET joined == {Ends(e) : e \in edges}
      ball[k \in 0 .. VertexNum] ==
        IF k = 0 THEN {1}
        ELSE LET near == ball[k - 1] IN
             near \cup UNION {pair \in joined : pair \cap near # {}}
  IN  ball[VertexNum] = Vertices

CostOf(edges) == MapThenSumSet(LAMBDA e : graph.edges[e].weight, edges)

SpanningTrees == {s \in kSubset(VertexNum - 1, DOMAIN graph.edges) : Connected(s)}

(* The graphs on which the algorithms are asked for their best.            *)
Simple ==
  \A e, f \in DOMAIN graph.edges :
    /\ Cardinality(Ends(e)) = 2
    /\ e # f => IF Undirected THEN Ends(e) # Ends(f)
                ELSE <<graph.edges[e].from, graph.edges[e].to>>
                       # <<graph.edges[f].from, graph.edges[f].to>>

(* All paths from start to a vertex have as many edges, every vertex is on *)
(* one, and only one vertex has no successor: what critical_path_method    *)
(* needs to take a vertex after all its predecessors.                      *)
Layered(start) ==
  /\ Reached(start) = Vertices
  /\ \A a \in Arcs : Distance(start, a[2]) = Distance(start, a[1]) + 1
  /\ Cardinality({v \in Vertices : \A a \in Arcs : a[1] # v}) = 1

-----------------------------------------------------------------------------
(* The shape of the state: every edge is in the list of its first end, of  *)
(* an undirected graph also in that of its second, and in no other.        *)
GraphTypeOK ==
  /\ TypeOK
  /\ call \in {"none", "bfs first", "bfs", "bfs free", "dfs", "forward first",
               "forward", "backward", "cpm free", "floyd"}
  /\ graph # NULL =>
       \A v \in Vertices, e \in DOMAIN graph.edges :
         Cardinality({i \in DOMAIN graph.incident[v] : graph.incident[v][i] = e})
           = (IF graph.edges[e].from = v THEN 1 ELSE 0)
               + IF Undirected /\ graph.edges[e].to = v THEN 1 ELSE 0

(* A traversal calls back once for every vertex, but for those whose push  *)
(* failed when a neighbour queued them: these it has marked, and loses.    *)
(* If no push failed the vertices with one number are those reached from   *)
(* one root and not met before, the first root being start and the others  *)
(* the first vertex not yet met; no number is left out; breadth first goes *)
(* through them by distance.                                               *)
Called(calls) == {calls[i][1] : i \in DOMAIN calls}
Numbered(calls, k) == {calls[i][1] : i \in {j \in DOMAIN calls : calls[j][2] = k}}
Earlier(calls, k) == {calls[i][1] : i \in {j \in DOMAIN calls : calls[j][2] < k}}
Lost(refused) == {p[2] : p \in {q \in refused : q[1] = "edge"}}
RootOf(start, calls, k) == IF k = 0 THEN start ELSE Min(Vertices \ Earlier(calls, k))

PieceExact(op, start, calls, k) ==
  LET root == RootOf(start, calls, k) IN
  /\ Numbered(calls, k) = Reached(root) \ Earlier(calls, k)
  /\ op = "bfs" =>
       \A i, j \in DOMAIN calls :
         i < j /\ calls[i][2] = k /\ calls[j][2] = k
           => Distance(root, calls[i][1]) <= Distance(root, calls[j][1])

Exact(op, start, calls, refused) ==
  /\ Cardinality(Called(calls)) = Len(calls)
  /\ Called(calls) = Vertices \ Lost(refused)
  /\ refused = {} =>
       \A i \in DOMAIN calls : \A k \in 0 .. calls[i][2] :
         PieceExact(op, start, calls, k)

TraversalExact ==
  answer.op \in {"bfs", "dfs"} =>
    Exact(answer.op, answer.start, answer.calls, answer.refused)

(* On a connected undirected graph Prim's algorithm returns the edges of a *)
(* spanning tree and their cost, and no spanning tree costs less.  Of      *)
(* Kruskal's only this is true: the edges it counts have no cycle.         *)
SpanningTreeMinimal ==
  /\ answer.op = "prim" /\ Undirected /\ Connected(DOMAIN graph.edges) =>
       /\ ToSet(answer.edges) \in SpanningTrees
       /\ answer.cost = CostOf(ToSet(answer.edges))
       /\ \A s \in SpanningTrees : answer.cost <= CostOf(s)
  /\ answer.op = "kruskal" =>
       \A s \in SUBSET answer.counted \ {{}} :
         Cardinality(UNION {Ends(e) : e \in s}) > Cardinality(s)

(* test-graph.c asserts the same cost of Kruskal's tree as of Prim's: that *)
(* of a minimal spanning tree.                                             *)
KruskalMinimal ==
  answer.op = "kruskal" /\ Undirected /\ Connected(DOMAIN graph.edges) =>
    answer.cost = Min({CostOf(s) : s \in SpanningTrees})

(* Floyd's matrix and Dijkstra's array hold the cost of the cheapest path, *)
(* FLT_MAX where there is none, and Dijkstra's ids are the vertices that   *)
(* are reached, by cost, then -1.  (Simple graphs; for Dijkstra's          *)
(* algorithm, weights that give no two vertices the same cost.)            *)
CheapestFrom(u) ==
  LET paths == PathsFrom(u) IN
  [v \in Vertices |->
     LET there == {p \in paths : Last(p) = v} IN
     IF there = {} THEN Infinity ELSE Min({Length(p, Min) : p \in there})]

ShortestPaths ==
  /\ answer.op = "floyd" /\ Simple =>
       \A u \in Vertices : answer.d[u] = CheapestFrom(u)
  /\ answer.op = "dijkstra" /\ Simple =>
       /\ answer.costs = CheapestFrom(1)
       /\ {answer.ids[i] : i \in Vertices} \ {-1} = Reached(1)
       /\ \A i, j \in Vertices : i < j /\ answer.ids[j] # -1 =>
            answer.ids[i] # -1 /\ answer.costs[answer.ids[i]] < answer.costs[answer.ids[j]]

(* On a layered graph the earliest time of a vertex is the length of the   *)
(* longest path to it from start, and the latest one what leaves room for  *)
(* the longest path from it to the end.                                    *)
CriticalPath ==
  answer.op = "cpm" /\ Layered(answer.start) =>
    LET end == CHOOSE v \in Vertices : \A a \in Arcs : a[1] # v
        paths == UNION {PathsFrom(u) : u \in Vertices}
        longest(u, v) ==
          Max({Length(p, Max) : p \in {q \in paths : q[1] = u /\ Last(q) = v}})
    IN  \A v \in Vertices :
          /\ answer.early[v] = longest(answer.start, v)
          /\ answer.late[v] = answer.early[end] - longest(v, end)
=============================================================================
