------------------------------- MODULE Topology -------------------------------
(***************************************************************************)
(* How a transfer finds its way: the topology of RSEs that the conveyor    *)
(* keeps in memory (core/topology.py), the search for the shortest paths,  *)
(* with its priority queue (common/utils.py), and the candidate paths of a *)
(* request (build_transfer_paths in core/transfer.py).                     *)
(*                                                                         *)
(* One topology object is shared by threads: while one of them searches,   *)
(* others may add RSEs and load distances.  Requests of one destination    *)
(* and their sources are modelled; all sources have the same ranking.      *)
(***************************************************************************)
EXTENDS RseExpression, FiniteSetsExt, SequencesExt

CONSTANTS
  Readable, Restricted, Tape,   \* RSEs by availability_read and attributes
  Protocols,      \* of each RSE: records of a scheme and its priorities, or NoUse
  NoUse,
  Family,         \* external: schemes with the same family are compatible
  HopPenalty,     \* of each RSE
  Distances,      \* values of the column distance
  NoDistance,     \* no row, no edge
  Changeable,     \* bound: the pairs whose distance changes
  Starts,         \* records: db, the distances to start from, and what follows
  Requests,       \* records: dst, sources, allowed, tape, limit
  MaxTokens       \* bound: the length of multihop_rse_expression

Pairs == Rses \X Rses
Infinity == 1000

ASSUME TopologyAssumption ==
  /\ Readable \subseteq Rses /\ Restricted \subseteq Rses /\ Tape \subseteq Rses
  /\ HopPenalty \in [Rses -> Nat]
  /\ Distances \subseteq Int /\ NoDistance \notin Int /\ Changeable \subseteq Pairs
  /\ Starts \subseteq [db : [Pairs -> Int \cup {NoDistance}], changes : Nat, others : Nat, searches : Nat]
  /\ \A r \in Rses : \A p \in Protocols[r] : p.scheme \in DOMAIN Family
  /\ \A q \in Requests : q.dst \in Rses /\ q.sources \subseteq Rses \ {q.dst} /\ q.allowed \subseteq Rses
  /\ MaxTokens \in Nat

VARIABLES
  option,      \* multihop_rse_expression, as it is typed
  db,          \* external: the distance of each pair, or NoDistance
  left,        \* bound: changes of distances, loads by other threads and searches to come
  nodes,       \* rse_id_to_data_map
  edges,       \* _edges: the cost of each pair, or NoDistance
  linked,      \* pairs that in_edges and out_edges hold
  loaded,      \* _edges_loaded
  multihop,    \* _multihop_nodes
  current,     \* no distance changed since the edges were loaded
  lost,        \* pairs that were removed from the edges
  search,      \* the search that runs, or Idle
  answer       \* the outcome of a search until the edges change, or Idle

graph == <<nodes, edges, linked, loaded, current, lost>>
vars == <<option, db, left, graph, multihop, search, answer>>

Idle == [at |-> "idle"]

Init ==
  /\ option = <<>>
  /\ db = [p \in Pairs |-> NoDistance]
  /\ left = [at |-> "options"]
  /\ nodes = {} /\ linked = {} /\ loaded = FALSE /\ current = FALSE /\ lost = {}
  /\ edges = [p \in Pairs |-> NoDistance]
  /\ multihop = {}
  /\ search = Idle /\ answer = Idle

(***************************************************************************)
(* The topology.                                                           *)
(***************************************************************************)
\* External: an administrator writes the option.
Type(t) ==
  /\ left.at = "options" /\ Len(option) < MaxTokens
  /\ option' = Append(option, t)
  /\ UNCHANGED <<db, left, graph, multihop, search, answer>>

\* configure_multihop: RSEs that cannot be read or written are not used.
ConfigureMultihop ==
  LET parsed == ParseExpression(option, FALSE)
      found == IF parsed = Invalid THEN {} ELSE parsed
  IN /\ left.at = "options"
     /\ multihop' = found \cap Readable \cap Writable
     /\ nodes' = found
     /\ option' = <<>>
     /\ left' = [at |-> "distances"]
     /\ UNCHANGED <<db, edges, linked, loaded, current, lost, search, answer>>

\* External: the distances of the database, which nothing has read yet.
Begin(s) ==
  /\ left.at = "distances"
  /\ db' = s.db
  /\ left' = [at |-> "run", changes |-> s.changes, others |-> s.others, searches |-> s.searches]
  /\ UNCHANGED <<option, graph, multihop, search, answer>>

\* External: a distance is set or deleted.
SetDistance(p, v) ==
  /\ left.at = "run" /\ left.changes > 0
  /\ db[p] # v
  /\ db' = [db EXCEPT ![p] = v]
  /\ left' = [left EXCEPT !.changes = @ - 1]
  /\ current' = FALSE
  /\ UNCHANGED <<option, nodes, edges, linked, loaded, lost, multihop, search, answer>>

\* get_or_create: the edges of a new node have to be loaded.
Complete(S) == loaded /\ S \subseteq nodes

Sanitized(v) == IF v < 0 THEN 0 ELSE v

\* Mutant: edges that the database does not have any more stay.
LoadEdges_KeepsOld ==
  LET there == {p \in Pairs : p \in nodes' \X nodes' /\ db[p] # NoDistance}
  IN /\ edges' = [p \in Pairs |-> IF p \in there THEN Sanitized(db[p]) ELSE edges[p]]
     /\ linked' = linked \cup {p \in there : edges[p] = NoDistance}
     /\ lost' = lost
     /\ loaded' = TRUE /\ current' = TRUE

\* _ensure_edges_loaded.  delete_edge takes an edge from its nodes but leaves it
\* in _edges, so that get_or_create_edge finds it there and does not link it
\* again.
LoadEdges ==
  LET there == {p \in Pairs : p \in nodes' \X nodes' /\ db[p] # NoDistance}
      known == {p \in Pairs : edges[p] # NoDistance}
  IN /\ edges' = [p \in Pairs |-> IF p \in there THEN Sanitized(db[p]) ELSE edges[p]]
     /\ linked' = (linked \cup (there \ known)) \ (known \ there)
     /\ lost' = lost \cup (known \ there)
     /\ loaded' = TRUE /\ current' = TRUE

\* Another thread adds the RSEs of its own requests and loads the edges.
OtherThread(r) ==
  /\ left.at = "run" /\ left.others > 0
  /\ left' = [left EXCEPT !.others = @ - 1]
  /\ ~Complete({r})
  /\ nodes' = nodes \cup {r}
  /\ LoadEdges
  /\ search' = IF search # Idle /\ (linked' # linked \/ edges' # edges)
               THEN [search EXCEPT !.disturbed = TRUE] ELSE search
  /\ answer' = Idle
  /\ UNCHANGED <<option, db, multihop>>

(***************************************************************************)
(* The priority queue: a heap of nodes, ordered by their distances.        *)
(***************************************************************************)
Swap(h, i, k) == [h EXCEPT ![i] = h[k], ![k] = h[i]]

\* _priority_decreased.
SiftUp(h, start, prio) ==
  LET up[x \in [DOMAIN h -> Rses] \X DOMAIN h] ==
        LET q == x[1]
            pos == x[2]
        IN IF pos > 1 /\ prio[q[pos]] < prio[q[pos \div 2]]
           THEN up[<<Swap(q, pos, pos \div 2), pos \div 2>>] ELSE q
  IN up[<<h, start>>]

\* _priority_increased, from the top.
SiftDown(h, prio) ==
  LET down[x \in [DOMAIN h -> Rses] \X DOMAIN h] ==
        LET q == x[1]
            pos == x[2]
            c1 == 2 * pos
            c2 == 2 * pos + 1
            m1 == IF c1 <= Len(q) /\ prio[q[c1]] < prio[q[pos]] THEN c1 ELSE pos
            m2 == IF c2 <= Len(q) /\ prio[q[c2]] < prio[q[m1]] THEN c2 ELSE m1
        IN IF m2 # pos THEN down[<<Swap(q, pos, m2), m2>>] ELSE q
  IN down[<<h, 1>>]

\* __setitem__ with a priority that decreased, or of a new item.
SetItem(h, r, prio) ==
  IF \E i \in DOMAIN h : h[i] = r
  THEN SiftUp(h, CHOOSE i \in DOMAIN h : h[i] = r, prio)
  ELSE SiftUp(Append(h, r), Len(h) + 1, prio)

Popped(h, prio) ==
  IF Len(h) = 1 THEN <<>>
  ELSE SiftDown([SubSeq(h, 1, Len(h) - 1) EXCEPT ![1] = h[Len(h)]], prio)

(***************************************************************************)
(* The search.                                                             *)
(***************************************************************************)
Compatible(a, b) == Family[a] = Family[b]

\* find_matching_scheme: pairs of protocols of source and destination, of those
\* with the highest priority at the destination the ones with the highest at
\* the source.  limit is a set of schemes; the empty set means no limit.
FindMatchingScheme(s, d, limit) ==
  LET allowed(p) == limit = {} \/ p.scheme \in limit
      src == {p \in Protocols[s] : allowed(p) /\ p.read # NoUse}
      dst == {p \in Protocols[d] : allowed(p) /\ p.write # NoUse}
      fit == {m \in dst \X src : Compatible(m[1].scheme, m[2].scheme)}
  IN {m \in fit : \A o \in fit :
        m[1].write < o[1].write \/ (m[1].write = o[1].write /\ m[2].read <= o[2].read)}

Enabled(s, d) ==
  FindMatchingScheme(s, d, IF d = search.req.dst THEN search.req.limit ELSE {}) # {}

\* The strategies of build_transfer_paths that come before the search: a tape is
\* the last reason to refuse a source.
OnTape(q, s) == s \in q.allowed /\ s \in Readable \ Restricted /\ s \in Tape /\ ~q.tape
Refused(q, s) == s \notin q.allowed \/ s \notin Readable \ Restricted \/ OnTape(q, s)

\* The reason why a request has no path.
Verdict(q, mismatch) ==
  IF \E s \in q.sources : OnTape(q, s) THEN "only_tape_sources"
  ELSE IF mismatch THEN "mismatch_scheme" ELSE "no_sources"

\* The destination is blocked, or all sources are refused.
Reject(q) ==
  /\ left.at = "run" /\ left.searches > 0 /\ search = Idle
  /\ q.dst \notin Writable \/ \A s \in q.sources : Refused(q, s)
  /\ nodes' = nodes \cup q.sources \cup {q.dst}
  /\ loaded' = Complete(q.sources \cup {q.dst})
  /\ answer' = [at |-> "rejected",
                verdict |-> IF q.dst \in Writable THEN Verdict(q, FALSE) ELSE "no_sources"]
  /\ left' = [left EXCEPT !.searches = @ - 1]
  /\ UNCHANGED <<option, db, edges, linked, current, lost, multihop, search>>

\* search_shortest_paths for the sources that are left.
StartSearch(q) ==
  LET from == {s \in q.sources : ~Refused(q, s)}
  IN /\ left.at = "run" /\ left.searches > 0 /\ search = Idle
     /\ from # {} /\ q.dst \in Writable
     /\ nodes' = nodes \cup q.sources \cup {q.dst}
     /\ \/ Complete(q.sources \cup {q.dst}) /\ UNCHANGED <<edges, linked, lost, loaded, current>>
        \/ ~Complete(q.sources \cup {q.dst}) /\ LoadEdges
     /\ search' = [at |-> "run", req |-> q, from |-> from,
                   find |-> IF multihop = {} THEN from ELSE {s \in from : \E p \in linked' : p[1] = s},
                   heap |-> <<q.dst>>,
                   dist |-> [r \in Rses |-> IF r = q.dst THEN 0 ELSE Infinity],
                   hop |-> [r \in Rses |-> r],
                   path |-> [r \in Rses |-> <<>>],
                   yielded |-> <<>>, mismatch |-> {}, disturbed |-> FALSE]
     /\ left' = [left EXCEPT !.searches = @ - 1]
     /\ answer' = Idle
     /\ UNCHANGED <<option, db, multihop>>

\* Mutant: the penalty of the node itself is left out.
Via_NoPenalty(n, a) == search.dist[n] + edges[<<a, n>>]

\* The distance of a by way of n.
Via(n, a) ==
  search.dist[n] + (IF n = search.req.dst THEN 0 ELSE HopPenalty[n]) + edges[<<a, n>>]

\* The neighbours of n that dijkstra_spf follows, and of those the ones that get
\* closer.  Without multihop only the neighbours of the destination count.
Neighbours(n, find) ==
  {a \in find \cup multihop : <<a, n>> \in linked /\ (multihop # {} \/ n = search.req.dst)}
Closer(n, find) == {a \in Neighbours(n, find) : Via(n, a) < search.dist[a]}

\* Distances and heap after the nodes of order, which are closer by way of n,
\* were put into the queue one by one.
Relaxed(n, start, order) ==
  LET queue[i \in 0 .. Len(order)] ==
        IF i = 0 THEN start
        ELSE LET near == order[i]
                 dist == [queue[i - 1].dist EXCEPT ![near] = Via(n, near)]
             IN [dist |-> dist, heap |-> SetItem(queue[i - 1].heap, near, dist)]
  IN queue[Len(order)]

\* The loop of dijkstra_spf: pop a node, hand it to search_shortest_paths, which
\* stops when all sources are found, and look at its neighbours.
Visit ==
  LET n == search.heap[1]
      isDst == n = search.req.dst
      hop == search.hop[n]
      find == IF isDst THEN search.find ELSE search.find \ {n}
      better == {a \in Closer(n, find) : Enabled(a, n)}
      rest == [dist |-> search.dist, heap |-> Popped(search.heap, search.dist)]
      seen == [search EXCEPT
                 !.find = find,
                 !.path = IF isDst THEN @ ELSE [@ EXCEPT ![n] = <<n>> \o search.path[hop]],
                 !.yielded = IF isDst THEN @ ELSE Append(@, <<n, search.dist[n]>>)]
  IN /\ search.at = "run" /\ search.heap # <<>>
     /\ \/ /\ ~isDst /\ find = {}
           /\ search' = [seen EXCEPT !.heap = <<>>]
        \/ /\ isDst \/ find # {}
           /\ \E order \in SetToSeqs(better) :
                LET queue == Relaxed(n, rest, order)
                IN search' = [seen EXCEPT
                     !.dist = queue.dist,
                     !.heap = queue.heap,
                     !.hop = [r \in Rses |-> IF r \in better THEN n ELSE @[r]],
                     !.mismatch = @ \cup (Closer(n, find) \ better)]
     /\ UNCHANGED <<option, db, left, graph, multihop, answer>>

(***************************************************************************)
(* The candidate paths.                                                    *)
(***************************************************************************)
\* Sources whose path crosses a tape, and sources without a path.
CrossesTape(path) == \E i \in 2 .. Len(path) : path[i] \in Tape
Kept == {s \in search.from : search.path[s] # <<>> /\ ~CrossesTape(search.path[s])}

\* Mutant: the path is cut at the first source after its start.
Compressed_First(path, sources) ==
  LET at == {i \in 2 .. Len(path) : path[i] \in sources}
  IN IF at = {} THEN path ELSE SubSeq(path, Min(at), Len(path))

\* __compress_multihops: a path starts at the last source on it.
Compressed(path, sources) ==
  LET at == {i \in 1 .. Len(path) : path[i] \in sources}
  IN SubSeq(path, Max(at), Len(path))

\* The sources that are added to a transfer of one hop.
Additional(s, q) ==
  LET scheme == (CHOOSE m \in FindMatchingScheme(s, q.dst, q.limit) : TRUE)[1].scheme
      schemes == {x \in DOMAIN Family : Compatible(x, scheme)}
  IN {a \in search.from \ ({s} \cup Tape) :
        edges[<<a, q.dst>>] # NoDistance /\ FindMatchingScheme(a, q.dst, schemes) # {}}

\* The end of build_transfer_paths: the paths, or the reason why there is none.
EndSearch ==
  LET q == search.req
      paths == {Compressed(search.path[s], q.sources) : s \in Kept}
  IN /\ search.at = "run" /\ search.heap = <<>>
     /\ answer' = [at |-> "done", search |-> search, paths |-> paths,
                   more |-> [s \in {x \in Kept \ Tape : Len(search.path[x]) = 1} |-> Additional(s, q)],
                   verdict |-> IF paths # {} THEN "paths"
                               ELSE Verdict(q, \E s \in search.from \cap search.mismatch : search.path[s] = <<>>)]
     /\ search' = Idle
     /\ UNCHANGED <<option, db, left, graph, multihop>>

Next ==
  \/ \E t \in Tokens : Type(t)
  \/ ConfigureMultihop
  \/ \E s \in Starts : Begin(s)
  \/ \E p \in Changeable, v \in Distances \cup {NoDistance} : SetDistance(p, v)
  \/ \E r \in Rses : OtherThread(r)
  \/ \E q \in Requests : Reject(q) \/ StartSearch(q)
  \/ Visit
  \/ EndSearch

Spec == Init /\ [][Next]_vars

(***************************************************************************)
(* Properties.                                                             *)
(***************************************************************************)
\* All nodes that the edges link are known, and an RSE is in the heap of a search
\* at most once, with the distance that next_hops holds for it.
TypeOK ==
  /\ option \in Seq(Tokens) /\ Len(option) <= MaxTokens
  /\ multihop \subseteq nodes /\ nodes \subseteq Rses
  /\ linked \subseteq nodes \X nodes
  /\ \A p \in linked : edges[p] \in Nat
  /\ search # Idle =>
       /\ IsInjective(search.heap)
       /\ \A r \in Range(search.heap) : search.dist[r] < Infinity

\* The parser accepts exactly the well-formed expressions, and resolves them
\* from the left with one rank for the three operators.
ParserAgrees ==
  left.at = "options" /\ option # <<>> =>
    LET parsed == ParseExpression(option, FALSE)
    IN IF WellFormed[option] /\ Denotes[option] # {} THEN parsed = Denotes[option] ELSE parsed = Invalid

\* Right after a load the topology knows the distances of the database: no edge
\* that was deleted there is followed, every cost is up to date, and every
\* distance between known RSEs is an edge, except the ones that were deleted
\* and came back.
EdgesCurrent ==
  loaded /\ current =>
    /\ \A p \in linked : db[p] # NoDistance /\ edges[p] = Sanitized(db[p])
    /\ \A p \in Pairs \ lost : p \in nodes \X nodes /\ db[p] # NoDistance => p \in linked

\* Distances from a node to the destination in at most k hops, through RSEs that
\* may be used for multihop or are sources themselves.
Best(s) ==
  LET dst == s.req.dst
      through == IF multihop = {} THEN {dst} ELSE multihop \cup s.from \cup {dst}
      step(n, m) == edges[<<n, m>>] + (IF m = dst THEN 0 ELSE HopPenalty[m])
      usable(n, m) == <<n, m>> \in linked /\ FindMatchingScheme(n, m, IF m = dst THEN s.req.limit ELSE {}) # {}
      best[k \in 0 .. Cardinality(Rses)] ==
        [n \in Rses |->
           IF k = 0 THEN IF n = dst THEN 0 ELSE Infinity
           ELSE Min({best[k - 1][n]} \cup {step(n, m) + best[k - 1][m] : m \in {x \in through : usable(n, x)}})]
  IN best[Cardinality(Rses)]

\* The priority queue of a search is a heap at every moment, whatever the
\* distances do (common/utils.py); and a search that no other thread disturbs
\* finds a path from every source that has one, a shortest one, with the nodes
\* in the order of their distances ("Will yield nodes in order of their
\* distance", dijkstra_spf).
ShortestPaths ==
  /\ search # Idle =>
       \A i \in 2 .. Len(search.heap) :
         search.dist[search.heap[i \div 2]] <= search.dist[search.heap[i]]
  /\ answer.at = "done" /\ ~answer.search.disturbed =>
       LET s == answer.search
           best == Best(s)
           got(n) == {y \in Range(s.yielded) : y[1] = n}
       IN /\ \A n \in s.from : IF best[n] < Infinity THEN got(n) = {<<n, best[n]>>} ELSE got(n) = {}
          /\ \A i, k \in DOMAIN s.yielded : i <= k => s.yielded[i][2] <= s.yielded[k][2]

\* The candidate paths of a request lead over usable links to its destination,
\* each from a source of the file; no RSE in between is a source or a tape, and
\* no two paths start at the same source.
CandidatesSound ==
  answer.at = "done" /\ ~answer.search.disturbed =>
    LET q == answer.search.req
    IN /\ \A p \in answer.paths :
            /\ p[1] \in q.sources
            /\ \A i \in 2 .. Len(p) : p[i] \notin q.sources /\ p[i] \notin Tape
            /\ \A i \in 1 .. Len(p) : <<p[i], IF i = Len(p) THEN q.dst ELSE p[i + 1]>> \in linked
       /\ \A p, o \in answer.paths : p[1] = o[1] => p = o
       /\ \A s \in DOMAIN answer.more : \A a \in answer.more[s] : <<a, q.dst>> \in linked \cup lost

-----------------------------------------------------------------------------
(***************************************************************************)
(* What the repository says and the code does not do: the README gives the *)
(* shortest behaviours that violate these.                                 *)
(***************************************************************************)
\* A candidate path starts at a source that the request allows.  (transfer.py
\* build_transfer_paths: the filter of the sources by the strategies.)
SourceAllowed ==
  answer.at = "done" => \A p \in answer.paths : ~Refused(answer.search.req, p[1])

=============================================================================
