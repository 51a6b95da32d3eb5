------------------------------- MODULE Routing -------------------------------
(***************************************************************************)
(* The routing engine of routing.c run by several processes, with the     *)
(* ROUTE and CHAT handling of ring.c (handle_message_from_any_node), over *)
(* TCP connections that the ring layer opens and closes.                  *)
(*                                                                         *)
(* Each process keeps the arrays of routing.c: recipient_ids and          *)
(* neighbor_ids (slots holding an id, or NoNode for -1), routing_table    *)
(* [recipient slot][neighbor slot] (a path, or INVALID) and               *)
(* forwarding_table [recipient slot] (a neighbor slot, or 0 for -1).  A   *)
(* path is the sequence nodes[0 .. hop_count-1]: the nodes after this one *)
(* and before the recipient.  The arrays are static, so a process starts  *)
(* with every byte zero: every slot holds id 0 (Zero), every path has     *)
(* hop_count 0 and every forwarding entry is slot 0.                      *)
(*                                                                         *)
(* The ring protocol (Ring.tla) decides when connections open and close;  *)
(* here the link events are the ring handlers' effects on routing: a      *)
(* connect followed by send_shortest_paths, an accept, a close with or    *)
(* without remove_neighbor_connection, leave_ring, and the init_routing   *)
(* of join_ring and of a join to an empty ring.                           *)
(***************************************************************************)
EXTENDS Naturals, Sequences, FiniteSets, SequencesExt, FiniteSetsExt, Functions

CONSTANTS
  Node,       \* the processes, by their ids
  Zero,       \* id 0, not the id of any process
  NoNode,     \* NO_NODE_ID (-1)
  INVALID,    \* INVALID_PATH
  MaxConn,    \* connections that may exist at once
  MaxEvents,  \* bound on link events and chat commands
  Serial,     \* users act only while nothing is in flight
  CodePaths   \* which of "dj_self", "pred_replace", "chat_out", "dup_link"
              \* may occur

ASSUME Zero \notin Node /\ MaxConn \in Nat /\ MaxEvents \in Nat
ASSUME CodePaths \subseteq {"dj_self", "pred_replace", "chat_out", "dup_link"}

Id   == Node \cup {Zero}
Slot == 1 .. Cardinality(Node) - 1     \* MAX_RECIPIENTS = MAX_NEIGHBORS = MAX_NODES-1
Conn == 1 .. MaxConn
End  == Conn \X {"cli", "srv"}
Other(e) == <<e[1], IF e[2] = "cli" THEN "srv" ELSE "cli">>

VARIABLES
  inRing,     \* connection_state # DISCONNECTED
  crashed,    \* the process died (error() or a NULL dereference)
  rid,        \* rid[n][j]: recipient_ids[j]
  nid,        \* nid[n][i]: neighbor_ids[i]
  rt,         \* rt[n][j][i]: routing_table[j][i]
  ft,         \* ft[n][j]: forwarding_table[j]
  owner, sock, node_id, inbox   \* connection ends, as in Ring.tla
  , events

vars == <<inRing, crashed, rid, nid, rt, ft, owner, sock, node_id, inbox, events>>

RouteMsg(nb, r, p) == [type |-> "ROUTE", nb |-> nb, r |-> r, path |-> p]
ChatMsg(from, to)  == [type |-> "CHAT", from |-> from, to |-> to]

\* The routing state of process n and the network, as one record.
World(n) == [self |-> n, rid |-> rid[n], nid |-> nid[n], rt |-> rt[n],
             ft |-> ft[n], owner |-> owner, sock |-> sock, node_id |-> node_id,
             inbox |-> inbox, crash |-> FALSE]

\* The connections of the process with socket != -1.
OpenEnds(w) == {e \in End : w.owner[e] = w.self /\ w.sock[e] = "open"}

\* find_connection_by_node_id(): the first open connection to id, or NoNode
\* for NULL.
FindByNodeId(w, id) ==
  LET es == {e \in OpenEnds(w) : w.node_id[e] = id}
  IN  IF es = {} THEN NoNode
      ELSE CHOOSE e \in es : \A f \in es : e[1] <= f[1]

Died(w) == [w EXCEPT !.crash = TRUE]

\* conn_printf() of one line on end e: the peer gets it unless it closed.
Send(w, e, m) ==
  IF w.sock[Other(e)] \in {"pending", "open"}
    THEN [w EXCEPT !.inbox[Other(e)] = Append(@, m)]
    ELSE w

\* conn_printf() of the same line on every connection of the process.
Broadcast(w, m) ==
  LET to == {Other(e) : e \in OpenEnds(w)}
  IN  [w EXCEPT !.inbox = [f \in End |->
         IF f \in to /\ w.sock[f] \in {"pending", "open"}
           THEN Append(w.inbox[f], m) ELSE w.inbox[f]]]

SlotOf(ids, id) == Min({i \in Slot : ids[i] = id})
FirstFree(ids)  == Min({i \in Slot : ids[i] = NoNode})

\* A row no slot refers to is never read before get_recipient_index() or
\* get_neighbor_index() sets it, so the model keeps it at INVALID.
NoPaths == [i \in Slot |-> INVALID]

\* get_neighbor_index(nb, true)
GetNeighborIndex(w, nb) ==
  IF nb \in Range(w.nid) THEN w
  ELSE IF NoNode \notin Range(w.nid) THEN Died(w)
  ELSE LET i == FirstFree(w.nid)
       IN  [w EXCEPT !.nid[i] = nb,
                     !.rt = [j \in Slot |-> [@[j] EXCEPT ![i] = INVALID]]]

\* get_recipient_index(r, true)
GetRecipientIndex(w, r) ==
  IF r \in Range(w.rid) THEN w
  ELSE IF NoNode \notin Range(w.rid) THEN Died(w)
  ELSE LET j == FirstFree(w.rid)
       IN  [w EXCEPT !.rid[j] = r, !.rt[j] = [i \in Slot |-> INVALID], !.ft[j] = 0]

\* are_paths_equal() on two routing_table entries
PathsEqual(p, q) == p = q

\* Mutant: the path is taken without looking for this node in it.
Admissible_NoSelfCheck(self, pathIn) == pathIn

\* The path given, or INVALID if it is invalid or crosses this node
\* (routing.c:117-131).
Admissible(self, pathIn) ==
  IF pathIn = INVALID \/ self \in ToSet(pathIn) THEN INVALID ELSE pathIn

\* Mutant: an emptied row keeps its recipient id.
FreedId_Kept(r, closest) == r

\* The recipient id kept in a row: -1 once no neighbor has a path.
FreedId(r, closest) == IF closest = 0 THEN NoNode ELSE r

\* The return value: the next hop or the shortest path changed.
PathChanged(old, closest, oldPath, newPath) ==
  old # closest \/ (closest # 0 /\ ~PathsEqual(oldPath, newPath))

\* Mutant: the old next hop is kept while it has any valid path.
ClosestNeighbor_Sticky(old, first, row) ==
  IF old # 0 /\ first # 0 /\ row[old] # INVALID THEN old ELSE first

\* The next hop chosen among the shortest paths (first, the lowest slot):
\* the old one when its path is as short (routing.c:164-171).
ClosestNeighbor(old, first, row) ==
  IF old # 0 /\ first # 0 /\ row[old] # INVALID
     /\ Len(row[old]) = Len(row[first])
  THEN old ELSE first

\* update_routing_given_new_path(): the new world and whether the shortest
\* path to r changed.
UpdateRouting(w, nb, r, pathIn) ==
  IF r = w.self \/ nb = w.self THEN [w |-> w, changed |-> FALSE] ELSE
  LET w1 == GetRecipientIndex(GetNeighborIndex(w, nb), r)
  IN
  IF w1.crash THEN [w |-> w1, changed |-> FALSE] ELSE
  LET i    == SlotOf(w1.nid, nb)
      j    == SlotOf(w1.rid, r)
      path == Admissible(w.self, pathIn)
      old  == w1.ft[j]
      oldPath == IF old = 0 THEN INVALID ELSE w1.rt[j][old]
      row  == [w1.rt[j] EXCEPT ![i] = path]
      valid == {k \in Slot : w1.nid[k] # NoNode /\ row[k] # INVALID}
      first == IF valid = {} THEN 0
               ELSE Min({k \in valid : \A l \in valid : Len(row[k]) <= Len(row[l])})
      closest == ClosestNeighbor(old, first, row)
  IN  [w |-> [w1 EXCEPT !.rt[j] = IF closest = 0 THEN NoPaths ELSE row,
                        !.ft[j] = closest,
                        !.rid[j] = FreedId(r, closest)],
       changed |-> PathChanged(old, closest, oldPath,
                               IF closest = 0 THEN INVALID ELSE row[closest])]

\* get_route_message(): the path string self-nodes-r, or none.
RouteLine(self, r, p) ==
  RouteMsg(self, r, IF p = INVALID THEN INVALID ELSE <<self>> \o p \o <<r>>)

\* announce_new_path()
AnnounceNewPath(w, r) ==
  LET p == IF r \notin Range(w.rid) THEN INVALID
           ELSE LET j == SlotOf(w.rid, r) IN w.rt[j][w.ft[j]]
  IN  Broadcast(w, RouteLine(w.self, r, p))

\* update_routing_and_announce_given_new_path()
UpdateAndAnnounce(w, nb, r, path) ==
  LET u == UpdateRouting(w, nb, r, path)
  IN  IF u.changed THEN AnnounceNewPath(u.w, r) ELSE u.w

\* remove_routing_neighbor(): every row loses the path via nb, then the
\* neighbor slot is freed.
RemoveRoutingNeighbor(w, nb) ==
  IF nb \notin Range(w.nid) THEN w ELSE
  LET w1 == FoldLeft(LAMBDA acc, j :
                       IF acc.rid[j] # NoNode /\ ~acc.crash
                         THEN UpdateAndAnnounce(acc, nb, acc.rid[j], INVALID)
                         ELSE acc,
                     w, SetToSortSeq(Slot, <))
  IN  [w1 EXCEPT !.nid[SlotOf(w.nid, nb)] = NoNode]

\* remove_neighbor_connection(): only once no open connection to id is left.
RemoveNeighborConnection(w, id) ==
  IF id # NoNode /\ FindByNodeId(w, id) = NoNode
    THEN RemoveRoutingNeighbor(w, id) ELSE w

\* send_shortest_paths(): our own route, then a line per allocated row.
SendShortestPaths(w, e) ==
  LET js    == SetToSortSeq({j \in Slot : w.rid[j] # NoNode}, <)
      line(j) == RouteLine(w.self, w.rid[j],
                           IF w.ft[j] = 0 THEN INVALID ELSE w.rt[j][w.ft[j]])
      lines == <<RouteMsg(w.self, w.self, <<w.self>>)>>
                 \o [k \in 1 .. Len(js) |-> line(js[k])]
  IN  IF w.sock[Other(e)] \in {"pending", "open"}
        THEN [w EXCEPT !.inbox[Other(e)] = @ \o lines]
        ELSE w

\* forward_message(): no row drops the message; a row whose neighbor has no
\* open connection dereferences NULL (routing.c:273-276).
ForwardMessage(w, from, to) ==
  IF to \notin Range(w.rid) THEN w ELSE
  LET j  == SlotOf(w.rid, to)
      nb == w.nid[w.ft[j]]
      e  == FindByNodeId(w, nb)
  IN  IF e = NoNode THEN Died(w) ELSE Send(w, e, ChatMsg(from, to))

\* The ROUTE lines of handle_message_from_any_node() (ring.c:182-253),
\* received on end e.  A path string is kept as its list of ids.
HandleRoute(w, e, m) ==
  IF m.path # INVALID THEN
    LET hop == Len(m.path) - 1 IN
    IF \/ m.nb # w.node_id[e]
       \/ m.nb = w.self
       \/ m.nb = m.r /\ hop # 0
       \/ m.nb # m.r /\ hop = 0
      THEN w
      ELSE UpdateAndAnnounce(w, m.nb, m.r, SubSeq(m.path, 1, hop))
  ELSE IF m.nb = w.self \/ m.nb # w.node_id[e] \/ m.r = w.self
    THEN w
    ELSE UpdateAndAnnounce(w, m.nb, m.r, INVALID)

\* The CHAT lines (ring.c:256-276).
HandleChat(w, m) ==
  IF m.to = w.self THEN w ELSE ForwardMessage(w, m.from, m.to)

\* init_routing(): every slot is freed (the freed rows, unread from now on,
\* are kept at INVALID).
InitRouting(w) ==
  [w EXCEPT !.rid = [j \in Slot |-> NoNode], !.nid = [i \in Slot |-> NoNode],
            !.rt = [j \in Slot |-> NoPaths], !.ft = [j \in Slot |-> 0]]

\* close_connection() of end e; the lines left in it are never read.
CloseEnd(w, e) == [w EXCEPT !.sock[e] = "closed", !.inbox[e] = <<>>]

\* A process that dies has its sockets closed by the kernel.
Killed(n, w) ==
  LET dead == {e \in End : w.owner[e] = n /\ w.sock[e] \in {"pending", "open"}}
  IN  [w EXCEPT !.sock = [e \in End |-> IF e \in dead THEN "closed" ELSE @[e]],
                !.inbox = [e \in End |-> IF e \in dead THEN <<>> ELSE @[e]]]

\* A connection both of whose ends are closed is gone; it is kept as a free
\* one.
Gone(w) ==
  LET dead == {k \in Conn : w.sock[<<k, "cli">>] = "closed"
                            /\ w.sock[<<k, "srv">>] = "closed"}
      free(e) == e[1] \in dead
  IN  [w EXCEPT !.sock = [e \in End |-> IF free(e) THEN "free" ELSE @[e]],
                !.owner = [e \in End |-> IF free(e) THEN NoNode ELSE @[e]],
                !.node_id = [e \in End |-> IF free(e) THEN NoNode ELSE @[e]]]

Commit(n, w) ==
  LET w1 == Gone(IF w.crash THEN Killed(n, w) ELSE w)
  IN  /\ rid' = [rid EXCEPT ![n] = w1.rid]
      /\ nid' = [nid EXCEPT ![n] = w1.nid]
      /\ rt'  = [rt EXCEPT ![n] = w1.rt]
      /\ ft'  = [ft EXCEPT ![n] = w1.ft]
      /\ owner' = w1.owner
      /\ sock' = w1.sock
      /\ node_id' = w1.node_id
      /\ inbox' = w1.inbox
      /\ crashed' = [crashed EXCEPT ![n] = w1.crash]

Live(n) == ~crashed[n]

\* Nothing is in flight: no connection waits in the backlog, no line or EOF
\* is left to read.
Quiet ==
  \A e \in End : /\ sock[e] # "pending"
                 /\ sock[e] = "open" => inbox[e] = <<>> /\ sock[Other(e)] = "open"

Typed ==
  /\ events < MaxEvents
  /\ Serial => Quiet
  /\ events' = events + 1

FreeConn == {k \in Conn : sock[<<k, "cli">>] = "free" /\ sock[<<k, "srv">>] = "free"}

\* connect_to_node() to m, the first line (ENTRY, PRED or CHORD: only its
\* kind is kept), then send_shortest_paths() on the new connection.
ConnectAndSend(w, n, m, kind) ==
  \E k \in FreeConn :
    LET cli == <<k, "cli">>
        srv == <<k, "srv">>
        w1  == [w EXCEPT !.sock = [@ EXCEPT ![cli] = "open", ![srv] = "pending"],
                         !.owner = [@ EXCEPT ![cli] = n, ![srv] = m],
                         !.node_id = [@ EXCEPT ![cli] = m],
                         !.inbox = [@ EXCEPT ![srv] = <<[type |-> kind]>>]]
    IN  Commit(n, SendShortestPaths(w1, cli))

Init ==
  /\ inRing = [n \in Node |-> FALSE]
  /\ crashed = [n \in Node |-> FALSE]
  /\ rid = [n \in Node |-> [j \in Slot |-> Zero]]
  /\ nid = [n \in Node |-> [i \in Slot |-> Zero]]
  /\ rt  = [n \in Node |-> [j \in Slot |-> [i \in Slot |-> <<>>]]]
  /\ ft  = [n \in Node |-> [j \in Slot |-> 1]]
  /\ owner = [e \in End |-> NoNode]
  /\ sock = [e \in End |-> "free"]
  /\ node_id = [e \in End |-> NoNode]
  /\ inbox = [e \in End |-> <<>>]
  /\ events = 0


-----------------------------------------------------------------------------
(* Link events of the ring layer and the user's commands *)

\* join_ring(): init_routing(), connect to the successor, ENTRY and
\* send_shortest_paths().
Join(n, m) ==
  /\ Live(n) /\ ~inRing[n] /\ m # n
  /\ inRing[m] /\ Live(m)          \* a successor taken from the ring
  /\ Typed
  /\ inRing' = [inRing EXCEPT ![n] = TRUE]
  /\ ConnectAndSend(InitRouting(World(n)), n, m, "ENTRY")

\* request_node_list() with an empty list: a new ring of one node.
SoloJoin(n) ==
  /\ Live(n) /\ ~inRing[n]
  /\ Typed
  /\ inRing' = [inRing EXCEPT ![n] = TRUE]
  /\ Commit(n, InitRouting(World(n)))

\* "dj n n": a ring of one node, and the tables are left as they are.
DjSelf(n) ==
  /\ "dj_self" \in CodePaths
  /\ Live(n) /\ ~inRing[n]
  /\ Typed
  /\ inRing' = [inRing EXCEPT ![n] = TRUE]
  /\ UNCHANGED <<crashed, rid, nid, rt, ft, owner, sock, node_id, inbox>>

\* create_outbound_chord() (CHORD), and the reconnections to a new successor
\* (PRED): connect and send_shortest_paths().  The check for an existing
\* connection is commented out (ring.c:137-140), but the chord command makes
\* it (main.c:51).  The reconnection closes only a chord to the new
\* successor (ring.c:542-547), so it may open a second link to the old
\* predecessor; that happens where "dup_link" is allowed.
Chord(n, m) ==
  /\ Live(n) /\ inRing[n] /\ m # n
  /\ inRing[m] /\ Live(m)
  /\ Typed
  /\ \E kind \in {"CHORD", "PRED"} :
       /\ \/ FindByNodeId(World(n), m) = NoNode
          \/ kind = "PRED" /\ "dup_link" \in CodePaths
       /\ ConnectAndSend(World(n), n, m, kind)
  /\ UNCHANGED inRing

\* The main loop accepts a connection; a process in a ring reads the peer's
\* first line, learns its id and sends its table, except that a CHORD from
\* a node it is already connected to is left open with node_id -1.
Accept(n, e) ==
  /\ Live(n) /\ owner[e] = n /\ sock[e] = "pending"
  /\ LET m  == owner[Other(e)]
         w0 == [World(n) EXCEPT !.sock[e] = "open", !.inbox[e] = Tail(@)]
     IN  IF ~inRing[n] THEN Commit(n, CloseEnd(World(n), e))
         ELSE IF Head(inbox[e]).type = "CHORD" /\ FindByNodeId(World(n), m) # NoNode
           THEN Commit(n, w0)
         ELSE Commit(n, SendShortestPaths([w0 EXCEPT !.node_id[e] = m], e))
  /\ UNCHANGED <<inRing, events>>

\* A handler closes a connection and calls remove_neighbor_connection(), as
\* "remove chord" does.
Close(n, e) ==
  /\ Live(n) /\ inRing[n] /\ owner[e] = n /\ sock[e] = "open"
  /\ Typed
  /\ Commit(n, RemoveNeighborConnection(CloseEnd(World(n), e), node_id[e]))
  /\ UNCHANGED inRing

\* A PRED line while pred_conn != NULL closes the old predecessor with
\* close_connection() alone.
ClosePred(n, e) ==
  /\ "pred_replace" \in CodePaths
  /\ Live(n) /\ inRing[n] /\ owner[e] = n /\ sock[e] = "open"
  /\ Typed
  /\ Commit(n, CloseEnd(World(n), e))
  /\ UNCHANGED inRing

\* leave_ring(): every connection is closed; the tables are left as they are.
Leave(n) ==
  /\ Live(n) /\ inRing[n]
  /\ Typed
  /\ inRing' = [inRing EXCEPT ![n] = FALSE]
  /\ Commit(n, FoldSet(LAMBDA e, w : CloseEnd(w, e), World(n),
                       OpenEnds(World(n))))

\* "m r <text>": forward_message(self, r), in any connection state.
Chat(n, r) ==
  /\ Live(n) /\ r # n
  /\ inRing[n] \/ "chat_out" \in CodePaths
  /\ Typed
  /\ Commit(n, ForwardMessage(World(n), n, r))
  /\ UNCHANGED inRing

\* The main loop reads one ROUTE or CHAT line from end e.
Receive(n, e) ==
  /\ Live(n) /\ owner[e] = n /\ sock[e] = "open" /\ inbox[e] # <<>>
  /\ LET m  == Head(inbox[e])
         w0 == [World(n) EXCEPT !.inbox[e] = Tail(@)]
     IN  Commit(n, IF m.type = "ROUTE" THEN HandleRoute(w0, e, m)
                                       ELSE HandleChat(w0, m))
  /\ UNCHANGED <<inRing, events>>

\* The peer closed end e and every line was read: handle_broken_socket()
\* closes it and calls remove_neighbor_connection().
Disconnect(n, e) ==
  /\ Live(n) /\ owner[e] = n /\ sock[e] = "open" /\ inbox[e] = <<>>
  /\ sock[Other(e)] = "closed"
  /\ Commit(n, RemoveNeighborConnection(CloseEnd(World(n), e), node_id[e]))
  /\ UNCHANGED <<inRing, events>>

Next ==
  \/ \E n \in Node :
       \/ SoloJoin(n) \/ DjSelf(n) \/ Leave(n)
       \/ \E m \in Node : Join(n, m) \/ Chord(n, m) \/ Chat(n, m)
       \/ \E e \in End : \/ Accept(n, e) \/ Close(n, e) \/ ClosePred(n, e)
                         \/ Receive(n, e) \/ Disconnect(n, e)

Spec == Init /\ [][Next]_vars

-----------------------------------------------------------------------------
(* Properties *)

Members == {n \in Node : inRing[n] /\ ~crashed[n]}


\* The links: n has an open connection identified as m's.
Links == {<<owner[e], node_id[e]>> : e \in {f \in End : sock[f] = "open"}}

\* The nodes within k links of n.
Within(n) ==
  LET W[k \in 0 .. Cardinality(Node)] ==
        IF k = 0 THEN {n}
        ELSE W[k-1] \cup {l[2] : l \in {x \in Links : x[1] \in W[k-1]}}
  IN  W

Dist(n, r) == Min({k \in 0 .. Cardinality(Node) : r \in Within(n)[k]})

\* The path the forwarding table gives from n to r, ends included.
Route(n, r) ==
  LET j == SlotOf(rid[n], r)
  IN  <<n>> \o rt[n][j][ft[n][j]] \o <<r>>

\* Type invariant, with the representation of a free row: its id and its
\* forwarding entry are -1 together.
TypeOK ==
  /\ inRing \in [Node -> BOOLEAN] /\ crashed \in [Node -> BOOLEAN]
  /\ rid \in [Node -> [Slot -> Id \cup {NoNode}]]
  /\ nid \in [Node -> [Slot -> Id \cup {NoNode}]]
  /\ rt \in [Node -> [Slot -> [Slot -> Seq(Id) \cup {INVALID}]]]
  /\ ft \in [Node -> [Slot -> 0 .. Cardinality(Slot)]]
  /\ owner \in [End -> Node \cup {NoNode}]
  /\ sock \in [End -> {"free", "pending", "open", "closed"}]
  /\ node_id \in [End -> Node \cup {NoNode}]
  /\ events \in 0 .. MaxEvents
  \* forwarding_table[j] is -1 exactly on the rows whose id is -1
  /\ \A n \in Node, j \in Slot : (rid[n][j] = NoNode) = (ft[n][j] = 0)

\* Whenever the network is at rest, every ring member has a row exactly for
\* the nodes it can reach over open connections, and the forwarding table
\* sends a message along a path of open connections of the shortest length.
RoutesConverge ==
  Quiet =>
    \A n \in Members : \A r \in Node \ {n} :
      /\ (r \in Range(rid[n])) = (r \in Within(n)[Cardinality(Node)])
      /\ r \in Range(rid[n]) =>
           LET p == Route(n, r)
           IN  /\ Len(p) - 1 = Dist(n, r)
               /\ \A k \in 1 .. Len(p) - 1 : <<p[k], p[k+1]>> \in Links

\* Every forwarding entry of a ring member names a neighbor it has an open
\* connection to, so forward_message() never dereferences NULL.
ForwardingHasConnection ==
  \A n \in Members, j \in Slot :
    rid[n][j] \in Node =>
      FindByNodeId(World(n), nid[n][ft[n][j]]) # NoNode

IsSimple(p) == \A a, b \in DOMAIN p : p[a] = p[b] => a = b

\* No path repeats a node: neither a routing table entry, with its holder
\* and recipient, nor the path of a ROUTE line in flight.  Paths grow by one
\* node per hop and nothing bounds their length when parsed (ring.c:209), so
\* this is what keeps them within MAX_NODES.
PathsLoopFree ==
  /\ \A n \in Node, j, i \in Slot :
       rid[n][j] \in Node /\ nid[n][i] \in Node /\ rt[n][j][i] # INVALID =>
         IsSimple(<<n>> \o rt[n][j][i] \o <<rid[n][j]>>)
  /\ \A e \in End : \A k \in 1 .. Len(inbox[e]) :
       inbox[e][k].type = "ROUTE" /\ inbox[e][k].path # INVALID =>
         IsSimple(inbox[e][k].path)

\* No process dies.
NoCrash == \A n \in Node : ~crashed[n]

=============================================================================
