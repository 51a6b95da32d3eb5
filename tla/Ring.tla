-------------------------------- MODULE Ring --------------------------------
(***************************************************************************)
(* The ring-membership protocol of src/ring.c, driven by the event loop of *)
(* src/main.c, for a set of node processes joined by TCP connections.      *)
(*                                                                         *)
(* Each process keeps the globals of ring.c and connections.c (its         *)
(* connection_state, succ, second_succ, the awaiting flags, the single     *)
(* pred_timeout timer and the four role pointers) in proc[n].  A TCP       *)
(* connection k has two ends <<k,"cli">> (the connect() side) and          *)
(* <<k,"srv">> (the accept() side); each end has an owner, a socket state, *)
(* the node_id its Connection record holds and the FIFO of lines in flight *)
(* towards it.  A closed end delivers what was already sent, then EOF.     *)
(*                                                                         *)
(* Every handler is one atomic step of its process (the event loop is      *)
(* single threaded).  A handler is written as an operator from a "world"   *)
(* record (the process's globals plus the network) to a new world, so that *)
(* the nested control flow of the C code, including a failing              *)
(* conn_printf() that runs handle_broken_socket() in the middle of a       *)
(* handler, is kept in order.                                              *)
(*                                                                         *)
(* Abstractions: a node's id is its address (ENTRY/SUCC carry one id);     *)
(* ROUTE/CHAT traffic is not carried here (routing is not modelled): a    *)
(* send_shortest_paths() is a write that can fail but delivers nothing     *)
(* this module reads; joins are direct joins ("dj"), with no directory.    *)
(***************************************************************************)
EXTENDS Naturals, Sequences, FiniteSets

CONSTANTS
    Node,       \* the node processes, identified by their ids
    MaxConn,    \* bound: TCP connections that may exist at the same time
    Null,       \* NULL pointer, node_id -1, and the zero-initialised id
    Serial,     \* TRUE: the user issues a command only when nothing is in progress
    PatientTimers, \* TRUE: the 1 s timer only expires once the network is idle
    MaxCommands \* bound: user commands in a behaviour (0: no bound)

ASSUME MaxConn \in Nat \ {0} /\ Null \notin Node
ASSUME Serial \in BOOLEAN /\ PatientTimers \in BOOLEAN /\ MaxCommands \in Nat

VARIABLES
    proc,       \* proc[n]: the globals of process n
    owner,      \* owner[e]: the process whose socket end e is
    sock,       \* sock[e]: "free", "pending" (not yet accept()ed), "open", "closed"
    node_id,    \* node_id[e]: Connection.node_id of end e (Null = -1)
    inbox,      \* inbox[e]: lines sent towards end e and not yet read
    rst,        \* the ends an RST is coming back to: their writes may fail
    commands    \* user commands issued so far (counted only under MaxCommands)

vars == <<proc, owner, sock, node_id, inbox, rst, commands>>

Conns == 1..MaxConn
End == Conns \X {"cli", "srv"}
Other(e) == <<e[1], IF e[2] = "cli" THEN "srv" ELSE "cli">>

States == {"DISCONNECTED", "CONNECTING", "CONNECTED"}
Msg == [type : {"ENTRY", "PRED", "SUCC", "CHORD"}, id : Node]
EntryMsg(id) == [type |-> "ENTRY", id |-> id]
PredMsg(id)  == [type |-> "PRED",  id |-> id]
SuccMsg(id)  == [type |-> "SUCC",  id |-> id]
ChordMsg(id) == [type |-> "CHORD", id |-> id]
RouteTable == [type |-> "ROUTE", id |-> Null]   \* send_shortest_paths(): written, not delivered

ProcInit ==
    [connection_state |-> "DISCONNECTED", succ |-> Null, second_succ |-> Null,
     awaiting_pred |-> FALSE, awaiting_succ |-> FALSE, timeout_armed |-> FALSE,
     pred_conn |-> Null, succ_conn |-> Null, new_node_conn |-> Null,
     outbound_chord_conn |-> Null, input_state |-> "COMMAND", exit |-> "none"]

Alive(n) == proc[n].exit = "none"

-----------------------------------------------------------------------------
(* The world a handler of process n runs in.  F is the set of n's ends     *)
(* whose writes fail in this step (their remote end is already closed and  *)
(* the reset has come back); err is conn_printf()'s result for the last    *)
(* write; ret is a returned connection; cause records an exit(1) or a NULL *)
(* dereference; bound marks a step that would exceed MaxConn.              *)
World(n, F) ==
    [self |-> n, connection_state |-> proc[n].connection_state,
     succ |-> proc[n].succ, second_succ |-> proc[n].second_succ,
     awaiting_pred |-> proc[n].awaiting_pred, awaiting_succ |-> proc[n].awaiting_succ,
     timeout_armed |-> proc[n].timeout_armed, pred_conn |-> proc[n].pred_conn,
     succ_conn |-> proc[n].succ_conn, new_node_conn |-> proc[n].new_node_conn,
     outbound_chord_conn |-> proc[n].outbound_chord_conn,
     input_state |-> proc[n].input_state,
     owner |-> owner, sock |-> sock, node_id |-> node_id, inbox |-> inbox, rst |-> rst,
     F |-> F, err |-> FALSE, ret |-> Null, cause |-> "none", bound |-> FALSE]

ProcOf(w) ==
    [connection_state |-> w.connection_state, succ |-> w.succ,
     second_succ |-> w.second_succ, awaiting_pred |-> w.awaiting_pred,
     awaiting_succ |-> w.awaiting_succ, timeout_armed |-> w.timeout_armed,
     pred_conn |-> w.pred_conn, succ_conn |-> w.succ_conn,
     new_node_conn |-> w.new_node_conn, outbound_chord_conn |-> w.outbound_chord_conn,
     input_state |-> w.input_state, exit |-> "none"]

Halted(w) == w.cause # "none"
Crash(w, cause) == [w EXCEPT !.cause = cause, !.err = TRUE]

\* Variant with a bug: close_connection() forgets to clear outbound_chord_conn.
CloseEnds_KeepsChordRole(w, S) ==
    LET closed(e) == e \in S \/ w.sock[e] = "closed"
        gone(e) == closed(e) /\ closed(Other(e))
    IN [w EXCEPT
          !.sock = [e \in End |-> IF gone(e) THEN "free"
                                  ELSE IF e \in S THEN "closed" ELSE w.sock[e]],
          !.owner = [e \in End |-> IF gone(e) THEN Null ELSE w.owner[e]],
          !.node_id = [e \in End |-> IF gone(e) THEN Null ELSE w.node_id[e]],
          !.inbox = [e \in End |-> IF closed(e) THEN <<>> ELSE w.inbox[e]],
          !.rst = {e \in w.rst \cup {Other(f) : f \in {g \in S : w.inbox[g] # <<>>}} : ~gone(e)},
          !.pred_conn = IF @ \in S THEN Null ELSE @,
          !.succ_conn = IF @ \in S THEN Null ELSE @,
          !.new_node_conn = IF @ \in S THEN Null ELSE @]

\* close_connection() on a set of ends; a connection both of whose ends are
\* closed is forgotten.  Role pointers to a closed end are cleared.  Closing
\* a socket with unread data sends an RST to the peer.
CloseEnds(w, S) ==
    LET closed(e) == e \in S \/ w.sock[e] = "closed"
        gone(e) == closed(e) /\ closed(Other(e))
    IN [w EXCEPT
          !.sock = [e \in End |-> IF gone(e) THEN "free"
                                  ELSE IF e \in S THEN "closed" ELSE w.sock[e]],
          !.owner = [e \in End |-> IF gone(e) THEN Null ELSE w.owner[e]],
          !.node_id = [e \in End |-> IF gone(e) THEN Null ELSE w.node_id[e]],
          !.inbox = [e \in End |-> IF closed(e) THEN <<>> ELSE w.inbox[e]],
          !.rst = {e \in w.rst \cup {Other(f) : f \in {g \in S : w.inbox[g] # <<>>}} : ~gone(e)},
          !.pred_conn = IF @ \in S THEN Null ELSE @,
          !.succ_conn = IF @ \in S THEN Null ELSE @,
          !.new_node_conn = IF @ \in S THEN Null ELSE @,
          !.outbound_chord_conn = IF @ \in S THEN Null ELSE @]

CloseConnection(w, e) ==
    IF e = Null \/ w.sock[e] # "open" THEN w ELSE CloseEnds(w, {e})

OwnOpen(w) == {e \in End : w.owner[e] = w.self /\ w.sock[e] = "open"}

\* find_connection_by_node_id(): the first open connection with that id
FindByNodeId(w, id) ==
    LET S == {e \in OwnOpen(w) : w.node_id[e] = id}
    IN IF S = {} THEN Null ELSE CHOOSE e \in S : \A f \in S : e[1] <= f[1]

IsInboundChord(w, e) ==
    e \notin {w.new_node_conn, w.pred_conn, w.succ_conn, w.outbound_chord_conn}

\* leave_ring(): close every connection; the timer is left as it is
LeaveRing(w) ==
    [CloseEnds(w, OwnOpen(w)) EXCEPT !.connection_state = "DISCONNECTED"]

\* connect_to_node(): add_connection() then connect().  A refused connect
\* returns NULL but leaves the added connection in the table.
ConnectToNode(w, t) ==
    LET free == {k \in Conns : w.sock[<<k, "cli">>] = "free" /\ w.sock[<<k, "srv">>] = "free"}
        k == CHOOSE k \in free : \A j \in free : k <= j
        c == <<k, "cli">>
        s == <<k, "srv">>
        up == proc[t].exit = "none"
    IN IF Halted(w) THEN [w EXCEPT !.ret = Null]
       ELSE IF free = {} THEN [w EXCEPT !.bound = TRUE, !.ret = Null]
       ELSE [w EXCEPT !.owner = [@ EXCEPT ![c] = w.self, ![s] = t],
                      !.sock = [@ EXCEPT ![c] = "open", ![s] = IF up THEN "pending" ELSE "closed"],
                      !.node_id = [@ EXCEPT ![c] = t],
                      !.rst = IF up THEN @ ELSE @ \cup {c},
                      !.ret = IF up THEN c ELSE Null]

\* Variant with a bug: on_join_end() sets the wrong state.
OnJoinEnd_WrongState(w) == [w EXCEPT !.connection_state = "AWAITING_NODE_LIST"]

OnJoinEnd(w) == [w EXCEPT !.connection_state = "CONNECTED"]

CloseDegenerateChord(w, id) ==
    LET c == FindByNodeId(w, id)
    IN IF c # Null /\ (c = w.outbound_chord_conn \/ IsInboundChord(w, c))
       THEN CloseConnection(w, c) ELSE w

BrokenPred(w) ==
    IF w.connection_state # "CONNECTED" THEN LeaveRing(w)
    ELSE [w EXCEPT !.pred_conn = Null,
                   !.timeout_armed = IF w.self = w.second_succ THEN @ ELSE TRUE]


-----------------------------------------------------------------------------
(* conn_printf() and handle_broken_socket().  A write to a peer that has   *)
(* closed succeeds but draws an RST; a write to an end whose RST has       *)
(* arrived (in F) fails and runs the broken-socket handler at once; a NULL *)
(* connection pointer is a crash.                                          *)

\* handle_broken_socket(): the handler of e's role, then close_connection().
\* onSucc is the world the successor's handler makes of w.
HandleBroken(w, e, onSucc) ==
    LET w1 == CASE e = w.new_node_conn -> [w EXCEPT !.new_node_conn = Null]
                [] e = w.pred_conn -> BrokenPred(w)
                [] e = w.succ_conn -> onSucc
                [] OTHER -> IF w.node_id[e] = Null THEN Crash(w, "assert") ELSE w
    IN CloseConnection(w1, e)

\* conn_printf().  Every write to succ_conn goes to a connection opened in
\* the same handler, which no RST can have reached, so a failing write
\* never runs handle_broken_succ_socket(); should it, the step ends with
\* cause "reentry", which NoCrash reports.
Write(w, e, m) ==
    IF Halted(w) THEN w
    ELSE IF e = Null THEN Crash(w, "segfault")
    ELSE IF e \in w.F \cap w.rst /\ w.sock[e] = "open"
         THEN [HandleBroken(w, e, Crash(w, "reentry")) EXCEPT !.err = TRUE]
    ELSE [w EXCEPT !.err = FALSE,
                   !.inbox = IF m.type # "ROUTE" /\ w.sock[Other(e)] \in {"open", "pending"}
                             THEN [@ EXCEPT ![Other(e)] = Append(@, m)] ELSE @,
                   !.rst = IF w.sock[Other(e)] = "closed" THEN @ \cup {e} ELSE @]

\* send_shortest_paths(): the line for ourselves, then the lines for the
\* known recipients, all written to e and read by the routing module, not here.
SendShortestPaths(w, e) ==
    LET w1 == Write(w, e, RouteTable)
    IN IF w1.err THEN w1 ELSE Write(w1, e, RouteTable)

\* Variants with a bug: handle_broken_succ_socket() does not tell the
\* predecessor its new second successor / does not check pred_conn.
BrokenSucc_NoNotify(w) ==
    IF w.connection_state # "CONNECTED" THEN LeaveRing(w)
    ELSE LET w1 == [w EXCEPT !.awaiting_succ = TRUE, !.succ = w.second_succ]
         IN IF w1.succ = w1.self THEN w1
            ELSE IF w1.pred_conn = Null \/ w1.node_id[w1.pred_conn] = Null THEN LeaveRing(w1)
            ELSE LET w3 == ConnectToNode(CloseDegenerateChord(w1, w1.succ), w1.succ)
                 IN IF w3.ret = Null THEN LeaveRing([w3 EXCEPT !.succ_conn = Null])
                    ELSE LET w4 == Write([w3 EXCEPT !.succ_conn = w3.ret], w3.ret, PredMsg(w3.self))
                         IN IF w4.err THEN w4 ELSE SendShortestPaths(w4, w4.succ_conn)

BrokenSucc_NoPredCheck(w) ==
    IF w.connection_state # "CONNECTED" THEN LeaveRing(w)
    ELSE LET w1 == [w EXCEPT !.awaiting_succ = TRUE, !.succ = w.second_succ]
         IN IF w1.succ = w1.self THEN w1
            ELSE LET w2 == Write(w1, w1.pred_conn, SuccMsg(w1.succ))
                 IN IF w2.err THEN w2
                    ELSE LET w3 == ConnectToNode(CloseDegenerateChord(w2, w2.succ), w2.succ)
                         IN IF w3.ret = Null THEN LeaveRing([w3 EXCEPT !.succ_conn = Null])
                            ELSE LET w4 == Write([w3 EXCEPT !.succ_conn = w3.ret], w3.ret,
                                                 PredMsg(w3.self))
                                 IN IF w4.err THEN w4 ELSE SendShortestPaths(w4, w4.succ_conn)

\* handle_broken_succ_socket(): promote the second successor
BrokenSucc(w) ==
    IF w.connection_state # "CONNECTED" THEN LeaveRing(w)
    ELSE LET w1 == [w EXCEPT !.awaiting_succ = TRUE, !.succ = w.second_succ]
         IN IF w1.succ = w1.self THEN w1
            ELSE IF w1.pred_conn = Null \/ w1.node_id[w1.pred_conn] = Null THEN LeaveRing(w1)
            ELSE LET w2 == Write(w1, w1.pred_conn, SuccMsg(w1.succ))
                 IN IF w2.err THEN w2
                    ELSE LET w3 == ConnectToNode(CloseDegenerateChord(w2, w2.succ), w2.succ)
                         IN IF w3.ret = Null THEN LeaveRing([w3 EXCEPT !.succ_conn = Null])
                            ELSE LET w4 == Write([w3 EXCEPT !.succ_conn = w3.ret], w3.ret,
                                                 PredMsg(w3.self))
                                 IN IF w4.err THEN w4 ELSE SendShortestPaths(w4, w4.succ_conn)

BrokenSocket(w, e) == HandleBroken(w, e, BrokenSucc(w))

-----------------------------------------------------------------------------
(* Joining, and the lines a process reads from each kind of connection.    *)

\* join_ring(): connect to succ, send ENTRY and the routes, arm pred_timeout
JoinRing(w) ==
    LET w1 == ConnectToNode([w EXCEPT !.connection_state = "CONNECTING",
                                      !.awaiting_succ = TRUE, !.awaiting_pred = TRUE,
                                      !.pred_conn = Null, !.outbound_chord_conn = Null,
                                      !.new_node_conn = Null], w.succ)
    IN IF w1.ret = Null THEN LeaveRing([w1 EXCEPT !.succ_conn = Null])
       ELSE LET w2 == Write([w1 EXCEPT !.succ_conn = w1.ret], w1.ret, EntryMsg(w1.self))
                w3 == IF w2.err THEN w2 ELSE SendShortestPaths(w2, w2.succ_conn)
            IN IF w3.err THEN w3 ELSE [w3 EXCEPT !.timeout_armed = TRUE]

\* ENTRY from the successor: a node entered between us and our successor
EntryFromSucc(w, id) ==
    IF id = w.self \/ FindByNodeId(w, id) # Null \/ id = w.second_succ THEN LeaveRing(w)
    ELSE LET w1 == Write(w, w.pred_conn, SuccMsg(id))
         IN IF w1.err THEN w1
            ELSE LET w2 == CloseConnection(w1, w1.succ_conn)
                     w3 == ConnectToNode([w2 EXCEPT !.second_succ = w2.succ, !.succ = id], id)
                 IN IF w3.ret = Null THEN LeaveRing([w3 EXCEPT !.succ_conn = Null])
                    ELSE LET w4 == Write([w3 EXCEPT !.succ_conn = w3.ret], w3.ret, PredMsg(w3.self))
                         IN IF w4.err THEN w4 ELSE SendShortestPaths(w4, w4.succ_conn)

\* handle_message_from_succ()
FromSucc(w, m) ==
    CASE m.type = "SUCC" ->
            IF m.id = w.succ THEN w
            ELSE LET w1 == [w EXCEPT !.second_succ = m.id, !.awaiting_succ = FALSE]
                 IN IF w1.connection_state = "CONNECTING" /\ ~w1.awaiting_pred
                    THEN OnJoinEnd(w1) ELSE w1
      [] m.type = "ENTRY" -> EntryFromSucc(w, m.id)
      [] OTHER -> w

\* handle_message_from_pred()
FromPred(w, m) ==
    IF m.type = "ENTRY" /\ w.connection_state = "CONNECTING" THEN LeaveRing(w) ELSE w

\* ENTRY from a new node: it enters between our predecessor and us
EntryFromNewNode(w, id) ==
    LET nn == w.new_node_conn IN
    IF w.connection_state = "DISCONNECTED" \/ (w.connection_state = "CONNECTED" /\ w.succ = w.self)
    THEN LET w1 == [w EXCEPT !.node_id[nn] = id]
         IN IF w1.connection_state = "DISCONNECTED" \/ id = w1.self THEN CloseConnection(w1, nn)
            ELSE LET w2 == Write([w1 EXCEPT !.succ = id, !.second_succ = w1.self], nn, SuccMsg(id))
                     w3 == IF w2.err THEN w2 ELSE ConnectToNode(w2, id)
                 IN IF w2.err THEN w2
                    ELSE IF w3.ret = Null THEN LeaveRing([w3 EXCEPT !.succ_conn = Null])
                    ELSE LET w4 == Write([w3 EXCEPT !.succ_conn = w3.ret], w3.ret, PredMsg(w3.self))
                             w5 == IF w4.err THEN w4 ELSE SendShortestPaths(w4, w4.succ_conn)
                         IN IF w5.err THEN w5
                            ELSE IF w5.pred_conn # Null THEN Crash(w5, "assert")
                            ELSE [w5 EXCEPT !.pred_conn = w5.new_node_conn, !.new_node_conn = Null]
    ELSE IF w.connection_state = "CONNECTED"
    THEN LET w1 == Write([w EXCEPT !.node_id[nn] = id], nn, SuccMsg(w.succ))
             w2 == IF w1.err THEN w1 ELSE Write(w1, w1.pred_conn, EntryMsg(id))
             w3 == IF w2.err THEN w2 ELSE SendShortestPaths(w2, w2.new_node_conn)
         IN IF w3.err THEN w3
            ELSE [CloseConnection(w3, w3.pred_conn) EXCEPT !.pred_conn = w3.new_node_conn,
                                                           !.new_node_conn = Null]
    ELSE CloseConnection(w, nn)

\* Variant with a bug: the PRED handler does not cancel_timeout().
PredFromNewNode_KeepsTimer(w, id) ==
    IF w.connection_state = "DISCONNECTED" THEN CloseConnection(w, w.new_node_conn)
    ELSE LET w1 == CloseDegenerateChord(CloseConnection(w, w.pred_conn), id)
             w2 == [w1 EXCEPT !.node_id[w1.new_node_conn] = id, !.pred_conn = w1.new_node_conn,
                              !.new_node_conn = Null]
             w3 == Write(w2, w2.pred_conn, SuccMsg(w2.succ))
             w4 == IF w3.err THEN w3 ELSE SendShortestPaths(w3, w3.pred_conn)
         IN IF w4.err THEN w4
            ELSE IF w4.connection_state = "CONNECTING" /\ ~w4.awaiting_succ
                 THEN OnJoinEnd([w4 EXCEPT !.awaiting_pred = FALSE])
                 ELSE [w4 EXCEPT !.awaiting_pred = FALSE]

\* PRED from a new node: our (new) predecessor has connected
PredFromNewNode(w, id) ==
    IF w.connection_state = "DISCONNECTED" THEN CloseConnection(w, w.new_node_conn)
    ELSE LET w1 == CloseDegenerateChord(CloseConnection(w, w.pred_conn), id)
             w2 == [w1 EXCEPT !.node_id[w1.new_node_conn] = id, !.pred_conn = w1.new_node_conn,
                              !.new_node_conn = Null, !.timeout_armed = FALSE]
             w3 == Write(w2, w2.pred_conn, SuccMsg(w2.succ))
             w4 == IF w3.err THEN w3 ELSE SendShortestPaths(w3, w3.pred_conn)
         IN IF w4.err THEN w4
            ELSE IF w4.connection_state = "CONNECTING" /\ ~w4.awaiting_succ
                 THEN OnJoinEnd([w4 EXCEPT !.awaiting_pred = FALSE])
                 ELSE [w4 EXCEPT !.awaiting_pred = FALSE]

\* CHORD from a new node; a known id is "rejected" by returning early
ChordFromNewNode(w, id) ==
    IF FindByNodeId(w, id) # Null THEN w
    ELSE LET w1 == SendShortestPaths([w EXCEPT !.node_id[w.new_node_conn] = id], w.new_node_conn)
         IN IF w1.err THEN w1 ELSE [w1 EXCEPT !.new_node_conn = Null]

FromNewNode(w, m) ==
    CASE m.type = "ENTRY" -> EntryFromNewNode(w, m.id)
      [] m.type = "PRED"  -> PredFromNewNode(w, m.id)
      [] m.type = "CHORD" -> ChordFromNewNode(w, m.id)
      [] OTHER -> w

\* handle_message(): dispatch on the role of the connection the line came on.
\* Chords only carry ROUTE and CHAT; a ring line on a chord is ignored.
HandleMessage(w, e, m) ==
    CASE e = w.new_node_conn -> FromNewNode(w, m)
      [] e = w.pred_conn -> FromPred(w, m)
      [] e = w.succ_conn -> FromSucc(w, m)
      [] OTHER -> IF w.node_id[e] = Null THEN Crash(w, "assert") ELSE w

\* create_outbound_chord()
CreateOutboundChord(w, t) ==
    LET w1 == ConnectToNode(w, t)
    IN IF w1.ret = Null THEN [w1 EXCEPT !.outbound_chord_conn = Null]
       ELSE LET w2 == Write([w1 EXCEPT !.outbound_chord_conn = w1.ret], w1.ret, ChordMsg(w1.self))
            IN IF w2.err THEN w2 ELSE SendShortestPaths(w2, w2.outbound_chord_conn)

-----------------------------------------------------------------------------
(* A step of process n: the world w its handler produced becomes the new   *)
(* state.  When the process died in the handler (exit(1) or a NULL         *)
(* dereference) the kernel closes all its sockets, accepted or not.        *)
Commit(n, w) ==
    /\ ~w.bound
    /\ IF Halted(w)
       THEN LET d == CloseEnds(w, {e \in End : w.owner[e] = n /\ w.sock[e] \in {"open", "pending"}})
            IN /\ proc' = [proc EXCEPT ![n] = [ProcInit EXCEPT !.exit = w.cause]]
               /\ owner' = d.owner /\ sock' = d.sock /\ node_id' = d.node_id
               /\ inbox' = d.inbox /\ rst' = d.rst
       ELSE /\ proc' = [proc EXCEPT ![n] = ProcOf(w)]
            /\ owner' = w.owner /\ sock' = w.sock /\ node_id' = w.node_id
            /\ inbox' = w.inbox /\ rst' = w.rst

\* The ends of n whose peer has closed: once the RST is back, writes fail.
Breakable(n) == {e \in End : owner[e] = n /\ sock[e] = "open" /\ sock[Other(e)] = "closed"}

\* Nothing in flight: every line read, every connection accepted, every EOF seen.
NetworkIdle ==
    \A e \in End : /\ sock[e] # "pending"
                   /\ sock[e] = "open" => inbox[e] = <<>> /\ sock[Other(e)] = "open"

\* Nothing in progress anywhere: no join pending, no timer armed.
Quiet ==
    /\ NetworkIdle
    /\ \A n \in Node : /\ proc[n].connection_state # "CONNECTING"
                       /\ ~proc[n].timeout_armed

\* A line typed by a user, within the command bound.
Typed ==
    /\ MaxCommands = 0 \/ commands < MaxCommands
    /\ commands' = IF MaxCommands = 0 THEN commands ELSE commands + 1

UserMayAct(n) ==
    /\ Alive(n)
    /\ proc[n].input_state = "COMMAND"
    /\ Serial => Quiet
    /\ Typed

Init ==
    /\ proc = [n \in Node |-> ProcInit]
    /\ owner = [e \in End |-> Null]
    /\ sock = [e \in End |-> "free"]
    /\ node_id = [e \in End |-> Null]
    /\ inbox = [e \in End |-> <<>>]
    /\ rst = {}
    /\ commands = 0

-----------------------------------------------------------------------------
(* Commands typed on stdin (handle_user_input).                            *)

\* "dj <self> <succ> ...": a one-node ring, or join_ring() towards succ.
\* The code does not check the state; the user is assumed to leave first.
DirectJoin(n) ==
    /\ UserMayAct(n)
    /\ proc[n].connection_state = "DISCONNECTED"
    /\ \E t \in Node :
         LET w == World(n, {})
         IN Commit(n, IF t = n
                      THEN [w EXCEPT !.succ = n, !.second_succ = n,
                                     !.connection_state = "CONNECTED",
                                     !.awaiting_pred = FALSE, !.awaiting_succ = FALSE]
                      ELSE JoinRing([w EXCEPT !.succ = t]))

\* "leave"
Leave(n) ==
    /\ UserMayAct(n)
    /\ proc[n].connection_state # "DISCONNECTED"
    /\ Commit(n, LeaveRing(World(n, {})))

\* "chord": request_node_list() either gets a list (the user is then asked
\* for an id) or times out after 1 s, which runs leave_ring().
ChordCommand(n) ==
    /\ UserMayAct(n)
    /\ proc[n].connection_state = "CONNECTED"
    /\ proc[n].outbound_chord_conn = Null
    /\ \/ proc' = [proc EXCEPT ![n].input_state = "CHORD_NODE_SELECTION"]
          /\ UNCHANGED <<owner, sock, node_id, inbox, rst>>
       \/ Commit(n, LeaveRing(World(n, {})))

\* The id typed at the chord prompt: rejected if it is ours or connected.
ChordSelect(n) ==
    /\ Alive(n)
    /\ proc[n].input_state = "CHORD_NODE_SELECTION"
    /\ Serial => Quiet
    /\ Typed
    /\ \E t \in Node :
         LET w == [World(n, {}) EXCEPT !.input_state = "COMMAND"]
         IN Commit(n, IF t = n \/ FindByNodeId(w, t) # Null THEN w
                      ELSE CreateOutboundChord(w, t))

\* "remove chord"
RemoveChord(n) ==
    /\ UserMayAct(n)
    /\ proc[n].connection_state = "CONNECTED"
    /\ proc[n].outbound_chord_conn # Null
    /\ Commit(n, CloseConnection(World(n, {}), proc[n].outbound_chord_conn))

\* "exit", or the process is killed: the kernel closes every socket.
Exit(n) ==
    /\ UserMayAct(n)
    /\ Commit(n, Crash(World(n, {}), "exit"))

\* The program is started again on the same address: main() begins with
\* every global zeroed and no connection (no state survives a restart).
Restart(n) ==
    /\ ~Alive(n)
    /\ Serial => Quiet
    /\ Typed
    /\ proc' = [proc EXCEPT ![n] = ProcInit]
    /\ UNCHANGED <<owner, sock, node_id, inbox, rst>>

-----------------------------------------------------------------------------
(* Events of the select() loop.                                            *)

\* The listening socket is readable: accept() the connection e.
Accept(n, e) ==
    /\ Alive(n)
    /\ UNCHANGED commands
    /\ owner[e] = n /\ sock[e] = "pending"
    /\ LET w == World(n, {})
       IN Commit(n, IF w.connection_state \notin {"CONNECTING", "CONNECTED"}
                       \/ w.new_node_conn # Null
                    THEN CloseEnds(w, {e})
                    ELSE [w EXCEPT !.sock[e] = "open", !.new_node_conn = e])

\* A line is read from peer connection e and handled.
Receive(n, e) ==
    /\ Alive(n)
    /\ UNCHANGED commands
    /\ owner[e] = n /\ sock[e] = "open" /\ inbox[e] # <<>>
    /\ \E F \in SUBSET Breakable(n) :
         LET w == [World(n, F) EXCEPT !.inbox[e] = Tail(@)]
         IN Commit(n, HandleMessage(w, e, Head(inbox[e])))

\* read() returns 0 (or ECONNRESET) on connection e whose peer closed it.
Disconnect(n, e) ==
    /\ Alive(n)
    /\ UNCHANGED commands
    /\ owner[e] = n /\ sock[e] = "open" /\ inbox[e] = <<>>
    /\ sock[Other(e)] = "closed"
    /\ \E F \in SUBSET Breakable(n) : Commit(n, BrokenSocket(World(n, F), e))

\* Variant with a bug: the loop does not unset timeout_handler after it ran.
Timeout_KeepsArmed(n) ==
    /\ Alive(n)
    /\ UNCHANGED commands
    /\ proc[n].timeout_armed
    /\ PatientTimers => NetworkIdle
    /\ Commit(n, LeaveRing(World(n, {})))

\* pred_timeout(): the predecessor did not connect within 1 s.
Timeout(n) ==
    /\ Alive(n)
    /\ UNCHANGED commands
    /\ proc[n].timeout_armed
    /\ PatientTimers => NetworkIdle
    /\ Commit(n, [LeaveRing(World(n, {})) EXCEPT !.timeout_armed = FALSE])

Next ==
    \E n \in Node :
        \/ DirectJoin(n) \/ Leave(n) \/ ChordCommand(n) \/ ChordSelect(n)
        \/ RemoveChord(n) \/ Exit(n) \/ Restart(n)
        \/ Timeout(n)
        \/ \E e \in End : Accept(n, e) \/ Receive(n, e) \/ Disconnect(n, e)

Spec == Init /\ [][Next]_vars

\* select() reports every ready descriptor and the loop serves each of them,
\* and the 1 s timer expires: every event of the loop that stays possible
\* happens.  The user's commands are not assumed to happen.  An end is
\* pending, holds lines, or is at EOF; Serve(e) is whichever applies, and
\* ServeReady(e) is when one does (weak fairness, stated with the enabling
\* condition written out).
Serve(e) == \E n \in Node : Accept(n, e) \/ Receive(n, e) \/ Disconnect(n, e)

ServeReady(e) ==
    /\ owner[e] \in Node
    /\ Alive(owner[e])
    /\ \/ sock[e] = "pending"
       \/ sock[e] = "open" /\ (inbox[e] # <<>> \/ sock[Other(e)] = "closed")

Fairness ==
    /\ \A n \in Node : WF_vars(Timeout(n))
    /\ \A e \in End : <>[]ServeReady(e) => []<><<Serve(e)>>_vars

FairSpec == Spec /\ Fairness

-----------------------------------------------------------------------------
(* Properties.                                                             *)

ProcType ==
    [connection_state : States, succ : Node \cup {Null}, second_succ : Node \cup {Null},
     awaiting_pred : BOOLEAN, awaiting_succ : BOOLEAN, timeout_armed : BOOLEAN,
     pred_conn : End \cup {Null}, succ_conn : End \cup {Null},
     new_node_conn : End \cup {Null}, outbound_chord_conn : End \cup {Null},
     input_state : {"COMMAND", "CHORD_NODE_SELECTION"},
     exit : {"none", "exit", "segfault", "assert", "reentry"}]

TypeOK ==
    /\ proc \in [Node -> ProcType]
    /\ owner \in [End -> Node \cup {Null}]
    /\ sock \in [End -> {"free", "pending", "open", "closed"}]
    /\ node_id \in [End -> Node \cup {Null}]
    /\ \A e \in End : inbox[e] \in Seq(Msg)
    /\ rst \subseteq End

Members == {n \in Node : Alive(n) /\ proc[n].connection_state = "CONNECTED"}

RingFormed ==
    /\ \A n \in Members : proc[n].succ \in Members
    /\ \A n, m \in Members : n # m => proc[n].succ # proc[m].succ
    /\ \A n \in Members : proc[n].second_succ = proc[proc[n].succ].succ
    /\ \A n \in Members :
         IF proc[n].succ = n
         THEN proc[n].succ_conn = Null /\ proc[n].pred_conn = Null
         ELSE LET e == proc[n].succ_conn
              IN /\ e # Null
                 /\ owner[Other(e)] = proc[n].succ
                 /\ proc[proc[n].succ].pred_conn = Other(e)

\* After joins, leaves, exits and chord changes issued one at a time, and
\* once every line, accept and EOF they caused has been handled, the ring
\* of ring.c's handlers has been rebuilt (join_ring, handle_message_from_*,
\* handle_broken_succ_socket / handle_broken_pred_socket).
RingWhenQuiet == Quiet => RingFormed

\* No process dies of a NULL dereference or a failed assertion (error()).
NoCrash == \A n \in Node : proc[n].exit \in {"none", "exit"}

RolePointers(n) ==
    <<proc[n].new_node_conn, proc[n].pred_conn, proc[n].succ_conn, proc[n].outbound_chord_conn>>

\* Role exclusivity (connections.c's four role pointers): every role pointer
\* that is set names a distinct open connection of the process itself, so
\* close_connection() and the handlers never leave a dangling or shared role.
RoleExclusivity ==
    \A n \in Node : LET r == RolePointers(n) IN
        \A i, j \in 1..4 :
            /\ r[i] # Null => owner[r[i]] = n /\ sock[r[i]] = "open"
            /\ i # j /\ r[i] # Null => r[i] # r[j]

\* pred_timeout() is armed only while the process waits for a predecessor:
\* joining without a PRED yet, or in a ring of more than one node after its
\* predecessor closed (handle_broken_pred_socket).
\* leave_ring() does not cancel the timer, so this is about whether a stale
\* timer can outlive the join or ring it was armed for.
TimerMeansAwaitingPred ==
    \A n \in Node :
        proc[n].timeout_armed /\ proc[n].connection_state # "DISCONNECTED" =>
            \/ proc[n].connection_state = "CONNECTING" /\ proc[n].awaiting_pred
            \/ /\ proc[n].connection_state = "CONNECTED"
               /\ proc[n].pred_conn = Null
               /\ proc[n].succ # n

\* Whatever the users did, the handlers of the event loop bring the system
\* back to rest: every join ends (CONNECTED or aborted), every armed timer
\* fires or is cancelled, every line and EOF is consumed.
Settles == ~Quiet ~> Quiet

\* A connection accepted into new_node_conn (main.c:505) is eventually either
\* promoted to a ring role or chord, or closed: a process does not stay
\* refusing every accept() (main.c:496) because of an old connection.  It is
\* about the early return of the CHORD handler (ring.c:490).
NewNodeHandled ==
    \A n \in Node : proc[n].new_node_conn # Null ~> proc[n].new_node_conn = Null

=============================================================================
