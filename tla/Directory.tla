------------------------------ MODULE Directory ------------------------------
(***************************************************************************)
(* The directory client of src/node-server.c and the commands of           *)
(* src/main.c that use it ("join", the node selection prompt, "chord",     *)
(* "leave"), for a set of node processes that share one ring id and one    *)
(* directory server.                                                       *)
(*                                                                         *)
(* Each process has one UDP socket: udp[n] holds the datagrams the server  *)
(* sent to n and n has not read yet.  request_node_list() is blocking: it  *)
(* sends NODES and waits up to 1 s in select() on that socket, then reads  *)
(* the FIRST datagram there, whatever it is.  The process is blocked       *)
(* between the two steps (waiting), while the server and the other         *)
(* processes go on.  The main loop reads the socket otherwise (OKREG,      *)
(* OKUNREG and anything else are only logged).                             *)
(*                                                                         *)
(* The directory server is not part of this repository; it is modelled    *)
(* from spec.md (sections 4.3 and 6): a FIFO of requests, a table of       *)
(* registered (id, node) pairs, one answer per request.                    *)
(*                                                                         *)
(* The TCP side of a join is Ring.tla's; here it is abstracted to its      *)
(* outcome: a join towards a member of a ring either ends (on_join_end)    *)
(* or is abandoned (leave_ring).  ring[n] names the ring process n is in   *)
(* (the process that started it), Null when DISCONNECTED.  A node is its   *)
(* address (ip, port); its id is the variable self.id.                     *)
(***************************************************************************)
EXTENDS Naturals, Sequences, SequencesExt, FiniteSetsExt

CONSTANTS
    Node,        \* the node processes (their addresses)
    Null,        \* no node / no ring
    MaxIds,      \* the id search of request_node_list() covers 0..MaxIds-1 (100 in the code)
    Serial,      \* TRUE: a user acts only when no join is in progress and nothing is in flight
    LossyLookup, \* TRUE: a NODES request or its NODESLIST answer may be lost
    CodePaths,   \* optional user behaviour: "join_in_ring" (typing join while in a ring)
    MaxCommands  \* bound: user commands in a behaviour

ASSUME Null \notin Node /\ MaxIds \in Nat \ {0} /\ MaxCommands \in Nat
ASSUME Serial \in BOOLEAN /\ LossyLookup \in BOOLEAN /\ CodePaths \subseteq {"join_in_ring"}

VARIABLES
    proc,      \* proc[n]: the globals of process n used here
    ring,      \* ring[n]: the ring n is a member of (Null: none)
    udp,       \* udp[n]: datagrams queued on n's UDP socket
    srvq,      \* requests queued at the directory server
    registry,  \* the server's table: a set of [id, node] entries
    commands   \* user commands typed so far

vars == <<proc, ring, udp, srvq, registry, commands>>

Ids == 0..(MaxIds - 1)
NodeId == 0..MaxIds             \* MaxIds: the value the id search ends with
Entry == [id : NodeId, node : Node]
States == {"DISCONNECTED", "AWAITING_NODE_LIST", "AWAITING_USER_SELECTION",
           "CONNECTING", "CONNECTED"}

\* Requests (node -> server) and answers (server -> node).
Nodes(n)      == [type |-> "NODES", from |-> n, id |-> 0]
Reg(n, i)     == [type |-> "REG",   from |-> n, id |-> i]
Unreg(n, i)   == [type |-> "UNREG", from |-> n, id |-> i]
NodesList(l)  == [type |-> "NODESLIST", list |-> l]
Ok(t)         == [type |-> t, list |-> {}]

ProcInit ==
    [connection_state |-> "DISCONNECTED", input_state |-> "COMMAND", id |-> 0,
     node_list_action |-> "UNEXPECTED", node_arr |-> {}, succ |-> Null,
     chord |-> FALSE, waiting |-> FALSE]

Init ==
    /\ proc = [n \in Node |-> ProcInit]
    /\ ring = [n \in Node |-> Null]
    /\ udp = [n \in Node |-> <<>>]
    /\ srvq = <<>>
    /\ registry = {}
    /\ commands = 0

-----------------------------------------------------------------------------
(* Helpers translated from the code.                                       *)

\* send_ns_message(): one datagram to the server.
Send(req) == srvq' = Append(srvq, req)

\* leave_ring(): UNREG if CONNECTED (the ring id is never empty here),
\* every connection closed, DISCONNECTED.  p is n's record before the call.
LeaveRing_NoUnreg(n, p) ==
    /\ proc' = [proc EXCEPT ![n] = [p EXCEPT !.connection_state = "DISCONNECTED", !.chord = FALSE]]
    /\ ring' = [ring EXCEPT ![n] = Null]
    /\ UNCHANGED srvq

LeaveRing(n, p) ==
    /\ proc' = [proc EXCEPT ![n] = [p EXCEPT !.connection_state = "DISCONNECTED", !.chord = FALSE]]
    /\ ring' = [ring EXCEPT ![n] = Null]
    /\ IF p.connection_state = "CONNECTED" THEN Send(Unreg(n, p.id)) ELSE UNCHANGED srvq

\* The loop of request_node_list() looking for an unused id: the smallest
\* id of 0..MaxIds-1 not in the list, or MaxIds when every one is taken.
NewId_OffByOne(list) ==
    LET free == (0..MaxIds) \ {e.id : e \in list}
    IN IF free = {} THEN MaxIds + 1 ELSE Min(free)

NewId(list) ==
    LET free == Ids \ {e.id : e \in list}
    IN IF free = {} THEN MaxIds ELSE Min(free)

\* The id check after a JOIN node list: when our id is listed it is changed;
\* when no id is free the state is set to DISCONNECTED and then, falling
\* through, to AWAITING_USER_SELECTION like every other case.
ResolveId_NoCheck(p) == p

ResolveId(p) ==
    IF \E e \in p.node_arr : e.id = p.id
    THEN [p EXCEPT !.id = NewId(p.node_arr)]
    ELSE p

\* parse_node_list(): in chord mode, entries with our id or the id of a
\* node we already have a connection to are dropped.  Which ids are
\* connected is the ring's state (Ring.tla), so any such subset is allowed.
ParsedLists(p, list) ==
    IF p.node_list_action = "CHORD"
    THEN {{e \in list : e.id # p.id} \ C : C \in SUBSET list}
    ELSE {list}

\* t is alone in its ring: the case of the ENTRY handler that checks the
\* entering id against its own.
Alone(t) == {m \in Node : ring[m] = ring[t]} = {t}

-----------------------------------------------------------------------------
(* Scheduling of the users.                                                *)

NetQuiet == srvq = <<>> /\ \A n \in Node : udp[n] = <<>>

\* Nothing in progress: no request, no join, nothing in flight.
Quiet ==
    /\ NetQuiet
    /\ \A n \in Node : /\ ~proc[n].waiting
                       /\ proc[n].connection_state \in {"DISCONNECTED", "CONNECTED"}

Typed ==
    /\ commands < MaxCommands
    /\ commands' = commands + 1

UserMayAct(n) ==
    /\ ~proc[n].waiting
    /\ proc[n].input_state = "COMMAND"
    /\ Serial => Quiet
    /\ Typed

\* The answer to a prompt: typed while this process's own join is open.
UserAnswers(n, prompt) ==
    /\ proc[n].input_state = prompt
    /\ Serial => NetQuiet
    /\ Typed

-----------------------------------------------------------------------------
(* Commands typed on stdin (handle_user_input).                            *)

\* "join <ring> <id>": sscanf() stores the id in self.id before the state
\* is checked; outside DISCONNECTED the command is then refused.
\* request_node_list() sends NODES and blocks.
Join(n) ==
    /\ UserMayAct(n)
    /\ "join_in_ring" \in CodePaths \/ proc[n].connection_state = "DISCONNECTED"
    /\ \E i \in Ids :
         IF proc[n].connection_state # "DISCONNECTED"
         THEN /\ proc' = [proc EXCEPT ![n].id = i]
              /\ UNCHANGED <<ring, udp, srvq, registry>>
         ELSE /\ proc' = [proc EXCEPT ![n].id = i, ![n].connection_state = "AWAITING_NODE_LIST",
                                      ![n].node_list_action = "JOIN", ![n].waiting = TRUE]
              /\ Send(Nodes(n))
              /\ UNCHANGED <<ring, udp, registry>>

\* "chord": refused unless CONNECTED without an outbound chord.
Chord(n) ==
    /\ UserMayAct(n)
    /\ proc[n].connection_state = "CONNECTED"
    /\ ~proc[n].chord
    /\ proc' = [proc EXCEPT ![n].node_list_action = "CHORD", ![n].waiting = TRUE]
    /\ Send(Nodes(n))
    /\ UNCHANGED <<ring, udp, registry>>

\* "leave": refused when DISCONNECTED.
Leave(n) ==
    /\ UserMayAct(n)
    /\ proc[n].connection_state # "DISCONNECTED"
    /\ LeaveRing(n, proc[n])
    /\ UNCHANGED <<udp, registry>>

\* Variant with a bug: the entry's id is copied where its address belongs.
SelectSuccessor_CopiesId(n) ==
    /\ UserAnswers(n, "JOIN_NODE_SELECTION")
    /\ \E e \in proc[n].node_arr :
         proc' = [proc EXCEPT ![n].input_state = "COMMAND", ![n].succ = e.id,
                              ![n].connection_state = "CONNECTING"]
    /\ UNCHANGED <<ring, udp, srvq, registry>>

\* The id typed at the successor prompt.  A listed id starts join_ring()
\* towards the first entry with that id (the list's order is the server's);
\* anything else cancels the join.
SelectSuccessor(n) ==
    /\ UserAnswers(n, "JOIN_NODE_SELECTION")
    /\ LET p == [proc[n] EXCEPT !.input_state = "COMMAND"]
       IN \/ proc' = [proc EXCEPT ![n] = [p EXCEPT !.connection_state = "DISCONNECTED"]]
          \/ \E e \in p.node_arr :
               proc' = [proc EXCEPT ![n] = [p EXCEPT !.succ = e.node,
                                                     !.connection_state = "CONNECTING"]]
    /\ UNCHANGED <<ring, udp, srvq, registry>>

\* The id typed at the chord prompt: our id, a connected node or an id not
\* listed is refused; a listed one gets create_outbound_chord() (Ring.tla).
SelectChord(n) ==
    /\ UserAnswers(n, "CHORD_NODE_SELECTION")
    /\ \/ proc' = [proc EXCEPT ![n].input_state = "COMMAND"]
       \/ proc' = [proc EXCEPT ![n].input_state = "COMMAND", ![n].chord = TRUE]
    /\ UNCHANGED <<ring, udp, srvq, registry>>

-----------------------------------------------------------------------------
(* request_node_list() after select(), and the main loop's UDP handler.    *)

\* Variant with a bug: the timeout returns without leave_ring().
ListTimeout_NoLeave(n) ==
    /\ proc[n].waiting
    /\ udp[n] = <<>>
    /\ proc' = [proc EXCEPT ![n].waiting = FALSE]
    /\ UNCHANGED <<ring, udp, srvq, registry, commands>>

\* select() saw no datagram for 1 s: "Connection aborted", leave_ring().
ListTimeout(n) ==
    /\ proc[n].waiting
    /\ udp[n] = <<>>
    /\ LeaveRing(n, [proc[n] EXCEPT !.waiting = FALSE])
    /\ UNCHANGED <<udp, registry, commands>>

\* A NODESLIST answer to a JOIN: an empty list makes a one-node ring and
\* runs on_join_end() (CONNECTED, REG); otherwise the id is checked and the
\* user is asked for a successor.
OnJoinList(n, p) ==
    IF p.node_arr = {}
    THEN /\ proc' = [proc EXCEPT ![n] = [p EXCEPT !.succ = n, !.connection_state = "CONNECTED"]]
         /\ ring' = [ring EXCEPT ![n] = n]
         /\ Send(Reg(n, p.id))
    ELSE /\ proc' = [proc EXCEPT ![n] = [ResolveId(p) EXCEPT
                        !.connection_state = "AWAITING_USER_SELECTION",
                        !.input_state = "JOIN_NODE_SELECTION"]]
         /\ UNCHANGED <<ring, srvq>>

\* A NODESLIST answer to a CHORD: the prompt, unless nothing is left.
OnChordList(n, p) ==
    /\ proc' = [proc EXCEPT ![n] = IF p.node_arr = {} THEN p
                                  ELSE [p EXCEPT !.input_state = "CHORD_NODE_SELECTION"]]
    /\ UNCHANGED <<ring, srvq>>

\* recvfrom() takes the first datagram queued on the socket.  Only a
\* datagram starting with "NODESLIST " is acted upon; anything else ends
\* the request with no change.
ListReceive(n) ==
    /\ proc[n].waiting
    /\ udp[n] # <<>>
    /\ udp' = [udp EXCEPT ![n] = Tail(@)]
    /\ LET m == Head(udp[n])
           p == [proc[n] EXCEPT !.waiting = FALSE]
       IN IF m.type # "NODESLIST"
          THEN proc' = [proc EXCEPT ![n] = p] /\ UNCHANGED <<ring, srvq>>
          ELSE \E l \in ParsedLists(p, m.list) :
                 LET q == [p EXCEPT !.node_arr = l]
                 IN IF p.node_list_action = "JOIN" THEN OnJoinList(n, q) ELSE OnChordList(n, q)
    /\ UNCHANGED <<registry, commands>>

\* The main loop reads a datagram: OKREG, OKUNREG or a late NODESLIST is
\* logged and dropped.
NsReceive(n) ==
    /\ ~proc[n].waiting
    /\ udp[n] # <<>>
    /\ udp' = [udp EXCEPT ![n] = Tail(@)]
    /\ UNCHANGED <<proc, ring, srvq, registry, commands>>

-----------------------------------------------------------------------------
(* The TCP side of a join (Ring.tla), by its outcome.                      *)

\* on_join_end(): SUCC and PRED arrived, CONNECTED, REG.  The successor
\* must be in a ring; a successor alone in its ring refuses an ENTRY that
\* carries its own id.
JoinEnd(n) ==
    /\ proc[n].connection_state = "CONNECTING"
    /\ LET t == proc[n].succ
       IN /\ ring[t] # Null
          /\ ~(Alone(t) /\ proc[t].id = proc[n].id)
          /\ ring' = [ring EXCEPT ![n] = ring[t]]
    /\ proc' = [proc EXCEPT ![n].connection_state = "CONNECTED"]
    /\ Send(Reg(n, proc[n].id))
    /\ UNCHANGED <<udp, registry, commands>>

\* The join is abandoned: connection refused or closed, or pred_timeout.
JoinAbort(n) ==
    /\ proc[n].connection_state = "CONNECTING"
    /\ LeaveRing(n, proc[n])
    /\ UNCHANGED <<udp, registry, commands>>

-----------------------------------------------------------------------------
(* The directory server (spec.md 4.3, 6) and the network.                  *)

\* The server answers the oldest request.
Serve ==
    /\ srvq # <<>>
    /\ srvq' = Tail(srvq)
    /\ LET r == Head(srvq) IN
       /\ registry' = CASE r.type = "REG"   -> registry \cup {[id |-> r.id, node |-> r.from]}
                        [] r.type = "UNREG" -> {e \in registry : e.id # r.id}
                        [] OTHER            -> registry
       /\ udp' = [udp EXCEPT ![r.from] = Append(@,
                     CASE r.type = "REG"   -> Ok("OKREG")
                       [] r.type = "UNREG" -> Ok("OKUNREG")
                       [] OTHER            -> NodesList(registry))]
    /\ UNCHANGED <<proc, ring, commands>>

\* A NODES request or a NODESLIST answer is lost (UDP); the code's 1 s
\* timeout is what handles this.
LoseLookup ==
    /\ LossyLookup
    /\ \/ \E i \in 1..Len(srvq) :
            /\ srvq[i].type = "NODES"
            /\ srvq' = RemoveAt(srvq, i)
            /\ UNCHANGED udp
       \/ \E n \in Node : \E i \in 1..Len(udp[n]) :
            /\ udp[n][i].type = "NODESLIST"
            /\ udp' = [udp EXCEPT ![n] = RemoveAt(@, i)]
            /\ UNCHANGED srvq
    /\ UNCHANGED <<proc, ring, registry, commands>>

Next ==
    \/ \E n \in Node :
         \/ Join(n) \/ Chord(n) \/ Leave(n) \/ SelectSuccessor(n) \/ SelectChord(n)
         \/ ListTimeout(n) \/ ListReceive(n) \/ NsReceive(n)
         \/ JoinEnd(n) \/ JoinAbort(n)
    \/ Serve
    \/ LoseLookup

Spec == Init /\ [][Next]_vars

\* The server answers, select() returns (a datagram or the 1 s timeout),
\* and the main loop reads its socket: every step of the programs that
\* stays possible happens.  Users, losses and the TCP outcome of a join
\* get no fairness.
Fairness ==
    /\ WF_vars(Serve)
    /\ \A n \in Node : WF_vars(ListReceive(n) \/ ListTimeout(n))
    /\ \A n \in Node : WF_vars(NsReceive(n))

FairSpec == Spec /\ Fairness

-----------------------------------------------------------------------------
(* Properties.                                                             *)

Datagram == [type : {"NODESLIST"}, list : SUBSET Entry]
              \cup [type : {"OKREG", "OKUNREG"}, list : {{}}]
Request == [type : {"NODES", "REG", "UNREG"}, from : Node, id : NodeId]

TypeOK ==
    /\ proc \in [Node -> [connection_state : States,
                          input_state : {"COMMAND", "JOIN_NODE_SELECTION", "CHORD_NODE_SELECTION"},
                          id : NodeId, node_list_action : {"UNEXPECTED", "JOIN", "CHORD"},
                          node_arr : SUBSET Entry, succ : Node \cup {Null},
                          chord : BOOLEAN, waiting : BOOLEAN]]
    /\ ring \in [Node -> Node \cup {Null}]
    /\ \A n \in Node : udp[n] \in Seq(Datagram)
    /\ srvq \in Seq(Request)
    /\ registry \subseteq Entry
    /\ commands \in 0..MaxCommands

\* Two members of one ring never have the same id: the id check of
\* request_node_list() renames a joining node whose id is listed, and the
\* directory lists every member.
IdsUnique ==
    \A m, n \in Node :
        m # n /\ ring[m] # Null /\ ring[m] = ring[n] => proc[m].id # proc[n].id

\* At rest the directory lists exactly the CONNECTED processes under their
\* current ids: on_join_end() registers, leave_ring() unregisters, and
\* nothing else changes an id or the table.
RegistryMatches ==
    Quiet =>
        registry = {[id |-> proc[n].id, node |-> n] :
                       n \in {m \in Node : proc[m].connection_state = "CONNECTED"}}

\* A "join" never stays in AWAITING_NODE_LIST: request_node_list() ends
\* with a NODESLIST (selection prompt or one-node ring) or with the 1 s
\* timeout (leave_ring()).
JoinResolves ==
    \A n \in Node :
        proc[n].connection_state = "AWAITING_NODE_LIST"
            ~> proc[n].connection_state # "AWAITING_NODE_LIST"

=============================================================================
