# TLA+ models of the ring node (projeto-rci)

This directory holds TLA+ specifications of the node program in `../src`, with
the TLC configurations that check them. Each program is one node of a logical
ring. Nodes may also add "chord" shortcuts, route CHAT messages with a
distance-vector protocol, and register with a UDP directory.

## The system and its parts

| Part | Source | Role |
|---|---|---|
| Event loop, timer | `main.c` | One `select()` loop serves stdin, the directory socket, the listening socket and every peer connection. It also runs one single-shot timer (`set_timeout`/`cancel_timeout`). |
| Command interface | `main.c` (`handle_user_input`) | Commands: `join`, `dj`, `leave`, `chord`, `remove chord`, `exit`, show and chat. There are two prompts, for the join successor and the chord node. |
| Ring state machine | `ring.c` | `join_ring`, `leave_ring`, `on_join_end`, `create_outbound_chord`, plus the handlers for lines from the successor, the predecessor and a new node. It also has the EOF/error handlers of each connection role. |
| Connection registry | `connections.c` | Holds the table of `MAX_CONNECTIONS` connections and the four role pointers `new_node_conn`, `pred_conn`, `succ_conn` and `outbound_chord_conn`. `close_connection` clears the roles. `conn_printf` runs `handle_broken_socket` on a failed write. |
| Line reader | `read-lines.c` | Splits the bytes of one `read()` into lines and calls a handler for each. |
| Routing engine | `routing.c` | Keeps the routing and forwarding tables. Handles ROUTE announcements, `send_shortest_paths` and CHAT forwarding. |
| Directory client | `node-server.c` | NODES / NODESLIST (a blocking 1 s wait), REG and UNREG. |
| Utilities | `util.c`, `util.h` | Logging, plus `error()`, which prints and calls `exit(1)`. |

The parts interact in one way. The event loop calls `read_lines` on every
readable connection, and `read_lines` calls the ring's dispatcher for each
complete line; an RL_END or RL_ERROR result makes the loop call
`handle_broken_socket`. The loop also calls the ring handlers for the timer.
The dispatcher hands ROUTE and CHAT lines to the routing engine, and the ring
handlers call it on every link change (`send_shortest_paths` on a new link,
`remove_neighbor_connection` on a closed one, `init_routing` on a join). The ring handlers change the
connection registry and write lines with `conn_printf`. When a write fails,
`handle_broken_socket` runs inside the handler that was writing. The processes
interact only through TCP connections.

## Modules

### `Ring.tla`: ring protocol, connection registry and event loop

**State.** `proc[n]` holds the globals of process `n`:
- `connection_state`, `succ`, `second_succ`, `awaiting_pred` and `awaiting_succ`;
- `timeout_armed`, which means `timeout_handler == pred_timeout`;
- the four role pointers;
- `input_state`;
- `exit`, which records whether the process exited and why (`exit`, a NULL dereference, a failed assertion).

The network is a set of connections `1..MaxConn`. Each connection has two ends,
`<<k,"cli">>` (the `connect()` side) and `<<k,"srv">>` (the `accept()` side).
Each end has:
- `owner`: its process;
- `sock`: `free`, `pending` (in the listen backlog), `open` or `closed`;
- `node_id`: the `Connection.node_id`;
- `inbox`: the FIFO of lines in flight towards it.

A closed end still delivers the lines already sent to it, then EOF. `rst` is
the set of ends an RST is coming back to. A write to a closed peer succeeds,
and only a later write fails, as with a real socket once SIGPIPE is ignored.

**Handlers.** Each C function is an operator from a "world" record to a new
world. The world holds the process's globals, the network and conn_printf's
last result. The operators chain in the order the C code runs, with its early
returns. Examples:
- `LeaveRing` is `leave_ring`;
- `JoinRing` is `join_ring`;
- `EntryFromSucc` is `handle_message_from_succ`;
- `BrokenSucc` is `handle_broken_succ_socket`;
- `Write` is `conn_printf`.

A failed `Write` runs `HandleBroken`, so the nested `handle_broken_socket`
happens at the point where the code calls it. `Commit` turns the final world
into the next state. When the handler died (`error()` or a NULL dereference),
`Commit` closes all the process's sockets, as the kernel does.

**Actions.**
- Commands: `DirectJoin`, `Leave`, `ChordCommand`, `ChordSelect`, `RemoveChord` and `Exit`.
- `Restart` starts the program again with a fresh state.
- Loop events: `Accept(n,e)`, `Receive(n,e)` (one line), `Disconnect(n,e)` (EOF or reset) and `Timeout(n)` (`pred_timeout`).

PROJECT.json "map" names the source lines of every definition.

**Constants.**
- `Node`: the processes.
- `MaxConn`: the number of connections at once.
- `Serial`: a user types only when nothing is in progress.
- `PatientTimers`: the 1 s timer fires only once the network is idle.
- `MaxCommands`: a bound on commands, with 0 meaning unbounded.

`MCRing.tla` gives three processes as model values, with their permutations as
symmetry. This is sound because no definition chooses among nodes.

### Abstractions of `Ring.tla`

- **Ids and addresses.** A node's id is its address. ENTRY and SUCC carry one id.
- **Routing.** ROUTE traffic is not delivered here (it is in `Routing.tla`). `send_shortest_paths` is two writes (its own line and the recipients' lines), and either may fail and trigger the broken-socket handler.
- **Joins.** Joins are direct joins. The directory is modelled in `Directory.tla`; here only the `chord` command's NODES request appears, and it may time out after 1 s, which runs `leave_ring`.
- **dj guard.** `DirectJoin` requires DISCONNECTED. The code does not check this; see the hazards.
- **Batches.** One `Receive` handles one line, so the line batching of `read_lines` is not modelled.
- **Time.** Time is abstract: an armed timer expires at some later step. `Timer.tla` checks the loop's arithmetic behind this: the timer is never early and always eventually fires.
- **Writes to `succ_conn`.** Every such write goes to a connection opened in the same handler. No RST can have reached that connection yet, so such a write never fails. If one did, the step would end with cause `reentry`, and NoCrash would report it.

### `LineStream.tla` and `ReadLines.tla`: the line reader

`LineStream` is what `read_lines` promises its caller (read-lines.h:15-21):
the bytes a peer writes reach the handler as lines, each once and in order,
and the connection ends after every complete line was handed over (FIN) or
at any time (RST). Its variables are the bytes `sent`, the `peer` state
(`open`, `fin`, `rst`), the lines `handled` and `ended`. `CompleteLines(s)` is
the reference line splitter.

`ReadLines` adds the reader's state: `pos` (how many bytes `read()` has
returned), `buffer` (the live part `buffer[0 .. *buffer_index-1]`) and a
history counter `overflows`. `ReadLines` is one call of `read_lines` with the
loop's reaction: RL_ERROR on a reset, RL_END at end of file, or a read of any
length up to the free space, after which `Scanned` (the loop of lines 16-23),
`Remainder` (lines 30-32) and `Overflows` (lines 25-28) do what the code
does. The peer is the environment: it writes bytes (lines of at most
`MaxLine` bytes) and closes. `Abs == INSTANCE LineStream WITH ...` maps the
shared variables to themselves; the refinement is the property
`LineStreamSpec`, checked under `FairSpec` (weak fairness of `ReadLines`,
since `select()` reports a readable socket and the loop reads it).

`MCReadLines.tla` gives the bytes `a`, `b` and the newline as model values.

### `Routing.tla`: routing engine, ROUTE and CHAT over links

**State.** For each process `n`, `rid[n]`, `nid[n]`, `rt[n]` and `ft[n]` are
`recipient_ids`, `neighbor_ids`, `routing_table` and `forwarding_table`, over
slots `1 .. |Node|-1` (MAX_NODES-1 for MAX_NODES ids). A path is the list of
nodes after the holder and before the recipient, or `INVALID`; a forwarding
entry 0 stands for -1 and `NoNode` for id -1. The arrays are static, so a
process starts with every slot holding id 0 (`Zero`), every path empty and
every forwarding entry 0 (slot 1 here). The connection ends are those of
`Ring.tla`; their inboxes carry ROUTE and CHAT lines and the first line
(ENTRY, PRED or CHORD) of a new connection. `inRing` and `crashed` are the
connection state and the process's death.

**Operators.** Every function of routing.c is an operator on a world record:
`GetRecipientIndex`, `GetNeighborIndex`, `UpdateRouting` (with its pieces
`Admissible`, `ClosestNeighbor`, `FreedId`, `PathChanged`), `RouteLine`,
`AnnounceNewPath`, `UpdateAndAnnounce`, `RemoveRoutingNeighbor`,
`SendShortestPaths`, `ForwardMessage` and `InitRouting`, plus
`RemoveNeighborConnection` and the ROUTE/CHAT branches of
`handle_message_from_any_node` (`HandleRoute`, `HandleChat`) from ring.c.
`error()` and a NULL dereference set `crash`; `Commit` then closes the
process's sockets.

**Actions.** The ring layer's effects on routing are link events: `Join`
(`join_ring`: `init_routing`, connect, ENTRY, table), `SoloJoin` (the empty
NODESLIST join), `DjSelf` (`dj n n`, which leaves the tables alone), `Chord`
(a CHORD or PRED connection with the table), `Accept` (the peer's first line:
the CHORD handler rejects a node it already has a connection to and leaves
that connection open with node_id -1), `Close` (a close followed by
`remove_neighbor_connection`, as `remove chord` does), `ClosePred` (the PRED
handler closing the old predecessor alone), `Leave` (`leave_ring`, which keeps
the tables), `Chat` (the `m` command), `Receive` (one ROUTE or CHAT line) and
`Disconnect` (EOF and `handle_broken_socket`). The ring protocol that decides
which link event comes next is `Ring.tla`'s; here any link event between
members may happen. `CodePaths` turns on the paths that break properties on
purpose: `dj_self`, `pred_replace`, `chat_out` (chat while out of the ring) and
`dup_link`: a reconnection to a new successor that is already linked as the
old predecessor (ring.c:542-551 closes only a chord to it). A chord to a
connected node is not modelled, because the chord command refuses it
(main.c:51). `Serial` makes every link event and chat wait until nothing is
in flight. That covers the processes' own reactions as well as the users:
the PRED reconnection after a lost successor and the close after an EOF are
link events too. So routing_serial checks convergence between quiet
periods, and routing_conc drops `Serial`. `MaxEvents` bounds link events
and chats.

`MCRouting.tla` gives three processes as model values with their
permutations as symmetry: no definition picks a node by identity (slots are
chosen by their number and free ends have owner `NoNode`).

### `Timer.tla`: the loop's single-shot timer

`Timer` models `set_timeout`, `cancel_timeout` and the timer part of each
iteration of the `select()` loop (main.c:272-301, 395-436), with the code's
own `struct timespec` arithmetic. The arithmetic covers the carry when
`tv_nsec > 1e9`, the strict comparison of the clock with the deadline, and
the time left as a `struct timeval`. That time left uses C's truncating
division, plus 1 us, with a borrow when the microseconds come out negative.

| Variable | Code |
|---|---|
| `now` | the CLOCK_MONOTONIC reading, `[sec, nsec]` |
| `timeout_instant`, `timeout_handler` | the statics of main.c:272-273 (`"none"` for NULL) |
| `select_timeout`, `select_timeout_ptr` | the `struct timeval` of the loop and whether `select()` gets it or NULL |
| `pc` | the phase of the iteration: compute the timeout, `select()`, check the clock, run handlers |
| `woke`, `set_at`, `wakes`, `epoch` | bookkeeping for the properties: why `select()` returned, when the timer was set, early wake-ups since, and a bit flipped by every `set_timeout` |

Actions:
- `ComputeTimeout` (main.c:400-424);
- `SelectReady` (a descriptor becomes ready before the timeout) and `SelectTimeout` (`select()` returns 0, with the kernel perhaps oversleeping);
- `Check` (main.c:428-436);
- `Handlers` (the descriptor handlers of main.c:505-518, and the user's commands), where a handler may call `SetTimeout` (ring.c:118, :580) or `CancelTimeout` (ring.c:474), or neither.

Only distances from the deadline matter, so the clock is normalised. With no
timer armed, its seconds are dropped and the next reading is any sub-second
value. `set_timeout`, which reads the clock itself, starts the seconds again
from 0. The nanoseconds, where the arithmetic has its edges, are kept.
`clock_gettime(CLOCK_MONOTONIC)` is taken never to fail, as on Linux.

### `Directory.tla`: directory client and the join through the directory

`Directory` models `node-server.c` with the commands that use it (`join`,
`chord`, `leave` and the two selection prompts of `handle_user_input`) and the
main loop's handler for the directory socket. The TCP part of a join is
abstracted to its two outcomes: `JoinEnd` (`on_join_end`: CONNECTED and REG)
and `JoinAbort` (`leave_ring` after the 1 s timer). `ring[n]` names the ring
that process n belongs to, and a lone successor refuses an ENTRY with its own
id (ring.c:383-393).

| Variable | Code |
|---|---|
| `proc[n]` | `connection_state`, `input_state`, `self.id`, `node_list_action`, `node_arr` (as a set of `[id, node]`), the chosen successor, the chord flag, and whether `request_node_list` is blocked in its `select()` |
| `udp[n]` | datagrams queued on n's directory socket |
| `srvq`, `registry` | the directory server: its request queue and its table |
| `ring`, `commands` | ring membership; the number of commands typed |

Actions: `Join`, `Chord`, `Leave`, `SelectSuccessor`, `SelectChord` (user
input); `ListReceive` (the first datagram read after NODES, with the id check
`ResolveId` and `NewId` of node-server.c:125-148 and `ParsedLists` for
`parse_node_list`), `ListTimeout` (the 1 s timeout: `leave_ring`);
`NsReceive` (main.c:454-476, answers only logged); `JoinEnd`, `JoinAbort`.
The server (`Serve`) is modelled from spec 4.3 and 6, because its code is not
in the repository: REG adds an entry, UNREG removes the id's entries, and
every request is answered. `LoseLookup` drops a NODES or NODESLIST when
`LossyLookup` holds. `CodePaths` may add `join_in_ring`, the id overwrite of
a refused `join`.

## Runs

| Run | cfg | Result | What it shows |
|---|---|---|---|
| ring_serial | `MCRing_serial.cfg` | pass: 132,396 states, about 15 s | Users act one at a time, while peers die and restart, writes fail on reset connections, and timers fire with lines in flight. Four invariants hold: the ring is rebuilt whenever the system is at rest (RingWhenQuiet), no process crashes (NoCrash), role pointers are exclusive (RoleExclusivity), and the timer is armed only while a predecessor is awaited (TimerMeansAwaitingPred). |
| ring_conc | `MCRing_conc.cfg` | pass: 46,665 states, about 2.5 min | Users type three commands at any time, even during joins, and timers may fire with lines in flight. Role pointers stay exclusive (RoleExclusivity), and under the loop's fairness the system always comes back to rest (Settles). |
| ring_null_pred | `MCRing_nullpred.cfg` | violation of NoCrash | NULL `pred_conn` dereference at ring.c:435. |
| ring_late_pred | `MCRing_latepred.cfg` | violation of RingWhenQuiet | A late PRED is accepted by a new one-node ring (ring.c:451). |
| readlines | `MCReadLines.cfg` | pass: 23,505 states | Over every stream of up to 6 bytes, every split into reads and every FIN or RST, the buffer never fills (TypeOK) and, until the first RL_OVERFLOW, the lines handed over plus the buffer are exactly the bytes read (ReadBytesAccounted). |
| readlines_refines | `MCReadLines_refines.cfg` | violation of LineStreamSpec | `read_lines` does not implement the line stream (read-lines.c:17). |
| routing_serial | `MCRouting.cfg` | pass: 249,553 states, about 80 s | Eight link events and chats, one at a time at rest, with up to 4 connections. Paths never loop (PathsLoopFree), and at rest every member has a row exactly for the nodes it reaches and forwards along a shortest path of open links (RoutesConverge). |
| routing_conc | `MCRouting_conc.cfg` | pass: 282,417 states, about 60 s | Five events at any time, ROUTE lines in flight, every code path on: PathsLoopFree holds. |
| routing_dj_self | `MCRouting_djself.cfg` | violation of NoCrash | A `dj n n` process dies when a second node joins it (main.c:118). |
| directory | `MCDirectory.cfg` | pass: 477,847 states, about 40 s | Three processes join, chord and leave through the directory, one user at a time, while NODES and NODESLIST datagrams may be lost. Ids are unique within a ring (IdsUnique), at rest the directory lists exactly the CONNECTED processes under their ids (RegistryMatches), and every join leaves AWAITING_NODE_LIST (JoinResolves). |
| timer | `MCTimer.cfg` | pass: 5,811 states, a few seconds | The 1000 ms timer is set at clock values on and around second and microsecond boundaries, while `select()` may wake early or oversleep. `select()` never gets a negative timeout (SelectTimeoutValid). The handler never runs before 1000 ms (NeverEarly). A `select()` that times out runs the handler in that same iteration (WakeFires). An armed timer eventually runs unless cancelled or replaced (TimerFires). |
| directory_stale_reply | `MCDirectory_stale.cfg` | violation of JoinResolves | A `join` reads a pending OKUNREG as its answer and stays stuck (node-server.c:108). |

**Findings** (all are also in PROJECT.json):
1. **ring_null_pred.** Node A is alone. B runs `dj B A` and leaves before A reads B's ENTRY. A still makes B its successor and its predecessor. The predecessor connection then reaches EOF, and because `second_succ == self`, no timer is armed. When B joins again, A takes the CONNECTED branch of its ENTRY handler and writes to `pred_conn->socket` with `pred_conn == NULL`.
2. **ring_late_pred.**
   - A joining node's timer fires before the successor's PRED connection is accepted.
   - The node leaves, and its user runs `dj` to self at once.
   - The PRED handler only rejects the late connection while DISCONNECTED. Its warning describes exactly this race.
   - The new one-node ring takes the old successor as its predecessor. Both processes come to rest with ring pointers that do not form a ring, and no handler repairs them.

3. **readlines_refines.** The scan loop looks at `buffer[0 .. len-1]`, the
   first `len` bytes of the buffer, instead of the `len` bytes just read at
   `buffer[*buffer_index ..]`. With `a\n` read one byte at a time and then
   EOF, the newline is never scanned and the line is never handed over
   (spec 8.6 asks for one handler call per newline). The same offset lets the
   buffer fill with an unscanned newline in it, and RL_OVERFLOW then discards
   a complete line (read-lines.h:11 says it means a line longer than the
   buffer).
4. **routing_dj_self.** `dj n n` never calls `init_routing`. In a process
   that never joined, the static arrays hold id 0 in every slot and no slot is
   free, so the first ROUTE from the next node to join makes
   `get_neighbor_index` exit with "Ran out of space" (routing.c:69). This is
   spec scenario 2 (`dj 10 10 ...` then `dj 20 10 ...`); spec section 3 says the
   tables are (re)initialised at each join.
5. **directory_stale_reply.** `request_node_list` waits for the directory
   socket to be readable and reads the first datagram on it. A process joins
   alone (REG), leaves (UNREG) and types `join` again before the main loop has
   read OKUNREG: the join reads OKUNREG, ends with no change and stays in
   AWAITING_NODE_LIST. The real NODESLIST is then logged as unrecognised and
   every later `join` is refused until `leave`. A `chord` after a pending
   OKREG is dropped the same way. Spec 4.3 and 7(e) say the request ends with
   the NODESLIST or with the 1 s timeout.

More bugs fail the same invariants under other code paths or inputs. They
are listed as hazards, each with the setting or the reproduction cfg that
shows it:
- `MCRouting_rejectedchord.cfg` with RoutesConverge: two processes chord each other at once. Each CHORD handler sees its own outbound chord to the sender and rejects the inbound one without closing it or setting its node_id (ring.c:488). At rest both have open connections to the other and no route to it.
- `MCTimer_late.cfg` with NotLate (the handler runs at the first check after 1000 ms): `set_timeout` adds `ms / 1000` seconds and then `ms * 1e6` nanoseconds (main.c:287-288). The predecessor timer, 1 s in spec.md (4.4, 7(e), scenario 5), therefore runs after 2 s. When the clock reads `nsec = 0`, the carry test `> 1e9` leaves a deadline with `tv_nsec = 1e9`. The `timer` run shows the loop still handles that deadline correctly. The time left can then be 1,000,001 us, which Linux accepts.
- `chat_out` with NoCrash: after `leave` the tables are kept, and `m r` makes `forward_message` warn and then dereference the NULL connection (routing.c:276); spec 4.5 says "drop and warn".
- `MCRouting_predreplace.cfg` (routing_serial's bounds with `pred_replace`) with ForwardingHasConnection: a PRED replacing the predecessor closes it without `remove_neighbor_connection` (ring.c:458), so forwarding entries name a neighbor with no connection.
- `MCRing_staletimer.cfg` with TimerMeansAwaitingPred: run `dj` towards a successor, then `leave`, then `dj` to self. `leave_ring` never cancels the timer (ring.c:91), so the one-node ring still has `pred_timeout` armed and leaves itself a second later.
- `MCDirectory_joininring.cfg` with RegistryMatches: `join` typed while in a ring is refused, but the `sscanf` before the state check has already replaced `self.id` (main.c:89). Peers and the directory keep the old id, and `leave` then sends UNREG for the new one (spec 7(d)).
- `MCDirectory_noids.cfg` with IdsUnique: when no id is free, the join prints "aborted" and sets DISCONNECTED, but falls through with id 100 to the successor prompt (node-server.c:140). Two such joiners enter one ring with the same id; spec 4.4 says the join aborts.
- `MCRing_newnode.cfg` with NewNodeHandled (a connection accepted into `new_node_conn` is eventually promoted or closed): a joiner times out after its successor accepted it, leaves and runs `dj` to the same node again. The node's write of ENTRY to its old predecessor fails (ring.c:435) and the handler returns with the new connection still in `new_node_conn`; the joiner uses it as its successor link, and the node refuses every later `accept()` (main.c:496). A rejected CHORD (ring.c:490) leaves `new_node_conn` set the same way.
- RoutesConverge without `Serial`: a node that leaves and joins again through the same neighbor before the old connection's EOF is read keeps the neighbor's stale routes, because `remove_neighbor_connection` is keyed by node id (ring.c:164).

**Divergence from the spec, not a run.** Spec 4.4(b) says that on an ENTRY from
the successor, the node forwards "the same ENTRY line" to its predecessor. The
code sends `SUCC <new id>` instead (ring.c:325), and the model follows the
code. The ring_serial run shows that the code's version rebuilds the ring.

Every property of a passing run has a mutant in PROJECT.json. A mutant is a
variant operator defined next to the one it replaces (for example
`BrokenSucc_NoNotify` or `CloseEnds_KeepsChordRole`). TLC finds the property
violated once the variant is used.

## Bounds

**ring_serial** uses 3 processes, 4 connections and unbounded
commands.
- Three nodes are the fewest for which second successors, ENTRY between two ring members and successor promotion all differ from the two-node case.
- Four connections let a three-node ring (three connections) admit a fourth connection for a join or a chord.
- A step that would need a fifth connection is not taken.

**ring_conc** lets commands overlap, so it bounds them at 3. That is enough for
`dj` to self, a join and a leave or exit racing it (the scenario of
ring_late_pred). It also checks Settles: with a bounded number of commands,
timers may fire before the lines arrive and the system must still settle. At 4 commands the state space is beyond a few minutes. The
runs stop when the budget is spent, so ring_conc and the violation runs turn
off deadlock checking. A process with nothing to do simply waits in
`select()`.

**readlines** uses bytes `{a, b, \n}`, streams of up to 6 bytes, lines of at
most 2 bytes and a 3-byte buffer: every way a line can straddle two reads,
fill the buffer or end at EOF happens. **readlines_refines** uses a 7-byte
buffer so that no overflow is involved.

**routing_serial** uses 3 processes, 4 connections and 8 events. Three
processes give two-hop routes, a choice between a direct and an indirect
path, and a triangle after a chord. Eight events let a ring form, gain a
chord, lose a link and a member, and rejoin. **routing_conc** drops `Serial`,
which multiplies interleavings, so it has 2 connections and 5 events: enough
for a line of three nodes with ROUTE lines in flight while a member leaves,
rejoins or closes a link. Both stop when the budget is spent, so deadlock is
not checked.

**directory** uses 3 processes, ids `0..1` (`MaxIds = 2`) and 8 commands.
With two ids the third joiner finds no free id and takes the fall-through of
node-server.c:140, and the second joiner finds its id taken and is given the
other one. Eight commands let two processes form a ring, a third try to join,
one chord and one leave. NODES and NODESLIST may be lost. Users act only when
nothing is in flight (`Serial`), because the directory's answers are otherwise
read out of order (directory_stale_reply) and every property fails for that one
reason. **directory_stale_reply** drops `Serial` and loss and needs 4 commands.

**timer** sets the 1000 ms timer at clock readings of 0, 1, 999 and 1000 ns,
half a second, and 1 us and 1 ns before a second. `select()` may be woken
early, twice per timer, after 1 ns, 999 ns, 1 us, 999,999 ns or 1 s - 1 ns,
and may oversleep by 0 or 1 ns. These values put the nanosecond difference
of main.c:414 on both sides of 0 and of every multiple of 1000. They also
make the carry of main.c:289 both happen and, at 0, not happen.

## Fairness

`FairSpec` adds two conditions:
- weak fairness of `Timeout(n)`: the 1 s timer is part of `select()`'s timeout, so it fires;
- fairness for each end: if the end stays pending, readable or at EOF, it is eventually served. `select()` reports every ready descriptor and the loop serves all of them in each iteration (main.c:477-519).

The condition is written out as `<>[]ServeReady(e) => []<><<Serve(e)>>_vars`.
This is weak fairness with an explicit enabling condition. It avoids TLC
computing ENABLED of the handlers.

In `ReadLines`, `FairSpec` gives `ReadLines` weak fairness for the same
reason: a socket with unread bytes or an end is reported by `select()` and
read. The refinement needs it to hand lines over and see the end.

In `Directory`, `FairSpec` gives weak fairness to the server's `Serve` (the
directory answers every datagram it receives), to the end of the blocking
wait, `ListReceive(n) \/ ListTimeout(n)` (the `select()` with a 1 s timeout
always returns), and to `NsReceive(n)`, the main loop reading the directory
socket. Losses and users get no fairness.

In `Timer`, each phase of the loop is weakly fair. The loop always goes
round, and `select()` returns, because it has a timeout whenever a timer is
armed. Early wake-ups are bounded per timer (`MaxWakes`), which stands for
each iteration taking some time.

User commands get no fairness, since a user may never type. Settles is checked
in ring_conc with a bounded number of commands. Without the bound, a join
could be abandoned and retried for ever, which is a real behaviour but not a
lack of progress of the loop.

## Not modelled yet (plan)

1. **Directory client.** The bound of `node_arr` (`MAX_NODES` entries, written with no check at node-server.c:59), lost REG/UNREG (sent once, never retried), `exit` without UNREG (the directory keeps a dead node), and ring ids other than one.
2. **Command interface and loop.** `dj` without a state check (main.c:112), and the dispatch of lines still buffered after a handler closed their connection (read-lines.c:20 with ring.c:603).
3. **Routing with the ring protocol.** `Routing` takes link events from any member to any member; composing it with `Ring`, so that links follow the ring protocol, is beyond TLC's reach at these sizes. The failing write inside `announce_new_path` (routing.c:234) is modelled only in `Ring`.
4. **Path length.** The disabled check at ring.c:209 matters only beyond MAX_NODES nodes. The model shows that paths are loop-free, which keeps them within MAX_NODES.
5. **Not planned.** Logging and printing, which change no state, and the show commands.
