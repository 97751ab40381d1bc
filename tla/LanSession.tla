----------------------------- MODULE LanSession -----------------------------
(***************************************************************************)
(* The single-active-client session of the bridge's LAN server:            *)
(* src/apworld/smbw_archipelago/client/lan_server.py.                      *)
(*                                                                         *)
(* Each TCP connection has a handler task (_handle_client); the active one *)
(* owns a send queue, a writer task and a periodic sync task, which        *)
(* _install_client creates and _drop_active_client_locked takes down under *)
(* an asyncio.Lock.  One action is one task's run between two awaits; an   *)
(* await that does not suspend (a free lock, a finished task) is no        *)
(* boundary.  asyncio.Lock is FIFO: a release hands the lock over.         *)
(*                                                                         *)
(* Connections are numbered in the order in which the one Switch opens     *)
(* them: it opens the next one after it gave up the last, but the server   *)
(* may learn of the two in either order.                                   *)
(***************************************************************************)
EXTENDS Integers, Sequences, FiniteSets

CONSTANTS
    MaxConns,    \* connections the Switch ever opens
    MaxLines,    \* lines it sends on one connection
    MaxSends,    \* calls of send_increment_hash_keyed
    Hashes,      \* counter hashes those calls name
    Starts       \* sends and lines that are used up from the start

ASSUME BoundsAssumption ==
    /\ MaxConns \in Nat \ {0}
    /\ MaxLines \in Nat
    /\ MaxSends \in Nat
    /\ IsFiniteSet(Hashes)
    /\ Starts \subseteq (0..MaxSends) \X (0..MaxLines)

Conns   == 1..MaxConns
NoConn  == 0
Stopper == MaxConns + 1            \* the task running LanServer.stop
Users   == Conns \cup {Stopper}    \* tasks that take the lock
Slots   == Conns \cup {NoConn}

VARIABLES
    link,            \* what the network shows of each connection
    lines,           \* lines buffered in its StreamReader
    sent_lines,      \* how many lines the Switch sent on it
    closed,          \* the server closed its StreamWriter
    pc,              \* where each task stands
    holder,          \* who holds _client_lock
    waiters,         \* who waits for it, first come first served
    client_writer,   \* _client_writer; each field is named by a connection
    send_queue,      \* _send_queue
    writer_task,     \* _writer_task
    sync_task,       \* _badge_sync_task
    writer_state,    \* the writer task created for each connection
    sync_state,      \* the sync task created for each connection
    queue,           \* drain sentinels in each session's queue
    pending,         \* _pending_increments
    flight,          \* a writer loop's local copy of it, being written out
    in_course,       \* connection whose course_in set BridgeState's latch
    hello_from,      \* connection whose Hello was handled last
    listening,       \* the listening socket is open
    \* History.
    sent,            \* increments asked for while each session was current
    got,             \* increments written to each connection
    sends            \* calls so far

netVars   == <<link, lines, sent_lines>>
lockVars  == <<holder, waiters>>
fieldVars == <<client_writer, send_queue, writer_task, sync_task>>
taskVars  == <<writer_state, sync_state>>
incVars   == <<queue, pending, flight, sent, got, sends>>
stateVars == <<in_course, hello_from>>
vars == <<netVars, closed, pc, lockVars, fieldVars, taskVars, incVars,
          stateVars, listening>>

LineKinds  == {"hello", "course_in", "check"}
TaskStates == {"none", "run", "cancelled", "ended"}
Idle       == [h \in Hashes |-> 0]

TypeOK ==
    /\ link \in [Conns -> {"absent", "up", "left", "eof", "reset"}]
    /\ lines \in [Conns -> Seq(LineKinds)]
    /\ sent_lines \in [Conns -> 0..MaxLines]
    /\ closed \in [Conns -> BOOLEAN]
    /\ pc \in [Users -> {"idle", "lock", "drop_sync", "drop_writer", "read",
                         "ack", "emit", "done"}]
    /\ holder \in Users \cup {NoConn}
    /\ waiters \in Seq(Users)
    /\ {client_writer, send_queue, writer_task, sync_task} \subseteq Slots
    /\ {in_course, hello_from} \subseteq Slots
    /\ writer_state \in [Conns -> TaskStates]
    /\ sync_state \in [Conns -> TaskStates]
    /\ queue \in [Conns -> Nat]
    /\ pending \in [Hashes -> Int]
    /\ {flight, sent, got} \subseteq [Conns -> [Hashes -> Int]]
    /\ listening \in BOOLEAN
    /\ sends \in 0..MaxSends

\* LanServer.__init__ and start.
Init ==
    /\ link = [c \in Conns |-> "absent"]
    /\ lines = [c \in Conns |-> <<>>]
    /\ closed = [c \in Conns |-> FALSE]
    /\ pc = [u \in Users |-> "idle"]
    /\ holder = NoConn /\ waiters = <<>>
    /\ client_writer = NoConn /\ send_queue = NoConn
    /\ writer_task = NoConn /\ sync_task = NoConn
    /\ writer_state = [c \in Conns |-> "none"]
    /\ sync_state = [c \in Conns |-> "none"]
    /\ queue = [c \in Conns |-> 0]
    /\ pending = Idle
    /\ flight = [c \in Conns |-> Idle]
    /\ sent = [c \in Conns |-> Idle]
    /\ got = [c \in Conns |-> Idle]
    /\ in_course = NoConn /\ hello_from = NoConn
    /\ listening = TRUE
    /\ \E start \in Starts :
         sends = start[1] /\ sent_lines = [c \in Conns |-> start[2]]

-----------------------------------------------------------------------------
(* Install and drop, under the lock. *)

\* What a task wants the lock for.
Installing(u) == u \in Conns /\ writer_state[u] = "none"

\* Leaving the lock's block: the first waiter holds it next.
Release ==
    IF waiters = <<>>
    THEN holder' = NoConn /\ UNCHANGED waiters
    ELSE holder' = Head(waiters) /\ waiters' = Tail(waiters)

\* The fields and tasks of a new session (_install_client's body).
Install(c) ==
    /\ client_writer' = c /\ send_queue' = c
    /\ writer_task' = c /\ sync_task' = c
    /\ sync_state' = [sync_state EXCEPT ![c] = "run"]

\* The end of _drop_active_client_locked, then the rest of its caller: an
\* install of the connection that displaces, the end of a handler's
\* `finally`, or stop closing the listener.  `ws` is the state of the writer
\* tasks once the old one has ended.
FinishDrop(u, ws) ==
    /\ closed' = [c \in Conns |->
                    closed[c] \/ c = client_writer
                              \/ (c = u /\ ~Installing(u))]
    /\ pending' = Idle
    /\ IF Installing(u)
       THEN /\ Install(u)
            /\ writer_state' = [ws EXCEPT ![u] = "run"]
            /\ pc' = [pc EXCEPT ![u] = "read"]
       ELSE /\ client_writer' = NoConn /\ send_queue' = NoConn
            /\ writer_task' = NoConn /\ sync_task' = NoConn
            /\ writer_state' = ws
            /\ pc' = [pc EXCEPT ![u] = "done"]
            /\ UNCHANGED sync_state
    /\ listening' = (listening /\ u # Stopper)

\* Mutation: the new session is installed over the old one's tasks.
EnterOver(u) == FinishDrop(u, writer_state)

\* Entering the locked block: nothing to drop, or cancel the sync task and
\* wait for it.
EnterLocked(u) ==
    IF sync_task = NoConn
    THEN FinishDrop(u, writer_state)
    ELSE /\ sync_state' = [sync_state EXCEPT ![sync_task] = "cancelled"]
         /\ pc' = [pc EXCEPT ![u] = "drop_sync"]
         /\ UNCHANGED <<fieldVars, writer_state, closed, pending, listening>>

\* `async with self._client_lock`, when the task reaches it.
Acquire(u) ==
    IF holder = NoConn
    THEN /\ EnterLocked(u)
         /\ holder' = IF pc'[u] = "drop_sync" THEN u ELSE NoConn
         /\ UNCHANGED waiters
    ELSE /\ waiters' = Append(waiters, u)
         /\ pc' = [pc EXCEPT ![u] = "lock"]
         /\ UNCHANGED <<fieldVars, taskVars, closed, pending, holder,
                        listening>>

\* A waiter is woken with the lock.
LockGranted(u) ==
    /\ pc[u] = "lock" /\ holder = u
    /\ EnterLocked(u)
    /\ IF pc'[u] = "drop_sync" THEN UNCHANGED lockVars ELSE Release
    /\ UNCHANGED <<netVars, stateVars, queue, flight, sent, got, sends>>

\* Mutation: the old writer task is left running.
DropSyncOnly(u) ==
    /\ pc[u] = "drop_sync" /\ sync_state[sync_task] = "ended"
    /\ FinishDrop(u, writer_state)
    /\ Release
    /\ UNCHANGED <<netVars, stateVars, queue, flight, sent, got, sends>>

\* The cancelled sync task has ended: cancel the writer task and wait for it,
\* unless it ended on its own.
DropAfterSync(u) ==
    /\ pc[u] = "drop_sync" /\ sync_state[sync_task] = "ended"
    /\ IF writer_state[writer_task] = "ended"
       THEN FinishDrop(u, writer_state) /\ Release
       ELSE /\ writer_state' =
                 [writer_state EXCEPT ![writer_task] = "cancelled"]
            /\ pc' = [pc EXCEPT ![u] = "drop_writer"]
            /\ sync_task' = NoConn
            /\ UNCHANGED <<client_writer, send_queue, writer_task, sync_state,
                           closed, pending, lockVars, listening>>
    /\ UNCHANGED <<netVars, stateVars, queue, flight, sent, got, sends>>

DropAfterWriter(u) ==
    /\ pc[u] = "drop_writer" /\ writer_state[writer_task] = "ended"
    /\ FinishDrop(u, writer_state)
    /\ Release
    /\ UNCHANGED <<netVars, stateVars, queue, flight, sent, got, sends>>

-----------------------------------------------------------------------------
(* A connection's handler. *)

\* A new connection's handler starts: _install_client.
Accept(c) ==
    /\ pc[c] = "idle" /\ link[c] # "absent" /\ listening
    /\ Acquire(c)
    /\ UNCHANGED <<netVars, stateVars, queue, flight, sent, got, sends>>

\* readuntil returns a buffered line and _dispatch_line runs up to its first
\* await.  Buffered lines are returned after an EOF and after the server
\* closed the connection; a reset discards them.
ReadLine(c) ==
    /\ pc[c] = "read" /\ lines[c] # <<>> /\ link[c] # "reset"
    /\ lines' = [lines EXCEPT ![c] = Tail(@)]
    /\ pc' = [pc EXCEPT ![c] =
                CASE Head(lines[c]) = "hello"     -> "ack"
                  [] Head(lines[c]) = "course_in" -> "read"
                  [] Head(lines[c]) = "check"     -> "emit"]
    /\ in_course' = IF Head(lines[c]) = "course_in" THEN c ELSE in_course
    /\ UNCHANGED <<link, sent_lines, closed, lockVars, fieldVars, taskVars,
                   incVars, hello_from, listening>>

\* HelloMsg after the HelloAck was sent: clear the in-course latch.  (The
\* pushes that follow do not touch this module's state.)
HelloBody(c) ==
    /\ pc[c] = "ack"
    /\ pc' = [pc EXCEPT ![c] = "read"]
    /\ in_course' = NoConn
    /\ hello_from' = c
    /\ UNCHANGED <<netVars, closed, lockVars, fieldVars, taskVars, incVars,
                   listening>>

\* The callback that _run_processor awaits has returned.
EmitDone(c) ==
    /\ pc[c] = "emit"
    /\ pc' = [pc EXCEPT ![c] = "read"]
    /\ UNCHANGED <<netVars, closed, lockVars, fieldVars, taskVars, incVars,
                   stateVars, listening>>

\* Mutation: only an error ends the read loop, not an EOF.
ReadFailsOnReset(c) == link[c] = "reset"

ReadFails(c) ==
    \/ link[c] = "reset"
    \/ lines[c] = <<>> /\ (link[c] = "eof" \/ closed[c])

\* The read loop ends.  In `finally`, the handler that still owns the writer
\* takes the lock to drop the session; the other one only closes its own.
ReadEnd(c) ==
    /\ pc[c] = "read" /\ ReadFails(c)
    /\ IF client_writer = c
       THEN Acquire(c)
       ELSE /\ pc' = [pc EXCEPT ![c] = "done"]
            /\ closed' = [closed EXCEPT ![c] = TRUE]
            /\ UNCHANGED <<lockVars, fieldVars, taskVars, pending, listening>>
    /\ UNCHANGED <<netVars, stateVars, queue, flight, sent, got, sends>>

\* LanServer.stop: drop the active client, then close the listener.
Stop ==
    /\ pc[Stopper] = "idle"
    /\ Acquire(Stopper)
    /\ UNCHANGED <<netVars, stateVars, queue, flight, sent, got, sends>>

-----------------------------------------------------------------------------
(* The session's tasks, and the callers of the send API. *)

\* A cancelled task is resumed with CancelledError and ends.
SyncEnds(c) ==
    /\ sync_state[c] = "cancelled"
    /\ sync_state' = [sync_state EXCEPT ![c] = "ended"]
    /\ UNCHANGED <<netVars, closed, pc, lockVars, fieldVars, writer_state,
                   incVars, stateVars, listening>>

\* Mutation: the cancellation is swallowed, and the loop goes on.
WriterSwallows(c) ==
    /\ writer_state[c] = "cancelled"
    /\ writer_state' = [writer_state EXCEPT ![c] = "run"]
    /\ UNCHANGED <<netVars, closed, pc, lockVars, fieldVars, sync_state, queue,
                   pending, flight, sent, got, sends, stateVars, listening>>

WriterEnds(c) ==
    /\ writer_state[c] = "cancelled"
    /\ writer_state' = [writer_state EXCEPT ![c] = "ended"]
    /\ flight' = [flight EXCEPT ![c] = Idle]
    /\ UNCHANGED <<netVars, closed, pc, lockVars, fieldVars, sync_state, queue,
                   pending, sent, got, sends, stateVars, listening>>

\* Mutation: the dict is copied, and not swapped for an empty one.
DrainCopies(c) ==
    /\ writer_state[c] = "run" /\ flight[c] = Idle
    /\ queue[c] > 0
    /\ queue' = [queue EXCEPT ![c] = @ - 1]
    /\ flight' = [flight EXCEPT ![c] = pending]
    /\ UNCHANGED <<netVars, closed, pc, lockVars, fieldVars, taskVars, sent,
                   got, sends, stateVars, listening, pending>>

\* The writer loop pops a drain sentinel and swaps the dict.
WriterDrain(c) ==
    /\ writer_state[c] = "run" /\ flight[c] = Idle
    /\ queue[c] > 0
    /\ queue' = [queue EXCEPT ![c] = @ - 1]
    /\ flight' = [flight EXCEPT ![c] = pending]
    /\ pending' = Idle
    /\ UNCHANGED <<netVars, closed, pc, lockVars, fieldVars, taskVars, sent,
                   got, sends, stateVars, listening>>

\* It writes one non-zero hash of its copy; a dead peer ends the loop.
WriterWrite(c) ==
    /\ writer_state[c] = "run"
    /\ \E h \in Hashes :
         /\ flight[c][h] # 0
         /\ IF link[c] = "reset"
            THEN /\ writer_state' = [writer_state EXCEPT ![c] = "ended"]
                 /\ flight' = [flight EXCEPT ![c] = Idle]
                 /\ UNCHANGED got
            ELSE /\ got' = [got EXCEPT ![c][h] = @ + flight[c][h]]
                 /\ flight' = [flight EXCEPT ![c][h] = 0]
                 /\ UNCHANGED writer_state
    /\ UNCHANGED <<netVars, closed, pc, lockVars, fieldVars, sync_state, queue,
                   pending, sent, sends, stateVars, listening>>

\* send_increment_hash_keyed: a grant (+1) or a refund (-1).
SendIncrement(h, delta) ==
    /\ sends < MaxSends
    /\ sends' = sends + 1
    /\ IF send_queue = NoConn
       THEN UNCHANGED <<pending, queue, sent>>
       ELSE /\ pending' = [pending EXCEPT ![h] = @ + delta]
            /\ queue' = [queue EXCEPT ![send_queue] = @ + 1]
            /\ sent' = [sent EXCEPT ![send_queue][h] = @ + delta]
    /\ UNCHANGED <<netVars, closed, pc, lockVars, fieldVars, taskVars, flight,
                   got, stateVars, listening>>

-----------------------------------------------------------------------------
(* The Switch and the network. *)

NetOnly == UNCHANGED <<closed, pc, lockVars, fieldVars, taskVars, incVars,
                       stateVars, listening>>

\* The Switch opens its next connection, and its first line is Hello.
Connect(c) ==
    /\ link[c] = "absent"
    /\ \A d \in Conns : d < c => link[d] \notin {"absent", "up"}
    /\ listening
    /\ link' = [link EXCEPT ![c] = "up"]
    /\ lines' = [lines EXCEPT ![c] = <<"hello">>]
    /\ UNCHANGED sent_lines
    /\ NetOnly

SwitchSends(c, kind) ==
    /\ link[c] = "up" /\ sent_lines[c] < MaxLines
    /\ lines' = [lines EXCEPT ![c] = Append(@, kind)]
    /\ sent_lines' = [sent_lines EXCEPT ![c] = @ + 1]
    /\ UNCHANGED link
    /\ NetOnly

\* The Switch gives up a connection (or sees the server's close) ...
SwitchLeaves(c) ==
    /\ link[c] = "up"
    /\ link' = [link EXCEPT ![c] = "left"]
    /\ UNCHANGED <<lines, sent_lines>>
    /\ NetOnly

\* ... and the server's side learns of it.
LinkLost(c) ==
    /\ link[c] = "left"
    /\ \E how \in {"eof", "reset"} : link' = [link EXCEPT ![c] = how]
    /\ UNCHANGED <<lines, sent_lines>>
    /\ NetOnly

HandlerStep(u) ==
    \/ LockGranted(u) \/ DropAfterSync(u) \/ DropAfterWriter(u)
    \/ /\ u \in Conns
       /\ \/ Accept(u) \/ ReadLine(u) \/ HelloBody(u) \/ EmitDone(u)
          \/ ReadEnd(u)

TaskStep(c) == SyncEnds(c) \/ WriterEnds(c) \/ WriterDrain(c) \/ WriterWrite(c)

Next ==
    \/ \E u \in Users : HandlerStep(u)
    \/ \E c \in Conns : TaskStep(c)
    \/ Stop
    \/ \E h \in Hashes, delta \in {1, -1} : SendIncrement(h, delta)
    \/ \E c \in Conns : Connect(c)
    \/ \E c \in Conns, kind \in {"course_in", "check"} : SwitchSends(c, kind)
    \/ \E c \in Conns : SwitchLeaves(c)
    \/ \E c \in Conns : LinkLost(c)

\* The event loop runs every task that is ready, callbacks return, and a
\* connection the Switch left is reported in the end.
Fairness ==
    /\ \A u \in Users : WF_vars(HandlerStep(u))
    /\ \A c \in Conns : WF_vars(TaskStep(c)) /\ WF_vars(LinkLost(c))

Spec     == Init /\ [][Next]_vars
FairSpec == Spec /\ Fairness

-----------------------------------------------------------------------------
(* Safety. *)

\* One session at a time: the only live writer and sync tasks are those of
\* the connection in _client_writer, and outside the lock the four fields
\* name the same connection, whose writer may have died with its peer.
OneSession ==
    /\ \A c \in Conns :
         (writer_state[c] \in {"run", "cancelled"}
            \/ sync_state[c] \in {"run", "cancelled"})
              => client_writer = c
    /\ holder = NoConn =>
         /\ {send_queue, writer_task, sync_task} = {client_writer}
         /\ \A c \in Conns : sync_state[c] = "run" <=> c = client_writer

\* An installed session always has a handler that will take it down: it is
\* never left behind by a handler that has returned.
NoOrphan == client_writer # NoConn => pc[client_writer] \notin {"idle", "done"}

\* Increments neither cross sessions nor get lost or doubled in one: while
\* the current session's writer loop lives, what was asked for is what was
\* written plus what waits (lan_server.py:362-368, 801-860).
Conservation ==
    \A c \in Conns :
      (send_queue = c /\ writer_state[c] = "run") =>
        \A h \in Hashes :
          sent[c][h] = got[c][h] + flight[c][h] + pending[h]

\* A waiting increment always has a sentinel in the current queue that will
\* drain it.
DrainPosted == pending # Idle => (send_queue # NoConn /\ queue[send_queue] > 0)

\* Nothing is written on a connection after a newer one was installed.
NoLateWrite ==
    [][\A c \in Conns : got'[c] # got[c] => client_writer = c]_vars

(* Liveness. *)

\* The lock is never held forever: every connection is installed or refused.
EventuallyInstalled ==
    \A c \in Conns : (pc[c] = "lock") ~> (pc[c] # "lock")

\* A handler whose connection is over returns, and its session is gone.
EventuallyDropped ==
    \A c \in Conns : (link[c] = "left") ~>
        (pc[c] \in {"idle", "done"} /\ client_writer # c)

(* Claims of the comments that the code does not keep. *)

\* "Only tear down if we still own the writer; a newer client may have
\* displaced us, in which case _install_client already cleaned up."
DropsOnlyOwn ==
    \A c \in Conns :
      (pc[c] \in {"drop_sync", "drop_writer"} /\ ~Installing(c))
        => client_writer \in {c, NoConn}

\* After a Hello the latch is set by the new connection's course_in only.
NoStaleLatch == in_course # NoConn => in_course >= hello_from

\* "Stop accepting and tear down the active session."
StopTearsDown == pc[Stopper] = "done" => client_writer = NoConn
=============================================================================
