--------------------------- MODULE LanSession_proofs ---------------------------
(***************************************************************************)
(* The session of the bridge's LAN server, for every number of             *)
(* connections, lines and increments and every set of hashes.              *)
(*                                                                         *)
(* What the code never writes down is when its four fields may disagree:   *)
(* only while the task that holds the lock waits for a task it cancelled.  *)
(* The invariant gives each of the two waits its own condition (Phases),   *)
(* and says that whatever runs belongs to the connection in the fields.    *)
(***************************************************************************)
EXTENDS LanSession, TLAPS

Running    == {"run", "cancelled"}
Dropping(u) == pc[u] \in {"drop_sync", "drop_writer"}

\* The writer, the queue and the writer task change hands together.
Fields ==
    /\ send_queue = client_writer /\ writer_task = client_writer
    /\ client_writer # NoConn => writer_state[client_writer] # "none"

\* Only the lock's holder waits for a task it cancelled.
DropsUnderLock == \A u \in Users : Dropping(u) => holder = u

\* Outside the two waits the session is whole; in the first the sync task is
\* going, in the second it has gone and the writer task is going.
Phases ==
    /\ (\A u \in Users : ~Dropping(u)) =>
         /\ sync_task = client_writer
         /\ client_writer # NoConn => sync_state[client_writer] = "run"
    /\ \A u \in Users : pc[u] = "drop_sync" =>
         /\ client_writer # NoConn /\ sync_task = client_writer
         /\ sync_state[client_writer] \in {"cancelled", "ended"}
    /\ \A u \in Users : pc[u] = "drop_writer" =>
         /\ client_writer # NoConn
         /\ sync_state[client_writer] = "ended"
         /\ writer_state[client_writer] \in {"cancelled", "ended"}

\* The tasks that run are the session's.
Live ==
    \A c \in Conns :
      (writer_state[c] \in Running \/ sync_state[c] \in Running)
        => client_writer = c

\* A connection that was never installed was asked for and given nothing.
Fresh ==
    \A c \in Conns : writer_state[c] = "none" =>
      sent[c] = Idle /\ got[c] = Idle /\ flight[c] = Idle

IInv ==
    /\ TypeOK
    /\ Fields /\ DropsUnderLock /\ Phases /\ Live
    /\ Fresh /\ Conservation /\ DrainPosted
    /\ NoOrphan

-----------------------------------------------------------------------------
\* The names of connections, of users of the lock and of the empty slot.
LEMMA Names ==
    /\ MaxConns \in Nat \ {0} /\ MaxLines \in Nat /\ MaxSends \in Nat
    /\ NoConn \notin Users /\ NoConn \notin Conns
    /\ Stopper \in Users /\ Stopper \notin Conns
    /\ Conns \subseteq Users /\ Conns \subseteq Slots /\ NoConn \in Slots
    /\ Idle \in [Hashes -> Int]
BY BoundsAssumption
DEF BoundsAssumption, Conns, Users, Slots, NoConn, Stopper, Idle

\* It holds when the server starts.
LEMMA InitIInv == Init => IInv
<1> SUFFICES ASSUME Init PROVE IInv  OBVIOUS
<1>1. TypeOK
  <2>1. waiters \in Seq(Users)  BY DEF Init
  <2>2. lines \in [Conns -> Seq(LineKinds)]  BY DEF Init
  <2>3. {flight, sent, got} \subseteq [Conns -> [Hashes -> Int]] /\ pending \in [Hashes -> Int]
        BY Names DEF Init
  <2>4. /\ {client_writer, send_queue, writer_task, sync_task} \subseteq Slots
        /\ {in_course, hello_from} \subseteq Slots /\ holder \in Users \cup {NoConn}
        BY Names DEF Init
  <2>5. /\ writer_state \in [Conns -> TaskStates] /\ sync_state \in [Conns -> TaskStates]
        BY DEF Init, TaskStates
  <2>6. sends \in 0..MaxSends /\ sent_lines \in [Conns -> 0..MaxLines]
        BY BoundsAssumption DEF Init, BoundsAssumption
  <2>7. QED  BY <2>1, <2>2, <2>3, <2>4, <2>5, <2>6, Names DEF Init, TypeOK
<1>2. QED
      BY <1>1, Names
      DEF Init, IInv, Fields, DropsUnderLock, Phases, Dropping, Live, Running,
          Fresh, Conservation, DrainPosted, NoOrphan

\* FinishDrop, once the old session's tasks have ended: whatever u does next,
\* it leaves a whole session and waits for nothing.
LEMMA FinishKeepsIInv ==
    ASSUME IInv, NEW u \in Users, FinishDrop(u, writer_state),
           \A c \in Conns : writer_state[c] \notin Running
                              /\ sync_state[c] \notin Running,
           \A v \in Users : v # u => ~Dropping(v),
           UNCHANGED <<netVars, stateVars, queue, flight, sent, got, sends>>,
           holder' \in Users \cup {NoConn}, waiters' \in Seq(Users)
    PROVE  IInv' /\ ~Dropping(u)'
<1> USE Names
<1>1. TypeOK  BY DEF IInv
<1>2. /\ pc' = [pc EXCEPT ![u] = pc'[u]] /\ pc'[u] \in {"read", "done"}
      /\ pending' = Idle
      BY <1>1 DEF FinishDrop, TypeOK
<1>3. \A v \in Users : ~Dropping(v)'
      BY <1>1, <1>2 DEF Dropping, TypeOK
<1>4. CASE Installing(u)
  <2>1. /\ client_writer' = u /\ send_queue' = u /\ writer_task' = u /\ sync_task' = u
        /\ sync_state' = [sync_state EXCEPT ![u] = "run"]
        /\ writer_state' = [writer_state EXCEPT ![u] = "run"]
        /\ u \in Conns /\ pc'[u] = "read" /\ writer_state[u] = "none"
        BY <1>1, <1>4 DEF FinishDrop, Install, Installing, TypeOK
  <2>2. /\ writer_state'[u] = "run" /\ sync_state'[u] = "run"
        /\ \A c \in Conns : c # u => writer_state'[c] = writer_state[c]
                                       /\ sync_state'[c] = sync_state[c]
        BY <1>1, <2>1 DEF TypeOK
  <2>3. TypeOK'
    <3>1. /\ writer_state' \in [Conns -> TaskStates]
          /\ sync_state' \in [Conns -> TaskStates]
          BY <1>1, <2>1 DEF TypeOK, TaskStates
    <3>2. closed' \in [Conns -> BOOLEAN] /\ listening' \in BOOLEAN
          BY <1>1 DEF FinishDrop, TypeOK
    <3>3. pc' \in [Users -> {"idle", "lock", "drop_sync", "drop_writer",
                             "read", "ack", "emit", "done"}]
          BY <1>1, <1>2 DEF TypeOK
    <3>4. QED  BY <1>1, <1>2, <2>1, <3>1, <3>2, <3>3
               DEF TypeOK, netVars, stateVars
  <2>4. Fields' /\ DropsUnderLock' /\ Phases' /\ NoOrphan'
        BY <1>2, <1>3, <2>1, <2>2
        DEF Fields, DropsUnderLock, Phases, Dropping, NoOrphan
  <2>5. Live'  BY <2>1, <2>2 DEF Live, Running
  <2>6. Fresh' /\ DrainPosted'
        BY <1>2, <2>1, <2>2 DEF IInv, Fresh, DrainPosted
  <2>7. Conservation'
    <3>1. sent[u] = Idle /\ got[u] = Idle /\ flight[u] = Idle
          BY <2>1 DEF IInv, Fresh
    <3>2. QED  BY <1>2, <2>1, <3>1 DEF Conservation, Idle
  <2>8. QED  BY <1>3, <2>3, <2>4, <2>5, <2>6, <2>7 DEF IInv
<1>5. CASE ~Installing(u)
  <2>1. /\ client_writer' = NoConn /\ send_queue' = NoConn
        /\ writer_task' = NoConn /\ sync_task' = NoConn
        /\ writer_state' = writer_state /\ sync_state' = sync_state
        BY <1>5 DEF FinishDrop
  <2>2. TypeOK'
    <3>1. closed' \in [Conns -> BOOLEAN] /\ listening' \in BOOLEAN
          BY <1>1 DEF FinishDrop, TypeOK
    <3>2. pc' \in [Users -> {"idle", "lock", "drop_sync", "drop_writer",
                             "read", "ack", "emit", "done"}]
          BY <1>1, <1>2 DEF TypeOK
    <3>3. QED  BY <1>1, <1>2, <2>1, <3>1, <3>2
               DEF TypeOK, netVars, stateVars
  <2>3. /\ Fields' /\ DropsUnderLock' /\ Phases' /\ NoOrphan'
        BY <1>3, <2>1
        DEF Fields, DropsUnderLock, Phases, Dropping, NoOrphan
  <2>4. Live' /\ Fresh' /\ DrainPosted' /\ Conservation'
        BY <1>2, <2>1 DEF IInv, Live, Fresh, DrainPosted, Conservation
  <2>5. QED  BY <1>3, <2>2, <2>3, <2>4 DEF IInv
<1>6. QED  BY <1>4, <1>5

\* Entering the locked block, while nobody waits for a cancelled task.
LEMMA EnterKeepsIInv ==
    ASSUME IInv, NEW u \in Users, EnterLocked(u),
           \A v \in Users : ~Dropping(v),
           UNCHANGED <<netVars, stateVars, queue, flight, sent, got, sends>>,
           holder' \in Users \cup {NoConn}, waiters' \in Seq(Users),
           pc'[u] = "drop_sync" => holder' = u
    PROVE  IInv'
<1> USE Names
<1>1. TypeOK /\ sync_task = client_writer  BY DEF IInv, Phases
<1>2. CASE sync_task = NoConn
  <2>1. \A c \in Conns : writer_state[c] \notin Running /\ sync_state[c] \notin Running
        BY <1>1, <1>2 DEF IInv, Live
  <2>2. FinishDrop(u, writer_state)  BY <1>2 DEF EnterLocked
  <2>3. QED  BY <2>1, <2>2, FinishKeepsIInv
<1>3. CASE sync_task # NoConn
  <2>1. /\ sync_state' = [sync_state EXCEPT ![client_writer] = "cancelled"]
        /\ pc' = [pc EXCEPT ![u] = "drop_sync"]
        /\ UNCHANGED <<fieldVars, writer_state, closed, pending, listening>>
        /\ client_writer \in Conns
        BY <1>1, <1>3 DEF EnterLocked, TypeOK, Slots
  <2>2. /\ pc'[u] = "drop_sync" /\ \A v \in Users : v # u => pc'[v] = pc[v]
        /\ sync_state'[client_writer] = "cancelled"
        /\ \A c \in Conns : c # client_writer => sync_state'[c] = sync_state[c]
        BY <1>1, <2>1 DEF TypeOK
  <2>3. TypeOK'
        BY <1>1, <2>1 DEF TypeOK, TaskStates, netVars, stateVars, fieldVars
  <2>4. Fields' /\ DropsUnderLock' /\ NoOrphan'
        BY <2>1, <2>2
        DEF IInv, Fields, DropsUnderLock, Dropping, NoOrphan, fieldVars
  <2>5. Phases'
        BY <1>1, <2>1, <2>2 DEF Phases, Dropping, fieldVars
  <2>6. Live' /\ Fresh' /\ DrainPosted' /\ Conservation'
        BY <2>1, <2>2
        DEF IInv, Live, Fresh, DrainPosted, Conservation, fieldVars
  <2>7. QED  BY <2>3, <2>4, <2>5, <2>6 DEF IInv
<1>4. QED  BY <1>2, <1>3

\* Reaching the lock: it is free and entered, or waited for.
LEMMA AcquireKeepsIInv ==
    ASSUME IInv, NEW u \in Users, ~Dropping(u), Acquire(u),
           UNCHANGED <<netVars, stateVars, queue, flight, sent, got, sends>>
    PROVE  IInv'
<1> USE Names
<1>1. TypeOK  BY DEF IInv
<1>2. CASE holder = NoConn
  <2>1. \A v \in Users : ~Dropping(v)
        BY <1>2 DEF IInv, DropsUnderLock
  <2>2. /\ EnterLocked(u) /\ waiters' = waiters
        /\ holder' = IF pc'[u] = "drop_sync" THEN u ELSE NoConn
        BY <1>2 DEF Acquire
  <2>3. QED  BY <1>1, <2>1, <2>2, EnterKeepsIInv DEF TypeOK
<1>3. CASE holder # NoConn
  <2>1. /\ waiters' = Append(waiters, u) /\ pc' = [pc EXCEPT ![u] = "lock"]
        /\ UNCHANGED <<fieldVars, taskVars, closed, pending, holder, listening>>
        BY <1>3 DEF Acquire
  <2>2. pc'[u] = "lock" /\ \A v \in Users : v # u => pc'[v] = pc[v]
        BY <1>1, <2>1 DEF TypeOK
  <2>3. TypeOK'
    <3>1. waiters' \in Seq(Users)  BY <1>1, <2>1 DEF TypeOK
    <3>2. QED
          BY <1>1, <2>1, <3>1 DEF TypeOK, netVars, stateVars, fieldVars, taskVars
  <2>4. Fields' /\ DropsUnderLock' /\ NoOrphan'
        BY <2>1, <2>2 DEF IInv, Fields, DropsUnderLock, Dropping, NoOrphan,
                          fieldVars, taskVars
  <2>5. Phases'
        BY <2>1, <2>2 DEF IInv, Phases, Dropping, fieldVars, taskVars
  <2>6. Live' /\ Fresh' /\ DrainPosted' /\ Conservation'
        BY <2>1 DEF IInv, Live, Fresh, DrainPosted, Conservation, fieldVars, taskVars
  <2>7. QED  BY <2>3, <2>4, <2>5, <2>6 DEF IInv
<1>4. QED  BY <1>2, <1>3

\* The release hands over to a task or to nobody.
LEMMA ReleaseTypes ==
    ASSUME TypeOK, Release
    PROVE  holder' \in Users \cup {NoConn} /\ waiters' \in Seq(Users)
<1>1. waiters \in Seq(Users)  BY DEF TypeOK
<1>2. waiters # <<>> => Head(waiters) \in Users /\ Tail(waiters) \in Seq(Users)
      BY <1>1
<1>3. QED  BY <1>1, <1>2 DEF Release

\* The tasks that hold the lock.
LEMMA LockStepKeepsIInv ==
    ASSUME IInv, NEW u \in Users,
           LockGranted(u) \/ DropAfterSync(u) \/ DropAfterWriter(u)
    PROVE  IInv'
<1> USE Names
<1>1. TypeOK  BY DEF IInv
<1>2. UNCHANGED <<netVars, stateVars, queue, flight, sent, got, sends>>
      BY DEF LockGranted, DropAfterSync, DropAfterWriter
<1>3. CASE LockGranted(u)
  <2>1. \A v \in Users : ~Dropping(v)
        BY <1>3 DEF LockGranted, IInv, DropsUnderLock, Dropping
  <2>2. /\ holder' \in Users \cup {NoConn} /\ waiters' \in Seq(Users)
        /\ pc'[u] = "drop_sync" => holder' = u
        BY <1>1, <1>3, ReleaseTypes DEF LockGranted, TypeOK, lockVars
  <2>3. EnterLocked(u)  BY <1>3 DEF LockGranted
  <2>4. QED  BY <1>2, <2>1, <2>2, <2>3, EnterKeepsIInv
<1>4. ASSUME Dropping(u)
      PROVE  \A v \in Users : v # u => ~Dropping(v)
      BY <1>4 DEF IInv, DropsUnderLock
<1>5. ASSUME FinishDrop(u, writer_state), Release, Dropping(u),
             client_writer # NoConn,
             writer_state[client_writer] \notin Running,
             sync_state[client_writer] \notin Running
      PROVE  IInv'
  <2>1. \A c \in Conns : writer_state[c] \notin Running /\ sync_state[c] \notin Running
        BY <1>5 DEF IInv, Live
  <2>2. holder' \in Users \cup {NoConn} /\ waiters' \in Seq(Users)
        BY <1>1, <1>5, ReleaseTypes
  <2>3. QED  BY <1>2, <1>4, <1>5, <2>1, <2>2, FinishKeepsIInv
<1>6. CASE DropAfterSync(u)
  <2>1. /\ pc[u] = "drop_sync" /\ Dropping(u) /\ client_writer \in Conns
        /\ sync_task = client_writer /\ writer_task = client_writer
        /\ sync_state[client_writer] = "ended"
        BY <1>1, <1>6 DEF DropAfterSync, IInv, Phases, Fields, Dropping, TypeOK, Slots
  <2>2. CASE writer_state[client_writer] = "ended"
        BY <1>5, <1>6, <2>1, <2>2 DEF DropAfterSync, Running
  <2>3. CASE writer_state[client_writer] # "ended"
    <3>1. /\ writer_state' = [writer_state EXCEPT ![client_writer] = "cancelled"]
          /\ pc' = [pc EXCEPT ![u] = "drop_writer"]
          /\ sync_task' = NoConn
          /\ UNCHANGED <<client_writer, send_queue, writer_task, sync_state,
                         closed, pending, lockVars, listening>>
          BY <1>6, <2>1, <2>3 DEF DropAfterSync
    <3>2. /\ pc'[u] = "drop_writer" /\ \A v \in Users : v # u => pc'[v] = pc[v]
          /\ writer_state'[client_writer] = "cancelled"
          /\ \A c \in Conns : c # client_writer => writer_state'[c] = writer_state[c]
          BY <1>1, <2>1, <3>1 DEF TypeOK
    <3>3. TypeOK'
          BY <1>1, <1>2, <2>1, <3>1
          DEF TypeOK, TaskStates, netVars, stateVars, lockVars
    <3>4. Fields' /\ DropsUnderLock' /\ NoOrphan'
          BY <2>1, <3>1, <3>2
          DEF IInv, Fields, DropsUnderLock, Dropping, NoOrphan, lockVars
    <3>5. Phases'
          BY <1>4, <2>1, <3>1, <3>2 DEF Phases, Dropping
    <3>6. Live'  BY <3>1, <3>2 DEF IInv, Live
    <3>7. Fresh'
          BY <1>2, <3>1, <3>2 DEF IInv, Fresh
    <3>8. DrainPosted' /\ Conservation'
      <4>1. DrainPosted'  BY <1>2, <3>1 DEF IInv, DrainPosted
      <4>2. \A c \in Conns : writer_state'[c] = "run" => writer_state[c] = "run"
            BY <3>2
      <4>3. Conservation'
            BY <1>2, <3>1, <4>2 DEF IInv, Conservation
      <4>4. QED  BY <4>1, <4>3
    <3>9. QED  BY <3>3, <3>4, <3>5, <3>6, <3>7, <3>8 DEF IInv
  <2>4. QED  BY <2>2, <2>3
<1>7. CASE DropAfterWriter(u)
  <2>1. /\ pc[u] = "drop_writer" /\ Dropping(u) /\ client_writer # NoConn
        /\ writer_task = client_writer /\ sync_state[client_writer] = "ended"
        BY <1>7 DEF DropAfterWriter, IInv, Phases, Fields, Dropping
  <2>2. QED  BY <1>5, <1>7, <2>1 DEF DropAfterWriter, Running
<1>8. QED  BY <1>3, <1>6, <1>7

\* The handler's own steps: a new connection, its lines, its end.
LEMMA HandlerKeepsIInv ==
    ASSUME IInv, NEW c \in Conns,
           Accept(c) \/ ReadLine(c) \/ HelloBody(c) \/ EmitDone(c) \/ ReadEnd(c)
    PROVE  IInv'
<1> USE Names
<1>1. TypeOK /\ c \in Users  BY DEF IInv
<1>2. CASE Accept(c)
  <2>1. ~Dropping(c) /\ Acquire(c)  BY <1>2 DEF Accept, Dropping
  <2>2. QED  BY <1>1, <1>2, <2>1, AcquireKeepsIInv DEF Accept
<1>3. CASE ReadEnd(c) /\ client_writer = c
  <2>1. ~Dropping(c) /\ Acquire(c)  BY <1>3 DEF ReadEnd, Dropping
  <2>2. QED  BY <1>1, <1>3, <2>1, AcquireKeepsIInv DEF ReadEnd
<1>4. ASSUME pc[c] \in {"read", "ack", "emit"}, pc' = [pc EXCEPT ![c] = pc'[c]],
             pc'[c] \in {"read", "ack", "emit"} \/ (pc'[c] = "done" /\ client_writer # c),
             UNCHANGED <<link, sent_lines, lockVars, fieldVars, taskVars, incVars, listening>>,
             closed' \in [Conns -> BOOLEAN],
             lines' \in [Conns -> Seq(LineKinds)],
             {in_course, hello_from}' \subseteq Slots
      PROVE  IInv'
  <2>1. /\ \A v \in Users : v # c => pc'[v] = pc[v]
        /\ \A v \in Users : Dropping(v)' <=> Dropping(v)
        /\ \A v \in Users : Dropping(v) => pc'[v] = pc[v]
        BY <1>1, <1>4 DEF TypeOK, Dropping
  <2>2. TypeOK'
    <3>1. pc' \in [Users -> {"idle", "lock", "drop_sync", "drop_writer",
                             "read", "ack", "emit", "done"}]
          BY <1>1, <1>4 DEF TypeOK
    <3>2. QED
          BY <1>1, <1>4, <3>1
          DEF TypeOK, lockVars, fieldVars, taskVars, incVars
  <2>3. Fields' /\ DropsUnderLock' /\ NoOrphan'
    <3>1. Fields' /\ DropsUnderLock'
          BY <1>4, <2>1
          DEF IInv, Fields, DropsUnderLock, lockVars, fieldVars, taskVars
    <3>2. client_writer # NoConn => client_writer \in Users
          BY <1>1 DEF TypeOK, Slots
    <3>3. NoOrphan'
          BY <1>4, <2>1, <3>2 DEF IInv, NoOrphan, fieldVars
    <3>4. QED  BY <3>1, <3>3
  <2>4. Phases'
        BY <1>4, <2>1 DEF IInv, Phases, Dropping, fieldVars, taskVars
  <2>5. Live' /\ Fresh' /\ DrainPosted' /\ Conservation'
        BY <1>4 DEF IInv, Live, Fresh, DrainPosted, Conservation, fieldVars,
                    taskVars, incVars
  <2>6. QED  BY <2>2, <2>3, <2>4, <2>5 DEF IInv
<1>5. CASE ReadLine(c)
  <2>1. Head(lines[c]) \in LineKinds /\ Tail(lines[c]) \in Seq(LineKinds)
        BY <1>1, <1>5 DEF ReadLine, TypeOK
  <2>2. pc'[c] \in {"read", "ack", "emit"} /\ pc' = [pc EXCEPT ![c] = pc'[c]]
        BY <1>1, <1>5, <2>1 DEF ReadLine, TypeOK, LineKinds
  <2>3. lines' \in [Conns -> Seq(LineKinds)]
        BY <1>1, <1>5, <2>1 DEF ReadLine, TypeOK
  <2>4. {in_course, hello_from}' \subseteq Slots /\ closed' \in [Conns -> BOOLEAN]
        BY <1>1, <1>5 DEF ReadLine, TypeOK
  <2>5. QED  BY <1>4, <1>5, <2>2, <2>3, <2>4 DEF ReadLine
<1>6. CASE HelloBody(c) \/ EmitDone(c)
  <2>1. pc'[c] = "read" /\ pc' = [pc EXCEPT ![c] = pc'[c]]
        BY <1>1, <1>6 DEF HelloBody, EmitDone, TypeOK
  <2>2. /\ {in_course, hello_from}' \subseteq Slots
        /\ lines' \in [Conns -> Seq(LineKinds)] /\ closed' \in [Conns -> BOOLEAN]
        BY <1>1, <1>6 DEF HelloBody, EmitDone, TypeOK, netVars, stateVars
  <2>3. QED
        BY <1>4, <1>6, <2>1, <2>2 DEF HelloBody, EmitDone, netVars
<1>7. CASE ReadEnd(c) /\ client_writer # c
  <2>1. /\ pc'[c] = "done" /\ pc' = [pc EXCEPT ![c] = pc'[c]]
        /\ closed' \in [Conns -> BOOLEAN]
        BY <1>1, <1>7 DEF ReadEnd, TypeOK
  <2>2. /\ {in_course, hello_from}' \subseteq Slots
        /\ lines' \in [Conns -> Seq(LineKinds)]
        BY <1>1, <1>7 DEF ReadEnd, TypeOK, netVars, stateVars
  <2>3. QED
        BY <1>4, <1>7, <2>1, <2>2 DEF ReadEnd, netVars, taskVars, incVars
<1>8. QED  BY <1>2, <1>3, <1>5, <1>6, <1>7

\* The session's tasks.  The facts about increments are those of hash h.
LEMMA TaskKeepsIInv ==
    ASSUME IInv, NEW c \in Conns, TaskStep(c)
    PROVE  IInv'
<1> USE Names
<1>1. TypeOK /\ c \in Users  BY DEF IInv
<1>2. /\ UNCHANGED <<netVars, closed, pc, lockVars, fieldVars, sent, sends, stateVars, listening>>
      /\ \A v \in Users : Dropping(v)' <=> Dropping(v)
  <2>1. UNCHANGED <<netVars, closed, pc, lockVars, fieldVars, sent, sends, stateVars, listening>>
    <3>1. CASE SyncEnds(c)  BY <3>1 DEF SyncEnds, incVars
    <3>2. CASE WriterEnds(c)  BY <3>2 DEF WriterEnds
    <3>3. CASE WriterDrain(c)  BY <3>3 DEF WriterDrain
    <3>4. CASE WriterWrite(c)  BY <3>4 DEF WriterWrite
    <3>5. QED  BY <3>1, <3>2, <3>3, <3>4 DEF TaskStep
  <2>2. QED  BY <2>1 DEF Dropping
<1>3. DropsUnderLock' /\ NoOrphan'
      BY <1>2 DEF IInv, DropsUnderLock, NoOrphan, lockVars, fieldVars
<1>4. CASE SyncEnds(c)
  <2>1. /\ sync_state[c] = "cancelled" /\ sync_state' = [sync_state EXCEPT ![c] = "ended"]
        /\ UNCHANGED <<writer_state, incVars>>
        BY <1>4 DEF SyncEnds
  <2>2. TypeOK'
        BY <1>1, <1>2, <2>1
        DEF TypeOK, TaskStates, netVars, lockVars, fieldVars, stateVars, incVars
  <2>3. /\ sync_state'[c] = "ended"
        /\ \A d \in Conns : d # c => sync_state'[d] = sync_state[d]
        BY <1>1, <2>1 DEF TypeOK
  <2>4. Fields' /\ Live'
        BY <1>2, <2>1, <2>3 DEF IInv, Fields, Live, Running, fieldVars
  <2>5. Phases'
    <3>1. client_writer # NoConn => client_writer \in Conns
          BY <1>1 DEF TypeOK, Slots
    <3>2. QED
          BY <1>2, <2>1, <2>3, <3>1 DEF IInv, Phases, fieldVars
  <2>6. Fresh' /\ DrainPosted' /\ Conservation'
        BY <1>2, <2>1 DEF IInv, Fresh, DrainPosted, Conservation, fieldVars, incVars
  <2>7. QED  BY <1>3, <2>2, <2>4, <2>5, <2>6 DEF IInv
<1>5. ASSUME UNCHANGED <<sync_state, pending, queue>>,
             writer_state[c] \in Running,
             writer_state' = [writer_state EXCEPT ![c] = "ended"],
             flight' = [flight EXCEPT ![c] = Idle], UNCHANGED got
      PROVE  IInv'
  <2>1. /\ writer_state'[c] = "ended" /\ writer_state[c] # "none"
        /\ \A d \in Conns : d # c => writer_state'[d] = writer_state[d] /\ flight'[d] = flight[d]
        BY <1>1, <1>5 DEF TypeOK, Running
  <2>2. TypeOK'
        BY <1>1, <1>2, <1>5
        DEF TypeOK, TaskStates, netVars, lockVars, fieldVars, stateVars
  <2>3. Fields' /\ Live'
        BY <1>2, <1>5, <2>1 DEF IInv, Fields, Live, Running, fieldVars
  <2>4. Phases'
    <3>1. client_writer # NoConn => client_writer \in Conns
          BY <1>1 DEF TypeOK, Slots
    <3>2. QED
          BY <1>2, <1>5, <2>1, <3>1 DEF IInv, Phases, fieldVars
  <2>5. Fresh' /\ DrainPosted'
        BY <1>2, <1>5, <2>1 DEF IInv, Fresh, DrainPosted, fieldVars
  <2>6. Conservation'
        BY <1>2, <1>5, <2>1 DEF IInv, Conservation, fieldVars
  <2>7. QED  BY <1>3, <2>2, <2>3, <2>4, <2>5, <2>6 DEF IInv
<1>6. CASE WriterEnds(c)
      BY <1>5, <1>6 DEF WriterEnds, Running
<1>7. CASE WriterDrain(c)
  <2>1. /\ writer_state[c] = "run" /\ flight[c] = Idle /\ queue[c] > 0
        /\ queue' = [queue EXCEPT ![c] = @ - 1]
        /\ flight' = [flight EXCEPT ![c] = pending] /\ pending' = Idle
        /\ UNCHANGED <<taskVars, got>>
        BY <1>7 DEF WriterDrain
  <2>2. flight'[c] = pending /\ \A d \in Conns : d # c => flight'[d] = flight[d]
        BY <1>1, <2>1 DEF TypeOK
  <2>3. TypeOK'
    <3>1. queue' \in [Conns -> Nat]  BY <1>1, <2>1 DEF TypeOK
    <3>2. flight' \in [Conns -> [Hashes -> Int]] /\ pending' \in [Hashes -> Int]
          BY <1>1, <2>1 DEF TypeOK
    <3>3. QED
          BY <1>1, <1>2, <2>1, <3>1, <3>2
          DEF TypeOK, netVars, lockVars, fieldVars, stateVars, taskVars
  <2>4. Fields' /\ Live' /\ Phases'
        BY <1>2, <2>1 DEF IInv, Fields, Live, Phases, Dropping, fieldVars, taskVars
  <2>5. Fresh' /\ DrainPosted'
        BY <1>2, <2>1, <2>2 DEF IInv, Fresh, DrainPosted, taskVars
  <2>6. Conservation'
    <3>1. ASSUME NEW d \in Conns, send_queue' = d, writer_state'[d] = "run",
                 NEW h \in Hashes
          PROVE  sent'[d][h] = got'[d][h] + flight'[d][h] + pending'[h]
      <4>1. sent[d][h] = got[d][h] + flight[d][h] + pending[h]
            BY <1>2, <2>1, <3>1 DEF IInv, Conservation, fieldVars, taskVars
      <4>2. d = c
            BY <1>2, <2>1, <3>1 DEF IInv, Fields, Live, Running, fieldVars
      <4>3. /\ flight[c][h] = 0 /\ flight'[c][h] = pending[h] /\ pending'[h] = 0
            /\ got[c][h] \in Int /\ pending[h] \in Int
            BY <1>1, <2>1, <2>2 DEF Idle, TypeOK
      <4>4. QED  BY <1>2, <2>1, <4>1, <4>2, <4>3
    <3>2. QED  BY <3>1 DEF Conservation
  <2>7. QED  BY <1>3, <2>3, <2>4, <2>5, <2>6 DEF IInv
<1>8. CASE WriterWrite(c)
  <2>1. PICK h \in Hashes :
          /\ flight[c][h] # 0
          /\ IF link[c] = "reset"
             THEN /\ writer_state' = [writer_state EXCEPT ![c] = "ended"]
                  /\ flight' = [flight EXCEPT ![c] = Idle]
                  /\ UNCHANGED got
             ELSE /\ got' = [got EXCEPT ![c][h] = @ + flight[c][h]]
                  /\ flight' = [flight EXCEPT ![c][h] = 0]
                  /\ UNCHANGED writer_state
        BY <1>8 DEF WriterWrite
  <2>2. writer_state[c] = "run" /\ UNCHANGED <<sync_state, queue, pending>>
        BY <1>8 DEF WriterWrite
  <2>3. CASE link[c] = "reset"
        BY <1>5, <2>1, <2>2, <2>3 DEF Running
  <2>4. CASE link[c] # "reset"
    <3>1. /\ got' = [got EXCEPT ![c] = [got[c] EXCEPT ![h] = got[c][h] + flight[c][h]]]
          /\ flight' = [flight EXCEPT ![c] = [flight[c] EXCEPT ![h] = 0]]
          /\ writer_state' = writer_state
          BY <2>1, <2>4
    <3>2. /\ got[c] \in [Hashes -> Int] /\ flight[c] \in [Hashes -> Int]
          /\ got \in [Conns -> [Hashes -> Int]] /\ flight \in [Conns -> [Hashes -> Int]]
          BY <1>1 DEF TypeOK
    <3>3. TypeOK'
      <4>1. /\ got' \in [Conns -> [Hashes -> Int]]
            /\ flight' \in [Conns -> [Hashes -> Int]]
            BY <3>1, <3>2
      <4>2. QED
            BY <1>1, <1>2, <2>2, <3>1, <4>1
            DEF TypeOK, netVars, lockVars, fieldVars, stateVars
    <3>4. Fields' /\ Live' /\ Phases' /\ DrainPosted'
          BY <1>2, <2>2, <3>1
          DEF IInv, Fields, Live, Phases, Dropping, DrainPosted, fieldVars
    <3>5. Fresh'  BY <1>2, <2>2, <3>1, <3>2 DEF IInv, Fresh
    <3>6. Conservation'
      <4>1. ASSUME NEW d \in Conns, send_queue' = d, writer_state'[d] = "run",
                   NEW k \in Hashes
            PROVE  sent'[d][k] = got'[d][k] + flight'[d][k] + pending'[k]
        <5>1. sent[d][k] = got[d][k] + flight[d][k] + pending[k]
              BY <1>2, <3>1, <4>1 DEF IInv, Conservation, fieldVars
        <5>2. d = c
              BY <1>2, <2>2, <4>1 DEF IInv, Fields, Live, Running, fieldVars
        <5>3. /\ got'[c][k] = IF k = h THEN got[c][k] + flight[c][k] ELSE got[c][k]
              /\ flight'[c][k] = IF k = h THEN 0 ELSE flight[c][k]
              BY <3>1, <3>2
        <5>4. got[c][k] \in Int /\ flight[c][k] \in Int /\ pending[k] \in Int
              BY <1>1, <3>2 DEF TypeOK
        <5>5. QED  BY <1>2, <2>2, <5>1, <5>2, <5>3, <5>4
      <4>2. QED  BY <4>1 DEF Conservation
    <3>7. QED  BY <1>3, <3>3, <3>4, <3>5, <3>6 DEF IInv
  <2>5. QED  BY <2>3, <2>4
<1>9. QED  BY <1>4, <1>6, <1>7, <1>8 DEF TaskStep

\* A caller of the send API.
LEMMA SendKeepsIInv ==
    ASSUME IInv, NEW h \in Hashes, NEW delta \in {1, -1}, SendIncrement(h, delta)
    PROVE  IInv'
<1> USE Names
<1>1. TypeOK  BY DEF IInv
<1>2. /\ UNCHANGED <<netVars, closed, pc, lockVars, fieldVars, taskVars, flight,
                     got, stateVars, listening>>
      /\ sends < MaxSends /\ sends' = sends + 1
      BY DEF SendIncrement
<1>3. Fields' /\ DropsUnderLock' /\ Live' /\ Phases' /\ NoOrphan'
      BY <1>2 DEF IInv, Fields, DropsUnderLock, Live, Phases, Dropping,
                  NoOrphan, lockVars, fieldVars, taskVars
<1>4. CASE send_queue = NoConn
  <2>1. UNCHANGED <<pending, queue, sent>>  BY <1>4 DEF SendIncrement
  <2>2. TypeOK'
        BY <1>1, <1>2, <2>1
        DEF TypeOK, netVars, lockVars, fieldVars, taskVars, stateVars
  <2>3. Fresh' /\ DrainPosted' /\ Conservation'
        BY <1>2, <2>1
        DEF IInv, Fresh, DrainPosted, Conservation, fieldVars, taskVars
  <2>4. QED  BY <1>3, <2>2, <2>3 DEF IInv
<1>5. CASE send_queue # NoConn
  <2> DEFINE q == send_queue
  <2>1. /\ pending' = [pending EXCEPT ![h] = pending[h] + delta]
        /\ queue' = [queue EXCEPT ![q] = queue[q] + 1]
        /\ sent' = [sent EXCEPT ![q] = [sent[q] EXCEPT ![h] = sent[q][h] + delta]]
        BY <1>5 DEF SendIncrement
  <2>2. /\ q \in Conns /\ writer_state[q] # "none"
        /\ sent \in [Conns -> [Hashes -> Int]] /\ sent[q] \in [Hashes -> Int]
        /\ pending \in [Hashes -> Int] /\ queue \in [Conns -> Nat]
        BY <1>1, <1>5 DEF IInv, Fields, TypeOK, Slots
  <2>3. TypeOK'
    <3>1. /\ pending' \in [Hashes -> Int] /\ queue' \in [Conns -> Nat]
          /\ sent' \in [Conns -> [Hashes -> Int]]
          BY <2>1, <2>2
    <3>2. QED
          BY <1>1, <1>2, <3>1
          DEF TypeOK, netVars, lockVars, fieldVars, taskVars, stateVars
  <2>4. Fresh'  BY <1>2, <2>1, <2>2 DEF IInv, Fresh, taskVars
  <2>5. DrainPosted'
        BY <1>2, <1>5, <2>1, <2>2 DEF DrainPosted, fieldVars
  <2>6. Conservation'
    <3>1. ASSUME NEW d \in Conns, send_queue' = d, writer_state'[d] = "run",
                 NEW k \in Hashes
          PROVE  sent'[d][k] = got'[d][k] + flight'[d][k] + pending'[k]
      <4>1. sent[d][k] = got[d][k] + flight[d][k] + pending[k] /\ d = q
            BY <1>2, <3>1 DEF IInv, Conservation, fieldVars, taskVars
      <4>2. /\ sent'[q][k] = IF k = h THEN sent[q][k] + delta ELSE sent[q][k]
            /\ pending'[k] = IF k = h THEN pending[k] + delta ELSE pending[k]
            BY <2>1, <2>2
      <4>3. /\ got[q][k] \in Int /\ flight[q][k] \in Int
            /\ pending[k] \in Int /\ sent[q][k] \in Int
            BY <1>1, <2>2 DEF TypeOK
      <4>4. QED  BY <1>2, <4>1, <4>2, <4>3
    <3>2. QED  BY <3>1 DEF Conservation
  <2>7. QED  BY <1>3, <2>3, <2>4, <2>5, <2>6 DEF IInv
<1>6. QED  BY <1>4, <1>5

\* The Switch and the network touch none of it.
LEMMA NetKeepsIInv ==
    ASSUME IInv,
           \/ \E c \in Conns : Connect(c) \/ SwitchLeaves(c) \/ LinkLost(c)
           \/ \E c \in Conns, kind \in {"course_in", "check"} : SwitchSends(c, kind)
    PROVE  IInv'
<1> USE Names
<1>1. TypeOK /\ NetOnly
      BY DEF IInv, Connect, SwitchLeaves, LinkLost, SwitchSends
<1>2. /\ link' \in [Conns -> {"absent", "up", "left", "eof", "reset"}]
      /\ sent_lines' \in [Conns -> 0..MaxLines]
      /\ lines' \in [Conns -> Seq(LineKinds)]
  <2>1. ASSUME NEW c \in Conns, Connect(c)  PROVE <1>2!:
    <3>1. <<"hello">> \in Seq(LineKinds)  BY DEF LineKinds
    <3>2. QED  BY <1>1, <2>1, <3>1 DEF Connect, TypeOK
  <2>2. ASSUME NEW c \in Conns, SwitchLeaves(c) \/ LinkLost(c)  PROVE <1>2!:
        BY <1>1, <2>2 DEF SwitchLeaves, LinkLost, TypeOK
  <2>3. ASSUME NEW c \in Conns, NEW kind \in {"course_in", "check"},
               SwitchSends(c, kind)
        PROVE  <1>2!:
    <3>1. Append(lines[c], kind) \in Seq(LineKinds)
          BY <1>1 DEF TypeOK, LineKinds
    <3>2. sent_lines[c] + 1 \in 0..MaxLines
          BY <1>1, <2>3 DEF SwitchSends, TypeOK
    <3>3. QED  BY <1>1, <2>3, <3>1, <3>2 DEF SwitchSends, TypeOK
  <2>4. QED  BY <2>1, <2>2, <2>3
<1>3. TypeOK'
      BY <1>1, <1>2
      DEF NetOnly, TypeOK, lockVars, fieldVars, taskVars, incVars, stateVars
<1>4. QED
      BY <1>1, <1>3
      DEF NetOnly, IInv, Fields, DropsUnderLock, Live, Phases, Dropping, Fresh,
          Conservation, DrainPosted, NoOrphan, lockVars, fieldVars, taskVars,
          incVars

\* One step of any task, of a caller or of the Switch.
LEMMA NextIInv == IInv /\ [Next]_vars => IInv'
<1> SUFFICES ASSUME IInv, [Next]_vars PROVE IInv'  OBVIOUS
<1>1. ASSUME NEW u \in Users, HandlerStep(u)  PROVE IInv'
      BY <1>1, LockStepKeepsIInv, HandlerKeepsIInv DEF HandlerStep
<1>2. ASSUME NEW c \in Conns, TaskStep(c)  PROVE IInv'
      BY <1>2, TaskKeepsIInv
<1>3. CASE Stop
  <2>1. /\ ~Dropping(Stopper) /\ Acquire(Stopper)
        /\ UNCHANGED <<netVars, stateVars, queue, flight, sent, got, sends>>
        BY <1>3 DEF Stop, Dropping
  <2>2. QED  BY <2>1, Names, AcquireKeepsIInv
<1>4. ASSUME NEW h \in Hashes, NEW delta \in {1, -1}, SendIncrement(h, delta)
      PROVE  IInv'
      BY <1>4, SendKeepsIInv
<1>5. CASE \/ \E c \in Conns : Connect(c) \/ SwitchLeaves(c) \/ LinkLost(c)
           \/ \E c \in Conns, kind \in {"course_in", "check"} : SwitchSends(c, kind)
      BY <1>5, NetKeepsIInv
<1>6. CASE UNCHANGED vars
      BY <1>6
      DEF vars, netVars, lockVars, fieldVars, taskVars, incVars, stateVars,
          IInv, TypeOK, Fields, DropsUnderLock, Phases, Dropping, Live, Fresh,
          Conservation, DrainPosted, NoOrphan
<1>7. QED  BY <1>1, <1>2, <1>3, <1>4, <1>5, <1>6 DEF Next

\* The inductive invariant holds in every state: the lock's holder, the drop
\* under way and the four session fields agree (lan_server.py:1173-1242).
THEOREM Invariance == Spec => []IInv
<1>1. QED  BY InitIInv, NextIInv, PTL DEF Spec

-----------------------------------------------------------------------------
\* Only the tasks of the connection in _client_writer live, and while nobody
\* holds the lock the four fields name one connection, however the handlers,
\* the displaced sessions and stop interleave.
THEOREM SessionIsSingle == Spec => []OneSession
<1>1. ASSUME IInv PROVE OneSession
  <2>1. \A c \in Conns : writer_state[c] \in Running \/ sync_state[c] \in Running
                           => client_writer = c
        BY <1>1 DEF IInv, Live
  <2>2. ASSUME holder = NoConn
        PROVE  /\ {send_queue, writer_task, sync_task} = {client_writer}
               /\ \A c \in Conns : sync_state[c] = "run" <=> c = client_writer
    <3>1. \A u \in Users : ~Dropping(u)
          BY <1>1, <2>2, Names DEF IInv, DropsUnderLock
    <3>2. /\ sync_task = client_writer /\ send_queue = client_writer
          /\ writer_task = client_writer
          /\ client_writer # NoConn => sync_state[client_writer] = "run"
          BY <1>1, <3>1 DEF IInv, Phases, Fields
    <3>3. QED  BY <2>1, <3>2, Names DEF Running
  <2>3. QED  BY <2>1, <2>2 DEF OneSession, Running
<1>2. QED  BY <1>1, Invariance, PTL

\* While a session's writer lives, what was asked for is what was written
\* plus what waits: no increment crosses a session, is lost or doubled.
THEOREM IncrementsConserved == Spec => []Conservation
<1>1. IInv => Conservation  BY DEF IInv
<1>2. QED  BY <1>1, Invariance, PTL

\* An increment that waits has a sentinel in the queue that will drain it.
THEOREM DrainIsPosted == Spec => []DrainPosted
<1>1. IInv => DrainPosted  BY DEF IInv
<1>2. QED  BY <1>1, Invariance, PTL

\* A session is never left behind by a handler that has returned.
THEOREM SessionHasHandler == Spec => []NoOrphan
<1>1. IInv => NoOrphan  BY DEF IInv
<1>2. QED  BY <1>1, Invariance, PTL

\* Nothing is written on a connection that a newer one displaced.
THEOREM WritesAreCurrent == Spec => NoLateWrite
<1>1. ASSUME IInv, [Next]_vars
      PROVE  [\A c \in Conns : got'[c] # got[c] => client_writer = c]_vars
  <2>1. ASSUME NEW c \in Conns, got'[c] # got[c]
        PROVE  client_writer = c
    <3>1. UNCHANGED got \/ \E d \in Conns : WriterWrite(d)
      <4>1. ASSUME NEW u \in Users, HandlerStep(u)  PROVE UNCHANGED got
            BY <4>1 DEF HandlerStep, LockGranted, DropAfterSync, DropAfterWriter,
                        Accept, ReadLine, HelloBody, EmitDone, ReadEnd, incVars
      <4>2. ASSUME NEW d \in Conns, TaskStep(d)
            PROVE  UNCHANGED got \/ WriterWrite(d)
            BY <4>2 DEF TaskStep, SyncEnds, WriterEnds, WriterDrain, incVars
      <4>3. CASE Stop \/ \E h \in Hashes, delta \in {1, -1} : SendIncrement(h, delta)
            BY <4>3 DEF Stop, SendIncrement
      <4>4. CASE \/ \E d \in Conns : Connect(d) \/ SwitchLeaves(d) \/ LinkLost(d)
                 \/ \E d \in Conns, kind \in {"course_in", "check"} : SwitchSends(d, kind)
            BY <4>4 DEF Connect, SwitchLeaves, LinkLost, SwitchSends, NetOnly, incVars
      <4>5. CASE UNCHANGED vars  BY <4>5 DEF vars, incVars
      <4>6. QED  BY <1>1, <4>1, <4>2, <4>3, <4>4, <4>5 DEF Next
    <3>2. PICK d \in Conns : WriterWrite(d)  BY <2>1, <3>1
    <3>3. writer_state[d] = "run"  BY <3>2 DEF WriterWrite
    <3>4. got' = got \/ \E h \in Hashes :
            got' = [got EXCEPT ![d] = [got[d] EXCEPT ![h] = got[d][h] + flight[d][h]]]
          BY <3>2 DEF WriterWrite
    <3>5. d # c => got'[c] = got[c]
          BY <1>1, <3>4 DEF IInv, TypeOK
    <3>6. QED  BY <1>1, <2>1, <3>3, <3>5 DEF IInv, Live, Running
  <2>2. QED  BY <2>1
<1>2. QED  BY <1>1, Invariance, PTL DEF Spec, NoLateWrite
=============================================================================
