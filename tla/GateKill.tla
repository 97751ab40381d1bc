------------------------------ MODULE GateKill ------------------------------
(***************************************************************************)
(* The level-entry gate: handle_gate_entered and the asyncio task that     *)
(* counts down and bounces the player (_gate_kill_loop), in                *)
(* src/apworld/smbw_archipelago/client/context.py, fed by the in-course    *)
(* state of state.py and processor.py, with the Switch and the network     *)
(* between them as the environment.                                        *)
(*                                                                         *)
(* The event loop runs the tasks that are ready in order (`ready`); a task *)
(* runs from one await to the next in one action.  A cancelled task raises *)
(* CancelledError when it is next run, unless it never started: then its   *)
(* `finally` does not run either.  One tick is the countdown's one-second  *)
(* sleep.                                                                  *)
(***************************************************************************)
EXTENDS Naturals, Sequences, FiniteSets

CONSTANTS
    Courses,        \* courses the player may enter
    Gated,          \* those AP logic gates for an item
    WorldGated,     \* ... by a world-unlock item: GateEntered while locked
    None,           \* no course, no task
    Delay,          \* GATE_KILL_DELAY_S, in ticks
    MaxKills,       \* GATE_MAX_CONSECUTIVE_KILLS
    MaxEnters,      \* bound on the player's course entries
    MaxReboots,     \* bound on the times the Switch restarts
    MaxReconnects   \* bound on the times the mod reconnects mid-game

ASSUME GateAssumption ==
    /\ Gated \subseteq Courses /\ WorldGated \subseteq Gated
    /\ None \notin Courses \cup Nat
    /\ Delay \in Nat \ {0} /\ MaxKills \in Nat \ {0}
    /\ {MaxEnters, MaxReboots, MaxReconnects} \subseteq Nat

Tasks == 1..MaxEnters    \* a gated entry creates at most one task

VARIABLES
    \* The bridge.
    current_course,  \* BridgeState.current_course
    in_course,       \* BridgeState.in_course
    owned,           \* gated courses whose item AP has sent
    gating,          \* entry_gating_enabled
    gate_task,       \* _gate_kill_task
    task,            \* each task: its event, its locals, where it stands
    created,         \* tasks created
    ready,           \* the event loop's ready queue
    banner,          \* seconds on the overlay banner last sent; 0 is cleared
    \* The network and the Switch.
    up, down,        \* lines to the bridge, kills to the Switch
    at,              \* the course the player is in
    parked,          \* a kill waits for the player to be in play
    enters, reboots, reconnects,    \* how many so far
    \* History.
    elapsed,         \* seconds slept since the bridge handled a course_in
    visit_kills,     \* kills sent since then
    bounced,         \* the player was killed in this stay
    wrong_kill       \* a gate kill hit a player in a course not gated

taskVars    == <<gate_task, task, created, ready, banner>>
bridgeVars  == <<current_course, in_course, owned, gating, taskVars>>
resetVars   == <<reboots, reconnects>>
switchVars  == <<at, parked, enters, resetVars, bounced, wrong_kill>>
vars == <<bridgeVars, switchVars, up, down, elapsed, visit_kills>>

TaskType ==
    [course: Courses \cup {None}, remaining: 0..Delay, kills: 0..MaxKills,
     state: {"none", "new", "sleeping", "woken", "cancelled", "stillborn",
             "done"}]

TypeOK ==
    /\ current_course \in Courses \cup {None}
    /\ in_course \in BOOLEAN
    /\ owned \subseteq Gated
    /\ gating \in BOOLEAN
    /\ gate_task \in Tasks \cup {None}
    /\ task \in [Tasks -> TaskType]
    /\ created \in 0..MaxEnters
    /\ ready \in Seq(Tasks)
    /\ banner \in 0..Delay
    /\ up \in Seq([type: {"in", "out", "hello"}, course: Courses \cup {None}])
    /\ down \in Seq(Courses)
    /\ at \in Courses \cup {None}
    /\ {parked, bounced, wrong_kill} \subseteq BOOLEAN
    /\ enters \in 0..MaxEnters
    /\ reboots \in 0..MaxReboots /\ reconnects \in 0..MaxReconnects
    /\ elapsed \in Nat /\ visit_kills \in Nat

Init ==
    /\ current_course = None /\ in_course = FALSE
    /\ owned = {} /\ gating = TRUE
    /\ gate_task = None
    /\ task = [i \in Tasks |-> [course |-> None, remaining |-> 0, kills |-> 0,
                                state |-> "none"]]
    /\ created = 0 /\ ready = <<>> /\ banner = 0
    /\ up = <<>> /\ down = <<>>
    /\ at = None /\ parked = FALSE
    /\ enters = 0 /\ reboots = 0 /\ reconnects = 0
    /\ elapsed = 0 /\ visit_kills = 0
    /\ bounced = FALSE /\ wrong_kill = FALSE

-----------------------------------------------------------------------------
(* The bridge. *)

Live(i) == task[i].state \in {"new", "sleeping", "woken"}

\* Mutation: any course's item stops the loop.
CheckStopAnyItem(course) ==
    \/ ~gating
    \/ ~in_course
    \/ current_course # course
    \/ owned # {}

\* _gate_check_stop: any reason to stop.
CheckStop(course) ==
    \/ ~gating
    \/ ~in_course
    \/ current_course # course
    \/ course \in owned

\* Mutation: the superseded loop is forgotten, and not cancelled.
NotCancelled(i) == task

\* task.cancel() on the current task: a sleeping one is scheduled, one that
\* is scheduled already runs its cancellation in its turn.
Cancelled(i) ==
    [task EXCEPT ![i].state = IF @ = "new" THEN "stillborn" ELSE "cancelled"]

\* handle_gate_entered: _cancel_gate_kill, then arm a new loop if the entry
\* is gated and its requirement is not met.
GateEntered(course) ==
    LET cancels == gate_task # None /\ Live(gate_task)
        cleared == IF cancels THEN Cancelled(gate_task) ELSE task
        queued  == IF cancels /\ task[gate_task].state = "sleeping"
                   THEN Append(ready, gate_task) ELSE ready
        arms    == gating /\ course \notin owned
        i       == created + 1
    IN  IF arms
        THEN /\ task' = [cleared EXCEPT ![i] =
                           [course |-> course, remaining |-> Delay,
                            kills |-> 0, state |-> "new"]]
             /\ ready' = Append(queued, i)
             /\ gate_task' = i
             /\ created' = i
        ELSE /\ task' = cleared
             /\ ready' = queued
             /\ gate_task' = None
             /\ UNCHANGED created

\* course_in: mark_course_entered; a gated course emits GateEntered, unless
\* its gate is its world's and the world is unlocked.
HandleCourseIn(course) ==
    /\ current_course' = course
    /\ in_course' = TRUE
    /\ elapsed' = 0
    /\ visit_kills' = 0
    /\ IF course \in Gated /\ (course \notin WorldGated \/ course \notin owned)
       THEN GateEntered(course) /\ UNCHANGED banner
       ELSE UNCHANGED taskVars

\* course_result, and HelloMsg: mark_course_exited.
HandleCourseOut ==
    /\ in_course' = FALSE
    /\ UNCHANGED <<current_course, taskVars, elapsed, visit_kills>>

HandleLine ==
    /\ up # <<>>
    /\ up' = Tail(up)
    /\ IF Head(up).type = "in" THEN HandleCourseIn(Head(up).course)
                               ELSE HandleCourseOut
    /\ UNCHANGED <<owned, gating, switchVars, down>>

\* Mutation: the `finally` does not ask whose task handle it is.
FinishBlind(i) ==
    /\ task' = [task EXCEPT ![i].state = "done"]
    /\ banner' = 0
    /\ gate_task' = None

\* The loop returns, or raises: the `finally` clears the banner, and the task
\* handle if it is still this task's.
Finish(i) ==
    /\ task' = [task EXCEPT ![i].state = "done"]
    /\ banner' = 0
    /\ gate_task' = IF gate_task = i THEN None ELSE gate_task

Sleep(i, remaining, kills) ==
    /\ task' = [task EXCEPT ![i].state = "sleeping",
                            ![i].remaining = remaining,
                            ![i].kills = kills]
    /\ banner' = remaining
    /\ UNCHANGED gate_task

\* Mutation: the second window is cut short.
NextWindowShort(i, kills) ==
    IF kills >= MaxKills THEN Finish(i) ELSE Sleep(i, 1, kills)

\* After a kill: the next window, up to the safety cap.
NextWindow(i, kills) ==
    IF kills >= MaxKills THEN Finish(i) ELSE Sleep(i, Delay, kills)

\* One run of _gate_kill_loop: `left` seconds remain after the sleep, and at
\* zero a kill is sent.
LoopRun(i, left) ==
    LET course == task[i].course
    IN  \/ /\ CheckStop(course)
           /\ Finish(i)
           /\ UNCHANGED <<down, visit_kills>>
        \/ /\ ~CheckStop(course) /\ left > 0
           /\ Sleep(i, left, task[i].kills)
           /\ UNCHANGED <<down, visit_kills>>
        \/ /\ ~CheckStop(course) /\ left = 0
           /\ down' = Append(down, course)
           /\ visit_kills' = visit_kills + 1
           /\ NextWindow(i, task[i].kills + 1)

\* The event loop runs the next ready task.
RunTask ==
    /\ ready # <<>>
    /\ ready' = Tail(ready)
    /\ LET i == Head(ready)
       IN  CASE task[i].state = "new" ->
                  LoopRun(i, task[i].remaining) /\ UNCHANGED elapsed
             [] task[i].state = "woken" ->
                  /\ elapsed' = elapsed + 1
                  /\ LoopRun(i, task[i].remaining - 1)
             [] task[i].state = "cancelled" ->
                  Finish(i) /\ UNCHANGED <<down, visit_kills, elapsed>>
             [] task[i].state = "stillborn" ->
                  /\ task' = [task EXCEPT ![i].state = "done"]
                  /\ UNCHANGED <<banner, gate_task, down, visit_kills, elapsed>>
    /\ UNCHANGED <<current_course, in_course, owned, gating, created,
                   switchVars, up>>

\* A sleep of one second is over.
Wake(i) ==
    /\ task[i].state = "sleeping"
    /\ task' = [task EXCEPT ![i].state = "woken"]
    /\ ready' = Append(ready, i)
    /\ UNCHANGED <<current_course, in_course, owned, gating, gate_task,
                   created, banner, switchVars, up, down, elapsed, visit_kills>>

\* AP sends an item, or a Connected package carries another gating option.
ReceiveItem ==
    /\ \E c \in Gated \ owned : owned' = owned \cup {c}
    /\ UNCHANGED <<current_course, in_course, gating, taskVars, switchVars, up,
                   down, elapsed, visit_kills>>

DisableGating ==
    /\ gating
    /\ gating' = FALSE
    /\ UNCHANGED <<current_course, in_course, owned, taskVars, switchVars, up,
                   down, elapsed, visit_kills>>

-----------------------------------------------------------------------------
(* The Switch. *)

Line(type, course) == [type |-> type, course |-> course]

\* The player enters a course: a kill parked on the Switch fires in it.
Enter(c) ==
    /\ at = None /\ enters < MaxEnters
    /\ at' = c
    /\ enters' = enters + 1
    /\ up' = Append(up, Line("in", c))
    /\ bounced' = FALSE
    /\ UNCHANGED <<parked, resetVars, wrong_kill, bridgeVars, down, elapsed,
                   visit_kills>>

Leave ==
    /\ at # None
    /\ at' = None
    /\ up' = Append(up, Line("out", None))
    /\ UNCHANGED <<parked, enters, resetVars, bounced, wrong_kill, bridgeVars,
                   down, elapsed, visit_kills>>

\* A gate kill takes the player who is in a course, and is parked otherwise.
Die ==
    /\ bounced' = TRUE
    /\ wrong_kill' = (wrong_kill \/ at \notin Gated)

KillArrives ==
    /\ down # <<>>
    /\ down' = Tail(down)
    /\ IF at # None THEN Die /\ UNCHANGED parked
                    ELSE parked' = TRUE /\ UNCHANGED <<bounced, wrong_kill>>
    /\ UNCHANGED <<at, enters, resetVars, bridgeVars, up, elapsed, visit_kills>>

\* The parked kill fires in the course the player is in now, or expires.
ParkedKill ==
    /\ parked
    /\ parked' = FALSE
    /\ \/ at # None /\ Die
       \/ UNCHANGED <<bounced, wrong_kill>>
    /\ UNCHANGED <<at, enters, resetVars, bridgeVars, up, down, elapsed,
                   visit_kills>>

\* The Switch restarts: its rings are empty, and it says Hello.
Reboot ==
    /\ reboots < MaxReboots
    /\ reboots' = reboots + 1
    /\ at' = None /\ parked' = FALSE
    /\ up' = <<Line("hello", None)>> /\ down' = <<>>
    /\ UNCHANGED <<enters, reconnects, bounced, wrong_kill, bridgeVars, elapsed,
                   visit_kills>>

\* The mod loses its TCP connection and opens another, the game running on.
\* What was on the wire, an earlier Hello included, is lost; what is still in
\* its outbound ring is not.
Reconnect ==
    /\ reconnects < MaxReconnects
    /\ reconnects' = reconnects + 1
    /\ \E lost \in 0..Len(up) :
         /\ \A k \in (lost + 1)..Len(up) : up[k].type # "hello"
         /\ up' = <<Line("hello", None)>> \o SubSeq(up, lost + 1, Len(up))
    /\ down' = <<>>
    /\ UNCHANGED <<at, parked, enters, reboots, bounced, wrong_kill, bridgeVars,
                   elapsed, visit_kills>>

Next ==
    \/ HandleLine
    \/ RunTask
    \/ \E i \in Tasks : Wake(i)
    \/ ReceiveItem
    \/ DisableGating
    \/ \E c \in Courses : Enter(c)
    \/ Leave
    \/ KillArrives
    \/ ParkedKill
    \/ Reboot
    \/ Reconnect

\* The event loop runs, timers expire, and messages arrive.
Fairness ==
    /\ WF_vars(HandleLine) /\ WF_vars(RunTask) /\ WF_vars(KillArrives)
    /\ \A i \in Tasks : WF_vars(Wake(i))

Spec     == Init /\ [][Next]_vars
FairSpec == Spec /\ Fairness

-----------------------------------------------------------------------------
(* Safety. *)

\* There is never a second countdown: a task that is live is the one the
\* context would cancel (context.py:1297-1307, 1582-1591).
OneLoop == \A i \in Tasks : Live(i) => gate_task = i

\* Once the ready tasks have run, the banner shows the live countdown, and
\* nothing else: the cleanup of a superseded loop never clears the banner of
\* its successor (context.py:1520-1539, 1581-1591).
BannerHonest ==
    ready = <<>> =>
      banner = IF gate_task = None THEN 0 ELSE task[gate_task].remaining

\* Every kill is paid for by a full grace window in this stay: no countdown
\* is carried over from an earlier stay in the same course.
GraceKept == visit_kills * Delay <= elapsed

\* The in-course latch is cleared only when it is stale: the player has left
\* the course, or a newer entry is on its way (lan_server.py:989-999).
ClearedWhenStale ==
    [][ (in_course /\ ~in_course') =>
          \/ at # current_course
          \/ \E i \in 1..Len(up') : up'[i].type = "in" ]_vars

(* Liveness. *)

\* A player who stays in a gated course without its item is bounced, unless
\* a mid-game reconnect made the bridge forget that the player is in it.
GatedBounced ==
    \A c \in Gated :
      (at = c /\ ~bounced) ~>
        \/ at # c \/ bounced \/ c \in owned \/ ~gating
        \/ reconnects > 0 /\ ~(in_course /\ current_course = c)

(* Claims of the comments that the code does not keep. *)

\* "bouncing the player out of a course they can't legally be in"
\* (DeathLink.cpp:94-98, ApFrameBridge.cpp:449-451).
BouncesOnlyGated == ~wrong_kill
=============================================================================
