------------------------------ MODULE DeathLink ------------------------------
(***************************************************************************)
(* The Switch-side synthetic-kill machine: src/switch-mod/src/probe/       *)
(* DeathLink.cpp, driven by the two game-thread hooks of main.cpp that     *)
(* call it (the per-frame player tick and the Nerve activation hook) and   *)
(* by the Kill case of ApFrameBridge.cpp's drainInbound.                   *)
(*                                                                         *)
(* Everything here runs on the game thread, so the only concurrency is     *)
(* with the network thread, which appends to the inbound ring.  A hook is  *)
(* three steps -- the service (tick hook only), the drain loop, the rest   *)
(* of the body -- and time stands still inside a hook.  Ticks of the svc   *)
(* clock are abstracted to integers; 0 is the code's "none" sentinel, and  *)
(* the clock starts above it.                                              *)
(***************************************************************************)
EXTENDS Naturals, Sequences

CONSTANTS
    FreshTicks,       \* kLiveBaseFreshTicks
    GuardTicks,       \* kSynthGuardTicks
    SettleTicks,      \* kInLevelSettleTicks
    TtlTicks,         \* kPendingKillTtlTicks
    WindowTicks,      \* kKillActiveTtlTicks
    TransitionTicks,  \* kSceneTransitionGateTicks
    MaxTime,          \* bound on the clock
    MaxKills,         \* bound on the Kill messages received
    Pausing           \* may the player tick pause without a scene load?

ASSUME TicksAssumption ==
    /\ {FreshTicks, GuardTicks, SettleTicks, TtlTicks, WindowTicks,
        TransitionTicks, MaxTime, MaxKills} \subseteq Nat
    /\ FreshTicks > 0
    /\ GuardTicks > 0
    /\ Pausing \in BOOLEAN

VARIABLES
    now,                \* svc system tick
    live_base_tick,     \* g_live_base_tick; 0 also stands for g_live_base = 0
    session_start,      \* g_session_start_tick
    kill_deadline,      \* g_kill_active_deadline
    guard_deadline,     \* g_synth_guard_deadline
    pending_deadline,   \* g_pending_kill_deadline
    pending_immediate,  \* g_pending_kill_immediate
    scene_tick,         \* s_last_scene_transition_tick
    inbound,            \* Kill messages in the inbound ring: their `immediate`
    hook,               \* what the game thread runs: no hook, a tick hook, or
                        \* the Nerve hook on one kind of Nerve
    stage,              \* inside a hook: the drain loop, or the body after it
    hp_zero,            \* the HP int16 at hp_struct + 0x38 is 0
    edge_latch,         \* the byte at player + 0x110f
    life,               \* "alive", or dying a "synthetic" / "genuine" death
    reports,            \* causes of the DEATH_DETECTED sent to the bridge
    \* History, read by properties only.
    kills,              \* Kill messages handled
    gates,              \* ... the immediate ones among them
    bypasses,           \* kill windows opened on an unsettled session
    swallowed,          \* deaths suppressed
    last_kill,          \* when a Kill message was last handled
    last_gate,          \* when an immediate Kill message was last handled
    in_run,             \* no tick gap since the open kill window was opened
    in_session          \* ... and no restart of the session clock either

liveVars    == <<live_base_tick, session_start>>
pendingVars == <<pending_deadline, pending_immediate>>
writeVars   == <<guard_deadline, hp_zero, edge_latch>>
windowVars  == <<kill_deadline, bypasses, in_run, in_session>>
killVars    == <<pendingVars, writeVars, windowVars>>
countVars   == <<kills, gates, last_kill, last_gate>>
deathVars   == <<life, reports, swallowed>>
threadVars  == <<hook, stage>>
vars == <<now, liveVars, killVars, countVars, deathVars, threadVars,
          scene_tick, inbound>>

Causes     == {"synthetic", "genuine"}
TickHooks  == {"tick", "null_tick"}     \* walkToHpStruct found the struct, or not
NerveHooks == {"death", "transition", "other"}

Times ==
    /\ now \in Nat \ {0}
    /\ live_base_tick \in Nat /\ session_start \in Nat
    /\ kill_deadline \in Nat /\ guard_deadline \in Nat
    /\ pending_deadline \in Nat /\ scene_tick \in Nat
    /\ kills \in Nat /\ gates \in Nat /\ bypasses \in Nat /\ swallowed \in Nat
    /\ last_kill \in Nat /\ last_gate \in Nat

Flags ==
    /\ pending_immediate \in BOOLEAN
    /\ inbound \in Seq(BOOLEAN)
    /\ hook \in TickHooks \cup NerveHooks \cup {"none"}
    /\ stage \in {"drain", "body"}
    /\ hp_zero \in BOOLEAN /\ edge_latch \in BOOLEAN
    /\ life \in Causes \cup {"alive"}
    /\ reports \subseteq Causes
    /\ in_run \in BOOLEAN /\ in_session \in BOOLEAN

TypeOK == Times /\ Flags

Init ==
    /\ now = 1
    /\ live_base_tick = 0 /\ session_start = 0
    /\ kill_deadline = 0 /\ guard_deadline = 0
    /\ pending_deadline = 0 /\ pending_immediate = FALSE
    /\ scene_tick = 0
    /\ inbound = <<>>
    /\ hook = "none" /\ stage = "drain"
    /\ hp_zero = FALSE /\ edge_latch = FALSE
    /\ life = "alive" /\ reports = {}
    /\ kills = 0 /\ gates = 0 /\ bypasses = 0 /\ swallowed = 0
    /\ last_kill = 0 /\ last_gate = 0
    /\ in_run = FALSE /\ in_session = FALSE

-----------------------------------------------------------------------------
(* The predicates of DeathLink.cpp and Gates.cpp, over the values they read. *)

\* isInSceneTransitionWindow.
InSceneWindow == scene_tick # 0 /\ now - scene_tick < TransitionTicks

\* freshBase: the player tick refreshed the base within the window.
FreshAt(tick) == tick # 0 /\ now - tick <= FreshTicks

\* The age test of settledBase.
OldEnough(start) == start # 0 /\ now - start >= SettleTicks

\* Mutation: the settle gate is dropped.
KillableUnsettled(tick, start, immediate) == FreshAt(tick)

\* killableBase: gate kills need freshness only, DeathLinks a settled session.
KillableAt(tick, start, immediate) ==
    FreshAt(tick) /\ (immediate \/ OldEnough(start))

\* Mutation: the echo guard is not armed.
FireUnguarded ==
    /\ UNCHANGED guard_deadline
    /\ edge_latch' = FALSE
    /\ hp_zero' = TRUE

\* fireSynthKill: guard first, then the edge latch, then HP.
FireSynthKill ==
    /\ guard_deadline' = now + GuardTicks
    /\ edge_latch' = FALSE
    /\ hp_zero' = TRUE

\* Open the kill window in a session that started at `start`.
OpenWindow(start) ==
    /\ kill_deadline' = now + WindowTicks
    /\ bypasses' = IF OldEnough(start) THEN bypasses ELSE bypasses + 1
    /\ in_run' = TRUE
    /\ in_session' = TRUE

\* The player tick has been silent for longer than the freshness window.
TickGap == live_base_tick = 0 \/ now - live_base_tick > FreshTicks

SessionRestart == TickGap \/ InSceneWindow

\* Step 1 of serviceDeathLink: with the struct found, refresh the base and
\* restart the session on a gap or inside the scene-transition window.
RefreshLive(found) ==
    IF found
    THEN /\ live_base_tick' = now
         /\ session_start' = IF SessionRestart THEN now ELSE session_start
    ELSE UNCHANGED liveVars

\* Mutation: a tick gap does not close the kill window.
WindowBleeds(found) == kill_deadline

\* The kill window step 1 leaves open: a tick gap closes it.
WindowLeft(found) == IF found /\ TickGap THEN 0 ELSE kill_deadline

\* Mutation: a pending kill never expires.
PendingFiresLate ==
    /\ pending_deadline # 0
    /\ KillableAt(live_base_tick', session_start', pending_immediate)

\* Step 2: the pending kill fires on the first killable frame ...
PendingFires ==
    /\ pending_deadline # 0 /\ now <= pending_deadline
    /\ KillableAt(live_base_tick', session_start', pending_immediate)

FirePending ==
    /\ PendingFires
    /\ pending_deadline' = 0
    /\ pending_immediate' = FALSE
    /\ OpenWindow(session_start')
    /\ FireSynthKill

\* ... waits, or expires.
KeepPending ==
    /\ ~PendingFires
    /\ IF pending_deadline # 0 /\ now > pending_deadline
       THEN pending_deadline' = 0 /\ pending_immediate' = FALSE
       ELSE UNCHANGED pendingVars

\* Step 3: an unexpired kill window rewrites HP on every fresh frame.
ServiceWindow(found) ==
    LET deadline == WindowLeft(found)
        open == deadline # 0 /\ now <= deadline
    IN  /\ kill_deadline' = IF open THEN deadline ELSE 0
        /\ IF open /\ FreshAt(live_base_tick') THEN FireSynthKill
                                              ELSE UNCHANGED writeVars
        /\ in_run' = (in_run /\ open /\ ~(found /\ TickGap))
        /\ in_session' = (in_session /\ open /\ ~(found /\ SessionRestart))
        /\ UNCHANGED bypasses

\* serviceDeathLink(param_1).
ServiceDeathLink(found) ==
    /\ RefreshLive(found)
    /\ FirePending \/ (KeepPending /\ ServiceWindow(found))

-----------------------------------------------------------------------------
(* The game thread. *)

\* playerTickLatchHook: serviceDeathLink first, then the drain.  Unless the
\* game can pause, the first tick after a gap finds a newly loaded scene.
PlayerTick(found) ==
    /\ hook = "none"
    /\ (found /\ TickGap /\ ~Pausing) => ~hp_zero
    /\ ServiceDeathLink(found)
    /\ hook' = IF found THEN "tick" ELSE "null_tick"
    /\ UNCHANGED <<now, countVars, deathVars, stage, scene_tick, inbound>>

\* nerveActivateOnceHook, and the course-clear and game-goal hooks, whose
\* bodies touch nothing here.  A death Nerve fires only for a dying player.
NerveActivate(kind) ==
    /\ hook = "none"
    /\ kind = "death" => life # "alive"
    /\ hook' = kind
    /\ UNCHANGED <<now, liveVars, killVars, countVars, deathVars, stage,
                   scene_tick, inbound>>

\* synthKill: applied at once when the base is killable, else parked by
\* requestPendingDeathLink, whose urgency can be raised but not lowered.
HandleKill(immediate) ==
    IF KillableAt(live_base_tick, session_start, immediate)
    THEN /\ OpenWindow(session_start)
         /\ FireSynthKill
         /\ UNCHANGED pendingVars
    ELSE /\ pending_immediate' =
              (immediate \/ (pending_deadline # 0 /\ pending_immediate))
         /\ pending_deadline' = now + TtlTicks
         /\ UNCHANGED <<windowVars, writeVars>>

\* One iteration of drainInbound's loop: the ring's next Kill.  The loop is
\* not entered inside the scene-transition window.
DrainKill ==
    /\ hook # "none" /\ stage = "drain"
    /\ inbound # <<>> /\ ~InSceneWindow
    /\ HandleKill(Head(inbound))
    /\ inbound' = Tail(inbound)
    /\ kills' = kills + 1
    /\ gates' = IF Head(inbound) THEN gates + 1 ELSE gates
    /\ last_kill' = now
    /\ last_gate' = IF Head(inbound) THEN now ELSE last_gate
    /\ UNCHANGED <<now, liveVars, deathVars, threadVars, scene_tick>>

\* drainInbound returns: the ring is empty, or gated.
DrainDone ==
    /\ hook # "none" /\ stage = "drain"
    /\ inbound = <<>> \/ InSceneWindow
    /\ stage' = "body"
    /\ UNCHANGED <<now, liveVars, killVars, countVars, deathVars, hook,
                   scene_tick, inbound>>

Return == hook' = "none" /\ stage' = "drain"

\* The player tick's own death check, on the struct it walks to.  With HP at
\* 0 the edge latch is set first, and a death is requested only when the
\* scene is valid; a living frame clears the latch.
HpCheck ==
    \/ /\ hook = "tick" /\ hp_zero /\ ~edge_latch
       /\ edge_latch' = TRUE
       /\ life' \in {"alive", "synthetic"}
    \/ /\ hook = "tick" /\ ~hp_zero
       /\ edge_latch' = FALSE
       /\ UNCHANGED life
    \/ /\ hook = "null_tick" \/ (hp_zero /\ edge_latch)
       /\ UNCHANGED <<life, edge_latch>>

\* The rest of the tick hook; an enemy or a pit may kill the player too.
PlayerTickBody ==
    /\ hook \in TickHooks /\ stage = "body"
    /\ \/ life = "alive" /\ HpCheck
       \/ life = "alive" /\ life' = "genuine" /\ UNCHANGED edge_latch
       \/ life # "alive" /\ UNCHANGED <<life, edge_latch>>
    /\ Return
    /\ UNCHANGED <<now, liveVars, pendingVars, windowVars, countVars,
                   guard_deadline, hp_zero, reports, swallowed, scene_tick,
                   inbound>>

GuardArmed == guard_deadline # 0 /\ now <= guard_deadline

\* Mutation: the kill window stays open after its death.
ConsumeGuardOnly ==
    /\ guard_deadline' = 0
    /\ UNCHANGED kill_deadline

\* consumeSyntheticDeathThisFrame: the guard is spent in any case, and a
\* death it covers ends the kill window.
ConsumeSyntheticDeath ==
    /\ guard_deadline' = 0
    /\ kill_deadline' = IF GuardArmed THEN 0 ELSE kill_deadline

\* The Nerve hook's body on a death: stamp the scene transition, consume the
\* guard, and report the death unless it is our own.  The player respawns.
DeathNerveBody ==
    /\ hook = "death" /\ stage = "body"
    /\ scene_tick' = now
    /\ ConsumeSyntheticDeath
    /\ IF GuardArmed
       THEN swallowed' = swallowed + 1 /\ UNCHANGED reports
       ELSE reports' = reports \cup {life} /\ UNCHANGED swallowed
    /\ life' = "alive"
    /\ hp_zero' = FALSE
    /\ Return
    /\ UNCHANGED <<now, liveVars, pendingVars, countVars, inbound, edge_latch,
                   bypasses, in_run, in_session>>

\* Every other scene-transition Nerve only stamps the tick; other Nerves do
\* nothing here.
OtherNerveBody ==
    /\ hook \in {"transition", "other"} /\ stage = "body"
    /\ scene_tick' = IF hook = "transition" THEN now ELSE scene_tick
    /\ Return
    /\ UNCHANGED <<now, liveVars, killVars, countVars, deathVars, inbound>>

-----------------------------------------------------------------------------
(* The environment. *)

\* The network thread pushes a Kill (gate kill or DeathLink) to the ring.  A
\* push during a hook is seen by its drain or by the next one, as a push
\* before or after the hook is.
ReceiveKill(immediate) ==
    /\ hook = "none"
    /\ kills + Len(inbound) < MaxKills
    /\ inbound' = Append(inbound, immediate)
    /\ UNCHANGED <<now, liveVars, killVars, countVars, deathVars, threadVars,
                   scene_tick>>

\* A scene load re-allocates the HP struct while the player tick is silent.
SceneLoad ==
    /\ hook = "none"
    /\ life = "alive" /\ hp_zero /\ TickGap
    /\ hp_zero' = FALSE
    /\ edge_latch' = FALSE
    /\ UNCHANGED <<now, liveVars, pendingVars, windowVars, countVars,
                   deathVars, threadVars, scene_tick, inbound, guard_deadline>>

\* The clock advances between hooks.  A death's Nerve follows its request
\* within a frame or two, less than one tick of this clock.
Tick ==
    /\ hook = "none"
    /\ life = "alive"
    /\ now < MaxTime
    /\ now' = now + 1
    /\ UNCHANGED <<liveVars, killVars, countVars, deathVars, threadVars,
                   scene_tick, inbound>>

Next ==
    \/ \E found \in BOOLEAN : PlayerTick(found)
    \/ \E kind \in NerveHooks : NerveActivate(kind)
    \/ DrainKill
    \/ DrainDone
    \/ PlayerTickBody
    \/ DeathNerveBody
    \/ OtherNerveBody
    \/ \E immediate \in BOOLEAN : ReceiveKill(immediate)
    \/ SceneLoad
    \/ Tick

Spec == Init /\ [][Next]_vars

-----------------------------------------------------------------------------
(* Safety. *)

\* HP is never written later than one pending TTL plus one kill window after
\* the last Kill message was handled: a buried kill cannot fire minutes
\* later in an unrelated level (DeathLink.cpp:140-148).
NoStaleKill ==
    [][ guard_deadline' \notin {0, guard_deadline}
          => now <= last_kill' + TtlTicks + WindowTicks ]_vars

\* No kill window that rewrites HP reaches over a pause of the player tick
\* longer than the freshness window: HP is written only in the run of player
\* ticks in which the window was opened (DeathLink.cpp:326-335).
WriteWithinRun ==
    [][ guard_deadline' \notin {0, guard_deadline} => in_run' ]_vars

\* Every kill window opened before the session has settled spends a gate
\* kill of its own: DeathLinks, however many and however they overlap in the
\* single pending slot, never buy one (DeathLink.cpp:133-138, 200-205).
BypassesOwedToGates == bypasses <= gates

\* A Kill message swallows at most one death: the player's own deaths that
\* follow are reported (DeathLink.cpp:27-32, 414-421).
OneDeathPerKill == swallowed <= kills

\* The echo guard: a death caused by a synthetic kill is never reported to
\* the multiworld as the player's own (DeathLink.cpp:188-192).
NoEcho == "synthetic" \notin reports

\* A parked gate kill keeps its urgency until it is fired or dropped
\* (DeathLink.cpp:200-205, 463-474).
UrgencyKept ==
    [][ (pending_deadline # 0 /\ pending_immediate /\ pending_deadline' # 0)
          => pending_immediate' ]_vars

(* Claims of the comments that the code does not keep. *)

\* "An open kill window belongs to the session it was opened in; never let
\* one bleed across a scene boundary" (DeathLink.cpp:327-329).
WriteWithinSession ==
    [][ guard_deadline' \notin {0, guard_deadline} => in_session' ]_vars

\* An unsettled kill is fired for a gate kill no older than the pending TTL,
\* which "keeps the 'never fires minutes later' property"
\* (DeathLink.cpp:140-147).
BypassIsRecent ==
    [][ bypasses' > bypasses => now <= last_gate' + TtlTicks ]_vars
=============================================================================
