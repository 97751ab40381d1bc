----------------------------- MODULE Switch_proofs -----------------------------
(***************************************************************************)
(* What two parts of the Switch mod keep for every value of their          *)
(* constants: the synthetic-kill machine of DeathLink.tla, and the rings   *)
(* of SpscRing.tla that bring it its Kill messages.                        *)
(***************************************************************************)
EXTENDS DeathLink, SpscRing, SequenceTheorems, TLAPS

(***************************************************************************)
(* The synthetic-kill machine, for any tick constants, any length of run   *)
(* and any number of kills.                                                *)
(*                                                                         *)
(* The invariant counts credits.  A Kill message is one credit, which is   *)
(* first held by the pending slot, then by an armed window or guard, and   *)
(* is spent by the death it swallows; an urgent one is also a licence to   *)
(* open one window on an unsettled session.                                *)
(***************************************************************************)

Parked == IF pending_deadline # 0 THEN 1 ELSE 0
Urgent == IF pending_deadline # 0 /\ pending_immediate THEN 1 ELSE 0
Armed  == IF kill_deadline # 0 \/ guard_deadline # 0 THEN 1 ELSE 0

\* Licences to open a window on an unsettled session.
Licences == bypasses + Urgent <= gates

\* Credits to swallow a death.
Credits == swallowed + Armed + Parked <= kills

\* The deadlines age with the last Kill message.
Deadlines ==
    /\ last_kill <= now
    /\ pending_deadline # 0 => pending_deadline <= last_kill + TtlTicks
    /\ kill_deadline # 0 => kill_deadline <= last_kill + TtlTicks + WindowTicks

\* An open window has been open without a gap of the player tick.
WindowInRun == kill_deadline # 0 => in_run

\* A death Nerve runs for a dying player.
DyingInNerve == hook = "death" => life \in Causes

IInv ==
    TypeOK /\ Licences /\ Credits /\ Deadlines /\ WindowInRun /\ DyingInNerve

-----------------------------------------------------------------------------
\* The tick constants are naturals.
LEMMA TicksNat ==
    /\ FreshTicks \in Nat /\ GuardTicks \in Nat \ {0} /\ SettleTicks \in Nat
    /\ TtlTicks \in Nat /\ WindowTicks \in Nat /\ TransitionTicks \in Nat
    /\ MaxTime \in Nat /\ MaxKills \in Nat /\ Pausing \in BOOLEAN
BY TicksAssumption DEF TicksAssumption

\* It holds at boot: no credit is held and none was given.
LEMMA InitIInv == Init => IInv
<1> SUFFICES ASSUME Init PROVE IInv  OBVIOUS
<1>1. Times  BY DEF Init, Times
<1>2. Flags
  <2>1. inbound \in Seq(BOOLEAN)  BY DEF Init
  <2>2. QED  BY <2>1, Zenon DEF Init, Flags, TickHooks, NerveHooks, Causes
<1>3. Licences /\ Credits /\ Deadlines /\ WindowInRun /\ DyingInNerve
      BY DEF Init, Licences, Credits, Deadlines, WindowInRun, Parked, Urgent,
             Armed, DyingInNerve
<1>4. QED  BY <1>1, <1>2, <1>3 DEF IInv, TypeOK

\* What serviceDeathLink does to the machine.
LEMMA ServiceKeepsIInv ==
    ASSUME IInv, NEW found \in BOOLEAN, ServiceDeathLink(found),
           UNCHANGED <<now, countVars, deathVars, stage, scene_tick, inbound>>,
           hook' \in TickHooks
    PROVE  IInv'
<1> USE DEF IInv, TypeOK
<1>0. DyingInNerve'  BY DEF DyingInNerve, TickHooks
<1>1. /\ live_base_tick' \in Nat /\ session_start' \in Nat
      BY DEF Times, ServiceDeathLink, RefreshLive, liveVars
<1>2. CASE FirePending
  <2>1. Times'
        BY <1>1, <1>2, TicksNat
        DEF Times, FirePending, OpenWindow, FireSynthKill, countVars, deathVars
  <2>2. Flags'
        BY <1>2
        DEF Flags, FirePending, OpenWindow, FireSynthKill, deathVars
  <2>3. Licences'
        BY <1>1, <1>2, TicksNat
        DEF Times, Licences, Urgent, FirePending, PendingFires, KillableAt,
            OpenWindow, countVars
  <2>4. Credits'
        BY <1>2, TicksNat
        DEF Times, Credits, Armed, Parked, FirePending, PendingFires,
            countVars, deathVars
  <2>5. Deadlines' /\ WindowInRun'
        BY <1>2, TicksNat
        DEF Times, Deadlines, WindowInRun, FirePending, PendingFires,
            OpenWindow, countVars
  <2>6. QED  BY <1>0, <2>1, <2>2, <2>3, <2>4, <2>5
<1>3. CASE KeepPending /\ ServiceWindow(found)
  <2>1. /\ pending_deadline' \in {0, pending_deadline}
        /\ pending_deadline' # 0 => pending_immediate' = pending_immediate
        BY <1>3 DEF KeepPending, pendingVars
  <2>2. kill_deadline' \in {0, kill_deadline} /\ bypasses' = bypasses
        BY <1>3 DEF ServiceWindow, WindowLeft
  <2>3. UNCHANGED writeVars \/ (kill_deadline' # 0 /\ FireSynthKill)
        BY <1>3 DEF ServiceWindow
  <2>4. kill_deadline' # 0 => in_run' = in_run
        BY <1>3 DEF Times, Flags, ServiceWindow, WindowLeft
  <2>5. Times'
        BY <1>1, <2>1, <2>2, <2>3, TicksNat
        DEF Times, FireSynthKill, writeVars, countVars, deathVars
  <2>6. Flags'
    <3>1. pending_immediate' \in BOOLEAN
          BY <1>3 DEF Flags, KeepPending, pendingVars
    <3>2. in_run' \in BOOLEAN /\ in_session' \in BOOLEAN
          BY <1>3 DEF Flags, ServiceWindow
    <3>3. hp_zero' \in BOOLEAN /\ edge_latch' \in BOOLEAN
          BY <2>3 DEF Flags, FireSynthKill, writeVars
    <3>4. QED  BY <3>1, <3>2, <3>3 DEF Flags, deathVars
  <2>7. Licences'
        BY <2>1, <2>2 DEF Times, Licences, Urgent, countVars
  <2>8. Credits'
        BY <2>1, <2>2, <2>3
        DEF Times, Credits, Armed, Parked, writeVars, countVars, deathVars
  <2>9. Deadlines' /\ WindowInRun'
        BY <2>1, <2>2, <2>4 DEF Times, Deadlines, WindowInRun, countVars
  <2>10. QED  BY <1>0, <2>5, <2>6, <2>7, <2>8, <2>9
<1>4. QED  BY <1>2, <1>3 DEF ServiceDeathLink

\* What synthKill and requestPendingDeathLink do, with the Kill message's
\* credit taken.
LEMMA HandleKillKeepsIInv ==
    ASSUME IInv, NEW immediate \in BOOLEAN, HandleKill(immediate),
           kills' = kills + 1,
           gates' = IF immediate THEN gates + 1 ELSE gates,
           last_kill' = now,
           last_gate' \in Nat,
           inbound' \in Seq(BOOLEAN),
           UNCHANGED <<now, liveVars, deathVars, threadVars, scene_tick>>
    PROVE  IInv'
<1> USE DEF IInv, TypeOK
<1>0. DyingInNerve'  BY DEF DyingInNerve, deathVars, threadVars
<1>1. CASE KillableAt(live_base_tick, session_start, immediate)
  <2>1. OpenWindow(session_start) /\ FireSynthKill /\ UNCHANGED pendingVars
        BY <1>1 DEF HandleKill
  <2>2. Times'
        BY <2>1, TicksNat
        DEF Times, OpenWindow, FireSynthKill, pendingVars, liveVars, deathVars
  <2>3. Flags'
        BY <2>1
        DEF Flags, OpenWindow, FireSynthKill, pendingVars, deathVars,
            threadVars
  <2>4. Licences'
        BY <1>1, <2>1
        DEF Times, Licences, Urgent, KillableAt, OpenWindow, pendingVars
  <2>5. Credits'
        BY <2>1, TicksNat
        DEF Times, Credits, Armed, Parked, pendingVars, deathVars
  <2>6. Deadlines' /\ WindowInRun'
    <3>1. pending_deadline' # 0 => pending_deadline' <= last_kill' + TtlTicks
          BY <2>1, TicksNat DEF Times, Deadlines, pendingVars
    <3>2. QED  BY <2>1, <3>1, TicksNat
               DEF Times, Deadlines, WindowInRun, OpenWindow
  <2>7. QED  BY <1>0, <2>2, <2>3, <2>4, <2>5, <2>6
<1>2. CASE ~KillableAt(live_base_tick, session_start, immediate)
  <2>1. /\ pending_deadline' = now + TtlTicks
        /\ pending_immediate' =
              (immediate \/ (pending_deadline # 0 /\ pending_immediate))
        /\ UNCHANGED <<windowVars, writeVars>>
        BY <1>2 DEF HandleKill
  <2>2. Times'
        BY <2>1, TicksNat
        DEF Times, windowVars, writeVars, liveVars, deathVars
  <2>3. Flags'
        BY <2>1 DEF Flags, windowVars, writeVars, deathVars, threadVars
  <2>4. Licences'
        BY <2>1 DEF Times, Licences, Urgent, windowVars
  <2>5. Credits'
        BY <2>1 DEF Times, Credits, Armed, Parked, windowVars, writeVars,
                    deathVars
  <2>6. Deadlines' /\ WindowInRun'
        BY <2>1, TicksNat DEF Times, Deadlines, WindowInRun, windowVars
  <2>7. QED  BY <1>0, <2>2, <2>3, <2>4, <2>5, <2>6
<1>3. QED  BY <1>1, <1>2

\* A step that leaves the kill state alone keeps the credits.
creditVars == <<pending_deadline, pending_immediate, kill_deadline,
                guard_deadline, bypasses, in_run, kills, gates, swallowed,
                last_kill>>

\* Who holds what depends on these variables and the clock alone.
LEMMA FrameKeepsCredits ==
    ASSUME IInv, UNCHANGED creditVars, now' \in Nat, now <= now'
    PROVE  Licences' /\ Credits' /\ Deadlines' /\ WindowInRun'
<1>1. Licences' /\ WindowInRun'
      BY DEF IInv, Licences, Urgent, WindowInRun, creditVars
<1>2. Credits'
      BY DEF IInv, Credits, Armed, Parked, creditVars
<1>3. Deadlines'
      BY TicksNat DEF IInv, TypeOK, Times, Deadlines, creditVars
<1>4. QED  BY <1>1, <1>2, <1>3

-----------------------------------------------------------------------------
\* The invariant is inductive.
LEMMA NextIInv == IInv /\ [Next]_vars => IInv'
<1> SUFFICES ASSUME IInv, [Next]_vars PROVE IInv'  OBVIOUS
<1> USE DEF IInv, TypeOK, liveVars, pendingVars, writeVars, windowVars,
            killVars, countVars, deathVars, threadVars
<1>1. ASSUME NEW found \in BOOLEAN, PlayerTick(found) PROVE IInv'
  <2>1. hook' \in TickHooks  BY <1>1 DEF PlayerTick, TickHooks
  <2>2. QED  BY <1>1, <2>1, ServiceKeepsIInv DEF PlayerTick
<1>2. ASSUME NEW kind \in NerveHooks, NerveActivate(kind) PROVE IInv'
  <2>1. Times'  BY <1>2 DEF NerveActivate, Times
  <2>2. Flags'  BY <1>2 DEF NerveActivate, Flags
  <2>3. DyingInNerve'  BY <1>2 DEF NerveActivate, DyingInNerve, Flags
  <2>4. UNCHANGED creditVars /\ now' \in Nat /\ now <= now'
        BY <1>2 DEF NerveActivate, Times, creditVars
  <2>5. QED  BY <2>1, <2>2, <2>3, <2>4, FrameKeepsCredits
<1>3. ASSUME DrainKill PROVE IInv'
  <2>1. inbound # <<>> /\ inbound \in Seq(BOOLEAN)
        BY <1>3 DEF DrainKill, Flags
  <2>2. Head(inbound) \in BOOLEAN /\ inbound' \in Seq(BOOLEAN)
        BY <1>3, <2>1, HeadTailProperties DEF DrainKill
  <2>3. last_gate' \in Nat
        BY <1>3 DEF DrainKill, Times
  <2>4. QED  BY <1>3, <2>2, <2>3, HandleKillKeepsIInv DEF DrainKill
<1>4. ASSUME DrainDone PROVE IInv'
  <2>1. Times'  BY <1>4 DEF DrainDone, Times
  <2>2. Flags'  BY <1>4 DEF DrainDone, Flags
  <2>3. DyingInNerve'  BY <1>4 DEF DrainDone, DyingInNerve
  <2>4. UNCHANGED creditVars /\ now' \in Nat /\ now <= now'
        BY <1>4 DEF DrainDone, Times, creditVars
  <2>5. QED  BY <2>1, <2>2, <2>3, <2>4, FrameKeepsCredits
<1>5. ASSUME PlayerTickBody PROVE IInv'
  <2>1. Times'  BY <1>5 DEF PlayerTickBody, Times
  <2>2. Flags'
    <3>1. life' \in Causes \cup {"alive"} /\ edge_latch' \in BOOLEAN
          BY <1>5 DEF PlayerTickBody, HpCheck, Flags, Causes
    <3>2. QED  BY <1>5, <3>1 DEF PlayerTickBody, Return, Flags
  <2>3. DyingInNerve'  BY <1>5 DEF PlayerTickBody, Return, DyingInNerve
  <2>4. UNCHANGED creditVars /\ now' \in Nat /\ now <= now'
        BY <1>5 DEF PlayerTickBody, Times, creditVars
  <2>5. QED  BY <2>1, <2>2, <2>3, <2>4, FrameKeepsCredits
<1>6. ASSUME DeathNerveBody PROVE IInv'
  <2>1. Times'  BY <1>6 DEF DeathNerveBody, ConsumeSyntheticDeath, Times
  <2>2. Flags'
    <3>1. life \in Causes
          BY <1>6 DEF DeathNerveBody, DyingInNerve
    <3>2. reports' \subseteq Causes
          BY <1>6, <3>1 DEF DeathNerveBody, Flags
    <3>3. QED  BY <1>6, <3>2 DEF DeathNerveBody, Return, Flags
  <2>3. DyingInNerve'
        BY <1>6 DEF DeathNerveBody, Return, DyingInNerve
  <2>4. Licences' /\ WindowInRun'
        BY <1>6 DEF DeathNerveBody, ConsumeSyntheticDeath, Licences, Urgent, WindowInRun
  <2>5. Deadlines'
        BY <1>6, TicksNat DEF DeathNerveBody, ConsumeSyntheticDeath, Times, Deadlines
  <2>6. Credits'
        BY <1>6
        DEF DeathNerveBody, ConsumeSyntheticDeath, Times, GuardArmed, Credits,
            Armed, Parked
  <2>7. QED  BY <2>1, <2>2, <2>3, <2>4, <2>5, <2>6
<1>7. ASSUME OtherNerveBody PROVE IInv'
  <2>1. Times'  BY <1>7 DEF OtherNerveBody, Times
  <2>2. Flags'  BY <1>7 DEF OtherNerveBody, Return, Flags
  <2>3. DyingInNerve'  BY <1>7 DEF OtherNerveBody, Return, DyingInNerve
  <2>4. UNCHANGED creditVars /\ now' \in Nat /\ now <= now'
        BY <1>7 DEF OtherNerveBody, Times, creditVars
  <2>5. QED  BY <2>1, <2>2, <2>3, <2>4, FrameKeepsCredits
<1>8. ASSUME NEW immediate \in BOOLEAN, ReceiveKill(immediate) PROVE IInv'
  <2>1. Times'  BY <1>8 DEF ReceiveKill, Times
  <2>2. Flags'
    <3>1. inbound' \in Seq(BOOLEAN)  BY <1>8 DEF ReceiveKill, Flags
    <3>2. QED  BY <1>8, <3>1 DEF ReceiveKill, Flags
  <2>3. DyingInNerve'  BY <1>8 DEF ReceiveKill, DyingInNerve
  <2>4. UNCHANGED creditVars /\ now' \in Nat /\ now <= now'
        BY <1>8 DEF ReceiveKill, Times, creditVars
  <2>5. QED  BY <2>1, <2>2, <2>3, <2>4, FrameKeepsCredits
<1>9. ASSUME SceneLoad PROVE IInv'
  <2>1. Times'  BY <1>9 DEF SceneLoad, Times
  <2>2. Flags'  BY <1>9 DEF SceneLoad, Flags
  <2>3. DyingInNerve'  BY <1>9 DEF SceneLoad, DyingInNerve
  <2>4. UNCHANGED creditVars /\ now' \in Nat /\ now <= now'
        BY <1>9 DEF SceneLoad, Times, creditVars
  <2>5. QED  BY <2>1, <2>2, <2>3, <2>4, FrameKeepsCredits
<1>10. ASSUME Tick PROVE IInv'
  <2>1. Times'  BY <1>10 DEF Tick, Times
  <2>2. Flags'  BY <1>10 DEF Tick, Flags
  <2>3. DyingInNerve'  BY <1>10 DEF Tick, DyingInNerve
  <2>4. UNCHANGED creditVars /\ now' \in Nat /\ now <= now'
        BY <1>10 DEF Tick, Times, creditVars
  <2>5. QED  BY <2>1, <2>2, <2>3, <2>4, FrameKeepsCredits
<1>11. ASSUME UNCHANGED vars PROVE IInv'
  <2>1. Times'  BY <1>11 DEF vars, Times
  <2>2. Flags'  BY <1>11 DEF vars, Flags
  <2>3. DyingInNerve'  BY <1>11 DEF vars, DyingInNerve
  <2>4. UNCHANGED creditVars /\ now' \in Nat /\ now <= now'
        BY <1>11 DEF vars, Times, creditVars
  <2>5. QED  BY <2>1, <2>2, <2>3, <2>4, FrameKeepsCredits
<1>12. QED
       BY <1>1, <1>2, <1>3, <1>4, <1>5, <1>6, <1>7, <1>8, <1>9, <1>10, <1>11
       DEF Next

\* The credits, the licences, the deadlines and the types hold throughout.
THEOREM Invariance == Spec => []IInv
BY InitIInv, NextIInv, PTL DEF Spec

\* Type correctness of the synthetic-kill machine.
THEOREM TypeCorrect == Spec => []TypeOK
<1>1. IInv => TypeOK  BY DEF IInv
<1>2. QED  BY <1>1, Invariance, PTL

\* However DeathLinks and gate kills overlap in the one pending slot, a kill
\* window on an unsettled session is always paid for by a gate kill.
THEOREM BypassesAreOwed == Spec => []BypassesOwedToGates
<1>1. IInv => BypassesOwedToGates
      BY DEF IInv, TypeOK, Times, Licences, Urgent, BypassesOwedToGates
<1>2. QED  BY <1>1, Invariance, PTL

\* However often HP is rewritten, a Kill message swallows one death at most.
THEOREM DeathsAreOwed == Spec => []OneDeathPerKill
<1>1. IInv => OneDeathPerKill
      BY DEF IInv, TypeOK, Times, Credits, Armed, Parked, OneDeathPerKill
<1>2. QED  BY <1>1, Invariance, PTL

-----------------------------------------------------------------------------
\* The three operators that write HP, and what the write relies on.
LEMMA WriteNeedsKill ==
    ASSUME IInv, [Next]_vars, guard_deadline' \notin {0, guard_deadline}
    PROVE  now <= last_kill' + TtlTicks + WindowTicks /\ in_run'
<1> USE DEF IInv, TypeOK, writeVars, windowVars, killVars, countVars
<1>1. CASE DrainKill
  <2>1. KillableAt(live_base_tick, session_start, Head(inbound))
        BY <1>1 DEF DrainKill, HandleKill
  <2>2. in_run' /\ last_kill' = now
        BY <1>1, <2>1 DEF DrainKill, HandleKill, OpenWindow
  <2>3. QED  BY <2>2, TicksNat DEF Times
<1>2. CASE \E found \in BOOLEAN : PlayerTick(found)
  <2>1. PICK found \in BOOLEAN : PlayerTick(found)  BY <1>2
  <2>2. last_kill' = last_kill  BY <2>1 DEF PlayerTick
  <2>3. CASE FirePending
    <3>1. in_run'  BY <2>3 DEF FirePending, OpenWindow
    <3>2. pending_deadline # 0 /\ now <= pending_deadline
          BY <2>3 DEF FirePending, PendingFires
    <3>3. QED  BY <2>2, <3>1, <3>2, TicksNat DEF Times, Deadlines
  <2>4. CASE ServiceWindow(found)
    <3>1. /\ kill_deadline # 0 /\ now <= kill_deadline
          /\ in_run' = in_run
          BY <2>4 DEF ServiceWindow, WindowLeft, Flags
    <3>2. QED  BY <2>2, <3>1, TicksNat DEF Times, Deadlines, WindowInRun
  <2>5. QED  BY <2>1, <2>3, <2>4 DEF PlayerTick, ServiceDeathLink
<1>3. QED
  <2>1. \/ DrainKill
        \/ \E found \in BOOLEAN : PlayerTick(found)
        \/ guard_deadline' \in {0, guard_deadline}
        BY DEF Next, vars, NerveActivate, DrainDone, PlayerTickBody,
               DeathNerveBody, ConsumeSyntheticDeath, OtherNerveBody, ReceiveKill, SceneLoad, Tick
  <2>2. QED  BY <1>1, <1>2, <2>1

\* Whatever re-arms the pending slot and however the game pauses, HP is not
\* written later than a pending TTL and a window after the last Kill message.
THEOREM KillsGoStale == Spec => NoStaleKill
<1>1. IInv /\ [Next]_vars =>
        (guard_deadline' \notin {0, guard_deadline}
           => now <= last_kill' + TtlTicks + WindowTicks)
      BY WriteNeedsKill
<1>2. QED  BY <1>1, Invariance, PTL DEF Spec, NoStaleKill

\* HP is written only in the run of player ticks in which the kill window was
\* opened: step 1 of the service closes the window before step 3 could write.
THEOREM WritesStayInRun == Spec => WriteWithinRun
<1>1. IInv /\ [Next]_vars =>
        (guard_deadline' \notin {0, guard_deadline} => in_run')
      BY WriteNeedsKill
<1>2. QED  BY <1>1, Invariance, PTL DEF Spec, WriteWithinRun

\* A gate kill that waits is never demoted: a DeathLink that re-arms the slot
\* leaves its urgency, and an expiry takes the kill with it.
THEOREM UrgencyIsKept == Spec => UrgencyKept
<1>1. ASSUME [Next]_vars, pending_deadline # 0, pending_immediate,
             pending_deadline' # 0
      PROVE  pending_immediate'
  <2>1. CASE DrainKill
        BY <1>1, <2>1 DEF DrainKill, HandleKill, pendingVars
  <2>2. CASE \E found \in BOOLEAN : PlayerTick(found)
        BY <1>1, <2>2 DEF PlayerTick, ServiceDeathLink, FirePending,
                          KeepPending, pendingVars
  <2>3. CASE UNCHANGED pendingVars
        BY <1>1, <2>3 DEF pendingVars
  <2>4. QED
    <3>1. DrainKill \/ (\E found \in BOOLEAN : PlayerTick(found))
            \/ UNCHANGED pendingVars
          BY <1>1 DEF Next, vars, killVars, NerveActivate, DrainDone,
                      PlayerTickBody, DeathNerveBody, ConsumeSyntheticDeath, OtherNerveBody,
                      ReceiveKill, SceneLoad, Tick
    <3>2. QED  BY <2>1, <2>2, <2>3, <3>1
<1>2. QED  BY <1>1, PTL DEF Spec, UrgencyKept

-----------------------------------------------------------------------------
(***************************************************************************)
(* The echo guard.  An HP of 0 that the death edge has not seen is one the *)
(* machine wrote, with the guard's deadline, after the last player tick    *)
(* that found the struct.  The next such tick comes within FreshTicks, or  *)
(* after a gap, in which without pauses the scene was loaded anew: so the  *)
(* guard still stands when the death is requested, and time stands still   *)
(* until its Nerve.  The code's constants are 0.5 s and 1 s.               *)
(***************************************************************************)
\* The write that the next found tick will see is still under guard.
Guarded ==
    (life = "alive" /\ hp_zero /\ ~edge_latch) =>
        /\ guard_deadline # 0
        /\ IF hook = "tick" THEN now <= guard_deadline
                            ELSE live_base_tick + GuardTicks <= guard_deadline

\* A synthetic death that awaits its Nerve is under guard.
DeathGuarded == life = "synthetic" => GuardArmed

EchoInv ==
    /\ IInv
    /\ live_base_tick <= now
    /\ Guarded
    /\ DeathGuarded
    /\ NoEcho

\* A write arms the guard until GuardTicks from now, whatever was there.
LEMMA FireGuards ==
    ASSUME EchoInv, FireSynthKill, UNCHANGED <<now, life>>,
           live_base_tick' \in Nat, live_base_tick' <= now
    PROVE  Guarded' /\ DeathGuarded'
<1>1. /\ now \in Nat /\ 0 < now /\ now' = now /\ GuardTicks \in Nat
      /\ guard_deadline' = now + GuardTicks
      BY TicksNat DEF EchoInv, IInv, TypeOK, Times, FireSynthKill
<1>2. \A n, g, b \in Nat :
         (0 < n /\ b <= n) => (n + g # 0 /\ n <= n + g /\ b + g <= n + g)
      OBVIOUS
<1>3. /\ guard_deadline' # 0 /\ now' <= guard_deadline'
      /\ live_base_tick' + GuardTicks <= guard_deadline'
      BY <1>1, <1>2
<1>4. QED  BY <1>3 DEF Guarded, DeathGuarded, GuardArmed

\* The player tick refreshes the base only after a pause so short that the
\* guard of an earlier write has not run out.
LEMMA TickGuards ==
    ASSUME EchoInv, Pausing = FALSE, FreshTicks <= GuardTicks,
           NEW found \in BOOLEAN, PlayerTick(found)
    PROVE  Guarded' /\ DeathGuarded' /\ live_base_tick' <= now'
<1> USE TicksNat DEF EchoInv, IInv, TypeOK
<1>1. /\ now' = now /\ life' = life
      /\ live_base_tick' = IF found THEN now ELSE live_base_tick
      /\ hook' = IF found THEN "tick" ELSE "null_tick"
      BY DEF PlayerTick, ServiceDeathLink, RefreshLive, liveVars, deathVars
<1>2. live_base_tick' \in Nat /\ live_base_tick' <= now  BY <1>1 DEF Times
<1>3. CASE FireSynthKill  BY <1>1, <1>2, <1>3, FireGuards
<1>4. CASE UNCHANGED writeVars
  <2>1. DeathGuarded'  BY <1>1, <1>4 DEF DeathGuarded, GuardArmed, writeVars
  <2>2. ASSUME life = "alive", hp_zero, ~edge_latch
        PROVE  /\ guard_deadline # 0
               /\ IF found THEN now <= guard_deadline
                           ELSE live_base_tick + GuardTicks <= guard_deadline
    <3>1. guard_deadline # 0 /\ live_base_tick + GuardTicks <= guard_deadline
          BY <2>2 DEF Guarded, PlayerTick
    <3>2. found => ~TickGap  BY <2>2 DEF PlayerTick
    <3>3. QED  BY <3>1, <3>2 DEF Times, TickGap
  <2>3. Guarded'  BY <1>1, <1>4, <2>2 DEF Guarded, writeVars
  <2>4. QED  BY <1>1, <1>2, <2>1, <2>3
<1>5. QED  BY <1>2, <1>3, <1>4
           DEF PlayerTick, ServiceDeathLink, FirePending, ServiceWindow

\* The guard is inductive, given that the game does not pause.
LEMMA NextEchoInv ==
    ASSUME Pausing = FALSE, FreshTicks <= GuardTicks, EchoInv, [Next]_vars
    PROVE  EchoInv'
<1> USE DEF liveVars, pendingVars, writeVars, windowVars, killVars, countVars,
            deathVars, threadVars
<1>1. IInv /\ IInv'  BY NextIInv DEF EchoInv
<1>2. ASSUME NEW found \in BOOLEAN, PlayerTick(found) PROVE EchoInv'
  <2>1. NoEcho'  BY <1>2 DEF EchoInv, PlayerTick, NoEcho
  <2>2. QED  BY <1>1, <1>2, <2>1, TickGuards DEF EchoInv
<1>3. ASSUME DrainKill PROVE EchoInv'
  <2>1. /\ NoEcho' /\ live_base_tick' <= now' /\ live_base_tick' \in Nat
        /\ UNCHANGED <<now, life, live_base_tick, hook>>
        BY <1>1, <1>3 DEF DrainKill, EchoInv, NoEcho, IInv, TypeOK, Times
  <2>2. FireSynthKill \/ UNCHANGED writeVars
        BY <1>3 DEF DrainKill, HandleKill
  <2>3. CASE UNCHANGED writeVars
        BY <1>1, <2>1, <2>3 DEF EchoInv, Guarded, DeathGuarded, GuardArmed
  <2>4. QED  BY <1>1, <2>1, <2>2, <2>3, FireGuards DEF EchoInv
<1>4. ASSUME PlayerTickBody PROVE EchoInv'
  <2>1. /\ hook \in TickHooks /\ hook' = "none"
        /\ UNCHANGED <<now, live_base_tick, hp_zero, guard_deadline, reports>>
        BY <1>4 DEF PlayerTickBody, Return
  <2>2. DeathGuarded'
    <3>1. ASSUME life' = "synthetic", life = "alive"
          PROVE  GuardArmed
          BY <1>4, <3>1, TicksNat
          DEF PlayerTickBody, HpCheck, EchoInv, Guarded, GuardArmed, IInv, TypeOK, Flags
    <3>2. life' = "synthetic" => life \in {"alive", "synthetic"}
          BY <1>4 DEF PlayerTickBody, HpCheck
    <3>3. QED  BY <2>1, <3>1, <3>2 DEF EchoInv, DeathGuarded, GuardArmed
  <2>3. Guarded'
    <3>1. ASSUME life' = "alive", hp_zero, ~edge_latch'
          PROVE  hook = "null_tick" /\ life = "alive" /\ ~edge_latch
          BY <1>1, <1>4, <3>1 DEF PlayerTickBody, HpCheck, IInv, TypeOK, Flags
    <3>2. QED  BY <2>1, <3>1 DEF EchoInv, Guarded
  <2>4. QED  BY <1>1, <2>1, <2>2, <2>3 DEF EchoInv, NoEcho
<1>5. ASSUME DeathNerveBody PROVE EchoInv'
  <2>1. reports' \subseteq reports \cup ({life} \ {"synthetic"})
        BY <1>5 DEF DeathNerveBody, EchoInv, DeathGuarded
  <2>2. life' = "alive" /\ ~hp_zero' /\ UNCHANGED <<now, live_base_tick>>
        BY <1>5 DEF DeathNerveBody
  <2>3. QED  BY <1>1, <2>1, <2>2 DEF EchoInv, NoEcho, Guarded, DeathGuarded
<1>6. ASSUME UNCHANGED <<live_base_tick, guard_deadline, life, reports>>,
             UNCHANGED <<hp_zero, edge_latch>> \/ ~hp_zero',
             hook' = "tick" <=> hook = "tick",
             now' = now \/ (life = "alive" /\ now' = now + 1 /\ hook = "none")
      PROVE  EchoInv'
  <2>1. NoEcho' /\ live_base_tick' <= now'
        BY <1>1, <1>6 DEF EchoInv, NoEcho, IInv, TypeOK, Times
  <2>2. Guarded'
    <3>1. CASE UNCHANGED <<hp_zero, edge_latch>>
      <4>1. CASE hook = "tick"  BY <1>6, <3>1, <4>1 DEF EchoInv, Guarded
      <4>2. CASE hook # "tick"  BY <1>6, <3>1, <4>2 DEF EchoInv, Guarded
      <4>3. QED  BY <4>1, <4>2
    <3>2. CASE ~hp_zero'  BY <3>2 DEF Guarded
    <3>3. QED  BY <1>6, <3>1, <3>2
  <2>3. DeathGuarded'  BY <1>6 DEF EchoInv, DeathGuarded, GuardArmed
  <2>4. QED  BY <1>1, <2>1, <2>2, <2>3 DEF EchoInv
<1>7. ASSUME NEW kind \in NerveHooks, NerveActivate(kind) PROVE EchoInv'
      BY <1>6, <1>7 DEF NerveActivate, NerveHooks
<1>8. ASSUME DrainDone \/ OtherNerveBody \/ Tick \/ UNCHANGED vars PROVE EchoInv'
      BY <1>6, <1>8 DEF DrainDone, OtherNerveBody, Tick, Return, vars
<1>9. ASSUME (\E immediate \in BOOLEAN : ReceiveKill(immediate)) \/ SceneLoad PROVE EchoInv'
      BY <1>6, <1>9 DEF ReceiveKill, SceneLoad
<1>10. QED  BY <1>2, <1>3, <1>4, <1>5, <1>7, <1>8, <1>9 DEF Next

\* A synthetic death is never reported as the player's own, as long as the
\* player tick does not pause without a scene load and the guard outlives the
\* freshness window, as the code's does (DeathLink.cpp:125-131, 188-192).
THEOREM NothingIsEchoed ==
    ASSUME Pausing = FALSE, FreshTicks <= GuardTicks
    PROVE  Spec => []NoEcho
<1>1. Init => EchoInv
      BY InitIInv DEF Init, EchoInv, Guarded, DeathGuarded, NoEcho
<1>2. EchoInv /\ [Next]_vars => EchoInv'  BY NextEchoInv
<1>3. EchoInv => NoEcho  BY DEF EchoInv
<1>4. QED  BY <1>1, <1>2, <1>3, PTL DEF Spec

-----------------------------------------------------------------------------
(***************************************************************************)
(* The ring is a bounded queue, for every size, every set of consumers and *)
(* every number of pushes, as long as no pop lasts until the ring has gone *)
(* once around (~Lapping).                                                 *)
(*                                                                         *)
(* The two indices of the code forget how often they wrapped.  The proof   *)
(* remembers: the i-th element lives in slot (i - 1) % N, head_ is the     *)
(* count of pushes and tail_ the count of deliveries, both modulo N, and   *)
(* a consumer's t is the count from[c] of deliveries it saw, modulo N.     *)
(* A compare-and-swap compares the remainders; what makes it compare the   *)
(* counts is that they are never N apart.                                  *)
(***************************************************************************)

-----------------------------------------------------------------------------
(* Remainders. *)

\* Division with remainder.
LEMMA DivMod ==
    ASSUME NEW n \in Nat \ {0}, NEW i \in Nat
    PROVE  i % n \in 0..(n - 1) /\ i \div n \in Nat /\ i = n * (i \div n) + (i % n)
OBVIOUS

\* It is unique.
LEMMA ModOf ==
    ASSUME NEW n \in Nat \ {0}, NEW q \in Nat, NEW r \in 0..(n - 1)
    PROVE  (n * q + r) % n = r
<1> DEFINE i == n * q + r
           p == i \div n
           s == i % n
<1>1. i \in Nat  OBVIOUS
<1>2. p \in Nat /\ s \in 0..(n - 1) /\ i = n * p + s  BY <1>1, DivMod
<1> HIDE DEF p, s
<1>3. ~(q >= p + 1)
  <2>1. q >= p + 1 => n * q >= n * p + n  BY <1>2
  <2>2. QED  BY <1>2, <2>1
<1>4. ~(p >= q + 1)
  <2>1. p >= q + 1 => n * p >= n * q + n  BY <1>2
  <2>2. QED  BY <1>2, <2>1
<1>5. p = q  BY <1>2, <1>3, <1>4
<1>6. QED  BY <1>2, <1>5 DEF s

\* The remainder of d more, for less than one turn.
LEMMA ModPlus ==
    ASSUME NEW n \in Nat \ {0}, NEW i \in Nat, NEW d \in 0..(n - 1)
    PROVE  (i + d) % n = IF (i % n) + d < n THEN (i % n) + d ELSE (i % n) + d - n
<1> DEFINE p == i \div n
           s == i % n
<1>1. p \in Nat /\ s \in 0..(n - 1) /\ i = n * p + s  BY DivMod
<1> HIDE DEF p, s
<1>2. CASE s + d < n
  <2>1. s + d \in 0..(n - 1)  BY <1>1, <1>2
  <2>2. (n * p + (s + d)) % n = s + d  BY <1>1, <2>1, ModOf
  <2>3. i + d = n * p + (s + d)  BY <1>1
  <2>4. QED  BY <1>2, <2>2, <2>3 DEF s
<1>3. CASE ~(s + d < n)
  <2>1. s + d - n \in 0..(n - 1) /\ p + 1 \in Nat  BY <1>1, <1>3
  <2>2. (n * (p + 1) + (s + d - n)) % n = s + d - n  BY <2>1, ModOf
  <2>3. i + d = n * (p + 1) + (s + d - n)  BY <1>1
  <2>4. QED  BY <1>3, <2>2, <2>3 DEF s
<1>4. QED  BY <1>2, <1>3

\* A number below n is its own remainder.
LEMMA ModSmall ==
    ASSUME NEW n \in Nat \ {0}, NEW i \in 0..(n - 1)
    PROVE  i % n = i
OBVIOUS

\* Two counts less than n apart have one remainder only if they are equal.
LEMMA ModDiffers ==
    ASSUME NEW n \in Nat \ {0}, NEW i \in Nat, NEW j \in Nat,
           i <= j, j < i + n, i % n = j % n
    PROVE  i = j
<1>1. j - i \in 0..(n - 1) /\ i + (j - i) = j  OBVIOUS
<1>2. j % n = IF (i % n) + (j - i) < n THEN (i % n) + (j - i)
                                     ELSE (i % n) + (j - i) - n
      BY <1>1, ModPlus
<1>3. i % n \in 0..(n - 1)  BY DivMod
<1>4. QED  BY <1>1, <1>2, <1>3

\* One whole turn leaves the remainder.
LEMMA ModTurn ==
    ASSUME NEW n \in Nat \ {0}, NEW i \in Nat
    PROVE  (i + n) % n = i % n
<1> DEFINE p == i \div n
           s == i % n
<1>1. p \in Nat /\ s \in 0..(n - 1) /\ i = n * p + s  BY DivMod
<1> HIDE DEF p, s
<1>2. (n * (p + 1) + s) % n = s  BY <1>1, ModOf
<1>3. i + n = n * (p + 1) + s  BY <1>1
<1>4. QED  BY <1>2, <1>3 DEF s

\* A remainder may be taken early.
LEMMA ModShift ==
    ASSUME NEW n \in Nat \ {0}, NEW i \in Nat, NEW d \in 0..(n - 1)
    PROVE  ((i % n) + d) % n = (i + d) % n
<1>1. i % n \in 0..(n - 1)  BY DivMod
<1>2. (i + d) % n = IF (i % n) + d < n THEN (i % n) + d ELSE (i % n) + d - n
      BY ModPlus
<1>3. CASE (i % n) + d < n
  <2>1. (i % n) + d \in 0..(n - 1)  BY <1>1, <1>3
  <2>2. QED  BY <1>2, <1>3, <2>1, ModSmall
<1>4. CASE ~((i % n) + d < n)
  <2>1. (i % n) + d - n \in 0..(n - 1) /\ (i % n) + d - n \in Nat
        BY <1>1, <1>4
  <2>2. ((i % n) + d - n) % n = (i % n) + d - n  BY <2>1, ModSmall
  <2>3. (((i % n) + d - n) + n) % n = ((i % n) + d - n) % n  BY <2>1, ModTurn
  <2>4. ((i % n) + d - n) + n = (i % n) + d  BY <1>1
  <2>5. QED  BY <1>2, <1>4, <2>2, <2>3, <2>4
<1>5. QED  BY <1>3, <1>4

\* The next slot of a count's slot is the slot of the next count.
LEMMA NextSlot ==
    ASSUME NEW i \in Nat
    PROVE  /\ Next_(i % N) = (i + 1) % N
           /\ i % N \in Slots /\ (i + 1) % N \in Slots
<1>1. N \in Nat \ {0} /\ 1 \in 0..(N - 1)
      BY RingAssumption DEF RingAssumption
<1>2. ((i % N) + 1) % N = (i + 1) % N  BY <1>1, ModShift
<1>3. i % N \in 0..(N - 1) /\ (i + 1) % N \in 0..(N - 1)  BY <1>1, DivMod
<1>4. QED  BY <1>2, <1>3 DEF Next_, Slots

-----------------------------------------------------------------------------
(* The invariant. *)

\* Deliveries so far, and pushes begun so far.
Taken == Len(delivered)
Begun == pushed + (IF push_pc = "idle" THEN 0 ELSE 1)

Cursors == head = pushed % N /\ tail = Taken % N

\* A push begins only with a slot to spare.
Room == Taken <= pushed /\ Begun < Taken + N /\ Begun <= MaxPush

\* Each slot between the cursors holds its element, and a written element is
\* in the slot that the publication will add.
Contents ==
    /\ \A i \in Nat : Taken <= i /\ i < pushed => buf[i % N] = i + 1
    /\ push_pc = "publish" => buf[pushed % N] = pushed + 1

\* What a consumer inside pop() knows: a claim made for count from[c], which
\* is still in the ring or already taken, and if it is the next to be taken,
\* out holds that element.
Claim(c) ==
    /\ t[c] = from[c] % N
    /\ from[c] <= Taken
    /\ Begun < from[c] + N
    /\ pc[c] \in {"read", "cas"} => from[c] < pushed
    /\ pc[c] = "cas" /\ from[c] = Taken => out[c] = Taken + 1

Claims == \A c \in Consumers : pc[c] # "idle" => Claim(c)

RingInv == RingTypeOK /\ Cursors /\ Room /\ Contents /\ Claims /\ InOrder

\* The assumptions on the constants, as the steps use them.
LEMMA Sizes == N \in Nat \ {0} /\ N > 1 /\ MaxPush \in Nat
BY RingAssumption DEF RingAssumption

\* It holds of the empty ring.
LEMMA InitRingInv == RingInit => RingInv
<1> SUFFICES ASSUME RingInit PROVE RingInv  OBVIOUS
<1>1. 0 \in Slots /\ 0 % N = 0  BY Sizes, ModSmall DEF Slots
<1>2. RingTypeOK
  <2>1. delivered \in Seq(0..MaxPush)  BY DEF RingInit
  <2>2. QED  BY <1>1, <2>1, Sizes DEF RingInit, RingTypeOK, Torn
<1>3. Taken = 0 /\ Begun = 0  BY DEF RingInit, Taken, Begun
<1>4. Cursors /\ Room  BY <1>1, <1>3, Sizes DEF RingInit, Cursors, Room
<1>5. Contents /\ Claims /\ InOrder
      BY <1>3 DEF RingInit, Contents, Claims, InOrder
<1>6. QED  BY <1>2, <1>4, <1>5 DEF RingInv

\* A push in progress has room for its element and writes a slot that is not
\* between the cursors.
LEMMA WriteIsOutside ==
    ASSUME RingInv, push_pc # "idle"
    PROVE  /\ pushed + 1 < Taken + N /\ head \in Slots
           /\ \A i \in Nat : Taken <= i /\ i < pushed => i % N # head
<1>1. Taken \in Nat /\ pushed \in Nat /\ head \in Slots
      BY DEF RingInv, RingTypeOK, Taken
<1>2. pushed + 1 < Taken + N  BY DEF RingInv, Room, Begun
<1>3. ASSUME NEW i \in Nat, Taken <= i, i < pushed
      PROVE  i % N # head
  <2>1. i <= pushed /\ pushed < i + N /\ N \in Nat \ {0}
        BY <1>1, <1>2, <1>3, Sizes
  <2>2. i % N = pushed % N => i = pushed  BY <1>1, <2>1, ModDiffers
  <2>3. QED  BY <1>1, <1>3, <2>2 DEF RingInv, Cursors
<1>4. QED  BY <1>1, <1>2, <1>3

\* While nothing but the producer moves, what the consumers know stays.
LEMMA ProducerKeepsClaims ==
    ASSUME RingInv, UNCHANGED consumerVars, pushed' \in Nat, pushed <= pushed',
           Begun' = Begun \/ \A c \in Consumers : pc[c] # "idle" => Begun' < from[c] + N
    PROVE  Claims'
<1>1. Taken' = Taken  BY DEF Taken, consumerVars
<1>2. ASSUME NEW c \in Consumers, pc[c] # "idle"
      PROVE  Claim(c)'
  <2>1. Claim(c)  BY <1>2 DEF RingInv, Claims
  <2>2. from[c] \in Nat /\ pushed \in Nat  BY DEF RingInv, RingTypeOK
  <2>3. QED  BY <1>1, <1>2, <2>1, <2>2 DEF Claim, consumerVars
<1>3. QED  BY <1>2 DEF Claims, consumerVars

\* push() up to its publication.
LEMMA WritingKeepsRingInv ==
    ASSUME Lapping = FALSE, RingInv, PushStart \/ PushWrite \/ PushFinish
    PROVE  RingInv'
<1>1. /\ Taken \in Nat /\ pushed \in Nat /\ pushed \in 0..MaxPush
      /\ head \in Slots /\ tail \in Slots /\ N \in Nat \ {0}
      BY Sizes DEF RingInv, RingTypeOK, Taken
<1>2. /\ UNCHANGED <<head, pushed, consumerVars>> /\ Taken' = Taken
      /\ push_pc' \in {"write", "finish", "publish"}
      BY DEF PushStart, PushWrite, PushFinish, Taken, consumerVars
<1>3. Cursors' /\ InOrder'
      BY <1>2 DEF RingInv, Cursors, InOrder, consumerVars
<1>4. /\ Room'
      /\ Begun' = Begun \/ \A c \in Consumers : pc[c] # "idle" => Begun' < from[c] + N
  <2>1. CASE PushStart
    <3>1. Begun' = pushed + 1  BY <1>2 DEF Begun
    <3>2. Next_(head) = (pushed + 1) % N  BY <1>1, NextSlot DEF RingInv, Cursors
    <3>3. (pushed + 1) % N # Taken % N
          BY <2>1, <3>2 DEF PushStart, RingInv, Cursors
    <3>4. pushed + 1 # Taken + N  BY <1>1, <3>3, ModTurn
    <3>5. pushed < Taken + N /\ Taken <= pushed
          BY <1>1, <2>1 DEF PushStart, RingInv, Room, Begun
    <3>6. Begun' < Taken + N  BY <1>1, <3>1, <3>4, <3>5
    <3>7. \A c \in Consumers : pc[c] # "idle" => Begun' < from[c] + N
          BY <2>1, <3>1 DEF PushStart, MayPush
    <3>8. Begun' <= MaxPush  BY <1>1, <2>1, <3>1, Sizes DEF PushStart
    <3>9. QED  BY <1>2, <3>5, <3>6, <3>7, <3>8 DEF Room
  <2>2. CASE PushWrite \/ PushFinish
    <3>1. push_pc # "idle"  BY <2>2 DEF PushWrite, PushFinish
    <3>2. Begun' = Begun  BY <1>2, <3>1 DEF Begun
    <3>3. QED  BY <1>2, <3>2 DEF RingInv, Room
  <2>3. QED  BY <2>1, <2>2
<1>5. Claims'
      BY <1>1, <1>2, <1>4, ProducerKeepsClaims
<1>6. Contents'
  <2>1. CASE PushStart
        BY <1>2, <2>1 DEF PushStart, RingInv, Contents
  <2>2. CASE PushWrite \/ PushFinish
    <3>1. push_pc # "idle"  BY <2>2 DEF PushWrite, PushFinish
    <3>2. \A i \in Nat : Taken <= i /\ i < pushed => i % N # head
          BY <3>1, WriteIsOutside
    <3>3. \A i \in Nat : Taken <= i /\ i < pushed => buf'[i % N] = buf[i % N]
      <4>1. \A i \in Nat : i % N \in Slots  BY NextSlot
      <4>2. QED  BY <2>2, <3>2, <4>1 DEF PushWrite, PushFinish, RingInv, RingTypeOK
    <3>4. push_pc' = "publish" => buf'[pushed % N] = pushed + 1
          BY <1>1, <2>2 DEF PushWrite, PushFinish, RingInv, RingTypeOK, Cursors
    <3>5. QED  BY <1>2, <3>3, <3>4 DEF RingInv, Contents
  <2>3. QED  BY <2>1, <2>2
<1>7. RingTypeOK'
  <2>1. buf' \in [Slots -> 0..MaxPush]
    <3>1. push_pc = "finish" => pushed + 1 \in 0..MaxPush
          BY <1>1, Sizes DEF RingInv, Room, Begun
    <3>2. /\ buf \in [Slots -> 0..MaxPush] /\ Torn \in 0..MaxPush
          BY Sizes DEF RingInv, RingTypeOK, Torn
    <3>3. \/ buf' = buf \/ buf' = [buf EXCEPT ![head] = Torn]
          \/ push_pc = "finish" /\ buf' = [buf EXCEPT ![head] = pushed + 1]
          BY DEF PushStart, PushWrite, PushFinish
    <3>4. QED  BY <3>1, <3>2, <3>3
  <2>2. QED  BY <1>2, <2>1 DEF RingInv, RingTypeOK, consumerVars
<1>8. QED  BY <1>3, <1>4, <1>5, <1>6, <1>7 DEF RingInv

\* push()'s last access: head_ steps over the element.
LEMMA PublishKeepsRingInv ==
    ASSUME RingInv, PushPublish
    PROVE  RingInv'
<1>1. /\ Taken \in Nat /\ pushed \in Nat
      /\ N \in Nat \ {0} /\ MaxPush \in Nat
      BY Sizes DEF RingInv, RingTypeOK, Taken
<1>2. /\ UNCHANGED <<buf, consumerVars>> /\ Taken' = Taken
      /\ pushed' = pushed + 1 /\ Begun' = Begun /\ Begun = pushed + 1
      BY <1>1 DEF PushPublish, Taken, Begun, consumerVars
<1>3. head' = (pushed + 1) % N /\ head' \in Slots
      BY <1>1, NextSlot DEF PushPublish, RingInv, Cursors
<1>4. Cursors' /\ Room'
      BY <1>1, <1>2, <1>3 DEF RingInv, Cursors, Room, consumerVars
<1>5. Contents'
  <2>1. \A i \in Nat : i < pushed + 1 => i < pushed \/ i = pushed  BY <1>1
  <2>2. push_pc' # "publish"  BY DEF PushPublish
  <2>3. QED  BY <1>1, <1>2, <2>1, <2>2 DEF PushPublish, RingInv, Contents
<1>6. Claims'  BY <1>1, <1>2, ProducerKeepsClaims
<1>7. RingTypeOK'
  <2>1. pushed + 1 \in 0..MaxPush  BY <1>1, <1>2 DEF RingInv, Room
  <2>2. QED  BY <1>2, <1>3, <2>1 DEF PushPublish, RingInv, RingTypeOK, consumerVars
<1>8. QED  BY <1>2, <1>4, <1>5, <1>6, <1>7 DEF RingInv, InOrder, consumerVars

\* The steps of pop() that claim nothing.
LEMMA LookingKeepsRingInv ==
    ASSUME RingInv, NEW c \in Consumers,
           PopStart(c) \/ PopTest(c) \/ PopRead(c) \/ PopLoses(c)
    PROVE  RingInv'
<1>1. /\ Taken \in Nat /\ pushed \in Nat /\ N \in Nat \ {0}
      /\ tail \in Slots /\ t[c] \in Slots /\ from[c] \in Nat
      BY Sizes DEF RingInv, RingTypeOK, Taken
<1>2. /\ UNCHANGED <<tail, delivered, producerVars>>
      /\ Taken' = Taken /\ Begun' = Begun
      BY DEF PopStart, PopTest, PopRead, PopLoses, Taken, Begun, producerVars
<1>3. Cursors' /\ Room' /\ Contents' /\ InOrder'
      BY <1>2 DEF RingInv, Cursors, Room, Contents, InOrder, producerVars
<1>4. RingTypeOK'
  <2>1. /\ pc' \in [Consumers -> {"idle", "empty?", "read", "cas"}]
        /\ t' \in [Consumers -> Slots]
        BY <1>1 DEF PopStart, PopTest, PopRead, PopLoses, RingInv, RingTypeOK
  <2>2. from' \in [Consumers -> Nat]
        BY <1>1 DEF PopStart, PopTest, PopRead, PopLoses, RingInv, RingTypeOK, Taken
  <2>3. out' \in [Consumers -> 0..MaxPush]
        BY <1>1 DEF PopStart, PopTest, PopRead, PopLoses, RingInv, RingTypeOK
  <2>4. QED  BY <1>2, <2>1, <2>2, <2>3 DEF RingInv, RingTypeOK, producerVars
<1>5. ASSUME NEW d \in Consumers, pc'[d] # "idle"
      PROVE  Claim(d)'
  <2>1. CASE d # c
    <3>1. pc'[d] = pc[d] /\ t'[d] = t[d] /\ from'[d] = from[d] /\ out'[d] = out[d]
          BY <2>1 DEF PopStart, PopTest, PopRead, PopLoses, RingInv, RingTypeOK
    <3>2. Claim(d)  BY <1>5, <3>1 DEF RingInv, Claims
    <3>3. QED  BY <1>2, <3>1, <3>2 DEF Claim, producerVars
  <2>2. CASE d = c /\ (PopStart(c) \/ PopLoses(c))
    <3>1. t'[c] = tail /\ from'[c] = Taken /\ pc'[c] = "empty?"
          BY <2>2 DEF PopStart, PopLoses, RingInv, RingTypeOK, Taken
    <3>2. QED  BY <1>1, <1>2, <2>2, <3>1 DEF Claim, RingInv, Cursors, Room
  <2>3. CASE d = c /\ PopTest(c)
    <3>1. /\ t'[c] = t[c] /\ from'[c] = from[c] /\ out'[c] = out[c]
          /\ pc'[c] = IF t[c] = head THEN "idle" ELSE "read"
          BY <2>3 DEF PopTest, RingInv, RingTypeOK
    <3>2. Claim(c)  BY <2>3 DEF RingInv, Claims, PopTest
    <3>3. from[c] # pushed
          BY <1>5, <2>3, <3>1, <3>2 DEF Claim, RingInv, Cursors
    <3>4. from[c] < pushed
          BY <1>1, <3>2, <3>3 DEF Claim, RingInv, Room
    <3>5. pc'[c] = "read"  BY <1>5, <2>3, <3>1
    <3>6. QED  BY <1>2, <2>3, <3>1, <3>2, <3>4, <3>5 DEF Claim, producerVars
  <2>4. CASE d = c /\ PopRead(c)
    <3>1. /\ t'[c] = t[c] /\ from'[c] = from[c] /\ out'[c] = buf[t[c]]
          /\ pc'[c] = "cas" /\ pc[c] = "read"
          BY <2>4 DEF PopRead, RingInv, RingTypeOK
    <3>2. Claim(c) /\ from[c] < pushed  BY <3>1 DEF RingInv, Claims, Claim
    <3>3. from[c] = Taken => buf[t[c]] = Taken + 1
          BY <1>1, <3>2 DEF Claim, RingInv, Contents
    <3>4. QED  BY <1>2, <2>4, <3>1, <3>2, <3>3 DEF Claim, producerVars
  <2>5. QED  BY <2>1, <2>2, <2>3, <2>4
<1>6. QED  BY <1>3, <1>4, <1>5 DEF RingInv, Claims

\* The exchange that succeeds took the next element: the slot it compared is
\* the slot of tail_, and no claim is a whole turn old.
LEMMA WinnerIsNext ==
    ASSUME RingInv, NEW c \in Consumers, PopWins(c)
    PROVE  /\ from[c] = Taken /\ out[c] = Taken + 1 /\ Taken < pushed
           /\ tail' = (Taken + 1) % N /\ tail' \in Slots
<1>1. Taken \in Nat /\ pushed \in Nat /\ from[c] \in Nat /\ N \in Nat \ {0}
      BY Sizes DEF RingInv, RingTypeOK, Taken
<1>2. pc[c] = "cas" /\ tail = t[c] /\ tail' = Next_(tail)  BY DEF PopWins
<1>3. Claim(c)  BY <1>2 DEF RingInv, Claims
<1>4. Taken < from[c] + N
      BY <1>1, <1>3 DEF Claim, RingInv, Room, Begun
<1>5. from[c] = Taken
      BY <1>1, <1>2, <1>3, <1>4, ModDiffers DEF Claim, RingInv, Cursors
<1>6. tail' = (Taken + 1) % N /\ tail' \in Slots
      BY <1>1, <1>2, NextSlot DEF RingInv, Cursors
<1>7. QED  BY <1>2, <1>3, <1>5, <1>6 DEF Claim

\* pop()'s claim.
LEMMA WinKeepsRingInv ==
    ASSUME RingInv, NEW c \in Consumers, PopWins(c)
    PROVE  RingInv'
<1>1. /\ Taken \in Nat /\ pushed \in Nat /\ N \in Nat \ {0}
      /\ delivered \in Seq(0..MaxPush) /\ out[c] \in 0..MaxPush
      BY Sizes DEF RingInv, RingTypeOK, Taken
<1>2. /\ out[c] = Taken + 1 /\ Taken < pushed
      /\ tail' = (Taken + 1) % N /\ tail' \in Slots
      BY WinnerIsNext
<1>3. /\ UNCHANGED <<t, out, from, producerVars>> /\ Begun' = Begun
      /\ delivered' = Append(delivered, out[c])
      /\ pc' = [pc EXCEPT ![c] = "idle"]
      BY DEF PopWins, Begun, producerVars
<1>4. Taken' = Taken + 1  BY <1>1, <1>3 DEF Taken
<1>5. Cursors' /\ Room' /\ Contents'
  <2>1. Cursors' /\ Room'
    <3>1. Cursors /\ Room /\ Begun' = Begun /\ head' = head /\ pushed' = pushed
          BY <1>3 DEF RingInv, producerVars
    <3>2. Begun \in Nat /\ MaxPush \in Nat  BY <1>1, Sizes DEF Begun
    <3>3. QED  BY <1>1, <1>2, <1>4, <3>1, <3>2 DEF Cursors, Room
  <2>2. \A i \in Nat : Taken + 1 <= i => Taken <= i  BY <1>1
  <2>3. QED
        BY <1>3, <1>4, <2>1, <2>2 DEF RingInv, Contents, producerVars
<1>6. InOrder'
  <2>1. /\ Len(delivered') = Taken + 1 /\ delivered'[Taken + 1] = Taken + 1
        /\ \A i \in 1..Taken : delivered'[i] = delivered[i]
        BY <1>1, <1>2, <1>3 DEF Taken
  <2>2. \A i \in 1..Taken : delivered[i] = i  BY DEF RingInv, InOrder, Taken
  <2>3. QED  BY <1>1, <2>1, <2>2 DEF InOrder
<1>7. RingTypeOK'
  <2>1. delivered' \in Seq(0..MaxPush)  BY <1>1, <1>3
  <2>2. QED  BY <1>2, <1>3, <2>1 DEF RingInv, RingTypeOK, producerVars
<1>8. Claims'
  <2>1. ASSUME NEW d \in Consumers, pc'[d] # "idle"
        PROVE  Claim(d)'
    <3>1. d # c /\ pc'[d] = pc[d]  BY <1>3, <2>1 DEF RingInv, RingTypeOK
    <3>2. Claim(d) /\ from[d] \in Nat
          BY <2>1, <3>1 DEF RingInv, Claims, RingTypeOK
    <3>3. QED  BY <1>1, <1>3, <1>4, <3>1, <3>2 DEF Claim, producerVars
  <2>2. QED  BY <2>1 DEF Claims
<1>9. QED  BY <1>5, <1>6, <1>7, <1>8 DEF RingInv

\* One step of any thread keeps the invariant.
LEMMA NextRingInv ==
    ASSUME Lapping = FALSE, RingInv, [RingNext]_ringVars
    PROVE  RingInv'
<1>1. ASSUME PushStart \/ PushWrite \/ PushFinish  PROVE RingInv'
      BY <1>1, WritingKeepsRingInv
<1>2. ASSUME PushPublish  PROVE RingInv'
      BY <1>2, PublishKeepsRingInv
<1>3. ASSUME NEW c \in Consumers,
             PopStart(c) \/ PopTest(c) \/ PopRead(c) \/ PopLoses(c)
      PROVE  RingInv'
      BY <1>3, LookingKeepsRingInv
<1>4. ASSUME NEW c \in Consumers, PopWins(c)  PROVE RingInv'
      BY <1>4, WinKeepsRingInv
<1>5. CASE UNCHANGED ringVars
      BY <1>5 DEF ringVars, producerVars, consumerVars, RingInv, RingTypeOK, Cursors,
                  Room, Contents, Claims, Claim, InOrder, Taken, Begun
<1>6. QED  BY <1>1, <1>2, <1>3, <1>4, <1>5 DEF RingNext, Producer, Consumer

\* The invariant holds of every execution without lapping.
THEOREM RingInvariance == ASSUME Lapping = FALSE PROVE RingSpec => []RingInv
<1>1. RingInit => RingInv  BY InitRingInv
<1>2. RingInv /\ [RingNext]_ringVars => RingInv'  BY NextRingInv
<1>3. QED  BY <1>1, <1>2, PTL DEF RingSpec

\* pop() returns the elements in push order, each once and whole
\* (ApState.hpp:61-76).
THEOREM PopsInOrder == ASSUME Lapping = FALSE PROVE RingSpec => []InOrder
<1>1. RingInv => InOrder  BY DEF RingInv
<1>2. QED  BY <1>1, RingInvariance, PTL

-----------------------------------------------------------------------------
(* The refinement of BoundedQueue. *)

\* The slots from tail_ to head_ are the elements pushed and not delivered.
LEMMA RingIs == RingInv => Ring = [i \in 1..(pushed - Taken) |-> Taken + i]
<1> SUFFICES ASSUME RingInv
             PROVE  Ring = [i \in 1..(pushed - Taken) |-> Taken + i]
    OBVIOUS
<1> DEFINE d == pushed - Taken
<1>1. /\ Taken \in Nat /\ pushed \in Nat /\ N \in Nat \ {0}
      /\ tail = Taken % N /\ head = pushed % N
      BY Sizes DEF RingInv, RingTypeOK, Taken, Cursors
<1>2. d \in 0..(N - 1) /\ pushed = Taken + d
      BY <1>1 DEF RingInv, Room, Begun
<1> HIDE DEF d
<1>3. (head + N - tail) % N = d
  <2>1. tail \in 0..(N - 1)  BY <1>1, DivMod
  <2>2. head = IF tail + d < N THEN tail + d ELSE tail + d - N
        BY <1>1, <1>2, ModPlus
  <2>3. (d + N) % N = d /\ d % N = d  BY <1>1, <1>2, ModTurn, ModSmall
  <2>4. head + N - tail = d + N \/ head + N - tail = d
        BY <1>1, <1>2, <2>1, <2>2
  <2>5. QED  BY <2>3, <2>4
<1>4. ASSUME NEW i \in 1..d
      PROVE  buf[(tail + i - 1) % N] = Taken + i
  <2>1. i - 1 \in 0..(N - 1) /\ tail \in Nat /\ i \in Nat
        BY <1>1, <1>2, DivMod
  <2>2. tail + i - 1 = tail + (i - 1)  BY <2>1
  <2>3. (tail + (i - 1)) % N = (Taken + (i - 1)) % N
        BY <1>1, <2>1, ModShift
  <2>4. /\ Taken + (i - 1) \in Nat /\ Taken <= Taken + (i - 1)
        /\ Taken + (i - 1) < pushed
        /\ Taken + (i - 1) + 1 = Taken + i
        BY <1>1, <1>2, <2>1
  <2>5. buf[(Taken + (i - 1)) % N] = Taken + i
        BY <2>4 DEF RingInv, Contents
  <2>6. QED  BY <2>2, <2>3, <2>5
<1>5. QED  BY <1>3, <1>4 DEF Ring, d

\* What the queue's steps do to it.
LEMMA Counting ==
    ASSUME NEW a \in Nat, NEW b \in Nat, a <= b
    PROVE  LET s == [i \in 1..(b - a) |-> a + i]
           IN  /\ s \in Seq(Nat) /\ Len(s) = b - a
               /\ [i \in 1..(b + 1 - a) |-> a + i] = Append(s, b + 1)
               /\ a < b => /\ s # <<>> /\ Head(s) = a + 1
                           /\ [i \in 1..(b - (a + 1)) |-> (a + 1) + i] = Tail(s)
<1> DEFINE s == [i \in 1..(b - a) |-> a + i]
<1>1. s \in Seq(Nat) /\ Len(s) = b - a  OBVIOUS
<1>2. [i \in 1..(b + 1 - a) |-> a + i] = Append(s, b + 1)  BY <1>1
<1>3. ASSUME a < b
      PROVE  /\ s # <<>> /\ Head(s) = a + 1
             /\ [i \in 1..(b - (a + 1)) |-> (a + 1) + i] = Tail(s)
  <2>1. Len(s) > 0  BY <1>1, <1>3
  <2>2. s # <<>> /\ Head(s) = s[1]  BY <1>1, <2>1
  <2>3. s[1] = a + 1  BY <1>3
  <2>4. Tail(s) = [i \in 1..(Len(s) - 1) |-> s[i + 1]]  BY <1>1, <2>1
  <2>5. Len(s) - 1 = b - (a + 1)  BY <1>1
  <2>6. \A i \in 1..(b - (a + 1)) : s[i + 1] = (a + 1) + i  BY <1>3
  <2>7. QED  BY <2>2, <2>3, <2>4, <2>5, <2>6
<1>4. QED  BY <1>1, <1>2, <1>3

\* Every step of the ring is a put, a take or no step of the queue.
LEMMA StepRefines ==
    ASSUME Lapping = FALSE, RingInv, [RingNext]_ringVars
    PROVE  [Queue!Put \/ Queue!Take]_<<Ring, pushed, delivered>>
<1>0. RingInv'  BY NextRingInv
<1>1. /\ Ring = [i \in 1..(pushed - Taken) |-> Taken + i]
      /\ Ring' = [i \in 1..(pushed' - Taken') |-> Taken' + i]
  <2>1. Ring = [i \in 1..(pushed - Taken) |-> Taken + i]  BY RingIs
  <2>2. (RingInv => Ring = [i \in 1..(pushed - Taken) |-> Taken + i])'
        BY RingIs, PTL
  <2>3. QED  BY <1>0, <2>1, <2>2
<1>2. /\ Taken \in Nat /\ pushed \in Nat /\ Taken <= pushed
      /\ MaxPush \in Nat /\ N \in Nat
      BY Sizes DEF RingInv, RingTypeOK, Taken, Room
<1>3. CASE UNCHANGED <<pushed, delivered>>
  <2>1. Taken' = Taken  BY <1>3 DEF Taken
  <2>2. QED  BY <1>1, <1>3, <2>1
<1>4. CASE PushPublish
  <2>1. pushed' = pushed + 1 /\ delivered' = delivered /\ Taken' = Taken
        BY <1>4 DEF PushPublish, consumerVars, Taken
  <2>2. pushed + 1 <= MaxPush /\ pushed - Taken < N - 1
        BY <1>2, <1>4 DEF PushPublish, RingInv, Room, Begun
  <2>3. Len(Ring) = pushed - Taken /\ Ring' = Append(Ring, pushed + 1)
        BY <1>1, <1>2, <2>1, Counting
  <2>4. Queue!Put  BY <1>2, <2>1, <2>2, <2>3 DEF Queue!Put
  <2>5. QED  BY <2>4
<1>5. ASSUME NEW c \in Consumers, PopWins(c)
      PROVE  Queue!Take
  <2>1. out[c] = Taken + 1 /\ Taken < pushed  BY <1>5, WinnerIsNext
  <2>2. pushed' = pushed /\ delivered' = Append(delivered, out[c])
        BY <1>5 DEF PopWins, producerVars
  <2>3. Taken' = Taken + 1  BY <2>2 DEF Taken, RingInv, RingTypeOK
  <2>4. Ring # <<>> /\ Head(Ring) = Taken + 1 /\ Ring' = Tail(Ring)
    <3>1. Ring' = [i \in 1..(pushed - (Taken + 1)) |-> (Taken + 1) + i]
          BY <1>1, <2>2, <2>3
    <3>2. QED  BY <1>1, <1>2, <2>1, <3>1, Counting
  <2>5. QED  BY <2>1, <2>2, <2>4 DEF Queue!Take
<1>6. \/ UNCHANGED <<pushed, delivered>> \/ PushPublish
      \/ \E c \in Consumers : PopWins(c)
      BY DEF RingNext, Producer, Consumer, PushStart, PushWrite, PushFinish,
             PopStart, PopTest, PopRead, PopLoses, ringVars, producerVars,
             consumerVars
<1>7. QED  BY <1>3, <1>4, <1>5, <1>6

\* The ring implements the bounded FIFO queue of capacity N - 1: an element
\* is taken at most once, in order, none is lost when head_ wraps around, and
\* push goes in beyond its capacity.
THEOREM RingIsQueue == ASSUME Lapping = FALSE PROVE RingSpec => Implements
<1>1. RingInit => Queue!Init
  <2>1. SUFFICES ASSUME RingInit PROVE Queue!Init  OBVIOUS
  <2>2. RingInv /\ Taken = 0 /\ pushed = 0 /\ delivered = <<>>
        BY <2>1, InitRingInv DEF RingInit, Taken
  <2>3. Ring = [i \in 1..0 |-> i]  BY <2>2, RingIs
  <2>4. Ring = <<>>  BY <2>3
  <2>5. QED  BY <2>2, <2>4 DEF Queue!Init
<1>2. RingInv /\ [RingNext]_ringVars => [Queue!Put \/ Queue!Take]_<<Ring, pushed, delivered>>
      BY StepRefines
<1>3. QED  BY <1>1, <1>2, RingInvariance, PTL DEF RingSpec, Implements, Queue!Spec

\* The slots between the cursors are the elements pushed and not delivered,
\* in order, however often the ring has wrapped.
THEOREM RingHoldsTheRest == ASSUME Lapping = FALSE PROVE RingSpec => []NothingLost
<1>1. ASSUME RingInv PROVE NothingLost
  <2>1. /\ Taken \in Nat /\ pushed \in Nat /\ Taken <= pushed
        BY <1>1, Sizes DEF RingInv, RingTypeOK, Taken, Room
  <2>2. Ring = [i \in 1..(pushed - Taken) |-> Taken + i]  BY <1>1, RingIs
  <2>3. Len(Ring) = pushed - Taken  BY <2>1, <2>2, Counting
  <2>4. QED  BY <2>2, <2>3 DEF NothingLost, Taken
<1>2. QED  BY <1>1, RingInvariance, PTL
=============================================================================
