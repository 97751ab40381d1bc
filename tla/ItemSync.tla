------------------------------ MODULE ItemSync ------------------------------
(***************************************************************************)
(* The way of AP items into the game:                                      *)
(*   src/apworld/smbw_archipelago/client/context.py   (masks, handlers)    *)
(*   src/apworld/smbw_archipelago/client/lan_server.py (pushes, replays)   *)
(*   src/switch-mod/src/ap/ApClient.cpp               (rx thread)          *)
(*   src/switch-mod/src/ap/ApFrameBridge.cpp          (drain, game thread) *)
(*                                                                         *)
(* The bridge recomputes absolute masks from items_received and pushes     *)
(* them: on ReceivedItems, on the Switch's Hello and on a 2 s tick.  There *)
(* are two classes of mask.  The owned badges stand for those that go      *)
(* through the inbound ring to a drain hook (Wonder Seeds, routable        *)
(* worlds, force-cleared courses): pushed always.  The power-up deny mask  *)
(* stands for those the rx thread stores itself (unlocked characters, the  *)
(* shop masks): not replayed while it and the last one sent are zero.      *)
(*                                                                         *)
(* A bridge step is one run of the event loop between awaits, a Switch     *)
(* step one access to shared state: drain hooks run on several guest       *)
(* threads.  What is in flight when a connection is lost is lost with it   *)
(* (what had arrived was delivered before).  Open world, the probe and     *)
(* deny overrides of the console, and increments (LanSession) are left     *)
(* out.                                                                    *)
(***************************************************************************)
EXTENDS Naturals, Sequences

CONSTANTS
    Badges,      \* badge items of the slot
    PowerUps,    \* its gated Power-Up items
    Gating,      \* slot_data's powerup_gating
    Drains,      \* guest threads that may run drainInbound
    RingCap,     \* entries the inbound ring holds (256 - 1 in the code)
    MaxPipe,     \* a handler pushes onto no more, a tick to no more than this
    MaxFaults,   \* lost links, reboots, restarts, AP drops and save reloads
    Starts,      \* where a behaviour begins: the threads that drain in it, the
                 \* items the AP server holds already, the faults spent
    None

ASSUME SyncAssumption ==
    /\ Badges \cap PowerUps = {}
    /\ Gating \in BOOLEAN
    /\ RingCap \in Nat \ {0}
    /\ MaxPipe \in Nat \ {0, 1}
    /\ MaxFaults \in Nat
    /\ Starts \subseteq [threads : (SUBSET Drains) \ {{}},
                         held : SUBSET (Badges \cup PowerUps),
                         spent : 0 .. MaxFaults]
    /\ \A mask \in SUBSET Badges : mask # None

Items == Badges \cup PowerUps

Messages ==
    [kind : {"badges"}, mask : SUBSET Badges]
        \cup [kind : {"deny"}, mask : SUBSET PowerUps]

VARIABLES
    server,            \* items the AP server holds for the slot
    ap,                \* the AP link: down, up, in (slot_data applied)
    items_received,    \* CommonContext.items_received
    powerup_gating,
    itemget_deny_mask, \* LanServer._itemget_deny_mask, the last one sent
    session,           \* none, new, greeted (its Hello was handled)
    pipe,              \* send queue and socket towards the Switch
    inbound,           \* the Switch's inbound ring
    denied,            \* s_denied_mask
    save_loaded,       \* s_save_loaded
    drain,             \* drainInbound of each thread that runs it: where it is,
                       \* last_badges
    owned,             \* container-C owned badges, in memory
    equipped,          \* equipped badges
    saved,             \* owned badges in the save file
    picked,            \* history: badges picked up or bought in game
    faults             \* faults so far

bridge_vars == <<items_received, powerup_gating, itemget_deny_mask>>
ap_vars     == <<server, ap>>
link_vars   == <<session, pipe>>
mod_vars    == <<inbound, denied, save_loaded, drain>>
game_vars   == <<owned, equipped, saved, picked>>

vars == <<ap_vars, bridge_vars, link_vars, mod_vars, game_vars, faults>>

\* The guest threads that run the drain hooks
Threads == DOMAIN drain

IdleDrain == [at |-> "idle", last |-> None]

Init ==
    /\ ap = "down"
    /\ items_received = {}
    /\ powerup_gating = FALSE
    /\ itemget_deny_mask = {}
    /\ session = "none"
    /\ pipe = <<>>
    /\ inbound = <<>>
    /\ denied = {}
    /\ save_loaded = FALSE
    /\ owned = {}
    /\ equipped = {}
    /\ saved = {}
    /\ picked = {}
    /\ \E start \in Starts :
        /\ drain = [d \in start.threads |-> IdleDrain]
        /\ server = start.held
        /\ faults = start.spent

-----------------------------------------------------------------------------
(* The bridge. *)

\* _recompute_badge_mask
BadgeMask == items_received \cap Badges

\* _recompute_itemget_deny_mask, of given items and gating flag
DenyMask(items, gating) == IF gating THEN PowerUps \ items ELSE {}

\* Each send_* puts its message in the queue, or drops it without a session.
Enqueue(msgs) ==
    pipe' = IF session = "none" THEN pipe ELSE pipe \o msgs

BadgesMsg(mask) == [kind |-> "badges", mask |-> mask]
DenyMsg(mask)   == [kind |-> "deny", mask |-> mask]

\* send_set_itemget_deny remembers the mask before it looks for a session.
RememberDeny(mask) == itemget_deny_mask' = mask

\* Mutation: nothing unless the mask has changed.
ReplaysChangesOnly(mask) == mask # itemget_deny_mask

\* _push_itemget_deny_now: nothing while this mask and the last one are zero.
DenyIsReplayed(mask) == mask # {} \/ itemget_deny_mask # {}

ReplayDeny(mask) == IF DenyIsReplayed(mask) THEN <<DenyMsg(mask)>> ELSE <<>>

\* Mutation: a zero badge mask is not replayed, as if the game started with it.
PushAllNonzero ==
    LET mask   == DenyMask(items_received, powerup_gating)
        badges == IF BadgeMask = {} THEN <<>> ELSE <<BadgesMsg(BadgeMask)>> IN
    /\ Enqueue(badges \o ReplayDeny(mask))
    /\ RememberDeny(mask)
    /\ UNCHANGED <<ap_vars, items_received, powerup_gating, mod_vars, game_vars>>

\* What the Hello handler and every tick push.
PushAll ==
    LET mask == DenyMask(items_received, powerup_gating) IN
    /\ Enqueue(<<BadgesMsg(BadgeMask)>> \o ReplayDeny(mask))
    /\ RememberDeny(mask)
    /\ UNCHANGED <<ap_vars, items_received, powerup_gating, mod_vars, game_vars>>

\* _dispatch_line on a HelloMsg
HandleHello ==
    /\ session = "new"
    /\ session' = "greeted"
    /\ PushAll
    /\ UNCHANGED faults

\* One round of _idempotent_sync_loop; it runs while a session does.
Tick ==
    /\ session # "none"
    /\ Len(pipe) + 2 <= MaxPipe
    /\ PushAll
    /\ UNCHANGED <<session, faults>>

\* The Connected handler, where it applies powerup_gating.
HandleConnected ==
    LET mask == DenyMask(items_received, Gating) IN
    /\ ap = "up"
    /\ Len(pipe) <= MaxPipe
    /\ ap' = "in"
    /\ powerup_gating' = Gating
    /\ RememberDeny(mask)
    /\ Enqueue(<<DenyMsg(mask)>>)
    /\ UNCHANGED <<server, items_received, session, mod_vars, game_vars, faults>>

\* CommonContext merges a ReceivedItems packet and _handle_received_items
\* pushes every mask.
HandleReceivedItems ==
    LET mask == DenyMask(server, powerup_gating) IN
    /\ ap # "down"
    /\ items_received # server
    /\ Len(pipe) <= MaxPipe
    /\ items_received' = server
    /\ RememberDeny(mask)
    /\ Enqueue(<<BadgesMsg(server \cap Badges), DenyMsg(mask)>>)
    /\ UNCHANGED <<ap_vars, powerup_gating, session, mod_vars, game_vars, faults>>

\* _install_client, when the Switch has (re)connected
Install ==
    /\ session = "none"
    /\ session' = "new"
    /\ pipe' = <<>>
    /\ UNCHANGED <<ap_vars, bridge_vars, mod_vars, game_vars, faults>>

-----------------------------------------------------------------------------
(* The mod. *)

\* handleLine: a deny mask is stored, a badge mask is pushed to the ring,
\* which drops it when it is full.
HandleLine ==
    LET msg == Head(pipe) IN
    /\ pipe # <<>>
    /\ pipe' = Tail(pipe)
    /\ \/ /\ msg.kind = "deny"
          /\ denied' = msg.mask
          /\ UNCHANGED inbound
       \/ /\ msg.kind = "badges"
          /\ inbound' = IF Len(inbound) < RingCap
                        THEN Append(inbound, msg.mask) ELSE inbound
          /\ UNCHANGED denied
    /\ UNCHANGED <<ap_vars, bridge_vars, session, save_loaded, drain, game_vars,
                   faults>>

\* drainInbound, past its two gates: a save is loaded, and no scene
\* transition in the last 3 s, which is no more than a delay
StartDrain(d) ==
    /\ drain[d].at = "idle"
    /\ save_loaded
    /\ inbound # <<>>                 \* an empty drain changes nothing
    /\ drain' = [drain EXCEPT ![d].at = "pop"]
    /\ UNCHANGED <<ap_vars, bridge_vars, link_vars, inbound, denied, save_loaded,
                   game_vars, faults>>

\* One pop of the drain loop: absolute masks wait, the last one counts.
PopOne(d) ==
    /\ drain[d].at = "pop"
    /\ inbound # <<>>
    /\ inbound' = Tail(inbound)
    /\ drain' = [drain EXCEPT ![d].last = Head(inbound)]
    /\ UNCHANGED <<ap_vars, bridge_vars, link_vars, denied, save_loaded,
                   game_vars, faults>>

\* The loop is left when the ring is empty (or after 256 pops).
PopEnds(d) ==
    /\ drain[d].at = "pop"
    /\ inbound = <<>>
    /\ drain' = [drain EXCEPT ![d].at =
                    IF drain[d].last = None THEN "idle" ELSE "diff"]
    /\ UNCHANGED <<ap_vars, bridge_vars, link_vars, inbound, denied, save_loaded,
                   game_vars, faults>>

\* The owned bits that setBadgeBitfieldAbsolute reports as BadgeAcquired
Stripped(d) == owned \ drain[d].last

\* It reports them first ...
ReportStripped(d) ==
    /\ drain[d].at = "diff"
    /\ drain' = [drain EXCEPT ![d].at = "write"]
    /\ UNCHANGED <<ap_vars, bridge_vars, link_vars, inbound, denied, save_loaded,
                   owned, equipped, saved, picked, faults>>

\* Mutation: an empty mask is written and the equipped badges are left alone.
WriteOwnedOnly(d) ==
    /\ drain[d].at = "write"
    /\ owned' = drain[d].last
    /\ drain' = [drain EXCEPT ![d] =
                    IF owned' = {} THEN IdleDrain ELSE [@ EXCEPT !.at = "unequip"]]
    /\ UNCHANGED <<ap_vars, bridge_vars, link_vars, inbound, denied, save_loaded,
                   equipped, saved, picked, faults>>

\* ... and then overwrites them.
WriteOwned(d) ==
    /\ drain[d].at = "write"
    /\ owned' = drain[d].last
    /\ drain' = [drain EXCEPT ![d].at = "unequip"]
    /\ UNCHANGED <<ap_vars, bridge_vars, link_vars, inbound, denied, save_loaded,
                   equipped, saved, picked, faults>>

\* clearEquippedBadgesNotOwned, with the mask just written
Unequip(d) ==
    /\ drain[d].at = "unequip"
    /\ equipped' = equipped \cap drain[d].last
    /\ drain' = [drain EXCEPT ![d] = IdleDrain]
    /\ UNCHANGED <<ap_vars, bridge_vars, link_vars, inbound, denied, save_loaded,
                   owned, saved, picked, faults>>

-----------------------------------------------------------------------------
(* The game, the AP server and the faults. *)

\* The save deserializer's first write opens the save gate for good; a
\* later load replaces the badges in memory.
LoadSave ==
    /\ save_loaded => faults < MaxFaults
    /\ faults' = IF save_loaded THEN faults + 1 ELSE faults
    /\ save_loaded' = TRUE
    /\ owned' = saved
    /\ equipped' = equipped \cap saved
    /\ UNCHANGED <<ap_vars, bridge_vars, link_vars, inbound, denied,
                   drain, saved, picked>>

SaveGame ==
    /\ save_loaded
    /\ saved' = owned
    /\ UNCHANGED <<ap_vars, bridge_vars, link_vars, mod_vars, owned, equipped,
                   picked, faults>>

\* A badge house or course hands out a badge and equips it.
PickUp(b) ==
    /\ save_loaded /\ b \notin picked
    /\ picked' = picked \cup {b}
    /\ owned' = owned \cup {b}
    /\ equipped' = equipped \cup {b}
    /\ UNCHANGED <<ap_vars, bridge_vars, link_vars, mod_vars, saved, faults>>

Equip(b) ==
    /\ save_loaded /\ b \in owned \ equipped
    /\ equipped' = equipped \cup {b}
    /\ UNCHANGED <<ap_vars, bridge_vars, link_vars, mod_vars, owned, saved,
                   picked, faults>>

SendItem(i) ==
    /\ i \notin server
    /\ server' = server \cup {i}
    /\ UNCHANGED <<ap, bridge_vars, link_vars, mod_vars, game_vars, faults>>

ConnectAp ==
    /\ ap = "down"
    /\ ap' = "up"
    /\ UNCHANGED <<server, bridge_vars, link_vars, mod_vars, game_vars, faults>>

\* CommonContext may or may not forget the items when the link goes.
LoseAp ==
    /\ ap # "down"
    /\ ap' = "down"
    /\ items_received' \in {items_received, {}}
    /\ UNCHANGED <<server, powerup_gating, itemget_deny_mask, link_vars,
                   mod_vars, game_vars>>

LoseLink ==
    /\ session # "none"
    /\ session' = "none"
    /\ pipe' = <<>>
    /\ UNCHANGED <<ap_vars, bridge_vars, mod_vars, game_vars>>

RestartBridge ==
    /\ ap' = "down"
    /\ items_received' = {}
    /\ powerup_gating' = FALSE
    /\ itemget_deny_mask' = {}
    /\ session' = "none"
    /\ pipe' = <<>>
    /\ UNCHANGED <<server, mod_vars, game_vars>>

RebootSwitch ==
    /\ session' = "none"
    /\ pipe' = <<>>
    /\ inbound' = <<>>
    /\ denied' = {}
    /\ save_loaded' = FALSE
    /\ drain' = [d \in Threads |-> IdleDrain]
    /\ owned' = {}
    /\ equipped' = {}
    /\ UNCHANGED <<ap_vars, bridge_vars, saved, picked>>

Fault ==
    /\ faults < MaxFaults
    /\ faults' = faults + 1
    /\ LoseAp \/ LoseLink \/ RestartBridge \/ RebootSwitch

DrainStep(d) ==
    \/ PopOne(d) \/ PopEnds(d)
    \/ ReportStripped(d) \/ WriteOwned(d) \/ Unequip(d)

Bridge == HandleHello \/ Tick \/ HandleConnected \/ HandleReceivedItems \/ Install

Game ==
    \/ LoadSave \/ SaveGame
    \/ \E b \in Badges : PickUp(b) \/ Equip(b)

Next ==
    \/ Bridge \/ HandleLine \/ Game \/ Fault \/ ConnectAp
    \/ \E i \in Items : SendItem(i)
    \/ \E d \in Threads : StartDrain(d) \/ DrainStep(d)

Spec == Init /\ [][Next]_vars

\* The event loop, the rx thread and a drain that has begun keep running;
\* the client reconnects to AP and the mod to the bridge; the player loads
\* a save.  A drain hook runs every frame and transition windows close; a
\* drain pops faster than messages come and stops after 256, so it ends.
Fairness ==
    /\ WF_vars(ConnectAp) /\ WF_vars(HandleConnected)
    /\ WF_vars(HandleReceivedItems)
    /\ WF_vars(Install) /\ WF_vars(HandleHello) /\ WF_vars(Tick)
    /\ WF_vars(HandleLine)
    /\ WF_vars(LoadSave /\ ~save_loaded)
    /\ \A d \in Drains : /\ WF_vars(d \in Threads /\ DrainStep(d))
                          /\ SF_vars(d \in Threads /\ PopEnds(d))
    /\ SF_vars(\E d \in Threads : StartDrain(d))

FairSpec == Spec /\ Fairness

-----------------------------------------------------------------------------
(* Properties. *)

\* The state has its types, and neither the pipe nor the ring overflows.
TypeOK ==
    /\ server \subseteq Items /\ items_received \subseteq Items
    /\ ap \in {"down", "up", "in"}
    /\ powerup_gating \in BOOLEAN
    /\ itemget_deny_mask \subseteq PowerUps /\ denied \subseteq PowerUps
    /\ session \in {"none", "new", "greeted"}
    /\ pipe \in Seq(Messages)
    /\ inbound \in Seq(SUBSET Badges) /\ Len(inbound) <= RingCap
    /\ save_loaded \in BOOLEAN
    /\ Threads \subseteq Drains
    /\ drain \in [Threads -> [at : {"idle", "pop", "diff", "write", "unequip"},
                             last : {None} \cup SUBSET Badges]]
    /\ \A d \in Threads : drain[d].at \in {"diff", "write", "unequip"} =>
                             drain[d].last # None
    /\ owned \subseteq Badges /\ equipped \subseteq Badges
    /\ saved \subseteq Badges /\ picked \subseteq Badges
    /\ faults \in 0 .. MaxFaults

LinkSettled == session = "greeted" /\ pipe = <<>>

\* On a settled link the Switch denies what the bridge last meant it to deny,
\* whatever connections, reboots and restarts came between the two, as long
\* as something is denied.
DenySettled ==
    LinkSettled /\ itemget_deny_mask # {} => denied = itemget_deny_mask

\* send_set_itemget_deny promises a mask it drops to the next Hello, the
\* zero mask of the last Power-Up like any other.
DenyReplayed ==
    LinkSettled /\ ap = "in" => denied = itemget_deny_mask

\* Only while a drain is about to unequip it is a badge equipped that is not
\* owned, whichever drains on whichever threads wrote the owned badges.
EquippedIsOwned ==
    \A b \in equipped \ owned : \E d \in Threads :
        drain[d].at = "unequip" /\ b \notin drain[d].last

\* Whatever is lost, stripped, picked up or reloaded on the way, in the end
\* the badges in memory are those of the AP server, and no other is equipped.
BadgesConverge ==
    <>[](owned = server \cap Badges /\ equipped \subseteq owned)

\* setBadgeBitfieldAbsolute takes a stripped bit for an in-game pickup.
AcquiredIsPickup ==
    [][\A d \in Threads : ReportStripped(d) => Stripped(d) \subseteq picked]_vars
=============================================================================
