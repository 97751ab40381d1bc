----------------------------- MODULE ClientSync -----------------------------
(***************************************************************************)
(* What the Switch is shown of the state of the client: every kind of      *)
(* absolute push of client/context.py and client/lan_server.py, the AP     *)
(* packets, emitted checks and console commands (client/commands.py) that  *)
(* change what is pushed, and the replays on the Switch's Hello and on the *)
(* 2 s tick.  ItemSync follows two kinds of mask on into the game; here    *)
(* all kinds are followed up to the mod, but for the coin increments.      *)
(*                                                                         *)
(* No kind is computed from, or held back by, another one, so a behaviour  *)
(* follows the messages of one kind, and only what feeds that kind happens *)
(* in it.  A handler of the client runs from one await to the next; the    *)
(* Connected handler has one await before it reads slot_data.  What        *)
(* CommonContext merges into the context is merged by our handler's action.*)
(***************************************************************************)
EXTENDS Integers, FiniteSets, FiniteSetsExt, Functions, SequencesExt

CONSTANTS
    Starts,          \* kinds to follow, with the slot's data and the bounds used up
    BIT_COUNT,       \* 64 positions of the badge bitfield
    BIT_SPECS,       \* what a user may type for a set of them: pairs, from and to
    BADGES,          \* badge item -> internal id
    DENY_BITS,       \* Power-Up item -> bit of the deny mask
    ROSTER,          \* character items
    SEEDS,           \* Wonder Seed, one for each copy -> world bucket
    BITS_PER_WORLD,  \* 16 bits of the seed bitfield for each bucket
    ROYAL_SEEDS,     \* Royal Seed items
    CASTLE_UNLOCK_ITEM,
    shop_badges,     \* internal id -> location, of the badges sold in shops
    SEED_SHOP_SLOTS, \* slot -> its locations
    FORCE_CLEARED_COURSES,  \* secret-exit course -> its normal exit, or None
    SeedLocations,   \* locations of this seed
    Worlds,          \* worlds /force_open_world may name
    Grants,          \* (hash, value) pairs /grant_hash may name
    MaxQueue,        \* a handler other than the tick's queues behind no more
    MaxFaults, MaxCommands,    \* bounds on the faults and the commands
    None

Bits == 0 .. BIT_COUNT - 1

Items == DOMAIN BADGES \cup DOMAIN DENY_BITS \cup ROSTER \cup DOMAIN SEEDS
         \cup ROYAL_SEEDS \cup {CASTLE_UNLOCK_ITEM}

Locations == Range(shop_badges) \cup (UNION Range(SEED_SHOP_SLOTS))
             \cup (Range(FORCE_CLEARED_COURSES) \ {None})

ASSUME ClientSyncAssumption ==
    /\ BIT_COUNT \in Nat /\ {MaxQueue, MaxFaults, MaxCommands} \subseteq Nat
    /\ BIT_SPECS \subseteq SUBSET (Int \X Int)
    /\ Range(BADGES) \subseteq Bits /\ DOMAIN shop_badges \subseteq Bits
    /\ BITS_PER_WORLD \in Nat \ {0}
    /\ SeedLocations \subseteq Locations
    /\ \A start \in Starts :
          /\ start.slot_data \in
                [powerup_gating : BOOLEAN, open_world : BOOLEAN, active : SUBSET Nat,
                 unlock_items : BOOLEAN, castle_unlock : BOOLEAN, palaces_required : Nat]
          /\ start.faults \in Nat /\ start.commands \in Nat

VARIABLES
    kind,       \* the kind of message that is followed
    slot_data,  \* of the slot that is played
    server,     \* items the AP server has for it
    checked,    \* locations the AP server has as checked
    ap,         \* AP link: "down", "in", "dying" (sends raise)
    ctx,        \* the context, a record of the fields below
    last,       \* LanServer: the value of this kind it remembers to have sent
    session,    \* "none", "new", "greeted"
    queue,      \* messages on their way to the Switch
    view,       \* what the mod has
    faults, commands

\* Fields of SMBWContext and CommonContext.
NewContext ==
    [connecting        |-> FALSE,  \* the Connected handler is in update_death_link
     batch             |-> FALSE,  \* the items of a new connection are to come
     items_received    |-> {},
     checked_locations |-> {},
     emitted           |-> {},     \* BridgeState: the checks it let through
     pending           |-> {},     \* _pending_checks
     flushing          |-> {},     \* ... that _flush_pending_checks has taken
     sent_loc_ids      |-> {},     \* _sent_loc_ids
     server_locations  |-> {},
     maps              |-> FALSE,  \* are the name -> id maps built?
     applied           |-> FALSE,  \* has Connected read slot_data?
     locations_info    |-> {},     \* the locations scouted
     probe_mask        |-> None,   \* _badge_probe_mask
     probe_invalid     |-> {},     \* _badge_probe_invalid
     deny_override     |-> None,   \* _itemget_deny_override
     bowser_opened     |-> FALSE]

slotVars  == <<slot_data, server, checked, ap>>
lanVars == <<last, session, queue>>
syncVars == <<kind, slotVars, ctx, lanVars, view, faults, commands>>

-----------------------------------------------------------------------------
(* The tables, and what the context computes from its fields. *)

\* _recompute_badge_mask; a probe of the console wins.
BadgeMask(c) ==
    IF c.probe_mask # None THEN c.probe_mask
    ELSE {BADGES[i] : i \in c.items_received \cap DOMAIN BADGES}

\* _recompute_itemget_deny_mask; the override wins, whatever the seed.
DenyMask(c) ==
    CASE c.deny_override # None -> c.deny_override
      [] c.deny_override = None /\ ~(c.applied /\ slot_data.powerup_gating) -> {}
      [] OTHER -> Range(DENY_BITS) \ {DENY_BITS[i] : i \in c.items_received \cap DOMAIN DENY_BITS}

UnlockedCharaMask(c) == c.items_received \cap ROSTER

\* _recompute_wonder_seed_counts
WonderSeedCounts(c) ==
    [w \in Range(SEEDS) |-> Cardinality({i \in c.items_received \cap DOMAIN SEEDS : SEEDS[i] = w})]

\* _recompute_wonder_seed_bits: the lowest bits of each bucket
WonderSeedBits(c) ==
    UNION {{<<w, n>> : n \in 1 .. Min({WonderSeedCounts(c)[w], BITS_PER_WORLD})} : w \in Range(SEEDS)}

RoyalSeedMask(c) == c.items_received \cap ROYAL_SEEDS

\* _castle_unlocked: by its item, from the start, or by the rule of older seeds
CastleUnlocked(c) ==
    /\ c.applied /\ slot_data.open_world
    /\ IF slot_data.castle_unlock
       THEN slot_data.unlock_items => CASTLE_UNLOCK_ITEM \in c.items_received
       ELSE Cardinality(RoyalSeedMask(c)) >= slot_data.palaces_required

\* _recompute_routable_worlds_mask: the hub, World 1 and the castle only
RoutableWorlds(c) ==
    IF ~(c.applied /\ slot_data.open_world) THEN {}
    ELSE {"Petal Isles"} \cup (IF 1 \in slot_data.active THEN {"W1"} ELSE {})
                         \cup (IF c.bowser_opened THEN {"Castle"} ELSE {})

\* _recompute_force_cleared_mask, in either mode
ForceCleared(c) ==
    {course \in DOMAIN FORCE_CLEARED_COURSES :
        \/ FORCE_CLEARED_COURSES[course] = None
        \/ c.maps /\ FORCE_CLEARED_COURSES[course] \in c.checked_locations}

\* _world_unlock_hashes: the whole batch or nothing
WorldUnlock(c) == c.applied /\ slot_data.open_world

Obtained(c) == c.checked_locations \cup c.sent_loc_ids

\* _recompute_badge_shop_state
BadgeShopState(c) ==
    [managed |-> DOMAIN shop_badges,
     sold    |-> {b \in DOMAIN shop_badges : c.maps /\ shop_badges[b] \in Obtained(c)}]

\* recompute_masks of seed_shop_table.py: a slot is sold when all of it is.
SeedShopState(c) ==
    LET managed == {s \in DOMAIN SEED_SHOP_SLOTS :
                       c.maps /\ SEED_SHOP_SLOTS[s] \subseteq c.server_locations}
    IN [managed |-> managed, sold |-> {s \in managed : SEED_SHOP_SLOTS[s] \subseteq Obtained(c)}]

\* _recompute_badge_shop_text: the badges that have one
BadgeShopText(c) == {b \in DOMAIN shop_badges : c.maps /\ shop_badges[b] \in c.locations_info}

Value(c) ==
    CASE kind = "badges"        -> BadgeMask(c)
      [] kind = "deny"          -> DenyMask(c)
      [] kind = "charas"        -> UnlockedCharaMask(c)
      [] kind = "seed_counts"   -> WonderSeedCounts(c)
      [] kind = "seed_bits"     -> WonderSeedBits(c)
      [] kind = "routable"      -> RoutableWorlds(c)
      [] kind = "force_cleared" -> ForceCleared(c)
      [] kind = "unlock"        -> WorldUnlock(c)
      [] kind = "badge_shop"    -> BadgeShopState(c)
      [] kind = "seed_shop"     -> SeedShopState(c)
      [] kind = "shop_text"     -> BadgeShopText(c)
      [] OTHER                  -> None

\* What a mod has before its first message of the kind
Boot ==
    CASE kind = "seed_counts"                -> [w \in Range(SEEDS) |-> 0]
      [] kind = "unlock"                     -> FALSE
      [] kind \in {"badge_shop", "seed_shop"} -> [managed |-> {}, sold |-> {}]
      [] OTHER                               -> {}

-----------------------------------------------------------------------------
(* LanServer. *)

\* A send_* puts its message in the queue, or drops it without a session.
Send(msgs) == queue' = IF session = "none" THEN queue ELSE queue \o msgs

\* The kinds whose send_* keeps the value, session or not
Remembered == {"deny", "charas", "badge_shop", "seed_shop"}

Remember(v) == last' = IF kind \in Remembered THEN v ELSE last

Push(v) == Send(<<v>>) /\ Remember(v)

\* Mutation: a Switch that rebooted is sent what is new only.
NewTextOnly(c, force) == BadgeShopText(c) \ last

\* The texts to send: what is new, or all of it when forced
NewText(c, force) == IF force THEN BadgeShopText(c) ELSE BadgeShopText(c) \ last

\* _push_badge_shop_text_now, with a blank for what is gone, unless forced
PushText(c, force) ==
    LET cur == BadgeShopText(c)
        new == NewText(c, force)
        old == IF force THEN {} ELSE last \ cur
    IN /\ Send([n \in 1 .. Cardinality(new) |-> <<SetToSeq(new)[n], "text">>]
               \o [n \in 1 .. Cardinality(old) |-> <<SetToSeq(old)[n], "">>])
       /\ last' = cur

\* Those of the remembered kinds are skipped while off, if off was sent last.
Skipped(v) ==
    /\ kind \in Remembered
    /\ IF kind \in {"badge_shop", "seed_shop"} THEN v.managed = {} ELSE v = {}
    /\ last = Boot

\* The _push_*_now of the followed kind, for a Hello or a tick.  The Royal
\* Seeds' provider gives None, and the unlock batch is for the Hello only.
Replay(c, hello) ==
    CASE kind = "shop_text" -> PushText(c, hello)
      [] kind = "royal_seeds" -> UNCHANGED <<queue, last>>
      [] kind = "unlock" ->
            IF hello /\ WorldUnlock(c) THEN Push(TRUE) ELSE UNCHANGED <<queue, last>>
      [] OTHER -> IF Skipped(Value(c)) THEN UNCHANGED <<queue, last>> ELSE Push(Value(c))

Install ==
    /\ session = "none" /\ session' = "new" /\ queue' = <<>>
    /\ UNCHANGED <<kind, slotVars, ctx, last, view, faults, commands>>

HandleHello ==
    /\ session = "new" /\ session' = "greeted"
    /\ Replay(ctx, TRUE)
    /\ UNCHANGED <<kind, slotVars, ctx, view, faults, commands>>

\* A round of _idempotent_sync_loop
Tick ==
    /\ session # "none" /\ queue = <<>>
    /\ Replay(ctx, FALSE)
    /\ UNCHANGED <<kind, slotVars, ctx, session, view, faults, commands>>

\* The mod takes one message.
Deliver ==
    LET m == Head(queue)
    IN /\ queue # <<>> /\ queue' = Tail(queue)
       /\ view' = CASE kind # "shop_text" -> m
                    [] kind = "shop_text" /\ m[2] = "" -> view \ {m[1]}
                    [] OTHER -> view \cup {m[1]}
       /\ UNCHANGED <<kind, slotVars, ctx, last, session, faults, commands>>

-----------------------------------------------------------------------------
(* The handlers of the context.  Each computes with what it has just set.  *)

Room == Len(queue) <= MaxQueue

\* The DataPackage packet: _rebuild_reverse_maps_from_context
HandleDataPackage ==
    /\ ap = "down" /\ ~ctx.maps
    /\ ctx' = [ctx EXCEPT !.maps = TRUE]
    /\ UNCHANGED <<kind, slotVars, lanVars, view, faults, commands>>

\* CommonContext merges a Connected packet and sends anew what it checked
\* before; the handler builds the maps and runs up to update_death_link.
Accepted ==
    /\ ap = "down" /\ ~ctx.connecting /\ Room /\ ap' = "in"
    /\ checked' = checked \cup (ctx.sent_loc_ids \cap SeedLocations)
    /\ ctx' = [ctx EXCEPT !.connecting = TRUE, !.batch = server # {},
                          !.checked_locations = checked,
                          !.server_locations = SeedLocations, !.maps = TRUE]
    /\ UNCHANGED <<kind, slot_data, server, lanVars, view, faults, commands>>

\* What the rest of the handler pushes
ConnectedPushes ==
    {"deny", "charas", "badge_shop", "seed_shop"}
        \cup (IF slot_data.open_world THEN {"routable", "unlock", "force_cleared"} ELSE {})

HandleConnected ==
    LET c == [ctx EXCEPT !.connecting = FALSE, !.applied = TRUE,
                         !.pending = {}, !.flushing = @ \cup ctx.pending,
                         !.bowser_opened = /\ slot_data.open_world /\ slot_data.castle_unlock
                                           /\ ~slot_data.unlock_items]
    IN /\ ctx.connecting /\ Room
       /\ ctx' = c
       /\ IF kind \in ConnectedPushes THEN Push(Value(c)) ELSE UNCHANGED <<queue, last>>
       /\ UNCHANGED <<kind, slotVars, session, view, faults, commands>>

\* Mutation: the handler leaves the characters to the tick.
PushedWithoutCharas == {"badges", "seed_counts", "seed_bits", "deny", "force_cleared"}

\* What every ReceivedItems pushes
ReceivedItemsPushes == {"badges", "seed_counts", "seed_bits", "deny", "charas", "force_cleared"}

\* CommonContext has merged the items: those that are new, or all of them on
\* a new connection.  The castle is opened once.
HandleReceivedItems ==
    LET got   == [ctx EXCEPT !.batch = FALSE, !.items_received = server]
        opens == CastleUnlocked(got) /\ ~ctx.bowser_opened
        c     == [got EXCEPT !.bowser_opened = ctx.bowser_opened \/ opens]
    IN /\ ap = "in" /\ (ctx.batch \/ ctx.items_received # server) /\ Room
       /\ ctx' = c
       /\ IF kind \in ReceivedItemsPushes \/ (kind = "routable" /\ opens)
          THEN Push(Value(c)) ELSE UNCHANGED <<queue, last>>
       /\ UNCHANGED <<kind, slotVars, session, view, faults, commands>>

\* The server confirms our checks, or those another slot collected.
HandleRoomUpdate ==
    LET c == [ctx EXCEPT !.checked_locations = checked]
    IN /\ ap = "in" /\ ctx.checked_locations # checked /\ Room
       /\ ctx' = c
       /\ IF kind \in {"badge_shop", "seed_shop"} THEN Push(Value(c)) ELSE UNCHANGED <<queue, last>>
       /\ UNCHANGED <<kind, slotVars, session, view, faults, commands>>

\* _shop_badge_location_ids: what the Connected handler scouts, the shop
\* badges' checks that this seed has
ScoutedLocations == Range(shop_badges) \cap ctx.server_locations

\* The answer to the scouts
HandleLocationInfo ==
    LET c == [ctx EXCEPT !.locations_info = ScoutedLocations]
    IN /\ ap = "in" /\ ~ctx.connecting /\ ctx.locations_info # ScoutedLocations /\ Room
       /\ ctx' = c
       /\ IF kind = "shop_text" THEN PushText(c, TRUE) ELSE UNCHANGED <<queue, last>>
       /\ UNCHANGED <<kind, slotVars, session, view, faults, commands>>

-----------------------------------------------------------------------------
(* Checks. *)

\* The shop state a check of location l pushes
PushesCheck(l) ==
    (IF l \in Range(shop_badges) THEN {"badge_shop"} ELSE {})
        \cup (IF l \in UNION Range(SEED_SHOP_SLOTS) THEN {"seed_shop"} ELSE {})

\* Only checks that can change the followed kind are emitted.
FeedingLocations ==
    CASE kind = "badge_shop"    -> Range(shop_badges)
      [] kind = "seed_shop"     -> UNION Range(SEED_SHOP_SLOTS)
      [] kind = "force_cleared" -> Range(FORCE_CLEARED_COURSES) \ {None}
      [] OTHER                  -> {}

\* handle_check_emitted of a context c.  While a badge is probed, what the
\* mod reports of badges is the probe's doing.  The row is shown as sold at
\* once.  The send does nothing while the link is down, and raises while it
\* dies: the check is taken back, and the row with the next push.
CheckEmitted(c, l) ==
    LET sent == [c EXCEPT !.sent_loc_ids = @ \cup {l}]
    IN /\ Room
       /\ \/ /\ l \in Range(shop_badges) /\ c.probe_mask # None
             /\ ctx' = c /\ UNCHANGED <<queue, last, checked>>
          \/ /\ l \in Range(shop_badges) => c.probe_mask = None
             /\ ~c.maps
             /\ ctx' = [c EXCEPT !.pending = @ \cup {l}] /\ UNCHANGED <<queue, last, checked>>
          \/ /\ l \in Range(shop_badges) => c.probe_mask = None
             /\ c.maps /\ l \notin c.sent_loc_ids
             /\ IF kind \in PushesCheck(l) THEN Push(Value(sent)) ELSE UNCHANGED <<queue, last>>
             /\ ctx' = IF ap = "dying" THEN c ELSE sent
             /\ checked' = IF ap = "in" THEN checked \cup ({l} \cap SeedLocations) ELSE checked

HandleCheckEmitted(l) ==
    /\ session = "greeted" /\ l \in FeedingLocations \ ctx.emitted
    /\ CheckEmitted([ctx EXCEPT !.emitted = @ \cup {l}], l)
    /\ UNCHANGED <<kind, slot_data, server, ap, session, view, faults, commands>>

\* A check of _flush_pending_checks, after Connected was handled
FlushPending(l) ==
    /\ l \in ctx.flushing
    /\ CheckEmitted([ctx EXCEPT !.flushing = @ \ {l}], l)
    /\ UNCHANGED <<kind, slot_data, server, ap, session, view, faults, commands>>

-----------------------------------------------------------------------------
(* The commands of the console. *)

\* _parse_bit_spec
parse_bit_spec(spec) ==
    IF \A p \in spec : p[1] \in Bits /\ p[2] \in Bits /\ p[1] <= p[2]
    THEN UNION {p[1] .. p[2] : p \in spec} ELSE None

Command(kinds) ==
    /\ kind \in kinds /\ Room
    /\ commands < MaxCommands /\ commands' = commands + 1
    /\ UNCHANGED <<kind, slotVars, session, view, faults>>

cmd_replay_badges == Command({"badges"}) /\ Push(BadgeMask(ctx)) /\ UNCHANGED ctx

\* set_badge_probe_mask
ProbeBadges(mask) ==
    /\ ctx' = [ctx EXCEPT !.probe_mask = mask]
    /\ IF kind = "badges" THEN Push(BadgeMask(ctx')) ELSE UNCHANGED <<queue, last>>

cmd_badge_probe(bit) == Command({"badges", "badge_shop"}) /\ ProbeBadges({bit})

cmd_badge_probe_mask(mask) == Command({"badges"}) /\ ProbeBadges(mask)

cmd_badge_probe_range(spec) ==
    LET bits == parse_bit_spec(spec)
    IN Command({"badges"}) /\ bits \notin {None, {}} /\ ProbeBadges(bits)

cmd_badge_probe_clear == Command({"badges", "badge_shop"}) /\ ProbeBadges(None)

\* Bits of a badge that is known cannot be marked.
mapped_bits == Range(BADGES)

cmd_badge_probe_invalid(spec) ==
    LET bits == parse_bit_spec(spec)
    IN /\ Command({"badges"}) /\ bits \notin {None, {}} /\ bits \cap mapped_bits = {}
       /\ ctx' = [ctx EXCEPT !.probe_invalid = @ \cup bits] /\ UNCHANGED <<queue, last>>

cmd_badge_probe_clear_invalid ==
    /\ Command({"badges"})
    /\ ctx' = [ctx EXCEPT !.probe_invalid = {}] /\ UNCHANGED <<queue, last>>

\* next_unmapped_bit
next_unmapped_bit(after, extra_skip) ==
    LET open == {b \in Bits : b > after} \ (mapped_bits \cup extra_skip)
    IN IF open = {} THEN None ELSE Min(open)

\* From the bit that is probed, if it is one, else from the first
cmd_badge_probe_next ==
    LET after == IF ctx.probe_mask \in {{b} : b \in Bits} THEN Max(ctx.probe_mask) ELSE -1
        nxt   == next_unmapped_bit(after, ctx.probe_invalid)
    IN Command({"badges"}) /\ nxt # None /\ ProbeBadges({nxt})

\* set_itemget_deny_override; None goes back to what AP says.
cmd_deny_powerups(mask) ==
    /\ Command({"deny"})
    /\ ctx' = [ctx EXCEPT !.deny_override = mask]
    /\ Push(DenyMask(ctx'))

\* Not remembered, never replayed
cmd_send_royal_seeds(mask) == Command({"royal_seeds"}) /\ Send(<<mask>>) /\ UNCHANGED <<ctx, last>>

cmd_grant_hash(grant) == Command({"hash"}) /\ Send(<<grant>>) /\ UNCHANGED <<ctx, last>>

\* The next tick overwrites the routable worlds.
cmd_force_open_world(worlds) ==
    /\ Command({"routable", "unlock"})
    /\ Send(<<IF kind = "routable" THEN worlds ELSE TRUE>>) /\ UNCHANGED <<ctx, last>>

Console ==
    \/ cmd_replay_badges \/ cmd_badge_probe_clear \/ cmd_badge_probe_next
    \/ cmd_badge_probe_clear_invalid
    \/ \E bit \in Bits : cmd_badge_probe(bit)
    \/ \E mask \in SUBSET Bits : cmd_badge_probe_mask(mask)
    \/ \E spec \in BIT_SPECS : cmd_badge_probe_range(spec) \/ cmd_badge_probe_invalid(spec)
    \/ \E mask \in (SUBSET Range(DENY_BITS)) \cup {None} : cmd_deny_powerups(mask)
    \/ \E mask \in SUBSET ROYAL_SEEDS : cmd_send_royal_seeds(mask)
    \/ \E grant \in Grants : cmd_grant_hash(grant)
    \/ \E worlds \in SUBSET Worlds : cmd_force_open_world(worlds)

-----------------------------------------------------------------------------
(* AP and the faults. *)

FeedingItems ==
    CASE kind = "badges"                     -> DOMAIN BADGES
      [] kind = "deny"                       -> DOMAIN DENY_BITS
      [] kind = "charas"                     -> ROSTER
      [] kind \in {"seed_counts", "seed_bits"} -> DOMAIN SEEDS
      [] kind = "routable"                   -> ROYAL_SEEDS \cup {CASTLE_UNLOCK_ITEM}
      [] OTHER                               -> {}

SendItem(i) ==
    /\ i \in FeedingItems \ server /\ server' = server \cup {i}
    /\ UNCHANGED <<kind, slot_data, checked, ap, ctx, lanVars, view, faults, commands>>

\* Another slot collects what lies at a location of this one.
Collect(l) ==
    /\ l \in (FeedingLocations \cap SeedLocations) \ checked /\ checked' = checked \cup {l}
    /\ UNCHANGED <<kind, slot_data, server, ap, ctx, lanVars, view, faults, commands>>

Fault == faults < MaxFaults /\ faults' = faults + 1

LoseAp ==
    /\ Fault /\ ap = "in" /\ ap' = "dying"
    /\ UNCHANGED <<kind, slot_data, server, checked, ctx, lanVars, view, commands>>

\* CommonContext may or may not forget what it had of the server.
ApClosed ==
    /\ ap = "dying" /\ ap' = "down"
    /\ \/ ctx' = [ctx EXCEPT !.batch = FALSE]
       \/ ctx' = [ctx EXCEPT !.batch = FALSE, !.items_received = {}, !.locations_info = {}]
    /\ UNCHANGED <<kind, slot_data, server, checked, lanVars, view, faults, commands>>

\* _drop_active_client_locked; what LanServer remembers stays.
LoseLink ==
    /\ Fault /\ session # "none" /\ session' = "none" /\ queue' = <<>>
    /\ UNCHANGED <<kind, slotVars, ctx, last, view, commands>>

RebootSwitch ==
    /\ Fault /\ view' = Boot /\ session' = "none" /\ queue' = <<>>
    /\ UNCHANGED <<kind, slotVars, ctx, last, commands>>

RestartBridge ==
    /\ Fault /\ ctx' = NewContext /\ last' = Boot /\ ap' = "down"
    /\ session' = "none" /\ queue' = <<>>
    /\ UNCHANGED <<kind, slot_data, server, checked, view, commands>>

-----------------------------------------------------------------------------
SyncInit ==
    /\ \E start \in Starts :
          /\ kind = start.kind /\ slot_data = start.slot_data
          /\ faults = start.faults /\ commands = start.commands
    /\ server = {} /\ checked = {} /\ ap = "down" /\ ctx = NewContext
    /\ last = Boot /\ session = "none" /\ queue = <<>> /\ view = Boot

Bridge ==
    \/ Install \/ HandleHello \/ Tick
    \/ HandleDataPackage \/ Accepted \/ HandleConnected
    \/ HandleReceivedItems \/ HandleRoomUpdate \/ HandleLocationInfo
    \/ \E l \in Locations : HandleCheckEmitted(l) \/ FlushPending(l)

Environment ==
    \/ Deliver \/ ApClosed \/ LoseAp \/ LoseLink \/ RebootSwitch \/ RestartBridge
    \/ \E i \in Items : SendItem(i)
    \/ \E l \in Locations : Collect(l)

SyncNext == Bridge \/ Environment \/ Console

SyncSpec == SyncInit /\ [][SyncNext]_syncVars

\* The event loop runs what is ready, the 2 s timer fires, the writer sends,
\* the mod and CommonContext come back after a fault and AP answers.
SyncFairness ==
    /\ WF_syncVars(Install) /\ WF_syncVars(HandleHello) /\ WF_syncVars(Tick) /\ WF_syncVars(Deliver)
    /\ WF_syncVars(Accepted) /\ WF_syncVars(HandleConnected) /\ WF_syncVars(ApClosed)
    /\ WF_syncVars(HandleReceivedItems) /\ WF_syncVars(HandleRoomUpdate) /\ WF_syncVars(HandleLocationInfo)
    /\ \A l \in Locations : WF_syncVars(FlushPending(l))

SyncFairSpec == SyncSpec /\ SyncFairness

-----------------------------------------------------------------------------
(* Properties. *)

Contexts ==
    [connecting : BOOLEAN, batch : BOOLEAN, maps : BOOLEAN, applied : BOOLEAN,
     bowser_opened : BOOLEAN, items_received : SUBSET Items,
     checked_locations : SUBSET Locations, emitted : SUBSET Locations,
     pending : SUBSET Locations, flushing : SUBSET Locations,
     sent_loc_ids : SUBSET Locations, server_locations : SUBSET Locations,
     locations_info : SUBSET Locations,
     probe_mask : {None} \cup SUBSET Bits, probe_invalid : SUBSET Bits,
     deny_override : {None} \cup SUBSET Range(DENY_BITS)]

\* The messages of shop texts name a badge; the others are the values.
Messages ==
    IF kind = "shop_text" THEN (DOMAIN shop_badges) \X {"text", ""} ELSE Range(queue)

SyncTypeOK ==
    /\ server \subseteq Items /\ checked \subseteq Locations
    /\ ap \in {"down", "in", "dying"} /\ session \in {"none", "new", "greeted"}
    /\ ctx \in Contexts /\ queue \in Seq(Messages)
    /\ kind = "shop_text" => last \subseteq DOMAIN shop_badges
    /\ faults \in Nat /\ commands \in Nat

\* Kinds of which every change of what feeds them is pushed by the handler
\* that makes it; a test command of the console overrides one of them.
Prompt ==
    {"badges", "deny", "charas", "seed_counts", "seed_bits", "badge_shop", "seed_shop"}
        \cup (IF commands = 0 THEN {"routable"} ELSE {})

\* What the AP server has reached the context, and nothing is under way.
Settled ==
    /\ session = "greeted" /\ queue = <<>>
    /\ ap = "in" /\ ~ctx.connecting /\ ctx.flushing = {}
    /\ ~ctx.batch /\ ctx.items_received = server /\ ctx.checked_locations = checked

\* With nothing under way the mod has what the context computes now, before
\* any tick: no handler changes what feeds a message without pushing it
\* (context.py _handle_ap_package, _handle_received_items,
\* handle_check_emitted), and the Hello replays what was missed.
PromptlyShown ==
    Settled /\ Value(ctx) # Boot =>
        /\ kind \in Prompt => view = Value(ctx)
        /\ kind = "shop_text" => Value(ctx) \subseteq view

\* Once the item or the seeds it takes are received, the castle is flagged as
\* open (context.py _handle_ap_package: "otherwise the ReceivedItems batch
\* that follows Connected re-evaluates and re-opens if earned").  Not so, and
\* in no run: a batch that is handled while the Connected handler waits in
\* update_death_link comes before the flag is reset.
CastleLatched == Settled /\ CastleUnlocked(ctx) => ctx.bowser_opened

\* Kinds that are replayed until the mod has them; those that may be switched
\* off again are only shown to come on.
Shown ==
    CASE kind \in {"royal_seeds", "hash"} -> TRUE
      [] kind = "unlock" -> Value(ctx) => view
      [] kind = "shop_text" -> Value(ctx) \subseteq view
      [] kind \in {"deny", "charas", "seed_shop"} -> Value(ctx) # Boot => view = Value(ctx)
      [] OTHER -> view = Value(ctx)

\* Whatever the faults, AP's packets and the console do to it, the mod ends up
\* with what the context computes in the end (LanServer's replays on the
\* Hello and in _idempotent_sync_loop).
ShownInTheEnd == <>[]Shown
=============================================================================
