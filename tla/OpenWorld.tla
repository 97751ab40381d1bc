------------------------------ MODULE OpenWorld ------------------------------
(***************************************************************************)
(* Open-world mode from generation to play.  The generator takes its       *)
(* slots through each stage in turn: the worlds are chosen                 *)
(* (__init__.py), the region graph is detached from its spine              *)
(* (open_world.py), the pool is made, and the rules are set from a region  *)
(* table that all slots share (Rules.py, hooks/World.py).  AP's fill then  *)
(* places the items of one slot where its logic can win, and that slot is  *)
(* played: the client bounces the player out of the courses that           *)
(* Processor's Gate and the context's requirements lock.  Fill, the AP     *)
(* server and the roads of the game's maps are external.                   *)
(*                                                                         *)
(* An item is <<category, world>>.  What an exit or a location requires is *)
(* a set of strings (Requires.tla), all to be met.                         *)
(***************************************************************************)
EXTENDS Processor, Requires

CONSTANTS
    WORLD_NUMBERS,
    region_table,    \* region -> connects_to, requires; a region has its world, 0 for none
    location_table,  \* location -> region, requires, stage, bc (is it a "BC:" course?)
    item_table,      \* item -> count
    PALACE_LOCATION, \* world -> location
    Slots,           \* the slots, in the order in which they are generated
    Played,          \* the slot that is played
    Options          \* the options the slots may have, functions on the slots

Start(n)    == [w |-> n, at |-> "Start"]
Manual      == [w |-> 0, at |-> "Manual"]
Bowser      == [w |-> 0, at |-> "World Bowser"]
Hub         == {r \in DOMAIN region_table : r.at = "PI"}
BOWSER_VICTORY_LOCATION == "BC: Bowser's Rage Stage"
OPENING_COURSE          == "W1-1"

WonderSeed(n)      == <<"Wonder Seed", n>>     \* 0: Petal Isles
RoyalSeed(n)       == <<"Royal Seed", n>>
Unlock(n)          == <<"Unlock", n>>
CASTLE_UNLOCK_ITEM == Unlock(CastleWorld)
Filler             == <<"Filler", 0>>

Tokens == [t : {"(", ")", "AND", "OR"}]
          \cup [t : {"item", "OptOne"}, i : DOMAIN item_table, n : Nat]
          \cup [t : {"category"}, c : {x[1] : x \in DOMAIN item_table}, n : Nat]

ASSUME OpenWorldAssumption ==
    /\ IsFiniteSet(WORLD_NUMBERS) /\ CastleWorld \notin WORLD_NUMBERS
    /\ \A x \in WORLD_NUMBERS \cup SUBSET WORLD_NUMBERS : x # None
    /\ region_table \in [DOMAIN region_table ->
                            [connects_to : SUBSET DOMAIN region_table,
                             requires    : Seq(Tokens)]]
    /\ {Manual, Bowser} \cup {Start(n) : n \in WORLD_NUMBERS} \subseteq DOMAIN region_table
    /\ BOWSER_VICTORY_LOCATION \in DOMAIN location_table
    /\ Slots \in Seq(ToSet(Slots)) /\ Played \in ToSet(Slots)
    /\ Options \subseteq [ToSet(Slots) -> [open_world         : BOOLEAN,
                                          open_world_count   : Nat,
                                          palaces_required   : Int,
                                          world_unlock_items : BOOLEAN,
                                          badge_level_entry_gating : BOOLEAN]]

VARIABLES
    stage,      \* "early", "regions", "items", "rules", "fill" or "play"
    turn,       \* the slot whose turn it is in this stage, an index
    half,       \* in set_rules: "before", "set", "after"
    regionMap,  \* the region table all slots share
    opts,       \* slot -> the options
    world,      \* slot -> what generate_early resolved
    graph,      \* slot -> exits and locations of its regions
    pool,       \* slot -> item -> copies
    pre,        \* slot -> item -> copies precollected
    rules,      \* slot -> the rules of its exits and locations
    placed,     \* the placement, location -> item
    \* The played slot's client and server.
    checked,    \* locations checked
    ap,         \* "down", "connecting": Connected is being handled; "in"
    applied,    \* has the client ever read slot_data?
    synced,     \* have the items of the server been received?
    opened      \* _bowser_opened

genVars  == <<opts, world, graph, pool, pre, rules>>
playVars == <<checked, ap, applied, synced, opened>>
vars == <<stage, turn, half, regionMap, genVars, placed, playVars>>

-----------------------------------------------------------------------------
(* generate_early. *)

ResolvePalaces(o, active) ==
    IF o.palaces_required <= 0 THEN Cardinality(active)
    ELSE Max({1, Min({o.palaces_required, Cardinality(active)})})

NoPins == [active |-> None, start |-> None]

(* The worlds a slot may get; pins stand in for the dice.                  *)
GenerateEarly(o, pins) ==
    IF ~o.open_world
    THEN {[open_world |-> FALSE, active |-> WORLD_NUMBERS, start |-> None, unlocks |-> FALSE,
           palaces_required |-> Cardinality(WORLD_NUMBERS)]}
    ELSE UNION {{[open_world |-> TRUE, active |-> a, start |-> s,
                  unlocks |-> o.world_unlock_items,
                  palaces_required |-> ResolvePalaces(o, a)] :
                    s \in CASE ~o.world_unlock_items -> {None}
                            [] o.world_unlock_items /\ pins.start # None -> {pins.start}
                            [] OTHER -> a} :
                  a \in IF pins.active # None THEN {pins.active}
                        ELSE {x \in SUBSET WORLD_NUMBERS : Cardinality(x) = o.open_world_count}}

-----------------------------------------------------------------------------
(* create_regions, with its after-hook. *)

DataGraph ==
    [exits |-> [r \in DOMAIN region_table |-> region_table[r].connects_to],
     locs  |-> [r \in DOMAIN region_table |->
                   {l \in DOMAIN location_table : location_table[l].region = r}]]

(* Only edges within a world stay, and Manual leads to each active world   *)
(* and to the castle.                                                      *)
Restructure(g, w) ==
    [g EXCEPT !.exits = [r \in DOMAIN @ |->
        IF r = Manual THEN {Start(n) : n \in w.active} \cup {Bowser}
        ELSE {t \in @[r] : r.w # 0 /\ t.w = r.w}]]

StripInactive(g, w) ==
    [g EXCEPT !.locs = [r \in DOMAIN @ |->
        CASE r = Bowser -> {l \in @[r] : location_table[l].bc}
          [] r.w # 0 /\ r.w \notin w.active -> {}
          [] r \in Hub -> {}
          [] OTHER -> @[r]]]

UngateOpeningCourse(g, w) ==
    IF w.unlocks /\ 1 \in w.active
    THEN LET moved == g.locs[Start(1)] \cap {OPENING_COURSE}
         IN [g EXCEPT !.locs[Start(1)] = @ \ moved, !.locs[Manual] = @ \cup moved]
    ELSE g

CreateRegions(w) ==
    IF w.open_world
    THEN UngateOpeningCourse(StripInactive(Restructure(DataGraph, w), w), w)
    ELSE DataGraph

Locations(g) == UNION {g.locs[r] : r \in DOMAIN g.locs}

-----------------------------------------------------------------------------
(* create_items, with its hook. *)

Items == DOMAIN item_table \cup {Filler}

(* What is granted at the start: the start world's Unlock, the Petal Isles *)
(* seeds, and the Wonder Seeds of the worlds that are not played.          *)
Precollected(w) ==
    [i \in Items |->
        IF ~w.open_world THEN 0
        ELSE CASE i[1] = "Wonder Seed" /\ i[2] \notin w.active -> item_table[i]
               [] i[1] = "Unlock" /\ w.unlocks /\ i[2] = w.start -> 1
               [] OTHER -> 0]

(* The Unlocks are in a category that an option of the slot enables.       *)
is_item_enabled(w, i) == i[1] = "Unlock" => w.unlocks

(* inactive_item_pool keeps every Royal Seed and the castle's Unlock.      *)
Kept(w, i) ==
    (w.open_world /\ i[1] \in {"Unlock", "Wonder Seed"})
        => i[2] \in w.active \/ i = CASTLE_UNLOCK_ITEM

(* Filler for the locations that the items leave free; what progression    *)
(* items there are too many of stays.                                      *)
adjust_filler_items(base, free) ==
    LET n == MapThenSumSet(LAMBDA i : base[i], DOMAIN base)
    IN [i \in Items |-> IF i # Filler THEN base[i] ELSE Max({0, free - n})]

(* The start Unlock leaves the pool.                                       *)
CreateItems(w, g) ==
    adjust_filler_items(
        [i \in DOMAIN item_table |->
            IF is_item_enabled(w, i) /\ Kept(w, i)
            THEN item_table[i] - (IF i[1] = "Unlock" /\ i[2] = w.start THEN 1 ELSE 0) ELSE 0],
        Cardinality(Locations(g) \ {BOWSER_VICTORY_LOCATION}))

-----------------------------------------------------------------------------
(* set_rules, with its hooks. *)

(* The entry gates of the active worlds and of the castle are dropped, in  *)
(* the shared table.                                                       *)
Neutralized(w) == {Start(n) : n \in w.active} \cup {Bowser}

BeforeSetRules(w) ==
    regionMap' = [r \in DOMAIN regionMap |->
                    IF w.open_world /\ r \in Neutralized(w)
                    THEN [regionMap[r] EXCEPT !.requires = <<>>] ELSE regionMap[r]]

(* An exit needs what its source requires, a location what it and its      *)
(* region of the data table require, as the table reads now.               *)
SetRules(g) ==
    [exit |-> [r \in DOMAIN g.exits |-> [t \in g.exits[r] |-> {regionMap[r].requires}]],
     loc  |-> [l \in Locations(g) |->
                  [requires |-> {location_table[l].requires,
                                 regionMap[location_table[l].region].requires},
                   palaces  |-> 0]]]

\* Mutation: the shared table keeps this slot's neutralized entries.
RestoreNothing(w) == UNCHANGED regionMap

Restore(w) ==
    regionMap' = [r \in DOMAIN regionMap |->
                    IF w.open_world /\ r \in Neutralized(w) THEN region_table[r] ELSE regionMap[r]]

(* make_bowser_gate: all Royal Seeds, and that many palaces in reach.      *)
BowserGate(w) == [requires |-> {<<Need(RoyalSeed(n), 1)>> : n \in WORLD_NUMBERS},
                  palaces  |-> w.palaces_required]

\* Mutation: the goal needs the Royal Seeds alone.
GateFinalBySeeds(w, rule) ==
    [requires |-> rule.requires \cup BowserGate(w).requires, palaces |-> 0]

GateFinalBowserCourse(w, rule) ==
    [requires |-> rule.requires \cup BowserGate(w).requires, palaces |-> BowserGate(w).palaces]

AfterSetRules(w, ru) ==
    IF ~w.open_world THEN ru
    ELSE [exit |-> [ru.exit EXCEPT ![Manual] = [t \in DOMAIN @ |->
                        CASE ~w.unlocks              -> @[t]
                          [] w.unlocks /\ t = Bowser -> {<<Need(CASTLE_UNLOCK_ITEM, 1)>>}
                          [] OTHER                   -> {<<Need(Unlock(t.w), 1)>>}]],
          loc  |-> [ru.loc EXCEPT ![BOWSER_VICTORY_LOCATION] = GateFinalBowserCourse(w, @)]]

-----------------------------------------------------------------------------
(* AP's logic over a slot's graph and rules. *)

Met(requires, counts, have) ==
    \A string \in requires : checkRequireString(string, have, counts)

Reachable(g, ru, counts, have) ==
    LET N == Cardinality(DOMAIN g.exits)
        R[k \in 0..N] ==
            IF k = 0 THEN {Manual}
            ELSE LET S == R[k - 1]
                 IN S \cup UNION {{t \in g.exits[r] : Met(ru.exit[r][t], counts, have)} : r \in S}
    IN R[N]

(* The locations in logic: reachable, their rule met, and for the goal as   *)
(* many palaces as its gate wants.                                         *)
InLogic(g, ru, counts, have) ==
    LET can == {l \in UNION {g.locs[r] : r \in Reachable(g, ru, counts, have)} :
                    Met(ru.loc[l].requires, counts, have)}
        palaces == Cardinality({n \in WORLD_NUMBERS : PALACE_LOCATION[n] \in can})
    IN {l \in can : palaces >= ru.loc[l].palaces}

Have(locs, at, base) ==
    [i \in DOMAIN base |-> base[i] + Cardinality({l \in locs \cap DOMAIN at : at[l] = i})]

(* Can the goal be reached by collecting whatever logic can reach?         *)
CanBeat(g, ru, counts, at, base) ==
    LET N == Cardinality(DOMAIN at) + 1
        S[k \in 0..N] ==
            IF k = 0 THEN {}
            ELSE InLogic(g, ru, counts, Have(S[k - 1], at, base))
    IN BOWSER_VICTORY_LOCATION \in S[N]

-----------------------------------------------------------------------------
(* The generator. *)

Me == world[Played]

\* Mutation: the start world is not among the pins.
PinsActiveOnly(sd) == [active |-> sd.open_world_active, start |-> None]

(* hook_interpret_slot_data: what a tracker takes from the slot data.      *)
Pins(sd) == [active |-> sd.open_world_active, start |-> sd.open_world_start_world]

(* fill_slot_data exports the options, palaces_required as resolved, and   *)
(* its hook the rolls.                                                     *)
FillSlotData(p) ==
    [opts[p] EXCEPT !.palaces_required =
        IF world[p].open_world THEN world[p].palaces_required ELSE @]

SlotData(p) ==
    [options                    |-> FillSlotData(p),
     open_world_active          |-> IF world[p].open_world THEN world[p].active ELSE None,
     open_world_castle_unlock   |-> world[p].open_world,
     open_world_unlock_items    |-> world[p].unlocks,
     open_world_start_world     |-> world[p].start]

(* A tracker's generator applies slot data before it rolls.                *)
apply_slot_data(sd) == GenerateEarly(sd.options, Pins(sd))

(* A slot is done with its stage; after the last slot the next stage.      *)
Advance(next) ==
    IF turn < Len(Slots) THEN turn' = turn + 1 /\ UNCHANGED stage
    ELSE turn' = 1 /\ stage' = next

Early ==
    LET p == Slots[turn]
    IN /\ stage = "early" /\ Advance("regions")
       /\ \E w \in GenerateEarly(opts[p], NoPins) : world' = [world EXCEPT ![p] = w]
       /\ UNCHANGED <<half, regionMap, opts, graph, pool, pre, rules, placed, playVars>>

Regions ==
    LET p == Slots[turn]
    IN /\ stage = "regions" /\ Advance("items")
       /\ graph' = [graph EXCEPT ![p] = CreateRegions(world[p])]
       /\ UNCHANGED <<half, regionMap, opts, world, pool, pre, rules, placed, playVars>>

ItemPool ==
    LET p == Slots[turn]
    IN /\ stage = "items" /\ Advance("rules")
       /\ pool' = [pool EXCEPT ![p] = CreateItems(world[p], graph[p])]
       /\ pre' = [pre EXCEPT ![p] = Precollected(world[p])]
       /\ UNCHANGED <<half, regionMap, opts, world, graph, rules, placed, playVars>>

Rules ==
    LET p == Slots[turn]
    IN /\ stage = "rules"
       /\ CASE half = "before" ->
                 /\ BeforeSetRules(world[p]) /\ half' = "set" /\ UNCHANGED <<rules, turn, stage>>
            [] half = "set" ->
                 /\ rules' = [rules EXCEPT ![p] = SetRules(graph[p])]
                 /\ half' = "after" /\ UNCHANGED <<regionMap, turn, stage>>
            [] half = "after" ->
                 /\ Restore(world[p])
                 /\ rules' = [rules EXCEPT ![p] = AfterSetRules(world[p], @)]
                 /\ half' = "before" /\ Advance("fill")
       /\ UNCHANGED <<opts, world, graph, pool, pre, placed, playVars>>

(* Fill puts some item of the pool at a location that has none ...         *)
Unfilled == Locations(graph[Played]) \ ({BOWSER_VICTORY_LOCATION} \cup DOMAIN placed)

Place ==
    /\ stage = "fill" /\ Unfilled # {}
    /\ LET l == CHOOSE x \in Unfilled : TRUE
       IN \E i \in Items :
            /\ pool[Played][i] > Cardinality({x \in DOMAIN placed : placed[x] = i})
            /\ placed' = [x \in DOMAIN placed \cup {l} |-> IF x = l THEN i ELSE placed[x]]
    /\ UNCHANGED <<stage, turn, half, regionMap, genVars, playVars>>

(* ... and the seed is played when its logic can win it.                   *)
Play ==
    /\ stage = "fill" /\ Unfilled = {}
    /\ CanBeat(graph[Played], rules[Played], pool[Played], placed, pre[Played])
    /\ stage' = "play"
    /\ UNCHANGED <<turn, half, regionMap, genVars, placed, playVars>>

-----------------------------------------------------------------------------
(* The client of the played slot. *)

ItemsReceived ==
    IF synced THEN Have(checked, placed, pre[Played]) ELSE [i \in Items |-> 0]

Owns(i) == synced /\ (pre[Played][i] > 0 \/ \E l \in checked \cap DOMAIN placed : placed[l] = i)

(* self.open_world: off until the first Connected is through.              *)
InOpenWorld == applied /\ Me.open_world

(* _recompute_locked_worlds: the active worlds and the castle, less the    *)
(* Unlocks received.                                                       *)
LockedWorlds ==
    IF InOpenWorld /\ Me.unlocks
    THEN {n \in Me.active \cup {CastleWorld} : ~Owns(Unlock(n))} ELSE {}

CastleUnlocked == InOpenWorld /\ (Me.unlocks => Owns(CASTLE_UNLOCK_ITEM))

(* location_table: the check that stands for a location.                   *)
CheckOf(l) ==
    LET s == location_table[l].stage
    IN <<IF s.kind = "palace" THEN "palace_clear" ELSE "normal_exit", s.stage_key>>

_TABLE == [c \in {CheckOf(l) : l \in DOMAIN location_table} |->
              CHOOSE l \in DOMAIN location_table : CheckOf(l) = c]

lookup_name(check) == IF check \in DOMAIN _TABLE THEN _TABLE[check] ELSE None

PALACE_STAGE_KEYS ==
    {s.stage_key : s \in {x \in {location_table[l].stage : l \in DOMAIN location_table} :
                             x.kind = "palace" /\ x.castle = "no"}}

PalacesCleared ==
    Cardinality({lookup_name(<<"palace_clear", k>>) : k \in PALACE_STAGE_KEYS} \cap checked)

(* _gate_requirement_met.                                                  *)
RequirementMet(gate) ==
    CASE gate[1] = "badge"        -> Owns(<<"Badge", gate[2]>>)
      [] gate[1] = "world_unlock" -> Owns(Unlock(gate[2]))
      [] gate[1] = "royal_seeds"  ->
            /\ \A n \in WORLD_NUMBERS : Owns(RoyalSeed(n))
            /\ InOpenWorld => PalacesCleared >= Me.palaces_required

GateCourseInLogic(gate, s) ==
    (InOpenWorld /\ gate[1] # "royal_seeds" /\ gate # <<"world_unlock", CastleWorld>>)
        => s.world \in Me.active

(* Is the player who enters stage s killed until he leaves?  The badge     *)
(* gates have an option of their own.                                      *)
Bounced(s) ==
    LET gate == Gate(s, LockedWorlds, InOpenWorld)
    IN /\ gate # None /\ GateCourseInLogic(gate, s) /\ ~RequirementMet(gate)
       /\ gate[1] = "badge" => applied /\ opts[Played].badge_level_entry_gating

(* The roads of the game.  The seed counters it shows are AP's, the world  *)
(* entrances are open in open-world mode, and the castle when it is made   *)
(* routable; in standard mode the castle wants the palaces cleared.        *)
Roads ==
    LET open == Me.open_world
    IN [r \in DOMAIN region_table |->
          CASE open /\ r.at = "Start" -> <<>>
            [] r = Bowser -> <<>>
            [] OTHER -> region_table[r].requires]

Walkable ==
    LET have  == Have(checked, placed, pre[Played])
        spine == IF Me.open_world THEN Restructure(DataGraph, Me) ELSE DataGraph
        road  == [exit |-> [r \in DOMAIN spine.exits |-> [t \in spine.exits[r] |-> {Roads[r]}]]]
        reach == Reachable(spine, road, pool[Played], have)
        castle == IF Me.open_world THEN opened ELSE PalacesCleared = Cardinality(WORLD_NUMBERS)
        Walk(l) ==
            LET r == location_table[l].region
            IN /\ r \in reach \/ l = OPENING_COURSE
               /\ Met({Roads[r], location_table[l].requires}, pool[Played], have)
               /\ r = Bowser => castle
    IN {l \in Locations(graph[Played]) : Walk(l)}

(* A course is cleared: its check is sent, the item comes back, and with   *)
(* it the castle may be unlocked.  Left out is what is cleared before the  *)
(* client ever read slot_data, when it gates no world.                     *)
Clear ==
    /\ stage = "play" /\ applied /\ synced
    /\ \E l \in Walkable \ checked :
         ~Bounced(location_table[l].stage) /\ checked' = checked \cup {l}
    /\ UNCHANGED <<stage, turn, half, regionMap, genVars, placed, ap, applied, synced>>
    /\ opened' = (opened \/ CastleUnlocked')

(* A new connection: the Connected handler runs up to its await of         *)
(* update_death_link.                                                      *)
Accepted ==
    /\ stage = "play" /\ ap # "connecting" /\ ap' = "connecting" /\ synced' = FALSE
    /\ UNCHANGED <<stage, turn, half, regionMap, genVars, placed, checked, applied, opened>>

(* The rest of it reads slot_data and sets the latch anew.                 *)
Connected ==
    /\ ap = "connecting" /\ ap' = "in" /\ applied' = TRUE
    /\ opened' = (Me.open_world /\ ~Me.unlocks)
    /\ UNCHANGED <<stage, turn, half, regionMap, genVars, placed, checked, synced>>

(* The batch of the new connection, in a task of its own: it may be        *)
(* handled while Connected awaits.                                         *)
ReceivedItems ==
    /\ ap # "down" /\ ~synced /\ synced' = TRUE
    /\ UNCHANGED <<stage, turn, half, regionMap, genVars, placed, checked, ap, applied>>
    /\ opened' = (opened \/ CastleUnlocked')

-----------------------------------------------------------------------------
Init ==
    /\ stage = "early" /\ turn = 1 /\ half = "before" /\ regionMap = region_table
    /\ opts \in Options
    /\ LET none == [p \in ToSet(Slots) |-> None]
       IN world = none /\ graph = none /\ pool = none /\ pre = none /\ rules = none
    /\ placed = <<>> /\ checked = {} /\ ap = "down" /\ applied = FALSE
    /\ synced = FALSE /\ opened = FALSE

Next == \/ Early \/ Regions \/ ItemPool \/ Rules \/ Place \/ Play
        \/ Clear \/ Accepted \/ Connected \/ ReceivedItems

Spec == Init /\ [][Next]_vars

-----------------------------------------------------------------------------
(* Properties. *)

(* The rules of a slot read the gates of the data table, less its own      *)
(* neutralized ones, whatever slots were generated around it.              *)
NoBleed ==
    (stage = "fill" /\ placed = <<>>) => \A p \in ToSet(Slots) :
        \A l \in Locations(graph[p]) \ {BOWSER_VICTORY_LOCATION} :
            LET r == location_table[l].region
            IN rules[p].loc[l].requires =
                  {location_table[l].requires,
                   IF world[p].open_world /\ r \in Neutralized(world[p]) THEN <<>>
                   ELSE region_table[r].requires}

(* A tracker that generates the seed anew from its slot data gets the same *)
(* worlds, start and threshold, whatever its dice say.                     *)
TrackerAgrees ==
    (stage = "fill" /\ placed = <<>>) => \A p \in ToSet(Slots) :
        apply_slot_data(SlotData(p)) = {world[p]}

Logical == InLogic(graph[Played], rules[Played], pool[Played], ItemsReceived)

(* The client has handled both packets of its connection.                  *)
Settled == stage = "play" /\ ap = "in" /\ synced

(* The items were handled first, and Connected closed the castle they had  *)
(* opened: it stays closed until the next item comes.                      *)
LatchLost == CastleUnlocked /\ ~opened

(* The client's gates and AP's logic agree: no course that logic counts on *)
(* is a death trap, but for the goal until the palaces are cleared, and in *)
(* open-world mode no course outside logic can be stayed in.  The castle's *)
(* road is closed while its latch is lost.                                 *)
GatesMatchLogic ==
    Settled =>
        LET logical == Logical  walkable == Walkable
        IN \A l \in Locations(graph[Played]) \ checked :
            LET s == location_table[l].stage
                cleared == l = BOWSER_VICTORY_LOCATION /\ Me.open_world
                              => PalacesCleared >= Me.palaces_required
                lost == location_table[l].region = Bowser /\ LatchLost
            IN /\ l \in logical /\ cleared => ~Bounced(s)
               /\ Me.open_world /\ ~lost
                     => (l \in walkable /\ ~Bounced(s) <=> l \in logical /\ cleared)

Stuck == Settled /\ \A l \in Walkable \ checked : Bounced(location_table[l].stage)

(* A seed that fill's logic can win is won by who plays all that the gates *)
(* let him, unless he was connected last with the items ahead.             *)
Beatable ==
    Me # None /\ Me.open_world /\ Stuck => BOWSER_VICTORY_LOCATION \in checked \/ LatchLost

(* The same in whatever order Connected and the items are handled          *)
(* (context.py:421-423).                                                   *)
BeatableInAnyOrder ==
    Me # None /\ Me.open_world /\ Stuck => BOWSER_VICTORY_LOCATION \in checked

(* The same of a standard seed, whose castle the game opens for palaces    *)
(* cleared and logic for Royal Seeds received.                             *)
BeatableStandard == Me # None /\ Stuck => BOWSER_VICTORY_LOCATION \in checked
=============================================================================
