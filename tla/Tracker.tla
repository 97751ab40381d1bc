-------------------------------- MODULE Tracker --------------------------------
(***************************************************************************)
(* The PopTracker pack's logic, as scripts/generate_tracker_logic.py makes *)
(* it from the data of the apworld: a rule for each location, in Lua, over *)
(* the items and the slot data that the pack's autotracker has of the      *)
(* played slot.  It is a second implementation of AP's logic, compiled     *)
(* from the same strings, with the open-world mode coded anew, and         *)
(* scripts/_validate_tracker_logic.py has a third one to test it with.     *)
(*                                                                         *)
(* A rule's Lua text is modelled by its value.  A rule that compiles to    *)
(* true is dropped from its conjunction, and a region's value is cached    *)
(* until the next item: neither changes it.  The pack's own scripts are    *)
(* external.                                                               *)
(***************************************************************************)
EXTENDS OpenWorld

CONSTANT Sections    \* the locations that the pack has a section for

ASSUME TrackerAssumption == Sections \subseteq DOMAIN location_table

ALWAYS_AVAILABLE_CATEGORIES == {"Button", "Wonder Effect", "Wonder Flower"}

always_available == {i \in DOMAIN item_table : i[1] \in ALWAYS_AVAILABLE_CATEGORIES}

\* The seeds of no numbered world.
OPEN_FREE_SEEDS ==
    {i \in DOMAIN item_table : i[1] = "Wonder Seed" /\ i[2] \notin WORLD_NUMBERS}

(* The slot's items, and what the pack has of an item: an item of which    *)
(* there is one is a toggle.                                               *)
Inventory == Have(checked, placed, pre[Played])

ProviderCountForCode(i) ==
    IF item_table[i] > 1 THEN Inventory[i] ELSE Min({Inventory[i], 1})

Total(items) == MapThenSumSet(LAMBDA i : ProviderCountForCode(i), items)

-----------------------------------------------------------------------------
(* From requires strings to rules. *)

Atoms(string) == {k \in DOMAIN string : string[k].t \in {"item", "category", "OptOne"}}

(* A string by its tree, value being that of each atom: AND binds tighter. *)
Parse(string, value) ==
    LET Depth(i, k) == Cardinality({m \in i..k : string[m].t = "("})
                       - Cardinality({m \in i..k : string[m].t = ")"})
        Top(op, i, k) == {m \in i..k : string[m].t = op /\ Depth(i, m) = 0}
        Value[i \in 1..Len(string), k \in 1..Len(string)] ==
            CASE Top("OR", i, k) # {} ->
                    LET m == Min(Top("OR", i, k)) IN Value[i, m - 1] \/ Value[m + 1, k]
              [] Top("OR", i, k) = {} /\ Top("AND", i, k) # {} ->
                    LET m == Min(Top("AND", i, k)) IN Value[i, m - 1] /\ Value[m + 1, k]
              [] OTHER ->
                    IF string[i].t = "(" THEN Value[i + 1, k - 1] ELSE value[i]
    IN string = <<>> \/ Value[1, Len(string)]

(* _item_atom: OptOne clamps to the copies in the data table; one that is  *)
(* always available counts for itself and for one of its category.         *)
ItemAtom(a, free) ==
    CASE a.t = "category" ->
           LET members == {i \in DOMAIN item_table : i[1] = a.c}
           IN Total(members \ free) >= a.n - Cardinality(members \cap free)
      [] a.t = "item" ->
           a.i \in free \/ ProviderCountForCode(a.i) >= Max({1, a.n})
      [] a.t = "OptOne" ->
           a.i \in free \/ ProviderCountForCode(a.i) >= Min({a.n, item_table[a.i]})

compile(string, free) ==
    Parse(string, [k \in Atoms(string) |-> ItemAtom(string[k], free)])

-----------------------------------------------------------------------------
(* The Lua helpers, over the slot data. *)

SLOT_DATA == SlotData(Played)
SMBW_OPEN == SLOT_DATA.options.open_world

smbw_world_active(n) == SLOT_DATA.open_world_active # None /\ n \in SLOT_DATA.open_world_active

\* Mutation: the Unlock items are not looked at.
WorldsUnlocked(n) == TRUE

smbw_world_unlocked(n) ==
    (SLOT_DATA.open_world_unlock_items /\ Unlock(n) \in DOMAIN item_table)
        => ProviderCountForCode(Unlock(n)) > 0

smbw_open_palaces ==
    Cardinality({n \in SLOT_DATA.open_world_active : ProviderCountForCode(RoyalSeed(n)) > 0})
        >= SLOT_DATA.options.palaces_required

\* Seeds without the flag keep the castle behind the palaces.
smbw_castle_open ==
    IF ~SLOT_DATA.open_world_castle_unlock THEN smbw_open_palaces
    ELSE SLOT_DATA.open_world_unlock_items => ProviderCountForCode(CASTLE_UNLOCK_ITEM) > 0

-----------------------------------------------------------------------------
(* The rules. *)

\* Manual stands for the start and is no region of the data file.
starting(r) == r \in region_table[Manual].connects_to
parents(r)  == {s \in DOMAIN region_table \ {Manual} : r \in region_table[s].connects_to}

\* What a region is in open-world mode where that is not its standard body.
open_body(r) ==
    CASE r.at = "Start" -> /\ smbw_world_active(r.w) /\ smbw_world_unlocked(r.w)
                           /\ compile(region_table[r].requires, always_available \cup OPEN_FREE_SEEDS)
      [] r = Bowser     -> smbw_castle_open
      [] r \in Hub      -> FALSE

(* full(R) = R.requires AND OR(full(parents)).                             *)
Region_full ==
    LET R[r \in DOMAIN region_table \ {Manual}] ==
            IF SMBW_OPEN /\ (r.at = "Start" \/ r = Bowser \/ r \in Hub) THEN open_body(r)
            ELSE /\ compile(region_table[r].requires, always_available)
                 /\ starting(r) \/ \E p \in parents(r) : R[p]
    IN R

(* In open-world mode the castle keeps its courses, the goal wants the     *)
(* palaces too, and the opening course only its world.                     *)
smbw_loc(l, full) ==
    LET r == location_table[l].region
        own == compile(location_table[l].requires, always_available)
    IN CASE SMBW_OPEN /\ r = Bowser /\ ~location_table[l].bc -> FALSE
         [] SMBW_OPEN /\ l = BOWSER_VICTORY_LOCATION -> full[r] /\ own /\ smbw_open_palaces
         [] SMBW_OPEN /\ l = OPENING_COURSE -> smbw_world_active(1) /\ own
         [] OTHER -> full[r] /\ own

(* inject_access_rules: the sections that show as accessible.              *)
Green == LET full == Region_full IN {l \in Sections : smbw_loc(l, full)}

-----------------------------------------------------------------------------
(* The model that _validate_tracker_logic.py tests the Lua against. *)

\* In open-world mode what is granted at the start is held in full.
inv_open == [i \in Items |->
                IF i \in always_available \/ (SMBW_OPEN /\ i \in OPEN_FREE_SEEDS)
                THEN item_table[i] ELSE Inventory[i]]

pyeval(string, inv) ==
    LET Asked(a) == IF a.t = "OptOne" THEN Min({a.n, item_table[a.i]}) ELSE a.n
    IN Parse(string, [k \in Atoms(string) |-> Held(string[k], inv) >= Asked(string[k])])

open_full ==
    LET F[r \in DOMAIN region_table \ {Manual}] ==
            /\ pyeval(region_table[r].requires, inv_open)
            /\ CASE ~SMBW_OPEN -> starting(r) \/ \E p \in parents(r) : F[p]
                 [] SMBW_OPEN /\ r.at = "Start" ->
                      /\ r.w \in SLOT_DATA.open_world_active
                      /\ SLOT_DATA.open_world_unlock_items => inv_open[Unlock(r.w)] > 0
                 [] OTHER -> \E p \in parents(r) : p.w = r.w /\ F[p]
    IN F

py_open_access(l, full) ==
    LET r      == location_table[l].region
        own    == pyeval(location_table[l].requires, inv_open)
        royals == Cardinality({n \in SLOT_DATA.open_world_active : Inventory[RoyalSeed(n)] > 0})
                    >= SLOT_DATA.options.palaces_required
    IN CASE ~SMBW_OPEN -> full[r] /\ own
         [] SMBW_OPEN /\ r = Bowser ->
              /\ location_table[l].bc /\ own
              /\ IF SLOT_DATA.open_world_castle_unlock
                 THEN SLOT_DATA.open_world_unlock_items => inv_open[CASTLE_UNLOCK_ITEM] > 0
                 ELSE royals
              /\ l = BOWSER_VICTORY_LOCATION => royals
         [] OTHER ->
              /\ r \notin Hub /\ r.w \in SLOT_DATA.open_world_active /\ own
              /\ l = OPENING_COURSE \/ full[r]

-----------------------------------------------------------------------------
(* The pack shows what AP's logic can reach, neither more nor less, in     *)
(* standard and in open-world mode, and what the harness expects; only the *)
(* goal may show before it is in logic, as the Lua counts the Royal Seeds  *)
(* of the active worlds and AP's gate wants all of them.                   *)
TrackerShowsLogic ==
    stage = "play" =>
        LET logical == InLogic(graph[Played], rules[Played], pool[Played], Inventory)
            full    == open_full
        IN /\ logical \cap Sections \subseteq Green
           /\ Green \ logical \subseteq (IF Me.open_world THEN {BOWSER_VICTORY_LOCATION} ELSE {})
           /\ Green = {l \in Sections : py_open_access(l, full)}

(* What the generator's docstring says of its rules: AP reachability.      *)
GreenIsLogical ==
    stage = "play" =>
        Green \subseteq InLogic(graph[Played], rules[Played], pool[Played], Inventory)
=============================================================================
