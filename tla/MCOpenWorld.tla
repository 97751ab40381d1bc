---------------------------- MODULE MCOpenWorld ----------------------------
(* OpenWorld over two worlds of two regions each, shaped like data/*.json. *)
EXTENDS Tracker

CONSTANTS other, played

Region(n, at) == [w |-> n, at |-> at]
PI == Region(0, "PI")
Badge == <<"Badge", 5>>

MCRegions ==
    Region(0, "Manual") :> [connects_to |-> {Start(1)}, requires |-> <<>>]
    @@ Start(1) :> [connects_to |-> {Region(1, "Post-Badge")}, requires |-> <<>>]
    @@ Region(1, "Post-Badge") :> [connects_to |-> {PI}, requires |-> <<Need(Badge, 1)>>]
    @@ PI :> [connects_to |-> {Start(2)}, requires |-> <<>>]
    @@ Start(2) :> [connects_to |-> {Region(2, "Seeds"), Bowser},
                    requires |-> <<Need(WonderSeed(0), 1)>>]
    @@ Region(2, "Seeds") :> [connects_to |-> {}, requires |-> <<Need(WonderSeed(2), 1)>>]
    @@ Bowser :> [connects_to |-> {}, requires |-> <<AnyOf("Royal Seed", 2)>>]

Stage(kind, key, n, castle, exempt, badge) ==
    [stage_key |-> key, kind |-> kind, castle |-> castle, world |-> n,
     exempt |-> exempt, badge |-> badge, blocks |-> {}]

Course(key, n, castle, exempt) == Stage("course", key, n, castle, exempt, None)
BadgeCourse(key, n, badge)     == Stage("course", key, n, "no", FALSE, badge)
Palace(key, n)                 == Stage("palace", key, n, "no", FALSE, None)

Location(r, requires, bc, s) == [region |-> r, requires |-> requires, bc |-> bc, stage |-> s]

\* {OptOne(|Wonder Seed 2|)} AND (|@Royal Seed:1| OR |Badge|)
Arduous == <<NeedIfAny(WonderSeed(2), 1), Sign("AND"), Sign("("), AnyOf("Royal Seed", 1),
             Sign("OR"), Need(Badge, 1), Sign(")")>>

MCLocations ==
    OPENING_COURSE :> Location(Start(1), <<>>, FALSE, Course(11, 1, "no", TRUE))
    @@ "W1-2" :> Location(Start(1), <<Need(Badge, 1)>>, FALSE, BadgeCourse(12, 1, 5))
    @@ "W1 Palace" :> Location(Region(1, "Post-Badge"), <<>>, FALSE, Palace(13, 1))
    @@ "PI-1" :> Location(PI, <<>>, FALSE, Course(1, None, "no", FALSE))
    @@ "W2-1" :> Location(Start(2), <<>>, FALSE, Course(21, 2, "no", FALSE))
    @@ "W2 Palace" :> Location(Region(2, "Seeds"), <<>>, FALSE, Palace(23, 2))
    @@ "BC-1" :> Location(Bowser, Arduous, TRUE, Course(31, None, "gauntlet", FALSE))
    @@ BOWSER_VICTORY_LOCATION :> Location(Bowser, <<>>, TRUE, Course(32, None, "final", FALSE))

\* As data/locations.json has the badge houses: gated, and nothing required
BadgeHouse == [MCLocations EXCEPT !["W1-2"].requires = <<>>]

MCItems == WonderSeed(0) :> 1 @@ Badge :> 1 @@ WonderSeed(2) :> 1
           @@ RoyalSeed(1) :> 1 @@ RoyalSeed(2) :> 1
           @@ Unlock(1) :> 1 @@ Unlock(2) :> 1 @@ CASTLE_UNLOCK_ITEM :> 1

MCPalaces == 1 :> "W1 Palace" @@ 2 :> "W2 Palace"

Standard == [open_world |-> FALSE, open_world_count |-> 2, palaces_required |-> 0,
             world_unlock_items |-> TRUE, badge_level_entry_gating |-> TRUE]
Open(count, palaces, unlocks) ==
    [open_world |-> TRUE, open_world_count |-> count, palaces_required |-> palaces,
     world_unlock_items |-> unlocks, badge_level_entry_gating |-> unlocks]

Plays(o, theirs) == [p \in {other, played} |-> IF p = played THEN o ELSE theirs]

MCSections == DOMAIN MCLocations \ {"PI-1"}

MCSlots   == <<other, played>>
MCOptions == {Plays(Standard, Open(1, 0, TRUE))}
             \cup {Plays(o, Standard) : o \in {Open(2, 0, TRUE), Open(2, 1, TRUE), Open(2, 2, FALSE),
                                              Open(1, 0, TRUE), Open(1, 0, FALSE)}}
=============================================================================
