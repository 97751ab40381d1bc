------------------------------ MODULE Processor ------------------------------
(***************************************************************************)
(* The bridge's event processor (client/processor.py) over the state it    *)
(* keeps (client/state.py): what each record of the game does to the state *)
(* and which checks it stands for.  No behaviour of its own: EventPath     *)
(* drives it with the records of a game, OpenWorld asks it which courses   *)
(* are gated.                                                              *)
(*                                                                         *)
(* A stage is a record: its stage_key, the table of processor.py it is in  *)
(* (kind), its badge-awarding and Castle rows, its world as AP numbers it, *)
(* and the characters that have a block in it.                             *)
(***************************************************************************)
EXTENDS Integers, FiniteSets

CONSTANT None    \* no course, no badge, no character

(***************************************************************************)
(* A check is <<kind, stage_key, sub_key>>, the key emit_check dedups by.  *)
(***************************************************************************)
BridgeState0 == [current_course |-> None, chara |-> None, in_course |-> FALSE,
                 emitted |-> {}, death_count |-> 0, goal_complete |-> FALSE,
                 unlocked_charas |-> {}]

SeedOnly(s) == s.kind \in {"house", "break"}

SeedChecks(b) ==
    {<<"wonder_seed", s.stage_key, 0>> :
        s \in {c \in {b.current_course} : c # None /\ ~SeedOnly(c)}}

(* The event's character, else the one of course_in, else the only one.    *)
HitBy(s, ev, entered) ==
    CASE ev # None                    -> {ev}
      [] ev = None /\ entered # None -> {entered}
      [] OTHER                        -> IF Cardinality(s.blocks) = 1 THEN s.blocks ELSE {}

BlockChecks(b, ev) ==
    LET s == b.current_course
    IN IF s = None THEN {}
       ELSE {<<"character_block", s.stage_key, c>> :
                c \in HitBy(s, ev, b.chara) \cap s.blocks \cap b.unlocked_charas}

\* Mutation: no list of the courses with a fake exit.
FlagKindsNoFake(s, goal, top) ==
    LET exit == CASE goal = 0 -> {"normal_exit"} [] goal = 1 -> {"secret_exit"} [] OTHER -> {}
    IN IF top /\ exit # {} THEN exit \cup {"top_of_flag"} ELSE exit

\* A flagpole: goal 1 is a secret exit or, in the listed courses, a fake one.
FlagKinds(s, goal, top) ==
    LET exit == CASE goal = 0 -> {"normal_exit"}
                  [] goal = 1 /\ s.kind = "fake" -> {"fake_exit"}
                  [] goal = 1 /\ s.kind # "fake" -> {"secret_exit"}
                  [] OTHER -> {}
    IN IF top /\ exit # {} THEN exit \cup {"top_of_flag"} ELSE exit

\* Mutation: a Break Time stage is taken for cleared by any exit.
ExitKindsAnyExit(s, goal, top) ==
    CASE s.kind = "palace" /\ goal = 0 -> {"palace_clear"}
      [] SeedOnly(s) -> {"wonder_seed"}
      [] OTHER -> FlagKinds(s, goal, top)

\* Mutation: the seeds of houses and Break Time stages are left to the Nerve.
ExitKindsNerveOnly(s, goal, top) ==
    CASE s.kind = "palace" /\ goal = 0 -> {"palace_clear"}
      [] SeedOnly(s) -> {}
      [] OTHER -> FlagKinds(s, goal, top)

\* The kinds of check a clear stands for.
ExitKinds(s, goal, top) ==
    CASE s.kind = "palace" /\ goal = 0 -> {"palace_clear"}
      [] s.kind = "house" -> {"wonder_seed"}
      [] s.kind = "break" -> IF goal = 0 THEN {"wonder_seed"} ELSE {}
      [] OTHER -> FlagKinds(s, goal, top)

TenCoinChecks(r) == {<<"ten_coin", r.stage.stage_key, i>> : i \in r.coins_out \ r.coins_in}

ClearBadge(s) ==
    IF s.badge = None THEN {} ELSE {<<"badge_acquired", s.badge, 0>>}

ResultChecks(r) ==
    IF r.result # 1 THEN {}
    ELSE {<<k, r.stage.stage_key, 0>> : k \in ExitKinds(r.stage, r.goal_id, r.top)}
         \cup TenCoinChecks(r) \cup ClearBadge(r.stage)

BadgeChecks(r) == {<<"badge_acquired", r.badge, 0>>}

BossChecks(r) == IF r.won THEN {<<"palace_clear", r.stage.stage_key, 0>>} ELSE {}

\* Mutation: a badge bought is left to the diff of the owned badges.
ShopChecksSeeds(r) ==
    IF r.item = "seed" THEN {<<"shop_seed", r.shop, r.value>>} ELSE {}

(* item_kind 1 is a Wonder Seed in a slot, 0 a badge.                      *)
ShopChecks(r) ==
    IF r.item = "seed" THEN {<<"shop_seed", r.shop, r.value>>}
    ELSE {<<"badge_acquired", r.value, 0>>}

ChecksOf(b, r) ==
    CASE r.t = "wonder_seed_awarded" -> SeedChecks(b)
      [] r.t = "badge_acquired"      -> BadgeChecks(r)
      [] r.t = "char_block_hit"      -> BlockChecks(b, r.chara)
      [] r.t = "course_result"       -> ResultChecks(r)
      [] r.t = "koopajr_result"      -> BossChecks(r)
      [] r.t = "general_shop_result" -> ShopChecks(r)
      [] OTHER                       -> {}

(* process_event: the state after a record.  What it emits is what is new  *)
(* in emitted and goal_complete, and one more death.                       *)
Process(b, r) ==
    [b EXCEPT
        !.current_course = IF r.t = "course_in" THEN r.stage ELSE @,
        !.chara          = IF r.t = "course_in" THEN r.chara ELSE @,
        !.in_course      = CASE r.t = "course_in" -> TRUE
                             [] r.t \in {"course_result", "koopajr_result"} -> FALSE
                             [] OTHER -> @,
        !.emitted        = @ \cup ChecksOf(b, r),
        !.death_count    = IF r.t = "death_detected" THEN @ + 1 ELSE @,
        !.goal_complete  = @ \/ r.t = "game_goal_reached"]

(***************************************************************************)
(* The gate course_in raises for a stage: <<kind, requirement>>, or None.  *)
(* A stage outside worlds 1 to 6 has world None and is never world-gated.  *)
(***************************************************************************)
CastleWorld == 7    \* CASTLE_UNLOCK_WORLD

\* Mutation: the opening course is gated like the rest of its world.
GateNoExempt(s, locked, open_world_castle) ==
    CASE s.castle = "final" \/ (s.castle = "gauntlet" /\ ~open_world_castle)
              -> <<"royal_seeds", None>>
      [] s.castle = "gauntlet" /\ open_world_castle
              -> IF CastleWorld \in locked THEN <<"world_unlock", CastleWorld>> ELSE None
      [] s.castle = "no" /\ s.world \in locked
              -> <<"world_unlock", s.world>>
      [] OTHER -> IF s.castle = "no" /\ s.badge # None THEN <<"badge", s.badge>> ELSE None

Gate(s, locked, open_world_castle) ==
    CASE s.castle = "final" \/ (s.castle = "gauntlet" /\ ~open_world_castle)
              -> <<"royal_seeds", None>>
      [] s.castle = "gauntlet" /\ open_world_castle
              -> IF CastleWorld \in locked THEN <<"world_unlock", CastleWorld>> ELSE None
      [] s.castle = "no" /\ s.world \in locked /\ ~s.exempt
              -> <<"world_unlock", s.world>>
      [] OTHER -> IF s.castle = "no" /\ s.badge # None THEN <<"badge", s.badge>> ELSE None
=============================================================================
