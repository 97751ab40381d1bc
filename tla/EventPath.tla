------------------------------ MODULE EventPath ------------------------------
(***************************************************************************)
(* What the player does, on its way to a check: the mod's hooks put a      *)
(* record for each event into the outbound ring (ap/ApFrameBridge.cpp),    *)
(* the mod's network thread finds the bridge, connects and sends the       *)
(* records (ap/ApClient.cpp, ap/ApDiscovery.cpp), and the bridge, which    *)
(* answers the probes (client/discovery.py), runs its processor on them    *)
(* (Processor).  The game, the network and the bridge's host are the       *)
(* environment.                                                            *)
(*                                                                         *)
(* A session's buffered lines are dispatched before the lines of the next  *)
(* session; LanSession has the handlers' interleaving.  What becomes of a  *)
(* check after the processor is CheckDelivery's subject.                   *)
(***************************************************************************)
EXTENDS Processor, Sequences

CONSTANTS
    Stages,      \* the stages, records as Processor describes them
    Retried,     \* stages the player clears again and again
    CoinStages,  \* stages with ten coins
    Charas,      \* the characters the player may choose
    SecretPalace,\* does a palace have a secret exit?
    ShopBadges,  \* badges a Poplin shop sells
    Hosts,       \* the addresses the bridge's host may have on the LAN
    Failing,     \* may the responder not bind, or find no route?
    Loopback,    \* what detect_lan_ip returns when there is no route
    Cap,         \* records the outbound ring holds
    WireCap,     \* bound on the records in flight
    MaxMoves,    \* bound on what the player does, replays apart
    MaxFaults    \* bound on lost links, bridge restarts, address changes and
                 \* overlapping pushes

Visits == [stage : Stages, chara : Charas \cup {None}, report : Charas \cup {None}]

ASSUME EventPathAssumption ==
    /\ CoinStages \subseteq {s \in Stages : s.kind \in {"course", "fake", "palace"}}
    /\ Retried \subseteq {s \in Stages : s.kind \in {"break", "house"}}
    /\ None \notin Stages \cup Charas \cup Visits
    /\ \A s \in Stages : /\ s.kind \in {"course", "fake", "palace", "house", "break"}
                         /\ IsFiniteSet(s.blocks)
    /\ Loopback \notin Hosts /\ None \notin Hosts \cup {Loopback}
    /\ Cap \in Nat \ {0} /\ WireCap \in Nat \ {0}
    /\ MaxMoves \in Nat /\ MaxFaults \in Nat /\ {SecretPalace, Failing} \subseteq BOOLEAN

VARIABLES
    at,         \* the visit: its stage and character, and the character its
                \* course_in reported; or None on the map
    saved,      \* ten coins, once-per-save events of the save file
    ring,       \* outboundRing, from tail_ to head_
    spare,      \* what its other slots still hold, from head_ to tail_; only
                \* faults read it, and it is kept while one may still come
    conn,       \* the network thread: "resolve", "connect" or "ready"
    target,     \* the BridgeTarget it resolved
    socket,     \* is its TCP connection alive?
    wire,       \* lines sent and not yet dispatched
    up,         \* the bridge runs
    advertised, \* the responder's _lan_ip; None when it could not bind
    host_ip,    \* the host's address now
    b,          \* the BridgeState
    unlocked,   \* character items the AP server has for the slot
    \* History.
    moves, faults,
    done,       \* what the player achieved, as checks
    owed,       \* those the bridge should credit
    paired,     \* those that two records stand for
    deaths,     \* deaths of the player
    credited,   \* checks the processor ever emitted
    told,       \* deaths it ever reported
    lost,       \* records lost: 0, 1, or 2 for more
    replayed,   \* records were sent again
    blind,      \* a lost record was a course_in, or records were sent again
    forgot      \* the client exited with its state, or was sent records again

gameVars   == <<at, saved, done, owed, paired, deaths>>
netVars    == <<conn, target, socket>>
bridgeVars == <<up, advertised, b, unlocked, credited, told, forgot>>
lossVars   == <<lost, replayed, blind>>
vars == <<gameVars, moves, ring, spare, netVars, wire, bridgeVars, host_ip, faults, lossVars>>

Coins == {0}    \* indices of the ten coins; the game has three

-----------------------------------------------------------------------------
(* Losing and putting records. *)

Lose(records) ==
    LET n == Cardinality({i \in DOMAIN records : records[i].t # "hello"})
    IN /\ lost' = IF lost + n > 2 THEN 2 ELSE lost + n
       /\ blind' = (blind \/ \E i \in DOMAIN records : records[i].t = "course_in")
       /\ UNCHANGED replayed

Spare(records) == spare' = IF faults' < MaxFaults THEN records ELSE <<>>

(* enqueueNerveFire and its siblings: what does not fit is dropped.  The   *)
(* slots are filled in turn, so that the oldest record is written over.    *)
(* Pushes that overlap: OverlapLoses and OverlapReplays.                   *)
Enqueue(records) ==
    LET n == IF Cap - Len(ring) < Len(records) THEN Cap - Len(ring) ELSE Len(records)
        free == Cap + 1 - Len(ring) - n
    IN /\ ring' = ring \o SubSeq(records, 1, n)
       /\ Spare(IF Len(spare) <= free THEN spare
                ELSE SubSeq(spare, Len(spare) - free + 1, Len(spare)))
       /\ Lose(SubSeq(records, n + 1, Len(records)))

-----------------------------------------------------------------------------
(* The game and the hooks. *)

Move == moves < MaxMoves /\ moves' = moves + 1

(* The exits of a stage, and how course_result reports each.               *)
Exits(s) ==
    CASE s.kind = "course" -> {"main", "secret"}
      [] s.kind = "fake"   -> {"main", "fake"}
      [] s.kind = "palace" -> IF SecretPalace THEN {"main", "secret"} ELSE {"main"}
      [] s.kind = "house"  -> {"door"}
      [] s.kind = "break"  -> {"main", "entrance"}

GoalId(exit) ==
    CASE exit = "main" -> 0
      [] exit = "entrance" -> -1
      [] OTHER -> 1

(* What the player has achieved by leaving stage s through an exit.        *)
Achieved(s, exit, top, got) ==
    LET kinds == CASE exit = "door" \/ (s.kind = "break" /\ exit = "main") -> {"wonder_seed"}
                   [] s.kind = "palace" /\ exit = "main" -> {"palace_clear"}
                   [] s.kind \in {"course", "fake"} /\ exit = "main" -> {"normal_exit"}
                   [] exit = "secret" -> {"secret_exit"}
                   [] exit = "fake"   -> {"fake_exit"}
                   [] OTHER           -> {}
    IN {<<k, s.stage_key, 0>> : k \in kinds}
       \cup (IF top THEN {<<"top_of_flag", s.stage_key, 0>>} ELSE {})
       \cup {<<"ten_coin", s.stage_key, i>> : i \in got}
       \cup (IF s.badge = None THEN {} ELSE {<<"badge_acquired", s.badge, 0>>})

Earn(checks) == done' = done \cup checks /\ owed' = owed \cup checks

(* A stage is entered: course_in, with the character when the report has   *)
(* one.  Who is played is followed only into stages with blocks.           *)
Enter(s, c, known) ==
    /\ at = None
    /\ IF s \in Retried THEN UNCHANGED moves ELSE Move
    /\ (s.blocks = {}) <=> (c = None)
    /\ at' = [stage |-> s, chara |-> c, report |-> IF known THEN c ELSE None]
    /\ Enqueue(<<[t |-> "course_in", stage |-> s, chara |-> IF known THEN c ELSE None]>>)
    /\ UNCHANGED <<saved, done, owed, paired, deaths>>

(* The Wonder Seed of a course is awarded, once per save: the Nerve.       *)
TakeSeed ==
    /\ at # None /\ at.stage.kind \in {"course", "fake", "house"}
    /\ <<"seed", at.stage.stage_key>> \notin saved
    /\ saved' = saved \cup {<<"seed", at.stage.stage_key>>}
    /\ IF at.stage.kind = "house" THEN UNCHANGED <<done, owed>>
       ELSE Earn({<<"wonder_seed", at.stage.stage_key, 0>>})
    /\ Enqueue(<<[t |-> "wonder_seed_awarded"]>>)
    /\ UNCHANGED <<at, paired, deaths, moves>>

(* The player bumps the block of the character played.  The hook reads the *)
(* character, or fails to; a hit nobody can tell the character of is not   *)
(* credited.                                                               *)
HitBlock(read) ==
    /\ at # None /\ at.chara \in at.stage.blocks
    /\ Move
    /\ LET check == <<"character_block", at.stage.stage_key, at.chara>>
       IN /\ done' = done \cup {check}
          /\ owed' = owed \cup
               (IF /\ at.chara \in b.unlocked_charas
                   /\ read \/ at.report # None \/ at.stage.blocks = {at.chara}
                THEN {check} ELSE {})
    /\ Enqueue(<<[t |-> "char_block_hit", chara |-> IF read THEN at.chara ELSE None]>>)
    /\ UNCHANGED <<at, saved, paired, deaths>>

Die ==
    /\ at # None /\ Move
    /\ deaths' = deaths + 1
    /\ Enqueue(<<[t |-> "death_detected"]>>)
    /\ UNCHANGED <<at, saved, done, owed, paired>>

(* A stage is cleared or left by an exit: course_result; in a palace       *)
(* koopajr_result too, unless its Royal Seed is owned (skips); a badge     *)
(* that the container diff sees (seen); the goal Nerve, once per save.     *)
Clear(exit, top, got, skips, seen) ==
    LET s     == at.stage
        coins == {i \in Coins : <<"coin", s.stage_key, i>> \in saved}
        first == s.castle = "final" /\ exit = "main" /\ <<"goal">> \notin saved
        boss  == s.kind = "palace" /\ exit = "main" /\ ~skips
        badge == s.badge # None /\ <<"badge", s.badge>> \notin saved
    IN /\ at # None /\ exit \in Exits(s)
       /\ top => s.kind \in {"course", "fake"}
       /\ got \subseteq Coins \ coins /\ (got # {} => s \in CoinStages)
       /\ skips => s.kind = "palace" /\ exit = "main"
       /\ seen => badge
       /\ at' = None
       /\ saved' = saved \cup {<<"coin", s.stage_key, i>> : i \in got}
                         \cup (IF first THEN {<<"goal">>} ELSE {})
                         \cup (IF badge THEN {<<"badge", s.badge>>} ELSE {})
       /\ Earn(Achieved(s, exit, top, got) \cup (IF first THEN {<<"goal", 0, 0>>} ELSE {}))
       /\ paired' = paired \cup (IF boss THEN {<<"palace_clear", s.stage_key, 0>>} ELSE {})
                           \cup (IF seen THEN {<<"badge_acquired", s.badge, 0>>} ELSE {})
       /\ Enqueue((IF seen THEN <<[t |-> "badge_acquired", badge |-> s.badge]>> ELSE <<>>)
                  \o <<[t |-> "course_result", stage |-> s, result |-> 1, top |-> top,
                        goal_id |-> GoalId(exit), coins_in |-> coins,
                        coins_out |-> coins \cup got]>>
                  \o (IF boss THEN <<[t |-> "koopajr_result", stage |-> s, won |-> TRUE]>>
                      ELSE <<>>)
                  \o (IF first THEN <<[t |-> "game_goal_reached"]>> ELSE <<>>))
       /\ UNCHANGED <<deaths, moves>>

(* The pause menu's quit: course_result 3, the other fields at zero.       *)
Quit ==
    /\ at # None
    /\ at' = None
    /\ Enqueue(<<[t |-> "course_result", stage |-> at.stage, result |-> 3, top |-> FALSE,
                  goal_id |-> 0, coins_in |-> {}, coins_out |-> {}]>>)
    /\ UNCHANGED <<saved, done, owed, paired, deaths, moves>>

(* The palace's boss is lost.                                              *)
LoseToBoss ==
    /\ at # None /\ at.stage.kind = "palace"
    /\ at' = None
    /\ Enqueue(<<[t |-> "koopajr_result", stage |-> at.stage, won |-> FALSE]>>)
    /\ UNCHANGED <<saved, done, owed, paired, deaths, moves>>

(* A badge or the seed of slot 0 is bought in a shop.                      *)
BuyBadge(badge, seen) ==
    /\ at = None /\ <<"badge", badge>> \notin saved
    /\ Move
    /\ saved' = saved \cup {<<"badge", badge>>}
    /\ Earn({<<"badge_acquired", badge, 0>>})
    /\ paired' = paired \cup (IF seen THEN {<<"badge_acquired", badge, 0>>} ELSE {})
    /\ Enqueue(<<[t |-> "general_shop_result", item |-> "badge", shop |-> 0, value |-> badge]>>
               \o (IF seen THEN <<[t |-> "badge_acquired", badge |-> badge]>> ELSE <<>>))
    /\ UNCHANGED <<at, deaths>>

BuySeed ==
    /\ at = None /\ <<"shop", 0>> \notin saved
    /\ Move
    /\ saved' = saved \cup {<<"shop", 0>>}
    /\ Earn({<<"shop_seed", 0, 0>>})
    /\ Enqueue(<<[t |-> "general_shop_result", item |-> "seed", shop |-> 0, value |-> 0]>>)
    /\ UNCHANGED <<at, paired, deaths>>

Leave == \/ \E exit \in {"main", "secret", "fake", "door", "entrance"} :
              \E top, skips, seen \in BOOLEAN, got \in SUBSET Coins :
                Clear(exit, top, got, skips, seen)
         \/ Quit \/ LoseToBoss

Game ==
    /\ UNCHANGED <<netVars, wire, bridgeVars, host_ip, faults>>
    /\ \/ \E s \in Stages, c \in Charas \cup {None}, known \in BOOLEAN : Enter(s, c, known)
       \/ TakeSeed \/ Die \/ Leave \/ BuySeed
       \/ \E read \in BOOLEAN : HitBlock(read)
       \/ \E badge \in ShopBadges, seen \in BOOLEAN : BuyBadge(badge, seen)

-----------------------------------------------------------------------------
(* The mod's network thread.  Its back-off waits only delay it. *)

(* resolveBridge: a probe is answered with the address the responder keeps. *)
(* A round of probes without an answer is followed by another.             *)
Resolve ==
    /\ conn = "resolve" /\ up /\ advertised # None
    /\ target' = advertised /\ conn' = "connect"
    /\ UNCHANGED <<gameVars, moves, ring, spare, socket, wire, bridgeVars, host_ip, faults,
                   lossVars>>

\* Mutation: a refused connect is tried again without another discovery.
ConnectSameTarget ==
    /\ conn = "connect" /\ up /\ target = host_ip
    /\ socket' = TRUE /\ conn' = "ready"
    /\ wire' = Append(wire, [t |-> "hello"])
    /\ UNCHANGED <<target, gameVars, moves, ring, spare, bridgeVars, host_ip, faults, lossVars>>

(* connectOnce, and sendHello after it; a refused connect resolves anew.   *)
ConnectOnce ==
    /\ conn = "connect"
    /\ IF up /\ target = host_ip
       THEN /\ socket' = TRUE /\ conn' = "ready"
            /\ wire' = Append(wire, [t |-> "hello"])
       ELSE conn' = "resolve" /\ UNCHANGED <<socket, wire>>
    /\ UNCHANGED <<target, gameVars, moves, ring, spare, bridgeVars, host_ip, faults, lossVars>>

(* pumpOutbound, a record at a time: popped, then sent; on a dead socket   *)
(* the record is lost, whether Send fails or not.                          *)
PumpOutbound ==
    /\ conn = "ready" /\ ring # <<>>
    /\ IF socket
       THEN Len(wire) < WireCap /\ wire' = Append(wire, Head(ring)) /\ UNCHANGED lossVars
       ELSE Lose(<<Head(ring)>>) /\ UNCHANGED wire
    /\ UNCHANGED <<gameVars, moves, netVars, bridgeVars, host_ip, faults>>
    /\ ring' = Tail(ring) /\ Spare(Append(spare, Head(ring)))

(* The poll or the receive fails: disconnect, and resolve again.           *)
Disconnect ==
    /\ conn = "ready" /\ ~socket
    /\ conn' = "resolve"
    /\ UNCHANGED <<target, socket, gameVars, moves, ring, spare, wire, bridgeVars, host_ip,
                   faults, lossVars>>

-----------------------------------------------------------------------------
(* The bridge. *)

Serving == up /\ advertised = host_ip

(* A line is dispatched: Hello clears in_course, a record is processed and *)
(* what the processor emits is on its way.                                 *)
Dispatch ==
    /\ up /\ wire # <<>>
    /\ wire' = Tail(wire)
    /\ b' = IF Head(wire).t = "hello" THEN [b EXCEPT !.in_course = FALSE]
            ELSE Process(b, Head(wire))
    /\ credited' = credited \cup b'.emitted
                   \cup (IF b'.goal_complete THEN {<<"goal", 0, 0>>} ELSE {})
    /\ told' = told + (b'.death_count - b.death_count)
    /\ UNCHANGED <<up, advertised, unlocked, forgot, gameVars, moves, ring, spare, netVars,
                   host_ip, faults, lossVars>>

(* ReceivedItems: the context replaces the processor's set of characters   *)
(* by the server's, which another player may have added to.                *)
ReceivedItems(new) ==
    /\ up /\ new \subseteq Charas /\ Cardinality(new) <= 1
    /\ unlocked' = unlocked \cup new
    /\ b' = [b EXCEPT !.unlocked_charas = unlocked']
    /\ UNCHANGED <<up, advertised, credited, told, forgot, gameVars, moves, ring, spare, netVars,
                   wire, host_ip, faults, lossVars>>

(* The client starts: the responder may fail to bind, and keeps the LAN    *)
(* address of this moment, or the loopback when there is no route yet.     *)
Start(address) ==
    /\ ~up /\ address \in {host_ip} \cup (IF Failing THEN {Loopback, None} ELSE {})
    /\ up' = TRUE /\ advertised' = address
    /\ UNCHANGED <<b, unlocked, credited, told, forgot, gameVars, moves, ring, spare, netVars,
                   wire, host_ip, faults, lossVars>>

Bridge == Dispatch \/ (\E new \in SUBSET Charas : ReceivedItems(new))
          \/ (\E address \in Hosts \cup {Loopback, None} : Start(address))

-----------------------------------------------------------------------------
(* Faults. *)

Fault == faults < MaxFaults /\ faults' = faults + 1

(* The link dies; what is in flight is lost from some record on.           *)
DropLink ==
    /\ Fault /\ Spare(spare) /\ socket /\ socket' = FALSE
    /\ \E k \in 0..Len(wire) :
         /\ wire' = SubSeq(wire, 1, k)
         /\ Lose(SubSeq(wire, k + 1, Len(wire)))
    /\ UNCHANGED <<conn, target, gameVars, moves, ring, bridgeVars, host_ip>>

(* The client exits, with its state and what it has not read.              *)
Stop ==
    /\ Fault /\ Spare(spare) /\ up /\ up' = FALSE
    /\ socket' = FALSE /\ wire' = <<>> /\ Lose(wire)
    /\ forgot' = TRUE /\ b' = BridgeState0 /\ advertised' = None
    /\ UNCHANGED <<unlocked, credited, told, conn, target, gameVars, moves, ring, host_ip>>

(* The host gets another address, and its connections die.                 *)
Renumber ==
    /\ Fault /\ Spare(spare) /\ \E h \in Hosts \ {host_ip} : host_ip' = h
    /\ socket' = FALSE /\ wire' = <<>> /\ Lose(wire)
    /\ UNCHANGED <<conn, target, gameVars, moves, ring, bridgeVars>>

(* Pushes overlap.  push() is for one producer, and every thread that logs *)
(* pushes too: one that read head_ before the pushes of others and stores  *)
(* it after them sets head_ back, and what they put is lost.               *)
OverlapLoses ==
    /\ Fault
    /\ \E k \in 0..(Len(ring) - 1) :
         LET cut == SubSeq(ring, k + 1, Len(ring))
         IN ring' = SubSeq(ring, 1, k) /\ Spare(cut \o spare) /\ Lose(cut)
    /\ UNCHANGED <<gameVars, moves, netVars, wire, bridgeVars, host_ip>>

(* If the worker has popped their records meanwhile, head_ is set behind   *)
(* tail_: the ring then goes on to what is left in the slots, oldest first. *)
OverlapReplays ==
    /\ Fault
    /\ \E k \in 1..Len(spare) :
         /\ Len(ring) + k <= Cap
         /\ ring' = ring \o SubSeq(spare, 1, k)
         /\ Spare(SubSeq(spare, k + 1, Len(spare)))
    /\ replayed' = TRUE /\ blind' = TRUE /\ forgot' = TRUE
    /\ UNCHANGED <<gameVars, moves, netVars, wire, lost, up, advertised, b, unlocked, credited,
                   told, host_ip>>

-----------------------------------------------------------------------------
Init ==
    /\ at = None /\ saved = {} /\ moves = 0
    /\ ring = <<>> /\ spare = <<>> /\ wire = <<>>
    /\ conn = "resolve" /\ target = None /\ socket = FALSE
    /\ up = FALSE /\ advertised = None /\ host_ip \in Hosts /\ b = BridgeState0
    /\ unlocked = {} /\ faults = 0
    /\ done = {} /\ owed = {} /\ paired = {} /\ deaths = 0 /\ credited = {} /\ told = 0
    /\ lost = 0 /\ replayed = FALSE /\ blind = FALSE /\ forgot = FALSE

Next == \/ Game \/ Bridge
        \/ Resolve \/ ConnectOnce \/ PumpOutbound \/ Disconnect
        \/ DropLink \/ Stop \/ Renumber \/ OverlapLoses \/ OverlapReplays

(* The network thread and the bridge run; a probe that is answered again   *)
(* and again gets through in the end.  The player owes nothing.            *)
Fairness ==
    /\ SF_vars(Resolve) /\ WF_vars(ConnectOnce) /\ WF_vars(PumpOutbound)
    /\ WF_vars(Disconnect) /\ WF_vars(Dispatch)

Spec == Init /\ [][Next]_vars /\ Fairness

-----------------------------------------------------------------------------
(* Properties. *)

Records ==
    [t : {"hello", "wonder_seed_awarded", "death_detected", "game_goal_reached"}]
    \cup [t : {"course_in"}, stage : Stages, chara : Charas \cup {None}]
    \cup [t : {"char_block_hit"}, chara : Charas \cup {None}]
    \cup [t : {"course_result"}, stage : Stages, result : {1, 3}, top : BOOLEAN,
          goal_id : {-1, 0, 1}, coins_in : SUBSET Coins, coins_out : SUBSET Coins]
    \cup [t : {"koopajr_result"}, stage : Stages, won : BOOLEAN]
    \cup [t : {"badge_acquired"}, badge : ShopBadges \cup {s.badge : s \in Stages}]
    \cup [t : {"general_shop_result"}, item : {"badge", "seed"}, shop : {0},
          value : ShopBadges \cup {0}]

TypeOK ==
    /\ at \in Visits \cup {None}
    /\ ring \in Seq(Records) /\ Len(ring) <= Cap /\ wire \in Seq(Records)
    /\ conn \in {"resolve", "connect", "ready"} /\ socket \in BOOLEAN
    /\ {target, advertised} \subseteq Hosts \cup {Loopback, None} /\ host_ip \in Hosts
    /\ up \in BOOLEAN /\ (socket => up /\ conn = "ready")
    /\ DOMAIN b = DOMAIN BridgeState0 /\ b.death_count \in Nat
    /\ b.current_course \in Stages \cup {None} /\ b.chara \in Charas \cup {None}
    /\ b.unlocked_charas \subseteq unlocked /\ unlocked \subseteq Charas
    /\ owed \subseteq done /\ paired \subseteq owed /\ {told, deaths} \subseteq Nat
    /\ lost \in 0..2 /\ {replayed, blind, forgot} \subseteq BOOLEAN

(* No check is sent that the player did not achieve, as long as no         *)
(* course_in is lost and no record is sent again; and none whose record    *)
(* names its stage, whatever is lost or sent again.  No death is told that *)
(* none died, unless a record is sent again.                               *)
Sound ==
    /\ replayed \/ told <= deaths
    /\ \A c \in credited \ done : blind /\ c[1] \in {"wonder_seed", "character_block"}

(* What a comment of the processor says of misordered streams: nothing is  *)
(* credited from a Nerve that it cannot attribute.                         *)
OnlyEarned == credited \subseteq done

(* What the comment above SpscRing promises of pushes that overlap: in the *)
(* worst case a diagnostic event is lost.                                  *)
ToldOnce == told <= deaths

(* Once everything is sent and dispatched, with nothing lost, each thing   *)
(* achieved is credited, whatever is sent again; what the bridge           *)
(* attributes by its memory of the course and the characters may be        *)
(* missing if that was lost, or overwritten by records sent again.         *)
Complete ==
    (ring = <<>> /\ wire = <<>> /\ lost = 0)
        => /\ told >= deaths
           /\ \A c \in owed \ credited :
                forgot /\ c[1] \in {"wonder_seed", "character_block"}

(* A check that two records stand for outlives the loss of any one.        *)
RedundantSurvives ==
    (ring = <<>> /\ wire = <<>> /\ lost <= 1) => paired \subseteq credited

(* A bridge that runs and advertises its address is found and connected    *)
(* to, for as long as that holds, whatever connection was there before.    *)
Reconnects == <>[]Serving => <>[](conn = "ready" /\ socket)

(* The seed of a Break Time stage or a house, lost or not when it was      *)
(* taken, is credited if the player keeps clearing the stage, and not only *)
(* when the ring is full.                                                  *)
ClearedAgain(s) ==
    /\ at # None /\ at.stage = s /\ Len(ring) < Cap
    /\ \E exit \in Exits(s) \ {"entrance"} : Clear(exit, FALSE, {}, FALSE, FALSE)

SeedRecovered ==
    <>[]Serving =>
        \A s \in Retried : []<><<ClearedAgain(s)>>_vars
                             => <>(<<"wonder_seed", s.stage_key, 0>> \in credited)
=============================================================================
