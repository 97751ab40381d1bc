---------------------------- MODULE MCClientSync ----------------------------
(***************************************************************************)
(* ClientSync on the smallest tables that tell its cases apart.            *)
(***************************************************************************)
EXTENDS ClientSync

CONSTANTS b1, p1, p2, c1, s1, s2, s3, r1, castle, l1, l2, l3, l4, l5, n1, x1, x2, g1

MCBadges == b1 :> 1
MCDeny == p1 :> 2 @@ p2 :> 2
MCSeeds == s1 :> 0 @@ s2 :> 0 @@ s3 :> 1
MCShop == 1 :> l1 @@ 2 :> l2
MCSlots == 0 :> {l3, l4} @@ 1 :> {l5}
MCForce == x1 :> None @@ x2 :> n1
MCSpecs == {{<<0, 1>>}, {<<0, 0>>, <<2, 2>>}, {<<2, 3>>}}

Slot(gating, open, active, unlocks, castle_item, palaces) ==
    [powerup_gating |-> gating, open_world |-> open, active |-> active,
     unlock_items |-> unlocks, castle_unlock |-> castle_item, palaces_required |-> palaces]

\* A standard slot, and open worlds of today and from before the castle's item
Standard == Slot(TRUE, FALSE, {}, FALSE, FALSE, 0)
Today    == Slot(TRUE, TRUE, {1}, TRUE, TRUE, 1)
AllOpen  == Slot(TRUE, TRUE, {2}, FALSE, TRUE, 1)
Older    == Slot(FALSE, TRUE, {2}, FALSE, FALSE, 1)

SlotsFor(k) ==
    CASE k \in {"deny", "unlock"} -> {Standard, Older}
      [] k = "routable" -> {Standard, Today, AllOpen, Older}
      [] k = "force_cleared" -> {Standard, Today}
      [] OTHER -> {Today}

MCKinds ==
    {"badges", "deny", "charas", "seed_counts", "seed_bits", "routable", "force_cleared",
     "unlock", "royal_seeds", "hash", "badge_shop", "seed_shop", "shop_text"}

\* Two faults, a fault and a command, or two commands
MCStarts ==
    UNION {[kind : {k}, slot_data : SlotsFor(k), faults : {f}, commands : {2 - f}] :
              k \in MCKinds, f \in 0 .. 2}
=============================================================================
