----------------------------- MODULE MCItemSync -----------------------------
(***************************************************************************)
(* ItemSync on one badge and one Power-Up.  In one start a single thread   *)
(* drains and a fault may come at any time; in the other two threads       *)
(* drain, no fault is left, and the Power-Up was found before.             *)
(***************************************************************************)
EXTENDS ItemSync

CONSTANTS d1, d2

MCStarts ==
    {[threads |-> {d1},     held |-> {},       spent |-> 0],
     [threads |-> {d1, d2}, held |-> PowerUps, spent |-> MaxFaults]}
=============================================================================
