---------------------------- MODULE BoundedQueue ----------------------------
(***************************************************************************)
(* What the rings of src/switch-mod/src/ap/ApState.hpp promise: a bounded  *)
(* FIFO queue.  Each element put in is taken out at most once, in order,   *)
(* and it never holds more than Capacity of them.                          *)
(***************************************************************************)
EXTENDS Naturals, Sequences

CONSTANTS Capacity, MaxPuts

VARIABLES
    items,   \* the queue
    puts,    \* elements put so far; the next one is puts + 1
    taken    \* elements taken, in order

Init == items = <<>> /\ puts = 0 /\ taken = <<>>

Put ==
    /\ puts < MaxPuts
    /\ Len(items) < Capacity
    /\ puts' = puts + 1
    /\ items' = Append(items, puts')
    /\ UNCHANGED taken

Take ==
    /\ items # <<>>
    /\ items' = Tail(items)
    /\ taken' = Append(taken, Head(items))
    /\ UNCHANGED puts

Spec == Init /\ [][Put \/ Take]_<<items, puts, taken>>
=============================================================================
