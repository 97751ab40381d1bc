---------------------------- MODULE GateKill_proofs ----------------------------
(***************************************************************************)
(* The level-entry gate of GateKill.tla, for every set of courses, every   *)
(* grace window, kill cap and number of entries, reboots and reconnects.   *)
(*                                                                         *)
(* The context keeps one task handle and forgets the rest; the event loop  *)
(* remembers every task it has to run.  The invariant says what the loop's *)
(* queue may hold besides the live task (Queue), how far the live task's   *)
(* window has run in this stay (Windows), and what the overlay still owes  *)
(* to cancelled tasks (Banner).                                            *)
(***************************************************************************)
EXTENDS GateKill, SequenceTheorems, TLAPS

Started(i)  == task[i].state \in {"sleeping", "woken"}
Runnable(i) == task[i].state \in {"new", "woken", "cancelled", "stillborn"}

\* Every course_in on its way is numbered by the entry that sent it; a task
\* was made for numbers not on their way any more.
Numbers ==
    \E n \in [1..Len(up) -> 0..enters] :
      \A j \in 1..Len(up) : up[j].type = "in" =>
        /\ created < n[j]
        /\ \A k \in 1..Len(up) : (up[k].type = "in" /\ j < k) => n[j] < n[k]

\* Ready tasks have something to run and are there once; a task is created
\* ready, and woken into the queue.
Queue ==
    /\ \A k \in 1..Len(ready) : Runnable(ready[k])
    /\ \A j, k \in 1..Len(ready) : ready[j] = ready[k] => j = k
    /\ \A i \in Tasks : i > created => task[i].state = "none"
    /\ \A i \in Tasks : task[i].state \in {"new", "woken"} =>
         \E k \in 1..Len(ready) : ready[k] = i

\* The task the context would cancel can be cancelled.
Handle == gate_task # None => gate_task \in Tasks /\ Live(gate_task)

\* A live countdown is of a gated course, and if that is where the player is
\* now, without the item, it has slept in this stay what it has counted down.
Windows ==
    \A i \in Tasks : Live(i) =>
      /\ task[i].course \in Gated
      /\ task[i].remaining > 0
      /\ task[i].kills < MaxKills
      /\ task[i].course = current_course /\ current_course \notin owned =>
           visit_kills * Delay + (Delay - task[i].remaining) <= elapsed

\* Cancelled tasks clear the banner before the live task next shows it, and
\* a banner that no live task shows will be cleared.
Banner ==
    /\ \A j \in 1..Len(ready) : task[ready[j]].state = "cancelled" =>
         /\ gate_task # None => ~Started(gate_task)
         /\ \A k \in 1..Len(ready) : task[ready[k]].state = "new" => j < k
    /\ gate_task # None /\ Started(gate_task) =>
         banner = task[gate_task].remaining
    /\ (gate_task = None \/ ~Started(gate_task)) /\ banner # 0 =>
         \E j \in 1..Len(ready) : task[ready[j]].state = "cancelled"

IInv ==
    /\ TypeOK /\ created <= enters
    /\ Numbers /\ Queue /\ OneLoop /\ Handle /\ Windows /\ Banner
    /\ GraceKept

-----------------------------------------------------------------------------
\* The constants, as the proofs use them.
LEMMA Params ==
    /\ Delay \in Nat \ {0} /\ MaxKills \in Nat \ {0} /\ MaxEnters \in Nat
    /\ MaxReboots \in Nat /\ MaxReconnects \in Nat
    /\ Gated \subseteq Courses /\ None \notin Courses /\ None \notin Nat
BY GateAssumption DEF GateAssumption

LineType == [type: {"in", "out", "hello"}, course: Courses \cup {None}]

\* A task is named by a number, and None names none.
LEMMA InitIInv == Init => IInv
<1> SUFFICES ASSUME Init PROVE IInv  OBVIOUS
<1>1. TypeOK
  <2>1. /\ ready \in Seq(Tasks) /\ up \in Seq(LineType) /\ down \in Seq(Courses)
        BY DEF Init
  <2>2. task \in [Tasks -> TaskType]
        BY Params DEF Init, TaskType
  <2>3. /\ gate_task \in Tasks \cup {None} /\ owned \subseteq Gated
        /\ {parked, bounced, wrong_kill} \subseteq BOOLEAN
        BY DEF Init
  <2>4. /\ created \in 0..MaxEnters /\ banner \in 0..Delay /\ enters \in 0..MaxEnters
        /\ reboots \in 0..MaxReboots /\ reconnects \in 0..MaxReconnects
        /\ elapsed \in Nat /\ visit_kills \in Nat
        BY Params DEF Init
  <2>5. /\ current_course \in Courses \cup {None} /\ at \in Courses \cup {None}
        /\ in_course \in BOOLEAN /\ gating \in BOOLEAN
        BY DEF Init
  <2>6. QED  BY <2>1, <2>2, <2>3, <2>4, <2>5 DEF TypeOK, LineType
<1>2. /\ Len(up) = 0 /\ Len(ready) = 0 /\ \A i \in Tasks : task[i].state = "none"
      BY DEF Init
<1>3. Numbers
  <2> DEFINE n == [j \in 1..Len(up) |-> 0]
  <2>1. n \in [1..Len(up) -> 0..enters]  BY DEF Init
  <2> HIDE DEF n
  <2>2. \A j \in 1..Len(up) : FALSE  BY <1>2
  <2>3. QED  BY <2>1, <2>2 DEF Numbers
<1>4. Queue /\ OneLoop /\ Handle /\ Windows
      BY <1>2 DEF Init, Queue, OneLoop, Handle, Windows, Live
<1>5. Banner /\ GraceKept /\ created <= enters
      BY <1>2, Params DEF Init, Banner, GraceKept
<1>6. QED  BY <1>1, <1>3, <1>4, <1>5 DEF IInv

\* The Switch, the network and AP leave the bridge's tasks alone, and AP's
\* items only close windows.
LEMMA BridgeUntouched ==
    ASSUME IInv, UNCHANGED <<current_course, taskVars, elapsed, visit_kills>>,
           owned \subseteq owned', owned' \subseteq Gated, gating' \in BOOLEAN
    PROVE  /\ Queue' /\ OneLoop' /\ Handle' /\ Windows' /\ Banner' /\ GraceKept'
<1>1. Queue' /\ OneLoop' /\ Handle' /\ Banner' /\ GraceKept'
      BY DEF IInv, Queue, Runnable, OneLoop, Live, Handle, Banner, Started,
             GraceKept, taskVars
<1>2. Windows'
      BY DEF IInv, Windows, Live, taskVars
<1>3. QED  BY <1>1, <1>2

\* An item that arrives, or gating turned off, only makes tasks end later.
LEMMA AskIInv ==
    ASSUME IInv, ReceiveItem \/ DisableGating
    PROVE  IInv'
<1>1. TypeOK  BY DEF IInv
<1>2. /\ UNCHANGED <<current_course, in_course, taskVars, switchVars, up, down,
                     elapsed, visit_kills>>
      /\ owned \subseteq owned' /\ owned' \subseteq Gated /\ gating' \in BOOLEAN
      BY <1>1 DEF ReceiveItem, DisableGating, TypeOK
<1>3. TypeOK'
      BY <1>1, <1>2 DEF TypeOK, taskVars, switchVars, resetVars
<1>4. Numbers' /\ created' <= enters'
      BY <1>2 DEF IInv, Numbers, taskVars, switchVars
<1>5. QED  BY <1>2, <1>3, <1>4, BridgeUntouched DEF IInv

\* A suffix of the lines keeps its numbers, and a line put before or after it
\* takes one that is not below them.
LEMMA NumbersOfSuffix ==
    ASSUME Numbers, TypeOK, NEW from \in 1..(Len(up) + 1), created' = created,
           enters' = enters, NEW first \in LineType, first.type # "in",
           up' = <<first>> \o SubSeq(up, from, Len(up))
    PROVE  Numbers' /\ up' \in Seq(LineType)
<1>1. up \in Seq(LineType) /\ Len(up) \in Nat /\ from \in Int /\ enters \in Nat
      BY DEF TypeOK, LineType
<1>2. \A i \in from..Len(up) : up[i] \in LineType  BY <1>1
<1>3. /\ SubSeq(up, from, Len(up)) \in Seq(LineType)
      /\ Len(SubSeq(up, from, Len(up))) = Len(up) - from + 1
      /\ \A i \in 1..(Len(up) - from + 1) : SubSeq(up, from, Len(up))[i] = up[from + i - 1]
      BY <1>1, <1>2, SubSeqProperties
<1>4. <<first>> \in Seq(LineType) /\ Len(<<first>>) = 1 /\ <<first>>[1] = first
      OBVIOUS
<1>5. /\ up' \in Seq(LineType) /\ Len(up') = Len(up) - from + 2
      /\ \A i \in 1..Len(up') : up'[i] = IF i = 1 THEN first ELSE up[from + i - 2]
  <2>1. /\ up' \in Seq(LineType)
        /\ Len(up') = 1 + (Len(up) - from + 1)
        /\ \A i \in 1..(1 + (Len(up) - from + 1)) :
             up'[i] = IF i <= 1 THEN <<first>>[i]
                                ELSE SubSeq(up, from, Len(up))[i - 1]
        BY <1>3, <1>4, ConcatProperties
  <2>2. \A i \in 2..(Len(up) - from + 2) : SubSeq(up, from, Len(up))[i - 1] = up[from + i - 2]
    <3>1. \A i \in 2..(Len(up) - from + 2) :
            i - 1 \in 1..(Len(up) - from + 1) /\ from + (i - 1) - 1 = from + i - 2
          BY <1>1
    <3>2. QED  BY <1>3, <3>1
  <2>3. QED  BY <1>1, <1>4, <2>1, <2>2
<1>6. PICK n \in [1..Len(up) -> 0..enters] :
        \A j \in 1..Len(up) : up[j].type = "in" =>
          /\ created < n[j]
          /\ \A k \in 1..Len(up) : (up[k].type = "in" /\ j < k) => n[j] < n[k]
      BY DEF Numbers
<1> DEFINE m == [j \in 1..Len(up') |-> IF j = 1 THEN 0 ELSE n[from + j - 2]]
<1>7. \A j \in 2..Len(up') : from + j - 2 \in 1..Len(up)
  <2>1. Len(up') = Len(up) - from + 2  BY <1>5
  <2>2. from >= 1  OBVIOUS
  <2>3. \A j \in 2..(Len(up) - from + 2) : from + j - 2 \in 1..Len(up)
    <3>1. SUFFICES ASSUME NEW j \in 2..(Len(up) - from + 2)
                   PROVE  from + j - 2 \in 1..Len(up)
          OBVIOUS
    <3>2. QED  BY <1>1, <2>2
  <2>4. QED  BY <2>1, <2>3
<1>8. m \in [1..Len(up') -> 0..enters']
  <2>1. ASSUME NEW j \in 1..Len(up'), j # 1
        PROVE  n[from + j - 2] \in 0..enters
    <3>1. j \in 2..Len(up')  BY <1>1, <1>5, <2>1
    <3>2. QED  BY <1>6, <1>7, <3>1
  <2>2. 0 \in 0..enters /\ enters' = enters  BY <1>1
  <2>3. QED  BY <2>1, <2>2
<1>9. ASSUME NEW j \in 1..Len(up'), up'[j].type = "in"
      PROVE  /\ j \in 2..Len(up') /\ m[j] = n[from + j - 2]
             /\ up[from + j - 2].type = "in"
      BY <1>1, <1>5, <1>9
<1> HIDE DEF m
<1>10. ASSUME NEW j \in 1..Len(up'), up'[j].type = "in"
       PROVE  /\ created' < m[j]
              /\ \A k \in 1..Len(up') : (up'[k].type = "in" /\ j < k) => m[j] < m[k]
  <2>1. created' < m[j]  BY <1>6, <1>7, <1>9, <1>10
  <2>2. ASSUME NEW k \in 1..Len(up'), up'[k].type = "in", j < k
        PROVE  m[j] < m[k]
    <3>1. from + j - 2 < from + k - 2  BY <1>1, <1>5, <2>2
    <3>2. QED  BY <1>6, <1>7, <1>9, <1>10, <2>2, <3>1
  <2>3. QED  BY <2>1, <2>2
<1>11. QED  BY <1>5, <1>8, <1>10 DEF Numbers

\* A line put after the others.
LEMMA NumbersOfAppend ==
    ASSUME Numbers, TypeOK, NEW last \in LineType, created' = created,
           created <= enters, up' = Append(up, last),
           enters' \in Nat, enters <= enters',
           last.type = "in" => enters' = enters + 1
    PROVE  Numbers' /\ up' \in Seq(LineType)
<1>1. /\ up \in Seq(LineType) /\ Len(up) \in Nat /\ enters \in Nat
      /\ created \in Nat
      BY DEF TypeOK, LineType
<1>2. /\ up' \in Seq(LineType) /\ Len(up') = Len(up) + 1
      /\ \A i \in 1..Len(up) : up'[i] = up[i]
      /\ up'[Len(up) + 1] = last
      BY <1>1
<1>3. PICK n \in [1..Len(up) -> 0..enters] :
        \A j \in 1..Len(up) : up[j].type = "in" =>
          /\ created < n[j]
          /\ \A k \in 1..Len(up) : (up[k].type = "in" /\ j < k) => n[j] < n[k]
      BY DEF Numbers
<1> DEFINE m == [j \in 1..Len(up') |-> IF j = Len(up) + 1 THEN enters' ELSE n[j]]
<1>4. m \in [1..Len(up') -> 0..enters']  BY <1>1, <1>2
<1>5. /\ \A j \in 1..Len(up) : m[j] = n[j] /\ j \in 1..Len(up')
      /\ m[Len(up) + 1] = enters'
      BY <1>1, <1>2
<1> HIDE DEF m
<1>6. ASSUME NEW j \in 1..Len(up'), up'[j].type = "in"
      PROVE  /\ created' < m[j]
             /\ \A k \in 1..Len(up') : (up'[k].type = "in" /\ j < k) => m[j] < m[k]
  <2>1. CASE j = Len(up) + 1
    <3>1. enters' = enters + 1  BY <1>2, <1>6, <2>1
    <3>2. QED  BY <1>1, <1>2, <1>5, <2>1, <3>1
  <2>2. CASE j \in 1..Len(up)
    <3>1. up[j].type = "in" /\ m[j] = n[j] /\ n[j] \in 0..enters
          BY <1>2, <1>5, <1>6, <2>2
    <3>4. created' < m[j]  BY <1>3, <2>2, <3>1
    <3>2. ASSUME NEW k \in 1..Len(up'), up'[k].type = "in", j < k
          PROVE  m[j] < m[k]
      <4>1. CASE k = Len(up) + 1
            BY <1>1, <1>2, <1>5, <3>1, <3>2, <4>1
      <4>2. CASE k \in 1..Len(up)
        <5>1. up[k].type = "in" /\ m[k] = n[k]
              BY <1>2, <1>5, <3>2, <4>2
        <5>2. QED  BY <1>3, <2>2, <3>1, <3>2, <4>2, <5>1
      <4>3. QED  BY <1>1, <1>2, <4>1, <4>2
    <3>3. QED  BY <3>2, <3>4
  <2>3. QED  BY <1>1, <1>2, <2>1, <2>2
<1>7. QED  BY <1>2, <1>4, <1>6 DEF Numbers

\* The Switch and the network.
LEMMA SwitchIInv ==
    ASSUME IInv,
           \/ \E c \in Courses : Enter(c)
           \/ Leave \/ KillArrives \/ ParkedKill \/ Reboot \/ Reconnect
    PROVE  IInv'
<1>1. TypeOK /\ Numbers /\ created <= enters  BY DEF IInv
<1>2. UNCHANGED <<bridgeVars, elapsed, visit_kills>>
      BY DEF Enter, Leave, KillArrives, ParkedKill, Reboot, Reconnect
<1>3. /\ UNCHANGED <<current_course, in_course, owned, gating, gate_task, task,
                     created, ready, banner>>
      /\ owned \subseteq owned' /\ owned' \subseteq Gated /\ gating' \in BOOLEAN
      BY <1>1, <1>2 DEF bridgeVars, taskVars, TypeOK
<1>4. Queue' /\ OneLoop' /\ Handle' /\ Windows' /\ Banner' /\ GraceKept'
      BY <1>2, <1>3, BridgeUntouched DEF taskVars
<1>5. ASSUME at' \in Courses \cup {None},
             {parked, bounced, wrong_kill}' \subseteq BOOLEAN,
             enters' \in 0..MaxEnters, reboots' \in 0..MaxReboots,
             reconnects' \in 0..MaxReconnects, enters <= enters',
             down' \in Seq(Courses), up' \in Seq(LineType), Numbers'
      PROVE  IInv'
  <2>1. TypeOK'  BY <1>1, <1>2, <1>3, <1>5 DEF TypeOK, LineType
  <2>2. QED  BY <1>1, <1>3, <1>4, <1>5, <2>1, Params DEF IInv, TypeOK
<1>6. /\ down \in Seq(Courses) /\ enters \in 0..MaxEnters /\ enters \in Nat
      /\ {parked, bounced, wrong_kill} \subseteq BOOLEAN
      /\ up \in Seq(LineType)
      /\ reboots \in 0..MaxReboots /\ reconnects \in 0..MaxReconnects
      /\ at \in Courses \cup {None}
      BY <1>1, Params DEF TypeOK, LineType
<1>7. ASSUME NEW c \in Courses, Enter(c)  PROVE IInv'
  <2>1. Line("in", c) \in LineType /\ Line("in", c).type = "in"
        BY DEF Line, LineType
  <2>2. enters' = enters + 1 /\ enters' \in 0..MaxEnters /\ up' = Append(up, Line("in", c))
        BY <1>6, <1>7, Params DEF Enter
  <2>3. Numbers' /\ up' \in Seq(LineType)
        BY <1>1, <1>3, <1>6, <2>1, <2>2, NumbersOfAppend
  <2>4. /\ {parked, bounced, wrong_kill}' \subseteq BOOLEAN
        /\ UNCHANGED <<reboots, reconnects, down>>
        /\ at' \in Courses \cup {None}
        BY <1>6, <1>7 DEF Enter, resetVars
  <2>5. enters <= enters'  BY <1>6, <2>2
  <2>6. QED  BY <1>5, <1>6, <2>2, <2>3, <2>4, <2>5
<1>8. CASE Leave
  <2>1. Line("out", None) \in LineType /\ Line("out", None).type # "in"
        BY DEF Line, LineType
  <2>2. enters' = enters /\ up' = Append(up, Line("out", None))
        BY <1>8 DEF Leave
  <2>3. Numbers' /\ up' \in Seq(LineType)
        BY <1>1, <1>3, <1>6, <2>1, <2>2, NumbersOfAppend
  <2>4. /\ {parked, bounced, wrong_kill}' \subseteq BOOLEAN
        /\ UNCHANGED <<reboots, reconnects, down>>
        /\ at' \in Courses \cup {None}
        BY <1>6, <1>8 DEF Leave, resetVars
  <2>5. QED  BY <1>5, <1>6, <2>2, <2>3, <2>4
<1>9. CASE KillArrives \/ ParkedKill
  <2>1. UNCHANGED <<at, enters, resetVars, up>>
        BY <1>9 DEF KillArrives, ParkedKill
  <2>2. Numbers'  BY <1>1, <1>3, <2>1 DEF Numbers
  <2>3. down' \in Seq(Courses)
        BY <1>6, <1>9 DEF KillArrives, ParkedKill
  <2>4. {parked, bounced, wrong_kill}' \subseteq BOOLEAN
        BY <1>6, <1>9 DEF KillArrives, ParkedKill, Die
  <2>5. QED  BY <1>5, <1>6, <2>1, <2>2, <2>3, <2>4 DEF resetVars
<1>10. Line("hello", None) \in LineType /\ Line("hello", None).type # "in"
       BY DEF Line, LineType
<1>11. CASE Reboot
  <2>1. SubSeq(up, Len(up) + 1, Len(up)) = <<>>  BY <1>6, SubSeqEmpty
  <2>2. up' = <<Line("hello", None)>> \o SubSeq(up, Len(up) + 1, Len(up))
        BY <1>11, <2>1 DEF Reboot
  <2>3. Numbers' /\ up' \in Seq(LineType)
    <3>1. Len(up) + 1 \in 1..(Len(up) + 1)  BY <1>6
    <3>2. QED  BY <1>1, <1>3, <1>10, <1>11, <2>2, <3>1, NumbersOfSuffix DEF Reboot
  <2>4. reboots' \in 0..MaxReboots /\ down' \in Seq(Courses)
        BY <1>6, <1>11, Params DEF Reboot
  <2>5. {parked, bounced, wrong_kill}' \subseteq BOOLEAN /\ at' \in Courses \cup {None}
        BY <1>6, <1>11 DEF Reboot
  <2>6. QED  BY <1>5, <1>6, <1>11, <2>3, <2>4, <2>5 DEF Reboot
<1>12. CASE Reconnect
  <2>1. PICK lost \in 0..Len(up) :
          up' = <<Line("hello", None)>> \o SubSeq(up, lost + 1, Len(up))
        BY <1>12 DEF Reconnect
  <2>2. lost + 1 \in 1..(Len(up) + 1)  BY <1>6
  <2>3. Numbers' /\ up' \in Seq(LineType)
        BY <1>1, <1>3, <1>10, <1>12, <2>1, <2>2, NumbersOfSuffix DEF Reconnect
  <2>4. reconnects' \in 0..MaxReconnects /\ down' \in Seq(Courses)
        BY <1>6, <1>12, Params DEF Reconnect
  <2>5. QED  BY <1>5, <1>6, <1>12, <2>3, <2>4 DEF Reconnect
<1>13. QED  BY <1>7, <1>8, <1>9, <1>11, <1>12

-----------------------------------------------------------------------------
\* What handle_gate_entered's cancellation leaves.
Cleared == IF gate_task # None THEN Cancelled(gate_task) ELSE task
Queued  == IF gate_task # None /\ task[gate_task].state = "sleeping"
           THEN Append(ready, gate_task) ELSE ready

\* No task is live, the ready ones are on their way out, and a banner that is
\* up will be cleared by one of them.
LEMMA Cancels ==
    ASSUME IInv
    PROVE  /\ Cleared \in [Tasks -> TaskType] /\ Queued \in Seq(Tasks)
           /\ \A i \in Tasks : Cleared[i].state \notin {"new", "sleeping", "woken"}
           /\ \A k \in 1..Len(Queued) : Cleared[Queued[k]].state \in {"cancelled", "stillborn"}
           /\ \A j, k \in 1..Len(Queued) : Queued[j] = Queued[k] => j = k
           /\ \A i \in Tasks : i > created => Cleared[i].state = "none"
           /\ banner # 0 => \E j \in 1..Len(Queued) : Cleared[Queued[j]].state = "cancelled"
<1>1. /\ TypeOK /\ ready \in Seq(Tasks) /\ task \in [Tasks -> TaskType]
      /\ \A k \in 1..Len(ready) : ready[k] \in Tasks
      BY DEF IInv, TypeOK
<1>2. CASE gate_task = None
  <2>1. Cleared = task /\ Queued = ready  BY <1>2 DEF Cleared, Queued
  <2>2. \A i \in Tasks : ~Live(i)
        BY <1>2, Params DEF IInv, OneLoop, Tasks
  <2>3. QED
        BY <1>1, <1>2, <2>1, <2>2
        DEF IInv, Queue, Runnable, Banner, Live
<1>3. CASE gate_task # None
  <2> DEFINE g == gate_task
  <2>1. g \in Tasks /\ Live(g) /\ \A i \in Tasks : i # g => ~Live(i)
        BY <1>3 DEF IInv, Handle, OneLoop
  <2>2. Cleared = [task EXCEPT ![g].state = IF task[g].state = "new" THEN "stillborn" ELSE "cancelled"]
        BY <1>3 DEF Cleared, Cancelled
  <2>3. /\ Cleared \in [Tasks -> TaskType]
        /\ Cleared[g].state = IF task[g].state = "new" THEN "stillborn" ELSE "cancelled"
        /\ \A i \in Tasks : i # g => Cleared[i] = task[i]
        BY <1>1, <2>1, <2>2 DEF TaskType
  <2>4. /\ \A i \in Tasks : Cleared[i].state \notin {"new", "sleeping", "woken"}
        /\ \A i \in Tasks : i > created => Cleared[i].state = "none"
        BY <1>1, <2>1, <2>3 DEF IInv, Queue, Live
  <2>5. \A k \in 1..Len(ready) : Cleared[ready[k]].state \in {"cancelled", "stillborn"}
    <3>1. ASSUME NEW k \in 1..Len(ready)
          PROVE  Cleared[ready[k]].state \in {"cancelled", "stillborn"}
      <4>1. Runnable(ready[k]) /\ ready[k] \in Tasks
            BY <1>1 DEF IInv, Queue
      <4>2. QED  BY <2>1, <2>3, <4>1 DEF Runnable, Live
    <3>2. QED  BY <3>1
  <2>6. banner # 0 /\ ~Started(g) =>
          \E j \in 1..Len(ready) : Cleared[ready[j]].state = "cancelled"
    <3>1. banner # 0 /\ ~Started(g) =>
            \E j \in 1..Len(ready) : task[ready[j]].state = "cancelled"
          BY DEF IInv, Banner
    <3>2. \A i \in Tasks : task[i].state = "cancelled" => Cleared[i].state = "cancelled"
          BY <2>1, <2>3 DEF Live
    <3>3. QED  BY <1>1, <3>1, <3>2
  <2>7. CASE task[g].state = "sleeping"
    <3>1. Queued = Append(ready, g)  BY <1>3, <2>7 DEF Queued
    <3>2. /\ Queued \in Seq(Tasks) /\ Len(Queued) = Len(ready) + 1
          /\ \A k \in 1..Len(ready) : Queued[k] = ready[k]
          /\ Queued[Len(ready) + 1] = g
          /\ Len(ready) \in Nat
          BY <1>1, <2>1, <3>1
    <3>3. \A k \in 1..Len(ready) : ready[k] # g
          BY <2>7 DEF IInv, Queue, Runnable
    <3>4. Cleared[g].state = "cancelled"  BY <2>3, <2>7
    <3>5. \A k \in 1..Len(Queued) : k \in 1..Len(ready) \/ k = Len(ready) + 1
          BY <3>2
    <3>6. \A k \in 1..Len(Queued) : Cleared[Queued[k]].state \in {"cancelled", "stillborn"}
          BY <2>5, <3>2, <3>4, <3>5
    <3>7. \A j, k \in 1..Len(Queued) : Queued[j] = Queued[k] => j = k
      <4>1. \A j, k \in 1..Len(ready) : ready[j] = ready[k] => j = k
            BY DEF IInv, Queue
      <4>2. QED  BY <3>2, <3>3, <3>5, <4>1
    <3>8. Len(ready) + 1 \in 1..Len(Queued)  BY <3>2
    <3>9. QED  BY <2>3, <2>4, <3>2, <3>4, <3>6, <3>7, <3>8
  <2>8. CASE task[g].state # "sleeping"
    <3>1. Queued = ready  BY <2>8 DEF Queued
    <3>2. Started(g) => \E k \in 1..Len(ready) : ready[k] = g /\ Cleared[g].state = "cancelled"
      <4>1. Started(g) => task[g].state = "woken"  BY <2>8 DEF Started
      <4>2. QED  BY <2>1, <2>3, <4>1 DEF IInv, Queue
    <3>3. banner # 0 => \E j \in 1..Len(Queued) : Cleared[Queued[j]].state = "cancelled"
          BY <2>6, <3>1, <3>2
    <3>4. \A j, k \in 1..Len(Queued) : Queued[j] = Queued[k] => j = k
          BY <3>1 DEF IInv, Queue
    <3>5. QED  BY <1>1, <2>3, <2>4, <2>5, <3>1, <3>3, <3>4
  <2>9. QED  BY <2>7, <2>8
<1>4. QED  BY <1>2, <1>3

TaskTypes ==
    /\ task \in [Tasks -> TaskType] /\ ready \in Seq(Tasks)
    /\ gate_task \in Tasks \cup {None} /\ created \in 0..MaxEnters
    /\ banner \in 0..Delay

\* handle_gate_entered: the old loop is on its way out, and the new one is
\* behind it in the queue, with its whole window before it.
LEMMA GateEnteredKeeps ==
    ASSUME IInv, NEW course \in Gated, GateEntered(course), created < MaxEnters,
           elapsed' = 0, visit_kills' = 0, UNCHANGED <<banner, owned>>
    PROVE  /\ Queue' /\ OneLoop' /\ Handle' /\ Windows' /\ Banner' /\ TaskTypes'
           /\ created' \in {created, created + 1}
<1> USE Params
<1>1. /\ TypeOK /\ ready \in Seq(Tasks) /\ task \in [Tasks -> TaskType]
      /\ created \in 0..MaxEnters /\ created \in Nat /\ created + 1 \in Tasks
      /\ course \in Courses /\ banner \in 0..Delay
      BY DEF IInv, TypeOK, Tasks
<1>2. /\ Cleared \in [Tasks -> TaskType] /\ Queued \in Seq(Tasks)
      /\ \A i \in Tasks : Cleared[i].state \notin {"new", "sleeping", "woken"}
      /\ \A k \in 1..Len(Queued) : Cleared[Queued[k]].state \in {"cancelled", "stillborn"}
      /\ \A j, k \in 1..Len(Queued) : Queued[j] = Queued[k] => j = k
      /\ \A i \in Tasks : i > created => Cleared[i].state = "none"
      /\ banner # 0 => \E j \in 1..Len(Queued) : Cleared[Queued[j]].state = "cancelled"
      BY Cancels
<1>3. gate_task # None => Live(gate_task)
      BY DEF IInv, Handle
<1>4. /\ (IF gate_task # None /\ Live(gate_task) THEN Cancelled(gate_task) ELSE task) = Cleared
      /\ (IF gate_task # None /\ Live(gate_task) /\ task[gate_task].state = "sleeping"
          THEN Append(ready, gate_task) ELSE ready) = Queued
      BY <1>3 DEF Cleared, Queued
<1>5. CASE ~(gating /\ course \notin owned)
  <2>1. task' = Cleared /\ ready' = Queued /\ gate_task' = None /\ created' = created
        BY <1>4, <1>5 DEF GateEntered
  <2>2. TaskTypes'  BY <1>1, <1>2, <2>1 DEF TaskTypes
  <2>3. Queue' /\ OneLoop' /\ Handle' /\ Windows'
        BY <1>2, <2>1
        DEF Queue, Runnable, OneLoop, Live, Handle, Windows
  <2>4. Banner'  BY <1>2, <2>1 DEF Banner
  <2>5. QED  BY <2>1, <2>2, <2>3, <2>4
<1>6. CASE gating /\ course \notin owned
  <2> DEFINE i   == created + 1
             rec == [course |-> course, remaining |-> Delay, kills |-> 0, state |-> "new"]
  <2>1. /\ task' = [Cleared EXCEPT ![i] = rec] /\ ready' = Append(Queued, i)
        /\ gate_task' = i /\ created' = i
        BY <1>4, <1>6 DEF GateEntered
  <2>2. rec \in TaskType  BY <1>1 DEF TaskType
  <2>3. i \in Tasks /\ i \in 0..MaxEnters /\ i # None /\ i > created  BY <1>1 DEF Tasks
  <2>4. /\ task' \in [Tasks -> TaskType] /\ task'[i] = rec
        /\ \A j \in Tasks : j # i => task'[j] = Cleared[j]
        BY <1>2, <2>1, <2>2, <2>3
  <2> HIDE DEF i
  <2>5. /\ ready' \in Seq(Tasks) /\ Len(ready') = Len(Queued) + 1
        /\ \A k \in 1..Len(Queued) : ready'[k] = Queued[k]
        /\ ready'[Len(Queued) + 1] = i /\ Len(Queued) \in Nat
        BY <1>2, <2>1, <2>3
  <2>6. \A k \in 1..Len(ready') : k \in 1..Len(Queued) \/ k = Len(Queued) + 1
        BY <2>5
  <2>7. \A k \in 1..Len(Queued) : Queued[k] \in Tasks /\ Queued[k] # i
        BY <1>2, <2>3
  <2>8. /\ task'[i].state = "new" /\ task'[i].remaining = Delay
        /\ task'[i].course = course /\ task'[i].kills = 0
        BY <2>4
  <2>9. \A k \in 1..Len(Queued) : task'[ready'[k]].state \in {"cancelled", "stillborn"}
        BY <1>2, <2>4, <2>5, <2>7
  <2>10. TaskTypes'  BY <1>1, <2>1, <2>3, <2>4, <2>5 DEF TaskTypes
  <2>11. \A j \in Tasks : Live(j)' => j = i
         BY <1>2, <2>4 DEF Live
  <2>12. Queue'
    <3>1. \A k \in 1..Len(ready') : Runnable(ready[k])'
          BY <2>5, <2>6, <2>8, <2>9 DEF Runnable
    <3>2. \A j, k \in 1..Len(ready') : ready'[j] = ready'[k] => j = k
          BY <1>2, <2>5, <2>6, <2>7
    <3>3. \A j \in Tasks : j > created' => task'[j].state = "none"
      <4>1. \A j \in Tasks : j > i => j > created /\ j # i
            BY <1>1, <2>3 DEF Tasks
      <4>2. QED  BY <1>2, <2>1, <2>4, <4>1
    <3>4. \A j \in Tasks : task'[j].state \in {"new", "woken"} =>
            \E k \in 1..Len(ready') : ready'[k] = j
      <4>1. \A j \in Tasks : task'[j].state \in {"new", "woken"} => j = i
            BY <2>11 DEF Live
      <4>2. Len(Queued) + 1 \in 1..Len(ready')  BY <2>5
      <4>3. QED  BY <2>5, <4>1, <4>2
    <3>5. QED  BY <3>1, <3>2, <3>3, <3>4 DEF Queue
  <2>13. OneLoop' /\ Handle'
         BY <2>1, <2>3, <2>8, <2>11 DEF OneLoop, Handle, Live
  <2>14. Windows'
         BY <2>8, <2>11 DEF Windows
  <2>15. Banner'
    <3>1. ~Started(gate_task)'  BY <2>1, <2>8 DEF Started
    <3>2. \A j, k \in 1..Len(ready') :
            task'[ready'[j]].state = "cancelled" /\ task'[ready'[k]].state = "new" => j < k
      <4>1. \A j \in 1..Len(ready') : task'[ready'[j]].state = "cancelled" => j \in 1..Len(Queued)
            BY <2>5, <2>6, <2>8
      <4>2. \A k \in 1..Len(ready') : task'[ready'[k]].state = "new" => k = Len(Queued) + 1
            BY <2>6, <2>9
      <4>3. QED  BY <2>5, <4>1, <4>2
    <3>3. banner # 0 => \E j \in 1..Len(ready') : task'[ready'[j]].state = "cancelled"
      <4>1. \A j \in 1..Len(Queued) : j \in 1..Len(ready') /\ task'[ready'[j]] = Cleared[Queued[j]]
            BY <2>4, <2>5, <2>7
      <4>2. QED  BY <1>2, <4>1
    <3>4. QED  BY <3>1, <3>2, <3>3 DEF Banner
  <2>16. created' = created + 1  BY <2>1 DEF i
  <2>17. QED  BY <2>10, <2>12, <2>13, <2>14, <2>15, <2>16
<1>7. QED  BY <1>5, <1>6

\* Reading a line: its number, if it has one, is not on the way any more.
LEMMA NumbersOfTail ==
    ASSUME TypeOK, Numbers, created <= enters, up # <<>>, up' = Tail(up), enters' = enters,
           \/ created' = created
           \/ Head(up).type = "in" /\ created' = created + 1
    PROVE  Numbers' /\ up' \in Seq(LineType) /\ created' <= enters'
<1>1. /\ up \in Seq(LineType) /\ Len(up) \in Nat /\ enters \in Nat /\ enters <= MaxEnters
      /\ created \in Nat /\ MaxEnters \in Nat /\ Len(up) >= 1
      BY Params DEF TypeOK, LineType
<1>2. /\ Head(up) = up[1] /\ Head(up) \in LineType
      /\ up' \in Seq(LineType) /\ Len(up') = Len(up) - 1
      /\ \A i \in 1..Len(up') : up'[i] = up[i + 1]
      BY <1>1, HeadTailProperties
<1>3. PICK n \in [1..Len(up) -> 0..enters] :
        \A j \in 1..Len(up) : up[j].type = "in" =>
          /\ created < n[j]
          /\ \A k \in 1..Len(up) : (up[k].type = "in" /\ j < k) => n[j] < n[k]
      BY DEF Numbers
<1> DEFINE m == [j \in 1..Len(up') |-> n[j + 1]]
<1>4. \A j \in 1..Len(up') : j + 1 \in 1..Len(up) /\ 1 < j + 1  BY <1>1, <1>2
<1>5. m \in [1..Len(up') -> 0..enters']  BY <1>4
<1>6. \A j \in 1..Len(up') : m[j] = n[j + 1]  OBVIOUS
<1> HIDE DEF m
<1>7. 1 \in 1..Len(up)  BY <1>1
<1>8. ASSUME NEW j \in 1..Len(up'), up'[j].type = "in"
      PROVE  /\ created' < m[j]
             /\ \A k \in 1..Len(up') : (up'[k].type = "in" /\ j < k) => m[j] < m[k]
  <2>1. up[j + 1].type = "in"  BY <1>2, <1>8
  <2>2. created' < m[j]
    <3>1. CASE created' = created  BY <1>3, <1>4, <1>6, <2>1, <3>1
    <3>2. CASE Head(up).type = "in" /\ created' = created + 1
      <4>1. created < n[1] /\ n[1] < n[j + 1]
            BY <1>2, <1>3, <1>4, <1>7, <2>1, <3>2
      <4>2. n[1] \in Nat /\ n[j + 1] \in Nat
            BY <1>4, <1>7
      <4>3. QED  BY <1>1, <1>6, <3>2, <4>1, <4>2
    <3>3. QED  BY <3>1, <3>2
  <2>3. ASSUME NEW k \in 1..Len(up'), up'[k].type = "in", j < k
        PROVE  m[j] < m[k]
    <3>1. up[k + 1].type = "in" /\ j + 1 < k + 1
          BY <1>1, <1>2, <2>3
    <3>2. QED  BY <1>3, <1>4, <1>6, <2>1, <3>1
  <2>4. QED  BY <2>2, <2>3
<1>9. Head(up).type = "in" => created < enters
  <2>1. Head(up).type = "in" => created < n[1] /\ n[1] \in 0..enters
        BY <1>2, <1>3, <1>7
  <2>2. QED  BY <1>1, <2>1
<1>10. created' <= enters'  BY <1>1, <1>9
<1>11. Numbers'
  <2>1. \A j \in 1..Len(up') : up'[j].type = "in" =>
          /\ created' < m[j]
          /\ \A k \in 1..Len(up') : (up'[k].type = "in" /\ j < k) => m[j] < m[k]
        BY <1>8
  <2>2. QED  BY <1>5, <2>1 DEF Numbers
<1>12. QED  BY <1>2, <1>10, <1>11

\* Reading a course_in, a course_result or a Hello.
LEMMA HandleLineIInv ==
    ASSUME IInv, HandleLine
    PROVE  IInv'
<1> USE Params
<1>1. /\ TypeOK /\ Numbers /\ created <= enters /\ up # <<>> /\ up' = Tail(up)
      /\ UNCHANGED <<owned, gating, switchVars, down>>
      /\ enters' = enters
      BY DEF IInv, HandleLine, switchVars
<1>2. ASSUME \/ created' = created
             \/ Head(up).type = "in" /\ created' = created + 1
      PROVE  Numbers' /\ up' \in Seq(LineType) /\ created' <= enters'
      BY <1>1, <1>2, NumbersOfTail
<1>3. Head(up) \in LineType /\ (Head(up).type = "in" => created < MaxEnters)
  <2>1. /\ up \in Seq(LineType) /\ Len(up) \in Nat  BY <1>1 DEF TypeOK, LineType
  <2>2. Head(up) \in LineType  BY <1>1, <2>1, HeadTailProperties
  <2>3. Numbers => (Head(up).type = "in" => created < MaxEnters)
    <3>1. HAVE Numbers
    <3>2. PICK n \in [1..Len(up) -> 0..enters] :
            \A j \in 1..Len(up) : up[j].type = "in" => created < n[j]
          BY <3>1 DEF Numbers
    <3>3. 1 \in 1..Len(up) /\ Head(up) = up[1]
          BY <1>1, <2>1, HeadTailProperties
    <3>4. n[1] \in 0..enters  BY <3>2, <3>3
    <3>5. enters \in 0..MaxEnters /\ created \in Nat  BY <1>1 DEF TypeOK
    <3>6. Head(up).type = "in" => created < n[1]  BY <3>2, <3>3
    <3>7. QED  BY <3>4, <3>5, <3>6
  <2>4. QED  BY <1>1, <2>2, <2>3
<1> DEFINE course == Head(up).course
<1>4. course \in Courses \cup {None}  BY <1>3 DEF LineType
<1>5. ASSUME TaskTypes', current_course' \in Courses \cup {None}, in_course' \in BOOLEAN,
             elapsed' \in Nat, visit_kills' \in Nat, up' \in Seq(LineType)
      PROVE  TypeOK'
  <2>1. /\ {parked, bounced, wrong_kill}' \subseteq BOOLEAN /\ owned' \subseteq Gated
        /\ gating' \in BOOLEAN /\ down' \in Seq(Courses) /\ at' \in Courses \cup {None}
        BY <1>1 DEF TypeOK, switchVars
  <2>2. /\ enters' \in 0..MaxEnters /\ reboots' \in 0..MaxReboots
        /\ reconnects' \in 0..MaxReconnects
        BY <1>1 DEF TypeOK, switchVars, resetVars
  <2>3. QED  BY <1>5, <2>1, <2>2 DEF TypeOK, TaskTypes, LineType
<1>6. CASE Head(up).type # "in"
  <2>1. /\ UNCHANGED <<current_course, taskVars, elapsed, visit_kills>>
        /\ in_course' = FALSE /\ owned' = owned /\ gating' = gating
        BY <1>1, <1>6 DEF HandleLine, HandleCourseOut
  <2>2. /\ TaskTypes' /\ current_course' \in Courses \cup {None}
        /\ elapsed' \in Nat /\ visit_kills' \in Nat /\ created' = created
        BY <1>1, <2>1 DEF TypeOK, TaskTypes, taskVars
  <2>3. /\ Queue' /\ OneLoop' /\ Handle' /\ Windows' /\ Banner' /\ GraceKept'
        BY <1>1, <2>1, BridgeUntouched DEF TypeOK
  <2>4. QED  BY <1>2, <1>5, <2>1, <2>2, <2>3 DEF IInv
<1>7. CASE Head(up).type = "in"
  <2>1. HandleCourseIn(course)  BY <1>7 DEF HandleLine
  <2>2. /\ current_course' = course /\ in_course' = TRUE
        /\ elapsed' = 0 /\ visit_kills' = 0
        BY <2>1 DEF HandleCourseIn
  <2>3. GraceKept'  BY <2>2 DEF GraceKept
  <2>4. /\ Queue' /\ OneLoop' /\ Handle' /\ Windows' /\ Banner' /\ TaskTypes'
        /\ created' \in {created, created + 1}
    <3>1. CASE course \in Gated /\ (course \notin WorldGated \/ course \notin owned)
      <4>1. GateEntered(course) /\ UNCHANGED banner
            BY <2>1, <3>1 DEF HandleCourseIn
      <4>2. created < MaxEnters /\ owned' = owned /\ course \in Gated
            BY <1>1, <1>3, <1>7, <3>1
      <4>3. QED  BY <2>2, <4>1, <4>2, GateEnteredKeeps
    <3>2. CASE ~(course \in Gated /\ (course \notin WorldGated \/ course \notin owned))
      <4>1. UNCHANGED <<taskVars, owned>>
            BY <1>1, <2>1, <3>2 DEF HandleCourseIn
      <4>2. Queue' /\ OneLoop' /\ Handle' /\ Banner'
            BY <4>1 DEF IInv, Queue, Runnable, OneLoop, Live, Handle, Banner,
                        Started, taskVars
      <4>3. TaskTypes' /\ created' = created
            BY <1>1, <4>1 DEF TypeOK, TaskTypes, taskVars
      <4>4. Windows'
        <5>1. SUFFICES ASSUME NEW i \in Tasks, Live(i)'
              PROVE  /\ task'[i].course \in Gated /\ task'[i].remaining > 0
                     /\ task'[i].kills < MaxKills
                     /\ ~(task'[i].course = course /\ course \notin owned')
              BY <2>2 DEF Windows
        <5>2. Live(i) /\ task' = task /\ owned' = owned
              BY <4>1, <5>1 DEF Live, taskVars
        <5>3. /\ task[i].course \in Gated /\ task[i].remaining > 0
              /\ task[i].kills < MaxKills
              BY <5>2 DEF IInv, Windows
        <5>4. QED  BY <3>2, <5>2, <5>3
      <4>5. QED  BY <4>2, <4>3, <4>4
    <3>3. QED  BY <3>1, <3>2
  <2>5. Numbers' /\ up' \in Seq(LineType) /\ created' <= enters'
        BY <1>2, <1>7, <2>4
  <2>6. TypeOK'  BY <1>4, <1>5, <2>2, <2>4, <2>5
  <2>7. QED  BY <2>3, <2>4, <2>5, <2>6 DEF IInv
<1>8. QED  BY <1>6, <1>7

-----------------------------------------------------------------------------
(* The event loop's turn. *)

\* A sleep that ends puts its task, the live one, at the end of the queue;
\* while it slept, no cancelled task was left in the queue.
LEMMA WakeIInv ==
    ASSUME IInv, NEW i \in Tasks, Wake(i)
    PROVE  IInv'
<1> USE Params
<1>1. /\ TypeOK /\ ready \in Seq(Tasks) /\ task \in [Tasks -> TaskType]
      /\ Len(ready) \in Nat
      BY DEF IInv, TypeOK
<1>2. /\ task[i].state = "sleeping" /\ Live(i) /\ gate_task = i /\ i # None
      BY DEF IInv, OneLoop, Live, Wake, Tasks
<1>3. /\ task' = [task EXCEPT ![i].state = "woken"] /\ ready' = Append(ready, i)
      /\ UNCHANGED <<current_course, in_course, owned, gating, gate_task, created,
                     banner, switchVars, up, down, elapsed, visit_kills>>
      BY DEF Wake
<1>4. /\ task' \in [Tasks -> TaskType]
      /\ task'[i].state = "woken" /\ task'[i].course = task[i].course
      /\ task'[i].remaining = task[i].remaining /\ task'[i].kills = task[i].kills
      /\ \A j \in Tasks : j # i => task'[j] = task[j]
      BY <1>1, <1>3 DEF TaskType
<1>5. /\ ready' \in Seq(Tasks) /\ Len(ready') = Len(ready) + 1
      /\ \A k \in 1..Len(ready) : ready'[k] = ready[k] /\ ready[k] \in Tasks
      /\ ready'[Len(ready) + 1] = i
      BY <1>1, <1>3
<1>6. \A k \in 1..Len(ready') : k \in 1..Len(ready) \/ k = Len(ready) + 1
      BY <1>1, <1>5
<1>7. \A k \in 1..Len(ready) : ready[k] # i
      BY <1>2 DEF IInv, Queue, Runnable
<1>8. \A k \in 1..Len(ready) : task[ready[k]].state # "cancelled"
      BY <1>2 DEF IInv, Banner, Started
<1>9. TypeOK'
      BY <1>1, <1>3, <1>4, <1>5 DEF TypeOK, switchVars, resetVars
<1>10. Numbers' /\ created' <= enters' /\ GraceKept'
       BY <1>3 DEF IInv, Numbers, GraceKept, switchVars
<1>11. Queue'
  <2>1. \A k \in 1..Len(ready') : Runnable(ready[k])'
    <3>1. \A k \in 1..Len(ready) : Runnable(ready[k])  BY DEF IInv, Queue
    <3>2. QED  BY <1>4, <1>5, <1>6, <1>7, <3>1 DEF Runnable
  <2>2. \A j, k \in 1..Len(ready') : ready'[j] = ready'[k] => j = k
    <3>1. \A j, k \in 1..Len(ready) : ready[j] = ready[k] => j = k
          BY DEF IInv, Queue
    <3>2. QED  BY <1>5, <1>6, <1>7, <3>1
  <2>3. \A j \in Tasks : j > created' => task'[j].state = "none"
    <3>1. \A j \in Tasks : j > created => task[j].state = "none"
          BY DEF IInv, Queue
    <3>2. QED  BY <1>2, <1>3, <1>4, <3>1
  <2>4. \A j \in Tasks : task'[j].state \in {"new", "woken"} =>
          \E k \in 1..Len(ready') : ready'[k] = j
    <3>1. Len(ready) + 1 \in 1..Len(ready')  BY <1>1, <1>5
    <3>2. \A k \in 1..Len(ready) : k \in 1..Len(ready')  BY <1>1, <1>5
    <3>3. \A j \in Tasks : task[j].state \in {"new", "woken"} =>
            \E k \in 1..Len(ready) : ready[k] = j
          BY DEF IInv, Queue
    <3>4. QED  BY <1>4, <1>5, <3>1, <3>2, <3>3
  <2>5. QED  BY <2>1, <2>2, <2>3, <2>4 DEF Queue
<1>12. \A j \in Tasks : Live(j)' <=> Live(j)
       BY <1>2, <1>4 DEF Live
<1>13. OneLoop' /\ Handle'
       BY <1>3, <1>12 DEF IInv, OneLoop, Handle
<1>14. Windows'
  <2>1. \A j \in Tasks : /\ task'[j].course = task[j].course
                         /\ task'[j].remaining = task[j].remaining
                         /\ task'[j].kills = task[j].kills
        BY <1>4
  <2>2. QED  BY <1>3, <1>12, <2>1 DEF IInv, Windows
<1>15. Banner'
  <2>1. \A k \in 1..Len(ready') : task'[ready'[k]].state # "cancelled"
        BY <1>4, <1>5, <1>6, <1>7, <1>8
  <2>2. Started(gate_task) /\ Started(gate_task)'
        BY <1>2, <1>3, <1>4 DEF Started
  <2>3. banner' = task'[gate_task'].remaining
        BY <1>2, <1>3, <1>4, <2>2 DEF IInv, Banner
  <2>4. QED  BY <1>2, <1>3, <2>1, <2>2, <2>3 DEF Banner
<1>16. QED  BY <1>9, <1>10, <1>11, <1>13, <1>14, <1>15 DEF IInv

\* The head of the queue has run: the others stand where they stood.
LEMMA Popped ==
    ASSUME TypeOK, Queue, ready # <<>>, ready' = Tail(ready), NEW i, i = Head(ready),
           created' = created, task' \in [Tasks -> TaskType],
           \A j \in Tasks : j # i => task'[j] = task[j],
           task'[i].state \in {"done", "sleeping"}
    PROVE  /\ Queue' /\ ready' \in Seq(Tasks)
           /\ i \in Tasks /\ 1 \in 1..Len(ready) /\ ready[1] = i /\ Runnable(i)
           /\ \A k \in 1..Len(ready') :
                /\ k + 1 \in 1..Len(ready) /\ ready'[k] = ready[k + 1]
                /\ ready'[k] \in Tasks /\ ready'[k] # i
                /\ task'[ready'[k]] = task[ready[k + 1]]
           /\ \A k \in 1..Len(ready) : k # 1 =>
                /\ k - 1 \in 1..Len(ready')
                /\ task'[ready'[k - 1]] = task[ready[k]]
<1>1. /\ ready \in Seq(Tasks) /\ Len(ready) \in Nat /\ Len(ready) >= 1
      BY DEF TypeOK
<1>2. /\ ready[1] = i /\ i \in Tasks /\ ready' \in Seq(Tasks)
      /\ Len(ready') = Len(ready) - 1
      /\ \A k \in 1..Len(ready') : ready'[k] = ready[k + 1]
      BY <1>1, HeadTailProperties
<1>3. 1 \in 1..Len(ready)  BY <1>1
<1>4. \A k \in 1..Len(ready') : k + 1 \in 1..Len(ready) /\ k + 1 # 1
      BY <1>1, <1>2
<1>5. /\ \A j, k \in 1..Len(ready) : ready[j] = ready[k] => j = k
      /\ \A k \in 1..Len(ready) : Runnable(ready[k])
      /\ \A j \in Tasks : j > created => task[j].state = "none"
      /\ \A j \in Tasks : task[j].state \in {"new", "woken"} =>
           \E k \in 1..Len(ready) : ready[k] = j
      BY DEF Queue
<1>6. \A k \in 1..Len(ready') :
        /\ k + 1 \in 1..Len(ready) /\ ready'[k] = ready[k + 1]
        /\ ready'[k] \in Tasks /\ ready'[k] # i
        /\ task'[ready'[k]] = task[ready[k + 1]]
  <2>1. SUFFICES ASSUME NEW k \in 1..Len(ready')
        PROVE  ready'[k] \in Tasks /\ ready[k + 1] # i
        BY <1>2, <1>4
  <2>2. ready[k + 1] \in Tasks  BY <1>1, <1>4
  <2>3. ready[k + 1] # i  BY <1>2, <1>3, <1>4, <1>5
  <2>4. QED  BY <1>2, <2>2, <2>3
<1>7. \A k \in 1..Len(ready) : k # 1 =>
        /\ k - 1 \in 1..Len(ready') /\ ready'[k - 1] = ready[k]
        /\ task'[ready'[k - 1]] = task[ready[k]]
  <2>1. \A k \in 1..Len(ready) : k # 1 =>
          k - 1 \in 1..Len(ready') /\ (k - 1) + 1 = k
        BY <1>1, <1>2
  <2>2. ASSUME NEW k \in 1..Len(ready), k # 1
        PROVE  ready'[k - 1] = ready[k] /\ task'[ready'[k - 1]] = task[ready[k]]
        BY <1>6, <2>1, <2>2
  <2>3. QED  BY <2>1, <2>2
<1>8. Runnable(i)  BY <1>2, <1>3, <1>5
<1>9. Queue'
  <2>1. \A k \in 1..Len(ready') : Runnable(ready[k])'
        BY <1>5, <1>6 DEF Runnable
  <2>2. \A j, k \in 1..Len(ready') : ready'[j] = ready'[k] => j = k
    <3>1. SUFFICES ASSUME NEW j \in 1..Len(ready'), NEW k \in 1..Len(ready'),
                          ready'[j] = ready'[k]
          PROVE  j = k
          OBVIOUS
    <3>2. j + 1 = k + 1  BY <1>5, <1>6, <3>1
    <3>3. QED  BY <1>1, <1>2, <3>2
  <2>3. \A j \in Tasks : j > created' => task'[j].state = "none"
    <3>1. ~(i > created)  BY <1>2, <1>5, <1>8 DEF Runnable
    <3>2. QED  BY <1>5, <3>1
  <2>4. \A j \in Tasks : task'[j].state \in {"new", "woken"} =>
          \E k \in 1..Len(ready') : ready'[k] = j
    <3>1. SUFFICES ASSUME NEW j \in Tasks, task'[j].state \in {"new", "woken"}
          PROVE  \E k \in 1..Len(ready') : ready'[k] = j
          OBVIOUS
    <3>2. j # i /\ task'[j] = task[j]  BY <3>1
    <3>3. PICK k \in 1..Len(ready) : ready[k] = j  BY <1>5, <3>1, <3>2
    <3>4. k # 1  BY <1>2, <3>2, <3>3
    <3>5. QED  BY <1>7, <3>3, <3>4
  <2>5. QED  BY <2>1, <2>2, <2>3, <2>4 DEF Queue
<1>10. QED  BY <1>2, <1>3, <1>6, <1>7, <1>8, <1>9

\* A loop that ends, or is cancelled, clears the banner: no live task shows
\* one then.
LEMMA FinishKeeps ==
    ASSUME IInv, ready # <<>>, ready' = Tail(ready), NEW i, i = Head(ready),
           task[i].state \in {"new", "woken", "cancelled"}, Finish(i),
           UNCHANGED <<current_course, owned, created>>,
           task[i].state = "cancelled" => UNCHANGED <<elapsed, visit_kills>>
    PROVE  Queue' /\ OneLoop' /\ Handle' /\ Windows' /\ Banner' /\ TaskTypes'
<1> USE Params
<1>1. /\ TypeOK /\ Queue /\ ready \in Seq(Tasks) /\ task \in [Tasks -> TaskType]
      /\ gate_task \in Tasks \cup {None} /\ created \in 0..MaxEnters
      /\ Len(ready) \in Nat /\ Len(ready) >= 1
      BY DEF IInv, TypeOK
<1>2. i \in Tasks  BY <1>1, HeadTailProperties
<1>3. /\ task' = [task EXCEPT ![i].state = "done"] /\ banner' = 0
      /\ gate_task' = IF gate_task = i THEN None ELSE gate_task
      BY DEF Finish
<1>4. /\ task' \in [Tasks -> TaskType] /\ task'[i].state = "done"
      /\ \A j \in Tasks : j # i => task'[j] = task[j]
      BY <1>1, <1>2, <1>3 DEF TaskType
<1>5. /\ Queue' /\ ready' \in Seq(Tasks) /\ 1 \in 1..Len(ready) /\ ready[1] = i
      /\ \A k \in 1..Len(ready') :
           k + 1 \in 1..Len(ready) /\ task'[ready'[k]] = task[ready[k + 1]]
      BY <1>1, <1>4, Popped
<1>6. TaskTypes'
  <2>1. banner' \in 0..Delay /\ gate_task' \in Tasks \cup {None}
        BY <1>1, <1>3
  <2>2. QED  BY <1>1, <1>4, <1>5, <2>1 DEF TaskTypes
<1>7. \A j \in Tasks : Live(j)' => j # i /\ Live(j) /\ gate_task = j
      BY <1>4 DEF IInv, OneLoop, Live
<1>8. OneLoop'  BY <1>3, <1>7 DEF OneLoop
<1>9. Handle'
  <2>1. gate_task' # None => gate_task' = gate_task /\ gate_task # i /\ gate_task # None
        BY <1>3
  <2>2. gate_task # None => gate_task \in Tasks /\ Live(gate_task)
        BY DEF IInv, Handle
  <2>3. \A j \in Tasks : j # i /\ Live(j) => Live(j)'  BY <1>4 DEF Live
  <2>4. QED  BY <2>1, <2>2, <2>3 DEF Handle
<1>10. \A j \in Tasks : Live(j)' => task[i].state = "cancelled"
  <2>1. Live(i) => gate_task = i  BY <1>2 DEF IInv, OneLoop
  <2>2. QED  BY <1>7, <2>1 DEF Live
<1>11. Windows'
  <2>1. SUFFICES ASSUME NEW j \in Tasks, Live(j)'
        PROVE  /\ task'[j].course \in Gated /\ task'[j].remaining > 0
               /\ task'[j].kills < MaxKills
               /\ task'[j].course = current_course' /\ current_course' \notin owned' =>
                    visit_kills' * Delay + (Delay - task'[j].remaining) <= elapsed'
        BY DEF Windows
  <2>2. task'[j] = task[j] /\ Live(j) /\ UNCHANGED <<elapsed, visit_kills>>
        BY <1>4, <1>7, <1>10, <2>1
  <2>3. QED  BY <2>2 DEF IInv, Windows
<1>12. Banner'
  <2>1. gate_task' # None /\ Started(gate_task)' => FALSE
    <3>1. ASSUME gate_task' # None, Started(gate_task)'  PROVE FALSE
      <4>1. gate_task' = gate_task /\ gate_task \in Tasks /\ gate_task # i
            BY <1>1, <1>3, <3>1
      <4>2. Started(gate_task) /\ Live(gate_task)'
            BY <1>4, <3>1, <4>1 DEF Started, Live
      <4>3. task[ready[1]].state = "cancelled"  BY <1>5, <1>10, <4>1, <4>2
      <4>4. QED  BY <1>5, <3>1, <4>1, <4>2, <4>3 DEF IInv, Banner
    <3>2. QED  BY <3>1
  <2>2. \A j, k \in 1..Len(ready') :
          task'[ready'[j]].state = "cancelled" /\ task'[ready'[k]].state = "new" => j < k
    <3>1. SUFFICES ASSUME NEW j \in 1..Len(ready'), NEW k \in 1..Len(ready'),
                          task'[ready'[j]].state = "cancelled",
                          task'[ready'[k]].state = "new"
          PROVE  j < k
          OBVIOUS
    <3>2. j + 1 < k + 1  BY <1>5, <3>1 DEF IInv, Banner
    <3>3. QED  BY <3>2
  <2>3. QED  BY <1>3, <2>1, <2>2 DEF Banner
<1>13. QED  BY <1>5, <1>6, <1>8, <1>9, <1>11, <1>12

\* A loop that goes on sleeping shows what remains; every cancelled task was
\* before it in the queue, and has run.
LEMMA SleepKeeps ==
    ASSUME IInv, ready # <<>>, ready' = Tail(ready), NEW i, i = Head(ready),
           task[i].state \in {"new", "woken"},
           NEW left \in 1..Delay, NEW kills \in 0..MaxKills, kills < MaxKills,
           Sleep(i, left, kills),
           UNCHANGED <<current_course, owned, created>>,
           task[i].course = current_course /\ current_course \notin owned =>
             visit_kills' * Delay + (Delay - left) <= elapsed'
    PROVE  Queue' /\ OneLoop' /\ Handle' /\ Windows' /\ Banner' /\ TaskTypes'
<1> USE Params
<1>1. /\ TypeOK /\ Queue /\ ready \in Seq(Tasks) /\ task \in [Tasks -> TaskType]
      /\ created \in 0..MaxEnters
      /\ Len(ready) \in Nat /\ Len(ready) >= 1
      BY DEF IInv, TypeOK
<1>2. i \in Tasks  BY <1>1, HeadTailProperties
<1>3. gate_task = i /\ Live(i) /\ task[i].course \in Gated /\ i # None
      BY <1>2 DEF IInv, OneLoop, Live, Windows, Tasks
<1>4. /\ task' = [task EXCEPT ![i].state = "sleeping", ![i].remaining = left,
                              ![i].kills = kills]
      /\ banner' = left /\ gate_task' = i
      BY <1>3 DEF Sleep
<1>5. /\ task' \in [Tasks -> TaskType] /\ task'[i].state = "sleeping"
      /\ task'[i].remaining = left /\ task'[i].kills = kills
      /\ task'[i].course = task[i].course
      /\ \A j \in Tasks : j # i => task'[j] = task[j]
  <2>1. task[i] \in TaskType  BY <1>1, <1>2
  <2>2. /\ task'[i] = [task[i] EXCEPT !.state = "sleeping", !.remaining = left,
                                     !.kills = kills]
        /\ DOMAIN task' = Tasks /\ task' = [j \in Tasks |-> task'[j]]
        /\ \A j \in Tasks : j # i => task'[j] = task[j]
        BY <1>1, <1>2, <1>4
  <2> DEFINE old == task[i]
             new == [old EXCEPT !.state = "sleeping", !.remaining = left, !.kills = kills]
  <2>3. /\ task'[i] \in TaskType /\ task'[i].state = "sleeping"
        /\ task'[i].remaining = left /\ task'[i].kills = kills
        /\ task'[i].course = task[i].course
    <3>1. old \in TaskType /\ left \in 0..Delay /\ kills \in 0..MaxKills  BY <2>1
    <3> HIDE DEF old
    <3>2. /\ new \in TaskType /\ new.state = "sleeping" /\ new.remaining = left
          /\ new.kills = kills /\ new.course = old.course
          BY <3>1 DEF TaskType
    <3>3. task'[i] = new  BY <2>2 DEF old
    <3>4. QED  BY <3>2, <3>3 DEF old
  <2>4. \A j \in Tasks : task'[j] \in TaskType  BY <1>1, <2>2, <2>3
  <2>5. task' \in [Tasks -> TaskType]  BY <2>2, <2>4
  <2>6. QED  BY <2>2, <2>3, <2>5
<1>6. /\ Queue' /\ ready' \in Seq(Tasks) /\ 1 \in 1..Len(ready) /\ ready[1] = i
      /\ \A k \in 1..Len(ready') :
           k + 1 \in 1..Len(ready) /\ task'[ready'[k]] = task[ready[k + 1]]
      BY <1>1, <1>5, Popped
<1>7. TaskTypes'
  <2>1. banner' \in 0..Delay /\ gate_task' \in Tasks \cup {None}
        BY <1>2, <1>4
  <2>2. QED  BY <1>1, <1>5, <1>6, <2>1 DEF TaskTypes
<1>8. \A j \in Tasks : Live(j)' => j = i
      BY <1>3, <1>5 DEF IInv, OneLoop, Live
<1>9. OneLoop' /\ Handle'
      BY <1>2, <1>4, <1>5, <1>8 DEF OneLoop, Handle, Live
<1>10. Windows'
       BY <1>3, <1>5, <1>8 DEF Windows
<1>11. \A k \in 1..Len(ready') : task'[ready'[k]].state # "cancelled"
  <2>1. SUFFICES ASSUME NEW k \in 1..Len(ready')
        PROVE  task[ready[k + 1]].state # "cancelled"
        BY <1>6
  <2>2. k + 1 \in 1..Len(ready)  BY <1>6
  <2>3. CASE task[i].state = "new"
    <3>1. ~(k + 1 < 1)  OBVIOUS
    <3>2. QED  BY <1>6, <2>2, <2>3, <3>1 DEF IInv, Banner
  <2>4. CASE task[i].state = "woken"
        BY <1>3, <2>2, <2>4 DEF IInv, Banner, Started
  <2>5. QED  BY <2>3, <2>4
<1>12. Banner'
  <2>1. Started(gate_task)'  BY <1>4, <1>5 DEF Started
  <2>2. QED  BY <1>3, <1>4, <1>5, <1>11, <2>1 DEF Banner
<1>13. QED  BY <1>6, <1>7, <1>9, <1>10, <1>12

\* What a run of the loop leaves: its window, one second further if it slept.
LEMMA LoopRunKeeps ==
    ASSUME IInv, ready # <<>>, ready' = Tail(ready), NEW i, i = Head(ready),
           NEW left \in 0..Delay, LoopRun(i, left),
           \/ task[i].state = "new" /\ left = task[i].remaining /\ elapsed' = elapsed
           \/ task[i].state = "woken" /\ left = task[i].remaining - 1 /\ elapsed' = elapsed + 1,
           UNCHANGED <<current_course, owned, created>>
    PROVE  /\ Queue' /\ OneLoop' /\ Handle' /\ Windows' /\ Banner' /\ TaskTypes'
           /\ GraceKept' /\ visit_kills' \in Nat
<1> USE Params
<1>1. /\ TypeOK /\ ready \in Seq(Tasks) /\ task \in [Tasks -> TaskType]
      /\ elapsed \in Nat /\ visit_kills \in Nat
      BY DEF IInv, TypeOK
<1>2. i \in Tasks  BY <1>1, HeadTailProperties
<1>3. task[i] \in TaskType  BY <1>1, <1>2
<1>4. /\ task[i].remaining \in 0..Delay /\ task[i].kills \in 0..MaxKills
      BY <1>3 DEF TaskType
<1> DEFINE course == task[i].course
<1>5. Live(i) /\ task[i].kills < MaxKills
      /\ (course = current_course /\ current_course \notin owned =>
            visit_kills * Delay + (Delay - task[i].remaining) <= elapsed)
      BY <1>2 DEF IInv, Live, Windows
<1>6. visit_kills * Delay <= elapsed  BY DEF IInv, GraceKept
<1>7. visit_kills * Delay \in Nat  BY <1>1
<1> DEFINE paid == visit_kills * Delay
<1> HIDE DEF paid
<1>8. course = current_course /\ current_course \notin owned =>
        paid + (Delay - left) <= elapsed'
      BY <1>1, <1>4, <1>5, <1>7 DEF paid
<1>9. paid <= elapsed'  BY <1>1, <1>6, <1>7 DEF paid
<1>10. elapsed' \in Nat  BY <1>1
<1>11. CASE CheckStop(course) /\ Finish(i) /\ UNCHANGED <<down, visit_kills>>
  <2>1. GraceKept' /\ visit_kills' \in Nat
        BY <1>1, <1>9, <1>11 DEF GraceKept, paid
  <2>2. QED  BY <1>11, <2>1, FinishKeeps
<1>12. CASE /\ ~CheckStop(course) /\ left > 0
            /\ Sleep(i, left, task[i].kills) /\ UNCHANGED <<down, visit_kills>>
  <2>1. GraceKept' /\ visit_kills' \in Nat
        BY <1>1, <1>9, <1>12 DEF GraceKept, paid
  <2>2. left \in 1..Delay  BY <1>12
  <2>3. course = current_course /\ current_course \notin owned =>
          visit_kills' * Delay + (Delay - left) <= elapsed'
        BY <1>8, <1>12 DEF paid
  <2>4. QED  BY <1>4, <1>5, <1>12, <2>1, <2>2, <2>3, SleepKeeps
<1>13. CASE /\ ~CheckStop(course) /\ left = 0 /\ visit_kills' = visit_kills + 1
            /\ NextWindow(i, task[i].kills + 1)
  <2>1. course = current_course /\ current_course \notin owned
        BY <1>13 DEF CheckStop
  <2>2. paid + Delay <= elapsed'  BY <1>7, <1>8, <1>13, <2>1 DEF paid
  <2>3. visit_kills' * Delay = paid + Delay  BY <1>1, <1>13 DEF paid
  <2>4. GraceKept' /\ visit_kills' \in Nat
        BY <1>1, <1>13, <2>2, <2>3 DEF GraceKept
  <2>5. CASE task[i].kills + 1 >= MaxKills
    <3>1. Finish(i)  BY <1>13, <2>5 DEF NextWindow
    <3>2. QED  BY <2>4, <3>1, FinishKeeps
  <2>6. CASE ~(task[i].kills + 1 >= MaxKills)
    <3>1. Sleep(i, Delay, task[i].kills + 1)  BY <1>13, <2>6 DEF NextWindow
    <3>2. task[i].kills + 1 \in 0..MaxKills /\ task[i].kills + 1 < MaxKills
          BY <1>4, <2>6
    <3>3. visit_kills' * Delay + (Delay - Delay) <= elapsed'
          BY <1>7, <1>10, <2>2, <2>3 DEF paid
    <3>4. Delay \in 1..Delay  OBVIOUS
    <3>5. QED  BY <2>4, <3>1, <3>2, <3>3, <3>4, SleepKeeps
  <2>7. QED  BY <2>5, <2>6
<1>14. QED  BY <1>11, <1>12, <1>13 DEF LoopRun

\* A task cancelled before it started runs nothing of its own.
LEMMA StillbornKeeps ==
    ASSUME IInv, ready # <<>>, ready' = Tail(ready), NEW i, i = Head(ready),
           task[i].state = "stillborn", task' = [task EXCEPT ![i].state = "done"],
           UNCHANGED <<current_course, owned, created, banner, gate_task, visit_kills,
                       elapsed>>
    PROVE  Queue' /\ OneLoop' /\ Handle' /\ Windows' /\ Banner' /\ TaskTypes'
<1> USE Params
<1>1. /\ TypeOK /\ Queue /\ ready \in Seq(Tasks) /\ task \in [Tasks -> TaskType]
      /\ gate_task \in Tasks \cup {None} /\ created \in 0..MaxEnters /\ banner \in 0..Delay
      /\ Len(ready) \in Nat /\ Len(ready) >= 1
      BY DEF IInv, TypeOK
<1>2. i \in Tasks  BY <1>1, HeadTailProperties
<1>3. /\ task' \in [Tasks -> TaskType] /\ task'[i].state = "done"
      /\ \A j \in Tasks : j # i => task'[j] = task[j]
      BY <1>1, <1>2 DEF TaskType
<1>4. /\ Queue' /\ ready' \in Seq(Tasks) /\ 1 \in 1..Len(ready) /\ ready[1] = i
      /\ \A k \in 1..Len(ready') :
           k + 1 \in 1..Len(ready) /\ task'[ready'[k]] = task[ready[k + 1]]
      /\ \A k \in 1..Len(ready) : k # 1 =>
           k - 1 \in 1..Len(ready') /\ task'[ready'[k - 1]] = task[ready[k]]
      BY <1>1, <1>3, Popped
<1>5. TaskTypes'  BY <1>1, <1>3, <1>4 DEF TaskTypes
<1>6. \A j \in Tasks : /\ Live(j)' <=> Live(j)
                       /\ Live(j) => j # i
                       /\ Started(j)' <=> Started(j)
      BY <1>3 DEF Live, Started
<1>7. OneLoop' /\ Handle'
      BY <1>6 DEF IInv, OneLoop, Handle
<1>8. Windows'
  <2>1. \A j \in Tasks : Live(j) => task'[j] = task[j]  BY <1>3, <1>6
  <2>2. QED  BY <1>6, <2>1 DEF IInv, Windows
<1>9. Banner'
  <2>1. \A j \in 1..Len(ready') : task'[ready'[j]].state = "cancelled" =>
          (gate_task' # None => ~Started(gate_task)')
    <3>1. SUFFICES ASSUME NEW j \in 1..Len(ready'),
                          task'[ready'[j]].state = "cancelled", gate_task # None
          PROVE  ~Started(gate_task)'
          OBVIOUS
    <3>2. ~Started(gate_task)  BY <1>4, <3>1 DEF IInv, Banner
    <3>3. QED  BY <1>1, <1>6, <3>1, <3>2
  <2>2. \A j, k \in 1..Len(ready') :
          task'[ready'[j]].state = "cancelled" /\ task'[ready'[k]].state = "new" => j < k
    <3>1. SUFFICES ASSUME NEW j \in 1..Len(ready'), NEW k \in 1..Len(ready'),
                          task'[ready'[j]].state = "cancelled",
                          task'[ready'[k]].state = "new"
          PROVE  j < k
          OBVIOUS
    <3>2. j + 1 < k + 1  BY <1>4, <3>1 DEF IInv, Banner
    <3>3. QED  BY <3>2
  <2>3. gate_task' # None /\ Started(gate_task)' =>
          banner' = task'[gate_task'].remaining
    <3>1. gate_task # None /\ Started(gate_task)' =>
            Started(gate_task) /\ task'[gate_task] = task[gate_task]
          BY <1>1, <1>3, <1>6 DEF Started
    <3>2. QED  BY <3>1 DEF IInv, Banner
  <2>4. (gate_task' = None \/ ~Started(gate_task)') /\ banner' # 0 =>
          \E j \in 1..Len(ready') : task'[ready'[j]].state = "cancelled"
    <3>1. SUFFICES ASSUME gate_task = None \/ ~Started(gate_task)', banner # 0
          PROVE  \E j \in 1..Len(ready') : task'[ready'[j]].state = "cancelled"
          OBVIOUS
    <3>2. gate_task = None \/ ~Started(gate_task)  BY <1>1, <1>6, <3>1
    <3>3. PICK k \in 1..Len(ready) : task[ready[k]].state = "cancelled"
          BY <3>1, <3>2 DEF IInv, Banner
    <3>4. k # 1  BY <1>4, <3>3
    <3>5. QED  BY <1>4, <3>3, <3>4
  <2>5. QED  BY <2>1, <2>2, <2>3, <2>4 DEF Banner
<1>10. QED  BY <1>4, <1>5, <1>7, <1>8, <1>9

\* A run of the task at the head of the ready queue keeps the invariant:
\* cancelled, ended by its check, or asleep for another second.
LEMMA RunTaskIInv ==
    ASSUME IInv, RunTask
    PROVE  IInv'
<1> USE Params
<1> DEFINE i == Head(ready)
<1>1. /\ TypeOK /\ Queue /\ ready \in Seq(Tasks) /\ task \in [Tasks -> TaskType]
      /\ ready # <<>> /\ ready' = Tail(ready)
      /\ elapsed \in Nat /\ visit_kills \in Nat
      /\ UNCHANGED <<current_course, in_course, owned, gating, created, switchVars, up>>
      BY DEF IInv, TypeOK, RunTask
<1>2. /\ i \in Tasks /\ i = ready[1] /\ 1 \in 1..Len(ready)
  <2>1. Len(ready) \in Nat /\ Len(ready) >= 1  BY <1>1
  <2>2. QED  BY <1>1, <2>1, HeadTailProperties
<1>3. Runnable(i)  BY <1>1, <1>2 DEF Queue
<1>4. task[i] \in TaskType  BY <1>1, <1>2
<1>5. down' \in Seq(Courses) /\ elapsed' \in Nat
  <2>1. task[i].state \in {"new", "woken"} => task[i].course \in Courses
        BY <1>2 DEF IInv, Windows, Live
  <2>2. down \in Seq(Courses)  BY <1>1 DEF TypeOK
  <2>3. CASE task[i].state = "new"
    <3>1. LoopRun(i, task[i].remaining) /\ elapsed' = elapsed  BY <2>3 DEF RunTask
    <3>2. down' = down \/ down' = Append(down, task[i].course)
          BY <3>1 DEF LoopRun
    <3>3. QED  BY <1>1, <2>1, <2>2, <2>3, <3>1, <3>2
  <2>4. CASE task[i].state = "woken"
    <3>1. LoopRun(i, task[i].remaining - 1) /\ elapsed' = elapsed + 1
          BY <2>4 DEF RunTask
    <3>2. down' = down \/ down' = Append(down, task[i].course)
          BY <3>1 DEF LoopRun
    <3>3. elapsed' \in Nat  BY <1>1, <3>1
    <3>4. task[i].course \in Courses  BY <2>1, <2>4
    <3> HIDE DEF i
    <3>5. QED  BY <2>2, <3>2, <3>3, <3>4
  <2>5. CASE task[i].state \in {"cancelled", "stillborn"}
    <3>1. down' = down /\ elapsed' = elapsed  BY <2>5 DEF RunTask
    <3>2. QED  BY <1>1, <2>2, <3>1
  <2>6. QED  BY <1>3, <2>3, <2>4, <2>5 DEF Runnable
<1>6. /\ Queue' /\ OneLoop' /\ Handle' /\ Windows' /\ Banner' /\ TaskTypes'
      /\ GraceKept' /\ visit_kills' \in Nat
  <2>1. CASE task[i].state = "new"
    <3>1. LoopRun(i, task[i].remaining) /\ elapsed' = elapsed  BY <2>1 DEF RunTask
    <3>2. task[i].remaining \in 0..Delay  BY <1>4 DEF TaskType
    <3>3. QED  BY <1>1, <2>1, <3>1, <3>2, LoopRunKeeps
  <2>2. CASE task[i].state = "woken"
    <3>1. LoopRun(i, task[i].remaining - 1) /\ elapsed' = elapsed + 1
          BY <2>2 DEF RunTask
    <3>2. task[i].remaining - 1 \in 0..Delay
      <4>1. task[i].remaining \in 0..Delay  BY <1>4 DEF TaskType
      <4>2. task[i].remaining > 0  BY <1>2, <2>2 DEF IInv, Windows, Live
      <4>3. QED  BY <4>1, <4>2
    <3>3. QED  BY <1>1, <2>2, <3>1, <3>2, LoopRunKeeps
  <2>3. CASE task[i].state = "cancelled"
    <3>1. Finish(i) /\ UNCHANGED <<down, visit_kills, elapsed>>
          BY <2>3 DEF RunTask
    <3>2. GraceKept' /\ visit_kills' \in Nat
          BY <1>1, <3>1 DEF IInv, GraceKept
    <3>3. QED  BY <1>1, <2>3, <3>1, <3>2, FinishKeeps
  <2>4. CASE task[i].state = "stillborn"
    <3>1. /\ task' = [task EXCEPT ![i].state = "done"]
          /\ UNCHANGED <<banner, gate_task, down, visit_kills, elapsed>>
          BY <2>4 DEF RunTask
    <3>2. GraceKept' /\ visit_kills' \in Nat
          BY <1>1, <3>1 DEF IInv, GraceKept
    <3>3. QED  BY <1>1, <2>4, <3>1, <3>2, StillbornKeeps
  <2>5. QED  BY <1>3, <2>1, <2>2, <2>3, <2>4 DEF Runnable
<1>7. Numbers' /\ created' <= enters'
      BY <1>1 DEF IInv, Numbers, switchVars
<1>8. TypeOK'
      BY <1>1, <1>5, <1>6 DEF TypeOK, TaskTypes, switchVars, resetVars
<1>9. QED  BY <1>6, <1>7, <1>8 DEF IInv

\* The invariant is inductive.
LEMMA NextIInv ==
    ASSUME IInv, [Next]_vars
    PROVE  IInv'
<1>1. CASE HandleLine  BY <1>1, HandleLineIInv
<1>2. CASE RunTask  BY <1>2, RunTaskIInv
<1>3. CASE \E i \in Tasks : Wake(i)  BY <1>3, WakeIInv
<1>4. CASE ReceiveItem \/ DisableGating  BY <1>4, AskIInv
<1>5. CASE \/ \E c \in Courses : Enter(c)
           \/ Leave \/ KillArrives \/ ParkedKill \/ Reboot \/ Reconnect
      BY <1>5, SwitchIInv
<1>6. CASE UNCHANGED vars
  <2>1. TypeOK' /\ Numbers' /\ created' <= enters'
        BY <1>6 DEF vars, bridgeVars, switchVars, resetVars, taskVars, IInv, TypeOK, Numbers
  <2>2. TypeOK  BY DEF IInv
  <2>3. /\ UNCHANGED <<current_course, taskVars, elapsed, visit_kills>>
        /\ owned \subseteq owned' /\ owned' \subseteq Gated /\ gating' \in BOOLEAN
        BY <1>6, <2>2 DEF vars, bridgeVars, TypeOK
  <2>4. QED  BY <2>1, <2>3, BridgeUntouched DEF IInv
<1>7. QED  BY <1>1, <1>2, <1>3, <1>4, <1>5, <1>6 DEF Next

-----------------------------------------------------------------------------
\* The inductive invariant holds in every state.
THEOREM Invariance == Spec => []IInv
<1>1. Init => IInv  BY InitIInv
<1>2. IInv /\ [Next]_vars => IInv'  BY NextIInv
<1>3. QED  BY <1>1, <1>2, PTL DEF Spec

\* At any time at most one countdown is under way, and it is the one a new
\* entry would cancel (context.py:1297-1307, 1582-1591): handle_gate_entered
\* may forget a task it cancelled, whatever the event loop still owes it.
THEOREM OneCountdown == Spec => []OneLoop
<1>1. IInv => OneLoop  BY DEF IInv
<1>2. QED  BY <1>1, Invariance, PTL

\* However often the player leaves, re-enters and is cut off, every gate kill
\* sent in a stay was paid for by a whole grace window slept in that stay
\* (context.py:1509-1579).
THEOREM GraceIsKept == Spec => []GraceKept
<1>1. IInv => GraceKept  BY DEF IInv
<1>2. QED  BY <1>1, Invariance, PTL

\* When no task is ready, the overlay shows what the countdown has left, and
\* nothing if there is none: the `finally` of a superseded loop never clears
\* its successor's banner (context.py:1520-1539, 1581-1591).
THEOREM BannerIsHonest == Spec => []BannerHonest
<1>1. IInv => BannerHonest
  <2>1. SUFFICES ASSUME IInv, ready = <<>>
        PROVE  banner = IF gate_task = None THEN 0 ELSE task[gate_task].remaining
        BY DEF BannerHonest
  <2>2. Len(ready) = 0  BY <2>1
  <2>3. \A i \in Tasks : task[i].state \notin {"new", "woken"}
        BY <2>1, <2>2 DEF IInv, Queue
  <2>4. gate_task # None => gate_task \in Tasks /\ Started(gate_task)
        BY <2>1, <2>3 DEF IInv, Handle, Live, Started
  <2>5. QED  BY <2>1, <2>2, <2>4 DEF IInv, Banner
<1>2. QED  BY <1>1, Invariance, PTL
=============================================================================
