---------------------------- MODULE Context_proofs ----------------------------
(***************************************************************************)
(* What two parts of the client's context keep for every value of their    *)
(* constants: the delivery of checks of CheckDelivery.tla, and what the    *)
(* Switch is shown, of ClientSync.tla.                                     *)
(***************************************************************************)
EXTENDS CheckDelivery, ClientSync, FiniteSetTheorems, SequenceTheorems, WellFoundedInduction,
        TLAPS

(***************************************************************************)
(* The delivery of checks, for every set of checks, any number of LAN      *)
(* handlers, of losses of the AP connection and of repeated reports,       *)
(* whether or not send_msgs may raise.                                     *)
(*                                                                         *)
(* A check that passed the dedup is in exactly one of the places the       *)
(* invariant names: the pending list, one Connected task's replay, or the  *)
(* set of locations sent; it leaves the last only when its send raised.    *)
(***************************************************************************)

In(s, c)    == \E i \in 1..Len(s) : s[i] = c
Distinct(s) == \A i, j \in 1..Len(s) : s[i] = s[j] => i = j

\* A check waits in one place at a time, was reported, and is not refunded
\* while it waits.
Waiting ==
    /\ Distinct(pending) /\ \A k \in Conns : Distinct(replay[k])
    /\ \A c \in Checks, k \in Conns : In(replay[k], c) =>
         /\ ~In(pending, c)
         /\ \A l \in Conns : In(replay[l], c) => k = l
    /\ \A c \in Checks : In(pending, c) \/ (\E k \in Conns : In(replay[k], c)) =>
         c \in emitted /\ refunds[c] = 0
    /\ \A c \in Checks \ emitted : refunds[c] = 0
    /\ queued \subseteq emitted

\* Where the Connected tasks stand; the AP connection that is in its room has
\* had no task yet.
Stages ==
    /\ \A k \in Conns :
         /\ stage[k] # "flush" => replay[k] = <<>> /\ at[k] = "idle"
         /\ stage[k] \in {"scout", "flush"} => applied
         /\ stage[k] \in {"tags", "scout", "flush"} => maps
         /\ k > conns => stage[k] = "none"
    /\ link = "room" => conns \in Conns /\ stage[conns] = "none"
    /\ busy # Nothing => stage[busy] = "flush" /\ at[busy] = "idle"

\* What an actor that awaits a send is working on.
Sends ==
    \A w \in Actors :
      /\ at[w] = "goal"  => cur[w] \in {GoalCheck, Nerve}
      /\ at[w] = "check" => cur[w] \in (sent \cup failed) \ {GoalCheck}
      /\ at[w] = "idle"  => cur[w] = Nothing

Held(c) == In(pending, c) \/ (\E k \in Conns : In(replay[k], c)) \/ c \in sent

Kept ==
    \A c \in (emitted \ failed) \ {GoalCheck} :
      (c \notin CharBlocks \/ c \in queued) => Held(c)

IInv == TypeOK /\ Waiting /\ Stages /\ Sends /\ Kept /\ RefundOnce

-----------------------------------------------------------------------------
\* What the proofs need to know of the constants.
LEMMA Params ==
    /\ MaxDrops \in Nat /\ MaxRepeats \in Nat /\ TenCoins \subseteq Checks
    /\ GoalCheck \notin CharBlocks \cup TenCoins
    /\ Conns \subseteq Nat /\ Nothing \notin Conns
    /\ Nothing \notin Checks /\ Nerve \notin Checks /\ Nerve # Nothing
    /\ \A w \in Lans : w \notin Conns
BY DeliveryAssumption DEF DeliveryAssumption, Conns

\* It holds before anything is emitted.
LEMMA InitIInv == Init => IInv
<1> USE Params
<1> SUFFICES ASSUME Init PROVE IInv  OBVIOUS
<1>1. TypeOK
  <2>1. /\ pending \in Seq(Checks) /\ replay \in [Conns -> Seq(Checks)]
        /\ refunds \in [Checks -> Nat]
        BY DEF Init
  <2>2. /\ stage \in [Conns -> {"none", "new", "tags", "scout", "flush", "done"}]
        /\ at \in [Actors -> {"idle", "goal", "check"}]
        /\ cur \in [Actors -> Checks \cup {Nothing, Nerve}]
        /\ fate \in [Actors -> {"sure", "early", "cut"}]
        BY DEF Init
  <2>3. {queued, failed, reported} \subseteq SUBSET Checks
        BY DEF Init
  <2>4. conns \in 0..(MaxDrops + 1) /\ repeats \in 0..MaxRepeats /\ goals \in Nat
        BY DEF Init
  <2>5. QED  BY <2>1, <2>2, <2>3, <2>4 DEF Init, TypeOK
<1>2. Len(pending) = 0 /\ \A k \in Conns : Len(replay[k]) = 0
      BY DEF Init
<1>3. Waiting  BY <1>2 DEF Init, Waiting, In, Distinct
<1>4. Stages  BY DEF Init, Stages, Actors
<1>5. Sends /\ Kept /\ RefundOnce  BY DEF Init, Sends, Kept, RefundOnce
<1>6. QED  BY <1>1, <1>3, <1>4, <1>5 DEF IInv

\* send_msgs suspends its caller or does nothing.
LEMMA SendStarts ==
    ASSUME TypeOK, NEW w \in Actors, NEW what \in {"goal", "check"},
           NEW c \in Checks \cup {Nerve}, StartSend(w, what, c)
    PROVE  /\ at' \in [Actors -> {"idle", "goal", "check"}]
           /\ cur' \in [Actors -> Checks \cup {Nothing, Nerve}]
           /\ fate' \in [Actors -> {"sure", "early", "cut"}]
           /\ \A v \in Actors : v # w => at'[v] = at[v] /\ cur'[v] = cur[v]
           /\ \/ at'[w] = at[w] /\ cur'[w] = cur[w]
              \/ at'[w] = what /\ cur'[w] = c
<1>1. /\ at \in [Actors -> {"idle", "goal", "check"}]
      /\ cur \in [Actors -> Checks \cup {Nothing, Nerve}]
      /\ fate \in [Actors -> {"sure", "early", "cut"}]
      BY DEF TypeOK
<1>2. CASE link = "down"  BY <1>1, <1>2 DEF StartSend, sendVars
<1>3. CASE link # "down"  BY <1>1, <1>3 DEF StartSend
<1>4. QED  BY <1>2, <1>3

\* What handling a check leaves: it waits, or is sent, or is dropped.
Queued(c) ==
    /\ ~maps
    /\ pending' = Append(pending, c) /\ queued' = queued \cup {c}
    /\ UNCHANGED <<sent, refunds>>
Dropped(c) ==
    /\ maps
    /\ (c \in CharBlocks /\ ~applied) \/ c = GoalCheck \/ c \in sent
    /\ UNCHANGED <<pending, queued, sent, refunds>>
Recorded(c) ==
    /\ maps /\ c # GoalCheck /\ sent' = sent \cup {c}
    /\ refunds' = IF c \in TenCoins THEN [refunds EXCEPT ![c] = @ + 1] ELSE refunds
    /\ UNCHANGED <<pending, queued>>

\* handle_check_emitted keeps the types on each of its paths: queue, drop,
\* signal the goal, record and send.
LEMMA Handles ==
    ASSUME TypeOK, NEW w \in Actors, NEW c \in Checks, at[w] = "idle",
           cur[w] = Nothing, HandleCheck(w, c)
    PROVE  /\ pending' \in Seq(Checks) /\ sent' \subseteq Checks \ {GoalCheck}
           /\ goal_sent' \in BOOLEAN /\ queued' \subseteq Checks
           /\ refunds' \in [Checks -> Nat] /\ goals' \in Nat
           /\ at' \in [Actors -> {"idle", "goal", "check"}]
           /\ cur' \in [Actors -> Checks \cup {Nothing, Nerve}]
           /\ fate' \in [Actors -> {"sure", "early", "cut"}]
           /\ \A v \in Actors : v # w => at'[v] = at[v] /\ cur'[v] = cur[v]
           /\ \/ at'[w] = "idle" /\ cur'[w] = Nothing
              \/ at'[w] = "goal" /\ cur'[w] = GoalCheck
              \/ at'[w] = "check" /\ cur'[w] \in sent' \ {GoalCheck}
           /\ Queued(c) \/ Dropped(c) \/ Recorded(c)
<1>1. /\ pending \in Seq(Checks) /\ sent \subseteq Checks \ {GoalCheck}
      /\ goal_sent \in BOOLEAN /\ queued \subseteq Checks
      /\ refunds \in [Checks -> Nat] /\ goals \in Nat
      /\ at \in [Actors -> {"idle", "goal", "check"}]
      /\ cur \in [Actors -> Checks \cup {Nothing, Nerve}]
      /\ fate \in [Actors -> {"sure", "early", "cut"}]
      BY DEF TypeOK
<1>2. CASE QueueCheck(c)
  <2>1. Queued(c) /\ UNCHANGED <<goal_sent, goals, sendVars>>
        BY <1>2 DEF QueueCheck, Queued
  <2>2. QED  BY <1>1, <2>1 DEF Queued, sendVars
<1>3. CASE DropCheck(c)
  <2>1. Dropped(c) /\ UNCHANGED <<goal_sent, goals, sendVars>>
        BY <1>3 DEF DropCheck, Dropped
  <2>2. QED  BY <1>1, <2>1 DEF Dropped, sendVars
<1>4. CASE SignalGoal(w, c)
  <2>1. Dropped(c) /\ SendClientGoal(w, c) /\ c = GoalCheck
        BY <1>4 DEF SignalGoal, Dropped
  <2>2. CASE goal_sent
        BY <1>1, <2>1, <2>2 DEF Dropped, SendClientGoal, sendVars
  <2>3. CASE ~goal_sent
    <3>1. /\ StartSend(w, "goal", c) /\ goal_sent' \in BOOLEAN /\ goals' \in Nat
          BY <1>1, <2>1, <2>3 DEF SendClientGoal
    <3>2. QED  BY <1>1, <2>1, <3>1, SendStarts DEF Dropped
  <2>4. QED  BY <2>2, <2>3
<1>5. CASE RecordCheck(w, c)
  <2>1. /\ Recorded(c) /\ StartSend(w, "check", c) /\ UNCHANGED <<goal_sent, goals>>
        BY <1>5 DEF RecordCheck, Recorded
  <2>2. refunds' \in [Checks -> Nat] /\ sent' \subseteq Checks \ {GoalCheck}
        /\ c \in sent' \ {GoalCheck}
        BY <1>1, <2>1 DEF Recorded
  <2>3. QED  BY <1>1, <2>1, <2>2, SendStarts DEF Recorded
<1>6. QED  BY <1>2, <1>3, <1>4, <1>5 DEF HandleCheck

\* A list with its head taken off, or a new check put at its end.
LEMMA TakenOff ==
    ASSUME NEW s \in Seq(Checks), s # <<>>, Distinct(s)
    PROVE  /\ Head(s) \in Checks /\ Tail(s) \in Seq(Checks) /\ Distinct(Tail(s))
           /\ In(s, Head(s)) /\ ~In(Tail(s), Head(s))
           /\ \A c \in Checks : In(Tail(s), c) => In(s, c)
           /\ \A c \in Checks : In(s, c) => c = Head(s) \/ In(Tail(s), c)
<1>1. Len(s) \in Nat /\ Len(s) >= 1  OBVIOUS
<1>2. /\ Head(s) = s[1] /\ s[1] \in Checks /\ Tail(s) \in Seq(Checks)
      /\ Len(Tail(s)) = Len(s) - 1
      /\ \A i \in 1..Len(Tail(s)) : Tail(s)[i] = s[i + 1]
      BY <1>1, HeadTailProperties
<1>3. 1 \in 1..Len(s)  BY <1>1
<1> DEFINE t == Tail(s)
<1>4. \A i \in 1..Len(t) : i + 1 \in 1..Len(s) /\ i + 1 # 1 /\ i \in Nat
      BY <1>1, <1>2
<1>5. \A i \in 1..Len(s) : i # 1 => i - 1 \in 1..Len(t) /\ (i - 1) + 1 = i
      BY <1>1, <1>2
<1>6. \A i \in 1..Len(t) : t[i] = s[i + 1]  BY <1>2
<1> HIDE DEF t
<1>7. Distinct(t)
  <2>1. SUFFICES ASSUME NEW i \in 1..Len(t), NEW j \in 1..Len(t), t[i] = t[j]
        PROVE  i = j
        BY DEF Distinct
  <2>2. i + 1 = j + 1  BY <1>4, <1>6, <2>1 DEF Distinct
  <2>3. QED  BY <1>4, <2>2
<1>8. ~In(t, s[1])
  <2>1. SUFFICES ASSUME NEW i \in 1..Len(t), t[i] = s[1]  PROVE FALSE
        BY DEF In
  <2>2. i + 1 = 1  BY <1>3, <1>4, <1>6, <2>1 DEF Distinct
  <2>3. QED  BY <1>4, <2>2
<1>9. \A c \in Checks : In(t, c) => In(s, c)  BY <1>4, <1>6 DEF In
<1>10. \A c \in Checks : In(s, c) => c = s[1] \/ In(t, c)
  <2>1. SUFFICES ASSUME NEW c \in Checks, NEW i \in 1..Len(s), s[i] = c, i # 1
        PROVE  In(t, c)
        BY DEF In
  <2>2. i - 1 \in 1..Len(t) /\ t[i - 1] = s[i]  BY <1>5, <1>6, <2>1
  <2>3. QED  BY <2>1, <2>2 DEF In
<1>11. In(s, s[1])  BY <1>3 DEF In
<1>12. QED  BY <1>2, <1>7, <1>8, <1>9, <1>10, <1>11 DEF t

\* Appending a new check keeps a list of pending checks free of repeats.
LEMMA PutLast ==
    ASSUME NEW s \in Seq(Checks), Distinct(s), NEW c \in Checks, ~In(s, c)
    PROVE  /\ Append(s, c) \in Seq(Checks) /\ Distinct(Append(s, c))
           /\ \A d \in Checks : In(Append(s, c), d) <=> In(s, d) \/ d = c
<1> DEFINE t == Append(s, c)
<1>1. /\ t \in Seq(Checks) /\ Len(t) = Len(s) + 1 /\ Len(s) \in Nat
      /\ \A i \in 1..Len(s) : t[i] = s[i]
      /\ t[Len(s) + 1] = c
      OBVIOUS
<1> HIDE DEF t
<1>2. \A i \in 1..Len(t) : i \in 1..Len(s) \/ i = Len(s) + 1  BY <1>1
<1>3. /\ Len(s) + 1 \in 1..Len(t) /\ \A i \in 1..Len(s) : i \in 1..Len(t)
      BY <1>1
<1>4. Distinct(t)  BY <1>1, <1>2 DEF Distinct, In
<1>5. \A d \in Checks : In(t, d) <=> In(s, d) \/ d = c
      BY <1>1, <1>2, <1>3 DEF In
<1>6. QED  BY <1>1, <1>4, <1>5 DEF t

\* A report of the Switch: a check that passes the dedup is in no place yet.
LEMMA FireIInv ==
    ASSUME IInv, NEW w \in Lans, NEW c \in Checks, Fire(w, c)
    PROVE  IInv'
<1> USE Params
<1>1. /\ TypeOK /\ Waiting /\ Stages /\ Sends /\ Kept /\ RefundOnce
      /\ pending \in Seq(Checks) /\ refunds \in [Checks -> Nat]
      BY DEF IInv, TypeOK
<1>2. /\ w \in Actors /\ w \notin Conns /\ at[w] = "idle" /\ cur[w] = Nothing
      BY <1>1 DEF Fire, Actors, Sends
<1>3. /\ emitted' = emitted \cup {c}
      /\ UNCHANGED <<goal_complete, maps, applied, stage, replay, busy, link, conns, failed,
                     reported, server_goal>>
      BY DEF Fire, taskVars, linkVars
<1>4. repeats' \in 0..MaxRepeats
      BY <1>1 DEF Fire, TypeOK
<1>5. CASE ~EmitCheck(c)
  <2>1. /\ UNCHANGED <<pending, queued, sent, goal_sent, refunds, goals, at, cur, fate>>
        /\ emitted' = emitted
        BY <1>3, <1>5 DEF Fire, EmitCheck, sendVars
  <2>2. TypeOK'  BY <1>1, <1>3, <1>4, <2>1 DEF TypeOK
  <2>3. Waiting' /\ Sends' /\ RefundOnce'
        BY <1>1, <1>3, <2>1 DEF Waiting, Sends, RefundOnce
  <2>4. Stages'  BY <1>1, <1>3, <2>1 DEF Stages
  <2>5. Kept'  BY <1>1, <1>3, <2>1 DEF Kept, Held
  <2>6. QED  BY <2>2, <2>3, <2>4, <2>5 DEF IInv
<1>6. CASE EmitCheck(c)
  <2>1. HandleCheck(w, c) /\ c \notin emitted
        BY <1>6 DEF Fire, EmitCheck
  <2>2. /\ pending' \in Seq(Checks) /\ sent' \subseteq Checks \ {GoalCheck}
        /\ goal_sent' \in BOOLEAN /\ queued' \subseteq Checks
        /\ refunds' \in [Checks -> Nat] /\ goals' \in Nat
        /\ at' \in [Actors -> {"idle", "goal", "check"}]
        /\ cur' \in [Actors -> Checks \cup {Nothing, Nerve}]
        /\ fate' \in [Actors -> {"sure", "early", "cut"}]
        /\ \A v \in Actors : v # w => at'[v] = at[v] /\ cur'[v] = cur[v]
        /\ \/ at'[w] = "idle" /\ cur'[w] = Nothing
           \/ at'[w] = "goal" /\ cur'[w] = GoalCheck
           \/ at'[w] = "check" /\ cur'[w] \in sent' \ {GoalCheck}
        /\ Queued(c) \/ Dropped(c) \/ Recorded(c)
        BY <1>1, <1>2, <2>1, Handles
  <2>3. TypeOK'
    <3>1. {queued, failed, reported}' \subseteq SUBSET Checks /\ emitted' \subseteq Checks
          BY <1>1, <1>3, <2>2 DEF TypeOK
    <3>2. QED  BY <1>1, <1>3, <1>4, <2>2, <3>1 DEF TypeOK
  <2>4. sent \subseteq sent'
        BY <2>2 DEF Queued, Dropped, Recorded
  <2>5. Stages'
    <3>1. \A k \in Conns : k \in Actors /\ k # w  BY <1>2 DEF Actors
    <3>2. \A k \in Conns : at'[k] = at[k]  BY <2>2, <3>1
    <3>3. busy \in Conns \cup {Nothing}  BY <1>1 DEF TypeOK
    <3>4. QED  BY <1>1, <1>3, <3>2, <3>3 DEF Stages
  <2>6. Sends'
    <3>1. \A v \in Actors : v # w =>
            /\ at'[v] = "goal"  => cur'[v] \in {GoalCheck, Nerve}
            /\ at'[v] = "check" => cur'[v] \in (sent' \cup failed') \ {GoalCheck}
            /\ at'[v] = "idle"  => cur'[v] = Nothing
          BY <1>1, <1>3, <2>2, <2>4 DEF Sends
    <3>2. QED  BY <2>2, <3>1 DEF Sends
  <2>7. ~In(pending, c) /\ (\A k \in Conns : ~In(replay[k], c)) /\ refunds[c] = 0
        /\ c \notin queued
        BY <1>1, <2>1 DEF Waiting
  <2>8. CASE Queued(c)
    <3>1. /\ Distinct(pending')
          /\ \A d \in Checks : In(pending', d) <=> In(pending, d) \/ d = c
          BY <1>1, <2>7, <2>8, PutLast DEF Queued, Waiting
    <3>2. Waiting'
          BY <1>1, <1>3, <2>7, <2>8, <3>1 DEF Waiting, Queued
    <3>3. \A d \in Checks : Held(d) \/ d = c => Held(d)'
          BY <1>3, <2>8, <3>1 DEF Held, Queued
    <3>4. Kept'
      <4>1. SUFFICES ASSUME NEW d \in (emitted' \ failed') \ {GoalCheck},
                            d \notin CharBlocks \/ d \in queued'
            PROVE  Held(d)'
            BY DEF Kept
      <4>2. d \in Checks  BY <1>1, <1>3 DEF TypeOK
      <4>3. d # c => Held(d)  BY <1>1, <1>3, <2>8, <4>1 DEF Kept, Queued
      <4>4. QED  BY <3>3, <4>2, <4>3
    <3>5. RefundOnce'  BY <1>1, <2>8 DEF RefundOnce, Queued
    <3>6. QED  BY <2>3, <2>5, <2>6, <3>2, <3>4, <3>5 DEF IInv
  <2>9. CASE Dropped(c)
    <3>1. UNCHANGED <<pending, queued, sent, refunds>>  BY <2>9 DEF Dropped
    <3>2. Waiting'  BY <1>1, <1>3, <3>1 DEF Waiting
    <3>3. \A d \in Checks : Held(d) => Held(d)'  BY <1>3, <3>1 DEF Held
    <3>4. (c \in CharBlocks /\ c \notin queued') \/ c = GoalCheck \/ Held(c)
          BY <2>7, <2>9, <3>1 DEF Dropped, Held
    <3>5. Kept'
      <4>1. SUFFICES ASSUME NEW d \in (emitted' \ failed') \ {GoalCheck},
                            d \notin CharBlocks \/ d \in queued'
            PROVE  Held(d)'
            BY DEF Kept
      <4>2. d \in Checks  BY <1>1, <1>3 DEF TypeOK
      <4>3. d # c => Held(d)  BY <1>1, <1>3, <3>1, <4>1 DEF Kept
      <4>4. QED  BY <3>3, <3>4, <4>1, <4>2, <4>3
    <3>6. RefundOnce'  BY <1>1, <3>1 DEF RefundOnce
    <3>7. QED  BY <2>3, <2>5, <2>6, <3>2, <3>5, <3>6 DEF IInv
  <2>10. CASE Recorded(c)
    <3>1. /\ UNCHANGED <<pending, queued>> /\ sent' = sent \cup {c}
          /\ \A d \in Checks : d # c => refunds'[d] = refunds[d]
          /\ refunds'[c] <= 1
          BY <1>1, <2>7, <2>10 DEF Recorded
    <3>2. Waiting'  BY <1>1, <1>3, <2>7, <3>1 DEF Waiting
    <3>3. \A d \in Checks : Held(d) \/ d = c => Held(d)'
          BY <1>3, <3>1 DEF Held
    <3>4. Kept'
      <4>1. SUFFICES ASSUME NEW d \in (emitted' \ failed') \ {GoalCheck},
                            d \notin CharBlocks \/ d \in queued'
            PROVE  Held(d)'
            BY DEF Kept
      <4>2. d \in Checks  BY <1>1, <1>3 DEF TypeOK
      <4>3. d # c => Held(d)  BY <1>1, <1>3, <3>1, <4>1 DEF Kept
      <4>4. QED  BY <3>3, <4>2, <4>3
    <3>5. RefundOnce'  BY <1>1, <3>1 DEF RefundOnce
    <3>6. QED  BY <2>3, <2>5, <2>6, <3>2, <3>4, <3>5 DEF IInv
  <2>11. QED  BY <2>2, <2>8, <2>9, <2>10
<1>7. QED  BY <1>5, <1>6

\* The Nerve reaches the goal latch only.
LEMMA FireNerveIInv ==
    ASSUME IInv, NEW w \in Lans, FireNerve(w)
    PROVE  IInv'
<1> USE Params
<1>1. /\ TypeOK /\ Waiting /\ Stages /\ Sends /\ Kept /\ RefundOnce
      BY DEF IInv
<1>2. /\ w \in Actors /\ w \notin Conns /\ at[w] = "idle" /\ cur[w] = Nothing
      BY <1>1 DEF FireNerve, Actors, Sends
<1>3. /\ goal_complete' = TRUE
      /\ UNCHANGED <<emitted, repeats, maps, applied, pending, sent, queued, refunds, stage,
                     replay, busy, link, conns, failed, reported, server_goal>>
      BY DEF FireNerve, taskVars, linkVars
<1>4. \/ UNCHANGED <<goal_sent, goals, at, cur, fate>>
      \/ /\ StartSend(w, "goal", Nerve) /\ goal_sent' \in BOOLEAN
         /\ goals' \in {goals, goals + 1}
      BY DEF FireNerve, SendClientGoal, sendVars
<1>5. /\ at' \in [Actors -> {"idle", "goal", "check"}]
      /\ cur' \in [Actors -> Checks \cup {Nothing, Nerve}]
      /\ fate' \in [Actors -> {"sure", "early", "cut"}]
      /\ \A v \in Actors : v # w => at'[v] = at[v] /\ cur'[v] = cur[v]
      /\ \/ at'[w] = "idle" /\ cur'[w] = Nothing
         \/ at'[w] = "goal" /\ cur'[w] = Nerve
  <2>1. CASE UNCHANGED <<goal_sent, goals, at, cur, fate>>
        BY <1>1, <1>2, <2>1 DEF TypeOK
  <2>2. CASE StartSend(w, "goal", Nerve)
        BY <1>1, <1>2, <2>2, SendStarts
  <2>3. QED  BY <1>4, <2>1, <2>2
<1>6. TypeOK'
  <2>1. goal_sent' \in BOOLEAN /\ goals' \in Nat
        BY <1>1, <1>4 DEF TypeOK
  <2>2. QED  BY <1>1, <1>3, <1>5, <2>1 DEF TypeOK
<1>7. Stages'
  <2>1. \A k \in Conns : at'[k] = at[k]  BY <1>2, <1>5 DEF Actors
  <2>2. busy \in Conns \cup {Nothing}  BY <1>1 DEF TypeOK
  <2>3. QED  BY <1>1, <1>3, <2>1, <2>2 DEF Stages
<1>8. Sends'
  <2>1. \A v \in Actors : v # w =>
          /\ at'[v] = "goal"  => cur'[v] \in {GoalCheck, Nerve}
          /\ at'[v] = "check" => cur'[v] \in (sent' \cup failed') \ {GoalCheck}
          /\ at'[v] = "idle"  => cur'[v] = Nothing
        BY <1>1, <1>3, <1>5 DEF Sends
  <2>2. QED  BY <1>5, <2>1 DEF Sends
<1>9. Waiting' /\ Kept' /\ RefundOnce'
      BY <1>1, <1>3 DEF Waiting, Kept, Held, RefundOnce
<1>10. QED  BY <1>6, <1>7, <1>8, <1>9 DEF IInv

\* A send that raises takes its location back, and is a failure.
LEMMA SendReturnsIInv ==
    ASSUME IInv, NEW w \in Actors, SendReturns(w)
    PROVE  IInv'
<1> USE Params
<1>1. /\ TypeOK /\ Waiting /\ Stages /\ Sends /\ Kept /\ RefundOnce
      BY DEF IInv
<1>2. /\ at[w] # "idle" /\ busy = Nothing
      /\ at' = [at EXCEPT ![w] = "idle"] /\ cur' = [cur EXCEPT ![w] = Nothing]
      /\ fate' = [fate EXCEPT ![w] = "sure"]
      /\ busy' = IF w \in Conns THEN w ELSE busy
      /\ UNCHANGED <<emitted, goal_complete, repeats, maps, applied, pending, queued, refunds,
                     stage, replay, link, conns, goals>>
      BY DEF SendReturns, Yielded, stateVars, linkVars
<1>3. /\ goal_sent' \in BOOLEAN /\ server_goal' \in BOOLEAN
      /\ reported' \subseteq Checks /\ failed \subseteq failed'
      /\ sent \subseteq sent' \cup failed' /\ sent' \subseteq sent
      /\ failed' \subseteq Checks
  <2>1. /\ goal_sent \in BOOLEAN /\ server_goal \in BOOLEAN /\ reported \subseteq Checks
        /\ failed \subseteq Checks /\ sent \subseteq Checks
        BY <1>1 DEF TypeOK
  <2>2. PICK delivered \in BOOLEAN, raised \in BOOLEAN :
          IF at[w] = "goal"
          THEN /\ goal_sent' = (goal_sent \/ ~raised)
               /\ server_goal' = (server_goal \/ delivered)
               /\ UNCHANGED <<sent, failed, reported>>
          ELSE /\ sent' = IF raised THEN sent \ {cur[w]} ELSE sent
               /\ failed' = IF raised THEN failed \cup {cur[w]} ELSE failed
               /\ reported' = IF delivered THEN reported \cup {cur[w]} ELSE reported
               /\ UNCHANGED <<goal_sent, server_goal>>
        BY DEF SendReturns
  <2>3. CASE at[w] = "goal"  BY <2>1, <2>2, <2>3
  <2>4. CASE at[w] # "goal"
    <3>1. at[w] = "check"  BY <1>1, <1>2, <2>4 DEF TypeOK
    <3>2. cur[w] \in Checks  BY <1>1, <2>1, <3>1 DEF Sends
    <3>3. QED  BY <2>1, <2>2, <2>4, <3>2
  <2>5. QED  BY <2>3, <2>4
<1>4. /\ at' \in [Actors -> {"idle", "goal", "check"}]
      /\ cur' \in [Actors -> Checks \cup {Nothing, Nerve}]
      /\ fate' \in [Actors -> {"sure", "early", "cut"}]
      /\ at'[w] = "idle" /\ cur'[w] = Nothing
      /\ \A v \in Actors : v # w => at'[v] = at[v] /\ cur'[v] = cur[v]
      BY <1>1, <1>2 DEF TypeOK
<1>5. TypeOK'
  <2>1. {queued, failed, reported}' \subseteq SUBSET Checks
        BY <1>1, <1>2, <1>3 DEF TypeOK
  <2>2. busy' \in Conns \cup {Nothing} /\ sent' \subseteq Checks \ {GoalCheck}
        BY <1>1, <1>2, <1>3 DEF TypeOK
  <2>3. QED  BY <1>1, <1>2, <1>3, <1>4, <2>1, <2>2 DEF TypeOK
<1>6. Stages'
  <2>1. \A k \in Conns : at[k] = "idle" => at'[k] = "idle"
        BY <1>4 DEF Actors
  <2>2. w \in Conns => stage[w] = "flush"  BY <1>1, <1>2 DEF Stages
  <2>3. QED  BY <1>1, <1>2, <1>4, <2>1, <2>2 DEF Stages
<1>7. Sends'
  <2>1. \A v \in Actors : v # w =>
          /\ at'[v] = "goal"  => cur'[v] \in {GoalCheck, Nerve}
          /\ at'[v] = "check" => cur'[v] \in (sent' \cup failed') \ {GoalCheck}
          /\ at'[v] = "idle"  => cur'[v] = Nothing
        BY <1>1, <1>3, <1>4 DEF Sends
  <2>2. QED  BY <1>4, <2>1 DEF Sends
<1>8. Waiting' /\ RefundOnce'
      BY <1>1, <1>2 DEF Waiting, RefundOnce
<1>9. Kept'
  <2>1. SUFFICES ASSUME NEW d \in (emitted' \ failed') \ {GoalCheck},
                        d \notin CharBlocks \/ d \in queued'
        PROVE  Held(d)'
        BY DEF Kept
  <2>2. Held(d)  BY <1>1, <1>2, <1>3, <2>1 DEF Kept
  <2>3. QED  BY <1>2, <1>3, <2>1, <2>2 DEF Held
<1>10. QED  BY <1>5, <1>6, <1>7, <1>8, <1>9 DEF IInv

-----------------------------------------------------------------------------
(* The Connected tasks and the AP connection. *)

\* A check keeps its place when only the stages and the connection move.
LEMMA PlacesUntouched ==
    ASSUME IInv, UNCHANGED <<emitted, pending, replay, sent, refunds, queued, failed>>
    PROVE  Waiting' /\ Kept' /\ RefundOnce'
BY DEF IInv, Waiting, Kept, Held, RefundOnce

\* The list is swapped out as the task's own replay, which was empty.
LEMMA StartFlushIInv ==
    ASSUME IInv, NEW k \in Conns, StartFlush(k)
    PROVE  IInv'
<1> USE Params
<1>1. /\ TypeOK /\ Waiting /\ Stages /\ Sends /\ Kept /\ RefundOnce
      /\ pending \in Seq(Checks) /\ replay \in [Conns -> Seq(Checks)]
      /\ stage \in [Conns -> {"none", "new", "tags", "scout", "flush", "done"}]
      BY DEF IInv, TypeOK
<1>2. /\ stage[k] = "scout" /\ busy = Nothing
      /\ stage' = [stage EXCEPT ![k] = "flush"]
      /\ replay' = [replay EXCEPT ![k] = pending] /\ pending' = <<>> /\ busy' = k
      /\ UNCHANGED <<stateVars, maps, applied, sent, goal_sent, queued, refunds,
                     sendVars, linkVars, apVars>>
      BY DEF StartFlush, Yielded
<1>3. replay[k] = <<>> /\ at[k] = "idle" /\ applied /\ maps
      BY <1>1, <1>2 DEF Stages
<1>4. /\ replay' \in [Conns -> Seq(Checks)] /\ replay'[k] = pending
      /\ \A l \in Conns : l # k => replay'[l] = replay[l]
      /\ stage' \in [Conns -> {"none", "new", "tags", "scout", "flush", "done"}]
      /\ stage'[k] = "flush"
      /\ \A l \in Conns : l # k => stage'[l] = stage[l]
      BY <1>1, <1>2
<1>5. TypeOK'
  <2>1. pending' \in Seq(Checks)  BY <1>2
  <2>2. {queued, failed, reported}' \subseteq SUBSET Checks
        BY <1>1, <1>2 DEF TypeOK, apVars
  <2>3. QED
        BY <1>1, <1>2, <1>4, <2>1, <2>2
        DEF TypeOK, stateVars, sendVars, linkVars, apVars
<1>6. \A c \in Checks : ~In(replay[k], c) /\ ~In(pending', c)
      BY <1>2, <1>3 DEF In
<1>7. Waiting'
  <2>1. \A l \in Conns : Distinct(replay'[l])
        BY <1>1, <1>4 DEF Waiting
  <2>2. Distinct(pending')  BY <1>2 DEF Distinct
  <2>3. ASSUME NEW c \in Checks, NEW l \in Conns, In(replay'[l], c),
               NEW m \in Conns, In(replay'[m], c)
        PROVE  l = m
    <3>1. CASE l # k /\ m # k
          BY <1>1, <1>4, <2>3, <3>1 DEF Waiting
    <3>2. CASE l = k /\ m # k
          BY <1>1, <1>4, <2>3, <3>2 DEF Waiting
    <3>3. CASE l # k /\ m = k
          BY <1>1, <1>4, <2>3, <3>3 DEF Waiting
    <3>4. QED  BY <3>1, <3>2, <3>3
  <2>4. \A c \in Checks : (\E l \in Conns : In(replay'[l], c)) =>
          In(pending, c) \/ (\E l \in Conns : In(replay[l], c))
        BY <1>4
  <2>5. UNCHANGED <<emitted, refunds, queued>>
        BY <1>2 DEF stateVars
  <2>6. \A c \in Checks : In(pending', c) \/ (\E l \in Conns : In(replay'[l], c)) =>
          c \in emitted' /\ refunds'[c] = 0
        BY <1>1, <1>6, <2>4, <2>5 DEF Waiting
  <2>7. /\ \A c \in Checks \ emitted' : refunds'[c] = 0
        /\ queued' \subseteq emitted'
        BY <1>1, <2>5 DEF Waiting
  <2>8. QED  BY <1>6, <2>1, <2>2, <2>3, <2>6, <2>7 DEF Waiting
<1>8. Stages'
  <2>1. UNCHANGED <<at, link, conns, maps, applied>>
        BY <1>2 DEF sendVars, linkVars
  <2>2. \A l \in Conns : l > conns => l # k  BY <1>1, <1>2 DEF Stages
  <2>3. link = "room" => k # conns  BY <1>1, <1>2 DEF Stages
  <2>4. /\ \A l \in Conns :
             /\ stage'[l] # "flush" => replay'[l] = <<>> /\ at'[l] = "idle"
             /\ stage'[l] \in {"scout", "flush"} => applied'
             /\ stage'[l] \in {"tags", "scout", "flush"} => maps'
             /\ l > conns' => stage'[l] = "none"
        BY <1>1, <1>2, <1>3, <1>4, <2>1, <2>2 DEF Stages
  <2>5. link' = "room" => conns' \in Conns /\ stage'[conns'] = "none"
        BY <1>1, <1>4, <2>1, <2>3 DEF Stages
  <2>6. QED  BY <1>2, <1>3, <1>4, <2>1, <2>4, <2>5 DEF Stages
<1>9. Sends' /\ RefundOnce'
      BY <1>1, <1>2 DEF Sends, RefundOnce, sendVars, apVars
<1>10. Kept'
  <2>1. \A c : Held(c) => Held(c)'
    <3>1. ASSUME NEW c, Held(c)  PROVE Held(c)'
      <4>1. CASE In(pending, c)  BY <1>4, <4>1 DEF Held
      <4>2. ASSUME NEW l \in Conns, In(replay[l], c)  PROVE Held(c)'
        <5>1. l # k  BY <1>3, <4>2 DEF In
        <5>2. QED  BY <1>4, <4>2, <5>1 DEF Held
      <4>3. CASE c \in sent  BY <1>2, <4>3 DEF Held
      <4>4. QED  BY <3>1, <4>1, <4>2, <4>3 DEF Held
    <3>2. QED  BY <3>1
  <2>2. UNCHANGED <<emitted, failed, queued>>  BY <1>2 DEF stateVars, apVars
  <2>3. QED  BY <1>1, <2>1, <2>2 DEF Kept
<1>11. QED  BY <1>5, <1>7, <1>8, <1>9, <1>10 DEF IInv

\* The stages of Connected, the DataPackage and the socket keep the invariant.
LEMMA StagesIInv ==
    ASSUME IInv, \/ \E k \in Conns : ConnectedStarts(k) \/ TagsUpdated(k)
                 \/ OpenSocket \/ DataPackage \/ Connected \/ Disconnect
    PROVE  IInv'
<1> USE Params
<1>1. /\ TypeOK /\ Stages /\ Sends
      /\ stage \in [Conns -> {"none", "new", "tags", "scout", "flush", "done"}]
      BY DEF IInv, TypeOK
<1>2. /\ UNCHANGED <<emitted, goal_complete, repeats, pending, replay, sent, refunds, queued,
                     failed, goal_sent, busy, at, cur, goals, server_goal>>
      BY DEF ConnectedStarts, TagsUpdated, ApplySlotData, OpenSocket, DataPackage, Connected,
             Disconnect, stateVars, ctxVars, taskVars, sendVars, apVars
<1>3. Waiting' /\ Kept' /\ RefundOnce'  BY <1>2, PlacesUntouched
<1>4. Sends'  BY <1>1, <1>2 DEF Sends
<1>5. ASSUME /\ stage' \in [Conns -> {"none", "new", "tags", "scout", "flush", "done"}]
             /\ maps' \in BOOLEAN /\ applied' \in BOOLEAN
             /\ fate' \in [Actors -> {"sure", "early", "cut"}]
             /\ link' \in {"down", "room", "slot"} /\ conns' \in 0..(MaxDrops + 1)
             /\ reported' \subseteq Checks
      PROVE  TypeOK'
  <2>1. {queued, failed, reported}' \subseteq SUBSET Checks
        BY <1>1, <1>2, <1>5 DEF TypeOK
  <2>2. QED  BY <1>1, <1>2, <1>5, <2>1 DEF TypeOK
<1>6. CASE \E k \in Conns : ConnectedStarts(k) \/ TagsUpdated(k)
  <2>1. PICK k \in Conns : ConnectedStarts(k) \/ TagsUpdated(k)  BY <1>6
  <2>2. /\ stage[k] \in {"new", "tags"} /\ UNCHANGED <<link, conns, fate, reported>>
        /\ maps' = TRUE
        /\ \/ stage' = [stage EXCEPT ![k] = "tags"] /\ UNCHANGED applied
           \/ stage' = [stage EXCEPT ![k] = "scout"] /\ applied' = TRUE
    <3>1. CASE ConnectedStarts(k)
          BY <3>1 DEF ConnectedStarts, ApplySlotData, linkVars, sendVars, apVars
    <3>2. CASE TagsUpdated(k)
      <4>1. maps  BY <1>1, <3>2 DEF TagsUpdated, Stages
      <4>2. maps' = maps /\ maps \in BOOLEAN
            BY <1>1, <3>2 DEF TagsUpdated, TypeOK
      <4>3. QED  BY <3>2, <4>1, <4>2 DEF TagsUpdated, ApplySlotData, linkVars, sendVars, apVars
    <3>3. QED  BY <2>1, <3>1, <3>2
  <2>3. /\ stage' \in [Conns -> {"none", "new", "tags", "scout", "flush", "done"}]
        /\ \A l \in Conns : l # k => stage'[l] = stage[l]
        /\ stage'[k] = "tags" \/ (stage'[k] = "scout" /\ applied')
        /\ (applied => applied') /\ applied' \in BOOLEAN
    <3>1. applied \in BOOLEAN  BY <1>1 DEF TypeOK
    <3>2. CASE stage' = [stage EXCEPT ![k] = "tags"] /\ UNCHANGED applied
          BY <1>1, <3>1, <3>2
    <3>3. CASE stage' = [stage EXCEPT ![k] = "scout"] /\ applied' = TRUE
          BY <1>1, <3>3
    <3>4. QED  BY <2>2, <3>2, <3>3
  <2>4. TypeOK'  BY <1>1, <1>5, <2>2, <2>3 DEF TypeOK
  <2>5. Stages'
    <3>1. busy \in Conns \cup {Nothing}  BY <1>1 DEF TypeOK
    <3>2. ~(k > conns) /\ (link = "room" => k # conns) /\ busy # k
          BY <1>1, <2>2, <3>1 DEF Stages
    <3>3. replay[k] = <<>> /\ at[k] = "idle"  BY <1>1, <2>2 DEF Stages
    <3>4. \A l \in Conns :
            /\ stage'[l] # "flush" => replay'[l] = <<>> /\ at'[l] = "idle"
            /\ stage'[l] \in {"scout", "flush"} => applied'
            /\ stage'[l] \in {"tags", "scout", "flush"} => maps'
            /\ l > conns' => stage'[l] = "none"
          BY <1>1, <1>2, <2>2, <2>3, <3>2, <3>3 DEF Stages
    <3>5. link' = "room" => conns' \in Conns /\ stage'[conns'] = "none"
          BY <1>1, <2>2, <2>3, <3>2 DEF Stages
    <3>6. busy' # Nothing => stage'[busy'] = "flush" /\ at'[busy'] = "idle"
          BY <1>1, <1>2, <2>3, <3>1, <3>2 DEF Stages
    <3>7. QED  BY <3>4, <3>5, <3>6 DEF Stages
  <2>6. QED  BY <1>3, <1>4, <2>4, <2>5 DEF IInv
<1>7. CASE OpenSocket
  <2>1. /\ link' = "room" /\ conns' = conns + 1 /\ conns <= MaxDrops
        /\ UNCHANGED <<stage, maps, applied, fate, reported>>
        BY <1>7 DEF OpenSocket, ctxVars, taskVars, sendVars, apVars
  <2>2. conns \in 0..(MaxDrops + 1)  BY <1>1 DEF TypeOK
  <2>3. conns' \in Conns /\ conns' \in 0..(MaxDrops + 1) /\ conns' > conns
        BY <2>1, <2>2 DEF Conns
  <2>4. TypeOK'  BY <1>1, <1>5, <2>1, <2>3 DEF TypeOK
  <2>5. Stages'
    <3>1. \A l \in Conns : l > conns' => l > conns  BY <2>1, <2>2 DEF Conns
    <3>2. QED  BY <1>1, <1>2, <2>1, <2>3, <3>1 DEF Stages
  <2>6. QED  BY <1>3, <1>4, <2>4, <2>5 DEF IInv
<1>8. CASE DataPackage
  <2>1. maps' = TRUE /\ UNCHANGED <<stage, applied, fate, link, conns, reported>>
        BY <1>8 DEF DataPackage, taskVars, sendVars, linkVars, apVars
  <2>2. TypeOK'  BY <1>1, <1>5, <2>1 DEF TypeOK
  <2>3. Stages'  BY <1>1, <1>2, <2>1 DEF Stages
  <2>4. QED  BY <1>3, <1>4, <2>2, <2>3 DEF IInv
<1>9. CASE Connected
  <2>1. /\ link = "room" /\ link' = "slot" /\ reported' = reported \cup sent
        /\ stage' = [stage EXCEPT ![conns] = "new"]
        /\ UNCHANGED <<maps, applied, fate, conns>>
        BY <1>9 DEF Connected, ctxVars, sendVars
  <2>2. conns \in Conns /\ stage[conns] = "none"  BY <1>1, <2>1 DEF Stages
  <2>3. /\ stage' \in [Conns -> {"none", "new", "tags", "scout", "flush", "done"}]
        /\ stage'[conns] = "new" /\ \A l \in Conns : l # conns => stage'[l] = stage[l]
        BY <1>1, <2>1, <2>2
  <2>4. reported' \subseteq Checks  BY <1>1, <2>1 DEF TypeOK
  <2>5. TypeOK'  BY <1>1, <1>5, <2>1, <2>3, <2>4 DEF TypeOK
  <2>6. Stages'
    <3>1. busy \in Conns \cup {Nothing}  BY <1>1 DEF TypeOK
    <3>2. busy # conns  BY <1>1, <2>2, <3>1 DEF Stages
    <3>3. replay[conns] = <<>> /\ at[conns] = "idle" /\ ~(conns > conns)
          BY <1>1, <2>2 DEF Stages, TypeOK
    <3>4. QED  BY <1>1, <1>2, <2>1, <2>2, <2>3, <3>1, <3>2, <3>3 DEF Stages
  <2>7. QED  BY <1>3, <1>4, <2>5, <2>6 DEF IInv
<1>10. CASE Disconnect
  <2>1. /\ link' = "down" /\ fate' = [w \in Actors |-> IF at[w] = "idle" THEN "sure" ELSE "cut"]
        /\ UNCHANGED <<stage, maps, applied, conns, reported>>
        BY <1>10 DEF Disconnect, ctxVars, taskVars, apVars
  <2>2. TypeOK'  BY <1>1, <1>5, <2>1 DEF TypeOK
  <2>3. Stages'  BY <1>1, <1>2, <2>1 DEF Stages
  <2>4. QED  BY <1>3, <1>4, <2>2, <2>3 DEF IInv
<1>11. QED  BY <1>6, <1>7, <1>8, <1>9, <1>10

\* A replayed check leaves the list, and is sent unless it is the goal: the
\* maps are there and the slot_data is applied.
LEMMA ReplayNextIInv ==
    ASSUME IInv, NEW k \in Conns, ReplayNext(k)
    PROVE  IInv'
<1> USE Params
<1>1. /\ TypeOK /\ Waiting /\ Stages /\ Sends /\ Kept /\ RefundOnce
      /\ pending \in Seq(Checks) /\ replay \in [Conns -> Seq(Checks)]
      /\ refunds \in [Checks -> Nat]
      /\ stage \in [Conns -> {"none", "new", "tags", "scout", "flush", "done"}]
      BY DEF IInv, TypeOK
<1>2. /\ stage[k] = "flush" /\ busy = k
      /\ UNCHANGED <<emitted, goal_complete, repeats, maps, applied, link, conns, failed,
                     reported, server_goal>>
      BY DEF ReplayNext, stateVars, linkVars
<1>3. /\ k \in Actors /\ at[k] = "idle" /\ cur[k] = Nothing /\ maps /\ applied
      /\ k # Nothing /\ ~(k > conns) /\ (link = "room" => k # conns)
      BY <1>1, <1>2 DEF Stages, Sends, Actors
<1>4. CASE replay[k] = <<>>
  <2>1. /\ stage' = [stage EXCEPT ![k] = "done"] /\ busy' = Nothing
        /\ UNCHANGED <<replay, pending, queued, sent, goal_sent, refunds, goals, at, cur, fate>>
        BY <1>4 DEF ReplayNext, sendVars
  <2>2. /\ stage' \in [Conns -> {"none", "new", "tags", "scout", "flush", "done"}]
        /\ stage'[k] = "done" /\ \A l \in Conns : l # k => stage'[l] = stage[l]
        BY <1>1, <2>1
  <2>3. TypeOK'
    <3>1. {queued, failed, reported}' \subseteq SUBSET Checks
          BY <1>1, <1>2, <2>1 DEF TypeOK
    <3>2. QED  BY <1>1, <1>2, <2>1, <2>2, <3>1 DEF TypeOK
  <2>4. Stages'  BY <1>1, <1>2, <1>3, <1>4, <2>1, <2>2 DEF Stages
  <2>5. Sends'  BY <1>1, <1>2, <2>1 DEF Sends
  <2>6. Waiting' /\ Kept' /\ RefundOnce'  BY <1>2, <2>1, PlacesUntouched
  <2>7. QED  BY <2>3, <2>4, <2>5, <2>6 DEF IInv
<1>5. CASE replay[k] # <<>>
  <2> DEFINE c == Head(replay[k])
  <2>1. /\ HandleCheck(k, c) /\ replay' = [replay EXCEPT ![k] = Tail(@)]
        /\ busy' = IF at'[k] = "idle" THEN k ELSE Nothing
        /\ stage' = stage
        BY <1>5 DEF ReplayNext
  <2>2. /\ c \in Checks /\ Tail(replay[k]) \in Seq(Checks) /\ Distinct(Tail(replay[k]))
        /\ In(replay[k], c) /\ ~In(Tail(replay[k]), c)
        /\ \A d \in Checks : In(Tail(replay[k]), d) => In(replay[k], d)
        /\ \A d \in Checks : In(replay[k], d) => d = c \/ In(Tail(replay[k]), d)
    <3>1. replay[k] \in Seq(Checks) /\ Distinct(replay[k])
          BY <1>1 DEF Waiting
    <3>2. QED  BY <1>5, <3>1, TakenOff
  <2> HIDE DEF c
  <2>3. /\ pending' \in Seq(Checks) /\ sent' \subseteq Checks \ {GoalCheck}
        /\ goal_sent' \in BOOLEAN /\ queued' \subseteq Checks
        /\ refunds' \in [Checks -> Nat] /\ goals' \in Nat
        /\ at' \in [Actors -> {"idle", "goal", "check"}]
        /\ cur' \in [Actors -> Checks \cup {Nothing, Nerve}]
        /\ fate' \in [Actors -> {"sure", "early", "cut"}]
        /\ \A v \in Actors : v # k => at'[v] = at[v] /\ cur'[v] = cur[v]
        /\ \/ at'[k] = "idle" /\ cur'[k] = Nothing
           \/ at'[k] = "goal" /\ cur'[k] = GoalCheck
           \/ at'[k] = "check" /\ cur'[k] \in sent' \ {GoalCheck}
        /\ Queued(c) \/ Dropped(c) \/ Recorded(c)
        BY <1>1, <1>3, <2>1, <2>2, Handles
  <2>4. /\ replay' \in [Conns -> Seq(Checks)] /\ replay'[k] = Tail(replay[k])
        /\ \A l \in Conns : l # k => replay'[l] = replay[l]
        BY <1>1, <2>1, <2>2
  <2>5. /\ UNCHANGED <<pending, queued>> /\ sent \subseteq sent'
        /\ \A d \in Checks : d # c => refunds'[d] = refunds[d]
        /\ refunds'[c] <= 1
        /\ c # GoalCheck => c \in sent'
    <3>1. refunds[c] = 0  BY <1>1, <2>2 DEF Waiting
    <3>2. CASE Dropped(c)  BY <1>3, <3>1, <3>2 DEF Dropped
    <3>3. CASE Recorded(c)  BY <1>1, <2>2, <3>1, <3>3 DEF Recorded
    <3>4. QED  BY <1>3, <2>3, <3>2, <3>3 DEF Queued
  <2>6. TypeOK'
    <3>1. {queued, failed, reported}' \subseteq SUBSET Checks
          BY <1>1, <1>2, <2>3 DEF TypeOK
    <3>2. busy' \in Conns \cup {Nothing}  BY <2>1
    <3>3. QED  BY <1>1, <1>2, <2>1, <2>3, <2>4, <3>1, <3>2 DEF TypeOK
  <2>7. Stages'
    <3>1. \A l \in Conns : l # k => at'[l] = at[l]  BY <2>3 DEF Actors
    <3>2. \A l \in Conns :
            /\ stage'[l] # "flush" => replay'[l] = <<>> /\ at'[l] = "idle"
            /\ stage'[l] \in {"scout", "flush"} => applied'
            /\ stage'[l] \in {"tags", "scout", "flush"} => maps'
            /\ l > conns' => stage'[l] = "none"
          BY <1>1, <1>2, <2>1, <2>4, <3>1 DEF Stages
    <3>3. link' = "room" => conns' \in Conns /\ stage'[conns'] = "none"
          BY <1>1, <1>2, <2>1 DEF Stages
    <3>4. busy' # Nothing => stage'[busy'] = "flush" /\ at'[busy'] = "idle"
          BY <1>2, <2>1
    <3>5. QED  BY <3>2, <3>3, <3>4 DEF Stages
  <2>8. Sends'
    <3>1. \A v \in Actors : v # k =>
            /\ at'[v] = "goal"  => cur'[v] \in {GoalCheck, Nerve}
            /\ at'[v] = "check" => cur'[v] \in (sent' \cup failed') \ {GoalCheck}
            /\ at'[v] = "idle"  => cur'[v] = Nothing
          BY <1>1, <1>2, <2>3, <2>5 DEF Sends
    <3>2. QED  BY <2>3, <3>1 DEF Sends
  <2>9. /\ \A d \in Checks, l \in Conns : In(replay'[l], d) => In(replay[l], d)
        /\ \A l \in Conns : ~In(replay'[l], c)
        /\ ~In(pending, c)
    <3>1. \A l \in Conns : l # k => ~In(replay[l], c)
          BY <1>1, <2>2 DEF Waiting
    <3>2. ~In(pending, c)  BY <1>1, <2>2 DEF Waiting
    <3>3. QED  BY <2>2, <2>4, <3>1, <3>2
  <2>10. Waiting'
    <3>1. Distinct(pending') /\ \A l \in Conns : Distinct(replay'[l])
          BY <1>1, <2>2, <2>4, <2>5 DEF Waiting
    <3>2. \A d \in Checks, l \in Conns : In(replay'[l], d) =>
            /\ ~In(pending', d)
            /\ \A m \in Conns : In(replay'[m], d) => l = m
          BY <1>1, <2>5, <2>9 DEF Waiting
    <3>3. \A d \in Checks : In(pending', d) \/ (\E l \in Conns : In(replay'[l], d)) =>
            d \in emitted' /\ refunds'[d] = 0
          BY <1>1, <1>2, <2>5, <2>9 DEF Waiting
    <3>4. c \in emitted  BY <1>1, <2>2 DEF Waiting
    <3>5. \A d \in Checks \ emitted' : refunds'[d] = 0
          BY <1>1, <1>2, <2>5, <3>4 DEF Waiting
    <3>6. queued' \subseteq emitted'  BY <1>1, <1>2, <2>5 DEF Waiting
    <3>7. QED  BY <3>1, <3>2, <3>3, <3>5, <3>6 DEF Waiting
  <2>11. Kept'
    <3>1. SUFFICES ASSUME NEW d \in (emitted' \ failed') \ {GoalCheck},
                          d \notin CharBlocks \/ d \in queued'
          PROVE  Held(d)'
          BY DEF Kept
    <3>2. d \in Checks /\ Held(d)
          BY <1>1, <1>2, <2>5, <3>1 DEF Kept, TypeOK
    <3>3. CASE In(pending, d)  BY <2>5, <3>3 DEF Held
    <3>4. ASSUME NEW l \in Conns, In(replay[l], d)  PROVE Held(d)'
      <4>1. CASE l # k  BY <2>4, <3>4, <4>1 DEF Held
      <4>2. CASE l = k /\ d # c  BY <2>2, <2>4, <3>2, <3>4, <4>2 DEF Held
      <4>3. CASE d = c  BY <2>5, <3>1, <4>3 DEF Held
      <4>4. QED  BY <4>1, <4>2, <4>3
    <3>5. CASE d \in sent  BY <2>5, <3>5 DEF Held
    <3>6. QED  BY <3>2, <3>3, <3>4, <3>5 DEF Held
  <2>12. RefundOnce'  BY <1>1, <2>5 DEF RefundOnce
  <2>13. QED  BY <2>6, <2>7, <2>8, <2>10, <2>11, <2>12 DEF IInv
<1>6. QED  BY <1>4, <1>5

\* The invariant is inductive.
LEMMA NextIInv ==
    ASSUME IInv, [Next]_vars
    PROVE  IInv'
<1>1. CASE \E w \in Lans, c \in Checks : Fire(w, c)  BY <1>1, FireIInv
<1>2. CASE \E w \in Lans : FireNerve(w)  BY <1>2, FireNerveIInv
<1>3. CASE \E w \in Actors : SendReturns(w)  BY <1>3, SendReturnsIInv
<1>4. CASE \E k \in Conns : StartFlush(k)  BY <1>4, StartFlushIInv
<1>5. CASE \E k \in Conns : ReplayNext(k)  BY <1>5, ReplayNextIInv
<1>6. CASE \/ \E k \in Conns : ConnectedStarts(k) \/ TagsUpdated(k)
           \/ OpenSocket \/ DataPackage \/ Connected \/ Disconnect
      BY <1>6, StagesIInv
<1>7. CASE UNCHANGED vars
  <2>1. /\ UNCHANGED <<emitted, pending, replay, sent, refunds, queued, failed>>
        /\ UNCHANGED <<goal_complete, maps, applied, goal_sent, stage, busy, at, cur, fate,
                       link, conns, repeats, goals, reported, server_goal>>
        BY <1>7 DEF vars, stateVars, ctxVars, taskVars, sendVars, linkVars, apVars
  <2>2. TypeOK'
    <3>1. TypeOK /\ {queued, failed, reported}' \subseteq SUBSET Checks
          BY <2>1 DEF IInv, TypeOK
    <3>2. QED  BY <2>1, <3>1 DEF TypeOK
  <2>3. Stages' /\ Sends'  BY <2>1 DEF IInv, Stages, Sends
  <2>4. QED  BY <2>1, <2>2, <2>3, PlacesUntouched DEF IInv
<1>8. QED  BY <1>1, <1>2, <1>3, <1>4, <1>5, <1>6, <1>7 DEF Next

-----------------------------------------------------------------------------
\* The inductive invariant holds in every state.
THEOREM Invariance == Spec => []IInv
<1>1. Init => IInv  BY InitIInv
<1>2. IInv /\ [Next]_vars => IInv'  BY NextIInv
<1>3. QED  BY <1>1, <1>2, PTL DEF Spec

\* No check that passed the dedup is lost, although every later report of it
\* is swallowed: it waits, is recorded as sent, is with the AP server, or its
\* send raised (context.py:1687-1694, 1757-1759).
THEOREM NoCheckLost == Spec => []NoneLost
<1>1. IInv => NoneLost
  <2>1. SUFFICES ASSUME IInv, NEW c \in (emitted \ failed) \ {GoalCheck},
                        c \notin CharBlocks \/ c \in queued
        PROVE  OnItsWay(c) \/ c \in reported
        BY DEF NoneLost
  <2>2. Held(c)  BY <2>1 DEF IInv, Kept
  <2>3. QED  BY <2>2 DEF Held, In, OnItsWay
<1>2. QED  BY <1>1, Invariance, PTL

\* A 10-coin pickup is refunded at most once, whatever is reported again and
\* whichever sends fail (context.py:1773-1780).
THEOREM RefundedOnce == Spec => []RefundOnce
<1>1. IInv => RefundOnce  BY DEF IInv
<1>2. QED  BY <1>1, Invariance, PTL

(***************************************************************************)
(* What the Switch is shown, for every table, slot and kind of push, and   *)
(* any number of faults and commands.                                      *)
(*                                                                         *)
(* What the mod will have once the queue is read is the value of the       *)
(* context, from the time that what feeds the kind has reached the         *)
(* context: a handler either pushes the value it leaves, or leaves what    *)
(* feeds it as it was.  Of the texts, which are sent one by one, each is   *)
(* with the mod or under way, and is not taken back by a later message.    *)
(***************************************************************************)

\* The last of what the mod has and what is on its way to it.
Final == IF queue = <<>> THEN view ELSE queue[Len(queue)]

\* The kinds of one message, that some handler pushes whenever they change.
Masks == {"badges", "deny", "charas", "seed_counts", "seed_bits", "badge_shop", "seed_shop",
          "routable"}

\* What feeds the kind has reached the context.
Reached ==
    CASE kind \in {"badge_shop", "seed_shop"} -> ap = "in" /\ ~ctx.connecting
      [] kind = "routable"                    -> TRUE
      [] OTHER                                -> ctx.items_received = server

UpToDate ==
    session = "greeted" /\ kind \in Prompt /\ Reached /\ Value(ctx) # Boot => Final = Value(ctx)

\* In a sequence of messages y does not occur, or x does and no y after it.
FreeOf(q, y)  == \A m \in 1 .. Len(q) : q[m] # y
EndsIn(q, x, y) == \E n \in 1 .. Len(q) : q[n] = x /\ \A m \in n + 1 .. Len(q) : q[m] # y

\* Once the queue is read, badge b has its text.
EndsShown(b) ==
    EndsIn(queue, <<b, "text">>, <<b, "">>) \/ (b \in view /\ FreeOf(queue, <<b, "">>))

TextsUpToDate ==
    kind = "shop_text" /\ session = "greeted" => \A b \in Value(ctx) : EndsShown(b)

ItemsKnown == ctx.items_received \subseteq server

\* Nothing is scouted before the maps are built.
MapsFirst == ap # "down" \/ ctx.locations_info # {} => ctx.maps

SyncIInv == SyncTypeOK /\ UpToDate /\ TextsUpToDate /\ ItemsKnown /\ MapsFirst

-----------------------------------------------------------------------------
(* The queue, and sets as sequences. *)

\* What is appended to a sequence is at its end.
LEMMA Appended ==
    ASSUME NEW S, NEW q \in Seq(S), NEW v
    PROVE  /\ q \o <<v>> \in Seq(Range(q \o <<v>>))
           /\ q \o <<v>> # <<>> /\ (q \o <<v>>)[Len(q \o <<v>>)] = v
<1> DEFINE p == q \o <<v>>
<1>1. q \in Seq(S \cup {v}) /\ <<v>> \in Seq(S \cup {v}) /\ Len(<<v>>) = 1 /\ <<v>>[1] = v
      BY SeqMonotonic
<1>2. /\ p \in Seq(S \cup {v}) /\ Len(p) = Len(q) + 1
      /\ \A i \in 1 .. Len(q) + 1 : p[i] = IF i <= Len(q) THEN q[i] ELSE <<v>>[i - Len(q)]
      BY <1>1, ConcatProperties
<1>3. Len(q) \in Nat  BY LenProperties
<1>4. p[Len(p)] = v  BY <1>1, <1>2, <1>3
<1>5. p # <<>>  BY <1>2, <1>3
<1> HIDE DEF p
<1>6. p \in Seq(Range(p))
  <2>1. Len(p) \in Nat /\ p \in [1 .. Len(p) -> S \cup {v}]  BY <1>2, LenProperties
  <2>2. \A i \in 1 .. Len(p) : p[i] \in Range(p)  BY <2>1 DEF Range
  <2>3. p \in [1 .. Len(p) -> Range(p)]  BY <2>1, <2>2
  <2>4. QED  BY <2>1, <2>3
<1>7. QED  BY <1>4, <1>5, <1>6 DEF p

\* The end of a sequence is that of its tail.
LEMMA Taken ==
    ASSUME NEW S, NEW q \in Seq(S), q # <<>>
    PROVE  /\ Tail(q) \in Seq(Range(Tail(q))) /\ Tail(q) \in Seq(S)
           /\ Head(q) = q[1] /\ Head(q) \in S
           /\ Len(q) \in Nat \ {0} /\ Len(Tail(q)) = Len(q) - 1
           /\ \A i \in 1 .. Len(q) - 1 : Tail(q)[i] = q[i + 1]
<1>1. /\ Tail(q) \in Seq(S) /\ Len(Tail(q)) = Len(q) - 1 /\ Head(q) \in S
      /\ \A i \in 1 .. Len(Tail(q)) : Tail(q)[i] = q[i + 1]
      BY HeadTailProperties
<1>2. Len(q) \in Nat \ {0} /\ Head(q) = q[1]  BY EmptySeq
<1> DEFINE p == Tail(q)
<1> HIDE DEF p
<1>3. p \in Seq(S)  BY <1>1 DEF p
<1>4. p \in Seq(Range(p))
  <2>1. Len(p) \in Nat /\ p \in [1 .. Len(p) -> S]  BY <1>3, LenProperties
  <2>2. \A i \in 1 .. Len(p) : p[i] \in Range(p)  BY <2>1 DEF Range
  <2>3. p \in [1 .. Len(p) -> Range(p)]  BY <2>1, <2>2
  <2>4. QED  BY <2>1, <2>3
<1>5. QED  BY <1>1, <1>2, <1>4 DEF p

\* A finite set is listed whole.
LEMMA Listed ==
    ASSUME NEW S, IsFiniteSet(S)
    PROVE  /\ Cardinality(S) \in Nat
           /\ SetToSeq(S) \in [1 .. Cardinality(S) -> S]
           /\ \A x \in S : \E n \in 1 .. Cardinality(S) : SetToSeq(S)[n] = x
<1> DEFINE C == 1 .. Cardinality(S)
           f == SetToSeq(S)
<1>1. Cardinality(S) \in Nat /\ ExistsBijection(C, S)  BY FS_CardinalityType
<1>2. PICK g \in [C -> S] : IsInjective(g)
      BY <1>1 DEF ExistsBijection, Bijection, Injection
<1>3. f \in [C -> S] /\ IsInjective(f)  BY <1>2 DEF SetToSeq
<1> HIDE DEF f
<1>4. f \in Injection(C, S)  BY <1>3 DEF Injection
<1>5. IsFiniteSet(C) /\ Cardinality(C) = Cardinality(S)
  <2>1. Cardinality(S) \in Int /\ 1 \in Int  BY <1>1
  <2>2. IsFiniteSet(C) /\ Cardinality(C) = IF 1 > Cardinality(S) THEN 0 ELSE Cardinality(S) - 1 + 1
        BY <2>1, FS_Interval
  <2>3. QED  BY <1>1, <2>2
<1>6. f \in Surjection(C, S)  BY <1>4, <1>5, FS_Injection
<1>7. QED  BY <1>1, <1>3, <1>6 DEF Surjection, f

\* A function on 1..n is a sequence.
LEMMA AsSeq ==
    ASSUME NEW S, NEW n \in Nat, NEW f \in [1 .. n -> S]
    PROVE  f \in Seq(S) /\ Len(f) = n
OBVIOUS

\* What is appended without a y leaves what the sequence ends in.
LEMMA EndsAppended ==
    ASSUME NEW S, NEW q \in Seq(S), NEW r \in Seq(S), NEW x, NEW y, FreeOf(r, y)
    PROVE  /\ FreeOf(q, y) => FreeOf(q \o r, y)
           /\ EndsIn(q, x, y) => EndsIn(q \o r, x, y)
           /\ (\E i \in 1 .. Len(r) : r[i] = x) => EndsIn(q \o r, x, y)
<1> DEFINE p == q \o r
<1>1. /\ p \in Seq(S) /\ Len(p) = Len(q) + Len(r) /\ Len(q) \in Nat /\ Len(r) \in Nat
      /\ \A i \in 1 .. Len(q) + Len(r) : p[i] = IF i <= Len(q) THEN q[i] ELSE r[i - Len(q)]
      BY ConcatProperties, LenProperties
<1> HIDE DEF p
<1>2. \A m \in Len(q) + 1 .. Len(p) : p[m] # y
  <2> TAKE m \in Len(q) + 1 .. Len(p)
  <2>1. m - Len(q) \in 1 .. Len(r) /\ p[m] = r[m - Len(q)]  BY <1>1
  <2>2. QED  BY <2>1 DEF FreeOf
<1>3. \A m \in 1 .. Len(q) : p[m] = q[m]  BY <1>1
<1>4. FreeOf(q, y) => FreeOf(p, y)  BY <1>1, <1>2, <1>3 DEF FreeOf
<1>5. ASSUME EndsIn(q, x, y) PROVE EndsIn(p, x, y)
  <2>1. PICK n \in 1 .. Len(q) : q[n] = x /\ \A m \in n + 1 .. Len(q) : q[m] # y
        BY <1>5 DEF EndsIn
  <2>2. n \in 1 .. Len(p) /\ p[n] = x  BY <1>1, <1>3, <2>1
  <2>3. \A m \in n + 1 .. Len(p) : p[m] # y  BY <1>1, <1>2, <1>3, <2>1
  <2>4. QED  BY <2>2, <2>3 DEF EndsIn
<1>6. ASSUME NEW i \in 1 .. Len(r), r[i] = x PROVE EndsIn(p, x, y)
  <2>1. Len(q) + i \in 1 .. Len(p) /\ p[Len(q) + i] = x  BY <1>1, <1>6
  <2>2. \A m \in Len(q) + i + 1 .. Len(p) : p[m] # y  BY <1>1, <1>2, <1>6
  <2>3. QED  BY <2>1, <2>2 DEF EndsIn
<1>7. QED  BY <1>4, <1>5, <1>6 DEF p

\* What is taken off the front was all there was, or the rest ends as before.
LEMMA EndsTaken ==
    ASSUME NEW S, NEW q \in Seq(S), q # <<>>, NEW x, NEW y
    PROVE  /\ FreeOf(q, y) => Head(q) # y /\ FreeOf(Tail(q), y)
           /\ EndsIn(q, x, y) =>
                 EndsIn(Tail(q), x, y) \/ (Head(q) = x /\ FreeOf(Tail(q), y))
<1> DEFINE p == Tail(q)
<1>1. /\ Len(q) \in Nat \ {0} /\ Len(p) = Len(q) - 1
      /\ \A i \in 1 .. Len(q) - 1 : p[i] = q[i + 1]
      BY Taken
<1>2. Head(q) = q[1]  BY Taken
<1> HIDE DEF p
<1>3. ASSUME FreeOf(q, y) PROVE Head(q) # y /\ FreeOf(p, y)
      BY <1>1, <1>2, <1>3 DEF FreeOf
<1>4. ASSUME EndsIn(q, x, y) PROVE EndsIn(p, x, y) \/ (Head(q) = x /\ FreeOf(p, y))
  <2>1. PICK n \in 1 .. Len(q) : q[n] = x /\ \A k \in n + 1 .. Len(q) : q[k] # y
        BY <1>4 DEF EndsIn
  <2>2. CASE n = 1  BY <1>1, <1>2, <2>1, <2>2 DEF FreeOf
  <2>3. CASE n # 1
    <3>1. n - 1 \in 1 .. Len(p) /\ p[n - 1] = x  BY <1>1, <2>1, <2>3
    <3>2. \A k \in n - 1 + 1 .. Len(p) : p[k] # y  BY <1>1, <2>1, <2>3
    <3>3. QED  BY <3>1, <3>2 DEF EndsIn
  <2>4. QED  BY <2>2, <2>3
<1>5. QED  BY <1>3, <1>4 DEF p

-----------------------------------------------------------------------------
(* What the value depends on. *)

SameInputs(c, d) ==
    /\ kind \in {"badges", "deny", "charas", "seed_counts", "seed_bits"} =>
           c.items_received = d.items_received
    /\ kind = "badges" => c.probe_mask = d.probe_mask
    /\ kind = "deny" => c.applied = d.applied /\ c.deny_override = d.deny_override
    /\ kind = "routable" => c.applied = d.applied /\ c.bowser_opened = d.bowser_opened
    /\ kind \in {"badge_shop", "seed_shop"} =>
           Obtained(c) \cap FeedingLocations = Obtained(d) \cap FeedingLocations
    /\ kind \in {"badge_shop", "seed_shop", "shop_text"} => c.maps = d.maps
    /\ kind = "seed_shop" => c.server_locations = d.server_locations
    /\ kind = "shop_text" => c.locations_info = d.locations_info

\* No value is computed from anything else.
LEMMA SameValue ==
    ASSUME NEW c, NEW d, SameInputs(c, d), kind \in Masks \cup {"shop_text"}
    PROVE  Value(c) = Value(d)
<1>1. CASE kind = "badges"  BY <1>1 DEF SameInputs, Value, BadgeMask
<1>2. CASE kind = "deny"  BY <1>2 DEF SameInputs, Value, DenyMask
<1>3. CASE kind = "charas"  BY <1>3 DEF SameInputs, Value, UnlockedCharaMask
<1>5. CASE kind = "seed_counts"  BY <1>5 DEF SameInputs, Value, WonderSeedCounts
<1>6. CASE kind = "seed_bits"
  <2>1. WonderSeedCounts(c) = WonderSeedCounts(d)  BY <1>6 DEF SameInputs, WonderSeedCounts
  <2>2. WonderSeedBits(c) = WonderSeedBits(d)  BY <2>1, Zenon DEF WonderSeedBits
  <2>3. QED  BY <1>6, <2>2 DEF Value
<1>7. CASE kind = "badge_shop"
  <2>1. \A b \in DOMAIN shop_badges : shop_badges[b] \in FeedingLocations
        BY <1>7 DEF FeedingLocations, Range
  <2>2. \A b \in DOMAIN shop_badges : shop_badges[b] \in Obtained(c) <=> shop_badges[b] \in Obtained(d)
        BY <1>7, <2>1 DEF SameInputs
  <2>3. BadgeShopState(c) = BadgeShopState(d)  BY <1>7, <2>2 DEF SameInputs, BadgeShopState
  <2>4. QED  BY <1>7, <2>3 DEF Value
<1>8. CASE kind = "seed_shop"
  <2>1. \A s \in DOMAIN SEED_SHOP_SLOTS : SEED_SHOP_SLOTS[s] \subseteq FeedingLocations
        BY <1>8 DEF FeedingLocations, Range
  <2>2. \A s \in DOMAIN SEED_SHOP_SLOTS :
            SEED_SHOP_SLOTS[s] \subseteq Obtained(c) <=> SEED_SHOP_SLOTS[s] \subseteq Obtained(d)
        BY <1>8, <2>1 DEF SameInputs
  <2>3. SeedShopState(c) = SeedShopState(d)  BY <1>8, <2>2 DEF SameInputs, SeedShopState
  <2>4. QED  BY <1>8, <2>3 DEF Value
<1>9. CASE kind = "routable"  BY <1>9 DEF SameInputs, Value, RoutableWorlds
<1>10. CASE kind = "shop_text"  BY <1>10 DEF SameInputs, Value, BadgeShopText
<1>11. QED  BY <1>1, <1>2, <1>3, <1>5, <1>6, <1>7, <1>8, <1>9, <1>10 DEF Masks

\* The value a handler pushes is that of the context it leaves.
LEMMA ValueNext ==
    ASSUME NEW c, ctx' = c, UNCHANGED <<kind, slot_data>>, kind \in Masks \cup {"shop_text"}
    PROVE  Value(ctx)' = Value(c) /\ Boot' = Boot
<1>1. Boot' = Boot  BY DEF Boot
<1>2. CASE kind = "badges"  BY <1>1, <1>2 DEF Value, BadgeMask
<1>3. CASE kind = "deny"  BY <1>1, <1>3 DEF Value, DenyMask
<1>4. CASE kind = "charas"  BY <1>1, <1>4 DEF Value, UnlockedCharaMask
<1>5. CASE kind = "seed_counts"  BY <1>1, <1>5 DEF Value, WonderSeedCounts
<1>6. CASE kind = "seed_bits"  BY <1>1, <1>6 DEF Value, WonderSeedBits, WonderSeedCounts
<1>7. CASE kind = "badge_shop"  BY <1>1, <1>7 DEF Value, BadgeShopState, Obtained
<1>8. CASE kind = "seed_shop"  BY <1>1, <1>8 DEF Value, SeedShopState, Obtained
<1>9. CASE kind = "routable"  BY <1>1, <1>9 DEF Value, RoutableWorlds
<1>10. CASE kind = "shop_text"  BY <1>1, <1>10 DEF Value, BadgeShopText
<1>11. QED  BY <1>1, <1>2, <1>3, <1>4, <1>5, <1>6, <1>7, <1>8, <1>9, <1>10 DEF Masks

-----------------------------------------------------------------------------
(* What a step does to the queue and to what is promised of it. *)

\* The kinds PromptlyShown is about, but for the texts.
LEMMA PromptKinds == Prompt \subseteq Masks /\ "shop_text" \notin Masks
BY DEF Prompt, Masks

\* The shop badges are finitely many.
LEMMA FewBadges == \A S \in SUBSET DOMAIN shop_badges : IsFiniteSet(S)
<1>1. BIT_COUNT \in Nat /\ DOMAIN shop_badges \subseteq Bits
      BY ClientSyncAssumption DEF ClientSyncAssumption
<1>2. IsFiniteSet(Bits)
  <2>1. 0 \in Int /\ BIT_COUNT - 1 \in Int  BY <1>1
  <2>2. QED  BY <2>1, FS_Interval DEF Bits
<1>3. QED  BY <1>1, <1>2, FS_Subset

\* The queue stays a sequence.
LEMMA QueueType ==
    ASSUME SyncTypeOK, kind' = kind,
           \/ queue' = queue
           \/ queue' = <<>>
           \/ kind # "shop_text" /\ \E v : Send(<<v>>)
    PROVE  queue' \in Seq(Messages')
<1>1. queue \in Seq(Messages)  BY DEF SyncTypeOK
<1>2. CASE queue' = queue  BY <1>1, <1>2 DEF Messages
<1>3. CASE queue' = <<>>  BY <1>3, EmptySeq
<1>4. ASSUME kind # "shop_text", NEW v, Send(<<v>>), queue' # queue
      PROVE  queue' \in Seq(Messages')
  <2>1. queue' = queue \o <<v>>  BY <1>4 DEF Send
  <2>2. queue' \in Seq(Range(queue'))  BY <1>1, <2>1, Appended
  <2>3. QED  BY <1>4, <2>2 DEF Messages
<1>5. QED  BY <1>2, <1>3, <1>4

\* What is sent is the last that the mod will have.
LEMMA SentIsFinal ==
    ASSUME SyncTypeOK, NEW v, Send(<<v>>), session # "none"
    PROVE  Final' = v
<1>1. queue \in Seq(Messages) /\ queue' = queue \o <<v>>  BY DEF SyncTypeOK, Send
<1>2. queue' # <<>> /\ queue'[Len(queue')] = v  BY <1>1, Appended
<1>3. QED  BY <1>2 DEF Final

\* A step that changes neither the value nor the queue keeps the promise,
\* if what has reached the context had reached it before.
LEMMA Stays ==
    ASSUME UpToDate, UNCHANGED <<kind, slot_data>>,
           kind \in Masks /\ Reached' /\ Value(ctx') # Boot =>
               SameInputs(ctx, ctx') /\ Reached /\ Final' = Final,
           session' = "greeted" => session = "greeted",
           commands' = 0 => commands = 0
    PROVE  UpToDate'
<1> SUFFICES ASSUME session' = "greeted", kind \in Prompt', Reached', Value(ctx)' # Boot'
             PROVE  Final' = Value(ctx)'
    BY DEF UpToDate
<1>1. kind \in Prompt  BY DEF Prompt
<1>2. kind \in Masks  BY <1>1, PromptKinds
<1>3. Value(ctx)' = Value(ctx') /\ Boot' = Boot  BY <1>2, ValueNext
<1>4. SameInputs(ctx, ctx') /\ Reached /\ Final' = Final  BY <1>2, <1>3
<1>5. Value(ctx') = Value(ctx)  BY <1>2, <1>4, SameValue
<1>6. QED  BY <1>1, <1>3, <1>4, <1>5 DEF UpToDate

\* So does a step that pushes the value it leaves.
LEMMA Shows ==
    ASSUME SyncTypeOK, UNCHANGED <<kind, slot_data>>, NEW c, ctx' = c, Send(<<Value(c)>>),
           session' = "greeted" => session # "none"
    PROVE  UpToDate'
<1> SUFFICES ASSUME session' = "greeted", kind \in Prompt'
             PROVE  Final' = Value(ctx)'
    BY DEF UpToDate
<1>1. kind \in Masks  BY DEF Prompt, Masks
<1>2. Value(ctx)' = Value(c)  BY <1>1, ValueNext
<1>3. QED  BY <1>2, SentIsFinal

\* Without a greeted session nothing is promised.
LEMMA Gone == ASSUME session' # "greeted" PROVE UpToDate' /\ TextsUpToDate'
BY DEF UpToDate, TextsUpToDate

\* A step that takes no text away and adds none to show
LEMMA TextsStay ==
    ASSUME TextsUpToDate, UNCHANGED <<kind, slot_data>>,
           kind = "shop_text" =>
               /\ UNCHANGED <<queue, view>>
               /\ Value(ctx)' \subseteq Value(ctx)
               /\ session' = "greeted" => session = "greeted"
    PROVE  TextsUpToDate'
<1> SUFFICES ASSUME kind = "shop_text", session' = "greeted", NEW b \in Value(ctx)'
             PROVE  EndsShown(b)'
    BY DEF TextsUpToDate
<1>1. EndsShown(b)  BY DEF TextsUpToDate
<1>2. QED  BY <1>1 DEF EndsShown

\* A text and a blank differ, and two blanks are of one badge.
LEMMA Blanks ==
    \A a, b : <<a, "text">> # <<b, "">> /\ (<<a, "">> = <<b, "">> => a = b)
OBVIOUS

\* A message of texts is a pair.
LEMMA Pairs ==
    ASSUME NEW S, NEW T, NEW m \in S \X T
    PROVE  m = <<m[1], m[2]>> /\ m[1] \in S /\ m[2] \in T
OBVIOUS

\* A push of texts leaves those it sends, and those it need not send.
LEMMA TextsPushed ==
    ASSUME SyncTypeOK, kind = "shop_text", kind' = kind, view' = view,
           NEW c, NEW force \in BOOLEAN, PushText(c, force)
    PROVE  /\ queue' \in Seq(Messages')
           /\ last' \subseteq DOMAIN shop_badges
           /\ session # "none" =>
                 \A b \in BadgeShopText(c) : force \/ b \notin last \/ EndsShown(b) => EndsShown(b)'
<1> DEFINE texts == BadgeShopText(c)
           new == NewText(c, force)
           old == IF force THEN {} ELSE last \ texts
           A   == [n \in 1 .. Cardinality(new) |-> <<SetToSeq(new)[n], "text">>]
           B   == [n \in 1 .. Cardinality(old) |-> <<SetToSeq(old)[n], "">>]
           M   == (DOMAIN shop_badges) \X {"text", ""}
<1>1. last' = texts /\ queue' = IF session = "none" THEN queue ELSE queue \o (A \o B)
      BY DEF PushText, Send
<1>2. queue \in Seq(M) /\ Messages' = M /\ last \subseteq DOMAIN shop_badges
      BY DEF SyncTypeOK, Messages
<1>3. texts \subseteq DOMAIN shop_badges  BY DEF BadgeShopText
<1>4. new \subseteq texts /\ old \subseteq DOMAIN shop_badges /\ old \cap texts = {}
      BY <1>2 DEF NewText
<1>5. IsFiniteSet(new) /\ IsFiniteSet(old)  BY <1>3, <1>4, FewBadges
<1>6. force \/ (\A b \in texts : b \notin new => b \in last)  BY DEF NewText
<1>7. force => new = texts  BY DEF NewText
<1> HIDE DEF texts, new, old
<1>8. /\ Cardinality(new) \in Nat /\ SetToSeq(new) \in [1 .. Cardinality(new) -> new]
      /\ \A x \in new : \E n \in 1 .. Cardinality(new) : SetToSeq(new)[n] = x
      BY <1>5, Listed
<1>9. Cardinality(old) \in Nat /\ SetToSeq(old) \in [1 .. Cardinality(old) -> old]
      BY <1>5, Listed
<1>10. A \in Seq(M) /\ Len(A) = Cardinality(new)
       /\ \A n \in 1 .. Len(A) : A[n] = <<SetToSeq(new)[n], "text">>
  <2>1. \A n \in 1 .. Cardinality(new) : A[n] = <<SetToSeq(new)[n], "text">> /\ A[n] \in M
        BY <1>3, <1>4, <1>8
  <2>2. A \in [1 .. Cardinality(new) -> M]  BY <2>1
  <2> HIDE DEF A, M
  <2>3. A \in Seq(M) /\ Len(A) = Cardinality(new)  BY <1>8, <2>2, AsSeq, Zenon
  <2>4. QED  BY <2>1, <2>3
<1>11. B \in Seq(M) /\ Len(B) = Cardinality(old)
       /\ \A n \in 1 .. Len(B) : B[n] = <<SetToSeq(old)[n], "">>
  <2>1. \A n \in 1 .. Cardinality(old) : B[n] = <<SetToSeq(old)[n], "">> /\ B[n] \in M
        BY <1>4, <1>9
  <2>2. B \in [1 .. Cardinality(old) -> M]  BY <2>1
  <2> HIDE DEF B, M
  <2>3. B \in Seq(M) /\ Len(B) = Cardinality(old)  BY <1>9, <2>2, AsSeq, Zenon
  <2>4. QED  BY <2>1, <2>3
<1> HIDE DEF A, B, M
<1>12. ASSUME NEW b \in texts PROVE FreeOf(A \o B, <<b, "">>)
  <2>1. \A n \in 1 .. Len(A) : A[n] # <<b, "">>  BY <1>10, Blanks, Zenon
  <2>2. \A n \in 1 .. Len(B) : B[n] # <<b, "">>
    <3>1. \A n \in 1 .. Len(B) : SetToSeq(old)[n] # b  BY <1>4, <1>9, <1>11, <1>12
    <3>2. QED  BY <1>11, <3>1, Blanks, Zenon
  <2>3. FreeOf(A, <<b, "">>) /\ FreeOf(B, <<b, "">>)  BY <2>1, <2>2 DEF FreeOf
  <2>4. QED  BY <1>10, <1>11, <2>3, EndsAppended
<1>13. ASSUME NEW b \in new PROVE \E i \in 1 .. Len(A \o B) : (A \o B)[i] = <<b, "text">>
  <2>1. PICK n \in 1 .. Len(A) : SetToSeq(new)[n] = b  BY <1>8, <1>10, <1>13
  <2>2. Len(A) \in Nat /\ Len(B) \in Nat  BY <1>10, <1>11, LenProperties
  <2>3. /\ Len(A \o B) = Len(A) + Len(B)
        /\ \A i \in 1 .. Len(A) + Len(B) :
              (A \o B)[i] = IF i <= Len(A) THEN A[i] ELSE B[i - Len(A)]
        BY <1>10, <1>11, ConcatProperties
  <2>4. n \in 1 .. Len(A \o B) /\ (A \o B)[n] = A[n]
    <3> DEFINE T == A \o B
    <3> HIDE DEF T
    <3>1. QED  BY <2>1, <2>2, <2>3 DEF T
  <2>5. A[n] = <<b, "text">>  BY <1>10, <2>1
  <2>6. QED  BY <2>4, <2>5
<1>14. A \o B \in Seq(M)  BY <1>10, <1>11, ConcatProperties
<1>15. queue' \in Seq(Messages')  BY <1>1, <1>2, <1>14, ConcatProperties
<1>16. ASSUME session # "none", NEW b \in texts, force \/ b \notin last \/ EndsShown(b)
       PROVE  EndsShown(b)'
  <2>1. queue' = queue \o (A \o B)  BY <1>1, <1>16
  <2>2. CASE b \in new
    <3>1. EndsIn(queue', <<b, "text">>, <<b, "">>)
          BY <1>2, <1>12, <1>13, <1>14, <1>16, <2>1, <2>2, EndsAppended
    <3>2. QED  BY <3>1 DEF EndsShown
  <2>3. CASE b \notin new
    <3>1. EndsShown(b)  BY <1>6, <1>7, <1>16, <2>3
    <3>2. /\ FreeOf(queue, <<b, "">>) => FreeOf(queue', <<b, "">>)
          /\ EndsIn(queue, <<b, "text">>, <<b, "">>) => EndsIn(queue', <<b, "text">>, <<b, "">>)
          BY <1>2, <1>12, <1>14, <1>16, <2>1, EndsAppended
    <3>3. QED  BY <3>1, <3>2 DEF EndsShown
  <2>4. QED  BY <2>2, <2>3
<1>17. last' \subseteq DOMAIN shop_badges  BY <1>1, <1>3
<1>18. QED  BY <1>15, <1>16, <1>17 DEF texts

-----------------------------------------------------------------------------
(* The steps of the environment. *)

\* It holds at the start: nothing is known, promised or on its way.
LEMMA InitSyncIInv == SyncInit => SyncIInv
<1> SUFFICES ASSUME SyncInit PROVE SyncIInv  OBVIOUS
<1>1. SyncTypeOK
  <2>1. /\ server = {} /\ checked = {} /\ ap = "down" /\ session = "none" /\ queue = <<>>
        /\ ctx = NewContext /\ last = Boot
        BY DEF SyncInit
  <2>2. faults \in Nat /\ commands \in Nat
        BY ClientSyncAssumption DEF SyncInit, ClientSyncAssumption
  <2>3. ctx \in Contexts  BY <2>1 DEF NewContext, Contexts
  <2>4. queue \in Seq(Messages)  BY <2>1, EmptySeq
  <2>5. kind = "shop_text" => last \subseteq DOMAIN shop_badges  BY <2>1 DEF Boot
  <2>6. QED  BY <2>1, <2>2, <2>3, <2>4, <2>5 DEF SyncTypeOK
<1>2. UpToDate /\ TextsUpToDate  BY DEF SyncInit, UpToDate, TextsUpToDate
<1>3. ItemsKnown /\ MapsFirst  BY DEF SyncInit, NewContext, ItemsKnown, MapsFirst
<1>4. QED  BY <1>1, <1>2, <1>3 DEF SyncIInv

\* What the mod takes from the queue it has.
LEMMA DeliverSyncIInv == ASSUME SyncIInv, Deliver PROVE SyncIInv'
<1>1. SyncTypeOK /\ UpToDate /\ TextsUpToDate /\ ItemsKnown /\ MapsFirst  BY DEF SyncIInv
<1>2. /\ queue # <<>> /\ queue' = Tail(queue)
      /\ UNCHANGED <<kind, slot_data, server, checked, ap, ctx, last, session, faults, commands>>
      BY DEF Deliver, slotVars
<1>3. queue \in Seq(Messages)  BY <1>1 DEF SyncTypeOK
<1>4. /\ queue' \in Seq(Range(queue')) /\ queue' \in Seq(Messages)
      /\ Head(queue) = queue[1] /\ Head(queue) \in Messages
      /\ Len(queue) \in Nat \ {0} /\ Len(queue') = Len(queue) - 1
      /\ \A i \in 1 .. Len(queue) - 1 : queue'[i] = queue[i + 1]
      BY <1>2, <1>3, Taken
<1>5. SyncTypeOK'
  <2>1. queue' \in Seq(Messages')
    <3>1. CASE kind = "shop_text"  BY <1>2, <1>4, <3>1 DEF Messages
    <3>2. CASE kind # "shop_text"  BY <1>2, <1>4, <3>2 DEF Messages
    <3>3. QED  BY <3>1, <3>2
  <2>2. QED  BY <1>1, <1>2, <2>1 DEF SyncTypeOK
<1>6. UpToDate'
  <2>1. ASSUME kind \in Masks PROVE Final' = Final
    <3>1. view' = Head(queue)  BY <2>1 DEF Deliver, Masks
    <3>2. CASE queue' = <<>>
      <4>1. Len(queue') = 0  BY <3>2, EmptySeq
      <4>2. Len(queue) = 1  BY <1>4, <4>1
      <4>3. QED  BY <1>2, <1>4, <3>1, <3>2, <4>2 DEF Final
    <3>3. CASE queue' # <<>>
      <4>1. Len(queue') \in Nat \ {0}  BY <1>4, <3>3, EmptySeq
      <4>2. queue'[Len(queue')] = queue[Len(queue)]  BY <1>4, <4>1
      <4>3. QED  BY <1>2, <3>3, <4>2 DEF Final
    <3>4. QED  BY <3>2, <3>3
  <2>2. SameInputs(ctx, ctx')  BY <1>2 DEF SameInputs
  <2>3. Reached' => Reached  BY <1>2 DEF Reached
  <2>4. QED  BY <1>1, <1>2, <2>1, <2>2, <2>3, Stays
<1>7. TextsUpToDate'
  <2> SUFFICES ASSUME kind = "shop_text", session = "greeted", NEW b \in Value(ctx)'
               PROVE  EndsShown(b)'
      BY <1>2 DEF TextsUpToDate
  <2>1. Value(ctx)' = Value(ctx)  BY <1>2, ValueNext
  <2>2. EndsShown(b)  BY <1>1, <2>1 DEF TextsUpToDate
  <2> DEFINE x == <<b, "text">>
             y == <<b, "">>
             m == Head(queue)
  <2>3. m \in (DOMAIN shop_badges) \X {"text", ""}
    <3>1. Head(queue) \in Messages  BY <1>4
    <3>2. QED  BY <3>1 DEF Messages
  <2>4. view' = IF m[2] = "" THEN view \ {m[1]} ELSE view \cup {m[1]}  BY DEF Deliver
  <2> HIDE DEF m
  <2>5. m = <<m[1], m[2]>> /\ m[2] \in {"text", ""}  BY <2>3, Pairs, Zenon
  <2>6. m = x => m[1] = b /\ m[2] = "text"  OBVIOUS
  <2>7. (m = x => b \in view') /\ (m # y /\ b \in view => b \in view')
    <3>1. m = x => b \in view'  BY <2>4, <2>6
    <3>2. CASE m[2] = ""
      <4>1. m # y => m[1] # b  BY <2>5, <3>2, Zenon
      <4>2. QED  BY <2>4, <3>1, <3>2, <4>1
    <3>3. CASE m[2] # ""  BY <2>4, <3>1, <3>3
    <3>4. QED  BY <3>2, <3>3
  <2> HIDE DEF x, y
  <2>8. /\ FreeOf(queue, y) => m # y /\ FreeOf(queue', y)
        /\ EndsIn(queue, x, y) => EndsIn(queue', x, y) \/ (m = x /\ FreeOf(queue', y))
        BY <1>2, <1>3, EndsTaken DEF m
  <2>9. QED  BY <2>2, <2>7, <2>8 DEF EndsShown, x, y
<1>8. ItemsKnown' /\ MapsFirst'  BY <1>1, <1>2 DEF ItemsKnown, MapsFirst
<1>9. QED  BY <1>5, <1>6, <1>7, <1>8 DEF SyncIInv

\* Without a session nothing is promised.
LEMMA CutSyncIInv ==
    ASSUME SyncIInv, Install \/ LoseLink \/ RebootSwitch \/ RestartBridge
    PROVE  SyncIInv'
<1>1. SyncTypeOK /\ ItemsKnown /\ MapsFirst  BY DEF SyncIInv
<1>2. /\ UNCHANGED <<kind, slot_data, server, checked, commands>> /\ queue' = <<>>
      /\ session' \in {"none", "new"} /\ faults' \in Nat
      /\ \/ UNCHANGED <<ctx, ap, last>>
         \/ ctx' = NewContext /\ ap' = "down" /\ last' = Boot
      BY <1>1 DEF Install, LoseLink, RebootSwitch, RestartBridge, Fault, slotVars, SyncTypeOK
<1>3. SyncTypeOK'
  <2>1. NewContext \in Contexts  BY DEF NewContext, Contexts
  <2>5. ctx' \in Contexts /\ ap' \in {"down", "in", "dying"}
        BY <1>1, <1>2, <2>1 DEF SyncTypeOK
  <2>2. queue' \in Seq(Messages')  BY <1>2, EmptySeq
  <2>3. kind' = "shop_text" => last' \subseteq DOMAIN shop_badges
        BY <1>1, <1>2 DEF SyncTypeOK, Boot
  <2>4. QED  BY <1>1, <1>2, <2>5, <2>2, <2>3 DEF SyncTypeOK
<1>4. UpToDate' /\ TextsUpToDate'  BY <1>2, Gone
<1>5. ItemsKnown' /\ MapsFirst'
      BY <1>1, <1>2 DEF ItemsKnown, MapsFirst, NewContext
<1>6. QED  BY <1>3, <1>4, <1>5 DEF SyncIInv

\* AP gains items and checks, and its link goes down: the shops wait for the
\* next Connected, and items that were forgotten are not reached.
LEMMA ApSyncIInv ==
    ASSUME SyncIInv,
           \/ LoseAp \/ ApClosed
           \/ \E i \in Items : SendItem(i)
           \/ \E l \in Locations : Collect(l)
    PROVE  SyncIInv'
<1>1. SyncTypeOK /\ UpToDate /\ TextsUpToDate /\ ItemsKnown /\ MapsFirst  BY DEF SyncIInv
<1>2. UNCHANGED <<kind, slot_data, queue, view, last, session, commands>>
      BY DEF LoseAp, ApClosed, SendItem, Collect, lanVars
<1>3. /\ server \subseteq server' /\ server' \subseteq Items /\ checked' \subseteq Locations
      /\ ap' \in {"down", "in", "dying"} /\ (ap' = "in" => ap = "in") /\ faults' \in Nat
      /\ ap' # "down" => ap # "down"
      BY <1>1 DEF LoseAp, ApClosed, SendItem, Collect, Fault, SyncTypeOK, lanVars
<1>4. \/ ctx' = ctx
      \/ ctx' = [ctx EXCEPT !.batch = FALSE] /\ server' = server
      \/ ctx' = [ctx EXCEPT !.batch = FALSE, !.items_received = {}, !.locations_info = {}]
         /\ server' = server
      BY DEF LoseAp, ApClosed, SendItem, Collect
<1>5. ctx \in Contexts  BY <1>1 DEF SyncTypeOK
<1>6. /\ ctx' \in Contexts
      /\ \A f \in DOMAIN ctx \ {"batch", "items_received", "locations_info"} : ctx'[f] = ctx[f]
      /\ ctx'.items_received \in {{}, ctx.items_received}
      /\ ctx'.locations_info \in {{}, ctx.locations_info}
      BY <1>4, <1>5 DEF Contexts
<1>7. SyncTypeOK'
  <2>1. queue' \in Seq(Messages')  BY <1>1, <1>2, QueueType
  <2>2. QED  BY <1>1, <1>2, <1>3, <1>6, <2>1 DEF SyncTypeOK
<1>8. UpToDate'
  <2>1. ASSUME kind \in Masks, Reached'
        PROVE  Reached /\ SameInputs(ctx, ctx')
    <3>1. CASE kind \in {"badge_shop", "seed_shop"}
          BY <1>2, <1>3, <1>5, <1>6, <2>1, <3>1 DEF Reached, SameInputs, Contexts, Obtained
    <3>2. CASE kind = "routable"
          BY <1>2, <1>3, <1>5, <1>6, <2>1, <3>2 DEF Reached, SameInputs, Contexts
    <3>3. CASE kind \in {"badges", "deny", "charas", "seed_counts", "seed_bits"}
      <4>1. ctx'.items_received = server'  BY <1>2, <2>1, <3>3 DEF Reached
      <4>2. ctx'.items_received = ctx.items_received /\ ctx.items_received = server
            BY <1>1, <1>3, <1>6, <4>1 DEF ItemsKnown
      <4>3. QED  BY <1>5, <1>6, <3>3, <4>2 DEF Reached, SameInputs, Contexts
    <3>4. QED  BY <2>1, <3>1, <3>2, <3>3 DEF Masks
  <2>2. Final' = Final  BY <1>2 DEF Final
  <2>3. QED  BY <1>1, <1>2, <2>1, <2>2, Stays
<1>9. TextsUpToDate'
  <2>1. ASSUME kind = "shop_text" PROVE Value(ctx)' \subseteq Value(ctx)
    <3>1. Value(ctx)' = BadgeShopText(ctx') /\ Value(ctx) = BadgeShopText(ctx)
          BY <1>2, <2>1 DEF Value
    <3>2. ctx'.maps = ctx.maps /\ ctx'.locations_info \subseteq ctx.locations_info
          BY <1>5, <1>6 DEF Contexts
    <3>3. QED  BY <3>1, <3>2 DEF BadgeShopText
  <2>2. QED  BY <1>1, <1>2, <2>1, TextsStay
<1>10. ItemsKnown' /\ MapsFirst'
  <2>1. ctx'.maps = ctx.maps /\ ctx'.locations_info \subseteq ctx.locations_info
        BY <1>5, <1>6 DEF Contexts
  <2>2. QED  BY <1>1, <1>3, <1>6, <2>1 DEF ItemsKnown, MapsFirst
<1>11. QED  BY <1>7, <1>8, <1>9, <1>10 DEF SyncIInv

-----------------------------------------------------------------------------
(* The steps of the bridge. *)

\* A handler leaves context c, and pushes its value or has not changed it.
LEMMA Handled ==
    ASSUME SyncIInv, NEW c \in Contexts, ctx' = c,
           UNCHANGED <<kind, slot_data, server, session, view, faults>>,
           commands' \in Nat, commands' = 0 => commands = 0,
           checked' \subseteq Locations, ap' \in {"down", "in", "dying"},
           c.items_received \subseteq server,
           ap' # "down" \/ c.locations_info # {} => c.maps,
           kind # "shop_text" =>
               \/ Send(<<Value(c)>>)
               \/ queue' = queue /\ (kind \in Masks /\ Reached' /\ Value(c) # Boot =>
                                        SameInputs(ctx, c) /\ Reached)
               \/ (\E v : Send(<<v>>)) /\ ~(kind \in Prompt' /\ Reached'),
           kind = "shop_text" =>
               \/ PushText(c, TRUE)
               \/ UNCHANGED <<queue, last>> /\ BadgeShopText(c) \subseteq BadgeShopText(ctx)
    PROVE  SyncIInv'
<1>1. SyncTypeOK /\ UpToDate /\ TextsUpToDate /\ ItemsKnown /\ MapsFirst  BY DEF SyncIInv
<1>2. queue' \in Seq(Messages') /\ (kind' = "shop_text" => last' \subseteq DOMAIN shop_badges)
  <2>1. CASE kind = "shop_text"
    <3>1. CASE PushText(c, TRUE)  BY <1>1, <2>1, <3>1, TextsPushed
    <3>2. CASE UNCHANGED <<queue, last>>  BY <1>1, <2>1, <3>2, QueueType DEF SyncTypeOK
    <3>3. QED  BY <2>1, <3>1, <3>2
  <2>2. CASE kind # "shop_text"
    <3>1. queue' = queue \/ \E v : Send(<<v>>)  BY <2>2
    <3>2. QED  BY <1>1, <2>2, <3>1, QueueType
  <2>3. QED  BY <2>1, <2>2
<1>3. SyncTypeOK'  BY <1>1, <1>2 DEF SyncTypeOK
<1>4. UpToDate'
  <2>1. CASE kind = "shop_text"  BY <2>1, PromptKinds DEF UpToDate, Prompt
  <2>2. CASE Send(<<Value(c)>>)
    <3>1. session' = "greeted" => session # "none"  OBVIOUS
    <3>2. QED  BY <1>1, <2>2, <3>1, Shows
  <2>3. CASE queue' = queue /\ (kind \in Masks /\ Reached' /\ Value(c) # Boot =>
                                   SameInputs(ctx, c) /\ Reached)
    <3>1. Final' = Final  BY <2>3 DEF Final
    <3>2. session' = "greeted" => session = "greeted"  OBVIOUS
    <3>3. kind \in Masks /\ Reached' /\ Value(ctx') # Boot =>
              SameInputs(ctx, ctx') /\ Reached /\ Final' = Final
          BY <2>3, <3>1
    <3>4. QED  BY <1>1, <3>2, <3>3, Stays
  <2>4. CASE ~(kind \in Prompt' /\ Reached')  BY <2>4 DEF UpToDate
  <2>5. QED  BY <2>1, <2>2, <2>3, <2>4
<1>5. TextsUpToDate'
  <2> SUFFICES ASSUME kind = "shop_text", session = "greeted", NEW b \in Value(ctx)'
               PROVE  EndsShown(b)'
      BY DEF TextsUpToDate
  <2>1. Value(ctx)' = BadgeShopText(c) /\ Value(ctx) = BadgeShopText(ctx)  BY DEF Value
  <2>2. CASE PushText(c, TRUE)  BY <1>1, <2>1, <2>2, TextsPushed
  <2>3. CASE UNCHANGED <<queue, last>> /\ BadgeShopText(c) \subseteq BadgeShopText(ctx)
    <3>1. Value(ctx)' \subseteq Value(ctx)  BY <2>1, <2>3
    <3>2. QED  BY <1>1, <2>3, <3>1, TextsStay DEF TextsUpToDate
  <2>4. QED  BY <2>2, <2>3
<1>6. ItemsKnown' /\ MapsFirst'  BY DEF ItemsKnown, MapsFirst
<1>7. QED  BY <1>3, <1>4, <1>5, <1>6 DEF SyncIInv

\* The Hello and the tick replay what they do not skip.
LEMMA ReplaySyncIInv == ASSUME SyncIInv, HandleHello \/ Tick PROVE SyncIInv'
<1>1. SyncTypeOK /\ UpToDate /\ TextsUpToDate /\ ItemsKnown /\ MapsFirst  BY DEF SyncIInv
<1>2. UNCHANGED <<kind, slot_data, server, checked, ap, ctx, view, faults, commands>>
      BY DEF HandleHello, Tick, slotVars
<1>3. PICK hello \in BOOLEAN :
          /\ Replay(ctx, hello) /\ session # "none" /\ session' \in {session, "greeted"}
          /\ ~hello /\ session' = "greeted" => session = "greeted"
      BY DEF HandleHello, Tick
<1>4. CASE kind = "shop_text"
  <2>1. PushText(ctx, hello)  BY <1>3, <1>4 DEF Replay
  <2>2. /\ queue' \in Seq(Messages') /\ last' \subseteq DOMAIN shop_badges
        /\ \A b \in BadgeShopText(ctx) : hello \/ b \notin last \/ EndsShown(b) => EndsShown(b)'
        BY <1>1, <1>2, <1>3, <1>4, <2>1, TextsPushed
  <2>3. SyncTypeOK'  BY <1>1, <1>2, <1>3, <2>2 DEF SyncTypeOK
  <2>4. UpToDate'  BY <1>2, <1>4 DEF UpToDate, Prompt
  <2>5. TextsUpToDate'
    <3> SUFFICES ASSUME session' = "greeted", NEW b \in Value(ctx)' PROVE EndsShown(b)'
        BY DEF TextsUpToDate
    <3>1. b \in BadgeShopText(ctx) /\ b \in Value(ctx)  BY <1>2, <1>4 DEF Value
    <3>2. hello \/ EndsShown(b)  BY <1>1, <1>3, <1>4, <3>1 DEF TextsUpToDate
    <3>3. QED  BY <2>2, <3>1, <3>2
  <2>6. QED  BY <1>1, <1>2, <2>3, <2>4, <2>5 DEF SyncIInv, ItemsKnown, MapsFirst
<1>5. CASE kind # "shop_text"
  <2>1. \/ Send(<<Value(ctx)>>)
        \/ kind \in Masks /\ Value(ctx) = Boot /\ queue' = queue
        \/ kind \notin Masks /\ (queue' = queue \/ \E v : Send(<<v>>))
    <3>1. CASE kind \in Masks
      <4>1. IF Skipped(Value(ctx)) THEN queue' = queue ELSE Push(Value(ctx))
            BY <1>3, <3>1 DEF Replay, Masks
      <4>2. Skipped(Value(ctx)) => Value(ctx) = Boot
        <5>1. kind \in {"deny", "charas"} => Boot = {}  BY DEF Boot
        <5>2. CASE kind = "badge_shop"
          <6>1. Boot = [managed |-> {}, sold |-> {}]  BY <5>2 DEF Boot
          <6>2. Value(ctx) = BadgeShopState(ctx)  BY <5>2 DEF Value
          <6>3. QED  BY <5>2, <6>1, <6>2 DEF BadgeShopState, Skipped
        <5>3. CASE kind = "seed_shop"
          <6>1. Boot = [managed |-> {}, sold |-> {}]  BY <5>3 DEF Boot
          <6>2. Value(ctx) = SeedShopState(ctx)  BY <5>3 DEF Value
          <6>3. QED  BY <5>3, <6>1, <6>2 DEF SeedShopState, Skipped
        <5>4. QED  BY <5>1, <5>2, <5>3 DEF Skipped, Remembered
      <4>3. QED  BY <3>1, <4>1, <4>2 DEF Push
    <3>2. CASE kind \notin Masks  BY <1>3, <1>5, <3>2 DEF Replay, Push
    <3>3. QED  BY <3>1, <3>2
  <2>2. queue' \in Seq(Messages')
    <3>1. queue' = queue \/ \E v : Send(<<v>>)  BY <2>1
    <3>2. QED  BY <1>1, <1>2, <1>5, <3>1, QueueType
  <2>3. SyncTypeOK'  BY <1>1, <1>2, <1>3, <1>5, <2>2 DEF SyncTypeOK
  <2>4. UpToDate'
    <3>1. CASE Send(<<Value(ctx)>>)  BY <1>1, <1>2, <1>3, <3>1, Shows
    <3>2. CASE kind \in Masks /\ Value(ctx) = Boot
      <4>1. Value(ctx)' = Value(ctx) /\ Boot' = Boot  BY <1>2, <3>2, ValueNext
      <4>2. QED  BY <3>2, <4>1 DEF UpToDate
    <3>3. CASE kind \notin Masks  BY <1>2, <3>3 DEF UpToDate, Prompt, Masks
    <3>4. QED  BY <2>1, <3>1, <3>2, <3>3
  <2>5. TextsUpToDate'  BY <1>2, <1>5 DEF TextsUpToDate
  <2>6. QED  BY <1>1, <1>2, <2>3, <2>4, <2>5 DEF SyncIInv, ItemsKnown, MapsFirst
<1>6. QED  BY <1>4, <1>5

\* AP's packets, up to update_death_link: the shops are not reached until the
\* rest of the Connected handler has run.
LEMMA ArrivesSyncIInv ==
    ASSUME SyncIInv, HandleDataPackage \/ Accepted PROVE SyncIInv'
<1>1. SyncTypeOK /\ ItemsKnown /\ MapsFirst  BY DEF SyncIInv
<1>2. ctx \in Contexts /\ checked \subseteq Locations /\ commands \in Nat
      BY <1>1 DEF SyncTypeOK
<1>3. /\ UNCHANGED <<kind, slot_data, server, session, view, faults, commands, queue, last>>
      /\ \/ /\ ctx' = [ctx EXCEPT !.maps = TRUE] /\ ap = "down"
            /\ ap' = ap /\ checked' = checked
         \/ /\ ctx' = [ctx EXCEPT !.connecting = TRUE, !.batch = server # {},
                                  !.checked_locations = checked,
                                  !.server_locations = SeedLocations, !.maps = TRUE]
            /\ ap' = "in" /\ checked' = checked \cup (ctx.sent_loc_ids \cap SeedLocations)
      BY DEF HandleDataPackage, Accepted, slotVars, lanVars
<1>4. SeedLocations \subseteq Locations  BY ClientSyncAssumption DEF ClientSyncAssumption
<1>5. /\ ctx' \in Contexts /\ ctx'.maps /\ checked' \subseteq Locations
      /\ ap' \in {"down", "in", "dying"} /\ (ap' = "in" => ctx'.connecting)
  <2>1. CASE ctx' = [ctx EXCEPT !.maps = TRUE] /\ ap = "down" /\ ap' = ap /\ checked' = checked
        BY <1>2, <2>1 DEF Contexts
  <2>2. CASE /\ ctx' = [ctx EXCEPT !.connecting = TRUE, !.batch = server # {},
                                   !.checked_locations = checked,
                                   !.server_locations = SeedLocations, !.maps = TRUE]
             /\ ap' = "in" /\ checked' = checked \cup (ctx.sent_loc_ids \cap SeedLocations)
    <3>1. (server # {}) \in BOOLEAN  OBVIOUS
    <3>2. ctx' \in Contexts /\ ctx'.maps /\ ctx'.connecting
          BY <1>2, <1>4, <2>2, <3>1 DEF Contexts
    <3>3. checked' \subseteq Locations  BY <1>2, <1>4, <2>2
    <3>4. QED  BY <2>2, <3>2, <3>3
  <2>3. QED  BY <1>3, <2>1, <2>2
<1>6. /\ ctx'.items_received = ctx.items_received /\ ctx'.probe_mask = ctx.probe_mask
      /\ ctx'.applied = ctx.applied /\ ctx'.deny_override = ctx.deny_override
      /\ ctx'.bowser_opened = ctx.bowser_opened /\ ctx'.locations_info = ctx.locations_info
      BY <1>2, <1>3 DEF Contexts
<1>7. kind \in Masks /\ Reached' => SameInputs(ctx, ctx') /\ Reached
      BY <1>3, <1>5, <1>6 DEF Masks, Reached, SameInputs
<1>8. BadgeShopText(ctx') \subseteq BadgeShopText(ctx)
  <2>1. ctx.locations_info # {} => ctx.maps  BY <1>1 DEF MapsFirst
  <2>2. QED  BY <1>6, <2>1 DEF BadgeShopText
<1>9. ctx'.items_received \subseteq server  BY <1>1, <1>6 DEF ItemsKnown
<1>10. QED  BY <1>2, <1>3, <1>5, <1>7, <1>8, <1>9, Handled

\* The rest of the Connected handler pushes what its slot_data may change.
LEMMA ConnectedSyncIInv == ASSUME SyncIInv, HandleConnected PROVE SyncIInv'
<1> DEFINE c == [ctx EXCEPT !.connecting = FALSE, !.applied = TRUE,
                            !.pending = {}, !.flushing = @ \cup ctx.pending,
                            !.bowser_opened = /\ slot_data.open_world /\ slot_data.castle_unlock
                                              /\ ~slot_data.unlock_items]
<1>1. SyncTypeOK /\ ItemsKnown /\ MapsFirst  BY DEF SyncIInv
<1>2. ctx \in Contexts /\ checked \subseteq Locations /\ commands \in Nat
      /\ ap \in {"down", "in", "dying"}
      BY <1>1 DEF SyncTypeOK
<1>3. /\ ctx' = c /\ UNCHANGED <<kind, slot_data, server, checked, ap, session, view, faults, commands>>
      /\ IF kind \in ConnectedPushes THEN Push(Value(c)) ELSE UNCHANGED <<queue, last>>
      BY DEF HandleConnected, slotVars
<1>4. /\ c \in Contexts /\ c.maps = ctx.maps /\ c.locations_info = ctx.locations_info
      /\ c.items_received = ctx.items_received /\ c.probe_mask = ctx.probe_mask
      BY <1>2 DEF Contexts
<1> HIDE DEF c
<1>5. c.items_received \subseteq server /\ (ap' # "down" \/ c.locations_info # {} => c.maps)
      BY <1>1, <1>3, <1>4 DEF ItemsKnown, MapsFirst
<1>6. BadgeShopText(c) \subseteq BadgeShopText(ctx)  BY <1>4 DEF BadgeShopText
<1>7. ASSUME kind # "shop_text"
      PROVE  \/ Send(<<Value(c)>>)
             \/ queue' = queue /\ (kind \in Masks /\ Reached' /\ Value(c) # Boot =>
                                      SameInputs(ctx, c) /\ Reached)
  <2>1. CASE kind \in ConnectedPushes  BY <1>3, <2>1 DEF Push
  <2>2. CASE kind \in {"badges", "seed_counts", "seed_bits"} /\ queue' = queue
        BY <1>3, <1>4, <2>2 DEF Reached, SameInputs
  <2>3. CASE kind = "routable" /\ kind \notin ConnectedPushes
    <3>1. Value(c) = {} /\ Boot = {}
          BY <2>3 DEF ConnectedPushes, Value, RoutableWorlds, Boot
    <3>2. QED  BY <1>3, <2>3, <3>1
  <2>4. CASE kind \notin Masks /\ kind \notin ConnectedPushes  BY <1>3, <2>4
  <2>5. QED  BY <1>3, <2>1, <2>2, <2>3, <2>4 DEF ConnectedPushes, Masks
<1>8. kind = "shop_text" => UNCHANGED <<queue, last>>  BY <1>3 DEF ConnectedPushes
<1>9. QED  BY <1>2, <1>3, <1>4, <1>5, <1>6, <1>7, <1>8, Handled

\* Received items push all that is computed from them; the castle is pushed
\* when it opens.
LEMMA ReceivedSyncIInv == ASSUME SyncIInv, HandleReceivedItems PROVE SyncIInv'
<1> DEFINE got   == [ctx EXCEPT !.batch = FALSE, !.items_received = server]
           opens == CastleUnlocked(got) /\ ~ctx.bowser_opened
           c     == [got EXCEPT !.bowser_opened = ctx.bowser_opened \/ opens]
<1>1. SyncTypeOK /\ MapsFirst  BY DEF SyncIInv
<1>2. ctx \in Contexts /\ checked \subseteq Locations /\ commands \in Nat
      /\ ap \in {"down", "in", "dying"} /\ server \subseteq Items
      BY <1>1 DEF SyncTypeOK
<1>3. /\ ctx' = c /\ UNCHANGED <<kind, slot_data, server, checked, ap, session, view, faults, commands>>
      /\ IF kind \in ReceivedItemsPushes \/ (kind = "routable" /\ opens)
         THEN Push(Value(c)) ELSE UNCHANGED <<queue, last>>
      BY DEF HandleReceivedItems, slotVars
<1> HIDE DEF opens
<1>4. /\ c \in Contexts /\ c.maps = ctx.maps /\ c.locations_info = ctx.locations_info
      /\ c.items_received = server /\ c.applied = ctx.applied /\ c.connecting = ctx.connecting
      /\ c.checked_locations = ctx.checked_locations /\ c.sent_loc_ids = ctx.sent_loc_ids
      /\ c.server_locations = ctx.server_locations
      /\ ~opens => c.bowser_opened = ctx.bowser_opened
      BY <1>2 DEF Contexts
<1> HIDE DEF c
<1>5. ap' # "down" \/ c.locations_info # {} => c.maps  BY <1>1, <1>3, <1>4 DEF MapsFirst
<1>6. BadgeShopText(c) \subseteq BadgeShopText(ctx)  BY <1>4 DEF BadgeShopText
<1>7. ASSUME kind # "shop_text"
      PROVE  \/ Send(<<Value(c)>>)
             \/ queue' = queue /\ (kind \in Masks /\ Reached' /\ Value(c) # Boot =>
                                      SameInputs(ctx, c) /\ Reached)
  <2>1. CASE kind \in ReceivedItemsPushes \/ (kind = "routable" /\ opens)
        BY <1>3, <2>1 DEF Push
  <2>2. CASE kind = "routable" /\ ~opens
    <3>1. queue' = queue  BY <1>3, <2>2 DEF ReceivedItemsPushes
    <3>2. SameInputs(ctx, c) /\ Reached  BY <1>4, <2>2 DEF SameInputs, Reached
    <3>3. QED  BY <3>1, <3>2
  <2>3. CASE kind \in {"badge_shop", "seed_shop"}
    <3>1. queue' = queue  BY <1>3, <2>3 DEF ReceivedItemsPushes
    <3>2. Reached' => SameInputs(ctx, c) /\ Reached
          BY <1>3, <1>4, <2>3 DEF SameInputs, Reached, Obtained
    <3>3. QED  BY <3>1, <3>2
  <2>4. CASE kind \notin Masks /\ kind \notin ReceivedItemsPushes
        BY <1>3, <2>4 DEF Masks
  <2>5. QED  BY <2>1, <2>2, <2>3, <2>4 DEF ReceivedItemsPushes, Masks
<1>8. kind = "shop_text" => UNCHANGED <<queue, last>>  BY <1>3 DEF ReceivedItemsPushes
<1>9. QED  BY <1>2, <1>3, <1>4, <1>5, <1>6, <1>7, <1>8, Handled

\* Confirmed checks push the shops, and what was scouted its texts.
LEMMA UpdatedSyncIInv ==
    ASSUME SyncIInv, HandleRoomUpdate \/ HandleLocationInfo PROVE SyncIInv'
<1>1. SyncTypeOK /\ ItemsKnown /\ MapsFirst  BY DEF SyncIInv
<1>2. ctx \in Contexts /\ checked \subseteq Locations /\ commands \in Nat
      /\ ap \in {"down", "in", "dying"}
      BY <1>1 DEF SyncTypeOK
<1>3. UNCHANGED <<kind, slot_data, server, checked, ap, session, view, faults, commands>>
      /\ ap = "in"
      BY DEF HandleRoomUpdate, HandleLocationInfo, slotVars
<1>4. CASE HandleRoomUpdate
  <2> DEFINE c == [ctx EXCEPT !.checked_locations = checked]
  <2>1. /\ ctx' = c
        /\ IF kind \in {"badge_shop", "seed_shop"} THEN Push(Value(c)) ELSE UNCHANGED <<queue, last>>
        BY <1>4 DEF HandleRoomUpdate
  <2>2. /\ c \in Contexts /\ c.maps = ctx.maps /\ c.locations_info = ctx.locations_info
        /\ c.items_received = ctx.items_received /\ c.applied = ctx.applied
        /\ c.probe_mask = ctx.probe_mask /\ c.deny_override = ctx.deny_override
        /\ c.bowser_opened = ctx.bowser_opened
        BY <1>2 DEF Contexts
  <2> HIDE DEF c
  <2>3. c.items_received \subseteq server /\ (ap' # "down" \/ c.locations_info # {} => c.maps)
        BY <1>1, <1>3, <2>2 DEF ItemsKnown, MapsFirst
  <2>4. BadgeShopText(c) \subseteq BadgeShopText(ctx)  BY <2>2 DEF BadgeShopText
  <2>5. \/ Send(<<Value(c)>>)
        \/ queue' = queue /\ (kind \in Masks /\ Reached' => SameInputs(ctx, c) /\ Reached)
    <3>1. CASE kind \in {"badge_shop", "seed_shop"}  BY <2>1, <3>1 DEF Push
    <3>2. CASE kind \notin {"badge_shop", "seed_shop"}
      <4>1. queue' = queue  BY <2>1, <3>2
      <4>2. kind \in Masks /\ Reached' => SameInputs(ctx, c) /\ Reached
            BY <1>3, <2>1, <2>2, <3>2 DEF Masks, SameInputs, Reached
      <4>3. QED  BY <4>1, <4>2
    <3>3. QED  BY <3>1, <3>2
  <2>6. kind = "shop_text" => UNCHANGED <<queue, last>>  BY <2>1
  <2>7. QED  BY <1>2, <1>3, <2>1, <2>2, <2>3, <2>4, <2>5, <2>6, Handled
<1>5. CASE HandleLocationInfo
  <2> DEFINE c == [ctx EXCEPT !.locations_info = ScoutedLocations]
  <2>1. /\ ctx' = c
        /\ IF kind = "shop_text" THEN PushText(c, TRUE) ELSE UNCHANGED <<queue, last>>
        BY <1>5 DEF HandleLocationInfo
  <2>2. ScoutedLocations \subseteq Locations  BY DEF ScoutedLocations, Locations
  <2>3. /\ c \in Contexts /\ c.maps = ctx.maps /\ c.connecting = ctx.connecting
        /\ c.items_received = ctx.items_received /\ c.applied = ctx.applied
        /\ c.probe_mask = ctx.probe_mask /\ c.deny_override = ctx.deny_override
        /\ c.bowser_opened = ctx.bowser_opened
        /\ c.checked_locations = ctx.checked_locations /\ c.sent_loc_ids = ctx.sent_loc_ids
        /\ c.server_locations = ctx.server_locations
        BY <1>2, <2>2 DEF Contexts
  <2> HIDE DEF c
  <2>4. c.items_received \subseteq server /\ (ap' # "down" \/ c.locations_info # {} => c.maps)
        BY <1>1, <1>3, <2>3 DEF ItemsKnown, MapsFirst
  <2>5. ASSUME kind # "shop_text"
        PROVE  queue' = queue /\ (kind \in Masks /\ Reached' => SameInputs(ctx, c) /\ Reached)
    <3>1. queue' = queue  BY <2>1, <2>5
    <3>2. kind \in Masks /\ Reached' => SameInputs(ctx, c) /\ Reached
          BY <1>3, <2>1, <2>3 DEF Masks, SameInputs, Reached, Obtained
    <3>3. QED  BY <3>1, <3>2
  <2>6. QED  BY <1>2, <1>3, <2>1, <2>3, <2>4, <2>5, Handled
<1>6. QED  BY <1>4, <1>5

-----------------------------------------------------------------------------
(* Checks, the console and AP. *)

\* What the check of a location leaves
LEMMA EmittedSyncIInv ==
    ASSUME SyncIInv, NEW l \in Locations, NEW e \in SUBSET Locations, NEW f \in SUBSET Locations,
           CheckEmitted([ctx EXCEPT !.emitted = e, !.flushing = f], l),
           UNCHANGED <<kind, slot_data, server, ap, session, view, faults, commands>>
    PROVE  SyncIInv'
<1> DEFINE d == [ctx EXCEPT !.emitted = e, !.flushing = f]
           waits == [d EXCEPT !.pending = @ \cup {l}]
           known == [d EXCEPT !.sent_loc_ids = @ \cup {l}]
<1>1. SyncTypeOK /\ ItemsKnown /\ MapsFirst  BY DEF SyncIInv
<1>2. ctx \in Contexts /\ checked \subseteq Locations /\ commands \in Nat
      /\ ap \in {"down", "in", "dying"}
      BY <1>1 DEF SyncTypeOK
<1>3. ctx' \in {d, waits, known} /\ checked' \subseteq Locations  BY <1>2 DEF CheckEmitted
<1>4. /\ \A c \in {d, waits, known} :
             /\ c \in Contexts /\ c.maps = ctx.maps /\ c.items_received = ctx.items_received
             /\ c.connecting = ctx.connecting /\ c.applied = ctx.applied
             /\ c.bowser_opened = ctx.bowser_opened /\ c.probe_mask = ctx.probe_mask
             /\ c.deny_override = ctx.deny_override
             /\ c.locations_info = ctx.locations_info
             /\ c.server_locations = ctx.server_locations
             /\ c.checked_locations = ctx.checked_locations
      /\ d.sent_loc_ids = ctx.sent_loc_ids /\ waits.sent_loc_ids = ctx.sent_loc_ids
      /\ known.sent_loc_ids = ctx.sent_loc_ids \cup {l}
  <2> DEFINE Like(c) == /\ c.maps = ctx.maps /\ c.items_received = ctx.items_received
                        /\ c.connecting = ctx.connecting /\ c.applied = ctx.applied
                        /\ c.bowser_opened = ctx.bowser_opened /\ c.probe_mask = ctx.probe_mask
                        /\ c.deny_override = ctx.deny_override
                        /\ c.locations_info = ctx.locations_info
                        /\ c.server_locations = ctx.server_locations
                        /\ c.checked_locations = ctx.checked_locations
  <2>1. d \in Contexts /\ Like(d) /\ d.sent_loc_ids = ctx.sent_loc_ids
        BY <1>2 DEF Contexts
  <2> HIDE DEF d
  <2>2. waits \in Contexts /\ Like(waits) /\ waits.sent_loc_ids = ctx.sent_loc_ids
        BY <2>1 DEF Contexts
  <2>3. known \in Contexts /\ Like(known) /\ known.sent_loc_ids = ctx.sent_loc_ids \cup {l}
        BY <2>1 DEF Contexts
  <2> HIDE DEF waits, known
  <2>4. QED  BY <2>1, <2>2, <2>3
<1>5. \/ ctx' \in {d, waits} /\ UNCHANGED <<queue, last>>
      \/ /\ IF kind \in PushesCheck(l) THEN Push(Value(known)) ELSE UNCHANGED <<queue, last>>
         /\ ctx' = IF ap = "dying" THEN d ELSE known
      BY DEF CheckEmitted
<1> HIDE DEF d, waits, known
<1> DEFINE c == ctx'
<1>6. c \in Contexts /\ c.items_received \subseteq server /\ (ap' # "down" \/ c.locations_info # {} => c.maps)
      BY <1>1, <1>3, <1>4 DEF ItemsKnown, MapsFirst
<1>7. BadgeShopText(c) \subseteq BadgeShopText(ctx)  BY <1>3, <1>4 DEF BadgeShopText
<1>8. PushesCheck(l) \subseteq {"badge_shop", "seed_shop"}  BY DEF PushesCheck
<1>9. kind \in {"badge_shop", "seed_shop"} /\ kind \notin PushesCheck(l) => l \notin FeedingLocations
      BY DEF PushesCheck, FeedingLocations
<1>10. ASSUME c.sent_loc_ids = ctx.sent_loc_ids \/ kind \notin PushesCheck(l)
       PROVE  kind \in Masks /\ Reached' => SameInputs(ctx, c) /\ Reached
  <2>1. kind \in {"badge_shop", "seed_shop"} =>
            Obtained(ctx) \cap FeedingLocations = Obtained(c) \cap FeedingLocations
        BY <1>3, <1>4, <1>9, <1>10 DEF Obtained
  <2>2. SameInputs(ctx, c)  BY <1>3, <1>4, <2>1 DEF SameInputs
  <2>3. Reached' => Reached  BY <1>3, <1>4 DEF Reached
  <2>4. QED  BY <2>2, <2>3
<1>11. ASSUME kind # "shop_text"
       PROVE  \/ Send(<<Value(c)>>)
              \/ queue' = queue /\ (kind \in Masks /\ Reached' /\ Value(c) # Boot =>
                                       SameInputs(ctx, c) /\ Reached)
              \/ (\E v : Send(<<v>>)) /\ ~(kind \in Prompt' /\ Reached')
  <2>1. CASE ctx' \in {d, waits} /\ UNCHANGED <<queue, last>>
    <3>1. c.sent_loc_ids = ctx.sent_loc_ids  BY <1>4, <2>1
    <3>2. QED  BY <1>10, <2>1, <3>1
  <2>2. CASE kind \notin PushesCheck(l) /\ UNCHANGED <<queue, last>>  BY <1>10, <2>2
  <2>3. CASE kind \in PushesCheck(l) /\ Push(Value(known)) /\ ap # "dying" /\ ctx' = known
        BY <2>3 DEF Push
  <2>4. CASE kind \in PushesCheck(l) /\ Push(Value(known)) /\ ap = "dying"
    <3>1. ~Reached'  BY <1>8, <2>4 DEF Reached
    <3>2. \E v : Send(<<v>>)  BY <2>4 DEF Push
    <3>3. QED  BY <3>1, <3>2
  <2>5. QED  BY <1>5, <2>1, <2>2, <2>3, <2>4
<1>12. kind = "shop_text" => UNCHANGED <<queue, last>>  BY <1>5, <1>8
<1> HIDE DEF c
<1>13. ctx' = c  BY DEF c
<1>14. QED  BY <1>2, <1>3, <1>6, <1>7, <1>11, <1>12, <1>13, Handled

\* A check, emitted or taken from the ones that waited
LEMMA ChecksSyncIInv ==
    ASSUME SyncIInv, NEW l \in Locations, HandleCheckEmitted(l) \/ FlushPending(l)
    PROVE  SyncIInv'
<1>1. ctx \in Contexts  BY DEF SyncIInv, SyncTypeOK
<1>2. /\ ctx.emitted \subseteq Locations /\ ctx.flushing \subseteq Locations
      /\ ctx = [ctx EXCEPT !.emitted = ctx.emitted, !.flushing = ctx.flushing]
      BY <1>1 DEF Contexts
<1>3. CASE HandleCheckEmitted(l)
  <2> DEFINE e == ctx.emitted \cup {l}
             f == ctx.flushing
  <2>1. [ctx EXCEPT !.emitted = @ \cup {l}] = [ctx EXCEPT !.emitted = e, !.flushing = f]
        BY <1>1 DEF Contexts
  <2>2. e \in SUBSET Locations /\ f \in SUBSET Locations  BY <1>2
  <2>3. CheckEmitted([ctx EXCEPT !.emitted = e, !.flushing = f], l)
        BY <1>3, <2>1 DEF HandleCheckEmitted
  <2>4. UNCHANGED <<kind, slot_data, server, ap, session, view, faults, commands>>
        BY <1>3 DEF HandleCheckEmitted
  <2> HIDE DEF e, f
  <2>5. QED  BY <2>2, <2>3, <2>4, EmittedSyncIInv
<1>4. CASE FlushPending(l)
  <2> DEFINE e == ctx.emitted
             f == ctx.flushing \ {l}
  <2>1. [ctx EXCEPT !.flushing = @ \ {l}] = [ctx EXCEPT !.emitted = e, !.flushing = f]
        BY <1>1 DEF Contexts
  <2>2. e \in SUBSET Locations /\ f \in SUBSET Locations  BY <1>2
  <2>3. CheckEmitted([ctx EXCEPT !.emitted = e, !.flushing = f], l)
        BY <1>4, <2>1 DEF FlushPending
  <2>4. UNCHANGED <<kind, slot_data, server, ap, session, view, faults, commands>>
        BY <1>4 DEF FlushPending
  <2> HIDE DEF e, f
  <2>5. QED  BY <2>2, <2>3, <2>4, EmittedSyncIInv
<1>5. QED  BY <1>3, <1>4

\* A command leaves the context it leaves, and what it sends is its value or
\* of a kind that is not promised.
LEMMA Commanded ==
    ASSUME SyncIInv, NEW kinds, Command(kinds), "shop_text" \notin kinds,
           NEW c \in Contexts, ctx' = c, c.items_received = ctx.items_received,
           c.locations_info = ctx.locations_info, c.maps = ctx.maps,
           c.connecting = ctx.connecting,
           \/ Send(<<Value(c)>>)
           \/ queue' = queue /\ SameInputs(ctx, c)
           \/ (\E v : Send(<<v>>)) /\ kind \notin Prompt'
    PROVE  SyncIInv'
<1>1. SyncTypeOK /\ ItemsKnown /\ MapsFirst  BY DEF SyncIInv
<1>2. /\ checked \subseteq Locations /\ commands \in Nat /\ ap \in {"down", "in", "dying"}
      BY <1>1 DEF SyncTypeOK
<1>3. /\ UNCHANGED <<kind, slot_data, server, checked, ap, session, view, faults>>
      /\ commands' = commands + 1 /\ kind # "shop_text"
      BY DEF Command, slotVars
<1>4. commands' \in Nat /\ (commands' = 0 => commands = 0)  BY <1>2, <1>3
<1>5. Reached' => Reached  BY <1>3 DEF Reached
<1>6. c.items_received \subseteq server /\ (ap' # "down" \/ c.locations_info # {} => c.maps)
      BY <1>1, <1>3 DEF ItemsKnown, MapsFirst
<1>7. QED  BY <1>2, <1>3, <1>4, <1>5, <1>6, Handled

\* There is a least bit.
LEMMA LeastBit == ASSUME NEW S \in SUBSET Bits, S # {} PROVE Min(S) \in S
<1> DEFINE R == {p \in Nat \X Nat : p[1] < p[2]}
<1>1. S \subseteq Nat  BY ClientSyncAssumption DEF ClientSyncAssumption, Bits
<1>2. OpToRel(<, Nat) = R  BY Zenon DEF OpToRel
<1>3. IsWellFoundedOn(R, Nat)  BY <1>2, NatLessThanWellFounded, Zenon
<1> HIDE DEF R
<1>4. PICK x \in S : \A y \in S : <<y, x>> \notin R  BY <1>1, <1>3, WFMin
<1>5. ASSUME NEW y \in S, y < x PROVE FALSE
  <2>1. <<y, x>> \in R  BY <1>1, <1>5 DEF R
  <2>2. QED  BY <1>4, <2>1
<1>6. \A y \in S : x <= y  BY <1>1, <1>5
<1>7. QED  BY <1>6 DEF Min

\* The commands of a badge probe push what they set; the shop's kind is not
\* theirs.
LEMMA ProbeSyncIInv ==
    ASSUME SyncIInv, Command({"badges", "badge_shop"}), NEW mask \in {None} \cup SUBSET Bits,
           ProbeBadges(mask)
    PROVE  SyncIInv'
<1> DEFINE c == [ctx EXCEPT !.probe_mask = mask]
<1>1. ctx \in Contexts  BY DEF SyncIInv, SyncTypeOK
<1>2. /\ c \in Contexts /\ c.items_received = ctx.items_received
      /\ c.locations_info = ctx.locations_info /\ c.maps = ctx.maps
      /\ c.connecting = ctx.connecting
      /\ Obtained(c) = Obtained(ctx)
      BY <1>1 DEF Contexts, Obtained
<1>3. ctx' = c /\ IF kind = "badges" THEN Push(BadgeMask(ctx')) ELSE UNCHANGED <<queue, last>>
      BY DEF ProbeBadges
<1>4. kind \in {"badges", "badge_shop"}  BY DEF Command
<1> HIDE DEF c
<1>5. CASE kind = "badges"
  <2>1. Send(<<Value(c)>>)  BY <1>3, <1>5 DEF Push, Value
  <2>2. QED  BY <1>2, <1>3, <2>1, Commanded
<1>6. CASE kind = "badge_shop"
  <2>1. queue' = queue /\ SameInputs(ctx, c)  BY <1>2, <1>3, <1>6 DEF SameInputs
  <2>2. QED  BY <1>2, <1>3, <2>1, Commanded
<1>7. QED  BY <1>4, <1>5, <1>6

LEMMA ConsoleSyncIInv == ASSUME SyncIInv, Console PROVE SyncIInv'
<1>1. ctx \in Contexts  BY DEF SyncIInv, SyncTypeOK
<1>2. Command({"badges"}) => Command({"badges", "badge_shop"})  BY DEF Command
<1>3. SameInputs(ctx, ctx)  BY DEF SameInputs
<1>4. \A spec \in BIT_SPECS : parse_bit_spec(spec) \in {None} \cup SUBSET Bits
  <2> TAKE spec \in BIT_SPECS
  <2>1. spec \subseteq Int \X Int /\ BIT_COUNT \in Nat
        BY ClientSyncAssumption DEF ClientSyncAssumption
  <2>2. CASE \A p \in spec : p[1] \in Bits /\ p[2] \in Bits /\ p[1] <= p[2]
    <3>1. \A p \in spec : p[1] .. p[2] \subseteq Bits  BY <2>1, <2>2 DEF Bits
    <3>2. UNION {p[1] .. p[2] : p \in spec} \subseteq Bits  BY <3>1
    <3>3. QED  BY <2>2, <3>2 DEF parse_bit_spec
  <2>3. CASE ~\A p \in spec : p[1] \in Bits /\ p[2] \in Bits /\ p[1] <= p[2]
        BY <2>3 DEF parse_bit_spec
  <2>4. QED  BY <2>2, <2>3
<1>5. CASE cmd_replay_badges
  <2>1. Send(<<Value(ctx)>>) /\ ctx' = ctx /\ Command({"badges"})
        BY <1>5 DEF cmd_replay_badges, Push, Command, Value
  <2>2. QED  BY <1>1, <2>1, Commanded
<1>6. CASE cmd_badge_probe_clear  BY <1>6, ProbeSyncIInv DEF cmd_badge_probe_clear
<1>7. CASE cmd_badge_probe_next
  <2>1. PICK after \in {Max(ctx.probe_mask), -1} :
            LET nxt == next_unmapped_bit(after, ctx.probe_invalid)
            IN Command({"badges"}) /\ nxt # None /\ ProbeBadges({nxt})
        BY <1>7 DEF cmd_badge_probe_next
  <2> DEFINE nxt == next_unmapped_bit(after, ctx.probe_invalid)
             open == {b \in Bits : b > after} \ (mapped_bits \cup ctx.probe_invalid)
  <2>2. nxt = IF open = {} THEN None ELSE Min(open)  BY DEF next_unmapped_bit
  <2>3. open \subseteq Bits  OBVIOUS
  <2>4. nxt # None /\ ProbeBadges({nxt}) /\ Command({"badges"})  BY <2>1
  <2> HIDE DEF open, nxt
  <2>5. nxt \in Bits  BY <2>2, <2>3, <2>4, LeastBit
  <2>6. QED  BY <1>2, <2>4, <2>5, ProbeSyncIInv
<1>8. CASE cmd_badge_probe_clear_invalid
  <2> DEFINE c == [ctx EXCEPT !.probe_invalid = {}]
  <2>1. /\ c \in Contexts /\ c.items_received = ctx.items_received
        /\ c.locations_info = ctx.locations_info /\ c.maps = ctx.maps
        /\ c.connecting = ctx.connecting /\ c.probe_mask = ctx.probe_mask
        BY <1>1 DEF Contexts
  <2>2. ctx' = c /\ queue' = queue /\ Command({"badges"})  BY <1>8 DEF cmd_badge_probe_clear_invalid
  <2>3. SameInputs(ctx, c)  BY <2>1, <2>2 DEF SameInputs, Command
  <2> HIDE DEF c
  <2>4. QED  BY <2>1, <2>2, <2>3, Commanded
<1>9. ASSUME NEW bit \in Bits, cmd_badge_probe(bit) PROVE SyncIInv'
      BY <1>9, ProbeSyncIInv DEF cmd_badge_probe
<1>10. ASSUME NEW mask \in SUBSET Bits, cmd_badge_probe_mask(mask) PROVE SyncIInv'
       BY <1>2, <1>10, ProbeSyncIInv DEF cmd_badge_probe_mask
<1>11. ASSUME NEW spec \in BIT_SPECS, cmd_badge_probe_range(spec) PROVE SyncIInv'
       BY <1>2, <1>4, <1>11, ProbeSyncIInv DEF cmd_badge_probe_range
<1>12. ASSUME NEW spec \in BIT_SPECS, cmd_badge_probe_invalid(spec) PROVE SyncIInv'
  <2> DEFINE bits == parse_bit_spec(spec)
             c == [ctx EXCEPT !.probe_invalid = @ \cup bits]
  <2>1. bits # None /\ ctx' = c /\ queue' = queue /\ Command({"badges"})
        BY <1>12 DEF cmd_badge_probe_invalid
  <2>2. bits \in SUBSET Bits  BY <1>4, <2>1
  <2> HIDE DEF bits
  <2>3. /\ c \in Contexts /\ c.items_received = ctx.items_received
        /\ c.locations_info = ctx.locations_info /\ c.maps = ctx.maps
        /\ c.connecting = ctx.connecting /\ c.probe_mask = ctx.probe_mask
        BY <1>1, <2>2 DEF Contexts
  <2>4. SameInputs(ctx, c)  BY <2>1, <2>3 DEF SameInputs, Command
  <2> HIDE DEF c
  <2>5. QED  BY <2>1, <2>3, <2>4, Commanded
<1>13. ASSUME NEW mask \in (SUBSET Range(DENY_BITS)) \cup {None}, cmd_deny_powerups(mask)
       PROVE  SyncIInv'
  <2> DEFINE c == [ctx EXCEPT !.deny_override = mask]
  <2>1. ctx' = c /\ Push(DenyMask(ctx')) /\ Command({"deny"}) /\ kind = "deny"
        BY <1>13 DEF cmd_deny_powerups, Command
  <2>2. /\ c \in Contexts /\ c.items_received = ctx.items_received
        /\ c.locations_info = ctx.locations_info /\ c.maps = ctx.maps
        /\ c.connecting = ctx.connecting
        BY <1>1 DEF Contexts
  <2> HIDE DEF c
  <2>3. Send(<<Value(c)>>)  BY <2>1 DEF Push, Value
  <2>4. QED  BY <2>1, <2>2, <2>3, Commanded
<1>14. ASSUME NEW mask, cmd_send_royal_seeds(mask) PROVE SyncIInv'
  <2>1. ctx' = ctx /\ Send(<<mask>>) /\ Command({"royal_seeds"}) /\ kind \notin Prompt'
        BY <1>14 DEF cmd_send_royal_seeds, Command, Prompt
  <2>2. QED  BY <1>1, <2>1, Commanded
<1>15. ASSUME NEW grant, cmd_grant_hash(grant) PROVE SyncIInv'
  <2>1. ctx' = ctx /\ Send(<<grant>>) /\ Command({"hash"}) /\ kind \notin Prompt'
        BY <1>15 DEF cmd_grant_hash, Command, Prompt
  <2>2. QED  BY <1>1, <2>1, Commanded
<1>16. ASSUME NEW worlds, cmd_force_open_world(worlds) PROVE SyncIInv'
  <2>1. commands' # 0
    <3>1. commands \in Nat  BY DEF SyncIInv, SyncTypeOK
    <3>2. QED  BY <1>16, <3>1 DEF cmd_force_open_world, Command
  <2>2. kind \notin Prompt'  BY <1>16, <2>1 DEF cmd_force_open_world, Command, Prompt
  <2>3. ctx' = ctx /\ (\E v : Send(<<v>>)) /\ Command({"routable", "unlock"})
        BY <1>16 DEF cmd_force_open_world
  <2>4. QED  BY <1>1, <2>2, <2>3, Commanded
<1>17. CASE \E bit \in Bits : cmd_badge_probe(bit)  BY <1>9, <1>17
<1>18. CASE \E mask \in SUBSET Bits : cmd_badge_probe_mask(mask)  BY <1>10, <1>18
<1>19. CASE \E spec \in BIT_SPECS : cmd_badge_probe_range(spec) \/ cmd_badge_probe_invalid(spec)
       BY <1>11, <1>12, <1>19
<1>20. CASE \E mask \in (SUBSET Range(DENY_BITS)) \cup {None} : cmd_deny_powerups(mask)
       BY <1>13, <1>20
<1>21. CASE \/ \E mask \in SUBSET ROYAL_SEEDS : cmd_send_royal_seeds(mask)
            \/ \E grant \in Grants : cmd_grant_hash(grant)
            \/ \E worlds \in SUBSET Worlds : cmd_force_open_world(worlds)
       BY <1>14, <1>15, <1>16, <1>21
<1>22. QED
  BY <1>5, <1>6, <1>7, <1>8, <1>17, <1>18, <1>19, <1>20, <1>21 DEF Console

-----------------------------------------------------------------------------
\* No step leaves the invariant.
LEMMA NextSyncIInv == SyncIInv /\ [SyncNext]_syncVars => SyncIInv'
<1> SUFFICES ASSUME SyncIInv, [SyncNext]_syncVars PROVE SyncIInv'  OBVIOUS
<1>1. CASE UNCHANGED syncVars
  <2>1. UNCHANGED <<kind, slot_data, server, checked, ap, ctx, last, session, queue, view, faults,
                    commands>>
        BY <1>1 DEF syncVars, slotVars, lanVars
  <2>2. SyncTypeOK'  BY <2>1 DEF SyncIInv, SyncTypeOK, Messages
  <2>3. UpToDate'
    <3>1. UpToDate /\ SameInputs(ctx, ctx')  BY <2>1 DEF SyncIInv, SameInputs
    <3>2. Final' = Final /\ (Reached' => Reached)  BY <2>1 DEF Final, Reached
    <3>3. session' = session /\ commands' = commands /\ UNCHANGED <<kind, slot_data>>  BY <2>1
    <3>4. QED  BY <3>1, <3>2, <3>3, Stays
  <2>4. TextsUpToDate'
    <3>1. kind = "shop_text" => Value(ctx)' = Value(ctx)  BY <2>1 DEF Value, BadgeShopText
    <3>2. QED  BY <2>1, <3>1, TextsStay DEF SyncIInv
  <2>5. QED  BY <2>1, <2>2, <2>3, <2>4 DEF SyncIInv, ItemsKnown, MapsFirst
<1>2. CASE Bridge
  <2>1. CASE Install  BY <2>1, CutSyncIInv
  <2>2. CASE HandleHello \/ Tick  BY <2>2, ReplaySyncIInv
  <2>3. CASE HandleDataPackage \/ Accepted  BY <2>3, ArrivesSyncIInv
  <2>4. CASE HandleConnected  BY <2>4, ConnectedSyncIInv
  <2>5. CASE HandleReceivedItems  BY <2>5, ReceivedSyncIInv
  <2>6. CASE HandleRoomUpdate \/ HandleLocationInfo  BY <2>6, UpdatedSyncIInv
  <2>7. CASE \E l \in Locations : HandleCheckEmitted(l) \/ FlushPending(l)
        BY <2>7, ChecksSyncIInv
  <2>8. QED  BY <1>2, <2>1, <2>2, <2>3, <2>4, <2>5, <2>6, <2>7 DEF Bridge
<1>3. CASE Environment
  <2>1. CASE Deliver  BY <2>1, DeliverSyncIInv
  <2>2. CASE LoseLink \/ RebootSwitch \/ RestartBridge  BY <2>2, CutSyncIInv
  <2>3. CASE \/ LoseAp \/ ApClosed
             \/ \E i \in Items : SendItem(i)
             \/ \E l \in Locations : Collect(l)
        BY <2>3, ApSyncIInv
  <2>4. QED  BY <1>3, <2>1, <2>2, <2>3 DEF Environment
<1>4. CASE Console  BY <1>4, ConsoleSyncIInv
<1>5. QED  BY <1>1, <1>2, <1>3, <1>4 DEF SyncNext

\* The last message under way is the value of the context, and every text is
\* under way or with the mod, whatever the faults and the console do between.
THEOREM SyncInvariance == SyncSpec => []SyncIInv
<1>1. SyncInit => SyncIInv  BY InitSyncIInv
<1>2. SyncIInv /\ [SyncNext]_syncVars => SyncIInv'  BY NextSyncIInv
<1>3. QED  BY <1>1, <1>2, PTL DEF SyncSpec

\* With nothing under way the mod has what the context computes, before any
\* tick and for every table and slot: no handler changes what feeds a mask
\* without pushing it.
THEOREM NoTickNeeded == SyncSpec => []PromptlyShown
<1>1. SyncIInv => PromptlyShown
  <2> SUFFICES ASSUME SyncIInv, Settled, Value(ctx) # Boot
               PROVE  /\ kind \in Prompt => view = Value(ctx)
                      /\ kind = "shop_text" => Value(ctx) \subseteq view
      BY DEF PromptlyShown
  <2>1. session = "greeted" /\ queue = <<>> /\ Reached  BY DEF Settled, Reached
  <2>2. kind \in Prompt => view = Value(ctx)
        BY <2>1 DEF SyncIInv, UpToDate, Final
  <2>3. ASSUME kind = "shop_text", NEW b \in Value(ctx) PROVE b \in view
    <3>1. EndsShown(b)  BY <2>1, <2>3 DEF SyncIInv, TextsUpToDate
    <3>2. 1 .. Len(queue) = {}  BY <2>1
    <3>3. QED  BY <3>1, <3>2 DEF EndsShown, EndsIn
  <2>4. QED  BY <2>2, <2>3
<1>2. QED  BY <1>1, SyncInvariance, PTL
===============================================================================
