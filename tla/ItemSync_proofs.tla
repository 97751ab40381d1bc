--------------------------- MODULE ItemSync_proofs ---------------------------
(***************************************************************************)
(* The absolute state pushes of ItemSync.tla, for every set of badges and  *)
(* power-ups, any number of draining threads, of ring entries and of       *)
(* faults.                                                                 *)
(*                                                                         *)
(* What settles is the last mask on its way: once the Hello of a session   *)
(* was handled, the mask the bridge remembers is the last deny mask in the *)
(* pipe, or the one the Switch has.                                        *)
(***************************************************************************)
EXTENDS ItemSync, SequenceTheorems, TLAPS

IsDeny(s, i)   == i \in 1..Len(s) /\ s[i].kind = "deny"
LastDeny(s, i) == IsDeny(s, i) /\ \A j \in 1..Len(s) : IsDeny(s, j) => j <= i

\* What a zero mask may leave stale is not denied for long, see DenyReplayed;
\* any other is underway.
DenyUnderWay ==
    session = "greeted" /\ itemget_deny_mask # {} =>
      /\ \A i \in 1..Len(pipe) : LastDeny(pipe, i) => pipe[i].mask = itemget_deny_mask
      /\ (\A i \in 1..Len(pipe) : ~IsDeny(pipe, i)) => denied = itemget_deny_mask

IInv ==
    /\ TypeOK
    /\ session = "none" => pipe = <<>>
    /\ DenyUnderWay
    /\ EquippedIsOwned

-----------------------------------------------------------------------------
DrainType == [at : {"idle", "pop", "diff", "write", "unequip"},
              last : {None} \cup SUBSET Badges]

\* The constants, as the proofs use them.
LEMMA Params ==
    /\ Gating \in BOOLEAN /\ RingCap \in Nat \ {0} /\ MaxFaults \in Nat
    /\ \A mask \in SUBSET Badges : mask # None
    /\ \A start \in Starts : /\ start.threads \subseteq Drains
                             /\ start.held \subseteq Items
                             /\ start.spent \in 0..MaxFaults
BY SyncAssumption DEF SyncAssumption, Items

\* It holds in every start.
LEMMA InitIInv == Init => IInv
<1> USE Params
<1> SUFFICES ASSUME Init PROVE IInv  OBVIOUS
<1>1. PICK start \in Starts :
        /\ drain = [d \in start.threads |-> IdleDrain]
        /\ server = start.held /\ faults = start.spent
      BY DEF Init
<1>2. Threads = start.threads /\ \A d \in Threads : drain[d] = IdleDrain
      BY <1>1 DEF Threads
<1>3. IdleDrain \in DrainType /\ IdleDrain.at = "idle"
      BY DEF IdleDrain, DrainType
<1>4. drain \in [Threads -> DrainType]
      BY <1>1, <1>2, <1>3
<1>5. pipe \in Seq(Messages) /\ inbound \in Seq(SUBSET Badges) /\ Len(inbound) <= RingCap
      BY DEF Init
<1>6. \A d \in Threads : drain[d].at \in {"diff", "write", "unequip"} => drain[d].last # None
      BY <1>2, <1>3
<1>7. /\ server \subseteq Items /\ faults \in 0..MaxFaults /\ Threads \subseteq Drains
      BY <1>1, <1>2
<1>8. TypeOK  BY <1>4, <1>5, <1>6, <1>7 DEF Init, TypeOK, DrainType
<1>9. DenyUnderWay /\ EquippedIsOwned /\ (session = "none" => pipe = <<>>)
      BY DEF Init, DenyUnderWay, EquippedIsOwned
<1>10. QED  BY <1>8, <1>9 DEF IInv

-----------------------------------------------------------------------------
(* The bridge. *)

\* A push that ends with a deny mask makes that mask the last on its way.
LEMMA PushIsLast ==
    ASSUME NEW s \in Seq(Messages), NEW msgs \in Seq(Messages), msgs # <<>>,
           NEW mask, msgs[Len(msgs)] = DenyMsg(mask)
    PROVE  /\ s \o msgs \in Seq(Messages)
           /\ \A i \in 1..Len(s \o msgs) : LastDeny(s \o msgs, i) => (s \o msgs)[i].mask = mask
           /\ ~ \A i \in 1..Len(s \o msgs) : ~IsDeny(s \o msgs, i)
<1>1. Len(s) \in Nat /\ Len(msgs) \in Nat /\ Len(msgs) >= 1  OBVIOUS
<1> DEFINE t == s \o msgs
           n == Len(s) + Len(msgs)
<1>2. /\ t \in Seq(Messages) /\ Len(t) = n
      /\ \A i \in 1..n : t[i] = IF i <= Len(s) THEN s[i] ELSE msgs[i - Len(s)]
      BY ConcatProperties
<1>3. n \in 1..n /\ ~(n <= Len(s)) /\ n - Len(s) = Len(msgs) /\ n \in Nat
      BY <1>1
<1>4. t[n] = DenyMsg(mask)  BY <1>2, <1>3
<1> HIDE DEF t, n
<1>5. IsDeny(t, n) /\ t[n].mask = mask
      BY <1>2, <1>3, <1>4 DEF IsDeny, DenyMsg
<1>6. \A i \in 1..Len(t) : LastDeny(t, i) => i = n
  <2>1. SUFFICES ASSUME NEW i \in 1..Len(t), LastDeny(t, i)  PROVE i = n
        OBVIOUS
  <2>2. n <= i  BY <1>2, <1>3, <1>5, <2>1 DEF LastDeny
  <2>3. QED  BY <1>2, <1>3, <2>1, <2>2
<1>7. QED  BY <1>2, <1>3, <1>5, <1>6 DEF t

\* A handler that pushes its deny mask last, or remembers the zero mask.
LEMMA PushKeepsDeny ==
    ASSUME TypeOK, NEW msgs \in Seq(Messages), Enqueue(msgs),
           NEW mask \in SUBSET PowerUps, RememberDeny(mask), UNCHANGED denied,
           session' \in {session, "greeted"}, session = "none" => session' = session,
           mask # {} => msgs # <<>> /\ msgs[Len(msgs)] = DenyMsg(mask)
    PROVE  DenyUnderWay' /\ pipe' \in Seq(Messages)
<1>1. pipe \in Seq(Messages)  BY DEF TypeOK
<1>2. CASE session = "none"
      BY <1>1, <1>2 DEF Enqueue, DenyUnderWay
<1>3. CASE session # "none"
  <2>1. pipe' = pipe \o msgs /\ itemget_deny_mask' = mask
        BY <1>3 DEF Enqueue, RememberDeny
  <2>2. pipe' \in Seq(Messages)  BY <1>1, <2>1, ConcatProperties
  <2>3. CASE mask = {}  BY <2>1, <2>2, <2>3 DEF DenyUnderWay
  <2>4. CASE mask # {}
        BY <1>1, <2>1, <2>4, PushIsLast DEF DenyUnderWay
  <2>5. QED  BY <2>3, <2>4
<1>4. QED  BY <1>2, <1>3

\* A deny mask is a set of power-ups whatever was received.
LEMMA DenyMaskType ==
    ASSUME NEW items, NEW gating
    PROVE  DenyMask(items, gating) \subseteq PowerUps
BY DEF DenyMask

\* The two messages of a push, the second one now and then left out.
LEMMA PushMessages ==
    ASSUME NEW mask \in SUBSET PowerUps, NEW badges \in SUBSET Badges
    PROVE  /\ <<DenyMsg(mask)>> \in Seq(Messages)
           /\ <<BadgesMsg(badges), DenyMsg(mask)>> \in Seq(Messages)
           /\ <<BadgesMsg(badges)>> \o ReplayDeny(mask) \in Seq(Messages)
           /\ mask # {} =>
                LET msgs == <<BadgesMsg(badges)>> \o ReplayDeny(mask)
                IN  msgs # <<>> /\ msgs[Len(msgs)] = DenyMsg(mask)
<1>1. DenyMsg(mask) \in Messages /\ BadgesMsg(badges) \in Messages
      BY DEF Messages, DenyMsg, BadgesMsg
<1>2. CASE DenyIsReplayed(mask)
  <2>1. ReplayDeny(mask) = <<DenyMsg(mask)>>  BY <1>2 DEF ReplayDeny
  <2> DEFINE msgs == <<BadgesMsg(badges)>> \o <<DenyMsg(mask)>>
  <2>2. <<BadgesMsg(badges)>> \in Seq(Messages) /\ <<DenyMsg(mask)>> \in Seq(Messages)
        BY <1>1
  <2>3. msgs \in Seq(Messages) /\ Len(msgs) = 2 /\ msgs[2] = DenyMsg(mask)
    <3>1. /\ msgs \in Seq(Messages) /\ Len(msgs) = 1 + 1
          /\ msgs[2] = <<DenyMsg(mask)>>[2 - 1]
          BY <2>2, ConcatProperties
    <3>2. QED  BY <3>1
  <2> HIDE DEF msgs
  <2>4. msgs # <<>>
    <3>1. msgs = <<>> => Len(msgs) = 0  OBVIOUS
    <3>2. QED  BY <2>3, <3>1
  <2>5. QED  BY <1>1, <2>1, <2>3, <2>4 DEF msgs
<1>3. CASE ~DenyIsReplayed(mask)
  <2>1. ReplayDeny(mask) = <<>> /\ mask = {}  BY <1>3 DEF ReplayDeny, DenyIsReplayed
  <2>2. <<BadgesMsg(badges)>> \o <<>> = <<BadgesMsg(badges)>>  OBVIOUS
  <2>3. QED  BY <1>1, <2>1, <2>2
<1>4. QED  BY <1>2, <1>3

\* The bridge's handlers and its tick keep the invariant.
LEMMA BridgeIInv ==
    ASSUME IInv, Bridge
    PROVE  IInv'
<1> USE Params
<1>1. /\ TypeOK /\ DenyUnderWay /\ EquippedIsOwned /\ (session = "none" => pipe = <<>>)
      /\ server \subseteq Items /\ items_received \subseteq Items
      BY DEF IInv, TypeOK
<1>2. UNCHANGED <<mod_vars, game_vars, server, faults>>
      BY DEF Bridge, HandleHello, Tick, PushAll, HandleConnected, HandleReceivedItems, Install,
             ap_vars
<1>3. EquippedIsOwned'
      BY <1>1, <1>2 DEF EquippedIsOwned, Threads, mod_vars, game_vars
<1>4. ASSUME pipe' \in Seq(Messages), itemget_deny_mask' \in SUBSET PowerUps,
             ap' \in {"down", "up", "in"}, powerup_gating' \in BOOLEAN,
             session' \in {"none", "new", "greeted"}, items_received' \subseteq Items
      PROVE  TypeOK'
      BY <1>1, <1>2, <1>4 DEF TypeOK, Threads, mod_vars, game_vars
<1>5. CASE HandleHello \/ Tick
  <2> DEFINE mask == DenyMask(items_received, powerup_gating)
             msgs == <<BadgesMsg(BadgeMask)>> \o ReplayDeny(mask)
  <2>1. PushAll /\ session # "none" /\ session' \in {session, "greeted"}
        BY <1>5 DEF HandleHello, Tick
  <2>2. /\ mask \in SUBSET PowerUps /\ BadgeMask \in SUBSET Badges
        BY DenyMaskType DEF BadgeMask
  <2>3. /\ msgs \in Seq(Messages)
        /\ mask # {} => msgs # <<>> /\ msgs[Len(msgs)] = DenyMsg(mask)
        BY <2>2, PushMessages
  <2>4. Enqueue(msgs) /\ RememberDeny(mask)  BY <2>1 DEF PushAll
  <2> HIDE DEF mask, msgs
  <2>6. DenyUnderWay' /\ pipe' \in Seq(Messages)
        BY <1>1, <1>2, <2>1, <2>2, <2>3, <2>4, PushKeepsDeny DEF mod_vars
  <2>7. TypeOK'
        BY <1>1, <1>4, <2>1, <2>2, <2>4, <2>6 DEF PushAll, RememberDeny, TypeOK, ap_vars
  <2>8. QED  BY <1>3, <2>1, <2>6, <2>7 DEF IInv
<1>6. CASE HandleConnected
  <2> DEFINE mask == DenyMask(items_received, Gating)
  <2>1. /\ Enqueue(<<DenyMsg(mask)>>) /\ RememberDeny(mask) /\ session' = session
        /\ ap' = "in" /\ powerup_gating' = Gating /\ items_received' = items_received
        BY <1>6 DEF HandleConnected
  <2>2. mask \in SUBSET PowerUps  BY DenyMaskType
  <2> HIDE DEF mask
  <2>3. /\ <<DenyMsg(mask)>> \in Seq(Messages) /\ <<DenyMsg(mask)>> # <<>>
        /\ <<DenyMsg(mask)>>[Len(<<DenyMsg(mask)>>)] = DenyMsg(mask)
        BY <2>2, PushMessages
  <2>4. DenyUnderWay' /\ pipe' \in Seq(Messages)
        BY <1>1, <1>2, <2>1, <2>2, <2>3, PushKeepsDeny DEF mod_vars
  <2>5. TypeOK'
        BY <1>1, <1>4, <2>1, <2>2, <2>4 DEF RememberDeny, TypeOK
  <2>6. session' = "none" => pipe' = <<>>  BY <1>1, <2>1 DEF Enqueue
  <2>7. QED  BY <1>3, <2>4, <2>5, <2>6 DEF IInv
<1>7. CASE HandleReceivedItems
  <2> DEFINE mask == DenyMask(server, powerup_gating)
             msgs == <<BadgesMsg(server \cap Badges), DenyMsg(mask)>>
  <2>1. /\ Enqueue(msgs) /\ RememberDeny(mask) /\ session' = session
        /\ ap' = ap /\ powerup_gating' = powerup_gating /\ items_received' = server
        BY <1>7 DEF HandleReceivedItems, ap_vars
  <2>2. mask \in SUBSET PowerUps /\ server \cap Badges \in SUBSET Badges
        BY DenyMaskType
  <2>3. /\ msgs \in Seq(Messages)
        BY <2>2, PushMessages
  <2>4. msgs # <<>> /\ msgs[Len(msgs)] = DenyMsg(mask)
        OBVIOUS
  <2> HIDE DEF mask, msgs
  <2>5. DenyUnderWay' /\ pipe' \in Seq(Messages)
        BY <1>1, <1>2, <2>1, <2>2, <2>3, <2>4, PushKeepsDeny DEF mod_vars
  <2>6. TypeOK'
        BY <1>1, <1>4, <2>1, <2>2, <2>5 DEF RememberDeny, TypeOK
  <2>7. session' = "none" => pipe' = <<>>  BY <1>1, <2>1 DEF Enqueue
  <2>8. QED  BY <1>3, <2>5, <2>6, <2>7 DEF IInv
<1>8. CASE Install
  <2>1. /\ session' = "new" /\ pipe' = <<>> /\ UNCHANGED <<ap_vars, bridge_vars>>
        BY <1>8 DEF Install
  <2>2. TypeOK'
        BY <1>1, <1>4, <2>1 DEF TypeOK, ap_vars, bridge_vars
  <2>3. DenyUnderWay'  BY <2>1 DEF DenyUnderWay
  <2>4. QED  BY <1>3, <2>1, <2>2, <2>3 DEF IInv
<1>9. QED  BY <1>5, <1>6, <1>7, <1>8 DEF Bridge

-----------------------------------------------------------------------------
(* The mod. *)

\* The line read is the oldest: it is the last deny mask on its way only if no
\* other is.
LEMMA HandleLineIInv ==
    ASSUME IInv, HandleLine
    PROVE  IInv'
<1> USE Params
<1>1. /\ TypeOK /\ DenyUnderWay /\ EquippedIsOwned
      /\ pipe \in Seq(Messages) /\ pipe # <<>> /\ session # "none"
      BY DEF IInv, TypeOK, HandleLine
<1>2. /\ pipe' = Tail(pipe)
      /\ UNCHANGED <<ap_vars, bridge_vars, session, save_loaded, drain, game_vars, faults>>
      BY DEF HandleLine
<1>3. /\ Len(pipe) \in Nat /\ Len(pipe) >= 1 /\ Head(pipe) = pipe[1] /\ pipe[1] \in Messages
      /\ pipe' \in Seq(Messages) /\ Len(pipe') = Len(pipe) - 1
      /\ \A i \in 1..Len(pipe') : pipe'[i] = pipe[i + 1]
  <2>1. Len(pipe) \in Nat /\ Len(pipe) >= 1  BY <1>1
  <2>2. QED  BY <1>1, <1>2, <2>1, HeadTailProperties
<1>4. \/ /\ pipe[1].kind = "deny" /\ denied' = pipe[1].mask /\ UNCHANGED inbound
      \/ /\ pipe[1].kind = "badges" /\ UNCHANGED denied
         /\ inbound' = IF Len(inbound) < RingCap THEN Append(inbound, pipe[1].mask) ELSE inbound
      BY <1>3 DEF HandleLine
<1>5. /\ pipe[1].kind = "deny" => pipe[1].mask \subseteq PowerUps
      /\ pipe[1].kind = "badges" => pipe[1].mask \subseteq Badges
      BY <1>3 DEF Messages
<1>6. TypeOK'
  <2>1. inbound \in Seq(SUBSET Badges) /\ Len(inbound) <= RingCap /\ denied \subseteq PowerUps
        BY <1>1 DEF TypeOK
  <2>2. denied' \subseteq PowerUps  BY <1>4, <1>5, <2>1
  <2>3. inbound' \in Seq(SUBSET Badges) /\ Len(inbound') <= RingCap
    <3>1. CASE inbound' = inbound  BY <2>1, <3>1
    <3>2. CASE /\ inbound' = Append(inbound, pipe[1].mask) /\ Len(inbound) < RingCap
               /\ pipe[1].mask \in SUBSET Badges
          BY <2>1, <3>2
    <3>3. QED  BY <1>4, <1>5, <3>1, <3>2
  <2>4. QED
        BY <1>1, <1>2, <1>3, <2>2, <2>3
        DEF TypeOK, Threads, ap_vars, bridge_vars, game_vars
<1>7. EquippedIsOwned'
      BY <1>1, <1>2 DEF EquippedIsOwned, Threads, game_vars
<1>8. \A i \in 1..Len(pipe') : i + 1 \in 1..Len(pipe) /\ pipe'[i] = pipe[i + 1]
      BY <1>3
<1>9. \A i \in 1..Len(pipe) : i # 1 =>
        i - 1 \in 1..Len(pipe') /\ pipe'[i - 1] = pipe[i]
  <2>1. \A i \in 1..Len(pipe) : i # 1 => i - 1 \in 1..Len(pipe') /\ (i - 1) + 1 = i
        BY <1>3
  <2>2. QED  BY <1>3, <2>1
<1>10. DenyUnderWay'
  <2>1. SUFFICES ASSUME session = "greeted", itemget_deny_mask # {}
        PROVE  /\ \A i \in 1..Len(pipe') : LastDeny(pipe', i) => pipe'[i].mask = itemget_deny_mask
               /\ (\A i \in 1..Len(pipe') : ~IsDeny(pipe', i)) => denied' = itemget_deny_mask
        BY <1>2 DEF DenyUnderWay, bridge_vars
  <2>2. /\ \A i \in 1..Len(pipe) : LastDeny(pipe, i) => pipe[i].mask = itemget_deny_mask
        /\ (\A i \in 1..Len(pipe) : ~IsDeny(pipe, i)) => denied = itemget_deny_mask
        BY <1>1, <2>1 DEF DenyUnderWay
  <2>3. ASSUME NEW i \in 1..Len(pipe'), LastDeny(pipe', i)
        PROVE  pipe'[i].mask = itemget_deny_mask
    <3>1. IsDeny(pipe, i + 1)  BY <1>8, <2>3 DEF LastDeny, IsDeny
    <3>2. ASSUME NEW j \in 1..Len(pipe), IsDeny(pipe, j)  PROVE j <= i + 1
      <4>1. CASE j = 1  BY <4>1
      <4>2. CASE j # 1
        <5>1. IsDeny(pipe', j - 1) /\ j - 1 \in 1..Len(pipe')
              BY <1>9, <3>2, <4>2 DEF IsDeny
        <5>2. j - 1 <= i  BY <2>3, <5>1 DEF LastDeny
        <5>3. QED  BY <5>2
      <4>3. QED  BY <4>1, <4>2
    <3>3. QED  BY <1>8, <2>2, <3>1, <3>2 DEF LastDeny
  <2>4. ASSUME \A i \in 1..Len(pipe') : ~IsDeny(pipe', i)
        PROVE  denied' = itemget_deny_mask
    <3>1. \A i \in 1..Len(pipe) : i # 1 => ~IsDeny(pipe, i)
          BY <1>9, <2>4 DEF IsDeny
    <3>2. CASE pipe[1].kind = "deny"
      <4>1. 1 \in 1..Len(pipe)  BY <1>3
      <4>2. LastDeny(pipe, 1)
        <5>1. IsDeny(pipe, 1)  BY <3>2, <4>1 DEF IsDeny
        <5>2. \A j \in 1..Len(pipe) : IsDeny(pipe, j) => j <= 1  BY <3>1
        <5>3. QED  BY <5>1, <5>2 DEF LastDeny
      <4>3. QED  BY <1>4, <2>2, <3>2, <4>1, <4>2
    <3>3. CASE pipe[1].kind # "deny"
      <4>1. \A i \in 1..Len(pipe) : ~IsDeny(pipe, i)  BY <3>1, <3>3 DEF IsDeny
      <4>2. QED  BY <1>4, <2>2, <3>3, <4>1
    <3>4. QED  BY <3>2, <3>3
  <2>5. QED  BY <2>3, <2>4
<1>11. QED  BY <1>1, <1>2, <1>6, <1>7, <1>10 DEF IInv

\* A drain strips what it has just not written: whichever thread wrote last.
LEMMA DrainIInv ==
    ASSUME IInv, NEW d \in Threads, StartDrain(d) \/ DrainStep(d)
    PROVE  IInv'
<1> USE Params
<1>1. /\ TypeOK /\ DenyUnderWay /\ EquippedIsOwned /\ (session = "none" => pipe = <<>>)
      /\ drain \in [Threads -> DrainType] /\ drain[d] \in DrainType
      /\ drain[d].at \in {"diff", "write", "unequip"} => drain[d].last \in SUBSET Badges
      /\ inbound \in Seq(SUBSET Badges) /\ Len(inbound) <= RingCap
      /\ owned \subseteq Badges /\ equipped \subseteq Badges
      BY DEF IInv, TypeOK, DrainType
<1>2. /\ UNCHANGED <<ap_vars, bridge_vars, link_vars, denied, save_loaded, saved, picked, faults>>
      BY DEF StartDrain, DrainStep, PopOne, PopEnds, ReportStripped, WriteOwned, Unequip,
             game_vars
<1>3. DenyUnderWay' /\ (session' = "none" => pipe' = <<>>)
      BY <1>1, <1>2 DEF DenyUnderWay, bridge_vars, link_vars
<1>4. ASSUME NEW rec \in DrainType, drain' = [drain EXCEPT ![d] = rec],
             rec.at \in {"diff", "write", "unequip"} => rec.last # None,
             inbound' \in Seq(SUBSET Badges), Len(inbound') <= RingCap,
             owned' \subseteq Badges, equipped' \subseteq Badges
      PROVE  TypeOK' /\ Threads' = Threads /\ drain'[d] = rec
             /\ \A e \in Threads : e # d => drain'[e] = drain[e]
  <2>1. /\ drain' \in [Threads -> DrainType] /\ drain'[d] = rec
        /\ \A e \in Threads : e # d => drain'[e] = drain[e]
        /\ Threads' = Threads
        BY <1>1, <1>4 DEF Threads
  <2>2. \A e \in Threads' : drain'[e].at \in {"diff", "write", "unequip"} =>
          drain'[e].last # None
        BY <1>1, <1>4, <2>1 DEF TypeOK
  <2>3. QED
        BY <1>1, <1>2, <1>4, <2>1, <2>2
        DEF TypeOK, DrainType, ap_vars, bridge_vars, link_vars
<1>5. ASSUME NEW rec \in DrainType, drain' = [drain EXCEPT ![d] = rec],
             rec.at \in {"diff", "write", "unequip"} => rec.last # None,
             inbound' \in Seq(SUBSET Badges), Len(inbound') <= RingCap,
             drain[d].at # "unequip", UNCHANGED <<owned, equipped>>
      PROVE  IInv'
  <2>1. /\ TypeOK' /\ Threads' = Threads /\ \A e \in Threads : e # d => drain'[e] = drain[e]
        BY <1>1, <1>4, <1>5
  <2>2. EquippedIsOwned'
        BY <1>1, <1>5, <2>1 DEF EquippedIsOwned
  <2>3. QED  BY <1>3, <2>1, <2>2 DEF IInv
<1>6. CASE StartDrain(d)
  <2> DEFINE rec == [drain[d] EXCEPT !.at = "pop"]
  <2>1. rec \in DrainType /\ rec.at = "pop"  BY <1>1 DEF DrainType
  <2>2. /\ drain' = [drain EXCEPT ![d] = rec] /\ drain[d].at = "idle"
        /\ UNCHANGED <<inbound, owned, equipped>>
        BY <1>6 DEF StartDrain, game_vars
  <2> HIDE DEF rec
  <2>3. QED  BY <1>1, <1>5, <2>1, <2>2
<1>7. CASE PopOne(d)
  <2> DEFINE rec == [drain[d] EXCEPT !.last = Head(inbound)]
  <2>1. /\ drain[d].at = "pop" /\ inbound # <<>> /\ inbound' = Tail(inbound)
        /\ drain' = [drain EXCEPT ![d] = rec]
        /\ UNCHANGED <<owned, equipped>>
        BY <1>7 DEF PopOne, game_vars
  <2>2. /\ Head(inbound) \in SUBSET Badges /\ Tail(inbound) \in Seq(SUBSET Badges)
        /\ Len(Tail(inbound)) <= RingCap
    <3>1. Len(inbound) \in Nat /\ Len(inbound) >= 1  BY <1>1, <2>1
    <3>2. /\ Head(inbound) = inbound[1] /\ Tail(inbound) \in Seq(SUBSET Badges)
          /\ Len(Tail(inbound)) = Len(inbound) - 1
          BY <1>1, <2>1, <3>1, HeadTailProperties
    <3>3. QED  BY <1>1, <3>1, <3>2
  <2>3. rec \in DrainType /\ rec.at = "pop"  BY <1>1, <2>1, <2>2 DEF DrainType
  <2> HIDE DEF rec
  <2>4. QED  BY <1>5, <2>1, <2>2, <2>3
<1>8. CASE PopEnds(d)
  <2> DEFINE rec == [drain[d] EXCEPT !.at = IF drain[d].last = None THEN "idle" ELSE "diff"]
  <2>1. /\ drain[d].at = "pop" /\ drain' = [drain EXCEPT ![d] = rec]
        /\ UNCHANGED <<inbound, owned, equipped>>
        BY <1>8 DEF PopEnds, game_vars
  <2>2. rec \in DrainType /\ (rec.at \in {"diff", "write", "unequip"} => rec.last # None)
        BY <1>1 DEF DrainType
  <2> HIDE DEF rec
  <2>3. QED  BY <1>1, <1>5, <2>1, <2>2
<1>9. CASE ReportStripped(d)
  <2> DEFINE rec == [drain[d] EXCEPT !.at = "write"]
  <2>1. /\ drain[d].at = "diff" /\ drain' = [drain EXCEPT ![d] = rec]
        /\ UNCHANGED <<inbound, owned, equipped>>
        BY <1>9 DEF ReportStripped
  <2>2. rec \in DrainType /\ rec.last = drain[d].last  BY <1>1 DEF DrainType
  <2> HIDE DEF rec
  <2>3. QED  BY <1>1, <1>5, <2>1, <2>2
<1>10. CASE WriteOwned(d)
  <2> DEFINE rec == [drain[d] EXCEPT !.at = "unequip"]
  <2>1. /\ drain[d].at = "write" /\ drain' = [drain EXCEPT ![d] = rec]
        /\ owned' = drain[d].last /\ UNCHANGED <<inbound, equipped>>
        BY <1>10 DEF WriteOwned
  <2>2. rec \in DrainType /\ rec.last = drain[d].last /\ rec.at = "unequip"
        BY <1>1 DEF DrainType
  <2> HIDE DEF rec
  <2>3. drain[d].last \in SUBSET Badges  BY <1>1, <2>1
  <2>4. TypeOK' /\ Threads' = Threads /\ drain'[d] = rec
        BY <1>1, <1>4, <2>1, <2>2, <2>3
  <2>5. EquippedIsOwned'  BY <2>1, <2>2, <2>4 DEF EquippedIsOwned
  <2>6. QED  BY <1>3, <2>4, <2>5 DEF IInv
<1>11. CASE Unequip(d)
  <2>1. /\ drain[d].at = "unequip" /\ drain' = [drain EXCEPT ![d] = IdleDrain]
        /\ equipped' = equipped \cap drain[d].last /\ UNCHANGED <<inbound, owned>>
        BY <1>11 DEF Unequip
  <2>2. IdleDrain \in DrainType /\ IdleDrain.at = "idle"  BY DEF IdleDrain, DrainType
  <2>3. /\ TypeOK' /\ Threads' = Threads /\ \A e \in Threads : e # d => drain'[e] = drain[e]
        BY <1>1, <1>4, <2>1, <2>2
  <2>4. EquippedIsOwned'
    <3>1. SUFFICES ASSUME NEW b \in equipped' \ owned'
          PROVE  \E e \in Threads : drain'[e].at = "unequip" /\ b \notin drain'[e].last
          BY <2>3 DEF EquippedIsOwned
    <3>2. PICK e \in Threads : drain[e].at = "unequip" /\ b \notin drain[e].last
          BY <1>1, <2>1, <3>1 DEF EquippedIsOwned
    <3>3. e # d  BY <2>1, <3>1, <3>2
    <3>4. QED  BY <2>3, <3>2, <3>3
  <2>5. QED  BY <1>3, <2>3, <2>4 DEF IInv
<1>12. QED  BY <1>6, <1>7, <1>8, <1>9, <1>10, <1>11 DEF DrainStep

-----------------------------------------------------------------------------
(* The game, the AP server and the faults. *)

\* The game's own badge menu, pickups and saves keep it.
LEMMA GameIInv ==
    ASSUME IInv, Game
    PROVE  IInv'
<1>1. /\ TypeOK /\ DenyUnderWay /\ EquippedIsOwned /\ (session = "none" => pipe = <<>>)
      /\ owned \subseteq Badges /\ equipped \subseteq Badges /\ saved \subseteq Badges
      /\ picked \subseteq Badges /\ faults \in 0..MaxFaults /\ save_loaded \in BOOLEAN
      BY DEF IInv, TypeOK
<1>2. UNCHANGED <<ap_vars, bridge_vars, link_vars, inbound, denied, drain>>
      BY DEF Game, LoadSave, SaveGame, PickUp, Equip, mod_vars
<1>3. DenyUnderWay' /\ (session' = "none" => pipe' = <<>>) /\ Threads' = Threads
      BY <1>1, <1>2 DEF DenyUnderWay, Threads, bridge_vars, link_vars
<1>4. /\ owned' \subseteq Badges /\ equipped' \subseteq Badges /\ saved' \subseteq Badges
      /\ picked' \subseteq Badges
      BY <1>1 DEF Game, LoadSave, SaveGame, PickUp, Equip
<1>5. faults' \in 0..MaxFaults /\ save_loaded' \in BOOLEAN
  <2>1. CASE LoadSave
    <3>1. /\ save_loaded => faults < MaxFaults /\ save_loaded' = TRUE
          /\ faults' = IF save_loaded THEN faults + 1 ELSE faults
          BY <2>1 DEF LoadSave
    <3>2. QED  BY <1>1, <3>1, <2>1, Params DEF LoadSave
  <2>2. CASE SaveGame \/ \E b \in Badges : PickUp(b) \/ Equip(b)
        BY <1>1, <2>2 DEF SaveGame, PickUp, Equip, mod_vars
  <2>3. QED  BY <2>1, <2>2 DEF Game
<1>6. TypeOK'
      BY <1>1, <1>2, <1>3, <1>4, <1>5 DEF TypeOK, ap_vars, bridge_vars, link_vars
<1>7. EquippedIsOwned'
      BY <1>1, <1>2, <1>3 DEF EquippedIsOwned, Game, LoadSave, SaveGame, PickUp, Equip
<1>8. QED  BY <1>3, <1>6, <1>7 DEF IInv

\* Lost links, restarts, reboots and AP's comings and goings keep it.
LEMMA FaultIInv ==
    ASSUME IInv, Fault \/ ConnectAp \/ \E i \in Items : SendItem(i)
    PROVE  IInv'
<1> USE Params
<1>1. /\ TypeOK /\ DenyUnderWay /\ EquippedIsOwned /\ (session = "none" => pipe = <<>>)
      BY DEF IInv
<1>2. CASE ConnectAp \/ \E i \in Items : SendItem(i)
  <2>1. /\ UNCHANGED <<bridge_vars, link_vars, mod_vars, game_vars, faults>>
        /\ server' \subseteq Items /\ ap' \in {"down", "up", "in"}
        BY <1>1, <1>2 DEF ConnectAp, SendItem, TypeOK
  <2>2. TypeOK'
        BY <1>1, <2>1 DEF TypeOK, Threads, bridge_vars, link_vars, mod_vars, game_vars
  <2>3. /\ DenyUnderWay' /\ EquippedIsOwned' /\ (session' = "none" => pipe' = <<>>)
        BY <1>1, <2>1
        DEF DenyUnderWay, EquippedIsOwned, Threads, bridge_vars, link_vars, mod_vars, game_vars
  <2>4. QED  BY <2>2, <2>3 DEF IInv
<1>3. CASE Fault
  <2>1. faults' \in 0..MaxFaults  BY <1>1, <1>3 DEF Fault, TypeOK
  <2>2. CASE LoseAp
    <3>1. /\ ap' = "down" /\ items_received' \in {items_received, {}}
          /\ UNCHANGED <<server, powerup_gating, itemget_deny_mask, link_vars, mod_vars,
                         game_vars>>
          BY <2>2 DEF LoseAp
    <3>2. TypeOK'
          BY <1>1, <2>1, <3>1 DEF TypeOK, Threads, link_vars, mod_vars, game_vars
    <3>3. /\ DenyUnderWay' /\ EquippedIsOwned' /\ (session' = "none" => pipe' = <<>>)
          BY <1>1, <3>1 DEF DenyUnderWay, EquippedIsOwned, Threads, link_vars, mod_vars, game_vars
    <3>4. QED  BY <3>2, <3>3 DEF IInv
  <2>3. CASE LoseLink \/ RestartBridge
    <3>1. /\ session' = "none" /\ pipe' = <<>> /\ server' = server
          /\ UNCHANGED <<mod_vars, game_vars>>
          /\ \/ UNCHANGED <<ap_vars, bridge_vars>>
             \/ /\ ap' = "down" /\ items_received' = {} /\ powerup_gating' = FALSE
                /\ itemget_deny_mask' = {}
          BY <2>3 DEF LoseLink, RestartBridge, ap_vars
    <3>2. /\ ap' \in {"down", "up", "in"} /\ items_received' \subseteq Items
          /\ powerup_gating' \in BOOLEAN /\ itemget_deny_mask' \subseteq PowerUps
          BY <1>1, <3>1 DEF TypeOK, ap_vars, bridge_vars
    <3>3. TypeOK'
          BY <1>1, <2>1, <3>1, <3>2 DEF TypeOK, Threads, mod_vars, game_vars
    <3>4. /\ DenyUnderWay' /\ EquippedIsOwned' /\ (session' = "none" => pipe' = <<>>)
          BY <1>1, <3>1 DEF DenyUnderWay, EquippedIsOwned, Threads, mod_vars, game_vars
    <3>5. QED  BY <3>3, <3>4 DEF IInv
  <2>4. CASE RebootSwitch
    <3>1. /\ session' = "none" /\ pipe' = <<>> /\ inbound' = <<>> /\ denied' = {}
          /\ save_loaded' = FALSE /\ drain' = [d \in Threads |-> IdleDrain]
          /\ owned' = {} /\ equipped' = {}
          /\ UNCHANGED <<ap_vars, bridge_vars, saved, picked>>
          BY <2>4 DEF RebootSwitch
    <3>2. Threads' = Threads /\ \A d \in Threads : drain'[d] = IdleDrain
          BY <3>1 DEF Threads
    <3>3. IdleDrain \in DrainType /\ IdleDrain.at = "idle"
          BY DEF IdleDrain, DrainType
    <3>4. drain' \in [Threads' -> DrainType]  BY <3>1, <3>2, <3>3
    <3>5. \A d \in Threads' : drain'[d].at \in {"diff", "write", "unequip"} =>
            drain'[d].last # None
          BY <3>2, <3>3
    <3>6. inbound' \in Seq(SUBSET Badges) /\ Len(inbound') <= RingCap
          BY <3>1
    <3>7. TypeOK'
      <4>1. /\ server' \subseteq Items /\ items_received' \subseteq Items
            /\ ap' \in {"down", "up", "in"} /\ powerup_gating' \in BOOLEAN
            /\ itemget_deny_mask' \subseteq PowerUps /\ Threads' \subseteq Drains
            /\ saved' \subseteq Badges /\ picked' \subseteq Badges
            BY <1>1, <3>1, <3>2 DEF TypeOK, ap_vars, bridge_vars
      <4>2. pipe' \in Seq(Messages) /\ session' \in {"none", "new", "greeted"}
            /\ save_loaded' \in BOOLEAN /\ denied' \subseteq PowerUps
            /\ owned' \subseteq Badges /\ equipped' \subseteq Badges
        <5>1. pipe' \in Seq(Messages)  BY <3>1
        <5>2. denied' \subseteq PowerUps /\ owned' \subseteq Badges /\ equipped' \subseteq Badges
              BY <3>1
        <5>3. QED  BY <3>1, <5>1, <5>2
      <4>3. QED  BY <2>1, <3>4, <3>5, <3>6, <4>1, <4>2 DEF TypeOK, DrainType
    <3>8. /\ DenyUnderWay' /\ EquippedIsOwned' /\ (session' = "none" => pipe' = <<>>)
          BY <3>1 DEF DenyUnderWay, EquippedIsOwned
    <3>9. QED  BY <3>7, <3>8 DEF IInv
  <2>5. QED  BY <1>3, <2>2, <2>3, <2>4 DEF Fault
<1>4. QED  BY <1>2, <1>3

\* The invariant is inductive.
LEMMA NextIInv ==
    ASSUME IInv, [Next]_vars
    PROVE  IInv'
<1>1. CASE Bridge  BY <1>1, BridgeIInv
<1>2. CASE HandleLine  BY <1>2, HandleLineIInv
<1>3. CASE Game  BY <1>3, GameIInv
<1>4. CASE Fault \/ ConnectAp \/ \E i \in Items : SendItem(i)  BY <1>4, FaultIInv
<1>5. CASE \E d \in Threads : StartDrain(d) \/ DrainStep(d)  BY <1>5, DrainIInv
<1>6. CASE UNCHANGED vars
  <2>1. TypeOK'
        BY <1>6
        DEF vars, ap_vars, bridge_vars, link_vars, mod_vars, game_vars, IInv, TypeOK, Threads
  <2>2. /\ DenyUnderWay' /\ EquippedIsOwned' /\ (session' = "none" => pipe' = <<>>)
        BY <1>6
        DEF vars, bridge_vars, link_vars, mod_vars, game_vars, IInv, DenyUnderWay,
            EquippedIsOwned, Threads
  <2>3. QED  BY <2>1, <2>2 DEF IInv
<1>7. QED  BY <1>1, <1>2, <1>3, <1>4, <1>5, <1>6 DEF Next

-----------------------------------------------------------------------------
\* The inductive invariant holds in every state: neither the ring nor the
\* drains leave their bounds.
THEOREM Invariance == Spec => []IInv
<1>1. Init => IInv  BY InitIInv
<1>2. IInv /\ [Next]_vars => IInv'  BY NextIInv
<1>3. QED  BY <1>1, <1>2, PTL DEF Spec

\* On a settled link the Switch denies the power-ups the bridge last meant it
\* to deny, whatever reconnects, reboots, restarts and losses of AP came
\* between (lan_server.py:733-757, 1244-1262; ApClient.cpp's rx thread).
THEOREM DenySettles == Spec => []DenySettled
<1>1. IInv => DenySettled
  <2>1. SUFFICES ASSUME IInv, session = "greeted", pipe = <<>>, itemget_deny_mask # {}
        PROVE  denied = itemget_deny_mask
        BY DEF DenySettled, LinkSettled
  <2>2. \A i \in 1..Len(pipe) : FALSE  BY <2>1
  <2>3. QED  BY <2>1, <2>2 DEF IInv, DenyUnderWay
<1>2. QED  BY <1>1, Invariance, PTL

\* However many guest threads drain at once, a badge that is equipped and not
\* owned is one that a drain is about to take off
\* (ApFrameBridge.cpp's drainInbound).
THEOREM EquippedAreOwned == Spec => []EquippedIsOwned
<1>1. IInv => EquippedIsOwned  BY DEF IInv
<1>2. QED  BY <1>1, Invariance, PTL
=============================================================================
