---------------------------- MODULE CheckDelivery ----------------------------
(***************************************************************************)
(* How a check that the Switch reports becomes an Archipelago              *)
(* LocationChecks: the dedup of state.py's emit_check, then                *)
(* handle_check_emitted, _flush_pending_checks, _send_client_goal and the  *)
(* Connected and DataPackage branches of _handle_ap_package, all in        *)
(* src/apworld/smbw_archipelago/client/context.py.  The AP server, its     *)
(* WebSocket and CommonContext are the environment.                        *)
(*                                                                         *)
(* One action is one task's run between two awaits.  send_msgs on a closed *)
(* socket is a silent no-op that does not suspend; on an open one it       *)
(* suspends its caller, and may raise when the connection is lost.         *)
(***************************************************************************)
EXTENDS Naturals, Sequences, FiniteSets

CONSTANTS
    Checks,       \* what the Switch can report; a check is its AP location
    CharBlocks,   \* character-block checks; the seed has the sanity option on
    TenCoins,     \* 10-coin checks; the seed has the sanity option on
    GoalCheck,    \* the check at the seed's goal location, which has no id
    NerveGoal,    \* is the goal the Bowser one?
    Lans,         \* LAN handlers that may run their callbacks at one time
    Nothing,      \* no check, no task
    Nerve,        \* the Bowser Nerve, as what an actor is working on
    MaxDrops,     \* bound on the losses of the AP connection
    MaxRepeats,   \* bound on the Switch's repeated reports of a check
    Raising       \* may send_msgs raise?

ASSUME DeliveryAssumption ==
    /\ CharBlocks \subseteq Checks /\ TenCoins \subseteq Checks
    /\ CharBlocks \cap TenCoins = {}
    /\ GoalCheck \notin CharBlocks \cup TenCoins
    /\ MaxDrops \in Nat /\ MaxRepeats \in Nat
    /\ Nothing \notin Checks \cup Nat /\ Nerve \notin Checks \cup {Nothing}
    /\ Lans \cap Nat = {}
    /\ NerveGoal \in BOOLEAN /\ Raising \in BOOLEAN

Conns  == 1..(MaxDrops + 1)     \* AP connections, and their Connected tasks
Actors == Lans \cup Conns

VARIABLES
    emitted,      \* BridgeState._emitted_keys
    goal_complete,\* BridgeState.goal_complete
    maps,         \* _location_name_to_id is not empty
    applied,      \* the slot_data toggles and goal_location_name are set
    pending,      \* _pending_checks
    sent,         \* _sent_loc_ids and locations_checked, which change together
    goal_sent,    \* _goal_status_sent
    stage,        \* where each Connected task stands
    replay,       \* the list it swapped out of _pending_checks
    busy,         \* the Connected task that runs without having suspended
    at, cur,      \* each actor: the send it awaits, for which check
    \* The AP connection.
    link,         \* "down", "room" (before Connected) or "slot"
    conns,        \* connections so far
    fate,         \* of the message an actor is sending
    \* History.
    repeats,      \* repeated reports so far
    queued,       \* checks that were ever in _pending_checks
    refunds,      \* 10-coin refunds for each check
    failed,       \* checks whose send raised
    reported,     \* locations the AP server has
    goals,        \* CLIENT_GOAL updates put on the wire
    server_goal   \* the AP server has received one

stateVars == <<emitted, goal_complete, repeats>>
ctxVars   == <<maps, applied, pending, sent, goal_sent, queued, refunds>>
taskVars  == <<stage, replay, busy>>
sendVars  == <<at, cur, fate>>
linkVars  == <<link, conns>>
apVars    == <<failed, reported, goals, server_goal>>
vars == <<stateVars, ctxVars, taskVars, sendVars, linkVars, apVars>>

TypeOK ==
    /\ emitted \subseteq Checks /\ goal_complete \in BOOLEAN
    /\ maps \in BOOLEAN /\ applied \in BOOLEAN /\ goal_sent \in BOOLEAN
    /\ pending \in Seq(Checks)
    /\ sent \subseteq Checks \ {GoalCheck}
    /\ stage \in [Conns -> {"none", "new", "tags", "scout", "flush", "done"}]
    /\ replay \in [Conns -> Seq(Checks)]
    /\ busy \in Conns \cup {Nothing}
    /\ at \in [Actors -> {"idle", "goal", "check"}]
    /\ cur \in [Actors -> Checks \cup {Nothing, Nerve}]
    /\ fate \in [Actors -> {"sure", "early", "cut"}]
    /\ link \in {"down", "room", "slot"} /\ conns \in 0..(MaxDrops + 1)
    /\ repeats \in 0..MaxRepeats
    /\ refunds \in [Checks -> Nat] /\ goals \in Nat
    /\ {queued, failed, reported} \subseteq SUBSET Checks
    /\ server_goal \in BOOLEAN

Init ==
    /\ emitted = {} /\ goal_complete = FALSE
    /\ maps = FALSE /\ applied = FALSE
    /\ pending = <<>> /\ sent = {} /\ goal_sent = FALSE
    /\ stage = [k \in Conns |-> "none"] /\ replay = [k \in Conns |-> <<>>]
    /\ busy = Nothing
    /\ at = [w \in Actors |-> "idle"] /\ cur = [w \in Actors |-> Nothing]
    /\ fate = [w \in Actors |-> "sure"]
    /\ link = "down" /\ conns = 0
    /\ repeats = 0 /\ refunds = [c \in Checks |-> 0]
    /\ queued = {} /\ failed = {} /\ reported = {}
    /\ goals = 0 /\ server_goal = FALSE

-----------------------------------------------------------------------------
(* Sending. *)

\* While a Connected task runs, the event loop runs nothing else.
Yielded == busy = Nothing

\* `await self.send_msgs(...)`: the actor suspends if the socket is open.
StartSend(w, what, c) ==
    IF link = "down"
    THEN UNCHANGED sendVars
    ELSE /\ at' = [at EXCEPT ![w] = what]
         /\ cur' = [cur EXCEPT ![w] = c]
         /\ fate' = [fate EXCEPT ![w] = IF link = "room" THEN "early"
                                                          ELSE "sure"]

\* _send_client_goal: test, await, then set.
SendClientGoal(w, c) ==
    IF goal_sent
    THEN UNCHANGED <<goal_sent, goals, sendVars>>
    ELSE /\ StartSend(w, "goal", c)
         /\ goal_sent' = (link = "down")
         /\ goals' = IF link = "down" THEN goals ELSE goals + 1

(* handle_check_emitted, up to its first suspension. *)

\* Mutation: a check that comes before the maps is dropped.
DropEarly(c) ==
    /\ ~maps
    /\ queued' = queued \cup {c}
    /\ UNCHANGED <<pending, sent, goal_sent, refunds, goals, sendVars>>

\* Before the maps are there the check waits for the replay.
QueueCheck(c) ==
    /\ ~maps
    /\ pending' = Append(pending, c)
    /\ queued' = queued \cup {c}
    /\ UNCHANGED <<sent, goal_sent, refunds, goals, sendVars>>

\* The seed has no such check, as far as the context knows, or sent it.
DropCheck(c) ==
    /\ maps
    /\ (c \in CharBlocks \cup {GoalCheck} /\ ~applied) \/ c \in sent
    /\ UNCHANGED <<pending, queued, sent, goal_sent, refunds, goals, sendVars>>

\* The goal location has no id: it is a CLIENT_GOAL.
SignalGoal(w, c) ==
    /\ maps /\ applied /\ c = GoalCheck
    /\ SendClientGoal(w, c)
    /\ UNCHANGED <<pending, queued, sent, refunds>>

\* Record the location, refund a 10-coin pickup, and send.
RecordCheck(w, c) ==
    /\ maps /\ c # GoalCheck /\ c \notin sent
    /\ c \in CharBlocks => applied
    /\ sent' = sent \cup {c}
    /\ refunds' = IF c \in TenCoins THEN [refunds EXCEPT ![c] = @ + 1]
                                    ELSE refunds
    /\ StartSend(w, "check", c)
    /\ UNCHANGED <<pending, queued, goal_sent, goals>>

HandleCheck(w, c) ==
    QueueCheck(c) \/ DropCheck(c) \/ SignalGoal(w, c) \/ RecordCheck(w, c)

\* A suspended send_msgs returns or raises.  A message sent before the slot
\* was authenticated may have been ignored, one cut off by a disconnect lost.
SendReturns(w) ==
    /\ Yielded /\ at[w] # "idle"
    /\ \E delivered, raised \in BOOLEAN :
         /\ delivered \/ fate[w] # "sure"
         /\ raised => Raising /\ fate[w] = "cut"
         /\ IF at[w] = "goal"
            THEN /\ goal_sent' = (goal_sent \/ ~raised)
                 /\ server_goal' = (server_goal \/ delivered)
                 /\ UNCHANGED <<sent, failed, reported>>
            ELSE /\ sent' = IF raised THEN sent \ {cur[w]} ELSE sent
                 /\ failed' = IF raised THEN failed \cup {cur[w]} ELSE failed
                 /\ reported' = IF delivered THEN reported \cup {cur[w]}
                                             ELSE reported
                 /\ UNCHANGED <<goal_sent, server_goal>>
    /\ at' = [at EXCEPT ![w] = "idle"]
    /\ cur' = [cur EXCEPT ![w] = Nothing]
    /\ fate' = [fate EXCEPT ![w] = "sure"]
    /\ busy' = IF w \in Conns THEN w ELSE busy
    /\ UNCHANGED <<stateVars, maps, applied, pending, queued, refunds, stage,
                   replay, linkVars, goals>>

-----------------------------------------------------------------------------
(* The Switch's reports, in the LAN handlers. *)

\* Mutation: every report is let through.
EmitAlways(c) == TRUE

\* BridgeState.emit_check: only the first report of a check is let through.
EmitCheck(c) == c \notin emitted

Fire(w, c) ==
    /\ Yielded /\ at[w] = "idle"
    /\ c \in emitted => repeats < MaxRepeats
    /\ repeats' = IF c \in emitted THEN repeats + 1 ELSE repeats
    /\ emitted' = emitted \cup {c}
    /\ IF EmitCheck(c)
       THEN HandleCheck(w, c)
       ELSE UNCHANGED <<pending, queued, sent, goal_sent, refunds, goals,
                        sendVars>>
    /\ UNCHANGED <<goal_complete, maps, applied, taskVars, linkVars, failed,
                   reported, server_goal>>

\* The GameGoalReached Nerve: handle_goal_completed, which assumes the
\* Bowser goal as long as it knows none.
FireNerve(w) ==
    /\ Yielded /\ at[w] = "idle" /\ ~goal_complete
    /\ goal_complete' = TRUE
    /\ IF applied /\ ~NerveGoal
       THEN UNCHANGED <<goal_sent, goals, sendVars>>
       ELSE SendClientGoal(w, Nerve)
    /\ UNCHANGED <<emitted, repeats, maps, applied, pending, sent, queued,
                   refunds, taskVars, linkVars, failed, reported, server_goal>>

-----------------------------------------------------------------------------
(* The Connected tasks. *)

\* The slot_data toggles are set, then the scouts are sent.
ApplySlotData(k) ==
    /\ applied' = TRUE
    /\ stage' = [stage EXCEPT ![k] = "scout"]

\* The Connected task starts: rebuild the maps; update_death_link suspends
\* when it changes the tags.
ConnectedStarts(k) ==
    /\ Yielded /\ stage[k] = "new"
    /\ maps' = TRUE
    /\ \/ stage' = [stage EXCEPT ![k] = "tags"] /\ UNCHANGED applied
       \/ ApplySlotData(k)
    /\ UNCHANGED <<stateVars, pending, sent, goal_sent, queued, refunds,
                   replay, busy, sendVars, linkVars, apVars>>

TagsUpdated(k) ==
    /\ Yielded /\ stage[k] = "tags"
    /\ ApplySlotData(k)
    /\ UNCHANGED <<stateVars, maps, pending, sent, goal_sent, queued, refunds,
                   replay, busy, sendVars, linkVars, apVars>>

\* Mutation: the pending list is not taken up.
FlushNothing(k) ==
    /\ Yielded /\ stage[k] = "scout"
    /\ stage' = [stage EXCEPT ![k] = "flush"]
    /\ busy' = k
    /\ UNCHANGED <<stateVars, maps, applied, sent, goal_sent, queued, refunds,
                   sendVars, linkVars, apVars, replay, pending>>

\* _flush_pending_checks swaps the list ...
StartFlush(k) ==
    /\ Yielded /\ stage[k] = "scout"
    /\ stage' = [stage EXCEPT ![k] = "flush"]
    /\ replay' = [replay EXCEPT ![k] = pending]
    /\ pending' = <<>>
    /\ busy' = k
    /\ UNCHANGED <<stateVars, maps, applied, sent, goal_sent, queued, refunds,
                   sendVars, linkVars, apVars>>

\* ... and handles its checks one after the other.
ReplayNext(k) ==
    /\ stage[k] = "flush" /\ busy = k
    /\ IF replay[k] = <<>>
       THEN /\ stage' = [stage EXCEPT ![k] = "done"]
            /\ busy' = Nothing
            /\ UNCHANGED <<replay, pending, queued, sent, goal_sent, refunds,
                           goals, sendVars>>
       ELSE /\ HandleCheck(k, Head(replay[k]))
            /\ replay' = [replay EXCEPT ![k] = Tail(@)]
            /\ busy' = IF at'[k] = "idle" THEN k ELSE Nothing
            /\ UNCHANGED stage
    /\ UNCHANGED <<stateVars, maps, applied, linkVars, failed, reported,
                   server_goal>>

-----------------------------------------------------------------------------
(* The AP connection. *)

OpenSocket ==
    /\ Yielded /\ link = "down" /\ conns <= MaxDrops
    /\ link' = "room"
    /\ conns' = conns + 1
    /\ UNCHANGED <<stateVars, ctxVars, taskVars, sendVars, apVars>>

\* A DataPackage may come before Connected; it builds the maps too.
DataPackage ==
    /\ Yielded /\ link = "room" /\ ~maps
    /\ maps' = TRUE
    /\ UNCHANGED <<stateVars, applied, pending, sent, goal_sent, queued,
                   refunds, taskVars, sendVars, linkVars, apVars>>

\* Connected: CommonContext sends locations_checked again, and on_package
\* creates the task.
Connected ==
    /\ Yielded /\ link = "room"
    /\ link' = "slot"
    /\ reported' = reported \cup sent
    /\ stage' = [stage EXCEPT ![conns] = "new"]
    /\ UNCHANGED <<stateVars, ctxVars, replay, busy, sendVars, conns, failed,
                   goals, server_goal>>

Disconnect ==
    /\ Yielded /\ link # "down" /\ conns <= MaxDrops
    /\ link' = "down"
    /\ fate' = [w \in Actors |-> IF at[w] = "idle" THEN "sure" ELSE "cut"]
    /\ UNCHANGED <<stateVars, ctxVars, taskVars, at, cur, conns, apVars>>

Next ==
    \/ \E w \in Lans, c \in Checks : Fire(w, c)
    \/ \E w \in Lans : FireNerve(w)
    \/ \E w \in Actors : SendReturns(w)
    \/ \E k \in Conns : ConnectedStarts(k) \/ TagsUpdated(k)
    \/ \E k \in Conns : StartFlush(k) \/ ReplayNext(k)
    \/ OpenSocket
    \/ DataPackage
    \/ Connected
    \/ Disconnect

\* The event loop runs, sends return, and CommonContext reconnects.
Fairness ==
    /\ \A k \in Conns :
         WF_vars(ConnectedStarts(k) \/ TagsUpdated(k) \/ StartFlush(k)
                   \/ ReplayNext(k))
    /\ \A w \in Actors : WF_vars(SendReturns(w))
    /\ WF_vars(OpenSocket) /\ WF_vars(Connected)

Spec     == Init /\ [][Next]_vars
FairSpec == Spec /\ Fairness

-----------------------------------------------------------------------------
\* A check is still on its way, or will be sent again on the next Connected.
OnItsWay(c) ==
    \/ \E i \in 1..Len(pending) : pending[i] = c
    \/ \E k \in Conns : \E i \in 1..Len(replay[k]) : replay[k][i] = c
    \/ \E w \in Actors : cur[w] = c
    \/ c \in sent

\* No check is lost: a report that the dedup let through, and whose send did
\* not raise, is on its way or with the AP server, although every later
\* report of it is swallowed.  For the kinds that depend on slot_data, this
\* holds of the checks that were queued for the replay
\* (context.py:1687-1694, 1757-1759; test_context_pending_checks.py:11-15).
NoneLost ==
    \A c \in (emitted \ failed) \ {GoalCheck} :
      (c \notin CharBlocks \/ c \in queued) => OnItsWay(c) \/ c \in reported

\* At most one refund for one in-game pickup, whatever fails and is reported
\* again (context.py:1779-1780).
RefundOnce == \A c \in TenCoins : refunds[c] <= 1

\* The AP server is told of each of those checks in the end.
Delivered ==
    \A c \in Checks \ ({GoalCheck} \cup CharBlocks) :
      (c \in emitted) ~> (c \in reported \cup failed)

(* Claims of the comments and tests that the code does not keep. *)

\* "A pre-connect check is queued, not dropped, and sent on Connected."
CharBlocksKept ==
    \A c \in (emitted \ failed) \cap CharBlocks :
      OnItsWay(c) \/ c \in reported

\* "a check whose send_msgs silently no-op'd during a mid-session disconnect
\* still reaches the server on reconnect": not the goal's, whose latch is set
\* although no CLIENT_GOAL was ever sent.
GoalKept == goal_sent => goals > 0

\* "Send the StatusUpdate(CLIENT_GOAL) at most once per session."
GoalOnce == goals <= 1

\* CLIENT_GOAL is sent for a Bowser kill "only if the player's chosen goal is
\* the Bowser one".
NoFalseGoal ==
    server_goal => GoalCheck \in emitted \/ (NerveGoal /\ goal_complete)
=============================================================================
