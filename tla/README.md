# A verification development for the SMB Wonder Archipelago bridge

These modules model the parts of this repository where ordering, waiting and
failure decide whether the program is right: the Switch mod's synthetic-kill
machine, rings and network client (`src/switch-mod/src/`, C++), the bridge's LAN
session, event processor, check delivery, level-entry gate and item pushes
(`src/apworld/smbw_archipelago/client/`, Python asyncio), the line format between
the two, open-world mode from generation to play with the tracker's logic, and the setup wizard.  TLC
checks each one on a small instance.  TLAPS proves what nine of them must never do
for every value of their constants, and that the ring is a queue.

    tlc -workers 2 -config DeathLink.cfg DeathLink.tla      # any run: <name>.cfg
    tlapm GateKill_proofs.tla                               # any proofs: <module>_proofs.tla
    tlapm Switch_proofs.tla                                 # those of DeathLink and SpscRing
    tlapm Context_proofs.tla                                # those of CheckDelivery and ClientSync

A run `M` or `M_x` is a run of module `M`, or of `MCM` where there is one.
`PROJECT.json` maps every definition to the source lines it stands for, and lists
the components, runs, mutations, findings, hazards and theorems.  Source paths
below are shortened: `client/` and `_setup/` are under `src/apworld/smbw_archipelago/`,
and the C++ names under `src/switch-mod/src/`.

## 1. The system

    AP server <--websocket--> SMBWContext (client/context.py)
                                  |  callbacks, send_* calls
                  processor.py <- LanServer (client/lan_server.py)    discovery.py
                                  |  one TCP connection, JSON lines        |  UDP
                              ApClient (ap/ApClient.cpp, network thread), ApDiscovery
                                  |  two rings (ap/ApState.hpp)
                              ApFrameBridge, main.cpp hooks (game thread)
                                  |
                              probe/*: DeathLink, gates, containers -> the game

    World generation (open_world.py, Rules.py, hooks/*) fixes the slot before play;
    the setup wizard (_setup/*) builds and installs the mod.

| Component | State | Operations | What is hard | What makes it correct |
|---|---|---|---|---|
| Synthetic kills, `probe/DeathLink.cpp`, `probe/Gates.cpp` | liveness tick, session start, three deadlines (window, guard, pending), urgency, scene latch | service per frame, kill, death Nerve, scene transition | deadlines that race; one pending slot for two kinds of kill; a guard that must cover exactly its own death | no late, carried-over, echoed or doubled kill; only gate kills skip the settle time |
| Rings, `ap/ApState.hpp` | `head_`, `tail_`, `buf_` | push, pop | several hook threads pop; a weak CAS; wrap-around; every thread that logs pushes to a ring for one producer | inbound: FIFO, each element once and whole, pop returns; outbound: what overlapping pushes lose or repeat breaks no more than a lost record does |
| LAN session, `client/lan_server.py` | active writer, send queue, writer and sync tasks, client lock, pending increments | accept, install, drop, read, drain, stop, send | two connections during a reconnect; tasks awaited under the lock; coalescing across awaits | one session; increments neither lost nor doubled; a lost peer is taken down |
| Level-entry gate, `client/context.py`, `processor.py`, `state.py` | current course and in-course latch, kill task, banner | course in/out, Hello, arm, tick, cancel | cancellation of a task that sleeps, is ready, or never ran; stale latch | one countdown; full grace; an honest banner; a justified kill, in the end |
| Check delivery and goal, `client/context.py`, `state.py` | emitted keys, maps and toggles, pending checks, sent ids, goal latch | emit, handle, replay, Connected, DataPackage | Connected awaits half-way; sends that silently fail or raise | every check reaches the server; one refund per pickup |
| Received items and absolute pushes, `client/context.py`, `lan_server.py` | `items_received`, the recomputed masks, the last ones sent | ReceivedItems, Hello and periodic replays | restarts of either side; drains on several threads; a zero mask is not replayed | the game shows what AP granted, in the end |
| Event processor, `client/processor.py`, `state.py` | current course and character, emitted keys, results | one handler per record | several records for one event, attributed by memory; records lost on the way | no check that was not earned; none missed that was not lost |
| Network client, `ap/ApClient.cpp`, `util/Log.cpp` | socket, connection state, read buffer | resolve, connect, Hello, pump, poll, receive, handle | a receive that ends inside a line; log lines that cause log lines; a record popped and not sent | every line is taken as it was meant; the two sides come to rest |
| Wire format, `wire.py`, `ApProtocol.cpp`, `Json.cpp` | none | encode, decode | two hand-kept halves: widths and signs, texts cut by characters or octets, unknown fields, a full line buffer | what one side sends the other understands |
| Discovery, `ApDiscovery.cpp`, `discovery.py` | advertised address, cached target | bind, answer, probe | addresses that change; a responder that cannot bind | a bridge that runs is found |
| Frame bridge, `ap/ApFrameBridge.cpp` | last applied masks | drain, encode | the last of several absolute updates must win | the game shows the last mask |
| Open world, `open_world.py`, `Rules.py`, `hooks/World.py`, `context.py` | region table shared by all slots, graph, pool, rules; castle latch | one stage after another for every slot; gates in play | shared table edited and restored across hooks; logic, gates and roads described three times | no slot bleeds into another; a tracker gets the same seed; what fill can win the player can |
| PopTracker logic, `scripts/generate_tracker_logic.py` | none kept: Lua tables and the items of the tracker | compile a requires string, evaluate regions and locations | a second evaluator, another parser, worlds unlocked by display strings | a location is green just when the rules let it be reached |
| Setup wizard, `_setup/*` | tools, interpreters, packages, extracted sources, cmake cache, junction, deployed files | probe, install, link, configure, build, deploy | what an earlier, half-failed run left; reuse of a build for another address or interpreter | success means the right files; no failure wedges the next run |
| DeathLink bounce, `client/context.py` | last death time | on_deathlink, handle_death_reported | loops between slots | a death is sent once |
| Character and badge-shop gates, `probe/CharaGate.cpp`, `BadgeShop.cpp`, `ItemGetGate.cpp` | masks, selection state, freshness clock | sweep, arm | writes to memory the game changes too | a locked item cannot be used |
| Console, `client/commands.py` | badge probe, deny override, bits ruled out | probe, override, manual pushes | overrides that outlive what they test | the mod shows what the context computes |
| Containers, tracing, tables, GUI | | | | |

How they interact.  The game's hooks produce records that the network thread
sends as lines; `LanServer` runs the processor on each and *awaits* the context's
callback before it reads the next line of that connection.  In the other
direction the context's `send_*` calls post to the current session's queue (or
drop), its writer task writes lines, the network thread pushes to the inbound
ring, and a game-thread hook pops and applies.  `BridgeState` and the context are
shared by all handlers without a lock: one asyncio loop runs them, so state
can change only across an `await`.  Actions are therefore cut at the awaits
that really suspend, and nowhere else.

How the modules divide it.  A check goes from the game to the bridge in `EventPath`
(over `Processor`), on lines that `Wire` (over `WireFormat`) reads and writes, through
the rings of `SpscRing`, to the AP server in `CheckDelivery`; an item comes back in
`ItemSync` and, for every kind of state, `ClientSync`; the session that carries both is `LanSession`.  `GateKill` and `DeathLink`
are the two ends of a kill, and `OpenWorld` (over
`Requires`) says which courses are gated and whether a seed can be won; `Tracker` shows the same to the player.  `Setup` stands apart.

The hazards, with their lines and the properties that stand against them, are in
`PROJECT.json`.

## 2. The modules

A module `M_proofs` holds the theorems about `M`, `Switch_proofs` those about `DeathLink` and
`SpscRing`, `Context_proofs` those about `CheckDelivery` and `ClientSync` (section 5).  Two that
share a module have names of their own: the ring's specification is `RingSpec` and its theorem
`RingInvariance`; those of `ClientSync` are `SyncSpec`, `SyncFairSpec` and `SyncInvariance`.

### DeathLink.tla

Each variable is one global of `DeathLink.cpp` or `Gates.cpp`, plus the game facts
those functions read and write (HP, the edge latch, the dying player) and counters
that only the properties read.  `ServiceDeathLink` is the whole of
`serviceDeathLink` (refresh, pending kill, kill window), `HandleKill` is
`synthKill` with `requestPendingDeathLink`, `DeathNerveBody` is the Nerve hook's
death branch with `consumeSyntheticDeathThisFrame`.  A hook is three steps:
service, drain loop (`DrainKill`, `DrainDone`), body.  Time stands still inside
a hook; 0 is the code's "none".

Assumptions: one game thread runs every hook, as `main.cpp:701-702` says
(`ApState.hpp:61-70` saw four; that refinement is planned); the save-loaded latch
is set; a synthetic death's Nerve follows its request in less than a tick;
with `Pausing = FALSE` the player tick never pauses longer than the freshness
window without a scene load, which re-creates the HP struct.

### SpscRing.tla and BoundedQueue.tla

`SpscRing` has one action per access of shared memory in `push` and `pop`; writing
an element takes two, so that a torn read is visible.  `BoundedQueue` is what the
ring promises, and `Implements == Queue!Spec` is the refinement: the queue's items
are the slots from `tail` to `head`, an element is put when `head_` is published and
taken when the exchange succeeds.  The atomics are sequentially consistent here
(the code's are acquire/release).  With `Lapping = FALSE` no pop lasts until the ring
has gone once around (256 pushes in the code, on either ring), the premise on which
`ApState.hpp:74-76` calls its exchange free of ABA.  One thread pushes, as on the inbound
ring.  The outbound ring has one consumer and as many producers as threads log
(`ApState.hpp:42-48`); what its unguarded `push` comes to there is in `EventPath` and `Wire`.

### LanSession.tla

One action is one task's run between two suspending awaits.  `Acquire`,
`EnterLocked`, `DropAfterSync`, `DropAfterWriter`, `FinishDrop` are the lock and
`_drop_active_client_locked`, with the rest of the caller it returns to
(`_install_client`, a handler's `finally`, or `stop`).  `ReadLine` and
`HelloBody` are the read loop; `WriterDrain`, `WriterWrite`, `SendIncrement` the
coalesced increments.  `asyncio.Lock` is FIFO.  Buffered lines outlive an EOF
and the server's own close; a reset discards them.  The Switch opens its next
connection after it gave up the last, but the server may learn of the two in either
order.  A behaviour begins in one of `Starts`, with so many of the increments and lines used
up: a bound, so that the run has one or the other.  The fire-and-forget pushes are `ClientSync`'s.

### GateKill.tla

`HandleCourseIn` and `HandleCourseOut` are the processor's latch, with
`GateEntered` as `handle_gate_entered`; `RunTask` is one run of `_gate_kill_loop`
from one sleep to the next (`CheckStop`, `LoopRun`, `NextWindow`, `Finish`), taken
from the event loop's ready queue in order.  A cancelled task ends in its turn,
and one that never started never runs its `finally`.  Which courses are gated is a
constant; the badge, world and Bowser requirements are "the course's item is
owned", and the option with its badge sub-toggle is the one flag `gating`.  On the Switch side
a kill hits the player who is in a course, and is parked otherwise; a reboot
empties the Switch, a reconnect loses what was on the wire.

### CheckDelivery.tla

`Fire` is a LAN handler's `emit_check` followed by `handle_check_emitted`
(`QueueCheck`, `DropCheck`, `SignalGoal`, `RecordCheck`) up to its first
suspension; `SendReturns` is the rest.  A Connected package's handler runs
in a task of its own (`ConnectedStarts`, `TagsUpdated`, `StartFlush`, `ReplayNext`),
with `busy` naming it while it runs without suspending.  A
send on a closed socket returns without doing anything; one in flight at a
disconnect may be lost, delivered, or raise.  `CommonContext` (external) re-sends
`locations_checked` on every Connected.

### ItemSync.tla and MCItemSync.tla

Two masks stand for the two ways an absolute push takes.  The owned badges are pushed
always, go through the inbound ring and are applied by a drain (`StartDrain`, `PopOne`,
`PopEnds`, then `setBadgeBitfieldAbsolute` as `ReportStripped` and `WriteOwned`, and
`clearEquippedBadgesNotOwned` as `Unequip`); Wonder Seeds, routable worlds and
force-cleared courses go the same way.  The power-up deny mask is stored by the network
thread and is not replayed while it and the last one sent are zero; unlocked characters
and the shop masks are like it.  `HandleHello`, `Tick`, `HandleConnected` and
`HandleReceivedItems` are the bridge's four reasons to push.  `pipe` is the send queue
and the socket together, lost as a whole with the link.  The drain's threads
are cut at each access of shared memory, because `ApState.hpp:61-70` saw four of them.
Of the drain's two gates the save latch is modelled; the 3 s scene window only delays a
drain.  Whether `CommonContext` forgets the items when AP goes is not known from this
repository: `LoseAp` allows both.  A behaviour begins in one of `Starts`: which threads
drain in it, which items the server holds already and how many of the faults are spent,
a bound that lets one instance have the faults and another the threads.

### ClientSync.tla and MCClientSync.tla

Every absolute push up to the mod: badges, deny mask, characters, seed counts and bits, routable
worlds, the unlock batch, force-cleared courses, the two shops and their text, and the two that only the
console sends.  `ctx` is the context, with a field for each attribute a push depends on; one operator
for each `_recompute_*` computes from it, and `Value` picks the one followed.  No kind is computed from
or held back by another, so a behaviour follows one `kind`, and only what feeds that kind happens in it.
`HandleConnected`, `HandleReceivedItems`, `HandleRoomUpdate`, `HandleLocationInfo`, `CheckEmitted`
and the `cmd_*` of `client/commands.py` change the context and push what the code pushes there;
`HandleHello` and `Tick` replay (`Replay`, with `Skipped` and the texts' cache in `last`).
`Accepted` is what runs before `update_death_link` is awaited: item packets have a task of their own and
may be handled in between.  `view` is what the mod was told, which a reboot clears.

### Processor.tla, EventPath.tla and MCEventPath.tla

`Processor` is `processor.py` and the part of `state.py` it writes, as operators with no
behaviour of their own: `ChecksOf` a record, with `ResultChecks`, `SeedChecks`,
`BlockChecks`, `BossChecks` and `ShopChecks` for the record kinds, `Process` for the state
after it, and `Gate` for what `_handle_course_in` asks the level-entry gate.  A check is the
key `emit_check` dedups by.  The four tables by stage are fields of a stage.

`EventPath` drives it.  The player's actions (`Enter`, `TakeSeed`, `HitBlock`, `Die`,
`Clear`, `Quit`, `LoseToBoss`, `BuyBadge`, `BuySeed`) put the records of the hooks that fire
into the ring, which drops them when it is full (`Enqueue`).  `push` is for one producer, but
`util::log` pushes to this ring from every thread: a push that read `head_` before those of others
and stores it after them sets it back, over records not yet sent, which are lost (`OverlapLoses`),
or behind `tail_`, so that the worker goes on to what the slots hold from earlier, oldest first
(`OverlapReplays`; `spare` is what they hold).  `Resolve`, `ConnectOnce`,
`PumpOutbound` and `Disconnect` are the network thread, `Start`, `Stop` and `Serving` the
bridge with its discovery responder, `Dispatch` the LAN session's read loop with the
processor.  Faults are a lost link, a bridge that exits (with its state), a host that is
renumbered and overlapping pushes.  `at` is the visit: its stage, its character, and the character that its `course_in`
reported, which may be none.  `done`, `owed`, `paired` and `credited` are history: what the player achieved,
what of it the records should show, what of that two records show, and what was emitted.

Taken of overlapping pushes: a record that is torn is one more lost, for what is left of it is refused
or means nothing (a small record lies in one 16-byte piece of its slot and does not tear; a PlayReport
torn so that it reads as another course is left out); a push stalls for less than one lap of the
256 slots; the log lines in between, which `Wire` has, are left out of this ring.

### OpenWorld.tla and MCOpenWorld.tla

The generator takes all slots through one stage before the next, and the model does the
same: `GenerateEarly` (worlds, start, thresholds, and the pins of a tracker),
`CreateRegions` (`Restructure`, `StripInactive`, `UngateOpeningCourse`), `CreateItems`,
then `BeforeSetRules`, `SetRules`, `AfterSetRules` with `Restore`, which edit and mend the
region table that all slots share.  `Place` is any placement that AP's fill may choose for the
slot that is played, `Play` checks a location that the roads (`Walkable`) and the client's
gates (`Bounced`: `Gate` of `Processor`, `RequirementMet`, `LockedWorlds`, the castle latch)
let the player reach.  A connection is handled in two tasks: Connected, cut in `Accepted` and
`Connected` at the await of `update_death_link`, and `ReceivedItems`, which may come before, between
or after.  `applied` says that the client has read slot_data once: until then it knows of no
open world and gates accordingly (`InOpenWorld`).  When the items are handled ahead of the reset of
`_bowser_opened`, the castle stays closed (`LatchLost`, section 4).  `GatesMatchLogic` speaks of a client
that has handled both (`Settled`), and asks nothing of the castle's courses while the latch is lost;
`Beatable` lets a player who is stuck there off, and `BeatableInAnyOrder`, which does not, fails.
What the slot may receive of its data is `FillSlotData`, and the context's
`apply_slot_data` reads it back.  A requirement is a set of requires strings.

### Requires.tla and Tracker.tla

`Requires` evaluates a string as `Rules.py` does: the atoms looked up, `OptOne` clamped to what the
pool has, `infix_to_postfix` with one precedence for both operators, `evaluate_postfix`.  Strings are
sequences of tokens; how the characters make one is left out.

`Tracker` is the Lua that `generate_tracker_logic.py` writes, by its value: `ItemAtom` compiles
an atom, `Region_full` and `smbw_loc` are the region and location functions, `Green` is what
PopTracker shows for what `OpenWorld`'s player has received.  `pyeval`, `open_full` and `py_open_access` are the
reference model of `_validate_tracker_logic.py`, cut the same way.  There AND binds tighter than OR; the
data mixes the two only in parentheses, so the precedences agree.  The cache of region results
within one evaluation is left out.  `MCOpenWorld` extends `Tracker`.

### Setup.tla and MCSetup.tla

One run is one process of the wizard: `Probe` (one operator per detector), `Install` (in
`INSTALL_ORDER`, each with its `Preflight`), `run_junction` (with `install_junction`), the bundled sources in four
steps (`Stage`, `RemoveOld`, `SwapIn`, `Mark`), `Decide` with `NeedConfigure`,
`cmake_configure` with `apply_patches`, `cmake_build`, and `Deploy`, file by file.  Each
step may fail, and `Die` may end the process anywhere, leaving what is on the disk
(`HalfLinked`, `HalfRemoved`, `HalfConfigured`, `HalfExtracted`).  Between runs the user
upgrades the apworld, repairs what the wizard asked for (`Fix*`), gets another interpreter, loses
packages or the network.

### WireFormat.tla, Wire.tla and MCWire.tla

`WireFormat` holds both halves of the line format.  For the bridge, each message class of
`wire.py` with its fields and their widths (`Classes`), `to_wire` with the way each text is
cut, and the readers (`Admits`, `decode`); for the Switch, each parser of `ApProtocol.cpp`
(`Parsers`, `decodeInbound`: what it reads, what it may miss, unknown fields stepped over
by `skipValue` to its depth) and each encoder, with `static_cast<int>` of a u32
(`AsInt32`) and the line buffer that may be cut off.  An integer is its sign and the set of
its bits, so that a 64-bit mask is not a number TLC would have to hold; a text is a sequence
of characters of which the ones that need two octets or an escape are told apart.

`Wire` puts the lines on a connection.  The network thread is `Pump` (or `SendFails`),
`PumpDone`, `PollTimeout` or `Receive`, `HandleLine` for each line in the buffer,
`DrainDone`; a line comes in two halves and a receive takes any number of them.  The Switch
relays every line of its log through the ring its records take, and most of what it does
writes to its log: `EnqueueLog`, `SentLog`, `Relayed` are that loop.  `Dispatch` is the
bridge's reader with its answers, `hello_ack` and `err`.  `Followers` and `LaterEvents` bound
what may come after a first move.

### Mutations

An operator commented `Mutation:` is a plausible bug in the definition that
follows it (a dropped guard, a missing reset, a swapped order).  No specification uses one.  Each
property of a passing run is violated by the mutation that `PROJECT.json` pairs it
with, so no property holds by the shape of the model alone.

## 3. The runs

The cfgs of `ItemSync`, `ClientSync` and `Wire` check for deadlock: the first two tick and the
third polls for ever.  The others say `CHECK_DEADLOCK FALSE`: the bounded clocks, entries, connections,
moves and locations run out, and a model at its bounds may stop.

| Run | Instance | Properties | States |
|---|---|---|---|
| `DeathLink` | two kills of either urgency, 7 ticks | `BypassesOwedToGates`, `OneDeathPerKill`, `NoEcho`, `NoStaleKill`, `WriteWithinRun` | 5.2 M |
| `SpscRing` | 3 slots, 2 consumers, 6 pushes | `Implements` (refinement of `BoundedQueue`), `PopReturns`, `AllDelivered` | 10 k |
| `LanSession` | 2 connections, stop; 1 increment, or 1 line each | `OneSession`, `Conservation`, `EventuallyInstalled`, `EventuallyDropped` | 258 k |
| `GateKill` | 2 gated courses and a free one, 2 entries, 1 reboot, 1 reconnect | `OneLoop`, `GraceKept`, `BannerHonest`, `GatedBounced` | 353 k |
| `CheckDelivery` | a coin, a block and a goal check, 1 disconnect, 1 repeat, raising sends | `NoneLost`, `RefundOnce`, `Delivered` | 230 k |
| `ItemSync` | 1 badge, 1 Power-Up, ring of 1; 1 drain thread and 1 fault, or 2 threads | `DenySettled`, `EquippedIsOwned`, `BadgesConverge` | 560 k |
| `ClientSync` | 13 kinds, four sorts of slot; 2 faults, 1 and a command, or 2 commands | `PromptlyShown`, `ShownInTheEnd` | 473 k |
| `EventPath` | a course with a fake exit, the final palace and a Break Time stage, ring of 2, 2 moves, 1 fault (overlapping pushes among them) | `Sound`, `Complete`, `RedundantSurvives` | 2.8 M |
| `EventPath_live` | a Break Time stage cleared for ever, a host with 2 addresses, a responder that may fail, ring of 1, 2 faults | `Reconnects`, `SeedRecovered` | 277 k |
| `OpenWorld` | 2 slots, 2 worlds with a badge-gated course, the hub and the castle; six pairs of options; reconnects | `NoBleed`, `TrackerAgrees`, `GatesMatchLogic`, `Beatable`, `TrackerShowsLogic` | 58 k |
| `Setup` | 4 machines, 2 interpreters, 2 addresses, 2 releases, 2 failures, 1 change between runs | `Fresh`, `GreenMeansImportable`, `Recovers` | 514 k |
| `Wire` | every command and record, fields of a newer bridge, 2 moves (overlapping pushes among them), ring of 2 | `CommandsUnderstood`, `ReportsUnderstood`, `Settles` | 289 k |

Why the bounds are enough.  *DeathLink*: two kills fill the single pending slot twice and
overlap in every way; the tick constants keep the order of the code's (freshness
and guard shorter than the settle time, that shorter than the pending TTL), and 7
ticks are longer than a parked kill plus its window, so expiry and firing are both
reached.  The theorems lift these bounds.  *SpscRing*: six pushes go around three slots
twice, with the ring empty and full on the way; two consumers race for the
same slot.  *LanSession*: the session fields name one connection and the lock queue holds
every task, so an install against an install, against a `finally` and against
`stop` all occur with two connections; that increments of one hash are folded while others are in
flight, for any number of them, is `IncrementsConserved` (section 5).  *GateKill*: a second entry supersedes the first's
countdown at each of its stages; `Delay = 2` separates the first second from the
last and `MaxKills = 2` reaches the cap.  *CheckDelivery*: one disconnect gives two
Connected tasks, which may overlap; the three checks stand for the three branches.
*ItemSync*: a mask is pushed or not and a badge is in it or not, so one item of each class
tells every pair of masks apart; a ring of one entry drops the second of two messages;
the ring, two threads and the pipe hold four masks of different age.  A
fault is a lost link, a restart, a reboot, an AP drop or a reload of the save, and
`MaxPipe = 2` means that a tick waits for the last one to be read, as it does in 2 s, and
that at most two handlers' pushes are queued behind it.  Two threads and a fault together
were checked for the invariants once (2.2 M states) and are not part of the run for its length.
*ClientSync*: a table of each kind has the fewest entries that differ (a Power-Up whose bit two items
share, a bucket with more seeds than bits, a slot of two locations, a course without a normal exit);
two faults let the second hit the recovery from the first, and a command before or after a fault
shows what outlives it.
*EventPath*: two visits are enough for a record of the first to be lost and its memory to
be used in the second; a ring of two drops the third record of a clear, and overlapping pushes take one or both of
its records, or bring back up to two that were sent; a stage of each
table that changes what a record means is among the constants of `MCEventPath`.  *OpenWorld*:
two worlds give an active and an inactive one, a start and another, and one palace or
both asked for; two slots in turn are the fewest that can share the table; `MCOpenWorld` keeps
the shape of `data/*.json` (a spine through the hub, a badge course and a badge gate inside a world, the castle behind
both); in four of the six pairs the badge gates are on; a client reconnects as often as it likes,
with at most one Connected handler waiting at a time, and nothing is cleared before it has read
slot_data once.  One of its requires strings mixes `OptOne`, AND, OR and a category.  *Setup*: two failures let the second run die on what the first one left; one change
between them makes that stale; four machines turn every detector's row red.
*Wire*: every message is sent once with its fields at either end of their ranges and every kind of
text; what follows it, in the same receive or the next, is one of three commands or any badge or
PlayReport record, which is enough to join, split and queue lines.  The sizes are scaled (`TextCap`
4 for 48 to 256, `LineCap` 8 KiB as in the code), and a payload of 6 KiB, twice that in hex, is cut off.

Fairness, used by the liveness properties only.  *SpscRing*: each thread runs, and a weak
exchange that can succeed again and again does in the end (strong fairness of `PopWins`).
*LanSession*: the event loop runs every ready task, callbacks return, and TCP reports a
lost peer at last (keep-alive, or the failing periodic sync).  *GateKill*: the loop
runs, sleeps end, lines and kills arrive.  *CheckDelivery*: the loop runs, sends
return, and `CommonContext`'s reconnect loop reconnects.  *ItemSync*: the loop ticks, the
Switch and AP reconnect, lines are read, the player loads a save, and drains, of which a
hook starts one every frame, end (strong fairness of `StartDrain` and `PopEnds`: the
scene window closes, and a drain of at most 256 pops is faster than a 2 s tick).
*ClientSync*: the loop runs what is ready and ticks, both links come back, lines are read, and AP
answers the scouts; items, checks, commands and faults need not come.
*EventPath*: the network thread and the dispatch run; a probe that would be answered again and
again is answered (strong fairness of `Resolve`, which tries for ever with backoff).  That the
bridge serves and that the player clears the stage again are premises of the properties, not
fairness.  *Setup*: a run that was started goes on, and the user does what it asks and runs it again.
*Wire*: the network thread and the bridge's reader run; commands, records, failed sends and lost
links need not come.  Nothing else is assumed of the player, the game or the other slots.

## 4. What the code does not do as its comments say

Each of these formulas is defined in its module and fails.  To reproduce one, make it the
only property of the cfg, as `INVARIANT` (`PROPERTY` for `AcquiredIsPickup`, `BypassIsRecent`, `WriteWithinSession`, `ClearedWhenStale`, `Recovers`),
with the constants given.  Most are quoted in `PROJECT.json`, `findings`.

| Formula | Cfg and constants | Contradicts |
|---|---|---|
| `DropsOnlyOwn` | `LanSession.cfg` | `client/lan_server.py:961-963`: a handler's `finally` tests that it owns the session, then waits for the lock, and drops (closes) whatever session was installed meanwhile |
| `StopTearsDown` | the same | `client/lan_server.py:393`: a connection accepted while `stop` waits is installed after it |
| `NoStaleLatch` | the same | `client/lan_server.py:989-999`: a line buffered from the old connection sets the latch after the new one's Hello |
| `ClearedWhenStale` | `GateKill.cfg`, `MaxReboots = 0` | `client/lan_server.py:989-999`: Hello is taken for a reboot, but the mod also says Hello after a mid-game reconnect; the player is still in the course, and the gate loop stops |
| `BouncesOnlyGated` | `GateKill.cfg`, `MaxReboots = 0`, `MaxReconnects = 0` | `probe/DeathLink.cpp:94-98`: a gate kill in flight lands in the next, free course |
| `GoalKept`, `GoalOnce` | `CheckDelivery.cfg`, `SPECIFICATION Spec`, `MaxRepeats = 0`, `Raising = FALSE` | `client/context.py:1757-1759, 1625`: a goal reached while AP is disconnected latches as sent; the latch is tested before an await and set after it |
| `NoFalseGoal` | the same with `NerveGoal = FALSE` | `client/context.py:1607-1608`: a Bowser Nerve before slot_data is known counts as the goal |
| `CharBlocksKept` | the same with `MaxDrops = 0` | `client/context.py:1660-1662`: between the name maps and the slot_data toggles a character-block check is judged by default toggles and dropped, for good |
| `AcquiredIsPickup` | `ItemSync.cfg` | `probe/ContainerC.cpp:103-106`: the bridge pushes an empty badge mask while it does not know the items; the badges it strips are reported as pickups, which are checks |
| `DenyReplayed` | `ItemSync.cfg` | `client/lan_server.py:548-550`: a zero deny mask that found no session is remembered as sent, and neither Hello nor a tick sends it again |
| `CastleLatched` | `ClientSync.cfg` | `client/context.py:421-423`: the items of a new connection may be handled while the Connected handler awaits; it then resets the castle's latch, and no batch follows to set it again |
| `BeatableInAnyOrder` | `OpenWorld.cfg` | the same, in play: a seed that fill has won is stuck before the castle |
| `GatesMatchLogic` | `OpenWorld.cfg`, `location_table <- BadgeHouse` | `client/processor.py:268-269`: the badge gates bounce from courses of which `data/locations.json` requires no badge (W1 Badge House and five more), or allows Yoshi instead (four); the sub-toggle is off by default |
| `ToldOnce` | `EventPath.cfg` | `ap/ApState.hpp:42-46`: overlapping pushes lose and repeat the game's records, deaths among them, and not only diagnostics |
| `WriteWithinSession` | `DeathLink.cfg` | `probe/DeathLink.cpp:327-329`: a scene-transition Nerve inside the freshness window restarts the session clock but leaves the kill window open; only a tick gap closes it |
| `BypassIsRecent` | `DeathLink.cfg` | `probe/DeathLink.cpp:140-147`: a DeathLink that arrives while a gate kill is parked renews its deadline and keeps its urgency |
| `NoEcho` | `DeathLink.cfg`, `Pausing = TRUE` | `probe/DeathLink.cpp:127-131, 188-192`: HP stays 0 over a pause longer than the guard, and the death is reported |
| `InOrder` | `SpscRing.cfg`, `Lapping = TRUE` | `ap/ApState.hpp:74-76`: a pop that sleeps for a whole round of the ring returns a stale or torn element |
| `OnlyEarned` | `EventPath.cfg` | `client/processor.py:348-351`: with a course_in lost, a Nerve or block hit is credited to the course before |
| `BeatableStandard` | `OpenWorld.cfg` | `client/context.py:1427-1431`: the game opens the castle for palaces cleared and logic for Royal Seeds received, so a seed that logic wins may not be winnable in standard mode |
| `GreenIsLogical` | `OpenWorld.cfg` | `scripts/generate_tracker_logic.py:14-21`: the goal turns green with the Royal Seeds of the active worlds, while the seed's own gate may want more than those |
| `OnlyUserFixable` | `Setup.cfg` | `_setup/wizard_cli.py:96-97`: without any Python the pip rows stop the run before it installs one |
| `BlankIsCompiled` | `Setup.cfg` | `_setup/wizard.py:377-378`: with the address blank again, cmake's cache keeps the last one |
| `Recovers` | `Setup.cfg`, `Leftovers = {"broken"}` or `{"headless"}` | `_setup/installers.py:701-702`: a clang.exe of an extraction that died is taken for a working one |
| `Recovers` | `Setup.cfg`, `Reverts = TRUE`, `MaxEvents = 2` | `_setup/build.py:200-202`: a half-removed tree keeps the marker of the release that is put back |
| `TextsWhole` | `Wire.cfg` | `client/wire.py:1177-1179, 1223-1224`: the caps that "MUST match" count characters on one side and octets on the other, and a text that fills its buffer ends in half a character |
| `NoneRefused` | `Wire.cfg` | `util/Log.cpp:119`: log lines with a torn or control character are refused by the bridge, which answers with err |

Read off the code and its data, without a formula:

* With `open_world_count = 1` and the sanity options off there are 63 to 79 progression items
  for 33 to 49 locations (`__init__.py:524`).
* `open_world.py:253-254` and `inactive_item_pool` disagree on which Wonder Seeds of inactive worlds are kept.
* `check_ryujinx` promises a folder that `run_deploy` does not create (`_setup/prereqs.py:1502`).
* There is no BRIDGE_HOST_STRING fallback (`client/discovery.py:181-182`), and the responder's address is that of its
  start (98-100): `Reconnects` has it as part of its premise, `Serving`.
* `ap/ApClient.cpp:349-355` loses the record whose send fails; the Nerves that fire once per save
  (goal and first seeds of a course) come only once, so a lost one is made up for by a second record or not at all
  (`RedundantSurvives`, `SeedRecovered`).
* `_palaces_cleared_in_game` counts palace checks collected, not palaces cleared.
* `client/wire.py:885` says the encoder truncates; its caller does.  `wire.py:1482-1484` promises ProtocolError
  for any failure; a missing integer raises TypeError, and the connection is closed.
  `wire.py:399` has the Switch parse masks as int64; it has read them unsigned since 2026-09-21.
* `client/context.py:958-960` has the royal-seed mask pushed on Hello and ticks; that one is pushed by command only.

## 5. The proofs

Each module of proofs extends the module it is about, defines an inductive invariant `IInv`
made of named parts, proves `Init => IInv` and `IInv /\ [Next]_vars => IInv'` with a step for each
action, and draws its theorems from that.  The assumptions on the constants are those the modules
name (`TicksAssumption`, `RingAssumption`, ...); where a theorem needs one more it says so.

| Module | Theorem | States |
|---|---|---|
| `DeathLink` | `TypeCorrect` | `[]TypeOK` |
| | `BypassesAreOwed`, `DeathsAreOwed` | `[]BypassesOwedToGates`, `[]OneDeathPerKill` |
| | `KillsGoStale`, `WritesStayInRun`, `UrgencyIsKept` | `NoStaleKill`, `WriteWithinRun`, `UrgencyKept` |
| | `NothingIsEchoed` | `[]NoEcho`, if `~Pausing` and `FreshTicks <= GuardTicks` |
| `SpscRing` (if `~Lapping`) | `RingIsQueue` | `Implements`: the refinement of `BoundedQueue` |
| | `PopsInOrder`, `RingHoldsTheRest` | `[]InOrder`, `[]NothingLost` |
| `LanSession` | `SessionIsSingle`, `SessionHasHandler` | `[]OneSession`, `[]NoOrphan` |
| | `IncrementsConserved`, `DrainIsPosted` | `[]Conservation`, `[]DrainPosted` |
| | `WritesAreCurrent` | `NoLateWrite` |
| `GateKill` | `OneCountdown`, `GraceIsKept` | `[]OneLoop`, `[]GraceKept` |
| | `BannerIsHonest` | `[]BannerHonest` |
| `CheckDelivery` | `NoCheckLost`, `RefundedOnce` | `[]NoneLost`, `[]RefundOnce` |
| `ItemSync` | `DenySettles`, `EquippedAreOwned` | `[]DenySettled`, `[]EquippedIsOwned` |
| `ClientSync` | `NoTickNeeded` | `[]PromptlyShown` |
| `EventPath` | `NothingUnearned`, `NothingMissed`, `PairsSurvive` | `[]Sound`, `[]Complete`, `[]RedundantSurvives` |
| `OpenWorld` | `SlotsDoNotBleed`, `TrackersAgree` | `[]NoBleed`, `[]TrackerAgrees` |
| `Setup` | `SuccessIsFresh`, `GreenRowsHold` | `[]Fresh`, `[]GreenMeansImportable` |

`Invariance` of each module is `[]IInv`, which includes `TypeOK` and the exclusive places of
things that the code keeps without saying so.  The bounds of the runs (kills, pushes, connections,
entries, moves, faults, releases) are constants like any other here: the theorems hold for all.

*DeathLink*, for any clock, any number of kills and both values of `Pausing`.  Neither counting
property is inductive: a later frame may open a window or swallow a death with no message in
sight.  `IInv` says who holds what a message paid for.  `Licences`: the bypasses used plus the
one an urgent pending slot still holds are at most the gate kills handled.  `Credits`: the deaths
swallowed, plus one if a guard or window is armed, plus one if a kill is parked, are at most the
kills handled.  The code keeps both because firing moves a credit from the slot to the window,
handling a kill adds one to a single place, and the death Nerve clears guard and window together;
`ConsumeGuardOnly` breaks exactly that.  `Deadlines` bounds every deadline by the last message
plus its TTLs, and `WindowInRun` says that an open window has seen no tick gap.  `EchoInv` adds the
guard: an HP of 0 whose edge the game has not seen is under guard until `GuardTicks` after the
last tick that found the struct, and the next such tick comes within `FreshTicks`, or finds a new
scene.  Hence its two premises; the code has 0.5 s and 1 s, and `NoEcho` in section 4 shows what
a pause does.

*SpscRing*, for any size, any number of consumers and any number of pushes.  The indices of the
code forget how often they wrapped: in the proof the i-th element lives in slot `(i - 1) % N` and a
consumer's `t` is a count modulo `N`.  `Claims` is what a consumer inside `pop` knows: its count is
at most the deliveries, less than one round behind the pushes, and if it is the next to be taken
the consumer holds that very element.  So an exchange that succeeds is one by count and not only
by remainder, for less than a round lies between.  The lemmas on remainders
(`ModPlus`, `ModDiffers`, `ModShift`) are proved from division.  `~Lapping` is the premise of
`ApState.hpp:74-76`; without it `InOrder` fails (section 4).

*LanSession*, for any number of connections, lines and increments and any set of hashes.  The four
session fields may disagree only while the holder of the lock waits for a task it cancelled:
`DropsUnderLock` and `Phases` give each of the two waits its own condition, and `Live` says that
whatever task runs is the session's.  `Conservation` is then inductive with `Fresh`: a connection
never installed was asked for nothing.

*GateKill*, for any courses, grace, cap and number of entries, reboots and reconnects.  The context
forgets a task it cancelled; the event loop does not.  `Queue` says what its ready queue may hold,
`Handle` that the task the context would cancel can be cancelled, `Numbers` that course_in lines on
their way are of later entries than the tasks made, `Windows` that a live countdown of the course
the player is in has slept in this stay what it counted down, and `Banner` that a cancelled task
clears the overlay before the live one shows it.

*CheckDelivery*, for any checks, handlers, losses of AP and repeats.  `Kept` puts each check that
passed the dedup in one place: the pending list, one Connected task's replay, or the set sent;
`Waiting` says the places are exclusive and that what waits has not been refunded, which makes
`RefundOnce` inductive; `Stages` says how far a Connected task must be for its replay to hold anything.

*ItemSync*, for any badges, power-ups, threads, ring and faults.  `DenyUnderWay`: in a greeted
session a mask that is not empty is the last deny mask in the pipe, or is what the Switch has.
`EquippedIsOwned` is inductive as it stands: it names the drains that are about to take a badge off.

*ClientSync*, for any tables, slots, kinds, faults and commands.  `PromptlyShown` speaks only of states in
which nothing is under way, and is not inductive.  `UpToDate` speaks of every state of a greeted session: what the mod
will have once the queue is read (`Final`) is the context's value, from the time that what feeds the kind
has reached the context (`Reached`: the items the server has; for the shops, the Connected handler's end).
Lemma `Handled` is the rule the code follows without saying so: a handler either pushes the value of the context
it leaves, or leaves the inputs of the kind as they were (`SameInputs`, which lists what each `_recompute_*`
reads), or acts while nothing is promised of the kind.  Every packet, check and command is then a case of it.  The texts are sent one by one, so
`TextsUpToDate` says of each that its last message under way is the text, or that the mod has it and no
blank follows.  `ItemsKnown` and `MapsFirst` say which packets come before which.

*EventPath*, for any stages, ring, wire, moves and faults.  The invariant is about one sequence:
the course that the bridge remembers, seen as a `course_in` already dispatched, then the wire, then
the ring.  A connect, a pump, a lost link, a renumbered host and a bridge that exits all *splice* it: they
take a piece out, which `Lose` records, or put Hellos in (`Spliced`, `Thinned`), and so do
overlapping pushes that lose.  A dispatch *eats*
its first record, and a move of the player *puts* records behind it (`Played`), of which a full ring takes
the first few.  Overlapping pushes that repeat put old records behind it: `Stale` says that
what they stand for by themselves was earned; what depends on the course before them is no longer promised,
and that is why `Sound` and `Complete` make an exception of the Nerve's seed and the blocks.
`SoundInv`: what a record stands for in the course it follows, was earned;
`CompleteInv`: while nothing was lost, what is owed and not credited is carried by a record in its
course; `PairedInv`: what two records show is carried by two, or by one after one loss.
Each of the three ways keeps each of the three parts, and every action is one of the three ways: that
is the shape of the proof.  It uses `ChecksOf` and `Process` as `Processor` defines them, the
exits, boss, shop and block records included.

*OpenWorld*, for any tables, any number and order of slots and any options.  The region table is one
Python dict that the hooks of one slot edit, `set_rules` reads and a later hook mends, so `NoBleed`
says nothing of the state in between.  `SharedTable` does: it is the data's table before a slot's
hooks, and `Edited` by the slot whose turn it is until its last hook is through.  `HookEdits` and
`HookMends` show that the two hooks are inverse on what they touch, `SetRulesReadsEdited` that rules
made in between need exactly what the data says less the slot's own entries.  `Worlds`, `GraphsDone`
and `RulesDone` keep for each slot behind the turn what its stages made.  `TrackerAgrees` follows
from `Worlds` and two lemmas on the choice of worlds: what a slot may roll (`RolledWorld`), and that
the pins made from a roll leave nothing to the tracker's dice (`PinnedWorld`), its palaces
threshold included, which is resolved a second time (`ResolvedStays`).  The premises are the
types of the tables and options (`OpenWorldAssumption`).

*Setup*, for any machines, interpreters, subnets and leftovers, and with `Reverts`.  `Provided`:
from the probe on, what the rows promised is there or on the list to install.  `Honest`: the marker
names the release of the tree, since it goes before the tree is swapped and comes back last.
`Configures`: what was configured had patched sources and goes when they go.  `Current`, `Asked` and
`Copied` carry the run's own sources, address and interpreter through build and copies.

Only model-checked.  All liveness (`PopReturns`, `AllDelivered`, `EventuallyInstalled`,
`EventuallyDropped`, `GatedBounced`, `Delivered`, `BadgesConverge`, `ShownInTheEnd`, `Reconnects`,
`SeedRecovered`, `Recovers`, `Settles`), which with fairness is beyond the prover.  `GatesMatchLogic`
and `Beatable` of `OpenWorld`, and `TrackerShowsLogic` of `Tracker`: they are about graphs searched to a fixed point and about what a fill can
reach, which needs induction over data.  `Wire`:
what is decoded is compared with what was meant for sequences of fields and characters, by
functions over their lengths that need the same.

## 6. Plan

1. *Done*: the modules above with their runs.
2. *Done*: the proofs of section 5.  What the runs check of them beyond the theorems is liveness.
   Some properties are defined and proved, and no part of a run: `UrgencyKept`, `NoLateWrite`, `InOrder`, `NothingLost`,
   `NoOrphan`, `DrainPosted`, and the type invariants, as parts of `IInv`.
3. Compositions: GateKill's Switch side refined by DeathLink's entry points; LanSession's
   session as the channel of ItemSync; DeathLink on several game threads.

## 7. Not modelled, and why

* The coin increments of received items: an increment within a session is `LanSession`'s; what an AP
  reconnect or an absent Switch does to them the code leaves open (`context.py:1213-1228`,
  `lan_server.py:830`), and there is nothing to hold it to.
* The bounce between slots: two single forwards whose loop runs through `CommonContext`.
* Network client: the backoff, an 8 KiB buffer that fills, the 1-in-256 log of sends.  Ping and pong, which nothing sends.
* Torn records of the outbound ring that read as others, and a push that stalls for a whole lap of it.
* `Setup`: partial phase lists and forced reconfiguration, the SD and folder targets, a second run in the same
  process with its memoized probes, the AppImage's environment, the python3 shim, `.smbwap` files.
* `OpenWorld`: the counts `all`, `half` and `n%` and the list form of a requires, which no data file uses; character pins and starting items, the character options,
  checks made before the client ever read slot_data,
  seeds generated before the castle-unlock flag, and the counts of the real tables.
* The character and badge-shop gates beyond the masks they are given, and the containers beyond the badges: they patch memory or
  call functions of the game, whose behaviour the repository only partly documents.
* Status, setup and recording commands, GUI, tracing, diagnostics: they hold no state another component waits for.
  Tables are parameters.
  `program/main.cpp` is superseded by `main.cpp`.
