--------------------------- MODULE OpenWorld_proofs ---------------------------
(***************************************************************************)
(* What the generator of OpenWorld.tla keeps for every data table, every   *)
(* number and order of slots and every choice of their options.            *)
(*                                                                         *)
(* The hooks of one slot edit the region table that all slots share, read  *)
(* it through set_rules, and mend it.  The invariant says what the table   *)
(* is at each of these moments, and what each slot has that is through     *)
(* with a stage: a world its options allow, the graph of that world, and   *)
(* the rules of the unedited table.                                        *)
(***************************************************************************)
EXTENDS OpenWorld, FiniteSetTheorems, SequenceTheorems, TLAPS

SlotSet == ToSet(Slots)

\* The slots that have had their turn in this stage.
Behind == {Slots[i] : i \in 1..(turn - 1)}

\* The shared table while slot w's hooks have it.
Edited(w) ==
    [r \in DOMAIN region_table |->
        IF w.open_world /\ r \in Neutralized(w)
        THEN [region_table[r] EXCEPT !.requires = <<>>] ELSE region_table[r]]

SharedTable ==
    regionMap = IF half = "before" THEN region_table ELSE Edited(world[Slots[turn]])

Turns ==
    /\ stage \in {"early", "regions", "items", "rules", "fill", "play"}
    /\ turn \in 1..Len(Slots)
    /\ half \in {"before", "set", "after"}
    /\ half # "before" => stage = "rules"

Domains ==
    /\ opts \in Options
    /\ DOMAIN world = SlotSet /\ DOMAIN graph = SlotSet /\ DOMAIN rules = SlotSet

HasWorld(p) == stage # "early" \/ p \in Behind
HasGraph(p) == stage \notin {"early", "regions"} \/ (stage = "regions" /\ p \in Behind)
HasRules(p) == \/ stage \in {"fill", "play"}
               \/ stage = "rules" /\ p \in Behind
               \/ half = "after" /\ p = Slots[turn]

\* What a location of p needs: the data table's words, less p's own entries.
RulesRight(p) ==
    /\ DOMAIN rules[p].loc = Locations(graph[p])
    /\ \A l \in Locations(graph[p]) \ {BOWSER_VICTORY_LOCATION} :
          LET r == location_table[l].region
          IN rules[p].loc[l].requires =
                {location_table[l].requires,
                 IF world[p].open_world /\ r \in Neutralized(world[p]) THEN <<>>
                 ELSE region_table[r].requires}

Worlds == \A p \in SlotSet : HasWorld(p) => world[p] \in GenerateEarly(opts[p], NoPins)
GraphsDone == \A p \in SlotSet : HasGraph(p) => graph[p] = CreateRegions(world[p])
RulesDone  == \A p \in SlotSet : HasRules(p) => RulesRight(p)

IInv == Turns /\ Domains /\ SharedTable /\ Worlds /\ GraphsDone /\ RulesDone

-----------------------------------------------------------------------------
(* The data. *)

LEMMA Data ==
    /\ \A r \in DOMAIN region_table :
          region_table[r] \in [connects_to : SUBSET DOMAIN region_table,
                               requires    : Seq(Tokens)]
    /\ region_table = [r \in DOMAIN region_table |-> region_table[r]]
    /\ \A n \in WORLD_NUMBERS : Start(n) \in DOMAIN region_table
    /\ Manual \in DOMAIN region_table /\ Bowser \in DOMAIN region_table
    /\ Slots \in Seq(SlotSet)
    /\ SlotSet # {}
    /\ \A o \in Options, p \in SlotSet :
          o[p] \in [open_world : BOOLEAN, open_world_count : Nat,
                    palaces_required : Int, world_unlock_items : BOOLEAN,
                    badge_level_entry_gating : BOOLEAN]
BY OpenWorldAssumption DEF OpenWorldAssumption, SlotSet

LEMMA SlotsIndexed ==
    /\ Len(Slots) \in Nat /\ Len(Slots) > 0
    /\ SlotSet = {Slots[i] : i \in 1..Len(Slots)}
<1>1. Len(Slots) \in Nat /\ DOMAIN Slots = 1..Len(Slots)  BY Data
<1>2. SlotSet = {Slots[i] : i \in 1..Len(Slots)}  BY <1>1 DEF SlotSet, ToSet
<1>3. QED  BY <1>1, <1>2, Data

\* The worlds a slot gets are among those there are.
LEMMA ActiveAreWorlds ==
    ASSUME NEW o, NEW w \in GenerateEarly(o, NoPins)
    PROVE  w.active \subseteq WORLD_NUMBERS
BY DEF GenerateEarly, NoPins

\* A location of a slot's graph lies in a region of the data table.
LEMMA RegionOfLocation ==
    ASSUME NEW w, w.active \subseteq WORLD_NUMBERS,
           NEW l \in Locations(CreateRegions(w))
    PROVE  location_table[l].region \in DOMAIN region_table
<1> DEFINE D == DataGraph
           S == StripInactive(Restructure(D, w), w)
<1>1. /\ DOMAIN D.locs = DOMAIN region_table
      /\ \A r \in DOMAIN region_table : \A k \in D.locs[r] : location_table[k].region = r
      BY DEF DataGraph
<1>2. Restructure(D, w).locs = D.locs  BY DEF Restructure, DataGraph
<1>3. /\ DOMAIN S.locs = DOMAIN region_table
      /\ \A r \in DOMAIN region_table : S.locs[r] \subseteq D.locs[r]
      BY <1>1, <1>2 DEF StripInactive, Restructure, DataGraph
<1>4. CASE ~w.open_world
      BY <1>1, <1>4 DEF CreateRegions, Locations
<1>5. CASE w.open_world /\ ~(w.unlocks /\ 1 \in w.active)
      BY <1>1, <1>3, <1>5 DEF CreateRegions, Locations, UngateOpeningCourse
<1>6. CASE w.open_world /\ w.unlocks /\ 1 \in w.active
  <2>1. Start(1) \in DOMAIN region_table /\ Manual \in DOMAIN region_table  BY <1>6, Data
  <2> DEFINE moved == S.locs[Start(1)] \cap {OPENING_COURSE}
             U == [S.locs EXCEPT ![Start(1)] = @ \ moved, ![Manual] = @ \cup moved]
  <2>2. CreateRegions(w).locs = U
    <3>1. "locs" \in DOMAIN S  BY DEF StripInactive, Restructure, DataGraph
    <3>2. CreateRegions(w) = UngateOpeningCourse(S, w)  BY <1>6 DEF CreateRegions
    <3> HIDE DEF S
    <3>3. QED  BY <1>6, <3>1, <3>2 DEF UngateOpeningCourse
  <2>3. DOMAIN U = DOMAIN region_table  BY <1>3
  <2>4. \A r \in DOMAIN region_table : U[r] \subseteq S.locs[r] \cup S.locs[Start(1)]
        BY <1>3, <2>1
  <2> HIDE DEF U, S
  <2>5. QED  BY <1>1, <1>3, <2>1, <2>2, <2>3, <2>4 DEF Locations
<1>7. QED  BY <1>4, <1>5, <1>6

-----------------------------------------------------------------------------
(* The three hooks of one slot. *)

\* before_set_rules makes the table that slot's, after_set_rules mends it.
LEMMA HookEdits ==
    ASSUME NEW w, regionMap = region_table, BeforeSetRules(w)
    PROVE  regionMap' = Edited(w)
BY DEF BeforeSetRules, Edited

LEMMA HookMends ==
    ASSUME NEW w, regionMap = Edited(w), Restore(w)
    PROVE  regionMap' = region_table
<1>1. regionMap' = [r \in DOMAIN region_table |-> region_table[r]]
      BY DEF Restore, Edited
<1>2. QED  BY <1>1, Data

\* set_rules reads the slot's own table.
LEMMA SetRulesReadsEdited ==
    ASSUME NEW w, w.active \subseteq WORLD_NUMBERS, regionMap = Edited(w),
           NEW l \in Locations(CreateRegions(w))
    PROVE  LET r == location_table[l].region
           IN SetRules(CreateRegions(w)).loc[l].requires =
                 {location_table[l].requires,
                  IF w.open_world /\ r \in Neutralized(w) THEN <<>>
                  ELSE region_table[r].requires}
<1> DEFINE r == location_table[l].region
<1>1. r \in DOMAIN region_table  BY RegionOfLocation
<1>2. regionMap[r].requires = IF w.open_world /\ r \in Neutralized(w) THEN <<>>
                              ELSE region_table[r].requires
      BY <1>1, Data DEF Edited
<1>3. SetRules(CreateRegions(w)).loc[l].requires
         = {location_table[l].requires, regionMap[r].requires}
      BY DEF SetRules
<1>4. QED  BY <1>2, <1>3

\* The goal's rule is the only one of a location that after_set_rules changes.
LEMMA AfterKeepsRules ==
    ASSUME NEW w, NEW ru
    PROVE  /\ DOMAIN AfterSetRules(w, ru).loc = DOMAIN ru.loc
           /\ \A l \in (DOMAIN ru.loc) \ {BOWSER_VICTORY_LOCATION} :
                 AfterSetRules(w, ru).loc[l] = ru.loc[l]
BY DEF AfterSetRules

-----------------------------------------------------------------------------
(* The invariant. *)

LEMMA InitIInv == Init => IInv
<1> SUFFICES ASSUME Init PROVE IInv  OBVIOUS
<1>1. Turns  BY SlotsIndexed DEF Init, Turns
<1>2. Domains  BY DEF Init, Domains, SlotSet
<1>3. SharedTable  BY DEF Init, SharedTable
<1>4. Behind = {}  BY DEF Init, Behind
<1>5. Worlds /\ GraphsDone /\ RulesDone
      BY <1>4 DEF Init, Worlds, GraphsDone, RulesDone, HasWorld, HasGraph, HasRules
<1>6. QED  BY <1>1, <1>2, <1>3, <1>5 DEF IInv

\* The turn is some slot's; it passes to the next one, or the stage ends with
\* every slot through.
LEMMA TurnOf == ASSUME Turns PROVE Slots[turn] \in SlotSet
BY SlotsIndexed DEF Turns

LEMMA AdvancePasses ==
    ASSUME Turns, NEW next, Advance(next)
    PROVE  /\ turn' \in 1..Len(Slots)
           /\ \/ stage' = stage /\ Behind' = Behind \cup {Slots[turn]}
              \/ stage' = next /\ Behind' = {} /\ SlotSet = Behind \cup {Slots[turn]}
<1>1. Len(Slots) \in Nat /\ Len(Slots) > 0 /\ turn \in 1..Len(Slots)
      BY SlotsIndexed DEF Turns
<1>2. CASE turn < Len(Slots)
  <2>1. stage' = stage /\ turn' = turn + 1  BY <1>2 DEF Advance
  <2>2. 1..(turn' - 1) = 1..(turn - 1) \cup {turn}  BY <1>1, <2>1
  <2>3. QED  BY <1>1, <1>2, <2>1, <2>2 DEF Behind
<1>3. CASE ~(turn < Len(Slots))
  <2>1. stage' = next /\ turn' = 1 /\ turn = Len(Slots)  BY <1>1, <1>3 DEF Advance
  <2>2. 1..(turn' - 1) = {} /\ 1..Len(Slots) = 1..(turn - 1) \cup {turn}  BY <1>1, <2>1
  <2>3. QED  BY <1>1, <2>1, <2>2, SlotsIndexed DEF Behind
<1>4. QED  BY <1>2, <1>3

LEMMA EarlyKeepsIInv == IInv /\ Early => IInv'
<1> SUFFICES ASSUME IInv, Early PROVE IInv'  OBVIOUS
<1> DEFINE p == Slots[turn]
<1>1. /\ p \in SlotSet /\ stage = "early" /\ half = "before"
      /\ UNCHANGED <<half, regionMap, opts, graph, rules>>
      BY TurnOf DEF IInv, Turns, Early
<1>2. PICK w \in GenerateEarly(opts[p], NoPins) : world' = [world EXCEPT ![p] = w]
      BY DEF Early
<1>3. Advance("regions")  BY DEF Early
<1>4. /\ turn' \in 1..Len(Slots)
      /\ \/ stage' = "early" /\ Behind' = Behind \cup {p}
         \/ stage' = "regions" /\ Behind' = {} /\ SlotSet = Behind \cup {p}
      BY <1>1, <1>3, AdvancePasses DEF IInv
<1>5. Turns'  BY <1>1, <1>4 DEF IInv, Turns
<1>6. Domains'  BY <1>1, <1>2 DEF IInv, Domains
<1>7. SharedTable'  BY <1>1 DEF IInv, SharedTable
<1>8. Worlds'
  <2>1. ASSUME NEW q \in SlotSet, HasWorld(q)'
        PROVE  world'[q] \in GenerateEarly(opts'[q], NoPins)
    <3>1. q \in Behind \cup {p}  BY <1>4, <2>1 DEF HasWorld
    <3>2. CASE q = p  BY <1>1, <1>2, <3>2 DEF IInv, Domains
    <3>3. CASE q # p
          BY <1>1, <1>2, <3>1, <3>3 DEF IInv, Domains, Worlds, HasWorld
    <3>4. QED  BY <3>2, <3>3
  <2>2. QED  BY <2>1 DEF Worlds
<1>9. GraphsDone' /\ RulesDone'
      BY <1>1, <1>4 DEF GraphsDone, RulesDone, HasGraph, HasRules
<1>10. QED  BY <1>5, <1>6, <1>7, <1>8, <1>9 DEF IInv

LEMMA RegionsKeepsIInv == IInv /\ Regions => IInv'
<1> SUFFICES ASSUME IInv, Regions PROVE IInv'  OBVIOUS
<1> DEFINE p == Slots[turn]
<1>1. /\ p \in SlotSet /\ stage = "regions" /\ half = "before"
      /\ graph' = [graph EXCEPT ![p] = CreateRegions(world[p])]
      /\ UNCHANGED <<half, regionMap, opts, world, rules>>
      BY TurnOf DEF IInv, Turns, Regions
<1>2. Advance("items")  BY DEF Regions
<1>3. /\ turn' \in 1..Len(Slots)
      /\ \/ stage' = "regions" /\ Behind' = Behind \cup {p}
         \/ stage' = "items" /\ Behind' = {} /\ SlotSet = Behind \cup {p}
      BY <1>1, <1>2, AdvancePasses DEF IInv
<1>4. Turns'  BY <1>1, <1>3 DEF IInv, Turns
<1>5. Domains'  BY <1>1 DEF IInv, Domains
<1>6. SharedTable'  BY <1>1 DEF IInv, SharedTable
<1>7. Worlds'  BY <1>1, <1>3 DEF IInv, Worlds, HasWorld
<1>8. GraphsDone'
  <2>1. ASSUME NEW q \in SlotSet, HasGraph(q)' PROVE graph'[q] = CreateRegions(world'[q])
    <3>1. q \in Behind \cup {p}  BY <1>3, <2>1 DEF HasGraph
    <3>2. QED  BY <1>1, <3>1 DEF IInv, Domains, GraphsDone, HasGraph
  <2>2. QED  BY <2>1 DEF GraphsDone
<1>9. RulesDone'  BY <1>1, <1>3 DEF RulesDone, HasRules
<1>10. QED  BY <1>4, <1>5, <1>6, <1>7, <1>8, <1>9 DEF IInv

LEMMA ItemPoolKeepsIInv == IInv /\ ItemPool => IInv'
<1> SUFFICES ASSUME IInv, ItemPool PROVE IInv'  OBVIOUS
<1>1. /\ stage = "items" /\ half = "before" /\ Advance("rules")
      /\ UNCHANGED <<half, regionMap, opts, world, graph, rules>>
      BY DEF IInv, Turns, ItemPool
<1>2. /\ turn' \in 1..Len(Slots)
      /\ stage' = "items" \/ (stage' = "rules" /\ Behind' = {})
      BY <1>1, AdvancePasses DEF IInv
<1>3. Turns' /\ Domains' /\ SharedTable'
      BY <1>1, <1>2 DEF IInv, Turns, Domains, SharedTable
<1>4. Worlds' /\ GraphsDone'
      BY <1>1, <1>2 DEF IInv, Worlds, GraphsDone, HasWorld, HasGraph
<1>5. RulesDone'  BY <1>1, <1>2 DEF RulesDone, HasRules
<1>6. QED  BY <1>3, <1>4, <1>5 DEF IInv

\* In the stage of the rules the slots have their worlds and graphs.
LEMMA SlotInRules ==
    ASSUME IInv, stage = "rules", NEW p \in SlotSet
    PROVE  graph[p] = CreateRegions(world[p]) /\ world[p].active \subseteq WORLD_NUMBERS
<1>1. world[p] \in GenerateEarly(opts[p], NoPins)  BY DEF IInv, Worlds, HasWorld
<1>2. QED  BY <1>1, ActiveAreWorlds DEF IInv, GraphsDone, HasGraph

LEMMA RulesKeepsIInv == IInv /\ Rules => IInv'
<1> SUFFICES ASSUME IInv, Rules PROVE IInv'  OBVIOUS
<1>0. PICK p \in SlotSet : p = Slots[turn]  BY TurnOf DEF IInv
<1> DEFINE w == world[p]
           g == CreateRegions(w)
<1>1. /\ stage = "rules" /\ half \in {"before", "set", "after"}
      /\ UNCHANGED <<opts, world, graph>>
      BY DEF IInv, Turns, Rules
<1>2. graph[p] = g /\ w.active \subseteq WORLD_NUMBERS  BY <1>1, SlotInRules
<1>3. CASE half = "before"
  <2>1. BeforeSetRules(w) /\ half' = "set" /\ UNCHANGED <<rules, turn, stage>>
        BY <1>0, <1>3 DEF Rules
  <2>2. regionMap' = Edited(w)  BY <1>3, <2>1, HookEdits DEF IInv, SharedTable
  <2>3. Behind' = Behind  BY <2>1 DEF Behind
  <2>4. Turns' /\ Domains'  BY <1>1, <2>1 DEF IInv, Turns, Domains
  <2>5. SharedTable'  BY <1>0, <1>1, <2>1, <2>2 DEF SharedTable, Edited
  <2>6. Worlds' /\ GraphsDone'
        BY <1>1, <2>1, <2>3 DEF IInv, Worlds, GraphsDone, HasWorld, HasGraph
  <2>7. RulesDone'
        BY <1>1, <1>3, <2>1, <2>3 DEF IInv, RulesDone, HasRules, RulesRight
  <2>8. QED  BY <2>4, <2>5, <2>6, <2>7 DEF IInv
<1>4. CASE half = "set"
  <2>1. /\ rules' = [rules EXCEPT ![p] = SetRules(graph[p])]
        /\ half' = "after" /\ UNCHANGED <<regionMap, turn, stage>>
        BY <1>0, <1>4 DEF Rules
  <2>2. regionMap = Edited(w)  BY <1>0, <1>4 DEF IInv, SharedTable
  <2>3. Behind' = Behind  BY <2>1 DEF Behind
  <2>4. Turns' /\ Domains'  BY <1>1, <2>1 DEF IInv, Turns, Domains
  <2>5. SharedTable'  BY <1>0, <1>1, <2>1, <2>2 DEF SharedTable, Edited
  <2>6. Worlds' /\ GraphsDone'
        BY <1>1, <2>1, <2>3 DEF IInv, Worlds, GraphsDone, HasWorld, HasGraph
  <2>7. RulesRight(p)'
    <3>1. rules'[p] = SetRules(g)  BY <1>1, <1>2, <2>1 DEF IInv, Domains
    <3>2. DOMAIN rules'[p].loc = Locations(g)  BY <3>1 DEF SetRules
    <3>3. \A l \in Locations(g) :
             LET r == location_table[l].region
             IN rules'[p].loc[l].requires =
                   {location_table[l].requires,
                    IF w.open_world /\ r \in Neutralized(w) THEN <<>>
                    ELSE region_table[r].requires}
          BY <1>2, <2>2, <3>1, SetRulesReadsEdited
    <3>4. QED  BY <1>1, <1>2, <3>2, <3>3, Zenon DEF RulesRight
  <2>8. RulesDone'
    <3>1. ASSUME NEW q \in SlotSet, HasRules(q)', q # p PROVE RulesRight(q)'
      <4>1. q \in Behind  BY <1>0, <1>1, <2>1, <2>3, <3>1 DEF HasRules
      <4>2. rules'[q] = rules[q]  BY <2>1, <3>1 DEF IInv, Domains
      <4>3. RulesRight(q)  BY <1>1, <4>1 DEF IInv, RulesDone, HasRules
      <4>4. QED  BY <1>1, <4>2, <4>3 DEF RulesRight
    <3>2. QED  BY <2>7, <3>1 DEF RulesDone
  <2>9. QED  BY <2>4, <2>5, <2>6, <2>8 DEF IInv
<1>5. CASE half = "after"
  <2>1. /\ Restore(w) /\ rules' = [rules EXCEPT ![p] = AfterSetRules(w, @)]
        /\ half' = "before" /\ Advance("fill")
        BY <1>0, <1>5 DEF Rules
  <2>2. regionMap' = region_table  BY <1>0, <1>5, <2>1, HookMends DEF IInv, SharedTable
  <2>3. /\ turn' \in 1..Len(Slots)
        /\ \/ stage' = "rules" /\ Behind' = Behind \cup {p}
           \/ stage' = "fill" /\ Behind' = {} /\ SlotSet = Behind \cup {p}
        BY <1>0, <1>1, <2>1, AdvancePasses DEF IInv
  <2>4. Turns' /\ Domains'  BY <1>1, <2>1, <2>3 DEF IInv, Turns, Domains
  <2>5. SharedTable'  BY <2>1, <2>2 DEF SharedTable
  <2>6. Worlds' /\ GraphsDone'
        BY <1>1, <2>3 DEF IInv, Worlds, GraphsDone, HasWorld, HasGraph
  <2>7. RulesRight(p)'
    <3>1. rules'[p] = AfterSetRules(w, rules[p])  BY <1>1, <2>1 DEF IInv, Domains
    <3>2. RulesRight(p)  BY <1>0, <1>1, <1>5 DEF IInv, RulesDone, HasRules
    <3>3. /\ DOMAIN rules'[p].loc = DOMAIN rules[p].loc
          /\ \A l \in (DOMAIN rules[p].loc) \ {BOWSER_VICTORY_LOCATION} :
                rules'[p].loc[l] = rules[p].loc[l]
          BY <3>1, AfterKeepsRules
    <3>4. QED  BY <1>1, <3>2, <3>3 DEF RulesRight
  <2>8. RulesDone'
    <3>1. ASSUME NEW q \in SlotSet, HasRules(q)', q # p PROVE RulesRight(q)'
      <4>1. q \in Behind  BY <1>0, <1>1, <2>1, <2>3, <3>1 DEF HasRules
      <4>2. rules'[q] = rules[q]  BY <2>1, <3>1 DEF IInv, Domains
      <4>3. RulesRight(q)  BY <1>1, <4>1 DEF IInv, RulesDone, HasRules
      <4>4. QED  BY <1>1, <4>2, <4>3 DEF RulesRight
    <3>2. QED  BY <2>7, <3>1 DEF RulesDone
  <2>9. QED  BY <2>4, <2>5, <2>6, <2>8 DEF IInv
<1>6. QED  BY <1>1, <1>3, <1>4, <1>5

\* Fill and play leave what was generated alone.
LEMMA PlayingKeepsIInv ==
    ASSUME IInv, UNCHANGED <<turn, half, regionMap, genVars>>,
           stage' = stage \/ (stage = "fill" /\ stage' = "play")
    PROVE  IInv'
<1>1. Behind' = Behind  BY DEF Behind
<1>2. Turns' /\ Domains'  BY DEF IInv, Turns, Domains, genVars
<1>3. SharedTable'  BY DEF IInv, SharedTable, Edited, genVars
<1>4. Worlds' /\ GraphsDone'
      BY <1>1 DEF IInv, Worlds, GraphsDone, HasWorld, HasGraph, genVars
<1>5. RulesDone'  BY <1>1 DEF IInv, RulesDone, HasRules, RulesRight, genVars
<1>6. QED  BY <1>2, <1>3, <1>4, <1>5 DEF IInv

LEMMA NextIInv == IInv /\ [Next]_vars => IInv'
<1> SUFFICES ASSUME IInv, [Next]_vars PROVE IInv'  OBVIOUS
<1>1. CASE Early  BY <1>1, EarlyKeepsIInv
<1>2. CASE Regions  BY <1>2, RegionsKeepsIInv
<1>3. CASE ItemPool  BY <1>3, ItemPoolKeepsIInv
<1>4. CASE Rules  BY <1>4, RulesKeepsIInv
<1>5. CASE Place \/ Play  BY <1>5, PlayingKeepsIInv DEF Place, Play
<1>6. CASE Clear \/ Accepted \/ Connected \/ ReceivedItems
      BY <1>6, PlayingKeepsIInv DEF Clear, Accepted, Connected, ReceivedItems
<1>7. CASE UNCHANGED vars  BY <1>7, PlayingKeepsIInv DEF vars
<1>8. QED  BY <1>1, <1>2, <1>3, <1>4, <1>5, <1>6, <1>7 DEF Next

\* The invariant, for every data table and every multiworld.
THEOREM Invariance == Spec => []IInv
<1>1. Init => IInv  BY InitIInv
<1>2. IInv /\ [Next]_vars => IInv'  BY NextIInv
<1>3. QED  BY <1>1, <1>2, PTL DEF Spec

\* The rules of a slot read the gates of the data table, whatever slots are
\* generated around it and in whatever order: before_set_rules empties
\* entries of a table that all share, after_set_rules puts them back
\* (hooks/World.py, open_world.py).
THEOREM SlotsDoNotBleed == Spec => []NoBleed
<1>1. IInv => NoBleed
      BY DEF IInv, RulesDone, HasRules, RulesRight, NoBleed, SlotSet
<1>2. QED  BY <1>1, Invariance, PTL

-----------------------------------------------------------------------------
(* A tracker that generates the seed from its slot data. *)

LEMMA MinOf == ASSUME NEW x \in Int, NEW y \in Int
               PROVE  Min({x, y}) = IF x <= y THEN x ELSE y
<1>1. \A m \in {x, y} : (\A k \in {x, y} : m <= k) => m = IF x <= y THEN x ELSE y
      OBVIOUS
<1>2. \E m \in {x, y} : \A k \in {x, y} : m <= k  OBVIOUS
<1>3. QED  BY <1>1, <1>2 DEF Min

LEMMA MaxOf == ASSUME NEW x \in Int, NEW y \in Int
               PROVE  Max({x, y}) = IF x <= y THEN y ELSE x
<1>1. \A m \in {x, y} : (\A k \in {x, y} : m >= k) => m = IF x <= y THEN y ELSE x
      OBVIOUS
<1>2. \E m \in {x, y} : \A k \in {x, y} : m >= k  OBVIOUS
<1>3. QED  BY <1>1, <1>2 DEF Max

OptionRecords == [open_world : BOOLEAN, open_world_count : Nat,
                  palaces_required : Int, world_unlock_items : BOOLEAN,
                    badge_level_entry_gating : BOOLEAN]

\* Resolving a threshold that was resolved before changes nothing, the
\* number of worlds being the same.
LEMMA ResolvedStays ==
    ASSUME NEW o \in OptionRecords, NEW a \in SUBSET WORLD_NUMBERS
    PROVE  LET n == ResolvePalaces(o, a)
           IN ResolvePalaces([o EXCEPT !.palaces_required = n], a) = n
<1> DEFINE c == Cardinality(a)
           n == ResolvePalaces(o, a)
           again == [o EXCEPT !.palaces_required = n]
<1>1. c \in Nat  BY FS_Subset, FS_CardinalityType, OpenWorldAssumption DEF OpenWorldAssumption
<1>2. o.palaces_required \in Int  BY DEF OptionRecords
<1> HIDE DEF c
<1>3. \A q \in Int : Max({1, Min({q, c})}) = IF q >= c THEN (IF c >= 1 THEN c ELSE 1)
                                             ELSE (IF q >= 1 THEN q ELSE 1)
  <2> TAKE q \in Int
  <2>1. Min({q, c}) = (IF q <= c THEN q ELSE c)  BY <1>1, MinOf
  <2>2. Min({q, c}) \in Int  BY <1>1, <2>1
  <2>3. Max({1, Min({q, c})}) = IF 1 <= Min({q, c}) THEN Min({q, c}) ELSE 1  BY <2>2, MaxOf
  <2>4. QED  BY <1>1, <2>1, <2>3
<1>4. n = IF o.palaces_required <= 0 THEN c ELSE Max({1, Min({o.palaces_required, c})})
      BY DEF ResolvePalaces, c
<1>5. n \in Nat /\ (o.palaces_required > 0 => n > 0 /\ (n <= c \/ n = 1))
      BY <1>1, <1>2, <1>3, <1>4
<1> HIDE DEF n
<1>6. again.palaces_required = n  BY DEF OptionRecords
<1> HIDE DEF again
<1>7. ResolvePalaces(again, a) = IF n <= 0 THEN c ELSE Max({1, Min({n, c})})
      BY <1>6 DEF ResolvePalaces, c
<1>8. ResolvePalaces(again, a) = n  BY <1>1, <1>2, <1>3, <1>4, <1>5, <1>7
<1>9. QED  BY <1>8 DEF again, n

\* What a slot got in open-world mode: some active worlds, and a start among
\* them if worlds are unlocked by items.
LEMMA RolledWorld ==
    ASSUME NEW o \in OptionRecords, o.open_world, NEW w \in GenerateEarly(o, NoPins)
    PROVE  \E a \in SUBSET WORLD_NUMBERS : \E s \in {None} \cup WORLD_NUMBERS :
              /\ w = [open_world |-> TRUE, active |-> a, start |-> s,
                      unlocks |-> o.world_unlock_items,
                      palaces_required |-> ResolvePalaces(o, a)]
              /\ IF o.world_unlock_items THEN s \in a ELSE s = None
<1> DEFINE Starts(x) == CASE ~o.world_unlock_items -> {None}
                          [] o.world_unlock_items /\ NoPins.start # None -> {NoPins.start}
                          [] OTHER -> x
           Actives == IF NoPins.active # None THEN {NoPins.active}
                      ELSE {x \in SUBSET WORLD_NUMBERS : Cardinality(x) = o.open_world_count}
           Rec(x, y) == [open_world |-> TRUE, active |-> x, start |-> y,
                         unlocks |-> o.world_unlock_items,
                         palaces_required |-> ResolvePalaces(o, x)]
<1>1. o.world_unlock_items \in BOOLEAN  BY DEF OptionRecords
<1>2. GenerateEarly(o, NoPins) = UNION {{Rec(x, y) : y \in Starts(x)} : x \in Actives}
      BY DEF GenerateEarly
<1>3. PICK a \in Actives : \E y \in Starts(a) : w = Rec(a, y)  BY <1>2
<1>4. PICK s \in Starts(a) : w = Rec(a, s)  BY <1>3
<1>5. a \in SUBSET WORLD_NUMBERS  BY DEF NoPins
<1>6. IF o.world_unlock_items THEN s \in a ELSE s = None  BY <1>1, <1>4 DEF NoPins
<1>7. s \in {None} \cup WORLD_NUMBERS  BY <1>5, <1>6
<1>8. QED  BY <1>4, <1>5, <1>6, <1>7

\* Its pins leave nothing to the tracker's dice.
LEMMA PinnedWorld ==
    ASSUME NEW o \in OptionRecords, o.open_world,
           NEW a \in SUBSET WORLD_NUMBERS, NEW s \in {None} \cup WORLD_NUMBERS,
           IF o.world_unlock_items THEN s \in a ELSE s = None
    PROVE  GenerateEarly(o, [active |-> a, start |-> s])
              = {[open_world |-> TRUE, active |-> a, start |-> s,
                  unlocks |-> o.world_unlock_items,
                  palaces_required |-> ResolvePalaces(o, a)]}
<1> DEFINE pins == [active |-> a, start |-> s]
           Starts(x) == CASE ~o.world_unlock_items -> {None}
                          [] o.world_unlock_items /\ pins.start # None -> {pins.start}
                          [] OTHER -> x
           Actives == IF pins.active # None THEN {pins.active}
                      ELSE {x \in SUBSET WORLD_NUMBERS : Cardinality(x) = o.open_world_count}
           Rec(x, y) == [open_world |-> TRUE, active |-> x, start |-> y,
                         unlocks |-> o.world_unlock_items,
                         palaces_required |-> ResolvePalaces(o, x)]
<1>1. o.world_unlock_items \in BOOLEAN  BY DEF OptionRecords
<1>2. a # None /\ (s \in a => s # None)
      BY OpenWorldAssumption DEF OpenWorldAssumption
<1>3. GenerateEarly(o, pins) = UNION {{Rec(x, y) : y \in Starts(x)} : x \in Actives}
      BY DEF GenerateEarly
<1>4. Actives = {a}  BY <1>2
<1>5. Starts(a) = {s}  BY <1>1, <1>2
<1> HIDE DEF Starts, Actives, Rec
<1>6. GenerateEarly(o, pins) = {Rec(a, s)}  BY <1>3, <1>4, <1>5
<1>7. QED  BY <1>6 DEF Rec

\* fill_slot_data, read back by hook_interpret_slot_data, pins what the slot
\* rolled: a tracker's generator makes the same worlds, start and threshold,
\* whatever its dice say, for all options and data tables.
THEOREM TrackersAgree == Spec => []TrackerAgrees
<1>1. ASSUME IInv, stage = "fill", NEW p \in SlotSet
      PROVE  apply_slot_data(SlotData(p)) = {world[p]}
  <2> DEFINE o == opts[p]
             w == world[p]
             o2 == SlotData(p).options
  <2>1. o \in OptionRecords  BY <1>1, Data DEF IInv, Domains, OptionRecords
  <2>2. w \in GenerateEarly(o, NoPins)  BY <1>1 DEF IInv, Worlds, HasWorld
  <2>3. CASE ~o.open_world
    <3>1. w = [open_world |-> FALSE, active |-> WORLD_NUMBERS, start |-> None,
               unlocks |-> FALSE, palaces_required |-> Cardinality(WORLD_NUMBERS)]
          BY <2>2, <2>3 DEF GenerateEarly
    <3>2. ~o2.open_world  BY <2>1, <2>3, <3>1 DEF SlotData, FillSlotData, OptionRecords
    <3>3. QED  BY <3>1, <3>2 DEF apply_slot_data, GenerateEarly
  <2>4. CASE o.open_world
    <3>1. PICK a \in SUBSET WORLD_NUMBERS, s \in {None} \cup WORLD_NUMBERS :
             /\ w = [open_world |-> TRUE, active |-> a, start |-> s,
                     unlocks |-> o.world_unlock_items,
                     palaces_required |-> ResolvePalaces(o, a)]
             /\ IF o.world_unlock_items THEN s \in a ELSE s = None
          BY <2>1, <2>2, <2>4, RolledWorld
    <3> DEFINE n == ResolvePalaces(o, a)
    <3>2. o2 = [o EXCEPT !.palaces_required = n]  BY <3>1 DEF SlotData, FillSlotData
    <3>3. Pins(SlotData(p)) = [active |-> a, start |-> s]  BY <3>1 DEF SlotData, Pins
    <3>4. n \in Int
      <4>1. Cardinality(a) \in Nat
            BY FS_Subset, FS_CardinalityType, OpenWorldAssumption DEF OpenWorldAssumption
      <4>2. o.palaces_required \in Int  BY <2>1 DEF OptionRecords
      <4>3. Min({o.palaces_required, Cardinality(a)}) \in Int  BY <4>1, <4>2, MinOf
      <4>4. Max({1, Min({o.palaces_required, Cardinality(a)})}) \in Int  BY <4>3, MaxOf
      <4>5. QED  BY <4>1, <4>4 DEF ResolvePalaces
    <3>5. /\ o2 \in OptionRecords /\ o2.open_world
          /\ o2.world_unlock_items = o.world_unlock_items
          BY <2>1, <2>4, <3>2, <3>4 DEF OptionRecords
    <3>6. ResolvePalaces(o2, a) = n  BY <2>1, <3>2, ResolvedStays
    <3> HIDE DEF n, o2, o, w
    <3>7. GenerateEarly(o2, [active |-> a, start |-> s])
             = {[open_world |-> TRUE, active |-> a, start |-> s,
                 unlocks |-> o2.world_unlock_items,
                 palaces_required |-> ResolvePalaces(o2, a)]}
          BY <3>1, <3>5, PinnedWorld
    <3>8. GenerateEarly(o2, Pins(SlotData(p))) = {w}  BY <3>1, <3>3, <3>5, <3>6, <3>7 DEF n
    <3>9. QED  BY <3>8 DEF apply_slot_data, o2, w
  <2>5. QED  BY <2>3, <2>4
<1>2. IInv => TrackerAgrees  BY <1>1 DEF TrackerAgrees, SlotSet
<1>3. QED  BY <1>2, Invariance, PTL
=============================================================================
