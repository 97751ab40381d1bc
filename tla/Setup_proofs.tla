---------------------------- MODULE Setup_proofs ----------------------------
(***************************************************************************)
(* The setup wizard of Setup.tla, for every set of interpreters, subnets   *)
(* and starting machines, whatever an interrupted extraction leaves behind *)
(* and whether an older .apworld may be put back.                          *)
(*                                                                         *)
(* What the probe saw goes stale only between two runs; what an earlier    *)
(* run left on the disk is kept honest by the order of its removal.        *)
(***************************************************************************)
EXTENDS Setup, TLAPS

\* From the probe on, what the rest of the run needs of the interpreter is
\* there, or still on the list of what is to be installed.
Provided ==
    run.pc \in Phases \ {"idle", "probe", "done"} =>
      /\ python \in Pythons /\ run.resolved = python /\ "python311" \notin run.missing
      /\ "lz4" \in site[python] \/ "lz4" \in run.missing
      /\ "pyelftools" \in site[python] \/ "pyelftools" \in run.missing
      /\ (run.missing = {}) <=> (run.pc \notin {"preflight", "install"})

\* The sources of a clone are those of the checkout, and the marker vouches
\* for the extracted ones.
Honest ==
    /\ host.dev => tree \in Sources /\ tree.version = release
    /\ ~host.dev /\ marker \in Nat => tree \in Sources /\ tree.version = marker
    /\ ~host.dev /\ run.pc \in {"rename", "mark"} => marker = None
    /\ run.pc \in {"remove", "rename", "mark"} => ~host.dev

\* What was configured had patched sources, and goes when they go.
Configures ==
    /\ build.cache # None => tree \in Sources /\ tree.patched
    /\ run.pc = "rename" => build = NoBuild

\* The phases after the extraction work on the sources now installed.
Current ==
    /\ run.pc \in {"mark", "decide", "configure", "build"} =>
         tree \in Sources /\ tree.version = release
    /\ host.dev /\ run.pc \in {"resolve", "remove", "rename", "mark", "decide", "configure",
                               "build", "subsdk9", "main.npdm", "done"} => link = "here"

\* cmake --build finds a configuration for this run.
Asked ==
    run.pc = "build" =>
      /\ build.cache \in Config /\ build.cache.python = run.resolved
      /\ run.seed # None => build.cache.seed = run.seed

\* The copies go out from one build of this run.
Copied ==
    /\ run.pc \in {"subsdk9", "main.npdm", "done"} =>
         /\ build.out \in Binary /\ build.out.version = release
         /\ run.seed # None => build.out.seed = run.seed
    /\ run.pc \in {"main.npdm", "done"} => deployed["subsdk9"] = build.out
    /\ run.pc = "done" => deployed["main.npdm"] = build.out

IInv == /\ TypeOK /\ Provided /\ Honest /\ Configures
        /\ Current /\ Asked /\ Copied

-----------------------------------------------------------------------------
Blockable == Keys \cup {"dev_mode", "ryujinx", "online", "directory"}

RunType == [pc : Phases, install : BOOLEAN, seed : Seeds \cup {None},
            missing : SUBSET Keys, blocked : SUBSET Blockable,
            resolved : Pythons \cup {None}, ok : BOOLEAN]

\* The constants, as the proofs use them.
LEMMA Params ==
    /\ Winget \in Pythons /\ None \notin Pythons /\ None \notin Seeds /\ None \notin Nat
    /\ Leftovers \subseteq {"none", "broken", "headless"} /\ Reverts \in BOOLEAN
    /\ MaxRelease \in Nat \ {0} /\ MaxEvents \in Nat /\ MaxFaults \in Nat
    /\ \A m \in Machines : /\ m.host \in [windows : BOOLEAN, dev : BOOLEAN]
                           /\ m.tools \in [ToolKeys -> Fitness] /\ m.link \in Links
                           /\ m.python \in Pythons \cup {None}
                           /\ m.subs \subseteq {"vendor", "sys"}
BY SetupAssumption DEF SetupAssumption

\* The rows of the wizard, one by one.
LEMMA KeysAre ==
    Keys = {"git", "cmake", "ninja", "python311", "llvm19", "archipelago_submodule",
            "switch_mod_submodule", "archipelago_deps", "lz4", "pyelftools"}
<1>1. DOMAIN INSTALL_ORDER = {1, 2, 3, 4, 5, 6, 7, 8, 9, 10}
      BY DEF INSTALL_ORDER
<1>2. QED  BY <1>1 DEF Keys, INSTALL_ORDER

\* The next key to install is one that is missing.
LEMMA NextKeyIsMissing ==
    ASSUME run.missing # {}, run.missing \subseteq Keys
    PROVE  Next_key \in run.missing
<1> DEFINE due == {i \in DOMAIN INSTALL_ORDER : INSTALL_ORDER[i] \in run.missing}
<1>1. due # {}  BY DEF Keys
<1>2. DOMAIN INSTALL_ORDER = 1..10  BY DEF INSTALL_ORDER
<1>3. due \subseteq 1..10  BY <1>2
<1> HIDE DEF due
<1>4. \E i \in due : \A j \in due : i <= j
  <2>1. CASE 1 \in due   BY <1>3, <2>1
  <2>2. CASE 1 \notin due /\ 2 \in due   BY <1>3, <2>2
  <2>3. CASE due \cap 1..2 = {} /\ 3 \in due   BY <1>3, <2>3
  <2>4. CASE due \cap 1..3 = {} /\ 4 \in due   BY <1>3, <2>4
  <2>5. CASE due \cap 1..4 = {} /\ 5 \in due   BY <1>3, <2>5
  <2>6. CASE due \cap 1..5 = {} /\ 6 \in due   BY <1>3, <2>6
  <2>7. CASE due \cap 1..6 = {} /\ 7 \in due   BY <1>3, <2>7
  <2>8. CASE due \cap 1..7 = {} /\ 8 \in due   BY <1>3, <2>8
  <2>9. CASE due \cap 1..8 = {} /\ 9 \in due   BY <1>3, <2>9
  <2>10. CASE due \cap 1..9 = {}
    <3>1. \A j \in due : j = 10  BY <1>3, <2>10
    <3>2. QED  BY <1>1, <3>1
  <2>11. QED
         BY <1>3, <2>1, <2>2, <2>3, <2>4, <2>5, <2>6, <2>7, <2>8, <2>9, <2>10
<1>5. (CHOOSE i \in due : \A j \in due : i <= j) \in due  BY <1>4
<1>6. QED  BY <1>5 DEF Next_key, due

\* What a probe that blocks nothing has seen.
LEMMA ProbeSaw ==
    ASSUME TypeOK, NEW fixes \in BOOLEAN, Blocking(fixes) = {}
    PROVE  /\ python \in Pythons /\ Missing \subseteq Keys /\ "python311" \notin Missing
           /\ "lz4" \in site[python] \/ "lz4" \in Missing
           /\ "pyelftools" \in site[python] \/ "pyelftools" \in Missing
<1> DEFINE all == check_all
<1>1. DOMAIN all = Keys \cup {"dev_mode"}
      BY KeysAre DEF check_all
<1>2. /\ all["dev_mode"] = check_dev_mode /\ all["python311"] = check_python311
      /\ all["lz4"] = check_lz4 /\ all["pyelftools"] = check_pyelftools
      BY DEF check_all
<1>3. check_dev_mode.auto = FALSE /\ check_python311.ok = (python # None)
      BY DEF check_dev_mode, check_python311, Row
<1>4. check_lz4 = PyDep("lz4") /\ check_pyelftools = PyDep("pyelftools")
      BY DEF check_lz4, check_pyelftools
<1> HIDE DEF all
<1>5. /\ Red = {k \in DOMAIN all : ~all[k].ok} /\ Missing = {k \in Red : all[k].auto}
      /\ \A k \in Red : fixes /\ all[k].auto
      BY DEF Red, Missing, Blocking, all
<1>6. python # None
  <2>1. SUFFICES ASSUME python = None  PROVE FALSE  OBVIOUS
  <2>2. all["lz4"].ok = FALSE /\ all["lz4"].auto = FALSE
        BY <1>2, <1>4, <2>1 DEF PyDep, Row
  <2>3. "lz4" \in DOMAIN all  BY <1>1, KeysAre
  <2>4. QED  BY <1>5, <2>2, <2>3
<1>7. \A pkg : PyDep(pkg).ok = (pkg \in site[python])
      BY <1>6 DEF PyDep, Row
<1>8. "dev_mode" \notin Missing  BY <1>2, <1>3, <1>5
<1>9. Missing \subseteq Keys  BY <1>1, <1>5, <1>8
<1>10. "python311" \notin Missing  BY <1>2, <1>3, <1>5, <1>6
<1>11. "lz4" \in site[python] \/ "lz4" \in Missing
       BY <1>1, <1>2, <1>4, <1>5, <1>7, KeysAre
<1>12. "pyelftools" \in site[python] \/ "pyelftools" \in Missing
       BY <1>1, <1>2, <1>4, <1>5, <1>7, KeysAre
<1>13. python \in Pythons  BY <1>6 DEF TypeOK
<1>14. QED  BY <1>9, <1>10, <1>11, <1>12, <1>13

\* The rows that stop a run are ones that can.
LEMMA BlockedAreKeys ==
    ASSUME NEW fixes
    PROVE  Blocking(fixes) \subseteq Blockable
<1>1. DOMAIN check_all = Keys \cup {"dev_mode"}
      BY KeysAre DEF check_all
<1>2. QED  BY <1>1 DEF Blocking, Red, Blockable

-----------------------------------------------------------------------------
(* The process. *)

\* No run is a run.
LEMMA IdleType == Idle \in RunType /\ Idle.pc = "idle"
BY DEF Idle, RunType, Phases

\* Going on to the next phase keeps what the run knows.
LEMMA Goes ==
    ASSUME TypeOK, NEW pc \in Phases, Goto(pc)
    PROVE  /\ run' \in RunType /\ run'.pc = pc /\ run'.seed = run.seed
           /\ run'.missing = run.missing /\ run'.resolved = run.resolved
<1>1. run \in RunType  BY DEF TypeOK, RunType, Blockable
<1>2. QED  BY <1>1 DEF Goto, RunType

\* A run that fails is over.
LEMMA Fails ==
    ASSUME NEW blocked \in SUBSET Blockable, Fail(blocked)
    PROVE  run' \in RunType /\ run'.pc = "idle"
BY IdleType DEF Fail, RunType

-----------------------------------------------------------------------------
(* A process that has ended, or has yet to probe, relies on the disk alone. *)

DiskIsHonest ==
    /\ host.dev => tree \in Sources /\ tree.version = release
    /\ ~host.dev /\ marker \in Nat => tree \in Sources /\ tree.version = marker
    /\ build.cache # None => tree \in Sources /\ tree.patched

\* Outside a run, or at its start, only the disk has to be honest.
LEMMA Unbound ==
    ASSUME TypeOK', DiskIsHonest', run'.pc \in {"idle", "probe"}
    PROVE  IInv'
<1>1. Provided'  BY DEF Provided
<1>2. Honest'  BY DEF Honest, DiskIsHonest
<1>3. Configures'  BY DEF Configures, DiskIsHonest
<1>4. Current' /\ Asked' /\ Copied'  BY DEF Current, Asked, Copied
<1>5. QED  BY <1>1, <1>2, <1>3, <1>4 DEF IInv

\* The disk is as honest as it was when nothing is written.
LEMMA DiskStays ==
    ASSUME IInv, UNCHANGED <<host, tree, release, marker, build>>
    PROVE  DiskIsHonest'
BY DEF IInv, Honest, Configures, DiskIsHonest

\* It holds on a machine on which Setup never ran.
LEMMA InitIInv == Init => IInv
<1> USE Params
<1> SUFFICES ASSUME Init PROVE IInv  OBVIOUS
<1>1. PICK m \in Machines :
        /\ host = m.host /\ tools = m.tools /\ python = m.python
        /\ link = m.link /\ subs = m.subs
      BY DEF Init
<1>2. 1 \in 1..MaxRelease  OBVIOUS
<1>3. [version |-> 1, whole |-> TRUE, patched |-> FALSE] \in Sources
      BY <1>2 DEF Sources
<1>4. tree \in Sources \cup {None} /\ (host.dev => tree \in Sources /\ tree.version = 1)
      BY <1>3 DEF Init
<1>5. build \in BuildDir /\ build.cache = None
      BY DEF Init, NoBuild, BuildDir
<1>6. run \in RunType /\ run.pc = "idle"  BY IdleType DEF Init
<1>7. TypeOK
  <2>1. /\ host \in [windows : BOOLEAN, dev : BOOLEAN] /\ tools \in [ToolKeys -> Fitness]
        /\ python \in Pythons \cup {None} /\ link \in Links /\ subs \subseteq {"vendor", "sys"}
        BY <1>1
  <2>2. /\ deployed \in [{"subsdk9", "main.npdm"} -> Binary \cup {None}]
        /\ site \in [Pythons -> SUBSET {"ap", "lz4", "pyelftools"}]
        BY DEF Init
  <2>3. /\ release \in 1..MaxRelease /\ marker \in (1..MaxRelease) \cup {None}
        /\ events \in 0..MaxEvents /\ faults \in 0..MaxFaults
        /\ portable = "none" /\ apMarker = FALSE /\ online = TRUE
        BY <1>2 DEF Init
  <2>4. QED  BY <1>4, <1>5, <1>6, <2>1, <2>2, <2>3 DEF TypeOK, RunType, Blockable
<1>8. QED
      BY <1>4, <1>5, <1>6, <1>7
      DEF Init, IInv, Provided, Honest, Configures, Current, Asked, Copied

-----------------------------------------------------------------------------
(* From the probe to the junction. *)

\* The user starts a run.
LEMMA RunKeeps == ASSUME IInv, Run PROVE IInv'
<1>1. run' \in RunType /\ run'.pc = "probe"
      BY IdleType DEF Run, RunType, Idle, Phases
<1>2. TypeOK'
      BY <1>1 DEF IInv, TypeOK, Run, machine, disk, RunType, Blockable
<1>3. QED  BY <1>1, <1>2, DiskStays, Unbound DEF Run, disk, machine

\* A step that fails without touching the sources or the build.
LEMMA FailKeeps ==
    ASSUME IInv, TypeOK', NEW blocked \in SUBSET Blockable, Fail(blocked),
           UNCHANGED <<host, tree, release, marker, build>>
    PROVE  IInv'
BY Fails, DiskStays, Unbound

\* A step to a phase before the sources are looked at.
LEMMA EarlyKeeps ==
    ASSUME IInv, TypeOK', Provided', run'.pc \in {"preflight", "install", "junction"},
           UNCHANGED <<host, tree, release, marker, build>>
    PROVE  IInv'
<1>1. Honest'  BY DEF IInv, Honest
<1>2. Configures'  BY DEF IInv, Configures
<1>3. Current' /\ Asked' /\ Copied'  BY DEF Current, Asked, Copied
<1>4. QED  BY <1>1, <1>2, <1>3 DEF IInv

\* The detectors fill the rows.
LEMMA ProbeKeeps == ASSUME IInv, Probe PROVE IInv'
<1>1. TypeOK /\ run \in RunType /\ run.install \in BOOLEAN
      BY DEF IInv, TypeOK, RunType, Blockable
<1>2. CASE Blocking(run.install) # {}
  <2>1. Fail(Blocking(run.install))  BY <1>2 DEF Probe
  <2>2. run' \in RunType  BY <2>1, BlockedAreKeys, Fails
  <2>3. TypeOK'  BY <1>1, <2>2 DEF TypeOK, Probe, disk, RunType, Blockable
  <2>4. QED  BY <2>1, <2>3, BlockedAreKeys, FailKeeps DEF Probe, disk
<1>3. CASE Blocking(run.install) = {}
  <2>1. /\ python \in Pythons /\ Missing \subseteq Keys /\ "python311" \notin Missing
        /\ "lz4" \in site[python] \/ "lz4" \in Missing
        /\ "pyelftools" \in site[python] \/ "pyelftools" \in Missing
        BY <1>1, <1>3, ProbeSaw
  <2>2. run' = [run EXCEPT !.pc = IF Missing = {} THEN "junction" ELSE "preflight",
                           !.missing = Missing, !.resolved = python]
        BY <1>3 DEF Probe
  <2>3. /\ run' \in RunType /\ run'.missing = Missing /\ run'.resolved = python
        /\ run'.pc = IF Missing = {} THEN "junction" ELSE "preflight"
        BY <1>1, <2>1, <2>2 DEF RunType, Phases
  <2>4. TypeOK'  BY <1>1, <2>3 DEF TypeOK, Probe, disk, RunType, Blockable
  <2>5. Provided'  BY <2>1, <2>3 DEF Provided, Probe
  <2>6. QED  BY <2>3, <2>4, <2>5, EarlyKeeps DEF Probe, disk
<1>4. QED  BY <1>2, <1>3

\* A run goes on to install, or stops at its red rows.
LEMMA PreflightKeeps == ASSUME IInv, Preflight PROVE IInv'
<1>1. TypeOK /\ Provided  BY DEF IInv
<1>2. run' \in RunType => TypeOK'
      BY <1>1 DEF TypeOK, Preflight, machine, disk, RunType, Blockable
<1>3. CASE online
  <2>1. Goto("install")  BY <1>3 DEF Preflight
  <2>2. /\ run' \in RunType /\ run'.pc = "install"
        /\ run'.missing = run.missing /\ run'.resolved = run.resolved
        BY <1>1, <2>1, Goes DEF Phases
  <2>3. Provided'
        BY <1>1, <2>2 DEF Provided, Preflight, machine, Phases
  <2>4. QED  BY <1>2, <2>2, <2>3, EarlyKeeps DEF Preflight, machine, disk
<1>4. CASE ~online
  <2>1. Fail({"online"}) /\ {"online"} \in SUBSET Blockable
        BY <1>4 DEF Preflight, Blockable
  <2>2. QED  BY <1>2, <2>1, Fails, FailKeeps DEF Preflight, machine, disk
<1>5. QED  BY <1>3, <1>4

\* Nothing the installers do takes a package away, or changes the
\* interpreter unless python311 was missing.
LEMMA InstallKeeps == ASSUME IInv, Install PROVE IInv'
<1>1. TypeOK /\ Provided /\ run \in RunType /\ run.pc = "install"
      BY DEF IInv, TypeOK, RunType, Blockable, Install
<1>2. /\ python \in Pythons /\ run.resolved = python /\ "python311" \notin run.missing
      /\ "lz4" \in site[python] \/ "lz4" \in run.missing
      /\ "pyelftools" \in site[python] \/ "pyelftools" \in run.missing
      /\ run.missing # {} /\ run.missing \subseteq Keys
      BY <1>1 DEF Provided, RunType, Phases
<1> DEFINE key == Next_key
           left == run.missing \ {key}
<1>3. key \in run.missing /\ key # "python311"  BY <1>2, NextKeyIsMissing
<1>4. run' = [run EXCEPT !.missing = left, !.resolved = python',
                         !.pc = IF left = {} THEN "junction" ELSE @]
      BY DEF Install
<1>5. \/ winget_install(key) \/ install_llvm19(key)
      \/ install_submodule(key) \/ pip_install(key)
      BY DEF Install
<1> HIDE DEF key
<1>6. /\ python' = python
      /\ tools' \in [ToolKeys -> Fitness]
      /\ portable' \in {"none", "broken", "headless", "full"}
      /\ subs' \subseteq {"vendor", "sys"}
      /\ site' \in [Pythons -> SUBSET {"ap", "lz4", "pyelftools"}]
      /\ \A p \in Pythons : site[p] \subseteq site'[p]
      /\ key \in DOMAIN Pip => Pip[key] \in site'[python]
  <2>1. DOMAIN Pip = {"archipelago_deps", "lz4", "pyelftools"}
        /\ \A k \in DOMAIN Pip : Pip[k] \in {"ap", "lz4", "pyelftools"}
        BY DEF Pip
  <2>2. DOMAIN Submodule = {"archipelago_submodule", "switch_mod_submodule"}
        /\ \A k \in DOMAIN Submodule : Submodule[k] \in {"vendor", "sys"}
        BY DEF Submodule
  <2>3. CASE winget_install(key)
        BY <1>1, <1>2, <1>3, <2>1, <2>3
        DEF winget_install, TypeOK, Packages, ToolKeys, Fitness
  <2>4. CASE install_llvm19(key)
        BY <1>1, <1>2, <2>1, <2>4 DEF install_llvm19, TypeOK
  <2>5. CASE install_submodule(key)
        BY <1>1, <1>2, <2>1, <2>2, <2>5 DEF install_submodule, TypeOK
  <2>6. CASE pip_install(key)
        BY <1>1, <1>2, <2>1, <2>6 DEF pip_install, TypeOK
  <2>7. QED  BY <1>5, <2>3, <2>4, <2>5, <2>6
<1>7. /\ run' \in RunType /\ run'.missing = left /\ run'.resolved = python
      /\ run'.pc = IF left = {} THEN "junction" ELSE "install"
      BY <1>1, <1>2, <1>4, <1>6 DEF RunType, Phases
<1>8. TypeOK'
      BY <1>1, <1>2, <1>6, <1>7 DEF TypeOK, Install, disk, RunType, Blockable
<1>9. Provided'
  <2>1. "lz4" \in site'[python] \/ "lz4" \in left
    <3>1. CASE key = "lz4"
          BY <1>6, <3>1 DEF Pip
    <3>2. CASE key # "lz4"  BY <1>2, <1>6, <3>2
    <3>3. QED  BY <3>1, <3>2
  <2>2. "pyelftools" \in site'[python] \/ "pyelftools" \in left
    <3>1. CASE key = "pyelftools"
          BY <1>6, <3>1 DEF Pip
    <3>2. CASE key # "pyelftools"  BY <1>2, <1>6, <3>2
    <3>3. QED  BY <3>1, <3>2
  <2>3. QED  BY <1>2, <1>6, <1>7, <2>1, <2>2 DEF Provided
<1>10. run'.pc \in {"preflight", "install", "junction"}  BY <1>7
<1>11. QED  BY <1>8, <1>9, <1>10, EarlyKeeps DEF Install, disk

-----------------------------------------------------------------------------
(* From the junction to the build. *)

Later == Phases \ {"idle", "probe", "preflight", "install", "done"}

\* What was provided stays so while interpreters and packages do.
LEMMA StillProvided ==
    ASSUME IInv, run.pc \in Later, UNCHANGED <<python, site>>,
           NEW pc \in Phases \ {"preflight", "install"}, Goto(pc)
    PROVE  Provided'
<1>1. run' \in RunType /\ run'.pc = pc /\ run'.missing = run.missing
      /\ run'.resolved = run.resolved
      BY Goes DEF IInv
<1>2. QED  BY <1>1 DEF IInv, Provided, Later

\* The type invariant of a step of these phases.
LEMMA LaterType ==
    ASSUME TypeOK, UNCHANGED machine, UNCHANGED <<release, events>>,
           marker' \in (1..MaxRelease) \cup {None}, tree' \in Sources \cup {None},
           build' \in BuildDir, link' \in Links, faults' \in 0..MaxFaults,
           deployed' \in [{"subsdk9", "main.npdm"} -> Binary \cup {None}],
           run' \in RunType
    PROVE  TypeOK'
BY DEF TypeOK, machine, RunType, Blockable

\* run_junction keeps the invariant.
LEMMA JunctionKeeps == ASSUME IInv, run_junction PROVE IInv'
<1>1. TypeOK /\ run.pc = "junction"  BY DEF IInv, run_junction
<1>2. UNCHANGED <<machine, marker, tree, build, deployed, release, events, faults>>
      BY DEF run_junction
<1>3. run' \in RunType /\ link' \in Links => TypeOK'
      BY <1>1, <1>2, LaterType DEF TypeOK
<1>4. CASE host.dev /\ link = "directory"
  <2>1. Fail({"directory"}) /\ link' = link /\ {"directory"} \in SUBSET Blockable
        BY <1>4 DEF run_junction, install_junction, Blockable
  <2>2. TypeOK'  BY <1>1, <1>3, <2>1, Fails DEF TypeOK
  <2>3. QED  BY <1>2, <2>1, <2>2, FailKeeps DEF machine
<1>5. CASE ~(host.dev /\ link = "directory")
  <2>1. Goto("resolve") /\ link' = IF host.dev THEN "here" ELSE link
        BY <1>5 DEF run_junction, install_junction
  <2>2. run' \in RunType /\ run'.pc = "resolve" /\ link' \in Links
        BY <1>1, <2>1, Goes DEF Phases, TypeOK, Links
  <2>3. Provided'
        BY <1>1, <1>2, <2>1, StillProvided DEF Later, Phases, machine
  <2>4. Honest' /\ Configures'
        BY <1>2, <2>2 DEF IInv, Honest, Configures, machine
  <2>5. Current' /\ Asked' /\ Copied'
        BY <1>2, <2>1, <2>2 DEF Current, Asked, Copied, machine
  <2>6. QED  BY <1>3, <2>2, <2>3, <2>4, <2>5 DEF IInv
<1>6. QED  BY <1>4, <1>5

\* The bundled sources are unpacked beside the old tree.
LEMMA StageKeeps == ASSUME IInv, Stage PROVE IInv'
<1>1. TypeOK /\ run.pc = "resolve"  BY DEF IInv, Stage
<1>2. UNCHANGED <<machine, disk, release, events, faults>>  BY DEF Stage
<1> DEFINE pc == IF host.dev \/ Cached THEN "decide" ELSE "remove"
<1>3. Goto(pc) /\ pc \in Phases \ {"preflight", "install"}
      BY DEF Stage, Phases
<1>4. run' \in RunType /\ run'.pc = pc  BY <1>1, <1>3, Goes
<1>5. TypeOK'  BY <1>1, <1>2, <1>4, LaterType DEF TypeOK, disk
<1>6. Provided'
      BY <1>1, <1>2, <1>3, StillProvided DEF Later, Phases, machine
<1>7. Honest' /\ Configures'
      BY <1>2, <1>4 DEF IInv, Honest, Configures, machine, disk
<1>8. pc = "decide" => tree \in Sources /\ tree.version = release
  <2>1. Honest /\ release \in Nat  BY <1>1 DEF IInv, TypeOK
  <2>2. CASE host.dev  BY <2>1, <2>2 DEF Honest
  <2>3. CASE ~host.dev /\ Cached
        BY <1>1, <2>1, <2>3 DEF Honest, Cached
  <2>4. QED  BY <2>2, <2>3
<1>9. host.dev => link = "here"  BY <1>1 DEF IInv, Current
<1>10. Current' /\ Asked' /\ Copied'
       BY <1>2, <1>4, <1>8, <1>9 DEF Current, Asked, Copied, machine, disk
<1>11. QED  BY <1>5, <1>6, <1>7, <1>10 DEF IInv

\* The old tree is removed, its marker with it.
LEMMA RemoveOldKeeps == ASSUME IInv, RemoveOld PROVE IInv'
<1> USE Params
<1>1. TypeOK /\ run.pc = "remove" /\ Goto("rename") /\ tree' = None /\ marker' = None
      /\ build' = NoBuild
      BY DEF IInv, RemoveOld
<1>2. UNCHANGED <<machine, link, deployed, release, events, faults>>  BY DEF RemoveOld
<1>3. run' \in RunType /\ run'.pc = "rename"  BY <1>1, Goes DEF Phases
<1>4. NoBuild \in BuildDir /\ NoBuild.cache = None  BY DEF NoBuild, BuildDir
<1>5. TypeOK'  BY <1>1, <1>2, <1>3, <1>4, LaterType DEF TypeOK
<1>6. Provided'
      BY <1>1, <1>2, StillProvided DEF Later, Phases, machine
<1>7. ~host.dev  BY <1>1 DEF IInv, Honest
<1>8. Honest' /\ Configures'
      BY <1>1, <1>2, <1>3, <1>4, <1>7 DEF Honest, Configures, machine
<1>9. Current' /\ Asked' /\ Copied'
      BY <1>2, <1>3, <1>7 DEF Current, Asked, Copied, machine
<1>10. QED  BY <1>5, <1>6, <1>8, <1>9 DEF IInv

\* The new tree is put in place, without a marker yet.
LEMMA SwapInKeeps == ASSUME IInv, SwapIn PROVE IInv'
<1> USE Params
<1>1. TypeOK /\ run.pc = "rename" /\ Goto("mark")
      /\ tree' = [version |-> release, whole |-> TRUE, patched |-> FALSE]
      BY DEF IInv, SwapIn
<1>2. UNCHANGED <<machine, marker, build, link, deployed, release, events, faults>>
      BY DEF SwapIn
<1>3. run' \in RunType /\ run'.pc = "mark"  BY <1>1, Goes DEF Phases
<1>4. tree' \in Sources /\ tree'.version = release  BY <1>1 DEF Sources, TypeOK
<1>5. TypeOK'  BY <1>1, <1>2, <1>3, <1>4, LaterType DEF TypeOK
<1>6. Provided'
      BY <1>1, <1>2, StillProvided DEF Later, Phases, machine
<1>7. ~host.dev /\ marker = None /\ build.cache = None
      BY <1>1 DEF IInv, Honest, Configures, NoBuild
<1>8. Honest' /\ Configures'
      BY <1>2, <1>3, <1>4, <1>7 DEF Honest, Configures, machine
<1>9. Current' /\ Asked' /\ Copied'
      BY <1>2, <1>3, <1>4, <1>7 DEF Current, Asked, Copied, machine
<1>10. QED  BY <1>5, <1>6, <1>8, <1>9 DEF IInv

\* The marker is written last, for the release it is true of.
LEMMA MarkKeeps == ASSUME IInv, Mark PROVE IInv'
<1>1. TypeOK /\ run.pc = "mark" /\ Goto("decide") /\ marker' = release
      BY DEF IInv, Mark
<1>2. UNCHANGED <<machine, tree, build, link, deployed, release, events, faults>>
      BY DEF Mark
<1>3. run' \in RunType /\ run'.pc = "decide"  BY <1>1, Goes DEF Phases
<1>4. TypeOK'  BY <1>1, <1>2, <1>3, LaterType DEF TypeOK
<1>5. Provided'
      BY <1>1, <1>2, StillProvided DEF Later, Phases, machine
<1>6. ~host.dev /\ tree \in Sources /\ tree.version = release
      BY <1>1 DEF IInv, Honest, Current
<1>7. Honest' /\ Configures'
      BY <1>1, <1>2, <1>3, <1>6 DEF IInv, Honest, Configures, machine
<1>8. Current' /\ Asked' /\ Copied'
      BY <1>2, <1>3, <1>6 DEF Current, Asked, Copied, machine
<1>9. QED  BY <1>4, <1>5, <1>7, <1>8 DEF IInv

\* NeedConfigure: a build that is reused is one for this address and
\* interpreter.
LEMMA DecideKeeps == ASSUME IInv, Decide PROVE IInv'
<1> USE Params
<1>1. TypeOK /\ Provided /\ run.pc = "decide"  BY DEF IInv, Decide
<1>2. UNCHANGED <<machine, disk, release, events, faults>>  BY DEF Decide
<1> DEFINE pc == IF NeedConfigure THEN "configure" ELSE "build"
<1>3. Goto(pc) /\ pc \in Phases \ {"preflight", "install"}
      BY DEF Decide, Phases
<1>4. run' \in RunType /\ run'.pc = pc /\ run'.seed = run.seed
      /\ run'.resolved = run.resolved
      BY <1>1, <1>3, Goes
<1>5. TypeOK'  BY <1>1, <1>2, <1>4, LaterType DEF TypeOK, disk
<1>6. Provided'
      BY <1>1, <1>2, <1>3, StillProvided DEF Later, Phases, machine
<1>7. Honest' /\ Configures'
      BY <1>2, <1>4 DEF IInv, Honest, Configures, machine, disk
<1>8. Current' /\ Copied'
      BY <1>1, <1>2, <1>4 DEF IInv, Current, Copied, machine, disk
<1>9. Asked'
  <2>1. SUFFICES ASSUME ~NeedConfigure  PROVE Asked'
        BY <1>4 DEF Asked
  <2>2. run.resolved # None  BY <1>1 DEF Provided, Phases
  <2>3. /\ build.cache # None /\ build.cache.python = run.resolved
        /\ run.seed # None => build.cache.seed = run.seed
        BY <2>1, <2>2 DEF NeedConfigure, build_is_configured
  <2>4. build.cache \in Config  BY <1>1, <2>3 DEF TypeOK, BuildDir
  <2>5. QED  BY <1>2, <1>4, <2>3, <2>4 DEF Asked, disk
<1>10. QED  BY <1>5, <1>6, <1>7, <1>8, <1>9 DEF IInv

-----------------------------------------------------------------------------
(* Configure, build and copy. *)

\* What cmake's cache holds after a configure.
LEMMA ConfiguredIs ==
    ASSUME TypeOK
    PROVE  /\ Configured \in Config /\ Configured.python = run.resolved
           /\ run.seed # None => Configured.seed = run.seed
<1>1. run.seed \in Seeds \cup {None} /\ run.resolved \in Pythons \cup {None}
      /\ build.cache \in Config \cup {None}
      BY DEF TypeOK, BuildDir
<1>2. build.cache # None => build.cache.seed \in Seeds \cup {Compiled}
      BY <1>1 DEF Config
<1> DEFINE seed == IF run.seed # None THEN run.seed
                   ELSE IF build.cache # None THEN build.cache.seed ELSE Compiled
<1>3. seed \in Seeds \cup {Compiled} /\ (run.seed # None => seed = run.seed)
  <2>1. run.seed # None => seed = run.seed  OBVIOUS
  <2>2. run.seed = None /\ build.cache # None => seed = build.cache.seed  OBVIOUS
  <2>3. run.seed = None /\ build.cache = None => seed = Compiled  OBVIOUS
  <2> HIDE DEF seed
  <2>4. QED  BY <1>1, <1>2, <2>1, <2>2, <2>3
<1>4. Configured = [seed |-> seed, python |-> run.resolved]
      BY DEF Configured
<1> HIDE DEF seed
<1>5. QED  BY <1>1, <1>3, <1>4 DEF Config

\* What a configure, whole or cut short, does to the sources.
LEMMA PatchKeeps ==
    ASSUME IInv, run.pc = "configure", tree' = [tree EXCEPT !.patched = TRUE],
           UNCHANGED <<host, release, marker>>
    PROVE  /\ tree' \in Sources /\ tree'.version = release /\ tree'.patched
           /\ tree'.version = tree.version /\ DiskIsHonest'
<1>1. tree \in Sources /\ tree.version = release  BY DEF IInv, Current
<1>2. /\ tree' \in Sources /\ tree'.version = release /\ tree'.patched
      BY <1>1 DEF Sources
<1>3. DiskIsHonest'
      BY <1>1, <1>2 DEF IInv, Honest, DiskIsHonest
<1>4. QED  BY <1>1, <1>2, <1>3

\* cmake_configure with its patches keeps the invariant.
LEMMA ConfigureKeeps == ASSUME IInv, cmake_configure PROVE IInv'
<1>1. TypeOK /\ run.pc = "configure"  BY DEF IInv, cmake_configure
<1>2. UNCHANGED <<machine, marker, link, deployed, release, events, faults>>
      BY DEF cmake_configure
<1>3. /\ tree' \in Sources /\ tree'.version = release /\ tree'.patched
      /\ DiskIsHonest'
      BY <1>1, <1>2, PatchKeeps DEF cmake_configure, apply_patches, machine
<1>4. build \in BuildDir /\ Configured \in Config  BY <1>1, ConfiguredIs DEF TypeOK
<1>5. CASE Toolchain /\ tree.whole
  <2>1. Goto("build") /\ build' = [build EXCEPT !.cache = Configured, !.ninja = Configured]
        BY <1>5 DEF cmake_configure
  <2>2. run' \in RunType /\ run'.pc = "build" /\ run'.seed = run.seed
        /\ run'.resolved = run.resolved
        BY <1>1, <2>1, Goes DEF Phases
  <2>3. build' \in BuildDir /\ build'.cache = Configured
        BY <1>4, <2>1 DEF BuildDir
  <2>4. TypeOK'  BY <1>1, <1>2, <1>3, <2>2, <2>3, LaterType DEF TypeOK
  <2>5. Provided'
        BY <1>1, <1>2, <2>1, StillProvided DEF Later, Phases, machine
  <2>6. Honest' /\ Configures'
        BY <1>3, <2>2 DEF DiskIsHonest, Honest, Configures
  <2>7. Current' /\ Copied'
        BY <1>1, <1>2, <1>3, <2>2 DEF IInv, Current, Copied, machine
  <2>8. Asked'
        BY <1>1, <2>2, <2>3, ConfiguredIs DEF Asked
  <2>9. QED  BY <2>4, <2>5, <2>6, <2>7, <2>8 DEF IInv
<1>6. CASE ~(Toolchain /\ tree.whole)
  <2>1. Fail({}) /\ build' = [build EXCEPT !.cache = IF tree.whole THEN Configured ELSE @]
        BY <1>6 DEF cmake_configure
  <2>2. run' \in RunType /\ run'.pc = "idle"  BY <2>1, Fails
  <2>3. build' \in BuildDir  BY <1>4, <2>1 DEF BuildDir
  <2>4. TypeOK'  BY <1>1, <1>2, <1>3, <2>2, <2>3, LaterType DEF TypeOK
  <2>5. QED  BY <1>3, <2>2, <2>4, Unbound
<1>7. QED  BY <1>5, <1>6

\* cmake_build: the binary is of the tree and the cache it was built from.
LEMMA BuildKeeps == ASSUME IInv, cmake_build PROVE IInv'
<1>1. TypeOK /\ run.pc = "build"  BY DEF IInv, cmake_build
<1>2. UNCHANGED <<machine, marker, tree, link, deployed, release, events, faults>>
      BY DEF cmake_build
<1>3. build \in BuildDir /\ build.cache \in Config /\ tree \in Sources
      /\ tree.version = release
      BY <1>1 DEF IInv, TypeOK, Asked, Current
<1> DEFINE good == /\ build.ninja # None /\ Toolchain /\ tree.whole /\ tree.patched
                   /\ {"lz4", "pyelftools"} \subseteq site[build.cache.python]
           out  == [version |-> tree.version, seed |-> build.cache.seed]
<1>4. CASE good
  <2>1. Goto("subsdk9") /\ build' = [cache |-> build.cache, ninja |-> build.cache,
                                    out |-> out]
        BY <1>4 DEF cmake_build
  <2>2. run' \in RunType /\ run'.pc = "subsdk9" /\ run'.seed = run.seed
        BY <1>1, <2>1, Goes DEF Phases
  <2>3. /\ out \in Binary /\ out.version = release
        /\ run.seed # None => out.seed = run.seed
        BY <1>1, <1>3 DEF Binary, Config, Sources, IInv, Asked
  <2>4. build' \in BuildDir /\ build'.out = out /\ build'.cache = build.cache
        BY <1>3, <2>1, <2>3 DEF BuildDir
  <2>5. TypeOK'  BY <1>1, <1>2, <2>2, <2>4, LaterType DEF TypeOK
  <2>6. Provided'
        BY <1>1, <1>2, <2>1, StillProvided DEF Later, Phases, machine
  <2>7. Honest' /\ Configures'
        BY <1>2, <2>2, <2>4 DEF IInv, Honest, Configures, machine
  <2>8. Current' /\ Asked' /\ Copied'
        BY <1>1, <1>2, <2>2, <2>3, <2>4 DEF IInv, Current, Asked, Copied, machine
  <2>9. QED  BY <2>5, <2>6, <2>7, <2>8 DEF IInv
<1>5. CASE ~good
  <2>1. Fail({}) /\ build' = [build EXCEPT !.ninja = IF @ = None THEN @ ELSE build.cache]
        BY <1>5 DEF cmake_build
  <2>2. run' \in RunType /\ run'.pc = "idle"  BY <2>1, Fails
  <2>3. build' \in BuildDir /\ build'.cache = build.cache
        BY <1>3, <2>1 DEF BuildDir
  <2>4. TypeOK'  BY <1>1, <1>2, <2>2, <2>3, LaterType DEF TypeOK
  <2>5. DiskIsHonest'
        BY <1>2, <2>3 DEF IInv, Honest, Configures, DiskIsHonest, machine
  <2>6. QED  BY <2>2, <2>4, <2>5, Unbound
<1>6. QED  BY <1>4, <1>5

\* One file is copied to its target.
LEMMA CopyKeeps ==
    ASSUME IInv, NEW file, NEW next, _copy(file, next),
           <<file, next>> \in {<<"subsdk9", "main.npdm">>, <<"main.npdm", "done">>}
    PROVE  IInv'
<1>1. TypeOK /\ run.pc = file /\ run \in RunType
      BY DEF IInv, _copy, TypeOK, RunType, Blockable
<1>2. UNCHANGED <<machine, marker, tree, build, link, release, events, faults>>
      BY DEF _copy
<1>3. \/ file = "subsdk9" /\ next = "main.npdm"
      \/ file = "main.npdm" /\ next = "done"
      OBVIOUS
<1>4. /\ build.out \in Binary /\ build.out.version = release
      /\ run.seed # None => build.out.seed = run.seed
      /\ host.dev => link = "here"
      BY <1>1, <1>3 DEF IInv, Copied, Current
<1>5. CASE tools["ryujinx"] = "fit"
  <2>1. /\ deployed' = [deployed EXCEPT ![file] = build.out]
        /\ run' = [run EXCEPT !.pc = next, !.ok = (next = "done")]
        BY <1>5 DEF _copy
  <2>2. (next = "done") \in BOOLEAN /\ next \in Phases  BY <1>3 DEF Phases
  <2>3. /\ run' \in RunType /\ run'.pc = next /\ run'.seed = run.seed
        /\ run'.missing = run.missing /\ run'.resolved = run.resolved
        BY <1>1, <2>1, <2>2 DEF RunType
  <2>4. deployed' \in [{"subsdk9", "main.npdm"} -> Binary \cup {None}]
        BY <1>1, <1>4, <2>1 DEF TypeOK
  <2>5. deployed'[file] = build.out
        /\ (file = "main.npdm" => deployed'["subsdk9"] = deployed["subsdk9"])
        BY <1>1, <1>3, <2>1 DEF TypeOK
  <2>6. TypeOK'  BY <1>1, <1>2, <2>3, <2>4, LaterType DEF TypeOK
  <2>7. Provided'
        BY <1>1, <1>2, <1>3, <2>3 DEF IInv, Provided, Phases, machine
  <2>8. Honest' /\ Configures'
        BY <1>2, <1>3, <2>3 DEF IInv, Honest, Configures, machine
  <2>9. Current' /\ Asked'
        BY <1>2, <1>3, <1>4, <2>3 DEF Current, Asked, machine
  <2>10. Copied'
    <3>1. CASE file = "subsdk9"
          BY <1>2, <1>3, <1>4, <2>3, <2>5, <3>1 DEF Copied
    <3>2. CASE file = "main.npdm"
      <4>1. deployed["subsdk9"] = build.out  BY <1>1, <3>2 DEF IInv, Copied
      <4>2. QED  BY <1>2, <1>3, <1>4, <2>3, <2>5, <3>2, <4>1 DEF Copied
    <3>3. QED  BY <1>3, <3>1, <3>2
  <2>11. QED  BY <2>6, <2>7, <2>8, <2>9, <2>10 DEF IInv
<1>6. CASE tools["ryujinx"] # "fit"
  <2>1. Fail({"ryujinx"}) /\ deployed' = deployed /\ {"ryujinx"} \in SUBSET Blockable
        BY <1>6 DEF _copy, Blockable
  <2>2. TypeOK'  BY <1>1, <1>2, <2>1, Fails, LaterType DEF TypeOK
  <2>3. QED  BY <1>2, <2>1, <2>2, FailKeeps DEF machine
<1>7. QED  BY <1>5, <1>6

\* Both copies keep the invariant.
LEMMA DeployKeeps == ASSUME IInv, Deploy PROVE IInv'
<1>1. CASE _copy("subsdk9", "main.npdm")  BY <1>1, CopyKeeps
<1>2. CASE _copy("main.npdm", "done")  BY <1>2, CopyKeeps
<1>3. QED  BY <1>1, <1>2 DEF Deploy

\* A run that ends keeps it.
LEMMA CloseKeeps == ASSUME IInv, Close PROVE IInv'
<1>1. run' = Idle /\ UNCHANGED <<machine, disk, release, events, faults>>
      BY DEF Close
<1>2. run' \in RunType /\ run'.pc = "idle"  BY <1>1, IdleType
<1>3. TypeOK'  BY <1>1, <1>2, LaterType DEF IInv, TypeOK, disk
<1>4. QED  BY <1>1, <1>2, <1>3, DiskStays, Unbound DEF machine, disk

-----------------------------------------------------------------------------
(* What happens between two runs, and what cuts one short. *)

\* What the user repairs between runs keeps it.
LEMMA ByHandKeeps == ASSUME IInv, ByHand PROVE IInv'
<1> USE Params
<1>1. TypeOK /\ run \in RunType /\ run.pc = "idle"
      BY DEF IInv, TypeOK, RunType, Blockable, ByHand
<1>2. PICK k \in run.blocked :
        /\ FixTool(k) \/ FixPython(k) \/ FixPackage(k) \/ FixSubmodule(k) \/ FixRest(k)
        /\ Settled(k)
      BY DEF ByHand
<1>3. UNCHANGED <<host, portable, apMarker, marker, tree, build, deployed,
                  release, events, faults>>
      BY DEF ByHand
<1>4. run' \in RunType /\ run'.pc = "idle"
      BY <1>1, <1>2 DEF Settled, RunType
<1>5. /\ tools' \in [ToolKeys -> Fitness] /\ python' \in Pythons \cup {None}
      /\ site' \in [Pythons -> SUBSET {"ap", "lz4", "pyelftools"}]
      /\ subs' \subseteq {"vendor", "sys"} /\ online' \in BOOLEAN /\ link' \in Links
  <2>1. CASE FixTool(k)
        BY <1>1, <2>1 DEF FixTool, TypeOK, ToolKeys, Fitness
  <2>2. CASE FixPython(k)  BY <1>1, <2>2 DEF FixPython, TypeOK
  <2>3. CASE FixPackage(k)
    <3>1. Pip[k] \in {"ap", "lz4", "pyelftools"} /\ python \in Pythons
          BY <1>1, <2>3 DEF FixPackage, Pip, TypeOK
    <3>2. QED  BY <1>1, <2>3, <3>1 DEF FixPackage, TypeOK
  <2>4. CASE FixSubmodule(k)
    <3>1. Submodule[k] \in {"vendor", "sys"}
          BY <2>4 DEF FixSubmodule, Submodule
    <3>2. QED  BY <1>1, <2>4, <3>1 DEF FixSubmodule, TypeOK
  <2>5. CASE FixRest(k)  BY <1>1, <2>5 DEF FixRest, TypeOK, Links
  <2>6. QED  BY <1>2, <2>1, <2>2, <2>3, <2>4, <2>5
<1>6. TypeOK'
      BY <1>1, <1>3, <1>4, <1>5 DEF TypeOK, RunType, Blockable
<1>7. QED  BY <1>3, <1>4, <1>6, DiskStays, Unbound

\* A fault ends the run, whatever it leaves behind.
LEMMA FaultIs ==
    ASSUME TypeOK, Fault
    PROVE  /\ run' \in RunType /\ run'.pc = "idle" /\ faults' \in 0..MaxFaults
           /\ Fail({})
<1>1. faults \in 0..MaxFaults /\ faults < MaxFaults /\ faults' = faults + 1
      BY DEF TypeOK, Fault
<1>2. QED  BY <1>1, Params, Fails DEF Fault

\* No fault leaves the marker of another release, or a cache over sources
\* that are not patched.
LEMMA FaultKeeps ==
    ASSUME IInv, Die \/ HalfLinked \/ HalfRemoved \/ HalfConfigured \/ HalfExtracted
    PROVE  IInv'
<1> USE Params
<1>1. TypeOK  BY DEF IInv
<1>2. Fault
      BY DEF Die, HalfLinked, HalfRemoved, HalfConfigured, HalfExtracted
<1>3. run' \in RunType /\ run'.pc = "idle" /\ faults' \in 0..MaxFaults
      BY <1>1, <1>2, FaultIs
<1>4. CASE Die
  <2>1. TypeOK'
        BY <1>1, <1>3, <1>4, LaterType DEF TypeOK, Die, disk
  <2>2. QED  BY <1>3, <1>4, <2>1, DiskStays, Unbound DEF Die, machine, disk
<1>5. CASE HalfLinked
  <2>1. TypeOK'
        BY <1>1, <1>3, <1>5, LaterType DEF TypeOK, HalfLinked, Links
  <2>2. QED  BY <1>3, <1>5, <2>1, DiskStays, Unbound DEF HalfLinked, machine
<1>6. CASE HalfRemoved
  <2>1. /\ run.pc = "remove" /\ tree # None
        /\ tree' = [tree EXCEPT !.whole = FALSE]
        /\ marker' \in {marker, None} /\ build' \in {build, NoBuild}
        /\ UNCHANGED <<machine, link, deployed, release, events>>
        BY <1>6 DEF HalfRemoved
  <2>2. tree \in Sources /\ ~host.dev
        BY <1>1, <2>1 DEF IInv, TypeOK, Honest
  <2>3. tree' \in Sources /\ tree'.version = tree.version /\ tree'.patched = tree.patched
        BY <2>1, <2>2 DEF Sources
  <2>4. NoBuild \in BuildDir /\ NoBuild.cache = None  BY DEF NoBuild, BuildDir
  <2>5. TypeOK'
        BY <1>1, <1>3, <2>1, <2>3, <2>4, LaterType DEF TypeOK
  <2>6. DiskIsHonest'
        BY <2>1, <2>2, <2>3, <2>4 DEF IInv, Honest, Configures, DiskIsHonest, machine
  <2>7. QED  BY <1>3, <2>5, <2>6, Unbound
<1>7. CASE HalfConfigured
  <2>1. /\ run.pc = "configure" /\ tree' = [tree EXCEPT !.patched = TRUE]
        /\ build' = [build EXCEPT !.cache = Configured]
        /\ UNCHANGED <<machine, marker, link, deployed, release, events>>
        BY <1>7 DEF HalfConfigured, apply_patches
  <2>2. tree' \in Sources /\ DiskIsHonest'
        BY <2>1, PatchKeeps DEF machine
  <2>3. build' \in BuildDir
        BY <1>1, <2>1, ConfiguredIs DEF TypeOK, BuildDir
  <2>4. TypeOK'
        BY <1>1, <1>3, <2>1, <2>2, <2>3, LaterType DEF TypeOK
  <2>5. QED  BY <1>3, <2>2, <2>4, Unbound
<1>8. CASE HalfExtracted
  <2>1. portable' \in {"none", "broken", "headless", "full"}
        BY <1>8 DEF HalfExtracted
  <2>2. TypeOK'
        BY <1>1, <1>3, <1>8, <2>1 DEF TypeOK, HalfExtracted, disk, RunType, Blockable
  <2>3. QED  BY <1>3, <1>8, <2>2, DiskStays, Unbound DEF HalfExtracted, disk
<1>9. QED  BY <1>4, <1>5, <1>6, <1>7, <1>8

\* No change of the machine between runs makes the disk lie.
LEMMA BetweenKeeps ==
    ASSUME IInv, Upgrade \/ OtherPython \/ LosePackages \/ GoOffline
    PROVE  IInv'
<1> USE Params
<1>1. TypeOK  BY DEF IInv
<1>2. Between
      BY DEF Upgrade, OtherPython, LosePackages, GoOffline
<1>3. run.pc = "idle" /\ run' = run /\ events' \in 0..MaxEvents
  <2>1. events \in 0..MaxEvents /\ events < MaxEvents /\ events' = events + 1
        BY <1>1, <1>2 DEF TypeOK, Between
  <2>2. QED
        BY <1>2, <2>1 DEF Between, Upgrade, OtherPython, LosePackages, GoOffline
<1>4. CASE Upgrade
  <2>1. release' \in 1..MaxRelease
    <3>1. CASE Reverts  BY <1>4, <3>1 DEF Upgrade
    <3>2. CASE ~Reverts  BY <1>4, <3>2 DEF Upgrade
    <3>3. QED  BY <3>1, <3>2
  <2>2. /\ tree' = IF host.dev THEN [tree EXCEPT !.version = release'] ELSE tree
        /\ UNCHANGED <<machine, marker, build, link, deployed, run, faults>>
        BY <1>4 DEF Upgrade
  <2>3. host.dev => /\ tree' \in Sources /\ tree'.version = release'
                    /\ tree'.patched = tree.patched
    <3>1. SUFFICES ASSUME host.dev  PROVE /\ tree' \in Sources /\ tree'.version = release'
                                          /\ tree'.patched = tree.patched
          OBVIOUS
    <3>2. tree \in Sources  BY <3>1 DEF IInv, Honest
    <3>3. QED  BY <2>1, <2>2, <3>1, <3>2 DEF Sources
  <2>4. TypeOK'
        BY <1>1, <1>3, <2>1, <2>2, <2>3 DEF TypeOK, machine
  <2>5. DiskIsHonest'
        BY <2>2, <2>3 DEF IInv, Honest, Configures, DiskIsHonest, machine
  <2>6. QED  BY <1>3, <2>4, <2>5, Unbound
<1>5. CASE OtherPython
  <2>1. TypeOK'  BY <1>1, <1>3, <1>5 DEF TypeOK, OtherPython, disk
  <2>2. QED  BY <1>3, <1>5, <2>1, DiskStays, Unbound DEF OtherPython, disk
<1>6. CASE LosePackages
  <2>1. TypeOK'  BY <1>1, <1>3, <1>6 DEF TypeOK, LosePackages, disk
  <2>2. QED  BY <1>3, <1>6, <2>1, DiskStays, Unbound DEF LosePackages, disk
<1>7. CASE GoOffline
  <2>1. TypeOK'  BY <1>1, <1>3, <1>7 DEF TypeOK, GoOffline, disk
  <2>2. QED  BY <1>3, <1>7, <2>1, DiskStays, Unbound DEF GoOffline, disk
<1>8. QED  BY <1>4, <1>5, <1>6, <1>7

-----------------------------------------------------------------------------
\* Nor does doing nothing.
LEMMA StutterKeeps == ASSUME IInv, UNCHANGED vars PROVE IInv'
BY DEF IInv, TypeOK, Provided, Honest, Configures, Current, Asked, Copied,
       vars, machine, disk

\* The invariant is inductive.
LEMMA NextIInv == IInv /\ [Next]_vars => IInv'
<1> SUFFICES ASSUME IInv, [Next]_vars PROVE IInv'  OBVIOUS
<1>1. CASE Run  BY <1>1, RunKeeps
<1>2. CASE Step
      BY <1>2, ProbeKeeps, PreflightKeeps, InstallKeeps, JunctionKeeps, StageKeeps,
         RemoveOldKeeps, SwapInKeeps, MarkKeeps, DecideKeeps, ConfigureKeeps,
         BuildKeeps, DeployKeeps, CloseKeeps
      DEF Step
<1>3. CASE ByHand  BY <1>3, ByHandKeeps
<1>4. CASE World  BY <1>4, FaultKeeps, BetweenKeeps DEF World
<1>5. CASE UNCHANGED vars  BY <1>5, StutterKeeps
<1>6. QED  BY <1>1, <1>2, <1>3, <1>4, <1>5 DEF Next

\* Whatever run dies where, and whatever changes between two runs, the disk is
\* what its markers say it is and the run's view of the machine holds until
\* cmake --build (run_build_phase, _extract_bundled_tree, build_is_configured).
THEOREM Invariance == Spec => []IInv
<1>1. QED  BY InitIInv, NextIInv, PTL DEF Spec

\* A run that reports success leaves both files of one build, of the sources
\* now installed and for the subnet the user typed (run_build_phase,
\* _copy_files): also when an older .apworld was put back in between.
THEOREM SuccessIsFresh == Spec => []Fresh
<1>1. IInv => Fresh
  <2>1. SUFFICES ASSUME IInv, run.pc = "done"  PROVE Fresh  BY DEF Fresh
  <2>2. QED  BY <2>1 DEF IInv, Copied, Current, Fresh
<1>2. QED  BY <1>1, Invariance, PTL

\* Green rows mean that the post-build step can import: what the probe saw, or
\* the installers put there, is what the build's interpreter imports
\* (_verify_build_pydep_import, SMBWAP_PYTHON, apply_patches).
THEOREM GreenRowsHold == Spec => []GreenMeansImportable
<1>1. IInv => GreenMeansImportable
  <2>1. SUFFICES ASSUME IInv, run.pc = "build", build.cache # None
                 PROVE  GreenMeansImportable
        BY DEF GreenMeansImportable
  <2>2. /\ run.resolved = python /\ run.missing = {}
        /\ "lz4" \in site[python] /\ "pyelftools" \in site[python]
        BY <2>1 DEF IInv, Provided, Phases
  <2>3. QED  BY <2>1, <2>2 DEF IInv, Asked, Configures, GreenMeansImportable
<1>2. QED  BY <1>1, Invariance, PTL
=============================================================================
