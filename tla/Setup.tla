-------------------------------- MODULE Setup --------------------------------
(* The setup wizard: probe -> install -> junction -> build -> deploy, run as  *)
(* often as the user likes over what earlier runs left on the disk. Any step  *)
(* may fail or die half-way, and between two runs the user may upgrade the    *)
(* apworld, get another Python, or lose packages or the network. One run is   *)
(* one process of the wizard with every phase requested, as wizard.py does.   *)
EXTENDS Naturals, Sequences

CONSTANTS
    None,
    Pythons,      \* the interpreters a machine may resolve
    Winget,       \* the one winget or the user installs
    Seeds,        \* addresses a user may type as bridge IP
    Compiled,     \* the seed of switch-mod's CMakeLists.txt
    Machines,     \* the machines a user may start from
    Leftovers,    \* what an interrupted LLVM extraction may leave behind
    Reverts,      \* whether an older .apworld may be put back
    MaxRelease, MaxEvents, MaxFaults

Fitness == {"absent", "unfit", "fit"}
ToolKeys == {"dev_mode", "git", "cmake", "ninja", "clang", "ryujinx"}
Links == {"none", "directory", "elsewhere", "here"}

ASSUME SetupAssumption ==
    /\ Winget \in Pythons /\ None \notin Pythons \cup Seeds \cup Nat
    /\ Machines \subseteq [host : [windows : BOOLEAN, dev : BOOLEAN],
                           tools : [ToolKeys -> Fitness], link : Links,
                           python : Pythons \cup {None}, subs : SUBSET {"vendor", "sys"}]
    /\ Compiled \notin Seeds
    /\ Leftovers \subseteq {"none", "broken", "headless"} /\ Reverts \in BOOLEAN
    /\ MaxRelease \in Nat \ {0} /\ MaxEvents \in Nat /\ MaxFaults \in Nat

VARIABLES
    host,      \* [windows, dev]: the platform, and a git clone or an .apworld
    tools,     \* how fit each tool on the machine is
    portable,  \* %LOCALAPPDATA%/SMBWArchipelago/llvm
    python,    \* the interpreter the probes find now
    site,      \* the packages importable by each interpreter
    apMarker,  \* ap_deps.ok
    subs,      \* the submodules checked out
    release,   \* the version of the clone or of the .apworld
    marker,    \* .source-zip-mtime
    tree,      \* the switch-mod sources cmake reads
    build,     \* switch-mod/build
    link,      \* custom_worlds/smbw_archipelago
    deployed,  \* what the game will load
    online,
    run,       \* the wizard's process
    events, faults

machine == <<host, tools, portable, python, site, apMarker, subs, online>>
disk == <<marker, tree, build, link, deployed>>
vars == <<machine, disk, release, run, events, faults>>

Packages == {"git", "cmake", "ninja", "python311"}
Pip == [archipelago_deps |-> "ap", lz4 |-> "lz4", pyelftools |-> "pyelftools"]
Submodule == [archipelago_submodule |-> "vendor", switch_mod_submodule |-> "sys"]
INSTALL_ORDER == <<"git", "cmake", "ninja", "python311", "llvm19",
                   "archipelago_submodule", "switch_mod_submodule",
                   "archipelago_deps", "lz4", "pyelftools">>
NoBuild == [cache |-> None, ninja |-> None, out |-> None]
Idle == [pc |-> "idle", install |-> FALSE, seed |-> None, missing |-> {},
         blocked |-> {}, resolved |-> None, ok |-> FALSE]

-----------------------------------------------------------------------------
(* The detectors, as [ok, auto]. A tool that is unfit is there but too old,   *)
(* the wrong build or unable to run.                                          *)

Row(ok, auto) == [ok |-> ok, auto |-> auto]

check_dev_mode == Row(host.windows => tools["dev_mode"] = "fit", FALSE)
check_git == Row(tools["git"] = "fit", host.windows)
check_cmake == Row(tools["cmake"] = "fit", host.windows)
check_ninja == Row(tools["ninja"] = "fit", host.windows)
check_python311 == Row(python # None, host.windows)

PortableRuns == host.windows /\ portable \in {"headless", "full"}
check_llvm19 == Row(PortableRuns \/ tools["clang"] = "fit", host.windows)

\* An .apworld brings its own sources and runs inside an Archipelago.
check_archipelago_submodule == Row(host.dev => "vendor" \in subs, TRUE)
check_switch_mod_submodule == Row(host.dev => "sys" \in subs, TRUE)

PyDep(pkg) == IF python = None THEN Row(FALSE, FALSE)
                               ELSE Row(pkg \in site[python], TRUE)
check_archipelago_deps ==
    IF ~host.dev \/ (apMarker /\ "vendor" \in subs) THEN Row(TRUE, TRUE)
    ELSE PyDep("ap")
check_lz4 == PyDep("lz4")
check_pyelftools == PyDep("pyelftools")

check_all ==
    [dev_mode |-> check_dev_mode, git |-> check_git, cmake |-> check_cmake,
     ninja |-> check_ninja, python311 |-> check_python311,
     llvm19 |-> check_llvm19,
     archipelago_submodule |-> check_archipelago_submodule,
     switch_mod_submodule |-> check_switch_mod_submodule,
     archipelago_deps |-> check_archipelago_deps,
     lz4 |-> check_lz4, pyelftools |-> check_pyelftools]

Red == {k \in DOMAIN check_all : ~check_all[k].ok}
Missing == {k \in Red : check_all[k].auto}
Blocking(installable_fixes) ==
    {k \in Red : ~(installable_fixes /\ check_all[k].auto)}

-----------------------------------------------------------------------------
(* The pipeline.                                                              *)

Goto(pc) == run' = [run EXCEPT !.pc = pc]

\* The phase fails; blocked is what the log tells the user to put right.
Fail(blocked) == run' = [Idle EXCEPT !.blocked = blocked]

Run ==
    /\ run.pc = "idle" /\ run.blocked = {}
    /\ \E install \in BOOLEAN, seed \in Seeds \cup {None} :
         run' = [Idle EXCEPT !.pc = "probe", !.install = install, !.seed = seed]
    /\ UNCHANGED <<machine, disk, release, events, faults>>

Probe ==
    /\ run.pc = "probe"
    /\ apMarker' = (apMarker \/ (host.dev /\ python # None /\ "ap" \in site[python]))
    /\ IF Blocking(run.install) # {}
       THEN Fail(Blocking(run.install))
       ELSE run' = [run EXCEPT !.pc = IF Missing = {} THEN "junction" ELSE "preflight",
                               !.missing = Missing, !.resolved = python]
    /\ UNCHANGED <<host, tools, portable, python, site, subs, online,
                   disk, release, events, faults>>

Preflight ==
    /\ run.pc = "preflight"
    /\ IF online THEN Goto("install") ELSE Fail({"online"})
    /\ UNCHANGED <<machine, disk, release, events, faults>>

winget_install(k) ==
    /\ k \in Packages
    /\ tools' = IF k = "python311" THEN tools ELSE [tools EXCEPT ![k] = "fit"]
    /\ python' = IF k = "python311" THEN Winget ELSE python
    /\ UNCHANGED <<portable, site, subs>>

\* Whatever stands at bin/clang.exe counts as an installed LLVM.
install_llvm19(k) ==
    /\ k = "llvm19"
    /\ portable' = IF portable = "none" THEN "full" ELSE portable
    /\ UNCHANGED <<tools, python, site, subs>>

install_submodule(k) ==
    /\ k \in DOMAIN Submodule
    /\ subs' = subs \cup {Submodule[k]}
    /\ UNCHANGED <<tools, portable, python, site>>

pip_install(k) ==
    /\ k \in DOMAIN Pip
    /\ site' = [site EXCEPT ![python] = @ \cup {Pip[k]}]
    /\ UNCHANGED <<tools, portable, python, subs>>

Next_key ==
    LET due == {i \in DOMAIN INSTALL_ORDER : INSTALL_ORDER[i] \in run.missing}
    IN INSTALL_ORDER[CHOOSE i \in due : \A j \in due : i <= j]

Install ==
    /\ run.pc = "install"
    /\ \/ winget_install(Next_key) \/ install_llvm19(Next_key)
       \/ install_submodule(Next_key) \/ pip_install(Next_key)
    /\ LET left == run.missing \ {Next_key}
       IN run' = [run EXCEPT !.missing = left, !.resolved = python',
                             !.pc = IF left = {} THEN "junction" ELSE @]
    /\ UNCHANGED <<host, apMarker, online, disk, release, events, faults>>

\* A link elsewhere is replaced, a real directory is left for its owner.
install_junction == IF link = "directory" THEN link ELSE "here"

\* Only a clone has a place for the link.
run_junction ==
    /\ run.pc = "junction"
    /\ link' = IF host.dev THEN install_junction ELSE link
    /\ IF host.dev /\ link' # "here" THEN Fail({"directory"}) ELSE Goto("resolve")
    /\ UNCHANGED <<machine, marker, tree, build, deployed, release, events, faults>>

Cached == marker = release /\ tree # None

\* _extract_bundled_tree: stage a sibling tree, drop the old one, rename, mark.
Stage ==
    /\ run.pc = "resolve"
    /\ Goto(IF host.dev \/ Cached THEN "decide" ELSE "remove")
    /\ UNCHANGED <<machine, disk, release, events, faults>>

RemoveOld ==
    /\ run.pc = "remove"
    /\ tree' = None /\ marker' = None /\ build' = NoBuild
    /\ Goto("rename")
    /\ UNCHANGED <<machine, link, deployed, release, events, faults>>

SwapIn ==
    /\ run.pc = "rename"
    /\ tree' = [version |-> release, whole |-> TRUE, patched |-> FALSE]
    /\ Goto("mark")
    /\ UNCHANGED <<machine, marker, build, link, deployed, release, events, faults>>

Mark ==
    /\ run.pc = "mark"
    /\ marker' = release
    /\ Goto("decide")
    /\ UNCHANGED <<machine, tree, build, link, deployed, release, events, faults>>

\* Mutation: trust the cache alone, as the check's own comment recounts.
build_has_cache == build.cache # None

build_is_configured == build.cache # None /\ build.ninja # None

\* Mutations: a changed seed, or a changed interpreter, keeps the fast path.
NeedConfigureSeedBlind ==
    ~build_is_configured \/ build.cache.python # run.resolved
NeedConfigurePythonBlind ==
    \/ ~build_is_configured
    \/ run.seed # None /\ build.cache.seed # run.seed

NeedConfigure ==
    \/ ~build_is_configured
    \/ run.seed # None /\ build.cache.seed # run.seed
    \/ run.resolved # None /\ build.cache.python # run.resolved

Decide ==
    /\ run.pc = "decide"
    /\ Goto(IF NeedConfigure THEN "configure" ELSE "build")
    /\ UNCHANGED <<machine, disk, release, events, faults>>

\* The compiler the build gets: the portable one whenever its clang runs.
Toolchain == IF PortableRuns THEN portable = "full" ELSE tools["clang"] = "fit"

Configured ==
    [seed |-> IF run.seed # None THEN run.seed
              ELSE IF build.cache # None THEN build.cache.seed ELSE Compiled,
     python |-> run.resolved]

\* Patching is idempotent, and comes before the command.
apply_patches == tree' = [tree EXCEPT !.patched = TRUE]

cmake_configure ==
    /\ run.pc = "configure"
    /\ apply_patches
    /\ IF Toolchain /\ tree.whole
       THEN /\ build' = [build EXCEPT !.cache = Configured, !.ninja = Configured]
            /\ Goto("build")
       ELSE /\ build' = [build EXCEPT !.cache = IF tree.whole THEN Configured ELSE @]
            /\ Fail({})
    /\ UNCHANGED <<machine, marker, link, deployed, release, events, faults>>

\* ninja regenerates first when the cache is newer than build.ninja; the
\* tools of the post-build step run under the interpreter of those rules.
cmake_build ==
    /\ run.pc = "build"
    /\ IF build.ninja # None /\ Toolchain /\ tree.whole /\ tree.patched
          /\ {"lz4", "pyelftools"} \subseteq site[build.cache.python]
       THEN /\ build' = [cache |-> build.cache, ninja |-> build.cache,
                         out |-> [version |-> tree.version, seed |-> build.cache.seed]]
            /\ Goto("subsdk9")
       ELSE /\ build' = [build EXCEPT !.ninja = IF @ = None THEN @ ELSE build.cache]
            /\ Fail({})
    /\ UNCHANGED <<machine, marker, tree, link, deployed, release, events, faults>>

_copy(file, next) ==
    /\ run.pc = file
    /\ IF tools["ryujinx"] = "fit"
       THEN /\ deployed' = [deployed EXCEPT ![file] = build.out]
            /\ run' = [run EXCEPT !.pc = next, !.ok = (next = "done")]
       ELSE Fail({"ryujinx"}) /\ UNCHANGED deployed
    /\ UNCHANGED <<machine, marker, tree, build, link, release, events, faults>>

Deploy == _copy("subsdk9", "main.npdm") \/ _copy("main.npdm", "done")

Close ==
    /\ run.pc = "done"
    /\ run' = Idle
    /\ UNCHANGED <<machine, disk, release, events, faults>>

Step ==
    \/ Probe \/ Preflight \/ Install \/ run_junction
    \/ Stage \/ RemoveOld \/ SwapIn \/ Mark
    \/ Decide \/ cmake_configure \/ cmake_build
    \/ Deploy \/ Close

-----------------------------------------------------------------------------
(* What goes wrong, and what the user does.                                   *)

Working == run.pc \notin {"idle", "done"}
Fault == faults < MaxFaults /\ Working /\ faults' = faults + 1 /\ Fail({})

\* The step fails, or the process dies, before it changes anything.
Die ==
    /\ Fault
    /\ UNCHANGED <<machine, disk, release, events>>

\* The old link is gone and the new one is refused.
HalfLinked ==
    /\ Fault /\ run.pc = "junction" /\ host.dev /\ link = "elsewhere"
    /\ link' = "none"
    /\ UNCHANGED <<machine, marker, tree, build, deployed, release, events>>

\* An open file stops the removal; the marker goes or stays.
HalfRemoved ==
    /\ Fault /\ run.pc = "remove" /\ tree # None
    /\ tree' = [tree EXCEPT !.whole = FALSE]
    /\ marker' \in {marker, None}
    /\ build' \in {build, NoBuild}
    /\ UNCHANGED <<machine, link, deployed, release, events>>

\* Configure dies, or is killed by its stall timeout, with the cache written
\* and nothing generated.
HalfConfigured ==
    /\ Fault /\ run.pc = "configure"
    /\ apply_patches
    /\ build' = [build EXCEPT !.cache = Configured]
    /\ UNCHANGED <<machine, marker, link, deployed, release, events>>

\* The archive is unpacked in place, so bin/clang.exe may outlive the attempt,
\* cut short ("broken") or complete but without its linker ("headless").
HalfExtracted ==
    /\ Fault /\ run.pc = "install" /\ Next_key = "llvm19" /\ portable = "none"
    /\ portable' \in Leftovers
    /\ UNCHANGED <<host, tools, python, site, apMarker, subs, online,
                   disk, release, events>>

Between == run.pc = "idle" /\ events < MaxEvents /\ events' = events + 1

Upgrade ==
    /\ Between
    /\ release' \in IF Reverts THEN (1 .. MaxRelease) \ {release}
                    ELSE {release + 1} \cap (1 .. MaxRelease)
    /\ tree' = IF host.dev THEN [tree EXCEPT !.version = release'] ELSE tree
    /\ UNCHANGED <<machine, marker, build, link, deployed, run, faults>>

OtherPython ==
    /\ Between
    /\ python' \in Pythons \ {python}
    /\ UNCHANGED <<host, tools, portable, site, apMarker, subs, online,
                   disk, release, run, faults>>

LosePackages ==
    /\ Between
    /\ \E p \in Pythons : site[p] # {} /\ site' = [site EXCEPT ![p] = {}]
    /\ UNCHANGED <<host, tools, portable, python, apMarker, subs, online,
                   disk, release, run, faults>>

GoOffline ==
    /\ Between
    /\ online' = FALSE
    /\ UNCHANGED <<host, tools, portable, python, site, apMarker, subs,
                   disk, release, run, faults>>

Settled(k) == run' = [run EXCEPT !.blocked = @ \ {k}]

FixTool(k) ==
    /\ k \in ToolKeys \cup {"llvm19"}
    /\ tools' = [tools EXCEPT ![IF k = "llvm19" THEN "clang" ELSE k] = "fit"]
    /\ UNCHANGED <<python, site, subs, online, link>>

\* The pip rows without an interpreter send the user to the Python row.
FixPython(k) ==
    /\ k = "python311" \/ (k \in DOMAIN Pip /\ python = None)
    /\ python' = Winget
    /\ UNCHANGED <<tools, site, subs, online, link>>

FixPackage(k) ==
    /\ k \in DOMAIN Pip /\ python # None
    /\ site' = [site EXCEPT ![python] = @ \cup {Pip[k]}]
    /\ UNCHANGED <<tools, python, subs, online, link>>

FixSubmodule(k) ==
    /\ k \in DOMAIN Submodule
    /\ subs' = subs \cup {Submodule[k]}
    /\ UNCHANGED <<tools, python, site, online, link>>

FixRest(k) ==
    /\ k \in {"online", "directory"}
    /\ online' = (online \/ k = "online")
    /\ link' = IF k = "directory" THEN "none" ELSE link
    /\ UNCHANGED <<tools, python, site, subs>>

\* The user does by hand what the log asked for, before running setup again.
ByHand ==
    /\ run.pc = "idle"
    /\ \E k \in run.blocked :
         /\ FixTool(k) \/ FixPython(k) \/ FixPackage(k) \/ FixSubmodule(k) \/ FixRest(k)
         /\ Settled(k)
    /\ UNCHANGED <<host, portable, apMarker, marker, tree, build, deployed,
                   release, events, faults>>

World ==
    \/ Die \/ HalfLinked \/ HalfRemoved \/ HalfConfigured \/ HalfExtracted
    \/ Upgrade \/ OtherPython \/ LosePackages \/ GoOffline

-----------------------------------------------------------------------------

Init ==
    /\ \E m \in Machines :
         /\ host = m.host /\ tools = m.tools /\ python = m.python
         /\ link = m.link /\ subs = m.subs
    /\ portable = "none" /\ apMarker = FALSE /\ online = TRUE
    /\ site = [p \in Pythons |-> {}]
    /\ release = 1 /\ marker = None /\ build = NoBuild
    /\ tree = IF host.dev THEN [version |-> 1, whole |-> TRUE, patched |-> FALSE]
              ELSE None
    /\ deployed = [f \in {"subsdk9", "main.npdm"} |-> None]
    /\ run = Idle /\ events = 0 /\ faults = 0

Next == Run \/ Step \/ ByHand \/ World

\* A phase in progress ends, and a user who is told what is wrong puts it
\* right and runs setup again.
Fairness == WF_vars(Step) /\ WF_vars(ByHand) /\ WF_vars(Run)

Spec == Init /\ [][Next]_vars /\ Fairness

-----------------------------------------------------------------------------
(* Properties.                                                                *)

Keys     == {INSTALL_ORDER[i] : i \in DOMAIN INSTALL_ORDER}
Config   == [seed : Seeds \cup {Compiled}, python : Pythons \cup {None}]
Binary   == [version : 1..MaxRelease, seed : Seeds \cup {Compiled}]
Sources  == [version : 1..MaxRelease, whole : BOOLEAN, patched : BOOLEAN]
BuildDir == [cache : Config \cup {None}, ninja : Config \cup {None},
             out : Binary \cup {None}]
Phases   == {"idle", "probe", "preflight", "install", "junction", "resolve",
             "remove", "rename", "mark", "decide", "configure", "build",
             "subsdk9", "main.npdm", "done"}

\* What the machine, the wizard's directories and its process hold.
TypeOK ==
    /\ host \in [windows : BOOLEAN, dev : BOOLEAN] /\ tools \in [ToolKeys -> Fitness]
    /\ portable \in {"none", "broken", "headless", "full"}
    /\ python \in Pythons \cup {None}
    /\ site \in [Pythons -> SUBSET {"ap", "lz4", "pyelftools"}]
    /\ apMarker \in BOOLEAN /\ online \in BOOLEAN /\ subs \subseteq {"vendor", "sys"}
    /\ release \in 1..MaxRelease /\ marker \in (1..MaxRelease) \cup {None}
    /\ tree \in Sources \cup {None} /\ build \in BuildDir /\ link \in Links
    /\ deployed \in [{"subsdk9", "main.npdm"} -> Binary \cup {None}]
    /\ run \in [pc : Phases, install : BOOLEAN, seed : Seeds \cup {None},
                missing : SUBSET Keys,
                blocked : SUBSET (Keys \cup {"dev_mode", "ryujinx", "online", "directory"}),
                resolved : Pythons \cup {None}, ok : BOOLEAN]
    /\ events \in 0..MaxEvents /\ faults \in 0..MaxFaults

\* A run that reports success leaves both files of one build in place, made
\* from the sources now installed and for the subnet the user asked for
\* (run_build_phase's reconfigure rules, the bundle's marker, _copy_files).
Fresh ==
    run.pc = "done" =>
        /\ deployed["subsdk9"] = deployed["main.npdm"]
        /\ deployed["subsdk9"].version = release
        /\ run.seed # None => deployed["subsdk9"].seed = run.seed
        /\ host.dev => link = "here"

\* When cmake --build starts, the rules it runs call the very interpreter the
\* probe verified, that interpreter imports what they need, and the sources
\* carry the LibHakkun patches (SMBWAP_PYTHON, _verify_build_pydep_import,
\* apply_patches): green rows mean the post-build step can import.
GreenMeansImportable ==
    run.pc = "build" /\ build.cache # None =>
        /\ build.cache.python = run.resolved
        /\ {"lz4", "pyelftools"} \subseteq site[run.resolved]
        /\ tree.patched

\* However runs fail and die on the way, a user who keeps running setup and
\* does what it asks for gets a successful one: no half-finished configure,
\* extraction or copy wedges the next run (build_is_configured).
Recovers == []<>(run.pc = "done")

\* The rows that stop an auto-installing run are ones only the user can fix
\* (ProbeOutcome.blocking).
OnlyUserFixable ==
    host.windows => run.blocked \cap (DOMAIN Pip \cup {"python311"}) = {}

\* A blank bridge IP builds for the compiled-in default (wizard.py).
BlankIsCompiled ==
    run.pc = "done" /\ run.seed = None => deployed["subsdk9"].seed = Compiled
=============================================================================
