------------------------------ MODULE MCSetup ------------------------------
(* Setup on four machines: Windows with an .apworld and with a clone, and   *)
(* Linux with either; between them every row of the detectors turns red.     *)
EXTENDS Setup

CONSTANTS py1, py2, lan1, lan2

MCPythons == {py1, py2}
MCSeeds == {lan1, lan2}

Tools(bad) == [k \in ToolKeys |-> IF k \in DOMAIN bad THEN bad[k] ELSE "fit"]

Windows == [host |-> [windows |-> TRUE, dev |-> FALSE], link |-> "none",
            subs |-> {}, python |-> py2,
            tools |-> Tools([clang |-> "unfit", cmake |-> "unfit", ryujinx |-> "absent"])]
WindowsClone == [host |-> [windows |-> TRUE, dev |-> TRUE], link |-> "directory",
            subs |-> {}, python |-> None,
            tools |-> Tools([clang |-> "absent", dev_mode |-> "unfit", git |-> "absent"])]
LinuxClone == [host |-> [windows |-> FALSE, dev |-> TRUE], link |-> "elsewhere",
            subs |-> {}, python |-> py2, tools |-> Tools([clang |-> "unfit"])]
LinuxPackaged == [host |-> [windows |-> FALSE, dev |-> FALSE], link |-> "none",
            subs |-> {}, python |-> py2, tools |-> Tools([cmake |-> "absent"])]

MCMachines == {Windows, WindowsClone, LinuxClone, LinuxPackaged}
=============================================================================
