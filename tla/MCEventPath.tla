---------------------------- MODULE MCEventPath ----------------------------
(* EventPath with a stage of each kind that the run's constants choose.    *)
EXTENDS EventPath

CONSTANTS f1, p1, k1, mario, luigi, badge1, badge2, host1, host2, lo

Stage(key, kind, castle, world, badge, blocks) ==
    [stage_key |-> key, kind |-> kind, castle |-> castle, world |-> world,
     exempt |-> FALSE, badge |-> badge, blocks |-> blocks]

Fake  == Stage(f1, "fake", "no", 1, badge1, {mario, luigi})
Final == Stage(p1, "palace", "final", None, None, {})
Break == Stage(k1, "break", "no", 1, None, {})

MCStages  == {Fake, Final, Break}
MCRetried == {Break}
MCCoins   == {Final}
MCHosts   == {host1, host2}
=============================================================================
