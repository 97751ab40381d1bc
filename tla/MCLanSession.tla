---------------------------- MODULE MCLanSession ----------------------------
(* LanSession with either increments or lines on the connections.          *)
EXTENDS LanSession

MCStarts == {<<0, MaxLines>>, <<MaxSends, 0>>}
=============================================================================
