-------------------------------- MODULE Wire --------------------------------
(***************************************************************************)
(* One TCP session after another between the Switch's network thread       *)
(* (ap/ApClient.cpp) and the bridge's reader (client/lan_server.py), with  *)
(* the lines of WireFormat on it.                                          *)
(*                                                                         *)
(* A line reaches the Switch in two halves, and a receive takes any number *)
(* of halves that are there.  The Switch relays its own log lines through  *)
(* the ring its events take, so that what it receives and what it sends    *)
(* both make it send; several log lines of one step count as one.          *)
(***************************************************************************)
EXTENDS WireFormat

CONSTANTS
    Texts,        \* what an item, slot or overlay text may be
    NewFields,    \* values a newer bridge's field may have
    Sizes,        \* sizes of a PlayReport's payload, in KiB
    RingCap,      \* entries of the outbound ring
    EchoCap,      \* bytes of a text that a log line repeats, 48 to 80 in the code
    LoggedSends,  \* sends that are logged: 50 in the code
    MaxMoves      \* bound: commands, events, overlapping pushes and faults

VARIABLES
    pc,        \* where the network thread is: "down", "pump", "poll", "drain"
    toSwitch,  \* halves of lines in flight to the Switch
    buf,       \* read_buf_: halves received
    ring,      \* outboundRing()
    toBridge,  \* lines in flight to the bridge
    sends,     \* s_send_count
    moves,     \* commands, events and faults so far
    last       \* the last line read: where, what was meant, what was understood

vars == <<pc, toSwitch, buf, ring, toBridge, sends, moves, last>>

-----------------------------------------------------------------------------
(* What the two sides may send: every class with its fields at one end or  *)
(* the other of their ranges, and every text.                              *)

Plain == Str(<<"plain">>)

Sample(kind, high, text) ==
    CASE kind.is = "uint"  -> Mask(IF high THEN 0..(kind.width - 1) ELSE {})
      [] kind.is = "sint"  -> Integer(~high, 0..(kind.width - 2))
      [] kind.is = "flag"  -> Bool(high)
      [] kind.is = "word"  -> Plain
      [] kind.is = "text"  -> [is |-> "chars", text |-> text]
      [] kind.is = "uints" ->
            List([i \in 1..(IF high THEN Max(kind.lengths) ELSE Min(kind.lengths)) |->
                    Mask(IF high THEN 0..(kind.width - 1) ELSE {})])

Message(t, high, text) ==
    [t |-> t, fields |-> [f \in DOMAIN Classes[t] |-> Sample(Classes[t][f], high, text)]]

HelloAck    == Message("hello_ack", TRUE, <<>>)
Refusal     == Message("err", TRUE, <<"plain">>)   \* its reason names positions, not text
Commands    ==
    {Message(t, high, text) : t \in DOMAIN Classes \ {"hello_ack", "err"},
                              high \in BOOLEAN, text \in Texts}
NewerBridge ==
    LET kill == Message("kill", TRUE, <<>>)
    IN {[t |-> kill.t, fields |-> kill.fields @@ [since |-> v]] : v \in NewFields}

Followers   ==   \* bound: the commands that come after another move
    {Message("set_wonder_seeds_absolute", TRUE, <<>>)}
    \cup {Message("overlay_notice", FALSE, text) : text \in Texts \ {<<>>}}

Zero   == Mask({})
Hello  == [t |-> "hello", fields |-> [mod_ver |-> Plain, game_ver |-> Plain, pid |-> Mask({0})]]
Log(octets) == [t |-> "log", fields |-> [level |-> Plain, msg |-> Str(octets)]]
Events ==
    {[t |-> "nerve", fields |-> [kind |-> Name(k), seq |-> Zero]] : k \in DOMAIN NerveWords}
    \cup {[t |-> "badge_acquired", fields |-> [internal_id |-> Mask(b), seq |-> Zero]] : b \in {{}, 0..5}}
    \cup {[t |-> "char_block_hit",
           fields |-> [player_slot |-> Mask({0, 1}), chara |-> c,
                       pos |-> List(<<Zero, Zero, Zero>>), seq |-> Zero]] :
             c \in {Integer(TRUE, {}), Mask({0, 1, 3})}}
    \cup {[t |-> "play_report",
           fields |-> [room |-> Plain, payload |-> Hex(Min({n, PayloadCap}))]] : n \in Sizes}

LaterEvents == {ev \in Events : ev.t \in {"badge_acquired", "play_report"}}   \* as Followers

-----------------------------------------------------------------------------
Nothing == [at |-> "nowhere"]

Init ==
    /\ pc = "down"
    /\ toSwitch = <<>> /\ buf = <<>> /\ toBridge = <<>>
    /\ ring = <<>>
    /\ sends = 0 /\ moves = 0
    /\ last = Nothing

Moved == moves < MaxMoves /\ moves' = moves + 1

Halves(msg) == LET line == [of |-> msg, line |-> to_wire(msg)]
               IN <<[half |-> 1] @@ line, [half |-> 2] @@ line>>

(* enqueueLog: nothing while Disconnected, a silent drop on a full ring.   *)
EnqueueLog(queue, octets) ==
    IF pc = "down" \/ Len(queue) >= RingCap THEN queue ELSE Append(queue, Log(octets))

(* connectOnce, setConn(Hello), sendHello: past the ring, on the socket.   *)
Connect ==
    /\ pc = "down" /\ pc' = "pump"
    /\ toBridge' = Append(toBridge, [of |-> Hello, line |-> encodeOutbound(Hello)])
    /\ ring' = IF Len(ring) < RingCap THEN Append(ring, Log(<<"plain">>)) ELSE ring
    /\ last' = Nothing
    /\ UNCHANGED <<toSwitch, buf, sends, moves>>

(* The lines in the bridge's reader survive, as far as they had come; what *)
(* the Switch had not read does not.                                       *)
Disconnect ==
    /\ pc' = "down"
    /\ buf' = <<>>
    /\ toSwitch' = <<>>
    /\ \E n \in 0..Len(toBridge) : toBridge' = SubSeq(toBridge, 1, n)

Lose ==
    /\ pc = "poll" /\ Moved
    /\ ring' = EnqueueLog(ring, <<"plain">>)   \* "peer closed", while still Ready
    /\ Disconnect
    /\ last' = Nothing
    /\ UNCHANGED sends

-----------------------------------------------------------------------------
(* pumpOutbound. *)

SentLog(queue) == IF sends < LoggedSends THEN EnqueueLog(queue, <<"plain">>) ELSE queue

\* Mutation: a truncated line is sent.
PumpUnchecked ==
    /\ pc = "pump" /\ ring # <<>>
    /\ toBridge' = Append(toBridge, [of |-> Head(ring), line |-> encodeOutbound(Head(ring))])
    /\ ring' = SentLog(Tail(ring))
    /\ sends' = IF sends < LoggedSends THEN sends + 1 ELSE sends
    /\ last' = Nothing
    /\ UNCHANGED <<pc, toSwitch, buf, moves>>
Pump ==
    /\ pc = "pump" /\ ring # <<>>
    /\ LET line == encodeOutbound(Head(ring))
       IN IF line.truncated
          THEN /\ ring' = EnqueueLog(Tail(ring), <<"plain">>)
               /\ UNCHANGED <<toBridge, sends>>
          ELSE /\ toBridge' = Append(toBridge, [of |-> Head(ring), line |-> line])
               /\ ring' = SentLog(Tail(ring))
               /\ sends' = IF sends < LoggedSends THEN sends + 1 ELSE sends
    /\ last' = Nothing
    /\ UNCHANGED <<pc, toSwitch, buf, moves>>

SendFails ==   \* popped, and not put back
    /\ pc = "pump" /\ ring # <<>> /\ ~encodeOutbound(Head(ring)).truncated /\ Moved
    /\ pc' = "poll"
    /\ ring' = EnqueueLog(Tail(ring), <<"plain">>)
    /\ last' = Nothing
    /\ UNCHANGED <<toSwitch, buf, toBridge, sends>>

PumpDone ==
    /\ pc = "pump" /\ ring = <<>>
    /\ pc' = "poll" /\ last' = Nothing
    /\ UNCHANGED <<toSwitch, buf, ring, toBridge, sends, moves>>

-----------------------------------------------------------------------------
(* The poll, the receive, and the loop over the lines received.            *)

PollTimeout ==
    /\ pc = "poll" /\ toSwitch = <<>>
    /\ pc' = "pump" /\ last' = Nothing
    /\ UNCHANGED <<toSwitch, buf, ring, toBridge, sends, moves>>

Receive ==
    /\ pc = "poll" /\ pc' = "drain"
    /\ \E n \in 1..Len(toSwitch) :
         /\ buf' = buf \o SubSeq(toSwitch, 1, n)
         /\ toSwitch' = SubSeq(toSwitch, n + 1, Len(toSwitch))
    /\ last' = Nothing
    /\ UNCHANGED <<ring, toBridge, sends, moves>>

LineEnd == SelectInSeq(buf, LAMBDA piece : piece.half = 2)   \* 0: none

(* popLine gives what lies before the newline, whatever lines it is of.    *)
Popped ==
    IF LineEnd = 2 /\ buf[1].half = 1 /\ buf[1].of = buf[2].of
    THEN decodeInbound(buf[1].line) ELSE Malformed

(* The log line handleLine writes: the texts it repeats, cut by its %.Ns.  *)
Relayed(msg) ==
    LET echo(f) == SubSeq(msg.fields[f].octets, 1, Min({EchoCap, Len(msg.fields[f].octets)}))
    IN CASE msg.t = "kill" -> msg.fields.source.octets \o <<"plain">> \o msg.fields.cause.octets
         [] msg.t \in {"overlay_notice", "set_badge_shop_text"} -> echo("text")
         [] msg.t = "err" -> msg.fields.reason.octets
         [] OTHER -> <<"plain">>

(* handleLine logs an absolute state only when it differs from the last.   *)
Deduplicated ==
    {"set_badges_absolute", "set_royal_seeds_absolute", "set_wonder_seeds_absolute",
     "set_wonder_seed_counts", "set_routable_worlds", "set_force_cleared_courses"}

\* Mutation: one line for each receive.
HandleOneLine ==
    /\ pc = "drain" /\ LineEnd # 0
    /\ last' = [at |-> "switch", sent |-> buf[LineEnd].of, got |-> Popped]
    /\ buf' = SubSeq(buf, LineEnd + 1, Len(buf))
    /\ \/ ring' = EnqueueLog(ring, Relayed(Popped))
       \/ Popped.t \in Deduplicated /\ ring' = ring
    /\ pc' = "pump"
    /\ UNCHANGED <<toSwitch, toBridge, sends, moves>>
HandleLine ==
    /\ pc = "drain" /\ LineEnd # 0
    /\ last' = [at |-> "switch", sent |-> buf[LineEnd].of, got |-> Popped]
    /\ buf' = SubSeq(buf, LineEnd + 1, Len(buf))
    /\ \/ ring' = EnqueueLog(ring, Relayed(Popped))
       \/ Popped.t \in Deduplicated /\ ring' = ring
    /\ UNCHANGED <<pc, toSwitch, toBridge, sends, moves>>

DrainDone ==
    /\ pc = "drain" /\ LineEnd = 0
    /\ pc' = "pump" /\ last' = Nothing
    /\ UNCHANGED <<toSwitch, buf, ring, toBridge, sends, moves>>

-----------------------------------------------------------------------------
(* The bridge: _send of a command, and _dispatch_line with its replies.    *)

(* A command for a link that is down is dropped or never arrives.          *)
SendCommand ==
    /\ pc # "down" /\ Moved
    /\ \E msg \in IF moves = 0 THEN Commands \cup NewerBridge ELSE Followers :
         toSwitch' = toSwitch \o Halves(msg)
    /\ last' = Nothing
    /\ UNCHANGED <<pc, buf, ring, toBridge, sends>>

Reply(msg) == toSwitch' = IF pc = "down" THEN toSwitch ELSE toSwitch \o Halves(msg)

Dispatch ==
    /\ toBridge # <<>>
    /\ toBridge' = Tail(toBridge)
    /\ LET got == decode(Head(toBridge).line)
       IN /\ last' = [at |-> "bridge", sent |-> Head(toBridge).of, got |-> got]
          /\ CASE got.t = "malformed" -> Reply(Refusal)
               [] got.t = "hello"     -> Reply(HelloAck)
               [] OTHER               -> toSwitch' = toSwitch
    /\ UNCHANGED <<pc, buf, ring, sends, moves>>

(* The game thread's enqueue functions: a full ring drops the record.      *)
Push ==
    /\ Moved
    /\ \E ev \in IF moves = 0 THEN Events ELSE LaterEvents :
         ring' = IF Len(ring) >= RingCap THEN ring
                 ELSE IF ev.t = "badge_acquired" THEN EnqueueLog(Append(ring, ev), <<"plain">>)
                 ELSE Append(ring, ev)
    /\ last' = Nothing
    /\ UNCHANGED <<pc, toSwitch, buf, toBridge, sends>>

(* Pushes that overlap, on a ring for one producer that every thread that  *)
(* logs pushes to too: the one that stores head_ last sets it back, and    *)
(* what was put since is lost.  When it is set back behind tail_, records  *)
(* are sent again; those are as another Push puts them.                    *)
Overlap ==
    /\ Moved
    /\ \E n \in 0..(Len(ring) - 1) : ring' = SubSeq(ring, 1, n)
    /\ last' = Nothing
    /\ UNCHANGED <<pc, toSwitch, buf, toBridge, sends>>

Next ==
    \/ Connect \/ Lose
    \/ Pump \/ SendFails \/ PumpDone
    \/ PollTimeout \/ Receive \/ HandleLine \/ DrainDone
    \/ SendCommand \/ Dispatch \/ Push \/ Overlap

Spec == Init /\ [][Next]_vars

(* The network thread and the bridge's reader run; nothing else must.      *)
FairSpec ==
    /\ Spec
    /\ WF_vars(Connect)
    /\ WF_vars(Pump) /\ WF_vars(PumpDone)
    /\ WF_vars(PollTimeout) /\ WF_vars(Receive)
    /\ WF_vars(HandleLine) /\ WF_vars(DrainDone)
    /\ WF_vars(Dispatch)

-----------------------------------------------------------------------------
TypeOK ==
    /\ pc \in {"down", "pump", "poll", "drain"}
    /\ Len(ring) <= RingCap /\ sends \in 0..LoggedSends /\ moves \in 0..MaxMoves
    /\ \A i \in 1..Len(buf) : buf[i].half \in {1, 2}

(* The meaning of a field survives: a number or a flag is the one meant, a *)
(* text is the one meant up to where a buffer's bytes end, and the shop's  *)
(* text, cut by its sender to whole characters, is exactly what was left.  *)
FieldUnderstood(kind, meant, got) ==
    CASE kind.is # "text" -> got = meant
      [] kind.is = "text" /\ kind.cut = "octets" ->
            got.octets = Octets(Cut(kind, meant.text))
      [] OTHER -> IsPrefix(got.octets, Octets(meant.text))

(* Every line the bridge sends is understood by the Switch, whatever the   *)
(* receives split or joined, whichever connection it came on, and whatever *)
(* fields a newer bridge has added (wire.py's classes against              *)
(* ApProtocol.cpp's parsers).                                              *)
CommandsUnderstood ==
    last.at = "switch" =>
        /\ last.got.t = last.sent.t
        /\ \A f \in DOMAIN Classes[last.sent.t] :
             FieldUnderstood(Classes[last.sent.t][f], last.sent.fields[f], last.got.fields[f])

(* Every event line of the Switch that the bridge reads is decoded to the  *)
(* event meant; only a log line may be refused (ApProtocol.cpp's encoders  *)
(* against wire.decode).                                                   *)
ReportsUnderstood ==
    last.at = "bridge" /\ last.sent.t # "log" => last.got = last.sent

(* The caps of KillMsg and OverlayNoticeMsg "MUST match" the Switch's      *)
(* buffers (wire.py:1177-1179, 1223-1224), so that no text loses part of a *)
(* character.  The caps count characters and the buffers octets: not kept. *)
TextsWhole ==
    last.at = "switch" =>
        \A f \in DOMAIN last.got.fields :
            last.got.fields[f].is = "string" => IsUtf8(last.got.fields[f].octets)

(* The bridge can read every line the Switch sends, its log lines too.     *)
(* Encoder::value leaves most control characters and torn texts as they    *)
(* are: not kept.                                                          *)
NoneRefused == last.at = "bridge" => last.got.t # "malformed"

(* Once commands, events and faults stop, the two sides come to rest:      *)
(* nothing in flight, nothing queued, no line left in the buffer; the log  *)
(* lines they cause in each other do not go round for ever.                *)
AtRest == toSwitch = <<>> /\ toBridge = <<>> /\ ring = <<>> /\ LineEnd = 0
Settles == <>[]AtRest
=============================================================================
