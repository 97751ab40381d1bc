----------------------------- MODULE WireFormat -----------------------------
(***************************************************************************)
(* The lines the bridge and the Switch exchange, written by                *)
(* client/wire.py and by ap/ApProtocol.cpp with util/Json.cpp, and read by *)
(* the other side: two hand-kept halves of one format.                     *)
(*                                                                         *)
(* An integer keeps its width: it is a sign and the set of the positions   *)
(* of its two's complement that differ from the sign, so that a mask is    *)
(* the set of its bits and -1 is the negative number with none.  A text    *)
(* is a sequence of characters, of which only what the format tells apart  *)
(* is kept ("wide" ones take two octets); on a line it is a sequence of    *)
(* octets, some of them written with an escape.                            *)
(***************************************************************************)
EXTENDS Integers, Sequences, SequencesExt, FiniteSets, FiniteSetsExt

CONSTANTS
    TextCap,     \* bytes of a text buffer, 48 to 256 in the code
    HashCap,     \* MAX_HASHES and kWorldUnlockHashCap, 96 in the code
    WorldCount,  \* WORLD_COUNT and kWorldCount, 8 in the code
    SkipDepth,   \* kMaxSkipDepth, 16 in the code
    PayloadCap,  \* kPayloadCap, in KiB: 6 in the code
    LineCap      \* LineBuffer::kCap and MAX_LINE_BYTES, in KiB: 8 in the code

ASSUME WireFormatAssumption ==
    /\ {TextCap, HashCap, WorldCount, LineCap} \subseteq Nat \ {0}
    /\ {SkipDepth, PayloadCap} \subseteq Nat

-----------------------------------------------------------------------------
(* Values. *)

Integer(neg, bits) == [is |-> "int", neg |-> neg, bits |-> bits]
Mask(bits)     == Integer(FALSE, bits)
Str(octets)    == [is |-> "string", octets |-> octets]
Bool(on)       == [is |-> "bool", on |-> on]
List(items)    == [is |-> "list", items |-> items]
Hex(size)      == [is |-> "hex", size |-> size]      \* a payload of size KiB
Nested(depth)  == [is |-> "nested", depth |-> depth]
Malformed      == [t |-> "malformed"]

FitsUnsigned(v, width) == ~v.neg /\ v.bits \subseteq 0..(width - 1)
FitsSigned(v, width)   == v.bits \subseteq 0..(width - 2)
AsInt32(v)             ==   \* static_cast<int> of a u32
    IF 31 \in v.bits THEN Integer(TRUE, (0..30) \ v.bits) ELSE v
Exceeds(bits, limit)   == \E i \in bits \ limit : \A j \in limit \ bits : j < i

(* Texts: their octets, and the three ways they are cut.                   *)
Octets(text) ==
    FlattenSeq([i \in 1..Len(text) |->
                  IF text[i] = "wide" THEN <<"lead", "trail">> ELSE <<text[i]>>])
CharCut(text, n) == SubSeq(text, 1, Min({n, Len(text)}))
WholeCut(text, n) ==
    CharCut(text, Max({k \in 0..Len(text) : Len(Octets(CharCut(text, k))) <= n}))
copyFixedN(octets, n) == SubSeq(octets, 1, Min({n - 1, Len(octets)}))

Escaped ==   \* an octet as it is written with a backslash
    [quote |-> "esc quote", newline |-> "esc newline", control |-> "esc control"]
Written(octets, special) ==
    [i \in 1..Len(octets) |-> IF octets[i] \in special THEN Escaped[octets[i]] ELSE octets[i]]
Unescaped(octets) ==
    [i \in 1..Len(octets) |->
        IF \E c \in DOMAIN Escaped : Escaped[c] = octets[i]
        THEN CHOOSE c \in DOMAIN Escaped : Escaped[c] = octets[i]
        ELSE octets[i]]
IsUtf8(octets) ==
    \A i \in 1..Len(octets) :
        octets[i] = "lead" => i < Len(octets) /\ octets[i + 1] = "trail"

-----------------------------------------------------------------------------
(* The bridge's classes for what it sends: their fields and, of each, what *)
(* wire.py's own decoder admits and how the sender shortens it.            *)

Uint(width)   == [is |-> "uint", width |-> width]
Sint(width)   == [is |-> "sint", width |-> width]
Flag          == [is |-> "flag"]
Word          == [is |-> "word"]               \* a fixed word of the program
Text(cut)     == [is |-> "text", cut |-> cut]  \* "chars", "octets" or "none"
Uints(width, lengths) == [is |-> "uints", width |-> width, lengths |-> lengths]

HelloAckMsg                  == [ok |-> Flag, wire_ver |-> Uint(31), bridge_ver |-> Word]
SetBadgesAbsoluteMsg         == [bits |-> Uint(64)]
GrantHashKeyedMsg            == [hash |-> Uint(32), value |-> Uint(32)]
SetRoyalSeedsAbsoluteMsg     == [mask |-> Uint(6)]
SetRoutableWorldsAbsoluteMsg == [mask |-> Uint(16)]
SetForceClearedCoursesMsg    == [mask |-> Uint(16)]
SetItemGetDenyMaskMsg        == [mask |-> Uint(32)]
SetUnlockedCharasMsg         == [mask |-> Uint(16)]
SetBadgeShopStateMsg         == [managed |-> Uint(64), sold |-> Uint(64)]
SetSeedShopStateMsg          == [managed |-> Uint(32), sold |-> Uint(32)]
SetBadgeShopTextMsg          == [id |-> Uint(32), text |-> Text("octets")]
SetWonderSeedCountsMsg       == [counts |-> Uints(32, {WorldCount})]
SetWonderSeedsAbsoluteMsg    == [bits_lo |-> Uint(64), bits_hi |-> Uint(64)]
IncrementHashKeyedMsg        == [hash |-> Uint(32), delta |-> Sint(32)]
KillMsg                      == [source |-> Text("chars"), cause |-> Text("chars"),
                                 immediate |-> Flag]
OverlayNoticeMsg             == [text |-> Text("chars"), ttl_ms |-> Uint(15)]
ErrMsg                       == [reason |-> Text("none")]
ApplyWorldUnlockMsg          == [hashes |-> Uints(32, 0..HashCap),
                                 bool_hashes |-> Uints(32, 0..HashCap)]

Classes ==
    [hello_ack                 |-> HelloAckMsg,
     set_badges_absolute       |-> SetBadgesAbsoluteMsg,
     grant_hash_keyed          |-> GrantHashKeyedMsg,
     set_royal_seeds_absolute  |-> SetRoyalSeedsAbsoluteMsg,
     set_routable_worlds       |-> SetRoutableWorldsAbsoluteMsg,
     set_force_cleared_courses |-> SetForceClearedCoursesMsg,
     set_itemget_deny          |-> SetItemGetDenyMaskMsg,
     set_unlocked_charas       |-> SetUnlockedCharasMsg,
     set_badge_shop_state      |-> SetBadgeShopStateMsg,
     set_seed_shop_state       |-> SetSeedShopStateMsg,
     set_badge_shop_text       |-> SetBadgeShopTextMsg,
     set_wonder_seed_counts    |-> SetWonderSeedCountsMsg,
     set_wonder_seeds_absolute |-> SetWonderSeedsAbsoluteMsg,
     increment_hash_keyed      |-> IncrementHashKeyedMsg,
     kill                      |-> KillMsg,
     overlay_notice            |-> OverlayNoticeMsg,
     err                       |-> ErrMsg,
     apply_world_unlock        |-> ApplyWorldUnlockMsg]

-----------------------------------------------------------------------------
(* The Switch's parsers: the fields each one reads, how, and the ones a    *)
(* line may leave out.  A field it does not know is stepped over.          *)

U64      == [is |-> "u64"]
Boolean  == [is |-> "flag"]
Buffer   == [is |-> "buffer"]
Clamped  == [is |-> "clamped"]
Parser(read, optional) == [read |-> read, required |-> DOMAIN read \ optional]

parseHelloAck == Parser([ok |-> Boolean, wire_ver |-> Sint(64), bridge_ver |-> Buffer,
                         reason |-> Buffer], {"ok", "wire_ver", "bridge_ver", "reason"})
parseSetBadgesAbsolute  == Parser([bits |-> U64], {})
parseGrantHashKeyed     == Parser([hash |-> Uint(32), value |-> Uint(32)], {})
parseDumpSaveField      == Parser([base_nso_offset |-> Uint(32), field_offset |-> Uint(32)], {})
parseSetContainerCBit   == Parser([hash |-> Uint(32), bit_index |-> Uint(32), value |-> Uint(8)], {})
parseSetPerCourseBitfield == Parser([hash |-> Uint(32), course_index |-> Uint(32),
                                     bitmask |-> Uint(32)], {})
parseIncrementHashKeyed == Parser([hash |-> Uint(32), delta |-> Sint(32)], {})
parseSetRoyalSeedsAbsolute     == Parser([mask |-> Uint(6)], {})
parseApplyWorldUnlock   == Parser([hashes |-> Uints(32, 0..HashCap),
                                   bool_hashes |-> Uints(32, 0..HashCap)], {"bool_hashes"})
parseSetRoutableWorldsAbsolute == Parser([mask |-> Uint(16)], {})
parseSetForceClearedCourses    == Parser([mask |-> Uint(16)], {})
parseSetUnlockedCharas  == Parser([mask |-> Uint(16)], {})
parseSetItemGetDenyMask == Parser([mask |-> Uint(32)], {})
parseSetBadgeShopState  == Parser([managed |-> U64, sold |-> U64], {})
parseSetSeedShopState   == Parser([managed |-> Uint(32), sold |-> Uint(32)], {})
parseSetBadgeShopText   == Parser([id |-> Uint(32), text |-> Buffer], {})
parseSetWonderSeedCounts       == Parser([counts |-> Uints(32, {WorldCount})], {})
parseSetWonderSeedsAbsolute    == Parser([bits_lo |-> U64, bits_hi |-> U64], {})
parseKill               == Parser([source |-> Buffer, cause |-> Buffer, immediate |-> Boolean],
                                  {"immediate"})
parseOverlayNotice      == Parser([text |-> Buffer, ttl_ms |-> Clamped], {})
parseErr                == Parser([reason |-> Buffer], {"reason"})

Parsers ==   \* decodeInbound's chain of names
    [set_badges_absolute       |-> parseSetBadgesAbsolute,
     grant_hash_keyed          |-> parseGrantHashKeyed,
     increment_hash_keyed      |-> parseIncrementHashKeyed,
     set_per_course_bitfield   |-> parseSetPerCourseBitfield,
     set_container_c_bit       |-> parseSetContainerCBit,
     dump_save_field           |-> parseDumpSaveField,
     set_wonder_seed_counts    |-> parseSetWonderSeedCounts,
     set_royal_seeds_absolute  |-> parseSetRoyalSeedsAbsolute,
     set_wonder_seeds_absolute |-> parseSetWonderSeedsAbsolute,
     overlay_notice            |-> parseOverlayNotice,
     set_routable_worlds       |-> parseSetRoutableWorldsAbsolute,
     set_force_cleared_courses |-> parseSetForceClearedCourses,
     apply_world_unlock        |-> parseApplyWorldUnlock,
     set_unlocked_charas       |-> parseSetUnlockedCharas,
     set_itemget_deny          |-> parseSetItemGetDenyMask,
     set_seed_shop_state       |-> parseSetSeedShopState,
     set_badge_shop_state      |-> parseSetBadgeShopState,
     set_badge_shop_text       |-> parseSetBadgeShopText,
     kill                      |-> parseKill,
     hello_ack                 |-> parseHelloAck,
     err                       |-> parseErr]

nextInt(v)    == v.is = "int" /\ v.bits \subseteq 0..62
\* Mutation: the 64-bit masks read through nextInt, as until 2026-09-21.
nextUInt64Signed(v) == nextInt(v) /\ FitsUnsigned(v, 63)
nextUInt64(v) == v.is = "int" /\ FitsUnsigned(v, 64)
skipValue(v)  == v.is = "nested" => v.depth <= SkipDepth
MaxTtl        == {5, 6, 9, 11, 13, 14, 15}     \* 60000

Accepts(kind, v) ==
    CASE kind.is = "u64"     -> nextUInt64(v)
      [] kind.is = "uint"    -> nextInt(v) /\ FitsUnsigned(v, kind.width)
      [] kind.is = "sint"    -> nextInt(v) /\ FitsSigned(v, kind.width)
      [] kind.is = "clamped" -> nextInt(v)
      [] kind.is = "flag"    -> v.is = "bool"
      [] kind.is = "buffer"  -> v.is = "string"
      [] kind.is = "uints"   -> /\ v.is = "list" /\ Len(v.items) \in kind.lengths
                                /\ \A i \in 1..Len(v.items) :
                                      nextInt(v.items[i]) /\ FitsUnsigned(v.items[i], kind.width)

Stored(kind, v) ==
    CASE kind.is = "buffer"  -> Str(copyFixedN(Unescaped(v.octets), TextCap))
      [] kind.is = "clamped" -> IF v.neg THEN Mask({})
                                ELSE IF Exceeds(v.bits, MaxTtl) THEN Mask(MaxTtl) ELSE v
      [] OTHER               -> v

Default(kind) ==
    CASE kind.is = "flag"   -> Bool(FALSE)
      [] kind.is = "buffer" -> Str(<<>>)
      [] kind.is = "uints"  -> List(<<>>)
      [] OTHER              -> Mask({})

(* decodeInbound: one value refused refuses the line (error_ is sticky).   *)
decodeInbound(line) ==
    IF /\ line.t \in DOMAIN Parsers
       /\ Parsers[line.t].required \subseteq DOMAIN line.fields
       /\ \A f \in DOMAIN line.fields :
             IF f \in DOMAIN Parsers[line.t].read
             THEN Accepts(Parsers[line.t].read[f], line.fields[f])
             ELSE skipValue(line.fields[f])
    THEN LET read == Parsers[line.t].read
         IN [t |-> line.t,
             fields |-> [f \in DOMAIN read |->
                           IF f \in DOMAIN line.fields THEN Stored(read[f], line.fields[f])
                           ELSE Default(read[f])]]
    ELSE Malformed

(* to_wire and json.dumps; send_set_badge_shop_text cuts before.           *)
Cut(kind, text) ==
    CASE kind.cut = "chars"  -> CharCut(text, TextCap)
      [] kind.cut = "octets" -> IF Len(Octets(text)) < TextCap THEN text
                                ELSE WholeCut(text, TextCap - 1)
      [] OTHER               -> text

to_wire(msg) ==
    [t |-> msg.t, truncated |-> FALSE,
     fields |-> [f \in DOMAIN msg.fields |->
                   IF msg.fields[f].is = "chars"
                   THEN Str(Written(Octets(Cut(Classes[msg.t][f], msg.fields[f].text)),
                                    {"quote", "newline", "control"}))
                   ELSE msg.fields[f]]]

-----------------------------------------------------------------------------
(* The Switch's records, its encoders and wire.py's readers of them.       *)

Name(word) == [is |-> "name", word |-> word]
NerveWords ==   \* toWire
    [WonderSeedAwarded |-> "wonder_seed_awarded", CourseCleared |-> "course_cleared",
     DeathDetected |-> "death_detected", GameGoalReached |-> "game_goal_reached"]
NerveKind ==    \* protocol.NerveKind
    [wonder_seed_awarded |-> "WonderSeedAwarded", course_cleared |-> "CourseCleared",
     death_detected |-> "DeathDetected", game_goal_reached |-> "GameGoalReached"]

encodeHello(m)         == [mod_ver |-> m.mod_ver, game_ver |-> m.game_ver, pid |-> AsInt32(m.pid)]
encodeNerveFire(m)     == [kind |-> Name(NerveWords[m.kind.word]), seq |-> AsInt32(m.seq)]
encodeBadgeAcquired(m) == [internal_id |-> AsInt32(m.internal_id), seq |-> AsInt32(m.seq)]
encodeCharBlockHit(m)  == [player_slot |-> AsInt32(m.player_slot), chara |-> m.chara,
                           pos |-> m.pos, seq |-> AsInt32(m.seq)]
encodePlayReport(m)    == [room |-> m.room, payload |-> m.payload]
encodeLog(m)           == [level |-> m.level,
                           msg |-> Str(Written(m.msg.octets, {"quote", "newline"}))]

encodeOutbound(ev) ==
    LET m == ev.fields
    IN [t |-> ev.t,
        truncated |-> ev.t = "play_report" /\ 2 * m.payload.size >= LineCap,
        fields |-> CASE ev.t = "hello"          -> encodeHello(m)
                     [] ev.t = "nerve"          -> encodeNerveFire(m)
                     [] ev.t = "badge_acquired" -> encodeBadgeAcquired(m)
                     [] ev.t = "char_block_hit" -> encodeCharBlockHit(m)
                     [] ev.t = "play_report"    -> encodePlayReport(m)
                     [] ev.t = "log"            -> encodeLog(m)]

IsInt(v)  == v.is = "int"
IsText(v) ==   \* line.decode("utf-8"), then json.loads
    /\ v.is = "string" /\ IsUtf8(v.octets)
    /\ \A i \in 1..Len(v.octets) : v.octets[i] \notin DOMAIN Escaped

HelloMsg(m)             == IsText(m.mod_ver) /\ IsText(m.game_ver) /\ IsInt(m.pid)
NerveFireWireMsg(m)     == m.kind.word \in DOMAIN NerveKind /\ IsInt(m.seq)
BadgeAcquiredWireMsg(m) == FitsUnsigned(m.internal_id, 32) /\ FitsUnsigned(m.seq, 32)
CharBlockHitWireMsg(m)  == /\ FitsUnsigned(m.player_slot, 32)
                           /\ m.chara = Integer(TRUE, {}) \/ FitsUnsigned(m.chara, 16)
                           /\ Len(m.pos.items) = 3 /\ IsInt(m.seq)
PlayReportWireMsg(m)    == IsText(m.room) /\ m.payload.is = "hex"
LogMsg(m)               == IsText(m.level) /\ IsText(m.msg)

Admits(line) ==
    CASE line.t = "hello"          -> HelloMsg(line.fields)
      [] line.t = "nerve"          -> NerveFireWireMsg(line.fields)
      [] line.t = "badge_acquired" -> BadgeAcquiredWireMsg(line.fields)
      [] line.t = "char_block_hit" -> CharBlockHitWireMsg(line.fields)
      [] line.t = "play_report"    -> PlayReportWireMsg(line.fields)
      [] line.t = "log"            -> LogMsg(line.fields)
      [] OTHER                     -> FALSE

decode(line) ==
    IF line.truncated \/ ~Admits(line) THEN Malformed
    ELSE [t |-> line.t,
          fields |-> [f \in DOMAIN line.fields |->
                        LET v == line.fields[f]
                        IN CASE v.is = "name"   -> Name(NerveKind[v.word])
                             [] v.is = "string" -> Str(Unescaped(v.octets))
                             [] OTHER           -> v]]
=============================================================================
