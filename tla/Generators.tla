----------------------------- MODULE Generators -----------------------------
(***************************************************************************)
(* The message generators that cut frames out of the serial buffer, and    *)
(* the registry that tries them in priority order (Pentair, then Jandy).   *)
(*                                                                         *)
(* A byte is a token.  Two-byte markers keep both bytes (a read may split  *)
(* them); the four-byte Pentair preamble is kept as two halves.  "a" is    *)
(* payload, "c" the checksum that matches it, "u" payload of a message no  *)
(* factory can build, "L" a Pentair LEN field announcing PentairData bytes *)
(* (any other byte read as LEN announces LongData bytes), "x" a damaged    *)
(* byte.                                                                   *)
(*                                                                         *)
(* A generator maps the buffer to a result: the code it returns, the       *)
(* buffer it leaves, and the protocol of the message it built, if any.     *)
(***************************************************************************)
EXTENDS Naturals, Sequences

CONSTANTS
    MaxPacket,      \* MAXIMUM_PACKET_LENGTH of a Jandy packet (128)
    LongData,       \* data bytes announced by a byte never meant as LEN
    PentairEnabled  \* is the Pentair generator registered?

ASSUME GeneratorConstants ==
    /\ MaxPacket \in Nat \ {0}
    /\ LongData \in Nat
    /\ PentairEnabled \in BOOLEAN

Byte == {"DLE", "STX", "ETX", "FF00", "FFA5", "L", "a", "c", "u", "x"}

Codes == {"Message", "Waiting", "DataAvailable", "ChecksumFailure",
          "Overlapping", "DecodeFailure"}

Result(code, buf) == [code |-> code, buf |-> buf]

(***************************************************************************)
(* Scanning.                                                               *)
(***************************************************************************)
\* Positions of the two-byte sequence <<p, q>> that lie wholly in lo..hi.
Occurs(buf, p, q, lo, hi) ==
    {i \in 1..Len(buf) : /\ lo <= i /\ i < hi
                         /\ i + 1 <= Len(buf)
                         /\ buf[i] = p /\ buf[i + 1] = q}

\* std::search: the first occurrence, or `none` when there is none.
First(S, none) ==
    IF S = {} THEN none ELSE CHOOSE i \in S : \A j \in S : i <= j

\* The bytes that stay when the first n bytes are erased.
DropFront(buf, n) == SubSeq(buf, n + 1, Len(buf))

(***************************************************************************)
(* The Jandy generator: DLE STX payload checksum DLE ETX.                  *)
(***************************************************************************)
\* p1_start, p1_end and p2_start of one scan; end-of-buffer is Len + 1.
FindAllPacketLocations(buf) ==
    LET eob == Len(buf) + 1
        s1  == First(Occurs(buf, "DLE", "STX", 1, Len(buf)), eob)
        e1  == First(Occurs(buf, "DLE", "ETX", s1 + 1, Len(buf)), eob)
        s2  == First(Occurs(buf, "DLE", "STX", s1 + 1, e1 - 1), e1)
    IN  [p1_start |-> s1, p1_end |-> e1, p2_start |-> s2,
         HasPacketStart |-> s1 # eob,
         HasPacketEnd |-> e1 # eob,
         HasSecondPacketStart |-> s2 # e1]

\* Drops a packet whose end is further from its start than any packet is long.
HasEndOfPacketWithinMaxDistance(buf, loc) ==
    IF /\ Len(buf) > MaxPacket
       /\ loc.HasPacketStart
       /\ loc.p1_end - loc.p1_start + 2 > MaxPacket
    THEN DropFront(buf, IF loc.HasPacketEnd THEN loc.p1_end + 1 ELSE loc.p1_end - 1)
    ELSE buf

\* Only an undamaged payload matches its checksum.
JandyChecksumIsValid(packet) ==
    \E body \in {"a", "u"} : packet = <<"DLE", "STX", body, "c", "DLE", "ETX">>

JandyGenerate(serial_data) ==
    LET first == FindAllPacketLocations(serial_data)
        buf   == HasEndOfPacketWithinMaxDistance(serial_data, first)
        loc   == FindAllPacketLocations(buf)
        past  == loc.p1_end + 1
    IN  IF serial_data = << >> THEN Result("Waiting", serial_data)
        ELSE IF ~first.HasPacketStart \/ ~loc.HasPacketStart
             THEN Result("Waiting", << >>)
        ELSE IF loc.HasSecondPacketStart
             THEN Result("Overlapping", DropFront(buf, loc.p2_start - 1))
        ELSE IF ~loc.HasPacketEnd
             THEN Result("Waiting", buf)
        ELSE IF ~JandyChecksumIsValid(SubSeq(buf, loc.p1_start, past))
             THEN Result("ChecksumFailure", DropFront(buf, past))
        ELSE IF buf[loc.p1_start + 2] = "u"
             THEN Result("DecodeFailure", DropFront(buf, past))
        ELSE Result("Message", DropFront(buf, past))

(***************************************************************************)
(* The Pentair generator: preamble LEN data.  It erases from the middle,   *)
(* keeping what precedes the preamble.                                     *)
(***************************************************************************)
PentairDataLength(len) == IF len = "L" THEN 1 ELSE LongData

Erase(buf, from, n) == SubSeq(buf, 1, from - 1) \o SubSeq(buf, from + n, Len(buf))

\* A faulty PentairGenerate: an incomplete frame is reported as "not mine".
PentairGenerateDefersPartial(buf) ==
    LET eob  == Len(buf) + 1
        pre  == First(Occurs(buf, "FF00", "FFA5", 1, Len(buf)), eob)
    IN  IF pre + 3 > Len(buf) THEN Result("Waiting", buf)
        ELSE Result("Message", Erase(buf, pre, 4))

\* A faulty PentairGenerate: a decoded frame takes what precedes it along.
PentairGenerateErasesLeading(buf) ==
    LET eob  == Len(buf) + 1
        pre  == First(Occurs(buf, "FF00", "FFA5", 1, Len(buf)), eob)
    IN  IF pre = eob THEN Result("Waiting", buf)
        ELSE IF pre + 3 > Len(buf) THEN Result("DataAvailable", buf)
        ELSE Result("Message", DropFront(buf, pre + 3))

PentairGenerate(buf) ==
    LET eob   == Len(buf) + 1
        pre   == First(Occurs(buf, "FF00", "FFA5", 1, Len(buf)), eob)
        size  == 3 + PentairDataLength(buf[pre + 2])
        data  == SubSeq(buf, pre + 3, pre + size - 1)
    IN  IF pre = eob THEN Result("Waiting", buf)
        ELSE IF pre + 2 > Len(buf) THEN Result("DataAvailable", buf)
        ELSE IF pre + size - 1 > Len(buf) THEN Result("DataAvailable", buf)
        ELSE IF data \notin {<<"a">>, <<"u">>}
             THEN Result("ChecksumFailure", Erase(buf, pre, 2))
        ELSE IF data = <<"u">> THEN Result("DecodeFailure", Erase(buf, pre, size))
        ELSE Result("Message", Erase(buf, pre, size))

(***************************************************************************)
(* The registry: WaitingForMoreData passes the buffer to the next          *)
(* generator, any other result is final.                                   *)
(***************************************************************************)
\* A faulty registry: running out of generators is an error of its own.
GenerateMessageWithoutDeferral(buf) ==
    LET jandy == JandyGenerate(buf)
    IN  IF jandy.code # "Waiting" THEN jandy ELSE Result("NoGenerator", jandy.buf)

GenerateMessage(buf) ==
    LET pentair == IF PentairEnabled THEN PentairGenerate(buf)
                                     ELSE Result("Waiting", buf)
    IN  IF pentair.code # "Waiting" THEN pentair ELSE JandyGenerate(pentair.buf)

=============================================================================
