----------------------------- MODULE WireProofs -----------------------------
(***************************************************************************)
(* Proofs about what happens to the bytes of the wire: the protocol task   *)
(* that cuts them into frames and writes the replies (ProtocolTask), the   *)
(* Pentair frames and devices (Pentair), the data hub the devices write    *)
(* their readings to (DataHub), and the port that reaches the line over    *)
(* TCP (NetworkPort). Each part stands by itself, for every value of its   *)
(* own constants.                                                          *)
(***************************************************************************)
EXTENDS ProtocolTask, DataHub, Pentair, NetworkPort, SequenceTheorems, WellFoundedInduction, FiniteSetTheorems, TLAPS

-----------------------------------------------------------------------------
(***************************************************************************)
(* The protocol task, for every buffer capacity, chunk size, reply size    *)
(* and traffic.                                                            *)
(***************************************************************************)

(***************************************************************************)
(* Lemmas about the operators of Generators.                               *)
(***************************************************************************)

\* std::search returns a position of the range it searches, or its end.
LEMMA FirstIsMember ==
    ASSUME NEW S, S \subseteq Nat, NEW none, S # {}
    PROVE  First(S, none) \in S
<1> DEFINE R == OpToRel(<, Nat)
<1>1. \E x \in S : \A y \in S : ~ (<<y, x>> \in R)
  BY NatLessThanWellFounded, WFMin
<1>2. \A x, y \in Nat : y < x => <<y, x>> \in R
  BY DEF OpToRel
<1> HIDE DEF R
<1>3. PICK x \in S : \A y \in S : ~ (<<y, x>> \in R)
  BY <1>1
<1>4. \A y \in S : ~ (y < x)
  BY <1>2, <1>3, Zenon
<1>5. \A y \in S : x <= y
  BY <1>4
<1> QED BY <1>5 DEF First

\* Every position that Occurs reports is a position of the range.
LEMMA OccursInRange ==
    ASSUME NEW buf_, NEW p, NEW q, NEW lo \in Nat, NEW hi \in Int, NEW i \in Occurs(buf_, p, q, lo, hi),
           buf_ \in Seq(Byte)
    PROVE  i \in 1..Len(buf_) /\ lo <= i /\ i < hi /\ i + 1 <= Len(buf_)
BY DEF Occurs

\* Erasing the first n bytes leaves bytes, n fewer.
LEMMA DropFrontShrinks ==
    ASSUME NEW s \in Seq(Byte), NEW n \in 0..Len(s)
    PROVE  /\ DropFront(s, n) \in Seq(Byte)
           /\ Len(DropFront(s, n)) = Len(s) - n
<1>1. \A i \in n + 1..Len(s) : s[i] \in Byte
  OBVIOUS
<1> QED BY <1>1, SubSeqProperties DEF DropFront

\* Erasing n bytes from the middle leaves bytes, n fewer.
LEMMA EraseShrinks ==
    ASSUME NEW s \in Seq(Byte), NEW from \in 1..Len(s), NEW n \in Nat,
           from + n <= Len(s) + 1
    PROVE  /\ Erase(s, from, n) \in Seq(Byte)
           /\ Len(Erase(s, from, n)) = Len(s) - n
<1> DEFINE head == SubSeq(s, 1, from - 1)
           rest == SubSeq(s, from + n, Len(s))
<1>1. head \in Seq(Byte) /\ Len(head) = from - 1
  <2>1. \A i \in 1..from - 1 : s[i] \in Byte
    OBVIOUS
  <2> QED BY <2>1, SubSeqProperties
<1>2. rest \in Seq(Byte) /\ Len(rest) = Len(s) - from - n + 1
  <2>1. \A i \in from + n..Len(s) : s[i] \in Byte
    OBVIOUS
  <2> QED BY <2>1, SubSeqProperties
<1>3. Erase(s, from, n) = head \o rest
  BY DEF Erase
<1> HIDE DEF head, rest
<1> QED BY <1>1, <1>2, <1>3, ConcatProperties

\* What the first match of a search is: a match, or the end of the range.
LEMMA FirstOccurrence ==
    ASSUME NEW s \in Seq(Byte), NEW p, NEW q, NEW lo \in Nat, NEW hi \in Int,
           NEW none, NEW r, r = First(Occurs(s, p, q, lo, hi), none), r # none
    PROVE  r \in 1..Len(s) /\ lo <= r /\ r < hi /\ r + 1 <= Len(s)
<1>1. Occurs(s, p, q, lo, hi) # {}
  BY DEF First
<1>2. Occurs(s, p, q, lo, hi) \subseteq Nat
  BY DEF Occurs
<1>3. r \in Occurs(s, p, q, lo, hi)
  BY <1>1, <1>2, FirstIsMember
<1> QED BY <1>3 DEF Occurs

\* The boundaries a scan finds lie in the buffer, in this order.
LEMMA LocationsInBuffer ==
    ASSUME NEW s \in Seq(Byte), NEW loc, loc = FindAllPacketLocations(s)
    PROVE  /\ loc.p1_start \in 1..(Len(s) + 1)
           /\ loc.p1_end \in 1..(Len(s) + 1)
           /\ loc.HasPacketStart => loc.p1_start + 1 <= Len(s)
           /\ loc.HasPacketEnd => loc.p1_end + 1 <= Len(s)
           /\ loc.HasSecondPacketStart =>
                 loc.p2_start \in 1..Len(s) /\ loc.p2_start > loc.p1_start
<1> DEFINE eob == Len(s) + 1
           s1  == First(Occurs(s, "DLE", "STX", 1, Len(s)), eob)
           e1  == First(Occurs(s, "DLE", "ETX", s1 + 1, Len(s)), eob)
           s2  == First(Occurs(s, "DLE", "STX", s1 + 1, e1 - 1), e1)
<1>1. /\ s1 \in 1..eob
      /\ s1 # eob => s1 + 1 <= Len(s)
  <2>1. CASE s1 = eob
    BY <2>1
  <2>2. CASE s1 # eob
    <3> HIDE DEF eob
    <3>1. s1 \in 1..Len(s) /\ s1 + 1 <= Len(s)
      BY <2>2, FirstOccurrence
    <3> QED BY <2>2, <3>1 DEF eob
  <2> QED BY <2>1, <2>2
<1> HIDE DEF s1
<1>2. /\ e1 \in 1..eob
      /\ e1 # eob => e1 + 1 <= Len(s)
  <2>1. CASE e1 = eob
    BY <2>1
  <2>2. CASE e1 # eob
    <3>0. s1 + 1 \in Nat /\ Len(s) \in Int
      BY <1>1
    <3> HIDE DEF eob
    <3>1. e1 \in 1..Len(s) /\ e1 + 1 <= Len(s)
      BY <2>2, <3>0, FirstOccurrence
    <3> QED BY <2>2, <3>1 DEF eob
  <2> QED BY <2>1, <2>2
<1> HIDE DEF e1
<1>3. s2 # e1 => s2 \in 1..Len(s) /\ s2 > s1
  <2> SUFFICES ASSUME s2 # e1 PROVE s2 \in 1..Len(s) /\ s2 > s1
    OBVIOUS
  <2>1. s1 + 1 \in Nat /\ e1 - 1 \in Int
    BY <1>1, <1>2
  <2>2. s2 \in 1..Len(s) /\ s1 + 1 <= s2
    BY <2>1, FirstOccurrence
  <2> QED BY <1>1, <2>2
<1> HIDE DEF s2
<1> DEFINE h1 == s1 # eob
           h2 == e1 # eob
           h3 == s2 # e1
<1>4. loc = [p1_start |-> s1, p1_end |-> e1, p2_start |-> s2,
             HasPacketStart |-> h1, HasPacketEnd |-> h2,
             HasSecondPacketStart |-> h3]
  BY DEF FindAllPacketLocations, s1, e1, s2
<1> HIDE DEF eob, h1, h2, h3
<1>5. /\ loc.p1_start = s1 /\ loc.p1_end = e1 /\ loc.p2_start = s2
      /\ loc.HasPacketStart = h1 /\ loc.HasPacketEnd = h2
      /\ loc.HasSecondPacketStart = h3
  BY <1>4
<1> QED BY <1>1, <1>2, <1>3, <1>5 DEF eob, h1, h2, h3

\* What a generator may return for the buffer s: a known code and a buffer
\* that is no longer than s, and shorter if a message was built.
Conforms(s, r) ==
    /\ r.code \in Codes
    /\ r.buf \in Seq(Byte)
    /\ Len(r.buf) <= Len(s)
    /\ r.code = "Message" => Len(r.buf) < Len(s)

LEMMA JandyConforms ==
    ASSUME NEW s \in Seq(Byte) PROVE Conforms(s, JandyGenerate(s))
<1> DEFINE first == FindAllPacketLocations(s)
           b     == HasEndOfPacketWithinMaxDistance(s, first)
           loc   == FindAllPacketLocations(b)
           past  == loc.p1_end + 1
<1>1. b \in Seq(Byte) /\ Len(b) <= Len(s)
  <2> DEFINE n == IF first.HasPacketEnd THEN first.p1_end + 1 ELSE first.p1_end - 1
  <2>1. n \in 0..Len(s)
    BY LocationsInBuffer
  <2>2. b = s \/ b = DropFront(s, n)
    BY DEF HasEndOfPacketWithinMaxDistance
  <2> HIDE DEF b, n
  <2> QED BY <2>1, <2>2, DropFrontShrinks
<1> HIDE DEF b
<1>2. loc.HasPacketEnd => past \in 1..Len(b)
  BY <1>1, LocationsInBuffer
<1>3. loc.HasSecondPacketStart => loc.p2_start - 1 \in 0..Len(b)
  BY <1>1, LocationsInBuffer
<1> DEFINE ToSecond == DropFront(b, loc.p2_start - 1)
           Past     == DropFront(b, past)
<1>4. loc.HasPacketEnd => Past \in Seq(Byte) /\ Len(Past) < Len(s)
  <2> HIDE DEF loc, past
  <2> QED BY <1>1, <1>2, DropFrontShrinks
<1>5. loc.HasSecondPacketStart => ToSecond \in Seq(Byte) /\ Len(ToSecond) <= Len(s)
  <2> DEFINE n == loc.p2_start - 1
  <2>1. loc.HasSecondPacketStart => n \in 0..Len(b)
    BY <1>3
  <2> HIDE DEF loc, n
  <2>2. ASSUME n \in 0..Len(b)
        PROVE  DropFront(b, n) \in Seq(Byte) /\ Len(DropFront(b, n)) <= Len(s)
    BY <1>1, <2>2, DropFrontShrinks
  <2> QED BY <2>1, <2>2 DEF n
<1>6. \/ JandyGenerate(s) = Result("Waiting", s)
      \/ JandyGenerate(s) = Result("Waiting", << >>)
      \/ JandyGenerate(s) = Result("Waiting", b)
      \/ loc.HasSecondPacketStart /\ JandyGenerate(s) = Result("Overlapping", ToSecond)
      \/ /\ loc.HasPacketEnd
         /\ \E code \in {"ChecksumFailure", "DecodeFailure", "Message"} :
               JandyGenerate(s) = Result(code, Past)
  BY DEF JandyGenerate, b
<1> HIDE DEF ToSecond, Past, loc
<1>7. << >> \in Seq(Byte) /\ Len(<< >>) <= Len(s)
  OBVIOUS
<1>8. ASSUME NEW code \in Codes \ {"Message"}, NEW t \in Seq(Byte), Len(t) <= Len(s)
      PROVE  Conforms(s, Result(code, t))
  BY <1>8 DEF Conforms, Result
<1>9. ASSUME NEW code \in Codes, NEW t \in Seq(Byte), Len(t) < Len(s)
      PROVE  Conforms(s, Result(code, t))
  BY <1>9 DEF Conforms, Result
<1> QED
  <2>1. ASSUME NEW code \in {"ChecksumFailure", "DecodeFailure", "Message"}, loc.HasPacketEnd
        PROVE  Conforms(s, Result(code, Past))
    BY <1>4, <1>9, <2>1 DEF Codes
  <2>2. ASSUME loc.HasSecondPacketStart PROVE Conforms(s, Result("Overlapping", ToSecond))
    BY <1>5, <1>8, <2>2 DEF Codes
  <2>3. Conforms(s, Result("Waiting", s)) /\ Conforms(s, Result("Waiting", b))
    BY <1>1, <1>8 DEF Codes
  <2>4. Conforms(s, Result("Waiting", << >>))
    BY <1>7, <1>8 DEF Codes
  <2> QED BY <1>6, <2>1, <2>2, <2>3, <2>4

LEMMA PentairConforms ==
    ASSUME NEW s \in Seq(Byte) PROVE Conforms(s, PentairGenerate(s))
<1> DEFINE eob  == Len(s) + 1
           pre  == First(Occurs(s, "FF00", "FFA5", 1, Len(s)), eob)
           size == 3 + PentairDataLength(s[pre + 2])
<1>1. size \in Nat /\ size >= 3
  BY GeneratorConstants DEF PentairDataLength
<1>2. pre # eob => pre \in 1..Len(s)
  <2> HIDE DEF eob
  <2> QED BY FirstOccurrence
<1> HIDE DEF size, pre
<1>3. \/ PentairGenerate(s) = Result("Waiting", s)
      \/ PentairGenerate(s) = Result("DataAvailable", s)
      \/ /\ pre # eob /\ pre + 2 <= Len(s) /\ pre + size - 1 <= Len(s)
         /\ \/ PentairGenerate(s) = Result("ChecksumFailure", Erase(s, pre, 2))
            \/ PentairGenerate(s) = Result("DecodeFailure", Erase(s, pre, size))
            \/ PentairGenerate(s) = Result("Message", Erase(s, pre, size))
  <2> DEFINE data == SubSeq(s, pre + 3, pre + size - 1)
  <2>1. PentairGenerate(s) =
          IF pre = eob THEN Result("Waiting", s)
          ELSE IF pre + 2 > Len(s) THEN Result("DataAvailable", s)
          ELSE IF pre + size - 1 > Len(s) THEN Result("DataAvailable", s)
          ELSE IF data \notin {<<"a">>, <<"u">>}
               THEN Result("ChecksumFailure", Erase(s, pre, 2))
          ELSE IF data = <<"u">> THEN Result("DecodeFailure", Erase(s, pre, size))
          ELSE Result("Message", Erase(s, pre, size))
    BY DEF PentairGenerate, pre, size
  <2> HIDE DEF data
  <2>2. CASE pre = eob \/ pre + 2 > Len(s) \/ pre + size - 1 > Len(s)
    BY <2>1, <2>2
  <2>3. CASE ~(pre = eob \/ pre + 2 > Len(s) \/ pre + size - 1 > Len(s))
    <3>1. pre # eob /\ pre + 2 <= Len(s) /\ pre + size - 1 <= Len(s)
      BY <1>1, <1>2, <2>3
    <3> QED BY <2>1, <2>3, <3>1
  <2> QED BY <2>2, <2>3
<1>4. pre # eob /\ pre + 2 <= Len(s) /\ pre + size - 1 <= Len(s) =>
         /\ Erase(s, pre, 2) \in Seq(Byte) /\ Len(Erase(s, pre, 2)) = Len(s) - 2
         /\ Erase(s, pre, size) \in Seq(Byte) /\ Len(Erase(s, pre, size)) = Len(s) - size
  BY <1>1, <1>2, EraseShrinks
<1> QED BY <1>1, <1>3, <1>4 DEF Conforms, Result, Codes

LEMMA RegistryConforms ==
    ASSUME NEW s \in Seq(Byte) PROVE Conforms(s, GenerateMessage(s))
<1>1. GenerateMessage(s) = PentairGenerate(s) \/ GenerateMessage(s) = JandyGenerate(s)
  <2>1. PentairGenerate(s).code = "Waiting" => PentairGenerate(s).buf = s
    BY DEF PentairGenerate, Result
  <2> QED BY <2>1 DEF GenerateMessage, Result
<1> QED BY <1>1, PentairConforms, JandyConforms

(***************************************************************************)
(* The input side: types, and the bound on the buffer.                     *)
(***************************************************************************)
ReadInv == TypeOK /\ BufferBounded

LEMMA EnqueueWriteTypes ==
    ASSUME TypeOK, EnqueueWrite
    PROVE  /\ wq' \in Seq(Nat) /\ off' \in Nat /\ queued' \in Nat
           /\ sent' \in Nat \X Nat \X Nat
<1>1. queued + 1 \in Nat
  BY DEF TypeOK
<1> QED BY <1>1, AppendProperties DEF TypeOK, EnqueueWrite

LEMMA ReadInvStep == ReadInv /\ [Next]_vars => ReadInv'
<1> SUFFICES ASSUME ReadInv, [Next]_vars PROVE ReadInv'
  OBVIOUS
<1> USE TaskConstants DEF ReadInv
<1>0. TypeOK
  OBVIOUS
<1>1. CASE BusTransmits
  <2>1. bus' \in Seq(Byte)
    BY <1>1 DEF BusTransmits
  <2>2. frames' \in Nat /\ starts' \in Nat
    BY <1>0, <1>1 DEF BusTransmits, Count, TypeOK
  <2> QED BY <1>1, <2>1, <2>2 DEF BusTransmits, TypeOK, BufferBounded, tx
<1>2. CASE BytesArrive
  <2>1. PICK n \in 1..Len(bus) : wire' = wire \o SubSeq(bus, 1, n) /\ bus' = DropFront(bus, n)
    BY <1>2 DEF BytesArrive
  <2>2. bus \in Seq(Byte) /\ wire \in Seq(Byte)
    BY DEF TypeOK
  <2>3. SubSeq(bus, 1, n) \in Seq(Byte)
    <3>1. \A i \in 1..n : bus[i] \in Byte
      BY <2>2
    <3> QED BY <3>1, SubSeqProperties
  <2>4. wire' \in Seq(Byte)
    BY <2>1, <2>2, <2>3, ConcatProperties
  <2>5. bus' \in Seq(Byte)
    BY <2>1, <2>2, DropFrontShrinks
  <2> QED BY <1>2, <2>4, <2>5 DEF BytesArrive, TypeOK, BufferBounded, tx
<1>3. CASE CallbackEnqueues
  BY <1>0, <1>3, EnqueueWriteTypes DEF CallbackEnqueues, TypeOK, BufferBounded, rx
<1>4. CASE PollStarts
  BY <1>4 DEF PollStarts, TypeOK, BufferBounded, rx, tx
<1>5. ASSUME NEW n \in 1..(WriteSize - off), WriteSome(n) PROVE ReadInv'
  <2>1. wq # << >> /\ wq \in Seq(Nat) /\ off \in Nat /\ n \in Nat
    BY <1>5 DEF WriteSome, TypeOK
  <2>2. Tail(wq) \in Seq(Nat) /\ wq[1] \in Nat
    BY <2>1, HeadTailProperties
  <2>3. off + n \in Nat /\ off + 1 \in Nat
    BY <2>1
  <2>4. sent' \in Nat \X Nat \X Nat
    BY <1>5, <2>2, <2>3 DEF WriteSome
  <2>5. wq' \in Seq(Nat) /\ off' \in Nat
    <3>0. IF off + n >= WriteSize THEN wq' = Tail(wq) /\ off' = 0
                                  ELSE wq' = wq /\ off' = off + n
      BY <1>5 DEF WriteSome
    <3>1. CASE off + n >= WriteSize
      BY <2>2, <3>0, <3>1
    <3>2. CASE ~(off + n >= WriteSize)
      BY <2>1, <2>3, <3>0, <3>2
    <3> QED BY <3>1, <3>2
  <2> QED BY <1>5, <2>4, <2>5 DEF WriteSome, TypeOK, BufferBounded, rx
<1>6. CASE DrainWritesEnds
  BY <1>6 DEF DrainWritesEnds, AfterWrites, TypeOK, BufferBounded, rx, tx
<1>7. CASE ReadSome
  <2> DEFINE space == Capacity - Len(buf)
             take  == IF BytesRead <= space THEN BytesRead ELSE space
  <2>1. buf \in Seq(Byte) /\ wire \in Seq(Byte) /\ Len(buf) <= Capacity
    BY DEF TypeOK, BufferBounded
  <2>2. BytesRead \in 0..Len(wire)
    BY <2>1 DEF BytesRead
  <2>3. take \in 0..Len(wire) /\ take <= space
    BY <2>1, <2>2
  <2>4. SubSeq(wire, 1, take) \in Seq(Byte) /\ Len(SubSeq(wire, 1, take)) = take
    <3> HIDE DEF take
    <3>1. \A i \in 1..take : wire[i] \in Byte
      BY <2>1, <2>3
    <3> QED BY <2>3, <3>1, SubSeqProperties
  <2>5. buf' = buf \o SubSeq(wire, 1, take) /\ wire' = DropFront(wire, BytesRead)
    BY <1>7 DEF ReadSome
  <2>6. buf' \in Seq(Byte) /\ Len(buf') <= Capacity
    <3> HIDE DEF take
    <3> QED BY <2>1, <2>3, <2>4, <2>5, ConcatProperties
  <2>7. wire' \in Seq(Byte)
    BY <2>1, <2>2, <2>5, DropFrontShrinks
  <2> QED BY <1>7, <2>6, <2>7 DEF ReadSome, TypeOK, BufferBounded, tx
<1>8. CASE DrainReadsEnds
  BY <1>8 DEF DrainReadsEnds, TypeOK, BufferBounded, rx, tx
<1>9. CASE ProcessMessage
  <2>1. buf \in Seq(Byte)
    BY DEF TypeOK
  <2>2. Conforms(buf, GenerateMessage(buf))
    BY <2>1, RegistryConforms
  <2>3. buf' = GenerateMessage(buf).buf /\ last' = GenerateMessage(buf).code
    BY <1>9 DEF ProcessMessage
  <2>4. buf' \in Seq(Byte) /\ last' \in Codes /\ Len(buf') <= Capacity
    BY <2>1, <2>2, <2>3 DEF Conforms, TypeOK, BufferBounded
  <2>5. /\ wq' \in Seq(Nat) /\ off' \in Nat /\ queued' \in Nat
        /\ sent' \in Nat \X Nat \X Nat
    <3>1. EnqueueWrite \/ UNCHANGED tx
      BY <1>9 DEF ProcessMessage, HandleParsedMessage, HandleGenerationError, tx
    <3> QED BY <1>0, <3>1, EnqueueWriteTypes DEF TypeOK, tx
  <2>6. pc' \in {"parse", "reply"} /\ msgs' \in Nat
    BY <1>0, <1>9 DEF ProcessMessage, HandleParsedMessage, HandleGenerationError, Count, TypeOK
  <2> QED BY <1>9, <2>4, <2>5, <2>6 DEF ProcessMessage, TypeOK, BufferBounded
<1>10. CASE ProcessMessagesEnds
  BY <1>10 DEF ProcessMessagesEnds, TypeOK, BufferBounded, rx, tx
<1>11. CASE UNCHANGED vars
  BY <1>11 DEF vars, TypeOK, BufferBounded
<1> QED BY <1>1, <1>2, <1>3, <1>4, <1>5, <1>6, <1>7, <1>8, <1>9, <1>10, <1>11 DEF Next, Poll

\* The variables keep their types and the serial buffer its bound, whatever
\* arrives on the bus and however the port behaves.
THEOREM ReadSafe == Spec => [](TypeOK /\ BufferBounded)
<1>1. Init => ReadInv
  BY TaskConstants DEF Init, ReadInv, TypeOK, BufferBounded, Codes
<1>2. ReadInv => TypeOK /\ BufferBounded
  BY DEF ReadInv
<1> QED BY <1>1, <1>2, ReadInvStep, PTL DEF Spec

\* One Poll() never spins: a turn of the parse loop that is followed by
\* another has made the buffer shorter.
THEOREM PollTerminates == Spec => ParseTerminates
<1>1. TypeOK /\ [Next]_vars => [ProcessMessage /\ pc' = "parse" => Len(buf') < Len(buf)]_vars
  <2> SUFFICES ASSUME TypeOK, ProcessMessage, pc' = "parse"
               PROVE  Len(buf') < Len(buf)
    OBVIOUS
  <2>1. Conforms(buf, GenerateMessage(buf))
    BY RegistryConforms DEF TypeOK
  <2>2. buf' = GenerateMessage(buf).buf
    BY DEF ProcessMessage
  <2>3. HandleParsedMessage(GenerateMessage(buf)) \/ HandleGenerationError(GenerateMessage(buf))
    BY DEF ProcessMessage
  <2>4. CASE HandleParsedMessage(GenerateMessage(buf))
    BY <2>1, <2>2, <2>4 DEF HandleParsedMessage, Conforms
  <2>5. CASE HandleGenerationError(GenerateMessage(buf))
    BY <2>2, <2>5 DEF HandleGenerationError
  <2> QED BY <2>3, <2>4, <2>5
<1> QED BY <1>1, ReadSafe, PTL DEF Spec, ParseTerminates

(***************************************************************************)
(* The output side.  The queue is the rest of the stream: the inductive    *)
(* invariant adds to QueueIsTheUnsentRest where the last portion ended.    *)
(***************************************************************************)
WriteInv ==
    /\ TypeOK
    /\ QueueIsTheUnsentRest
    /\ sent[3] \in 1..WriteSize
    /\ sent[3] # WriteSize => sent[1] >= 1

Complete == IF sent[3] = WriteSize THEN sent[1] ELSE sent[1] - 1

LEMMA WriteInvStep == WriteInv /\ [Next]_vars => WriteInv' \/ ~TypeOK'
<1> SUFFICES ASSUME WriteInv, [Next]_vars, TypeOK' PROVE WriteInv'
  OBVIOUS
<1> USE TaskConstants
<1>a. /\ sent \in Nat \X Nat \X Nat /\ sent' \in Nat \X Nat \X Nat
      /\ wq \in Seq(Nat) /\ queued \in Nat /\ off \in Nat
  BY DEF WriteInv, TypeOK
<1>b. Complete \in Nat /\ sent[1] \in Nat /\ sent[3] \in Nat
  BY <1>a DEF WriteInv, Complete
<1>c. /\ Len(wq) = queued - Complete
      /\ \A i \in 1..Len(wq) : wq[i] = Complete + i
      /\ off = IF sent[3] = WriteSize THEN 0 ELSE sent[3]
  BY DEF WriteInv, QueueIsTheUnsentRest, Complete
<1>1. ASSUME UNCHANGED tx PROVE WriteInv'
  BY <1>1 DEF tx, WriteInv, QueueIsTheUnsentRest
<1>2. ASSUME EnqueueWrite PROVE WriteInv'
  <2>1. wq' = Append(wq, queued + 1) /\ queued' = queued + 1 /\ UNCHANGED <<off, sent>>
    BY <1>2 DEF EnqueueWrite
  <2>2. /\ Len(wq') = Len(wq) + 1
        /\ \A i \in 1..Len(wq) : wq'[i] = wq[i]
        /\ wq'[Len(wq) + 1] = queued + 1
    BY <1>a, <2>1, AppendProperties
  <2>3. /\ Len(wq') = queued' - Complete
        /\ \A i \in 1..Len(wq') : wq'[i] = Complete + i
    BY <1>a, <1>b, <1>c, <2>1, <2>2
  <2> QED BY <1>c, <2>1, <2>3 DEF WriteInv, QueueIsTheUnsentRest, Complete
<1>3. ASSUME NEW n \in 1..(WriteSize - off), WriteSome(n) PROVE WriteInv'
  <2>1. /\ wq # << >> /\ sent' = <<wq[1], off + 1, off + n>> /\ queued' = queued
        /\ IF off + n >= WriteSize THEN wq' = Tail(wq) /\ off' = 0
                                   ELSE wq' = wq /\ off' = off + n
    BY <1>3 DEF WriteSome
  <2>2. Len(wq) >= 1 /\ wq[1] = Complete + 1
    BY <1>a, <1>c, <2>1
  <2>3. sent'[1] = Complete + 1 /\ sent'[3] = off + n /\ n \in Nat /\ off + n <= WriteSize
    BY <1>a, <2>1, <2>2
  <2>4. CASE off + n = WriteSize
    <3>0. wq' = Tail(wq) /\ off' = 0
      BY <2>1, <2>4
    <3>1. /\ Len(wq') = Len(wq) - 1
          /\ \A i \in 1..Len(wq') : wq'[i] = wq[i + 1]
      BY <1>a, <2>1, <3>0, HeadTailProperties
    <3>2. /\ Len(wq') = queued' - (Complete + 1)
          /\ \A i \in 1..Len(wq') : wq'[i] = (Complete + 1) + i
      BY <1>a, <1>b, <1>c, <2>1, <3>1
    <3>3. sent'[3] = WriteSize /\ sent'[1] = Complete + 1
      BY <2>3, <2>4
    <3>4. sent'[3] \in 1..WriteSize
      BY <3>3
    <3>5. QueueIsTheUnsentRest'
      BY <3>0, <3>2, <3>3 DEF QueueIsTheUnsentRest
    <3> QED BY <3>3, <3>4, <3>5 DEF WriteInv
  <2>5. CASE off + n < WriteSize
    <3>1. wq' = wq /\ off' = off + n
      BY <1>a, <2>1, <2>3, <2>5
    <3>2. sent'[3] # WriteSize /\ sent'[1] - 1 = Complete /\ sent'[1] >= 1 /\ sent'[3] \in 1..WriteSize
      BY <1>a, <1>b, <2>3, <2>5
    <3> QED BY <1>c, <2>1, <2>3, <3>1, <3>2 DEF WriteInv, QueueIsTheUnsentRest
  <2> QED BY <1>a, <2>3, <2>4, <2>5
<1>4. CASE BusTransmits \/ BytesArrive \/ PollStarts \/ DrainWritesEnds \/ ReadSome
           \/ DrainReadsEnds \/ ProcessMessagesEnds
  BY <1>1, <1>4 DEF BusTransmits, BytesArrive, PollStarts, DrainWritesEnds, ReadSome,
                    DrainReadsEnds, ProcessMessagesEnds
<1>5. CASE CallbackEnqueues
  BY <1>2, <1>5 DEF CallbackEnqueues
<1>6. CASE ProcessMessage
  <2>1. EnqueueWrite \/ UNCHANGED tx
    BY <1>6 DEF ProcessMessage, HandleParsedMessage, HandleGenerationError, tx
  <2> QED BY <1>1, <1>2, <2>1
<1>7. CASE UNCHANGED vars
  BY <1>1, <1>7 DEF vars, tx
<1> QED BY <1>3, <1>4, <1>5, <1>6, <1>7 DEF Next, Poll

LEMMA WriteInvAlways == Spec => []WriteInv
<1>1. Init => WriteInv
  <2> SUFFICES ASSUME Init PROVE WriteInv
    OBVIOUS
  <2>1. TypeOK
    BY TaskConstants DEF Init, TypeOK, Codes
  <2> QED BY <2>1, TaskConstants DEF Init, WriteInv, QueueIsTheUnsentRest
<1> QED BY <1>1, WriteInvStep, ReadSafe, PTL DEF Spec

\* No queued reply is lost: the queue holds exactly the buffers after the last
\* one completed, and the offset is where its front one was interrupted.
THEOREM QueueKeepsTheRest == Spec => []QueueIsTheUnsentRest
<1>1. WriteInv => QueueIsTheUnsentRest
  BY DEF WriteInv
<1> QED BY <1>1, WriteInvAlways, PTL

\* The output stream is the queued buffers, in order, every byte once.
THEOREM OutputInOrder == Spec => WritesInOrder
<1> DEFINE Continues ==
        sent' # sent =>
          \/ sent'[1] = sent[1] /\ sent'[2] = sent[3] + 1
          \/ sent[3] = WriteSize /\ sent'[1] = sent[1] + 1 /\ sent'[2] = 1
<1>1. WriteInv /\ [Next]_vars => [Continues]_vars
  <2> SUFFICES ASSUME WriteInv, [Next]_vars, sent' # sent
               PROVE  \/ sent'[1] = sent[1] /\ sent'[2] = sent[3] + 1
                      \/ sent[3] = WriteSize /\ sent'[1] = sent[1] + 1 /\ sent'[2] = 1
    OBVIOUS
  <2>1. \E n \in 1..(WriteSize - off) : WriteSome(n)
    BY DEF Next, Poll, BusTransmits, BytesArrive, CallbackEnqueues, EnqueueWrite, PollStarts,
           DrainWritesEnds, ReadSome, DrainReadsEnds, ProcessMessage, HandleParsedMessage,
           HandleGenerationError, ProcessMessagesEnds, tx, vars
  <2>2. sent'[1] = wq[1] /\ sent'[2] = off + 1 /\ wq # << >>
    BY <2>1 DEF WriteSome
  <2>3. wq[1] = (IF sent[3] = WriteSize THEN sent[1] ELSE sent[1] - 1) + 1
    <3>1. wq \in Seq(Nat) /\ 1 \in DOMAIN wq
      BY <2>2 DEF WriteInv, TypeOK
    <3> QED BY <3>1 DEF WriteInv, QueueIsTheUnsentRest
  <2>4. off = IF sent[3] = WriteSize THEN 0 ELSE sent[3]
    BY DEF WriteInv, QueueIsTheUnsentRest
  <2> QED BY <2>2, <2>3, <2>4, TaskConstants DEF WriteInv, TypeOK
<1> QED BY <1>1, WriteInvAlways, PTL DEF Spec, WritesInOrder

\* StreamsIntact: whatever arrives and however the port behaves, the input
\* buffer keeps its bound and the write queue is the rest of the output.
THEOREM StreamsStayIntact == Spec => []StreamsIntact
<1>1. TypeOK /\ BufferBounded /\ QueueIsTheUnsentRest => StreamsIntact
  BY DEF StreamsIntact
<1> QED BY <1>1, ReadSafe, QueueKeepsTheRest, PTL

\* PollIsSound: a Poll() comes to its end and writes in order.
THEOREM PollsAreSound == Spec => PollIsSound
BY PollTerminates, OutputInOrder DEF PollIsSound

-----------------------------------------------------------------------------
(***************************************************************************)
(* The data hub, for all bodies, temperatures and heaters.                 *)
(***************************************************************************)

(* The partial functions from D to V.                                      *)
Maps(D, V) == UNION {[B -> V] : B \in SUBSET D}

LEMMA MapFacts ==
  ASSUME NEW D, NEW V
  PROVE  /\ \A f \in Maps(D, V) : DOMAIN f \subseteq D /\ f \in [DOMAIN f -> V]
         /\ \A B \in SUBSET D : [B -> V] \subseteq Maps(D, V)
BY DEF Maps

Temperatures == Degrees \cup {NoTemp}
Listed == Pumps \cup Heaters
States == {"Unknown", "Running", "Off", "Heating"}
BodyValues == [active : BOOLEAN, temp : Temperatures, setpoint : Temperatures]
Devices == [label : {"Filter Pump"} \cup Heaters, role : {"none", "filter", "heater"}, status : States]
Events == [readings : [Readings -> Temperatures], mode : Modes, active : Maps(Body, BOOLEAN), buttons : Maps(Listed, States)]

(* The hub of a state as one record.                                       *)
Hubs == [readings : [Readings -> Temperatures], bodies : Maps(Body, BodyValues),
         conf : [config : Configs, source : {"Auto", "UserSpecified"}], mode : Modes,
         equipment : Maps(Listed, Devices), last : Maps(Listed, States), told : Events]

(* One body is active, of two the one the mode names.                      *)
OneActive(h) ==
  DOMAIN h.bodies # {} =>
    /\ \E b \in DOMAIN h.bodies : \A x \in DOMAIN h.bodies : h.bodies[x].active <=> x = b
    /\ DOMAIN h.bodies = Body => h.bodies["spa"].active = SpaActive(h.mode)

Shown(h) ==
  \A b \in DOMAIN h.bodies :
    /\ h.bodies[b].temp \in {NoTemp, h.readings[b]}
    /\ h.bodies[b].setpoint \in {NoTemp, h.readings[IF b = "pool" THEN "poolSet" ELSE "spaSet"]}

Circulated(h) ==
  /\ h.told.mode = h.mode
  /\ DOMAIN h.told.active # {} => h.told.active = [b \in DOMAIN h.bodies |-> h.bodies[b].active]

(* What was announced of a device is what the hub holds of it.             *)
Announced(h) ==
  /\ h.last = h.told.buttons
  /\ DOMAIN h.last \subseteq DOMAIN h.equipment
  /\ \A d \in DOMAIN h.last : h.last[d] = h.equipment[d].status

(* Every pump bears the name of the filter pump, so that there is one.     *)
OnePump(h) ==
  /\ \A p, q \in DOMAIN h.equipment \cap Pumps : p = q
  /\ \A p \in DOMAIN h.equipment \cap Pumps :
       h.equipment[p].label = "Filter Pump" /\ h.equipment[p].role \in {"none", "filter"}

HubGood(h) ==
  /\ h \in Hubs
  /\ h.told.readings = h.readings
  /\ Shown(h) /\ OneActive(h) /\ Circulated(h) /\ Announced(h) /\ OnePump(h)

HubInv == HubGood(Hub) /\ framesLeft \in 0 .. MaxHubFrames

-----------------------------------------------------------------------------
LEMMA BodiesOf ==
  ASSUME NEW h \in Hubs
  PROVE  /\ DOMAIN h.bodies \subseteq Body /\ h.bodies \in [DOMAIN h.bodies -> BodyValues]
         /\ h.told \in Events /\ h.readings \in [Readings -> Temperatures]
         /\ DOMAIN h.equipment \subseteq Listed /\ h.equipment \in [DOMAIN h.equipment -> Devices]
         /\ DOMAIN h.last \subseteq Listed /\ h.last \in [DOMAIN h.last -> States]
BY MapFacts DEF Hubs

(* A reading that is set is told.                                          *)
LEMMA SetTells ==
  ASSUME NEW h \in Hubs, h.told.readings = h.readings, NEW f \in Readings, NEW v \in Degrees
  PROVE  LET g == Set(h, f, v) IN
         /\ g \in Hubs
         /\ g.readings = [h.readings EXCEPT ![f] = v] /\ g.told.readings = g.readings
         /\ g.bodies = h.bodies /\ g.conf = h.conf /\ g.mode = h.mode /\ g.equipment = h.equipment
         /\ g.last = h.last
         /\ g.told.mode = h.told.mode /\ g.told.active = h.told.active /\ g.told.buttons = h.told.buttons
<1> DEFINE w == [h EXCEPT !.readings[f] = v]
           e == [w EXCEPT !.told.readings[f] = v]
<1>1. h.readings \in [Readings -> Temperatures] /\ h.told \in Events /\ v \in Temperatures
  BY BodiesOf DEF Temperatures
<1>2. w \in Hubs /\ w = [h EXCEPT !.readings = [h.readings EXCEPT ![f] = v]]
  <2>1. [h.readings EXCEPT ![f] = v] \in [Readings -> Temperatures]
    BY <1>1
  <2> QED BY <2>1 DEF Hubs
<1>3. e \in Hubs /\ e = [w EXCEPT !.told = [w.told EXCEPT !.readings = [w.told.readings EXCEPT ![f] = v]]]
  <2>1. w.told = h.told /\ w.told \in Events
    BY <1>1, <1>2 DEF Hubs
  <2>2. [w.told.readings EXCEPT ![f] = v] \in [Readings -> Temperatures]
    BY <1>1, <2>1 DEF Events
  <2>3. [w.told EXCEPT !.readings = [w.told.readings EXCEPT ![f] = v]] \in Events
    BY <2>1, <2>2 DEF Events
  <2> QED BY <1>2, <2>3 DEF Hubs
<1>4. Set(h, f, v) = IF TemperatureChanged(h.readings[f], v) THEN e ELSE w
  BY DEF Set, EmitReading
<1>5. ~TemperatureChanged(h.readings[f], v) => h.readings = [h.readings EXCEPT ![f] = v]
  BY <1>1 DEF TemperatureChanged
<1>6. /\ w.readings = [h.readings EXCEPT ![f] = v]
      /\ w.bodies = h.bodies /\ w.conf = h.conf /\ w.mode = h.mode /\ w.equipment = h.equipment
      /\ w.last = h.last /\ w.told = h.told
  BY DEF Hubs
<1> HIDE DEF w
<1>7. /\ e.readings = w.readings
      /\ e.bodies = w.bodies /\ e.conf = w.conf /\ e.mode = w.mode /\ e.equipment = w.equipment
      /\ e.last = w.last
      /\ e.told = [w.told EXCEPT !.readings = [w.told.readings EXCEPT ![f] = v]]
  BY <1>2, <1>3 DEF Hubs
<1>8. /\ e.told.readings = [w.told.readings EXCEPT ![f] = v]
      /\ e.told.mode = w.told.mode /\ e.told.active = w.told.active /\ e.told.buttons = w.told.buttons
  BY <1>1, <1>6, <1>7 DEF Events
<1> HIDE DEF e
<1> QED BY <1>2, <1>3, <1>4, <1>5, <1>6, <1>7, <1>8

(* A value of one body is set with the reading it repeats.                 *)
LEMMA ReadingGood ==
  ASSUME NEW h, HubGood(h), NEW f \in Readings, NEW v \in Degrees, NEW g \in Hubs,
         g.readings = [h.readings EXCEPT ![f] = v], g.told.readings = g.readings,
         g.conf = h.conf, g.mode = h.mode, g.equipment = h.equipment, g.last = h.last,
         g.told.mode = h.told.mode, g.told.active = h.told.active, g.told.buttons = h.told.buttons,
         DOMAIN g.bodies = DOMAIN h.bodies,
         \A b \in DOMAIN h.bodies :
            /\ g.bodies[b].active = h.bodies[b].active
            /\ IF b = f THEN g.bodies[b].temp = v ELSE g.bodies[b].temp = h.bodies[b].temp
            /\ IF f = (IF b = "pool" THEN "poolSet" ELSE "spaSet")
               THEN g.bodies[b].setpoint = v ELSE g.bodies[b].setpoint = h.bodies[b].setpoint
  PROVE  HubGood(g)
<1>1. h \in Hubs /\ DOMAIN h.bodies \subseteq Body /\ h.readings \in [Readings -> Temperatures]
  BY BodiesOf DEF HubGood
<1>2. Shown(g)
  <2> SUFFICES ASSUME NEW b \in DOMAIN h.bodies
               PROVE  /\ g.bodies[b].temp \in {NoTemp, g.readings[b]}
                      /\ g.bodies[b].setpoint \in {NoTemp, g.readings[IF b = "pool" THEN "poolSet" ELSE "spaSet"]}
    BY DEF Shown
  <2>1. /\ h.bodies[b].temp \in {NoTemp, h.readings[b]}
        /\ h.bodies[b].setpoint \in {NoTemp, h.readings[IF b = "pool" THEN "poolSet" ELSE "spaSet"]}
    BY DEF HubGood, Shown
  <2>2. b \in Readings /\ (IF b = "pool" THEN "poolSet" ELSE "spaSet") \in Readings
    BY <1>1 DEF Body, Readings
  <2>3. g.bodies[b].temp \in {NoTemp, g.readings[b]}
    BY <1>1, <2>1, <2>2
  <2>4. g.bodies[b].setpoint \in {NoTemp, g.readings[IF b = "pool" THEN "poolSet" ELSE "spaSet"]}
    BY <1>1, <2>1, <2>2
  <2> QED BY <2>3, <2>4
<1>3. OneActive(g)
  <2>1. OneActive(h)
    BY DEF HubGood
  <2>2. DOMAIN h.bodies = Body => g.bodies["spa"].active = h.bodies["spa"].active
    BY DEF Body
  <2> QED BY <2>1, <2>2 DEF OneActive
<1>4. Circulated(g)
  BY DEF HubGood, Circulated
<1>5. Announced(g) /\ OnePump(g)
  BY DEF HubGood, Announced, OnePump
<1> QED BY <1>2, <1>3, <1>4, <1>5 DEF HubGood

LEMMA Good ==
  ASSUME NEW h, HubGood(h)
  PROVE  h \in Hubs /\ h.told.readings = h.readings
BY DEF HubGood

(* A setter that leaves the bodies alone leaves what is said of them alone. *)
LEMMA SameBodies ==
  ASSUME NEW h, HubGood(h), NEW g, g.bodies = h.bodies, g.readings = h.readings, g.mode = h.mode,
         g.told.mode = h.told.mode, g.told.active = h.told.active
  PROVE  Shown(g) /\ OneActive(g) /\ Circulated(g)
<1>0. Shown(h) /\ OneActive(h) /\ Circulated(h)
  BY DEF HubGood
<1>1. Shown(g)
  BY <1>0 DEF Shown
<1>2. OneActive(g)
  BY <1>0 DEF OneActive
<1>3. Circulated(g)
  BY <1>0 DEF Circulated
<1> QED BY <1>1, <1>2, <1>3

LEMMA PlainGood ==
  ASSUME NEW h, HubGood(h), NEW f \in Readings \ {"pool", "spa", "poolSet", "spaSet"}, NEW v \in Degrees
  PROVE  HubGood(Set(h, f, v))
<1> DEFINE g == Set(h, f, v)
<1>1. /\ g \in Hubs
      /\ g.readings = [h.readings EXCEPT ![f] = v] /\ g.told.readings = g.readings
      /\ g.bodies = h.bodies /\ g.conf = h.conf /\ g.mode = h.mode /\ g.equipment = h.equipment
      /\ g.last = h.last
      /\ g.told.mode = h.told.mode /\ g.told.active = h.told.active /\ g.told.buttons = h.told.buttons
  BY Good, SetTells
<1>2. DOMAIN h.bodies \subseteq Body
  BY Good, BodiesOf
<1> HIDE DEF g
<1>3. \A b \in DOMAIN h.bodies : b # f /\ f # (IF b = "pool" THEN "poolSet" ELSE "spaSet")
  BY <1>2 DEF Body
<1>4. HubGood(g)
  BY <1>1, <1>3, ReadingGood
<1> QED BY <1>4 DEF g

(* g is h with other bodies.                                               *)
WithBodies(g, h, B) ==
  /\ g \in Hubs /\ g.bodies = B
  /\ g.readings = h.readings /\ g.conf = h.conf /\ g.mode = h.mode
  /\ g.equipment = h.equipment /\ g.last = h.last /\ g.told = h.told

(* A body's own copy is written.                                           *)
LEMMA BodyWritten ==
  ASSUME NEW h \in Hubs, NEW b \in DOMAIN h.bodies, NEW t \in Degrees
  PROVE  /\ WithBodies([h EXCEPT !.bodies[b].temp = t], h, [h.bodies EXCEPT ![b] = [h.bodies[b] EXCEPT !.temp = t]])
         /\ WithBodies([h EXCEPT !.bodies[b].setpoint = t], h, [h.bodies EXCEPT ![b] = [h.bodies[b] EXCEPT !.setpoint = t]])
<1>1. DOMAIN h.bodies \in SUBSET Body /\ h.bodies \in [DOMAIN h.bodies -> BodyValues] /\ t \in Temperatures
  BY BodiesOf DEF Temperatures
<1> DEFINE B1 == [h.bodies EXCEPT ![b] = [h.bodies[b] EXCEPT !.temp = t]]
           B2 == [h.bodies EXCEPT ![b] = [h.bodies[b] EXCEPT !.setpoint = t]]
<1>2. B1 \in [DOMAIN h.bodies -> BodyValues] /\ B2 \in [DOMAIN h.bodies -> BodyValues]
  <2>1. h.bodies[b] \in BodyValues
    BY <1>1
  <2>2. [h.bodies[b] EXCEPT !.temp = t] \in BodyValues /\ [h.bodies[b] EXCEPT !.setpoint = t] \in BodyValues
    BY <1>1, <2>1 DEF BodyValues
  <2> QED BY <1>1, <2>2
<1>3. B1 \in Maps(Body, BodyValues) /\ B2 \in Maps(Body, BodyValues)
  <2>1. [DOMAIN h.bodies -> BodyValues] \subseteq Maps(Body, BodyValues)
    BY <1>1, MapFacts
  <2> QED BY <1>2, <2>1
<1>4. [h EXCEPT !.bodies[b].temp = t] = [h EXCEPT !.bodies = B1] /\ [h EXCEPT !.bodies[b].setpoint = t] = [h EXCEPT !.bodies = B2]
  OBVIOUS
<1> HIDE DEF B1, B2
<1>5. [h EXCEPT !.bodies = B1] \in Hubs /\ [h EXCEPT !.bodies = B2] \in Hubs
  BY <1>3 DEF Hubs
<1>6. [h EXCEPT !.bodies = B1].bodies = B1 /\ [h EXCEPT !.bodies = B2].bodies = B2
  BY DEF Hubs
<1> QED BY <1>4, <1>5, <1>6 DEF Hubs, WithBodies, B1, B2

(* The setters of the four readings that a body repeats: w is the hub with *)
(* the body's copy written.                                                *)
LEMMA RepeatedGood ==
  ASSUME NEW h, HubGood(h), NEW b \in Body, NEW f \in {b, IF b = "pool" THEN "poolSet" ELSE "spaSet"}, NEW v \in Degrees
  PROVE  HubGood(Set(IF b \notin DOMAIN h.bodies THEN h
                     ELSE IF f = b THEN [h EXCEPT !.bodies[b].temp = v] ELSE [h EXCEPT !.bodies[b].setpoint = v], f, v))
<1> DEFINE w == IF b \notin DOMAIN h.bodies THEN h
                ELSE IF f = b THEN [h EXCEPT !.bodies[b].temp = v] ELSE [h EXCEPT !.bodies[b].setpoint = v]
           g == Set(w, f, v)
<1>0. h \in Hubs /\ h.told.readings = h.readings /\ f \in Readings
  BY Good DEF Body, Readings
<1> DEFINE B == IF b \notin DOMAIN h.bodies THEN h.bodies
                ELSE IF f = b THEN [h.bodies EXCEPT ![b] = [h.bodies[b] EXCEPT !.temp = v]]
                              ELSE [h.bodies EXCEPT ![b] = [h.bodies[b] EXCEPT !.setpoint = v]]
<1>1a. WithBodies(w, h, B)
  <2>1. CASE b \notin DOMAIN h.bodies
    BY <1>0, <2>1 DEF WithBodies
  <2>2. CASE b \in DOMAIN h.bodies
    <3>1. /\ WithBodies([h EXCEPT !.bodies[b].temp = v], h, [h.bodies EXCEPT ![b] = [h.bodies[b] EXCEPT !.temp = v]])
          /\ WithBodies([h EXCEPT !.bodies[b].setpoint = v], h, [h.bodies EXCEPT ![b] = [h.bodies[b] EXCEPT !.setpoint = v]])
      BY <1>0, <2>2, BodyWritten
    <3> QED BY <2>2, <3>1
  <2> QED BY <2>1, <2>2
<1>1. /\ w \in Hubs /\ w.bodies = B
      /\ w.readings = h.readings /\ w.conf = h.conf /\ w.mode = h.mode
      /\ w.equipment = h.equipment /\ w.last = h.last /\ w.told = h.told
  BY <1>1a DEF WithBodies
<1> HIDE DEF w
<1>2. /\ g \in Hubs
      /\ g.readings = [w.readings EXCEPT ![f] = v] /\ g.told.readings = g.readings
      /\ g.bodies = w.bodies /\ g.conf = w.conf /\ g.mode = w.mode /\ g.equipment = w.equipment
      /\ g.last = w.last
      /\ g.told.mode = w.told.mode /\ g.told.active = w.told.active /\ g.told.buttons = w.told.buttons
  BY <1>0, <1>1, SetTells
<1> HIDE DEF g
<1>3. DOMAIN h.bodies \subseteq Body /\ h.bodies \in [DOMAIN h.bodies -> BodyValues]
  BY <1>0, BodiesOf
<1>4. DOMAIN g.bodies = DOMAIN h.bodies
  BY <1>1, <1>2, <1>3
<1>5. ASSUME NEW x \in DOMAIN h.bodies
      PROVE  /\ g.bodies[x].active = h.bodies[x].active
             /\ IF x = f THEN g.bodies[x].temp = v ELSE g.bodies[x].temp = h.bodies[x].temp
             /\ IF f = (IF x = "pool" THEN "poolSet" ELSE "spaSet")
                THEN g.bodies[x].setpoint = v ELSE g.bodies[x].setpoint = h.bodies[x].setpoint
  <2>1. h.bodies[x] \in BodyValues /\ x \in Body
    BY <1>3
  <2>2. CASE x # b
    <3>1. g.bodies[x] = h.bodies[x]
      BY <1>1, <1>2, <1>3, <2>2
    <3>2. x # f /\ f # (IF x = "pool" THEN "poolSet" ELSE "spaSet")
      BY <2>1, <2>2 DEF Body
    <3> QED BY <3>1, <3>2
  <2>3. CASE x = b /\ f = b
    <3>1. g.bodies[x] = [h.bodies[x] EXCEPT !.temp = v]
      BY <1>1, <1>2, <1>3, <2>3
    <3>2. x = f /\ f # (IF x = "pool" THEN "poolSet" ELSE "spaSet")
      BY <2>3 DEF Body
    <3> QED BY <2>1, <3>1, <3>2 DEF BodyValues
  <2>4. CASE x = b /\ f # b
    <3>1. g.bodies[x] = [h.bodies[x] EXCEPT !.setpoint = v]
      BY <1>1, <1>2, <1>3, <2>4
    <3>2. x # f /\ f = (IF x = "pool" THEN "poolSet" ELSE "spaSet")
      BY <2>4
    <3> QED BY <2>1, <3>1, <3>2 DEF BodyValues
  <2> QED BY <2>2, <2>3, <2>4
<1>6. HubGood(g)
  <2>1. /\ g.readings = [h.readings EXCEPT ![f] = v] /\ g.conf = h.conf /\ g.mode = h.mode
        /\ g.equipment = h.equipment /\ g.last = h.last
        /\ g.told.mode = h.told.mode /\ g.told.active = h.told.active /\ g.told.buttons = h.told.buttons
    BY <1>1, <1>2
  <2> QED BY <1>0, <1>2, <1>4, <1>5, <2>1, ReadingGood
<1> QED BY <1>6 DEF g, w

LEMMA PoolTempGood ==
  ASSUME NEW h, HubGood(h), NEW v \in Degrees
  PROVE  HubGood(PoolTemp(h, v)) /\ HubGood(SpaTemp(h, v))
<1> DEFINE G(b) == HubGood(Set(IF b \notin DOMAIN h.bodies THEN h
                     ELSE IF b = b THEN [h EXCEPT !.bodies[b].temp = v] ELSE [h EXCEPT !.bodies[b].setpoint = v], b, v))
<1>1. \A b \in Body : G(b)
  BY RepeatedGood
<1>2. "pool" \in Body /\ "spa" \in Body
  BY DEF Body
<1>3. G("pool") /\ G("spa")
  BY <1>1, <1>2
<1> QED BY <1>3 DEF PoolTemp, SpaTemp, SetPoolTempBody, GetBody

LEMMA SetpointGood ==
  ASSUME NEW h, HubGood(h), NEW v \in Degrees
  PROVE  HubGood(PoolTempSetpoint(h, v)) /\ HubGood(SpaTempSetpoint(h, v))
<1>1. "pool" \in Body /\ "spa" \in Body /\ "poolSet" # "pool" /\ "spaSet" # "spa" /\ "spa" # "pool"
  BY DEF Body
<1>2. HubGood(Set(IF "pool" \notin DOMAIN h.bodies THEN h
                  ELSE IF "poolSet" = "pool" THEN [h EXCEPT !.bodies["pool"].temp = v]
                       ELSE [h EXCEPT !.bodies["pool"].setpoint = v], "poolSet", v))
  BY <1>1, RepeatedGood
<1>3. HubGood(Set(IF "spa" \notin DOMAIN h.bodies THEN h
                  ELSE IF "spaSet" = "spa" THEN [h EXCEPT !.bodies["spa"].temp = v]
                       ELSE [h EXCEPT !.bodies["spa"].setpoint = v], "spaSet", v))
  BY <1>1, RepeatedGood
<1> QED BY <1>1, <1>2, <1>3 DEF PoolTempSetpoint, SpaTempSetpoint, GetBody

LEMMA ValueGood ==
  ASSUME NEW h, HubGood(h), NEW f \in Readings, NEW v \in Degrees
  PROVE  HubGood(SetValue(h, f, v))
<1>1. CASE f \in {"air", "poolSet2", "heater2", "orp", "ph"}
  <2>1. HubGood(Set(h, f, v))
    BY <1>1, PlainGood
  <2>2. SetValue(h, f, v) = Set(h, f, v)
    BY <1>1 DEF SetValue, AirTemp, PoolTempSetpoint2, PoolHeater2Enabled, ORP, PH
  <2> QED BY <2>1, <2>2
<1>2. CASE f \in {"pool", "spa"}
  BY <1>2, PoolTempGood DEF SetValue
<1>3. CASE f \in {"poolSet", "spaSet"}
  BY <1>3, SetpointGood DEF SetValue
<1> QED BY <1>1, <1>2, <1>3 DEF Readings

-----------------------------------------------------------------------------
(* Bodies of water and the circulation mode.                               *)
LEMMA ActivateFacts ==
  ASSUME NEW h \in Hubs, NEW mode \in Modes
  PROVE  /\ Activate(h, mode) \in Maps(Body, BodyValues)
         /\ DOMAIN Activate(h, mode) = DOMAIN h.bodies
         /\ DOMAIN h.bodies # Body => Activate(h, mode) = h.bodies
         /\ \A b \in DOMAIN h.bodies :
               /\ Activate(h, mode)[b].temp = h.bodies[b].temp
               /\ Activate(h, mode)[b].setpoint = h.bodies[b].setpoint
               /\ DOMAIN h.bodies = Body => Activate(h, mode)[b].active = ((b = "spa") = SpaActive(mode))
<1> DEFINE B == Activate(h, mode)
<1>1. DOMAIN h.bodies \subseteq Body /\ h.bodies \in [DOMAIN h.bodies -> BodyValues]
  BY BodiesOf
<1>2. CASE DOMAIN h.bodies # Body
  BY <1>2 DEF Activate, Hubs
<1>3. CASE DOMAIN h.bodies = Body
  <2>1. B = [b \in Body |-> [h.bodies[b] EXCEPT !.active = ((b = "spa") = SpaActive(mode))]]
    BY <1>3 DEF Activate
  <2>2. ASSUME NEW b \in Body
        PROVE  /\ B[b] \in BodyValues
               /\ B[b].temp = h.bodies[b].temp /\ B[b].setpoint = h.bodies[b].setpoint
               /\ B[b].active = ((b = "spa") = SpaActive(mode))
    <3>1. h.bodies[b] \in BodyValues
      BY <1>1, <1>3
    <3>2. B[b] = [h.bodies[b] EXCEPT !.active = ((b = "spa") = SpaActive(mode))]
      BY <2>1
    <3> HIDE DEF B
    <3>3. ((b = "spa") = SpaActive(mode)) \in BOOLEAN
      OBVIOUS
    <3> QED BY <3>1, <3>2, <3>3 DEF BodyValues
  <2>3. DOMAIN B = Body
    BY <2>1
  <2>4. B \in [Body -> BodyValues]
    <3> HIDE DEF B
    <3>1. B = [b \in Body |-> B[b]]
      BY <2>1
    <3> QED BY <3>1, <2>2
  <2>5. B \in Maps(Body, BodyValues)
    BY <2>4, MapFacts
  <2> QED BY <1>3, <2>2, <2>3, <2>5
<1> QED BY <1>2, <1>3

LEMMA ModeGood ==
  ASSUME NEW h, HubGood(h), NEW mode \in Modes
  PROVE  HubGood(SetCirculationMode(h, mode))
<1> DEFINE B == Activate(h, mode)
           n == [h EXCEPT !.mode = mode, !.bodies = B]
           A == [b \in DOMAIN n.bodies |-> n.bodies[b].active]
           g == EmitCirculationEvent(n)
<1>0. h \in Hubs /\ h.told.readings = h.readings /\ h.told \in Events
  BY Good, BodiesOf
<1>1. /\ B \in Maps(Body, BodyValues) /\ DOMAIN B = DOMAIN h.bodies
      /\ DOMAIN h.bodies # Body => B = h.bodies
      /\ \A b \in DOMAIN h.bodies :
            /\ B[b].temp = h.bodies[b].temp /\ B[b].setpoint = h.bodies[b].setpoint
            /\ DOMAIN h.bodies = Body => B[b].active = ((b = "spa") = SpaActive(mode))
  BY <1>0, ActivateFacts
<1> HIDE DEF B
<1>2. /\ n \in Hubs /\ n.mode = mode /\ n.bodies = B /\ n.readings = h.readings
      /\ n.equipment = h.equipment /\ n.last = h.last /\ n.told = h.told /\ n.conf = h.conf
  BY <1>0, <1>1 DEF Hubs
<1>3. SetCirculationMode(h, mode) = IF n = h THEN h ELSE g
  BY DEF SetCirculationMode, B
<1>4. g = [n EXCEPT !.told = [n.told EXCEPT !.mode = n.mode, !.active = A]]
  BY <1>2 DEF EmitCirculationEvent, Hubs
<1> HIDE DEF n, g
<1>5. A \in Maps(Body, BOOLEAN)
  <2>1. DOMAIN n.bodies \in SUBSET Body /\ n.bodies \in [DOMAIN n.bodies -> BodyValues]
    BY <1>2, BodiesOf
  <2>2. \A b \in DOMAIN n.bodies : n.bodies[b].active \in BOOLEAN
    BY <2>1 DEF BodyValues
  <2>3. A \in [DOMAIN n.bodies -> BOOLEAN]
    BY <2>2
  <2> HIDE DEF A
  <2> QED BY <2>1, <2>3, MapFacts
<1> HIDE DEF A
<1>6. [n.told EXCEPT !.mode = n.mode, !.active = A] \in Events
  BY <1>0, <1>2, <1>5 DEF Events
<1>7. /\ g \in Hubs /\ g.mode = mode /\ g.bodies = B /\ g.readings = h.readings
      /\ g.equipment = h.equipment /\ g.last = h.last /\ g.conf = h.conf
      /\ g.told = [n.told EXCEPT !.mode = n.mode, !.active = A]
  BY <1>2, <1>4, <1>6 DEF Hubs
<1>8. /\ g.told.mode = mode /\ g.told.active = A /\ g.told.readings = h.readings
      /\ g.told.buttons = h.told.buttons
  BY <1>0, <1>2, <1>7 DEF Events
<1>9. Shown(g)
  BY <1>1, <1>7 DEF HubGood, Shown
<1>10. OneActive(g)
  <2>1. CASE DOMAIN h.bodies = Body
    <3>1. B["spa"].active = SpaActive(mode) /\ B["pool"].active = ~SpaActive(mode)
      <4>1. "spa" \in Body /\ "pool" \in Body /\ "pool" # "spa"
        BY DEF Body
      <4>2. B["spa"].active = (("spa" = "spa") = SpaActive(mode)) /\ B["pool"].active = (("pool" = "spa") = SpaActive(mode))
        BY <1>1, <2>1, <4>1
      <4>3. SpaActive(mode) \in BOOLEAN
        BY DEF SpaActive
      <4> QED BY <4>1, <4>2, <4>3
    <3>2. \E b \in Body : \A x \in Body : B[x].active <=> x = b
      <4>1. CASE SpaActive(mode)
        <5>1. "spa" \in Body /\ \A x \in Body : B[x].active <=> x = "spa"
          BY <3>1, <4>1 DEF Body
        <5> QED BY <5>1
      <4>2. CASE ~SpaActive(mode)
        <5>1. "pool" \in Body /\ \A x \in Body : B[x].active <=> x = "pool"
          BY <3>1, <4>2 DEF Body
        <5> QED BY <5>1
      <4> QED BY <4>1, <4>2
    <3> QED BY <1>1, <1>7, <2>1, <3>1, <3>2 DEF OneActive
  <2>2. CASE DOMAIN h.bodies # Body
    BY <1>1, <1>7, <2>2 DEF OneActive, HubGood
  <2> QED BY <2>1, <2>2
<1>11. Circulated(g)
  <2>1. A = [b \in DOMAIN g.bodies |-> g.bodies[b].active]
    BY <1>2, <1>7 DEF A
  <2> QED BY <1>7, <1>8, <2>1 DEF Circulated
<1>12. Announced(g) /\ OnePump(g)
  BY <1>7, <1>8 DEF HubGood, Announced, OnePump
<1>13. HubGood(g)
  BY <1>7, <1>8, <1>9, <1>10, <1>11, <1>12 DEF HubGood
<1> QED BY <1>3, <1>13

LEMMA ConfigurationGood ==
  ASSUME NEW h, HubGood(h), NEW config \in {"SingleBody", "DualBody"},
         NEW source \in {"Auto", "UserSpecified"}, NEW kind \in Body
  PROVE  HubGood(ApplyPoolConfiguration(h, config, source, kind))
<1> DEFINE n == [h EXCEPT !.conf = [config |-> config, source |-> source]]
           B == BodiesFor(config, kind, h.mode)
           g == [n EXCEPT !.bodies = B]
<1>0. h \in Hubs /\ h.told.readings = h.readings
  BY Good
<1>1. /\ n \in Hubs /\ n.mode = h.mode /\ n.bodies = h.bodies /\ n.readings = h.readings
      /\ n.equipment = h.equipment /\ n.last = h.last /\ n.told = h.told
  BY <1>0 DEF Hubs, Configs
<1>2. ApplyPoolConfiguration(h, config, source, kind) = IF DOMAIN h.bodies # {} THEN n ELSE g
  BY DEF ApplyPoolConfiguration
<1> HIDE DEF n
<1>3. HubGood(n)
  <2>1. Shown(n) /\ OneActive(n)
    BY <1>1 DEF HubGood, Shown, OneActive
  <2>2. Circulated(n)
    BY <1>1 DEF HubGood, Circulated
  <2>3. Announced(n) /\ OnePump(n)
    BY <1>1 DEF HubGood, Announced, OnePump
  <2> QED BY <1>0, <1>1, <2>1, <2>2, <2>3 DEF HubGood
<1>4. ASSUME DOMAIN h.bodies = {} PROVE HubGood(g)
  <2>1. \A a \in BOOLEAN : /\ NewBody(a) \in BodyValues
                          /\ NewBody(a).active = a /\ NewBody(a).temp = NoTemp /\ NewBody(a).setpoint = NoTemp
    BY DEF NewBody, BodyValues, Temperatures
  <2>2. /\ B \in Maps(Body, BodyValues)
        /\ \A b \in DOMAIN B : B[b].temp = NoTemp /\ B[b].setpoint = NoTemp
        /\ \E b \in DOMAIN B : \A x \in DOMAIN B : B[x].active <=> x = b
        /\ DOMAIN B = Body => B["spa"].active = SpaActive(h.mode)
    <3>1. CASE config = "DualBody"
      <4>1. B = [b \in Body |-> NewBody((b = "spa") = SpaActive(h.mode))]
        BY <3>1 DEF BodiesFor
      <4> HIDE DEF B
      <4>2. B \in [Body -> BodyValues] /\ DOMAIN B = Body
        BY <4>1, <2>1
      <4>3. B \in Maps(Body, BodyValues)
        BY <4>2, MapFacts
      <4>4. \A b \in Body : B[b].temp = NoTemp /\ B[b].setpoint = NoTemp /\ B[b].active = ((b = "spa") = SpaActive(h.mode))
        BY <2>1, <4>1
      <4>5. SpaActive(h.mode) \in BOOLEAN /\ "spa" \in Body /\ "pool" \in Body /\ "pool" # "spa"
        BY DEF SpaActive, Body
      <4>6. B["spa"].active = SpaActive(h.mode) /\ B["pool"].active = ~SpaActive(h.mode)
        <5>1. B["spa"].active = (("spa" = "spa") = SpaActive(h.mode)) /\ B["pool"].active = (("pool" = "spa") = SpaActive(h.mode))
          BY <4>4, <4>5
        <5> QED BY <4>5, <5>1
      <4>7. \E b \in Body : \A x \in Body : B[x].active <=> x = b
        <5>1. CASE SpaActive(h.mode)
          <6>1. \A x \in Body : B[x].active <=> x = "spa"
            BY <4>5, <4>6, <5>1 DEF Body
          <6> QED BY <4>5, <6>1
        <5>2. CASE ~SpaActive(h.mode)
          <6>1. \A x \in Body : B[x].active <=> x = "pool"
            BY <4>5, <4>6, <5>2 DEF Body
          <6> QED BY <4>5, <6>1
        <5> QED BY <5>1, <5>2
      <4> QED BY <4>2, <4>3, <4>4, <4>6, <4>7
    <3>2. CASE config = "SingleBody"
      <4>1. B = [b \in {kind} |-> NewBody(TRUE)]
        BY <3>2 DEF BodiesFor
      <4> HIDE DEF B
      <4>2. B \in [{kind} -> BodyValues] /\ DOMAIN B = {kind} /\ {kind} \in SUBSET Body
        BY <4>1, <2>1
      <4>3. B \in Maps(Body, BodyValues)
        BY <4>2, MapFacts
      <4>4. B[kind].temp = NoTemp /\ B[kind].setpoint = NoTemp /\ B[kind].active = TRUE
        BY <2>1, <4>1
      <4>5. {kind} # Body
        BY DEF Body
      <4> QED BY <4>2, <4>3, <4>4, <4>5
    <3> QED BY <3>1, <3>2
  <2> HIDE DEF B
  <2>3. /\ g \in Hubs /\ g.mode = h.mode /\ g.bodies = B /\ g.readings = h.readings
        /\ g.equipment = h.equipment /\ g.last = h.last /\ g.told = h.told
    BY <1>1, <2>2 DEF Hubs
  <2> HIDE DEF g
  <2>4. Shown(g) /\ OneActive(g)
    BY <2>2, <2>3 DEF Shown, OneActive
  <2>5. Circulated(g)
    <3>1. DOMAIN h.told.active = {}
      BY <1>4 DEF HubGood, Circulated
    <3> QED BY <2>3, <3>1 DEF HubGood, Circulated
  <2>6. Announced(g) /\ OnePump(g)
    BY <2>3 DEF HubGood, Announced, OnePump
  <2> QED BY <1>0, <2>3, <2>4, <2>5, <2>6 DEF HubGood
<1> QED BY <1>2, <1>3, <1>4

-----------------------------------------------------------------------------
(* Equipment and its events.                                               *)
Extends(g, f, x, v) ==
  /\ DOMAIN g = DOMAIN f \cup {x} /\ g[x] = v
  /\ \A y \in DOMAIN f : y # x => g[y] = f[y]

LEMMA WithFacts ==
  ASSUME NEW D, NEW V, NEW f \in Maps(D, V), NEW x \in D, NEW v \in V
  PROVE  /\ With(f, x, v) \in Maps(D, V)
         /\ Extends(With(f, x, v), f, x, v)
<1>1. DOMAIN f \subseteq D /\ f \in [DOMAIN f -> V]
  BY MapFacts
<1>2. With(f, x, v) \in [DOMAIN f \cup {x} -> V] /\ DOMAIN f \cup {x} \in SUBSET D
  BY <1>1 DEF With
<1>3. With(f, x, v) \in Maps(D, V)
  BY <1>2, MapFacts
<1> QED BY <1>3 DEF With, Extends

(* g is h with other equipment.                                            *)
WithEquipment(g, h, E) ==
  /\ g \in Hubs /\ g.equipment = E
  /\ g.readings = h.readings /\ g.conf = h.conf /\ g.mode = h.mode
  /\ g.bodies = h.bodies /\ g.last = h.last /\ g.told = h.told

LEMMA EquipmentWritten ==
  ASSUME NEW h \in Hubs, NEW E \in Maps(Listed, Devices)
  PROVE  WithEquipment([h EXCEPT !.equipment = E], h, E)
BY DEF Hubs, WithEquipment

(* A device is written and its state announced.                            *)
LEMMA DeviceGood ==
  ASSUME NEW h, HubGood(h), NEW x \in Listed, NEW dev \in Devices,
         x \in Pumps => /\ dev.label = "Filter Pump" /\ dev.role \in {"none", "filter"}
                        /\ \A p \in DOMAIN h.equipment \cap Pumps : p = x
  PROVE  HubGood(EmitButtonStateChange([h EXCEPT !.equipment = With(h.equipment, x, dev)], x, dev.status))
<1> DEFINE E == With(h.equipment, x, dev)
           w == [h EXCEPT !.equipment = E]
           s == dev.status
           T == With(w.told.buttons, x, s)
           L == With(w.last, x, s)
           e == [w EXCEPT !.told.buttons = T, !.last = L]
<1>0. /\ h \in Hubs /\ h.told.readings = h.readings /\ h.told \in Events /\ s \in States
      /\ h.equipment \in Maps(Listed, Devices) /\ h.last \in Maps(Listed, States)
      /\ h.told.buttons \in Maps(Listed, States) /\ h.last = h.told.buttons
      /\ DOMAIN h.last \subseteq DOMAIN h.equipment
  BY Good DEF Hubs, Events, Devices, HubGood, Announced
<1>1. /\ E \in Maps(Listed, Devices) /\ DOMAIN E = DOMAIN h.equipment \cup {x} /\ E[x] = dev
      /\ \A y \in DOMAIN h.equipment : y # x => E[y] = h.equipment[y]
  <2>1. E \in Maps(Listed, Devices) /\ Extends(E, h.equipment, x, dev)
    BY <1>0, WithFacts
  <2> QED BY <2>1 DEF Extends
<1> HIDE DEF E
<1>2. WithEquipment(w, h, E)
  BY <1>0, <1>1, EquipmentWritten
<1> HIDE DEF w
<1>3. EmitButtonStateChange(w, x, s) = IF x \in DOMAIN w.last /\ w.last[x] = s THEN w ELSE e
  BY DEF EmitButtonStateChange
<1>4. OnePump(w)
  <2>1. OnePump(h)
    BY DEF HubGood
  <2> QED BY <1>1, <1>2, <2>1 DEF OnePump, WithEquipment
<1>5. ASSUME x \in DOMAIN w.last, w.last[x] = s PROVE HubGood(w)
  <2>1. Announced(w)
    <3>1. \A d \in DOMAIN w.last : w.last[d] = w.equipment[d].status
      <4> SUFFICES ASSUME NEW d \in DOMAIN w.last PROVE w.last[d] = w.equipment[d].status
        OBVIOUS
      <4>1. CASE d = x
        BY <1>1, <1>2, <1>5, <4>1 DEF WithEquipment
      <4>2. CASE d # x
        <5>1. d \in DOMAIN h.equipment /\ h.last[d] = h.equipment[d].status
          BY <1>2 DEF WithEquipment, HubGood, Announced
        <5> QED BY <1>1, <1>2, <4>2, <5>1 DEF WithEquipment
      <4> QED BY <4>1, <4>2
    <3>2. w.last = w.told.buttons /\ DOMAIN w.last \subseteq DOMAIN w.equipment
      BY <1>0, <1>1, <1>2 DEF WithEquipment
    <3> QED BY <3>1, <3>2 DEF Announced
  <2>2. Shown(w) /\ OneActive(w) /\ Circulated(w)
    <3>1. /\ w.bodies = h.bodies /\ w.readings = h.readings /\ w.mode = h.mode
          /\ w.told.mode = h.told.mode /\ w.told.active = h.told.active
      BY <1>2 DEF WithEquipment
    <3> QED BY <3>1, SameBodies
  <2>3. w \in Hubs /\ w.told.readings = w.readings
    BY <1>0, <1>2 DEF WithEquipment
  <2> QED BY <1>4, <2>1, <2>2, <2>3 DEF HubGood
<1>6. HubGood(e)
  <2>1. /\ T \in Maps(Listed, States) /\ T = L
        /\ DOMAIN L = DOMAIN h.last \cup {x} /\ L[x] = s
        /\ \A y \in DOMAIN h.last : y # x => L[y] = h.last[y]
    <3>1. w.last = h.last /\ w.told.buttons = h.last
      BY <1>0, <1>2 DEF WithEquipment
    <3>2. With(h.last, x, s) \in Maps(Listed, States) /\ Extends(With(h.last, x, s), h.last, x, s)
      BY <1>0, WithFacts
    <3> QED BY <3>1, <3>2 DEF Extends
  <2> HIDE DEF T, L
  <2>2. /\ e \in Hubs /\ e.readings = h.readings /\ e.conf = h.conf /\ e.mode = h.mode
        /\ e.bodies = h.bodies /\ e.equipment = E /\ e.last = L
        /\ e.told.readings = h.told.readings /\ e.told.mode = h.told.mode
        /\ e.told.active = h.told.active /\ e.told.buttons = L
    <3>1. w.told = h.told /\ w \in Hubs /\ w.equipment = E /\ w.readings = h.readings
          /\ w.conf = h.conf /\ w.mode = h.mode /\ w.bodies = h.bodies
      BY <1>2 DEF WithEquipment
    <3>2. e = [w EXCEPT !.told = [w.told EXCEPT !.buttons = T], !.last = L]
      BY <3>1 DEF Hubs
    <3>3. [w.told EXCEPT !.buttons = T] \in Events
      BY <1>0, <2>1, <3>1 DEF Events
    <3> HIDE DEF e
    <3>4. /\ e \in Hubs /\ e.readings = w.readings /\ e.conf = w.conf /\ e.mode = w.mode
          /\ e.bodies = w.bodies /\ e.equipment = w.equipment /\ e.last = L
          /\ e.told = [w.told EXCEPT !.buttons = T]
      BY <2>1, <3>1, <3>2, <3>3 DEF Hubs
    <3>5. /\ e.told.readings = w.told.readings /\ e.told.mode = w.told.mode
          /\ e.told.active = w.told.active /\ e.told.buttons = T
      BY <1>0, <3>1, <3>4 DEF Events
    <3> QED BY <2>1, <3>1, <3>4, <3>5
  <2> HIDE DEF e
  <2>3. Announced(e)
    <3>1. \A d \in DOMAIN L : L[d] = E[d].status
      <4> SUFFICES ASSUME NEW d \in DOMAIN L PROVE L[d] = E[d].status
        OBVIOUS
      <4>1. CASE d = x
        BY <1>1, <2>1, <4>1
      <4>2. CASE d # x
        <5>1. d \in DOMAIN h.last /\ d \in DOMAIN h.equipment /\ h.last[d] = h.equipment[d].status
          BY <2>1, <4>2 DEF HubGood, Announced
        <5> QED BY <1>1, <2>1, <4>2, <5>1
      <4> QED BY <4>1, <4>2
    <3>2. DOMAIN L \subseteq DOMAIN E
      BY <1>0, <1>1, <2>1
    <3> QED BY <2>2, <3>1, <3>2 DEF Announced
  <2>4. Shown(e) /\ OneActive(e) /\ Circulated(e)
    BY <2>2, SameBodies
  <2>5. OnePump(e)
    BY <1>2, <1>4, <2>2 DEF OnePump, WithEquipment
  <2> QED BY <1>0, <2>2, <2>3, <2>4, <2>5 DEF HubGood
<1>7. HubGood(EmitButtonStateChange(w, x, s))
  BY <1>3, <1>5, <1>6
<1> QED BY <1>7 DEF w, E

LEMMA FilterPumpGood ==
  ASSUME NEW h, HubGood(h), NEW on \in BOOLEAN, FilterPumps(h) # {}
  PROVE  HubGood(SetFilterPump(h, on))
<1> DEFINE status == IF on THEN "Running" ELSE "Off"
           p == CHOOSE x \in FilterPumps(h) : TRUE
           dev == [h.equipment[p] EXCEPT !.status = status]
           w == [h EXCEPT !.equipment[p].status = status]
<1>1. p \in FilterPumps(h)
  OBVIOUS
<1>2. SetFilterPump(h, on) = EmitButtonStateChange(w, p, status)
  BY DEF SetFilterPump
<1> HIDE DEF p
<1>3. /\ h \in Hubs /\ h.equipment \in [DOMAIN h.equipment -> Devices] /\ DOMAIN h.equipment \subseteq Listed
      /\ p \in DOMAIN h.equipment /\ p \in Pumps /\ p \in Listed
  BY <1>1, Good, BodiesOf DEF FilterPumps
<1>4. dev \in Devices /\ dev.status = status /\ dev.label = h.equipment[p].label /\ dev.role = h.equipment[p].role
  <2>1. h.equipment[p] \in Devices /\ status \in States
    BY <1>3 DEF States
  <2> QED BY <2>1 DEF Devices
<1>5. w = [h EXCEPT !.equipment = With(h.equipment, p, dev)]
  <2>1. [h.equipment EXCEPT ![p] = dev] = With(h.equipment, p, dev)
    <3> HIDE DEF dev
    <3> QED BY <1>3 DEF With
  <2>2. w = [h EXCEPT !.equipment = [h.equipment EXCEPT ![p] = dev]]
    OBVIOUS
  <2> QED BY <2>1, <2>2
<1>6. /\ dev.label = "Filter Pump" /\ dev.role \in {"none", "filter"}
      /\ \A q \in DOMAIN h.equipment \cap Pumps : q = p
  BY <1>3, <1>4 DEF HubGood, OnePump
<1> HIDE DEF dev, w, status
<1>7. HubGood(EmitButtonStateChange([h EXCEPT !.equipment = With(h.equipment, p, dev)], p, dev.status))
  BY <1>3, <1>4, <1>6, DeviceGood
<1> QED BY <1>2, <1>4, <1>5, <1>7

LEMMA HeaterGood ==
  ASSUME NEW h, HubGood(h), NEW x \in Heaters, NEW status \in States
  PROVE  HubGood(UpdateHeaterDevice(h, x, status))
<1> DEFINE dev == [label |-> x, role |-> "heater", status |-> status]
<1>1. dev \in Devices /\ dev.status = status /\ x \in Listed /\ x \notin Pumps
  BY DEF Devices, Listed, Heaters, Pumps
<1>2. UpdateHeaterDevice(h, x, status) = EmitButtonStateChange([h EXCEPT !.equipment = With(h.equipment, x, dev)], x, status)
  BY DEF UpdateHeaterDevice
<1> HIDE DEF dev
<1>3. HubGood(EmitButtonStateChange([h EXCEPT !.equipment = With(h.equipment, x, dev)], x, dev.status))
  BY <1>1, DeviceGood
<1> QED BY <1>1, <1>2, <1>3

(* Whatever the cache restored, there is one filter pump afterwards.       *)
LEMMA PumpsResolved ==
  ASSUME NEW h, HubGood(h)
  PROVE  HubGood(ResolveFilterPumps(h)) /\ FilterPumps(ResolveFilterPumps(h)) # {}
<1> DEFINE adopts(d) == d \in Pumps /\ h.equipment[d].role = "none" /\ h.equipment[d].label = "Filter Pump"
           E == [d \in DOMAIN h.equipment |-> IF adopts(d) THEN [h.equipment[d] EXCEPT !.role = "filter"] ELSE h.equipment[d]]
           a == AdoptUntypedFilterPumps(h)
           new == [label |-> "Filter Pump", role |-> "filter", status |-> "Unknown"]
           N == With(h.equipment, "newPump", new)
           n == AddFilterPump(h)
<1>0. /\ h \in Hubs /\ h.told.readings = h.readings /\ h.equipment \in Maps(Listed, Devices)
      /\ DOMAIN h.equipment \in SUBSET Listed /\ h.equipment \in [DOMAIN h.equipment -> Devices]
      /\ Shown(h) /\ OneActive(h) /\ Circulated(h) /\ Announced(h) /\ OnePump(h)
  BY Good, BodiesOf DEF Hubs, HubGood
<1>1. \A d \in DOMAIN h.equipment :
         /\ E[d] \in Devices /\ E[d].status = h.equipment[d].status /\ E[d].label = h.equipment[d].label
         /\ d \in Pumps => E[d].role = "filter"
  <2> SUFFICES ASSUME NEW d \in DOMAIN h.equipment
               PROVE  /\ E[d] \in Devices /\ E[d].status = h.equipment[d].status /\ E[d].label = h.equipment[d].label
                      /\ d \in Pumps => E[d].role = "filter"
    OBVIOUS
  <2>1. h.equipment[d] \in Devices
    BY <1>0
  <2>2. CASE adopts(d)
    <3>1. E[d] = [h.equipment[d] EXCEPT !.role = "filter"]
      BY <2>2
    <3> HIDE DEF E
    <3> QED BY <2>1, <3>1 DEF Devices
  <2>3. CASE ~adopts(d)
    <3>1. E[d] = h.equipment[d]
      BY <2>3
    <3>2. d \in Pumps => h.equipment[d].role = "filter"
      BY <1>0, <2>3 DEF OnePump
    <3> HIDE DEF E
    <3> QED BY <2>1, <3>1, <3>2
  <2> QED BY <2>2, <2>3
<1>2. DOMAIN E = DOMAIN h.equipment
  OBVIOUS
<1>3. a = [h EXCEPT !.equipment = E]
  BY DEF AdoptUntypedFilterPumps
<1> HIDE DEF adopts, a
<1>4. E \in Maps(Listed, Devices)
  <2>1. E \in [DOMAIN h.equipment -> Devices]
    BY <1>1
  <2> HIDE DEF E
  <2> QED BY <1>0, <2>1, MapFacts
<1> HIDE DEF E
<1>5. WithEquipment(a, h, E)
  BY <1>0, <1>3, <1>4, EquipmentWritten
<1>6. HubGood(a)
  <2>1. a.bodies = h.bodies /\ a.readings = h.readings /\ a.mode = h.mode /\ a.told = h.told
        /\ a.last = h.last /\ a.equipment = E /\ a \in Hubs
    BY <1>5 DEF WithEquipment
  <2>2. Shown(a) /\ OneActive(a) /\ Circulated(a)
    BY <2>1, SameBodies
  <2>5. Announced(a)
    BY <1>0, <1>1, <1>2, <2>1 DEF Announced
  <2>6. OnePump(a)
    BY <1>0, <1>1, <1>2, <2>1 DEF OnePump
  <2> QED BY <1>0, <2>1, <2>2, <2>5, <2>6 DEF HubGood
<1>7. n = [h EXCEPT !.equipment = N]
  BY DEF AddFilterPump
<1>8. new \in Devices /\ "newPump" \in Listed /\ "newPump" \in Pumps /\ new.label = "Filter Pump" /\ new.role = "filter"
  BY DEF Devices, States, Listed, Pumps
<1> HIDE DEF new, n
<1>9. N \in Maps(Listed, Devices) /\ Extends(N, h.equipment, "newPump", new)
  BY <1>0, <1>8, WithFacts
<1> HIDE DEF N
<1>10. WithEquipment(n, h, N)
  BY <1>0, <1>7, <1>9, EquipmentWritten
<1>11. ASSUME FilterPumps(a) = {} PROVE HubGood(n) /\ FilterPumps(n) # {}
  <2>1. DOMAIN h.equipment \cap Pumps = {}
    BY <1>1, <1>2, <1>5, <1>11 DEF FilterPumps, WithEquipment
  <2>2. n.bodies = h.bodies /\ n.readings = h.readings /\ n.mode = h.mode /\ n.told = h.told
        /\ n.last = h.last /\ n.equipment = N /\ n \in Hubs
    BY <1>10 DEF WithEquipment
  <2>3. /\ DOMAIN N = DOMAIN h.equipment \cup {"newPump"} /\ N["newPump"] = new
        /\ \A d \in DOMAIN h.equipment : d # "newPump" /\ N[d] = h.equipment[d]
    BY <1>8, <1>9, <2>1 DEF Extends
  <2>4. Shown(n) /\ OneActive(n) /\ Circulated(n)
    BY <2>2, SameBodies
  <2>7. Announced(n)
    BY <1>0, <2>2, <2>3 DEF Announced
  <2>8. OnePump(n)
    BY <1>8, <2>1, <2>2, <2>3 DEF OnePump
  <2>9. FilterPumps(n) # {}
    BY <1>8, <2>2, <2>3 DEF FilterPumps
  <2> QED BY <1>0, <2>2, <2>4, <2>7, <2>8, <2>9 DEF HubGood
<1>12. ResolveFilterPumps(h) = IF FilterPumps(h) # {} THEN h ELSE IF FilterPumps(a) # {} THEN a ELSE n
  BY DEF ResolveFilterPumps, a, n
<1> QED BY <1>6, <1>11, <1>12

-----------------------------------------------------------------------------
(* The main status frame: one setter after another keeps the hub good.     *)
LEMMA MainSetpointsGood ==
  ASSUME NEW h, HubGood(h), NEW m \in Statuses
  PROVE  HubGood(MainSetpoints(h, m))
<1>1. {m.poolSet, m.spaSet, m.heaterSet} \subseteq Degrees \cup {NoTemp}
  BY HubConstants
<1>2. \A g, v : HubGood(g) /\ v \in Degrees \cup {NoTemp}
        => HubGood(WriteIf(g, v, PoolTempSetpoint)) /\ HubGood(WriteIf(g, v, SpaTempSetpoint))
  <2> SUFFICES ASSUME NEW g, NEW v, HubGood(g), v \in Degrees \cup {NoTemp}
               PROVE  HubGood(WriteIf(g, v, PoolTempSetpoint)) /\ HubGood(WriteIf(g, v, SpaTempSetpoint))
    OBVIOUS
  <2>1. CASE v = NoTemp
    BY <2>1 DEF WriteIf
  <2>2. CASE v # NoTemp
    <3>1. HubGood(PoolTempSetpoint(g, v)) /\ HubGood(SpaTempSetpoint(g, v))
      BY <2>2, SetpointGood
    <3> QED BY <2>2, <3>1 DEF WriteIf
  <2> QED BY <2>1, <2>2
<1>3. HubGood(WriteIf(h, m.poolSet, PoolTempSetpoint))
  BY <1>1, <1>2
<1>4. HubGood(WriteIf(WriteIf(h, m.poolSet, PoolTempSetpoint), m.spaSet, SpaTempSetpoint))
  BY <1>1, <1>2, <1>3
<1>5. HubGood(WriteIf(h, m.heaterSet, SpaTempSetpoint)) /\ HubGood(WriteIf(h, m.heaterSet, PoolTempSetpoint))
  BY <1>1, <1>2
<1> QED BY <1>4, <1>5 DEF MainSetpoints

LEMMA TemperaturesGood ==
  ASSUME NEW h, HubGood(h), NEW v \in Degrees \cup {NoTemp}
  PROVE  HubGood(WriteIf(h, v, PoolTemp)) /\ HubGood(WriteIf(h, v, SpaTemp)) /\ HubGood(WriteIf(h, v, AirTemp))
<1>1. CASE v = NoTemp
  BY <1>1 DEF WriteIf
<1>2. CASE v # NoTemp
  <2>1. HubGood(PoolTemp(h, v)) /\ HubGood(SpaTemp(h, v))
    BY <1>2, PoolTempGood
  <2>2. HubGood(AirTemp(h, v))
    BY <1>2, PlainGood DEF AirTemp, Readings
  <2> QED BY <1>2, <2>1, <2>2 DEF WriteIf
<1> QED BY <1>1, <1>2

LEMMA MainStatusGood ==
  ASSUME NEW h, HubGood(h), NEW m \in Statuses
  PROVE  HubGood(ProcessMainStatus(h, m))
<1> DEFINE d == DetectDualBody(h, m)
           h1 == SetCirculationMode(d, IF m.spaMode THEN "Spa" ELSE "Pool")
           a == WriteIf(h1, m.pool, PoolTemp)
           b == WriteIf(a, m.spa, SpaTemp)
           h2 == WriteIf(b, m.air, AirTemp)
           s == MainSetpoints(h2, m)
           r == ResolveFilterPumps(s)
           h3 == SetFilterPump(r, m.pumpOn)
           p == UpdateHeaterDevice(h3, "Pool Heat", m.heat)
           q == UpdateHeaterDevice(p, "Spa Heat", m.heat)
<1>0. /\ {m.pool, m.spa, m.air} \subseteq Degrees \cup {NoTemp}
      /\ m.pumpOn \in BOOLEAN /\ m.heat \in States /\ "Off" \in States
      /\ {"Pool Heat", "Spa Heat", "Solar Heat"} \subseteq Heaters
      /\ (IF m.spaMode THEN "Spa" ELSE "Pool") \in Modes
  BY HubConstants DEF States, Heaters, Modes, SpaModes
<1>1. HubGood(d)
  <2>1. HubGood(ApplyPoolConfiguration(h, "DualBody", "Auto", "pool"))
    BY ConfigurationGood DEF Body
  <2> QED BY <2>1 DEF DetectDualBody
<1> HIDE DEF d
<1>2. HubGood(h1)
  BY <1>0, <1>1, ModeGood
<1> HIDE DEF h1
<1>3. HubGood(a)
  BY <1>0, <1>2, TemperaturesGood
<1> HIDE DEF a
<1>4. HubGood(b)
  BY <1>0, <1>3, TemperaturesGood
<1> HIDE DEF b
<1>5. HubGood(h2)
  BY <1>0, <1>4, TemperaturesGood
<1> HIDE DEF h2
<1>6. HubGood(s)
  BY <1>5, MainSetpointsGood
<1> HIDE DEF s
<1>7. HubGood(r) /\ FilterPumps(r) # {}
  BY <1>6, PumpsResolved
<1> HIDE DEF r
<1>8. HubGood(h3)
  BY <1>0, <1>7, FilterPumpGood
<1> HIDE DEF h3
<1>9. HubGood(p)
  BY <1>0, <1>8, HeaterGood
<1> HIDE DEF p
<1>10. HubGood(q)
  BY <1>0, <1>9, HeaterGood
<1> HIDE DEF q
<1>11. HubGood(UpdateHeaterDevice(q, "Solar Heat", "Off"))
  BY <1>0, <1>10, HeaterGood
<1>12. ProcessMainStatus(h, m) = UpdateHeaterDevice(q, "Solar Heat", "Off")
  BY DEF ProcessMainStatus, d, h1, a, b, h2, s, r, h3, p, q
<1> QED BY <1>11, <1>12

-----------------------------------------------------------------------------
(* The hub that the program starts with, with and without the cache.       *)
LEMMA EmptyFunction ==
  ASSUME NEW D, NEW V
  PROVE  <<>> \in Maps(D, V) /\ DOMAIN <<>> = {}
<1>1. <<>> \in [{} -> V] /\ DOMAIN <<>> = {}
  OBVIOUS
<1>2. {} \in SUBSET D
  OBVIOUS
<1> QED BY <1>1, <1>2, MapFacts

LEMMA EmptyGood == HubGood(EmptyHub)
<1> DEFINE rd == [f \in Readings |-> NoTemp]
           cf == [config |-> "Unknown", source |-> "Auto"]
           tl == [readings |-> rd, mode |-> "Pool", active |-> <<>>, buttons |-> <<>>]
<1>1. /\ rd \in [Readings -> Temperatures] /\ cf \in [config : Configs, source : {"Auto", "UserSpecified"}]
      /\ "Pool" \in Modes
  BY DEF Temperatures, Configs, Modes
<1>2. /\ <<>> \in Maps(Body, BodyValues) /\ <<>> \in Maps(Listed, Devices) /\ <<>> \in Maps(Listed, States)
      /\ <<>> \in Maps(Body, BOOLEAN) /\ DOMAIN <<>> = {}
  BY EmptyFunction
<1> HIDE DEF rd, cf
<1>3. tl \in Events
  BY <1>1, <1>2 DEF Events
<1>4. /\ EmptyHub.bodies = <<>> /\ EmptyHub.equipment = <<>> /\ EmptyHub.last = <<>> /\ EmptyHub.mode = "Pool"
      /\ EmptyHub.told.mode = "Pool" /\ EmptyHub.told.active = <<>> /\ EmptyHub.told.buttons = <<>>
      /\ EmptyHub.told.readings = EmptyHub.readings
  BY DEF EmptyHub
<1>5. EmptyHub \in Hubs
  BY <1>1, <1>2, <1>3 DEF EmptyHub, Hubs, rd, cf
<1>6. Shown(EmptyHub) /\ OneActive(EmptyHub)
  BY <1>2, <1>4 DEF Shown, OneActive
<1>7. Circulated(EmptyHub) /\ Announced(EmptyHub) /\ OnePump(EmptyHub)
  BY <1>2, <1>4 DEF Circulated, Announced, OnePump
<1> QED BY <1>4, <1>5, <1>6, <1>7 DEF HubGood

LEMMA CachedGood ==
  ASSUME NEW h, HubGood(h), h.last = <<>>
  PROVE  HubGood([h EXCEPT !.equipment = CachedPump])
<1> DEFINE g == [h EXCEPT !.equipment = CachedPump]
           p == [label |-> "Filter Pump", role |-> "none", status |-> "Unknown"]
<1>1. h \in Hubs /\ h.told.readings = h.readings /\ Announced(h)
  BY DEF HubGood
<1>2. DOMAIN CachedPump = {"cachedPump"} /\ CachedPump["cachedPump"] = p
  BY DEF CachedPump
<1>3. p \in Devices /\ p.label = "Filter Pump" /\ p.role = "none" /\ {"cachedPump"} \in SUBSET Listed
  BY DEF Devices, States, Listed, Pumps
<1>4. CachedPump \in Maps(Listed, Devices)
  <2>1. CachedPump \in [{"cachedPump"} -> Devices]
    BY <1>3 DEF CachedPump
  <2> QED BY <1>3, <2>1, MapFacts
<1>5. WithEquipment(g, h, CachedPump)
  BY <1>1, <1>4, EquipmentWritten
<1> HIDE DEF g, p
<1>6. /\ g.bodies = h.bodies /\ g.readings = h.readings /\ g.mode = h.mode /\ g.told = h.told
      /\ g.last = h.last /\ g.equipment = CachedPump /\ g \in Hubs
  BY <1>5 DEF WithEquipment
<1>7. Shown(g) /\ OneActive(g) /\ Circulated(g)
  BY <1>6, SameBodies
<1>8. Announced(g)
  <2>1. DOMAIN g.last = {}
    BY <1>6, EmptyFunction
  <2> QED BY <1>1, <1>6, <2>1 DEF Announced
<1>9. OnePump(g)
  BY <1>2, <1>3, <1>6 DEF OnePump
<1>10. HubGood(g)
  BY <1>1, <1>6, <1>7, <1>8, <1>9 DEF HubGood
<1> QED BY <1>10 DEF g

LEMMA StartGood == \A h \in StartHubs : HubGood(h)
<1> DEFINE configured == {EmptyHub} \cup
             {ApplyPoolConfiguration(EmptyHub, c, "UserSpecified", k) : c \in {"SingleBody", "DualBody"}, k \in Body}
<1>1. \A h \in configured : HubGood(h) /\ h.last = <<>>
  <2>1. EmptyHub.last = <<>>
    BY DEF EmptyHub
  <2>2. ASSUME NEW c \in {"SingleBody", "DualBody"}, NEW k \in Body
        PROVE  LET h == ApplyPoolConfiguration(EmptyHub, c, "UserSpecified", k)
               IN  HubGood(h) /\ h.last = <<>>
    <3>1. HubGood(ApplyPoolConfiguration(EmptyHub, c, "UserSpecified", k))
      BY EmptyGood, ConfigurationGood
    <3>2. ApplyPoolConfiguration(EmptyHub, c, "UserSpecified", k).last = <<>>
      BY DEF ApplyPoolConfiguration, EmptyHub
    <3> QED BY <3>1, <3>2
  <2> QED BY <2>1, <2>2, EmptyGood
<1> HIDE DEF configured
<1>2. \A h \in configured : HubGood([h EXCEPT !.equipment = CachedPump])
  BY <1>1, CachedGood
<1>3. StartHubs = configured \cup {[h EXCEPT !.equipment = CachedPump] : h \in configured}
  BY DEF StartHubs, configured
<1> QED BY <1>1, <1>2, <1>3

-----------------------------------------------------------------------------
LEMMA HubInitial == HubInit => HubInv
<1> SUFFICES ASSUME HubInit PROVE HubInv
  OBVIOUS
<1>1. PICK h \in StartHubs :
         /\ readings = h.readings /\ bodies = h.bodies /\ conf = h.conf
         /\ circulation = h.mode /\ equipment = h.equipment
         /\ lastButton = h.last /\ told = h.told
  BY DEF HubInit
<1>2. HubGood(h)
  BY StartGood
<1>3. Hub = h
  BY <1>1, <1>2 DEF Hub, HubGood, Hubs
<1>4. framesLeft \in 0 .. MaxHubFrames
  BY HubConstants DEF HubInit
<1> QED BY <1>2, <1>3, <1>4 DEF HubInv

LEMMA HubBecomes ==
  ASSUME NEW h, HubGood(h), Becomes(h)
  PROVE  HubGood(Hub)'
<1>1. Hub' = h
  BY DEF Becomes, Hub, HubGood, Hubs
<1> QED BY <1>1

LEMMA HubStep == HubInv /\ [HubNext]_hubVars => HubInv'
<1> SUFFICES ASSUME HubInv, [HubNext]_hubVars PROVE HubInv'
  OBVIOUS
<1>0. HubGood(Hub) /\ framesLeft \in 0 .. MaxHubFrames /\ MaxHubFrames \in Nat
  BY HubConstants DEF HubInv
<1>1. CASE Slot_MainStatus
  <2>1. PICK m \in Statuses : Becomes(ProcessMainStatus(Hub, m))
    BY <1>1 DEF Slot_MainStatus
  <2>2. HubGood(ProcessMainStatus(Hub, m))
    BY <1>0, MainStatusGood
  <2>3. HubGood(Hub)'
    BY <2>1, <2>2, HubBecomes
  <2>4. (framesLeft \in 0 .. MaxHubFrames)'
    BY <1>0, <1>1 DEF Slot_MainStatus
  <2> QED BY <2>3, <2>4 DEF HubInv
<1>2. CASE PageValue
  <2>1. PICK f \in Readings, v \in Degrees : Becomes(SetValue(Hub, f, v))
    BY <1>2 DEF PageValue
  <2>2. HubGood(SetValue(Hub, f, v))
    BY <1>0, ValueGood
  <2>3. HubGood(Hub)'
    BY <2>1, <2>2, HubBecomes
  <2>4. (framesLeft \in 0 .. MaxHubFrames)'
    BY <1>0, <1>2 DEF PageValue
  <2> QED BY <2>3, <2>4 DEF HubInv
<1>3. CASE PageMode
  <2>1. PICK mode \in Modes : Becomes(SetCirculationMode(Hub, mode))
    BY <1>3 DEF PageMode
  <2>2. HubGood(SetCirculationMode(Hub, mode))
    BY <1>0, ModeGood
  <2>3. HubGood(Hub)'
    BY <2>1, <2>2, HubBecomes
  <2>4. (framesLeft \in 0 .. MaxHubFrames)'
    BY <1>0, <1>3 DEF PageMode
  <2> QED BY <2>3, <2>4 DEF HubInv
<1>4. CASE ConfigurationFound
  <2>1. PICK config \in {"SingleBody", "DualBody"} : Becomes(ApplyPoolConfiguration(Hub, config, "Auto", "pool"))
    BY <1>4 DEF ConfigurationFound
  <2>2. HubGood(ApplyPoolConfiguration(Hub, config, "Auto", "pool"))
    BY <1>0, ConfigurationGood DEF Body
  <2>3. HubGood(Hub)'
    BY <2>1, <2>2, HubBecomes
  <2>4. (framesLeft \in 0 .. MaxHubFrames)'
    BY <1>0, <1>4 DEF ConfigurationFound
  <2> QED BY <2>3, <2>4 DEF HubInv
<1>5. CASE UNCHANGED hubVars
  <2>1. Hub' = Hub /\ framesLeft' = framesLeft
    BY <1>5 DEF Hub, hubVars
  <2> QED BY <1>0, <2>1 DEF HubInv
<1> QED BY <1>1, <1>2, <1>3, <1>4, <1>5 DEF HubNext

LEMMA AtMostOne ==
  ASSUME NEW S, NEW x, S \subseteq {x}
  PROVE  Cardinality(S) <= 1
<1>1. Cardinality({}) = 0 /\ Cardinality({x}) = 1
  BY FS_EmptySet, FS_Singleton
<1>2. S = {} \/ S = {x}
  OBVIOUS
<1> QED BY <1>1, <1>2

LEMMA HubIsSafe == HubInv => HubSafe
<1> SUFFICES ASSUME HubInv PROVE HubSafe
  OBVIOUS
<1>1. /\ Hub \in Hubs /\ Hub.told.readings = Hub.readings /\ framesLeft \in 0 .. MaxHubFrames
      /\ Shown(Hub) /\ OneActive(Hub) /\ Circulated(Hub) /\ Announced(Hub) /\ OnePump(Hub)
  BY DEF HubInv, HubGood
<1>2. /\ Hub.readings = readings /\ Hub.bodies = bodies /\ Hub.conf = conf /\ Hub.mode = circulation
      /\ Hub.equipment = equipment /\ Hub.last = lastButton /\ Hub.told = told
  BY DEF Hub
<1>3. /\ DOMAIN bodies \subseteq Body /\ bodies \in [DOMAIN bodies -> BodyValues]
      /\ readings \in [Readings -> Temperatures]
      /\ DOMAIN equipment \subseteq Listed
      /\ DOMAIN lastButton \subseteq DOMAIN equipment
      /\ conf \in [config : Configs, source : {"Auto", "UserSpecified"}] /\ circulation \in Modes
  <2>1. /\ DOMAIN Hub.bodies \subseteq Body /\ Hub.bodies \in [DOMAIN Hub.bodies -> BodyValues]
        /\ Hub.readings \in [Readings -> Temperatures]
        /\ DOMAIN Hub.equipment \subseteq Listed
    BY <1>1, BodiesOf
  <2>2. Hub.conf \in [config : Configs, source : {"Auto", "UserSpecified"}] /\ Hub.mode \in Modes
    BY <1>1 DEF Hubs
  <2> QED BY <1>1, <1>2, <2>1, <2>2 DEF Announced
<1>4. HubTypeOK
  <2>1. \A b \in DOMAIN bodies : bodies[b] \in BodyValues
    BY <1>3
  <2>2. \A b \in DOMAIN bodies :
          /\ bodies[b].active \in BOOLEAN
          /\ {bodies[b].temp, bodies[b].setpoint} \subseteq Degrees \cup {NoTemp}
    BY <2>1 DEF BodyValues, Temperatures
  <2> QED BY <1>1, <1>3, <2>2 DEF HubTypeOK, Temperatures, Listed
<1>5. ToldReadings
  BY <1>1, <1>2 DEF ToldReadings
<1>6. BodiesShowTold
  BY <1>1, <1>2 DEF BodiesShowTold, Shown
<1>7. OneBodyActive
  <2> SUFFICES ASSUME DOMAIN bodies # {} PROVE OneBodyActive
    BY DEF OneBodyActive
  <2>1. /\ \E b \in DOMAIN bodies : \A x \in DOMAIN bodies : bodies[x].active <=> x = b
        /\ DOMAIN bodies = Body => bodies["spa"].active = SpaActive(circulation)
    BY <1>1, <1>2 DEF OneActive
  <2>2. PICK b \in DOMAIN bodies : \A x \in DOMAIN bodies : bodies[x].active <=> x = b
    BY <2>1
  <2>3. {x \in DOMAIN bodies : bodies[x].active} = {b}
    BY <2>2
  <2>4. {c \in Body : CurrentTempForReporting(c) # NoTemp /\ c \in DOMAIN bodies} \subseteq {b}
    <3> SUFFICES ASSUME NEW c \in DOMAIN bodies, CurrentTempForReporting(c) # NoTemp PROVE c = b
      OBVIOUS
    <3>1. bodies[c].active
      BY DEF CurrentTempForReporting
    <3> QED BY <2>2, <3>1
  <2>5. Cardinality({c \in Body : CurrentTempForReporting(c) # NoTemp /\ c \in DOMAIN bodies}) <= 1
    BY <2>4, AtMostOne
  <2> QED BY <2>1, <2>3, <2>5 DEF OneBodyActive
<1>8. ToldCirculation
  BY <1>1, <1>2 DEF ToldCirculation, Circulated
<1>9. ButtonsTold
  BY <1>1, <1>2 DEF ButtonsTold, Announced
<1>10. OneFilterPump
  <2>1. \A p, q \in DOMAIN equipment \cap Pumps : p = q
    BY <1>1, <1>2 DEF OnePump
  <2>2. CASE DOMAIN equipment \cap Pumps = {}
    BY <2>2, FS_EmptySet DEF OneFilterPump
  <2>3. CASE DOMAIN equipment \cap Pumps # {}
    <3>1. PICK p : p \in DOMAIN equipment \cap Pumps
      BY <2>3
    <3>2. DOMAIN equipment \cap Pumps \subseteq {p}
      BY <2>1, <3>1
    <3>3. Cardinality(DOMAIN equipment \cap Pumps) <= 1
      BY <3>2, AtMostOne
    <3> QED BY <3>3 DEF OneFilterPump
  <2> QED BY <2>2, <2>3
<1> QED BY <1>4, <1>5, <1>6, <1>7, <1>8, <1>9, <1>10 DEF HubSafe

(* Whoever applies the hub's events knows what the hub holds; there is one *)
(* filter pump, one active body and one value of each reading.             *)
THEOREM HubTellsAll == HubSpec => []HubSafe
<1>1. HubInit => HubInv
  BY HubInitial
<1>2. HubInv /\ [HubNext]_hubVars => HubInv'
  BY HubStep
<1>3. HubInv => HubSafe
  BY HubIsSafe
<1> QED BY <1>1, <1>2, <1>3, PTL DEF HubSpec

-----------------------------------------------------------------------------
(***************************************************************************)
(* Pentair frames and devices, for every set of senders, every bound on    *)
(* the devices made and every watchdog deadline.                           *)
(***************************************************************************)

PByte == {n \in Nat : n < 256}
Words == {n \in Nat : n < 65536}

(* The partial sums of the checksum.                                       *)
Sums(bytes, s) ==
  /\ s \in [0 .. Len(bytes) -> Words] /\ s[0] = 0
  /\ \A n \in 1 .. Len(bytes) : s[n] = (s[n - 1] + bytes[n]) % 65536

LEMMA LeastNumber ==
  ASSUME NEW S, S \subseteq Nat, S # {}
  PROVE  \E x \in S : \A y \in S : x <= y
<1> DEFINE R == OpToRel(<, Nat)
<1>1. \E x \in S : \A y \in S : ~ (<<y, x>> \in R)
  BY NatLessThanWellFounded, WFMin
<1>2. \A x, y \in Nat : y < x => <<y, x>> \in R
  BY DEF OpToRel
<1> HIDE DEF R
<1>3. PICK x \in S : \A y \in S : ~ (<<y, x>> \in R)
  BY <1>1
<1>4. \A y \in S : ~ (y < x)
  BY <1>2, <1>3, Zenon
<1>5. \A y \in S : x <= y
  BY <1>4
<1> QED BY <1>5

LEMMA Word ==
  ASSUME NEW x \in Nat
  PROVE  x % 65536 \in Words
BY DEF Words

LEMMA WordSum ==
  ASSUME NEW x \in Words, NEW b \in PByte
  PROVE  (x + b) % 65536 \in Words
<1>0. x \in Nat /\ b \in Nat
  BY DEF Words, PByte
<1>1. x + b \in Nat
  BY <1>0
<1> QED BY <1>1, Word

Upto(bytes, s, k) ==
  /\ s \in [0 .. k -> Words] /\ s[0] = 0
  /\ \A n \in 1 .. k : s[n] = (s[n - 1] + bytes[n]) % 65536

LEMMA SumsExist ==
  ASSUME NEW bytes \in Seq(PByte)
  PROVE  \E s : Sums(bytes, s)
<1> DEFINE N == Len(bytes)
           bad == {k \in 0 .. N : ~ \E s : Upto(bytes, s, k)}
<1>0. N \in Nat /\ (\A n \in 1 .. N : bytes[n] \in PByte)
  OBVIOUS
<1>1. SUFFICES ASSUME bad # {} PROVE FALSE
  <2>1. N \in 0 .. N
    BY <1>0
  <2>2. bad = {} => \E s : Upto(bytes, s, N)
    BY <2>1
  <2> QED BY <2>2 DEF Upto, Sums
<1> HIDE DEF N
<1>2. PICK k \in bad : \A j \in bad : k <= j
  <2>1. bad \subseteq Nat
    BY <1>0
  <2> HIDE DEF bad
  <2> QED BY <1>1, <2>1, LeastNumber
<1>2a. k \in 0 .. N
  OBVIOUS
<1>3. k # 0
  <2> DEFINE z == [n \in 0 .. 0 |-> 0]
  <2>1. z \in [0 .. 0 -> Words] /\ z[0] = 0
    BY DEF Words
  <2> HIDE DEF z
  <2>2. Upto(bytes, z, 0)
    BY <2>1 DEF Upto
  <2>3. \E s : Upto(bytes, s, 0)
    BY <2>2
  <2>4. ~ \E s : Upto(bytes, s, k)
    OBVIOUS
  <2> QED BY <2>3, <2>4
<1>4. PICK s : Upto(bytes, s, k - 1)
  <2>1. k - 1 \in 0 .. N /\ ~(k <= k - 1)
    BY <1>0, <1>2a, <1>3
  <2>2. k - 1 \notin bad
    BY <1>2, <2>1
  <2> QED BY <2>1, <2>2
<1> DEFINE t == [n \in 0 .. k |-> IF n = k THEN (s[k - 1] + bytes[k]) % 65536 ELSE s[n]]
<1>5. Upto(bytes, t, k)
  <2>1. k \in 1 .. N /\ k - 1 \in 0 .. k - 1
    BY <1>0, <1>2a, <1>3
  <2>2. bytes[k] \in PByte /\ s \in [0 .. k - 1 -> Words] /\ s[k - 1] \in Words
    BY <1>0, <1>4, <2>1 DEF Upto
  <2>3. (s[k - 1] + bytes[k]) % 65536 \in Words
    BY <2>2, WordSum
  <2>4. \A n \in 0 .. k : n # k => n \in 0 .. k - 1
    BY <2>1
  <2>5. t \in [0 .. k -> Words]
    BY <2>2, <2>3, <2>4
  <2>6. t[0] = 0
    BY <1>3, <1>4, <2>1 DEF Upto
  <2>7. ASSUME NEW n \in 1 .. k PROVE t[n] = (t[n - 1] + bytes[n]) % 65536
    <3>1. n \in 0 .. k /\ n - 1 \in 0 .. k /\ n - 1 # k
      BY <1>2a, <2>1
    <3>2. CASE n = k
      BY <3>1, <3>2
    <3>3. CASE n # k
      <4>1. n \in 1 .. k - 1
        BY <2>1, <3>3
      <4>2. s[n] = (s[n - 1] + bytes[n]) % 65536
        BY <1>4, <4>1 DEF Upto
      <4> QED BY <3>1, <3>3, <4>2
    <3> QED BY <3>2, <3>3
  <2> HIDE DEF t
  <2> QED BY <2>5, <2>6, <2>7 DEF Upto
<1>6. \E u : Upto(bytes, u, k)
  BY <1>5
<1>7. ~ \E u : Upto(bytes, u, k)
  OBVIOUS
<1> QED BY <1>6, <1>7

LEMMA ChecksumIsTheLastSum ==
  ASSUME NEW bytes \in Seq(PByte)
  PROVE  \E s : Sums(bytes, s) /\ PentairPacket_CalculateChecksum(bytes) = s[Len(bytes)]
<1> DEFINE N == Len(bytes)
           Rec(s) == s = [n \in 0 .. N |-> IF n = 0 THEN 0 ELSE (s[n - 1] + bytes[n]) % 65536]
           sum == CHOOSE s : Rec(s)
           bad == {n \in 0 .. N : sum[n] \notin Words}
<1>0. N \in Nat /\ (\A n \in 1 .. N : bytes[n] \in PByte)
  OBVIOUS
<1>1. PICK s : Sums(bytes, s)
  BY SumsExist
<1>2. Rec(s)
  BY <1>0, <1>1 DEF Sums
<1>3. Rec(sum)
  BY <1>2
<1>4. PentairPacket_CalculateChecksum(bytes) = sum[N]
  BY DEF PentairPacket_CalculateChecksum
<1> HIDE DEF N, sum
<1>5. /\ sum[0] = 0
      /\ \A n \in 1 .. N : sum[n] = (sum[n - 1] + bytes[n]) % 65536
  BY <1>0, <1>3
<1>6. bad = {}
  <2> SUFFICES ASSUME bad # {} PROVE FALSE
    OBVIOUS
  <2>1. PICK k \in bad : \A j \in bad : k <= j
    <3>1. bad \subseteq Nat
      BY <1>0
    <3> HIDE DEF bad
    <3> QED BY <3>1, LeastNumber
  <2> HIDE DEF bad
  <2>0. 0 \in Words
    BY DEF Words
  <2>2. k \in 1 .. N /\ k - 1 \in 0 .. N /\ ~(k <= k - 1)
    <3>1. k \in 0 .. N /\ k # 0
      BY <1>5, <2>0, <2>1 DEF bad
    <3> QED BY <1>0, <3>1
  <2>3. sum[k - 1] \in Words
    BY <2>1, <2>2 DEF bad
  <2>4. sum[k] \in Words
    <3>1. bytes[k] \in PByte /\ sum[k] = (sum[k - 1] + bytes[k]) % 65536
      <4>1. k \in 1 .. N
        BY <2>2
      <4>2. bytes[k] \in PByte
        BY <1>0, <4>1
      <4>3. sum[k] = (sum[k - 1] + bytes[k]) % 65536
        BY <1>5, <4>1
      <4> QED BY <4>2, <4>3
    <3> QED BY <2>3, <3>1, WordSum
  <2> QED BY <2>1, <2>4 DEF bad
<1>7. Sums(bytes, sum)
  <2>1. sum = [n \in 0 .. N |-> sum[n]]
    BY <1>3
  <2>2. sum \in [0 .. N -> Words]
    BY <1>6, <2>1
  <2> QED BY <1>5, <2>2 DEF Sums, N
<1> QED BY <1>4, <1>7 DEF N

-----------------------------------------------------------------------------
(* One byte changed changes the sum.                                       *)
LEMMA SumsDiffer ==
  ASSUME NEW x \in Words, NEW y \in Words, NEW b \in PByte, NEW c \in PByte
  PROVE  /\ x # y => (x + b) % 65536 # (y + b) % 65536
         /\ b # c => (x + b) % 65536 # (x + c) % 65536
<1>0. x \in Nat /\ y \in Nat /\ x < 65536 /\ y < 65536
  BY DEF Words
<1>1a. b \in Nat /\ c \in Nat /\ b < 256 /\ c < 256
  BY DEF PByte
<1>1. x \in Nat /\ y \in Nat /\ b \in Nat /\ c \in Nat /\ x < 65536 /\ y < 65536 /\ b < 256 /\ c < 256
  BY <1>0, <1>1a
<1>2. \A u, v \in Nat : u < 65536 + 256 /\ v < 65536 + 256 /\ u - v < 65536 /\ v - u < 65536 /\ u # v => u % 65536 # v % 65536
  OBVIOUS
<1>3. ASSUME x # y PROVE (x + b) % 65536 # (y + b) % 65536
  <2>1. x + b \in Nat /\ y + b \in Nat /\ x + b < 65536 + 256 /\ y + b < 65536 + 256 /\ x + b # y + b
        /\ (x + b) - (y + b) < 65536 /\ (y + b) - (x + b) < 65536
    BY <1>1, <1>3
  <2> QED BY <1>2, <2>1
<1>4. ASSUME b # c PROVE (x + b) % 65536 # (x + c) % 65536
  <2>1. x + b \in Nat /\ x + c \in Nat /\ x + b < 65536 + 256 /\ x + c < 65536 + 256 /\ x + b # x + c
        /\ (x + b) - (x + c) < 65536 /\ (x + c) - (x + b) < 65536
    BY <1>1, <1>4
  <2> QED BY <1>2, <2>1
<1> QED BY <1>3, <1>4

LEMMA OneByteChangesTheSum ==
  ASSUME NEW f \in Seq(PByte), NEW i \in 1 .. Len(f), NEW c \in PByte, c # f[i]
  PROVE  PentairPacket_CalculateChecksum([f EXCEPT ![i] = c]) # PentairPacket_CalculateChecksum(f)
<1> DEFINE g == [f EXCEPT ![i] = c]
           N == Len(f)
<1>0. /\ N \in Nat /\ i \in 1 .. N /\ g \in Seq(PByte) /\ Len(g) = N
      /\ \A n \in 1 .. N : f[n] \in PByte /\ g[n] = IF n = i THEN c ELSE f[n]
  OBVIOUS
<1> HIDE DEF g, N
<1>1. PICK s : Sums(f, s) /\ PentairPacket_CalculateChecksum(f) = s[N]
  BY ChecksumIsTheLastSum DEF N
<1>2. PICK t : Sums(g, t) /\ PentairPacket_CalculateChecksum(g) = t[N]
  BY <1>0, ChecksumIsTheLastSum
<1>3. /\ s \in [0 .. N -> Words] /\ s[0] = 0 /\ (\A n \in 1 .. N : s[n] = (s[n - 1] + f[n]) % 65536)
      /\ t \in [0 .. N -> Words] /\ t[0] = 0 /\ (\A n \in 1 .. N : t[n] = (t[n - 1] + g[n]) % 65536)
  BY <1>0, <1>1, <1>2 DEF Sums, N
<1> DEFINE bad == {n \in 0 .. N : ~ (s[n] = t[n] <=> n < i)}
<1>4. bad = {}
  <2> SUFFICES ASSUME bad # {} PROVE FALSE
    OBVIOUS
  <2>0. bad \subseteq Nat /\ bad \subseteq 0 .. N
    BY <1>0
  <2> HIDE DEF bad
  <2>1. PICK k \in bad : \A j \in bad : k <= j
    BY <2>0, LeastNumber
  <2>2. ~ (s[k] = t[k] <=> k < i) /\ k \in 0 .. N
    BY <2>1 DEF bad
  <2>3. k # 0
    BY <1>0, <1>3, <2>2
  <2>4. k \in 1 .. N /\ k - 1 \in 0 .. N /\ ~(k <= k - 1)
    BY <1>0, <2>2, <2>3
  <2>5. s[k - 1] = t[k - 1] <=> k - 1 < i
    BY <2>1, <2>4 DEF bad
  <2>6. s[k - 1] \in Words /\ t[k - 1] \in Words
    BY <1>3, <2>4
  <2>7. s[k] = (s[k - 1] + f[k]) % 65536
    BY <1>3, <2>4
  <2>8. t[k] = (t[k - 1] + g[k]) % 65536
    BY <1>3, <2>4
  <2>9. f[k] \in PByte /\ g[k] = IF k = i THEN c ELSE f[k]
    BY <1>0, <2>4
  <2>10. CASE k < i
    <3>1. s[k - 1] = t[k - 1] /\ g[k] = f[k]
      BY <1>0, <2>4, <2>5, <2>9, <2>10
    <3> QED BY <2>2, <2>7, <2>8, <2>10, <3>1
  <2>11. CASE k = i
    <3>1. s[k - 1] = t[k - 1] /\ g[k] = c
      BY <1>0, <2>4, <2>5, <2>9, <2>11
    <3>2. s[k] # t[k]
      BY <2>6, <2>7, <2>8, <2>9, <2>11, <3>1, SumsDiffer
    <3> QED BY <1>0, <2>2, <2>11, <3>2
  <2>12. CASE k > i
    <3>1. s[k - 1] # t[k - 1] /\ g[k] = f[k]
      BY <1>0, <2>4, <2>5, <2>9, <2>12
    <3>2. s[k] # t[k]
      BY <2>6, <2>7, <2>8, <2>9, <3>1, SumsDiffer
    <3> QED BY <1>0, <2>2, <2>4, <2>12, <3>2
  <2> QED BY <1>0, <2>4, <2>10, <2>11, <2>12
<1>5. N \in 0 .. N /\ ~(N < i)
  BY <1>0
<1>6. s[N] # t[N]
  BY <1>4, <1>5
<1> QED BY <1>1, <1>2, <1>6 DEF g

-----------------------------------------------------------------------------
(* A frame as it is sent.                                                  *)
Framed(f, from, command, data) ==
  /\ f \in Seq(PByte) /\ Len(f) = 7 + Len(data)
  /\ f[2] = from /\ f[4] = command /\ f[5] = Len(data)
  /\ \A j \in 1 .. Len(data) : f[5 + j] = data[j]
  /\ FrameSizeIsValid(f) /\ FrameChecksumIsValid(f)

LEMMA ChecksumIsAWord ==
  ASSUME NEW bytes \in Seq(PByte)
  PROVE  PentairPacket_CalculateChecksum(bytes) \in Words
<1>1. PICK s : Sums(bytes, s) /\ PentairPacket_CalculateChecksum(bytes) = s[Len(bytes)]
  BY ChecksumIsTheLastSum
<1>2. s \in [0 .. Len(bytes) -> Words] /\ Len(bytes) \in 0 .. Len(bytes)
  BY <1>1 DEF Sums
<1> QED BY <1>1, <1>2

LEMMA Halves ==
  ASSUME NEW w \in Words
  PROVE  w \div 256 \in PByte /\ w % 256 \in PByte /\ 256 * (w \div 256) + (w % 256) = w
<1>1. w \in Nat /\ w < 65536
  BY DEF Words
<1>2. \A n \in Nat : n < 65536 =>
         /\ n \div 256 \in Nat /\ n \div 256 < 256 /\ n % 256 \in Nat /\ n % 256 < 256
         /\ 256 * (n \div 256) + (n % 256) = n
  OBVIOUS
<1>3. /\ w \div 256 \in Nat /\ w \div 256 < 256 /\ w % 256 \in Nat /\ w % 256 < 256
      /\ 256 * (w \div 256) + (w % 256) = w
  BY <1>1, <1>2
<1> QED BY <1>3 DEF PByte

LEMMA Serialized ==
  ASSUME NEW from \in PByte, NEW command \in PByte, NEW data \in Seq(PByte), Len(data) < 256
  PROVE  Framed(SerializeFrame(from, CONTROLLER_ADDRESS, command, data), from, command, data)
<1> DEFINE head == <<START_OF_FRAME, from, CONTROLLER_ADDRESS, command, Len(data)>>
           body == head \o data
           sum == PentairPacket_CalculateChecksum(body)
           tail == <<sum \div 256, sum % 256>>
           f == body \o tail
<1>1. Len(data) \in Nat /\ Len(data) \in PByte /\ START_OF_FRAME \in PByte /\ CONTROLLER_ADDRESS \in PByte
  BY DEF PByte, START_OF_FRAME, CONTROLLER_ADDRESS
<1>2. head \in Seq(PByte) /\ Len(head) = 5 /\ head[2] = from /\ head[4] = command /\ head[5] = Len(data)
  BY <1>1
<1> HIDE DEF head
<1>3. /\ body \in Seq(PByte) /\ Len(body) = 5 + Len(data)
      /\ body[2] = from /\ body[4] = command /\ body[5] = Len(data)
      /\ \A j \in 1 .. Len(data) : body[5 + j] = data[j]
  <2>0. /\ body \in Seq(PByte) /\ Len(body) = Len(head) + Len(data)
        /\ \A i \in 1 .. Len(head) + Len(data) : body[i] = IF i <= Len(head) THEN head[i] ELSE data[i - Len(head)]
    BY <1>2, ConcatProperties, Zenon
  <2>1. /\ body \in Seq(PByte) /\ Len(body) = 5 + Len(data)
        /\ \A i \in 1 .. 5 + Len(data) : body[i] = IF i <= 5 THEN head[i] ELSE data[i - 5]
    BY <1>2, <2>0, Zenon
  <2> HIDE DEF body
  <2>2. 2 \in 1 .. 5 + Len(data) /\ 4 \in 1 .. 5 + Len(data) /\ 5 \in 1 .. 5 + Len(data)
    BY <1>1
  <2>3. ASSUME NEW j \in 1 .. Len(data) PROVE body[5 + j] = data[j]
    <3>1. 5 + j \in 1 .. 5 + Len(data) /\ ~(5 + j <= 5) /\ (5 + j) - 5 = j
      BY <1>1
    <3> QED BY <2>1, <3>1
  <2> QED BY <1>2, <2>1, <2>2, <2>3
<1> HIDE DEF body
<1>4. sum \in Words
  BY <1>3, ChecksumIsAWord
<1> HIDE DEF sum
<1>5. tail \in Seq(PByte) /\ Len(tail) = 2 /\ 256 * tail[1] + tail[2] = sum
  <2>1. sum \div 256 \in PByte /\ sum % 256 \in PByte /\ 256 * (sum \div 256) + (sum % 256) = sum
    BY <1>4, Halves
  <2>2. Len(tail) = 2 /\ tail[1] = sum \div 256 /\ tail[2] = sum % 256 /\ tail \in Seq(PByte)
    BY <2>1
  <2> QED BY <2>1, <2>2
<1> HIDE DEF tail
<1>6. /\ f \in Seq(PByte) /\ Len(f) = 7 + Len(data)
      /\ \A j \in 1 .. 5 + Len(data) : f[j] = body[j]
      /\ f[6 + Len(data)] = tail[1] /\ f[7 + Len(data)] = tail[2]
  <2>1. /\ f \in Seq(PByte) /\ Len(f) = Len(body) + Len(tail)
        /\ \A i \in 1 .. Len(body) + Len(tail) : f[i] = IF i <= Len(body) THEN body[i] ELSE tail[i - Len(body)]
    <3>1. body \in Seq(PByte) /\ tail \in Seq(PByte)
      BY <1>3, <1>5
    <3> QED BY <3>1, ConcatProperties, Zenon
  <2> HIDE DEF f
  <2>2. /\ Len(f) = 7 + Len(data)
        /\ \A i \in 1 .. 7 + Len(data) : f[i] = IF i <= 5 + Len(data) THEN body[i] ELSE tail[i - (5 + Len(data))]
    BY <1>1, <1>3, <1>5, <2>1
  <2>3. ASSUME NEW j \in 1 .. 5 + Len(data) PROVE f[j] = body[j]
    <3>1. j \in 1 .. 7 + Len(data) /\ j <= 5 + Len(data)
      BY <1>1
    <3> QED BY <2>2, <3>1
  <2>4. f[6 + Len(data)] = tail[1] /\ f[7 + Len(data)] = tail[2]
    <3>1. /\ 6 + Len(data) \in 1 .. 7 + Len(data) /\ ~(6 + Len(data) <= 5 + Len(data))
          /\ (6 + Len(data)) - (5 + Len(data)) = 1
          /\ 7 + Len(data) \in 1 .. 7 + Len(data) /\ ~(7 + Len(data) <= 5 + Len(data))
          /\ (7 + Len(data)) - (5 + Len(data)) = 2
      BY <1>1
    <3> QED BY <2>2, <3>1
  <2> QED BY <2>1, <2>2, <2>3, <2>4
<1> HIDE DEF f
<1>7. f[2] = from /\ f[4] = command /\ f[5] = Len(data) /\ \A j \in 1 .. Len(data) : f[5 + j] = data[j]
  BY <1>1, <1>3, <1>6
<1>8. FrameSizeIsValid(f)
  BY <1>1, <1>6, <1>7 DEF FrameSizeIsValid, HEADER_LENGTH, CHECKSUM_LENGTH, ByteAt
<1>9. SubSeq(f, 1, Len(f) - 2) = body
  <2>1. \A i \in 1 .. Len(f) - 2 : f[i] \in PByte
    BY <1>6
  <2> DEFINE g == SubSeq(f, 1, Len(f) - 2)
  <2>2. g \in Seq(PByte) /\ Len(g) = 5 + Len(data) /\ \A j \in 1 .. 5 + Len(data) : g[j] = f[j]
    BY <1>1, <1>6
  <2> HIDE DEF g
  <2>3. g = body
    BY <1>1, <1>3, <1>6, <2>2
  <2> QED BY <2>3 DEF g
<1>10. FrameChecksumIsValid(f)
  <2>1. Len(f) - 1 = 6 + Len(data) /\ Len(f) = 7 + Len(data)
    BY <1>1, <1>6
  <2>2. 256 * f[Len(f) - 1] + f[Len(f)] = sum
    BY <1>5, <1>6, <2>1
  <2> QED BY <1>9, <2>2 DEF FrameChecksumIsValid, CHECKSUM_LENGTH, sum
<1>11. Framed(f, from, command, data)
  BY <1>6, <1>7, <1>8, <1>10 DEF Framed
<1> QED BY <1>11 DEF SerializeFrame, AppendBigEndianChecksum, f, tail, sum, body, head

(* A frame with one byte changed is refused.                               *)
LEMMA DamagedIsRefused ==
  ASSUME NEW f \in Seq(PByte), FrameSizeIsValid(f), FrameChecksumIsValid(f),
         NEW i \in 1 .. Len(f), NEW c \in PByte, c # f[i]
  PROVE  DeserializeFrame([f EXCEPT ![i] = c]) = NotAccepted
<1> DEFINE g == [f EXCEPT ![i] = c]
           N == Len(f) - 2
           F == SubSeq(f, 1, N)
           G == SubSeq(g, 1, N)
<1>1. Len(f) \in Nat /\ Len(f) >= 7
  BY DEF FrameSizeIsValid, HEADER_LENGTH, CHECKSUM_LENGTH
<1>2. g \in Seq(PByte) /\ Len(g) = Len(f) /\ \A n \in 1 .. Len(f) : g[n] = IF n = i THEN c ELSE f[n]
  OBVIOUS
<1> HIDE DEF g
<1>3. /\ F \in Seq(PByte) /\ Len(F) = N /\ (\A n \in 1 .. N : F[n] = f[n])
      /\ G \in Seq(PByte) /\ Len(G) = N /\ (\A n \in 1 .. N : G[n] = g[n])
  <2>1. \A n \in 1 .. N : f[n] \in PByte /\ g[n] \in PByte
    BY <1>1, <1>2
  <2> QED BY <1>1, <1>2, <2>1
<1> HIDE DEF F, G
<1>4. PentairPacket_CalculateChecksum(F) = 256 * f[Len(f) - 1] + f[Len(f)]
  BY DEF FrameChecksumIsValid, CHECKSUM_LENGTH, F
<1>5. SUFFICES PentairPacket_CalculateChecksum(G) # 256 * g[Len(f) - 1] + g[Len(f)]
  BY <1>2 DEF FrameChecksumIsValid, CHECKSUM_LENGTH, DeserializeFrame, G, g
<1>6. /\ Len(f) - 1 \in 1 .. Len(f) /\ Len(f) \in 1 .. Len(f)
      /\ f[Len(f) - 1] \in Nat /\ f[Len(f)] \in Nat /\ c \in Nat
      /\ f[Len(f) - 1] < 256 /\ f[Len(f)] < 256 /\ c < 256
  <2>1. Len(f) - 1 \in 1 .. Len(f) /\ Len(f) \in 1 .. Len(f)
    BY <1>1
  <2>2. f[Len(f) - 1] \in PByte /\ f[Len(f)] \in PByte
    BY <2>1
  <2> QED BY <2>1, <2>2 DEF PByte
<1>7. CASE i > N
  <2>1. \A n \in 1 .. N : n \in 1 .. Len(f) /\ n # i
    BY <1>1, <1>7
  <2>2. G = F
    <3>1. \A n \in 1 .. N : G[n] = F[n]
      BY <1>2, <1>3, <2>1
    <3> QED BY <1>3, <3>1, SeqEqual
  <2>3. 256 * g[Len(f) - 1] + g[Len(f)] # 256 * f[Len(f) - 1] + f[Len(f)]
    <3>1. i = Len(f) - 1 \/ i = Len(f)
      BY <1>1, <1>7
    <3>2. g[Len(f) - 1] = IF Len(f) - 1 = i THEN c ELSE f[Len(f) - 1]
      BY <1>2, <1>6
    <3>3. g[Len(f)] = IF Len(f) = i THEN c ELSE f[Len(f)]
      BY <1>2, <1>6
    <3>4. Len(f) - 1 # Len(f)
      BY <1>1
    <3> QED BY <1>6, <3>1, <3>2, <3>3, <3>4
  <2> QED BY <1>4, <2>2, <2>3
<1>8. CASE i <= N
  <2>1. i \in 1 .. Len(F) /\ c # F[i]
    BY <1>1, <1>3, <1>8
  <2>2. G = [F EXCEPT ![i] = c]
    <3> DEFINE H == [F EXCEPT ![i] = c]
    <3>1. /\ H \in Seq(PByte) /\ Len(H) = Len(F)
          /\ \A n \in 1 .. Len(F) : H[n] = IF n = i THEN c ELSE F[n]
      BY <1>3, <2>1, ExceptSeq
    <3>2. \A n \in 1 .. N : n \in 1 .. Len(f)
      BY <1>1
    <3> HIDE DEF H
    <3>3. \A n \in 1 .. N : G[n] = H[n]
      BY <1>2, <1>3, <3>1, <3>2
    <3>4. G = H
      BY <1>3, <3>1, <3>3, SeqEqual
    <3> QED BY <3>4 DEF H
  <2>3. PentairPacket_CalculateChecksum(G) # PentairPacket_CalculateChecksum(F)
    BY <1>3, <2>1, <2>2, OneByteChangesTheSum
  <2>4. g[Len(f) - 1] = f[Len(f) - 1] /\ g[Len(f)] = f[Len(f)]
    BY <1>1, <1>2, <1>6, <1>8
  <2> QED BY <1>4, <2>3, <2>4
<1> QED BY <1>1, <1>7, <1>8

-----------------------------------------------------------------------------
(* The messages that fit their frames.                                     *)
PumpMessages       == [kind : {"pump"}, running : BOOLEAN, watts : Words, rpm : Words, gpm : PByte]
PowerMessages      == [kind : {"power"}, on : BOOLEAN]
SpeedMessages      == [kind : {"speed"}, rpm : Words]
OutputMessages     == [kind : {"output"}, output : PByte]
Salts              == {s \in Nat : \E n \in PByte : s = n * SALT_PPM_PER_UNIT}
ChlorinatorMessages == [kind : {"chlorinator"}, salt : Salts, output : PByte, flags : PByte]
ControllerMessages == [kind : {"controller"}, hour : PByte, minute : PByte, circuits : PByte, hasWater : {TRUE},
                       water : PByte, hasAir : {TRUE}, air : PByte, heaters : PByte]
UnknownMessages    == [kind : {"unknown"}, payload : {p \in Seq(PByte) : Len(p) < 256}]

(* A frame's data, as the readers see it.                                  *)
LEMMA DataBytes ==
  ASSUME NEW f, NEW from, NEW command, NEW data \in Seq(PByte), Framed(f, from, command, data)
  PROVE  \A i \in Nat : DataByteAt(f, i) = IF i >= Len(data) THEN 0 ELSE data[i + 1]
<1> SUFFICES ASSUME NEW i \in Nat PROVE DataByteAt(f, i) = IF i >= Len(data) THEN 0 ELSE data[i + 1]
  OBVIOUS
<1>1. Len(data) \in Nat /\ f[5] = Len(data) /\ \A j \in 1 .. Len(data) : f[5 + j] = data[j]
  BY DEF Framed
<1>2. CASE i >= Len(data)
  BY <1>1, <1>2 DEF DataByteAt, ByteAt
<1>3. CASE ~(i >= Len(data))
  <2>1. i + 1 \in 1 .. Len(data) /\ 5 + (i + 1) = (5 + i) + 1
    BY <1>1, <1>3
  <2>2. DataByteAt(f, i) = f[(5 + i) + 1]
    BY <1>1, <1>3 DEF DataByteAt, ByteAt, HEADER_LENGTH
  <2> QED BY <1>1, <1>3, <2>1, <2>2
<1> QED BY <1>2, <1>3

(* Of a frame with the data of a class, that class's reader is taken.      *)
LEMMA Taken ==
  ASSUME NEW f, NEW from, NEW command, NEW data, Framed(f, from, command, data), Len(data) >= Least(command)
  PROVE  DeserializeFrame(f) = CreateMessageFromCommand(command, f)
BY DEF Framed, DeserializeFrame, ByteAt

LEMMA PumpReadsBack ==
  ASSUME NEW m \in PumpMessages
  PROVE  /\ Data(m) \in Seq(PByte) /\ Len(Data(m)) < 256 /\ CommandOf(m) \in PByte
         /\ \A f, from : Framed(f, from, CommandOf(m), Data(m)) => DeserializeFrame(f) = m
<1> DEFINE d == <<IF m.running THEN 10 ELSE 4, 0, 0, m.watts \div 256, m.watts % 256, m.rpm \div 256, m.rpm % 256, m.gpm>>
<1>1. m.kind = "pump" /\ m.running \in BOOLEAN /\ m.watts \in Words /\ m.rpm \in Words /\ m.gpm \in PByte
  BY DEF PumpMessages
<1>2. Data(m) = d /\ CommandOf(m) = 7
  BY <1>1 DEF Data, PumpStatusData, CommandOf, Pump_Status
<1>3. /\ m.watts \div 256 \in PByte /\ m.watts % 256 \in PByte /\ 256 * (m.watts \div 256) + (m.watts % 256) = m.watts
      /\ m.rpm \div 256 \in PByte /\ m.rpm % 256 \in PByte /\ 256 * (m.rpm \div 256) + (m.rpm % 256) = m.rpm
  BY <1>1, Halves
<1>4. 0 \in PByte /\ 4 \in PByte /\ 10 \in PByte /\ 7 \in PByte
  BY DEF PByte
<1>5. /\ d \in Seq(PByte) /\ Len(d) = 8
      /\ d[1] = (IF m.running THEN 10 ELSE 4) /\ d[4] = m.watts \div 256 /\ d[5] = m.watts % 256
      /\ d[6] = m.rpm \div 256 /\ d[7] = m.rpm % 256 /\ d[8] = m.gpm
  BY <1>1, <1>3, <1>4
<1>5a. d \in Seq(PByte)
  BY <1>5
<1> HIDE DEF d
<1>6. ASSUME NEW f, NEW from, Framed(f, from, 7, d) PROVE DeserializeFrame(f) = m
  <2>1. DeserializeFrame(f) = PumpStatusOf(f)
    <3>1. Len(d) >= Least(7)
      BY <1>5 DEF Least, Pump_Status
    <3>2. DeserializeFrame(f) = CreateMessageFromCommand(7, f)
      BY <1>6, <3>1, Taken
    <3> QED BY <3>2 DEF CreateMessageFromCommand, Pump_Status, Pump_Power, Pump_Speed, Chlorinator_Status, Chlorinator_SetOutput, Controller_Status
  <2>2. \A i \in Nat : DataByteAt(f, i) = IF i >= 8 THEN 0 ELSE d[i + 1]
    <3>1. \A i \in Nat : DataByteAt(f, i) = IF i >= Len(d) THEN 0 ELSE d[i + 1]
      BY <1>5a, <1>6, DataBytes
    <3> QED BY <1>5, <3>1
  <2>3. /\ DataByteAt(f, 0) = d[1] /\ DataByteAt(f, 3) = d[4] /\ DataByteAt(f, 4) = d[5]
        /\ DataByteAt(f, 5) = d[6] /\ DataByteAt(f, 6) = d[7] /\ DataByteAt(f, 7) = d[8]
    BY <2>2
  <2>4. BigEndian(f, 3) = m.watts /\ BigEndian(f, 5) = m.rpm
    BY <1>3, <1>5, <2>3 DEF BigEndian
  <2>5. (DataByteAt(f, 0) = 10) = m.running
    BY <1>1, <1>5, <2>3
  <2>6. PumpStatusOf(f) = [kind |-> "pump", running |-> m.running, watts |-> m.watts, rpm |-> m.rpm, gpm |-> m.gpm]
    BY <1>5, <2>3, <2>4, <2>5 DEF PumpStatusOf
  <2> QED BY <1>1, <2>1, <2>6 DEF PumpMessages
<1> QED BY <1>2, <1>4, <1>5, <1>6

LEMMA PowerReadsBack ==
  ASSUME NEW m \in PowerMessages
  PROVE  /\ Data(m) \in Seq(PByte) /\ Len(Data(m)) < 256 /\ CommandOf(m) \in PByte
         /\ \A f, from : Framed(f, from, CommandOf(m), Data(m)) => DeserializeFrame(f) = m
<1> DEFINE d == <<IF m.on THEN 10 ELSE 4>>
<1>1. m.kind = "power" /\ m.on \in BOOLEAN
  BY DEF PowerMessages
<1>2. Data(m) = d /\ CommandOf(m) = 6
  BY <1>1 DEF Data, PowerData, CommandOf, Pump_Power
<1>4. 4 \in PByte /\ 10 \in PByte /\ 6 \in PByte
  BY DEF PByte
<1>5. d \in Seq(PByte) /\ Len(d) = 1 /\ d[1] = (IF m.on THEN 10 ELSE 4)
  BY <1>1, <1>4
<1>5a. d \in Seq(PByte)
  BY <1>5
<1> HIDE DEF d
<1>6. ASSUME NEW f, NEW from, Framed(f, from, 6, d) PROVE DeserializeFrame(f) = m
  <2>1. DeserializeFrame(f) = PowerOf(f)
    <3>1. Len(d) >= Least(6)
      BY <1>5 DEF Least, Pump_Status, Pump_Power, Pump_Speed, Chlorinator_Status, Chlorinator_SetOutput, Controller_Status
    <3>2. DeserializeFrame(f) = CreateMessageFromCommand(6, f)
      BY <1>6, <3>1, Taken
    <3> QED BY <3>2 DEF CreateMessageFromCommand, Pump_Status, Pump_Power, Pump_Speed, Chlorinator_Status, Chlorinator_SetOutput, Controller_Status
  <2>2. DataByteAt(f, 0) = d[1]
    <3>0. \A i \in Nat : DataByteAt(f, i) = IF i >= Len(d) THEN 0 ELSE d[i + 1]
      BY <1>5a, <1>6, DataBytes
    <3>1. DataByteAt(f, 0) = IF 0 >= Len(d) THEN 0 ELSE d[0 + 1]
      BY <3>0
    <3> QED BY <1>5, <3>1
  <2>3. (DataByteAt(f, 0) = 10) = m.on
    BY <1>1, <1>5, <2>2
  <2>4. PowerOf(f) = [kind |-> "power", on |-> m.on]
    BY <2>3 DEF PowerOf
  <2> QED BY <1>1, <2>1, <2>4 DEF PowerMessages
<1> QED BY <1>2, <1>4, <1>5, <1>6

LEMMA SpeedReadsBack ==
  ASSUME NEW m \in SpeedMessages
  PROVE  /\ Data(m) \in Seq(PByte) /\ Len(Data(m)) < 256 /\ CommandOf(m) \in PByte
         /\ \A f, from : Framed(f, from, CommandOf(m), Data(m)) => DeserializeFrame(f) = m
<1> DEFINE d == <<m.rpm \div 256, m.rpm % 256>>
<1>1. m.kind = "speed" /\ m.rpm \in Words
  BY DEF SpeedMessages
<1>2. Data(m) = d /\ CommandOf(m) = 1
  BY <1>1 DEF Data, SpeedData, CommandOf, Pump_Speed
<1>3. m.rpm \div 256 \in PByte /\ m.rpm % 256 \in PByte /\ 256 * (m.rpm \div 256) + (m.rpm % 256) = m.rpm
  BY <1>1, Halves
<1>4. 1 \in PByte
  BY DEF PByte
<1>5. d \in Seq(PByte) /\ Len(d) = 2 /\ d[1] = m.rpm \div 256 /\ d[2] = m.rpm % 256
  BY <1>3
<1>5a. d \in Seq(PByte)
  BY <1>5
<1> HIDE DEF d
<1>6. ASSUME NEW f, NEW from, Framed(f, from, 1, d) PROVE DeserializeFrame(f) = m
  <2>1. DeserializeFrame(f) = SpeedOf(f)
    <3>1. Len(d) >= Least(1)
      BY <1>5 DEF Least, Pump_Status, Pump_Power, Pump_Speed, Chlorinator_Status, Chlorinator_SetOutput, Controller_Status
    <3>2. DeserializeFrame(f) = CreateMessageFromCommand(1, f)
      BY <1>6, <3>1, Taken
    <3> QED BY <3>2 DEF CreateMessageFromCommand, Pump_Status, Pump_Power, Pump_Speed, Chlorinator_Status, Chlorinator_SetOutput, Controller_Status
  <2>2. DataByteAt(f, 0) = d[1] /\ DataByteAt(f, 1) = d[2]
    <3>1. \A i \in Nat : DataByteAt(f, i) = IF i >= Len(d) THEN 0 ELSE d[i + 1]
      BY <1>5a, <1>6, DataBytes
    <3> QED BY <1>5, <3>1
  <2>3. BigEndian(f, 0) = m.rpm
    BY <1>3, <1>5, <2>2 DEF BigEndian
  <2>4. SpeedOf(f) = [kind |-> "speed", rpm |-> m.rpm]
    BY <2>3 DEF SpeedOf
  <2> QED BY <1>1, <2>1, <2>4 DEF SpeedMessages
<1> QED BY <1>2, <1>4, <1>5, <1>6

LEMMA OutputReadsBack ==
  ASSUME NEW m \in OutputMessages
  PROVE  /\ Data(m) \in Seq(PByte) /\ Len(Data(m)) < 256 /\ CommandOf(m) \in PByte
         /\ \A f, from : Framed(f, from, CommandOf(m), Data(m)) => DeserializeFrame(f) = m
<1> DEFINE d == <<m.output>>
<1>1. m.kind = "output" /\ m.output \in PByte
  BY DEF OutputMessages
<1>2. Data(m) = d /\ CommandOf(m) = 17
  BY <1>1 DEF Data, SetOutputData, CommandOf, Chlorinator_SetOutput
<1>4. 17 \in PByte
  BY DEF PByte
<1>5. d \in Seq(PByte) /\ Len(d) = 1 /\ d[1] = m.output
  BY <1>1
<1>5a. d \in Seq(PByte)
  BY <1>5
<1> HIDE DEF d
<1>6. ASSUME NEW f, NEW from, Framed(f, from, 17, d) PROVE DeserializeFrame(f) = m
  <2>1. DeserializeFrame(f) = SetOutputOf(f)
    <3>1. Len(d) >= Least(17)
      BY <1>5 DEF Least, Pump_Status, Pump_Power, Pump_Speed, Chlorinator_Status, Chlorinator_SetOutput, Controller_Status
    <3>2. DeserializeFrame(f) = CreateMessageFromCommand(17, f)
      BY <1>6, <3>1, Taken
    <3> QED BY <3>2 DEF CreateMessageFromCommand, Pump_Status, Pump_Power, Pump_Speed, Chlorinator_Status, Chlorinator_SetOutput, Controller_Status
  <2>2. DataByteAt(f, 0) = d[1]
    <3>0. \A i \in Nat : DataByteAt(f, i) = IF i >= Len(d) THEN 0 ELSE d[i + 1]
      BY <1>5a, <1>6, DataBytes
    <3>1. DataByteAt(f, 0) = IF 0 >= Len(d) THEN 0 ELSE d[0 + 1]
      BY <3>0
    <3> QED BY <1>5, <3>1
  <2>4. SetOutputOf(f) = [kind |-> "output", output |-> m.output]
    BY <1>5, <2>2 DEF SetOutputOf
  <2> QED BY <1>1, <2>1, <2>4 DEF OutputMessages
<1> QED BY <1>2, <1>4, <1>5, <1>6

LEMMA ChlorinatorReadsBack ==
  ASSUME NEW m \in ChlorinatorMessages
  PROVE  /\ Data(m) \in Seq(PByte) /\ Len(Data(m)) < 256 /\ CommandOf(m) \in PByte
         /\ \A f, from : Framed(f, from, CommandOf(m), Data(m)) => DeserializeFrame(f) = m
<1> DEFINE d == <<(m.salt \div SALT_PPM_PER_UNIT) % 256, m.output, m.flags>>
<1>1. m.kind = "chlorinator" /\ m.salt \in Salts /\ m.output \in PByte /\ m.flags \in PByte
  BY DEF ChlorinatorMessages
<1>2. Data(m) = d /\ CommandOf(m) = 18
  BY <1>1 DEF Data, ChlorinatorStatusData, CommandOf, Chlorinator_Status
<1>3. (m.salt \div SALT_PPM_PER_UNIT) % 256 \in PByte /\ ((m.salt \div SALT_PPM_PER_UNIT) % 256) * SALT_PPM_PER_UNIT = m.salt
  <2>1. PICK n \in PByte : m.salt = n * SALT_PPM_PER_UNIT
    BY <1>1 DEF Salts
  <2>2. n \in Nat /\ n < 256
    BY DEF PByte
  <2>3. (m.salt \div SALT_PPM_PER_UNIT) = n /\ n % 256 = n
    BY <2>1, <2>2 DEF SALT_PPM_PER_UNIT
  <2> QED BY <2>1, <2>3
<1>4. 18 \in PByte
  BY DEF PByte
<1>5. d \in Seq(PByte) /\ Len(d) = 3 /\ d[1] = (m.salt \div SALT_PPM_PER_UNIT) % 256 /\ d[2] = m.output /\ d[3] = m.flags
  BY <1>1, <1>3
<1>5a. d \in Seq(PByte)
  BY <1>5
<1> HIDE DEF d
<1>6. ASSUME NEW f, NEW from, Framed(f, from, 18, d) PROVE DeserializeFrame(f) = m
  <2>1. DeserializeFrame(f) = ChlorinatorStatusOf(f)
    <3>1. Len(d) >= Least(18)
      BY <1>5 DEF Least, Pump_Status, Pump_Power, Pump_Speed, Chlorinator_Status, Chlorinator_SetOutput, Controller_Status
    <3>2. DeserializeFrame(f) = CreateMessageFromCommand(18, f)
      BY <1>6, <3>1, Taken
    <3> QED BY <3>2 DEF CreateMessageFromCommand, Pump_Status, Pump_Power, Pump_Speed, Chlorinator_Status, Chlorinator_SetOutput, Controller_Status
  <2>2. DataByteAt(f, 0) = d[1] /\ DataByteAt(f, 1) = d[2] /\ DataByteAt(f, 2) = d[3]
    <3>1. \A i \in Nat : DataByteAt(f, i) = IF i >= Len(d) THEN 0 ELSE d[i + 1]
      BY <1>5a, <1>6, DataBytes
    <3> QED BY <1>5, <3>1
  <2>4. ChlorinatorStatusOf(f) = [kind |-> "chlorinator", salt |-> m.salt, output |-> m.output, flags |-> m.flags]
    BY <1>3, <1>5, <2>2 DEF ChlorinatorStatusOf
  <2> QED BY <1>1, <2>1, <2>4 DEF ChlorinatorMessages
<1> QED BY <1>2, <1>4, <1>5, <1>6

LEMMA ControllerReadsBack ==
  ASSUME NEW m \in ControllerMessages
  PROVE  /\ Data(m) \in Seq(PByte) /\ Len(Data(m)) < 256 /\ CommandOf(m) \in PByte
         /\ \A f, from : Framed(f, from, CommandOf(m), Data(m)) => DeserializeFrame(f) = m
<1> DEFINE d == <<m.hour, m.minute, m.circuits, m.water, m.air, m.heaters>>
<1>1. /\ m.kind = "controller" /\ m.hour \in PByte /\ m.minute \in PByte /\ m.circuits \in PByte
      /\ m.hasWater = TRUE /\ m.water \in PByte /\ m.hasAir = TRUE /\ m.air \in PByte /\ m.heaters \in PByte
  BY DEF ControllerMessages
<1>2. Data(m) = d /\ CommandOf(m) = 2
  BY <1>1 DEF Data, ControllerStatusData, CommandOf, Controller_Status
<1>4. 2 \in PByte
  BY DEF PByte
<1>5. /\ d \in Seq(PByte) /\ Len(d) = 6 /\ d[1] = m.hour /\ d[2] = m.minute /\ d[3] = m.circuits
      /\ d[4] = m.water /\ d[5] = m.air /\ d[6] = m.heaters
  BY <1>1
<1>5a. d \in Seq(PByte)
  BY <1>5
<1> HIDE DEF d
<1>6. ASSUME NEW f, NEW from, Framed(f, from, 2, d) PROVE DeserializeFrame(f) = m
  <2>1. DeserializeFrame(f) = ControllerStatusOf(f)
    <3>1. Len(d) >= Least(2)
      BY <1>5 DEF Least, Pump_Status, Pump_Power, Pump_Speed, Chlorinator_Status, Chlorinator_SetOutput, Controller_Status
    <3>2. DeserializeFrame(f) = CreateMessageFromCommand(2, f)
      BY <1>6, <3>1, Taken
    <3> QED BY <3>2 DEF CreateMessageFromCommand, Pump_Status, Pump_Power, Pump_Speed, Chlorinator_Status, Chlorinator_SetOutput, Controller_Status
  <2>2. /\ DataByteAt(f, 0) = d[1] /\ DataByteAt(f, 1) = d[2] /\ DataByteAt(f, 2) = d[3]
        /\ DataByteAt(f, 3) = d[4] /\ DataByteAt(f, 4) = d[5] /\ DataByteAt(f, 5) = d[6]
    <3>1. \A i \in Nat : DataByteAt(f, i) = IF i >= Len(d) THEN 0 ELSE d[i + 1]
      BY <1>5a, <1>6, DataBytes
    <3> QED BY <1>5, <3>1
  <2>3. ByteAt(f, 4) = 6
    BY <1>5, <1>6 DEF Framed, ByteAt
  <2>4. ControllerStatusOf(f) =
          [kind |-> "controller", hour |-> m.hour, minute |-> m.minute, circuits |-> m.circuits,
           hasWater |-> TRUE, water |-> m.water, hasAir |-> TRUE, air |-> m.air, heaters |-> m.heaters]
    <3>1. /\ DataByteAt(f, 0) = m.hour /\ DataByteAt(f, 1) = m.minute /\ DataByteAt(f, 2) = m.circuits
          /\ DataByteAt(f, 3) = m.water /\ DataByteAt(f, 4) = m.air /\ DataByteAt(f, 5) = m.heaters
      BY <1>5, <2>2
    <3>2. (ByteAt(f, 4) > 3) = TRUE /\ (ByteAt(f, 4) > 4) = TRUE
      BY <2>3
    <3> QED BY <3>1, <3>2 DEF ControllerStatusOf
  <2> QED BY <1>1, <2>1, <2>4 DEF ControllerMessages
<1> QED BY <1>2, <1>4, <1>5, <1>6

LEMMA UnknownReadsBack ==
  ASSUME NEW m \in UnknownMessages
  PROVE  /\ Data(m) \in Seq(PByte) /\ Len(Data(m)) < 256 /\ CommandOf(m) \in PByte
         /\ \A f, from : Framed(f, from, CommandOf(m), Data(m)) => DeserializeFrame(f) = m
<1> DEFINE d == m.payload
<1>1. m.kind = "unknown" /\ d \in Seq(PByte) /\ Len(d) < 256 /\ Len(d) \in Nat
  BY DEF UnknownMessages
<1>2. Data(m) = d /\ CommandOf(m) = 0
  BY <1>1 DEF Data, CommandOf
<1>4. 0 \in PByte
  BY DEF PByte
<1> HIDE DEF d
<1>6. ASSUME NEW f, NEW from, Framed(f, from, 0, d) PROVE DeserializeFrame(f) = m
  <2>1. DeserializeFrame(f) = UnknownOf(f)
    <3>1. Len(d) >= Least(0)
      BY <1>1 DEF Least, Pump_Status, Pump_Power, Pump_Speed, Chlorinator_Status, Chlorinator_SetOutput, Controller_Status
    <3>2. DeserializeFrame(f) = CreateMessageFromCommand(0, f)
      BY <1>6, <3>1, Taken
    <3> QED BY <3>2 DEF CreateMessageFromCommand, Pump_Status, Pump_Power, Pump_Speed, Chlorinator_Status, Chlorinator_SetOutput, Controller_Status
  <2> DEFINE p == SubSeq(f, 6, 5 + Len(d))
  <2>2. f \in Seq(PByte) /\ Len(f) = 7 + Len(d) /\ f[5] = Len(d) /\ \A j \in 1 .. Len(d) : f[5 + j] = d[j]
    BY <1>6 DEF Framed
  <2>3. \A i \in 6 .. 5 + Len(d) : f[i] \in PByte
    BY <1>1, <2>2
  <2>4. /\ p \in Seq(PByte) /\ Len(p) = IF 6 <= 5 + Len(d) THEN ((5 + Len(d)) - 6) + 1 ELSE 0
        /\ \A i \in 1 .. ((5 + Len(d)) - 6) + 1 : p[i] = f[(6 + i) - 1]
    BY <1>1, <2>3, SubSeqProperties
  <2> HIDE DEF p
  <2>5. Len(p) = Len(d)
    BY <1>1, <2>4
  <2>6. ASSUME NEW i \in 1 .. Len(d) PROVE p[i] = d[i]
    <3>1. i \in 1 .. ((5 + Len(d)) - 6) + 1 /\ (6 + i) - 1 = 5 + i
      BY <1>1
    <3> QED BY <2>2, <2>4, <3>1
  <2>7. p = d
    BY <1>1, <2>4, <2>5, <2>6, SeqEqual
  <2>8. UnknownOf(f) = [kind |-> "unknown", payload |-> p]
    <3>1. HEADER_LENGTH + 1 = 6 /\ HEADER_LENGTH + ByteAt(f, 4) = 5 + Len(d)
      BY <2>2 DEF HEADER_LENGTH, ByteAt
    <3> QED BY <3>1 DEF UnknownOf, p
  <2> QED BY <1>1, <2>1, <2>7, <2>8 DEF UnknownMessages, d
<1> QED BY <1>1, <1>2, <1>4, <1>6

-----------------------------------------------------------------------------
Reports == PumpReports \cup ChlorinatorReports \cup ControllerReports \cup OtherTraffic

(* The frame under way is one of the messages, as it was sent or damaged.  *)
FrameInv ==
  frame # NoFrame =>
    /\ frame = [sent |-> frame.sent, from |-> frame.from, bytes |-> frame.bytes, damaged |-> frame.damaged]
    /\ frame.sent \in Reports /\ frame.from \in PByte /\ frame.damaged \in BOOLEAN
    /\ IF frame.damaged THEN DeserializeFrame(frame.bytes) = NotAccepted
       ELSE /\ Framed(frame.bytes, frame.from, CommandOf(frame.sent), Data(frame.sent))
            /\ DeserializeFrame(frame.bytes) = frame.sent

(* The hub's devices of the pump: the one the pump points to, or none.     *)
PumpInv ==
  /\ pump \in [running : BOOLEAN, rpm : Nat, id : Nat, watching : BOOLEAN, quiet : Nat]
  /\ made \in Nat /\ DOMAIN hubPumps \subseteq {pump.id}
  /\ hubBodies \in [air : Nat, pool : Nat, spa : Nat, mode : {"Unknown", "Spa", "Pool"}]

PentairInv == FrameInv /\ PumpInv /\ PentairTypeOK /\ HubShowsPump

LEMMA ReportsFit ==
  ASSUME NEW m \in Reports
  PROVE  /\ m \in PumpMessages \cup PowerMessages \cup SpeedMessages \cup OutputMessages
                    \cup ChlorinatorMessages \cup ControllerMessages \cup UnknownMessages
         /\ m # NotAccepted
<1> DEFINE U == PumpMessages \cup PowerMessages \cup SpeedMessages \cup OutputMessages
                  \cup ChlorinatorMessages \cup ControllerMessages \cup UnknownMessages
<1>0. /\ 0 \in Words /\ 300 \in Words /\ 1500 \in Words /\ 2400 \in Words
      /\ \A n \in {0, 1, 5, 7, 18, 30, 32, 40, 50, 60, 70, 80} : n \in PByte
  BY DEF Words, PByte
<1>0a. 0 \in PByte /\ 40 \in PByte /\ 50 \in PByte
  BY DEF PByte
<1>1. ASSUME m \in PumpReports PROVE m \in U
  <2>1. \/ m = [kind |-> "pump", running |-> TRUE, watts |-> 300, rpm |-> 2400, gpm |-> 40]
        \/ m = [kind |-> "pump", running |-> FALSE, watts |-> 0, rpm |-> 0, gpm |-> 0]
    BY <1>1 DEF PumpReports
  <2>2. CASE m = [kind |-> "pump", running |-> TRUE, watts |-> 300, rpm |-> 2400, gpm |-> 40]
    <3>1. m \in PumpMessages
      BY <1>0, <1>0a, <2>2 DEF PumpMessages
    <3> QED BY <3>1
  <2>3. CASE m = [kind |-> "pump", running |-> FALSE, watts |-> 0, rpm |-> 0, gpm |-> 0]
    <3>1. m \in PumpMessages
      BY <1>0, <1>0a, <2>3 DEF PumpMessages
    <3> QED BY <3>1
  <2> QED BY <2>1, <2>2, <2>3
<1>2. ASSUME m \in ChlorinatorReports PROVE m \in U
  <2>1. 3000 \in Salts
    <3>1. 3000 = 60 * SALT_PPM_PER_UNIT /\ 60 \in PByte
      BY <1>0 DEF SALT_PPM_PER_UNIT
    <3> QED BY <3>1 DEF Salts
  <2>2. m \in ChlorinatorMessages
    BY <1>0, <1>2, <2>1 DEF ChlorinatorReports, ChlorinatorMessages
  <2> QED BY <2>2
<1>3. ASSUME m \in ControllerReports PROVE m \in U
  <2>1. PICK c \in {1, 32}, w \in {0, 80} :
           m = [kind |-> "controller", hour |-> 7, minute |-> 30, circuits |-> c, hasWater |-> TRUE,
                water |-> w, hasAir |-> TRUE, air |-> 70, heaters |-> 1]
    BY <1>3 DEF ControllerReports
  <2>2. c \in PByte /\ w \in PByte
    BY <1>0
  <2>3. m \in ControllerMessages
    BY <1>0, <2>1, <2>2 DEF ControllerMessages
  <2> QED BY <2>3
<1>4. ASSUME m \in OtherTraffic PROVE m \in U
  <2>1. <<1, 2>> \in Seq(PByte) /\ Len(<<1, 2>>) < 256
    BY DEF PByte
  <2>2. \/ m = [kind |-> "power", on |-> TRUE] \/ m = [kind |-> "speed", rpm |-> 1500]
        \/ m = [kind |-> "output", output |-> 50] \/ m = [kind |-> "unknown", payload |-> <<1, 2>>]
    BY <1>4 DEF OtherTraffic
  <2>3. m = [kind |-> "power", on |-> TRUE] => m \in PowerMessages
    BY DEF PowerMessages
  <2>4. m = [kind |-> "speed", rpm |-> 1500] => m \in SpeedMessages
    BY <1>0 DEF SpeedMessages
  <2>5. m = [kind |-> "output", output |-> 50] => m \in OutputMessages
    BY <1>0a DEF OutputMessages
  <2>6. m = [kind |-> "unknown", payload |-> <<1, 2>>] => m \in UnknownMessages
    BY <2>1 DEF UnknownMessages
  <2> QED BY <2>2, <2>3, <2>4, <2>5, <2>6
<1>5. m \in U
  BY <1>1, <1>2, <1>3, <1>4 DEF Reports
<1>6. m.kind # "none"
  BY <1>5 DEF PumpMessages, PowerMessages, SpeedMessages, OutputMessages, ChlorinatorMessages, ControllerMessages, UnknownMessages
<1> QED BY <1>5, <1>6 DEF NotAccepted

(* What was sent is what is read.                                          *)
LEMMA ReportReadsBack ==
  ASSUME NEW m \in Reports
  PROVE  /\ Data(m) \in Seq(PByte) /\ Len(Data(m)) < 256 /\ CommandOf(m) \in PByte
         /\ \A f, from : Framed(f, from, CommandOf(m), Data(m)) => DeserializeFrame(f) = m
BY ReportsFit, PumpReadsBack, PowerReadsBack, SpeedReadsBack, OutputReadsBack, ChlorinatorReadsBack,
   ControllerReadsBack, UnknownReadsBack

LEMMA PentairInitial == PentairInit => PentairInv
<1> SUFFICES ASSUME PentairInit PROVE PentairInv
  OBVIOUS
<1>1. FrameInv
  BY DEF PentairInit, FrameInv
<1>2. PumpInv
  BY DEF PentairInit, PumpInv
<1>3. PentairTypeOK /\ HubShowsPump
  BY PentairConstants DEF PentairInit, PentairTypeOK, HubShowsPump
<1> QED BY <1>1, <1>2, <1>3 DEF PentairInv

LEMMA FrameStep == FrameInv /\ [PentairNext]_pentairVars => FrameInv'
<1> SUFFICES ASSUME FrameInv, [PentairNext]_pentairVars PROVE FrameInv'
  OBVIOUS
<1>1. ASSUME NEW m \in Reports, NEW from \in Senders, Send(m, from) PROVE FrameInv'
  <2> DEFINE f == SerializeFrame(from, CONTROLLER_ADDRESS, CommandOf(m), Data(m))
  <2>1. from \in PByte
    BY PentairConstants DEF PByte
  <2>2. Framed(f, from, CommandOf(m), Data(m)) /\ DeserializeFrame(f) = m
    BY <2>1, ReportReadsBack, Serialized
  <2> HIDE DEF f
  <2>3. frame' = [sent |-> m, from |-> from, bytes |-> f, damaged |-> FALSE]
    BY <1>1 DEF Send, f
  <2> QED BY <2>1, <2>2, <2>3 DEF FrameInv
<1>2. CASE DamageFrame
  <2>1. /\ frame # NoFrame /\ ~frame.damaged
        /\ frame = [sent |-> frame.sent, from |-> frame.from, bytes |-> frame.bytes, damaged |-> frame.damaged]
        /\ frame.sent \in Reports /\ frame.from \in PByte
        /\ Framed(frame.bytes, frame.from, CommandOf(frame.sent), Data(frame.sent))
    BY <1>2 DEF DamageFrame, FrameInv
  <2>2. PICK i \in 2 .. Len(frame.bytes), b \in {0, 1, 255} :
           b # frame.bytes[i] /\ frame' = [frame EXCEPT !.bytes[i] = b, !.damaged = TRUE]
    BY <1>2 DEF DamageFrame
  <2>3. frame.bytes \in Seq(PByte) /\ FrameSizeIsValid(frame.bytes) /\ FrameChecksumIsValid(frame.bytes)
    BY <2>1 DEF Framed
  <2>4. i \in 1 .. Len(frame.bytes) /\ b \in PByte
    BY <2>3 DEF PByte
  <2> DEFINE g == [frame.bytes EXCEPT ![i] = b]
  <2>5. DeserializeFrame(g) = NotAccepted
    BY <2>2, <2>3, <2>4, DamagedIsRefused
  <2> HIDE DEF g
  <2>6. frame' = [sent |-> frame.sent, from |-> frame.from, bytes |-> g, damaged |-> TRUE]
    BY <2>1, <2>2 DEF g
  <2> QED BY <2>1, <2>5, <2>6 DEF FrameInv
<1>3. CASE LoseFrame
  BY <1>3 DEF LoseFrame, FrameInv
<1>4. CASE ReceiveFrame
  BY <1>4 DEF ReceiveFrame, FrameInv
<1>5. CASE frame' = frame
  BY <1>5 DEF FrameInv
<1>6. PentairTimePasses \/ PumpTimedOut \/ Removed \/ UNCHANGED pentairVars => frame' = frame
  BY DEF PentairTimePasses, PumpTimedOut, Removed, pentairVars
<1> QED BY <1>1, <1>2, <1>3, <1>4, <1>5, <1>6 DEF PentairNext, Reports

-----------------------------------------------------------------------------
(* What is read of a frame: nothing, or the report that was sent.          *)
LEMMA WhatIsRead ==
  ASSUME FrameInv, frame # NoFrame, DeserializeFrame(frame.bytes) # NotAccepted
  PROVE  /\ DeserializeFrame(frame.bytes) \in Reports
         /\ ByteAt(frame.bytes, 1) \in PByte
<1>1. Framed(frame.bytes, frame.from, CommandOf(frame.sent), Data(frame.sent)) /\ frame.from \in PByte
  BY DEF FrameInv
<1>2. DeserializeFrame(frame.bytes) = frame.sent /\ frame.sent \in Reports
  BY DEF FrameInv
<1> QED BY <1>1, <1>2 DEF Framed, ByteAt

(* A frame of the pump, or its watchdog, writes the one device there is.   *)
LEMMA OneDeviceWritten ==
  ASSUME PumpInv, HubShowsPump, PentairTypeOK,
         NEW id, id = ResolvePumpDevice, NEW st \in {"Running", "Off"}, NEW g,
         hubPumps' = PutPump(id, [status |-> st, gpm |-> g]),
         made' = IF id = made + 1 THEN id ELSE made,
         pump' \in [running : BOOLEAN, rpm : Nat, id : {id}, watching : BOOLEAN, quiet : 0 .. Deadline + 1],
         pump'.running <=> st = "Running"
  PROVE  /\ made' \in Nat /\ DOMAIN hubPumps' \subseteq {pump'.id} /\ id \in Nat
         /\ pump'.quiet \in 0 .. (Deadline + 1) /\ pump'.id \in 0 .. made'
         /\ DOMAIN hubPumps' \subseteq 1 .. made'
         /\ HubShowsPump'
<1>1. /\ DOMAIN hubPumps \subseteq {pump.id} /\ pump.id \in 0 .. made /\ made \in Nat
      /\ DOMAIN hubPumps \subseteq 1 .. made
  BY DEF PumpInv, PentairTypeOK
<1>2. pump'.id = id /\ pump'.quiet \in 0 .. Deadline + 1
  OBVIOUS
<1>3. DOMAIN hubPumps' = DOMAIN hubPumps \cup {id} /\ hubPumps'[id] = [status |-> st, gpm |-> g]
  BY DEF PutPump
<1>4. CASE pump.id \in DOMAIN hubPumps
  <2>1. id = pump.id /\ id # made + 1 /\ made' = made
    BY <1>1, <1>4 DEF ResolvePumpDevice
  <2> QED BY <1>1, <1>2, <1>3, <1>4, <2>1 DEF HubShowsPump
<1>5. CASE pump.id \notin DOMAIN hubPumps
  <2>1. id = made + 1 /\ made' = made + 1 /\ DOMAIN hubPumps = {}
    BY <1>1, <1>5 DEF ResolvePumpDevice
  <2> QED BY <1>1, <1>2, <1>3, <2>1 DEF HubShowsPump
<1> QED BY <1>4, <1>5

LEMMA PumpStatusStep ==
  ASSUME PumpInv, HubShowsPump, PentairTypeOK, NEW m \in Reports, m.kind = "pump", Slot_Pump_Status(m)
  PROVE  /\ pump' \in [running : BOOLEAN, rpm : Nat, id : Nat, watching : BOOLEAN, quiet : Nat]
         /\ made' \in Nat /\ DOMAIN hubPumps' \subseteq {pump'.id}
         /\ pump'.quiet \in 0 .. (Deadline + 1) /\ pump'.id \in 0 .. made'
         /\ DOMAIN hubPumps' \subseteq 1 .. made'
         /\ HubShowsPump'
<1> DEFINE id == ResolvePumpDevice
<1>1. m \in PumpMessages
  BY ReportsFit DEF PowerMessages, SpeedMessages, OutputMessages, ChlorinatorMessages, ControllerMessages, UnknownMessages
<1>2. m.running \in BOOLEAN /\ m.rpm \in Nat
  BY <1>1 DEF PumpMessages, Words
<1>3. /\ pump' = Kicked([pump EXCEPT !.running = m.running, !.rpm = m.rpm, !.id = id])
      /\ hubPumps' = PutPump(id, [status |-> IF m.running THEN "Running" ELSE "Off", gpm |-> m.gpm])
      /\ made' = IF id = made + 1 THEN id ELSE made
  BY DEF Slot_Pump_Status
<1>4. /\ pump \in [running : BOOLEAN, rpm : Nat, id : Nat, watching : BOOLEAN, quiet : Nat]
      /\ pump.quiet \in 0 .. Deadline + 1 /\ Deadline \in Nat
  BY PentairConstants DEF PumpInv, PentairTypeOK
<1> HIDE DEF id
<1>5. /\ pump' \in [running : BOOLEAN, rpm : Nat, id : {id}, watching : BOOLEAN, quiet : 0 .. Deadline + 1]
      /\ pump'.running = m.running
  <2> DEFINE p == [pump EXCEPT !.running = m.running, !.rpm = m.rpm, !.id = id]
  <2>1. p \in [running : BOOLEAN, rpm : Nat, id : {id}, watching : BOOLEAN, quiet : 0 .. Deadline + 1] /\ p.running = m.running
    BY <1>2, <1>4
  <2> HIDE DEF p
  <2>2. 0 \in 0 .. Deadline + 1
    BY <1>4
  <2>3. /\ Kicked(p) \in [running : BOOLEAN, rpm : Nat, id : {id}, watching : BOOLEAN, quiet : 0 .. Deadline + 1]
        /\ Kicked(p).running = m.running
    BY <2>1, <2>2 DEF Kicked
  <2> QED BY <1>3, <2>3 DEF p
<1>6. (IF m.running THEN "Running" ELSE "Off") \in {"Running", "Off"} /\ (pump'.running <=> (IF m.running THEN "Running" ELSE "Off") = "Running")
  BY <1>2, <1>5
<1>7. /\ made' \in Nat /\ DOMAIN hubPumps' \subseteq {pump'.id} /\ id \in Nat
      /\ pump'.quiet \in 0 .. (Deadline + 1) /\ pump'.id \in 0 .. made'
      /\ DOMAIN hubPumps' \subseteq 1 .. made'
      /\ HubShowsPump'
  BY <1>3, <1>5, <1>6, OneDeviceWritten DEF id
<1> QED BY <1>4, <1>5, <1>7

(* Nothing of the pump, the hub or the known addresses changes.            *)
LEMMA PumpStays ==
  ASSUME PumpInv, PentairTypeOK, HubShowsPump,
         UNCHANGED <<known, pump, hubPumps, hubChlor, hubBodies, made>>
  PROVE  PumpInv' /\ PentairTypeOK' /\ HubShowsPump'
BY DEF PumpInv, PentairTypeOK, HubShowsPump

LEMMA DevicesOfRange ==
  ASSUME PentairTypeOK, NEW m, NEW from, known' = IdentifyAndAdd(m, from)
  PROVE  known' \subseteq (96 .. 111) \cup {CHLORINATOR_ADDRESS, CONTROLLER_ADDRESS}
<1>1. known \subseteq (96 .. 111) \cup {CHLORINATOR_ADDRESS, CONTROLLER_ADDRESS}
  BY DEF PentairTypeOK
<1>2. CASE ~ ValidSender(m, from)
  BY <1>1, <1>2 DEF IdentifyAndAdd
<1>3. CASE ValidSender(m, from)
  <2>1. from \in (96 .. 111) \cup {CHLORINATOR_ADDRESS, CONTROLLER_ADDRESS}
    BY <1>3 DEF ValidSender
  <2> QED BY <1>1, <1>3, <2>1 DEF IdentifyAndAdd
<1> QED BY <1>2, <1>3

(* The bodies' temperatures after a controller's report.                   *)
LEMMA BodiesStep ==
  ASSUME PumpInv, NEW m \in Reports, m.kind = "controller", Slot_Controller_Status(m)
  PROVE  hubBodies' \in [air : Nat, pool : Nat, spa : Nat, mode : {"Unknown", "Spa", "Pool"}]
<1>1. m \in ControllerMessages
  BY ReportsFit DEF PumpMessages, PowerMessages, SpeedMessages, OutputMessages, ChlorinatorMessages, UnknownMessages
<1>2. m.air \in Nat /\ m.water \in Nat
  BY <1>1 DEF ControllerMessages, PByte
<1>3. hubBodies \in [air : Nat, pool : Nat, spa : Nat, mode : {"Unknown", "Spa", "Pool"}]
  BY DEF PumpInv
<1> DEFINE spa == FlagSet(m.circuits, 1)
           water == m.hasWater /\ m.water # 0
           air == m.hasAir /\ m.air # 0
<1>4. hubBodies' = [hubBodies EXCEPT !.air = IF air THEN m.air ELSE @,
                                     !.spa = IF water /\ spa THEN m.water ELSE @,
                                     !.pool = IF water /\ ~ spa THEN m.water ELSE @,
                                     !.mode = IF spa THEN "Spa" ELSE "Pool"]
  BY DEF Slot_Controller_Status
<1> HIDE DEF spa, water, air
<1> QED BY <1>2, <1>3, <1>4

LEMMA ReceiveStep ==
  ASSUME PentairInv, ReceiveFrame
  PROVE  PumpInv' /\ PentairTypeOK' /\ HubShowsPump'
<1> DEFINE m == DeserializeFrame(frame.bytes)
           from == IF m = NotAccepted THEN 0 ELSE ByteAt(frame.bytes, 1)
<1>0. FrameInv /\ PumpInv /\ PentairTypeOK /\ HubShowsPump /\ frame # NoFrame
  BY DEF PentairInv, ReceiveFrame
<1>1. known' = IF m = NotAccepted THEN known ELSE IdentifyAndAdd(m, from)
  BY DEF ReceiveFrame
<1>2. m = NotAccepted \/ m \in Reports
  BY <1>0, WhatIsRead
<1>3. \/ m.kind = "pump" /\ Slot_Pump_Status(m) /\ UNCHANGED <<hubChlor, hubBodies>>
      \/ m.kind = "chlorinator" /\ Slot_Chlorinator_Status(m) /\ UNCHANGED <<pump, hubPumps, hubBodies, made>>
      \/ m.kind = "controller" /\ Slot_Controller_Status(m) /\ UNCHANGED <<pump, hubPumps, hubChlor, made>>
      \/ UNCHANGED <<pump, hubPumps, hubChlor, hubBodies, made>>
  BY DEF ReceiveFrame
<1> HIDE DEF m, from
<1>4. known' \subseteq (96 .. 111) \cup {CHLORINATOR_ADDRESS, CONTROLLER_ADDRESS}
  BY <1>0, <1>1, DevicesOfRange DEF PentairTypeOK
<1>5. NotAccepted.kind = "none"
  BY DEF NotAccepted
<1>6. CASE m.kind = "pump" /\ Slot_Pump_Status(m) /\ UNCHANGED <<hubChlor, hubBodies>>
  <2>1. m \in Reports
    BY <1>2, <1>5, <1>6
  <2>2. /\ pump' \in [running : BOOLEAN, rpm : Nat, id : Nat, watching : BOOLEAN, quiet : Nat]
        /\ made' \in Nat /\ DOMAIN hubPumps' \subseteq {pump'.id}
        /\ pump'.quiet \in 0 .. (Deadline + 1) /\ pump'.id \in 0 .. made'
        /\ DOMAIN hubPumps' \subseteq 1 .. made'
        /\ HubShowsPump'
    BY <1>0, <1>6, <2>1, PumpStatusStep
  <2>3. hubChlor' = hubChlor /\ hubBodies' = hubBodies
    BY <1>6
  <2>4. PumpInv'
    BY <1>0, <2>2, <2>3 DEF PumpInv
  <2>5. PentairTypeOK'
    BY <1>0, <1>4, <2>2, <2>3 DEF PentairTypeOK
  <2> QED BY <2>2, <2>4, <2>5
<1>7. CASE m.kind = "chlorinator" /\ Slot_Chlorinator_Status(m) /\ UNCHANGED <<pump, hubPumps, hubBodies, made>>
  <2>1. hubChlor'.on <=> hubChlor'.percent > 0
    BY <1>7 DEF Slot_Chlorinator_Status
  <2>2. pump' = pump /\ hubPumps' = hubPumps /\ hubBodies' = hubBodies /\ made' = made
    BY <1>7
  <2> QED BY <1>0, <1>4, <2>1, <2>2 DEF PumpInv, PentairTypeOK, HubShowsPump
<1>8. CASE m.kind = "controller" /\ Slot_Controller_Status(m) /\ UNCHANGED <<pump, hubPumps, hubChlor, made>>
  <2>1. m \in Reports
    BY <1>2, <1>5, <1>8
  <2>2. hubBodies' \in [air : Nat, pool : Nat, spa : Nat, mode : {"Unknown", "Spa", "Pool"}]
    BY <1>0, <1>8, <2>1, BodiesStep
  <2>3. pump' = pump /\ hubPumps' = hubPumps /\ hubChlor' = hubChlor /\ made' = made
    BY <1>8
  <2> QED BY <1>0, <1>4, <2>2, <2>3 DEF PumpInv, PentairTypeOK, HubShowsPump
<1>9. CASE UNCHANGED <<pump, hubPumps, hubChlor, hubBodies, made>>
  BY <1>0, <1>4, <1>9 DEF PumpInv, PentairTypeOK, HubShowsPump
<1> QED BY <1>3, <1>6, <1>7, <1>8, <1>9

LEMMA TimedOutStep ==
  ASSUME PumpInv, PentairTypeOK, HubShowsPump, PumpTimedOut
  PROVE  PumpInv' /\ PentairTypeOK' /\ HubShowsPump'
<1> DEFINE id == ResolvePumpDevice
<1>1. /\ pump' = [pump EXCEPT !.watching = FALSE, !.running = FALSE, !.rpm = 0, !.id = id]
      /\ hubPumps' = PutPump(id, [status |-> "Off", gpm |-> 0])
      /\ made' = IF id = made + 1 THEN id ELSE made
      /\ known' = known /\ hubChlor' = hubChlor /\ hubBodies' = hubBodies
  BY DEF PumpTimedOut, Off
<1>2. /\ pump \in [running : BOOLEAN, rpm : Nat, id : Nat, watching : BOOLEAN, quiet : Nat]
      /\ pump.quiet \in 0 .. Deadline + 1 /\ Deadline \in Nat
  BY PentairConstants DEF PumpInv, PentairTypeOK
<1> HIDE DEF id
<1>3. /\ pump' \in [running : BOOLEAN, rpm : Nat, id : {id}, watching : BOOLEAN, quiet : 0 .. Deadline + 1]
      /\ pump'.running = FALSE
  BY <1>1, <1>2
<1>4. "Off" \in {"Running", "Off"} /\ (pump'.running <=> "Off" = "Running")
  BY <1>3
<1>5. /\ made' \in Nat /\ DOMAIN hubPumps' \subseteq {pump'.id} /\ id \in Nat
      /\ pump'.quiet \in 0 .. (Deadline + 1) /\ pump'.id \in 0 .. made'
      /\ DOMAIN hubPumps' \subseteq 1 .. made'
      /\ HubShowsPump'
  BY <1>1, <1>3, <1>4, OneDeviceWritten DEF id
<1>6. pump' \in [running : BOOLEAN, rpm : Nat, id : Nat, watching : BOOLEAN, quiet : Nat]
  BY <1>2, <1>3, <1>5
<1> QED BY <1>1, <1>5, <1>6 DEF PumpInv, PentairTypeOK

LEMMA PumpStep == PentairInv /\ [PentairNext]_pentairVars => PumpInv' /\ PentairTypeOK' /\ HubShowsPump'
<1> SUFFICES ASSUME PentairInv, [PentairNext]_pentairVars PROVE PumpInv' /\ PentairTypeOK' /\ HubShowsPump'
  OBVIOUS
<1>0. PumpInv /\ PentairTypeOK /\ HubShowsPump
  BY DEF PentairInv
<1>1. CASE \E m \in Reports, from \in Senders : Send(m, from)
  <2>1. UNCHANGED <<known, pump, hubPumps, hubChlor, hubBodies, made>>
    BY <1>1 DEF Send
  <2> QED BY <1>0, <2>1, PumpStays
<1>2. CASE DamageFrame \/ LoseFrame \/ UNCHANGED pentairVars
  <2>1. UNCHANGED <<known, pump, hubPumps, hubChlor, hubBodies, made>>
    BY <1>2 DEF DamageFrame, LoseFrame, pentairVars
  <2> QED BY <1>0, <2>1, PumpStays
<1>3. CASE ReceiveFrame
  BY <1>3, ReceiveStep
<1>4. CASE PentairTimePasses
  <2>1. /\ pump \in [running : BOOLEAN, rpm : Nat, id : Nat, watching : BOOLEAN, quiet : Nat]
        /\ pump.quiet <= Deadline /\ Deadline \in Nat
        /\ pump' = [pump EXCEPT !.quiet = @ + 1]
    BY <1>0, <1>4, PentairConstants DEF PumpInv, PentairTimePasses
  <2>2. /\ pump' \in [running : BOOLEAN, rpm : Nat, id : Nat, watching : BOOLEAN, quiet : Nat]
        /\ pump'.quiet \in 0 .. (Deadline + 1) /\ pump'.id = pump.id /\ pump'.running = pump.running
    BY <2>1
  <2>3. UNCHANGED <<known, hubPumps, hubChlor, hubBodies, made>>
    BY <1>4 DEF PentairTimePasses
  <2>4. PumpInv'
    BY <1>0, <2>2, <2>3 DEF PumpInv
  <2>5. PentairTypeOK'
    BY <1>0, <2>2, <2>3 DEF PentairTypeOK
  <2>6. HubShowsPump'
    BY <1>0, <2>2, <2>3 DEF HubShowsPump
  <2> QED BY <2>4, <2>5, <2>6
<1>5. CASE PumpTimedOut
  BY <1>0, <1>5, TimedOutStep
<1>6. CASE Removed
  <2>1. PICK i \in DOMAIN hubPumps : hubPumps' = [j \in DOMAIN hubPumps \ {i} |-> hubPumps[j]]
    BY <1>6 DEF Removed
  <2>2. DOMAIN hubPumps' \subseteq DOMAIN hubPumps /\ \A j \in DOMAIN hubPumps' : hubPumps'[j] = hubPumps[j]
    BY <2>1
  <2>3. UNCHANGED <<known, pump, hubChlor, hubBodies, made>>
    BY <1>6 DEF Removed
  <2> QED BY <1>0, <2>2, <2>3 DEF PumpInv, PentairTypeOK, HubShowsPump
<1> QED BY <1>1, <1>2, <1>3, <1>4, <1>5, <1>6 DEF PentairNext, Reports

LEMMA PentairInvImplies == PentairInv => PentairSafe
<1> SUFFICES ASSUME PentairInv PROVE PentairSafe
  OBVIOUS
<1>1. FrameFidelity
  BY DEF PentairInv, FrameInv, FrameFidelity
<1>2. OnePumpDevice
  <2>1. DOMAIN hubPumps = {} \/ DOMAIN hubPumps = {pump.id}
    BY DEF PentairInv, PumpInv
  <2>2. Cardinality(DOMAIN hubPumps) = 0 \/ Cardinality(DOMAIN hubPumps) = 1
    BY <2>1, FS_EmptySet, FS_Singleton
  <2> QED BY <2>2 DEF OnePumpDevice
<1> QED BY <1>1, <1>2 DEF PentairInv, PentairSafe

(* Of every sequence of Pentair frames, each sent by any address, lost, or *)
(* damaged in one byte, the hub shows what the last whole one said: a      *)
(* damaged frame is refused, a whole one is read as it was written, no     *)
(* device comes of an address outside its range, the pump has one device   *)
(* however often it was removed, and that device is off once the watchdog  *)
(* has run out: SerializeFrame, FrameChecksumIsValid, ResolvePumpDevice.   *)
THEOREM PentairIsSafe == PentairSpec => []PentairSafe
<1>1. PentairInv /\ [PentairNext]_pentairVars => PentairInv'
  BY FrameStep, PumpStep DEF PentairInv
<1> QED BY <1>1, PentairInitial, PentairInvImplies, PTL DEF PentairSpec

(* A reading of the water is credited to the body that circulates and to   *)
(* no other, whatever the frames: Slot_Controller_Status.                  *)
THEOREM BodiesStayApart == PentairSpec => BodiesApart
<1> DEFINE Apart == hubBodies' # hubBodies =>
             /\ hubBodies'.spa # hubBodies.spa => hubBodies'.mode = "Spa"
             /\ hubBodies'.pool # hubBodies.pool => hubBodies'.mode = "Pool"
<1>1. ASSUME PentairInv, [PentairNext]_pentairVars PROVE [Apart]_pentairVars
  <2>1. ASSUME NEW m, Slot_Controller_Status(m) PROVE Apart
    <3> DEFINE spa == FlagSet(m.circuits, 1)
               water == m.hasWater /\ m.water # 0
               air == m.hasAir /\ m.air # 0
    <3>1. hubBodies \in [air : Nat, pool : Nat, spa : Nat, mode : {"Unknown", "Spa", "Pool"}]
      BY <1>1 DEF PentairInv, PumpInv
    <3>2. hubBodies' = [hubBodies EXCEPT !.air = IF air THEN m.air ELSE @,
                                         !.spa = IF water /\ spa THEN m.water ELSE @,
                                         !.pool = IF water /\ ~ spa THEN m.water ELSE @,
                                         !.mode = IF spa THEN "Spa" ELSE "Pool"]
      BY <2>1 DEF Slot_Controller_Status
    <3> HIDE DEF spa, water, air
    <3> QED BY <3>1, <3>2
  <2>2. hubBodies' = hubBodies \/ ReceiveFrame
    BY <1>1 DEF PentairNext, Send, DamageFrame, LoseFrame, PentairTimePasses, PumpTimedOut, Removed, pentairVars
  <2>3. ReceiveFrame => hubBodies' = hubBodies \/ \E m : Slot_Controller_Status(m)
    BY DEF ReceiveFrame
  <2> QED BY <2>1, <2>2, <2>3
<1>2. PentairInv /\ [PentairNext]_pentairVars => PentairInv'
  BY FrameStep, PumpStep DEF PentairInv
<1> QED BY <1>1, <1>2, PentairInitial, PTL DEF PentairSpec, BodiesApart

-----------------------------------------------------------------------------
(***************************************************************************)
(* The network port, for every limit of the command buffer that holds the  *)
(* port's own commands, every byte of the line, every option and sub-      *)
(* negotiation of the bridge, and every number of sends and connections.   *)
(***************************************************************************)

(* Induction up to a number, with the set of the numbers for which the     *)
(* claim holds in the place of the claim.                                  *)
LEMMA NumbersUpTo ==
  ASSUME NEW N \in Nat, NEW P, 0 \in P, \A n \in 1 .. N : n - 1 \in P => n \in P
  PROVE  \A n \in 0 .. N : n \in P
<1> DEFINE bad == {n \in 0 .. N : n \notin P}
<1> SUFFICES ASSUME bad # {} PROVE FALSE
  OBVIOUS
<1>1. PICK k \in bad : \A j \in bad : k <= j
  <2>1. bad \subseteq Nat
    OBVIOUS
  <2> HIDE DEF bad
  <2> QED BY <2>1, LeastNumber
<1>2. k \in 1 .. N /\ k - 1 \in 0 .. N /\ ~(k <= k - 1)
  OBVIOUS
<1>3. k - 1 \in P
  BY <1>1, <1>2
<1> QED BY <1>2, <1>3

(* What one step after the other makes of a sequence.                      *)
Runs(z, step, q, k, s) ==
  /\ s[0] = z
  /\ \A n \in 1 .. k : s[n] = step[<<s[n - 1], q[n]>>]

(* There is such a sequence of results.                                    *)
LEMMA RecursionExists ==
  ASSUME NEW S, NEW B, NEW step \in [S \X B -> S], NEW z \in S, NEW q \in Seq(B)
  PROVE  \E s \in [0 .. Len(q) -> S] : Runs(z, step, q, Len(q), s)
<1> DEFINE N == Len(q)
           P == {k \in 0 .. N : \E s \in [0 .. k -> S] : Runs(z, step, q, k, s)}
<1>0. N \in Nat /\ \A n \in 1 .. N : q[n] \in B
  OBVIOUS
<1> HIDE DEF N
<1>1. 0 \in P
  <2> DEFINE s == [n \in 0 .. 0 |-> z]
  <2>1. s \in [0 .. 0 -> S] /\ s[0] = z
    OBVIOUS
  <2> HIDE DEF s
  <2>2. Runs(z, step, q, 0, s)
    BY <2>1 DEF Runs
  <2> QED BY <1>0, <2>1, <2>2
<1>2. ASSUME NEW k \in 1 .. N, k - 1 \in P PROVE k \in P
  <2>0. k \in Nat /\ k \in 0 .. N /\ k # 0
    BY <1>0
  <2>1. PICK s \in [0 .. k - 1 -> S] : Runs(z, step, q, k - 1, s)
    BY <1>2
  <2> DEFINE t == [n \in 0 .. k |-> IF n = k THEN step[<<s[k - 1], q[k]>>] ELSE s[n]]
  <2>2. k - 1 \in 0 .. k - 1 /\ 0 \in 0 .. k - 1 /\ \A n \in 0 .. k : n # k => n \in 0 .. k - 1
    BY <2>0
  <2>3. t \in [0 .. k -> S]
    <3>1. s[k - 1] \in S /\ q[k] \in B
      BY <1>0, <2>2
    <3>2. step[<<s[k - 1], q[k]>>] \in S
      BY <3>1
    <3> QED BY <2>2, <3>2
  <2>4. t[0] = z
    BY <2>0, <2>1, <2>2 DEF Runs
  <2>5. ASSUME NEW n \in 1 .. k PROVE t[n] = step[<<t[n - 1], q[n]>>]
    <3>1. n \in 0 .. k /\ n - 1 \in 0 .. k /\ n - 1 # k
      BY <2>0
    <3>2. CASE n = k
      BY <3>1, <3>2
    <3>3. CASE n # k
      <4>1. n \in 1 .. k - 1
        BY <2>0, <3>3
      <4>2. s[n] = step[<<s[n - 1], q[n]>>]
        BY <2>1, <4>1 DEF Runs
      <4> QED BY <3>1, <3>3, <4>2
    <3> QED BY <3>2, <3>3
  <2> HIDE DEF t
  <2>6. Runs(z, step, q, k, t)
    BY <2>4, <2>5 DEF Runs
  <2> QED BY <2>0, <2>3, <2>6
<1> HIDE DEF P
<1>3. N \in P
  <2>1. \A n \in 0 .. N : n \in P
    BY <1>0, <1>1, <1>2, NumbersUpTo
  <2> QED BY <1>0, <2>1
<1> QED BY <1>3 DEF P, N

(* Two functions that start alike and go on alike are alike.               *)
GoAlike(N, s, t) == s[0] = t[0] /\ \A n \in 1 .. N : s[n - 1] = t[n - 1] => s[n] = t[n]
Alike(N, s, t) == \A n \in 0 .. N : s[n] = t[n]

LEMMA RecursionIsUnique ==
  ASSUME NEW N \in Nat, NEW s, NEW t, GoAlike(N, s, t)
  PROVE  Alike(N, s, t)
<1> DEFINE P == {n \in 0 .. N : s[n] = t[n]}
<1>1. 0 \in P
  BY DEF GoAlike
<1>2. \A n \in 1 .. N : n - 1 \in P => n \in P
  BY DEF GoAlike
<1> HIDE DEF P
<1>3. \A n \in 0 .. N : n \in P
  BY <1>1, <1>2, NumbersUpTo
<1> QED BY <1>3 DEF P, Alike

-----------------------------------------------------------------------------
(* Sequences one after the other.                                          *)
JoinSteps(V, seqs, s) ==
  /\ s \in [0 .. Len(seqs) -> Seq(V)] /\ s[0] = <<>>
  /\ \A n \in 1 .. Len(seqs) : s[n] = s[n - 1] \o seqs[n]
  /\ Joined(seqs) = s[Len(seqs)]

(* Joined is what the joining one after the other ends in.                 *)
LEMMA JoinedSteps ==
  ASSUME NEW V, NEW seqs \in Seq(Seq(V))
  PROVE  \E s : JoinSteps(V, seqs, s)
<1> DEFINE N == Len(seqs)
           Rec(s) == s = [n \in 0 .. N |-> IF n = 0 THEN <<>> ELSE s[n - 1] \o seqs[n]]
           join == CHOOSE s : Rec(s)
           step == [p \in Seq(V) \X Seq(V) |-> p[1] \o p[2]]
<1>0. N \in Nat /\ \A n \in 1 .. N : seqs[n] \in Seq(V)
  OBVIOUS
<1>1. step \in [Seq(V) \X Seq(V) -> Seq(V)] /\ <<>> \in Seq(V)
  <2>1. \A a, b \in Seq(V) : a \o b \in Seq(V)
    BY ConcatProperties
  <2> QED BY <2>1
<1>2. PICK s \in [0 .. N -> Seq(V)] : Runs(<<>>, step, seqs, N, s)
  <2> HIDE DEF step
  <2> QED BY <1>1, RecursionExists
<1>3. s[0] = <<>> /\ \A n \in 1 .. N : s[n] = s[n - 1] \o seqs[n]
  <2>1. ASSUME NEW n \in 1 .. N PROVE s[n] = s[n - 1] \o seqs[n]
    <3>1. n - 1 \in 0 .. N
      BY <1>0
    <3>2. s[n - 1] \in Seq(V) /\ seqs[n] \in Seq(V)
      BY <1>0, <3>1
    <3>3. s[n] = step[<<s[n - 1], seqs[n]>>]
      BY <1>2 DEF Runs
    <3> QED BY <3>2, <3>3
  <2> QED BY <1>2, <2>1 DEF Runs
<1>4. Rec(s)
  <2>1. \A n \in 0 .. N : n # 0 => n \in 1 .. N
    BY <1>0
  <2> HIDE DEF N, step
  <2>2. \A n \in 0 .. N : s[n] = IF n = 0 THEN <<>> ELSE s[n - 1] \o seqs[n]
    BY <1>3, <2>1
  <2> QED BY <1>2, <2>2
<1>5. Rec(join)
  BY <1>4
<1>6. Joined(seqs) = join[N]
  BY DEF Joined
<1> HIDE DEF N, join, step
<1>7. join[0] = <<>> /\ \A n \in 1 .. N : join[n] = join[n - 1] \o seqs[n]
  <2>1. 0 \in 0 .. N /\ \A n \in 1 .. N : n \in 0 .. N /\ n # 0
    BY <1>0
  <2> QED BY <1>5, <2>1
<1>8. Alike(N, join, s)
  <2> HIDE DEF Rec
  <2>1. GoAlike(N, join, s)
    BY <1>3, <1>7 DEF GoAlike
  <2> QED BY <1>0, <2>1, RecursionIsUnique
<1>9. Joined(seqs) = s[N]
  BY <1>0, <1>6, <1>8 DEF Alike
<1> QED BY <1>3, <1>9 DEF JoinSteps, N

(* Nothing to join, and one more to join.                                  *)
LEMMA JoinedEmpty == Joined(<<>>) = <<>>
<1>1. <<>> \in Seq(Seq({})) /\ Len(<<>>) = 0
  OBVIOUS
<1>2. PICK s : JoinSteps({}, <<>>, s)
  BY <1>1, JoinedSteps
<1> QED BY <1>1, <1>2 DEF JoinSteps

LEMMA JoinedAppend ==
  ASSUME NEW V, NEW seqs \in Seq(Seq(V)), NEW x \in Seq(V)
  PROVE  /\ Joined(Append(seqs, x)) = Joined(seqs) \o x
         /\ Joined(seqs) \in Seq(V)
<1> DEFINE N == Len(seqs)
           q == Append(seqs, x)
<1>0. N \in Nat
  OBVIOUS
<1>1. q \in Seq(Seq(V)) /\ Len(q) = N + 1 /\ q[N + 1] = x /\ \A n \in 1 .. N : q[n] = seqs[n]
  BY AppendProperties
<1>2. PICK s : JoinSteps(V, seqs, s)
  BY JoinedSteps
<1> HIDE DEF q
<1>3. PICK t : JoinSteps(V, q, t)
  BY <1>1, JoinedSteps
<1> HIDE DEF N
<1>4. /\ s[0] = <<>> /\ (\A n \in 1 .. N : s[n] = s[n - 1] \o seqs[n]) /\ Joined(seqs) = s[N]
      /\ s[N] \in Seq(V)
  <2>1. N \in 0 .. N
    BY <1>0
  <2> QED BY <1>2, <2>1 DEF JoinSteps, N
<1>5. t[0] = <<>> /\ (\A n \in 1 .. N + 1 : t[n] = t[n - 1] \o q[n]) /\ Joined(q) = t[N + 1]
  BY <1>1, <1>3 DEF JoinSteps
<1>6. Alike(N, t, s)
  <2>1. ASSUME NEW n \in 1 .. N, t[n - 1] = s[n - 1] PROVE t[n] = s[n]
    <3>1. n \in 1 .. N + 1
      BY <1>0
    <3> QED BY <1>1, <1>4, <1>5, <2>1, <3>1
  <2>2. GoAlike(N, t, s)
    BY <1>4, <1>5, <2>1 DEF GoAlike
  <2> QED BY <1>0, <2>2, RecursionIsUnique
<1>7. t[N + 1] = s[N] \o x
  <2>1. N + 1 \in 1 .. N + 1 /\ (N + 1) - 1 = N /\ N \in 0 .. N
    BY <1>0
  <2> QED BY <1>1, <1>5, <1>6, <2>1 DEF Alike
<1> QED BY <1>4, <1>5, <1>7 DEF q

-----------------------------------------------------------------------------
(* The filter.                                                             *)
FilterStates == {"DATA", "IAC", "COMMAND", "SUBNEG", "SUBNEG_IAC"}
Buffers == {s \in Seq(Octet) : Len(s) <= MAX_COMMAND_BUFFER_SIZE}
Filters == [state : FilterStates, buffer : Buffers, out : Seq(Octet)]

(* A buffer that is not full takes one more byte.                          *)
LEMMA BufferFacts ==
  /\ <<>> \in Buffers
  /\ \A s \in Buffers, b \in Octet : ~(Len(s) >= MAX_COMMAND_BUFFER_SIZE) => Append(s, b) \in Buffers
<1>1. <<>> \in Buffers
  BY NetworkConstants DEF Buffers
<1>2. ASSUME NEW s \in Buffers, NEW b \in Octet, ~(Len(s) >= MAX_COMMAND_BUFFER_SIZE) PROVE Append(s, b) \in Buffers
  <2>1. s \in Seq(Octet) /\ Len(s) \in Nat
    BY DEF Buffers
  <2>2. Append(s, b) \in Seq(Octet) /\ Len(Append(s, b)) = Len(s) + 1
    BY <2>1, AppendProperties
  <2> QED BY <1>2, <2>1, <2>2, NetworkConstants DEF Buffers
<1> QED BY <1>1, <1>2

LEMMA CollectFacts ==
  ASSUME NEW f \in Filters, NEW b \in Octet
  PROVE  Collect(f, b) \in Filters
<1>1. CASE Len(f.buffer) >= MAX_COMMAND_BUFFER_SIZE
  BY <1>1, BufferFacts DEF Collect, Filters, FilterStates
<1>2. CASE ~(Len(f.buffer) >= MAX_COMMAND_BUFFER_SIZE)
  <2>1. Append(f.buffer, b) \in Buffers
    BY <1>2, BufferFacts DEF Filters
  <2> QED BY <1>2, <2>1 DEF Collect, Filters, FilterStates
<1> QED BY <1>1, <1>2

(* A byte makes a filter of a filter.                                      *)
LEMMA ByteFiltered ==
  ASSUME NEW f \in Filters, NEW b \in Octet
  PROVE  ProcessByte(f, b) \in Filters
<1>0. f.state \in FilterStates /\ f.buffer \in Buffers /\ f.out \in Seq(Octet) /\ Append(f.out, b) \in Seq(Octet)
  BY AppendProperties DEF Filters
<1>1. CASE f.state = "DATA"
  <2>1. ProcessByte(f, b) = IF b = IAC THEN [f EXCEPT !.state = "IAC"] ELSE [f EXCEPT !.out = Append(@, b)]
    BY <1>1 DEF ProcessByte
  <2> QED BY <1>0, <2>1 DEF Filters, FilterStates
<1>2. CASE f.state = "IAC"
  <2>1. ProcessByte(f, b) = ProcessIAC(f, b)
    BY <1>2 DEF ProcessByte
  <2>2. ProcessIAC(f, b) \in {[f EXCEPT !.state = "DATA", !.out = Append(@, b)], [f EXCEPT !.state = "SUBNEG", !.buffer = <<>>],
                              [f EXCEPT !.state = "COMMAND"], [f EXCEPT !.state = "DATA"]}
    BY DEF ProcessIAC
  <2> QED BY <1>0, <2>1, <2>2, BufferFacts DEF Filters, FilterStates
<1>3. CASE f.state = "COMMAND"
  <2>1. ProcessByte(f, b) = [f EXCEPT !.state = "DATA"]
    BY <1>3 DEF ProcessByte, ProcessCommand
  <2> QED BY <1>0, <2>1 DEF Filters, FilterStates
<1>4. CASE f.state = "SUBNEG"
  <2>1. ProcessByte(f, b) = IF b = IAC THEN [f EXCEPT !.state = "SUBNEG_IAC"] ELSE Collect(f, b)
    BY <1>4 DEF ProcessByte
  <2> QED BY <1>0, <2>1, CollectFacts DEF Filters, FilterStates
<1>5. CASE f.state = "SUBNEG_IAC"
  <2>1. ProcessByte(f, b) = IF b = SE THEN [f EXCEPT !.state = "DATA"] ELSE Collect(f, b)
    BY <1>5 DEF ProcessByte, ProcessSubnegIAC
  <2> QED BY <1>0, <2>1, CollectFacts DEF Filters, FilterStates
<1> QED BY <1>0, <1>1, <1>2, <1>3, <1>4, <1>5 DEF FilterStates

At(state, buffer, out) == [state |-> state, buffer |-> buffer, out |-> out]

LEMMA AtFacts ==
  /\ \A st \in FilterStates, b \in Buffers, o \in Seq(Octet) : At(st, b, o) \in Filters
  /\ \A f \in Filters : f = At(f.state, f.buffer, f.out) /\ f.state \in FilterStates /\ f.buffer \in Buffers /\ f.out \in Seq(Octet)
BY DEF At, Filters

FilterSteps(st, bf, raw, s) ==
  /\ s \in [0 .. Len(raw) -> Filters] /\ s[0] = At(st, bf, <<>>)
  /\ \A n \in 1 .. Len(raw) : s[n] = ProcessByte(s[n - 1], raw[n])
  /\ FilterInboundData(st, bf, raw) = s[Len(raw)]

(* FilterInboundData is what one byte after the other ends in.             *)
LEMMA FilteredSteps ==
  ASSUME NEW st \in FilterStates, NEW bf \in Buffers, NEW raw \in Seq(Octet)
  PROVE  \E s : FilterSteps(st, bf, raw, s)
<1> DEFINE N == Len(raw)
           z == At(st, bf, <<>>)
           Rec(s) == s = [n \in 0 .. N |-> IF n = 0 THEN z ELSE ProcessByte(s[n - 1], raw[n])]
           fil == CHOOSE s : Rec(s)
           step == [p \in Filters \X Octet |-> ProcessByte(p[1], p[2])]
<1>0. N \in Nat /\ \A n \in 1 .. N : raw[n] \in Octet
  OBVIOUS
<1>1. step \in [Filters \X Octet -> Filters] /\ z \in Filters
  <2>1. \A f \in Filters, b \in Octet : ProcessByte(f, b) \in Filters
    BY ByteFiltered
  <2>2. z \in Filters
    <3>1. <<>> \in Seq(Octet)
      OBVIOUS
    <3> QED BY <3>1, AtFacts
  <2> HIDE DEF z
  <2> QED BY <2>1, <2>2
<1>2. PICK s \in [0 .. N -> Filters] : Runs(z, step, raw, N, s)
  <2> HIDE DEF step, z
  <2> QED BY <1>1, RecursionExists
<1>3. s[0] = z /\ \A n \in 1 .. N : s[n] = ProcessByte(s[n - 1], raw[n])
  <2>1. ASSUME NEW n \in 1 .. N PROVE s[n] = ProcessByte(s[n - 1], raw[n])
    <3>1. n - 1 \in 0 .. N
      BY <1>0
    <3>2. s[n - 1] \in Filters /\ raw[n] \in Octet
      BY <1>0, <3>1
    <3>3. s[n] = step[<<s[n - 1], raw[n]>>]
      BY <1>2 DEF Runs
    <3> QED BY <3>2, <3>3
  <2> QED BY <1>2, <2>1 DEF Runs
<1>4. Rec(s)
  BY <1>0, <1>3
<1>5. Rec(fil)
  BY <1>4
<1>6. FilterInboundData(st, bf, raw) = fil[N]
  BY DEF FilterInboundData, At
<1> HIDE DEF N, fil, z
<1>7. fil[0] = z /\ \A n \in 1 .. N : fil[n] = ProcessByte(fil[n - 1], raw[n])
  BY <1>0, <1>5
<1>8. Alike(N, fil, s)
  <2> HIDE DEF Rec
  <2>1. GoAlike(N, fil, s)
    BY <1>3, <1>7 DEF GoAlike
  <2> QED BY <1>0, <2>1, RecursionIsUnique
<1>9. FilterInboundData(st, bf, raw) = s[N]
  BY <1>0, <1>6, <1>8 DEF Alike
<1> QED BY <1>3, <1>9 DEF FilterSteps, N, z

(* Nothing to read, and one more byte to read.                             *)
LEMMA FilterNothing ==
  ASSUME NEW st \in FilterStates, NEW bf \in Buffers
  PROVE  FilterInboundData(st, bf, <<>>) = At(st, bf, <<>>)
<1>1. <<>> \in Seq(Octet) /\ Len(<<>>) = 0
  OBVIOUS
<1>2. PICK s : FilterSteps(st, bf, <<>>, s)
  BY <1>1, FilteredSteps
<1> QED BY <1>1, <1>2 DEF FilterSteps

LEMMA FilterAppend ==
  ASSUME NEW st \in FilterStates, NEW bf \in Buffers, NEW raw \in Seq(Octet), NEW x \in Octet
  PROVE  /\ FilterInboundData(st, bf, Append(raw, x)) = ProcessByte(FilterInboundData(st, bf, raw), x)
         /\ FilterInboundData(st, bf, raw) \in Filters
<1> DEFINE N == Len(raw)
           q == Append(raw, x)
<1>0. N \in Nat
  OBVIOUS
<1>1. q \in Seq(Octet) /\ Len(q) = N + 1 /\ q[N + 1] = x /\ \A n \in 1 .. N : q[n] = raw[n]
  BY AppendProperties
<1>2. PICK s : FilterSteps(st, bf, raw, s)
  BY FilteredSteps
<1> HIDE DEF q
<1>3. PICK t : FilterSteps(st, bf, q, t)
  BY <1>1, FilteredSteps
<1> HIDE DEF N
<1>4. /\ s[0] = At(st, bf, <<>>) /\ (\A n \in 1 .. N : s[n] = ProcessByte(s[n - 1], raw[n]))
      /\ FilterInboundData(st, bf, raw) = s[N] /\ s[N] \in Filters
  BY <1>0, <1>2 DEF FilterSteps, N
<1>5. /\ t[0] = At(st, bf, <<>>) /\ (\A n \in 1 .. N + 1 : t[n] = ProcessByte(t[n - 1], q[n]))
      /\ FilterInboundData(st, bf, q) = t[N + 1]
  BY <1>1, <1>3 DEF FilterSteps
<1>6. Alike(N, t, s)
  <2>1. ASSUME NEW n \in 1 .. N, t[n - 1] = s[n - 1] PROVE t[n] = s[n]
    <3>1. n \in 1 .. N + 1
      BY <1>0
    <3> QED BY <1>1, <1>4, <1>5, <2>1, <3>1
  <2>2. GoAlike(N, t, s)
    BY <1>4, <1>5, <2>1 DEF GoAlike
  <2> QED BY <1>0, <2>2, RecursionIsUnique
<1>7. t[N + 1] = ProcessByte(s[N], x)
  <2>1. N + 1 \in 1 .. N + 1 /\ (N + 1) - 1 = N /\ N \in 0 .. N
    BY <1>0
  <2> QED BY <1>1, <1>5, <1>6, <2>1 DEF Alike
<1> QED BY <1>4, <1>5, <1>7 DEF q

-----------------------------------------------------------------------------
(* Induction over the sequences, with a set in the place of the claim.     *)
LEMMA SequencesGrow ==
  ASSUME NEW B, NEW P, <<>> \in P, \A q \in Seq(B), x \in B : q \in P => Append(q, x) \in P
  PROVE  \A q \in Seq(B) : q \in P
<1> SUFFICES ASSUME NEW q \in Seq(B) PROVE q \in P
  OBVIOUS
<1> DEFINE N == Len(q)
           Q == {n \in 0 .. N : SubSeq(q, 1, n) \in P}
<1>0. N \in Nat /\ \A n \in 1 .. N : q[n] \in B
  OBVIOUS
<1>1. 0 \in Q
  <2>1. SubSeq(q, 1, 0) = <<>>
    BY SubSeqEmpty
  <2>2. SubSeq(q, 1, 0) \in P
    BY <2>1
  <2>3. 0 \in 0 .. N
    BY <1>0
  <2> HIDE DEF N
  <2> QED BY <2>2, <2>3
<1>2. ASSUME NEW n \in 1 .. N, n - 1 \in Q PROVE n \in Q
  <2>1. n \in Nat /\ n - 1 \in 0 .. N /\ n \in 0 .. N /\ (n - 1) + 1 = n
    BY <1>0
  <2>2. SubSeq(q, 1, n) = Append(SubSeq(q, 1, n - 1), q[n]) /\ SubSeq(q, 1, n - 1) \in Seq(B)
    BY <2>1
  <2>3. SubSeq(q, 1, n - 1) \in P
    BY <1>2
  <2>4. q[n] \in B
    BY <1>0
  <2>5. SubSeq(q, 1, n) \in P
    BY <2>2, <2>3, <2>4
  <2> QED BY <2>1, <2>5
<1> HIDE DEF Q
<1>3. N \in Q
  <2>1. \A n \in 0 .. N : n \in Q
    BY <1>0, <1>1, <1>2, NumbersUpTo
  <2> QED BY <1>0, <2>1
<1>4. SubSeq(q, 1, N) = q
  BY <1>0
<1> QED BY <1>3, <1>4 DEF Q

Regroups(p, q, r) == (p \o q) \o r = p \o (q \o r)

LEMMA Regrouped ==
  ASSUME NEW B, NEW p \in Seq(B), NEW q \in Seq(B), NEW r \in Seq(B)
  PROVE  Regroups(p, q, r)
BY ConcatAssociative DEF Regroups

(* Sequences put together.                                                 *)
LEMMA ConcatFacts ==
  ASSUME NEW B, NEW p \in Seq(B), NEW q \in Seq(B), NEW r \in Seq(B), NEW x \in B
  PROVE  /\ p \o q \in Seq(B) /\ (p \o q) \o r = p \o (q \o r)
         /\ p \o <<>> = p /\ <<>> \o p = p
         /\ p \o Append(q, x) = Append(p \o q, x) /\ Append(q, x) \in Seq(B)
<1>1. p \o q \in Seq(B) /\ p \o <<>> = p /\ <<>> \o p = p
  BY ConcatProperties, ConcatEmptySeq
<1>2. Regroups(p, q, r)
  BY Regrouped
<1>3. Append(q, x) \in Seq(B)
  BY AppendProperties
<1>4. p \o Append(q, x) = Append(p \o q, x)
  <2>1. <<x>> \in Seq(B)
    OBVIOUS
  <2>2. Append(q, x) = q \o <<x>> /\ Append(p \o q, x) = (p \o q) \o <<x>>
    BY <1>1, AppendIsConcat
  <2>3. Regroups(p, q, <<x>>)
    BY <2>1, Regrouped
  <2> QED BY <2>2, <2>3 DEF Regroups
<1> QED BY <1>1, <1>2, <1>3, <1>4 DEF Regroups

(* The filter goes on from where it stands; what it hands out earlier does *)
(* not matter to it.                                                       *)
Behind(f, out) == At(f.state, f.buffer, out \o f.out)

LEMMA BehindOut ==
  ASSUME NEW f, NEW o
  PROVE  Behind(f, o).out = o \o f.out
BY DEF Behind, At

Read(f, raw) == Behind(FilterInboundData(f.state, f.buffer, raw), f.out)

LEMMA BehindFacts ==
  ASSUME NEW f \in Filters, NEW o \in Seq(Octet), NEW p \in Seq(Octet)
  PROVE  /\ Behind(f, o) \in Filters /\ Behind(f, <<>>) = f
         /\ Behind(Behind(f, o), p) = Behind(f, p \o o)
<1>1. f.state \in FilterStates /\ f.buffer \in Buffers /\ f.out \in Seq(Octet) /\ f = At(f.state, f.buffer, f.out)
  BY AtFacts
<1>2. o \o f.out \in Seq(Octet) /\ <<>> \o f.out = f.out /\ p \o (o \o f.out) = (p \o o) \o f.out
  <2>1. f.out \in Seq(Octet)
    BY <1>1
  <2>2. o \o f.out \in Seq(Octet)
    BY <2>1, ConcatProperties
  <2>3. <<>> \o f.out = f.out
    BY <2>1, ConcatEmptySeq
  <2>4. Regroups(p, o, f.out)
    BY <2>1, Regrouped
  <2> QED BY <2>2, <2>3, <2>4 DEF Regroups
<1> QED BY <1>1, <1>2, AtFacts DEF Behind, At

LEMMA ByteBehind ==
  ASSUME NEW f \in Filters, NEW o \in Seq(Octet), NEW b \in Octet
  PROVE  ProcessByte(Behind(f, o), b) = Behind(ProcessByte(f, b), o)
<1>0. /\ f.state \in FilterStates /\ f.buffer \in Buffers /\ f.out \in Seq(Octet)
      /\ o \o Append(f.out, b) = Append(o \o f.out, b)
  BY ConcatFacts, AtFacts
<1> DEFINE g == Behind(f, o)
<1>1. g = [state |-> f.state, buffer |-> f.buffer, out |-> o \o f.out]
  BY DEF Behind, At
<1>2. f = [state |-> f.state, buffer |-> f.buffer, out |-> f.out]
  BY AtFacts DEF At
<1> HIDE DEF g
<1>3. Collect(g, b) = Behind(Collect(f, b), o)
  BY <1>0, <1>1, <1>2 DEF Collect, Behind, At
<1>4. CASE f.state = "DATA"
  BY <1>0, <1>1, <1>2, <1>4 DEF ProcessByte, Behind, At
<1>5. CASE f.state = "IAC"
  <2>1. ProcessByte(f, b) = ProcessIAC(f, b) /\ ProcessByte(g, b) = ProcessIAC(g, b)
    BY <1>1, <1>5 DEF ProcessByte
  <2>2. IAC # SB /\ IAC \notin OptionVerbs /\ SB \notin OptionVerbs
    BY DEF IAC, SB, OptionVerbs
  <2>3. CASE b = IAC
    BY <1>0, <1>1, <1>2, <2>1, <2>2, <2>3 DEF ProcessIAC, Behind, At
  <2>4. CASE b = SB
    BY <1>0, <1>1, <1>2, <2>1, <2>2, <2>4 DEF ProcessIAC, Behind, At
  <2>5. CASE b \in OptionVerbs
    BY <1>0, <1>1, <1>2, <2>1, <2>2, <2>5 DEF ProcessIAC, Behind, At
  <2>6. CASE b \notin {IAC, SB} \cup OptionVerbs
    BY <1>0, <1>1, <1>2, <2>1, <2>6 DEF ProcessIAC, Behind, At
  <2> QED BY <2>3, <2>4, <2>5, <2>6
<1>6. CASE f.state = "COMMAND"
  BY <1>0, <1>1, <1>2, <1>6 DEF ProcessByte, ProcessCommand, Behind, At
<1>7. CASE f.state = "SUBNEG"
  BY <1>0, <1>1, <1>2, <1>3, <1>7 DEF ProcessByte, Behind, At
<1>8. CASE f.state = "SUBNEG_IAC"
  BY <1>0, <1>1, <1>2, <1>3, <1>8 DEF ProcessByte, ProcessSubnegIAC, Behind, At
<1> QED BY <1>0, <1>4, <1>5, <1>6, <1>7, <1>8 DEF FilterStates, g

(* Reading nothing, and one more byte.                                     *)
LEMMA ReadNothing ==
  ASSUME NEW f \in Filters
  PROVE  Read(f, <<>>) = f
<1>1. f.state \in FilterStates /\ f.buffer \in Buffers /\ f.out \in Seq(Octet) /\ f = At(f.state, f.buffer, f.out)
  BY AtFacts
<1>2. FilterInboundData(f.state, f.buffer, <<>>) = At(f.state, f.buffer, <<>>)
  BY <1>1, FilterNothing
<1>3. f.out \o <<>> = f.out
  BY <1>1, ConcatEmptySeq
<1>4. Read(f, <<>>) = At(f.state, f.buffer, f.out \o <<>>)
  <2>1. /\ At(f.state, f.buffer, <<>>).state = f.state /\ At(f.state, f.buffer, <<>>).buffer = f.buffer
        /\ At(f.state, f.buffer, <<>>).out = <<>>
    BY DEF At
  <2> QED BY <1>2, <2>1 DEF Read, Behind
<1> QED BY <1>1, <1>3, <1>4

LEMMA ReadAppend ==
  ASSUME NEW f \in Filters, NEW raw \in Seq(Octet), NEW x \in Octet
  PROVE  Read(f, Append(raw, x)) = ProcessByte(Read(f, raw), x) /\ Read(f, raw) \in Filters
<1> DEFINE g == FilterInboundData(f.state, f.buffer, raw)
           h == FilterInboundData(f.state, f.buffer, Append(raw, x))
<1>1. f.state \in FilterStates /\ f.buffer \in Buffers /\ f.out \in Seq(Octet)
  BY AtFacts
<1>2. h = ProcessByte(g, x) /\ g \in Filters
  BY <1>1, FilterAppend
<1> HIDE DEF g, h
<1>3. ProcessByte(Behind(g, f.out), x) = Behind(ProcessByte(g, x), f.out) /\ Behind(g, f.out) \in Filters
  BY <1>1, <1>2, ByteBehind, BehindFacts
<1>4. Read(f, raw) = Behind(g, f.out) /\ Read(f, Append(raw, x)) = Behind(h, f.out)
  BY DEF Read, g, h
<1> QED BY <1>2, <1>3, <1>4

(* Reading only adds to what is handed out.                                *)
LEMMA ReadOut ==
  ASSUME NEW f \in Filters, NEW raw \in Seq(Octet)
  PROVE  \E o \in Seq(Octet) : Read(f, raw).out = f.out \o o
<1>1. f.state \in FilterStates /\ f.buffer \in Buffers /\ 0 \in Octet
  BY AtFacts DEF Octet
<1>2. FilterInboundData(f.state, f.buffer, raw) \in Filters
  BY <1>1, FilterAppend
<1>3. FilterInboundData(f.state, f.buffer, raw).out \in Seq(Octet)
  BY <1>2, AtFacts
<1> QED BY <1>3 DEF Read, Behind, At

(* Reading a sequence in two pieces.                                       *)
LEMMA ReadOn ==
  ASSUME NEW f \in Filters, NEW r \in Seq(Octet), NEW q \in Seq(Octet)
  PROVE  Read(f, r \o q) = Read(Read(f, r), q) /\ Read(f, r) \in Filters
<1> DEFINE g == Read(f, r)
           P == {p \in Seq(Octet) : Read(f, r \o p) = Read(g, p)}
<1>0. g \in Filters
  <2>1. 0 \in Octet
    BY DEF Octet
  <2> QED BY <2>1, ReadAppend
<1>1. <<>> \in P
  <2>1. <<>> \in Seq(Octet) /\ r \o <<>> = r
    BY ConcatEmptySeq
  <2> HIDE DEF g
  <2>2. Read(g, <<>>) = g
    BY <1>0, ReadNothing
  <2>3. Read(f, r \o <<>>) = g
    BY <2>1 DEF g
  <2> QED BY <2>1, <2>2, <2>3
<1>2. ASSUME NEW p \in Seq(Octet), NEW x \in Octet, p \in P PROVE Append(p, x) \in P
  <2>1. r \o p \in Seq(Octet) /\ r \o Append(p, x) = Append(r \o p, x) /\ Append(p, x) \in Seq(Octet)
    BY ConcatFacts
  <2> HIDE DEF g
  <2>2. Read(f, Append(r \o p, x)) = ProcessByte(Read(f, r \o p), x)
    BY <2>1, ReadAppend
  <2>3. Read(g, Append(p, x)) = ProcessByte(Read(g, p), x)
    BY <1>0, ReadAppend
  <2>4. Read(f, r \o p) = Read(g, p)
    BY <1>2
  <2> QED BY <2>1, <2>2, <2>3, <2>4
<1> HIDE DEF P
<1>3. \A p \in Seq(Octet) : p \in P
  BY <1>1, <1>2, SequencesGrow
<1> QED BY <1>0, <1>3 DEF P

(* One, two and three bytes.                                               *)
LEMMA ShortSequences ==
  ASSUME NEW x \in Octet, NEW y \in Octet, NEW z \in Octet
  PROVE  /\ <<x>> \in Seq(Octet) /\ Append(<<x>>, y) = <<x, y>>
         /\ <<x, y>> \in Seq(Octet) /\ Append(<<x, y>>, z) = <<x, y, z>>
<1>1. <<x>> \in Seq(Octet) /\ Len(<<x>>) = 1
  OBVIOUS
<1>2. <<x, y>> \in Seq(Octet) /\ Len(<<x, y>>) = 2
  OBVIOUS
<1>3. <<x, y, z>> \in Seq(Octet) /\ Len(<<x, y, z>>) = 3
  OBVIOUS
<1>4. Append(<<x>>, y) = <<x, y>>
  <2> DEFINE a == Append(<<x>>, y)
             t == <<x, y>>
  <2>1. a \in Seq(Octet) /\ Len(a) = 2 /\ a[1] = x /\ a[2] = y
    BY <1>1, AppendProperties
  <2>2. t \in Seq(Octet) /\ Len(t) = 2 /\ t[1] = x /\ t[2] = y
    BY <1>2
  <2> HIDE DEF a, t
  <2>3. \A i \in 1 .. 2 : a[i] = t[i]
    BY <2>1, <2>2
  <2>4. a = t
    BY <2>1, <2>2, <2>3, SeqEqual
  <2> QED BY <2>4 DEF a, t
<1>5. Append(<<x, y>>, z) = <<x, y, z>>
  <2> DEFINE a == Append(<<x, y>>, z)
             t == <<x, y, z>>
  <2>1. a \in Seq(Octet) /\ Len(a) = 3 /\ a[1] = x /\ a[2] = y /\ a[3] = z
    BY <1>2, AppendProperties
  <2>2. t \in Seq(Octet) /\ Len(t) = 3 /\ t[1] = x /\ t[2] = y /\ t[3] = z
    BY <1>3
  <2> HIDE DEF a, t
  <2>3. \A i \in 1 .. 3 : a[i] = t[i]
    BY <2>1, <2>2
  <2>4. a = t
    BY <2>1, <2>2, <2>3, SeqEqual
  <2> QED BY <2>4 DEF a, t
<1> QED BY <1>1, <1>2, <1>4, <1>5

(* Reading them.                                                           *)
LEMMA ReadOne ==
  ASSUME NEW f \in Filters, NEW x \in Octet
  PROVE  Read(f, <<x>>) = ProcessByte(f, x) /\ ProcessByte(f, x) \in Filters
<1>1. <<>> \in Seq(Octet) /\ Append(<<>>, x) = <<x>>
  OBVIOUS
<1>2. Read(f, Append(<<>>, x)) = ProcessByte(Read(f, <<>>), x)
  BY <1>1, ReadAppend
<1> QED BY <1>1, <1>2, ReadNothing, ByteFiltered

(* Two and three bytes.                                                    *)
LEMMA ReadTwo ==
  ASSUME NEW f \in Filters, NEW x \in Octet, NEW y \in Octet
  PROVE  Read(f, <<x, y>>) = ProcessByte(ProcessByte(f, x), y)
<1>1. <<x>> \in Seq(Octet) /\ Append(<<x>>, y) = <<x, y>>
  BY ShortSequences
<1>2. Read(f, Append(<<x>>, y)) = ProcessByte(Read(f, <<x>>), y)
  BY <1>1, ReadAppend
<1> QED BY <1>1, <1>2, ReadOne

LEMMA ReadThree ==
  ASSUME NEW f \in Filters, NEW x \in Octet, NEW y \in Octet, NEW z \in Octet
  PROVE  Read(f, <<x, y, z>>) = ProcessByte(ProcessByte(ProcessByte(f, x), y), z)
<1>1. <<x, y>> \in Seq(Octet) /\ Append(<<x, y>>, z) = <<x, y, z>>
  BY ShortSequences
<1>2. Read(f, Append(<<x, y>>, z)) = ProcessByte(Read(f, <<x, y>>), z)
  BY <1>1, ReadAppend
<1> QED BY <1>1, <1>2, ReadTwo

-----------------------------------------------------------------------------
(* Escaping.                                                               *)
LEMMA DoubledIsBytes ==
  ASSUME NEW b \in Octet
  PROVE  Doubled(b) \in Seq(Octet)
BY DEF Doubled

(* Escaping goes byte by byte.                                             *)
LEMMA EscapeAppend ==
  ASSUME NEW d \in Seq(Octet), NEW b \in Octet
  PROVE  Escape(Append(d, b)) = Escape(d) \o Doubled(b) /\ Escape(d) \in Seq(Octet)
<1> DEFINE pieces(s) == [i \in 1 .. Len(s) |-> Doubled(s[i])]
           N == Len(d)
           e == Append(d, b)
<1>0. N \in Nat /\ \A i \in 1 .. N : d[i] \in Octet
  OBVIOUS
<1>1. e \in Seq(Octet) /\ Len(e) = N + 1 /\ e[N + 1] = b /\ \A i \in 1 .. N : e[i] = d[i]
  BY AppendProperties
<1> HIDE DEF e
<1>2. pieces(d) \in Seq(Seq(Octet)) /\ Len(pieces(d)) = N
  BY <1>0, DoubledIsBytes DEF N
<1>3. pieces(e) = Append(pieces(d), Doubled(b))
  <2>1. pieces(e) \in Seq(Seq(Octet)) /\ Len(pieces(e)) = N + 1
    BY <1>0, <1>1, DoubledIsBytes
  <2>2. Doubled(b) \in Seq(Octet)
    BY DoubledIsBytes
  <2> DEFINE a == Append(pieces(d), Doubled(b))
             p == pieces(d)
             r == pieces(e)
  <2>3. (\A i \in 1 .. N : p[i] = Doubled(d[i])) /\ \A i \in 1 .. N + 1 : r[i] = Doubled(e[i])
    BY <1>1
  <2> HIDE DEF p
  <2>4. a \in Seq(Seq(Octet)) /\ Len(a) = N + 1 /\ (\A i \in 1 .. N : a[i] = p[i]) /\ a[N + 1] = Doubled(b)
    BY <1>2, <2>2, AppendProperties DEF p
  <2> HIDE DEF a, r, N
  <2>5. \A i \in 1 .. N + 1 : r[i] = a[i]
    <3>1. \A i \in 1 .. N + 1 : i # N + 1 => i \in 1 .. N
      BY <1>0
    <3> QED BY <1>1, <2>3, <2>4, <3>1
  <2>6. r \in Seq(Seq(Octet)) /\ Len(r) = N + 1
    BY <2>1 DEF r
  <2>7. r = a
    BY <2>4, <2>5, <2>6, SeqEqual
  <2> QED BY <2>7 DEF r, a
<1>4. Escape(d) = Joined(pieces(d)) /\ Escape(e) = Joined(pieces(e))
  BY DEF Escape
<1> HIDE DEF pieces
<1>5. Joined(Append(pieces(d), Doubled(b))) = Joined(pieces(d)) \o Doubled(b) /\ Joined(pieces(d)) \in Seq(Octet)
  BY <1>2, DoubledIsBytes, JoinedAppend
<1> QED BY <1>3, <1>4, <1>5 DEF e

LEMMA EscapeNothing == Escape(<<>>) = <<>>
<1>1. [i \in 1 .. Len(<<>>) |-> Doubled(<<>>[i])] = <<>>
  OBVIOUS
<1> QED BY <1>1, JoinedEmpty DEF Escape

LEMMA EscapeOne ==
  ASSUME NEW b \in Octet
  PROVE  Escape(<<b>>) = Doubled(b)
<1>1. <<>> \in Seq(Octet) /\ Append(<<>>, b) = <<b>>
  OBVIOUS
<1>2. Escape(Append(<<>>, b)) = Escape(<<>>) \o Doubled(b)
  BY <1>1, EscapeAppend
<1>3. <<>> \o Doubled(b) = Doubled(b)
  BY DoubledIsBytes, ConcatEmptySeq
<1> QED BY <1>1, <1>2, <1>3, EscapeNothing

-----------------------------------------------------------------------------
(* What the filter makes of what the bridge sends.                         *)
LEMMA BytesFiltered ==
  ASSUME NEW b \in Buffers, NEW o \in Seq(Octet), NEW x \in Octet
  PROVE  /\ x # IAC => ProcessByte(At("DATA", b, o), x) = At("DATA", b, Append(o, x))
         /\ ProcessByte(At("DATA", b, o), IAC) = At("IAC", b, o)
         /\ ProcessByte(At("IAC", b, o), IAC) = At("DATA", b, Append(o, IAC))
         /\ ProcessByte(At("IAC", b, o), SB) = At("SUBNEG", <<>>, o)
         /\ x \in OptionVerbs => ProcessByte(At("IAC", b, o), x) = At("COMMAND", b, o)
         /\ x \notin OptionVerbs \cup {IAC, SB} => ProcessByte(At("IAC", b, o), x) = At("DATA", b, o)
         /\ ProcessByte(At("COMMAND", b, o), x) = At("DATA", b, o)
<1>1. x # IAC => ProcessByte(At("DATA", b, o), x) = At("DATA", b, Append(o, x))
  BY DEF ProcessByte, At
<1>2. ProcessByte(At("DATA", b, o), IAC) = At("IAC", b, o)
  BY DEF ProcessByte, At
<1>3. IAC # SB /\ IAC \notin OptionVerbs /\ SB \notin OptionVerbs
  BY DEF IAC, SB, OptionVerbs
<1>4. \A y : ProcessByte(At("IAC", b, o), y) = ProcessIAC(At("IAC", b, o), y)
  BY DEF ProcessByte, At
<1>5. ProcessIAC(At("IAC", b, o), IAC) = At("DATA", b, Append(o, IAC))
  BY <1>3 DEF ProcessIAC, At
<1>6. ProcessIAC(At("IAC", b, o), SB) = At("SUBNEG", <<>>, o)
  BY <1>3 DEF ProcessIAC, At
<1>7. x \in OptionVerbs => ProcessIAC(At("IAC", b, o), x) = At("COMMAND", b, o)
  BY <1>3 DEF ProcessIAC, At
<1>8. x \notin OptionVerbs \cup {IAC, SB} => ProcessIAC(At("IAC", b, o), x) = At("DATA", b, o)
  BY <1>3 DEF ProcessIAC, At
<1>9. ProcessByte(At("COMMAND", b, o), x) = At("DATA", b, o)
  BY DEF ProcessByte, ProcessCommand, At
<1> QED BY <1>1, <1>2, <1>4, <1>5, <1>6, <1>7, <1>8, <1>9

LEMMA BytesCollected ==
  ASSUME NEW b \in Buffers, NEW o \in Seq(Octet), NEW x \in Octet
  PROVE  /\ Len(b) < MAX_COMMAND_BUFFER_SIZE /\ x # IAC =>
              ProcessByte(At("SUBNEG", b, o), x) = At("SUBNEG", Append(b, x), o)
         /\ ProcessByte(At("SUBNEG", b, o), IAC) = At("SUBNEG_IAC", b, o)
         /\ ProcessByte(At("SUBNEG_IAC", b, o), SE) = At("DATA", b, o)
         /\ Len(b) < MAX_COMMAND_BUFFER_SIZE =>
              ProcessByte(At("SUBNEG_IAC", b, o), IAC) = At("SUBNEG", Append(b, IAC), o)
<1>0. /\ Len(b) \in Nat /\ MAX_COMMAND_BUFFER_SIZE \in Nat
      /\ Len(b) < MAX_COMMAND_BUFFER_SIZE => ~(Len(b) >= MAX_COMMAND_BUFFER_SIZE)
  BY NetworkConstants DEF Buffers
<1>1. \A st, y : Len(b) < MAX_COMMAND_BUFFER_SIZE => Collect(At(st, b, o), y) = At("SUBNEG", Append(b, y), o)
  BY <1>0 DEF Collect, At
<1>2. IAC # SE
  BY DEF IAC, SE
<1>3. x # IAC => ProcessByte(At("SUBNEG", b, o), x) = Collect(At("SUBNEG", b, o), x)
  BY DEF ProcessByte, At
<1>4. ProcessByte(At("SUBNEG", b, o), IAC) = At("SUBNEG_IAC", b, o)
  BY DEF ProcessByte, At
<1>5. ProcessByte(At("SUBNEG_IAC", b, o), SE) = At("DATA", b, o)
  BY DEF ProcessByte, ProcessSubnegIAC, At
<1>6. ProcessByte(At("SUBNEG_IAC", b, o), IAC) = Collect(At("SUBNEG_IAC", b, o), IAC)
  BY <1>2 DEF ProcessByte, ProcessSubnegIAC, At
<1> QED BY <1>1, <1>3, <1>4, <1>5, <1>6

(* The telnet bytes are bytes.                                             *)
LEMMA Octets == /\ IAC \in Octet /\ SB \in Octet /\ SE \in Octet /\ WILL \in Octet
                /\ COM_PORT_OPTION \in Octet /\ OptionVerbs \subseteq Octet /\ 0 \in Octet
                /\ IAC # SE /\ IAC # SB /\ IAC # COM_PORT_OPTION
BY DEF IAC, SB, SE, WILL, COM_PORT_OPTION, OptionVerbs, Octet

(* A byte of the line, doubled if need be.                                 *)
LEMMA ReadDoubled ==
  ASSUME NEW b \in Buffers, NEW o \in Seq(Octet), NEW x \in Octet
  PROVE  Read(At("DATA", b, o), Doubled(x)) = At("DATA", b, Append(o, x))
<1>0. At("DATA", b, o) \in Filters
  BY AtFacts DEF FilterStates
<1>1. CASE x = IAC
  <2>1. Read(At("DATA", b, o), <<IAC, IAC>>) = ProcessByte(ProcessByte(At("DATA", b, o), IAC), IAC)
    BY <1>0, Octets, ReadTwo
  <2> QED BY <1>1, <2>1, BytesFiltered DEF Doubled
<1>2. CASE x # IAC
  <2>1. Read(At("DATA", b, o), <<x>>) = ProcessByte(At("DATA", b, o), x)
    BY <1>0, ReadOne
  <2> QED BY <1>2, <2>1, BytesFiltered DEF Doubled
<1> QED BY <1>1, <1>2

(* A byte of a sub-negotiation, doubled if need be.                        *)
LEMMA CollectDoubled ==
  ASSUME NEW b \in Buffers, NEW o \in Seq(Octet), NEW x \in Octet, Len(b) < MAX_COMMAND_BUFFER_SIZE
  PROVE  Read(At("SUBNEG", b, o), Doubled(x)) = At("SUBNEG", Append(b, x), o)
<1>0. At("SUBNEG", b, o) \in Filters
  BY AtFacts DEF FilterStates
<1>1. CASE x = IAC
  <2>1. Read(At("SUBNEG", b, o), <<IAC, IAC>>) = ProcessByte(ProcessByte(At("SUBNEG", b, o), IAC), IAC)
    BY <1>0, Octets, ReadTwo
  <2> QED BY <1>1, <2>1, BytesCollected DEF Doubled
<1>2. CASE x # IAC
  <2>1. Read(At("SUBNEG", b, o), <<x>>) = ProcessByte(At("SUBNEG", b, o), x)
    BY <1>0, ReadOne
  <2> QED BY <1>2, <2>1, BytesCollected DEF Doubled
<1> QED BY <1>1, <1>2

(* The contents of a sub-negotiation that fits.                            *)
LEMMA CollectEscaped ==
  ASSUME NEW b \in Buffers, NEW o \in Seq(Octet), NEW d \in Seq(Octet), Len(b) + Len(d) <= MAX_COMMAND_BUFFER_SIZE
  PROVE  Read(At("SUBNEG", b, o), Escape(d)) = At("SUBNEG", b \o d, o) /\ b \o d \in Buffers
<1> DEFINE f == At("SUBNEG", b, o)
           P == {e \in Seq(Octet) : Len(b) + Len(e) <= MAX_COMMAND_BUFFER_SIZE => Read(f, Escape(e)) = At("SUBNEG", b \o e, o)}
<1>0. f \in Filters /\ b \in Seq(Octet) /\ Len(b) \in Nat /\ MAX_COMMAND_BUFFER_SIZE \in Nat
  BY AtFacts, NetworkConstants DEF FilterStates, Buffers
<1>1. <<>> \in P
  <2>1. <<>> \in Seq(Octet) /\ b \o <<>> = b
    BY <1>0, ConcatEmptySeq
  <2>2. Read(f, Escape(<<>>)) = f
    <3> HIDE DEF f
    <3> QED BY <1>0, EscapeNothing, ReadNothing
  <2> QED BY <2>1, <2>2
<1>2. ASSUME NEW e \in Seq(Octet), NEW x \in Octet, e \in P PROVE Append(e, x) \in P
  <2>1. /\ Append(e, x) \in Seq(Octet) /\ Len(Append(e, x)) = Len(e) + 1 /\ Len(e) \in Nat
        /\ b \o Append(e, x) = Append(b \o e, x) /\ b \o e \in Seq(Octet) /\ Len(b \o e) = Len(b) + Len(e)
    <3>1. Append(e, x) \in Seq(Octet) /\ Len(Append(e, x)) = Len(e) + 1 /\ Len(e) \in Nat
      BY AppendProperties
    <3>2. b \o Append(e, x) = Append(b \o e, x)
      BY <1>0, ConcatFacts
    <3>3. b \o e \in Seq(Octet) /\ Len(b \o e) = Len(b) + Len(e)
      BY <1>0, ConcatProperties
    <3> QED BY <3>1, <3>2, <3>3
  <2> SUFFICES ASSUME Len(b) + Len(Append(e, x)) <= MAX_COMMAND_BUFFER_SIZE
               PROVE  Read(f, Escape(Append(e, x))) = At("SUBNEG", b \o Append(e, x), o)
    BY <2>1
  <2>2. Len(b) + Len(e) <= MAX_COMMAND_BUFFER_SIZE /\ Len(b \o e) < MAX_COMMAND_BUFFER_SIZE /\ Len(b \o e) <= MAX_COMMAND_BUFFER_SIZE
    BY <1>0, <2>1
  <2>3. b \o e \in Buffers
    BY <2>1, <2>2 DEF Buffers
  <2>4. Read(f, Escape(e)) = At("SUBNEG", b \o e, o)
    BY <1>2, <2>2
  <2> HIDE DEF f
  <2>5. Escape(Append(e, x)) = Escape(e) \o Doubled(x) /\ Escape(e) \in Seq(Octet) /\ Doubled(x) \in Seq(Octet)
    BY EscapeAppend, DoubledIsBytes
  <2>6. Read(f, Escape(e) \o Doubled(x)) = Read(Read(f, Escape(e)), Doubled(x))
    BY <1>0, <2>5, ReadOn
  <2>7. Read(At("SUBNEG", b \o e, o), Doubled(x)) = At("SUBNEG", Append(b \o e, x), o)
    BY <2>2, <2>3, CollectDoubled
  <2> QED BY <2>1, <2>4, <2>5, <2>6, <2>7
<1> HIDE DEF P
<1>3. \A e \in Seq(Octet) : e \in P
  BY <1>1, <1>2, SequencesGrow
<1>4. b \o d \in Seq(Octet) /\ Len(b \o d) = Len(b) + Len(d)
  BY <1>0, ConcatProperties
<1>5. b \o d \in Buffers
  BY <1>4 DEF Buffers
<1> QED BY <1>3, <1>5 DEF P

LEMMA EscapeIsBytes ==
  ASSUME NEW d \in Seq(Octet)
  PROVE  Escape(d) \in Seq(Octet)
<1>1. 0 \in Octet
  BY Octets
<1> QED BY <1>1, EscapeAppend

(* The end of a sub-negotiation, and a whole one.                          *)
LEMMA ReadContents ==
  ASSUME NEW b \in Buffers, NEW o \in Seq(Octet), NEW d \in Seq(Octet), Len(b) + Len(d) <= MAX_COMMAND_BUFFER_SIZE
  PROVE  Read(At("SUBNEG", b, o), Escape(d) \o <<IAC, SE>>) = At("DATA", b \o d, o)
<1>0. At("SUBNEG", b, o) \in Filters /\ Escape(d) \in Seq(Octet) /\ <<IAC, SE>> \in Seq(Octet)
  BY AtFacts, EscapeIsBytes, Octets DEF FilterStates
<1>1. Read(At("SUBNEG", b, o), Escape(d) \o <<IAC, SE>>) = Read(Read(At("SUBNEG", b, o), Escape(d)), <<IAC, SE>>)
  BY <1>0, ReadOn
<1>2. Read(At("SUBNEG", b, o), Escape(d)) = At("SUBNEG", b \o d, o) /\ b \o d \in Buffers
  BY CollectEscaped
<1>3. At("SUBNEG", b \o d, o) \in Filters
  BY <1>2, AtFacts DEF FilterStates
<1>4. Read(At("SUBNEG", b \o d, o), <<IAC, SE>>) = ProcessByte(ProcessByte(At("SUBNEG", b \o d, o), IAC), SE)
  BY <1>3, Octets, ReadTwo
<1>5. ProcessByte(At("SUBNEG", b \o d, o), IAC) = At("SUBNEG_IAC", b \o d, o)
  BY <1>2, BytesCollected, Octets
<1>6. ProcessByte(At("SUBNEG_IAC", b \o d, o), SE) = At("DATA", b \o d, o)
  BY <1>2, BytesCollected, Octets
<1> QED BY <1>1, <1>2, <1>4, <1>5, <1>6

(* A whole sub-negotiation puts its contents into the buffer.              *)
LEMMA ReadSubNegotiation ==
  ASSUME NEW b \in Buffers, NEW o \in Seq(Octet), NEW d \in Seq(Octet), Len(d) <= MAX_COMMAND_BUFFER_SIZE
  PROVE  Read(At("DATA", b, o), SubNegotiation(d)) = At("DATA", d, o) /\ d \in Buffers
<1> DEFINE tail == Escape(d) \o <<IAC, SE>>
<1>0. /\ At("DATA", b, o) \in Filters /\ Escape(d) \in Seq(Octet) /\ <<IAC, SE>> \in Seq(Octet)
      /\ <<IAC, SB>> \in Seq(Octet) /\ <<>> \in Buffers
  BY AtFacts, EscapeIsBytes, Octets, BufferFacts DEF FilterStates
<1>1. tail \in Seq(Octet) /\ SubNegotiation(d) = <<IAC, SB>> \o tail
  BY <1>0, ConcatFacts, Octets DEF SubNegotiation
<1> HIDE DEF tail
<1>2. Read(At("DATA", b, o), <<IAC, SB>> \o tail) = Read(Read(At("DATA", b, o), <<IAC, SB>>), tail)
  BY <1>0, <1>1, ReadOn
<1>3. Read(At("DATA", b, o), <<IAC, SB>>) = ProcessByte(ProcessByte(At("DATA", b, o), IAC), SB)
  BY <1>0, Octets, ReadTwo
<1>4. ProcessByte(ProcessByte(At("DATA", b, o), IAC), SB) = At("SUBNEG", <<>>, o)
  BY Octets, BytesFiltered
<1>5. Len(<<>>) + Len(d) <= MAX_COMMAND_BUFFER_SIZE /\ <<>> \o d = d
  BY ConcatEmptySeq
<1>6. Read(At("SUBNEG", <<>>, o), tail) = At("DATA", <<>> \o d, o)
  BY <1>0, <1>5, ReadContents DEF tail
<1>7. d \in Buffers
  BY DEF Buffers
<1> QED BY <1>1, <1>2, <1>3, <1>4, <1>5, <1>6, <1>7

(* A command or an option negotiation leaves the filter as it was.         *)
LEMMA ReadOption ==
  ASSUME NEW b \in Buffers, NEW o \in Seq(Octet), NEW c, IsOption(c)
  PROVE  Read(At("DATA", b, o), c) = At("DATA", b, o) /\ c \in Seq(Octet)
<1>0. At("DATA", b, o) \in Filters
  BY AtFacts DEF FilterStates
<1>1. ASSUME NEW v \in Octet \ (OptionVerbs \cup {IAC, SB}), c = <<IAC, v>>
      PROVE  Read(At("DATA", b, o), c) = At("DATA", b, o) /\ c \in Seq(Octet)
  <2>1. Read(At("DATA", b, o), <<IAC, v>>) = ProcessByte(ProcessByte(At("DATA", b, o), IAC), v)
    BY <1>0, Octets, ReadTwo
  <2>2. ProcessByte(ProcessByte(At("DATA", b, o), IAC), v) = At("DATA", b, o)
    BY BytesFiltered
  <2>3. <<IAC, v>> \in Seq(Octet)
    BY Octets
  <2> QED BY <1>1, <2>1, <2>2, <2>3
<1>2. ASSUME NEW v \in OptionVerbs, NEW option \in Octet, c = <<IAC, v, option>>
      PROVE  Read(At("DATA", b, o), c) = At("DATA", b, o) /\ c \in Seq(Octet)
  <2>0. v \in Octet
    BY Octets
  <2>1. Read(At("DATA", b, o), <<IAC, v, option>>) = ProcessByte(ProcessByte(ProcessByte(At("DATA", b, o), IAC), v), option)
    BY <1>0, <2>0, Octets, ReadThree
  <2>2. ProcessByte(ProcessByte(At("DATA", b, o), IAC), v) = At("COMMAND", b, o)
    BY <2>0, BytesFiltered
  <2>3. ProcessByte(At("COMMAND", b, o), option) = At("DATA", b, o)
    BY BytesFiltered
  <2>4. <<IAC, v, option>> \in Seq(Octet)
    BY <2>0, Octets
  <2> QED BY <1>2, <2>1, <2>2, <2>3, <2>4
<1> QED BY <1>1, <1>2 DEF IsOption

-----------------------------------------------------------------------------
(* What will have been handed over once all that has arrived is read.      *)
Begins(s, t) == \E o \in Seq(Octet) : t = s \o o
Rest(p, h, in) == Read(At(p.state, p.buffer, h), in)
Outcome(p, h, in) == IF p.rfc THEN Rest(p, h, in).out ELSE h \o in
Ports == [isOpen : BOOLEAN, socket : BOOLEAN, rfc : BOOLEAN, state : FilterStates, buffer : Buffers, warnings : Nat]

(* To be a beginning of is reflexive and transitive.                       *)
LEMMA BeginsFacts ==
  ASSUME NEW r \in Seq(Octet), NEW s \in Seq(Octet), NEW t \in Seq(Octet)
  PROVE  /\ Begins(s, s) /\ (Begins(r, s) /\ Begins(s, t) => Begins(r, t))
         /\ Begins(s, s \o t)
<1>1. s \o <<>> = s /\ <<>> \in Seq(Octet)
  BY ConcatEmptySeq
<1>2. ASSUME Begins(r, s), Begins(s, t) PROVE Begins(r, t)
  <2>1. PICK o \in Seq(Octet) : s = r \o o
    BY <1>2 DEF Begins
  <2>2. PICK q \in Seq(Octet) : t = s \o q
    BY <1>2 DEF Begins
  <2>3. o \o q \in Seq(Octet) /\ (r \o o) \o q = r \o (o \o q)
    <3>1. o \o q \in Seq(Octet)
      BY ConcatProperties
    <3>2. Regroups(r, o, q)
      BY Regrouped, Zenon
    <3> QED BY <3>1, <3>2 DEF Regroups
  <2> QED BY <2>1, <2>2, <2>3 DEF Begins
<1> QED BY <1>1, <1>2 DEF Begins

(* A sequence cut in two.                                                  *)
LEMMA Pieces ==
  ASSUME NEW s \in Seq(Octet), NEW n \in 0 .. Len(s)
  PROVE  /\ SubSeq(s, 1, n) \in Seq(Octet) /\ SubSeq(s, n + 1, Len(s)) \in Seq(Octet)
         /\ SubSeq(s, 1, n) \o SubSeq(s, n + 1, Len(s)) = s
         /\ SubSeq(s, 1, 0) = <<>>
<1>0. Len(s) \in Nat /\ n \in Nat /\ \A i \in 1 .. Len(s) : s[i] \in Octet
  OBVIOUS
<1>1. SubSeq(s, 1, n) \in Seq(Octet) /\ SubSeq(s, n + 1, Len(s)) \in Seq(Octet)
  OBVIOUS
<1>2. 1 \in 1 .. Len(s) + 1 /\ n \in 1 - 1 .. Len(s) /\ Len(s) \in n .. Len(s)
  BY <1>0
<1>3. SubSeq(s, 1, n) \o SubSeq(s, n + 1, Len(s)) = SubSeq(s, 1, Len(s))
  BY <1>2, ConcatAdjacentSubSeq
<1>4. SubSeq(s, 1, Len(s)) = s
  BY SubSeqFull
<1>5. SubSeq(s, 1, 0) = <<>>
  BY SubSeqEmpty
<1> QED BY <1>1, <1>3, <1>4, <1>5

(* What has been handed over is a beginning of what will have been.        *)
LEMMA RestFacts ==
  ASSUME NEW p \in Ports, NEW h \in Seq(Octet), NEW in \in Seq(Octet)
  PROVE  /\ At(p.state, p.buffer, h) \in Filters /\ Rest(p, h, in) \in Filters
         /\ Outcome(p, h, in) \in Seq(Octet) /\ Begins(h, Outcome(p, h, in))
         /\ Outcome(p, h, <<>>) = h
<1>0. p.state \in FilterStates /\ p.buffer \in Buffers /\ 0 \in Octet
  BY Octets DEF Ports
<1>1. At(p.state, p.buffer, h) \in Filters /\ At(p.state, p.buffer, h).out = h
  BY <1>0, AtFacts DEF At
<1>2. Rest(p, h, in) \in Filters
  BY <1>0, <1>1, ReadAppend DEF Rest
<1>3. Rest(p, h, in).out \in Seq(Octet)
  BY <1>2, AtFacts
<1>4. h \o in \in Seq(Octet)
  BY ConcatProperties
<1>5. \E o \in Seq(Octet) : Rest(p, h, in).out = h \o o
  BY <1>1, ReadOut DEF Rest
<1>6. Rest(p, h, <<>>).out = h
  BY <1>1, ReadNothing DEF Rest
<1>7. h \o <<>> = h
  BY ConcatEmptySeq
<1> QED BY <1>1, <1>2, <1>3, <1>4, <1>5, <1>6, <1>7 DEF Outcome, Begins

(* The port p becomes q by reading the bytes a, of which f is made.        *)
ReadOff(p, q, a, f) ==
  /\ f = FilterInboundData(p.state, p.buffer, a)
  /\ q.state = f.state /\ q.buffer = f.buffer /\ q.rfc = p.rfc /\ p.rfc

LEMMA OutcomeOfARead ==
  ASSUME NEW p \in Ports, NEW h \in Seq(Octet), NEW a \in Seq(Octet), NEW c \in Seq(Octet),
         NEW f, NEW q \in Ports, ReadOff(p, q, a, f)
  PROVE  /\ Rest(q, h \o f.out, c) = Rest(p, h, a \o c)
         /\ Outcome(q, h \o f.out, c) = Outcome(p, h, a \o c)
         /\ h \o f.out \in Seq(Octet)
<1> USE DEF ReadOff
<1> DEFINE g == At(p.state, p.buffer, h)
<1>0. p.state \in FilterStates /\ p.buffer \in Buffers /\ 0 \in Octet
  BY Octets DEF Ports
<1>1. g \in Filters /\ g.state = p.state /\ g.buffer = p.buffer /\ g.out = h
  BY <1>0, AtFacts DEF At
<1>2. Rest(p, h, a \o c) = Read(g, a \o c)
  BY DEF Rest
<1> HIDE DEF g
<1>3. Read(g, a) = At(f.state, f.buffer, h \o f.out)
  BY <1>1 DEF Read, Behind
<1>4. Read(g, a \o c) = Read(Read(g, a), c)
  BY <1>1, ReadOn
<1>5. Rest(q, h \o f.out, c) = Read(At(f.state, f.buffer, h \o f.out), c)
  BY DEF Rest
<1>6. f \in Filters
  BY <1>0, FilterAppend
<1>7. f.out \in Seq(Octet)
  BY <1>6, AtFacts
<1>8. h \o f.out \in Seq(Octet)
  BY <1>7, ConcatProperties
<1> QED BY <1>2, <1>3, <1>4, <1>5, <1>8 DEF Outcome

(* Bytes that will never be read.                                          *)
LEMMA OutcomeOfACut ==
  ASSUME NEW p \in Ports, NEW h \in Seq(Octet), NEW a \in Seq(Octet), NEW c \in Seq(Octet)
  PROVE  Begins(Outcome(p, h, a), Outcome(p, h, a \o c))
<1>1. At(p.state, p.buffer, h) \in Filters /\ Rest(p, h, a) \in Filters
  BY RestFacts
<1>2. Rest(p, h, a \o c) = Read(Rest(p, h, a), c)
  BY <1>1, ReadOn DEF Rest
<1>3. \E o \in Seq(Octet) : Rest(p, h, a \o c).out = Rest(p, h, a).out \o o
  <2>1. \E o \in Seq(Octet) : Read(Rest(p, h, a), c).out = Rest(p, h, a).out \o o
    BY <1>1, ReadOut
  <2> QED BY <1>2, <2>1
<1>4. h \o (a \o c) = (h \o a) \o c
  <2>1. Regroups(h, a, c)
    BY Regrouped
  <2> QED BY <2>1 DEF Regroups
<1> QED BY <1>3, <1>4 DEF Outcome, Begins

(* What the bridge sends is put behind what has arrived.                   *)
LEMMA OutcomeOfASend ==
  ASSUME NEW p \in Ports, NEW h \in Seq(Octet), NEW in \in Seq(Octet), p.rfc, Rest(p, h, in).state = "DATA"
  PROVE  /\ \A x \in Octet : /\ Rest(p, h, in \o Escape(<<x>>)).state = "DATA"
                             /\ Outcome(p, h, in \o Escape(<<x>>)) = Append(Outcome(p, h, in), x)
         /\ \A c : IsOption(c) => /\ Rest(p, h, in \o c).state = "DATA"
                                  /\ Outcome(p, h, in \o c) = Outcome(p, h, in)
         /\ \A d \in Seq(Octet) : Len(d) <= MAX_COMMAND_BUFFER_SIZE =>
                 /\ Rest(p, h, in \o SubNegotiation(d)).state = "DATA"
                 /\ Outcome(p, h, in \o SubNegotiation(d)) = Outcome(p, h, in)
<1> DEFINE f == Rest(p, h, in)
           o == f.out
           b == f.buffer
<1>0. /\ At(p.state, p.buffer, h) \in Filters /\ f \in Filters /\ o \in Seq(Octet) /\ b \in Buffers
      /\ f = At("DATA", b, o) /\ Outcome(p, h, in) = o
  BY RestFacts, AtFacts DEF Outcome
<1>1. \A c \in Seq(Octet) : Rest(p, h, in \o c) = Read(f, c)
  BY <1>0, ReadOn DEF Rest
<1> HIDE DEF f, o, b
<1>2. \A c, bb, oo : Rest(p, h, in \o c) = At("DATA", bb, oo) =>
                        Rest(p, h, in \o c).state = "DATA" /\ Outcome(p, h, in \o c) = oo
  BY DEF Outcome, At
<1>3. ASSUME NEW x \in Octet PROVE Rest(p, h, in \o Escape(<<x>>)) = At("DATA", b, Append(o, x))
  <2>1. Escape(<<x>>) = Doubled(x) /\ Doubled(x) \in Seq(Octet)
    BY EscapeOne, DoubledIsBytes
  <2>2. Read(At("DATA", b, o), Doubled(x)) = At("DATA", b, Append(o, x))
    BY <1>0, ReadDoubled
  <2> QED BY <1>0, <1>1, <2>1, <2>2
<1>4. ASSUME NEW c, IsOption(c) PROVE Rest(p, h, in \o c) = At("DATA", b, o)
  <2>1. Read(At("DATA", b, o), c) = At("DATA", b, o) /\ c \in Seq(Octet)
    BY <1>0, <1>4, ReadOption
  <2> QED BY <1>0, <1>1, <2>1
<1>5. ASSUME NEW d \in Seq(Octet), Len(d) <= MAX_COMMAND_BUFFER_SIZE
      PROVE  Rest(p, h, in \o SubNegotiation(d)) = At("DATA", d, o)
  <2>1. Read(At("DATA", b, o), SubNegotiation(d)) = At("DATA", d, o)
    BY <1>0, <1>5, ReadSubNegotiation
  <2>2. SubNegotiation(d) \in Seq(Octet)
    <3>1. <<IAC, SB>> \in Seq(Octet) /\ <<IAC, SE>> \in Seq(Octet) /\ Escape(d) \in Seq(Octet)
      BY Octets, EscapeIsBytes
    <3> QED BY <3>1, ConcatProperties DEF SubNegotiation
  <2> QED BY <1>0, <1>1, <2>1, <2>2
<1>6. \A x \in Octet : /\ Rest(p, h, in \o Escape(<<x>>)).state = "DATA"
                      /\ Outcome(p, h, in \o Escape(<<x>>)) = Append(Outcome(p, h, in), x)
  BY <1>0, <1>2, <1>3
<1>7. \A c : IsOption(c) => Rest(p, h, in \o c).state = "DATA" /\ Outcome(p, h, in \o c) = Outcome(p, h, in)
  BY <1>0, <1>2, <1>4
<1>8. \A d \in Seq(Octet) : Len(d) <= MAX_COMMAND_BUFFER_SIZE =>
        /\ Rest(p, h, in \o SubNegotiation(d)).state = "DATA"
        /\ Outcome(p, h, in \o SubNegotiation(d)) = Outcome(p, h, in)
  BY <1>0, <1>2, <1>5
<1> QED BY <1>6, <1>7, <1>8

-----------------------------------------------------------------------------
(* The commands the port sends while it opens.                             *)
Settings == {Setting.baud, Setting.size, Setting.parity, Setting.stop, Setting.flow}

(* What has been told: the negotiation, the five settings in the order of  *)
(* the handler, the five in the order of Initialise(), the line's bytes.   *)
Opening(out) ==
  /\ out[1] = Negotiation
  /\ out[2] = Setting.baud /\ out[3] = Setting.size /\ out[4] = Setting.parity /\ out[5] = Setting.stop /\ out[6] = Setting.flow
  /\ out[7] = Setting.baud /\ out[8] = Setting.parity /\ out[9] = Setting.size /\ out[10] = Setting.stop /\ out[11] = Setting.flow

(* 9600 baud in four bytes.                                                *)
LEMMA BaudRate == EncodeBaudRate(9600) = <<0, 0, 37, 128>> /\ EncodeBaudRate(9600) \in Seq(Octet)
<1>1. 9600 \div 16777216 = 0 /\ (9600 \div 65536) % 256 = 0 /\ (9600 \div 256) % 256 = 37 /\ 9600 % 256 = 128
  OBVIOUS
<1>2. EncodeBaudRate(9600) = <<0, 0, 37, 128>>
  BY <1>1 DEF EncodeBaudRate
<1>3. 0 \in Octet /\ 37 \in Octet /\ 128 \in Octet
  BY DEF Octet
<1>4. \A e : e = <<0, 0, 37, 128>> => e \in Seq(Octet)
  BY <1>3
<1>5. EncodeBaudRate(9600) \in Seq(Octet)
  BY <1>2, <1>4
<1> QED BY <1>2, <1>5

(* What the port sends are bytes.                                          *)
LEMMA CommandIsBytes ==
  ASSUME NEW c \in Octet, NEW d \in Seq(Octet)
  PROVE  SendCommand(c, d) \in Seq(Octet)
<1>1. <<IAC, SB, COM_PORT_OPTION, c>> \in Seq(Octet) /\ <<IAC, SE>> \in Seq(Octet) /\ Escape(d) \in Seq(Octet)
  BY Octets, EscapeIsBytes
<1>2. <<IAC, SB, COM_PORT_OPTION, c>> \o Escape(d) \in Seq(Octet)
  BY <1>1, ConcatProperties
<1> QED BY <1>1, <1>2, ConcatProperties DEF SendCommand

LEMMA SettingIsBytes == Settings \subseteq Seq(Octet) /\ Negotiation \in Seq(Octet)
<1>0. /\ 0 \in Octet /\ 1 \in Octet /\ 2 \in Octet /\ 3 \in Octet /\ 4 \in Octet /\ 5 \in Octet /\ 8 \in Octet
  BY DEF Octet
<1>1. <<8>> \in Seq(Octet) /\ <<1>> \in Seq(Octet) /\ <<0>> \in Seq(Octet)
  BY <1>0
<1>2. /\ Setting.baud = SendCommand(1, EncodeBaudRate(9600)) /\ Setting.size = SendCommand(2, <<8>>)
      /\ Setting.parity = SendCommand(3, <<1>>) /\ Setting.stop = SendCommand(4, <<1>>) /\ Setting.flow = SendCommand(5, <<0>>)
  BY DEF Setting
<1>3. /\ SendCommand(1, EncodeBaudRate(9600)) \in Seq(Octet) /\ SendCommand(2, <<8>>) \in Seq(Octet)
      /\ SendCommand(3, <<1>>) \in Seq(Octet) /\ SendCommand(4, <<1>>) \in Seq(Octet) /\ SendCommand(5, <<0>>) \in Seq(Octet)
  <2>1. EncodeBaudRate(9600) \in Seq(Octet)
    BY BaudRate
  <2>2. SendCommand(1, EncodeBaudRate(9600)) \in Seq(Octet)
    BY <1>0, <2>1, CommandIsBytes
  <2>3. SendCommand(2, <<8>>) \in Seq(Octet)
    BY <1>0, <1>1, CommandIsBytes
  <2>4. SendCommand(3, <<1>>) \in Seq(Octet)
    BY <1>0, <1>1, CommandIsBytes
  <2>5. SendCommand(4, <<1>>) \in Seq(Octet)
    BY <1>0, <1>1, CommandIsBytes
  <2>6. SendCommand(5, <<0>>) \in Seq(Octet)
    BY <1>0, <1>1, CommandIsBytes
  <2> QED BY <2>2, <2>3, <2>4, <2>5, <2>6
<1>4. Negotiation \in Seq(Octet)
  BY Octets DEF Negotiation
<1> QED BY <1>2, <1>3, <1>4 DEF Settings

(* t is s, which has n elements, and x behind it.                          *)
OneMore(S, n, s, x, t) ==
  /\ t \in Seq(S) /\ Len(t) = n + 1 /\ t[n + 1] = x
  /\ \A i \in 1 .. n : t[i] = s[i]

LEMMA OneMoreFacts ==
  ASSUME NEW S, NEW s \in Seq(S), NEW x \in S, NEW n, Len(s) = n
  PROVE  OneMore(S, n, s, x, s \o <<x>>)
BY DEF OneMore

(* What is sent while the port opens.                                      *)
LEMMA OpeningPiecesAre ==
  /\ OpeningPieces \in Seq(Seq(Octet))
  /\ ~port.rfc => OpeningPieces = <<>>
  /\ port.rfc => Len(OpeningPieces) = 11 /\ Opening(OpeningPieces)
<1>1. CASE ~port.rfc
  <2>1. SetOption(Setting.baud) = <<>> /\ SetOption(Setting.parity) = <<>> /\ SetOption(Setting.size) = <<>>
        /\ SetOption(Setting.stop) = <<>> /\ SetOption(Setting.flow) = <<>>
    BY <1>1 DEF SetOption
  <2>2. <<>> \o <<>> = <<>>
    BY ConcatEmptySeq, EmptySeq
  <2> QED BY <1>1, <2>1, <2>2 DEF OpeningPieces, ConfigureOptions
<1>2. CASE port.rfc
  <2> DEFINE B == Seq(Octet)
             i == InitiateNegotiation
             a == <<Setting.baud>>
             b == a \o <<Setting.parity>>
             c == b \o <<Setting.size>>
             d == c \o <<Setting.stop>>
             e == d \o <<Setting.flow>>
  <2>0. /\ Negotiation \in B /\ Setting.baud \in B /\ Setting.size \in B /\ Setting.parity \in B /\ Setting.stop \in B
        /\ Setting.flow \in B
    BY SettingIsBytes DEF Settings
  <2>1. OpeningPieces = i \o e
    BY <1>2 DEF OpeningPieces, ConfigureOptions, SetOption
  <2>2. /\ i \in Seq(B) /\ Len(i) = 6 /\ i[1] = Negotiation /\ i[2] = Setting.baud /\ i[3] = Setting.size
        /\ i[4] = Setting.parity /\ i[5] = Setting.stop /\ i[6] = Setting.flow
    <3> HIDE DEF B
    <3> QED BY <2>0 DEF InitiateNegotiation
  <2>3. a \in Seq(B) /\ Len(a) = 1 /\ a[1] = Setting.baud
    <3> HIDE DEF B
    <3> QED BY <2>0
  <2> HIDE DEF B, i, a
  <2>4. b \in Seq(B) /\ Len(b) = 2 /\ b[1] = Setting.baud /\ b[2] = Setting.parity
    <3>1. OneMore(B, 1, a, Setting.parity, b)
      BY <2>0, <2>3, OneMoreFacts
    <3> HIDE DEF b
    <3>2. /\ b \in Seq(B) /\ Len(b) = 1 + 1 /\ b[1 + 1] = Setting.parity
          /\ \A j \in 1 .. 1 : b[j] = a[j]
      BY <3>1 DEF OneMore
    <3> QED BY <2>3, <3>2
  <2> HIDE DEF b
  <2>5. c \in Seq(B) /\ Len(c) = 3 /\ c[1] = Setting.baud /\ c[2] = Setting.parity /\ c[3] = Setting.size
    <3>1. OneMore(B, 2, b, Setting.size, c)
      BY <2>0, <2>4, OneMoreFacts
    <3> HIDE DEF c
    <3>2. /\ c \in Seq(B) /\ Len(c) = 2 + 1 /\ c[2 + 1] = Setting.size
          /\ \A j \in 1 .. 2 : c[j] = b[j]
      BY <3>1 DEF OneMore
    <3> QED BY <2>4, <3>2
  <2> HIDE DEF c
  <2>6. /\ d \in Seq(B) /\ Len(d) = 4 /\ d[1] = Setting.baud /\ d[2] = Setting.parity /\ d[3] = Setting.size
        /\ d[4] = Setting.stop
    <3>1. OneMore(B, 3, c, Setting.stop, d)
      BY <2>0, <2>5, OneMoreFacts
    <3> HIDE DEF d
    <3>2. /\ d \in Seq(B) /\ Len(d) = 3 + 1 /\ d[3 + 1] = Setting.stop
          /\ \A j \in 1 .. 3 : d[j] = c[j]
      BY <3>1 DEF OneMore
    <3> QED BY <2>5, <3>2
  <2> HIDE DEF d
  <2>7. /\ e \in Seq(B) /\ Len(e) = 5 /\ e[1] = Setting.baud /\ e[2] = Setting.parity /\ e[3] = Setting.size
        /\ e[4] = Setting.stop /\ e[5] = Setting.flow
    <3>1. OneMore(B, 4, d, Setting.flow, e)
      BY <2>0, <2>6, OneMoreFacts
    <3> HIDE DEF e
    <3>2. /\ e \in Seq(B) /\ Len(e) = 4 + 1 /\ e[4 + 1] = Setting.flow
          /\ \A j \in 1 .. 4 : e[j] = d[j]
      BY <3>1 DEF OneMore
    <3> QED BY <2>6, <3>2
  <2> HIDE DEF e
  <2>8. /\ i \o e \in Seq(B) /\ Len(i \o e) = 11
        /\ \A k \in 1 .. 11 : (i \o e)[k] = IF k <= 6 THEN i[k] ELSE e[k - 6]
    <3>1. /\ i \o e \in Seq(B) /\ Len(i \o e) = Len(i) + Len(e)
          /\ \A k \in 1 .. Len(i) + Len(e) : (i \o e)[k] = IF k <= Len(i) THEN i[k] ELSE e[k - Len(i)]
      BY <2>2, <2>7, ConcatProperties
    <3>2. Len(i) = 6 /\ Len(e) = 5 /\ 6 + 5 = 11
      BY <2>2, <2>7
    <3> QED BY <3>1, <3>2
  <2> DEFINE q == i \o e
  <2> HIDE DEF q
  <2>9. q \in Seq(B) /\ Len(q) = 11 /\ \A k \in 1 .. 11 : q[k] = IF k <= 6 THEN i[k] ELSE e[k - 6]
    BY <2>8 DEF q
  <2>10. /\ q[1] = i[1] /\ q[2] = i[2] /\ q[3] = i[3] /\ q[4] = i[4] /\ q[5] = i[5] /\ q[6] = i[6]
         /\ q[7] = e[1] /\ q[8] = e[2] /\ q[9] = e[3] /\ q[10] = e[4] /\ q[11] = e[5]
    BY <2>9
  <2>11. Opening(q)
    BY <2>2, <2>7, <2>10 DEF Opening
  <2> QED BY <1>2, <2>1, <2>9, <2>11 DEF q, B
<1> QED BY <1>1, <1>2

-----------------------------------------------------------------------------
(* The types of the port.                                                  *)
Ghosts == [opens : Nat, sends : Nat, overlong : BOOLEAN]

NetTyped ==
  /\ port \in Ports /\ (~port.rfc => port.state = "DATA" /\ port.buffer = <<>>)
  /\ tcp \in [in : Seq(Octet), out : Seq(Seq(Octet)), up : BOOLEAN]
  /\ carried \in Seq(Octet) /\ handed \in Seq(Octet) /\ written \in Seq(Octet)
  /\ netGhost \in Ghosts

(* One more thing sent.                                                    *)
LEMMA GhostTyped ==
  ASSUME NEW g \in Ghosts, NEW o
  PROVE  /\ [g EXCEPT !.sends = @ + 1] \in Ghosts
         /\ [g EXCEPT !.sends = @ + 1, !.overlong = @ \/ o] \in Ghosts
<1>1. g.sends + 1 \in Nat /\ g.opens \in Nat /\ g.overlong \in BOOLEAN
  BY DEF Ghosts
<1>2. (g.overlong \/ o) \in BOOLEAN
  OBVIOUS
<1> QED BY <1>1, <1>2 DEF Ghosts

(* The connection breaks.                                                  *)
LEMMA HungTyped ==
  ASSUME NetTyped
  PROVE  Hung \in [in : Seq(Octet), out : Seq(Seq(Octet)), up : BOOLEAN]
<1>1. <<>> \in Seq(Octet)
  OBVIOUS
<1> QED BY <1>1 DEF NetTyped, Hung

LEMMA DisconnectedTyped ==
  ASSUME NetTyped, Disconnected
  PROVE  /\ port' \in Ports /\ port'.rfc = port.rfc /\ port'.state = port.state /\ port'.buffer = port.buffer
         /\ tcp' \in [in : Seq(Octet), out : Seq(Seq(Octet)), up : BOOLEAN]
<1>1. tcp' \in [in : Seq(Octet), out : Seq(Seq(Octet)), up : BOOLEAN]
  BY HungTyped DEF Disconnected
<1>2. port \in Ports /\ port' = [port EXCEPT !.isOpen = FALSE, !.socket = FALSE, !.warnings = @ + 1]
  BY DEF NetTyped, Disconnected
<1>3. port' \in Ports /\ port'.rfc = port.rfc /\ port'.state = port.state /\ port'.buffer = port.buffer
  <2>1. port.warnings + 1 \in Nat
    BY <1>2 DEF Ports
  <2> QED BY <1>2, <2>1 DEF Ports
<1> QED BY <1>1, <1>3

(* Every step keeps the types.                                             *)
LEMMA PortTyped ==
  ASSUME NetTyped, [NetNext]_netVars
  PROVE  NetTyped'
<1> USE DEF NetTyped
<1>1. ASSUME OpenFails PROVE NetTyped'
  BY <1>1 DEF OpenFails, Ports
<1>2. ASSUME Open PROVE NetTyped'
  <2>0. netGhost' \in Ghosts
    BY <1>2 DEF Open, Ghosts
  <2>1. port' \in Ports /\ port'.rfc = port.rfc /\ (~port.rfc => port'.state = "DATA" /\ port'.buffer = <<>>)
    BY <1>2, BufferFacts DEF Open, Ports, HandlerInitialize, FilterStates
  <2>2. PICK n \in 0 .. Len(OpeningPieces) :
          tcp' = [in |-> <<>>, out |-> SubSeq(OpeningPieces, 1, n), up |-> n = Len(OpeningPieces)]
    BY <1>2 DEF Open
  <2>3. SubSeq(OpeningPieces, 1, n) \in Seq(Seq(Octet))
    <3>1. OpeningPieces \in Seq(Seq(Octet))
      BY OpeningPiecesAre
    <3> QED BY <3>1
  <2>4. tcp' \in [in : Seq(Octet), out : Seq(Seq(Octet)), up : BOOLEAN]
    BY <2>2, <2>3
  <2> QED BY <1>2, <2>0, <2>1, <2>4 DEF Open
<1>3. ASSUME PortReadSome PROVE NetTyped'
  <2>1. PICK n \in 1 .. Len(tcp.in) : \E f \in {FilterInboundData(port.state, port.buffer, SubSeq(tcp.in, 1, n))} :
           /\ tcp' = [tcp EXCEPT !.in = SubSeq(@, n + 1, Len(@))]
           /\ IF port.rfc
              THEN /\ port' = [port EXCEPT !.state = f.state, !.buffer = f.buffer]
                   /\ handed' = handed \o f.out
              ELSE /\ UNCHANGED port
                   /\ handed' = handed \o SubSeq(tcp.in, 1, n)
    BY <1>3 DEF PortReadSome
  <2> DEFINE a == SubSeq(tcp.in, 1, n)
             f == FilterInboundData(port.state, port.buffer, a)
  <2>2. a \in Seq(Octet) /\ SubSeq(tcp.in, n + 1, Len(tcp.in)) \in Seq(Octet)
    <3>1. tcp.in \in Seq(Octet) /\ n \in 0 .. Len(tcp.in)
      OBVIOUS
    <3> QED BY <3>1, Pieces
  <2>3. f.state \in FilterStates /\ f.buffer \in Buffers /\ f.out \in Seq(Octet)
    <3>1. port.state \in FilterStates /\ port.buffer \in Buffers /\ 0 \in Octet
      BY Octets DEF Ports
    <3> HIDE DEF a
    <3>2. f \in Filters
      BY <2>2, <3>1, FilterAppend
    <3> QED BY <3>2, AtFacts
  <2>4. /\ tcp' = [tcp EXCEPT !.in = SubSeq(@, n + 1, Len(@))]
        /\ port.rfc => port' = [port EXCEPT !.state = f.state, !.buffer = f.buffer] /\ handed' = handed \o f.out
        /\ ~port.rfc => port' = port /\ handed' = handed \o a
    BY <2>1
  <2> HIDE DEF a, f
  <2>5. handed \o f.out \in Seq(Octet) /\ handed \o a \in Seq(Octet)
    BY <2>2, <2>3, ConcatProperties
  <2>6. port' \in Ports /\ (~port'.rfc => port'.state = "DATA" /\ port'.buffer = <<>>)
    BY <2>3, <2>4 DEF Ports
  <2>7. tcp' \in [in : Seq(Octet), out : Seq(Seq(Octet)), up : BOOLEAN]
    BY <2>2, <2>4
  <2> QED BY <1>3, <2>4, <2>5, <2>6, <2>7 DEF PortReadSome
<1>4. ASSUME ReadDisconnected PROVE NetTyped'
  BY <1>4, DisconnectedTyped DEF ReadDisconnected
<1>5. ASSUME PortWriteSome PROVE NetTyped'
  <2>1. CASE ~tcp.up /\ Disconnected /\ UNCHANGED written
    BY <1>5, <2>1, DisconnectedTyped DEF PortWriteSome
  <2>2. CASE \E b \in LineBytes : tcp' = [tcp EXCEPT !.out = Append(@, <<b>>)] /\ written' = Append(written, b) /\ UNCHANGED port
    <3>1. PICK b \in LineBytes : tcp' = [tcp EXCEPT !.out = Append(@, <<b>>)] /\ written' = Append(written, b) /\ UNCHANGED port
      BY <2>2
    <3>2. b \in Octet
      BY NetworkConstants
    <3>3. Append(written, b) \in Seq(Octet) /\ <<b>> \in Seq(Octet)
      BY <3>2, AppendProperties
    <3>4. Append(tcp.out, <<b>>) \in Seq(Seq(Octet))
      BY <3>3, AppendProperties
    <3>5. tcp' \in [in : Seq(Octet), out : Seq(Seq(Octet)), up : BOOLEAN]
      BY <3>1, <3>4
    <3> QED BY <1>5, <3>1, <3>3, <3>5 DEF PortWriteSome
  <2> QED BY <1>5, <2>1, <2>2 DEF PortWriteSome
<1>6. ASSUME Close PROVE NetTyped'
  <2>1. port' = [port EXCEPT !.isOpen = FALSE, !.socket = FALSE, !.buffer = IF port.rfc THEN <<>> ELSE @]
    BY <1>6 DEF Close
  <2>2. port' \in Ports /\ (~port'.rfc => port'.state = "DATA" /\ port'.buffer = <<>>)
    BY <2>1, BufferFacts DEF Ports
  <2> QED BY <1>6, <2>2, HungTyped DEF Close
<1>7. ASSUME NEW bytes \in Seq(Octet), BridgeSends(bytes)
      PROVE  tcp' \in [in : Seq(Octet), out : Seq(Seq(Octet)), up : BOOLEAN]
  <2>1. tcp.in \o bytes \in Seq(Octet)
    BY ConcatProperties
  <2> QED BY <1>7, <2>1 DEF BridgeSends
<1>8. ASSUME BridgeCarries PROVE NetTyped'
  <2>1. PICK b \in LineBytes :
          /\ BridgeSends(IF port.rfc THEN Escape(<<b>>) ELSE <<b>>)
          /\ carried' = Append(carried, b)
          /\ netGhost' = [netGhost EXCEPT !.sends = @ + 1]
    BY <1>8 DEF BridgeCarries
  <2>2. b \in Octet
    BY NetworkConstants
  <2>3. <<b>> \in Seq(Octet) /\ Append(carried, b) \in Seq(Octet)
    BY <2>2, AppendProperties
  <2>4. Escape(<<b>>) \in Seq(Octet)
    BY <2>3, EscapeIsBytes
  <2>5. tcp' \in [in : Seq(Octet), out : Seq(Seq(Octet)), up : BOOLEAN]
    BY <1>7, <2>1, <2>3, <2>4
  <2>6. netGhost' \in Ghosts
    BY <2>1, GhostTyped
  <2>7. UNCHANGED <<port, handed, written>>
    BY <2>1 DEF BridgeSends
  <2> QED BY <2>1, <2>3, <2>5, <2>6, <2>7
<1>9. ASSUME BridgeControls PROVE NetTyped'
  <2>1. PICK bytes : BridgeSends(bytes) /\ bytes \in Seq(Octet)
    <3>1. CASE \E c \in Options : BridgeSends(c)
      <4>1. PICK c \in Options : BridgeSends(c)
        BY <3>1
      <4>2. IsOption(c) /\ <<>> \in Buffers /\ <<>> \in Seq(Octet)
        BY NetworkConstants, BufferFacts
      <4>3. c \in Seq(Octet)
        BY <4>2, ReadOption
      <4> QED BY <4>1, <4>3
    <3>2. CASE \E p \in Parameters : BridgeSends(SubNegotiation(p))
      <4>1. PICK p \in Parameters : BridgeSends(SubNegotiation(p))
        BY <3>2
      <4>2. p \in Seq(Octet)
        BY NetworkConstants
      <4>3. <<IAC, SB>> \in Seq(Octet) /\ <<IAC, SE>> \in Seq(Octet) /\ Escape(p) \in Seq(Octet)
        BY <4>2, Octets, EscapeIsBytes
      <4>4. SubNegotiation(p) \in Seq(Octet)
        BY <4>3, ConcatProperties DEF SubNegotiation
      <4> QED BY <4>1, <4>4
    <3> QED BY <1>9, <3>1, <3>2 DEF BridgeControls
  <2>2. tcp' \in [in : Seq(Octet), out : Seq(Seq(Octet)), up : BOOLEAN]
    BY <1>7, <2>1
  <2>3. netGhost' \in Ghosts
    BY <1>9, GhostTyped DEF BridgeControls
  <2> QED BY <1>9, <2>1, <2>2, <2>3 DEF BridgeControls, BridgeSends
<1>10. ASSUME BridgeGoes PROVE NetTyped'
  <2>1. PICK kept \in 0 .. Len(tcp.in) : tcp' = [tcp EXCEPT !.up = FALSE, !.in = SubSeq(@, 1, kept)]
    BY <1>10 DEF BridgeGoes
  <2>2. SubSeq(tcp.in, 1, kept) \in Seq(Octet)
    BY Pieces
  <2>3. tcp' \in [in : Seq(Octet), out : Seq(Seq(Octet)), up : BOOLEAN]
    BY <2>1, <2>2
  <2> QED BY <1>10, <2>3 DEF BridgeGoes
<1>11. CASE UNCHANGED netVars
  BY <1>11 DEF netVars
<1> QED BY <1>1, <1>2, <1>3, <1>4, <1>5, <1>6, <1>8, <1>9, <1>10, <1>11 DEF NetNext

-----------------------------------------------------------------------------
(* Inbound: what the framing gets when all that has arrived is read is a   *)
(* beginning of what the line carried, and all of it while the bridge is   *)
(* there; the filter is then between two of the bridge's sequences.        *)
NetInbound ==
  ~netGhost.overlong =>
    /\ tcp.up => /\ Outcome(port, handed, tcp.in) = carried
                 /\ port.rfc => Rest(port, handed, tcp.in).state = "DATA"
    /\ Begins(Outcome(port, handed, tcp.in), carried)

(* Only the transport and the filter of the port matter.                   *)
LEMMA SameOutcome ==
  ASSUME NEW p, NEW q, NEW h, NEW in, q.rfc = p.rfc, q.state = p.state, q.buffer = p.buffer
  PROVE  Rest(q, h, in) = Rest(p, h, in) /\ Outcome(q, h, in) = Outcome(p, h, in)
BY DEF Rest, Outcome

(* Whatever has arrived is lost and the bridge is gone.                    *)
LEMMA InboundOfAHangup ==
  ASSUME NetTyped, NetInbound, NetTyped', ~tcp'.up, tcp'.in = <<>>, UNCHANGED <<handed, carried, netGhost>>
  PROVE  NetInbound'
<1>1. Outcome(port', handed', tcp'.in) = handed
  BY RestFacts DEF NetTyped
<1>2. ASSUME ~netGhost.overlong PROVE Begins(handed, carried)
  <2>1. Begins(handed, Outcome(port, handed, tcp.in)) /\ Outcome(port, handed, tcp.in) \in Seq(Octet)
    BY RestFacts DEF NetTyped
  <2>2. Begins(Outcome(port, handed, tcp.in), carried)
    BY <1>2 DEF NetInbound
  <2> QED BY <2>1, <2>2, BeginsFacts DEF NetTyped
<1> QED BY <1>1, <1>2 DEF NetInbound

(* Every step keeps the inbound bytes.                                     *)
LEMMA PortInbound ==
  ASSUME NetTyped, NetTyped', NetInbound, [NetNext]_netVars
  PROVE  NetInbound'
<1>0. /\ port \in Ports /\ tcp.in \in Seq(Octet) /\ tcp.up \in BOOLEAN /\ handed \in Seq(Octet) /\ carried \in Seq(Octet)
      /\ port' \in Ports /\ tcp'.in \in Seq(Octet) /\ handed' \in Seq(Octet) /\ carried' \in Seq(Octet)
      /\ (~port.rfc => port.state = "DATA" /\ port.buffer = <<>>)
      /\ tcp \in [in : Seq(Octet), out : Seq(Seq(Octet)), up : BOOLEAN] /\ netGhost \in Ghosts
  BY DEF NetTyped
<1>1. ASSUME OpenFails PROVE NetInbound'
  <2>1. port'.rfc = port.rfc /\ port'.state = port.state /\ port'.buffer = port.buffer
    BY <1>0, <1>1 DEF OpenFails, Ports
  <2>2. UNCHANGED <<tcp, handed, carried, netGhost>>
    BY <1>1 DEF OpenFails
  <2> QED BY <2>1, <2>2, SameOutcome DEF NetInbound
<1>2. ASSUME Open PROVE NetInbound'
  <2>1. handed' = <<>> /\ carried' = <<>> /\ tcp'.in = <<>>
    BY <1>2 DEF Open
  <2>2. Outcome(port', handed', tcp'.in) = <<>>
    BY <1>0, <2>1, RestFacts
  <2>3. port'.rfc => port'.state = "DATA" /\ port'.buffer = <<>>
    BY <1>0, <1>2 DEF Open, HandlerInitialize, Ports
  <2>4. port'.rfc => Rest(port', handed', tcp'.in).state = "DATA"
    <3>1. At(port'.state, port'.buffer, handed') \in Filters
      BY <1>0, RestFacts
    <3>2. Rest(port', handed', <<>>) = At(port'.state, port'.buffer, handed')
      BY <3>1, ReadNothing DEF Rest
    <3> QED BY <2>1, <2>3, <3>2 DEF At
  <2>5. Begins(<<>>, <<>>)
    BY <1>0, <2>1, BeginsFacts
  <2> QED BY <2>1, <2>2, <2>4, <2>5 DEF NetInbound
<1>3. ASSUME PortReadSome PROVE NetInbound'
  <2>1. PICK n \in 1 .. Len(tcp.in) : \E f \in {FilterInboundData(port.state, port.buffer, SubSeq(tcp.in, 1, n))} :
           /\ tcp' = [tcp EXCEPT !.in = SubSeq(@, n + 1, Len(@))]
           /\ IF port.rfc
              THEN /\ port' = [port EXCEPT !.state = f.state, !.buffer = f.buffer]
                   /\ handed' = handed \o f.out
              ELSE /\ UNCHANGED port
                   /\ handed' = handed \o SubSeq(tcp.in, 1, n)
    BY <1>3 DEF PortReadSome
  <2> DEFINE a == SubSeq(tcp.in, 1, n)
             c == SubSeq(tcp.in, n + 1, Len(tcp.in))
             f == FilterInboundData(port.state, port.buffer, a)
  <2>2. a \in Seq(Octet) /\ c \in Seq(Octet) /\ a \o c = tcp.in
    <3>1. tcp.in \in Seq(Octet) /\ n \in 0 .. Len(tcp.in)
      BY <1>0
    <3> QED BY <3>1, Pieces
  <2>3. /\ tcp' = [tcp EXCEPT !.in = c]
        /\ port.rfc => port' = [port EXCEPT !.state = f.state, !.buffer = f.buffer] /\ handed' = handed \o f.out
        /\ ~port.rfc => port' = port /\ handed' = handed \o a
    BY <2>1
  <2>3a. f = FilterInboundData(port.state, port.buffer, a)
    OBVIOUS
  <2> HIDE DEF a, c, f
  <2>2a. port \in Ports /\ port' \in Ports /\ handed \in Seq(Octet) /\ a \in Seq(Octet) /\ c \in Seq(Octet)
    BY <1>0, <2>2
  <2>4. /\ tcp'.in = c /\ tcp'.up = tcp.up /\ port'.rfc = port.rfc
        /\ port.rfc => port'.state = f.state /\ port'.buffer = f.buffer
    BY <1>0, <2>3 DEF Ports
  <2>5. /\ port.rfc => Rest(port', handed', tcp'.in) = Rest(port, handed, tcp.in)
        /\ Outcome(port', handed', tcp'.in) = Outcome(port, handed, tcp.in)
    <3>1. CASE port.rfc
      <4>1. Rest(port', handed \o f.out, c) = Rest(port, handed, a \o c) /\ Outcome(port', handed \o f.out, c) = Outcome(port, handed, a \o c)
        <5>1. ReadOff(port, port', a, f)
          BY <2>3a, <2>4, <3>1 DEF ReadOff
        <5> QED BY <2>2a, <5>1, OutcomeOfARead
      <4> QED BY <2>2, <2>3, <2>4, <3>1, <4>1
    <3>2. CASE ~port.rfc
      <4>1. (handed \o a) \o c = handed \o (a \o c)
        <5>1. Regroups(handed, a, c)
          BY <2>2a, Regrouped
        <5> QED BY <5>1 DEF Regroups
      <4> QED BY <2>2, <2>3, <2>4, <3>2, <4>1 DEF Outcome
    <3> QED BY <3>1, <3>2
  <2>6. UNCHANGED <<carried, netGhost>>
    BY <1>3 DEF PortReadSome
  <2> QED BY <2>4, <2>5, <2>6 DEF NetInbound
<1>4. ASSUME ReadDisconnected PROVE NetInbound'
  <2>1. ~tcp'.up /\ tcp'.in = <<>> /\ UNCHANGED <<handed, carried, netGhost>>
    BY <1>0, <1>4 DEF ReadDisconnected, Disconnected, Hung
  <2> QED BY <2>1, InboundOfAHangup
<1>5. ASSUME PortWriteSome PROVE NetInbound'
  <2>0. UNCHANGED <<handed, carried, netGhost>>
    BY <1>5 DEF PortWriteSome
  <2>1. CASE Disconnected
    <3>1. ~tcp'.up /\ tcp'.in = <<>>
      BY <1>0, <2>1 DEF Disconnected, Hung
    <3> QED BY <2>0, <3>1, InboundOfAHangup
  <2>2. CASE port' = port /\ tcp'.in = tcp.in /\ tcp'.up = tcp.up
    BY <2>0, <2>2 DEF NetInbound
  <2>3. Disconnected \/ (port' = port /\ tcp'.in = tcp.in /\ tcp'.up = tcp.up)
    BY <1>0, <1>5 DEF PortWriteSome
  <2> QED BY <2>1, <2>2, <2>3
<1>6. ASSUME Close PROVE NetInbound'
  <2>1. ~tcp'.up /\ tcp'.in = <<>> /\ UNCHANGED <<handed, carried, netGhost>>
    BY <1>0, <1>6 DEF Close, Hung
  <2> QED BY <2>1, InboundOfAHangup
<1>7. ASSUME BridgeCarries PROVE NetInbound'
  <2>1. PICK b \in LineBytes :
          /\ BridgeSends(IF port.rfc THEN Escape(<<b>>) ELSE <<b>>)
          /\ carried' = Append(carried, b)
          /\ netGhost' = [netGhost EXCEPT !.sends = @ + 1]
    BY <1>7 DEF BridgeCarries
  <2>2. /\ b \in Octet /\ tcp.up /\ tcp'.up /\ port' = port /\ handed' = handed
        /\ netGhost'.overlong = netGhost.overlong
        /\ tcp'.in = tcp.in \o (IF port.rfc THEN Escape(<<b>>) ELSE <<b>>)
    BY <1>0, <2>1, NetworkConstants DEF BridgeSends, Ghosts
  <2> SUFFICES ASSUME ~netGhost.overlong
               PROVE  /\ Outcome(port, handed, tcp'.in) = carried'
                      /\ port.rfc => Rest(port, handed, tcp'.in).state = "DATA"
    <3>1. Begins(carried', carried')
      BY <1>0, BeginsFacts
    <3> QED BY <2>2, <3>1 DEF NetInbound
  <2>3. Outcome(port, handed, tcp.in) = carried /\ (port.rfc => Rest(port, handed, tcp.in).state = "DATA")
    BY <2>2 DEF NetInbound
  <2>4. CASE port.rfc
    <3>1. tcp'.in = tcp.in \o Escape(<<b>>)
      BY <2>2, <2>4
    <3>2. /\ Rest(port, handed, tcp.in \o Escape(<<b>>)).state = "DATA"
          /\ Outcome(port, handed, tcp.in \o Escape(<<b>>)) = Append(Outcome(port, handed, tcp.in), b)
      BY <1>0, <2>2, <2>3, <2>4, OutcomeOfASend
    <3> QED BY <2>1, <2>3, <3>1, <3>2
  <2>5. CASE ~port.rfc
    <3>1. Outcome(port, handed, tcp.in) = handed \o tcp.in /\ Outcome(port, handed, tcp'.in) = handed \o (tcp.in \o <<b>>)
      BY <2>2, <2>5 DEF Outcome
    <3>2. <<b>> \in Seq(Octet)
      BY <2>2
    <3>3. handed \o (tcp.in \o <<b>>) = (handed \o tcp.in) \o <<b>>
      <4>1. Regroups(handed, tcp.in, <<b>>)
        BY <1>0, <3>2, Regrouped
      <4> QED BY <4>1 DEF Regroups
    <3>4. Append(carried, b) = carried \o <<b>>
      BY <1>0, <2>2, AppendIsConcat
    <3> QED BY <2>1, <2>3, <2>5, <3>1, <3>3, <3>4
  <2> QED BY <2>4, <2>5
<1>8. ASSUME BridgeControls PROVE NetInbound'
  <2>1. port.rfc /\ tcp.up /\ tcp'.up /\ port' = port /\ handed' = handed /\ carried' = carried
    BY <1>0, <1>8 DEF BridgeControls, BridgeSends
  <2> SUFFICES ASSUME ~netGhost'.overlong
               PROVE  /\ Outcome(port, handed, tcp'.in) = Outcome(port, handed, tcp.in)
                      /\ Rest(port, handed, tcp'.in).state = "DATA"
                      /\ ~netGhost.overlong
    BY <2>1 DEF NetInbound
  <2>2. CASE \E c \in Options : BridgeSends(c) /\ netGhost' = [netGhost EXCEPT !.sends = @ + 1]
    <3>1. PICK c \in Options : BridgeSends(c) /\ netGhost' = [netGhost EXCEPT !.sends = @ + 1]
      BY <2>2
    <3>2. IsOption(c) /\ tcp'.in = tcp.in \o c /\ ~netGhost.overlong
      BY <1>0, <3>1, NetworkConstants DEF BridgeSends, Ghosts
    <3>3. Rest(port, handed, tcp.in).state = "DATA"
      BY <2>1, <3>2 DEF NetInbound
    <3> QED BY <1>0, <2>1, <3>2, <3>3, OutcomeOfASend
  <2>3. CASE \E p \in Parameters : /\ BridgeSends(SubNegotiation(p))
                                   /\ netGhost' = [netGhost EXCEPT !.sends = @ + 1,
                                                                   !.overlong = @ \/ Len(p) > MAX_COMMAND_BUFFER_SIZE]
    <3>1. PICK p \in Parameters : /\ BridgeSends(SubNegotiation(p))
                                  /\ netGhost' = [netGhost EXCEPT !.sends = @ + 1,
                                                                  !.overlong = @ \/ Len(p) > MAX_COMMAND_BUFFER_SIZE]
      BY <2>3
    <3>2. p \in Seq(Octet) /\ tcp'.in = tcp.in \o SubNegotiation(p)
      BY <1>0, <3>1, NetworkConstants DEF BridgeSends
    <3>3. netGhost'.overlong = (netGhost.overlong \/ Len(p) > MAX_COMMAND_BUFFER_SIZE)
      BY <1>0, <3>1 DEF Ghosts
    <3>4. ~netGhost.overlong /\ ~(Len(p) > MAX_COMMAND_BUFFER_SIZE)
      BY <3>3
    <3>5. Len(p) <= MAX_COMMAND_BUFFER_SIZE
      BY <3>2, <3>4, NetworkConstants
    <3>6. Rest(port, handed, tcp.in).state = "DATA"
      BY <2>1, <3>4 DEF NetInbound
    <3> QED BY <1>0, <2>1, <3>2, <3>4, <3>5, <3>6, OutcomeOfASend
  <2> QED BY <1>8, <2>2, <2>3 DEF BridgeControls
<1>9. ASSUME BridgeGoes PROVE NetInbound'
  <2>1. PICK kept \in 0 .. Len(tcp.in) : tcp' = [tcp EXCEPT !.up = FALSE, !.in = SubSeq(@, 1, kept)]
    BY <1>9 DEF BridgeGoes
  <2> DEFINE a == SubSeq(tcp.in, 1, kept)
             c == SubSeq(tcp.in, kept + 1, Len(tcp.in))
  <2>2. a \in Seq(Octet) /\ c \in Seq(Octet) /\ a \o c = tcp.in
    BY <1>0, Pieces
  <2>3. ~tcp'.up /\ tcp'.in = a /\ UNCHANGED <<port, carried, handed, netGhost>>
    BY <1>0, <1>9, <2>1 DEF BridgeGoes
  <2> HIDE DEF a, c
  <2>4. Begins(Outcome(port, handed, a), Outcome(port, handed, a \o c))
    BY <1>0, <2>2, OutcomeOfACut
  <2>5. Outcome(port, handed, a) \in Seq(Octet) /\ Outcome(port, handed, tcp.in) \in Seq(Octet)
    BY <1>0, <2>2, RestFacts
  <2>6. ASSUME ~netGhost.overlong PROVE Begins(Outcome(port, handed, a), carried)
    <3>1. Begins(Outcome(port, handed, tcp.in), carried)
      BY <2>6 DEF NetInbound
    <3>2. Begins(Outcome(port, handed, a), Outcome(port, handed, tcp.in))
      BY <2>2, <2>4
    <3> QED BY <1>0, <2>5, <3>1, <3>2, BeginsFacts
  <2> QED BY <2>3, <2>6 DEF NetInbound
<1>10. CASE UNCHANGED netVars
  BY <1>10 DEF netVars, NetInbound
<1> QED BY <1>1, <1>2, <1>3, <1>4, <1>5, <1>6, <1>7, <1>8, <1>9, <1>10 DEF NetNext

-----------------------------------------------------------------------------
(* Reports: every connection is reported lost once at the most.            *)
NetReported ==
  /\ port.warnings + (IF port.isOpen THEN 1 ELSE 0) <= netGhost.opens
  /\ port.isOpen => port.socket

(* Every step keeps the count of the reports.                              *)
LEMMA PortReported ==
  ASSUME NetTyped, NetReported, [NetNext]_netVars
  PROVE  NetReported'
<1>0. /\ port \in Ports /\ port.warnings \in Nat /\ port.isOpen \in BOOLEAN /\ port.socket \in BOOLEAN
      /\ netGhost \in Ghosts /\ netGhost.opens \in Nat
  BY DEF NetTyped, Ports, Ghosts
<1>1. CASE OpenFails
  <2>1. netGhost' = netGhost /\ port'.warnings = port.warnings /\ (port'.isOpen = port.isOpen \/ ~port'.isOpen) /\ port'.isOpen \in BOOLEAN
    BY <1>0, <1>1 DEF OpenFails, Ports
  <2>2. port'.isOpen => port'.socket
    BY <1>0, <1>1 DEF OpenFails, NetReported, Ports
  <2> QED BY <1>0, <2>1, <2>2 DEF NetReported
<1>2. CASE Open
  <2>1. port'.isOpen /\ port'.socket /\ port'.warnings = port.warnings
    BY <1>0, <1>2 DEF Open, Ports, HandlerInitialize
  <2>2. netGhost'.opens = netGhost.opens + 1
    BY <1>2 DEF Open
  <2>3. ~port.isOpen
    BY <1>2 DEF Open, IsOpen, NetReported
  <2> QED BY <1>0, <2>1, <2>2, <2>3 DEF NetReported
<1>3. ASSUME Disconnected, IsOpen, netGhost' = netGhost PROVE NetReported'
  <2>1. ~port'.isOpen /\ port'.warnings = port.warnings + 1 /\ port.isOpen
    BY <1>0, <1>3 DEF Disconnected, IsOpen, Ports
  <2> QED BY <1>0, <1>3, <2>1 DEF NetReported
<1>4. ASSUME port'.isOpen = port.isOpen, port'.socket = port.socket, port'.warnings = port.warnings, netGhost'.opens = netGhost.opens
      PROVE  NetReported'
  BY <1>4 DEF NetReported
<1>5. CASE PortReadSome
  <2>1. port'.isOpen = port.isOpen /\ port'.socket = port.socket /\ port'.warnings = port.warnings /\ netGhost' = netGhost
    BY <1>0, <1>5 DEF PortReadSome, Ports
  <2> QED BY <1>4, <2>1
<1>6. CASE ReadDisconnected
  BY <1>3, <1>6 DEF ReadDisconnected
<1>7. CASE PortWriteSome
  BY <1>3, <1>4, <1>7 DEF PortWriteSome
<1>8. CASE Close
  <2>1. ~port'.isOpen /\ port'.warnings = port.warnings /\ netGhost' = netGhost
    BY <1>0, <1>8 DEF Close, Ports
  <2> QED BY <1>0, <2>1 DEF NetReported
<1>9. CASE BridgeCarries \/ BridgeControls
  <2>1. port' = port /\ netGhost'.opens = netGhost.opens
    BY <1>0, <1>9 DEF BridgeCarries, BridgeControls, BridgeSends, Ghosts
  <2> QED BY <1>4, <2>1
<1>10. CASE BridgeGoes
  BY <1>4, <1>10 DEF BridgeGoes
<1>11. CASE UNCHANGED netVars
  BY <1>4, <1>11 DEF netVars
<1> QED BY <1>1, <1>2, <1>5, <1>6, <1>7, <1>8, <1>9, <1>10, <1>11 DEF NetNext

-----------------------------------------------------------------------------
(* Outbound: the opening commands, then what the devices wrote.            *)
Told(out, w) ==
  /\ Len(out) = 11 + Len(w)
  /\ Opening(out)
  /\ \A i \in 1 .. Len(w) : out[11 + i] = <<w[i]>>

NetOutbound == port.rfc /\ tcp.up => Told(tcp.out, written)

(* One more byte written.                                                  *)
LEMMA ToldOneMore ==
  ASSUME NEW out \in Seq(Seq(Octet)), NEW w \in Seq(Octet), NEW b \in Octet, Told(out, w)
  PROVE  Told(Append(out, <<b>>), Append(w, b))
<1> DEFINE u == Append(out, <<b>>)
           v == Append(w, b)
           N == Len(w)
<1>0. <<b>> \in Seq(Octet) /\ N \in Nat
  OBVIOUS
<1>1. /\ u \in Seq(Seq(Octet)) /\ Len(u) = Len(out) + 1 /\ (\A i \in 1 .. Len(out) : u[i] = out[i]) /\ u[Len(out) + 1] = <<b>>
  BY <1>0, AppendProperties
<1>2. Len(v) = N + 1 /\ (\A i \in 1 .. N : v[i] = w[i]) /\ v[N + 1] = b
  BY AppendProperties
<1>3. Len(out) = 11 + N /\ Opening(out) /\ \A i \in 1 .. N : out[11 + i] = <<w[i]>>
  BY DEF Told
<1> HIDE DEF u, v, N
<1>4. Opening(u)
  <2>0. \A i \in 1 .. 11 : i \in 1 .. Len(out)
    BY <1>0, <1>3
  <2>1. \A i \in 1 .. 11 : u[i] = out[i]
    BY <1>1, <2>0
  <2>2. /\ u[1] = out[1] /\ u[2] = out[2] /\ u[3] = out[3] /\ u[4] = out[4] /\ u[5] = out[5] /\ u[6] = out[6]
        /\ u[7] = out[7] /\ u[8] = out[8] /\ u[9] = out[9] /\ u[10] = out[10] /\ u[11] = out[11]
    BY <2>1
  <2> QED BY <1>3, <2>2 DEF Opening
<1>5. ASSUME NEW i \in 1 .. N + 1 PROVE u[11 + i] = <<v[i]>>
  <2>1. CASE i = N + 1
    <3>1. 11 + i = Len(out) + 1
      BY <1>0, <1>3, <2>1
    <3> QED BY <1>1, <1>2, <2>1, <3>1
  <2>2. CASE i # N + 1
    <3>1. i \in 1 .. N /\ 11 + i \in 1 .. Len(out)
      BY <1>0, <1>3, <2>2
    <3> QED BY <1>1, <1>2, <1>3, <3>1
  <2> QED BY <2>1, <2>2
<1>6. Len(u) = 11 + Len(v)
  BY <1>0, <1>1, <1>2, <1>3
<1>7. Told(u, v)
  BY <1>2, <1>4, <1>5, <1>6 DEF Told
<1> QED BY <1>7 DEF u, v

(* Every step keeps the record of what was sent.                           *)
LEMMA PortOutbound ==
  ASSUME NetTyped, NetOutbound, [NetNext]_netVars
  PROVE  NetOutbound'
<1>0. port \in Ports /\ tcp \in [in : Seq(Octet), out : Seq(Seq(Octet)), up : BOOLEAN] /\ written \in Seq(Octet)
  BY DEF NetTyped
<1>1. ASSUME port'.rfc = port.rfc, tcp'.out = tcp.out, tcp'.up = tcp.up, written' = written PROVE NetOutbound'
  BY <1>1 DEF NetOutbound
<1>2. ASSUME ~tcp'.up PROVE NetOutbound'
  BY <1>2 DEF NetOutbound
<1>3. CASE OpenFails
  <2>1. port'.rfc = port.rfc /\ tcp' = tcp /\ written' = written
    BY <1>0, <1>3 DEF OpenFails, Ports
  <2> QED BY <1>1, <2>1
<1>4. CASE Open
  <2>1. PICK n \in 0 .. Len(OpeningPieces) :
          tcp' = [in |-> <<>>, out |-> SubSeq(OpeningPieces, 1, n), up |-> n = Len(OpeningPieces)]
    BY <1>4 DEF Open
  <2>2. port'.rfc = port.rfc /\ written' = <<>>
    BY <1>0, <1>4 DEF Open, HandlerInitialize, Ports
  <2> SUFFICES ASSUME port.rfc, n = Len(OpeningPieces) PROVE Told(tcp'.out, <<>>)
    BY <2>1, <2>2 DEF NetOutbound
  <2>3. OpeningPieces \in Seq(Seq(Octet)) /\ Len(OpeningPieces) = 11 /\ Opening(OpeningPieces)
    BY OpeningPiecesAre
  <2>4. SubSeq(OpeningPieces, 1, Len(OpeningPieces)) = OpeningPieces
    BY <2>3, SubSeqFull
  <2>5. tcp'.out = OpeningPieces
    BY <2>1, <2>4
  <2>6. Len(<<>>) = 0
    OBVIOUS
  <2> QED BY <2>3, <2>5, <2>6 DEF Told
<1>5. CASE PortReadSome
  <2>1. port'.rfc = port.rfc /\ tcp'.out = tcp.out /\ tcp'.up = tcp.up /\ written' = written
    BY <1>0, <1>5 DEF PortReadSome, Ports
  <2> QED BY <1>1, <2>1
<1>6. CASE Disconnected \/ Close
  <2>1. ~tcp'.up
    BY <1>0, <1>6 DEF Disconnected, Close, Hung
  <2> QED BY <1>2, <2>1
<1>7. CASE ReadDisconnected
  BY <1>6, <1>7 DEF ReadDisconnected
<1>8. CASE PortWriteSome
  <2>1. CASE \E b \in LineBytes : tcp' = [tcp EXCEPT !.out = Append(@, <<b>>)] /\ written' = Append(written, b) /\ UNCHANGED port
    <3>1. PICK b \in LineBytes : tcp' = [tcp EXCEPT !.out = Append(@, <<b>>)] /\ written' = Append(written, b) /\ UNCHANGED port
      BY <2>1
    <3>2. b \in Octet /\ tcp.out \in Seq(Seq(Octet)) /\ tcp'.out = Append(tcp.out, <<b>>) /\ tcp'.up = tcp.up /\ port'.rfc = port.rfc
      BY <1>0, <3>1, NetworkConstants
    <3>3. Told(tcp.out, written) => Told(Append(tcp.out, <<b>>), Append(written, b))
      BY <1>0, <3>2, ToldOneMore
    <3> QED BY <3>1, <3>2, <3>3 DEF NetOutbound
  <2> QED BY <1>6, <1>8, <2>1 DEF PortWriteSome
<1>9. CASE BridgeCarries \/ BridgeControls
  <2>1. port' = port /\ tcp'.out = tcp.out /\ tcp'.up = tcp.up /\ written' = written
    BY <1>0, <1>9 DEF BridgeCarries, BridgeControls, BridgeSends
  <2> QED BY <1>1, <2>1
<1>10. CASE BridgeGoes
  <2>1. ~tcp'.up
    BY <1>0, <1>10 DEF BridgeGoes
  <2> QED BY <1>2, <2>1
<1>11. CASE UNCHANGED netVars
  BY <1>1, <1>11 DEF netVars
<1> QED BY <1>3, <1>4, <1>5, <1>6, <1>7, <1>8, <1>9, <1>10, <1>11 DEF NetNext

-----------------------------------------------------------------------------
(* What the bridge's decoder makes of what the port sends.                 *)
LEMMA ReadBackIsARead ==
  ASSUME NEW q \in Seq(Octet)
  PROVE  ReadBack(q) = Read(At("DATA", <<>>, <<>>), q) /\ At("DATA", <<>>, <<>>) \in Filters
<1>0. "DATA" \in FilterStates /\ <<>> \in Buffers /\ <<>> \in Seq(Octet) /\ 0 \in Octet
  BY BufferFacts, Octets DEF FilterStates
<1>1. FilterInboundData("DATA", <<>>, q) \in Filters
  BY <1>0, FilterAppend
<1>2. Behind(FilterInboundData("DATA", <<>>, q), <<>>) = FilterInboundData("DATA", <<>>, q)
  BY <1>0, <1>1, BehindFacts
<1>3. At("DATA", <<>>, <<>>).state = "DATA" /\ At("DATA", <<>>, <<>>).buffer = <<>> /\ At("DATA", <<>>, <<>>).out = <<>>
  BY DEF At
<1>4. At("DATA", <<>>, <<>>) \in Filters
  BY <1>0, AtFacts
<1>5. Read(At("DATA", <<>>, <<>>), q) = Behind(FilterInboundData("DATA", <<>>, q), <<>>)
  BY <1>3 DEF Read
<1> QED BY <1>2, <1>4, <1>5 DEF ReadBack

(* The negotiation, a byte of the line, a command, and the settings.       *)
LEMMA NegotiationReadBack == ReadBack(Negotiation) = At("DATA", <<>>, <<>>)
<1>0. <<>> \in Buffers /\ <<>> \in Seq(Octet)
  BY BufferFacts
<1>1. IsOption(Negotiation)
  <2>1. WILL \in OptionVerbs
    BY DEF WILL, OptionVerbs
  <2> QED BY <2>1, Octets DEF IsOption, Negotiation
<1>2. Read(At("DATA", <<>>, <<>>), Negotiation) = At("DATA", <<>>, <<>>) /\ Negotiation \in Seq(Octet)
  BY <1>0, <1>1, ReadOption
<1> QED BY <1>2, ReadBackIsARead

LEMMA ByteReadBack ==
  ASSUME NEW b \in Octet, b # IAC
  PROVE  ReadBack(<<b>>) = At("DATA", <<>>, <<b>>)
<1>0. <<>> \in Buffers /\ <<>> \in Seq(Octet) /\ <<b>> \in Seq(Octet) /\ Append(<<>>, b) = <<b>>
  BY BufferFacts
<1>1. Read(At("DATA", <<>>, <<>>), <<b>>) = ProcessByte(At("DATA", <<>>, <<>>), b)
  BY ReadBackIsARead, ReadOne, <1>0
<1>2. ProcessByte(At("DATA", <<>>, <<>>), b) = At("DATA", <<>>, Append(<<>>, b))
  BY <1>0, BytesFiltered
<1> QED BY <1>0, <1>1, <1>2, ReadBackIsARead

LEMMA CommandReadBack ==
  ASSUME NEW c \in Octet, c # IAC, NEW d \in Seq(Octet), 2 + Len(d) <= MAX_COMMAND_BUFFER_SIZE
  PROVE  ReadBack(SendCommand(c, d)) = At("DATA", <<COM_PORT_OPTION, c>> \o d, <<>>)
<1> DEFINE z == At("DATA", <<>>, <<>>)
           head == <<IAC, SB, COM_PORT_OPTION, c>>
           tail == Escape(d) \o <<IAC, SE>>
           b == <<COM_PORT_OPTION, c>>
<1>0. <<>> \in Buffers /\ <<>> \in Seq(Octet) /\ Len(<<>>) = 0
  BY BufferFacts
<1>1. /\ head \in Seq(Octet) /\ Escape(d) \in Seq(Octet) /\ <<IAC, SE>> \in Seq(Octet) /\ <<IAC, SB, COM_PORT_OPTION>> \in Seq(Octet)
      /\ <<COM_PORT_OPTION>> \in Seq(Octet) /\ b \in Seq(Octet)
  BY Octets, EscapeIsBytes
<1>2. tail \in Seq(Octet)
  BY <1>1, ConcatProperties
<1>3. SendCommand(c, d) = head \o tail
  <2> DEFINE e == Escape(d)
             t == <<IAC, SE>>
  <2>1. head \in Seq(Octet) /\ e \in Seq(Octet) /\ t \in Seq(Octet)
    BY <1>1
  <2> HIDE DEF head, e, t
  <2>2. Regroups(head, e, t)
    BY <2>1, Regrouped
  <2> QED BY <2>2 DEF Regroups, SendCommand, head, e, t
<1>4. head = Append(<<IAC, SB, COM_PORT_OPTION>>, c)
  <2> DEFINE t == Append(<<IAC, SB, COM_PORT_OPTION>>, c)
  <2>1. Len(<<IAC, SB, COM_PORT_OPTION>>) = 3
    OBVIOUS
  <2>2. t \in Seq(Octet) /\ Len(t) = 4 /\ t[1] = IAC /\ t[2] = SB /\ t[3] = COM_PORT_OPTION /\ t[4] = c
    BY <1>1, <2>1, AppendProperties
  <2>3. head \in Seq(Octet) /\ Len(head) = 4 /\ head[1] = IAC /\ head[2] = SB /\ head[3] = COM_PORT_OPTION /\ head[4] = c
    BY <1>1
  <2> HIDE DEF head, t
  <2>4. \A i \in 1 .. 4 : head[i] = t[i]
    BY <2>2, <2>3
  <2>5. head = t
    BY <2>2, <2>3, <2>4, SeqEqual
  <2> QED BY <2>5 DEF t
<1>5. <<COM_PORT_OPTION>> \in Buffers /\ Len(<<COM_PORT_OPTION>>) = 1 /\ Append(<<>>, COM_PORT_OPTION) = <<COM_PORT_OPTION>>
  BY <1>1, NetworkConstants DEF Buffers
<1>6. b \in Buffers /\ Len(b) = 2 /\ b = Append(<<COM_PORT_OPTION>>, c)
  <2>1. Append(<<COM_PORT_OPTION>>, c) = <<COM_PORT_OPTION, c>>
    BY Octets, ShortSequences
  <2>2. Len(b) = 2
    OBVIOUS
  <2> QED BY <1>1, <2>1, <2>2, NetworkConstants DEF Buffers
<1> HIDE DEF head, tail, b
<1>7. z \in Filters
  BY ReadBackIsARead
<1>8. Read(z, <<IAC, SB, COM_PORT_OPTION>>) = At("SUBNEG", <<COM_PORT_OPTION>>, <<>>)
  <2>1. Read(z, <<IAC, SB, COM_PORT_OPTION>>) = ProcessByte(ProcessByte(ProcessByte(z, IAC), SB), COM_PORT_OPTION)
    <3> HIDE DEF z
    <3> QED BY <1>7, Octets, ReadThree
  <2>2. ProcessByte(z, IAC) = At("IAC", <<>>, <<>>) /\ ProcessByte(At("IAC", <<>>, <<>>), SB) = At("SUBNEG", <<>>, <<>>)
    BY <1>0, BytesFiltered, Octets
  <2>3. ProcessByte(At("SUBNEG", <<>>, <<>>), COM_PORT_OPTION) = At("SUBNEG", Append(<<>>, COM_PORT_OPTION), <<>>)
    <3>1. Len(<<>>) < MAX_COMMAND_BUFFER_SIZE
      BY <1>0, NetworkConstants
    <3> QED BY <1>0, <3>1, BytesCollected, Octets
  <2> QED BY <1>5, <2>1, <2>2, <2>3
<1>9. Read(z, head) = At("SUBNEG", b, <<>>)
  <2>1. Read(z, head) = ProcessByte(Read(z, <<IAC, SB, COM_PORT_OPTION>>), c)
    <3> HIDE DEF z
    <3> QED BY <1>1, <1>4, <1>7, ReadAppend
  <2>2. Len(<<COM_PORT_OPTION>>) < MAX_COMMAND_BUFFER_SIZE
    BY <1>5, NetworkConstants
  <2>3. ProcessByte(At("SUBNEG", <<COM_PORT_OPTION>>, <<>>), c) = At("SUBNEG", Append(<<COM_PORT_OPTION>>, c), <<>>)
    BY <1>0, <1>5, <2>2, BytesCollected
  <2> QED BY <1>6, <1>8, <2>1, <2>3
<1>10. Read(At("SUBNEG", b, <<>>), tail) = At("DATA", b \o d, <<>>)
  <2>1. Len(b) + Len(d) <= MAX_COMMAND_BUFFER_SIZE
    BY <1>6
  <2> QED BY <1>0, <1>6, <2>1, ReadContents DEF tail
<1>11. Read(z, head \o tail) = Read(Read(z, head), tail)
  <2> HIDE DEF z
  <2> QED BY <1>1, <1>2, <1>7, ReadOn
<1>12. SendCommand(c, d) \in Seq(Octet)
  BY CommandIsBytes
<1>13. ReadBack(SendCommand(c, d)) = Read(z, SendCommand(c, d))
  BY <1>12, ReadBackIsARead
<1> QED BY <1>3, <1>9, <1>10, <1>11, <1>13 DEF b

LEMMA PairAndOne ==
  ASSUME NEW x \in Octet, NEW y \in Octet, NEW z \in Octet
  PROVE  <<x, y>> \o <<z>> = <<x, y, z>>
<1>1. <<x, y>> \in Seq(Octet) /\ Append(<<x, y>>, z) = <<x, y, z>>
  BY ShortSequences
<1>2. Append(<<x, y>>, z) = <<x, y>> \o <<z>>
  BY <1>1, AppendIsConcat
<1> QED BY <1>1, <1>2

LEMMA SettingsReadBack ==
  /\ ReadBack(Setting.baud) = At("DATA", <<44, 1, 0, 0, 37, 128>>, <<>>)
  /\ ReadBack(Setting.size) = At("DATA", <<44, 2, 8>>, <<>>)
  /\ ReadBack(Setting.parity) = At("DATA", <<44, 3, 1>>, <<>>)
  /\ ReadBack(Setting.stop) = At("DATA", <<44, 4, 1>>, <<>>)
  /\ ReadBack(Setting.flow) = At("DATA", <<44, 5, 0>>, <<>>)
<1>0. /\ 1 \in Octet /\ 2 \in Octet /\ 3 \in Octet /\ 4 \in Octet /\ 5 \in Octet /\ 8 \in Octet /\ 0 \in Octet
      /\ 1 # IAC /\ 2 # IAC /\ 3 # IAC /\ 4 # IAC /\ 5 # IAC
  BY DEF Octet, IAC
<1>1. /\ Setting.baud = SendCommand(1, EncodeBaudRate(9600)) /\ Setting.size = SendCommand(2, <<8>>)
      /\ Setting.parity = SendCommand(3, <<1>>) /\ Setting.stop = SendCommand(4, <<1>>) /\ Setting.flow = SendCommand(5, <<0>>)
  BY DEF Setting
<1>2. COM_PORT_OPTION = 44
  BY DEF COM_PORT_OPTION
<1>3. \A c \in Octet, x \in Octet : c # IAC => ReadBack(SendCommand(c, <<x>>)) = At("DATA", <<COM_PORT_OPTION, c, x>>, <<>>)
  <2> TAKE c \in Octet, x \in Octet
  <2> HAVE c # IAC
  <2>1. <<x>> \in Seq(Octet) /\ 2 + Len(<<x>>) <= MAX_COMMAND_BUFFER_SIZE
    BY NetworkConstants
  <2>2. ReadBack(SendCommand(c, <<x>>)) = At("DATA", <<COM_PORT_OPTION, c>> \o <<x>>, <<>>)
    BY <2>1, CommandReadBack
  <2> QED BY <2>2, PairAndOne, Octets
<1>4. ReadBack(SendCommand(1, EncodeBaudRate(9600))) = At("DATA", <<44, 1, 0, 0, 37, 128>>, <<>>)
  <2> DEFINE r == EncodeBaudRate(9600)
  <2>1. r \in Seq(Octet) /\ r = <<0, 0, 37, 128>>
    BY BaudRate
  <2>2. Len(r) = 4
    BY <2>1
  <2> HIDE DEF r
  <2>3. 2 + Len(r) <= MAX_COMMAND_BUFFER_SIZE
    BY <2>2, NetworkConstants
  <2>4. ReadBack(SendCommand(1, r)) = At("DATA", <<COM_PORT_OPTION, 1>> \o r, <<>>)
    BY <1>0, <2>1, <2>3, CommandReadBack
  <2>5. <<COM_PORT_OPTION, 1>> \o r = <<44, 1, 0, 0, 37, 128>>
    <3> DEFINE h == <<COM_PORT_OPTION, 1>>
               s == h \o r
               t == <<44, 1, 0, 0, 37, 128>>
    <3>0. 37 \in Octet /\ 128 \in Octet /\ 44 \in Octet
      BY DEF Octet
    <3>1. h \in Seq(Octet) /\ Len(h) = 2 /\ h[1] = 44 /\ h[2] = 1
      BY <1>0, <1>2, Octets
    <3>2. r[1] = 0 /\ r[2] = 0 /\ r[3] = 37 /\ r[4] = 128
      BY <2>1
    <3> HIDE DEF h
    <3>3. /\ s \in Seq(Octet) /\ Len(s) = Len(h) + Len(r)
          /\ \A i \in 1 .. Len(h) + Len(r) : s[i] = IF i <= Len(h) THEN h[i] ELSE r[i - Len(h)]
      <4>1. h \in Seq(Octet) /\ r \in Seq(Octet)
        BY <2>1, <3>1
      <4> QED BY <4>1, ConcatProperties
    <3> HIDE DEF s
    <3>4. Len(s) = 6 /\ \A i \in 1 .. 6 : s[i] = IF i <= 2 THEN h[i] ELSE r[i - 2]
      BY <2>2, <3>1, <3>3
    <3>5. s[1] = 44 /\ s[2] = 1 /\ s[3] = 0 /\ s[4] = 0 /\ s[5] = 37 /\ s[6] = 128
      BY <3>1, <3>2, <3>4
    <3>6. t \in Seq(Octet)
      BY <1>0, <3>0
    <3>7. Len(t) = 6 /\ t[1] = 44 /\ t[2] = 1 /\ t[3] = 0 /\ t[4] = 0 /\ t[5] = 37 /\ t[6] = 128
      OBVIOUS
    <3> HIDE DEF t
    <3>8. \A i \in 1 .. 6 : s[i] = t[i]
      BY <3>5, <3>7
    <3>9. s = t
      <4>1. s \in Seq(Octet) /\ Len(s) = Len(t) /\ \A i \in 1 .. Len(s) : s[i] = t[i]
        BY <3>3, <3>4, <3>7, <3>8
      <4> QED BY <3>6, <4>1, SeqEqual
    <3> QED BY <3>9 DEF s, t, h
  <2>6. ReadBack(SendCommand(1, r)) = At("DATA", <<44, 1, 0, 0, 37, 128>>, <<>>)
    BY <2>4, <2>5, Zenon
  <2> QED BY <2>6 DEF r
<1> QED BY <1>0, <1>1, <1>2, <1>3, <1>4

-----------------------------------------------------------------------------
(* What the devices wrote, out of what the port sent.                      *)
Outs(w) == [i \in 1 .. 11 + Len(w) |-> IF i <= 11 THEN <<>> ELSE <<w[i - 11]>>]

(* Joining what is empty.                                                  *)
LEMMA NothingJoined ==
  ASSUME NEW q \in Seq({<<>>})
  PROVE  Joined(q) = <<>>
<1> DEFINE P == {p \in Seq({<<>>}) : Joined(p) = <<>>}
<1>1. <<>> \in P
  BY JoinedEmpty
<1>2. ASSUME NEW p \in Seq({<<>>}), NEW x \in {<<>>}, p \in P PROVE Append(p, x) \in P
  <2>1. p \in Seq(Seq({})) /\ x \in Seq({}) /\ x = <<>>
    <3>1. {<<>>} \subseteq Seq({})
      OBVIOUS
    <3> QED BY <3>1, SeqMonotonic
  <2>2. Joined(Append(p, x)) = Joined(p) \o x
    BY <2>1, JoinedAppend
  <2>3. Joined(p) = <<>> /\ <<>> \o <<>> = <<>>
    BY <1>2
  <2> QED BY <2>1, <2>2, <2>3, AppendProperties
<1> HIDE DEF P
<1>3. \A p \in Seq({<<>>}) : p \in P
  BY <1>1, <1>2, SequencesGrow
<1> QED BY <1>3 DEF P

(* Eleven commands hand nothing out, the writes what was written.          *)
LEMMA OutsJoined ==
  ASSUME NEW w \in Seq(Octet)
  PROVE  Joined(Outs(w)) = w
<1> DEFINE P == {v \in Seq(Octet) : Joined(Outs(v)) = v}
<1>1. <<>> \in P
  <2>1. Outs(<<>>) \in Seq({<<>>})
    BY DEF Outs
  <2> QED BY <2>1, NothingJoined
<1>2. ASSUME NEW v \in Seq(Octet), NEW b \in Octet, v \in P PROVE Append(v, b) \in P
  <2> DEFINE u == Append(v, b)
             N == Len(v)
             p == Outs(v)
             r == Outs(u)
             a == Append(p, <<b>>)
  <2>0. N \in Nat /\ \A i \in 1 .. N : v[i] \in Octet
    OBVIOUS
  <2>1. u \in Seq(Octet) /\ Len(u) = N + 1 /\ (\A i \in 1 .. N : u[i] = v[i]) /\ u[N + 1] = b
    BY AppendProperties
  <2> HIDE DEF u, N
  <2>2. /\ p \in Seq(Seq(Octet)) /\ Len(p) = 11 + N
        /\ \A i \in 1 .. 11 + N : p[i] = IF i <= 11 THEN <<>> ELSE <<v[i - 11]>>
    <3>1. \A i \in 1 .. 11 + N : (IF i <= 11 THEN <<>> ELSE <<v[i - 11]>>) \in Seq(Octet)
      <4> TAKE i \in 1 .. 11 + N
      <4>1. CASE i <= 11
        BY <4>1
      <4>2. CASE ~(i <= 11)
        <5>1. i - 11 \in 1 .. N
          BY <2>0, <4>2
        <5> QED BY <2>0, <4>2, <5>1
      <4> QED BY <4>1, <4>2
    <3> QED BY <2>0, <3>1 DEF Outs, N
  <2>3. /\ r \in Seq(Seq(Octet)) /\ Len(r) = 11 + (N + 1)
        /\ \A i \in 1 .. 11 + (N + 1) : r[i] = IF i <= 11 THEN <<>> ELSE <<u[i - 11]>>
    <3>1. \A i \in 1 .. 11 + (N + 1) : (IF i <= 11 THEN <<>> ELSE <<u[i - 11]>>) \in Seq(Octet)
      <4> TAKE i \in 1 .. 11 + (N + 1)
      <4>1. CASE i <= 11
        BY <4>1
      <4>2. CASE ~(i <= 11)
        <5>1. i - 11 \in 1 .. N + 1
          BY <2>0, <4>2
        <5>2. u[i - 11] \in Octet
          BY <2>1, <5>1
        <5> QED BY <4>2, <5>2
      <4> QED BY <4>1, <4>2
    <3> QED BY <2>0, <2>1, <3>1 DEF Outs
  <2> HIDE DEF p, r
  <2>4. /\ a \in Seq(Seq(Octet)) /\ Len(a) = 11 + N + 1 /\ (\A i \in 1 .. 11 + N : a[i] = p[i])
        /\ a[11 + N + 1] = <<b>>
    <3>1. <<b>> \in Seq(Octet)
      OBVIOUS
    <3> QED BY <2>2, <3>1, AppendProperties
  <2> HIDE DEF a
  <2>5. \A i \in 1 .. 11 + (N + 1) : r[i] = a[i]
    <3> TAKE i \in 1 .. 11 + (N + 1)
    <3>1. CASE i = 11 + N + 1
      <4>1. ~(i <= 11) /\ i - 11 = N + 1
        BY <2>0, <3>1
      <4> QED BY <2>1, <2>3, <2>4, <3>1, <4>1
    <3>2. CASE i # 11 + N + 1
      <4>1. i \in 1 .. 11 + N
        BY <2>0, <3>2
      <4>2. ~(i <= 11) => i - 11 \in 1 .. N
        BY <2>0, <4>1
      <4> QED BY <2>1, <2>2, <2>3, <2>4, <4>1, <4>2
    <3> QED BY <3>1, <3>2
  <2>6. Len(r) = Len(a)
    BY <2>0, <2>3, <2>4
  <2>7. r = a
    BY <2>3, <2>4, <2>5, <2>6, SeqEqual
  <2>8. Joined(a) = Joined(p) \o <<b>>
    <3>1. <<b>> \in Seq(Octet)
      OBVIOUS
    <3> QED BY <2>2, <3>1, JoinedAppend DEF a
  <2>9. Joined(p) = v
    BY <1>2 DEF p
  <2>10. v \o <<b>> = u
    BY AppendIsConcat DEF u
  <2> QED BY <2>1, <2>7, <2>8, <2>9, <2>10 DEF r, u
<1> HIDE DEF P
<1>3. \A v \in Seq(Octet) : v \in P
  BY <1>1, <1>2, SequencesGrow
<1> QED BY <1>3 DEF P

(* The bridge's decoder over all that the port sent.                       *)
LEMMA LineIsConfigured ==
  ASSUME NetTyped, NetOutbound
  PROVE  LineConfigured
<1> DEFINE out == tcp.out
           w == written
           N == Len(w)
           heard == [i \in DOMAIN out |-> ReadBack(out[i])]
           Five == {<<44, 1, 0, 0, 37, 128>>, <<44, 2, 8>>, <<44, 3, 1>>, <<44, 4, 1>>, <<44, 5, 0>>}
<1> SUFFICES ASSUME port.rfc, tcp.up, IAC \notin {w[i] : i \in DOMAIN w}
             PROVE  /\ out[1] = Negotiation
                    /\ \A i \in DOMAIN heard : heard[i].state = "DATA"
                    /\ Joined([i \in DOMAIN heard |-> heard[i].out]) = w
                    /\ Five = {heard[i].buffer : i \in DOMAIN heard} \ {<<>>}
  BY DEF LineConfigured
<1>1. w \in Seq(Octet) /\ out \in Seq(Seq(Octet)) /\ N \in Nat /\ DOMAIN w = 1 .. N /\ \A i \in 1 .. N : w[i] \in Octet
  <2>1. w \in Seq(Octet) /\ out \in Seq(Seq(Octet))
    BY DEF NetTyped
  <2> HIDE DEF w, out
  <2> QED BY <2>1
<1>2. Len(out) = 11 + N /\ Opening(out) /\ \A i \in 1 .. N : out[11 + i] = <<w[i]>>
  BY DEF NetOutbound, Told
<1>3. \A i \in 1 .. N : w[i] # IAC
  BY <1>1
<1> HIDE DEF out, w, N, Five
<1>4. DOMAIN out = 1 .. 11 + N
  BY <1>1, <1>2
<1>5. DOMAIN heard = 1 .. 11 + N /\ \A i \in 1 .. 11 + N : heard[i] = ReadBack(out[i])
  BY <1>4
<1> HIDE DEF heard
<1> DEFINE B == [i \in 1 .. 11 |-> IF i = 1 THEN <<>> ELSE IF i \in {2, 7} THEN <<44, 1, 0, 0, 37, 128>>
                                   ELSE IF i \in {3, 9} THEN <<44, 2, 8>> ELSE IF i \in {4, 8} THEN <<44, 3, 1>>
                                   ELSE IF i \in {5, 10} THEN <<44, 4, 1>> ELSE <<44, 5, 0>>]
<1>6. \A i \in 1 .. 11 : heard[i] = At("DATA", B[i], <<>>)
  <2>1. \A i \in 1 .. 11 : i \in 1 .. 11 + N
    BY <1>1
  <2>2. /\ heard[1] = ReadBack(Negotiation)
        /\ heard[2] = ReadBack(Setting.baud) /\ heard[3] = ReadBack(Setting.size) /\ heard[4] = ReadBack(Setting.parity)
        /\ heard[5] = ReadBack(Setting.stop) /\ heard[6] = ReadBack(Setting.flow)
        /\ heard[7] = ReadBack(Setting.baud) /\ heard[8] = ReadBack(Setting.parity) /\ heard[9] = ReadBack(Setting.size)
        /\ heard[10] = ReadBack(Setting.stop) /\ heard[11] = ReadBack(Setting.flow)
    BY <1>2, <1>5, <2>1 DEF Opening
  <2>3. /\ B[1] = <<>>
        /\ B[2] = <<44, 1, 0, 0, 37, 128>> /\ B[3] = <<44, 2, 8>> /\ B[4] = <<44, 3, 1>> /\ B[5] = <<44, 4, 1>> /\ B[6] = <<44, 5, 0>>
        /\ B[7] = <<44, 1, 0, 0, 37, 128>> /\ B[8] = <<44, 3, 1>> /\ B[9] = <<44, 2, 8>> /\ B[10] = <<44, 4, 1>> /\ B[11] = <<44, 5, 0>>
    OBVIOUS
  <2> HIDE DEF B
  <2>4. /\ heard[1] = At("DATA", B[1], <<>>) /\ heard[2] = At("DATA", B[2], <<>>) /\ heard[3] = At("DATA", B[3], <<>>)
        /\ heard[4] = At("DATA", B[4], <<>>) /\ heard[5] = At("DATA", B[5], <<>>) /\ heard[6] = At("DATA", B[6], <<>>)
        /\ heard[7] = At("DATA", B[7], <<>>) /\ heard[8] = At("DATA", B[8], <<>>) /\ heard[9] = At("DATA", B[9], <<>>)
        /\ heard[10] = At("DATA", B[10], <<>>) /\ heard[11] = At("DATA", B[11], <<>>)
    BY <2>2, <2>3, NegotiationReadBack, SettingsReadBack
  <2> QED BY <2>4
<1>7. \A i \in 1 .. N : heard[11 + i] = At("DATA", <<>>, <<w[i]>>)
  <2> TAKE i \in 1 .. N
  <2>1. 11 + i \in 1 .. 11 + N
    BY <1>1
  <2>2. ReadBack(<<w[i]>>) = At("DATA", <<>>, <<w[i]>>)
    BY <1>1, <1>3, ByteReadBack
  <2> QED BY <1>2, <1>5, <2>1, <2>2
<1>8. \A i \in 1 .. 11 + N : i \notin 1 .. 11 => i - 11 \in 1 .. N /\ 11 + (i - 11) = i
  BY <1>1
<1>9. \A b, o : At("DATA", b, o).state = "DATA" /\ At("DATA", b, o).buffer = b /\ At("DATA", b, o).out = o
  BY DEF At
<1>10. \A i \in 1 .. 11 + N : i \notin 1 .. 11 => heard[i] = At("DATA", <<>>, <<w[i - 11]>>)
  BY <1>7, <1>8
<1>10a. \A i \in 1 .. 11 : heard[i].state = "DATA" /\ heard[i].buffer = B[i] /\ heard[i].out = <<>>
  <2> TAKE i \in 1 .. 11
  <2> HIDE DEF B
  <2>1. heard[i] = At("DATA", B[i], <<>>)
    BY <1>6
  <2> QED BY <1>9, <2>1
<1>10b. \A i \in 1 .. 11 + N : i \notin 1 .. 11 =>
          heard[i].state = "DATA" /\ heard[i].buffer = <<>> /\ heard[i].out = <<w[i - 11]>>
  <2> TAKE i \in 1 .. 11 + N
  <2> HAVE i \notin 1 .. 11
  <2>1. heard[i] = At("DATA", <<>>, <<w[i - 11]>>)
    BY <1>10
  <2> QED BY <1>9, <2>1
<1>11. out[1] = Negotiation
  BY <1>2 DEF Opening
<1>12. \A i \in DOMAIN heard : heard[i].state = "DATA"
  <2> HIDE DEF B
  <2> QED BY <1>5, <1>10a, <1>10b
<1>13. Joined([i \in DOMAIN heard |-> heard[i].out]) = w
  <2>1. \A i \in 1 .. 11 + N : heard[i].out = IF i <= 11 THEN <<>> ELSE <<w[i - 11]>>
    <3> TAKE i \in 1 .. 11 + N
    <3> HIDE DEF B
    <3>1. CASE i <= 11
      <4>1. i \in 1 .. 11
        BY <1>1, <3>1
      <4> QED BY <1>10a, <3>1, <4>1
    <3>2. CASE ~(i <= 11)
      <4>1. i \notin 1 .. 11
        BY <3>2
      <4> QED BY <1>10b, <3>2, <4>1
    <3> QED BY <3>1, <3>2
  <2>2. [i \in DOMAIN heard |-> heard[i].out] = [i \in 1 .. 11 + N |-> IF i <= 11 THEN <<>> ELSE <<w[i - 11]>>]
    BY <1>5, <2>1
  <2>3. Outs(w) = [i \in 1 .. 11 + N |-> IF i <= 11 THEN <<>> ELSE <<w[i - 11]>>]
    BY DEF Outs, N
  <2> QED BY <1>1, <2>2, <2>3, OutsJoined
<1>14. \A i \in 1 .. 11 + N : heard[i].buffer \in Five \cup {<<>>}
  <2>1. \A i \in 1 .. 11 : B[i] \in Five \cup {<<>>}
    BY DEF Five
  <2> HIDE DEF B
  <2> QED BY <1>10a, <1>10b, <2>1
<1>15. \A b \in Five : \E i \in 1 .. 11 : B[i] = b
  <2>1. /\ B[2] = <<44, 1, 0, 0, 37, 128>> /\ B[3] = <<44, 2, 8>> /\ B[4] = <<44, 3, 1>> /\ B[5] = <<44, 4, 1>>
        /\ B[6] = <<44, 5, 0>>
    OBVIOUS
  <2> HIDE DEF B
  <2> QED BY <2>1 DEF Five
<1>16. <<>> \notin Five
  BY DEF Five
<1>17. \A b \in Five : \E i \in DOMAIN heard : heard[i].buffer = b
  <2> TAKE b \in Five
  <2> HIDE DEF B
  <2>1. PICK i \in 1 .. 11 : B[i] = b
    BY <1>15
  <2>2. i \in DOMAIN heard
    BY <1>1, <1>5
  <2> QED BY <1>10a, <2>1, <2>2
<1> HIDE DEF B
<1>18. Five = {heard[i].buffer : i \in DOMAIN heard} \ {<<>>}
  BY <1>5, <1>14, <1>16, <1>17
<1> QED BY <1>11, <1>12, <1>13, <1>18

-----------------------------------------------------------------------------
(* The network port: for every limit of the command buffer that holds the  *)
(* port's own commands, every option, parameter and byte the bridge sends, *)
(* every cut the reads make and every moment the bridge goes away.         *)
NetInv == NetTyped /\ NetInbound /\ NetReported /\ NetOutbound

THEOREM PortIsSafe == NetSpec => []PortSafe
<1>1. NetInit => NetInv
  <2> SUFFICES ASSUME NetInit PROVE NetInv
    OBVIOUS
  <2> USE DEF NetInit
  <2>1. NetTyped
    <3>1. <<>> \in Seq(Octet) /\ <<>> \in Seq(Seq(Octet)) /\ <<>> \in Buffers /\ "DATA" \in FilterStates
      BY BufferFacts DEF FilterStates
    <3>2. netGhost \in Ghosts
      BY DEF Ghosts
    <3>3. port \in Ports /\ port.state = "DATA" /\ port.buffer = <<>>
      BY <3>1 DEF Ports
    <3>4. tcp \in [in : Seq(Octet), out : Seq(Seq(Octet)), up : BOOLEAN]
      BY <3>1
    <3> QED BY <3>1, <3>2, <3>3, <3>4 DEF NetTyped
  <2>2. NetInbound
    <3>1. Outcome(port, handed, <<>>) = handed
      BY <2>1, RestFacts DEF NetTyped
    <3>2. Begins(<<>>, <<>>)
      <4>1. <<>> \in Seq(Octet)
        OBVIOUS
      <4> QED BY <4>1, BeginsFacts
    <3> QED BY <3>1, <3>2 DEF NetInbound
  <2>3. NetReported
    BY DEF NetReported
  <2>4. NetOutbound
    BY DEF NetOutbound
  <2> QED BY <2>1, <2>2, <2>3, <2>4 DEF NetInv
<1>2. NetInv /\ [NetNext]_netVars => NetInv'
  BY PortTyped, PortInbound, PortReported, PortOutbound DEF NetInv
<1>3. NetInv => PortSafe
  <2> SUFFICES ASSUME NetInv PROVE PortSafe
    OBVIOUS
  <2>0. NetTyped /\ NetInbound /\ NetReported /\ NetOutbound
    BY DEF NetInv
  <2>1. port \in Ports /\ tcp.in \in Seq(Octet) /\ handed \in Seq(Octet) /\ carried \in Seq(Octet)
    BY <2>0 DEF NetTyped
  <2>2. InboundIntact
    <3> SUFFICES ASSUME tcp.up, ~netGhost.overlong
                 PROVE handed \o (IF port.rfc THEN FilterInboundData(port.state, port.buffer, tcp.in).out ELSE tcp.in) = carried
      BY DEF InboundIntact
    <3>1. Outcome(port, handed, tcp.in) = carried
      BY <2>0 DEF NetInbound
    <3>2. Rest(port, handed, tcp.in).out = handed \o FilterInboundData(port.state, port.buffer, tcp.in).out
      <4>1. /\ At(port.state, port.buffer, handed).state = port.state /\ At(port.state, port.buffer, handed).buffer = port.buffer
            /\ At(port.state, port.buffer, handed).out = handed
        BY DEF At
      <4>3. Rest(port, handed, tcp.in) = Behind(FilterInboundData(port.state, port.buffer, tcp.in), handed)
        BY <4>1 DEF Rest, Read
      <4> QED BY <4>3, BehindOut, Zenon
    <3> QED BY <3>1, <3>2 DEF Outcome
  <2>3. NothingInvented
    <3> SUFFICES ASSUME ~netGhost.overlong PROVE \E n \in 0 .. Len(carried) : handed = SubSeq(carried, 1, n)
      BY DEF NothingInvented
    <3>1. Begins(handed, carried)
      <4>1. Begins(handed, Outcome(port, handed, tcp.in)) /\ Outcome(port, handed, tcp.in) \in Seq(Octet)
        BY <2>1, RestFacts
      <4>2. Begins(Outcome(port, handed, tcp.in), carried)
        BY <2>0 DEF NetInbound
      <4> QED BY <2>1, <4>1, <4>2, BeginsFacts
    <3>2. PICK o \in Seq(Octet) : carried = handed \o o
      BY <3>1 DEF Begins
    <3>3. Len(handed) \in 0 .. Len(handed \o o) /\ SubSeq(handed \o o, 1, Len(handed)) = handed
      BY <2>1
    <3> QED BY <3>2, <3>3
  <2>4. LineConfigured
    BY <2>0, LineIsConfigured
  <2>5. ReportedOnce
    <3>1. port.warnings \in Nat /\ netGhost.opens \in Nat
      BY <2>0 DEF NetTyped, Ports, Ghosts
    <3> QED BY <2>0, <3>1 DEF NetReported, ReportedOnce
  <2>6. NetTypeOK
    BY <2>0 DEF NetTyped, Ports, FilterStates, Buffers, NetTypeOK
  <2> QED BY <2>2, <2>3, <2>4, <2>5, <2>6 DEF PortSafe
<1> QED BY <1>1, <1>2, <1>3, PTL DEF NetSpec
=============================================================================
