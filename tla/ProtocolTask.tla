---------------------------- MODULE ProtocolTask ----------------------------
(***************************************************************************)
(* ProtocolTask: the serial half of the frame loop.  One Poll() writes out *)
(* what is queued, reads what the port holds into the serial buffer, cuts  *)
(* frames out of that buffer, dispatches them, and writes the replies the  *)
(* handlers queued.  The loop is one thread; what interleaves with its     *)
(* steps is the port: bytes arrive at any moment and in any portions, and  *)
(* a write takes as many bytes as the port likes.                          *)
(***************************************************************************)
EXTENDS Generators

CONSTANTS
    Capacity,      \* SERIAL_CIRCULAR_BUFFER_SIZE (4096)
    ReadChunk,     \* SERIAL_READ_CHUNK_SIZE (128)
    SingleRead,    \* m_SingleReadPerPoll
    WriteSize,     \* bytes of one serialized reply
    Traffic,       \* what one transmission on the bus may consist of
    SplitMarkers,  \* may bytes of one two-byte marker arrive apart?
    PortFaults,    \* may read_some report an error while bytes wait?
    PortCap,       \* bytes the operating system buffers for the port
    MaxFrames,     \* bound on the transmissions that are counted
    Endless,       \* do transmissions go on after MaxFrames of them?
    MaxWrites      \* bound on the replies

ASSUME TaskConstants ==
    /\ Capacity \in Nat \ {0} /\ ReadChunk \in Nat \ {0}
    /\ SingleRead \in BOOLEAN /\ SplitMarkers \in BOOLEAN
    /\ PortFaults \in BOOLEAN /\ Endless \in BOOLEAN
    /\ WriteSize \in Nat \ {0}
    /\ Traffic \subseteq Seq(Byte)
    /\ PortCap \in Nat /\ MaxFrames \in Nat /\ MaxWrites \in Nat

VARIABLES
    bus,     \* bytes of the current transmission that have not arrived
    wire,    \* bytes that arrived at the port and have not been read
    buf,     \* m_SerialBuffer
    wq,      \* m_WriteQueue: the queued buffers, numbered as enqueued
    off,     \* m_WriteOffset
    pc,      \* the step Poll() is at; "idle" between two calls
    last,    \* what the latest GenerateMessage of this Poll() returned
    sent,    \* <<buffer, from, to>>: the portion the port accepted last
    queued,  \* how many buffers were ever enqueued
    frames,  \* good frames transmitted
    starts,  \* transmissions started
    msgs     \* messages dispatched

rx   == <<bus, wire, buf, frames, starts>>
tx   == <<wq, off, sent, queued>>
vars == <<bus, wire, buf, wq, off, pc, last, sent, queued, frames, starts, msgs>>

Init ==
    /\ bus = << >> /\ wire = << >> /\ buf = << >>
    /\ wq = << >> /\ off = 0 /\ sent = <<0, 1, WriteSize>> /\ queued = 0
    /\ pc = "idle" /\ last = "none"
    /\ frames = 0 /\ starts = 0 /\ msgs = 0

(***************************************************************************)
(* The bus (external): whole transmissions follow one another, the bytes   *)
(* of one arrive in portions.                                              *)
(***************************************************************************)
GoodFrames == {<<"DLE", "STX", "a", "c", "DLE", "ETX">>, <<"FF00", "FFA5", "L", "a">>}

\* The counters stop one past the bound.
Count(n) == IF n <= MaxFrames THEN n + 1 ELSE n

BusTransmits ==
    /\ bus = << >>
    /\ starts < MaxFrames \/ Endless
    /\ \E t \in Traffic :
          /\ t # << >>
          /\ bus' = t
          /\ frames' = IF t \in GoodFrames THEN Count(frames) ELSE frames
    /\ starts' = Count(starts)
    /\ UNCHANGED <<wire, buf, pc, last, msgs, tx>>

Markers == {<<"DLE", "STX">>, <<"DLE", "ETX">>, <<"FF00", "FFA5">>}

CutsMarker(n) == n < Len(bus) /\ <<bus[n], bus[n + 1]>> \in Markers

BytesArrive ==
    \E n \in 1..Len(bus) :
        /\ Len(wire) + n <= PortCap
        /\ CutsMarker(n) => SplitMarkers
        /\ wire' = wire \o SubSeq(bus, 1, n)
        /\ bus' = DropFront(bus, n)
        /\ UNCHANGED <<buf, pc, last, frames, starts, msgs, tx>>

(***************************************************************************)
(* Writing.                                                                *)
(***************************************************************************)
\* A reply is serialized and appended: from a handler while a message is
\* dispatched, or from a timer callback between two frames.
EnqueueWrite ==
    /\ queued < MaxWrites
    /\ queued' = queued + 1
    /\ wq' = Append(wq, queued + 1)
    /\ UNCHANGED <<off, sent>>

\* Between two frames, a callback of the application queues a write.
CallbackEnqueues ==
    /\ pc = "idle"
    /\ EnqueueWrite
    /\ UNCHANGED <<rx, pc, last, msgs>>

\* What follows the two calls of DrainWrites in Poll().
AfterWrites == IF pc = "write" THEN "read" ELSE "idle"

\* A faulty WriteSome: an incomplete buffer is written again from its start.
WriteSomeRestarts(n) ==
    /\ pc \in {"write", "reply"}
    /\ wq # << >>
    /\ sent' = <<wq[1], off + 1, off + n>>
    /\ off' = 0
    /\ wq' = IF off + n >= WriteSize THEN Tail(wq) ELSE wq
    /\ UNCHANGED <<rx, pc, last, queued, msgs>>

\* A faulty WriteSome: a buffer is popped although it was written in part.
WriteSomePopsPartial(n) ==
    /\ pc \in {"write", "reply"}
    /\ wq # << >>
    /\ sent' = <<wq[1], off + 1, off + n>>
    /\ wq' = Tail(wq) /\ off' = 0
    /\ UNCHANGED <<rx, pc, last, queued, msgs>>

\* write_some accepts n bytes of the front buffer; a complete buffer is popped.
WriteSome(n) ==
    /\ pc \in {"write", "reply"}
    /\ wq # << >>
    /\ sent' = <<wq[1], off + 1, off + n>>
    /\ IF off + n >= WriteSize
       THEN wq' = Tail(wq) /\ off' = 0
       ELSE wq' = wq /\ off' = off + n
    /\ UNCHANGED <<rx, pc, last, queued, msgs>>

\* Nothing is left to write, or the port would block, or it reports an error:
\* the offset stays and the rest waits for the next call.
DrainWritesEnds ==
    /\ pc \in {"write", "reply"}
    /\ pc' = AfterWrites
    /\ UNCHANGED <<rx, tx, last, msgs>>

(***************************************************************************)
(* Reading.                                                                *)
(***************************************************************************)
\* read_some returns what is there, a chunk at most.
BytesRead == IF Len(wire) <= ReadChunk THEN Len(wire) ELSE ReadChunk

\* A faulty ReadSome: the copy is not bounded by the space left.
ReadSomeUnbounded ==
    /\ pc = "read" /\ wire # << >>
    /\ buf' = buf \o SubSeq(wire, 1, BytesRead)
    /\ wire' = DropFront(wire, BytesRead)
    /\ pc' = IF SingleRead THEN "parse" ELSE "read"
    /\ UNCHANGED <<bus, last, frames, starts, msgs, tx>>

\* One read_some: the bytes that fit are appended, the tail is dropped.
ReadSome ==
    /\ pc = "read" /\ wire # << >>
    /\ LET space == Capacity - Len(buf)
           take  == IF BytesRead <= space THEN BytesRead ELSE space
       IN  buf' = buf \o SubSeq(wire, 1, take)
    /\ wire' = DropFront(wire, BytesRead)
    /\ pc' = IF SingleRead THEN "parse" ELSE "read"
    /\ UNCHANGED <<bus, last, frames, starts, msgs, tx>>

\* would_block, end of file, or a port that fails although bytes are there.
DrainReadsEnds ==
    /\ pc = "read"
    /\ wire = << >> \/ PortFaults
    /\ pc' = "parse"
    /\ UNCHANGED <<rx, tx, last, msgs>>

(***************************************************************************)
(* Parsing and dispatch.                                                   *)
(***************************************************************************)
KeepProcessing == {"DataAvailable", "ChecksumFailure", "Overlapping"}

\* A faulty HandleGenerationError: it does not ask whether bytes were consumed.
HandleGenerationErrorUnchecked(result) ==
    /\ result.code # "Message"
    /\ pc' = IF result.code \in KeepProcessing THEN "parse" ELSE "reply"
    /\ UNCHANGED <<tx, msgs>>

\* An error lets the loop go on only if the generator consumed something.
HandleGenerationError(result) ==
    /\ result.code # "Message"
    /\ pc' = IF result.code \in KeepProcessing /\ Len(result.buf) < Len(buf)
             THEN "parse" ELSE "reply"
    /\ UNCHANGED <<tx, msgs>>

\* The handlers of a message may queue a reply; one that throws is caught.
HandleParsedMessage(result) ==
    /\ result.code = "Message"
    /\ msgs' = Count(msgs)
    /\ pc' = "parse"
    /\ EnqueueWrite \/ UNCHANGED tx

\* One turn of the ProcessMessages loop.
ProcessMessage ==
    /\ pc = "parse" /\ buf # << >>
    /\ \E result \in {GenerateMessage(buf)} :
          /\ HandleParsedMessage(result) \/ HandleGenerationError(result)
          /\ buf' = result.buf
          /\ last' = result.code
    /\ UNCHANGED <<bus, wire, frames, starts>>

\* The buffer is empty: the loop ends, or was not entered at all, in which
\* case Poll() does not call DrainWrites again.
ProcessMessagesEnds ==
    /\ pc = "parse" /\ buf = << >>
    /\ pc' = IF last = "none" THEN "idle" ELSE "reply"
    /\ UNCHANGED <<rx, tx, last, msgs>>

\* The frame loop calls Poll().
PollStarts ==
    /\ pc = "idle"
    /\ pc' = "write" /\ last' = "none"
    /\ UNCHANGED <<rx, tx, msgs>>

Poll ==
    \/ PollStarts
    \/ \E n \in 1..(WriteSize - off) : WriteSome(n)
    \/ DrainWritesEnds
    \/ ReadSome
    \/ DrainReadsEnds
    \/ ProcessMessage
    \/ ProcessMessagesEnds

Next == BusTransmits \/ BytesArrive \/ CallbackEnqueues \/ Poll

Spec == Init /\ [][Next]_vars

(***************************************************************************)
(* Fairness.  The frame loop keeps calling Poll(), of which a step is      *)
(* possible in every state; the bus keeps transmitting as long as it may,  *)
(* the port delivers what was sent; and the bus (9600 baud) is slower than *)
(* the read loop, which therefore finds the port empty and ends.           *)
(***************************************************************************)
FairSpec ==
    /\ Spec
    /\ []<><<Poll>>_vars
    /\ WF_vars(BusTransmits) /\ WF_vars(BytesArrive)
    /\ []<>(pc # "read")

(***************************************************************************)
(* Properties.                                                             *)
(***************************************************************************)
TypeOK ==
    /\ bus \in Seq(Byte) /\ wire \in Seq(Byte) /\ buf \in Seq(Byte)
    /\ wq \in Seq(Nat) /\ off \in Nat /\ queued \in Nat
    /\ sent \in Nat \X Nat \X Nat
    /\ pc \in {"idle", "write", "read", "parse", "reply"}
    /\ last \in Codes \cup {"none"}
    /\ frames \in Nat /\ starts \in Nat /\ msgs \in Nat

\* The buffer never holds more than its capacity (DrainReads bounds the copy
\* to the space left, so the circular buffer never evicts from its front).
BufferBounded == Len(buf) <= Capacity

\* One Poll() cannot spin: a turn of the ProcessMessages loop that is followed
\* by another one has consumed bytes (the consume-or-defer contract together
\* with the check in HandleGenerationError).
ParseTerminates ==
    [][ProcessMessage /\ pc' = "parse" => Len(buf') < Len(buf)]_vars

\* The output stream is the queued buffers in the order of EnqueueWrite, every
\* byte once: each portion continues the previous one, or starts the next
\* buffer after the previous one is complete, whatever the port accepts and
\* however often a write breaks off (m_WriteOffset and pop_front agree).
WritesInOrder ==
    [][sent' # sent =>
         \/ sent'[1] = sent[1] /\ sent'[2] = sent[3] + 1
         \/ sent[3] = WriteSize /\ sent'[1] = sent[1] + 1 /\ sent'[2] = 1]_vars

\* A queued buffer is never forgotten: the queue is exactly the buffers after
\* the last one completed, the front one written up to m_WriteOffset.
QueueIsTheUnsentRest ==
    LET complete == IF sent[3] = WriteSize THEN sent[1] ELSE sent[1] - 1
    IN  /\ Len(wq) = queued - complete
        /\ \A i \in 1..Len(wq) : wq[i] = complete + i
        /\ off = IF sent[3] = WriteSize THEN 0 ELSE sent[3]

\* Every frame that arrived undamaged has been dispatched, once, when nothing
\* is left to read or to parse: frames survive being delivered over several
\* reads, in front of, behind or inside a frame of the other protocol.
FramesSurvive ==
    pc = "idle" /\ bus = << >> /\ wire = << >> /\ buf = << >> => msgs = frames

\* On a bus where nothing was damaged every frame is dispatched in the end.
AllDispatched == <>[](starts = frames => msgs = frames)

\* A full buffer is drained by the parser sooner or later: bytes dropped for
\* want of space are a passing condition.
FullBufferDrains == (Len(buf) = Capacity) ~> (Len(buf) < Capacity)

\* The two streams of the port are intact: the input buffer keeps its bound and
\* the write queue is the rest of the output stream (DrainReads, DrainWrites).
StreamsIntact == TypeOK /\ BufferBounded /\ QueueIsTheUnsentRest

\* A Poll() comes to its end and writes in order (ProcessMessages, DrainWrites).
PollIsSound == ParseTerminates /\ WritesInOrder
=============================================================================
