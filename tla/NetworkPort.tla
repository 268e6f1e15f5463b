---------------------------- MODULE NetworkPort ----------------------------
(* A serial port reached over TCP: opening and configuring it                *)
(* (core/serial/serial_initialise.cpp), the port itself                      *)
(* (port_types/network_serial_port_impl.cpp, seen through SerialPort) and    *)
(* the telnet filter between socket and framing (rfc2217/...).               *)
(*                                                                           *)
(* The bridge at the other end and TCP are external: the bridge carries the  *)
(* bytes of the RS-485 line, doubles the byte IAC among them when it speaks  *)
(* RFC 2217, mixes its own control sequences in, and may go away at any      *)
(* time, the last bytes read or lost; a read returns any number of the bytes *)
(* that have arrived.                                                        *)
EXTENDS Naturals, Sequences

CONSTANTS
    MAX_COMMAND_BUFFER_SIZE, \* 4096 in the code
    LineBytes,     \* bytes of the RS-485 line, either way
    Options,       \* commands and option negotiations the bridge sends
    Parameters,    \* what its sub-negotiations carry, the option first
    MaxSends,      \* bound: what the bridge sends on one connection
    MaxSent,       \* bound: what the devices write on one connection
    MaxOpens       \* bound: connections

VARIABLES
    port,          \* m_IsOpen, the socket's state, transport, m_State, m_CommandBuffer, warnings
    tcp,           \* the connection: bytes towards us, the writes we made, bridge there
    carried,       \* what the line carried since the connection was made
    handed,        \* what read_some handed to the framing since then
    written,       \* what write_some took since then
    netGhost       \* opens, sends of this connection, an overlong sequence among them

netVars == <<port, tcp, carried, handed, written, netGhost>>

-----------------------------------------------------------------------------
(* Telnet bytes.                                                             *)

IAC == 255

SB == 250

SE == 240

WILL == 251

OptionVerbs == 251..254

COM_PORT_OPTION == 44

Octet == 0..255

(* A command is a byte behind IAC, with one more if it is about an option.   *)
IsOption(bytes) ==
    \/ \E v \in Octet \ (OptionVerbs \cup {IAC, SB}) : bytes = <<IAC, v>>
    \/ \E v \in OptionVerbs, option \in Octet : bytes = <<IAC, v, option>>

(* The buffer holds at least the longest command the port sends itself.      *)
ASSUME NetworkConstants ==
    /\ MAX_COMMAND_BUFFER_SIZE \in Nat /\ MAX_COMMAND_BUFFER_SIZE >= 6
    /\ MaxSends \in Nat /\ MaxSent \in Nat /\ MaxOpens \in Nat
    /\ LineBytes \subseteq Octet
    /\ \A c \in Options : IsOption(c)
    /\ Parameters \subseteq Seq(Octet)

(* The sequences one after the other.                                        *)
Joined(seqs) ==
    LET join[n \in 0..Len(seqs)] == IF n = 0 THEN <<>> ELSE join[n - 1] \o seqs[n]
    IN  join[Len(seqs)]

Doubled(byte) == IF byte = IAC THEN <<IAC, IAC>> ELSE <<byte>>

Escape(bytes) == Joined([i \in 1..Len(bytes) |-> Doubled(bytes[i])])

Negotiation == <<IAC, WILL, COM_PORT_OPTION>>

SendCommandUnclosed(command, data) == <<IAC, SB, COM_PORT_OPTION, command>> \o Escape(data) \o <<SE>>

SendCommand(command, data) == <<IAC, SB, COM_PORT_OPTION, command>> \o Escape(data) \o <<IAC, SE>>

EncodeBaudRate(rate) ==
    <<rate \div 16777216, (rate \div 65536) % 256, (rate \div 256) % 256, rate % 256>>

(* The Jandy line: 9600 baud, eight bits, no parity, one stop bit, no flow   *)
(* control, in RFC 2217's numbers; the handler and Initialise() send them in *)
(* different orders.                                                         *)
Setting ==
    [baud   |-> SendCommand(1, EncodeBaudRate(9600)),
     size   |-> SendCommand(2, <<8>>),
     parity |-> SendCommand(3, <<1>>),
     stop   |-> SendCommand(4, <<1>>),
     flow   |-> SendCommand(5, <<0>>)]

InitiateNegotiation == <<Negotiation, Setting.baud, Setting.size, Setting.parity, Setting.stop, Setting.flow>>

(* A set_* of the port goes to the handler, if the transport has one.        *)
SetOption(command) == IF port.rfc THEN <<command>> ELSE <<>>

ConfigureOptions ==
    SetOption(Setting.baud) \o SetOption(Setting.parity) \o SetOption(Setting.size)
      \o SetOption(Setting.stop) \o SetOption(Setting.flow)

-----------------------------------------------------------------------------
(* The filter: f holds m_State, m_CommandBuffer and the bytes that survive.  *)

CollectUnbounded(f, byte) == [f EXCEPT !.buffer = Append(@, byte), !.state = "SUBNEG"]

Collect(f, byte) ==
    IF Len(f.buffer) >= MAX_COMMAND_BUFFER_SIZE
    THEN [f EXCEPT !.buffer = <<>>, !.state = "DATA"]
    ELSE [f EXCEPT !.buffer = Append(@, byte), !.state = "SUBNEG"]

ProcessIAC(f, byte) ==
    CASE byte = IAC            -> [f EXCEPT !.state = "DATA", !.out = Append(@, byte)]
      [] byte = SB             -> [f EXCEPT !.state = "SUBNEG", !.buffer = <<>>]
      [] byte \in OptionVerbs  -> [f EXCEPT !.state = "COMMAND"]
      [] OTHER                 -> [f EXCEPT !.state = "DATA"]

ProcessCommand(f, byte) == [f EXCEPT !.state = "DATA"]

(* A complete sub-negotiation is looked at and logged only (HandleCommand).  *)
ProcessSubnegIAC(f, byte) ==
    IF byte = SE THEN [f EXCEPT !.state = "DATA"] ELSE Collect(f, byte)

ProcessByte(f, byte) ==
    CASE f.state = "DATA"       -> IF byte = IAC THEN [f EXCEPT !.state = "IAC"]
                                                 ELSE [f EXCEPT !.out = Append(@, byte)]
      [] f.state = "IAC"        -> ProcessIAC(f, byte)
      [] f.state = "COMMAND"    -> ProcessCommand(f, byte)
      [] f.state = "SUBNEG"     -> IF byte = IAC THEN [f EXCEPT !.state = "SUBNEG_IAC"]
                                                 ELSE Collect(f, byte)
      [] f.state = "SUBNEG_IAC" -> ProcessSubnegIAC(f, byte)

FilterInboundData(state, buffer, raw) ==
    LET filtered[n \in 0..Len(raw)] ==
          IF n = 0 THEN [state |-> state, buffer |-> buffer, out |-> <<>>]
          ELSE ProcessByte(filtered[n - 1], raw[n])
    IN  filtered[Len(raw)]

-----------------------------------------------------------------------------
(* Opening: Serial::Initialise(), open(), InitialiseConnectedSocket() and    *)
(* ProtocolHandler::Initialize().                                            *)

IsOpen == port.isOpen /\ port.socket

NetInit ==
    /\ \E rfc \in BOOLEAN :
         port = [isOpen |-> FALSE, socket |-> FALSE, rfc |-> rfc, state |-> "DATA", buffer |-> <<>>, warnings |-> 0]
    /\ tcp = [in |-> <<>>, out |-> <<>>, up |-> FALSE]
    /\ carried = <<>> /\ handed = <<>> /\ written = <<>>
    /\ netGhost = [opens |-> 0, sends |-> 0, overlong |-> FALSE]

(* Resolving fails, or connecting does and leaves the descriptor behind, or  *)
(* the socket cannot be made non-blocking and is closed again.               *)
OpenFails ==
    /\ ~IsOpen
    /\ port' \in {port, [port EXCEPT !.socket = TRUE], [port EXCEPT !.socket = FALSE, !.isOpen = FALSE]}
    /\ UNCHANGED <<tcp, carried, handed, written, netGhost>>

HandlerInitializeKeepingState(p) == [p EXCEPT !.buffer = <<>>]

HandlerInitialize(p) == [p EXCEPT !.state = "DATA", !.buffer = <<>>]

(* What is written while the port opens; n of the pieces get out before the  *)
(* bridge goes away, which only the next read or write will notice.          *)
OpeningPieces == (IF port.rfc THEN InitiateNegotiation ELSE <<>>) \o ConfigureOptions

Open ==
    /\ ~IsOpen /\ netGhost.opens < MaxOpens
    /\ port' = LET p == [port EXCEPT !.isOpen = TRUE, !.socket = TRUE]
               IN IF port.rfc THEN HandlerInitialize(p) ELSE p
    /\ \E n \in 0..Len(OpeningPieces) :
         tcp' = [in |-> <<>>, out |-> SubSeq(OpeningPieces, 1, n), up |-> n = Len(OpeningPieces)]
    /\ carried' = <<>> /\ handed' = <<>> /\ written' = <<>>
    /\ netGhost' = [opens |-> netGhost.opens + 1, sends |-> 0, overlong |-> FALSE]

-----------------------------------------------------------------------------
(* Reading, writing, closing.                                                *)

Hung == [tcp EXCEPT !.in = <<>>, !.up = FALSE]

DisconnectedUnmarked ==
    /\ port' = [port EXCEPT !.warnings = @ + 1]
    /\ tcp' = Hung

(* A hard error closes the port once and says so once.                       *)
Disconnected ==
    /\ port' = [port EXCEPT !.isOpen = FALSE, !.socket = FALSE, !.warnings = @ + 1]
    /\ tcp' = Hung

ReadDisconnected ==
    /\ IsOpen /\ ~tcp.up
    /\ Disconnected
    /\ UNCHANGED <<carried, handed, written, netGhost>>

PortReadSomePerBuffer ==
    /\ IsOpen /\ tcp.in # <<>>
    /\ \E n \in 1..Len(tcp.in) :
         \E f \in {FilterInboundData("DATA", <<>>, SubSeq(tcp.in, 1, n))} :
           /\ tcp' = [tcp EXCEPT !.in = SubSeq(@, n + 1, Len(@))]
           /\ handed' = handed \o (IF port.rfc THEN f.out ELSE SubSeq(tcp.in, 1, n))
    /\ UNCHANGED <<port, carried, written, netGhost>>

(* With nothing there would_block is no error and nothing changes.           *)
PortReadSome ==
    /\ IsOpen /\ tcp.in # <<>>
    /\ \E n \in 1..Len(tcp.in) :
         \E f \in {FilterInboundData(port.state, port.buffer, SubSeq(tcp.in, 1, n))} :
           /\ tcp' = [tcp EXCEPT !.in = SubSeq(@, n + 1, Len(@))]
           /\ IF port.rfc
              THEN /\ port' = [port EXCEPT !.state = f.state, !.buffer = f.buffer]
                   /\ handed' = handed \o f.out
              ELSE /\ UNCHANGED port
                   /\ handed' = handed \o SubSeq(tcp.in, 1, n)
    /\ UNCHANGED <<carried, written, netGhost>>

(* write_some hands the bytes over as they are, and any number of them; a    *)
(* bridge that has gone may be noticed or not yet.                           *)
PortWriteSome ==
    /\ IsOpen /\ Len(written) < MaxSent
    /\ \/ \E b \in LineBytes :
            /\ tcp' = [tcp EXCEPT !.out = Append(@, <<b>>)]
            /\ written' = Append(written, b)
            /\ UNCHANGED port
       \/ ~tcp.up /\ Disconnected /\ UNCHANGED written
    /\ UNCHANGED <<carried, handed, netGhost>>

(* close() and Shutdown(): the filter's state is left for Initialize().      *)
Close ==
    /\ port' = [port EXCEPT !.isOpen = FALSE, !.socket = FALSE,
                            !.buffer = IF port.rfc THEN <<>> ELSE @]
    /\ tcp' = Hung
    /\ UNCHANGED <<carried, handed, written, netGhost>>

-----------------------------------------------------------------------------
(* The bridge.                                                               *)

BridgeSends(bytes) ==
    /\ tcp.up /\ netGhost.sends < MaxSends
    /\ tcp' = [tcp EXCEPT !.in = @ \o bytes]
    /\ UNCHANGED <<port, handed, written>>

BridgeCarries ==
    \E b \in LineBytes :
      /\ BridgeSends(IF port.rfc THEN Escape(<<b>>) ELSE <<b>>)
      /\ carried' = Append(carried, b)
      /\ netGhost' = [netGhost EXCEPT !.sends = @ + 1]

SubNegotiation(parameters) == <<IAC, SB>> \o Escape(parameters) \o <<IAC, SE>>

BridgeControls ==
    /\ port.rfc
    /\ \/ \E c \in Options :
            /\ BridgeSends(c)
            /\ netGhost' = [netGhost EXCEPT !.sends = @ + 1]
       \/ \E p \in Parameters :
            /\ BridgeSends(SubNegotiation(p))
            /\ netGhost' = [netGhost EXCEPT !.sends = @ + 1,
                                           !.overlong = @ \/ Len(p) > MAX_COMMAND_BUFFER_SIZE]
    /\ UNCHANGED carried

BridgeGoes ==
    /\ tcp.up
    /\ \E kept \in 0..Len(tcp.in) :
         /\ tcp' = [tcp EXCEPT !.up = FALSE, !.in = SubSeq(@, 1, kept)]
    /\ UNCHANGED <<port, carried, handed, written, netGhost>>

NetNext ==
    \/ OpenFails \/ Open \/ PortReadSome \/ ReadDisconnected \/ PortWriteSome \/ Close
    \/ BridgeCarries \/ BridgeControls \/ BridgeGoes

NetSpec == NetInit /\ [][NetNext]_netVars

-----------------------------------------------------------------------------
(* Properties.                                                               *)

(* The port has no more state than network_serial_port_impl.h declares, and  *)
(* the command buffer of the filter never passes its limit, however long the *)
(* sub-negotiation and wherever the reads cut it.                            *)
NetTypeOK ==
    /\ port.state \in {"DATA", "IAC", "COMMAND", "SUBNEG", "SUBNEG_IAC"}
    /\ Len(port.buffer) <= MAX_COMMAND_BUFFER_SIZE
    /\ ~port.rfc => port.state = "DATA" /\ port.buffer = <<>>

(* While the bridge is there, the bytes handed to the framing, followed by   *)
(* what the filter will make of the bytes still to be read, are exactly what *)
(* the line carried on this connection: no read boundary, control sequence   *)
(* or earlier connection adds, drops or reorders a byte.                     *)
InboundIntact ==
    (IsOpen /\ tcp.up /\ ~netGhost.overlong) =>
        handed \o (IF port.rfc THEN FilterInboundData(port.state, port.buffer, tcp.in).out ELSE tcp.in) = carried

(* The connection lost in mid-sequence: what was handed over is a beginning  *)
(* of what the line carried, never half of a control sequence.               *)
NothingInvented == ~netGhost.overlong => \E n \in 0..Len(carried) : handed = SubSeq(carried, 1, n)

(* What a telnet decoder that is reading data makes of a write of ours.      *)
ReadBack(bytes) == FilterInboundData("DATA", <<>>, bytes)

(* A bridge that stays has been told all five settings of a Jandy line when  *)
(* opening ends, after the option they belong to; every write leaves it      *)
(* reading data, and it puts on the line what the devices wrote and nothing  *)
(* else -- if no byte of it is IAC, which write_some does not double.        *)
LineConfigured ==
    (IsOpen /\ tcp.up /\ port.rfc /\ IAC \notin {written[i] : i \in DOMAIN written}) =>
        LET told == [i \in DOMAIN tcp.out |-> ReadBack(tcp.out[i])]
        IN  /\ tcp.out[1] = Negotiation
            /\ \A i \in DOMAIN told : told[i].state = "DATA"
            /\ Joined([i \in DOMAIN told |-> told[i].out]) = written
            /\ {<<44, 1, 0, 0, 37, 128>>, <<44, 2, 8>>, <<44, 3, 1>>, <<44, 4, 1>>, <<44, 5, 0>>}
                 = {told[i].buffer : i \in DOMAIN told} \ {<<>>}

(* A connection that breaks is reported once, and the port then reads closed *)
(* until somebody opens it again.                                            *)
ReportedOnce == port.warnings <= netGhost.opens /\ (port.isOpen => port.socket)

(* The network port.                                                         *)
PortSafe == InboundIntact /\ NothingInvented /\ LineConfigured /\ ReportedOnce /\ NetTypeOK
=============================================================================
