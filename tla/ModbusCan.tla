------------------------------ MODULE ModbusCan ------------------------------
(***************************************************************************)
(* How TwsBatteryDriver reads registers: SocketCanTransport sends a Modbus *)
(* request in one CAN frame, and ModbusResponseAssembler puts the answer   *)
(* together from several.  An answer does not say to which request it is   *)
(* one; a checksum says that it is whole and unmixed, and its length which *)
(* block of registers it may be.                                           *)
(***************************************************************************)
EXTENDS Naturals, Sequences

CONSTANTS
  Fragments,   \* CAN frames of an answer, for each block of registers
  Faults,      \* what may go wrong
  MaxFaults    \* bound on how often something does

Blocks == {"A", "B", "identity"}
Longest == CHOOSE n \in {Fragments[b] : b \in Blocks} : \A b \in Blocks : Fragments[b] <= n

\* kFastBlockACount, kFastBlockBCount and kIdentityBlockCount differ.
ASSUME ModbusAssumption ==
  /\ Fragments \in [Blocks -> Nat \ {0}]
  /\ \A b, c \in Blocks : Fragments[b] = Fragments[c] => b = c
  /\ Faults \subseteq {"late", "lost", "foreign", "refused"}
  /\ MaxFaults \in Nat

VARIABLES
  asked,       \* the block whose answer is awaited, "none" between two polls
  number,      \* of the latest request
  bus,         \* frames the battery is going to send, in their order
  socket,      \* frames received and not yet read
  assembled,   \* bytes_ of the assembler, frame by frame
  expected,    \* expected_size_ in frames, 0 while it is not known
  delivered,   \* the block asked for last with success, and the one answered
  polled,      \* how the last poll has ended
  faults

mvars == <<asked, number, bus, socket, assembled, expected, delivered, polled, faults>>

\* Numbers are used again when no frame with the same number is left.
Numbers == 0..MaxFaults + 2

Misfortune(fault) == fault \in Faults /\ faults < MaxFaults /\ faults' = faults + 1

Answer(block, n) ==
  [i \in 1..Fragments[block] |-> [block |-> block, number |-> n, part |-> i]]

\* An exception answer is one frame, and so is a frame of somebody else.
Exception(n) == << [block |-> "exception", number |-> n, part |-> 1] >>
Foreign == [block |-> "foreign", number |-> 0, part |-> 1]

ModbusInit ==
  /\ asked = "none" /\ number = 0
  /\ bus = << >> /\ socket = << >>
  /\ assembled = << >> /\ expected = 0
  /\ delivered = << >> /\ polled = "none"
  /\ faults = 0
------------------------------------------------------------------------------
\* The CAN bus.

Arrives ==
  /\ bus # << >>
  /\ bus' = Tail(bus)
  /\ \/ socket' = Append(socket, Head(bus)) /\ UNCHANGED faults
     \/ Misfortune("lost") /\ UNCHANGED socket
  /\ UNCHANGED <<asked, number, assembled, expected, delivered, polled>>

\* A frame with another id.
Intrudes ==
  /\ asked # "none" /\ Misfortune("foreign")
  /\ socket' = Append(socket, Foreign)
  /\ UNCHANGED <<asked, number, bus, assembled, expected, delivered, polled>>
------------------------------------------------------------------------------
\* Mutant: what has come too late is taken for an answer.
NotFlushed == socket

\* flush_receive_buffer()
Flushed == << >>

\* exchange_frame(), send_frame(): what has not been read is thrown away, and
\* the battery answers, refuses or does not hear.
Request(block) ==
  /\ asked' = block
  /\ number' = (number + 1) % (MaxFaults + 3)
  /\ socket' = Flushed
  /\ \/ bus' = bus \o Answer(block, number') /\ UNCHANGED faults
     \/ bus' = bus \o Exception(number') /\ Misfortune("refused")
     \/ Misfortune("lost") /\ UNCHANGED bus
  /\ assembled' = << >> /\ expected' = 0

\* poll_once() begins with block A; after poll_interval_ms the answers to the
\* poll before have come, unless they are late.
PollBegins ==
  /\ asked = "none"
  /\ bus = << >>
  /\ Request("A")
  /\ UNCHANGED <<delivered, polled>>

PollBeginsEarly ==
  /\ asked = "none"
  /\ bus # << >> /\ Misfortune("late")
  /\ asked' = "A"
  /\ number' = (number + 1) % (MaxFaults + 3)
  /\ socket' = Flushed
  /\ bus' = bus \o Answer("A", number')
  /\ assembled' = << >> /\ expected' = 0
  /\ UNCHANGED <<delivered, polled>>

\* The read ends the poll; without the identity it has not failed.
ReadFails ==
  /\ asked' = "none"
  /\ polled' = IF asked = "identity" THEN "ok" ELSE "failed"
  /\ assembled' = << >> /\ expected' = 0
  /\ UNCHANGED <<number, bus, delivered>>

\* read_fast_snapshot() goes on with block B; read_identity_snapshot() follows
\* in every identity_poll_divider-th poll.
ReadSucceeds(block) ==
  /\ delivered' = << asked, block >>
  /\ \/ asked = "A" /\ Request("B") /\ UNCHANGED polled
     \/ asked = "B" /\ Request("identity") /\ UNCHANGED polled
     \/ /\ asked \in {"B", "identity"}
        /\ asked' = "none" /\ polled' = "ok"
        /\ assembled' = << >> /\ expected' = 0
        /\ UNCHANGED <<number, bus, faults>>

\* validate_crc(): all of one answer and nothing else.
Whole(frames, block) == \E n \in Numbers : frames = Answer(block, n)

\* Mutant: the length is not compared with the one asked for.
AnyLength(block) == TRUE

\* read_holding_registers()
LengthAsked(block) == Fragments[block] = Fragments[asked]

\* update_expected_size(): the first frame of an answer says how long it is;
\* anything that is taken for one may say anything, and a last frame alone is
\* too short to say something.
ExpectedSizes(frame) ==
  CASE expected # 0 -> {expected}
    [] expected = 0 /\ assembled = << >> /\ frame.block = "exception" -> {1}
    [] expected = 0 /\ assembled = << >> /\ frame.block \in Blocks ->
         CASE frame.part = 1 -> {Fragments[frame.block]}
           [] frame.part # 1 /\ frame.part = Fragments[frame.block] -> {0}
           [] OTHER -> 1..Longest
    [] expected = 0 /\ assembled # << >> -> 1..Longest

Reading == asked # "none" /\ socket # << >>

\* receive_frame() refuses a frame of somebody else; append() waits for more.
ReceivesForeign ==
  /\ Reading /\ Head(socket) = Foreign
  /\ socket' = Tail(socket)
  /\ ReadFails /\ UNCHANGED faults

ReceivesPart ==
  /\ Reading /\ Head(socket) # Foreign
  /\ assembled' = Append(assembled, Head(socket))
  /\ expected' \in ExpectedSizes(Head(socket))
  /\ expected' = 0 \/ Len(assembled') < expected'
  /\ socket' = Tail(socket)
  /\ UNCHANGED <<asked, number, bus, delivered, polled, faults>>

ReceivesLast ==
  /\ Reading /\ Head(socket) # Foreign
  /\ LET frames == Append(assembled, Head(socket))
     IN /\ \E size \in ExpectedSizes(Head(socket)) : size # 0 /\ Len(frames) >= size
        /\ IF \E block \in Blocks : Whole(frames, block) /\ LengthAsked(block)
           THEN \E block \in Blocks :
                  /\ Whole(frames, block) /\ LengthAsked(block)
                  /\ ReadSucceeds(block)
                  /\ asked' = "none" => socket' = Tail(socket)
           ELSE ReadFails /\ socket' = Tail(socket) /\ UNCHANGED faults

\* The answer has not come within timeout_ms.
TimesOut ==
  /\ asked # "none" /\ socket = << >>
  /\ bus = << >>
  /\ ReadFails /\ UNCHANGED <<socket, faults>>

TimesOutEarly ==
  /\ asked # "none" /\ socket = << >>
  /\ bus # << >> /\ Misfortune("late")
  /\ ReadFails /\ UNCHANGED socket

PollSteps ==
  \/ PollBegins \/ ReceivesForeign \/ ReceivesPart \/ ReceivesLast \/ TimesOut

ModbusNext == PollSteps \/ PollBeginsEarly \/ TimesOutEarly \/ Arrives \/ Intrudes
------------------------------------------------------------------------------
\* The registers a read hands on are those of the block it has asked for,
\* however late, incomplete or mixed the answers come.
RegistersMatchRequest == delivered # << >> => delivered[1] = delivered[2]
==============================================================================
