----------------------------- MODULE FrameStream -----------------------------
(***************************************************************************)
(* The frame decoders of the three serial drivers, fed by a line that      *)
(* loses and invents bytes: HipnucDecoder (CH020), SmitProtocol and        *)
(* SerialFrameDecoder (PG100).  Bytes are small numbers, a length is one   *)
(* byte, and a checksum is one number that is equal for equal contents     *)
(* only: what damage a real checksum overlooks is not modelled.            *)
(***************************************************************************)
EXTENDS Naturals, Sequences, SequencesExt

CONSTANTS
  Codecs,         \* which decoders an instance looks at
  Payloads,       \* the payloads sent, all of the same length
  NoiseBytes,     \* the bytes damage may put on the line
  MaxNoise,       \* bound on the bytes of a burst of noise
  MaxDamage       \* bound on the damages

Sof1 == 5
Sof2 == 6
Sof == Sof1     \* the one mark of PG100 frames, which has no kFrameEsc
Esc == Sof2
LargestByte == 6

PayloadSize == 3
HeaderSize == 3         \* of a SMIT frame: both marks and the length
MaxFrame == 7           \* kMaxFrameLength
MaxPayloadSize == 3     \* kMaxPayloadSize
Overhead == 2           \* length and checksum of a PG100 frame

ASSUME StreamAssumption ==
  /\ Codecs \subseteq {"hipnuc", "smit", "pager"}
  /\ Payloads \subseteq [1..PayloadSize -> 0..LargestByte]
  /\ NoiseBytes \subseteq 0..LargestByte
  /\ MaxNoise \in Nat /\ MaxDamage \in Nat

VARIABLES
  codec,
  wire,        \* bytes on their way
  decoder,     \* what the decoder keeps between two calls of feed()
  sent,        \* the payload of the latest frame, and before it that of the
               \* frame before unless it was delivered in time
  intact,      \* that frame is as it was sent
  received,    \* payloads delivered since that frame was sent
  missed,      \* intact frames in a row that have not been delivered
  synced,      \* the latest frame has been delivered and nothing damaged since
  marked,      \* a payload with a mark has been sent since the latest damage
  damages

svars == <<codec, wire, decoder, sent, intact, received, missed, synced, marked, damages>>
------------------------------------------------------------------------------
\* The frames.

\* crc16 and crc8: another number for every content that occurs, and not a byte.
Check(content) ==
  FoldLeft(LAMBDA sum, byte : (20 * sum + byte + 1) % 99999989, 20, content)

\* kFrameXor
Flip(byte) == IF byte >= 10 THEN byte - 10 ELSE byte + 10

\* append_escaped
Escaped(byte) == IF byte \in {Sof, Esc} THEN << Esc, Flip(byte) >> ELSE << byte >>

\* encode_frame
EncodeFrame(payload) ==
  LET body == << Len(payload) >> \o payload
  IN << Sof >> \o FlattenSeq([i \in DOMAIN body |-> Escaped(body[i])])
       \o << Check(body), Sof >>

Frame(payload) ==
  CASE codec = "hipnuc" ->
         << Sof1, Sof2, Len(payload), Check(<< Len(payload) >> \o payload) >> \o payload
    [] codec = "smit" ->
         << Sof1, Sof2, Len(payload) + 1 >> \o payload \o << Check(payload) >>
    [] codec = "pager" -> EncodeFrame(payload)
------------------------------------------------------------------------------
\* A decoder: the state it is in, the length and checksum it has read, and the
\* bytes it has kept; out is what this call of feed() hands on.

Empty == [at |-> "SOF1", length |-> 0, crc |-> 0, buffer |-> << >>, out |-> << >>]

\* A checksum that is taken for a length may be any.
AsLength(byte) == byte % (LargestByte + 1)

\* Mutant: the payload is handed on without a look at its checksum.
HipnucFrameUnchecked(d) ==
  [Empty EXCEPT !.out =
     IF Len(d.buffer) >= PayloadSize THEN Append(d.out, d.buffer) ELSE d.out]

\* HipnucDecoder::process_frame
HipnucFrame(d) ==
  [Empty EXCEPT !.out =
     IF /\ d.crc = Check(<< d.length >> \o d.buffer)
        /\ Len(d.buffer) >= PayloadSize /\ Head(d.buffer) \in {1, 2}
     THEN Append(d.out, d.buffer) ELSE d.out]

\* HipnucDecoder::feed, one byte.
HipnucByte(d, byte) ==
  CASE d.at = "SOF1" -> IF byte = Sof1 THEN [d EXCEPT !.at = "SOF2"] ELSE d
    [] d.at = "SOF2" -> [d EXCEPT !.at = IF byte = Sof2 THEN "LEN" ELSE "SOF1"]
    [] d.at = "LEN" -> [d EXCEPT !.length = AsLength(byte), !.buffer = << >>, !.at = "CRC"]
    [] d.at = "CRC" /\ d.length = 0 -> HipnucFrame([d EXCEPT !.crc = byte])
    [] d.at = "CRC" /\ d.length # 0 -> [d EXCEPT !.crc = byte, !.at = "DATA"]
    [] d.at = "DATA" ->
         LET filled == [d EXCEPT !.buffer = Append(@, byte)]
         IN IF Len(filled.buffer) = d.length THEN HipnucFrame(filled) ELSE filled

\* SmitProtocol::process_frame, parse_config and parse_points: a payload of a
\* known kind whose checksum is right.
SmitFrame(frame) ==
  LET payload == Front(frame)
  IN IF Len(frame) >= 2 /\ Head(frame) \in {1, 2} /\ Last(frame) = Check(payload)
     THEN << payload >> ELSE << >>

\* All that SmitProtocol keeps is its buffer.
SmitStates ==
  [at : {Empty.at}, length : Nat, crc : Nat, buffer : Seq(Nat), out : Seq(Seq(Nat))]

\* SmitProtocol::feed: noise is skipped byte by byte, an impossible length with
\* the marks before it, and a part of a frame waits for the rest.  A frame and a
\* read together stay below kMaxBufferLength, whose check is left out.
SmitDrain[d \in SmitStates] ==
  LET first(n) == SubSeq(d.buffer, 1, n)
      without(n) == [d EXCEPT !.buffer = SubSeq(d.buffer, n + 1, Len(d.buffer))]
      total == HeaderSize + AsLength(d.buffer[3])
  IN CASE Len(d.buffer) < HeaderSize -> d
       [] Len(d.buffer) >= HeaderSize /\ first(2) # << Sof1, Sof2 >> -> SmitDrain[without(1)]
       [] Len(d.buffer) >= HeaderSize /\ first(2) = << Sof1, Sof2 >> ->
            CASE total > MaxFrame -> SmitDrain[without(2)]
              [] total <= MaxFrame /\ Len(d.buffer) < total -> d
              [] OTHER -> SmitDrain[[without(total) EXCEPT
                            !.out = @ \o SmitFrame(SubSeq(d.buffer, HeaderSize + 1, total))]]

\* SerialFrameDecoder::finish_frame
FinishFrame(d) ==
  LET length == Head(d.buffer)
      body == Front(d.buffer)
  IN IF /\ Len(d.buffer) >= Overhead
        /\ Len(d.buffer) = length + Overhead /\ length <= MaxPayloadSize
        /\ Last(d.buffer) = Check(body)
     THEN << Tail(body) >> ELSE << >>

\* Mutant: a mark between two frames is taken for the end of one.
PagerMarkEndsFrame(d) ==
  [d EXCEPT !.out = IF d.at # "out" /\ d.buffer # << >> THEN @ \o FinishFrame(d) ELSE @,
            !.buffer = << >>,
            !.at = IF d.at = "out" THEN "in" ELSE "out"]

\* A mark ends a frame and starts the next.
PagerMark(d) ==
  [d EXCEPT !.out = IF d.at # "out" /\ d.buffer # << >> THEN @ \o FinishFrame(d) ELSE @,
            !.buffer = << >>,
            !.at = "in"]

\* SerialFrameDecoder::feed_byte
PagerByte(d, byte) ==
  CASE byte = Sof -> PagerMark(d)
    [] byte # Sof /\ d.at = "out" -> d
    [] byte # Sof /\ d.at = "escaped" ->
         [d EXCEPT !.buffer = Append(@, Flip(byte)), !.at = "in"]
    [] byte = Esc /\ d.at = "in" -> [d EXCEPT !.at = "escaped"]
    [] byte \notin {Sof, Esc} /\ d.at = "in" ->
         IF Len(d.buffer) < MaxPayloadSize + Overhead
         THEN [d EXCEPT !.buffer = Append(@, byte)]
         ELSE [d EXCEPT !.buffer = << >>, !.at = "out"]

\* feed() of each decoder.
Feed(d, bytes) ==
  CASE codec = "hipnuc" -> FoldLeft(HipnucByte, [d EXCEPT !.out = << >>], bytes)
    [] codec = "smit" -> SmitDrain[[d EXCEPT !.buffer = @ \o bytes, !.out = << >>]]
    [] codec = "pager" -> FoldLeft(PagerByte, [d EXCEPT !.out = << >>], bytes)
------------------------------------------------------------------------------
StreamInit ==
  /\ codec \in Codecs
  /\ wire = << >> /\ sent = << >> /\ intact = FALSE /\ received = << >>
  /\ decoder = IF codec = "pager" THEN [Empty EXCEPT !.at = "out"] ELSE Empty
  /\ missed = 0 /\ synced = FALSE /\ marked = FALSE /\ damages = 0

Damages ==
  /\ damages < MaxDamage
  /\ damages' = damages + 1
  /\ intact' = FALSE /\ synced' = FALSE /\ missed' = 0

\* A frame starts its way; two in a row differ, as they carry a time stamp or a
\* sequence number.
SendsOne(payload) ==
  LET owed == IF sent = << >> \/ Last(sent) \in ToSet(received) THEN << >>
              ELSE << Last(sent) >>
  IN /\ wire = << >>
     /\ payload \notin ToSet(sent)
     /\ sent' = Append(owed, payload)
     /\ received' = << >>

HasMark(payload) == ToSet(payload) \cap {Sof1, Sof2} # {}

\* The device sends a frame.
Sends ==
  \E payload \in Payloads :
    /\ SendsOne(payload)
    /\ wire' = Frame(payload) /\ intact' = TRUE
    /\ marked' = (marked \/ HasMark(payload))
    /\ UNCHANGED <<codec, decoder, missed, synced, damages>>

\* Of a frame a byte is lost, or is another, or with a lost connection all that
\* was left of it is lost.
SendsDamaged ==
  \E payload \in Payloads :
    LET frame == Frame(payload)
    IN /\ SendsOne(payload)
       /\ Damages
       /\ \E i \in DOMAIN frame :
            \/ wire' = RemoveAt(frame, i)
            \/ \E byte \in NoiseBytes \ {frame[i]} : wire' = [frame EXCEPT ![i] = byte]
            \/ i < Len(frame) /\ wire' = SubSeq(frame, 1, i)
       /\ marked' = HasMark(payload)
       /\ UNCHANGED <<codec, decoder>>

\* Bytes between two frames.
Noise ==
  /\ wire = << >>
  /\ Damages
  /\ \E n \in 1..MaxNoise : wire' \in [1..n -> NoiseBytes]
  /\ marked' = FALSE
  /\ UNCHANGED <<codec, decoder, sent, received>>

\* The frames a byte that announces the longest frame can swallow.
LongestAnnounced == CASE codec = "hipnuc" -> LargestByte + 2
                      [] codec = "smit" -> MaxFrame - HeaderSize + 1
                      [] codec = "pager" -> 0
Tolerated ==
  LET frame == HeaderSize + PayloadSize + 1
  IN (LongestAnnounced + frame - 1) \div frame

\* A read hands some of the bytes that have come to feed().
Reads ==
  \E n \in 1..Len(wire) :
    LET fed == Feed(decoder, SubSeq(wire, 1, n))
        ended == n = Len(wire) /\ intact
    IN /\ wire' = SubSeq(wire, n + 1, Len(wire))
       /\ decoder' = [fed EXCEPT !.out = << >>]
       /\ received' = received \o fed.out
       /\ IF ended
          THEN /\ synced' = (received' # << >> /\ Last(received') = Last(sent))
               /\ missed' = CASE synced' -> 0
                              [] ~synced' /\ missed > Tolerated -> missed
                              [] OTHER -> missed + 1
          ELSE UNCHANGED <<synced, missed>>
       /\ UNCHANGED <<codec, sent, intact, marked, damages>>

StreamNext == Sends \/ SendsDamaged \/ Noise \/ Reads
------------------------------------------------------------------------------
\* What a decoder delivers has been sent: the payload of the frame on the
\* wire, or before it that of a frame whose end was lost, each once, however
\* the bytes are cut into reads, whatever marks the payloads contain, and
\* whatever noise comes.
OnlyFramesSent ==
  received # << >> => received \in {sent, << Last(sent) >>, << Head(sent) >>}

\* A decoder that has delivered the latest frame delivers the next intact one;
\* after damage it finds back: before the first mark in a payload it misses no
\* more frames than the longest announced one can swallow, and the decoder of
\* the PG100, whose payloads contain no marks, misses none.
Resynchronises ==
  missed > 0 =>
    /\ ~synced
    /\ ~marked \/ codec = "pager" => missed <= Tolerated
==============================================================================
