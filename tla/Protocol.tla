------------------------------ MODULE Protocol ------------------------------
(***************************************************************************)
(* darwincore::network::proto: Encoder cuts a message into frames, Decoder *)
(* puts frames back together from whatever pieces the byte stream arrives  *)
(* in.  A byte on the wire is a record that says which byte of which frame *)
(* it is: k = 1 is the first byte of the header, the one with the magic    *)
(* number and the version, k = HeaderSize the last one, which stands for    *)
(* the fields type, flags and payload_len, and k = HeaderSize + 1 the       *)
(* first byte of the payload, which stands for the MessageHeader or the     *)
(* stream's identifier and offset.  Byte i of the message with identifier m *)
(* is <<m, i>>.  Sizes are constants, so that a slice holds a few bytes.    *)
(***************************************************************************)
EXTENDS Integers, Sequences, FiniteSets, SequencesExt

CONSTANTS MsgIds,            \* message identifiers, each used for one message
          StreamIds,         \* stream identifiers
          Lengths,           \* lengths of messages
          HeaderSize,        \* sizeof(FrameHeader)
          MsgHeaderSize,     \* sizeof(MessageHeader)
          CrcSize,           \* sizeof(uint32_t)
          MaxFramePayload,   \* MAX_FRAME_PAYLOAD
          SliceLimit,        \* one more than MAX_MESSAGE_SLICES: 2^16
          WireSpace,         \* bytes in flight beyond which the socket takes no frame
          MaxFaults          \* bound on damaged bytes, clean-ups and resets

\* A frame has room for a slice of a message and its CRC.
ASSUME SizesAssumption ==
  /\ HeaderSize \in Nat \ {0, 1} /\ MsgHeaderSize \in Nat \ {0} /\ CrcSize \in Nat \ {0}
  /\ MaxFramePayload \in Nat /\ MaxFramePayload > MsgHeaderSize + CrcSize
  /\ SliceLimit \in Nat \ {0}
  /\ Lengths \subseteq Nat
  /\ MsgIds \cap StreamIds = {}

VARIABLES plan,           \* the message chosen for each identifier: length and CRC
          unsent,         \* per message and stream, frames not handed to the socket
          wire,           \* bytes on their way
          buffer,         \* buffer_
          messages,       \* messages_: identifier to MessageAssembly
          completed,      \* completed_messages_
          stream_events,  \* stream_events_
          frames_received,\* stats_.frames_received, here also the clock
          failed,         \* the last Feed threw a ProtocolError
          got,            \* what GetMessage and GetStreamEvent returned
          faults,         \* damaged bytes, clean-ups and resets so far
          uncovered       \* history: a byte that no CRC covers has been damaged

vars == <<plan, unsent, wire, buffer, messages, completed, stream_events,
          frames_received, failed, got, faults, uncovered>>
decoder == <<buffer, messages, completed, stream_events, frames_received, failed>>

-----------------------------------------------------------------------------
(* Encoder *)

Content(m) == [i \in 1..plan[m].length |-> <<m, i>>]

\* With a CRC the payload ends in the CRC of what stands before it (sealed), which
\* damage to any byte of the payload makes wrong.  It does not cover the header.
MakeFrame(type, id, total, seq, data, size, crc) ==
  [type |-> type, id |-> id, total_slices |-> total, sequence |-> seq, data |-> data,
   flags |-> crc, sealed |-> crc, payload_len |-> size + IF crc THEN CrcSize ELSE 0]

SlicePayload(crc) == MaxFramePayload - MsgHeaderSize - IF crc THEN CrcSize ELSE 0

\* The number of slices, cast to uint16_t.
TotalSlices(length, crc) ==
  ((length + SlicePayload(crc) - 1) \div SlicePayload(crc)) % SliceLimit

\* "message too large": total == 0 || total > MAX_MESSAGE_SLICES.
Refused(length, crc) == TotalSlices(length, crc) \notin 1..SliceLimit - 1

\* Slice n starts behind the full slices before it; the last one is shorter.
Offset(n, crc) == (n - 1) * SlicePayload(crc)
Chunk(n, length, crc) ==
  IF length - Offset(n, crc) < SlicePayload(crc) THEN length - Offset(n, crc)
                                                 ELSE SlicePayload(crc)
Slice(m, n, length, crc) ==
  [i \in 1..Chunk(n, length, crc) |-> <<m, Offset(n, crc) + i>>]

EncodeMessage(m, length, crc) ==
  [n \in 1..TotalSlices(length, crc) |->
     MakeFrame("Message", m, TotalSlices(length, crc), n - 1, Slice(m, n, length, crc),
               MsgHeaderSize + Chunk(n, length, crc), crc)]

EncodeStreamStart(s) == MakeFrame("StreamStart", s, 0, 0, <<>>, 1, FALSE)
EncodeStreamChunk(s, at) == MakeFrame("StreamChunk", s, 0, at, <<<<s, at>>>>, 2, FALSE)
EncodeStreamEnd(s) == MakeFrame("StreamEnd", s, 0, 0, <<>>, 1, FALSE)

EncodeStream(s) == <<EncodeStreamStart(s), EncodeStreamChunk(s, 0), EncodeStreamEnd(s)>>

Serialize(f) == [k \in 1..HeaderSize + f.payload_len |-> [frame |-> f, k |-> k, bad |-> FALSE]]

-----------------------------------------------------------------------------
(* Decoder *)

\* The decoder's state as one record, for the loop of TryDecode.
Decoding(b, m, c, s, n) ==
  [buffer |-> b, messages |-> m, completed |-> c, stream_events |-> s, frames |-> n,
   done |-> FALSE, failed |-> FALSE]

Damaged(bytes) == \E i \in DOMAIN bytes : bytes[i].bad

\* A header, and a frame that was sent without a CRC, has nothing to tell damage by.
Uncovered(y) == y.k <= HeaderSize \/ ~y.frame.flags
Hurt(y) == y.bad /\ Uncovered(y)

\* hdr, and the frame with the MessageHeader or stream payload behind it: they say
\* what the frame was sent with, or what damage has made of it.
Header(b) == IF Hurt(b[HeaderSize]) THEN b[HeaderSize].frame ELSE b[1].frame
Identified(h, bytes) ==
  IF Hurt(bytes[1])
  THEN [h EXCEPT !.id = bytes[1].frame.id, !.total_slices = bytes[1].frame.total_slices,
                 !.sequence = bytes[1].frame.sequence]
  ELSE h

\* The bytes of the payload that the frame carries for the application.
\* A damaged byte has position 0.
Received(f, bytes) == IF Damaged(bytes) THEN [i \in 1..Len(f.data) |-> <<f.id, 0>>] ELSE f.data

Erased(d, f) == [d EXCEPT !.buffer = SubSeq(@, HeaderSize + f.payload_len + 1, Len(@)),
                          !.frames = @ + 1]

\* Mutant: every slice starts its message anew.
AssemblyAnew(d, f) == [slices |-> [i \in 1..f.total_slices |-> <<>>],
                       received |-> 0, first_seen |-> d.frames]

Assembly(d, f) == IF f.id \in DOMAIN d.messages THEN d.messages[f.id]
                  ELSE [slices |-> [i \in 1..f.total_slices |-> <<>>],
                        received |-> 0, first_seen |-> d.frames]

\* An empty slot takes the slice; a second copy of a slice is ignored.  The index
\* is tested against the frame's own number of slices only: in a damaged one it
\* may be beyond the slices of the assembly.  What stands there is then taken for
\* an occupied slot, one outcome of that undefined access.
Store(m, f, data) ==
  IF f.sequence + 1 \notin DOMAIN m.slices \/ m.slices[f.sequence + 1] # <<>> THEN m
  ELSE [m EXCEPT !.slices[f.sequence + 1] = data, !.received = @ + 1]

WithMessage(d, f, bytes) ==
  LET m == Store(Assembly(d, f), f, Received(f, bytes))
  IN  IF m.received = Len(m.slices)
      THEN [Erased(d, f) EXCEPT
              !.completed = Append(@, [id |-> f.id, data |-> FlattenSeq(m.slices)]),
              !.messages = [i \in DOMAIN @ \ {f.id} |-> @[i]]]
      ELSE [Erased(d, f) EXCEPT
              !.messages = [i \in DOMAIN @ \cup {f.id} |-> IF i = f.id THEN m ELSE @[i]]]

WithStreamEvent(d, f, bytes) ==
  [Erased(d, f) EXCEPT !.stream_events =
     Append(@, [type |-> f.type, id |-> f.id, offset |-> f.sequence, data |-> Received(f, bytes)])]

\* Mutant: the CRC is not looked at.
CrcNeverChecked(f, bytes) == FALSE

CrcMismatch(f, bytes) ==
  f.flags /\ f.payload_len >= CrcSize /\ (~f.sealed \/ Damaged(bytes))

\* Mutant: what made the decoder give up is thrown away.
ThrowClears(d) == [d EXCEPT !.done = TRUE, !.failed = TRUE, !.buffer = <<>>]

Throw(d) == [d EXCEPT !.done = TRUE, !.failed = TRUE]

\* One round of the loop: an incomplete frame ends it, a bad magic number, a bad
\* length or a bad slice index ends it with an exception that leaves the buffer as it
\* is.  No byte but the first of a frame is taken for the magic number.
DecodeStep(d) ==
  LET h == Header(d.buffer)
      bytes == SubSeq(d.buffer, HeaderSize + 1, HeaderSize + h.payload_len)
      f == Identified(h, bytes)
  IN  IF Len(d.buffer) < HeaderSize THEN [d EXCEPT !.done = TRUE]
      ELSE IF d.buffer[1].k # 1 \/ d.buffer[1].bad \/ h.payload_len > MaxFramePayload
           THEN Throw(d)
      ELSE IF Len(d.buffer) < HeaderSize + h.payload_len THEN [d EXCEPT !.done = TRUE]
      ELSE IF CrcMismatch(f, bytes) THEN Erased(d, f)
      ELSE IF f.type # "Message" THEN WithStreamEvent(d, f, bytes)
      ELSE IF f.sequence >= f.total_slices THEN Throw(d)
      ELSE WithMessage(d, f, bytes)

Round(d) == IF d.done THEN d ELSE DecodeStep(d)

\* The decoder after each of the first n rounds.
Rounds(d, n) ==
  LET round[i \in 0..n] == IF i = 0 THEN d ELSE Round(round[i - 1])
  IN  round

\* Every round that does not end the loop takes at least a header away.
MaxRounds(d) == Len(d.buffer) \div HeaderSize + 1

TryDecode(d) == Rounds(d, MaxRounds(d))[MaxRounds(d)]

-----------------------------------------------------------------------------
Init == /\ plan \in [MsgIds -> [length : Lengths, crc : BOOLEAN]]
        /\ unsent = [x \in MsgIds \cup StreamIds |->
                       IF x \in StreamIds THEN EncodeStream(x)
                       ELSE IF Refused(plan[x].length, plan[x].crc) THEN <<>>
                       ELSE EncodeMessage(x, plan[x].length, plan[x].crc)]
        /\ wire = <<>>
        /\ buffer = <<>>
        /\ messages = [x \in {} |-> {}]
        /\ completed = <<>>
        /\ stream_events = <<>>
        /\ frames_received = 0
        /\ failed = FALSE
        /\ got = [messages |-> <<>>, events |-> <<>>]
        /\ faults = 0
        /\ uncovered = FALSE

\* The application sends the frames of several messages and streams in any
\* interleaving that keeps each one's own order.
SendFrame(x) == /\ unsent[x] # <<>>
                /\ Len(wire) <= WireSpace
                /\ unsent' = [unsent EXCEPT ![x] = Tail(@)]
                /\ wire' = wire \o Serialize(Head(unsent[x]))
                /\ UNCHANGED <<plan, decoder, got, faults, uncovered>>

FrameTypes == {"Message", "StreamStart", "StreamChunk", "StreamEnd"}

\* A frame as the decoder reads it behind a header with another type, flag or length:
\* without the flag the CRC is taken for data, and a longer payload takes bytes of the
\* next frames in.
ReadAs(f, type, flags, size) ==
  [f EXCEPT !.type = type, !.flags = flags, !.payload_len = size,
            !.sealed = @ /\ size = f.payload_len,
            !.data = [i \in 1..size - MsgHeaderSize - (IF flags THEN CrcSize ELSE 0) |->
                        IF i <= Len(f.data) THEN f.data[i] ELSE <<f.id, 0>>]]

\* What damage to its header makes of a frame.  Lengths too small for the payload's
\* own header are left out: the decoder would read it from beyond the payload.
MisreadHeader(f) ==
  {ReadAs(f, f.type, ~f.flags, f.payload_len)}
    \cup {ReadAs(f, type, f.flags, f.payload_len) : type \in FrameTypes \ {f.type}}
    \cup {ReadAs(f, f.type, f.flags, size) :
            size \in (MsgHeaderSize..MaxFramePayload + 1) \ {f.payload_len}}

\* What damage to the payload's own header makes of a frame.
MisreadPayload(f) ==
  {[f EXCEPT !.id = x] : x \in MsgIds \cup StreamIds}
    \cup {[f EXCEPT !.total_slices = n] : n \in 0..SliceLimit - 1}
    \cup {[f EXCEPT !.sequence = n] : n \in 0..SliceLimit - 1}

\* What damage makes of a byte of the magic number, of the header's fields, of the
\* payload's own header, of the data or of the CRC.
DamagedByte(y) ==
  LET frames == IF y.k = HeaderSize THEN MisreadHeader(y.frame)
                ELSE IF y.k = HeaderSize + 1 /\ ~y.frame.flags THEN MisreadPayload(y.frame)
                ELSE {y.frame}
  IN  {[frame |-> f, k |-> y.k, bad |-> TRUE] : f \in frames}

\* A byte is damaged on the way.
Damage == /\ faults < MaxFaults
          /\ \E i \in DOMAIN wire :
               /\ ~wire[i].bad
               /\ \E y \in DamagedByte(wire[i]) : wire' = [wire EXCEPT ![i] = y]
               /\ uncovered' = (uncovered \/ Uncovered(wire[i]))
          /\ faults' = faults + 1
          /\ UNCHANGED <<plan, unsent, decoder, got>>

\* recv() returned the next n bytes.
Feed(n) == LET d == TryDecode(Decoding(buffer \o SubSeq(wire, 1, n), messages, completed,
                                       stream_events, frames_received))
           IN  /\ n <= Len(wire)
               /\ wire' = SubSeq(wire, n + 1, Len(wire))
               /\ buffer' = d.buffer
               /\ messages' = d.messages
               /\ completed' = d.completed
               /\ stream_events' = d.stream_events
               /\ frames_received' = d.frames
               /\ failed' = d.failed
               /\ UNCHANGED <<plan, unsent, got, faults, uncovered>>

GetMessage == /\ completed # <<>>
              /\ got' = [got EXCEPT !.messages = Append(@, Head(completed))]
              /\ completed' = Tail(completed)
              /\ UNCHANGED <<plan, unsent, wire, buffer, messages, stream_events,
                             frames_received, failed, faults, uncovered>>

GetStreamEvent == /\ stream_events # <<>>
                  /\ got' = [got EXCEPT !.events = Append(@, Head(stream_events))]
                  /\ stream_events' = Tail(stream_events)
                  /\ UNCHANGED <<plan, unsent, wire, buffer, messages, completed,
                                 frames_received, failed, faults, uncovered>>

\* The assemblies first seen at or before `when` have timed out.
CleanupTimeoutMessages(when) ==
  /\ faults < MaxFaults
  /\ \E m \in DOMAIN messages : messages[m].first_seen = when
  /\ messages' = [m \in {x \in DOMAIN messages : messages[x].first_seen > when} |-> messages[m]]
  /\ faults' = faults + 1
  /\ UNCHANGED <<plan, unsent, wire, buffer, completed, stream_events, frames_received,
                 failed, got, uncovered>>

Reset == /\ faults < MaxFaults
         /\ buffer' = <<>>
         /\ messages' = [x \in {} |-> {}]
         /\ completed' = <<>>
         /\ stream_events' = <<>>
         /\ frames_received' = 0
         /\ failed' = FALSE
         /\ faults' = faults + 1
         /\ UNCHANGED <<plan, unsent, wire, got, uncovered>>

Next == \/ \E x \in MsgIds \cup StreamIds : SendFrame(x)
        \/ Damage
        \/ \E n \in 1..Len(wire) : Feed(n)
        \/ GetMessage
        \/ GetStreamEvent
        \/ \E when \in 0..frames_received : CleanupTimeoutMessages(when)
        \/ Reset

Spec == Init /\ [][Next]_vars

-----------------------------------------------------------------------------
Delivered == got.messages \o completed
Events == got.events \o stream_events

\* The event of a stream's frame that arrived as it was sent.
EventOf(f) == [type |-> f.type, id |-> f.id, offset |-> f.sequence, data |-> f.data]

\* As long as all damage is to bytes that a CRC covers, a message that was sent with
\* a CRC is delivered as it was sent or not at all, whatever the pieces it arrived
\* in, the slices of other messages between its own, clean-ups and resets
\* (Decoder::TryDecode).  No CRC covers a header or a frame without a CRC, and damage
\* there can reach a checked message: without FLAG_CRC32 its CRC is neither looked at
\* nor cut off, and a frame with another message's identifier is stored in that one.
CheckedMessagesIntact ==
  ~uncovered =>
    \A i \in DOMAIN Delivered :
      plan[Delivered[i].id].crc => Delivered[i].data = Content(Delivered[i].id)

\* Without a fault nothing is lost, doubled or left over: once the wire is
\* empty, every message that was not refused has been delivered exactly once
\* and in full, and the events of each stream have come out in order.
NothingLost ==
  (faults = 0 /\ wire = <<>> /\ \A x \in DOMAIN unsent : unsent[x] = <<>>) =>
    /\ buffer = <<>> /\ DOMAIN messages = {} /\ ~failed
    /\ \A m \in MsgIds :
         IF Refused(plan[m].length, plan[m].crc)
         THEN \A i \in DOMAIN Delivered : Delivered[i].id # m
         ELSE \E i \in DOMAIN Delivered :
                /\ Delivered[i] = [id |-> m, data |-> Content(m)]
                /\ \A j \in DOMAIN Delivered : Delivered[j].id = m => j = i
    /\ \A s \in StreamIds : \E start, chunk, end \in DOMAIN Events :
         /\ start < chunk /\ chunk < end
         /\ Events[start] = EventOf(EncodeStreamStart(s))
         /\ Events[chunk] = EventOf(EncodeStreamChunk(s, 0))
         /\ Events[end] = EventOf(EncodeStreamEnd(s))
         /\ \A i \in DOMAIN Events : Events[i].id = s => i \in {start, chunk, end}

\* An exception of Feed is final: until Reset every later Feed fails as well
\* and nothing more is delivered, for the bytes that caused it stay in front.
FailureIsFinal ==
  [][failed /\ buffer' # <<>> => failed' /\ Len(completed') <= Len(completed)
                                   /\ Len(stream_events') <= Len(stream_events)]_vars

\* For TLC: the messages play the same part.
Symmetric == Permutations(MsgIds)

=============================================================================
