-------------------------------- MODULE Delivery --------------------------------
(***************************************************************************)
(* How audio arrives and files leave: the WebSocket frames of a client,    *)
(* read from a stream that may be cut anywhere (websocket.py), and the     *)
(* ranges of a file that a player asks for (corrected_workbench.py).       *)
(***************************************************************************)
EXTENDS Integers, Sequences

CONSTANTS Plain,   \* 126: shorter payloads have their length in the prefix
          Wide,    \* 65536: shorter payloads have it in two bytes, others in eight
          Limit    \* MAX_WEBSOCKET_PAYLOAD_BYTES

ASSUME DeliveryAssumption ==
  /\ Plain \in Nat \ {0} /\ Wide \in Nat /\ Limit \in Nat
  /\ Plain < Wide /\ Wide <= Limit

\* Where the length of a payload is written, and in how many bytes.
LengthForm(length) ==
  IF length < Plain THEN 0 ELSE IF length < Wide THEN 2 ELSE 8

MaskSize == 4

-----------------------------------------------------------------------------
(* Frames.  A byte of the stream is the part of the frame it belongs to    *)
(* and what it says; a byte of a payload or of a mask stands for each of   *)
(* its bits, 0 or 1.                                                       *)

Xor(bit, mask) == (bit + mask) % 2

Masked(payload, mask) ==
  [k \in DOMAIN payload |-> Xor(payload[k], mask[((k - 1) % MaskSize) + 1])]

\* A frame as a client sends it: prefix, length, mask and payload.
Encoded(frame) ==
  LET form == LengthForm(Len(frame.payload))
  IN  <<[opcode |-> frame.opcode],
        [form |-> form, length |-> IF form = 0 THEN Len(frame.payload) ELSE 0]>>
        \o [k \in 1..form |-> [length |-> Len(frame.payload)]]
        \o [k \in 1..MaskSize |-> [bit |-> frame.mask[k]]]
        \o [k \in DOMAIN frame.payload |-> [bit |-> Masked(frame.payload, frame.mask)[k]]]

\* What one call of read_frame makes of a stream at a place: a frame and the
\* place after it, the end, or an error.
Failed == [outcome |-> "error", next |-> 0, frame |-> << >>]
Ended == [outcome |-> "end", next |-> 0, frame |-> << >>]

LengthAt(stream, place) ==
  LET form == stream[place + 1].form
  IN  IF form = 0 THEN stream[place + 1].length ELSE stream[place + 2].length

\* The frame at a place whose payload, of a length, begins at another.
FrameAt(stream, place, body, length) ==
  [outcome |-> "frame", next |-> body + length,
   frame |-> <<stream[place].opcode,
               [k \in 1..length |-> Xor(stream[body + k - 1].bit,
                                        stream[body - MaskSize + ((k - 1) % MaskSize)].bit)]>>]

BodyOf(stream, place) == place + 2 + stream[place + 1].form + MaskSize

\* Mutant: a payload that was cut is taken as it is.
ReadFrameShort(stream, place) ==
  IF place > Len(stream) THEN Ended
  ELSE IF place = Len(stream) \/ BodyOf(stream, place) - 1 > Len(stream) THEN Failed
  ELSE LET body   == BodyOf(stream, place)
           length == LengthAt(stream, place)
           rest   == Len(stream) - body + 1
       IN  IF length > Limit THEN Failed
           ELSE FrameAt(stream, place, body, IF length > rest THEN rest ELSE length)

ReadFrame(stream, place) ==
  IF place > Len(stream) THEN Ended
  ELSE IF place = Len(stream) \/ BodyOf(stream, place) - 1 > Len(stream) THEN Failed
  ELSE LET body   == BodyOf(stream, place)
           length == LengthAt(stream, place)
       IN  IF length > Limit \/ body + length - 1 > Len(stream) THEN Failed
           ELSE FrameAt(stream, place, body, length)

\* The frames of a stream, one call after the other, and how the last one ended.
Received(stream) ==
  LET from[place \in 1..(Len(stream) + 1)] ==
        LET read == ReadFrame(stream, place)
        IN  IF read.outcome = "frame"
            THEN LET rest == from[read.next]
                 IN  [rest EXCEPT !.frames = <<read.frame>> \o @]
            ELSE [frames |-> << >>, outcome |-> read.outcome]
  IN  from[1]

-----------------------------------------------------------------------------
(* Ranges.  A request names a first byte, a last byte, both or neither;    *)
(* Unnamed stands for what it leaves out.                                  *)

Unnamed == -1

Smaller(m, n) == IF m < n THEN m ELSE n
Greater(m, n) == IF m > n THEN m ELSE n

Unsatisfiable == [status |-> 416, start |-> 0, end |-> 0, length |-> 0]

\* _send_file: the bytes of the body count from 0; without a range the whole
\* file is sent.
SendFile(size, first, last) ==
  LET start == IF first # Unnamed THEN first
               ELSE IF last # Unnamed THEN Greater(0, size - last) ELSE 0
      end   == IF first # Unnamed /\ last # Unnamed THEN Smaller(Greater(0, size - 1), last)
               ELSE Greater(0, size - 1)
      ranged == first # Unnamed \/ last # Unnamed
  IN  IF ranged /\ (size = 0 \/ start >= size \/ end < start) THEN Unsatisfiable
      ELSE [status |-> IF ranged THEN 206 ELSE 200, start |-> start, end |-> end,
            length |-> end - start + 1]

\* The bytes that are read from the file for it.
Body(size, response) ==
  {k \in 0..(size - 1) : response.length > 0 /\ k \in response.start..response.end}

\* The bytes a range names: up to the last one, or the last ones.
Named(size, first, last) ==
  {k \in 0..(size - 1) :
     /\ first # Unnamed => k >= first /\ (last # Unnamed => k <= last)
     /\ first = Unnamed /\ last # Unnamed => k >= size - last}

================================================================================
