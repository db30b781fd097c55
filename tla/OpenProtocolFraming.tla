------------------------ MODULE OpenProtocolFraming ------------------------
(***************************************************************************)
(* How OpenProtocolEndpoint cuts the bytes of the receive loop into frames *)
(* (OnDataReceived, ProcessAvailableFrames and                             *)
(* OpenProtocolFrameProtocol.Decode). TCP delivers the stream in chunks of *)
(* any size; a byte is a digit, the NUL that ends a frame, or neither.     *)
(***************************************************************************)
EXTENDS Naturals, Sequences, FiniteSets, Functions

CONSTANTS
  MinimumFrameLength,
  MaximumFrameLength,
  MaxStream,          \* bound: bytes received in a behaviour
  MaxChunk            \* bound: bytes that one read returns

ASSUME LengthsAssumption ==
  MinimumFrameLength \in Nat \ {0} /\ MaximumFrameLength \in Nat

Digit == "digit"
Other == "other"
Nul   == "nul"
Bytes == {Digit, Other, Nul}

NoFrame == <<>>

VARIABLES
  receiveBuffer, \* _receiveBuffer
  frames,        \* the frames handed to ProcessFrame so far
  stream         \* history: every byte received on this connection

framingVars == <<receiveBuffer, frames, stream>>

ValidLength(n) == MinimumFrameLength <= n /\ n <= MaximumFrameLength

\* The least position from i on whose byte is in S, or the one after the end.
NextOf(S, b, i) ==
  LET found == {j \in i .. Len(b) : b[j] \in S}
  IN  IF found = {} THEN Len(b) + 1 ELSE CHOOSE j \in found : \A k \in found : j <= k

\* OpenProtocolFrameProtocol.Decode from offset on: skip to a digit, look for the
\* NUL. An incomplete frame is left for later, one of bad length is discarded.
DecodeExclusive(b, offset) ==   \* a mutant: the least length is excluded
  LET pos == NextOf({Digit}, b, offset + 1)
      nul == NextOf({Nul}, b, pos)
  IN  [frame    |-> IF nul <= Len(b) /\ MinimumFrameLength < nul - pos
                       /\ nul - pos <= MaximumFrameLength
                    THEN SubSeq(b, pos, nul - 1) ELSE NoFrame,
       consumed |-> IF nul <= Len(b) THEN nul - offset ELSE pos - 1 - offset]
DecodeKeepsNul(b, offset) ==   \* a mutant: the NUL is part of the frame
  LET pos == NextOf({Digit}, b, offset + 1)
      nul == NextOf({Nul}, b, pos)
  IN  [frame    |-> IF nul <= Len(b) /\ ValidLength(nul - pos)
                    THEN SubSeq(b, pos, nul) ELSE NoFrame,
       consumed |-> IF nul <= Len(b) THEN nul - offset ELSE pos - 1 - offset]
Decode(b, offset) ==
  LET pos == NextOf({Digit}, b, offset + 1)
      nul == NextOf({Nul}, b, pos)
  IN  [frame    |-> IF nul <= Len(b) /\ ValidLength(nul - pos)
                    THEN SubSeq(b, pos, nul - 1) ELSE NoFrame,
       consumed |-> IF nul <= Len(b) THEN nul - offset ELSE pos - 1 - offset]

\* The loop of ProcessAvailableFrames: it stops at the first Decode that yields
\* no frame, and keeps the bytes that were not consumed.
ProcessAvailableFrames(b) ==
  LET run[offset \in 0 .. Len(b)] ==
        LET d == Decode(b, offset)
            rest == run[offset + d.consumed]
        IN  IF offset = Len(b) THEN [frames |-> <<>>, offset |-> offset]
            ELSE IF d.frame = NoFrame
            THEN [frames |-> <<>>, offset |-> offset + d.consumed]
            ELSE [frames |-> <<d.frame>> \o rest.frames, offset |-> rest.offset]
  IN  [frames |-> run[0].frames, left |-> SubSeq(b, run[0].offset + 1, Len(b))]

IsFrame(f) == f[1] = Digit /\ ValidLength(Len(f)) /\ Nul \notin Range(f)

\* What is handed to ProcessFrame starts with a digit, has a valid length and
\* does not contain the terminator.
FramingTypeOK ==
  /\ receiveBuffer \in Seq(Bytes) /\ stream \in Seq(Bytes)
  /\ frames \in Seq(Seq(Bytes))
  /\ \A i \in DOMAIN frames : IsFrame(frames[i])

FramingInit == receiveBuffer = <<>> /\ frames = <<>> /\ stream = <<>>

\* One read: the handler appends the chunk and processes what is complete.
OnDataReceived(chunk) ==
  LET done == ProcessAvailableFrames(receiveBuffer \o chunk)
  IN  /\ Len(stream) + Len(chunk) <= MaxStream
      /\ stream' = stream \o chunk
      /\ frames' = frames \o done.frames
      /\ receiveBuffer' = done.left

\* ConnectCoreAsync: the next connection starts with an empty buffer.
Reconnect ==
  /\ stream # <<>>
  /\ receiveBuffer' = <<>> /\ frames' = <<>> /\ stream' = <<>>

Chunks == UNION {[1 .. n -> Bytes] : n \in 1 .. MaxChunk}

FramingNext == (\E chunk \in Chunks : OnDataReceived(chunk)) \/ Reconnect

FramingSpec == FramingInit /\ [][FramingNext]_framingVars

-----------------------------------------------------------------------------
(* Properties *)

\* What a stream says, however it is cut into chunks: between two NULs, what is
\* left after the leading bytes that are no digits, if its length is valid.
Segment(b, i) ==
  LET first == NextOf({Digit}, b, i)
  IN  SubSeq(b, first, NextOf({Nul}, b, i) - 1)
Starts(b) == {1} \cup {i \in 2 .. Len(b) : b[i - 1] = Nul}
FrameStarts(b) == {i \in Starts(b) : /\ NextOf({Nul}, b, i) <= Len(b)
                                     /\ ValidLength(Len(Segment(b, i)))}
InOrder(S) ==
  CHOOSE e \in [1 .. Cardinality(S) -> S] : \A k, l \in DOMAIN e : k < l => e[k] < e[l]
FramesOf(b) ==
  LET starts == InOrder(FrameStarts(b))
  IN  [k \in DOMAIN starts |-> Segment(b, starts[k])]

\* The chunking never matters: the frames delivered, followed by those still in the
\* buffer, are the frames of the stream. None is lost, doubled, cut or merged.
ChunkingIrrelevant == frames \o FramesOf(receiveBuffer) = FramesOf(stream)

\* After a discarded frame parsing continues with the data that follows: a frame
\* that is complete in the buffer does not wait for the next read.
CompleteFramesDelivered == FramesOf(receiveBuffer) = <<>>
=============================================================================
