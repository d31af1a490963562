--------------------------- MODULE FrameAssembler ---------------------------
(***************************************************************************)
(* From the notifications of a peripheral to the frames a session hands to *)
(* the daemon: FrameAssembler and parse_frame of slimhub/protocol/nus.py,  *)
(* called by the notify handler of slimhub/ble/device_session.py.  A frame *)
(* is the sender's MAC, a type, the length of the payload in two bytes,    *)
(* the payload and an end flag; a notification carries any piece of the    *)
(* stream of frames.  The handler suspends nowhere: a push is one step.    *)
(*                                                                         *)
(* The format is scaled down: a byte has Base values, the MAC and the type *)
(* are one byte each.                                                      *)
(***************************************************************************)
EXTENDS Integers, SequencesExt

CONSTANTS
  Base,          \* values of a byte, 256
  MaxFrameLen,   \* MAX_FRAME_LEN
  EndFlag,       \* END_FLAG
  Rawdata,       \* the type of a frame with a payload of RawdataLen bytes
  RawdataLen,    \* RAWDATA_PAYLOAD_LEN
  Alert,         \* the type of a frame with a payload of any length
  Mac,           \* the MAC of the peripheral
  Payloads,      \* what it may send as a payload
  MaxSent,       \* bound: frames of the streams that are known to be well formed
  MaxReceived    \* bound: bytes received in one connection

Byte == 0 .. Base - 1
HeaderLen == 4
OverheadLen == HeaderLen + Len(EndFlag)

ASSUME FormatOK ==
  /\ {Base, MaxFrameLen, RawdataLen} \subseteq Nat
  /\ Base > 1 /\ EndFlag \in Seq(Byte) /\ {Rawdata, Alert, Mac} \subseteq Byte
  /\ Rawdata # Alert
  /\ OverheadLen + RawdataLen <= MaxFrameLen
  /\ MaxFrameLen < OverheadLen + Base * Base
ASSUME EnvironmentOK ==
  /\ Payloads \subseteq Seq(Byte)
  /\ MaxSent \in Nat /\ MaxReceived \in Nat

VARIABLES
  buffer,        \* _buffer of the assembler of this connection
  handed,        \* frames handed to the daemon in this connection
  received       \* history: bytes received in this connection

vars == <<buffer, handed, received>>

-----------------------------------------------------------------------------
(* The format *)

\* build_frame, which is also what the peripheral does.
Frame(type, payload) ==
  << Mac, type, Len(payload) % Base, Len(payload) \div Base >> \o payload \o EndFlag

\* Mutant: the end flag is not counted.
FrameLenWithoutFlag(b) == HeaderLen + b[3] + Base * b[4]

\* The length of the frame at the head of b, as its header says.
FrameLen(b) == OverheadLen + b[3] + Base * b[4]

\* parse_frame raises no PacketParseError, but for a frame that is too short,
\* which no caller has.
Parses(frame) ==
  /\ Len(frame) = FrameLen(frame)
  /\ IsSuffix(EndFlag, frame)
  /\ frame[2] \in {Rawdata, Alert}
  /\ frame[2] = Rawdata => Len(frame) = OverheadLen + RawdataLen

-----------------------------------------------------------------------------
(* The assembler *)

\* Mutant: a length is never questioned.
ImpossibleNever(b) == FALSE

Impossible(b) == FrameLen(b) > MaxFrameLen

\* Mutant: off by one.
CompleteTooLate(b) == Len(b) > FrameLen(b)

Complete(b) == Len(b) >= FrameLen(b)

\* The loop of push(): what it makes of a buffer, the frames it takes out and
\* the bytes it leaves.  A byte at the head of an impossible length is dropped.
Assemble[b \in Seq(Byte)] ==
  IF Len(b) < OverheadLen THEN [frames |-> <<>>, rest |-> b]
  ELSE IF Impossible(b) THEN Assemble[Tail(b)]
  ELSE IF ~Complete(b) THEN [frames |-> <<>>, rest |-> b]
  ELSE LET more == Assemble[SubSeq(b, FrameLen(b) + 1, Len(b))]
       IN  [more EXCEPT !.frames = << SubSeq(b, 1, FrameLen(b)) >> \o @]

\* The handler's loop over the frames of a push: what each of them comes to.
ThatParse(frames) ==
  FlattenSeq([i \in DOMAIN frames |-> IF Parses(frames[i]) THEN << frames[i] >> ELSE <<>>])

\* Mutant: a push takes out one frame at most.
PushTakesOne(chunk) ==
  LET all == Assemble[buffer \o chunk]
  IN  IF all.frames = <<>> THEN buffer' = all.rest /\ UNCHANGED handed
      ELSE /\ handed' = handed \o ThatParse(<<Head(all.frames)>>)
           /\ buffer' = FlattenSeq(Tail(all.frames)) \o all.rest

\* The notify handler: every frame of the push that parses goes to the daemon.
Push(chunk) ==
  LET all == Assemble[buffer \o chunk]
  IN  /\ handed' = handed \o ThatParse(all.frames)
      /\ buffer' = all.rest

-----------------------------------------------------------------------------
(* Steps *)

Init == buffer = <<>> /\ handed = <<>> /\ received = <<>>

\* A notification brings some bytes.  They may be a piece of anything: of what a
\* peripheral sends, or of what is left of it after a fault.
Notify(chunk) ==
  /\ received' = received \o chunk
  /\ Push(chunk)

\* Mutant: the assembler belongs to the session, not to the connection.
ReconnectKeepsBuffer == handed' = <<>> /\ received' = <<>> /\ UNCHANGED buffer

\* The link is lost, in the middle of a frame perhaps, and the next connection
\* starts with an assembler of its own.
Reconnect == buffer' = <<>> /\ handed' = <<>> /\ received' = <<>>

Next ==
  \/ \E n \in 1 .. MaxReceived - Len(received) : \E chunk \in [1..n -> Byte] : Notify(chunk)
  \/ Reconnect

Spec == Init /\ [][Next]_vars

-----------------------------------------------------------------------------
(* Properties *)

\* What is kept, handed over and received are bytes.
TypeOK ==
  /\ buffer \in Seq(Byte) /\ received \in Seq(Byte)
  /\ handed \in Seq(Seq(Byte))

\* The frames a peripheral sends (the hub has a type for each), and the streams
\* of bytes that some of them make.
Frames ==
  { Frame(Rawdata, p) : p \in { q \in Payloads : Len(q) = RawdataLen } }
    \cup { Frame(Alert, p) : p \in { q \in Payloads : OverheadLen + Len(q) <= MaxFrameLen } }
Streams ==
  { [sent |-> s, bytes |-> FlattenSeq(s)] : s \in SeqOf(Frames, MaxSent) }

\* Of a peripheral that sends well-formed frames the daemon gets those frames, in
\* order and none of them twice, wherever the notifications cut the stream and
\* also after a connection that ended in mid-frame.
HandedAsSent ==
  \A s \in Streams : IsPrefix(received, s.bytes) => IsPrefix(handed, s.sent)

\* A frame is handed over as soon as its last byte is there: nothing waits for
\* a frame that may never follow.
NothingWithheld == \A s \in Streams : received = s.bytes => handed = s.sent

\* How a stream was cut into notifications does not matter, whatever it carried
\* and however often the assembler had to drop bytes: the frames handed over
\* and the bytes kept are those of one push of everything received.
ChunkingInvisible ==
  /\ handed = ThatParse(Assemble[received].frames)
  /\ buffer = Assemble[received].rest

\* No stream makes the assembler keep more than it takes to complete a frame.
BufferBounded == Len(buffer) < MaxFrameLen
=============================================================================
