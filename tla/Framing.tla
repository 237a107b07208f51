------------------------------ MODULE Framing -------------------------------
(***************************************************************************)
(* The wire codec: messages are written to a byte stream (ProxyMessage-    *)
(* Encoder, Encode of the Go client), the stream arrives in pieces, and    *)
(* ProxyMessageDecoder or Listen and Decode of the Go client cut it into   *)
(* messages again.  A message is its lengths: [uri, data].                 *)
(***************************************************************************)
EXTENDS Integers, SequencesExt

CONSTANTS Messages,     \* messages that are sent
          Pieces,       \* numbers of bytes one read returns
          ReadSize,     \* the read buffer of the Go client (8192 bytes)
          MaxFrame,     \* MAX_FRAME_LENGTH
          MaxSent,      \* bound on the messages of one connection
          Lost          \* no message came out of a frame

ASSUME FramingAssumption == /\ Messages \subseteq [uri : Nat, data : Nat]
                            /\ ReadSize \in Nat /\ Pieces \subseteq 1..ReadSize
                            /\ MaxFrame \in Nat /\ MaxSent \in Nat

VARIABLES frmDecoder,   \* "java" or "go"
          frmState,     \* "read", "decode" (inner loop of Listen), "lost", "shifted"
          frmSent,      \* messages written on the connection
          frmWire,      \* bytes written and not read
          frmBuf,       \* bytes read and not decoded
          frmSpare,     \* capacity of readBuf past its end
          frmGot        \* per frame decoded: what came out of it

frmVars == <<frmDecoder, frmState, frmSent, frmWire, frmBuf, frmSpare, frmGot>>

LenSize == 4
HeadSize == 2     \* TYPE_SIZE + URI_LENGTH_SIZE

FramingInit == /\ frmDecoder \in {"java", "go"} /\ frmState = "read"
               /\ frmSent = <<>> /\ frmWire = 0
               /\ frmBuf = 0 /\ frmSpare = ReadSize
               /\ frmGot = <<>>
------------------------------------------------------------------------------
(* Encoding: the length of the body, without itself; the uri's length is   *)
(* one byte.                                                               *)

BodyLength(m) == HeadSize + m.uri + m.data
UriByte(m)    == m.uri % 256
FrameSize(m)  == LenSize + BodyLength(m)

(* decode of ProxyMessageDecoder: the byte is signed, and an array of      *)
(* negative size throws: the frame is gone, the connection stays.  A frame *)
(* that is too long is skipped (LengthFieldBasedFrameDecoder).             *)
JavaUri(m) == IF UriByte(m) < 128 THEN UriByte(m) ELSE UriByte(m) - 256

JavaDecoded(m) == IF FrameSize(m) > MaxFrame \/ JavaUri(m) < 0 THEN Lost
                  ELSE [uri |-> JavaUri(m), data |-> BodyLength(m) - HeadSize - JavaUri(m)]

(* Decode of the Go client adds in eight bits: a slice that ends before it *)
(* begins panics.                                                          *)
GoUriEndShort(m) == (1 + UriByte(m)) % 256
GoUriEnd(m)  == (HeadSize + UriByte(m)) % 256
GoPanics(m)  == GoUriEnd(m) < HeadSize
GoDecoded(m) == [uri |-> GoUriEnd(m) - HeadSize, data |-> BodyLength(m) - GoUriEnd(m)]

NextFrame == frmSent[Len(frmGot) + 1]
------------------------------------------------------------------------------
FrmSend(m) == /\ frmState \in {"read", "decode"} /\ Len(frmSent) < MaxSent
              /\ frmSent' = Append(frmSent, m)
              /\ frmWire' = frmWire + FrameSize(m)
              /\ UNCHANGED <<frmDecoder, frmState, frmBuf, frmSpare, frmGot>>

JavaRead(n) == /\ frmDecoder = "java" /\ n <= frmWire
               /\ frmWire' = frmWire - n /\ frmBuf' = frmBuf + n
               /\ UNCHANGED <<frmDecoder, frmState, frmSent, frmSpare, frmGot>>

JavaFrame == /\ frmDecoder = "java" /\ Len(frmGot) < Len(frmSent)
             /\ frmBuf >= FrameSize(NextFrame)
             /\ frmBuf' = frmBuf - FrameSize(NextFrame)
             /\ frmGot' = Append(frmGot, JavaDecoded(NextFrame))
             /\ UNCHANGED <<frmDecoder, frmState, frmSent, frmWire, frmSpare>>

(* The first read is readBuf; later ones are appended, in place or to a    *)
(* larger array, of a size the run time chooses.                           *)
GoRead(n) == /\ frmDecoder = "go" /\ frmState = "read" /\ frmBuf <= MaxFrame /\ n <= frmWire
             /\ frmWire' = frmWire - n /\ frmBuf' = frmBuf + n
             /\ frmSpare' \in (IF n <= frmSpare THEN {frmSpare - n} ELSE 0..ReadSize)
             /\ frmState' = "decode"
             /\ UNCHANGED <<frmDecoder, frmSent, frmGot>>

(* Slicing the length off panics if fewer than four bytes are left and the *)
(* array ends there, as it does when the read filled it.                   *)
GoHeaderPanics == frmBuf > 0 /\ frmBuf + frmSpare < LenSize
GoComplete     == /\ Len(frmGot) < Len(frmSent) /\ frmBuf >= FrameSize(NextFrame)

GoOneFrame == /\ frmState = "decode" /\ ~GoHeaderPanics /\ GoComplete /\ ~GoPanics(NextFrame)
              /\ frmBuf' = frmBuf - FrameSize(NextFrame)
              /\ frmGot' = Append(frmGot, GoDecoded(NextFrame))
              /\ frmState' = "read"
              /\ UNCHANGED <<frmDecoder, frmSent, frmWire, frmSpare>>
GoFrame == /\ frmState = "decode" /\ ~GoHeaderPanics /\ GoComplete /\ ~GoPanics(NextFrame)
           /\ frmBuf' = frmBuf - FrameSize(NextFrame)
           /\ frmGot' = Append(frmGot, GoDecoded(NextFrame))
           /\ UNCHANGED <<frmDecoder, frmState, frmSent, frmWire, frmSpare>>

(* What is left is copied into an array of just its size.                  *)
GoLoopEnds == /\ frmState = "decode" /\ ~GoHeaderPanics /\ ~GoComplete
              /\ frmState' = "read"
              /\ frmSpare' = IF frmBuf > 0 THEN 0 ELSE frmSpare
              /\ UNCHANGED <<frmDecoder, frmSent, frmWire, frmBuf, frmGot>>

(* The connection is given up: a panic, more than MaxFrame bytes without a *)
(* message, or the other side closed it.                                   *)
GoGivesUp == /\ frmDecoder = "go" /\ frmState \in {"read", "decode"}
             /\ \/ frmState = "decode" /\ GoHeaderPanics
                \/ frmState = "decode" /\ GoComplete /\ GoPanics(NextFrame)
                \/ frmState = "read" /\ (frmBuf > MaxFrame \/ frmSent # <<>>)
             /\ frmState' = "lost"
             /\ UNCHANGED <<frmDecoder, frmSent, frmWire, frmBuf, frmSpare, frmGot>>

(* start connects again with the same ConnHandler, whose readBuf still     *)
(* holds what was not decoded: the frames of the new connection are then   *)
(* cut in the wrong places, and what comes out is not modelled.            *)
GoReconnect == /\ frmDecoder = "go" /\ frmState = "lost"
               /\ frmState' = IF frmBuf = 0 THEN "read" ELSE "shifted"
               /\ frmSent' = <<>> /\ frmWire' = 0 /\ frmGot' = <<>>
               /\ UNCHANGED <<frmDecoder, frmBuf, frmSpare>>

FramingNext == \/ \E m \in Messages : FrmSend(m)
               \/ \E n \in Pieces : JavaRead(n) \/ GoRead(n)
               \/ JavaFrame \/ GoFrame \/ GoLoopEnds \/ GoGivesUp \/ GoReconnect
------------------------------------------------------------------------------
SizeOf(frames) == FoldLeft(LAMBDA n, m : n + FrameSize(m), 0, frames)

(* Bytes are neither lost nor made up between the two sides: what is not   *)
(* on the wire or in the buffer are the frames decoded so far.             *)
FramingTypeOK == /\ frmState \in {"read", "decode", "lost", "shifted"}
                 /\ frmSpare \in 0..ReadSize /\ Len(frmGot) <= Len(frmSent)
                 /\ frmState # "shifted"
                    => frmWire + frmBuf + SizeOf(SubSeq(frmSent, 1, Len(frmGot)))
                       = SizeOf(frmSent)

(* Both decoders agree with both encoders on every message whose uri fits: *)
(* 127 bytes for the Java side, 253 for the Go client (the byte is signed  *)
(* on one side, and the other adds to it in eight bits).                   *)
UriLimit == IF frmDecoder = "java" THEN 127 ELSE 253
MessagesArrive ==
  \A i \in DOMAIN frmGot :
    frmSent[i].uri <= UriLimit /\ FrameSize(frmSent[i]) <= MaxFrame => frmGot[i] = frmSent[i]

(* When everything was read and Listen waits for more, it has decoded      *)
(* everything: a frame that came with the one before it does not wait for  *)
(* the next read.                                                          *)
NothingHeldBack ==
  frmWire = 0 /\ frmState = "read" /\ frmDecoder = "go" => Len(frmGot) = Len(frmSent)
==============================================================================
