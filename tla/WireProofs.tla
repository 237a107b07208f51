----------------------------- MODULE WireProofs -----------------------------
(***************************************************************************)
(* What the wire between client and server does: the codec, for any        *)
(* messages and any way the byte stream is cut into reads, and the idle    *)
(* checks, for any length of a tick, any delay and any traffic.            *)
(***************************************************************************)
EXTENDS Framing, KeepAlive, SequenceTheorems, TLAPS

(* The codec.                                                              *)
FramingSpec == FramingInit /\ [][FramingNext]_frmVars

(* What the decoder of the connection makes of the frame of a message.     *)
Decoded(m) == IF frmDecoder = "java" THEN JavaDecoded(m) ELSE GoDecoded(m)
Outcomes == {Lost} \cup [uri : Int, data : Int]

FrmShape == /\ frmDecoder \in {"java", "go"}
            /\ frmState \in {"read", "decode", "lost", "shifted"}
            /\ frmDecoder = "java" => frmState = "read"
            /\ frmSent \in Seq(Messages) /\ frmGot \in Seq(Outcomes)
            /\ Len(frmGot) <= Len(frmSent)
            /\ frmWire \in Nat /\ frmBuf \in Nat

(* Each frame is decoded once, in order, into what its message decodes to. *)
InOrder == \A i \in 1..Len(frmGot) : frmGot[i] = Decoded(frmSent[i])

(* Where the frames of a connection end in its bytes.                      *)
Ends(ends, frames) ==
  /\ ends \in [0..Len(frames) -> Nat] /\ ends[0] = 0
  /\ \A i \in 1..Len(frames) : ends[i] = ends[i - 1] + FrameSize(frames[i])
  /\ \A i, j \in 0..Len(frames) : i <= j => ends[i] <= ends[j]

(* What was sent and not decoded is on the wire or in the buffer.          *)
Conserved == frmState # "shifted" =>
  \E ends : Ends(ends, frmSent) /\ frmWire + frmBuf + ends[Len(frmGot)] = ends[Len(frmSent)]

(* Listen waits for bytes only when there is no frame in its buffer.       *)
Waits == frmDecoder = "go" /\ frmState = "read" => ~GoComplete

FrmInv == FrmShape /\ InOrder /\ Conserved /\ Waits

(* Eight bits hold the length of an uri modulo 256, a frame has a head.    *)
LEMMA MessageLengths ==
  ASSUME NEW m \in Messages
  PROVE  /\ m \in [uri : Nat, data : Nat] /\ m.uri \in Nat /\ m.data \in Nat
         /\ UriByte(m) \in 0..255 /\ FrameSize(m) \in Nat /\ FrameSize(m) >= LenSize + HeadSize
         /\ BodyLength(m) \in Nat
<1>1. m \in [uri : Nat, data : Nat] BY FramingAssumption
<1>2. m.uri \in Nat /\ m.data \in Nat BY <1>1
<1> QED BY <1>1, <1>2 DEF UriByte, FrameSize, BodyLength, LenSize, HeadSize

LEMMA OutcomeTyped ==
  ASSUME NEW m \in Messages PROVE JavaDecoded(m) \in Outcomes /\ GoDecoded(m) \in Outcomes
<1>1. JavaUri(m) \in Int BY MessageLengths DEF JavaUri
<1>2. GoUriEnd(m) \in Int BY MessageLengths DEF GoUriEnd, HeadSize
<1>3. BodyLength(m) \in Int /\ HeadSize \in Int BY MessageLengths DEF HeadSize
<1>4. JavaDecoded(m) \in Outcomes BY <1>1, <1>3 DEF JavaDecoded, Outcomes
<1>5. GoDecoded(m) \in Outcomes BY <1>2, <1>3 DEF GoDecoded, Outcomes, HeadSize
<1> QED BY <1>4, <1>5

(* What either decoder makes of a message whose uri fits.                  *)
LEMMA ShortUri ==
  ASSUME NEW m \in Messages
  PROVE  /\ m.uri <= 127 /\ FrameSize(m) <= MaxFrame => JavaDecoded(m) = m
         /\ m.uri <= 253 => GoDecoded(m) = m
<1>0. /\ m \in [uri : Nat, data : Nat] /\ m.uri \in Nat /\ m.data \in Nat
      /\ m = [uri |-> m.uri, data |-> m.data]
  BY MessageLengths
<1>1. ASSUME m.uri <= 127, FrameSize(m) <= MaxFrame PROVE JavaDecoded(m) = m
  <2>1. UriByte(m) = m.uri BY <1>0, <1>1 DEF UriByte
  <2>2. JavaUri(m) = m.uri BY <1>0, <1>1, <2>1 DEF JavaUri
  <2>3. BodyLength(m) - HeadSize - JavaUri(m) = m.data BY <1>0, <2>2 DEF BodyLength, HeadSize
  <2>4. ~(FrameSize(m) > MaxFrame \/ JavaUri(m) < 0)
    BY <1>0, <1>1, <2>2, MessageLengths, FramingAssumption
  <2> QED BY <1>0, <2>2, <2>3, <2>4 DEF JavaDecoded
<1>2. ASSUME m.uri <= 253 PROVE GoDecoded(m) = m
  <2>1. UriByte(m) = m.uri BY <1>0, <1>2 DEF UriByte
  <2>2. GoUriEnd(m) = HeadSize + m.uri BY <1>0, <1>2, <2>1 DEF GoUriEnd, HeadSize
  <2>3. GoUriEnd(m) - HeadSize = m.uri /\ BodyLength(m) - GoUriEnd(m) = m.data
    BY <1>0, <2>2 DEF BodyLength, HeadSize
  <2> QED BY <1>0, <2>3 DEF GoDecoded
<1> QED BY <1>1, <1>2

(* A frame that is sent ends behind all the others.                        *)
LEMMA OneMoreFrame ==
  ASSUME NEW s \in Seq(Messages), NEW m \in Messages, NEW ends, Ends(ends, s)
  PROVE  \E more : /\ Ends(more, Append(s, m))
                   /\ \A i \in 0..Len(s) : more[i] = ends[i]
                   /\ more[Len(s) + 1] = ends[Len(s)] + FrameSize(m)
<1> DEFINE t == Append(s, m)
           more == [i \in 0..Len(t) |-> IF i <= Len(s) THEN ends[i] ELSE ends[Len(s)] + FrameSize(m)]
<1>1. /\ Len(s) \in Nat /\ Len(t) = Len(s) + 1
      /\ \A i \in 1..Len(s) : t[i] = s[i] 
      /\ t[Len(s) + 1] = m
  BY AppendProperties
<1>2. FrameSize(m) \in Nat BY MessageLengths
<1>3. ends \in [0..Len(s) -> Nat] BY DEF Ends
<1> HIDE DEF t
<1>4. /\ more \in [0..Len(t) -> Nat]
      /\ \A i \in 0..Len(s) : more[i] = ends[i]
      /\ more[Len(s) + 1] = ends[Len(s)] + FrameSize(m)
  BY <1>1, <1>2, <1>3
<1> HIDE DEF more
<1>5. more[0] = 0 BY <1>1, <1>4 DEF Ends
<1>6. ASSUME NEW i \in 1..Len(t) PROVE more[i] = more[i - 1] + FrameSize(t[i])
  <2>1. CASE i <= Len(s) 
    <3>1. i \in 1..Len(s) /\ i \in 0..Len(s) /\ i - 1 \in 0..Len(s) BY <1>1, <2>1
    <3>2. ends[i] = ends[i - 1] + FrameSize(s[i]) BY <3>1 DEF Ends
    <3> QED BY <1>1, <1>4, <3>1, <3>2
  <2>2. CASE i = Len(s) + 1
    <3>1. i - 1 = Len(s) /\ Len(s) \in 0..Len(s) BY <1>1, <2>2
    <3> QED BY <1>1, <1>4, <2>2, <3>1
  <2> QED BY <1>1, <2>1, <2>2
<1>7. ASSUME NEW i \in 0..Len(t), NEW j \in 0..Len(t), i <= j PROVE more[i] <= more[j]
  <2>1. CASE j <= Len(s) 
    <3>1. i \in 0..Len(s) /\ j \in 0..Len(s) BY <1>1, <1>7, <2>1
    <3> QED BY <1>4, <1>7, <3>1 DEF Ends
  <2>2. CASE i <= Len(s) /\ j = Len(s) + 1
    <3>1. i \in 0..Len(s) /\ Len(s) \in 0..Len(s) BY <1>1, <2>2
    <3>2. ends[i] <= ends[Len(s)] BY <1>1, <2>2, <3>1 DEF Ends
    <3>3. ends[i] \in Nat /\ ends[Len(s)] \in Nat BY <1>3, <3>1
    <3> QED BY <1>2, <1>4, <2>2, <3>1, <3>2, <3>3
  <2>3. CASE i = j BY <1>4, <2>3
  <2> QED BY <1>1, <1>7, <2>1, <2>2, <2>3
<1>8. Ends(more, t) BY <1>4, <1>5, <1>6, <1>7 DEF Ends
<1> QED BY <1>4, <1>8 DEF t

LEMMA FrmInitInv == FramingInit => FrmInv
<1> SUFFICES ASSUME FramingInit PROVE FrmInv OBVIOUS
<1>1. Len(frmSent) = 0 /\ Len(frmGot) = 0 /\ frmSent = <<>> BY DEF FramingInit
<1>2. FrmShape BY <1>1 DEF FramingInit, FrmShape
<1>3. Ends([i \in {0} |-> 0], frmSent)
  <2>1. 0..0 = {0} OBVIOUS
  <2> QED BY <1>1, <2>1 DEF Ends
<1>4. Conserved BY <1>1, <1>3 DEF Conserved, FramingInit
<1> QED BY <1>1, <1>2, <1>4 DEF FrmInv, InOrder, Waits, GoComplete

(* A message that is sent is complete only in the buffer of the receiver:  *)
(* where nothing waits, the wire and the buffer are empty.                 *)
LEMMA SendStep == ASSUME FrmInv, NEW m \in Messages, FrmSend(m) PROVE FrmInv'
<1>1. /\ frmSent' = Append(frmSent, m) /\ frmWire' = frmWire + FrameSize(m)
      /\ UNCHANGED <<frmDecoder, frmState, frmBuf, frmGot>> /\ frmState # "shifted"
  BY DEF FrmSend
<1>2. /\ frmSent \in Seq(Messages) /\ Len(frmSent) \in Nat /\ Len(frmGot) \in Nat
      /\ Len(frmGot) <= Len(frmSent) /\ frmWire \in Nat /\ frmBuf \in Nat
  BY DEF FrmInv, FrmShape
<1>3. /\ frmSent' \in Seq(Messages) /\ Len(frmSent') = Len(frmSent) + 1
      /\ \A i \in 1..Len(frmSent) : frmSent'[i] = frmSent[i]
      /\ frmSent'[Len(frmSent) + 1] = m
  BY <1>1, <1>2, AppendProperties
<1>4. FrameSize(m) \in Nat /\ FrameSize(m) >= LenSize + HeadSize BY MessageLengths
<1>5. FrmShape' BY <1>1, <1>2, <1>3, <1>4 DEF FrmInv, FrmShape
<1>6. InOrder' BY <1>1, <1>2, <1>3 DEF FrmInv, InOrder, Decoded
<1>7. PICK ends : Ends(ends, frmSent) /\ frmWire + frmBuf + ends[Len(frmGot)] = ends[Len(frmSent)]
  BY <1>1 DEF FrmInv, Conserved
<1>8. PICK more : /\ Ends(more, Append(frmSent, m))
                  /\ \A i \in 0..Len(frmSent) : more[i] = ends[i]
                  /\ more[Len(frmSent) + 1] = ends[Len(frmSent)] + FrameSize(m)
  BY <1>2, <1>7, OneMoreFrame
<1>9. ends[Len(frmGot)] \in Nat /\ ends[Len(frmSent)] \in Nat
      /\ Len(frmGot) \in 0..Len(frmSent) /\ Len(frmSent) \in 0..Len(frmSent)
  BY <1>2, <1>7 DEF Ends
<1>10. Conserved'
  <2>1. frmWire' + frmBuf' + more[Len(frmGot')] = more[Len(frmSent')]
    BY <1>1, <1>2, <1>3, <1>4, <1>7, <1>8, <1>9, SMTT(60)
  <2> QED BY <1>1, <1>8, <2>1 DEF Conserved
<1>11. Waits'
  <2>1. CASE Len(frmGot) = Len(frmSent)
    <3>1. frmBuf = 0 BY <1>2, <1>7, <1>9, <2>1
    <3> QED BY <1>1, <1>2, <1>3, <1>4, <2>1, <3>1 DEF Waits, GoComplete, NextFrame, LenSize, HeadSize
  <2>2. CASE Len(frmGot) < Len(frmSent)
    <3>1. Len(frmGot) + 1 \in 1..Len(frmSent) BY <1>2, <2>2
    <3>2. NextFrame' = NextFrame BY <1>1, <1>3, <3>1 DEF NextFrame
    <3> QED BY <1>1, <1>3, <2>2, <3>2 DEF FrmInv, Waits, GoComplete, FrameSize
  <2> QED BY <1>2, <2>1, <2>2
<1> QED BY <1>5, <1>6, <1>10, <1>11 DEF FrmInv

(* A read moves bytes from the wire to the buffer.                         *)
LEMMA ReadStep == ASSUME FrmInv, NEW n \in Pieces, JavaRead(n) \/ GoRead(n) PROVE FrmInv'
<1>1. /\ frmWire' = frmWire - n /\ frmBuf' = frmBuf + n /\ n <= frmWire
      /\ UNCHANGED <<frmDecoder, frmSent, frmGot>>
      /\ \/ frmDecoder = "java" /\ frmState' = frmState
         \/ frmDecoder = "go" /\ frmState = "read" /\ frmState' = "decode"
  BY DEF JavaRead, GoRead
<1>2. n \in Nat BY FramingAssumption
<1>3. FrmShape' BY <1>1, <1>2 DEF FrmInv, FrmShape
<1>4. InOrder' BY <1>1 DEF FrmInv, InOrder, Decoded
<1>5. frmWire' + frmBuf' = frmWire + frmBuf BY <1>1, <1>2 DEF FrmInv, FrmShape
<1>6. Conserved' BY <1>1, <1>5 DEF FrmInv, Conserved
<1>7. Waits' BY <1>1 DEF Waits
<1> QED BY <1>3, <1>4, <1>6, <1>7 DEF FrmInv

(* A decoder takes one whole frame from its buffer.                        *)
LEMMA FrameStep == ASSUME FrmInv, JavaFrame \/ GoFrame PROVE FrmInv'
<1>1. /\ frmBuf' = frmBuf - FrameSize(NextFrame) /\ frmBuf >= FrameSize(NextFrame)
      /\ Len(frmGot) < Len(frmSent)
      /\ frmGot' = Append(frmGot, Decoded(NextFrame))
      /\ UNCHANGED <<frmDecoder, frmState, frmSent, frmWire>>
      /\ frmDecoder = "go" => frmState = "decode"
  <2>1. CASE JavaFrame BY <2>1 DEF JavaFrame, Decoded
  <2>2. CASE GoFrame
    <3>1. frmState = "decode" BY <2>2 DEF GoFrame
    <3>2. frmDecoder = "go" BY <3>1 DEF FrmInv, FrmShape
    <3> QED BY <2>2, <3>1, <3>2 DEF GoFrame, GoComplete, Decoded
  <2> QED BY <2>1, <2>2
<1>2. /\ frmSent \in Seq(Messages) /\ Len(frmSent) \in Nat /\ Len(frmGot) \in Nat
      /\ frmWire \in Nat /\ frmBuf \in Nat /\ frmGot \in Seq(Outcomes)
  BY DEF FrmInv, FrmShape
<1>3. Len(frmGot) + 1 \in 1..Len(frmSent) BY <1>1, <1>2
<1>4. NextFrame \in Messages BY <1>2, <1>3 DEF NextFrame
<1>5. FrameSize(NextFrame) \in Nat BY <1>4, MessageLengths
<1>6. Decoded(NextFrame) \in Outcomes BY <1>4, OutcomeTyped DEF Decoded
<1>7. /\ frmGot' \in Seq(Outcomes) /\ Len(frmGot') = Len(frmGot) + 1
      /\ \A i \in 1..Len(frmGot) : frmGot'[i] = frmGot[i]
      /\ frmGot'[Len(frmGot) + 1] = Decoded(NextFrame)
  BY <1>1, <1>2, <1>6, AppendProperties
<1>8. FrmShape' BY <1>1, <1>2, <1>5, <1>7 DEF FrmInv, FrmShape
<1>9. InOrder'
  <2> SUFFICES ASSUME NEW i \in 1..Len(frmGot') PROVE frmGot'[i] = Decoded(frmSent[i])
    BY <1>1 DEF InOrder, Decoded
  <2>1. CASE i \in 1..Len(frmGot) BY <1>7, <2>1 DEF FrmInv, InOrder
  <2>2. CASE i = Len(frmGot) + 1 BY <1>7, <2>2 DEF NextFrame
  <2> QED BY <1>2, <1>7, <2>1, <2>2
<1>10. Conserved'
  <2> SUFFICES ASSUME frmState # "shifted" PROVE Conserved' BY <1>1 DEF Conserved
  <2>1. PICK ends : Ends(ends, frmSent) /\ frmWire + frmBuf + ends[Len(frmGot)] = ends[Len(frmSent)]
    BY DEF FrmInv, Conserved
  <2>2. ends[Len(frmGot) + 1] = ends[Len(frmGot)] + FrameSize(NextFrame)
    BY <1>2, <1>3, <2>1 DEF Ends, NextFrame
  <2>3. ends[Len(frmGot)] \in Nat BY <1>1, <1>2, <2>1 DEF Ends
  <2>4. frmWire' + frmBuf' + ends[Len(frmGot')] = ends[Len(frmSent')]
    BY <1>1, <1>2, <1>5, <1>7, <2>1, <2>2, <2>3
  <2> QED BY <1>1, <2>1, <2>4 DEF Conserved
<1>11. Waits' BY <1>1 DEF Waits
<1> QED BY <1>8, <1>9, <1>10, <1>11 DEF FrmInv

LEMMA FrmNextInv == FrmInv /\ [FramingNext]_frmVars => FrmInv'
<1> SUFFICES ASSUME FrmInv, [FramingNext]_frmVars PROVE FrmInv' OBVIOUS
<1>1. CASE GoLoopEnds
  <2>1. /\ frmState = "decode" /\ frmState' = "read" /\ ~GoComplete
        /\ UNCHANGED <<frmDecoder, frmSent, frmWire, frmBuf, frmGot>>
    BY <1>1 DEF GoLoopEnds
  <2>2. FrmShape' /\ InOrder' BY <2>1 DEF FrmInv, FrmShape, InOrder, Decoded
  <2>3. Conserved' BY <2>1 DEF FrmInv, Conserved
  <2>4. Waits' BY <2>1 DEF Waits, GoComplete, NextFrame
  <2> QED BY <2>2, <2>3, <2>4 DEF FrmInv
<1>2. CASE GoGivesUp
  <2>1. /\ frmDecoder = "go" /\ frmState' = "lost" /\ frmState # "shifted"
        /\ UNCHANGED <<frmDecoder, frmSent, frmWire, frmBuf, frmGot>>
    BY <1>2 DEF GoGivesUp
  <2>2. FrmShape' /\ InOrder' BY <2>1 DEF FrmInv, FrmShape, InOrder, Decoded
  <2>3. Conserved' BY <2>1 DEF FrmInv, Conserved
  <2>4. Waits' BY <2>1 DEF Waits
  <2> QED BY <2>2, <2>3, <2>4 DEF FrmInv
<1>3. CASE GoReconnect
  <2>1. /\ frmDecoder = "go" /\ frmState' = (IF frmBuf = 0 THEN "read" ELSE "shifted")
        /\ frmSent' = <<>> /\ frmWire' = 0 /\ frmGot' = <<>> /\ UNCHANGED <<frmDecoder, frmBuf>>
    BY <1>3 DEF GoReconnect
  <2>2. Len(frmSent') = 0 /\ Len(frmGot') = 0 BY <2>1
  <2>3. FrmShape' /\ InOrder' BY <2>1, <2>2 DEF FrmInv, FrmShape, InOrder
  <2>4. Conserved'
    <3>1. 0..0 = {0} OBVIOUS
    <3>2. Ends([i \in {0} |-> 0], frmSent') BY <2>1, <2>2, <3>1 DEF Ends
    <3> QED BY <2>1, <2>2, <3>2 DEF Conserved
  <2>5. Waits' BY <2>2 DEF Waits, GoComplete
  <2> QED BY <2>3, <2>4, <2>5 DEF FrmInv
<1>4. CASE UNCHANGED frmVars
  BY <1>4 DEF frmVars, FrmInv, FrmShape, InOrder, Decoded, Conserved, Waits, GoComplete, NextFrame
<1> QED BY <1>1, <1>2, <1>3, <1>4, SendStep, ReadStep, FrameStep DEF FramingNext

LEMMA SpecFrmInv == FramingSpec => []FrmInv
BY FrmInitInv, FrmNextInv, PTL DEF FramingSpec

(* MessagesArrive, for any messages, however the stream is cut, for both   *)
(* decoders: the uri is within the limit, so no byte of it is taken for a  *)
(* sign and no sum of eight bits wraps around.                             *)
THEOREM CodecsAgree == FramingSpec => []MessagesArrive
<1>1. FrmInv => MessagesArrive
  <2> SUFFICES ASSUME FrmInv, NEW i \in DOMAIN frmGot,
                      frmSent[i].uri <= UriLimit, FrameSize(frmSent[i]) <= MaxFrame
               PROVE  frmGot[i] = frmSent[i]
    BY DEF MessagesArrive
  <2>1. frmGot \in Seq(Outcomes) /\ frmSent \in Seq(Messages) /\ Len(frmGot) <= Len(frmSent)
    BY DEF FrmInv, FrmShape
  <2>2. i \in 1..Len(frmGot) /\ i \in 1..Len(frmSent) BY <2>1
  <2>3. frmSent[i] \in Messages /\ frmGot[i] = Decoded(frmSent[i])
    BY <2>1, <2>2 DEF FrmInv, InOrder
  <2> QED BY <2>3, ShortUri DEF Decoded, UriLimit
<1> QED BY <1>1, SpecFrmInv, PTL

(* NothingHeldBack: Listen goes back to reading only when its buffer holds *)
(* no whole frame, and what has been sent and read but not decoded begins  *)
(* with the next one.                                                      *)
THEOREM NoFrameWaits == FramingSpec => []NothingHeldBack
<1>1. FrmInv => NothingHeldBack
  <2> SUFFICES ASSUME FrmInv, frmWire = 0, frmState = "read", frmDecoder = "go"
               PROVE  Len(frmGot) = Len(frmSent)
    BY DEF NothingHeldBack
  <2>1. /\ Len(frmGot) \in Nat /\ Len(frmSent) \in Nat /\ Len(frmGot) <= Len(frmSent)
        /\ frmSent \in Seq(Messages) /\ frmBuf \in Nat
    BY DEF FrmInv, FrmShape
  <2>2. SUFFICES ASSUME Len(frmGot) < Len(frmSent) PROVE frmBuf >= FrameSize(NextFrame)
    BY <2>1 DEF FrmInv, Waits, GoComplete
  <2>3. PICK ends : Ends(ends, frmSent) /\ frmWire + frmBuf + ends[Len(frmGot)] = ends[Len(frmSent)]
    BY DEF FrmInv, Conserved
  <2>4. Len(frmGot) + 1 \in 1..Len(frmSent) BY <2>1, <2>2
  <2>5. ends[Len(frmGot) + 1] = ends[Len(frmGot)] + FrameSize(NextFrame)
    BY <2>1, <2>3, <2>4 DEF Ends, NextFrame
  <2>6. ends[Len(frmGot) + 1] <= ends[Len(frmSent)] BY <2>1, <2>3, <2>4 DEF Ends
  <2>7. ends[Len(frmGot)] \in Nat /\ ends[Len(frmSent)] \in Nat BY <2>1, <2>3 DEF Ends
  <2>8. FrameSize(NextFrame) \in Nat BY <2>1, <2>4, MessageLengths DEF NextFrame
  <2> QED BY <2>1, <2>3, <2>5, <2>6, <2>7, <2>8
<1> QED BY <1>1, SpecFrmInv, PTL
------------------------------------------------------------------------------
(* The idle checks: how durations in ticks are ordered.                    *)
LEMMA MulStep == ASSUME NEW u \in Nat \ {0}, NEW p \in Nat, NEW q \in Nat, p < q
  PROVE u * p + u <= u * q
<1>1. PICK d \in Nat : q = p + 1 + d
  <2>1. q - (p + 1) \in Nat OBVIOUS
  <2> QED BY <2>1
<1>2. u * (p + 1 + d) = u * p + u + u * d OBVIOUS
<1>3. u * d \in Nat OBVIOUS
<1> QED BY <1>1, <1>2, <1>3

(* Dividing by the length of a tick keeps the order of two durations; the  *)
(* second durations are the ones the code fixes.                           *)
LEMMA TickOrder ==
  ASSUME NEW a \in Nat, NEW b \in Nat, a <= b
  PROVE  Ticks(a) \in Nat /\ Ticks(b) \in Nat /\ Ticks(a) <= Ticks(b)
<1> DEFINE x == a + Unit - 1
           y == b + Unit - 1
<1>0. Unit \in Nat \ {0} /\ x \in Nat /\ y \in Nat /\ x <= y BY KeepAliveAssumption
<1>1. /\ x \div Unit \in Nat /\ Unit * (x \div Unit) <= x
      /\ y \div Unit \in Nat /\ y < Unit * (y \div Unit) + Unit
  BY <1>0
<1>2. ASSUME y \div Unit < x \div Unit PROVE FALSE
  <2>1. Unit * (y \div Unit) + Unit <= Unit * (x \div Unit) BY <1>0, <1>1, <1>2, MulStep
  <2> QED BY <1>0, <1>1, <2>1
<1> QED BY <1>0, <1>1, <1>2 DEF Ticks

(* A duration in ticks is rounded up.                                      *)
LEMMA TickBounds ==
  ASSUME NEW a \in Nat
  PROVE  Ticks(a) \in Nat /\ a <= Unit * Ticks(a) /\ Unit * Ticks(a) < a + Unit
<1>1. Unit \in Nat \ {0} /\ a + Unit - 1 \in Nat BY KeepAliveAssumption
<1>2. ASSUME NEW x \in Nat, NEW u \in Nat \ {0}
      PROVE  x \div u \in Nat /\ u * (x \div u) <= x /\ x < u * (x \div u) + u
  OBVIOUS
<1>3. PICK q \in Nat : /\ q = (a + Unit - 1) \div Unit /\ Unit * q <= a + Unit - 1
                       /\ a + Unit - 1 < Unit * q + Unit
  BY <1>1, <1>2
<1>4. Unit * q \in Nat BY <1>1
<1> QED BY <1>1, <1>3, <1>4 DEF Ticks

LEMMA HalfMinute == Ticks(60) <= 2 * Ticks(30) /\ 2 * Ticks(30) <= Ticks(60) + 1
<1>1. PICK h \in Nat : h = Ticks(30) /\ 30 <= Unit * h /\ Unit * h < 30 + Unit BY TickBounds
<1>2. PICK m \in Nat : m = Ticks(60) /\ 60 <= Unit * m /\ Unit * m < 60 + Unit BY TickBounds
<1>3. Unit \in Nat \ {0} BY KeepAliveAssumption
<1>4. PICK x \in Nat : x = Unit * h BY <1>3
<1>5. PICK y \in Nat : y = Unit * m BY <1>3
<1>6. Unit * (2 * h) = 2 * x BY <1>3, <1>4
<1>7. ASSUME 2 * h < m PROVE FALSE
  <2>1. Unit * (2 * h) + Unit <= Unit * m BY <1>3, <1>7, MulStep
  <2> QED BY <1>1, <1>2, <1>3, <1>4, <1>5, <1>6, <2>1
<1>8. ASSUME m + 1 < 2 * h PROVE FALSE
  <2>1. Unit * (m + 1) + Unit <= Unit * (2 * h) BY <1>3, <1>8, MulStep
  <2>2. Unit * (m + 1) = y + Unit BY <1>3, <1>5
  <2> QED BY <1>1, <1>2, <1>3, <1>4, <1>5, <1>6, <2>1, <2>2
<1> QED BY <1>1, <1>2, <1>7, <1>8

ServerWriteIdle == Ticks(40)
ShortWait   == Ticks(LongWait)
LongestWait == Ticks(64)
Sleeps == {1, 2, 4, 8, 16, 32, 64}

LEMMA Timing ==
  /\ ReadIdleTime \in Nat /\ HeartbeatInterval \in Nat \ {0} /\ ServerWriteIdle \in Nat
  /\ ShortWait \in Nat \ {0} /\ LongestWait \in Nat
  /\ ClientWriteIdle = HeartbeatInterval /\ HeartbeatInterval <= ServerWriteIdle
  /\ ReadIdleTime <= 2 * HeartbeatInterval /\ 2 * HeartbeatInterval <= ReadIdleTime + 1
  /\ \A t \in Sleeps : /\ Ticks(t) \in Nat /\ Ticks(t) <= LongestWait
                       /\ ~(t > LongWait) => Ticks(t) <= ShortWait
<1>1. /\ Ticks(60) \in Nat /\ Ticks(30) \in Nat /\ Ticks(40) \in Nat /\ Ticks(30) <= Ticks(40)
      /\ Ticks(8) \in Nat /\ Ticks(64) \in Nat /\ 40 - 10 = 30
  BY TickOrder
<1>2. Ticks(30) # 0 /\ Ticks(8) # 0
  <2>1. \A a \in {8, 30} : Ticks(a) \in Nat /\ a <= Unit * Ticks(a) BY TickBounds
  <2>2. Unit * 0 = 0 BY KeepAliveAssumption
  <2> QED BY <2>1, <2>2
<1>3. ASSUME NEW t \in Sleeps
      PROVE  Ticks(t) \in Nat /\ Ticks(t) <= Ticks(64) /\ (~(t > 8) => Ticks(t) <= Ticks(8))
  BY TickOrder DEF Sleeps
<1>4. ClientWriteIdle = HeartbeatInterval BY <1>1 DEF ClientWriteIdle, HeartbeatInterval
<1> QED BY <1>1, <1>2, <1>3, <1>4, HalfMinute
       DEF ReadIdleTime, HeartbeatInterval, ServerWriteIdle, ShortWait, LongestWait, LongWait
------------------------------------------------------------------------------
KeepAliveSpec == KeepAliveInit /\ [][KeepAliveNext]_kaVars

Beats == [age : 0..Lag, beat : BOOLEAN]

KaShape == /\ kaClient \in {"java", "go"} /\ kaOpen \subseteq Sides
           /\ kaHeard \in [Sides -> Nat] /\ kaWrote \in [Sides -> Nat] /\ kaTimer \in Nat
           /\ kaWire \in [Sides -> Seq(Beats)]
           /\ kaSilent \in Nat \cup {Passing}
           /\ kaHeld \in Nat /\ kaSleep \in Sleeps /\ kaLong \in BOOLEAN

(* The oldest message on the way to a side.                                *)
Oldest(side) == Head(kaWire[side]).age

LEMMA NewMessage == \A beat \in BOOLEAN : Message(beat) \in Beats /\ Message(beat).age = 0
BY KeepAliveAssumption DEF Message, Beats

LEMMA WireSent ==
  ASSUME NEW w \in [Sides -> Seq(Beats)], NEW s \in Sides, NEW beat \in BOOLEAN,
         NEW r, r = Sent(s, w, beat)
  PROVE  /\ r \in [Sides -> Seq(Beats)] /\ r[s] = w[s]
         /\ kaSilent # Passing => r = w
         /\ kaSilent = Passing /\ Peer(s) \in kaOpen => r[Peer(s)] # <<>>
         /\ w[Peer(s)] = <<>> /\ r[Peer(s)] # <<>> => Head(r[Peer(s)]).age = 0
         /\ w[Peer(s)] # <<>> => /\ r[Peer(s)] # <<>>
                                 /\ Head(r[Peer(s)]) = Head(w[Peer(s)])
<1> DEFINE m == Message(beat)
<1>0. m \in Beats /\ m.age = 0 /\ Peer(s) \in Sides /\ Peer(s) # s
  BY NewMessage DEF Peer, Sides
<1> HIDE DEF m
<1>1. \/ r = w /\ ~(kaSilent = Passing /\ Peer(s) \in kaOpen)
      \/ kaSilent = Passing /\ r = [w EXCEPT ![Peer(s)] = Append(@, m)]
  BY DEF Sent, m
<1>2. CASE kaSilent = Passing /\ r = [w EXCEPT ![Peer(s)] = Append(@, m)]
  <2>1. w[Peer(s)] \in Seq(Beats) BY <1>0
  <2>2. ASSUME NEW q \in Seq(Beats), NEW a, a = Append(q, m)
        PROVE  /\ a \in Seq(Beats) /\ a # <<>>
               /\ q = <<>> => Head(a) = m
               /\ q # <<>> => Head(a) = Head(q)
    BY <1>0, <2>2, AppendProperties, HeadTailProperties, EmptySeq
  <2>3. r[Peer(s)] = Append(w[Peer(s)], m) BY <1>0, <1>2
  <2>4. /\ r[Peer(s)] \in Seq(Beats) /\ r[Peer(s)] # <<>>
        /\ w[Peer(s)] = <<>> => Head(r[Peer(s)]) = m
        /\ w[Peer(s)] # <<>> => Head(r[Peer(s)]) = Head(w[Peer(s)])
    BY <2>1, <2>2, <2>3
  <2>5. r \in [Sides -> Seq(Beats)] /\ r[s] = w[s] BY <1>0, <1>2, <2>3, <2>4
  <2> QED BY <1>0, <1>2, <2>4, <2>5
<1> QED BY <1>1, <1>2

(* Time passes for every message, up to Lag.                               *)
LEMMA MessagesAge ==
  ASSUME NEW q \in Seq(Beats)
  PROVE  /\ Older(q) \in Seq(Beats) /\ (Older(q) = <<>> <=> q = <<>>)
         /\ q # <<>> => Head(Older(q)).age = IF Head(q).age < Lag THEN Head(q).age + 1
                                             ELSE Head(q).age
<1> DEFINE r == Older(q)
<1>1. Len(q) \in Nat /\ DOMAIN q = 1..Len(q) /\ \A i \in 1..Len(q) : q[i] \in Beats
  BY LenProperties, ElementOfSeq
<1>2. /\ r = [i \in 1..Len(q) |-> [q[i] EXCEPT !.age = IF @ < Lag THEN @ + 1 ELSE @]]
  BY <1>1 DEF Older
<1>3. ASSUME NEW i \in 1..Len(q)
      PROVE  r[i] \in Beats /\ r[i].age = IF q[i].age < Lag THEN q[i].age + 1 ELSE q[i].age
  <2>1. q[i] \in Beats /\ Lag \in Nat BY <1>1, KeepAliveAssumption
  <2>2. r[i] = [q[i] EXCEPT !.age = IF @ < Lag THEN @ + 1 ELSE @] BY <1>2
  <2> HIDE DEF r
  <2> QED BY <2>1, <2>2 DEF Beats
<1>4. r \in [1..Len(q) -> Beats] BY <1>2, <1>3
<1> HIDE DEF r
<1>5. r \in Seq(Beats) /\ Len(r) = Len(q) BY <1>1, <1>4, LenProperties
<1>6. r = <<>> <=> q = <<>> BY <1>5, EmptySeq
<1>7. ASSUME q # <<>> PROVE Head(r).age = IF Head(q).age < Lag THEN Head(q).age + 1 ELSE Head(q).age
  <2>1. 1 \in 1..Len(q) /\ Head(q) = q[1] /\ Head(r) = r[1]
    BY <1>1, <1>5, <1>6, <1>7, HeadTailProperties, EmptySeq
  <2> QED BY <1>3, <2>1
<1> QED BY <1>5, <1>6, <1>7 DEF r

LEMMA KaInitShape == KeepAliveInit => KaShape
<1>1. <<>> \in Seq(Beats) OBVIOUS
<1> SUFFICES ASSUME KeepAliveInit PROVE KaShape OBVIOUS
<1>2. kaWire \in [Sides -> Seq(Beats)] BY <1>1 DEF KeepAliveInit
<1>3. kaHeard \in [Sides -> Nat] /\ kaWrote \in [Sides -> Nat] /\ kaTimer \in Nat /\ kaHeld \in Nat
  BY DEF KeepAliveInit
<1>4. kaLong \in BOOLEAN /\ kaSleep \in Sleeps BY DEF KeepAliveInit, Sleeps
<1> QED BY <1>2, <1>3, <1>4 DEF KeepAliveInit, KaShape

LEMMA WriteTyped ==
  ASSUME KaShape, NEW s \in Sides, NEW beat \in BOOLEAN, Write(s, beat)
  PROVE  kaWire' \in [Sides -> Seq(Beats)] /\ kaWrote' \in [Sides -> Nat]
BY WireSent DEF KaShape, Write

LEMMA CloseTyped ==
  ASSUME KaShape, NEW s \in Sides, Close(s)
  PROVE  kaWire' \in [Sides -> Seq(Beats)] /\ kaOpen' \subseteq Sides
BY EmptySeq DEF KaShape, Close

LEMMA ReceiveTyped ==
  ASSUME KaShape, NEW s \in Sides, Receive(s)
  PROVE  kaWire' \in [Sides -> Seq(Beats)]
<1> DEFINE rest == [kaWire EXCEPT ![s] = Tail(@)]
<1>1. kaWire[s] \in Seq(Beats) /\ kaWire[s] # <<>> BY DEF Receive, KaShape
<1>2. Tail(kaWire[s]) \in Seq(Beats) BY <1>1, HeadTailProperties
<1>3. rest \in [Sides -> Seq(Beats)] BY <1>2 DEF KaShape
<1>4. kaWire' = rest \/ kaWire' = Sent(s, rest, TRUE) BY DEF Receive
<1> HIDE DEF rest
<1> QED BY <1>3, <1>4, WireSent

LEMMA SleepTyped == ASSUME KaShape PROVE NextSleep \in Sleeps /\ Ticks(NextSleep) \in Nat
<1>1. NextSleep \in Sleeps BY DEF KaShape, Sleeps, NextSleep
<1> QED BY <1>1, Timing

LEMMA TickTyped == ASSUME KaShape, Tick PROVE KaShape'
<1>1. \A s \in Sides : Older(kaWire[s]) \in Seq(Beats) BY MessagesAge DEF KaShape
<1>2. kaWire' \in [Sides -> Seq(Beats)] BY <1>1 DEF Tick
<1>3. kaHeard' \in [Sides -> Nat] /\ kaWrote' \in [Sides -> Nat] BY SMTT(60) DEF Tick, KaShape
<1>4. kaTimer' \in Nat /\ kaHeld' \in Nat /\ kaSilent' \in Nat \cup {Passing}
  BY DEF Tick, KaShape
<1> QED BY <1>2, <1>3, <1>4 DEF Tick, KaShape

LEMMA KaStepShape == KaShape /\ [KeepAliveNext]_kaVars => KaShape'
<1> SUFFICES ASSUME KaShape, [KeepAliveNext]_kaVars PROVE KaShape' OBVIOUS
<1>1. ASSUME NEW s \in Sides, Chat(s) \/ WriteIdle(s) PROVE KaShape'
  <2>1. PICK beat \in BOOLEAN : Write(s, beat) BY <1>1 DEF Chat, WriteIdle
  <2> QED BY <1>1, <2>1, WriteTyped DEF Chat, WriteIdle, kaWaits, KaShape
<1>2. ASSUME NEW s \in Sides, Receive(s) PROVE KaShape'
  <2>1. kaHeard' \in [Sides -> Nat] /\ kaWrote' \in [Sides -> Nat]
    <3>1. kaHeard' \in [Sides -> Nat] BY <1>2 DEF Receive, KaShape
    <3>2. UNCHANGED kaWrote \/ kaWrote' = [kaWrote EXCEPT ![s] = 0] BY <1>2 DEF Receive
    <3>3. kaWrote \in [Sides -> Nat] BY DEF KaShape
    <3>4. kaWrote' \in [Sides -> Nat] BY <3>2, <3>3
    <3> QED BY <3>1, <3>4
  <2>2. UNCHANGED <<kaClient, kaOpen, kaTimer, kaSilent, kaHeld, kaSleep, kaLong>>
    BY <1>2 DEF Receive, kaWaits
  <2> QED BY <1>2, <2>1, <2>2, ReceiveTyped DEF KaShape
<1>3. ASSUME NEW s \in Sides, ReadIdle(s) \/ PeerClosed(s) PROVE KaShape'
  BY <1>3, CloseTyped DEF ReadIdle, PeerClosed, kaWaits, KaShape
<1>4. CASE GoHeartbeat
  <2>0. "client" \in Sides BY DEF Sides
  <2>1. kaTimer' = 0 /\ UNCHANGED <<kaClient, kaHeard, kaSilent, kaHeld, kaSleep, kaLong>>
    BY <1>4 DEF GoHeartbeat, kaWaits
  <2>2. CASE Close("client") /\ UNCHANGED kaWrote
    BY <2>0, <2>1, <2>2, CloseTyped DEF KaShape
  <2>3. CASE Write("client", TRUE) /\ UNCHANGED kaOpen
    BY <2>0, <2>1, <2>3, WriteTyped DEF KaShape
  <2> QED BY <1>4, <2>2, <2>3 DEF GoHeartbeat
<1>5. CASE FallSilent BY <1>5, EmptySeq DEF FallSilent, kaWaits, KaShape
<1>6. CASE Reconnected BY <1>6 DEF Reconnected, KaShape, Sleeps
<1>7. ASSUME NEW here \in BOOLEAN, ReconnectWait(here) PROVE KaShape'
  BY <1>7, SleepTyped DEF ReconnectWait, KaShape
<1>8. CASE UNCHANGED kaVars BY <1>8 DEF kaVars, KaShape
<1> QED BY <1>1, <1>2, <1>3, <1>4, <1>5, <1>6, <1>7, <1>8, TickTyped DEF KeepAliveNext
------------------------------------------------------------------------------
(* Silence: nothing is on the way, and an open end has heard nothing since *)
(* the network fell silent; how long an open end may hear nothing depends  *)
(* on the wait that holds its loop, or on the timer that looks.            *)
HeardLast ==
  /\ kaHeld <= LongestWait /\ kaTimer <= HeartbeatInterval
  /\ "server" \in kaOpen => kaHeard["server"] <= ReadIdleTime
  /\ "client" \in kaOpen =>
       IF kaClient = "java" THEN kaHeard["client"] + kaHeld <= ReadIdleTime + LongestWait
                            ELSE kaHeard["client"] + 1 <= kaTimer + 2 * HeartbeatInterval

NothingHeard == kaSilent # Passing =>
  \A s \in Sides : kaWire[s] = <<>> /\ (s \in kaOpen => kaSilent <= kaHeard[s])

SilenceInv == KaShape /\ HeardLast /\ NothingHeard

LEMMA InitSilence == KeepAliveInit => SilenceInv
<1> SUFFICES ASSUME KeepAliveInit PROVE SilenceInv OBVIOUS
<1>1. KaShape BY KaInitShape
<1>2. HeardLast BY Timing DEF KeepAliveInit, HeardLast, Sides
<1>3. NothingHeard BY DEF KeepAliveInit, NothingHeard
<1> QED BY <1>1, <1>2, <1>3 DEF SilenceInv

LEMMA WriteKeepsSilence ==
  ASSUME SilenceInv, NEW s \in Sides, NEW beat \in BOOLEAN, Write(s, beat),
         UNCHANGED <<kaClient, kaOpen, kaHeard, kaSilent, kaHeld>>,
         UNCHANGED kaTimer \/ (kaTimer' = 0 /\ kaHeard["client"] < 2 * HeartbeatInterval)
  PROVE  HeardLast' /\ NothingHeard'
<1>1. kaSilent # Passing => kaWire' = kaWire BY DEF Write, Sent
<1>2. NothingHeard' BY <1>1 DEF SilenceInv, NothingHeard
<1>3. HeardLast' BY Timing DEF SilenceInv, HeardLast, KaShape, Sides
<1> QED BY <1>2, <1>3

LEMMA CloseKeepsSilence ==
  ASSUME SilenceInv, NEW s \in Sides, Close(s),
         UNCHANGED <<kaClient, kaHeard, kaSilent, kaHeld>>, kaTimer' \in {kaTimer, 0},
         s # "client" => UNCHANGED kaTimer
  PROVE  HeardLast' /\ NothingHeard'
<1>1. NothingHeard' BY DEF SilenceInv, NothingHeard, KaShape, Close
<1>2. HeardLast' BY Timing DEF SilenceInv, HeardLast, Close
<1> QED BY <1>1, <1>2

LEMMA ReceiveKeepsSilence ==
  ASSUME SilenceInv, NEW s \in Sides, Receive(s)
  PROVE  HeardLast' /\ NothingHeard'
<1>1. kaSilent = Passing /\ UNCHANGED <<kaClient, kaOpen, kaSilent, kaHeld, kaTimer>>
  BY DEF SilenceInv, NothingHeard, Receive, kaWaits
<1>2. kaHeard'[s] = 0 /\ \A r \in Sides : r # s => kaHeard'[r] = kaHeard[r]
  BY DEF Receive, SilenceInv, KaShape
<1>3. "client" \in Sides /\ "server" \in Sides BY DEF Sides
<1>4. HeardLast'
  <2>1. kaHeard \in [Sides -> Nat] /\ kaTimer \in Nat /\ kaHeld \in Nat /\ s = "client" => kaHeld = 0
    BY DEF SilenceInv, KaShape, Receive, Runs
  <2>2. kaHeard'["server"] \in {0, kaHeard["server"]} BY <1>2, <1>3
  <2>3. kaHeard'["client"] = kaHeard["client"] \/ (kaHeard'["client"] = 0 /\ kaHeld <= LongestWait)
    BY <1>2, <1>3 DEF SilenceInv, HeardLast
  <2>4. "server" \in kaOpen => kaHeard'["server"] <= ReadIdleTime
    BY <2>2, Timing DEF SilenceInv, HeardLast
  <2>5. kaClient = "java" /\ "client" \in kaOpen =>
          kaHeard'["client"] + kaHeld <= ReadIdleTime + LongestWait
    BY <1>3, <2>1, <2>3, Timing DEF SilenceInv, HeardLast, KaShape
  <2>6. kaClient # "java" /\ "client" \in kaOpen =>
          kaHeard'["client"] + 1 <= kaTimer + 2 * HeartbeatInterval
    BY <1>3, <2>1, <2>3, Timing DEF SilenceInv, HeardLast, KaShape
  <2> QED BY <1>1, <2>4, <2>5, <2>6 DEF SilenceInv, HeardLast
<1>5. NothingHeard' BY <1>1 DEF NothingHeard
<1> QED BY <1>4, <1>5

LEMMA WaitKeepsSilence ==
  ASSUME SilenceInv, NEW here \in BOOLEAN, ReconnectWait(here)
  PROVE  HeardLast' /\ NothingHeard'
<1>1. UNCHANGED <<kaClient, kaOpen, kaHeard, kaTimer, kaWire, kaSilent>> /\ kaClient = "java"
  BY DEF ReconnectWait
<1>2. kaHeld' <= LongestWait /\ kaHeld' \in Nat /\ (kaHeld' = kaHeld \/ kaHeld' <= LongestWait)
  BY SleepTyped, Timing DEF ReconnectWait, SilenceInv, KaShape, HeardLast
<1>3. "client" \in kaOpen => kaHeard["client"] < ReadIdleTime
  BY Timing DEF ReconnectWait, Overdue, ReadIdleDue, Runs, Netty, SilenceInv, KaShape, Sides
<1>4. HeardLast' BY <1>1, <1>2, <1>3, Timing DEF SilenceInv, HeardLast, KaShape, Sides
<1>5. NothingHeard' BY <1>1 DEF SilenceInv, NothingHeard
<1> QED BY <1>4, <1>5

LEMMA TickKeepsSilence ==
  ASSUME SilenceInv, Tick
  PROVE  HeardLast' /\ NothingHeard'
<1>0. "client" \in Sides /\ "server" \in Sides BY DEF Sides
<1>1. \A s \in kaOpen : kaHeard'[s] = kaHeard[s] + 1 /\ kaHeard[s] \in Nat
  BY DEF Tick, SilenceInv, KaShape
<1>2. UNCHANGED <<kaClient, kaOpen>> BY DEF Tick
<1>3. "server" \in kaOpen => kaHeard["server"] < ReadIdleTime
  BY <1>0, Timing, SMTT(60) DEF Tick, Overdue, ReadIdleDue, Runs, Netty, SilenceInv, KaShape
<1>4. "client" \in kaOpen /\ kaClient = "java" /\ kaHeld = 0 => kaHeard["client"] < ReadIdleTime
  BY <1>0, Timing DEF Tick, Overdue, ReadIdleDue, Runs, Netty, SilenceInv, KaShape
<1>5. kaHeld' = IF kaHeld > 0 THEN kaHeld - 1 ELSE 0 BY DEF Tick
<1>6. /\ kaTimer' = IF kaClient = "go" /\ "client" \in kaOpen THEN kaTimer + 1 ELSE 0
      /\ kaClient = "go" /\ "client" \in kaOpen => kaTimer < HeartbeatInterval
  BY Timing DEF Tick, GoTimerDue, SilenceInv, KaShape
<1>7. HeardLast'
  <2>1. kaHeld' <= LongestWait /\ kaTimer' <= HeartbeatInterval
    BY <1>5, <1>6, Timing DEF SilenceInv, HeardLast, KaShape
  <2>2. "server" \in kaOpen' => kaHeard'["server"] <= ReadIdleTime
    BY <1>1, <1>2, <1>3, Timing
  <2>3. ASSUME "client" \in kaOpen, kaClient = "java"
        PROVE  kaHeard'["client"] + kaHeld' <= ReadIdleTime + LongestWait
    BY <1>1, <1>4, <1>5, <2>3, Timing DEF SilenceInv, HeardLast, KaShape
  <2>4. ASSUME "client" \in kaOpen, kaClient # "java"
        PROVE  kaHeard'["client"] + 1 <= kaTimer' + 2 * HeartbeatInterval
    BY <1>1, <1>6, <2>4, Timing DEF SilenceInv, HeardLast, KaShape
  <2> QED BY <1>2, <2>1, <2>2, <2>3, <2>4 DEF HeardLast
<1>8. NothingHeard'
  <2> SUFFICES ASSUME kaSilent' # Passing, NEW s \in Sides
               PROVE  kaWire'[s] = <<>> /\ (s \in kaOpen' => kaSilent' <= kaHeard'[s])
    BY DEF NothingHeard
  <2>1. kaSilent \in Nat /\ kaSilent' = kaSilent + 1 BY DEF Tick, SilenceInv, KaShape
  <2>2. kaWire[s] = <<>> /\ (s \in kaOpen => kaSilent <= kaHeard[s])
    BY <2>1 DEF SilenceInv, NothingHeard, Passing
  <2>3. kaWire'[s] = Older(kaWire[s]) BY DEF Tick
  <2>4. kaWire'[s] = <<>> BY <2>2, <2>3, MessagesAge DEF SilenceInv, KaShape
  <2> QED BY <1>1, <1>2, <2>1, <2>2, <2>4
<1> QED BY <1>7, <1>8

LEMMA StepSilence == SilenceInv /\ [KeepAliveNext]_kaVars => SilenceInv'
<1> SUFFICES ASSUME SilenceInv, [KeepAliveNext]_kaVars PROVE HeardLast' /\ NothingHeard'
  BY KaStepShape DEF SilenceInv
<1>1. ASSUME NEW s \in Sides, Chat(s) \/ WriteIdle(s) PROVE HeardLast' /\ NothingHeard'
  <2>1. PICK beat \in BOOLEAN : Write(s, beat) BY <1>1 DEF Chat, WriteIdle
  <2> QED BY <1>1, <2>1, WriteKeepsSilence DEF Chat, WriteIdle, kaWaits
<1>2. ASSUME NEW s \in Sides, ReadIdle(s) \/ PeerClosed(s) PROVE HeardLast' /\ NothingHeard'
  BY <1>2, CloseKeepsSilence DEF ReadIdle, PeerClosed, kaWaits
<1>3. CASE GoHeartbeat
  <2>0. "client" \in Sides BY DEF Sides
  <2>1. kaTimer' = 0 /\ UNCHANGED <<kaClient, kaHeard, kaSilent, kaHeld>>
    BY <1>3 DEF GoHeartbeat, kaWaits
  <2>2. CASE Close("client") BY <2>0, <2>1, <2>2, CloseKeepsSilence
  <2>3. CASE ~(kaHeard["client"] >= 2 * HeartbeatInterval) /\ Write("client", TRUE) /\ UNCHANGED kaOpen
    <3>1. kaHeard["client"] < 2 * HeartbeatInterval
      BY <2>0, <2>3, Timing DEF SilenceInv, KaShape
    <3> QED BY <2>0, <2>1, <2>3, <3>1, WriteKeepsSilence
  <2> QED BY <1>3, <2>2, <2>3 DEF GoHeartbeat
<1>4. CASE FallSilent
  BY <1>4 DEF FallSilent, kaWaits, SilenceInv, HeardLast, NothingHeard, KaShape
<1>5. CASE Reconnected BY <1>5 DEF Reconnected, SilenceInv, HeardLast, NothingHeard
<1>6. CASE UNCHANGED kaVars BY <1>6 DEF kaVars, SilenceInv, HeardLast, NothingHeard
<1> QED BY <1>1, <1>2, <1>3, <1>4, <1>5, <1>6, ReceiveKeepsSilence, WaitKeepsSilence,
           TickKeepsSilence DEF KeepAliveNext

(* SilenceDetected, whatever the two ends go on writing into the silence,  *)
(* and however long another connection holds the event loop: for every     *)
(* Unit, Lag and traffic.                                                  *)
THEOREM SilenceIsDetected == KeepAliveSpec => []SilenceDetected
<1>1. SilenceInv => SilenceDetected
  <2> SUFFICES ASSUME SilenceInv, kaSilent > DetectedAfter, NEW s \in kaOpen PROVE FALSE
    BY DEF SilenceDetected
  <2>1. /\ DetectedAfter = IF kaClient = "go" THEN ReadIdleTime + HeartbeatInterval
                           ELSE ReadIdleTime + LongestWait
        /\ DetectedAfter \in Nat
    BY Timing DEF DetectedAfter, LongestWait
  <2>2. kaSilent \in Nat /\ s \in Sides BY <2>1 DEF SilenceInv, KaShape, Passing
  <2>3. kaSilent <= kaHeard[s] /\ kaHeard[s] \in Nat
    BY <2>2 DEF SilenceInv, KaShape, NothingHeard, Passing
  <2>4. kaHeard[s] <= DetectedAfter
    BY <2>1, <2>2, Timing DEF SilenceInv, HeardLast, KaShape, Sides
  <2> QED BY <2>1, <2>2, <2>3, <2>4
<1> QED BY <1>1, InitSilence, StepSilence, PTL DEF KeepAliveSpec
------------------------------------------------------------------------------
(* An idle connection: what each side last heard is not older than the     *)
(* longest pause between two writes of the other side and the way of its   *)
(* messages.  The pause of the Java client is prolonged by a wait, and so  *)
(* is the time until it reads what has arrived.  ShortWay is what the code *)
(* leaves of the minute: 60 - 40 - 8 s in ticks of a second, one tick of   *)
(* ten.  TLC finds IdleStaysUp violated one tick above it (Unit = 10, Lag  *)
(* = 2) and in ticks too coarse for it (Unit = 15, Lag = 1).               *)
ShortWay == \E d \in Nat \ {0} : /\ Lag <= d
                                 /\ ServerWriteIdle + ShortWait + d <= ReadIdleTime

Pauses ==
  /\ kaHeld <= ShortWait /\ kaWrote["server"] <= ServerWriteIdle
  /\ IF kaClient = "java" THEN kaWrote["client"] + kaHeld + 1 <= HeartbeatInterval + ShortWait
                          ELSE kaHeld = 0 /\ kaWrote["client"] <= kaTimer

ServerHears ==
  IF kaWire["server"] = <<>> THEN kaHeard["server"] <= kaWrote["client"]
  ELSE kaHeard["server"] + 1 <= HeartbeatInterval + ShortWait + Oldest("server")

ClientHears ==
  /\ IF kaWire["client"] = <<>> THEN kaHeard["client"] <= kaWrote["server"]
     ELSE Oldest("client") >= Lag \/ kaHeard["client"] <= ServerWriteIdle + Oldest("client")
  /\ kaHeard["client"] + kaHeld < ReadIdleTime

Passes == kaSilent = Passing /\ ~kaLong

IdleInv == Passes => kaOpen = Sides /\ Pauses /\ ServerHears /\ ClientHears

LEMMA OldestAge == ASSUME KaShape PROVE \A s \in Sides : kaWire[s] # <<>> => Oldest(s) \in 0..Lag
<1> SUFFICES ASSUME NEW s \in Sides, kaWire[s] # <<>> PROVE Oldest(s) \in 0..Lag OBVIOUS
<1>1. kaWire[s] \in Seq(Beats) BY DEF KaShape
<1>2. Head(kaWire[s]) \in Beats BY <1>1, HeadTailProperties
<1> QED BY <1>2 DEF Oldest, Beats

LEMMA InitIdle == ASSUME ShortWay, KeepAliveInit PROVE IdleInv
<1>1. kaOpen = Sides /\ kaHeld = 0
      /\ \A s \in Sides : kaHeard[s] = 0 /\ kaWrote[s] = 0 /\ kaWire[s] = <<>>
  BY DEF KeepAliveInit
<1>2. "client" \in Sides /\ "server" \in Sides /\ kaTimer = 0 BY DEF Sides, KeepAliveInit
<1>3. Pauses /\ ServerHears BY <1>1, <1>2, Timing DEF Pauses, ServerHears
<1>4. ClientHears BY <1>1, <1>2, Timing DEF ClientHears, ShortWay
<1> QED BY <1>1, <1>3, <1>4 DEF IdleInv

(* While an idle connection passes messages, no end of it is closed.       *)
LEMMA NothingCloses ==
  ASSUME ShortWay, SilenceInv, IdleInv, Passes
  PROVE  /\ \A s \in Sides : ~ReadIdle(s) /\ ~PeerClosed(s)
         /\ GoTimerDue => kaHeard["client"] < 2 * HeartbeatInterval
<1>0. "client" \in Sides /\ "server" \in Sides BY DEF Sides
<1>1. KaShape /\ kaOpen = Sides /\ Pauses /\ ServerHears /\ ClientHears
  BY DEF IdleInv, SilenceInv
<1>2. PICK d \in Nat \ {0} : Lag <= d /\ ServerWriteIdle + ShortWait + d <= ReadIdleTime
  BY DEF ShortWay
<1>3. kaHeard["client"] < ReadIdleTime BY <1>0, <1>1, Timing DEF ClientHears, KaShape
<1>4. kaHeard["server"] < ReadIdleTime
  <2>1. kaHeard["server"] \in Nat /\ kaWrote["client"] \in Nat /\ kaHeld \in Nat /\ Lag \in Nat
    BY <1>0, <1>1, KeepAliveAssumption DEF KaShape
  <2>2. CASE kaWire["server"] = <<>>
    <3>1. kaHeard["server"] <= kaWrote["client"] BY <1>1, <2>2 DEF ServerHears
    <3>2. kaWrote["client"] + 1 <= HeartbeatInterval + ShortWait
      BY <1>1, <2>1, Timing, SMTT(60) DEF Pauses, SilenceInv, HeardLast, KaShape
    <3> QED BY <1>2, <2>1, <3>1, <3>2, Timing
  <2>3. CASE kaWire["server"] # <<>>
    <3>1. kaHeard["server"] + 1 <= HeartbeatInterval + ShortWait + Oldest("server")
      BY <1>1, <2>3 DEF ServerHears
    <3>2. Oldest("server") \in 0..Lag BY <1>0, <1>1, <2>3, OldestAge
    <3> QED BY <1>2, <2>1, <3>1, <3>2, Timing
  <2> QED BY <2>2, <2>3
<1>5. \A s \in Sides : ~ReadIdle(s)
  BY <1>0, <1>1, <1>3, <1>4, Timing DEF ReadIdle, ReadIdleDue, KaShape, Sides
<1>6. \A s \in Sides : ~PeerClosed(s) BY <1>1 DEF PeerClosed, SeesEnd, Peer, Sides
<1> QED BY <1>0, <1>1, <1>3, <1>5, <1>6, Timing DEF KaShape

LEMMA WriteKeepsIdle ==
  ASSUME SilenceInv, IdleInv, Passes, NEW s \in Sides, NEW beat \in BOOLEAN, Write(s, beat),
         UNCHANGED <<kaClient, kaOpen, kaHeard, kaHeld>>, kaTimer' = kaTimer \/ (kaTimer' = 0 /\ s = "client")
  PROVE  IdleInv'
<1>0. "client" \in Sides /\ "server" \in Sides BY DEF Sides
<1>1. KaShape /\ kaOpen = Sides /\ Pauses /\ ServerHears /\ ClientHears /\ kaSilent = Passing
  BY DEF IdleInv, SilenceInv, Passes
<1>2. /\ kaWire'[s] = kaWire[s] /\ kaWire'[Peer(s)] # <<>>
      /\ kaWire[Peer(s)] = <<>> => Oldest(Peer(s))' = 0
      /\ kaWire[Peer(s)] # <<>> => Oldest(Peer(s))' = Oldest(Peer(s))
  <2>1. Peer(s) \in kaOpen BY <1>1 DEF Peer, Sides
  <2>2. kaWire \in [Sides -> Seq(Beats)] /\ kaWire' = Sent(s, kaWire, beat)
    BY <1>1 DEF KaShape, Write
  <2>3. ASSUME NEW w \in [Sides -> Seq(Beats)], NEW r, r = Sent(s, w, beat)
        PROVE  /\ r[s] = w[s] /\ r[Peer(s)] # <<>>
               /\ w[Peer(s)] = <<>> => Head(r[Peer(s)]).age = 0
               /\ w[Peer(s)] # <<>> => Head(r[Peer(s)]) = Head(w[Peer(s)])
    BY <1>1, <2>1, <2>3, WireSent
  <2> QED BY <2>2, <2>3 DEF Oldest
<1>3. kaWrote'[s] = 0 /\ \A r \in Sides : r # s => kaWrote'[r] = kaWrote[r]
  BY <1>1 DEF Write, KaShape
<1>4. /\ kaWrote["client"] \in Nat /\ kaHeld \in Nat /\ kaWrote["client"] + 1 <= HeartbeatInterval + ShortWait
      /\ kaHeard["client"] \in Nat /\ kaHeard["server"] \in Nat /\ kaWrote["server"] \in Nat
      /\ kaTimer \in Nat /\ Lag \in Nat
  <2>1. /\ kaWrote["client"] \in Nat /\ kaHeld \in Nat /\ kaTimer \in Nat /\ Lag \in Nat
        /\ kaHeard["client"] \in Nat /\ kaHeard["server"] \in Nat /\ kaWrote["server"] \in Nat
    BY <1>0, <1>1, KeepAliveAssumption DEF KaShape
  <2>2. kaWrote["client"] + 1 <= HeartbeatInterval + ShortWait
    BY <1>1, <2>1, Timing DEF Pauses, SilenceInv, HeardLast
  <2> QED BY <2>1, <2>2
<1>5. CASE s = "client"
  <2>1. Peer(s) = "server" BY <1>5 DEF Peer
  <2>2. Pauses' BY <1>0, <1>1, <1>3, <1>4, <1>5, Timing DEF Pauses
  <2>3. ServerHears' BY <1>1, <1>2, <1>4, <2>1, Timing DEF ServerHears
  <2>4. ClientHears' BY <1>0, <1>1, <1>2, <1>3, <1>5 DEF ClientHears, Oldest
  <2> QED BY <1>1, <2>2, <2>3, <2>4 DEF IdleInv
<1>6. CASE s = "server"
  <2>1. Peer(s) = "client" BY <1>6 DEF Peer
  <2>2. Pauses' BY <1>0, <1>1, <1>3, <1>4, <1>6, Timing DEF Pauses
  <2>3. ServerHears' BY <1>0, <1>1, <1>2, <1>3, <1>6 DEF ServerHears, Oldest
  <2>4. ClientHears' BY <1>1, <1>2, <1>4, <2>1, Timing DEF ClientHears, Pauses
  <2> QED BY <1>1, <2>2, <2>3, <2>4 DEF IdleInv
<1> QED BY <1>5, <1>6 DEF Sides

LEMMA ReceiveKeepsIdle ==
  ASSUME ShortWay, SilenceInv, IdleInv, Passes, NEW s \in Sides, Receive(s)
  PROVE  IdleInv'
<1> DEFINE rest == [kaWire EXCEPT ![s] = Tail(@)]
<1>0. /\ "client" \in Sides /\ "server" \in Sides /\ Peer(s) \in Sides /\ Peer(s) # s
      /\ ReadIdleTime > 0
  BY Timing DEF Sides, Peer, ShortWay
<1>1. KaShape /\ kaOpen = Sides /\ Pauses /\ ServerHears /\ ClientHears /\ kaSilent = Passing
  BY DEF IdleInv, SilenceInv, Passes
<1>2. /\ UNCHANGED <<kaClient, kaOpen, kaTimer, kaHeld>> /\ kaWire[s] # <<>>
      /\ kaHeard'[s] = 0 /\ \A r \in Sides : r # s => kaHeard'[r] = kaHeard[r]
      /\ s = "client" => kaHeld = 0
      /\ kaWrote'["client"] = kaWrote["client"]
      /\ kaWrote'["server"] \in {0, kaWrote["server"]}
  BY <1>0, <1>1 DEF Receive, Runs, kaWaits, KaShape
<1>3. rest \in [Sides -> Seq(Beats)] /\ rest[Peer(s)] = kaWire[Peer(s)]
  <2>1. kaWire[s] \in Seq(Beats) BY <1>1 DEF KaShape
  <2>2. Tail(kaWire[s]) \in Seq(Beats) BY <1>2, <2>1, HeadTailProperties
  <2> QED BY <1>0, <1>1, <2>2 DEF KaShape
<1>4. \/ kaWire' = rest /\ UNCHANGED kaWrote
      \/ kaWire' = Sent(s, rest, TRUE) /\ s = "server" /\ kaWrote'["server"] = 0
  BY <1>0, <1>1 DEF Receive, KaShape
<1> HIDE DEF rest
<1>5. KaShape' BY KaStepShape DEF SilenceInv, KeepAliveNext
<1>6. /\ kaWrote["client"] \in Nat /\ kaWrote["server"] \in Nat /\ kaHeld \in Nat
      /\ kaHeard["client"] \in Nat /\ kaHeard["server"] \in Nat /\ Lag \in Nat
      /\ \A r \in Sides : kaWire'[r] # <<>> => Oldest(r)' \in 0..Lag
      /\ \A r \in Sides : kaWire[r] # <<>> => Oldest(r) \in 0..Lag
  <2>1. ASSUME NEW q \in Seq(Beats), q # <<>> PROVE Head(q).age \in 0..Lag
    <3>1. Head(q) \in Beats BY <2>1, HeadTailProperties
    <3> QED BY <3>1 DEF Beats
  <2>2. \A r \in Sides : kaWire'[r] \in Seq(Beats) BY <1>5 DEF KaShape
  <2>3. \A r \in Sides : kaWire'[r] # <<>> => Oldest(r)' \in 0..Lag BY <2>1, <2>2 DEF Oldest
  <2> QED BY <1>0, <1>1, <2>3, OldestAge, KeepAliveAssumption DEF KaShape
<1>7. Pauses' BY <1>1, <1>2, <1>6, Timing DEF Pauses
<1>8. CASE s = "server"
  <2>1. Peer(s) = "client" BY <1>8 DEF Peer
  <2>2. ServerHears' BY <1>0, <1>2, <1>6, <1>8, Timing, SMTT(60) DEF ServerHears
  <2>3. CASE kaWire' = rest /\ UNCHANGED kaWrote
    <3>1. kaWire'["client"] = kaWire["client"] BY <1>3, <2>1, <2>3
    <3> QED BY <1>0, <1>1, <1>2, <1>7, <1>8, <2>2, <2>3, <3>1 DEF ClientHears, Oldest, IdleInv
  <2>4. CASE kaWire' = Sent(s, rest, TRUE) /\ kaWrote'["server"] = 0
    <3>1. "client" \in kaOpen BY <1>0, <1>1
    <3>2. ASSUME NEW w \in [Sides -> Seq(Beats)], NEW beat \in BOOLEAN, NEW r, r = Sent(s, w, beat)
          PROVE  /\ r[Peer(s)] # <<>>
                 /\ w[Peer(s)] = <<>> => Head(r[Peer(s)]).age = 0
                 /\ w[Peer(s)] # <<>> => Head(r[Peer(s)]) = Head(w[Peer(s)])
      BY <1>1, <2>1, <3>1, <3>2, WireSent
    <3>3. /\ kaWire'["client"] # <<>>
          /\ kaWire["client"] = <<>> => Oldest("client")' = 0
          /\ kaWire["client"] # <<>> => Oldest("client")' = Oldest("client")
      BY <1>3, <2>1, <2>4, <3>2, TRUE \in BOOLEAN DEF Oldest
    <3>4. kaHeard'["client"] = kaHeard["client"] BY <1>0, <1>2, <1>8
    <3>5. ClientHears' BY <1>1, <1>2, <1>6, <3>3, <3>4, Timing DEF ClientHears, Pauses
    <3> QED BY <1>1, <1>2, <1>7, <2>2, <3>5 DEF IdleInv
  <2> QED BY <1>4, <2>3, <2>4
<1>9. CASE s = "client"
  <2>1. kaWire' = rest /\ UNCHANGED kaWrote /\ Peer(s) = "server" BY <1>4, <1>9 DEF Peer
  <2>2. kaWire'["server"] = kaWire["server"] BY <1>3, <2>1
  <2>3. ServerHears' BY <1>0, <1>1, <1>2, <1>9, <2>1, <2>2 DEF ServerHears, Oldest
  <2>4. ClientHears' BY <1>0, <1>2, <1>6, <1>9, <2>1, Timing DEF ClientHears
  <2> QED BY <1>1, <1>2, <1>7, <2>3, <2>4 DEF IdleInv
<1> QED BY <1>8, <1>9 DEF Sides

(* An end that has nothing overdue.                                        *)
LEMMA NotOverdue ==
  ASSUME KaShape, kaOpen = Sides, NEW s \in Sides, s = "client" => kaHeld = 0, ~Overdue(s)
  PROVE  /\ s = "server" => kaWrote[s] < ServerWriteIdle
         /\ s = "client" /\ kaClient = "java" => kaWrote[s] < HeartbeatInterval
         /\ kaWire[s] # <<>> => Oldest(s) < Lag
<1>1. Runs(s) BY DEF Runs
<1>2. kaWire[s] # <<>> => Oldest(s) < Lag
  BY <1>1, OldestAge, KeepAliveAssumption DEF Overdue, Oldest
<1>3. kaWrote[s] \in Nat BY DEF KaShape
<1>4. Netty(s) => kaWrote[s] < WriteIdleTime(s)
  <2>1. WriteIdleTime(s) \in Nat BY Timing DEF WriteIdleTime, ServerWriteIdle
  <2> QED BY <1>1, <1>3, <2>1 DEF Overdue, WriteIdleDue
<1> QED BY <1>2, <1>4, Timing DEF Netty, WriteIdleTime, ServerWriteIdle

LEMMA WaitKeepsIdle ==
  ASSUME ShortWay, SilenceInv, IdleInv, NEW here \in BOOLEAN, ReconnectWait(here)
  PROVE  IdleInv'
<1> SUFFICES ASSUME Passes' PROVE IdleInv' BY DEF IdleInv
<1>1. /\ UNCHANGED <<kaClient, kaOpen, kaHeard, kaWrote, kaTimer, kaWire, kaSilent>>
      /\ kaClient = "java" /\ kaHeld = 0 /\ ~Overdue("client")
  BY DEF ReconnectWait
<1>2. Passes /\ (kaHeld' = kaHeld \/ (kaHeld' = Ticks(NextSleep) /\ ~(NextSleep > LongWait)))
  <2>1. CASE here BY ZenonT(40), <2>1 DEF ReconnectWait, Passes
  <2>2. CASE ~here
    <3>1. UNCHANGED <<kaHeld, kaLong, kaSilent>> BY <2>2 DEF ReconnectWait
    <3> QED BY <3>1 DEF Passes
  <2> QED BY <2>1, <2>2
<1>3. kaHeld' \in Nat /\ kaHeld' <= ShortWait
  BY <1>1, <1>2, SleepTyped, Timing DEF SilenceInv
<1>4. KaShape /\ kaOpen = Sides /\ Pauses /\ ServerHears /\ ClientHears /\ "client" \in Sides
  BY <1>2 DEF IdleInv, SilenceInv, Sides
<1>5. /\ kaWrote["client"] < HeartbeatInterval
      /\ kaWire["client"] # <<>> => Oldest("client") < Lag
  BY <1>1, <1>4, NotOverdue
<1>6. /\ kaWrote["client"] \in Nat /\ kaWrote["server"] \in Nat /\ kaHeard["client"] \in Nat /\ Lag \in Nat
      /\ kaWire["client"] # <<>> => Oldest("client") \in 0..Lag
  BY <1>4, OldestAge, KeepAliveAssumption DEF KaShape, Sides
<1>7. PICK d \in Nat \ {0} : Lag <= d /\ ServerWriteIdle + ShortWait + d <= ReadIdleTime
  BY DEF ShortWay
<1>8. Pauses' BY <1>1, <1>3, <1>4, <1>5, <1>6, Timing DEF Pauses
<1>9. kaHeard["client"] + kaHeld' < ReadIdleTime
  <2>1. CASE kaWire["client"] = <<>>
    BY <1>3, <1>4, <1>6, <1>7, <2>1, Timing DEF ClientHears, Pauses
  <2>2. CASE kaWire["client"] # <<>>
    <3>1. kaHeard["client"] <= ServerWriteIdle + Oldest("client") /\ Oldest("client") < Lag
      BY <1>4, <1>5, <1>6, <2>2 DEF ClientHears
    <3> QED BY <1>3, <1>6, <1>7, <2>2, <3>1, Timing
  <2> QED BY <2>1, <2>2
<1>10. ServerHears' /\ ClientHears' BY <1>1, <1>4, <1>9 DEF ServerHears, ClientHears, Oldest
<1> QED BY <1>1, <1>4, <1>8, <1>10 DEF IdleInv

LEMMA TickKeepsIdle ==
  ASSUME ShortWay, SilenceInv, IdleInv, Tick
  PROVE  IdleInv'
<1> SUFFICES ASSUME Passes' PROVE IdleInv' BY DEF IdleInv
<1>0. "client" \in Sides /\ "server" \in Sides BY DEF Sides
<1>1. Passes
  BY DEF Tick, Passes, SilenceInv, KaShape, Passing
<1>2. KaShape /\ kaOpen = Sides /\ Pauses /\ ServerHears /\ ClientHears
  BY <1>1 DEF IdleInv, SilenceInv
<1>3. /\ \A s \in Sides : kaHeard'[s] = kaHeard[s] + 1 /\ kaWrote'[s] = kaWrote[s] + 1
      /\ \A s \in Sides : kaWire'[s] = Older(kaWire[s])
      /\ kaHeld' = IF kaHeld > 0 THEN kaHeld - 1 ELSE 0
      /\ kaClient = "go" => kaTimer' = kaTimer + 1
      /\ UNCHANGED <<kaClient, kaOpen>>
  BY <1>0, <1>2 DEF Tick
<1>4. \A s \in Sides :
        /\ kaWire'[s] = <<>> <=> kaWire[s] = <<>>
        /\ kaWire[s] # <<>> => Oldest(s)' = IF Oldest(s) < Lag THEN Oldest(s) + 1 ELSE Oldest(s)
  BY <1>2, <1>3, MessagesAge DEF Oldest, KaShape
<1>5. /\ \A s \in Sides : kaWrote[s] \in Nat /\ kaHeard[s] \in Nat
      /\ kaHeld \in Nat /\ Lag \in Nat /\ kaTimer \in Nat
      /\ \A s \in Sides : kaWire[s] # <<>> => Oldest(s) \in 0..Lag
  BY <1>2, OldestAge, KeepAliveAssumption DEF KaShape
<1>6. /\ kaWrote["server"] < ServerWriteIdle
      /\ kaWire["server"] # <<>> => Oldest("server") < Lag
  BY <1>0, <1>2, NotOverdue DEF Tick
<1>7. kaHeld = 0 => /\ kaClient = "java" => kaWrote["client"] < HeartbeatInterval
                    /\ kaWire["client"] # <<>> => Oldest("client") < Lag
  BY <1>0, <1>2, NotOverdue DEF Tick
<1>8. PICK d \in Nat \ {0} : Lag <= d /\ ServerWriteIdle + ShortWait + d <= ReadIdleTime
  BY DEF ShortWay
<1>9. Pauses'
  <2>1. kaHeld' <= ShortWait /\ kaWrote'["server"] <= ServerWriteIdle
    BY <1>0, <1>2, <1>3, <1>5, <1>6, Timing DEF Pauses
  <2>2. kaClient = "java" => kaWrote'["client"] + kaHeld' + 1 <= HeartbeatInterval + ShortWait
    BY <1>0, <1>2, <1>3, <1>5, <1>7, Timing DEF Pauses
  <2>3. kaClient # "java" => kaHeld' = 0 /\ kaWrote'["client"] <= kaTimer'
    BY <1>0, <1>2, <1>3, <1>5 DEF Pauses, KaShape
  <2> QED BY <1>3, <2>1, <2>2, <2>3 DEF Pauses
<1>10. ServerHears'
  <2>1. CASE kaWire["server"] = <<>>
    BY <1>0, <1>2, <1>3, <1>4, <1>5, <2>1 DEF ServerHears
  <2>2. CASE kaWire["server"] # <<>>
    <3>1. kaHeard["server"] + 1 <= HeartbeatInterval + ShortWait + Oldest("server")
      BY <1>2, <2>2 DEF ServerHears
    <3>2. kaWire'["server"] # <<>> /\ Oldest("server")' = Oldest("server") + 1
      BY <1>0, <1>4, <1>6, <2>2
    <3>3. Oldest("server") \in 0..Lag /\ kaHeard'["server"] = kaHeard["server"] + 1
          /\ kaHeard["server"] \in Nat
      BY <1>0, <1>3, <1>5, <2>2
    <3>4. kaHeard'["server"] + 1 <= HeartbeatInterval + ShortWait + Oldest("server")'
      BY <1>5, <3>1, <3>2, <3>3, Timing
    <3> QED BY <3>2, <3>4 DEF ServerHears
  <2> QED BY <2>1, <2>2
<1>11. ClientHears'
  <2>1. IF kaWire'["client"] = <<>> THEN kaHeard'["client"] <= kaWrote'["server"]
        ELSE Oldest("client")' >= Lag \/ kaHeard'["client"] <= ServerWriteIdle + Oldest("client")'
    BY <1>0, <1>2, <1>3, <1>4, <1>5, Timing DEF ClientHears
  <2>2. CASE kaHeld > 0
    BY <1>0, <1>2, <1>3, <1>5, <2>1, <2>2 DEF ClientHears
  <2>3. CASE kaHeld = 0
    <3>1. kaHeard["client"] + 1 < ReadIdleTime
      <4>1. CASE kaWire["client"] = <<>>
        BY <1>0, <1>2, <1>5, <1>6, <1>8, <4>1, Timing DEF ClientHears
      <4>2. CASE kaWire["client"] # <<>>
        <5>1. kaHeard["client"] <= ServerWriteIdle + Oldest("client") /\ Oldest("client") < Lag
          BY <1>0, <1>2, <1>5, <1>7, <2>3, <4>2 DEF ClientHears
        <5> QED BY <1>0, <1>5, <1>8, <4>2, <5>1, Timing
      <4> QED BY <4>1, <4>2
    <3> QED BY <1>0, <1>3, <2>1, <2>3, <3>1, <1>5 DEF ClientHears
  <2> QED BY <1>5, <2>2, <2>3
<1> QED BY <1>2, <1>3, <1>9, <1>10, <1>11 DEF IdleInv

(* Every step of a connection with short ways keeps the bounds.            *)
LEMMA StepIdle ==
  ASSUME ShortWay, SilenceInv, IdleInv, [KeepAliveNext]_kaVars
  PROVE  IdleInv'
<1>1. CASE UNCHANGED kaVars
  BY <1>1 DEF kaVars, IdleInv, Passes, Pauses, ServerHears, ClientHears, Oldest
<1>2. CASE Tick BY <1>2, TickKeepsIdle
<1>3. CASE \E here \in BOOLEAN : ReconnectWait(here) BY <1>3, WaitKeepsIdle
<1>4. CASE Reconnected
  BY <1>4 DEF Reconnected, IdleInv, Passes, Pauses, ServerHears, ClientHears, Oldest
<1>5. CASE FallSilent
  <2>1. kaSilent' # Passing BY <1>5 DEF FallSilent, Passing
  <2> QED BY <2>1 DEF IdleInv, Passes
<1>6. ASSUME KeepAliveNext, ~Tick, ~(\E here \in BOOLEAN : ReconnectWait(here)),
             ~Reconnected, ~FallSilent, ~Passes
      PROVE  IdleInv'
  <2>1. kaSilent' = kaSilent /\ kaLong' = kaLong
    BY <1>6, ZenonT(40) DEF KeepAliveNext, Chat, Receive, WriteIdle, ReadIdle, PeerClosed, GoHeartbeat, kaWaits
  <2>2. ~Passes' BY <1>6, <2>1 DEF Passes
  <2> QED BY <2>2 DEF IdleInv
<1>7. ASSUME Passes, NEW s \in Sides, Chat(s) \/ WriteIdle(s) PROVE IdleInv'
  <2>1. \E beat \in BOOLEAN : Write(s, beat) BY <1>7 DEF Chat, WriteIdle
  <2>2. UNCHANGED <<kaClient, kaOpen, kaHeard, kaHeld, kaTimer>>
    BY <1>7 DEF Chat, WriteIdle, kaWaits
  <2> QED BY <1>7, <2>1, <2>2, WriteKeepsIdle
<1>8. ASSUME Passes, NEW s \in Sides, Receive(s) PROVE IdleInv' BY <1>8, ReceiveKeepsIdle
<1>9. ASSUME Passes, NEW s \in Sides, ReadIdle(s) \/ PeerClosed(s) PROVE IdleInv'
  BY <1>9, NothingCloses
<1>10. ASSUME Passes, GoHeartbeat PROVE IdleInv'
  <2>1. kaHeard["client"] \in Nat /\ HeartbeatInterval \in Nat
    BY Timing DEF SilenceInv, KaShape, Sides
  <2>2. kaHeard["client"] < 2 * HeartbeatInterval BY <1>10, NothingCloses DEF GoHeartbeat
  <2>3. ~(kaHeard["client"] >= 2 * HeartbeatInterval) BY <2>1, <2>2
  <2>4. /\ Write("client", TRUE) /\ kaTimer' = 0
        /\ UNCHANGED <<kaClient, kaOpen, kaHeard, kaHeld>>
    BY <1>10, <2>3 DEF GoHeartbeat, kaWaits
  <2>5. "client" \in Sides /\ TRUE \in BOOLEAN BY DEF Sides
  <2> QED BY <1>10, <2>4, <2>5, WriteKeepsIdle
<1> QED
  BY <1>1, <1>2, <1>3, <1>4, <1>5, <1>6, <1>7, <1>8, <1>9, <1>10 DEF KeepAliveNext

(* IdleStaysUp, for both clients, every length of a tick, every traffic    *)
(* and every way of a message that the minute of the read timers leaves    *)
(* room for, beside the pause of the server and the longest harmless wait. *)
THEOREM IdleConnectionStaysUp ==
  ASSUME ShortWay PROVE KeepAliveSpec => []IdleStaysUp
<1>1. KeepAliveInit => SilenceInv /\ IdleInv BY InitSilence, InitIdle
<1>2. SilenceInv /\ IdleInv /\ [KeepAliveNext]_kaVars => (SilenceInv /\ IdleInv)'
  BY StepSilence, StepIdle
<1>3. SilenceInv /\ IdleInv => IdleStaysUp BY DEF IdleInv, IdleStaysUp, Passes
<1> QED BY <1>1, <1>2, <1>3, PTL DEF KeepAliveSpec
==============================================================================
