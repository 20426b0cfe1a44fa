------------------------------ MODULE WireProofs ------------------------------
(***************************************************************************)
(* What of an event arrives whatever the codec of its payload is: the      *)
(* names, the number and the bytes of the payload.                         *)
(***************************************************************************)
EXTENDS Wire, FrameCodecProofs

(* A buffer is a sequence of something.                                    *)
IsBuffer(s) == Len(s) \in Nat /\ s = [i \in 1..Len(s) |-> s[i]]
MembersOf(s) == {s[i] : i \in 1..Len(s)}

LEMMA BuffersAreSequences ==
  ASSUME NEW s, IsBuffer(s)
  PROVE  s \in Seq(MembersOf(s))
<1>1. \A i \in 1..Len(s) : s[i] \in MembersOf(s)
  BY DEF MembersOf
<1> QED
  BY <1>1 DEF IsBuffer

(* What Emit hands to EncodeFrame, and what Receive makes of a header.     *)
Options ==
    [type |-> FrameEvent, nsp |-> sent.nsp, event |-> sent.event,
     ackID |-> sent.ackID, payload |-> parts.buf]
Reading(h) ==
    IF ~h.ok THEN Nothing
    ELSE [k |-> "frame", type |-> h.type, nsp |-> h.nsp, event |-> h.event, ackID |-> h.ackID,
          payload |-> IF h.payload = <<>> THEN At(Nil, 0)
                      ELSE IF h.nsp = NspOf(sent) /\ h.event = sent.event
                      THEN Decode(serverDef, h.payload)
                      ELSE Panic]

(* What is on the wire is the server's definition, written; the client's   *)
(* is the server's, reread; a frame is the event, encoded; what was        *)
(* received is the frame, read.                                            *)
WireInv ==
    /\ step \in {"idle", "registered", "exported", "synced", "unsynced",
                "sent", "unsent", "received"}
    /\ step # "idle" => serverDef \in Defs
    /\ step = "exported" => wire = WriteDef(serverDef) /\ wire.ok
    /\ step = "synced" => Travels(serverDef) /\ clientDef = Reread(serverDef)
    /\ step \in {"sent", "received"} =>
          /\ sent.nsp \in Names /\ sent.event \in Names /\ sent.ackID \in AckIds
          /\ IsBuffer(parts.buf)
          /\ frame = EncodeFrame(Options)
    /\ step = "received" => received = Reading(DecodeFrameHeader(frame))

(* What the codec leaves is nothing, an error or a buffer.                 *)
LEMMA EncodedPayloads ==
  ASSUME NEW def \in Defs, NEW v \in Values, NEW code,
         Travels(def),
         code = IF v = Nil THEN NoParts ELSE Encode(Reread(def), v),
         code # Unsupported
  PROVE  IsBuffer(code.buf)
<1>1. CASE v = Nil
  <2>1. code.buf = <<>>
    BY <1>1 DEF NoParts
  <2>2. IsBuffer(<<>>)
    BY DEF IsBuffer
  <2> QED
    BY <2>1, <2>2
<1>2. CASE v # Nil
  BY <1>2, WireAssumption, Zenon DEF IsBuffer
<1> QED
  BY <1>1, <1>2

(* WireInv is inductive: every step fixes one thing, for good.             *)
THEOREM WireInvariant == Spec => []WireInv
<1>1. Init => WireInv
  BY DEF Init, WireInv
<1>2. WireInv /\ [Next]_vars => WireInv'
  <2> SUFFICES ASSUME WireInv, [Next]_vars PROVE WireInv'
    OBVIOUS
  <2>1. ASSUME NEW def \in Defs, Register(def) PROVE WireInv'
    BY <2>1 DEF WireInv, Register
  <2>2. CASE Export
    <3>1. /\ step = "registered" /\ serverDef \in Defs /\ serverDef' = serverDef
          /\ wire' = WriteDef(serverDef)
          /\ step' = IF wire'.ok THEN "exported" ELSE "unsynced"
      BY <2>2 DEF WireInv, Export
    <3> QED
      BY <3>1 DEF WireInv
  <2>3. CASE Absorb
    <3>1. /\ serverDef \in Defs /\ serverDef' = serverDef
          /\ wire = WriteDef(serverDef) /\ wire.ok
      BY <2>3 DEF WireInv, Absorb
    <3>2. CASE ReadDef(wire.codes).ok
      <4>1. step' = "synced" /\ clientDef' = ReadDef(wire.codes).def
        BY <2>3, <3>2 DEF Absorb
      <4>2. Travels(serverDef) /\ Reread(serverDef) = ReadDef(wire.codes).def
        BY <3>1, <3>2 DEF Travels, Reread
      <4>3. (Travels(serverDef) /\ clientDef = Reread(serverDef))'
        BY <3>1, <4>1, <4>2 DEF Travels, Reread
      <4> QED
        BY <3>1, <4>1, <4>3 DEF WireInv
    <3>3. CASE ~ReadDef(wire.codes).ok
      <4>1. step' = "unsynced"
        BY <2>3, <3>3 DEF Absorb
      <4> QED
        BY <3>1, <4>1 DEF WireInv
    <3> QED
      BY <3>2, <3>3
  <2>4. ASSUME NEW nsp \in Names, NEW event \in Names, NEW ackID \in AckIds, NEW v \in Values,
               Emit(nsp, event, ackID, v)
        PROVE  WireInv'
    <3>1. /\ step = "synced" /\ serverDef \in Defs
          /\ Travels(serverDef) /\ clientDef = Reread(serverDef)
          /\ serverDef' = serverDef /\ clientDef' = clientDef
          /\ parts' = IF v = Nil THEN NoParts ELSE Encode(Reread(serverDef), v)
          /\ sent' = [nsp |-> nsp, event |-> event, ackID |-> ackID, value |-> v]
      BY <2>4 DEF WireInv, Emit
    <3>2. CASE parts' = Unsupported
      <4>1. step' = "unsent"
        BY <2>4, <3>2 DEF Emit
      <4> QED
        BY <3>1, <4>1 DEF WireInv
    <3>3. CASE parts' # Unsupported
      <4>1. step' = "sent" /\ frame' = EncodeFrame(Options')
        BY <2>4, <3>1, <3>3 DEF Emit, Options
      <4>2. IsBuffer(parts'.buf)
        BY <3>1, <3>3, EncodedPayloads
      <4>3. sent'.nsp \in Names /\ sent'.event \in Names /\ sent'.ackID \in AckIds
        BY <3>1
      <4> QED
        BY <3>1, <4>1, <4>2, <4>3 DEF WireInv
    <3> QED
      BY <3>2, <3>3
  <2>5. CASE Receive
    <3>1. /\ step = "sent" /\ step' = "received"
          /\ UNCHANGED <<serverDef, wire, clientDef, sent, parts, frame>>
          /\ received' = Reading(DecodeFrameHeader(frame))
      BY <2>5, Zenon DEF Receive, Reading
    <3>2. Options' = Options /\ Reading(DecodeFrameHeader(frame))' = Reading(DecodeFrameHeader(frame))
      BY <3>1 DEF Options, Reading
    <3> QED
      BY <3>1, <3>2 DEF WireInv
  <2>6. CASE UNCHANGED vars
    <3>1. Options' = Options /\ Reading(DecodeFrameHeader(frame))' = Reading(DecodeFrameHeader(frame))
      BY <2>6 DEF vars, Options, Reading
    <3> QED
      BY <2>6, <3>1 DEF vars, WireInv
  <2> QED
    BY <2>1, <2>2, <2>3, <2>4, <2>5, <2>6 DEF Next
<1> QED
  BY <1>1, <1>2, PTL DEF Spec

(* What EncodeFrame is given are the options of a frame.                   *)
LEMMA OptionsAreTyped ==
  ASSUME WireInv, step = "received"
  PROVE  /\ Options \in FrameOptions(MembersOf(parts.buf))
         /\ NspOf(Options) = NspOf(sent) /\ (Short(Options) <=> Short(sent))
<1>1. /\ sent.nsp \in Seq(Byte) /\ sent.event \in Seq(Byte) /\ sent.ackID \in Int
      /\ FrameEvent \in Byte
  BY WireAssumption DEF WireInv, Byte
<1>2. parts.buf \in Seq(MembersOf(parts.buf))
  BY BuffersAreSequences DEF WireInv
<1>3. Options \in FrameOptions(MembersOf(parts.buf))
  BY <1>1, <1>2 DEF Options, FrameOptions
<1>4. NspOf(Options) = NspOf(sent) /\ Options.event = sent.event
  BY DEF Options, NspOf
<1> QED
  BY <1>3, <1>4 DEF Short

(* A frame arrives with the names and the number it was sent with exactly  *)
(* if its names are shorter than a byte can say (EncodeFrame in doEmit,    *)
(* DecodeFrame at the other end).                                          *)
THEOREM HeadersOfShortNamesArrive == Spec => []HeadersArrive
<1>1. WireInv => HeadersArrive
  <2> SUFFICES ASSUME WireInv, step = "received"
               PROVE  Short(sent) <=>
                        /\ received # Nothing
                        /\ received.type = FrameEvent
                        /\ received.nsp = NspOf(sent) /\ received.event = sent.event
                        /\ received.ackID = sent.ackID % Power[4]
    BY DEF HeadersArrive
  <2> DEFINE h == DecodeFrameHeader(EncodeFrame(Options))
  <2>1. received = Reading(h)
    BY DEF WireInv
  <2>2. /\ Options \in FrameOptions(MembersOf(parts.buf))
        /\ NspOf(Options) = NspOf(sent) /\ (Short(Options) <=> Short(sent))
        /\ Options.type = FrameEvent /\ Options.event = sent.event /\ Options.ackID = sent.ackID
    BY OptionsAreTyped DEF Options
  <2>3. ASSUME Short(sent)
        PROVE  /\ received # Nothing
               /\ received.type = FrameEvent
               /\ received.nsp = NspOf(sent) /\ received.event = sent.event
               /\ received.ackID = sent.ackID % Power[4]
    <3>1. h = [ok |-> TRUE, type |-> Options.type, nsp |-> NspOf(Options), event |-> Options.event,
               ackID |-> Options.ackID % Power[4], payload |-> Options.payload]
      BY <2>2, <2>3, ShortFramesArrive
    <3> HIDE DEF h
    <3>2. h.ok /\ h.type = FrameEvent /\ h.nsp = NspOf(sent) /\ h.event = sent.event
          /\ h.ackID = sent.ackID % Power[4]
      BY <2>2, <3>1
    <3> QED
      BY <2>1, <3>2 DEF Reading, Nothing
  <2>4. ASSUME ~Short(sent), received # Nothing
        PROVE  ~(received.nsp = NspOf(sent) /\ received.event = sent.event)
    <3>1. h.ok => h.nsp # NspOf(Options) \/ h.event # Options.event
      BY <2>2, <2>4, LongNamesNeverArrive
    <3> HIDE DEF h
    <3>2. h.ok /\ received.nsp = h.nsp /\ received.event = h.event
      BY <2>1, <2>4 DEF Reading
    <3> QED
      BY <2>2, <3>1, <3>2
  <2> QED
    BY <2>3, <2>4
<1> QED
  BY <1>1, WireInvariant, PTL

(* The bytes that the encoder of the payload left are those its decoder is *)
(* given: between the two nothing is lost, added or taken for a name, so   *)
(* that what a payload loses it loses in its own codec (decoder.go:61-90). *)
THEOREM PayloadBytesArrive ==
  Spec => [](step = "received" /\ Short(sent) =>
               received.payload = IF parts.buf = <<>> THEN At(Nil, 0)
                                  ELSE Decode(serverDef, parts.buf))
<1>1. ASSUME WireInv, step = "received", Short(sent)
      PROVE  received.payload = IF parts.buf = <<>> THEN At(Nil, 0)
                                ELSE Decode(serverDef, parts.buf)
  <2> DEFINE h == DecodeFrameHeader(EncodeFrame(Options))
  <2>1. received = Reading(h)
    BY <1>1 DEF WireInv
  <2>2. /\ Options \in FrameOptions(MembersOf(parts.buf))
        /\ NspOf(Options) = NspOf(sent) /\ Short(Options)
        /\ Options.event = sent.event /\ Options.payload = parts.buf
    BY <1>1, OptionsAreTyped DEF Options
  <2>3. h = [ok |-> TRUE, type |-> Options.type, nsp |-> NspOf(Options), event |-> Options.event,
             ackID |-> Options.ackID % Power[4], payload |-> Options.payload]
    BY <2>2, ShortFramesArrive
  <2> HIDE DEF h
  <2>4. h.ok /\ h.nsp = NspOf(sent) /\ h.event = sent.event /\ h.payload = parts.buf
    BY <2>2, <2>3
  <2> QED
    BY <2>1, <2>4 DEF Reading
<1> QED
  BY <1>1, WireInvariant, PTL
=============================================================================
