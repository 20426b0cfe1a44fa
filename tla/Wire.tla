--------------------------------- MODULE Wire ---------------------------------
(***************************************************************************)
(* One payload on its way through the codecs: a schema is registered on    *)
(* the server, travels to the client in a CONNECT frame, the client emits  *)
(* an event encoded with what it got, and the server decodes the frame     *)
(* with what it registered (server/namespace.go:45-66, server/hub.go:55-73,*)
(* client/client.go:383-423, 564-572).                                     *)
(***************************************************************************)
EXTENDS FrameCodec

CONSTANTS
    Defs,           \* schema definitions
    Values,         \* payloads
    Names,          \* names of namespaces and events
    AckIds,         \* acknowledgement numbers
    WriteDef(_),    \* what writing a definition leaves: ok, and its codes
    ReadDef(_),     \* what is read from the codes: ok, and a definition
    Encode(_, _),   \* what encoding a payload with a definition leaves
    Decode(_, _)    \* the payload that a definition finds in some bytes

FrameEvent == 2

(* The definition that the other side reads, if both ways succeed.         *)
Travels(def) == WriteDef(def).ok /\ ReadDef(WriteDef(def).codes).ok
Reread(def) == ReadDef(WriteDef(def).codes).def

(* The frame's encoder is given the payload's, as Serializers gives it.    *)
ASSUME WireAssumption ==
    /\ FrameEvent \in 0..(Base - 1)
    /\ AckIds \subseteq Int
    /\ Names \subseteq Seq(0..(Base - 1))
    /\ \A def \in Defs, v \in Values :
          Travels(def) =>
          LET code == Encode(Reread(def), v)
          IN  \/ v = Nil \/ code = Unsupported
              \/ /\ Len(code.buf) \in Nat
                 /\ code.buf = [i \in 1..Len(code.buf) |-> code.buf[i]]

VARIABLES
    step,       \* "idle", "registered", "exported", "synced", "sent", "received",
                \* or "unsynced", "unsent": the definition, the event got nowhere
    serverDef,  \* the definition the server registered
    wire,       \* what writing it left
    clientDef,  \* the definition the client reconstructed
    sent,       \* nsp, event, ackID and value of the event
    parts,      \* what encoding the payload left: its buffer and the queue
    frame,      \* the frame
    received    \* the frame's header, and the value decoded from it

vars == <<step, serverDef, wire, clientDef, sent, parts, frame, received>>

Nothing == [k |-> "nothing"]
NoParts == [buf |-> <<>>, queue |-> <<>>]

Init ==
    /\ step = "idle"
    /\ serverDef = Nothing /\ wire = Nothing /\ clientDef = Nothing
    /\ sent = Nothing /\ parts = NoParts /\ frame = <<>> /\ received = Nothing

(* Namespace.Schema.                                                       *)
Register(def) ==
    /\ step = "idle"
    /\ step' = "registered"
    /\ serverDef' = def
    /\ UNCHANGED <<wire, clientDef, sent, parts, frame, received>>

(* Namespace.exportSchemas, and EncodeFrame of the CONNECT: a definition   *)
(* that cannot be written is an error, and no CONNECT is sent.             *)
Export ==
    /\ step = "registered"
    /\ wire' = WriteDef(serverDef)
    /\ step' = IF wire'.ok THEN "exported" ELSE "unsynced"
    /\ UNCHANGED <<serverDef, clientDef, sent, parts, frame, received>>

(* Client.absorbSchemaPayload: the definition as the client reads it; what *)
(* cannot be read is left out.                                             *)
Absorb ==
    /\ step = "exported"
    /\ IF ReadDef(wire.codes).ok
       THEN step' = "synced" /\ clientDef' = ReadDef(wire.codes).def
       ELSE step' = "unsynced" /\ UNCHANGED clientDef
    /\ UNCHANGED <<serverDef, wire, sent, parts, frame, received>>

(* Client.doEmit with that schema: EncodeFrame encodes no payload if there *)
(* is none; the error of a payload that cannot be encoded goes to the      *)
(* caller, and no frame to the server.                                     *)
Emit(nsp, event, ackID, v) ==
    /\ step = "synced"
    /\ sent' = [nsp |-> nsp, event |-> event, ackID |-> ackID, value |-> v]
    /\ parts' = IF v = Nil THEN NoParts ELSE Encode(clientDef, v)
    /\ IF parts' = Unsupported
       THEN step' = "unsent" /\ UNCHANGED frame
       ELSE /\ step' = "sent"
            /\ frame' = EncodeFrame([type |-> FrameEvent, nsp |-> nsp, event |-> event,
                                     ackID |-> ackID, payload |-> parts'.buf])
    /\ UNCHANGED <<serverDef, wire, clientDef, received>>

(* DecodeFrame: the payload, if there is any, is decoded with the schema   *)
(* of the event and namespace that the header names; under another name    *)
(* there is no schema, and what comes out is not looked at here.           *)
Receive ==
    /\ step = "sent"
    /\ step' = "received"
    /\ LET h == DecodeFrameHeader(frame) IN
       received' =
           IF ~h.ok THEN Nothing
           ELSE [k |-> "frame", type |-> h.type, nsp |-> h.nsp, event |-> h.event, ackID |-> h.ackID,
                 payload |-> IF h.payload = <<>> THEN At(Nil, 0)
                             ELSE IF h.nsp = NspOf(sent) /\ h.event = sent.event
                             THEN Decode(serverDef, h.payload)
                             ELSE Panic]
    /\ UNCHANGED <<serverDef, wire, clientDef, sent, parts, frame>>

Next ==
    \/ \E def \in Defs : Register(def)
    \/ Export \/ Absorb
    \/ \E nsp, event \in Names, ackID \in AckIds, v \in Values : Emit(nsp, event, ackID, v)
    \/ Receive

Spec == Init /\ [][Next]_vars
-----------------------------------------------------------------------------
(* A frame arrives with the names and the number it was sent with, up to   *)
(* the width of a number, exactly if its names are shorter than a byte can *)
(* say; a longer name never arrives as it was sent (encoder.go:46-56).     *)
HeadersArrive ==
    step = "received" =>
        (Short(sent) <=>
            /\ received # Nothing
            /\ received.type = FrameEvent
            /\ received.nsp = NspOf(sent) /\ received.event = sent.event
            /\ received.ackID = sent.ackID % Power[4])
=============================================================================
