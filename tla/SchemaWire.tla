------------------------------ MODULE SchemaWire ------------------------------
(***************************************************************************)
(* Wire with the codecs of schemas: what its payloads and its definition   *)
(* are when they arrive.                                                   *)
(***************************************************************************)
EXTENDS Wire, SchemaCodec

(* What absorbSchemaPayload reads of what exportSchemas wrote.             *)
ReadSchema(codes) == ReadSchemaDef(codes, 1)

(* The client reconstructs the definition the server registered, fields in *)
(* their order, unless that has no wire form (schema_wire.go:11-18).       *)
SchemasArrive ==
    /\ step \in {"synced", "sent", "unsent", "received"} => clientDef = serverDef
    /\ step = "unsynced" => ~IsValid(serverDef)

(* computeSize and encodeValue walk a value the same way: the buffer is    *)
(* filled to its end and every queued part is used, in whatever order      *)
(* fields, items and types of variable length come (schema.go:58-73).      *)
BuffersAreFilled ==
    step \in {"sent", "received"} /\ sent.value # Nil =>
        /\ Len(parts.buf) = ComputeSize(clientDef, sent.value).size
        /\ parts.queue = <<>>

(* A payload read with the definition it was written with says what it     *)
(* said when it was sent, and is read to its end; one without any bytes is *)
(* nil (schema.go:212-287, coerce.go:8-131, decoder.go:80-90).             *)
PayloadsArrive ==
    step = "received" /\ Short(sent) =>
        IF parts.buf = <<>> THEN received.payload = At(Nil, 0)
        ELSE /\ received.payload.ok /\ received.payload.off = Len(parts.buf)
             /\ Conveys(serverDef, sent.value, received.payload.v)
=============================================================================
