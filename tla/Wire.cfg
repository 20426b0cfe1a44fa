SPECIFICATION Spec
CONSTANTS
    Base = 4
    Slash = 1
    Defs <- MCDefs
    Values <- MCValues
    Names <- MCNames
    AckIds = {0, 7, 256}
    Exact = 32
    Overflow <- MCOverflow
    WriteDef <- WriteSchemaDef
    ReadDef <- ReadSchema
    Encode <- EncodePayload
    Decode <- DecodePayload
INVARIANTS
    SchemasArrive
    BuffersAreFilled
    HeadersArrive
    PayloadsArrive
CHECK_DEADLOCK FALSE
