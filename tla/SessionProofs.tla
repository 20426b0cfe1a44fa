---------------------------- MODULE SessionProofs ----------------------------
(***************************************************************************)
(* Proofs about Session, for any namespaces, events, schema versions and   *)
(* bounds, and any number of acknowledgement numbers.                      *)
(*                                                                         *)
(* CallsInv says where a call's number can be: in the counter, in the      *)
(* table, in whatever carries the call, and with whom. From it follow, one *)
(* step of arithmetic away, that callbacks get their own answers, that no  *)
(* callback waits without a reason, and the refinement of AckPromise.      *)
(***************************************************************************)
EXTENDS Session, TLAPS

(* Arithmetic: the remainder is the number's width cut off.                *)
LEMMA ModRange == ASSUME NEW a \in Nat, NEW m \in Nat \ {0} PROVE a % m \in 0..(m - 1)
  BY SMT

LEMMA ModParts ==
    ASSUME NEW a \in Nat, NEW m \in Nat \ {0}
    PROVE  a \div m \in Nat /\ a = m * (a \div m) + (a % m)
  BY SMT

LEMMA ModUnique ==
    ASSUME NEW m \in Nat \ {0}, NEW q \in Nat, NEW r \in 0..(m - 1)
    PROVE  (m * q + r) % m = r
  BY SMT

(* Counting on from a wrapped counter is wrapping the count.               *)
LEMMA NextNumber ==
    ASSUME NEW a \in Nat, NEW m \in Nat \ {0, 1}
    PROVE  ((a % m) + 1) % m = (a + 1) % m
<1> DEFINE q == a \div m
           r == a % m
<1>1. q \in Nat /\ a = m * q + r /\ r \in 0..(m - 1)  BY ModParts, ModRange
<1> HIDE DEF q, r
<1>2. CASE r + 1 < m
  <2>1. (m * 0 + (r + 1)) % m = r + 1  BY ONLY ModUnique, <1>1, <1>2
  <2>2. (m * q + (r + 1)) % m = r + 1  BY ONLY ModUnique, <1>1, <1>2
  <2>3. r + 1 = m * 0 + (r + 1) /\ a + 1 = m * q + (r + 1)  BY <1>1, SMT
  <2>4. (r + 1) % m = (a + 1) % m  BY ONLY <2>1, <2>2, <2>3
  <2> QED  BY <2>4 DEF r
<1>3. CASE r + 1 = m
  <2>1. (m * 1 + 0) % m = 0  BY ONLY ModUnique, SMT
  <2>2. (m * (q + 1) + 0) % m = 0  BY ONLY ModUnique, <1>1
  <2>3. r + 1 = m * 1 + 0 /\ a + 1 = m * (q + 1) + 0  BY <1>1, <1>3, SMT
  <2>4. (r + 1) % m = (a + 1) % m  BY ONLY <2>1, <2>2, <2>3
  <2> QED  BY <2>4 DEF r
<1> QED  BY <1>1, <1>2, <1>3

(* Two different calls with one number are at least m calls apart.         *)
LEMMA Congruent ==
    ASSUME NEW m \in Nat \ {0}, NEW j \in Nat, NEW k \in Nat, j < k, j % m = k % m
    PROVE  j + m <= k
<1> DEFINE p == j \div m
           q == k \div m
           r == k % m
<1>1. /\ p \in Nat /\ q \in Nat /\ r \in 0..(m - 1)
      /\ j = m * p + r /\ k = m * q + r
  BY ModParts, ModRange
<1> HIDE DEF p, q, r
<1>2. p < q  BY <1>1, SMT
<1>3. m * p + m <= m * q  BY ONLY <1>1, <1>2, SMT
<1> QED  BY <1>1, <1>3
-----------------------------------------------------------------------------
(* Queues, as the sets of their frames of a type.                          *)

LEMMA FramesOfAppend ==
    ASSUME NEW S, NEW q \in Seq(S), NEW f \in S, NEW t
    PROVE  Frames(Append(q, f), t) = Frames(q, t) \cup {g \in {f} : g.type = t}
<1> DEFINE a == Append(q, f)
<1>1. /\ DOMAIN a = 1..(Len(q) + 1) /\ DOMAIN q = 1..Len(q) /\ Len(q) \in Nat
      /\ \A i \in 1..Len(q) : a[i] = q[i]
      /\ a[Len(q) + 1] = f
  OBVIOUS
<1> HIDE DEF a
<1>2. \A x \in Frames(a, t) : x \in Frames(q, t) \/ (x = f /\ f.type = t)
  BY <1>1 DEF Frames
<1>3. \A x \in Frames(q, t) : x \in Frames(a, t)
  BY <1>1 DEF Frames
<1>4. f.type = t => f \in Frames(a, t)
  BY <1>1 DEF Frames
<1> QED  BY <1>2, <1>3, <1>4 DEF a

LEMMA FramesOfTail ==
    ASSUME NEW S, NEW q \in Seq(S), q # <<>>, NEW t
    PROVE  /\ Head(q) \in S /\ Tail(q) \in Seq(S)
           /\ Frames(q, t) = Frames(Tail(q), t) \cup {g \in {Head(q)} : g.type = t}
<1> DEFINE a == Tail(q)
<1>1. /\ DOMAIN a = 1..(Len(q) - 1) /\ DOMAIN q = 1..Len(q) /\ Len(q) \in Nat \ {0}
      /\ \A i \in 1..(Len(q) - 1) : a[i] = q[i + 1]
      /\ Head(q) = q[1] /\ Head(q) \in S /\ a \in Seq(S)
  OBVIOUS
<1> HIDE DEF a
<1>2. \A x \in Frames(a, t) : x \in Frames(q, t)
  BY <1>1 DEF Frames
<1>3. \A x \in Frames(q, t) : x \in Frames(a, t) \/ (x = q[1] /\ q[1].type = t)
  <2> SUFFICES ASSUME NEW i \in 1..Len(q), q[i].type = t
               PROVE  q[i] \in Frames(a, t) \/ i = 1
    BY <1>1 DEF Frames
  <2>1. i # 1 => i - 1 \in DOMAIN a /\ a[i - 1] = q[i]
    BY <1>1
  <2> QED  BY <2>1 DEF Frames
<1>4. q[1].type = t => q[1] \in Frames(q, t)
  BY <1>1 DEF Frames
<1> QED  BY <1>1, <1>2, <1>3, <1>4 DEF a
-----------------------------------------------------------------------------
(* Types.                                                                  *)

(* What CONNECT carries is a codec for each pair, before and after the     *)
(* exports (namespace.go:55-66).                                           *)
LEMMA TablesHoldCodecs ==
    ASSUME NEW t \in Tables
    PROVE  \A p \in Pair : p \in DOMAIN t => t[p] \in Codec
<1>1. PICK n \in Nsp : t \in [Exported(n) -> Codec]  BY DEF Tables
<1> QED  BY <1>1

LEMMA ExportsAreTables ==
    /\ \A n \in Nsp : [p \in Exported(n) |-> Default] \in Tables
    /\ \A n \in Nsp, s \in [Pair -> Codec] : [p \in Exported(n) |-> s[p]] \in Tables
<1>1. \A n \in Nsp : [Exported(n) -> Codec] \subseteq Tables  BY DEF Tables
<1>2. \A n \in Nsp : Exported(n) \subseteq Pair  BY DEF Exported
<1>3. Default \in Codec  BY DEF Codec
<1> QED  BY <1>1, <1>2, <1>3

LEMMA EveryPairIsExported == Exported(Root) = Pair
  BY SessionAssumption DEF Exported

(* What an event frame is made of.                                         *)
LEMMA EventFrameType ==
    ASSUME NEW p \in Pair, NEW c \in Codec, NEW i \in Number, NEW k \in Call \cup {NoCall},
           NEW fresh \in BOOLEAN, i > 0 => k # NoCall
    PROVE  EventFrameOf(p, c, i, k, fresh) \in EventFrame
  BY SessionAssumption DEF EventFrameOf, EventFrame

(* What comes out of the queues, and of which type it is.                  *)
LEMMA FramesAreTyped ==
    ASSUME TypeOK
    PROVE  /\ toServer # <<>> => /\ Head(toServer) \in FrameToServer
                                 /\ Tail(toServer) \in Seq(FrameToServer)
           /\ toClient # <<>> => /\ Head(toClient) \in FrameToClient
                                 /\ Tail(toClient) \in Seq(FrameToClient)
  BY DEF TypeOK

LEMMA KindsOfFrames ==
    ASSUME NEW f
    PROVE  /\ f \in FrameToServer /\ f.type = "event" => f \in EventFrame
           /\ f \in FrameToServer /\ f.type = "connect" => f \in AskFrame
           /\ f \in FrameToClient /\ f.type = "ack" => f \in AckFrame
           /\ f \in FrameToClient /\ f.type = "connect"
              => f \in ConnectFrame
  BY DEF FrameToServer, FrameToClient, AskFrame, EventFrame, ConnectFrame, AckFrame

LEMMA WrittenFramesAreTyped ==
    ASSUME TypeOK
    PROVE  /\ \A f \in AskFrame \cup EventFrame :
                 ToServer(f) => toServer' \in Seq(FrameToServer)
           /\ \A f \in ConnectFrame \cup EventFrame \cup AckFrame :
                 ToClient(f) => toClient' \in Seq(FrameToClient)
<1>1. ASSUME NEW S, NEW q \in Seq(S), NEW f \in S PROVE Append(q, f) \in Seq(S)
  OBVIOUS
<1>2. toServer \in Seq(FrameToServer) /\ toClient \in Seq(FrameToClient)  BY DEF TypeOK
<1> QED  BY <1>1, <1>2 DEF ToServer, ToClient, FrameToServer, FrameToClient

LEMMA FramesHoldCalls ==
    ASSUME TypeOK
    PROVE  /\ Frames(toServer, "event") \subseteq EventFrame
           /\ Frames(toClient, "ack") \subseteq AckFrame
           /\ OnConnection \subseteq Call
<1>1. Frames(toServer, "event") \subseteq EventFrame /\ Frames(toClient, "ack") \subseteq AckFrame
  BY KindsOfFrames DEF Frames, TypeOK
<1>2. /\ \A f \in EventFrame \cup AckFrame : f.call \in Call \cup {NoCall}
      /\ \A o \in owed : o.call \in Call
  BY DEF EventFrame, AckFrame, TypeOK
<1> QED  BY <1>1, <1>2 DEF OnConnection, CallsOf

(* Every variable keeps its type (type invariant).                         *)
THEOREM TypeCorrect == Spec => []TypeOK
<1>1. Init => TypeOK
  <2> SUFFICES ASSUME Init PROVE TypeOK  OBVIOUS
  <2>1. Blank(Root) \in [Pair -> Codec]
    BY EveryPairIsExported DEF Blank, Codec
  <2>2. \A n \in Nsp : Blank(n) \in Tables  BY ExportsAreTables DEF Blank
  <2> QED  BY <2>1, <2>2, SessionAssumption DEF Init, ServerInit, ClientInit, TypeOK, Number
<1>2. TypeOK /\ [Next]_vars => TypeOK'
  <2> SUFFICES ASSUME TypeOK, [Next]_vars PROVE TypeOK'  OBVIOUS
  <2>1. CASE UNCHANGED vars
    BY <2>1 DEF TypeOK, vars, schemaVars, clientVars, admitVars, queueVars, serverVars, callVars
  <2>2. CASE Dial
    <3>1. Rejoin \subseteq clientNsps \ {Root} /\ Agreeable \subseteq Pair
      BY DEF Rejoin, Agreeable
    <3> QED  BY <2>2, <3>1, SessionAssumption DEF Dial, TypeOK, queueVars, serverVars, callVars
  <2>3. CASE Lose \/ Restart
    <3>1. \A n \in Nsp : Blank(n) \in Tables  BY ExportsAreTables DEF Blank
    <3>2. Blank(Root) \in [Pair -> Codec]  BY EveryPairIsExported DEF Blank, Codec
    <3>3. OnConnection \subseteq Call
      BY FramesHoldCalls
    <3>4. {[f EXCEPT !.fresh = FALSE] : f \in emitting} \subseteq EventFrame
      <4>1. ASSUME NEW f \in EventFrame PROVE [f EXCEPT !.fresh = FALSE] \in EventFrame
        BY <4>1 DEF EventFrame
      <4> QED  BY <4>1 DEF TypeOK
    <3>5. Disconnect /\ serverSchemas' \in [Pair -> Codec] /\ pushing' \subseteq EventFrame
      BY <2>3, <3>2 DEF Lose, Restart, TypeOK
    <3>6. /\ toServer' \in Seq(FrameToServer) /\ toClient' \in Seq(FrameToClient)
          /\ emitting' \subseteq EventFrame /\ gone' \subseteq Call
          /\ export' \in [Nsp -> Tables]
          /\ stage' \in [Nsp -> {"none", "middleware", "member", "exported", "announced", "ready"}]
      BY <3>1, <3>3, <3>4, <3>5 DEF Disconnect, TypeOK
    <3> QED  BY <3>5, <3>6 DEF Disconnect, TypeOK
  <2>4. CASE ClientReads
    <3> DEFINE f == Head(toClient)
    <3>1. /\ f \in FrameToClient
          /\ toClient' \in Seq(FrameToClient)
          /\ ReadConnect(f) \/ ReadEvent(f) \/ ReadAck(f)
      BY <2>4, FramesAreTyped DEF ClientReads
    <3>2. CASE ReadConnect(f)
      <4>1. f \in ConnectFrame  BY <3>1, <3>2, KindsOfFrames DEF ReadConnect
      <4>2. f.nsp \in Nsp /\ Absorb(f.table) \in [Pair -> Codec]
        <5>1. f.nsp \in Nsp /\ f.table \in Tables  BY <4>1 DEF ConnectFrame
        <5> QED  BY <5>1, TablesHoldCodecs DEF Absorb, TypeOK
      <4>3. clientSchemas' \in [Pair -> Codec] /\ connected' \subseteq Nsp
        BY <3>2, <4>2 DEF ReadConnect, TypeOK
      <4> HIDE DEF f
      <4> QED
        BY <2>4, <3>1, <3>2, <4>3 DEF ReadConnect, ClientReads, TypeOK, admitVars, serverVars
    <3>3. CASE ReadEvent(f)
      <4> HIDE DEF f
      <4> QED  BY <2>4, <3>1, <3>3 DEF ReadEvent, ClientReads, TypeOK, admitVars, serverVars
    <3>4. CASE ReadAck(f)
      <4>1. f \in AckFrame  BY <3>1, <3>4, KindsOfFrames DEF ReadAck
      <4>2. f.id \in Number /\ f.call \in Call \cup {NoCall}  BY <4>1 DEF AckFrame
      <4> HIDE DEF f
      <4>3. CallsOf({f}) \subseteq Call  BY <4>2 DEF CallsOf
      <4>4. /\ callbacks' \in [Number -> Call \cup {NoCall}]
            /\ ran' \subseteq Call \X (Call \cup {NoCall})
            /\ gone' \subseteq Call
        <5>1. CASE UNCHANGED <<callbacks, ran>> /\ gone' \subseteq gone \cup CallsOf({f})
          BY <4>3, <5>1 DEF TypeOK
        <5>2. CASE callbacks[f.id] # NoCall /\ Take(f.id) /\ UNCHANGED gone
                   /\ ran' = ran \cup {<<callbacks[f.id], f.call>>}
          <6>1. callbacks[f.id] \in Call  BY <4>2, <5>2 DEF TypeOK
          <6> QED  BY <4>2, <5>2, <6>1 DEF Take, TypeOK
        <5> QED  BY <3>4, <5>1, <5>2 DEF ReadAck
      <4> QED
        BY <2>4, <3>1, <3>4, <4>4 DEF ReadAck, ClientReads, TypeOK, admitVars, serverVars
    <3> QED  BY <3>1, <3>2, <3>3, <3>4
  <2>5. CASE ServerReads
    <3> DEFINE f == Head(toServer)
    <3>1. /\ f \in FrameToServer
          /\ toServer' \in Seq(FrameToServer)
          /\ ServerReadsConnect(f) \/ ServerReadsEvent(f)
      BY <2>5, FramesAreTyped DEF ServerReads
    <3>2. CASE ServerReadsConnect(f)
      <4>1. f \in AskFrame  BY <3>1, <3>2, KindsOfFrames DEF ServerReadsConnect
      <4>2. f.nsp \in Nsp  BY <4>1 DEF AskFrame
      <4> HIDE DEF f
      <4>3. ErrorFrame(f.nsp, 0, NoCall) \in AckFrame
        BY <4>2, SessionAssumption DEF ErrorFrame, AckFrame, Number
      <4>4. /\ stage' \in [Nsp -> {"none", "middleware", "member", "exported", "announced", "ready"}]
            /\ toClient' \in Seq(FrameToClient)
        BY <3>2, <4>2, <4>3, WrittenFramesAreTyped DEF ServerReadsConnect, TypeOK
      <4> QED
        BY <2>5, <3>1, <3>2, <4>4 DEF ServerReadsConnect, ServerReads, TypeOK, schemaVars, clientVars
    <3>3. CASE ServerReadsEvent(f)
      <4>1. f \in EventFrame  BY <3>1, <3>3, KindsOfFrames DEF ServerReadsEvent
      <4>2. /\ f.id \in Number /\ f.call \in Call \cup {NoCall} /\ f.nsp \in Nsp
            /\ f.event \in Event
        BY <4>1 DEF EventFrame
      <4> HIDE DEF f
      <4>3. CallsOf({f}) \subseteq Call  BY <4>2 DEF CallsOf
      <4>4. f.id > 0 => f.call \in Call
        BY <4>1 DEF EventFrame
      <4>5. f.id \in Number => ErrorFrame(f.nsp, f.id, f.call) \in AckFrame
        BY <4>2, SessionAssumption DEF ErrorFrame, AckFrame, Number
      <4>6. /\ toClient' \in Seq(FrameToClient)
            /\ owed' \subseteq [id : Number, call : Call, nsp : Nsp, event : Event]
            /\ answered' \subseteq Call
            /\ gone' \subseteq Call
        <5>1. CASE EventIsDropped(f)
          BY <4>3, <5>1 DEF EventIsDropped, TypeOK
        <5>2. CASE EventIsRejected(f)
          BY <4>2, <4>4, <4>5, <5>2, WrittenFramesAreTyped DEF EventIsRejected, TypeOK
        <5>3. CASE EventIsHandled(f)
          <6>1. f.id > 0 => [id |-> f.id, call |-> f.call, nsp |-> f.nsp, event |-> f.event]
                            \in [id : Number, call : Call, nsp : Nsp, event : Event]
            BY <4>2, <4>4
          <6>2. owed' \subseteq [id : Number, call : Call, nsp : Nsp, event : Event]
            BY ONLY TypeOK, <5>3, <6>1 DEF EventIsHandled, TypeOK
          <6>3. gone' \subseteq gone \cup CallsOf({f}) /\ UNCHANGED <<toClient, answered>>
            BY ONLY <5>3 DEF EventIsHandled
          <6> QED  BY <4>3, <6>2, <6>3 DEF TypeOK
        <5> QED  BY <3>3, <5>1, <5>2, <5>3 DEF ServerReadsEvent
      <4> QED
        BY <2>5, <3>1, <3>3, <4>6 DEF ServerReadsEvent, ServerReads, TypeOK, schemaVars, clientVars
    <3> QED  BY <3>1, <3>2, <3>3
  <2>6. ASSUME NEW n \in Nsp, Of(n) \/ SendConnect(n) PROVE TypeOK'
    <3>1. CASE Of(n)
      BY <3>1 DEF Of, TypeOK, schemaVars, admitVars, queueVars, serverVars, callVars
    <3>2. CASE SendConnect(n)
      <4>1. [type |-> "connect", nsp |-> n] \in AskFrame  BY DEF AskFrame
      <4>2. toServer' \in Seq(FrameToServer)
        BY <3>2, <4>1, WrittenFramesAreTyped DEF SendConnect
      <4> QED  BY <3>2, <4>2 DEF SendConnect, TypeOK, schemaVars, admitVars, serverVars, callVars
    <3> QED  BY <2>6, <3>1, <3>2
  <2>7. ASSUME NEW n \in Nsp, Admit(n) PROVE TypeOK'
    <3> DEFINE Rest == UNCHANGED <<schemaVars, clientVars, toServer, serverVars, callVars>>
    <3>1. /\ Rest
          /\ stage' \in [Nsp -> {"none", "middleware", "member", "exported", "announced", "ready"}]
          /\ link' \in {"down", "up", "closed"}
      BY <2>7 DEF Admit, AdmissionStep, AddSocket, Reject, Export, Announce, Fire, TypeOK
    <3>2. export' \in [Nsp -> Tables]
      <4>1. CASE Export(n)
        <5>1. [p \in Exported(n) |-> serverSchemas[p]] \in Tables  BY ExportsAreTables DEF TypeOK
        <5> QED  BY <4>1, <5>1 DEF Export, TypeOK
      <4>2. CASE ~Export(n)
        BY <2>7, <4>2 DEF Admit, AddSocket, Reject, Announce, Fire, TypeOK
      <4> QED  BY <4>1, <4>2
    <3>3. toClient' \in Seq(FrameToClient)
      <4>1. [type |-> "connect", nsp |-> n, table |-> export[n]] \in ConnectFrame
        BY DEF ConnectFrame, TypeOK
      <4>2. ErrorFrame(n, 0, NoCall) \in AckFrame
        BY SessionAssumption DEF ErrorFrame, AckFrame, Number
      <4> QED
        BY <2>7, <4>1, <4>2, WrittenFramesAreTyped
        DEF Admit, AddSocket, Reject, Export, Announce, Fire, TypeOK
    <3> QED  BY <3>1, <3>2, <3>3 DEF TypeOK, schemaVars, clientVars, serverVars, callVars
  <2>8. ASSUME NEW p \in Pair, Emit(p) PROVE TypeOK'
    <3>1. \A fresh \in BOOLEAN : EventFrameOf(p, clientSchemas[p], 0, NoCall, fresh) \in EventFrame
      <4>1. clientSchemas[p] \in Codec  BY DEF TypeOK
      <4>2. 0 \in Number /\ ~(0 > 0)  BY SessionAssumption DEF Number
      <4> QED  BY <4>1, <4>2, EventFrameType
    <3>2. emitting' \subseteq EventFrame
      <4>1. (p[1] \in connected) \in BOOLEAN  OBVIOUS
      <4>2. EventFrameOf(p, clientSchemas[p], 0, NoCall, p[1] \in connected) \in EventFrame
        BY <3>1, <4>1
      <4> QED  BY ONLY TypeOK, <2>8, <4>2 DEF Emit, Hold, TypeOK
    <3> QED  BY <2>8, <3>2 DEF Emit, TypeOK, schemaVars, admitVars, queueVars, serverVars, callVars
  <2>9. ASSUME NEW p \in Pair, EmitAck(p) PROVE TypeOK'
    <3>1. made' \in Call /\ made' \in 0..MaxCalls
      BY <2>9, SessionAssumption DEF EmitAck, TypeOK, Call
    <3>2. ackCounter' \in Number
      <4>1. ackCounter + 1 \in Nat /\ AckMod \in Nat \ {0}
        BY SessionAssumption DEF TypeOK, Number
      <4> QED  BY <2>9, <4>1, ModRange DEF EmitAck, Advance, Number
    <3>3. \A fresh \in BOOLEAN :
             EventFrameOf(p, clientSchemas[p], ackCounter, made', fresh) \in EventFrame
      <4>1. clientSchemas[p] \in Codec /\ ackCounter \in Number  BY DEF TypeOK
      <4>2. made' # NoCall  BY <3>1, SessionAssumption DEF Call
      <4> QED  BY <3>1, <4>1, <4>2, EventFrameType
    <3>4. emitting' \subseteq EventFrame /\ gone' \subseteq Call
      <4>1. (p[1] \in connected) \in BOOLEAN  OBVIOUS
      <4>2. EventFrameOf(p, clientSchemas[p], ackCounter, made', p[1] \in connected) \in EventFrame
        BY <3>3, <4>1
      <4> QED  BY ONLY TypeOK, <2>9, <3>1, <4>2 DEF EmitAck, Hold, TypeOK
    <3>5. callbacks' \in [Number -> Call \cup {NoCall}]
      BY <2>9, <3>1 DEF EmitAck, TypeOK
    <3> QED
      BY <2>9, <3>1, <3>2, <3>4, <3>5 DEF EmitAck, TypeOK, schemaVars, admitVars, queueVars, serverVars
  <2>10. ASSUME NEW p \in Pair, StartPush(p) PROVE TypeOK'
    <3>1. EventFrameOf(p, serverSchemas[p], 0, NoCall, FALSE) \in EventFrame
      <4>1. serverSchemas[p] \in Codec  BY DEF TypeOK
      <4>2. 0 \in Number /\ ~(0 > 0)  BY SessionAssumption DEF Number
      <4> QED  BY <4>1, <4>2, EventFrameType
    <3> QED
      BY <2>10, <3>1
      DEF StartPush, TypeOK, schemaVars, clientVars, admitVars, queueVars, callVars
  <2>11. ASSUME NEW p \in Pair, NEW v \in Version, Schema(p, v) \/ LocalSchema(p, v) PROVE TypeOK'
    BY <2>11
    DEF Schema, LocalSchema, TypeOK, Codec, clientVars, admitVars, queueVars, serverVars, callVars
  <2>12. ASSUME NEW f \in emitting, WriteEmit(f) PROVE TypeOK'
    <3>1. f \in EventFrame  BY DEF TypeOK
    <3>2. CallsOf({f}) \subseteq Call  BY <3>1 DEF CallsOf, EventFrame
    <3>3. toServer' \in Seq(FrameToServer) /\ gone' \subseteq Call
      BY <2>12, <3>1, <3>2, WrittenFramesAreTyped DEF WriteEmit, TypeOK
    <3> QED  BY <2>12, <3>3 DEF WriteEmit, TypeOK, schemaVars, admitVars, serverVars
  <2>13. ASSUME NEW o \in owed, NEW c \in {Default, Empty}, Answer(o, c) PROVE TypeOK'
    <3>1. o.id \in Number /\ o.call \in Call /\ o.nsp \in Nsp /\ o.event \in Event  BY DEF TypeOK
    <3>2. [type |-> "ack", nsp |-> o.nsp, event |-> o.event, codec |-> c,
           id |-> o.id, call |-> o.call] \in AckFrame
      BY <3>1 DEF AckFrame
    <3>3. toClient' \in Seq(FrameToClient) /\ answered' \subseteq Call
      BY <2>13, <3>1, <3>2, WrittenFramesAreTyped DEF Answer, TypeOK
    <3> QED  BY <2>13, <3>3 DEF Answer, TypeOK, schemaVars, clientVars, admitVars, serverVars
  <2>14. ASSUME NEW f \in pushing, SendPush(f) PROVE TypeOK'
    <3>1. f \in EventFrame  BY DEF TypeOK
    <3>2. toClient' \in Seq(FrameToClient)
      BY <2>14, <3>1, WrittenFramesAreTyped DEF SendPush, TypeOK
    <3> QED  BY <2>14, <3>2 DEF SendPush, TypeOK, schemaVars, clientVars, admitVars, callVars
  <2> QED
    BY <2>1, <2>2, <2>3, <2>4, <2>5, <2>6, <2>7, <2>8, <2>9, <2>10, <2>11, <2>12, <2>13, <2>14
    DEF Next
<1> QED  BY <1>1, <1>2, PTL DEF Spec
-----------------------------------------------------------------------------
(* Calls and their numbers.                                                *)

(* What a step does to the frames in the queues.                           *)
LEMMA QueueSteps ==
    ASSUME TypeOK
    PROVE  /\ \A f \in AskFrame \cup EventFrame : ToServer(f) =>
                 Frames(toServer', "event")
                     = Frames(toServer, "event") \cup {g \in {f} : link = "up" /\ g.type = "event"}
           /\ \A f \in ConnectFrame \cup EventFrame \cup AckFrame : ToClient(f) =>
                 Frames(toClient', "ack")
                     = Frames(toClient, "ack") \cup {g \in {f} : g.type = "ack"}
           /\ toServer # <<>> => Frames(toServer, "event")
                 = Frames(Tail(toServer), "event") \cup {g \in {Head(toServer)} : g.type = "event"}
           /\ toClient # <<>> => Frames(toClient, "ack")
                 = Frames(Tail(toClient), "ack") \cup {g \in {Head(toClient)} : g.type = "ack"}
           /\ Frames(<<>>, "event") = {} /\ Frames(<<>>, "ack") = {}
<1>1. toServer \in Seq(FrameToServer) /\ toClient \in Seq(FrameToClient)  BY DEF TypeOK
<1>2. \A f \in AskFrame \cup EventFrame : f \in FrameToServer  BY DEF FrameToServer
<1>3. \A f \in ConnectFrame \cup EventFrame \cup AckFrame : f \in FrameToClient  BY DEF FrameToClient
<1>4. \A f \in FrameToServer :
         Frames(Append(toServer, f), "event") = Frames(toServer, "event") \cup {g \in {f} : g.type = "event"}
  BY <1>1, FramesOfAppend
<1>5. \A f \in FrameToClient :
         Frames(Append(toClient, f), "ack") = Frames(toClient, "ack") \cup {g \in {f} : g.type = "ack"}
  BY <1>1, FramesOfAppend
<1>6. toServer # <<>> => Frames(toServer, "event")
         = Frames(Tail(toServer), "event") \cup {g \in {Head(toServer)} : g.type = "event"}
  BY <1>1, FramesOfTail
<1>7. toClient # <<>> => Frames(toClient, "ack")
         = Frames(Tail(toClient), "ack") \cup {g \in {Head(toClient)} : g.type = "ack"}
  BY <1>1, FramesOfTail
<1>8. Frames(<<>>, "event") = {} /\ Frames(<<>>, "ack") = {}  BY DEF Frames
<1>9. ASSUME NEW f \in AskFrame \cup EventFrame, ToServer(f)
      PROVE  Frames(toServer', "event")
                 = Frames(toServer, "event") \cup {g \in {f} : link = "up" /\ g.type = "event"}
  <2>1. CASE link = "up"
    <3>1. toServer' = Append(toServer, f)  BY <1>9, <2>1 DEF ToServer
    <3> QED  BY <1>2, <1>4, <2>1, <3>1
  <2>2. CASE link # "up"
    <3>1. toServer' = toServer  BY <1>9, <2>2 DEF ToServer
    <3> QED  BY <2>2, <3>1
  <2> QED  BY <2>1, <2>2
<1> QED  BY <1>3, <1>5, <1>6, <1>7, <1>8, <1>9 DEF ToClient

(* No calls at first.                                                      *)
LEMMA CallsBegin == Init => CallsInv
<1> SUFFICES ASSUME Init PROVE CallsInv  OBVIOUS
<1>1. 1 % AckMod = 1
  <2>1. (AckMod * 0 + 1) % AckMod = 1  BY ModUnique, SessionAssumption
  <2> QED  BY <2>1, SessionAssumption
<1>2. Frames(toServer, "event") = {} /\ Frames(toClient, "ack") = {}  BY DEF Init, ServerInit, ClientInit, Frames
<1> QED
  BY <1>1, <1>2
  DEF Init, ServerInit, ClientInit, CallsInv, CounterInv, TableInv, EventsInv, OwedInv, AcksInv, AnsweredInv

(* Steps that make no call and take no callback: the frames and what is    *)
(* owed shrink, or grow by what carries a number of its own.               *)
LEMMA CallsStay ==
    ASSUME CallsInv,
           UNCHANGED <<callbacks, ackCounter, made>>,
           answered \subseteq answered',
           \A k \in answered' \ answered : k <= made /\ k % AckMod # 0,
           \A f \in (emitting \cup Frames(toServer, "event"))' :
               \/ Numbered(f)
               \/ \E g \in emitting : f.id = g.id /\ f.call = g.call,
           \A o \in owed' \ owed : Numbered(o) /\ o.id > 0,
           \A f \in Frames(toClient', "ack") :
               \/ f \in Frames(toClient, "ack")
               \/ Numbered(f) /\ (f.call # NoCall => f.call \in answered')
    PROVE  CallsInv'
<1>1. \A x : Numbered(x) <=> Numbered(x)'  BY DEF Numbered
<1>2. CounterInv' /\ TableInv'  BY DEF CallsInv, CounterInv, TableInv
<1>3. EventsInv'  BY <1>1 DEF CallsInv, EventsInv, Numbered
<1>4. OwedInv'  BY <1>1 DEF CallsInv, OwedInv
<1>5. AcksInv'  BY <1>1 DEF CallsInv, AcksInv
<1>6. AnsweredInv'  BY DEF CallsInv, AnsweredInv
<1> QED  BY <1>2, <1>3, <1>4, <1>5, <1>6 DEF CallsInv

(* A call: its number is the counter's, and whoever waits there is         *)
(* forsaken.                                                               *)
LEMMA CallIsMade ==
    ASSUME TypeOK, CallsInv, NEW p \in Pair, EmitAck(p)
    PROVE  CallsInv'
<1>1. /\ made \in Nat /\ made' = made + 1 /\ made' \in Call
      /\ AckMod \in Nat \ {0, 1} /\ ackCounter \in Number
      /\ callbacks \in [Number -> Call \cup {NoCall}]
  BY SessionAssumption DEF EmitAck, TypeOK, Call
<1>2. ackCounter = made' % AckMod  BY <1>1 DEF CallsInv, CounterInv
<1>3. CounterInv'
  <2>1. ((made' % AckMod) + 1) % AckMod = (made' + 1) % AckMod
    <3>1. \A a \in Nat : ((a % AckMod) + 1) % AckMod = (a + 1) % AckMod
      BY NextNumber, SessionAssumption
    <3> QED  BY <1>1, <3>1
  <2> QED  BY <1>2, <2>1 DEF EmitAck, Advance, CounterInv
<1>4. TableInv'
  <2> SUFFICES ASSUME NEW i \in Number, callbacks'[i] # NoCall
               PROVE  /\ callbacks'[i] <= made' /\ callbacks'[i] % AckMod = i
                      /\ \A k \in Call : callbacks'[i] < k /\ k <= made' => k % AckMod # i
    BY DEF TableInv
  <2>1. CASE i = ackCounter
    <3>1. callbacks'[i] = made'  BY <1>1, <2>1 DEF EmitAck
    <3> QED  BY <1>1, <1>2, <2>1, <3>1 DEF Call
  <2>2. CASE i # ackCounter
    <3>1. callbacks'[i] = callbacks[i]  BY <1>1, <2>2 DEF EmitAck
    <3>2. /\ callbacks[i] <= made /\ callbacks[i] % AckMod = i /\ callbacks[i] \in Call
          /\ \A k \in Call : callbacks[i] < k /\ k <= made => k % AckMod # i
      BY <1>1, <3>1 DEF CallsInv, TableInv
    <3>3. \A k \in Call : k <= made' => k <= made \/ k = made'  BY <1>1 DEF Call
    <3> QED  BY <1>1, <1>2, <2>2, <3>1, <3>2, <3>3 DEF Call
  <2> QED  BY <2>1, <2>2
<1>5. EventsInv'
  <2>1. \A f \in (emitting \cup Frames(toServer, "event"))' :
           \/ f \in emitting \cup Frames(toServer, "event")
           \/ f.id = ackCounter /\ f.call = made'
    BY DEF EmitAck, Hold, EventFrameOf, queueVars
  <2>2. \A f \in emitting \cup Frames(toServer, "event") : f.call \in Call \cup {NoCall}
    BY FramesHoldCalls DEF TypeOK, EventFrame
  <2> QED
    BY <1>1, <1>2, <2>1, <2>2, SessionAssumption DEF CallsInv, EventsInv, Numbered, Call
<1>6. OwedInv' /\ AcksInv' /\ AnsweredInv'
  <2>1. UNCHANGED <<owed, toClient, answered>>  BY DEF EmitAck, queueVars, serverVars
  <2>2. /\ \A o \in owed : o.call \in Call
        /\ \A f \in Frames(toClient, "ack") : f.call \in Call \cup {NoCall}
        /\ answered \subseteq Call
    BY FramesHoldCalls DEF TypeOK, AckFrame
  <2>3. \A x : x.call \in Call \cup {NoCall} /\ Numbered(x) => Numbered(x)'
    BY <1>1, SessionAssumption DEF Numbered, Call
  <2>4. OwedInv'  BY <2>1, <2>2, <2>3 DEF CallsInv, OwedInv
  <2>5. AcksInv'  BY <2>1, <2>2, <2>3 DEF CallsInv, AcksInv
  <2>6. AnsweredInv'  BY <1>1, <2>1, <2>2 DEF CallsInv, AnsweredInv, Call
  <2> QED  BY <2>4, <2>5, <2>6
<1> QED  BY <1>3, <1>4, <1>5, <1>6 DEF CallsInv

(* The client takes an acknowledgement, and perhaps a callback.            *)
LEMMA CallIsTaken ==
    ASSUME TypeOK, CallsInv, ClientReads
    PROVE  CallsInv'
<1> DEFINE f == Head(toClient)
<1>1. Frames(toClient', "ack") \subseteq Frames(toClient, "ack")
  BY QueueSteps DEF ClientReads
<1>2. UNCHANGED <<emitting, toServer, owed, made, answered, ackCounter>>
  BY DEF ClientReads, serverVars
<1>3. \A i \in Number : callbacks'[i] \in {callbacks[i], NoCall}
  <2>1. UNCHANGED callbacks \/ Take(f.id)  BY DEF ClientReads, ReadConnect, ReadEvent, ReadAck
  <2> QED  BY <2>1 DEF Take, TypeOK
<1>4. CounterInv' /\ EventsInv' /\ OwedInv' /\ AnsweredInv'
  BY <1>2 DEF CallsInv, CounterInv, EventsInv, OwedInv, AnsweredInv, Numbered
<1>5. TableInv'  BY <1>2, <1>3 DEF CallsInv, TableInv
<1>6. AcksInv'  BY <1>1, <1>2 DEF CallsInv, AcksInv, Numbered
<1> QED  BY <1>4, <1>5, <1>6 DEF CallsInv

(* The other steps.                                                        *)
LEMMA CallsOfDisconnect ==
    ASSUME TypeOK, CallsInv, Disconnect
    PROVE  CallsInv'
<1>1. /\ UNCHANGED <<callbacks, ackCounter, made, answered>>
      /\ Frames(toServer', "event") = {} /\ Frames(toClient', "ack") = {} /\ owed' = {}
  BY QueueSteps DEF Disconnect
<1>2. \A f \in emitting' : \E g \in emitting : f.id = g.id /\ f.call = g.call
  <2>1. \A g \in emitting : [g EXCEPT !.fresh = FALSE].id = g.id
                            /\ [g EXCEPT !.fresh = FALSE].call = g.call
    BY DEF TypeOK, EventFrame
  <2> QED  BY <2>1 DEF Disconnect
<1> QED  BY <1>1, <1>2, CallsStay

LEMMA CallsOfServerReads ==
    ASSUME TypeOK, CallsInv, ServerReads
    PROVE  CallsInv'
<1> DEFINE f == Head(toServer)
<1>1. /\ toServer # <<>> /\ toServer' = Tail(toServer)
      /\ UNCHANGED <<callbacks, ackCounter, made, emitting>>
      /\ f \in AskFrame \cup EventFrame
      /\ ServerReadsConnect(f) \/ ServerReadsEvent(f)
  BY FramesAreTyped DEF ServerReads, clientVars, FrameToServer
<1>2. /\ Frames(toServer', "event") \subseteq Frames(toServer, "event")
      /\ f.type = "event" => f \in Frames(toServer, "event")
  BY <1>1, QueueSteps
<1>3. \A g \in (emitting \cup Frames(toServer, "event"))' : Numbered(g)
  BY <1>1, <1>2 DEF CallsInv, EventsInv
<1>4. CASE ServerReadsConnect(f)
  <2>1. f.nsp \in Nsp  BY <1>1, <1>4, KindsOfFrames DEF ServerReadsConnect, AskFrame, FrameToServer
  <2>2. ErrorFrame(f.nsp, 0, NoCall) \in AckFrame
    BY <2>1, SessionAssumption DEF ErrorFrame, AckFrame, Number
  <2>3. Numbered(ErrorFrame(f.nsp, 0, NoCall)) /\ ErrorFrame(f.nsp, 0, NoCall).call = NoCall
    BY DEF Numbered, ErrorFrame
  <2> HIDE DEF f
  <2>4. UNCHANGED <<owed, answered>> /\ (UNCHANGED toClient \/ ToClient(ErrorFrame(f.nsp, 0, NoCall)))
    BY <1>4 DEF ServerReadsConnect
  <2>5. \A g \in Frames(toClient', "ack") :
           g \in Frames(toClient, "ack") \/ g = ErrorFrame(f.nsp, 0, NoCall)
    BY <2>2, <2>4, QueueSteps
  <2> QED  BY <1>1, <1>3, <2>3, <2>4, <2>5, CallsStay
<1>5. CASE ServerReadsEvent(f)
  <2>1. f \in EventFrame /\ Numbered(f)
    BY <1>1, <1>2, <1>5, KindsOfFrames DEF ServerReadsEvent, CallsInv, EventsInv, FrameToServer
  <2>2. /\ f.nsp \in Nsp /\ f.id \in Number /\ f.call \in Call \cup {NoCall}
        /\ f.id > 0 => f.call # NoCall /\ f.call <= made /\ f.id = f.call % AckMod /\ f.id # 0
    BY <2>1, SessionAssumption DEF EventFrame, Numbered, Number
  <2> HIDE DEF f
  <2>3. CASE EventIsDropped(f)
    BY <1>1, <1>3, <2>3, CallsStay DEF EventIsDropped
  <2>4. CASE EventIsRejected(f)
    <3>1. ErrorFrame(f.nsp, f.id, f.call) \in AckFrame
      BY <2>2, SessionAssumption DEF ErrorFrame, AckFrame
    <3>2. Numbered(ErrorFrame(f.nsp, f.id, f.call)) /\ ErrorFrame(f.nsp, f.id, f.call).call = f.call
      BY <2>1 DEF Numbered, ErrorFrame
    <3>3. \A g \in Frames(toClient', "ack") :
             g \in Frames(toClient, "ack") \/ g = ErrorFrame(f.nsp, f.id, f.call)
      BY <2>4, <3>1, QueueSteps DEF EventIsRejected
    <3>4. answered' = answered \cup {f.call} /\ UNCHANGED owed /\ f.id > 0
      BY <2>4 DEF EventIsRejected
    <3> QED  BY <1>1, <1>3, <2>2, <3>2, <3>3, <3>4, CallsStay
  <2>5. CASE EventIsHandled(f)
    <3>1. \A o \in owed' \ owed : Numbered(o) /\ o.id > 0
      BY <2>1, <2>5 DEF EventIsHandled, Numbered
    <3>2. UNCHANGED <<toClient, answered>>  BY <2>5 DEF EventIsHandled
    <3> QED  BY <1>1, <1>3, <3>1, <3>2, CallsStay
  <2> QED  BY <1>5, <2>3, <2>4, <2>5 DEF ServerReadsEvent
<1> QED  BY <1>1, <1>4, <1>5

(* In every reachable state calls and their numbers fit together.          *)
THEOREM CallsInvariant == Spec => []CallsInv
<1>1. TypeOK /\ CallsInv /\ [Next]_vars => CallsInv'
  <2> SUFFICES ASSUME TypeOK, CallsInv, [Next]_vars PROVE CallsInv'  OBVIOUS
  <2> USE DEF schemaVars, clientVars, admitVars, queueVars, serverVars, callVars
  <2>1. CASE UNCHANGED <<callbacks, ackCounter, made, answered, emitting, toServer, owed, toClient>>
    BY <2>1, CallsStay DEF CallsInv, EventsInv
  <2>2. CASE UNCHANGED vars  BY <2>1, <2>2 DEF vars
  <2>3. CASE Dial  BY <2>1, <2>3 DEF Dial
  <2>4. CASE Lose \/ Restart  BY <2>4, CallsOfDisconnect DEF Lose, Restart
  <2>5. CASE ClientReads  BY <2>5, CallIsTaken
  <2>6. CASE ServerReads  BY <2>6, CallsOfServerReads
  <2>7. ASSUME NEW n \in Nsp, Of(n) PROVE CallsInv'  BY <2>1, <2>7 DEF Of
  <2>8. ASSUME NEW n \in Nsp, SendConnect(n) PROVE CallsInv'
    <3>1. [type |-> "connect", nsp |-> n] \in AskFrame  BY DEF AskFrame
    <3>2. Frames(toServer', "event") \subseteq Frames(toServer, "event")
      BY <2>8, <3>1, QueueSteps DEF SendConnect
    <3> QED  BY <2>8, <3>2, CallsStay DEF SendConnect, CallsInv, EventsInv
  <2>9. ASSUME NEW n \in Nsp, Admit(n) PROVE CallsInv'
    <3> DEFINE e == ErrorFrame(n, 0, NoCall)
               c == [type |-> "connect", nsp |-> n, table |-> export[n]]
    <3>1. /\ UNCHANGED <<clientVars, toServer, serverVars, callVars>>
          /\ UNCHANGED toClient \/ ToClient(e) \/ ToClient(c)
      BY <2>9 DEF Admit, AdmissionStep, AddSocket, Reject, Export, Announce, Fire
    <3>2. /\ e \in AckFrame /\ Numbered(e) /\ e.call = NoCall
          /\ c \in ConnectFrame /\ c.type # "ack"
      BY SessionAssumption DEF ErrorFrame, AckFrame, ConnectFrame, Number, Numbered, TypeOK
    <3> HIDE DEF e, c
    <3>3. \A g \in Frames(toClient', "ack") : g \in Frames(toClient, "ack") \/ g = e
      BY <3>1, <3>2, QueueSteps
    <3> QED  BY <3>1, <3>2, <3>3, CallsStay DEF CallsInv, EventsInv
  <2>10. ASSUME NEW p \in Pair, Emit(p) PROVE CallsInv'
    <3>1. \A f \in emitting' : f \in emitting \/ (f.id = 0 /\ f.call = NoCall)
      BY <2>10 DEF Emit, Hold, EventFrameOf
    <3> QED  BY <2>10, <3>1, CallsStay DEF Emit, CallsInv, EventsInv, Numbered
  <2>11. ASSUME NEW p \in Pair, EmitAck(p) PROVE CallsInv'  BY <2>11, CallIsMade
  <2>12. ASSUME NEW p \in Pair, StartPush(p) PROVE CallsInv'  BY <2>1, <2>12 DEF StartPush
  <2>13. ASSUME NEW p \in Pair, NEW v \in Version, Schema(p, v) \/ LocalSchema(p, v)
         PROVE  CallsInv'
    BY <2>1, <2>13 DEF Schema, LocalSchema
  <2>14. ASSUME NEW f \in emitting, WriteEmit(f) PROVE CallsInv'
    <3>1. f \in EventFrame  BY DEF TypeOK
    <3>2. \A g \in (emitting \cup Frames(toServer, "event"))' :
             g \in emitting \cup Frames(toServer, "event")
      BY <2>14, <3>1, QueueSteps DEF WriteEmit
    <3> QED  BY <2>14, <3>2, CallsStay DEF WriteEmit, CallsInv, EventsInv
  <2>15. ASSUME NEW o \in owed, NEW c \in {Default, Empty}, Answer(o, c) PROVE CallsInv'
    <3> DEFINE a == [type |-> "ack", nsp |-> o.nsp, event |-> o.event, codec |-> c,
                     id |-> o.id, call |-> o.call]
    <3>1. /\ a \in AckFrame /\ Numbered(a) /\ a.call = o.call
          /\ o.call \in Call /\ o.call <= made /\ o.call % AckMod # 0
      BY SessionAssumption DEF AckFrame, TypeOK, CallsInv, OwedInv, Numbered, Call, Number
    <3>2. ToClient(a)  BY <2>15 DEF Answer
    <3> HIDE DEF a
    <3>3. \A g \in Frames(toClient', "ack") : g \in Frames(toClient, "ack") \/ g = a
      BY <3>1, <3>2, QueueSteps
    <3>4. /\ UNCHANGED <<callbacks, ackCounter, made, emitting, toServer, owed>>
          /\ answered' = answered \cup {o.call}
      BY <2>15 DEF Answer
    <3> QED  BY <3>1, <3>3, <3>4, CallsStay DEF CallsInv, EventsInv
  <2>16. ASSUME NEW f \in pushing, SendPush(f) PROVE CallsInv'
    <3>1. f \in EventFrame /\ f.type # "ack"  BY DEF TypeOK, EventFrame
    <3>2. \A g \in Frames(toClient', "ack") : g \in Frames(toClient, "ack")
      BY <2>16, <3>1, QueueSteps DEF SendPush
    <3> QED  BY <2>16, <3>2, CallsStay DEF SendPush, CallsInv, EventsInv
  <2> QED
    BY <2>2, <2>3, <2>4, <2>5, <2>6, <2>7, <2>8, <2>9, <2>10, <2>11, <2>12, <2>13, <2>14, <2>15,
       <2>16
    DEF Next
<1> QED  BY <1>1, CallsBegin, TypeCorrect, PTL DEF Spec
-----------------------------------------------------------------------------
(* Callbacks that wait.                                                    *)

(* A call waits exactly if its own place in the table is its own.          *)
LEMMA WaitingCalls ==
    ASSUME TypeOK, CallsInv
    PROVE  \A k : k \in Waiting <=> /\ k \in Call /\ k <= made
                                    /\ k % AckMod \in Number /\ callbacks[k % AckMod] = k
<1>1. \A i \in Number : callbacks[i] # NoCall =>
         callbacks[i] \in Call /\ callbacks[i] <= made /\ callbacks[i] % AckMod = i
  BY DEF TypeOK, CallsInv, TableInv
<1>2. \A k \in Call : k # NoCall  BY SessionAssumption DEF Call
<1> QED  BY <1>1, <1>2 DEF Waiting

(* A callback is called with the answer to its own event, to one of at     *)
(* least 2^32 calls ago, or, so many calls on, with one to none.           *)
THEOREM AnswersGoHome == Spec => []AnswersAreOwn
<1>1. Init => AnswersAreOwn  BY DEF Init, ServerInit, ClientInit, AnswersAreOwn
<1>2. TypeOK /\ CallsInv /\ AnswersAreOwn /\ [Next]_vars => AnswersAreOwn'
  <2> SUFFICES ASSUME TypeOK, CallsInv, AnswersAreOwn, [Next]_vars PROVE AnswersAreOwn'
    OBVIOUS
  <2> DEFINE f == Head(toClient)
  <2>1. CASE UNCHANGED ran  BY <2>1 DEF AnswersAreOwn
  <2>2. CASE ClientReads /\ ran' # ran
    <3>1. /\ toClient # <<>> /\ ReadAck(f)
          /\ ran' = ran \cup {<<callbacks[f.id], f.call>>} /\ callbacks[f.id] # NoCall
      BY <2>2 DEF ClientReads, ReadConnect, ReadEvent, ReadAck
    <3>2. f \in Frames(toClient, "ack")  BY <3>1, QueueSteps DEF ReadAck
    <3>3. /\ f.id \in Number /\ f.call \in Call \cup {NoCall} /\ Numbered(f)
          /\ f.call # NoCall => f.call \in Call
      BY <3>2, FramesHoldCalls DEF AckFrame, CallsInv, AcksInv
    <3> HIDE DEF f
    <3> DEFINE k == callbacks[f.id]
    <3>4. /\ k \in Call /\ k \in Nat \ {0} /\ k <= made /\ k % AckMod = f.id
          /\ \A j \in Call : k < j /\ j <= made => j % AckMod # f.id
      BY <3>1, <3>3 DEF TypeOK, CallsInv, TableInv, Call
    <3> HIDE DEF k
    <3>5. AckMod \in Nat \ {0}  BY SessionAssumption
    <3>6. CASE f.call = NoCall
      <4>1. k % AckMod = 0  BY <3>3, <3>4, <3>6 DEF Numbered
      <4>2. (AckMod * 0 + 0) % AckMod = 0  BY ModUnique, <3>5
      <4>3. 0 % AckMod = 0  BY <4>2, <3>5
      <4>4. 0 + AckMod <= k  BY <4>1, <4>3, <3>4, <3>5, Congruent
      <4> QED  BY <3>1, <3>4, <3>5, <3>6, <4>4 DEF AnswersAreOwn, k
    <3>7. CASE f.call # NoCall
      <4>1. /\ f.call \in Call /\ f.call \in Nat /\ f.call <= made /\ f.call % AckMod = k % AckMod
        BY <3>3, <3>4, <3>7 DEF Numbered, Call
      <4>2. ~(k < f.call)  BY <3>4, <4>1
      <4>3. f.call < k => f.call + AckMod <= k  BY <3>4, <3>5, <4>1, Congruent
      <4>4. k = f.call \/ k >= f.call + AckMod  BY <3>4, <3>5, <4>1, <4>2, <4>3
      <4> QED  BY <3>1, <3>7, <4>4 DEF AnswersAreOwn, k
    <3> QED  BY <3>6, <3>7
  <2>3. UNCHANGED ran \/ ClientReads
    BY DEF Next, vars, callVars, Dial, Lose, Restart, Disconnect, ServerReads, Of, SendConnect, Admit,
       AdmissionStep, AddSocket, Reject, Export, Announce, Fire, Emit, EmitAck, StartPush, Schema,
       LocalSchema, WriteEmit, Answer, SendPush
  <2> QED  BY <2>1, <2>2, <2>3
<1> QED  BY <1>1, <1>2, TypeCorrect, CallsInvariant, PTL DEF Spec

(* Where calls are: on the connection, with the client, or lost to known   *)
(* causes. A step that makes no call and loses none leaves no orphan.      *)
LEMMA NoOrphans ==
    ASSUME OrphansAreExplained,
           Waiting' \subseteq Waiting,
           \A f \in Frames(toServer, "event") \cup owed \cup Frames(toClient, "ack") \cup emitting :
              f.call # NoCall /\ f.call \in Waiting' =>
                  \/ \E g \in Frames(toServer', "event") \cup owed' \cup Frames(toClient', "ack")
                                \cup emitting' : g.call = f.call
                  \/ f.call \in gone',
           gone \subseteq gone'
    PROVE  OrphansAreExplained'
  BY DEF OrphansAreExplained, OnConnection, CallsOf

(* Every callback that waits has its event or its answer under way, or     *)
(* that was lost for a known reason.                                       *)
THEOREM OrphansExplained == Spec => []OrphansAreExplained
<1>1. Init => OrphansAreExplained  BY DEF Init, ServerInit, ClientInit, OrphansAreExplained, Waiting
<1>2. TypeOK /\ TypeOK' /\ CallsInv /\ CallsInv' /\ OrphansAreExplained /\ [Next]_vars
      => OrphansAreExplained'
  <2> SUFFICES ASSUME TypeOK, TypeOK', CallsInv, CallsInv', OrphansAreExplained, [Next]_vars
               PROVE  OrphansAreExplained'
    OBVIOUS
  <2> USE DEF schemaVars, clientVars, admitVars, queueVars, serverVars, callVars
  <2>1. CASE /\ UNCHANGED <<callbacks, gone>>
             /\ Frames(toServer, "event") \subseteq Frames(toServer', "event")
             /\ Frames(toClient, "ack") \subseteq Frames(toClient', "ack")
             /\ owed \subseteq owed' /\ emitting \subseteq emitting'
    <3>1. Waiting' = Waiting  BY <2>1 DEF Waiting
    <3> QED  BY <2>1, <3>1, NoOrphans
  <2>2. CASE UNCHANGED vars  BY <2>1, <2>2 DEF vars
  <2>3. CASE Dial  BY <2>1, <2>3 DEF Dial
  <2>4. CASE Lose \/ Restart
    <3>1. Disconnect  BY <2>4 DEF Lose, Restart
    <3>2. Waiting' = Waiting /\ gone' = gone \cup OnConnection
      BY <3>1 DEF Disconnect, Waiting
    <3>3. CallsOf(emitting) \subseteq CallsOf(emitting')
      <4>1. \A g \in emitting : [g EXCEPT !.fresh = FALSE].call = g.call
        BY DEF TypeOK, EventFrame
      <4> QED  BY <3>1, <4>1 DEF Disconnect, CallsOf
    <3> QED  BY <3>2, <3>3 DEF OrphansAreExplained
  <2>5. CASE ClientReads
    <3> DEFINE f == Head(toClient)
    <3>1. /\ toClient # <<>> /\ toClient' = Tail(toClient)
          /\ UNCHANGED <<emitting, toServer, owed, made>>
          /\ ReadConnect(f) \/ ReadEvent(f) \/ ReadAck(f)
      BY <2>5 DEF ClientReads
    <3>2. Frames(toClient, "ack")
             = Frames(toClient', "ack") \cup {g \in {f} : g.type = "ack"}
      BY <3>1, QueueSteps
    <3> HIDE DEF f
    <3>3. CASE f.type # "ack"
      <4>1. UNCHANGED <<callbacks, gone>>
        BY <3>1, <3>3 DEF ReadConnect, ReadEvent, ReadAck
      <4> QED  BY <2>1, <3>1, <3>2, <3>3, <4>1
    <3>4. CASE f.type = "ack"
      <4>1. ReadAck(f)  BY <3>1, <3>4 DEF ReadConnect, ReadEvent
      <4>2. /\ f \in Frames(toClient, "ack")
            /\ f.id \in Number /\ f.call \in Call \cup {NoCall} /\ Numbered(f)
        <5>1. f \in Frames(toClient, "ack")  BY <3>2, <3>4
        <5> QED  BY <5>1, FramesHoldCalls DEF AckFrame, CallsInv, AcksInv
      <4>3. \A i \in Number : callbacks'[i] \in {callbacks[i], NoCall}
        BY <4>1, <4>2 DEF ReadAck, Take, TypeOK
      <4>4. Waiting' \subseteq Waiting  BY <4>3 DEF Waiting
      <4>5. gone \subseteq gone' /\ (f.call \in gone' \/ callbacks'[f.id] = NoCall \/ f.call = NoCall)
        BY <4>1, <4>2 DEF ReadAck, Take, TypeOK, CallsOf
      <4>6. f.call # NoCall /\ f.call \in Waiting' => f.call \in gone'
        <5>1. ASSUME f.call # NoCall, f.call \in Waiting' PROVE callbacks'[f.id] # NoCall
          <6>1. PICK i \in Number : callbacks'[i] = f.call  BY <5>1 DEF Waiting
          <6>2. callbacks[i] = f.call  BY <4>3, <5>1, <6>1
          <6>3. i = f.id  BY <4>2, <5>1, <6>2 DEF Numbered, CallsInv, TableInv
          <6> QED  BY <5>1, <6>1, <6>3
        <5> QED  BY <4>5, <5>1
      <4> QED  BY <3>1, <3>2, <4>4, <4>5, <4>6, NoOrphans
    <3> QED  BY <3>3, <3>4
  <2>6. CASE ServerReads
    <3> DEFINE f == Head(toServer)
    <3>1. /\ toServer # <<>> /\ toServer' = Tail(toServer)
          /\ f \in AskFrame \cup EventFrame
          /\ UNCHANGED <<emitting, callbacks, made>>
          /\ ServerReadsConnect(f) \/ ServerReadsEvent(f)
      BY <2>6, FramesAreTyped DEF ServerReads, FrameToServer
    <3>2. Frames(toServer, "event")
             = Frames(toServer', "event") \cup {g \in {f} : g.type = "event"}
      BY <3>1, QueueSteps
    <3>3. Waiting' = Waiting  BY <3>1 DEF Waiting
    <3>4. CASE ServerReadsConnect(f)
      <4>1. f.nsp \in Nsp
        BY <3>1, <3>4, KindsOfFrames DEF ServerReadsConnect, AskFrame, FrameToServer
      <4>2. ErrorFrame(f.nsp, 0, NoCall) \in AckFrame
        BY <4>1, SessionAssumption DEF ErrorFrame, AckFrame, Number
      <4> HIDE DEF f
      <4>3. UNCHANGED <<owed, gone>> /\ (UNCHANGED toClient \/ ToClient(ErrorFrame(f.nsp, 0, NoCall)))
            /\ f.type # "event"
        BY <3>4 DEF ServerReadsConnect
      <4>4. Frames(toClient, "ack") \subseteq Frames(toClient', "ack")
        BY <4>2, <4>3, QueueSteps
      <4> QED  BY <2>1, <3>1, <3>2, <4>3, <4>4
    <3>5. CASE ServerReadsEvent(f)
      <4>1. f \in EventFrame  BY <3>1, <3>5, KindsOfFrames DEF ServerReadsEvent, FrameToServer
      <4>2. f.nsp \in Nsp /\ f.id \in Number /\ f.call \in Call \cup {NoCall}
        BY <4>1 DEF EventFrame
      <4> HIDE DEF f
      <4>3. CASE EventIsDropped(f)
        <5>1. gone \subseteq gone' /\ (f.call # NoCall => f.call \in gone')
          BY <4>3 DEF EventIsDropped, CallsOf
        <5> QED  BY <3>1, <3>2, <3>3, <4>3, <5>1, NoOrphans DEF EventIsDropped
      <4>4. CASE EventIsRejected(f)
        <5> DEFINE e == ErrorFrame(f.nsp, f.id, f.call)
        <5>1. e \in AckFrame /\ e.type = "ack" /\ e.call = f.call
          BY <4>2, SessionAssumption DEF ErrorFrame, AckFrame
        <5>2. ToClient(e) /\ UNCHANGED <<owed, gone>>  BY <4>4 DEF EventIsRejected
        <5> HIDE DEF e
        <5>3. Frames(toClient', "ack") = Frames(toClient, "ack") \cup {e}
          BY <5>1, <5>2, QueueSteps
        <5> QED  BY <3>1, <3>2, <3>3, <5>1, <5>2, <5>3, NoOrphans
      <4>5. CASE EventIsHandled(f)
        <5>1. UNCHANGED toClient /\ gone \subseteq gone' /\ owed \subseteq owed'
          BY <4>5 DEF EventIsHandled
        <5>2. f.call # NoCall => f.call \in gone' \/ \E o \in owed' : o.call = f.call
          <6>1. [id |-> f.id, call |-> f.call, nsp |-> f.nsp, event |-> f.event].call = f.call
            OBVIOUS
          <6> QED  BY <4>5, <6>1 DEF EventIsHandled, CallsOf
        <5> QED  BY <3>1, <3>2, <3>3, <5>1, <5>2, NoOrphans
      <4> QED  BY <3>5, <4>3, <4>4, <4>5 DEF ServerReadsEvent
    <3> QED  BY <3>1, <3>4, <3>5
  <2>7. ASSUME NEW n \in Nsp, Of(n) PROVE OrphansAreExplained'  BY <2>1, <2>7 DEF Of
  <2>8. ASSUME NEW n \in Nsp, SendConnect(n) PROVE OrphansAreExplained'
    <3>1. [type |-> "connect", nsp |-> n] \in AskFrame  BY DEF AskFrame
    <3>2. Frames(toServer, "event") \subseteq Frames(toServer', "event")
      BY <2>8, <3>1, QueueSteps DEF SendConnect
    <3> QED  BY <2>1, <2>8, <3>2 DEF SendConnect
  <2>9. ASSUME NEW n \in Nsp, Admit(n) PROVE OrphansAreExplained'
    <3> DEFINE e == ErrorFrame(n, 0, NoCall)
               c == [type |-> "connect", nsp |-> n, table |-> export[n]]
    <3>1. /\ UNCHANGED <<clientVars, toServer, serverVars, callVars>>
          /\ UNCHANGED toClient \/ ToClient(e) \/ ToClient(c)
      BY <2>9 DEF Admit, AdmissionStep, AddSocket, Reject, Export, Announce, Fire
    <3>2. e \in AckFrame /\ c \in ConnectFrame
      BY SessionAssumption DEF ErrorFrame, AckFrame, ConnectFrame, Number, TypeOK
    <3> HIDE DEF e, c
    <3>3. Frames(toClient, "ack") \subseteq Frames(toClient', "ack")
      BY <3>1, <3>2, QueueSteps
    <3> QED  BY <2>1, <3>1, <3>3
  <2>10. ASSUME NEW p \in Pair, Emit(p) PROVE OrphansAreExplained'
    BY <2>1, <2>10 DEF Emit, Hold
  <2>11. ASSUME NEW p \in Pair, EmitAck(p) PROVE OrphansAreExplained'
    <3>1. Waiting' \subseteq Waiting \cup {made'}  BY <2>11 DEF EmitAck, Waiting, TypeOK
    <3>2. /\ UNCHANGED <<toServer, toClient, owed>>
          /\ CallsOf(emitting) \subseteq CallsOf(emitting')
          /\ gone \subseteq gone'
      BY <2>11 DEF EmitAck, Hold, CallsOf
    <3>3. made' \in CallsOf(emitting') \cup gone'
      <4>1. made' # NoCall  BY <2>11, SessionAssumption DEF EmitAck, TypeOK
      <4>2. \A fresh \in BOOLEAN :
               EventFrameOf(p, clientSchemas[p], ackCounter, made', fresh).call = made'
        BY DEF EventFrameOf
      <4>3. (p[1] \in connected) \in BOOLEAN  OBVIOUS
      <4>4. EventFrameOf(p, clientSchemas[p], ackCounter, made', p[1] \in connected).call = made'
        BY <4>2, <4>3
      <4> QED  BY <2>11, <4>1, <4>4 DEF EmitAck, Hold, CallsOf
    <3> QED  BY <3>1, <3>2, <3>3 DEF OrphansAreExplained, OnConnection
  <2>12. ASSUME NEW p \in Pair, StartPush(p) PROVE OrphansAreExplained'
    BY <2>1, <2>12 DEF StartPush
  <2>13. ASSUME NEW p \in Pair, NEW v \in Version, Schema(p, v) \/ LocalSchema(p, v)
         PROVE  OrphansAreExplained'
    BY <2>1, <2>13 DEF Schema, LocalSchema
  <2>14. ASSUME NEW f \in emitting, WriteEmit(f) PROVE OrphansAreExplained'
    <3>1. f \in EventFrame /\ f.type = "event"  BY DEF TypeOK, EventFrame
    <3>2. Frames(toServer', "event")
             = Frames(toServer, "event") \cup {g \in {f} : link = "up" /\ g.type = "event"}
      BY <2>14, <3>1, QueueSteps DEF WriteEmit
    <3>3. /\ emitting' = emitting \ {f} /\ UNCHANGED <<callbacks, toClient, owed>>
          /\ gone \subseteq gone' /\ (link # "up" /\ f.call # NoCall => f.call \in gone')
      BY <2>14 DEF WriteEmit, CallsOf
    <3>4. Waiting' = Waiting  BY <3>3 DEF Waiting
    <3> QED  BY <3>1, <3>2, <3>3, <3>4, NoOrphans
  <2>15. ASSUME NEW o \in owed, NEW c \in {Default, Empty}, Answer(o, c) PROVE OrphansAreExplained'
    <3> DEFINE a == [type |-> "ack", nsp |-> o.nsp, event |-> o.event, codec |-> c,
                     id |-> o.id, call |-> o.call]
    <3>1. a \in AckFrame  BY DEF AckFrame, TypeOK
    <3>2. ToClient(a)  BY <2>15 DEF Answer
    <3> HIDE DEF a
    <3>3. Frames(toClient, "ack") \subseteq Frames(toClient', "ack")
      BY <3>1, <3>2, QueueSteps
    <3> QED  BY <2>1, <2>15, <3>3 DEF Answer
  <2>16. ASSUME NEW f \in pushing, SendPush(f) PROVE OrphansAreExplained'
    <3>1. f \in EventFrame  BY DEF TypeOK
    <3>2. Frames(toClient, "ack") \subseteq Frames(toClient', "ack")
      BY <2>16, <3>1, QueueSteps DEF SendPush
    <3> QED  BY <2>1, <2>16, <3>2 DEF SendPush
  <2> QED
    BY <2>2, <2>3, <2>4, <2>5, <2>6, <2>7, <2>8, <2>9, <2>10, <2>11, <2>12, <2>13, <2>14, <2>15,
       <2>16
    DEF Next
<1> QED  BY <1>1, <1>2, TypeCorrect, CallsInvariant, PTL DEF Spec
-----------------------------------------------------------------------------
(* The refinement.                                                         *)

(* The initial states map to initial states, and each step to a step of    *)
(* AckPromise or to none.                                                  *)
LEMMA PromiseBegins == Init => P!PromiseInit
<1> SUFFICES ASSUME Init PROVE P!PromiseInit  OBVIOUS
<1>1. Waiting = {}  BY DEF Init, ServerInit, ClientInit, Waiting
<1>2. \A k \in Call : ~(k <= made)  BY DEF Init, ServerInit, ClientInit, Call
<1> QED  BY <1>1, <1>2 DEF Init, ServerInit, ClientInit, P!PromiseInit

(* Steps that touch neither a callback nor an answer.                      *)
LEMMA PromiseStutters ==
    ASSUME UNCHANGED <<callbacks, made, answered, ran>>
    PROVE  UNCHANGED P!promiseVars
<1>1. Waiting' = Waiting  BY DEF Waiting
<1> QED  BY <1>1 DEF P!promiseVars

(* EmitAck is Ask: who waits under the new call's number is forsaken.      *)
LEMMA PromiseAsks ==
    ASSUME TypeOK, TypeOK', CallsInv, CallsInv', NEW p \in Pair, EmitAck(p),
           NEW call, call = made', NEW i, i = ackCounter
    PROVE  P!Ask(call, i)
<1> DEFINE number == [k \in Call |-> IF k <= made THEN k % AckMod ELSE NoNumber]
<1>1. /\ made \in Nat /\ made' = made + 1 /\ made' \in Call /\ ackCounter = made' % AckMod
      /\ ackCounter \in Number /\ UNCHANGED <<answered, ran>>
      /\ callbacks \in [Number -> Call \cup {NoCall}]
      /\ callbacks' = [callbacks EXCEPT ![ackCounter] = made']
  BY SessionAssumption DEF EmitAck, TypeOK, Call, CallsInv, CounterInv
<1>2. number[made'] = NoNumber  BY <1>1 DEF Call
<1>3. number' = [number EXCEPT ![made'] = ackCounter]
  <2>1. \A k \in Call : k <= made' <=> k <= made \/ k = made'  BY <1>1 DEF Call
  <2>2. \A k \in Call : number'[k] = [number EXCEPT ![made'] = ackCounter][k]
    BY <1>1, <2>1 DEF Call
  <2> QED  BY <2>2
<1>4. Waiting' = {j \in Waiting : number[j] # ackCounter} \cup {made'}
  <2>1. \A k : k \in Waiting <=> k \in Call /\ k <= made /\ k % AckMod \in Number
                                 /\ callbacks[k % AckMod] = k
    BY WaitingCalls
  <2>2. \A k \in Waiting : number[k] = k % AckMod  BY <2>1
  <2>3. \A k : k \in Waiting' <=> \E n \in Number : callbacks'[n] = k /\ k # NoCall
    BY DEF Waiting
  <2>4. made' \in Waiting'
    BY <1>1, <2>3, SessionAssumption DEF Call
  <2>5. ASSUME NEW k, k # made' PROVE k \in Waiting' <=> k \in Waiting /\ k % AckMod # ackCounter
    <3>1. ASSUME k \in Waiting' PROVE k \in Waiting /\ k % AckMod # ackCounter
      <4>1. PICK n \in Number : callbacks'[n] = k /\ k # NoCall  BY <2>3, <3>1
      <4>2. n # ackCounter /\ callbacks[n] = k  BY <1>1, <2>5, <4>1
      <4> QED  BY <4>1, <4>2 DEF Waiting, CallsInv, TableInv
    <3>2. ASSUME k \in Waiting, k % AckMod # ackCounter PROVE k \in Waiting'
      <4>1. callbacks'[k % AckMod] = k /\ k % AckMod \in Number /\ k \in Call
        BY <1>1, <2>1, <3>2
      <4> QED  BY <2>3, <4>1, SessionAssumption DEF Call
    <3> QED  BY <3>1, <3>2
  <2> QED  BY <1>1, <2>1, <2>2, <2>4, <2>5
<1> QED  BY <1>1, <1>2, <1>3, <1>4 DEF P!Ask

(* An acknowledgement function called, or a rejection, is Answer.          *)
LEMMA PromiseAnswers ==
    ASSUME TypeOK, CallsInv, UNCHANGED <<callbacks, made, ran>>,
           NEW k \in Call, k <= made, k % AckMod # 0, answered' = answered \cup {k}
    PROVE  P!Answer(k)
<1>1. Waiting' = Waiting  BY DEF Waiting
<1>2. k % AckMod \in Number \ {0}
  <2>1. AckMod \in Nat \ {0}  BY SessionAssumption
  <2> QED  BY <2>1, ModRange DEF Call, Number
<1> QED  BY <1>1, <1>2 DEF P!Answer

(* An acknowledgement that finds a callback is Keep.                       *)
LEMMA PromiseKeeps ==
    ASSUME TypeOK, CallsInv, ClientReads, ~UNCHANGED <<callbacks, ran>>
    PROVE  P!Keep(callbacks[Head(toClient).id], Head(toClient).call)
<1> DEFINE f == Head(toClient)
           k == callbacks[f.id]
<1>1. /\ toClient # <<>> /\ ReadAck(f) /\ UNCHANGED <<made, answered>>
      /\ ran' = ran \cup {<<k, f.call>>} /\ k # NoCall /\ Take(f.id)
  BY DEF ClientReads, ReadConnect, ReadEvent, ReadAck
<1>2. f \in Frames(toClient, "ack")  BY <1>1, QueueSteps DEF ReadAck
<1>3. /\ f.id \in Number /\ f.call \in Call \cup {NoCall} /\ Numbered(f)
      /\ f.call # NoCall => f.call \in Call /\ f.call \in answered
  BY <1>2, FramesHoldCalls DEF AckFrame, CallsInv, AcksInv
<1> HIDE DEF f
<1>4. k \in Call /\ k <= made /\ k % AckMod = f.id /\ k \in Waiting
  BY <1>1, <1>3 DEF TypeOK, CallsInv, TableInv, Waiting
<1>5. Waiting' = Waiting \ {k}
  <2>1. ASSUME NEW j, j \in Waiting' PROVE j \in Waiting /\ j # k
    <3>1. PICK i \in Number : callbacks'[i] = j /\ j # NoCall  BY <2>1 DEF Waiting
    <3>2. i # f.id /\ callbacks[i] = j  BY <1>1, <1>3, <3>1 DEF Take, TypeOK
    <3> QED  BY <1>4, <3>1, <3>2 DEF Waiting, CallsInv, TableInv
  <2>2. ASSUME NEW j, j \in Waiting, j # k PROVE j \in Waiting'
    <3>1. PICK i \in Number : callbacks[i] = j /\ j # NoCall  BY <2>2 DEF Waiting
    <3>2. i # f.id /\ callbacks'[i] = j  BY <1>1, <1>3, <2>2, <3>1 DEF Take, TypeOK
    <3> QED  BY <3>1, <3>2 DEF Waiting
  <2> QED  BY <2>1, <2>2
<1> HIDE DEF k
<1>6. /\ f.call = NoCall => k % AckMod = 0
      /\ f.call # NoCall => f.call <= made /\ f.call % AckMod = k % AckMod
  BY <1>3, <1>4 DEF Numbered
<1>7. P!Keep(k, f.call)
  BY <1>1, <1>3, <1>4, <1>5, <1>6 DEF P!Keep
<1> QED  BY <1>7 DEF k, f

(* The table of callbacks, with its numbers, frames, lost connections and  *)
(* late answers, keeps the promise of AckPromise.                          *)
THEOREM CallbacksImplementPromise == Spec => AckPromiseIsKept
<1>1. TypeOK /\ TypeOK' /\ CallsInv /\ CallsInv' /\ [Next]_vars
      => [P!PromiseNext]_(P!promiseVars)
  <2> SUFFICES ASSUME TypeOK, TypeOK', CallsInv, CallsInv', [Next]_vars
               PROVE  P!PromiseNext \/ UNCHANGED P!promiseVars
    OBVIOUS
  <2>1. CASE UNCHANGED <<callbacks, made, answered, ran>>  BY <2>1, PromiseStutters
  <2>2. ASSUME NEW p \in Pair, EmitAck(p) PROVE P!PromiseNext
    <3>1. made' \in Call /\ ackCounter \in Number
      BY <2>2, SessionAssumption DEF EmitAck, TypeOK, Call
    <3>2. PICK k \in Call, i \in Number : k = made' /\ i = ackCounter  BY <3>1
    <3>3. P!Ask(k, i)  BY <2>2, <3>2, PromiseAsks
    <3> QED  BY <3>3 DEF P!PromiseNext
  <2>3. CASE ClientReads
    <3> DEFINE f == Head(toClient)
    <3>1. CASE ~UNCHANGED <<callbacks, ran>>
      <4>1. P!Keep(callbacks[f.id], f.call)  BY <2>3, <3>1, PromiseKeeps
      <4>2. toClient # <<>> /\ ReadAck(f) /\ callbacks[f.id] # NoCall
        BY <2>3, <3>1 DEF ClientReads, ReadConnect, ReadEvent, ReadAck
      <4>3. f \in AckFrame
        BY <4>2, FramesAreTyped, KindsOfFrames DEF ReadAck, FrameToClient
      <4>4. callbacks[f.id] \in Call /\ f.call \in Call \cup {NoCall}
        BY <4>2, <4>3 DEF AckFrame, TypeOK
      <4> QED  BY <4>1, <4>4 DEF P!PromiseNext
    <3>2. CASE UNCHANGED <<callbacks, ran>>
      <4>1. UNCHANGED <<made, answered>>  BY <2>3 DEF ClientReads
      <4> QED  BY <2>1, <3>2, <4>1
    <3> QED  BY <3>1, <3>2
  <2>4. CASE ServerReads
    <3> DEFINE f == Head(toServer)
    <3>1. UNCHANGED <<callbacks, made, ran>> /\ toServer # <<>>
          /\ (ServerReadsConnect(f) \/ ServerReadsEvent(f))
      BY <2>4 DEF ServerReads, clientVars
    <3>2. CASE answered' = answered  BY <2>1, <3>1, <3>2
    <3>3. CASE answered' # answered
      <4>1. f.type = "event" /\ EventIsRejected(f)
        BY <3>1, <3>3 DEF ServerReadsConnect, ServerReadsEvent, EventIsDropped, EventIsHandled
      <4>2. f \in EventFrame /\ Numbered(f)
        BY <3>1, <4>1, FramesAreTyped, KindsOfFrames, QueueSteps
        DEF FrameToServer, CallsInv, EventsInv
      <4>3. f.call \in Call /\ f.call <= made /\ f.call % AckMod # 0
        BY <4>1, <4>2, SessionAssumption DEF EventFrame, EventIsRejected, Numbered, Number
      <4> HIDE DEF f
      <4>4. answered' = answered \cup {f.call}  BY <4>1 DEF EventIsRejected
      <4>5. P!Answer(f.call)  BY <3>1, <4>3, <4>4, PromiseAnswers
      <4> QED  BY <4>3, <4>5 DEF P!PromiseNext
    <3> QED  BY <3>2, <3>3
  <2>5. ASSUME NEW o \in owed, NEW c \in {Default, Empty}, Answer(o, c) PROVE P!PromiseNext
    <3>1. /\ UNCHANGED <<callbacks, made, ran>> /\ answered' = answered \cup {o.call}
      BY <2>5 DEF Answer, clientVars
    <3>2. o.call \in Call /\ o.call <= made /\ o.call % AckMod # 0
      BY SessionAssumption DEF TypeOK, CallsInv, OwedInv, Numbered, Call, Number
    <3>3. P!Answer(o.call)  BY <3>1, <3>2, PromiseAnswers
    <3> QED  BY <3>2, <3>3 DEF P!PromiseNext
  <2>6. \/ UNCHANGED <<callbacks, made, answered, ran>>
        \/ \E p \in Pair : EmitAck(p)
        \/ ClientReads
        \/ ServerReads
        \/ \E o \in owed, c \in {Default, Empty} : Answer(o, c)
    BY DEF Next, vars, clientVars, callVars, Dial, Lose, Restart, Disconnect, Of, SendConnect, Admit,
       AdmissionStep, AddSocket, Reject, Export, Announce, Fire, Emit, StartPush, Schema,
       LocalSchema, WriteEmit, SendPush
  <2> QED  BY <2>1, <2>2, <2>3, <2>4, <2>5, <2>6
<1> QED
  BY <1>1, PromiseBegins, TypeCorrect, CallsInvariant, PTL DEF Spec, AckPromiseIsKept, P!Promise
=============================================================================
