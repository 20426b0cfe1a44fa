----------------------------- MODULE SchemaProofs -----------------------------
(***************************************************************************)
(* Proofs about the schemas of Session: what was encoded with a schema is  *)
(* decoded with it, for any namespaces, events, schema versions and        *)
(* bounds, and however often connections are lost and servers restarted.   *)
(*                                                                         *)
(* SchemasInv follows what the server registered through exports, CONNECTs *)
(* on their way and what the client absorbed, and beside them the events   *)
(* that were encoded meanwhile. It is inductive.                           *)
(***************************************************************************)
EXTENDS SessionProofs

(* Sequences, index by index.                                              *)
LEMMA AppendIndexes ==
    ASSUME NEW S, NEW q \in Seq(S), NEW f \in S
    PROVE  /\ Len(q) \in Nat /\ DOMAIN q = 1..Len(q) /\ DOMAIN Append(q, f) = 1..(Len(q) + 1)
           /\ \A i \in 1..Len(q) : Append(q, f)[i] = q[i]
           /\ Append(q, f)[Len(q) + 1] = f
  OBVIOUS

LEMMA TailIndexes ==
    ASSUME NEW S, NEW q \in Seq(S), q # <<>>
    PROVE  /\ Len(q) \in Nat \ {0} /\ DOMAIN q = 1..Len(q) /\ DOMAIN Tail(q) = 1..(Len(q) - 1)
           /\ \A i \in 1..(Len(q) - 1) : Tail(q)[i] = q[i + 1]
           /\ Head(q) = q[1]
  OBVIOUS

(* An export holds the codec of each pair that it exports.                 *)
LEMMA ExportedPairs ==
    /\ \A n \in Nsp, p \in Pair : p \in Exported(n) <=> n \in {Root, p[1]}
    /\ \A p \in Pair : p[1] \in Nsp /\ p \in Exported(p[1])
    /\ \A n \in Nsp : Exported(n) \subseteq Pair
  BY SessionAssumption DEF Exported
-----------------------------------------------------------------------------
(* The parts of SchemasInv, and what leaves each of them alone.            *)
LEMMA PartsStay ==
    ASSUME SchemasInv
    PROVE  /\ UNCHANGED <<link, stage, connected, steady, toServer, toClient, emitting>>
              => DownIsQuiet'
           /\ UNCHANGED <<toServer, clientNsps, joining, stage>> => AsksAreSingle'
           /\ UNCHANGED <<export, stage, toClient, steady, serverSchemas>> => ExportsAreTrue'
           /\ UNCHANGED <<connected, stage, steady, clientSchemas, serverSchemas>> => ClientKnows'
           /\ UNCHANGED <<emitting, toServer, connected, steady, serverSchemas>>
              => EmitsAreCurrent'
           /\ UNCHANGED <<pushing, toClient, connected, steady, serverSchemas>>
              => PushesAreCurrent'
<1>1. UNCHANGED <<link, stage, connected, steady, toServer, toClient, emitting>> => DownIsQuiet'
  BY DEF SchemasInv, DownIsQuiet
<1>2. UNCHANGED <<toServer, clientNsps, joining, stage>> => AsksAreSingle'
  BY DEF SchemasInv, AsksAreSingle, Asks
<1>3. UNCHANGED <<export, stage, toClient, steady, serverSchemas>> => ExportsAreTrue'
  BY DEF SchemasInv, ExportsAreTrue, Announced, IsTrue
<1>4. UNCHANGED <<connected, stage, steady, clientSchemas, serverSchemas>> => ClientKnows'
  BY DEF SchemasInv, ClientKnows, Announced
<1>5. UNCHANGED <<emitting, toServer, connected, steady, serverSchemas>> => EmitsAreCurrent'
  BY DEF SchemasInv, EmitsAreCurrent, IsCurrent
<1>6. UNCHANGED <<pushing, toClient, connected, steady, serverSchemas>> => PushesAreCurrent'
  BY DEF SchemasInv, PushesAreCurrent, IsCurrent, After
<1> QED  BY <1>1, <1>2, <1>3, <1>4, <1>5, <1>6

(* A CONNECT on its way to the client names a namespace.                   *)
LEMMA ConnectsAreTyped ==
    ASSUME TypeOK
    PROVE  \A f \in Frames(toClient, "connect") : f.nsp \in Nsp
<1>1. \A i \in DOMAIN toClient : toClient[i] \in FrameToClient  BY DEF TypeOK
<1> QED  BY <1>1, KindsOfFrames DEF Frames, ConnectFrame

(* The server's queue: a frame that is no CONNECT asks for nothing, and a  *)
(* frame read leaves the others behind it.                                 *)
LEMMA AsksGrow ==
    ASSUME TypeOK, NEW f \in AskFrame \cup EventFrame, ToServer(f), NEW n
    PROVE  Asks(n)' = Asks(n) \cup
               {i \in {Len(toServer) + 1} : link = "up" /\ f.type = "connect" /\ f.nsp = n}
<1>1. toServer \in Seq(FrameToServer) /\ f \in FrameToServer  BY DEF TypeOK, FrameToServer
<1>2. CASE link = "up"
  <2> DEFINE a == Append(toServer, f)
  <2>1. toServer' = a  BY <1>2 DEF ToServer
  <2>2. /\ Len(toServer) \in Nat /\ DOMAIN toServer = 1..Len(toServer)
        /\ DOMAIN a = 1..(Len(toServer) + 1)
        /\ \A i \in 1..Len(toServer) : a[i] = toServer[i]
        /\ a[Len(toServer) + 1] = f
    BY <1>1, AppendIndexes
  <2> HIDE DEF a
  <2>3. \A i : i \in Asks(n)' <=> i \in 1..(Len(toServer) + 1) /\ a[i].type = "connect" /\ a[i].nsp = n
    BY <2>1, <2>2 DEF Asks
  <2>4. \A i : i \in Asks(n) <=> i \in 1..Len(toServer) /\ a[i].type = "connect" /\ a[i].nsp = n
    BY <2>2 DEF Asks
  <2>5. \A i : i \in 1..(Len(toServer) + 1) <=> i \in 1..Len(toServer) \/ i = Len(toServer) + 1
    BY <2>2
  <2> QED  BY <1>2, <2>2, <2>3, <2>4, <2>5
<1>3. CASE link # "up"
  BY <1>3 DEF ToServer, Asks
<1> QED  BY <1>2, <1>3

LEMMA AsksShrink ==
    ASSUME TypeOK, toServer # <<>>, toServer' = Tail(toServer), NEW n
    PROVE  /\ \A i \in Asks(n)' : i \in Nat \ {0} /\ i + 1 \in Asks(n)
           /\ Head(toServer).type = "connect" /\ Head(toServer).nsp = n => 1 \in Asks(n)
<1>1. toServer \in Seq(FrameToServer)  BY DEF TypeOK
<1> DEFINE a == Tail(toServer)
<1>2. /\ Len(toServer) \in Nat \ {0} /\ DOMAIN toServer = 1..Len(toServer)
      /\ DOMAIN a = 1..(Len(toServer) - 1)
      /\ \A i \in 1..(Len(toServer) - 1) : a[i] = toServer[i + 1]
      /\ Head(toServer) = toServer[1]
  BY <1>1, TailIndexes
<1>3. toServer' = a  OBVIOUS
<1> HIDE DEF a
<1>4. \A i \in Asks(n)' : i \in 1..(Len(toServer) - 1) /\ a[i].type = "connect" /\ a[i].nsp = n
  BY <1>2, <1>3 DEF Asks
<1>5. \A i \in 1..(Len(toServer) - 1) : i \in Nat \ {0} /\ i + 1 \in 1..Len(toServer)
  BY <1>2
<1> QED  BY <1>2, <1>4, <1>5 DEF Asks

(* The client's queue: a frame written comes after those before it ...     *)
LEMMA PushesGrow ==
    ASSUME TypeOK, SchemasInv, NEW f \in ConnectFrame \cup EventFrame \cup AckFrame, ToClient(f),
           f.type = "event" => IsCurrent(f),
           UNCHANGED <<connected, steady, serverSchemas>>, pushing' \subseteq pushing
    PROVE  PushesAreCurrent'
<1> DEFINE a == Append(toClient, f)
<1>1. toClient \in Seq(FrameToClient) /\ f \in FrameToClient  BY DEF TypeOK, FrameToClient
<1>2. /\ Len(toClient) \in Nat /\ DOMAIN toClient = 1..Len(toClient)
      /\ DOMAIN a = 1..(Len(toClient) + 1)
      /\ \A i \in 1..Len(toClient) : a[i] = toClient[i]
      /\ a[Len(toClient) + 1] = f
  BY <1>1, AppendIndexes
<1>3. toClient' = a  BY DEF ToClient
<1> HIDE DEF a
<1>4. \A g \in pushing' : IsCurrent(g)'  BY DEF SchemasInv, PushesAreCurrent, IsCurrent
<1>5. ASSUME NEW i \in DOMAIN toClient', toClient'[i].type = "event", After(i)'
      PROVE  IsCurrent(toClient[i])'
  <2>1. CASE i = Len(toClient) + 1
    BY <1>2, <1>3, <1>5, <2>1 DEF IsCurrent
  <2>2. CASE i # Len(toClient) + 1
    <3>1. /\ i \in 1..Len(toClient) /\ toClient'[i] = toClient[i]
          /\ \A j \in 1..(i - 1) : j \in 1..Len(toClient) /\ toClient'[j] = toClient[j]
      BY <1>2, <1>3, <2>2
    <3>2. After(i)  BY <1>5, <3>1 DEF After
    <3> QED  BY <1>2, <1>5, <3>1, <3>2 DEF SchemasInv, PushesAreCurrent, IsCurrent
  <2> QED  BY <2>1, <2>2
<1> QED  BY <1>4, <1>5 DEF PushesAreCurrent

(* ... and once a frame is read, what came after it still does: the        *)
(* namespace of a CONNECT that has been read is connected, or the client   *)
(* does not have it.                                                       *)
LEMMA PushesShrink ==
    ASSUME TypeOK, SchemasInv, toClient # <<>>, toClient' = Tail(toClient),
           UNCHANGED <<pushing, steady, serverSchemas>>,
           \A n \in connected' : n \in connected
               \/ (Head(toClient).type = "connect" /\ Head(toClient).nsp = n)
    PROVE  PushesAreCurrent'
<1> DEFINE a == Tail(toClient)
<1>1. toClient \in Seq(FrameToClient)  BY DEF TypeOK
<1>2. /\ Len(toClient) \in Nat \ {0} /\ DOMAIN toClient = 1..Len(toClient)
      /\ DOMAIN a = 1..(Len(toClient) - 1)
      /\ \A i \in 1..(Len(toClient) - 1) : a[i] = toClient[i + 1]
      /\ Head(toClient) = toClient[1]
  BY <1>1, TailIndexes
<1>3. toClient' = a  OBVIOUS
<1> HIDE DEF a
<1>4. \A g \in pushing' : IsCurrent(g)'  BY DEF SchemasInv, PushesAreCurrent, IsCurrent
<1>5. ASSUME NEW i \in DOMAIN toClient', toClient'[i].type = "event", After(i)'
      PROVE  IsCurrent(toClient[i])'
  <2>1. /\ i \in 1..(Len(toClient) - 1) /\ i + 1 \in 1..Len(toClient)
        /\ toClient'[i] = toClient[i + 1]
    BY <1>2, <1>3
  <2>2. After(i + 1)
    <3>1. CASE toClient'[i].nsp \in connected'
      <4>1. 1 \in 1..((i + 1) - 1)  BY <2>1, <1>2
      <4> QED  BY <1>2, <2>1, <3>1, <4>1 DEF After
    <3>2. CASE \E j \in 1..(i - 1) : toClient'[j].type = "connect" /\ toClient'[j].nsp = toClient'[i].nsp
      <4>1. PICK j \in 1..(i - 1) :
               toClient'[j].type = "connect" /\ toClient'[j].nsp = toClient'[i].nsp
        BY <3>2
      <4>2. j + 1 \in 1..((i + 1) - 1) /\ toClient'[j] = toClient[j + 1]
        BY <1>2, <1>3, <2>1
      <4> QED  BY <2>1, <4>1, <4>2 DEF After
    <3> QED  BY <1>5, <3>1, <3>2 DEF After
  <2> QED  BY <1>2, <1>5, <2>1, <2>2 DEF SchemasInv, PushesAreCurrent, IsCurrent
<1> QED  BY <1>4, <1>5 DEF PushesAreCurrent
-----------------------------------------------------------------------------
(* SchemasInv holds at first ...                                           *)
LEMMA SchemasBegin == Init => SchemasInv
<1> SUFFICES ASSUME Init PROVE SchemasInv  OBVIOUS
<1>1. DownIsQuiet /\ ClientKnows  BY DEF Init, ServerInit, ClientInit, DownIsQuiet, ClientKnows
<1>2. AsksAreSingle  BY DEF Init, ServerInit, ClientInit, AsksAreSingle, Asks
<1>3. ExportsAreTrue
  <2>1. Frames(toClient, "connect") = {}  BY DEF Init, ServerInit, ClientInit, Frames
  <2> QED  BY <2>1 DEF Init, ServerInit, ClientInit, ExportsAreTrue, Blank
<1>4. EmitsAreCurrent
  <2>1. Frames(toServer, "event") = {}  BY DEF Init, ServerInit, ClientInit, Frames
  <2> QED  BY <2>1 DEF Init, ServerInit, ClientInit, EmitsAreCurrent
<1>5. PushesAreCurrent  BY DEF Init, ServerInit, ClientInit, PushesAreCurrent
<1> QED  BY <1>1, <1>2, <1>3, <1>4, <1>5 DEF SchemasInv

(* ... and is kept when the connection begins or ends, ...                 *)
LEMMA SchemasOfDial ==
    ASSUME TypeOK, SchemasInv, Dial
    PROVE  SchemasInv'
<1>1. /\ stage = [n \in Nsp |-> "none"] /\ connected = {}
      /\ toServer = <<>> /\ toClient = <<>>
      /\ \A f \in emitting : ~f.fresh
  BY DEF Dial, SchemasInv, DownIsQuiet
<1>2. /\ link' = "up" /\ joining' = Rejoin /\ stage' = [stage EXCEPT ![Root] = "middleware"]
      /\ steady' = Agreeable
      /\ UNCHANGED <<serverSchemas, clientSchemas, clientNsps, emitting, connected, export,
                     toServer, toClient, pushing>>
  BY DEF Dial, queueVars, serverVars
<1>3. DownIsQuiet'  BY <1>2 DEF DownIsQuiet
<1>4. AsksAreSingle'  BY <1>1, <1>2 DEF AsksAreSingle, Asks
<1>5. ExportsAreTrue'
  <2>1. Frames(toClient', "connect") = {}  BY <1>1, <1>2 DEF Frames
  <2>2. \A n \in Nsp : stage'[n] # "exported"  BY <1>1, <1>2
  <2> QED  BY <1>2, <2>1, <2>2 DEF SchemasInv, ExportsAreTrue
<1>6. ClientKnows'  BY <1>1, <1>2 DEF ClientKnows, Agreeable
<1>7. EmitsAreCurrent'
  <2>1. Frames(toServer', "event") = {}  BY <1>1, <1>2 DEF Frames
  <2> QED  BY <1>1, <1>2, <2>1 DEF EmitsAreCurrent
<1>8. PushesAreCurrent'  BY <1>1, <1>2 DEF PushesAreCurrent, IsCurrent, Agreeable
<1> QED  BY <1>3, <1>4, <1>5, <1>6, <1>7, <1>8 DEF SchemasInv

LEMMA SchemasOfDisconnect ==
    ASSUME TypeOK, SchemasInv, Disconnect
    PROVE  SchemasInv'
<1>1. \A f \in emitting' : ~f.fresh
  <2>1. \A f \in emitting : ~[f EXCEPT !.fresh = FALSE].fresh  BY DEF TypeOK, EventFrame
  <2> QED  BY <2>1 DEF Disconnect
<1>2. Frames(toServer', "event") = {} /\ Frames(toClient', "connect") = {}
  BY DEF Disconnect, Frames
<1>3. DownIsQuiet'  BY <1>1 DEF Disconnect, DownIsQuiet
<1>4. AsksAreSingle'  BY DEF Disconnect, AsksAreSingle, Asks
<1>5. ExportsAreTrue'  BY <1>2 DEF Disconnect, ExportsAreTrue, Blank
<1>6. ClientKnows'  BY DEF Disconnect, ClientKnows
<1>7. EmitsAreCurrent'  BY <1>1, <1>2 DEF EmitsAreCurrent
<1>8. PushesAreCurrent'  BY DEF Disconnect, PushesAreCurrent, IsCurrent
<1> QED  BY <1>3, <1>4, <1>5, <1>6, <1>7, <1>8 DEF SchemasInv

(* ... when a schema is registered: a pair that stays steady has not been  *)
(* exported on this connection, nor encoded for its client, ...            *)
LEMMA SchemasOfRegistration ==
    ASSUME TypeOK, SchemasInv, NEW p \in Pair, NEW v \in Version, Schema(p, v)
    PROVE  SchemasInv'
<1>1. /\ UNCHANGED <<clientSchemas, clientNsps, joining, emitting, connected, link, stage, export,
                     toServer, toClient, pushing>>
      /\ serverSchemas' = [serverSchemas EXCEPT ![p] = v]
      /\ steady' \subseteq steady
      /\ p \in steady' =>
            /\ \A n \in {Root, p[1]} : stage[n] \notin {"exported", "announced", "ready"}
            /\ \A f \in pushing : PairOf(f) # p
  BY DEF Schema, clientVars, admitVars, queueVars, serverVars
<1>2. \A q \in Pair : q # p => serverSchemas'[q] = serverSchemas[q]
  BY <1>1 DEF TypeOK
<1>3. serverSchemas'[p] = v /\ v # Default
  BY <1>1, SessionAssumption DEF TypeOK
<1>4. p \in steady' => \A n \in Nsp : p \in Exported(n) => ~Announced(n) /\ stage[n] # "exported"
  BY <1>1, ExportedPairs DEF Announced
<1>5. DownIsQuiet'  BY <1>1 DEF SchemasInv, DownIsQuiet
<1>6. AsksAreSingle'  BY <1>1, PartsStay
<1>7. ExportsAreTrue'
  <2>1. ASSUME NEW n \in Nsp, NEW t, DOMAIN t = Exported(n), IsTrue(t),
               Announced(n) \/ stage[n] = "exported"
        PROVE  IsTrue(t)'
    <3> SUFFICES ASSUME NEW q \in Exported(n), q \in steady' PROVE t[q] = serverSchemas'[q]
      BY <2>1 DEF IsTrue
    <3>1. q \in Pair /\ q # p  BY <1>4, <2>1, ExportedPairs
    <3> QED  BY <1>1, <1>2, <2>1, <3>1 DEF IsTrue
  <2>2. \A f \in Frames(toClient, "connect") : f.nsp \in Nsp  BY ConnectsAreTyped
  <2> QED  BY <1>1, <2>1, <2>2 DEF SchemasInv, ExportsAreTrue, Announced
<1>8. ClientKnows'
  <2>1. \A n \in connected' : Announced(n)'  BY <1>1 DEF SchemasInv, ClientKnows, Announced
  <2>2. ASSUME NEW q \in steady'
        PROVE  \/ clientSchemas'[q] = serverSchemas'[q]
               \/ serverSchemas'[q] # Default /\ \A n \in connected' : q \notin Exported(n)
    <3>1. q \in steady /\ q \in Pair  BY <1>1, <2>2 DEF TypeOK
    <3>2. CASE q = p
      <4>1. \A n \in connected' : n \in Nsp /\ Announced(n)
        BY <1>1 DEF SchemasInv, ClientKnows, TypeOK
      <4> QED  BY <1>3, <1>4, <2>2, <3>2, <4>1
    <3>3. CASE q # p
      BY <1>1, <1>2, <3>1, <3>3 DEF SchemasInv, ClientKnows
    <3> QED  BY <3>2, <3>3
  <2> QED  BY <2>1, <2>2 DEF ClientKnows
<1>9. EmitsAreCurrent'
  <2>1. ASSUME NEW f \in emitting \cup Frames(toServer, "event"), f.fresh
        PROVE  f.nsp \in connected' /\ IsCurrent(f)'
    <3>1. f.nsp \in connected /\ IsCurrent(f) /\ Announced(f.nsp)
      BY <2>1 DEF SchemasInv, EmitsAreCurrent, ClientKnows
    <3>2. PairOf(f) \in steady' => PairOf(f) \in Pair /\ PairOf(f)[1] = f.nsp
      BY <1>1 DEF TypeOK, PairOf
    <3>3. PairOf(f) \in steady' => PairOf(f) # p  BY <1>1, <3>1, <3>2 DEF Announced
    <3> QED  BY <1>1, <1>2, <3>1, <3>2, <3>3 DEF IsCurrent
  <2> QED  BY <1>1, <2>1 DEF EmitsAreCurrent
<1>10. PushesAreCurrent'
  <2>1. ASSUME NEW f \in pushing PROVE IsCurrent(f)'
    <3>1. PairOf(f) \in steady' => PairOf(f) \in Pair /\ PairOf(f) # p  BY <1>1 DEF TypeOK
    <3> QED  BY <1>1, <1>2, <3>1 DEF SchemasInv, PushesAreCurrent, IsCurrent
  <2>2. ASSUME NEW i \in DOMAIN toClient, toClient[i].type = "event", After(i)
        PROVE  IsCurrent(toClient[i])'
    <3> DEFINE f == toClient[i]
    <3>1. Announced(f.nsp)
      <4>1. CASE f.nsp \in connected  BY <4>1 DEF SchemasInv, ClientKnows
      <4>2. CASE \E j \in 1..(i - 1) : toClient[j].type = "connect" /\ toClient[j].nsp = f.nsp
        <5>1. PICK j \in 1..(i - 1) : toClient[j].type = "connect" /\ toClient[j].nsp = f.nsp
          BY <4>2
        <5>2. j \in DOMAIN toClient  BY <2>2 DEF TypeOK
        <5>3. toClient[j] \in Frames(toClient, "connect")  BY <5>1, <5>2 DEF Frames
        <5> QED  BY <5>1, <5>3 DEF SchemasInv, ExportsAreTrue
      <4> QED  BY <2>2, <4>1, <4>2 DEF After
    <3>2. IsCurrent(f)  BY <2>2 DEF SchemasInv, PushesAreCurrent
    <3>3. PairOf(f) \in steady' => PairOf(f) \in Pair /\ PairOf(f)[1] = f.nsp
      BY <1>1 DEF TypeOK, PairOf
    <3>4. PairOf(f) \in steady' => PairOf(f) # p  BY <1>1, <3>1, <3>3 DEF Announced
    <3> QED  BY <1>1, <1>2, <3>2, <3>3, <3>4 DEF IsCurrent
  <2> QED  BY <1>1, <2>1, <2>2 DEF PushesAreCurrent, After
<1> QED  BY <1>5, <1>6, <1>7, <1>8, <1>9, <1>10 DEF SchemasInv

LEMMA SchemasOfLocalSchema ==
    ASSUME TypeOK, SchemasInv, NEW p \in Pair, NEW v \in Version, LocalSchema(p, v)
    PROVE  SchemasInv'
<1>1. /\ UNCHANGED <<serverSchemas, clientNsps, joining, emitting, connected, link, stage, export,
                     toServer, toClient, pushing>>
      /\ clientSchemas' = [clientSchemas EXCEPT ![p] = v]
      /\ steady' = steady \ {p}
  BY DEF LocalSchema, clientVars, admitVars, queueVars, serverVars
<1>2. DownIsQuiet'  BY <1>1 DEF SchemasInv, DownIsQuiet
<1>3. AsksAreSingle'  BY <1>1, PartsStay
<1>4. ExportsAreTrue'  BY <1>1 DEF SchemasInv, ExportsAreTrue, IsTrue, Announced
<1>5. ClientKnows'  BY <1>1 DEF SchemasInv, ClientKnows, Announced, TypeOK
<1>6. EmitsAreCurrent'  BY <1>1 DEF SchemasInv, EmitsAreCurrent, IsCurrent
<1>7. PushesAreCurrent'  BY <1>1 DEF SchemasInv, PushesAreCurrent, IsCurrent, After
<1> QED  BY <1>2, <1>3, <1>4, <1>5, <1>6, <1>7 DEF SchemasInv

(* ... when the client asks for a namespace or emits: an emit that has     *)
(* seen CONNECT uses what the server exported, ...                         *)
LEMMA SchemasOfOf ==
    ASSUME TypeOK, SchemasInv, NEW n \in Nsp, Of(n)
    PROVE  SchemasInv'
<1>1. /\ UNCHANGED <<schemaVars, emitting, connected, admitVars, queueVars, serverVars>>
      /\ n \notin clientNsps /\ clientNsps' = clientNsps \cup {n}
      /\ joining \subseteq joining' /\ joining' \subseteq joining \cup {n}
  BY DEF Of
<1>2. AsksAreSingle'
  <2>1. \A m : Asks(m)' = Asks(m)  BY <1>1 DEF Asks, queueVars
  <2>2. n # Root => Asks(n) = {} /\ stage[n] = "none"  BY <1>1 DEF SchemasInv, AsksAreSingle
  <2> QED  BY <1>1, <2>1, <2>2 DEF SchemasInv, AsksAreSingle, admitVars
<1> QED
  BY <1>1, <1>2, PartsStay DEF SchemasInv, schemaVars, admitVars, queueVars, serverVars

LEMMA SchemasOfSendConnect ==
    ASSUME TypeOK, SchemasInv, NEW n \in Nsp, SendConnect(n)
    PROVE  SchemasInv'
<1> DEFINE f == [type |-> "connect", nsp |-> n]
<1>1. /\ UNCHANGED <<schemaVars, clientNsps, emitting, connected, admitVars, toClient, serverVars>>
      /\ n \in joining /\ joining' = joining \ {n} /\ ToServer(f)
  BY DEF SendConnect
<1>2. f \in AskFrame /\ f.type = "connect" /\ f.nsp = n  BY DEF AskFrame
<1> HIDE DEF f
<1>3. n # Root /\ n \in clientNsps /\ Asks(n) = {} /\ stage[n] = "none"
  BY <1>1 DEF TypeOK, SchemasInv, AsksAreSingle
<1>4. DownIsQuiet'
  BY <1>1 DEF SchemasInv, DownIsQuiet, ToServer, schemaVars, admitVars
<1>5. AsksAreSingle'
  <2>1. \A m : Asks(m)' = Asks(m) \cup {i \in {Len(toServer) + 1} : link = "up" /\ n = m}
    BY <1>1, <1>2, AsksGrow
  <2> QED  BY <1>1, <1>3, <2>1 DEF SchemasInv, AsksAreSingle, admitVars
<1>6. EmitsAreCurrent'
  <2>1. Frames(toServer', "event")
           = Frames(toServer, "event") \cup {g \in {f} : link = "up" /\ g.type = "event"}
    BY <1>1, <1>2, QueueSteps
  <2>2. Frames(toServer', "event") = Frames(toServer, "event")  BY <1>2, <2>1
  <2> QED  BY <1>1, <2>2 DEF SchemasInv, EmitsAreCurrent, IsCurrent, schemaVars
<1> QED
  BY <1>1, <1>4, <1>5, <1>6, PartsStay DEF SchemasInv, schemaVars, admitVars, serverVars

(* The fields of an event's frame.                                         *)
LEMMA NewEventFrame ==
    ASSUME NEW p \in Pair, NEW c, NEW i, NEW k, NEW fresh \in BOOLEAN,
           NEW f, f = EventFrameOf(p, c, i, k, fresh)
    PROVE  f.type = "event" /\ f.nsp = p[1] /\ f.codec = c /\ f.fresh = fresh /\ PairOf(f) = p
  BY SessionAssumption DEF EventFrameOf, PairOf

LEMMA SchemasOfEmit ==
    ASSUME TypeOK, SchemasInv, NEW p \in Pair, Emit(p) \/ EmitAck(p)
    PROVE  SchemasInv'
<1>1. UNCHANGED <<schemaVars, clientNsps, joining, connected, admitVars, queueVars, serverVars>>
  BY DEF Emit, EmitAck
<1>2. ASSUME NEW f \in emitting', f \notin emitting
      PROVE  /\ f.fresh <=> p[1] \in connected
             /\ f.nsp = p[1] /\ f.codec = clientSchemas[p] /\ PairOf(f) = p
  <2>1. PICK i \in {0, ackCounter}, k \in {NoCall, made'} :
           f = EventFrameOf(p, clientSchemas[p], i, k, p[1] \in connected)
    BY <1>2 DEF Emit, EmitAck, Hold
  <2>2. (p[1] \in connected) \in BOOLEAN  OBVIOUS
  <2>3. \A fresh \in BOOLEAN : f = EventFrameOf(p, clientSchemas[p], i, k, fresh) =>
           f.nsp = p[1] /\ f.codec = clientSchemas[p] /\ f.fresh = fresh /\ PairOf(f) = p
    BY NewEventFrame
  <2> QED  BY <2>1, <2>2, <2>3
<1>3. p[1] \in connected /\ p \in steady => clientSchemas[p] = serverSchemas[p]
  BY ExportedPairs DEF SchemasInv, ClientKnows
<1>4. DownIsQuiet'
  BY <1>1, <1>2 DEF SchemasInv, DownIsQuiet, schemaVars, admitVars, queueVars
<1>5. EmitsAreCurrent'
  <2>1. ASSUME NEW f \in emitting' \cup Frames(toServer, "event"), f.fresh
        PROVE  f.nsp \in connected /\ IsCurrent(f)
    BY <1>2, <1>3, <2>1 DEF SchemasInv, EmitsAreCurrent, IsCurrent
  <2> QED  BY <1>1, <2>1 DEF EmitsAreCurrent, IsCurrent, schemaVars, queueVars
<1> QED
  BY <1>1, <1>4, <1>5, PartsStay DEF SchemasInv, schemaVars, admitVars, queueVars, serverVars

LEMMA SchemasOfWriteEmit ==
    ASSUME TypeOK, SchemasInv, NEW f \in emitting, WriteEmit(f)
    PROVE  SchemasInv'
<1>1. /\ UNCHANGED <<schemaVars, clientNsps, joining, connected, admitVars, toClient, serverVars>>
      /\ emitting' = emitting \ {f} /\ ToServer(f)
  BY DEF WriteEmit
<1>2. f \in EventFrame /\ f.type = "event"  BY DEF TypeOK, EventFrame
<1>3. DownIsQuiet'
  BY <1>1 DEF SchemasInv, DownIsQuiet, ToServer, schemaVars, admitVars
<1>4. AsksAreSingle'
  <2>1. \A m : Asks(m)' = Asks(m)
    <3>1. \A m : Asks(m)' = Asks(m) \cup
             {i \in {Len(toServer) + 1} : link = "up" /\ f.type = "connect" /\ f.nsp = m}
      BY <1>1, <1>2, AsksGrow
    <3> QED  BY <1>2, <3>1
  <2> QED  BY <1>1, <2>1 DEF SchemasInv, AsksAreSingle, admitVars
<1>5. EmitsAreCurrent'
  <2>1. Frames(toServer', "event") \subseteq Frames(toServer, "event") \cup {f}
    BY <1>1, <1>2, QueueSteps
  <2> QED  BY <1>1, <2>1 DEF SchemasInv, EmitsAreCurrent, IsCurrent, schemaVars
<1> QED
  BY <1>1, <1>3, <1>4, <1>5, PartsStay DEF SchemasInv, schemaVars, admitVars, serverVars

(* ... when the client reads: a CONNECT tells it the server's schemas, ... *)
LEMMA SchemasOfClientReads ==
    ASSUME TypeOK, SchemasInv, ClientReads
    PROVE  SchemasInv'
<1> DEFINE f == Head(toClient)
<1>1. /\ UNCHANGED <<serverSchemas, steady, clientNsps, joining, emitting, admitVars, toServer,
                     serverVars>>
      /\ toClient # <<>> /\ toClient' = Tail(toClient)
      /\ ReadConnect(f) \/ ReadEvent(f) \/ ReadAck(f)
  BY DEF ClientReads
<1>2. f \in FrameToClient  BY <1>1, FramesAreTyped
<1>3. \A g \in Frames(toClient', "connect") : g \in Frames(toClient, "connect")
  BY <1>1, FramesOfTail DEF TypeOK
<1>4. f.type = "connect" => f \in Frames(toClient, "connect")
  BY <1>1, FramesOfTail DEF TypeOK
<1>5. \/ f.type = "connect" /\ clientSchemas' = Absorb(f.table) /\ connected' = connected \cup {f.nsp}
      \/ UNCHANGED <<clientSchemas, connected>>
  BY <1>1 DEF ReadConnect, ReadEvent, ReadAck
<1> HIDE DEF f
<1>6. DownIsQuiet'  BY <1>1 DEF SchemasInv, DownIsQuiet, admitVars
<1>7. ExportsAreTrue'
  BY <1>1, <1>3 DEF SchemasInv, ExportsAreTrue, IsTrue, Announced, admitVars
<1>8. ClientKnows'
  <2>1. CASE f.type = "connect" /\ clientSchemas' = Absorb(f.table)
             /\ connected' = connected \cup {f.nsp}
    <3>1. DOMAIN f.table = Exported(f.nsp) /\ IsTrue(f.table) /\ Announced(f.nsp)
      BY <1>4, <2>1 DEF SchemasInv, ExportsAreTrue
    <3>2. \A n \in connected' : Announced(n)'
      BY <1>1, <2>1, <3>1 DEF SchemasInv, ClientKnows, Announced, admitVars
    <3>3. ASSUME NEW p \in steady
          PROVE  \/ clientSchemas'[p] = serverSchemas[p]
                 \/ serverSchemas[p] # Default /\ \A n \in connected' : p \notin Exported(n)
      <4>1. p \in Pair  BY DEF TypeOK
      <4>2. clientSchemas'[p] = IF p \in Exported(f.nsp) /\ f.table[p] # Default
                                THEN f.table[p] ELSE clientSchemas[p]
        BY <2>1, <3>1, <4>1 DEF Absorb
      <4>3. p \in Exported(f.nsp) => f.table[p] = serverSchemas[p]
        BY <3>1 DEF IsTrue
      <4> QED  BY <2>1, <4>2, <4>3 DEF SchemasInv, ClientKnows
    <3> QED  BY <1>1, <3>2, <3>3 DEF ClientKnows
  <2>2. CASE UNCHANGED <<clientSchemas, connected>>
    BY <1>1, <2>2, PartsStay DEF admitVars
  <2> QED  BY <1>5, <2>1, <2>2
<1>9. EmitsAreCurrent'
  BY <1>1, <1>5 DEF SchemasInv, EmitsAreCurrent, IsCurrent
<1>10. PushesAreCurrent'
  <2>1. \A n \in connected' : n \in connected \/ (Head(toClient).type = "connect" /\ Head(toClient).nsp = n)
    BY <1>5 DEF f
  <2> QED  BY <1>1, <2>1, PushesShrink DEF serverVars
<1> QED
  BY <1>1, <1>6, <1>7, <1>8, <1>9, <1>10, PartsStay DEF SchemasInv, admitVars

(* ... when the server reads: a namespace is asked for that has not been   *)
(* announced, ...                                                          *)
LEMMA SchemasOfServerReads ==
    ASSUME TypeOK, SchemasInv, ServerReads
    PROVE  SchemasInv'
<1>1. PICK f \in FrameToServer : f = Head(toServer)  BY FramesAreTyped DEF ServerReads
<1>2. /\ UNCHANGED <<schemaVars, clientVars, link, export, pushing>>
      /\ link = "up" /\ toServer # <<>> /\ toServer' = Tail(toServer)
      /\ ServerReadsConnect(f) \/ ServerReadsEvent(f)
  BY <1>1 DEF ServerReads
<1>3. \A n : /\ \A i \in Asks(n)' : i \in Nat \ {0} /\ i + 1 \in Asks(n)
             /\ f.type = "connect" /\ f.nsp = n => 1 \in Asks(n)
  BY <1>1, <1>2, AsksShrink
<1>4. Frames(toServer', "event") \subseteq Frames(toServer, "event")
  BY <1>2, QueueSteps
<1>5. \/ /\ f.type = "connect" /\ UNCHANGED toClient
         /\ stage' = [stage EXCEPT ![f.nsp] = "middleware"]
      \/ /\ UNCHANGED stage
         /\ UNCHANGED toClient \/ \E e \in AckFrame : ToClient(e)
  <2>1. CASE ServerReadsConnect(f)
    <3>1. f.nsp \in Nsp  BY <2>1, KindsOfFrames DEF ServerReadsConnect, AskFrame
    <3>2. ErrorFrame(f.nsp, 0, NoCall) \in AckFrame
      BY <3>1, SessionAssumption DEF ErrorFrame, AckFrame, Number
    <3> QED  BY <2>1, <3>2 DEF ServerReadsConnect
  <2>2. CASE ServerReadsEvent(f)
    <3>1. f.nsp \in Nsp /\ f.id \in Number /\ f.call \in Call \cup {NoCall}
      BY <2>2, KindsOfFrames DEF ServerReadsEvent, EventFrame
    <3>2. ErrorFrame(f.nsp, f.id, f.call) \in AckFrame
      BY <3>1 DEF ErrorFrame, AckFrame
    <3> QED
      BY <2>2, <3>2 DEF ServerReadsEvent, EventIsDropped, EventIsRejected, EventIsHandled
  <2> QED  BY <1>2, <2>1, <2>2
<1>6. f.type = "connect" => f.nsp # Root /\ stage[f.nsp] = "none" /\ Asks(f.nsp)' = {}
  <2> SUFFICES ASSUME f.type = "connect" PROVE f.nsp # Root /\ stage[f.nsp] = "none" /\ Asks(f.nsp)' = {}
    OBVIOUS
  <2>1. f.nsp \in Nsp  BY KindsOfFrames DEF AskFrame
  <2>2. 1 \in Asks(f.nsp)  BY <1>3
  <2>3. f.nsp # Root /\ stage[f.nsp] = "none" /\ \A i, j \in Asks(f.nsp) : i = j
    BY <2>1, <2>2 DEF SchemasInv, AsksAreSingle
  <2>4. ASSUME NEW i \in Asks(f.nsp)' PROVE FALSE
    <3>1. i \in Nat \ {0} /\ i + 1 \in Asks(f.nsp)  BY <1>3
    <3>2. i + 1 = 1  BY <2>2, <2>3, <3>1
    <3> QED  BY <3>1, <3>2
  <2> QED  BY <2>3, <2>4
<1>7. \A n \in Nsp : stage'[n] = stage[n] \/ (f.type = "connect" /\ n = f.nsp /\ stage'[n] = "middleware")
  BY <1>5 DEF TypeOK
<1>8. \A n \in Nsp : /\ Announced(n) => Announced(n)'
                     /\ stage'[n] = "exported" => stage[n] = "exported"
  BY <1>6, <1>7 DEF Announced
<1>9. DownIsQuiet'  BY <1>2 DEF DownIsQuiet
<1>10. AsksAreSingle'
  <2>1. Asks(Root)' = {}
    <3>1. Asks(Root) = {}  BY DEF SchemasInv, AsksAreSingle
    <3> QED  BY <1>3, <3>1
  <2>2. ASSUME NEW n \in Nsp \ {Root}
        PROVE  /\ \A i, j \in Asks(n)' : i = j
               /\ Asks(n)' # {} => n \in clientNsps \ joining
               /\ n \in joining \/ n \notin clientNsps \/ Asks(n)' # {} => stage'[n] = "none"
    <3>1. /\ \A i, j \in Asks(n) : i = j
          /\ Asks(n) # {} => n \in clientNsps \ joining
          /\ n \in joining \/ n \notin clientNsps \/ Asks(n) # {} => stage[n] = "none"
      BY DEF SchemasInv, AsksAreSingle
    <3>2. \A i, j \in Asks(n)' : i = j
      <4> TAKE i, j \in Asks(n)'
      <4>1. i \in Nat /\ j \in Nat /\ i + 1 = j + 1  BY <1>3, <3>1
      <4> QED  BY <4>1
    <3>3. Asks(n)' # {} => Asks(n) # {}  BY <1>3
    <3>4. f.type = "connect" /\ f.nsp = n => Asks(n) # {} /\ Asks(n)' = {}  BY <1>3, <1>6
    <3> QED  BY <1>7, <3>1, <3>2, <3>3, <3>4
  <2> QED  BY <1>2, <2>1, <2>2 DEF AsksAreSingle, clientVars
<1>11. ExportsAreTrue'
  <2>1. \A g \in Frames(toClient', "connect") : g \in Frames(toClient, "connect")
    <3>1. ASSUME NEW e \in AckFrame, ToClient(e)
          PROVE  Frames(toClient', "connect") \subseteq Frames(toClient, "connect")
      <4>1. e \in FrameToClient /\ e.type # "connect"  BY DEF FrameToClient, AckFrame
      <4> QED  BY <3>1, <4>1, FramesOfAppend DEF ToClient, TypeOK
    <3> QED  BY <1>5, <3>1
  <2>2. \A g \in Frames(toClient, "connect") : g.nsp \in Nsp
    BY ConnectsAreTyped
  <2> QED
    BY <1>2, <1>8, <2>1, <2>2 DEF SchemasInv, ExportsAreTrue, IsTrue, schemaVars
<1>12. ClientKnows'
  <2>1. connected \subseteq Nsp  BY DEF TypeOK
  <2> QED  BY <1>2, <1>8, <2>1 DEF SchemasInv, ClientKnows, schemaVars, clientVars
<1>13. EmitsAreCurrent'
  BY <1>2, <1>4 DEF SchemasInv, EmitsAreCurrent, IsCurrent, schemaVars, clientVars
<1>14. PushesAreCurrent'
  <2>1. ASSUME NEW e \in AckFrame, ToClient(e) PROVE PushesAreCurrent'
    <3>1. e.type # "event"  BY DEF AckFrame
    <3> QED  BY <1>2, <2>1, <3>1, PushesGrow DEF schemaVars, clientVars
  <2> QED  BY <1>2, <1>5, <2>1, PartsStay DEF schemaVars, clientVars
<1> QED  BY <1>9, <1>10, <1>11, <1>12, <1>13, <1>14 DEF SchemasInv

(* ... when an admission goes on: what it exports is true, and what it     *)
(* announces is what it exported, ...                                      *)
LEMMA SchemasOfAdmit ==
    ASSUME TypeOK, SchemasInv, NEW n \in Nsp, Admit(n)
    PROVE  SchemasInv'
<1> DEFINE e == ErrorFrame(n, 0, NoCall)
           c == [type |-> "connect", nsp |-> n, table |-> export[n]]
<1>1. /\ UNCHANGED <<schemaVars, clientVars, toServer, serverVars>>
      /\ link = "up" /\ stage[n] # "none"
      /\ \A m \in Nsp \ {n} : stage'[m] = stage[m]
      /\ ~Announced(n) \/ Announced(n)'
      /\ link' # "down"
  BY DEF Admit, AddSocket, Reject, Export, Announce, Fire, AdmissionStep, TypeOK, Announced
<1>2. /\ e \in AckFrame /\ e.type = "ack"
      /\ c \in ConnectFrame /\ c.type = "connect" /\ c.nsp = n /\ c.table = export[n]
  BY SessionAssumption DEF ErrorFrame, AckFrame, ConnectFrame, Number, TypeOK
<1>3. \/ UNCHANGED <<export, toClient>> /\ stage'[n] # "exported"
      \/ UNCHANGED export /\ ToClient(e) /\ stage'[n] # "exported"
      \/ UNCHANGED export /\ ToClient(c) /\ stage[n] = "exported" /\ stage'[n] = "announced"
      \/ UNCHANGED toClient /\ export' = [export EXCEPT ![n] = [p \in Exported(n) |-> serverSchemas[p]]]
  BY DEF Admit, AddSocket, Reject, Export, Announce, Fire, AdmissionStep, TypeOK
<1> HIDE DEF e, c
<1>4. \A m \in Nsp : Announced(m) => Announced(m)'
  BY <1>1 DEF Announced
<1>5. DownIsQuiet'  BY <1>1 DEF DownIsQuiet
<1>6. AsksAreSingle'
  <2>1. \A m : Asks(m)' = Asks(m)  BY <1>1 DEF Asks
  <2> QED  BY <1>1, <2>1 DEF SchemasInv, AsksAreSingle, clientVars
<1>7. ExportsAreTrue'
  <2>1. \A t : IsTrue(t)' <=> IsTrue(t)  BY <1>1 DEF IsTrue, schemaVars
  <2>2. ASSUME NEW m \in Nsp
        PROVE  DOMAIN export'[m] = Exported(m) /\ (stage'[m] = "exported" => IsTrue(export[m])')
    <3>1. CASE UNCHANGED export /\ stage'[n] # "exported"
      BY <1>1, <3>1 DEF SchemasInv, ExportsAreTrue, IsTrue, schemaVars
    <3>2. CASE export' = [export EXCEPT ![n] = [p \in Exported(n) |-> serverSchemas[p]]]
      <4>1. CASE m = n
        <5>1. export'[m] = [p \in Exported(n) |-> serverSchemas[p]]
          BY <3>2, <4>1 DEF TypeOK
        <5> QED  BY <1>1, <4>1, <5>1 DEF IsTrue, schemaVars
      <4>2. CASE m # n
        <5>1. export'[m] = export[m] /\ stage'[m] = stage[m]  BY <1>1, <3>2, <4>2 DEF TypeOK
        <5> QED  BY <1>1, <5>1 DEF SchemasInv, ExportsAreTrue, IsTrue, schemaVars
      <4> QED  BY <4>1, <4>2
    <3> QED  BY <1>3, <3>1, <3>2
  <2>3. ASSUME NEW g \in Frames(toClient', "connect")
        PROVE  DOMAIN g.table = Exported(g.nsp) /\ IsTrue(g.table)' /\ Announced(g.nsp)'
    <3>1. CASE g \in Frames(toClient, "connect")
      <4>1. g.nsp \in Nsp  BY <3>1, ConnectsAreTyped
      <4> QED  BY <1>4, <2>1, <3>1, <4>1 DEF SchemasInv, ExportsAreTrue
    <3>2. CASE g \notin Frames(toClient, "connect")
      <4>1. \A x \in ConnectFrame \cup AckFrame : ToClient(x) =>
               Frames(toClient', "connect")
                   = Frames(toClient, "connect") \cup {y \in {x} : y.type = "connect"}
        <5>1. \A x \in ConnectFrame \cup AckFrame : x \in FrameToClient  BY DEF FrameToClient
        <5> QED  BY <5>1, FramesOfAppend DEF ToClient, TypeOK
      <4>2. g = c /\ UNCHANGED export /\ stage[n] = "exported" /\ stage'[n] = "announced"
        BY <1>2, <1>3, <3>2, <4>1
      <4>3. DOMAIN export[n] = Exported(n) /\ IsTrue(export[n])
        BY <4>2 DEF SchemasInv, ExportsAreTrue
      <4> QED  BY <1>2, <2>1, <4>2, <4>3 DEF Announced
    <3> QED  BY <3>1, <3>2
  <2> QED  BY <2>2, <2>3 DEF ExportsAreTrue
<1>8. ClientKnows'
  <2>1. connected \subseteq Nsp  BY DEF TypeOK
  <2> QED  BY <1>1, <1>4, <2>1 DEF SchemasInv, ClientKnows, schemaVars, clientVars
<1>9. EmitsAreCurrent'  BY <1>1, PartsStay DEF schemaVars, clientVars
<1>10. PushesAreCurrent'
  <2>1. ASSUME NEW f \in {e, c}, ToClient(f) PROVE PushesAreCurrent'
    <3>1. f \in ConnectFrame \cup AckFrame /\ f.type # "event"  BY <1>2
    <3> QED  BY <1>1, <2>1, <3>1, PushesGrow DEF schemaVars, clientVars, serverVars
  <2>2. CASE UNCHANGED toClient
    BY <1>1, <2>2, PartsStay DEF schemaVars, clientVars, serverVars
  <2> QED  BY <1>3, <2>1, <2>2
<1> QED  BY <1>5, <1>6, <1>7, <1>8, <1>9, <1>10 DEF SchemasInv

(* ... and when the server answers or emits.                               *)
LEMMA SchemasOfAnswer ==
    ASSUME TypeOK, SchemasInv, NEW o \in owed, NEW c \in {Default, Empty}, Answer(o, c)
    PROVE  SchemasInv'
<1> DEFINE a == [type |-> "ack", nsp |-> o.nsp, event |-> o.event, codec |-> c,
                 id |-> o.id, call |-> o.call]
<1>1. /\ UNCHANGED <<schemaVars, clientVars, admitVars, toServer, serverVars>>
      /\ link = "up" /\ ToClient(a)
  BY DEF Answer
<1>2. a \in AckFrame /\ a.type = "ack"  BY DEF AckFrame, TypeOK
<1> HIDE DEF a
<1>3. DownIsQuiet'  BY <1>1 DEF DownIsQuiet, admitVars
<1>4. ExportsAreTrue'
  <2>1. Frames(toClient', "connect") \subseteq Frames(toClient, "connect")
    <3>1. a \in FrameToClient /\ a.type # "connect"  BY <1>2 DEF FrameToClient
    <3> QED  BY <1>1, <3>1, FramesOfAppend DEF ToClient, TypeOK
  <2> QED
    BY <1>1, <2>1 DEF SchemasInv, ExportsAreTrue, IsTrue, Announced, schemaVars, admitVars
<1>5. PushesAreCurrent'
  BY <1>1, <1>2, PushesGrow DEF schemaVars, clientVars, serverVars
<1> QED
  BY <1>1, <1>3, <1>4, <1>5, PartsStay DEF SchemasInv, schemaVars, clientVars, admitVars

LEMMA SchemasOfStartPush ==
    ASSUME TypeOK, SchemasInv, NEW p \in Pair, StartPush(p)
    PROVE  SchemasInv'
<1> DEFINE f == EventFrameOf(p, serverSchemas[p], 0, NoCall, FALSE)
<1>1. /\ UNCHANGED <<schemaVars, clientVars, admitVars, queueVars>>
      /\ pushing' = pushing \cup {f}
  BY DEF StartPush
<1>2. f.codec = serverSchemas[p] /\ PairOf(f) = p
  BY SessionAssumption DEF EventFrameOf, PairOf
<1> HIDE DEF f
<1>3. PushesAreCurrent'
  BY <1>1, <1>2
  DEF SchemasInv, PushesAreCurrent, IsCurrent, After, schemaVars, clientVars, queueVars
<1> QED
  BY <1>1, <1>3, PartsStay DEF SchemasInv, schemaVars, clientVars, admitVars, queueVars

LEMMA SchemasOfSendPush ==
    ASSUME TypeOK, SchemasInv, NEW f \in pushing, SendPush(f)
    PROVE  SchemasInv'
<1>1. /\ UNCHANGED <<schemaVars, clientVars, admitVars, toServer>>
      /\ pushing' = pushing \ {f}
      /\ UNCHANGED toClient \/ (link = "up" /\ ToClient(f))
  BY DEF SendPush
<1>2. f \in EventFrame /\ f.type = "event" /\ IsCurrent(f)
  BY DEF TypeOK, EventFrame, SchemasInv, PushesAreCurrent
<1>3. DownIsQuiet'
  BY <1>1 DEF SchemasInv, DownIsQuiet, schemaVars, clientVars, admitVars
<1>4. ExportsAreTrue'
  <2>1. Frames(toClient', "connect") \subseteq Frames(toClient, "connect")
    <3>1. f \in FrameToClient /\ f.type # "connect"  BY <1>2 DEF FrameToClient
    <3>2. CASE ToClient(f)  BY <3>1, <3>2, FramesOfAppend DEF ToClient, TypeOK
    <3> QED  BY <1>1, <3>2
  <2> QED
    BY <1>1, <2>1 DEF SchemasInv, ExportsAreTrue, IsTrue, Announced, schemaVars, admitVars
<1>5. PushesAreCurrent'
  <2>1. CASE UNCHANGED toClient
    BY <1>1, <2>1
    DEF SchemasInv, PushesAreCurrent, IsCurrent, After, schemaVars, clientVars
  <2>2. CASE ToClient(f)
    BY <1>1, <1>2, <2>2, PushesGrow DEF schemaVars, clientVars
  <2> QED  BY <1>1, <2>1, <2>2
<1> QED
  BY <1>1, <1>3, <1>4, <1>5, PartsStay DEF SchemasInv, schemaVars, clientVars, admitVars
-----------------------------------------------------------------------------
(* SchemasInv is invariant: exports, CONNECTs on their way, the client's   *)
(* schemas and the events under way agree with what the server registered, *)
(* for every pair of which this connection can know                        *)
(* (client.go:364-423, hub.go:91-130, namespace.go:34-66).                 *)
THEOREM SchemasInvariant == Spec => []SchemasInv
<1>1. TypeOK /\ SchemasInv /\ [Next]_vars => SchemasInv'
  <2> SUFFICES ASSUME TypeOK, SchemasInv, [Next]_vars PROVE SchemasInv'  OBVIOUS
  <2>1. CASE UNCHANGED vars
    BY <2>1, PartsStay
    DEF SchemasInv, vars, schemaVars, clientVars, admitVars, queueVars, serverVars
  <2>2. CASE Dial  BY <2>2, SchemasOfDial
  <2>3. CASE Lose \/ Restart  BY <2>3, SchemasOfDisconnect DEF Lose, Restart
  <2>4. CASE ClientReads  BY <2>4, SchemasOfClientReads
  <2>5. CASE ServerReads  BY <2>5, SchemasOfServerReads
  <2>6. ASSUME NEW n \in Nsp, Of(n) \/ SendConnect(n) \/ Admit(n) PROVE SchemasInv'
    BY <2>6, SchemasOfOf, SchemasOfSendConnect, SchemasOfAdmit
  <2>7. ASSUME NEW p \in Pair, Emit(p) \/ EmitAck(p) \/ StartPush(p) PROVE SchemasInv'
    BY <2>7, SchemasOfEmit, SchemasOfStartPush
  <2>8. ASSUME NEW p \in Pair, NEW v \in Version, Schema(p, v) \/ LocalSchema(p, v)
        PROVE  SchemasInv'
    BY <2>8, SchemasOfRegistration, SchemasOfLocalSchema
  <2>9. ASSUME NEW f \in emitting, WriteEmit(f) PROVE SchemasInv'
    BY <2>9, SchemasOfWriteEmit
  <2>10. ASSUME NEW o \in owed, NEW c \in {Default, Empty}, Answer(o, c) PROVE SchemasInv'
    BY <2>10, SchemasOfAnswer
  <2>11. ASSUME NEW f \in pushing, SendPush(f) PROVE SchemasInv'
    BY <2>11, SchemasOfSendPush
  <2> QED
    BY <2>1, <2>2, <2>3, <2>4, <2>5, <2>6, <2>7, <2>8, <2>9, <2>10, <2>11 DEF Next
<1> QED  BY <1>1, SchemasBegin, TypeCorrect, PTL DEF Spec

(* A decoder meets the codec the payload was encoded with, on both sides,  *)
(* from the namespace's CONNECT on, for every event whose schema has not   *)
(* changed since (client.go:364-423, 564-570, hub.go:55-73).               *)
THEOREM SettledEventsAreDecodable == Spec => []SettledEventsAreRead
<1>1. TypeOK /\ SchemasInv => SettledEventsAreRead
  <2> SUFFICES ASSUME TypeOK, SchemasInv PROVE SettledEventsAreRead  OBVIOUS
  <2>1. ASSUME toClient # <<>>, NEW f, f = Head(toClient),
               f.type = "event", f.nsp \in connected, PairOf(f) \in steady
        PROVE  f.codec = clientSchemas[PairOf(f)]
    <3>1. 1 \in DOMAIN toClient /\ f = toClient[1]  BY <2>1 DEF TypeOK
    <3>2. f.codec = serverSchemas[PairOf(f)]
      BY <2>1, <3>1 DEF SchemasInv, PushesAreCurrent, IsCurrent, After
    <3>3. PairOf(f) \in Exported(f.nsp)
      BY <2>1, ExportedPairs DEF PairOf, TypeOK
    <3> QED  BY <2>1, <3>2, <3>3 DEF SchemasInv, ClientKnows
  <2>2. ASSUME toServer # <<>>, NEW f, f = Head(toServer),
               f.type = "event", f.fresh, PairOf(f) \in steady
        PROVE  f.codec = serverSchemas[PairOf(f)]
    <3>1. f \in Frames(toServer, "event")  BY <2>2, FramesOfTail DEF TypeOK
    <3> QED  BY <2>2, <3>1 DEF SchemasInv, EmitsAreCurrent, IsCurrent
  <2> QED  BY <2>1, <2>2 DEF SettledEventsAreRead
<1> QED  BY <1>1, SchemasInvariant, TypeCorrect, PTL
=============================================================================
