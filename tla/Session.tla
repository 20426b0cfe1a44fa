------------------------------- MODULE Session -------------------------------
(***************************************************************************)
(* One client and one server, and what they tell each other: CONNECT       *)
(* frames, which carry the schemas of events; events, each encoded with    *)
(* the schema its sender knows at that moment; acknowledgements.           *)
(* client/client.go, client/namespace.go, server/server.go, server/hub.go, *)
(* server/namespace.go, server/socket.go.                                  *)
(*                                                                         *)
(* On the server the admission of a socket ends with the schemas being     *)
(* exported, CONNECT being written and the handlers being registered. The  *)
(* root socket's runs on the HTTP goroutine, any other's on the read loop, *)
(* which reads no frame meanwhile, or off it if its middleware answers     *)
(* from a goroutine of its own. Emits, broadcasts, answers and schema      *)
(* registrations happen at any time; an emit encodes first, writes later.  *)
(*                                                                         *)
(* The connection is two queues. It can be lost at any moment, with what   *)
(* is in them; frames read before that are the other interleavings. What   *)
(* a peer still does with a connection after its loss reaches nobody and   *)
(* is left out. So is the moment between the publication of a connection   *)
(* and connect's look at the namespaces in use, in which both Of and       *)
(* connect ask for a new one (that is in ClientConn, and what a second     *)
(* CONNECT does to the server in ServerHub). Payloads are abstracted to the codec they were encoded     *)
(* with: the default one or one version of the event's schema. Decoding    *)
(* with another codec fails, or yields something else than was sent, or    *)
(* panics; a panic ends the process, on the server Restart, on the client  *)
(* the behaviour.                                                          *)
(*                                                                         *)
(* A definition whose name ends in _<Suffix> is a seeded bug, a mistake in *)
(* the definition it stands before that some property below must catch; no *)
(* action uses it.                                                         *)
(***************************************************************************)
EXTENDS Naturals, Sequences, FiniteSets

CONSTANTS
    Nsp,            \* namespace names
    Root,           \* the name "/"
    Own,            \* the client's Options.Nsp
    Served,         \* namespaces the server has, from the beginning
    AsyncNsp,       \* namespaces admitted off the read loop
    Event,          \* names of application events
    Pair,           \* the namespaces and events the application uses: <<n, e>>
    Version,        \* versions of schemas
    Default,        \* the default codec, which is also what no schema means
    AckMod,         \* how many acknowledgement numbers there are: 2^32
    MaxCalls,       \* bound: calls of EmitAck
    MaxQueue,       \* bound: application frames are written to a shorter queue only
    MaxEmitting, MaxPushing,    \* bounds: frames of client and server encoded, not yet written
    NoCall, NoNumber

ASSUME SessionAssumption ==
    /\ Root \in Served /\ Served \subseteq Nsp
    /\ Own \in Nsp /\ AsyncNsp \subseteq Nsp
    /\ Pair \subseteq Nsp \X Event
    /\ Default \notin Version
    /\ AckMod \in Nat \ {0, 1}
    /\ MaxCalls \in Nat /\ MaxQueue \in Nat /\ MaxEmitting \in Nat /\ MaxPushing \in Nat
    /\ NoCall \notin Nat /\ NoNumber \notin Nat

VARIABLES
    serverSchemas,  \* Namespace.schemas on the server; Default: none registered
    clientSchemas,  \* Client.schemas
    clientNsps,     \* Client.namespaces
    joining,        \* namespaces the client has still to write CONNECT for
    link,           \* the connection: down, up, or closed by the server but not yet lost
    stage,          \* how far the admission of each namespace's socket is
    export,         \* the schemas an admission has exported
    toServer, toClient,     \* frames on their way
    emitting, pushing,      \* frames encoded, not yet written, by client and server
    owed,           \* acknowledgement functions the server's handlers hold
    callbacks,      \* Client.ackCallbacks
    ackCounter      \* Client.ackCounter

(* Auxiliary variables.                                                    *)
VARIABLES
    connected,      \* namespaces whose CONNECT the client read on this connection
    steady,         \* namespaces and events whose schema this connection did not see change
    made,           \* calls made so far; they are numbered in that order
    answered, ran,  \* as in AckPromise
    gone            \* calls that can no longer be answered, the reason being known

schemaVars == <<serverSchemas, clientSchemas, steady>>
clientVars == <<clientNsps, joining, emitting, callbacks, ackCounter, connected>>
admitVars  == <<link, stage, export>>
queueVars  == <<toServer, toClient>>
serverVars == <<pushing, owed>>
callVars   == <<made, answered, ran, gone>>
vars       == <<schemaVars, clientVars, admitVars, queueVars, serverVars, callVars>>

Call   == 1..MaxCalls   \* calls of EmitAck, in the order they are made
Number == 0..(AckMod - 1)
Codec  == Version \cup {Default}

(* The pairs whose schemas a namespace's CONNECT carries: all of them for  *)
(* the root namespace, its own for any other.                              *)
Exported(n) == {p \in Pair : n \in {Root, p[1]}}
Tables == UNION {[Exported(n) -> Codec] : n \in Nsp}

Error  == "error"       \* the event name of refusals and rejections
Empty  == "empty"       \* the codec of an answer without a payload

ConnectFrame == [type : {"connect"}, nsp : Nsp, table : Tables]
AskFrame     == [type : {"connect"}, nsp : Nsp]
EventFrame   == {f \in [type : {"event"}, nsp : Nsp, event : Event, codec : Codec,
                        id : Number, call : Call \cup {NoCall}, fresh : BOOLEAN] :
                    f.id > 0 => f.call # NoCall}
AckFrame     == [type : {"ack"}, nsp : Nsp, event : Event \cup {Error},
                 codec : {Default, Empty}, id : Number, call : Call \cup {NoCall}]
FrameToServer == AskFrame \cup EventFrame
FrameToClient == ConnectFrame \cup EventFrame \cup AckFrame

TypeOK ==
    /\ serverSchemas \in [Pair -> Codec]
    /\ clientSchemas \in [Pair -> Codec]
    /\ clientNsps \subseteq Nsp
    /\ joining \subseteq clientNsps \ {Root}
    /\ link \in {"down", "up", "closed"}
    /\ stage \in [Nsp -> {"none", "middleware", "member", "exported", "announced", "ready"}]
    /\ export \in [Nsp -> Tables]
    /\ toServer \in Seq(FrameToServer)
    /\ toClient \in Seq(FrameToClient)
    /\ emitting \subseteq EventFrame
    /\ pushing \subseteq EventFrame
    /\ owed \subseteq [id : Number, call : Call, nsp : Nsp, event : Event]
    /\ callbacks \in [Number -> Call \cup {NoCall}]
    /\ ackCounter \in Number
    /\ connected \subseteq Nsp
    /\ steady \subseteq Pair
    /\ made \in 0..MaxCalls
    /\ answered \subseteq Call
    /\ ran \subseteq Call \X (Call \cup {NoCall})
    /\ gone \subseteq Call

Blank(n) == [p \in Exported(n) |-> Default]

(* A new server: namespaces without schemas, and nobody connected.         *)
ServerInit ==
    /\ serverSchemas = Blank(Root)
    /\ stage = [n \in Nsp |-> "none"]
    /\ export = [n \in Nsp |-> Blank(n)]
    /\ pushing = {} /\ owed = {}

(* A new client: no schemas, no callbacks, and its own namespace.          *)
ClientInit ==
    /\ clientSchemas = Blank(Root)
    /\ clientNsps = {Own} /\ joining = {} /\ emitting = {}
    /\ callbacks = [i \in Number |-> NoCall] /\ ackCounter = 1

(* Nothing between the two, and nothing recorded.                          *)
Init ==
    /\ ServerInit /\ ClientInit
    /\ link = "down" /\ toServer = <<>> /\ toClient = <<>>
    /\ connected = {} /\ steady = {}
    /\ made = 0 /\ answered = {} /\ ran = {} /\ gone = {}
-----------------------------------------------------------------------------
(* Helpers.                                                                *)

PairOf(f) == <<f.nsp, f.event>>

(* Pairs whose schema both ends have reason to agree on as a connection    *)
(* begins: not if the server forgot a schema the client still has, which   *)
(* no export can tell it, nor if a broadcast is on its way that was        *)
(* encoded with an earlier schema.                                         *)
Agreeable == {p \in Pair :
    /\ serverSchemas[p] # Default \/ clientSchemas[p] = Default
    /\ \A f \in pushing : PairOf(f) = p => f.codec = serverSchemas[p]}

(* Calls that can still get an answer through the connection.              *)
CallsOf(F) == {f.call : f \in F} \ {NoCall}
Frames(q, t) == {q[i] : i \in {j \in DOMAIN q : q[j].type = t}}
OnConnection == CallsOf(Frames(toServer, "event") \cup owed \cup Frames(toClient, "ack"))

(* Frames written on the connection: they reach the other side's queue as  *)
(* long as both sides have the connection open.                            *)
ToServer(f) == toServer' = IF link = "up" THEN Append(toServer, f) ELSE toServer
ToClient(f) == toClient' = Append(toClient, f)

Rejoin_WithRoot == clientNsps
Rejoin == clientNsps \ {Root}

(* The read loop is not held by an admission.                              *)
LoopFree == \A n \in Nsp \ (AsyncNsp \cup {Root}) : stage[n] \in {"none", "ready"}

(* An answer that is an error: to the event with that number, or, with     *)
(* none (0), to a namespace's CONNECT.                                     *)
ErrorFrame_NoNumber(n, i, k) ==
    [type |-> "ack", nsp |-> n, event |-> Error, codec |-> Default, id |-> 0, call |-> k]
ErrorFrame(n, i, k) ==
    [type |-> "ack", nsp |-> n, event |-> Error, codec |-> Default, id |-> i, call |-> k]

(* The schemas a CONNECT frame carries: only those that were registered,   *)
(* which is why it takes none back.                                        *)
Absorb_KeepsKnown(t) == [p \in Pair |->
    IF p \in DOMAIN t /\ clientSchemas[p] = Default THEN t[p] ELSE clientSchemas[p]]
Absorb(t) == [p \in Pair |->
    IF p \in DOMAIN t /\ t[p] # Default THEN t[p] ELSE clientSchemas[p]]

(* The number of a call, and the number after it: a uint32 that wraps.     *)
Advance_Stuck == ackCounter
Advance_NoWrap == ackCounter + 1
Advance == (ackCounter + 1) % AckMod

(* The callback of an acknowledgement is taken out of the table.           *)
Take_Leaves(i) == UNCHANGED callbacks
Take(i) == callbacks' = [callbacks EXCEPT ![i] = NoCall]

(* Can the client decode an acknowledgement? It looks for a schema of the  *)
(* event the acknowledgement is for; nothing needs no codec.               *)
Readable(f) ==
    \/ f.codec = Empty
    \/ f.event = Error
    \/ f.codec = clientSchemas[PairOf(f)]
-----------------------------------------------------------------------------
(* The connection begins and ends.                                         *)

(* Client.connect and Server.handleConnection: the namespaces in use are   *)
(* to be asked for, and the root namespace's middleware runs.              *)
Dial ==
    /\ link = "down"
    /\ link' = "up"
    /\ joining' = Rejoin
    /\ stage' = [stage EXCEPT ![Root] = "middleware"]
    /\ steady' = Agreeable
    /\ UNCHANGED <<serverSchemas, clientSchemas, clientNsps, emitting, callbacks, ackCounter,
                   connected, export, queueVars, serverVars, callVars>>

(* The connection is gone, and with it what was on it; the callbacks and   *)
(* the schemas the client has learnt stay.                                 *)
Disconnect ==
    /\ link' = "down"
    /\ joining' = {} /\ connected' = {} /\ steady' = {}
    /\ stage' = [n \in Nsp |-> "none"]
    /\ export' = [n \in Nsp |-> Blank(n)]
    /\ toServer' = <<>> /\ toClient' = <<>> /\ owed' = {}
    /\ emitting' = {[f EXCEPT !.fresh = FALSE] : f \in emitting}
    /\ gone' = gone \cup OnConnection
    /\ UNCHANGED <<clientSchemas, clientNsps, callbacks, ackCounter, made, answered, ran>>

Lose ==
    /\ link # "down"
    /\ Disconnect
    /\ UNCHANGED <<serverSchemas, pushing>>

(* The server process ends and starts again, with no schemas at first.     *)
Restart ==
    /\ Disconnect
    /\ serverSchemas' = Blank(Root)
    /\ pushing' = {}
-----------------------------------------------------------------------------
(* Schemas are registered, on the server by Namespace.Schema ...           *)
Schema(p, v) ==
    /\ p[1] \in Served
    /\ v # serverSchemas[p]
    /\ serverSchemas' = [serverSchemas EXCEPT ![p] = v]
    /\ steady' = IF \/ \E n \in {Root, p[1]} : stage[n] \in {"exported", "announced", "ready"}
                    \/ \E f \in pushing : PairOf(f) = p
                 THEN steady \ {p} ELSE steady
    /\ UNCHANGED <<clientSchemas, clientVars, admitVars, queueVars, serverVars, callVars>>

(* ... and on the client by Client.registerSchemas.                        *)
LocalSchema(p, v) ==
    /\ p[1] \in clientNsps
    /\ v # clientSchemas[p]
    /\ clientSchemas' = [clientSchemas EXCEPT ![p] = v]
    /\ steady' = steady \ {p}
    /\ UNCHANGED <<serverSchemas, clientVars, admitVars, queueVars, serverVars, callVars>>
-----------------------------------------------------------------------------
(* The client's calls.                                                     *)

(* Client.Of: a new namespace is asked for if there is a connection.       *)
Of(n) ==
    /\ n \notin clientNsps
    /\ clientNsps' = clientNsps \cup {n}
    /\ joining' = IF link # "down" /\ n # Root THEN joining \cup {n} ELSE joining
    /\ UNCHANGED <<schemaVars, emitting, callbacks, ackCounter, connected, admitVars, queueVars,
                   serverVars, callVars>>

SendConnect(n) ==
    /\ n \in joining
    /\ joining' = joining \ {n}
    /\ ToServer([type |-> "connect", nsp |-> n])
    /\ UNCHANGED <<schemaVars, clientNsps, emitting, callbacks, ackCounter, connected, admitVars,
                   toClient, serverVars, callVars>>

(* Client.doEmit, first half, without a callback or with: the callback is  *)
(* entered under the next number and the payload encoded, which may fail.  *)
EventFrameOf(p, c, i, k, fresh) ==
    [type |-> "event", nsp |-> p[1], event |-> p[2], codec |-> c,
     id |-> i, call |-> k, fresh |-> fresh]
Hold(p, i, k) ==
    emitting' = emitting \cup {EventFrameOf(p, clientSchemas[p], i, k, p[1] \in connected)}
Emit(p) ==
    /\ p[1] \in clientNsps
    /\ Cardinality(emitting) < MaxEmitting
    /\ Hold(p, 0, NoCall)
    /\ UNCHANGED <<schemaVars, clientNsps, joining, callbacks, ackCounter, connected, admitVars,
                   queueVars, serverVars, callVars>>
EmitAck(p) ==
    /\ made < MaxCalls
    /\ p[1] \in clientNsps
    /\ Cardinality(emitting) < MaxEmitting
    /\ made' = made + 1
    /\ ackCounter' = Advance
    /\ callbacks' = [callbacks EXCEPT ![ackCounter] = made']
    /\ \/ Hold(p, ackCounter, made') /\ UNCHANGED gone
       \/ gone' = gone \cup {made'} /\ UNCHANGED emitting
    /\ UNCHANGED <<schemaVars, clientNsps, joining, connected, admitVars, queueVars, serverVars,
                   answered, ran>>

(* Client.doEmit, second half: without a connection the event is dropped.  *)
WriteEmit(f) ==
    /\ f \in emitting
    /\ link = "up" => Len(toServer) < MaxQueue
    /\ emitting' = emitting \ {f}
    /\ ToServer(f)
    /\ gone' = IF link = "up" THEN gone ELSE gone \cup CallsOf({f})
    /\ UNCHANGED <<schemaVars, clientNsps, joining, callbacks, ackCounter, connected, admitVars,
                   toClient, serverVars, made, answered, ran>>
-----------------------------------------------------------------------------
(* Client.handleMessage: one frame. Frames of namespaces the client does   *)
(* not have are dropped.                                                   *)

ReadConnect(f) ==
    /\ f.type = "connect"
    /\ IF f.nsp \in clientNsps
       THEN clientSchemas' = Absorb(f.table) /\ connected' = connected \cup {f.nsp}
       ELSE UNCHANGED <<clientSchemas, connected>>
    /\ UNCHANGED <<callbacks, ran, gone>>

ReadEvent(f) ==
    /\ f.type = "event"
    /\ UNCHANGED <<clientSchemas, connected, callbacks, ran, gone>>

ReadAck(f) ==
    /\ f.type = "ack"
    /\ \/ /\ f.nsp \notin clientNsps \/ ~Readable(f)
          /\ gone' = gone \cup CallsOf({f})
          /\ UNCHANGED <<callbacks, ran>>
       \/ /\ f.nsp \in clientNsps
          /\ IF callbacks[f.id] = NoCall THEN UNCHANGED <<callbacks, ran>>
             ELSE Take(f.id) /\ ran' = ran \cup {<<callbacks[f.id], f.call>>}
          /\ UNCHANGED gone
    /\ UNCHANGED <<clientSchemas, connected>>

ClientReads ==
    /\ toClient # <<>>
    /\ toClient' = Tail(toClient)
    /\ LET f == Head(toClient) IN ReadConnect(f) \/ ReadEvent(f) \/ ReadAck(f)
    /\ UNCHANGED <<serverSchemas, steady, clientNsps, joining, emitting, ackCounter, admitVars,
                   toServer, serverVars, made, answered>>
-----------------------------------------------------------------------------
(* The server's read loop: one frame.                                      *)

(* connHub.handleNamespaceConnect: the admission of a socket begins; a     *)
(* namespace the server does not have is refused with an acknowledgement   *)
(* that has no number; and the root, which needs no asking, is ignored.    *)
ServerReadsConnect(f) ==
    /\ f.type = "connect"
    /\ stage' = IF f.nsp \in Served \ {Root} THEN [stage EXCEPT ![f.nsp] = "middleware"]
                ELSE stage
    /\ IF f.nsp \in Served THEN UNCHANGED toClient
       ELSE ToClient(ErrorFrame(f.nsp, 0, NoCall))
    /\ UNCHANGED <<owed, answered, gone>>

(* Socket.processEvent: the event is not decoded, or finds no handler, or  *)
(* a middleware rejects it, which is an answer, or a handler gets it.      *)
EventIsDropped(f) ==
    /\ gone' = gone \cup CallsOf({f})
    /\ UNCHANGED <<toClient, owed, answered>>
EventIsRejected(f) ==
    /\ stage[f.nsp] = "ready" /\ f.id > 0
    /\ ToClient(ErrorFrame(f.nsp, f.id, f.call))
    /\ answered' = answered \cup {f.call}
    /\ UNCHANGED <<owed, gone>>
EventIsHandled(f) ==
    /\ stage[f.nsp] = "ready"
    /\ IF f.id > 0
       THEN /\ owed' = owed \cup {[id |-> f.id, call |-> f.call, nsp |-> f.nsp, event |-> f.event]}
            /\ UNCHANGED gone
       ELSE gone' = gone \cup CallsOf({f}) /\ UNCHANGED owed
    /\ UNCHANGED <<toClient, answered>>
ServerReadsEvent(f) ==
    /\ f.type = "event"
    /\ EventIsDropped(f) \/ EventIsRejected(f) \/ EventIsHandled(f)
    /\ UNCHANGED stage

ServerReads ==
    /\ link = "up"
    /\ LoopFree
    /\ toServer # <<>>
    /\ toServer' = Tail(toServer)
    /\ LET f == Head(toServer) IN ServerReadsConnect(f) \/ ServerReadsEvent(f)
    /\ UNCHANGED <<schemaVars, clientVars, link, export, pushing, made, ran>>
-----------------------------------------------------------------------------
(* Admission of a namespace's socket.                                      *)

AdmissionStep(n, from, to) ==
    /\ link = "up"
    /\ stage[n] = from
    /\ stage' = [stage EXCEPT ![n] = to]
    /\ UNCHANGED <<schemaVars, clientVars, toServer, serverVars, callVars>>

(* The middleware passes it and it becomes a member.                       *)
AddSocket(n) ==
    /\ AdmissionStep(n, "middleware", "member")
    /\ UNCHANGED <<link, export, toClient>>

(* A middleware rejects it: the server says so and closes the connection.  *)
Reject(n) ==
    /\ AdmissionStep(n, "middleware", "none")
    /\ ToClient(ErrorFrame(n, 0, NoCall))
    /\ link' = "closed"
    /\ UNCHANGED export

(* Server.exportAllSchemas, Namespace.exportSchemas.                       *)
Export(n) ==
    /\ AdmissionStep(n, "member", "exported")
    /\ export' = [export EXCEPT ![n] = [p \in Exported(n) |-> serverSchemas[p]]]
    /\ UNCHANGED <<link, toClient>>

(* CONNECT is written.                                                     *)
Announce(n) ==
    /\ AdmissionStep(n, "exported", "announced")
    /\ ToClient([type |-> "connect", nsp |-> n, table |-> export[n]])
    /\ UNCHANGED <<link, export>>

(* fireConnection: the handlers are registered.                            *)
Fire(n) ==
    /\ AdmissionStep(n, "announced", "ready")
    /\ UNCHANGED <<link, export, toClient>>

Admit(n) == AddSocket(n) \/ Reject(n) \/ Export(n) \/ Announce(n) \/ Fire(n)
-----------------------------------------------------------------------------
(* The server's application.                                               *)

(* An acknowledgement function is called, the first time or again. The     *)
(* default codec is used whatever the event's schema.                      *)
Answer(o, c) ==
    /\ o \in owed
    /\ link = "up"
    /\ Len(toClient) < MaxQueue
    /\ ToClient([type |-> "ack", nsp |-> o.nsp, event |-> o.event, codec |-> c,
                 id |-> o.id, call |-> o.call])
    /\ answered' = answered \cup {o.call}
    /\ UNCHANGED <<schemaVars, clientVars, admitVars, toServer, serverVars, made, ran, gone>>

(* Socket.Emit and the broadcasts: the event is encoded ...                *)
StartPush(p) ==
    /\ p[1] \in Served
    /\ Cardinality(pushing) < MaxPushing
    /\ pushing' = pushing \cup {EventFrameOf(p, serverSchemas[p], 0, NoCall, FALSE)}
    /\ UNCHANGED <<schemaVars, clientVars, admitVars, queueVars, owed, callVars>>

(* ... and written, if the client's socket is among those it is for: a     *)
(* member, or one that a middleware is still looking at.                   *)
SendPush(f) ==
    /\ f \in pushing
    /\ pushing' = pushing \ {f}
    /\ \/ UNCHANGED toClient
       \/ /\ link = "up" /\ stage[f.nsp] # "none"
          /\ Len(toClient) < MaxQueue
          /\ ToClient(f)
    /\ UNCHANGED <<schemaVars, clientVars, admitVars, toServer, owed, callVars>>
-----------------------------------------------------------------------------
Next ==
    \/ Dial \/ Lose \/ Restart
    \/ ClientReads \/ ServerReads
    \/ \E n \in Nsp : Of(n) \/ SendConnect(n) \/ Admit(n)
    \/ \E p \in Pair :
          \/ Emit(p) \/ EmitAck(p) \/ StartPush(p)
          \/ \E v \in Version : Schema(p, v) \/ LocalSchema(p, v)
    \/ \E f \in emitting : WriteEmit(f)
    \/ \E o \in owed, c \in {Default, Empty} : Answer(o, c)
    \/ \E f \in pushing : SendPush(f)

(* Both read loops go on as long as frames come, admissions go on, and     *)
(* connect asks for every namespace of its snapshot. Nothing else need     *)
(* ever happen.                                                            *)
Fairness ==
    /\ WF_vars(ClientReads) /\ WF_vars(ServerReads)
    /\ \A n \in Nsp : WF_vars(SendConnect(n)) /\ WF_vars(Admit(n))

Spec     == Init /\ [][Next]_vars
FairSpec == Spec /\ Fairness
-----------------------------------------------------------------------------
(* Properties.                                                             *)

(* What a decoder is about to read was encoded with the codec it will use, *)
(* once the client has seen the namespace's CONNECT on this connection,    *)
(* whatever either side knew of earlier connections -- for events whose    *)
(* schema did not change after an export, nor was overridden locally, nor  *)
(* forgotten by the server (client.go:364-423, 564-570, hub.go:55-73,      *)
(* namespace.go:107-126).                                                  *)
SettledEventsAreRead ==
    /\ toClient # <<>> => LET f == Head(toClient) IN
          f.type = "event" /\ f.nsp \in connected /\ PairOf(f) \in steady
          => f.codec = clientSchemas[PairOf(f)]
    /\ toServer # <<>> => LET f == Head(toServer) IN
          f.type = "event" /\ f.fresh /\ PairOf(f) \in steady
          => f.codec = serverSchemas[PairOf(f)]

(* Why that is so: the inductive invariant of schemas, part by part.       *)

(* A connection that is down has nothing on it, and no emit counts as      *)
(* having seen it (hub.go:132-149, client.go:507-525).                     *)
DownIsQuiet == link = "down" =>
    /\ stage = [n \in Nsp |-> "none"] /\ connected = {} /\ steady = {}
    /\ toServer = <<>> /\ toClient = <<>>
    /\ \A f \in emitting : ~f.fresh

(* A namespace is asked for once on a connection, by connect if it was in  *)
(* use before and by Of if not, so that its admission goes through each    *)
(* stage once (client.go:234-252, 286-300).                                *)
Asks(n) == {i \in DOMAIN toServer : toServer[i].type = "connect" /\ toServer[i].nsp = n}
AsksAreSingle ==
    /\ Asks(Root) = {}
    /\ \A n \in Nsp \ {Root} :
          /\ \A i, j \in Asks(n) : i = j
          /\ Asks(n) # {} => n \in clientNsps \ joining
          /\ (n \in joining \/ n \notin clientNsps \/ Asks(n) # {}) => stage[n] = "none"

(* An export that has not been overtaken by a registration is true to the  *)
(* server's schemas, before and after it is written to the client.         *)
Announced(n) == stage[n] \in {"announced", "ready"}
IsTrue(t) == \A p \in DOMAIN t : p \in steady => t[p] = serverSchemas[p]
ExportsAreTrue ==
    /\ \A n \in Nsp : DOMAIN export[n] = Exported(n) /\ (stage[n] = "exported" => IsTrue(export[n]))
    /\ \A f \in Frames(toClient, "connect") :
          DOMAIN f.table = Exported(f.nsp) /\ IsTrue(f.table) /\ Announced(f.nsp)

(* The client knows what the CONNECTs it read told it, and nothing of an   *)
(* event that has no schema.                                               *)
ClientKnows ==
    /\ \A n \in connected : Announced(n)
    /\ \A p \in steady :
          \/ clientSchemas[p] = serverSchemas[p]
          \/ serverSchemas[p] # Default /\ \A n \in connected : p \notin Exported(n)

(* Frames of steady events carry the server's schema: an event of the      *)
(* client's that has seen CONNECT, and one of the server's, unless it is   *)
(* before the namespace's CONNECT in the queue.                            *)
IsCurrent(f) == PairOf(f) \in steady => f.codec = serverSchemas[PairOf(f)]
After(i) == LET n == toClient[i].nsp IN
    n \in connected \/ \E j \in 1..(i - 1) : toClient[j].type = "connect" /\ toClient[j].nsp = n
EmitsAreCurrent ==
    \A f \in emitting \cup Frames(toServer, "event") :
        f.fresh => f.nsp \in connected /\ IsCurrent(f)
PushesAreCurrent ==
    /\ \A f \in pushing : IsCurrent(f)
    /\ \A i \in DOMAIN toClient : toClient[i].type = "event" /\ After(i) => IsCurrent(toClient[i])

SchemasInv ==
    /\ DownIsQuiet
    /\ AsksAreSingle
    /\ ExportsAreTrue
    /\ ClientKnows
    /\ EmitsAreCurrent
    /\ PushesAreCurrent

(* The inductive invariant of calls and their numbers: the counter is the  *)
(* next call's number; a callback stands at its own number, and no later   *)
(* call has had that number; whatever carries a call carries its number,   *)
(* and what carries none, or a call numbered 0, is never answered          *)
(* (client.go:551-562, socket.go:256-287).                                 *)
Numbered(x) == IF x.call = NoCall THEN x.id = 0 ELSE x.call <= made /\ x.id = x.call % AckMod

CounterInv  == ackCounter = (made + 1) % AckMod
TableInv    == \A i \in Number : callbacks[i] # NoCall =>
    /\ callbacks[i] <= made /\ callbacks[i] % AckMod = i
    /\ \A k \in Call : callbacks[i] < k /\ k <= made => k % AckMod # i
EventsInv   == \A f \in emitting \cup Frames(toServer, "event") : Numbered(f)
OwedInv     == \A o \in owed : Numbered(o) /\ o.id > 0
AcksInv     == \A f \in Frames(toClient, "ack") :
    Numbered(f) /\ (f.call # NoCall => f.call \in answered)
AnsweredInv == \A k \in answered : k <= made /\ k % AckMod # 0
CallsInv == CounterInv /\ TableInv /\ EventsInv /\ OwedInv /\ AcksInv /\ AnsweredInv

(* A callback that waits has its event or its answer under way, or the     *)
(* answer cannot come any more for a known reason: the event or the answer *)
(* was lost with a connection, was not sent, not decoded, not heard. These *)
(* are the only entries that stay in ackCallbacks (client.go:551-581).     *)
Waiting == {callbacks[i] : i \in Number} \ {NoCall}
OrphansAreExplained == Waiting \subseteq OnConnection \cup CallsOf(emitting) \cup gone

(* A callback is called with an answer to its own event. Only the answer   *)
(* to an event of at least 2^32 calls ago can take its place, or, after as *)
(* many calls, an error that answers none (client.go:553-558, 349-357).    *)
AnswersAreOwn == \A r \in ran :
    IF r[2] = NoCall THEN r[1] >= AckMod ELSE r[1] = r[2] \/ r[1] >= r[2] + AckMod

(* The table of callbacks keeps the promise of AckPromise.                 *)
P == INSTANCE AckPromise WITH
        waiting <- Waiting,
        number <- [k \in Call |-> IF k <= made THEN k % AckMod ELSE NoNumber]
AckPromiseIsKept == P!Promise


(* An answer reaches its callback, unless it is lost with the connection   *)
(* or cannot be decoded (client.go:344-358).                               *)
AnswersArrive ==
    \A k \in Call : link = "up" /\ k \in answered ~> link # "up" \/ k \in gone \/ k \notin Waiting

(* A claim of the repository that the code does not keep: the callback of  *)
(* an event with an auto-synced schema gets "the server's ack payload"     *)
(* (README.md:111-115), even if both ends know the same schema.            *)
AcksDecode == toClient # <<>> => LET f == Head(toClient) IN
    f.type = "ack" /\ PairOf(f) \in steady => Readable(f)
=============================================================================
