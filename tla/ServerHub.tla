------------------------------ MODULE ServerHub ------------------------------
(***************************************************************************)
(* The server's bookkeeping of connections, namespaces, sockets and rooms: *)
(* server/server.go, server/hub.go, server/namespace.go, server/socket.go. *)
(*                                                                         *)
(* Three kinds of goroutine work on that state at once:                    *)
(*   - the HTTP goroutine of a connection, which starts the connection's   *)
(*     read loop and then runs the root namespace's middleware and admits  *)
(*     the root socket, racing with the read loop it has just started;     *)
(*   - the read loop of a connection, which handles one frame at a time    *)
(*     (a CONNECT frame admits a further socket, on the loop itself unless *)
(*     a middleware answers from a goroutine of its own) and, when the     *)
(*     transport fails, cleans the connection up;                          *)
(*   - application goroutines, which broadcast, join rooms and register    *)
(*     namespaces at any time.                                             *)
(*                                                                         *)
(* A definition whose name ends in _<Suffix> is a seeded bug, a mistake in *)
(* the definition it stands before that some property below must catch; no *)
(* action uses it.                                                         *)
(*                                                                         *)
(* Admission is modelled step by step, as many steps as the code has lock  *)
(* regions: middleware, add (ns.mu), register (hub.mu), announce (the      *)
(* CONNECT frame), fire (the OnConnection handlers).                       *)
(***************************************************************************)
EXTENDS Naturals, Sequences, FiniteSets

CONSTANTS
    Conn,               \* physical WebSocket connections
    Nsp,                \* namespace names a client may ask for
    Root,               \* the name "/"
    Room,               \* room names used by the application
    Bcast,              \* broadcast calls, each made at most once
    Targets,            \* what broadcast calls address: Everyone, rooms, sockets' own id rooms
    MaxJoins,           \* bound: how many sockets a connection can have for each namespace
    MaxOut,             \* bound: optional replies are sent while the outbox is shorter
    AsyncNsp,           \* namespaces whose middleware may call next() later, from another goroutine
    NoSock, NoCall, Everyone

(* One Socket value: the nr-th socket made for namespace nsp on connection *)
(* conn. Its ID, a random number, is the value itself: IDs never collide.  *)
Sock == UNION {[conn : Conn, nsp : {n}, nr : 1..MaxJoins[n]] : n \in Nsp}
RootSock(c) == [conn |-> c, nsp |-> Root, nr |-> 1]

ASSUME ConstantAssumption ==
    /\ Root \in Nsp
    /\ MaxJoins \in [Nsp -> Nat] /\ MaxJoins[Root] = 1
    /\ MaxOut \in Nat
    /\ AsyncNsp \subseteq Nsp
    /\ NoSock \notin Sock
    /\ NoCall \notin Bcast
    /\ Everyone \notin Room

VARIABLES
    namespaces,     \* Server.namespaces: the names registered with Of
    open,           \* connections whose transport still works
    loop,           \* where each connection's read loop is
    closing,        \* handleClose's snapshot: sockets it still has to remove
    onLoop,         \* the socket whose admission runs on the read loop itself
    pc,             \* how far each socket's admission has come
    hubSockets,     \* connHub.sockets
    nsSockets,      \* Namespace.sockets
    rooms,          \* Socket.rooms
    outbox,         \* frames written to each connection, in order
    bcast           \* each broadcast call's progress

(* Auxiliary variables: they record what happened and guard nothing.       *)
VARIABLES
    raced,          \* sockets whose admission was under way when their connection was cleaned up
    superseded,     \* sockets another socket displaced from connHub.sockets
    unheard,        \* sockets that lost an event the client sent after seeing CONNECT
    stayed          \* the part of its audience a running broadcast addressed from its start on

connVars == <<open, loop, closing, onLoop>>
nspVars  == <<namespaces, hubSockets, nsSockets>>
auxVars  == <<raced, superseded, unheard, stayed>>
vars     == <<connVars, nspVars, pc, rooms, outbox, bcast, auxVars>>

SockPC == {"unborn", "middleware", "add", "register", "announce", "fire",
           "admitted", "rejected"}
Frame  == [type : {"connect", "error", "event", "ack", "pong"}, nsp : Nsp,
           sock : Sock \cup {NoSock}, call : Bcast \cup {NoCall}]
Call   == [state : {"idle", "sending", "done"}, nsp : Nsp, target : Targets \cup {Everyone},
           except : Sock \cup {NoSock}, audience : SUBSET Sock, todo : SUBSET Sock]
Idle   == [state |-> "idle", nsp |-> Root, target |-> Everyone,
           except |-> NoSock, audience |-> {}, todo |-> {}]

TypeOK ==
    /\ namespaces \subseteq Nsp
    /\ open \subseteq Conn
    /\ loop \in [Conn -> {"none", "reading", "closing"}]
    /\ closing \in [Conn -> SUBSET Sock]
    /\ onLoop \in [Conn -> Sock \cup {NoSock}]
    /\ pc \in [Sock -> SockPC]
    /\ hubSockets \in [Conn -> [Nsp -> Sock \cup {NoSock}]]
    /\ nsSockets \in [Nsp -> SUBSET Sock]
    /\ rooms \in [Sock -> SUBSET (Room \cup Sock)]
    /\ outbox \in [Conn -> Seq(Frame)]
    /\ bcast \in [Bcast -> Call]
    /\ raced \subseteq Sock
    /\ superseded \subseteq Sock
    /\ unheard \subseteq Sock
    /\ stayed \in [Bcast -> SUBSET Sock]

Init ==
    /\ namespaces = {Root}
    /\ open = {}
    /\ loop = [c \in Conn |-> "none"]
    /\ closing = [c \in Conn |-> {}]
    /\ onLoop = [c \in Conn |-> NoSock]
    /\ pc = [s \in Sock |-> "unborn"]
    /\ hubSockets = [c \in Conn |-> [n \in Nsp |-> NoSock]]
    /\ nsSockets = [n \in Nsp |-> {}]
    /\ rooms = [s \in Sock |-> {}]
    /\ outbox = [c \in Conn |-> <<>>]
    /\ bcast = [b \in Bcast |-> Idle]
    /\ raced = {} /\ superseded = {} /\ unheard = {}
    /\ stayed = [b \in Bcast |-> {}]
-----------------------------------------------------------------------------
(* Helpers.                                                                *)

SocketsOf(c) == {s \in Sock : s.conn = c}

(* The read loop is between two frames.                                    *)
LoopFree_IgnoresError(c) == loop[c] = "reading" /\ onLoop[c] = NoSock /\ c \in open
LoopFree(c) == loop[c] = "reading" /\ onLoop[c] = NoSock

(* handleClose has returned: nothing will ever clean this connection again. *)
Finished(c) == loop[c] = "closing" /\ closing[c] = {}

(* A broadcast holds ns.mu for reading from its first send to its last;    *)
(* addSocket and removeSocket need it for writing.                         *)
NsFree_ReadLockDropped(n) == TRUE
NsFree(n) == \A b \in Bcast : bcast[b].state = "sending" => bcast[b].nsp # n

ConnectFrame(s) == [type |-> "connect", nsp |-> s.nsp, sock |-> s, call |-> NoCall]
ReplyFrame(t, n) == [type |-> t, nsp |-> n, sock |-> NoSock, call |-> NoCall]
ErrorFrame(n) == ReplyFrame("error", n)
EventFrame(s, b) == [type |-> "event", nsp |-> s.nsp, sock |-> s, call |-> b]

(* connHub.send: writes happen one at a time under writeMu, and a write on *)
(* a closed transport is an error the code ignores.                        *)
Send(c, f) == outbox' = IF c \in open THEN [outbox EXCEPT ![c] = Append(@, f)] ELSE outbox

Goto(s, l) == pc' = [pc EXCEPT ![s] = l]

(* The read loop is busy with an admission, or goes on to the next frame.  *)
HoldLoop_Never(s) == UNCHANGED onLoop
HoldLoop(s) == onLoop' = [onLoop EXCEPT ![s.conn] = s]
FreeLoop_Never(s) == UNCHANGED onLoop
FreeLoop(s) == onLoop' = [onLoop EXCEPT ![s.conn] = IF @ = s THEN NoSock ELSE @]

(* Socket.closeConn: the whole physical connection is closed.              *)
CloseConn_Never(s) == UNCHANGED open
CloseConn(s) == open' = open \ {s.conn}

(* Namespace.addSocket and removeSocket, under ns.mu.                      *)
AddMember_Never(s) == UNCHANGED nsSockets
AddMember(s) == nsSockets' = [nsSockets EXCEPT ![s.nsp] = @ \cup {s}]
RemoveMember_Never(s) == UNCHANGED nsSockets
RemoveMember(s) == nsSockets' = [nsSockets EXCEPT ![s.nsp] = @ \ {s}]

(* hub.sockets[nsp] = sock, under hub.mu, over whatever was there.         *)
Route_Never(s) == UNCHANGED hubSockets
Route_ReplacesMap(s) ==
    hubSockets' = [hubSockets EXCEPT ![s.conn] = [n \in Nsp |-> IF n = s.nsp THEN s ELSE NoSock]]
Route(s) == hubSockets' = [hubSockets EXCEPT ![s.conn][s.nsp] = s]

(* handleClose's snapshot of hub.sockets, taken before the map is emptied. *)
Snapshot_AfterClear(c) == {hubSockets'[c][n] : n \in Nsp} \ {NoSock}
Snapshot_WithNil(c) == {hubSockets[c][n] : n \in Nsp}
Snapshot(c) == {hubSockets[c][n] : n \in Nsp} \ {NoSock}

(* Whom a broadcast to namespace n goes through: its members but x.        *)
Recipients_WithSender(n, x) == nsSockets[n]
Recipients(n, x) == nsSockets[n] \ {x}

(* Socket.Join and Socket.Leave; a broadcast under way to a room no longer *)
(* addresses who leaves it.                                                *)
Join(s, r) == rooms' = [rooms EXCEPT ![s] = @ \cup {r}]
Leave(s, r) ==
    /\ rooms' = [rooms EXCEPT ![s] = @ \ {r}]
    /\ stayed' = [b \in Bcast |-> IF bcast[b].target = r THEN stayed[b] \ {s} ELSE stayed[b]]
-----------------------------------------------------------------------------
(* Server.Of: the application registers a namespace, at any time.          *)
Of(n) ==
    /\ n \notin namespaces
    /\ namespaces' = namespaces \cup {n}
    /\ UNCHANGED <<connVars, hubSockets, nsSockets, pc, rooms, outbox, bcast, auxVars>>

(* handleConnection, up to the first middleware: the root Socket exists,   *)
(* the read loop runs, and the HTTP goroutine is about to run middleware.  *)
Accept(c) ==
    /\ loop[c] = "none"
    /\ open' = open \cup {c}
    /\ loop' = [loop EXCEPT ![c] = "reading"]
    /\ Goto(RootSock(c), "middleware")
    /\ rooms' = [rooms EXCEPT ![RootSock(c)] = {RootSock(c)}]
    /\ UNCHANGED <<closing, onLoop, nspVars, outbox, bcast, auxVars>>
-----------------------------------------------------------------------------
(* The read loop: one frame.                                               *)

(* A CONNECT frame for a namespace the server does not have is refused.    *)
ReadRefusedConnect(c, n) ==
    /\ LoopFree(c)
    /\ n \notin namespaces
    /\ Len(outbox[c]) < MaxOut
    /\ Send(c, ErrorFrame(n))
    /\ UNCHANGED <<connVars, nspVars, pc, rooms, bcast, auxVars>>

(* A CONNECT frame for any other namespace but "/" makes a new Socket, even *)
(* if the connection has one there already, and runs its middleware on the *)
(* read loop.                                                              *)
Newborn(c, n) == {s \in Sock : /\ s.conn = c /\ s.nsp = n /\ pc[s] = "unborn"
                               /\ \A t \in Sock : t.conn = c /\ t.nsp = n /\ t.nr < s.nr
                                                  => pc[t] # "unborn"}
ReadConnect(c, n) ==
    /\ LoopFree(c)
    /\ n \in namespaces \ {Root}
    /\ \E s \in Newborn(c, n) :
         /\ Goto(s, "middleware")
         /\ HoldLoop(s)
         /\ rooms' = [rooms EXCEPT ![s] = {s}]
    /\ UNCHANGED <<open, loop, closing, nspVars, outbox, bcast, auxVars>>

(* An EVENT frame runs the routed socket's middleware and handler. The     *)
(* handlers are those the OnConnection handlers registered: until these    *)
(* ran there is none, and the event is dropped without an answer. A        *)
(* handler, or a middleware that rejects, may answer.                      *)
ReadEvent(c, n) ==
    LET s == hubSockets[c][n] IN
    /\ LoopFree(c)
    /\ s # NoSock
    /\ \/ /\ pc[s] = "fire"
          /\ unheard' = unheard \cup {s}
          /\ UNCHANGED outbox
       \/ /\ pc[s] = "admitted"
          /\ Len(outbox[c]) < MaxOut
          /\ Send(c, ReplyFrame("ack", n))
          /\ UNCHANGED unheard
    /\ UNCHANGED <<connVars, nspVars, pc, rooms, bcast, raced, superseded, stayed>>

(* JOIN and LEAVE frames, for the socket the hub routes the namespace to.  *)
ReadJoin(c, n, r) ==
    LET s == hubSockets[c][n] IN
    /\ LoopFree(c)
    /\ s # NoSock
    /\ Join(s, r)
    /\ UNCHANGED <<connVars, nspVars, pc, outbox, bcast, auxVars>>

ReadLeave(c, n, r) ==
    LET s == hubSockets[c][n] IN
    /\ LoopFree(c)
    /\ s # NoSock
    /\ Leave(s, r)
    /\ UNCHANGED <<connVars, nspVars, pc, outbox, bcast, raced, superseded, unheard>>

ReadPing(c, n) ==
    LET s == hubSockets[c][n] IN
    /\ LoopFree(c)
    /\ s # NoSock
    /\ Len(outbox[c]) < MaxOut
    /\ Send(c, ReplyFrame("pong", n))
    /\ UNCHANGED <<connVars, nspVars, pc, rooms, bcast, auxVars>>
-----------------------------------------------------------------------------
(* Admission of a socket: runMiddlewares and the done callback.            *)

(* Every middleware of the chain called next(nil).                         *)
Pass(s) ==
    /\ pc[s] = "middleware"
    /\ Goto(s, "add")
    /\ UNCHANGED <<connVars, nspVars, rooms, outbox, bcast, auxVars>>

(* A middleware called next(err): the client is told, and the whole        *)
(* physical connection is closed, whichever namespace rejected it. The two *)
(* are one step: all that could come between them is other frames on, or   *)
(* the loss of, a connection that is about to be closed.                   *)
Reject(s) ==
    /\ pc[s] = "middleware"
    /\ Goto(s, "rejected")
    /\ Send(s.conn, ErrorFrame(s.nsp))
    /\ CloseConn(s)
    /\ FreeLoop(s)
    /\ UNCHANGED <<loop, closing, nspVars, rooms, bcast, auxVars>>

(* A middleware returned without having called next(): the read loop goes  *)
(* on to the next frame, and the admission continues elsewhere.            *)
Defer(s) ==
    /\ s.nsp \in AsyncNsp
    /\ pc[s] = "middleware"
    /\ onLoop[s.conn] = s
    /\ FreeLoop(s)
    /\ UNCHANGED <<open, loop, closing, nspVars, pc, rooms, outbox, bcast, auxVars>>

(* ns.addSocket.                                                           *)
AddSocket(s) ==
    /\ pc[s] = "add"
    /\ NsFree(s.nsp)
    /\ AddMember(s)
    /\ Goto(s, "register")
    /\ UNCHANGED <<connVars, namespaces, hubSockets, rooms, outbox, bcast, auxVars>>

(* What the route displaces is forgotten by the hub.                       *)
Register(s) ==
    /\ pc[s] = "register"
    /\ Route(s)
    /\ superseded' = superseded \cup ({hubSockets[s.conn][s.nsp]} \ {NoSock})
    /\ Goto(s, "announce")
    /\ UNCHANGED <<connVars, namespaces, nsSockets, rooms, outbox, bcast, raced, unheard, stayed>>

(* The CONNECT frame.                                                      *)
Announce(s) ==
    /\ pc[s] = "announce"
    /\ Send(s.conn, ConnectFrame(s))
    /\ Goto(s, "fire")
    /\ UNCHANGED <<connVars, nspVars, rooms, bcast, auxVars>>

(* ns.fireConnection: the OnConnection handlers run, and register the      *)
(* socket's event handlers; the read loop, if it ran them, is free again.  *)
Fire(s) ==
    /\ pc[s] = "fire"
    /\ Goto(s, "admitted")
    /\ FreeLoop(s)
    /\ UNCHANGED <<open, loop, closing, nspVars, rooms, outbox, bcast, auxVars>>
-----------------------------------------------------------------------------
(* The end of a connection.                                                *)

(* The peer, or the network, closes the transport.                         *)
PeerClose(c) ==
    /\ c \in open
    /\ open' = open \ {c}
    /\ UNCHANGED <<loop, closing, onLoop, nspVars, pc, rooms, outbox, bcast, auxVars>>

(* ReadMessage fails and handleClose takes its snapshot of hub.sockets.    *)
(* Frames that had arrived before may still be read first.                 *)
InAdmission(s) == pc[s] \in {"middleware", "add", "register"}
HandleClose(c) ==
    /\ LoopFree(c)
    /\ c \notin open
    /\ loop' = [loop EXCEPT ![c] = "closing"]
    /\ hubSockets' = [hubSockets EXCEPT ![c] = [n \in Nsp |-> NoSock]]
    /\ closing' = [closing EXCEPT ![c] = Snapshot(c)]
    /\ raced' = raced \cup {s \in SocketsOf(c) : InAdmission(s)}
    /\ UNCHANGED <<open, onLoop, namespaces, nsSockets, pc, rooms, outbox, bcast,
                   superseded, unheard, stayed>>

(* handleClose removes one socket of its snapshot from its namespace.      *)
RemoveSocket(c, s) ==
    /\ s \in closing[c]
    /\ NsFree(s.nsp)
    /\ closing' = [closing EXCEPT ![c] = @ \ {s}]
    /\ RemoveMember(s)
    /\ UNCHANGED <<open, loop, onLoop, namespaces, hubSockets, pc, rooms, outbox, bcast, auxVars>>
-----------------------------------------------------------------------------
(* The application's own calls, from any goroutine.                        *)

Born(s) == pc[s] # "unborn"

SocketJoin(s, r) ==
    /\ Born(s)
    /\ Join(s, r)
    /\ UNCHANGED <<connVars, nspVars, pc, outbox, bcast, auxVars>>

SocketLeave(s, r) ==
    /\ Born(s)
    /\ Leave(s, r)
    /\ UNCHANGED <<connVars, nspVars, pc, outbox, bcast, raced, superseded, unheard>>

(* Socket.Emit.                                                            *)
SocketEmit(s) ==
    /\ Born(s)
    /\ Len(outbox[s.conn]) < MaxOut
    /\ Send(s.conn, ReplyFrame("event", s.nsp))
    /\ UNCHANGED <<connVars, nspVars, pc, rooms, bcast, auxVars>>

(* Whom a call on namespace n leaves out: those of a Socket there, which   *)
(* are Socket.Broadcast and Socket.To, that socket; the others nobody.     *)
LeavesOut(n, x) == x = NoSock \/ (x \in Sock /\ x.nsp = n /\ Born(x))

(* Namespace.Emit, Namespace.To, Server.Emit, Server.To, Socket.Broadcast  *)
(* and Socket.To: the frame is encoded and ns.mu taken for reading.        *)
StartEmit(b, n, t, x) ==
    /\ bcast[b].state = "idle"
    /\ n \in namespaces
    /\ LeavesOut(n, x)
    /\ bcast' = [bcast EXCEPT ![b] = [state |-> "sending", nsp |-> n, target |-> t, except |-> x,
                                      audience |-> nsSockets[n] \ {x},
                                      todo |-> Recipients(n, x)]]
    /\ stayed' = [stayed EXCEPT ![b] = {s \in nsSockets[n] \ {x} : t = Everyone \/ t \in rooms[s]}]
    /\ UNCHANGED <<connVars, nspVars, pc, rooms, outbox, raced, superseded, unheard>>

(* One member of the namespace, in the arbitrary order of a Go map: the    *)
(* room is looked up when its turn comes.                                  *)
Addressed_AsRoom(b, s) == bcast[b].target \in rooms[s]
Addressed(b, s) == bcast[b].target = Everyone \/ bcast[b].target \in rooms[s]
SendNext(b) ==
    /\ bcast[b].state = "sending"
    /\ \E s \in bcast[b].todo :
         /\ bcast' = [bcast EXCEPT ![b].todo = @ \ {s}]
         /\ IF Addressed(b, s) THEN Send(s.conn, EventFrame(s, b)) ELSE UNCHANGED outbox
    /\ UNCHANGED <<connVars, nspVars, pc, rooms, auxVars>>

(* The loop over the members ends and ns.mu is released.                   *)
FinishEmit_BreaksOff(b) ==
    /\ bcast[b].state = "sending"
    /\ bcast' = [bcast EXCEPT ![b].state = "done"]
    /\ stayed' = [stayed EXCEPT ![b] = {}]
    /\ UNCHANGED <<connVars, nspVars, pc, rooms, outbox, raced, superseded, unheard>>
FinishEmit(b) ==
    /\ bcast[b].state = "sending"
    /\ bcast[b].todo = {}
    /\ bcast' = [bcast EXCEPT ![b].state = "done"]
    /\ stayed' = [stayed EXCEPT ![b] = {}]
    /\ UNCHANGED <<connVars, nspVars, pc, rooms, outbox, raced, superseded, unheard>>
-----------------------------------------------------------------------------
Admit(s) == Pass(s) \/ Reject(s) \/ Defer(s) \/ AddSocket(s) \/ Register(s)
            \/ Announce(s) \/ Fire(s)

Read(c) == \E n \in Nsp :
    \/ ReadRefusedConnect(c, n) \/ ReadConnect(c, n) \/ ReadEvent(c, n) \/ ReadPing(c, n)
    \/ \E r \in Room : ReadJoin(c, n, r) \/ ReadLeave(c, n, r)

CleanUp(c) == HandleClose(c) \/ \E s \in SocketsOf(c) : RemoveSocket(c, s)

Broadcast(b) == SendNext(b) \/ FinishEmit(b)

Next ==
    \/ \E n \in Nsp : Of(n)
    \/ \E c \in Conn : Accept(c) \/ Read(c) \/ PeerClose(c) \/ CleanUp(c)
    \/ \E s \in Sock : Admit(s) \/ SocketEmit(s)
                       \/ \E r \in Room : SocketJoin(s, r) \/ SocketLeave(s, r)
    \/ \E b \in Bcast : \/ Broadcast(b)
                        \/ \E n \in Nsp, t \in Targets, x \in Sock \cup {NoSock} :
                              StartEmit(b, n, t, x)

(* The server's own goroutines are never abandoned by the Go scheduler; an *)
(* application's middleware is assumed to call next() sooner or later.     *)
(* Nothing obliges a client or the application to do anything.             *)
Fairness ==
    /\ \A s \in Sock : WF_vars(Admit(s))
    /\ \A c \in Conn : WF_vars(CleanUp(c))
    /\ \A b \in Bcast : WF_vars(Broadcast(b))

Spec     == Init /\ [][Next]_vars
FairSpec == Spec /\ Fairness
-----------------------------------------------------------------------------
(* Properties.                                                             *)

Members  == UNION {nsSockets[n] : n \in Nsp}
SentBy(s, t) == {i \in DOMAIN outbox[s.conn] : /\ outbox[s.conn][i].type = t
                                               /\ outbox[s.conn][i].sock = s}

(* Whatever the hub routes frames to is a member of that namespace, so     *)
(* that a client whose frames are dispatched also receives broadcasts      *)
(* (ns.addSocket comes before hub.sockets[nsp] = sock, and handleClose     *)
(* undoes them in the opposite order).                                     *)
RegisteredIsMember ==
    \A c \in Conn, n \in Nsp : hubSockets[c][n] # NoSock => hubSockets[c][n] \in nsSockets[n]

(* Once CONNECT has been written for a namespace, a frame of the client    *)
(* for it is dispatched, not dropped, until the connection is cleaned up   *)
(* (hub.go:112-126).                                                       *)
AnnouncedIsRouted ==
    \A s \in Sock : SentBy(s, "connect") # {} =>
        hubSockets[s.conn][s.nsp] # NoSock \/ loop[s.conn] = "closing"

(* Every member of a namespace can still be found by a cleanup: through    *)
(* the hub's map, in handleClose's snapshot, or because its registration   *)
(* is the next step. The exceptions are named: a socket whose admission    *)
(* outlived its connection, and a socket displaced by a second CONNECT.    *)
CleanupFindsMembers ==
    \A s \in Members :
        \/ hubSockets[s.conn][s.nsp] = s
        \/ s \in closing[s.conn]
        \/ pc[s] = "register"
        \/ s \in raced \cup superseded

(* After a connection's cleanup the namespaces keep none of its sockets,   *)
(* except raced and superseded ones.                                       *)
OnlyRacedOrSupersededLeak ==
    \A s \in Members : Finished(s.conn) => s \in raced \cup superseded

(* A socket whose admission may be off the read loop.                      *)
OffLoop == {s \in Sock : s.nsp \in AsyncNsp \cup {Root}}

(* Only a root socket, or one of a namespace whose middleware answers from *)
(* a goroutine of its own, can be caught by the end of its connection: the *)
(* others are admitted on the read loop, which is also what cleans up.     *)
InlineNeverRaced == raced \subseteq OffLoop

(* An event sent after a namespace's CONNECT finds the handlers its        *)
(* OnConnection handlers registered, unless it is the root namespace or    *)
(* one whose middleware answers from a goroutine of its own.               *)
InlineEventsAreHeard == unheard \subseteq OffLoop

(* A rejected socket was never, and never becomes, a member or a route,    *)
(* and its connection does not work any more (namespace.go:178-191).       *)
RejectedStaysOut ==
    \A s \in Sock : pc[s] = "rejected" =>
        /\ s \notin Members
        /\ s.conn \notin open
        /\ s \notin {hubSockets[c][n] : c \in Conn, n \in Nsp}

(* While a broadcast runs, the members of its namespace are the ones it    *)
(* started with: nobody is skipped, and nobody is sent to after being      *)
(* removed (emitExcluding and toExcluding hold ns.mu throughout).          *)
AudienceIsStable ==
    \A b \in Bcast : bcast[b].state = "sending" =>
        bcast[b].audience = nsSockets[bcast[b].nsp] \ {bcast[b].except}

(* A broadcast reaches each socket at most once, never its sender, and it  *)
(* reaches every socket whose turn has come and whose connection works if  *)
(* it addresses the whole namespace, or has addressed him from its start   *)
(* on: he was in the room and did not leave it.                            *)
CopiesAt(b, s) == {i \in SentBy(s, "event") : outbox[s.conn][i].call = b}
Copies(b, s) == Cardinality(CopiesAt(b, s))
BroadcastReachesAudience ==
    \A b \in Bcast, s \in Sock :
        /\ Copies(b, s) <= 1
        /\ s \notin bcast[b].audience => Copies(b, s) = 0
        /\ (/\ s \in bcast[b].audience \ bcast[b].todo
            /\ bcast[b].target = Everyone \/ s \in stayed[b]
            /\ s.conn \in open) => Copies(b, s) = 1

(* Broadcasts keep the promise of BroadcastPromise.                        *)
B == INSTANCE BroadcastPromise WITH
        phase <- [b \in Bcast |-> bcast[b].state],
        audience <- [b \in Bcast |-> bcast[b].audience],
        addressed <- [b \in Bcast |-> {s \in Sock : Addressed(b, s)}],
        got <- [b \in Bcast |-> {s \in Sock : CopiesAt(b, s) # {}}],
        gone <- {s \in Sock : loop[s.conn] # "none" /\ s.conn \notin open}
BroadcastPromiseIsKept == B!Promise

(* A live connection never loses a route: the hub forgets a namespace only *)
(* when the transport is gone.                                             *)
RoutesAreKept ==
    [][\A c \in Conn, n \in Nsp :
          hubSockets[c][n] # NoSock /\ hubSockets'[c][n] = NoSock => c \notin open]_vars

(* A rejection in one namespace evicts the connection from all of them:    *)
(* eventually it is cleaned up (socket.go:84-87).                          *)
RejectionEvicts ==
    \A c \in Conn : (\E s \in SocketsOf(c) : pc[s] = "rejected") ~> Finished(c)

(* Every connection that stops working is cleaned up, whatever admissions  *)
(* and broadcasts are under way.                                           *)
LostConnectionsAreCleaned ==
    \A c \in Conn : (loop[c] = "reading" /\ c \notin open) ~> Finished(c)

(* The inductive invariant behind the properties above, part by part.      *)

Settled(s) == pc[s] \in {"announce", "fire", "admitted"}

(* A route leads to a socket of that connection and namespace which is a   *)
(* member and whose admission is past the registration.                    *)
RoutesAreSound ==
    \A c \in Conn, n \in Nsp : LET s == hubSockets[c][n] IN
        s # NoSock => s.conn = c /\ s.nsp = n /\ Settled(s) /\ s \in nsSockets[n]

(* What a cleanup has still to remove was admitted, and has no route left. *)
SnapshotsAreSound ==
    \A c \in Conn : \A s \in closing[c] :
        s.conn = c /\ Settled(s) /\ loop[c] = "closing" /\ hubSockets[c][s.nsp] # s

(* A namespace's members are its own sockets, past addSocket; a socket     *)
(* about to be registered is a member.                                     *)
MembersAreSound ==
    /\ \A n \in Nsp : \A s \in nsSockets[n] : s.nsp = n /\ (pc[s] = "register" \/ Settled(s))
    /\ \A s \in Sock : pc[s] = "register" => s \in nsSockets[s.nsp]

(* Once a connection has been cleaned up, whatever is still being admitted *)
(* or has been routed since is known to have raced with the cleanup.       *)
LateSocketsRaced ==
    \A s \in Sock :
        /\ loop[s.conn] = "closing"
        /\ InAdmission(s) \/ hubSockets[s.conn][s.nsp] = s
        => s \in raced

(* A socket exists only on a connection that was accepted; one past the    *)
(* registration has a route, or a successor has, or the connection is      *)
(* being cleaned up.                                                       *)
AdmissionsAreSound ==
    \A s \in Sock :
        /\ pc[s] # "unborn" => loop[s.conn] # "none"
        /\ Settled(s) => hubSockets[s.conn][s.nsp] # NoSock \/ loop[s.conn] = "closing"
        /\ pc[s] = "rejected" => s.conn \notin open

(* The admission of a socket that is not OffLoop keeps the read loop busy  *)
(* from beginning to end.                                                  *)
InlineAdmissionsHoldLoop ==
    \A s \in Sock \ OffLoop :
        InAdmission(s) \/ pc[s] \in {"announce", "fire"} => onLoop[s.conn] = s

(* CONNECT is written by an admission that is past its announcement.       *)
ConnectsAreSound ==
    \A s \in Sock : SentBy(s, "connect") # {} => pc[s] \in {"fire", "admitted"}

HubInv ==
    /\ RoutesAreSound
    /\ SnapshotsAreSound
    /\ MembersAreSound
    /\ CleanupFindsMembers
    /\ LateSocketsRaced
    /\ AdmissionsAreSound
    /\ InlineAdmissionsHoldLoop
    /\ ConnectsAreSound

(* The same for broadcasts: a call that has not started has no audience,   *)
(* and nobody to write to; nobody gets two frames of one call, or one      *)
(* before his turn or outside the audience; and a call has written to      *)
(* whoever it addressed from its start on, once his turn has come, or his  *)
(* connection is gone for good.                                            *)
BroadcastInv ==
    \A b \in Bcast : LET call == bcast[b] IN
        /\ call.state = "idle" => call.audience = {}
        /\ call.state # "sending" => stayed[b] = {}
        /\ call.state = "sending" /\ call.target = Everyone => stayed[b] = call.audience
        /\ call.todo \subseteq call.audience /\ stayed[b] \subseteq call.audience
        /\ \A s \in stayed[b] : Addressed(b, s)
        /\ \A s \in call.audience : pc[s] # "unborn"
        /\ \A s \in Sock :
             /\ \A i, j \in CopiesAt(b, s) : i = j
             /\ s \in call.todo \/ s \notin call.audience => CopiesAt(b, s) = {}
             /\ (/\ s \in call.audience \ call.todo
                 /\ call.target = Everyone \/ s \in stayed[b]
                 /\ s.conn \in open) => CopiesAt(b, s) # {}

(* Claims of the repository that the code does not keep.                   *)

(* Emit reaches "every socket connected to this namespace"                 *)
(* (namespace.go:114-115): a namespace has no member whose connection has  *)
(* been cleaned up.                                                        *)
MembersAreConnected == \A s \in Members : ~Finished(s.conn)

(* A client that has seen CONNECT may emit, and its event is handled       *)
(* (combine_test.go:101-103 emits from its "connect" handler and expects   *)
(* the server's handler, registered in OnConnection, to get the event).    *)
ConnectedEventsAreHeard == unheard = {}

-----------------------------------------------------------------------------
=============================================================================
