------------------------------ MODULE ClientConn ------------------------------
(***************************************************************************)
(* The client's connection, client/client.go: dialling, re-joining         *)
(* namespaces, the read loop, reconnection, the heartbeat, and Close.      *)
(*                                                                         *)
(* One chain of goroutines and timers owns the connection, and there is    *)
(* always exactly one of them (phase): connect -> readLoop -> handleClose  *)
(* -> reconnection timer -> connect ... . Beside it run                    *)
(*   - heartbeat goroutines, one started by every CONNECT of the client's  *)
(*     own namespace, stopped through a channel;                           *)
(*   - the callbacks of pong timers that fired;                            *)
(*   - application goroutines that emit, join a namespace with Of, and     *)
(*     call Close.                                                         *)
(* A write to the connection is two steps, its start and its end, because  *)
(* nothing but the connection's own buffer orders the writers.             *)
(*                                                                         *)
(* A definition whose name ends in _<Suffix> is a seeded bug, a mistake in *)
(* the definition it stands before that some property below must catch; no *)
(* action uses it.                                                         *)
(*                                                                         *)
(* The server and the network are external: CONNECT frames come for the    *)
(* root namespace and for those asked for, PONG frames for pings sent, and *)
(* the transport may be lost at any time. Time is not modelled: a timer    *)
(* that runs may fire.                                                     *)
(***************************************************************************)
EXTENDS Naturals

CONSTANTS
    Nsp,            \* namespace names
    Root,           \* the name "/"
    Own,            \* Options.Nsp, the namespace the client mainly represents
    Caller,         \* application goroutines that use the client
    AutoReconnect,  \* Options.AutoReconnect
    MaxAttempts,    \* Options.MaxAttempts
    MaxDials,       \* bound: connections established
    MaxHb,          \* bound: heartbeat goroutines alive at once
    MaxTimers,      \* bound: pong timers armed or firing at once
    MaxPings        \* bound: no ticker ticks while that many pings wait for their PONG

ASSUME ClientAssumption ==
    /\ Root \in Nsp /\ Own \in Nsp /\ "none" \notin Nsp
    /\ AutoReconnect \in BOOLEAN
    /\ MaxAttempts \in Nat
    /\ MaxDials \in Nat /\ MaxHb \in Nat /\ MaxTimers \in Nat /\ MaxPings \in Nat

Link  == 1..MaxDials    \* connections, numbered in the order they were dialled
Hb    == 1..MaxHb       \* heartbeat goroutines, and their stop channels and tickers
Timer == 1..MaxTimers   \* pong timers
None  == 0              \* nil

VARIABLES
    phase,          \* what the owner of the connection is doing
    rejoin,         \* connect: namespaces it has still to ask for
    conn,           \* Client.conn
    dialed,         \* how many connections were established; the last is the owner's
    attempts,       \* Client.reconnectAttempts
    closedByUser,   \* Client.closedByUser
    closer,         \* Close: not called, flag set, returned
    namespaces,     \* Client.namespaces
    caller,         \* what each application goroutine is doing
    shut,           \* connections closed on this side
    lost,           \* connections the peer or the network closed
    asked,          \* last connection: namespaces for which CONNECT was written
    due,            \* last connection: namespaces whose CONNECT is still to come
    hb,             \* where each heartbeat goroutine is
    hbConn,         \* the connection a heartbeat goroutine is writing to
    tick,           \* tickers with a tick in their channel
    ticker,         \* Client.pingTicker
    stopHeartbeat,  \* Client.stopHeartbeat
    stopClosed,     \* stop channels that are closed
    timer,          \* state of each pong timer
    pongTimer,      \* Client.pongTimer
    unanswered      \* last connection: pings written whose PONG was not read yet

(* Auxiliary variables.                                                    *)
VARIABLES
    closedLive,     \* Close found a connection and closed it
    spurious,       \* connections a timeout closed with every ping on them answered
    doubleClose     \* a stop channel was closed twice: a panic

ownerVars == <<phase, rejoin, conn, dialed, attempts>>
closeVars == <<closedByUser, closer, closedLive>>
appVars   == <<closeVars, namespaces, caller>>
netVars   == <<shut, lost, asked, due>>
stopVars  == <<ticker, stopHeartbeat, stopClosed, doubleClose>>
hbVars    == <<hb, hbConn, tick, stopVars>>
pongVars  == <<timer, pongTimer, unanswered, spurious>>
restVars  == <<appVars, netVars, hbVars, pongVars>>
vars      == <<ownerVars, restVars>>

Phase == {"dialing", "publish", "snapshot", "rejoin", "rejoinWrite", "reading",
          "drop", "cleanup", "decide", "waiting", "stopped"}
NoNsp == "none"
Task  == [state : {"idle", "joining", "writing"}, nsp : Nsp \cup {NoNsp}, link : Link \cup {None}]
Idle  == [state |-> "idle", nsp |-> NoNsp, link |-> None]

TypeOK ==
    /\ phase \in Phase
    /\ rejoin \subseteq Nsp
    /\ conn \in Link \cup {None}
    /\ dialed \in 0..MaxDials
    /\ attempts \in 0..MaxAttempts
    /\ closedByUser \in BOOLEAN
    /\ closer \in {"idle", "marked", "returned"}
    /\ namespaces \subseteq Nsp
    /\ caller \in [Caller -> Task]
    /\ shut \subseteq Link /\ lost \subseteq Link
    /\ asked \subseteq Nsp /\ due \subseteq Nsp
    /\ hb \in [Hb -> {"none", "select", "writing", "arm"}]
    /\ hbConn \in [Hb -> Link \cup {None}]
    /\ tick \subseteq Hb
    /\ ticker \in Hb \cup {None}
    /\ stopHeartbeat \in Hb \cup {None}
    /\ stopClosed \subseteq Hb
    /\ timer \in [Timer -> {"idle", "armed", "firing"}]
    /\ pongTimer \in Timer \cup {None}
    /\ unanswered \in Nat
    /\ closedLive \in BOOLEAN
    /\ spurious \subseteq Link
    /\ doubleClose \in BOOLEAN

(* New: the Client, and a goroutine that is about to dial.                 *)
Init ==
    /\ phase = "dialing" /\ rejoin = {} /\ conn = None /\ dialed = 0 /\ attempts = 0
    /\ closedByUser = FALSE /\ closer = "idle" /\ closedLive = FALSE
    /\ namespaces = {Own}
    /\ caller = [w \in Caller |-> Idle]
    /\ shut = {} /\ lost = {} /\ asked = {} /\ due = {}
    /\ hb = [h \in Hb |-> "none"] /\ hbConn = [h \in Hb |-> None]
    /\ tick = {} /\ ticker = None /\ stopHeartbeat = None /\ stopClosed = {}
    /\ doubleClose = FALSE
    /\ timer = [t \in Timer |-> "idle"] /\ pongTimer = None
    /\ unanswered = 0 /\ spurious = {}
-----------------------------------------------------------------------------
(* Helpers.                                                                *)

(* A write on a connection closed on this side fails; on one the peer has  *)
(* left it may still succeed, but nobody reads it.                         *)
Dead(k) == k \in shut \cup lost

(* CONNECT for n was written on connection k, an earlier one or the last.  *)
Ask(k, n) ==
    IF Dead(k) THEN UNCHANGED <<asked, due>>
    ELSE asked' = asked \cup {n} /\ due' = due \cup {n}

(* Stopping a timer that has fired does not stop its callback.             *)
StopPongTimer_Skipped(tm) == tm
StopPongTimer(tm) ==
    IF pongTimer # None /\ tm[pongTimer] = "armed" THEN [tm EXCEPT ![pongTimer] = "idle"] ELSE tm

(* close(c.stopHeartbeat), if there is one: what it closes, and whether    *)
(* that is closed already, which would panic.                              *)
ToClose_Nothing == {}
ToClose == {stopHeartbeat} \ {None}
CloseTwice == doubleClose \/ ToClose \cap stopClosed # {}

(* The client's ticker and stop channel are set to nil.                    *)
ForgetHeartbeat_Never == UNCHANGED <<ticker, stopHeartbeat>>
ForgetHeartbeat == stopHeartbeat' = None /\ ticker' = None

(* Namespaces a new connection has to ask for: those in use but the root.  *)
ToRejoin_OnlyOwn == {Own} \ {Root}
ToRejoin == namespaces \ {Root}

MayReconnect_IgnoresClose == AutoReconnect /\ attempts < MaxAttempts
MayReconnect_IgnoresLimit == ~closedByUser /\ AutoReconnect
MayReconnect == ~closedByUser /\ AutoReconnect /\ attempts < MaxAttempts
-----------------------------------------------------------------------------
(* connect.                                                                *)

DialOk ==
    /\ phase = "dialing"
    /\ dialed < MaxDials
    /\ dialed' = dialed + 1
    /\ phase' = "publish"
    /\ asked' = {} /\ due' = {Root} /\ unanswered' = 0
    /\ UNCHANGED <<rejoin, conn, attempts, appVars, shut, lost, hbVars, timer, pongTimer, spurious>>

(* A dial that fails goes through handleClose like a lost connection.      *)
DialFail_NotCounted ==
    /\ phase = "dialing"
    /\ phase' = "waiting"
    /\ UNCHANGED <<rejoin, conn, dialed, attempts, restVars>>
DialFail ==
    /\ phase = "dialing"
    /\ phase' = "drop"
    /\ UNCHANGED <<rejoin, conn, dialed, attempts, restVars>>

(* The connection becomes visible to every other goroutine. Nothing asks   *)
(* whether Close has been called meanwhile.                                *)
Publish_KeepsCount ==
    /\ phase = "publish"
    /\ conn' = dialed
    /\ phase' = "snapshot"
    /\ UNCHANGED <<rejoin, dialed, attempts, restVars>>
Publish ==
    /\ phase = "publish"
    /\ conn' = dialed
    /\ attempts' = 0
    /\ phase' = "snapshot"
    /\ UNCHANGED <<rejoin, dialed, restVars>>

(* Every namespace but the root in use at this moment is asked for again.  *)
Snapshot ==
    /\ phase = "snapshot"
    /\ rejoin' = ToRejoin
    /\ phase' = "rejoin"
    /\ UNCHANGED <<conn, dialed, attempts, restVars>>

RejoinNext ==
    /\ phase = "rejoin"
    /\ rejoin # {}
    /\ phase' = "rejoinWrite"
    /\ UNCHANGED <<rejoin, conn, dialed, attempts, restVars>>

RejoinWritten ==
    /\ phase = "rejoinWrite"
    /\ \E n \in rejoin :
         /\ rejoin' = rejoin \ {n}
         /\ Ask(dialed, n)
    /\ phase' = "rejoin"
    /\ UNCHANGED <<conn, dialed, attempts, appVars, shut, lost, hbVars, pongVars>>

StartReading ==
    /\ phase = "rejoin"
    /\ rejoin = {}
    /\ phase' = "reading"
    /\ UNCHANGED <<rejoin, conn, dialed, attempts, restVars>>
-----------------------------------------------------------------------------
(* readLoop.                                                               *)

(* setupHeartbeat, all of it under heartbeatMu: the previous heartbeat is  *)
(* told to stop and a new one starts, with a new channel and ticker.       *)
SetupHeartbeat ==
    \E h \in Hb :
        /\ hb[h] = "none"
        /\ \A g \in Hb : g < h => hb[g] # "none"
        /\ hb' = [hb EXCEPT ![h] = "select"]
        /\ stopHeartbeat' = h
        /\ ticker' = h
        /\ tick' = tick \ {h}
        /\ stopClosed' = (stopClosed \cup ToClose) \ {h}
        /\ doubleClose' = CloseTwice
        /\ UNCHANGED hbConn

(* A CONNECT frame: of a namespace the client does not have it is dropped; *)
(* of its own namespace it starts a heartbeat. (The "connect" handlers are *)
(* application code, see Application; the schemas are not modelled here.)  *)
ReadConnect(n) ==
    /\ phase = "reading"
    /\ n \in due
    /\ due' = due \ {n}
    /\ IF n = Own THEN SetupHeartbeat ELSE UNCHANGED hbVars
    /\ UNCHANGED <<ownerVars, appVars, shut, lost, asked, pongVars>>

(* A PONG frame, always of the root namespace as the pings are: it stops   *)
(* the pong timer if the client has a root namespace, and is dropped       *)
(* otherwise.                                                              *)
ReadPong ==
    /\ phase = "reading"
    /\ unanswered > 0
    /\ unanswered' = unanswered - 1
    /\ IF Root \in namespaces
       THEN timer' = StopPongTimer(timer) /\ pongTimer' = None
       ELSE UNCHANGED <<timer, pongTimer>>
    /\ UNCHANGED <<ownerVars, appVars, netVars, hbVars, spurious>>

ReadFails ==
    /\ phase = "reading"
    /\ Dead(dialed)
    /\ phase' = "drop"
    /\ UNCHANGED <<rejoin, conn, dialed, attempts, restVars>>
-----------------------------------------------------------------------------
(* handleClose.                                                            *)

DropConn ==
    /\ phase = "drop"
    /\ conn' = None
    /\ phase' = "cleanup"
    /\ UNCHANGED <<rejoin, dialed, attempts, restVars>>

CleanupHeartbeat ==
    /\ phase = "cleanup"
    /\ phase' = "decide"
    /\ stopClosed' = stopClosed \cup ToClose
    /\ doubleClose' = CloseTwice
    /\ ForgetHeartbeat
    /\ timer' = StopPongTimer(timer)
    /\ pongTimer' = None
    /\ UNCHANGED <<rejoin, conn, dialed, attempts, appVars, netVars, hb, hbConn, tick,
                   unanswered, spurious>>

(* The "disconnect" handlers run, then closedByUser is read, once.         *)
ScheduleReconnect ==
    /\ phase = "decide"
    /\ MayReconnect
    /\ attempts' = attempts + 1
    /\ phase' = "waiting"
    /\ UNCHANGED <<rejoin, conn, dialed, restVars>>

GiveUp ==
    /\ phase = "decide"
    /\ ~MayReconnect
    /\ phase' = "stopped"
    /\ UNCHANGED <<rejoin, conn, dialed, attempts, restVars>>

(* The reconnection timer: "reconnecting" handlers, then connect.          *)
Reconnect ==
    /\ phase = "waiting"
    /\ phase' = "dialing"
    /\ UNCHANGED <<rejoin, conn, dialed, attempts, restVars>>
-----------------------------------------------------------------------------
(* The heartbeat goroutine.                                                *)

Ticks(h) ==
    /\ ticker = h
    /\ h \notin tick
    /\ unanswered < MaxPings
    /\ tick' = tick \cup {h}
    /\ UNCHANGED <<ownerVars, appVars, netVars, hb, hbConn, stopVars, pongVars>>

(* select: with both cases ready Go picks either. The goroutine ends, and  *)
(* nobody will read its ticker's channel any more.                         *)
HbStop_BreaksSelect(h) ==
    /\ hb[h] = "select"
    /\ h \in stopClosed
    /\ UNCHANGED vars
HbStop(h) ==
    /\ hb[h] = "select"
    /\ h \in stopClosed
    /\ hb' = [hb EXCEPT ![h] = "none"]
    /\ tick' = tick \ {h}
    /\ UNCHANGED <<ownerVars, appVars, netVars, hbConn, stopVars, pongVars>>

HbTick(h) ==
    /\ hb[h] = "select"
    /\ h \in tick
    /\ tick' = tick \ {h}
    /\ IF conn = None
       THEN UNCHANGED <<hb, hbConn>>
       ELSE hb' = [hb EXCEPT ![h] = "writing"] /\ hbConn' = [hbConn EXCEPT ![h] = conn]
    /\ UNCHANGED <<ownerVars, appVars, netVars, stopVars, pongVars>>

HbWriteFails(h) ==
    /\ hb[h] = "writing"
    /\ Dead(hbConn[h])
    /\ hb' = [hb EXCEPT ![h] = "select"]
    /\ hbConn' = [hbConn EXCEPT ![h] = None]
    /\ UNCHANGED <<ownerVars, appVars, netVars, tick, stopVars, pongVars>>

HbWritten(h) ==
    /\ hb[h] = "writing"
    /\ hbConn[h] \notin shut
    /\ unanswered' = IF hbConn[h] = dialed THEN unanswered + 1 ELSE unanswered
    /\ hb' = [hb EXCEPT ![h] = "arm"]
    /\ hbConn' = [hbConn EXCEPT ![h] = None]
    /\ UNCHANGED <<ownerVars, appVars, netVars, tick, stopVars, timer, pongTimer, spurious>>

(* armPongTimeout: the previous timer is stopped, a new one runs.          *)
HbArm(h) ==
    /\ hb[h] = "arm"
    /\ LET tm == StopPongTimer(timer) IN
       \E t \in Timer :
         /\ tm[t] = "idle"
         /\ \A u \in Timer : u < t => tm[u] # "idle"
         /\ timer' = [tm EXCEPT ![t] = "armed"]
         /\ pongTimer' = t
    /\ hb' = [hb EXCEPT ![h] = "select"]
    /\ UNCHANGED <<ownerVars, appVars, netVars, hbConn, tick, stopVars, unanswered, spurious>>

(* A pong timer that runs out, and its callback: it closes the connection  *)
(* it finds, which need not be the one the ping was sent on.               *)
TimerFires(t) ==
    /\ timer[t] = "armed"
    /\ timer' = [timer EXCEPT ![t] = "firing"]
    /\ UNCHANGED <<ownerVars, appVars, netVars, hbVars, pongTimer, unanswered, spurious>>

TimeoutCloses(t) ==
    /\ timer[t] = "firing"
    /\ timer' = [timer EXCEPT ![t] = "idle"]
    /\ IF conn = None
       THEN UNCHANGED <<shut, spurious>>
       ELSE /\ shut' = shut \cup {conn}
            /\ spurious' = IF unanswered = 0 /\ ~Dead(conn)
                           THEN spurious \cup {conn} ELSE spurious
    /\ UNCHANGED <<ownerVars, appVars, lost, asked, due, hbVars, pongTimer, unanswered>>
-----------------------------------------------------------------------------
(* The application.                                                        *)

(* Of: the namespace enters the map; only a new one but the root is asked  *)
(* for, and only if there is a connection.                                 *)
OfAdd(w, n) ==
    /\ caller[w] = Idle
    /\ n \notin namespaces
    /\ namespaces' = namespaces \cup {n}
    /\ caller' = IF n = Root THEN caller
                 ELSE [caller EXCEPT ![w] = [state |-> "joining", nsp |-> n, link |-> None]]
    /\ UNCHANGED <<ownerVars, closeVars, netVars, hbVars, pongVars>>

OfSend(w) ==
    /\ caller[w].state = "joining"
    /\ caller' = [caller EXCEPT ![w] = IF conn = None THEN Idle
                     ELSE [state |-> "writing", nsp |-> @.nsp, link |-> conn]]
    /\ UNCHANGED <<ownerVars, closeVars, namespaces, netVars, hbVars, pongVars>>

(* Emit, EmitAck, Join and Leave: a frame is written, if there is a        *)
(* connection.                                                             *)
EmitStart(w) ==
    /\ caller[w] = Idle
    /\ conn # None
    /\ caller' = [caller EXCEPT ![w] = [state |-> "writing", nsp |-> NoNsp, link |-> conn]]
    /\ UNCHANGED <<ownerVars, closeVars, namespaces, netVars, hbVars, pongVars>>

Written(w) ==
    /\ caller[w].state = "writing"
    /\ caller' = [caller EXCEPT ![w] = Idle]
    /\ IF caller[w].nsp = NoNsp THEN UNCHANGED <<asked, due>>
       ELSE Ask(caller[w].link, caller[w].nsp)
    /\ UNCHANGED <<ownerVars, closeVars, namespaces, shut, lost, hbVars, pongVars>>

(* Close, called by the application or by Close of the root Namespace: it  *)
(* sets the flag, then closes the connection there is.                     *)
CloseMark ==
    /\ closer = "idle"
    /\ closer' = "marked"
    /\ closedByUser' = TRUE
    /\ UNCHANGED <<ownerVars, namespaces, caller, closedLive, netVars, hbVars, pongVars>>

CloseConn ==
    /\ closer = "marked"
    /\ closer' = "returned"
    /\ shut' = shut \cup ({conn} \ {None})
    /\ closedLive' = (conn # None)
    /\ UNCHANGED <<ownerVars, namespaces, caller, closedByUser, lost, asked, due, hbVars, pongVars>>

(* The network. (Losing a connection already closed here changes nothing.) *)
PeerLost ==
    /\ dialed > 0
    /\ ~Dead(dialed)
    /\ lost' = lost \cup {dialed}
    /\ UNCHANGED <<ownerVars, appVars, shut, asked, due, hbVars, pongVars>>
-----------------------------------------------------------------------------
Owner == \/ DialOk \/ DialFail \/ Publish \/ Snapshot \/ RejoinNext \/ RejoinWritten
         \/ StartReading \/ ReadFails \/ DropConn \/ CleanupHeartbeat
         \/ ScheduleReconnect \/ GiveUp \/ Reconnect

Heartbeat(h) == HbStop(h) \/ HbTick(h) \/ HbWriteFails(h) \/ HbWritten(h) \/ HbArm(h)

Application(w) == \/ OfSend(w) \/ EmitStart(w) \/ Written(w)
                  \/ \E n \in Nsp : OfAdd(w, n)

Next ==
    \/ Owner
    \/ \E n \in Nsp : ReadConnect(n)
    \/ ReadPong
    \/ \E h \in Hb : Ticks(h) \/ Heartbeat(h)
    \/ \E t \in Timer : TimerFires(t) \/ TimeoutCloses(t)
    \/ \E w \in Caller : Application(w)
    \/ CloseMark \/ CloseConn
    \/ PeerLost

(* Goroutines that can go on do, a dial ends one way or the other, and a   *)
(* started timer fires unless stopped. The peer and the application owe    *)
(* nothing. A heartbeat's select is fair to a closed stop channel because  *)
(* a stopped ticker leaves at most one more tick.                          *)
Fairness ==
    /\ WF_vars(Owner)
    /\ \A h \in Hb : WF_vars(Heartbeat(h))
    /\ \A t \in Timer : WF_vars(TimeoutCloses(t))
    /\ WF_vars(CloseConn)

Spec     == Init /\ [][Next]_vars
FairSpec == Spec /\ Fairness
-----------------------------------------------------------------------------
(* Properties.                                                             *)

(* At most one heartbeat goroutine has not been told to stop, and it is    *)
(* the one the client can still stop (setupHeartbeat on every CONNECT,     *)
(* cleanupHeartbeat on every close).                                       *)
OneHeartbeat ==
    \A h \in Hb : hb[h] # "none" /\ h \notin stopClosed => h = stopHeartbeat

(* No stop channel is closed twice, which would end the program in a       *)
(* panic, however CONNECT frames and closes alternate.                     *)
NoDoubleClose == ~doubleClose

(* At most one pong timer runs, and it is the one clearPongTimeout and     *)
(* cleanupHeartbeat would stop, even when an old and a new heartbeat       *)
(* goroutine both arm one.                                                 *)
OneArmedTimer ==
    \A t \in Timer : timer[t] = "armed" => t = pongTimer

(* What the application sees of connections, heartbeats and Close is what  *)
(* LinkPromise says: whatever goroutines and timers do, connections come   *)
(* one at a time and after silence, retries and giving up have a reason,   *)
(* and a Close that found a connection is the end (client.go:273-303,      *)
(* 425-447, 486-527, 603-616).                                             *)
L == INSTANCE LinkPromise WITH
       serving   <- conn,
       made      <- IF phase = "publish" THEN dialed - 1 ELSE dialed,
       tries     <- attempts,
       beats     <- {h \in Hb : hb[h] # "none" /\ h \notin stopClosed},
       dismissed <- closedByUser,
       final     <- closedLive,
       ended     <- phase = "stopped"
LinkPromiseIsKept == L!Promise

(* No namespace is forgotten: once a connection is being read, every       *)
(* namespace in use but the root has been asked for on it, by connect's    *)
(* snapshot or by the Of that is still at work, whichever of the two comes *)
(* first (Of adds to the map before it looks at conn; connect sets conn    *)
(* before it looks at the map).                                            *)
NamespacesAreAsked ==
    phase = "reading" /\ ~Dead(dialed) =>
        \A n \in namespaces \ {Root} :
            n \in asked \/ \E w \in Caller : caller[w].nsp = n

(* Close, when it finds a connection to close, is final: the client never  *)
(* has another one.                                                        *)
CloseWhileConnectedIsFinal ==
    [][closedLive => conn' \in {conn, None}]_vars

(* ... and the goroutines end: the chain that owns the connection gives    *)
(* up, and no heartbeat goroutine is left behind.                          *)
CloseWhileConnectedEnds ==
    closedLive ~> phase = "stopped" /\ \A h \in Hb : hb[h] = "none"

(* A lost connection, or a failed dial, is followed by a connection that   *)
(* is read, or by giving up after the allowed attempts; never by silence.  *)
LossIsFollowedUp == phase = "drop" ~> phase \in {"reading", "stopped"}

(* The inductive invariant of the connection's owner, of Close and of the  *)
(* namespaces to ask for: what conn can be in each phase; that Close, once *)
(* it found a connection, has its flag seen before any other dial; that a  *)
(* namespace is asked for, to be asked for, or with an Of that will ask on *)
(* this very connection (client.go:232-255, 273-303, 503-527, 603-616).    *)
OwnerInv ==
    /\ conn # None => conn = dialed /\ phase \in {"snapshot", "rejoin", "rejoinWrite", "reading", "drop"}
    /\ phase \in {"snapshot", "rejoin", "rejoinWrite", "reading"} => conn = dialed
    /\ phase \in {"publish", "snapshot", "rejoin", "rejoinWrite", "reading"} => dialed # None
    /\ phase = "reading" => rejoin = {}
CloseInv ==
    /\ closer # "idle" => closedByUser
    /\ closedLive => closer = "returned" /\ phase \notin {"dialing", "publish", "waiting"}
RejoinInv ==
    phase \in {"rejoin", "rejoinWrite", "reading"} /\ ~Dead(dialed) =>
        \A n \in namespaces \ {Root} :
            \/ n \in asked \cup rejoin
            \/ \E w \in Caller : /\ caller[w].nsp = n
                                 /\ caller[w].state = "joining" \/ caller[w].link = dialed
OpenStopInv == stopHeartbeat \notin stopClosed
ClientInv == OwnerInv /\ CloseInv /\ RejoinInv /\ OpenStopInv

(* Claims of the repository that the code does not keep.                   *)

(* "Close stops auto-reconnection and closes the underlying WebSocket      *)
(* connection" (client.go:603-604): after it has returned, a client that   *)
(* has no connection gets none.                                            *)
NoConnectionAfterClose ==
    [][closer = "returned" /\ conn = None => conn' = None]_vars

(* "Ping-Pong Heartbeat Timeout detected" (client.go:466): a connection is *)
(* closed for a timeout only if a ping on it was not answered.             *)
TimeoutMeansSilence == spurious = {}
=============================================================================
