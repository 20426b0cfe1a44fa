--------------------------- MODULE ClientConnProofs ---------------------------
(***************************************************************************)
(* Proofs about ClientConn, for any namespaces, application goroutines,    *)
(* options and bounds: that heartbeats, stop channels and pong timers are  *)
(* one each whatever CONNECT frames, closes and timeouts do; that no       *)
(* namespace is forgotten; that Close of a live connection is final.       *)
(***************************************************************************)
EXTENDS ClientConn, TLAPS

(* What an application goroutine may be doing.                             *)
LEMMA Tasks ==
    /\ Idle \in Task
    /\ \A n \in Nsp : [state |-> "joining", nsp |-> n, link |-> None] \in Task
    /\ \A n \in Nsp \cup {NoNsp}, k \in Link : [state |-> "writing", nsp |-> n, link |-> k] \in Task
  BY DEF Idle, Task, None

(* Every variable keeps its type (type invariant).                         *)
THEOREM TypeCorrect == Spec => []TypeOK
<1>1. Init => TypeOK
  <2> SUFFICES ASSUME Init PROVE TypeOK  OBVIOUS
  <2> USE ClientAssumption DEF Init, None
  <2>1. phase \in Phase /\ rejoin \subseteq Nsp /\ namespaces \subseteq Nsp  BY DEF Phase
  <2>2. dialed \in 0..MaxDials /\ attempts \in 0..MaxAttempts  OBVIOUS
  <2>3. caller \in [Caller -> Task]  BY Tasks
  <2>4. /\ hb \in [Hb -> {"none", "select", "writing", "arm"}]
        /\ hbConn \in [Hb -> Link \cup {None}]
        /\ timer \in [Timer -> {"idle", "armed", "firing"}]
    OBVIOUS
  <2> QED  BY <2>1, <2>2, <2>3, <2>4 DEF TypeOK
<1>2. TypeOK /\ [Next]_vars => TypeOK'
  <2> SUFFICES ASSUME TypeOK, [Next]_vars PROVE TypeOK'  OBVIOUS
  <2> USE ClientAssumption DEF ownerVars, closeVars, appVars, netVars, stopVars, hbVars, pongVars, restVars, Phase, None
  <2>1. CASE DialOk  BY <2>1 DEF DialOk, TypeOK
  <2>2. CASE DialFail  BY <2>2 DEF DialFail, TypeOK
  <2>3. CASE Publish
    BY <2>3 DEF Publish, TypeOK, Link
  <2>4. CASE Snapshot
    BY <2>4 DEF Snapshot, ToRejoin, TypeOK
  <2>5. CASE RejoinNext  BY <2>5 DEF RejoinNext, TypeOK
  <2>6. CASE RejoinWritten
    BY <2>6 DEF RejoinWritten, Ask, TypeOK
  <2>7. CASE StartReading  BY <2>7 DEF StartReading, TypeOK
  <2>8. CASE ReadFails  BY <2>8 DEF ReadFails, TypeOK
  <2>9. CASE DropConn  BY <2>9 DEF DropConn, TypeOK
  <2>10. CASE CleanupHeartbeat
    BY <2>10 DEF CleanupHeartbeat, ForgetHeartbeat, ToClose, CloseTwice, StopPongTimer, TypeOK
  <2>11. CASE ScheduleReconnect
    BY <2>11 DEF ScheduleReconnect, MayReconnect, TypeOK
  <2>12. CASE GiveUp  BY <2>12 DEF GiveUp, TypeOK
  <2>13. CASE Reconnect  BY <2>13 DEF Reconnect, TypeOK
  <2>14. ASSUME NEW n \in Nsp, ReadConnect(n) PROVE TypeOK'
    <3>1. CASE n # Own  BY <2>14, <3>1 DEF ReadConnect, TypeOK
    <3>2. CASE n = Own
      <4>1. PICK h \in Hb : /\ hb' = [hb EXCEPT ![h] = "select"]
                            /\ stopHeartbeat' = h /\ ticker' = h /\ tick' = tick \ {h}
                            /\ stopClosed' = (stopClosed \cup ToClose) \ {h}
                            /\ doubleClose' = CloseTwice
        BY <2>14, <3>2 DEF ReadConnect, SetupHeartbeat
      <4>2. hb' \in [Hb -> {"none", "select", "writing", "arm"}]  BY <4>1 DEF TypeOK
      <4>3. stopClosed' \subseteq Hb /\ doubleClose' \in BOOLEAN
        BY <4>1 DEF ToClose, CloseTwice, TypeOK
      <4>4. hbConn' = hbConn  BY <2>14, <3>2 DEF ReadConnect, SetupHeartbeat
      <4> QED  BY <2>14, <4>1, <4>2, <4>3, <4>4 DEF ReadConnect, TypeOK
    <3> QED  BY <3>1, <3>2
  <2>15. CASE ReadPong
    BY <2>15 DEF ReadPong, StopPongTimer, TypeOK
  <2>16. ASSUME NEW h \in Hb, Ticks(h) PROVE TypeOK'  BY <2>16 DEF Ticks, TypeOK
  <2>17. ASSUME NEW h \in Hb, HbStop(h) PROVE TypeOK'  BY <2>17 DEF HbStop, TypeOK
  <2>18. ASSUME NEW h \in Hb, HbTick(h) PROVE TypeOK'  BY <2>18 DEF HbTick, TypeOK
  <2>19. ASSUME NEW h \in Hb, HbWriteFails(h) PROVE TypeOK'  BY <2>19 DEF HbWriteFails, TypeOK
  <2>20. ASSUME NEW h \in Hb, HbWritten(h) PROVE TypeOK'  BY <2>20 DEF HbWritten, TypeOK
  <2>21. ASSUME NEW h \in Hb, HbArm(h) PROVE TypeOK'
    BY <2>21 DEF HbArm, StopPongTimer, TypeOK
  <2>22. ASSUME NEW t \in Timer, TimerFires(t) PROVE TypeOK'  BY <2>22 DEF TimerFires, TypeOK
  <2>23. ASSUME NEW t \in Timer, TimeoutCloses(t) PROVE TypeOK'
    BY <2>23 DEF TimeoutCloses, TypeOK
  <2>24. ASSUME NEW w \in Caller, OfSend(w) PROVE TypeOK'
    <3>1. caller' \in [Caller -> Task]
      <4>1. conn # None => conn \in Link  BY DEF TypeOK
      <4>2. caller[w].nsp \in Nsp \cup {NoNsp}  BY DEF TypeOK, Task
      <4> QED  BY <2>24, <4>1, <4>2, Tasks DEF OfSend, TypeOK
    <3> QED  BY <2>24, <3>1 DEF OfSend, TypeOK
  <2>25. ASSUME NEW w \in Caller, EmitStart(w) PROVE TypeOK'
    <3>1. caller' \in [Caller -> Task]
      <4>1. conn \in Link  BY <2>25 DEF EmitStart, TypeOK
      <4> QED  BY <2>25, <4>1, Tasks DEF EmitStart, TypeOK
    <3> QED  BY <2>25, <3>1 DEF EmitStart, TypeOK
  <2>26. ASSUME NEW w \in Caller, Written(w) PROVE TypeOK'
    BY <2>26, Tasks DEF Written, Ask, TypeOK, Task
  <2>27. ASSUME NEW w \in Caller, NEW n \in Nsp, OfAdd(w, n) PROVE TypeOK'
    <3>1. caller' \in [Caller -> Task]  BY <2>27, Tasks DEF OfAdd, TypeOK
    <3> QED  BY <2>27, <3>1 DEF OfAdd, TypeOK
  <2>28. CASE CloseMark  BY <2>28 DEF CloseMark, TypeOK
  <2>29. CASE CloseConn
    BY <2>29 DEF CloseConn, TypeOK, Link
  <2>30. CASE PeerLost
    BY <2>30 DEF PeerLost, TypeOK, Link
  <2>31. CASE UNCHANGED vars  BY <2>31 DEF vars, TypeOK
  <2> QED
    BY <2>1, <2>2, <2>3, <2>4, <2>5, <2>6, <2>7, <2>8, <2>9, <2>10, <2>11, <2>12, <2>13,
       <2>14, <2>15, <2>16, <2>17, <2>18, <2>19, <2>20, <2>21, <2>22, <2>23, <2>24, <2>25,
       <2>26, <2>27, <2>28, <2>29, <2>30, <2>31
    DEF Next, Owner, Heartbeat, Application
<1> QED  BY <1>1, <1>2, PTL DEF Spec
-----------------------------------------------------------------------------
(* The owner of the connection, Close, and the namespaces to ask for.      *)

(* In every reachable state the owner, Close and Of agree on what is left  *)
(* to do.                                                                  *)
THEOREM ClientInvariant == Spec => []ClientInv
<1>1. Init => ClientInv
  BY DEF Init, None, ClientInv, OwnerInv, CloseInv, RejoinInv, OpenStopInv
<1>2. TypeOK /\ ClientInv /\ [Next]_vars => ClientInv'
  <2> SUFFICES ASSUME TypeOK, ClientInv, [Next]_vars PROVE ClientInv'  OBVIOUS
  <2> USE ClientAssumption DEF ownerVars, closeVars, appVars, netVars, stopVars, hbVars, pongVars, restVars, Phase, None
  <2>1. CASE DialOk
    BY <2>1 DEF DialOk, ClientInv, OwnerInv, CloseInv, RejoinInv, OpenStopInv, Dead, TypeOK
  <2>2. CASE DialFail
    BY <2>2 DEF DialFail, ClientInv, OwnerInv, CloseInv, RejoinInv, OpenStopInv, Dead
  <2>3. CASE Publish
    BY <2>3 DEF Publish, ClientInv, OwnerInv, CloseInv, RejoinInv, OpenStopInv, Dead
  <2>4. CASE Snapshot
    BY <2>4 DEF Snapshot, ToRejoin, ClientInv, OwnerInv, CloseInv, RejoinInv, OpenStopInv, Dead
  <2>5. CASE RejoinNext
    BY <2>5 DEF RejoinNext, ClientInv, OwnerInv, CloseInv, RejoinInv, OpenStopInv, Dead
  <2>6. CASE RejoinWritten
    BY <2>6 DEF RejoinWritten, Ask, ClientInv, OwnerInv, CloseInv, RejoinInv, OpenStopInv, Dead, TypeOK
  <2>7. CASE StartReading
    BY <2>7 DEF StartReading, ClientInv, OwnerInv, CloseInv, RejoinInv, OpenStopInv, Dead
  <2>8. CASE ReadFails
    BY <2>8 DEF ReadFails, ClientInv, OwnerInv, CloseInv, RejoinInv, OpenStopInv, Dead
  <2>9. CASE DropConn
    BY <2>9 DEF DropConn, ClientInv, OwnerInv, CloseInv, RejoinInv, OpenStopInv, Dead
  <2>10. CASE CleanupHeartbeat
    <3>1. OpenStopInv'
      <4>1. stopHeartbeat' = None /\ None \notin stopClosed'
        BY <2>10 DEF CleanupHeartbeat, ForgetHeartbeat, ToClose, TypeOK, Hb
      <4> QED  BY <4>1 DEF OpenStopInv
    <3> QED  BY <2>10, <3>1 DEF CleanupHeartbeat, ForgetHeartbeat, ClientInv, OwnerInv, CloseInv, RejoinInv, Dead
  <2>11. CASE ScheduleReconnect
    BY <2>11 DEF ScheduleReconnect, MayReconnect, ClientInv, OwnerInv, CloseInv, RejoinInv, OpenStopInv, Dead
  <2>12. CASE GiveUp
    BY <2>12 DEF GiveUp, ClientInv, OwnerInv, CloseInv, RejoinInv, OpenStopInv, Dead
  <2>13. CASE Reconnect
    BY <2>13 DEF Reconnect, ClientInv, OwnerInv, CloseInv, RejoinInv, OpenStopInv, Dead
  <2>14. ASSUME NEW n \in Nsp, ReadConnect(n) PROVE ClientInv'
    BY <2>14 DEF ReadConnect, SetupHeartbeat, ToClose, ClientInv, OwnerInv, CloseInv, RejoinInv, OpenStopInv, Dead, TypeOK
  <2>15. CASE ReadPong
    BY <2>15 DEF ReadPong, ClientInv, OwnerInv, CloseInv, RejoinInv, OpenStopInv, Dead
  <2>16. ASSUME NEW h \in Hb, Ticks(h) PROVE ClientInv'
    BY <2>16 DEF Ticks, ClientInv, OwnerInv, CloseInv, RejoinInv, OpenStopInv, Dead
  <2>17. ASSUME NEW h \in Hb, HbStop(h) PROVE ClientInv'
    BY <2>17 DEF HbStop, ClientInv, OwnerInv, CloseInv, RejoinInv, OpenStopInv, Dead
  <2>18. ASSUME NEW h \in Hb, HbTick(h) PROVE ClientInv'
    BY <2>18 DEF HbTick, ClientInv, OwnerInv, CloseInv, RejoinInv, OpenStopInv, Dead
  <2>19. ASSUME NEW h \in Hb, HbWriteFails(h) PROVE ClientInv'
    BY <2>19 DEF HbWriteFails, ClientInv, OwnerInv, CloseInv, RejoinInv, OpenStopInv, Dead
  <2>20. ASSUME NEW h \in Hb, HbWritten(h) PROVE ClientInv'
    BY <2>20 DEF HbWritten, ClientInv, OwnerInv, CloseInv, RejoinInv, OpenStopInv, Dead
  <2>21. ASSUME NEW h \in Hb, HbArm(h) PROVE ClientInv'
    BY <2>21 DEF HbArm, ClientInv, OwnerInv, CloseInv, RejoinInv, OpenStopInv, Dead
  <2>22. ASSUME NEW t \in Timer, TimerFires(t) PROVE ClientInv'
    BY <2>22 DEF TimerFires, ClientInv, OwnerInv, CloseInv, RejoinInv, OpenStopInv, Dead
  <2>23. ASSUME NEW t \in Timer, TimeoutCloses(t) PROVE ClientInv'
    BY <2>23 DEF TimeoutCloses, ClientInv, OwnerInv, CloseInv, RejoinInv, OpenStopInv, Dead
  <2>24. ASSUME NEW w \in Caller, OfSend(w) PROVE ClientInv'
    BY <2>24 DEF OfSend, Idle, ClientInv, OwnerInv, CloseInv, RejoinInv, OpenStopInv, Dead, TypeOK
  <2>25. ASSUME NEW w \in Caller, EmitStart(w) PROVE ClientInv'
    BY <2>25 DEF EmitStart, Idle, ClientInv, OwnerInv, CloseInv, RejoinInv, OpenStopInv, Dead, TypeOK
  <2>26. ASSUME NEW w \in Caller, Written(w) PROVE ClientInv'
    <3>1. UNCHANGED <<phase, rejoin, conn, dialed, closer, closedByUser, closedLive, stopHeartbeat,
                      stopClosed, namespaces, shut, lost>>
      BY <2>26 DEF Written
    <3>2. RejoinInv'
      <4> SUFFICES ASSUME phase \in {"rejoin", "rejoinWrite", "reading"}, ~Dead(dialed),
                          NEW n \in namespaces \ {Root}
                   PROVE  (n \in asked \cup rejoin \/ \E v \in Caller : caller[v].nsp = n
                            /\ (caller[v].state = "joining" \/ caller[v].link = dialed))'
        BY <3>1 DEF RejoinInv, Dead
      <4>1. asked \subseteq asked'  BY <2>26 DEF Written, Ask
      <4>2. CASE n \in asked \cup rejoin  BY <3>1, <4>1, <4>2
      <4>3. CASE n \notin asked \cup rejoin
        <5>1. PICK v \in Caller : /\ caller[v].nsp = n
                                  /\ caller[v].state = "joining" \/ caller[v].link = dialed
          BY <4>3 DEF ClientInv, RejoinInv
        <5>2. CASE v = w
          <6>1. caller[w].state = "writing" /\ caller[w].link = dialed
            BY <2>26, <5>1, <5>2 DEF Written
          <6>2. n # NoNsp => n \in asked'  BY <2>26, <5>1, <5>2, <6>1 DEF Written, Ask
          <6> QED  BY <6>2, ClientAssumption DEF NoNsp, TypeOK
        <5>3. CASE v # w
          <6>1. caller'[v] = caller[v]  BY <2>26, <5>3 DEF Written, TypeOK
          <6> QED  BY <3>1, <5>1, <6>1
        <5> QED  BY <5>2, <5>3
      <4> QED  BY <4>2, <4>3
    <3> QED  BY <3>1, <3>2 DEF ClientInv, OwnerInv, CloseInv, OpenStopInv
  <2>27. ASSUME NEW w \in Caller, NEW n \in Nsp, OfAdd(w, n) PROVE ClientInv'
    BY <2>27 DEF OfAdd, Idle, ClientInv, OwnerInv, CloseInv, RejoinInv, OpenStopInv, Dead, TypeOK
  <2>28. CASE CloseMark
    BY <2>28 DEF CloseMark, ClientInv, OwnerInv, CloseInv, RejoinInv, OpenStopInv, Dead
  <2>29. CASE CloseConn
    BY <2>29 DEF CloseConn, ClientInv, OwnerInv, CloseInv, RejoinInv, OpenStopInv, Dead, TypeOK
  <2>30. CASE PeerLost
    BY <2>30 DEF PeerLost, ClientInv, OwnerInv, CloseInv, RejoinInv, OpenStopInv, Dead
  <2>31. CASE UNCHANGED vars  BY <2>31 DEF vars, ClientInv, OwnerInv, CloseInv, RejoinInv, OpenStopInv, Dead
  <2> QED
    BY <2>1, <2>2, <2>3, <2>4, <2>5, <2>6, <2>7, <2>8, <2>9, <2>10, <2>11, <2>12, <2>13,
       <2>14, <2>15, <2>16, <2>17, <2>18, <2>19, <2>20, <2>21, <2>22, <2>23, <2>24, <2>25,
       <2>26, <2>27, <2>28, <2>29, <2>30, <2>31
    DEF Next, Owner, Heartbeat, Application
<1> QED  BY <1>1, <1>2, TypeCorrect, PTL DEF Spec
-----------------------------------------------------------------------------
(* The heartbeat: goroutines, stop channels and pong timers.               *)

(* Between handleClose and the next CONNECT no heartbeat is in charge.     *)
NoHeartbeatWithoutConnection ==
    phase \notin {"reading", "drop", "cleanup"} => stopHeartbeat = None /\ ticker = None

HeartbeatInv == OneHeartbeat /\ NoDoubleClose /\ OneArmedTimer /\ NoHeartbeatWithoutConnection

(* Once the timer the client knows is stopped, none runs.                  *)
LEMMA Stopped ==
  ASSUME TypeOK, OneArmedTimer
  PROVE  /\ StopPongTimer(timer) \in [Timer -> {"idle", "armed", "firing"}]
         /\ \A u \in Timer : StopPongTimer(timer)[u] # "armed"
<1>1. StopPongTimer(timer) \in [Timer -> {"idle", "armed", "firing"}]
  BY DEF StopPongTimer, TypeOK
<1>2. ASSUME NEW u \in Timer PROVE StopPongTimer(timer)[u] # "armed"
  <2>1. CASE timer[u] = "armed"
    <3>1. u = pongTimer  BY <2>1 DEF OneArmedTimer
    <3> QED  BY <2>1, <3>1 DEF StopPongTimer, TypeOK, Timer, None
  <2>2. CASE timer[u] # "armed"  BY <2>2 DEF StopPongTimer, TypeOK
  <2> QED  BY <2>1, <2>2
<1> QED  BY <1>1, <1>2

(* CONNECT frames, closes, ticks and timeouts leave one heartbeat in       *)
(* charge, one pong timer running and no stop channel closed twice.        *)
THEOREM HeartbeatInvariant == Spec => []HeartbeatInv
<1>1. Init => HeartbeatInv
  BY DEF Init, None, HeartbeatInv, OneHeartbeat, NoDoubleClose, OneArmedTimer, NoHeartbeatWithoutConnection
<1>2. TypeOK /\ ClientInv /\ HeartbeatInv /\ [Next]_vars => HeartbeatInv'
  <2> SUFFICES ASSUME TypeOK, ClientInv, HeartbeatInv, [Next]_vars PROVE HeartbeatInv'  OBVIOUS
  <2> USE DEF ownerVars, closeVars, appVars, netVars, stopVars, hbVars, pongVars, restVars, None
  <2>1. CASE DialOk
    BY <2>1 DEF DialOk, HeartbeatInv, OneHeartbeat, NoDoubleClose, OneArmedTimer, NoHeartbeatWithoutConnection
  <2>2. CASE DialFail
    BY <2>2 DEF DialFail, HeartbeatInv, OneHeartbeat, NoDoubleClose, OneArmedTimer, NoHeartbeatWithoutConnection
  <2>3. CASE Publish
    BY <2>3 DEF Publish, HeartbeatInv, OneHeartbeat, NoDoubleClose, OneArmedTimer, NoHeartbeatWithoutConnection
  <2>4. CASE Snapshot
    BY <2>4 DEF Snapshot, HeartbeatInv, OneHeartbeat, NoDoubleClose, OneArmedTimer, NoHeartbeatWithoutConnection
  <2>5. CASE RejoinNext
    BY <2>5 DEF RejoinNext, HeartbeatInv, OneHeartbeat, NoDoubleClose, OneArmedTimer, NoHeartbeatWithoutConnection
  <2>6. CASE RejoinWritten
    BY <2>6 DEF RejoinWritten, HeartbeatInv, OneHeartbeat, NoDoubleClose, OneArmedTimer, NoHeartbeatWithoutConnection
  <2>7. CASE StartReading
    BY <2>7 DEF StartReading, HeartbeatInv, OneHeartbeat, NoDoubleClose, OneArmedTimer, NoHeartbeatWithoutConnection
  <2>8. CASE ReadFails
    BY <2>8 DEF ReadFails, HeartbeatInv, OneHeartbeat, NoDoubleClose, OneArmedTimer, NoHeartbeatWithoutConnection
  <2>9. CASE DropConn
    BY <2>9 DEF DropConn, HeartbeatInv, OneHeartbeat, NoDoubleClose, OneArmedTimer, NoHeartbeatWithoutConnection
  <2>10. CASE CleanupHeartbeat
    <3>1. OneHeartbeat' /\ NoHeartbeatWithoutConnection'
      BY <2>10 DEF CleanupHeartbeat, ForgetHeartbeat, ToClose, HeartbeatInv, OneHeartbeat, NoHeartbeatWithoutConnection, TypeOK, Hb
    <3>2. NoDoubleClose'
      BY <2>10 DEF CleanupHeartbeat, CloseTwice, ToClose, ClientInv, OpenStopInv, HeartbeatInv, NoDoubleClose
    <3>3. OneArmedTimer'
      BY <2>10, Stopped DEF CleanupHeartbeat, HeartbeatInv, OneArmedTimer
    <3> QED  BY <3>1, <3>2, <3>3 DEF HeartbeatInv
  <2>11. CASE ScheduleReconnect
    BY <2>11 DEF ScheduleReconnect, HeartbeatInv, OneHeartbeat, NoDoubleClose, OneArmedTimer, NoHeartbeatWithoutConnection
  <2>12. CASE GiveUp
    BY <2>12 DEF GiveUp, HeartbeatInv, OneHeartbeat, NoDoubleClose, OneArmedTimer, NoHeartbeatWithoutConnection
  <2>13. CASE Reconnect
    BY <2>13 DEF Reconnect, HeartbeatInv, OneHeartbeat, NoDoubleClose, OneArmedTimer, NoHeartbeatWithoutConnection
  <2>14. ASSUME NEW n \in Nsp, ReadConnect(n) PROVE HeartbeatInv'
    <3>1. CASE n # Own
      BY <2>14, <3>1 DEF ReadConnect, HeartbeatInv, OneHeartbeat, NoDoubleClose, OneArmedTimer, NoHeartbeatWithoutConnection
    <3>2. CASE n = Own
      <4>1. PICK h \in Hb : /\ hb[h] = "none" /\ hb' = [hb EXCEPT ![h] = "select"]
                            /\ stopHeartbeat' = h /\ stopClosed' = (stopClosed \cup ToClose) \ {h}
        BY <2>14, <3>2 DEF ReadConnect, SetupHeartbeat
      <4>2. phase' = "reading" /\ UNCHANGED pongVars /\ doubleClose' = CloseTwice
        BY <2>14, <3>2 DEF ReadConnect, SetupHeartbeat
      <4>3. OneHeartbeat'
        <5> SUFFICES ASSUME NEW g \in Hb, hb'[g] # "none", g \notin stopClosed', g # h PROVE FALSE
          BY <4>1 DEF OneHeartbeat
        <5>1. hb[g] # "none" /\ g \notin stopClosed \cup ToClose  BY <4>1 DEF TypeOK
        <5>2. g = stopHeartbeat  BY <5>1 DEF HeartbeatInv, OneHeartbeat
        <5> QED  BY <5>1, <5>2 DEF ToClose, Hb
      <4>4. NoDoubleClose'
        BY <4>2 DEF CloseTwice, ToClose, ClientInv, OpenStopInv, HeartbeatInv, NoDoubleClose
      <4> QED  BY <4>2, <4>3, <4>4 DEF HeartbeatInv, OneArmedTimer, NoHeartbeatWithoutConnection
    <3> QED  BY <3>1, <3>2
  <2>15. CASE ReadPong
    <3>1. OneArmedTimer'
      <4>1. timer' = StopPongTimer(timer) \/ UNCHANGED <<timer, pongTimer>>  BY <2>15 DEF ReadPong
      <4> QED  BY <4>1, Stopped DEF HeartbeatInv, OneArmedTimer
    <3> QED  BY <2>15, <3>1 DEF ReadPong, HeartbeatInv, OneHeartbeat, NoDoubleClose, NoHeartbeatWithoutConnection
  <2>16. ASSUME NEW h \in Hb, Ticks(h) PROVE HeartbeatInv'
    BY <2>16 DEF Ticks, HeartbeatInv, OneHeartbeat, NoDoubleClose, OneArmedTimer, NoHeartbeatWithoutConnection
  <2>17. ASSUME NEW h \in Hb, HbStop(h) PROVE HeartbeatInv'
    BY <2>17 DEF HbStop, HeartbeatInv, OneHeartbeat, NoDoubleClose, OneArmedTimer, NoHeartbeatWithoutConnection, TypeOK
  <2>18. ASSUME NEW h \in Hb, HbTick(h) PROVE HeartbeatInv'
    BY <2>18 DEF HbTick, HeartbeatInv, OneHeartbeat, NoDoubleClose, OneArmedTimer, NoHeartbeatWithoutConnection, TypeOK
  <2>19. ASSUME NEW h \in Hb, HbWriteFails(h) PROVE HeartbeatInv'
    BY <2>19 DEF HbWriteFails, HeartbeatInv, OneHeartbeat, NoDoubleClose, OneArmedTimer, NoHeartbeatWithoutConnection, TypeOK
  <2>20. ASSUME NEW h \in Hb, HbWritten(h) PROVE HeartbeatInv'
    BY <2>20 DEF HbWritten, HeartbeatInv, OneHeartbeat, NoDoubleClose, OneArmedTimer, NoHeartbeatWithoutConnection, TypeOK
  <2>21. ASSUME NEW h \in Hb, HbArm(h) PROVE HeartbeatInv'
    <3>1. OneArmedTimer'
      <4> DEFINE tm == StopPongTimer(timer)
      <4>1. /\ tm \in [Timer -> {"idle", "armed", "firing"}]
            /\ \A u \in Timer : tm[u] # "armed"
        BY Stopped DEF HeartbeatInv
      <4>2. PICK t \in Timer : timer' = [tm EXCEPT ![t] = "armed"] /\ pongTimer' = t
        BY <2>21 DEF HbArm
      <4> HIDE DEF tm
      <4> QED  BY <4>1, <4>2 DEF OneArmedTimer
    <3>2. OneHeartbeat'
      BY <2>21 DEF HbArm, HeartbeatInv, OneHeartbeat, TypeOK
    <3> QED  BY <2>21, <3>1, <3>2 DEF HbArm, HeartbeatInv, NoDoubleClose, NoHeartbeatWithoutConnection
  <2>22. ASSUME NEW t \in Timer, TimerFires(t) PROVE HeartbeatInv'
    BY <2>22 DEF TimerFires, HeartbeatInv, OneHeartbeat, NoDoubleClose, OneArmedTimer, NoHeartbeatWithoutConnection, TypeOK
  <2>23. ASSUME NEW t \in Timer, TimeoutCloses(t) PROVE HeartbeatInv'
    BY <2>23 DEF TimeoutCloses, HeartbeatInv, OneHeartbeat, NoDoubleClose, OneArmedTimer, NoHeartbeatWithoutConnection, TypeOK
  <2>24. ASSUME NEW w \in Caller, OfSend(w) PROVE HeartbeatInv'
    BY <2>24 DEF OfSend, HeartbeatInv, OneHeartbeat, NoDoubleClose, OneArmedTimer, NoHeartbeatWithoutConnection
  <2>25. ASSUME NEW w \in Caller, EmitStart(w) PROVE HeartbeatInv'
    BY <2>25 DEF EmitStart, HeartbeatInv, OneHeartbeat, NoDoubleClose, OneArmedTimer, NoHeartbeatWithoutConnection
  <2>26. ASSUME NEW w \in Caller, Written(w) PROVE HeartbeatInv'
    BY <2>26 DEF Written, HeartbeatInv, OneHeartbeat, NoDoubleClose, OneArmedTimer, NoHeartbeatWithoutConnection
  <2>27. ASSUME NEW w \in Caller, NEW n \in Nsp, OfAdd(w, n) PROVE HeartbeatInv'
    BY <2>27 DEF OfAdd, HeartbeatInv, OneHeartbeat, NoDoubleClose, OneArmedTimer, NoHeartbeatWithoutConnection
  <2>28. CASE CloseMark
    BY <2>28 DEF CloseMark, HeartbeatInv, OneHeartbeat, NoDoubleClose, OneArmedTimer, NoHeartbeatWithoutConnection
  <2>29. CASE CloseConn
    BY <2>29 DEF CloseConn, HeartbeatInv, OneHeartbeat, NoDoubleClose, OneArmedTimer, NoHeartbeatWithoutConnection
  <2>30. CASE PeerLost
    BY <2>30 DEF PeerLost, HeartbeatInv, OneHeartbeat, NoDoubleClose, OneArmedTimer, NoHeartbeatWithoutConnection
  <2>31. CASE UNCHANGED vars  BY <2>31 DEF vars, HeartbeatInv, OneHeartbeat, NoDoubleClose, OneArmedTimer, NoHeartbeatWithoutConnection
  <2> QED
    BY <2>1, <2>2, <2>3, <2>4, <2>5, <2>6, <2>7, <2>8, <2>9, <2>10, <2>11, <2>12, <2>13,
       <2>14, <2>15, <2>16, <2>17, <2>18, <2>19, <2>20, <2>21, <2>22, <2>23, <2>24, <2>25,
       <2>26, <2>27, <2>28, <2>29, <2>30, <2>31
    DEF Next, Owner, Heartbeat, Application
<1> QED  BY <1>1, <1>2, TypeCorrect, ClientInvariant, PTL DEF Spec

(* Only the heartbeat the client can still stop has not been told to stop  *)
(* (setupHeartbeat, cleanupHeartbeat, pingLoop).                           *)
THEOREM HeartbeatIsUnique == Spec => []OneHeartbeat
  BY HeartbeatInvariant, PTL DEF HeartbeatInv

(* No stop channel is closed twice, so neither setupHeartbeat nor          *)
(* cleanupHeartbeat panics.                                                *)
THEOREM StopChannelsCloseOnce == Spec => []NoDoubleClose
  BY HeartbeatInvariant, PTL DEF HeartbeatInv

(* Every pong timer that runs is the one that would be stopped             *)
(* (armPongTimeout, clearPongTimeout).                                     *)
THEOREM ArmedTimerIsKnown == Spec => []OneArmedTimer
  BY HeartbeatInvariant, PTL DEF HeartbeatInv

-----------------------------------------------------------------------------
(* Consequences of the owner's invariant.                                  *)

(* While a live connection is read, every namespace in use but the root    *)
(* has been asked for on it, or an Of that will ask is at work.            *)
THEOREM NothingForgotten == Spec => []NamespacesAreAsked
<1>1. ClientInv => NamespacesAreAsked
  BY DEF ClientInv, OwnerInv, RejoinInv, NamespacesAreAsked
<1> QED  BY <1>1, ClientInvariant, PTL

(* A Close that found a connection to close is final: closedByUser is      *)
(* seen before the chain of handleClose, timer and connect dials again.    *)
THEOREM CloseIsFinal == Spec => CloseWhileConnectedIsFinal
<1>1. TypeOK /\ ClientInv /\ [Next]_vars => [closedLive => conn' \in {conn, None}]_vars
  <2> SUFFICES ASSUME ClientInv, [Next]_vars, closedLive PROVE conn' \in {conn, None}
    OBVIOUS
  <2> USE DEF ownerVars, closeVars, appVars, netVars, stopVars, hbVars, pongVars, restVars
  <2>1. CASE Publish  BY <2>1 DEF Publish, ClientInv, CloseInv
  <2>2. CASE DropConn  BY <2>2 DEF DropConn
  <2>3. CASE ~Publish /\ ~DropConn
    <3>1. conn' = conn
      BY <2>3 DEF vars, Next, Owner, Heartbeat, Application, DialOk, DialFail, Snapshot, RejoinNext,
        RejoinWritten, StartReading, ReadFails, CleanupHeartbeat, ScheduleReconnect, GiveUp, Reconnect,
        ReadConnect, ReadPong, Ticks, HbStop, HbTick, HbWriteFails, HbWritten, HbArm, TimerFires,
        TimeoutCloses, OfAdd, OfSend, EmitStart, Written, CloseMark, CloseConn, PeerLost
    <3> QED  BY <3>1
  <2> QED  BY <2>1, <2>2, <2>3
<1> QED  BY <1>1, TypeCorrect, ClientInvariant, PTL DEF Spec, CloseWhileConnectedIsFinal
-----------------------------------------------------------------------------
(* The refinement of LinkPromise.                                          *)

(* How ClientConn reads the promise's heartbeats and connections.          *)
Beating == {h \in Hb : hb[h] # "none" /\ h \notin stopClosed}
Made    == IF phase = "publish" THEN dialed - 1 ELSE dialed
linked  == <<conn, Made, attempts, Beating, closedByUser, closedLive, phase = "stopped">>

(* From the end of a cleanup to the next CONNECT nothing beats.            *)
LEMMA NothingBeats ==
  ASSUME OneHeartbeat, stopHeartbeat = None
  PROVE  Beating = {}
  BY DEF OneHeartbeat, Beating, Hb, None

(* The steps of the promise, and its stutters, in terms of ClientConn.     *)
LEMMA LinkBegins == Init => L!LinkInit
  BY DEF Init, L!LinkInit, None

LEMMA LinkStutters ==
  ASSUME UNCHANGED linked
  PROVE  UNCHANGED L!linkVars
  BY DEF linked, Made, Beating, L!linkVars

(* The owner's steps: a new connection is an Open, the loss of the one     *)
(* there is a Drop, a cleanup a Silence, the rest Retry, GiveUp or stutter.*)
LEMMA OwnerLinks ==
  ASSUME TypeOK, ClientInv, HeartbeatInv, Owner
  PROVE  L!LinkNext \/ UNCHANGED L!linkVars
<1> USE ClientAssumption DEF ownerVars, closeVars, appVars, netVars, stopVars, hbVars, pongVars, restVars, Phase, None
<1>1. CASE DialOk
  <2>1. UNCHANGED linked
    <3>1. dialed \in Nat /\ (dialed + 1) - 1 = dialed
      BY DEF TypeOK
    <3>2. Made' = Made
      BY <1>1, <3>1 DEF DialOk, Made
    <3> QED
      BY <1>1, <3>2 DEF DialOk, linked, Beating
  <2> QED
    BY <2>1, LinkStutters
<1>2. CASE DialFail \/ Snapshot \/ RejoinNext \/ RejoinWritten \/ StartReading \/ ReadFails \/ Reconnect
  <2>1. UNCHANGED linked
    BY <1>2 DEF DialFail, Snapshot, RejoinNext, RejoinWritten, StartReading, ReadFails, Reconnect,
                linked, Made, Beating
  <2> QED
    BY <2>1, LinkStutters
<1>3. CASE Publish
  <2>1. conn = 0 /\ ~closedLive /\ Beating = {}
    BY <1>3, NothingBeats DEF Publish, ClientInv, OwnerInv, CloseInv, HeartbeatInv, NoHeartbeatWithoutConnection
  <2>2. Made + 1 = dialed /\ Made' = dialed /\ Beating' = Beating
    <3>1. dialed \in Nat /\ (dialed - 1) + 1 = dialed
      BY DEF TypeOK
    <3> QED
      BY <1>3, <3>1 DEF Publish, Made, Beating
  <2>3. L!Open
    BY <1>3, <2>1, <2>2 DEF Publish, Made, Beating, L!Open, L!Quiet
  <2> QED
    BY <2>3 DEF L!LinkNext
<1>4. CASE DropConn
  <2>1. /\ conn' = None /\ UNCHANGED <<attempts, closedByUser, closedLive>>
        /\ Made' = Made /\ Beating' = Beating /\ (phase = "stopped")' = (phase = "stopped")
    BY <1>4 DEF DropConn, Made, Beating
  <2>2. CASE conn = None
    BY <2>1, <2>2, LinkStutters DEF linked
  <2>3. CASE conn # None
    <3>1. L!Drop
      BY <2>1, <2>3 DEF Made, Beating, L!Drop
    <3> QED
      BY <3>1 DEF L!LinkNext
  <2> QED
    BY <2>2, <2>3
<1>5. CASE CleanupHeartbeat
  <2>1. conn = None
    BY <1>5 DEF CleanupHeartbeat, ClientInv, OwnerInv
  <2>2. Beating' = {}
    BY <1>5 DEF CleanupHeartbeat, ToClose, HeartbeatInv, OneHeartbeat, Beating, Hb
  <2>3. /\ UNCHANGED <<conn, attempts, closedByUser, closedLive>>
        /\ Made' = Made /\ (phase = "stopped")' = (phase = "stopped")
    BY <1>5 DEF CleanupHeartbeat, Made
  <2>4. L!Silence
    BY <2>1, <2>2, <2>3 DEF Made, Beating, L!Silence
  <2> QED
    BY <2>4 DEF L!LinkNext
<1>6. CASE ScheduleReconnect
  <2>1. conn = None /\ Beating = {}
    BY <1>6, NothingBeats DEF ScheduleReconnect, ClientInv, OwnerInv, HeartbeatInv, NoHeartbeatWithoutConnection
  <2>2. L!Retry
    BY <1>6, <2>1 DEF ScheduleReconnect, MayReconnect, Beating, L!Retry, L!Quiet
  <2> QED
    BY <2>2 DEF L!LinkNext
<1>7. CASE GiveUp
  <2>1. conn = None /\ Beating = {}
    BY <1>7, NothingBeats DEF GiveUp, ClientInv, OwnerInv, HeartbeatInv, NoHeartbeatWithoutConnection
  <2>2. closedByUser \/ ~AutoReconnect \/ attempts = MaxAttempts
    <3>1. attempts \in Nat /\ attempts <= MaxAttempts
      BY DEF TypeOK
    <3> QED
      BY <1>7, <3>1 DEF GiveUp, MayReconnect
  <2>3. L!GiveUp
    BY <1>7, <2>1, <2>2 DEF GiveUp, Beating, L!GiveUp, L!Quiet
  <2> QED
    BY <2>3 DEF L!LinkNext
<1> QED
  BY <1>1, <1>2, <1>3, <1>4, <1>5, <1>6, <1>7 DEF Owner

(* A CONNECT of the client's own namespace starts the only heartbeat in    *)
(* charge.                                                                 *)
LEMMA ConnectLinks ==
  ASSUME TypeOK, ClientInv, HeartbeatInv, NEW n \in Nsp, ReadConnect(n)
  PROVE  L!LinkNext \/ UNCHANGED L!linkVars
<1>1. /\ UNCHANGED <<conn, attempts, closedByUser, closedLive, dialed, phase>>
      /\ Made' = Made /\ conn # None
  BY DEF ReadConnect, ownerVars, appVars, closeVars, Made, ClientInv, OwnerInv
<1>2. CASE n # Own
  <2>1. UNCHANGED linked
    BY <1>1, <1>2 DEF ReadConnect, hbVars, stopVars, linked, Beating
  <2> QED
    BY <2>1, LinkStutters
<1>3. CASE n = Own
  <2>1. PICK h \in Hb : /\ hb[h] = "none" /\ hb' = [hb EXCEPT ![h] = "select"]
                        /\ stopClosed' = (stopClosed \cup ToClose) \ {h}
    BY <1>3 DEF ReadConnect, SetupHeartbeat
  <2>2. ASSUME NEW g \in Hb, hb'[g] # "none", g \notin stopClosed', g # h
        PROVE  FALSE
    <3>1. hb[g] # "none" /\ g \notin stopClosed \cup ToClose
      BY <2>1, <2>2 DEF TypeOK
    <3>2. g = stopHeartbeat
      BY <3>1 DEF HeartbeatInv, OneHeartbeat
    <3> QED
      BY <3>1, <3>2 DEF ToClose, Hb, None
  <2>3. hb'[h] # "none" /\ h \notin stopClosed'
    BY <2>1 DEF TypeOK
  <2>4. Beating' = {h}
    BY <2>2, <2>3 DEF Beating
  <2>5. L!Beat(h)
    BY <1>1, <2>4 DEF Made, Beating, None, L!Beat
  <2> QED
    BY <2>5 DEF L!LinkNext
<1> QED
  BY <1>2, <1>3

(* Connections, heartbeats and Close are to an application what            *)
(* LinkPromise says (connect, handleClose, setupHeartbeat, pingLoop,       *)
(* cleanupHeartbeat and Close of client.go).                               *)
THEOREM ConnectionsImplementPromise == Spec => LinkPromiseIsKept
<1>1. TypeOK /\ ClientInv /\ HeartbeatInv /\ [Next]_vars => [L!LinkNext]_(L!linkVars)
  <2> SUFFICES ASSUME TypeOK, ClientInv, HeartbeatInv, [Next]_vars
               PROVE  L!LinkNext \/ UNCHANGED L!linkVars
    OBVIOUS
  <2>1. CASE Owner
    BY <2>1, OwnerLinks
  <2>2. ASSUME NEW n \in Nsp, ReadConnect(n) PROVE L!LinkNext \/ UNCHANGED L!linkVars
    BY <2>2, ConnectLinks
  <2>3. CASE CloseMark
    <3>1. closedByUser' = TRUE /\ UNCHANGED <<conn, Made, attempts, Beating, closedLive, phase>>
      BY <2>3 DEF CloseMark, ownerVars, hbVars, stopVars, Made, Beating
    <3>2. L!Dismiss
      BY <3>1 DEF Made, Beating, L!Dismiss
    <3> QED
      BY <3>2 DEF L!LinkNext
  <2>4. CASE CloseConn
    <3>1. /\ closedByUser /\ ~closedLive /\ closedLive' = (conn # None)
          /\ UNCHANGED <<conn, Made, attempts, Beating, closedByUser, phase>>
      BY <2>4 DEF CloseConn, ownerVars, hbVars, stopVars, Made, Beating, ClientInv, CloseInv, TypeOK
    <3>2. CASE conn = None
      <4>1. UNCHANGED linked
        BY <3>1, <3>2 DEF linked, TypeOK
      <4> QED
        BY <4>1, LinkStutters
    <3>3. CASE conn # None
      <4>1. L!Close
        BY <3>1, <3>3 DEF Made, Beating, None, L!Close
      <4> QED
        BY <4>1 DEF L!LinkNext
    <3> QED
      BY <3>2, <3>3
  <2>5. ASSUME NEW h \in Hb, Heartbeat(h) PROVE UNCHANGED L!linkVars
    <3>1. stopClosed' = stopClosed /\ UNCHANGED <<ownerVars, appVars>>
      BY <2>5 DEF Heartbeat, HbStop, HbTick, HbWriteFails, HbWritten, HbArm, stopVars
    <3>2. ASSUME NEW g \in Hb, g \notin stopClosed PROVE hb'[g] = "none" <=> hb[g] = "none"
      BY <2>5, <3>2 DEF Heartbeat, HbStop, HbTick, HbWriteFails, HbWritten, HbArm, TypeOK
    <3>3. Beating' = Beating
      BY <3>1, <3>2 DEF Beating
    <3>4. UNCHANGED linked
      BY <3>1, <3>3 DEF linked, Made, ownerVars, appVars, closeVars
    <3> QED
      BY <3>4, LinkStutters
  <2>6. CASE UNCHANGED <<ownerVars, closeVars, hb, stopClosed>>
    <3>1. UNCHANGED linked
      BY <2>6 DEF linked, Made, Beating, ownerVars, closeVars
    <3> QED
      BY <3>1, LinkStutters
  <2>7. \/ Owner \/ \E n \in Nsp : ReadConnect(n)
        \/ CloseMark \/ CloseConn
        \/ \E h \in Hb : Heartbeat(h)
        \/ UNCHANGED <<ownerVars, closeVars, hb, stopClosed>>
    BY DEF Next, vars, restVars, appVars, hbVars, stopVars, ReadPong, Ticks, TimerFires, TimeoutCloses,
           Application, OfAdd, OfSend, EmitStart, Written, PeerLost
  <2> QED
    BY <2>1, <2>2, <2>3, <2>4, <2>5, <2>6, <2>7
<1> QED
  BY <1>1, LinkBegins, TypeCorrect, ClientInvariant, HeartbeatInvariant, PTL
  DEF Spec, LinkPromiseIsKept, L!Promise
=============================================================================
