--------------------------- MODULE ServerHubProofs ---------------------------
(***************************************************************************)
(* Safety of ServerHub, for every set of connections, namespaces, rooms    *)
(* and broadcast calls, and every value of the bounds.                     *)
(***************************************************************************)
EXTENDS ServerHub, TLAPS

(* The tuples of variables are expanded everywhere.                        *)
USE DEF connVars, nspVars, auxVars

(* What the proofs use of Sock: the fields of a socket, and that a         *)
(* connection has only one root socket.                                    *)
LEMMA SockFields ==
    /\ \A s \in Sock : s.conn \in Conn /\ s.nsp \in Nsp
    /\ \A s \in Sock : s.nsp = Root => s = RootSock(s.conn)
    /\ \A c \in Conn : RootSock(c) \in Sock /\ RootSock(c).conn = c /\ RootSock(c).nsp = Root
  BY ConstantAssumption DEF Sock, RootSock

(* Frames are of type Frame, and sending one keeps the outboxes typed.     *)
LEMMA FramesAreTyped ==
    /\ \A s \in Sock : ConnectFrame(s) \in Frame
    /\ \A n \in Nsp : ErrorFrame(n) \in Frame
    /\ \A n \in Nsp, t \in {"ack", "pong", "event"} : ReplyFrame(t, n) \in Frame
    /\ \A s \in Sock, b \in Bcast : EventFrame(s, b) \in Frame
  BY SockFields DEF ConnectFrame, ErrorFrame, ReplyFrame, EventFrame, Frame

LEMMA SendIsTyped ==
    ASSUME NEW c \in Conn, NEW f \in Frame, outbox \in [Conn -> Seq(Frame)], Send(c, f)
    PROVE  outbox' \in [Conn -> Seq(Frame)]
  BY DEF Send

(* A step that changes only broadcasts and outboxes keeps the other types. *)
LEMMA BroadcastStepIsTyped ==
    ASSUME TypeOK, bcast' \in [Bcast -> Call], outbox' \in [Conn -> Seq(Frame)],
           stayed' \in [Bcast -> SUBSET Sock],
           UNCHANGED <<connVars, nspVars, pc, rooms, raced, superseded, unheard>>
    PROVE  TypeOK'
<1>1. /\ UNCHANGED <<open, loop, closing, onLoop, namespaces, hubSockets, nsSockets>>
      /\ UNCHANGED <<pc, rooms, raced, superseded, unheard>>
  BY DEF connVars, nspVars, auxVars
<1>2. /\ open' \subseteq Conn /\ namespaces' \subseteq Nsp
      /\ raced' \subseteq Sock /\ superseded' \subseteq Sock /\ unheard' \subseteq Sock
  BY <1>1 DEF TypeOK
<1>3. /\ loop' \in [Conn -> {"none", "reading", "closing"}]
      /\ closing' \in [Conn -> SUBSET Sock]
      /\ onLoop' \in [Conn -> Sock \cup {NoSock}]
      /\ pc' \in [Sock -> SockPC]
      /\ hubSockets' \in [Conn -> [Nsp -> Sock \cup {NoSock}]]
      /\ nsSockets' \in [Nsp -> SUBSET Sock]
      /\ rooms' \in [Sock -> SUBSET (Room \cup Sock)]
  BY <1>1 DEF TypeOK
<1> QED
  BY ONLY <1>2, <1>3, bcast' \in [Bcast -> Call], outbox' \in [Conn -> Seq(Frame)],
     stayed' \in [Bcast -> SUBSET Sock] DEF TypeOK

-----------------------------------------------------------------------------
(* Every variable always has its type: sockets, frames and calls are only  *)
(* ever the ones the constants allow.                                      *)
THEOREM TypeCorrect == Spec => []TypeOK
<1>1. Init => TypeOK
  BY SockFields, ConstantAssumption DEF Init, TypeOK, SockPC, Call, Idle
<1>2. TypeOK /\ [Next]_vars => TypeOK'
  <2> SUFFICES ASSUME TypeOK, [Next]_vars PROVE TypeOK'
    OBVIOUS
  <2> USE DEF TypeOK
  <2>1. ASSUME NEW n \in Nsp, Of(n) PROVE TypeOK'
    BY <2>1 DEF Of
  <2>2. ASSUME NEW c \in Conn, Accept(c) PROVE TypeOK'
    BY <2>2, SockFields DEF Accept, Goto, SockPC
  <2>3. ASSUME NEW c \in Conn, NEW n \in Nsp, ReadRefusedConnect(c, n) PROVE TypeOK'
    BY <2>3, FramesAreTyped, SendIsTyped DEF ReadRefusedConnect
  <2>4. ASSUME NEW c \in Conn, NEW n \in Nsp, ReadConnect(c, n) PROVE TypeOK'
    BY <2>4 DEF ReadConnect, Newborn, Goto, SockPC, HoldLoop
  <2>5. ASSUME NEW c \in Conn, NEW n \in Nsp, ReadEvent(c, n) PROVE TypeOK'
    <3>1. hubSockets[c][n] \in Sock
      BY <2>5 DEF ReadEvent
    <3>2. outbox' \in [Conn -> Seq(Frame)]
      BY <2>5, <3>1, FramesAreTyped, SendIsTyped DEF ReadEvent
    <3> QED
      BY <2>5, <3>1, <3>2 DEF ReadEvent
  <2>6. ASSUME NEW c \in Conn, NEW n \in Nsp, ReadPing(c, n) PROVE TypeOK'
    BY <2>6, FramesAreTyped, SendIsTyped DEF ReadPing
  <2>7. ASSUME NEW c \in Conn, NEW n \in Nsp, NEW r \in Room, ReadJoin(c, n, r) PROVE TypeOK'
    BY <2>7 DEF ReadJoin, Join
  <2>8. ASSUME NEW c \in Conn, NEW n \in Nsp, NEW r \in Room, ReadLeave(c, n, r) PROVE TypeOK'
    BY <2>8 DEF ReadLeave, Leave
  <2>9. ASSUME NEW s \in Sock, Pass(s) PROVE TypeOK'
    BY <2>9 DEF Pass, Goto, SockPC
  <2>10. ASSUME NEW s \in Sock, Reject(s) PROVE TypeOK'
    <3>1. outbox' \in [Conn -> Seq(Frame)]
      BY <2>10, SockFields, FramesAreTyped, SendIsTyped DEF Reject, CloseConn
    <3> QED
      BY <2>10, <3>1 DEF Reject, Goto, FreeLoop, SockPC, CloseConn
  <2>11. ASSUME NEW s \in Sock, Defer(s) PROVE TypeOK'
    BY <2>11 DEF Defer, FreeLoop
  <2>12. ASSUME NEW s \in Sock, AddSocket(s) PROVE TypeOK'
    BY <2>12, SockFields DEF AddSocket, Goto, SockPC, AddMember
  <2>13. ASSUME NEW s \in Sock, Register(s) PROVE TypeOK'
    <3>1. hubSockets' \in [Conn -> [Nsp -> Sock \cup {NoSock}]]
      BY <2>13, SockFields DEF Register, Route
    <3>2. superseded' \subseteq Sock
      BY <2>13, SockFields DEF Register, Route
    <3> QED
      BY <2>13, <3>1, <3>2 DEF Register, Goto, SockPC, Route
  <2>14. ASSUME NEW s \in Sock, Announce(s) PROVE TypeOK'
    BY <2>14, SockFields, FramesAreTyped, SendIsTyped DEF Announce, Goto, SockPC
  <2>15. ASSUME NEW s \in Sock, Fire(s) PROVE TypeOK'
    BY <2>15 DEF Fire, Goto, FreeLoop, SockPC
  <2>16. ASSUME NEW c \in Conn, PeerClose(c) PROVE TypeOK'
    BY <2>16 DEF PeerClose
  <2>17. ASSUME NEW c \in Conn, HandleClose(c) PROVE TypeOK'
    BY <2>17 DEF HandleClose, SocketsOf, Snapshot
  <2>18. ASSUME NEW c \in Conn, NEW s \in Sock, RemoveSocket(c, s) PROVE TypeOK'
    BY <2>18 DEF RemoveSocket, RemoveMember
  <2>19. ASSUME NEW s \in Sock, NEW r \in Room, SocketJoin(s, r) PROVE TypeOK'
    BY <2>19 DEF SocketJoin, Join
  <2>20. ASSUME NEW s \in Sock, NEW r \in Room, SocketLeave(s, r) PROVE TypeOK'
    BY <2>20 DEF SocketLeave, Leave
  <2>21. ASSUME NEW s \in Sock, SocketEmit(s) PROVE TypeOK'
    BY <2>21, SockFields, FramesAreTyped, SendIsTyped DEF SocketEmit
  <2>22. ASSUME NEW b \in Bcast, NEW n \in Nsp, NEW t \in Targets, NEW x \in Sock \cup {NoSock},
                StartEmit(b, n, t, x)
         PROVE  TypeOK'
    BY <2>22 DEF StartEmit, Call, Recipients
  <2>23. ASSUME NEW b \in Bcast, SendNext(b) PROVE TypeOK'
    <3>1. PICK s \in bcast[b].todo :
             /\ bcast' = [bcast EXCEPT ![b].todo = @ \ {s}]
             /\ IF Addressed(b, s) THEN Send(s.conn, EventFrame(s, b)) ELSE UNCHANGED outbox
      BY <2>23 DEF SendNext
    <3>2. s \in Sock
      BY DEF Call
    <3>3. outbox' \in [Conn -> Seq(Frame)]
      BY <3>1, <3>2, SockFields, FramesAreTyped, SendIsTyped
    <3>4. bcast' \in [Bcast -> Call]
      <4>1. bcast \in [Bcast -> Call]
        OBVIOUS
      <4>2. bcast[b] \in Call /\ bcast[b].todo \ {s} \in SUBSET Sock
        BY <4>1 DEF Call
      <4>3. [bcast[b] EXCEPT !.todo = @ \ {s}] \in Call
        BY ONLY <4>2 DEF Call
      <4>4. bcast' = [bcast EXCEPT ![b] = [bcast[b] EXCEPT !.todo = @ \ {s}]]
        BY ONLY <3>1, <4>1
      <4> QED
        BY ONLY <4>1, <4>3, <4>4
    <3>5. UNCHANGED <<connVars, nspVars, pc, rooms, raced, superseded, unheard>>
      BY ONLY <2>23 DEF SendNext, auxVars
    <3>6. stayed' \in [Bcast -> SUBSET Sock]
      BY <2>23 DEF SendNext
    <3> QED
      BY ONLY TypeOK, <3>3, <3>4, <3>5, <3>6, BroadcastStepIsTyped
  <2>24. ASSUME NEW b \in Bcast, FinishEmit(b) PROVE TypeOK'
    <3>1. bcast' = [bcast EXCEPT ![b].state = "done"]
      BY ONLY <2>24 DEF FinishEmit
    <3>2. UNCHANGED <<connVars, nspVars, pc, rooms, outbox, raced, superseded, unheard>>
      BY ONLY <2>24 DEF FinishEmit
    <3>3. stayed' \in [Bcast -> SUBSET Sock]
      BY <2>24 DEF FinishEmit
    <3>4. outbox' \in [Conn -> Seq(Frame)] /\ bcast \in [Bcast -> Call]
      BY ONLY TypeOK, <3>2 DEF TypeOK
    <3>5. bcast' \in [Bcast -> Call]
      BY ONLY <3>1, <3>4 DEF Call
    <3> QED
      BY ONLY TypeOK, <3>2, <3>3, <3>4, <3>5, BroadcastStepIsTyped
  <2>25. CASE UNCHANGED vars
    BY <2>25 DEF vars
  <2> QED
    BY <2>1, <2>2, <2>3, <2>4, <2>5, <2>6, <2>7, <2>8, <2>9, <2>10, <2>11, <2>12, <2>13,
       <2>14, <2>15, <2>16, <2>17, <2>18, <2>19, <2>20, <2>21, <2>22, <2>23, <2>24, <2>25
       DEF Next, Read, CleanUp, Admit, Broadcast, SocketsOf
<1> QED
  BY <1>1, <1>2, PTL DEF Spec
-----------------------------------------------------------------------------
(* Frames in an outbox after a frame has been sent: the old ones and it.   *)
LEMMA SendAddsOneFrame ==
    ASSUME outbox \in [Conn -> Seq(Frame)], NEW c \in Conn, NEW f \in Frame, Send(c, f),
           NEW s \in Sock, SentBy(s, "connect")' # {}
    PROVE  SentBy(s, "connect") # {} \/ (f.type = "connect" /\ f.sock = s)
<1>1. PICK i \in DOMAIN outbox'[s.conn] :
         outbox'[s.conn][i].type = "connect" /\ outbox'[s.conn][i].sock = s
  BY DEF SentBy
<1>2. CASE outbox'[s.conn] = outbox[s.conn]
  BY <1>1, <1>2 DEF SentBy
<1>3. CASE outbox'[s.conn] = Append(outbox[s.conn], f)
  <2>1. s.conn \in Conn /\ outbox[s.conn] \in Seq(Frame)
    BY SockFields
  <2>2. CASE i \in DOMAIN outbox[s.conn]
    <3>1. outbox'[s.conn][i] = outbox[s.conn][i]
      BY <1>3, <2>1, <2>2
    <3> QED
      BY <1>1, <2>2, <3>1 DEF SentBy
  <2>3. CASE i \notin DOMAIN outbox[s.conn]
    <3>1. outbox'[s.conn][i] = f
      BY <1>1, <1>3, <2>1, <2>3
    <3> QED
      BY <1>1, <3>1
  <2> QED
    BY <2>2, <2>3
<1> QED
  BY <1>2, <1>3, SockFields DEF Send

(* A step that writes no CONNECT frame, and takes no socket back from the  *)
(* last two stages of its admission, keeps ConnectsAreSound.               *)
LEMMA ConnectsKept ==
    ASSUME TypeOK, ConnectsAreSound,
           \A s \in Sock : pc[s] \in {"fire", "admitted"} => pc'[s] \in {"fire", "admitted"},
           outbox' = outbox \/ \E c \in Conn, f \in Frame : f.type # "connect" /\ Send(c, f)
    PROVE  ConnectsAreSound'
<1> SUFFICES ASSUME NEW s \in Sock, SentBy(s, "connect")' # {}
             PROVE  pc'[s] \in {"fire", "admitted"}
  BY DEF ConnectsAreSound
<1>1. CASE outbox' = outbox
  BY <1>1 DEF ConnectsAreSound, SentBy
<1>2. CASE \E c \in Conn, f \in Frame : f.type # "connect" /\ Send(c, f)
  <2>1. PICK c \in Conn, f \in Frame : f.type # "connect" /\ Send(c, f)
    BY <1>2
  <2>2. SentBy(s, "connect") # {}
    BY <2>1, SendAddsOneFrame DEF TypeOK
  <2> QED
    BY <2>2 DEF ConnectsAreSound
<1> QED
  BY <1>1, <1>2

(* A step that touches neither the admissions nor the maps keeps HubInv.   *)
LEMMA QuietStep ==
    ASSUME TypeOK, HubInv,
           UNCHANGED <<loop, closing, onLoop, pc, open, hubSockets, nsSockets, raced, superseded>>,
           outbox' = outbox \/ \E c \in Conn, f \in Frame : f.type # "connect" /\ Send(c, f)
    PROVE  HubInv'
<1>1. ConnectsAreSound'
  BY ConnectsKept DEF HubInv
<1> QED
  BY <1>1 DEF HubInv, RoutesAreSound, SnapshotsAreSound, MembersAreSound, CleanupFindsMembers,
              Members, LateSocketsRaced, AdmissionsAreSound, InlineAdmissionsHoldLoop,
              Settled, InAdmission

-----------------------------------------------------------------------------
(* HubInv is inductive relative to TypeOK.                                 *)
LEMMA HubInvInit == Init => HubInv
<1> SUFFICES ASSUME Init PROVE HubInv
  OBVIOUS
<1>1. ConnectsAreSound
  BY SockFields DEF Init, ConnectsAreSound, SentBy
<1> QED
  BY <1>1, SockFields DEF Init, HubInv, RoutesAreSound, SnapshotsAreSound, MembersAreSound,
     CleanupFindsMembers, Members, LateSocketsRaced, AdmissionsAreSound,
     InlineAdmissionsHoldLoop, Settled, InAdmission

LEMMA HubInvStep == TypeOK /\ TypeOK' /\ HubInv /\ [Next]_vars => HubInv'
<1> SUFFICES ASSUME TypeOK, TypeOK', HubInv, [Next]_vars PROVE HubInv'
  OBVIOUS
<1> USE SockFields
<1>1. ASSUME NEW n \in Nsp, Of(n) PROVE HubInv'
  BY <1>1, QuietStep DEF Of
<1>2. ASSUME NEW c \in Conn, Accept(c) PROVE HubInv'
  <2>1. pc[RootSock(c)] = "unborn"
    BY <1>2 DEF Accept, HubInv, AdmissionsAreSound
  <2>2. ConnectsAreSound'
    BY <1>2, <2>1, ConnectsKept DEF Accept, Goto, HubInv, TypeOK
  <2>3. (RoutesAreSound /\ SnapshotsAreSound /\ MembersAreSound)'
    BY <1>2, <2>1 DEF Accept, Goto, HubInv, TypeOK, Settled,
       RoutesAreSound, SnapshotsAreSound, MembersAreSound
  <2>4. (CleanupFindsMembers /\ LateSocketsRaced /\ AdmissionsAreSound)'
    BY <1>2, <2>1 DEF Accept, Goto, HubInv, TypeOK, Settled, InAdmission, Members,
       CleanupFindsMembers, LateSocketsRaced, AdmissionsAreSound
  <2>5. InlineAdmissionsHoldLoop'
    BY <1>2 DEF Accept, Goto, HubInv, TypeOK, InAdmission, InlineAdmissionsHoldLoop, OffLoop
  <2> QED
    BY <2>2, <2>3, <2>4, <2>5 DEF HubInv
<1>3. ASSUME NEW c \in Conn, NEW n \in Nsp, ReadRefusedConnect(c, n) PROVE HubInv'
  <2>1. ErrorFrame(n) \in Frame /\ ErrorFrame(n).type # "connect"
    BY FramesAreTyped DEF ErrorFrame, ReplyFrame
  <2> QED
    BY <1>3, <2>1, QuietStep DEF ReadRefusedConnect
<1>4. ASSUME NEW c \in Conn, NEW n \in Nsp, ReadConnect(c, n) PROVE HubInv'
  <2>1. PICK s \in Sock : /\ s.conn = c /\ s.nsp = n /\ pc[s] = "unborn"
                          /\ Goto(s, "middleware") /\ HoldLoop(s)
    BY ONLY <1>4 DEF ReadConnect, Newborn
  <2>2. s.conn = c /\ s.nsp = n /\ pc[s] = "unborn"
    BY <2>1
  <2>3. onLoop' = [onLoop EXCEPT ![c] = s]
    BY <2>1, <2>2 DEF HoldLoop
  <2>4. ConnectsAreSound'
    <3>1. outbox' = outbox
      BY ONLY <1>4 DEF ReadConnect
    <3>2. \A t \in Sock : pc[t] \in {"fire", "admitted"} => pc'[t] \in {"fire", "admitted"}
      BY <2>1, <2>2 DEF Goto, TypeOK
    <3>3. ConnectsAreSound
      BY DEF HubInv
    <3> QED
      BY ONLY TypeOK, <3>1, <3>2, <3>3, ConnectsKept
  <2>5. (RoutesAreSound /\ SnapshotsAreSound /\ MembersAreSound)'
    <3>1. \A t \in Sock : pc'[t] = IF t = s THEN "middleware" ELSE pc[t]
      BY <2>1, <2>2 DEF Goto, TypeOK
    <3>2. UNCHANGED <<loop, closing, hubSockets, nsSockets>>
      BY <1>4 DEF ReadConnect
    <3>3. \A t \in Sock : Settled(t) => Settled(t)'
      BY <3>1, <2>2 DEF Settled
    <3>4. RoutesAreSound'
      BY <3>2, <3>3 DEF HubInv, TypeOK, RoutesAreSound
    <3>5. SnapshotsAreSound'
      BY <3>2, <3>3 DEF HubInv, TypeOK, SnapshotsAreSound
    <3>6. MembersAreSound'
      BY <3>1, <3>2, <2>2 DEF HubInv, TypeOK, Settled, MembersAreSound
    <3> QED
      BY <3>4, <3>5, <3>6
  <2>6. (CleanupFindsMembers /\ LateSocketsRaced /\ AdmissionsAreSound)'
    BY <1>4, <2>1, <2>2 DEF ReadConnect, LoopFree, Goto, HubInv, TypeOK, Settled,
       InAdmission, Members, CleanupFindsMembers, LateSocketsRaced, AdmissionsAreSound
  <2>7. InlineAdmissionsHoldLoop'
    BY <1>4, <2>1, <2>2, <2>3, ConstantAssumption
       DEF ReadConnect, LoopFree, Goto, HubInv, TypeOK, InAdmission,
           InlineAdmissionsHoldLoop
  <2> QED
    BY <2>4, <2>5, <2>6, <2>7 DEF HubInv
<1>5. ASSUME NEW c \in Conn, NEW n \in Nsp, ReadEvent(c, n) PROVE HubInv'
  <2>1. ReplyFrame("ack", n) \in Frame /\ ReplyFrame("ack", n).type # "connect"
    BY FramesAreTyped DEF ReplyFrame
  <2> QED
    BY <1>5, <2>1, QuietStep DEF ReadEvent
<1>6. ASSUME NEW c \in Conn, NEW n \in Nsp, ReadPing(c, n) PROVE HubInv'
  <2>1. ReplyFrame("pong", n) \in Frame /\ ReplyFrame("pong", n).type # "connect"
    BY FramesAreTyped DEF ReplyFrame
  <2> QED
    BY <1>6, <2>1, QuietStep DEF ReadPing
<1>7. ASSUME NEW c \in Conn, NEW n \in Nsp, NEW r \in Room,
             ReadJoin(c, n, r) \/ ReadLeave(c, n, r)
      PROVE  HubInv'
  BY <1>7, QuietStep DEF ReadJoin, ReadLeave, Join, Leave
<1>8. ASSUME NEW s \in Sock, Pass(s) PROVE HubInv'
  <2>1. ConnectsAreSound'
    BY <1>8, ConnectsKept DEF Pass, Goto, HubInv, TypeOK
  <2>2. (RoutesAreSound /\ SnapshotsAreSound /\ MembersAreSound)'
    BY <1>8 DEF Pass, Goto, HubInv, TypeOK, Settled,
       RoutesAreSound, SnapshotsAreSound, MembersAreSound
  <2>3. (CleanupFindsMembers /\ LateSocketsRaced /\ AdmissionsAreSound)'
    BY <1>8 DEF Pass, Goto, HubInv, TypeOK, Settled, InAdmission, Members,
       CleanupFindsMembers, LateSocketsRaced, AdmissionsAreSound
  <2>4. InlineAdmissionsHoldLoop'
    BY <1>8 DEF Pass, Goto, HubInv, TypeOK, InAdmission, InlineAdmissionsHoldLoop
  <2> QED
    BY <2>1, <2>2, <2>3, <2>4 DEF HubInv
<1>9. ASSUME NEW s \in Sock, Reject(s) PROVE HubInv'
  <2>1. ConnectsAreSound'
    <3>1. ErrorFrame(s.nsp) \in Frame /\ ErrorFrame(s.nsp).type # "connect"
      BY FramesAreTyped DEF ErrorFrame, ReplyFrame
    <3> QED
      BY <1>9, <3>1, ConnectsKept DEF Reject, Goto, HubInv, TypeOK, CloseConn
  <2>2. (RoutesAreSound /\ SnapshotsAreSound /\ MembersAreSound)'
    BY <1>9 DEF Reject, Goto, HubInv, TypeOK, Settled,
       RoutesAreSound, SnapshotsAreSound, MembersAreSound, CloseConn
  <2>3. (CleanupFindsMembers /\ LateSocketsRaced /\ AdmissionsAreSound)'
    BY <1>9 DEF Reject, Goto, HubInv, TypeOK, Settled, InAdmission, Members,
       CleanupFindsMembers, LateSocketsRaced, AdmissionsAreSound, CloseConn
  <2>4. InlineAdmissionsHoldLoop'
    BY <1>9 DEF Reject, Goto, FreeLoop, HubInv, TypeOK, InAdmission, InlineAdmissionsHoldLoop,
       CloseConn
  <2> QED
    BY <2>1, <2>2, <2>3, <2>4 DEF HubInv
<1>10. ASSUME NEW s \in Sock, Defer(s) PROVE HubInv'
  <2>1. ConnectsAreSound'
    BY <1>10, ConnectsKept DEF Defer, HubInv
  <2>2. InlineAdmissionsHoldLoop'
    BY <1>10 DEF Defer, FreeLoop, HubInv, TypeOK, InAdmission, InlineAdmissionsHoldLoop, OffLoop
  <2> QED
    BY <1>10, <2>1, <2>2 DEF Defer, HubInv, RoutesAreSound, SnapshotsAreSound, MembersAreSound,
       CleanupFindsMembers, Members, LateSocketsRaced, AdmissionsAreSound, Settled, InAdmission
<1>11. ASSUME NEW s \in Sock, AddSocket(s) PROVE HubInv'
  <2>1. ConnectsAreSound'
    BY <1>11, ConnectsKept DEF AddSocket, Goto, HubInv, TypeOK, AddMember
  <2>2. (RoutesAreSound /\ SnapshotsAreSound /\ MembersAreSound)'
    BY <1>11 DEF AddSocket, Goto, HubInv, TypeOK, Settled,
       RoutesAreSound, SnapshotsAreSound, MembersAreSound, AddMember
  <2>3. (CleanupFindsMembers /\ LateSocketsRaced /\ AdmissionsAreSound)'
    BY <1>11 DEF AddSocket, Goto, HubInv, TypeOK, Settled, InAdmission, Members,
       CleanupFindsMembers, LateSocketsRaced, AdmissionsAreSound, AddMember
  <2>4. InlineAdmissionsHoldLoop'
    BY <1>11 DEF AddSocket, Goto, HubInv, TypeOK, InAdmission, InlineAdmissionsHoldLoop, AddMember
  <2> QED
    BY <2>1, <2>2, <2>3, <2>4 DEF HubInv
<1>12. ASSUME NEW s \in Sock, Register(s) PROVE HubInv'
  <2>1. ConnectsAreSound'
    BY <1>12, ConnectsKept DEF Register, Goto, HubInv, TypeOK, Route
  <2>2. (RoutesAreSound /\ SnapshotsAreSound /\ MembersAreSound)'
    BY <1>12 DEF Register, Goto, HubInv, TypeOK, Settled,
       RoutesAreSound, SnapshotsAreSound, MembersAreSound, Route
  <2>3. (CleanupFindsMembers /\ LateSocketsRaced /\ AdmissionsAreSound)'
    <3>1. \A t \in Sock : hubSockets'[t.conn][t.nsp] =
             IF t.conn = s.conn /\ t.nsp = s.nsp THEN s ELSE hubSockets[t.conn][t.nsp]
      BY <1>12 DEF Register, TypeOK, Route
    <3>2. \A t \in Sock : hubSockets[t.conn][t.nsp] = t /\ hubSockets'[t.conn][t.nsp] # t
                          => t \in superseded'
      BY <1>12, <3>1, ConstantAssumption DEF Register, Route
    <3>3. CleanupFindsMembers'
      BY <1>12, <3>1, <3>2 DEF Register, Goto, HubInv, TypeOK, Members, CleanupFindsMembers, Route
    <3>4. LateSocketsRaced'
      BY <1>12, <3>1 DEF Register, Goto, HubInv, TypeOK, InAdmission, LateSocketsRaced, Route
    <3>5. AdmissionsAreSound'
      BY <1>12, <3>1, ConstantAssumption
         DEF Register, Goto, HubInv, TypeOK, Settled, AdmissionsAreSound, Route
    <3> QED
      BY ONLY TypeOK, <3>3, <3>4, <3>5 DEF TypeOK, connVars, nspVars, auxVars
  <2>4. InlineAdmissionsHoldLoop'
    BY <1>12 DEF Register, Goto, HubInv, TypeOK, InAdmission, InlineAdmissionsHoldLoop, Route
  <2> QED
    BY <2>1, <2>2, <2>3, <2>4 DEF HubInv
<1>13. ASSUME NEW s \in Sock, Announce(s) PROVE HubInv'
  <2>1. ConnectsAreSound'
    <3>1. ConnectFrame(s) \in Frame /\ ConnectFrame(s).sock = s
      BY FramesAreTyped DEF ConnectFrame
    <3>2. \A t \in Sock : SentBy(t, "connect")' # {} => t = s \/ SentBy(t, "connect") # {}
      <4> SUFFICES ASSUME NEW t \in Sock, SentBy(t, "connect")' # {}
                   PROVE  t = s \/ SentBy(t, "connect") # {}
        OBVIOUS
      <4> DEFINE f == ConnectFrame(s)
      <4>1. f \in Frame /\ f.sock = s /\ Send(s.conn, f) /\ s.conn \in Conn
        BY <1>13, <3>1 DEF Announce
      <4>2. outbox \in [Conn -> Seq(Frame)]
        BY DEF TypeOK
      <4> HIDE DEF f
      <4>3. SentBy(t, "connect") # {} \/ (f.type = "connect" /\ f.sock = t)
        BY <4>1, <4>2, SendAddsOneFrame
      <4> QED
        BY <4>1, <4>3
    <3> QED
      BY <1>13, <3>2 DEF Announce, Goto, ConnectsAreSound, HubInv, TypeOK
  <2>2. (RoutesAreSound /\ SnapshotsAreSound /\ MembersAreSound)'
    BY <1>13 DEF Announce, Goto, HubInv, TypeOK, Settled,
       RoutesAreSound, SnapshotsAreSound, MembersAreSound
  <2>3. (CleanupFindsMembers /\ LateSocketsRaced /\ AdmissionsAreSound)'
    BY <1>13 DEF Announce, Goto, HubInv, TypeOK, Settled, InAdmission, Members,
       CleanupFindsMembers, LateSocketsRaced, AdmissionsAreSound
  <2>4. InlineAdmissionsHoldLoop'
    BY <1>13 DEF Announce, Goto, HubInv, TypeOK, InAdmission, InlineAdmissionsHoldLoop
  <2> QED
    BY <2>1, <2>2, <2>3, <2>4 DEF HubInv
<1>14. ASSUME NEW s \in Sock, Fire(s) PROVE HubInv'
  <2>1. ConnectsAreSound'
    BY <1>14, ConnectsKept DEF Fire, Goto, HubInv, TypeOK
  <2>2. (RoutesAreSound /\ SnapshotsAreSound /\ MembersAreSound)'
    BY <1>14 DEF Fire, Goto, HubInv, TypeOK, Settled,
       RoutesAreSound, SnapshotsAreSound, MembersAreSound
  <2>3. (CleanupFindsMembers /\ LateSocketsRaced /\ AdmissionsAreSound)'
    BY <1>14 DEF Fire, Goto, HubInv, TypeOK, Settled, InAdmission, Members,
       CleanupFindsMembers, LateSocketsRaced, AdmissionsAreSound
  <2>4. InlineAdmissionsHoldLoop'
    BY <1>14 DEF Fire, Goto, FreeLoop, HubInv, TypeOK, InAdmission, InlineAdmissionsHoldLoop
  <2> QED
    BY <2>1, <2>2, <2>3, <2>4 DEF HubInv
<1>15. ASSUME NEW c \in Conn, PeerClose(c) PROVE HubInv'
  <2>1. ConnectsAreSound'
    BY <1>15, ConnectsKept DEF PeerClose, HubInv
  <2> QED
    BY <1>15, <2>1 DEF PeerClose, HubInv, RoutesAreSound, SnapshotsAreSound, MembersAreSound,
       CleanupFindsMembers, Members, LateSocketsRaced, AdmissionsAreSound,
       InlineAdmissionsHoldLoop, Settled, InAdmission
<1>16. ASSUME NEW c \in Conn, HandleClose(c) PROVE HubInv'
  <2>1. ConnectsAreSound'
    BY <1>16, ConnectsKept DEF HandleClose, HubInv, Snapshot
  <2>2. RoutesAreSound' /\ MembersAreSound'
    BY <1>16 DEF HandleClose, HubInv, TypeOK, Settled, RoutesAreSound, MembersAreSound, Snapshot
  <2>3. SnapshotsAreSound'
    BY <1>16, ConstantAssumption
       DEF HandleClose, HubInv, TypeOK, Settled, RoutesAreSound, SnapshotsAreSound, Snapshot
  <2>4. CleanupFindsMembers'
    <3>1. closing[c] = {}
      BY <1>16 DEF HandleClose, LoopFree, HubInv, SnapshotsAreSound, TypeOK, Snapshot
    <3>2. \A t \in Sock : t.conn = c /\ hubSockets[c][t.nsp] = t => t \in closing'[c]
      BY <1>16, ConstantAssumption DEF HandleClose, TypeOK, Snapshot
    <3>3. \A t \in Sock : t.conn # c => /\ closing'[t.conn] = closing[t.conn]
                                        /\ hubSockets'[t.conn] = hubSockets[t.conn]
      BY <1>16 DEF HandleClose, TypeOK, Snapshot
    <3>4. \A t \in Members : t \in Sock
      BY DEF Members, TypeOK
    <3> QED
      BY <1>16, <3>1, <3>2, <3>3, <3>4 DEF HandleClose, HubInv, Members, CleanupFindsMembers,
         Snapshot
  <2>5. LateSocketsRaced' /\ AdmissionsAreSound'
    BY <1>16, ConstantAssumption DEF HandleClose, SocketsOf, HubInv, TypeOK, Settled, InAdmission,
       LateSocketsRaced, AdmissionsAreSound, Snapshot
  <2>6. InlineAdmissionsHoldLoop'
    BY <1>16 DEF HandleClose, HubInv, InAdmission, InlineAdmissionsHoldLoop, Snapshot
  <2> QED
    BY <2>1, <2>2, <2>3, <2>4, <2>5, <2>6 DEF HubInv
<1>17. ASSUME NEW c \in Conn, NEW s \in Sock, RemoveSocket(c, s) PROVE HubInv'
  <2>1. ConnectsAreSound'
    BY <1>17, ConnectsKept DEF RemoveSocket, HubInv, RemoveMember
  <2>2. s.conn = c /\ Settled(s) /\ hubSockets[c][s.nsp] # s
    BY <1>17 DEF RemoveSocket, HubInv, SnapshotsAreSound, RemoveMember
  <2>3. (RoutesAreSound /\ SnapshotsAreSound /\ MembersAreSound)'
    BY <1>17, <2>2 DEF RemoveSocket, HubInv, TypeOK, Settled,
       RoutesAreSound, SnapshotsAreSound, MembersAreSound, RemoveMember
  <2>4. (CleanupFindsMembers /\ LateSocketsRaced /\ AdmissionsAreSound)'
    BY <1>17, <2>2 DEF RemoveSocket, HubInv, TypeOK, Settled, InAdmission, Members,
       CleanupFindsMembers, LateSocketsRaced, AdmissionsAreSound, MembersAreSound, RemoveMember
  <2>5. InlineAdmissionsHoldLoop'
    BY <1>17 DEF RemoveSocket, HubInv, InAdmission, InlineAdmissionsHoldLoop, RemoveMember
  <2> QED
    BY <2>1, <2>3, <2>4, <2>5 DEF HubInv
<1>18. ASSUME NEW s \in Sock, NEW r \in Room, SocketJoin(s, r) \/ SocketLeave(s, r)
       PROVE  HubInv'
  BY <1>18, QuietStep DEF SocketJoin, SocketLeave, Join, Leave
<1>19. ASSUME NEW s \in Sock, SocketEmit(s) PROVE HubInv'
  <2>1. ReplyFrame("event", s.nsp) \in Frame /\ ReplyFrame("event", s.nsp).type # "connect"
    BY FramesAreTyped DEF ReplyFrame
  <2> QED
    BY <1>19, <2>1, QuietStep DEF SocketEmit
<1>20. ASSUME NEW b \in Bcast, NEW n \in Nsp, NEW t \in Targets, NEW x \in Sock \cup {NoSock},
              StartEmit(b, n, t, x)
       PROVE  HubInv'
  BY <1>20, QuietStep DEF StartEmit, Recipients
<1>21. ASSUME NEW b \in Bcast, SendNext(b) PROVE HubInv'
  <2>1. \A s \in Sock : EventFrame(s, b) \in Frame /\ EventFrame(s, b).type # "connect"
    BY FramesAreTyped DEF EventFrame
  <2>2. bcast[b].todo \subseteq Sock
    BY DEF TypeOK, Call
  <2> QED
    BY <1>21, <2>1, <2>2, QuietStep DEF SendNext
<1>22. ASSUME NEW b \in Bcast, FinishEmit(b) PROVE HubInv'
  BY <1>22, QuietStep DEF FinishEmit
<1>23. CASE UNCHANGED vars
  BY <1>23, QuietStep DEF vars
<1> QED
  BY <1>1, <1>2, <1>3, <1>4, <1>5, <1>6, <1>7, <1>8, <1>9, <1>10, <1>11, <1>12, <1>13, <1>14,
     <1>15, <1>16, <1>17, <1>18, <1>19, <1>20, <1>21, <1>22, <1>23
     DEF Next, Read, CleanUp, Admit, Broadcast, SocketsOf

(* The invariant all the safety results below rest on.                     *)
THEOREM HubInvariant == Spec => []HubInv
  BY HubInvInit, HubInvStep, TypeCorrect, PTL DEF Spec
-----------------------------------------------------------------------------
(* Frames are dispatched only to members: RegisteredIsMember, from the     *)
(* soundness of routes.                                                    *)
THEOREM RoutedSocketsAreMembers == Spec => []RegisteredIsMember
<1>1. HubInv => RegisteredIsMember
  BY DEF HubInv, RoutesAreSound, RegisteredIsMember
<1> QED
  BY <1>1, HubInvariant, PTL

(* After a namespace's CONNECT the client's frames for it are dispatched   *)
(* until the cleanup: AnnouncedIsRouted.                                   *)
THEOREM AnnouncedNamespacesAreRouted == Spec => []AnnouncedIsRouted
<1>1. HubInv => AnnouncedIsRouted
  BY DEF HubInv, ConnectsAreSound, AdmissionsAreSound, Settled, AnnouncedIsRouted
<1> QED
  BY <1>1, HubInvariant, PTL

(* A cleanup can find every member of a namespace but raced and superseded *)
(* sockets: CleanupFindsMembers, itself a part of HubInv.                  *)
THEOREM MembersCanBeCleaned == Spec => []CleanupFindsMembers
<1>1. HubInv => CleanupFindsMembers
  BY DEF HubInv
<1> QED
  BY <1>1, HubInvariant, PTL

(* No socket outlives its connection's cleanup in a namespace, except      *)
(* raced and superseded ones: OnlyRacedOrSupersededLeak.                   *)
THEOREM LeaksAreRacedOrSuperseded == Spec => []OnlyRacedOrSupersededLeak
<1>1. TypeOK /\ HubInv => OnlyRacedOrSupersededLeak
  <2> SUFFICES ASSUME TypeOK, HubInv, NEW s \in Members, Finished(s.conn)
               PROVE  s \in raced \cup superseded
    BY DEF OnlyRacedOrSupersededLeak
  <2>1. s \in Sock
    BY DEF Members, TypeOK
  <2>2. \/ hubSockets[s.conn][s.nsp] = s
        \/ pc[s] = "register"
        \/ s \in raced \cup superseded
    BY DEF HubInv, CleanupFindsMembers, Finished
  <2>3. hubSockets[s.conn][s.nsp] = s \/ pc[s] = "register" => s \in raced
    BY <2>1 DEF HubInv, LateSocketsRaced, InAdmission, Finished
  <2> QED
    BY <2>2, <2>3
<1> QED
  BY <1>1, TypeCorrect, HubInvariant, PTL

(* Only a few actions change a map, a broadcast, or the sets of raced and  *)
(* unheard sockets; the theorems below look at those alone.                *)
LEMMA StepsThatMatter ==
    ASSUME [Next]_vars
    PROVE  \/ UNCHANGED <<hubSockets, nsSockets, bcast, raced, unheard>>
           \/ \E c \in Conn, n \in Nsp : ReadEvent(c, n)
           \/ \E s \in Sock : AddSocket(s)
           \/ \E s \in Sock : Register(s)
           \/ \E c \in Conn : HandleClose(c)
           \/ \E c \in Conn, s \in Sock : RemoveSocket(c, s)
           \/ \E b \in Bcast, n \in Nsp, t \in Targets, x \in Sock \cup {NoSock} :
                 StartEmit(b, n, t, x)
           \/ \E b \in Bcast : SendNext(b)
           \/ \E b \in Bcast : FinishEmit(b)
<1> DEFINE Quiet == UNCHANGED <<hubSockets, nsSockets, bcast, raced, unheard>>
<1>1. ASSUME NEW n \in Nsp, Of(n) PROVE Quiet
  BY <1>1 DEF Of
<1>2. ASSUME NEW c \in Conn, Accept(c) PROVE Quiet
  BY <1>2 DEF Accept
<1>3. ASSUME NEW c \in Conn, NEW n \in Nsp, ReadRefusedConnect(c, n) PROVE Quiet
  BY <1>3 DEF ReadRefusedConnect
<1>4. ASSUME NEW c \in Conn, NEW n \in Nsp, ReadConnect(c, n) PROVE Quiet
  BY <1>4 DEF ReadConnect
<1>5. ASSUME NEW c \in Conn, NEW n \in Nsp, ReadPing(c, n) PROVE Quiet
  BY <1>5 DEF ReadPing
<1>6. ASSUME NEW c \in Conn, NEW n \in Nsp, NEW r \in Room, ReadJoin(c, n, r) PROVE Quiet
  BY <1>6 DEF ReadJoin
<1>7. ASSUME NEW c \in Conn, NEW n \in Nsp, NEW r \in Room, ReadLeave(c, n, r) PROVE Quiet
  BY <1>7 DEF ReadLeave
<1>8. ASSUME NEW s \in Sock, Pass(s) PROVE Quiet
  BY <1>8 DEF Pass
<1>9. ASSUME NEW s \in Sock, Reject(s) PROVE Quiet
  BY <1>9 DEF Reject
<1>10. ASSUME NEW s \in Sock, Defer(s) PROVE Quiet
  BY <1>10 DEF Defer
<1>11. ASSUME NEW s \in Sock, Announce(s) PROVE Quiet
  BY <1>11 DEF Announce
<1>12. ASSUME NEW s \in Sock, Fire(s) PROVE Quiet
  BY <1>12 DEF Fire
<1>13. ASSUME NEW c \in Conn, PeerClose(c) PROVE Quiet
  BY <1>13 DEF PeerClose
<1>14. ASSUME NEW s \in Sock, NEW r \in Room, SocketJoin(s, r) PROVE Quiet
  BY <1>14 DEF SocketJoin
<1>15. ASSUME NEW s \in Sock, NEW r \in Room, SocketLeave(s, r) PROVE Quiet
  BY <1>15 DEF SocketLeave
<1>16. ASSUME NEW s \in Sock, SocketEmit(s) PROVE Quiet
  BY <1>16 DEF SocketEmit
<1>17. CASE UNCHANGED vars
  BY <1>17 DEF vars
<1> HIDE DEF Quiet
<1>18. ASSUME NEW c \in Conn, Read(c)
       PROVE  Quiet \/ \E n \in Nsp : ReadEvent(c, n)
  BY <1>18, <1>3, <1>4, <1>5, <1>6, <1>7 DEF Read
<1>19. ASSUME NEW s \in Sock, Admit(s)
       PROVE  Quiet \/ AddSocket(s) \/ Register(s)
  BY <1>19, <1>8, <1>9, <1>10, <1>11, <1>12 DEF Admit
<1>20. ASSUME NEW c \in Conn, CleanUp(c)
       PROVE  HandleClose(c) \/ \E s \in Sock : RemoveSocket(c, s)
  BY <1>20 DEF CleanUp, SocketsOf
<1>21. CASE Next
  <2>1. CASE \E n \in Nsp : Of(n)
    BY <2>1, <1>1 DEF Quiet
  <2>2. CASE \E c \in Conn : Accept(c) \/ Read(c) \/ PeerClose(c) \/ CleanUp(c)
    BY <2>2, <1>2, <1>13, <1>18, <1>20 DEF Quiet
  <2>3. CASE \E s \in Sock : Admit(s) \/ SocketEmit(s)
                             \/ \E r \in Room : SocketJoin(s, r) \/ SocketLeave(s, r)
    BY <2>3, <1>14, <1>15, <1>16, <1>19 DEF Quiet
  <2>4. CASE \E b \in Bcast : Broadcast(b)
    BY <2>4 DEF Broadcast
  <2>5. CASE \E b \in Bcast, n \in Nsp, t \in Targets, x \in Sock \cup {NoSock} :
               StartEmit(b, n, t, x)
    BY <2>5
  <2> QED
    BY <1>21, <2>1, <2>2, <2>3, <2>4, <2>5 DEF Next
<1> QED
  BY <1>17, <1>21 DEF Quiet

(* Only root sockets, and those of namespaces whose middleware answers     *)
(* from a goroutine of its own, can race with their connection's cleanup:  *)
(* InlineNeverRaced. The cleanup needs a free read loop, which any other   *)
(* admission holds.                                                        *)
THEOREM InlineAdmissionsNeverRace == Spec => []InlineNeverRaced
<1>1. Init => InlineNeverRaced
  BY DEF Init, InlineNeverRaced
<1>2. TypeOK /\ HubInv /\ InlineNeverRaced /\ [Next]_vars => InlineNeverRaced'
  <2> SUFFICES ASSUME TypeOK, HubInv, InlineNeverRaced, [Next]_vars PROVE InlineNeverRaced'
    OBVIOUS
  <2>1. CASE raced' = raced
    BY <2>1 DEF InlineNeverRaced
  <2>2. ASSUME NEW c \in Conn, HandleClose(c) PROVE InlineNeverRaced'
    <3>1. \A s \in SocketsOf(c) : InAdmission(s) => s \in OffLoop
      BY <2>2, ConstantAssumption
         DEF HandleClose, LoopFree, SocketsOf, HubInv, InlineAdmissionsHoldLoop, Snapshot
    <3> QED
      BY <2>2, <3>1 DEF HandleClose, SocketsOf, InlineNeverRaced, Snapshot
  <2>3. raced' = raced \/ \E c \in Conn : HandleClose(c)
    <3>1. ASSUME NEW c \in Conn, NEW n \in Nsp, ReadEvent(c, n) PROVE raced' = raced
      BY <3>1 DEF ReadEvent
    <3>2. ASSUME NEW s \in Sock, AddSocket(s) \/ Register(s) PROVE raced' = raced
      BY <3>2 DEF AddSocket, Register
    <3>3. ASSUME NEW c \in Conn, NEW s \in Sock, RemoveSocket(c, s) PROVE raced' = raced
      BY <3>3 DEF RemoveSocket
    <3>4. ASSUME NEW b \in Bcast, SendNext(b) \/ FinishEmit(b) PROVE raced' = raced
      BY <3>4 DEF SendNext, FinishEmit
    <3>5. ASSUME NEW b \in Bcast, NEW n \in Nsp, NEW t \in Targets, NEW x \in Sock \cup {NoSock},
                 StartEmit(b, n, t, x)
          PROVE  raced' = raced
      BY <3>5 DEF StartEmit
    <3> QED
      BY <3>1, <3>2, <3>3, <3>4, <3>5, StepsThatMatter
  <2> QED
    BY <2>1, <2>2, <2>3 DEF InlineNeverRaced
<1> QED
  BY <1>1, <1>2, TypeCorrect, HubInvariant, PTL DEF Spec

(* Only such sockets lose an event sent after their CONNECT:               *)
(* InlineEventsAreHeard. Elsewhere the next frame is read only when the    *)
(* admission, and with it OnConnection, is over.                           *)
THEOREM InlineEventsAreNeverLost == Spec => []InlineEventsAreHeard
<1>1. Init => InlineEventsAreHeard
  BY DEF Init, InlineEventsAreHeard
<1>2. TypeOK /\ HubInv /\ InlineEventsAreHeard /\ [Next]_vars => InlineEventsAreHeard'
  <2> SUFFICES ASSUME TypeOK, HubInv, InlineEventsAreHeard, [Next]_vars
               PROVE  InlineEventsAreHeard'
    OBVIOUS
  <2>1. CASE unheard' = unheard
    BY <2>1 DEF InlineEventsAreHeard
  <2>2. ASSUME NEW c \in Conn, NEW n \in Nsp, ReadEvent(c, n)
        PROVE  InlineEventsAreHeard'
    <3> DEFINE s == hubSockets[c][n]
    <3>1. s \in Sock /\ s.conn = c /\ onLoop[c] = NoSock
      BY <2>2 DEF ReadEvent, LoopFree, TypeOK, HubInv, RoutesAreSound
    <3>2. CASE pc[s] = "fire"
      <4>1. s \in OffLoop
        BY <3>1, <3>2, ConstantAssumption DEF HubInv, InlineAdmissionsHoldLoop
      <4> QED
        BY <2>2, <4>1 DEF ReadEvent, InlineEventsAreHeard
    <3>3. CASE pc[s] # "fire"
      BY <2>2, <3>3 DEF ReadEvent, InlineEventsAreHeard
    <3> QED
      BY <3>2, <3>3
  <2>3. unheard' = unheard \/ \E c \in Conn, n \in Nsp : ReadEvent(c, n)
    <3>1. ASSUME NEW s \in Sock, AddSocket(s) \/ Register(s) PROVE unheard' = unheard
      BY <3>1 DEF AddSocket, Register
    <3>2. ASSUME NEW c \in Conn, HandleClose(c) PROVE unheard' = unheard
      BY <3>2 DEF HandleClose
    <3>3. ASSUME NEW c \in Conn, NEW s \in Sock, RemoveSocket(c, s) PROVE unheard' = unheard
      BY <3>3 DEF RemoveSocket
    <3>4. ASSUME NEW b \in Bcast, SendNext(b) \/ FinishEmit(b) PROVE unheard' = unheard
      BY <3>4 DEF SendNext, FinishEmit
    <3>5. ASSUME NEW b \in Bcast, NEW n \in Nsp, NEW t \in Targets, NEW x \in Sock \cup {NoSock},
                 StartEmit(b, n, t, x)
          PROVE  unheard' = unheard
      BY <3>5 DEF StartEmit
    <3> QED
      BY <3>1, <3>2, <3>3, <3>4, <3>5, StepsThatMatter
  <2> QED
    BY <2>1, <2>2, <2>3 DEF InlineEventsAreHeard
<1> QED
  BY <1>1, <1>2, TypeCorrect, HubInvariant, PTL DEF Spec

(* A rejected socket is in no namespace and on no route, and its           *)
(* connection is closed: RejectedStaysOut.                                 *)
THEOREM RejectionsAreFinal == Spec => []RejectedStaysOut
<1>1. TypeOK /\ HubInv => RejectedStaysOut
  <2> SUFFICES ASSUME TypeOK, HubInv, NEW s \in Sock, pc[s] = "rejected"
               PROVE  /\ s \notin Members
                      /\ s.conn \notin open
                      /\ s \notin {hubSockets[c][n] : c \in Conn, n \in Nsp}
    BY DEF RejectedStaysOut
  <2>1. s \notin Members
    BY DEF HubInv, MembersAreSound, Settled, Members
  <2>2. s.conn \notin open
    BY DEF HubInv, AdmissionsAreSound
  <2>3. \A c \in Conn, n \in Nsp : hubSockets[c][n] # s
    BY ConstantAssumption DEF HubInv, RoutesAreSound, Settled
  <2> QED
    BY <2>1, <2>2, <2>3
<1> QED
  BY <1>1, TypeCorrect, HubInvariant, PTL

(* A running broadcast's audience does not change: AudienceIsStable. Only  *)
(* addSocket and removeSocket change the members, and both need ns.mu.     *)
THEOREM AudiencesAreStable == Spec => []AudienceIsStable
<1>1. Init => AudienceIsStable
  BY DEF Init, Idle, AudienceIsStable
<1>2. TypeOK /\ AudienceIsStable /\ [Next]_vars => AudienceIsStable'
  <2> SUFFICES ASSUME TypeOK, AudienceIsStable, [Next]_vars PROVE AudienceIsStable'
    OBVIOUS
  <2>1. CASE UNCHANGED <<bcast, nsSockets>>
    BY <2>1 DEF AudienceIsStable
  <2>2. ASSUME NEW s \in Sock, AddSocket(s) PROVE AudienceIsStable'
    BY <2>2, SockFields DEF AddSocket, NsFree, AudienceIsStable, TypeOK, Call, AddMember
  <2>3. ASSUME NEW c \in Conn, NEW s \in Sock, RemoveSocket(c, s) PROVE AudienceIsStable'
    BY <2>3, SockFields DEF RemoveSocket, NsFree, AudienceIsStable, TypeOK, Call, RemoveMember
  <2>4. ASSUME NEW b \in Bcast, NEW n \in Nsp, NEW t \in Targets, NEW x \in Sock \cup {NoSock},
               StartEmit(b, n, t, x)
        PROVE  AudienceIsStable'
    BY <2>4 DEF StartEmit, AudienceIsStable, TypeOK, Recipients
  <2>5. ASSUME NEW b \in Bcast, SendNext(b) PROVE AudienceIsStable'
    BY <2>5 DEF SendNext, AudienceIsStable, TypeOK, Call
  <2>6. ASSUME NEW b \in Bcast, FinishEmit(b) PROVE AudienceIsStable'
    BY <2>6 DEF FinishEmit, AudienceIsStable, TypeOK, Call
  <2>7. \/ UNCHANGED <<bcast, nsSockets>>
        \/ \E s \in Sock : AddSocket(s)
        \/ \E c \in Conn, s \in Sock : RemoveSocket(c, s)
        \/ \E b \in Bcast : SendNext(b) \/ FinishEmit(b)
        \/ \E b \in Bcast, n \in Nsp, t \in Targets, x \in Sock \cup {NoSock} :
              StartEmit(b, n, t, x)
    <3>1. ASSUME NEW c \in Conn, NEW n \in Nsp, ReadEvent(c, n)
          PROVE  UNCHANGED <<bcast, nsSockets>>
      BY <3>1 DEF ReadEvent
    <3>2. ASSUME NEW s \in Sock, Register(s) PROVE UNCHANGED <<bcast, nsSockets>>
      BY <3>2 DEF Register
    <3>3. ASSUME NEW c \in Conn, HandleClose(c) PROVE UNCHANGED <<bcast, nsSockets>>
      BY <3>3 DEF HandleClose
    <3> QED
      BY <3>1, <3>2, <3>3, StepsThatMatter
  <2> QED
    BY <2>1, <2>2, <2>3, <2>4, <2>5, <2>6, <2>7
<1> QED
  BY <1>1, <1>2, TypeCorrect, PTL DEF Spec

(* The hub never drops a live connection's route: RoutesAreKept. Only      *)
(* handleClose empties the map; a registration puts a socket there.        *)
THEOREM LiveRoutesAreKept == Spec => RoutesAreKept
<1> DEFINE Kept == \A c \in Conn, n \in Nsp :
                      hubSockets[c][n] # NoSock /\ hubSockets'[c][n] = NoSock => c \notin open
<1>1. TypeOK /\ [Next]_vars => [Kept]_vars
  <2> SUFFICES ASSUME TypeOK, [Next]_vars PROVE Kept
    OBVIOUS
  <2>1. CASE hubSockets' = hubSockets
    BY <2>1
  <2>2. ASSUME NEW s \in Sock, Register(s) PROVE Kept
    BY <2>2, SockFields, ConstantAssumption DEF Register, TypeOK, Route
  <2>3. ASSUME NEW c \in Conn, HandleClose(c) PROVE Kept
    BY <2>3 DEF HandleClose, TypeOK, Snapshot
  <2>4. \/ hubSockets' = hubSockets
        \/ \E s \in Sock : Register(s)
        \/ \E c \in Conn : HandleClose(c)
    <3>1. ASSUME NEW c \in Conn, NEW n \in Nsp, ReadEvent(c, n) PROVE hubSockets' = hubSockets
      BY <3>1 DEF ReadEvent
    <3>2. ASSUME NEW s \in Sock, AddSocket(s) PROVE hubSockets' = hubSockets
      BY <3>2 DEF AddSocket
    <3>3. ASSUME NEW c \in Conn, NEW s \in Sock, RemoveSocket(c, s) PROVE hubSockets' = hubSockets
      BY <3>3 DEF RemoveSocket
    <3>4. ASSUME NEW b \in Bcast, SendNext(b) \/ FinishEmit(b) PROVE hubSockets' = hubSockets
      BY <3>4 DEF SendNext, FinishEmit
    <3>5. ASSUME NEW b \in Bcast, NEW n \in Nsp, NEW t \in Targets, NEW x \in Sock \cup {NoSock},
                 StartEmit(b, n, t, x)
          PROVE  hubSockets' = hubSockets
      BY <3>5 DEF StartEmit
    <3> QED
      BY <3>1, <3>2, <3>3, <3>4, <3>5, StepsThatMatter
  <2> QED
    BY <2>1, <2>2, <2>3, <2>4
<1> QED
  BY <1>1, TypeCorrect, PTL DEF Spec, RoutesAreKept
=============================================================================
