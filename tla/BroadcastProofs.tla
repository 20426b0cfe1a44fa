---------------------------- MODULE BroadcastProofs ----------------------------
(***************************************************************************)
(* What a broadcast delivers, for every set of connections, namespaces,    *)
(* rooms and calls: each socket gets at most one frame of it, nobody       *)
(* outside its audience gets one, and no member is left out whose          *)
(* connection works and who was addressed from the call's start on. And    *)
(* that this is all of it: ServerHub implements BroadcastPromise.          *)
(***************************************************************************)
EXTENDS ServerHubProofs, FiniteSetTheorems

USE DEF connVars, nspVars, auxVars

(* A frame that carries no call, or is not sent at all, is no copy.        *)
LEMMA CopiesStay ==
    ASSUME TypeOK, NEW b \in Bcast, NEW s \in Sock,
           \/ outbox' = outbox
           \/ \E c \in Conn, f \in Frame : f.call = NoCall /\ Send(c, f)
    PROVE  CopiesAt(b, s)' = CopiesAt(b, s)
<1>1. CASE outbox' = outbox
  BY <1>1 DEF CopiesAt, SentBy
<1>2. CASE \E c \in Conn, f \in Frame : f.call = NoCall /\ Send(c, f)
  <2>1. PICK c \in Conn, f \in Frame : f.call = NoCall /\ Send(c, f)
    BY <1>2
  <2>2. CASE outbox' = outbox
    BY <2>2 DEF CopiesAt, SentBy
  <2>3. CASE outbox' = [outbox EXCEPT ![c] = Append(@, f)]
    <3>1. s.conn \in Conn /\ outbox[s.conn] \in Seq(Frame)
      BY SockFields DEF TypeOK
    <3>2. CASE s.conn # c
      <4>1. outbox'[s.conn] = outbox[s.conn]
        BY <2>3, <3>1, <3>2 DEF TypeOK
      <4> QED
        BY <4>1 DEF CopiesAt, SentBy
    <3>3. CASE s.conn = c
      <4>1. outbox'[s.conn] = Append(outbox[s.conn], f)
        BY <2>3, <3>1, <3>3 DEF TypeOK
      <4>2. /\ DOMAIN outbox'[s.conn] = 1 .. Len(outbox[s.conn]) + 1
            /\ DOMAIN outbox[s.conn] = 1 .. Len(outbox[s.conn])
            /\ Len(outbox[s.conn]) \in Nat
            /\ \A i \in 1 .. Len(outbox[s.conn]) : outbox'[s.conn][i] = outbox[s.conn][i]
            /\ outbox'[s.conn][Len(outbox[s.conn]) + 1] = f
        BY <3>1, <4>1
      <4>3. f.call # b
        BY <2>1, ConstantAssumption
      <4> QED
        BY <4>2, <4>3 DEF CopiesAt, SentBy
    <3> QED
      BY <3>2, <3>3
  <2> QED
    BY <2>1, <2>2, <2>3 DEF Send
<1> QED
  BY <1>1, <1>2

(* A frame of a call to a socket is one more copy of that call for that    *)
(* socket, if the connection works, and no copy of any other.              *)
LEMMA CopiesGrow ==
    ASSUME TypeOK, NEW b \in Bcast, NEW s \in Sock, Send(s.conn, EventFrame(s, b))
    PROVE  /\ s.conn \in open =>
                CopiesAt(b, s)' = CopiesAt(b, s) \cup {Len(outbox[s.conn]) + 1}
           /\ s.conn \notin open => CopiesAt(b, s)' = CopiesAt(b, s)
           /\ \A a \in Bcast, t \in Sock :
                 a # b \/ t # s => CopiesAt(a, t)' = CopiesAt(a, t)
<1> DEFINE f == EventFrame(s, b)
<1>1. s.conn \in Conn /\ f.type = "event" /\ f.sock = s /\ f.call = b
  BY SockFields DEF EventFrame
<1>2. CASE s.conn \notin open
  <2>1. outbox' = outbox
    BY <1>2 DEF Send
  <2> QED
    BY <1>2, <2>1 DEF CopiesAt, SentBy
<1>3. CASE s.conn \in open
  <2> HIDE DEF f
  <2>1. outbox' = [outbox EXCEPT ![s.conn] = Append(@, f)]
    BY <1>3 DEF Send, f
  <2>2. outbox[s.conn] \in Seq(Frame) /\ outbox'[s.conn] = Append(outbox[s.conn], f)
    BY <1>1, <2>1 DEF TypeOK
  <2>3. /\ DOMAIN outbox'[s.conn] = 1 .. Len(outbox[s.conn]) + 1
        /\ DOMAIN outbox[s.conn] = 1 .. Len(outbox[s.conn])
        /\ Len(outbox[s.conn]) \in Nat
        /\ \A i \in 1 .. Len(outbox[s.conn]) : outbox'[s.conn][i] = outbox[s.conn][i]
        /\ outbox'[s.conn][Len(outbox[s.conn]) + 1] = f
    BY <2>2
  <2>4. CopiesAt(b, s)' = CopiesAt(b, s) \cup {Len(outbox[s.conn]) + 1}
    <3>1. ASSUME NEW i
          PROVE  i \in CopiesAt(b, s)' <=> i \in CopiesAt(b, s) \/ i = Len(outbox[s.conn]) + 1
      <4>1. CASE i \in 1 .. Len(outbox[s.conn])
        BY <2>3, <4>1 DEF CopiesAt, SentBy
      <4>2. CASE i = Len(outbox[s.conn]) + 1
        BY <1>1, <2>3, <4>2 DEF CopiesAt, SentBy
      <4>3. CASE i \notin 1 .. Len(outbox[s.conn]) + 1
        BY <2>3, <4>3 DEF CopiesAt, SentBy
      <4> QED
        BY <2>3, <4>1, <4>2, <4>3
    <3> QED
      BY <3>1
  <2>5. ASSUME NEW a \in Bcast, NEW t \in Sock, a # b \/ t # s
        PROVE  CopiesAt(a, t)' = CopiesAt(a, t)
    <3>1. CASE t.conn # s.conn
      <4>1. outbox'[t.conn] = outbox[t.conn]
        BY <2>1, <3>1, SockFields DEF TypeOK
      <4> QED
        BY <4>1 DEF CopiesAt, SentBy
    <3>2. CASE t.conn = s.conn
      <4>1. ASSUME NEW i PROVE i \in CopiesAt(a, t)' <=> i \in CopiesAt(a, t)
        <5>1. CASE i \in 1 .. Len(outbox[s.conn])
          BY <2>3, <3>2, <5>1 DEF CopiesAt, SentBy
        <5>2. CASE i = Len(outbox[s.conn]) + 1
          BY <1>1, <2>3, <2>5, <3>2, <5>2 DEF CopiesAt, SentBy
        <5>3. CASE i \notin 1 .. Len(outbox[s.conn]) + 1
          BY <2>3, <3>2, <5>3 DEF CopiesAt, SentBy
        <5> QED
          BY <2>3, <5>1, <5>2, <5>3
      <4> QED
        BY <4>1
    <3> QED
      BY <3>1, <3>2
  <2> QED
    BY <1>3, <2>4, <2>5
<1> QED
  BY <1>2, <1>3

-----------------------------------------------------------------------------
(* What the steps that are not a broadcast's have in common: no call       *)
(* changes, no copy of one is written, no socket is un-created and no lost *)
(* connection comes back; whoever is no longer addressed has not stayed;   *)
(* and rooms change in no step that loses a connection.                    *)
Gone == {s \in Sock : loop[s.conn] # "none" /\ s.conn \notin open}
WritesNoCopy ==
    outbox' = outbox \/ \E c \in Conn, f \in Frame : f.call = NoCall /\ Send(c, f)
KeepsSockets ==
    /\ \A s \in Sock : pc[s] # "unborn" => pc'[s] # "unborn"
    /\ Gone \subseteq Gone'
LeftAlone ==
    /\ UNCHANGED bcast
    /\ WritesNoCopy
    /\ KeepsSockets
    /\ stayed' = [b \in Bcast |-> {s \in stayed[b] : Addressed(b, s)'}]
    /\ UNCHANGED rooms \/ UNCHANGED Gone

(* A step that changes no room.                                            *)
LEMMA RoomsLeftAlone ==
    ASSUME TypeOK, BroadcastInv, UNCHANGED <<bcast, rooms, stayed>>, WritesNoCopy, KeepsSockets
    PROVE  LeftAlone
<1>1. \A b \in Bcast, s \in Sock : Addressed(b, s)' = Addressed(b, s)
  BY DEF Addressed
<1>2. \A b \in Bcast : stayed[b] \subseteq Sock /\ \A s \in stayed[b] : Addressed(b, s)
  BY DEF TypeOK, BroadcastInv
<1>3. \A b \in Bcast : stayed[b] = {s \in stayed[b] : Addressed(b, s)'}
  BY <1>1, <1>2
<1>4. stayed' = [b \in Bcast |-> stayed[b]]
  BY DEF TypeOK
<1> QED
  BY <1>3, <1>4 DEF LeftAlone

(* A step after which one socket is in more rooms than before, or is new.  *)
LEMMA RoomsGrow ==
    ASSUME TypeOK, BroadcastInv, UNCHANGED <<bcast, stayed, outbox>>, KeepsSockets,
           UNCHANGED Gone, NEW s \in Sock, NEW R, rooms' = [rooms EXCEPT ![s] = R],
           pc[s] = "unborn" \/ rooms[s] \subseteq R
    PROVE  LeftAlone
<1>1. ASSUME NEW b \in Bcast, NEW t \in stayed[b] PROVE Addressed(b, t)'
  <2>1. t \in Sock /\ Addressed(b, t) /\ pc[t] # "unborn"
    BY DEF TypeOK, BroadcastInv
  <2>2. rooms[t] \subseteq rooms'[t]
    BY <2>1 DEF TypeOK
  <2> QED
    BY <2>1, <2>2 DEF Addressed
<1>2. \A b \in Bcast : stayed[b] = {t \in stayed[b] : Addressed(b, t)'}
  BY <1>1
<1>3. stayed' = [b \in Bcast |-> stayed[b]]
  BY DEF TypeOK
<1> QED
  BY <1>2, <1>3 DEF LeftAlone, WritesNoCopy

(* A socket leaves a room: of the calls to that room, and of no others, it *)
(* has not stayed addressed.                                               *)
LEMMA RoomsShrink ==
    ASSUME TypeOK, BroadcastInv, NEW s \in Sock, NEW r \in Room, Leave(s, r),
           UNCHANGED <<bcast, outbox, pc, loop, open>>
    PROVE  LeftAlone
<1>1. ASSUME NEW b \in Bcast PROVE stayed'[b] = {t \in stayed[b] : Addressed(b, t)'}
  <2>1. ASSUME NEW t \in stayed[b]
        PROVE  Addressed(b, t)' <=> t # s \/ bcast[b].target # r
    <3>1. t \in Sock /\ Addressed(b, t)
      BY DEF TypeOK, BroadcastInv
    <3>2. rooms'[t] = IF t = s THEN rooms[s] \ {r} ELSE rooms[t]
      BY <3>1 DEF TypeOK, Leave
    <3> QED
      BY <3>1, <3>2, ConstantAssumption DEF Addressed
  <2> QED
    BY <2>1 DEF Leave
<1>2. stayed' = [b \in Bcast |-> stayed'[b]]
  BY DEF Leave
<1>3. stayed' = [b \in Bcast |-> {t \in stayed[b] : Addressed(b, t)'}]
  BY <1>1, <1>2
<1> QED
  BY <1>3 DEF LeftAlone, WritesNoCopy, KeepsSockets, Gone

(* All steps but those of the broadcasts themselves.                       *)
LEMMA StepsOfBroadcasts ==
    ASSUME TypeOK, HubInv, BroadcastInv, [Next]_vars
    PROVE  \/ LeftAlone
           \/ \E b \in Bcast, n \in Nsp, t \in Targets, x \in Sock \cup {NoSock} :
                 StartEmit(b, n, t, x)
           \/ \E b \in Bcast : SendNext(b)
           \/ \E b \in Bcast : FinishEmit(b)
<1>1. ASSUME NEW n \in Nsp, Of(n) PROVE LeftAlone
  BY <1>1, RoomsLeftAlone DEF Of, WritesNoCopy, KeepsSockets, Gone
<1>2. ASSUME NEW c \in Conn, Accept(c) PROVE LeftAlone
  <2>1. RootSock(c) \in Sock /\ pc[RootSock(c)] = "unborn"
    BY <1>2, SockFields DEF Accept, HubInv, AdmissionsAreSound
  <2>2. UNCHANGED Gone
    BY <1>2, SockFields DEF Accept, Gone, TypeOK
  <2>3. KeepsSockets
    BY <1>2, <2>2 DEF Accept, Goto, TypeOK, KeepsSockets
  <2> QED
    BY <1>2, <2>1, <2>2, <2>3, RoomsGrow DEF Accept
<1>3. ASSUME NEW c \in Conn, NEW n \in Nsp, ReadRefusedConnect(c, n) PROVE LeftAlone
  <2>1. ErrorFrame(n) \in Frame /\ ErrorFrame(n).call = NoCall
    BY FramesAreTyped DEF ErrorFrame, ReplyFrame
  <2> QED
    BY <1>3, <2>1, RoomsLeftAlone DEF ReadRefusedConnect, WritesNoCopy, KeepsSockets, Gone
<1>4. ASSUME NEW c \in Conn, NEW n \in Nsp, ReadConnect(c, n) PROVE LeftAlone
  <2>1. PICK s \in Newborn(c, n) : Goto(s, "middleware") /\ rooms' = [rooms EXCEPT ![s] = {s}]
    BY <1>4 DEF ReadConnect
  <2>2. s \in Sock /\ pc[s] = "unborn"
    BY DEF Newborn
  <2>3. UNCHANGED <<loop, open, bcast, stayed, outbox>>
    BY <1>4 DEF ReadConnect
  <2>4. UNCHANGED Gone /\ KeepsSockets
    BY <2>1, <2>2, <2>3 DEF Gone, KeepsSockets, Goto, TypeOK
  <2> QED
    BY <2>1, <2>2, <2>3, <2>4, RoomsGrow
<1>5. ASSUME NEW c \in Conn, NEW n \in Nsp, ReadEvent(c, n) PROVE LeftAlone
  <2>1. ReplyFrame("ack", n) \in Frame /\ ReplyFrame("ack", n).call = NoCall
    BY FramesAreTyped DEF ReplyFrame
  <2> QED
    BY <1>5, <2>1, RoomsLeftAlone DEF ReadEvent, WritesNoCopy, KeepsSockets, Gone
<1>6. ASSUME NEW c \in Conn, NEW n \in Nsp, ReadPing(c, n) PROVE LeftAlone
  <2>1. ReplyFrame("pong", n) \in Frame /\ ReplyFrame("pong", n).call = NoCall
    BY FramesAreTyped DEF ReplyFrame
  <2> QED
    BY <1>6, <2>1, RoomsLeftAlone DEF ReadPing, WritesNoCopy, KeepsSockets, Gone
<1>7. ASSUME NEW c \in Conn, NEW n \in Nsp, NEW r \in Room,
             ReadJoin(c, n, r) \/ ReadLeave(c, n, r)
      PROVE  LeftAlone
  <2>1. PICK s \in Sock : (Join(s, r) /\ UNCHANGED stayed) \/ Leave(s, r)
    BY <1>7 DEF ReadJoin, ReadLeave, TypeOK
  <2>2. UNCHANGED <<bcast, outbox, pc, loop, open>>
    BY <1>7 DEF ReadJoin, ReadLeave
  <2>3. UNCHANGED Gone /\ KeepsSockets
    BY <2>2 DEF Gone, KeepsSockets
  <2> QED
    BY <2>1, <2>2, <2>3, RoomsGrow, RoomsShrink DEF Join
<1>8. ASSUME NEW s \in Sock, Pass(s) \/ Defer(s) \/ AddSocket(s) \/ Register(s) \/ Fire(s)
      PROVE  LeftAlone
  <2>1. UNCHANGED <<open, loop, bcast, rooms, stayed, outbox>>
    BY <1>8 DEF Pass, Defer, AddSocket, Register, Fire
  <2>2. \A t \in Sock : pc[t] # "unborn" => pc'[t] # "unborn"
    BY <1>8 DEF Pass, Defer, AddSocket, Register, Fire, Goto, TypeOK
  <2> QED
    BY <2>1, <2>2, RoomsLeftAlone DEF WritesNoCopy, KeepsSockets, Gone
<1>9. ASSUME NEW s \in Sock, Reject(s) PROVE LeftAlone
  <2>1. ErrorFrame(s.nsp) \in Frame /\ ErrorFrame(s.nsp).call = NoCall /\ s.conn \in Conn
    BY SockFields, FramesAreTyped DEF ErrorFrame, ReplyFrame
  <2>2. \A t \in Sock : pc[t] # "unborn" => pc'[t] # "unborn"
    BY <1>9 DEF Reject, Goto, TypeOK
  <2>3. Gone \subseteq Gone'
    BY <1>9 DEF Reject, CloseConn, Gone
  <2> QED
    BY <1>9, <2>1, <2>2, <2>3, RoomsLeftAlone DEF Reject, WritesNoCopy, KeepsSockets
<1>10. ASSUME NEW s \in Sock, Announce(s) PROVE LeftAlone
  <2>1. ConnectFrame(s) \in Frame /\ ConnectFrame(s).call = NoCall /\ s.conn \in Conn
    BY SockFields, FramesAreTyped DEF ConnectFrame
  <2>2. \A t \in Sock : pc[t] # "unborn" => pc'[t] # "unborn"
    BY <1>10 DEF Announce, Goto, TypeOK
  <2> QED
    BY <1>10, <2>1, <2>2, RoomsLeftAlone DEF Announce, WritesNoCopy, KeepsSockets, Gone
<1>11. ASSUME NEW c \in Conn, PeerClose(c) PROVE LeftAlone
  BY <1>11, RoomsLeftAlone DEF PeerClose, WritesNoCopy, KeepsSockets, Gone
<1>12. ASSUME NEW c \in Conn, HandleClose(c) PROVE LeftAlone
  <2>1. Gone \subseteq Gone'
    BY <1>12, SockFields DEF HandleClose, Gone, TypeOK
  <2> QED
    BY <1>12, <2>1, RoomsLeftAlone DEF HandleClose, WritesNoCopy, KeepsSockets
<1>13. ASSUME NEW c \in Conn, NEW s \in Sock, RemoveSocket(c, s) PROVE LeftAlone
  BY <1>13, RoomsLeftAlone DEF RemoveSocket, WritesNoCopy, KeepsSockets, Gone
<1>14. ASSUME NEW s \in Sock, NEW r \in Room, SocketJoin(s, r) \/ SocketLeave(s, r)
       PROVE  LeftAlone
  <2>1. (Join(s, r) /\ UNCHANGED stayed) \/ Leave(s, r)
    BY <1>14 DEF SocketJoin, SocketLeave
  <2>2. UNCHANGED <<bcast, outbox, pc, loop, open>>
    BY <1>14 DEF SocketJoin, SocketLeave
  <2>3. UNCHANGED Gone /\ KeepsSockets
    BY <2>2 DEF Gone, KeepsSockets
  <2> QED
    BY <2>1, <2>2, <2>3, RoomsGrow, RoomsShrink DEF Join
<1>15. ASSUME NEW s \in Sock, SocketEmit(s) PROVE LeftAlone
  <2>1. /\ ReplyFrame("event", s.nsp) \in Frame /\ s.conn \in Conn
        /\ ReplyFrame("event", s.nsp).call = NoCall
    BY SockFields, FramesAreTyped DEF ReplyFrame
  <2> QED
    BY <1>15, <2>1, RoomsLeftAlone DEF SocketEmit, WritesNoCopy, KeepsSockets, Gone
<1>16. CASE UNCHANGED vars
  BY <1>16, RoomsLeftAlone DEF vars, WritesNoCopy, KeepsSockets, Gone
<1> QED
  BY <1>1, <1>2, <1>3, <1>4, <1>5, <1>6, <1>7, <1>8, <1>9, <1>10, <1>11, <1>12, <1>13,
     <1>14, <1>15, <1>16
     DEF Next, Read, CleanUp, Admit, Broadcast, SocketsOf

-----------------------------------------------------------------------------
(* BroadcastInv is inductive relative to TypeOK and HubInv: first, steps   *)
(* that leave the calls alone.                                             *)
LEMMA OthersKeep ==
    ASSUME TypeOK, HubInv, BroadcastInv, LeftAlone
    PROVE  BroadcastInv'
<1>1. \A b \in Bcast, s \in Sock : CopiesAt(b, s)' = CopiesAt(b, s)
  BY CopiesStay DEF LeftAlone, WritesNoCopy
<1>2. \A b \in Bcast : /\ bcast'[b] = bcast[b] /\ bcast[b].audience \subseteq Sock
                       /\ stayed'[b] = {s \in stayed[b] : Addressed(b, s)'}
  BY DEF LeftAlone, TypeOK, Call
<1>3. \A s \in Sock : pc[s] # "unborn" =>
                        pc'[s] # "unborn" /\ (s.conn \in open' => s.conn \in open)
  BY SockFields DEF LeftAlone, KeepsSockets, Gone, HubInv, AdmissionsAreSound
<1> SUFFICES ASSUME NEW b \in Bcast
             PROVE  /\ bcast[b].state = "idle" => bcast[b].audience = {}
                    /\ bcast[b].state # "sending" => stayed'[b] = {}
                    /\ bcast[b].state = "sending" /\ bcast[b].target = Everyone
                          => stayed'[b] = bcast[b].audience
                    /\ bcast[b].todo \subseteq bcast[b].audience
                    /\ stayed'[b] \subseteq bcast[b].audience
                    /\ \A s \in stayed'[b] : Addressed(b, s)'
                    /\ \A s \in bcast[b].audience : pc'[s] # "unborn"
                    /\ \A s \in Sock :
                        /\ \A i, j \in CopiesAt(b, s) : i = j
                        /\ s \in bcast[b].todo \/ s \notin bcast[b].audience
                              => CopiesAt(b, s) = {}
                        /\ (/\ s \in bcast[b].audience \ bcast[b].todo
                            /\ bcast[b].target = Everyone \/ s \in stayed'[b]
                            /\ s.conn \in open') => CopiesAt(b, s) # {}
  BY <1>1, <1>2 DEF BroadcastInv
<1>4. bcast[b].target = Everyone => stayed'[b] = stayed[b]
  BY <1>2 DEF Addressed
<1>5. stayed'[b] \subseteq stayed[b] /\ \A s \in stayed'[b] : Addressed(b, s)'
  BY <1>2
<1>6. \A s \in bcast[b].audience : pc'[s] # "unborn"
  BY <1>2, <1>3 DEF BroadcastInv
<1>7. ASSUME NEW s \in Sock,
             s \in bcast[b].audience \ bcast[b].todo,
             bcast[b].target = Everyone \/ s \in stayed'[b],
             s.conn \in open'
      PROVE  CopiesAt(b, s) # {}
  <2>1. pc[s] # "unborn" /\ (bcast[b].target = Everyone \/ s \in stayed[b])
    BY <1>5, <1>7 DEF BroadcastInv
  <2>2. s.conn \in open
    BY <1>3, <1>7, <2>1
  <2> QED
    BY <1>7, <2>1, <2>2 DEF BroadcastInv
<1> QED
  BY <1>4, <1>5, <1>6, <1>7 DEF BroadcastInv

(* A call starts with the members of its namespace as both its audience    *)
(* and its work; none of them has a copy, for the call was idle.           *)
LEMMA StartKeeps ==
    ASSUME TypeOK, HubInv, BroadcastInv,
           NEW b \in Bcast, NEW n \in Nsp, NEW t \in Targets, NEW x \in Sock \cup {NoSock},
           StartEmit(b, n, t, x)
    PROVE  BroadcastInv'
<1>1. PICK call : /\ call.state = "sending" /\ call.target = t
                  /\ call.audience = nsSockets[n] \ {x} /\ call.todo = nsSockets[n] \ {x}
                  /\ bcast' = [bcast EXCEPT ![b] = call]
  BY DEF StartEmit, Recipients
<1>2. \A a \in Bcast : bcast'[a] = IF a = b THEN call ELSE bcast[a]
  BY <1>1 DEF TypeOK
<1>3. UNCHANGED <<pc, open, outbox, rooms>>
  BY DEF StartEmit
<1>4. \A a \in Bcast, s \in Sock : CopiesAt(a, s)' = CopiesAt(a, s)
  BY <1>3, CopiesStay
<1>5. \A s \in Sock : CopiesAt(b, s) = {}
  BY DEF StartEmit, BroadcastInv
<1>6. \A s \in nsSockets[n] : s \in Sock /\ pc[s] # "unborn"
  BY DEF TypeOK, HubInv, MembersAreSound, Settled
<1>7. \A a \in Bcast \ {b} : stayed'[a] = stayed[a]
  BY DEF StartEmit, TypeOK
<1>8. stayed'[b] = {s \in nsSockets[n] \ {x} : t = Everyone \/ t \in rooms[s]}
  BY DEF StartEmit, TypeOK
<1>9. ASSUME NEW a \in Bcast, a # b PROVE \A s : Addressed(a, s)' = Addressed(a, s)
  BY <1>2, <1>3, <1>9 DEF Addressed
<1>10. \A s : Addressed(b, s)' <=> t = Everyone \/ t \in rooms[s]
  BY <1>1, <1>2, <1>3 DEF Addressed
<1>11. ASSUME NEW a \in Bcast
       PROVE  LET c == bcast'[a] IN
              /\ c.state = "idle" => c.audience = {}
              /\ c.state # "sending" => stayed'[a] = {}
              /\ c.state = "sending" /\ c.target = Everyone => stayed'[a] = c.audience
              /\ c.todo \subseteq c.audience /\ stayed'[a] \subseteq c.audience
              /\ \A s \in stayed'[a] : Addressed(a, s)'
              /\ \A s \in c.audience : pc[s] # "unborn"
              /\ \A s \in Sock :
                   /\ \A i, j \in CopiesAt(a, s) : i = j
                   /\ s \in c.todo \/ s \notin c.audience => CopiesAt(a, s) = {}
                   /\ (/\ s \in c.audience \ c.todo
                       /\ c.target = Everyone \/ s \in stayed'[a]
                       /\ s.conn \in open) => CopiesAt(a, s) # {}
  <2>1. CASE a = b
    BY <1>1, <1>2, <1>5, <1>6, <1>8, <1>10, <2>1
  <2>2. CASE a # b
    <3>1. bcast'[a] = bcast[a] /\ stayed'[a] = stayed[a]
      BY <1>2, <1>7, <2>2
    <3>2. \A s : Addressed(a, s)' = Addressed(a, s)
      BY <1>9, <2>2
    <3> QED
      BY <3>1, <3>2 DEF BroadcastInv
  <2> QED
    BY <2>1, <2>2
<1> QED
  BY <1>3, <1>4, <1>11 DEF BroadcastInv

(* One member's turn: he has no copy yet, gets one if he is addressed and  *)
(* his connection works, and is taken off the work.                        *)
LEMMA OneTurn ==
    ASSUME TypeOK, BroadcastInv, NEW b \in Bcast, SendNext(b)
    PROVE  \E r \in Sock :
             /\ r \in bcast[b].todo /\ r \in bcast[b].audience
             /\ \A a \in Bcast : /\ bcast'[a].state = bcast[a].state
                                 /\ bcast'[a].target = bcast[a].target
                                 /\ bcast'[a].audience = bcast[a].audience
             /\ \A a \in Bcast \ {b} : bcast'[a].todo = bcast[a].todo
             /\ bcast'[b].todo = bcast[b].todo \ {r}
             /\ \A a \in Bcast, s \in Sock : a # b \/ s # r => CopiesAt(a, s)' = CopiesAt(a, s)
             /\ CopiesAt(b, r) = {}
             /\ \A i, j \in CopiesAt(b, r)' : i = j
             /\ CopiesAt(b, r)' # {} <=> Addressed(b, r) /\ r.conn \in open
<1>1. PICK r \in bcast[b].todo :
         /\ bcast' = [bcast EXCEPT ![b].todo = @ \ {r}]
         /\ IF Addressed(b, r) THEN Send(r.conn, EventFrame(r, b)) ELSE UNCHANGED outbox
  BY DEF SendNext
<1>2. r \in Sock /\ r \in bcast[b].audience /\ CopiesAt(b, r) = {}
  BY DEF TypeOK, Call, BroadcastInv
<1>3. /\ \A a \in Bcast : /\ bcast'[a].state = bcast[a].state
                          /\ bcast'[a].target = bcast[a].target
                          /\ bcast'[a].audience = bcast[a].audience
      /\ \A a \in Bcast \ {b} : bcast'[a].todo = bcast[a].todo
      /\ bcast'[b].todo = bcast[b].todo \ {r}
  BY <1>1 DEF TypeOK, Call
<1>4. \A a \in Bcast, s \in Sock : a # b \/ s # r => CopiesAt(a, s)' = CopiesAt(a, s)
  BY <1>1, <1>2, CopiesStay, CopiesGrow
<1>5. CASE Addressed(b, r) /\ r.conn \in open
  <2>1. CopiesAt(b, r)' = CopiesAt(b, r) \cup {Len(outbox[r.conn]) + 1}
    BY <1>1, <1>2, <1>5, CopiesGrow
  <2>2. (\A i, j \in CopiesAt(b, r)' : i = j) /\ CopiesAt(b, r)' # {}
    BY <1>2, <2>1
  <2> QED
    BY <1>2, <1>3, <1>4, <1>5, <2>2
<1>6. CASE ~(Addressed(b, r) /\ r.conn \in open)
  <2>1. CopiesAt(b, r)' = CopiesAt(b, r)
    BY <1>1, <1>2, <1>6, CopiesStay, CopiesGrow
  <2> QED
    BY <1>2, <1>3, <1>4, <1>6, <2>1
<1> QED
  BY <1>5, <1>6

LEMMA SendKeeps ==
    ASSUME TypeOK, BroadcastInv, NEW b \in Bcast, SendNext(b)
    PROVE  BroadcastInv'
<1>1. PICK r \in Sock :
         /\ r \in bcast[b].todo /\ r \in bcast[b].audience
         /\ \A a \in Bcast : /\ bcast'[a].state = bcast[a].state
                             /\ bcast'[a].target = bcast[a].target
                             /\ bcast'[a].audience = bcast[a].audience
         /\ \A a \in Bcast \ {b} : bcast'[a].todo = bcast[a].todo
         /\ bcast'[b].todo = bcast[b].todo \ {r}
         /\ \A a \in Bcast, s \in Sock : a # b \/ s # r => CopiesAt(a, s)' = CopiesAt(a, s)
         /\ CopiesAt(b, r) = {}
         /\ \A i, j \in CopiesAt(b, r)' : i = j
         /\ CopiesAt(b, r)' # {} <=> Addressed(b, r) /\ r.conn \in open
  BY OneTurn
<1>2. UNCHANGED <<pc, open, rooms, stayed>>
  BY DEF SendNext
<1>3. \A a \in Bcast, s \in Sock : Addressed(a, s)' = Addressed(a, s)
  BY <1>1, <1>2 DEF Addressed
<1>4. bcast[b].target = Everyone \/ r \in stayed[b] => Addressed(b, r)
  BY DEF BroadcastInv, Addressed
<1>5. \A a \in Bcast : bcast[a].audience \subseteq Sock
  BY DEF TypeOK, Call
<1> SUFFICES ASSUME NEW a \in Bcast
             PROVE  /\ bcast[a].state = "idle" => bcast[a].audience = {}
                    /\ bcast[a].state # "sending" => stayed[a] = {}
                    /\ bcast[a].state = "sending" /\ bcast[a].target = Everyone
                          => stayed[a] = bcast[a].audience
                    /\ bcast'[a].todo \subseteq bcast[a].audience
                    /\ stayed[a] \subseteq bcast[a].audience
                    /\ \A s \in stayed[a] : Addressed(a, s)
                    /\ \A s \in bcast[a].audience : pc[s] # "unborn"
                    /\ \A s \in Sock :
                        /\ \A i, j \in CopiesAt(a, s)' : i = j
                        /\ s \in bcast'[a].todo \/ s \notin bcast[a].audience
                              => CopiesAt(a, s)' = {}
                        /\ (/\ s \in bcast[a].audience \ bcast'[a].todo
                            /\ bcast[a].target = Everyone \/ s \in stayed[a]
                            /\ s.conn \in open) => CopiesAt(a, s)' # {}
  BY <1>1, <1>2, <1>3, <1>5 DEF BroadcastInv
<1>6. CASE a # b
  BY <1>1, <1>6 DEF BroadcastInv
<1>7. CASE a = b
  BY <1>1, <1>4, <1>7 DEF BroadcastInv
<1> QED
  BY <1>6, <1>7

(* The end of the loop changes nothing but the state.                      *)
LEMMA FinishKeeps ==
    ASSUME TypeOK, BroadcastInv, NEW b \in Bcast, FinishEmit(b)
    PROVE  BroadcastInv'
<1>1. UNCHANGED <<pc, open, outbox, rooms>> /\ bcast' = [bcast EXCEPT ![b].state = "done"]
  BY DEF FinishEmit
<1>2. \A a \in Bcast : /\ bcast'[a].state = IF a = b THEN "done" ELSE bcast[a].state
                       /\ bcast'[a].target = bcast[a].target
                       /\ bcast'[a].audience = bcast[a].audience
                       /\ bcast'[a].todo = bcast[a].todo
                       /\ stayed'[a] = IF a = b THEN {} ELSE stayed[a]
  BY <1>1 DEF TypeOK, Call, FinishEmit
<1>3. \A a \in Bcast, s \in Sock : CopiesAt(a, s)' = CopiesAt(a, s)
  BY <1>1, CopiesStay
<1>4. \A a \in Bcast, s \in Sock : Addressed(a, s)' = Addressed(a, s)
  BY <1>1, <1>2 DEF Addressed
<1>5. \A a \in Bcast : stayed[a] \subseteq Sock
  BY DEF TypeOK
<1> QED
  BY <1>1, <1>2, <1>3, <1>4, <1>5 DEF BroadcastInv

LEMMA BroadcastInvInit == Init => BroadcastInv
  BY SockFields DEF Init, Idle, BroadcastInv, CopiesAt, SentBy

(* The invariant of broadcasts holds in every reachable state.             *)
THEOREM BroadcastInvariant == Spec => []BroadcastInv
<1>1. TypeOK /\ HubInv /\ BroadcastInv /\ [Next]_vars => BroadcastInv'
  BY StepsOfBroadcasts, OthersKeep, StartKeeps, SendKeeps, FinishKeeps
<1> QED
  BY <1>1, BroadcastInvInit, TypeCorrect, HubInvariant, PTL DEF Spec

(* A broadcast reaches each socket at most once, never one outside its     *)
(* audience, and each whose turn has come, whose connection works and whom *)
(* it addressed from its start on: BroadcastReachesAudience. The copies    *)
(* are counted: none, or the one BroadcastInv leaves room for.             *)
THEOREM BroadcastsReachTheirAudience == Spec => []BroadcastReachesAudience
<1>1. BroadcastInv => BroadcastReachesAudience
  <2> SUFFICES ASSUME BroadcastInv, NEW b \in Bcast, NEW s \in Sock
               PROVE  /\ Copies(b, s) <= 1
                      /\ s \notin bcast[b].audience => Copies(b, s) = 0
                      /\ (/\ s \in bcast[b].audience \ bcast[b].todo
                          /\ bcast[b].target = Everyone \/ s \in stayed[b]
                          /\ s.conn \in open) => Copies(b, s) = 1
    BY DEF BroadcastReachesAudience
  <2>1. CASE CopiesAt(b, s) = {}
    <3>1. Copies(b, s) = 0
      BY <2>1, FS_EmptySet DEF Copies
    <3> QED
      BY <2>1, <3>1 DEF BroadcastInv
  <2>2. CASE CopiesAt(b, s) # {}
    <3>1. PICK i \in CopiesAt(b, s) : CopiesAt(b, s) = {i}
      BY <2>2 DEF BroadcastInv
    <3>2. Copies(b, s) = 1
      BY <3>1, FS_Singleton DEF Copies
    <3>3. s \in bcast[b].audience
      BY <2>2 DEF BroadcastInv
    <3> QED
      BY <3>2, <3>3
  <2> QED
    BY <2>1, <2>2
<1> QED
  BY <1>1, BroadcastInvariant, PTL
-----------------------------------------------------------------------------
(* ServerHub implements BroadcastPromise: the initial states, and every    *)
(* kind of step, seen through the promise's variables.                     *)
LEMMA PromiseBegins == Init => B!PromiseInit
<1> SUFFICES ASSUME Init PROVE B!PromiseInit
  OBVIOUS
<1>1. \A b \in Bcast : bcast[b].state = "idle" /\ bcast[b].audience = {}
  BY DEF Init, Idle
<1>2. \A b \in Bcast, s \in Sock : CopiesAt(b, s) = {}
  BY SockFields DEF Init, CopiesAt, SentBy
<1>3. {s \in Sock : loop[s.conn] # "none" /\ s.conn \notin open} = {}
  BY SockFields DEF Init
<1> QED
  BY <1>1, <1>2, <1>3 DEF Init, B!PromiseInit

(* Every other step loses connections or moves sockets between rooms; it   *)
(* stutters when it does neither.                                          *)
LEMMA PromiseLosesOrMoves ==
    ASSUME TypeOK, LeftAlone, BroadcastInv
    PROVE  B!Lose \/ B!Move
<1>1. \A b \in Bcast, s \in Sock : CopiesAt(b, s)' = CopiesAt(b, s)
  BY CopiesStay DEF LeftAlone, WritesNoCopy
<1>2. /\ [b \in Bcast |-> bcast'[b].state] = [b \in Bcast |-> bcast[b].state]
      /\ [b \in Bcast |-> bcast'[b].audience] = [b \in Bcast |-> bcast[b].audience]
      /\ [b \in Bcast |-> {s \in Sock : CopiesAt(b, s)' # {}}]
            = [b \in Bcast |-> {s \in Sock : CopiesAt(b, s) # {}}]
  BY <1>1 DEF LeftAlone
<1>3. CASE UNCHANGED rooms
  <2>1. \A b \in Bcast, s \in Sock : Addressed(b, s)' = Addressed(b, s)
    BY <1>3 DEF Addressed, LeftAlone
  <2>2. [b \in Bcast |-> {s \in Sock : Addressed(b, s)'}]
           = [b \in Bcast |-> {s \in Sock : Addressed(b, s)}]
    BY <2>1
  <2>3. stayed' = stayed
    <3>1. \A b \in Bcast : stayed[b] \subseteq Sock /\ \A s \in stayed[b] : Addressed(b, s)
      BY DEF TypeOK, BroadcastInv
    <3>2. \A b \in Bcast : {s \in stayed[b] : Addressed(b, s)'} = stayed[b]
      BY <2>1, <3>1
    <3>3. stayed = [b \in Bcast |-> stayed[b]]
      BY DEF TypeOK
    <3> QED
      BY <3>2, <3>3 DEF LeftAlone
  <2>4. \E S \in SUBSET Sock : Gone' = Gone \cup S
    <3>1. Gone' \in SUBSET Sock /\ Gone' = Gone \cup Gone'
      BY DEF Gone, LeftAlone, KeepsSockets
    <3> QED
      BY <3>1
  <2> QED
    BY <1>2, <2>2, <2>3, <2>4 DEF B!Lose, Gone
<1>4. CASE UNCHANGED Gone
  <2>1. [b \in Bcast |-> {s \in Sock : Addressed(b, s)'}] \in [Bcast -> SUBSET Sock]
    OBVIOUS
  <2>2. \A b \in Bcast : {s \in stayed[b] : Addressed(b, s)'}
                            = stayed[b] \cap {s \in Sock : Addressed(b, s)'}
    BY DEF TypeOK
  <2>3. stayed' = [b \in Bcast |->
                     stayed[b] \cap [a \in Bcast |-> {s \in Sock : Addressed(a, s)'}][b]]
    BY <2>2 DEF LeftAlone
  <2> QED
    BY <1>2, <1>4, <2>1, <2>3 DEF B!Move, Gone
<1> QED
  BY <1>3, <1>4 DEF LeftAlone

(* A call starts.                                                          *)
LEMMA PromiseStarts ==
    ASSUME TypeOK, NEW b \in Bcast, NEW n \in Nsp, NEW t \in Targets, NEW x \in Sock \cup {NoSock},
           StartEmit(b, n, t, x)
    PROVE  B!Start(b)
<1>1. PICK call : /\ call.state = "sending" /\ call.target = t
                  /\ call.audience = nsSockets[n] \ {x}
                  /\ bcast' = [bcast EXCEPT ![b] = call]
  BY DEF StartEmit
<1>2. \A a \in Bcast : bcast'[a] = IF a = b THEN call ELSE bcast[a]
  BY <1>1 DEF TypeOK
<1>3. UNCHANGED <<open, loop, outbox, rooms>> /\ bcast[b].state = "idle"
  BY DEF StartEmit
<1>4. \A a \in Bcast, s \in Sock : CopiesAt(a, s)' = CopiesAt(a, s)
  BY <1>3, CopiesStay
<1>5. PICK A \in SUBSET Sock, D \in SUBSET Sock :
         A = nsSockets[n] \ {x} /\ D = {s \in Sock : t = Everyone \/ t \in rooms[s]}
  BY DEF TypeOK
<1>6. \A a \in Bcast : {s \in Sock : Addressed(a, s)'}
                          = IF a = b THEN D ELSE {s \in Sock : Addressed(a, s)}
  BY <1>1, <1>2, <1>3, <1>5 DEF Addressed
<1>7. stayed' = [stayed EXCEPT ![b] = A \cap D]
  <2>1. {s \in nsSockets[n] \ {x} : t = Everyone \/ t \in rooms[s]} = A \cap D
    BY <1>5
  <2> QED
    BY <2>1 DEF StartEmit
<1>8. \A a \in Bcast : /\ bcast'[a].state = IF a = b THEN "sending" ELSE bcast[a].state
                       /\ bcast'[a].audience = IF a = b THEN A ELSE bcast[a].audience
  <2>1. bcast'[b] = call
    BY <1>2
  <2>2. \A a \in Bcast \ {b} : bcast'[a] = bcast[a]
    BY <1>2
  <2>3. call.state = "sending" /\ call.audience = A
    BY <1>1, <1>5
  <2> QED
    BY <2>1, <2>2, <2>3
<1>9. /\ [a \in Bcast |-> bcast'[a].state]
            = [[a \in Bcast |-> bcast[a].state] EXCEPT ![b] = "sending"]
      /\ [a \in Bcast |-> bcast'[a].audience]
            = [[a \in Bcast |-> bcast[a].audience] EXCEPT ![b] = A]
  BY <1>8
<1>10. [a \in Bcast |-> {s \in Sock : Addressed(a, s)'}]
          = [[a \in Bcast |-> {s \in Sock : Addressed(a, s)}] EXCEPT ![b] = D]
  BY <1>6
<1>11. UNCHANGED [a \in Bcast |-> {s \in Sock : CopiesAt(a, s) # {}}]
  BY <1>4
<1> QED
  BY <1>3, <1>7, <1>9, <1>10, <1>11 DEF B!Start

(* A turn reaches the member, or is invisible: he is not addressed, or his *)
(* connection is lost.                                                     *)
LEMMA PromiseReaches ==
    ASSUME TypeOK, BroadcastInv, NEW b \in Bcast, SendNext(b)
    PROVE  UNCHANGED B!promiseVars \/ \E r \in Sock : B!Reach(b, r)
<1>1. PICK r \in Sock :
         /\ r \in bcast[b].todo /\ r \in bcast[b].audience
         /\ \A a \in Bcast : /\ bcast'[a].state = bcast[a].state
                             /\ bcast'[a].target = bcast[a].target
                             /\ bcast'[a].audience = bcast[a].audience
         /\ \A a \in Bcast, s \in Sock : a # b \/ s # r => CopiesAt(a, s)' = CopiesAt(a, s)
         /\ CopiesAt(b, r) = {}
         /\ CopiesAt(b, r)' # {} <=> Addressed(b, r) /\ r.conn \in open
  BY OneTurn
<1>2. UNCHANGED <<open, loop, rooms, stayed>> /\ bcast[b].state = "sending"
  BY DEF SendNext
<1>3. \A a \in Bcast, s \in Sock : Addressed(a, s)' = Addressed(a, s)
  BY <1>1, <1>2 DEF Addressed
<1>4. /\ UNCHANGED [a \in Bcast |-> bcast[a].state]
      /\ UNCHANGED [a \in Bcast |-> bcast[a].audience]
      /\ UNCHANGED [a \in Bcast |-> {s \in Sock : Addressed(a, s)}]
      /\ UNCHANGED {s \in Sock : loop[s.conn] # "none" /\ s.conn \notin open}
  BY <1>1, <1>2, <1>3
<1>5. CASE CopiesAt(b, r)' = {}
  <2>1. UNCHANGED [a \in Bcast |-> {s \in Sock : CopiesAt(a, s) # {}}]
    BY <1>1, <1>5
  <2> QED
    BY <1>2, <1>4, <2>1 DEF B!promiseVars
<1>6. CASE CopiesAt(b, r)' # {}
  <2>1. \A a \in Bcast : {s \in Sock : CopiesAt(a, s)' # {}}
           = IF a = b THEN {s \in Sock : CopiesAt(b, s) # {}} \cup {r}
                      ELSE {s \in Sock : CopiesAt(a, s) # {}}
    BY <1>1, <1>6
  <2>2. [a \in Bcast |-> {s \in Sock : CopiesAt(a, s)' # {}}]
           = [[a \in Bcast |-> {s \in Sock : CopiesAt(a, s) # {}}] EXCEPT ![b] = @ \cup {r}]
    BY <2>1
  <2>3. B!Reach(b, r)
    BY <1>1, <1>2, <1>4, <1>6, <2>2 DEF B!Reach
  <2> QED
    BY <2>3
<1> QED
  BY <1>5, <1>6

(* A call returns: its work is done, so it has reached every member who    *)
(* stayed and whose connection is not lost.                                *)
LEMMA PromiseReturns ==
    ASSUME TypeOK, HubInv, BroadcastInv, NEW b \in Bcast, FinishEmit(b)
    PROVE  B!Return(b)
<1>1. /\ UNCHANGED <<open, loop, outbox, rooms>>
      /\ bcast[b].state = "sending" /\ bcast[b].todo = {}
      /\ bcast' = [bcast EXCEPT ![b].state = "done"]
      /\ stayed' = [stayed EXCEPT ![b] = {}]
  BY DEF FinishEmit
<1>2. \A a \in Bcast : /\ bcast'[a].state = IF a = b THEN "done" ELSE bcast[a].state
                       /\ bcast'[a].target = bcast[a].target
                       /\ bcast'[a].audience = bcast[a].audience
  BY <1>1 DEF TypeOK, Call
<1>3. \A a \in Bcast, s \in Sock : Addressed(a, s)' = Addressed(a, s)
  BY <1>1, <1>2 DEF Addressed
<1>4. \A a \in Bcast, s \in Sock : CopiesAt(a, s)' = CopiesAt(a, s)
  BY <1>1, CopiesStay
<1>5. /\ UNCHANGED [a \in Bcast |-> bcast[a].audience]
      /\ UNCHANGED [a \in Bcast |-> {s \in Sock : Addressed(a, s)}]
      /\ UNCHANGED [a \in Bcast |-> {s \in Sock : CopiesAt(a, s) # {}}]
      /\ UNCHANGED {s \in Sock : loop[s.conn] # "none" /\ s.conn \notin open}
  BY <1>1, <1>2, <1>3, <1>4
<1>6. [a \in Bcast |-> bcast'[a].state] = [[a \in Bcast |-> bcast[a].state] EXCEPT ![b] = "done"]
  BY <1>2
<1>7. ASSUME NEW s \in stayed[b],
             s \notin {r \in Sock : loop[r.conn] # "none" /\ r.conn \notin open}
      PROVE  s \in Sock /\ CopiesAt(b, s) # {}
  <2>1. s \in Sock /\ s \in bcast[b].audience
    BY DEF TypeOK, BroadcastInv
  <2>2. s.conn \in open
    BY <1>7, <2>1 DEF BroadcastInv, HubInv, AdmissionsAreSound
  <2> QED
    BY <1>1, <2>1, <2>2 DEF BroadcastInv
<1> QED
  BY <1>1, <1>5, <1>6, <1>7 DEF B!Return

(* Emit and To keep their promise: BroadcastPromiseIsKept.                 *)
THEOREM BroadcastsImplementPromise == Spec => BroadcastPromiseIsKept
<1>1. TypeOK /\ HubInv /\ BroadcastInv /\ [Next]_vars => [B!PromiseNext]_(B!promiseVars)
  BY StepsOfBroadcasts, PromiseLosesOrMoves, PromiseStarts, PromiseReaches, PromiseReturns
     DEF B!PromiseNext
<1> QED
  BY <1>1, PromiseBegins, TypeCorrect, HubInvariant, BroadcastInvariant, PTL
     DEF Spec, BroadcastPromiseIsKept, B!Promise
===============================================================================
