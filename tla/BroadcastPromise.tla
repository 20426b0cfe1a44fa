--------------------------- MODULE BroadcastPromise ---------------------------
(***************************************************************************)
(* What Emit and To promise an application, with neither frames nor locks  *)
(* (server/namespace.go:114-164): between its start and its return a call  *)
(* reaches members of its audience, each at most once and only while it    *)
(* addresses him; and when it returns, every member it addressed all the   *)
(* time has been reached, unless his connection is lost.                   *)
(***************************************************************************)
CONSTANTS
    Bcast,      \* calls, each made at most once
    Sock        \* whom a call can reach

VARIABLES
    phase,      \* each call's state: "idle", "sending" or "done"
    audience,   \* whom the call may reach
    addressed,  \* whom it addresses now: sockets enter and leave its room
    stayed,     \* the part of its audience a running call has addressed since its start
    got,        \* whom it has reached
    gone        \* sockets whose connection is lost

promiseVars == <<phase, audience, addressed, stayed, got, gone>>

PromiseInit ==
    /\ phase = [b \in Bcast |-> "idle"]
    /\ audience = [b \in Bcast |-> {}]
    /\ addressed \in [Bcast -> SUBSET Sock]
    /\ stayed = [b \in Bcast |-> {}]
    /\ got = [b \in Bcast |-> {}]
    /\ gone = {}

(* A call is made, to some audience, part of which it addresses.           *)
Start(b) ==
    /\ phase[b] = "idle"
    /\ phase' = [phase EXCEPT ![b] = "sending"]
    /\ \E A, D \in SUBSET Sock :
         /\ audience' = [audience EXCEPT ![b] = A]
         /\ addressed' = [addressed EXCEPT ![b] = D]
         /\ stayed' = [stayed EXCEPT ![b] = A \cap D]
    /\ UNCHANGED <<got, gone>>

(* The call reaches one more member.                                       *)
Reach(b, s) ==
    /\ phase[b] = "sending"
    /\ s \in (audience[b] \cap addressed[b]) \ (got[b] \cup gone)
    /\ got' = [got EXCEPT ![b] = @ \cup {s}]
    /\ UNCHANGED <<phase, audience, addressed, stayed, gone>>

(* The call returns.                                                       *)
Return(b) ==
    /\ phase[b] = "sending"
    /\ stayed[b] \ gone \subseteq got[b]
    /\ phase' = [phase EXCEPT ![b] = "done"]
    /\ stayed' = [stayed EXCEPT ![b] = {}]
    /\ UNCHANGED <<audience, addressed, got, gone>>

(* Sockets enter and leave rooms; who leaves was not addressed throughout. *)
Move ==
    /\ UNCHANGED <<phase, audience, got, gone>>
    /\ addressed' \in [Bcast -> SUBSET Sock]
    /\ stayed' = [b \in Bcast |-> stayed[b] \cap addressed'[b]]

(* Connections are lost.                                                   *)
Lose ==
    /\ UNCHANGED <<phase, audience, addressed, stayed, got>>
    /\ \E S \in SUBSET Sock : gone' = gone \cup S

PromiseNext ==
    \/ \E b \in Bcast : \/ Start(b) \/ Return(b)
                        \/ \E s \in Sock : Reach(b, s)
    \/ Move
    \/ Lose

Promise == PromiseInit /\ [][PromiseNext]_promiseVars
=============================================================================
