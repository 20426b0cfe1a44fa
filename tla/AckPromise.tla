------------------------------ MODULE AckPromise ------------------------------
(***************************************************************************)
(* What EmitAck promises an application, with neither connection nor       *)
(* frames (client/client.go:344-358, 551-562; server/socket.go:256-287):   *)
(* a callback is called at most once, and only with an answer the server   *)
(* gave to its own call -- as long as the calls' numbers, which are only   *)
(* so wide, differ. A call whose number is given to a later one is         *)
(* forsaken, and an answer that comes after that goes to the later call.   *)
(***************************************************************************)
EXTENDS Naturals

CONSTANTS
    Call,       \* the calls of EmitAck, each made at most once
    Number,     \* acknowledgement numbers
    NoNumber,   \* the number of a call that was not made yet
    NoCall      \* stands in for the call of an answer that answers none

VARIABLES
    number,     \* each call's number
    waiting,    \* calls whose callback can still be called
    answered,   \* calls the server has answered, once or more
    ran         \* <<k, j>>: the callback of k was called with an answer to j

promiseVars == <<number, waiting, answered, ran>>

PromiseInit ==
    /\ number = [k \in Call |-> NoNumber]
    /\ waiting = {}
    /\ answered = {}
    /\ ran = {}

(* A call is made; one that waits under the same number is forsaken.       *)
Ask(k, i) ==
    /\ number[k] = NoNumber
    /\ number' = [number EXCEPT ![k] = i]
    /\ waiting' = {j \in waiting : number[j] # i} \cup {k}
    /\ UNCHANGED <<answered, ran>>

(* The server's answer to a call, whoever still waits for it.              *)
Answer(k) ==
    /\ number[k] \in Number \ {0}
    /\ answered' = answered \cup {k}
    /\ UNCHANGED <<number, waiting, ran>>

(* A callback is called and waits no more: with an answer to a call of its *)
(* number, or, under the number 0, with an error the server sends of its   *)
(* own accord.                                                             *)
Keep(k, j) ==
    /\ k \in waiting
    /\ IF j = NoCall THEN number[k] = 0 ELSE j \in answered /\ number[j] = number[k]
    /\ waiting' = waiting \ {k}
    /\ ran' = ran \cup {<<k, j>>}
    /\ UNCHANGED <<number, answered>>

PromiseNext ==
    \/ \E k \in Call, i \in Number : Ask(k, i)
    \/ \E k \in Call : Answer(k)
    \/ \E k \in Call, j \in Call \cup {NoCall} : Keep(k, j)

Promise == PromiseInit /\ [][PromiseNext]_promiseVars
=============================================================================
