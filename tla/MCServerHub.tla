---------------------------- MODULE MCServerHub ----------------------------
(* Values of the constants of ServerHub for TLC.                           *)
EXTENDS ServerHub

CONSTANTS c1, c2, chat

(* Whom the broadcast calls of the small instances address: a namespace,   *)
(* or also a room.                                                         *)
MCEveryone == {Everyone}
MCAllTargets == {Everyone} \cup Room

(* A client asks for the namespace "chat" twice, for any other once.       *)
MCMaxJoins == [n \in Nsp |-> IF n = chat THEN 2 ELSE 1]
=============================================================================
