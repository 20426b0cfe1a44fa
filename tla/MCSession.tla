------------------------------ MODULE MCSession ------------------------------
(* Values of the constants of Session for TLC.                             *)
EXTENDS Session

CONSTANTS root, chat, move

MCRootPair == {<<root, move>>}
MCChatPair == {<<chat, move>>}
=============================================================================
