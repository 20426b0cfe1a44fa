------------------------------ MODULE LinkPromise ------------------------------
(***************************************************************************)
(* What a client promises an application about its connection, with        *)
(* neither goroutines nor timers (client/client.go: New, the reconnection  *)
(* in handleClose, setupHeartbeat and Close): there is one connection at a *)
(* time, and never one again after a Close that found one; the next comes  *)
(* only when nothing beats for the last one any more; the client tries so  *)
(* many times in a row, never of its own accord after a Close, and gives   *)
(* up for no other reason.                                                 *)
(***************************************************************************)
EXTENDS Naturals

CONSTANTS
    Hb,             \* heartbeats
    AutoReconnect,  \* Options.AutoReconnect
    MaxAttempts     \* Options.MaxAttempts

VARIABLES
    serving,    \* the connection there is, or 0
    made,       \* how many there were, the last one being this number
    tries,      \* attempts to reconnect since the last one came
    beats,      \* heartbeats in charge: going on and not told to stop
    dismissed,  \* Close was called
    final,      \* ... and has closed a connection
    ended       \* the client has given up

linkVars == <<serving, made, tries, beats, dismissed, final, ended>>

LinkInit ==
    /\ serving = 0 /\ made = 0 /\ tries = 0 /\ beats = {}
    /\ dismissed = FALSE /\ final = FALSE /\ ended = FALSE

Quiet == serving = 0 /\ beats = {} /\ ~ended

Open ==
    /\ Quiet /\ ~final
    /\ made' = made + 1 /\ serving' = made' /\ tries' = 0
    /\ UNCHANGED <<beats, dismissed, final, ended>>

(* A heartbeat starts, and the one before it is in charge no more.         *)
Beat(h) ==
    /\ serving # 0
    /\ beats' = {h}
    /\ UNCHANGED <<serving, made, tries, dismissed, final, ended>>

Drop ==
    /\ serving # 0
    /\ serving' = 0
    /\ UNCHANGED <<made, tries, beats, dismissed, final, ended>>

Silence ==
    /\ serving = 0
    /\ beats' = {}
    /\ UNCHANGED <<serving, made, tries, dismissed, final, ended>>

Retry ==
    /\ Quiet /\ ~dismissed /\ AutoReconnect /\ tries < MaxAttempts
    /\ tries' = tries + 1
    /\ UNCHANGED <<serving, made, beats, dismissed, final, ended>>

GiveUp ==
    /\ Quiet
    /\ dismissed \/ ~AutoReconnect \/ tries = MaxAttempts
    /\ ended' = TRUE
    /\ UNCHANGED <<serving, made, tries, beats, dismissed, final>>

Dismiss ==
    /\ dismissed' = TRUE
    /\ UNCHANGED <<serving, made, tries, beats, final, ended>>

Close ==
    /\ dismissed /\ serving # 0
    /\ final' = TRUE
    /\ UNCHANGED <<serving, made, tries, beats, dismissed, ended>>

LinkNext ==
    \/ Open \/ Drop \/ Silence \/ Retry \/ GiveUp \/ Dismiss \/ Close
    \/ \E h \in Hb : Beat(h)

Promise == LinkInit /\ [][LinkNext]_linkVars
=============================================================================
