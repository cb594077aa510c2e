---------------------------- MODULE MCChatSocket ----------------------------
(* Model values for ChatSocket, and a bound on the runs of the effect and   *)
(* the faults of a behaviour together: with one run every fault the .cfg    *)
(* allows, with two up to four of them, with three one.  What the bound     *)
(* stops is what the user and the network do, never a step that fairness    *)
(* promises.                                                                *)
EXTENDS ChatSocket
CONSTANTS r1, r2

Trouble == 3 * run + faults.drops + faults.failures + faults.refusals
MaxTrouble == 10

MCNext == Next /\ Trouble' <= MaxTrouble
MCSpec == Init /\ [][MCNext]_vars /\ \A i \in Ids : WF_state(Progress(i))
=============================================================================
