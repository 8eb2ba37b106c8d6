-------------------------- MODULE MCSessionLedger --------------------------
(* Requests r1, r2 and r3 of one chat, r3 in a second gateway process that *)
(* shares the database.                                                    *)
EXTENDS SessionLedger, TLC

CONSTANTS r1, r2, r3, c1, g1, g2

MCTwoProcesses == [r \in Requests |-> IF r = r3 THEN g2 ELSE g1]
MCChatOf == [r \in Requests |-> c1]
=============================================================================
