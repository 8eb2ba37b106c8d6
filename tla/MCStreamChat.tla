---------------------------- MODULE MCStreamChat ----------------------------
(* Streams s1 and s2 and the prompt o1 of a stream=false request, all in   *)
(* the session k1.                                                         *)
EXTENDS StreamChat

CONSTANTS s1, s2, o1, k1

MCOneSession == [p \in Prompts |-> k1]
=============================================================================
