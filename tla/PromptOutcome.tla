--------------------------- MODULE PromptOutcome ---------------------------
(***************************************************************************)
(* What the answer to a chat request with stream=false says about its      *)
(* prompt, whatever failed between: after some codes OpenCode has run the  *)
(* prompt, after others it has not and never will, so that the client may  *)
(* send it again; and after the rest nobody knows.  A prompt runs at most  *)
(* once and a request is answered at most once.                            *)
(***************************************************************************)
CONSTANTS Requests,
          Codes,   \* what a request may be told
          HasRun,  \* codes that say its prompt has run
          NeverRun \* codes that say it never will

VARIABLES ran, \* requests whose prompt OpenCode has run
          told \* what each request was told, or "none"

Init == ran = {} /\ told = [r \in Requests |-> "none"]

Run(r) == /\ r \notin ran /\ told[r] \notin NeverRun
          /\ ran' = ran \cup {r}
          /\ UNCHANGED told

Tell(r, code) == /\ told[r] = "none"
                 /\ code \in HasRun => r \in ran
                 /\ code \in NeverRun => r \notin ran
                 /\ told' = [told EXCEPT ![r] = code]
                 /\ UNCHANGED ran

Next == \E r \in Requests : Run(r) \/ \E code \in Codes : Tell(r, code)

Spec == Init /\ [][Next]_<<ran, told>>
=============================================================================
