------------------------------ MODULE ChatSync ------------------------------
(***************************************************************************)
(* Chat requests with stream=false (Server.chat,                           *)
(* internal/httpapi/server.go) within the life of the process              *)
(* (cmd/gateway/main.go).  A handler resolves its session, sends the       *)
(* prompt and waits for the whole answer, refreshes the ledger row and     *)
(* replies.  A signal closes the listener and waits a while for the        *)
(* handlers; then the ledger is closed, whether they have ended or not,    *)
(* and the process exits.  It may also crash, and be started again.        *)
(*                                                                         *)
(* The ledger is what SessionLedger shows it to be: ResolveOrCreate        *)
(* returns a session or an error.  OpenCode runs a prompt, or not, whether *)
(* or not the gateway still waits.                                         *)
(***************************************************************************)
EXTENDS Naturals

CONSTANTS Requests, \* chat requests
          MaxLives  \* bound on the lives of the process, for TLC

ASSUME LivesAssumption == MaxLives \in Nat \ {0}

VARIABLES phase,    \* what the process does
          overrun,  \* the grace period of this life is over
          lives,    \* lives of the process so far
          pc,       \* where the handler of each request is
          gone,     \* requests whose client has left
          upstream, \* what OpenCode has made of each prompt
          touched,  \* requests that have refreshed their ledger row
          told      \* the code each request was told, or "none"

vars == <<phase, overrun, lives, pc, gone, upstream, touched, told>>
lifeVars == <<phase, overrun, lives>>

Phases == {"serving", "draining", "closed", "down"}
PCs == {"unsent", "reading", "resolve", "send", "sending", "touch", "reply",
        "ended", "cut"}
Answers == {"text", "empty", "error"}
Upstream == Answers \cup {"none", "posted", "refused"}

(* The codes of the answers, 200 as "ok".  Errors of the ledger come out   *)
(* as opencode_bad_gateway, and so does the end of the context.            *)
Refusals == {"invalid_request", "invalid_api_key", "model_not_found"}
CallErrors == {"opencode_timeout", "opencode_unavailable", "opencode_bad_gateway"}
HasRun == {"ok", "opencode_execution_error", "opencode_no_text_content"}
NeverRun == Refusals \cup {"opencode_auth_failed"}
Codes == HasRun \cup NeverRun \cup CallErrors

SyncTypeOK == /\ phase \in Phases
              /\ overrun \in BOOLEAN
              /\ lives \in 1..MaxLives
              /\ pc \in [Requests -> PCs]
              /\ gone \in SUBSET Requests
              /\ upstream \in [Requests -> Upstream]
              /\ touched \in SUBSET Requests
              /\ told \in [Requests -> Codes \cup {"none"}]

Init == /\ phase = "serving" /\ overrun = FALSE /\ lives = 1
        /\ pc = [r \in Requests |-> "unsent"]
        /\ gone = {} /\ touched = {}
        /\ upstream = [r \in Requests |-> "none"]
        /\ told = [r \in Requests |-> "none"]

-----------------------------------------------------------------------------
At(r, step) == pc[r] = step
GoTo(r, step) == pc' = [pc EXCEPT ![r] = step]
Active(r) == pc[r] \notin {"unsent", "ended", "cut"}
LedgerOpen == phase \in {"serving", "draining"}

(* writeError, or writeJSON at the end, and return. *)
Answer(r, code) == GoTo(r, "ended") /\ told' = [told EXCEPT ![r] = code]

(* A request comes in.  Its body may take for ever: only the header has a  *)
(* timeout.                                                                *)
Arrive(r) == /\ phase = "serving" /\ At(r, "unsent")
             /\ GoTo(r, "reading")
             /\ UNCHANGED <<lifeVars, gone, upstream, touched, told>>

(* The token, headers, body and model are good; or else they are refused,  *)
(* as a body that breaks off is.                                           *)
Accept(r) == /\ At(r, "reading")
             /\ GoTo(r, "resolve")
             /\ UNCHANGED <<lifeVars, gone, upstream, touched, told>>
Refuse(r) == /\ At(r, "reading")
             /\ \E code \in Refusals : Answer(r, code)
             /\ UNCHANGED <<lifeVars, gone, upstream, touched>>

ClientGone(r) == /\ Active(r) /\ r \notin gone
                 /\ gone' = gone \cup {r}
                 /\ UNCHANGED <<lifeVars, pc, upstream, touched, told>>

(* ResolveOrCreate. *)
Resolve(r) == /\ At(r, "resolve") /\ LedgerOpen
              /\ GoTo(r, "send")
              /\ UNCHANGED <<lifeVars, gone, upstream, touched, told>>

(* It fails in a statement, or in the call that creates a session. *)
ResolveFails(r) == /\ At(r, "resolve")
                   /\ \E code \in CallErrors \cup {"opencode_auth_failed"} :
                         Answer(r, code)
                   /\ UNCHANGED <<lifeVars, gone, upstream, touched>>

(* SendMessage: the request goes out. *)
SendMessage(r) == /\ At(r, "send") /\ r \notin gone
                  /\ upstream' = [upstream EXCEPT ![r] = "posted"]
                  /\ GoTo(r, "sending")
                  /\ UNCHANGED <<lifeVars, gone, touched, told>>

(* OpenCode takes the prompt and answers it, or refuses the password. *)
OpenCodeAnswers(r, answer) == /\ upstream[r] = "posted"
                              /\ answer \in Answers \cup {"refused"}
                              /\ upstream' = [upstream EXCEPT ![r] = answer]
                              /\ UNCHANGED <<lifeVars, pc, gone, touched, told>>

(* Mutant of CallFails: a call without a timeout. *)
CallFailsWhenGone(r) == /\ pc[r] \in {"send", "sending"} /\ r \in gone
                        /\ Answer(r, "opencode_bad_gateway")
                        /\ UNCHANGED <<lifeVars, gone, upstream, touched>>

(* The call fails, before or after OpenCode has taken the prompt: no       *)
(* connection, the timeout of the HTTP client, the end of the context, an  *)
(* odd status, or an answer that breaks off or has no ID.                  *)
CallFails(r) == /\ pc[r] \in {"send", "sending"}
                /\ \E code \in CallErrors : Answer(r, code)
                /\ UNCHANGED <<lifeVars, gone, upstream, touched>>

(* Mutant of AuthFails: other failures of the call are told so too. *)
AuthSeemsToFail(r) == /\ At(r, "sending")
                      /\ Answer(r, "opencode_auth_failed")
                      /\ UNCHANGED <<lifeVars, gone, upstream, touched>>

AuthFails(r) == /\ At(r, "sending") /\ upstream[r] = "refused"
                /\ Answer(r, "opencode_auth_failed")
                /\ UNCHANGED <<lifeVars, gone, upstream, touched>>

(* extractText finds no text. *)
NoText(r) == /\ At(r, "sending")
             /\ \/ upstream[r] = "error" /\ Answer(r, "opencode_execution_error")
                \/ upstream[r] = "empty" /\ Answer(r, "opencode_no_text_content")
             /\ UNCHANGED <<lifeVars, gone, upstream, touched>>

HasText(r) == /\ At(r, "sending") /\ upstream[r] = "text"
              /\ GoTo(r, "touch")
              /\ UNCHANGED <<lifeVars, gone, upstream, touched, told>>

Touch(r) == /\ At(r, "touch") /\ LedgerOpen
            /\ touched' = touched \cup {r}
            /\ GoTo(r, "reply")
            /\ UNCHANGED <<lifeVars, gone, upstream, told>>

(* Mutant of TouchFails: the error is only logged, as after a stream. *)
TouchFailsLogged(r) == /\ At(r, "touch")
                       /\ GoTo(r, "reply")
                       /\ UNCHANGED <<lifeVars, gone, upstream, touched, told>>

(* An error of the statement, which may have committed when the context    *)
(* ends, or the ledger is closed.                                          *)
TouchFails(r) == /\ At(r, "touch")
                 /\ Answer(r, "opencode_bad_gateway")
                 /\ \/ UNCHANGED touched
                    \/ LedgerOpen /\ r \in gone /\ touched' = touched \cup {r}
                 /\ UNCHANGED <<lifeVars, gone, upstream>>

Reply(r) == /\ At(r, "reply")
            /\ Answer(r, "ok")
            /\ UNCHANGED <<lifeVars, gone, upstream, touched>>

-----------------------------------------------------------------------------
(* main: a signal, then Shutdown, which closes the listener. *)
Signal == /\ phase = "serving" /\ phase' = "draining"
          /\ UNCHANGED <<overrun, lives, pc, gone, upstream, touched, told>>

(* Shutdown returns when no handler is active, or after ten seconds; the   *)
(* deferred Close of the ledger follows.                                   *)
Drained == /\ phase = "draining" /\ \A r \in Requests : ~Active(r)
           /\ phase' = "closed"
           /\ UNCHANGED <<overrun, lives, pc, gone, upstream, touched, told>>

(* Mutant of DrainTimeout: Shutdown with a context without a deadline. *)
DrainForEver == Drained

DrainTimeout == /\ phase = "draining"
                /\ phase' = "closed" /\ overrun' = TRUE
                /\ UNCHANGED <<lives, pc, gone, upstream, touched, told>>

(* The process ends, and with it the handlers that are still active. *)
Die == /\ phase' = "down"
       /\ pc' = [r \in Requests |-> IF Active(r) THEN "cut" ELSE pc[r]]
       /\ UNCHANGED <<overrun, lives, gone, upstream, touched, told>>
Exit == phase = "closed" /\ Die
Crash == phase # "down" /\ Die

Start == /\ phase = "down" /\ lives < MaxLives
         /\ phase' = "serving" /\ overrun' = FALSE /\ lives' = lives + 1
         /\ UNCHANGED <<pc, gone, upstream, touched, told>>

-----------------------------------------------------------------------------
FrontDoor(r) == Arrive(r) \/ Accept(r) \/ Refuse(r)
HandlerStep(r) ==
    \/ Resolve(r) \/ ResolveFails(r) \/ SendMessage(r) \/ CallFails(r) \/ AuthFails(r)
    \/ NoText(r) \/ HasText(r) \/ Touch(r) \/ TouchFails(r) \/ Reply(r)
ShutdownReturns == Drained \/ DrainTimeout

Next == \/ \E r \in Requests : FrontDoor(r) \/ ClientGone(r) \/ HandlerStep(r)
        \/ \E r \in Requests, answer \in Upstream : OpenCodeAnswers(r, answer)
        \/ Signal \/ ShutdownReturns \/ Exit \/ Crash \/ Start

Spec == Init /\ [][Next]_vars

(* Handlers run and the timeout of the HTTP client passes; main runs, and  *)
(* the ten seconds pass.  OpenCode may stall for ever, and so may a client *)
(* that is to send its body.                                               *)
Fairness == /\ \A r \in Requests : /\ WF_vars(HandlerStep(r))
                                   /\ WF_vars(r \in gone /\ Refuse(r))
            /\ WF_vars(ShutdownReturns) /\ WF_vars(Exit)
FairSpec == Spec /\ Fairness

-----------------------------------------------------------------------------
Ran == {r \in Requests : upstream[r] \in Answers}

(* What a client is told of its prompt is true for ever, also when it is   *)
(* run after the gateway gave up on it, or the process was replaced: a     *)
(* refusal, or a password that OpenCode refuses, is safe to send again.    *)
Outcome == INSTANCE PromptOutcome WITH ran <- Ran
ImplementsOutcome == Outcome!Spec

(* Failed calls do not refresh updated_at (docs/design/session-ledger.md,  *)
(* 8.2) and answers do: a row is refreshed only for a prompt that has run  *)
(* and has text, and who was told 200 has had the row refreshed.           *)
RowTellsUse ==
    \A r \in Requests : /\ r \in touched => upstream[r] = "text"
                        /\ told[r] = "ok" => r \in touched

(* The ledger is closed under a handler only after the grace period.  So a *)
(* signal alone cuts no request.                                           *)
LedgerOutlivesHandlers ==
    phase = "closed" /\ ~overrun => \A r \in Requests : ~Active(r)

(* A shutdown ends, although a client or OpenCode may stall. *)
ShutdownEnds == phase = "draining" ~> phase = "down"

(* Every request whose body has been read, or whose client has left, is    *)
(* answered, or cut with the process, although OpenCode may stall.         *)
InHand(r) == Active(r) /\ (At(r, "reading") => r \in gone)
RequestsEnd == \A r \in Requests : InHand(r) ~> ~Active(r)
=============================================================================
