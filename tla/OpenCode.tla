------------------------------ MODULE OpenCode ------------------------------
(***************************************************************************)
(* OpenCode as the gateway uses it (an external service, modelled from     *)
(* internal/opencode/client.go, the scripts and the recorded discovery     *)
(* run): sessions that run the prompts they accept one after another, the  *)
(* messages they keep, and the shared stream of events of GET /event.      *)
(* Event streams are FIFO; a stream may break at any time.                 *)
(***************************************************************************)
EXTENDS Naturals, Sequences, FiniteSets

CONSTANTS Keys,      \* OpenCode session IDs
          Streams,   \* streaming requests; each subscribes and prompts once
          Others,    \* prompts that come from requests with stream=false
          SessionOf, \* the session of each request, as the ledger resolved it
          Uncounted, \* bound: prompts whose message may lack usable token counts
          MaxDeltas, \* bound on the text deltas of a run
          MaxDiffs   \* bound on the session.diff events of a session

Prompts == Streams \cup Others

ASSUME OpenCodeAssumption == /\ SessionOf \in [Prompts -> Keys]
                             /\ Streams \cap Others = {}
                             /\ Uncounted \subseteq Prompts
                             /\ MaxDeltas \in Nat /\ MaxDiffs \in Nat

VARIABLES
    queue,    \* accepted prompts that wait, per session
    run,      \* the prompt that runs or settles in each session
    accepted, \* prompts OpenCode has accepted
    finished, \* prompts whose run has ended
    sent,     \* how many deltas OpenCode published for each prompt
    diffs,    \* how many session.diff events OpenCode published per session
    messages, \* assistant messages of a session: prompt, usable token counts
    feed,     \* the state of each stream's subscription
    inbox     \* events published to a subscription and not yet read

sessionVars == <<queue, run, accepted, finished, sent, diffs, messages>>
feedVars == <<feed, inbox>>
openCodeVars == <<sessionVars, feedVars>>

Free == [stage |-> "free"]
Running(p) == [stage |-> "running", prompt |-> p]
Settling(p) == [stage |-> "settling", prompt |-> p]

OpenCodeInit == /\ queue = [k \in Keys |-> <<>>]
                /\ run = [k \in Keys |-> Free]
                /\ accepted = {}
                /\ finished = {}
                /\ sent = [p \in Prompts |-> 0]
                /\ diffs = [k \in Keys |-> 0]
                /\ messages = [k \in Keys |-> <<>>]
                /\ feed = [s \in Streams |-> "none"]
                /\ inbox = [s \in Streams |-> <<>>]

-----------------------------------------------------------------------------
Connected == [type |-> "server.connected"]
UserPart(k) == [type |-> "message.part.updated", session |-> k,
                words |-> {}, bashTool |-> FALSE]
StatusEvent(k, value) == [type |-> "session.status", session |-> k, status |-> value]
Delta(k, p, n) == [type |-> "message.part.delta", session |-> k,
                   field |-> "text", text |-> <<p, n>>]
IdleEvent(k) == [type |-> "session.idle", session |-> k]
DiffEvent(k) == [type |-> "session.diff", session |-> k]

(* A subscription gets events from its start, also before its greeting. *)
Listening(s) == feed[s] \in {"silent", "open"}
Publish(ev) ==
    /\ inbox' = [s \in Streams |-> IF Listening(s) THEN Append(inbox[s], ev)
                                   ELSE inbox[s]]
    /\ UNCHANGED feed

(* A prompt is accepted: the user message joins the session. *)
Accept(p) == /\ p \notin accepted
             /\ accepted' = accepted \cup {p}
             /\ queue' = [queue EXCEPT ![SessionOf[p]] = Append(@, p)]
             /\ Publish(UserPart(SessionOf[p]))
             /\ UNCHANGED <<run, finished, sent, diffs, messages>>

StartRun(k) == /\ run[k] = Free /\ queue[k] # <<>>
               /\ run' = [run EXCEPT ![k] = Running(Head(queue[k]))]
               /\ queue' = [queue EXCEPT ![k] = Tail(@)]
               /\ Publish(StatusEvent(k, "busy"))
               /\ UNCHANGED <<accepted, finished, sent, diffs, messages>>

EmitDelta(k) ==
    /\ run[k].stage = "running" /\ sent[run[k].prompt] < MaxDeltas
    /\ sent' = [sent EXCEPT ![run[k].prompt] = @ + 1]
    /\ Publish(Delta(k, run[k].prompt, sent'[run[k].prompt]))
    /\ UNCHANGED <<queue, run, accepted, finished, diffs, messages>>

(* The run ends: its message is kept, with usable token counts or without. *)
EndRun(k) ==
    /\ run[k].stage = "running"
    /\ \E tokens \in BOOLEAN :
          /\ tokens \/ run[k].prompt \in Uncounted
          /\ messages' = [messages EXCEPT ![k] = Append(@, <<run[k].prompt, tokens>>)]
    /\ finished' = finished \cup {run[k].prompt}
    /\ run' = [run EXCEPT ![k] = Settling(run[k].prompt)]
    /\ Publish(StatusEvent(k, "idle"))
    /\ UNCHANGED <<queue, accepted, sent, diffs>>

(* After the idle status comes session.idle. *)
Settle(k) == /\ run[k].stage = "settling"
             /\ run' = [run EXCEPT ![k] = Free]
             /\ Publish(IdleEvent(k))
             /\ UNCHANGED <<queue, accepted, finished, sent, diffs, messages>>

(* A session.diff comes during a run, or late, after its session.idle. *)
PublishDiff(k) == /\ run[k].stage = "running" \/ (run[k] = Free /\ messages[k] # <<>>)
                  /\ diffs[k] < MaxDiffs
                  /\ diffs' = [diffs EXCEPT ![k] = @ + 1]
                  /\ Publish(DiffEvent(k))
                  /\ UNCHANGED <<queue, run, accepted, finished, sent, messages>>

SessionStep(k) == \/ StartRun(k) \/ EmitDelta(k) \/ EndRun(k)
                  \/ Settle(k)   \/ PublishDiff(k)

Subscribe(s) == /\ feed[s] = "none"
                /\ feed' = [feed EXCEPT ![s] = "silent"]
                /\ UNCHANGED inbox

Greet(s) == /\ feed[s] = "silent"
            /\ feed' = [feed EXCEPT ![s] = "open"]
            /\ inbox' = [inbox EXCEPT ![s] = Append(@, Connected)]
            /\ UNCHANGED sessionVars

(* The connection, a limit of the reader or the HTTP client's timeout ends *)
(* the stream: what was published is read first, then Next fails.          *)
BreakFeed(s) == /\ Listening(s)
                /\ feed' = [feed EXCEPT ![s] = "broken"]
                /\ UNCHANGED <<inbox, sessionVars>>

Close(s) == /\ feed' = [feed EXCEPT ![s] = "closed"]
            /\ inbox' = [inbox EXCEPT ![s] = <<>>]
=============================================================================
