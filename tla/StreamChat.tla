----------------------------- MODULE StreamChat -----------------------------
(***************************************************************************)
(* Streaming requests (Server.streamChat, internal/httpapi/server.go) at   *)
(* work with OpenCode: each takes the streaming lock of its session,       *)
(* subscribes to the events of all sessions, waits for server.connected,   *)
(* submits its prompt and turns events into chunks until its mapper says   *)
(* that the answer is complete.  The ledger has resolved the session       *)
(* before; requests with stream=false prompt the same sessions and take no *)
(* lock.  The lock is the lease table that InFlightLocks implements.       *)
(***************************************************************************)
EXTENDS OpenCode, EventMapper

CONSTANTS WantsUsage, \* the streams with stream_options.include_usage
          Fragile,    \* bound: the streams whose calls, feed or time may run out
          Leaving     \* bound: the streams whose client may go away

ASSUME StreamsAssumption == /\ WantsUsage \subseteq Streams
                            /\ Fragile \subseteq Streams
                            /\ Leaving \subseteq Streams

VARIABLES
    pc,        \* where the handler of each stream is
    ctx,       \* its context: "live", or why it ended
    gone,      \* streams whose client has gone away
    lease,     \* streams whose key is in the lock table
    posted,    \* streams whose PromptAsync call went out
    mapper,    \* the mapper of each stream
    http,      \* the status sent to each client, 0 before it
    out,       \* the chunks sent to each client
    touched,   \* streams that refreshed their ledger row
    disturbed  \* streams whose session ran, or was given, another prompt

handlerVars == <<pc, ctx, gone, lease, posted, mapper, http, out, touched>>
vars == <<handlerVars, disturbed, openCodeVars>>

PCs == {"acquire", "subscribe", "connect", "prompt", "posting", "role",
        "stream", "usage", "done", "touch", "return", "end"}
Statuses == {409, 502, 503, 504}
ChunkKinds == {"role", "text", "stop", "usage", "done"}

ChatTypeOK ==
    /\ pc \in [Streams -> PCs]
    /\ ctx \in [Streams -> {"live", "deadline", "canceled"}]
    /\ gone \in SUBSET Streams /\ lease \in SUBSET Streams
    /\ posted \in SUBSET Streams /\ touched \in SUBSET Streams
    /\ disturbed \in SUBSET Streams
    /\ \A s \in Streams : mapper[s] \in MapperOf({SessionOf[s]})
    /\ http \in [Streams -> {0, 200} \cup Statuses]
    /\ \A s \in Streams : \A i \in DOMAIN out[s] : out[s][i].kind \in ChunkKinds
    /\ accepted \in SUBSET Prompts /\ finished \in SUBSET Prompts
    /\ sent \in [Prompts -> 0..MaxDeltas]
    /\ feed \in [Streams -> {"none", "silent", "open", "broken", "closed"}]

Init == /\ OpenCodeInit
        /\ pc = [s \in Streams |-> "acquire"]
        /\ ctx = [s \in Streams |-> "live"]
        /\ gone = {}
        /\ lease = {}
        /\ posted = {}
        /\ mapper = [s \in Streams |-> NewMapper(SessionOf[s])]
        /\ http = [s \in Streams |-> 0]
        /\ out = [s \in Streams |-> <<>>]
        /\ touched = {}
        /\ disturbed = {}

-----------------------------------------------------------------------------
CtxDone(s) == ctx[s] # "live"
At(s, place) == pc[s] = place
GoTo(s, place) == pc' = [pc EXCEPT ![s] = place]

(* Mutant of StatusOf: a timeout is answered as an internal error. *)
StatusOf500(err) == IF err = "deadline" THEN 500 ELSE 502

(* writeDownstreamError.  An ended context hides any other error.          *)
StatusOf(err) == IF err = "deadline" THEN 504
                 ELSE IF err \in {"unavailable", "auth"} THEN 503 ELSE 502
CallErrors(s) == IF CtxDone(s) THEN {ctx[s]}
                 ELSE {"deadline", "unavailable", "auth", "badgateway"}
Answer(s, code) == /\ http' = [http EXCEPT ![s] = code]
                   /\ GoTo(s, "return")

Chunk(kind, text) == [kind |-> kind, text |-> text]

(* Mutant of WriteThen: a failed write is not looked at. *)
WriteAnyway(s, chunk, next) == /\ \/ out' = [out EXCEPT ![s] = Append(@, chunk)]
                                  \/ s \in gone /\ UNCHANGED out
                               /\ GoTo(s, next)

(* The chunks go out and the handler goes on.  Or the client has gone, the *)
(* write fails, and the handler returns.                                   *)
WriteThen(s, chunk, next) ==
    \/ /\ out' = [out EXCEPT ![s] = Append(@, chunk)]
       /\ GoTo(s, next)
    \/ /\ s \in gone
       /\ GoTo(s, "return")
       /\ UNCHANGED out

-----------------------------------------------------------------------------
(* WithTimeout's deadline passes, the client goes away, and net/http then  *)
(* cancels the request's context.                                          *)
ClientGone(s) == /\ s \in Leaving \ gone /\ ~At(s, "end")
                 /\ gone' = gone \cup {s}
                 /\ UNCHANGED <<pc, ctx, lease, posted, mapper, http, out, touched,
                                disturbed, openCodeVars>>
CtxEnd(s, why) == /\ ~CtxDone(s)
                  /\ s \in (IF why = "canceled" THEN gone ELSE Fragile)
                  /\ ctx' = [ctx EXCEPT ![s] = why]
                  /\ UNCHANGED <<pc, gone, lease, posted, mapper, http, out, touched,
                                 disturbed, openCodeVars>>

(* The watcher of the lock lets go of the key once the context has ended,  *)
(* wherever the handler is.                                                *)
WatcherRelease(s) == /\ s \in lease /\ CtxDone(s)
                     /\ lease' = lease \ {s}
                     /\ UNCHANGED <<pc, ctx, gone, posted, mapper, http, out, touched,
                                    disturbed, openCodeVars>>

Held(k) == \E t \in lease : SessionOf[t] = k

(* Mutant of AcquireGrant: no look at the table. *)
AcquireAlways(s) == /\ At(s, "acquire") /\ ~CtxDone(s)
                    /\ lease' = lease \cup {s}
                    /\ GoTo(s, "subscribe")
                    /\ UNCHANGED <<ctx, gone, posted, mapper, http, out, touched,
                                   disturbed, openCodeVars>>

AcquireGrant(s) == /\ At(s, "acquire") /\ ~CtxDone(s) /\ ~Held(SessionOf[s])
                   /\ lease' = lease \cup {s}
                   /\ GoTo(s, "subscribe")
                   /\ UNCHANGED <<ctx, gone, posted, mapper, http, out, touched,
                                  disturbed, openCodeVars>>

AcquireFails(s) == /\ At(s, "acquire")
                   /\ IF CtxDone(s) THEN Answer(s, StatusOf(ctx[s]))
                      ELSE Held(SessionOf[s]) /\ Answer(s, 409)
                   /\ UNCHANGED <<ctx, gone, lease, posted, mapper, out, touched,
                                  disturbed, openCodeVars>>

(* The session runs a prompt of somebody else, or has not yet told the end *)
(* of its run, or has one waiting.                                         *)
Occupied(k) == run[k] # Free \/ queue[k] # <<>>

(* Mutant of SubscribeEvents: the prompt goes out with the subscription. *)
SubscribeAndPost(s) ==
    /\ At(s, "subscribe") /\ ~CtxDone(s)
    /\ Subscribe(s)
    /\ posted' = posted \cup {s}
    /\ GoTo(s, "connect")
    /\ UNCHANGED <<ctx, gone, lease, mapper, http, out, touched, disturbed, sessionVars>>

SubscribeEvents(s) ==
    /\ At(s, "subscribe") /\ ~CtxDone(s)
    /\ Subscribe(s)
    /\ GoTo(s, "connect")
    /\ disturbed' = IF Occupied(SessionOf[s]) THEN disturbed \cup {s} ELSE disturbed
    /\ UNCHANGED <<ctx, gone, lease, posted, mapper, http, out, touched, sessionVars>>

CallFails(s) == /\ pc[s] \in {"subscribe", "posting"}
                /\ CtxDone(s) \/ s \in Fragile
                /\ \E err \in CallErrors(s) : Answer(s, StatusOf(err))
                /\ UNCHANGED <<ctx, gone, lease, posted, mapper, out, touched,
                               disturbed, openCodeVars>>

(* EventStream.Next: an event if there is one, an error if the context has *)
(* ended or the subscription has; else it waits.                           *)
HasNext(s) == ~CtxDone(s) /\ inbox[s] # <<>>
Read(s) == /\ HasNext(s)
           /\ inbox' = [inbox EXCEPT ![s] = Tail(@)]
           /\ mapper' = [mapper EXCEPT ![s] = Handle(mapper[s], Head(inbox[s])).mapper]
           /\ UNCHANGED feed
ActionOn(s) == Handle(mapper[s], Head(inbox[s])).action
(* Mutant of NextErrors: the read does not heed the context. *)
NextErrorsOfFeed(s) ==
    IF feed[s] = "broken" /\ inbox[s] = <<>> THEN {"badgateway"} ELSE {}
NextErrors(s) == IF CtxDone(s) THEN {ctx[s]}
                 ELSE IF feed[s] = "broken" /\ inbox[s] = <<>>
                 THEN {"deadline", "badgateway"} ELSE {}

AwaitConnected(s) ==
    /\ At(s, "connect") /\ Read(s)
    /\ IF ActionOn(s).kind = "connected" THEN GoTo(s, "prompt") ELSE UNCHANGED pc
    /\ UNCHANGED <<ctx, gone, lease, posted, http, out, touched, disturbed, sessionVars>>

ConnectFails(s) == /\ At(s, "connect")
                   /\ \E err \in NextErrors(s) : Answer(s, StatusOf(err))
                   /\ UNCHANGED <<ctx, gone, lease, posted, mapper, out, touched,
                                  disturbed, openCodeVars>>

PromptAsync(s) == /\ At(s, "prompt")
                  /\ posted' = posted \cup {s}
                  /\ GoTo(s, "posting")
                  /\ UNCHANGED <<ctx, gone, lease, mapper, http, out, touched,
                                 disturbed, openCodeVars>>

(* OpenCode accepts a posted prompt, even one the gateway gave up on, or a *)
(* prompt with stream=false.  It disturbs the streams of its session that  *)
(* have subscribed.                                                        *)
AcceptPrompt(p) ==
    /\ p \in posted \cup Others
    /\ Accept(p)
    /\ disturbed' = disturbed \cup {s \in Streams \ {p} :
                                       Listening(s) /\ SessionOf[s] = SessionOf[p]}
    /\ UNCHANGED handlerVars

(* Mutant of PromptAccepted: the status of the answer is not looked at. *)
PromptAnswered(s) ==
    /\ At(s, "posting")
    /\ mapper' = [mapper EXCEPT ![s] = MarkPromptSubmitted(@)]
    /\ http' = [http EXCEPT ![s] = 200]
    /\ GoTo(s, "role")
    /\ UNCHANGED <<ctx, gone, lease, posted, out, touched, disturbed, openCodeVars>>

PromptAccepted(s) ==
    /\ At(s, "posting") /\ s \in accepted
    /\ mapper' = [mapper EXCEPT ![s] = MarkPromptSubmitted(@)]
    /\ http' = [http EXCEPT ![s] = 200]
    /\ GoTo(s, "role")
    /\ UNCHANGED <<ctx, gone, lease, posted, out, touched, disturbed, openCodeVars>>

WriteRole(s) == /\ At(s, "role")
                /\ WriteThen(s, Chunk("role", <<>>), "stream")
                /\ UNCHANGED <<ctx, gone, lease, posted, mapper, http, touched,
                               disturbed, openCodeVars>>

StreamEvent(s) ==
    LET action == ActionOn(s)
    IN /\ At(s, "stream") /\ Read(s)
       /\ CASE action.kind \in {"assistant_text_delta", "safe_progress_markdown"} ->
                  WriteThen(s, Chunk("text", action.text), "stream")
            [] action.kind = "complete" ->
                  WriteThen(s, Chunk("stop", <<>>),
                            IF s \in WantsUsage THEN "usage" ELSE "done")
            [] OTHER -> UNCHANGED <<pc, out>>
       /\ UNCHANGED <<ctx, gone, lease, posted, http, touched, disturbed, sessionVars>>

(* finishStreamError ignores the errors of its three writes; once one has  *)
(* failed, so do the others.                                               *)
ErrorText == <<"stopped before completion">>
ErrorTail == <<Chunk("text", ErrorText), Chunk("stop", <<>>), Chunk("done", <<>>)>>
(* Mutant of StreamFails: a failed stream goes on to Touch. *)
StreamFailsTouch(s) ==
    /\ At(s, "stream") /\ NextErrors(s) # {}
    /\ out' = [out EXCEPT ![s] = @ \o ErrorTail]
    /\ GoTo(s, "touch")
    /\ UNCHANGED <<ctx, gone, lease, posted, mapper, http, touched, disturbed,
                   openCodeVars>>

StreamFails(s) ==
    /\ At(s, "stream") /\ NextErrors(s) # {}
    /\ \E n \in (IF s \in gone THEN 0..3 ELSE {3}) :
          out' = [out EXCEPT ![s] = @ \o SubSeq(ErrorTail, 1, n)]
    /\ GoTo(s, "return")
    /\ UNCHANGED <<ctx, gone, lease, posted, mapper, http, touched, disturbed,
                   openCodeVars>>

(* fetchStreamUsage: the last message of the session with usable tokens.   *)
WithTokens(s) == {i \in DOMAIN messages[SessionOf[s]] : messages[SessionOf[s]][i][2]}
LastUsage(s) ==
    LET i == CHOOSE j \in WithTokens(s) : \A l \in WithTokens(s) : l <= j
    IN  <<messages[SessionOf[s]][i][1]>>
UsageFound(s) == /\ At(s, "usage") /\ ~CtxDone(s) /\ WithTokens(s) # {}
                 /\ WriteThen(s, Chunk("usage", LastUsage(s)), "done")
                 /\ UNCHANGED <<ctx, gone, lease, posted, mapper, http, touched,
                                disturbed, openCodeVars>>
UsageMissing(s) == /\ At(s, "usage") \* no tokens, or the call failed
                   /\ GoTo(s, "done")
                   /\ UNCHANGED <<ctx, gone, lease, posted, mapper, http, out, touched,
                                  disturbed, openCodeVars>>

WriteDone(s) == /\ At(s, "done")
                /\ WriteThen(s, Chunk("done", <<>>), "touch")
                /\ UNCHANGED <<ctx, gone, lease, posted, mapper, http, touched,
                               disturbed, openCodeVars>>

(* Touch, under a context of its own; its error is only logged. *)
Touch(s) == /\ At(s, "touch")
            /\ touched' \in {touched, touched \cup {s}}
            /\ GoTo(s, "return")
            /\ UNCHANGED <<ctx, gone, lease, posted, mapper, http, out, disturbed,
                           openCodeVars>>

(* The deferred calls: stream.Close, release and cancel.  The mapper and   *)
(* the subscription go with the handler.                                   *)
Return(s) == /\ At(s, "return")
             /\ Close(s)
             /\ lease' = lease \ {s}
             /\ ctx' = [ctx EXCEPT ![s] = IF CtxDone(s) THEN @ ELSE "canceled"]
             /\ mapper' = [mapper EXCEPT ![s] = NewMapper(SessionOf[s])]
             /\ GoTo(s, "end")
             /\ UNCHANGED <<gone, posted, http, out, touched, disturbed, sessionVars>>

-----------------------------------------------------------------------------
HandlerStep(s) ==
    \/ AcquireGrant(s) \/ AcquireFails(s) \/ SubscribeEvents(s) \/ CallFails(s)
    \/ AwaitConnected(s) \/ ConnectFails(s) \/ PromptAsync(s) \/ PromptAccepted(s)
    \/ WriteRole(s) \/ StreamEvent(s) \/ StreamFails(s) \/ UsageFound(s)
    \/ UsageMissing(s) \/ WriteDone(s) \/ Touch(s) \/ Return(s)

OpenCodeStep == /\ \/ \E k \in Keys : SessionStep(k)
                   \/ \E s \in Streams : Greet(s) \/ (s \in Fragile /\ BreakFeed(s))
                /\ UNCHANGED <<handlerVars, disturbed>>

Next == \/ \E s \in Streams : HandlerStep(s) \/ ClientGone(s) \/ WatcherRelease(s)
        \/ \E s \in Streams, why \in {"deadline", "canceled"} : CtxEnd(s, why)
        \/ \E p \in Prompts : AcceptPrompt(p)
        \/ OpenCodeStep

Spec == Init /\ [][Next]_vars

(* Handlers run, the deadline of WithTimeout passes, watchers wake.        *)
(* OpenCode may stall for ever, and so may the subscription.               *)
Fairness == \A s \in Streams : /\ WF_vars(HandlerStep(s))
                               /\ WF_vars(CtxEnd(s, "deadline"))
                               /\ WF_vars(WatcherRelease(s))
FairSpec == Spec /\ Fairness

-----------------------------------------------------------------------------
(* Where the deltas of prompt p are in a sequence of texts, and that they  *)
(* are those from first to last, once each and in order.                   *)
DeltasIn(texts, p) == {i \in DOMAIN texts : Len(texts[i]) = 2 /\ texts[i][1] = p}
Holds(texts, p, first, last) ==
    /\ {texts[i][2] : i \in DeltasIn(texts, p)} = first..last
    /\ \A i, j \in DeltasIn(texts, p) : i < j => texts[i][2] < texts[j][2]
TextsOut(s) == [i \in DOMAIN out[s] |-> out[s][i].text]
TextsIn(s) == [i \in DOMAIN inbox[s] |->
                  IF inbox[s][i].type = "message.part.delta" THEN inbox[s][i].text
                  ELSE <<>>]
HasChunk(s, kind) == \E i \in DOMAIN out[s] : out[s][i].kind = kind
ToldError(s) == \E i \in DOMAIN out[s] : out[s][i] = Chunk("text", ErrorText)
Completed(s) == HasChunk(s, "stop") /\ ~ToldError(s)

(* A stream misses nothing of its own answer: while it streams, every      *)
(* delta OpenCode published for its prompt was sent to the client or waits *)
(* in its subscription, once each and in order.                            *)
NothingIsMissed ==
    \A s \in Streams :
        At(s, "stream") /\ feed[s] = "open"
           => \E n \in 0..sent[s] : /\ Holds(TextsOut(s), s, 1, n)
                                     /\ Holds(TextsIn(s), s, n + 1, sent[s])

(* A stream that completes has shown the whole of its own answer, whose    *)
(* run is over, if its session was free when it subscribed (no prompt ran, *)
(* waited or had its session.idle outstanding) and was given no other      *)
(* prompt afterwards.  So the stream before it on the session, whether it  *)
(* ended well or was given up, and its session.diff, which may be late, do *)
(* not complete it.  Its late idle would: then the stream is disturbed.    *)
CompletedIsAnswered ==
    \A s \in Streams \ disturbed :
        Completed(s) => s \in finished /\ Holds(TextsOut(s), s, 1, sent[s])

(* What a status says of the prompt stays true.  Who was told 409 has      *)
(* posted no prompt, and who was told 200 has one in OpenCode.  And a      *)
(* client that was told any error before its prompt was posted finds no    *)
(* trace of it in OpenCode, then or later, and is told nothing else.  Of   *)
(* an error after the post nothing is said: the prompt may run or not.     *)
StatusTellsPrompt ==
    /\ [](\A s \in Streams : /\ http[s] = 409 => s \notin posted
                             /\ http[s] = 200 => s \in accepted
                             /\ s \in accepted => s \in posted)
    /\ [][\A s \in Streams : http[s] \in Statuses /\ s \notin posted
                                 => s \notin posted' /\ http'[s] = http[s]]_vars

(* The ledger row is refreshed only by a stream that told its client that  *)
(* the answer is complete, never by one that failed.                       *)
TouchedIsDone ==
    \A s \in touched : Completed(s) /\ HasChunk(s, "done")

(* Of the streams of a session with a live context, one at most is between *)
(* the lock and its return, and the session's key is in the table.         *)
LiveHandlersExclude ==
    LET busy == {s \in Streams : pc[s] \notin {"acquire", "return", "end"} /\ ~CtxDone(s)}
    IN  /\ busy \subseteq lease
        /\ \A s, t \in busy : SessionOf[s] = SessionOf[t] => s = t

(* The responses implement the wire format. *)
KindsOut == [s \in Streams |-> [i \in DOMAIN out[s] |-> out[s][i].kind]]
Wire == INSTANCE WireFormat WITH
           Clients <- Streams, ErrorStatuses <- Statuses, status <- http, wire <- KindsOut
ImplementsWire == Wire!Spec

(* Every stream ends, and gives its key back, whatever OpenCode does. *)
StreamsEnd == \A s \in Streams : <>[](At(s, "end") /\ s \notin lease)

(* The phase 2 report says that the gateway does not treat unrelated idle  *)
(* events as completion (docs/reports/phase-2-implementation-report.md):   *)
(* a stream that completes does so after its own prompt has run.           *)
CompletesOnOwnRun == \A s \in Streams : Completed(s) => s \in finished

(* The same report says that usage is omitted when OpenCode has no token   *)
(* metadata.  So the usage of a stream that had its session to itself, and *)
(* whose own answer is therefore the last message there, is that of this   *)
(* answer and not of a turn before it.                                     *)
UsageIsOwn == \A s \in Streams \ disturbed : \A i \in DOMAIN out[s] :
                 out[s][i].kind = "usage" => out[s][i].text = <<s>>
=============================================================================
