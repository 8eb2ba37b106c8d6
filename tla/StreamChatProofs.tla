-------------------------- MODULE StreamChatProofs --------------------------
(***************************************************************************)
(* Proofs about streaming requests, for any number of streams, sessions    *)
(* and prompts beside them, and that their responses implement the wire    *)
(* format.  OpenCode appears only in the few facts the handlers rely on: a *)
(* prompt is accepted only when it was posted, and the text of a delta is  *)
(* not the text the gateway writes for a failed stream.                    *)
(***************************************************************************)
EXTENDS StreamChat, SequenceTheorems, TLAPS

(* What the variables of the handlers are; touched has streams only. *)
Shape == /\ pc \in [Streams -> PCs]
         /\ ctx \in [Streams -> {"live", "deadline", "canceled"}]
         /\ http \in [Streams -> {0, 200} \cup Statuses]
         /\ out = [s \in Streams |-> out[s]]
         /\ touched \subseteq Streams

(* The steps that answer, or write, or do neither. *)
Quiet(s) == \/ AcquireGrant(s) \/ SubscribeEvents(s) \/ AwaitConnected(s)
            \/ PromptAsync(s) \/ UsageMissing(s) \/ Touch(s) \/ Return(s)
Answering(s) == AcquireFails(s) \/ CallFails(s) \/ ConnectFails(s) \/ PromptAccepted(s)
Writing(s) == WriteRole(s) \/ StreamEvent(s) \/ StreamFails(s) \/ UsageFound(s) \/ WriteDone(s)
Around(s) == ClientGone(s) \/ WatcherRelease(s)

LEMMA NextSteps ==
    ASSUME [Next]_vars
    PROVE  \/ \E s \in Streams : Quiet(s) \/ Answering(s) \/ Writing(s) \/ Around(s)
           \/ \E s \in Streams, why \in {"deadline", "canceled"} : CtxEnd(s, why)
           \/ \E p \in Prompts : AcceptPrompt(p)
           \/ OpenCodeStep \/ UNCHANGED vars
BY DEF Next, HandlerStep, Quiet, Answering, Writing, Around

LEMMA Codes ==
    /\ \A err : StatusOf(err) \in {502, 503, 504}
    /\ Statuses = {409, 502, 503, 504}
BY DEF StatusOf, Statuses

(* An answer is an error status, or 200 when the prompt was accepted.      *)
LEMMA AnsweringStep ==
    ASSUME NEW s \in Streams, Answering(s)
    PROVE  /\ \/ /\ pc[s] = "acquire"
                 /\ \E code \in Statuses : Answer(s, code)
              \/ /\ pc[s] \in {"subscribe", "connect", "posting"}
                 /\ \E code \in {502, 503, 504} : Answer(s, code)
              \/ /\ pc[s] = "posting" /\ s \in accepted
                 /\ http' = [http EXCEPT ![s] = 200] /\ GoTo(s, "role")
           /\ UNCHANGED <<ctx, gone, lease, posted, out, touched, accepted>>
<1>1. CASE AcquireFails(s)
  BY <1>1, Codes DEF AcquireFails, At, openCodeVars, sessionVars
<1>2. CASE CallFails(s)
  BY <1>2, Codes DEF CallFails, openCodeVars, sessionVars
<1>3. CASE ConnectFails(s)
  BY <1>3, Codes DEF ConnectFails, At, openCodeVars, sessionVars
<1>4. CASE PromptAccepted(s)
  BY <1>4 DEF PromptAccepted, At, openCodeVars, sessionVars
<1> QED
  BY <1>1, <1>2, <1>3, <1>4 DEF Answering

(* A write goes on or ends the handler. *)
LEMMA WritingStep ==
    ASSUME NEW s \in Streams, Writing(s)
    PROVE  /\ pc[s] \in {"role", "stream", "usage", "done"}
           /\ \/ UNCHANGED pc /\ pc[s] = "stream"
              \/ \E place \in {"stream", "usage", "done", "touch", "return"} : GoTo(s, place)
           /\ UNCHANGED <<ctx, gone, lease, posted, http, touched, accepted>>
           /\ \E o : out' = [out EXCEPT ![s] = o] \/ UNCHANGED out
<1>1. CASE WriteRole(s)
  BY <1>1 DEF WriteRole, WriteThen, At, openCodeVars, sessionVars
<1>2. CASE StreamEvent(s)
  BY <1>2 DEF StreamEvent, WriteThen, At, sessionVars
<1>3. CASE StreamFails(s)
  BY <1>3 DEF StreamFails, At, openCodeVars, sessionVars
<1>4. CASE UsageFound(s)
  BY <1>4 DEF UsageFound, WriteThen, At, openCodeVars, sessionVars
<1>5. CASE WriteDone(s)
  BY <1>5 DEF WriteDone, WriteThen, At, openCodeVars, sessionVars
<1> QED
  BY <1>1, <1>2, <1>3, <1>4, <1>5 DEF Writing

(* The other steps of a handler, with what they do to lease and posted. *)
LEMMA QuietStep ==
    ASSUME NEW s \in Streams, Quiet(s)
    PROVE  /\ \/ /\ pc[s] = "acquire" /\ GoTo(s, "subscribe")
                 /\ ~CtxDone(s) /\ ~Held(SessionOf[s])
                 /\ lease' = lease \cup {s} /\ UNCHANGED <<posted, ctx, touched>>
              \/ /\ pc[s] = "subscribe" /\ GoTo(s, "connect")
                 /\ UNCHANGED <<lease, posted, ctx, touched>>
              \/ /\ pc[s] = "connect" /\ (GoTo(s, "prompt") \/ UNCHANGED pc)
                 /\ UNCHANGED <<lease, posted, ctx, touched>>
              \/ /\ pc[s] = "prompt" /\ GoTo(s, "posting")
                 /\ posted' = posted \cup {s} /\ UNCHANGED <<lease, ctx, touched>>
              \/ /\ pc[s] = "usage" /\ GoTo(s, "done")
                 /\ UNCHANGED <<lease, posted, ctx, touched>>
              \/ /\ pc[s] = "touch" /\ GoTo(s, "return")
                 /\ touched' \in {touched, touched \cup {s}}
                 /\ UNCHANGED <<lease, posted, ctx>>
              \/ /\ pc[s] = "return" /\ GoTo(s, "end")
                 /\ lease' = lease \ {s} /\ UNCHANGED <<posted, touched>>
                 /\ ctx' = [ctx EXCEPT ![s] = IF CtxDone(s) THEN @ ELSE "canceled"]
           /\ UNCHANGED <<gone, http, out, accepted>>
<1>1. CASE AcquireGrant(s)
  BY <1>1 DEF AcquireGrant, At, openCodeVars, sessionVars
<1>2. CASE SubscribeEvents(s)
  BY <1>2 DEF SubscribeEvents, At, sessionVars
<1>3. CASE AwaitConnected(s)
  BY <1>3 DEF AwaitConnected, At, sessionVars
<1>4. CASE PromptAsync(s)
  BY <1>4 DEF PromptAsync, At, openCodeVars, sessionVars
<1>5. CASE UsageMissing(s)
  BY <1>5 DEF UsageMissing, At, openCodeVars, sessionVars
<1>6. CASE Touch(s)
  BY <1>6 DEF Touch, At, openCodeVars, sessionVars
<1>7. CASE Return(s)
  BY <1>7 DEF Return, At, sessionVars
<1> QED
  BY <1>1, <1>2, <1>3, <1>4, <1>5, <1>6, <1>7 DEF Quiet

(* OpenCode takes a prompt that was posted and takes none back. *)
LEMMA OpenCodeSteps ==
    ASSUME OpenCodeStep \/ \E p \in Prompts : AcceptPrompt(p)
    PROVE  /\ UNCHANGED handlerVars
           /\ \/ UNCHANGED accepted
              \/ \E p \in posted \cup Others : accepted' = accepted \cup {p}
BY DEF AcceptPrompt, Accept, OpenCodeStep, SessionStep, StartRun, EmitDelta, EndRun,
   Settle, PublishDiff, Greet, BreakFeed, sessionVars

LEMMA ShapeStep == Shape /\ [Next]_vars => Shape'
<1> SUFFICES ASSUME Shape, [Next]_vars
             PROVE  Shape'
  OBVIOUS
<1> USE DEF Shape, PCs, GoTo
<1>1. ASSUME NEW s \in Streams, Quiet(s)
      PROVE  Shape'
  <2>1. ctx' \in [Streams -> {"live", "deadline", "canceled"}]
    BY <1>1, QuietStep
  <2> QED
    BY <1>1, <2>1, QuietStep
<1>2. ASSUME NEW s \in Streams, Answering(s)
      PROVE  Shape'
  BY <1>2, AnsweringStep, Codes DEF Answer
<1>3. ASSUME NEW s \in Streams, Writing(s)
      PROVE  Shape'
  BY <1>3, WritingStep
<1>4. ASSUME NEW s \in Streams, Around(s)
      PROVE  Shape'
  BY <1>4 DEF Around, ClientGone, WatcherRelease
<1>5. ASSUME NEW s \in Streams, NEW why \in {"deadline", "canceled"}, CtxEnd(s, why)
      PROVE  Shape'
  BY <1>5 DEF CtxEnd
<1>6. CASE OpenCodeStep \/ \E p \in Prompts : AcceptPrompt(p)
  BY <1>6, OpenCodeSteps DEF handlerVars
<1>7. CASE UNCHANGED vars
  BY <1>7 DEF vars, handlerVars
<1> QED
  BY <1>1, <1>2, <1>3, <1>4, <1>5, <1>6, <1>7, NextSteps

LEMMA ShapeInvariance == Spec => []Shape
<1>1. Init => Shape
  BY DEF Init, Shape, PCs
<1> QED
  BY <1>1, ShapeStep, PTL DEF Spec

-----------------------------------------------------------------------------
(* How far a prompt has come, given the handler and its status. *)
PromptFacts(s) ==
    /\ s \in accepted => s \in posted
    /\ s \in posted => pc[s] \notin {"acquire", "subscribe", "connect", "prompt"}
    /\ http[s] = 409 => s \notin posted
    /\ http[s] \in Statuses => pc[s] \in {"return", "end"}
    /\ http[s] = 200 => s \in accepted

Prompted == \A s \in Streams : PromptFacts(s)

LEMMA PromptInvariance == Spec => []Prompted
<1> USE DEF Prompted
<1>1. Init => Prompted
  BY DEF Init, OpenCodeInit, PromptFacts, Statuses
<1>2. Shape /\ Prompted /\ [Next]_vars => Prompted'
  <2> SUFFICES ASSUME Shape, Prompted, [Next]_vars
               PROVE  Prompted'
    OBVIOUS
  <2> USE DEF Shape, PromptFacts, GoTo
  <2>1. ASSUME NEW s \in Streams, Quiet(s)
        PROVE  Prompted'
    BY <2>1, QuietStep
  <2>2. ASSUME NEW s \in Streams, Answering(s)
        PROVE  Prompted'
    BY <2>2, AnsweringStep, Codes DEF Answer
  <2>3. ASSUME NEW s \in Streams, Writing(s)
        PROVE  Prompted'
    BY <2>3, WritingStep
  <2>4. ASSUME NEW s \in Streams, Around(s)
        PROVE  Prompted'
    BY <2>4 DEF Around, ClientGone, WatcherRelease, openCodeVars, sessionVars
  <2>5. ASSUME NEW s \in Streams, NEW why \in {"deadline", "canceled"}, CtxEnd(s, why)
        PROVE  Prompted'
    BY <2>5 DEF CtxEnd, openCodeVars, sessionVars
  <2>6. CASE OpenCodeStep \/ \E p \in Prompts : AcceptPrompt(p)
    BY <2>6, OpenCodeSteps, OpenCodeAssumption DEF handlerVars, OpenCodeAssumption
  <2>7. CASE UNCHANGED vars
    BY <2>7 DEF vars, handlerVars, openCodeVars, sessionVars
  <2> QED
    BY <2>1, <2>2, <2>3, <2>4, <2>5, <2>6, <2>7, NextSteps
<1> QED
  BY <1>1, <1>2, ShapeInvariance, PTL DEF Spec

(* A client that was told 409, or any error before its prompt was posted,  *)
(* finds no trace of it in OpenCode, then or later, and one that was told  *)
(* 200 has its prompt there.                                               *)
StatusFacts(s) == /\ http[s] = 409 => s \notin posted
                  /\ http[s] = 200 => s \in accepted
                  /\ s \in accepted => s \in posted
StatusSteps(s) == http[s] \in Statuses /\ s \notin posted
                     => s \notin posted' /\ http'[s] = http[s]

LEMMA StatusStep == Shape /\ Prompted /\ [Next]_vars => \A s \in Streams : StatusSteps(s)
<1> SUFFICES ASSUME Shape, Prompted, [Next]_vars, NEW s \in Streams
             PROVE  StatusSteps(s)
  OBVIOUS
<1> USE DEF Shape, Prompted, PromptFacts, StatusSteps, GoTo
<1>1. ASSUME NEW t \in Streams, Quiet(t)
      PROVE  StatusSteps(s)
  BY <1>1, QuietStep
<1>2. ASSUME NEW t \in Streams, Answering(t)
      PROVE  StatusSteps(s)
  BY <1>2, AnsweringStep DEF Answer
<1>3. ASSUME NEW t \in Streams, Writing(t)
      PROVE  StatusSteps(s)
  BY <1>3, WritingStep
<1>4. ASSUME NEW t \in Streams, Around(t)
      PROVE  StatusSteps(s)
  BY <1>4 DEF Around, ClientGone, WatcherRelease
<1>5. ASSUME NEW t \in Streams, NEW why \in {"deadline", "canceled"}, CtxEnd(t, why)
      PROVE  StatusSteps(s)
  BY <1>5 DEF CtxEnd
<1>6. CASE OpenCodeStep \/ \E p \in Prompts : AcceptPrompt(p)
  BY <1>6, OpenCodeSteps DEF handlerVars
<1>7. CASE UNCHANGED vars
  BY <1>7 DEF vars, handlerVars
<1> QED
  BY <1>1, <1>2, <1>3, <1>4, <1>5, <1>6, <1>7, NextSteps

THEOREM StatusIsTrue == Spec => StatusTellsPrompt
<1>1. Prompted => \A s \in Streams : StatusFacts(s)
  BY DEF Prompted, PromptFacts, StatusFacts
<1>2. Spec => [](\A s \in Streams : StatusFacts(s))
  BY <1>1, PromptInvariance, PTL
<1>3. Spec => [][\A s \in Streams : StatusSteps(s)]_vars
  BY StatusStep, ShapeInvariance, PromptInvariance, PTL DEF Spec
<1> QED
  BY <1>2, <1>3, PTL DEF StatusTellsPrompt, StatusFacts, StatusSteps

-----------------------------------------------------------------------------
(* A key is leased once; a live handler behind the lock leases its key. *)
LeaseFacts ==
    /\ \A s, t \in lease : SessionOf[s] = SessionOf[t] => s = t
    /\ \A s \in Streams : pc[s] \notin {"acquire", "return", "end"} /\ ~CtxDone(s)
          => s \in lease

(* Of the streams of a session with a live context, one at most is behind  *)
(* the lock, although the watcher lets go of a key under a handler.        *)
THEOREM LiveHandlersExclusive == Spec => []LiveHandlersExclude
<1>1. Init => LeaseFacts
  BY DEF Init, LeaseFacts
<1>2. Shape /\ LeaseFacts /\ [Next]_vars => LeaseFacts'
  <2> SUFFICES ASSUME Shape, LeaseFacts, [Next]_vars
               PROVE  LeaseFacts'
    OBVIOUS
  <2> USE DEF Shape, LeaseFacts, GoTo, CtxDone
  <2>1. ASSUME NEW s \in Streams, Quiet(s)
        PROVE  LeaseFacts'
    BY <2>1, QuietStep DEF Held
  <2>2. ASSUME NEW s \in Streams, Answering(s)
        PROVE  LeaseFacts'
    BY <2>2, AnsweringStep DEF Answer
  <2>3. ASSUME NEW s \in Streams, Writing(s)
        PROVE  LeaseFacts'
    BY <2>3, WritingStep
  <2>4. ASSUME NEW s \in Streams, Around(s)
        PROVE  LeaseFacts'
    BY <2>4 DEF Around, ClientGone, WatcherRelease
  <2>5. ASSUME NEW s \in Streams, NEW why \in {"deadline", "canceled"}, CtxEnd(s, why)
        PROVE  LeaseFacts'
    BY <2>5 DEF CtxEnd
  <2>6. CASE OpenCodeStep \/ \E p \in Prompts : AcceptPrompt(p)
    BY <2>6, OpenCodeSteps DEF handlerVars
  <2>7. CASE UNCHANGED vars
    BY <2>7 DEF vars, handlerVars
  <2> QED
    BY <2>1, <2>2, <2>3, <2>4, <2>5, <2>6, <2>7, NextSteps
<1>3. LeaseFacts => LiveHandlersExclude
  BY DEF LeaseFacts, LiveHandlersExclude
<1> QED
  BY <1>1, <1>2, <1>3, ShapeInvariance, PTL DEF Spec

-----------------------------------------------------------------------------
IsSeq(q) == \E S : q \in Seq(S)

LEMMA AppendAny ==
    ASSUME NEW q, IsSeq(q), NEW e
    PROVE  /\ IsSeq(Append(q, e))
           /\ DOMAIN Append(q, e) = DOMAIN q \cup {Len(q) + 1}
           /\ \A i \in DOMAIN q : Append(q, e)[i] = q[i]
           /\ Append(q, e)[Len(q) + 1] = e
<1>1. PICK S : q \in Seq(S)
  BY DEF IsSeq
<1> DEFINE T == S \cup {e}
<1>2. q \in Seq(T) /\ e \in T
  BY <1>1
<1> HIDE DEF T
<1>3. Append(q, e) \in Seq(T)
  BY <1>2
<1>4. /\ DOMAIN Append(q, e) = DOMAIN q \cup {Len(q) + 1}
      /\ \A i \in DOMAIN q : Append(q, e)[i] = q[i]
      /\ Append(q, e)[Len(q) + 1] = e
  BY <1>2
<1> QED
  BY <1>3, <1>4 DEF IsSeq

LEMMA TailAny ==
    ASSUME NEW q, IsSeq(q), q # <<>>
    PROVE  /\ IsSeq(Tail(q))
           /\ \A i \in DOMAIN Tail(q) : \E j \in DOMAIN q : Tail(q)[i] = q[j]
           /\ Head(q) = q[1] /\ 1 \in DOMAIN q
<1>1. PICK S : q \in Seq(S)
  BY DEF IsSeq
<1>2. Tail(q) \in Seq(S)
  BY <1>1
<1>3. \A i \in DOMAIN Tail(q) : i + 1 \in DOMAIN q /\ Tail(q)[i] = q[i + 1]
  BY <1>1
<1> QED
  BY <1>1, <1>2, <1>3 DEF IsSeq

(* No delta that waits in a subscription is the text of a failed stream. *)
NotError(ev) == ev.type = "message.part.delta" => ev.text # ErrorText
InboxFacts == /\ inbox = [s \in Streams |-> inbox[s]]
              /\ \A s \in Streams : /\ IsSeq(inbox[s])
                                     /\ \A i \in DOMAIN inbox[s] : NotError(inbox[s][i])

LEMMA AppendKeeps ==
    ASSUME NEW q, IsSeq(q), \A i \in DOMAIN q : NotError(q[i]), NEW ev, NotError(ev)
    PROVE  IsSeq(Append(q, ev)) /\ \A i \in DOMAIN Append(q, ev) : NotError(Append(q, ev)[i])
<1>1. ASSUME NEW i \in DOMAIN Append(q, ev)
      PROVE  NotError(Append(q, ev)[i])
  <2>1. CASE i \in DOMAIN q
    BY <2>1, AppendAny
  <2>2. CASE i = Len(q) + 1
    BY <2>2, AppendAny
  <2> QED
    BY <2>1, <2>2, AppendAny
<1> QED
  BY <1>1, AppendAny

LEMMA TailKeeps ==
    ASSUME NEW q, IsSeq(q), q # <<>>, \A i \in DOMAIN q : NotError(q[i])
    PROVE  /\ IsSeq(Tail(q)) /\ \A i \in DOMAIN Tail(q) : NotError(Tail(q)[i])
           /\ NotError(Head(q))
<1>1. ASSUME NEW i \in DOMAIN Tail(q)
      PROVE  NotError(Tail(q)[i])
  <2>1. PICK j \in DOMAIN q : Tail(q)[i] = q[j]
    BY TailAny
  <2> QED
    BY <2>1
<1> QED
  BY <1>1, TailAny

LEMMA PublishKeeps ==
    ASSUME InboxFacts, NEW ev, NotError(ev), Publish(ev)
    PROVE  InboxFacts'
<1>1. inbox' = [s \in Streams |-> inbox'[s]]
  BY DEF Publish
<1>2. ASSUME NEW s \in Streams
      PROVE  /\ IsSeq(inbox'[s])
             /\ \A i \in DOMAIN inbox'[s] : NotError(inbox'[s][i])
  <2>1. CASE inbox'[s] = inbox[s]
    BY <2>1 DEF InboxFacts
  <2>2. CASE inbox'[s] = Append(inbox[s], ev)
    BY <2>2, AppendKeeps DEF InboxFacts
  <2> QED
    BY <2>1, <2>2 DEF Publish
<1> QED
  BY <1>1, <1>2 DEF InboxFacts

LEMMA ReadKeeps ==
    ASSUME InboxFacts, NEW s \in Streams, Read(s)
    PROVE  InboxFacts' /\ NotError(Head(inbox[s]))
<1>1. inbox' = [inbox EXCEPT ![s] = Tail(@)] /\ inbox[s] # <<>>
  BY DEF Read, HasNext
<1>2. /\ IsSeq(Tail(inbox[s]))
      /\ \A i \in DOMAIN Tail(inbox[s]) : NotError(Tail(inbox[s])[i])
      /\ NotError(Head(inbox[s]))
  BY <1>1, TailKeeps DEF InboxFacts
<1>3. inbox' = [t \in Streams |-> IF t = s THEN Tail(inbox[s]) ELSE inbox[t]]
  BY <1>1 DEF InboxFacts
<1> QED
  BY <1>2, <1>3 DEF InboxFacts

LEMMA EventsAreNotErrors ==
    /\ \A k : NotError(UserPart(k)) /\ NotError(IdleEvent(k)) /\ NotError(DiffEvent(k))
    /\ \A k, v : NotError(StatusEvent(k, v))
    /\ \A k, p, n : NotError(Delta(k, p, n))
    /\ NotError(Connected)
<1>1. ASSUME NEW p, NEW n
      PROVE  <<p, n>> # ErrorText
  <2>1. Len(<<p, n>>) = 2 /\ Len(ErrorText) = 1
    BY DEF ErrorText
  <2> QED
    BY <2>1
<1> QED
  BY <1>1 DEF NotError, UserPart, IdleEvent, DiffEvent, StatusEvent, Delta, Connected

LEMMA InboxStep == InboxFacts /\ [Next]_vars => InboxFacts'
<1> SUFFICES ASSUME InboxFacts, [Next]_vars
             PROVE  InboxFacts'
  OBVIOUS
<1>1. ASSUME NEW p \in Prompts, AcceptPrompt(p)
      PROVE  InboxFacts'
  BY <1>1, PublishKeeps, EventsAreNotErrors DEF AcceptPrompt, Accept
<1>2. CASE OpenCodeStep
  <2>1. ASSUME NEW k \in Keys, SessionStep(k)
        PROVE  InboxFacts'
    BY <2>1, PublishKeeps, EventsAreNotErrors
    DEF SessionStep, StartRun, EmitDelta, EndRun, Settle, PublishDiff
  <2>2. ASSUME NEW s \in Streams, Greet(s)
        PROVE  InboxFacts'
    <3>1. inbox' = [t \in Streams |-> IF t = s THEN Append(inbox[s], Connected)
                                     ELSE inbox[t]]
      BY <2>2 DEF Greet, InboxFacts
    <3>2. /\ IsSeq(Append(inbox[s], Connected))
          /\ \A i \in DOMAIN Append(inbox[s], Connected) :
                NotError(Append(inbox[s], Connected)[i])
      BY AppendKeeps, EventsAreNotErrors DEF InboxFacts
    <3> QED
      BY <3>1, <3>2 DEF InboxFacts
  <2>3. ASSUME NEW s \in Streams, BreakFeed(s)
        PROVE  InboxFacts'
    BY <2>3 DEF BreakFeed, InboxFacts
  <2> QED
    BY <1>2, <2>1, <2>2, <2>3 DEF OpenCodeStep
<1>3. ASSUME NEW s \in Streams, AwaitConnected(s) \/ StreamEvent(s)
      PROVE  InboxFacts'
  BY <1>3, ReadKeeps DEF AwaitConnected, StreamEvent
<1>4. ASSUME NEW s \in Streams, Return(s)
      PROVE  InboxFacts'
  <2>1. inbox' = [inbox EXCEPT ![s] = <<>>]
    BY <1>4 DEF Return, Close
  <2>2. <<>> \in Seq({}) /\ DOMAIN <<>> = {}
    OBVIOUS
  <2>3. IsSeq(<<>>)
    BY <2>2 DEF IsSeq
  <2> QED
    BY <2>1, <2>2, <2>3 DEF InboxFacts
<1>5. CASE UNCHANGED inbox
  BY <1>5 DEF InboxFacts
<1>6. ASSUME NEW s \in Streams, Quiet(s) \/ Answering(s) \/ Writing(s) \/ Around(s),
             ~AwaitConnected(s), ~StreamEvent(s), ~Return(s)
      PROVE  UNCHANGED inbox
  BY <1>6 DEF Quiet, Answering, Writing, Around, AcquireGrant, SubscribeEvents, Subscribe,
     PromptAsync, UsageMissing, Touch, AcquireFails, CallFails, ConnectFails,
     PromptAccepted, WriteRole, StreamFails, UsageFound, WriteDone, ClientGone,
     WatcherRelease, openCodeVars, feedVars
<1>7. ASSUME NEW s \in Streams, NEW why \in {"deadline", "canceled"}, CtxEnd(s, why)
      PROVE  UNCHANGED inbox
  BY <1>7 DEF CtxEnd, openCodeVars, feedVars
<1>8. UNCHANGED vars => UNCHANGED inbox
  BY DEF vars, openCodeVars, feedVars
<1> QED
  BY <1>1, <1>2, <1>3, <1>4, <1>5, <1>6, <1>7, <1>8, NextSteps

-----------------------------------------------------------------------------
(* What a mapper shows is the text of a delta, or a label. *)
LEMMA ShownText ==
    ASSUME NEW m, NEW ev, NotError(ev),
           Handle(m, ev).action.kind \in {"assistant_text_delta", "safe_progress_markdown"}
    PROVE  Handle(m, ev).action.text # ErrorText
<1>1. ASSUME NEW label \in ProgressLabels,
             HandleProgress(m, label).action.kind # "ignore"
      PROVE  HandleProgress(m, label).action.text # ErrorText
  BY <1>1 DEF HandleProgress, Ignore, Action, ErrorText, ProgressLabels
<1>2. /\ PartLabel(ev) \in ProgressLabels /\ "diff" \in ProgressLabels
  BY DEF PartLabel, ProgressLabels
<1>3. HandleDiff(m).action \in {Ignore(m).action, HandleProgress(m, "diff").action}
  <2>1. HandleProgress(m, "diff").action =
           [HandleProgress(m, "diff") EXCEPT !.mapper.diffProgress = TRUE].action
    BY DEF HandleProgress, Ignore
  <2> QED
    BY <2>1 DEF HandleDiff
<1>4. Ignore(m).action.kind = "ignore"
  BY DEF Ignore, Action
<1>5. \A status : HandleStatus(m, status).action.kind \in {"ignore", "complete"}
  BY DEF HandleStatus, Ignore, Action
<1>6. CASE Handle(m, ev) = HandleTarget(m, ev)
  <2>1. CASE ev.type = "message.part.delta"
    <3>1. Handle(m, ev) = HandleDelta(m, ev)
      BY <1>6, <2>1 DEF HandleTarget
    <3> QED
      BY <2>1, <3>1, <1>4 DEF HandleDelta, Action, NotError
  <2>2. CASE ev.type = "message.part.updated"
    BY <1>6, <2>2, <1>1, <1>2, <1>4 DEF HandleTarget
  <2>3. CASE ev.type = "session.diff"
    BY <1>6, <2>3, <1>1, <1>2, <1>3, <1>4 DEF HandleTarget
  <2>4. CASE ev.type \notin {"message.part.delta", "message.part.updated", "session.diff"}
    BY <1>6, <2>4, <1>4, <1>5 DEF HandleTarget
  <2> QED
    BY <2>1, <2>2, <2>3, <2>4
<1>7. CASE Handle(m, ev).action.kind \in {"connected", "ignore"}
  BY <1>7
<1> QED
  BY <1>4, <1>6, <1>7 DEF Handle, Action

(* A write appends one chunk, or the handler returns. *)
Appends(s, chunk, place) ==
    out' = [out EXCEPT ![s] = Append(@, chunk)] /\ GoTo(s, place)
LEMMA WritingChunk ==
    ASSUME InboxFacts, NEW s \in Streams, Writing(s)
    PROVE  \/ GoTo(s, "return") /\ (UNCHANGED out \/ StreamFails(s))
           \/ UNCHANGED <<pc, out>>
           \/ pc[s] = "role" /\ Appends(s, Chunk("role", <<>>), "stream")
           \/ /\ pc[s] = "stream"
              /\ \E text : text # ErrorText /\ Appends(s, Chunk("text", text), "stream")
           \/ /\ pc[s] = "stream"
              /\ \E place \in {"usage", "done"} : Appends(s, Chunk("stop", <<>>), place)
           \/ /\ pc[s] = "usage"
              /\ \E text : Appends(s, Chunk("usage", text), "done")
           \/ pc[s] = "done" /\ Appends(s, Chunk("done", <<>>), "touch")
<1>1. CASE WriteRole(s)
  BY <1>1 DEF WriteRole, WriteThen, At, Appends
<1>2. CASE StreamEvent(s)
  <2>1. ActionOn(s).kind \in {"assistant_text_delta", "safe_progress_markdown"}
           => ActionOn(s).text # ErrorText
    BY <1>2, ReadKeeps, ShownText DEF StreamEvent, ActionOn
  <2>2. pc[s] = "stream"
    BY <1>2 DEF StreamEvent, At
  <2>3. CASE ActionOn(s).kind \in {"assistant_text_delta", "safe_progress_markdown"}
    <3>1. WriteThen(s, Chunk("text", ActionOn(s).text), "stream")
      BY <1>2, <2>3 DEF StreamEvent, At
    <3> QED
      BY <2>1, <2>2, <2>3, <3>1 DEF WriteThen, Appends
  <2>4. CASE ActionOn(s).kind = "complete"
    <3>1. \E place \in {"usage", "done"} : WriteThen(s, Chunk("stop", <<>>), place)
      BY <1>2, <2>4 DEF StreamEvent
    <3> QED
      BY <2>2, <3>1 DEF WriteThen, Appends
  <2>5. CASE ActionOn(s).kind \notin {"assistant_text_delta", "safe_progress_markdown",
                                     "complete"}
    BY <1>2, <2>5 DEF StreamEvent
  <2> QED
    BY <2>3, <2>4, <2>5
<1>3. CASE StreamFails(s)
  BY <1>3 DEF StreamFails
<1>4. CASE UsageFound(s)
  BY <1>4 DEF UsageFound, WriteThen, At, Appends
<1>5. CASE WriteDone(s)
  BY <1>5 DEF WriteDone, WriteThen, At, Appends
<1> QED
  BY <1>1, <1>2, <1>3, <1>4, <1>5 DEF Writing

(* What has gone out to the client, given the handler. *)
WrittenFacts(s) ==
    /\ pc[s] \in {"role", "stream", "usage", "done"} => IsSeq(out[s])
    /\ pc[s] \in {"acquire", "subscribe", "connect", "prompt", "posting", "role"}
          => out[s] = <<>>
    /\ pc[s] \in {"stream", "usage", "done", "touch"} => ~ToldError(s)
    /\ pc[s] \in {"usage", "done", "touch"} => HasChunk(s, "stop")
    /\ pc[s] = "touch" => HasChunk(s, "done")
    /\ s \in touched => /\ pc[s] \in {"return", "end"}
                        /\ Completed(s) /\ HasChunk(s, "done")

LEMMA WrittenSame ==
    ASSUME NEW s \in Streams, WrittenFacts(s), out'[s] = out[s], pc'[s] = pc[s],
           s \in touched' <=> s \in touched
    PROVE  WrittenFacts(s)'
BY DEF WrittenFacts, ToldError, HasChunk, Completed

LEMMA WritingKeeps ==
    ASSUME Shape, InboxFacts, NEW s \in Streams, WrittenFacts(s), Writing(s)
    PROVE  WrittenFacts(s)'
<1> DEFINE kept(e) == /\ IsSeq(out'[s])
                      /\ DOMAIN out'[s] = DOMAIN out[s] \cup {Len(out[s]) + 1}
                      /\ \A i \in DOMAIN out[s] : out'[s][i] = out[s][i]
                      /\ out'[s][Len(out[s]) + 1] = e
<1>1. s \notin touched /\ s \notin touched' /\ IsSeq(out[s])
  BY WritingStep DEF WrittenFacts
<1>2. ASSUME NEW e, NEW place, Appends(s, e, place)
      PROVE  kept(e) /\ pc'[s] = place
  <2>1. out'[s] = Append(out[s], e) /\ pc'[s] = place
    BY <1>2 DEF Appends, GoTo, Shape
  <2> QED
    BY <1>1, <2>1, AppendAny
<1> HIDE DEF kept
<1>3. CASE GoTo(s, "return")
  <2>1. pc'[s] = "return"
    BY <1>3 DEF GoTo, Shape
  <2> QED
    BY <2>1, <1>1 DEF WrittenFacts
<1>4. CASE UNCHANGED <<pc, out>>
  BY <1>4, <1>1, WrittenSame
<1>5. CASE pc[s] = "role" /\ Appends(s, Chunk("role", <<>>), "stream")
  <2>1. kept(Chunk("role", <<>>)) /\ pc'[s] = "stream"
    BY <1>5, <1>2
  <2>2. DOMAIN out[s] = {}
    BY <1>5 DEF WrittenFacts
  <2>3. Chunk("role", <<>>) # Chunk("text", ErrorText)
    BY DEF Chunk
  <2> QED
    BY <2>1, <2>2, <2>3, <1>1 DEF kept, WrittenFacts, ToldError
<1>6. ASSUME NEW text, text # ErrorText, pc[s] = "stream",
             Appends(s, Chunk("text", text), "stream")
      PROVE  WrittenFacts(s)'
  <2>1. kept(Chunk("text", text)) /\ pc'[s] = "stream"
    BY <1>6, <1>2
  <2>2. Chunk("text", text) # Chunk("text", ErrorText)
    BY <1>6 DEF Chunk
  <2> QED
    BY <1>6, <2>1, <2>2, <1>1 DEF kept, WrittenFacts, ToldError
<1>7. ASSUME NEW place \in {"usage", "done"}, pc[s] = "stream",
             Appends(s, Chunk("stop", <<>>), place)
      PROVE  WrittenFacts(s)'
  <2>1. kept(Chunk("stop", <<>>)) /\ pc'[s] = place
    BY <1>7, <1>2
  <2>2. Chunk("stop", <<>>) # Chunk("text", ErrorText) /\ Chunk("stop", <<>>).kind = "stop"
    BY DEF Chunk
  <2> QED
    BY <1>7, <2>1, <2>2, <1>1 DEF kept, WrittenFacts, ToldError, HasChunk
<1>8. ASSUME NEW text, pc[s] = "usage", Appends(s, Chunk("usage", text), "done")
      PROVE  WrittenFacts(s)'
  <2>1. kept(Chunk("usage", text)) /\ pc'[s] = "done"
    BY <1>8, <1>2
  <2>2. Chunk("usage", text) # Chunk("text", ErrorText)
    BY DEF Chunk
  <2> QED
    BY <1>8, <2>1, <2>2, <1>1 DEF kept, WrittenFacts, ToldError, HasChunk
<1>9. CASE pc[s] = "done" /\ Appends(s, Chunk("done", <<>>), "touch")
  <2>1. kept(Chunk("done", <<>>)) /\ pc'[s] = "touch"
    BY <1>9, <1>2
  <2>2. Chunk("done", <<>>) # Chunk("text", ErrorText) /\ Chunk("done", <<>>).kind = "done"
    BY DEF Chunk
  <2> QED
    BY <1>9, <2>1, <2>2, <1>1 DEF kept, WrittenFacts, ToldError, HasChunk
<1> QED
  BY <1>3, <1>4, <1>5, <1>6, <1>7, <1>8, <1>9, WritingChunk

Facts == \A s \in Streams : WrittenFacts(s)

LEMMA WrittenInvariance == Spec => [](Shape /\ InboxFacts /\ Facts)
<1> USE DEF Facts
<1>1. Init => InboxFacts /\ Facts
  <2>1. <<>> \in Seq({}) /\ DOMAIN <<>> = {}
    OBVIOUS
  <2>2. IsSeq(<<>>)
    BY <2>1 DEF IsSeq
  <2> QED
    BY <2>1, <2>2 DEF Init, OpenCodeInit, InboxFacts, WrittenFacts
<1>2. Shape /\ InboxFacts /\ Facts /\ [Next]_vars => Facts'
  <2> SUFFICES ASSUME Shape, InboxFacts, Facts, [Next]_vars, NEW t \in Streams
               PROVE  WrittenFacts(t)'
    OBVIOUS
  <2>1. ASSUME NEW s \in Streams, Quiet(s)
        PROVE  WrittenFacts(t)'
    <3>1. CASE s # t
      <4>1. /\ out'[t] = out[t] /\ pc'[t] = pc[t] /\ (t \in touched' <=> t \in touched)
        BY <2>1, <3>1, QuietStep DEF GoTo, Shape
      <4> QED
        BY <4>1, WrittenSame
    <3>2. CASE s = t
      BY <2>1, <3>2, QuietStep
      DEF GoTo, Shape, WrittenFacts, ToldError, HasChunk, Completed
    <3> QED
      BY <3>1, <3>2
  <2>2. ASSUME NEW s \in Streams, Answering(s)
        PROVE  WrittenFacts(t)'
    <3>1. CASE s # t
      <4>1. /\ out'[t] = out[t] /\ pc'[t] = pc[t] /\ (t \in touched' <=> t \in touched)
        BY <2>2, <3>1, AnsweringStep DEF Answer, GoTo, Shape
      <4> QED
        BY <4>1, WrittenSame
    <3>2. CASE s = t
      <4>1. /\ out'[t] = out[t] /\ touched' = touched /\ t \notin touched
            /\ out[t] = <<>> /\ pc'[t] \in {"return", "role"}
        BY <2>2, <3>2, AnsweringStep DEF Answer, GoTo, Shape, WrittenFacts
      <4>2. <<>> \in Seq({})
        OBVIOUS
      <4>3. IsSeq(<<>>)
        BY <4>2 DEF IsSeq
      <4> QED
        BY <4>1, <4>3 DEF WrittenFacts
    <3> QED
      BY <3>1, <3>2
  <2>3. ASSUME NEW s \in Streams, Writing(s)
        PROVE  WrittenFacts(t)'
    <3>1. CASE s # t
      <4>1. /\ out'[t] = out[t] /\ pc'[t] = pc[t] /\ (t \in touched' <=> t \in touched)
        BY <2>3, <3>1, WritingStep DEF GoTo, Shape
      <4> QED
        BY <4>1, WrittenSame
    <3>2. CASE s = t
      BY <2>3, <3>2, WritingKeeps
    <3> QED
      BY <3>1, <3>2
  <2>4. ASSUME NEW s \in Streams, Around(s)
        PROVE  WrittenFacts(t)'
    BY <2>4, WrittenSame DEF Around, ClientGone, WatcherRelease
  <2>5. ASSUME NEW s \in Streams, NEW why \in {"deadline", "canceled"}, CtxEnd(s, why)
        PROVE  WrittenFacts(t)'
    BY <2>5, WrittenSame DEF CtxEnd
  <2>6. CASE OpenCodeStep \/ \E p \in Prompts : AcceptPrompt(p)
    BY <2>6, OpenCodeSteps, WrittenSame DEF handlerVars
  <2>7. CASE UNCHANGED vars
    BY <2>7, WrittenSame DEF vars, handlerVars
  <2> QED
    BY <2>1, <2>2, <2>3, <2>4, <2>5, <2>6, <2>7, NextSteps
<1> QED
  BY <1>1, <1>2, InboxStep, ShapeInvariance, PTL DEF Spec

(* The ledger row is refreshed only by a stream that told its client that  *)
(* the answer is complete.                                                 *)
THEOREM TouchedIsAlwaysDone == Spec => []TouchedIsDone
<1>1. Shape /\ Facts => TouchedIsDone
  <2> SUFFICES ASSUME Shape, Facts, NEW s \in touched
               PROVE  Completed(s) /\ HasChunk(s, "done")
    BY DEF TouchedIsDone
  <2>1. s \in Streams
    BY DEF Shape
  <2> QED
    BY <2>1 DEF Facts, WrittenFacts
<1> QED
  BY <1>1, WrittenInvariance, PTL

-----------------------------------------------------------------------------
KindsOf(q) == [i \in DOMAIN q |-> q[i].kind]
Kind(q) == q[Len(q)].kind

LEMMA KindsOfSeq ==
    ASSUME NEW q, IsSeq(q)
    PROVE  /\ IsSeq(KindsOf(q)) /\ Len(KindsOf(q)) = Len(q) /\ Len(q) \in Nat
           /\ DOMAIN KindsOf(q) = 1..Len(q) /\ DOMAIN q = 1..Len(q)
           /\ \A i \in 1..Len(q) : KindsOf(q)[i] = q[i].kind
<1>1. PICK S : q \in Seq(S)
  BY DEF IsSeq
<1> DEFINE T == {e.kind : e \in S}
<1>2. DOMAIN q = 1..Len(q) /\ Len(q) \in Nat
  BY <1>1
<1>3. \A i \in 1..Len(q) : q[i].kind \in T
  BY <1>1
<1>4. KindsOf(q) \in [1..Len(q) -> T]
  BY <1>2, <1>3 DEF KindsOf
<1> HIDE DEF T
<1>5. KindsOf(q) \in Seq(T)
  BY <1>2, <1>4, SeqDef
<1>6. Len(KindsOf(q)) = Len(q)
  BY <1>2, <1>4, <1>5
<1> QED
  BY <1>2, <1>5, <1>6 DEF KindsOf, IsSeq

(* What is sent after what: the last chunk, given the handler. *)
FormatFacts(s) ==
    /\ pc[s] \in {"acquire", "subscribe", "connect", "prompt", "posting"} => http[s] = 0
    /\ pc[s] \in {"role", "stream", "usage", "done"} => http[s] = 200
    /\ pc[s] \in {"stream", "usage", "done"} => out[s] # <<>>
    /\ pc[s] = "stream" => Kind(out[s]) \in {"role", "text"}
    /\ pc[s] = "usage" => Kind(out[s]) = "stop"
    /\ pc[s] = "done" => Kind(out[s]) \in {"stop", "usage"}
Formatted == \A s \in Streams : FormatFacts(s)

LEMMA FormatSame ==
    ASSUME NEW s \in Streams, FormatFacts(s),
           out'[s] = out[s], pc'[s] = pc[s], http'[s] = http[s]
    PROVE  FormatFacts(s)'
BY DEF FormatFacts

LEMMA AppendKind ==
    ASSUME NEW q, IsSeq(q), NEW e
    PROVE  Append(q, e) # <<>> /\ Kind(Append(q, e)) = e.kind
<1>1. PICK S : q \in Seq(S)
  BY DEF IsSeq
<1> DEFINE T == S \cup {e}
<1>2. q \in Seq(T) /\ e \in T
  BY <1>1
<1> HIDE DEF T
<1>3. Len(Append(q, e)) = Len(q) + 1 /\ Append(q, e)[Len(q) + 1] = e /\ Len(q) \in Nat
  BY <1>2
<1>4. Append(q, e) # <<>>
  BY <1>3, EmptySeq
<1> QED
  BY <1>3, <1>4 DEF Kind

LEMMA FormatStep == Shape /\ InboxFacts /\ Facts /\ Formatted /\ [Next]_vars => Formatted'
<1> SUFFICES ASSUME Shape, InboxFacts, Facts, Formatted, [Next]_vars, NEW t \in Streams
             PROVE  FormatFacts(t)'
  BY DEF Formatted
<1>0. FormatFacts(t) /\ WrittenFacts(t)
  BY DEF Formatted, Facts
<1>1. ASSUME NEW s \in Streams, Quiet(s)
      PROVE  FormatFacts(t)'
  <2>1. CASE s # t
    <3>1. out'[t] = out[t] /\ pc'[t] = pc[t] /\ http'[t] = http[t]
      BY <1>1, <2>1, QuietStep DEF GoTo, Shape
    <3> QED
      BY <3>1, <1>0, FormatSame
  <2>2. CASE s = t
    <3>1. /\ out'[t] = out[t] /\ http'[t] = http[t]
          /\ \/ /\ pc[t] \in {"acquire", "subscribe", "connect", "prompt"}
                /\ pc'[t] \in {"subscribe", "connect", "prompt", "posting"}
             \/ pc[t] = "usage" /\ pc'[t] = "done"
             \/ pc'[t] \in {"return", "end"}
      BY <1>1, <2>2, QuietStep DEF GoTo, Shape
    <3> QED
      BY <3>1, <1>0 DEF FormatFacts
  <2> QED
    BY <2>1, <2>2
<1>2. ASSUME NEW s \in Streams, Answering(s)
      PROVE  FormatFacts(t)'
  <2>1. CASE s # t
    <3>1. out'[t] = out[t] /\ pc'[t] = pc[t] /\ http'[t] = http[t]
      BY <1>2, <2>1, AnsweringStep DEF Answer, GoTo, Shape
    <3> QED
      BY <3>1, <1>0, FormatSame
  <2>2. CASE s = t
    <3>1. pc'[t] = "return" \/ (pc'[t] = "role" /\ http'[t] = 200)
      BY <1>2, <2>2, AnsweringStep DEF Answer, GoTo, Shape
    <3> QED
      BY <3>1 DEF FormatFacts
  <2> QED
    BY <2>1, <2>2
<1>3. ASSUME NEW s \in Streams, Writing(s)
      PROVE  FormatFacts(t)'
  <2>1. CASE s # t
    <3>1. out'[t] = out[t] /\ pc'[t] = pc[t] /\ http'[t] = http[t]
      BY <1>3, <2>1, WritingStep DEF GoTo, Shape
    <3> QED
      BY <3>1, <1>0, FormatSame
  <2>2. CASE s = t
    <3>1. http' = http /\ http[t] = 200 /\ IsSeq(out[t])
      BY <1>3, <2>2, <1>0, WritingStep DEF FormatFacts, WrittenFacts
    <3>2. ASSUME NEW e, NEW place, Appends(t, e, place)
          PROVE  pc'[t] = place /\ out'[t] # <<>> /\ Kind(out'[t]) = e.kind
      <4>1. pc'[t] = place /\ out'[t] = Append(out[t], e)
        BY <3>2 DEF Appends, GoTo, Shape
      <4> QED
        BY <3>1, <4>1, AppendKind
    <3>3. \A kind, text : Chunk(kind, text).kind = kind
      BY DEF Chunk
    <3>4. GoTo(t, "return") => pc'[t] = "return"
      BY DEF GoTo, Shape
    <3>5. \/ pc'[t] = "return"
          \/ UNCHANGED <<pc, out>>
          \/ /\ pc'[t] = "stream" /\ out'[t] # <<>> /\ Kind(out'[t]) \in {"role", "text"}
          \/ /\ pc'[t] \in {"usage", "done"} /\ out'[t] # <<>> /\ Kind(out'[t]) = "stop"
          \/ /\ pc'[t] = "done" /\ out'[t] # <<>> /\ Kind(out'[t]) = "usage"
          \/ pc'[t] = "touch"
      BY <1>3, <2>2, <3>2, <3>3, <3>4, WritingChunk
    <3> QED
      BY <3>1, <3>5, <1>0 DEF FormatFacts
  <2> QED
    BY <2>1, <2>2
<1>4. ASSUME NEW s \in Streams, Around(s)
      PROVE  FormatFacts(t)'
  BY <1>4, <1>0, FormatSame DEF Around, ClientGone, WatcherRelease
<1>5. ASSUME NEW s \in Streams, NEW why \in {"deadline", "canceled"}, CtxEnd(s, why)
      PROVE  FormatFacts(t)'
  BY <1>5, <1>0, FormatSame DEF CtxEnd
<1>6. CASE OpenCodeStep \/ \E p \in Prompts : AcceptPrompt(p)
  BY <1>6, <1>0, OpenCodeSteps, FormatSame DEF handlerVars
<1>7. CASE UNCHANGED vars
  BY <1>7, <1>0, FormatSame DEF vars, handlerVars
<1> QED
  BY <1>1, <1>2, <1>3, <1>4, <1>5, <1>6, <1>7, NextSteps

(* A chunk follows the one before it. *)
Follows(q, i) == IF i = 1 THEN q[i].kind = "role"
                 ELSE q[i].kind \in Wire!Followers[q[i - 1].kind]

LEMMA FollowersOf ==
    /\ Wire!Followers["role"] = {"text", "stop"} /\ Wire!Followers["text"] = {"text", "stop"}
    /\ Wire!Followers["stop"] = {"usage", "done"} /\ Wire!Followers["usage"] = {"done"}
BY DEF Wire!Followers

LEMMA FollowsOnWire ==
    ASSUME NEW q, IsSeq(q), NEW i \in 1..Len(q), Follows(q, i)
    PROVE  Wire!MayFollow(SubSeq(KindsOf(q), 1, i - 1), KindsOf(q)[i])
<1> DEFINE k == KindsOf(q)
<1>1. /\ IsSeq(k) /\ Len(k) = Len(q) /\ Len(q) \in Nat
      /\ \A j \in 1..Len(q) : k[j] = q[j].kind
  BY KindsOfSeq
<1>2. PICK S : k \in Seq(S)
  BY <1>1 DEF IsSeq
<1> HIDE DEF k
<1>3. /\ SubSeq(k, 1, i - 1) \in Seq(S) /\ Len(SubSeq(k, 1, i - 1)) = i - 1
      /\ \A j \in 1..(i - 1) : SubSeq(k, 1, i - 1)[j] = k[j]
  BY <1>1, <1>2
<1>4. k[i] = q[i].kind
  BY <1>1
<1>5. CASE i = 1
  <2>1. SubSeq(k, 1, i - 1) = <<>>
    BY <1>3, <1>5, EmptySeq
  <2>2. k[i] = "role"
    BY <1>4, <1>5 DEF Follows
  <2> QED
    BY <2>1, <2>2 DEF Wire!MayFollow, k
<1>6. CASE i # 1
  <2>1. SubSeq(k, 1, i - 1) # <<>>
    BY <1>1, <1>3, <1>6, EmptySeq
  <2>2. /\ i - 1 \in 1..(i - 1) /\ i - 1 \in 1..Len(q)
    BY <1>1, <1>6
  <2>3. SubSeq(k, 1, i - 1)[Len(SubSeq(k, 1, i - 1))] = q[i - 1].kind
    BY <1>1, <1>3, <2>2
  <2>4. k[i] \in Wire!Followers[q[i - 1].kind]
    BY <1>4, <1>6 DEF Follows
  <2> QED
    BY <2>1, <2>3, <2>4 DEF Wire!MayFollow, k
<1> QED
  BY <1>5, <1>6

(* More chunks to one client, each after one it may follow, is a Send. *)
LEMMA SendOnWire ==
    ASSUME NEW s \in Streams, NEW q, IsSeq(out[s]), IsSeq(q),
           out' = [out EXCEPT ![s] = q], Shape, UNCHANGED http, http[s] = 200,
           Len(out[s]) < Len(q),
           \A i \in 1..Len(out[s]) : q[i] = out[s][i],
           \A i \in (Len(out[s]) + 1)..Len(q) : Follows(q, i)
    PROVE  Wire!Send(s)
<1> DEFINE W == [c \in Streams |-> KindsOf(out[c])]
           V == [c \in Streams |-> KindsOf(out'[c])]
<1>1. out'[s] = q /\ \A c \in Streams \ {s} : out'[c] = out[c]
  BY DEF Shape
<1>2. W[s] = KindsOf(out[s]) /\ V[s] = KindsOf(q) /\ \A c \in Streams \ {s} : V[c] = W[c]
  BY <1>1
<1>3. /\ Len(W[s]) = Len(out[s]) /\ Len(out[s]) \in Nat
      /\ \A i \in 1..Len(out[s]) : W[s][i] = out[s][i].kind
  BY <1>2, KindsOfSeq
<1>4. /\ Len(V[s]) = Len(q) /\ Len(q) \in Nat
      /\ \A i \in 1..Len(q) : V[s][i] = q[i].kind
  BY <1>2, KindsOfSeq
<1>5. V[s] # W[s]
  BY <1>3, <1>4
<1>6. \A i \in 1..Len(W[s]) : V[s][i] = W[s][i]
  BY <1>3, <1>4
<1>7. \A i \in (Len(W[s]) + 1)..Len(V[s]) :
         Wire!MayFollow(SubSeq(V[s], 1, i - 1), V[s][i])
  <2> SUFFICES ASSUME NEW i \in (Len(out[s]) + 1)..Len(q)
               PROVE  Wire!MayFollow(SubSeq(KindsOf(q), 1, i - 1), KindsOf(q)[i])
    BY <1>2, <1>3, <1>4
  <2>1. i \in 1..Len(q)
    BY <1>3, <1>4
  <2> QED
    BY <2>1, FollowsOnWire
<1> QED
  BY <1>2, <1>5, <1>6, <1>7 DEF Wire!Send, KindsOut, KindsOf

LEMMA AppendOnWire ==
    ASSUME NEW s \in Streams, Shape, IsSeq(out[s]), http[s] = 200, UNCHANGED http,
           NEW e, out' = [out EXCEPT ![s] = Append(@, e)],
           out[s] = <<>> => e.kind = "role",
           out[s] # <<>> => e.kind \in Wire!Followers[Kind(out[s])]
    PROVE  Wire!Send(s)
<1> DEFINE o == out[s]
           q == Append(o, e)
<1>1. PICK S : o \in Seq(S)
  BY DEF IsSeq
<1>2. o = <<>> <=> Len(o) = 0
  BY <1>1, EmptySeq
<1>3. IsSeq(q) /\ Len(o) \in Nat /\ DOMAIN o = 1..Len(o)
  BY <1>1, AppendAny
<1>4. /\ \A i \in 1..Len(o) : q[i] = o[i]
      /\ q[Len(o) + 1] = e
  BY <1>3, AppendAny
<1>5. Len(q) = Len(o) + 1
  BY <1>3, AppendAny, KindsOfSeq
<1>6. Follows(q, Len(o) + 1)
  <2>1. CASE Len(o) = 0
    BY <1>2, <1>4, <2>1 DEF Follows
  <2>2. CASE Len(o) # 0
    <3>1. Len(o) + 1 # 1 /\ (Len(o) + 1) - 1 = Len(o) /\ Len(o) \in 1..Len(o)
      BY <1>3, <2>2
    <3>2. q[Len(o)].kind = Kind(o)
      BY <1>4, <3>1 DEF Kind
    <3> QED
      BY <1>2, <1>4, <2>2, <3>1, <3>2 DEF Follows
  <2> QED
    BY <2>1, <2>2
<1> HIDE DEF q
<1>7. out' = [out EXCEPT ![s] = q]
  BY DEF q
<1>8. \A i \in (Len(o) + 1)..Len(q) : Follows(q, i)
  <2>1. \A i \in (Len(o) + 1)..Len(q) : i = Len(o) + 1
    BY <1>3, <1>5
  <2> QED
    BY <1>6, <2>1
<1>9. Len(o) < Len(q) /\ \A i \in 1..Len(o) : q[i] = o[i]
  BY <1>3, <1>4, <1>5
<1> QED
  BY <1>3, <1>7, <1>8, <1>9, SendOnWire

LEMMA ErrorKinds ==
    /\ Len(ErrorTail) = 3 /\ ErrorTail \in Seq({Chunk("text", ErrorText), Chunk("stop", <<>>),
                                                Chunk("done", <<>>)})
    /\ ErrorTail[1].kind = "text" /\ ErrorTail[2].kind = "stop" /\ ErrorTail[3].kind = "done"
<1>1. \A text : /\ Chunk("text", text).kind = "text" /\ Chunk("stop", text).kind = "stop"
                /\ Chunk("done", text).kind = "done"
  BY DEF Chunk
<1> QED
  BY <1>1 DEF ErrorTail

(* ErrorTail goes on where a role or text has been sent. *)
LEMMA TailFollows ==
    ASSUME NEW q, NEW m \in Nat \ {0}, NEW n \in 0..3, Len(q) = m + n,
           q[m].kind \in {"role", "text"}, \A k \in 1..n : q[m + k] = ErrorTail[k]
    PROVE  \A i \in (m + 1)..Len(q) : Follows(q, i)
<1>1. ASSUME NEW k \in 1..n
      PROVE  q[m + k].kind \in Wire!Followers[q[(m + k) - 1].kind]
  <2>1. q[m + k] = ErrorTail[k]
    OBVIOUS
  <2>2. CASE k = 1
    <3>1. q[m + k].kind = "text"
      BY <2>1, <2>2, ErrorKinds
    <3>2. (m + k) - 1 = m
      BY <2>2
    <3>3. CASE q[m].kind = "role"
      BY <3>1, <3>2, <3>3, FollowersOf
    <3>4. CASE q[m].kind = "text"
      BY <3>1, <3>2, <3>4, FollowersOf
    <3> QED
      BY <3>3, <3>4
  <2>3. CASE k # 1
    <3>1. k - 1 \in 1..n /\ (m + k) - 1 = m + (k - 1) /\ k \in {2, 3}
      BY <2>3
    <3>2. q[(m + k) - 1] = ErrorTail[k - 1]
      BY <3>1
    <3>3. CASE k = 2
      <4>1. k - 1 = 1
        BY <3>3
      <4>2. q[(m + k) - 1].kind = "text" /\ q[m + k].kind = "stop"
        BY <2>1, <3>2, <3>3, <4>1, ErrorKinds
      <4> QED
        BY <4>2, FollowersOf
    <3>4. CASE k = 3
      <4>1. k - 1 = 2
        BY <3>4
      <4>2. q[(m + k) - 1].kind = "stop" /\ q[m + k].kind = "done"
        BY <2>1, <3>2, <3>4, <4>1, ErrorKinds
      <4> QED
        BY <4>2, FollowersOf
    <3> QED
      BY <3>1, <3>3, <3>4
  <2> QED
    BY <2>2, <2>3
<1>2. ASSUME NEW k \in 1..n
      PROVE  Follows(q, m + k)
  <2>1. m + k # 1
    OBVIOUS
  <2> QED
    BY <1>1, <2>1, Zenon DEF Follows
<1> SUFFICES ASSUME NEW i \in (m + 1)..Len(q)
             PROVE  Follows(q, i)
  OBVIOUS
<1>3. i - m \in 1..n /\ m + (i - m) = i
  OBVIOUS
<1>4. Follows(q, m + (i - m))
  BY <1>2, <1>3, Zenon
<1> QED
  BY <1>3, <1>4, Zenon

(* What a stream that fails sends: the first n chunks of ErrorTail. *)
LEMMA FailWrites ==
    ASSUME NEW s \in Streams, IsSeq(out[s]), StreamFails(s)
    PROVE  \E n, q :
              /\ n \in 0..3
              /\ IsSeq(q) /\ out' = [out EXCEPT ![s] = q]
              /\ Len(out[s]) \in Nat /\ Len(q) = Len(out[s]) + n
              /\ \A i \in 1..Len(out[s]) : q[i] = out[s][i]
              /\ \A k \in 1..n : q[Len(out[s]) + k] = ErrorTail[k]
              /\ n = 0 => q = out[s]
<1> DEFINE o == out[s]
<1>1. PICK n \in 0..3 : out' = [out EXCEPT ![s] = @ \o SubSeq(ErrorTail, 1, n)]
  <2>1. PICK m \in (IF s \in gone THEN 0..3 ELSE {3}) :
           out' = [out EXCEPT ![s] = @ \o SubSeq(ErrorTail, 1, m)]
    BY Zenon DEF StreamFails
  <2>2. m \in 0..3
    OBVIOUS
  <2> QED
    BY <2>1, <2>2, Zenon
<1> DEFINE x == SubSeq(ErrorTail, 1, n)
           q == o \o x
<1>2. PICK S : o \in Seq(S)
  BY DEF IsSeq
<1> DEFINE E == {Chunk("text", ErrorText), Chunk("stop", <<>>), Chunk("done", <<>>)}
           T == S \cup E
<1>3. /\ x \in Seq(E) /\ Len(x) = n /\ \A i \in 1..n : x[i] = ErrorTail[i]
  <2> HIDE DEF E
  <2>1. ErrorTail \in Seq(E) /\ Len(ErrorTail) = 3
    BY ErrorKinds DEF E
  <2> HIDE DEF ErrorTail
  <2>2. \A i \in 1..n : ErrorTail[i] \in E
    <3>1. \A i \in 1..3 : ErrorTail[i] \in E
      BY DEF ErrorTail, E
    <3>2. \A i \in 1..n : i \in 1..3
      OBVIOUS
    <3> QED
      BY <3>1, <3>2
  <2>3. 1 \in Int /\ n \in Int /\ n - 1 + 1 = n /\ n \in Nat
    OBVIOUS
  <2>4. /\ x \in Seq(E) /\ Len(x) = IF 1 <= n THEN n - 1 + 1 ELSE 0
        /\ \A i \in 1..(n - 1 + 1) : x[i] = ErrorTail[1 + i - 1]
    BY <2>2, <2>3, SubSeqProperties
  <2>5. \A i \in 1..n : 1 + i - 1 = i
    OBVIOUS
  <2> HIDE DEF x
  <2> QED
    BY <2>3, <2>4, <2>5
<1>4. o \in Seq(T) /\ x \in Seq(T)
  <2>1. S \subseteq T /\ E \subseteq T
    OBVIOUS
  <2> HIDE DEF T, E, x
  <2> QED
    BY <1>2, <1>3, <2>1, SeqMonotonic
<1> HIDE DEF T, E, x
<1>5. /\ q \in Seq(T) /\ Len(o) \in Nat /\ Len(q) = Len(o) + n
      /\ \A i \in 1..Len(o) : q[i] = o[i]
      /\ \A i \in 1..n : q[Len(o) + i] = x[i]
  BY <1>3, <1>4
<1>6. n = 0 => q = o
  <2> SUFFICES ASSUME n = 0
               PROVE  q = o
    OBVIOUS
  <2>1. x = <<>>
    BY <1>3, EmptySeq
  <2> QED
    BY <1>2, <2>1
<1>7. IsSeq(q)
  BY <1>5 DEF IsSeq
<1>8. out' = [out EXCEPT ![s] = q]
  BY <1>1 DEF x
<1>9. \A k \in 1..n : q[Len(o) + k] = ErrorTail[k]
  <2> TAKE k \in 1..n
  <2>1. q[Len(o) + k] = x[k]
    BY <1>5, Zenon
  <2>2. x[k] = ErrorTail[k]
    BY <1>3, Zenon
  <2> QED
    BY <2>1, <2>2, Zenon
<1> HIDE DEF q
<1> QED
  BY <1>5, <1>6, <1>7, <1>8, <1>9

(* A stream that fails sends the rest of its answer, or some of it. *)
LEMMA FailOnWire ==
    ASSUME NEW s \in Streams, Shape, IsSeq(out[s]), http[s] = 200, StreamFails(s),
           out[s] # <<>>, Kind(out[s]) \in {"role", "text"}
    PROVE  Wire!Send(s) \/ UNCHANGED <<out, http>>
<1> DEFINE o == out[s]
<1>1. PICK n, q :
         /\ n \in 0..3
         /\ IsSeq(q) /\ out' = [out EXCEPT ![s] = q]
         /\ Len(o) \in Nat /\ Len(q) = Len(o) + n
         /\ \A i \in 1..Len(o) : q[i] = o[i]
         /\ \A k \in 1..n : q[Len(o) + k] = ErrorTail[k]
         /\ n = 0 => q = o
  BY FailWrites
<1>2. Len(o) # 0
  <2>1. PICK S : o \in Seq(S)
    BY DEF IsSeq
  <2> QED
    BY <2>1, EmptySeq
<1>3. \A i \in (Len(o) + 1)..Len(q) : Follows(q, i)
  <2>1. q[Len(o)] = o[Len(o)] /\ Len(o) \in Nat \ {0}
    BY <1>1, <1>2
  <2>2. q[Len(o)].kind \in {"role", "text"}
    BY <2>1, Zenon DEF Kind
  <2> DEFINE m == Len(o)
  <2>3. /\ m \in Nat \ {0} /\ Len(q) = m + n /\ q[m].kind \in {"role", "text"}
        /\ n \in 0..3 /\ \A k \in 1..n : q[m + k] = ErrorTail[k]
    BY <1>1, <2>1, <2>2
  <2> HIDE DEF m
  <2>4. \A i \in (m + 1)..Len(q) : Follows(q, i)
    BY <2>3, TailFollows
  <2> QED
    BY <2>4 DEF m
<1>4. UNCHANGED http
  BY DEF StreamFails
<1>5. CASE n = 0
  <2>1. out' = [out EXCEPT ![s] = out[s]]
    BY <1>1, <1>5
  <2> QED
    BY <1>4, <2>1 DEF Shape
<1>6. CASE n # 0
  <2>1. Len(o) < Len(q)
    BY <1>1, <1>6
  <2>2. /\ IsSeq(q) /\ out' = [out EXCEPT ![s] = q] /\ n \in 0..3
        /\ \A i \in 1..Len(o) : q[i] = o[i]
    BY <1>1
  <2> QED
    BY <1>3, <1>4, <2>1, <2>2, SendOnWire
<1> QED
  BY <1>5, <1>6

(* The responses of streaming requests implement the wire format: a client *)
(* sees one error status, or 200 and the chunks of a completion in their   *)
(* order, cut short perhaps, however events, failures and its own leaving  *)
(* fall.                                                                   *)
THEOREM ResponsesAreWellFormed == Spec => ImplementsWire
<1> DEFINE W == [c \in Streams |-> KindsOf(out[c])]
<1>1. Init => Wire!Init /\ Formatted
  <2> SUFFICES ASSUME Init
               PROVE  Wire!Init /\ Formatted
    OBVIOUS
  <2>1. \A c \in Streams : out[c] = <<>> /\ http[c] = 0 /\ pc[c] = "acquire"
    BY DEF Init
  <2>2. http = [c \in Streams |-> 0]
    BY DEF Init
  <2>3. KindsOf(<<>>) = <<>>
    BY DEF KindsOf
  <2>4. W = [c \in Streams |-> <<>>]
    BY <2>1, <2>3
  <2>5. Wire!Init
    BY <2>2, <2>4 DEF Wire!Init, KindsOut, KindsOf
  <2> QED
    BY <2>1, <2>5 DEF Formatted, FormatFacts
<1>2. Shape /\ InboxFacts /\ Facts /\ Formatted /\ [Next]_vars
         => [Wire!Next]_<<http, KindsOut>>
  <2> SUFFICES ASSUME Shape, InboxFacts, Facts, Formatted, [Next]_vars
               PROVE  Wire!Next \/ UNCHANGED <<out, http>>
    BY DEF KindsOut
  <2>1. ASSUME NEW s \in Streams, Quiet(s)
        PROVE  UNCHANGED <<out, http>>
    BY <2>1, QuietStep
  <2>2. ASSUME NEW s \in Streams, Answering(s)
        PROVE  Wire!Next
    <3>1. http[s] = 0 /\ UNCHANGED out
      BY <2>2, AnsweringStep DEF Formatted, FormatFacts
    <3>2. \E code \in Statuses \cup {200} : http' = [http EXCEPT ![s] = code]
      BY <2>2, AnsweringStep, Codes DEF Answer
    <3>3. UNCHANGED KindsOut
      BY <3>1 DEF KindsOut
    <3>4. ASSUME NEW code \in Statuses, http' = [http EXCEPT ![s] = code]
          PROVE  Wire!Refuse(s, code)
      BY <3>1, <3>3, <3>4 DEF Wire!Refuse
    <3>5. ASSUME http' = [http EXCEPT ![s] = 200]
          PROVE  Wire!Open(s)
      BY <3>1, <3>3, <3>5 DEF Wire!Open
    <3> QED
      BY <3>2, <3>4, <3>5 DEF Wire!Next
  <2>3. ASSUME NEW s \in Streams, Writing(s)
        PROVE  Wire!Next \/ UNCHANGED <<out, http>>
    <3>1. http' = http /\ http[s] = 200 /\ IsSeq(out[s])
      BY <2>3, WritingStep DEF Formatted, FormatFacts, Facts, WrittenFacts
    <3>2. /\ pc[s] = "role" => out[s] = <<>>
          /\ pc[s] \in {"stream", "usage", "done"} => out[s] # <<>>
          /\ pc[s] = "stream" => Kind(out[s]) \in {"role", "text"}
          /\ pc[s] = "usage" => Kind(out[s]) = "stop"
          /\ pc[s] = "done" => Kind(out[s]) \in {"stop", "usage"}
      BY DEF Formatted, FormatFacts, Facts, WrittenFacts
    <3>3. ASSUME NEW kind, NEW text, NEW place, Appends(s, Chunk(kind, text), place),
                 IF out[s] = <<>> THEN kind = "role"
                 ELSE kind \in Wire!Followers[Kind(out[s])]
          PROVE  Wire!Send(s)
      <4>1. Chunk(kind, text).kind = kind
        BY DEF Chunk
      <4> DEFINE e == Chunk(kind, text)
      <4>2. out' = [out EXCEPT ![s] = Append(@, e)]
        BY <3>3 DEF Appends
      <4> HIDE DEF e
      <4>3. /\ out[s] = <<>> => e.kind = "role"
            /\ out[s] # <<>> => e.kind \in Wire!Followers[Kind(out[s])]
        BY <3>3, <4>1 DEF e
      <4> QED
        BY <3>1, <4>2, <4>3, AppendOnWire, Zenon
    <3>4. ASSUME pc[s] = "role", Appends(s, Chunk("role", <<>>), "stream")
          PROVE  Wire!Send(s)
      BY <3>2, <3>3, <3>4
    <3>5. ASSUME pc[s] = "stream", NEW text, Appends(s, Chunk("text", text), "stream")
          PROVE  Wire!Send(s)
      BY <3>2, <3>3, <3>5, FollowersOf
    <3>6. ASSUME pc[s] = "stream", NEW place, Appends(s, Chunk("stop", <<>>), place)
          PROVE  Wire!Send(s)
      BY <3>2, <3>3, <3>6, FollowersOf
    <3>7. ASSUME pc[s] = "usage", NEW text, Appends(s, Chunk("usage", text), "done")
          PROVE  Wire!Send(s)
      BY <3>2, <3>3, <3>7, FollowersOf
    <3>8. ASSUME pc[s] = "done", Appends(s, Chunk("done", <<>>), "touch")
          PROVE  Wire!Send(s)
      BY <3>2, <3>3, <3>8, FollowersOf
    <3>9. CASE StreamFails(s)
      <4>1. pc[s] = "stream"
        BY <3>9 DEF StreamFails, At
      <4> QED
        BY <3>1, <3>2, <3>9, <4>1, FailOnWire DEF Wire!Next
    <3> QED
      BY <2>3, <3>1, <3>4, <3>5, <3>6, <3>7, <3>8, <3>9, WritingChunk DEF Wire!Next
  <2>4. ASSUME NEW s \in Streams, Around(s)
        PROVE  UNCHANGED <<out, http>>
    BY <2>4 DEF Around, ClientGone, WatcherRelease
  <2>5. ASSUME NEW s \in Streams, NEW why \in {"deadline", "canceled"}, CtxEnd(s, why)
        PROVE  UNCHANGED <<out, http>>
    BY <2>5 DEF CtxEnd
  <2>6. CASE OpenCodeStep \/ \E p \in Prompts : AcceptPrompt(p)
    BY <2>6, OpenCodeSteps DEF handlerVars
  <2>7. CASE UNCHANGED vars
    BY <2>7 DEF vars, handlerVars
  <2> QED
    BY <2>1, <2>2, <2>3, <2>4, <2>5, <2>6, <2>7, NextSteps
<1>3. Shape /\ InboxFacts /\ Facts /\ Formatted /\ [Next]_vars => Formatted'
  BY FormatStep
<1> QED
  BY <1>1, <1>2, <1>3, WrittenInvariance, PTL DEF Spec, ImplementsWire, Wire!Spec
=============================================================================
