------------------------- MODULE StreamAnswerProofs -------------------------
(***************************************************************************)
(* Proofs about what a stream shows of its own answer, for any number of   *)
(* streams, sessions, prompts beside them and deltas: nothing is missed    *)
(* while it streams, and a stream that completes undisturbed has shown the *)
(* whole answer.  First what the sessions of OpenCode keep to, then how a  *)
(* sequence of texts holds the deltas of a prompt, then how the events on  *)
(* their way to a stream and the chunks it sent make up its answer.        *)
(***************************************************************************)
EXTENDS StreamChatProofs

-----------------------------------------------------------------------------
(* The sessions.  Prompt p runs, or has ended and settles, in session k. *)
Runs(k, p) ==
    /\ p \in accepted /\ SessionOf[p] = k
    /\ \/ /\ run[k] = Running(p) /\ p \notin finished
          /\ \A i \in DOMAIN queue[k] : queue[k][i] # p
       \/ run[k] = Settling(p) /\ p \in finished

(* The prompts that wait are accepted, unfinished, and wait once. *)
SessionOK(k) ==
    /\ queue[k] \in Seq(Prompts)
    /\ \A i \in DOMAIN queue[k] :
          queue[k][i] \in accepted \ finished /\ SessionOf[queue[k][i]] = k
    /\ \A i, j \in DOMAIN queue[k] : queue[k][i] = queue[k][j] => i = j
    /\ run[k] = Free \/ \E p \in Prompts : Runs(k, p)

SessionFacts ==
    /\ accepted \subseteq Prompts /\ finished \subseteq accepted
    /\ sent \in [Prompts -> 0..MaxDeltas]
    /\ \A p \in Prompts \ accepted : sent[p] = 0
    /\ queue = [k \in Keys |-> queue[k]] /\ run = [k \in Keys |-> run[k]]
    /\ \A k \in Keys : SessionOK(k)

LEMMA Stages ==
    /\ Free.stage = "free"
    /\ \A p : Running(p).stage = "running" /\ Running(p).prompt = p
    /\ \A p : Settling(p).stage = "settling" /\ Settling(p).prompt = p
BY DEF Free, Running, Settling

(* The prompt of a session that is at work. *)
LEMMA AtWork ==
    ASSUME SessionFacts, NEW k \in Keys
    PROVE  /\ run[k].stage = "running" =>
                 \E p \in Prompts : /\ Runs(k, p) /\ run[k] = Running(p)
                                    /\ run[k].prompt = p /\ p \notin finished
           /\ run[k].stage = "settling" =>
                 \E p \in Prompts : /\ Runs(k, p) /\ run[k] = Settling(p)
                                    /\ p \in finished
<1>1. run[k] = Free \/ \E p \in Prompts : Runs(k, p)
  BY DEF SessionFacts, SessionOK
<1>2. CASE run[k] = Free
  BY <1>2, Stages
<1>3. ASSUME NEW p \in Prompts, Runs(k, p)
      PROVE  /\ \/ run[k] = Running(p) /\ run[k].prompt = p /\ p \notin finished
                \/ run[k] = Settling(p) /\ p \in finished
             /\ run[k].stage = "running" => run[k] = Running(p)
             /\ run[k].stage = "settling" => run[k] = Settling(p)
  BY <1>3, Stages DEF Runs
<1>4. \A p : Running(p) # Settling(p)
  BY Stages
<1> QED
  BY <1>1, <1>2, <1>3, <1>4

LEMMA QueueAppend ==
    ASSUME NEW S, NEW q \in Seq(S), NEW e \in S, \A i \in DOMAIN q : q[i] # e,
           \A i, j \in DOMAIN q : q[i] = q[j] => i = j
    PROVE  /\ Append(q, e) \in Seq(S)
           /\ \A i \in DOMAIN Append(q, e) :
                 Append(q, e)[i] = e \/ \E j \in DOMAIN q : Append(q, e)[i] = q[j]
           /\ \A i, j \in DOMAIN Append(q, e) : Append(q, e)[i] = Append(q, e)[j] => i = j
<1> DEFINE r == Append(q, e)
<1>1. /\ r \in Seq(S) /\ Len(q) \in Nat
      /\ DOMAIN q = 1..Len(q) /\ DOMAIN r = 1..(Len(q) + 1)
      /\ \A i \in 1..Len(q) : r[i] = q[i]
      /\ r[Len(q) + 1] = e
  OBVIOUS
<1> HIDE DEF r
<1>2. \A i \in DOMAIN r : i = Len(q) + 1 \/ i \in DOMAIN q
  BY <1>1
<1> QED
  BY <1>1, <1>2 DEF r

LEMMA QueueTail ==
    ASSUME NEW S, NEW q \in Seq(S), q # <<>>,
           \A i, j \in DOMAIN q : q[i] = q[j] => i = j
    PROVE  /\ Tail(q) \in Seq(S) /\ 1 \in DOMAIN q /\ Head(q) = q[1]
           /\ \A i \in DOMAIN Tail(q) : /\ \E j \in DOMAIN q : Tail(q)[i] = q[j]
                                        /\ Tail(q)[i] # Head(q)
           /\ \A i, j \in DOMAIN Tail(q) : Tail(q)[i] = Tail(q)[j] => i = j
<1> DEFINE r == Tail(q)
<1>1. /\ r \in Seq(S) /\ Len(q) \in Nat \ {0}
      /\ DOMAIN q = 1..Len(q) /\ DOMAIN r = 1..(Len(q) - 1)
      /\ \A i \in 1..(Len(q) - 1) : r[i] = q[i + 1]
      /\ Head(q) = q[1]
  OBVIOUS
<1> HIDE DEF r
<1>2. \A i \in DOMAIN r : i + 1 \in DOMAIN q /\ i \in Nat /\ r[i] = q[i + 1] /\ i + 1 # 1
  BY <1>1
<1>3. 1 \in DOMAIN q
  BY <1>1
<1>4. \A i \in DOMAIN r : r[i] # Head(q)
  BY <1>1, <1>2, <1>3
<1>5. ASSUME NEW i \in DOMAIN r, NEW j \in DOMAIN r, r[i] = r[j]
      PROVE  i = j
  <2>1. i + 1 = j + 1
    BY <1>2, <1>5
  <2> QED
    BY <2>1, <1>2
<1> QED
  BY <1>1, <1>2, <1>3, <1>4, <1>5 DEF r

(* The prompts of a session are its own. *)
LEMMA OwnPrompts ==
    ASSUME SessionFacts, NEW j \in Keys, NEW k \in Keys, j # k, NEW p, Runs(k, p)
    PROVE  /\ ~Runs(j, p)
           /\ \A i \in DOMAIN queue[j] : queue[j][i] # p
BY DEF SessionFacts, SessionOK, Runs

(* A session is as it was when its queue and its run are, and what the     *)
(* step accepts or finishes is nothing of its own.                         *)
LEMMA SessionSame ==
    ASSUME NEW j \in Keys, SessionOK(j), queue'[j] = queue[j], run'[j] = run[j],
           accepted \subseteq accepted', finished \subseteq finished',
           \A i \in DOMAIN queue[j] : queue[j][i] \notin finished' \ finished,
           \A p \in Prompts : Runs(j, p) => p \notin finished' \ finished
    PROVE  SessionOK(j)'
<1>1. ASSUME NEW p \in Prompts, Runs(j, p)
      PROVE  Runs(j, p)'
  BY <1>1 DEF Runs
<1>2. Prompts' = Prompts /\ Free' = Free
  OBVIOUS
<1> QED
  BY <1>1, <1>2 DEF SessionOK

LEMMA AcceptKeepsSessions ==
    ASSUME SessionFacts, NEW p \in Prompts, AcceptPrompt(p)
    PROVE  SessionFacts'
<1> DEFINE k == SessionOf[p]
<1>1. /\ p \notin accepted /\ accepted' = accepted \cup {p}
      /\ queue' = [queue EXCEPT ![k] = Append(@, p)]
      /\ UNCHANGED <<run, finished, sent>>
  BY DEF AcceptPrompt, Accept
<1>2. k \in Keys
  BY OpenCodeAssumption DEF OpenCodeAssumption
<1>3. queue' = [j \in Keys |-> IF j = k THEN Append(queue[k], p) ELSE queue[j]]
  BY <1>1, <1>2 DEF SessionFacts
<1>4. ASSUME NEW j \in Keys, j # k
      PROVE  SessionOK(j)'
  BY <1>1, <1>3, <1>4, SessionSame DEF SessionFacts
<1>5. SessionOK(k)'
  <2>1. SessionOK(k)
    BY <1>2 DEF SessionFacts
  <2>2. \A i \in DOMAIN queue[k] : queue[k][i] # p
    BY <1>1, <2>1 DEF SessionOK
  <2> DEFINE q == Append(queue[k], p)
  <2>3. /\ q \in Seq(Prompts)
        /\ \A i \in DOMAIN q : q[i] = p \/ \E j \in DOMAIN queue[k] : q[i] = queue[k][j]
        /\ \A i, j \in DOMAIN q : q[i] = q[j] => i = j
    BY <2>1, <2>2, QueueAppend DEF SessionOK
  <2> HIDE DEF q
  <2>4. queue'[k] = q
    BY <1>2, <1>3 DEF q
  <2>5. p \notin finished
    BY <1>1 DEF SessionFacts
  <2>6. \A i \in DOMAIN q : q[i] \in accepted' \ finished' /\ SessionOf[q[i]] = k
    BY <1>1, <2>1, <2>3, <2>5 DEF SessionOK
  <2>7. ASSUME NEW r \in Prompts, Runs(k, r)
        PROVE  Runs(k, r)'
    <3>1. r # p
      BY <1>1, <2>7 DEF Runs
    <3>2. \A i \in DOMAIN q : (\A j \in DOMAIN queue[k] : queue[k][j] # r) => q[i] # r
      BY <2>3, <3>1
    <3> QED
      BY <1>1, <2>4, <2>7, <3>2 DEF Runs
  <2>8. run'[k] = Free \/ \E r \in Prompts : Runs(k, r)'
    BY <1>1, <2>1, <2>7 DEF SessionOK
  <2> QED
    BY <2>3, <2>4, <2>6, <2>8 DEF SessionOK
<1>6. \A j \in Keys : SessionOK(j)'
  BY <1>4, <1>5
<1> QED
  BY <1>1, <1>3, <1>6 DEF SessionFacts

LEMMA StartKeepsSessions ==
    ASSUME SessionFacts, NEW k \in Keys, StartRun(k)
    PROVE  SessionFacts'
<1>1. SessionOK(k) /\ queue[k] # <<>>
  BY DEF SessionFacts, StartRun
<1>2. PICK p, r : p = Head(queue[k]) /\ r = Tail(queue[k])
  OBVIOUS
<1>3. /\ r \in Seq(Prompts) /\ 1 \in DOMAIN queue[k] /\ p = queue[k][1]
      /\ \A i \in DOMAIN r : r[i] # p /\ \E j \in DOMAIN queue[k] : r[i] = queue[k][j]
      /\ \A i, j \in DOMAIN r : r[i] = r[j] => i = j
  BY <1>1, <1>2, QueueTail DEF SessionOK
<1>4. /\ queue' = [j \in Keys |-> IF j = k THEN r ELSE queue[j]]
      /\ run' = [j \in Keys |-> IF j = k THEN Running(p) ELSE run[j]]
      /\ UNCHANGED <<accepted, finished, sent>>
  BY <1>2 DEF StartRun, SessionFacts
<1>5. ASSUME NEW j \in Keys, j # k
      PROVE  SessionOK(j)'
  BY <1>4, <1>5, SessionSame DEF SessionFacts
<1>6. p \in accepted \ finished /\ SessionOf[p] = k /\ p \in Prompts
  BY <1>1, <1>3 DEF SessionOK, SessionFacts
<1>7. \A i \in DOMAIN r : r[i] \in accepted' \ finished' /\ SessionOf[r[i]] = k
  BY <1>1, <1>3, <1>4 DEF SessionOK
<1>8. Runs(k, p)'
  BY <1>3, <1>4, <1>6 DEF Runs
<1>9. SessionOK(k)'
  <2>1. queue'[k] = r
    BY <1>4
  <2> QED
    BY <2>1, <1>3, <1>6, <1>7, <1>8 DEF SessionOK
<1>10. \A j \in Keys : SessionOK(j)'
  BY <1>5, <1>9
<1> QED
  BY <1>4, <1>10 DEF SessionFacts

LEMMA EndKeepsSessions ==
    ASSUME SessionFacts, NEW k \in Keys, EndRun(k)
    PROVE  SessionFacts'
<1>1. PICK p \in Prompts : /\ Runs(k, p) /\ run[k] = Running(p)
                           /\ run[k].prompt = p /\ p \notin finished
  BY AtWork DEF EndRun
<1>2. /\ finished' = finished \cup {p} /\ run' = [run EXCEPT ![k] = Settling(p)]
      /\ UNCHANGED <<queue, accepted, sent>>
  BY <1>1 DEF EndRun
<1>3. run' = [j \in Keys |-> IF j = k THEN Settling(p) ELSE run[j]]
  BY <1>2 DEF SessionFacts
<1>4. ASSUME NEW j \in Keys, j # k
      PROVE  SessionOK(j)'
  <2>1. ~Runs(j, p) /\ \A i \in DOMAIN queue[j] : queue[j][i] # p
    BY <1>1, <1>4, OwnPrompts
  <2> QED
    BY <1>2, <1>3, <1>4, <2>1, SessionSame DEF SessionFacts
<1>5. SessionOK(k)
  BY DEF SessionFacts
<1>6. \A i \in DOMAIN queue[k] : queue[k][i] # p
  BY <1>1, Stages DEF Runs
<1>7. Runs(k, p)'
  BY <1>1, <1>2, <1>3 DEF Runs
<1>8. SessionOK(k)'
  BY <1>2, <1>5, <1>6, <1>7 DEF SessionOK
<1> QED
  BY <1>1, <1>2, <1>3, <1>4, <1>8 DEF SessionFacts, Runs

LEMMA SettleKeepsSessions ==
    ASSUME SessionFacts, NEW k \in Keys, Settle(k)
    PROVE  SessionFacts'
<1>1. run' = [j \in Keys |-> IF j = k THEN Free ELSE run[j]]
  BY DEF Settle, SessionFacts
<1>2. UNCHANGED <<queue, accepted, finished, sent>>
  BY DEF Settle
<1>3. ASSUME NEW j \in Keys
      PROVE  SessionOK(j)'
  <2>1. SessionOK(j)
    BY DEF SessionFacts
  <2>2. CASE j = k
    BY <2>1, <2>2, <1>1, <1>2 DEF SessionOK
  <2>3. CASE j # k
    BY <2>1, <2>3, <1>1, <1>2, SessionSame
  <2> QED
    BY <2>2, <2>3
<1> QED
  BY <1>1, <1>2, <1>3 DEF SessionFacts

LEMMA EmitKeepsSessions ==
    ASSUME SessionFacts, NEW k \in Keys, EmitDelta(k)
    PROVE  SessionFacts'
<1>1. PICK p \in Prompts : Runs(k, p) /\ run[k].prompt = p /\ p \notin finished
  BY AtWork DEF EmitDelta
<1>2. /\ sent[p] < MaxDeltas /\ sent' = [sent EXCEPT ![p] = @ + 1]
      /\ UNCHANGED <<queue, run, accepted, finished>>
  BY <1>1 DEF EmitDelta
<1>3. p \in accepted
  BY <1>1 DEF Runs
<1>4. /\ sent' \in [Prompts -> 0..MaxDeltas]
      /\ \A r \in Prompts \ accepted : sent'[r] = 0
  BY <1>2, <1>3, OpenCodeAssumption DEF OpenCodeAssumption, SessionFacts
<1>5. ASSUME NEW j \in Keys
      PROVE  SessionOK(j)'
  BY <1>2, SessionSame DEF SessionFacts
<1> QED
  BY <1>2, <1>4, <1>5 DEF SessionFacts

(* Only OpenCode changes the sessions. *)
LEMMA SessionChange ==
    ASSUME [Next]_vars
    PROVE  \/ UNCHANGED <<sessionVars>>
           \/ \E p \in Prompts : AcceptPrompt(p)
           \/ \E k \in Keys : SessionStep(k) /\ UNCHANGED <<handlerVars, disturbed>>
<1>1. ASSUME NEW s \in Streams, HandlerStep(s) \/ ClientGone(s) \/ WatcherRelease(s)
      PROVE  UNCHANGED sessionVars
  BY <1>1 DEF HandlerStep, AcquireGrant, AcquireFails, SubscribeEvents, CallFails,
     AwaitConnected, ConnectFails, PromptAsync, PromptAccepted, WriteRole, StreamEvent,
     StreamFails, UsageFound, UsageMissing, WriteDone, Touch, Return, ClientGone,
     WatcherRelease, openCodeVars
<1>2. ASSUME NEW s \in Streams, NEW why \in {"deadline", "canceled"}, CtxEnd(s, why)
      PROVE  UNCHANGED sessionVars
  BY <1>2 DEF CtxEnd, openCodeVars
<1>3. ASSUME NEW s \in Streams, Greet(s) \/ BreakFeed(s)
      PROVE  UNCHANGED sessionVars
  BY <1>3 DEF Greet, BreakFeed, sessionVars
<1>4. UNCHANGED vars => UNCHANGED sessionVars
  BY DEF vars, openCodeVars
<1> QED
  BY <1>1, <1>2, <1>3, <1>4 DEF Next, OpenCodeStep

LEMMA SessionsStep == SessionFacts /\ [Next]_vars => SessionFacts'
<1> SUFFICES ASSUME SessionFacts, [Next]_vars
             PROVE  SessionFacts'
  OBVIOUS
<1>1. CASE UNCHANGED <<queue, run, accepted, finished, sent>>
  <2>1. \A j \in Keys : SessionOK(j)'
    BY <1>1, SessionSame DEF SessionFacts
  <2> QED
    BY <1>1, <2>1 DEF SessionFacts
<1>2. ASSUME NEW k \in Keys, SessionStep(k)
      PROVE  SessionFacts'
  BY <1>1, <1>2, StartKeepsSessions, EmitKeepsSessions, EndKeepsSessions,
     SettleKeepsSessions DEF SessionStep, PublishDiff
<1>3. UNCHANGED <<sessionVars>> => UNCHANGED <<queue, run, accepted, finished, sent>>
  BY DEF sessionVars
<1> QED
  BY <1>1, <1>2, <1>3, AcceptKeepsSessions, SessionChange

-----------------------------------------------------------------------------
(* The mapper keeps its type, whatever event it is given. *)
LEMMA ProgressTyped ==
    ASSUME NEW S, NEW m \in MapperOf(S), NEW label \in ProgressLabels
    PROVE  /\ HandleProgress(m, label).mapper \in MapperOf(S)
           /\ [HandleProgress(m, label) EXCEPT !.mapper.diffProgress = TRUE].mapper
                 \in MapperOf(S)
<1>1. Show(m, label) \in MapperOf(S)
  BY DEF Show, Active, MapperOf
<1>2. \A h \in MapperOf(S) : [h EXCEPT !.diffProgress = TRUE] \in MapperOf(S)
  BY DEF MapperOf
<1>3. HandleProgress(m, label).mapper \in MapperOf(S)
  BY <1>1 DEF HandleProgress, Ignore
<1>4. [HandleProgress(m, label) EXCEPT !.mapper.diffProgress = TRUE].mapper
         = [HandleProgress(m, label).mapper EXCEPT !.diffProgress = TRUE]
  BY DEF HandleProgress, Ignore
<1> QED
  BY <1>2, <1>3, <1>4

LEMMA HandleTyped ==
    ASSUME NEW S, NEW m \in MapperOf(S), NEW ev
    PROVE  Handle(m, ev).mapper \in MapperOf(S)
<1>1. Ignore(m).mapper \in MapperOf(S) /\ Active(m) \in MapperOf(S)
  BY DEF Ignore, Active, MapperOf
<1>2. PartLabel(ev) \in ProgressLabels /\ "diff" \in ProgressLabels
  BY DEF PartLabel, ProgressLabels
<1>3. \A status : HandleStatus(m, status).mapper \in MapperOf(S)
  BY <1>1 DEF HandleStatus, Ignore
<1>4. HandleDelta(m, ev).mapper \in MapperOf(S)
  BY <1>1 DEF HandleDelta
<1>5. HandleDiff(m).mapper \in MapperOf(S)
  BY <1>1, <1>2, ProgressTyped DEF HandleDiff
<1>6. HandleProgress(m, PartLabel(ev)).mapper \in MapperOf(S)
  BY <1>2, ProgressTyped
<1>7. HandleTarget(m, ev).mapper \in MapperOf(S)
  BY <1>1, <1>3, <1>4, <1>5, <1>6 DEF HandleTarget
<1> QED
  BY <1>1, <1>7 DEF Handle

MapperFacts == /\ mapper = [s \in Streams |-> mapper[s]]
               /\ \A s \in Streams : mapper[s] \in MapperOf({SessionOf[s]})

LEMMA MappersStep == MapperFacts /\ [Next]_vars => MapperFacts'
<1> SUFFICES ASSUME MapperFacts, [Next]_vars
             PROVE  MapperFacts'
  OBVIOUS
<1>1. ASSUME NEW s \in Streams, NEW m \in MapperOf({SessionOf[s]}),
             mapper' = [mapper EXCEPT ![s] = m]
      PROVE  MapperFacts'
  <2>1. mapper' = [t \in Streams |-> IF t = s THEN m ELSE mapper[t]]
    BY <1>1 DEF MapperFacts
  <2> QED
    BY <1>1, <2>1 DEF MapperFacts
<1>2. UNCHANGED mapper => MapperFacts'
  BY DEF MapperFacts
<1>3. ASSUME NEW s \in Streams, AwaitConnected(s) \/ StreamEvent(s)
      PROVE  MapperFacts'
  <2>1. mapper' = [mapper EXCEPT ![s] = Handle(mapper[s], Head(inbox[s])).mapper]
    BY <1>3 DEF AwaitConnected, StreamEvent, Read
  <2>2. Handle(mapper[s], Head(inbox[s])).mapper \in MapperOf({SessionOf[s]})
    BY HandleTyped DEF MapperFacts
  <2> QED
    BY <1>1, <2>1, <2>2
<1>4. ASSUME NEW s \in Streams, PromptAccepted(s)
      PROVE  MapperFacts'
  <2>1. mapper' = [mapper EXCEPT ![s] = MarkPromptSubmitted(mapper[s])]
    BY <1>4 DEF PromptAccepted
  <2>2. MarkPromptSubmitted(mapper[s]) \in MapperOf({SessionOf[s]})
    BY DEF MapperFacts, MarkPromptSubmitted, MapperOf
  <2> QED
    BY <1>1, <2>1, <2>2
<1>5. ASSUME NEW s \in Streams, Return(s)
      PROVE  MapperFacts'
  <2>1. NewMapper(SessionOf[s]) \in MapperOf({SessionOf[s]})
    BY DEF NewMapper, MapperOf
  <2> QED
    BY <1>1, <1>5, <2>1 DEF Return
<1>6. ASSUME NEW s \in Streams, HandlerStep(s), ~AwaitConnected(s), ~StreamEvent(s),
             ~PromptAccepted(s), ~Return(s)
      PROVE  UNCHANGED mapper
  BY <1>6 DEF HandlerStep, AcquireGrant, AcquireFails, SubscribeEvents, CallFails,
     ConnectFails, PromptAsync, WriteRole, StreamFails, UsageFound, UsageMissing,
     WriteDone, Touch
<1>7. ASSUME NEW s \in Streams, ClientGone(s) \/ WatcherRelease(s)
      PROVE  UNCHANGED mapper
  BY <1>7 DEF ClientGone, WatcherRelease
<1>8. ASSUME NEW s \in Streams, NEW why \in {"deadline", "canceled"}, CtxEnd(s, why)
      PROVE  UNCHANGED mapper
  BY <1>8 DEF CtxEnd
<1>9. ASSUME (\E p \in Prompts : AcceptPrompt(p)) \/ OpenCodeStep \/ UNCHANGED vars
      PROVE  UNCHANGED mapper
  BY <1>9 DEF AcceptPrompt, OpenCodeStep, vars, handlerVars
<1> QED
  BY <1>2, <1>3, <1>4, <1>5, <1>6, <1>7, <1>8, <1>9 DEF Next

-----------------------------------------------------------------------------
(* The sets of streams, their subscriptions and the kinds of their chunks. *)
StreamSets ==
    /\ gone \subseteq Streams /\ lease \subseteq Streams /\ posted \subseteq Streams
    /\ disturbed \subseteq Streams
    /\ feed \in [Streams -> {"none", "silent", "open", "broken", "closed"}]

LEMMA SetsStep == StreamSets /\ [Next]_vars => StreamSets'
<1> SUFFICES ASSUME StreamSets, [Next]_vars
             PROVE  StreamSets'
  OBVIOUS
<1>1. ASSUME NEW s \in Streams, HandlerStep(s)
      PROVE  StreamSets'
  <2>1. /\ gone' = gone
        /\ lease' \in {lease, lease \cup {s}, lease \ {s}}
        /\ posted' \in {posted, posted \cup {s}}
        /\ disturbed' \in {disturbed, disturbed \cup {s}}
        /\ \/ feed' = feed \/ feed' = [feed EXCEPT ![s] = "silent"]
           \/ feed' = [feed EXCEPT ![s] = "closed"]
    BY <1>1 DEF HandlerStep, AcquireGrant, AcquireFails, SubscribeEvents, Subscribe,
       CallFails, AwaitConnected, Read, ConnectFails, PromptAsync, PromptAccepted,
       WriteRole, StreamEvent, StreamFails, UsageFound, UsageMissing, WriteDone, Touch,
       Return, Close, openCodeVars, feedVars
  <2> QED
    BY <2>1 DEF StreamSets
<1>2. ASSUME NEW s \in Streams, ClientGone(s) \/ WatcherRelease(s)
      PROVE  StreamSets'
  BY <1>2 DEF ClientGone, WatcherRelease, openCodeVars, feedVars, StreamSets
<1>3. ASSUME NEW s \in Streams, NEW why \in {"deadline", "canceled"}, CtxEnd(s, why)
      PROVE  StreamSets'
  BY <1>3 DEF CtxEnd, openCodeVars, feedVars, StreamSets
<1>4. ASSUME NEW p \in Prompts, AcceptPrompt(p)
      PROVE  StreamSets'
  BY <1>4 DEF AcceptPrompt, Accept, Publish, handlerVars, StreamSets
<1>5. CASE OpenCodeStep
  <2>1. UNCHANGED <<gone, lease, posted, disturbed>>
    BY <1>5 DEF OpenCodeStep, handlerVars
  <2>2. \/ UNCHANGED feed
        \/ \E s \in Streams, w \in {"open", "broken"} : feed' = [feed EXCEPT ![s] = w]
    BY <1>5 DEF OpenCodeStep, SessionStep, StartRun, EmitDelta, EndRun, Settle,
       PublishDiff, Publish, Greet, BreakFeed
  <2> QED
    BY <2>1, <2>2 DEF StreamSets
<1>6. UNCHANGED vars => StreamSets'
  BY DEF vars, handlerVars, openCodeVars, feedVars, StreamSets
<1> QED
  BY <1>1, <1>2, <1>3, <1>4, <1>5, <1>6 DEF Next

KindFacts(s) == \A i \in DOMAIN out[s] : out[s][i].kind \in ChunkKinds

LEMMA KindAppends ==
    ASSUME Shape, NEW s \in Streams, KindFacts(s), IsSeq(out[s]), NEW kind \in ChunkKinds,
           NEW text, out' = [out EXCEPT ![s] = Append(@, Chunk(kind, text))]
    PROVE  KindFacts(s)'
<1>1. out'[s] = Append(out[s], Chunk(kind, text)) /\ Chunk(kind, text).kind = kind
  BY DEF Shape, Chunk
<1> QED
  BY <1>1, AppendAny DEF KindFacts

LEMMA KindWriting ==
    ASSUME Shape, InboxFacts, NEW s \in Streams, WrittenFacts(s), KindFacts(s), Writing(s)
    PROVE  KindFacts(s)'
<1>1. IsSeq(out[s])
  BY WritingStep DEF WrittenFacts
<1>2. {"role", "text", "stop", "usage", "done"} = ChunkKinds
  BY DEF ChunkKinds
<1>3. UNCHANGED out => KindFacts(s)'
  BY DEF KindFacts
<1>4. CASE StreamFails(s)
  <2>1. PICK n, q :
           /\ n \in 0..3
           /\ IsSeq(q) /\ out' = [out EXCEPT ![s] = q]
           /\ Len(out[s]) \in Nat /\ Len(q) = Len(out[s]) + n
           /\ \A i \in 1..Len(out[s]) : q[i] = out[s][i]
           /\ \A k \in 1..n : q[Len(out[s]) + k] = ErrorTail[k]
           /\ n = 0 => q = out[s]
    BY <1>1, <1>4, FailWrites
  <2>2. DOMAIN q = 1..Len(q) /\ DOMAIN out[s] = 1..Len(out[s])
    BY <1>1, <2>1, KindsOfSeq
  <2>3. \A k \in 1..n : ErrorTail[k].kind \in ChunkKinds
    <3>1. \A k \in 1..n : k \in {1, 2, 3}
      BY <2>1
    <3> QED
      BY <3>1, <1>2, ErrorKinds
  <2>4. out'[s] = q
    BY <2>1 DEF Shape
  <2> DEFINE m == Len(out[s])
  <2>5. m \in Nat /\ n \in 0..3 /\ Len(q) = m + n
    BY <2>1
  <2>6. ASSUME NEW i \in DOMAIN q
        PROVE  q[i].kind \in ChunkKinds
    <3>1. CASE i \in 1..m
      BY <2>1, <2>2, <3>1 DEF KindFacts
    <3>2. CASE i \notin 1..m
      <4> DEFINE k == i - m
      <4> HIDE DEF m
      <4>1. k \in 1..n /\ i = m + k
        BY <2>2, <2>5, <3>2
      <4> HIDE DEF k
      <4>2. q[i] = ErrorTail[k]
        BY <2>1, <4>1 DEF m
      <4> QED
        BY <2>3, <4>1, <4>2
    <3> QED
      BY <3>1, <3>2
  <2> QED
    BY <2>4, <2>6 DEF KindFacts
<1>5. ASSUME NEW kind \in ChunkKinds, NEW text, NEW place,
             Appends(s, Chunk(kind, text), place)
      PROVE  KindFacts(s)'
  BY <1>1, <1>5, KindAppends DEF Appends
<1> QED
  BY <1>2, <1>3, <1>4, <1>5, WritingChunk

Kinds == \A s \in Streams : KindFacts(s)

(* Streams, sessions and subscriptions keep their types. *)
Typed == /\ Shape /\ SessionFacts /\ MapperFacts /\ StreamSets
         /\ InboxFacts /\ Facts /\ Kinds

LEMMA TypedInvariance == Spec => []Typed
<1>1. Init => SessionFacts
  <2> SUFFICES ASSUME Init
               PROVE  SessionFacts
    OBVIOUS
  <2>1. /\ queue = [k \in Keys |-> <<>>] /\ run = [k \in Keys |-> Free]
        /\ accepted = {} /\ finished = {} /\ sent = [p \in Prompts |-> 0]
    BY DEF Init, OpenCodeInit
  <2>2. 0 \in 0..MaxDeltas
    BY OpenCodeAssumption DEF OpenCodeAssumption
  <2>3. <<>> \in Seq(Prompts) /\ DOMAIN <<>> = {}
    OBVIOUS
  <2> QED
    BY <2>1, <2>2, <2>3 DEF SessionFacts, SessionOK
<1>2. Init => MapperFacts
  BY DEF Init, MapperFacts, NewMapper, MapperOf
<1>3. Init => StreamSets /\ Kinds
  BY DEF Init, OpenCodeInit, StreamSets, Kinds, KindFacts
<1>4. Shape /\ InboxFacts /\ Facts /\ Kinds /\ [Next]_vars => Kinds'
  <2> SUFFICES ASSUME Shape, InboxFacts, Facts, Kinds, [Next]_vars, NEW t \in Streams
               PROVE  KindFacts(t)'
    BY DEF Kinds
  <2>1. out'[t] = out[t] => KindFacts(t)'
    BY DEF Kinds, KindFacts
  <2>2. ASSUME NEW s \in Streams, Quiet(s) \/ Answering(s)
        PROVE  UNCHANGED out
    BY <2>2, QuietStep, AnsweringStep
  <2>3. ASSUME NEW s \in Streams, Writing(s)
        PROVE  KindFacts(t)'
    <3>1. CASE s = t
      BY <2>3, <3>1, KindWriting DEF Facts, Kinds
    <3>2. CASE s # t
      <4>1. out'[t] = out[t]
        BY <2>3, <3>2, WritingStep DEF Shape
      <4> QED
        BY <4>1, <2>1
    <3> QED
      BY <3>1, <3>2
  <2>4. ASSUME NEW s \in Streams, Around(s)
        PROVE  UNCHANGED out
    BY <2>4 DEF Around, ClientGone, WatcherRelease
  <2>5. ASSUME NEW s \in Streams, NEW why \in {"deadline", "canceled"}, CtxEnd(s, why)
        PROVE  UNCHANGED out
    BY <2>5 DEF CtxEnd
  <2>6. ASSUME OpenCodeStep \/ (\E p \in Prompts : AcceptPrompt(p)) \/ UNCHANGED vars
        PROVE  UNCHANGED out
    BY <2>6 DEF OpenCodeStep, AcceptPrompt, vars, handlerVars
  <2> QED
    BY <2>1, <2>2, <2>3, <2>4, <2>5, <2>6, NextSteps
<1> QED
  BY <1>1, <1>2, <1>3, <1>4, SessionsStep, MappersStep, SetsStep, WrittenInvariance, PTL
  DEF Spec, Typed

(* Every variable of the streams and of OpenCode's side of them keeps its  *)
(* type: a run is of a prompt of its session, a prompt has no more deltas  *)
(* than a run may publish, a mapper stays with its session.                *)
THEOREM ChatIsTyped == Spec => []ChatTypeOK
<1>1. Typed => ChatTypeOK
  <2> SUFFICES ASSUME Typed
               PROVE  ChatTypeOK
    OBVIOUS
  <2>1. /\ pc \in [Streams -> PCs] /\ ctx \in [Streams -> {"live", "deadline", "canceled"}]
        /\ http \in [Streams -> {0, 200} \cup Statuses] /\ touched \subseteq Streams
    BY DEF Typed, Shape
  <2>2. /\ gone \subseteq Streams /\ lease \subseteq Streams /\ posted \subseteq Streams
        /\ disturbed \subseteq Streams
        /\ feed \in [Streams -> {"none", "silent", "open", "broken", "closed"}]
    BY DEF Typed, StreamSets
  <2>3. /\ accepted \subseteq Prompts /\ finished \subseteq Prompts
        /\ sent \in [Prompts -> 0..MaxDeltas]
    BY DEF Typed, SessionFacts
  <2>4. /\ \A s \in Streams : mapper[s] \in MapperOf({SessionOf[s]})
        /\ \A s \in Streams : \A i \in DOMAIN out[s] : out[s][i].kind \in ChunkKinds
    BY DEF Typed, MapperFacts, Kinds, KindFacts
  <2> QED
    BY <2>1, <2>2, <2>3, <2>4 DEF ChatTypeOK
<1> QED
  BY <1>1, TypedInvariance, PTL

-----------------------------------------------------------------------------
(* How a sequence of texts holds the deltas of a prompt. *)
IsOwn(x, p) == Len(x) = 2 /\ x[1] = p

LEMMA OwnDelta ==
    ASSUME NEW p, NEW q, NEW n
    PROVE  /\ IsOwn(<<p, n>>, p) /\ <<p, n>>[2] = n
           /\ q # p => ~IsOwn(<<q, n>>, p)
           /\ ~IsOwn(<<n>>, p) /\ ~IsOwn(<<>>, p)
BY DEF IsOwn

(* texts holds the deltas from first to last, position by position. *)
LEMMA HoldsMeans ==
    ASSUME NEW texts, NEW p, NEW a \in Nat, NEW b \in Nat
    PROVE  Holds(texts, p, a, b) <=>
              /\ \A i \in DOMAIN texts : IsOwn(texts[i], p) => texts[i][2] \in a..b
              /\ \A n \in a..b : \E i \in DOMAIN texts :
                    IsOwn(texts[i], p) /\ texts[i][2] = n
              /\ \A i, j \in DOMAIN texts : IsOwn(texts[i], p) /\ IsOwn(texts[j], p) /\ i < j
                    => texts[i][2] < texts[j][2]
<1>1. \A i : i \in DeltasIn(texts, p) <=> i \in DOMAIN texts /\ IsOwn(texts[i], p)
  BY DEF DeltasIn, IsOwn
<1> QED
  BY <1>1 DEF Holds

LEMMA HoldsNone ==
    ASSUME NEW texts, NEW p, NEW a \in Nat, NEW b \in Nat,
           \A i \in DOMAIN texts : ~IsOwn(texts[i], p)
    PROVE  Holds(texts, p, a, b) <=> b < a
<1>1. b < a => Holds(texts, p, a, b)
  BY HoldsMeans
<1>2. Holds(texts, p, a, b) => \A n \in a..b : FALSE
  BY HoldsMeans
<1> QED
  BY <1>1, <1>2

(* One more text at the end: of another kind, or the next delta. *)
LEMMA HoldsLonger ==
    ASSUME NEW q, NEW r, NEW n \in Nat, DOMAIN q = 1..n, DOMAIN r = 1..(n + 1),
           \A i \in 1..n : r[i] = q[i],
           NEW p, NEW a \in Nat, NEW b \in Nat, Holds(q, p, a, b)
    PROVE  /\ ~IsOwn(r[n + 1], p) => Holds(r, p, a, b)
           /\ r[n + 1] = <<p, b + 1>> /\ a <= b + 1 => Holds(r, p, a, b + 1)
<1>1. /\ \A i \in DOMAIN q : IsOwn(q[i], p) => q[i][2] \in a..b
      /\ \A m \in a..b : \E i \in DOMAIN q : IsOwn(q[i], p) /\ q[i][2] = m
      /\ \A i, j \in DOMAIN q : IsOwn(q[i], p) /\ IsOwn(q[j], p) /\ i < j => q[i][2] < q[j][2]
  BY HoldsMeans
<1>2. \A i \in DOMAIN r : (i \in DOMAIN q /\ r[i] = q[i]) \/ i = n + 1
  OBVIOUS
<1>3. \A i \in DOMAIN q : i \in DOMAIN r /\ r[i] = q[i] /\ i < n + 1 /\ i \in Nat
  OBVIOUS
<1>4. n + 1 \in DOMAIN r /\ \A i \in DOMAIN r : ~(n + 1 < i)
  OBVIOUS
<1>5. ASSUME ~IsOwn(r[n + 1], p)
      PROVE  Holds(r, p, a, b)
  <2>1. \A i \in DOMAIN r : IsOwn(r[i], p) => i \in DOMAIN q /\ r[i] = q[i]
    BY <1>2, <1>5
  <2>2. \A i \in DOMAIN r : IsOwn(r[i], p) => r[i][2] \in a..b
    BY <1>1, <2>1
  <2>3. \A m \in a..b : \E i \in DOMAIN r : IsOwn(r[i], p) /\ r[i][2] = m
    BY <1>1, <1>3
  <2>4. \A i, j \in DOMAIN r : IsOwn(r[i], p) /\ IsOwn(r[j], p) /\ i < j => r[i][2] < r[j][2]
    BY <1>1, <2>1
  <2> QED
    BY <2>2, <2>3, <2>4, HoldsMeans
<1>6. ASSUME r[n + 1] = <<p, b + 1>>, a <= b + 1
      PROVE  Holds(r, p, a, b + 1)
  <2>1. IsOwn(r[n + 1], p) /\ r[n + 1][2] = b + 1
    <3>1. IsOwn(<<p, b + 1>>, p) /\ <<p, b + 1>>[2] = b + 1
      BY DEF IsOwn
    <3> QED
      BY <1>6, <3>1
  <2>2. \A i \in DOMAIN r : IsOwn(r[i], p) => r[i][2] \in a..(b + 1)
    <3>1. \A i \in DOMAIN q : IsOwn(q[i], p) => q[i][2] \in a..(b + 1)
      BY <1>1
    <3>2. b + 1 \in a..(b + 1)
      BY <1>6
    <3> QED
      BY <1>2, <2>1, <3>1, <3>2
  <2>3. \A m \in a..(b + 1) : \E i \in DOMAIN r : IsOwn(r[i], p) /\ r[i][2] = m
    <3>1. \A m \in a..b : \E i \in DOMAIN r : IsOwn(r[i], p) /\ r[i][2] = m
      BY <1>1, <1>3
    <3>2. \A m \in a..(b + 1) : m \in a..b \/ m = b + 1
      OBVIOUS
    <3> QED
      BY <1>4, <2>1, <3>1, <3>2
  <2>4. ASSUME NEW i \in DOMAIN r, NEW j \in DOMAIN r,
               IsOwn(r[i], p), IsOwn(r[j], p), i < j
        PROVE  r[i][2] < r[j][2]
    <3>1. i # n + 1
      BY <1>4, <2>4
    <3>2. i \in DOMAIN q /\ r[i] = q[i] /\ IsOwn(q[i], p)
      BY <1>2, <2>4, <3>1
    <3>3. CASE j = n + 1
      <4>1. r[i][2] \in a..b
        BY <1>1, <3>2
      <4>2. r[j][2] = b + 1
        BY <2>1, <3>3
      <4> QED
        BY <4>1, <4>2
    <3>4. CASE j # n + 1
      <4>1. j \in DOMAIN q /\ r[j] = q[j]
        BY <1>2, <3>4
      <4> QED
        BY <1>1, <2>4, <3>2, <4>1
    <3> QED
      BY <3>3, <3>4
  <2>5. b + 1 \in Nat
    OBVIOUS
  <2> QED
    BY <2>2, <2>3, <2>4, <2>5, HoldsMeans
<1> QED
  BY <1>5, <1>6

(* One text less at the head: of another kind, or the first delta. *)
LEMMA HoldsShorter ==
    ASSUME NEW q, NEW r, NEW n \in Nat, DOMAIN q = 1..(n + 1), DOMAIN r = 1..n,
           \A i \in 1..n : r[i] = q[i + 1],
           NEW p, NEW a \in Nat, NEW b \in Nat, Holds(q, p, a, b)
    PROVE  /\ ~IsOwn(q[1], p) => Holds(r, p, a, b)
           /\ IsOwn(q[1], p) => q[1][2] = a /\ a <= b /\ Holds(r, p, a + 1, b)
<1>1. /\ \A i \in DOMAIN q : IsOwn(q[i], p) => q[i][2] \in a..b
      /\ \A m \in a..b : \E i \in DOMAIN q : IsOwn(q[i], p) /\ q[i][2] = m
      /\ \A i, j \in DOMAIN q : IsOwn(q[i], p) /\ IsOwn(q[j], p) /\ i < j => q[i][2] < q[j][2]
  BY HoldsMeans
<1>2. \A i \in DOMAIN r : i \in Nat /\ i + 1 \in DOMAIN q /\ r[i] = q[i + 1] /\ 1 < i + 1
  OBVIOUS
<1>3. \A i \in DOMAIN q : i = 1 \/ (i - 1 \in DOMAIN r /\ r[i - 1] = q[i])
  OBVIOUS
<1>4. 1 \in DOMAIN q
  OBVIOUS
<1>5. \A i, j \in DOMAIN r : IsOwn(r[i], p) /\ IsOwn(r[j], p) /\ i < j => r[i][2] < r[j][2]
  <2> SUFFICES ASSUME NEW i \in DOMAIN r, NEW j \in DOMAIN r,
                      IsOwn(r[i], p), IsOwn(r[j], p), i < j
               PROVE  r[i][2] < r[j][2]
    OBVIOUS
  <2>1. /\ i + 1 \in DOMAIN q /\ j + 1 \in DOMAIN q /\ i + 1 < j + 1
        /\ r[i] = q[i + 1] /\ r[j] = q[j + 1]
    BY <1>2
  <2> QED
    BY <1>1, <2>1
<1>6. ASSUME ~IsOwn(q[1], p)
      PROVE  Holds(r, p, a, b)
  <2>1. \A i \in DOMAIN r : IsOwn(r[i], p) => r[i][2] \in a..b
    BY <1>1, <1>2
  <2>2. \A m \in a..b : \E i \in DOMAIN r : IsOwn(r[i], p) /\ r[i][2] = m
    <3> SUFFICES ASSUME NEW m \in a..b
                 PROVE  \E i \in DOMAIN r : IsOwn(r[i], p) /\ r[i][2] = m
      OBVIOUS
    <3>1. PICK i \in DOMAIN q : IsOwn(q[i], p) /\ q[i][2] = m
      BY <1>1
    <3> QED
      BY <1>3, <1>6, <3>1
  <2> QED
    BY <2>1, <2>2, <1>5, HoldsMeans
<1>7. ASSUME IsOwn(q[1], p)
      PROVE  q[1][2] = a /\ a <= b /\ Holds(r, p, a + 1, b)
  <2>1. q[1][2] \in a..b /\ a \in a..b
    BY <1>1, <1>4, <1>7
  <2>2. \A i \in DOMAIN r : IsOwn(r[i], p) => q[1][2] < r[i][2]
    BY <1>1, <1>2, <1>4, <1>7
  <2>3. q[1][2] = a
    <3>1. PICK i \in DOMAIN q : IsOwn(q[i], p) /\ q[i][2] = a
      BY <1>1, <2>1
    <3>2. ASSUME i # 1
          PROVE  FALSE
      <4>1. q[1][2] < a
        BY <1>3, <2>2, <3>1, <3>2
      <4> QED
        BY <2>1, <4>1
    <3> QED
      BY <3>1, <3>2
  <2>4. \A i \in DOMAIN r : IsOwn(r[i], p) => r[i][2] \in (a + 1)..b
    <3>1. \A i \in DOMAIN r : IsOwn(r[i], p) => r[i][2] \in a..b /\ a < r[i][2]
      BY <1>1, <1>2, <2>2, <2>3
    <3> QED
      BY <3>1
  <2>5. \A m \in (a + 1)..b : \E i \in DOMAIN r : IsOwn(r[i], p) /\ r[i][2] = m
    <3> SUFFICES ASSUME NEW m \in (a + 1)..b
                 PROVE  \E i \in DOMAIN r : IsOwn(r[i], p) /\ r[i][2] = m
      OBVIOUS
    <3>1. m \in a..b /\ m # a
      OBVIOUS
    <3>2. PICK i \in DOMAIN q : IsOwn(q[i], p) /\ q[i][2] = m
      BY <1>1, <3>1
    <3>3. i # 1
      BY <2>3, <3>1, <3>2
    <3> QED
      BY <1>3, <3>2, <3>3
  <2> DEFINE c == a + 1
  <2>6. c \in Nat
    OBVIOUS
  <2> HIDE DEF c
  <2>7. Holds(r, p, c, b)
    BY <2>4, <2>5, <2>6, <1>5, HoldsMeans DEF c
  <2> QED
    BY <2>1, <2>3, <2>7 DEF c
<1> QED
  BY <1>6, <1>7

-----------------------------------------------------------------------------
(* The texts that were sent, and those of the events that wait. *)
Sent(chunks) == [i \in DOMAIN chunks |-> chunks[i].text]
TextOf(ev) == IF ev.type = "message.part.delta" THEN ev.text ELSE <<>>
Unread(events) == [i \in DOMAIN events |-> TextOf(events[i])]

(* Of the deltas of p up to m, chunks holds the first ones and events the  *)
(* rest.                                                                   *)
Shares(chunks, events, p, m) ==
    \E n \in 0..m : /\ Holds(Sent(chunks), p, 1, n)
                    /\ Holds(Unread(events), p, n + 1, m)

LEMMA SeqEnds ==
    ASSUME NEW q, IsSeq(q)
    PROVE  /\ DOMAIN q = 1..Len(q) /\ Len(q) \in Nat
           /\ \A e : /\ DOMAIN Append(q, e) = 1..(Len(q) + 1) /\ IsSeq(Append(q, e))
                     /\ \A i \in 1..Len(q) : Append(q, e)[i] = q[i]
                     /\ Append(q, e)[Len(q) + 1] = e
           /\ q # <<>> => /\ Len(q) - 1 \in Nat /\ Head(q) = q[1] /\ IsSeq(Tail(q))
                          /\ DOMAIN Tail(q) = 1..(Len(q) - 1)
                          /\ \A i \in 1..(Len(q) - 1) : Tail(q)[i] = q[i + 1]
<1>1. PICK S : q \in Seq(S)
  BY DEF IsSeq
<1>2. DOMAIN q = 1..Len(q) /\ Len(q) \in Nat
  BY <1>1
<1>3. ASSUME NEW e
      PROVE  /\ DOMAIN Append(q, e) = 1..(Len(q) + 1) /\ IsSeq(Append(q, e))
             /\ \A i \in 1..Len(q) : Append(q, e)[i] = q[i]
             /\ Append(q, e)[Len(q) + 1] = e
  <2>1. 1..(Len(q) + 1) = 1..Len(q) \cup {Len(q) + 1}
    BY <1>2
  <2> QED
    BY <1>2, <2>1, AppendAny
<1>4. ASSUME q # <<>>
      PROVE  /\ Len(q) - 1 \in Nat /\ Head(q) = q[1] /\ Tail(q) \in Seq(S)
             /\ DOMAIN Tail(q) = 1..(Len(q) - 1)
             /\ \A i \in 1..(Len(q) - 1) : Tail(q)[i] = q[i + 1]
  BY <1>1, <1>4
<1> QED
  BY <1>2, <1>3, <1>4 DEF IsSeq

LEMMA SentGrows ==
    ASSUME NEW o, IsSeq(o), NEW e, NEW p, NEW n \in Nat, Holds(Sent(o), p, 1, n)
    PROVE  /\ ~IsOwn(e.text, p) => Holds(Sent(Append(o, e)), p, 1, n)
           /\ e.text = <<p, n + 1>> => Holds(Sent(Append(o, e)), p, 1, n + 1)
<1> DEFINE q == Sent(o)
           r == Sent(Append(o, e))
           l == Len(o)
<1>1. /\ l \in Nat /\ DOMAIN q = 1..l /\ DOMAIN r = 1..(l + 1)
      /\ \A i \in 1..l : r[i] = q[i]
      /\ r[l + 1] = e.text
  <2>1. l + 1 \in 1..(l + 1) /\ 1..l \subseteq 1..(l + 1)
    BY SeqEnds
  <2> QED
    BY <2>1, SeqEnds DEF Sent
<1>2. Holds(q, p, 1, n) /\ 1 \in Nat /\ 1 <= n + 1
  OBVIOUS
<1> HIDE DEF q, r, l
<1>3. /\ ~IsOwn(r[l + 1], p) => Holds(r, p, 1, n)
      /\ r[l + 1] = <<p, n + 1>> /\ 1 <= n + 1 => Holds(r, p, 1, n + 1)
  BY <1>1, <1>2, HoldsLonger
<1> QED
  BY <1>1, <1>2, <1>3 DEF r

LEMMA UnreadGrows ==
    ASSUME NEW v, IsSeq(v), NEW ev, NEW p, NEW a \in Nat, NEW b \in Nat,
           Holds(Unread(v), p, a, b)
    PROVE  /\ ~IsOwn(TextOf(ev), p) => Holds(Unread(Append(v, ev)), p, a, b)
           /\ TextOf(ev) = <<p, b + 1>> /\ a <= b + 1
                 => Holds(Unread(Append(v, ev)), p, a, b + 1)
<1> DEFINE q == Unread(v)
           r == Unread(Append(v, ev))
           l == Len(v)
<1>1. /\ l \in Nat /\ DOMAIN q = 1..l /\ DOMAIN r = 1..(l + 1)
      /\ \A i \in 1..l : r[i] = q[i]
      /\ r[l + 1] = TextOf(ev)
  <2>1. l + 1 \in 1..(l + 1) /\ 1..l \subseteq 1..(l + 1)
    BY SeqEnds
  <2> QED
    BY <2>1, SeqEnds DEF Unread
<1>2. Holds(q, p, a, b)
  OBVIOUS
<1> HIDE DEF q, r, l
<1>3. /\ ~IsOwn(r[l + 1], p) => Holds(r, p, a, b)
      /\ r[l + 1] = <<p, b + 1>> /\ a <= b + 1 => Holds(r, p, a, b + 1)
  BY <1>1, <1>2, HoldsLonger
<1> QED
  BY <1>1, <1>3 DEF r

LEMMA UnreadShrinks ==
    ASSUME NEW v, IsSeq(v), v # <<>>, NEW p, NEW a \in Nat, NEW b \in Nat,
           Holds(Unread(v), p, a, b)
    PROVE  LET x == TextOf(Head(v))
           IN  /\ ~IsOwn(x, p) => Holds(Unread(Tail(v)), p, a, b)
               /\ IsOwn(x, p) => /\ x[2] = a /\ a <= b
                                 /\ Holds(Unread(Tail(v)), p, a + 1, b)
<1> DEFINE q == Unread(v)
           r == Unread(Tail(v))
           l == Len(v) - 1
<1>1. /\ l \in Nat /\ DOMAIN q = 1..(l + 1) /\ DOMAIN r = 1..l
      /\ \A i \in 1..l : r[i] = q[i + 1]
      /\ q[1] = TextOf(Head(v))
  <2>1. l \in Nat /\ l + 1 = Len(v)
    BY SeqEnds
  <2>2. \A i \in 1..l : i + 1 \in 1..(l + 1)
    BY <2>1
  <2>3. 1 \in 1..(l + 1)
    BY <2>1
  <2> QED
    BY <2>1, <2>2, <2>3, SeqEnds DEF Unread
<1>2. Holds(q, p, a, b)
  OBVIOUS
<1> HIDE DEF q, r, l
<1>3. /\ ~IsOwn(q[1], p) => Holds(r, p, a, b)
      /\ IsOwn(q[1], p) => q[1][2] = a /\ a <= b /\ Holds(r, p, a + 1, b)
  BY <1>1, <1>2, HoldsShorter
<1> QED
  BY <1>1, <1>3 DEF r

(* An event joins those that wait, or a chunk is sent, that is no delta of *)
(* p; the next delta of p is published.                                    *)
LEMMA SharesGrow ==
    ASSUME NEW o, NEW v, NEW p, NEW m \in Nat, Shares(o, v, p, m), NEW e
    PROVE  /\ IsSeq(v) /\ ~IsOwn(TextOf(e), p) => Shares(o, Append(v, e), p, m)
           /\ IsSeq(v) /\ TextOf(e) = <<p, m + 1>> => Shares(o, Append(v, e), p, m + 1)
           /\ IsSeq(o) /\ ~IsOwn(e.text, p) => Shares(Append(o, e), v, p, m)
<1>1. PICK n \in 0..m : Holds(Sent(o), p, 1, n) /\ Holds(Unread(v), p, n + 1, m)
  BY DEF Shares
<1>2. n \in Nat /\ n + 1 \in Nat /\ n + 1 <= m + 1 /\ n \in 0..(m + 1) /\ m + 1 \in Nat
  OBVIOUS
<1> DEFINE c == n + 1
<1>3. Holds(Unread(v), p, c, m) /\ c \in Nat /\ c <= m + 1
  BY <1>1, <1>2
<1> HIDE DEF c
<1>4. ASSUME IsSeq(v)
      PROVE  /\ ~IsOwn(TextOf(e), p) => Holds(Unread(Append(v, e)), p, c, m)
             /\ TextOf(e) = <<p, m + 1>> => Holds(Unread(Append(v, e)), p, c, m + 1)
  BY <1>3, <1>4, UnreadGrows
<1>5. ASSUME IsSeq(o), ~IsOwn(e.text, p)
      PROVE  Holds(Sent(Append(o, e)), p, 1, n)
  BY <1>1, <1>2, <1>5, SentGrows
<1> QED
  BY <1>1, <1>2, <1>3, <1>4, <1>5 DEF Shares, c

(* The first event is read: no delta of p, or its text is sent at once. *)
LEMMA SharesRead ==
    ASSUME NEW o, NEW v, IsSeq(v), v # <<>>, NEW p, NEW m \in Nat, Shares(o, v, p, m)
    PROVE  /\ ~IsOwn(TextOf(Head(v)), p) => Shares(o, Tail(v), p, m)
           /\ \A e, x : /\ IsSeq(o) /\ e.text = TextOf(Head(v)) /\ e.text = <<p, x>>
                        => Shares(Append(o, e), Tail(v), p, m)
<1>1. PICK n \in 0..m : Holds(Sent(o), p, 1, n) /\ Holds(Unread(v), p, n + 1, m)
  BY DEF Shares
<1> DEFINE c == n + 1
<1>2. n \in Nat /\ c \in Nat
  OBVIOUS
<1>3. Holds(Unread(v), p, c, m)
  BY <1>1
<1> HIDE DEF c
<1>4. ASSUME ~IsOwn(TextOf(Head(v)), p)
      PROVE  Holds(Unread(Tail(v)), p, c, m)
  BY <1>2, <1>3, <1>4, UnreadShrinks
<1>5. ASSUME NEW e, NEW x, IsSeq(o), e.text = TextOf(Head(v)), e.text = <<p, x>>
      PROVE  Shares(Append(o, e), Tail(v), p, m)
  <2>1. IsOwn(TextOf(Head(v)), p) /\ TextOf(Head(v))[2] = x
    <3>1. IsOwn(<<p, x>>, p) /\ <<p, x>>[2] = x
      BY DEF IsOwn
    <3> QED
      BY <1>5, <3>1
  <2>2. x = c /\ c <= m /\ Holds(Unread(Tail(v)), p, c + 1, m)
    BY <2>1, <1>2, <1>3, UnreadShrinks
  <2>3. e.text = <<p, n + 1>>
    BY <2>2, <1>5 DEF c
  <2>4. Holds(Sent(Append(o, e)), p, 1, n + 1)
    BY <2>3, <1>1, <1>2, <1>5, SentGrows
  <2>5. c \in 0..m
    BY <1>2, <2>2
  <2> QED
    BY <2>2, <2>4, <2>5 DEF Shares, c
<1> QED
  BY <1>1, <1>4, <1>5 DEF Shares, c

-----------------------------------------------------------------------------
(* The answer of a stream.  A delta that waits is of a prompt of its       *)
(* session.                                                                *)
Named(ev) == ev.type = "message.part.delta" =>
                \E p \in Prompts, n \in Nat : ev = Delta(SessionOf[p], p, n)

(* The events that may complete a stream of session k. *)
Idles(ev, k) == \/ ev.type = "session.idle" /\ ev.session = k
                \/ ev.type = "session.status" /\ ev.session = k /\ ev.status = "idle"
Told(s) == \E i \in DOMAIN inbox[s] : Idles(inbox[s][i], SessionOf[s])

Before == {"acquire", "subscribe", "connect", "prompt", "posting", "role", "stream"}
Reading == {"connect", "prompt", "posting", "role", "stream"}

(* The session of a stream that nobody else uses: it has not accepted the  *)
(* prompt of the stream, or it waits, runs, settles or is done.            *)
Alone(s) ==
    LET k == SessionOf[s]
    IN  \/ run[k] = Free /\ queue[k] = <<>> /\ (s \in accepted => s \in finished)
        \/ run[k] = Free /\ queue[k] = <<s>>
        \/ run[k] \in {Running(s), Settling(s)} /\ queue[k] = <<>>
Accompanied == \A s \in Streams : s \notin disturbed /\ Listening(s) => Alone(s)

FeedFacts(s) == /\ pc[s] \in {"acquire", "subscribe"} => feed[s] = "none"
                /\ feed[s] = "none" => inbox[s] = <<>>
                /\ \A i \in DOMAIN inbox[s] : Named(inbox[s][i])

(* While a stream reads, it has sent the first of its deltas and the rest  *)
(* waits, unless the subscription broke before the run was over.           *)
ShareFacts(s) ==
    pc[s] \in Reading /\ (Listening(s) \/ (s \notin disturbed /\ Told(s)))
       => Shares(out[s], inbox[s], s, sent[s])

(* An idle that waits is that of the run of the stream, and no delta of    *)
(* the stream comes after it.                                              *)
EndFacts(s) ==
    s \notin disturbed =>
       \A i \in DOMAIN inbox[s] : Idles(inbox[s][i], SessionOf[s]) =>
          /\ s \in finished
          /\ \A j \in DOMAIN inbox[s] : i < j => ~IsOwn(TextOf(inbox[s][j]), s)

CompleteFacts(s) ==
    /\ pc[s] \in Before => ~HasChunk(s, "stop")
    /\ s \notin disturbed /\ Completed(s)
          => s \in finished /\ Holds(Sent(out[s]), s, 1, sent[s])

AnswerFacts(s) == FeedFacts(s) /\ ShareFacts(s) /\ EndFacts(s) /\ CompleteFacts(s)

(* A step leaves what a stream reads and wrote, or only its place changes. *)
Still(t) ==
    /\ UNCHANGED sessionVars
    /\ out'[t] = out[t] /\ inbox'[t] = inbox[t] /\ feed'[t] = feed[t]
    /\ t \in disturbed' <=> t \in disturbed
    /\ pc'[t] \in {"acquire", "subscribe"} => pc[t] \in {"acquire", "subscribe"}
    /\ pc'[t] \in Reading => pc[t] \in Reading
    /\ pc'[t] \in Before => pc[t] \in Before

(* The steps that do more to stream t than that. *)
Moves(t) ==
    \/ SubscribeEvents(t) \/ AwaitConnected(t) \/ StreamEvent(t) \/ StreamFails(t)
    \/ WriteRole(t) \/ UsageFound(t) \/ WriteDone(t) \/ Return(t)
    \/ (Greet(t) \/ BreakFeed(t)) /\ UNCHANGED <<handlerVars, disturbed>>

LEMMA StreamSteps ==
    ASSUME Shape, StreamSets, InboxFacts, [Next]_vars, NEW t \in Streams
    PROVE  \/ Moves(t) \/ Still(t)
           \/ \E p \in Prompts : AcceptPrompt(p)
           \/ \E k \in Keys : SessionStep(k) /\ UNCHANGED <<handlerVars, disturbed>>
<1>0. DOMAIN inbox = Streams /\ DOMAIN feed = Streams
  BY DEF InboxFacts, StreamSets
<1>1. ASSUME NEW s \in Streams, s # t, HandlerStep(s)
      PROVE  Still(t)
  <2>1. UNCHANGED sessionVars
    BY <1>1 DEF HandlerStep, AcquireGrant, AcquireFails, SubscribeEvents, CallFails,
       AwaitConnected, ConnectFails, PromptAsync, PromptAccepted, WriteRole, StreamEvent,
       StreamFails, UsageFound, UsageMissing, WriteDone, Touch, Return, openCodeVars
  <2>2. \E place : pc' = pc \/ pc' = [pc EXCEPT ![s] = place]
    BY <1>1 DEF HandlerStep, AcquireGrant, AcquireFails, SubscribeEvents, CallFails,
       AwaitConnected, ConnectFails, PromptAsync, PromptAccepted, WriteRole, StreamEvent,
       StreamFails, UsageFound, UsageMissing, WriteDone, Touch, Return, Answer, GoTo,
       WriteThen
  <2>3. \E o : out' = out \/ out' = [out EXCEPT ![s] = o]
    BY <1>1 DEF HandlerStep, AcquireGrant, AcquireFails, SubscribeEvents, CallFails,
       AwaitConnected, ConnectFails, PromptAsync, PromptAccepted, WriteRole, StreamEvent,
       StreamFails, UsageFound, UsageMissing, WriteDone, Touch, Return, WriteThen
  <2>4. \E v, f : /\ inbox' = inbox \/ inbox' = [inbox EXCEPT ![s] = v]
                  /\ feed' = feed \/ feed' = [feed EXCEPT ![s] = f]
    BY <1>1 DEF HandlerStep, AcquireGrant, AcquireFails, SubscribeEvents, CallFails,
       AwaitConnected, ConnectFails, PromptAsync, PromptAccepted, WriteRole, StreamEvent,
       StreamFails, UsageFound, UsageMissing, WriteDone, Touch, Return, Read, Subscribe,
       Close, openCodeVars, feedVars
  <2>5. disturbed' \in {disturbed, disturbed \cup {s}}
    BY <1>1 DEF HandlerStep, AcquireGrant, AcquireFails, SubscribeEvents, CallFails,
       AwaitConnected, ConnectFails, PromptAsync, PromptAccepted, WriteRole, StreamEvent,
       StreamFails, UsageFound, UsageMissing, WriteDone, Touch, Return
  <2>6. pc'[t] = pc[t]
    BY <1>1, <2>2 DEF Shape
  <2>7. out'[t] = out[t]
    BY <1>1, <2>3 DEF Shape
  <2>8. inbox'[t] = inbox[t] /\ feed'[t] = feed[t]
    BY <1>0, <1>1, <2>4
  <2> QED
    BY <1>1, <2>1, <2>5, <2>6, <2>7, <2>8 DEF Still
<1>2. ASSUME HandlerStep(t), ~Moves(t)
      PROVE  Still(t)
  <2>1. \/ AcquireGrant(t) \/ AcquireFails(t) \/ CallFails(t) \/ ConnectFails(t)
        \/ PromptAsync(t) \/ PromptAccepted(t) \/ UsageMissing(t) \/ Touch(t)
    BY <1>2 DEF HandlerStep, Moves
  <2>2. UNCHANGED <<sessionVars, out, inbox, feed, disturbed>>
    BY <2>1 DEF AcquireGrant, AcquireFails, CallFails, ConnectFails, PromptAsync,
       PromptAccepted, UsageMissing, Touch, openCodeVars, feedVars
  <2>3. \/ pc[t] = "acquire" /\ GoTo(t, "subscribe")
        \/ pc[t] = "prompt" /\ GoTo(t, "posting")
        \/ pc[t] = "posting" /\ GoTo(t, "role")
        \/ GoTo(t, "return")
        \/ pc[t] = "usage" /\ GoTo(t, "done")
    BY <2>1 DEF AcquireGrant, AcquireFails, CallFails, ConnectFails, PromptAsync,
       PromptAccepted, UsageMissing, Touch, Answer, At
  <2> QED
    BY <2>2, <2>3 DEF Still, GoTo, Shape, Reading, Before
<1>3. ASSUME UNCHANGED <<pc, out, disturbed, openCodeVars>>
      PROVE  Still(t)
  BY <1>3 DEF Still, openCodeVars, feedVars
<1>4. ASSUME NEW s \in Streams, ClientGone(s) \/ WatcherRelease(s)
      PROVE  Still(t)
  BY <1>3, <1>4 DEF ClientGone, WatcherRelease
<1>5. ASSUME NEW s \in Streams, NEW why \in {"deadline", "canceled"}, CtxEnd(s, why)
      PROVE  Still(t)
  BY <1>3, <1>5 DEF CtxEnd
<1>6. ASSUME NEW s \in Streams, s # t, Greet(s) \/ BreakFeed(s),
             UNCHANGED <<handlerVars, disturbed>>
      PROVE  Still(t)
  <2>1. UNCHANGED sessionVars
    BY <1>6 DEF Greet, BreakFeed, sessionVars
  <2>2. inbox'[t] = inbox[t] /\ feed'[t] = feed[t]
    BY <1>0, <1>6 DEF Greet, BreakFeed
  <2>3. UNCHANGED <<pc, out, disturbed>>
    BY <1>6 DEF handlerVars
  <2> QED
    BY <2>1, <2>2, <2>3 DEF Still
<1>7. UNCHANGED vars => Still(t)
  BY <1>3 DEF vars, handlerVars
<1>8. CASE OpenCodeStep
  <2>1. ASSUME NEW s \in Streams, Greet(s) \/ BreakFeed(s),
               UNCHANGED <<handlerVars, disturbed>>
        PROVE  Moves(t) \/ Still(t)
    BY <2>1, <1>6 DEF Moves
  <2> QED
    BY <1>8, <2>1 DEF OpenCodeStep
<1> QED
  BY <1>1, <1>2, <1>4, <1>5, <1>7, <1>8 DEF Next

-----------------------------------------------------------------------------
LEMMA AloneSame ==
    ASSUME NEW s \in Streams, Alone(s), UNCHANGED run, queue'[SessionOf[s]] = queue[SessionOf[s]],
           s \in accepted' => s \in accepted, finished \subseteq finished'
    PROVE  Alone(s)'
BY DEF Alone

LEMMA OneElement ==
    ASSUME NEW e
    PROVE  /\ Append(<<>>, e) = <<e>> /\ Head(<<e>>) = e /\ Tail(<<e>>) = <<>>
           /\ <<e>> # <<>> /\ DOMAIN <<e>> = {1} /\ <<e>>[1] = e
OBVIOUS

(* The session of an undisturbed stream stays its own. *)
LEMMA AloneSession ==
    ASSUME SessionFacts, NEW s \in Streams, Alone(s), NEW j \in Keys, SessionStep(j)
    PROVE  Alone(s)'
<1> DEFINE k == SessionOf[s]
<1>1. k \in Keys /\ s \in Prompts
  BY OpenCodeAssumption DEF OpenCodeAssumption, Prompts
<1>2. accepted' = accepted /\ finished \subseteq finished'
  BY DEF SessionStep, StartRun, EmitDelta, EndRun, Settle, PublishDiff
<1>3. CASE j # k
  <2>1. queue'[k] = queue[k] /\ run'[k] = run[k]
    BY <1>1, <1>3 DEF SessionFacts, SessionStep, StartRun, EmitDelta, EndRun, Settle, PublishDiff
  <2> QED
    BY <1>2, <2>1 DEF Alone
<1>4. CASE j = k
  <2>1. run = [i \in Keys |-> run[i]] /\ queue = [i \in Keys |-> queue[i]]
    BY DEF SessionFacts
  <2>2. CASE StartRun(k)
    <3>1. queue[k] = <<s>> /\ run[k] = Free
      BY <2>2, Stages DEF StartRun, Alone
    <3>2. run'[k] = Running(s) /\ queue'[k] = <<>>
      BY <1>1, <2>1, <2>2, <3>1, OneElement DEF StartRun
    <3> QED
      BY <3>2 DEF Alone
  <2>3. CASE EndRun(k)
    <3>1. run[k] = Running(s) /\ queue[k] = <<>>
      BY <2>3, Stages DEF EndRun, Alone
    <3>2. run'[k] = Settling(s) /\ queue'[k] = <<>>
      BY <1>1, <2>1, <2>3, <3>1, Stages DEF EndRun
    <3> QED
      BY <3>2 DEF Alone
  <2>4. CASE Settle(k)
    <3>1. run[k] = Settling(s) /\ queue[k] = <<>>
      BY <2>4, Stages DEF Settle, Alone
    <3>2. s \in finished
      <4>1. run[j].stage = "settling"
        BY <1>4, <2>4 DEF Settle
      <4>2. PICK p \in Prompts : run[j] = Settling(p) /\ p \in finished
        BY <4>1, AtWork
      <4> QED
        BY <1>4, <3>1, <4>2, Stages
    <3>3. run'[k] = Free /\ queue'[k] = <<>>
      BY <1>1, <2>1, <2>4, <3>1 DEF Settle
    <3> QED
      BY <1>2, <3>2, <3>3 DEF Alone
  <2>5. CASE EmitDelta(k) \/ PublishDiff(k)
    BY <2>5, <1>2, AloneSame DEF EmitDelta, PublishDiff
  <2> QED
    BY <1>4, <2>2, <2>3, <2>4, <2>5 DEF SessionStep
<1> QED
  BY <1>3, <1>4

LEMMA AloneAccept ==
    ASSUME SessionFacts, NEW s \in Streams, Alone(s), Listening(s), s \notin disturbed',
           NEW p \in Prompts, AcceptPrompt(p)
    PROVE  Alone(s)'
<1> DEFINE k == SessionOf[s]
<1>1. k \in Keys /\ s \in Prompts
  BY OpenCodeAssumption DEF OpenCodeAssumption, Prompts
<1>2. /\ p \notin accepted /\ accepted' = accepted \cup {p} /\ UNCHANGED <<run, finished>>
      /\ queue' = [queue EXCEPT ![SessionOf[p]] = Append(@, p)]
  BY DEF AcceptPrompt, Accept
<1>3. CASE p # s
  <2>1. SessionOf[p] # k
    BY <1>3 DEF AcceptPrompt
  <2>2. queue'[k] = queue[k]
    BY <1>2, <2>1
  <2> QED
    BY <1>2, <1>3, <2>2, AloneSame
<1>4. CASE p = s
  <2>1. SessionOK(k)
    BY <1>1 DEF SessionFacts
  <2>2. run[k] = Free /\ queue[k] = <<>>
    <3>1. queue[k] # <<s>>
      BY <1>2, <1>4, <2>1, OneElement DEF SessionOK
    <3>2. run[k] # Running(s) /\ run[k] # Settling(s)
      BY <1>2, <1>4, <2>1, Stages DEF SessionOK, Runs
    <3> QED
      BY <3>1, <3>2 DEF Alone
  <2>3. queue'[k] = <<s>>
    BY <1>1, <1>2, <1>4, <2>2, OneElement DEF SessionFacts
  <2> QED
    BY <1>2, <2>2, <2>3 DEF Alone
<1> QED
  BY <1>3, <1>4

LEMMA AccompaniedStep ==
    Typed /\ Prompted /\ Accompanied /\ [Next]_vars => Accompanied'
<1> SUFFICES ASSUME Typed, Prompted, Accompanied, [Next]_vars,
                    NEW t \in Streams, t \notin disturbed', Listening(t)'
             PROVE  Alone(t)'
  BY DEF Accompanied
<1>0. Shape /\ SessionFacts /\ StreamSets /\ InboxFacts
  BY DEF Typed
<1>1. ASSUME UNCHANGED sessionVars, Alone(t)
      PROVE  Alone(t)'
  BY <1>1, AloneSame DEF sessionVars
<1>2. CASE Still(t)
  BY <1>1, <1>2 DEF Still, Accompanied, Listening
<1>3. CASE SubscribeEvents(t)
  <2>1. t \notin accepted
    BY <1>3 DEF Prompted, PromptFacts, SubscribeEvents, At
  <2>2. run[SessionOf[t]] = Free /\ queue[SessionOf[t]] = <<>>
    BY <1>3 DEF SubscribeEvents, Occupied
  <2>3. UNCHANGED sessionVars
    BY <1>3 DEF SubscribeEvents
  <2> QED
    BY <1>1, <2>1, <2>2, <2>3 DEF Alone
<1>4. CASE Moves(t) /\ ~SubscribeEvents(t)
  <2>1. UNCHANGED <<sessionVars, disturbed>>
    BY <1>4 DEF Moves, AwaitConnected, StreamEvent, StreamFails, WriteRole, UsageFound,
       WriteDone, Return, Greet, BreakFeed, openCodeVars, sessionVars
  <2>2. Listening(t)
    <3>1. \/ feed' = feed \/ feed[t] = "silent" \/ feed[t] = "open"
          \/ feed' = [feed EXCEPT ![t] = "closed"]
      BY <1>4 DEF Moves, AwaitConnected, StreamEvent, StreamFails, WriteRole, UsageFound,
         WriteDone, Return, Greet, BreakFeed, Read, Close, Listening, openCodeVars, feedVars
    <3> QED
      BY <1>0, <3>1 DEF Listening, StreamSets
  <2> QED
    BY <1>1, <2>1, <2>2 DEF Accompanied
<1>5. ASSUME NEW p \in Prompts, AcceptPrompt(p)
      PROVE  Alone(t)'
  <2>1. t \notin disturbed /\ Listening(t)
    BY <1>5 DEF AcceptPrompt, Accept, Publish, Listening
  <2> QED
    BY <1>0, <1>5, <2>1, AloneAccept DEF Accompanied
<1>6. ASSUME NEW k \in Keys, SessionStep(k), UNCHANGED <<handlerVars, disturbed>>
      PROVE  Alone(t)'
  <2>1. t \notin disturbed /\ Listening(t)
    BY <1>6 DEF SessionStep, StartRun, EmitDelta, EndRun, Settle, PublishDiff, Publish,
       Listening
  <2> QED
    BY <1>0, <1>6, <2>1, AloneSession DEF Accompanied
<1> QED
  BY <1>0, <1>2, <1>3, <1>4, <1>5, <1>6, StreamSteps

-----------------------------------------------------------------------------
(* What comes of an event that is read: only an idle of the session        *)
(* completes, a delta of the stream is shown at once, and what else is     *)
(* shown is no delta of the stream.                                        *)
LEMMA Handled ==
    ASSUME NEW s \in Streams, NEW m, m.session = SessionOf[s], NEW ev, Named(ev)
    PROVE  LET action == Handle(m, ev).action
           IN  /\ action.kind = "complete" =>
                     Idles(ev, SessionOf[s]) /\ ~IsOwn(TextOf(ev), s)
               /\ action.kind \in {"assistant_text_delta", "safe_progress_markdown"} =>
                     \/ ~IsOwn(action.text, s) /\ ~IsOwn(TextOf(ev), s)
                     \/ action.text = TextOf(ev) /\ \E x : TextOf(ev) = <<s, x>>
               /\ action.kind \notin {"assistant_text_delta", "safe_progress_markdown"} =>
                     ~IsOwn(TextOf(ev), s)
<1> DEFINE action == Handle(m, ev).action
           k == SessionOf[s]
           shown == {"assistant_text_delta", "safe_progress_markdown"}
<1>1. Ignore(m).action.kind = "ignore"
  BY DEF Ignore, Action
<1>2. ~IsOwn(<<>>, s)
  BY OwnDelta
<1>3. CASE ev.type = "message.part.delta"
  <2>1. PICK p \in Prompts, n \in Nat : ev = Delta(SessionOf[p], p, n)
    BY <1>3 DEF Named
  <2>2. /\ ev.session = SessionOf[p] /\ ev.field = "text" /\ ev.text = <<p, n>>
        /\ TextOf(ev) = <<p, n>>
    BY <2>1 DEF Delta, TextOf
  <2>3. <<p, n>> # <<>>
    OBVIOUS
  <2>6. p # s => ~IsOwn(<<p, n>>, s)
    BY OwnDelta
  <2>4. CASE ev.session = k
    <3>1. Handle(m, ev) = HandleDelta(m, ev)
      BY <1>3, <2>4 DEF Handle, HandleTarget
    <3>2. action.kind = "assistant_text_delta" /\ action.text = TextOf(ev)
      BY <2>2, <2>3, <3>1 DEF HandleDelta, Action
    <3>3. p # s => ~IsOwn(TextOf(ev), s)
      BY <2>2, <2>6
    <3> QED
      BY <2>2, <3>2, <3>3
  <2>5. CASE ev.session # k
    <3>1. action.kind = "ignore"
      BY <1>1, <1>3, <2>5 DEF Handle
    <3>2. p # s
      BY <2>2, <2>5
    <3>3. ~IsOwn(TextOf(ev), s)
      BY <2>2, <2>6, <3>2
    <3> QED
      BY <3>1, <3>3
  <2> QED
    BY <2>4, <2>5
<1>4. CASE ev.type # "message.part.delta"
  <2>1. TextOf(ev) = <<>>
    BY <1>4 DEF TextOf
  <2>2. \A label : HandleProgress(m, label).action.kind \in {"ignore", "safe_progress_markdown"}
    BY <1>1 DEF HandleProgress, Action
  <2>3. \A label : HandleProgress(m, label).action.kind = "safe_progress_markdown" =>
           HandleProgress(m, label).action.text = <<label>>
    BY <1>1 DEF HandleProgress, Action
  <2>4. HandleDiff(m).action \in {Ignore(m).action, HandleProgress(m, "diff").action}
    <3>1. HandleProgress(m, "diff").action =
             [HandleProgress(m, "diff") EXCEPT !.mapper.diffProgress = TRUE].action
      BY DEF HandleProgress, Ignore
    <3> QED
      BY <3>1 DEF HandleDiff
  <2>5. \A status : /\ HandleStatus(m, status).action.kind \in {"ignore", "complete"}
                    /\ HandleStatus(m, status).action.kind = "complete" => status = "idle"
    BY <1>1 DEF HandleStatus, Ignore, Action
  <2>6. \A label : ~IsOwn(<<label>>, s)
    BY OwnDelta
  <2>7. CASE Handle(m, ev) = HandleTarget(m, ev) /\ ev.session = k
    <3>1. CASE ev.type = "session.status"
      BY <2>1, <2>5, <2>7, <3>1, <1>2 DEF HandleTarget, Idles
    <3>2. CASE ev.type = "session.idle"
      BY <2>1, <2>5, <2>7, <3>2, <1>2 DEF HandleTarget, Idles
    <3>3. CASE ev.type = "message.part.updated"
      <4>1. Handle(m, ev) = HandleProgress(m, PartLabel(ev))
        BY <2>7, <3>3 DEF HandleTarget
      <4> QED
        BY <4>1, <2>1, <2>2, <2>3, <2>6, <1>2
    <3>4. CASE ev.type = "session.diff"
      <4>1. Handle(m, ev) = HandleDiff(m)
        BY <2>7, <3>4 DEF HandleTarget
      <4> QED
        BY <4>1, <1>1, <2>1, <2>2, <2>3, <2>4, <2>6, <1>2
    <3>5. CASE ev.type \notin {"session.status", "session.idle", "message.part.updated",
                              "session.diff"}
      BY <1>1, <1>4, <2>1, <2>7, <3>5, <1>2 DEF HandleTarget
    <3> QED
      BY <3>1, <3>2, <3>3, <3>4, <3>5
  <2>8. CASE action.kind \in {"connected", "ignore"}
    BY <2>1, <2>8, <1>2
  <2> QED
    BY <2>7, <2>8, <1>1 DEF Handle, Action
<1> QED
  BY <1>3, <1>4

-----------------------------------------------------------------------------
(* Nothing a stream reads or sent changes. *)
LEMMA SameKeeps ==
    ASSUME NEW t \in Streams, AnswerFacts(t),
           out'[t] = out[t], inbox'[t] = inbox[t], sent'[t] = sent[t],
           finished \subseteq finished', t \in disturbed => t \in disturbed',
           Listening(t)' => Listening(t), feed'[t] = "none" => feed[t] = "none",
           pc'[t] \in {"acquire", "subscribe"} => feed'[t] = "none",
           pc'[t] \in Reading => pc[t] \in Reading,
           pc'[t] \in Before => pc[t] \in Before
    PROVE  AnswerFacts(t)'
<1>1. FeedFacts(t)'
  BY DEF AnswerFacts, FeedFacts, Named
<1>2. ShareFacts(t)'
  BY DEF AnswerFacts, ShareFacts, Told, Idles
<1>3. EndFacts(t)'
  BY DEF AnswerFacts, EndFacts
<1>4. CompleteFacts(t)'
  BY DEF AnswerFacts, CompleteFacts, Completed, HasChunk, ToldError
<1> QED
  BY <1>1, <1>2, <1>3, <1>4 DEF AnswerFacts

(* An event that is no delta of the stream joins those it has to read. *)
LEMMA GrowKeeps ==
    ASSUME NEW t \in Streams, AnswerFacts(t), IsSeq(inbox[t]), sent[t] \in Nat, NEW ev,
           Named(ev), ~IsOwn(TextOf(ev), t), inbox'[t] = Append(inbox[t], ev),
           out'[t] = out[t], pc'[t] = pc[t], sent'[t] = sent[t],
           finished \subseteq finished', t \in disturbed => t \in disturbed',
           Listening(t), feed'[t] # "none",
           t \notin disturbed' /\ Idles(ev, SessionOf[t]) => t \in finished'
    PROVE  AnswerFacts(t)'
<1> DEFINE v == inbox[t]
           l == Len(v)
           w == Append(v, ev)
<1>1. /\ l \in Nat /\ DOMAIN v = 1..l /\ DOMAIN w = 1..(l + 1)
      /\ \A i \in 1..l : w[i] = v[i]
      /\ w[l + 1] = ev
  BY SeqEnds
<1>2. \A i \in DOMAIN w : (i \in DOMAIN v /\ w[i] = v[i]) \/ (i = l + 1 /\ w[i] = ev)
  BY <1>1
<1>3. feed[t] # "none" /\ pc[t] \notin {"acquire", "subscribe"}
  BY DEF AnswerFacts, FeedFacts, Listening
<1>4. FeedFacts(t)'
  <2>1. \A i \in DOMAIN w : Named(w[i])
    BY <1>2 DEF AnswerFacts, FeedFacts
  <2> HIDE DEF w
  <2>2. inbox'[t] = w
    BY DEF w
  <2> QED
    BY <1>3, <2>1, <2>2 DEF FeedFacts, Named
<1>5. ShareFacts(t)'
  <2> SUFFICES ASSUME pc[t] \in Reading
               PROVE  Shares(out[t], w, t, sent[t])
    BY DEF ShareFacts
  <2>1. Shares(out[t], v, t, sent[t])
    BY DEF AnswerFacts, ShareFacts
  <2> QED
    BY <2>1, SharesGrow
<1>6. EndFacts(t)'
  <2> SUFFICES ASSUME t \notin disturbed', NEW i \in DOMAIN w, Idles(w[i], SessionOf[t])
               PROVE  /\ t \in finished'
                      /\ \A j \in DOMAIN w : i < j => ~IsOwn(TextOf(w[j]), t)
    BY DEF EndFacts
  <2>1. CASE i \in DOMAIN v
    <3>1. /\ t \in finished
          /\ \A j \in DOMAIN v : i < j => ~IsOwn(TextOf(v[j]), t)
      BY <1>1, <2>1 DEF AnswerFacts, EndFacts
    <3> QED
      BY <1>2, <3>1
  <2>2. CASE i = l + 1
    <3>1. t \in finished'
      BY <1>1, <2>2
    <3>2. \A j \in DOMAIN w : ~(i < j)
      BY <1>1, <2>2
    <3> QED
      BY <3>1, <3>2
  <2> QED
    BY <1>2, <2>1, <2>2
<1>7. CompleteFacts(t)'
  BY DEF AnswerFacts, CompleteFacts, Completed, HasChunk, ToldError
<1> QED
  BY <1>4, <1>5, <1>6, <1>7 DEF AnswerFacts

(* The next delta of the stream is published; its run is not over. *)
LEMMA EmitKeeps ==
    ASSUME NEW t \in Streams, AnswerFacts(t), IsSeq(inbox[t]), sent[t] \in Nat,
           t \notin finished, finished' = finished, disturbed' = disturbed,
           NEW ev, ev = Delta(SessionOf[t], t, sent[t] + 1), t \in Prompts,
           inbox'[t] = IF Listening(t) THEN Append(inbox[t], ev) ELSE inbox[t],
           out'[t] = out[t], pc'[t] = pc[t], feed'[t] = feed[t], sent'[t] = sent[t] + 1
    PROVE  AnswerFacts(t)'
<1> DEFINE v == inbox[t]
           l == Len(v)
           w == Append(v, ev)
<1>1. /\ l \in Nat /\ DOMAIN v = 1..l /\ DOMAIN w = 1..(l + 1)
      /\ \A i \in 1..l : w[i] = v[i]
      /\ w[l + 1] = ev
  BY SeqEnds
<1>2. \A i \in DOMAIN w : (i \in DOMAIN v /\ w[i] = v[i]) \/ (i = l + 1 /\ w[i] = ev)
  BY <1>1
<1>3. TextOf(ev) = <<t, sent[t] + 1>> /\ Named(ev) /\ ev.type = "message.part.delta"
  <2>1. sent[t] + 1 \in Nat
    OBVIOUS
  <2> QED
    BY <2>1 DEF Delta, TextOf, Named
<1>4. t \notin disturbed => \A i \in DOMAIN v : ~Idles(v[i], SessionOf[t])
  BY DEF AnswerFacts, EndFacts
<1>5. t \notin disturbed => \A i \in DOMAIN inbox'[t] : ~Idles(inbox'[t][i], SessionOf[t])
  <2>1. ~Idles(ev, SessionOf[t])
    BY <1>3 DEF Idles
  <2> QED
    BY <1>2, <1>4, <2>1
<1>6. FeedFacts(t)'
  <2>1. \A i \in DOMAIN inbox'[t] : Named(inbox'[t][i])
    BY <1>2, <1>3 DEF AnswerFacts, FeedFacts
  <2>2. feed[t] = "none" => ~Listening(t)
    BY DEF Listening
  <2> QED
    BY <2>1, <2>2 DEF AnswerFacts, FeedFacts, Named
<1>7. ShareFacts(t)'
  <2>1. ~(t \notin disturbed /\ Told(t))'
    BY <1>5 DEF Told, Idles
  <2> SUFFICES ASSUME pc[t] \in Reading, Listening(t)
               PROVE  Shares(out[t], w, t, sent[t] + 1)
    BY <2>1 DEF ShareFacts, Listening
  <2>2. Shares(out[t], v, t, sent[t])
    BY DEF AnswerFacts, ShareFacts
  <2> HIDE DEF v
  <2>3. IsSeq(v)
    BY DEF v
  <2> QED
    BY <1>3, <2>2, <2>3, SharesGrow
<1>8. EndFacts(t)'
  BY <1>5 DEF EndFacts, Idles
<1>9. CompleteFacts(t)'
  BY DEF AnswerFacts, CompleteFacts, Completed, HasChunk, ToldError
<1> QED
  BY <1>6, <1>7, <1>8, <1>9 DEF AnswerFacts

(* Publishing: an event of a session that is no delta of stream t. *)
LEMMA PublishAnswer ==
    ASSUME Typed, NEW t \in Streams, AnswerFacts(t), NEW ev, Publish(ev),
           Named(ev), ~IsOwn(TextOf(ev), t), UNCHANGED handlerVars, sent'[t] = sent[t],
           finished \subseteq finished', t \in disturbed => t \in disturbed',
           Listening(t) /\ t \notin disturbed' /\ Idles(ev, SessionOf[t]) => t \in finished'
    PROVE  AnswerFacts(t)'
<1>1. out'[t] = out[t] /\ pc'[t] = pc[t]
  BY DEF handlerVars
<1>2. /\ inbox'[t] = IF Listening(t) THEN Append(inbox[t], ev) ELSE inbox[t]
      /\ feed' = feed
  BY DEF Publish
<1>3. IsSeq(inbox[t])
  BY DEF Typed, InboxFacts
<1>4. sent[t] \in Nat
  BY OpenCodeAssumption DEF OpenCodeAssumption, Typed, SessionFacts, Prompts
<1>5. CASE Listening(t)
  BY <1>1, <1>2, <1>3, <1>4, <1>5, GrowKeeps DEF Listening
<1>6. CASE ~Listening(t)
  <2>1. pc'[t] \in {"acquire", "subscribe"} => feed'[t] = "none"
    BY <1>1, <1>2 DEF AnswerFacts, FeedFacts
  <2>2. Listening(t)' => Listening(t)
    BY <1>2 DEF Listening
  <2>3. inbox'[t] = inbox[t] /\ feed'[t] = feed[t]
    BY <1>2, <1>6
  <2> QED
    BY <1>1, <2>1, <2>2, <2>3, SameKeeps
<1> QED
  BY <1>5, <1>6

LEMMA OtherEvents ==
    ASSUME NEW t, NEW k
    PROVE  /\ \A ev \in {UserPart(k), StatusEvent(k, "busy"), StatusEvent(k, "idle"),
                         IdleEvent(k), DiffEvent(k), Connected} :
                 Named(ev) /\ ~IsOwn(TextOf(ev), t)
           /\ \A j : \A ev \in {UserPart(k), StatusEvent(k, "busy"), DiffEvent(k), Connected} :
                 ~Idles(ev, j)
           /\ \A j : \A ev \in {StatusEvent(k, "idle"), IdleEvent(k)} :
                 Idles(ev, j) => j = k
<1>1. ~IsOwn(<<>>, t)
  BY OwnDelta
<1>2. \A ev \in {UserPart(k), StatusEvent(k, "busy"), StatusEvent(k, "idle"),
                 IdleEvent(k), DiffEvent(k), Connected} : ev.type # "message.part.delta"
  BY DEF UserPart, StatusEvent, IdleEvent, DiffEvent, Connected
<1>3. \A ev \in {UserPart(k), StatusEvent(k, "busy"), StatusEvent(k, "idle"),
                 IdleEvent(k), DiffEvent(k), Connected} : TextOf(ev) = <<>>
  BY <1>2 DEF TextOf
<1>4. \A j : \A ev \in {UserPart(k), StatusEvent(k, "busy"), DiffEvent(k), Connected} :
         ~Idles(ev, j)
  BY DEF Idles, UserPart, StatusEvent, DiffEvent, Connected
<1>5. \A j : \A ev \in {StatusEvent(k, "idle"), IdleEvent(k)} : Idles(ev, j) => j = k
  BY DEF Idles, StatusEvent, IdleEvent
<1> QED
  BY <1>1, <1>2, <1>3, <1>4, <1>5 DEF Named

LEMMA AcceptAnswer ==
    ASSUME Typed, NEW t \in Streams, AnswerFacts(t), NEW p \in Prompts, AcceptPrompt(p)
    PROVE  AnswerFacts(t)'
<1> DEFINE ev == UserPart(SessionOf[p])
<1>1. Named(ev) /\ ~IsOwn(TextOf(ev), t) /\ ~Idles(ev, SessionOf[t])
  BY OtherEvents
<1>2. Publish(ev) /\ UNCHANGED <<handlerVars, sent, finished>> /\ disturbed \subseteq disturbed'
  BY DEF AcceptPrompt, Accept
<1> HIDE DEF ev
<1> QED
  BY <1>1, <1>2, PublishAnswer

LEMMA SessionAnswer ==
    ASSUME Typed, Accompanied, NEW t \in Streams, AnswerFacts(t), NEW k \in Keys,
           SessionStep(k), UNCHANGED <<handlerVars, disturbed>>
    PROVE  AnswerFacts(t)'
<1>1. SessionFacts
  BY DEF Typed
<1>2. ASSUME NEW ev \in {StatusEvent(k, "busy"), DiffEvent(k)}, Publish(ev),
             UNCHANGED <<sent, finished>>
      PROVE  AnswerFacts(t)'
  <2>1. Named(ev) /\ ~IsOwn(TextOf(ev), t) /\ ~Idles(ev, SessionOf[t])
    BY OtherEvents
  <2> QED
    BY <1>2, <2>1, PublishAnswer
<1>3. ASSUME NEW ev \in {StatusEvent(k, "idle"), IdleEvent(k)}, Publish(ev),
             UNCHANGED sent, finished \subseteq finished',
             Listening(t) /\ t \notin disturbed /\ SessionOf[t] = k => t \in finished'
      PROVE  AnswerFacts(t)'
  <2>1. /\ Named(ev) /\ ~IsOwn(TextOf(ev), t)
        /\ Idles(ev, SessionOf[t]) => SessionOf[t] = k
    BY OtherEvents
  <2> QED
    BY <1>3, <2>1, PublishAnswer
<1>4. CASE StartRun(k)
  BY <1>2, <1>4 DEF StartRun
<1>5. CASE PublishDiff(k)
  BY <1>2, <1>5 DEF PublishDiff
<1>6. CASE EndRun(k)
  <2>1. ASSUME Listening(t), t \notin disturbed, SessionOf[t] = k
        PROVE  t \in finished'
    <3>1. run[k] = Running(t)
      BY <1>6, <2>1, Stages DEF EndRun, Accompanied, Alone
    <3> QED
      BY <1>6, <3>1, Stages DEF EndRun
  <2> QED
    BY <1>3, <1>6, <2>1 DEF EndRun
<1>7. CASE Settle(k)
  <2>1. ASSUME Listening(t), t \notin disturbed, SessionOf[t] = k
        PROVE  t \in finished'
    <3>1. run[k] = Settling(t)
      BY <1>7, <2>1, Stages DEF Settle, Accompanied, Alone
    <3>2. run[k].stage = "settling"
      BY <1>7 DEF Settle
    <3>3. PICK p \in Prompts : Runs(k, p) /\ run[k] = Settling(p) /\ p \in finished
      BY <1>1, <3>2, AtWork
    <3>4. p = t
      <4>1. Settling(p).prompt = Settling(t).prompt
        BY <3>1, <3>3
      <4> QED
        BY <4>1, Stages
    <3> QED
      BY <1>7, <3>3, <3>4 DEF Settle
  <2> QED
    BY <1>3, <1>7, <2>1 DEF Settle
<1>8. CASE EmitDelta(k)
  <2>1. run[k].stage = "running"
    BY <1>8 DEF EmitDelta
  <2>2. PICK p \in Prompts : Runs(k, p) /\ run[k].prompt = p /\ p \notin finished
    BY <1>1, <2>1, AtWork
  <2>3. sent \in [Prompts -> 0..MaxDeltas] /\ MaxDeltas \in Nat /\ t \in Prompts
    BY <1>1, OpenCodeAssumption DEF SessionFacts, OpenCodeAssumption, Prompts
  <2>4. SessionOf[p] = k
    BY <2>2 DEF Runs
  <2>5. /\ sent' = [sent EXCEPT ![p] = @ + 1] /\ Publish(Delta(k, p, sent'[p]))
        /\ UNCHANGED finished
    BY <1>8, <2>2 DEF EmitDelta
  <2>6. sent'[p] = sent[p] + 1 /\ sent[p] \in Nat /\ sent'[p] \in Nat
    BY <2>3, <2>5
  <2> DEFINE ev == Delta(k, p, sent[p] + 1)
  <2>7. Publish(ev)
    BY <2>5, <2>6
  <2>8. CASE p = t
    <3>1. ev = Delta(SessionOf[t], t, sent[t] + 1)
      BY <2>4, <2>8
    <3> HIDE DEF ev
    <3>2. inbox'[t] = (IF Listening(t) THEN Append(inbox[t], ev) ELSE inbox[t]) /\ feed' = feed
      BY <2>7 DEF Publish
    <3>3. IsSeq(inbox[t])
      BY DEF Typed, InboxFacts
    <3>4. out'[t] = out[t] /\ pc'[t] = pc[t] /\ feed'[t] = feed[t]
      BY <3>2 DEF handlerVars
    <3> QED
      BY <2>2, <2>3, <2>5, <2>6, <2>8, <3>1, <3>2, <3>3, <3>4, EmitKeeps
  <2>9. CASE p # t
    <3>1. ev.type = "message.part.delta" /\ TextOf(ev) = <<p, sent[p] + 1>>
      BY DEF Delta, TextOf
    <3>2. Named(ev) /\ ~Idles(ev, SessionOf[t])
      <4>1. sent[p] + 1 \in Nat
        BY <2>6
      <4> QED
        BY <2>4, <3>1, <4>1 DEF Named, Idles
    <3>3. ~IsOwn(<<p, sent[p] + 1>>, t)
      BY <2>9, OwnDelta
    <3>4. sent'[t] = sent[t]
      BY <2>3, <2>5, <2>9
    <3> HIDE DEF ev
    <3>5. ~IsOwn(TextOf(ev), t)
      BY <3>1, <3>3
    <3> QED
      BY <2>5, <2>7, <3>2, <3>4, <3>5, PublishAnswer
  <2> QED
    BY <2>8, <2>9
<1> QED
  BY <1>4, <1>5, <1>6, <1>7, <1>8 DEF SessionStep

-----------------------------------------------------------------------------
(* A stream reads an event: its inbox loses the first, and what was true   *)
(* of the others stays so.                                                 *)
LEMMA ReadRest ==
    ASSUME NEW t \in Streams, AnswerFacts(t), IsSeq(inbox[t]), inbox[t] # <<>>,
           inbox'[t] = Tail(inbox[t]), feed'[t] = feed[t], feed[t] # "none",
           UNCHANGED <<finished, disturbed>>,
           pc'[t] \notin {"acquire", "subscribe"}
    PROVE  /\ Told(t)' => Told(t)
           /\ FeedFacts(t)' /\ EndFacts(t)'
           /\ Named(Head(inbox[t])) /\ Head(inbox[t]) = inbox[t][1] /\ 1 \in DOMAIN inbox[t]
<1> DEFINE v == inbox[t]
           w == Tail(v)
           l == Len(v) - 1
<1>1. /\ l \in Nat /\ DOMAIN v = 1..(l + 1) /\ DOMAIN w = 1..l
      /\ \A i \in 1..l : w[i] = v[i + 1]
      /\ Head(v) = v[1]
  <2>1. Len(v) = l + 1 /\ l \in Nat
    BY SeqEnds
  <2> QED
    BY <2>1, SeqEnds
<1> HIDE DEF l
<1>2. \A i \in DOMAIN w : i \in Nat /\ i + 1 \in DOMAIN v /\ w[i] = v[i + 1]
  BY <1>1
<1>3. 1 \in DOMAIN v
  BY <1>1
<1> HIDE DEF w
<1>4. inbox'[t] = w
  BY DEF w
<1>5. FeedFacts(t)'
  <2>1. \A i \in DOMAIN w : Named(w[i])
    BY <1>2 DEF AnswerFacts, FeedFacts
  <2> QED
    BY <1>4, <2>1 DEF FeedFacts, Named
<1>6. EndFacts(t)'
  <2> SUFFICES ASSUME t \notin disturbed, NEW i \in DOMAIN w, Idles(w[i], SessionOf[t])
               PROVE  /\ t \in finished
                      /\ \A j \in DOMAIN w : i < j => ~IsOwn(TextOf(w[j]), t)
    BY <1>4 DEF EndFacts
  <2>1. /\ t \in finished
        /\ \A j \in DOMAIN v : i + 1 < j => ~IsOwn(TextOf(v[j]), t)
    BY <1>2 DEF AnswerFacts, EndFacts
  <2>2. \A j \in DOMAIN w : i < j => i + 1 < j + 1
    BY <1>2
  <2> QED
    BY <1>2, <2>1, <2>2
<1>7. Told(t)' => Told(t)
  <2> SUFFICES ASSUME NEW i \in DOMAIN w, Idles(w[i], SessionOf[t])
               PROVE  Told(t)
    BY <1>4 DEF Told
  <2> QED
    BY <1>2 DEF Told
<1> QED
  BY <1>1, <1>3, <1>5, <1>6, <1>7 DEF AnswerFacts, FeedFacts

(* An event is dropped before the prompt: no delta of the stream is there. *)
LEMMA DropAnswer ==
    ASSUME Typed, Prompted, NEW t \in Streams, AnswerFacts(t), AwaitConnected(t)
    PROVE  AnswerFacts(t)'
<1>1. /\ pc[t] = "connect" /\ pc'[t] \in {"connect", "prompt"}
      /\ inbox[t] # <<>> /\ inbox'[t] = Tail(inbox[t]) /\ IsSeq(inbox[t])
      /\ out' = out /\ feed' = feed /\ UNCHANGED <<sent, finished, disturbed>>
  BY DEF AwaitConnected, At, GoTo, Read, HasNext, Typed, Shape, InboxFacts, sessionVars
<1>2. t \notin accepted /\ sent[t] = 0
  BY <1>1 DEF Prompted, PromptFacts, Typed, SessionFacts, Prompts
<1>3. CASE feed[t] = "none"
  BY <1>1, <1>3 DEF AnswerFacts, FeedFacts
<1>4. CASE feed[t] # "none"
  <2>1. FeedFacts(t)' /\ EndFacts(t)' /\ (Told(t)' => Told(t))
    BY <1>1, <1>4, ReadRest
  <2>2. ShareFacts(t)'
    <3> SUFFICES ASSUME Listening(t) \/ (t \notin disturbed /\ Told(t))
                 PROVE  Shares(out[t], Tail(inbox[t]), t, 0)
      BY <1>1, <1>2, <2>1 DEF ShareFacts, Listening
    <3>1. Shares(out[t], inbox[t], t, 0) /\ 0 \in Nat
      BY <1>1, <1>2 DEF AnswerFacts, ShareFacts, Reading
    <3>2. ~IsOwn(TextOf(Head(inbox[t])), t)
      <4>1. PICK n \in 0..0 : Holds(Unread(inbox[t]), t, n + 1, 0)
        BY <3>1 DEF Shares
      <4>2. n + 1 \in Nat /\ 0 \in Nat /\ ~(n + 1 <= 0)
        OBVIOUS
      <4> QED
        BY <1>1, <4>1, <4>2, UnreadShrinks
    <3> QED
      BY <1>1, <3>1, <3>2, SharesRead
  <2>3. CompleteFacts(t)'
    BY <1>1 DEF AnswerFacts, CompleteFacts, Completed, HasChunk, ToldError, Before
  <2> QED
    BY <2>1, <2>2, <2>3 DEF AnswerFacts
<1> QED
  BY <1>3, <1>4

-----------------------------------------------------------------------------
(* A chunk that is no delta of the stream is sent. *)
LEMMA ChunkKeeps ==
    ASSUME NEW t \in Streams, AnswerFacts(t), IsSeq(out[t]), sent[t] \in Nat, NEW e,
           ~IsOwn(e.text, t), e.kind # "stop", out'[t] = Append(out[t], e),
           inbox'[t] = inbox[t], feed'[t] = feed[t],
           UNCHANGED <<sent, finished, disturbed>>,
           pc'[t] \in Reading => pc[t] \in Reading,
           (pc[t] \in Before /\ pc'[t] = "stream") \/ (pc'[t] \notin Before /\ Completed(t))
    PROVE  AnswerFacts(t)'
<1> DEFINE o == out[t]
           r == Append(o, e)
           l == Len(o)
<1>1. /\ l \in Nat /\ DOMAIN o = 1..l /\ DOMAIN r = 1..(l + 1)
      /\ \A i \in 1..l : r[i] = o[i]
      /\ r[l + 1] = e
  BY SeqEnds
<1>2. \A i \in DOMAIN r : (i \in DOMAIN o /\ r[i] = o[i]) \/ r[i] = e
  BY <1>1
<1>3. FeedFacts(t)'
  BY DEF AnswerFacts, FeedFacts, Named, Before
<1>4. ShareFacts(t)'
  <2> SUFFICES ASSUME pc[t] \in Reading, Listening(t) \/ (t \notin disturbed /\ Told(t))
               PROVE  Shares(r, inbox[t], t, sent[t])
    BY DEF ShareFacts, Listening, Told, Idles
  <2>1. Shares(o, inbox[t], t, sent[t])
    BY DEF AnswerFacts, ShareFacts
  <2> QED
    BY <2>1, SharesGrow
<1>5. EndFacts(t)'
  BY DEF AnswerFacts, EndFacts
<1>6. CompleteFacts(t)'
  <2>1. HasChunk(t, "stop")' => HasChunk(t, "stop")
    BY <1>2 DEF HasChunk
  <2>2. CASE pc[t] \in Before /\ pc'[t] = "stream"
    BY <2>1, <2>2 DEF AnswerFacts, CompleteFacts, Completed
  <2>3. CASE pc'[t] \notin Before /\ Completed(t)
    <3>1. t \notin disturbed => t \in finished /\ Holds(Sent(o), t, 1, sent[t])
      BY <2>3 DEF AnswerFacts, CompleteFacts
    <3>2. t \notin disturbed => Holds(Sent(r), t, 1, sent[t])
      BY <3>1, SentGrows
    <3> QED
      BY <2>3, <3>1, <3>2 DEF CompleteFacts
  <2> QED
    BY <2>2, <2>3
<1> QED
  BY <1>3, <1>4, <1>5, <1>6 DEF AnswerFacts

(* What is typed, and what the writes of a stream have to know. *)
LEMMA StreamTypes ==
    ASSUME Typed, NEW t \in Streams
    PROVE  /\ sent[t] \in Nat /\ IsSeq(inbox[t]) /\ t \in DOMAIN out /\ t \in DOMAIN pc
           /\ t \in DOMAIN inbox /\ t \in DOMAIN feed
           /\ pc[t] \in {"role", "stream", "usage", "done"} => IsSeq(out[t])
           /\ pc[t] \in {"acquire", "subscribe"} => out[t] = <<>>
           /\ pc[t] \in {"usage", "done", "touch"} => Completed(t)
           /\ mapper[t].session = SessionOf[t]
<1>1. /\ pc \in [Streams -> PCs] /\ out = [s \in Streams |-> out[s]]
      /\ inbox = [s \in Streams |-> inbox[s]] /\ IsSeq(inbox[t])
      /\ feed \in [Streams -> {"none", "silent", "open", "broken", "closed"}]
  BY DEF Typed, Shape, InboxFacts, StreamSets
<1>2. sent[t] \in Nat
  BY OpenCodeAssumption DEF Typed, SessionFacts, Prompts, OpenCodeAssumption
<1>3. /\ pc[t] \in {"role", "stream", "usage", "done"} => IsSeq(out[t])
      /\ pc[t] \in {"acquire", "subscribe"} => out[t] = <<>>
      /\ pc[t] \in {"usage", "done", "touch"} => Completed(t)
  BY DEF Typed, Facts, WrittenFacts, Completed
<1>4. mapper[t].session = SessionOf[t]
  BY DEF Typed, MapperFacts, MapperOf
<1> QED
  BY <1>1, <1>2, <1>3, <1>4

LEMMA WriteAnswer ==
    ASSUME Typed, NEW t \in Streams, AnswerFacts(t),
           WriteRole(t) \/ UsageFound(t) \/ WriteDone(t)
    PROVE  AnswerFacts(t)'
<1>1. /\ UNCHANGED <<sent, finished, disturbed, inbox, feed>>
      /\ \/ pc[t] = "role" /\ WriteThen(t, Chunk("role", <<>>), "stream")
         \/ /\ pc[t] = "usage"
            /\ \E x : WriteThen(t, Chunk("usage", <<x>>), "done")
         \/ pc[t] = "done" /\ WriteThen(t, Chunk("done", <<>>), "touch")
  BY DEF WriteRole, UsageFound, WriteDone, LastUsage, At, openCodeVars, sessionVars, feedVars
<1>2. CASE UNCHANGED out /\ GoTo(t, "return")
  <2>1. pc'[t] = "return"
    BY <1>2, StreamTypes DEF GoTo
  <2> QED
    BY <1>1, <1>2, <2>1, SameKeeps DEF Listening, Reading, Before
<1>3. ASSUME NEW e, NEW place, WriteThen(t, e, place), ~(UNCHANGED out /\ GoTo(t, "return"))
      PROVE  out'[t] = Append(out[t], e) /\ pc'[t] = place
  BY <1>3, StreamTypes DEF WriteThen, GoTo
<1>4. ASSUME NEW kind \in {"role", "usage", "done"}, NEW x
      PROVE  /\ Chunk(kind, <<>>).kind # "stop" /\ Chunk(kind, <<x>>).kind # "stop"
             /\ ~IsOwn(Chunk(kind, <<>>).text, t) /\ ~IsOwn(Chunk(kind, <<x>>).text, t)
  BY OwnDelta DEF Chunk
<1>5. CASE ~(UNCHANGED out /\ GoTo(t, "return"))
  <2>1. \E e, place :
           /\ out'[t] = Append(out[t], e) /\ pc'[t] = place
           /\ ~IsOwn(e.text, t) /\ e.kind # "stop"
           /\ \/ pc[t] = "role" /\ place = "stream"
              \/ pc[t] \in {"usage", "done"} /\ place \in {"done", "touch"}
    <3>1. CASE pc[t] = "role"
      <4>1. out'[t] = Append(out[t], Chunk("role", <<>>)) /\ pc'[t] = "stream"
        BY <1>1, <1>3, <1>5, <3>1
      <4> QED
        BY <3>1, <4>1, <1>4
    <3>2. CASE pc[t] = "usage"
      <4>1. PICK x : out'[t] = Append(out[t], Chunk("usage", <<x>>)) /\ pc'[t] = "done"
        BY <1>1, <1>3, <1>5, <3>2
      <4> QED
        BY <3>2, <4>1, <1>4
    <3>3. CASE pc[t] = "done"
      <4>1. out'[t] = Append(out[t], Chunk("done", <<>>)) /\ pc'[t] = "touch"
        BY <1>1, <1>3, <1>5, <3>3
      <4> QED
        BY <3>3, <4>1, <1>4
    <3> QED
      BY <1>1, <3>1, <3>2, <3>3
  <2>2. PICK e, place :
           /\ out'[t] = Append(out[t], e) /\ pc'[t] = place
           /\ ~IsOwn(e.text, t) /\ e.kind # "stop"
           /\ \/ pc[t] = "role" /\ place = "stream"
              \/ pc[t] \in {"usage", "done"} /\ place \in {"done", "touch"}
    BY <2>1
  <2>3. /\ pc'[t] \in Reading => pc[t] \in Reading
        /\ (pc[t] \in Before /\ pc'[t] = "stream") \/ (pc'[t] \notin Before /\ Completed(t))
    BY <2>2, StreamTypes DEF Reading, Before
  <2>4. IsSeq(out[t]) /\ sent[t] \in Nat
    BY <2>2, StreamTypes
  <2> QED
    BY <1>1, <2>2, <2>3, <2>4, ChunkKeeps
<1> QED
  BY <1>2, <1>5

-----------------------------------------------------------------------------
(* When the idle of its own run is the next event, an undisturbed stream   *)
(* has sent its whole answer.                                              *)
LEMMA AllIsSent ==
    ASSUME Typed, NEW t \in Streams, AnswerFacts(t), pc[t] = "stream", t \notin disturbed,
           inbox[t] # <<>>, Idles(Head(inbox[t]), SessionOf[t]),
           ~IsOwn(TextOf(Head(inbox[t])), t)
    PROVE  t \in finished /\ Holds(Sent(out[t]), t, 1, sent[t])
<1> DEFINE v == inbox[t]
           l == Len(v)
<1>1. l \in Nat /\ DOMAIN v = 1..l /\ Head(v) = v[1] /\ l - 1 \in Nat /\ sent[t] \in Nat
  BY SeqEnds, StreamTypes
<1>2. 1 \in DOMAIN v /\ \A i \in DOMAIN v : i = 1 \/ 1 < i
  BY <1>1
<1> HIDE DEF l
<1>3. t \in finished /\ \A i \in DOMAIN v : 1 < i => ~IsOwn(TextOf(v[i]), t)
  BY <1>1, <1>2 DEF AnswerFacts, EndFacts
<1>4. \A i \in DOMAIN v : ~IsOwn(TextOf(v[i]), t)
  BY <1>1, <1>2, <1>3
<1>5. Shares(out[t], v, t, sent[t])
  BY <1>1, <1>2 DEF AnswerFacts, ShareFacts, Told, Reading
<1>6. PICK n \in 0..sent[t] : /\ Holds(Sent(out[t]), t, 1, n)
                              /\ Holds(Unread(v), t, n + 1, sent[t])
  BY <1>5 DEF Shares
<1>7. \A i \in DOMAIN Unread(v) : ~IsOwn(Unread(v)[i], t)
  BY <1>4 DEF Unread
<1> DEFINE c == n + 1
<1>8. n \in Nat /\ c \in Nat /\ Holds(Unread(v), t, c, sent[t])
  BY <1>6
<1> HIDE DEF c, v
<1>9. sent[t] < c
  BY <1>1, <1>7, <1>8, HoldsNone
<1>10. n = sent[t]
  BY <1>1, <1>6, <1>9 DEF c
<1> QED
  BY <1>3, <1>6, <1>10

(* What StreamEvent does to the chunks and the place of the stream. *)
LEMMA EventEffect ==
    ASSUME Typed, NEW t \in Streams, StreamEvent(t)
    PROVE  LET action == Handle(mapper[t], Head(inbox[t])).action
               shown  == {"assistant_text_delta", "safe_progress_markdown"}
           IN  /\ pc[t] = "stream" /\ inbox[t] # <<>> /\ inbox'[t] = Tail(inbox[t])
               /\ feed'[t] = feed[t] /\ UNCHANGED <<sent, finished, disturbed>>
               /\ \/ out'[t] = out[t] /\ pc'[t] = "return"
                  \/ /\ action.kind \notin shown
                     /\ out'[t] = out[t] /\ pc'[t] = "stream"
                  \/ /\ action.kind \in shown
                     /\ out'[t] = Append(out[t], Chunk("text", action.text))
                     /\ pc'[t] = "stream"
                  \/ /\ action.kind = "complete"
                     /\ out'[t] = Append(out[t], Chunk("stop", <<>>))
                     /\ pc'[t] \in {"usage", "done"}
<1> DEFINE action == ActionOn(t)
           shown  == {"assistant_text_delta", "safe_progress_markdown"}
<1>1. /\ pc[t] = "stream" /\ inbox[t] # <<>> /\ inbox'[t] = Tail(inbox[t])
      /\ feed'[t] = feed[t] /\ UNCHANGED <<sent, finished, disturbed>>
  BY StreamTypes DEF StreamEvent, Read, HasNext, At, sessionVars
<1>2. ASSUME NEW e, NEW place, WriteThen(t, e, place)
      PROVE  \/ out'[t] = out[t] /\ pc'[t] = "return"
             \/ out'[t] = Append(out[t], e) /\ pc'[t] = place
  BY <1>2, StreamTypes DEF WriteThen, GoTo
<1>3. CASE action.kind \in shown
  <2>1. WriteThen(t, Chunk("text", action.text), "stream")
    BY <1>3 DEF StreamEvent
  <2> QED
    BY <1>1, <1>2, <1>3, <2>1 DEF ActionOn
<1>4. CASE action.kind = "complete"
  <2>1. \E place \in {"usage", "done"} : WriteThen(t, Chunk("stop", <<>>), place)
    BY <1>4 DEF StreamEvent
  <2> QED
    BY <1>1, <1>2, <1>4, <2>1 DEF ActionOn
<1>5. CASE action.kind \notin shown /\ action.kind # "complete"
  <2>1. UNCHANGED <<pc, out>>
    BY <1>5 DEF StreamEvent
  <2> QED
    BY <1>1, <1>5, <2>1 DEF ActionOn
<1> QED
  BY <1>3, <1>4, <1>5

LEMMA EventAnswer ==
    ASSUME Typed, NEW t \in Streams, AnswerFacts(t), StreamEvent(t)
    PROVE  AnswerFacts(t)'
<1> DEFINE v == inbox[t]
           ev == Head(inbox[t])
           action == Handle(mapper[t], ev).action
           shown == {"assistant_text_delta", "safe_progress_markdown"}
<1>1. /\ pc[t] = "stream" /\ v # <<>> /\ inbox'[t] = Tail(v)
      /\ feed'[t] = feed[t] /\ UNCHANGED <<sent, finished, disturbed>>
      /\ pc'[t] \in {"return", "stream", "usage", "done"}
  BY EventEffect
<1>2. sent[t] \in Nat /\ IsSeq(v) /\ IsSeq(out[t])
  BY <1>1, StreamTypes
<1>3. feed[t] # "none"
  BY <1>1 DEF AnswerFacts, FeedFacts
<1>4. (Told(t)' => Told(t)) /\ FeedFacts(t)' /\ EndFacts(t)' /\ Named(ev)
  BY <1>1, <1>2, <1>3, ReadRest
<1>5. ~HasChunk(t, "stop")
  BY <1>1 DEF AnswerFacts, CompleteFacts, Before
<1>6. /\ action.kind = "complete" => Idles(ev, SessionOf[t]) /\ ~IsOwn(TextOf(ev), t)
      /\ action.kind \in shown =>
            \/ ~IsOwn(action.text, t) /\ ~IsOwn(TextOf(ev), t)
            \/ action.text = TextOf(ev) /\ \E x : TextOf(ev) = <<t, x>>
      /\ action.kind \notin shown => ~IsOwn(TextOf(ev), t)
  BY <1>4, StreamTypes, Handled
<1>7. \/ out'[t] = out[t] /\ pc'[t] = "return"
      \/ /\ action.kind \notin shown
         /\ out'[t] = out[t] /\ pc'[t] = "stream"
      \/ /\ action.kind \in shown
         /\ out'[t] = Append(out[t], Chunk("text", action.text))
         /\ pc'[t] = "stream"
      \/ /\ action.kind = "complete"
         /\ out'[t] = Append(out[t], Chunk("stop", <<>>))
         /\ pc'[t] \in {"usage", "done"}
  BY EventEffect
<1> HIDE DEF action, ev
<1>8. ASSUME Shares(out[t], v, t, sent[t]) => Shares(out'[t], Tail(v), t, sent[t])
      PROVE  ShareFacts(t)'
  BY <1>1, <1>4, <1>8 DEF AnswerFacts, ShareFacts, Listening, Reading
<1>9. ASSUME NEW e, out'[t] = Append(out[t], e)
      PROVE  HasChunk(t, "stop")' => e.kind = "stop"
  <2>1. \A i \in DOMAIN out'[t] : (i \in DOMAIN out[t] /\ out'[t][i] = out[t][i]) \/ out'[t][i] = e
    BY <1>2, <1>9, AppendAny
  <2> QED
    BY <1>5, <2>1 DEF HasChunk
<1>10. CASE out'[t] = out[t] /\ pc'[t] = "return"
  BY <1>4, <1>5, <1>10 DEF AnswerFacts, ShareFacts, CompleteFacts, Completed, HasChunk,
     Reading, Before
<1>11. CASE action.kind \notin shown /\ out'[t] = out[t] /\ pc'[t] = "stream"
  <2>1. ~IsOwn(TextOf(ev), t)
    BY <1>6, <1>11
  <2>2. Shares(out[t], v, t, sent[t]) => Shares(out'[t], Tail(v), t, sent[t])
    BY <1>1, <1>2, <1>11, <2>1, SharesRead DEF ev
  <2> QED
    BY <1>4, <1>5, <1>8, <1>11, <2>2
    DEF AnswerFacts, CompleteFacts, Completed, HasChunk
<1>12. CASE /\ action.kind \in shown
            /\ out'[t] = Append(out[t], Chunk("text", action.text))
            /\ pc'[t] = "stream"
  <2> DEFINE e == Chunk("text", action.text)
  <2>1. e.text = action.text /\ e.kind # "stop"
    BY DEF Chunk
  <2> HIDE DEF e
  <2>2. out'[t] = Append(out[t], e)
    BY <1>12 DEF e
  <2>3. CASE ~IsOwn(e.text, t) /\ ~IsOwn(TextOf(ev), t)
    <3>1. Shares(out[t], v, t, sent[t]) => Shares(out[t], Tail(v), t, sent[t])
      BY <1>1, <1>2, <2>3, SharesRead DEF ev
    <3>2. Shares(out[t], Tail(v), t, sent[t]) => Shares(out'[t], Tail(v), t, sent[t])
      BY <1>2, <2>2, <2>3, SharesGrow
    <3> QED
      BY <1>4, <1>8, <1>9, <1>12, <2>1, <2>2, <3>1, <3>2
      DEF AnswerFacts, CompleteFacts, Completed
  <2>4. ASSUME NEW x, e.text = TextOf(ev), TextOf(ev) = <<t, x>>
        PROVE  AnswerFacts(t)'
    <3>1. Shares(out[t], v, t, sent[t]) => Shares(out'[t], Tail(v), t, sent[t])
      BY <1>1, <1>2, <2>2, <2>4, SharesRead DEF ev
    <3> QED
      BY <1>4, <1>8, <1>9, <1>12, <2>1, <2>2, <3>1
      DEF AnswerFacts, CompleteFacts, Completed
  <2> QED
    BY <1>6, <1>12, <2>1, <2>3, <2>4
<1>13. CASE /\ action.kind = "complete"
            /\ out'[t] = Append(out[t], Chunk("stop", <<>>))
            /\ pc'[t] \in {"usage", "done"}
  <2> DEFINE e == Chunk("stop", <<>>)
  <2>1. ~IsOwn(e.text, t)
    BY OwnDelta DEF Chunk
  <2> HIDE DEF e
  <2>2. out'[t] = Append(out[t], e)
    BY <1>13 DEF e
  <2>3. ASSUME t \notin disturbed
        PROVE  t \in finished /\ Holds(Sent(out'[t]), t, 1, sent[t])
    <3>1. Idles(ev, SessionOf[t]) /\ ~IsOwn(TextOf(ev), t)
      BY <1>6, <1>13
    <3>2. t \in finished /\ Holds(Sent(out[t]), t, 1, sent[t])
      BY <1>1, <2>3, <3>1, AllIsSent DEF ev
    <3> QED
      BY <1>2, <2>1, <2>2, <3>2, SentGrows
  <2>4. ShareFacts(t)'
    BY <1>13 DEF ShareFacts, Reading
  <2> QED
    BY <1>1, <1>4, <1>13, <2>3, <2>4 DEF AnswerFacts, CompleteFacts, Before
<1> QED
  BY <1>7, <1>10, <1>11, <1>12, <1>13

-----------------------------------------------------------------------------
(* A stream subscribes with nothing sent and no delta of its own. *)
LEMMA SubscribeAnswer ==
    ASSUME Typed, Prompted, NEW t \in Streams, AnswerFacts(t), SubscribeEvents(t)
    PROVE  AnswerFacts(t)'
<1>1. /\ pc[t] = "subscribe" /\ pc'[t] = "connect" /\ feed'[t] = "silent"
      /\ inbox'[t] = inbox[t] /\ out'[t] = out[t] /\ UNCHANGED <<sent, finished>>
  BY StreamTypes DEF SubscribeEvents, Subscribe, At, GoTo, sessionVars
<1>2. inbox[t] = <<>> /\ out[t] = <<>> /\ DOMAIN <<>> = {}
  BY <1>1, StreamTypes DEF AnswerFacts, FeedFacts
<1>3. sent[t] = 0
  BY <1>1 DEF Prompted, PromptFacts, Typed, SessionFacts, Prompts
<1>4. Shares(<<>>, <<>>, t, 0)
  <2>1. Sent(<<>>) = <<>> /\ Unread(<<>>) = <<>>
    BY DEF Sent, Unread
  <2>2. 1 \in Nat /\ 0 \in Nat /\ 0 < 1 /\ 0 \in 0..0 /\ 0 + 1 = 1
    OBVIOUS
  <2>3. Holds(<<>>, t, 1, 0)
    BY <1>2, <2>2, HoldsNone
  <2> QED
    BY <2>1, <2>2, <2>3 DEF Shares
<1>5. FeedFacts(t)' /\ EndFacts(t)' /\ ShareFacts(t)'
  BY <1>1, <1>2, <1>3, <1>4 DEF FeedFacts, EndFacts, ShareFacts, Named
<1>6. CompleteFacts(t)'
  BY <1>1, <1>2 DEF CompleteFacts, Completed, HasChunk
<1> QED
  BY <1>5, <1>6 DEF AnswerFacts

(* A stream that fails tells it, as far as its client is there. *)
LEMMA FailAnswer ==
    ASSUME Typed, NEW t \in Streams, AnswerFacts(t), StreamFails(t)
    PROVE  AnswerFacts(t)'
<1>1. /\ pc[t] = "stream" /\ pc'[t] = "return" /\ inbox'[t] = inbox[t]
      /\ feed'[t] = feed[t] /\ UNCHANGED <<sent, finished, disturbed>> /\ IsSeq(out[t])
  BY StreamTypes DEF StreamFails, At, GoTo, openCodeVars, sessionVars, feedVars
<1>2. PICK n, q :
         /\ n \in 0..3
         /\ IsSeq(q) /\ out' = [out EXCEPT ![t] = q]
         /\ Len(out[t]) \in Nat /\ Len(q) = Len(out[t]) + n
         /\ \A i \in 1..Len(out[t]) : q[i] = out[t][i]
         /\ \A k \in 1..n : q[Len(out[t]) + k] = ErrorTail[k]
         /\ n = 0 => q = out[t]
  BY <1>1, FailWrites
<1>3. out'[t] = q
  BY <1>2, StreamTypes
<1>4. CASE n = 0
  BY <1>1, <1>2, <1>3, <1>4, SameKeeps DEF Listening, Reading, Before
<1>5. CASE n # 0
  <2>1. 1 \in 1..n /\ Len(out[t]) + 1 \in 1..Len(q)
    BY <1>2, <1>5
  <2>2. DOMAIN q = 1..Len(q)
    BY <1>2, SeqEnds
  <2>3. q[Len(out[t]) + 1] = Chunk("text", ErrorText)
    BY <1>2, <2>1 DEF ErrorTail
  <2>4. ToldError(t)'
    BY <1>3, <2>1, <2>2, <2>3 DEF ToldError
  <2> QED
    BY <1>1, <2>4 DEF AnswerFacts, FeedFacts, ShareFacts, EndFacts, CompleteFacts,
       Completed, Named, Reading, Before
<1> QED
  BY <1>4, <1>5

(* The handler returns; its subscription is gone. *)
LEMMA ReturnAnswer ==
    ASSUME Typed, NEW t \in Streams, AnswerFacts(t), Return(t)
    PROVE  AnswerFacts(t)'
<1>1. /\ pc[t] = "return" /\ pc'[t] = "end" /\ feed'[t] = "closed" /\ inbox'[t] = <<>>
      /\ out'[t] = out[t] /\ UNCHANGED <<sent, finished, disturbed>>
  BY StreamTypes DEF Return, Close, At, GoTo, sessionVars
<1>2. DOMAIN <<>> = {}
  OBVIOUS
<1> QED
  BY <1>1, <1>2 DEF AnswerFacts, FeedFacts, ShareFacts, EndFacts, CompleteFacts,
     Completed, HasChunk, ToldError, Named, Reading, Before

(* OpenCode greets a subscription, or it breaks. *)
LEMMA FeedAnswer ==
    ASSUME Typed, NEW t \in Streams, AnswerFacts(t), Greet(t) \/ BreakFeed(t),
           UNCHANGED <<handlerVars, disturbed>>
    PROVE  AnswerFacts(t)'
<1>1. /\ out'[t] = out[t] /\ pc'[t] = pc[t] /\ UNCHANGED <<sent, finished, disturbed>>
      /\ Listening(t) /\ feed[t] # "none"
  BY DEF Greet, BreakFeed, Listening, handlerVars, sessionVars
<1>2. pc[t] \notin {"acquire", "subscribe"} /\ sent[t] \in Nat /\ IsSeq(inbox[t])
  BY <1>1, StreamTypes DEF AnswerFacts, FeedFacts
<1>3. CASE Greet(t)
  <2>1. inbox'[t] = Append(inbox[t], Connected) /\ feed'[t] = "open"
    BY <1>3, StreamTypes DEF Greet
  <2>2. /\ Named(Connected) /\ ~Idles(Connected, SessionOf[t])
        /\ ~IsOwn(TextOf(Connected), t)
    BY OtherEvents
  <2> QED
    BY <1>1, <1>2, <2>1, <2>2, GrowKeeps
<1>4. CASE BreakFeed(t)
  <2>1. inbox'[t] = inbox[t] /\ feed'[t] = "broken"
    BY <1>4, StreamTypes DEF BreakFeed
  <2> QED
    BY <1>1, <1>2, <2>1, SameKeeps DEF Listening
<1> QED
  BY <1>3, <1>4

LEMMA StillAnswer ==
    ASSUME NEW t \in Streams, AnswerFacts(t), Still(t)
    PROVE  AnswerFacts(t)'
<1>1. pc'[t] \in {"acquire", "subscribe"} => feed'[t] = "none"
  BY DEF Still, AnswerFacts, FeedFacts
<1> QED
  BY <1>1, SameKeeps DEF Still, Listening, sessionVars

-----------------------------------------------------------------------------
Answers == \A s \in Streams : AnswerFacts(s)

LEMMA AnswersStep == Typed /\ Prompted /\ Accompanied /\ Answers /\ [Next]_vars => Answers'
<1> SUFFICES ASSUME Typed, Prompted, Accompanied, Answers, [Next]_vars, NEW t \in Streams
             PROVE  AnswerFacts(t)'
  BY DEF Answers
<1>1. AnswerFacts(t) /\ Shape /\ StreamSets /\ InboxFacts
  BY DEF Answers, Typed
<1>2. CASE Moves(t)
  BY <1>1, <1>2, SubscribeAnswer, DropAnswer, EventAnswer, FailAnswer, WriteAnswer,
     ReturnAnswer, FeedAnswer DEF Moves
<1>3. CASE Still(t)
  BY <1>1, <1>3, StillAnswer
<1>4. ASSUME NEW p \in Prompts, AcceptPrompt(p)
      PROVE  AnswerFacts(t)'
  BY <1>1, <1>4, AcceptAnswer
<1>5. ASSUME NEW k \in Keys, SessionStep(k), UNCHANGED <<handlerVars, disturbed>>
      PROVE  AnswerFacts(t)'
  BY <1>1, <1>5, SessionAnswer
<1> QED
  BY <1>1, <1>2, <1>3, <1>4, <1>5, StreamSteps

LEMMA AnswerInvariance == Spec => [](Typed /\ Prompted /\ Accompanied /\ Answers)
<1>1. Init => Accompanied
  BY DEF Init, OpenCodeInit, Accompanied, Listening
<1>2. Init => Answers
  <2>1. DOMAIN <<>> = {}
    OBVIOUS
  <2> QED
    BY <2>1 DEF Init, OpenCodeInit, Answers, AnswerFacts, FeedFacts, ShareFacts, EndFacts,
       CompleteFacts, Completed, HasChunk, Named, Reading
<1> QED
  BY <1>1, <1>2, AccompaniedStep, AnswersStep, TypedInvariance, PromptInvariance, PTL
  DEF Spec

(* A stream misses nothing of its own answer: while it streams and its     *)
(* subscription is open, every delta OpenCode published for its prompt was *)
(* sent to the client or waits to be read, once each and in order, however *)
(* many streams, sessions and other prompts there are.                     *)
THEOREM NothingMissed == Spec => []NothingIsMissed
<1>1. Typed /\ Answers => NothingIsMissed
  <2> SUFFICES ASSUME Typed, Answers, NEW s \in Streams, pc[s] = "stream", feed[s] = "open"
               PROVE  \E n \in 0..sent[s] : /\ Holds(TextsOut(s), s, 1, n)
                                             /\ Holds(TextsIn(s), s, n + 1, sent[s])
    BY DEF NothingIsMissed, At
  <2>1. Shares(out[s], inbox[s], s, sent[s])
    BY DEF Answers, AnswerFacts, ShareFacts, Listening, Reading
  <2>2. TextsOut(s) = Sent(out[s]) /\ TextsIn(s) = Unread(inbox[s])
    BY DEF TextsOut, TextsIn, Sent, Unread, TextOf
  <2> QED
    BY <2>1, <2>2 DEF Shares
<1> QED
  BY <1>1, AnswerInvariance, PTL

(* A stream that completes, with nobody else at its session while it read, *)
(* has shown its client the whole of its own answer, once and in order,    *)
(* and the run of its prompt is over.                                      *)
THEOREM CompletedAnswers == Spec => []CompletedIsAnswered
<1>1. Answers => CompletedIsAnswered
  <2>1. \A s \in Streams : TextsOut(s) = Sent(out[s])
    BY DEF TextsOut, Sent
  <2> QED
    BY <2>1 DEF Answers, AnswerFacts, CompleteFacts, CompletedIsAnswered
<1> QED
  BY <1>1, AnswerInvariance, PTL
=============================================================================
