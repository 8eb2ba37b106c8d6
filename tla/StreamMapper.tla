---------------------------- MODULE StreamMapper ----------------------------
(***************************************************************************)
(* One mapper under the events of a shared event stream, as streamChat     *)
(* drives it: events are handled before the prompt is submitted (all their *)
(* output is dropped, or they arrive before server.connected) and after.   *)
(* A second mapper, twin, is fed only the events of the target session.    *)
(***************************************************************************)
EXTENDS EventMapper, Sequences

CONSTANTS Sessions,   \* OpenCode sessions on the shared stream
          Target,     \* the session of the mapper
          Statuses,   \* values of a session.status
          Texts,      \* texts of a delta, the empty one among them
          MaxWritten  \* bound on the chunks written, for TLC

ASSUME MapperAssumption == Target \in Sessions /\ MaxWritten \in Nat

Events ==
    [type : {"server.connected", "server.heartbeat"}]
    \cup [type : {"session.idle", "session.diff", "message.updated"},
          session : Sessions]
    \cup [type : {"session.status"}, session : Sessions, status : Statuses]
    \cup [type : {"message.part.delta"}, session : Sessions,
          field : {"text", "reasoning"}, text : Texts]
    \cup [type : {"message.part.updated"}, session : Sessions,
          words : SUBSET PartWords, bashTool : BOOLEAN]

VARIABLES mapper,   \* the stream's mapper
          twin,     \* a mapper that never sees another session's events
          phase,    \* the loop of streamChat the mapper is in
          written,  \* what the handler wrote: the text of each delta chunk
          twinText, \* what it would have written for the twin
          answered  \* the session showed activity after the prompt

vars == <<mapper, twin, phase, written, twinText, answered>>

ProgressTexts == {<<label>> : label \in ProgressLabels}

MapperTypeOK == /\ mapper \in MapperOf(Sessions)
                /\ twin \in MapperOf(Sessions)
                /\ phase \in {"connecting", "prompting", "streaming", "completed"}
                /\ written \in Seq(Texts \cup ProgressTexts)
                /\ twinText \in Seq(Texts \cup ProgressTexts)
                /\ answered \in BOOLEAN

Init == /\ mapper = NewMapper(Target)
        /\ twin = NewMapper(Target)
        /\ phase = "connecting"
        /\ written = <<>>
        /\ twinText = <<>>
        /\ answered = FALSE

-----------------------------------------------------------------------------
IsTarget(ev) == "session" \in DOMAIN ev /\ ev.session = Target
Shown(action) == action.kind \in {"assistant_text_delta", "safe_progress_markdown"}

(* An event of the target that says the session is at work. *)
IsActivity(ev, action) ==
    IsTarget(ev) /\ (Shown(action) \/ (ev.type = "session.status" /\ ev.status = "busy"))

(* The first loop of streamChat: connected ends it, any other action is    *)
(* dropped, and the mapper keeps what it learned.                          *)
HandleEarly(ev) ==
    LET r == Handle(mapper, ev)
    IN /\ phase = "connecting"
       /\ mapper' = r.mapper
       /\ phase' = IF r.action.kind = "connected" THEN "prompting" ELSE phase
       /\ twin' = IF IsTarget(ev) THEN Handle(twin, ev).mapper ELSE twin
       /\ UNCHANGED <<written, twinText, answered>>

(* PromptAsync succeeds. *)
Submit == /\ phase = "prompting"
          /\ phase' = "streaming"
          /\ mapper' = MarkPromptSubmitted(mapper)
          /\ twin' = MarkPromptSubmitted(twin)
          /\ UNCHANGED <<written, twinText, answered>>

(* The second loop. *)
HandleLate(ev) ==
    LET r == Handle(mapper, ev)
        t == Handle(twin, ev)
    IN /\ phase = "streaming"
       /\ Len(written) < MaxWritten
       /\ mapper' = r.mapper
       /\ written' = IF Shown(r.action) THEN Append(written, r.action.text) ELSE written
       /\ phase' = IF r.action.kind = "complete" THEN "completed" ELSE phase
       /\ twin' = IF IsTarget(ev) THEN t.mapper ELSE twin
       /\ twinText' = IF IsTarget(ev) /\ Shown(t.action)
                      THEN Append(twinText, t.action.text) ELSE twinText
       /\ answered' = (answered \/ IsActivity(ev, r.action))

Next == Submit \/ \E ev \in Events : HandleEarly(ev) \/ HandleLate(ev)

Spec == Init /\ [][Next]_vars

-----------------------------------------------------------------------------
(* The other sessions on the shared event stream change nothing: the       *)
(* mapper and all it writes are those of a mapper that never saw them.     *)
OthersDoNotInterfere == mapper = twin /\ written = twinText

(* Of the progress a client sees, no label comes twice, and there are at   *)
(* most four, counting the ones that were dropped before the prompt.       *)
ProgressIsBounded ==
    LET shown == {i \in DOMAIN written : written[i] \in ProgressTexts}
    IN  /\ \A i, j \in shown : written[i] = written[j] => i = j
        /\ \A i \in shown : written[i][1] \in mapper.progressSeen
        /\ Cardinality(mapper.progressSeen) <= MaxProgress

(* A stream that showed anything to the client, or saw its session busy,   *)
(* is ready to complete at the next idle: text is never followed by an     *)
(* idle that is ignored.                                                   *)
ReadyWhenActive ==
    answered \/ written # <<>> => mapper.promptSubmitted /\ mapper.targetActivity

(* The phase 2 report says that completion is accepted only after activity *)
(* of the target session observed after the prompt was submitted           *)
(* (docs/reports/phase-2-implementation-report.md).                        *)
CompletesAfterActivity == phase = "completed" => answered
=============================================================================
