---------------------------- MODULE EventMapper ----------------------------
(***************************************************************************)
(* What a stream does with an OpenCode event: Mapper.Handle                *)
(* (internal/streaming/mapper.go) as an operator from a mapper and an      *)
(* event to the mapper after it and the action the handler takes.          *)
(*                                                                         *)
(* An event is a record with its type, its session and what Handle reads   *)
(* of the payload: the status of a session.status; the field of a          *)
(* message.part.delta and its text, a sequence that is empty when there    *)
(* is none; the words found in the part type of a message.part.updated and *)
(* whether its tool is bash.  An event whose data is not an object cannot  *)
(* come here: the reader of the event stream fails on it first.            *)
(***************************************************************************)
EXTENDS Naturals, FiniteSets

MaxProgress == 4 \* NewMapper's maxProgress

ProgressLabels == {"thinking", "tool", "editing", "patch", "diff"}
PartWords == {"bash", "tool", "edit", "file", "write", "patch"}

(* progressCount is the number of labels seen. *)
MapperOf(sessions) ==
    [session : sessions, promptSubmitted : BOOLEAN, targetActivity : BOOLEAN,
     diffProgress : BOOLEAN, progressSeen : SUBSET ProgressLabels]

NewMapper(session) ==
    [session |-> session, promptSubmitted |-> FALSE, targetActivity |-> FALSE,
     diffProgress |-> FALSE, progressSeen |-> {}]

MarkPromptSubmitted(m) == [m EXCEPT !.promptSubmitted = TRUE]

-----------------------------------------------------------------------------
Action(kind, text) == [kind |-> kind, text |-> text]
Ignore(m) == [mapper |-> m, action |-> Action("ignore", <<>>)]
Active(m) == [m EXCEPT !.targetActivity = TRUE]

(* Mutant of MayShow: labels are counted and not compared. *)
MayShowAgain(m, label) == Cardinality(m.progressSeen) < MaxProgress

(* dedupeProgress: each label once, and no more than maxProgress of them. *)
MayShow(m, label) == /\ label \notin m.progressSeen
                     /\ Cardinality(m.progressSeen) < MaxProgress
Show(m, label) == [Active(m) EXCEPT !.progressSeen = @ \cup {label}]

(* Mutant of PartLabel: the name of the tool leaks into the label. *)
RawLabel(ev) == IF ev.bashTool THEN "bash" ELSE "thinking"

(* progressForPartUpdated: of the labels that fit the part, the last one. *)
PartLabel(ev) ==
    IF "patch" \in ev.words THEN "patch"
    ELSE IF ev.words \cap {"edit", "file", "write"} # {} THEN "editing"
    ELSE IF ev.bashTool \/ ev.words \cap {"bash", "tool"} # {} THEN "tool"
    ELSE "thinking"

(* Mutant of HandleStatus: any status of an active session completes. *)
CompleteOnAnyStatus(m, status) ==
    IF m.promptSubmitted /\ m.targetActivity
    THEN [mapper |-> m, action |-> Action("complete", <<>>)] ELSE Ignore(m)

HandleStatus(m, status) ==
    IF status = "busy" /\ m.promptSubmitted THEN Ignore(Active(m))
    ELSE IF status = "idle" /\ m.promptSubmitted /\ m.targetActivity
    THEN [mapper |-> m, action |-> Action("complete", <<>>)]
    ELSE Ignore(m)

(* Mutant of HandleDelta: text is not activity. *)
DeltaIsNoActivity(m, ev) ==
    IF ev.field = "text" /\ ev.text # <<>>
    THEN [mapper |-> m, action |-> Action("assistant_text_delta", ev.text)]
    ELSE Ignore(m)

HandleDelta(m, ev) ==
    IF ev.field = "text" /\ ev.text # <<>>
    THEN [mapper |-> Active(m), action |-> Action("assistant_text_delta", ev.text)]
    ELSE Ignore(m)

HandleProgress(m, label) ==
    IF MayShow(m, label)
    THEN [mapper |-> Show(m, label),
          action |-> Action("safe_progress_markdown", <<label>>)]
    ELSE Ignore(m)

HandleDiff(m) ==
    IF m.diffProgress \/ ~MayShow(m, "diff") THEN Ignore(m)
    ELSE [HandleProgress(m, "diff") EXCEPT !.mapper.diffProgress = TRUE]

HandleTarget(m, ev) ==
    CASE ev.type = "session.status"       -> HandleStatus(m, ev.status)
      [] ev.type = "session.idle"         -> HandleStatus(m, "idle")
      [] ev.type = "message.part.delta"   -> HandleDelta(m, ev)
      [] ev.type = "message.part.updated" -> HandleProgress(m, PartLabel(ev))
      [] ev.type = "session.diff"         -> HandleDiff(m)
      [] OTHER                            -> Ignore(m)

(* Mutant of Handle: the session of an event is not compared. *)
HandleAny(m, ev) ==
    CASE ev.type = "server.connected" -> [mapper |-> m, action |-> Action("connected", <<>>)]
      [] ev.type = "server.heartbeat" -> Ignore(m)
      [] OTHER -> HandleTarget(m, ev)

Handle(m, ev) ==
    CASE ev.type = "server.connected" -> [mapper |-> m, action |-> Action("connected", <<>>)]
      [] ev.type = "server.heartbeat" -> Ignore(m)
      [] OTHER -> IF ev.session = m.session THEN HandleTarget(m, ev) ELSE Ignore(m)
=============================================================================
