------------------------- MODULE StreamMapperProofs -------------------------
(***************************************************************************)
(* Proofs about the mapper under a shared event stream, for any number of  *)
(* sessions, statuses and texts.                                           *)
(***************************************************************************)
EXTENDS StreamMapper, FiniteSetTheorems, TLAPS

(* What an event of each type has. *)
LEMMA EventShape ==
    ASSUME NEW ev \in Events
    PROVE  \/ /\ ev.type \in {"server.connected", "server.heartbeat"}
              /\ ~IsTarget(ev)
           \/ /\ ev.type \notin {"server.connected", "server.heartbeat"}
              /\ ev.session \in Sessions
              /\ IsTarget(ev) <=> ev.session = Target
<1>1. CASE ev \in [type : {"server.connected", "server.heartbeat"}]
  BY <1>1 DEF IsTarget
<1>2. CASE ev \in [type : {"session.idle", "session.diff", "message.updated"},
                   session : Sessions]
  BY <1>2 DEF IsTarget
<1>3. CASE ev \in [type : {"session.status"}, session : Sessions, status : Statuses]
  BY <1>3 DEF IsTarget
<1>4. CASE ev \in [type : {"message.part.delta"}, session : Sessions,
                   field : {"text", "reasoning"}, text : Texts]
  BY <1>4 DEF IsTarget
<1>5. CASE ev \in [type : {"message.part.updated"}, session : Sessions,
                   words : SUBSET PartWords, bashTool : BOOLEAN]
  BY <1>5 DEF IsTarget
<1> QED
  BY <1>1, <1>2, <1>3, <1>4, <1>5 DEF Events

LEMMA DeltaShape ==
    ASSUME NEW ev \in Events, ev.type = "message.part.delta"
    PROVE  ev.text \in Texts
BY DEF Events

(* An event of another session, or of none, changes and shows nothing. *)
LEMMA OtherEvent ==
    ASSUME NEW ev \in Events, NEW m, m.session = Target, ~IsTarget(ev)
    PROVE  Handle(m, ev).mapper = m /\ ~Shown(Handle(m, ev).action)
BY EventShape DEF Handle, Ignore, Action, Shown

-----------------------------------------------------------------------------
(* What is left of a mapper m, and what is done, after an event. *)
Bounded(m) == Cardinality(m.progressSeen) <= MaxProgress
NewLabel(m, h) == \E label \in ProgressLabels :
                     /\ label \notin m.progressSeen
                     /\ h.mapper.progressSeen = m.progressSeen \cup {label}
                     /\ h.action.text = <<label>>
Outcome(m, h) ==
    /\ h.mapper \in MapperOf(Sessions)
    /\ h.mapper.session = m.session
    /\ h.mapper.promptSubmitted = m.promptSubmitted
    /\ m.targetActivity => h.mapper.targetActivity
    /\ Bounded(m) => Bounded(h.mapper)
    /\ m.progressSeen \subseteq h.mapper.progressSeen
    /\ Shown(h.action) => /\ h.mapper.targetActivity
                          /\ h.action.text \in Texts \/ NewLabel(m, h)

LEMMA IgnoreOutcome ==
    ASSUME NEW m \in MapperOf(Sessions)
    PROVE  Outcome(m, Ignore(m))
BY DEF Outcome, Ignore, Action, Shown, MapperOf

LEMMA ActiveTyped ==
    ASSUME NEW m \in MapperOf(Sessions)
    PROVE  /\ Active(m) \in MapperOf(Sessions)
           /\ Active(m).session = m.session
           /\ Active(m).promptSubmitted = m.promptSubmitted
           /\ Active(m).targetActivity
           /\ Active(m).progressSeen = m.progressSeen
BY DEF Active, MapperOf

LEMMA StatusOutcome ==
    ASSUME NEW m \in MapperOf(Sessions), NEW status
    PROVE  /\ Outcome(m, HandleStatus(m, status))
           /\ ~Shown(HandleStatus(m, status).action)
           /\ status = "busy" /\ m.promptSubmitted
                 => HandleStatus(m, status).mapper.targetActivity
<1>1. CASE status = "busy" /\ m.promptSubmitted
  <2>1. HandleStatus(m, status) = Ignore(Active(m))
    BY <1>1 DEF HandleStatus
  <2> QED
    BY <2>1, ActiveTyped DEF Outcome, Ignore, Action, Shown, Bounded
<1>2. CASE status = "idle" /\ m.promptSubmitted /\ m.targetActivity
  <2>1. HandleStatus(m, status) = [mapper |-> m, action |-> Action("complete", <<>>)]
    BY <1>2 DEF HandleStatus
  <2> QED
    <3>1. Outcome(m, HandleStatus(m, status))
      BY <2>1 DEF Outcome, Action, Shown, Bounded
    <3>2. ~Shown(HandleStatus(m, status).action)
      BY <2>1 DEF Action, Shown
    <3> QED
      BY <1>2, <3>1, <3>2
<1>3. CASE ~(status = "busy" /\ m.promptSubmitted)
           /\ ~(status = "idle" /\ m.promptSubmitted /\ m.targetActivity)
  <2>1. HandleStatus(m, status) = Ignore(m)
    BY <1>3 DEF HandleStatus
  <2>2. ~Shown(Ignore(m).action)
    BY DEF Ignore, Action, Shown
  <2>3. Outcome(m, HandleStatus(m, status))
    BY <2>1, IgnoreOutcome
  <2>4. ~Shown(HandleStatus(m, status).action)
    BY <2>1, <2>2
  <2> QED
    BY <1>3, <2>3, <2>4, Zenon
<1> QED
  BY <1>1, <1>2, <1>3

LEMMA DeltaOutcome ==
    ASSUME NEW m \in MapperOf(Sessions), NEW ev, ev.text \in Texts
    PROVE  Outcome(m, HandleDelta(m, ev))
<1>1. CASE ev.field = "text" /\ ev.text # <<>>
  <2>1. HandleDelta(m, ev) = [mapper |-> Active(m),
                              action |-> Action("assistant_text_delta", ev.text)]
    BY <1>1 DEF HandleDelta
  <2> QED
    BY <2>1, ActiveTyped DEF Outcome, Action, Shown, Bounded
<1>2. CASE ~(ev.field = "text" /\ ev.text # <<>>)
  BY <1>2, IgnoreOutcome DEF HandleDelta
<1> QED
  BY <1>1, <1>2

(* A label that is shown is one more of at most four. *)
LEMMA OneMoreLabel ==
    ASSUME NEW m \in MapperOf(Sessions), NEW label \in ProgressLabels, MayShow(m, label)
    PROVE  Cardinality(m.progressSeen \cup {label}) <= MaxProgress
<1>1. IsFiniteSet(ProgressLabels)
  <2>1. /\ IsFiniteSet({}) /\ IsFiniteSet({} \cup {"thinking"})
        /\ IsFiniteSet({} \cup {"thinking"} \cup {"tool"})
        /\ IsFiniteSet({} \cup {"thinking"} \cup {"tool"} \cup {"editing"})
        /\ IsFiniteSet({} \cup {"thinking"} \cup {"tool"} \cup {"editing"} \cup {"patch"})
    BY FS_EmptySet, FS_AddElement
  <2>2. ProgressLabels = {} \cup {"thinking"} \cup {"tool"} \cup {"editing"}
                            \cup {"patch"} \cup {"diff"}
    BY DEF ProgressLabels
  <2>3. \A S, x : IsFiniteSet(S) => IsFiniteSet(S \cup {x})
    BY FS_AddElement
  <2> QED
    BY <2>1, <2>2, <2>3
<1>2. IsFiniteSet(m.progressSeen)
  BY <1>1, FS_Subset DEF MapperOf
<1>3. /\ Cardinality(m.progressSeen) \in Nat
      /\ Cardinality(m.progressSeen \cup {label}) = Cardinality(m.progressSeen) + 1
  BY <1>2, FS_AddElement, FS_CardinalityType DEF MayShow
<1> QED
  BY <1>3 DEF MayShow, MaxProgress

LEMMA ShowOutcome ==
    ASSUME NEW m \in MapperOf(Sessions), NEW label \in ProgressLabels, MayShow(m, label)
    PROVE  /\ Show(m, label) \in MapperOf(Sessions)
           /\ Show(m, label).session = m.session
           /\ Show(m, label).promptSubmitted = m.promptSubmitted
           /\ Show(m, label).targetActivity
           /\ Show(m, label).progressSeen = m.progressSeen \cup {label}
           /\ Bounded(Show(m, label))
BY OneMoreLabel, ActiveTyped DEF Show, MapperOf, Bounded

LEMMA ProgressOutcome ==
    ASSUME NEW m \in MapperOf(Sessions), NEW label \in ProgressLabels
    PROVE  Outcome(m, HandleProgress(m, label))
<1>1. CASE MayShow(m, label)
  <2>1. HandleProgress(m, label) =
           [mapper |-> Show(m, label),
            action |-> Action("safe_progress_markdown", <<label>>)]
    BY <1>1 DEF HandleProgress
  <2>2. NewLabel(m, HandleProgress(m, label))
    BY <1>1, <2>1, ShowOutcome DEF NewLabel, Action, MayShow
  <2> QED
    BY <1>1, <2>1, <2>2, ShowOutcome DEF Outcome, Action
<1>2. CASE ~MayShow(m, label)
  BY <1>2, IgnoreOutcome DEF HandleProgress
<1> QED
  BY <1>1, <1>2

LEMMA DiffOutcome ==
    ASSUME NEW m \in MapperOf(Sessions)
    PROVE  Outcome(m, HandleDiff(m))
<1>1. CASE m.diffProgress \/ ~MayShow(m, "diff")
  BY <1>1, IgnoreOutcome DEF HandleDiff
<1>2. CASE ~(m.diffProgress \/ ~MayShow(m, "diff"))
  <2> DEFINE n == [Show(m, "diff") EXCEPT !.diffProgress = TRUE]
  <2>1. MayShow(m, "diff") /\ "diff" \in ProgressLabels
    BY <1>2 DEF ProgressLabels
  <2>2. HandleDiff(m) = [mapper |-> n,
                         action |-> Action("safe_progress_markdown", <<"diff">>)]
    BY <1>2, <2>1 DEF HandleDiff, HandleProgress
  <2>3. /\ n \in MapperOf(Sessions)
        /\ n.session = m.session
        /\ n.promptSubmitted = m.promptSubmitted
        /\ n.targetActivity
        /\ n.progressSeen = m.progressSeen \cup {"diff"}
        /\ Bounded(n)
    BY <2>1, ShowOutcome DEF MapperOf, Bounded
  <2> HIDE DEF n
  <2>4. NewLabel(m, HandleDiff(m))
    <3>1. "diff" \in ProgressLabels /\ "diff" \notin m.progressSeen
      BY <2>1 DEF MayShow
    <3>2. /\ HandleDiff(m).mapper.progressSeen = m.progressSeen \cup {"diff"}
          /\ HandleDiff(m).action.text = <<"diff">>
      BY <2>2, <2>3 DEF Action
    <3> QED
      BY <3>1, <3>2 DEF NewLabel
  <2> QED
    BY <2>2, <2>3, <2>4 DEF Outcome, Action
<1> QED
  BY <1>1, <1>2

LEMMA LabelsArePublic ==
    ASSUME NEW ev
    PROVE  PartLabel(ev) \in ProgressLabels
BY DEF PartLabel, ProgressLabels

(* Every event leaves the mapper well-formed; what is shown is activity,   *)
(* and text of a delta or a label that is new.                             *)
LEMMA HandleOutcome ==
    ASSUME NEW m \in MapperOf(Sessions), NEW ev \in Events
    PROVE  Outcome(m, Handle(m, ev))
<1>1. CASE ev.type = "server.connected"
  BY <1>1 DEF Handle, Outcome, Action, Shown
<1>2. CASE ev.type = "server.heartbeat"
  BY <1>2, IgnoreOutcome DEF Handle
<1>3. CASE ev.type \notin {"server.connected", "server.heartbeat"}
           /\ ev.session # m.session
  BY <1>3, IgnoreOutcome DEF Handle
<1>4. CASE ev.type \notin {"server.connected", "server.heartbeat"}
           /\ ev.session = m.session
  <2>1. Handle(m, ev) = HandleTarget(m, ev)
    BY <1>4 DEF Handle
  <2>2. Outcome(m, HandleTarget(m, ev))
    <3>1. CASE ev.type = "session.status"
      BY <3>1, StatusOutcome DEF HandleTarget
    <3>2. CASE ev.type = "session.idle"
      BY <3>2, StatusOutcome DEF HandleTarget
    <3>3. CASE ev.type = "message.part.delta"
      BY <3>3, DeltaShape, DeltaOutcome DEF HandleTarget
    <3>4. CASE ev.type = "message.part.updated"
      BY <3>4, LabelsArePublic, ProgressOutcome DEF HandleTarget
    <3>5. CASE ev.type = "session.diff"
      BY <3>5, DiffOutcome DEF HandleTarget
    <3>6. CASE ev.type \notin {"session.status", "session.idle", "message.part.delta",
                               "message.part.updated", "session.diff"}
      BY <3>6, IgnoreOutcome DEF HandleTarget
    <3> QED
      BY <3>1, <3>2, <3>3, <3>4, <3>5, <3>6
  <2> QED
    BY <2>1, <2>2
<1> QED
  BY <1>1, <1>2, <1>3, <1>4

-----------------------------------------------------------------------------
(* The types, and what the loop of the handler says of its mapper. *)
Late == phase \in {"streaming", "completed"}
Ready == /\ Late => mapper.promptSubmitted
         /\ ~Late => written = <<>> /\ answered = FALSE
         /\ answered \/ written # <<>> => mapper.targetActivity
MapperInv == /\ MapperTypeOK
             /\ mapper.session = Target
             /\ OthersDoNotInterfere
             /\ Ready

LEMMA NewMapperTyped ==
    /\ NewMapper(Target) \in MapperOf(Sessions)
    /\ NewMapper(Target).session = Target
    /\ NewMapper(Target).progressSeen = {}
BY MapperAssumption DEF MapperAssumption, NewMapper, MapperOf

LEMMA SubmitTyped ==
    ASSUME NEW m \in MapperOf(Sessions)
    PROVE  /\ MarkPromptSubmitted(m) \in MapperOf(Sessions)
           /\ MarkPromptSubmitted(m).session = m.session
           /\ MarkPromptSubmitted(m).promptSubmitted
           /\ MarkPromptSubmitted(m).targetActivity = m.targetActivity
           /\ MarkPromptSubmitted(m).progressSeen = m.progressSeen
BY DEF MarkPromptSubmitted, MapperOf

(* What is shown fits on the wire. *)
LEMMA ShownTyped ==
    ASSUME NEW m \in MapperOf(Sessions), NEW ev \in Events, Shown(Handle(m, ev).action)
    PROVE  Handle(m, ev).action.text \in Texts \cup ProgressTexts
<1>1. CASE Handle(m, ev).action.text \in Texts
  BY <1>1
<1>2. CASE NewLabel(m, Handle(m, ev))
  <2>1. PICK label \in ProgressLabels : Handle(m, ev).action.text = <<label>>
    BY <1>2 DEF NewLabel
  <2> QED
    BY <2>1 DEF ProgressTexts
<1> QED
  BY <1>1, <1>2, HandleOutcome DEF Outcome

(* Activity is seen by the mapper, whatever form it takes. *)
LEMMA ActivitySeen ==
    ASSUME NEW m \in MapperOf(Sessions), NEW ev \in Events, m.session = Target,
           m.promptSubmitted, IsActivity(ev, Handle(m, ev).action)
    PROVE  Handle(m, ev).mapper.targetActivity
<1>1. CASE Shown(Handle(m, ev).action)
  BY <1>1, HandleOutcome DEF Outcome
<1>2. CASE IsTarget(ev) /\ ev.type = "session.status" /\ ev.status = "busy"
  <2>1. Handle(m, ev) = HandleStatus(m, "busy")
    BY <1>2, EventShape DEF Handle, HandleTarget
  <2> QED
    BY <2>1, StatusOutcome
<1> QED
  BY <1>1, <1>2 DEF IsActivity

LEMMA MapperInvStep == MapperInv /\ [Next]_vars => MapperInv'
<1> SUFFICES ASSUME MapperInv, [Next]_vars
             PROVE  MapperInv'
  OBVIOUS
<1> USE DEF MapperInv, MapperTypeOK, OthersDoNotInterfere, Ready, Late
<1>1. ASSUME NEW ev \in Events, HandleEarly(ev)
      PROVE  MapperInv'
  <2>1. Outcome(mapper, Handle(mapper, ev))
    BY HandleOutcome
  <2>2. /\ mapper' = Handle(mapper, ev).mapper
        /\ phase = "connecting" /\ phase' \in {"connecting", "prompting"}
        /\ twin' = IF IsTarget(ev) THEN mapper' ELSE mapper
        /\ UNCHANGED <<written, twinText, answered>>
    BY <1>1 DEF HandleEarly
  <2>3. mapper' = twin'
    BY <2>2, OtherEvent
  <2>4. mapper' \in MapperOf(Sessions) /\ mapper'.session = Target
    BY <2>1, <2>2 DEF Outcome
  <2> QED
    BY <2>2, <2>3, <2>4
<1>2. CASE Submit
  <2>1. /\ mapper' \in MapperOf(Sessions) /\ mapper'.session = Target
        /\ mapper'.promptSubmitted /\ mapper' = twin'
    BY <1>2, SubmitTyped DEF Submit
  <2> QED
    BY <1>2, <2>1 DEF Submit
<1>3. ASSUME NEW ev \in Events, HandleLate(ev)
      PROVE  MapperInv'
  <2> DEFINE h == Handle(mapper, ev)
  <2>1. Outcome(mapper, h)
    BY HandleOutcome
  <2>2. IsTarget(ev) \/ (h.mapper = mapper /\ ~Shown(h.action))
    BY OtherEvent
  <2>3. Shown(h.action) => h.action.text \in Texts \cup ProgressTexts
    BY ShownTyped
  <2>4. /\ mapper' = h.mapper
        /\ written' = IF Shown(h.action) THEN Append(written, h.action.text) ELSE written
        /\ phase = "streaming" /\ phase' \in {"streaming", "completed"}
        /\ twin' = IF IsTarget(ev) THEN h.mapper ELSE mapper
        /\ twinText' = IF IsTarget(ev) /\ Shown(h.action)
                       THEN Append(written, h.action.text) ELSE written
        /\ answered' = (answered \/ IsActivity(ev, h.action))
    BY <1>3 DEF HandleLate
  <2>5. IsActivity(ev, h.action) => h.mapper.targetActivity
    <3>1. mapper.promptSubmitted
      BY <2>4
    <3> QED
      BY <3>1, ActivitySeen
  <2> HIDE DEF h
  <2>6. /\ mapper' \in MapperOf(Sessions) /\ mapper'.session = Target
        /\ mapper'.promptSubmitted
    BY <2>1, <2>4 DEF Outcome
  <2>7. mapper' = twin' /\ written' = twinText'
    BY <2>2, <2>4
  <2>8. written' \in Seq(Texts \cup ProgressTexts)
    BY <2>3, <2>4
  <2>9. answered' \/ written' # <<>> => mapper'.targetActivity
    BY <2>1, <2>4, <2>5 DEF Outcome
  <2>10. answered' \in BOOLEAN
    BY <2>4, Zenon DEF IsActivity
  <2> QED
    BY <2>4, <2>6, <2>7, <2>8, <2>9, <2>10
<1>4. CASE UNCHANGED vars
  BY <1>4 DEF vars
<1> QED
  BY <1>1, <1>2, <1>3, <1>4 DEF Next

LEMMA MapperInvariance == Spec => []MapperInv
<1>1. Init => MapperInv
  <2>1. Init => answered \in BOOLEAN
    BY Zenon DEF Init
  <2> QED
    BY <2>1, NewMapperTyped
    DEF Init, MapperInv, MapperTypeOK, OthersDoNotInterfere, Ready, Late
<1> QED
  BY <1>1, MapperInvStep, PTL DEF Spec

(* Every variable keeps its type: nothing goes to the client but texts of  *)
(* deltas and the public labels.                                           *)
THEOREM MapperTyping == Spec => []MapperTypeOK
BY MapperInvariance, PTL DEF MapperInv

(* Whatever the other sessions of the shared event stream do, the mapper   *)
(* and all it writes are those of a mapper that never saw them.            *)
THEOREM OthersNeverInterfere == Spec => []OthersDoNotInterfere
BY MapperInvariance, PTL DEF MapperInv

(* A stream that showed anything, or saw its session busy, will complete   *)
(* at the next idle.                                                       *)
THEOREM ActiveIsReady == Spec => []ReadyWhenActive
<1>1. MapperInv => ReadyWhenActive
  BY DEF MapperInv, Ready, ReadyWhenActive
<1> QED
  BY <1>1, MapperInvariance, PTL

-----------------------------------------------------------------------------
(* A progress text that was written is a label the mapper remembers, and   *)
(* the next one is a label it does not.                                    *)
Remembered ==
    /\ \A i \in DOMAIN written : written[i] \in ProgressTexts =>
          written[i][1] \in mapper.progressSeen
    /\ \A i, j \in DOMAIN written :
          written[i] \in ProgressTexts /\ written[i] = written[j] => i = j
    /\ Bounded(mapper)

LEMMA RememberedStep ==
    ASSUME Texts \cap ProgressTexts = {}, MapperInv, Remembered, [Next]_vars
    PROVE  Remembered'
<1> USE DEF MapperInv, MapperTypeOK
<1>1. ASSUME NEW ev \in Events, HandleEarly(ev)
      PROVE  Remembered'
  <2>1. Outcome(mapper, Handle(mapper, ev))
    BY HandleOutcome
  <2>2. mapper' = Handle(mapper, ev).mapper /\ UNCHANGED written
    BY <1>1 DEF HandleEarly
  <2> QED
    BY <2>1, <2>2 DEF Remembered, Outcome
<1>2. CASE Submit
  <2>1. mapper'.progressSeen = mapper.progressSeen /\ UNCHANGED written
    BY <1>2, SubmitTyped DEF Submit
  <2> QED
    BY <2>1 DEF Remembered, Bounded
<1>3. ASSUME NEW ev \in Events, HandleLate(ev)
      PROVE  Remembered'
  <2> DEFINE h == Handle(mapper, ev)
  <2>1. Outcome(mapper, h)
    BY HandleOutcome
  <2>2. /\ mapper' = h.mapper
        /\ written' = IF Shown(h.action) THEN Append(written, h.action.text) ELSE written
    BY <1>3 DEF HandleLate
  <2> HIDE DEF h
  <2>3. Bounded(mapper') /\ mapper.progressSeen \subseteq mapper'.progressSeen
    BY <2>1, <2>2 DEF Outcome, Remembered
  <2>4. CASE ~Shown(h.action)
    BY <2>2, <2>3, <2>4 DEF Remembered, Bounded
  <2>5. CASE Shown(h.action) /\ h.action.text \in Texts
    <3>1. written' = Append(written, h.action.text) /\ h.action.text \notin ProgressTexts
      BY <2>2, <2>5
    <3> QED
      BY <2>3, <3>1 DEF Remembered, Bounded
  <2>6. CASE Shown(h.action) /\ NewLabel(mapper, h)
    <3>1. PICK label \in ProgressLabels :
                  /\ label \notin mapper.progressSeen
                  /\ mapper'.progressSeen = mapper.progressSeen \cup {label}
                  /\ written' = Append(written, <<label>>)
      BY <2>2, <2>6 DEF NewLabel
    <3>2. \A i \in DOMAIN written : written[i] # <<label>>
      BY <3>1 DEF Remembered, ProgressTexts
    <3> QED
      BY <2>3, <3>1, <3>2 DEF Remembered, Bounded
  <2> QED
    BY <2>1, <2>4, <2>5, <2>6 DEF Outcome
<1>4. CASE UNCHANGED vars
  BY <1>4 DEF vars, Remembered, Bounded
<1> QED
  BY <1>1, <1>2, <1>3, <1>4 DEF Next

(* No label of progress comes twice and at most four come at all, when     *)
(* progress can be told from the text of deltas.                           *)
THEOREM ProgressStaysBounded ==
    ASSUME Texts \cap ProgressTexts = {}
    PROVE  Spec => []ProgressIsBounded
<1>1. Init => Remembered
  <2>1. Cardinality({}) = 0
    BY FS_EmptySet
  <2>2. Init => Bounded(mapper)
    <3>1. Init => mapper.progressSeen = {}
      BY NewMapperTyped DEF Init
    <3> QED
      BY <2>1, <3>1 DEF Bounded, MaxProgress
  <2>3. Init => DOMAIN written = {}
    BY DEF Init
  <2> QED
    BY <2>2, <2>3, Zenon DEF Remembered
<1>2. MapperInv /\ Remembered /\ [Next]_vars => Remembered'
  BY RememberedStep
<1>3. MapperInv /\ Remembered => ProgressIsBounded
  BY DEF Remembered, ProgressIsBounded, Bounded
<1> QED
  BY <1>1, <1>2, <1>3, MapperInvariance, PTL DEF Spec
=============================================================================
