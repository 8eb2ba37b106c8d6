--------------------------- MODULE ChatSyncProofs ---------------------------
(***************************************************************************)
(* Proofs about requests with stream=false, for any number of requests and *)
(* lives.  What a code says of the prompt is no invariant of its own: it   *)
(* rests on how far a prompt can be in OpenCode for each position of its   *)
(* handler, and on what a code, once told, leaves possible there.          *)
(***************************************************************************)
EXTENDS ChatSync, TLAPS

(* How far the prompt is in OpenCode, given the handler and the code. *)
Linked(r) ==
    /\ pc[r] \in {"unsent", "reading", "resolve", "send"} => upstream[r] = "none"
    /\ pc[r] \in {"touch", "reply"} => upstream[r] = "text"
    /\ pc[r] = "reply" => r \in touched
    /\ told[r] \in NeverRun => upstream[r] \in {"none", "refused"}
    /\ told[r] \in HasRun => upstream[r] \in Answers

(* A handler has told a code exactly when it has ended. *)
EveryReturnAnswers == \A r \in Requests : At(r, "ended") <=> told[r] # "none"

SyncInv == /\ SyncTypeOK
           /\ EveryReturnAnswers
           /\ RowTellsUse
           /\ \A r \in Requests : Linked(r)

(* The steps in which a handler ends its request with a code. *)
Ending(r) == \/ Refuse(r) \/ ResolveFails(r) \/ CallFails(r) \/ AuthFails(r)
             \/ NoText(r) \/ TouchFails(r) \/ Reply(r)
(* The steps in which it goes on. *)
GoingOn(r) == \/ Arrive(r) \/ Accept(r) \/ Resolve(r) \/ SendMessage(r)
              \/ HasText(r) \/ Touch(r)

LEMMA NextSteps ==
    ASSUME [Next]_vars
    PROVE  \/ \E r \in Requests : Ending(r) \/ GoingOn(r) \/ ClientGone(r)
           \/ \E r \in Requests, answer \in Upstream : OpenCodeAnswers(r, answer)
           \/ Signal \/ Drained \/ DrainTimeout
           \/ Exit \/ Crash \/ Start \/ UNCHANGED vars
BY DEF Next, FrontDoor, HandlerStep, ShutdownReturns, Ending, GoingOn

-----------------------------------------------------------------------------
(* No step of a handler, of OpenCode or of main leaves the types. *)
LEMMA SyncTypeStep == SyncTypeOK /\ [Next]_vars => SyncTypeOK'
<1> SUFFICES ASSUME SyncTypeOK, [Next]_vars
             PROVE  SyncTypeOK'
  OBVIOUS
<1> USE LivesAssumption
    DEF LivesAssumption, SyncTypeOK, Phases, PCs, Upstream, Answers, GoTo, At, lifeVars
<1>1. ASSUME NEW r \in Requests, Ending(r)
      PROVE  SyncTypeOK'
  <2>1. \E code \in Codes : Answer(r, code)
    BY <1>1 DEF Ending, Refuse, ResolveFails, CallFails, AuthFails, NoText,
       TouchFails, Reply, Codes, HasRun, NeverRun, Refusals, CallErrors
  <2>2. UNCHANGED <<lifeVars, gone, upstream>> /\ touched' \in SUBSET Requests
    BY <1>1 DEF Ending, Refuse, ResolveFails, CallFails, AuthFails, NoText,
       TouchFails, Reply
  <2> QED
    BY <2>1, <2>2 DEF Answer
<1>2. ASSUME NEW r \in Requests, GoingOn(r) \/ ClientGone(r)
      PROVE  SyncTypeOK'
  BY <1>2 DEF GoingOn, Arrive, Accept, Resolve, SendMessage, HasText, Touch, ClientGone
<1>3. ASSUME NEW r \in Requests, NEW answer \in Upstream, OpenCodeAnswers(r, answer)
      PROVE  SyncTypeOK'
  BY <1>3 DEF OpenCodeAnswers
<1>4. CASE Signal \/ Drained \/ DrainTimeout
  BY <1>4 DEF Signal, Drained, DrainTimeout
<1>5. CASE Exit \/ Crash
  BY <1>5 DEF Exit, Crash, Die
<1>6. CASE Start
  <2>1. overrun' \in BOOLEAN
    BY <1>6, Zenon DEF Start
  <2>2. lives' \in 1..MaxLives
    BY <1>6, SMT DEF Start
  <2> QED
    BY <1>6, <2>1, <2>2 DEF Start
<1>7. CASE UNCHANGED vars
  BY <1>7 DEF vars
<1> QED
  BY <1>1, <1>2, <1>3, <1>4, <1>5, <1>6, <1>7, NextSteps

LEMMA SyncTypeInit == Init => SyncTypeOK
<1>1. Init => overrun \in BOOLEAN
  BY Zenon DEF Init
<1>2. Init => lives \in 1..MaxLives
  BY LivesAssumption, SMT DEF Init, LivesAssumption
<1> QED
  BY <1>1, <1>2 DEF Init, SyncTypeOK, Phases, PCs, Upstream

(* Every variable keeps its type, and every code told is one of the codes. *)
THEOREM SyncTyping == FairSpec => []SyncTypeOK
BY SyncTypeInit, SyncTypeStep, PTL DEF FairSpec, Spec

-----------------------------------------------------------------------------
(* A handler that ends tells its request a code, of which OpenCode's       *)
(* part is true now; it touches the row of no prompt without text.         *)
LEMMA EndingStep ==
    ASSUME SyncInv, NEW r \in Requests, Ending(r)
    PROVE  \E code \in Codes :
              /\ Answer(r, code) /\ pc[r] # "ended"
              /\ code \in HasRun => upstream[r] \in Answers
              /\ code \in NeverRun => upstream[r] \in {"none", "refused"}
              /\ code = "ok" => r \in touched
              /\ touched' \in {touched, touched \cup {r}}
              /\ touched' # touched => upstream[r] = "text"
              /\ UNCHANGED <<lifeVars, gone, upstream>>
<1> USE DEF SyncInv, Linked, RowTellsUse, At, Codes, HasRun, NeverRun,
        Refusals, CallErrors, Answers
<1>1. CASE Refuse(r)
  BY <1>1 DEF Refuse
<1>2. CASE ResolveFails(r)
  BY <1>2 DEF ResolveFails
<1>3. CASE CallFails(r)
  BY <1>3 DEF CallFails
<1>4. CASE AuthFails(r)
  BY <1>4 DEF AuthFails
<1>5. CASE NoText(r)
  BY <1>5 DEF NoText
<1>6. CASE TouchFails(r)
  BY <1>6 DEF TouchFails
<1>7. CASE Reply(r)
  BY <1>7 DEF Reply
<1> QED
  BY <1>1, <1>2, <1>3, <1>4, <1>5, <1>6, <1>7 DEF Ending

(* The links survive every step. *)
LEMMA SyncInvStep == SyncInv /\ [Next]_vars => SyncInv'
<1> SUFFICES ASSUME SyncInv, [Next]_vars
             PROVE  EveryReturnAnswers' /\ RowTellsUse' /\ \A r \in Requests : Linked(r)'
  BY SyncTypeStep DEF SyncInv
<1> USE DEF SyncInv, SyncTypeOK, EveryReturnAnswers, RowTellsUse, Linked, GoTo, At,
        lifeVars
<1>1. ASSUME NEW r \in Requests, Ending(r)
      PROVE  EveryReturnAnswers' /\ RowTellsUse' /\ \A q \in Requests : Linked(q)'
  <2>1. PICK code \in Codes :
              /\ Answer(r, code) /\ pc[r] # "ended"
              /\ code \in HasRun => upstream[r] \in Answers
              /\ code \in NeverRun => upstream[r] \in {"none", "refused"}
              /\ code = "ok" => r \in touched
              /\ touched' \in {touched, touched \cup {r}}
              /\ touched' # touched => upstream[r] = "text"
              /\ UNCHANGED <<lifeVars, gone, upstream>>
    BY <1>1, EndingStep
  <2>2. /\ pc' = [pc EXCEPT ![r] = "ended"]
        /\ told' = [told EXCEPT ![r] = code]
        /\ code # "none"
    BY <2>1 DEF Answer, Codes, HasRun, NeverRun, Refusals, CallErrors
  <2>3. EveryReturnAnswers'
    BY <2>2
  <2>4. RowTellsUse'
    BY <2>1, <2>2
  <2>5. \A q \in Requests : Linked(q)'
    BY <2>1, <2>2
  <2> QED
    BY <2>3, <2>4, <2>5
<1>2. ASSUME NEW r \in Requests, GoingOn(r) \/ ClientGone(r)
      PROVE  EveryReturnAnswers' /\ RowTellsUse' /\ \A q \in Requests : Linked(q)'
  <2>1. (told[r] = "none" /\ "none" \notin HasRun \cup NeverRun) \/ UNCHANGED <<pc, upstream>>
    BY <1>2 DEF GoingOn, Arrive, Accept, Resolve, SendMessage, HasText, Touch, ClientGone,
       HasRun, NeverRun, Refusals
  <2> QED
    BY <1>2, <2>1 DEF GoingOn, Arrive, Accept, Resolve, SendMessage, HasText,
       Touch, ClientGone
<1>3. ASSUME NEW r \in Requests, NEW answer \in Upstream, OpenCodeAnswers(r, answer)
      PROVE  EveryReturnAnswers' /\ RowTellsUse' /\ \A q \in Requests : Linked(q)'
  BY <1>3 DEF OpenCodeAnswers, Answers
<1>4. CASE Signal \/ Drained \/ DrainTimeout \/ Start
  BY <1>4 DEF Signal, Drained, DrainTimeout, Start
<1>5. CASE Exit \/ Crash
  BY <1>5 DEF Exit, Crash, Die, Active
<1>6. CASE UNCHANGED vars
  BY <1>6 DEF vars
<1> QED
  BY <1>1, <1>2, <1>3, <1>4, <1>5, <1>6, NextSteps

LEMMA SyncInvariance == FairSpec => []SyncInv
<1>1. Init => SyncInv
  BY SyncTypeInit DEF Init, SyncInv, EveryReturnAnswers, RowTellsUse, Linked,
     At, HasRun, NeverRun, Refusals
<1> QED
  BY <1>1, SyncInvStep, PTL DEF FairSpec, Spec

(* A row is refreshed only for a prompt that has run and has text, and who *)
(* was told 200 has had the row refreshed.                                 *)
THEOREM RowTellsUseAlways == FairSpec => []RowTellsUse
BY SyncInvariance, PTL DEF SyncInv

-----------------------------------------------------------------------------
(* What a client is told of its prompt is true for ever, whatever crashes, *)
(* times out or comes late.                                                *)
THEOREM CodesAreTrue == FairSpec => ImplementsOutcome
<1>1. Init => Outcome!Init
  BY DEF Init, Outcome!Init, Ran, Answers
<1>2. SyncInv /\ [Next]_vars => [Outcome!Next]_<<Ran, told>>
  <2> SUFFICES ASSUME SyncInv, [Next]_vars
               PROVE  Outcome!Next \/ UNCHANGED <<Ran, told>>
    OBVIOUS
  <2> USE DEF SyncInv, SyncTypeOK, lifeVars
  <2>1. ASSUME NEW r \in Requests, Ending(r)
        PROVE  Outcome!Next
    <3>1. PICK code \in Codes :
                /\ Answer(r, code) /\ pc[r] # "ended"
                /\ code \in HasRun => upstream[r] \in Answers
                /\ code \in NeverRun => upstream[r] \in {"none", "refused"}
                /\ UNCHANGED upstream
      BY <2>1, EndingStep
    <3>2. told[r] = "none" /\ UNCHANGED Ran
      BY <3>1 DEF EveryReturnAnswers, At, Ran
    <3>3. code \in NeverRun => r \notin Ran
      BY <3>1 DEF Ran, Answers
    <3>4. Outcome!Tell(r, code)
      BY <3>1, <3>2, <3>3 DEF Outcome!Tell, Answer, Ran
    <3> QED
      BY <3>4 DEF Outcome!Next
  <2>2. ASSUME NEW r \in Requests, GoingOn(r) \/ ClientGone(r)
        PROVE  UNCHANGED <<Ran, told>>
    BY <2>2 DEF GoingOn, Arrive, Accept, Resolve, SendMessage, HasText, Touch,
       ClientGone, Ran, Linked, At, Answers
  <2>3. ASSUME NEW r \in Requests, NEW answer \in Upstream, OpenCodeAnswers(r, answer)
        PROVE  Outcome!Next \/ UNCHANGED <<Ran, told>>
    <3>1. upstream[r] = "posted" /\ r \notin Ran /\ told[r] \notin NeverRun
      BY <2>3 DEF OpenCodeAnswers, Linked, Ran, Answers
    <3>2. CASE answer \in Answers
      <4>1. Ran' = Ran \cup {r}
        BY <2>3, <3>2 DEF OpenCodeAnswers, Ran
      <4>2. Outcome!Run(r)
        BY <2>3, <3>1, <4>1 DEF OpenCodeAnswers, Outcome!Run
      <4> QED
        BY <4>2 DEF Outcome!Next
    <3>3. CASE answer \notin Answers
      BY <2>3, <3>1, <3>3 DEF OpenCodeAnswers, Ran
    <3> QED
      BY <3>2, <3>3
  <2>4. CASE Signal \/ Drained \/ DrainTimeout \/ Exit \/ Crash \/ Start
    BY <2>4 DEF Signal, Drained, DrainTimeout, Exit, Crash, Die, Start, Ran
  <2>5. CASE UNCHANGED vars
    BY <2>5 DEF vars, Ran
  <2> QED
    BY <2>1, <2>2, <2>3, <2>4, <2>5, NextSteps
<1> QED
  BY <1>1, <1>2, SyncInvariance, PTL DEF FairSpec, Spec, ImplementsOutcome, Outcome!Spec

-----------------------------------------------------------------------------
(* The ledger is closed under a handler only after the grace period: the   *)
(* listener is closed first, and no handler comes to life without it.      *)
THEOREM HandlersKeepLedger == FairSpec => []LedgerOutlivesHandlers
<1>1. Init => LedgerOutlivesHandlers
  BY DEF Init, LedgerOutlivesHandlers
<1>2. SyncInv /\ LedgerOutlivesHandlers /\ [Next]_vars => LedgerOutlivesHandlers'
  <2> SUFFICES ASSUME SyncInv, LedgerOutlivesHandlers, [Next]_vars
               PROVE  LedgerOutlivesHandlers'
    OBVIOUS
  <2> USE DEF LedgerOutlivesHandlers, SyncInv, SyncTypeOK, Active, lifeVars, GoTo, At
  <2>1. ASSUME NEW r \in Requests, Ending(r)
        PROVE  LedgerOutlivesHandlers'
    <3>1. pc' = [pc EXCEPT ![r] = "ended"] /\ UNCHANGED lifeVars
      BY <2>1, EndingStep DEF Answer
    <3> QED
      BY <3>1
  <2>2. ASSUME NEW r \in Requests, GoingOn(r) \/ ClientGone(r)
        PROVE  LedgerOutlivesHandlers'
    BY <2>2 DEF GoingOn, Arrive, Accept, Resolve, SendMessage, HasText, Touch, ClientGone
  <2>3. ASSUME NEW r \in Requests, NEW answer \in Upstream, OpenCodeAnswers(r, answer)
        PROVE  LedgerOutlivesHandlers'
    BY <2>3 DEF OpenCodeAnswers
  <2>4. CASE Signal \/ Drained \/ DrainTimeout \/ Start
    BY <2>4 DEF Signal, Drained, DrainTimeout, Start
  <2>5. CASE Exit \/ Crash
    BY <2>5 DEF Exit, Crash, Die
  <2>6. CASE UNCHANGED vars
    BY <2>6 DEF vars
  <2> QED
    BY <2>1, <2>2, <2>3, <2>4, <2>5, <2>6, NextSteps
<1> QED
  BY <1>1, <1>2, SyncInvariance, PTL DEF FairSpec, Spec
=============================================================================
