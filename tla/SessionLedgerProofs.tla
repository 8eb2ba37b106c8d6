------------------------ MODULE SessionLedgerProofs ------------------------
(***************************************************************************)
(* Proofs about the session ledger, for any number of requests, chats and  *)
(* processes that share the database.  The mutex of a chat is locked by    *)
(* exactly the requests that are inside ResolveOrCreate, so that within a  *)
(* process a request that found no row is the only one that can insert it. *)
(***************************************************************************)
EXTENDS SessionLedger, TLAPS

(* A request has no session before ResolveOrCreate has returned it one. *)
Unrouted == \A r \in Requests : pc[r] = "start" \/ InCall(r) => got[r] = NoSession

LedgerInv == LedgerTypeOK /\ SingleFlight /\ Unrouted /\ OneSessionPerChat

-----------------------------------------------------------------------------
(* No step leaves the types of the variables. *)
LEMMA LedgerTypeStep == LedgerTypeOK /\ [Next]_vars => LedgerTypeOK'
<1> SUFFICES ASSUME LedgerTypeOK, [Next]_vars
             PROVE  LedgerTypeOK'
  OBVIOUS
<1> USE LedgerAssumption
    DEF LedgerTypeOK, PCs, Time, Sessions, rowVars, openCodeVars, GoTo
<1>1. ASSUME NEW r \in Requests, LockKey(r) \/ GetStep(r)
      PROVE  LedgerTypeOK'
  BY <1>1 DEF LockKey, GetStep, GetFound, GetFails, GetMissing, Lock, Unlock
<1>2. ASSUME NEW r \in Requests, CreateStep(r) \/ OpenCodeCreates(r)
      PROVE  LedgerTypeOK'
  BY <1>2 DEF CreateStep, CreateReturns, CreateFails, OpenCodeCreates,
     ReadClock, Unlock
<1>3. ASSUME NEW r \in Requests, InsertStep(r)
      PROVE  LedgerTypeOK'
  BY <1>3 DEF InsertStep, InsertOk, InsertFails, InsertLost, AddRow, Unlock
<1>4. ASSUME NEW r \in Requests, UseStep(r)
      PROVE  LedgerTypeOK'
  BY <1>4 DEF UseStep, TouchCalled, UseFails, TouchRuns, TouchFails, ReadClock
<1>5. CASE Tick
  BY <1>5 DEF Tick
<1>6. ASSUME NEW g \in Gateways, Crash(g)
      PROVE  LedgerTypeOK'
  BY <1>6 DEF Crash
<1>7. CASE UNCHANGED vars
  BY <1>7 DEF vars
<1> QED
  BY <1>1, <1>2, <1>3, <1>4, <1>5, <1>6, <1>7 DEF Next, RequestStep

(* Every variable keeps its type: a row, a returned session and a created  *)
(* session are sessions, and times stay within the clock.                  *)
THEOREM LedgerTyping == Spec => []LedgerTypeOK
<1>1. Init => LedgerTypeOK
  BY LedgerAssumption DEF Init, LedgerTypeOK, PCs, Time, Sessions
<1> QED
  BY <1>1, LedgerTypeStep, PTL DEF Spec

-----------------------------------------------------------------------------
(* A step of a request that is in ResolveOrCreate and unlocks as it leaves. *)
LEMMA LeaveCall ==
    ASSUME LedgerTypeOK, SingleFlight,
           NEW r \in Requests, InCall(r), ~InCall(r)',
           \A q \in Requests \ {r} : InCall(q)' <=> InCall(q),
           Unlock(r)
    PROVE  SingleFlight'
BY LedgerAssumption DEF SingleFlight, Unlock, Lock

(* A step that moves nobody into or out of ResolveOrCreate. *)
LEMMA StayInCall ==
    ASSUME SingleFlight, UNCHANGED mutex,
           \A q \in Requests : InCall(q)' <=> InCall(q)
    PROVE  SingleFlight'
BY DEF SingleFlight, Lock

(* The mutexes that are locked are those of the requests in the call. *)
LEMMA SingleFlightStep == LedgerTypeOK /\ SingleFlight /\ [Next]_vars => SingleFlight'
<1> SUFFICES ASSUME LedgerTypeOK, SingleFlight, [Next]_vars
             PROVE  SingleFlight'
  OBVIOUS
<1> USE LedgerAssumption
<1>1. ASSUME NEW r \in Requests, LockKey(r)
      PROVE  SingleFlight'
  <2>1. /\ ~InCall(r) /\ InCall(r)'
        /\ \A q \in Requests \ {r} : InCall(q)' <=> InCall(q)
    BY <1>1 DEF LockKey, GoTo, InCall, LedgerTypeOK
  <2>2. Lock(r) \notin mutex /\ mutex' = mutex \cup {Lock(r)}
    BY <1>1 DEF LockKey
  <2> QED
    BY <2>1, <2>2 DEF SingleFlight, Lock
<1>2. ASSUME NEW r \in Requests,
             \/ GetFound(r) \/ GetFails(r) \/ CreateFails(r) \/ InsertStep(r)
      PROVE  SingleFlight'
  <2>1. /\ InCall(r) /\ ~InCall(r)'
        /\ \A q \in Requests \ {r} : InCall(q)' <=> InCall(q)
    BY <1>2 DEF GetFound, GetFails, CreateFails, InsertStep, InsertOk,
       InsertFails, InsertLost, GoTo, InCall, LedgerTypeOK
  <2>2. Unlock(r)
    BY <1>2 DEF GetFound, GetFails, CreateFails, InsertStep, InsertOk,
       InsertFails, InsertLost
  <2> QED
    BY <2>1, <2>2, LeaveCall
<1>3. ASSUME NEW r \in Requests,
             GetMissing(r) \/ CreateReturns(r) \/ UseStep(r) \/ OpenCodeCreates(r)
      PROVE  SingleFlight'
  <2>1. \A q \in Requests : InCall(q)' <=> InCall(q)
    BY <1>3 DEF GetMissing, CreateReturns, OpenCodeCreates, UseStep, TouchCalled,
       UseFails, TouchRuns, TouchFails, GoTo, InCall, LedgerTypeOK
  <2>2. UNCHANGED mutex
    BY <1>3 DEF GetMissing, CreateReturns, OpenCodeCreates, UseStep, TouchCalled,
       UseFails, TouchRuns, TouchFails
  <2> QED
    BY <2>1, <2>2, StayInCall
<1>4. ASSUME NEW g \in Gateways, Crash(g)
      PROVE  SingleFlight'
  <2>1. \A q \in Requests : InCall(q)' <=> InCall(q) /\ GatewayOf[q] # g
    BY <1>4 DEF Crash, Serving, InCall, LedgerTypeOK
  <2>2. mutex' = {l \in mutex : l[1] # g}
    BY <1>4 DEF Crash
  <2> QED
    BY <2>1, <2>2 DEF SingleFlight, Lock
<1>5. CASE Tick \/ UNCHANGED vars
  BY <1>5, StayInCall DEF Tick, vars, InCall
<1> QED
  BY <1>1, <1>2, <1>3, <1>4, <1>5 DEF Next, RequestStep, GetStep, CreateStep

-----------------------------------------------------------------------------
(* Only an insert of a chat without a row changes the table. *)
LEMMA TableStep ==
    ASSUME LedgerTypeOK, [Next]_vars
    PROVE  /\ UNCHANGED <<table, born>>
           \/ \E r \in Requests : /\ pc[r] = "insert"
                                  /\ InsertOk(r) \/ InsertLost(r)
                                  /\ AddRow(r)
<1>1. ASSUME NEW r \in Requests, InsertOk(r) \/ InsertLost(r)
      PROVE  pc[r] = "insert" /\ AddRow(r)
  BY <1>1 DEF InsertOk, InsertLost, GoTo
<1>2. ASSUME NEW r \in Requests, RequestStep(r), ~InsertOk(r), ~InsertLost(r)
      PROVE  UNCHANGED <<table, born>>
  BY <1>2 DEF RequestStep, LockKey, GetStep, GetFound, GetFails, GetMissing,
     CreateStep, CreateReturns, CreateFails, InsertStep, InsertFails, UseStep,
     TouchCalled, UseFails, TouchRuns, TouchFails, rowVars
<1>3. CASE \/ \E r \in Requests : OpenCodeCreates(r)
           \/ Tick
           \/ \E g \in Gateways : Crash(g)
           \/ UNCHANGED vars
  BY <1>3 DEF OpenCodeCreates, Tick, Crash, vars, rowVars
<1> QED
  BY <1>1, <1>2, <1>3 DEF Next

(* A session once returned stays, and a new one comes from GetFound, which *)
(* reads it in the row, or from InsertOk, which has just written the row.  *)
LEMMA RouteStep ==
    ASSUME LedgerTypeOK, [Next]_vars
    PROVE  \/ UNCHANGED got
           \/ \E r \in Requests : GetFound(r) \/ InsertOk(r)
<1>1. ASSUME NEW r \in Requests, RequestStep(r), ~InsertOk(r), ~GetFound(r)
      PROVE  UNCHANGED got
  BY <1>1 DEF RequestStep, LockKey, GetStep, GetFails, GetMissing,
     CreateStep, CreateReturns, CreateFails, InsertStep, InsertFails, InsertLost,
     UseStep, TouchCalled, UseFails, TouchRuns, TouchFails
<1>2. CASE \/ \E r \in Requests : OpenCodeCreates(r)
           \/ Tick
           \/ \E g \in Gateways : Crash(g)
           \/ UNCHANGED vars
  BY <1>2 DEF OpenCodeCreates, Tick, Crash, vars
<1> QED
  BY <1>1, <1>2 DEF Next

-----------------------------------------------------------------------------
(* A step keeps a returned session equal to the row: rows do not change    *)
(* once written, and no request is given a session before its chat has one. *)
LEMMA LedgerInvStep == LedgerInv /\ [Next]_vars => LedgerInv'
<1> SUFFICES ASSUME LedgerInv, [Next]_vars
             PROVE  LedgerInv'
  OBVIOUS
<1> USE LedgerAssumption
<1>1. LedgerTypeOK' /\ SingleFlight'
  BY LedgerTypeStep, SingleFlightStep DEF LedgerInv
<1>2. Unrouted'
  <2>1. CASE UNCHANGED got
    <3>1. \A r \in Requests :
             (pc[r] = "start" \/ InCall(r))' => pc[r] = "start" \/ InCall(r)
      BY DEF LedgerInv, LedgerTypeOK, InCall, Next, vars, RequestStep, LockKey,
         GetStep, GetFound, GetFails, GetMissing, CreateStep, CreateReturns,
         CreateFails, InsertStep, InsertOk, InsertFails, InsertLost, UseStep,
         TouchCalled, UseFails, TouchRuns, TouchFails, OpenCodeCreates, Tick,
         Crash, GoTo
    <3> QED
      BY <2>1, <3>1 DEF LedgerInv, Unrouted
  <2>2. ASSUME NEW r \in Requests, GetFound(r) \/ InsertOk(r)
        PROVE  Unrouted'
    BY <2>2 DEF LedgerInv, LedgerTypeOK, Unrouted, InCall, GetFound, InsertOk, GoTo
  <2> QED
    BY <2>1, <2>2, RouteStep DEF LedgerInv
<1>3. \A c \in Chats : Stored(c) => table'[c] = table[c]
  BY TableStep DEF LedgerInv, LedgerTypeOK, Stored, AddRow
<1>4. OneSessionPerChat'
  <2>1. CASE UNCHANGED got
    BY <1>3, <2>1 DEF LedgerInv, LedgerTypeOK, OneSessionPerChat, Stored
  <2>2. ASSUME NEW r \in Requests, GetFound(r)
        PROVE  OneSessionPerChat'
    BY <2>2 DEF LedgerInv, LedgerTypeOK, OneSessionPerChat, GetFound, rowVars
  <2>3. ASSUME NEW r \in Requests, InsertOk(r)
        PROVE  OneSessionPerChat'
    BY <1>3, <2>3 DEF LedgerInv, LedgerTypeOK, OneSessionPerChat, InsertOk,
       AddRow, Sessions, Stored
  <2> QED
    BY <2>1, <2>2, <2>3, RouteStep DEF LedgerInv
<1> QED
  BY <1>1, <1>2, <1>4 DEF LedgerInv

(* The inductive invariant holds in every behaviour. *)
LEMMA LedgerInvariance == Spec => []LedgerInv
<1>1. Init => LedgerInv
  BY LedgerAssumption DEF Init, LedgerInv, LedgerTypeOK, PCs, Time, Sessions,
     SingleFlight, InCall, Unrouted, OneSessionPerChat
<1> QED
  BY <1>1, LedgerInvStep, PTL DEF Spec

(* ResolveOrCreate runs for one request at a time per chat and process,    *)
(* whatever fails or crashes: the mutexes that are locked are exactly      *)
(* those of the requests inside it.                                        *)
THEOREM CallsAreSingleFlight == Spec => []SingleFlight
<1>1. LedgerInv => SingleFlight
  BY DEF LedgerInv
<1> QED
  BY <1>1, LedgerInvariance, PTL

(* All requests of a chat are routed to the session of its row, for any    *)
(* number of processes that share the database.                            *)
THEOREM ChatHasOneSession == Spec => []OneSessionPerChat
<1>1. LedgerInv => OneSessionPerChat
  BY DEF LedgerInv
<1> QED
  BY <1>1, LedgerInvariance, PTL

(* No step changes the session or the created_at of a row. *)
THEOREM NoRowChanges == Spec => RowsStay
<1>1. ASSUME LedgerTypeOK, [Next]_vars, NEW c \in Chats, Stored(c)
      PROVE  table'[c] = table[c] /\ born'[c] = born[c]
  BY <1>1, TableStep, LedgerAssumption DEF LedgerTypeOK, Stored, AddRow
<1>2. LedgerTypeOK /\ [Next]_vars =>
         [\A c \in Chats : Stored(c) => table'[c] = table[c] /\ born'[c] = born[c]]_vars
  BY <1>1
<1> QED
  BY <1>2, LedgerTyping, PTL DEF Spec, RowsStay

-----------------------------------------------------------------------------
(* A request that found no row finds none of its own process when it       *)
(* inserts: OpenCode is never asked in vain for a session of a chat that   *)
(* the process has bound, and its own rows never trip the UNIQUE.          *)
THEOREM NoNeedlessCreate == Spec => []NoCreateForBoundChat
<1> USE LedgerAssumption
<1>1. Init => NoCreateForBoundChat
  BY DEF Init, NoCreateForBoundChat
<1>2. LedgerInv /\ NoCreateForBoundChat /\ [Next]_vars => NoCreateForBoundChat'
  <2> SUFFICES ASSUME LedgerInv, NoCreateForBoundChat, [Next]_vars,
                      NEW r \in Requests, pc'[r] \in {"create", "insert"}
               PROVE  ~BoundBy(GatewayOf[r], ChatOf[r])'
    BY DEF NoCreateForBoundChat
  <2>1. ~BoundBy(GatewayOf[r], ChatOf[r]) /\ InCall(r)
    BY DEF LedgerInv, LedgerTypeOK, NoCreateForBoundChat, BoundBy, Stored, InCall,
       Next, vars, RequestStep, LockKey, GetStep, GetFound, GetFails, GetMissing,
       CreateStep, CreateReturns, CreateFails, InsertStep, InsertOk,
       InsertFails, InsertLost, UseStep, TouchCalled, UseFails, TouchRuns,
       TouchFails, OpenCodeCreates, Tick, Crash, GoTo, rowVars
  <2>2. CASE UNCHANGED table
    BY <2>1, <2>2 DEF BoundBy, Stored
  <2>3. ASSUME NEW q \in Requests, pc[q] = "insert", AddRow(q),
               InsertOk(q) \/ InsertLost(q)
        PROVE  ~BoundBy(GatewayOf[r], ChatOf[r])'
    <3>1. q # r /\ InCall(q)
      BY <2>3 DEF InsertOk, InsertLost, GoTo, LedgerInv, LedgerTypeOK, InCall
    <3>2. Lock(q) # Lock(r)
      BY <2>1, <3>1 DEF LedgerInv, SingleFlight
    <3>3. CASE ChatOf[q] = ChatOf[r]
      BY <2>3, <3>2, <3>3 DEF LedgerInv, LedgerTypeOK, AddRow, BoundBy, Lock
    <3>4. CASE ChatOf[q] # ChatOf[r]
      BY <2>1, <2>3, <3>4 DEF LedgerInv, LedgerTypeOK, AddRow, BoundBy, Stored
    <3> QED
      BY <3>3, <3>4
  <2> QED
    BY <2>2, <2>3, TableStep DEF LedgerInv
<1> QED
  BY <1>1, <1>2, LedgerInvariance, PTL DEF Spec

-----------------------------------------------------------------------------
(* The same of all requests that have asked OpenCode for a session, whether *)
(* OpenCode has served them or will: they are past their look-up.          *)
Asking ==
    /\ created \subseteq asked
    /\ \A r \in Requests : pc[r] \in {"create", "insert"} => r \in asked
    /\ \A r \in asked : /\ pc[r] \notin {"start", "lookup"}
                        /\ \/ table[ChatOf[r]] = r
                           \/ pc[r] \in {"create", "insert"}
                           \/ pc[r] \in {"failed", "dead"} /\ got[r] = NoSession

(* A session that is no row's was created by a call that failed, died or   *)
(* has not returned, whatever raced with it.                               *)
THEOREM OrphansAreExplained == Spec => []OrphansComeFromFailures
<1> USE LedgerAssumption
<1>1. Init => Asking
  BY DEF Init, Asking
<1>2. LedgerInv /\ Asking /\ [Next]_vars => Asking'
  <2> SUFFICES ASSUME LedgerInv, Asking, [Next]_vars
               PROVE  Asking'
    OBVIOUS
  <2> USE DEF LedgerInv, LedgerTypeOK, Asking, GoTo, rowVars, openCodeVars
  <2>1. ASSUME NEW r \in Requests, LockKey(r) \/ GetStep(r)
        PROVE  Asking'
    BY <2>1 DEF LockKey, GetStep, GetFound, GetFails, GetMissing
  <2>2. ASSUME NEW r \in Requests, CreateStep(r) \/ OpenCodeCreates(r)
        PROVE  Asking'
    BY <2>2 DEF CreateStep, CreateReturns, CreateFails, OpenCodeCreates,
       Unrouted, InCall
  <2>3. ASSUME NEW r \in Requests, InsertStep(r)
        PROVE  Asking'
    BY <2>3 DEF InsertStep, InsertOk, InsertFails, InsertLost, AddRow, Sessions,
       Unrouted, InCall
  <2>4. ASSUME NEW r \in Requests, UseStep(r)
        PROVE  Asking'
    BY <2>4 DEF UseStep, TouchCalled, UseFails, TouchRuns, TouchFails
  <2>5. ASSUME NEW g \in Gateways, Crash(g)
        PROVE  Asking'
    BY <2>5 DEF Crash, Serving, Unrouted, InCall
  <2>6. CASE Tick \/ UNCHANGED vars
    BY <2>6 DEF Tick, vars
  <2> QED
    BY <2>1, <2>2, <2>3, <2>4, <2>5, <2>6 DEF Next, RequestStep
<1>3. Asking => OrphansComeFromFailures
  BY DEF Asking, OrphansComeFromFailures
<1> QED
  BY <1>1, <1>2, <1>3, LedgerInvariance, PTL DEF Spec

-----------------------------------------------------------------------------
(* The ledger, with its mutexes, failures, crashes and rival processes,    *)
(* implements the write-once map from chats to sessions.                   *)
THEOREM LedgerImplementsMap == Spec => ImplementsMap
<1> USE LedgerAssumption
<1>1. Init => Map!Init
  BY DEF Init, Map!Init
<1>2. LedgerInv /\ [Next]_vars => [Map!Next]_<<table, got>>
  <2> SUFFICES ASSUME LedgerInv, [Next]_vars, ~UNCHANGED <<table, got>>
               PROVE  Map!Next
    OBVIOUS
  <2>1. ASSUME NEW r \in Requests, GetFound(r)
        PROVE  Map!RouteFound(r)
    BY <2>1 DEF GetFound, GoTo, rowVars, LedgerInv, Unrouted, InCall,
       Map!RouteFound, Map!Route
  <2>2. ASSUME NEW r \in Requests, InsertLost(r)
        PROVE  Map!BindOnly(ChatOf[r], r)
    BY <2>2 DEF InsertLost, AddRow, Map!BindOnly, Map!Bind
  <2>3. ASSUME NEW r \in Requests, InsertOk(r)
        PROVE  Map!BindAndRoute(r, r)
    BY <2>3 DEF InsertOk, GoTo, AddRow, LedgerInv, LedgerTypeOK, Unrouted,
       InCall, Sessions, Map!BindAndRoute, Map!Bind, Map!Route
  <2> QED
    BY <2>1, <2>2, <2>3, TableStep, RouteStep DEF LedgerInv, Sessions, Map!Next
<1> QED
  BY <1>1, <1>2, LedgerInvariance, PTL DEF Spec, ImplementsMap, Map!Spec

-----------------------------------------------------------------------------
(* Where updated_at comes from: a request takes the time of its Touch from *)
(* the clock after its row was there.                                      *)
TimesInOrder ==
    /\ \A c \in Chats : Stored(c) => born[c] <= updated[c] /\ born[c] <= clock
    /\ \A r \in Requests : stamp[r] <= clock
    /\ \A r \in Requests : pc[r] = "touch" => born[ChatOf[r]] <= stamp[r]
    /\ \A r \in Requests : pc[r] \in {"resolved", "touch"} => got[r] # NoSession

(* A Touch that overtakes another may move updated_at backward, but never  *)
(* before the created_at of the row, whichever order the statements run in. *)
THEOREM UpdatedStaysAfterBorn == Spec => []UpdatedAfterBorn
<1> USE LedgerAssumption
<1>1. Init => TimesInOrder
  BY DEF Init, TimesInOrder, Stored
<1>2. LedgerInv /\ TimesInOrder /\ [Next]_vars => TimesInOrder'
  <2> SUFFICES ASSUME LedgerInv, TimesInOrder, [Next]_vars
               PROVE  TimesInOrder'
    OBVIOUS
  <2> USE DEF LedgerInv, LedgerTypeOK, TimesInOrder, Stored, Time, GoTo,
          rowVars, openCodeVars
  <2>1. ASSUME NEW r \in Requests, LockKey(r) \/ GetStep(r)
        PROVE  TimesInOrder'
    BY <2>1 DEF LockKey, GetStep, GetFound, GetFails, GetMissing
  <2>2. ASSUME NEW r \in Requests, CreateStep(r) \/ OpenCodeCreates(r)
        PROVE  TimesInOrder'
    BY <2>2 DEF CreateStep, CreateReturns, CreateFails, OpenCodeCreates, ReadClock
  <2>3. ASSUME NEW r \in Requests, InsertStep(r)
        PROVE  TimesInOrder'
    <3>1. \A q \in Requests : pc[q] = "touch" => Stored(ChatOf[q])
      BY DEF OneSessionPerChat
    <3> QED
      BY <2>3, <3>1 DEF InsertStep, InsertOk, InsertFails, InsertLost, AddRow, Sessions
  <2>4. ASSUME NEW r \in Requests, UseStep(r)
        PROVE  TimesInOrder'
    <3>1. \A q \in Requests : got[q] # NoSession => Stored(ChatOf[q])
      BY DEF OneSessionPerChat
    <3> QED
      BY <2>4, <3>1 DEF UseStep, TouchCalled, UseFails, TouchRuns, TouchFails, ReadClock
  <2>5. CASE Tick
    BY <2>5 DEF Tick
  <2>6. ASSUME NEW g \in Gateways, Crash(g)
        PROVE  TimesInOrder'
    BY <2>6 DEF Crash
  <2>7. CASE UNCHANGED vars
    BY <2>7 DEF vars
  <2> QED
    BY <2>1, <2>2, <2>3, <2>4, <2>5, <2>6, <2>7 DEF Next, RequestStep
<1>3. TimesInOrder => UpdatedAfterBorn
  BY DEF TimesInOrder, UpdatedAfterBorn
<1> QED
  BY <1>1, <1>2, <1>3, LedgerInvariance, PTL DEF Spec
=============================================================================
