------------------------ MODULE InFlightLocksProofs ------------------------
(***************************************************************************)
(* Proofs about the streaming locks, for any number of streams and         *)
(* sessions.  TableMatchesHolders is not inductive by itself: that a grant *)
(* gives the key to nobody else, and that a delete is the release of a     *)
(* stream that still holds its key, rests on where the sync.Once and the   *)
(* watcher of a stream can be for each position of its handler.            *)
(***************************************************************************)
EXTENDS InFlightLocks, TLAPS

(* Where the once and the watcher of a stream are, given its handler. *)
CallLinked(s) ==
    /\ watcher[s] = "none" <=> call[s] \in {"start", "checked", "busy", "canceled"}
    /\ watcher[s] = "none" => once[s] = "new"
    /\ once[s] # "new" => call[s] # "holding" \/ CtxDone(s)
    /\ call[s] \in {"release", "returned"} => once[s] # "new"

LockInv == /\ LockTypeOK
           /\ \A s \in Streams : CallLinked(s)
           /\ TableMatchesHolders

-----------------------------------------------------------------------------
(* No step of the locks leaves the types of the variables. *)
LEMMA LockTypeStep == LockTypeOK /\ [LockNext]_lockVars => LockTypeOK'
<1> SUFFICES ASSUME LockTypeOK, [LockNext]_lockVars
             PROVE  LockTypeOK'
  OBVIOUS
<1> USE KeyOfAssumption
    DEF LockTypeOK, CallStates, OnceStates, WatcherStates, CtxEnds
<1>1. ASSUME NEW s \in Streams, HandlerStep(s)
      PROVE  LockTypeOK'
  BY <1>1 DEF HandlerStep, AcquireStep, AcquireCanceled, AcquireCheck,
     AcquireBusy, AcquireGrant, HandlerRelease, HandlerReturn, EnterOnce
<1>2. ASSUME NEW s \in Streams, OnceStep(s)
      PROVE  LockTypeOK'
  BY <1>2 DEF OnceStep, DeleteKey, CloseDone
<1>3. ASSUME NEW s \in Streams, WatcherStep(s)
      PROVE  LockTypeOK'
  BY <1>3 DEF WatcherStep, WatcherWake, WatcherExit, EnterOnce
<1>4. ASSUME NEW s \in Streams, NEW why \in CtxEnds, CtxEnd(s, why)
      PROVE  LockTypeOK'
  BY <1>4 DEF CtxEnd
<1>5. CASE UNCHANGED lockVars
  BY <1>5 DEF lockVars
<1> QED
  BY <1>1, <1>2, <1>3, <1>4, <1>5 DEF LockNext

(* Every variable keeps its type: keys are sessions, and each call, its    *)
(* context, its once and its watcher are in one of their states.           *)
THEOREM LockTyping == LockSpec => []LockTypeOK
<1>1. LockInit => LockTypeOK
  BY DEF LockInit, LockTypeOK, CallStates, OnceStates, WatcherStates, CtxEnds
<1> QED
  BY <1>1, LockTypeStep, PTL DEF LockSpec

-----------------------------------------------------------------------------
(* A step that leaves the table, the grants and the releases as they are   *)
(* keeps the table equal to the keys of the holders.                       *)
LEMMA SameHolders ==
    ASSUME TableMatchesHolders, UNCHANGED keys,
           \A s \in Streams : Holds(s)' <=> Holds(s)
    PROVE  TableMatchesHolders'
BY DEF TableMatchesHolders

(* The links and the table survive every step of the locks: the step from  *)
(* free to held is the only one that adds a holder, and DeleteKey, taken   *)
(* once per stream, the only one that removes a holder and its entry.      *)
LEMMA LockInvStep == LockInv /\ [LockNext]_lockVars => LockInv'
<1> SUFFICES ASSUME LockInv, [LockNext]_lockVars
             PROVE  /\ \A t \in Streams : CallLinked(t)'
                    /\ TableMatchesHolders'
  BY LockTypeStep DEF LockInv
<1> USE KeyOfAssumption DEF LockInv
<1>1. ASSUME NEW s \in Streams, AcquireStep(s), ~AcquireGrant(s)
      PROVE  /\ \A t \in Streams : CallLinked(t)'
             /\ TableMatchesHolders'
  <2>1. \A t \in Streams : CallLinked(t)'
    BY <1>1 DEF AcquireStep, AcquireCanceled, AcquireCheck, AcquireBusy,
       CallLinked, LockTypeOK, CtxDone
  <2>2. \A t \in Streams : Holds(t)' <=> Holds(t)
    BY <1>1 DEF AcquireStep, AcquireCanceled, AcquireCheck, AcquireBusy,
       Holds, Granted
  <2>3. UNCHANGED keys
    BY <1>1 DEF AcquireStep, AcquireCanceled, AcquireCheck, AcquireBusy
  <2> QED
    BY <2>1, <2>2, <2>3, SameHolders
<1>2. ASSUME NEW s \in Streams, AcquireGrant(s)
      PROVE  /\ \A t \in Streams : CallLinked(t)'
             /\ TableMatchesHolders'
  <2>1. \A t \in Streams : CallLinked(t)'
    BY <1>2 DEF AcquireGrant, CallLinked, LockTypeOK, CtxDone
  <2>2. /\ ~Holds(s)
        /\ Holds(s)'
        /\ \A t \in Streams \ {s} : Holds(t)' <=> Holds(t)
    BY <1>2 DEF AcquireGrant, CallLinked, LockTypeOK, Holds, Granted
  <2>3. keys' = keys \cup {KeyOf[s]} /\ KeyOf[s] \notin keys
    BY <1>2 DEF AcquireGrant
  <2>4. TableMatchesHolders'
    BY <2>2, <2>3 DEF TableMatchesHolders
  <2> QED
    BY <2>1, <2>4
<1>3. ASSUME NEW s \in Streams, HandlerRelease(s)
      PROVE  /\ \A t \in Streams : CallLinked(t)'
             /\ TableMatchesHolders'
  <2>1. \A t \in Streams : CallLinked(t)'
    BY <1>3 DEF HandlerRelease, EnterOnce, CallLinked, LockTypeOK, CtxDone,
       OnceStates
  <2>2. \A t \in Streams : Holds(t)' <=> Holds(t)
    BY <1>3 DEF HandlerRelease, EnterOnce, LockTypeOK, Holds, Granted
  <2> QED
    BY <1>3, <2>1, <2>2, SameHolders DEF HandlerRelease
<1>4. ASSUME NEW s \in Streams, HandlerReturn(s)
      PROVE  /\ \A t \in Streams : CallLinked(t)'
             /\ TableMatchesHolders'
  <2>1. \A t \in Streams : CallLinked(t)'
    BY <1>4 DEF HandlerReturn, CallLinked, LockTypeOK, CtxDone
  <2>2. \A t \in Streams : Holds(t)' <=> Holds(t)
    BY <1>4 DEF HandlerReturn, Holds, Granted
  <2> QED
    BY <1>4, <2>1, <2>2, SameHolders DEF HandlerReturn
<1>5. ASSUME NEW s \in Streams, DeleteKey(s)
      PROVE  /\ \A t \in Streams : CallLinked(t)'
             /\ TableMatchesHolders'
  <2>1. \A t \in Streams : CallLinked(t)'
    BY <1>5 DEF DeleteKey, CallLinked, LockTypeOK, CtxDone
  <2>2. /\ Holds(s)
        /\ ~Holds(s)'
        /\ \A t \in Streams \ {s} : Holds(t)' <=> Holds(t)
    BY <1>5 DEF DeleteKey, CallLinked, LockTypeOK, Holds, Granted
  <2>3. keys' = keys \ {KeyOf[s]}
    BY <1>5 DEF DeleteKey
  <2>4. TableMatchesHolders'
    BY <2>2, <2>3 DEF TableMatchesHolders
  <2> QED
    BY <2>1, <2>4
<1>6. ASSUME NEW s \in Streams, CloseDone(s)
      PROVE  /\ \A t \in Streams : CallLinked(t)'
             /\ TableMatchesHolders'
  <2>1. \A t \in Streams : CallLinked(t)'
    BY <1>6 DEF CloseDone, CallLinked, LockTypeOK, CtxDone
  <2>2. \A t \in Streams : Holds(t)' <=> Holds(t)
    BY <1>6 DEF CloseDone, LockTypeOK, Holds, Granted
  <2> QED
    BY <1>6, <2>1, <2>2, SameHolders DEF CloseDone
<1>7. ASSUME NEW s \in Streams, WatcherStep(s)
      PROVE  /\ \A t \in Streams : CallLinked(t)'
             /\ TableMatchesHolders'
  <2>1. \A t \in Streams : CallLinked(t)'
    BY <1>7 DEF WatcherStep, WatcherWake, WatcherExit, EnterOnce, CallLinked,
       LockTypeOK, CtxDone, OnceStates
  <2>2. \A t \in Streams : Holds(t)' <=> Holds(t)
    BY <1>7 DEF WatcherStep, WatcherWake, WatcherExit, EnterOnce, LockTypeOK,
       Holds, Granted
  <2> QED
    BY <1>7, <2>1, <2>2, SameHolders
       DEF WatcherStep, WatcherWake, WatcherExit
<1>8. ASSUME NEW s \in Streams, NEW why \in CtxEnds, CtxEnd(s, why)
      PROVE  /\ \A t \in Streams : CallLinked(t)'
             /\ TableMatchesHolders'
  <2>1. \A t \in Streams : CallLinked(t)'
    BY <1>8 DEF CtxEnd, CallLinked, LockTypeOK, CtxDone, CtxEnds
  <2>2. \A t \in Streams : Holds(t)' <=> Holds(t)
    BY <1>8 DEF CtxEnd, Holds, Granted
  <2> QED
    BY <1>8, <2>1, <2>2, SameHolders DEF CtxEnd
<1>9. CASE UNCHANGED lockVars
  <2>1. /\ \A t \in Streams : Holds(t)' <=> Holds(t)
        /\ UNCHANGED keys
    BY <1>9 DEF lockVars, Holds, Granted
  <2>2. \A t \in Streams : CallLinked(t)'
    BY <1>9 DEF lockVars, CallLinked, CtxDone
  <2> QED
    BY <2>1, <2>2, SameHolders
<1> QED
  BY <1>1, <1>2, <1>3, <1>4, <1>5, <1>6, <1>7, <1>8, <1>9
     DEF LockNext, HandlerStep, OnceStep

(* LockInv holds in every state: initially nothing is granted. *)
THEOREM LockInvariance == LockSpec => []LockInv
<1>1. LockInit => LockInv
  <2> SUFFICES ASSUME LockInit
               PROVE  LockInv
    OBVIOUS
  <2>1. LockTypeOK
    BY DEF LockInit, LockTypeOK, CallStates, OnceStates, WatcherStates, CtxEnds
  <2>2. \A s \in Streams : CallLinked(s)
    BY DEF LockInit, CallLinked
  <2>3. \A s \in Streams : ~Holds(s)
    BY DEF LockInit, Holds, Granted
  <2>4. TableMatchesHolders
    BY <2>3 DEF LockInit, TableMatchesHolders
  <2> QED
    BY <2>1, <2>2, <2>4 DEF LockInv
<1> QED
  BY <1>1, LockInvStep, PTL DEF LockSpec

-----------------------------------------------------------------------------
(* The table holds exactly the keys of the streams that own one, each with *)
(* one owner: no release ever removes the entry of another stream.         *)
THEOREM TableIsHolders == LockSpec => []TableMatchesHolders
BY LockInvariance, PTL DEF LockInv

(* A stream that works under a live context keeps its session in the table *)
(* and shares it with no other such stream.                                *)
THEOREM LiveStreamsExclude == LockSpec => []LiveExclusive
<1>1. LockInv => LiveExclusive
  <2> SUFFICES ASSUME LockInv
               PROVE  LiveExclusive
    OBVIOUS
  <2>1. ASSUME NEW s \in Streams, Working(s), ~CtxDone(s)
        PROVE  Holds(s)
    BY <2>1 DEF LockInv, CallLinked, Working, Holds, Granted
  <2> QED
    BY <2>1 DEF LockInv, TableMatchesHolders, LiveExclusive
<1> QED
  BY <1>1, LockInvariance, PTL

(* The table implements the lease table: a grant is a Grant of a free key  *)
(* to a stream that had none, a delete an End, every other step a stutter. *)
THEOREM TableImplementsLease == LockSpec => ImplementsLease
<1> DEFINE lease == {<<s, KeyOf[s]>> : s \in {t \in Streams : Holds(t)}}
           spent == {s \in Streams : once[s] \in {"close", "ended"}}
<1>1. LockInit => Leases!Init
  BY DEF LockInit, Leases!Init, Holds, Granted
<1>2. LockInv /\ [LockNext]_lockVars => [Leases!Next]_<<lease, spent>>
  <2> SUFFICES ASSUME LockInv, [LockNext]_lockVars
               PROVE  Leases!Next \/ UNCHANGED <<lease, spent>>
    OBVIOUS
  <2> USE KeyOfAssumption DEF LockInv
  <2>1. ASSUME NEW s \in Streams, AcquireGrant(s)
        PROVE  Leases!Grant(s, KeyOf[s])
    <3>1. /\ ~Holds(s) /\ once[s] = "new" /\ once' = once
          /\ Holds(s)'
          /\ \A t \in Streams \ {s} : Holds(t)' <=> Holds(t)
      BY <2>1 DEF AcquireGrant, CallLinked, LockTypeOK, Holds, Granted
    <3>2. \A t \in Streams : Holds(t) => KeyOf[t] # KeyOf[s]
      BY <2>1 DEF AcquireGrant, TableMatchesHolders
    <3>3. lease' = lease \cup {<<s, KeyOf[s]>>}
      BY <3>1
    <3> QED
      BY <3>1, <3>2, <3>3 DEF Leases!Grant
  <2>2. ASSUME NEW s \in Streams, DeleteKey(s)
        PROVE  Leases!End(s, KeyOf[s])
    <3>1. /\ Holds(s)
          /\ ~Holds(s)'
          /\ \A t \in Streams \ {s} : Holds(t)' <=> Holds(t)
      BY <2>2 DEF DeleteKey, CallLinked, LockTypeOK, Holds, Granted
    <3>2. lease' = lease \ {<<s, KeyOf[s]>>}
      BY <3>1
    <3>3. spent' = spent \cup {s}
      BY <2>2 DEF DeleteKey, LockTypeOK
    <3> QED
      BY <3>1, <3>2, <3>3 DEF Leases!End
  <2>3. ASSUME \A t \in Streams : Holds(t)' <=> Holds(t),
               \A t \in Streams :
                   once'[t] \in {"close", "ended"} <=> once[t] \in {"close", "ended"}
        PROVE  UNCHANGED <<lease, spent>>
    BY <2>3
  <2>4. ASSUME NEW s \in Streams, AcquireStep(s), ~AcquireGrant(s)
        PROVE  UNCHANGED <<lease, spent>>
    BY <2>3, <2>4 DEF AcquireStep, AcquireCanceled, AcquireCheck, AcquireBusy,
       Holds, Granted
  <2>5. ASSUME NEW s \in Streams, HandlerRelease(s) \/ WatcherStep(s)
        PROVE  UNCHANGED <<lease, spent>>
    <3>1. \A t \in Streams : Holds(t)' <=> Holds(t)
      BY <2>5 DEF HandlerRelease, WatcherStep, WatcherWake, WatcherExit,
         EnterOnce, LockTypeOK, Holds, Granted
    <3>2. \A t \in Streams :
             once'[t] \in {"close", "ended"} <=> once[t] \in {"close", "ended"}
      BY <2>5 DEF HandlerRelease, WatcherStep, WatcherWake, WatcherExit,
         EnterOnce, LockTypeOK
    <3> QED
      BY <2>3, <3>1, <3>2
  <2>6. ASSUME NEW s \in Streams, CloseDone(s)
        PROVE  UNCHANGED <<lease, spent>>
    BY <2>3, <2>6 DEF CloseDone, LockTypeOK, Holds, Granted
  <2>7. ASSUME NEW s \in Streams,
               HandlerReturn(s) \/ \E why \in CtxEnds : CtxEnd(s, why)
        PROVE  UNCHANGED <<lease, spent>>
    BY <2>3, <2>7 DEF HandlerReturn, CtxEnd, Holds, Granted
  <2>8. CASE UNCHANGED lockVars
    BY <2>3, <2>8 DEF lockVars, Holds, Granted
  <2> QED
    BY <2>1, <2>2, <2>4, <2>5, <2>6, <2>7, <2>8
       DEF LockNext, HandlerStep, OnceStep, Leases!Next
<1> QED
  BY <1>1, <1>2, LockInvariance, PTL
     DEF LockSpec, ImplementsLease, Leases!Spec
=============================================================================
