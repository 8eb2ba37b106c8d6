--------------------------- MODULE InFlightLocks ---------------------------
(***************************************************************************)
(* The table of streaming locks (internal/streaming/mapper.go): one entry  *)
(* per OpenCode session that has a stream in flight.  A stream calls       *)
(* Acquire once.  A granted call starts a goroutine, the watcher, which    *)
(* releases the key when the stream's context ends; the handler releases   *)
(* it when it returns.  A sync.Once per call makes the two one release.    *)
(* The table holds keys only: nothing in it says whose entry a key is.     *)
(***************************************************************************)
EXTENDS Naturals, FiniteSets

CONSTANTS Streams, \* the calls of Acquire, one per streaming request
          Keys,    \* OpenCode session IDs
          KeyOf    \* the session each streaming request resolved to

ASSUME KeyOfAssumption == KeyOf \in [Streams -> Keys]

VARIABLES keys,    \* l.keys
          call,    \* where each stream's handler is in the lock's interface
          ctx,     \* state of the context the stream passed to Acquire
          once,    \* the sync.Once of the call and the steps of its body
          watcher  \* the goroutine of the call

lockVars == <<keys, call, ctx, once, watcher>>

CallStates == {"start", "checked", "holding", "release", "returned",
               "busy", "canceled"}
OnceStates == {"new", "delete", "close", "ended"}
WatcherStates == {"none", "waiting", "release", "exited"}
CtxEnds == {"deadline", "canceled"}

LockTypeOK == /\ keys \in SUBSET Keys
              /\ call \in [Streams -> CallStates]
              /\ ctx \in [Streams -> {"live"} \cup CtxEnds]
              /\ once \in [Streams -> OnceStates]
              /\ watcher \in [Streams -> WatcherStates]

LockInit == /\ keys = {}
            /\ call = [s \in Streams |-> "start"]
            /\ ctx = [s \in Streams |-> "live"]
            /\ once = [s \in Streams |-> "new"]
            /\ watcher = [s \in Streams |-> "none"]

-----------------------------------------------------------------------------
CtxDone(s) == ctx[s] # "live"

(* The context ends: its deadline passes or the client goes away.  The     *)
(* first cause stays.                                                      *)
CtxEnd(s, why) == /\ ctx[s] = "live"
                  /\ ctx' = [ctx EXCEPT ![s] = why]
                  /\ UNCHANGED <<keys, call, once, watcher>>

(* Acquire looks at the context first, without the mutex. *)
AcquireCanceled(s) == /\ call[s] = "start" /\ CtxDone(s)
                      /\ call' = [call EXCEPT ![s] = "canceled"]
                      /\ UNCHANGED <<keys, ctx, once, watcher>>

AcquireCheck(s) == /\ call[s] = "start" /\ ~CtxDone(s)
                   /\ call' = [call EXCEPT ![s] = "checked"]
                   /\ UNCHANGED <<keys, ctx, once, watcher>>

(* Then the critical section of l.mu: test and insert. *)
AcquireBusy(s) == /\ call[s] = "checked" /\ KeyOf[s] \in keys
                  /\ call' = [call EXCEPT ![s] = "busy"]
                  /\ UNCHANGED <<keys, ctx, once, watcher>>

(* Mutants of AcquireGrant: the stream itself is inserted as the key; the  *)
(* key is not looked up.                                                   *)
AcquireGrantOwnKey(s) == /\ call[s] = "checked" /\ KeyOf[s] \notin keys
                         /\ keys' = keys \cup {s}
                         /\ call' = [call EXCEPT ![s] = "holding"]
                         /\ watcher' = [watcher EXCEPT ![s] = "waiting"]
                         /\ UNCHANGED <<ctx, once>>
AcquireGrantUnchecked(s) == /\ call[s] = "checked"
                            /\ keys' = keys \cup {KeyOf[s]}
                            /\ call' = [call EXCEPT ![s] = "holding"]
                            /\ watcher' = [watcher EXCEPT ![s] = "waiting"]
                            /\ UNCHANGED <<ctx, once>>

AcquireGrant(s) == /\ call[s] = "checked" /\ KeyOf[s] \notin keys
                   /\ keys' = keys \cup {KeyOf[s]}
                   /\ call' = [call EXCEPT ![s] = "holding"]
                   /\ watcher' = [watcher EXCEPT ![s] = "waiting"]
                   /\ UNCHANGED <<ctx, once>>

(* Mutant of EnterOnce: there is no sync.Once. *)
EnterAlways(s) == once' = [once EXCEPT ![s] = "delete"]

(* once.Do: the first caller runs the body, any other waits for its end. *)
EnterOnce(s) ==
    once' = IF once[s] = "new" THEN [once EXCEPT ![s] = "delete"] ELSE once

DeleteKey(s) == /\ once[s] = "delete"
                /\ keys' = keys \ {KeyOf[s]}
                /\ once' = [once EXCEPT ![s] = "close"]
                /\ UNCHANGED <<call, ctx, watcher>>

(* Mutant of CloseDone: done is sent, not closed, and needs a receiver. *)
SendDone(s) == /\ once[s] = "close" /\ watcher[s] = "waiting"
               /\ once' = [once EXCEPT ![s] = "ended"]
               /\ UNCHANGED <<keys, call, ctx, watcher>>

CloseDone(s) == /\ once[s] = "close"
                /\ once' = [once EXCEPT ![s] = "ended"]
                /\ UNCHANGED <<keys, call, ctx, watcher>>

(* The handler's deferred release(), then its deferred cancel(). *)
HandlerRelease(s) == /\ call[s] = "holding"
                     /\ call' = [call EXCEPT ![s] = "release"]
                     /\ EnterOnce(s)
                     /\ UNCHANGED <<keys, ctx, watcher>>

HandlerReturn(s) ==
    /\ call[s] = "release" /\ once[s] = "ended"
    /\ call' = [call EXCEPT ![s] = "returned"]
    /\ ctx' = IF CtxDone(s) THEN ctx ELSE [ctx EXCEPT ![s] = "canceled"]
    /\ UNCHANGED <<keys, once, watcher>>

(* Mutant of WatcherWake: the watcher only waits for done. *)
WatcherSleeps(s) == /\ watcher[s] = "waiting" /\ once[s] = "ended"
                    /\ watcher' = [watcher EXCEPT ![s] = "release"]
                    /\ UNCHANGED <<keys, call, ctx, once>>

(* The watcher's select: ctx.Done() wakes it to release, done to leave.    *)
(* When both are ready either branch may be taken.                         *)
WatcherWake(s) == /\ watcher[s] = "waiting" /\ CtxDone(s)
                  /\ watcher' = [watcher EXCEPT ![s] = "release"]
                  /\ EnterOnce(s)
                  /\ UNCHANGED <<keys, call, ctx>>

WatcherExit(s) ==
    /\ watcher[s] \in {"waiting", "release"} /\ once[s] = "ended"
    /\ watcher' = [watcher EXCEPT ![s] = "exited"]
    /\ UNCHANGED <<keys, call, ctx, once>>

-----------------------------------------------------------------------------
(* The steps the Go runtime takes on its own once they are enabled. *)
OnceStep(s) == DeleteKey(s) \/ CloseDone(s)
WatcherStep(s) == WatcherWake(s) \/ WatcherExit(s)
AcquireStep(s) == \/ AcquireCanceled(s) \/ AcquireCheck(s)
                  \/ AcquireBusy(s)     \/ AcquireGrant(s)
HandlerStep(s) == AcquireStep(s) \/ HandlerRelease(s) \/ HandlerReturn(s)

LockNext == \E s \in Streams : \/ HandlerStep(s)
                               \/ OnceStep(s)
                               \/ WatcherStep(s)
                               \/ \E why \in CtxEnds : CtxEnd(s, why)

LockSpec == LockInit /\ [][LockNext]_lockVars

(* Goroutines that can run do run, and WithTimeout's deadline passes.  The *)
(* handler itself may be stuck for ever between Acquire and release, in a  *)
(* write to a client that does not read: nothing is assumed of it.         *)
LockFairness == \A s \in Streams : /\ WF_lockVars(OnceStep(s))
                                   /\ WF_lockVars(WatcherStep(s))
                                   /\ WF_lockVars(HandlerReturn(s))
                                   /\ WF_lockVars(CtxEnd(s, "deadline"))

FairLockSpec == LockSpec /\ LockFairness

-----------------------------------------------------------------------------
(* A stream owns its key from the grant to the delete of its one release. *)
Granted(s) == watcher[s] # "none"
Holds(s) == Granted(s) /\ once[s] \in {"new", "delete"}
Working(s) == call[s] = "holding"

(* The table is exactly the keys of the streams that hold one, and no key  *)
(* has two holders, although an entry does not say whose it is: a late     *)
(* release of an old stream never removes the entry of a new one.          *)
TableMatchesHolders ==
    /\ keys = {KeyOf[s] : s \in {t \in Streams : Holds(t)}}
    /\ \A s, t \in Streams : Holds(s) /\ Holds(t) /\ KeyOf[s] = KeyOf[t] => s = t

(* Two streams whose contexts are both live never work on one session, and *)
(* the session of each is in the table, so that a third is refused.        *)
LiveExclusive ==
    \A s \in Streams : Working(s) /\ ~CtxDone(s) =>
        /\ KeyOf[s] \in keys
        /\ \A t \in Streams \ {s} :
              KeyOf[t] = KeyOf[s] => ~(Working(t) /\ ~CtxDone(t))

(* The table implements the lease table: each stream leases its key once,  *)
(* and only the stream's own release ends the lease.                       *)
Leases == INSTANCE Lease WITH
             Clients <- Streams,
             lease <- {<<s, KeyOf[s]>> : s \in {t \in Streams : Holds(t)}},
             spent <- {s \in Streams : once[s] \in {"close", "ended"}}
ImplementsLease == Leases!Spec

(* A lock is released in the end even if its handler never comes back:     *)
(* the deadline of the stream wakes the watcher.                           *)
LocksAreFreed == \A s \in Streams : Holds(s) ~> ~Holds(s)

(* No release deadlocks in once.Do and no watcher outlives its stream:     *)
(* each handler that calls release() returns and each watcher exits.       *)
ReleasesReturn == \A s \in Streams :
                     /\ call[s] = "release" ~> call[s] = "returned"
                     /\ watcher[s] = "waiting" ~> watcher[s] = "exited"
=============================================================================
