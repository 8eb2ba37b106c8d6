--------------------------- MODULE SessionLedger ---------------------------
(***************************************************************************)
(* The session ledger (internal/ledger/ledger.go) as the chat handler uses *)
(* it: ResolveOrCreate finds or makes the OpenCode session of a chat (a    *)
(* user, chat and model triple), and Touch records that it was used.  A    *)
(* gateway process serialises the calls for one chat with a mutex that     *)
(* lives in its memory; the table is in SQLite and outlives the process.   *)
(* SQLite runs one statement at a time, so each statement is one step.     *)
(***************************************************************************)
EXTENDS Naturals, FiniteSets

CONSTANTS Requests,  \* chat requests
          Chats,     \* ledger keys: user, chat and model
          Gateways,  \* processes that share the database file
          ChatOf,    \* the chat of each request
          GatewayOf, \* the process each request runs in
          NoSession, \* no row, or no session
          MaxClock   \* bound on the gateway clock, for TLC

ASSUME LedgerAssumption == /\ ChatOf \in [Requests -> Chats]
                           /\ GatewayOf \in [Requests -> Gateways]
                           /\ NoSession \notin Requests
                           /\ MaxClock \in Nat

(* OpenCode gives every session a new ID and a request creates at most     *)
(* one, so the session a request creates is named after the request.       *)
Sessions == Requests

VARIABLES pc,      \* where each request is
          mutex,   \* the locked mutexes: gateway and chat
          table,   \* session_ledger: the session of each chat, or NoSession
          born,    \* created_at of each chat's row
          updated, \* updated_at of each chat's row
          asked,   \* requests whose CreateSession call went out
          created, \* sessions that exist in OpenCode
          got,     \* the session ResolveOrCreate returned, or NoSession
          stamp,   \* the time a request has read for its next write
          clock    \* time.Now

vars == <<pc, mutex, table, born, updated, asked, created, got, stamp, clock>>
rowVars == <<table, born, updated>>
openCodeVars == <<asked, created>>

PCs == {"start", "lookup", "create", "insert", "resolved", "touch",
        "done", "failed", "dead"}
Time == 0..MaxClock

LedgerTypeOK == /\ pc \in [Requests -> PCs]
                /\ mutex \in SUBSET (Gateways \X Chats)
                /\ table \in [Chats -> Sessions \cup {NoSession}]
                /\ born \in [Chats -> Time]
                /\ updated \in [Chats -> Time]
                /\ asked \in SUBSET Requests
                /\ created \in SUBSET Sessions
                /\ got \in [Requests -> Sessions \cup {NoSession}]
                /\ stamp \in [Requests -> Time]
                /\ clock \in Time

Init == /\ pc = [r \in Requests |-> "start"]
        /\ mutex = {}
        /\ table = [c \in Chats |-> NoSession]
        /\ born = [c \in Chats |-> 0]
        /\ updated = [c \in Chats |-> 0]
        /\ asked = {}
        /\ created = {}
        /\ got = [r \in Requests |-> NoSession]
        /\ stamp = [r \in Requests |-> 0]
        /\ clock = 0

-----------------------------------------------------------------------------
Lock(r) == <<GatewayOf[r], ChatOf[r]>>
Unlock(r) == mutex' = mutex \ {Lock(r)}
GoTo(r, from, to) == pc[r] = from /\ pc' = [pc EXCEPT ![r] = to]
(* Mutant of ReadClock: the time is rounded up. *)
ReadClockUp(r) == stamp' = [stamp EXCEPT ![r] = clock + 1]
ReadClock(r) == stamp' = [stamp EXCEPT ![r] = clock]

(* Mutant of LockKey: every call makes a mutex of its own. *)
LockOwn(r) == /\ GoTo(r, "start", "lookup")
              /\ mutex' = mutex \cup {Lock(r)}
              /\ UNCHANGED <<rowVars, openCodeVars, got, stamp, clock>>

(* keyLock, then mu.Lock: the wait heeds no context. *)
LockKey(r) == /\ GoTo(r, "start", "lookup")
              /\ Lock(r) \notin mutex
              /\ mutex' = mutex \cup {Lock(r)}
              /\ UNCHANGED <<rowVars, openCodeVars, got, stamp, clock>>

(* Get under the mutex: a row ends the call. *)
GetFound(r) == /\ GoTo(r, "lookup", "resolved")
               /\ table[ChatOf[r]] # NoSession
               /\ got' = [got EXCEPT ![r] = table[ChatOf[r]]]
               /\ Unlock(r)
               /\ UNCHANGED <<rowVars, openCodeVars, stamp, clock>>

GetFails(r) == /\ GoTo(r, "lookup", "failed")
               /\ Unlock(r)
               /\ UNCHANGED <<rowVars, openCodeVars, got, stamp, clock>>

(* Mutant of GetMissing: the mutex is let go before the create callback. *)
GetMissingUnlocks(r) == /\ GoTo(r, "lookup", "create")
                        /\ table[ChatOf[r]] = NoSession
                        /\ asked' = asked \cup {r}
                        /\ Unlock(r)
                        /\ UNCHANGED <<rowVars, created, got, stamp, clock>>

(* No row: the create callback calls OpenCode. *)
GetMissing(r) == /\ GoTo(r, "lookup", "create")
                 /\ table[ChatOf[r]] = NoSession
                 /\ asked' = asked \cup {r}
                 /\ UNCHANGED <<mutex, rowVars, created, got, stamp, clock>>

(* OpenCode serves the call, perhaps after the gateway has given up on it. *)
OpenCodeCreates(r) == /\ r \in asked \ created
                      /\ created' = created \cup {r}
                      /\ UNCHANGED <<pc, mutex, rowVars, asked, got, stamp, clock>>

(* The answer arrives: the handler reads the clock for the new row. *)
CreateReturns(r) == /\ GoTo(r, "create", "insert")
                    /\ r \in created
                    /\ ReadClock(r)
                    /\ UNCHANGED <<mutex, rowVars, openCodeVars, got, clock>>

(* Mutant of CreateFails: an early return without the deferred unlock. *)
CreateFailsLocked(r) == /\ GoTo(r, "create", "failed")
                        /\ UNCHANGED <<mutex, rowVars, openCodeVars, got, stamp, clock>>

(* A timeout, a cancelled request, a refusal or a lost answer. *)
CreateFails(r) == /\ GoTo(r, "create", "failed")
                  /\ Unlock(r)
                  /\ UNCHANGED <<rowVars, openCodeVars, got, stamp, clock>>

(* Mutant of AddRow: INSERT OR REPLACE. *)
ReplaceRow(r) == LET c == ChatOf[r] IN
                 /\ table' = [table EXCEPT ![c] = r]
                 /\ born' = [born EXCEPT ![c] = stamp[r]]
                 /\ updated' = [updated EXCEPT ![c] = stamp[r]]

(* INSERT: UNIQUE(user_id, chat_id, model_id) lets one row in per chat. *)
AddRow(r) == LET c == ChatOf[r] IN
             /\ table[c] = NoSession
             /\ table' = [table EXCEPT ![c] = r]
             /\ born' = [born EXCEPT ![c] = stamp[r]]
             /\ updated' = [updated EXCEPT ![c] = stamp[r]]

InsertOk(r) == /\ GoTo(r, "insert", "resolved")
               /\ AddRow(r)
               /\ got' = [got EXCEPT ![r] = r]
               /\ Unlock(r)
               /\ UNCHANGED <<openCodeVars, stamp, clock>>

(* Mutant of InsertFails: the error of the statement is ignored. *)
InsertErrorIgnored(r) == /\ GoTo(r, "insert", "resolved")
                         /\ got' = [got EXCEPT ![r] = r]
                         /\ Unlock(r)
                         /\ UNCHANGED <<rowVars, openCodeVars, stamp, clock>>

(* The statement fails, on the UNIQUE constraint or for any other reason:  *)
(* the session is an orphan and the caller gets an error.                  *)
InsertFails(r) == /\ GoTo(r, "insert", "failed")
                  /\ Unlock(r)
                  /\ UNCHANGED <<rowVars, openCodeVars, got, stamp, clock>>

(* The context ends while the statement commits: an error, and yet a row. *)
InsertLost(r) == /\ GoTo(r, "insert", "failed")
                 /\ AddRow(r)
                 /\ Unlock(r)
                 /\ UNCHANGED <<openCodeVars, got, stamp, clock>>

(* Mutant of TouchCalled: Touch is given a time nobody has set. *)
TouchWithoutTime(r) == /\ GoTo(r, "resolved", "touch")
                       /\ UNCHANGED <<mutex, rowVars, openCodeVars, got, stamp, clock>>

(* The handler has used the session and calls Touch, which reads the clock *)
(* as an argument of the statement, before it has the connection.  Or the  *)
(* call to OpenCode failed, and the handler answers without Touch.         *)
TouchCalled(r) == /\ GoTo(r, "resolved", "touch")
                  /\ ReadClock(r)
                  /\ UNCHANGED <<mutex, rowVars, openCodeVars, got, clock>>

UseFails(r) == /\ GoTo(r, "resolved", "failed")
               /\ UNCHANGED <<mutex, rowVars, openCodeVars, got, stamp, clock>>

(* Mutant of TouchRuns: the row is written anew, with both of its times.   *)
TouchUpserts(r) == /\ GoTo(r, "touch", "done")
                   /\ updated' = [updated EXCEPT ![ChatOf[r]] = stamp[r]]
                   /\ born' = [born EXCEPT ![ChatOf[r]] = stamp[r]]
                   /\ UNCHANGED <<mutex, table, openCodeVars, got, stamp, clock>>

TouchRuns(r) == /\ GoTo(r, "touch", "done")
                /\ updated' = [updated EXCEPT ![ChatOf[r]] = stamp[r]]
                /\ UNCHANGED <<mutex, table, born, openCodeVars, got, stamp, clock>>

TouchFails(r) == /\ GoTo(r, "touch", "failed")
                 /\ UNCHANGED <<mutex, rowVars, openCodeVars, got, stamp, clock>>

Tick == /\ clock < MaxClock
        /\ clock' = clock + 1
        /\ UNCHANGED <<pc, mutex, rowVars, openCodeVars, got, stamp>>

(* A process dies with its mutexes and the requests it was serving; the    *)
(* requests it had not yet begun reach the process that replaces it.       *)
Serving(g) == {r \in Requests :
                  GatewayOf[r] = g /\ pc[r] \notin {"start", "done", "failed", "dead"}}
Crash(g) == /\ Serving(g) # {}
            /\ pc' = [r \in Requests |-> IF r \in Serving(g) THEN "dead" ELSE pc[r]]
            /\ mutex' = {l \in mutex : l[1] # g}
            /\ UNCHANGED <<rowVars, openCodeVars, got, stamp, clock>>

-----------------------------------------------------------------------------
GetStep(r) == GetFound(r) \/ GetFails(r) \/ GetMissing(r)
CreateStep(r) == CreateReturns(r) \/ CreateFails(r)
InsertStep(r) == InsertOk(r) \/ InsertFails(r) \/ InsertLost(r)
UseStep(r) == TouchCalled(r) \/ UseFails(r) \/ TouchRuns(r) \/ TouchFails(r)

RequestStep(r) == \/ LockKey(r) \/ GetStep(r) \/ CreateStep(r)
                  \/ InsertStep(r) \/ UseStep(r)

Next == \/ \E r \in Requests : RequestStep(r) \/ OpenCodeCreates(r)
        \/ Tick
        \/ \E g \in Gateways : Crash(g)

Spec == Init /\ [][Next]_vars

(* Go's mutex starves nobody; a statement returns, and so does a call to   *)
(* OpenCode, by the timeout of the HTTP client if by nothing else.         *)
Fairness == \A r \in Requests : /\ SF_vars(LockKey(r))
                                /\ WF_vars(GetStep(r))
                                /\ WF_vars(CreateStep(r))
                                /\ WF_vars(InsertStep(r))
FairSpec == Spec /\ Fairness

-----------------------------------------------------------------------------
InCall(r) == pc[r] \in {"lookup", "create", "insert"}
Stored(c) == table[c] # NoSession

(* All requests of a chat are routed to one session, the one in its row,   *)
(* whatever failed, crashed or raced before.                               *)
OneSessionPerChat ==
    \A r \in Requests : got[r] # NoSession => got[r] = table[ChatOf[r]]

(* A row, once there, keeps its session and its created_at. *)
RowsStay == [][\A c \in Chats : Stored(c) =>
                  table'[c] = table[c] /\ born'[c] = born[c]]_vars

(* ResolveOrCreate is single-flight for a chat within a process: the       *)
(* locked mutexes are those of the requests inside it, one each.           *)
SingleFlight ==
    /\ mutex = {Lock(r) : r \in {q \in Requests : InCall(q)}}
    /\ \A r, q \in Requests : InCall(r) /\ InCall(q) /\ Lock(r) = Lock(q) => r = q

(* A process never asks OpenCode for a session, nor inserts a row, for a   *)
(* chat that it has itself bound, before a crash or after: only another    *)
(* process on the same file can make a request create in vain.             *)
BoundBy(g, c) == Stored(c) /\ GatewayOf[table[c]] = g
NoCreateForBoundChat ==
    \A r \in Requests :
        pc[r] \in {"create", "insert"} => ~BoundBy(GatewayOf[r], ChatOf[r])

(* A session of OpenCode is the one of its chat's row, or the call of      *)
(* ResolveOrCreate that created it is under way, or it failed or died      *)
(* without giving its request a session: no success leaves an orphan.      *)
OrphansComeFromFailures ==
    \A r \in created : \/ table[ChatOf[r]] = r
                       \/ pc[r] \in {"create", "insert"}
                       \/ pc[r] \in {"failed", "dead"} /\ got[r] = NoSession

(* A row's updated_at never precedes its created_at. *)
UpdatedAfterBorn == \A c \in Chats : Stored(c) => born[c] <= updated[c]

(* The design says that updated_at never moves backward for a record       *)
(* (docs/design/session-ledger.md).  Touch does not compare: it writes the *)
(* time its caller read before it had the connection.                      *)
UpdatedMonotone ==
    [][\A c \in Chats : Stored(c) => updated[c] <= updated'[c]]_vars

(* The ledger implements the write-once map from chats to sessions. *)
Map == INSTANCE SessionMap WITH Unbound <- NoSession,
                                binding <- table, route <- got
ImplementsMap == Map!Spec

(* Nobody waits for ever for the mutex of a chat, and every call of        *)
(* ResolveOrCreate ends.                                                   *)
CallsReturn == \A r \in Requests :
                   pc[r] = "start" ~> pc[r] # "start" /\ ~InCall(r)
=============================================================================
