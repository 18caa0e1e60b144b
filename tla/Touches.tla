------------------------------ MODULE Touches ------------------------------
(***************************************************************************)
(* The times the server keeps for a session (last ping, last activity) and *)
(* the write-behind batching of them: internal/sessions/touches.go, the    *)
(* request handlers that feed it, the SQL that stores it, the stale        *)
(* clean-up that reads it, and the server's start, shutdown and crash.     *)
(*                                                                         *)
(* A handler runs in three steps, because other requests, the flush loop   *)
(* and the clock move between them: the RequireSessionOwner middleware     *)
(* reads the row, the handler takes now := time.Now(), and its last step   *)
(* takes effect.  A flush has two: the swap of the pending map under the   *)
(* mutex and the transaction, with a third (the put back) when it fails.   *)
(***************************************************************************)
EXTENDS Integers

CONSTANTS
  Sessions,       \* session ids
  Handlers,       \* request goroutines that may run at the same time
  FlushInterval,  \* DefaultTouchFlushInterval, in clock units
  StaleAfter,     \* the 1 h threshold of DeleteStaleSessions, in clock units
  MaxDelay,       \* longest time from a handler's time.Now() to its effect
  Second,         \* clock units per second, the resolution of timeFormat
  MaxTime,        \* bound on the clock
  MaxRequests     \* bound on the requests served

ASSUME TimingAssumption ==
  /\ FlushInterval \in Nat \ {0}
  /\ StaleAfter \in Nat
  /\ MaxDelay \in Nat
  /\ Second \in Nat \ {0}
  /\ MaxTime \in Nat
  /\ MaxRequests \in Nat

Fields == {"ping", "activity"}
Keys   == Sessions \X Fields
None   == -1        \* a nil *time.Time
Times  == Nat \cup {None}

VARIABLES
  clock,    \* time.Now()
  server,   \* "running", "draining" (srv.Shutdown waits), "stopping" (the loop's
            \* context is cancelled), "flushing" (final flush), "exited", "down"
  exists,   \* sessions with a row
  ended,    \* sessions whose row has ended_at set
  stored,   \* the last_ping_at and last_activity_at columns
  pending,  \* Touches.pending
  batch,    \* the entries a flush has taken out of pending
  phase,    \* the flush loop: "idle", "writing" (transaction), "failed" (put back due)
  due,      \* when the ticker next fires
  req,      \* the request each handler goroutine serves
  served,   \* requests accepted so far (a bound, no program state)
  \* history, read by the properties only
  last,     \* the last time recorded for a key by Ping or Activity
  since,    \* when a pending key's entry was made
  flushed,  \* when the last successful flush took its batch
  outcome,  \* of the last flush: "ok" or "failed"
  drain,    \* "late" when srv.Shutdown gave up on handlers still running
  heard     \* when a ping of the session was last recorded

db    == <<exists, ended, stored>>
mem   == <<pending, batch, phase, due>>
ghost == <<last, since, flushed, outcome, drain, heard>>
vars  == <<clock, server, exists, ended, stored, pending, batch, phase, due,
           req, served, last, since, flushed, outcome, drain, heard>>

Kinds   == {"ping", "activity", "start", "end", "delete"}
Serve(stage, kind, s, at) == [stage |-> stage, kind |-> kind, s |-> s, at |-> at]
Idle    == Serve("idle", "ping", None, None)
Request == [stage : {"idle", "read", "stamped"}, kind : Kinds,
            s : Sessions \cup {None}, at : Times]

\* timeFormat keeps whole seconds; parsing gives back the truncated instant.
Format(t) == t - (t % Second)

Nothing == [k \in Keys |-> None]

Servers == {"running", "draining", "stopping", "flushing", "exited", "down"}

Alive == server # "down"

-----------------------------------------------------------------------------
Init ==
  /\ clock = 0
  /\ server = "running"
  /\ exists = {} /\ ended = {}
  /\ stored = [k \in Keys |-> 0]
  /\ pending = Nothing /\ batch = Nothing
  /\ phase = "idle" /\ due = FlushInterval
  /\ req = [h \in Handlers |-> Idle] /\ served = 0
  /\ last = Nothing /\ since = Nothing
  /\ flushed = 0 /\ outcome = "ok" /\ drain = "clean"
  /\ heard = [s \in Sessions |-> None]

-----------------------------------------------------------------------------
(* The clock.  The flush loop is not starved: its tick is taken when it is  *)
(* due, a flush ends within a unit, and no handler sits between its         *)
(* time.Now() and its effect for more than MaxDelay.                        *)

Punctual ==
  /\ phase = "idle"
  /\ server \in {"running", "draining"} => clock < due
  /\ server \notin {"stopping", "flushing"}
  /\ \A h \in Handlers : req[h].stage = "stamped" => clock < req[h].at + MaxDelay

Tick ==
  /\ clock < MaxTime
  /\ Punctual
  /\ clock' = clock + 1
  /\ UNCHANGED <<served, server, db, mem, req, ghost>>

-----------------------------------------------------------------------------
(* Requests. *)

Accept(h) ==
  /\ server = "running"
  /\ req[h].stage = "idle"
  /\ served < MaxRequests
  /\ served' = served + 1

\* RequireSessionOwner: a missing row answers 404 and the handler never runs.
RequireSessionOwner(h, kind, s) ==
  /\ Accept(h)
  /\ kind # "start"
  /\ s \in exists
  /\ req' = [req EXCEPT ![h] = Serve("read", kind, s, None)]
  /\ UNCHANGED <<clock, server, db, mem, ghost>>

\* A start has no row to own: it goes straight to its handler, which takes now.
StartHandler(h, s) ==
  /\ Accept(h)
  /\ req' = [req EXCEPT ![h] = Serve("stamped", "start", s, clock)]
  /\ UNCHANGED <<clock, server, db, mem, ghost>>

\* now := time.Now() in PingHandler and ActivityHandler.
Stamp(h) ==
  /\ Alive
  /\ req[h].stage = "read"
  /\ req[h].kind \in Fields
  /\ req' = [req EXCEPT ![h] = Serve("stamped", req[h].kind, req[h].s, clock)]
  /\ UNCHANGED <<served, clock, server, db, mem, ghost>>

Reply(h) == req' = [req EXCEPT ![h] = Idle]

Serving(h, stage, kinds) == Alive /\ req[h].stage = stage /\ req[h].kind \in kinds

\* Touches.Ping and Touches.Activity: one assignment under the mutex.
Record(h) ==
  LET k == <<req[h].s, req[h].kind>> IN
  /\ Serving(h, "stamped", Fields)
  /\ pending' = [pending EXCEPT ![k] = req[h].at]
  /\ last' = [last EXCEPT ![k] = req[h].at]
  /\ since' = [since EXCEPT ![k] = IF pending[k] = None THEN clock ELSE @]
  /\ heard' = IF req[h].kind = "ping" THEN [heard EXCEPT ![req[h].s] = clock] ELSE heard
  /\ Reply(h)
  /\ UNCHANGED <<served, clock, server, db, batch, phase, due, flushed, outcome, drain>>

Unflushed(k) == pending[k] # None \/ batch[k] # None

\* CreateSession's upsert: both times become the start's, ended_at is cleared.
Upsert(s, at) ==
  /\ exists' = exists \cup {s}
  /\ ended' = ended \ {s}
  /\ stored' = [stored EXCEPT ![<<s, "ping">>] = Format(at),
                              ![<<s, "activity">>] = Format(at)]

CreateSession(h) ==
  LET s == req[h].s IN
  /\ Serving(h, "stamped", {"start"})
  /\ Upsert(s, req[h].at)
  /\ last' = [k \in Keys |-> IF k[1] = s /\ ~Unflushed(k) THEN None ELSE last[k]]
  /\ Reply(h)
  /\ UNCHANGED <<served, clock, server, mem, since, flushed, outcome, drain, heard>>

\* EndSession: an UPDATE that matches no row when the session was deleted.
EndSession(h) ==
  LET s == req[h].s IN
  /\ Serving(h, "read", {"end"})
  /\ ended' = IF s \in exists THEN ended \cup {s} ELSE ended
  /\ Reply(h)
  /\ UNCHANGED <<served, clock, server, exists, stored, mem, ghost>>

\* The rows are gone, and with them what the history says of the sessions.
DropRows(S) ==
  /\ exists' = exists \ S
  /\ ended' = ended \ S
  /\ stored' = [k \in Keys |-> IF k[1] \in S THEN 0 ELSE stored[k]]
  /\ last' = [k \in Keys |-> IF k[1] \in S THEN None ELSE last[k]]
  /\ heard' = [s \in Sessions |-> IF s \in S THEN None ELSE heard[s]]

DeleteSession(h) ==
  LET s == req[h].s IN
  /\ Serving(h, "read", {"delete"})
  /\ DropRows({s})
  /\ Reply(h)
  /\ UNCHANGED <<served, clock, server, mem, since, flushed, outcome, drain>>

\* A database error: the handler answers 500 and changes nothing.
RequestFails(h) ==
  /\ Serving(h, "stamped", {"start"}) \/ Serving(h, "read", {"end", "delete"})
  /\ Reply(h)
  /\ UNCHANGED <<served, clock, server, db, mem, ghost>>

\* DELETE FROM sessions WHERE ended_at IS NULL AND last_ping_at < now - 1h.
Stale(s) == s \in exists \ ended /\ stored[<<s, "ping">>] < Format(clock - StaleAfter)

DeleteStaleSessions ==
  /\ server = "running"
  /\ \E s \in Sessions : Stale(s)
  /\ DropRows({s \in Sessions : Stale(s)})
  /\ UNCHANGED <<served, clock, server, mem, req, since, flushed, outcome, drain>>

-----------------------------------------------------------------------------
(* The flush loop, Touches.Run and Touches.Flush. *)

\* The entries are copied out and pending becomes a fresh map, under the mutex.
CopyWithoutSwap ==
  /\ batch' = pending
  /\ UNCHANGED <<pending, since>>

SwapPending ==
  /\ batch' = pending
  /\ pending' = Nothing
  /\ UNCHANGED since

\* The ticker fires, or the context is cancelled and the loop flushes once more.
BeginFlush ==
  /\ phase = "idle"
  /\ \/ /\ server \in {"running", "draining", "stopping"}
        /\ clock >= due
        /\ UNCHANGED server
     \/ /\ server = "stopping"
        /\ server' = "flushing"
  /\ SwapPending
  /\ phase' = "writing"
  /\ due' = clock + FlushInterval
  /\ UNCHANGED <<served, clock, db, req, last, flushed, outcome, drain, heard>>

\* After the final flush Run returns and the process exits.
AfterFlush == server' = IF server = "flushing" THEN "exited" ELSE server

\* TouchSessions: COALESCE keeps the column when the batch has no value for it,
\* and the UPDATE of a deleted session matches no row.
CoalesceSwapped(k) == stored[k]

Coalesce(k) ==
  IF k[1] \in exists /\ batch[k] # None THEN Format(batch[k]) ELSE stored[k]

FlushCommits ==
  /\ phase = "writing"
  /\ stored' = [k \in Keys |-> Coalesce(k)]
  /\ batch' = Nothing
  /\ phase' = "idle"
  /\ flushed' = due - FlushInterval
  /\ outcome' = "ok"
  /\ AfterFlush
  /\ since' = [k \in Keys |-> IF pending[k] = None THEN None ELSE since[k]]
  /\ UNCHANGED <<served, clock, exists, ended, pending, due, req, last, drain, heard>>

\* The transaction rolls back; nothing is written.
FlushFails ==
  /\ phase = "writing"
  /\ batch # Nothing
  /\ phase' = "failed"
  /\ outcome' = "failed"
  /\ UNCHANGED <<served, clock, server, db, pending, batch, due, req,
                 last, since, flushed, drain, heard>>

\* The entries go back, except where a newer time was recorded meanwhile.
RestoreOverNewer(k) == IF batch[k] # None THEN batch[k] ELSE pending[k]

Restore(k) == IF pending[k] = None THEN batch[k] ELSE pending[k]

PutBack ==
  /\ phase = "failed"
  /\ pending' = [k \in Keys |-> Restore(k)]
  /\ batch' = Nothing
  /\ phase' = "idle"
  /\ AfterFlush
  /\ UNCHANGED <<served, clock, db, due, req, ghost>>

-----------------------------------------------------------------------------
(* The server's life. *)

\* srv.Shutdown closes the listeners: no new request, running ones go on.
BeginShutdown ==
  /\ server = "running"
  /\ server' = "draining"
  /\ UNCHANGED <<served, clock, db, mem, req, ghost>>

\* srv.Shutdown returns when the handlers are done, or when its context expires;
\* stopTouches then cancels the loop's context.
StopBeforeFlush ==
  /\ server = "draining"
  /\ server' = "exited"
  /\ drain' = IF \A h \in Handlers : req[h].stage = "idle" THEN "clean" ELSE "late"
  /\ UNCHANGED <<served, clock, db, mem, req, last, since, flushed, outcome, heard>>

StopTouches ==
  /\ server = "draining"
  /\ server' = "stopping"
  /\ drain' = IF \A h \in Handlers : req[h].stage = "idle" THEN "clean" ELSE "late"
  /\ UNCHANGED <<served, clock, db, mem, req, last, since, flushed, outcome, heard>>

\* The process is gone: everything in memory with it.  An open transaction
\* rolls back.
Die ==
  /\ server' = "down"
  /\ pending' = Nothing /\ batch' = Nothing
  /\ phase' = "idle"
  /\ due' = due
  /\ req' = [h \in Handlers |-> Idle]
  /\ last' = [k \in Keys |-> IF Unflushed(k) THEN None ELSE last[k]]
  /\ heard' = [s \in Sessions |-> IF Unflushed(<<s, "ping">>) THEN None ELSE heard[s]]
  /\ since' = Nothing
  /\ UNCHANGED <<served, clock, db, flushed, outcome, drain>>

Crash == Alive /\ server # "exited" /\ Die

Exit == server = "exited" /\ phase = "idle" /\ Die

Boot ==
  /\ server = "down"
  /\ server' = "running"
  /\ due' = clock + FlushInterval
  /\ flushed' = clock
  /\ outcome' = "ok" /\ drain' = "clean"
  /\ UNCHANGED <<served, clock, db, pending, batch, phase, req, last, since, heard>>

-----------------------------------------------------------------------------
Next ==
  \/ Tick
  \/ \E h \in Handlers, s \in Sessions :
       \/ \E kind \in Kinds : RequireSessionOwner(h, kind, s)
       \/ StartHandler(h, s)
  \/ \E h \in Handlers :
       \/ Stamp(h) \/ Record(h) \/ CreateSession(h) \/ EndSession(h)
       \/ DeleteSession(h) \/ RequestFails(h)
  \/ DeleteStaleSessions
  \/ BeginFlush \/ FlushCommits \/ FlushFails \/ PutBack
  \/ BeginShutdown \/ StopTouches \/ Crash \/ Exit \/ Boot

Spec == Init /\ [][Next]_vars

-----------------------------------------------------------------------------
(* Properties. *)

\* The variables hold values of their types; a row always has both times.
TypeOK ==
  /\ clock \in Nat
  /\ server \in Servers
  /\ exists \subseteq Sessions
  /\ ended \subseteq exists
  /\ stored \in [Keys -> Nat]
  /\ pending \in [Keys -> Times]
  /\ batch \in [Keys -> Times]
  /\ phase \in {"idle", "writing", "failed"}
  /\ due \in Nat
  /\ req \in [Handlers -> Request]
  /\ served \in Nat
  /\ last \in [Keys -> Times]
  /\ since \in [Keys -> Times]
  /\ flushed \in Int
  /\ outcome \in {"ok", "failed"}
  /\ drain \in {"clean", "late"}
  /\ heard \in [Sessions -> Times]

\* No ping or activity the server acknowledged is dropped: the last one recorded
\* for a session is still pending, or in the batch a flush has taken (whether
\* the flush is under way or has failed), or in the row.  Flush's put back and
\* the records that race with it must keep this ("so the next flush retries
\* them").
NoTouchLost ==
  \A k \in Keys :
    last[k] # None =>
      /\ pending[k] # None => pending[k] = last[k]
      /\ pending[k] = None /\ batch[k] # None => batch[k] = last[k]
      /\ ~Unflushed(k) /\ k[1] \in exists => stored[k] = Format(last[k])

\* What is not yet in the database was recorded within the last flush interval,
\* unless flushes are failing: the most a crash can lose and a read can lag.
AtMostOneInterval ==
  (server \in {"running", "draining"} /\ outcome = "ok") =>
    \A k \in Keys : Unflushed(k) => clock - since[k] <= FlushInterval

\* The stale clean-up never deletes a session that pinged within the threshold
\* (less the request delay and the second lost to formatting) and whose ping is
\* older than a flush interval, as long as flushes succeed.
StaleCleanupSparesFlushed ==
  [][DeleteStaleSessions =>
       \A s \in exists \ exists' :
         (heard[s] # None /\ outcome = "ok" /\ clock - heard[s] > FlushInterval)
           => clock - heard[s] > StaleAfter - MaxDelay - Second + 1]_vars

\* A shutdown that waited for its handlers and whose last flush succeeded
\* leaves nothing behind in memory.
CleanShutdownKeepsAll ==
  (server = "exited" /\ drain = "clean" /\ outcome = "ok") => (pending = Nothing /\ batch = Nothing)

=============================================================================
