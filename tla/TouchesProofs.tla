--------------------------- MODULE TouchesProofs ---------------------------
(***************************************************************************)
(* Proofs, for every set of sessions and handlers and every timing         *)
(* constant, of the properties of Touches.  The inductive invariant IInv   *)
(* adds to the type invariant what holds between the steps of a flush and  *)
(* of a request: which phase leaves which entries where, and how the       *)
(* history times relate to the ticker.                                     *)
(***************************************************************************)
EXTENDS Touches, TLAPS

\* States in which the flush loop ticks.
Ticking == server \in {"running", "draining"}

\* A request under way names a session; its time is recent and not in the future.
RequestInv ==
  \A h \in Handlers :
    /\ req[h].stage # "idle" => req[h].s \in Sessions
    /\ req[h].stage = "stamped" =>
         /\ req[h].at \in Nat
         /\ req[h].at <= clock
         /\ clock <= req[h].at + MaxDelay

\* Between flushes nothing is in a batch.
FlushInv ==
  /\ phase = "idle" => batch = Nothing
  /\ phase = "failed" => outcome = "failed"
  /\ server = "flushing" => phase # "idle"
  /\ server \in {"exited", "down"} => phase = "idle"
  /\ (server \in {"stopping", "flushing", "exited"} /\ drain = "clean") =>
       \A h \in Handlers : req[h].stage = "idle"
  /\ (server = "flushing" /\ drain = "clean") => pending = Nothing
  /\ server = "down" => pending = Nothing

\* A loop that ticks is never overdue, and what it has not stored was recorded
\* after the last successful flush took its batch.
TickInv ==
  Ticking =>
    /\ clock <= due
    /\ flushed <= due - FlushInterval
    /\ due - FlushInterval <= clock
    /\ phase # "idle" => due = clock + FlushInterval
    /\ (phase = "idle" /\ outcome = "ok") => due - FlushInterval <= flushed
    /\ (phase = "writing" /\ outcome = "ok") => clock - FlushInterval <= flushed
    /\ \A k \in Keys :
         /\ Unflushed(k) => flushed <= since[k]
         /\ phase # "idle" /\ pending[k] # None => due - FlushInterval <= since[k]

\* What is pending, being written or stored is as recent as the last ping heard.
HeardInv ==
  /\ \A k \in Keys : Unflushed(k) => since[k] <= clock
  /\ \A s \in Sessions : LET k == <<s, "ping">> IN
       heard[s] # None =>
         /\ heard[s] \in Nat
         /\ heard[s] <= clock
         /\ Unflushed(k) => since[k] <= heard[s]
         /\ pending[k] # None => heard[s] - MaxDelay <= pending[k]
         /\ pending[k] = None /\ batch[k] # None => heard[s] - MaxDelay <= batch[k]
         /\ ~Unflushed(k) /\ s \in exists =>
              heard[s] - MaxDelay - Second + 1 <= stored[k]

\* After a final flush that succeeded, with no handler left, memory is empty.
ExitInv == CleanShutdownKeepsAll

IInv ==
  TypeOK /\ RequestInv /\ FlushInv /\ TickInv /\ NoTouchLost /\ HeardInv /\ ExitInv

-----------------------------------------------------------------------------
\* Formatting a time drops less than a second and never makes it negative.
LEMMA FormatBounds ==
  ASSUME NEW t \in Int
  PROVE  /\ Format(t) \in Int
         /\ Format(t) <= t
         /\ t - Second + 1 <= Format(t)
         /\ t \in Nat => Format(t) \in Nat
  <1>1. t % Second \in 0..(Second - 1)
    BY TimingAssumption
  <1>2. t \in Nat => t % Second <= t
    BY TimingAssumption
  <1>3. QED
    BY <1>1, <1>2, TimingAssumption DEF Format

\* The keys of a session.
LEMMA KeyTypes ==
  /\ \A s \in Sessions, f \in Fields : <<s, f>> \in Keys
  /\ \A k \in Keys : k[1] \in Sessions /\ k[2] \in Fields /\ k = <<k[1], k[2]>>
  /\ Nothing \in [Keys -> Times]
  /\ \A k \in Keys : Nothing[k] = None
  /\ None \in Times
  BY DEF Keys, Nothing, None, Times

\* Requests are well formed.
LEMMA RequestTypes ==
  /\ Idle \in Request
  /\ \A stage \in {"idle", "read", "stamped"}, kind \in Kinds,
        s \in Sessions \cup {None}, at \in Times : Serve(stage, kind, s, at) \in Request
  /\ \A r \in Request : r.stage \in {"idle", "read", "stamped"} /\ r.kind \in Kinds
                         /\ r.s \in Sessions \cup {None} /\ r.at \in Times
  BY DEF Idle, Serve, Request, Kinds, None, Times

-----------------------------------------------------------------------------
\* The type invariant is preserved.
LEMMA TypeStep == TypeOK /\ RequestInv /\ [Next]_vars => TypeOK'
  <1> SUFFICES ASSUME TypeOK, RequestInv, [Next]_vars PROVE TypeOK'
    OBVIOUS
  <1> USE TimingAssumption, KeyTypes, RequestTypes
  <1> USE DEF TypeOK, db, mem, ghost, Servers
  <1>1. CASE Tick
    BY <1>1 DEF Tick
  <1>2. ASSUME NEW h \in Handlers, NEW s \in Sessions, NEW kind \in Kinds,
               RequireSessionOwner(h, kind, s)
        PROVE  TypeOK'
    BY <1>2 DEF RequireSessionOwner, Accept
  <1>3. ASSUME NEW h \in Handlers, NEW s \in Sessions, StartHandler(h, s)
        PROVE  TypeOK'
    BY <1>3 DEF StartHandler, Accept, Kinds, Times
  <1>4. ASSUME NEW h \in Handlers, Stamp(h) PROVE TypeOK'
    BY <1>4 DEF Stamp, Times
  <1>5. ASSUME NEW h \in Handlers, Record(h) PROVE TypeOK'
    BY <1>5 DEF Record, Reply, Serving, Times
  <1>6. ASSUME NEW h \in Handlers, CreateSession(h) PROVE TypeOK'
    <2>1. req[h].s \in Sessions /\ Format(req[h].at) \in Nat
      BY <1>6, FormatBounds DEF CreateSession, Serving, RequestInv
    <2>2. exists' \subseteq Sessions /\ ended' \subseteq exists' /\ stored' \in [Keys -> Nat]
      BY <1>6, <2>1 DEF CreateSession, Upsert
    <2>3. last' \in [Keys -> Times] /\ req' \in [Handlers -> Request]
      BY <1>6 DEF CreateSession, Reply
    <2>4. QED
      BY <1>6, <2>2, <2>3 DEF CreateSession
  <1>7. ASSUME NEW h \in Handlers, EndSession(h) PROVE TypeOK'
    BY <1>7 DEF EndSession, Reply
  <1>8. ASSUME NEW h \in Handlers, DeleteSession(h) PROVE TypeOK'
    BY <1>8 DEF DeleteSession, DropRows, Reply
  <1>9. ASSUME NEW h \in Handlers, RequestFails(h) PROVE TypeOK'
    BY <1>9 DEF RequestFails, Reply
  <1>10. CASE DeleteStaleSessions
    BY <1>10 DEF DeleteStaleSessions, DropRows
  <1>11. CASE BeginFlush
    BY <1>11 DEF BeginFlush, SwapPending
  <1>12. CASE FlushCommits
    <2>1. stored' \in [Keys -> Nat]
      <3> SUFFICES ASSUME NEW k \in Keys PROVE Coalesce(k) \in Nat
        BY <1>12 DEF FlushCommits
      <3> QED
        BY FormatBounds DEF Coalesce, Times
    <2>2. QED
      BY <1>12, <2>1 DEF FlushCommits, AfterFlush
  <1>13. CASE FlushFails
    BY <1>13 DEF FlushFails
  <1>14. CASE PutBack
    BY <1>14 DEF PutBack, Restore, AfterFlush
  <1>15. CASE BeginShutdown
    BY <1>15 DEF BeginShutdown
  <1>16. CASE StopTouches
    BY <1>16 DEF StopTouches
  <1>17. CASE Crash \/ Exit
    BY <1>17 DEF Crash, Exit, Die
  <1>18. CASE Boot
    BY <1>18 DEF Boot
  <1>19. CASE UNCHANGED vars
    BY <1>19 DEF vars
  <1>20. QED
    BY <1>1, <1>2, <1>3, <1>4, <1>5, <1>6, <1>7, <1>8, <1>9, <1>10, <1>11, <1>12,
       <1>13, <1>14, <1>15, <1>16, <1>17, <1>18, <1>19 DEF Next

\* A request keeps its session, and the clock waits for it.
LEMMA RequestStep == TypeOK /\ RequestInv /\ [Next]_vars => RequestInv'
  <1> SUFFICES ASSUME TypeOK, RequestInv, [Next]_vars PROVE RequestInv'
    OBVIOUS
  <1> USE TimingAssumption, RequestTypes
  <1> USE DEF TypeOK, RequestInv, db, mem, ghost
  <1>1. CASE Tick
    BY <1>1 DEF Tick, Punctual
  <1>2. ASSUME NEW h \in Handlers, NEW s \in Sessions, NEW kind \in Kinds,
               RequireSessionOwner(h, kind, s)
        PROVE  RequestInv'
    BY <1>2 DEF RequireSessionOwner, Accept, Serve
  <1>3. ASSUME NEW h \in Handlers, NEW s \in Sessions, StartHandler(h, s)
        PROVE  RequestInv'
    BY <1>3 DEF StartHandler, Accept, Serve
  <1>4. ASSUME NEW h \in Handlers, Stamp(h) PROVE RequestInv'
    BY <1>4 DEF Stamp, Serve
  <1>5. ASSUME NEW h \in Handlers, Reply(h), clock' = clock PROVE RequestInv'
    BY <1>5 DEF Reply, Idle, Serve
  <1>6. ASSUME req' = [h \in Handlers |-> Idle], clock' = clock PROVE RequestInv'
    BY <1>6 DEF Idle, Serve
  <1>7. ASSUME req' = req, clock' = clock PROVE RequestInv'
    BY <1>7
  <1>8. ASSUME NEW h \in Handlers,
               Record(h) \/ CreateSession(h) \/ EndSession(h) \/ DeleteSession(h)
                 \/ RequestFails(h)
        PROVE  RequestInv'
    BY <1>5, <1>8 DEF Record, CreateSession, EndSession, DeleteSession, RequestFails
  <1>9. CASE Crash \/ Exit
    BY <1>6, <1>9 DEF Crash, Exit, Die
  <1>10. CASE DeleteStaleSessions \/ BeginFlush \/ FlushCommits \/ FlushFails \/ PutBack
    BY <1>7, <1>10 DEF DeleteStaleSessions, BeginFlush, FlushCommits, FlushFails, PutBack
  <1>11. CASE BeginShutdown \/ StopTouches \/ Boot \/ UNCHANGED vars
    BY <1>7, <1>11 DEF BeginShutdown, StopTouches, Boot, vars
  <1>12. QED
    BY <1>1, <1>2, <1>3, <1>4, <1>8, <1>9, <1>10, <1>11 DEF Next

\* The phases of a flush leave the batch and the handlers as FlushInv says.
LEMMA FlushStep == TypeOK /\ FlushInv /\ [Next]_vars => FlushInv'
  <1> SUFFICES ASSUME TypeOK, FlushInv, [Next]_vars PROVE FlushInv'
    OBVIOUS
  <1> USE KeyTypes, RequestTypes
  <1> USE DEF TypeOK, FlushInv, db, mem, ghost
  <1>1. CASE Tick
    BY <1>1 DEF Tick
  <1>2. ASSUME NEW h \in Handlers, NEW s \in Sessions, NEW kind \in Kinds,
               RequireSessionOwner(h, kind, s) \/ StartHandler(h, s)
        PROVE  FlushInv'
    BY <1>2 DEF RequireSessionOwner, StartHandler, Accept
  <1>3. ASSUME NEW h \in Handlers, Stamp(h) PROVE FlushInv'
    BY <1>3 DEF Stamp
  <1>4. ASSUME NEW h \in Handlers, Reply(h), req[h].stage # "idle",
               server # "down", UNCHANGED <<server, batch, phase, outcome, drain>>
        PROVE  FlushInv'
    BY <1>4 DEF Reply
  <1>5. ASSUME NEW h \in Handlers,
               Record(h) \/ CreateSession(h) \/ EndSession(h) \/ DeleteSession(h)
                 \/ RequestFails(h)
        PROVE  FlushInv'
    BY <1>4, <1>5 DEF Record, CreateSession, EndSession, DeleteSession, RequestFails, Serving, Alive
  <1>6. CASE DeleteStaleSessions
    BY <1>6 DEF DeleteStaleSessions
  <1>7. CASE BeginFlush
    BY <1>7 DEF BeginFlush, SwapPending
  <1>8. CASE FlushCommits
    BY <1>8 DEF FlushCommits, AfterFlush, Servers
  <1>9. CASE FlushFails
    BY <1>9 DEF FlushFails
  <1>10. CASE PutBack
    BY <1>10 DEF PutBack, AfterFlush, Restore, Servers
  <1>11. CASE BeginShutdown \/ StopTouches
    BY <1>11 DEF BeginShutdown, StopTouches
  <1>12. CASE Crash \/ Exit \/ Boot
    BY <1>12 DEF Crash, Exit, Die, Boot
  <1>13. CASE UNCHANGED vars
    BY <1>13 DEF vars
  <1>14. QED
    BY <1>1, <1>2, <1>3, <1>5, <1>6, <1>7, <1>8, <1>9, <1>10, <1>11, <1>12, <1>13
       DEF Next

\* The ticker is never overdue, and what is not stored is newer than the last
\* successful flush.
LEMMA TickStep ==
  TypeOK /\ RequestInv /\ FlushInv /\ TickInv /\ [Next]_vars => TickInv'
  <1> SUFFICES ASSUME TypeOK, RequestInv, FlushInv, TickInv, [Next]_vars PROVE TickInv'
    OBVIOUS
  <1> USE TimingAssumption, KeyTypes
  <1> USE DEF TypeOK, TickInv, Ticking, Times, Unflushed, db, mem, ghost
  <1>1. CASE Tick
    BY <1>1 DEF Tick, Punctual
  <1>2. ASSUME UNCHANGED <<clock, server, pending, batch, phase, due, since,
                           flushed, outcome>>
        PROVE  TickInv'
    BY <1>2
  <1>3. ASSUME NEW h \in Handlers, NEW s \in Sessions, NEW kind \in Kinds,
               RequireSessionOwner(h, kind, s) \/ StartHandler(h, s)
        PROVE  TickInv'
    BY <1>2, <1>3 DEF RequireSessionOwner, StartHandler
  <1>4. ASSUME NEW h \in Handlers,
               Stamp(h) \/ CreateSession(h) \/ EndSession(h) \/ DeleteSession(h)
                 \/ RequestFails(h)
        PROVE  TickInv'
    BY <1>2, <1>4 DEF Stamp, CreateSession, EndSession, DeleteSession, RequestFails
  <1>5. ASSUME NEW h \in Handlers, Record(h) PROVE TickInv'
    BY <1>5 DEF Record
  <1>6. CASE DeleteStaleSessions
    BY <1>2, <1>6 DEF DeleteStaleSessions
  <1>7. CASE BeginFlush
    BY <1>7 DEF BeginFlush, SwapPending, FlushInv
  <1>8. CASE FlushCommits
    BY <1>8 DEF FlushCommits, AfterFlush
  <1>9. CASE FlushFails
    BY <1>9 DEF FlushFails
  <1>10. CASE PutBack
    BY <1>10 DEF PutBack, AfterFlush, Restore, FlushInv
  <1>11. CASE BeginShutdown \/ StopTouches
    BY <1>11 DEF BeginShutdown, StopTouches
  <1>12. CASE Crash \/ Exit
    BY <1>12 DEF Crash, Exit, Die
  <1>13. CASE Boot
    BY <1>13 DEF Boot, FlushInv
  <1>14. CASE UNCHANGED vars
    BY <1>2, <1>14 DEF vars
  <1>15. QED
    BY <1>1, <1>3, <1>4, <1>5, <1>6, <1>7, <1>8, <1>9, <1>10, <1>11, <1>12, <1>13,
       <1>14 DEF Next, Kinds

\* No step drops the last time recorded for a session.
LEMMA KeptStep ==
  TypeOK /\ RequestInv /\ FlushInv /\ NoTouchLost /\ [Next]_vars => NoTouchLost'
  <1> SUFFICES ASSUME TypeOK, RequestInv, FlushInv, NoTouchLost, [Next]_vars
               PROVE  NoTouchLost'
    OBVIOUS
  <1> USE KeyTypes
  <1> USE DEF TypeOK, NoTouchLost, Unflushed, db, mem, ghost
  <1>1. ASSUME UNCHANGED <<exists, stored, pending, batch, last>> PROVE NoTouchLost'
    BY <1>1
  <1>2. ASSUME NEW h \in Handlers, NEW s \in Sessions, NEW kind \in Kinds,
               RequireSessionOwner(h, kind, s) \/ StartHandler(h, s)
        PROVE  NoTouchLost'
    BY <1>1, <1>2 DEF RequireSessionOwner, StartHandler
  <1>3. ASSUME NEW h \in Handlers, Stamp(h) \/ EndSession(h) \/ RequestFails(h)
        PROVE  NoTouchLost'
    BY <1>1, <1>3 DEF Stamp, EndSession, RequestFails
  <1>4. ASSUME NEW h \in Handlers, Record(h) PROVE NoTouchLost'
    BY <1>4 DEF Record, Serving, RequestInv, None
  <1>5. ASSUME NEW h \in Handlers, CreateSession(h) PROVE NoTouchLost'
    BY <1>5 DEF CreateSession, Upsert
  <1>6. ASSUME NEW h \in Handlers, DeleteSession(h) PROVE NoTouchLost'
    BY <1>6 DEF DeleteSession, DropRows
  <1>7. CASE DeleteStaleSessions
    BY <1>7 DEF DeleteStaleSessions, DropRows
  <1>8. CASE BeginFlush
    BY <1>8 DEF BeginFlush, SwapPending, FlushInv
  <1>9. CASE FlushCommits
    BY <1>9 DEF FlushCommits, Coalesce
  <1>10. CASE PutBack
    BY <1>10 DEF PutBack, Restore
  <1>11. CASE Crash \/ Exit
    BY <1>11 DEF Crash, Exit, Die
  <1>12. CASE Tick \/ FlushFails \/ BeginShutdown \/ StopTouches \/ Boot \/ UNCHANGED vars
    BY <1>1, <1>12 DEF Tick, FlushFails, BeginShutdown, StopTouches, Boot, vars
  <1>13. QED
    BY <1>2, <1>3, <1>4, <1>5, <1>6, <1>7, <1>8, <1>9, <1>10, <1>11, <1>12 DEF Next, Kinds

\* After a clean shutdown nothing is left in memory.
LEMMA ExitStep ==
  TypeOK /\ FlushInv /\ ExitInv /\ [Next]_vars => ExitInv'
  <1> SUFFICES ASSUME TypeOK, FlushInv, ExitInv, [Next]_vars PROVE ExitInv'
    OBVIOUS
  <1> USE DEF ExitInv, CleanShutdownKeepsAll, db, mem, ghost
  <1>1. ASSUME UNCHANGED <<server, pending, batch, outcome, drain>> PROVE ExitInv'
    BY <1>1
  <1>2. ASSUME NEW h \in Handlers, NEW s \in Sessions, NEW kind \in Kinds,
               RequireSessionOwner(h, kind, s) \/ StartHandler(h, s)
        PROVE  ExitInv'
    BY <1>1, <1>2 DEF RequireSessionOwner, StartHandler
  <1>3. ASSUME NEW h \in Handlers,
               Stamp(h) \/ CreateSession(h) \/ EndSession(h) \/ DeleteSession(h)
                 \/ RequestFails(h)
        PROVE  ExitInv'
    BY <1>1, <1>3 DEF Stamp, CreateSession, EndSession, DeleteSession, RequestFails
  <1>4. ASSUME NEW h \in Handlers, Record(h) PROVE ExitInv'
    BY <1>4 DEF Record, Serving, FlushInv
  <1>5. CASE Tick \/ DeleteStaleSessions
    BY <1>1, <1>5 DEF Tick, DeleteStaleSessions
  <1>6. CASE BeginFlush \/ FlushFails
    BY <1>6 DEF BeginFlush, FlushFails, FlushInv
  <1>7. CASE FlushCommits
    BY <1>7 DEF FlushCommits, AfterFlush, FlushInv
  <1>8. CASE PutBack
    BY <1>8 DEF PutBack, AfterFlush, FlushInv
  <1>9. CASE BeginShutdown \/ StopTouches \/ Crash \/ Exit \/ Boot
    BY <1>9 DEF BeginShutdown, StopTouches, Crash, Exit, Die, Boot
  <1>10. CASE UNCHANGED vars
    BY <1>1, <1>10 DEF vars
  <1>11. QED
    BY <1>2, <1>3, <1>4, <1>5, <1>6, <1>7, <1>8, <1>9, <1>10 DEF Next, Kinds

\* What the database will say of a session stays as recent as its last ping.
LEMMA HeardStep ==
  TypeOK /\ RequestInv /\ FlushInv /\ HeardInv /\ [Next]_vars => HeardInv'
  <1> SUFFICES ASSUME TypeOK, RequestInv, FlushInv, HeardInv, [Next]_vars
               PROVE  HeardInv'
    OBVIOUS
  <1> USE TimingAssumption, KeyTypes
  <1> USE DEF TypeOK, HeardInv, Unflushed, Times, None, Fields, db, mem, ghost
  <1>1. ASSUME UNCHANGED <<clock, exists, stored, pending, batch, since, heard>>
        PROVE  HeardInv'
    BY <1>1
  <1>2. CASE Tick
    BY <1>2 DEF Tick
  <1>3. ASSUME NEW h \in Handlers, NEW s \in Sessions, NEW kind \in Kinds,
               RequireSessionOwner(h, kind, s) \/ StartHandler(h, s)
        PROVE  HeardInv'
    BY <1>1, <1>3 DEF RequireSessionOwner, StartHandler
  <1>4. ASSUME NEW h \in Handlers, Stamp(h) \/ EndSession(h) \/ RequestFails(h)
        PROVE  HeardInv'
    BY <1>1, <1>4 DEF Stamp, EndSession, RequestFails
  <1>5. ASSUME NEW h \in Handlers, Record(h) PROVE HeardInv'
    <2> DEFINE k == <<req[h].s, req[h].kind>>
    <2>1. /\ k \in Keys /\ req[h].s \in Sessions
          /\ req[h].at \in Nat /\ req[h].at <= clock /\ clock <= req[h].at + MaxDelay
      BY <1>5 DEF Record, Serving, RequestInv
    <2>2. \A j \in Keys : j # k =>
            pending'[j] = pending[j] /\ since'[j] = since[j] /\ batch'[j] = batch[j]
      BY <1>5, <2>1 DEF Record
    <2>3. /\ pending'[k] = req[h].at /\ batch'[k] = batch[k]
          /\ since'[k] = IF pending[k] = None THEN clock ELSE since[k]
          /\ since'[k] <= clock
      BY <1>5, <2>1 DEF Record
    <2>4. clock' = clock /\ exists' = exists /\ stored' = stored
      BY <1>5 DEF Record
    <2>5. \A j \in Keys : Unflushed(j)' => since'[j] <= clock'
      BY <2>2, <2>3, <2>4
    <2>6. ASSUME NEW s \in Sessions, <<s, "ping">> = k
          PROVE  heard'[s] = clock
      BY <1>5, <2>6, <2>1 DEF Record
    <2>7. ASSUME NEW s \in Sessions, <<s, "ping">> # k
          PROVE  heard'[s] = heard[s]
      BY <1>5, <2>7, <2>1 DEF Record
    <2>8. ASSUME NEW s \in Sessions, heard'[s] # None, <<s, "ping">> = k
          PROVE  /\ heard'[s] \in Nat /\ heard'[s] <= clock'
                 /\ since'[k] <= heard'[s]
                 /\ pending'[k] # None
                 /\ heard'[s] - MaxDelay <= pending'[k]
      BY <2>1, <2>3, <2>4, <2>6, <2>8
    <2>9. QED
      BY <2>2, <2>4, <2>5, <2>7, <2>8
  <1>6. ASSUME NEW h \in Handlers, CreateSession(h) PROVE HeardInv'
    <2>1. /\ req[h].s \in Sessions /\ Format(req[h].at) \in Nat
          /\ clock - MaxDelay - Second + 1 <= Format(req[h].at)
      BY <1>6, FormatBounds DEF CreateSession, Serving, RequestInv
    <2>2. UNCHANGED <<clock, pending, batch, since, heard>>
      BY <1>6 DEF CreateSession
    <2>3. /\ exists' = exists \cup {req[h].s}
          /\ \A s \in Sessions : stored'[<<s, "ping">>] =
               IF s = req[h].s THEN Format(req[h].at) ELSE stored[<<s, "ping">>]
      BY <1>6, <2>1 DEF CreateSession, Upsert
    <2>4. QED
      BY <2>1, <2>2, <2>3
  <1>7. ASSUME NEW h \in Handlers, DeleteSession(h) PROVE HeardInv'
    BY <1>7 DEF DeleteSession, DropRows
  <1>8. CASE DeleteStaleSessions
    BY <1>8 DEF DeleteStaleSessions, DropRows
  <1>9. CASE BeginFlush
    BY <1>9 DEF BeginFlush, SwapPending, FlushInv
  <1>10. CASE FlushCommits
    <2>1. \A k \in Keys : batch[k] # None =>
            batch[k] - Second + 1 <= Format(batch[k]) /\ Format(batch[k]) \in Nat
      BY FormatBounds
    <2>2. UNCHANGED <<clock, exists, pending, heard>> /\ batch' = Nothing
      BY <1>10 DEF FlushCommits
    <2>3. \A k \in Keys :
            /\ pending[k] # None => since'[k] = since[k]
            /\ k[1] \in exists /\ batch[k] # None => stored'[k] = Format(batch[k])
            /\ batch[k] = None => stored'[k] = stored[k]
      BY <1>10 DEF FlushCommits, Coalesce
    <2>4. \A s \in Sessions : <<s, "ping">> \in Keys /\ <<s, "ping">>[1] = s
      OBVIOUS
    <2>5. \A k \in Keys : Unflushed(k)' => since'[k] <= clock'
      BY <2>2, <2>3
    <2>6. ASSUME NEW s \in Sessions, heard[s] # None, s \in exists,
                 pending[<<s, "ping">>] = None
          PROVE  heard[s] - MaxDelay - Second + 1 <= stored'[<<s, "ping">>]
      <3> DEFINE k == <<s, "ping">>
      <3>1. CASE batch[k] = None
        BY <2>6, <2>3, <2>4, <3>1
      <3>2. CASE batch[k] # None
        <4>1. heard[s] - MaxDelay <= batch[k] /\ heard[s] \in Nat /\ batch[k] \in Int
          BY <2>6, <2>4, <3>2
        <4>2. stored'[k] = Format(batch[k])
          BY <2>6, <2>3, <2>4, <3>2
        <4>3. QED
          BY <2>1, <2>4, <3>2, <4>1, <4>2
      <3>3. QED
        BY <3>1, <3>2
    <2>7. QED
      BY <2>2, <2>3, <2>4, <2>5, <2>6
  <1>11. CASE PutBack
    BY <1>11 DEF PutBack, Restore
  <1>12. CASE Crash \/ Exit
    BY <1>12 DEF Crash, Exit, Die
  <1>13. CASE FlushFails \/ BeginShutdown \/ StopTouches \/ Boot \/ UNCHANGED vars
    BY <1>1, <1>13 DEF FlushFails, BeginShutdown, StopTouches, Boot, vars
  <1>14. QED
    BY <1>2, <1>3, <1>4, <1>5, <1>6, <1>7, <1>8, <1>9, <1>10, <1>11, <1>12, <1>13
       DEF Next, Kinds

-----------------------------------------------------------------------------
\* A server that has just come up satisfies the inductive invariant.
LEMMA InitInv == Init => IInv
  BY TimingAssumption, KeyTypes, RequestTypes
  DEF Init, IInv, TypeOK, RequestInv, FlushInv, TickInv, Ticking, NoTouchLost,
      HeardInv, ExitInv, CleanShutdownKeepsAll, Unflushed, Nothing, Idle, Serve,
      Servers, Times, None

\* The inductive invariant holds in every reachable state.
THEOREM Invariance == Spec => []IInv
  <1>1. IInv /\ [Next]_vars => IInv'
    BY TypeStep, RequestStep, FlushStep, TickStep, KeptStep, HeardStep, ExitStep DEF IInv
  <1>2. QED
    BY InitInv, <1>1, PTL DEF Spec

\* The variables of the session store and its batching keep their types.
THEOREM TypeCorrect == Spec => []TypeOK
  <1>1. IInv => TypeOK
    BY DEF IInv
  <1>2. QED
    BY Invariance, <1>1, PTL

\* No acknowledged ping or activity is dropped by Flush, its retry, or a race
\* between them and the handlers.
THEOREM TouchesKept == Spec => []NoTouchLost
  <1>1. IInv => NoTouchLost
    BY DEF IInv
  <1>2. QED
    BY Invariance, <1>1, PTL

\* While flushes succeed, the database lags by at most one flush interval.
THEOREM BoundedLag == Spec => []AtMostOneInterval
  <1>1. IInv => AtMostOneInterval
    <2> SUFFICES ASSUME IInv, Ticking, outcome = "ok", NEW k \in Keys, Unflushed(k)
                 PROVE  clock - since[k] <= FlushInterval
      BY DEF AtMostOneInterval, Ticking
    <2>1. since[k] \in Int /\ clock \in Int /\ due \in Int /\ flushed \in Int
      BY DEF IInv, TypeOK, Times, None
    <2>2. flushed <= since[k] /\ clock <= due
      BY DEF IInv, TickInv
    <2>3. clock - FlushInterval <= flushed
      <3>1. CASE phase = "idle"
        BY <2>1, <2>2, <3>1, TimingAssumption DEF IInv, TickInv
      <3>2. CASE phase = "writing"
        BY <3>2 DEF IInv, TickInv
      <3>3. QED
        BY <3>1, <3>2 DEF IInv, TypeOK, FlushInv
    <2>4. QED
      BY <2>1, <2>2, <2>3, TimingAssumption
  <1>2. QED
    BY Invariance, <1>1, PTL

\* A clean shutdown loses nothing.
THEOREM ShutdownFlushes == Spec => []CleanShutdownKeepsAll
  <1>1. IInv => CleanShutdownKeepsAll
    BY DEF IInv, ExitInv
  <1>2. QED
    BY Invariance, <1>1, PTL

\* The stale clean-up spares every session with a flushed recent ping.
THEOREM CleanupSafe == Spec => StaleCleanupSparesFlushed
  <1> DEFINE A == DeleteStaleSessions =>
       \A s \in exists \ exists' :
         (heard[s] # None /\ outcome = "ok" /\ clock - heard[s] > FlushInterval)
           => clock - heard[s] > StaleAfter - MaxDelay - Second + 1
  <1>1. IInv /\ [Next]_vars => [A]_vars
    <2> SUFFICES ASSUME IInv, DeleteStaleSessions, NEW s \in exists \ exists',
                        heard[s] # None, outcome = "ok", clock - heard[s] > FlushInterval
                 PROVE  clock - heard[s] > StaleAfter - MaxDelay - Second + 1
      OBVIOUS
    <2> DEFINE k == <<s, "ping">>
    <2>1. s \in Sessions /\ k \in Keys /\ Stale(s)
      BY KeyTypes DEF IInv, TypeOK, DeleteStaleSessions, DropRows, Fields
    <2>2. heard[s] \in Nat /\ clock \in Nat /\ stored[k] \in Nat
      BY <2>1 DEF IInv, TypeOK, HeardInv
    <2>3. ~Unflushed(k)
      <3> SUFFICES ASSUME Unflushed(k) PROVE FALSE
        OBVIOUS
      <3>1. clock - since[k] <= FlushInterval /\ since[k] <= heard[s] /\ since[k] \in Int
        BY <2>1, TimingAssumption
        DEF IInv, TypeOK, FlushInv, TickInv, HeardInv, Ticking, DeleteStaleSessions,
            Times, None
      <3>2. QED
        BY <3>1, <2>2, TimingAssumption
    <2>4. heard[s] - MaxDelay - Second + 1 <= stored[k]
      BY <2>1, <2>3 DEF IInv, HeardInv
    <2>5. stored[k] < clock - StaleAfter
      <3>1. Format(clock - StaleAfter) <= clock - StaleAfter
            /\ Format(clock - StaleAfter) \in Int
        BY <2>2, FormatBounds, TimingAssumption
      <3>2. QED
        BY <2>1, <2>2, <3>1, TimingAssumption DEF Stale
    <2>6. QED
      BY <2>2, <2>4, <2>5, TimingAssumption
  <1>2. QED
    BY Invariance, <1>1, PTL DEF Spec, StaleCleanupSparesFlushed

-----------------------------------------------------------------------------
(* The row of a session is ended, and its times sent, by the session's      *)
(* watcher: the proofs about Watcher.  That NoOne is no watcher, which      *)
(* Watcher assumes, is a hypothesis here.                                  *)

CONSTANTS Watchers, Starts, NoOne, MaxIds, MaxTmux, MaxFaults
VARIABLES tmux, born, env, minted, rows, online, lock, wpc, wid, saw, spc, sid, budget

Host == INSTANCE Watcher

\* A watcher between AcquireWatcherLock and its exit.
Holding == {"file", "register", "watching", "signalled", "stopping", "ending"}

HostTypes ==
  /\ tmux \in Nat /\ born \in Nat /\ lock \in Watchers \cup {NoOne}
  /\ wpc \in [Watchers -> Holding \cup {"off", "exists", "lock"}]
  /\ saw \in [Watchers -> Nat]

\* The flock is with the one watcher that is past it.
LockExact == \A w \in Watchers : wpc[w] \in Holding <=> lock = w

\* A watcher about to end the row looked when the session was gone: whatever runs now
\* came later.
Looked ==
  /\ tmux <= born
  /\ \A w \in Watchers :
       wpc[w] = "ending" => saw[w] <= born /\ (tmux = 0 \/ tmux > saw[w])

HostInv == HostTypes /\ LockExact /\ Looked

\* At first nothing runs.
LEMMA NothingRuns ==
  ASSUME NoOne \notin Watchers, Host!Init
  PROVE  HostInv
  BY DEF Host!Init, HostInv, HostTypes, LockExact, Looked, Holding

\* A step of neither the tmux daemon nor a watcher.
LEMMA Aside ==
  ASSUME HostInv, UNCHANGED <<tmux, born, Host!watch>>
  PROVE  HostInv'
  BY DEF Host!watch, HostInv, HostTypes, LockExact, Looked

\* The tmux session comes, goes or stays; a new one is the latest born.
LEMMA TmuxMoves ==
  ASSUME HostInv, UNCHANGED Host!watch,
         \/ tmux' = born + 1 /\ born' = born + 1
         \/ tmux' = 0 /\ born' = born
  PROVE  HostInv'
  BY DEF Host!watch, HostInv, HostTypes, LockExact, Looked

\* A watcher ends, wherever it was, and its lock goes with it.
LEMMA LeaveKeeps ==
  ASSUME NoOne \notin Watchers, HostInv, NEW w \in Watchers, Host!Leave(w), UNCHANGED <<tmux, born>>
  PROVE  HostInv'
<1>1. /\ wpc' = [wpc EXCEPT ![w] = "off"] /\ saw' = [saw EXCEPT ![w] = 0]
      /\ lock' = IF lock = w THEN NoOne ELSE lock
  BY DEF Host!Leave, Host!At
<1>2. HostTypes' /\ Looked'
  BY <1>1 DEF HostInv, HostTypes, Looked, Holding
<1>3. LockExact'
  BY <1>1 DEF HostInv, HostTypes, LockExact, Holding
<1> QED BY <1>2, <1>3 DEF HostInv

\* A watcher goes on on the same side of the lock, and not to the end.
LEMMA MoveKeeps ==
  ASSUME HostInv, NEW w \in Watchers, NEW pc \in Holding \cup {"exists", "lock"},
         Host!At(w, pc), UNCHANGED <<tmux, born, lock, saw>>,
         pc # "ending", pc \in Holding <=> wpc[w] \in Holding
  PROVE  HostInv'
  BY DEF Host!At, HostInv, HostTypes, LockExact, Looked

\* The steps of a watcher.
LEMMA WatcherKeeps ==
  ASSUME NoOne \notin Watchers, HostInv, NEW w \in Watchers, Host!WatchStep(w) \/ Host!RunWatch(w) \/ Host!Signal(w) \/ Host!Crash(w)
  PROVE  HostInv'
<1> USE DEF Holding
<1>1. CASE Host!CheckExists(w)
  BY <1>1, MoveKeeps, LeaveKeeps DEF Host!CheckExists, Host!host
<1>2. CASE Host!AcquireWatcherLock(w)
  <2>1. CASE lock = NoOne
    <3>1. /\ wpc' = [wpc EXCEPT ![w] = "file"] /\ lock' = w /\ UNCHANGED <<tmux, born, saw>>
      BY <1>2, <2>1 DEF Host!AcquireWatcherLock, Host!At, Host!host
    <3>2. HostTypes' /\ Looked'
      BY <3>1 DEF HostInv, HostTypes, Looked
    <3>3. LockExact'
      BY <2>1, <3>1 DEF HostInv, HostTypes, LockExact
    <3> QED BY <3>2, <3>3 DEF HostInv
  <2> QED BY <1>2, <2>1, LeaveKeeps DEF Host!AcquireWatcherLock, Host!host
<1>3. CASE Host!PrepareFile(w) \/ Host!NotifySessionStart(w) \/ Host!LoopBreak(w) \/ Host!Signal(w)
  BY <1>3, MoveKeeps DEF Host!PrepareFile, Host!NotifySessionStart, Host!LoopBreak, Host!Signal, Host!host
<1>4. CASE Host!SignalExit(w) \/ Host!NotifySessionEnd(w) \/ Host!Crash(w)
  BY <1>4, LeaveKeeps DEF Host!SignalExit, Host!NotifySessionEnd, Host!Crash, Host!host
<1>5. CASE Host!FinalCheck(w)
  <2>1. CASE Host!Up
    BY <1>5, <2>1, LeaveKeeps DEF Host!FinalCheck, Host!host
  <2>2. CASE ~Host!Up
    <3>1. /\ wpc' = [wpc EXCEPT ![w] = "ending"] /\ saw' = [saw EXCEPT ![w] = born]
          /\ UNCHANGED <<tmux, born, lock>> /\ tmux = 0 /\ wpc[w] = "stopping"
      BY <1>5, <2>2 DEF Host!FinalCheck, Host!At, Host!host, Host!Up
    <3> QED BY <3>1 DEF HostInv, HostTypes, LockExact, Looked
  <2> QED BY <2>1, <2>2
<1>6. CASE Host!RunWatch(w)
  BY <1>6, MoveKeeps DEF Host!RunWatch, Host!Spawn, Host!At, Host!host
<1> QED BY <1>1, <1>2, <1>3, <1>4, <1>5, <1>6 DEF Host!WatchStep

\* The steps of a start.
LEMMA StartKeeps ==
  ASSUME NoOne \notin Watchers, HostInv, NEW p \in Starts, Host!RunStart(p) \/ Host!StartStep(p) \/ Host!SpawnFails(p)
  PROVE  HostInv'
<1>1. CASE \E w \in Watchers : Host!SpawnWatcher(p, w)
  BY <1>1, MoveKeeps DEF Host!SpawnWatcher, Host!Spawn, Host!At, Host!host, Holding
<1>2. CASE Host!CreateTmux(p)
  <2>1. CASE Host!Up
    BY <1>2, <2>1, Aside DEF Host!CreateTmux
  <2>2. CASE ~Host!Up
    BY <1>2, <2>2, TmuxMoves DEF Host!CreateTmux, Host!NewTmux
  <2> QED BY <2>1, <2>2
<1>3. CASE Host!RunStart(p) \/ Host!SpawnFails(p) \/ Host!GetSessionEnv(p) \/ Host!EnsureId(p) \/ Host!LookupSession(p)
  BY <1>3, Aside DEF Host!RunStart, Host!SpawnFails, Host!GetSessionEnv, Host!EnsureId, Host!LookupSession, Host!host
<1> QED BY <1>1, <1>2, <1>3 DEF Host!StartStep

\* Every step keeps the whole.
LEMMA HostStep ==
  ASSUME NoOne \notin Watchers, HostInv, [Host!Next]_Host!vars
  PROVE  HostInv'
<1>1. CASE Host!ForeignTmux \/ Host!KillSession
  BY <1>1, TmuxMoves DEF Host!ForeignTmux, Host!KillSession, Host!NewTmux
<1>2. CASE Host!Reboot
  BY <1>2 DEF Host!Reboot, HostInv, HostTypes, LockExact, Looked, Holding
<1>3. ASSUME NEW w \in Watchers, Host!PingSession(w) PROVE HostInv'
  BY <1>3, Aside DEF Host!PingSession, Host!host
<1>4. ASSUME NEW id \in Host!Ids, Host!DeleteRow(id) \/ Host!GoesQuiet(id) PROVE HostInv'
  BY <1>4, Aside DEF Host!DeleteRow, Host!GoesQuiet, Host!host
<1>5. CASE UNCHANGED Host!vars
  BY <1>5, Aside DEF Host!vars, Host!watch
<1> QED BY <1>1, <1>2, <1>3, <1>4, <1>5, WatcherKeeps, StartKeeps DEF Host!Next

(* The flock is exact: a watcher is past it exactly while it holds it,      *)
(* through crashes, signals and reboots.                                   *)
THEOREM LockInOrder ==
  ASSUME NoOne \notin Watchers
  PROVE  Host!Spec => []HostInv
<1>1. Host!Init => HostInv
  BY NothingRuns
<1>2. HostInv /\ [Host!Next]_Host!vars => HostInv'
  BY HostStep
<1> QED BY <1>1, <1>2, PTL DEF Host!Spec

(* Of all the watch processes of a name, started by any number of starts    *)
(* and by hand, at most one registers, pings and ends.                     *)
THEOREM OneReporter ==
  ASSUME NoOne \notin Watchers
  PROVE  Host!Spec => [](\A v, w \in Watchers : wpc[v] \in Holding /\ wpc[w] \in Holding => v = w)
<1>1. HostInv => \A v, w \in Watchers : wpc[v] \in Holding /\ wpc[w] \in Holding => v = w
  BY DEF HostInv, LockExact
<1>2. Host!Spec => []HostInv
  BY LockInOrder
<1> QED BY <1>1, <1>2, PTL

(* The row of a session that runs is ended only by a watcher that found the *)
(* session gone before this incarnation of it was born.                    *)
THEOREM SurvivorsLive ==
  ASSUME NoOne \notin Watchers
  PROVE  Host!Spec => Host!NoEndOfSurvivor
<1>1. HostInv => \A w \in Watchers :
        (wpc[w] = "ending" /\ rows' # rows /\ wpc'[w] = "off") => (~Host!Up \/ tmux > saw[w])
  BY DEF HostInv, Looked, Host!Up
<1>2. Host!Spec => []HostInv
  BY LockInOrder
<1> QED BY <1>1, <1>2, PTL DEF Host!NoEndOfSurvivor
=============================================================================
