---------------------------- MODULE SessionFeed ----------------------------
(***************************************************************************)
(* How a browser tab follows the server's session rows: the handlers that  *)
(* change a row and then broadcast it (internal/sessions/handler.go), the  *)
(* feed of one connection, the list request, and the page's state          *)
(* (useSessionUpdates.ts, DashboardPage.tsx, SessionDetailPage.tsx).       *)
(*                                                                         *)
(* A handler is three steps: the RequireSessionOwner middleware reads the  *)
(* row, the handler writes the database, and then it broadcasts the row    *)
(* the MIDDLEWARE read with its own change patched in.  A session's        *)
(* watcher sends its requests one after the other; users send theirs at    *)
(* any time.                                                               *)
(***************************************************************************)
EXTENDS Integers, Sequences

CONSTANTS
  Sessions,   \* session ids, each with its watcher
  Users,      \* people who edit tags and delete sessions
  Page,       \* the page the tab shows: "dashboard" or "detail"
  Cap,        \* capacity of the connection's send channel
  MaxEdits,   \* bound on tag edits, which number the tag lists
  MaxFaults   \* bound on lost connections, failed list requests, reloads and crashes

ASSUME FeedAssumption ==
  /\ Page \in {"dashboard", "detail"}
  /\ Cap \in Nat \ {0} /\ MaxEdits \in Nat /\ MaxFaults \in Nat
  /\ Sessions \cap Users = {}

VARIABLES
  rows,    \* the sessions table
  life,    \* each watcher: "off", or "on" while it runs
  req,     \* the request of each caller
  edits,   \* tag lists saved so far
  ws,      \* the connection: "opening", "open" (registered), "closing" (evicted),
           \* "broken" (dead, the tab may not know), "retry" (the tab knows)
  feed,    \* updates between Broadcast and onmessage
  list,    \* the list request: "none", "asked", or "answered" with these rows
  shown,   \* the page's sessions
  budget   \* faults that may still happen

vars == <<rows, life, req, edits, ws, feed, list, shown, budget>>

Callers == Sessions \cup Users    \* a session stands for its watcher

Row   == [tags : 0..MaxEdits, ended : {"no", "yes"}]
NoRow == [tags |-> -1, ended |-> "none"]
NewRow == [tags |-> 0, ended |-> "no"]   \* as StartHandler builds it
Empty == [s \in Sessions |-> NoRow]

Asked == [state |-> "asked", rows |-> Empty]   \* one list request at a time

\* A request: how far it is, its session, the row it works with, the tags it asks for.
Call(stage, kind, s, row, tags) ==
  [stage |-> stage, kind |-> kind, s |-> s, row |-> row, tags |-> tags]
Idle == Call("idle", "ping", CHOOSE s \in Sessions : TRUE, NoRow, 0)

Init ==
  /\ rows = Empty
  /\ life = [s \in Sessions |-> "off"]
  /\ req = [c \in Callers |-> Idle]
  /\ edits = 0
  /\ ws = "opening" /\ feed = <<>>
  /\ list = Asked
  /\ shown = Empty
  /\ budget = MaxFaults

Fault == budget > 0 /\ budget' = budget - 1

-----------------------------------------------------------------------------
(* Requests. *)

Ask(c, call) == req[c].stage = "idle" /\ req' = [req EXCEPT ![c] = call]

\* The watcher comes up and registers the session; start has no middleware read.
Start(s) ==
  /\ life[s] = "off"
  /\ life' = [life EXCEPT ![s] = "on"]
  /\ Ask(s, Call("read", "start", s, NoRow, 0))
  /\ UNCHANGED <<rows, edits, ws, feed, list, shown, budget>>

\* RequireSessionOwner: the handler will work with this copy of the row.
Read(c, kind, s, tags) == rows[s] # NoRow /\ Ask(c, Call("read", kind, s, rows[s], tags))

Ping(s) ==
  /\ life[s] = "on"
  /\ Read(s, "ping", s, 0)
  /\ UNCHANGED <<rows, life, edits, ws, feed, list, shown, budget>>

\* The tmux session is gone: the heartbeat has stopped, the end is sent.
End(s) ==
  /\ life[s] = "on"
  /\ life' = [life EXCEPT ![s] = "off"]
  /\ Read(s, "end", s, 0)
  /\ UNCHANGED <<rows, edits, ws, feed, list, shown, budget>>

UserAsks(u, s) ==
  /\ \/ Read(u, "delete", s, 0) /\ UNCHANGED edits
     \/ edits < MaxEdits /\ edits' = edits + 1 /\ Read(u, "tags", s, edits + 1)
  /\ UNCHANGED <<rows, life, ws, feed, list, shown, budget>>

\* The watcher is killed, or its host goes down: no end is sent.
WatcherDies(s) ==
  /\ life[s] = "on" /\ req[s].stage = "idle"
  /\ Fault
  /\ life' = [life EXCEPT ![s] = "off"]
  /\ UNCHANGED <<rows, req, edits, ws, feed, list, shown>>

-----------------------------------------------------------------------------
(* Handlers: the write, then the broadcast. *)

\* What each handler makes of a row it holds.
Patched(r, row) ==
  CASE r.kind = "tags" -> [row EXCEPT !.tags = r.tags]
    [] r.kind = "end"  -> [row EXCEPT !.ended = "yes"]
    [] OTHER           -> row

\* The SQL of each handler; an UPDATE or DELETE of a deleted row matches nothing,
\* and the upsert keeps the tags and clears ended_at.
Stored(r, row) ==
  CASE r.kind = "start"  -> IF row = NoRow THEN NewRow ELSE [row EXCEPT !.ended = "no"]
    [] r.kind = "delete" -> NoRow
    [] row = NoRow       -> NoRow
    [] OTHER             -> Patched(r, row)

Write(c) ==
  LET r == req[c] IN
  /\ r.stage = "read"
  /\ rows' = [rows EXCEPT ![r.s] = Stored(r, @)]
  /\ req' = [req EXCEPT ![c].stage = IF r.kind = "start" THEN "wrote" ELSE "copied",
                         ![c].row   = Patched(r, @)]
  /\ UNCHANGED <<life, edits, ws, feed, list, shown, budget>>

\* A database error: 500, nothing written, nothing broadcast.  A ping writes nothing.
WriteFails(c) ==
  /\ req[c].stage = "read" /\ req[c].kind # "ping"
  /\ Fault
  /\ req' = [req EXCEPT ![c] = Idle]
  /\ UNCHANGED <<rows, life, edits, ws, feed, list, shown>>

\* StartHandler reads the stored row back, and falls back on its own if it is gone.
ReadBack(c) ==
  LET row == rows[req[c].s] IN
  /\ req[c].stage = "wrote"
  /\ req' = [req EXCEPT ![c].stage = "copied", ![c].row = IF row = NoRow THEN NewRow ELSE row]
  /\ UNCHANGED <<rows, life, edits, ws, feed, list, shown, budget>>

\* Hub.Broadcast: into the queue of a registered connection, or evict it.
Broadcast(update) ==
  CASE ws # "open"       -> UNCHANGED <<ws, feed>>
    [] Len(feed) >= Cap  -> ws' = "closing" /\ UNCHANGED feed
    [] OTHER             -> feed' = Append(feed, update) /\ UNCHANGED ws

Announce(c) ==
  LET r == req[c] IN
  /\ r.stage = "copied"
  /\ Broadcast([event |-> r.kind, s |-> r.s, row |-> r.row])
  /\ req' = [req EXCEPT ![c] = IF r.kind = "delete" THEN [r EXCEPT !.stage = "answered"] ELSE Idle]
  /\ UNCHANGED <<rows, life, edits, list, shown, budget>>

\* handleDeleteSession drops the row from the page when the request succeeds; a
\* user at another browser leaves this page alone.
DeleteAnswered(c) ==
  LET r == req[c] IN
  /\ r.stage = "answered"
  /\ shown' \in {shown, [shown EXCEPT ![r.s] = NoRow]}
  /\ req' = [req EXCEPT ![c] = Idle]
  /\ UNCHANGED <<rows, life, edits, ws, feed, list, budget>>

\* The stale clean-up deletes rows whose watcher has been silent and broadcasts
\* nothing; if it was asked for on this page the list is loaded again.
DeleteStale ==
  LET stale == {s \in Sessions : life[s] = "off" /\ rows[s].ended = "no" /\ req[s].stage = "idle"} IN
  /\ Users # {} /\ stale # {}
  /\ rows' = [s \in Sessions |-> IF s \in stale THEN NoRow ELSE rows[s]]
  /\ \/ list.state = "none" /\ list' = Asked
     \/ UNCHANGED list
  /\ UNCHANGED <<life, req, edits, ws, feed, shown, budget>>

-----------------------------------------------------------------------------
(* The page. *)

\* handleUpdate of the two pages: what takes a row off the list.
Removes(event) == event = "end" \/ (event = "delete" /\ Page = "dashboard")

\* Only rows already listed are replaced.
ReplaceOnly(u) ==
  IF Removes(u.event) \/ shown[u.s] = NoRow THEN NoRow ELSE u.row

\* Remove, replace or insert.
Reconciled(u) == IF Removes(u.event) THEN NoRow ELSE u.row

OnMessage ==
  LET u == Head(feed) IN
  /\ ws \in {"open", "closing"}
  /\ feed # <<>>
  /\ feed' = Tail(feed)
  /\ shown' = [shown EXCEPT ![u.s] = Reconciled(u)]
  /\ UNCHANGED <<rows, life, req, edits, ws, list, budget>>

\* ListHandler reads the table; the answer is on its way.
ListHandler ==
  /\ list.state = "asked"
  /\ list' = [state |-> "answered", rows |-> rows]
  /\ UNCHANGED <<rows, life, req, edits, ws, feed, shown, budget>>

\* loadSessions replaces the whole list with the answer, or with nothing on failure.
LoadSessions ==
  /\ list.state = "answered"
  /\ \/ shown' = list.rows /\ UNCHANGED budget
     \/ shown' = Empty /\ Fault
  /\ list' = [state |-> "none", rows |-> Empty]
  /\ UNCHANGED <<rows, life, req, edits, ws, feed>>

\* The page is opened again: a fresh list, a fresh connection.
Reload ==
  /\ Fault
  /\ shown' = Empty
  /\ list' = Asked
  /\ ws' = "opening" /\ feed' = <<>>
  /\ UNCHANGED <<rows, life, req, edits>>

\* The path dies, with or without a close: what was under way is lost.
Disconnect ==
  /\ \/ ws = "open" /\ Fault
     \/ ws = "closing" /\ UNCHANGED budget
  /\ ws' = "broken" /\ feed' = <<>>
  /\ UNCHANGED <<rows, life, req, edits, list, shown>>

\* onclose, or checkLiveness after STALE_MS of silence.
NoticeBroken ==
  /\ ws = "broken"
  /\ ws' = "retry"
  /\ UNCHANGED <<rows, life, req, edits, feed, list, shown, budget>>

\* connect() after the backoff.  It opens a socket and sends the token, no more.
Connect ==
  /\ ws = "retry"
  /\ ws' = "opening"
  /\ UNCHANGED <<rows, life, req, edits, feed, list, shown, budget>>

\* The server validated the token: Hub.Register.
Register ==
  /\ ws = "opening"
  /\ ws' = "open"
  /\ UNCHANGED <<rows, life, req, edits, feed, list, shown, budget>>

-----------------------------------------------------------------------------
Handle(c) == Write(c) \/ WriteFails(c) \/ ReadBack(c) \/ Announce(c) \/ DeleteAnswered(c)

Next ==
  \/ \E s \in Sessions : Start(s) \/ Ping(s) \/ End(s) \/ WatcherDies(s)
  \/ \E u \in Users, s \in Sessions : UserAsks(u, s)
  \/ \E c \in Callers : Handle(c)
  \/ DeleteStale \/ OnMessage \/ ListHandler \/ LoadSessions \/ Reload
  \/ Disconnect \/ NoticeBroken \/ Connect \/ Register

\* Handlers end, updates and answers arrive, a dead connection is closed and
\* retried, and a running watcher keeps pinging.
Fairness ==
  /\ \A c \in Callers : WF_vars(Handle(c))
  /\ \A s \in Sessions : WF_vars(Ping(s))
  /\ WF_vars(OnMessage) /\ WF_vars(ListHandler) /\ WF_vars(LoadSessions)
  /\ WF_vars(ws = "closing" /\ Disconnect) /\ WF_vars(NoticeBroken)
  /\ WF_vars(Connect) /\ WF_vars(Register)

Spec == Init /\ [][Next]_vars /\ Fairness

-----------------------------------------------------------------------------
(* Properties. *)

\* A connected page comes to show a session that is being pinged exactly as the
\* server stores it, whatever stale copies, late lists and lost updates went
\* before: the pings repair it.
PingsConverge ==
  \A s \in Sessions :
    <>[](life[s] = "on" /\ rows[s] # NoRow /\ ws = "open") => <>[](shown[s] = rows[s])

=============================================================================
