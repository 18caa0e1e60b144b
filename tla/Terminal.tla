------------------------------ MODULE Terminal ------------------------------
(***************************************************************************)
(* The terminal of the session page (web/src/components/SSHTerminal.tsx)    *)
(* over the wasm SSH client and its pool of host connections               *)
(* (web/src/lib/ssh-client.ts, web/wasm/sshclient/client.go, pool.go).     *)
(*                                                                         *)
(* JavaScript and wasm share one thread: an action is what runs between    *)
(* two suspensions.  A React commit with its effects belongs to the event  *)
(* that caused it.  Sessions are named by their host, times by choice: how *)
(* long a connection was idle or a handshake has taken.                    *)
(***************************************************************************)
EXTENDS Integers, FiniteSets

CONSTANTS
  Hosts,         \* hosts with a session
  MaxConns,      \* bound on the connections alive at once, dying ones included
  MaxPooled,     \* maxPooledConns
  MaxReconnect,  \* MAX_RECONNECT_ATTEMPTS
  MaxMoves,      \* bound on what the user, the network and the system do
  None           \* no host, no connection

Conns == 1 .. MaxConns

ASSUME TerminalAssumption ==
  /\ MaxConns \in Nat /\ MaxPooled \in Nat \ {0} /\ MaxReconnect \in Nat /\ MaxMoves \in Nat
  /\ None \notin Hosts /\ None \notin Nat

VARIABLES
  page,      \* "loading" (wasm), "on", "off" (no terminal is mounted)
  shown,     \* the host of the session the page shows
  status,    \* statusRef
  view,      \* the React state status, which the page shows
  userDisc,  \* userDisconnectedRef
  timer,     \* the host the armed reconnect timer was made for, or None
  tries,     \* reconnectAttemptRef
  restart,   \* pendingRestartRef
  debt,      \* restarts asked for less "devsesh start" commands run
  recovery,  \* the host a recover() awaiting ensureAlive was made for, or None
  asking,    \* a handleCertificateRequest is in flight; later ones share its promise
  unlock,    \* the WebAuthn dialog: "closed", "open", "busy"
  password,  \* the password dialog is open
  conn,      \* each connection: its host and how far it is
  pool,      \* the pooled connection of each host, or None
  active,    \* activeKey
  moves      \* how much of MaxMoves is used

ui     == <<unlock, password>>
wasm   == <<conn, pool, active>>
link   == <<status, view, timer, tries, restart, debt>>
vars   == <<page, shown, status, view, userDisc, timer, tries, restart, debt, recovery, asking,
            unlock, password, conn, pool, active, moves>>

\* "greet" is WaitForConnected; "doomed" and "deaf" are a "dial" and a "greet" that
\* were closed and do not know.
Pending == {"queued", "dial", "greet", "cert", "handshake", "password", "login",
            "refused"}                                                    \* connecting
Holding == (Pending \ {"queued"}) \cup {"doomed", "deaf", "failing"}      \* has connectSem
Phases  == Pending \cup {"free", "up", "dead", "doomed", "deaf", "failing", "closing"}
Free    == [host |-> None, phase |-> "free"]

SemFreeForPassword == \E c \in Conns : conn[c].phase \in Holding \ {"password"}

\* connectSem is taken.
Busy == \E c \in Conns : conn[c].phase \in Holding

Init ==
  /\ page = "loading" /\ shown \in Hosts
  /\ status = "disconnected" /\ view = "disconnected" /\ userDisc = FALSE
  /\ timer = None /\ tries = 0 /\ restart \in BOOLEAN
  /\ debt = IF restart THEN 1 ELSE 0
  /\ recovery = None /\ asking = FALSE /\ unlock = "closed" /\ password = FALSE
  /\ conn = [c \in Conns |-> Free] /\ pool = [h \in Hosts |-> None] /\ active = None
  /\ moves = 0

Move == moves < MaxMoves /\ moves' = moves + 1

-----------------------------------------------------------------------------
(* The pool.  k and p stand for conn and pool in the middle of a step.      *)

\* closeConn: what waits on c.cancel leaves without a word; c.transport is set only
\* after WaitForConnected, so that a dial and a greeting cannot be cut short; the
\* rest fails later, when its blocked call returns.
AfterClose(phase) ==
  CASE phase \in {"queued", "cert", "dead"} -> "free"
    [] phase = "dial" -> "doomed"
    [] phase = "greet" -> "deaf"
    [] phase = "up" -> "closing"
    [] OTHER -> "failing"

At(phase, c) == IF phase = "free" THEN Free ELSE [c EXCEPT !.phase = phase]

CloseIn(k, c) == [k EXCEPT ![c] = At(AfterClose(@.phase), @)]

Up(k, p, h) == p[h] # None /\ k[p[h]].phase = "up"

\* What releaseIdleConns may release: never the active host; every dead entry; as
\* many others as it takes to fit, or all of them.  A connection idle for long and
\* a handshake that is stale may go in any case.
Evictions(k, p, a) ==
  {E \in SUBSET {h \in Hosts : p[h] # None /\ h # a} :
     LET left == {h \in Hosts : p[h] # None} \ E IN
       /\ \A h \in left \ {a} : k[p[h]].phase # "dead"
       /\ Cardinality(left) <= MaxPooled \/ \A h \in left \ {a} : ~Up(k, p, h)}

Release(k, p, E) ==
  /\ conn' = [c \in Conns |-> IF \E h \in E : p[h] = c THEN CloseIn(k, c)[c] ELSE k[c]]
  /\ pool' = [h \in Hosts |-> IF h \in E THEN None ELSE p[h]]

FlagKept(p, h, r, d) ==
  /\ restart' = r
  /\ debt' = IF r /\ Up(conn', p, h) THEN d - 1 ELSE d

\* The attach effect runs the command on the host shown; it uses up the restart
\* whether or not that host is connected.
Attach(p, h, r, d) ==
  /\ restart' = FALSE
  /\ debt' = IF r /\ Up(conn', p, h) THEN d - 1 ELSE d

\* setStatus alone, statusRef as it was: the attach effect runs again when the view
\* changes and statusRef says connected.
SetStatus(s) ==
  /\ view' = s
  /\ IF view # s /\ status = "connected" THEN Attach(pool, shown, restart, debt) ELSE UNCHANGED <<restart, debt>>

\* The status handler of the page.
StatusHandler(s) ==
  LET down == s \in {"disconnected", "error"} /\ ~userDisc IN
  /\ status' = IF down /\ tries >= MaxReconnect THEN "error" ELSE s
  /\ view' = status'
  /\ timer' = IF down /\ tries < MaxReconnect THEN shown ELSE timer
  /\ tries' = IF s = "connected" THEN 0 ELSE tries
  /\ IF s = "connected" /\ view # "connected" THEN Attach(pool, shown, restart, debt) ELSE UNCHANGED <<restart, debt>>

\* emitStatus: only the active host's news reaches the terminal, while there is one.
EmitStatus(h, s) ==
  IF page = "on" /\ active = h THEN StatusHandler(s) ELSE UNCHANGED link

ConnectingLast(k, p, h) == "connecting"

\* The status after a reuse: connect() reports it before it returns, and "connecting"
\* was set before the call.
ReuseStatus(k, p, h) == IF Up(k, p, h) THEN "connected" ELSE "connecting"

\* doConnect(h) and the synchronous part of wasm Connect, from connections k, pool p
\* n attempts, pending restart r and d restarts owed before it: a live entry or a
\* handshake in flight is reused, unless the handshake is stale.
DoConnect(h, k, p, n, r, d) ==
  /\ userDisc' = FALSE /\ active' = h
  /\ \/ /\ p[h] # None /\ k[p[h]].phase \in Pending \cup {"up"}
        /\ \E E \in Evictions(k, p, h) : Release(k, p, E)
        /\ status' = ReuseStatus(k, p, h)
        /\ tries' = IF Up(k, p, h) THEN 0 ELSE n
     \/ /\ ~Up(k, p, h)
        /\ \E c \in Conns :
             LET closed == IF p[h] = None THEN k ELSE CloseIn(k, p[h])
                 k2 == [closed EXCEPT ![c] = [host |-> h, phase |-> "queued"]]
                 p2 == [p EXCEPT ![h] = c]
             IN  /\ closed[c].phase = "free" /\ \A x \in Conns : x < c => closed[x].phase # "free"
                 /\ \E E \in Evictions(k2, p2, h) : Release(k2, p2, E)
        /\ status' = "connecting" /\ tries' = n
  /\ view' = status'
  /\ IF status' = "connected" /\ (view # "connected" \/ shown' # shown)
     THEN Attach(pool', shown', r, d) ELSE restart' = r /\ debt' = d

\* wasm Disconnect(h), as far as the pool goes.
Without(h) == IF pool[h] = None THEN conn ELSE CloseIn(conn, pool[h])
Unpooled(h) == [pool EXCEPT ![h] = None]

-----------------------------------------------------------------------------
(* The page.                                                               *)

\* client.init() is done: the connect effect fires.
Ready ==
  /\ page = "loading" /\ page' = "on" /\ UNCHANGED shown
  /\ DoConnect(shown, conn, pool, tries, restart, debt)
  /\ UNCHANGED <<timer, recovery, asking, ui, moves>>

\* The page shows a session of another host; timers and recoveries stay.
SwitchTo(h) ==
  /\ page = "on" /\ h # shown /\ Move
  /\ shown' = h
  /\ DoConnect(h, conn, pool, tries, restart, debt)
  /\ UNCHANGED <<page, timer, recovery, asking, ui>>

\* The Connect button.
Connect ==
  /\ page = "on" /\ view \in {"disconnected", "error"} /\ Move /\ UNCHANGED shown
  /\ DoConnect(shown, conn, pool, tries, restart, debt)
  /\ UNCHANGED <<page, timer, recovery, asking, ui>>

\* doDisconnect.
Disconnect ==
  /\ page = "on" /\ view \notin {"disconnected", "error"} /\ Move
  /\ userDisc' = TRUE /\ status' = "disconnected" /\ view' = "disconnected"
  /\ conn' = Without(shown) /\ pool' = Unpooled(shown)
  /\ active' = IF active = shown THEN None ELSE active
  /\ UNCHANGED <<page, shown, timer, tries, restart, debt, recovery, asking, ui>>

\* doRestart: at once on a live connection, else with the next attach.
Restart ==
  /\ page = "on" /\ Move /\ UNCHANGED shown
  /\ \/ status = "connected" /\ UNCHANGED <<link, userDisc, wasm>>
     \/ /\ status # "connected"
        /\ DoConnect(shown, conn, pool, 0, TRUE, debt + 1)
        /\ UNCHANGED timer
  /\ UNCHANGED <<page, recovery, asking, ui>>

\* The reconnect timer; it connects the host it was armed for.
TimerFires ==
  /\ timer # None /\ page = "on" /\ UNCHANGED shown
  /\ timer' = None
  /\ \/ ~userDisc /\ DoConnect(timer, conn, pool, tries + 1, restart, debt)
     \/ userDisc /\ UNCHANGED <<userDisc, status, view, tries, restart, debt, wasm>>
  /\ UNCHANGED <<page, recovery, asking, ui, moves>>

\* The network is back, the page is visible again or has the focus: recover() asks
\* whether the worker is alive.
Recover ==
  /\ page = "on" /\ ~userDisc /\ recovery = None /\ Move
  /\ recovery' = shown
  /\ UNCHANGED <<page, shown, link, userDisc, asking, ui, wasm>>

\* recover() resumes with the host and the key it was made for.
RecoverResumes(alive) ==
  /\ recovery # None /\ recovery' = None /\ UNCHANGED shown
  /\ \/ /\ page # "on" \/ (alive /\ status = "connected")
        /\ UNCHANGED <<link, userDisc, unlock, wasm>>
     \/ /\ page = "on" /\ ~(alive /\ status = "connected")
        /\ unlock' = IF alive \/ unlock = "busy" THEN unlock ELSE "open"
        /\ timer' = IF active = recovery /\ ~userDisc /\ tries < MaxReconnect THEN shown ELSE timer
        /\ DoConnect(recovery, Without(recovery), Unpooled(recovery), 0, restart, debt)
  /\ UNCHANGED <<page, asking, password, moves>>

KeepPending == UNCHANGED <<conn, pool>>

\* The terminal goes away: handshakes are abandoned, live connections stay pooled.
DisconnectPending ==
  LET E == {h \in Hosts : pool[h] # None /\ conn[pool[h]].phase \in Pending} IN
  Release(conn, pool, E)

\* The refs and the state of the component go with it.
Gone ==
  /\ page' = "off" /\ userDisc' = TRUE /\ timer' = None
  /\ status' = "disconnected" /\ view' = "disconnected" /\ tries' = 0
  /\ restart' = FALSE /\ debt' = 0
  /\ unlock' = "closed" /\ password' = FALSE

Unmount ==
  /\ page = "on" /\ Move
  /\ Gone /\ DisconnectPending
  /\ UNCHANGED <<shown, recovery, asking, active>>

\* Another session is opened: a terminal of its own, the wasm client already there.
Mount(h) ==
  /\ page = "off" /\ recovery = None /\ Move
  /\ page' = "loading" /\ shown' = h
  /\ userDisc' = FALSE
  /\ UNCHANGED <<link, recovery, asking, ui, wasm>>

-----------------------------------------------------------------------------
(* Certificates, passwords and their dialogs.  The resolvers are global: an *)
(* answer goes to the connection that waits now, whichever asked.          *)

Answered(from, to) ==
  conn' = [c \in Conns |-> IF conn[c].phase = from THEN [conn[c] EXCEPT !.phase = to] ELSE conn[c]]

\* The password-request and certificate-request handlers set the view, whichever
\* host's handshake asks.
PasswordRequest ==
  /\ password' = (password \/ page = "on")
  /\ IF page = "on" THEN SetStatus("authenticating") ELSE UNCHANGED <<view, restart, debt>>
  /\ UNCHANGED <<status, timer, tries>>

\* emitStatus(h, "authenticating") and the certificate-request.
CertificateRequest(h) ==
  /\ asking' = (asking \/ page = "on")
  /\ \/ ~(page = "on" /\ active # h) /\ EmitStatus(h, "authenticating")
     \/ page = "on" /\ active # h /\ SetStatus("authenticating") /\ UNCHANGED <<status, timer, tries>>

\* handleCertificateRequest got a certificate.
CertificateArrives ==
  /\ asking /\ asking' = FALSE
  /\ Answered("cert", "handshake")
  /\ UNCHANGED <<page, shown, link, userDisc, recovery, ui, pool, active, moves>>

\* The worker is dead, or the request failed: one tap to unlock.
CertificateFails ==
  /\ asking /\ asking' = FALSE
  /\ unlock' = IF page = "on" /\ unlock = "closed" THEN "open" ELSE unlock
  /\ UNCHANGED <<page, shown, link, userDisc, recovery, password, wasm, moves>>

\* handleWebAuthnAuth runs, and then succeeds or says why not.
UnlockTap ==
  /\ unlock = "open" /\ unlock' = "busy"
  /\ UNCHANGED <<page, shown, link, userDisc, recovery, asking, password, wasm, moves>>

UnlockDone ==
  /\ unlock = "busy" /\ unlock' = "closed"
  /\ Answered("cert", "handshake")
  /\ UNCHANGED <<page, shown, link, userDisc, recovery, asking, password, pool, active, moves>>

UnlockFails ==
  /\ unlock = "busy" /\ unlock' = "open" /\ Move
  /\ UNCHANGED <<page, shown, link, userDisc, recovery, asking, password, wasm>>

\* No blob of this device: the page is left for the enrolment, and wasm with it.
Provision ==
  /\ unlock = "busy" /\ Gone
  /\ recovery' = None /\ asking' = FALSE
  /\ conn' = [c \in Conns |-> Free] /\ pool' = [h \in Hosts |-> None] /\ active' = None
  /\ UNCHANGED <<shown, moves>>

\* handleWebAuthnCancel: the handshake goes on without a certificate.
UnlockCancel ==
  /\ unlock = "open" /\ unlock' = "closed"
  /\ Answered("cert", "handshake")
  /\ UNCHANGED <<page, shown, link, userDisc, recovery, asking, password, pool, active, moves>>

\* handlePasswordSubmit.
PasswordSubmit ==
  /\ password /\ password' = FALSE
  /\ Answered("password", "login") /\ SetStatus("connecting")
  /\ UNCHANGED <<page, shown, status, timer, tries, userDisc, recovery, asking, unlock, pool, active, moves>>

\* handlePasswordCancel: rejects, and disconnects the host shown.
PasswordCancel ==
  /\ password /\ password' = FALSE
  /\ userDisc' = TRUE /\ status' = "disconnected" /\ view' = "disconnected"
  /\ conn' = [c \in Conns |-> IF conn[c].phase = "password"
                              THEN At(IF c = pool[shown] THEN "failing" ELSE "refused", conn[c])
                              ELSE Without(shown)[c]]
  /\ pool' = Unpooled(shown)
  /\ active' = IF active = shown THEN None ELSE active
  /\ UNCHANGED <<page, shown, timer, tries, restart, debt, recovery, asking, unlock, moves>>

-----------------------------------------------------------------------------
(* The goroutine of a connection.                                          *)

To(c, phase) == conn' = [conn EXCEPT ![c] = At(phase, @)]
still == <<page, shown, userDisc, recovery, unlock, pool, active>>

TakeTurn(c) ==
  /\ conn[c].phase = "queued" /\ ~Busy
  /\ To(c, "dial") /\ EmitStatus(conn[c].host, "connecting")
  /\ UNCHANGED <<still, asking, password, moves>>

\* The websocket is open, or failed, or was not open after 15 s.
DialOpens(c) ==
  /\ conn[c].phase \in {"dial", "doomed"}
  /\ To(c, IF conn[c].phase = "dial" THEN "greet" ELSE "deaf")
  /\ UNCHANGED <<still, link, asking, password, moves>>

DialFails(c) ==
  /\ conn[c].phase \in {"dial", "doomed"}
  /\ To(c, IF conn[c].phase = "dial" THEN "dead" ELSE "free")
  /\ EmitStatus(conn[c].host, "error")
  /\ UNCHANGED <<still, asking, password, moves>>

\* The proxy reports the host connected; the page is asked for a certificate, even
\* by a connection that was closed meanwhile.
Greeted(c) ==
  /\ conn[c].phase \in {"greet", "deaf"}
  /\ To(c, IF conn[c].phase = "greet" THEN "cert" ELSE "free")
  /\ CertificateRequest(conn[c].host)
  /\ UNCHANGED <<still, password, moves>>

\* The proxy reports an error, or the websocket closes.
GreetFails(c) ==
  /\ conn[c].phase \in {"greet", "deaf"}
  /\ To(c, IF conn[c].phase = "greet" THEN "dead" ELSE "free")
  /\ EmitStatus(conn[c].host, "error")
  /\ UNCHANGED <<still, asking, password, moves>>

\* Nobody answered for 60 s.
CertificateTimeout(c) ==
  /\ conn[c].phase = "cert" /\ To(c, "handshake")
  /\ UNCHANGED <<still, link, asking, password, moves>>

\* There was no certificate, or sshd refused it.
AskPassword(c) ==
  /\ conn[c].phase = "handshake"
  /\ To(c, "password") /\ PasswordRequest
  /\ UNCHANGED <<still, asking, moves>>

Established(c) ==
  /\ conn[c].phase \in {"handshake", "login"}
  /\ To(c, "up") /\ EmitStatus(conn[c].host, "connected")
  /\ UNCHANGED <<still, asking, password, moves>>

HandshakeFails(c) ==
  /\ conn[c].phase \in {"handshake", "login", "refused"}
  /\ To(c, "dead") /\ EmitStatus(conn[c].host, "error")
  /\ UNCHANGED <<still, asking, password, moves>>

\* A handshake that was closed under its feet reports its failure.
FailsLate(c) ==
  /\ conn[c].phase = "failing"
  /\ To(c, "free") /\ EmitStatus(conn[c].host, "error")
  /\ UNCHANGED <<still, asking, password, moves>>

\* The Exec and the keepalive of a connection that was closed end: with an error
\* report if one of them was under way.
EndsLate(c) ==
  /\ conn[c].phase = "closing"
  /\ To(c, "free")
  /\ EmitStatus(conn[c].host, "error") \/ UNCHANGED link
  /\ UNCHANGED <<still, asking, password, moves>>

\* The keepalive or the session notices that the connection is lost.
Lost(c) ==
  /\ conn[c].phase = "up" /\ Move
  /\ To(c, "dead") /\ EmitStatus(conn[c].host, "error")
  /\ UNCHANGED <<still, asking, password>>

\* Exec cannot open its session or start the command, and says so; the connection
\* stays up.
ExecFails(c) ==
  /\ conn[c].phase = "up" /\ status = "connected" /\ conn[c].host = active
  /\ EmitStatus(conn[c].host, "error")
  /\ UNCHANGED <<still, conn, asking, password, moves>>

NoSweeper == FALSE /\ UNCHANGED vars

\* The pool sweeper's minute.
Sweep ==
  /\ \E E \in Evictions(conn, pool, active) : E # {} /\ Release(conn, pool, E)
  /\ UNCHANGED <<page, shown, link, userDisc, recovery, asking, ui, active, moves>>

-----------------------------------------------------------------------------
\* What ends by itself: the open and the certificate wait have deadlines, a closed
\* transport fails whoever reads from it, a refused password fails the login.
Bounded(c) ==
  \/ DialOpens(c) \/ DialFails(c) \/ CertificateTimeout(c) \/ FailsLate(c) \/ EndsLate(c)
  \/ (conn[c].phase = "refused" /\ HandshakeFails(c))

\* What only the proxy and the sshd can end.
Unbounded(c) ==
  \/ Greeted(c) \/ GreetFails(c) \/ AskPassword(c) \/ Established(c) \/ ExecFails(c) \/ Lost(c)
  \/ (conn[c].phase # "refused" /\ HandshakeFails(c))

Next ==
  \/ Ready \/ Connect \/ Disconnect \/ Restart \/ TimerFires \/ Recover
  \/ \E alive \in BOOLEAN : RecoverResumes(alive)
  \/ \E h \in Hosts : SwitchTo(h) \/ Mount(h)
  \/ Unmount \/ CertificateArrives \/ CertificateFails
  \/ UnlockTap \/ UnlockDone \/ UnlockFails \/ Provision \/ UnlockCancel
  \/ PasswordSubmit \/ PasswordCancel
  \/ \E c \in Conns : TakeTurn(c) \/ Bounded(c) \/ Unbounded(c)
  \/ Sweep

Spec == Init /\ [][Next]_vars

\* Timers fire and goroutines run; the user, the proxy and the sshd need do nothing.
Fairness ==
  /\ \A c \in Conns : WF_vars(TakeTurn(c)) /\ WF_vars(Bounded(c))
  /\ WF_vars(Ready) /\ WF_vars(TimerFires) /\ WF_vars(\E alive \in BOOLEAN : RecoverResumes(alive))
  /\ WF_vars(CertificateArrives \/ CertificateFails) /\ WF_vars(Sweep)

FairSpec == Spec /\ Fairness

-----------------------------------------------------------------------------
(* Properties.                                                             *)

(* At most one connection waits for the page's certificate or password: the *)
(* resolvers are global, and a second waiter would take the answer meant    *)
(* for another host, whatever was cancelled, replaced or evicted meanwhile. *)
OneWaiter == Cardinality({c \in Conns : conn[c].phase \in {"cert", "password"}}) <= 1

(* "devsesh start" runs at most once for each restart that was asked for:   *)
(* reconnects and session switches that follow attach and do not restart.  *)
RestartOnce == debt >= 0

(* Left alone, the terminal comes to rest: it is connected over a live      *)
(* connection, it has given up at the ceiling, the user stopped it, or a    *)
(* dialog asks for the user.  At "Connecting" it stays only behind a        *)
(* handshake whose far end never answers, and it reconnects forever only    *)
(* if Exec fails forever on a connection that is up: its reuse sets the     *)
(* count of attempts back to 0.                                            *)
AtRest ==
  \/ page = "off" \/ unlock # "closed" \/ password
  \/ userDisc /\ status \in {"disconnected", "error"}
  \/ status = "error" /\ tries >= MaxReconnect
  \/ status = "connected" /\ active # None /\ Up(conn, pool, active)
Unanswered ==
  /\ status \in {"connecting", "authenticating"}
  /\ \E c \in Conns : conn[c].phase \in {"greet", "deaf", "handshake", "login"}
ComesToRest ==
  \/ <>[](AtRest \/ Unanswered)
  \/ []<><<\E c \in Conns : ExecFails(c)>>_vars

(* Left alone, the pool fits its cap: handshakes that finish together may    *)
(* fill it past maxPooledConns, and the sweeper lets the idle ones go.      *)
PoolFits ==
  <>[](\/ Cardinality({h \in Hosts : pool[h] # None}) <= MaxPooled
       \/ \E c \in Conns : conn[c].phase \in Pending)

(* When the terminal goes away, no handshake keeps the connect semaphore:   *)
(* one that waits for an unlock nobody can give any more, or for an sshd    *)
(* that says nothing, lets go of it.  The one that waits in                *)
(* WaitForConnected cannot be told and keeps it.                           *)
LockReleased ==
  page = "off" ~> (page # "off" \/ \A c \in Conns : conn[c].phase \in Holding => conn[c].phase = "deaf")

(* "On unsolicited drop, try auto-reconnect the active host": the terminal  *)
(* of a session talks to no other host.                                    *)
ShownIsActive == page = "on" /\ active # None => active = shown
=============================================================================
