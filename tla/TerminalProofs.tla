--------------------------- MODULE TerminalProofs ---------------------------
(***************************************************************************)
(* The safety of Terminal for every number of hosts, connections, moves    *)
(* and reconnect attempts, and every cap of the pool.                      *)
(***************************************************************************)
EXTENDS Terminal, FiniteSetTheorems, TLAPS

Connection == [host : Hosts \cup {None}, phase : Phases]

\* connectSem has at most one holder, closed connections whose goroutine has not
\* returned included.
OneHolder(k) == \A c, d \in Conns : k[c].phase \in Holding /\ k[d].phase \in Holding => c = d

\* What the pool holds is a connection of that host that nobody has closed: closeConn
\* meets no connection twice.
Entry(k, p, h) == k[p[h]].host = h /\ k[p[h]].phase \in Pending \cup {"up", "dead"}
OwnEntries(k, p) == \A h \in Hosts : p[h] # None => Entry(k, p, h)

Good(k, p) ==
  /\ k \in [Conns -> Connection] /\ p \in [Hosts -> Conns \cup {None}]
  /\ OneHolder(k) /\ OwnEntries(k, p)

\* The hosts the page remembers between two steps are hosts.
Remembered ==
  /\ shown \in Hosts
  /\ timer \in Hosts \cup {None} /\ recovery \in Hosts \cup {None}

IInv == Good(conn, pool) /\ Remembered

USE TerminalAssumption DEF Conns

\* No connection is None.
LEMMA NoneIsNoConn == None \notin Conns
  OBVIOUS

\* The record a phase change leaves behind is a connection in that phase.
LEMMA AtPhase ==
  ASSUME NEW x \in Connection, NEW phase \in Phases
  PROVE  /\ At(phase, x) \in Connection /\ At(phase, x).phase = phase
         /\ phase # "free" => At(phase, x).host = x.host
  BY DEF Connection, At, Free, Phases, Pending

\* closeConn gives the semaphore to nobody.
LEMMA CloseGives ==
  ASSUME NEW phase \in Pending \cup {"up", "dead"}
  PROVE  AfterClose(phase) \in Phases /\ (AfterClose(phase) \in Holding => phase \in Holding)
  <1>1. CASE phase \in {"queued", "cert", "dead"}
    BY <1>1 DEF AfterClose, Phases, Holding, Pending
  <1>2. CASE phase \in {"dial", "greet"}
    BY <1>2 DEF AfterClose, Phases, Holding, Pending
  <1>3. CASE phase = "up"
    BY <1>3 DEF AfterClose, Phases, Holding, Pending
  <1>4. CASE phase \in {"handshake", "password", "login", "refused"}
    <2>1. AfterClose(phase) = "failing"
      BY <1>4 DEF AfterClose
    <2>2. QED
      BY <1>4, <2>1 DEF Phases, Holding, Pending
  <1>5. QED
    BY <1>1, <1>2, <1>3, <1>4 DEF Pending

\* Releasing pool entries keeps the pool and the semaphore in order.
LEMMA ReleaseGood ==
  ASSUME NEW k, NEW p, NEW E \in SUBSET Hosts, Good(k, p), \A h \in E : p[h] # None,
         Release(k, p, E)
  PROVE  Good(conn', pool')
  <1> USE DEF Good
  <1>1. ASSUME NEW c \in Conns, NEW h \in E, p[h] = c
        PROVE  /\ conn'[c] \in Connection
               /\ conn'[c].phase \in Holding => k[c].phase \in Holding
    <2>1. k[c].phase \in Pending \cup {"up", "dead"} /\ k[c] \in Connection
      BY <1>1 DEF OwnEntries, Entry
    <2>2. conn'[c] = At(AfterClose(k[c].phase), k[c])
      BY <1>1 DEF Release, CloseIn
    <2>3. QED
      BY <2>1, <2>2, CloseGives, AtPhase
  <1>2. ASSUME NEW c \in Conns, ~\E h \in E : p[h] = c
        PROVE  conn'[c] = k[c]
    BY <1>2 DEF Release
  <1>3. conn' \in [Conns -> Connection]
    <2>1. \A c \in Conns : conn'[c] \in Connection
      BY <1>1, <1>2
    <2>2. conn' = [c \in Conns |-> conn'[c]]
      BY DEF Release
    <2>3. QED
      BY <2>1, <2>2
  <1>4. pool' \in [Hosts -> Conns \cup {None}]
    BY DEF Release
  <1>5. OneHolder(conn')
    <2>1. \A c \in Conns : conn'[c].phase \in Holding => k[c].phase \in Holding
      BY <1>1, <1>2
    <2>2. QED
      BY <2>1 DEF OneHolder
  <1>6. OwnEntries(conn', pool')
    <2> SUFFICES ASSUME NEW h \in Hosts, pool'[h] # None PROVE Entry(conn', pool', h)
      BY DEF OwnEntries
    <2>1. pool'[h] = p[h] /\ h \notin E /\ p[h] \in Conns /\ Entry(k, p, h)
      BY DEF Release, OwnEntries
    <2>2. ~\E g \in E : p[g] = p[h]
      BY <2>1 DEF OwnEntries, Entry
    <2>3. conn'[p[h]] = k[p[h]]
      BY <1>2, <2>1, <2>2
    <2>4. QED
      BY <2>1, <2>3 DEF Entry
  <1>7. QED
    BY <1>3, <1>4, <1>5, <1>6

\* Taking one host's connection out of the pool and closing it.
Closed(k, p, h) == IF p[h] = None THEN k ELSE CloseIn(k, p[h])
Dropped(p, h) == [p EXCEPT ![h] = None]

LEMMA DropGood ==
  ASSUME NEW k, NEW p, NEW h \in Hosts, Good(k, p)
  PROVE  Good(Closed(k, p, h), Dropped(p, h))
  <1> USE DEF Good
  <1>1. Dropped(p, h) \in [Hosts -> Conns \cup {None}]
    BY DEF Dropped
  <1>2. CASE p[h] = None
    BY <1>1, <1>2 DEF Closed, Dropped, OwnEntries, Entry
  <1>3. CASE p[h] # None
    <2> DEFINE c == p[h]
               x == At(AfterClose(k[c].phase), k[c])
    <2>1. c \in Conns /\ k[c] \in Connection /\ Entry(k, p, h)
      BY <1>3 DEF OwnEntries
    <2>2. Closed(k, p, h) = [k EXCEPT ![c] = x]
      BY <1>3 DEF Closed, CloseIn
    <2>3. x \in Connection /\ (x.phase \in Holding => k[c].phase \in Holding)
      BY <2>1, CloseGives, AtPhase DEF Entry
    <2> HIDE DEF c, x
    <2>4. Closed(k, p, h) \in [Conns -> Connection]
      BY <2>1, <2>2, <2>3
    <2>5. OneHolder(Closed(k, p, h))
      BY <2>1, <2>2, <2>3 DEF OneHolder
    <2>6. OwnEntries(Closed(k, p, h), Dropped(p, h))
      BY <2>1, <2>2 DEF OwnEntries, Entry, Dropped, c
    <2>7. QED
      BY <1>1, <2>4, <2>5, <2>6
  <1>4. QED
    BY <1>2, <1>3

\* A new connection in a free place, in the pool under its host.
LEMMA QueueGood ==
  ASSUME NEW k, NEW p, NEW h \in Hosts, NEW c \in Conns, Good(k, p),
         Closed(k, p, h)[c].phase = "free"
  PROVE  Good([Closed(k, p, h) EXCEPT ![c] = [host |-> h, phase |-> "queued"]],
              [p EXCEPT ![h] = c])
  <1> DEFINE q  == [host |-> h, phase |-> "queued"]
             k1 == Closed(k, p, h)
             p1 == Dropped(p, h)
             k2 == [k1 EXCEPT ![c] = q]
             p2 == [p EXCEPT ![h] = c]
  <1>1. Good(k1, p1)
    BY DropGood
  <1>1a. /\ p1[h] = None /\ p2[h] = c
         /\ \A g \in Hosts : g # h => p1[g] = p[g] /\ p2[g] = p[g]
    BY DEF Good, Dropped
  <1>2. q \in Connection /\ q.phase \notin Holding /\ q.phase \in Pending /\ q.host = h
    BY DEF Connection, Holding, Pending, Phases
  <1>3. \A g \in Hosts : p1[g] # c
    BY <1>1, NoneIsNoConn DEF Good, OwnEntries, Entry, Pending
  <1> HIDE DEF q, k1, p1
  <1>4. k2 \in [Conns -> Connection] /\ p2 \in [Hosts -> Conns \cup {None}]
    BY <1>1, <1>2 DEF Good
  <1>5. OneHolder(k2)
    BY <1>1, <1>2 DEF Good, OneHolder
  <1>6. OwnEntries(k2, p2)
    <2> SUFFICES ASSUME NEW g \in Hosts, p2[g] # None PROVE Entry(k2, p2, g)
      BY DEF OwnEntries
    <2>1. CASE g = h
      BY <2>1, <1>1, <1>1a, <1>2 DEF Entry, Good
    <2>2. CASE g # h
      BY <2>2, <1>1, <1>1a, <1>3 DEF Entry, Good, OwnEntries
    <2>3. QED
      BY <2>1, <2>2
  <1>7. QED
    BY <1>4, <1>5, <1>6 DEF Good, q, k1

\* So does what releaseIdleConns releases.
LEMMA EvictGood ==
  ASSUME NEW k, NEW p, NEW a, Good(k, p), NEW E \in Evictions(k, p, a), Release(k, p, E)
  PROVE  Good(conn', pool')
  <1>1. E \in SUBSET Hosts /\ \A g \in E : p[g] # None
    BY DEF Evictions
  <1>2. QED
    BY <1>1, ReleaseGood

\* doConnect leaves the pool in order, whatever it reuses, replaces or evicts.
LEMMA DoConnectGood ==
  ASSUME NEW h \in Hosts, NEW k, NEW p, NEW n, NEW r, NEW d, Good(k, p),
         DoConnect(h, k, p, n, r, d)
  PROVE  Good(conn', pool')
  <1>1. CASE \E E \in Evictions(k, p, h) : Release(k, p, E)
    BY EvictGood, <1>1
  <1>2. ASSUME NEW c \in Conns, Closed(k, p, h)[c].phase = "free",
               NEW k2, k2 = [Closed(k, p, h) EXCEPT ![c] = [host |-> h, phase |-> "queued"]],
               NEW p2, p2 = [p EXCEPT ![h] = c],
               \E E \in Evictions(k2, p2, h) : Release(k2, p2, E)
        PROVE  Good(conn', pool')
    BY EvictGood, <1>2, QueueGood
  <1>3. QED
    BY <1>1, <1>2 DEF DoConnect, Closed

\* An answer from the page moves the waiting connection along.
LEMMA AnsweredGood ==
  ASSUME NEW from \in {"cert", "password"}, NEW to \in {"handshake", "password", "login"},
         Good(conn, pool), Answered(from, to)
  PROVE  Good(conn', pool)
  <1>1. conn' \in [Conns -> Connection]
    BY DEF Answered, Good, Connection, Pending, Phases
  <1>2. \A c \in Conns : /\ conn'[c].host = conn[c].host
                         /\ \/ conn'[c].phase = conn[c].phase
                            \/ conn[c].phase = from /\ conn'[c].phase = to
    BY DEF Answered, Good, Connection
  <1>3. OneHolder(conn')
    BY <1>2 DEF Good, OneHolder, Holding, Pending
  <1>4. OwnEntries(conn', pool)
    BY <1>2 DEF Good, OwnEntries, Entry, Pending
  <1>5. QED
    BY <1>1, <1>3, <1>4 DEF Good

\* One connection changes phase, and takes the semaphore only when nobody holds it.
LEMMA ToGood ==
  ASSUME NEW c \in Conns, NEW phase \in Phases, Good(conn, pool), To(c, phase),
         phase \in Holding => conn[c].phase \in Holding \/ ~Busy,
         \/ phase \in Pending \cup {"up", "dead"} /\ conn[c].phase # "free"
         \/ conn[c].phase \notin Pending \cup {"up", "dead"}
  PROVE  Good(conn', pool)
  <1> DEFINE x == At(phase, conn[c])
  <1>1. /\ x \in Connection /\ x.phase = phase /\ (phase # "free" => x.host = conn[c].host)
    BY AtPhase DEF Good
  <1>2. conn' = [conn EXCEPT ![c] = x]
    BY DEF To
  <1> HIDE DEF x
  <1>3. conn' \in [Conns -> Connection]
    BY <1>1, <1>2 DEF Good
  <1>4. OneHolder(conn')
    BY <1>1, <1>2 DEF Good, OneHolder, Busy
  <1>5. OwnEntries(conn', pool)
    BY <1>1, <1>2 DEF Good, OwnEntries, Entry, Pending
  <1>6. QED
    BY <1>3, <1>4, <1>5 DEF Good

\* handlePasswordCancel closes the connection shown and refuses any other that waits.
LEMMA PasswordCancelGood == Good(conn, pool) /\ shown \in Hosts /\ PasswordCancel => Good(conn', pool')
  <1> SUFFICES ASSUME Good(conn, pool), shown \in Hosts, PasswordCancel PROVE Good(conn', pool')
    OBVIOUS
  <1> DEFINE w == Without(shown)
  <1>1. Good(w, Unpooled(shown))
    BY DropGood DEF Without, Unpooled, Closed, Dropped
  <1>2. pool' = Unpooled(shown)
    BY DEF PasswordCancel
  <1>3. ASSUME NEW c \in Conns, conn[c].phase = "password"
        PROVE  /\ conn'[c] \in Connection /\ conn'[c].phase \in {"failing", "refused"}
               /\ conn'[c].host = conn[c].host
               /\ conn'[c].phase = "failing" => c = pool[shown]
    <2>1. conn[c] \in Connection
      BY DEF Good
    <2>2. conn'[c] = At(IF c = pool[shown] THEN "failing" ELSE "refused", conn[c])
      BY <1>3 DEF PasswordCancel
    <2>3. {"failing", "refused"} \subseteq Phases
      BY DEF Phases, Pending
    <2>4. QED
      BY <2>1, <2>2, <2>3, AtPhase
  <1>4. ASSUME NEW c \in Conns, conn[c].phase # "password"
        PROVE  conn'[c] = w[c]
    BY <1>4 DEF PasswordCancel
  <1>5. ASSUME NEW c \in Conns, w[c].phase \in Holding PROVE conn[c].phase \in Holding
    <2>1. CASE w[c] = conn[c]
      BY <1>5, <2>1
    <2>2. CASE pool[shown] = c
      <3>1. Entry(conn, pool, shown) /\ conn[c] \in Connection
        BY <2>2 DEF Good, OwnEntries
      <3>2. w[c] = At(AfterClose(conn[c].phase), conn[c])
        BY <2>2 DEF Good, Without, CloseIn
      <3>3. QED
        BY <2>2, <3>1, <3>2, <1>5, CloseGives, AtPhase DEF Entry
    <2>3. QED
      BY <2>1, <2>2 DEF Good, Without, CloseIn
  <1> HIDE DEF w
  <1>6. conn' \in [Conns -> Connection]
    <2>1. \A c \in Conns : conn'[c] \in Connection
      BY <1>1, <1>3, <1>4 DEF Good
    <2>2. conn' = [c \in Conns |-> conn'[c]]
      BY DEF PasswordCancel
    <2>3. QED
      BY <2>1, <2>2
  <1>7. OneHolder(conn')
    <2>1. \A c \in Conns : conn'[c].phase \in Holding => conn[c].phase \in Holding
      BY <1>3, <1>4, <1>5 DEF Holding, Pending
    <2>2. QED
      BY <2>1 DEF Good, OneHolder
  <1>8. OwnEntries(conn', pool')
    <2> SUFFICES ASSUME NEW h \in Hosts, pool'[h] # None PROVE Entry(conn', pool', h)
      BY DEF OwnEntries
    <2>1. h # shown /\ pool'[h] = pool[h] /\ pool[h] \in Conns /\ Entry(conn, pool, h)
      BY <1>2 DEF Good, Unpooled, OwnEntries
    <2>2. Entry(w, pool', h)
      BY <1>1, <1>2 DEF Good, OwnEntries
    <2>3. pool[h] # pool[shown]
      BY <2>1 DEF Good, OwnEntries, Entry
    <2>4. CASE conn[pool[h]].phase = "password"
      BY <1>3, <2>1, <2>3, <2>4 DEF Entry, Pending
    <2>5. CASE conn[pool[h]].phase # "password"
      BY <1>4, <2>1, <2>2, <2>5 DEF Entry
    <2>6. QED
      BY <2>4, <2>5
  <1>9. QED
    BY <1>1, <1>2, <1>6, <1>7, <1>8 DEF Good

\* The steps of the page preserve the inductive invariant.
LEMMA PageStep ==
  ASSUME IInv,
         \/ Ready \/ Connect \/ Disconnect \/ Restart \/ TimerFires \/ Recover \/ Unmount
         \/ \E alive \in BOOLEAN : RecoverResumes(alive)
         \/ \E h \in Hosts : SwitchTo(h) \/ Mount(h)
  PROVE  IInv'
  <1> USE DEF IInv, Remembered, wasm, link, ui
  <1>1. CASE Ready \/ Connect
    BY <1>1, DoConnectGood DEF Ready, Connect
  <1>2. CASE Disconnect
    <2>1. Good(Without(shown), Unpooled(shown))
      BY DropGood DEF Without, Unpooled, Closed, Dropped
    <2>2. QED
      BY <1>2, <2>1 DEF Disconnect
  <1>3. CASE Restart
    BY <1>3, DoConnectGood DEF Restart
  <1>4. CASE TimerFires
    BY <1>4, DoConnectGood DEF TimerFires
  <1>5. CASE Recover
    BY <1>5 DEF Recover
  <1>6. CASE Unmount
    BY <1>6, ReleaseGood DEF Unmount, Gone, DisconnectPending
  <1>7. ASSUME NEW alive \in BOOLEAN, RecoverResumes(alive) PROVE IInv'
    <2>1. recovery \in Hosts /\ Good(Without(recovery), Unpooled(recovery))
      BY <1>7, DropGood DEF RecoverResumes, Without, Unpooled, Closed, Dropped
    <2>2. QED
      BY <1>7, <2>1, DoConnectGood DEF RecoverResumes
  <1>8. ASSUME NEW h \in Hosts, SwitchTo(h) PROVE IInv'
    BY <1>8, DoConnectGood DEF SwitchTo
  <1>9. ASSUME NEW h \in Hosts, Mount(h) PROVE IInv'
    BY <1>9 DEF Mount
  <1>10. QED
    BY <1>1, <1>2, <1>3, <1>4, <1>5, <1>6, <1>7, <1>8, <1>9

\* The answers of the dialogs and of the certificate request preserve it.
LEMMA DialogStep ==
  ASSUME IInv,
         \/ CertificateArrives \/ CertificateFails \/ UnlockTap \/ UnlockDone \/ UnlockFails
         \/ Provision \/ UnlockCancel \/ PasswordSubmit \/ PasswordCancel
  PROVE  IInv'
  <1> USE DEF IInv, Remembered, wasm, link, ui
  <1>1. CASE CertificateArrives \/ UnlockDone \/ UnlockCancel \/ PasswordSubmit
    <2>1. Good(conn', pool)
      BY <1>1, AnsweredGood DEF CertificateArrives, UnlockDone, UnlockCancel, PasswordSubmit
    <2>2. pool' = pool /\ UNCHANGED <<shown, timer, recovery>>
      BY <1>1 DEF CertificateArrives, UnlockDone, UnlockCancel, PasswordSubmit, SetStatus
    <2>3. QED
      BY <2>1, <2>2
  <1>2. CASE CertificateFails \/ UnlockTap \/ UnlockFails
    BY <1>2 DEF CertificateFails, UnlockTap, UnlockFails
  <1>3. CASE Provision
    <2>1. Good(conn', pool')
      BY <1>3 DEF Provision, Good, OneHolder, OwnEntries, Free, Connection, Holding, Phases, Pending
    <2>2. QED
      BY <1>3, <2>1 DEF Provision, Gone
  <1>4. CASE PasswordCancel
    <2>1. UNCHANGED <<shown, timer, recovery>>
      BY <1>4 DEF PasswordCancel
    <2>2. QED
      BY <1>4, <2>1, PasswordCancelGood
  <1>5. QED
    BY <1>1, <1>2, <1>3, <1>4

\* The goroutines of the connections and the sweeper preserve it.
LEMMA WasmStep ==
  ASSUME IInv, Sweep \/ \E c \in Conns : TakeTurn(c) \/ Bounded(c) \/ Unbounded(c)
  PROVE  IInv'
  <1> USE DEF IInv, Remembered, wasm, link, ui
  <1>1. CASE Sweep
    BY <1>1, EvictGood DEF Sweep
  <1>2. ASSUME NEW c \in Conns, TakeTurn(c) \/ Bounded(c) \/ Unbounded(c)
        PROVE  IInv'
    <2>1. Good(conn', pool)
      <3> USE DEF Phases, Holding, Pending
      <3>1. CASE TakeTurn(c)
        BY <3>1, ToGood DEF TakeTurn
      <3>2. CASE DialOpens(c) \/ DialFails(c)
        BY <3>2, ToGood DEF DialOpens, DialFails
      <3>3. CASE Greeted(c) \/ GreetFails(c)
        BY <3>3, ToGood DEF Greeted, GreetFails
      <3>4. CASE CertificateTimeout(c) \/ AskPassword(c) \/ Established(c) \/ HandshakeFails(c)
        BY <3>4, ToGood DEF CertificateTimeout, AskPassword, Established, HandshakeFails
      <3>5. CASE FailsLate(c) \/ EndsLate(c) \/ Lost(c)
        BY <3>5, ToGood DEF FailsLate, EndsLate, Lost
      <3>6. CASE ExecFails(c)
        BY <3>6 DEF ExecFails
      <3>7. QED
        BY <1>2, <3>1, <3>2, <3>3, <3>4, <3>5, <3>6 DEF Bounded, Unbounded
    <2>2. UNCHANGED <<shown, recovery, pool>>
      BY <1>2 DEF TakeTurn, Bounded, Unbounded, DialOpens, DialFails, Greeted, GreetFails,
                  CertificateTimeout, AskPassword, Established, HandshakeFails, FailsLate,
                  EndsLate, ExecFails, Lost, still
    <2>3. timer' \in {timer, shown}
      BY <1>2 DEF TakeTurn, Bounded, Unbounded, DialOpens, DialFails, Greeted, GreetFails,
                  CertificateTimeout, AskPassword, Established, HandshakeFails, FailsLate,
                  EndsLate, ExecFails, Lost, EmitStatus, StatusHandler, CertificateRequest,
                  PasswordRequest
    <2>4. QED
      BY <2>1, <2>2, <2>3
  <1>3. QED
    BY <1>1, <1>2

\* The pool is in order in every reachable state: connectSem has one holder at most, and
\* an entry of the pool is a connection of its host that closeConn has not met.
THEOREM PoolInOrder == Spec => []IInv
  <1>1. Init => IInv
    BY DEF Init, IInv, Remembered, Good, OneHolder, OwnEntries, Free, Connection, Holding,
           Phases, Pending
  <1>2. IInv /\ [Next]_vars => IInv'
    <2> SUFFICES ASSUME IInv, [Next]_vars PROVE IInv'
      OBVIOUS
    <2>1. CASE UNCHANGED vars
      BY <2>1 DEF vars, IInv, Remembered
    <2>2. CASE Next
      BY <2>2, PageStep, DialogStep, WasmStep DEF Next
    <2>3. QED
      BY <2>1, <2>2
  <1>3. QED
    BY <1>1, <1>2, PTL DEF Spec

\* A set any two of whose members are equal has at most one.
LEMMA AtMostOne ==
  ASSUME NEW S, \A x, y \in S : x = y
  PROVE  Cardinality(S) <= 1
  <1>1. CASE S = {}
    BY <1>1, FS_EmptySet
  <1>2. CASE S # {}
    <2>1. PICK x : x \in S
      BY <1>2
    <2>2. S = {x}
      BY <2>1
    <2>3. Cardinality({x}) = 1
      BY FS_Singleton
    <2>4. QED
      BY <2>2, <2>3
  <1>3. QED
    BY <1>1, <1>2

\* No two connections ever wait for the page at once, so that an answer reaches the
\* connection that asked, for any number of hosts and connections.
THEOREM WaiterIsUnique == Spec => []OneWaiter
  <1>1. IInv => OneWaiter
    <2> SUFFICES ASSUME IInv PROVE OneWaiter
      OBVIOUS
    <2> DEFINE S == {c \in Conns : conn[c].phase \in {"cert", "password"}}
    <2>1. \A x, y \in S : x = y
      BY DEF IInv, Good, OneHolder, Holding, Pending
    <2>2. QED
      BY <2>1, AtMostOne DEF OneWaiter
  <1>2. QED
    BY <1>1, PoolInOrder, PTL

-----------------------------------------------------------------------------
(* Restarts.                                                               *)

\* A flag that is set stands for a restart that nobody has run.
FlagIsOwed ==
  /\ restart \in BOOLEAN /\ debt \in Int /\ debt >= 0
  /\ restart => debt >= 1

\* A command ran for the restart r, or the flag was dropped or kept.
Settles(r, d) ==
  \/ restart' = FALSE /\ (debt' = d \/ (r /\ debt' = d - 1))
  \/ restart' = r /\ debt' = d

LEMMA SettlesOwes ==
  ASSUME NEW r \in BOOLEAN, NEW d \in Int, d >= 0, r => d >= 1, Settles(r, d)
  PROVE  FlagIsOwed'
  <1>1. CASE restart' = r /\ debt' = d
    <2>1. restart' \in BOOLEAN /\ (restart' => d >= 1)
      BY <1>1, Zenon
    <2>2. QED
      BY <1>1, <2>1 DEF FlagIsOwed
  <1>2. CASE restart' = FALSE /\ (debt' = d \/ (r /\ debt' = d - 1))
    <2>1. debt' \in Int /\ debt' >= 0
      BY <1>2
    <2>2. QED
      BY <1>2, <2>1, Zenon DEF FlagIsOwed
  <1>3. QED
    BY <1>1, <1>2 DEF Settles

\* doConnect uses up at most what the flag stands for.
LEMMA DoConnectOwes ==
  ASSUME NEW h, NEW k, NEW p, NEW n, NEW r \in BOOLEAN, NEW d \in Int, d >= 0, r => d >= 1,
         DoConnect(h, k, p, n, r, d)
  PROVE  FlagIsOwed'
  <1>1. Settles(r, d)
    BY Zenon DEF DoConnect, Attach, Settles
  <1>2. QED
    BY <1>1, SettlesOwes

\* So does the status handler.
LEMMA EmitOwes ==
  ASSUME NEW h, NEW s, FlagIsOwed, EmitStatus(h, s) PROVE FlagIsOwed'
  <1>1. Settles(restart, debt)
    BY Zenon DEF EmitStatus, StatusHandler, Attach, Settles, link
  <1>2. QED
    BY <1>1, SettlesOwes DEF FlagIsOwed

\* And what the requests of a handshake do to the view.
LEMMA SetStatusOwes ==
  ASSUME NEW s, FlagIsOwed, SetStatus(s) PROVE FlagIsOwed'
  <1>1. Settles(restart, debt)
    BY Zenon DEF SetStatus, Attach, Settles
  <1>2. QED
    BY <1>1, SettlesOwes DEF FlagIsOwed

\* Every "devsesh start" was asked for: over any number of reconnects, switches and
\* remounts the page runs no more of them than there were restarts.
THEOREM RestartsAreAskedFor == Spec => []RestartOnce
  <1>1. Init => FlagIsOwed
    BY DEF Init, FlagIsOwed
  <1>2. FlagIsOwed /\ [Next]_vars => FlagIsOwed'
    <2> SUFFICES ASSUME FlagIsOwed, [Next]_vars PROVE FlagIsOwed'
      OBVIOUS
    <2>0. restart \in BOOLEAN /\ debt \in Int /\ debt >= 0 /\ (restart => debt >= 1)
      BY DEF FlagIsOwed
    <2>1. CASE UNCHANGED vars
      BY <2>1 DEF vars, FlagIsOwed
    <2>2. CASE Ready \/ Connect
      BY <2>0, <2>2, DoConnectOwes DEF Ready, Connect
    <2>3. CASE Restart
      <3>1. CASE UNCHANGED link
        BY <3>1 DEF link, FlagIsOwed
      <3>2. CASE DoConnect(shown, conn, pool, 0, TRUE, debt + 1)
        <4>1. debt + 1 \in Int /\ debt + 1 >= 1 /\ debt + 1 >= 0
          BY <2>0
        <4>2. QED
          BY <3>2, <4>1, DoConnectOwes
      <3>3. QED
        BY <2>3, <3>1, <3>2 DEF Restart
    <2>4. CASE TimerFires
      <3>1. CASE DoConnect(timer, conn, pool, tries + 1, restart, debt)
        BY <2>0, <3>1, DoConnectOwes
      <3>2. QED
        BY <2>4, <3>1 DEF TimerFires, FlagIsOwed
    <2>5. ASSUME NEW alive \in BOOLEAN, RecoverResumes(alive) PROVE FlagIsOwed'
      <3>1. CASE DoConnect(recovery, Without(recovery), Unpooled(recovery), 0, restart, debt)
        BY <2>0, <3>1, DoConnectOwes
      <3>2. QED
        BY <2>5, <3>1 DEF RecoverResumes, FlagIsOwed, link
    <2>6. ASSUME NEW h \in Hosts, SwitchTo(h) \/ Mount(h) PROVE FlagIsOwed'
      <3>1. CASE SwitchTo(h)
        BY <2>0, <3>1, DoConnectOwes DEF SwitchTo
      <3>2. CASE Mount(h)
        BY <3>2 DEF Mount, FlagIsOwed, link
      <3>3. QED
        BY <2>6, <3>1, <3>2
    <2>7. ASSUME NEW c \in Conns, TakeTurn(c) \/ Bounded(c) \/ Unbounded(c) PROVE FlagIsOwed'
      <3>1. CASE \/ TakeTurn(c) \/ DialFails(c) \/ GreetFails(c) \/ Established(c)
                 \/ HandshakeFails(c) \/ FailsLate(c) \/ EndsLate(c) \/ ExecFails(c) \/ Lost(c)
        BY <3>1, EmitOwes DEF TakeTurn, DialFails, GreetFails, Established, HandshakeFails,
           FailsLate, EndsLate, ExecFails, Lost, link, FlagIsOwed
      <3>2. CASE Greeted(c)
        BY <3>2, EmitOwes, SetStatusOwes DEF Greeted, CertificateRequest
      <3>3. CASE AskPassword(c)
        BY <3>3, SetStatusOwes DEF AskPassword, PasswordRequest, FlagIsOwed
      <3>4. CASE DialOpens(c) \/ CertificateTimeout(c)
        BY <3>4 DEF DialOpens, CertificateTimeout, link, FlagIsOwed
      <3>5. QED
        BY <2>7, <3>1, <3>2, <3>3, <3>4 DEF Bounded, Unbounded
    <2>8. CASE Disconnect \/ Recover \/ Sweep
      BY <2>8 DEF Disconnect, Recover, Sweep, FlagIsOwed, link
    <2>9. CASE \/ CertificateArrives \/ CertificateFails \/ UnlockTap \/ UnlockDone
               \/ UnlockFails \/ UnlockCancel \/ PasswordCancel
      BY <2>9 DEF CertificateArrives, CertificateFails, UnlockTap, UnlockDone, UnlockFails,
                  UnlockCancel, PasswordCancel, FlagIsOwed, link
    <2>11. CASE PasswordSubmit
      BY <2>11, SetStatusOwes DEF PasswordSubmit
    <2>12. CASE Unmount \/ Provision
      <3>1. restart' = FALSE /\ debt' = 0
        BY <2>12 DEF Unmount, Provision, Gone
      <3>2. debt' \in Int /\ debt' >= 0
        BY <3>1
      <3>3. QED
        BY <3>1, <3>2, Zenon DEF FlagIsOwed
    <2>10. QED
      BY <2>1, <2>2, <2>3, <2>4, <2>5, <2>6, <2>7, <2>8, <2>9, <2>11, <2>12 DEF Next
  <1>3. FlagIsOwed => RestartOnce
    BY DEF FlagIsOwed, RestartOnce
  <1>4. QED
    BY <1>1, <1>2, <1>3, PTL DEF Spec
=============================================================================
