------------------------------ MODULE SSHProxy ------------------------------
(***************************************************************************)
(* One SSH connection through the server: ProxyHandler, the per-user       *)
(* connection limit and the three goroutines of a TCPProxy                 *)
(* (internal/ssh/handler.go, internal/ssh/proxy.go).                       *)
(*                                                                         *)
(* The user's other connections run the same handler; here they are two    *)
(* counters, those admitted by CanConnect and those that hold a slot.      *)
(***************************************************************************)
EXTENDS Integers

CONSTANTS
  MaxConns,   \* SSHMaxConnections
  MaxOthers,  \* bound on the user's other connections
  MaxChunks,  \* bound on the reads of output the host produces
  MaxStalls   \* bound on the times the host's receive window fills up

ASSUME ProxyAssumption ==
  /\ MaxConns \in Nat \ {0} /\ MaxOthers \in Nat
  /\ MaxChunks \in Nat /\ MaxStalls \in Nat

Goroutines == {"up", "down", "ping"}  \* proxyWebSocketToTCP, proxyTCPToWebSocket, pingLoop
NoOne      == "nobody"

VARIABLES
  handler,   \* "none", "auth", "admitted", "dialing", "greeting", "running",
             \* "farewell", "saying" (writes the closed message), "gone"
  active,    \* ConnectionManager.activeConns of the user
  admitted,  \* other connections between CanConnect and AddConnection
  others,    \* other connections that hold a slot
  ws, tcp,   \* the server's ends: "none", "open", "closed"
  done,      \* TCPProxy.done: "open", "closed"
  pc,        \* where each goroutine is
  mu,        \* who holds TCPProxy.mu
  writeMu,   \* who holds TCPProxy.writeMu
  peer,      \* the browser: "up", "lost" (half open), "left"
  host,      \* sshd: "up", "stalled" (takes no input), "ended" (closed the connection)
  stalls,    \* times it stalled (a bound, no program state)
  out,       \* chunks of output it has sent
  took,      \* chunks read from it
  wire,      \* chunks the browser has received
  typed,     \* "late" once input was taken from the browser after the host ended
  process    \* "up", or "panicked" by a second close of done

slots == <<active, admitted, others>>
world == <<peer, host, stalls, out, wire, typed>>
locks == <<mu, writeMu>>
vars  == <<handler, active, admitted, others, ws, tcp, done, pc, mu, writeMu,
           peer, host, stalls, out, took, wire, typed, process>>

Init ==
  /\ handler = "none"
  /\ active = 0 /\ admitted = 0 /\ others = 0
  /\ ws = "none" /\ tcp = "none" /\ done = "open"
  /\ pc = [g \in Goroutines |-> "off"]
  /\ mu = NoOne /\ writeMu = NoOne
  /\ peer = "up" /\ host = "up" /\ stalls = 0
  /\ out = 0 /\ took = 0 /\ wire = 0
  /\ typed = "no"
  /\ process = "up"

-----------------------------------------------------------------------------
(* The connection limit. *)

\* The limit compared one too late.
CanConnectPastLimit == active <= MaxConns

CanConnect == active < MaxConns
Removed    == IF active > 0 THEN active - 1 ELSE active   \* RemoveConnection

OtherAdmitted ==
  /\ admitted + others < MaxOthers
  /\ CanConnect
  /\ admitted' = admitted + 1
  /\ UNCHANGED <<handler, active, others, ws, tcp, done, pc, locks, took, world, process>>

OtherAdds ==
  /\ admitted > 0
  /\ admitted' = admitted - 1 /\ others' = others + 1
  /\ active' = active + 1
  /\ UNCHANGED <<handler, ws, tcp, done, pc, locks, took, world, process>>

OtherLeaves ==
  /\ others > 0
  /\ others' = others - 1
  /\ active' = Removed
  /\ UNCHANGED <<handler, admitted, ws, tcp, done, pc, locks, took, world, process>>

-----------------------------------------------------------------------------
(* ProxyHandler. *)

\* The host exists and the upgrade succeeds.
Upgrade ==
  /\ handler = "none"
  /\ handler' = "auth" /\ ws' = "open"
  /\ UNCHANGED <<slots, tcp, done, pc, locks, took, world, process>>

\* No token within 10 s, an invalid one, another user's host, or no free slot.
Refuse ==
  /\ handler = "auth"
  /\ handler' = "gone" /\ ws' = "closed"
  /\ UNCHANGED <<slots, tcp, done, pc, locks, took, world, process>>

Admit ==
  /\ handler = "auth"
  /\ CanConnect
  /\ handler' = "admitted"
  /\ UNCHANGED <<slots, ws, tcp, done, pc, locks, took, world, process>>

AddConnection ==
  /\ handler = "admitted"
  /\ handler' = "dialing"
  /\ active' = active + 1
  /\ UNCHANGED <<admitted, others, ws, tcp, done, pc, locks, took, world, process>>

Dial ==
  /\ handler = "dialing"
  /\ host # "ended"
  /\ handler' = "greeting" /\ tcp' = "open"
  /\ UNCHANGED <<slots, ws, done, pc, locks, took, world, process>>

\* The deferred calls of an early return that never takes the slot back.
LeaveKeepsSlot ==
  /\ handler' = "gone"
  /\ ws' = "closed"
  /\ tcp' = IF tcp = "open" THEN "closed" ELSE tcp
  /\ UNCHANGED active

\* The handler returns: tcpConn.Close, RemoveConnection, wsConn.Close.
Leave ==
  /\ handler' = "gone"
  /\ ws' = "closed"
  /\ tcp' = IF tcp = "open" THEN "closed" ELSE tcp
  /\ active' = Removed

\* The dial fails or exceeds SSHTimeout.
DialFails ==
  /\ handler = "dialing"
  /\ Leave
  /\ UNCHANGED <<admitted, others, done, pc, locks, took, world, process>>

\* The connected message is written and TCPProxy.Run starts its goroutines.
Run ==
  /\ handler = "greeting"
  /\ peer # "left"
  /\ handler' = "running"
  /\ pc' = [g \in Goroutines |-> "loop"]
  /\ UNCHANGED <<slots, ws, tcp, done, locks, took, world, process>>

GreetFails ==
  /\ handler = "greeting"
  /\ peer # "up"
  /\ Leave
  /\ UNCHANGED <<admitted, others, done, pc, locks, took, world, process>>

RunReturns ==
  /\ handler = "running"
  /\ done = "closed"
  /\ handler' = "farewell"
  /\ UNCHANGED <<slots, ws, tcp, done, pc, locks, took, world, process>>

\* A closed message written without the write mutex.
SayUnlocked ==
  /\ handler = "farewell"
  /\ handler' = "saying"
  /\ UNCHANGED <<slots, ws, tcp, done, pc, locks, took, world, process>>

\* sendControlMessage takes the write mutex ...
SayClosed ==
  /\ handler = "farewell"
  /\ writeMu = NoOne
  /\ handler' = "saying" /\ writeMu' = "handler"
  /\ UNCHANGED <<slots, ws, tcp, done, pc, mu, took, world, process>>

\* ... and its write succeeds or fails; the handler returns either way.
Farewell ==
  /\ handler = "saying"
  /\ writeMu' = NoOne
  /\ Leave
  /\ UNCHANGED <<admitted, others, done, pc, mu, took, world, process>>

-----------------------------------------------------------------------------
(* Steps the three goroutines share. *)

At(g, stage)  == pc[g] = stage
To(g, stage)  == pc' = [pc EXCEPT ![g] = stage]
WsBroken      == ws = "closed" \/ peer # "up"

\* done is found closed at the top of the loop; pingLoop returns, the others
\* call cleanup first.
SeesDone(g) ==
  /\ At(g, "loop")
  /\ done = "closed"
  /\ To(g, IF g = "ping" THEN "returned" ELSE "cleanup")
  /\ UNCHANGED <<handler, slots, ws, tcp, done, locks, took, world, process>>

LockForWrite(g) ==
  /\ At(g, "locking")
  /\ writeMu = NoOne
  /\ To(g, "writing") /\ writeMu' = g
  /\ UNCHANGED <<handler, slots, ws, tcp, done, mu, took, world, process>>

\* The frame reaches the browser, or the void if the path is dead.
WriteWs(g) ==
  /\ At(g, "writing")
  /\ ws = "open" /\ peer # "left"
  /\ To(g, "loop") /\ writeMu' = NoOne
  /\ wire' = IF g = "down" /\ peer = "up" THEN wire + 1 ELSE wire
  /\ UNCHANGED <<handler, slots, ws, tcp, done, mu, took, peer, host, stalls, out, typed, process>>

\* A return on the write's error before the mutex is unlocked.
WriteFailsLocked(g) ==
  /\ At(g, "writing")
  /\ WsBroken
  /\ To(g, "cleanup")
  /\ UNCHANGED <<handler, slots, ws, tcp, done, locks, took, world, process>>

\* The connection is closed, or the write exceeds writeTimeout.
WriteWsFails(g) ==
  /\ At(g, "writing")
  /\ WsBroken
  /\ To(g, "cleanup") /\ writeMu' = NoOne
  /\ UNCHANGED <<handler, slots, ws, tcp, done, mu, took, world, process>>

\* cleanup without p.mu.
EnterUnlocked(g) ==
  /\ At(g, "cleanup")
  /\ To(g, "checking")
  /\ UNCHANGED <<handler, slots, ws, tcp, done, locks, took, world, process>>

\* cleanup: p.mu.Lock ...
EnterCleanup(g) ==
  /\ At(g, "cleanup")
  /\ mu = NoOne
  /\ To(g, "checking") /\ mu' = g
  /\ UNCHANGED <<handler, slots, ws, tcp, done, writeMu, took, world, process>>

\* ... the select: whoever comes second returns ...
CheckDone(g) ==
  /\ At(g, "checking")
  /\ IF done = "closed"
       THEN To(g, "returned") /\ mu' = NoOne
       ELSE To(g, "closing") /\ UNCHANGED mu
  /\ UNCHANGED <<handler, slots, ws, tcp, done, writeMu, took, world, process>>

\* ... close(done), which panics when it is closed already ...
CloseDone(g) ==
  /\ At(g, "closing")
  /\ To(g, "shutting")
  /\ done' = "closed"
  /\ process' = IF done = "closed" THEN "panicked" ELSE process
  /\ UNCHANGED <<handler, slots, ws, tcp, locks, took, world>>

\* ... tcp.Close and ws.Close, which unblock the other goroutines.
CloseBoth(g) ==
  /\ At(g, "shutting")
  /\ ws' = "closed" /\ tcp' = "closed"
  /\ To(g, "returned") /\ mu' = NoOne
  /\ UNCHANGED <<handler, slots, done, writeMu, took, world, process>>

-----------------------------------------------------------------------------
(* proxyWebSocketToTCP *)

\* Input from the browser; text messages are skipped.
UpReads ==
  /\ At("up", "loop")
  /\ ws = "open" /\ peer = "up"
  /\ To("up", "sending")
  /\ typed' = IF host = "ended" THEN "late" ELSE typed
  /\ UNCHANGED <<handler, slots, ws, tcp, done, locks, took, peer, host, stalls, out, wire, process>>

\* The connection was closed, or no pong came within pongWait.
UpReadFails ==
  /\ At("up", "loop")
  /\ WsBroken
  /\ To("up", "cleanup")
  /\ UNCHANGED <<handler, slots, ws, tcp, done, locks, took, world, process>>

\* tcp.Write has no deadline: it waits while the host is stalled.
UpWrites ==
  /\ At("up", "sending")
  /\ tcp = "open" /\ host = "up"
  /\ To("up", "loop")
  /\ UNCHANGED <<handler, slots, ws, tcp, done, locks, took, world, process>>

UpWriteFails ==
  /\ At("up", "sending")
  /\ tcp = "closed" \/ host = "ended"
  /\ To("up", "cleanup")
  /\ typed' = IF host = "ended" THEN "late" ELSE typed
  /\ UNCHANGED <<handler, slots, ws, tcp, done, locks, took, peer, host, stalls, out, wire, process>>

-----------------------------------------------------------------------------
(* proxyTCPToWebSocket *)

\* The buffer is sent again after a read that returned nothing.
DownResends ==
  /\ At("down", "loop")
  /\ tcp = "open" /\ took <= out
  /\ To("down", "locking")
  /\ took' = took + 1
  /\ UNCHANGED <<handler, slots, ws, tcp, done, locks, world, process>>

\* tcp.Read has no deadline: it waits for output.
DownReads ==
  /\ At("down", "loop")
  /\ tcp = "open" /\ took < out
  /\ To("down", "locking")
  /\ took' = took + 1
  /\ UNCHANGED <<handler, slots, ws, tcp, done, locks, world, process>>

\* A read that returned data together with the end of the stream is thrown away.
DownDropsLast ==
  /\ At("down", "loop")
  /\ tcp = "closed" \/ (host = "ended" /\ took + 1 >= out)
  /\ To("down", "cleanup")
  /\ UNCHANGED <<handler, slots, ws, tcp, done, locks, took, world, process>>

\* The socket was closed here, or the host closed it and everything was read.
DownReadFails ==
  /\ At("down", "loop")
  /\ tcp = "closed" \/ (host = "ended" /\ took = out)
  /\ To("down", "cleanup")
  /\ UNCHANGED <<handler, slots, ws, tcp, done, locks, took, world, process>>

-----------------------------------------------------------------------------
(* pingLoop *)

PingTicks ==
  /\ At("ping", "loop")
  /\ To("ping", "locking")
  /\ UNCHANGED <<handler, slots, ws, tcp, done, locks, took, world, process>>

-----------------------------------------------------------------------------
(* The browser, the network and the host. *)

PeerGoes ==
  /\ ws = "open" /\ peer = "up"
  /\ peer' \in {"lost", "left"}
  /\ UNCHANGED <<handler, slots, ws, tcp, done, pc, locks, host, stalls, out, took, wire, typed, process>>

HostActs ==
  /\ tcp = "open"
  /\ \/ host = "up" /\ out < MaxChunks /\ out' = out + 1 /\ UNCHANGED <<host, stalls>>
     \/ host = "up" /\ stalls < MaxStalls /\ host' = "stalled" /\ stalls' = stalls + 1 /\ UNCHANGED out
     \/ host = "stalled" /\ host' = "up" /\ UNCHANGED <<stalls, out>>
     \/ host # "ended" /\ host' = "ended" /\ UNCHANGED <<stalls, out>>
  /\ UNCHANGED <<handler, slots, ws, tcp, done, pc, locks, peer, took, wire, typed, process>>

-----------------------------------------------------------------------------
Serve ==
  \/ Refuse \/ Admit \/ AddConnection \/ Dial \/ DialFails \/ Run \/ GreetFails
  \/ RunReturns \/ Farewell

UpStep   == UpReadFails \/ UpWrites \/ UpWriteFails
DownStep == DownReads \/ DownReadFails

Step(g) ==
  \/ SeesDone(g) \/ WriteWs(g) \/ WriteWsFails(g)
  \/ EnterCleanup(g) \/ CheckDone(g) \/ CloseDone(g) \/ CloseBoth(g)

Next ==
  \/ OtherAdmitted \/ OtherAdds \/ OtherLeaves
  \/ Upgrade \/ Serve \/ SayClosed
  \/ UpReads \/ UpStep \/ DownStep \/ PingTicks
  \/ \E g \in Goroutines : Step(g) \/ LockForWrite(g)
  \/ PeerGoes \/ HostActs

\* Goroutines that can run do; read and write deadlines and the dial's timeout
\* expire; the ticker ticks.  The pings do not keep the output from the write mutex
\* for good (sync.Mutex starves nobody), and pings into a dead path fail in the
\* end, when the kernel gives up.
Fairness ==
  /\ WF_vars(Serve \/ SayClosed)
  /\ WF_vars(UpStep \/ Step("up"))
  /\ WF_vars(DownStep \/ Step("down")) /\ SF_vars(LockForWrite("down"))
  /\ WF_vars(PingTicks \/ LockForWrite("ping") \/ Step("ping")) /\ SF_vars(WriteWsFails("ping"))

Spec == Init /\ [][Next]_vars

-----------------------------------------------------------------------------
(* Properties. *)

Handlers == {"none", "auth", "admitted", "dialing", "greeting", "running", "farewell", "saying", "gone"}
Stages   == {"off", "loop", "sending", "locking", "writing", "cleanup",
             "checking", "closing", "shutting", "returned"}

\* The variables hold values of their types; no output is made up on the way.
TypeOK ==
  /\ handler \in Handlers
  /\ active \in Nat /\ admitted \in Nat /\ others \in Nat
  /\ ws \in {"none", "open", "closed"} /\ tcp \in {"none", "open", "closed"}
  /\ done \in {"open", "closed"}
  /\ pc \in [Goroutines -> Stages]
  /\ mu \in Goroutines \cup {NoOne}
  /\ writeMu \in Goroutines \cup {NoOne, "handler"}
  /\ peer \in {"up", "lost", "left"} /\ host \in {"up", "stalled", "ended"}
  /\ stalls \in Nat /\ out \in Nat /\ took \in Nat /\ wire \in Nat
  /\ took <= out /\ wire <= took
  /\ typed \in {"no", "late"}
  /\ process \in {"up", "panicked"}

\* The count is the number of connections that hold a slot: no return path of the
\* handler keeps one or gives one back twice (TestConnectionSlotsAreReleased).
HoldsSlot == handler \in {"dialing", "greeting", "running", "farewell", "saying"}
SlotsExact == active = others + (IF HoldsSlot THEN 1 ELSE 0)

\* No two goroutines write to the websocket at the same time: neither the output,
\* the pings nor the handler's last message ("gorilla panics on a concurrent
\* write to the same connection").
Writers == {g \in {"down", "ping"} : pc[g] = "writing"}
             \cup (IF handler = "saying" THEN {"handler"} ELSE {})
OneWriter == \A g, h \in Writers : g = h

\* done is closed once, however many goroutines find out about the end.
NoPanic == process = "up"

\* When either side goes away, the handler returns, all three goroutines do, both
\* sockets are closed and no lock stays held, even if the host takes no input
\* and the browser has fallen silent.
Ending == handler \notin {"none", "gone"} /\ (peer # "up" \/ host = "ended")
Released ==
  /\ handler = "gone"
  /\ ws = "closed" /\ tcp # "open"
  /\ \A g \in Goroutines : pc[g] \in {"off", "returned"}
  /\ mu = NoOne /\ writeMu = NoOne
ProxyReleased == Ending ~> Released

\* All the host wrote before it closed the connection reaches a browser that stays
\* and types nothing more.
OutputComplete ==
  (handler = "running" /\ host = "ended" /\ peer = "up" /\ typed = "no")
    ~> (wire = out \/ peer # "up" \/ typed = "late")

=============================================================================
