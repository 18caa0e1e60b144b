----------------------------- MODULE SessionHub -----------------------------
(***************************************************************************)
(* The hub that fans session updates out to browsers:                      *)
(* internal/sessions/websocket.go and UpdatesHandler.                      *)
(*                                                                         *)
(* A connection has two goroutines, the handler's read loop and writePump, *)
(* and any request goroutine may broadcast.  Register, Unregister and the  *)
(* fan-out of a broadcast each hold the hub's write lock, so each is one   *)
(* step; the close of an evicted connection happens after the lock is      *)
(* released and is a step of its own.                                      *)
(***************************************************************************)
EXTENDS Integers, Sequences

CONSTANTS
  Clients,  \* websocket connections, each used once
  Users,    \* user ids
  NoUser,   \* the user of a connection that has not authenticated
  Cap,      \* capacity of a client's send channel (64)
  Updates   \* payloads a broadcast may carry

ASSUME CapAssumption == Cap \in Nat \ {0}
ASSUME NoUserAssumption == NoUser \notin Users

VARIABLES
  handler,    \* UpdatesHandler: "none", "auth" (awaits the token), "reading", "gone"
  user,       \* client.userID, once the token is validated
  registered, \* the clients in Hub.clients
  send,       \* the buffered content of client.send
  closed,     \* the clients whose send channel is closed
  evicted,    \* dropped by a broadcast, conn.Close still to come
  pump,       \* writePump: "off", "waiting" (in its select), "writing", "done"
  held,       \* the update writePump has taken from send and is writing
  conn,       \* the server's end: "none", "open", "closed"
  peer,       \* the browser's end: "up", "lost" (half open), "left" (closed it)
  wire,       \* updates the browser has received and not yet taken
  process     \* "up", or "panicked" by a misuse of a channel

vars == <<handler, user, registered, send, closed, evicted, pump, held, conn, peer, wire, process>>

Init ==
  /\ handler = [c \in Clients |-> "none"]
  /\ user = [c \in Clients |-> NoUser]
  /\ registered = {}
  /\ send = [c \in Clients |-> <<>>]
  /\ closed = {}
  /\ evicted = {}
  /\ pump = [c \in Clients |-> "off"]
  /\ held = [c \in Clients |-> <<>>]
  /\ conn = [c \in Clients |-> "none"]
  /\ peer = [c \in Clients |-> "up"]
  /\ wire = [c \in Clients |-> <<>>]
  /\ process = "up"

CloseConn(C) == conn' = [c \in Clients |-> IF c \in C THEN "closed" ELSE conn[c]]

-----------------------------------------------------------------------------
(* The handler goroutine. *)

\* The upgrade succeeds and the handler waits for the token.
Upgrade(c) ==
  /\ handler[c] = "none"
  /\ handler' = [handler EXCEPT ![c] = "auth"]
  /\ conn' = [conn EXCEPT ![c] = "open"]
  /\ UNCHANGED <<user, registered, send, closed, evicted, pump, held, peer, wire, process>>

\* No token within authWait, a read error, or a token that does not validate.
AuthFails(c) ==
  /\ handler[c] = "auth"
  /\ handler' = [handler EXCEPT ![c] = "gone"]
  /\ CloseConn({c})
  /\ UNCHANGED <<user, registered, send, closed, evicted, pump, held, peer, wire, process>>

\* The token is valid: hub.Register, go writePump, and the read loop starts.
Register(c, u) ==
  /\ handler[c] = "auth"
  /\ handler' = [handler EXCEPT ![c] = "reading"]
  /\ user' = [user EXCEPT ![c] = u]
  /\ registered' = registered \cup {c}
  /\ pump' = [pump EXCEPT ![c] = "waiting"]
  /\ UNCHANGED <<send, closed, evicted, held, conn, peer, wire, process>>

\* unregisterLocked: out of the registry, and close(send) at most once.
CloseAgain(C) ==
  /\ registered' = registered \ C
  /\ closed' = closed \cup C
  /\ process' = IF C \cap closed # {} THEN "panicked" ELSE process

KeepRegistered(C) ==
  /\ closed' = closed \cup C
  /\ UNCHANGED <<registered, process>>

UnregisterLocked(C) ==
  /\ registered' = registered \ C
  /\ closed' = closed \cup C
  /\ UNCHANGED process

\* The handler returns without its deferred Unregister.
ReturnsRegistered(c) ==
  /\ handler[c] = "reading"
  /\ conn[c] = "closed" \/ peer[c] # "up"
  /\ handler' = [handler EXCEPT ![c] = "gone"]
  /\ CloseConn({c})
  /\ UNCHANGED <<user, registered, send, closed, evicted, pump, held, peer, wire, process>>

\* ReadMessage fails: the connection was closed at either end, or nothing was
\* heard for pongWait.  The deferred calls unregister the client and close.
ReadFails(c) ==
  /\ handler[c] = "reading"
  /\ conn[c] = "closed" \/ peer[c] # "up"
  /\ handler' = [handler EXCEPT ![c] = "gone"]
  /\ UnregisterLocked({c})
  /\ CloseConn({c})
  /\ UNCHANGED <<user, send, evicted, pump, held, peer, wire>>

-----------------------------------------------------------------------------
(* Broadcast. *)

Targets(u) == {c \in registered : user[c] = u}
FullAbove(c) == Len(send[c]) > Cap
Full(c)    == Len(send[c]) >= Cap

\* The slow consumer stays and only misses the update.
SkipFull(u, m) ==
  /\ send' = [c \in Clients |->
                IF c \in Targets(u) /\ ~Full(c) THEN Append(send[c], m) ELSE send[c]]
  /\ UNCHANGED <<registered, closed, evicted, process>>

\* The fan-out: a non-blocking send to each; who cannot take it is dropped.
FanOut(u, m) ==
  LET dropped == {c \in Targets(u) : Full(c)} IN
  /\ send' = [c \in Clients |->
                IF c \in Targets(u) \ dropped THEN Append(send[c], m) ELSE send[c]]
  /\ UnregisterLocked(dropped)
  /\ evicted' = evicted \cup dropped

\* A send into a closed channel panics.
Panics(u) == Targets(u) \cap closed # {}

Broadcast(u, m) ==
  /\ process = "up"
  /\ IF Panics(u)
       THEN process' = "panicked" /\ UNCHANGED <<send, registered, closed, evicted>>
       ELSE FanOut(u, m)
  /\ UNCHANGED <<handler, user, pump, held, conn, peer, wire>>

\* conn.Close for the clients a broadcast dropped, after the lock is released.
CloseEvicted(c) ==
  /\ c \in evicted
  /\ evicted' = evicted \ {c}
  /\ CloseConn({c})
  /\ UNCHANGED <<handler, user, registered, send, closed, pump, held, peer, wire, process>>

-----------------------------------------------------------------------------
(* writePump. *)

\* The select receives an update; the write that follows may block on a slow peer.
PumpTakes(c) ==
  /\ pump[c] = "waiting"
  /\ send[c] # <<>>
  /\ pump' = [pump EXCEPT ![c] = "writing"]
  /\ held' = [held EXCEPT ![c] = <<Head(send[c])>>]
  /\ send' = [send EXCEPT ![c] = Tail(send[c])]
  /\ UNCHANGED <<handler, user, registered, closed, evicted, conn, peer, wire, process>>

\* The write reaches the browser, or appears to when the path is silently dead.
PumpWrites(c) ==
  /\ pump[c] = "writing"
  /\ conn[c] = "open"
  /\ peer[c] # "left"
  /\ pump' = [pump EXCEPT ![c] = "waiting"]
  /\ held' = [held EXCEPT ![c] = <<>>]
  /\ wire' = IF peer[c] = "up" THEN [wire EXCEPT ![c] = wire[c] \o held[c]] ELSE wire
  /\ UNCHANGED <<handler, user, registered, send, closed, evicted, conn, peer, process>>

\* The pump returns: conn.Close, deferred.
PumpStops(c) ==
  /\ pump' = [pump EXCEPT ![c] = "done"]
  /\ held' = [held EXCEPT ![c] = <<>>]
  /\ CloseConn({c})
  /\ UNCHANGED <<handler, user, registered, send, closed, evicted, peer, wire, process>>

Unreachable(c) == conn[c] = "closed" \/ peer[c] # "up"

\* The write of an update fails, or exceeds writeWait: the update is gone.
PumpWriteFails(c) == pump[c] = "writing" /\ Unreachable(c) /\ PumpStops(c)

\* The heartbeat or the ping of a tick fails.
PumpTickFails(c) == pump[c] = "waiting" /\ Unreachable(c) /\ PumpStops(c)

\* The channel is closed and drained: a close frame, then the pump returns.
PumpSaysGoodbye(c) ==
  /\ pump[c] = "waiting"
  /\ send[c] = <<>>
  /\ c \in closed
  /\ PumpStops(c)

-----------------------------------------------------------------------------
(* The network and the browser, seen from here. *)

PeerLost(c) ==
  /\ conn[c] = "open" /\ peer[c] = "up"
  /\ peer' = [peer EXCEPT ![c] = "lost"]
  /\ UNCHANGED <<handler, user, registered, send, closed, evicted, pump, held, conn, wire, process>>

PeerLeaves(c) ==
  /\ conn[c] = "open" /\ peer[c] = "up"
  /\ peer' = [peer EXCEPT ![c] = "left"]
  /\ UNCHANGED <<handler, user, registered, send, closed, evicted, pump, held, conn, wire, process>>

-----------------------------------------------------------------------------
Server(c) ==
  \/ Upgrade(c) \/ AuthFails(c) \/ (\E u \in Users : Register(c, u))
  \/ ReadFails(c) \/ CloseEvicted(c)
  \/ PumpTakes(c) \/ PumpWrites(c) \/ PumpWriteFails(c) \/ PumpTickFails(c) \/ PumpSaysGoodbye(c)

Next ==
  \/ \E c \in Clients : Server(c) \/ PeerLost(c) \/ PeerLeaves(c)
  \/ \E u \in Users, m \in Updates : Broadcast(u, m)

\* Goroutines with something to do are scheduled, deadlines expire and tickers
\* tick: the Go runtime owes each of these steps.
Fairness ==
  \A c \in Clients :
    /\ WF_vars(AuthFails(c) \/ \E u \in Users : Register(c, u))
    /\ WF_vars(ReadFails(c))
    /\ WF_vars(CloseEvicted(c))
    /\ WF_vars(PumpTakes(c))
    /\ WF_vars(PumpWrites(c) \/ PumpWriteFails(c))
    /\ WF_vars(PumpTickFails(c))
    /\ WF_vars(PumpSaysGoodbye(c))

Spec == Init /\ [][Next]_vars

-----------------------------------------------------------------------------
(* Properties. *)

\* The variables hold values of their types; no queue outgrows its channel.
TypeOK ==
  /\ handler \in [Clients -> {"none", "auth", "reading", "gone"}]
  /\ user \in [Clients -> Users \cup {NoUser}]
  /\ registered \subseteq Clients
  /\ send \in [Clients -> Seq(Updates)]
  /\ \A c \in Clients : Len(send[c]) <= Cap
  /\ closed \subseteq Clients
  /\ evicted \subseteq Clients
  /\ pump \in [Clients -> {"off", "waiting", "writing", "done"}]
  /\ held \in [Clients -> Seq(Updates)]
  /\ conn \in [Clients -> {"none", "open", "closed"}]
  /\ peer \in [Clients -> {"up", "lost", "left"}]
  /\ wire \in [Clients -> Seq(Updates)]
  /\ process \in {"up", "panicked"}

\* No interleaving of broadcasts, evictions and disconnects sends on a closed
\* channel or closes one twice ("is what makes 'send on closed channel'
\* impossible", unregisterLocked).
NoPanic == process = "up"

\* The registry holds exactly the clients whose handler runs and whose channel is
\* open: none is left behind by a disconnect, none is lost while it listens.
RegistryExact ==
  \A c \in Clients : c \in registered <=> (handler[c] = "reading" /\ c \notin closed)

\* A connection that never authenticates, is evicted, leaves or falls silent ends
\* with both its goroutines returned, the socket closed and no trace in the hub
\* ("cannot idle forever holding resources", authWait).
Doomed(c) ==
  /\ handler[c] \in {"auth", "reading"}
  /\ c \in closed \/ Unreachable(c)
Released(c) ==
  /\ handler[c] = "gone" /\ pump[c] \in {"off", "done"} /\ conn[c] = "closed"
  /\ c \notin registered /\ c \notin evicted
NoLeak == \A c \in Clients : Doomed(c) ~> Released(c)

=============================================================================
