---------------------------- MODULE FrostSigning ----------------------------
(***************************************************************************)
(* Threshold signing of an SSH certificate: FROSTClient in the page        *)
(* (web/src/lib/frost-client.ts), the worker that holds the client's share *)
(* (web/src/workers/frost-worker.ts, lib/crypto/frost.ts) and the server's *)
(* half (internal/ssh/ca/signing.go, session.go, websocket.go).            *)
(*                                                                         *)
(* A call is one use of the client: a certificate flow, an ensureAlive, an *)
(* unlock or a terminate.  All calls talk to the worker through the ONE    *)
(* pair pendingResolve/pendingReject, and every call has a timer of its    *)
(* own.  A timer may fire at any moment it is armed: the browser suspends  *)
(* pages and their workers, and fires what is overdue when it resumes.     *)
(***************************************************************************)
EXTENDS Naturals, Sequences, FiniteSets

CONSTANTS
  Hosts,     \* the user's hosts
  MaxFlows,  \* bound on the certificate flows
  Pings,     \* ensureAlive calls
  Unlocks,   \* initWorker calls
  Stops,     \* terminate calls
  MaxOthers, \* bound on the calls that are no flows, taken together
  None       \* no call, no host, no nonce

Flows   == 1 .. MaxFlows
Workers == {0} \cup Unlocks   \* the one of the constructor, and those the unlocks spawn
Calls == Flows \cup Pings \cup Unlocks \cup Stops

ASSUME SigningAssumption ==
  /\ MaxFlows \in Nat \ {0}
  /\ None \notin Calls \cup Hosts \cup Nat
  /\ Pings \cap (Flows \cup Unlocks \cup Stops) = {}
  /\ 0 \notin Unlocks /\ Unlocks \cap (Flows \cup Stops) = {} /\ Stops \cap Flows = {}

VARIABLES
  held,       \* this.worker, or None
  ready,      \* isInitialized
  pending,    \* the call whose resolve and reject are in the slot, or None
  promise,    \* certRequestPromise: the flow it belongs to, or None
  at,         \* what each call waits for
  ask,        \* ask[h]: the flow whose promise the terminal of h awaits, or None
  worker,     \* each worker: life, share and signingState
  inbox,      \* the messages posted to it
  outbox,     \* the answers posted by it
  adrift,     \* the workers whose handle an onerror dropped
  ws, net,    \* each flow's socket and the message travelling on it
  commit,     \* the client's commitment the server holds for each flow
  nonces,     \* how many nonce pairs the worker has drawn
  partials,   \* every partial signature the worker has computed
  issued,     \* the flows whose certificate the server signed
  spent       \* the flows whose promise was resolved

client == <<held, ready>>
thread == <<worker, inbox, outbox, adrift, nonces, partials>>
server == <<commit, issued>>
vars == <<held, ready, pending, promise, at, ask, worker, inbox, outbox, adrift,
          ws, net, commit, nonces, partials, issued, spent>>

NoSign   == [nonce |-> None, msg |-> None]
Gone     == [life |-> "gone", share |-> FALSE, sign |-> NoSign]
Spawned  == [life |-> "loading", share |-> FALSE, sign |-> NoSign]
Silent   == [to |-> "nobody", type |-> "none", body |-> None]
AtWorker == {"init", "round1", "round2", "status", "terminate"}
AtSocket == {"session", "commitment", "certificate"}

Init ==
  /\ held = 0 /\ ready = FALSE /\ pending = None /\ promise = None
  /\ at = [c \in Calls |-> "new"]
  /\ ask = [h \in Hosts |-> None]
  /\ worker = [w \in Workers |-> IF w = 0 THEN Spawned ELSE Gone] /\ adrift = {}
  /\ inbox = [w \in Workers |-> <<>>] /\ outbox = [w \in Workers |-> <<>>]
  /\ ws = [f \in Flows |-> "none"] /\ net = [f \in Flows |-> Silent]
  /\ commit = [f \in Flows |-> None]
  /\ nonces = 0 /\ partials = {} /\ issued = {} /\ spent = {}

-----------------------------------------------------------------------------
(* Talking to the worker.                                                  *)

\* The message goes into the port of the worker, dead or alive; a dead one never reads it.
Post(m) ==
  inbox' = IF worker[held].life = "gone" THEN inbox ELSE [inbox EXCEPT ![held] = Append(@, m)]

\* sendToWorker: call c takes the slot, whoever had it, and arms its timer.
SendToWorker(c, type, body) ==
  /\ held # None /\ pending' = c /\ at' = [at EXCEPT ![c] = type]
  /\ Post([type |-> type, body |-> body])

-----------------------------------------------------------------------------
(* requestCertificate and handleSigningFlow.                               *)

Settle(f, resolved) ==
  /\ promise' = IF promise = f THEN None ELSE promise
  /\ ask' = [h \in Hosts |-> IF promise = f /\ ask[h] = f THEN None ELSE ask[h]]
  /\ spent' = IF promise = f /\ resolved THEN spent \cup {f} ELSE spent

\* A flow returns or throws: its finally closes the socket.
Finish(f, resolved) ==
  /\ at' = [at EXCEPT ![f] = "done"]
  /\ ws' = [ws EXCEPT ![f] = "closed"]
  /\ Settle(f, resolved)

NewFlowAlways(h) ==
  /\ ready /\ held # None /\ ask[h] = None
  /\ \E f \in Flows :
       /\ at[f] = "new" /\ \A g \in Flows : g < f => at[g] # "new"
       /\ promise' = f /\ ask' = [ask EXCEPT ![h] = f]
       /\ at' = [at EXCEPT ![f] = "opening"]
       /\ ws' = [ws EXCEPT ![f] = "connecting"]
  /\ UNCHANGED <<client, pending, thread, net, server, spent>>

\* Throws without an effect when the client is not initialized.
RequestCertificate(h) ==
  /\ ready /\ held # None /\ ask[h] = None
  /\ \/ /\ promise # None
        /\ ask' = [ask EXCEPT ![h] = promise]
        /\ UNCHANGED <<promise, at, ws>>
     \/ /\ promise = None
        /\ \E f \in Flows :
             /\ at[f] = "new" /\ \A g \in Flows : g < f => at[g] # "new"
             /\ promise' = f /\ ask' = [ask EXCEPT ![h] = f]
             /\ at' = [at EXCEPT ![f] = "opening"]
             /\ ws' = [ws EXCEPT ![f] = "connecting"]
  /\ UNCHANGED <<client, pending, thread, net, server, spent>>

\* ws.onopen: the flow starts and asks the server for a session.
SocketOpen(f) ==
  /\ ws[f] = "connecting"
  /\ ws' = [ws EXCEPT ![f] = "open"]
  /\ at' = [at EXCEPT ![f] = "session"]
  /\ net' = [net EXCEPT ![f] = [to |-> "server", type |-> "request_cert", body |-> None]]
  /\ UNCHANGED <<client, pending, promise, ask, thread, server, spent>>

\* ws.onerror or ws.onclose: the promise is rejected; a flow that has started
\* goes on waiting, and goes on using the worker.
SocketFails(f) ==
  /\ ws[f] \in {"connecting", "open"}
  /\ ws' = [ws EXCEPT ![f] = "closed"]
  /\ at' = IF at[f] = "opening" THEN [at EXCEPT ![f] = "done"] ELSE at
  /\ Settle(f, FALSE)
  /\ UNCHANGED <<client, pending, thread, net, server>>

\* receiveWS resolves, and the flow runs up to its next await.
FlowReceive(f) ==
  /\ at[f] \in AtSocket /\ ws[f] = "open" /\ net[f].to = "client"
  /\ net' = [net EXCEPT ![f] = Silent]
  /\ \/ /\ (net[f].type # at[f] \/ (held = None /\ at[f] # "certificate"))
        /\ Finish(f, FALSE)
        /\ UNCHANGED <<pending, inbox>>
     \/ /\ net[f].type = at[f] /\ at[f] = "certificate"
        /\ Finish(f, TRUE)
        /\ UNCHANGED <<pending, inbox>>
     \/ /\ net[f].type = at[f] /\ at[f] \in {"session", "commitment"}
        /\ SendToWorker(f, IF at[f] = "session" THEN "round1" ELSE "round2", f)
        /\ UNCHANGED <<ws, promise, ask, spent>>
  /\ UNCHANGED <<client, worker, outbox, adrift, nonces, partials, server>>

\* The 30 s timer of receiveWS.
FlowTimeout(f) ==
  /\ at[f] \in AtSocket
  /\ Finish(f, FALSE)
  /\ UNCHANGED <<client, pending, thread, net, server>>

-----------------------------------------------------------------------------
(* ensureAlive, initWorker and terminate.                                  *)

\* A call that has not been made yet, within the bound.
MayCall(c) == at[c] = "new" /\ Cardinality({o \in Calls \ Flows : at[o] # "new"}) < MaxOthers

EnsureAlive(p) ==
  /\ MayCall(p) /\ ready
  /\ SendToWorker(p, "status", None)
  /\ UNCHANGED <<client, promise, ask, worker, outbox, adrift, ws, net,
                 server, nonces, partials, spent>>

\* One unlock at a time; which of the unused ones it is makes no difference.
Unlock(u) ==
  /\ \A v \in Unlocks : at[v] \in {"new", "done"}
  /\ MayCall(u) /\ u = CHOOSE v \in Unlocks : at[v] = "new"
  /\ at' = [at EXCEPT ![u] = "config"]
  /\ UNCHANGED <<client, pending, promise, ask, thread, ws, net, server, spent>>

\* getSSHCAConfig answered: initWithShare respawns a dropped worker.
UnlockSpawn(u) ==
  /\ at[u] = "config"
  /\ at' = [at EXCEPT ![u] = "decrypt"]
  /\ \/ held # None /\ UNCHANGED <<held, worker>>
     \/ held = None /\ held' = u /\ worker' = [worker EXCEPT ![u] = Spawned]
  /\ UNCHANGED <<ready, pending, promise, ask, inbox, outbox, adrift, nonces,
                 partials, ws, net, server, spent>>

UnlockInit(u) ==
  /\ at[u] = "decrypt"
  /\ SendToWorker(u, "init", None)
  /\ UNCHANGED <<client, promise, ask, worker, outbox, adrift, ws, net,
                 server, nonces, partials, spent>>

\* The configuration cannot be fetched, the share cannot be decrypted, or the
\* worker was dropped meanwhile ("Worker not spawned").
UnlockFails(u) ==
  /\ at[u] \in {"config", "decrypt"}
  /\ at' = [at EXCEPT ![u] = "done"]
  /\ UNCHANGED <<client, pending, promise, ask, thread, ws, net, server, spent>>

Terminate(s) ==
  /\ MayCall(s) /\ SendToWorker(s, "terminate", None)
  /\ UNCHANGED <<client, promise, ask, worker, outbox, adrift, ws, net,
                 server, nonces, partials, spent>>

-----------------------------------------------------------------------------
(* What each call does when its promise settles.  An answer of type "error"*)
(* rejects it, and so does its timer; rest is what stays in the outboxes.  *)

Rejection == [type |-> "error", body |-> None]

Return(c) ==
  /\ at' = [at EXCEPT ![c] = "done"]
  /\ UNCHANGED <<promise, ask, ws, net, spent>>

KeepWorker(rest) == outbox' = rest /\ UNCHANGED <<held, worker, inbox>>

DropHandleOnly(rest) ==
  /\ held' = None /\ ready' = FALSE
  /\ outbox' = rest /\ UNCHANGED <<worker, inbox>>

\* worker.terminate() ends the thread and empties its port.
DropWorker(rest) ==
  /\ held' = None /\ ready' = FALSE
  /\ worker' = [worker EXCEPT ![held] = Gone]
  /\ inbox' = [inbox EXCEPT ![held] = <<>>] /\ outbox' = [rest EXCEPT ![held] = <<>>]

\* ensureAlive takes any answer but an error for a sign of life, and drops the
\* worker it has now otherwise.
AliveReturns(p, a, rest) ==
  /\ Return(p)
  /\ \/ (a.type # "error" \/ held = None) /\ KeepWorker(rest) /\ UNCHANGED ready
     \/ a.type = "error" /\ held # None /\ DropWorker(rest)

InitReturns(u, a, rest) ==
  /\ Return(u) /\ KeepWorker(rest)
  /\ ready' = (ready \/ a.type = "ready")

\* terminate(): throws on a handle that was dropped while it waited.
TerminateReturns(s, a, rest) ==
  /\ Return(s)
  /\ \/ held # None /\ DropWorker(rest)
     \/ held = None /\ KeepWorker(rest) /\ UNCHANGED ready

\* Inside handleSigningFlow: the answer travels on, or the flow throws because it
\* is not the one it asked for.
Expected(f) == IF at[f] = "round1" THEN "commitment" ELSE "partial_sig"
RoundReturns(f, a, rest) ==
  /\ KeepWorker(rest) /\ UNCHANGED ready
  /\ \/ /\ a.type = Expected(f)
        /\ at' = [at EXCEPT ![f] = IF @ = "round1" THEN "commitment" ELSE "certificate"]
        /\ net' = [net EXCEPT ![f] = [to |-> "server", type |-> at[f], body |-> a.body]]
        /\ UNCHANGED <<promise, ask, ws, spent>>
     \/ /\ a.type # Expected(f)
        /\ Finish(f, FALSE)
        /\ UNCHANGED net

Resume(c, a, rest) ==
  /\ \/ c \in Pings /\ AliveReturns(c, a, rest)
     \/ c \in Unlocks /\ InitReturns(c, a, rest)
     \/ c \in Stops /\ TerminateReturns(c, a, rest)
     \/ c \in Flows /\ RoundReturns(c, a, rest)
  /\ UNCHANGED <<adrift, nonces, partials, server>>

\* handleWorkerMessage: the answer, of whichever worker, goes to the call in the slot;
\* without one it is lost.
HandleWorkerMessage(w) ==
  /\ outbox[w] # <<>> /\ pending' = None
  /\ LET rest == [outbox EXCEPT ![w] = Tail(@)] IN
     \/ pending # None /\ Resume(pending, Head(outbox[w]), rest)
     \/ /\ pending = None /\ outbox' = rest
        /\ UNCHANGED <<client, promise, at, ask, worker, inbox, adrift, ws, net, server,
                       nonces, partials, spent>>

OneTimer(c) ==
  /\ at[c] \in AtWorker /\ pending = c
  /\ pending' = None
  /\ Resume(c, Rejection, outbox)

\* The timer of sendToWorker empties the slot, whoever is in it.
WorkerTimeout(c) ==
  /\ at[c] \in AtWorker
  /\ pending' = None
  /\ Resume(c, Rejection, outbox)

\* worker.onerror: the handle is dropped, whichever worker failed, and nothing is
\* terminated: the worker that was held lives on, with its share and its messages.
OnError ==
  /\ held' = None /\ ready' = FALSE
  /\ adrift' = IF held = None THEN adrift ELSE adrift \cup {held}
  /\ UNCHANGED <<pending, promise, at, ask, outbox, nonces, partials, ws, net,
                 server, spent>>

\* The script of a worker cannot be loaded.
WorkerError(w) ==
  /\ worker[w].life = "loading"
  /\ worker' = [worker EXCEPT ![w] = Gone] /\ inbox' = [inbox EXCEPT ![w] = <<>>]
  /\ OnError

\* A handler of the worker throws before it answers; handleInit has cleared the state
\* by then, and may have stored the share.
HandlerThrows(w) ==
  /\ worker[w].life = "up" /\ inbox[w] # <<>>
  /\ inbox' = [inbox EXCEPT ![w] = Tail(@)]
  /\ \/ Head(inbox[w]).type # "init" /\ UNCHANGED worker
     \/ /\ Head(inbox[w]).type = "init"
        /\ \E stored \in BOOLEAN :
             worker' = [worker EXCEPT ![w].share = stored, ![w].sign = NoSign]
  /\ OnError

-----------------------------------------------------------------------------
(* The worker.                                                             *)

page == <<held, ready, pending, promise, at, ask, adrift, ws, net, spent>>

Answer(w, type, body) ==
  outbox' = [outbox EXCEPT ![w] = Append(@, [type |-> type, body |-> body])]

WorkerLoad(w) ==
  /\ worker[w].life = "loading"
  /\ worker' = [worker EXCEPT ![w].life = "up"]
  /\ UNCHANGED <<page, inbox, outbox, nonces, partials, server>>

HandleInit(w) ==
  /\ worker' = [worker EXCEPT ![w].share = TRUE, ![w].sign = NoSign]
  /\ Answer(w, "ready", None)
  /\ UNCHANGED <<nonces, partials>>

FirstNonces == IF nonces = 0 THEN 1 ELSE nonces

\* A pair of nonces nobody has drawn before; the commitment that hides it has its number.
GenerateNonces == nonces + 1

\* clientRound1: what round 2 will need, the message included.
SigningState(tbs) == [nonce |-> GenerateNonces, msg |-> tbs]

HandleRound1(w, tbs) ==
  /\ \/ ~worker[w].share /\ Answer(w, "error", None) /\ UNCHANGED <<worker, nonces>>
     \/ /\ worker[w].share
        /\ nonces' = GenerateNonces
        /\ worker' = [worker EXCEPT ![w].sign = SigningState(tbs)]
        /\ Answer(w, "commitment", GenerateNonces)
  /\ UNCHANGED partials

\* The partial signature binds the nonces and the message of the LAST round 1 to
\* the commitment of the server it is handed now.
ComputePartialSignature(w, commitment) ==
  [nonce |-> worker[w].sign.nonce, msg |-> worker[w].sign.msg, server |-> commitment]

\* clientRound2 and handleRound2 forget the nonces.
AfterRound2(w) == [worker EXCEPT ![w].sign = NoSign]

HandleRound2(w, commitment) ==
  /\ \/ worker[w].sign = NoSign /\ Answer(w, "error", None) /\ UNCHANGED <<worker, partials>>
     \/ /\ worker[w].sign # NoSign
        /\ LET p == ComputePartialSignature(w, commitment) IN
             partials' = partials \cup {p} /\ Answer(w, "partial_sig", p)
        /\ worker' = AfterRound2(w)
  /\ UNCHANGED nonces

HandleStatus(w) == Answer(w, "status", None) /\ UNCHANGED <<worker, nonces, partials>>

\* clearState, the last word, self.close().
HandleTerminate(w) ==
  /\ worker' = [worker EXCEPT ![w] = Gone] /\ Answer(w, "terminated", None)
  /\ UNCHANGED <<nonces, partials>>

WorkerReads(w) ==
  /\ worker[w].life = "up" /\ inbox[w] # <<>>
  /\ LET m == Head(inbox[w]) IN
     /\ inbox' = [inbox EXCEPT ![w] = IF m.type = "terminate" THEN <<>> ELSE Tail(@)]
     /\ \/ m.type = "init" /\ HandleInit(w)
        \/ m.type = "round1" /\ HandleRound1(w, m.body)
        \/ m.type = "round2" /\ HandleRound2(w, m.body)
        \/ m.type = "status" /\ HandleStatus(w)
        \/ m.type = "terminate" /\ HandleTerminate(w)
  /\ UNCHANGED <<page, server>>

\* The inactivity timer, armed while there is a share.
Inactivity(w) ==
  /\ worker[w].life = "up" /\ worker[w].share
  /\ HandleTerminate(w) /\ inbox' = [inbox EXCEPT ![w] = <<>>]
  /\ UNCHANGED <<page, server>>

\* The system kills the worker of a backgrounded page; nobody is told.
WorkerKilled(w) ==
  /\ worker[w].life # "gone"
  /\ worker' = [worker EXCEPT ![w] = Gone] /\ inbox' = [inbox EXCEPT ![w] = <<>>]
  /\ UNCHANGED <<page, outbox, nonces, partials, server>>

-----------------------------------------------------------------------------
(* The server: one connection per flow, its TBS data and its own nonces are *)
(* those of the flow.  A session lives 60 s: that it may have expired is a *)
(* choice of the handlers that look it up.                                 *)

browser == <<held, ready, pending, promise, at, ask, worker, inbox, outbox,
             adrift, ws, nonces, partials, spent>>

Reply(f, type) == net' = [net EXCEPT ![f] = [to |-> "client", type |-> type, body |-> None]]

\* handleRequestCert; refused for a deleted host or by the rate limiter.
HandleRequestCert(f) ==
  /\ net[f].type = "request_cert"
  /\ Reply(f, "error") \/ Reply(f, "session")
  /\ UNCHANGED server

\* UpdateSession fails, and removes the session, if its 60 s are over.
ServerRound1(f) ==
  /\ net[f].type = "round1"
  /\ Reply(f, "error") \/ Reply(f, "commitment")
  /\ commit' = [commit EXCEPT ![f] = net[f].body]
  /\ UNCHANGED issued

\* The aggregate verifies under the CA's key only if the client's share was made
\* with the nonces it had committed to, for this message and these server nonces.
Verifies(f, p) == p.nonce = commit[f] /\ p.msg = f /\ p.server = f

\* GetSession may find the session expired here too.
ServerRound2(f) ==
  /\ net[f].type = "round2"
  /\ \/ Reply(f, "error") /\ UNCHANGED issued
     \/ /\ Verifies(f, net[f].body)
        /\ issued' = issued \cup {f}
        /\ Reply(f, "certificate")
  /\ UNCHANGED commit

\* readPump hands the message over even if the page has left since.
ServerReads(f) ==
  /\ net[f].to = "server"
  /\ HandleRequestCert(f) \/ ServerRound1(f) \/ ServerRound2(f)
  /\ UNCHANGED browser

-----------------------------------------------------------------------------
FlowSteps(f) ==
  \/ SocketOpen(f) \/ SocketFails(f) \/ FlowReceive(f) \/ FlowTimeout(f)
  \/ ServerReads(f)

WorkerSteps(w) ==
  \/ HandleWorkerMessage(w) \/ WorkerError(w) \/ HandlerThrows(w)
  \/ WorkerLoad(w) \/ WorkerReads(w) \/ Inactivity(w) \/ WorkerKilled(w)

Next ==
  \/ \E h \in Hosts : RequestCertificate(h)
  \/ \E f \in Flows : FlowSteps(f)
  \/ \E p \in Pings : EnsureAlive(p)
  \/ \E u \in Unlocks : Unlock(u) \/ UnlockSpawn(u) \/ UnlockInit(u) \/ UnlockFails(u)
  \/ \E s \in Stops : Terminate(s)
  \/ \E c \in Calls : WorkerTimeout(c)
  \/ \E w \in Workers : WorkerSteps(w)

Spec == Init /\ [][Next]_vars

SocketSettles(f) == ws[f] = "connecting" /\ (SocketOpen(f) \/ SocketFails(f))

\* A browser opens or fails a connecting socket in the end, and runs the timers of a page.
Fairness ==
  /\ \A f \in Flows : WF_vars(SocketSettles(f)) /\ WF_vars(FlowTimeout(f))
  /\ \A c \in Calls : WF_vars(WorkerTimeout(c))

FairSpec == Spec /\ Fairness

-----------------------------------------------------------------------------
(* Properties.                                                             *)

(* A pair of nonces enters at most one partial signature, however flows,    *)
(* pings and timeouts interleave in the worker: two signatures with the    *)
(* same nonces would reveal the client's share ("must never be reused",    *)
(* frost.ts).                                                              *)
NonceOnce == \A p, q \in partials : p.nonce = q.nonce => p = q

(* A signature share that reaches the server verifies, unless an earlier     *)
(* flow was cut off between its rounds: the slot and the signing state are *)
(* shared by all flows, and only certRequestPromise keeps two flows from   *)
(* mixing their commitments.                                               *)
SharesVerify ==
  \A f \in Flows :
    net[f].type = "round2" =>
      \/ Verifies(f, net[f].body)
      \/ \E g \in Flows : g < f /\ ws[g] = "closed" /\ g \notin spent

(* The decrypted share is never left in a worker the client has let go of:  *)
(* a failed ping and terminate() end the worker they drop, and an unlock   *)
(* spawns a second one only where the first is dropped.  Only onerror      *)
(* leaves a worker behind, and the share in it until its inactivity timer. *)
NoOrphanShare == \A w \in Workers : worker[w].share => w = held \/ w \in adrift

\* The abstract promise: whoever waits is answered, once, with an issued certificate.
Promised == INSTANCE CertPromise WITH
  Certs <- Flows, waiting <- {h \in Hosts : ask[h] # None},
  issued <- issued, spent <- spent

(* requestCertificate keeps its promise, including that nobody waits        *)
(* forever, although an answer may go to the wrong call and a timer may     *)
(* empty the slot of another: each call's timer is its own.                *)
PromiseKept == Promised!Spec

=============================================================================
