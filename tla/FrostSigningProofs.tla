------------------------- MODULE FrostSigningProofs -------------------------
(***************************************************************************)
(* Proofs about FrostSigning, for any hosts, flows, probes, unlocks and     *)
(* locks: nonces are used once, only onerror orphans a share, the client does *)
(* nothing that CertPromise does not allow, and a share sent to the server  *)
(* verifies unless an earlier flow was cut off.                            *)
(***************************************************************************)
EXTENDS FrostSigning, TLAPS

-----------------------------------------------------------------------------
(* The workers: one lives only while the client holds it or after an        *)
(* onerror, and what it signs with next has signed nothing yet, nor is it  *)
(* what another worker signs with.                                         *)

Shape ==
  /\ DOMAIN worker = Workers
  /\ \A w \in Workers : DOMAIN worker[w] = {"life", "share", "sign"}

LifeInv ==
  /\ held \in Workers \cup {None}
  /\ \A w \in Workers : worker[w].life # "gone" => w = held \/ w \in adrift
  /\ \A w \in Workers : worker[w].share => worker[w].life # "gone"

Fresh ==
  /\ nonces \in Nat
  /\ \A p \in partials : p.nonce \in 1 .. nonces
  /\ \A w \in Workers : worker[w].sign # NoSign =>
       /\ worker[w].sign.nonce \in 1 .. nonces
       /\ \A p \in partials : p.nonce # worker[w].sign.nonce
       /\ \A v \in Workers \ {w} : worker[v].sign # NoSign =>
            worker[v].sign.nonce # worker[w].sign.nonce

WorkerInv == Shape /\ LifeInv /\ Fresh /\ NonceOnce

LEMMA WorkerInit == Init => WorkerInv
<1> SUFFICES ASSUME Init PROVE WorkerInv
  OBVIOUS
<1>1. \A w \in Workers : (worker[w] = Spawned /\ w = 0) \/ worker[w] = Gone
  BY DEF Init
<1>2. Shape
  BY <1>1 DEF Init, Shape, Spawned, Gone
<1>3. LifeInv
  BY <1>1 DEF Init, LifeInv, Spawned, Gone, Workers
<1>4. Fresh /\ NonceOnce
  BY <1>1 DEF Init, Fresh, NonceOnce, Spawned, Gone
<1> QED
  BY <1>2, <1>3, <1>4 DEF WorkerInv

\* What becomes of the workers when none draws nonces or signs.
Idles ==
  /\ DOMAIN worker' = Workers
  /\ \A w \in Workers :
       /\ DOMAIN worker'[w] = {"life", "share", "sign"}
       /\ worker'[w].sign \in {worker[w].sign, NoSign}
  /\ UNCHANGED <<nonces, partials>>

LEMMA IdlesKeep ==
  ASSUME WorkerInv, Idles, LifeInv'
  PROVE  WorkerInv'
<1>1. Shape'
  BY DEF Idles, Shape
<1>2. Fresh'
  BY DEF Idles, WorkerInv, Fresh
<1>3. NonceOnce'
  BY DEF Idles, WorkerInv, NonceOnce
<1> QED
  BY <1>1, <1>2, <1>3 DEF WorkerInv

LEMMA WorkersApart == None \notin Workers /\ Unlocks \subseteq Workers /\ 0 \in Workers
  BY SigningAssumption DEF Workers, Calls

\* The steps that leave the workers alone.
LEMMA WorkerKept ==
  ASSUME WorkerInv, UNCHANGED <<nonces, partials, worker, held, adrift>>
  PROVE  WorkerInv'
<1>1. Idles
  BY DEF Idles, WorkerInv, Shape
<1>2. LifeInv'
  BY DEF WorkerInv, LifeInv
<1> QED
  BY <1>1, <1>2, IdlesKeep

\* The steps that end one, with or without its handle.
LEMMA WorkerEnds ==
  ASSUME WorkerInv, NEW w \in Workers, UNCHANGED <<nonces, partials, adrift>>,
         worker' = [worker EXCEPT ![w] = Gone], held' = held \/ (held = w /\ held' = None)
  PROVE  WorkerInv'
<1>0. \A v \in Workers : worker'[v] = IF v = w THEN Gone ELSE worker[v]
  BY DEF WorkerInv, Shape
<1>1. Idles
  BY <1>0 DEF Idles, WorkerInv, Shape, Gone
<1>2. LifeInv'
  BY <1>0 DEF WorkerInv, LifeInv, Gone
<1> QED
  BY <1>1, <1>2, IdlesKeep

\* An unlock spawns one.
LEMMA WorkerSpawned ==
  ASSUME WorkerInv, NEW u \in Unlocks, UNCHANGED <<nonces, partials, adrift>>,
         held = None, held' = u, worker' = [worker EXCEPT ![u] = Spawned]
  PROVE  WorkerInv'
<1>0. \A v \in Workers : worker'[v] = IF v = u THEN Spawned ELSE worker[v]
  BY WorkersApart DEF WorkerInv, Shape
<1>1. Idles
  BY <1>0 DEF Idles, WorkerInv, Shape, Spawned
<1>2. LifeInv'
  BY <1>0, WorkersApart DEF WorkerInv, LifeInv, Spawned
<1> QED
  BY <1>1, <1>2, IdlesKeep

\* The two errors that reach onerror.
LEMMA ErrorKeeps ==
  ASSUME WorkerInv, NEW w \in Workers, WorkerError(w) \/ HandlerThrows(w)
  PROVE  WorkerInv' /\ Idles
<1>1. /\ UNCHANGED <<nonces, partials>> /\ held' = None
      /\ adrift' = IF held = None THEN adrift ELSE adrift \cup {held}
  BY DEF WorkerError, HandlerThrows, OnError
<1> DEFINE Stays(v) == worker'[v] = worker[v] \/ worker'[v] = Gone
           Cleared(v) == /\ worker[v].life = "up" /\ worker'[v].life = "up" /\ worker'[v].sign = NoSign
                         /\ DOMAIN worker'[v] = {"life", "share", "sign"}
<1>2. DOMAIN worker' = Workers /\ \A v \in Workers : Stays(v) \/ Cleared(v)
  <2>1. CASE WorkerError(w)
    BY <2>1 DEF WorkerError, WorkerInv, Shape
  <2>2. CASE HandlerThrows(w) /\ UNCHANGED worker
    BY <2>2 DEF WorkerInv, Shape
  <2>3. ASSUME NEW b \in BOOLEAN, worker[w].life = "up",
               worker' = [worker EXCEPT ![w].share = b, ![w].sign = NoSign]
        PROVE  DOMAIN worker' = Workers /\ \A v \in Workers : Stays(v) \/ Cleared(v)
    <3>1. DOMAIN worker = Workers /\ DOMAIN worker[w] = {"life", "share", "sign"}
      BY DEF WorkerInv, Shape
    <3>2. worker' = [worker EXCEPT ![w] = [@ EXCEPT !.share = b, !.sign = NoSign]]
      BY <2>3
    <3>3. /\ DOMAIN worker' = Workers /\ \A v \in Workers : v # w => worker'[v] = worker[v]
          /\ worker'[w] = [worker[w] EXCEPT !.share = b, !.sign = NoSign]
      BY <3>1, <3>2
    <3>4. Cleared(w)
      BY <2>3, <3>1, <3>3
    <3> QED
      BY <3>3, <3>4
  <2> QED
    BY <2>1, <2>2, <2>3 DEF HandlerThrows
<1>3. Idles
  BY <1>1, <1>2 DEF Idles, WorkerInv, Shape, Gone
<1>4. LifeInv'
  <2> SUFFICES ASSUME NEW v \in Workers
               PROVE  /\ worker'[v].life # "gone" => v \in adrift'
                      /\ worker'[v].share => worker'[v].life # "gone"
    BY <1>1 DEF LifeInv
  <2>2. worker'[v].life # "gone" => worker[v].life # "gone"
    BY <1>2 DEF Gone
  <2>3. worker'[v].share => worker'[v].life # "gone"
    BY <1>2 DEF Gone, WorkerInv, LifeInv
  <2> QED
    BY <1>1, <2>2, <2>3, WorkersApart DEF WorkerInv, LifeInv
<1> QED
  BY <1>3, <1>4, IdlesKeep

\* What a call does with the workers when its promise settles.
LEMMA ResumeWorker ==
  ASSUME LifeInv, NEW c, NEW answer, NEW rest, Resume(c, answer, rest)
  PROVE  /\ UNCHANGED <<nonces, partials, adrift>>
         /\ \/ UNCHANGED <<worker, held, inbox>> /\ outbox' = rest
            \/ /\ held \in Workers /\ held' = None /\ worker' = [worker EXCEPT ![held] = Gone]
               /\ inbox' = [inbox EXCEPT ![held] = <<>>] /\ outbox' = [rest EXCEPT ![held] = <<>>]
<1>1. UNCHANGED <<nonces, partials, adrift>>
  BY DEF Resume
<1>2. KeepWorker(rest) \/ (held # None /\ DropWorker(rest))
  BY DEF Resume, AliveReturns, InitReturns, TerminateReturns, RoundReturns
<1> QED
  BY <1>1, <1>2 DEF KeepWorker, DropWorker, LifeInv

LEMMA ResumeKeeps ==
  ASSUME WorkerInv, NEW c, NEW answer, NEW rest, Resume(c, answer, rest)
  PROVE  WorkerInv'
  BY ResumeWorker, WorkerKept, WorkerEnds DEF WorkerInv

\* The worker's handlers of its messages.
LEMMA ReadsKeep ==
  ASSUME WorkerInv, NEW w \in Workers, WorkerReads(w)
  PROVE  WorkerInv'
<1> DEFINE m == Head(inbox[w])
<1>1. UNCHANGED <<held, adrift>> /\ worker[w].life = "up"
  BY DEF WorkerReads, page
<1>s. DOMAIN worker = Workers /\ DOMAIN worker[w] = {"life", "share", "sign"}
  BY DEF WorkerInv, Shape
<1>2. CASE HandleInit(w)
  <2>1. \A v \in Workers : IF v = w THEN worker'[v] = [worker[v] EXCEPT !.share = TRUE, !.sign = NoSign]
                                    ELSE worker'[v] = worker[v]
    BY <1>2, <1>s DEF HandleInit
  <2>2. DOMAIN worker'[w] = {"life", "share", "sign"} /\ worker'[w].sign = NoSign /\ worker'[w].life = "up"
    BY <1>1, <1>s, <2>1
  <2>3. Idles
    BY <1>2, <2>1, <2>2 DEF HandleInit, Idles, WorkerInv, Shape
  <2>4. LifeInv'
    BY <1>1, <2>1, <2>2 DEF WorkerInv, LifeInv
  <2> QED
    BY <2>3, <2>4, IdlesKeep
<1>3. CASE HandleRound1(w, m.body)
  <2>1. CASE UNCHANGED <<worker, nonces, partials>>
    BY <1>1, <2>1, WorkerKept
  <2>2. CASE /\ nonces' = nonces + 1 /\ partials' = partials
             /\ worker' = [worker EXCEPT ![w].sign = [nonce |-> nonces + 1, msg |-> m.body]]
    <3>1. /\ \A v \in Workers : v # w => worker'[v] = worker[v]
          /\ worker'[w] = [worker[w] EXCEPT !.sign = [nonce |-> nonces + 1, msg |-> m.body]]
          /\ DOMAIN worker' = Workers
      BY <1>s, <2>2
    <3>2. /\ DOMAIN worker'[w] = {"life", "share", "sign"} /\ worker'[w].sign.nonce = nonces + 1
          /\ worker'[w].life = worker[w].life /\ worker'[w].share = worker[w].share
      BY <1>s, <3>1
    <3>3. Shape'
      BY <3>1, <3>2 DEF WorkerInv, Shape
    <3>4. LifeInv'
      BY <1>1, <3>1, <3>2 DEF WorkerInv, LifeInv
    <3>5. Fresh'
      BY <2>2, <3>1, <3>2 DEF WorkerInv, Fresh
    <3> QED
      BY <2>2, <3>3, <3>4, <3>5 DEF WorkerInv, NonceOnce
  <2> QED
    BY <1>3, <2>1, <2>2 DEF HandleRound1, SigningState, GenerateNonces
<1>4. CASE HandleRound2(w, m.body)
  <2>1. CASE UNCHANGED <<worker, nonces, partials>>
    BY <1>1, <2>1, WorkerKept
  <2>2. CASE /\ worker[w].sign # NoSign
             /\ partials' = partials \cup {ComputePartialSignature(w, m.body)}
             /\ worker' = AfterRound2(w) /\ nonces' = nonces
    <3>0. /\ \A v \in Workers : v # w => worker'[v] = worker[v]
          /\ worker'[w] = [worker[w] EXCEPT !.sign = NoSign] /\ DOMAIN worker' = Workers
      BY <1>s, <2>2 DEF AfterRound2
    <3>1. /\ worker'[w].sign = NoSign /\ worker'[w].life = worker[w].life
          /\ worker'[w].share = worker[w].share /\ DOMAIN worker'[w] = {"life", "share", "sign"}
      BY <1>s, <3>0
    <3>2. ComputePartialSignature(w, m.body).nonce = worker[w].sign.nonce
      BY DEF ComputePartialSignature
    <3>3. Fresh'
      BY <2>2, <3>0, <3>1, <3>2 DEF WorkerInv, Fresh
    <3>4. NonceOnce'
      BY <2>2, <3>2 DEF WorkerInv, Fresh, NonceOnce
    <3>5. Shape' /\ LifeInv'
      BY <1>1, <3>0, <3>1 DEF WorkerInv, LifeInv, Shape
    <3> QED
      BY <3>3, <3>4, <3>5 DEF WorkerInv
  <2> QED
    BY <1>4, <2>1, <2>2 DEF HandleRound2
<1>5. CASE HandleStatus(w)
  BY <1>1, <1>5, WorkerKept DEF HandleStatus
<1>6. CASE HandleTerminate(w)
  BY <1>1, <1>6, WorkerEnds DEF HandleTerminate
<1> QED
  BY <1>2, <1>3, <1>4, <1>5, <1>6 DEF WorkerReads

\* A worker that has loaded.
LEMMA LoadKeeps ==
  ASSUME WorkerInv, NEW w \in Workers, WorkerLoad(w)
  PROVE  WorkerInv' /\ Idles
<1>1. /\ DOMAIN worker' = Workers /\ \A v \in Workers : v # w => worker'[v] = worker[v]
      /\ worker'[w] = [worker[w] EXCEPT !.life = "up"] /\ worker[w].life = "loading"
      /\ UNCHANGED <<nonces, partials, held, adrift>>
  BY DEF WorkerLoad, page, WorkerInv, Shape
<1>2. /\ DOMAIN worker'[w] = {"life", "share", "sign"} /\ worker'[w].sign = worker[w].sign
      /\ worker'[w].life = "up"
  BY <1>1 DEF WorkerInv, Shape
<1>3. Idles
  BY <1>1, <1>2 DEF Idles, WorkerInv, Shape
<1>4. LifeInv'
  BY <1>1, <1>2 DEF WorkerInv, LifeInv
<1> QED
  BY <1>3, <1>4, IdlesKeep

LEMMA WorkerStep == WorkerInv /\ [Next]_vars => WorkerInv'
<1> SUFFICES ASSUME WorkerInv, [Next]_vars PROVE WorkerInv'
  OBVIOUS
<1>1. ASSUME NEW h \in Hosts, RequestCertificate(h) PROVE WorkerInv'
  BY <1>1, WorkerKept DEF RequestCertificate, client, thread
<1>2. ASSUME NEW f \in Flows, FlowSteps(f) PROVE WorkerInv'
  <2>1. UNCHANGED <<held, worker, adrift, nonces, partials>>
    BY <1>2 DEF FlowSteps, SocketOpen, SocketFails, FlowReceive, FlowTimeout, ServerReads,
                client, thread, browser
  <2> QED
    BY <2>1, WorkerKept
<1>3. ASSUME NEW p \in Pings, EnsureAlive(p) PROVE WorkerInv'
  BY <1>3, WorkerKept DEF EnsureAlive, client
<1>4. ASSUME NEW u \in Unlocks, Unlock(u) \/ UnlockSpawn(u) \/ UnlockInit(u) \/ UnlockFails(u)
      PROVE WorkerInv'
  BY <1>4, WorkerKept, WorkerSpawned
     DEF Unlock, UnlockSpawn, UnlockInit, UnlockFails, client, thread
<1>5. ASSUME NEW s \in Stops, Terminate(s) PROVE WorkerInv'
  BY <1>5, WorkerKept DEF Terminate, client
<1>6. ASSUME NEW c \in Calls, WorkerTimeout(c) PROVE WorkerInv'
  BY <1>6, ResumeKeeps DEF WorkerTimeout
<1>7. ASSUME NEW w \in Workers, WorkerSteps(w) PROVE WorkerInv'
  <2>1. CASE HandleWorkerMessage(w)
    BY <2>1, ResumeKeeps, WorkerKept DEF HandleWorkerMessage, client
  <2>2. CASE WorkerError(w) \/ HandlerThrows(w)
    BY <2>2, ErrorKeeps
  <2>3. CASE WorkerLoad(w)
    BY <2>3, LoadKeeps
  <2>4. CASE WorkerReads(w)
    BY <2>4, ReadsKeep
  <2>5. CASE Inactivity(w) \/ WorkerKilled(w)
    BY <2>5, WorkerEnds DEF Inactivity, HandleTerminate, WorkerKilled, page
  <2> QED
    BY <1>7, <2>1, <2>2, <2>3, <2>4, <2>5 DEF WorkerSteps
<1>8. CASE UNCHANGED vars
  BY <1>8, WorkerKept DEF vars
<1> QED
  BY <1>1, <1>2, <1>3, <1>4, <1>5, <1>6, <1>7, <1>8 DEF Next

LEMMA WorkerInvariance == Spec => []WorkerInv
<1> QED
  BY WorkerInit, WorkerStep, PTL DEF Spec

(* No interleaving of flows, probes, timeouts, errors and restarts of the    *)
(* worker lets a pair of nonces enter two partial signatures.              *)
THEOREM NoncesSafe == Spec => []NonceOnce
<1>1. WorkerInv => NonceOnce
  BY DEF WorkerInv
<1> QED
  BY <1>1, WorkerInvariance, PTL

(* A failed probe, terminate() and an unlock never leave the decrypted share *)
(* in a worker the client does not hold: where one is, an onerror dropped    *)
(* the handle.                                                             *)
THEOREM ShareSafe == Spec => []NoOrphanShare
<1>1. WorkerInv => NoOrphanShare
  BY DEF WorkerInv, LifeInv, NoOrphanShare
<1> QED
  BY <1>1, WorkerInvariance, PTL

-----------------------------------------------------------------------------
(* The promise: those who wait, wait for the one flow whose promise is       *)
(* pending; a flow that has answered is done, and a certificate on its way  *)
(* to the page has been issued.                                            *)

AskInv ==
  /\ DOMAIN ask = Hosts /\ promise \in Flows \cup {None}
  /\ \A h \in Hosts : ask[h] # None => ask[h] = promise
  /\ promise # None => \E h \in Hosts : ask[h] = promise

FlowInv ==
  /\ DOMAIN at = Calls /\ DOMAIN ws = Flows /\ DOMAIN net = Flows
  /\ pending # None => pending \in Calls /\ at[pending] \in AtWorker
  /\ \A f \in Flows :
       /\ ws[f] = "connecting" => at[f] = "opening"
       /\ f \in spent => at[f] = "done"
       /\ net[f].type = "certificate" => f \in issued

PromiseInv == AskInv /\ FlowInv

\* A step the promise allows: one of CertPromise, or none of its business.
Allowed == [Promised!Next]_(Promised!vars)

LEMMA PromiseInit == Init => PromiseInv /\ Promised!Init
<1> SUFFICES ASSUME Init PROVE PromiseInv /\ Promised!Init
  OBVIOUS
<1>1. AskInv /\ FlowInv
  BY SigningAssumption DEF Init, AskInv, FlowInv, Silent
<1>2. Promised!Init
  BY DEF Init, Promised!Init
<1> QED
  BY <1>1, <1>2 DEF PromiseInv

\* A promise that settles answers all who wait, with a certificate or without.
LEMMA SettleAllowed ==
  ASSUME PromiseInv, NEW f \in Flows, NEW resolved \in BOOLEAN, Settle(f, resolved),
         resolved => f \in issued /\ f \notin spent, issued' = issued
  PROVE  AskInv' /\ Allowed
<1> DEFINE waiting == {h \in Hosts : ask[h] # None}
<1>0. None \notin Flows
  BY SigningAssumption DEF Calls
<1>1. CASE promise # f
  <2>1. ask' = [h \in Hosts |-> ask[h]] /\ promise' = promise /\ spent' = spent
    BY <1>1 DEF Settle
  <2>2. waiting' = waiting
    BY <2>1
  <2>3. AskInv'
    BY <2>1 DEF PromiseInv, AskInv
  <2> QED
    BY <2>1, <2>2, <2>3 DEF Allowed, Promised!vars
<1>2. CASE promise = f
  <2>1. promise' = None /\ \A h \in Hosts : ask'[h] = None
    BY <1>2 DEF Settle, PromiseInv, AskInv
  <2>2. waiting # {} /\ waiting' = {}
    BY <1>0, <1>2, <2>1 DEF PromiseInv, AskInv
  <2>3. AskInv'
    BY <2>1 DEF Settle, AskInv
  <2>4. CASE resolved
    <3>1. f \in issued \ spent /\ spent' = spent \cup {f}
      BY <1>2, <2>4 DEF Settle
    <3>2. Promised!Grant(f)
      BY <2>2, <3>1 DEF Promised!Grant
    <3> QED
      BY <2>3, <3>2 DEF Allowed, Promised!Next, Promised!Answer
  <2>5. CASE ~resolved
    <3>1. Promised!Refuse
      BY <1>2, <2>2, <2>5 DEF Settle, Promised!Refuse
    <3> QED
      BY <2>3, <3>1 DEF Allowed, Promised!Next, Promised!Answer
  <2> QED
    BY <2>4, <2>5
<1> QED
  BY <1>1, <1>2

\* A step that neither asks, settles nor issues.
LEMMA Aside ==
  ASSUME PromiseInv, UNCHANGED <<promise, ask, issued, spent>>
  PROVE  AskInv' /\ Allowed
  BY DEF PromiseInv, AskInv, Allowed, Promised!vars

\* A flow ends, from a point where it was not done.
LEMMA FinishStep ==
  ASSUME PromiseInv, NEW f \in Flows, NEW resolved \in BOOLEAN, Finish(f, resolved),
         resolved => f \in issued /\ f \notin spent, issued' = issued,
         pending' \in {pending, None}, pending' # f,
         DOMAIN net' = Flows, \A g \in Flows : net'[g].type = "certificate" => net[g].type = "certificate"
  PROVE  PromiseInv' /\ Allowed
<1>1. AskInv' /\ Allowed
  BY SettleAllowed DEF Finish
<1>2. FlowInv'
  <2>1. spent' \subseteq spent \cup {f}
    BY DEF Finish, Settle
  <2> QED
    BY <2>1 DEF Finish, PromiseInv, FlowInv, Calls
<1> QED
  BY <1>1, <1>2 DEF PromiseInv

\* A call that is no flow takes the slot or returns.
LEMMA OtherCall ==
  ASSUME PromiseInv, NEW c \in Calls \ Flows, NEW where,
         UNCHANGED <<promise, ask, issued, spent, ws, net>>,
         at' = [at EXCEPT ![c] = where],
         \/ pending' = None
         \/ pending' = c /\ where \in AtWorker
         \/ pending' = pending /\ at[c] \notin AtWorker
  PROVE  PromiseInv' /\ Allowed
<1>1. FlowInv'
  BY DEF PromiseInv, FlowInv, Calls
<1> QED
  BY <1>1, Aside DEF PromiseInv

LEMMA OthersApart ==
  /\ Pings \subseteq Calls \ Flows /\ Unlocks \subseteq Calls \ Flows /\ Stops \subseteq Calls \ Flows
  /\ None \notin Calls
  BY SigningAssumption DEF Calls

\* A flow's round comes back, or its wait for it ends.
LEMMA RoundStep ==
  ASSUME PromiseInv, NEW f \in Flows, NEW answer, NEW rest, RoundReturns(f, answer, rest),
         at[f] \in AtWorker, pending' = None, issued' = issued
  PROVE  PromiseInv' /\ Allowed
<1>1. CASE /\ at' = [at EXCEPT ![f] = IF @ = "round1" THEN "commitment" ELSE "certificate"]
           /\ net' = [net EXCEPT ![f] = [to |-> "server", type |-> at[f], body |-> answer.body]]
           /\ UNCHANGED <<promise, ask, ws, spent>>
  <2>1. f \notin spent /\ ws[f] # "connecting"
    BY DEF PromiseInv, FlowInv, AtWorker
  <2>2. FlowInv'
    BY <1>1, <2>1 DEF PromiseInv, FlowInv, Calls, AtWorker
  <2> QED
    BY <1>1, <2>2, Aside DEF PromiseInv
<1>2. CASE Finish(f, FALSE) /\ UNCHANGED net
  BY <1>2, FinishStep, OthersApart DEF PromiseInv, FlowInv, Calls
<1> QED
  BY <1>1, <1>2 DEF RoundReturns

LEMMA ResumeStep ==
  ASSUME PromiseInv, NEW c \in Calls, NEW answer, NEW rest, Resume(c, answer, rest),
         at[c] \in AtWorker, pending' = None
  PROVE  PromiseInv' /\ Allowed
<1>1. issued' = issued
  BY DEF Resume, server
<1>2. CASE c \in Flows /\ RoundReturns(c, answer, rest)
  BY <1>1, <1>2, RoundStep
<1>3. CASE c \in Pings \cup Unlocks \cup Stops /\ Return(c)
  BY <1>1, <1>3, OtherCall, OthersApart DEF Return
<1> QED
  BY <1>2, <1>3 DEF Resume, AliveReturns, InitReturns, TerminateReturns

LEMMA AskStep ==
  ASSUME PromiseInv, NEW h \in Hosts, RequestCertificate(h)
  PROVE  PromiseInv' /\ Allowed
<1> DEFINE waiting == {g \in Hosts : ask[g] # None}
<1>0. UNCHANGED <<pending, net, issued, spent>> /\ ask[h] = None
  BY DEF RequestCertificate, server
<1>1. PICK f \in Flows :
        /\ promise' = f /\ ask' = [ask EXCEPT ![h] = f]
        /\ \/ promise = f /\ UNCHANGED <<at, ws>>
           \/ /\ promise = None /\ at[f] = "new"
              /\ at' = [at EXCEPT ![f] = "opening"] /\ ws' = [ws EXCEPT ![f] = "connecting"]
  BY DEF RequestCertificate, PromiseInv, AskInv
<1>2. AskInv'
  BY <1>0, <1>1, OthersApart DEF PromiseInv, AskInv
<1>3. FlowInv'
  BY <1>0, <1>1 DEF PromiseInv, FlowInv, AtWorker, Calls
<1>4. h \notin waiting /\ waiting' = waiting \cup {h}
  BY <1>0, <1>1, OthersApart DEF PromiseInv, AskInv, Calls
<1>5. Promised!Ask(h)
  BY <1>0, <1>4 DEF Promised!Ask
<1> QED
  BY <1>2, <1>3, <1>5 DEF PromiseInv, Allowed, Promised!Next

LEMMA FlowStep ==
  ASSUME PromiseInv, NEW f \in Flows, FlowSteps(f)
  PROVE  PromiseInv' /\ Allowed
<1>1. CASE SocketOpen(f)
  <2>1. FlowInv'
    BY <1>1 DEF SocketOpen, PromiseInv, FlowInv, AtWorker, Calls, server
  <2> QED
    BY <1>1, <2>1, Aside DEF SocketOpen, PromiseInv, server
<1>2. CASE SocketFails(f)
  <2>1. AskInv' /\ Allowed
    BY <1>2, SettleAllowed DEF SocketFails, server
  <2>2. spent' = spent
    BY <1>2 DEF SocketFails, Settle
  <2>3. FlowInv'
    BY <1>2, <2>2 DEF SocketFails, PromiseInv, FlowInv, AtWorker, Calls, server
  <2> QED
    BY <2>1, <2>3 DEF PromiseInv
<1>3. CASE FlowReceive(f)
  <2>1. /\ at[f] \in AtSocket /\ net' = [net EXCEPT ![f] = Silent] /\ issued' = issued
        /\ f \notin spent /\ pending # f /\ ws[f] # "connecting"
    BY <1>3, OthersApart DEF FlowReceive, PromiseInv, FlowInv, AtSocket, AtWorker, Calls, server
  <2>2. DOMAIN net' = Flows /\ \A g \in Flows : net'[g].type = "certificate" => net[g].type = "certificate"
    BY <2>1 DEF PromiseInv, FlowInv, Silent
  <2>3. CASE Finish(f, FALSE) /\ pending' = pending
    BY <2>1, <2>2, <2>3, FinishStep
  <2>4. CASE net[f].type = "certificate" /\ Finish(f, TRUE) /\ pending' = pending
    <3>1. f \in issued
      BY <2>4 DEF PromiseInv, FlowInv
    <3> QED
      BY <2>1, <2>2, <2>4, <3>1, FinishStep
  <2>5. CASE /\ SendToWorker(f, IF at[f] = "session" THEN "round1" ELSE "round2", f)
             /\ UNCHANGED <<ws, promise, ask, spent>>
    <3>1. FlowInv'
      BY <2>1, <2>2, <2>5 DEF SendToWorker, PromiseInv, FlowInv, AtWorker, Calls
    <3> QED
      BY <2>1, <2>5, <3>1, Aside DEF PromiseInv
  <2> QED
    BY <1>3, <2>3, <2>4, <2>5 DEF FlowReceive
<1>4. CASE FlowTimeout(f)
  <2>1. pending # f
    BY <1>4, OthersApart DEF FlowTimeout, PromiseInv, FlowInv, AtSocket, AtWorker, Calls
  <2> QED
    BY <1>4, <2>1, FinishStep DEF FlowTimeout, PromiseInv, FlowInv, server
<1>5. CASE ServerReads(f)
  <2>1. /\ UNCHANGED <<pending, at, ws, promise, ask, spent>>
        /\ \/ issued' = issued \/ issued' = issued \cup {f}
        /\ \E type \in {"error", "session", "commitment", "certificate"} :
             Reply(f, type) /\ (type = "certificate" => f \in issued')
    BY <1>5 DEF ServerReads, HandleRequestCert, ServerRound1, ServerRound2, browser, server
  <2>2. FlowInv'
    BY <2>1 DEF Reply, PromiseInv, FlowInv
  <2>3. CASE issued' = issued
    BY <2>1, <2>2, <2>3, Aside DEF PromiseInv
  <2>4. CASE issued' = issued \cup {f} /\ f \notin issued
    <3>1. Promised!Issue(f)
      BY <2>1, <2>4 DEF Promised!Issue
    <3> QED
      BY <2>1, <2>2, <3>1 DEF PromiseInv, AskInv, Allowed, Promised!Next
  <2> QED
    BY <2>1, <2>3, <2>4
<1> QED
  BY <1>1, <1>2, <1>3, <1>4, <1>5 DEF FlowSteps

\* A step outside the client's calls.
LEMMA ThreadStep ==
  ASSUME PromiseInv, UNCHANGED <<promise, ask, issued, spent, at, ws, net>>,
         pending' \in {pending, None}
  PROVE  PromiseInv' /\ Allowed
<1>1. FlowInv'
  BY DEF PromiseInv, FlowInv
<1> QED
  BY <1>1, Aside DEF PromiseInv

LEMMA PromiseStep == PromiseInv /\ [Next]_vars => PromiseInv' /\ Allowed
<1> SUFFICES ASSUME PromiseInv, [Next]_vars PROVE PromiseInv' /\ Allowed
  OBVIOUS
<1>1. ASSUME NEW h \in Hosts, RequestCertificate(h) PROVE PromiseInv' /\ Allowed
  BY <1>1, AskStep
<1>2. ASSUME NEW f \in Flows, FlowSteps(f) PROVE PromiseInv' /\ Allowed
  BY <1>2, FlowStep
<1>3. ASSUME NEW p \in Pings, EnsureAlive(p) PROVE PromiseInv' /\ Allowed
  BY <1>3, OtherCall, OthersApart DEF EnsureAlive, SendToWorker, AtWorker, server
<1>4. ASSUME NEW u \in Unlocks, Unlock(u) \/ UnlockSpawn(u) \/ UnlockInit(u) \/ UnlockFails(u)
      PROVE PromiseInv' /\ Allowed
  BY <1>4, OtherCall, OthersApart
     DEF Unlock, UnlockSpawn, UnlockInit, UnlockFails, SendToWorker, AtWorker, server
<1>5. ASSUME NEW s \in Stops, Terminate(s) PROVE PromiseInv' /\ Allowed
  BY <1>5, OtherCall, OthersApart DEF Terminate, SendToWorker, AtWorker, server
<1>6. ASSUME NEW c \in Calls, WorkerTimeout(c) PROVE PromiseInv' /\ Allowed
  BY <1>6, ResumeStep DEF WorkerTimeout
<1>7. ASSUME NEW w \in Workers, WorkerSteps(w) PROVE PromiseInv' /\ Allowed
  <2>1. CASE HandleWorkerMessage(w)
    <3>1. CASE pending # None
      BY <2>1, <3>1, ResumeStep DEF HandleWorkerMessage, PromiseInv, FlowInv
    <3>2. CASE pending = None
      BY <2>1, <3>2, ThreadStep DEF HandleWorkerMessage, server
    <3> QED
      BY <3>1, <3>2
  <2>2. CASE ~HandleWorkerMessage(w)
    BY <1>7, <2>2, ThreadStep
       DEF WorkerSteps, WorkerError, HandlerThrows, OnError, WorkerLoad, WorkerReads, Inactivity,
           WorkerKilled, page, server
  <2> QED
    BY <2>1, <2>2
<1>8. CASE UNCHANGED vars
  BY <1>8, ThreadStep DEF vars
<1> QED
  BY <1>1, <1>2, <1>3, <1>4, <1>5, <1>6, <1>7, <1>8 DEF Next

(* The safety half of PromiseKept: whatever goes to the wrong call, times    *)
(* out or is cut off, FROSTClient answers only those who wait, all of them  *)
(* together, and with a certificate that was issued and not used before.   *)
THEOREM PromiseSafe == Spec => Promised!Init /\ [][Promised!Next]_(Promised!vars)
<1>1. Init => PromiseInv /\ Promised!Init
  BY PromiseInit
<1>2. PromiseInv /\ [Next]_vars => PromiseInv' /\ [Promised!Next]_(Promised!vars)
  BY PromiseStep DEF Allowed
<1> QED
  BY <1>1, <1>2, PTL DEF Spec

-----------------------------------------------------------------------------
(* The shares: only the flow that owns certRequestPromise talks to the      *)
(* workers, as long as the flows before it ran to their certificates.      *)

InTypes  == {"round1", "round2"}
OutTypes == {"commitment", "partial_sig"}
Partial  == [nonce : Nat, msg : Flows, server : Flows]
In       == [type : AtWorker \ InTypes, body : {None}] \cup [type : InTypes, body : Flows]
Out      == [type : OutTypes \cup {"ready", "error", "status", "terminated"},
             body : Nat \cup {None} \cup Partial]

ShareType ==
  /\ inbox \in [Workers -> Seq(In)] /\ outbox \in [Workers -> Seq(Out)]
  /\ \A w \in Workers : worker[w].sign # NoSign => worker[w].sign \in [nonce : Nat, msg : Flows]
  /\ DOMAIN commit = Flows

\* A later flow starts only when the sockets of the earlier ones are closed.
Turns ==
  /\ \A f \in Flows : ws[f] \in {"none", "connecting", "open", "closed"}
  /\ \A f \in Flows : at[f] \in {"new", "opening", "done"} \cup AtSocket \cup InTypes
  /\ \A f \in Flows : ws[f] = "none" <=> at[f] = "new"
  /\ \A f \in Flows : ws[f] \in {"connecting", "open"} <=> promise = f
  /\ \A f \in Flows : ws[f] = "open" => at[f] \in AtSocket \cup InTypes
  /\ \A f \in Flows : f \in spent => ws[f] = "closed"
  /\ \A f, g \in Flows : g < f /\ at[f] # "new" => ws[g] = "closed"

\* What travels on a socket fits the point the flow is at.
Wire(f) ==
  /\ at[f] \in {"new", "opening", "round1", "round2"} => net[f].type = "none"
  /\ at[f] = "session" => net[f].type \in {"request_cert", "session", "error"}
  /\ at[f] = "commitment" => net[f].type \in {"round1", "commitment", "error"}
  /\ at[f] = "certificate" => net[f].type \in {"round2", "certificate", "error"}
Wires == \A f \in Flows : Wire(f)

\* No flow before f was cut off.
Clean(f) == \A g \in Flows : g < f => g \in spent

\* f is the last flow that has talked to a worker.
Last(f) == Clean(f) /\ at[f] # "new" /\ (promise = f \/ pending = f)

\* No round of any flow is in the hands of a worker.
Quiet ==
  \A w \in Workers :
    /\ \A i \in DOMAIN inbox[w] : inbox[w][i].type \notin InTypes
    /\ \A i \in DOMAIN outbox[w] : outbox[w][i].type \notin OutTypes

\* At most one round is, and it is the one that f waits for.
OneRound(f) ==
  /\ \A w \in Workers : \A i \in DOMAIN inbox[w] : inbox[w][i].type \in InTypes =>
       /\ inbox[w][i].type = at[f] /\ inbox[w][i].body = f
       /\ \A v \in Workers : \A j \in DOMAIN inbox[v] :
            inbox[v][j].type \in InTypes => v = w /\ j = i
       /\ \A v \in Workers : \A j \in DOMAIN outbox[v] : outbox[v][j].type \notin OutTypes
  /\ \A w \in Workers : \A i \in DOMAIN outbox[w] : outbox[w][i].type \in OutTypes =>
       /\ outbox[w][i].type = Expected(f)
       /\ \A v \in Workers : \A j \in DOMAIN outbox[v] :
            outbox[v][j].type \in OutTypes => v = w /\ j = i

\* Nobody has a signing state; at most one worker has; those there are, are that of f with
\* nonce n.
Idle        == \A w \in Workers : worker[w].sign = NoSign
Alone       == \A v, w \in Workers : worker[v].sign # NoSign /\ worker[w].sign # NoSign => v = w
Signs(f, n) == \A w \in Workers :
                 worker[w].sign # NoSign => worker[w].sign.nonce = n /\ worker[w].sign.msg = f

Rounds(f) ==
  /\ at[f] \notin InTypes => Quiet
  /\ at[f] \in InTypes => OneRound(f)
  /\ Alone
  /\ at[f] \in {"opening", "session", "certificate"} => Idle
  /\ at[f] = "round1" => \A w \in Workers : \A i \in DOMAIN inbox[w] :
       inbox[w][i].type \in InTypes => Idle
  /\ at[f] = "round1" => \A w \in Workers : \A i \in DOMAIN outbox[w] :
       outbox[w][i].type \in OutTypes => Signs(f, outbox[w][i].body)
  /\ at[f] = "commitment" /\ net[f].type = "round1" => Signs(f, net[f].body)
  /\ at[f] = "commitment" /\ net[f].type = "commitment" => Signs(f, commit[f])
  /\ at[f] = "round2" => \A w \in Workers : \A i \in DOMAIN inbox[w] :
       inbox[w][i].type \in InTypes => Signs(f, commit[f])
  /\ at[f] = "round2" => \A w \in Workers : \A i \in DOMAIN outbox[w] :
       outbox[w][i].type \in OutTypes => Idle /\ Verifies(f, outbox[w][i].body)

LastRounds == \A f \in Flows : Last(f) => Rounds(f)
RestQuiet  == (\A g \in Flows : at[g] # "new" => g \in spent) => Quiet /\ Idle
CleanShare == \A f \in Flows : Clean(f) /\ net[f].type = "round2" => Verifies(f, net[f].body)

SharesInv == ShareType /\ Turns /\ Wires /\ LastRounds /\ RestQuiet /\ CleanShare

\* s2 has no messages of types T that s had not, in the same order.
Less(s2, s, T) ==
  \E d \in {0, 1} : \A i \in DOMAIN s2 :
    s2[i].type \in T => i + d \in DOMAIN s /\ s[i + d] = s2[i]

\* What any step may do to a queue, and what it may do without adding a round.
Moves(s2, s, M) ==
  \/ s2 = s \/ s2 = <<>>
  \/ s # <<>> /\ s2 = Tail(s)
  \/ \E x \in M : s2 = Append(s, x)

LEMMA MovesType ==
  ASSUME NEW M, NEW s \in Seq(M), NEW s2, Moves(s2, s, M)
  PROVE  s2 \in Seq(M)
  <1>1. CASE s # <<>> /\ s2 = Tail(s)
    BY <1>1
  <1>2. CASE \E x \in M : s2 = Append(s, x)
    BY <1>2
  <1>3. CASE s2 = <<>> \/ s2 = s
    <2>1. <<>> \in Seq(M)
      OBVIOUS
    <2>2. QED
      BY <1>3, <2>1
  <1>4. QED
    BY <1>1, <1>2, <1>3 DEF Moves

LEMMA MovesLess ==
  ASSUME NEW M, NEW T, NEW s \in Seq(M), NEW s2, Moves(s2, s, {x \in M : x.type \notin T})
  PROVE  Less(s2, s, T)
  <1>1. CASE s # <<>> /\ s2 = Tail(s)
    BY <1>1 DEF Less
  <1>2. ASSUME NEW x \in M, x.type \notin T, s2 = Append(s, x) PROVE Less(s2, s, T)
    BY <1>2 DEF Less
  <1>3. CASE s2 = <<>> \/ s2 = s
    BY <1>3 DEF Less
  <1>4. QED
    BY <1>1, <1>2, <1>3 DEF Moves

\* What is left of a queue whose front was read.
LEMMA TailAt ==
  ASSUME NEW M, NEW s \in Seq(M), s # <<>>, NEW i \in DOMAIN Tail(s)
  PROVE  i + 1 \in DOMAIN s /\ Tail(s)[i] = s[i + 1] /\ i + 1 # 1
  OBVIOUS

\* One queue of several changes.
LEMMA QueueSet ==
  ASSUME NEW M, NEW q \in [Workers -> Seq(M)], NEW w \in Workers, NEW s, NEW q2,
         q2 = [q EXCEPT ![w] = s], Moves(s, q[w], M)
  PROVE  /\ q2 \in [Workers -> Seq(M)] /\ q2[w] = s
         /\ \A v \in Workers : v # w => q2[v] = q[v]
  <1>1. s \in Seq(M)
    BY MovesType
  <1>2. QED
    BY <1>1

LEMMA QueueLess ==
  ASSUME NEW M, NEW T, NEW q \in [Workers -> Seq(M)], NEW w \in Workers, NEW s, NEW q2,
         q2 = [q EXCEPT ![w] = s], Moves(s, q[w], {x \in M : x.type \notin T})
  PROVE  \A v \in Workers : Less(q2[v], q[v], T)
  <1>1. Less(s, q[w], T)
    BY MovesLess
  <1>2. \A v \in Workers : q2[v] = IF v = w THEN s ELSE q[v]
    OBVIOUS
  <1>3. ASSUME NEW v \in Workers PROVE Less(q[v], q[v], T)
    BY DEF Less
  <1>4. QED
    BY <1>1, <1>2, <1>3

LEMMA QueueSame ==
  ASSUME NEW M, NEW T, NEW q \in [Workers -> Seq(M)]
  PROVE  \A v \in Workers : Less(q[v], q[v], T)
  BY DEF Less

\* The workers lose rounds of the flows and signing states, and gain neither.
Fewer ==
  /\ \A w \in Workers : Less(inbox'[w], inbox[w], InTypes)
  /\ \A w \in Workers : Less(outbox'[w], outbox[w], OutTypes)
  /\ \A w \in Workers : worker'[w].sign \in {worker[w].sign, NoSign}

\* A step that is no flow's.
Bystander ==
  /\ \A f \in Flows : at'[f] = at[f]
  /\ UNCHANGED <<ws, net, promise, spent, commit>>
  /\ pending' \in Flows => pending' = pending
  /\ Fewer

LEMMA SameFewer ==
  ASSUME ShareType, UNCHANGED <<worker, inbox, outbox>>
  PROVE  Fewer
  BY QueueSame DEF ShareType, Fewer

\* Fewer rounds on the way stay none.
LEMMA QuietKeeps ==
  ASSUME Fewer
  PROVE  (Quiet => Quiet') /\ (Idle => Idle') /\ (Alone => Alone')
  <1>1. Quiet => Quiet'
    BY DEF Fewer, Less, Quiet
  <1>2. QED
    BY <1>1 DEF Fewer, Idle, Alone

\* f's rounds still fit the point it is at when the workers have lost messages or signing
\* states.
LEMMA LessKeeps ==
  ASSUME NEW f \in Flows, at'[f] = at[f], net'[f] = net[f], commit'[f] = commit[f],
         Fewer, ShareType, ShareType'
  PROVE  Rounds(f) => Rounds(f)'
  <1>1. ASSUME NEW w \in Workers, NEW i \in DOMAIN inbox'[w], inbox'[w][i].type \in InTypes
        PROVE  \E k \in DOMAIN inbox[w] : inbox[w][k] = inbox'[w][i]
    BY <1>1 DEF Fewer, Less
  <1>2. ASSUME NEW w \in Workers, NEW i \in DOMAIN outbox'[w], outbox'[w][i].type \in OutTypes
        PROVE  \E k \in DOMAIN outbox[w] : outbox[w][k] = outbox'[w][i]
    BY <1>2 DEF Fewer, Less
  <1>3. (Quiet => Quiet') /\ (Idle => Idle') /\ (Alone => Alone')
    BY QuietKeeps
  <1>4. ASSUME NEW n PROVE Signs(f, n) => Signs(f, n)'
    BY DEF Signs, Fewer
  <1>5. ASSUME OneRound(f) PROVE OneRound(f)'
    <2>0. ASSUME NEW w \in Workers
          PROVE  DOMAIN inbox'[w] \subseteq Nat /\ DOMAIN outbox'[w] \subseteq Nat
      BY DEF ShareType
    <2>1. ASSUME NEW w \in Workers, NEW i \in DOMAIN inbox'[w], inbox'[w][i].type \in InTypes
          PROVE  /\ inbox'[w][i].type = at[f] /\ inbox'[w][i].body = f
                 /\ \A v \in Workers : \A j \in DOMAIN inbox'[v] :
                      inbox'[v][j].type \in InTypes => v = w /\ j = i
                 /\ \A v \in Workers : \A j \in DOMAIN outbox'[v] : outbox'[v][j].type \notin OutTypes
      <3>0. PICK d \in {0, 1} : \A j \in DOMAIN inbox'[w] : inbox'[w][j].type \in InTypes =>
              j + d \in DOMAIN inbox[w] /\ inbox[w][j + d] = inbox'[w][j]
        BY DEF Fewer, Less
      <3>1. i + d \in DOMAIN inbox[w] /\ inbox[w][i + d] = inbox'[w][i]
        BY <2>1, <3>0
      <3>2. ASSUME NEW v \in Workers, NEW j \in DOMAIN inbox'[v], inbox'[v][j].type \in InTypes
            PROVE  v = w /\ j = i
        <4>1. PICK k \in DOMAIN inbox[v] : inbox[v][k] = inbox'[v][j]
          BY <1>1, <3>2
        <4>2. v = w
          BY <1>5, <2>1, <3>1, <3>2, <4>1 DEF OneRound
        <4>3. j + d \in DOMAIN inbox[w] /\ inbox[w][j + d].type \in InTypes
          BY <3>0, <3>2, <4>2
        <4>4. j + d = i + d
          BY <1>5, <2>1, <3>1, <4>3 DEF OneRound
        <4>5. QED
          BY <2>0, <4>2, <4>4
      <3>3. ASSUME NEW v \in Workers, NEW j \in DOMAIN outbox'[v], outbox'[v][j].type \in OutTypes
            PROVE  FALSE
        BY <1>2, <1>5, <2>1, <3>1, <3>3 DEF OneRound
      <3>4. QED
        BY <1>5, <2>1, <3>1, <3>2, <3>3 DEF OneRound
    <2>2. ASSUME NEW w \in Workers, NEW i \in DOMAIN outbox'[w], outbox'[w][i].type \in OutTypes
          PROVE  /\ outbox'[w][i].type = Expected(f)
                 /\ \A v \in Workers : \A j \in DOMAIN outbox'[v] :
                      outbox'[v][j].type \in OutTypes => v = w /\ j = i
      <3>0. PICK d \in {0, 1} : \A j \in DOMAIN outbox'[w] : outbox'[w][j].type \in OutTypes =>
              j + d \in DOMAIN outbox[w] /\ outbox[w][j + d] = outbox'[w][j]
        BY DEF Fewer, Less
      <3>1. i + d \in DOMAIN outbox[w] /\ outbox[w][i + d] = outbox'[w][i]
        BY <2>2, <3>0
      <3>2. ASSUME NEW v \in Workers, NEW j \in DOMAIN outbox'[v], outbox'[v][j].type \in OutTypes
            PROVE  v = w /\ j = i
        <4>1. PICK k \in DOMAIN outbox[v] : outbox[v][k] = outbox'[v][j]
          BY <1>2, <3>2
        <4>2. v = w
          BY <1>5, <2>2, <3>1, <3>2, <4>1 DEF OneRound
        <4>3. j + d \in DOMAIN outbox[w] /\ outbox[w][j + d].type \in OutTypes
          BY <3>0, <3>2, <4>2
        <4>4. j + d = i + d
          BY <1>5, <2>2, <3>1, <4>3 DEF OneRound
        <4>5. QED
          BY <2>0, <4>2, <4>4
      <3>3. QED
        BY <1>5, <2>2, <3>1, <3>2 DEF OneRound
    <2>3. Expected(f)' = Expected(f)
      BY DEF Expected
    <2>4. QED
      BY <2>1, <2>2, <2>3 DEF OneRound
  <1>6. ASSUME Rounds(f) PROVE Rounds(f)'
    <2>1. at[f] = "round1" => \A w \in Workers : \A i \in DOMAIN inbox'[w] :
            inbox'[w][i].type \in InTypes => Idle'
      BY <1>1, <1>3, <1>6 DEF Rounds
    <2>2. at[f] = "round1" => \A w \in Workers : \A i \in DOMAIN outbox'[w] :
            outbox'[w][i].type \in OutTypes => Signs(f, outbox[w][i].body)'
      BY <1>2, <1>4, <1>6 DEF Rounds
    <2>3. at[f] = "round2" => \A w \in Workers : \A i \in DOMAIN inbox'[w] :
            inbox'[w][i].type \in InTypes => Signs(f, commit[f])'
      BY <1>1, <1>4, <1>6 DEF Rounds
    <2>4. at[f] = "round2" => \A w \in Workers : \A i \in DOMAIN outbox'[w] :
            outbox'[w][i].type \in OutTypes => Idle' /\ Verifies(f, outbox[w][i].body)'
      BY <1>2, <1>3, <1>6 DEF Rounds, Verifies
    <2>5. QED
      BY <1>3, <1>4, <1>5, <1>6, <2>1, <2>2, <2>3, <2>4 DEF Rounds
  <1>7. QED
    BY <1>6

\* sendToWorker posts one message, or none to a worker that is gone.
LEMMA SendMoves ==
  ASSUME LifeInv, NEW c, NEW type, NEW body, NEW M, [type |-> type, body |-> body] \in M,
         SendToWorker(c, type, body)
  PROVE  /\ held \in Workers
         /\ \/ inbox' = inbox
            \/ inbox' = [inbox EXCEPT ![held] = Append(inbox[held], [type |-> type, body |-> body])]
         /\ Moves(Append(inbox[held], [type |-> type, body |-> body]), inbox[held], M)
  BY DEF SendToWorker, Post, Moves, LifeInv

\* The worker posts its answer.
LEMMA AnswerMoves ==
  ASSUME NEW w \in Workers, NEW type, NEW body, NEW M, [type |-> type, body |-> body] \in M,
         Answer(w, type, body)
  PROVE  \E s : outbox' = [outbox EXCEPT ![w] = s] /\ Moves(s, outbox[w], M)
  BY DEF Answer, Moves

\* The worker that reads a message consumes it, and answers it with one of its own.
LEMMA ReadsType ==
  ASSUME WorkerInv, ShareType, NEW w \in Workers, WorkerReads(w)
  PROVE  /\ inbox' \in [Workers -> Seq(In)] /\ outbox' \in [Workers -> Seq(Out)]
         /\ \A v \in Workers : worker'[v].sign # NoSign => worker'[v].sign \in [nonce : Nat, msg : Flows]
  <1> DEFINE m == Head(inbox[w])
  <1>0. inbox[w] # <<>> /\ m \in In /\ nonces \in Nat /\ nonces + 1 \in Nat /\ Shape
    BY DEF WorkerReads, ShareType, WorkerInv, Fresh
  <1> HIDE DEF m
  <1>1. inbox' \in [Workers -> Seq(In)]
    <2>1. PICK s : inbox' = [inbox EXCEPT ![w] = s] /\ Moves(s, inbox[w], In)
      BY <1>0 DEF WorkerReads, Moves, m
    <2>2. QED
      BY <2>1, QueueSet DEF ShareType
  <1>a. ASSUME NEW s, outbox' = [outbox EXCEPT ![w] = s], Moves(s, outbox[w], Out)
        PROVE  outbox' \in [Workers -> Seq(Out)]
    BY <1>a, QueueSet DEF ShareType
  <1>b. ASSUME NEW type, NEW body, [type |-> type, body |-> body] \in Out, Answer(w, type, body)
        PROVE  outbox' \in [Workers -> Seq(Out)]
    BY <1>a, <1>b, AnswerMoves
  <1>c. ASSUME NEW sign, \A v \in Workers : worker'[v].sign = worker[v].sign \/ worker'[v].sign = sign,
               sign = NoSign \/ sign \in [nonce : Nat, msg : Flows]
        PROVE  \A v \in Workers : worker'[v].sign # NoSign => worker'[v].sign \in [nonce : Nat, msg : Flows]
    BY <1>c DEF ShareType
  <1> USE DEF Out, OutTypes
  <1>2. CASE HandleInit(w) \/ HandleStatus(w) \/ HandleTerminate(w)
    <2>1. outbox' \in [Workers -> Seq(Out)]
      BY <1>2, <1>b DEF HandleInit, HandleStatus, HandleTerminate
    <2>2. \A v \in Workers : worker'[v].sign = worker[v].sign \/ worker'[v].sign = NoSign
      <3>1. CASE HandleInit(w)
        BY <1>0, <3>1 DEF HandleInit, Shape
      <3>2. CASE HandleStatus(w)
        BY <3>2 DEF HandleStatus
      <3>3. CASE HandleTerminate(w)
        BY <1>0, <3>3 DEF HandleTerminate, Gone, Shape
      <3>4. QED
        BY <1>2, <3>1, <3>2, <3>3
    <2>3. QED
      BY <1>1, <1>c, <2>1, <2>2
  <1>3. CASE m.type = "round1" /\ HandleRound1(w, m.body)
    <2>1. m.body \in Flows
      BY <1>0, <1>3 DEF In, InTypes
    <2>2. outbox' \in [Workers -> Seq(Out)]
      <3>1. [type |-> "commitment", body |-> nonces + 1] \in Out
        BY <1>0
      <3>2. [type |-> "error", body |-> None] \in Out
        OBVIOUS
      <3>3. QED
        BY <1>3, <1>b, <3>1, <3>2 DEF HandleRound1, GenerateNonces
    <2>3. \A v \in Workers : \/ worker'[v].sign = worker[v].sign
                             \/ worker'[v].sign = [nonce |-> nonces + 1, msg |-> m.body]
      BY <1>0, <1>3 DEF HandleRound1, SigningState, GenerateNonces, Shape
    <2>4. QED
      BY <1>0, <1>1, <1>c, <2>1, <2>2, <2>3
  <1>4. CASE m.type = "round2" /\ HandleRound2(w, m.body)
    <2>1. m.body \in Flows
      BY <1>0, <1>4 DEF In, InTypes
    <2>2. outbox' \in [Workers -> Seq(Out)]
      <3>1. CASE Answer(w, "error", None)
        <4>1. [type |-> "error", body |-> None] \in Out
          OBVIOUS
        <4>2. QED
          BY <1>b, <3>1, <4>1
      <3>2. CASE worker[w].sign # NoSign /\ Answer(w, "partial_sig", ComputePartialSignature(w, m.body))
        <4>1. ComputePartialSignature(w, m.body) \in Partial
          BY <2>1, <3>2 DEF ComputePartialSignature, Partial, ShareType
        <4>2. QED
          BY <1>b, <3>2, <4>1
      <3>3. QED
        BY <1>4, <3>1, <3>2 DEF HandleRound2
    <2>3. \A v \in Workers : worker'[v].sign = worker[v].sign \/ worker'[v].sign = NoSign
      BY <1>0, <1>4 DEF HandleRound2, AfterRound2, Shape
    <2>4. QED
      BY <1>1, <1>c, <2>2, <2>3
  <1>5. QED
    BY <1>2, <1>3, <1>4 DEF WorkerReads, m

\* A call's promise settles: the queues lose messages at most.
LEMMA ResumeFewer ==
  ASSUME WorkerInv, ShareType, NEW c, NEW a, NEW rest, Resume(c, a, rest),
         rest = outbox \/ \E w \in Workers : outbox[w] # <<>> /\ rest = [outbox EXCEPT ![w] = Tail(@)]
  PROVE  Fewer /\ ShareType' /\ commit' = commit
  <1>0. commit' = commit
    BY DEF Resume, server
  <1>1. rest \in [Workers -> Seq(Out)] /\ \A v \in Workers : Less(rest[v], outbox[v], OutTypes)
    <2>1. CASE rest = outbox
      BY <2>1, QueueSame DEF ShareType
    <2>2. ASSUME NEW w \in Workers, outbox[w] # <<>>, rest = [outbox EXCEPT ![w] = Tail(@)]
          PROVE  rest \in [Workers -> Seq(Out)] /\ \A v \in Workers : Less(rest[v], outbox[v], OutTypes)
      <3>1. /\ Moves(Tail(outbox[w]), outbox[w], Out)
            /\ Moves(Tail(outbox[w]), outbox[w], {x \in Out : x.type \notin OutTypes})
        BY <2>2 DEF Moves
      <3>2. QED
        BY <2>2, <3>1, QueueSet, QueueLess DEF ShareType
    <2>3. QED
      BY <2>1, <2>2
  <1>2. CASE UNCHANGED <<worker, held, inbox>> /\ outbox' = rest
    BY <1>0, <1>1, <1>2, QueueSame DEF Fewer, ShareType
  <1>3. CASE /\ held \in Workers /\ held' = None /\ worker' = [worker EXCEPT ![held] = Gone]
             /\ inbox' = [inbox EXCEPT ![held] = <<>>] /\ outbox' = [rest EXCEPT ![held] = <<>>]
    <2>1. /\ inbox' \in [Workers -> Seq(In)] /\ \A v \in Workers : Less(inbox'[v], inbox[v], InTypes)
      <3>1. /\ Moves(<<>>, inbox[held], In) /\ Moves(<<>>, inbox[held], {x \in In : x.type \notin InTypes})
        BY DEF Moves
      <3>2. QED
        BY <1>3, <3>1, QueueSet, QueueLess DEF ShareType
    <2>2. outbox' \in [Workers -> Seq(Out)] /\ \A v \in Workers : v # held => outbox'[v] = rest[v]
      <3>1. Moves(<<>>, rest[held], Out)
        BY DEF Moves
      <3>2. QED
        BY <1>1, <1>3, <3>1, QueueSet
    <2>3. outbox'[held] = <<>>
      BY <1>1, <1>3
    <2>4. \A v \in Workers : Less(outbox'[v], outbox[v], OutTypes)
      <3>1. Less(outbox'[held], outbox[held], OutTypes)
        BY <2>3 DEF Less
      <3>2. QED
        BY <1>1, <2>2, <3>1
    <2>5. \A v \in Workers : worker'[v].sign \in {worker[v].sign, NoSign}
      BY <1>3 DEF WorkerInv, Shape, Gone
    <2>6. Fewer
      BY <2>1, <2>4, <2>5 DEF Fewer
    <2>7. QED
      BY <1>0, <2>1, <2>2, <2>5, <2>6 DEF ShareType
  <1>4. QED
    BY <1>0, <1>2, <1>3, ResumeWorker DEF WorkerInv

\* The steps of a worker that read no round: its queues and its signing state lose.
LEMMA QueueFewer ==
  ASSUME ShareType, NEW w \in Workers, NEW s, NEW t,
         inbox' = [inbox EXCEPT ![w] = s], Moves(s, inbox[w], {x \in In : x.type \notin InTypes}),
         outbox' = [outbox EXCEPT ![w] = t], Moves(t, outbox[w], {x \in Out : x.type \notin OutTypes}),
         \A v \in Workers : worker'[v].sign \in {worker[v].sign, NoSign}, commit' = commit
  PROVE  Fewer /\ ShareType'
  <1>0. Moves(s, inbox[w], In) /\ Moves(t, outbox[w], Out)
    BY DEF Moves
  <1>1. inbox' \in [Workers -> Seq(In)] /\ \A v \in Workers : Less(inbox'[v], inbox[v], InTypes)
    BY <1>0, QueueSet, QueueLess DEF ShareType
  <1>2. outbox' \in [Workers -> Seq(Out)] /\ \A v \in Workers : Less(outbox'[v], outbox[v], OutTypes)
    BY <1>0, QueueSet, QueueLess DEF ShareType
  <1>3. QED
    BY <1>1, <1>2 DEF Fewer, ShareType

\* A worker's step other than the reading of a round.
LEMMA WorkerFewer ==
  ASSUME WorkerInv, ShareType, NEW w \in Workers,
         \/ WorkerError(w) \/ HandlerThrows(w) \/ WorkerLoad(w) \/ Inactivity(w) \/ WorkerKilled(w)
         \/ WorkerReads(w) /\ Head(inbox[w]).type \notin InTypes
  PROVE  Fewer /\ ShareType'
  <1> DEFINE NoIn  == {x \in In : x.type \notin InTypes}
             NoOut == {x \in Out : x.type \notin OutTypes}
  <1>c. commit' = commit
    BY DEF WorkerError, HandlerThrows, OnError, WorkerLoad, Inactivity, WorkerKilled, WorkerReads, server
  <1>i. /\ inbox = [inbox EXCEPT ![w] = inbox[w]] /\ Moves(inbox[w], inbox[w], NoIn)
        /\ Moves(<<>>, inbox[w], NoIn) /\ (inbox[w] # <<>> => Moves(Tail(inbox[w]), inbox[w], NoIn))
    BY DEF ShareType, Moves
  <1>o. outbox = [outbox EXCEPT ![w] = outbox[w]] /\ Moves(outbox[w], outbox[w], NoOut)
    BY DEF ShareType, Moves
  <1>g. worker' = [worker EXCEPT ![w] = Gone] => \A v \in Workers : worker'[v].sign \in {worker[v].sign, NoSign}
    BY DEF WorkerInv, Shape, Gone
  <1>a. ASSUME NEW type \in {"ready", "status", "terminated"}, Answer(w, type, None)
        PROVE  \E t : outbox' = [outbox EXCEPT ![w] = t] /\ Moves(t, outbox[w], NoOut)
    <2>1. [type |-> type, body |-> None] \in NoOut
      BY DEF Out, OutTypes
    <2> HIDE DEF NoOut
    <2>2. QED
      BY <1>a, <2>1, AnswerMoves
  <1> HIDE DEF NoIn, NoOut
  <1>q. ASSUME NEW s, NEW t, inbox' = [inbox EXCEPT ![w] = s], Moves(s, inbox[w], NoIn),
               outbox' = [outbox EXCEPT ![w] = t], Moves(t, outbox[w], NoOut),
               \A v \in Workers : worker'[v].sign \in {worker[v].sign, NoSign}
        PROVE  Fewer /\ ShareType'
    BY <1>c, <1>q, QueueFewer DEF NoIn, NoOut
  <1>1. CASE WorkerError(w)
    BY <1>1, <1>i, <1>o, <1>g, <1>q DEF WorkerError, OnError
  <1>2. CASE HandlerThrows(w)
    <2>1. \A v \in Workers : worker'[v].sign \in {worker[v].sign, NoSign}
      BY <1>2, ErrorKeeps DEF Idles
    <2>2. QED
      BY <1>2, <2>1, <1>i, <1>o, <1>q DEF HandlerThrows, OnError
  <1>3. CASE WorkerLoad(w)
    <2>1. \A v \in Workers : worker'[v].sign \in {worker[v].sign, NoSign}
      BY <1>3, LoadKeeps DEF Idles
    <2>2. QED
      BY <1>3, <2>1, <1>i, <1>o, <1>q DEF WorkerLoad
  <1>4. CASE Inactivity(w)
    <2>1. PICK t : outbox' = [outbox EXCEPT ![w] = t] /\ Moves(t, outbox[w], NoOut)
      BY <1>4, <1>a DEF Inactivity, HandleTerminate
    <2>2. QED
      BY <1>4, <2>1, <1>i, <1>g, <1>q DEF Inactivity, HandleTerminate
  <1>5. CASE WorkerKilled(w)
    BY <1>5, <1>i, <1>o, <1>g, <1>q DEF WorkerKilled
  <1>6. CASE WorkerReads(w) /\ Head(inbox[w]).type \notin InTypes
    <2>1. HandleInit(w) \/ HandleStatus(w) \/ HandleTerminate(w)
      BY <1>6 DEF WorkerReads, InTypes
    <2>2. PICK s : inbox' = [inbox EXCEPT ![w] = s] /\ Moves(s, inbox[w], NoIn)
      BY <1>6, <1>i DEF WorkerReads
    <2>3. PICK t : outbox' = [outbox EXCEPT ![w] = t] /\ Moves(t, outbox[w], NoOut)
      BY <2>1, <1>a DEF HandleInit, HandleStatus, HandleTerminate
    <2>4. \A v \in Workers : worker'[v].sign \in {worker[v].sign, NoSign}
      <3>1. CASE HandleInit(w)
        BY <3>1 DEF HandleInit, WorkerInv, Shape
      <3>2. CASE HandleStatus(w)
        BY <3>2 DEF HandleStatus
      <3>3. CASE HandleTerminate(w)
        BY <3>3, <1>g DEF HandleTerminate
      <3>4. QED
        BY <2>1, <3>1, <3>2, <3>3
    <2>5. QED
      BY <2>2, <2>3, <2>4, <1>q
  <1>7. QED
    BY <1>1, <1>2, <1>3, <1>4, <1>5, <1>6

\* What the other calls send the worker is no round.
LEMMA SendFewer ==
  ASSUME WorkerInv, ShareType, NEW type \in {"init", "status", "terminate"}, NEW c,
         SendToWorker(c, type, None), UNCHANGED <<worker, outbox, commit>>
  PROVE  Fewer /\ ShareType'
  <1>1. [type |-> type, body |-> None] \in {x \in In : x.type \notin InTypes}
    BY DEF In, InTypes, AtWorker
  <1>2. CASE inbox' = inbox
    BY <1>2, SameFewer DEF ShareType
  <1>3. CASE inbox' = [inbox EXCEPT ![held] = Append(inbox[held], [type |-> type, body |-> None])]
    <2>1. /\ held \in Workers
          /\ Moves(Append(inbox[held], [type |-> type, body |-> None]), inbox[held],
                   {x \in In : x.type \notin InTypes})
      BY <1>1, SendMoves DEF WorkerInv
    <2>2. /\ outbox' = [outbox EXCEPT ![held] = outbox[held]]
          /\ Moves(outbox[held], outbox[held], {x \in Out : x.type \notin OutTypes})
      BY <2>1 DEF ShareType, Moves
    <2>3. QED
      BY <1>3, <2>1, <2>2, QueueFewer
  <1>4. QED
    BY <1>1, <1>2, <1>3, SendMoves DEF WorkerInv

\* Every step keeps the queues, the signing states and the commitments well-typed.
LEMMA TypeStep ==
  ASSUME WorkerInv, PromiseInv, ShareType, [Next]_vars
  PROVE  ShareType'
  <1>1. ASSUME UNCHANGED <<worker, inbox, outbox>>, DOMAIN commit' = DOMAIN commit PROVE ShareType'
    BY <1>1 DEF ShareType
  <1>2. ASSUME NEW h \in Hosts, RequestCertificate(h) PROVE ShareType'
    BY <1>2, <1>1 DEF RequestCertificate, thread, server
  <1>3. ASSUME NEW f \in Flows, FlowSteps(f) PROVE ShareType'
    <2>1. CASE SocketOpen(f) \/ SocketFails(f) \/ FlowTimeout(f)
      BY <2>1, <1>1 DEF SocketOpen, SocketFails, FlowTimeout, thread, server
    <2>2. CASE ServerReads(f)
      <3>1. UNCHANGED <<worker, inbox, outbox>> /\ DOMAIN commit' = DOMAIN commit
        BY <2>2 DEF ServerReads, HandleRequestCert, ServerRound1, ServerRound2, browser, server
      <3>2. QED
        BY <3>1, <1>1
    <2>3. CASE FlowReceive(f)
      <3>1. UNCHANGED <<worker, outbox, commit>>
        BY <2>3 DEF FlowReceive, server
      <3>3. ASSUME NEW type \in InTypes, SendToWorker(f, type, f) PROVE inbox' \in [Workers -> Seq(In)]
        <4>1. [type |-> type, body |-> f] \in In
          BY DEF In
        <4> DEFINE s == Append(inbox[held], [type |-> type, body |-> f])
        <4>2. held \in Workers /\ Moves(s, inbox[held], In) /\ (inbox' = inbox \/ inbox' = [inbox EXCEPT ![held] = s])
          BY <3>3, <4>1, SendMoves DEF WorkerInv
        <4> HIDE DEF s
        <4>3. QED
          BY <4>2, QueueSet DEF ShareType
      <3>4. inbox' \in [Workers -> Seq(In)]
        BY <2>3, <3>3 DEF FlowReceive, ShareType, InTypes
      <3>5. QED
        BY <3>1, <3>4 DEF ShareType
    <2>4. QED
      BY <1>3, <2>1, <2>2, <2>3 DEF FlowSteps
  <1>4. ASSUME NEW p \in Pings, EnsureAlive(p) PROVE ShareType'
    BY <1>4, SendFewer DEF EnsureAlive, server
  <1>5. ASSUME NEW u \in Unlocks, Unlock(u) \/ UnlockFails(u) PROVE ShareType'
    BY <1>5, <1>1 DEF Unlock, UnlockFails, thread, server
  <1>6. ASSUME NEW u \in Unlocks, UnlockSpawn(u) PROVE ShareType'
    <2>1. \A v \in Workers : worker'[v].sign = worker[v].sign \/ worker'[v].sign = NoSign
      BY <1>6 DEF UnlockSpawn, WorkerInv, Shape, Spawned
    <2>2. QED
      BY <1>6, <2>1 DEF UnlockSpawn, ShareType, server
  <1>7. ASSUME NEW u \in Unlocks, UnlockInit(u) PROVE ShareType'
    BY <1>7, SendFewer DEF UnlockInit, server
  <1>8. ASSUME NEW s \in Stops, Terminate(s) PROVE ShareType'
    BY <1>8, SendFewer DEF Terminate, server
  <1>9. ASSUME NEW c \in Calls, WorkerTimeout(c) PROVE ShareType'
    BY <1>9, ResumeFewer DEF WorkerTimeout
  <1>10. ASSUME NEW w \in Workers, WorkerSteps(w) PROVE ShareType'
    <2>1. CASE HandleWorkerMessage(w)
      <3>1. CASE pending # None
        BY <2>1, <3>1, ResumeFewer DEF HandleWorkerMessage
      <3>2. CASE pending = None
        <4>1. Moves(Tail(outbox[w]), outbox[w], Out)
          BY <2>1 DEF HandleWorkerMessage, Moves
        <4>2. outbox' \in [Workers -> Seq(Out)]
          BY <2>1, <3>2, <4>1, QueueSet DEF HandleWorkerMessage, ShareType
        <4>3. QED
          BY <2>1, <3>2, <4>2 DEF HandleWorkerMessage, ShareType, server
      <3>3. QED
        BY <3>1, <3>2
    <2>2. CASE WorkerReads(w)
      <3>1. commit' = commit
        BY <2>2 DEF WorkerReads, server
      <3>2. QED
        BY <2>2, <3>1, ReadsType DEF ShareType
    <2>3. QED
      BY <1>10, <2>1, <2>2, WorkerFewer DEF WorkerSteps
  <1>11. CASE UNCHANGED vars
    BY <1>11, <1>1 DEF vars
  <1>12. QED
    BY <1>2, <1>3, <1>4, <1>5, <1>6, <1>7, <1>8, <1>9, <1>10, <1>11 DEF Next

\* The steps that are a flow's, or a worker's on behalf of one.
OfFlow ==
  \/ \E h \in Hosts : promise = None /\ RequestCertificate(h)
  \/ \E f \in Flows : FlowSteps(f)
  \/ \E f \in Flows : WorkerTimeout(f)
  \/ \E w \in Workers : pending \in Flows /\ HandleWorkerMessage(w)
  \/ \E w \in Workers : WorkerReads(w) /\ Head(inbox[w]).type \in InTypes

\* Every other step is a bystander's.
LEMMA StepCases ==
  ASSUME WorkerInv, PromiseInv, ShareType, [Next]_vars
  PROVE  OfFlow \/ Bystander
  <1>c. ASSUME NEW c \in Calls \ Flows, NEW where, at' = [at EXCEPT ![c] = where]
        PROVE  \A f \in Flows : at'[f] = at[f]
    BY <1>c DEF PromiseInv, FlowInv
  <1>n. None \notin Flows
    BY OthersApart DEF Calls
  <1> USE DEF Bystander
  <1>1. ASSUME NEW h \in Hosts, RequestCertificate(h) PROVE OfFlow \/ Bystander
    BY <1>1, SameFewer DEF RequestCertificate, OfFlow, thread, server
  <1>2. ASSUME NEW p \in Pings, EnsureAlive(p) PROVE Bystander
    <2>1. Fewer /\ p \in Calls \ Flows
      BY <1>2, SendFewer, OthersApart DEF EnsureAlive, server
    <2>2. QED
      BY <1>2, <2>1, <1>c DEF EnsureAlive, SendToWorker, server
  <1>3. ASSUME NEW u \in Unlocks, Unlock(u) \/ UnlockFails(u) PROVE Bystander
    BY <1>3, <1>c, SameFewer, OthersApart DEF Unlock, UnlockFails, thread, server
  <1>4. ASSUME NEW u \in Unlocks, UnlockSpawn(u) PROVE Bystander
    <2>1. \A v \in Workers : worker'[v].sign \in {worker[v].sign, NoSign}
      BY <1>4 DEF UnlockSpawn, WorkerInv, Shape, Spawned
    <2>2. Fewer
      BY <1>4, <2>1, QueueSame DEF UnlockSpawn, Fewer, ShareType
    <2>3. QED
      BY <1>4, <2>2, <1>c, OthersApart DEF UnlockSpawn, server
  <1>5. ASSUME NEW u \in Unlocks, UnlockInit(u) PROVE Bystander
    <2>1. Fewer /\ u \in Calls \ Flows
      BY <1>5, SendFewer, OthersApart DEF UnlockInit, server
    <2>2. QED
      BY <1>5, <2>1, <1>c DEF UnlockInit, SendToWorker, server
  <1>6. ASSUME NEW c \in Stops, Terminate(c) PROVE Bystander
    <2>1. Fewer /\ c \in Calls \ Flows
      BY <1>6, SendFewer, OthersApart DEF Terminate, server
    <2>2. QED
      BY <1>6, <2>1, <1>c DEF Terminate, SendToWorker, server
  <1>7. ASSUME NEW c \in Calls \ Flows, NEW a, NEW rest, Resume(c, a, rest), pending' = None,
               rest = outbox \/ \E w \in Workers : outbox[w] # <<>> /\ rest = [outbox EXCEPT ![w] = Tail(@)]
        PROVE  Bystander
    <2>1. Return(c)
      BY <1>7 DEF Resume, AliveReturns, InitReturns, TerminateReturns
    <2>2. Fewer /\ commit' = commit
      BY <1>7, ResumeFewer
    <2>3. QED
      BY <1>7, <2>1, <2>2, <1>c, <1>n DEF Return
  <1>8. ASSUME NEW c \in Calls, WorkerTimeout(c) PROVE OfFlow \/ Bystander
    BY <1>8, <1>7 DEF WorkerTimeout, OfFlow
  <1>9. ASSUME NEW w \in Workers, HandleWorkerMessage(w) PROVE OfFlow \/ Bystander
    <2>1. CASE pending = None
      <3>1. Moves(Tail(outbox[w]), outbox[w], {x \in Out : x.type \notin OutTypes})
        BY <1>9 DEF HandleWorkerMessage, Moves
      <3>2. Fewer
        BY <1>9, <2>1, <3>1, QueueLess, QueueSame DEF HandleWorkerMessage, Fewer, ShareType
      <3>3. QED
        BY <1>9, <2>1, <3>2, <1>n DEF HandleWorkerMessage, server
    <2>2. CASE pending # None /\ pending \notin Flows
      <3>1. pending \in Calls \ Flows
        BY <2>2 DEF PromiseInv, FlowInv
      <3>2. QED
        BY <1>9, <2>2, <3>1, <1>7 DEF HandleWorkerMessage
    <2>3. QED
      BY <1>9, <2>1, <2>2 DEF OfFlow
  <1>10. ASSUME NEW w \in Workers, WorkerSteps(w), ~HandleWorkerMessage(w) PROVE OfFlow \/ Bystander
    <2>1. CASE WorkerReads(w) /\ Head(inbox[w]).type \in InTypes
      BY <2>1 DEF OfFlow
    <2>2. CASE ~(WorkerReads(w) /\ Head(inbox[w]).type \in InTypes)
      <3>1. Fewer
        BY <1>10, <2>2, WorkerFewer DEF WorkerSteps
      <3>2. UNCHANGED <<pending, at, ws, net, promise, spent, commit>>
        BY <1>10 DEF WorkerSteps, WorkerError, HandlerThrows, OnError, WorkerLoad, WorkerReads,
                     Inactivity, WorkerKilled, page, server
      <3>3. QED
        BY <3>1, <3>2
    <2>3. QED
      BY <2>1, <2>2
  <1>11. CASE UNCHANGED vars
    BY <1>11, SameFewer DEF vars
  <1>12. QED
    BY <1>1, <1>2, <1>3, <1>4, <1>5, <1>6, <1>8, <1>9, <1>10, <1>11 DEF Next, OfFlow

Core == Turns /\ Wires /\ LastRounds /\ RestQuiet /\ CleanShare

\* A bystander's step disturbs nothing.
LEMMA BystanderKeeps ==
  ASSUME Core, ShareType, ShareType', Bystander
  PROVE  Core'
  <1>1. Turns' /\ Wires'
    BY DEF Core, Turns, Wires, Wire, Bystander
  <1>2. LastRounds'
    <2> SUFFICES ASSUME NEW f \in Flows, Last(f)' PROVE Rounds(f)'
      BY DEF LastRounds
    <2>1. Last(f)
      BY DEF Last, Clean, Bystander
    <2>2. QED
      BY <2>1, LessKeeps DEF Core, LastRounds, Bystander
  <1>3. RestQuiet'
    BY QuietKeeps DEF Core, RestQuiet, Bystander
  <1>4. CleanShare'
    BY DEF Core, CleanShare, Clean, Verifies, Bystander
  <1>5. QED
    BY <1>1, <1>2, <1>3, <1>4 DEF Core

\* The first flow that is new starts: nothing of an earlier one is on the way, if they all
\* have their certificates.
LEMMA NewFlowKeeps ==
  ASSUME Core, PromiseInv, ShareType, ShareType', NEW h \in Hosts, promise = None,
         RequestCertificate(h)
  PROVE  Core'
  <1>n. None \notin Flows /\ Flows \subseteq Nat
    BY OthersApart DEF Calls, Flows
  <1>0. PICK f \in Flows :
          /\ at[f] = "new" /\ \A g \in Flows : g < f => at[g] # "new"
          /\ promise' = f /\ at' = [at EXCEPT ![f] = "opening"]
          /\ ws' = [ws EXCEPT ![f] = "connecting"]
    BY DEF RequestCertificate
  <1>1. UNCHANGED <<pending, worker, inbox, outbox, net, commit, spent>>
    BY DEF RequestCertificate, thread, server
  <1>2. /\ at'[f] = "opening" /\ ws'[f] = "connecting"
        /\ \A g \in Flows : g # f => at'[g] = at[g] /\ ws'[g] = ws[g]
    BY <1>0 DEF PromiseInv, FlowInv, Calls
  <1>3. Turns'
    BY <1>0, <1>1, <1>2, <1>n DEF Core, Turns, AtSocket, InTypes
  <1>4. Wires'
    BY <1>0, <1>1, <1>2 DEF Core, Wires, Wire
  <1>5. LastRounds'
    <2> SUFFICES ASSUME NEW g \in Flows, Last(g)' PROVE Rounds(g)'
      BY DEF LastRounds
    <2>1. Clean(g)
      BY <1>1 DEF Last, Clean
    <2>2. CASE g = f
      <3>1. \A k \in Flows : at[k] # "new" => k \in spent
        BY <2>1, <2>2, <1>0, <1>n DEF Clean, Core, Turns
      <3>2. Quiet /\ Idle
        BY <3>1 DEF Core, RestQuiet
      <3>3. Quiet' /\ Idle' /\ Alone'
        BY <3>2, <1>1 DEF Quiet, Idle, Alone
      <3>4. QED
        BY <3>3, <2>2, <1>2 DEF Rounds, InTypes
    <2>3. CASE g # f
      <3>1. Last(g)
        BY <2>1, <2>3, <1>0, <1>1, <1>2 DEF Last
      <3>2. QED
        BY <3>1, <2>3, <1>1, <1>2, SameFewer, LessKeeps DEF Core, LastRounds
    <2>4. QED
      BY <2>2, <2>3
  <1>6. RestQuiet'
    BY <1>0, <1>1, <1>2 DEF Core, RestQuiet, Turns
  <1>7. CleanShare'
    BY <1>1 DEF Core, CleanShare, Clean, Verifies
  <1>8. QED
    BY <1>3, <1>4, <1>5, <1>6, <1>7 DEF Core

\* f loses its socket, or ends without a certificate.
CutOff(f) ==
  /\ f \notin spent /\ at[f] # "new"
  /\ ws' = [ws EXCEPT ![f] = "closed"]
  /\ promise' = (IF promise = f THEN None ELSE promise) /\ spent' = spent
  /\ \/ at' = at /\ net' = net /\ at[f] # "opening"
     \/ /\ at' = [at EXCEPT ![f] = "done"] /\ pending' # f
        /\ net' = net \/ net' = [net EXCEPT ![f] = Silent]
  /\ pending' \in {pending, None}
  /\ Fewer /\ commit' = commit

\* A flow that is cut off is no longer the last, and none after it is clean.
LEMMA CutOffKeeps ==
  ASSUME Core, PromiseInv, ShareType, ShareType', NEW f \in Flows, CutOff(f)
  PROVE  Core'
  <1>n. None \notin Flows
    BY OthersApart DEF Calls
  <1>0. Fewer /\ commit' = commit /\ spent' = spent
    BY DEF CutOff
  <1>1. /\ ws'[f] = "closed" /\ at'[f] # "new"
        /\ \A g \in Flows : g # f => ws'[g] = ws[g] /\ at'[g] = at[g] /\ net'[g] = net[g]
        /\ \/ (at'[f] = at[f] /\ net'[f] = net[f] /\ at[f] # "opening")
           \/ (at'[f] = "done" /\ pending' # f)
        /\ net'[f].type \in {net[f].type, "none"}
        /\ net'[f].type = "round2" => net'[f] = net[f]
    <2>d. DOMAIN ws = Flows /\ DOMAIN net = Flows /\ DOMAIN at = Calls /\ f \in Calls /\ Flows \subseteq Calls
      BY DEF PromiseInv, FlowInv, Calls
    <2>1. CASE at' = at /\ net' = net /\ at[f] # "opening"
      BY <2>d, <2>1 DEF CutOff
    <2>2. CASE /\ at' = [at EXCEPT ![f] = "done"] /\ pending' # f
               /\ net' = net \/ net' = [net EXCEPT ![f] = Silent]
      BY <2>d, <2>2 DEF CutOff, Silent
    <2>3. QED
      BY <2>1, <2>2 DEF CutOff
  <1>2. Turns'
    BY <1>0, <1>1, <1>n DEF Core, Turns, CutOff
  <1>3. Wires'
    BY <1>1 DEF Core, Wires, Wire
  <1>4. LastRounds'
    <2> SUFFICES ASSUME NEW g \in Flows, Last(g)' PROVE Rounds(g)'
      BY DEF LastRounds
    <2>1. Last(g) /\ at'[g] = at[g] /\ net'[g] = net[g]
      BY <1>0, <1>1, <1>n DEF Last, Clean, CutOff
    <2>2. QED
      BY <2>1, <1>0, LessKeeps DEF Core, LastRounds
  <1>5. RestQuiet'
    BY <1>0, <1>1 DEF RestQuiet, CutOff
  <1>6. CleanShare'
    BY <1>0, <1>1 DEF Core, CleanShare, Clean, Verifies
  <1>7. QED
    BY <1>2, <1>3, <1>4, <1>5, <1>6 DEF Core

\* The socket of f opens, and the request goes out.
LEMMA OpenKeeps ==
  ASSUME Core, PromiseInv, ShareType, ShareType', NEW f \in Flows, SocketOpen(f)
  PROVE  Core'
  <1>0. UNCHANGED <<pending, promise, worker, inbox, outbox, commit, spent>> /\ ws[f] = "connecting"
    BY DEF SocketOpen, thread, server
  <1>1. /\ ws'[f] = "open" /\ at'[f] = "session" /\ net'[f].type = "request_cert"
        /\ \A g \in Flows : g # f => ws'[g] = ws[g] /\ at'[g] = at[g] /\ net'[g] = net[g]
    BY DEF SocketOpen, PromiseInv, FlowInv, Calls
  <1>2. at[f] = "opening" /\ promise = f
    BY <1>0 DEF PromiseInv, FlowInv, Core, Turns
  <1>3. Turns'
    BY <1>0, <1>1, <1>2 DEF Core, Turns, AtSocket
  <1>4. Wires'
    BY <1>1 DEF Core, Wires, Wire
  <1>5. LastRounds'
    <2> SUFFICES ASSUME NEW g \in Flows, Last(g)' PROVE Rounds(g)'
      BY DEF LastRounds
    <2>1. Last(g)
      BY <1>0, <1>1, <1>2 DEF Last, Clean
    <2>2. CASE g = f
      <3>1. Quiet /\ Idle /\ Alone
        BY <2>1, <2>2, <1>2 DEF Core, LastRounds, Rounds, InTypes
      <3>2. Quiet' /\ Idle' /\ Alone'
        BY <3>1, <1>0 DEF Quiet, Idle, Alone
      <3>3. QED
        BY <3>2, <2>2, <1>1 DEF Rounds, InTypes
    <2>3. CASE g # f
      <3>1. Fewer
        BY <1>0, SameFewer
      <3>2. QED
        BY <2>1, <2>3, <3>1, <1>0, <1>1, LessKeeps DEF Core, LastRounds
    <2>4. QED
      BY <2>2, <2>3
  <1>6. RestQuiet'
    BY <1>0, <1>1, <1>2 DEF Core, RestQuiet, Quiet, Idle
  <1>7. CleanShare'
    BY <1>0, <1>1 DEF Core, CleanShare, Clean, Verifies
  <1>8. QED
    BY <1>3, <1>4, <1>5, <1>6, <1>7 DEF Core

\* f has its certificate.
LEMMA CertificateKeeps ==
  ASSUME Core, PromiseInv, ShareType, ShareType', NEW f \in Flows,
         FlowReceive(f), at[f] = "certificate", Finish(f, TRUE)
  PROVE  Core'
  <1>n. None \notin Flows /\ Flows \subseteq Nat
    BY OthersApart DEF Calls, Flows
  <1>0. UNCHANGED <<pending, worker, inbox, outbox, commit>> /\ ws[f] = "open"
    <2>1. ~SendToWorker(f, IF at[f] = "session" THEN "round1" ELSE "round2", f)
      BY DEF SendToWorker, Finish, PromiseInv, FlowInv, Calls
    <2>2. QED
      BY <2>1 DEF FlowReceive, server
  <1>1. promise = f /\ promise' = None /\ spent' = spent \cup {f}
    BY <1>0 DEF Finish, Settle, Core, Turns
  <1>2. /\ ws'[f] = "closed" /\ at'[f] = "done" /\ net'[f].type = "none"
        /\ \A g \in Flows : g # f => ws'[g] = ws[g] /\ at'[g] = at[g] /\ net'[g] = net[g]
    BY DEF Finish, FlowReceive, PromiseInv, FlowInv, Calls, Silent
  <1>3. \A g \in Flows : f < g => at[g] = "new"
    BY <1>0 DEF Core, Turns
  <1>4. Turns'
    BY <1>0, <1>1, <1>2, <1>n DEF Core, Turns
  <1>5. Wires'
    BY <1>2 DEF Core, Wires, Wire
  <1>6. LastRounds'
    <2> SUFFICES ASSUME NEW g \in Flows, Last(g)' PROVE Rounds(g)'
      BY DEF LastRounds
    <2>1. pending = g /\ g # f
      BY <1>0, <1>1, <1>n DEF Last, PromiseInv, FlowInv, AtWorker
    <2>2. at[g] # "new" /\ g < f
      BY <2>1, <1>2, <1>3, <1>n DEF Last
    <2>3. Last(g)
      BY <2>1, <2>2, <1>1, <1>n DEF Last, Clean
    <2>4. Fewer
      BY <1>0, SameFewer
    <2>5. QED
      BY <2>1, <2>3, <2>4, <1>0, <1>2, LessKeeps DEF Core, LastRounds
  <1>7. RestQuiet'
    <2> SUFFICES ASSUME \A g \in Flows : at'[g] # "new" => g \in spent' PROVE Quiet' /\ Idle'
      BY DEF RestQuiet
    <2>1. Clean(f)
      <3> SUFFICES ASSUME NEW g \in Flows, g < f PROVE g \in spent
        BY DEF Clean
      <3>1. g # f /\ ws[g] = "closed"
        BY <1>n DEF Core, Turns
      <3>2. at[g] # "new"
        BY <3>1 DEF Core, Turns
      <3>3. QED
        BY <3>1, <3>2, <1>1, <1>2
    <2>2. Last(f)
      BY <2>1, <1>1 DEF Last
    <2>3. Rounds(f)
      BY <2>2 DEF Core, LastRounds
    <2>4. Quiet /\ Idle
      BY <2>3 DEF Rounds, InTypes
    <2>5. QED
      BY <2>4, <1>0 DEF Quiet, Idle
  <1>8. CleanShare'
    <2> SUFFICES ASSUME NEW g \in Flows, Clean(g)', net'[g].type = "round2"
                 PROVE  Verifies(g, net[g].body)'
      BY DEF CleanShare
    <2>1. g # f /\ net'[g] = net[g]
      BY <1>2
    <2>2. at[g] # "new"
      <3>1. Wire(g)
        BY DEF Core, Wires
      <3>2. QED
        BY <2>1, <3>1 DEF Wire
    <2>3. Clean(g)
      BY <2>1, <2>2, <1>1, <1>3, <1>n DEF Clean
    <2>4. QED
      BY <2>1, <2>3, <1>0 DEF Core, CleanShare, Verifies
  <1>9. QED
    BY <1>4, <1>5, <1>6, <1>7, <1>8 DEF Core

\* f sends the worker its next round.
LEMMA SendKeeps ==
  ASSUME Core, PromiseInv, LifeInv, ShareType, ShareType', NEW f \in Flows, ws[f] = "open",
         at[f] \in {"session", "commitment"}, net[f].type = at[f],
         net' = [net EXCEPT ![f] = Silent],
         SendToWorker(f, IF at[f] = "session" THEN "round1" ELSE "round2", f),
         UNCHANGED <<ws, promise, spent, worker, outbox, commit>>
  PROVE  Core'
  <1> DEFINE r == IF at[f] = "session" THEN "round1" ELSE "round2"
             m == [type |-> r, body |-> f]
  <1>0. promise = f
    BY DEF Core, Turns
  <1>1. /\ at'[f] = r /\ net'[f].type = "none" /\ pending' = f
        /\ \A g \in Flows : g # f => at'[g] = at[g] /\ net'[g] = net[g]
    BY DEF SendToWorker, PromiseInv, FlowInv, Calls, Silent
  <1>2. held \in Workers /\ (inbox' = inbox \/ inbox' = [inbox EXCEPT ![held] = Append(inbox[held], m)])
    BY DEF SendToWorker, Post, LifeInv
  <1>3. r \in InTypes /\ m.type = r /\ m.body = f
    BY DEF InTypes
  <1>4. Turns'
    BY <1>1, <1>3 DEF Core, Turns, InTypes
  <1>5. Wires'
    BY <1>1 DEF Core, Wires, Wire
  <1>6. LastRounds'
    <2> SUFFICES ASSUME NEW g \in Flows, Last(g)' PROVE Rounds(g)'
      BY DEF LastRounds
    <2>1. g = f /\ Last(f)
      BY <1>0, <1>1 DEF Last, Clean
    <2>2. Rounds(f)
      BY <2>1 DEF Core, LastRounds
    <2>3. Quiet /\ Alone /\ (at[f] = "session" => Idle)
      BY <2>2 DEF Rounds, InTypes
    <2>4. \A w \in Workers : \A i \in DOMAIN inbox'[w] : inbox'[w][i].type \in InTypes =>
            w = held /\ i = Len(inbox[held]) + 1 /\ inbox'[w][i] = m
      <3>1. CASE inbox' = inbox
        BY <3>1, <2>3 DEF Quiet
      <3>2. CASE inbox' = [inbox EXCEPT ![held] = Append(inbox[held], m)]
        <4>0. inbox[held] \in Seq(In) /\ m \in In
          BY <1>2, <1>3 DEF ShareType, In
        <4> HIDE DEF m
        <4>1. \A i \in DOMAIN inbox'[held] : \/ i \in DOMAIN inbox[held] /\ inbox'[held][i] = inbox[held][i]
                                             \/ i = Len(inbox[held]) + 1 /\ inbox'[held][i] = m
          BY <1>2, <3>2, <4>0 DEF ShareType
        <4>2. \A w \in Workers : w # held => inbox'[w] = inbox[w]
          BY <3>2 DEF ShareType
        <4>3. QED
          BY <4>1, <4>2, <2>3 DEF Quiet
      <3>3. QED
        BY <1>2, <3>1, <3>2
    <2>5. \A w \in Workers : \A i \in DOMAIN outbox'[w] : outbox'[w][i].type \notin OutTypes
      BY <2>3 DEF Quiet
    <2> HIDE DEF m, r
    <2>6. OneRound(f)'
      BY <1>1, <1>3, <2>4, <2>5 DEF OneRound
    <2>7. (at[f] = "commitment" => Signs(f, commit[f])') /\ Alone' /\ (at[f] = "session" => Idle')
      BY <2>2, <2>3 DEF Rounds, Signs, Alone, Idle
    <2>8. (at'[f] = "round2" => at[f] = "commitment") /\ (at'[f] = "round1" => at[f] = "session")
      BY <1>1 DEF r
    <2>9. QED
      BY <1>1, <1>3, <2>1, <2>5, <2>6, <2>7, <2>8 DEF Rounds, InTypes
  <1>7. RestQuiet'
    BY <1>1, <1>3 DEF Core, RestQuiet, Turns, InTypes
  <1>8. CleanShare'
    BY <1>1 DEF Core, CleanShare, Clean, Verifies
  <1>9. QED
    BY <1>4, <1>5, <1>6, <1>7, <1>8 DEF Core

\* The round f waits for comes back.
LEMMA ReturnKeeps ==
  ASSUME Core, PromiseInv, ShareType, ShareType', NEW f \in Flows, pending = f, pending' = None,
         NEW u \in Workers, outbox[u] # <<>>, Head(outbox[u]).type = Expected(f),
         outbox' = [outbox EXCEPT ![u] = Tail(@)],
         at' = [at EXCEPT ![f] = IF @ = "round1" THEN "commitment" ELSE "certificate"],
         net' = [net EXCEPT ![f] = [to |-> "server", type |-> at[f], body |-> Head(outbox[u]).body]],
         UNCHANGED <<ws, promise, spent, worker, inbox, commit>>
  PROVE  Core'
  <1> DEFINE a == outbox[u][1]
  <1>n. None \notin Flows
    BY OthersApart DEF Calls
  <1>0. at[f] \in InTypes /\ f \notin spent
    BY <1>n DEF PromiseInv, FlowInv, Core, Turns, AtSocket, AtWorker, InTypes
  <1>h. outbox[u] \in Seq(Out) /\ Head(outbox[u]) = a
    BY DEF ShareType
  <1>1. /\ at'[f] = IF at[f] = "round1" THEN "commitment" ELSE "certificate"
        /\ net'[f].type = at[f] /\ net'[f].body = a.body
        /\ \A g \in Flows : g # f => at'[g] = at[g] /\ net'[g] = net[g]
    BY <1>h DEF PromiseInv, FlowInv, Calls
  <1>2. 1 \in DOMAIN outbox[u] /\ a.type \in OutTypes /\ a.type = Expected(f)
    BY <1>h DEF Expected, OutTypes
  <1>t. outbox'[u] = Tail(outbox[u]) /\ \A w \in Workers : w # u => outbox'[w] = outbox[w]
    BY DEF ShareType
  <1>3. Fewer
    <2>1. Moves(Tail(outbox[u]), outbox[u], {x \in Out : x.type \notin OutTypes})
      BY DEF Moves
    <2>2. QED
      BY <2>1, QueueLess, QueueSame DEF Fewer, ShareType
  <1>4. Clean(f) => Rounds(f)
    BY <1>0 DEF Core, LastRounds, Last, InTypes
  <1>5. Turns'
    BY <1>0, <1>1 DEF Core, Turns, InTypes, AtSocket
  <1>6. Wires'
    BY <1>0, <1>1 DEF Core, Wires, Wire, InTypes
  <1>7. LastRounds'
    <2> SUFFICES ASSUME NEW g \in Flows, Last(g)' PROVE Rounds(g)'
      BY DEF LastRounds
    <2>1. CASE g = f
      <3>1. Rounds(f) /\ OneRound(f)
        BY <1>0, <1>4, <2>1 DEF Last, Clean, Rounds
      <3>2. \A w \in Workers : \A i \in DOMAIN inbox[w] : inbox[w][i].type \notin InTypes
        BY <3>1, <1>2 DEF OneRound
      <3>3. \A w \in Workers : \A i \in DOMAIN outbox[w] : outbox[w][i].type \in OutTypes => w = u /\ i = 1
        BY <3>1, <1>2 DEF OneRound
      <3>4. \A i \in DOMAIN outbox'[u] : i + 1 \in DOMAIN outbox[u] /\ outbox'[u][i] = outbox[u][i + 1] /\ i + 1 # 1
        <4>1. outbox[u] \in Seq(Out) /\ outbox[u] # <<>> /\ outbox'[u] = Tail(outbox[u])
          BY <1>h, <1>t
        <4>2. QED
          BY <4>1, TailAt
      <3>5. Quiet'
        BY <3>2, <3>3, <3>4, <1>t DEF Quiet
      <3>6. PICK b : b = a.body
        OBVIOUS
      <3>7. (at[f] = "round1" => Signs(f, b)') /\ Alone'
        BY <3>1, <3>6, <1>2 DEF Rounds, Signs, Alone
      <3>8. at[f] = "round2" => Idle'
        BY <3>1, <1>2 DEF Rounds, Idle
      <3>9. QED
        BY <1>0, <1>1, <2>1, <3>5, <3>6, <3>7, <3>8 DEF Rounds, InTypes
    <2>2. CASE g # f
      <3>1. Last(g)
        BY <2>2, <1>1, <1>n DEF Last, Clean
      <3>2. QED
        BY <2>2, <3>1, <1>1, <1>3, LessKeeps DEF Core, LastRounds
    <2>3. QED
      BY <2>1, <2>2
  <1>8. RestQuiet'
    BY <1>0, <1>1 DEF RestQuiet
  <1>9. CleanShare'
    <2> SUFFICES ASSUME NEW g \in Flows, Clean(g)', net'[g].type = "round2"
                 PROVE  Verifies(g, net[g].body)'
      BY DEF CleanShare
    <2>0. Clean(g)
      BY DEF Clean
    <2>1. CASE g = f
      BY <1>1, <1>2, <1>4, <2>0, <2>1 DEF Rounds, Verifies
    <2>2. CASE g # f
      BY <1>1, <2>0, <2>2 DEF Core, CleanShare, Verifies
    <2>3. QED
      BY <2>1, <2>2
  <1>10. QED
    BY <1>5, <1>6, <1>7, <1>8, <1>9 DEF Core

\* The worker takes a round from its inbox.
LEMMA ReadsKeeps ==
  ASSUME Core, WorkerInv, ShareType, ShareType', NEW u \in Workers, WorkerReads(u),
         Head(inbox[u]).type \in InTypes
  PROVE  Core'
  <1> DEFINE m == inbox[u][1]
  <1>0. UNCHANGED <<at, ws, net, promise, pending, spent, commit>>
    BY DEF WorkerReads, page, server
  <1>h. inbox[u] \in Seq(In) /\ inbox[u] # <<>> /\ outbox[u] \in Seq(Out)
    BY DEF WorkerReads, ShareType
  <1>1. 1 \in DOMAIN inbox[u] /\ m.type \in InTypes /\ m = Head(inbox[u])
    BY <1>h
  <1>t. inbox'[u] = Tail(inbox[u]) /\ \A w \in Workers : w # u => inbox'[w] = inbox[w]
    BY <1>1 DEF WorkerReads, ShareType, InTypes
  <1>2. (m.type = "round1" /\ HandleRound1(u, m.body)) \/ (m.type = "round2" /\ HandleRound2(u, m.body))
    BY <1>1 DEF WorkerReads, InTypes
  <1> HIDE DEF m
  <1>3. Turns' /\ Wires' /\ CleanShare'
    BY <1>0 DEF Core, Turns, Wires, Wire, CleanShare, Clean, Verifies
  <1>4. RestQuiet'
    BY <1>0, <1>1 DEF Core, RestQuiet, Quiet, m
  <1>5. LastRounds'
    <2> SUFFICES ASSUME NEW f \in Flows, Last(f)' PROVE Rounds(f)'
      BY DEF LastRounds
    <2>1. Rounds(f)
      BY <1>0 DEF Last, Clean, Core, LastRounds
    <2>2. at[f] \in InTypes /\ OneRound(f) /\ Alone
      BY <2>1, <1>1 DEF Rounds, Quiet, m
    <2>3. /\ m.type = at[f] /\ m.body = f
          /\ \A w \in Workers : \A j \in DOMAIN inbox[w] : inbox[w][j].type \in InTypes => w = u /\ j = 1
          /\ \A w \in Workers : \A j \in DOMAIN outbox[w] : outbox[w][j].type \notin OutTypes
      BY <2>2, <1>1 DEF OneRound, m
    <2>4. \A w \in Workers : \A i \in DOMAIN inbox'[w] : inbox'[w][i].type \notin InTypes
      <3>1. \A i \in DOMAIN inbox'[u] : i + 1 \in DOMAIN inbox[u] /\ inbox'[u][i] = inbox[u][i + 1] /\ i + 1 # 1
        BY <1>h, <1>t, TailAt
      <3>2. ASSUME NEW i \in DOMAIN inbox'[u] PROVE inbox'[u][i].type \notin InTypes
        BY <2>3, <3>1
      <3>3. ASSUME NEW w \in Workers, w # u, NEW i \in DOMAIN inbox'[w] PROVE inbox'[w][i].type \notin InTypes
        BY <1>t, <2>3, <3>3
      <3>4. QED
        BY <3>2, <3>3
    <2>5. ASSUME NEW x \in Out, outbox' = [outbox EXCEPT ![u] = Append(@, x)]
          PROVE  \A w \in Workers : \A i \in DOMAIN outbox'[w] : outbox'[w][i].type \in OutTypes =>
                   w = u /\ i = Len(outbox[u]) + 1 /\ outbox'[w][i] = x
      <3>1. outbox'[u] = Append(outbox[u], x) /\ \A w \in Workers : w # u => outbox'[w] = outbox[w]
        BY <2>5 DEF ShareType
      <3>2. \A i \in DOMAIN outbox'[u] : \/ i \in DOMAIN outbox[u] /\ outbox'[u][i] = outbox[u][i]
                                         \/ i = Len(outbox[u]) + 1 /\ outbox'[u][i] = x
        BY <1>h, <3>1
      <3>3. QED
        BY <2>3, <3>1, <3>2
    <2>6. ASSUME NEW x \in Out, outbox' = [outbox EXCEPT ![u] = Append(@, x)],
                 x.type \in OutTypes => x.type = Expected(f)
          PROVE  OneRound(f)'
      <3>1. \A w \in Workers : \A i \in DOMAIN outbox'[w] : outbox'[w][i].type \in OutTypes =>
              w = u /\ i = Len(outbox[u]) + 1 /\ outbox'[w][i] = x
        BY <2>5, <2>6
      <3>2. Expected(f)' = Expected(f)
        BY <1>0 DEF Expected
      <3>3. QED
        BY <2>4, <2>6, <3>1, <3>2 DEF OneRound
    <2>7. CASE Answer(u, "error", None) /\ UNCHANGED worker
      <3>0. [type |-> "error", body |-> None] \in Out
        BY DEF Out
      <3>1. OneRound(f)' /\ \A w \in Workers : \A i \in DOMAIN outbox'[w] : outbox'[w][i].type \notin OutTypes
        <4> DEFINE x == [type |-> "error", body |-> None]
        <4>1. outbox' = [outbox EXCEPT ![u] = Append(@, x)] /\ x.type \notin OutTypes /\ x \in Out
          BY <2>7, <3>0 DEF Answer, OutTypes
        <4> HIDE DEF x
        <4>2. OneRound(f)'
          BY <4>1, <2>6
        <4>3. \A w \in Workers : \A i \in DOMAIN outbox'[w] : outbox'[w][i].type \in OutTypes =>
                w = u /\ i = Len(outbox[u]) + 1 /\ outbox'[w][i] = x
          BY <4>1, <2>5
        <4>4. QED
          BY <4>1, <4>2, <4>3
      <3>2. Alone'
        BY <2>2, <2>7 DEF Alone
      <3>3. QED
        BY <3>1, <3>2, <2>2, <2>4, <1>0 DEF Rounds, InTypes
    <2>8. CASE m.type = "round1" /\ HandleRound1(u, m.body)
      <3>2. CASE worker' = [worker EXCEPT ![u].sign = SigningState(f)] /\ Answer(u, "commitment", GenerateNonces)
        <4>0. PICK n \in Nat : n = nonces + 1
          BY DEF WorkerInv, Fresh
        <4> DEFINE x == [type |-> "commitment", body |-> n]
        <4>1. outbox' = [outbox EXCEPT ![u] = Append(@, x)] /\ x.type = Expected(f) /\ x \in Out
          BY <3>2, <2>3, <2>8, <4>0 DEF Answer, GenerateNonces, Expected, Out, OutTypes
        <4>2. worker'[u].sign = [nonce |-> n, msg |-> f] /\ \A w \in Workers : w # u => worker'[w] = worker[w]
          BY <3>2, <4>0 DEF SigningState, GenerateNonces, WorkerInv, Shape
        <4>3. Idle
          BY <2>1, <2>3, <2>8, <1>1 DEF Rounds, m
        <4>4. Signs(f, n)' /\ Alone'
          BY <4>2, <4>3 DEF Signs, Alone, Idle
        <4>5. OneRound(f)' /\ \A w \in Workers : \A i \in DOMAIN outbox'[w] :
                outbox'[w][i].type \in OutTypes => outbox'[w][i].body = n
          <5>1. x.body = n
            OBVIOUS
          <5> HIDE DEF x
          <5>2. OneRound(f)'
            BY <4>1, <2>6
          <5>3. \A w \in Workers : \A i \in DOMAIN outbox'[w] : outbox'[w][i].type \in OutTypes =>
                  w = u /\ i = Len(outbox[u]) + 1 /\ outbox'[w][i] = x
            BY <4>1, <2>5
          <5>4. QED
            BY <5>1, <5>2, <5>3
        <4>6. QED
          BY <4>4, <4>5, <2>2, <2>3, <2>4, <2>8, <1>0 DEF Rounds, InTypes
      <3>3. QED
        BY <2>8, <2>7, <2>3, <3>2 DEF HandleRound1
    <2>9. CASE m.type = "round2" /\ HandleRound2(u, m.body)
      <3>2. CASE /\ worker[u].sign # NoSign /\ Answer(u, "partial_sig", ComputePartialSignature(u, f))
                 /\ worker' = AfterRound2(u)
        <4> DEFINE y == ComputePartialSignature(u, f)
                   x == [type |-> "partial_sig", body |-> y]
        <4>0. y \in Partial
          BY <3>2 DEF ComputePartialSignature, Partial, ShareType
        <4>1. outbox' = [outbox EXCEPT ![u] = Append(@, x)] /\ x.type = Expected(f)
          BY <3>2, <2>3, <2>9 DEF Answer, Expected
        <4>2. Signs(f, commit[f])
          BY <2>1, <2>3, <2>9, <1>1 DEF Rounds, m
        <4>3. Verifies(f, y)
          BY <3>2, <4>2 DEF Signs, Verifies, ComputePartialSignature
        <4> HIDE DEF y
        <4>x. x \in Out
          BY <4>0 DEF Out, OutTypes
        <4>4. OneRound(f)' /\ \A w \in Workers : \A i \in DOMAIN outbox'[w] :
                outbox'[w][i].type \in OutTypes => outbox'[w][i].body = y
          <5>1. x.body = y
            OBVIOUS
          <5> HIDE DEF x
          <5>2. OneRound(f)'
            BY <4>1, <4>x, <2>6
          <5>3. \A w \in Workers : \A i \in DOMAIN outbox'[w] : outbox'[w][i].type \in OutTypes =>
                  w = u /\ i = Len(outbox[u]) + 1 /\ outbox'[w][i] = x
            BY <4>1, <4>x, <2>5
          <5>4. QED
            BY <5>1, <5>2, <5>3
        <4>5. \A w \in Workers : \A i \in DOMAIN outbox'[w] :
                outbox'[w][i].type \in OutTypes => Verifies(f, outbox[w][i].body)'
          BY <4>3, <4>4, <1>0 DEF Verifies
        <4>6. Idle' /\ Alone'
          <5>1. worker'[u].sign = NoSign /\ \A w \in Workers : w # u => worker'[w] = worker[w]
            BY <3>2 DEF AfterRound2, WorkerInv, Shape
          <5>2. \A w \in Workers : w # u => worker[w].sign = NoSign
            BY <2>2, <3>2 DEF Alone
          <5>3. QED
            BY <5>1, <5>2 DEF Idle, Alone
        <4>7. QED
          BY <4>4, <4>5, <4>6, <2>2, <2>3, <2>4, <2>9, <1>0 DEF Rounds, InTypes
      <3>3. QED
        BY <2>9, <2>7, <2>3, <3>2 DEF HandleRound2
    <2>10. QED
      BY <1>2, <2>8, <2>9
  <1>6. QED
    BY <1>3, <1>4, <1>5 DEF Core

\* The server answers f.
LEMMA ServerKeeps ==
  ASSUME Core, PromiseInv, ShareType, ShareType', NEW f \in Flows, ServerReads(f)
  PROVE  Core'
  <1>0. UNCHANGED <<at, ws, promise, pending, spent, worker, inbox, outbox>>
    BY DEF ServerReads, browser
  <1>1. /\ \A g \in Flows : g # f => net'[g] = net[g] /\ commit'[g] = commit[g]
        /\ \/ net[f].type = "request_cert" /\ net'[f].type \in {"error", "session"} /\ commit' = commit
           \/ net[f].type = "round1" /\ net'[f].type \in {"error", "commitment"} /\ commit'[f] = net[f].body
           \/ net[f].type = "round2" /\ net'[f].type \in {"error", "certificate"} /\ commit' = commit
    BY DEF ServerReads, HandleRequestCert, ServerRound1, ServerRound2, Reply, server, PromiseInv,
           FlowInv, ShareType
  <1>2. Turns'
    BY <1>0 DEF Core, Turns
  <1>3. Wires'
    BY <1>0, <1>1 DEF Core, Wires, Wire
  <1>4. LastRounds'
    <2> SUFFICES ASSUME NEW g \in Flows, Last(g)' PROVE Rounds(g)'
      BY DEF LastRounds
    <2>1. Last(g) /\ Rounds(g)
      BY <1>0 DEF Last, Clean, Core, LastRounds
    <2>2. CASE g # f
      <3>1. Fewer
        BY <1>0, SameFewer
      <3>2. QED
        BY <2>1, <2>2, <3>1, <1>0, <1>1, LessKeeps
    <2>3. CASE g = f
      <3>1. Wire(f)
        BY DEF Core, Wires
      <3>2. at[f] \notin {"round1", "round2"} /\ (net[f].type = "round2" => at[f] # "commitment")
        BY <1>1, <3>1 DEF Wire
      <3>3. Quiet' /\ Alone'
        BY <1>0, <2>1, <2>3, <3>2 DEF Rounds, Quiet, Alone, InTypes
      <3>i. at[f] \in {"opening", "session", "certificate"} => Idle'
        BY <1>0, <2>1, <2>3 DEF Rounds, Idle
      <3>4. at[f] = "commitment" /\ net'[f].type = "commitment" => Signs(f, commit[f])'
        BY <1>0, <1>1, <2>1, <2>3 DEF Rounds, Signs
      <3>5. QED
        BY <1>0, <1>1, <2>3, <3>2, <3>3, <3>i, <3>4 DEF Rounds, InTypes
    <2>4. QED
      BY <2>2, <2>3
  <1>5. RestQuiet'
    BY <1>0 DEF Core, RestQuiet, Quiet, Idle
  <1>6. CleanShare'
    BY <1>0, <1>1 DEF Core, CleanShare, Clean, Verifies
  <1>7. QED
    BY <1>2, <1>3, <1>4, <1>5, <1>6 DEF Core

\* A flow that ends without a certificate is cut off.
LEMMA FinishCuts ==
  ASSUME Core, PromiseInv, NEW f \in Flows, at[f] \in AtSocket \cup InTypes, Finish(f, FALSE),
         net' = net \/ net' = [net EXCEPT ![f] = Silent],
         pending' \in {pending, None}, pending' # f, Fewer, commit' = commit
  PROVE  CutOff(f)
  <1>1. f \notin spent /\ at[f] # "new"
    BY DEF PromiseInv, FlowInv, AtSocket, InTypes
  <1>2. QED
    BY <1>1 DEF CutOff, Finish, Settle

\* Every step of a flow.
LEMMA FlowKeeps ==
  ASSUME Core, PromiseInv, LifeInv, ShareType, ShareType', NEW f \in Flows, FlowSteps(f)
  PROVE  Core'
  <1>n. None \notin Flows /\ (at[f] \in AtSocket => pending # f)
    BY OthersApart DEF Calls, PromiseInv, FlowInv, AtSocket, AtWorker
  <1>1. CASE SocketFails(f)
    <2>1. f \notin spent /\ at[f] # "new" /\ (at[f] = "opening" => pending # f)
      BY <1>1, <1>n DEF SocketFails, Core, Turns, PromiseInv, FlowInv, AtWorker
    <2>2. CutOff(f)
      <3>0. Fewer
        BY <1>1, SameFewer DEF SocketFails, thread
      <3>1. CASE at[f] = "opening"
        BY <1>1, <2>1, <3>0, <3>1 DEF SocketFails, Settle, CutOff, server
      <3>2. CASE at[f] # "opening"
        BY <1>1, <2>1, <3>0, <3>2 DEF SocketFails, Settle, CutOff, server
      <3>3. QED
        BY <3>1, <3>2
    <2>3. QED
      BY <2>2, CutOffKeeps
  <1>2. CASE FlowTimeout(f)
    <2>1. CutOff(f)
      BY <1>2, <1>n, SameFewer, FinishCuts DEF FlowTimeout, thread, server
    <2>2. QED
      BY <2>1, CutOffKeeps
  <1>3. CASE FlowReceive(f)
    <2>0. /\ at[f] \in AtSocket /\ ws[f] = "open" /\ net' = [net EXCEPT ![f] = Silent]
          /\ UNCHANGED <<worker, outbox, commit>>
      BY <1>3 DEF FlowReceive, server
    <2>1. CASE Finish(f, FALSE) /\ UNCHANGED <<pending, inbox>>
      <3>1. CutOff(f)
        BY <1>n, <2>0, <2>1, SameFewer, FinishCuts
      <3>2. QED
        BY <3>1, CutOffKeeps
    <2>2. CASE at[f] = "certificate" /\ Finish(f, TRUE)
      BY <1>3, <2>2, CertificateKeeps
    <2>3. CASE /\ net[f].type = at[f] /\ at[f] \in {"session", "commitment"}
               /\ SendToWorker(f, IF at[f] = "session" THEN "round1" ELSE "round2", f)
               /\ UNCHANGED <<ws, promise, ask, spent>>
      BY <2>0, <2>3, SendKeeps
    <2>4. QED
      BY <1>3, <2>1, <2>2, <2>3 DEF FlowReceive
  <1>4. QED
    BY <1>1, <1>2, <1>3, OpenKeeps, ServerKeeps DEF FlowSteps

\* The promise of a flow's round settles.
LEMMA RoundKeeps ==
  ASSUME Core, PromiseInv, WorkerInv, ShareType, ShareType', NEW f \in Flows, at[f] \in AtWorker,
         pending' = None, NEW a, NEW rest, Resume(f, a, rest),
         \/ a = Rejection /\ rest = outbox
         \/ \E w \in Workers : /\ pending = f /\ outbox[w] # <<>> /\ a = Head(outbox[w])
                               /\ rest = [outbox EXCEPT ![w] = Tail(@)]
  PROVE  Core'
  <1>0. None \notin Flows /\ f \notin Pings \cup Unlocks \cup Stops
    BY OthersApart DEF Calls
  <1>1. RoundReturns(f, a, rest) /\ commit' = commit
    BY <1>0 DEF Resume, server
  <1>2. UNCHANGED <<worker, inbox>> /\ outbox' = rest /\ Fewer
    BY <1>1, ResumeFewer DEF RoundReturns, KeepWorker
  <1>3. at[f] \in InTypes
    BY DEF Core, Turns, AtWorker, AtSocket, InTypes
  <1>4. CASE Finish(f, FALSE) /\ UNCHANGED net
    <2>1. CutOff(f)
      BY <1>0, <1>1, <1>2, <1>3, <1>4, FinishCuts
    <2>2. QED
      BY <2>1, CutOffKeeps
  <1>5. CASE /\ a.type = Expected(f)
             /\ at' = [at EXCEPT ![f] = IF @ = "round1" THEN "commitment" ELSE "certificate"]
             /\ net' = [net EXCEPT ![f] = [to |-> "server", type |-> at[f], body |-> a.body]]
             /\ UNCHANGED <<promise, ask, ws, spent>>
    <2>1. a # Rejection
      BY <1>5 DEF Rejection, Expected
    <2>2. PICK w \in Workers : /\ pending = f /\ outbox[w] # <<>> /\ a = Head(outbox[w])
                               /\ rest = [outbox EXCEPT ![w] = Tail(@)]
      BY <2>1
    <2>3. QED
      BY <1>1, <1>2, <1>5, <2>2, ReturnKeeps
  <1>6. QED
    BY <1>1, <1>4, <1>5 DEF RoundReturns

\* Every step keeps the whole.
LEMMA SharesStep ==
  ASSUME SharesInv, WorkerInv, PromiseInv, [Next]_vars
  PROVE  SharesInv'
  <1>1. Core /\ ShareType /\ ShareType'
    BY TypeStep DEF SharesInv, Core
  <1>2. CASE Bystander
    BY <1>1, <1>2, BystanderKeeps DEF SharesInv, Core
  <1>3. CASE OfFlow
    <2>1. ASSUME NEW h \in Hosts, promise = None, RequestCertificate(h) PROVE Core'
      BY <1>1, <2>1, NewFlowKeeps
    <2>2. ASSUME NEW f \in Flows, FlowSteps(f) PROVE Core'
      BY <1>1, <2>2, FlowKeeps DEF WorkerInv
    <2>3. ASSUME NEW f \in Flows, WorkerTimeout(f) PROVE Core'
      BY <1>1, <2>3, RoundKeeps DEF WorkerTimeout
    <2>4. ASSUME NEW w \in Workers, pending \in Flows, HandleWorkerMessage(w) PROVE Core'
      <3>1. pending # None /\ at[pending] \in AtWorker
        BY <2>4, OthersApart DEF Calls, PromiseInv, FlowInv
      <3>2. QED
        BY <1>1, <2>4, <3>1, RoundKeeps DEF HandleWorkerMessage
    <2>5. ASSUME NEW w \in Workers, WorkerReads(w), Head(inbox[w]).type \in InTypes PROVE Core'
      BY <1>1, <2>5, ReadsKeeps
    <2>6. QED
      BY <1>1, <1>3, <2>1, <2>2, <2>3, <2>4, <2>5 DEF OfFlow, SharesInv, Core
  <1>4. QED
    BY <1>1, <1>2, <1>3, StepCases

\* It holds at first.
LEMMA SharesInit == Init => SharesInv
  <1> SUFFICES ASSUME Init PROVE SharesInv
    OBVIOUS
  <1>0. \A w \in Workers : worker[w].sign = NoSign
    BY DEF Init, Spawned, Gone
  <1>1. ShareType
    BY <1>0 DEF Init, ShareType
  <1>2. Turns /\ Wires
    BY OthersApart DEF Init, Turns, Wires, Wire, Silent, Calls
  <1>3. Quiet /\ Idle
    BY <1>0 DEF Init, Quiet, Idle
  <1>5. LastRounds /\ RestQuiet /\ CleanShare
    BY <1>3, OthersApart DEF Init, LastRounds, Last, RestQuiet, CleanShare, Silent, Calls
  <1>4. QED
    BY <1>1, <1>2, <1>5 DEF SharesInv

(* Every share that reaches the server verifies, unless an earlier flow was *)
(* cut off: with any number of flows, probes and unlocks, one slot and one  *)
(* signing state are enough because certRequestPromise admits one flow.    *)
THEOREM SharesSafe == Spec => []SharesVerify
  <1>1. SharesInv => SharesVerify
    <2> SUFFICES ASSUME SharesInv, NEW f \in Flows, net[f].type = "round2",
                        \A g \in Flows : g < f => ~(ws[g] = "closed" /\ g \notin spent)
                 PROVE  Verifies(f, net[f].body)
      BY DEF SharesVerify
    <2>1. at[f] # "new"
      BY DEF SharesInv, Wires, Wire
    <2>2. Clean(f)
      BY <2>1 DEF SharesInv, Turns, Clean
    <2>3. QED
      BY <2>2 DEF SharesInv, CleanShare
  <1>2. Init => SharesInv /\ WorkerInv /\ PromiseInv
    BY SharesInit, WorkerInit, PromiseInit
  <1>3. SharesInv /\ WorkerInv /\ PromiseInv /\ [Next]_vars => (SharesInv /\ WorkerInv /\ PromiseInv)'
    BY SharesStep, WorkerStep, PromiseStep
  <1>4. QED
    BY <1>1, <1>2, <1>3, PTL DEF Spec
=============================================================================
