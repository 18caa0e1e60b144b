------------------------------ MODULE Watcher ------------------------------
(***************************************************************************)
(* The life of one named tmux session on one host: `devsesh start`         *)
(* (cmd/start.go), the detached `devsesh watch` processes it spawns        *)
(* (cmd/watch.go) and the flock that keeps them to one per name            *)
(* (internal/client/lock.go), the tmux daemon, and the rows the server     *)
(* keeps for the session's ids.                                            *)
(*                                                                         *)
(* Every process runs one step per tmux command, file operation or HTTP    *)
(* call it makes, so that users, processes and the server interleave       *)
(* between them.                                                           *)
(***************************************************************************)
EXTENDS Integers, FiniteSetsExt

CONSTANTS
  Watchers,   \* process slots for `devsesh watch`
  Starts,     \* process slots for `devsesh start`
  NoOne,      \* the holder of a free lock
  MaxIds,     \* bound on the session ids minted
  MaxTmux,    \* bound on the tmux sessions created under the name
  MaxFaults   \* bound on crashes, signals, failed calls, deletions and reboots

ASSUME BoundAssumption == MaxIds \in Nat /\ MaxTmux \in Nat /\ MaxFaults \in Nat
ASSUME NoOneAssumption == NoOne \notin Watchers

Ids  == 1..MaxIds
NoId == 0

VARIABLES
  tmux,    \* the incarnation of the tmux session that runs, 0 when none does
  born,    \* incarnations so far
  env,     \* DEVSESH_SESSION_ID in the tmux session's environment
  minted,  \* ids minted so far
  rows,    \* the server's row of an id: "none", "live", "ended"
  online,  \* ids the server heard of within the liveness window
  lock,    \* who holds the flock of the name
  wpc,     \* where each watcher is
  wid,     \* the id it reports as
  saw,     \* history: incarnations born when it last found the session gone
  spc,     \* where each start is
  sid,     \* the id it settled on
  budget   \* faults still to come at most: 0 once the last one has happened

host  == <<tmux, born, env, minted>>
cloud == <<rows, online>>
watch == <<lock, wpc, wid, saw>>
start == <<spc, sid>>
vars  == <<tmux, born, env, minted, rows, online, lock, wpc, wid, saw, spc, sid, budget>>

Up   == tmux # 0      \* client.SessionExists

Init ==
  /\ tmux = 0 /\ born = 0 /\ env = NoId
  /\ minted = 0
  /\ rows = [i \in Ids |-> "none"] /\ online = {}
  /\ lock = NoOne
  /\ wpc = [w \in Watchers |-> "off"]
  /\ wid = [w \in Watchers |-> NoId]
  /\ saw = [w \in Watchers |-> 0]
  /\ spc = [p \in Starts |-> "idle"]
  /\ sid = [p \in Starts |-> NoId]
  /\ budget \in 0..MaxFaults

Fault == budget > 0 /\ budget' = budget - 1
Fine  == UNCHANGED budget

-----------------------------------------------------------------------------
(* The tmux daemon and its users. *)

\* tmux new-session: a new incarnation with this environment.
NewTmux(id) == tmux' = born + 1 /\ born' = born + 1 /\ env' = id

\* The user opens a tmux session of this name without devsesh.
ForeignTmux ==
  /\ ~Up /\ born < MaxTmux
  /\ NewTmux(NoId)
  /\ UNCHANGED <<minted, cloud, watch, start, budget>>

\* The last shell exits, or `devsesh stop` kills the session.
KillSession ==
  /\ Up
  /\ tmux' = 0 /\ env' = NoId
  /\ UNCHANGED <<born, minted, cloud, watch, start, budget>>

-----------------------------------------------------------------------------
(* devsesh start *)

To(p, pc) == spc' = [spc EXCEPT ![p] = pc]

\* The process becomes the attached tmux client, or gives up.
Done(p) == To(p, "idle") /\ sid' = [sid EXCEPT ![p] = NoId]

\* runStart branches on has-session.
RunStart(p) ==
  /\ spc[p] = "idle"
  /\ To(p, IF Up THEN "getenv" ELSE "lookup")
  /\ UNCHANGED <<host, cloud, watch, sid, budget>>

\* ensureWatcher: GetSessionEnv, empty also when the session has gone meanwhile.
GetSessionEnv(p) ==
  /\ spc[p] = "getenv"
  /\ To(p, IF env = NoId THEN "mint" ELSE "spawn")
  /\ sid' = [sid EXCEPT ![p] = env]
  /\ UNCHANGED <<host, cloud, watch, budget>>

\* exec of a detached `devsesh watch`.
Spawn(w, id) ==
  /\ wpc[w] = "off"
  /\ wpc' = [wpc EXCEPT ![w] = "exists"]
  /\ wid' = [wid EXCEPT ![w] = id]
  /\ UNCHANGED <<lock, saw>>

Mint(id) == id = minted + 1 /\ minted' = id

\* The bound on ids leaves one for every watcher that is yet to mint its own.
Spare == minted + Cardinality({w \in Watchers : wpc[w] # "off" /\ wid[w] = NoId}) < MaxIds

\* An id the environment does not hold is minted and recorded there.
EnsureId(p) ==
  /\ spc[p] = "mint" /\ Spare
  /\ \E id \in Ids :
       /\ Mint(id)
       /\ env' = IF Up THEN id ELSE env
       /\ sid' = [sid EXCEPT ![p] = id]
  /\ To(p, "spawn")
  /\ UNCHANGED <<tmux, born, cloud, watch, budget>>

\* GetSessionByHostAndName: the most recently started row, whatever its state.
Known == {i \in Ids : rows[i] # "none"}

\* GetSessionByName, then the session file is written under the id.
LookupSession(p) ==
  /\ spc[p] = "lookup"
  /\ \/ /\ Known # {} /\ Fine
        /\ sid' = [sid EXCEPT ![p] = Max(Known)]
        /\ UNCHANGED minted
     \/ /\ (Known = {} /\ Fine) \/ (Known # {} /\ Fault)
        /\ Spare /\ \E id \in Ids : Mint(id) /\ sid' = [sid EXCEPT ![p] = id]
  /\ To(p, "create")
  /\ UNCHANGED <<tmux, born, env, cloud, watch>>

\* NewSessionDetached fails on a name already taken; the start then gives up.
CreateTmux(p) ==
  /\ spc[p] = "create"
  /\ \/ Up /\ Done(p) /\ UNCHANGED <<tmux, born, env>>
     \/ ~Up /\ born < MaxTmux /\ NewTmux(sid[p]) /\ To(p, "spawn") /\ UNCHANGED sid
  /\ UNCHANGED <<minted, cloud, watch, budget>>

\* spawnWatcher, the last step of both branches before the attach.
SpawnWatcher(p, w) ==
  /\ spc[p] = "spawn"
  /\ Spawn(w, sid[p])
  /\ Done(p)
  /\ UNCHANGED <<host, cloud, budget>>

\* "If it fails to spawn we still attach -- the session just won't be monitored."
SpawnFails(p) ==
  /\ spc[p] = "spawn"
  /\ Fault
  /\ Done(p)
  /\ UNCHANGED <<host, cloud, watch>>

-----------------------------------------------------------------------------
(* devsesh watch *)

At(w, pc) == wpc' = [wpc EXCEPT ![w] = pc]

\* The process ends and the kernel drops its flock.
Leave(w) ==
  /\ At(w, "off")
  /\ lock' = IF lock = w THEN NoOne ELSE lock
  /\ wid' = [wid EXCEPT ![w] = NoId]
  /\ saw' = [saw EXCEPT ![w] = 0]

\* `devsesh watch <name>` by hand, without --id.
RunWatch(w) ==
  /\ Spare
  /\ Spawn(w, NoId)
  /\ UNCHANGED <<host, cloud, start, budget>>

CheckExists(w) ==
  /\ wpc[w] = "exists"
  /\ IF Up THEN At(w, "lock") /\ UNCHANGED <<lock, wid, saw>> ELSE Leave(w)
  /\ UNCHANGED <<host, cloud, start, budget>>

\* Non-blocking: a watcher that finds the lock held bows out.
AcquireWatcherLock(w) ==
  /\ wpc[w] = "lock"
  /\ IF lock = NoOne THEN At(w, "file") /\ lock' = w /\ UNCHANGED <<wid, saw>> ELSE Leave(w)
  /\ UNCHANGED <<host, cloud, start, budget>>

\* The session file is read or created; a generated id goes into the environment.
PrepareFile(w) ==
  /\ wpc[w] = "file"
  /\ \/ /\ wid[w] # NoId
        /\ UNCHANGED <<wid, minted, env>>
     \/ /\ wid[w] = NoId
        /\ \E id \in Ids :
             /\ Mint(id)
             /\ wid' = [wid EXCEPT ![w] = id]
             /\ env' = IF Up THEN id ELSE env
  /\ At(w, "register")
  /\ UNCHANGED <<tmux, born, cloud, lock, saw, start, budget>>

\* ON CONFLICT without ended_at = NULL.
KeepsEndedAt(id) ==
  /\ rows' = [rows EXCEPT ![id] = IF @ = "none" THEN "live" ELSE @]
  /\ online' = online \cup {id}

\* CreateSession's upsert clears ended_at.
Registered(id) == rows' = [rows EXCEPT ![id] = "live"] /\ online' = online \cup {id}

\* NotifySessionStart, tried once; a failure is only logged.
NotifySessionStart(w) ==
  /\ wpc[w] = "register"
  /\ (Registered(wid[w]) /\ Fine) \/ (Fault /\ UNCHANGED cloud)
  /\ At(w, "watching")
  /\ UNCHANGED <<host, lock, wid, saw, start>>

\* The heartbeat; RequireSessionOwner answers 404 when there is no row.
Pinged(id) == IF rows[id] = "none" THEN online ELSE online \cup {id}

PingSession(w) ==
  /\ wpc[w] = "watching"
  /\ online' = Pinged(wid[w])
  /\ UNCHANGED <<host, rows, watch, start, budget>>

\* The control client returns and has-session fails: out of the loop.  While the
\* session exists, the loop attaches again, whichever incarnation it is.
LoopBreak(w) ==
  /\ wpc[w] = "watching"
  /\ ~Up
  /\ At(w, "stopping")
  /\ UNCHANGED <<host, cloud, lock, wid, saw, start, budget>>

\* SIGINT or SIGTERM once the context listens for it.
Signal(w) ==
  /\ wpc[w] \in {"watching", "stopping"}
  /\ Fault
  /\ At(w, "signalled")
  /\ UNCHANGED <<host, cloud, lock, wid, saw, start>>

SignalExit(w) ==
  /\ wpc[w] = "signalled"
  /\ Leave(w)
  /\ UNCHANGED <<host, cloud, start, budget>>

\* Without the check that the session is gone.
EndUnchecked(w) ==
  /\ wpc[w] = "stopping"
  /\ At(w, "ending")
  /\ saw' = [saw EXCEPT ![w] = born]
  /\ UNCHANGED <<host, cloud, lock, wid, start, budget>>

\* Without the end notification.
LeaveUnended(w) ==
  /\ wpc[w] = "stopping"
  /\ Leave(w)
  /\ UNCHANGED <<host, cloud, start, budget>>

\* The workers are stopped; is the session still gone?
FinalCheck(w) ==
  /\ wpc[w] = "stopping"
  /\ \/ Up /\ Leave(w)
     \/ ~Up /\ At(w, "ending") /\ saw' = [saw EXCEPT ![w] = born] /\ UNCHANGED <<lock, wid>>
  /\ UNCHANGED <<host, cloud, start, budget>>

\* EndSession marks the row, if there is one.
Ended(id) == rows' = [rows EXCEPT ![id] = IF rows[id] = "none" THEN "none" ELSE "ended"]

\* NotifySessionEnd, tried once; the session file is removed either way.
NotifySessionEnd(w) ==
  /\ wpc[w] = "ending"
  /\ (Ended(wid[w]) /\ Fine) \/ (Fault /\ UNCHANGED rows)
  /\ Leave(w)
  /\ UNCHANGED <<host, online, start>>

-----------------------------------------------------------------------------
(* Faults and the passing of time. *)

Crash(w) ==
  /\ wpc[w] # "off"
  /\ Fault
  /\ Leave(w)
  /\ UNCHANGED <<host, cloud, start>>

Reboot ==
  /\ Fault
  /\ tmux' = 0 /\ env' = NoId
  /\ lock' = NoOne
  /\ wpc' = [w \in Watchers |-> "off"]
  /\ wid' = [w \in Watchers |-> NoId]
  /\ saw' = [w \in Watchers |-> 0]
  /\ spc' = [p \in Starts |-> "idle"]
  /\ sid' = [p \in Starts |-> NoId]
  /\ UNCHANGED <<born, minted, cloud>>

\* The user deletes the session on the dashboard, or the stale clean-up does.
DeleteRow(id) ==
  /\ rows[id] # "none"
  /\ Fault
  /\ rows' = [rows EXCEPT ![id] = "none"]
  /\ online' = online \ {id}
  /\ UNCHANGED <<host, watch, start>>

\* Nobody pings for the id any more and the liveness window passes.
GoesQuiet(id) ==
  /\ id \in online
  /\ \A w \in Watchers : wpc[w] = "watching" => wid[w] # id
  /\ online' = online \ {id}
  /\ UNCHANGED <<host, rows, watch, start, budget>>

-----------------------------------------------------------------------------
WatchStep(w) ==
  \/ CheckExists(w) \/ AcquireWatcherLock(w) \/ PrepareFile(w) \/ NotifySessionStart(w)
  \/ LoopBreak(w) \/ SignalExit(w) \/ FinalCheck(w) \/ NotifySessionEnd(w)

StartStep(p) ==
  \/ GetSessionEnv(p) \/ EnsureId(p) \/ LookupSession(p) \/ CreateTmux(p)
  \/ \E w \in Watchers : SpawnWatcher(p, w)

Next ==
  \/ ForeignTmux \/ KillSession \/ Reboot
  \/ \E p \in Starts : RunStart(p) \/ StartStep(p) \/ SpawnFails(p)
  \/ \E w \in Watchers :
       WatchStep(w) \/ PingSession(w) \/ RunWatch(w) \/ Signal(w) \/ Crash(w)
  \/ \E id \in Ids : DeleteRow(id) \/ GoesQuiet(id)

\* Processes that can run do, HTTP calls end (httpClient has a timeout) and the
\* heartbeat's ticker ticks.  Users owe nothing.
Fairness ==
  /\ \A w \in Watchers : WF_vars(WatchStep(w)) /\ WF_vars(PingSession(w))
  /\ \A p \in Starts : WF_vars(StartStep(p))

Spec == Init /\ [][Next]_vars /\ Fairness

-----------------------------------------------------------------------------
(* Properties. *)

\* A watcher marks a row ended only if the tmux session was gone after its workers
\* stopped: whoever runs now was born after that look.  Neither a signal nor a
\* dropped control client ends the row of a session that lives on ("Only end the
\* session if it truly ended").
NoEndOfSurvivor ==
  [][\A w \in Watchers :
       (wpc[w] = "ending" /\ rows' # rows /\ wpc'[w] = "off") => (~Up \/ tmux > saw[w])]_vars

\* When the tmux session is gone its row does not stay live: the watcher that
\* holds the lock, however far it has come, marks it ended, unless something
\* fails or the session is started again.
EndReported ==
  \A id \in Ids :
    ((\E w \in Watchers : lock = w /\ wpc[w] # "signalled" /\ wid[w] = id)
       /\ rows[id] = "live" /\ ~Up /\ budget = 0)
      ~> (rows[id] # "live" \/ Up)

\* A start brings a running session nobody watches online under the id in its
\* environment, whether its watcher crashed, its row was marked ended or deleted,
\* or it never had one ("either way it would otherwise show as offline").
Alone(w) ==
  /\ lock = NoOne
  /\ \A v \in Watchers \ {w} : wpc[v] = "off"
  /\ \A p \in Starts : spc[p] = "idle"

StartRevives ==
  \A i \in 1..MaxTmux :
    ((\E w \in Watchers : wpc[w] = "exists" /\ wid[w] = env /\ Alone(w))
       /\ env # NoId /\ tmux = i /\ budget = 0)
      ~> ((env # NoId /\ rows[env] = "live" /\ env \in online) \/ tmux # i)

=============================================================================
