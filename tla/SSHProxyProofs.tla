--------------------------- MODULE SSHProxyProofs ---------------------------
(***************************************************************************)
(* The safety of SSHProxy for every limit, every number of other           *)
(* connections and any amount of output.                                   *)
(***************************************************************************)
EXTENDS MCSSHProxy, TLAPS

\* The goroutines exist once Run has started them.
Before == {"none", "auth", "admitted", "dialing", "greeting"}
StartedByRun == handler \in Before => \A g \in Goroutines : pc[g] = "off"

\* Each mutex is held by whoever is inside the section it guards, and by no one else.
WriteMuExact ==
  /\ \A g \in Goroutines : writeMu = g <=> pc[g] = "writing"
  /\ writeMu = "handler" <=> handler = "saying"
MuExact ==
  \A g \in Goroutines : mu = g <=> pc[g] \in {"checking", "closing", "shutting"}

\* What a goroutine read of done under mu is still true when it closes it.
DoneStillOpen == \A g \in Goroutines : pc[g] = "closing" => done = "open"

\* A chunk that was read and not yet written is in the hands of the goroutine.
Carried == pc["down"] \in {"locking", "writing"} => wire < took

IInv ==
  /\ TypeOK /\ SlotsExact /\ NoPanic
  /\ StartedByRun /\ WriteMuExact /\ MuExact /\ DoneStillOpen /\ Carried

USE DEF TypeOK, NoPanic, Goroutines, NoOne, Handlers, Stages, Before, slots, world, locks

\* The initial state satisfies the inductive invariant.
LEMMA InitInv == Init => IInv
  BY DEF Init, IInv, SlotsExact, HoldsSlot, StartedByRun, WriteMuExact, MuExact,
         DoneStillOpen, Carried

\* The slot count follows the handlers through every admission and return.
LEMMA SlotsStep ==
  ASSUME TypeOK, SlotsExact, [Next]_vars PROVE SlotsExact'
  <1> USE DEF SlotsExact, HoldsSlot
  <1>1. CASE OtherAdmitted \/ OtherAdds \/ OtherLeaves
    BY <1>1 DEF OtherAdmitted, OtherAdds, OtherLeaves, Removed
  <1>2. CASE Upgrade \/ SayClosed
    BY <1>2 DEF Upgrade, SayClosed
  <1>3. CASE Serve
    BY <1>3 DEF Serve, Refuse, Admit, AddConnection, Dial, DialFails, Run, GreetFails,
                RunReturns, Farewell, Leave, Removed
  <1>4. CASE UpReads \/ UpStep \/ DownStep \/ PingTicks
    BY <1>4 DEF UpReads, UpStep, UpReadFails, UpWrites, UpWriteFails, DownStep, DownReads,
                DownReadFails, PingTicks
  <1>5. ASSUME NEW g \in Goroutines, Step(g) \/ LockForWrite(g) PROVE SlotsExact'
    BY <1>5 DEF Step, LockForWrite, SeesDone, WriteWs, WriteWsFails, EnterCleanup, CheckDone,
                CloseDone, CloseBoth
  <1>6. CASE PeerGoes \/ HostActs
    BY <1>6 DEF PeerGoes, HostActs
  <1>7. CASE UNCHANGED vars
    BY <1>7 DEF vars
  <1>8. QED
    BY <1>1, <1>2, <1>3, <1>4, <1>5, <1>6, <1>7 DEF Next

\* The steps of the handler, of the other connections and of the world preserve the
\* inductive invariant.
LEMMA HandlerStep ==
  ASSUME IInv,
         \/ OtherAdmitted \/ OtherAdds \/ OtherLeaves \/ Upgrade \/ Serve \/ SayClosed
         \/ PeerGoes \/ HostActs
  PROVE  IInv'
  <1> USE DEF IInv
  <1>0. SlotsExact'
    BY SlotsStep DEF Next
  <1> USE DEF StartedByRun, WriteMuExact, MuExact, DoneStillOpen, Carried
  <1>1. CASE OtherAdmitted \/ OtherAdds \/ OtherLeaves
    BY <1>0, <1>1 DEF OtherAdmitted, OtherAdds, OtherLeaves, Removed
  <1>2. CASE Upgrade \/ SayClosed
    BY <1>0, <1>2 DEF Upgrade, SayClosed
  <1>3. CASE Refuse \/ Admit \/ AddConnection \/ Dial \/ RunReturns
    BY <1>0, <1>3 DEF Refuse, Admit, AddConnection, Dial, RunReturns
  <1>4. CASE Run
    BY <1>0, <1>4 DEF Run
  <1>5. CASE DialFails \/ GreetFails \/ Farewell
    BY <1>0, <1>5 DEF DialFails, GreetFails, Farewell, Leave, Removed
  <1>6. CASE PeerGoes \/ HostActs
    BY <1>0, <1>6 DEF PeerGoes, HostActs
  <1>7. QED
    BY <1>1, <1>2, <1>3, <1>4, <1>5, <1>6 DEF Serve

\* The steps of the three goroutines preserve it.
LEMMA GoroutineStep ==
  ASSUME IInv,
         \/ UpReads \/ UpStep \/ DownStep \/ PingTicks
         \/ \E g \in Goroutines : Step(g) \/ LockForWrite(g)
  PROVE  IInv'
  <1> USE DEF IInv
  <1>0. SlotsExact'
    BY SlotsStep DEF Next
  <1> USE DEF StartedByRun, WriteMuExact, MuExact, DoneStillOpen, Carried, At, To
  <1>1. CASE UpReads \/ UpStep
    BY <1>0, <1>1 DEF UpReads, UpStep, UpReadFails, UpWrites, UpWriteFails
  <1>2. CASE DownStep
    BY <1>0, <1>2 DEF DownStep, DownReads, DownReadFails
  <1>3. CASE PingTicks
    BY <1>0, <1>3 DEF PingTicks
  <1>4. ASSUME NEW g \in Goroutines, SeesDone(g) PROVE IInv'
    BY <1>0, <1>4 DEF SeesDone
  <1>5. ASSUME NEW g \in Goroutines, LockForWrite(g) PROVE IInv'
    BY <1>0, <1>5 DEF LockForWrite
  <1>6. ASSUME NEW g \in Goroutines, WriteWs(g) \/ WriteWsFails(g) PROVE IInv'
    BY <1>0, <1>6 DEF WriteWs, WriteWsFails
  <1>7. ASSUME NEW g \in Goroutines, EnterCleanup(g) \/ CheckDone(g) PROVE IInv'
    BY <1>0, <1>7 DEF EnterCleanup, CheckDone
  <1>8. ASSUME NEW g \in Goroutines, CloseDone(g) \/ CloseBoth(g) PROVE IInv'
    BY <1>0, <1>8 DEF CloseDone, CloseBoth
  <1>9. QED
    BY <1>1, <1>2, <1>3, <1>4, <1>5, <1>6, <1>7, <1>8 DEF Step

\* The inductive invariant holds in every reachable state.
THEOREM Invariance == Spec => []IInv
  <1>1. IInv /\ [Next]_vars => IInv'
    <2> SUFFICES ASSUME IInv, [Next]_vars PROVE IInv'
      OBVIOUS
    <2>1. CASE UNCHANGED vars
      BY <2>1 DEF vars, IInv, SlotsExact, HoldsSlot, StartedByRun, WriteMuExact, MuExact,
                  DoneStillOpen, Carried
    <2>2. QED
      BY <2>1, HandlerStep, GoroutineStep DEF Next
  <1>2. QED
    BY <1>1, InitInv, PTL DEF Spec

\* ProxyHandler and its goroutines keep their types, and no output is made up on
\* the way from the host to the browser.
THEOREM TypeCorrect == Spec => []TypeOK
  BY Invariance, PTL DEF IInv

\* The count of the ConnectionManager is exact on every return path of
\* ProxyHandler, for any limit and any number of other connections.
THEOREM SlotsCorrect == Spec => []SlotsExact
  BY Invariance, PTL DEF IInv

\* writeMu keeps the writers of the websocket apart: output, pings and the
\* handler's last message.
THEOREM WritersApart == Spec => []OneWriter
  <1>1. IInv => OneWriter
    BY DEF IInv, OneWriter, Writers, WriteMuExact
  <1>2. QED
    BY <1>1, Invariance, PTL

\* cleanup closes done once, whoever comes first.
THEOREM DoneClosedOnce == Spec => []NoPanic
  BY Invariance, PTL DEF IInv

-----------------------------------------------------------------------------
(* The limit.  While connections pass the two critical sections of         *)
(* ProxyHandler one at a time, whoever passes has room reserved.           *)

RoomInv == ~overlapped => Passing <= 1 /\ active + Passing <= MaxConns

\* Between two steps a connection passes the check, starts to count, or goes.
LEMMA PassingStep ==
  ASSUME TypeOK, [Next]_vars
  PROVE  /\ Passing \in Nat
         /\ \/ active' = active /\ Passing' = Passing
            \/ CanConnect /\ active' = active /\ Passing' = Passing + 1
            \/ active' = active + 1 /\ Passing' = Passing - 1
            \/ active' = active - 1 /\ Passing' = Passing
  <1> USE DEF Passing
  <1>1. CASE OtherAdmitted \/ OtherAdds \/ OtherLeaves
    BY <1>1 DEF OtherAdmitted, OtherAdds, OtherLeaves, Removed
  <1>2. CASE Upgrade \/ SayClosed
    BY <1>2 DEF Upgrade, SayClosed
  <1>3. CASE Serve
    BY <1>3 DEF Serve, Refuse, Admit, AddConnection, Dial, DialFails, Run, GreetFails,
                RunReturns, Farewell, Leave, Removed
  <1>4. CASE UpReads \/ UpStep \/ DownStep \/ PingTicks
    BY <1>4 DEF UpReads, UpStep, UpReadFails, UpWrites, UpWriteFails, DownStep, DownReads,
                DownReadFails, PingTicks
  <1>5. ASSUME NEW g \in Goroutines, Step(g) \/ LockForWrite(g)
        PROVE  active' = active /\ Passing' = Passing
    BY <1>5 DEF Step, LockForWrite, SeesDone, WriteWs, WriteWsFails, EnterCleanup, CheckDone,
                CloseDone, CloseBoth
  <1>6. CASE PeerGoes \/ HostActs
    BY <1>6 DEF PeerGoes, HostActs
  <1>7. CASE UNCHANGED vars
    BY <1>7 DEF vars
  <1>8. Passing \in Nat
    OBVIOUS
  <1>9. QED
    BY <1>1, <1>2, <1>3, <1>4, <1>5, <1>6, <1>7, <1>8 DEF Next

\* The limit on a user's simultaneous connections holds, for every limit and any number
\* of connections, unless two of them were between the check and the count together.
THEOREM LimitHolds == HSpec => []LimitKept
  <1>1. HInit => RoomInv
    BY ProxyAssumption DEF HInit, Init, RoomInv, Passing
  <1>2. TypeOK /\ RoomInv /\ [HNext]_hvars => RoomInv'
    <2> SUFFICES ASSUME TypeOK, RoomInv, [HNext]_hvars, ~overlapped' PROVE RoomInv'
      BY DEF RoomInv
    <2>1. [Next]_vars /\ ~overlapped /\ (~(Passing' > 1) \/ Passing' = Passing)
      <3>1. CASE HNext
        BY <3>1, Zenon DEF HNext
      <3>2. CASE UNCHANGED hvars
        BY <3>2 DEF hvars, vars, Passing
      <3> QED
        BY <3>1, <3>2
    <2>2. Passing <= 1 /\ active + Passing <= MaxConns
      BY <2>1 DEF RoomInv
    <2>3. Passing' <= 1 /\ active' + Passing' <= MaxConns
      <3>1. active \in Nat /\ MaxConns \in Nat
        BY ProxyAssumption
      <3> QED
        BY <2>1, <2>2, <3>1, PassingStep DEF CanConnect
    <2> QED
      BY <2>3 DEF RoomInv
  <1>3. TypeOK /\ RoomInv => LimitKept
    BY ProxyAssumption DEF RoomInv, LimitKept, Passing
  <1>4. HSpec => Spec
    <2>1. HInit => Init
      BY DEF HInit
    <2>2. [HNext]_hvars => [Next]_vars
      BY DEF HNext, hvars, vars
    <2> QED
      BY <2>1, <2>2, PTL DEF HSpec, Spec
  <1>5. QED
    BY <1>1, <1>2, <1>3, <1>4, TypeCorrect, PTL DEF HSpec

=============================================================================
