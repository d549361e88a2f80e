----------------------- MODULE SessionLifecycleProofs -----------------------
(***************************************************************************)
(* Proofs about SessionLifecycle, for every set of phones, run slots and   *)
(* handlers: types, the session table, the lease of remote input and its   *)
(* abstract specification, what a run takes back, held keys, shutdown.     *)
(***************************************************************************)
EXTENDS SessionLifecycle, TLAPS

-----------------------------------------------------------------------------
(* Types.                                                                  *)

(* Remaining, a handler's continuation in Disconnect and forgetDevice, is  *)
(* a handler state.                                                        *)
LEMMA RemainingType ==
  ASSUME NEW r \in Run \cup {NoRun}, NEW reset \in BOOLEAN
  PROVE  Remaining(r, reset) \in Op
BY DEF Remaining, Op

LEMMA IdleType == Idle \in Op
BY DEF Op, Idle

LEMMA CallType ==
  ASSUME NEW pc \in {"start", "forget"}, NEW p \in Peer
  PROVE  Call(pc, p) \in Op
BY DEF Call, Op

(* What the fields of a handler state are for.                             *)
LEMMA OpShape ==
  ASSUME NEW o \in Op
  PROVE  /\ o.pc \in {"start", "forget"} => o.peer \in Peer /\ o.reset = FALSE
         /\ o.pc = "cancel" => o.run \in Run
         /\ o.pc = "reset" => o.reset = TRUE
         /\ o.pc = "idle" => o.reset = FALSE
         /\ o.reset \in BOOLEAN
         /\ o.pc \in {"idle", "start", "forget", "cancel", "reset"}
         /\ o.run \in Run \cup {NoRun}
<1>1. CASE o = Idle
  BY <1>1 DEF Idle
<1>2. CASE o \in [pc : {"start", "forget"}, peer : Peer, run : {NoRun}, reset : {FALSE}]
  BY <1>2
<1>3. CASE o \in [pc : {"cancel"}, peer : {NoPeer}, run : Run, reset : BOOLEAN]
  BY <1>3
<1>4. CASE o \in [pc : {"reset"}, peer : {NoPeer}, run : {NoRun}, reset : {TRUE}]
  BY <1>4
<1> QED
  BY <1>1, <1>2, <1>3, <1>4 DEF Op


(* The steps of a runSession goroutine preserve the types. *)
LEMMA RunStepType ==
  ASSUME TypeOK, RunHasPeer, NEW r \in Run, RunStep(r)
  PROVE  (TypeOK /\ RunHasPeer)'
<1> USE DEF TypeOK, RunHasPeer, Connected, GoTo, RunPc,
            storeVars, leaseState, runVars, emulatorVars, sshVars
<1>1. CASE Begin(r)
  BY <1>1 DEF Begin
<1>2. CASE LoopTop(r)
  BY <1>2 DEF LoopTop
<1>3. CASE DialFails(r)
  BY <1>3 DEF DialFails
<1>4. CASE DialSucceeds(r)
  BY <1>4 DEF DialSucceeds
<1>5. CASE AllowAddress(r)
  BY <1>5 DEF AllowAddress
<1>6. CASE Publish(r)
  BY <1>6 DEF Publish, GrantInput, LeaseFreeFor
<1>7. CASE CheckContext(r) \/ StartListening(r)
  BY <1>7 DEF CheckContext, StartListening
<1>8. CASE HeartbeatEnds(r)
  BY <1>8 DEF HeartbeatEnds
<1>9. CASE CloseConnection(r)
  BY <1>9 DEF CloseConnection
<1>10. CASE Drop(r)
  BY <1>10 DEF Drop, ReleaseInput
<1>11. CASE DisallowAddress(r)
  BY <1>11 DEF DisallowAddress
<1>12. CASE CheckInactive(r)
  BY <1>12 DEF CheckInactive, AfterStop
<1>13. CASE StopSSHService(r)
  BY <1>13 DEF StopSSHService, AfterStop
<1>14. CASE ResetAfterLoss(r)
  BY <1>14 DEF ResetAfterLoss, ResetRemoteInput
<1>15. CASE Backoff(r)
  BY <1>15 DEF Backoff
<1>16. CASE ClearSession(r)
  BY <1>16 DEF ClearSession, ReleaseInput, Exit
<1>17. CASE ClearReset(r)
  BY <1>17 DEF ClearReset, Exit, ResetRemoteInput
<1> QED
  BY <1>1, <1>2, <1>3, <1>4, <1>5, <1>6, <1>7, <1>8, <1>9, <1>10, <1>11, <1>12, <1>13,
     <1>14, <1>15, <1>16, <1>17 DEF RunStep

(* The steps of an input worker preserve the types. *)
LEMMA InputStepType ==
  ASSUME TypeOK, RunHasPeer, NEW r \in Run, InputStep(r)
  PROVE  (TypeOK /\ RunHasPeer)'
<1> USE DEF TypeOK, RunHasPeer, Connected, GoTo, RunPc,
            storeVars, leaseState, runVars, emulatorVars, sshVars
<1>1. CASE CheckInput(r)
  BY <1>1 DEF CheckInput
<1>2. CASE BeginApply(r)
  BY <1>2 DEF BeginApply
<1>3. CASE EndApply(r)
  BY <1>3 DEF EndApply
<1> QED
  BY <1>1, <1>2, <1>3 DEF InputStep

(* The later steps of a handler preserve the types. *)
LEMMA HandlerStepType ==
  ASSUME TypeOK, RunHasPeer, NEW h \in Handler, HandlerStep(h)
  PROVE  (TypeOK /\ RunHasPeer)'
<1> USE DEF TypeOK, RunHasPeer, Connected, GoTo, RunPc,
            storeVars, leaseState, runVars, emulatorVars, sshVars
<1>1. CASE Start(h)
  BY <1>1, IdleType DEF Start, StartSession
<1>2. CASE ForgetDevice(h)
  <2>1. op[h] \in Op /\ op[h].peer \in Peer
    BY <1>2, OpShape DEF ForgetDevice
  <2>2. Remaining(sessions[op[h].peer], inputOwner = op[h].peer) \in Op
    BY <2>1, RemainingType
  <2> QED
    BY <1>2, <2>1, <2>2 DEF ForgetDevice
<1>3. CASE CancelRun(h)
  <2>1. op[h] \in Op /\ op[h].run \in Run
    BY <1>3, OpShape DEF CancelRun
  <2>2. Remaining(NoRun, op[h].reset) \in Op
    BY <2>1, OpShape, RemainingType
  <2> QED
    BY <1>3, <2>1, <2>2 DEF CancelRun
<1>4. CASE ResetAfterCommand(h)
  BY <1>4, IdleType DEF ResetAfterCommand, ResetRemoteInput
<1> QED
  BY <1>1, <1>2, <1>3, <1>4 DEF HandlerStep

(* Commands served in one critical section preserve the types. *)
LEMMA CommandType ==
  ASSUME TypeOK, RunHasPeer, NEW p \in Peer, Command(p)
  PROVE  (TypeOK /\ RunHasPeer)'
<1> USE DEF TypeOK, RunHasPeer, Connected, GoTo, RunPc,
            storeVars, leaseState, runVars, emulatorVars, sshVars
<1>1. CASE Connect(p)
  BY <1>1 DEF Connect, StartSession
<1>2. CASE SetAutoConnectOff(p)
  BY <1>2 DEF SetAutoConnectOff
<1>3. CASE EnableInput(p)
  BY <1>3 DEF EnableInput, GrantInput, LeaseFreeFor
<1>4. CASE SetInputAutoOn(p)
  BY <1>4 DEF SetInputAutoOn, GrantInput, LeaseFreeFor
<1>5. CASE SetInputAutoOff(p)
  BY <1>5 DEF SetInputAutoOff
<1>6. CASE StartAutoConnect(p)
  BY <1>6 DEF StartAutoConnect, StartSession
<1> QED
  BY <1>1, <1>2, <1>3, <1>4, <1>5, <1>6 DEF Command

(* Commands that leave something to do preserve the types. *)
LEMMA HandledCommandType ==
  ASSUME TypeOK, RunHasPeer, NEW h \in Handler, NEW p \in Peer, HandledCommand(h, p)
  PROVE  (TypeOK /\ RunHasPeer)'
<1> USE DEF TypeOK, RunHasPeer, Connected, GoTo, RunPc,
            storeVars, leaseState, runVars, emulatorVars, sshVars
<1>1. CASE SetAutoConnectOn(h, p)
  BY <1>1, CallType DEF SetAutoConnectOn
<1>2. CASE Pair(h, p)
  BY <1>2, CallType DEF Pair
<1>3. CASE Disconnect(h, p)
  BY <1>3, RemainingType DEF Disconnect
<1>4. CASE Unpair(h, p)
  BY <1>4, CallType DEF Unpair
<1>5. CASE DisableInput(h, p)
  BY <1>5, RemainingType DEF DisableInput
<1> QED
  BY <1>1, <1>2, <1>3, <1>4, <1>5 DEF HandledCommand

(* The steps of the daemon itself preserve the types. *)
LEMMA DaemonStepType ==
  ASSUME TypeOK, RunHasPeer, DaemonStep
  PROVE  (TypeOK /\ RunHasPeer)'
<1> USE DEF TypeOK, RunHasPeer, Connected, GoTo, RunPc,
            storeVars, leaseState, runVars, emulatorVars, sshVars
<1>1. CASE AcceptFails
  BY <1>1 DEF AcceptFails
<1>2. CASE StopSSHOnContext
  BY <1>2 DEF StopSSHOnContext
<1>3. CASE Signal
  BY <1>3 DEF Signal
<1>4. CASE ShutdownStopSSH
  BY <1>4 DEF ShutdownStopSSH
<1>5. CASE ShutdownCancel
  BY <1>5 DEF ShutdownCancel
<1>6. CASE ShutdownReset
  BY <1>6 DEF ShutdownReset, ResetRemoteInput
<1> QED
  BY <1>1, <1>2, <1>3, <1>4, <1>5, <1>6 DEF DaemonStep
(* The unpair request of a phone leaves its handler a forgetDevice to run. *)
LEMMA PhoneUnpairsType ==
  ASSUME TypeOK, RunHasPeer, NEW h \in Handler, NEW r \in Run,
         PhoneUnpairs(h, r)
  PROVE  (TypeOK /\ RunHasPeer)'
<1>1. runPeer[r] \in Peer
  BY DEF PhoneUnpairs, RunHasPeer, Connected
<1>2. Call("forget", runPeer[r]) \in Op
  BY <1>1, CallType
<1> QED
  BY <1>2 DEF PhoneUnpairs, TypeOK, RunHasPeer, storeVars, leaseState, runVars,
              emulatorVars, sshVars

LEMMA TypeStep ==
  ASSUME TypeOK, RunHasPeer, [Next]_vars
  PROVE  (TypeOK /\ RunHasPeer)'
<1>1. ASSUME NEW r \in Run, RunStep(r) PROVE (TypeOK /\ RunHasPeer)'
  BY <1>1, RunStepType
<1>2. ASSUME NEW r \in Run, InputStep(r) PROVE (TypeOK /\ RunHasPeer)'
  BY <1>2, InputStepType
<1>3. ASSUME NEW h \in Handler, HandlerStep(h) PROVE (TypeOK /\ RunHasPeer)'
  BY <1>3, HandlerStepType
<1>4. ASSUME NEW p \in Peer, Command(p) PROVE (TypeOK /\ RunHasPeer)'
  BY <1>4, CommandType
<1>5. ASSUME NEW h \in Handler, NEW p \in Peer, HandledCommand(h, p)
      PROVE  (TypeOK /\ RunHasPeer)'
  BY <1>5, HandledCommandType
<1>6. ASSUME NEW h \in Handler, NEW r \in Run, PhoneUnpairs(h, r)
      PROVE  (TypeOK /\ RunHasPeer)'
  BY <1>6, PhoneUnpairsType
<1>7. CASE DaemonStep
  BY <1>7, DaemonStepType
<1>8. CASE UNCHANGED vars
  BY <1>8 DEF vars, TypeOK, RunHasPeer, storeVars, leaseState, runVars,
              emulatorVars, sshVars
<1> QED
  BY <1>1, <1>2, <1>3, <1>4, <1>5, <1>6, <1>7, <1>8 DEF Next

(* Every variable keeps its type, and every goroutine and every event in   *)
(* flight has a phone.                                                     *)
THEOREM TypeCorrect == Spec => []TypeOK /\ []RunHasPeer
<1>1. Init => TypeOK /\ RunHasPeer
  <2> SUFFICES ASSUME Init PROVE TypeOK /\ RunHasPeer
    OBVIOUS
  <2>1. paired \subseteq Peer /\ autoConnect \subseteq Peer
        /\ inputAuto \subseteq Peer /\ boot \subseteq Peer
    BY DEF Init
  <2>2. sessions \in [Peer -> Run \cup {NoRun}] /\ op \in [Handler -> Op]
    BY IdleType DEF Init
  <2>3. runPc \in [Run -> RunPc] /\ runPeer \in [Run -> Peer \cup {NoPeer}]
        /\ inputJob \in [Run -> {"none", "checked", "applying"}]
    BY DEF Init, RunPc
  <2>4. RunHasPeer
    BY DEF Init, RunHasPeer
  <2> QED
    BY <2>1, <2>2, <2>3, <2>4 DEF Init, TypeOK
<1>2. TypeOK /\ RunHasPeer /\ [Next]_vars => (TypeOK /\ RunHasPeer)'
  BY TypeStep
<1> QED
  BY <1>1, <1>2, PTL DEF Spec

-----------------------------------------------------------------------------
(* One goroutine for each entry of d.sessions.                             *)

(* startSession puts a new goroutine into an absent entry, or nothing.     *)
LEMMA StartSessionKeepsEntries ==
  ASSUME TypeOK, EntryIsRun, NEW p \in Peer, StartSession(p)
  PROVE  EntryIsRun'
<1>1. CASE UNCHANGED <<sessions, runPc, runPeer>>
  BY <1>1 DEF EntryIsRun, Live
<1>2. ASSUME sessions[p] = NoRun, NEW r \in Run, Free(r),
             sessions' = [sessions EXCEPT ![p] = r],
             runPc' = [runPc EXCEPT ![r] = "begin"],
             runPeer' = [runPeer EXCEPT ![r] = p]
      PROVE  EntryIsRun'
  <2>1. ~Live(r) /\ Live(r)'
    BY <1>2 DEF Free, Live, TypeOK
  <2>2. \A s \in Run \ {r} : Live(s)' = Live(s) /\ runPeer'[s] = runPeer[s]
    BY <1>2 DEF Live, TypeOK
  <2>3. ASSUME NEW q \in Peer, NEW s \in Run
        PROVE  sessions'[q] = s <=> Live(s)' /\ runPeer'[s] = q
    BY <1>2, <2>1, <2>2, ConstantsAssumption DEF EntryIsRun, TypeOK
  <2> QED
    BY <2>3 DEF EntryIsRun, Live
<1> QED
  BY <1>1, <1>2 DEF StartSession

(* The steps of a goroutine: only clearSession ends it, and with it the    *)
(* entry.                                                                  *)
LEMMA RunStepKeepsEntries ==
  ASSUME TypeOK, RunHasPeer, EntryIsRun, NEW r \in Run, RunStep(r)
  PROVE  EntryIsRun'
<1>1. CASE ClearSession(r)
  <2> DEFINE p == runPeer[r]
  <2>1. p \in Peer /\ sessions[p] = r
    BY <1>1 DEF ClearSession, RunHasPeer, EntryIsRun, Live
  <2>2. sessions' = [sessions EXCEPT ![p] = NoRun]
    BY <1>1 DEF ClearSession
  <2>3. /\ ~Live(r)'
        /\ \A s \in Run \ {r} : Live(s)' = Live(s) /\ runPeer'[s] = runPeer[s]
    BY <1>1 DEF ClearSession, Exit, GoTo, Live, TypeOK
  <2>4. ASSUME NEW q \in Peer, NEW s \in Run
        PROVE  sessions'[q] = s <=> Live(s)' /\ runPeer'[s] = q
    BY <2>1, <2>2, <2>3, ConstantsAssumption DEF EntryIsRun, TypeOK
  <2> QED
    BY <2>4 DEF EntryIsRun, Live
<1>2. CASE ClearReset(r)
  <2>1. /\ UNCHANGED sessions
        /\ ~Live(r) /\ ~Live(r)'
        /\ \A s \in Run \ {r} : Live(s)' = Live(s) /\ runPeer'[s] = runPeer[s]
    BY <1>2 DEF ClearReset, Exit, GoTo, Live, TypeOK
  <2> QED
    BY <2>1 DEF EntryIsRun, Live
<1>3. ASSUME UNCHANGED <<sessions, runPeer>>, Live(r), NEW pc \in RunPc,
             pc \notin {"none", "clearReset"}, GoTo(r, pc)
      PROVE  EntryIsRun'
  BY <1>3 DEF GoTo, EntryIsRun, Live, TypeOK
<1> USE DEF Live, RunPc
<1>4. CASE Begin(r)
  BY <1>3, <1>4 DEF Begin
<1>5. CASE LoopTop(r)
  BY <1>3, <1>5 DEF LoopTop
<1>6. CASE DialFails(r) \/ DialSucceeds(r) \/ AllowAddress(r) \/ Publish(r)
           \/ CheckContext(r) \/ StartListening(r) \/ HeartbeatEnds(r)
  BY <1>3, <1>6 DEF DialFails, DialSucceeds, AllowAddress, Publish,
                    CheckContext, StartListening, HeartbeatEnds
<1>7. CASE CloseConnection(r)
  BY <1>3, <1>7 DEF CloseConnection
<1>8. CASE Drop(r) \/ DisallowAddress(r) \/ ResetAfterLoss(r)
  BY <1>3, <1>8 DEF Drop, DisallowAddress, ResetAfterLoss
<1>9. CASE CheckInactive(r) \/ StopSSHService(r)
  BY <1>3, <1>9 DEF CheckInactive, StopSSHService, AfterStop
<1>10. CASE Backoff(r)
  BY <1>3, <1>10 DEF Backoff
<1> QED
  BY <1>1, <1>2, <1>4, <1>5, <1>6, <1>7, <1>8, <1>9, <1>10 DEF RunStep

LEMMA EntryStep ==
  ASSUME TypeOK, RunHasPeer, EntryIsRun, [Next]_vars
  PROVE  EntryIsRun'
<1>1. ASSUME UNCHANGED <<sessions, runPc, runPeer>> PROVE EntryIsRun'
  BY <1>1 DEF EntryIsRun, Live
<1>2. ASSUME NEW r \in Run, RunStep(r) PROVE EntryIsRun'
  BY <1>2, RunStepKeepsEntries
<1>3. ASSUME NEW r \in Run, InputStep(r) PROVE EntryIsRun'
  BY <1>1, <1>3 DEF InputStep, CheckInput, BeginApply, EndApply, runVars
<1>4. ASSUME NEW h \in Handler, HandlerStep(h) PROVE EntryIsRun'
  <2>1. CASE Start(h)
    <3>1. op[h].peer \in Peer
      BY <2>1, OpShape DEF Start, TypeOK
    <3> QED
      BY <2>1, <3>1, StartSessionKeepsEntries DEF Start
  <2>2. CASE ForgetDevice(h) \/ CancelRun(h) \/ ResetAfterCommand(h)
    BY <1>1, <2>2 DEF ForgetDevice, CancelRun, ResetAfterCommand, runVars
  <2> QED
    BY <1>4, <2>1, <2>2 DEF HandlerStep
<1>5. ASSUME NEW p \in Peer, Command(p) PROVE EntryIsRun'
  <2>1. CASE Connect(p) \/ StartAutoConnect(p)
    BY <2>1, StartSessionKeepsEntries DEF Connect, StartAutoConnect
  <2>2. CASE SetAutoConnectOff(p) \/ EnableInput(p)
             \/ SetInputAutoOn(p) \/ SetInputAutoOff(p)
    BY <1>1, <2>2 DEF SetAutoConnectOff, EnableInput, SetInputAutoOn,
                      SetInputAutoOff, runVars
  <2> QED
    BY <1>5, <2>1, <2>2 DEF Command
<1>6. ASSUME NEW h \in Handler, NEW p \in Peer, HandledCommand(h, p)
      PROVE  EntryIsRun'
  BY <1>1, <1>6 DEF HandledCommand, SetAutoConnectOn, Pair, Disconnect, Unpair,
                    DisableInput, runVars
<1>7. ASSUME NEW h \in Handler, NEW r \in Run, PhoneUnpairs(h, r)
      PROVE  EntryIsRun'
  BY <1>1, <1>7 DEF PhoneUnpairs, runVars
<1>8. CASE DaemonStep
  BY <1>1, <1>8 DEF DaemonStep, AcceptFails, StopSSHOnContext, Signal,
                    ShutdownStopSSH, ShutdownCancel, ShutdownReset, runVars
<1>9. CASE UNCHANGED vars
  BY <1>1, <1>9 DEF vars, runVars
<1> QED
  BY <1>2, <1>3, <1>4, <1>5, <1>6, <1>7, <1>8, <1>9 DEF Next

(* An entry of d.sessions is exactly one live goroutine of its phone.      *)
THEOREM EntriesAreRuns == Spec => []EntryIsRun
<1>1. Init => EntryIsRun
  BY ConstantsAssumption DEF Init, EntryIsRun, Live
<1>2. TypeOK /\ RunHasPeer /\ EntryIsRun /\ [Next]_vars => EntryIsRun'
  BY EntryStep
<1> QED
  BY <1>1, <1>2, TypeCorrect, PTL DEF Spec

-----------------------------------------------------------------------------
(* SessionLifecycle implements InputLease.                                 *)

(* Granting p a lease that is free, or p's already, is a step of the lease *)
(* once p is connected.                                                    *)
LEMMA GrantIsLeaseStep ==
  ASSUME NEW p \in Peer, LeaseFreeFor(p), GrantInput(p), p \in active,
         UNCHANGED active
  PROVE  [Lease!LeaseNext]_(Lease!leaseVars)
<1>1. CASE inputOwner = NoPeer
  BY <1>1 DEF GrantInput, Lease!LeaseNext, Lease!Grant
<1>2. CASE inputOwner = p
  BY <1>2 DEF GrantInput, Lease!leaseVars
<1> QED
  BY <1>1, <1>2 DEF LeaseFreeFor

(* What the onConnect and onDisconnect callbacks and clearSession do to    *)
(* the lease; the other steps of a goroutine leave it alone.               *)
LEMMA RunStepIsLeaseStep ==
  ASSUME TypeOK, RunHasPeer, EntryIsRun, NEW r \in Run, RunStep(r)
  PROVE  [Lease!LeaseNext]_(Lease!leaseVars)
<1> DEFINE p == runPeer[r]
<1>1. CASE Publish(r)
  <2>1. p \in Peer /\ sessions[p] # NoRun
    BY <1>1, ConstantsAssumption DEF Publish, RunHasPeer, EntryIsRun, Live
  <2>2. active' = active \cup {p}
    BY <1>1, <2>1 DEF Publish
  <2>3. \/ UNCHANGED inputOwner
        \/ inputOwner \in {NoPeer, p} /\ inputOwner' = p
    BY <1>1 DEF Publish, GrantInput, LeaseFreeFor
  <2>4. Lease!Join(p)
    BY <2>2, <2>3 DEF Lease!Join
  <2> QED
    BY <2>1, <2>4 DEF Lease!LeaseNext
<1>2. CASE Drop(r)
  <2>1. p \in Peer /\ sessions[p] # NoRun
    BY <1>2, ConstantsAssumption DEF Drop, RunHasPeer, EntryIsRun, Live
  <2>2. Lease!Leave(p)
    BY <1>2, <2>1 DEF Drop, ReleaseInput, Lease!Leave
  <2> QED
    BY <2>1, <2>2 DEF Lease!LeaseNext
<1>3. CASE ClearSession(r)
  <2>1. p \in Peer
    BY <1>3 DEF ClearSession, RunHasPeer
  <2>2. Lease!Leave(p)
    BY <1>3, <2>1 DEF ClearSession, ReleaseInput, Lease!Leave
  <2> QED
    BY <2>1, <2>2 DEF Lease!LeaseNext
<1>4. CASE \/ Begin(r) \/ LoopTop(r) \/ DialFails(r) \/ DialSucceeds(r)
           \/ AllowAddress(r) \/ CheckContext(r) \/ StartListening(r)
           \/ HeartbeatEnds(r) \/ CloseConnection(r)
           \/ DisallowAddress(r) \/ CheckInactive(r)
           \/ StopSSHService(r) \/ ResetAfterLoss(r) \/ Backoff(r)
           \/ ClearReset(r)
  BY <1>4 DEF Begin, LoopTop, DialFails, DialSucceeds, AllowAddress,
              CheckContext, StartListening, HeartbeatEnds, CloseConnection,
              DisallowAddress, CheckInactive, StopSSHService, ResetAfterLoss,
              Backoff, ClearReset, leaseState, Lease!leaseVars
<1> QED
  BY <1>1, <1>2, <1>3, <1>4 DEF RunStep

LEMMA LeaseStep ==
  ASSUME TypeOK, RunHasPeer, EntryIsRun, [Next]_vars
  PROVE  [Lease!LeaseNext]_(Lease!leaseVars)
<1> USE DEF Lease!leaseVars, leaseState
<1>1. ASSUME inputOwner' \in {inputOwner, NoPeer}, UNCHANGED active
      PROVE  [Lease!LeaseNext]_(Lease!leaseVars)
  BY <1>1 DEF Lease!LeaseNext, Lease!Revoke
<1>2. ASSUME NEW r \in Run, RunStep(r)
      PROVE  [Lease!LeaseNext]_(Lease!leaseVars)
  BY <1>2, RunStepIsLeaseStep
<1>3. ASSUME NEW r \in Run, InputStep(r)
      PROVE  [Lease!LeaseNext]_(Lease!leaseVars)
  BY <1>3 DEF InputStep, CheckInput, BeginApply, EndApply
<1>4. ASSUME NEW h \in Handler, HandlerStep(h)
      PROVE  [Lease!LeaseNext]_(Lease!leaseVars)
  BY <1>1, <1>4 DEF HandlerStep, Start, ForgetDevice, CancelRun,
                    ResetAfterCommand
<1>5. ASSUME NEW p \in Peer, Command(p)
      PROVE  [Lease!LeaseNext]_(Lease!leaseVars)
  <2>1. CASE EnableInput(p)
    BY <2>1, GrantIsLeaseStep DEF EnableInput
  <2>2. CASE SetInputAutoOn(p)
    BY <2>2, GrantIsLeaseStep DEF SetInputAutoOn
  <2>3. CASE Connect(p) \/ SetAutoConnectOff(p) \/ SetInputAutoOff(p)
             \/ StartAutoConnect(p)
    BY <2>3 DEF Connect, SetAutoConnectOff, SetInputAutoOff, StartAutoConnect
  <2> QED
    BY <1>5, <2>1, <2>2, <2>3 DEF Command
<1>6. ASSUME NEW h \in Handler, NEW p \in Peer, HandledCommand(h, p)
      PROVE  [Lease!LeaseNext]_(Lease!leaseVars)
  BY <1>1, <1>6 DEF HandledCommand, SetAutoConnectOn, Pair, Disconnect,
                    Unpair, DisableInput
<1>7. ASSUME NEW h \in Handler, NEW r \in Run, PhoneUnpairs(h, r)
      PROVE  [Lease!LeaseNext]_(Lease!leaseVars)
  BY <1>7 DEF PhoneUnpairs
<1>8. CASE DaemonStep
  BY <1>1, <1>8 DEF DaemonStep, AcceptFails, StopSSHOnContext, Signal,
                    ShutdownStopSSH, ShutdownCancel, ShutdownReset
<1>9. CASE UNCHANGED vars
  BY <1>9 DEF vars
<1> QED
  BY <1>2, <1>3, <1>4, <1>5, <1>6, <1>7, <1>8, <1>9 DEF Next

(* Remote input is a lease: one phone at a time, taken only when free and  *)
(* by a connected phone, gone in the very step in which the phone goes.    *)
THEOREM ImplementsLease == Spec => LeaseSpec
<1>1. Init => Lease!LeaseInit
  BY DEF Init, Lease!LeaseInit
<1>2. TypeOK /\ RunHasPeer /\ EntryIsRun /\ [Next]_vars
         => [Lease!LeaseNext]_(Lease!leaseVars)
  BY LeaseStep
<1> QED
  BY <1>1, <1>2, TypeCorrect, EntriesAreRuns, PTL
     DEF Spec, LeaseSpec, Lease!LeaseSpec

-----------------------------------------------------------------------------
(* What the daemon reports as connected is connected.                      *)

(* A new goroutine gets an entry that was absent, so not a connected one.  *)
LEMMA StartSessionKeepsActive ==
  ASSUME TypeOK, EntryIsRun, ActiveMeansConnected, NEW p \in Peer,
         StartSession(p), UNCHANGED active
  PROVE  ActiveMeansConnected'
<1>1. CASE UNCHANGED <<sessions, runPc, runPeer>>
  BY <1>1 DEF ActiveMeansConnected
<1>2. ASSUME sessions[p] = NoRun, NEW r \in Run, Free(r),
             sessions' = [sessions EXCEPT ![p] = r],
             runPc' = [runPc EXCEPT ![r] = "begin"],
             runPeer' = [runPeer EXCEPT ![r] = p]
      PROVE  ActiveMeansConnected'
  <2>1. \A q \in active : q # p /\ sessions[q] # r
    BY <1>2 DEF ActiveMeansConnected, EntryIsRun, Free, Live, TypeOK
  <2> QED
    BY <1>2, <2>1 DEF ActiveMeansConnected, TypeOK
<1> QED
  BY <1>1, <1>2 DEF StartSession

LEMMA RunStepKeepsActive ==
  ASSUME TypeOK, RunHasPeer, EntryIsRun, ActiveMeansConnected,
         NEW r \in Run, RunStep(r)
  PROVE  ActiveMeansConnected'
<1> DEFINE p == runPeer[r]
           Published == {"serve", "listen", "beat", "closing"}
           MayBeActive == {"serve", "listen", "beat", "closing", "drop", "clear"}
<1>1. Live(r) => p \in Peer /\ sessions[p] = r
  BY DEF RunHasPeer, EntryIsRun, Live
<1>2. \A s \in Run \ {r} : Live(s) /\ Live(r) => runPeer[s] # p
  BY <1>1 DEF EntryIsRun
<1>3. ASSUME NEW pc \in RunPc, GoTo(r, pc),
             UNCHANGED <<active, sessions, runPeer>>,
             runPc[r] \in MayBeActive => pc \in MayBeActive,
             pc \in Published => runPc[r] \in Published
      PROVE  ActiveMeansConnected'
  BY <1>3 DEF GoTo, ActiveMeansConnected, TypeOK
<1> USE DEF RunPc
<1>4. CASE Publish(r)
  <2>1. active' = active \cup {p} /\ UNCHANGED <<sessions, runPeer>>
        /\ runPc' = [runPc EXCEPT ![r] = "serve"] /\ p \in Peer /\ sessions[p] = r
    BY <1>1, <1>4, ConstantsAssumption DEF Publish, Live, GoTo
  <2> QED
    BY <2>1, ConstantsAssumption DEF ActiveMeansConnected, TypeOK
<1>5. CASE Drop(r)
  <2>1. active' = active \ {p} /\ UNCHANGED <<sessions, runPeer>>
        /\ runPc' = [runPc EXCEPT ![r] = "disallow"] /\ Live(r)
    BY <1>1, <1>5, ConstantsAssumption DEF Drop, Live, GoTo
  <2>2. \A q \in active' : sessions[q] # r
    BY <2>1 DEF EntryIsRun, TypeOK
  <2>3. \A s \in Run \ {r} : runPc[s] \in Published => runPeer[s] # p
    BY <1>2, <2>1 DEF Live
  <2> QED
    BY <2>1, <2>2, <2>3 DEF ActiveMeansConnected, TypeOK
<1>6. CASE ClearSession(r)
  <2>1. active' = active \ {p} /\ sessions' = [sessions EXCEPT ![p] = NoRun]
        /\ p \in Peer /\ Live(r)
    BY <1>1, <1>6 DEF ClearSession, Live
  <2>2. /\ runPc'[r] \in {"clearReset", "none"}
        /\ \A s \in Run \ {r} : runPc'[s] = runPc[s] /\ runPeer'[s] = runPeer[s]
    BY <1>6 DEF ClearSession, Exit, GoTo, TypeOK
  <2>3. \A q \in active' : q # p /\ sessions[q] # r
    BY <2>1 DEF EntryIsRun, TypeOK
  <2>4. \A s \in Run \ {r} : runPc[s] \in Published => runPeer[s] # p
    BY <1>2, <2>1 DEF Live
  <2>5. ASSUME NEW q \in active'
        PROVE  sessions'[q] # NoRun /\ runPc'[sessions'[q]] \in MayBeActive
    BY <2>1, <2>2, <2>3, <2>5 DEF ActiveMeansConnected, TypeOK
  <2>6. ASSUME NEW s \in Run, runPc'[s] \in Published
        PROVE  runPeer'[s] \in active'
    BY <2>1, <2>2, <2>4, <2>6 DEF ActiveMeansConnected, TypeOK
  <2> QED
    BY <2>5, <2>6 DEF ActiveMeansConnected
<1>7. CASE ClearReset(r)
  <2>1. /\ UNCHANGED <<active, sessions>>
        /\ runPc'[r] = "none"
        /\ \A s \in Run \ {r} : runPc'[s] = runPc[s] /\ runPeer'[s] = runPeer[s]
    BY <1>7 DEF ClearReset, Exit, GoTo, TypeOK, leaseState
  <2>2. \A q \in active : sessions[q] # r
    BY <1>7 DEF ClearReset, EntryIsRun, Live, TypeOK
  <2> QED
    BY <2>1, <2>2 DEF ActiveMeansConnected, TypeOK
<1> USE DEF leaseState
<1>8. CASE Begin(r) \/ LoopTop(r) \/ DialFails(r) \/ DialSucceeds(r)
  BY <1>3, <1>8 DEF Begin, LoopTop, DialFails, DialSucceeds
<1>9. CASE AllowAddress(r) \/ CheckContext(r) \/ StartListening(r)
           \/ HeartbeatEnds(r) \/ CloseConnection(r)
  BY <1>3, <1>9 DEF AllowAddress, CheckContext, StartListening, HeartbeatEnds,
                    CloseConnection
<1>10. CASE DisallowAddress(r) \/ CheckInactive(r) \/ StopSSHService(r)
            \/ ResetAfterLoss(r) \/ Backoff(r)
  BY <1>3, <1>10 DEF DisallowAddress, CheckInactive, StopSSHService, AfterStop,
                     ResetAfterLoss, Backoff
<1> QED
  BY <1>4, <1>5, <1>6, <1>7, <1>8, <1>9, <1>10 DEF RunStep

LEMMA ActiveStep ==
  ASSUME TypeOK, RunHasPeer, EntryIsRun, ActiveMeansConnected, [Next]_vars
  PROVE  ActiveMeansConnected'
<1> USE DEF leaseState, runVars
<1>1. ASSUME UNCHANGED <<sessions, active, runPc, runPeer>>
      PROVE  ActiveMeansConnected'
  BY <1>1 DEF ActiveMeansConnected
<1>2. ASSUME NEW r \in Run, RunStep(r) PROVE ActiveMeansConnected'
  BY <1>2, RunStepKeepsActive
<1>3. ASSUME NEW r \in Run, InputStep(r) PROVE ActiveMeansConnected'
  BY <1>1, <1>3 DEF InputStep, CheckInput, BeginApply, EndApply
<1>4. ASSUME NEW h \in Handler, HandlerStep(h) PROVE ActiveMeansConnected'
  <2>1. CASE Start(h)
    <3>1. op[h].peer \in Peer
      BY <2>1, OpShape DEF Start, TypeOK
    <3> QED
      BY <2>1, <3>1, StartSessionKeepsActive DEF Start
  <2>2. CASE ForgetDevice(h) \/ CancelRun(h) \/ ResetAfterCommand(h)
    BY <1>1, <2>2 DEF ForgetDevice, CancelRun, ResetAfterCommand
  <2> QED
    BY <1>4, <2>1, <2>2 DEF HandlerStep
<1>5. ASSUME NEW p \in Peer, Command(p) PROVE ActiveMeansConnected'
  <2>1. CASE Connect(p) \/ StartAutoConnect(p)
    BY <2>1, StartSessionKeepsActive DEF Connect, StartAutoConnect
  <2>2. CASE SetAutoConnectOff(p) \/ EnableInput(p)
             \/ SetInputAutoOn(p) \/ SetInputAutoOff(p)
    BY <1>1, <2>2 DEF SetAutoConnectOff, EnableInput, SetInputAutoOn,
                      SetInputAutoOff
  <2> QED
    BY <1>5, <2>1, <2>2 DEF Command
<1>6. ASSUME NEW h \in Handler, NEW p \in Peer, HandledCommand(h, p)
      PROVE  ActiveMeansConnected'
  BY <1>1, <1>6 DEF HandledCommand, SetAutoConnectOn, Pair, Disconnect, Unpair,
                    DisableInput
<1>7. ASSUME NEW h \in Handler, NEW r \in Run, PhoneUnpairs(h, r)
      PROVE  ActiveMeansConnected'
  BY <1>1, <1>7 DEF PhoneUnpairs
<1>8. CASE DaemonStep
  BY <1>1, <1>8 DEF DaemonStep, AcceptFails, StopSSHOnContext, Signal,
                    ShutdownStopSSH, ShutdownCancel, ShutdownReset
<1>9. CASE UNCHANGED vars
  BY <1>1, <1>9 DEF vars
<1> QED
  BY <1>2, <1>3, <1>4, <1>5, <1>6, <1>7, <1>8, <1>9 DEF Next

(* A phone is reported as connected only between onConnect and the cleanup *)
(* of the run in its entry, and always while that run heartbeats.          *)
THEOREM ActiveIsConnected == Spec => []ActiveMeansConnected
<1>1. Init => ActiveMeansConnected
  BY DEF Init, ActiveMeansConnected
<1>2. TypeOK /\ RunHasPeer /\ EntryIsRun /\ ActiveMeansConnected /\ [Next]_vars
         => ActiveMeansConnected'
  BY ActiveStep
<1> QED
  BY <1>1, <1>2, TypeCorrect, EntriesAreRuns, PTL DEF Spec

-----------------------------------------------------------------------------
(* The owner of remote input is connected and paired.                      *)

(* What makes InputOwnerIsLive inductive: only a paired phone is allowed   *)
(* to take remote input when it connects.                                  *)
OwnerInv == InputOwnerIsLive /\ inputAuto \subseteq paired

(* A grant keeps the owner and the per-phone flags in agreement.           *)
LEMMA GrantKeepsOwner ==
  ASSUME InputOwnerIsLive, NEW p \in Peer, LeaseFreeFor(p), GrantInput(p),
         p \in paired', p \in active'
  PROVE  InputOwnerIsLive'
BY ConstantsAssumption DEF InputOwnerIsLive, LeaseFreeFor, GrantInput

LEMMA RunStepKeepsOwner ==
  ASSUME TypeOK, RunHasPeer, EntryIsRun, OwnerInv, NEW r \in Run, RunStep(r)
  PROVE  OwnerInv'
<1> DEFINE p == runPeer[r]
<1>1. ASSUME UNCHANGED <<storeVars, leaseState>> PROVE OwnerInv'
  BY <1>1 DEF OwnerInv, InputOwnerIsLive, storeVars, leaseState
<1>2. ASSUME ReleaseInput(p), active \ {p} \subseteq active', UNCHANGED storeVars
      PROVE  OwnerInv'
  BY <1>2 DEF ReleaseInput, OwnerInv, InputOwnerIsLive, storeVars
<1>3. CASE Publish(r)
  <2>1. p \in Peer /\ active' = active \cup {p}
    BY <1>3, ConstantsAssumption DEF Publish, RunHasPeer, EntryIsRun, Live
  <2>2. CASE p \in inputAuto /\ LeaseFreeFor(p)
    <3>1. GrantInput(p) /\ UNCHANGED <<paired, inputAuto>>
      BY <1>3, <2>2 DEF Publish, storeVars
    <3> QED
      BY <2>1, <2>2, <3>1, GrantKeepsOwner DEF OwnerInv
  <2>3. CASE ~(p \in inputAuto /\ LeaseFreeFor(p))
    BY <1>3, <2>1, <2>3 DEF Publish, OwnerInv, InputOwnerIsLive, storeVars
  <2> QED
    BY <2>2, <2>3
<1>4. CASE Drop(r) \/ ClearSession(r)
  BY <1>2, <1>4 DEF Drop, ClearSession
<1>5. CASE \/ Begin(r) \/ LoopTop(r) \/ DialFails(r) \/ DialSucceeds(r)
           \/ AllowAddress(r) \/ CheckContext(r) \/ StartListening(r)
           \/ HeartbeatEnds(r) \/ CloseConnection(r)
           \/ DisallowAddress(r) \/ CheckInactive(r)
           \/ StopSSHService(r) \/ ResetAfterLoss(r) \/ Backoff(r)
           \/ ClearReset(r)
  BY <1>1, <1>5 DEF Begin, LoopTop, DialFails, DialSucceeds, AllowAddress,
                    CheckContext, StartListening, HeartbeatEnds, CloseConnection,
                    DisallowAddress, CheckInactive, StopSSHService,
                    ResetAfterLoss, Backoff, ClearReset
<1> QED
  BY <1>3, <1>4, <1>5 DEF RunStep

LEMMA OwnerStep ==
  ASSUME TypeOK, RunHasPeer, EntryIsRun, OwnerInv, [Next]_vars
  PROVE  OwnerInv'
<1>1. ASSUME UNCHANGED <<storeVars, leaseState>> PROVE OwnerInv'
  BY <1>1 DEF OwnerInv, InputOwnerIsLive, storeVars, leaseState
<1>2. ASSUME NEW p \in Peer, inputEnabled' = inputEnabled \ {p},
             inputOwner' = IF inputOwner = p THEN NoPeer ELSE inputOwner,
             paired \ {p} \subseteq paired', inputAuto' \subseteq paired',
             UNCHANGED active
      PROVE  OwnerInv'
  BY <1>2 DEF OwnerInv, InputOwnerIsLive
<1>3. ASSUME NEW r \in Run, RunStep(r) PROVE OwnerInv'
  BY <1>3, RunStepKeepsOwner
<1>4. ASSUME NEW r \in Run, InputStep(r) PROVE OwnerInv'
  BY <1>1, <1>4 DEF InputStep, CheckInput, BeginApply, EndApply
<1>5. ASSUME NEW h \in Handler, HandlerStep(h) PROVE OwnerInv'
  <2>1. CASE ForgetDevice(h)
    <3>1. op[h].peer \in Peer
      BY <2>1, OpShape DEF ForgetDevice, TypeOK
    <3> QED
      BY <1>2, <2>1, <3>1 DEF ForgetDevice, OwnerInv
  <2>2. CASE Start(h) \/ CancelRun(h) \/ ResetAfterCommand(h)
    BY <1>1, <2>2 DEF Start, CancelRun, ResetAfterCommand
  <2> QED
    BY <1>5, <2>1, <2>2 DEF HandlerStep
<1>6. ASSUME NEW p \in Peer, Command(p) PROVE OwnerInv'
  <2>1. CASE EnableInput(p)
    BY <2>1, GrantKeepsOwner DEF EnableInput, OwnerInv, storeVars
  <2>2. CASE SetInputAutoOn(p)
    <3>1. inputAuto' \subseteq paired'
      BY <2>2 DEF SetInputAutoOn, OwnerInv
    <3>2. CASE p \in active /\ LeaseFreeFor(p)
      BY <2>2, <3>1, <3>2, GrantKeepsOwner DEF SetInputAutoOn, OwnerInv
    <3>3. CASE ~(p \in active /\ LeaseFreeFor(p))
      BY <2>2, <3>1, <3>3 DEF SetInputAutoOn, OwnerInv, InputOwnerIsLive
    <3> QED
      BY <3>2, <3>3
  <2>3. CASE SetAutoConnectOff(p) \/ SetInputAutoOff(p)
    BY <2>3 DEF SetAutoConnectOff, SetInputAutoOff, OwnerInv, InputOwnerIsLive,
                leaseState
  <2>4. CASE Connect(p) \/ StartAutoConnect(p)
    BY <1>1, <2>4 DEF Connect, StartAutoConnect
  <2> QED
    BY <1>6, <2>1, <2>2, <2>3, <2>4 DEF Command
<1>7. ASSUME NEW h \in Handler, NEW p \in Peer, HandledCommand(h, p)
      PROVE  OwnerInv'
  <2>1. CASE DisableInput(h, p)
    BY <1>2, <2>1 DEF DisableInput, OwnerInv, storeVars
  <2>2. CASE SetAutoConnectOn(h, p) \/ Pair(h, p)
    BY <2>2 DEF SetAutoConnectOn, Pair, OwnerInv, InputOwnerIsLive, leaseState
  <2>3. CASE Disconnect(h, p) \/ Unpair(h, p)
    BY <1>1, <2>3 DEF Disconnect, Unpair
  <2> QED
    BY <1>7, <2>1, <2>2, <2>3 DEF HandledCommand
<1>8. ASSUME NEW h \in Handler, NEW r \in Run, PhoneUnpairs(h, r)
      PROVE  OwnerInv'
  BY <1>1, <1>8 DEF PhoneUnpairs
<1>9. CASE DaemonStep
  <2>1. CASE ShutdownCancel
    BY <2>1 DEF ShutdownCancel, OwnerInv, InputOwnerIsLive, storeVars
  <2>2. CASE AcceptFails \/ StopSSHOnContext \/ Signal \/ ShutdownStopSSH
             \/ ShutdownReset
    BY <1>1, <2>2 DEF AcceptFails, StopSSHOnContext, Signal, ShutdownStopSSH,
                      ShutdownReset
  <2> QED
    BY <1>9, <2>1, <2>2 DEF DaemonStep
<1>10. CASE UNCHANGED vars
  BY <1>1, <1>10 DEF vars
<1> QED
  BY <1>3, <1>4, <1>5, <1>6, <1>7, <1>8, <1>9, <1>10 DEF Next

(* The owner of remote input is connected and paired, and is the one phone *)
(* whose flag is set.                                                      *)
THEOREM OwnerIsLive == Spec => []InputOwnerIsLive
<1>1. Init => OwnerInv
  BY DEF Init, OwnerInv, InputOwnerIsLive
<1>2. TypeOK /\ RunHasPeer /\ EntryIsRun /\ OwnerInv /\ [Next]_vars => OwnerInv'
  BY OwnerStep
<1>3. OwnerInv => InputOwnerIsLive
  BY DEF OwnerInv
<1> QED
  BY <1>1, <1>2, <1>3, TypeCorrect, EntriesAreRuns, PTL DEF Spec

-----------------------------------------------------------------------------
(* A run between two connections holds nothing.                            *)

(* The local wasInputOwner lives from one onDisconnect to its reset, and   *)
(* from RemoveAllowedAddress to the next dial the permission stays away.   *)
TakenBack ==
    /\ \A r \in wasOwner : runPc[r] \in {"disallow", "check", "stopSSH", "reset"}
    /\ \A r \in Run :
          runPc[r] \in {"check", "stopSSH", "reset", "backoff"} =>
              runPeer[r] \notin sshAllowed

LEMMA RunStepTakesBack ==
  ASSUME TypeOK, RunHasPeer, EntryIsRun, TakenBack, NEW r \in Run, RunStep(r)
  PROVE  TakenBack'
<1> USE DEF TakenBack, TypeOK, GoTo, sshVars
<1>1. CASE \/ Begin(r) \/ LoopTop(r) \/ DialFails(r) \/ DialSucceeds(r)
           \/ Publish(r) \/ CheckContext(r) \/ StartListening(r)
           \/ HeartbeatEnds(r) \/ CloseConnection(r) \/ Backoff(r)
  BY <1>1 DEF Begin, LoopTop, DialFails, DialSucceeds, Publish,
              CheckContext, StartListening, HeartbeatEnds, CloseConnection,
              Backoff
<1>2. CASE AllowAddress(r)
  <2>1. \A s \in Run : runPc[s] \in {"check", "stopSSH", "reset", "backoff"} =>
            runPeer[s] # runPeer[r]
    BY <1>2 DEF AllowAddress, RunHasPeer, EntryIsRun, Live
  <2> QED
    BY <1>2, <2>1 DEF AllowAddress
<1>3. CASE Drop(r)
  BY <1>3 DEF Drop
<1>4. CASE DisallowAddress(r)
  BY <1>4 DEF DisallowAddress
<1>5. CASE CheckInactive(r) \/ StopSSHService(r)
  BY <1>5 DEF CheckInactive, StopSSHService, AfterStop
<1>6. CASE ResetAfterLoss(r)
  BY <1>6 DEF ResetAfterLoss
<1>7. CASE ClearSession(r) \/ ClearReset(r)
  BY <1>7 DEF ClearSession, ClearReset, Exit
<1> QED
  BY <1>1, <1>2, <1>3, <1>4, <1>5, <1>6, <1>7 DEF RunStep

LEMMA TakenBackStep ==
  ASSUME TypeOK, RunHasPeer, EntryIsRun, TakenBack, [Next]_vars
  PROVE  TakenBack'
<1> USE DEF runVars, sshVars
<1>1. ASSUME UNCHANGED <<runPc, runPeer, wasOwner>>, sshAllowed' \subseteq sshAllowed
      PROVE  TakenBack'
  BY <1>1 DEF TakenBack
<1>2. ASSUME NEW p \in Peer, StartSession(p), UNCHANGED <<wasOwner, sshAllowed>>
      PROVE  TakenBack'
  BY <1>2 DEF StartSession, Free, TakenBack, TypeOK
<1>3. ASSUME NEW r \in Run, RunStep(r) PROVE TakenBack'
  BY <1>3, RunStepTakesBack
<1>4. ASSUME NEW r \in Run, InputStep(r) PROVE TakenBack'
  BY <1>1, <1>4 DEF InputStep, CheckInput, BeginApply, EndApply
<1>5. ASSUME NEW h \in Handler, HandlerStep(h) PROVE TakenBack'
  <2>1. CASE Start(h)
    <3>1. op[h].peer \in Peer
      BY <2>1, OpShape DEF Start, TypeOK
    <3> QED
      BY <1>2, <2>1, <3>1 DEF Start
  <2>2. CASE ForgetDevice(h) \/ CancelRun(h) \/ ResetAfterCommand(h)
    BY <1>1, <2>2 DEF ForgetDevice, CancelRun, ResetAfterCommand
  <2> QED
    BY <1>5, <2>1, <2>2 DEF HandlerStep
<1>6. ASSUME NEW p \in Peer, Command(p) PROVE TakenBack'
  <2>1. CASE Connect(p) \/ StartAutoConnect(p)
    BY <1>2, <2>1 DEF Connect, StartAutoConnect
  <2>2. CASE SetAutoConnectOff(p) \/ EnableInput(p)
             \/ SetInputAutoOn(p) \/ SetInputAutoOff(p)
    BY <1>1, <2>2 DEF SetAutoConnectOff, EnableInput, SetInputAutoOn,
                      SetInputAutoOff
  <2> QED
    BY <1>6, <2>1, <2>2 DEF Command
<1>7. ASSUME NEW h \in Handler, NEW p \in Peer, HandledCommand(h, p)
      PROVE  TakenBack'
  BY <1>1, <1>7 DEF HandledCommand, SetAutoConnectOn, Pair, Disconnect, Unpair,
                    DisableInput
<1>8. ASSUME NEW h \in Handler, NEW r \in Run, PhoneUnpairs(h, r)
      PROVE  TakenBack'
  BY <1>1, <1>8 DEF PhoneUnpairs
<1>9. CASE DaemonStep
  BY <1>1, <1>9 DEF DaemonStep, AcceptFails, StopSSHOnContext, Signal,
                    ShutdownStopSSH, ShutdownCancel, ShutdownReset
<1>10. CASE UNCHANGED vars
  BY <1>1, <1>10 DEF vars
<1> QED
  BY <1>3, <1>4, <1>5, <1>6, <1>7, <1>8, <1>9, <1>10 DEF Next

(* What a run takes back stays away until it dials again.                  *)
THEOREM TakenBackHolds == Spec => []TakenBack
<1>1. Init => TakenBack
  BY DEF Init, TakenBack
<1>2. TypeOK /\ RunHasPeer /\ EntryIsRun /\ TakenBack /\ [Next]_vars => TakenBack'
  BY TakenBackStep
<1> QED
  BY <1>1, <1>2, TypeCorrect, EntriesAreRuns, PTL DEF Spec

(* A run that waits to reconnect has taken back everything it published.   *)
THEOREM RetryIsClean == Spec => []RetryLeavesNothing
<1>1. TypeOK /\ RunHasPeer /\ EntryIsRun /\ ActiveMeansConnected
        /\ InputOwnerIsLive /\ TakenBack
      => RetryLeavesNothing
  <2> SUFFICES ASSUME TypeOK, RunHasPeer, EntryIsRun, ActiveMeansConnected,
                      InputOwnerIsLive, TakenBack, NEW r \in Run,
                      runPc[r] \in {"begin", "loop", "dial", "backoff"}
               PROVE  /\ runPeer[r] \notin active
                      /\ inputOwner # runPeer[r]
                      /\ r \notin wasOwner
                      /\ runPc[r] = "backoff" => runPeer[r] \notin sshAllowed
    BY DEF RetryLeavesNothing
  <2>1. runPeer[r] \in Peer /\ sessions[runPeer[r]] = r
    BY DEF RunHasPeer, EntryIsRun, Live
  <2>2. runPeer[r] \notin active
    BY <2>1 DEF ActiveMeansConnected
  <2>3. inputOwner # runPeer[r]
    BY <2>1, <2>2, ConstantsAssumption DEF InputOwnerIsLive
  <2> QED
    BY <2>2, <2>3 DEF TakenBack
<1> QED
  BY <1>1, TypeCorrect, EntriesAreRuns, ActiveIsConnected, OwnerIsLive,
     TakenBackHolds, PTL

-----------------------------------------------------------------------------
(* A connected phone may use SSH.                                          *)

(* What makes ConnectedIsAllowed inductive: from SetAllowedAddress to the  *)
(* end of the heartbeat the permission stands, and it is taken back only   *)
(* by the run of an entry that is no longer active.                        *)
AllowedInv ==
    "accept-fails" \notin Commands =>
        /\ active \subseteq sshAllowed
        /\ \A r \in Run : runPc[r] = "publish" => runPeer[r] \in sshAllowed

LEMMA RunStepKeepsAllowed ==
  ASSUME TypeOK, RunHasPeer, EntryIsRun, ActiveMeansConnected, AllowedInv,
         NEW r \in Run, RunStep(r), "accept-fails" \notin Commands
  PROVE  AllowedInv'
<1> DEFINE p == runPeer[r]
<1>1. ASSUME active' \subseteq active, UNCHANGED <<sshAllowed, runPeer>>,
             NEW pc \in RunPc \ {"publish"}, GoTo(r, pc)
      PROVE  AllowedInv'
  BY <1>1 DEF AllowedInv, GoTo, TypeOK
<1>2. CASE AllowAddress(r)
  BY <1>2 DEF AllowAddress, AllowedInv, GoTo, TypeOK, leaseState
<1>3. CASE Publish(r)
  BY <1>3 DEF Publish, AllowedInv, GoTo, TypeOK, sshVars
<1>4. CASE DisallowAddress(r)
  <2>1. p \in Peer /\ sessions[p] = r /\ runPc[r] = "disallow"
    BY <1>4 DEF DisallowAddress, RunHasPeer, EntryIsRun, Live
  <2>2. p \notin active
    BY <2>1 DEF ActiveMeansConnected
  <2>3. \A s \in Run : runPc[s] = "publish" => runPeer[s] # p
    BY <2>1 DEF EntryIsRun, Live
  <2> QED
    BY <1>4, <2>1, <2>2, <2>3 DEF DisallowAddress, AllowedInv, GoTo, TypeOK,
                                  leaseState
<1>5. CASE ClearSession(r)
  BY <1>5 DEF ClearSession, Exit, AllowedInv, GoTo, TypeOK, sshVars
<1>6. CASE ClearReset(r)
  BY <1>6 DEF ClearReset, Exit, AllowedInv, GoTo, TypeOK, sshVars, leaseState
<1> USE DEF RunPc, leaseState, sshVars
<1>7. CASE \/ Begin(r) \/ LoopTop(r) \/ DialFails(r) \/ DialSucceeds(r)
           \/ CheckContext(r) \/ StartListening(r) \/ HeartbeatEnds(r)
           \/ CloseConnection(r)
  BY <1>1, <1>7 DEF Begin, LoopTop, DialFails, DialSucceeds, CheckContext,
                    StartListening, HeartbeatEnds, CloseConnection
<1>8. CASE \/ Drop(r) \/ CheckInactive(r) \/ StopSSHService(r)
           \/ ResetAfterLoss(r) \/ Backoff(r)
  BY <1>1, <1>8 DEF Drop, CheckInactive, StopSSHService, AfterStop,
                    ResetAfterLoss, Backoff
<1> QED
  BY <1>2, <1>3, <1>4, <1>5, <1>6, <1>7, <1>8 DEF RunStep

LEMMA AllowedStep ==
  ASSUME TypeOK, RunHasPeer, EntryIsRun, ActiveMeansConnected, AllowedInv,
         [Next]_vars
  PROVE  AllowedInv'
<1> SUFFICES ASSUME "accept-fails" \notin Commands PROVE AllowedInv'
  BY DEF AllowedInv
<1> USE DEF leaseState, runVars, sshVars
<1>1. ASSUME UNCHANGED <<active, sshAllowed, runPc, runPeer>> PROVE AllowedInv'
  BY <1>1 DEF AllowedInv
<1>2. ASSUME NEW p \in Peer, StartSession(p), UNCHANGED <<active, sshAllowed>>
      PROVE  AllowedInv'
  BY <1>2 DEF StartSession, AllowedInv, TypeOK
<1>3. ASSUME NEW r \in Run, RunStep(r) PROVE AllowedInv'
  BY <1>3, RunStepKeepsAllowed
<1>4. ASSUME NEW r \in Run, InputStep(r) PROVE AllowedInv'
  BY <1>1, <1>4 DEF InputStep, CheckInput, BeginApply, EndApply
<1>5. ASSUME NEW h \in Handler, HandlerStep(h) PROVE AllowedInv'
  <2>1. CASE Start(h)
    <3>1. op[h].peer \in Peer
      BY <2>1, OpShape DEF Start, TypeOK
    <3> QED
      BY <1>2, <2>1, <3>1 DEF Start
  <2>2. CASE ForgetDevice(h) \/ CancelRun(h) \/ ResetAfterCommand(h)
    BY <1>1, <2>2 DEF ForgetDevice, CancelRun, ResetAfterCommand
  <2> QED
    BY <1>5, <2>1, <2>2 DEF HandlerStep
<1>6. ASSUME NEW p \in Peer, Command(p) PROVE AllowedInv'
  <2>1. CASE Connect(p) \/ StartAutoConnect(p)
    BY <1>2, <2>1 DEF Connect, StartAutoConnect
  <2>2. CASE SetAutoConnectOff(p) \/ EnableInput(p)
             \/ SetInputAutoOn(p) \/ SetInputAutoOff(p)
    BY <1>1, <2>2 DEF SetAutoConnectOff, EnableInput, SetInputAutoOn,
                      SetInputAutoOff
  <2> QED
    BY <1>6, <2>1, <2>2 DEF Command
<1>7. ASSUME NEW h \in Handler, NEW p \in Peer, HandledCommand(h, p)
      PROVE  AllowedInv'
  BY <1>1, <1>7 DEF HandledCommand, SetAutoConnectOn, Pair, Disconnect, Unpair,
                    DisableInput
<1>8. ASSUME NEW h \in Handler, NEW r \in Run, PhoneUnpairs(h, r)
      PROVE  AllowedInv'
  BY <1>1, <1>8 DEF PhoneUnpairs
<1>9. CASE DaemonStep
  BY <1>1, <1>9 DEF DaemonStep, AcceptFails, StopSSHOnContext, Signal,
                    ShutdownStopSSH, ShutdownCancel, ShutdownReset
<1>10. CASE UNCHANGED vars
  BY <1>1, <1>10 DEF vars
<1> QED
  BY <1>3, <1>4, <1>5, <1>6, <1>7, <1>8, <1>9, <1>10 DEF Next

(* The address of a phone reported as connected is allowed to open SSH     *)
(* connections, unless the service broke down by itself (onConnect,        *)
(* onDisconnect); whether anyone listens is another matter.                *)
THEOREM ConnectedMayUseSSH == Spec => []ConnectedIsAllowed
<1>1. Init => AllowedInv
  BY DEF Init, AllowedInv
<1>2. TypeOK /\ RunHasPeer /\ EntryIsRun /\ ActiveMeansConnected /\ AllowedInv
        /\ [Next]_vars => AllowedInv'
  BY AllowedStep
<1>3. AllowedInv => ConnectedIsAllowed
  BY DEF AllowedInv, ConnectedIsAllowed
<1> QED
  BY <1>1, <1>2, <1>3, TypeCorrect, EntriesAreRuns, ActiveIsConnected, PTL
     DEF Spec

-----------------------------------------------------------------------------
(* Why no key stays down in the emulator: the argument follows one input   *)
(* event from the ownership check to the key press, with everything that   *)
(* can take the ownership away in between.                                 *)

(* Some handler has taken remote input from run r and has still to cancel  *)
(* the run and to reset the emulator, in this order.                       *)
CancelOwed(r) ==
    \E h \in Handler : op[h].pc = "cancel" /\ op[h].run = r /\ op[h].reset

(* An event that was checked belongs to a connected run, and unless the    *)
(* run is over its phone still owns remote input or a cancel is on its     *)
(* way; an event that is being applied belongs to the owner or will be     *)
(* undone.                                                                 *)
CheckedInv ==
    \A r \in Run :
        inputJob[r] = "checked" =>
            /\ runPc[r] \in Connected
            /\ ~Ended(r) => inputOwner = runPeer[r] \/ CancelOwed(r)

ApplyingInv ==
    \A r \in Run :
        inputJob[r] = "applying" => inputOwner = runPeer[r] \/ ResetPending

HeldInv == CheckedInv /\ ApplyingInv /\ HeldIsOwned

-----------------------------------------------------------------------------
(* A step that begins no event keeps HeldInv when no checked event loses   *)
(* its cover, and when it resets the emulator, or leaves a reset to come,  *)
(* or takes remote input from nobody.                                      *)
LEMMA HeldFrame ==
  ASSUME TypeOK, RunHasPeer, HeldInv,
         \A r \in Run : inputJob'[r] # "none" =>
             inputJob'[r] = inputJob[r] /\ runPeer'[r] = runPeer[r],
         \A r \in Run : inputJob'[r] = "checked" =>
             /\ runPc'[r] \in Connected
             /\ ~Ended(r)' => ~Ended(r)
             /\ ~Ended(r)' /\ (inputOwner = runPeer[r] \/ CancelOwed(r)) =>
                    inputOwner' = runPeer[r] \/ CancelOwed(r)',
         held' \subseteq held,
         \/ held' = {} /\ DispatchFree
         \/ ResetPending'
         \/ (ResetPending => ResetPending') /\ inputOwner \in {NoPeer, inputOwner'}
  PROVE  HeldInv'
<1>1. CheckedInv'
  BY DEF HeldInv, CheckedInv, CancelOwed, Ended
<1>2. ApplyingInv' /\ HeldIsOwned'
  <2>1. CASE held' = {} /\ DispatchFree
    BY <2>1 DEF ApplyingInv, HeldIsOwned, DispatchFree
  <2>2. CASE ResetPending'
    BY <2>2 DEF ApplyingInv, HeldIsOwned
  <2>3. CASE (ResetPending => ResetPending') /\ inputOwner \in {NoPeer, inputOwner'}
    <3>1. \A r \in Run : inputJob[r] # "none" => runPeer[r] # NoPeer
      BY ConstantsAssumption DEF RunHasPeer
    <3>2. \A p \in held : p # NoPeer
      BY ConstantsAssumption DEF TypeOK
    <3> QED
      BY <2>3, <3>1, <3>2 DEF HeldInv, ApplyingInv, HeldIsOwned
  <2> QED
    BY <2>1, <2>2, <2>3
<1> QED
  BY <1>1, <1>2 DEF HeldInv

(* A step that leaves the owner, the events and the emulator alone.        *)
LEMMA HeldUnchanged ==
  ASSUME TypeOK, RunHasPeer, HeldInv,
         UNCHANGED <<emulatorVars, runPc, runPeer, inputOwner, wasOwner, op>>,
         cancelled \subseteq cancelled',
         daemon' = "running" => daemon = "running",
         daemon = "cleared" => daemon' = "cleared"
  PROVE  HeldInv'
<1>1. \A r \in Run : ~Ended(r)' => ~Ended(r)
  BY DEF Ended
<1>2. ResetPending => ResetPending'
  BY DEF ResetPending
<1>3. \A r \in Run : CancelOwed(r) => CancelOwed(r)'
  BY DEF CancelOwed
<1> QED
  BY <1>1, <1>2, <1>3, HeldFrame DEF HeldInv, CheckedInv, emulatorVars

-----------------------------------------------------------------------------
(* The steps of a runSession goroutine.                                    *)

(* A goroutine moves on without losing its connection; at most it is       *)
(* granted remote input that nobody owned or that was its own.             *)
LEMMA HeldRunMove ==
  ASSUME TypeOK, RunHasPeer, HeldInv, NEW r \in Run, NEW pc \in RunPc,
         GoTo(r, pc), runPc[r] # "clearReset",
         runPc[r] \in Connected => pc \in Connected,
         UNCHANGED <<emulatorVars, runPeer, wasOwner, op, cancelled, daemon>>,
         inputOwner \in {NoPeer, inputOwner'}
  PROVE  HeldInv'
<1>1. \A s \in Run : (Ended(s)' <=> Ended(s)) /\ (CancelOwed(s)' <=> CancelOwed(s))
  BY DEF Ended, CancelOwed
<1>2. ResetPending => ResetPending'
  BY DEF ResetPending, GoTo, TypeOK
<1>3. \A s \in Run : inputJob[s] = "checked" =>
          runPc'[s] \in Connected /\ runPeer[s] # NoPeer
  BY ConstantsAssumption DEF HeldInv, CheckedInv, GoTo, TypeOK, RunHasPeer
<1> QED
  BY <1>1, <1>2, <1>3, HeldFrame DEF emulatorVars

(* A goroutine without a connection gives up its phone's claim on remote   *)
(* input and owes a reset if there was one.                                *)
LEMMA HeldRelease ==
  ASSUME TypeOK, RunHasPeer, EntryIsRun, HeldInv, NEW r \in Run, Live(r),
         runPc[r] \notin Connected, ReleaseInput(runPeer[r]),
         inputOwner = runPeer[r] => ResetPending',
         ResetPending => ResetPending',
         \A s \in Run \ {r} : runPc'[s] = runPc[s] /\ runPeer'[s] = runPeer[s]
                              /\ (s \in cancelled' <=> s \in cancelled),
         runPeer'[r] = runPeer[r] \/ inputJob[r] = "none",
         UNCHANGED <<emulatorVars, op, daemon>>
  PROVE  HeldInv'
<1>1. \A s \in Run : CancelOwed(s)' <=> CancelOwed(s)
  BY DEF CancelOwed
<1>2. ASSUME NEW s \in Run, inputJob[s] = "checked"
      PROVE  /\ s # r /\ runPc'[s] \in Connected
             /\ Ended(s)' <=> Ended(s)
             /\ inputOwner = runPeer[s] => inputOwner' = runPeer[s]
  <2>1. runPc[s] \in Connected
    BY <1>2 DEF HeldInv, CheckedInv
  <2>2. s # r /\ runPeer[s] # runPeer[r]
    BY <2>1 DEF EntryIsRun, Live, RunHasPeer, Connected
  <2> QED
    BY <2>1, <2>2 DEF Ended, ReleaseInput
<1>3. \/ ResetPending'
      \/ (ResetPending => ResetPending') /\ inputOwner' = inputOwner
  BY DEF ReleaseInput
<1> QED
  BY <1>1, <1>2, <1>3, HeldFrame DEF emulatorVars

(* A reset takes inputDispatchMu: no event is being applied.               *)
LEMMA HeldReset ==
  ASSUME TypeOK, RunHasPeer, HeldInv, ResetRemoteInput,
         \A s \in Run : inputJob[s] # "none" =>
             /\ runPc[s] \in Connected => runPc'[s] = runPc[s]
             /\ runPeer'[s] = runPeer[s]
             /\ Ended(s) /\ runPc[s] \in Connected => Ended(s)'
             /\ CancelOwed(s) => CancelOwed(s)',
         UNCHANGED <<inputJob, inputOwner>>
  PROVE  HeldInv'
<1>1. held' = {} /\ DispatchFree
  BY DEF ResetRemoteInput
<1>2. \A s \in Run : inputJob[s] = "checked" => runPc[s] \in Connected
  BY DEF HeldInv, CheckedInv
<1> QED
  BY <1>1, <1>2, HeldFrame

LEMMA RunStepKeepsHeld ==
  ASSUME TypeOK, RunHasPeer, EntryIsRun, TakenBack, HeldInv,
         NEW r \in Run, RunStep(r)
  PROVE  HeldInv'
<1> DEFINE p == runPeer[r]
<1> USE DEF leaseState, Connected, RunPc
<1>1. CASE \/ Begin(r) \/ LoopTop(r) \/ DialFails(r) \/ DialSucceeds(r)
           \/ AllowAddress(r) \/ CheckContext(r) \/ StartListening(r)
  BY <1>1, HeldRunMove DEF Begin, LoopTop, DialFails, DialSucceeds,
                           AllowAddress, CheckContext, StartListening
<1>2. CASE Publish(r)
  <2>1. inputOwner \in {NoPeer, inputOwner'}
    BY <1>2 DEF Publish, GrantInput, LeaseFreeFor
  <2> QED
    BY <1>2, <2>1, HeldRunMove DEF Publish
<1>3. CASE HeartbeatEnds(r)
  <2>1. /\ \A s \in Run : (Ended(s)' <=> Ended(s)) /\ (CancelOwed(s)' <=> CancelOwed(s))
        /\ ResetPending => ResetPending'
    BY <1>3 DEF HeartbeatEnds, Ended, CancelOwed, ResetPending, GoTo, TypeOK
  <2>2. \A s \in Run : /\ inputJob'[s] # "none" => inputJob'[s] = inputJob[s]
                       /\ inputJob'[s] = "checked" => s # r
    BY <1>3 DEF HeartbeatEnds, TypeOK
  <2>3. \A s \in Run \ {r} : runPc'[s] = runPc[s]
    BY <1>3 DEF HeartbeatEnds, GoTo, TypeOK
  <2>4. UNCHANGED <<held, inputOwner, runPeer>>
    BY <1>3 DEF HeartbeatEnds
  <2> QED
    BY <2>1, <2>2, <2>3, <2>4, HeldFrame DEF HeldInv, CheckedInv
<1>4. CASE \/ CloseConnection(r) \/ DisallowAddress(r) \/ CheckInactive(r)
           \/ StopSSHService(r) \/ Backoff(r)
  BY <1>4, HeldRunMove DEF CloseConnection, DisallowAddress, CheckInactive,
                           StopSSHService, AfterStop, Backoff
<1>5. CASE Drop(r)
  <2>1. /\ inputOwner = p => ResetPending'
        /\ ResetPending => ResetPending'
    BY <1>5 DEF Drop, ResetPending, GoTo, TypeOK
  <2>2. \A s \in Run \ {r} : runPc'[s] = runPc[s]
    BY <1>5 DEF Drop, GoTo, TypeOK
  <2> QED
    BY <1>5, <2>1, <2>2, HeldRelease DEF Drop, Live
<1>6. CASE ClearSession(r)
  <2>1. r \notin wasOwner
    BY <1>6 DEF ClearSession, TakenBack
  <2>2. /\ inputOwner = p => ResetPending'
        /\ ResetPending => ResetPending'
    BY <1>6, <2>1 DEF ClearSession, Exit, ResetPending, GoTo, TypeOK
  <2>3. /\ \A s \in Run \ {r} : runPc'[s] = runPc[s] /\ runPeer'[s] = runPeer[s]
                                /\ (s \in cancelled' <=> s \in cancelled)
        /\ runPeer'[r] = runPeer[r] \/ inputJob[r] = "none"
    BY <1>6 DEF ClearSession, Exit, GoTo, TypeOK
  <2> QED
    BY <1>6, <2>2, <2>3, HeldRelease DEF ClearSession, Live
<1>7. CASE ResetAfterLoss(r)
  <2>1. \A s \in Run : /\ runPc[s] \in Connected => runPc'[s] = runPc[s]
                       /\ Ended(s) => Ended(s)'
                       /\ CancelOwed(s) => CancelOwed(s)'
    BY <1>7 DEF ResetAfterLoss, GoTo, TypeOK, Ended, CancelOwed
  <2> QED
    BY <1>7, <2>1, HeldReset DEF ResetAfterLoss
<1>8. CASE ClearReset(r)
  <2>1. ASSUME NEW s \in Run, inputJob[s] # "none"
        PROVE  /\ runPc[s] \in Connected => runPc'[s] = runPc[s]
               /\ runPeer'[s] = runPeer[s]
               /\ Ended(s) /\ runPc[s] \in Connected => Ended(s)'
               /\ CancelOwed(s) => CancelOwed(s)'
    BY <1>8, <2>1 DEF ClearReset, Exit, GoTo, TypeOK, Ended, CancelOwed
  <2> QED
    BY <1>8, <2>1, HeldReset DEF ClearReset
<1> QED
  BY <1>1, <1>2, <1>3, <1>4, <1>5, <1>6, <1>7, <1>8 DEF RunStep

-----------------------------------------------------------------------------
(* The steps of everybody else.                                            *)

(* The way of an event: checked under the lock, begun unless the run is    *)
(* over, applied for the phone of the run.                                 *)
LEMMA InputStepKeepsHeld ==
  ASSUME TypeOK, RunHasPeer, HeldInv, NEW r \in Run, InputStep(r)
  PROVE  HeldInv'
<1> USE DEF leaseState, runVars
<1>1. /\ \A s \in Run : (Ended(s)' <=> Ended(s)) /\ (CancelOwed(s)' <=> CancelOwed(s))
      /\ ResetPending' <=> ResetPending
      /\ UNCHANGED <<inputOwner, runPeer, runPc>>
      /\ \A s \in Run \ {r} : inputJob'[s] = inputJob[s]
  BY DEF InputStep, CheckInput, BeginApply, EndApply, Ended, CancelOwed,
         ResetPending, TypeOK
<1>2. CASE CheckInput(r)
  <2>1. /\ inputJob'[r] = "checked" /\ inputOwner = runPeer[r]
        /\ runPc[r] \in Connected /\ UNCHANGED held
    BY <1>2 DEF CheckInput, TypeOK
  <2> QED
    BY <1>1, <2>1 DEF HeldInv, CheckedInv, ApplyingInv, HeldIsOwned
<1>3. CASE BeginApply(r)
  <2>1. inputJob[r] = "checked" /\ UNCHANGED held
        /\ inputJob'[r] = IF SessionOver(r) THEN "none" ELSE "applying"
    BY <1>3 DEF BeginApply, TypeOK
  <2>2. inputJob'[r] = "applying" => inputOwner = runPeer[r] \/ ResetPending
    BY <2>1 DEF SessionOver, HeldInv, CheckedInv, CancelOwed, ResetPending
  <2> QED
    BY <1>1, <2>1, <2>2 DEF HeldInv, CheckedInv, ApplyingInv, HeldIsOwned
<1>4. CASE EndApply(r)
  <2>1. /\ inputJob[r] = "applying" /\ inputJob'[r] = "none"
        /\ held' \subseteq held \cup {runPeer[r]}
    BY <1>4 DEF EndApply, TypeOK
  <2>2. inputOwner = runPeer[r] \/ ResetPending
    BY <2>1 DEF HeldInv, ApplyingInv
  <2> QED
    BY <1>1, <2>1, <2>2 DEF HeldInv, CheckedInv, ApplyingInv, HeldIsOwned
<1> QED
  BY <1>2, <1>3, <1>4 DEF InputStep

(* A new goroutine takes a slot no event refers to.                        *)
LEMMA StartSessionKeepsHeld ==
  ASSUME TypeOK, RunHasPeer, HeldInv, NEW p \in Peer, StartSession(p),
         UNCHANGED <<emulatorVars, inputOwner, wasOwner, cancelled, daemon>>,
         \A h \in Handler :
             op'[h] = op[h] \/ op[h].reset = FALSE
  PROVE  HeldInv'
<1>1. \A s \in Run : inputJob[s] # "none" =>
          runPc'[s] = runPc[s] /\ runPeer'[s] = runPeer[s]
  BY DEF StartSession, Free, TypeOK
<1>2. \A s \in Run : runPc[s] = "clearReset" => runPc'[s] = "clearReset"
  BY DEF StartSession, Free, TypeOK
<1>3. /\ \A s \in Run : (Ended(s)' <=> Ended(s)) /\ (CancelOwed(s) => CancelOwed(s)')
      /\ ResetPending => ResetPending'
  BY <1>2 DEF Ended, CancelOwed, ResetPending
<1> QED
  BY <1>1, <1>3, HeldFrame DEF HeldInv, CheckedInv, emulatorVars

(* The later steps of a handler: forgetDevice takes remote input and owes  *)
(* a cancel and a reset, which CancelRun and ResetAfterCommand pay.        *)
LEMMA HandlerStepKeepsHeld ==
  ASSUME TypeOK, RunHasPeer, EntryIsRun, HeldInv, NEW h \in Handler,
         HandlerStep(h)
  PROVE  HeldInv'
<1> USE DEF leaseState, runVars, emulatorVars
<1>1. op[h] \in Op /\ op \in [Handler -> Op]
  BY DEF TypeOK
<1>2. CASE Start(h)
  <2>1. op[h].peer \in Peer /\ op[h].reset = FALSE
    BY <1>1, <1>2, OpShape DEF Start
  <2>2. \A g \in Handler : op'[g] = op[g] \/ op[g].reset = FALSE
    BY <1>1, <1>2, <2>1 DEF Start
  <2> QED
    BY <1>2, <2>1, <2>2, StartSessionKeepsHeld DEF Start
<1>3. CASE ForgetDevice(h)
  <2> DEFINE p == op[h].peer
  <2>1. p \in Peer /\ op[h].reset = FALSE
    BY <1>1, <1>3, OpShape DEF ForgetDevice
  <2>2. op'[h] = Remaining(sessions[p], inputOwner = p)
        /\ \A g \in Handler \ {h} : op'[g] = op[g]
    BY <1>1, <1>3 DEF ForgetDevice
  <2>3. inputOwner = p => op'[h].reset = TRUE
    <3>1. CASE inputOwner # p
      BY <3>1
    <3>2. CASE inputOwner = p
      <4>1. op'[h] = Remaining(sessions[p], TRUE)
        BY <2>2, <3>2
      <4> QED
        BY <4>1 DEF Remaining
    <3> QED
      BY <3>1, <3>2
  <2>4. /\ inputOwner = p => ResetPending'
        /\ ResetPending => ResetPending'
    BY <1>3, <2>1, <2>2, <2>3 DEF ForgetDevice, ResetPending
  <2>5. \A s \in Run : (Ended(s)' <=> Ended(s)) /\ (CancelOwed(s) => CancelOwed(s)')
    BY <1>3, <2>2 DEF ForgetDevice, Ended, CancelOwed
  <2>6. ASSUME NEW s \in Run, inputJob[s] = "checked", inputOwner = runPeer[s],
               inputOwner = p
        PROVE  CancelOwed(s)'
    <3>1. Live(s) /\ runPeer[s] = p
      BY <2>6 DEF HeldInv, CheckedInv, Live, Connected
    <3>2. sessions[p] = s
      BY <2>1, <3>1 DEF EntryIsRun
    <3>3. op'[h] = Remaining(s, TRUE)
      BY <2>2, <2>6, <3>2
    <3>4. op'[h] = [pc |-> "cancel", peer |-> NoPeer, run |-> s, reset |-> TRUE]
      BY <3>3, ConstantsAssumption DEF Remaining
    <3> QED
      BY <3>4 DEF CancelOwed
  <2>7. inputOwner # p => inputOwner' = inputOwner
    BY <1>3 DEF ForgetDevice
  <2> QED
    BY <1>3, <2>4, <2>5, <2>6, <2>7, HeldFrame
       DEF ForgetDevice, HeldInv, CheckedInv
<1>4. CASE CancelRun(h)
  <2> DEFINE r == op[h].run
  <2>1. r \in Run /\ op[h].reset \in BOOLEAN
    BY <1>1, <1>4, OpShape DEF CancelRun
  <2>2. op'[h] = Remaining(NoRun, op[h].reset)
        /\ \A g \in Handler \ {h} : op'[g] = op[g]
    BY <1>1, <1>4 DEF CancelRun
  <2>3. op[h].reset => op'[h].reset
    BY <2>2 DEF Remaining
  <2>4. ResetPending => ResetPending'
    BY <1>4, <2>2, <2>3 DEF CancelRun, ResetPending
  <2>5. \A s \in Run : s # r => (CancelOwed(s) => CancelOwed(s)')
    BY <2>2 DEF CancelOwed
  <2>6. \A s \in Run : Ended(s) => Ended(s)'
    BY <1>4 DEF CancelRun, Ended
  <2>7. r \in cancelled' \/ runPc[r] = "none"
    BY <1>4 DEF CancelRun
  <2>8. UNCHANGED <<inputJob, held, inputOwner, runPc, runPeer>>
    BY <1>4 DEF CancelRun
  <2>9. \A s \in Run : inputJob[s] = "checked" =>
            runPc[s] \in Connected /\ (s = r => Ended(s)')
    BY <2>7 DEF HeldInv, CheckedInv, Ended, Connected
  <2> QED
    BY <2>4, <2>5, <2>6, <2>8, <2>9, HeldFrame
<1>5. CASE ResetAfterCommand(h)
  <2>1. \A s \in Run : (Ended(s) => Ended(s)') /\ (CancelOwed(s) => CancelOwed(s)')
    BY <1>1, <1>5 DEF ResetAfterCommand, Ended, CancelOwed
  <2> QED
    BY <1>5, <2>1, HeldReset DEF ResetAfterCommand
<1> QED
  BY <1>2, <1>3, <1>4, <1>5 DEF HandlerStep

(* Remote input is granted only while nobody has it.                       *)
LEMMA GrantKeepsHeld ==
  ASSUME TypeOK, RunHasPeer, HeldInv,
         inputOwner \in {NoPeer, inputOwner'},
         UNCHANGED <<runVars, emulatorVars, op, daemon>>
  PROVE  HeldInv'
<1>1. \A s \in Run : (Ended(s)' <=> Ended(s)) /\ (CancelOwed(s)' <=> CancelOwed(s))
  BY DEF Ended, CancelOwed, runVars
<1>2. ResetPending' <=> ResetPending
  BY DEF ResetPending, runVars
<1>3. \A s \in Run : inputJob[s] = "checked" =>
          runPc[s] \in Connected /\ runPeer[s] # NoPeer
  BY ConstantsAssumption DEF HeldInv, CheckedInv, RunHasPeer
<1> QED
  BY <1>1, <1>2, <1>3, HeldFrame DEF emulatorVars, runVars

LEMMA CommandKeepsHeld ==
  ASSUME TypeOK, RunHasPeer, HeldInv, NEW p \in Peer, Command(p)
  PROVE  HeldInv'
<1>1. CASE Connect(p) \/ StartAutoConnect(p)
  <2>1. StartSession(p) /\ \A h \in Handler : op'[h] = op[h]
    BY <1>1 DEF Connect, StartAutoConnect
  <2>2. UNCHANGED <<emulatorVars, inputOwner, wasOwner, cancelled, daemon>>
    BY <1>1 DEF Connect, StartAutoConnect, leaseState, emulatorVars
  <2> QED
    BY <2>1, <2>2, StartSessionKeepsHeld
<1>2. CASE EnableInput(p) \/ SetInputAutoOn(p)
  <2>1. inputOwner \in {NoPeer, inputOwner'}
    BY <1>2 DEF EnableInput, SetInputAutoOn, GrantInput, LeaseFreeFor
  <2> QED
    BY <1>2, <2>1, GrantKeepsHeld DEF EnableInput, SetInputAutoOn
<1>3. CASE SetAutoConnectOff(p) \/ SetInputAutoOff(p)
  BY <1>3, GrantKeepsHeld DEF SetAutoConnectOff, SetInputAutoOff, leaseState
<1> QED
  BY <1>1, <1>2, <1>3 DEF Command

(* A handler that was idle takes on something to do; it owes nothing yet.  *)
LEMMA NewOpKeepsHeld ==
  ASSUME TypeOK, RunHasPeer, HeldInv, NEW h \in Handler, op[h] = Idle,
         \A g \in Handler \ {h} : op'[g] = op[g],
         UNCHANGED <<emulatorVars, inputOwner, runPc, runPeer, wasOwner,
                     cancelled, daemon>>
  PROVE  HeldInv'
<1>1. \A s \in Run : (Ended(s)' <=> Ended(s)) /\ (CancelOwed(s) => CancelOwed(s)')
  BY DEF Ended, CancelOwed, Idle
<1>2. ResetPending => ResetPending'
  BY DEF ResetPending, Idle
<1> QED
  BY <1>1, <1>2, HeldFrame DEF HeldInv, CheckedInv, emulatorVars

LEMMA HandledCommandKeepsHeld ==
  ASSUME TypeOK, RunHasPeer, HeldInv, "input-disable" \notin Commands,
         NEW h \in Handler, NEW p \in Peer, HandledCommand(h, p)
  PROVE  HeldInv'
<1> USE DEF leaseState, runVars, TypeOK
<1>1. CASE SetAutoConnectOn(h, p)
  BY <1>1, NewOpKeepsHeld DEF SetAutoConnectOn
<1>2. CASE Pair(h, p)
  BY <1>2, NewOpKeepsHeld DEF Pair
<1>3. CASE Disconnect(h, p) \/ Unpair(h, p)
  BY <1>3, NewOpKeepsHeld DEF Disconnect, Unpair
<1>4. CASE DisableInput(h, p)
  BY <1>4 DEF DisableInput, IPC
<1> QED
  BY <1>1, <1>2, <1>3, <1>4 DEF HandledCommand

LEMMA DaemonStepKeepsHeld ==
  ASSUME TypeOK, RunHasPeer, HeldInv, DaemonStep
  PROVE  HeldInv'
<1> USE DEF leaseState, runVars
<1>1. CASE AcceptFails \/ StopSSHOnContext \/ Signal \/ ShutdownStopSSH
  BY <1>1, HeldUnchanged DEF AcceptFails, StopSSHOnContext, Signal,
                             ShutdownStopSSH
<1>2. CASE ShutdownCancel
  <2>1. ResetPending'
    BY <1>2 DEF ShutdownCancel, ResetPending
  <2>2. \A s \in Run : Ended(s)'
    BY <1>2 DEF ShutdownCancel, Ended
  <2> QED
    BY <1>2, <2>1, <2>2, HeldFrame
       DEF ShutdownCancel, HeldInv, CheckedInv, emulatorVars
<1>3. CASE ShutdownReset
  <2>1. \A s \in Run : Ended(s)' /\ (CancelOwed(s)' <=> CancelOwed(s))
    BY <1>3 DEF ShutdownReset, Ended, CancelOwed
  <2> QED
    BY <1>3, <2>1, HeldReset DEF ShutdownReset
<1> QED
  BY <1>1, <1>2, <1>3 DEF DaemonStep

LEMMA HeldStep ==
  ASSUME TypeOK, RunHasPeer, EntryIsRun, TakenBack, HeldInv,
         "input-disable" \notin Commands, [Next]_vars
  PROVE  HeldInv'
<1>1. ASSUME NEW r \in Run, RunStep(r) PROVE HeldInv'
  BY <1>1, RunStepKeepsHeld
<1>2. ASSUME NEW r \in Run, InputStep(r) PROVE HeldInv'
  BY <1>2, InputStepKeepsHeld
<1>3. ASSUME NEW h \in Handler, HandlerStep(h) PROVE HeldInv'
  BY <1>3, HandlerStepKeepsHeld
<1>4. ASSUME NEW p \in Peer, Command(p) PROVE HeldInv'
  BY <1>4, CommandKeepsHeld
<1>5. ASSUME NEW h \in Handler, NEW p \in Peer, HandledCommand(h, p)
      PROVE  HeldInv'
  BY <1>5, HandledCommandKeepsHeld
<1>6. ASSUME NEW h \in Handler, NEW r \in Run, PhoneUnpairs(h, r)
      PROVE  HeldInv'
  BY <1>6, NewOpKeepsHeld DEF PhoneUnpairs, TypeOK, leaseState, runVars
<1>7. CASE DaemonStep
  BY <1>7, DaemonStepKeepsHeld
<1>8. CASE UNCHANGED vars
  BY <1>8, HeldUnchanged DEF vars, leaseState, runVars
<1> QED
  BY <1>1, <1>2, <1>3, <1>4, <1>5, <1>6, <1>7, <1>8 DEF Next

(* Unless remote input is switched off by hand, whatever a phone holds     *)
(* down belongs to the present owner or is about to be released.           *)
THEOREM NothingStaysHeld == Spec => []HeldReleased
<1>1. CASE "input-disable" \in Commands
  <2>1. HeldReleased
    BY <1>1 DEF HeldReleased
  <2> QED
    BY <2>1, PTL
<1>2. CASE "input-disable" \notin Commands
  <2>1. Init => HeldInv
    BY DEF Init, HeldInv, CheckedInv, ApplyingInv, HeldIsOwned
  <2>2. TypeOK /\ RunHasPeer /\ EntryIsRun /\ TakenBack /\ HeldInv /\ [Next]_vars
           => HeldInv'
    BY <1>2, HeldStep
  <2>3. HeldInv => HeldReleased
    BY DEF HeldInv, HeldReleased
  <2> QED
    BY <2>1, <2>2, <2>3, TypeCorrect, EntriesAreRuns, TakenBackHolds, PTL
       DEF Spec
<1> QED
  BY <1>1, <1>2

-----------------------------------------------------------------------------
(* Shutdown.                                                               *)

(* The emulator stays quiet: every session context has ended before the    *)
(* last reset, which no event that is being applied outlives.              *)
QuietInv == daemon = "stopped" => held = {} /\ DispatchFree

LEMMA QuietStep ==
  ASSUME TypeOK, QuietInv, [Next]_vars
  PROVE  QuietInv'
<1> USE DEF QuietInv, leaseState, runVars, emulatorVars, sshVars
<1>1. ASSUME daemon' = daemon, held' \subseteq held,
             \A r \in Run : inputJob'[r] = "applying" => inputJob[r] = "applying"
      PROVE  QuietInv'
  BY <1>1 DEF DispatchFree, TypeOK
<1>2. ASSUME NEW r \in Run, RunStep(r) PROVE QuietInv'
  <2>1. CASE \/ Begin(r) \/ LoopTop(r) \/ DialFails(r) \/ DialSucceeds(r)
             \/ AllowAddress(r) \/ Publish(r) \/ CloseConnection(r)
             \/ Drop(r) \/ DisallowAddress(r) \/ CheckInactive(r)
             \/ Backoff(r) \/ ClearSession(r)
    BY <1>1, <2>1 DEF Begin, LoopTop, DialFails, DialSucceeds, AllowAddress,
                      Publish, CloseConnection, Drop, DisallowAddress,
                      CheckInactive, Backoff, ClearSession
  <2>2. CASE HeartbeatEnds(r)
    <3>1. \A s \in Run : inputJob'[s] = "applying" => inputJob[s] = "applying"
      BY <2>2 DEF HeartbeatEnds, TypeOK
    <3> QED
      BY <1>1, <2>2, <3>1 DEF HeartbeatEnds
  <2>3. CASE CheckContext(r) \/ StartListening(r) \/ StopSSHService(r)
    BY <1>1, <2>3 DEF CheckContext, StartListening, StopSSHService
  <2>4. CASE ResetAfterLoss(r) \/ ClearReset(r)
    BY <1>1, <2>4 DEF ResetAfterLoss, ClearReset, ResetRemoteInput
  <2> QED
    BY <1>2, <2>1, <2>2, <2>3, <2>4 DEF RunStep
<1>3. ASSUME NEW r \in Run, InputStep(r) PROVE QuietInv'
  <2>1. CASE CheckInput(r)
    <3>1. \A s \in Run : inputJob'[s] = "applying" => inputJob[s] = "applying"
      BY <2>1 DEF CheckInput, TypeOK
    <3> QED
      BY <1>1, <2>1, <3>1 DEF CheckInput
  <2>2. CASE BeginApply(r)
    <3>1. CASE SessionOver(r)
      <4>1. \A s \in Run : inputJob'[s] = "applying" => inputJob[s] = "applying"
        BY <2>2, <3>1 DEF BeginApply, TypeOK
      <4> QED
        BY <1>1, <2>2, <4>1 DEF BeginApply
    <3>2. CASE ~SessionOver(r)
      BY <2>2, <3>2 DEF BeginApply, SessionOver, Ended
    <3> QED
      BY <3>1, <3>2
  <2>3. CASE EndApply(r)
    <3>1. daemon # "stopped" /\ daemon' = daemon
      BY <2>3 DEF EndApply, DispatchFree
    <3> QED
      BY <3>1
  <2> QED
    BY <1>3, <2>1, <2>2, <2>3 DEF InputStep
<1>4. ASSUME NEW h \in Handler, HandlerStep(h) PROVE QuietInv'
  BY <1>1, <1>4 DEF HandlerStep, Start, ForgetDevice, CancelRun,
                    ResetAfterCommand, ResetRemoteInput
<1>5. ASSUME NEW p \in Peer, Command(p) PROVE QuietInv'
  BY <1>1, <1>5 DEF Command, Connect, SetAutoConnectOff, EnableInput,
                    SetInputAutoOn, SetInputAutoOff, StartAutoConnect
<1>6. ASSUME NEW h \in Handler, NEW p \in Peer, HandledCommand(h, p)
      PROVE  QuietInv'
  BY <1>1, <1>6 DEF HandledCommand, SetAutoConnectOn, Pair, Disconnect, Unpair,
                    DisableInput
<1>7. ASSUME NEW h \in Handler, NEW r \in Run, PhoneUnpairs(h, r)
      PROVE  QuietInv'
  BY <1>1, <1>7 DEF PhoneUnpairs
<1>8. CASE DaemonStep
  <2>1. CASE AcceptFails \/ StopSSHOnContext
    BY <1>1, <2>1 DEF AcceptFails, StopSSHOnContext
  <2>2. CASE Signal \/ ShutdownStopSSH \/ ShutdownCancel
    BY <2>2 DEF Signal, ShutdownStopSSH, ShutdownCancel
  <2>3. CASE ShutdownReset
    BY <2>3 DEF ShutdownReset, ResetRemoteInput, DispatchFree
  <2> QED
    BY <1>8, <2>1, <2>2, <2>3 DEF DaemonStep
<1>9. CASE UNCHANGED vars
  BY <1>1, <1>9 DEF vars
<1> QED
  BY <1>2, <1>3, <1>4, <1>5, <1>6, <1>7, <1>8, <1>9 DEF Next

(* A daemon that has shut down holds no key or button down, and no event   *)
(* that was in flight presses one again.                                   *)
THEOREM ShutdownIsQuiet == Spec => []StoppedIsQuiet
<1>1. Init => QuietInv
  BY DEF Init, QuietInv
<1>2. TypeOK /\ QuietInv /\ [Next]_vars => QuietInv'
  BY QuietStep
<1>3. QuietInv => StoppedIsQuiet
  BY DEF QuietInv, StoppedIsQuiet
<1> QED
  BY <1>1, <1>2, <1>3, TypeCorrect, PTL DEF Spec
=============================================================================
