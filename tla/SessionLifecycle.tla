-------------------------- MODULE SessionLifecycle --------------------------
(***************************************************************************)
(* The session manager of quavad: the sessions map, the goroutine          *)
(* runSession that keeps one phone connected, the single owner of remote   *)
(* input and the emulator it drives, the SSH service that sessions open    *)
(* and close, and every IPC command or phone message that changes these.   *)
(*                                                                         *)
(* A step is what the code does between two points where another goroutine *)
(* can get in: one critical section of Daemon.mu, one cancel(), one call   *)
(* into the SSH service, one hold of inputDispatchMu.                      *)
(*                                                                         *)
(* The store is the daemon's own copy of the configuration, and every      *)
(* Save succeeds.                                                          *)
(***************************************************************************)
EXTENDS FiniteSets

CONSTANTS Peer,      \* the phones
          Run,       \* runSession goroutines (slots, reused after an exit)
          Handler,   \* goroutines that serve IPC commands and unpair messages
          NoPeer, NoRun,
          Commands   \* what users, phones and the system do in this instance

CommandNames == {"connect", "disconnect", "unpair", "phone-unpair", "pair",
                 "autoconnect-on", "autoconnect-off", "input-enable",
                 "input-disable", "input-auto-on", "input-auto-off",
                 "accept-fails", "stop"}

ASSUME ConstantsAssumption ==
    /\ NoPeer \notin Peer
    /\ NoRun \notin Run
    /\ Commands \subseteq CommandNames

VARIABLES
    paired,        \* store.Devices
    autoConnect,   \* phones without store.AutoConnectOff
    inputAuto,     \* store.InputAuto
    sessions,      \* d.sessions: the run that owns the entry, NoRun if absent
    active,        \* phones whose entry has a non-nil Active
    inputOwner,    \* d.inputOwner
    inputEnabled,  \* d.inputEnabled
    runPc,         \* where each runSession goroutine is
    runPeer,       \* the peer it was started for
    cancelled,     \* runs whose cancel function was called
    stale,         \* runs started with a credential a later pairing replaced
    wasOwner,      \* runs whose local wasInputOwner is true
    inputJob,      \* the input event the session's worker has in hand
    held,          \* phones that have a key or button down in the emulator
    sshAllowed,    \* sshService.allowed
    sshRunning,    \* sshService.listener # nil
    op,            \* what each handler goroutine has left to do
    boot,          \* phones startAutoConnect has still to start
    daemon         \* how far a shutdown has come

storeVars == <<paired, autoConnect, inputAuto>>
leaseState == <<active, inputOwner, inputEnabled>>
runVars == <<runPc, runPeer, cancelled, stale, wasOwner>>
emulatorVars == <<inputJob, held>>
sshVars == <<sshAllowed, sshRunning>>
vars == <<storeVars, sessions, leaseState, runVars, emulatorVars, sshVars,
          op, boot, daemon>>

RunPc == {"none", "begin", "loop", "dial", "allow", "publish", "serve",
          "listen", "beat", "closing", "drop", "disallow", "check", "stopSSH",
          "reset", "backoff", "clear", "clearReset"}

(* The pcs at which the context of the transport connection can be alive.  *)
Connected == {"allow", "publish", "serve", "listen", "beat"}

(* What a handler goroutine still has to do: nothing; call startSession or *)
(* forgetDevice for a phone; cancel a run and perhaps reset the emulator;  *)
(* reset the emulator.                                                     *)
Idle == [pc |-> "idle", peer |-> NoPeer, run |-> NoRun, reset |-> FALSE]

Op ==
    {Idle}
    \cup [pc : {"start", "forget"}, peer : Peer, run : {NoRun}, reset : {FALSE}]
    \cup [pc : {"cancel"}, peer : {NoPeer}, run : Run, reset : BOOLEAN]
    \cup [pc : {"reset"}, peer : {NoPeer}, run : {NoRun}, reset : {TRUE}]

TypeOK ==
    /\ paired \subseteq Peer
    /\ autoConnect \subseteq Peer
    /\ inputAuto \subseteq Peer
    /\ sessions \in [Peer -> Run \cup {NoRun}]
    /\ active \subseteq Peer
    /\ inputOwner \in Peer \cup {NoPeer}
    /\ inputEnabled \subseteq Peer
    /\ runPc \in [Run -> RunPc]
    /\ runPeer \in [Run -> Peer \cup {NoPeer}]
    /\ cancelled \subseteq Run
    /\ stale \subseteq Run
    /\ wasOwner \subseteq Run
    /\ inputJob \in [Run -> {"none", "checked", "applying"}]
    /\ held \subseteq Peer
    /\ sshAllowed \subseteq Peer
    /\ sshRunning \in BOOLEAN
    /\ op \in [Handler -> Op]
    /\ boot \subseteq Peer
    /\ daemon \in {"running", "signalled", "sshStopped", "cleared", "stopped"}

(* A daemon starts with the configuration a previous one saved: settings   *)
(* exist for paired phones only, and automatic connecting is the default.  *)
Init ==
    /\ paired \in SUBSET Peer
    /\ autoConnect \in {S \in SUBSET Peer : Peer \ paired \subseteq S}
    /\ inputAuto \in SUBSET paired
    /\ sessions = [p \in Peer |-> NoRun]
    /\ active = {}
    /\ inputOwner = NoPeer
    /\ inputEnabled = {}
    /\ runPc = [r \in Run |-> "none"]
    /\ runPeer = [r \in Run |-> NoPeer]
    /\ cancelled = {}
    /\ stale = {}
    /\ wasOwner = {}
    /\ inputJob = [r \in Run |-> "none"]
    /\ held = {}
    /\ sshAllowed = {}
    /\ sshRunning = FALSE
    /\ op = [h \in Handler |-> Idle]
    /\ boot = paired \cap autoConnect
    /\ daemon = "running"

-----------------------------------------------------------------------------
(* Helpers.                                                                *)

GoTo(r, pc) == runPc' = [runPc EXCEPT ![r] = pc]

(* ctx.Err() # nil for the context startSession made for run r.            *)
Ended(r) == r \in cancelled \/ daemon # "running"

(* The session context is done: Emulator.Apply refuses the event.          *)
SessionOver(r) == Ended(r) \/ runPc[r] \notin Connected

(* A slot is free once its goroutine is gone and nobody refers to it.      *)
Free(r) ==
    /\ runPc[r] = "none"
    /\ inputJob[r] = "none"
    /\ \A h \in Handler : op[h].run # r

DispatchFree == \A r \in Run : inputJob[r] # "applying"

(* Mutant: whoever asks last gets remote input.                            *)
LeaseFreeForAnyone(p) == TRUE

LeaseFreeFor(p) == inputOwner \in {NoPeer, p}

(* Mutant: only the per-phone flag is dropped.                             *)
ReleaseFlagOnly(p) ==
    /\ inputEnabled' = inputEnabled \ {p}
    /\ UNCHANGED inputOwner

(* inputOwner and inputEnabled when p's claim on remote input is dropped.  *)
ReleaseInput(p) ==
    /\ inputOwner' = IF inputOwner = p THEN NoPeer ELSE inputOwner
    /\ inputEnabled' =
          IF inputOwner = p THEN inputEnabled \ {p} ELSE inputEnabled

GrantInput(p) ==
    /\ inputOwner' = p
    /\ inputEnabled' = inputEnabled \cup {p}

(* Mutant: the reset does not wait for an event that is being applied.     *)
ResetWithoutDispatchMu == held' = {}

(* resetRemoteInput: waits for inputDispatchMu, releases what is held.     *)
ResetRemoteInput == DispatchFree /\ held' = {}

(* Mutant: startSession does not look for an entry.                        *)
StartAlways(p) ==
    \E r \in Run :
        /\ Free(r)
        /\ sessions' = [sessions EXCEPT ![p] = r]
        /\ runPc' = [runPc EXCEPT ![r] = "begin"]
        /\ runPeer' = [runPeer EXCEPT ![r] = p]

(* The critical section of startSession; the goroutine it starts is live   *)
(* at once.                                                                *)
StartSession(p) ==
    IF p \in paired /\ sessions[p] = NoRun
    THEN \E r \in Run :
            /\ Free(r)
            /\ sessions' = [sessions EXCEPT ![p] = r]
            /\ runPc' = [runPc EXCEPT ![r] = "begin"]
            /\ runPeer' = [runPeer EXCEPT ![r] = p]
    ELSE UNCHANGED <<sessions, runPc, runPeer>>

-----------------------------------------------------------------------------
(* runSession and RunWithCallbacks, for the goroutine in slot r.           *)

(* Without a shared watcher and without a discovery client, give up.       *)
Begin(r) ==
    /\ runPc[r] = "begin"
    /\ \/ GoTo(r, "loop")
       \/ GoTo(r, "clear")
    /\ UNCHANGED <<storeVars, sessions, leaseState, runPeer, cancelled, stale,
                   wasOwner, emulatorVars, sshVars, op, boot, daemon>>

(* Mutant: the loop condition is gone.                                     *)
LoopForever(r) ==
    /\ runPc[r] = "loop"
    /\ GoTo(r, "dial")
    /\ UNCHANGED <<storeVars, sessions, leaseState, runPeer, cancelled, stale,
                   wasOwner, emulatorVars, sshVars, op, boot, daemon>>

LoopTop(r) ==
    /\ runPc[r] = "loop"
    /\ GoTo(r, IF Ended(r) THEN "clear" ELSE "dial")
    /\ UNCHANGED <<storeVars, sessions, leaseState, runPeer, cancelled, stale,
                   wasOwner, emulatorVars, sshVars, op, boot, daemon>>

(* Not found, unreachable, refused by the handshake, or cancelled.         *)
DialFails(r) ==
    /\ runPc[r] = "dial"
    /\ GoTo(r, "drop")
    /\ UNCHANGED <<storeVars, sessions, leaseState, runPeer, cancelled, stale,
                   wasOwner, emulatorVars, sshVars, op, boot, daemon>>

(* The phone answers and both sides hold the same credential; the          *)
(* dispatcher and the input worker start.                                  *)
DialSucceeds(r) ==
    /\ runPc[r] = "dial"
    /\ ~Ended(r)
    /\ r \notin stale
    /\ GoTo(r, "allow")
    /\ UNCHANGED <<storeVars, sessions, leaseState, runPeer, cancelled, stale,
                   wasOwner, emulatorVars, sshVars, op, boot, daemon>>

(* onConnect, in the order of the code: SetAllowedAddress,                 *)
AllowAddress(r) ==
    /\ runPc[r] = "allow"
    /\ sshAllowed' = sshAllowed \cup {runPeer[r]}
    /\ GoTo(r, "publish")
    /\ UNCHANGED <<storeVars, sessions, leaseState, runPeer, cancelled, stale,
                   wasOwner, emulatorVars, sshRunning, op, boot, daemon>>

(* then the critical section that publishes the session and gives remote   *)
(* input back to a phone the user always allows,                           *)
Publish(r) ==
    LET p == runPeer[r] IN
    /\ runPc[r] = "publish"
    /\ active' = IF sessions[p] # NoRun THEN active \cup {p} ELSE active
    /\ IF p \in inputAuto /\ LeaseFreeFor(p)
       THEN GrantInput(p)
       ELSE UNCHANGED <<inputOwner, inputEnabled>>
    /\ GoTo(r, "serve")
    /\ UNCHANGED <<storeVars, sessions, runPeer, cancelled, stale, wasOwner,
                   emulatorVars, sshVars, op, boot, daemon>>

(* then startSSHService.  Start looks at the daemon's context first ...    *)
CheckContext(r) ==
    /\ runPc[r] = "serve"
    /\ GoTo(r, IF daemon = "running" THEN "listen" ELSE "beat")
    /\ UNCHANGED <<storeVars, sessions, leaseState, runPeer, cancelled, stale,
                   wasOwner, emulatorVars, sshVars, op, boot, daemon>>

(* ... and then, under its own lock, listens, unless it does already or    *)
(* the port is taken.  The daemon may have shut down in between.           *)
StartListening(r) ==
    /\ runPc[r] = "listen"
    /\ sshRunning' \in {TRUE, sshRunning}
    /\ GoTo(r, "beat")
    /\ UNCHANGED <<storeVars, sessions, leaseState, runPeer, cancelled, stale,
                   wasOwner, emulatorVars, sshAllowed, op, boot, daemon>>

(* RunHeartbeat returns: cancelled, reader gone, or no pong. sessionCancel *)
(* makes an event the worker has only checked so far come to nothing.      *)
HeartbeatEnds(r) ==
    /\ runPc[r] = "beat"
    /\ GoTo(r, "closing")
    /\ inputJob' = IF inputJob[r] = "checked"
                   THEN [inputJob EXCEPT ![r] = "none"] ELSE inputJob
    /\ UNCHANGED <<storeVars, sessions, leaseState, runPeer, cancelled, stale,
                   wasOwner, held, sshVars, op, boot, daemon>>

(* Mutant: a lost connection is retried without calling onDisconnect.      *)
CloseAndRetry(r) ==
    /\ runPc[r] = "closing"
    /\ GoTo(r, IF Ended(r) THEN "clear" ELSE "backoff")
    /\ UNCHANGED <<storeVars, sessions, leaseState, runPeer, cancelled, stale,
                   wasOwner, emulatorVars, sshVars, op, boot, daemon>>

(* After Close: a cancelled run returns without calling onDisconnect.      *)
CloseConnection(r) ==
    /\ runPc[r] = "closing"
    /\ GoTo(r, IF Ended(r) THEN "clear" ELSE "drop")
    /\ UNCHANGED <<storeVars, sessions, leaseState, runPeer, cancelled, stale,
                   wasOwner, emulatorVars, sshVars, op, boot, daemon>>

(* onDisconnect: the critical section,                                     *)
Drop(r) ==
    LET p == runPeer[r] IN
    /\ runPc[r] = "drop"
    /\ active' = IF sessions[p] # NoRun THEN active \ {p} ELSE active
    /\ ReleaseInput(p)
    /\ wasOwner' = IF inputOwner = p THEN wasOwner \cup {r} ELSE wasOwner
    /\ GoTo(r, "disallow")
    /\ UNCHANGED <<storeVars, sessions, runPeer, cancelled, stale,
                   emulatorVars, sshVars, op, boot, daemon>>

(* RemoveAllowedAddress,                                                   *)
DisallowAddress(r) ==
    /\ runPc[r] = "disallow"
    /\ sshAllowed' = sshAllowed \ {runPeer[r]}
    /\ GoTo(r, "check")
    /\ UNCHANGED <<storeVars, sessions, leaseState, runPeer, cancelled, stale,
                   wasOwner, emulatorVars, sshRunning, op, boot, daemon>>

AfterStop(r) == IF r \in wasOwner THEN "reset" ELSE "backoff"

(* stopSSHServiceIfInactive: look under the lock, stop after it,           *)
CheckInactive(r) ==
    /\ runPc[r] = "check"
    /\ GoTo(r, IF active = {} THEN "stopSSH" ELSE AfterStop(r))
    /\ UNCHANGED <<storeVars, sessions, leaseState, runPeer, cancelled, stale,
                   wasOwner, emulatorVars, sshVars, op, boot, daemon>>

StopSSHService(r) ==
    /\ runPc[r] = "stopSSH"
    /\ sshRunning' = FALSE
    /\ GoTo(r, AfterStop(r))
    /\ UNCHANGED <<storeVars, sessions, leaseState, runPeer, cancelled, stale,
                   wasOwner, emulatorVars, sshAllowed, op, boot, daemon>>

(* resetRemoteInput for the phone that owned remote input.                 *)
ResetAfterLoss(r) ==
    /\ runPc[r] = "reset"
    /\ ResetRemoteInput
    /\ wasOwner' = wasOwner \ {r}
    /\ GoTo(r, "backoff")
    /\ UNCHANGED <<storeVars, sessions, leaseState, runPeer, cancelled, stale,
                   inputJob, sshVars, op, boot, daemon>>

(* Mutant: the wait before a retry has no timer.                           *)
BackoffForever(r) ==
    /\ runPc[r] = "backoff"
    /\ Ended(r)
    /\ GoTo(r, "clear")
    /\ UNCHANGED <<storeVars, sessions, leaseState, runPeer, cancelled, stale,
                   wasOwner, emulatorVars, sshVars, op, boot, daemon>>

(* The retry timer fires, or the wait is cut short by a cancel.            *)
Backoff(r) ==
    /\ runPc[r] = "backoff"
    /\ \/ GoTo(r, "loop")
       \/ Ended(r) /\ GoTo(r, "clear")
    /\ UNCHANGED <<storeVars, sessions, leaseState, runPeer, cancelled, stale,
                   wasOwner, emulatorVars, sshVars, op, boot, daemon>>

(* The goroutine is over: its slot forgets everything but the phone of an  *)
(* event that is still being applied.                                      *)
Exit(r) ==
    /\ GoTo(r, "none")
    /\ runPeer' =
          IF inputJob[r] = "none" THEN [runPeer EXCEPT ![r] = NoPeer] ELSE runPeer
    /\ cancelled' = cancelled \ {r}
    /\ stale' = stale \ {r}
    /\ wasOwner' = wasOwner \ {r}

(* clearSession: delete the entry and the claim on remote input, then, for *)
(* an owner, reset the emulator.                                           *)
ClearSession(r) ==
    LET p == runPeer[r] IN
    /\ runPc[r] = "clear"
    /\ sessions' = [sessions EXCEPT ![p] = NoRun]
    /\ active' = active \ {p}
    /\ ReleaseInput(p)
    /\ IF inputOwner = p
       THEN /\ GoTo(r, "clearReset")
            /\ UNCHANGED <<runPeer, cancelled, stale, wasOwner>>
       ELSE Exit(r)
    /\ UNCHANGED <<storeVars, emulatorVars, sshVars, op, boot, daemon>>

ClearReset(r) ==
    /\ runPc[r] = "clearReset"
    /\ ResetRemoteInput
    /\ Exit(r)
    /\ UNCHANGED <<storeVars, sessions, leaseState, inputJob, sshVars, op,
                   boot, daemon>>

-----------------------------------------------------------------------------
(* An input event of run r's session.                                      *)

(* The handler looks up the owner under the lock ...                       *)
CheckInput(r) ==
    LET p == runPeer[r] IN
    /\ runPc[r] \in Connected
    /\ inputJob[r] = "none"
    /\ p \in inputEnabled /\ inputOwner = p
    /\ inputJob' = [inputJob EXCEPT ![r] = "checked"]
    /\ UNCHANGED <<storeVars, sessions, leaseState, runVars, held, sshVars, op,
                   boot, daemon>>

(* Mutant: Apply does not look at the context.                             *)
BeginApplyAnyway(r) ==
    /\ inputJob[r] = "checked"
    /\ DispatchFree
    /\ inputJob' = [inputJob EXCEPT ![r] = "applying"]
    /\ UNCHANGED <<storeVars, sessions, leaseState, runVars, held, sshVars, op,
                   boot, daemon>>

(* ... then takes inputDispatchMu, where Apply looks at the context ...    *)
BeginApply(r) ==
    /\ inputJob[r] = "checked"
    /\ DispatchFree
    /\ inputJob' =
          [inputJob EXCEPT ![r] = IF SessionOver(r) THEN "none" ELSE "applying"]
    /\ UNCHANGED <<storeVars, sessions, leaseState, runVars, held, sshVars, op,
                   boot, daemon>>

(* ... and presses or releases a key.                                      *)
EndApply(r) ==
    /\ inputJob[r] = "applying"
    /\ inputJob' = [inputJob EXCEPT ![r] = "none"]
    /\ \/ held' = held \cup {runPeer[r]}
       \/ held' = held \ {runPeer[r]}
    /\ UNCHANGED <<storeVars, sessions, leaseState, runVars, sshVars, op, boot,
                   daemon>>

-----------------------------------------------------------------------------
(* IPC commands and unpair messages.  The first critical section of a      *)
(* command is one action; what its goroutine does afterwards stays in op.  *)

IPC(c) == c \in Commands /\ boot = {} /\ daemon # "stopped"

Call(pc, p) == [pc |-> pc, peer |-> p, run |-> NoRun, reset |-> FALSE]

(* Mutant: the cancel function is called without the nil check.            *)
CancelAlways(r, reset) ==
    [pc |-> "cancel", peer |-> NoPeer, run |-> r, reset |-> reset]

(* forgetDevice after its critical section: cancel, then reset.            *)
Remaining(r, reset) ==
    IF r # NoRun
    THEN [pc |-> "cancel", peer |-> NoPeer, run |-> r, reset |-> reset]
    ELSE IF reset
    THEN [pc |-> "reset", peer |-> NoPeer, run |-> NoRun, reset |-> TRUE]
    ELSE Idle

Connect(p) ==
    /\ IPC("connect")
    /\ StartSession(p)
    /\ UNCHANGED <<storeVars, leaseState, cancelled, stale, wasOwner,
                   emulatorVars, sshVars, op, boot, daemon>>

SetAutoConnectOn(h, p) ==
    /\ IPC("autoconnect-on")
    /\ op[h] = Idle
    /\ p \in paired
    /\ autoConnect' = autoConnect \cup {p}
    /\ op' = [op EXCEPT ![h] = Call("start", p)]
    /\ UNCHANGED <<paired, inputAuto, sessions, leaseState, runVars,
                   emulatorVars, sshVars, boot, daemon>>

SetAutoConnectOff(p) ==
    /\ IPC("autoconnect-off")
    /\ p \in paired
    /\ autoConnect' = autoConnect \ {p}
    /\ UNCHANGED <<paired, inputAuto, sessions, leaseState, runVars,
                   emulatorVars, sshVars, op, boot, daemon>>

(* The pairing protocol has written a new trust record and the daemon has  *)
(* reopened the store.  A run that is still going keeps the old record.    *)
Pair(h, p) ==
    /\ IPC("pair")
    /\ op[h] = Idle
    /\ paired' = paired \cup {p}
    /\ stale' = stale \cup {r \in Run : runPeer[r] = p /\ runPc[r] # "none"}
    /\ op' = IF p \in autoConnect
             THEN [op EXCEPT ![h] = Call("start", p)]
             ELSE op
    /\ UNCHANGED <<autoConnect, inputAuto, sessions, leaseState, runPc,
                   runPeer, cancelled, wasOwner, emulatorVars, sshVars, boot,
                   daemon>>

(* startSession on behalf of pair and setAutoConnect.                      *)
Start(h) ==
    /\ op[h].pc = "start"
    /\ StartSession(op[h].peer)
    /\ op' = [op EXCEPT ![h] = Idle]
    /\ UNCHANGED <<storeVars, leaseState, cancelled, stale, wasOwner,
                   emulatorVars, sshVars, boot, daemon>>

(* The cancel function is fetched under the lock and called after it.      *)
Disconnect(h, p) ==
    /\ IPC("disconnect")
    /\ op[h] = Idle
    /\ sessions[p] # NoRun
    /\ op' = [op EXCEPT ![h] = Remaining(sessions[p], FALSE)]
    /\ UNCHANGED <<storeVars, sessions, leaseState, runVars, emulatorVars,
                   sshVars, boot, daemon>>

(* unpair looks the phone up, tells it if it is connected and then forgets *)
(* it, whether or not it answered.                                         *)
Unpair(h, p) ==
    /\ IPC("unpair")
    /\ op[h] = Idle
    /\ p \in paired
    /\ op' = [op EXCEPT ![h] = Call("forget", p)]
    /\ UNCHANGED <<storeVars, sessions, leaseState, runVars, emulatorVars,
                   sshVars, boot, daemon>>

(* The phone asks to be unpaired; the event worker acknowledges and calls  *)
(* forgetDevice.                                                           *)
PhoneUnpairs(h, r) ==
    /\ "phone-unpair" \in Commands
    /\ op[h] = Idle
    /\ runPc[r] \in Connected
    /\ op' = [op EXCEPT ![h] = Call("forget", runPeer[r])]
    /\ UNCHANGED <<storeVars, sessions, leaseState, runVars, emulatorVars,
                   sshVars, boot, daemon>>

(* The critical section of forgetDevice.                                   *)
ForgetDevice(h) ==
    LET p == op[h].peer IN
    /\ op[h].pc = "forget"
    /\ inputOwner' = IF inputOwner = p THEN NoPeer ELSE inputOwner
    /\ inputEnabled' = inputEnabled \ {p}
    /\ paired' = paired \ {p}
    /\ autoConnect' = autoConnect \cup {p}
    /\ inputAuto' = inputAuto \ {p}
    /\ op' = [op EXCEPT ![h] = Remaining(sessions[p], inputOwner = p)]
    /\ UNCHANGED <<sessions, active, runVars, emulatorVars, sshVars, boot,
                   daemon>>

CancelRun(h) ==
    /\ op[h].pc = "cancel"
    /\ cancelled' = IF runPc[op[h].run] = "none" THEN cancelled
                    ELSE cancelled \cup {op[h].run}
    /\ op' = [op EXCEPT ![h] = Remaining(NoRun, op[h].reset)]
    /\ UNCHANGED <<storeVars, sessions, leaseState, runPc, runPeer, stale,
                   wasOwner, emulatorVars, sshVars, boot, daemon>>

ResetAfterCommand(h) ==
    /\ op[h].pc = "reset"
    /\ ResetRemoteInput
    /\ op' = [op EXCEPT ![h] = Idle]
    /\ UNCHANGED <<storeVars, sessions, leaseState, runVars, inputJob, sshVars,
                   boot, daemon>>

EnableInput(p) ==
    /\ IPC("input-enable")
    /\ p \in paired /\ p \in active
    /\ LeaseFreeFor(p)
    /\ GrantInput(p)
    /\ UNCHANGED <<storeVars, sessions, active, runVars, emulatorVars, sshVars,
                   op, boot, daemon>>

DisableInput(h, p) ==
    /\ IPC("input-disable")
    /\ op[h] = Idle
    /\ p \in paired
    /\ inputEnabled' = inputEnabled \ {p}
    /\ inputOwner' = IF inputOwner = p THEN NoPeer ELSE inputOwner
    /\ op' = [op EXCEPT ![h] = Remaining(NoRun, inputOwner = p)]
    /\ UNCHANGED <<storeVars, sessions, active, runVars, emulatorVars, sshVars,
                   boot, daemon>>

SetInputAutoOn(p) ==
    /\ IPC("input-auto-on")
    /\ p \in paired
    /\ inputAuto' = inputAuto \cup {p}
    /\ IF p \in active /\ LeaseFreeFor(p)
       THEN GrantInput(p)
       ELSE UNCHANGED <<inputOwner, inputEnabled>>
    /\ UNCHANGED <<paired, autoConnect, sessions, active, runVars,
                   emulatorVars, sshVars, op, boot, daemon>>

SetInputAutoOff(p) ==
    /\ IPC("input-auto-off")
    /\ p \in paired
    /\ inputAuto' = inputAuto \ {p}
    /\ UNCHANGED <<paired, autoConnect, sessions, leaseState, runVars,
                   emulatorVars, sshVars, op, boot, daemon>>

-----------------------------------------------------------------------------
(* The daemon's main goroutine and the SSH service's own goroutines.       *)

StartAutoConnect(p) ==
    /\ p \in boot
    /\ StartSession(p)
    /\ boot' = boot \ {p}
    /\ UNCHANGED <<storeVars, leaseState, cancelled, stale, wasOwner,
                   emulatorVars, sshVars, op, daemon>>

(* Accept fails on a listener nobody stopped.                              *)
AcceptFails ==
    /\ "accept-fails" \in Commands
    /\ sshRunning
    /\ sshRunning' = FALSE
    /\ sshAllowed' = {}
    /\ UNCHANGED <<storeVars, sessions, leaseState, runVars, emulatorVars, op,
                   boot, daemon>>

(* Mutant: Start leaves no goroutine behind.                               *)
NobodyStopsSSH == FALSE /\ UNCHANGED vars

(* The goroutine Start leaves behind waits for the daemon's context and    *)
(* then calls Stop, also when Start came after the shutdown.               *)
StopSSHOnContext ==
    /\ daemon # "running"
    /\ sshRunning
    /\ sshRunning' = FALSE
    /\ UNCHANGED <<storeVars, sessions, leaseState, runVars, emulatorVars,
                   sshAllowed, op, boot, daemon>>

(* SIGTERM: the context every session context derives from is cancelled.   *)
Signal ==
    /\ "stop" \in Commands
    /\ daemon = "running"
    /\ daemon' = "signalled"
    /\ UNCHANGED <<storeVars, sessions, leaseState, runVars, emulatorVars,
                   sshVars, op, boot>>

ShutdownStopSSH ==
    /\ daemon = "signalled"
    /\ boot = {}
    /\ daemon' = "sshStopped"
    /\ sshRunning' = FALSE
    /\ UNCHANGED <<storeVars, sessions, leaseState, runVars, emulatorVars,
                   sshAllowed, op, boot>>

ShutdownCancel ==
    /\ daemon = "sshStopped"
    /\ daemon' = "cleared"
    /\ cancelled' = cancelled \cup {r \in Run : \E p \in Peer : sessions[p] = r}
    /\ inputOwner' = NoPeer
    /\ inputEnabled' = {}
    /\ UNCHANGED <<storeVars, sessions, active, runPc, runPeer, stale,
                   wasOwner, emulatorVars, sshVars, op, boot>>

ShutdownReset ==
    /\ daemon = "cleared"
    /\ ResetRemoteInput
    /\ daemon' = "stopped"
    /\ UNCHANGED <<storeVars, sessions, leaseState, runVars, inputJob, sshVars,
                   op, boot>>

-----------------------------------------------------------------------------
(* The next-state relation, by goroutine.                                  *)

RunStep(r) ==
    \/ Begin(r) \/ LoopTop(r) \/ DialFails(r) \/ DialSucceeds(r)
    \/ AllowAddress(r) \/ Publish(r) \/ CheckContext(r)
    \/ StartListening(r) \/ HeartbeatEnds(r) \/ CloseConnection(r)
    \/ Drop(r) \/ DisallowAddress(r) \/ CheckInactive(r)
    \/ StopSSHService(r) \/ ResetAfterLoss(r) \/ Backoff(r)
    \/ ClearSession(r) \/ ClearReset(r)

InputStep(r) == CheckInput(r) \/ BeginApply(r) \/ EndApply(r)

HandlerStep(h) ==
    Start(h) \/ ForgetDevice(h) \/ CancelRun(h) \/ ResetAfterCommand(h)

Command(p) ==
    \/ Connect(p) \/ SetAutoConnectOff(p) \/ EnableInput(p)
    \/ SetInputAutoOn(p) \/ SetInputAutoOff(p) \/ StartAutoConnect(p)

HandledCommand(h, p) ==
    \/ SetAutoConnectOn(h, p) \/ Pair(h, p) \/ Disconnect(h, p)
    \/ Unpair(h, p) \/ DisableInput(h, p)

DaemonStep ==
    \/ AcceptFails \/ StopSSHOnContext \/ Signal
    \/ ShutdownStopSSH \/ ShutdownCancel \/ ShutdownReset

Next ==
    \/ \E r \in Run : RunStep(r) \/ InputStep(r)
    \/ \E h \in Handler : HandlerStep(h)
    \/ \E p \in Peer : Command(p)
    \/ \E h \in Handler, p \in Peer : HandledCommand(h, p)
    \/ \E h \in Handler, r \in Run : PhoneUnpairs(h, r)
    \/ DaemonStep

Spec == Init /\ [][Next]_vars

(* Goroutines that can run do run.  Nothing makes a phone answer a dial or *)
(* a healthy connection break: those two waits end for sure only when the  *)
(* run's context does.  A goroutine that waits for inputDispatchMu gets it *)
(* however often others take it: sync.Mutex hands over to a starving       *)
(* waiter.                                                                 *)
Progress(r) ==
    /\ runPc[r] \in {"dial", "beat"} => Ended(r)
    /\ RunStep(r)

RunReset(r) == ResetAfterLoss(r) \/ ClearReset(r)

FairSpec ==
    /\ Spec
    /\ \A r \in Run :
          WF_vars(Progress(r)) /\ SF_vars(RunReset(r)) /\ WF_vars(EndApply(r))
    /\ \A h \in Handler : WF_vars(HandlerStep(h)) /\ SF_vars(ResetAfterCommand(h))
    /\ WF_vars(StopSSHOnContext)

-----------------------------------------------------------------------------
(* Safety.                                                                 *)

(* A goroutine, and an event it left behind, belong to some phone.         *)
RunHasPeer ==
    \A r \in Run :
        runPc[r] # "none" \/ inputJob[r] # "none" => runPeer[r] \in Peer

(* The goroutine of slot r owns an entry of d.sessions.                    *)
Live(r) == runPc[r] \notin {"none", "clearReset"}

(* An entry of d.sessions stands for exactly one runSession goroutine of   *)
(* that phone and lives as long as it: startSession never starts a second  *)
(* one beside it and clearSession never deletes the entry of another       *)
(* (daemon_lifecycle.go:97-122, 377-391).                                  *)
EntryIsRun ==
    \A p \in Peer, r \in Run : sessions[p] = r <=> Live(r) /\ runPeer[r] = p

(* The daemon reports a phone as connected only while the run of its entry *)
(* holds a connection it has published and not yet taken back, and always  *)
(* while it heartbeats (onConnect and onDisconnect,                        *)
(* daemon_lifecycle.go:266-295).                                           *)
ActiveMeansConnected ==
    /\ \A p \in active :
          /\ sessions[p] # NoRun
          /\ runPc[sessions[p]] \in
                {"serve", "listen", "beat", "closing", "drop", "clear"}
    /\ \A r \in Run :
          runPc[r] \in {"serve", "listen", "beat", "closing"} =>
              runPeer[r] \in active

(* Remote input belongs to at most one phone, which is connected and still *)
(* paired; the per-phone flag and the owner never disagree                 *)
(* (setInputEnabled, setInputAuto, onConnect, onDisconnect, clearSession,  *)
(* forgetDevice).                                                          *)
InputOwnerIsLive ==
    /\ inputEnabled = {inputOwner} \ {NoPeer}
    /\ inputOwner # NoPeer => inputOwner \in active \cap paired

(* Somebody is bound to call resetRemoteInput.                             *)
ResetPending ==
    \/ \E r \in Run : r \in wasOwner \/ runPc[r] = "clearReset"
    \/ \E h \in Handler : op[h].reset
    \/ daemon = "cleared"

HeldIsOwned ==
    \A p \in held : inputOwner = p \/ ResetPending

(* No key outlives the right to press it: unless input is switched off by  *)
(* hand, whatever a phone has down belongs to the current owner or is      *)
(* about to be released, however an event in flight interleaves with the   *)
(* loss of the session (resetRemoteInput, applyRemoteInput).               *)
HeldReleased == "input-disable" \notin Commands => HeldIsOwned

(* A run that has to dial again has taken back all it had published: no    *)
(* active entry, no remote input, no reset still owed, and when it comes   *)
(* from onDisconnect no SSH permission (daemon_lifecycle.go:282-304).      *)
RetryLeavesNothing ==
    \A r \in Run :
        runPc[r] \in {"begin", "loop", "dial", "backoff"} =>
            /\ runPeer[r] \notin active
            /\ inputOwner # runPeer[r]
            /\ r \notin wasOwner
            /\ runPc[r] = "backoff" => runPeer[r] \notin sshAllowed

(* A connected phone may open an SSH connection, unless the service itself *)
(* broke down: the address is allowed before the session is published and  *)
(* disallowed after it is taken back.                                      *)
ConnectedIsAllowed ==
    "accept-fails" \notin Commands => active \subseteq sshAllowed

(* isAllowed "reports whether the peer address belongs to an authenticated *)
(* Quava session" (setup.go:200-201): a phone without an entry has none.   *)
AllowedHasSession == \A p \in sshAllowed : sessions[p] # NoRun

(* After shutdown the emulator holds nothing down, whatever runs, workers  *)
(* and handlers were doing: an event past the check of its owner meets a   *)
(* context that is done, one being applied is waited for (shutdown,        *)
(* daemon_lifecycle.go:23-48; applyRemoteInput).                           *)
StoppedIsQuiet == daemon = "stopped" => held = {}

-----------------------------------------------------------------------------
(* What steps may do.                                                      *)

(* The daemon implements the abstract lease.                               *)
Lease == INSTANCE InputLease WITH connected <- active, owner <- inputOwner
LeaseSpec == Lease!LeaseSpec

-----------------------------------------------------------------------------
(* Liveness.                                                               *)

(* "runSession performs the remaining cleanup and removes the entry once   *)
(* the protocol connection closes" (daemon_lifecycle.go:163-164): a        *)
(* cancelled run always comes to its end, wherever the cancel met it.      *)
CancelledRunsEnd == \A r \in Run : r \in cancelled ~> runPc[r] = "none"

(* "The session retries on its own until the peer is reachable"            *)
(* (daemon_lifecycle.go:95): a run that lost its connection or failed to   *)
(* dial dials again, unless it is cancelled.                               *)
LostRunsRetry ==
    \A r \in Run : runPc[r] = "drop" ~> runPc[r] = "dial" \/ Ended(r)

(* A daemon that shuts down ends up serving no SSH for good, although a    *)
(* run that looked at the context before the signal may listen after       *)
(* shutdown has called Stop (Start, setup.go:84-112; shutdown).            *)
ShutdownEndsSSH == daemon = "stopped" ~> [](~sshRunning)
=============================================================================
