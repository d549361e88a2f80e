------------------------------ MODULE Pairing ------------------------------
(***************************************************************************)
(* Pairing a phone with the host.  An attempt is one "pair" command: its   *)
(* IPC handler runs Initiate, which opens its own Store twice (for the     *)
(* identity before the exchange, for the trust after it) while the daemon  *)
(* keeps changing and saving the Store it opened at startup.  The phone's  *)
(* PairingServer answers one connection at a time.  Connections break,     *)
(* processes are killed, the power fails.                                  *)
(*                                                                         *)
(* The secret both sides derive from an exchange is named by the attempt:  *)
(* it hashes the transaction id, both nonces and the shared X25519 secret. *)
(***************************************************************************)
EXTENDS ConfigStore, Naturals, Sequences

CONSTANTS Events,      \* what users and the environment do in this instance
          MaxEvents    \* bound on these events and the attempts together

EventNames == {"setting", "filters", "host-forgets", "phone-forgets", "cut",
               "daemon-killed", "power-loss", "phone-killed", "save-fails"}

ASSUME PairingAssumption == Events \subseteq EventNames /\ MaxEvents \in Nat

VARIABLES
    running,     \* the daemon process is up
    saving,      \* the daemon is in a Save, under d.mu
    diverged,    \* the daemon's Store may differ from the file: it is saving,
                 \* a Save or refresh failed or was overtaken, or an identity
                 \* was created
    pc,          \* where each attempt's handler is
    peer,        \* the phone it pairs with
    key,         \* the identity it presents
    toPhone, toHost,  \* the frames in flight on its connection
    open,        \* attempts whose connection is open
    phonePc,     \* where the phone's handler of a connection is
    socket,      \* the phone's activeSocket: an attempt or None
    verdict,     \* what the user of the phone answered
    trust,       \* the phone's store: the secret kept for each host identity
    confirmed,   \* the sides whose user confirmed the code of an attempt
    lapsed,      \* phones that were killed, or forgot the host
    count        \* how many events happened and attempts were made

daemonVars == <<running, saving, diverged>>
hostVars == <<pc, peer, key>>
wireVars == <<toPhone, toHost, open>>
phoneVars == <<phonePc, socket, verdict, trust>>
historyVars == <<confirmed, lapsed, count>>
vars == <<storeVars, daemonVars, hostVars, wireVars, phoneVars, historyVars>>

HostPc == {"idle", "identity", "saveIdentity", "request", "challenge", "ask",
           "complete", "trust", "saveTrust", "refresh", "assign", "paired",
           "failed"}
PhonePc == {"idle", "request", "proof", "await", "persist"}

TypeOK ==
    /\ StoreTypeOK
    /\ running \in BOOLEAN
    /\ saving \in BOOLEAN
    /\ diverged \in BOOLEAN
    /\ pc \in [Attempt -> HostPc]
    /\ peer \in [Attempt -> Phone \cup {None}]
    /\ key \in [Attempt -> Origin]
    /\ toPhone \in [Attempt -> Seq({"request", "proof", "cancel"})]
    /\ toHost \in [Attempt -> Seq({"challenge", "complete"})]
    /\ open \subseteq Attempt
    /\ phonePc \in [Phone -> PhonePc]
    /\ socket \in [Phone -> Attempt \cup {None}]
    /\ \A p \in Phone : socket[p] = None <=> phonePc[p] = "idle"
    /\ verdict \in [Phone -> {"none", "yes", "no"}]
    /\ trust \in [Phone -> [Attempt \cup {Old} -> Origin]]
    /\ confirmed \in [Attempt -> SUBSET {"host", "phone"}]
    /\ lapsed \subseteq Phone
    /\ count \in 0..MaxEvents

(* A first start, or a start with the phones of an earlier life.           *)
InitData ==
    {NoData} \cup
    {[identity |-> Old,
      devices  |-> [p \in Phone |-> IF p \in S THEN Old ELSE None],
      settings |-> [s \in Setting |-> S]] : S \in SUBSET Phone}

Init ==
    \E d \in InitData :
        /\ file = [data |-> d, whole |-> TRUE, synced |-> TRUE]
        /\ stable = file
        /\ temp = [s \in Saver |-> None]
        /\ store = [s \in Saver |-> IF s = Daemon THEN d ELSE NoData]
        /\ trust = [p \in Phone |-> [k \in Attempt \cup {Old} |->
                       IF k = Old /\ p \in Paired(d) THEN Old ELSE None]]
        /\ running = TRUE
        /\ saving = FALSE
        /\ diverged = FALSE
        /\ pc = [t \in Attempt |-> "idle"]
        /\ peer = [t \in Attempt |-> None]
        /\ key = [t \in Attempt |-> None]
        /\ toPhone = [t \in Attempt |-> <<>>]
        /\ toHost = [t \in Attempt |-> <<>>]
        /\ open = {}
        /\ phonePc = [p \in Phone |-> "idle"]
        /\ socket = [p \in Phone |-> None]
        /\ verdict = [p \in Phone |-> "none"]
        /\ confirmed = [t \in Attempt |-> {}]
        /\ lapsed = {}
        /\ count = 0

(* The secret of an exchange, the same on both sides: PeerCredential over  *)
(* MasterSecret and the transaction id.                                    *)
Secret(t) == t

Counted ==
    /\ count < MaxEvents
    /\ count' = count + 1

Happens(event) == event \in Events /\ Counted

Goto(t, where) == pc' = [pc EXCEPT ![t] = where]

(* Initiate or pair returns an error.  The deferred Close ends the         *)
(* connection: the phone can still read what was sent before it, nobody    *)
(* reads what the phone sent.                                              *)
GiveUp(t) ==
    /\ Goto(t, "failed")
    /\ open' = open \ {t}
    /\ toHost' = [toHost EXCEPT ![t] = <<>>]

Send(channel, t, frames) == [channel EXCEPT ![t] = @ \o frames]
Receive(channel, t) == [channel EXCEPT ![t] = Tail(@)]

-----------------------------------------------------------------------------
(* The host's handler *)

(* The phone is found and accepts the connection, or closes it at once     *)
(* because it has an active one: of an attempt, or of a session.           *)
Connect(t, p) ==
    /\ Counted
    /\ running
    /\ pc[t] = "idle"
    /\ Goto(t, "identity")
    /\ peer' = [peer EXCEPT ![t] = p]
    /\ \/ /\ socket[p] = None
          /\ socket' = [socket EXCEPT ![p] = t]
          /\ phonePc' = [phonePc EXCEPT ![p] = "request"]
          /\ open' = open \cup {t}
       \/ UNCHANGED <<socket, phonePc, open>>
    /\ UNCHANGED <<storeVars, daemonVars, key, toPhone, toHost, verdict,
                   trust, confirmed, lapsed>>

(* loadOrCreateIdentity: the identity of the file, or a new one to save.   *)
LoadIdentity(t) ==
    /\ pc[t] = "identity"
    /\ IF file.data.identity # None
       THEN /\ key' = [key EXCEPT ![t] = file.data.identity]
            /\ Goto(t, "request")
            /\ UNCHANGED store
       ELSE /\ key' = [key EXCEPT ![t] = t]
            /\ store' = [store EXCEPT ![t] = SetIdentity(file.data, t)]
            /\ Goto(t, "saveIdentity")
    /\ UNCHANGED <<file, stable, temp, daemonVars, peer, wireVars, phoneVars,
                   historyVars>>

SendRequest(t) ==
    /\ pc[t] = "request"
    /\ IF t \in open
       THEN /\ toPhone' = Send(toPhone, t, <<"request">>)
            /\ Goto(t, "challenge")
            /\ UNCHANGED <<toHost, open>>
       ELSE /\ GiveUp(t)
            /\ UNCHANGED toPhone
    /\ UNCHANGED <<storeVars, daemonVars, peer, key, phoneVars, historyVars>>

ReadChallenge(t) ==
    /\ pc[t] = "challenge"
    /\ toHost[t] # <<>>
    /\ Head(toHost[t]) = "challenge"
    /\ toHost' = Receive(toHost, t)
    /\ Goto(t, "ask")
    /\ UNCHANGED <<storeVars, daemonVars, peer, key, toPhone, open, phoneVars,
                   historyVars>>

(* The user compares the codes.  Yes sends PAIR_AUTHENTICATE and           *)
(* PAIR_CONFIRM, together the proof.                                       *)
HostConfirms(t) ==
    /\ pc[t] = "ask"
    /\ confirmed' = [confirmed EXCEPT ![t] = @ \cup {"host"}]
    /\ IF t \in open
       THEN /\ toPhone' = Send(toPhone, t, <<"proof">>)
            /\ Goto(t, "complete")
            /\ UNCHANGED <<toHost, open>>
       ELSE /\ GiveUp(t)
            /\ UNCHANGED toPhone
    /\ UNCHANGED <<storeVars, daemonVars, peer, key, phoneVars, lapsed, count>>

HostRejects(t) ==
    /\ pc[t] = "ask"
    /\ toPhone' = Send(toPhone, t, <<"cancel">>)
    /\ GiveUp(t)
    /\ UNCHANGED <<storeVars, daemonVars, peer, key, phoneVars, historyVars>>

ReadComplete(t) ==
    /\ pc[t] = "complete"
    /\ toHost[t] # <<>>
    /\ Head(toHost[t]) = "complete"
    /\ toHost' = Receive(toHost, t)
    /\ Goto(t, "trust")
    /\ UNCHANGED <<storeVars, daemonVars, peer, key, toPhone, open, phoneVars,
                   historyVars>>

(* A read fails, the two minutes of the request are over, or the client    *)
(* that should ask the user hangs up.                                      *)
HostGivesUp(t) ==
    /\ pc[t] \in {"challenge", "ask", "complete"}
    /\ GiveUp(t)
    /\ UNCHANGED <<storeVars, daemonVars, peer, key, toPhone, phoneVars,
                   historyVars>>

(* persistTrust: a Store opened now, with the phone added.                 *)
OpenForTrust(t) ==
    /\ pc[t] = "trust"
    /\ store' = [store EXCEPT ![t] =
                     UpsertDevice(file.data, peer[t], Secret(t))]
    /\ Goto(t, "saveTrust")
    /\ UNCHANGED <<file, stable, temp, daemonVars, peer, key, wireVars,
                   phoneVars, historyVars>>

(* The two halves of the Saves of an attempt.                              *)
AttemptWrites(t) ==
    /\ pc[t] \in {"saveIdentity", "saveTrust"}
    /\ WriteTemporary(t)
    /\ UNCHANGED <<daemonVars, hostVars, wireVars, phoneVars, historyVars>>

AttemptReplaces(t) ==
    /\ pc[t] \in {"saveIdentity", "saveTrust"}
    /\ Replace(t)
    /\ IF pc[t] = "saveTrust"
       THEN Goto(t, "refresh") /\ UNCHANGED diverged
       ELSE Goto(t, "request") /\ diverged' = TRUE
    /\ UNCHANGED <<running, saving, peer, key, wireVars, phoneVars,
                   historyVars>>

AttemptSaveFails(t) ==
    /\ Happens("save-fails")
    /\ pc[t] \in {"saveIdentity", "saveTrust"}
    /\ Discard(t)
    /\ GiveUp(t)
    /\ UNCHANGED <<daemonVars, peer, key, toPhone, phoneVars, confirmed,
                   lapsed>>

(* A pair command that does not reopen the daemon's Store.                 *)
NoRefresh(t) ==
    /\ pc[t] = "refresh"
    /\ Goto(t, "paired")
    /\ open' = open \ {t}
    /\ UNCHANGED <<storeVars, daemonVars, peer, key, toPhone, toHost,
                   phoneVars, historyVars>>

(* The handler reopens the file, without d.mu; when Open fails it goes on  *)
(* with the daemon's old Store.                                            *)
OpenRefreshed(t) ==
    /\ pc[t] = "refresh"
    /\ \/ /\ store' = [store EXCEPT ![t] = file.data]
          /\ Goto(t, "assign")
          /\ UNCHANGED <<diverged, open, count>>
       \/ /\ Happens("save-fails")
          /\ diverged' = TRUE
          /\ Goto(t, "paired")
          /\ open' = open \ {t}
          /\ UNCHANGED store
    /\ UNCHANGED <<file, stable, temp, running, saving, peer, key, toPhone,
                   toHost, phoneVars, confirmed, lapsed>>

(* Under d.mu what it read becomes the daemon's Store, also when a Save    *)
(* came in between.  Then startSession, whose errors are only logged, the  *)
(* answer, and the deferred Close.                                         *)
Refresh(t) ==
    /\ pc[t] = "assign"
    /\ ~saving
    /\ store' = [store EXCEPT ![Daemon] = store[t], ![t] = NoData]
    /\ diverged' = (store[t] # file.data)
    /\ Goto(t, "paired")
    /\ open' = open \ {t}
    /\ UNCHANGED <<file, stable, temp, running, saving, peer, key, toPhone,
                   toHost, phoneVars, historyVars>>

-----------------------------------------------------------------------------
(* The daemon's Store and its file *)

DaemonIdle == running /\ ~saving

(* The commands that change the daemon's Store and Save it under d.mu.     *)
BeginSave(d) ==
    /\ store' = [store EXCEPT ![Daemon] = d]
    /\ saving' = TRUE
    /\ diverged' = TRUE
    /\ UNCHANGED <<file, stable, temp, running, hostVars, wireVars,
                   phoneVars, confirmed, lapsed>>

SetSetting(s, p, on) ==
    /\ Happens("setting")
    /\ DaemonIdle
    /\ MaySet(store[Daemon], s, p)
    /\ BeginSave(Set(store[Daemon], s, p, on))

(* The filters belong to no phone; their value is not followed.            *)
SetFilters ==
    /\ Happens("filters")
    /\ DaemonIdle
    /\ BeginSave(store[Daemon])

HostForgets(p) ==
    /\ Happens("host-forgets")
    /\ DaemonIdle
    /\ p \in Paired(store[Daemon])
    /\ BeginSave(RemoveDevice(store[Daemon], p))

DaemonWrites ==
    /\ saving
    /\ WriteTemporary(Daemon)
    /\ UNCHANGED <<daemonVars, hostVars, wireVars, phoneVars, historyVars>>

DaemonReplaces ==
    /\ saving
    /\ Replace(Daemon)
    /\ saving' = FALSE
    /\ diverged' = FALSE
    /\ UNCHANGED <<running, hostVars, wireVars, phoneVars, historyVars>>

(* The command is answered with an error; the change stays in memory.      *)
DaemonSaveFails ==
    /\ Happens("save-fails")
    /\ saving
    /\ Discard(Daemon)
    /\ saving' = FALSE
    /\ UNCHANGED <<running, diverged, hostVars, wireVars, phoneVars,
                   confirmed, lapsed>>

(* The daemon process ends, its handlers and connections with it.          *)
Halt ==
    /\ running
    /\ running' = FALSE
    /\ saving' = FALSE
    /\ temp' = [s \in Saver |-> None]
    /\ pc' = [t \in Attempt |-> IF pc[t] \in {"idle", "paired"} THEN pc[t]
                                ELSE "failed"]
    /\ store' = [s \in Saver |-> NoData]
    /\ open' = {}
    /\ toHost' = [t \in Attempt |-> <<>>]
    /\ UNCHANGED <<diverged, peer, key, toPhone, phoneVars, confirmed, lapsed>>

DaemonKilled ==
    /\ Happens("daemon-killed")
    /\ Halt
    /\ UNCHANGED <<file, stable>>

PowerLoss ==
    /\ Happens("power-loss")
    /\ Halt
    /\ \E f \in {file, stable} :
        /\ file' = AfterPowerLoss(f)
        /\ stable' = AfterPowerLoss(f)

(* main: the daemon starts if Open accepts the file.                       *)
Restart ==
    /\ ~running
    /\ Opens(file)
    /\ running' = TRUE
    /\ store' = [store EXCEPT ![Daemon] = file.data]
    /\ diverged' = FALSE
    /\ UNCHANGED <<file, stable, temp, saving, hostVars, wireVars,
                   phoneVars, historyVars>>

WrittenBack ==
    /\ "power-loss" \in Events
    /\ Writeback
    /\ UNCHANGED <<daemonVars, hostVars, wireVars, phoneVars, historyVars>>

-----------------------------------------------------------------------------
(* The phone *)

(* A frame of this type is the next the phone's handler reads.             *)
Incoming(p, type) ==
    /\ socket[p] # None
    /\ toPhone[socket[p]] # <<>>
    /\ Head(toPhone[socket[p]]) = type

Take(p) == toPhone' = Receive(toPhone, socket[p])

(* The write succeeds, or the broken connection is noticed.                *)
Answer(p, frame) ==
    IF socket[p] \in open
    THEN toHost' = Send(toHost, socket[p], <<frame>>)
    ELSE UNCHANGED toHost

(* handle returns: whatever happened, the socket is closed and free again, *)
(* and nobody reads what is still on its way.                              *)
Release(p) ==
    /\ phonePc' = [phonePc EXCEPT ![p] = "idle"]
    /\ socket' = [socket EXCEPT ![p] = None]
    /\ verdict' = [verdict EXCEPT ![p] = "none"]
    /\ open' = open \ {socket[p]}
    /\ toPhone' = [t \in Attempt |-> IF t = socket[p] THEN <<>> ELSE toPhone[t]]

(* begin: the challenge is sent and the code shown.                        *)
PhoneReadsRequest(p) ==
    /\ phonePc[p] = "request"
    /\ Incoming(p, "request")
    /\ Take(p)
    /\ Answer(p, "challenge")
    /\ phonePc' = [phonePc EXCEPT ![p] = "proof"]
    /\ UNCHANGED <<storeVars, daemonVars, hostVars, open, socket, verdict,
                   trust, historyVars>>

(* complete: PAIR_AUTHENTICATE, then PAIR_CONFIRM, are read and verified.  *)
PhoneReadsProof(p) ==
    /\ phonePc[p] = "proof"
    /\ verdict[p] # "no"
    /\ Incoming(p, "proof")
    /\ Take(p)
    /\ phonePc' = [phonePc EXCEPT ![p] = "await"]
    /\ UNCHANGED <<storeVars, daemonVars, hostVars, toHost, open, socket,
                   verdict, trust, historyVars>>

(* confirmPairing and rejectPairing.  A rejection closes the socket, so    *)
(* the handler gets no further than a write even after a confirmation.     *)
Asked(p) == phonePc[p] \in {"proof", "await", "persist"}

PhoneConfirms(p) ==
    /\ Asked(p)
    /\ verdict[p] = "none"
    /\ verdict' = [verdict EXCEPT ![p] = "yes"]
    /\ confirmed' = [confirmed EXCEPT ![socket[p]] = @ \cup {"phone"}]
    /\ UNCHANGED <<storeVars, daemonVars, hostVars, wireVars, phonePc, socket,
                   trust, lapsed, count>>

PhoneRejects(p) ==
    /\ Asked(p)
    /\ verdict[p] # "no"
    /\ verdict' = [verdict EXCEPT ![p] = "no"]
    /\ open' = open \ {socket[p]}
    /\ UNCHANGED <<storeVars, daemonVars, hostVars, toPhone, toHost, phonePc,
                   socket, trust, historyVars>>

(* A complete that does not wait for the phone's user.                     *)
CompleteWithoutUser(p) ==
    /\ phonePc[p] = "await"
    /\ Answer(p, "complete")
    /\ phonePc' = [phonePc EXCEPT ![p] = "persist"]
    /\ UNCHANGED <<storeVars, daemonVars, hostVars, toPhone, open, socket,
                   verdict, trust, historyVars>>

(* The user agreed: PAIR_COMPLETE is written before the trust is stored.   *)
Complete(p) ==
    /\ phonePc[p] = "await"
    /\ verdict[p] = "yes"
    /\ Answer(p, "complete")
    /\ phonePc' = [phonePc EXCEPT ![p] = "persist"]
    /\ UNCHANGED <<storeVars, daemonVars, hostVars, toPhone, open, socket,
                   verdict, trust, historyVars>>

(* A phone that stores nothing once the host has closed the connection.    *)
PersistWhileOpen(p) ==
    LET t == socket[p] IN
    /\ phonePc[p] = "persist"
    /\ trust' = [trust EXCEPT ![p][key[t]] = IF t \in open THEN Secret(t) ELSE @]
    /\ Release(p)
    /\ UNCHANGED <<storeVars, daemonVars, hostVars, toHost, historyVars>>

PersistPeer(p) ==
    LET t == socket[p] IN
    /\ phonePc[p] = "persist"
    /\ trust' = [trust EXCEPT ![p][key[t]] = Secret(t)]
    /\ Release(p)
    /\ UNCHANGED <<storeVars, daemonVars, hostVars, toHost, historyVars>>

(* A handler whose reads wait as long as the connection is open.           *)
GivesUpWhenClosed(p) ==
    /\ phonePc[p] \in {"request", "proof"}
    /\ ~Incoming(p, phonePc[p])
    /\ socket[p] \notin open
    /\ Release(p)
    /\ UNCHANGED <<storeVars, daemonVars, hostVars, toHost, trust, historyVars>>

(* A read fails or times out, a frame is not the expected one, the user    *)
(* rejected, or the write to a closed connection fails.                    *)
PhoneGivesUp(p) ==
    /\ \/ /\ phonePc[p] \in {"request", "proof"}
          /\ ~Incoming(p, phonePc[p])
       \/ /\ phonePc[p] \in {"proof", "await"}
          /\ verdict[p] = "no"
       \/ /\ phonePc[p] = "await"
          /\ verdict[p] = "yes"
          /\ socket[p] \notin open
    /\ Release(p)
    /\ UNCHANGED <<storeVars, daemonVars, hostVars, toHost, trust, historyVars>>

-----------------------------------------------------------------------------
(* The environment *)

(* The network drops the connection, with what was in flight on it.        *)
Cut(t) ==
    /\ Happens("cut")
    /\ t \in open
    /\ open' = open \ {t}
    /\ \E lostOut, lostIn \in BOOLEAN :
        /\ toPhone' = IF lostOut THEN [toPhone EXCEPT ![t] = <<>>] ELSE toPhone
        /\ toHost' = IF lostIn THEN [toHost EXCEPT ![t] = <<>>] ELSE toHost
    /\ UNCHANGED <<storeVars, daemonVars, hostVars, phoneVars,
                   confirmed, lapsed>>

(* The app is killed: its connection and its prompt are gone.              *)
PhoneKilled(p) ==
    /\ Happens("phone-killed")
    /\ Release(p)
    /\ lapsed' = lapsed \cup {p}
    /\ UNCHANGED <<storeVars, daemonVars, hostVars, toHost, trust, confirmed>>

(* forgetHost: every trust record is dropped.  While the active socket is  *)
(* that of an attempt no session is open, and the screen shows the code.   *)
PhoneForgets(p) ==
    /\ Happens("phone-forgets")
    /\ socket[p] = None
    /\ \E k \in DOMAIN trust[p] : trust[p][k] # None
    /\ trust' = [trust EXCEPT ![p] = [k \in Attempt \cup {Old} |-> None]]
    /\ lapsed' = lapsed \cup {p}
    /\ UNCHANGED <<storeVars, daemonVars, hostVars, wireVars, phonePc, socket,
                   verdict, confirmed>>

-----------------------------------------------------------------------------
HostStep(t) ==
    \/ LoadIdentity(t) \/ SendRequest(t) \/ ReadChallenge(t)
    \/ HostConfirms(t) \/ HostRejects(t) \/ ReadComplete(t)
    \/ HostGivesUp(t) \/ OpenForTrust(t)
    \/ AttemptWrites(t) \/ AttemptReplaces(t) \/ AttemptSaveFails(t)
    \/ OpenRefreshed(t) \/ Refresh(t)

DaemonStep ==
    \/ \E s \in Setting, p \in Phone, on \in BOOLEAN : SetSetting(s, p, on)
    \/ SetFilters
    \/ \E p \in Phone : HostForgets(p)
    \/ DaemonWrites \/ DaemonReplaces \/ DaemonSaveFails
    \/ DaemonKilled \/ PowerLoss \/ Restart \/ WrittenBack

PhoneStep(p) ==
    \/ PhoneReadsRequest(p) \/ PhoneReadsProof(p)
    \/ Complete(p) \/ PersistPeer(p) \/ PhoneGivesUp(p)

UserStep(p) == PhoneConfirms(p) \/ PhoneRejects(p)

Next ==
    \/ \E t \in Attempt, p \in Phone : Connect(t, p)
    \/ \E t \in Attempt : HostStep(t) \/ Cut(t)
    \/ DaemonStep
    \/ \E p \in Phone :
          PhoneStep(p) \/ UserStep(p) \/ PhoneKilled(p) \/ PhoneForgets(p)

(* The phone's coroutine runs on, and its socket has a read timeout; what  *)
(* users and the host do is up to them.                                    *)
Fairness == \A p \in Phone : WF_vars(PhoneStep(p))

Spec == Init /\ [][Next]_vars /\ Fairness

-----------------------------------------------------------------------------
(* Properties *)

(* The file a Save left behind always opens again, whenever the daemon is  *)
(* killed or the power fails: the temporary file is complete and synced    *)
(* before the rename, and no sequence of setters, of forgetting and of     *)
(* pairing with other Stores makes data validateConfig refuses, which      *)
(* would keep the daemon from ever starting again.                         *)
FileOpens ==
    /\ Opens(file)
    /\ \A f \in {file, stable} : Opens(AfterPowerLoss(f))

(* A secret is stored on either side, or in any Store on its way there,    *)
(* only after the users of both sides confirmed the code of that very      *)
(* exchange, whatever was cut, killed, rejected late or retried.           *)
BothConfirmed ==
    \A t \in Attempt, p \in Phone :
        \/ Secret(t) \in {trust[p][k] : k \in DOMAIN trust[p]}
        \/ \E s \in Saver : store[s].devices[p] = Secret(t)
        \/ file.data.devices[p] = Secret(t)
        => confirmed[t] = {"host", "phone"}

(* The host never trusts a phone that does not know it: when the file      *)
(* holds the secret of an exchange, the phone holds a secret for that      *)
(* identity or is about to store it, unless the app was killed or its      *)
(* user forgot the host.                                                   *)
HostTrustIsShared ==
    \A t \in Attempt, p \in Phone :
        file.data.devices[p] = Secret(t) =>
            \/ trust[p][key[t]] # None
            \/ phonePc[p] = "persist" /\ socket[p] = t
            \/ p \in lapsed

(* The Store the daemon works with is the file, except while a Save or a   *)
(* pairing is between its rename and the refresh, after one of them        *)
(* failed, and after a refresh that a Save overtook.                       *)
DaemonSeesFile ==
    \/ ~running
    \/ diverged
    \/ \E t \in Attempt : pc[t] \in {"refresh", "assign"}
    \/ store[Daemon] = file.data

(* The phone's only socket does not stay with a pairing nobody finishes:   *)
(* it is free again, or waits for the answer of the phone's own user.      *)
PhoneFreedOrAsking ==
    \A p \in Phone :
        socket[p] # None ~> (socket[p] = None \/ phonePc[p] = "await")
=============================================================================
