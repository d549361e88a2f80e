------------------------- MODULE PairingTrustProofs -------------------------
(***************************************************************************)
(* More proofs about Pairing, for any phones, attempts and events: the     *)
(* daemon's Store is the file, and the host trusts no phone that does not  *)
(* know it.                                                                *)
(***************************************************************************)
EXTENDS PairingProofs

-----------------------------------------------------------------------------
(* The daemon's Store and the file *)

Renewing == {"refresh", "assign"}

(* A Save of the daemon is a Save of what its Store holds.                 *)
DaemonInv ==
    /\ saving => running /\ diverged
    /\ temp[Daemon] # None => saving /\ temp[Daemon].data = store[Daemon]
    /\ DaemonSeesFile

LEMMA DaemonInvInit == Init => DaemonInv
<1> SUFFICES ASSUME Init PROVE DaemonInv
  OBVIOUS
<1>1. PICK d \in InitData :
        /\ file = [data |-> d, whole |-> TRUE, synced |-> TRUE]
        /\ temp = [s \in Saver |-> None]
        /\ store = [s \in Saver |-> IF s = Daemon THEN d ELSE NoData]
  BY DEF Init
<1>2. file.data = store[Daemon] /\ temp[Daemon] = None /\ ~saving
  BY <1>1, AttemptIsSaver DEF Init
<1> QED
  BY <1>2 DEF DaemonInv, DaemonSeesFile

(* Steps that leave the daemon alone, and the handlers that are about to   *)
(* renew its Store.                                                        *)
LEMMA DaemonInvStays ==
  ASSUME DaemonInv, UNCHANGED <<file, running, saving>>,
         diverged => diverged',
         temp'[Daemon] = temp[Daemon], store'[Daemon] = store[Daemon],
         \A t \in Attempt : pc[t] \in Renewing => pc'[t] \in Renewing \/ diverged'
  PROVE  DaemonInv'
BY DEF DaemonInv, DaemonSeesFile, Renewing

LEMMA HostStepDaemonInv ==
  ASSUME DaemonInv, TypeOK, NEW t \in Attempt, HostStep(t) \/ Cut(t)
  PROVE  DaemonInv'
<1>0. /\ temp \in [Saver -> File \cup {None}]
      /\ store \in [Saver -> Data]
      /\ pc \in [Attempt -> HostPc]
      /\ t \in Saver /\ Daemon \in Saver /\ t # Daemon
  BY AttemptIsSaver, StoreAssumption DEF TypeOK, StoreTypeOK
<1>1. ASSUME UNCHANGED <<file, temp, daemonVars>>,
             UNCHANGED store \/ \E d : store' = [store EXCEPT ![t] = d],
             UNCHANGED pc \/ \E place : pc' = [pc EXCEPT ![t] = place],
             pc[t] \in Renewing => pc'[t] \in Renewing
      PROVE  DaemonInv'
  <2>1. store'[Daemon] = store[Daemon]
    BY <1>0, <1>1
  <2>2. \A u \in Attempt : pc[u] \in Renewing => pc'[u] \in Renewing
    BY <1>0, <1>1
  <2> QED
    BY <1>1, <2>1, <2>2, DaemonInvStays DEF daemonVars
<1>2. CASE \/ LoadIdentity(t) \/ SendRequest(t) \/ ReadChallenge(t)
           \/ HostConfirms(t) \/ HostRejects(t) \/ ReadComplete(t)
           \/ HostGivesUp(t) \/ OpenForTrust(t) \/ Cut(t)
  <2>1. /\ UNCHANGED <<file, temp, daemonVars>>
        /\ UNCHANGED store \/ \E d : store' = [store EXCEPT ![t] = d]
    BY <1>2 DEF LoadIdentity, SendRequest, ReadChallenge, HostConfirms, HostRejects,
       ReadComplete, HostGivesUp, OpenForTrust, Cut, storeVars
  <2>2. /\ UNCHANGED pc \/ \E place : pc' = [pc EXCEPT ![t] = place]
        /\ pc[t] \in Renewing => UNCHANGED pc
    BY <1>2 DEF LoadIdentity, SendRequest, ReadChallenge, HostConfirms, HostRejects,
       ReadComplete, HostGivesUp, OpenForTrust, Cut, Goto, GiveUp, hostVars, Renewing
  <2> QED
    BY <1>1, <2>1, <2>2
<1>3. CASE AttemptWrites(t) \/ AttemptSaveFails(t)
  <2>1. /\ UNCHANGED <<file, daemonVars>>
        /\ pc[t] \notin Renewing
        /\ UNCHANGED pc \/ pc' = [pc EXCEPT ![t] = "failed"]
    BY <1>3 DEF AttemptWrites, AttemptSaveFails, WriteTemporary, Discard, GiveUp, Goto,
       hostVars, Renewing
  <2>2. temp'[Daemon] = temp[Daemon] /\ store'[Daemon] = store[Daemon]
    BY <1>0, <1>3 DEF AttemptWrites, AttemptSaveFails, WriteTemporary, Discard, Dropped
  <2>3. \A u \in Attempt : pc[u] \in Renewing => pc'[u] \in Renewing
    BY <1>0, <2>1
  <2> QED
    BY <2>1, <2>2, <2>3, DaemonInvStays DEF daemonVars
<1>4. CASE AttemptReplaces(t)
  <2>1. temp'[Daemon] = temp[Daemon] /\ store'[Daemon] = store[Daemon]
    BY <1>0, <1>4 DEF AttemptReplaces, Replace, Dropped
  <2>2. /\ UNCHANGED <<running, saving>>
        /\ \/ pc'[t] = "refresh" /\ UNCHANGED diverged
           \/ diverged' = TRUE
    BY <1>0, <1>4 DEF AttemptReplaces, Goto
  <2>3. DaemonSeesFile'
    BY <2>2 DEF DaemonSeesFile
  <2> QED
    BY <2>1, <2>2, <2>3 DEF DaemonInv
<1>5. CASE OpenRefreshed(t)
  <2>1. /\ UNCHANGED <<file, running, saving>>
        /\ temp'[Daemon] = temp[Daemon] /\ store'[Daemon] = store[Daemon]
    BY <1>0, <1>5 DEF OpenRefreshed
  <2>2. \/ pc' = [pc EXCEPT ![t] = "assign"] /\ UNCHANGED diverged
        \/ diverged' = TRUE
    BY <1>5 DEF OpenRefreshed, Goto
  <2>3. \A u \in Attempt : pc[u] \in Renewing => pc'[u] \in Renewing \/ diverged'
    BY <1>0, <2>2 DEF Renewing
  <2> QED
    BY <2>1, <2>2, <2>3, DaemonInvStays
<1>6. CASE Refresh(t)
  <2>1. /\ ~saving /\ ~saving'
        /\ file' = file /\ temp' = temp
        /\ diverged' = (store[t] # file.data)
        /\ store'[Daemon] = store[t]
    BY <1>0, <1>6 DEF Refresh
  <2>2. DaemonSeesFile'
    BY <2>1 DEF DaemonSeesFile
  <2> QED
    BY <2>1, <2>2 DEF DaemonInv
<1> QED
  BY <1>2, <1>3, <1>4, <1>5, <1>6 DEF HostStep

LEMMA DaemonStepDaemonInv ==
  ASSUME DaemonInv, TypeOK, DaemonStep
  PROVE  DaemonInv'
<1>0. /\ temp \in [Saver -> File \cup {None}]
      /\ store \in [Saver -> Data]
      /\ Daemon \in Saver
  BY AttemptIsSaver DEF TypeOK, StoreTypeOK
<1>1. CASE \/ \E s \in Setting, p \in Phone, on \in BOOLEAN : SetSetting(s, p, on)
           \/ SetFilters
           \/ \E p \in Phone : HostForgets(p)
  <2>1. /\ running /\ ~saving
        /\ running' = running /\ saving' = TRUE /\ diverged' = TRUE
        /\ temp' = temp
    BY <1>1 DEF SetSetting, SetFilters, HostForgets, DaemonIdle, BeginSave
  <2> QED
    BY <2>1 DEF DaemonInv, DaemonSeesFile
<1>2. CASE DaemonWrites
  <2>1. /\ UNCHANGED <<file, store, pc, daemonVars>> /\ saving
        /\ temp'[Daemon] = [data |-> store[Daemon], whole |-> TRUE, synced |-> TRUE]
    BY <1>0, <1>2 DEF DaemonWrites, WriteTemporary, hostVars
  <2>2. temp'[Daemon].data = store[Daemon]
    BY <2>1
  <2> QED
    BY <2>1, <2>2 DEF DaemonInv, DaemonSeesFile, daemonVars
<1>3. CASE DaemonReplaces
  <2>1. /\ file' = temp[Daemon] /\ temp[Daemon] # None
        /\ temp'[Daemon] = None
        /\ store' = store
        /\ saving' = FALSE
    BY <1>0, <1>3 DEF DaemonReplaces, Replace, Dropped
  <2> QED
    BY <2>1 DEF DaemonInv, DaemonSeesFile
<1>4. CASE DaemonSaveFails
  <2>1. /\ temp'[Daemon] = None /\ saving /\ saving' = FALSE
        /\ diverged' = diverged
    BY <1>0, <1>4 DEF DaemonSaveFails, Discard
  <2> QED
    BY <2>1 DEF DaemonInv, DaemonSeesFile
<1>5. CASE DaemonKilled \/ PowerLoss
  <2>1. running' = FALSE /\ saving' = FALSE /\ temp'[Daemon] = None
    BY <1>0, <1>5 DEF DaemonKilled, PowerLoss, Halt
  <2> QED
    BY <2>1 DEF DaemonInv, DaemonSeesFile
<1>6. CASE Restart
  <2>1. /\ ~saving /\ saving' = saving
        /\ file' = file /\ temp' = temp
        /\ store'[Daemon] = file.data
    BY <1>0, <1>6 DEF Restart, DaemonInv
  <2> QED
    BY <2>1 DEF DaemonInv, DaemonSeesFile
<1>7. CASE WrittenBack
  <2>1. UNCHANGED <<file, temp, store, pc, daemonVars>>
    BY <1>7 DEF WrittenBack, Writeback, hostVars
  <2> QED
    BY <2>1, DaemonInvStays DEF daemonVars
<1> QED
  BY <1>1, <1>2, <1>3, <1>4, <1>5, <1>6, <1>7 DEF DaemonStep

LEMMA DaemonInvNext == TypeOK /\ DaemonInv /\ [Next]_vars => DaemonInv'
<1> SUFFICES ASSUME TypeOK, DaemonInv, [Next]_vars PROVE DaemonInv'
  OBVIOUS
<1>1. CASE UNCHANGED vars
  <2>1. UNCHANGED <<file, temp, store, pc, daemonVars>>
    BY <1>1 DEF vars, storeVars, hostVars
  <2> QED
    BY <2>1, DaemonInvStays DEF daemonVars
<1>2. ASSUME NEW t \in Attempt, NEW p \in Phone, Connect(t, p) PROVE DaemonInv'
  <2>1. /\ UNCHANGED <<file, temp, store, daemonVars>>
        /\ pc[t] = "idle" /\ pc' = [pc EXCEPT ![t] = "identity"]
    BY <1>2 DEF Connect, Goto, storeVars
  <2>2. \A u \in Attempt : pc[u] \in Renewing => pc'[u] \in Renewing
    BY <2>1 DEF TypeOK, Renewing
  <2> QED
    BY <2>1, <2>2, DaemonInvStays DEF daemonVars
<1>3. ASSUME NEW p \in Phone, OnPhone(p) PROVE DaemonInv'
  <2>1. UNCHANGED <<storeVars, daemonVars, hostVars>>
    BY <1>3 DEF OnPhone, PhoneStep, UserStep, PhoneReadsRequest, PhoneReadsProof,
       Complete, PersistPeer, PhoneGivesUp, PhoneConfirms, PhoneRejects,
       PhoneKilled, PhoneForgets
  <2> QED
    BY <2>1, DaemonInvStays DEF storeVars, daemonVars, hostVars
<1> QED
  BY <1>1, <1>2, <1>3, HostStepDaemonInv, DaemonStepDaemonInv, WhoSteps

(* pair (daemon_ipc.go) and the commands that Save under d.mu: the Store   *)
(* the daemon works with is the file, but for the windows DaemonSeesFile   *)
(* names, however attempts and Saves overlap.                              *)
THEOREM DaemonAlwaysSeesFile == Spec => []DaemonSeesFile
<1>1. DaemonInv => DaemonSeesFile
  BY DEF DaemonInv
<1>2. Init => TypeOK /\ DaemonInv
  BY InitTypes, DaemonInvInit
<1>3. (TypeOK /\ DaemonInv) /\ [Next]_vars => (TypeOK /\ DaemonInv)'
  BY NextTypes, DaemonInvNext
<1> QED
  BY <1>1, <1>2, <1>3, PTL DEF Spec

-----------------------------------------------------------------------------
(* Where the secrets on the host come from *)

(* The secret of an exchange is kept for this phone, in a file or a Store. *)
Held(p, t) ==
    \/ file.data.devices[p] = t
    \/ stable.data.devices[p] = t
    \/ \E s \in Saver : \/ store[s].devices[p] = t
                        \/ temp[s] # None /\ temp[s].data.devices[p] = t

LEMMA SetterSecrets ==
  ASSUME NEW d \in Data, NEW p \in Phone, NEW t \in Attempt
  PROVE  /\ \A k : SetIdentity(d, k).devices[p] = t => d.devices[p] = t
         /\ \A q, u : UpsertDevice(d, q, u).devices[p] = t =>
                          d.devices[p] = t \/ (q = p /\ u = t)
         /\ \A q : RemoveDevice(d, q).devices[p] = t => d.devices[p] = t
         /\ \A s, q, on : Set(d, s, q, on).devices[p] = t => d.devices[p] = t
         /\ NoData.devices[p] # t
BY StoreAssumption
DEF Data, SetIdentity, UpsertDevice, RemoveDevice, Set, NoData

(* A step that changes one Store keeps what was held, and adds what the    *)
(* new data has.                                                           *)
LEMMA StoreHolds ==
  ASSUME TypeOK, UNCHANGED <<file, stable, temp>>, NEW s \in Saver, NEW d,
         store' = [store EXCEPT ![s] = d],
         NEW p \in Phone, NEW t \in Attempt, Held(p, t)'
  PROVE  Held(p, t) \/ d.devices[p] = t
BY DEF Held, TypeOK, StoreTypeOK

LEMMA SaverHolds ==
  ASSUME TypeOK, NEW s \in Saver, SaverStep(s),
         NEW p \in Phone, NEW t \in Attempt, Held(p, t)'
  PROVE  Held(p, t)
<1>0. /\ temp \in [Saver -> File \cup {None}]
      /\ store \in [Saver -> Data]
      /\ NoData.devices[p] # t
  BY StoreAssumption DEF TypeOK, StoreTypeOK, NoData
<1>1. \A r \in Saver : Dropped(s)[r].devices[p] = t => store[r].devices[p] = t
  BY <1>0 DEF Dropped
<1>2. CASE WriteTemporary(s)
  BY <1>0, <1>2 DEF WriteTemporary, Held
<1>3. CASE Replace(s)
  BY <1>0, <1>1, <1>3 DEF Replace, Held
<1>4. CASE Discard(s)
  BY <1>0, <1>1, <1>4 DEF Discard, Held
<1> QED
  BY <1>2, <1>3, <1>4 DEF SaverStep

LEMMA HostStepHolds ==
  ASSUME TypeOK, NEW u \in Attempt, HostStep(u) \/ Cut(u),
         NEW p \in Phone, NEW t \in Attempt, Held(p, t)'
  PROVE  Held(p, t) \/ (pc[t] = "trust" /\ peer[t] = p)
<1>0. file.data \in Data /\ u \in Saver /\ Daemon \in Saver
  BY FileData, AttemptIsSaver DEF TypeOK
<1>1. CASE UNCHANGED storeVars
  BY <1>1 DEF Held, storeVars
<1>2. CASE LoadIdentity(u) /\ store' = [store EXCEPT ![u] = SetIdentity(file.data, u)]
  <2>1. UNCHANGED <<file, stable, temp>>
    BY <1>2 DEF LoadIdentity
  <2>2. Held(p, t) \/ SetIdentity(file.data, u).devices[p] = t
    BY <1>0, <1>2, <2>1, StoreHolds
  <2> QED
    BY <1>0, <2>2, SetterSecrets DEF Held
<1>3. CASE OpenForTrust(u)
  <2>1. /\ UNCHANGED <<file, stable, temp>> /\ pc[u] = "trust"
        /\ store' = [store EXCEPT ![u] = UpsertDevice(file.data, peer[u], u)]
    BY <1>3 DEF OpenForTrust, Secret
  <2>2. Held(p, t) \/ UpsertDevice(file.data, peer[u], u).devices[p] = t
    BY <1>0, <2>1, StoreHolds
  <2> QED
    BY <1>0, <2>1, <2>2, SetterSecrets DEF Held
<1>4. CASE AttemptWrites(u) \/ AttemptReplaces(u) \/ AttemptSaveFails(u)
  <2>1. SaverStep(u)
    BY <1>4 DEF SaverStep, AttemptWrites, AttemptReplaces, AttemptSaveFails
  <2> QED
    BY <1>0, <2>1, SaverHolds
<1>5. CASE OpenRefreshed(u) /\ store' = [store EXCEPT ![u] = file.data]
  <2>1. UNCHANGED <<file, stable, temp>>
    BY <1>5 DEF OpenRefreshed
  <2>2. Held(p, t) \/ file.data.devices[p] = t
    BY <1>0, <1>5, <2>1, StoreHolds
  <2> QED
    BY <2>2 DEF Held
<1>6. CASE Refresh(u)
  <2>1. /\ store' = [store EXCEPT ![Daemon] = store[u], ![u] = NoData]
        /\ UNCHANGED <<file, stable, temp>>
    BY <1>6 DEF Refresh
  <2>2. store \in [Saver -> Data] /\ NoData.devices[p] # t
    BY StoreAssumption DEF TypeOK, StoreTypeOK, NoData
  <2> QED
    BY <1>0, <2>1, <2>2 DEF Held
<1>7. CASE \/ SendRequest(u) \/ ReadChallenge(u) \/ HostConfirms(u) \/ HostRejects(u)
           \/ ReadComplete(u) \/ HostGivesUp(u) \/ Cut(u)
           \/ LoadIdentity(u) /\ UNCHANGED store
           \/ OpenRefreshed(u) /\ UNCHANGED store
  <2>1. UNCHANGED storeVars
    BY <1>7 DEF SendRequest, ReadChallenge, HostConfirms, HostRejects, ReadComplete,
       HostGivesUp, Cut, LoadIdentity, OpenRefreshed, storeVars
  <2> QED
    BY <1>1, <2>1
<1>8. /\ LoadIdentity(u) => \/ store' = [store EXCEPT ![u] = SetIdentity(file.data, u)]
                            \/ UNCHANGED store
      /\ OpenRefreshed(u) => \/ store' = [store EXCEPT ![u] = file.data]
                             \/ UNCHANGED store
  BY DEF LoadIdentity, OpenRefreshed
<1> QED
  BY <1>2, <1>3, <1>4, <1>5, <1>6, <1>7, <1>8 DEF HostStep

LEMMA DaemonStepHolds ==
  ASSUME TypeOK, DaemonStep,
         NEW p \in Phone, NEW t \in Attempt, Held(p, t)'
  PROVE  Held(p, t)
<1>0. store[Daemon] \in Data /\ Daemon \in Saver
  BY FileData, AttemptIsSaver DEF TypeOK
<1>1. ASSUME NEW d, BeginSave(d), d.devices[p] = t => store[Daemon].devices[p] = t
      PROVE  Held(p, t)
  <2>1. UNCHANGED <<file, stable, temp>> /\ store' = [store EXCEPT ![Daemon] = d]
    BY <1>1 DEF BeginSave
  <2>2. Held(p, t) \/ d.devices[p] = t
    BY <1>0, <2>1, StoreHolds
  <2> QED
    BY <1>0, <1>1, <2>2 DEF Held
<1>2. CASE \/ \E s \in Setting, q \in Phone, on \in BOOLEAN : SetSetting(s, q, on)
           \/ SetFilters
           \/ \E q \in Phone : HostForgets(q)
  <2>1. \E d : BeginSave(d) /\ (d.devices[p] = t => store[Daemon].devices[p] = t)
    BY <1>0, <1>2, SetterSecrets DEF SetSetting, SetFilters, HostForgets
  <2> QED
    BY <1>1, <2>1
<1>3. CASE DaemonWrites \/ DaemonReplaces \/ DaemonSaveFails
  <2>1. SaverStep(Daemon)
    BY <1>3 DEF SaverStep, DaemonWrites, DaemonReplaces, DaemonSaveFails
  <2> QED
    BY <1>0, <2>1, SaverHolds
<1>4. CASE DaemonKilled \/ PowerLoss
  <2>1. /\ temp' = [s \in Saver |-> None]
        /\ store' = [s \in Saver |-> NoData]
    BY <1>4 DEF DaemonKilled, PowerLoss, Halt
  <2>2. NoData.devices[p] # t
    BY StoreAssumption DEF NoData
  <2>3. \A f \in File : AfterPowerLoss(f).data = f.data
    BY DEF AfterPowerLoss, File
  <2>4. {file'.data, stable'.data} \subseteq {file.data, stable.data}
    BY <1>4, <2>3 DEF DaemonKilled, PowerLoss, TypeOK, StoreTypeOK
  <2> QED
    BY <2>1, <2>2, <2>4 DEF Held
<1>5. CASE Restart
  <2>1. /\ UNCHANGED <<file, stable, temp>>
        /\ store' = [store EXCEPT ![Daemon] = file.data]
    BY <1>5 DEF Restart
  <2>2. Held(p, t) \/ file.data.devices[p] = t
    BY <1>0, <2>1, StoreHolds
  <2> QED
    BY <2>2 DEF Held
<1>6. CASE WrittenBack
  BY <1>6 DEF WrittenBack, Writeback, Held
<1> QED
  BY <1>2, <1>3, <1>4, <1>5, <1>6 DEF DaemonStep

(* persistTrust is the only source of a secret on the host.                *)
LEMMA Provenance ==
  ASSUME TypeOK, [Next]_vars, NEW p \in Phone, NEW t \in Attempt, Held(p, t)'
  PROVE  Held(p, t) \/ (pc[t] = "trust" /\ peer[t] = p)
<1>1. CASE UNCHANGED storeVars
  BY <1>1 DEF Held, storeVars
<1>2. UNCHANGED vars => UNCHANGED storeVars
  BY DEF vars
<1>3. (\E u \in Attempt, q \in Phone : Connect(u, q)) => UNCHANGED storeVars
  BY DEF Connect
<1>4. (\E q \in Phone : OnPhone(q)) => UNCHANGED storeVars
  BY DEF OnPhone, PhoneStep, UserStep, PhoneReadsRequest, PhoneReadsProof,
     Complete, PersistPeer, PhoneGivesUp, PhoneConfirms, PhoneRejects,
     PhoneKilled, PhoneForgets
<1> QED
  BY <1>1, <1>2, <1>3, <1>4, WhoSteps, HostStepHolds, DaemonStepHolds

-----------------------------------------------------------------------------
(* The phone knows a host that keeps its secret *)

Keyed(t) == key[t] # None

(* The phone holds a secret for the identity of the exchange, or is about  *)
(* to store it, or was made to forget.                                     *)
Shared(t, p) ==
    \/ trust[p][key[t]] # None
    \/ phonePc[p] = "persist" /\ socket[p] = t
    \/ p \in lapsed

(* An identity is chosen once per attempt, and precedes every message.     *)
KeyInv ==
    /\ \A t \in Attempt :
          /\ pc[t] \in {"idle", "identity"} => ~Keyed(t)
          /\ pc[t] # "idle" => peer[t] \in Phone
          /\ pc[t] \in HostPc \ {"idle", "identity", "failed"} => Keyed(t)
          /\ Holds(toPhone[t], "proof") => Keyed(t)
    /\ \A p \in Phone :
          /\ socket[p] # None => peer[socket[p]] = p /\ pc[socket[p]] # "idle"
          /\ phonePc[p] \in {"await", "persist"} => Keyed(socket[p])

(* PAIR_COMPLETE, and all that follows from it on the host, comes from a   *)
(* phone that is past its last check.                                      *)
ShareInv ==
    /\ \A t \in Attempt :
          pc[t] \in AfterComplete \/ Holds(toHost[t], "complete") =>
              Keyed(t) /\ Shared(t, peer[t])
    /\ \A p \in Phone, t \in Attempt : Held(p, t) => Keyed(t) /\ Shared(t, p)

TrustInv == KeyInv /\ ShareInv

LEMMA TrustInvInit == Init => TrustInv
<1> SUFFICES ASSUME Init PROVE TrustInv
  OBVIOUS
<1>1. KeyInv
  BY NothingHeld DEF Init, KeyInv, Keyed, HostPc
<1>2. \A t \in Attempt : pc[t] \notin AfterComplete /\ ~Holds(toHost[t], "complete")
  BY NothingHeld DEF Init, AfterComplete
<1>3. ASSUME NEW p \in Phone, NEW t \in Attempt PROVE ~Held(p, t)
  <2>1. PICK d \in InitData :
          /\ file = [data |-> d, whole |-> TRUE, synced |-> TRUE]
          /\ stable = file
          /\ temp = [s \in Saver |-> None]
          /\ store = [s \in Saver |-> IF s = Daemon THEN d ELSE NoData]
    BY DEF Init
  <2>2. d.devices[p] \notin Attempt /\ NoData.devices[p] \notin Attempt
    BY StoreAssumption DEF InitData, NoData
  <2> QED
    BY <2>1, <2>2 DEF Held
<1> QED
  BY <1>1, <1>2, <1>3 DEF TrustInv, ShareInv

-----------------------------------------------------------------------------
(* KeyInv is inductive *)

LEMMA KeyInvStays ==
  ASSUME KeyInv, UNCHANGED <<pc, peer, key, phonePc, socket>>,
         \A t \in Attempt : Holds(toPhone'[t], "proof") => Holds(toPhone[t], "proof")
  PROVE  KeyInv'
BY DEF KeyInv, Keyed

(* A handler that moves on, without sending a proof.                       *)
LEMMA KeyInvMoves ==
  ASSUME KeyInv, TypeOK, NEW t \in Attempt, NEW place \in HostPc \ {"idle", "identity"},
         pc' = [pc EXCEPT ![t] = place],
         place # "failed" => Keyed(t),
         pc[t] \notin {"idle", "identity"},
         UNCHANGED <<peer, key, phonePc, socket>>,
         \A u \in Attempt : Holds(toPhone'[u], "proof") => Keyed(u)
  PROVE  KeyInv'
<1>1. pc \in [Attempt -> HostPc]
  BY DEF TypeOK
<1>2. \A u \in Attempt : pc'[u] = IF u = t THEN place ELSE pc[u]
  BY <1>1
<1>3. \A p \in Phone : socket[p] # None => socket[p] \in Attempt
  BY DEF TypeOK
<1> QED
  BY <1>2, <1>3 DEF KeyInv, Keyed, HostPc

LEMMA HostStepKeyInv ==
  ASSUME KeyInv, TypeOK, NEW t \in Attempt, HostStep(t) \/ Cut(t)
  PROVE  KeyInv'
<1>0. /\ toPhone \in [Attempt -> Seq({"request", "proof", "cancel"})]
      /\ pc \in [Attempt -> HostPc]
      /\ key \in [Attempt -> Origin]
      /\ \A p \in Phone : socket[p] # None => socket[p] \in Attempt
      /\ \A p \in Phone : phonePc[p] \in {"await", "persist"} => socket[p] \in Attempt
  BY DEF TypeOK
<1>1. UNCHANGED <<phonePc, socket>>
  BY DEF HostStep, LoadIdentity, SendRequest, ReadChallenge, HostConfirms,
     HostRejects, ReadComplete, HostGivesUp, OpenForTrust, AttemptWrites,
     AttemptReplaces, AttemptSaveFails, OpenRefreshed, Refresh, Cut, phoneVars
<1>2. \A u \in Attempt : Holds(toPhone[u], "proof") => Keyed(u)
  BY DEF KeyInv
<1>3. ASSUME pc[t] \in HostPc \ {"idle", "identity", "failed"},
             \E place \in HostPc \ {"idle", "identity"} : Goto(t, place),
             UNCHANGED <<peer, key>>,
             \/ UNCHANGED toPhone
             \/ \E type \in {"request", "proof", "cancel"} :
                   toPhone' = Send(toPhone, t, <<type>>)
      PROVE  KeyInv'
  <2>1. Keyed(t)
    BY <1>3 DEF KeyInv
  <2>2. \A u \in Attempt : Holds(toPhone'[u], "proof") => Holds(toPhone[u], "proof") \/ u = t
    BY <1>0, <1>3, SentToPhone
  <2>3. PICK place \in HostPc \ {"idle", "identity"} : pc' = [pc EXCEPT ![t] = place]
    BY <1>3 DEF Goto
  <2> QED
    BY <1>1, <1>2, <1>3, <2>1, <2>2, <2>3, KeyInvMoves
<1>4. CASE LoadIdentity(t)
  <2>1. /\ pc[t] = "identity"
        /\ \E place \in {"request", "saveIdentity"} : pc' = [pc EXCEPT ![t] = place]
        /\ \E k : k # None /\ key' = [key EXCEPT ![t] = k]
        /\ UNCHANGED <<peer, toPhone>>
    BY <1>4, StoreAssumption DEF LoadIdentity, Goto, wireVars
  <2>2. \A u \in Attempt : u # t => key'[u] = key[u] /\ pc'[u] = pc[u]
    BY <1>0, <2>1
  <2>3. key'[t] # None /\ pc'[t] \in {"request", "saveIdentity"}
    BY <1>0, <2>1
  <2> QED
    BY <1>0, <1>1, <2>1, <2>2, <2>3 DEF KeyInv, Keyed, HostPc
<1>5. CASE SendRequest(t) \/ HostConfirms(t) \/ HostRejects(t)
  BY <1>3, <1>5 DEF SendRequest, HostConfirms, HostRejects, GiveUp, Goto, HostPc
<1>6. CASE \/ ReadChallenge(t) \/ ReadComplete(t) \/ HostGivesUp(t) \/ OpenForTrust(t)
           \/ AttemptReplaces(t) \/ AttemptSaveFails(t) \/ OpenRefreshed(t) \/ Refresh(t)
  BY <1>3, <1>6 DEF ReadChallenge, ReadComplete, HostGivesUp, OpenForTrust,
     AttemptReplaces, AttemptSaveFails, OpenRefreshed, Refresh, GiveUp, HostPc, wireVars
<1>7. CASE AttemptWrites(t)
  BY <1>1, <1>7, KeyInvStays DEF AttemptWrites, hostVars, wireVars
<1>8. CASE Cut(t)
  <2>1. toPhone' \in {toPhone, [toPhone EXCEPT ![t] = <<>>]} /\ UNCHANGED <<pc, peer, key>>
    BY <1>8 DEF Cut, hostVars
  <2>2. \A u \in Attempt : Holds(toPhone'[u], "proof") => Holds(toPhone[u], "proof")
    BY <1>0, <2>1, NothingHeld
  <2> QED
    BY <1>1, <2>1, <2>2, KeyInvStays
<1> QED
  BY <1>4, <1>5, <1>6, <1>7, <1>8 DEF HostStep

LEMMA OthersKeyInv ==
  ASSUME KeyInv, TypeOK, DaemonStep \/ \E t \in Attempt, p \in Phone : Connect(t, p)
  PROVE  KeyInv'
<1>0. /\ pc \in [Attempt -> HostPc]
      /\ peer \in [Attempt -> Phone \cup {None}]
      /\ socket \in [Phone -> Attempt \cup {None}]
      /\ phonePc \in [Phone -> PhonePc]
      /\ \A p \in Phone : phonePc[p] \in {"await", "persist"} => socket[p] \in Attempt
  BY DEF TypeOK
<1>1. CASE DaemonStep
  <2>1. UNCHANGED <<peer, key, toPhone, phonePc, socket>>
    BY <1>1 DEF DaemonStep, SetSetting, SetFilters, HostForgets, BeginSave,
       DaemonWrites, DaemonReplaces, DaemonSaveFails, DaemonKilled, PowerLoss,
       Halt, Restart, WrittenBack, hostVars, wireVars, phoneVars
  <2>2. \/ UNCHANGED pc
        \/ pc' = [t \in Attempt |-> IF pc[t] \in {"idle", "paired"} THEN pc[t] ELSE "failed"]
    BY <1>1 DEF DaemonStep, SetSetting, SetFilters, HostForgets, BeginSave,
       DaemonWrites, DaemonReplaces, DaemonSaveFails, DaemonKilled, PowerLoss,
       Halt, Restart, WrittenBack, hostVars
  <2>3. \A t \in Attempt : pc'[t] = pc[t] \/ (pc[t] # "idle" /\ pc'[t] = "failed")
    BY <1>0, <2>2
  <2> QED
    BY <1>0, <2>1, <2>3 DEF KeyInv, Keyed, HostPc
<1>2. ASSUME NEW t \in Attempt, NEW p \in Phone, Connect(t, p) PROVE KeyInv'
  <2>1. /\ pc[t] = "idle" /\ pc' = [pc EXCEPT ![t] = "identity"]
        /\ peer' = [peer EXCEPT ![t] = p]
        /\ UNCHANGED <<key, toPhone>>
    BY <1>2 DEF Connect, Goto
  <2>2. \A q \in Phone : socket[q] # t
    BY <2>1, StoreAssumption DEF KeyInv
  <2>3. \A u \in Attempt : u # t => peer'[u] = peer[u] /\ pc'[u] = pc[u]
    BY <1>0, <2>1
  <2>4. pc'[t] = "identity" /\ peer'[t] = p
    BY <1>0, <2>1
  <2>5. CASE UNCHANGED <<socket, phonePc>>
    BY <1>0, <2>1, <2>2, <2>3, <2>4, <2>5 DEF KeyInv, Keyed, HostPc
  <2>6. CASE socket' = [socket EXCEPT ![p] = t] /\ phonePc' = [phonePc EXCEPT ![p] = "request"]
    <3>1. \A q \in Phone : q # p => socket'[q] = socket[q] /\ phonePc'[q] = phonePc[q]
      BY <1>0, <2>6
    <3>2. socket'[p] = t /\ phonePc'[p] = "request"
      BY <1>0, <2>6
    <3> QED
      BY <1>0, <2>1, <2>2, <2>3, <2>4, <3>1, <3>2 DEF KeyInv, Keyed, HostPc
  <2> QED
    BY <1>2, <2>5, <2>6 DEF Connect
<1> QED
  BY <1>1, <1>2

LEMMA OnPhoneKeyInv ==
  ASSUME KeyInv, TypeOK, NEW p \in Phone, OnPhone(p)
  PROVE  KeyInv'
<1>0. /\ socket \in [Phone -> Attempt \cup {None}]
      /\ phonePc \in [Phone -> PhonePc]
  BY DEF TypeOK
<1>1. UNCHANGED <<pc, peer, key>>
  BY DEF OnPhone, PhoneStep, UserStep, PhoneReadsRequest, PhoneReadsProof, Complete,
     PersistPeer, PhoneGivesUp, PhoneConfirms, PhoneRejects, PhoneKilled,
     PhoneForgets, hostVars
<1>2. CASE PersistPeer(p) \/ PhoneGivesUp(p) \/ PhoneKilled(p)
  <2>1. /\ phonePc' = [phonePc EXCEPT ![p] = "idle"]
        /\ socket' = [socket EXCEPT ![p] = None]
        /\ toPhone' = [t \in Attempt |-> IF t = socket[p] THEN <<>> ELSE toPhone[t]]
    BY <1>2 DEF PersistPeer, PhoneGivesUp, PhoneKilled, Release
  <2>2. \A t \in Attempt : Holds(toPhone'[t], "proof") => Holds(toPhone[t], "proof")
    BY <2>1, NothingHeld
  <2> QED
    BY <1>0, <1>1, <2>1, <2>2 DEF KeyInv, Keyed
<1>3. CASE PhoneReadsRequest(p) \/ PhoneReadsProof(p)
  <2>1. /\ Take(p) /\ UNCHANGED socket
        /\ \/ Incoming(p, "request") /\ phonePc' = [phonePc EXCEPT ![p] = "proof"]
           \/ Incoming(p, "proof") /\ phonePc' = [phonePc EXCEPT ![p] = "await"]
    BY <1>3 DEF PhoneReadsRequest, PhoneReadsProof
  <2>2. \A t \in Attempt : Holds(toPhone'[t], "proof") => Holds(toPhone[t], "proof")
    BY <2>1, TakenByPhone
  <2>3. Incoming(p, "proof") => Keyed(socket[p])
    BY TakenByPhone DEF KeyInv
  <2> QED
    BY <1>0, <1>1, <2>1, <2>2, <2>3 DEF KeyInv, Keyed
<1>4. CASE Complete(p)
  <2>1. /\ phonePc[p] = "await" /\ phonePc' = [phonePc EXCEPT ![p] = "persist"]
        /\ UNCHANGED <<socket, toPhone>>
    BY <1>4 DEF Complete
  <2> QED
    BY <1>0, <1>1, <2>1 DEF KeyInv, Keyed
<1>5. CASE PhoneConfirms(p) \/ PhoneRejects(p) \/ PhoneForgets(p)
  <2>1. UNCHANGED <<phonePc, socket, toPhone>>
    BY <1>5 DEF PhoneConfirms, PhoneRejects, PhoneForgets, wireVars
  <2> QED
    BY <1>1, <2>1, KeyInvStays
<1> QED
  BY <1>2, <1>3, <1>4, <1>5 DEF OnPhone, PhoneStep, UserStep

LEMMA KeyInvNext == TypeOK /\ KeyInv /\ [Next]_vars => KeyInv'
<1>1. UNCHANGED vars => UNCHANGED <<pc, peer, key, phonePc, socket, toPhone>>
  BY DEF vars, hostVars, wireVars, phoneVars
<1> QED
  BY <1>1, KeyInvStays, HostStepKeyInv, OthersKeyInv, OnPhoneKeyInv, WhoSteps

-----------------------------------------------------------------------------
(* ShareInv is inductive *)

(* The identity of an attempt, once chosen, and its phone stay.            *)
LEMMA KeyStays ==
  ASSUME TypeOK, KeyInv, [Next]_vars, NEW t \in Attempt, Keyed(t)
  PROVE  key'[t] = key[t] /\ peer'[t] = peer[t]
<1>0. /\ key \in [Attempt -> Origin] /\ peer \in [Attempt -> Phone \cup {None}]
      /\ pc[t] \notin {"idle", "identity"}
  BY DEF TypeOK, KeyInv
<1>1. CASE UNCHANGED vars
  BY <1>1 DEF vars, hostVars
<1>2. ASSUME NEW u \in Attempt, NEW p \in Phone, Connect(u, p)
      PROVE  key'[t] = key[t] /\ peer'[t] = peer[t]
  <2>1. pc[u] = "idle" /\ peer' = [peer EXCEPT ![u] = p] /\ UNCHANGED key
    BY <1>2 DEF Connect
  <2> QED
    BY <1>0, <2>1
<1>3. ASSUME NEW u \in Attempt, HostStep(u) \/ Cut(u)
      PROVE  key'[t] = key[t] /\ peer'[t] = peer[t]
  <2>1. CASE LoadIdentity(u)
    <3>1. /\ pc[u] = "identity" /\ UNCHANGED peer
          /\ \E k : key' = [key EXCEPT ![u] = k]
      BY <2>1 DEF LoadIdentity
    <3> QED
      BY <1>0, <3>1
  <2>2. CASE ~LoadIdentity(u)
    BY <1>3, <2>2 DEF HostStep, SendRequest, ReadChallenge, HostConfirms,
       HostRejects, ReadComplete, HostGivesUp, OpenForTrust, AttemptWrites,
       AttemptReplaces, AttemptSaveFails, OpenRefreshed, Refresh, Cut, hostVars
  <2> QED
    BY <2>1, <2>2
<1>4. CASE DaemonStep
  BY <1>4 DEF DaemonStep, SetSetting, SetFilters, HostForgets, BeginSave,
     DaemonWrites, DaemonReplaces, DaemonSaveFails, DaemonKilled, PowerLoss,
     Halt, Restart, WrittenBack, hostVars
<1>5. ASSUME NEW p \in Phone, OnPhone(p) PROVE UNCHANGED <<key, peer>>
  BY <1>5 DEF OnPhone, PhoneStep, UserStep, PhoneReadsRequest, PhoneReadsProof,
     Complete, PersistPeer, PhoneGivesUp, PhoneConfirms, PhoneRejects, PhoneKilled,
     PhoneForgets, hostVars
<1> QED
  BY <1>1, <1>2, <1>3, <1>4, <1>5, WhoSteps

(* A phone that knows the host goes on knowing it, unless it is killed or  *)
(* made to forget.                                                         *)
LEMMA OnPhoneShares ==
  ASSUME TypeOK, NEW q \in Phone, OnPhone(q),
         NEW t \in Attempt, NEW p \in Phone, Keyed(t), Shared(t, p), key'[t] = key[t]
  PROVE  Shared(t, p)'
<1>0. /\ trust \in [Phone -> [Attempt \cup {Old} -> Origin]]
      /\ phonePc \in [Phone -> PhonePc]
      /\ socket \in [Phone -> Attempt \cup {None}]
      /\ key[t] \in Attempt \cup {Old}
  BY DEF TypeOK, Keyed, Origin
<1>1. CASE PersistPeer(q)
  <2>1. /\ trust' = [trust EXCEPT ![q][key[socket[q]]] = socket[q]]
        /\ phonePc' = [phonePc EXCEPT ![q] = "idle"]
        /\ socket' = [socket EXCEPT ![q] = None]
        /\ UNCHANGED lapsed
        /\ phonePc[q] = "persist"
    BY <1>1 DEF PersistPeer, Release, historyVars, Secret
  <2>2. socket[q] \in Attempt /\ socket[q] # None
    BY <2>1, StoreAssumption DEF TypeOK
  <2>3. CASE p = q
    <3>1. CASE socket[q] = t
      <4>1. trust'[p][key[t]] = t
        BY <1>0, <2>1, <2>3, <3>1
      <4> QED
        BY <2>2, <3>1, <4>1 DEF Shared
    <3>2. CASE socket[q] # t
      <4>1. trust'[p][key[t]] \in {trust[p][key[t]], socket[q]}
        BY <1>0, <2>1, <2>3
      <4> QED
        BY <2>1, <2>2, <2>3, <3>2, <4>1 DEF Shared
    <3> QED
      BY <3>1, <3>2
  <2>4. CASE p # q
    BY <1>0, <2>1, <2>4 DEF Shared
  <2> QED
    BY <2>3, <2>4
<1>2. CASE PhoneKilled(q) \/ PhoneForgets(q)
  <2>1. /\ lapsed' = lapsed \cup {q}
        /\ p # q => /\ trust'[p] = trust[p]
                    /\ phonePc'[p] = phonePc[p] /\ socket'[p] = socket[p]
    BY <1>0, <1>2 DEF PhoneKilled, PhoneForgets, Release
  <2> QED
    BY <2>1 DEF Shared
<1>3. CASE PhoneGivesUp(q)
  <2>1. /\ phonePc[q] # "persist"
        /\ phonePc' = [phonePc EXCEPT ![q] = "idle"]
        /\ socket' = [socket EXCEPT ![q] = None]
        /\ UNCHANGED <<trust, lapsed>>
    BY <1>3 DEF PhoneGivesUp, Release, historyVars
  <2> QED
    BY <1>0, <2>1 DEF Shared
<1>4. CASE PhoneReadsRequest(q) \/ PhoneReadsProof(q) \/ Complete(q)
  <2>1. /\ phonePc[q] # "persist"
        /\ \E place : phonePc' = [phonePc EXCEPT ![q] = place]
        /\ UNCHANGED <<socket, trust, lapsed>>
    BY <1>0, <1>4 DEF PhoneReadsRequest, PhoneReadsProof, Complete, historyVars
  <2> QED
    BY <1>0, <2>1 DEF Shared
<1>5. CASE PhoneConfirms(q) \/ PhoneRejects(q)
  <2>1. UNCHANGED <<phonePc, socket, trust, lapsed>>
    BY <1>5 DEF PhoneConfirms, PhoneRejects, historyVars
  <2> QED
    BY <2>1 DEF Shared
<1> QED
  BY <1>1, <1>2, <1>3, <1>4, <1>5 DEF OnPhone, PhoneStep, UserStep

LEMMA SharedStays ==
  ASSUME TypeOK, KeyInv, [Next]_vars,
         NEW t \in Attempt, NEW p \in Phone, Keyed(t), Shared(t, p)
  PROVE  Keyed(t)' /\ Shared(t, p)'
<1>0. key'[t] = key[t] /\ Keyed(t)'
  BY KeyStays DEF Keyed
<1>1. ASSUME UNCHANGED <<trust, phonePc, socket, lapsed>> PROVE Shared(t, p)'
  BY <1>0, <1>1 DEF Shared
<1>2. CASE UNCHANGED vars
  BY <1>0, <1>1, <1>2 DEF vars, phoneVars, historyVars
<1>3. ASSUME NEW u \in Attempt, NEW q \in Phone, Connect(u, q) PROVE Shared(t, p)'
  <2>1. /\ UNCHANGED <<trust, lapsed>>
        /\ \/ UNCHANGED <<socket, phonePc>>
           \/ /\ socket[q] = None
              /\ socket' = [socket EXCEPT ![q] = u]
              /\ phonePc' = [phonePc EXCEPT ![q] = "request"]
    BY <1>3 DEF Connect
  <2>2. socket[p] = t => socket[p] # None
    BY StoreAssumption
  <2> QED
    BY <1>0, <2>1, <2>2 DEF Shared, TypeOK
<1>4. ASSUME NEW u \in Attempt, HostStep(u) \/ Cut(u) PROVE Shared(t, p)'
  <2>1. UNCHANGED <<trust, phonePc, socket, lapsed>>
    BY <1>4 DEF HostStep, LoadIdentity, SendRequest, ReadChallenge, HostConfirms,
       HostRejects, ReadComplete, HostGivesUp, OpenForTrust, AttemptWrites,
       AttemptReplaces, AttemptSaveFails, OpenRefreshed, Refresh, Cut, phoneVars,
       historyVars
  <2> QED
    BY <1>1, <2>1
<1>5. CASE DaemonStep
  <2>1. UNCHANGED <<trust, phonePc, socket, lapsed>>
    BY <1>5 DEF DaemonStep, SetSetting, SetFilters, HostForgets, BeginSave,
       DaemonWrites, DaemonReplaces, DaemonSaveFails, DaemonKilled, PowerLoss,
       Halt, Restart, WrittenBack, phoneVars, historyVars
  <2> QED
    BY <1>0, <1>1, <2>1
<1>6. ASSUME NEW q \in Phone, OnPhone(q) PROVE Shared(t, p)'
  BY <1>0, <1>6, OnPhoneShares
<1> QED
  BY <1>0, <1>2, <1>3, <1>4, <1>5, <1>6, WhoSteps

(* Only a phone that is about to store its trust sends PAIR_COMPLETE, and  *)
(* only PAIR_COMPLETE takes the host past it.                              *)
LEMMA CompleteSource ==
  ASSUME TypeOK, [Next]_vars, NEW t \in Attempt,
         pc'[t] \in AfterComplete \/ Holds(toHost'[t], "complete")
  PROVE  \/ pc[t] \in AfterComplete
         \/ Holds(toHost[t], "complete")
         \/ \E p \in Phone : Complete(p) /\ socket[p] = t
<1>0. /\ pc \in [Attempt -> HostPc]
      /\ toHost \in [Attempt -> Seq({"challenge", "complete"})]
  BY DEF TypeOK
<1> USE DEF AfterComplete
<1>1. ASSUME UNCHANGED <<pc, toHost>>
      PROVE  pc[t] \in AfterComplete \/ Holds(toHost[t], "complete")
  BY <1>1
<1>2. UNCHANGED vars => UNCHANGED <<pc, toHost>>
  BY DEF vars, hostVars, wireVars
<1>3. ASSUME NEW u \in Attempt, NEW p \in Phone, Connect(u, p)
      PROVE  pc[t] \in AfterComplete \/ Holds(toHost[t], "complete")
  <2>1. UNCHANGED toHost /\ pc' = [pc EXCEPT ![u] = "identity"]
    BY <1>3 DEF Connect, Goto
  <2> QED
    BY <1>0, <2>1
<1>4. ASSUME NEW u \in Attempt, HostStep(u) \/ Cut(u)
      PROVE  pc[t] \in AfterComplete \/ Holds(toHost[t], "complete")
  <2>1. ASSUME GiveUp(u) PROVE pc[t] \in AfterComplete \/ Holds(toHost[t], "complete")
    <3>1. pc' = [pc EXCEPT ![u] = "failed"] /\ toHost' = [toHost EXCEPT ![u] = <<>>]
      BY <2>1 DEF GiveUp, Goto
    <3> QED
      BY <1>0, <3>1, NothingHeld
  <2>2. ASSUME UNCHANGED toHost, NEW place, Goto(u, place),
               place \in AfterComplete => pc[u] \in AfterComplete
        PROVE  pc[t] \in AfterComplete \/ Holds(toHost[t], "complete")
    <3>1. pc' = [pc EXCEPT ![u] = place]
      BY <2>2 DEF Goto
    <3> QED
      BY <1>0, <2>2, <3>1
  <2>3. CASE \/ LoadIdentity(u) \/ SendRequest(u) \/ HostConfirms(u) \/ HostRejects(u)
             \/ HostGivesUp(u) \/ OpenForTrust(u) \/ AttemptSaveFails(u)
             \/ OpenRefreshed(u) \/ Refresh(u)
    BY <2>1, <2>2, <2>3 DEF LoadIdentity, SendRequest, HostConfirms, HostRejects,
       HostGivesUp, OpenForTrust, AttemptSaveFails, OpenRefreshed, Refresh, wireVars
  <2>4. CASE AttemptReplaces(u)
    BY <2>2, <2>4 DEF AttemptReplaces, wireVars
  <2>5. CASE AttemptWrites(u)
    BY <1>1, <2>5 DEF AttemptWrites, hostVars, wireVars
  <2>6. CASE ReadChallenge(u) \/ ReadComplete(u)
    <3>1. /\ toHost[u] # <<>> /\ toHost' = Receive(toHost, u)
          /\ \/ pc' = [pc EXCEPT ![u] = "ask"]
             \/ Head(toHost[u]) = "complete" /\ pc' = [pc EXCEPT ![u] = "trust"]
      BY <2>6 DEF ReadChallenge, ReadComplete, Goto
    <3>2. /\ \A v \in Attempt : \A y : Holds(toHost'[v], y) => Holds(toHost[v], y)
          /\ Holds(toHost[u], Head(toHost[u]))
      BY <1>0, <3>1, Received
    <3> QED
      BY <1>0, <3>1, <3>2
  <2>7. CASE Cut(u)
    <3>1. UNCHANGED pc /\ toHost' \in {toHost, [toHost EXCEPT ![u] = <<>>]}
      BY <2>7 DEF Cut, hostVars
    <3> QED
      BY <1>0, <3>1, NothingHeld
  <2> QED
    BY <1>4, <2>3, <2>4, <2>5, <2>6, <2>7 DEF HostStep
<1>5. CASE DaemonStep
  <2>1. \/ UNCHANGED <<pc, toHost>>
        \/ /\ pc' = [u \in Attempt |-> IF pc[u] \in {"idle", "paired"} THEN pc[u]
                                       ELSE "failed"]
           /\ toHost' = [u \in Attempt |-> <<>>]
    BY <1>5 DEF DaemonStep, SetSetting, SetFilters, HostForgets, BeginSave,
       DaemonWrites, DaemonReplaces, DaemonSaveFails, DaemonKilled, PowerLoss,
       Halt, Restart, WrittenBack, hostVars, wireVars
  <2> QED
    BY <2>1, NothingHeld
<1>6. ASSUME NEW p \in Phone, OnPhone(p)
      PROVE  \/ pc[t] \in AfterComplete \/ Holds(toHost[t], "complete")
             \/ Complete(p) /\ socket[p] = t
  <2>1. UNCHANGED pc
    BY <1>6 DEF OnPhone, PhoneStep, UserStep, PhoneReadsRequest, PhoneReadsProof,
       Complete, PersistPeer, PhoneGivesUp, PhoneConfirms, PhoneRejects, PhoneKilled,
       PhoneForgets, hostVars
  <2>2. CASE Complete(p)
    <3>1. socket[p] \in Attempt
      BY <2>2 DEF Complete, TypeOK
    <3> QED
      BY <1>0, <2>1, <2>2, <3>1, AnswerHolds DEF Complete
  <2>3. CASE PhoneReadsRequest(p)
    <3>1. socket[p] \in Attempt /\ Answer(p, "challenge")
      BY <2>3, TakenByPhone DEF PhoneReadsRequest
    <3> QED
      BY <1>0, <2>1, <3>1, AnswerHolds
  <2>4. CASE ~Complete(p) /\ ~PhoneReadsRequest(p)
    <3>1. UNCHANGED toHost
      BY <1>6, <2>4 DEF OnPhone, PhoneStep, UserStep, PhoneReadsProof, PersistPeer,
         PhoneGivesUp, PhoneConfirms, PhoneRejects, PhoneKilled, PhoneForgets, wireVars
    <3> QED
      BY <1>1, <2>1, <3>1
  <2> QED
    BY <2>2, <2>3, <2>4
<1> QED
  BY <1>1, <1>2, <1>3, <1>4, <1>5, <1>6, WhoSteps

LEMMA ShareInvNext == TypeOK /\ TrustInv /\ [Next]_vars => ShareInv'
<1> SUFFICES ASSUME TypeOK, KeyInv, ShareInv, [Next]_vars PROVE ShareInv'
  BY DEF TrustInv
<1>1. \A t \in Attempt : Keyed(t) => peer[t] \in Phone
  BY DEF KeyInv
<1>2. ASSUME NEW t \in Attempt, pc'[t] \in AfterComplete \/ Holds(toHost'[t], "complete")
      PROVE  Keyed(t)' /\ Shared(t, peer[t])' /\ peer'[t] = peer[t]
  <2>1. CASE pc[t] \in AfterComplete \/ Holds(toHost[t], "complete")
    <3>1. Keyed(t) /\ Shared(t, peer[t])
      BY <2>1 DEF ShareInv
    <3> QED
      BY <1>1, <3>1, KeyStays, SharedStays
  <2>2. ASSUME NEW p \in Phone, Complete(p), socket[p] = t
        PROVE  Keyed(t)' /\ Shared(t, peer[t])' /\ peer'[t] = peer[t]
    <3>1. /\ phonePc[p] = "await" /\ phonePc'[p] = "persist" /\ socket'[p] = t
      BY <2>2 DEF Complete, TypeOK
    <3>2. Keyed(t) /\ peer[t] = p
      BY <2>2, <3>1, StoreAssumption DEF KeyInv
    <3>3. key'[t] = key[t] /\ peer'[t] = peer[t]
      BY <3>2, KeyStays
    <3> QED
      BY <3>1, <3>2, <3>3 DEF Shared, Keyed
  <2> QED
    BY <1>2, <2>1, <2>2, CompleteSource
<1>3. ASSUME NEW p \in Phone, NEW t \in Attempt, Held(p, t)'
      PROVE  Keyed(t)' /\ Shared(t, p)'
  <2>1. CASE Held(p, t)
    BY <2>1, SharedStays DEF ShareInv
  <2>2. CASE pc[t] = "trust" /\ peer[t] = p
    <3>1. Keyed(t) /\ Shared(t, p)
      BY <2>2 DEF ShareInv, AfterComplete
    <3> QED
      BY <3>1, SharedStays
  <2> QED
    BY <1>3, <2>1, <2>2, Provenance
<1> QED
  BY <1>2, <1>3 DEF ShareInv

(* persistTrust (pairing.go) and persistPeer (PairingServer.kt): when the  *)
(* configuration holds the secret of an exchange, the phone holds one for  *)
(* that identity or is about to store it, whatever was cut, killed or      *)
(* retried, unless the app was killed or its user forgot the host.         *)
THEOREM HostTrustAlwaysShared == Spec => []HostTrustIsShared
<1>1. Init => TypeOK /\ TrustInv
  BY InitTypes, TrustInvInit
<1>2. (TypeOK /\ TrustInv) /\ [Next]_vars => (TypeOK /\ TrustInv)'
  BY NextTypes, KeyInvNext, ShareInvNext DEF TrustInv
<1>3. TrustInv => HostTrustIsShared
  BY DEF TrustInv, ShareInv, Shared, Held, HostTrustIsShared, Secret
<1> QED
  BY <1>1, <1>2, <1>3, PTL DEF Spec
=============================================================================
