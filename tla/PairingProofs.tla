--------------------------- MODULE PairingProofs ----------------------------
(***************************************************************************)
(* Proofs about Pairing, for any phones and attempts, all events in any    *)
(* number: types, a file that always opens, and secrets that are stored    *)
(* only after both users agreed.                                           *)
(***************************************************************************)
EXTENDS Pairing, TLAPS, SequenceTheorems

USE DEF Secret

-----------------------------------------------------------------------------
(* The channels *)

(* A frame of this type is on its way.                                     *)
Holds(frames, type) == \E i \in 1..Len(frames) : frames[i] = type

LEMMA NothingHeld == \A type : ~Holds(<<>>, type)
BY DEF Holds

LEMMA Sent ==
  ASSUME NEW S, NEW channel \in [Attempt -> Seq(S)], NEW t \in Attempt,
         NEW type \in S
  PROVE  /\ Send(channel, t, <<type>>) \in [Attempt -> Seq(S)]
         /\ \A u \in Attempt : \A y :
               Holds(Send(channel, t, <<type>>)[u], y) =>
                   Holds(channel[u], y) \/ (u = t /\ y = type)
<1> DEFINE s == channel[t]
<1>1. s \in Seq(S) /\ <<type>> \in Seq(S) /\ Len(<<type>>) = 1 /\ Len(s) \in Nat
  OBVIOUS
<1>2. /\ s \o <<type>> \in Seq(S)
      /\ Len(s \o <<type>>) = Len(s) + 1
      /\ \A i \in 1..(Len(s) + 1) : (s \o <<type>>)[i] =
             IF i <= Len(s) THEN s[i] ELSE <<type>>[i - Len(s)]
  BY <1>1, ConcatProperties
<1>3. Send(channel, t, <<type>>) = [channel EXCEPT ![t] = s \o <<type>>]
  BY DEF Send
<1> HIDE DEF s
<1>4. ASSUME NEW y, Holds(s \o <<type>>, y) PROVE Holds(s, y) \/ y = type
  <2>1. PICK i \in 1..(Len(s) + 1) : (s \o <<type>>)[i] = y
    BY <1>2, <1>4 DEF Holds
  <2>2. CASE i <= Len(s)
    BY <1>1, <1>2, <2>1, <2>2 DEF Holds
  <2>3. CASE ~(i <= Len(s))
    <3>1. i - Len(s) = 1
      BY <1>1, <2>1, <2>3
    <3> QED
      BY <1>2, <2>1, <2>3, <3>1
  <2> QED
    BY <2>2, <2>3
<1> QED
  BY <1>2, <1>3, <1>4 DEF s

LEMMA Received ==
  ASSUME NEW S, NEW channel \in [Attempt -> Seq(S)], NEW t \in Attempt,
         channel[t] # <<>>
  PROVE  /\ Receive(channel, t) \in [Attempt -> Seq(S)]
         /\ \A u \in Attempt : \A y : Holds(Receive(channel, t)[u], y) => Holds(channel[u], y)
         /\ Holds(channel[t], Head(channel[t]))
<1> DEFINE s == channel[t]
<1>1. s \in Seq(S) /\ s # <<>> /\ Len(s) \in Nat
  OBVIOUS
<1>2. /\ Tail(s) \in Seq(S)
      /\ Len(Tail(s)) = Len(s) - 1
      /\ \A i \in 1..Len(Tail(s)) : Tail(s)[i] = s[i + 1]
  BY <1>1, HeadTailProperties
<1>3. Receive(channel, t) = [channel EXCEPT ![t] = Tail(s)]
  BY DEF Receive
<1>4. ASSUME NEW y, Holds(Tail(s), y) PROVE Holds(s, y)
  <2>1. PICK i \in 1..Len(Tail(s)) : Tail(s)[i] = y
    BY <1>4 DEF Holds
  <2>2. i + 1 \in 1..Len(s) /\ s[i + 1] = y
    BY <1>1, <1>2, <2>1
  <2> QED
    BY <2>2 DEF Holds
<1>5. Holds(s, Head(s))
  <2>1. Len(s) > 0 /\ Head(s) = s[1]
    BY <1>1
  <2> QED
    BY <1>1, <2>1 DEF Holds
<1> HIDE DEF s
<1> QED
  BY <1>2, <1>3, <1>4, <1>5 DEF s

-----------------------------------------------------------------------------
(* Types *)

StoreAndDaemonTypes ==
    /\ StoreTypeOK
    /\ running \in BOOLEAN
    /\ saving \in BOOLEAN
    /\ diverged \in BOOLEAN

HostTypes ==
    /\ pc \in [Attempt -> HostPc]
    /\ peer \in [Attempt -> Phone \cup {None}]
    /\ key \in [Attempt -> Origin]

WireTypes ==
    /\ toPhone \in [Attempt -> Seq({"request", "proof", "cancel"})]
    /\ toHost \in [Attempt -> Seq({"challenge", "complete"})]
    /\ open \subseteq Attempt

PhoneTypes ==
    /\ phonePc \in [Phone -> PhonePc]
    /\ socket \in [Phone -> Attempt \cup {None}]
    /\ \A p \in Phone : socket[p] = None <=> phonePc[p] = "idle"
    /\ verdict \in [Phone -> {"none", "yes", "no"}]
    /\ trust \in [Phone -> [Attempt \cup {Old} -> Origin]]

HistoryTypes ==
    /\ confirmed \in [Attempt -> SUBSET {"host", "phone"}]
    /\ lapsed \subseteq Phone
    /\ count \in 0..MaxEvents

LEMMA TypeParts ==
  TypeOK <=> /\ StoreAndDaemonTypes
             /\ HostTypes
             /\ WireTypes
             /\ PhoneTypes
             /\ HistoryTypes
BY DEF TypeOK, StoreAndDaemonTypes, HostTypes, WireTypes, PhoneTypes, HistoryTypes

LEMMA NoDataIsData == NoData \in Data
BY DEF NoData, Data, Origin

LEMMA InitDataIsData ==
  ASSUME NEW d \in InitData
  PROVE  d \in Data /\ Valid(d)
<1>1. CASE d = NoData
  BY <1>1, NoDataIsData DEF Valid, NoData, Paired
<1>2. CASE d # NoData
  <2>1. PICK S \in SUBSET Phone :
             d = [identity |-> Old,
                  devices  |-> [p \in Phone |-> IF p \in S THEN Old ELSE None],
                  settings |-> [s \in Setting |-> S]]
    BY <1>2 DEF InitData
  <2>2. d \in Data
    BY <2>1 DEF Data, Origin
  <2>3. \A p \in S : d.devices[p] # None
    BY <2>1, StoreAssumption
  <2>4. \A s \in Setting : d.settings[s] = S
    BY <2>1
  <2>5. Valid(d)
    BY <2>3, <2>4 DEF Valid, Paired
  <2> QED
    BY <2>2, <2>5
<1> QED
  BY <1>1, <1>2

LEMMA SettersKeepData ==
  ASSUME NEW d \in Data, NEW p, NEW k \in Origin, NEW s, NEW on \in BOOLEAN
  PROVE  /\ SetIdentity(d, k) \in Data
         /\ UpsertDevice(d, p, k) \in Data
         /\ RemoveDevice(d, p) \in Data
         /\ p \in Phone => Set(d, s, p, on) \in Data
BY DEF SetIdentity, UpsertDevice, RemoveDevice, Set, Data, Origin

LEMMA InitTypes == Init => TypeOK
<1> SUFFICES ASSUME Init PROVE TypeOK
  OBVIOUS
<1>1. PICK d \in InitData :
        /\ file = [data |-> d, whole |-> TRUE, synced |-> TRUE]
        /\ stable = file
        /\ temp = [s \in Saver |-> None]
        /\ store = [s \in Saver |-> IF s = Daemon THEN d ELSE NoData]
        /\ trust = [p \in Phone |-> [k \in Attempt \cup {Old} |->
                       IF k = Old /\ p \in Paired(d) THEN Old ELSE None]]
  BY DEF Init
<1>2. StoreAndDaemonTypes
  <2>1. StoreTypeOK
    BY <1>1, InitDataIsData, NoDataIsData DEF StoreTypeOK, File
  <2> QED
    BY <2>1 DEF Init, StoreAndDaemonTypes
<1>3. HostTypes
  BY DEF Init, HostTypes, HostPc, Origin
<1>4. WireTypes
  BY DEF Init, WireTypes
<1>5. PhoneTypes
  <2>1. trust \in [Phone -> [Attempt \cup {Old} -> Origin]]
    BY <1>1 DEF Origin
  <2> QED
    BY <2>1 DEF Init, PhoneTypes, PhonePc
<1>6. HistoryTypes
  BY PairingAssumption DEF Init, HistoryTypes
<1> QED
  BY <1>2, <1>3, <1>4, <1>5, <1>6, TypeParts

-----------------------------------------------------------------------------
(* Each group of variables keeps its types, step by step *)

(* The savers' steps on the file.                                          *)
SaverStep(s) == WriteTemporary(s) \/ Replace(s) \/ Discard(s)

LEMMA SaverKeepsTypes ==
  ASSUME StoreTypeOK, NEW s \in Saver, SaverStep(s)
  PROVE  StoreTypeOK'
<1>1. Dropped(s) \in [Saver -> Data]
  BY NoDataIsData DEF StoreTypeOK, Dropped
<1>2. CASE WriteTemporary(s)
  <2>1. [data |-> store[s], whole |-> TRUE, synced |-> TRUE] \in File
    BY DEF StoreTypeOK, File
  <2> QED
    BY <1>2, <2>1 DEF WriteTemporary, StoreTypeOK
<1>3. CASE Replace(s)
  BY <1>1, <1>3 DEF Replace, StoreTypeOK
<1>4. CASE Discard(s)
  BY <1>1, <1>4 DEF Discard, StoreTypeOK
<1> QED
  BY <1>2, <1>3, <1>4 DEF SaverStep

LEMMA StoreSteps ==
  ASSUME StoreTypeOK, UNCHANGED <<file, stable, temp>>,
         NEW s \in Saver, NEW d \in Data, store' = [store EXCEPT ![s] = d]
  PROVE  StoreTypeOK'
BY DEF StoreTypeOK

LEMMA AttemptIsSaver == Attempt \subseteq Saver /\ Daemon \in Saver
BY DEF Saver

LEMMA AttemptIsOrigin == Attempt \subseteq Origin
BY DEF Origin

LEMMA FileData == StoreTypeOK => file.data \in Data /\ store[Daemon] \in Data
BY AttemptIsSaver DEF StoreTypeOK, File

LEMMA HostStepTypes ==
  ASSUME TypeOK, NEW t \in Attempt, HostStep(t) \/ Cut(t)
  PROVE  TypeOK'
<1> USE TypeParts
<1>1. StoreAndDaemonTypes'
  <2> USE DEF StoreAndDaemonTypes, daemonVars, GiveUp
  <2>1. ASSUME UNCHANGED <<storeVars, daemonVars>> PROVE StoreAndDaemonTypes'
    BY <2>1 DEF StoreTypeOK, storeVars
  <2>2. CASE LoadIdentity(t)
    <3>1. SetIdentity(file.data, t) \in Data
      BY FileData, SettersKeepData, AttemptIsOrigin
    <3>2. StoreTypeOK'
      BY <2>2, <3>1, StoreSteps, AttemptIsSaver DEF LoadIdentity, StoreTypeOK
    <3> QED
      BY <2>2, <3>2 DEF LoadIdentity
  <2>3. CASE OpenForTrust(t)
    <3>1. UpsertDevice(file.data, peer[t], Secret(t)) \in Data
      BY FileData, SettersKeepData, AttemptIsOrigin
    <3>2. StoreTypeOK'
      BY <2>3, <3>1, StoreSteps, AttemptIsSaver DEF OpenForTrust
    <3> QED
      BY <2>3, <3>2 DEF OpenForTrust
  <2>4. CASE AttemptWrites(t) \/ AttemptReplaces(t) \/ AttemptSaveFails(t)
    <3>1. StoreTypeOK'
      BY <2>4, SaverKeepsTypes, AttemptIsSaver
      DEF SaverStep, AttemptWrites, AttemptReplaces, AttemptSaveFails
    <3>2. /\ UNCHANGED <<running, saving>>
          /\ diverged' \in BOOLEAN
      BY <2>4 DEF AttemptWrites, AttemptReplaces, AttemptSaveFails
    <3> QED
      BY <3>1, <3>2
  <2>5. CASE OpenRefreshed(t)
    <3>1. StoreTypeOK'
      BY <2>5, FileData, StoreSteps, AttemptIsSaver DEF OpenRefreshed, StoreTypeOK
    <3> QED
      BY <2>5, <3>1 DEF OpenRefreshed
  <2>6. CASE Refresh(t)
    <3>1. store' \in [Saver -> Data]
      BY <2>6, AttemptIsSaver, NoDataIsData DEF Refresh, StoreTypeOK
    <3> QED
      BY <2>6, <3>1 DEF Refresh, StoreTypeOK
  <2>7. CASE \/ SendRequest(t) \/ ReadChallenge(t) \/ HostConfirms(t)
             \/ HostRejects(t) \/ ReadComplete(t) \/ HostGivesUp(t) \/ Cut(t)
    BY <2>1, <2>7 DEF SendRequest, ReadChallenge, HostConfirms, HostRejects,
       ReadComplete, HostGivesUp, Cut
  <2> QED
    BY <2>2, <2>3, <2>4, <2>5, <2>6, <2>7 DEF HostStep
<1>2. HostTypes'
  <2> USE DEF HostTypes, HostPc, Goto, GiveUp, hostVars
  <2>1. CASE LoadIdentity(t)
    BY <2>1, FileData DEF LoadIdentity, StoreAndDaemonTypes, Data, Origin
  <2>2. CASE \/ SendRequest(t) \/ ReadChallenge(t) \/ HostConfirms(t)
             \/ HostRejects(t) \/ ReadComplete(t) \/ HostGivesUp(t)
    BY <2>2 DEF SendRequest, ReadChallenge, HostConfirms, HostRejects,
       ReadComplete, HostGivesUp
  <2>3. CASE \/ OpenForTrust(t) \/ AttemptWrites(t) \/ AttemptReplaces(t)
             \/ AttemptSaveFails(t) \/ OpenRefreshed(t) \/ Refresh(t) \/ Cut(t)
    BY <2>3 DEF OpenForTrust, AttemptWrites, AttemptReplaces,
       AttemptSaveFails, OpenRefreshed, Refresh, Cut
  <2> QED
    BY <2>1, <2>2, <2>3 DEF HostStep
<1>3. WireTypes'
  <2> USE DEF wireVars
  <2>0. /\ toPhone \in [Attempt -> Seq({"request", "proof", "cancel"})]
        /\ toHost \in [Attempt -> Seq({"challenge", "complete"})]
        /\ open \subseteq Attempt
    BY DEF WireTypes
  <2>1. ASSUME NEW type \in {"request", "proof", "cancel"},
               toPhone' = Send(toPhone, t, <<type>>),
               UNCHANGED <<toHost, open>> \/ GiveUp(t)
        PROVE  WireTypes'
    <3>1. toPhone' \in [Attempt -> Seq({"request", "proof", "cancel"})]
      BY <2>0, <2>1, Sent
    <3>2. \/ toHost' = toHost /\ open' = open
          \/ toHost' = [toHost EXCEPT ![t] = <<>>] /\ open' = open \ {t}
      BY <2>1 DEF GiveUp
    <3>3. /\ toHost' \in [Attempt -> Seq({"challenge", "complete"})]
          /\ open' \subseteq Attempt
      <4>1. CASE toHost' = toHost /\ open' = open
        BY <2>0, <4>1
      <4>2. CASE toHost' = [toHost EXCEPT ![t] = <<>>] /\ open' = open \ {t}
        BY <2>0, <4>2
      <4> QED
        BY <3>2, <4>1, <4>2
    <3> QED
      BY <3>1, <3>3 DEF WireTypes
  <2>2. ASSUME UNCHANGED toPhone, GiveUp(t) PROVE WireTypes'
    BY <2>0, <2>2 DEF WireTypes, GiveUp
  <2>3. CASE SendRequest(t) \/ HostConfirms(t) \/ HostRejects(t)
    BY <2>1, <2>2, <2>3 DEF SendRequest, HostConfirms, HostRejects
  <2>4. CASE ReadChallenge(t) \/ ReadComplete(t)
    <3>1. toHost[t] # <<>> /\ toHost' = Receive(toHost, t) /\ UNCHANGED <<toPhone, open>>
      BY <2>4 DEF ReadChallenge, ReadComplete
    <3>2. toHost' \in [Attempt -> Seq({"challenge", "complete"})]
      BY <2>0, <3>1, Received
    <3> QED
      BY <2>0, <3>1, <3>2 DEF WireTypes
  <2>5. CASE \/ HostGivesUp(t) \/ OpenForTrust(t) \/ AttemptWrites(t)
             \/ AttemptReplaces(t) \/ AttemptSaveFails(t) \/ LoadIdentity(t)
    BY <2>0, <2>2, <2>5 DEF HostGivesUp, OpenForTrust, AttemptWrites,
       AttemptReplaces, AttemptSaveFails, LoadIdentity, WireTypes
  <2>6. CASE OpenRefreshed(t) \/ Refresh(t)
    BY <2>0, <2>6 DEF OpenRefreshed, Refresh, WireTypes
  <2>7. CASE Cut(t)
    BY <2>0, <2>7 DEF Cut, WireTypes
  <2> QED
    BY <2>3, <2>4, <2>5, <2>6, <2>7 DEF HostStep
<1>4. PhoneTypes'
  <2>1. UNCHANGED phoneVars
    BY DEF HostStep, LoadIdentity, SendRequest, ReadChallenge, HostConfirms,
       HostRejects, ReadComplete, HostGivesUp, OpenForTrust, AttemptWrites,
       AttemptReplaces, AttemptSaveFails, OpenRefreshed, Refresh, Cut
  <2> QED
    BY <2>1 DEF PhoneTypes, phoneVars
<1>5. HistoryTypes'
  <2> USE DEF HistoryTypes, historyVars
  <2>1. CASE HostConfirms(t)
    BY <2>1 DEF HostConfirms
  <2>2. CASE AttemptSaveFails(t) \/ OpenRefreshed(t) \/ Cut(t)
    BY <2>2, PairingAssumption
    DEF AttemptSaveFails, OpenRefreshed, Cut, Happens, Counted
  <2>3. CASE \/ LoadIdentity(t) \/ SendRequest(t) \/ ReadChallenge(t)
             \/ HostRejects(t) \/ ReadComplete(t) \/ HostGivesUp(t)
             \/ OpenForTrust(t) \/ AttemptWrites(t) \/ AttemptReplaces(t)
             \/ Refresh(t)
    BY <2>3 DEF LoadIdentity, SendRequest, ReadChallenge,
       HostRejects, ReadComplete, HostGivesUp, OpenForTrust, AttemptWrites,
       AttemptReplaces, Refresh
  <2> QED
    BY <2>1, <2>2, <2>3 DEF HostStep
<1> QED
  BY <1>1, <1>2, <1>3, <1>4, <1>5 DEF TypeOK, StoreAndDaemonTypes, HostTypes,
     WireTypes, PhoneTypes, HistoryTypes

LEMMA ConnectTypes ==
  ASSUME TypeOK, NEW t \in Attempt, NEW p \in Phone, Connect(t, p)
  PROVE  TypeOK'
<1> USE TypeParts
<1>1. StoreAndDaemonTypes'
  BY DEF Connect, StoreAndDaemonTypes, StoreTypeOK, storeVars, daemonVars
<1>2. HostTypes'
  BY DEF Connect, Goto, HostTypes, HostPc
<1>3. WireTypes'
  BY DEF Connect, WireTypes
<1>4. PhoneTypes'
  <2>1. CASE UNCHANGED <<socket, phonePc>>
    BY <2>1 DEF Connect, PhoneTypes
  <2>2. CASE socket' = [socket EXCEPT ![p] = t] /\ phonePc' = [phonePc EXCEPT ![p] = "request"]
    BY <2>2, StoreAssumption DEF Connect, PhoneTypes, PhonePc
  <2> QED
    BY <2>1, <2>2 DEF Connect
<1>5. HistoryTypes'
  BY PairingAssumption DEF Connect, Counted, HistoryTypes
<1> QED
  BY <1>1, <1>2, <1>3, <1>4, <1>5 DEF TypeOK, StoreAndDaemonTypes, HostTypes,
     WireTypes, PhoneTypes, HistoryTypes

(* What the daemon is about to save is data.                               *)
LEMMA SaveTypes ==
  ASSUME StoreTypeOK, NEW d \in Data, BeginSave(d)
  PROVE  StoreTypeOK' /\ running' = running /\ saving' = TRUE /\ diverged' = TRUE
BY AttemptIsSaver, StoreSteps DEF BeginSave

LEMMA BeginSaveTypes ==
  ASSUME StoreTypeOK, NEW d, BeginSave(d),
         \/ d = store[Daemon]
         \/ \E s \in Setting, p \in Phone, on \in BOOLEAN :
               d = Set(store[Daemon], s, p, on)
         \/ \E p \in Phone : d = RemoveDevice(store[Daemon], p)
  PROVE  StoreTypeOK' /\ running' = running /\ saving' = TRUE /\ diverged' = TRUE
<1>1. None \in Origin /\ store[Daemon] \in Data
  BY FileData DEF Origin
<1>2. d \in Data
  BY <1>1, SettersKeepData
<1> QED
  BY <1>2, SaveTypes

LEMMA DaemonStepTypes ==
  ASSUME TypeOK, DaemonStep
  PROVE  TypeOK'
<1> USE TypeParts
<1>0. StoreTypeOK
  BY DEF StoreAndDaemonTypes
<1>1. StoreAndDaemonTypes'
  <2> USE DEF StoreAndDaemonTypes
  <2>1. CASE \/ \E s \in Setting, p \in Phone, on \in BOOLEAN : SetSetting(s, p, on)
             \/ SetFilters
             \/ \E p \in Phone : HostForgets(p)
    <3>1. \E d : /\ BeginSave(d)
                 /\ \/ d = store[Daemon]
                    \/ \E s \in Setting, p \in Phone, on \in BOOLEAN :
                          d = Set(store[Daemon], s, p, on)
                    \/ \E p \in Phone : d = RemoveDevice(store[Daemon], p)
      BY <2>1 DEF SetSetting, SetFilters, HostForgets
    <3> QED
      BY <1>0, <3>1, BeginSaveTypes
  <2>2. CASE DaemonWrites \/ DaemonReplaces \/ DaemonSaveFails
    <3>1. StoreTypeOK'
      BY <1>0, <2>2, SaverKeepsTypes, AttemptIsSaver
      DEF SaverStep, DaemonWrites, DaemonReplaces, DaemonSaveFails
    <3> QED
      BY <2>2, <3>1 DEF DaemonWrites, DaemonReplaces, DaemonSaveFails, daemonVars
  <2>3. CASE DaemonKilled
    BY <1>0, <2>3, NoDataIsData DEF DaemonKilled, Halt, StoreTypeOK
  <2>4. CASE PowerLoss
    <3>1. \A f \in File : AfterPowerLoss(f) \in File
      BY DEF AfterPowerLoss, File
    <3>2. file' \in File /\ stable' \in File
      BY <1>0, <2>4, <3>1 DEF PowerLoss, StoreTypeOK
    <3> QED
      BY <1>0, <2>4, <3>2, NoDataIsData DEF PowerLoss, Halt, StoreTypeOK
  <2>5. CASE Restart
    <3>1. StoreTypeOK'
      BY <1>0, <2>5, FileData, StoreSteps, AttemptIsSaver DEF Restart
    <3> QED
      BY <2>5, <3>1 DEF Restart
  <2>6. CASE WrittenBack
    BY <1>0, <2>6 DEF WrittenBack, Writeback, StoreTypeOK, daemonVars
  <2> QED
    BY <2>1, <2>2, <2>3, <2>4, <2>5, <2>6 DEF DaemonStep
<1>2. CASE Halt
  <2>1. HostTypes'
    BY <1>2 DEF Halt, HostTypes, HostPc
  <2>2. WireTypes'
    BY <1>2 DEF Halt, WireTypes
  <2>3. PhoneTypes'
    BY <1>2 DEF Halt, PhoneTypes, phoneVars
  <2>4. HistoryTypes'
    <3>1. UNCHANGED <<confirmed, lapsed>> /\ count' \in {count, count + 1}
      BY <1>2 DEF Halt, DaemonStep, SetSetting, SetFilters, HostForgets, DaemonWrites,
         DaemonReplaces, DaemonSaveFails, DaemonKilled, PowerLoss, Restart,
         WrittenBack, Happens, Counted, historyVars
    <3>2. count' = count \/ count < MaxEvents
      BY <1>2 DEF Halt, DaemonStep, SetSetting, SetFilters, HostForgets, DaemonWrites,
         DaemonReplaces, DaemonSaveFails, DaemonKilled, PowerLoss, Restart,
         WrittenBack, Happens, Counted, historyVars
    <3> QED
      BY <3>1, <3>2, PairingAssumption DEF HistoryTypes
  <2> QED
    BY <1>1, <2>1, <2>2, <2>3, <2>4 DEF TypeOK, StoreAndDaemonTypes, HostTypes,
       WireTypes, PhoneTypes, HistoryTypes
<1>3. CASE ~Halt
  <2>1. /\ UNCHANGED <<hostVars, wireVars, phoneVars, confirmed, lapsed>>
        /\ count' = count \/ Counted
    BY <1>3 DEF DaemonStep, SetSetting, SetFilters, HostForgets, DaemonWrites,
       DaemonReplaces, DaemonSaveFails, DaemonKilled, PowerLoss, Restart,
       WrittenBack, Happens, BeginSave, historyVars
  <2>2. HostTypes' /\ WireTypes' /\ PhoneTypes'
    BY <2>1 DEF HostTypes, WireTypes, PhoneTypes, hostVars, wireVars, phoneVars
  <2>3. HistoryTypes'
    BY <2>1, PairingAssumption DEF HistoryTypes, Counted
  <2> QED
    BY <1>1, <2>2, <2>3 DEF TypeOK, StoreAndDaemonTypes, HostTypes,
       WireTypes, PhoneTypes, HistoryTypes
<1> QED
  BY <1>2, <1>3

(* The steps on the side of a phone.                                       *)
OnPhone(p) == PhoneStep(p) \/ UserStep(p) \/ PhoneKilled(p) \/ PhoneForgets(p)

LEMMA AnswerTypes ==
  ASSUME WireTypes, PhoneTypes, NEW p \in Phone, socket[p] # None,
         NEW frame \in {"challenge", "complete"}, Answer(p, frame)
  PROVE  toHost' \in [Attempt -> Seq({"challenge", "complete"})]
<1>1. toHost \in [Attempt -> Seq({"challenge", "complete"})] /\ socket[p] \in Attempt
  BY DEF WireTypes, PhoneTypes
<1> QED
  BY <1>1, Sent DEF Answer

LEMMA TakeTypes ==
  ASSUME WireTypes, PhoneTypes, NEW p \in Phone, NEW type, Incoming(p, type), Take(p)
  PROVE  toPhone' \in [Attempt -> Seq({"request", "proof", "cancel"})]
<1>1. /\ toPhone \in [Attempt -> Seq({"request", "proof", "cancel"})]
      /\ socket[p] \in Attempt
      /\ toPhone[socket[p]] # <<>>
  BY DEF WireTypes, PhoneTypes, Incoming
<1> QED
  BY <1>1, Received DEF Take

LEMMA ReleaseTypes ==
  ASSUME PhoneTypes, WireTypes, NEW p \in Phone, Release(p)
  PROVE  /\ phonePc' \in [Phone -> PhonePc]
         /\ socket' \in [Phone -> Attempt \cup {None}]
         /\ \A q \in Phone : socket'[q] = None <=> phonePc'[q] = "idle"
         /\ verdict' \in [Phone -> {"none", "yes", "no"}]
         /\ toPhone' \in [Attempt -> Seq({"request", "proof", "cancel"})]
         /\ open' \subseteq Attempt
BY DEF Release, PhoneTypes, WireTypes, PhonePc

LEMMA OnPhoneTypes ==
  ASSUME TypeOK, NEW p \in Phone, OnPhone(p)
  PROVE  TypeOK'
<1> USE TypeParts
<1> USE DEF OnPhone, PhoneStep, UserStep
<1>1. StoreAndDaemonTypes' /\ HostTypes'
  <2>1. UNCHANGED <<storeVars, daemonVars, hostVars>>
    BY DEF PhoneReadsRequest, PhoneReadsProof, Complete, PersistPeer, PhoneGivesUp,
       PhoneConfirms, PhoneRejects, PhoneKilled, PhoneForgets
  <2> QED
    BY <2>1 DEF StoreAndDaemonTypes, StoreTypeOK, HostTypes, storeVars, daemonVars,
       hostVars
<1>2. WireTypes' /\ PhoneTypes'
  <2>1. CASE PhoneReadsRequest(p) \/ PhoneReadsProof(p)
    <3>1. socket[p] # None /\ Take(p) /\ \E type : Incoming(p, type)
      BY <2>1 DEF PhoneReadsRequest, PhoneReadsProof, Incoming
    <3>2. toPhone' \in [Attempt -> Seq({"request", "proof", "cancel"})]
      BY <3>1, TakeTypes
    <3>3. toHost' \in [Attempt -> Seq({"challenge", "complete"})]
      BY <2>1, <3>1, AnswerTypes DEF PhoneReadsRequest, PhoneReadsProof, WireTypes
    <3>4. UNCHANGED open
      BY <2>1 DEF PhoneReadsRequest, PhoneReadsProof
    <3>5. PhoneTypes'
      BY <2>1 DEF PhoneReadsRequest, PhoneReadsProof, PhoneTypes, PhonePc
    <3> QED
      BY <3>2, <3>3, <3>4, <3>5 DEF WireTypes
  <2>2. CASE Complete(p)
    <3>1. socket[p] # None
      BY <2>2 DEF Complete, PhoneTypes
    <3>2. toHost' \in [Attempt -> Seq({"challenge", "complete"})]
      BY <2>2, <3>1, AnswerTypes DEF Complete
    <3>3. PhoneTypes'
      BY <2>2 DEF Complete, PhoneTypes, PhonePc
    <3> QED
      BY <2>2, <3>2, <3>3 DEF Complete, WireTypes
  <2>3. CASE PersistPeer(p)
    <3>1. Release(p) /\ toHost' = toHost
      BY <2>3 DEF PersistPeer
    <3>2. trust' \in [Phone -> [Attempt \cup {Old} -> Origin]]
      <4>1. socket[p] \in Attempt
        BY <2>3 DEF PersistPeer, PhoneTypes
      <4>2. trust' = [trust EXCEPT ![p][key[socket[p]]] = socket[p]]
        BY <2>3 DEF PersistPeer
      <4>3. socket[p] \in Origin
        BY <4>1, AttemptIsOrigin
      <4> QED
        BY <4>2, <4>3 DEF PhoneTypes
    <3> QED
      BY <3>1, <3>2, ReleaseTypes DEF WireTypes, PhoneTypes
  <2>4. CASE PhoneGivesUp(p) \/ PhoneKilled(p)
    <3>1. Release(p) /\ UNCHANGED <<toHost, trust>>
      BY <2>4 DEF PhoneGivesUp, PhoneKilled
    <3> QED
      BY <3>1, ReleaseTypes DEF WireTypes, PhoneTypes
  <2>5. CASE PhoneConfirms(p) \/ PhoneRejects(p)
    BY <2>5 DEF PhoneConfirms, PhoneRejects, WireTypes, PhoneTypes, wireVars
  <2>6. CASE PhoneForgets(p)
    <3>1. trust' \in [Phone -> [Attempt \cup {Old} -> Origin]]
      BY <2>6 DEF PhoneForgets, PhoneTypes, Origin
    <3> QED
      BY <2>6, <3>1 DEF PhoneForgets, WireTypes, PhoneTypes, wireVars
  <2> QED
    BY <2>1, <2>2, <2>3, <2>4, <2>5, <2>6
<1>3. HistoryTypes'
  <2>1. CASE PhoneConfirms(p)
    BY <2>1 DEF PhoneConfirms, HistoryTypes
  <2>2. CASE PhoneKilled(p) \/ PhoneForgets(p)
    BY <2>2, PairingAssumption
    DEF PhoneKilled, PhoneForgets, Happens, Counted, HistoryTypes
  <2>3. CASE PhoneStep(p) \/ PhoneRejects(p)
    BY <2>3 DEF PhoneReadsRequest, PhoneReadsProof, Complete, PersistPeer,
       PhoneGivesUp, PhoneRejects, HistoryTypes, historyVars
  <2> QED
    BY <2>1, <2>2, <2>3
<1> QED
  BY <1>1, <1>2, <1>3 DEF TypeOK, StoreAndDaemonTypes, HostTypes,
     WireTypes, PhoneTypes, HistoryTypes

(* Every step, by who takes it.                                            *)
LEMMA WhoSteps ==
  Next <=> \/ \E t \in Attempt, p \in Phone : Connect(t, p)
           \/ \E t \in Attempt : HostStep(t) \/ Cut(t)
           \/ DaemonStep
           \/ \E p \in Phone : OnPhone(p)
BY DEF Next, OnPhone

LEMMA NextTypes == TypeOK /\ [Next]_vars => TypeOK'
<1> SUFFICES ASSUME TypeOK, [Next]_vars PROVE TypeOK'
  OBVIOUS
<1>1. CASE UNCHANGED vars
  BY <1>1 DEF vars, storeVars, daemonVars, hostVars, wireVars, phoneVars,
     historyVars, TypeOK, StoreTypeOK
<1>2. CASE Next
  BY <1>2, WhoSteps, ConnectTypes, HostStepTypes, DaemonStepTypes, OnPhoneTypes
<1> QED
  BY <1>1, <1>2

(* The states of the model are well formed.                                *)
THEOREM PairingTypes == Spec => []TypeOK
BY InitTypes, NextTypes, PTL DEF Spec

-----------------------------------------------------------------------------
(* The inductive invariant *)

(* The exchanges both users agreed to.                                     *)
Agreed == {t \in Attempt : confirmed[t] = {"host", "phone"}}

AfterComplete == {"trust", "saveTrust", "refresh", "assign", "paired"}

(* What the host knows: it goes on only after its own user's yes, and      *)
(* after PAIR_COMPLETE both users have agreed.                             *)
HostSide ==
    \A t \in Attempt :
        /\ pc[t] \in {"complete"} \cup AfterComplete => "host" \in confirmed[t]
        /\ pc[t] \in AfterComplete => t \in Agreed
        /\ Holds(toHost[t], "complete") => t \in Agreed

(* What the phone knows: the proof comes from a host whose user agreed,    *)
(* and a yes belongs to the exchange on the active socket.                 *)
PhoneSide ==
    /\ \A t \in Attempt : Holds(toPhone[t], "proof") => "host" \in confirmed[t]
    /\ \A p \in Phone :
          /\ phonePc[p] \in {"await", "persist"} => "host" \in confirmed[socket[p]]
          /\ verdict[p] = "yes" => socket[p] # None /\ "phone" \in confirmed[socket[p]]
          /\ phonePc[p] = "persist" => socket[p] \in Agreed

(* Data that Open accepts, with the secrets of exchanges in A only.        *)
Fine(d, A) ==
    /\ Valid(d)
    /\ \A p \in Phone : d.devices[p] \in Attempt => d.devices[p] \in A

Sound(f, A) == f.whole /\ f.synced /\ Fine(f.data, A)

StoreSide ==
    /\ Sound(file, Agreed)
    /\ Sound(stable, Agreed)
    /\ \A s \in Saver : /\ temp[s] # None => Sound(temp[s], Agreed)
                        /\ Fine(store[s], Agreed)
    /\ \A p \in Phone, k \in Attempt \cup {Old} :
          trust[p][k] \in Attempt => trust[p][k] \in Agreed

PairingInv == TypeOK /\ HostSide /\ PhoneSide /\ StoreSide

LEMMA InitInv == Init => PairingInv
<1> SUFFICES ASSUME Init PROVE PairingInv
  OBVIOUS
<1>1. HostSide /\ PhoneSide
  BY NothingHeld DEF Init, HostSide, PhoneSide, AfterComplete
<1>2. StoreSide
  <2>1. PICK d \in InitData :
          /\ file = [data |-> d, whole |-> TRUE, synced |-> TRUE]
          /\ stable = file
          /\ temp = [s \in Saver |-> None]
          /\ store = [s \in Saver |-> IF s = Daemon THEN d ELSE NoData]
          /\ trust = [p \in Phone |-> [k \in Attempt \cup {Old} |->
                         IF k = Old /\ p \in Paired(d) THEN Old ELSE None]]
    BY DEF Init
  <2>2. \A p \in Phone : d.devices[p] \notin Attempt
    BY StoreAssumption DEF InitData, NoData
  <2>3. Fine(d, Agreed) /\ Fine(NoData, Agreed)
    <3>1. Valid(NoData) /\ \A p \in Phone : NoData.devices[p] \notin Attempt
      BY StoreAssumption DEF Valid, NoData, Paired
    <3> QED
      BY <2>2, <3>1, InitDataIsData DEF Fine
  <2>4. \A p \in Phone, k \in Attempt \cup {Old} : trust[p][k] \notin Attempt
    BY <2>1, StoreAssumption
  <2> HIDE DEF Fine
  <2>5. Sound(file, Agreed) /\ Sound(stable, Agreed)
    BY <2>1, <2>3 DEF Sound
  <2> QED
    BY <2>1, <2>3, <2>4, <2>5 DEF StoreSide
<1> QED
  BY <1>1, <1>2, InitTypes DEF PairingInv

(* Nobody takes a confirmation back.                                       *)
LEMMA ConsentStays ==
  ASSUME TypeOK, [Next]_vars
  PROVE  /\ \A t \in Attempt : confirmed[t] \subseteq confirmed'[t]
         /\ Agreed \subseteq Agreed'
<1>1. confirmed \in [Attempt -> SUBSET {"host", "phone"}]
  BY DEF TypeOK
<1>2. confirmed' \in [Attempt -> SUBSET {"host", "phone"}]
  BY NextTypes DEF TypeOK
<1>3. \/ confirmed' = confirmed
      \/ \E t \in Attempt, side \in {"host", "phone"} :
            confirmed' = [confirmed EXCEPT ![t] = @ \cup {side}]
  <2>1. CASE UNCHANGED vars
    BY <2>1 DEF vars, historyVars
  <2>2. CASE \E t \in Attempt, p \in Phone : Connect(t, p)
    BY <2>2 DEF Connect
  <2>3. ASSUME NEW t \in Attempt, HostStep(t) \/ Cut(t)
        PROVE  \/ confirmed' = confirmed
               \/ confirmed' = [confirmed EXCEPT ![t] = @ \cup {"host"}]
    BY <2>3 DEF HostStep, LoadIdentity, SendRequest, ReadChallenge, HostConfirms,
       HostRejects, ReadComplete, HostGivesUp, OpenForTrust, AttemptWrites,
       AttemptReplaces, AttemptSaveFails, OpenRefreshed, Refresh, Cut, historyVars
  <2>4. CASE DaemonStep
    BY <2>4 DEF DaemonStep, SetSetting, SetFilters, HostForgets, BeginSave,
       DaemonWrites, DaemonReplaces, DaemonSaveFails, DaemonKilled, PowerLoss,
       Halt, Restart, WrittenBack, historyVars
  <2>5. ASSUME NEW p \in Phone, OnPhone(p)
        PROVE  \/ confirmed' = confirmed
               \/ \E t \in Attempt, side \in {"host", "phone"} :
                     confirmed' = [confirmed EXCEPT ![t] = @ \cup {side}]
    <3>1. CASE PhoneConfirms(p)
      <4>1. socket[p] \in Attempt
        BY <3>1 DEF PhoneConfirms, Asked, TypeOK
      <4> QED
        BY <3>1, <4>1 DEF PhoneConfirms
    <3>2. CASE ~PhoneConfirms(p)
      BY <2>5, <3>2 DEF OnPhone, PhoneStep, UserStep, PhoneReadsRequest,
         PhoneReadsProof, Complete, PersistPeer, PhoneGivesUp, PhoneRejects,
         PhoneKilled, PhoneForgets, historyVars
    <3> QED
      BY <3>1, <3>2
  <2> QED
    BY <2>1, <2>2, <2>3, <2>4, <2>5, WhoSteps
<1>4. \A t \in Attempt : confirmed[t] \subseteq confirmed'[t]
  BY <1>1, <1>3
<1> QED
  BY <1>1, <1>2, <1>4 DEF Agreed

-----------------------------------------------------------------------------
(* The host's part of the invariant *)

(* The steps that neither move a handler past its guards nor send to it.   *)
LEMMA HostSideStays ==
  ASSUME HostSide, TypeOK, [Next]_vars,
         \A t \in Attempt :
            /\ pc'[t] # pc[t] => pc'[t] \notin {"complete"} \cup AfterComplete
            /\ Holds(toHost'[t], "complete") => Holds(toHost[t], "complete")
  PROVE  HostSide'
<1> SUFFICES ASSUME NEW t \in Attempt
             PROVE  /\ pc'[t] \in {"complete"} \cup AfterComplete => "host" \in confirmed'[t]
                    /\ pc'[t] \in AfterComplete => t \in Agreed'
                    /\ Holds(toHost'[t], "complete") => t \in Agreed'
  BY DEF HostSide
<1> QED
  BY ConsentStays DEF HostSide

LEMMA HostStepHostSide ==
  ASSUME HostSide, TypeOK, NEW t \in Attempt, HostStep(t) \/ Cut(t)
  PROVE  HostSide'
<1>0. /\ [Next]_vars
      /\ pc \in [Attempt -> HostPc]
      /\ toHost \in [Attempt -> Seq({"challenge", "complete"})]
  BY WhoSteps DEF TypeOK
<1>1. ASSUME toHost' \in {toHost, [toHost EXCEPT ![t] = <<>>]},
             NEW place, pc' = [pc EXCEPT ![t] = place],
             place \notin {"complete"} \cup AfterComplete
      PROVE  HostSide'
  BY <1>0, <1>1, HostSideStays, NothingHeld
<1>2. ASSUME GiveUp(t) PROVE HostSide'
  BY <1>1, <1>2 DEF GiveUp, Goto, AfterComplete
<1>3. ASSUME UNCHANGED toHost, NEW place, pc' = [pc EXCEPT ![t] = place],
             pc[t] \in AfterComplete
      PROVE  HostSide'
  <2>1. t \in Agreed /\ "host" \in confirmed[t]
    BY <1>3 DEF HostSide
  <2>2. t \in Agreed' /\ "host" \in confirmed'[t] /\ Agreed \subseteq Agreed'
    BY <1>0, <2>1, ConsentStays
  <2> QED
    BY <1>0, <1>3, <2>2, ConsentStays DEF HostSide
<1>4. CASE LoadIdentity(t)
  BY <1>1, <1>4 DEF LoadIdentity, Goto, wireVars, AfterComplete
<1>5. CASE SendRequest(t)
  BY <1>1, <1>2, <1>5 DEF SendRequest, Goto, AfterComplete
<1>6. CASE ReadChallenge(t)
  <2>1. \A u \in Attempt : Holds(toHost'[u], "complete") => Holds(toHost[u], "complete")
    BY <1>0, <1>6, Received DEF ReadChallenge
  <2>2. pc' = [pc EXCEPT ![t] = "ask"]
    BY <1>6 DEF ReadChallenge, Goto
  <2> QED
    BY <1>0, <2>1, <2>2, HostSideStays DEF AfterComplete
<1>7. CASE HostConfirms(t)
  <2>1. confirmed' = [confirmed EXCEPT ![t] = @ \cup {"host"}]
    BY <1>7 DEF HostConfirms
  <2>2. CASE UNCHANGED toHost /\ Goto(t, "complete")
    <3>1. "host" \in confirmed'[t]
      BY <2>1 DEF TypeOK
    <3> QED
      BY <1>0, <2>2, <3>1, ConsentStays DEF HostSide, Goto, AfterComplete
  <2>3. CASE GiveUp(t)
    BY <1>2, <2>3
  <2> QED
    BY <1>7, <2>2, <2>3 DEF HostConfirms
<1>8. CASE HostRejects(t) \/ HostGivesUp(t) \/ AttemptSaveFails(t)
  BY <1>2, <1>8 DEF HostRejects, HostGivesUp, AttemptSaveFails
<1>9. CASE ReadComplete(t)
  <2>1. Holds(toHost[t], "complete")
    BY <1>0, <1>9, Received DEF ReadComplete
  <2>2. pc[t] = "complete" /\ pc' = [pc EXCEPT ![t] = "trust"]
    BY <1>9 DEF ReadComplete, Goto
  <2>3. t \in Agreed' /\ "host" \in confirmed'[t]
    BY <1>0, <2>1, <2>2, ConsentStays DEF HostSide
  <2>4. \A u \in Attempt : Holds(toHost'[u], "complete") => Holds(toHost[u], "complete")
    BY <1>0, <1>9, Received DEF ReadComplete
  <2> QED
    BY <1>0, <2>2, <2>3, <2>4, ConsentStays DEF HostSide
<1>10. CASE OpenForTrust(t)
  BY <1>3, <1>10 DEF OpenForTrust, Goto, wireVars, AfterComplete
<1>11. CASE AttemptWrites(t)
  BY <1>0, <1>11, HostSideStays DEF AttemptWrites, hostVars, wireVars
<1>12. CASE AttemptReplaces(t)
  <2>1. CASE pc[t] = "saveTrust"
    BY <1>3, <1>12, <2>1 DEF AttemptReplaces, Goto, wireVars, AfterComplete
  <2>2. CASE pc[t] # "saveTrust"
    BY <1>1, <1>12, <2>2 DEF AttemptReplaces, Goto, wireVars, AfterComplete
  <2> QED
    BY <2>1, <2>2
<1>13. CASE OpenRefreshed(t) \/ Refresh(t)
  BY <1>3, <1>13 DEF OpenRefreshed, Refresh, Goto, AfterComplete
<1>14. CASE Cut(t)
  <2>1. UNCHANGED pc /\ toHost' \in {toHost, [toHost EXCEPT ![t] = <<>>]}
    BY <1>14 DEF Cut, hostVars
  <2> QED
    BY <1>0, <2>1, HostSideStays, NothingHeld
<1> QED
  BY <1>4, <1>5, <1>6, <1>7, <1>8, <1>9, <1>10, <1>11, <1>12, <1>13, <1>14
  DEF HostStep

LEMMA OthersHostSide ==
  ASSUME HostSide, TypeOK, DaemonStep \/ \E t \in Attempt, p \in Phone : Connect(t, p)
  PROVE  HostSide'
<1>0. [Next]_vars /\ pc \in [Attempt -> HostPc]
  BY WhoSteps DEF TypeOK
<1>1. CASE DaemonStep /\ ~Halt
  <2>1. UNCHANGED <<pc, toHost>>
    BY <1>1 DEF DaemonStep, SetSetting, SetFilters, HostForgets, BeginSave,
       DaemonWrites, DaemonReplaces, DaemonSaveFails, DaemonKilled, PowerLoss,
       Restart, WrittenBack, hostVars, wireVars
  <2> QED
    BY <1>0, <2>1, HostSideStays
<1>2. CASE DaemonStep /\ Halt
  <2>1. /\ toHost' = [t \in Attempt |-> <<>>]
        /\ pc' = [t \in Attempt |-> IF pc[t] \in {"idle", "paired"} THEN pc[t]
                                    ELSE "failed"]
    BY <1>2 DEF Halt
  <2> QED
    BY <1>0, <2>1, HostSideStays, NothingHeld DEF AfterComplete
<1>3. ASSUME NEW t \in Attempt, NEW p \in Phone, Connect(t, p) PROVE HostSide'
  <2>1. UNCHANGED toHost /\ pc' = [pc EXCEPT ![t] = "identity"]
    BY <1>3 DEF Connect, Goto
  <2> QED
    BY <1>0, <2>1, HostSideStays DEF AfterComplete
<1> QED
  BY <1>1, <1>2, <1>3

LEMMA AnswerHolds ==
  ASSUME toHost \in [Attempt -> Seq({"challenge", "complete"})],
         NEW p \in Phone, socket[p] \in Attempt,
         NEW frame \in {"challenge", "complete"}, Answer(p, frame),
         NEW u \in Attempt, Holds(toHost'[u], "complete")
  PROVE  \/ Holds(toHost[u], "complete")
         \/ u = socket[p] /\ frame = "complete"
<1>1. CASE UNCHANGED toHost
  BY <1>1
<1>2. CASE toHost' = Send(toHost, socket[p], <<frame>>)
  <2>1. Holds(Send(toHost, socket[p], <<frame>>)[u], "complete")
    BY <1>2
  <2>2. \A v \in Attempt : \A y :
           Holds(Send(toHost, socket[p], <<frame>>)[v], y) =>
               Holds(toHost[v], y) \/ (v = socket[p] /\ y = frame)
    <3> DEFINE S == {"challenge", "complete"}
    <3>1. toHost \in [Attempt -> Seq(S)] /\ frame \in S /\ socket[p] \in Attempt
      OBVIOUS
    <3> HIDE DEF S
    <3> QED
      BY <3>1, Sent
  <2> QED
    BY <2>1, <2>2
<1> QED
  BY <1>1, <1>2 DEF Answer

LEMMA OnPhoneHostSide ==
  ASSUME HostSide, PhoneSide, TypeOK, NEW p \in Phone, OnPhone(p)
  PROVE  HostSide'
<1>0. /\ [Next]_vars
      /\ toHost \in [Attempt -> Seq({"challenge", "complete"})]
      /\ socket[p] \in Attempt \cup {None}
      /\ confirmed \in [Attempt -> SUBSET {"host", "phone"}]
  BY WhoSteps DEF TypeOK
<1>1. UNCHANGED pc
  BY DEF OnPhone, PhoneStep, UserStep, PhoneReadsRequest, PhoneReadsProof, Complete,
     PersistPeer, PhoneGivesUp, PhoneConfirms, PhoneRejects, PhoneKilled,
     PhoneForgets, hostVars
<1>2. CASE PhoneReadsRequest(p)
  <2>1. socket[p] \in Attempt /\ Answer(p, "challenge")
    BY <1>0, <1>2 DEF PhoneReadsRequest, Incoming
  <2>2. \A u \in Attempt : Holds(toHost'[u], "complete") => Holds(toHost[u], "complete")
    BY <1>0, <2>1, AnswerHolds
  <2> QED
    BY <1>0, <1>1, <2>2, HostSideStays
<1>3. CASE Complete(p)
  <2>1. phonePc[p] = "await" /\ verdict[p] = "yes" /\ Answer(p, "complete")
    BY <1>3 DEF Complete
  <2>2. /\ socket[p] \in Attempt
        /\ "host" \in confirmed[socket[p]] /\ "phone" \in confirmed[socket[p]]
    BY <1>0, <2>1 DEF PhoneSide
  <2>3. socket[p] \in Agreed
    BY <1>0, <2>2 DEF Agreed
  <2>4. \A u \in Attempt : Holds(toHost'[u], "complete") =>
                               Holds(toHost[u], "complete") \/ u = socket[p]
    BY <1>0, <2>1, <2>2, AnswerHolds
  <2> QED
    BY <1>0, <1>1, <2>3, <2>4, ConsentStays DEF HostSide
<1>4. CASE ~PhoneReadsRequest(p) /\ ~Complete(p)
  <2>1. UNCHANGED toHost
    BY <1>4 DEF OnPhone, PhoneStep, UserStep, PhoneReadsProof,
       PersistPeer, PhoneGivesUp, PhoneConfirms, PhoneRejects, PhoneKilled,
       PhoneForgets, wireVars
  <2> QED
    BY <1>0, <1>1, <2>1, HostSideStays
<1> QED
  BY <1>2, <1>3, <1>4

-----------------------------------------------------------------------------
(* The phone's part of the invariant *)

LEMMA SentToPhone ==
  ASSUME toPhone \in [Attempt -> Seq({"request", "proof", "cancel"})],
         NEW t \in Attempt, NEW type \in {"request", "proof", "cancel"},
         toPhone' = Send(toPhone, t, <<type>>),
         NEW u \in Attempt, Holds(toPhone'[u], "proof")
  PROVE  \/ Holds(toPhone[u], "proof")
         \/ u = t /\ type = "proof"
<1>1. Holds(Send(toPhone, t, <<type>>)[u], "proof")
  OBVIOUS
<1>2. \A v \in Attempt : \A y :
         Holds(Send(toPhone, t, <<type>>)[v], y) =>
             Holds(toPhone[v], y) \/ (v = t /\ y = type)
  <2> DEFINE S == {"request", "proof", "cancel"}
  <2>1. toPhone \in [Attempt -> Seq(S)] /\ type \in S
    OBVIOUS
  <2> HIDE DEF S
  <2> QED
    BY <2>1, Sent
<1> QED
  BY <1>1, <1>2

(* What a phone takes from its channel was there.                          *)
LEMMA TakenByPhone ==
  ASSUME TypeOK, NEW p \in Phone, NEW type, Incoming(p, type)
  PROVE  /\ socket[p] \in Attempt
         /\ Holds(toPhone[socket[p]], type)
         /\ Take(p) => \A u \in Attempt : Holds(toPhone'[u], "proof") =>
                                              Holds(toPhone[u], "proof")
<1> DEFINE S == {"request", "proof", "cancel"}
<1>1. /\ toPhone \in [Attempt -> Seq(S)]
      /\ socket[p] \in Attempt
      /\ toPhone[socket[p]] # <<>>
      /\ Head(toPhone[socket[p]]) = type
  BY DEF TypeOK, Incoming
<1> HIDE DEF S
<1>2. /\ Holds(toPhone[socket[p]], Head(toPhone[socket[p]]))
      /\ \A u \in Attempt : \A y : Holds(Receive(toPhone, socket[p])[u], y) =>
                                   Holds(toPhone[u], y)
  BY <1>1, Received
<1> QED
  BY <1>1, <1>2 DEF Take

(* Steps that send no proof and move no phone.                             *)
LEMMA PhoneSideStays ==
  ASSUME PhoneSide, TypeOK, [Next]_vars,
         UNCHANGED <<phonePc, socket, verdict>>,
         \A t \in Attempt : Holds(toPhone'[t], "proof") =>
             Holds(toPhone[t], "proof") \/ "host" \in confirmed'[t]
  PROVE  PhoneSide'
<1>1. /\ \A t \in Attempt : confirmed[t] \subseteq confirmed'[t]
      /\ Agreed \subseteq Agreed'
  BY ConsentStays
<1>2. \A p \in Phone : phonePc[p] \in {"await", "persist"} \/ verdict[p] = "yes" =>
                           socket[p] \in Attempt
  BY DEF TypeOK, PhoneSide
<1> QED
  BY <1>1, <1>2 DEF PhoneSide

LEMMA HostStepPhoneSide ==
  ASSUME PhoneSide, TypeOK, NEW t \in Attempt, HostStep(t) \/ Cut(t)
  PROVE  PhoneSide'
<1>0. /\ [Next]_vars
      /\ toPhone \in [Attempt -> Seq({"request", "proof", "cancel"})]
      /\ confirmed \in [Attempt -> SUBSET {"host", "phone"}]
  BY WhoSteps DEF TypeOK
<1>1. UNCHANGED <<phonePc, socket, verdict>>
  BY DEF HostStep, LoadIdentity, SendRequest, ReadChallenge, HostConfirms,
     HostRejects, ReadComplete, HostGivesUp, OpenForTrust, AttemptWrites,
     AttemptReplaces, AttemptSaveFails, OpenRefreshed, Refresh, Cut, phoneVars
<1>2. ASSUME toPhone' = Send(toPhone, t, <<"request">>)
             \/ toPhone' = Send(toPhone, t, <<"cancel">>)
      PROVE  PhoneSide'
  <2>1. \A u \in Attempt : Holds(toPhone'[u], "proof") => Holds(toPhone[u], "proof")
    BY <1>0, <1>2, SentToPhone
  <2> QED
    BY <1>0, <1>1, <2>1, PhoneSideStays
<1>3. ASSUME UNCHANGED toPhone PROVE PhoneSide'
  BY <1>0, <1>1, <1>3, PhoneSideStays
<1>4. CASE SendRequest(t) \/ HostRejects(t)
  BY <1>2, <1>3, <1>4 DEF SendRequest, HostRejects
<1>5. CASE HostConfirms(t)
  <2>1. "host" \in confirmed'[t]
    BY <1>0, <1>5 DEF HostConfirms
  <2>2. CASE toPhone' = Send(toPhone, t, <<"proof">>)
    <3>1. \A u \in Attempt : Holds(toPhone'[u], "proof") =>
                                 Holds(toPhone[u], "proof") \/ u = t
      BY <1>0, <2>2, SentToPhone
    <3> QED
      BY <1>0, <1>1, <2>1, <3>1, PhoneSideStays
  <2> QED
    BY <1>3, <1>5, <2>2 DEF HostConfirms
<1>6. CASE Cut(t)
  <2>1. toPhone' \in {toPhone, [toPhone EXCEPT ![t] = <<>>]}
    BY <1>6 DEF Cut
  <2>2. \A u \in Attempt : Holds(toPhone'[u], "proof") => Holds(toPhone[u], "proof")
    BY <1>0, <2>1, NothingHeld
  <2> QED
    BY <1>0, <1>1, <2>2, PhoneSideStays
<1>7. CASE \/ LoadIdentity(t) \/ ReadChallenge(t) \/ ReadComplete(t) \/ HostGivesUp(t)
           \/ OpenForTrust(t) \/ AttemptWrites(t) \/ AttemptReplaces(t)
           \/ AttemptSaveFails(t) \/ OpenRefreshed(t) \/ Refresh(t)
  <2>1. UNCHANGED toPhone
    BY <1>7 DEF LoadIdentity, ReadChallenge, ReadComplete, HostGivesUp, OpenForTrust,
       AttemptWrites, AttemptReplaces, AttemptSaveFails, OpenRefreshed, Refresh, wireVars
  <2> QED
    BY <1>3, <2>1
<1> QED
  BY <1>4, <1>5, <1>6, <1>7 DEF HostStep

LEMMA OthersPhoneSide ==
  ASSUME PhoneSide, TypeOK, DaemonStep \/ \E t \in Attempt, p \in Phone : Connect(t, p)
  PROVE  PhoneSide'
<1>0. /\ [Next]_vars
      /\ phonePc \in [Phone -> PhonePc]
      /\ socket \in [Phone -> Attempt \cup {None}]
  BY WhoSteps DEF TypeOK
<1>1. CASE DaemonStep
  <2>1. UNCHANGED <<toPhone, phonePc, socket, verdict>>
    BY <1>1 DEF DaemonStep, SetSetting, SetFilters, HostForgets, BeginSave,
       DaemonWrites, DaemonReplaces, DaemonSaveFails, DaemonKilled, PowerLoss,
       Halt, Restart, WrittenBack, wireVars, phoneVars
  <2> QED
    BY <1>0, <2>1, PhoneSideStays
<1>2. ASSUME NEW t \in Attempt, NEW p \in Phone, Connect(t, p) PROVE PhoneSide'
  <2>1. UNCHANGED <<toPhone, verdict, confirmed>>
    BY <1>2 DEF Connect
  <2>2. Agreed' = Agreed
    BY <2>1 DEF Agreed
  <2>3. CASE UNCHANGED <<socket, phonePc>>
    BY <1>0, <2>1, <2>3, PhoneSideStays
  <2>4. CASE /\ socket[p] = None
             /\ socket' = [socket EXCEPT ![p] = t]
             /\ phonePc' = [phonePc EXCEPT ![p] = "request"]
    BY <1>0, <2>1, <2>2, <2>4 DEF PhoneSide
  <2> QED
    BY <1>2, <2>3, <2>4 DEF Connect
<1> QED
  BY <1>1, <1>2

LEMMA OnPhonePhoneSide ==
  ASSUME PhoneSide, TypeOK, NEW p \in Phone, OnPhone(p)
  PROVE  PhoneSide'
<1>0. /\ [Next]_vars
      /\ toPhone \in [Attempt -> Seq({"request", "proof", "cancel"})]
      /\ phonePc \in [Phone -> PhonePc]
      /\ socket \in [Phone -> Attempt \cup {None}]
      /\ \A q \in Phone : socket[q] = None <=> phonePc[q] = "idle"
      /\ verdict \in [Phone -> {"none", "yes", "no"}]
      /\ confirmed \in [Attempt -> SUBSET {"host", "phone"}]
  BY WhoSteps DEF TypeOK
<1>1. ASSUME Release(p), UNCHANGED confirmed PROVE PhoneSide'
  <2>1. /\ phonePc' = [phonePc EXCEPT ![p] = "idle"]
        /\ socket' = [socket EXCEPT ![p] = None]
        /\ verdict' = [verdict EXCEPT ![p] = "none"]
        /\ toPhone' = [t \in Attempt |-> IF t = socket[p] THEN <<>> ELSE toPhone[t]]
    BY <1>1 DEF Release
  <2>2. \A t \in Attempt : Holds(toPhone'[t], "proof") => Holds(toPhone[t], "proof")
    BY <2>1, NothingHeld
  <2>3. Agreed' = Agreed
    BY <1>1 DEF Agreed
  <2> QED
    BY <1>0, <1>1, <2>1, <2>2, <2>3 DEF PhoneSide
<1>2. CASE PersistPeer(p) \/ PhoneGivesUp(p) \/ PhoneKilled(p)
  BY <1>1, <1>2 DEF PersistPeer, PhoneGivesUp, PhoneKilled, historyVars
<1>3. CASE PhoneReadsRequest(p)
  <2>1. /\ Incoming(p, "request") /\ Take(p)
        /\ phonePc' = [phonePc EXCEPT ![p] = "proof"]
        /\ UNCHANGED <<socket, verdict, confirmed>>
    BY <1>3 DEF PhoneReadsRequest, historyVars
  <2>2. \A t \in Attempt : Holds(toPhone'[t], "proof") => Holds(toPhone[t], "proof")
    BY <2>1, TakenByPhone
  <2>3. Agreed' = Agreed
    BY <2>1 DEF Agreed
  <2> QED
    BY <1>0, <2>1, <2>2, <2>3 DEF PhoneSide
<1>4. CASE PhoneReadsProof(p)
  <2>1. /\ Incoming(p, "proof") /\ Take(p)
        /\ phonePc' = [phonePc EXCEPT ![p] = "await"]
        /\ UNCHANGED <<socket, verdict, confirmed>>
    BY <1>4 DEF PhoneReadsProof, historyVars
  <2>2. \A t \in Attempt : Holds(toPhone'[t], "proof") => Holds(toPhone[t], "proof")
    BY <2>1, TakenByPhone
  <2>3. socket[p] \in Attempt /\ Holds(toPhone[socket[p]], "proof")
    BY <2>1, TakenByPhone
  <2>4. "host" \in confirmed[socket[p]]
    BY <2>3 DEF PhoneSide
  <2>5. Agreed' = Agreed
    BY <2>1 DEF Agreed
  <2> QED
    BY <1>0, <2>1, <2>2, <2>4, <2>5 DEF PhoneSide
<1>5. CASE Complete(p)
  <2>1. /\ phonePc[p] = "await" /\ verdict[p] = "yes"
        /\ phonePc' = [phonePc EXCEPT ![p] = "persist"]
        /\ UNCHANGED <<toPhone, socket, verdict, confirmed>>
    BY <1>5 DEF Complete, historyVars
  <2>2. /\ socket[p] \in Attempt
        /\ "host" \in confirmed[socket[p]] /\ "phone" \in confirmed[socket[p]]
    BY <1>0, <2>1 DEF PhoneSide
  <2>3. socket[p] \in Agreed
    BY <1>0, <2>2 DEF Agreed
  <2>4. Agreed' = Agreed
    BY <2>1 DEF Agreed
  <2> QED
    BY <1>0, <2>1, <2>2, <2>3, <2>4 DEF PhoneSide
<1>6. CASE PhoneConfirms(p)
  <2>1. /\ phonePc[p] \in {"proof", "await", "persist"}
        /\ verdict' = [verdict EXCEPT ![p] = "yes"]
        /\ confirmed' = [confirmed EXCEPT ![socket[p]] = @ \cup {"phone"}]
        /\ UNCHANGED <<toPhone, phonePc, socket>>
    BY <1>6 DEF PhoneConfirms, Asked, wireVars
  <2>2. socket[p] \in Attempt /\ "phone" \in confirmed'[socket[p]]
    BY <1>0, <2>1
  <2>3. /\ \A t \in Attempt : confirmed[t] \subseteq confirmed'[t]
        /\ Agreed \subseteq Agreed'
    BY <1>0, ConsentStays
  <2>4. \A q \in Phone : phonePc[q] \in {"await", "persist"} \/ verdict[q] = "yes" =>
                             socket[q] \in Attempt
    BY <1>0 DEF PhoneSide
  <2> QED
    BY <1>0, <2>1, <2>2, <2>3, <2>4 DEF PhoneSide
<1>7. CASE PhoneRejects(p)
  <2>1. /\ verdict' = [verdict EXCEPT ![p] = "no"]
        /\ UNCHANGED <<toPhone, phonePc, socket, confirmed>>
    BY <1>7 DEF PhoneRejects, historyVars
  <2>2. Agreed' = Agreed
    BY <2>1 DEF Agreed
  <2> QED
    BY <1>0, <2>1, <2>2 DEF PhoneSide
<1>8. CASE PhoneForgets(p)
  <2>1. UNCHANGED <<toPhone, phonePc, socket, verdict>>
    BY <1>8 DEF PhoneForgets, wireVars
  <2> QED
    BY <1>0, <2>1, PhoneSideStays
<1> QED
  BY <1>2, <1>3, <1>4, <1>5, <1>6, <1>7, <1>8 DEF OnPhone, PhoneStep, UserStep

-----------------------------------------------------------------------------
(* The part of the invariant about what is stored *)

LEMMA NoDataIsFine == \A A : Fine(NoData, A)
<1>1. Valid(NoData)
  BY NoDataIsData DEF Valid, NoData, Paired
<1>2. \A p \in Phone : NoData.devices[p] \notin Attempt
  BY StoreAssumption DEF NoData
<1> QED
  BY <1>1, <1>2 DEF Fine

LEMMA FineGrows ==
  ASSUME NEW A, NEW B, A \subseteq B
  PROVE  /\ \A d : Fine(d, A) => Fine(d, B)
         /\ \A f : Sound(f, A) => Sound(f, B)
BY DEF Fine, Sound

(* No setter makes data that Open refuses, or brings in a secret: only     *)
(* UpsertDevice does, for the exchange it is called for.                   *)
LEMMA SettersKeepFine ==
  ASSUME NEW A, NEW d \in Data, Fine(d, A)
  PROVE  /\ \A k : Fine(SetIdentity(d, k), A)
         /\ \A p : \A t \in A \cap Attempt : Fine(UpsertDevice(d, p, t), A)
         /\ \A p : Fine(RemoveDevice(d, p), A)
         /\ \A s, on : \A p \in Paired(d) : Fine(Set(d, s, p, on), A)
<1> USE DEF Fine, Valid, Paired
<1>0. d \in Data
  OBVIOUS
<1>1. ASSUME NEW k PROVE Fine(SetIdentity(d, k), A)
  BY DEF SetIdentity, Data
<1>2. ASSUME NEW p, NEW t \in A \cap Attempt PROVE Fine(UpsertDevice(d, p, t), A)
  <2> DEFINE e == UpsertDevice(d, p, t)
  <2>1. /\ e.settings = d.settings
        /\ \A q \in Phone : e.devices[q] = IF q = p THEN t ELSE d.devices[q]
    BY DEF UpsertDevice, Data
  <2>2. t # None
    BY StoreAssumption
  <2> HIDE DEF e
  <2>3. Fine(e, A)
    BY <2>1, <2>2
  <2> QED
    BY <2>3 DEF e
<1>3. ASSUME NEW p PROVE Fine(RemoveDevice(d, p), A)
  <2> DEFINE e == RemoveDevice(d, p)
  <2>1. /\ \A s \in Setting : e.settings[s] = d.settings[s] \ {p}
        /\ \A q \in Phone : e.devices[q] = IF q = p THEN None ELSE d.devices[q]
    BY DEF RemoveDevice, Data
  <2> HIDE DEF e
  <2>2. Fine(e, A)
    BY <2>1, StoreAssumption
  <2> QED
    BY <2>2 DEF e
<1>4. ASSUME NEW s, NEW on, NEW p \in Paired(d) PROVE Fine(Set(d, s, p, on), A)
  <2> DEFINE e == Set(d, s, p, on)
  <2>1. /\ e.devices = d.devices
        /\ \A r \in Setting : e.settings[r] \subseteq d.settings[r] \cup {p}
    BY DEF Set, Data
  <2> HIDE DEF e
  <2>2. Fine(e, A)
    BY <2>1
  <2> QED
    BY <2>2 DEF e
<1> QED
  BY <1>1, <1>2, <1>3, <1>4

(* Steps that store nothing.                                               *)
LEMMA StoreSideStays ==
  ASSUME StoreSide, TypeOK, [Next]_vars, UNCHANGED <<storeVars, trust>>
  PROVE  StoreSide'
<1>1. Agreed \subseteq Agreed'
  BY ConsentStays
<1>2. /\ \A d : Fine(d, Agreed) => Fine(d, Agreed')
      /\ \A f : Sound(f, Agreed) => Sound(f, Agreed')
  BY <1>1, FineGrows
<1> QED
  BY <1>1, <1>2 DEF StoreSide, storeVars

(* Steps that change one Store.                                            *)
LEMMA StoreChanges ==
  ASSUME StoreSide, TypeOK, UNCHANGED <<file, stable, temp, trust, confirmed>>,
         NEW s \in Saver, NEW d, Fine(d, Agreed), store' = [store EXCEPT ![s] = d]
  PROVE  StoreSide'
<1>1. Agreed' = Agreed
  BY DEF Agreed
<1>2. store \in [Saver -> Data]
  BY DEF TypeOK, StoreTypeOK
<1> QED
  BY <1>1, <1>2 DEF StoreSide

(* The steps of a Save.                                                    *)
LEMMA SaverStoreSide ==
  ASSUME StoreSide, TypeOK, UNCHANGED <<trust, confirmed>>, NEW s \in Saver, SaverStep(s)
  PROVE  StoreSide'
<1>0. /\ Agreed' = Agreed
      /\ temp \in [Saver -> File \cup {None}]
      /\ store \in [Saver -> Data]
  BY DEF Agreed, TypeOK, StoreTypeOK
<1>1. /\ Dropped(s) \in [Saver -> Data]
      /\ \A r \in Saver : Fine(Dropped(s)[r], Agreed)
  BY <1>0, NoDataIsFine, NoDataIsData DEF Dropped, StoreSide
<1>2. CASE WriteTemporary(s)
  <2> DEFINE f == [data |-> store[s], whole |-> TRUE, synced |-> TRUE]
  <2>1. Sound(f, Agreed)
    BY DEF StoreSide, Sound
  <2>2. temp' = [temp EXCEPT ![s] = f] /\ UNCHANGED <<file, stable, store>>
    BY <1>2 DEF WriteTemporary
  <2> HIDE DEF f
  <2> QED
    BY <1>0, <2>1, <2>2 DEF StoreSide
<1>3. CASE Replace(s)
  <2>1. /\ file' = temp[s] /\ stable' = stable
        /\ temp' = [temp EXCEPT ![s] = None]
        /\ store' = Dropped(s)
    BY <1>3 DEF Replace
  <2>2. Sound(temp[s], Agreed)
    BY <1>3 DEF Replace, StoreSide
  <2> QED
    BY <1>0, <1>1, <2>1, <2>2 DEF StoreSide
<1>4. CASE Discard(s)
  <2>1. /\ UNCHANGED <<file, stable>>
        /\ temp' = [temp EXCEPT ![s] = None]
        /\ store' = Dropped(s)
    BY <1>4 DEF Discard
  <2> QED
    BY <1>0, <1>1, <2>1 DEF StoreSide
<1> QED
  BY <1>2, <1>3, <1>4 DEF SaverStep

LEMMA HostStepStoreSide ==
  ASSUME StoreSide, HostSide, TypeOK, NEW t \in Attempt, HostStep(t) \/ Cut(t)
  PROVE  StoreSide'
<1>0. /\ [Next]_vars
      /\ file.data \in Data /\ Fine(file.data, Agreed)
      /\ t \in Saver /\ Daemon \in Saver
  BY WhoSteps, FileData, AttemptIsSaver DEF TypeOK, StoreSide, Sound
<1>1. CASE LoadIdentity(t)
  <2>1. CASE store' = [store EXCEPT ![t] = SetIdentity(file.data, t)]
    <3>1. Fine(SetIdentity(file.data, t), Agreed)
      BY <1>0, SettersKeepFine
    <3> QED
      BY <1>0, <1>1, <2>1, <3>1, StoreChanges
      DEF LoadIdentity, phoneVars, historyVars
  <2>2. CASE UNCHANGED store
    BY <1>0, <1>1, <2>2, StoreSideStays DEF LoadIdentity, storeVars, phoneVars
  <2> QED
    BY <1>1, <2>1, <2>2 DEF LoadIdentity
<1>2. CASE OpenForTrust(t)
  <2>1. t \in Agreed \cap Attempt
    BY <1>2 DEF OpenForTrust, HostSide, AfterComplete
  <2>2. Fine(UpsertDevice(file.data, peer[t], t), Agreed)
    BY <1>0, <2>1, SettersKeepFine
  <2> QED
    BY <1>0, <1>2, <2>2, StoreChanges DEF OpenForTrust, phoneVars, historyVars
<1>3. CASE AttemptWrites(t) \/ AttemptReplaces(t) \/ AttemptSaveFails(t)
  <2>1. SaverStep(t) /\ UNCHANGED <<trust, confirmed>>
    BY <1>3 DEF SaverStep, AttemptWrites, AttemptReplaces, AttemptSaveFails,
       phoneVars, historyVars
  <2> QED
    BY <1>0, <2>1, SaverStoreSide
<1>4. CASE OpenRefreshed(t)
  <2>1. CASE store' = [store EXCEPT ![t] = file.data]
    BY <1>0, <1>4, <2>1, StoreChanges DEF OpenRefreshed, phoneVars
  <2>2. CASE UNCHANGED store
    BY <1>0, <1>4, <2>2, StoreSideStays DEF OpenRefreshed, storeVars, phoneVars
  <2> QED
    BY <1>4, <2>1, <2>2 DEF OpenRefreshed
<1>5. CASE Refresh(t)
  <2>1. /\ store' = [store EXCEPT ![Daemon] = store[t], ![t] = NoData]
        /\ UNCHANGED <<file, stable, temp, trust, confirmed>>
    BY <1>5 DEF Refresh, phoneVars, historyVars
  <2>2. Agreed' = Agreed
    BY <2>1 DEF Agreed
  <2>3. store \in [Saver -> Data]
    BY DEF TypeOK, StoreTypeOK
  <2> QED
    BY <1>0, <2>1, <2>2, <2>3, NoDataIsFine DEF StoreSide
<1>6. CASE \/ SendRequest(t) \/ ReadChallenge(t) \/ HostConfirms(t) \/ HostRejects(t)
           \/ ReadComplete(t) \/ HostGivesUp(t) \/ Cut(t)
  <2>1. UNCHANGED <<storeVars, trust>>
    BY <1>6 DEF SendRequest, ReadChallenge, HostConfirms, HostRejects, ReadComplete,
       HostGivesUp, Cut, phoneVars
  <2> QED
    BY <1>0, <2>1, StoreSideStays
<1> QED
  BY <1>1, <1>2, <1>3, <1>4, <1>5, <1>6 DEF HostStep

LEMMA DaemonStoreSide ==
  ASSUME StoreSide, TypeOK, DaemonStep
  PROVE  StoreSide'
<1>0. /\ [Next]_vars
      /\ store[Daemon] \in Data /\ Fine(store[Daemon], Agreed)
      /\ Daemon \in Saver
  BY WhoSteps, FileData, AttemptIsSaver DEF TypeOK, StoreSide
<1>1. ASSUME NEW d, Fine(d, Agreed), BeginSave(d) PROVE StoreSide'
  BY <1>0, <1>1, StoreChanges DEF BeginSave, phoneVars
<1>2. CASE \E s \in Setting, p \in Phone, on \in BOOLEAN : SetSetting(s, p, on)
  <2>1. \E s, on : \E p \in Paired(store[Daemon]) : BeginSave(Set(store[Daemon], s, p, on))
    BY <1>2 DEF SetSetting, MaySet
  <2> QED
    BY <1>0, <1>1, <2>1, SettersKeepFine
<1>3. CASE SetFilters
  BY <1>0, <1>1, <1>3 DEF SetFilters
<1>4. CASE \E p \in Phone : HostForgets(p)
  <2>1. \E p : BeginSave(RemoveDevice(store[Daemon], p))
    BY <1>4 DEF HostForgets
  <2> QED
    BY <1>0, <1>1, <2>1, SettersKeepFine
<1>5. CASE DaemonWrites \/ DaemonReplaces \/ DaemonSaveFails
  <2>1. SaverStep(Daemon) /\ UNCHANGED <<trust, confirmed>>
    BY <1>5 DEF SaverStep, DaemonWrites, DaemonReplaces, DaemonSaveFails,
       phoneVars, historyVars
  <2> QED
    BY <1>0, <2>1, SaverStoreSide
<1>6. CASE DaemonKilled \/ PowerLoss
  <2>1. /\ temp' = [s \in Saver |-> None]
        /\ store' = [s \in Saver |-> NoData]
        /\ UNCHANGED <<trust, confirmed>>
    BY <1>6 DEF DaemonKilled, PowerLoss, Halt, phoneVars
  <2>2. Agreed' = Agreed
    BY <2>1 DEF Agreed
  <2>3. \A f \in File : Sound(f, Agreed) => Sound(AfterPowerLoss(f), Agreed)
    BY DEF AfterPowerLoss, Sound, File
  <2>4. file \in File /\ stable \in File /\ Sound(file, Agreed) /\ Sound(stable, Agreed)
    BY DEF TypeOK, StoreTypeOK, StoreSide
  <2>5. Sound(file', Agreed) /\ Sound(stable', Agreed)
    BY <1>6, <2>3, <2>4 DEF DaemonKilled, PowerLoss
  <2> QED
    BY <2>1, <2>2, <2>5, NoDataIsFine DEF StoreSide
<1>7. CASE Restart
  <2>1. Fine(file.data, Agreed)
    BY DEF StoreSide, Sound
  <2> QED
    BY <1>0, <1>7, <2>1, StoreChanges DEF Restart, phoneVars, historyVars
<1>8. CASE WrittenBack
  <2>1. stable' = file /\ UNCHANGED <<file, temp, store, trust, confirmed>>
    BY <1>8 DEF WrittenBack, Writeback, phoneVars, historyVars
  <2>2. Agreed' = Agreed
    BY <2>1 DEF Agreed
  <2> QED
    BY <2>1, <2>2 DEF StoreSide
<1> QED
  BY <1>2, <1>3, <1>4, <1>5, <1>6, <1>7, <1>8 DEF DaemonStep

LEMMA OnPhoneStoreSide ==
  ASSUME StoreSide, PhoneSide, TypeOK, NEW p \in Phone, OnPhone(p)
  PROVE  StoreSide'
<1>0. /\ [Next]_vars
      /\ trust \in [Phone -> [Attempt \cup {Old} -> Origin]]
  BY WhoSteps DEF TypeOK
<1>1. UNCHANGED storeVars
  BY DEF OnPhone, PhoneStep, UserStep, PhoneReadsRequest, PhoneReadsProof, Complete,
     PersistPeer, PhoneGivesUp, PhoneConfirms, PhoneRejects, PhoneKilled, PhoneForgets
<1>2. CASE PersistPeer(p)
  <2>1. /\ trust' = [trust EXCEPT ![p][key[socket[p]]] = socket[p]]
        /\ UNCHANGED confirmed
        /\ socket[p] \in Agreed
    BY <1>2 DEF PersistPeer, historyVars, PhoneSide
  <2>2. Agreed' = Agreed
    BY <2>1 DEF Agreed
  <2>3. \A q \in Phone, k \in Attempt \cup {Old} :
           trust'[q][k] \in {trust[q][k], socket[p]}
    BY <1>0, <2>1
  <2> QED
    BY <1>1, <2>1, <2>2, <2>3 DEF StoreSide, storeVars
<1>3. CASE PhoneForgets(p)
  <2>1. /\ trust' = [trust EXCEPT ![p] = [k \in Attempt \cup {Old} |-> None]]
        /\ UNCHANGED confirmed
    BY <1>3 DEF PhoneForgets
  <2>2. Agreed' = Agreed
    BY <2>1 DEF Agreed
  <2>3. \A q \in Phone, k \in Attempt \cup {Old} : trust'[q][k] \in {trust[q][k], None}
    BY <1>0, <2>1
  <2> QED
    BY <1>1, <2>2, <2>3, StoreAssumption DEF StoreSide, storeVars
<1>4. CASE ~PersistPeer(p) /\ ~PhoneForgets(p)
  <2>1. UNCHANGED trust
    BY <1>4 DEF OnPhone, PhoneStep, UserStep, PhoneReadsRequest, PhoneReadsProof,
       Complete, PhoneGivesUp, PhoneConfirms, PhoneRejects, PhoneKilled
  <2> QED
    BY <1>0, <1>1, <2>1, StoreSideStays
<1> QED
  BY <1>2, <1>3, <1>4

-----------------------------------------------------------------------------
(* The theorems *)

LEMMA NextInv == PairingInv /\ [Next]_vars => PairingInv'
<1> SUFFICES ASSUME PairingInv, [Next]_vars PROVE PairingInv'
  OBVIOUS
<1>1. TypeOK /\ HostSide /\ PhoneSide /\ StoreSide
  BY DEF PairingInv
<1>2. TypeOK'
  BY <1>1, NextTypes
<1>3. CASE UNCHANGED vars
  <2>1. UNCHANGED <<storeVars, trust, pc, toHost, toPhone, phonePc, socket, verdict>>
    BY <1>3 DEF vars, hostVars, wireVars, phoneVars
  <2> QED
    BY <1>1, <1>2, <2>1, HostSideStays, PhoneSideStays, StoreSideStays DEF PairingInv
<1>4. ASSUME NEW t \in Attempt, NEW p \in Phone, Connect(t, p) PROVE PairingInv'
  <2>1. UNCHANGED <<storeVars, trust>>
    BY <1>4 DEF Connect
  <2> QED
    BY <1>1, <1>2, <1>4, <2>1, OthersHostSide, OthersPhoneSide, StoreSideStays
    DEF PairingInv
<1>5. ASSUME NEW t \in Attempt, HostStep(t) \/ Cut(t) PROVE PairingInv'
  BY <1>1, <1>2, <1>5, HostStepHostSide, HostStepPhoneSide, HostStepStoreSide
  DEF PairingInv
<1>6. CASE DaemonStep
  BY <1>1, <1>2, <1>6, OthersHostSide, OthersPhoneSide, DaemonStoreSide DEF PairingInv
<1>7. ASSUME NEW p \in Phone, OnPhone(p) PROVE PairingInv'
  BY <1>1, <1>2, <1>7, OnPhoneHostSide, OnPhonePhoneSide, OnPhoneStoreSide
  DEF PairingInv
<1> QED
  BY <1>3, <1>4, <1>5, <1>6, <1>7, WhoSteps

LEMMA PairingInvariant == Spec => []PairingInv
BY InitInv, NextInv, PTL DEF Spec

(* Save, Open, the setters (config.go) and persistTrust (pairing.go): the  *)
(* file a Save left behind opens again, after a kill and after a power     *)
(* loss, for any number of Stores opened on it at any time.                *)
THEOREM FileAlwaysOpens == Spec => []FileOpens
<1>1. PairingInv => FileOpens
  <2>1. \A f \in File : \A A : Sound(f, A) => Opens(f) /\ Opens(AfterPowerLoss(f))
    BY DEF Sound, Fine, Opens, AfterPowerLoss, File
  <2>2. PairingInv => /\ file \in File /\ Sound(file, Agreed)
                      /\ stable \in File /\ Sound(stable, Agreed)
    BY DEF PairingInv, TypeOK, StoreTypeOK, StoreSide
  <2> QED
    BY <2>1, <2>2 DEF FileOpens
<1> QED
  BY PairingInvariant, <1>1, PTL

(* Initiate (pairing.go) and PairingServer.handle (PairingServer.kt): a    *)
(* secret is stored, on either side or in a Store on its way to the file,  *)
(* only for an exchange whose code both users confirmed.                   *)
THEOREM BothAlwaysConfirmed == Spec => []BothConfirmed
<1>1. PairingInv => BothConfirmed
  <2> SUFFICES ASSUME PairingInv, NEW t \in Attempt, NEW p \in Phone,
                      \/ t \in {trust[p][k] : k \in DOMAIN trust[p]}
                      \/ \E s \in Saver : store[s].devices[p] = t
                      \/ file.data.devices[p] = t
               PROVE  confirmed[t] = {"host", "phone"}
    BY DEF BothConfirmed
  <2>1. DOMAIN trust[p] = Attempt \cup {Old}
    BY DEF PairingInv, TypeOK
  <2>2. t \in Agreed
    BY <2>1 DEF PairingInv, StoreSide, Sound, Fine
  <2> QED
    BY <2>2 DEF Agreed
<1> QED
  BY PairingInvariant, <1>1, PTL
=============================================================================
