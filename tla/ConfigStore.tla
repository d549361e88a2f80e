---------------------------- MODULE ConfigStore -----------------------------
(***************************************************************************)
(* The configuration file of the daemon and the Stores opened on it: what  *)
(* Open accepts, what the setters change in memory, and Save, which writes *)
(* a temporary file and renames it over config.yaml.                       *)
(*                                                                         *)
(* A saver is whoever holds a Store: the daemon, or one pairing attempt,   *)
(* which opens a Store of its own.  Nothing but the file connects them.    *)
(***************************************************************************)
EXTENDS FiniteSets

CONSTANTS Phone,     \* device ids of phones
          Attempt,   \* pairing attempts, each with a fresh transaction id
          Old,       \* the attempt of an earlier life of the daemon
          None,      \* no identity, no credential, no attempt
          Daemon,    \* the daemon's own Store
          Setting    \* the per-device settings of this instance

SettingNames ==
    {"notification_sync", "clipboard_sync", "input_auto", "auto_connect_off"}

ASSUME StoreAssumption ==
    /\ Old \notin Attempt
    /\ None \notin Attempt \cup {Old}
    /\ Daemon \notin Attempt
    /\ Setting \subseteq SettingNames

Saver == Attempt \cup {Daemon}

(* An identity or a credential is named by the attempt that made it.       *)
Origin == Attempt \cup {Old, None}

(* What a configuration holds: the daemon's identity, the credential of    *)
(* each paired phone, and the phones each setting is stored for.           *)
Data == [identity : Origin,
         devices  : [Phone -> Origin],
         settings : [Setting -> SUBSET Phone]]

(* Open of a missing file starts from this.                                *)
NoData == [identity |-> None,
           devices  |-> [p \in Phone |-> None],
           settings |-> [s \in Setting |-> {}]]

Paired(d) == {p \in Phone : d.devices[p] # None}

(* Settings that validateConfig refuses for a device it does not know.     *)
Checked == {"clipboard_sync", "input_auto"}

(* migrateConfig and validateConfig accept the data.                       *)
Valid(d) == \A s \in Setting \cap Checked : d.settings[s] \subseteq Paired(d)

(* A file on disk: its data, complete or torn, and whether it was synced.  *)
File == [data : Data, whole : BOOLEAN, synced : BOOLEAN]

(* Open succeeds on this file.                                             *)
Opens(f) == f.whole /\ Valid(f.data)

(***************************************************************************)
(* The setters.  They change the data in memory only.                      *)
(***************************************************************************)
SetIdentity(d, k) == [d EXCEPT !.identity = k]

UpsertDevice(d, p, t) == [d EXCEPT !.devices[p] = t]

(* A RemoveDevice that leaves the settings of the device behind.           *)
RemoveTrustOnly(d, p) == [d EXCEPT !.devices[p] = None]

RemoveDevice(d, p) ==
    [d EXCEPT !.devices[p] = None,
              !.settings = [s \in Setting |-> @[s] \ {p}]]

(* Whether a setter accepts the phone.  The daemon checks for notification *)
(* sync what the Store checks for the other settings.                      *)
MaySet(d, s, p) == p \in Paired(d)

Set(d, s, p, on) ==
    [d EXCEPT !.settings[s] = IF on THEN @ \cup {p} ELSE @ \ {p}]

(***************************************************************************)
(* The file and the savers.                                                *)
(***************************************************************************)
VARIABLES file,     \* what Open reads at config.yaml
          stable,   \* the directory entry a power loss leaves
          temp,     \* the temporary file of each Save in progress
          store     \* the data of each saver's Store

storeVars == <<file, stable, temp, store>>

StoreTypeOK ==
    /\ file \in File
    /\ stable \in File
    /\ temp \in [Saver -> File \cup {None}]
    /\ store \in [Saver -> Data]

(* CreateTemp, Chmod, Write, Sync and Close: nobody else knows this file.  *)
WriteTemporary(s) ==
    /\ temp[s] = None
    /\ temp' = [temp EXCEPT ![s] =
                    [data |-> store[s], whole |-> TRUE, synced |-> TRUE]]
    /\ UNCHANGED <<file, stable, store>>

(* Only the daemon keeps its Store after a Save.                           *)
Dropped(s) == IF s = Daemon THEN store ELSE [store EXCEPT ![s] = NoData]

(* Rename: from here on everybody reads the new file.                      *)
Replace(s) ==
    /\ temp[s] # None
    /\ file' = temp[s]
    /\ temp' = [temp EXCEPT ![s] = None]
    /\ store' = Dropped(s)
    /\ UNCHANGED stable

(* A step of Save fails; the temporary file is removed.                    *)
Discard(s) ==
    /\ temp' = [temp EXCEPT ![s] = None]
    /\ store' = Dropped(s)
    /\ UNCHANGED <<file, stable>>

(* The kernel writes the directory back some time after the rename.        *)
Writeback ==
    /\ stable # file
    /\ stable' = file
    /\ UNCHANGED <<file, temp, store>>

(* What is left of a file that may not have reached the disk.              *)
AfterPowerLoss(f) == [f EXCEPT !.whole = f.whole /\ f.synced, !.synced = TRUE]
=============================================================================
