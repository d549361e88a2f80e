----------------------------- MODULE Discovery ------------------------------
(***************************************************************************)
(* Finding a phone.  The Watcher listens to multicast DNS: a collector     *)
(* assembles PTR, SRV, TXT and A records, in whatever order they come, to  *)
(* a device, which the Watcher remembers and announces to the sessions     *)
(* that wait in Find.  A session that cannot connect to the address it was *)
(* given forgets the device and asks again.                                *)
(*                                                                         *)
(* There is one phone with one service name, host name and port, so the    *)
(* collector has at most one device; the phone's address changes.          *)
(***************************************************************************)
EXTENDS Naturals

CONSTANTS Finder,      \* sessions that look for the phone
          MaxRecords,  \* bound on the records heard
          MaxAddress   \* bound on the phone's addresses and on cancellations

ASSUME DiscoveryAssumption == MaxRecords \in Nat /\ MaxAddress \in Nat \ {0}

NoAddress == 0

VARIABLES
    address,    \* the phone's address
    listening,  \* the Watcher has a socket
    kinds,      \* the kinds of records the collector has seen
    hostAt,     \* addressByHost of the phone's host name
    device,     \* the assembled device: whether it exists, address and id
    learning,   \* what listen has still to do with a packet
    seen,       \* w.seen: the address of the phone
    generation, \* how often w.changed was closed
    finder,     \* where each session is
    waitsFor,   \* the generation its channel belongs to
    given,      \* the address Find gave it
    records,    \* records heard
    tries       \* connections tried

collectorVars == <<kinds, hostAt, device>>
discoveryVars == <<address, listening, collectorVars, learning, seen,
                   generation, finder, waitsFor, given, records, tries>>

NoDevice == [exists |-> FALSE, address |-> NoAddress, id |-> FALSE]
NoNews == [address |-> NoAddress, step |-> "none"]

EmptyCollector ==
    /\ kinds' = {}
    /\ hostAt' = NoAddress
    /\ device' = NoDevice

DiscoveryInit ==
    /\ address = 1
    /\ listening = FALSE
    /\ kinds = {}
    /\ hostAt = NoAddress
    /\ device = NoDevice
    /\ learning = NoNews
    /\ seen = NoAddress
    /\ generation = 0
    /\ finder = [f \in Finder |-> "look"]
    /\ waitsFor = [f \in Finder |-> 0]
    /\ given = [f \in Finder |-> NoAddress]
    /\ records = 0
    /\ tries = 0

finderVars == <<finder, waitsFor, given, tries>>

-----------------------------------------------------------------------------
(* The phone and the network *)

PhoneMoves ==
    /\ address < MaxAddress
    /\ address' = address + 1
    /\ UNCHANGED <<listening, collectorVars, learning, seen, generation,
                   finderVars, records>>

(* run: a socket on the present interface, with a collector of its own,    *)
(* announced to all who wait.                                              *)
ListenBegins ==
    /\ ~listening
    /\ listening' = TRUE
    /\ EmptyCollector
    /\ generation' = generation + 1
    /\ UNCHANGED <<address, learning, seen, finderVars, records>>

(* The host has moved to another network, or the socket has failed.        *)
ListenEnds ==
    /\ listening
    /\ learning = NoNews
    /\ records < MaxRecords
    /\ records' = records + 1
    /\ listening' = FALSE
    /\ UNCHANGED <<address, collectorVars, learning, seen, generation,
                   finderVars>>

-----------------------------------------------------------------------------
(* The collector *)

(* addDevice: a device that has an address keeps it.                       *)
AddDevice(at) ==
    IF ~device.exists \/ (device.address = NoAddress /\ at # NoAddress)
    THEN [exists |-> TRUE, address |-> at, id |-> "txt" \in kinds']
    ELSE device

(* The device after a record, and whether it is reported.                  *)
Assembles(kind) ==
    /\ kinds' = kinds \cup {kind}
    /\ hostAt' = IF kind = "a" THEN address ELSE hostAt
    /\ device' = IF kind = "txt" THEN [device EXCEPT !.id = device.exists]
                 ELSE IF {"ptr", "srv"} \subseteq kinds' THEN AddDevice(hostAt')
                 ELSE device

Reported(kind) == IF kind = "txt" THEN device'.exists ELSE device' # device

(* ingest, for a record of a packet; listen remembers the devices that     *)
(* are reported with an id and an address.                                 *)
Hear(kind) ==
    /\ listening
    /\ learning = NoNews
    /\ records < MaxRecords
    /\ records' = records + 1
    /\ Assembles(kind)
    /\ learning' = IF Reported(kind) /\ device'.id /\ device'.address # NoAddress
                   THEN [address |-> device'.address, step |-> "remember"]
                   ELSE NoNews
    /\ UNCHANGED <<address, listening, seen, generation, finderVars>>

-----------------------------------------------------------------------------
(* remember: the map is changed first, then all who wait are woken.        *)

Learns(news) ==
    /\ learning.step = "remember"
    /\ seen' = learning.address
    /\ learning' = IF news THEN [learning EXCEPT !.step = "broadcast"] ELSE NoNews
    /\ UNCHANGED <<address, listening, collectorVars, generation,
                   finderVars, records>>

(* A Watcher that wakes nobody for a device that was forgotten.            *)
RememberNewAddress == Learns(seen # NoAddress /\ seen # learning.address)

Remember == Learns(seen # learning.address)

Broadcast ==
    /\ learning.step = "broadcast"
    /\ learning' = NoNews
    /\ generation' = generation + 1
    /\ UNCHANGED <<address, listening, collectorVars, seen,
                   finderVars, records>>

-----------------------------------------------------------------------------
(* Find, and the session around it *)

Look(f) ==
    /\ finder[f] = "look"
    /\ IF seen # NoAddress
       THEN /\ finder' = [finder EXCEPT ![f] = "dial"]
            /\ given' = [given EXCEPT ![f] = seen]
            /\ UNCHANGED waitsFor
       ELSE /\ finder' = [finder EXCEPT ![f] = "wait"]
            /\ waitsFor' = [waitsFor EXCEPT ![f] = generation]
            /\ UNCHANGED given
    /\ UNCHANGED <<address, listening, collectorVars, learning, seen,
                   generation, records, tries>>

Woken(f) ==
    /\ finder[f] = "wait"
    /\ waitsFor[f] < generation
    /\ finder' = [finder EXCEPT ![f] = "look"]
    /\ waitsFor' = [waitsFor EXCEPT ![f] = 0]
    /\ UNCHANGED <<address, listening, collectorVars, learning, seen,
                   generation, given, records, tries>>

(* The timer of Find fires: it asks, unless a query went out very          *)
(* recently, and looks again.                                              *)
AsksAgain(f) ==
    /\ finder[f] = "wait"
    /\ finder' = [finder EXCEPT ![f] = "look"]
    /\ waitsFor' = [waitsFor EXCEPT ![f] = 0]
    /\ UNCHANGED <<address, listening, collectorVars, learning, seen,
                   generation, given, records, tries>>

(* The connection is made when the phone is at that address; a session     *)
(* ends, and its loop looks again.                                         *)
Dial(f) ==
    /\ finder[f] = "dial"
    /\ tries < MaxAddress
    /\ tries' = tries + 1
    /\ \/ /\ given[f] = address
          /\ finder' = [finder EXCEPT ![f] = "session"]
       \/ finder' = [finder EXCEPT ![f] = "forget"]
    /\ given' = [given EXCEPT ![f] = NoAddress]
    /\ UNCHANGED <<address, listening, collectorVars, learning, seen,
                   generation, waitsFor, records>>

Forget(f) ==
    /\ finder[f] = "forget"
    /\ seen' = NoAddress
    /\ finder' = [finder EXCEPT ![f] = "look"]
    /\ UNCHANGED <<address, listening, collectorVars, learning, generation,
                   waitsFor, given, records, tries>>

Again(f) ==
    /\ finder[f] = "session"
    /\ finder' = [finder EXCEPT ![f] = "look"]
    /\ UNCHANGED <<address, listening, collectorVars, learning, seen,
                   generation, waitsFor, given, records, tries>>

DiscoveryNext ==
    \/ PhoneMoves
    \/ ListenBegins \/ ListenEnds
    \/ \E kind \in {"ptr", "srv", "txt", "a"} : Hear(kind)
    \/ Remember \/ Broadcast
    \/ \E f \in Finder :
          \/ Look(f) \/ Woken(f) \/ AsksAgain(f) \/ Dial(f) \/ Forget(f) \/ Again(f)

DiscoverySpec == DiscoveryInit /\ [][DiscoveryNext]_discoveryVars

-----------------------------------------------------------------------------
(* Properties *)

(* Nobody sleeps through the phone's return: a session that waits on a     *)
(* channel nobody has closed yet waits for a phone that is not known, or   *)
(* the broadcast is still to come.  Otherwise it would sit there until its *)
(* next query, up to a minute later.                                       *)
NoLostWakeup ==
    \A f \in Finder :
        finder[f] = "wait" /\ seen # NoAddress =>
            waitsFor[f] < generation \/ learning.step = "broadcast"
=============================================================================
