----------------------------- MODULE InputLease -----------------------------
(***************************************************************************)
(* What the daemon promises about remote input: at most one phone drives   *)
(* the host's keyboard and mouse at a time, only while the daemon reports  *)
(* it connected, and the right never passes directly from one phone to     *)
(* another.  SessionLifecycle implements this specification.               *)
(***************************************************************************)
CONSTANTS Peer,     \* the phones
          NoPeer    \* nobody, not a phone

VARIABLES connected,   \* the phones the daemon reports as connected
          owner        \* the phone that holds the lease, or NoPeer

leaseVars == <<connected, owner>>

LeaseInit == connected = {} /\ owner = NoPeer

(* A phone connects; a phone the user always allows takes a free lease.    *)
Join(p) ==
    /\ connected' = connected \cup {p}
    /\ \/ UNCHANGED owner
       \/ owner = NoPeer /\ owner' = p

(* The user gives a free lease to a connected phone.                       *)
Grant(p) ==
    /\ p \in connected
    /\ owner = NoPeer
    /\ owner' = p
    /\ UNCHANGED connected

(* The lease is taken back: disabled, unpaired, or the daemon stops.       *)
Revoke ==
    /\ owner' = NoPeer
    /\ UNCHANGED connected

(* A phone goes away, and its lease with it, in one step.                  *)
Leave(p) ==
    /\ connected' = connected \ {p}
    /\ owner' = IF owner = p THEN NoPeer ELSE owner

LeaseNext ==
    \/ \E p \in Peer : Join(p) \/ Grant(p) \/ Leave(p)
    \/ Revoke

LeaseSpec == LeaseInit /\ [][LeaseNext]_leaseVars
=============================================================================
