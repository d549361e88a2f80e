------------------------- MODULE MCSessionLifecycle -------------------------
(***************************************************************************)
(* Instances of SessionLifecycle for TLC.                                  *)
(***************************************************************************)
EXTENDS SessionLifecycle, TLC

(* Phones, run slots and handler goroutines are interchangeable.           *)
Symmetry == Permutations(Peer) \cup Permutations(Run) \cup Permutations(Handler)

(* Two phones compete; sessions start, are lost, cancelled and forgotten.  *)
LeaseCommands == {"connect", "disconnect", "phone-unpair", "input-enable",
                  "input-auto-on", "input-auto-off"}

(* One phone and the commands the first instance leaves out.               *)
EndCommands == {"unpair", "pair", "autoconnect-on", "autoconnect-off",
                "input-enable", "input-disable", "accept-fails", "stop"}

DisconnectOnly == {"connect", "disconnect"}
=============================================================================
