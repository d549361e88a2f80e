---------------------------- MODULE MCPhoneServer ----------------------------
(***************************************************************************)
(* An instance of PhoneServer for TLC: two connections with remote input,  *)
(* or three without, the third after the host was paired anew.             *)
(***************************************************************************)
EXTENDS PhoneServer

(* A session, a pairing that replaces its trust, and the session after it. *)
OldPairingNew == 3

(* A key that goes down in one session and up in the other.                *)
DownUp == 2

(* Only what comes from outside is restricted; the trust of the new        *)
(* pairing is not ended again once the third connection is there.          *)
MCNext ==
    /\ ServerNext
    /\ typed' # typed => handler[3] = "none"
    /\ handler'[3] # "none" =>
          /\ trusts = 2
          /\ handler[2] \in {"closing", "done"}
          /\ \A c \in Conn : typed[c] = <<>>
    /\ (\E f \in Forgetter : forgetting[f] = "idle" /\ forgetting'[f] # "idle") =>
          handler[3] = "none"

MCSpec == ServerInit /\ [][MCNext]_serverVars /\ ServerFairness
==============================================================================
