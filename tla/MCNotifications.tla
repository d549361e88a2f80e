--------------------------- MODULE MCNotifications ---------------------------
(***************************************************************************)
(* An instance of Notifications for TLC, with few losses at a time: each   *)
(* loss only excuses what follows from it.                                 *)
(***************************************************************************)
EXTENDS Notifications, FiniteSets

(* One notification of the phone, in several versions.                     *)
OneKey == {"k1"}

(* The calls of Notify: the host's own, the bridge's, and one that         *)
(* replaces either.                                                        *)
Calls == 3

(* A notification swept off the phone, and another that its echo cancels.  *)
Losses == 2

MCNext == NoteNext /\ Cardinality(missing') <= Losses

MCSpec == NoteInit /\ [][MCNext]_noteVars
==============================================================================
