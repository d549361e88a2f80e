----------------------------- MODULE MCPairing ------------------------------
(***************************************************************************)
(* Instances of Pairing for TLC.                                           *)
(***************************************************************************)
EXTENDS Pairing

(* A setting that validateConfig checks.                                   *)
OneSetting == {"clipboard_sync"}
=============================================================================
