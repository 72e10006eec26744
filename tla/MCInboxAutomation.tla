-------------------------- MODULE MCInboxAutomation -------------------------
(***************************************************************************)
(* Instances of InboxAutomation for TLC.                                   *)
(***************************************************************************)
EXTENDS InboxAutomation, TLC
=============================================================================
