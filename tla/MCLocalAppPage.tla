--------------------------- MODULE MCLocalAppPage ---------------------------
(***************************************************************************)
(* LocalAppPage against AppHost, with the fairness of its monitor: one     *)
(* call of the user at a time beside the checks.                           *)
(***************************************************************************)
EXTENDS LocalAppPage, TLC

CONSTANTS wa, wb

MCInit == PageInit /\ hostScope = wa
MCSpec == MCInit /\ [][PageNext]_pagevars /\ PageFairness
=============================================================================
