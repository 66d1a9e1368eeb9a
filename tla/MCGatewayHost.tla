---------------------------- MODULE MCGatewayHost ----------------------------
(***************************************************************************)
(* GatewayHost on one approved system: a call, or a socket and its stream. *)
(***************************************************************************)
EXTENDS GatewayHost, TLC

CONSTANTS s1

MCAutoId == <<s1>>

\* Calls and streams share the session and the registry, not each other.
MCApart == rpcs = {} \/ sockets = {}
=============================================================================
