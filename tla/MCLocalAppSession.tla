------------------------- MODULE MCLocalAppSession -------------------------
(***************************************************************************)
(* LocalAppSession on one approved system, and LocalAppPage against what   *)
(* LocalAppSession implements.  A behaviour exercises pairing, while the   *)
(* system is rebound and its disk changes, or requests for another         *)
(* workspace, while the directories of workspaces change, or the page.     *)
(***************************************************************************)
EXTENDS LocalAppSessionProps, LocalAppPage, TLC

CONSTANTS s1, wa

VARIABLE use

MCAutoId == <<s1>>
MCHostScopes == Scopes

Pairing ==
  /\ scope = Operator /\ \A b \in bodies : b.kind = "pair"
  /\ folder = [w \in Workspaces |-> CHOOSE f \in Folders : TRUE]

Requesting ==
  /\ serial = 1 /\ disk = [r \in Roots |-> CHOOSE o \in Objects : TRUE]
  /\ compatible = Objects
  /\ sockets = {} /\ attempts <= 1

InUse ==
  \/ use = "pairing" /\ Pairing
  \/ use = "requesting" /\ Requesting
  \/ use = "page"

MCInit ==
  /\ SessionInit /\ PageInit /\ use \in {"pairing", "requesting", "page"} /\ InUse
  /\ hostScope = wa
  /\ use = "page" => Pairing /\ Requesting

mcvars == <<rvars, svars, pagevars, use>>
\* Bound: two tasks of the page under way, its checks included.
MCNext ==
  /\ UNCHANGED use
  /\ \/ use # "page" /\ SessionNext /\ InUse' /\ UNCHANGED pagevars
     \/ use = "page" /\ PageNext /\ Cardinality(tasks') <= 2 /\ UNCHANGED <<rvars, svars>>

MCSpec ==
  /\ MCInit /\ [][MCNext]_mcvars
  /\ WF_mcvars(TimerFires /\ UNCHANGED <<pagevars, use>>)
=============================================================================
