----------------------------- MODULE MCChatPane -----------------------------
(***************************************************************************)
(* ChatPane on small instances; the first message is too long for a row   *)
(* of the history.                                                         *)
(***************************************************************************)
EXTENDS ChatPane, TLC

CONSTANTS k1, k2

TwoEarlier == <<"earliest", "earlier">>
PaneSize == [k \in Asks |-> IF k = k1 THEN 3 ELSE 1]

VARIABLE use

\* A behaviour opens a session with its earlier pages and controls or checks its
\* run, or it is about messages that are refused, reconnected to and recovered.
LeftOut ==
  [history |-> {"recover", "reconnect", "refresh"}, messages |-> {"open", "refresh"},
   checks |-> {"recover", "reconnect"} \cup ControlOps]
InUse ==
  /\ \A c \in calls : c.op \notin LeftOut[use]
  /\ use # "messages" => ~refused

\* Bound: the calls of the controller in flight.
MaxCalls == 2
MCInit ==
  /\ PaneInit /\ use \in DOMAIN LeftOut
  /\ \A k \in Asks : runs[k] # NoRun => runs[k].status \in {"running", "completed"}
MCNext ==
  /\ PaneNext /\ UNCHANGED use /\ InUse'
  /\ Cardinality(calls') + Cardinality(pages') <= MaxCalls
MCSpec == MCInit /\ [][MCNext]_<<panevars, use>>
=============================================================================
