------------------------- MODULE MCChatContinuation -------------------------
(***************************************************************************)
(* ChatContinuation on small instances.  A behaviour is about three        *)
(* messages, any way a run may go and a run that is recovered, or about    *)
(* four, of which one that the view was taken off overtakes another.       *)
(***************************************************************************)
EXTENDS ChatContinuation, TLC

\* Every turn has the same size: the asks are interchangeable.
EvenSize == [k \in Asks |-> 1]
AskSymmetry == Permutations(Asks)

VARIABLE use

\* Bounds: two calls under way; the messages and their epochs, or the ways of
\* an overtaking.
Recovering == Cardinality(used) <= 3 /\ epoch <= 4
Overtaking ==
  /\ \A c \in calls : c.op \in {"create", "open", "reconcile"} /\ c.ans # Lost
  /\ \A k \in Asks : runs[k] # NoRun => runs[k].status = "running" \/ runs[k].out = "final"
InUse == Cardinality(calls) <= 2 /\ IF use = "recovering" THEN Recovering ELSE Overtaking

MCInit == LeftInit /\ use \in {"recovering", "overtaking"}
MCNext == LeftNext /\ UNCHANGED use /\ InUse'
MCSpec == MCInit /\ [][MCNext]_<<vars, left, cut, use>>
=============================================================================
