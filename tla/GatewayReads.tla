---------------------------- MODULE GatewayReads ----------------------------
(***************************************************************************)
(* A read of the browser's views through DashboardClient.query (packages/  *)
(* client/src/client.ts): what is sent, what the answer may be and what    *)
(* the view gets of it.                                                    *)
(***************************************************************************)
EXTENDS Naturals, FiniteSets

CONSTANTS Scope   \* what can be selected: workspaces `ws` of systems `sys`

ASSUME ReadsAssumption ==
  Scope # {} /\ \A s \in Scope : s = [sys |-> s.sys, ws |-> s.ws]

\* An answer speaks of a scope: the envelope of its system, the body of the
\* system, the workspace or both.
Answer == [of : Scope, is : {"valid", "malformed", "refused"}]

\* What query() returns of an answer to a read of `scope`; `kept` says that
\* the client has not been retargeted since (STALE_SELECTION).
Returned(scope, kept, a) == kept /\ a.of.sys = scope.sys /\ a.is # "refused"

\* The answer to a read that is not one of many.
Usual(scope) == [of |-> scope, is |-> "valid"]

\* The read is superseded: by the view itself, or by a retarget.
Superseded(reads) == {[r EXCEPT !.mine = FALSE] : r \in reads}
Retargeted(reads) == {[r EXCEPT !.mine = FALSE, !.kept = FALSE] : r \in reads}
=============================================================================
