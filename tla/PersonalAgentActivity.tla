----------------------- MODULE PersonalAgentActivity -----------------------
(***************************************************************************)
(* PersonalAgentActivity (apps/web/src/personal-agent-activity.ts): the    *)
(* sessions of the Dashboard and, read in two rounds, the recent sessions  *)
(* and runs of the Gateway, both of the selected workspace.                *)
(***************************************************************************)
EXTENDS GatewayReads

CONSTANTS MaxRunReads  \* the sessions whose runs are read, 2 in the code
ASSUME ActivityAssumption == MaxRunReads \in Nat

VARIABLES
  activity,       \* selected, open, what is shown, reload.disabled
  activityView,   \* view: the local view, kept for the filter buttons
  filter,
  activityReads   \* refreshes under way

activityvars == <<activity, activityView, filter, activityReads>>

ActivitySources == {"local", "canonical", "runs"}
Filters == {"all", "tool-call", "error-event", "approval"}
ActivityBlank == [is |-> "blank", of |-> {}, available |-> {}]
ActivityLoading == [is |-> "loading", of |-> {}, available |-> {}]

\* A read: what its two owners have answered so far, the canonical one after
\* its sessions were asked for the runs of each.
Unanswered == [is |-> "pending", of |-> {}]
Failed == [is |-> "failed", of |-> {}]
Got(a) == [is |-> "ok", of |-> {a.of}]
NewRead(scope) == [scope |-> scope, mine |-> TRUE, kept |-> TRUE, waiting |-> 0,
                   local |-> Unanswered, canonical |-> Unanswered, runs |-> {}]

\* inspectActivity, inspectCanonicalSessions and inspectCanonicalRuns.
InspectActivity(scope, a) == a.is = "valid" /\ a.of = scope
InspectCanonicalSessions(scope, a) == a.is = "valid" /\ a.of.ws = scope.ws
InspectCanonicalRuns(scope, a) == a.is = "valid" /\ a.of.ws = scope.ws

\* refresh(), up to its await.
ActivityRefreshes(v, reads) ==
  /\ activity' = [v EXCEPT !.shown = ActivityLoading, !.locked = TRUE]
  /\ activityReads' = Superseded(reads) \cup {NewRead(v.scope)}
  /\ activityView' = {}

ActivityClick == activity.open /\ ~activity.locked
                 /\ ActivityRefreshes(activity, activityReads) /\ UNCHANGED filter

ActivityToggle ==
  /\ UNCHANGED filter
  /\ \/ ~activity.open /\ ActivityRefreshes([activity EXCEPT !.open = TRUE], activityReads)
     \/ activity.open /\ activity' = [activity EXCEPT !.open = FALSE]
        /\ activityReads' = Superseded(activityReads) /\ UNCHANGED activityView

ActivityRetarget(s) ==
  LET moved == [activity EXCEPT !.scope = s, !.shown = ActivityBlank] IN
  /\ filter' = "all"
  /\ IF activity.open THEN ActivityRefreshes(moved, Retargeted(activityReads))
     ELSE /\ activity' = moved /\ activityView' = {}
          /\ activityReads' = Retargeted(activityReads)

Becomes(r, s) == activityReads' = (activityReads \ {r}) \cup {s}
                 /\ UNCHANGED <<activity, activityView, filter>>

\* The answer of the local owner.
LocalAnswers(r) ==
  /\ r.local = Unanswered
  /\ \E a \in Answer :
       Becomes(r, [r EXCEPT !.local =
         IF Returned(r.scope, r.kept, a) /\ InspectActivity(r.scope, a) THEN Got(a) ELSE Failed])

\* The sessions of the Gateway; the runs of the first ones are read at once.
SessionsAnswer(r) ==
  /\ r.canonical = Unanswered
  /\ \E a \in Answer, n \in 0..MaxRunReads :
       Becomes(r, IF Returned(r.scope, r.kept, a) /\ InspectCanonicalSessions(r.scope, a)
                  THEN [r EXCEPT !.canonical = Got(a), !.waiting = n]
                  ELSE [r EXCEPT !.canonical = Failed])

\* The runs of one session; one that fails does not hide the others.
RunsAnswer(r) ==
  /\ r.waiting > 0
  /\ \E a \in Answer :
       Becomes(r, [r EXCEPT !.waiting = @ - 1,
         !.runs = IF Returned(r.scope, r.kept, a) /\ InspectCanonicalRuns(r.scope, a)
                  THEN @ \cup {a.of} ELSE @])

Answered(r) == r.local # Unanswered /\ r.canonical # Unanswered /\ r.waiting = 0

\* fresh() and the rest of refresh(), once both owners have answered.
FreshAnySelection(r) == activity.open /\ r.scope = activity.scope
FreshRead(r) == activity.open /\ r.mine /\ r.scope = activity.scope
ActivitySettles(r) ==
  /\ Answered(r) /\ activityReads' = activityReads \ {r} /\ UNCHANGED filter
  /\ IF ~FreshRead(r) THEN UNCHANGED <<activity, activityView>>
     ELSE /\ activity' = [activity EXCEPT !.locked = FALSE,
               !.shown = [is |-> "shown", of |-> r.local.of \cup r.canonical.of \cup r.runs,
                 available |-> {source \in ActivitySources :
                   \/ source = "local" /\ r.local.is = "ok"
                   \/ source = "canonical" /\ r.canonical.is = "ok"
                   \/ source = "runs" /\ r.runs # {}}]]
          /\ activityView' = r.local.of

\* A filter button of the view rendered last (170-173).
FilterActivity(f) ==
  /\ activity.open /\ activityView # {} /\ f # filter
  /\ filter' = f /\ UNCHANGED <<activity, activityView, activityReads>>

ActivityInit ==
  /\ activity \in [scope : Scope, open : {FALSE}, shown : {ActivityBlank}, locked : {FALSE}]
  /\ activityView = {} /\ filter = "all" /\ activityReads = {}

ActivityNext ==
  \/ ActivityClick \/ ActivityToggle
  \/ \E f \in Filters : FilterActivity(f)
  \/ \E r \in activityReads :
       LocalAnswers(r) \/ SessionsAnswer(r) \/ RunsAnswer(r) \/ ActivitySettles(r)
=============================================================================
