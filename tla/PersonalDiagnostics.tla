------------------------ MODULE PersonalDiagnostics ------------------------
(***************************************************************************)
(* PersonalDiagnostics (apps/web/src/personal-diagnostics.ts): the status  *)
(* of the selected workspace from six owners, and the inspection of one    *)
(* run by its exact ids.  `mine` in a read stands for its epoch being the  *)
(* view's; a destroyed view is one of a destroyed application.             *)
(***************************************************************************)
EXTENDS GatewayReads

CONSTANTS
  RunIds      \* what can be typed as run and session: pairs of valid ids

NoIds == {}   \* the inputs are empty; {id} otherwise

VARIABLES
  diag,       \* scope, open, current, reload.disabled
  diagReads,  \* refreshes under way
  inspector,  \* the two inputs, runButton.disabled, runResult
  runReads    \* inspections under way

diagvars == <<diag, diagReads, inspector, runReads>>

DiagSources == {"system", "systems", "workspace", "gateway", "canvas", "history"}
ViewBlank == [is |-> "blank", of |-> {}, available |-> {}]
ViewLoading == [is |-> "loading", of |-> {}, available |-> {}]

NothingInspected == [is |-> "idle", ids |-> NoIds, of |-> {}]
InspectorBlank == [ids |-> NoIds, locked |-> FALSE, result |-> NothingInspected]

DiagTypeOK ==
  /\ diag.scope \in Scope /\ diag.open \in BOOLEAN /\ diag.locked \in BOOLEAN
  /\ diag.shown \in [is : {"blank", "loading", "shown"}, of : SUBSET Scope,
                     available : SUBSET DiagSources]
  /\ diagReads \subseteq [scope : Scope, mine : BOOLEAN, kept : BOOLEAN]
  /\ runReads \subseteq [scope : Scope, ids : SUBSET RunIds, mine : BOOLEAN, kept : BOOLEAN]
  /\ inspector.ids \in SUBSET RunIds /\ inspector.locked \in BOOLEAN
  /\ inspector.result \in [is : {"idle", "loading", "available", "unavailable"},
                           ids : SUBSET RunIds, of : SUBSET Scope]

\* What the inspect functions accept: each checks the shape of the answer and
\* the part of the scope that its owner answers for.
Inspects(source, scope, a) ==
  /\ a.is = "valid"
  /\ source \in {"system", "systems"} => a.of.sys = scope.sys
  /\ source # "system" => a.of.ws = scope.ws
\* What is shown of it then speaks of; the OS is the same for its workspaces.
SpeaksOf(source, scope, a) == IF source = "system" THEN [a.of EXCEPT !.ws = scope.ws] ELSE a.of
Available(source, r, a) == Returned(r.scope, r.kept, a) /\ Inspects(source, r.scope, a)

\* inspectRunDiagnostics: the answer is of this workspace and these ids.
InspectsRun(r, a, ids) ==
  Returned(r.scope, r.kept, a) /\ a.is = "valid" /\ a.of.ws = r.scope.ws /\ ids = r.ids

\* refresh(), up to its await.
DiagRefreshed(d) == [d EXCEPT !.shown = ViewLoading, !.locked = TRUE]
DiagReading(scope) == [scope |-> scope, mine |-> TRUE, kept |-> TRUE]
DiagRefreshes(d, reads) ==
  /\ diag' = DiagRefreshed(d)
  /\ diagReads' = Superseded(reads) \cup {DiagReading(d.scope)}

DiagClick == diag.open /\ ~diag.locked /\ DiagRefreshes(diag, diagReads)
             /\ UNCHANGED <<inspector, runReads>>

ResetRunInspection == inspector' = InspectorBlank

\* toggle(): an open view begins to read, a closed one forgets its reads and
\* the inspection.
DiagToggle ==
  \/ ~diag.open /\ DiagRefreshes([diag EXCEPT !.open = TRUE], diagReads)
     /\ UNCHANGED <<inspector, runReads>>
  \/ diag.open /\ diag' = [diag EXCEPT !.open = FALSE]
     /\ diagReads' = Superseded(diagReads)
     /\ runReads' = Superseded(runReads) /\ ResetRunInspection

DiagRetarget(s) ==
  /\ LET moved == [diag EXCEPT !.scope = s, !.shown = ViewBlank] IN
     IF diag.open THEN DiagRefreshes(moved, Retargeted(diagReads))
     ELSE diag' = moved /\ diagReads' = Retargeted(diagReads)
  /\ runReads' = Retargeted(runReads) /\ ResetRunInspection

\* The rest of refresh(): the six answers, at most one of them not the usual,
\* are shown together if no later refresh, close or retarget came.
DiagSettles(r) ==
  /\ diagReads' = diagReads \ {r}
  /\ IF ~(diag.open /\ r.mine /\ r.scope = diag.scope) THEN UNCHANGED diag
     ELSE \E odd \in DiagSources, a \in Answer :
       LET answer(source) == IF source = odd THEN a ELSE Usual(r.scope)
           good == {source \in DiagSources : Available(source, r, answer(source))}
       IN diag' = [diag EXCEPT !.locked = FALSE,
            !.shown = [is |-> "shown", of |-> {SpeaksOf(source, r.scope, answer(source)) : source \in good},
                       available |-> good]]
  /\ UNCHANGED <<inspector, runReads>>

\* invalidateInput(): an identifier is edited.
InvalidateInput(ids) ==
  /\ diag.open /\ ids # inspector.ids
  /\ runReads' = Superseded(runReads)
  /\ inspector' = [InspectorBlank EXCEPT !.ids = ids]
  /\ UNCHANGED <<diag, diagReads>>

\* inspectRun(), up to its await.
InspectRun ==
  /\ diag.open /\ ~inspector.locked
  /\ IF inspector.ids = NoIds
     THEN /\ inspector' = [inspector EXCEPT !.result = [NothingInspected EXCEPT !.is = "unavailable"]]
          /\ UNCHANGED runReads
     ELSE /\ inspector' = [inspector EXCEPT !.locked = TRUE,
                             !.result = [NothingInspected EXCEPT !.is = "loading"]]
          /\ runReads' = Superseded(runReads) \cup
               {[scope |-> diag.scope, ids |-> inspector.ids, mine |-> TRUE, kept |-> TRUE]}
  /\ UNCHANGED <<diag, diagReads>>

\* The rest of inspectRun(); the finally unlocks the button of this inspection.
AskedSomething(r) == r.scope = diag.scope /\ inspector.ids # NoIds
StillAsked(r) == r.mine /\ r.scope = diag.scope /\ r.ids = inspector.ids
InspectSettles(r) ==
  /\ runReads' = runReads \ {r}
  /\ IF ~(diag.open /\ StillAsked(r)) THEN UNCHANGED inspector
     ELSE \E a \in Answer, ids \in {{i} : i \in RunIds} :
       inspector' = [inspector EXCEPT !.locked = FALSE,
         !.result = IF InspectsRun(r, a, ids)
                    THEN [is |-> "available", ids |-> ids, of |-> {a.of}]
                    ELSE [NothingInspected EXCEPT !.is = "unavailable"]]
  /\ UNCHANGED <<diag, diagReads>>

DiagInit ==
  /\ diag \in [scope : Scope, open : {FALSE}, shown : {ViewBlank}, locked : {FALSE}]
  /\ diagReads = {} /\ inspector = InspectorBlank /\ runReads = {}

DiagNext ==
  \/ DiagClick \/ DiagToggle \/ InspectRun
  \/ \E ids \in {NoIds} \cup {{i} : i \in RunIds} : InvalidateInput(ids)
  \/ \E r \in diagReads : DiagSettles(r)
  \/ \E r \in runReads : InspectSettles(r)

----------------------------------------------------------------------------
\* "Old run telemetry must never appear under a newly typed ID" (212), nor
\* under another scope, and the button is locked exactly while the inspection
\* of what is typed is under way, however often inputs, views and workspaces
\* change while reads are in flight (275-306).
InspectionMatchesInput ==
  /\ DiagTypeOK
  /\ inspector.result.is = "available" =>
       inspector.result.ids = inspector.ids /\ inspector.result.of = {diag.scope}
  /\ inspector.locked <=> \E r \in runReads : r.mine
  /\ inspector.locked => inspector.result.is = "loading"
=============================================================================
