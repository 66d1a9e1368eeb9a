------------------------ MODULE PersonalModelStatus ------------------------
(***************************************************************************)
(* PersonalModelStatus (apps/web/src/personal-model-status.ts): the model  *)
(* the Gateway of the selected workspace reports.                          *)
(***************************************************************************)
EXTENDS GatewayReads

VARIABLES
  models,      \* selected, opened, content, refreshButton.disabled
  modelReads   \* refreshes under way

modelvars == <<models, modelReads>>

ModelSources == {"models"}
ModelBlank == [is |-> "blank", of |-> {}, available |-> {}]
ModelLoading == [is |-> "loading", of |-> {}, available |-> {}]

\* inspectModelCatalog: the one model of this workspace's Gateway, or bad().
InspectModelCatalog(scope, a) == a.is = "valid" /\ a.of.ws = scope.ws

ModelRefreshes(m, reads) ==
  /\ models' = [m EXCEPT !.shown = ModelLoading, !.locked = TRUE]
  /\ modelReads' = Superseded(reads) \cup {[scope |-> m.scope, mine |-> TRUE, kept |-> TRUE]}

ModelClick == models.open /\ ~models.locked /\ ModelRefreshes(models, modelReads)

ModelToggle ==
  \/ ~models.open /\ ModelRefreshes([models EXCEPT !.open = TRUE], modelReads)
  \/ models.open /\ models' = [models EXCEPT !.open = FALSE]
     /\ modelReads' = Superseded(modelReads)

ModelRetarget(s) ==
  LET moved == [models EXCEPT !.scope = s, !.shown = ModelBlank] IN
  IF models.open THEN ModelRefreshes(moved, Retargeted(modelReads))
  ELSE models' = moved /\ modelReads' = Retargeted(modelReads)

\* The rest of refresh(): its catch asks for the epoch alone (104).
ModelSettles(r) ==
  /\ modelReads' = modelReads \ {r}
  /\ \E a \in Answer :
       LET returned == Returned(r.scope, r.kept, a)
           good == returned /\ InspectModelCatalog(r.scope, a)
           current == models.open /\ r.mine /\ (returned => r.scope = models.scope)
       IN models' = [models EXCEPT
            !.shown = IF ~current THEN @
                      ELSE [is |-> "shown", of |-> IF good THEN {a.of} ELSE {},
                            available |-> IF good THEN ModelSources ELSE {}],
            !.locked = IF r.mine THEN FALSE ELSE @]

ModelInit ==
  /\ models \in [scope : Scope, open : {FALSE}, shown : {ModelBlank}, locked : {FALSE}]
  /\ modelReads = {}

ModelNext == ModelClick \/ ModelToggle \/ \E r \in modelReads : ModelSettles(r)
=============================================================================
