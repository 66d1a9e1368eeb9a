----------------------------- MODULE MCBrowser -----------------------------
(***************************************************************************)
(* The parts of the browser besides the panes, the Canvas and the page on  *)
(* small instances, one of them in use in each behaviour; a change of      *)
(* workspace reaches all views of the application.                         *)
(***************************************************************************)
EXTENDS PersonalApplication, DashboardClient, LayoutManager, ChatStream, TLC

CONSTANTS s1, s2, wa, wb, Uses

VARIABLE use

mcvars == <<appvars, clientvars, layoutvars, vars, use>>

\* Two panels: one of a workspace, one of a system only.
TwoPanels ==
  [work |-> [systemScoped |-> TRUE, workspaceScoped |-> TRUE, canFloat |-> TRUE,
             canDetach |-> FALSE, presentations |-> {"full"}],
   usage |-> [systemScoped |-> TRUE, workspaceScoped |-> FALSE, canFloat |-> FALSE,
              canDetach |-> TRUE, presentations |-> {"full", "hud"}]]
PanelScopes == {[sys |-> s1, ws |-> wa], [sys |-> s1, ws |-> NoWorkspace]}
ThreeScopes == {[sys |-> s1, ws |-> wa], [sys |-> s1, ws |-> wb], [sys |-> s2, ws |-> wa]}
ThreeSessions == <<1, 2, 3>>

\* Bounds on the reads and openings under way, and on what is beside the use.
AtMost(n) ==
  /\ \A reads \in {diagReads, runReads, activityReads, modelReads, queries} : Cardinality(reads) <= n
  /\ Cardinality(histReads) + Cardinality(opening) <= n /\ Cardinality(DOMAIN cache) <= n
  /\ Cardinality(controlReads) <= IF use = "models" THEN n ELSE 1
OneUse ==
  /\ diag.open \/ diagReads # {} => use \in {"diagnostics", "inspection"}
  /\ use = "diagnostics" => inspector = InspectorBlank
  /\ use = "inspection" => diag.shown.available \in {{}, DiagSources} /\ Cardinality(diagReads) <= 1
  /\ activity.open \/ activityReads # {} => use = "activity" /\ filter \in {"all", "approval"}
  /\ models.open \/ modelReads # {} \/ controls.available # {} => use = "models"
  /\ ~hist.hidden \/ histReads # {} => use \in {"history", "chats"}
  /\ <<lastPane, panes, opening>> # <<1, <<EmptyPane>>, {}>> => use = "chats"
  /\ use \in {"activity", "history", "chats"} => scope.sys = s1
  /\ use \in {"client", "layout", "stream"} => scope = [sys |-> s1, ws |-> wa]
  /\ use # "client" => selection.scope = [sys |-> s1, ws |-> wa]
  /\ use = "client" => selection.scope.ws = wa
  /\ use = "chats" => /\ moved = {} /\ Len(hist.rows) <= 1 /\ (hist.loading => hist.next = 0)
                      /\ Cardinality({o \in opening : o.op = "note"}) <= 1
  /\ Cardinality(DOMAIN instances) <= 2
  /\ \A i \in DOMAIN instances : instances[i].state \in {"docked", "hud"}
  /\ \A saved \in presets : Cardinality(DOMAIN saved) <= 1 /\ \A i \in DOMAIN saved : saved[i].state = "docked"

MCInit == /\ AppInit /\ ClientInit /\ LayoutInit /\ Init
          /\ use \in Uses /\ OneUse

MCNext ==
  /\ UNCHANGED use
  /\ \/ use \notin {"client", "layout", "stream"} /\ AppNext
        /\ UNCHANGED <<clientvars, layoutvars, vars>>
     \/ use = "client" /\ ClientNext /\ UNCHANGED <<appvars, layoutvars, vars>>
     \/ use = "layout" /\ LayoutNext /\ UNCHANGED <<appvars, clientvars, vars>>
     \/ use = "stream" /\ Next /\ UNCHANGED <<appvars, clientvars, layoutvars>>
  /\ AtMost(2)' /\ OneUse'
MCSpec == MCInit /\ [][MCNext]_mcvars
=============================================================================
