------------------------ MODULE PersonalApplication ------------------------
(***************************************************************************)
(* PersonalChatApplication (apps/web/src/personal-chat-ui.ts): its panes,  *)
(* the list of previous chats, the controls the host allows and the three  *)
(* read-only views, all of one selected workspace.  ChatPane has the       *)
(* inside of a pane, CanvasWorkspace the Canvas beside them.               *)
(***************************************************************************)
EXTENDS PersonalDiagnostics, PersonalAgentActivity, PersonalModelStatus, Sequences

CONSTANTS
  MaxPanes,      \* MAX_PANES
  Sessions,      \* the sessions of a workspace, 1..n from the newest on
  PageSize,      \* the sessions of one page, 20 in the code
  MaxPaneIds,    \* bound: the panes ever opened
  MaxMoves       \* bound: the sessions that move while a list is shown

ASSUME ApplicationAssumption ==
  /\ MaxPanes \in Nat \ {0} /\ PageSize \in Nat \ {0}
  /\ Sessions \in Seq(Nat) /\ \A i \in DOMAIN Sessions : Sessions[i] = i
  /\ MaxPaneIds \in Nat \ {0} /\ MaxMoves \in Nat

VARIABLES
  scope,        \* selected
  panes,        \* the panes by id
  lastPane,     \* counter
  opening,      \* openHistoricalSession and insertCanvasNote under way
  hist,         \* historyPanel, historySeen, historyNextOffset, historyLoading
  histReads,    \* its reads; mine: of the current historyEpoch
  controls,     \* runCancelSupported and runPauseResumeSupported
  controlReads, \* refreshRunControls under way
  library,      \* external: the sessions at the owner, the newest first
  moved         \* history: those that moved to the front since the list was opened

LOCAL SE == INSTANCE SequencesExt

chats == <<panes, lastPane, opening>>
list == <<hist, histReads>>
grants == <<controls, controlReads>>
world == <<library, moved>>
views == <<diagvars, activityvars, modelvars>>
appvars == <<scope, chats, list, grants, world, views>>

\* note: the workspaces whose notes are in the composer.
EmptyPane == [has |-> "nothing", id |-> 0, of |-> {}, busy |-> FALSE, note |-> {}]
NoHistory == [hidden |-> TRUE, rows |-> << >>, next |-> 0, loading |-> FALSE]
NoMore == Len(Sessions) + MaxMoves + 1    \* historyNextOffset is null

AppTypeOK ==
  /\ scope \in Scope /\ lastPane \in 0..MaxPaneIds
  /\ DOMAIN panes \subseteq 1..lastPane /\ Cardinality(DOMAIN panes) \in 1..MaxPanes
  /\ \A p \in DOMAIN panes : panes[p] \in
       [has : {"nothing", "chat", "opened", "failed"}, id : Nat, of : SUBSET Scope,
        busy : BOOLEAN, note : SUBSET Scope]
  /\ hist.hidden \in BOOLEAN /\ hist.next \in 0..NoMore /\ hist.loading \in BOOLEAN
  /\ hist.rows \in Seq([id : Nat, of : Scope])
  /\ controls \in [is : {"loading", "shown"}, of : SUBSET Scope, available : SUBSET {"stop", "pause"}]

----------------------------------------------------------------------------
(* Panes *)

\* pane.generation++
NewPaneGeneration(p) == opening' = {IF o.pane = p THEN [o EXCEPT !.mine = FALSE] ELSE o : o \in opening}

Fill(p, pane) == panes' = [panes EXCEPT ![p] = pane]

OpensPane ==
  /\ Cardinality(DOMAIN panes) < MaxPanes /\ lastPane < MaxPaneIds
  /\ lastPane' = lastPane + 1
OpenPane ==
  /\ OpensPane
  /\ panes' = [p \in DOMAIN panes \cup {lastPane'} |->
                 IF p = lastPane' THEN EmptyPane ELSE panes[p]]
  /\ UNCHANGED opening

\* closePane(): the last pane is minimised instead.
ClosePane(p) ==
  /\ Cardinality(DOMAIN panes) > 1
  /\ panes' = [q \in DOMAIN panes \ {p} |-> panes[q]]
  /\ NewPaneGeneration(p) /\ UNCHANGED lastPane

NewConversation(p) ==
  /\ panes[p] # EmptyPane
  /\ Fill(p, EmptyPane) /\ NewPaneGeneration(p) /\ UNCHANGED lastPane

\* send() and what follows it (ChatPane): a chat begins or goes on, and ends.
SendIn(p) ==
  /\ ~panes[p].busy /\ panes[p].has # "failed"
  /\ Fill(p, [panes[p] EXCEPT !.has = IF @ = "nothing" THEN "chat" ELSE @,
                              !.of = {scope}, !.busy = TRUE, !.note = {}])
  /\ NewPaneGeneration(p) /\ UNCHANGED lastPane
ReplyEnds(p) ==
  /\ panes[p].busy /\ panes[p].has \in {"chat", "opened"}
  /\ Fill(p, [panes[p] EXCEPT !.busy = FALSE]) /\ UNCHANGED <<lastPane, opening>>

----------------------------------------------------------------------------
(* Previous chats *)

HistorySuperseded == {[r EXCEPT !.mine = FALSE] : r \in histReads}
ReadsPage(offset, before) ==
  histReads' = before \cup {[offset |-> offset, mine |-> TRUE, kept |-> TRUE]}

\* toggleHistory(), with the first page's loadHistoryPage() up to its await.
ToggleHistory ==
  /\ IF hist.hidden
     THEN hist' = [NoHistory EXCEPT !.hidden = FALSE, !.loading = TRUE]
          /\ ReadsPage(0, HistorySuperseded) /\ moved' = {}
     ELSE hist' = NoHistory /\ histReads' = HistorySuperseded /\ UNCHANGED moved
  /\ UNCHANGED library

\* The button Load older chats.
LoadOlderChats ==
  /\ ~hist.hidden /\ ~hist.loading /\ hist.next \in 1..(NoMore - 1)
  /\ hist' = [hist EXCEPT !.loading = TRUE] /\ ReadsPage(hist.next, histReads)
  /\ UNCHANGED world

\* The owner's page, and what loadHistoryPage() makes of it.
PageAt(offset) == [i \in 1..Cardinality(1..Len(library) \cap (offset + 1)..(offset + PageSize)) |->
                     [id |-> library[offset + i], of |-> scope]]
IsNew(rows) == \A i \in DOMAIN rows, j \in DOMAIN hist.rows : rows[i] # hist.rows[j]
WithRows(r) ==
  [hist EXCEPT !.rows = (IF r.offset = 0 THEN << >> ELSE @) \o PageAt(r.offset),
     !.next = IF Len(library) > r.offset + PageSize THEN r.offset + PageSize ELSE NoMore,
     !.loading = FALSE]
ShownPage(r) == ~hist.hidden
CurrentPage(r) == r.mine
HistorySettles(r) ==
  /\ histReads' = histReads \ {r} /\ UNCHANGED world
  /\ \/ ~CurrentPage(r) /\ UNCHANGED hist
     \/ CurrentPage(r) /\ r.kept /\ IsNew(PageAt(r.offset)) /\ hist' = WithRows(r)
     \/ CurrentPage(r) /\ hist' = [hist EXCEPT !.loading = FALSE]

\* openFromHistory(): an idle pane, else a new one, else no room for it; and
\* openHistoricalSession() up to its await.
NotBusy(pane) == ~pane.busy
Idle(pane) == ~pane.busy /\ pane.has = "nothing"
Opens(p, session) ==
  opening' = {IF o.pane = p THEN [o EXCEPT !.mine = FALSE] ELSE o : o \in opening}
             \cup {[op |-> "open", pane |-> p, id |-> session, of |-> scope, mine |-> TRUE]}
Opened == [EmptyPane EXCEPT !.busy = TRUE]
OpenFromHistory(i) ==
  /\ ~hist.hidden
  /\ \/ \E p \in DOMAIN panes :
          /\ Idle(panes[p]) /\ \A q \in DOMAIN panes : q < p => ~Idle(panes[q])
          /\ Fill(p, [Opened EXCEPT !.note = panes[p].note])
          /\ Opens(p, hist.rows[i].id) /\ UNCHANGED lastPane
     \/ /\ \A p \in DOMAIN panes : ~Idle(panes[p])
        /\ OpensPane /\ Opens(lastPane', hist.rows[i].id)
        /\ panes' = [p \in DOMAIN panes \cup {lastPane'} |->
                       IF p = lastPane' THEN Opened ELSE panes[p]]

\* The rest of openHistoricalSession(): it also closes the list, whatever the
\* list is doing by then.
OpeningSettles(o) ==
  /\ o.op = "open" /\ opening' = opening \ {o} /\ UNCHANGED <<lastPane, world>>
  /\ IF ~o.mine THEN UNCHANGED <<panes, list>>
     ELSE /\ \E has \in {"opened", "failed"} :
               Fill(o.pane, [panes[o.pane] EXCEPT !.has = has, !.busy = FALSE,
                    !.id = IF has = "opened" THEN o.id ELSE 0,
                    !.of = IF has = "opened" THEN {o.of} ELSE {}])
          /\ hist' = NoHistory /\ histReads' = HistorySuperseded

\* insertCanvasNote(): the note is read again, then goes into the composer
\* that is still of the same conversation.
InsertCanvasNote(p) ==
  /\ ~panes[p].busy
  /\ opening' = opening \cup {[op |-> "note", pane |-> p, id |-> 0, of |-> scope, mine |-> TRUE]}
  /\ UNCHANGED <<panes, lastPane>>
NoteSettles(o) ==
  /\ o.op = "note" /\ opening' = opening \ {o} /\ UNCHANGED lastPane
  /\ \/ UNCHANGED panes
     \/ o.mine /\ o.of = scope /\ Fill(o.pane, [panes[o.pane] EXCEPT !.note = @ \cup {o.of}])

----------------------------------------------------------------------------
(* The controls the host allows *)

RefreshRunControls(s, reads) ==
  /\ controls' = [is |-> "loading", of |-> {}, available |-> {}]
  /\ controlReads' = reads \cup {[scope |-> s, mine |-> TRUE, kept |-> TRUE]}

Authenticated(r, a) == a.is = "valid" /\ a.of.ws = r.scope.ws
ControlsSettle(r) ==
  /\ controlReads' = controlReads \ {r}
  /\ \E a \in Answer, supported \in SUBSET {"stop", "pause"} :
       LET allowed == IF Returned(r.scope, r.kept, a) /\ Authenticated(r, a)
                      THEN supported ELSE {} IN
       controls' = IF r.mine
                   THEN [is |-> "shown", of |-> IF allowed = {} THEN {} ELSE {a.of},
                         available |-> allowed]
                   ELSE controls

----------------------------------------------------------------------------
(* retarget(): the host has selected another workspace *)
Retarget(s) ==
  /\ scope' = s
  /\ RefreshRunControls(s, Retargeted(controlReads))
  /\ DiagRetarget(s) /\ ActivityRetarget(s) /\ ModelRetarget(s)
  /\ hist' = NoHistory
  /\ histReads' = Retargeted(histReads)
  /\ panes' = [p \in DOMAIN panes |-> EmptyPane]
  /\ opening' = {[o EXCEPT !.mine = FALSE] : o \in opening}
  /\ library' = Sessions /\ moved' = {} /\ UNCHANGED lastPane

\* A run is created in a session, here or elsewhere, or in a new one, which
\* comes to the front from its place k, or from behind the last.
ToFront(k, id) ==
  [i \in 1..Len(library) \cup {k} |->
     IF i = 1 THEN id ELSE IF i <= k THEN library[i - 1] ELSE library[i]]
SessionMoves(id) ==
  /\ Cardinality(moved) < MaxMoves /\ ~hist.hidden
  /\ \E k \in 1..(Len(library) + 1) :
       /\ \A i \in DOMAIN library : library[i] = id <=> i = k
       /\ library' = ToFront(k, id)
  /\ moved' = moved \cup {id}

----------------------------------------------------------------------------
AppInit ==
  /\ scope \in Scope
  /\ DiagInit /\ ActivityInit /\ ModelInit
  /\ diag.scope = scope /\ activity.scope = scope /\ models.scope = scope
  /\ panes = [p \in {1} |-> EmptyPane] /\ lastPane = 1 /\ opening = {}
  /\ hist = NoHistory /\ histReads = {}
  /\ controls = [is |-> "loading", of |-> {}, available |-> {}]
  /\ controlReads = {[scope |-> scope, mine |-> TRUE, kept |-> TRUE]}
  /\ library = Sessions /\ moved = {}

ChatsNext ==
  \/ /\ UNCHANGED <<list, world>>
     /\ \/ OpenPane
        \/ \E p \in DOMAIN panes :
             ClosePane(p) \/ NewConversation(p) \/ SendIn(p) \/ ReplyEnds(p) \/ InsertCanvasNote(p)
        \/ \E o \in opening : NoteSettles(o)
  \/ UNCHANGED chats /\ (ToggleHistory \/ LoadOlderChats \/ \E r \in histReads : HistorySettles(r))
  \/ UNCHANGED <<list, world>> /\ \E i \in DOMAIN hist.rows : OpenFromHistory(i)
  \/ \E o \in opening : OpeningSettles(o)
  \/ UNCHANGED <<chats, list>> /\ \E id \in 1..(Len(Sessions) + 1) : SessionMoves(id)

AppNext ==
  \/ \E s \in Scope : Retarget(s)
  \/ UNCHANGED <<scope, grants, views>> /\ ChatsNext
  \/ UNCHANGED <<scope, chats, list, world, views>> /\ \E r \in controlReads : ControlsSettle(r)
  \/ UNCHANGED <<scope, chats, list, world, grants, activityvars, modelvars>> /\ DiagNext
  \/ UNCHANGED <<scope, chats, list, world, grants, diagvars, modelvars>> /\ ActivityNext
  \/ UNCHANGED <<scope, chats, list, world, grants, diagvars, activityvars>> /\ ModelNext

AppSpec == AppInit /\ [][AppNext]_appvars

----------------------------------------------------------------------------
\* The four views of the host's state are what ScopedPanel promises: nothing
\* of a workspace left, nothing of a superseded refresh, and no button locked
\* for ever, whichever reads are late ("Only authenticated host status can
\* unlock Stop in this workspace", 190).
DP == INSTANCE ScopedPanel WITH Scopes <- Scope, Sources <- DiagSources,
  selected <- diag.scope, open <- diag.open, shown <- diag.shown, locked <- diag.locked
AP == INSTANCE ScopedPanel WITH Scopes <- Scope, Sources <- ActivitySources,
  selected <- activity.scope, open <- activity.open, shown <- activity.shown, locked <- activity.locked
MP == INSTANCE ScopedPanel WITH Scopes <- Scope, Sources <- ModelSources,
  selected <- models.scope, open <- models.open, shown <- models.shown, locked <- models.locked
CP == INSTANCE ScopedPanel WITH Scopes <- Scope, Sources <- {"stop", "pause"},
  selected <- scope, open <- TRUE, shown <- controls, locked <- controls.is = "loading"
ImplementsScopedPanel == DP!PanelSpec /\ AP!PanelSpec /\ MP!PanelSpec /\ CP!PanelSpec

\* The list of previous chats: of the selected workspace, each chat once, none
\* left out between two shown, none at all when no older page is offered; save
\* those that moved while it was shown.  Its button is locked exactly while its
\* page is read (235-305).
HistoryIsFaithful ==
  /\ AppTypeOK
  /\ \A i, j \in DOMAIN hist.rows : hist.rows[i].of = scope /\ (hist.rows[i].id = hist.rows[j].id => i = j)
  /\ LET shown == {hist.rows[i].id : i \in DOMAIN hist.rows} IN
     \A m \in DOMAIN library :
       \/ library[m] \in shown \cup moved
       \/ hist.next # NoMore /\ \A n \in m..Len(library) : library[n] \notin shown \ moved
  /\ hist.loading <=> \E r \in histReads : r.mine

\* "History must never silently replace an existing chat" (306-308): a pane
\* that holds one keeps it until the user begins a new one there or the
\* workspace changes; and neither it nor the composer holds anything of
\* another workspace.
ChatNeverReplaced ==
  [][\A p \in DOMAIN panes \cap DOMAIN panes' :
       /\ panes[p].has \in {"chat", "opened"} /\ panes'[p] # EmptyPane =>
            panes'[p].has = panes[p].has /\ panes'[p].id = panes[p].id
       /\ panes'[p].of \cup panes'[p].note \subseteq {scope'}]_appvars
=============================================================================
