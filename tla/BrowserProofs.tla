--------------------------- MODULE BrowserProofs ---------------------------
(***************************************************************************)
(* For any scopes, methods, panels, panes and bounds: what DashboardClient *)
(* gives is the answer to the question of the selection it was asked in;   *)
(* LayoutManager binds a panel anew only when asked to; the views of the   *)
(* application show what ScopedPanel promises, its run inspector what is of*)
(* the ids typed, its list of chats each chat once and none left out; a    *)
(* pane keeps its chat; and the text it shows of a run is exactly what the *)
(* subscription should have shown so far, for any log and any resumes.     *)
(***************************************************************************)
EXTENDS PersonalApplication, DashboardClient, LayoutManager, ChatStream,
        FiniteSetTheorems, SequenceTheorems, TLAPS

----------------------------------------------------------------------------
(* DashboardClient *)

\* An entry of the cache is the answer to its key; a query of this selection
\* asks about its scope, and none is of a selection to come.
CacheWell ==
  /\ DOMAIN cache \subseteq Key
  /\ \A k \in DOMAIN cache : cache[k].value = k.scope /\ cache[k].method = k.method
QueriesWell ==
  \A q \in queries :
    q.epoch <= selection.epoch /\ (q.epoch = selection.epoch => q.key.scope = selection.scope)
ClientInv == AnswersOfSelection /\ CacheWell /\ QueriesWell

\* What Gives leaves is one answer, with what it was asked for.
LEMMA GivenIsOne ==
  ASSUME NEW value, NEW method, NEW key, NEW asked, Gives(value, method, key, asked)
  PROVE  Cardinality(given') <= 1
<1>1. PICK g : given' = {g}
  BY DEF Gives
<1>2. Cardinality(given') = 1
  BY <1>1, FS_Singleton
<1> QED
  BY <1>2

\* A client begins with an empty cache and no query.
LEMMA ClientInitially == ClientInit => ClientInv
<1> SUFFICES ASSUME ClientInit PROVE ClientInv
  OBVIOUS
<1>1. Cardinality(given) <= 1
  BY FS_EmptySet DEF ClientInit, NothingGiven
<1>2. DOMAIN cache = {}
  BY DEF ClientInit
<1> QED
  BY <1>1, <1>2, ClientAssumption
  DEF ClientInit, ClientInv, AnswersOfSelection, ClientTypeOK, NothingGiven, CacheWell, QueriesWell

\* A query is answered by the cache or sent.
LEMMA QueryKeeps ==
  ASSUME ClientInv, NEW m \in Methods, NEW noCache \in BOOLEAN, Query(m, noCache)
  PROVE  ClientInv'
<1> USE DEF ClientInv, AnswersOfSelection, ClientTypeOK, CacheWell, QueriesWell, Key, KeyOf
<1>1. CASE ~noCache /\ Hit(KeyOf(selection.scope, m))
  <2>1. Gives(cache[KeyOf(selection.scope, m)].value, cache[KeyOf(selection.scope, m)].method,
              KeyOf(selection.scope, m), selection.epoch)
        /\ UNCHANGED <<selection, cache, queries>>
    BY <1>1 DEF Query
  <2>2. Cardinality(given') <= 1
    BY <2>1, GivenIsOne
  <2>3. cache[KeyOf(selection.scope, m)].value = selection.scope
        /\ cache[KeyOf(selection.scope, m)].method = m
    BY <1>1 DEF Hit
  <2>4. ASSUME NEW g \in given'
        PROVE  /\ g.value = g.key.scope /\ g.method = g.key.method
               /\ g.asked = g.selection.epoch /\ g.key.scope = g.selection.scope
    BY <2>1, <2>3 DEF Gives
  <2>5. UNCHANGED <<selection, cache, queries>>
    BY <2>1
  <2> QED
    BY <2>2, <2>4, <2>5
<1>2. CASE ~(~noCache /\ Hit(KeyOf(selection.scope, m)))
  <2> DEFINE wanted == ~noCache
  <2>0. wanted \in BOOLEAN
    OBVIOUS
  <2>1. /\ queries' = queries \cup {[key |-> KeyOf(selection.scope, m),
                                    epoch |-> selection.epoch, cached |-> wanted]}
        /\ UNCHANGED <<selection, cache, given>>
    BY <1>2 DEF Query
  <2> HIDE DEF wanted
  <2>2. selection.epoch \in Nat /\ selection.scope \in Scope
    BY ClientAssumption
  <2>3. ClientTypeOK'
    BY <2>0, <2>1, <2>2
  <2>4. CacheWell' /\ QueriesWell'
    BY <2>1, <2>2
  <2>5. AnswersOfSelection'
    BY <2>1, <2>3
  <2> QED
    BY <2>4, <2>5
<1> QED
  BY <1>1, <1>2

\* An answer is given and kept only in the selection it was asked in.
LEMMA QuerySettlesKeeps ==
  ASSUME ClientInv, NEW q \in queries, QuerySettles(q)
  PROVE  ClientInv'
<1> USE DEF ClientInv, AnswersOfSelection, ClientTypeOK, CacheWell, QueriesWell, Key, KeyOf
<1>1. CASE UNCHANGED <<cache, given>>
  BY <1>1 DEF QuerySettles
<1>2. CASE ~UNCHANGED <<cache, given>>
  <2>1. OfSelection(q) /\ Gives(q.key.scope, q.key.method, q.key, q.epoch)
        /\ UNCHANGED selection /\ queries' = queries \ {q}
    BY <1>2 DEF QuerySettles
  <2>2. Cardinality(given') <= 1
    BY <2>1, GivenIsOne
  <2>3. ASSUME NEW g \in given'
        PROVE  /\ g.value = g.key.scope /\ g.method = g.key.method
               /\ g.asked = g.selection.epoch /\ g.key.scope = g.selection.scope
    BY <2>1 DEF Gives, OfSelection
  <2>4. CASE cache' = cache
    BY <2>1, <2>2, <2>3, <2>4
  <2>5. CASE cache' # cache
    <3>1. cache' = [x \in DOMAIN cache \cup {q.key} |->
                      IF x = q.key THEN [value |-> q.key.scope, method |-> q.key.method, old |-> FALSE]
                      ELSE cache[x]]
      BY <1>2, <2>5 DEF QuerySettles
    <3> QED
      BY <2>1, <2>2, <2>3, <3>1
  <2> QED
    BY <2>4, <2>5
<1> QED
  BY <1>1, <1>2

\* One step of the client keeps its invariant.
LEMMA ClientStep == ClientInv /\ [ClientNext]_clientvars => ClientInv'
<1> SUFFICES ASSUME ClientInv, [ClientNext]_clientvars PROVE ClientInv'
  OBVIOUS
<1>1. CASE \E m \in Methods, noCache \in BOOLEAN : Query(m, noCache)
  BY <1>1, QueryKeeps
<1>2. CASE \E q \in queries : QuerySettles(q)
  BY <1>2, QuerySettlesKeeps
<1>3. ASSUME NEW s \in Scope, ClientRetarget(s) PROVE ClientInv'
  <2>1. selection.epoch + 1 \in 0..MaxSelections
    BY <1>3, ClientAssumption DEF ClientRetarget, ClientInv, AnswersOfSelection, ClientTypeOK
  <2>2. \A q \in queries : q.epoch <= selection.epoch /\ q.epoch \in Nat /\ selection.epoch \in Nat
    BY ClientAssumption DEF ClientInv, AnswersOfSelection, ClientTypeOK, QueriesWell
  <2> QED
    BY <1>3, <2>1, <2>2
    DEF ClientRetarget, ClientInv, AnswersOfSelection, ClientTypeOK, CacheWell, QueriesWell
<1>4. ASSUME NEW k \in DOMAIN cache, EntryAges(k) PROVE ClientInv'
  <2>1. /\ DOMAIN cache' = DOMAIN cache
        /\ \A x \in DOMAIN cache : x # k => cache'[x] = cache[x]
        /\ cache'[k] = [cache[k] EXCEPT !.old = TRUE]
    BY <1>4 DEF EntryAges
  <2>2. cache[k] \in [value : Scope, method : Methods, old : BOOLEAN]
    BY DEF ClientInv, AnswersOfSelection, ClientTypeOK
  <2>3. /\ cache'[k] \in [value : Scope, method : Methods, old : BOOLEAN]
        /\ cache'[k].value = cache[k].value /\ cache'[k].method = cache[k].method
    BY <2>1, <2>2
  <2> QED
    BY <1>4, <2>1, <2>3
  DEF EntryAges, ClientInv, AnswersOfSelection, ClientTypeOK, CacheWell, QueriesWell
<1>5. CASE ClearCache
  <2>1. DOMAIN cache' = {}
    BY <1>5 DEF ClearCache
  <2> QED
    BY <1>5, <2>1
    DEF ClearCache, ClientInv, AnswersOfSelection, ClientTypeOK, CacheWell, QueriesWell
<1>6. CASE UNCHANGED clientvars
  BY <1>6
  DEF clientvars, ClientInv, AnswersOfSelection, ClientTypeOK, CacheWell, QueriesWell
<1> QED
  BY <1>1, <1>2, <1>3, <1>4, <1>5, <1>6 DEF ClientNext

\* Whatever is selected in between, an answer that query() gives, from the
\* network or from the cache, is to the question of the selection it was asked
\* in (client.ts 230-275).
THEOREM AnswersAreOfSelection == ClientSpec => []AnswersOfSelection
<1>1. ClientInv => AnswersOfSelection
  BY DEF ClientInv
<1> QED
  BY <1>1, ClientInitially, ClientStep, PTL DEF ClientSpec

----------------------------------------------------------------------------
(* LayoutManager *)

\* The counter is ahead of every number given, also of those in the presets.
NumbersWell ==
  /\ counter \in Nat /\ DOMAIN instances \subseteq 1..counter
  /\ \A saved \in presets : DOMAIN saved \subseteq 1..counter

\* Nothing is mounted at the beginning.
LEMMA LayoutInitially == LayoutInit => NumbersWell
<1> SUFFICES ASSUME LayoutInit PROVE NumbersWell
  OBVIOUS
<1>1. DOMAIN instances = {}
  BY DEF LayoutInit
<1> QED
  BY <1>1 DEF LayoutInit, NumbersWell

\* No step gives a number beyond the counter.
LEMMA LayoutStep == NumbersWell /\ [LayoutNext]_layoutvars => NumbersWell'
<1> SUFFICES ASSUME NumbersWell, [LayoutNext]_layoutvars PROVE NumbersWell'
  OBVIOUS
<1>1. ASSUME NEW p, NEW s, NEW how, Mount(p, s, how) PROVE NumbersWell'
  BY <1>1 DEF Mount, Numbered, Placed, NumbersWell
<1>2. ASSUME NEW i \in DOMAIN instances, NEW state, SetState(i, state) PROVE NumbersWell'
  BY <1>2 DEF SetState, NumbersWell
<1>3. ASSUME NEW i \in DOMAIN instances, NEW how, SetPresentation(i, how) PROVE NumbersWell'
  BY <1>3 DEF SetPresentation, NumbersWell
<1>4. ASSUME NEW i \in DOMAIN instances, NEW s, RetargetPanel(i, s) PROVE NumbersWell'
  BY <1>4 DEF RetargetPanel, Rebinds, NumbersWell
<1>5. ASSUME NEW i \in DOMAIN instances, Unmount(i) PROVE NumbersWell'
  BY <1>5 DEF Unmount, NumbersWell
<1>6. CASE SavePreset
  BY <1>6 DEF SavePreset, NumbersWell
<1>7. CASE Reset
  <2>1. DOMAIN instances' = {}
    BY <1>7 DEF Reset
  <2> QED
    BY <1>7, <2>1 DEF Reset, NumbersWell
<1>8. CASE \E preset \in presets : LoadPreset(preset)
  BY <1>8 DEF LoadPreset, NumbersWell
<1>9. CASE \E p \in PanelIds : Register(p)
  BY <1>9 DEF Register, NumbersWell
<1>10. CASE UNCHANGED layoutvars
  BY <1>10 DEF layoutvars, NumbersWell
<1> QED
  BY <1>1, <1>2, <1>3, <1>4, <1>5, <1>6, <1>7, <1>8, <1>9, <1>10 DEF LayoutNext

\* What BindingsKept says of a step.
Changed == {i \in DOMAIN instances \cap DOMAIN instances' :
              \/ instances'[i].scope # instances[i].scope
              \/ instances'[i].panel # instances[i].panel}
KeepsBindings ==
  Changed # {} =>
    \/ instances' \in presets
    \/ /\ counter' = counter /\ Cardinality(Changed) = 1
       /\ \A i \in Changed : instances'[i] = [instances[i] EXCEPT !.scope = instances'[i].scope]

\* A step keeps the bindings it was not asked to change.
LEMMA LayoutStepKeeps == NumbersWell /\ [LayoutNext]_layoutvars => KeepsBindings
<1> SUFFICES ASSUME NumbersWell, [LayoutNext]_layoutvars PROVE KeepsBindings
  OBVIOUS
<1>1. ASSUME NEW p, NEW s, NEW how, Mount(p, s, how) PROVE KeepsBindings
  <2>1. counter + 1 \notin DOMAIN instances
    BY DEF NumbersWell
  <2>2. Changed = {}
    BY <1>1, <2>1 DEF Mount, Numbered, Placed, Changed
  <2> QED
    BY <2>2 DEF KeepsBindings
<1>2. ASSUME NEW i \in DOMAIN instances, NEW state, SetState(i, state) PROVE KeepsBindings
  <2>1. Changed = {}
    BY <1>2 DEF SetState, Changed
  <2> QED
    BY <2>1 DEF KeepsBindings
<1>3. ASSUME NEW i \in DOMAIN instances, NEW how, SetPresentation(i, how) PROVE KeepsBindings
  <2>1. Changed = {}
    BY <1>3 DEF SetPresentation, Changed
  <2> QED
    BY <2>1 DEF KeepsBindings
<1>4. ASSUME NEW i \in DOMAIN instances, NEW s, RetargetPanel(i, s) PROVE KeepsBindings
  <2>1. Changed = {} \/ Changed = {i}
    BY <1>4 DEF RetargetPanel, Rebinds, Changed
  <2>2. Cardinality({i}) = 1
    BY FS_Singleton
  <2>3. instances'[i] = [instances[i] EXCEPT !.scope = instances'[i].scope]
    BY <1>4 DEF RetargetPanel, Rebinds
  <2>4. counter' = counter
    BY <1>4 DEF RetargetPanel
  <2> QED
    BY <2>1, <2>2, <2>3, <2>4 DEF KeepsBindings
<1>5. ASSUME NEW i \in DOMAIN instances, Unmount(i) PROVE KeepsBindings
  <2>1. Changed = {}
    BY <1>5 DEF Unmount, Changed
  <2> QED
    BY <2>1 DEF KeepsBindings
<1>6. CASE Reset
  <2>1. DOMAIN instances' = {}
    BY <1>6 DEF Reset
  <2> QED
    BY <2>1 DEF KeepsBindings, Changed
<1>7. CASE \E preset \in presets : LoadPreset(preset)
  BY <1>7 DEF LoadPreset, KeepsBindings
<1>8. CASE UNCHANGED instances
  BY <1>8 DEF KeepsBindings, Changed
<1> QED
  BY <1>1, <1>2, <1>3, <1>4, <1>5, <1>6, <1>7, <1>8
  DEF LayoutNext, Register, SavePreset, layoutvars

\* A step binds one panel anew, because it was asked to, or restores a preset;
\* mounting a panel never takes the number of another (layout.ts 14-16, 73).
THEOREM BindingsStay == LayoutSpec => BindingsKept
<1>1. NumbersWell /\ [LayoutNext]_layoutvars => [KeepsBindings]_layoutvars
  BY LayoutStepKeeps
<1> QED
  BY <1>1, LayoutInitially, LayoutStep, PTL DEF LayoutSpec, BindingsKept, KeepsBindings, Changed

----------------------------------------------------------------------------
(* The run inspector of PersonalDiagnostics *)

\* The records of the view and of the inspector.
Reads == [scope : Scope, ids : SUBSET RunIds, mine : BOOLEAN, kept : BOOLEAN]
RefreshReads == [scope : Scope, mine : BOOLEAN, kept : BOOLEAN]
View == [scope : Scope, open : BOOLEAN, locked : BOOLEAN,
         shown : [is : {"blank", "loading", "shown"}, of : SUBSET Scope,
                  available : SUBSET DiagSources]]
Result == [is : {"idle", "loading", "available", "unavailable"},
           ids : SUBSET RunIds, of : SUBSET Scope]
Inspector == [ids : SUBSET RunIds, locked : BOOLEAN, result : Result]
ViewWell == diag \in View /\ diagReads \subseteq RefreshReads
InspectorWell == inspector \in Inspector /\ runReads \subseteq Reads

\* A read that is still wanted is of the selected scope and the typed ids, in
\* an open view.
InspectionsWell ==
  \A r \in runReads : r.mine =>
    r.scope = diag.scope /\ r.ids = inspector.ids /\ r.kept /\ diag.open

\* What is shown is of the typed ids; the button is locked while one is wanted.
ResultWell ==
  /\ inspector.result.is = "available" =>
       inspector.result.ids = inspector.ids /\ inspector.result.of = {diag.scope}
  /\ inspector.locked <=> \E r \in runReads : r.mine
  /\ inspector.locked => inspector.result.is = "loading"

InspectionInv == ViewWell /\ InspectorWell /\ InspectionsWell /\ ResultWell

\* The invariant says what the property says.
LEMMA InspectionInvSays == InspectionInv => InspectionMatchesInput
<1> SUFFICES ASSUME InspectionInv PROVE InspectionMatchesInput
  OBVIOUS
<1>1. DiagTypeOK
  BY DEF InspectionInv, ViewWell, InspectorWell, View, Inspector, Result, Reads, RefreshReads,
         DiagTypeOK
<1> QED
  BY <1>1 DEF InspectionInv, ResultWell, InspectionMatchesInput

\* Superseding reads keeps what they are, and none is wanted any more.
LEMMA SupersededReads ==
  ASSUME NEW reads, reads \subseteq Reads
  PROVE  /\ Superseded(reads) \subseteq Reads /\ \A r \in Superseded(reads) : ~r.mine
         /\ Retargeted(reads) \subseteq Reads /\ \A r \in Retargeted(reads) : ~r.mine
  BY DEF Superseded, Retargeted, Reads

\* So do the reads of a refresh.
LEMMA RefreshReadsStay ==
  ASSUME NEW reads, reads \subseteq RefreshReads
  PROVE  Superseded(reads) \subseteq RefreshReads /\ Retargeted(reads) \subseteq RefreshReads
  BY DEF Superseded, Retargeted, RefreshReads

\* Two inspections that are wanted are the same.
LEMMA WantedIsOne ==
  ASSUME InspectorWell, InspectionsWell, NEW r \in runReads, NEW q \in runReads, r.mine, q.mine
  PROVE  r = q
<1>1. r \in Reads /\ q \in Reads
  BY DEF InspectorWell
<1>2. r.scope = q.scope /\ r.ids = q.ids /\ r.mine = q.mine /\ r.kept = q.kept
  BY <1>1 DEF InspectionsWell, Reads
<1> QED
  BY <1>1, <1>2 DEF Reads

\* With no inspection wanted and nothing shown of one, all is well.
LEMMA BlankIsWell ==
  ASSUME inspector' \in Inspector, ~inspector'.locked, inspector'.result.is # "available",
         runReads' \subseteq Reads, \A r \in runReads' : ~r.mine
  PROVE  InspectorWell' /\ InspectionsWell' /\ ResultWell'
  BY DEF InspectorWell, InspectionsWell, ResultWell

\* The empty inspector, and the one with new ids.
LEMMA InspectorBlanks ==
  ASSUME NEW ids \in SUBSET RunIds
  PROVE  /\ InspectorBlank \in Inspector /\ ~InspectorBlank.locked
         /\ InspectorBlank.result.is = "idle"
         /\ [InspectorBlank EXCEPT !.ids = ids] \in Inspector
         /\ ~[InspectorBlank EXCEPT !.ids = ids].locked
         /\ [InspectorBlank EXCEPT !.ids = ids].result.is = "idle"
  BY DEF InspectorBlank, NothingInspected, NoIds, Inspector, Result

\* The beginning of a refresh keeps the view, whatever was open before.
LEMMA RefreshKeepsView ==
  ASSUME NEW d \in View, NEW reads, reads \subseteq RefreshReads, DiagRefreshes(d, reads)
  PROVE  ViewWell' /\ diag'.scope = d.scope /\ diag'.open = d.open
<1>1. Superseded(reads) \subseteq RefreshReads
  BY RefreshReadsStay
<1>2. DiagReading(d.scope) \in RefreshReads
  BY DEF DiagReading, RefreshReads, View
<1>3. DiagRefreshed(d) \in View /\ DiagRefreshed(d).scope = d.scope /\ DiagRefreshed(d).open = d.open
  BY DEF DiagRefreshed, ViewLoading, View
<1> QED
  BY <1>1, <1>2, <1>3 DEF DiagRefreshes, ViewWell

\* A view begins closed, with an empty inspector.
LEMMA DiagInitially == DiagInit => InspectionInv
<1> SUFFICES ASSUME DiagInit PROVE InspectionInv
  OBVIOUS
<1>1. ViewWell
  <2>1. ViewBlank \in [is : {"blank", "loading", "shown"}, of : SUBSET Scope,
                      available : SUBSET DiagSources]
    BY DEF ViewBlank
  <2>2. diag \in View
    BY <2>1 DEF DiagInit, View
  <2> QED
    BY <2>2 DEF DiagInit, ViewWell
<1>2. inspector \in Inspector /\ ~inspector.locked /\ inspector.result.is = "idle"
  BY InspectorBlanks DEF DiagInit
<1>3. runReads = {}
  BY DEF DiagInit
<1> QED
  BY <1>1, <1>2, <1>3 DEF InspectionInv, InspectorWell, InspectionsWell, ResultWell

\* The view alone: while the inspector rests, its parts stay.
LEMMA InspectorRests ==
  ASSUME InspectionInv, UNCHANGED <<inspector, runReads>>,
         diag'.scope = diag.scope, diag.open => diag'.open
  PROVE  InspectorWell' /\ InspectionsWell' /\ ResultWell'
  BY DEF InspectionInv, InspectorWell, InspectionsWell, ResultWell

\* Another workspace: every inspection under way is forgotten.
LEMMA RetargetKeeps ==
  ASSUME InspectionInv, NEW s \in Scope, DiagRetarget(s)
  PROVE  InspectionInv'
<1> DEFINE there == [diag EXCEPT !.scope = s, !.shown = ViewBlank]
<1>1. there \in View
  BY DEF InspectionInv, ViewWell, View, ViewBlank
<1>2. Retargeted(diagReads) \subseteq RefreshReads
  BY RefreshReadsStay DEF InspectionInv, ViewWell
<1>3. ViewWell'
  <2>1. CASE diag.open
    BY <1>1, <1>2, <2>1, RefreshKeepsView DEF DiagRetarget
  <2>2. CASE ~diag.open
    BY <1>1, <1>2, <2>2 DEF DiagRetarget, ViewWell
  <2> QED
    BY <2>1, <2>2
<1>4. runReads' \subseteq Reads /\ \A r \in runReads' : ~r.mine
  BY SupersededReads DEF DiagRetarget, InspectionInv, InspectorWell
<1>5. inspector' \in Inspector /\ ~inspector'.locked /\ inspector'.result.is = "idle"
  BY InspectorBlanks DEF DiagRetarget, ResetRunInspection
<1> QED
  BY <1>3, <1>4, <1>5, BlankIsWell DEF InspectionInv

\* Opening begins a refresh, closing forgets the inspection.
LEMMA ToggleKeeps ==
  ASSUME InspectionInv, DiagToggle
  PROVE  InspectionInv'
<1>1. CASE ~diag.open
  <2>1. [diag EXCEPT !.open = TRUE] \in View /\ [diag EXCEPT !.open = TRUE].scope = diag.scope
        /\ [diag EXCEPT !.open = TRUE].open
    BY DEF InspectionInv, ViewWell, View
  <2>2. ViewWell' /\ diag'.scope = diag.scope /\ diag'.open
    BY <1>1, <2>1, RefreshKeepsView DEF DiagToggle, InspectionInv, ViewWell
  <2> QED
    BY <1>1, <2>2, InspectorRests DEF DiagToggle, InspectionInv
<1>2. CASE diag.open
  <2>1. ViewWell'
    BY <1>2, RefreshReadsStay DEF DiagToggle, InspectionInv, ViewWell, View
  <2>2. runReads' \subseteq Reads /\ \A r \in runReads' : ~r.mine
    BY <1>2, SupersededReads DEF DiagToggle, InspectionInv, InspectorWell
  <2>3. inspector' \in Inspector /\ ~inspector'.locked /\ inspector'.result.is = "idle"
    BY <1>2, InspectorBlanks DEF DiagToggle, ResetRunInspection
  <2> QED
    BY <2>1, <2>2, <2>3, BlankIsWell DEF InspectionInv
<1> QED
  BY <1>1, <1>2 DEF InspectionInv, ViewWell, View

\* What a refresh shows is of scopes that can be selected.
LEMMA SpeaksOfScope ==
  ASSUME NEW source \in DiagSources, NEW r \in RefreshReads, NEW a \in Answer,
         Available(source, r, a)
  PROVE  SpeaksOf(source, r.scope, a) \in Scope
<1>1. a.of \in Scope /\ r.scope \in Scope
  BY DEF Answer, RefreshReads
<1>2. CASE source = "system"
  <2>1. a.of.sys = r.scope.sys
    BY <1>2 DEF Available, Inspects
  <2>2. a.of = [sys |-> a.of.sys, ws |-> a.of.ws] /\ r.scope = [sys |-> r.scope.sys, ws |-> r.scope.ws]
    BY <1>1, ReadsAssumption
  <2>3. [a.of EXCEPT !.ws = r.scope.ws] = r.scope
    BY <2>1, <2>2
  <2> QED
    BY <1>1, <1>2, <2>3 DEF SpeaksOf
<1>3. CASE source # "system"
  BY <1>1, <1>3 DEF SpeaksOf
<1> QED
  BY <1>2, <1>3

\* The end of a refresh leaves the inspector alone.
LEMMA DiagSettlesKeeps ==
  ASSUME InspectionInv, NEW r \in diagReads, DiagSettles(r)
  PROVE  InspectionInv'
<1>1. r \in RefreshReads /\ diag \in View /\ diagReads' \subseteq RefreshReads
  BY DEF InspectionInv, ViewWell, DiagSettles
<1>2. CASE ~(diag.open /\ r.mine /\ r.scope = diag.scope)
  <2>1. UNCHANGED diag /\ UNCHANGED <<inspector, runReads>>
    BY <1>2 DEF DiagSettles
  <2>2. ViewWell'
    BY <1>1, <2>1 DEF ViewWell
  <2> QED
    BY <2>1, <2>2, InspectorRests DEF InspectionInv
<1>3. CASE diag.open /\ r.mine /\ r.scope = diag.scope
  <2>1. PICK odd \in DiagSources, a \in Answer :
          diag' = [diag EXCEPT !.locked = FALSE,
            !.shown = [is |-> "shown",
              of |-> {SpeaksOf(source, r.scope, IF source = odd THEN a ELSE Usual(r.scope)) :
                        source \in {source \in DiagSources :
                          Available(source, r, IF source = odd THEN a ELSE Usual(r.scope))}},
              available |-> {source \in DiagSources :
                          Available(source, r, IF source = odd THEN a ELSE Usual(r.scope))}]]
    BY <1>3 DEF DiagSettles
  <2> DEFINE answer(source) == IF source = odd THEN a ELSE Usual(r.scope)
             good == {source \in DiagSources : Available(source, r, answer(source))}
             of == {SpeaksOf(source, r.scope, answer(source)) : source \in good}
  <2>2. \A source \in DiagSources : answer(source) \in Answer
    BY <1>1 DEF Usual, Answer, RefreshReads
  <2>3. of \subseteq Scope
    BY <1>1, <2>2, SpeaksOfScope
  <2>4. good \subseteq DiagSources
    OBVIOUS
  <2>5. diag' = [diag EXCEPT !.locked = FALSE,
                   !.shown = [is |-> "shown", of |-> of, available |-> good]]
    BY <2>1
  <2> HIDE DEF of, good
  <2>6. diag' \in View /\ diag'.scope = diag.scope /\ diag'.open = diag.open
    BY <1>1, <2>3, <2>4, <2>5 DEF View
  <2>7. ViewWell'
    BY <1>1, <2>6 DEF ViewWell
  <2> QED
    BY <2>6, <2>7, InspectorRests DEF InspectionInv, DiagSettles
<1> QED
  BY <1>2, <1>3

\* The ids are edited.
LEMMA InvalidateKeeps ==
  ASSUME InspectionInv, NEW ids \in SUBSET RunIds, InvalidateInput(ids)
  PROVE  InspectionInv'
<1>1. ViewWell'
  BY DEF InvalidateInput, InspectionInv, ViewWell
<1>2. runReads' \subseteq Reads /\ \A r \in runReads' : ~r.mine
  BY SupersededReads DEF InvalidateInput, InspectionInv, InspectorWell
<1>3. inspector' \in Inspector /\ ~inspector'.locked /\ inspector'.result.is = "idle"
  BY InspectorBlanks DEF InvalidateInput
<1> QED
  BY <1>1, <1>2, <1>3, BlankIsWell DEF InspectionInv

\* A new inspection supersedes the ones before.
LEMMA InspectRunKeeps ==
  ASSUME InspectionInv, InspectRun
  PROVE  InspectionInv'
<1>1. ViewWell' /\ inspector \in Inspector /\ runReads \subseteq Reads /\ diag.scope \in Scope
  BY DEF InspectRun, InspectionInv, InspectorWell, ViewWell, View
<1>2. CASE inspector.ids = NoIds
  <2>1. inspector' \in Inspector /\ ~inspector'.locked /\ inspector'.result.is = "unavailable"
    BY <1>1, <1>2 DEF InspectRun, Inspector, Result, NothingInspected, NoIds
  <2>2. runReads' \subseteq Reads /\ \A r \in runReads' : ~r.mine
    BY <1>1, <1>2 DEF InspectRun, InspectionInv, ResultWell
  <2> QED
    BY <1>1, <2>1, <2>2, BlankIsWell DEF InspectionInv
<1>3. CASE inspector.ids # NoIds
  <2> DEFINE new == [scope |-> diag.scope, ids |-> inspector.ids, mine |-> TRUE, kept |-> TRUE]
  <2> DEFINE asked == [NothingInspected EXCEPT !.is = "loading"]
  <2>a. asked \in Result /\ asked.is = "loading"
    BY DEF NothingInspected, NoIds, Result
  <2>b. inspector' = [inspector EXCEPT !.locked = TRUE, !.result = asked]
    BY <1>3 DEF InspectRun
  <2>1. /\ inspector' \in Inspector /\ inspector'.locked
        /\ inspector'.result.is = "loading" /\ inspector'.ids = inspector.ids
    <3> HIDE DEF asked
    <3> QED
      BY <1>1, <2>a, <2>b DEF Inspector
  <2>2. new \in Reads /\ new.mine
    BY <1>1 DEF Reads, Inspector
  <2>3. /\ runReads' = Superseded(runReads) \cup {new}
        /\ UNCHANGED diag /\ diag.open
    BY <1>3 DEF InspectRun
  <2>4. Superseded(runReads) \subseteq Reads /\ \A r \in Superseded(runReads) : ~r.mine
    BY <1>1, SupersededReads
  <2>5. InspectorWell'
    BY <2>1, <2>2, <2>3, <2>4 DEF InspectorWell
  <2>6. InspectionsWell'
    BY <2>1, <2>3, <2>4 DEF InspectionsWell
  <2>7. ResultWell'
    BY <2>1, <2>2, <2>3 DEF ResultWell
  <2> QED
    BY <1>1, <2>5, <2>6, <2>7 DEF InspectionInv
<1> QED
  BY <1>2, <1>3

\* An answer is shown only while it is wanted, and is then of the selection.
LEMMA InspectSettlesKeeps ==
  ASSUME InspectionInv, NEW r \in runReads, InspectSettles(r)
  PROVE  InspectionInv'
<1>1. /\ ViewWell' /\ inspector \in Inspector /\ r \in Reads
      /\ runReads' = runReads \ {r} /\ runReads' \subseteq Reads /\ UNCHANGED diag
  BY DEF InspectSettles, InspectionInv, InspectorWell, ViewWell
<1>2. CASE ~(diag.open /\ StillAsked(r))
  <2>1. UNCHANGED inspector
    BY <1>2 DEF InspectSettles
  <2>2. ~r.mine
    BY <1>2 DEF InspectionInv, InspectionsWell, StillAsked
  <2>3. InspectorWell' /\ InspectionsWell'
    BY <1>1, <2>1 DEF InspectionInv, InspectorWell, InspectionsWell
  <2>4. ResultWell'
    BY <1>1, <2>1, <2>2 DEF InspectionInv, ResultWell
  <2> QED
    BY <1>1, <2>3, <2>4 DEF InspectionInv
<1>3. CASE diag.open /\ StillAsked(r)
  <2>1. PICK a \in Answer, ids \in {{i} : i \in RunIds} :
          inspector' = [inspector EXCEPT !.locked = FALSE,
            !.result = IF InspectsRun(r, a, ids)
                       THEN [is |-> "available", ids |-> ids, of |-> {a.of}]
                       ELSE [NothingInspected EXCEPT !.is = "unavailable"]]
    BY <1>3 DEF InspectSettles
  <2>2. \A q \in runReads' : ~q.mine
    BY <1>1, <1>3, WantedIsOne DEF InspectionInv, StillAsked
  <2>3. CASE InspectsRun(r, a, ids)
    <3>1. a.of = diag.scope
      <4>1. a.of \in Scope /\ diag.scope \in Scope
        BY <1>1 DEF Answer, InspectionInv, ViewWell, View
      <4>2. a.of.sys = diag.scope.sys /\ a.of.ws = diag.scope.ws
        BY <1>3, <2>3 DEF InspectsRun, Returned, StillAsked
      <4> QED
        BY <4>1, <4>2, ReadsAssumption
    <3>2. ids = inspector.ids
      BY <1>3, <2>3 DEF InspectsRun, StillAsked
    <3>3. /\ inspector' \in Inspector /\ ~inspector'.locked /\ inspector'.ids = inspector.ids
          /\ inspector'.result.ids = inspector.ids /\ inspector'.result.of = {diag.scope}
      BY <1>1, <2>1, <2>3, <3>1, <3>2 DEF Inspector, Result, InspectionInv, ViewWell, View
    <3> QED
      BY <1>1, <2>2, <3>3 DEF InspectionInv, InspectorWell, InspectionsWell, ResultWell
  <2>4. CASE ~InspectsRun(r, a, ids)
    <3>1. inspector' \in Inspector /\ ~inspector'.locked /\ inspector'.result.is = "unavailable"
      BY <1>1, <2>1, <2>4 DEF Inspector, Result, NothingInspected, NoIds
    <3> QED
      BY <1>1, <2>2, <3>1, BlankIsWell DEF InspectionInv
  <2> QED
    BY <2>3, <2>4
<1> QED
  BY <1>2, <1>3

\* One step of the application keeps the inspector's invariant.
LEMMA InspectionStep == InspectionInv /\ [AppNext]_appvars => InspectionInv'
<1> SUFFICES ASSUME InspectionInv, [AppNext]_appvars PROVE InspectionInv'
  OBVIOUS
<1>1. CASE DiagClick
  <2>1. ViewWell' /\ diag'.scope = diag.scope /\ diag'.open = diag.open
    BY <1>1, RefreshKeepsView DEF DiagClick, InspectionInv, ViewWell
  <2> QED
    BY <1>1, <2>1, InspectorRests DEF DiagClick, InspectionInv
<1>2. CASE DiagToggle
  BY <1>2, ToggleKeeps
<1>3. CASE InspectRun
  BY <1>3, InspectRunKeeps
<1>4. ASSUME NEW ids \in {NoIds} \cup {{i} : i \in RunIds}, InvalidateInput(ids) PROVE InspectionInv'
  <2>1. ids \in SUBSET RunIds
    BY DEF NoIds
  <2> QED
    BY <1>4, <2>1, InvalidateKeeps
<1>5. CASE \E r \in diagReads : DiagSettles(r)
  BY <1>5, DiagSettlesKeeps
<1>6. CASE \E r \in runReads : InspectSettles(r)
  BY <1>6, InspectSettlesKeeps
<1>7. CASE \E s \in Scope : Retarget(s)
  BY <1>7, RetargetKeeps DEF Retarget
<1>8. CASE UNCHANGED diagvars
  BY <1>8 DEF diagvars, InspectionInv, ViewWell, InspectorWell, InspectionsWell, ResultWell
<1> QED
  BY <1>1, <1>2, <1>3, <1>4, <1>5, <1>6, <1>7, <1>8 DEF AppNext, DiagNext, views, appvars

\* What the run inspector shows is of the ids that are typed and of the
\* selected scope, and its button is locked exactly while their inspection is
\* under way, among all that the application does (personal-diagnostics.ts
\* 213-306).
THEOREM InspectionIsOfInput == AppSpec => []InspectionMatchesInput
<1>1. AppInit => InspectionInv
  BY DiagInitially DEF AppInit
<1> QED
  BY <1>1, InspectionStep, InspectionInvSays, PTL DEF AppSpec
----------------------------------------------------------------------------
(* The views of the host's state are what ScopedPanel promises *)

\* A read of a refresh that is still wanted is the one the view waits for.
DiagWaits ==
  \A r \in diagReads : r.mine =>
    r.scope = diag.scope /\ r.kept /\ diag.open /\ diag.locked /\ diag.shown = ViewLoading
DiagPanelInv == ViewWell /\ DiagWaits

ModelView == [scope : Scope, open : BOOLEAN, locked : BOOLEAN,
              shown : [is : {"blank", "loading", "shown"}, of : SUBSET Scope,
                       available : SUBSET ModelSources]]
ModelWaits ==
  \A r \in modelReads : r.mine =>
    r.scope = models.scope /\ r.kept /\ models.open /\ models.locked /\ models.shown = ModelLoading
ModelPanelInv == models \in ModelView /\ modelReads \subseteq RefreshReads /\ ModelWaits

Controls == [is : {"loading", "shown"}, of : SUBSET Scope, available : SUBSET {"stop", "pause"}]
ControlsLoading == [is |-> "loading", of |-> {}, available |-> {}]
ControlsWait ==
  \A r \in controlReads : r.mine => r.scope = scope /\ r.kept /\ controls = ControlsLoading
ControlsInv ==
  scope \in Scope /\ controls \in Controls /\ controlReads \subseteq RefreshReads /\ ControlsWait

\* The two owners of the activity are asked apart: a read holds what has been
\* answered so far, and all of it is of its scope.
ActivityView == [scope : Scope, open : BOOLEAN, locked : BOOLEAN,
                 shown : [is : {"blank", "loading", "shown"}, of : SUBSET Scope,
                          available : SUBSET ActivitySources]]
PartOf(s) == {Unanswered, Failed, [is |-> "ok", of |-> {s}]}
Part == [is : {"pending", "failed", "ok"}, of : SUBSET Scope]
ActivityRead == [scope : Scope, mine : BOOLEAN, kept : BOOLEAN, waiting : Nat,
                 local : Part, canonical : Part, runs : SUBSET Scope]
PartsOfScope(r) ==
  r.local \in PartOf(r.scope) /\ r.canonical \in PartOf(r.scope) /\ r.runs \subseteq {r.scope}
ActivityWaits ==
  /\ \A r, q \in activityReads : r.mine /\ q.mine => r = q
  /\ \A r \in activityReads :
       /\ PartsOfScope(r)
       /\ r.mine => /\ r.scope = activity.scope /\ r.kept /\ activity.open
                    /\ activity.locked /\ activity.shown = ActivityLoading
ActivityPanelInv ==
  activity \in ActivityView /\ activityReads \subseteq ActivityRead /\ ActivityWaits

\* An answer the client returns, about the workspace of the read, is of its scope.
LEMMA AnswerOfScope ==
  ASSUME NEW s \in Scope, NEW kept, NEW a \in Answer, Returned(s, kept, a), a.of.ws = s.ws
  PROVE  a.of = s
<1>1. a.of \in Scope /\ a.of.sys = s.sys
  BY DEF Answer, Returned
<1>2. a.of = [sys |-> a.of.sys, ws |-> a.of.ws] /\ s = [sys |-> s.sys, ws |-> s.ws]
  BY <1>1, ReadsAssumption
<1> QED
  BY <1>1, <1>2

\* Superseded reads of a refresh are wanted no more.
LEMMA SupersededRefresh ==
  ASSUME NEW reads, reads \subseteq RefreshReads
  PROVE  /\ \A r \in Superseded(reads) : r \in RefreshReads /\ ~r.mine
         /\ \A r \in Retargeted(reads) : r \in RefreshReads /\ ~r.mine
  BY DEF Superseded, Retargeted, RefreshReads

\* At most one read of a refresh is waited for.
LEMMA WaitedIsOne ==
  ASSUME NEW s, NEW r \in RefreshReads, NEW q \in RefreshReads,
         r.mine, q.mine, r.kept, q.kept, r.scope = s, q.scope = s
  PROVE  r = q
  BY DEF RefreshReads

----------------------------------------------------------------------------
(* The status *)

\* A refresh begins: its read is the one waited for.
LEMMA DiagRefreshWaits ==
  ASSUME NEW d \in View, d.open, NEW old, \A r \in old : r \in RefreshReads /\ ~r.mine,
         diag' = DiagRefreshed(d), diagReads' = old \cup {DiagReading(d.scope)}
  PROVE  /\ DiagPanelInv' /\ diag'.scope = d.scope /\ diag'.open = d.open
         /\ diag'.shown = ViewLoading /\ diag'.locked
<1>1. /\ DiagRefreshed(d) \in View /\ DiagRefreshed(d).scope = d.scope
      /\ DiagRefreshed(d).open = d.open
      /\ DiagRefreshed(d).shown = ViewLoading /\ DiagRefreshed(d).locked
  BY DEF DiagRefreshed, ViewLoading, View
<1>2. DiagReading(d.scope) \in RefreshReads /\ DiagReading(d.scope).scope = d.scope
      /\ DiagReading(d.scope).kept
  BY DEF DiagReading, RefreshReads, View
<1> QED
  BY <1>1, <1>2 DEF DiagPanelInv, ViewWell, DiagWaits

\* The sources that answer a refresh, and the scopes they speak of.
GoodSources(r, odd, a) ==
  {source \in DiagSources : Available(source, r, IF source = odd THEN a ELSE Usual(r.scope))}
GoodScopes(r, odd, a) ==
  {SpeaksOf(source, r.scope, IF source = odd THEN a ELSE Usual(r.scope)) :
     source \in GoodSources(r, odd, a)}

\* What the end of a refresh shows is of the selected scope.
LEMMA DiagShows ==
  ASSUME NEW r \in RefreshReads, r.kept, NEW odd \in DiagSources, NEW a \in Answer
  PROVE  GoodScopes(r, odd, a) = IF GoodSources(r, odd, a) = {} THEN {} ELSE {r.scope}
<1> DEFINE good == GoodSources(r, odd, a)
<1> DEFINE answer(source) == IF source = odd THEN a ELSE Usual(r.scope)
<1>1. ASSUME NEW source \in good PROVE SpeaksOf(source, r.scope, answer(source)) = r.scope
  <2>1. /\ r.scope \in Scope /\ answer(source) \in Answer
        /\ Available(source, r, answer(source)) /\ source \in DiagSources
    BY DEF RefreshReads, Usual, Answer, GoodSources
  <2> HIDE DEF answer
  <2> DEFINE b == answer(source)
  <2>2. b \in Answer /\ Returned(r.scope, r.kept, b) /\ Inspects(source, r.scope, b)
    BY <2>1 DEF Available
  <2> HIDE DEF b
  <2>3. CASE source = "system"
    <3>1. b.of \in Scope /\ b.of.sys = r.scope.sys
      BY <2>2, <2>3 DEF Inspects, Answer
    <3>2. b.of = [sys |-> b.of.sys, ws |-> b.of.ws] /\ r.scope = [sys |-> r.scope.sys, ws |-> r.scope.ws]
      BY <2>1, <3>1, ReadsAssumption
    <3>3. [b.of EXCEPT !.ws = r.scope.ws] = r.scope
      BY <3>1, <3>2
    <3> QED
      BY <2>3, <3>3 DEF SpeaksOf, b
  <2>4. CASE source # "system"
    <3>1. b.of.ws = r.scope.ws
      BY <2>2, <2>4 DEF Inspects
    <3>2. b.of = r.scope
      BY <2>1, <2>2, <3>1, AnswerOfScope
    <3> QED
      BY <2>4, <3>2 DEF SpeaksOf, b
  <2> QED
    BY <2>3, <2>4
<1> HIDE DEF answer, good
<1>2. {SpeaksOf(source, r.scope, answer(source)) : source \in good}
        = IF good = {} THEN {} ELSE {r.scope}
  BY <1>1
<1> QED
  BY <1>2 DEF answer, good, GoodScopes

\* The end of a refresh.
LEMMA DiagSettlesImplements ==
  ASSUME DiagPanelInv, NEW r \in diagReads, DiagSettles(r)
  PROVE  DiagPanelInv' /\ [DP!PanelNext]_(DP!panel)
<1>1. r \in RefreshReads /\ diag \in View /\ diagReads' = diagReads \ {r}
      /\ diagReads \subseteq RefreshReads
  BY DEF DiagPanelInv, ViewWell, DiagSettles
<1>2. CASE ~r.mine
  <2>1. UNCHANGED diag
    BY <1>2 DEF DiagSettles
  <2> QED
    BY <1>1, <2>1 DEF DiagPanelInv, ViewWell, DiagWaits, DP!panel
<1>3. CASE r.mine
  <2>1. /\ r.scope = diag.scope /\ r.kept /\ diag.open /\ diag.locked /\ diag.shown = ViewLoading
    BY <1>3 DEF DiagPanelInv, DiagWaits
  <2>2. PICK odd \in DiagSources, a \in Answer :
          diag' = [diag EXCEPT !.locked = FALSE,
                     !.shown = [is |-> "shown", of |-> GoodScopes(r, odd, a),
                                available |-> GoodSources(r, odd, a)]]
    BY <1>3, <2>1 DEF DiagSettles, GoodScopes, GoodSources
  <2>3. PICK good : good = GoodSources(r, odd, a)
    OBVIOUS
  <2>4. diag' = [diag EXCEPT !.locked = FALSE,
                   !.shown = [is |-> "shown", of |-> IF good = {} THEN {} ELSE {diag.scope},
                              available |-> good]]
    BY <1>1, <2>1, <2>2, <2>3, DiagShows
  <2>5. good \subseteq DiagSources
    BY <2>3 DEF GoodSources
  <2>6. /\ diag' \in View /\ diag'.scope = diag.scope /\ diag'.open = diag.open /\ ~diag'.locked
        /\ diag'.locked = FALSE
        /\ diag'.shown = [is |-> "shown", of |-> IF good = {} THEN {} ELSE {diag.scope},
                          available |-> good]
    BY <1>1, <2>4, <2>5 DEF View
  <2>7. \A q \in diagReads' : ~q.mine
    BY <1>1, <1>3, WaitedIsOne DEF DiagPanelInv, DiagWaits
  <2>8. DP!PanelSettles
    BY <2>1, <2>5, <2>6 DEF DP!PanelSettles, DP!Loading, ViewLoading
  <2> QED
    BY <1>1, <2>6, <2>7, <2>8 DEF DiagPanelInv, ViewWell, DiagWaits, DP!PanelNext
<1> QED
  BY <1>2, <1>3

\* Another workspace is selected.
LEMMA DiagRetargetImplements ==
  ASSUME DiagPanelInv, NEW s \in Scope, DiagRetarget(s)
  PROVE  DiagPanelInv' /\ DP!PanelRetargets
<1> DEFINE gone == [diag EXCEPT !.scope = s, !.shown = ViewBlank]
<1>1. /\ gone \in View /\ gone.scope = s /\ gone.open = diag.open /\ gone.locked = diag.locked
      /\ gone.shown = ViewBlank
  BY DEF DiagPanelInv, ViewWell, View, ViewBlank
<1>2. \A r \in Retargeted(diagReads) : r \in RefreshReads /\ ~r.mine
  BY SupersededRefresh DEF DiagPanelInv, ViewWell
<1>3. CASE diag.open
  <2>1. DiagRefreshes(gone, Retargeted(diagReads))
    BY <1>3 DEF DiagRetarget
  <2> HIDE DEF gone
  <2>2. /\ diagReads' = Superseded(Retargeted(diagReads)) \cup {DiagReading(gone.scope)}
        /\ diag' = DiagRefreshed(gone)
    BY <2>1 DEF DiagRefreshes
  <2>3. \A r \in Superseded(Retargeted(diagReads)) : r \in RefreshReads /\ ~r.mine
    BY <1>2, SupersededRefresh
  <2>4. /\ DiagPanelInv' /\ diag'.scope = gone.scope /\ diag'.open = gone.open
        /\ diag'.shown = ViewLoading /\ diag'.locked
    BY <1>1, <1>3, <2>2, <2>3, DiagRefreshWaits
  <2> QED
    BY <1>1, <1>3, <2>4
    DEF DP!PanelRetargets, DP!Refreshes, DP!Loading, ViewLoading, DiagPanelInv, ViewWell, View
<1>4. CASE ~diag.open
  <2>1. diag' = gone /\ diagReads' = Retargeted(diagReads)
    BY <1>4 DEF DiagRetarget
  <2> HIDE DEF gone
  <2> QED
    BY <1>1, <1>2, <1>4, <2>1
    DEF DP!PanelRetargets, DP!Blank, ViewBlank, DiagPanelInv, ViewWell, DiagWaits
<1> QED
  BY <1>3, <1>4 DEF DiagPanelInv, ViewWell, View

\* One step of the application is one of the status view, or none.
LEMMA DiagImplements ==
  ASSUME DiagPanelInv, [AppNext]_appvars
  PROVE  DiagPanelInv' /\ [DP!PanelNext]_(DP!panel)
<1>0. diag \in View /\ diagReads \subseteq RefreshReads
  BY DEF DiagPanelInv, ViewWell
<1>a. \A r \in Superseded(diagReads) : r \in RefreshReads /\ ~r.mine
  BY <1>0, SupersededRefresh
<1>1. CASE \E s \in Scope : Retarget(s)
  BY <1>1, DiagRetargetImplements DEF Retarget, DP!PanelNext
<1>2. CASE DiagClick
  <2>1. DiagPanelInv' /\ diag'.scope = diag.scope /\ diag'.open = diag.open
        /\ diag'.shown = ViewLoading /\ diag'.locked
    BY <1>0, <1>a, <1>2, DiagRefreshWaits DEF DiagClick, DiagRefreshes
  <2>2. DP!PanelRefreshes
    BY <1>0, <1>2, <2>1 DEF DiagClick, DP!PanelRefreshes, DP!Refreshes, DP!Loading, ViewLoading,
       DiagPanelInv, ViewWell, View
  <2> QED
    BY <2>1, <2>2 DEF DP!PanelNext
<1>3. CASE DiagToggle /\ ~diag.open
  <2> DEFINE opened == [diag EXCEPT !.open = TRUE]
  <2>1. opened \in View /\ opened.scope = diag.scope /\ opened.open = TRUE
    BY <1>0 DEF View
  <2>2. DiagRefreshes(opened, diagReads)
    BY <1>3 DEF DiagToggle
  <2> HIDE DEF opened
  <2>3. DiagPanelInv' /\ diag'.scope = diag.scope /\ diag'.open = TRUE
        /\ diag'.shown = ViewLoading /\ diag'.locked
    BY <1>a, <2>1, <2>2, DiagRefreshWaits DEF DiagRefreshes
  <2>4. DP!PanelOpens
    BY <1>3, <2>3 DEF DP!PanelOpens, DP!Refreshes, DP!Loading, ViewLoading,
       DiagPanelInv, ViewWell, View
  <2> QED
    BY <2>3, <2>4 DEF DP!PanelNext
<1>4. CASE DiagToggle /\ diag.open
  <2>1. diag' = [diag EXCEPT !.open = FALSE] /\ diagReads' = Superseded(diagReads)
    BY <1>4 DEF DiagToggle
  <2>2. /\ diag' \in View /\ diag'.open = FALSE /\ diag'.scope = diag.scope
        /\ diag'.shown = diag.shown /\ diag'.locked = diag.locked
    BY <1>0, <2>1 DEF View
  <2> QED
    BY <1>a, <1>4, <2>1, <2>2
    DEF DiagPanelInv, ViewWell, DiagWaits, DP!PanelNext, DP!PanelCloses
<1>5. CASE \E r \in diagReads : DiagSettles(r)
  BY <1>5, DiagSettlesImplements
<1>6. CASE UNCHANGED <<diag, diagReads>>
  BY <1>6 DEF DiagPanelInv, ViewWell, DiagWaits, DP!panel
<1> QED
  BY <1>1, <1>2, <1>3, <1>4, <1>5, <1>6
  DEF AppNext, DiagNext, InspectRun, InvalidateInput, InspectSettles, views, appvars, diagvars

----------------------------------------------------------------------------
(* The model status *)

\* A refresh begins.
LEMMA ModelRefreshWaits ==
  ASSUME NEW m \in ModelView, m.open, NEW old, old \subseteq RefreshReads, ModelRefreshes(m, old)
  PROVE  /\ ModelPanelInv' /\ models'.scope = m.scope /\ models'.open = m.open
         /\ models'.shown = ModelLoading /\ models'.locked /\ models'.locked = TRUE
<1> DEFINE new == [m EXCEPT !.shown = ModelLoading, !.locked = TRUE]
<1> DEFINE read == [scope |-> m.scope, mine |-> TRUE, kept |-> TRUE]
<1>1. /\ new \in ModelView /\ new.scope = m.scope /\ new.open = m.open
      /\ new.shown = ModelLoading /\ new.locked /\ new.locked = TRUE
  BY DEF ModelLoading, ModelView
<1>2. read \in RefreshReads /\ read.scope = m.scope /\ read.kept
  BY DEF RefreshReads, ModelView
<1>3. models' = new /\ modelReads' = Superseded(old) \cup {read}
  BY DEF ModelRefreshes
<1>4. \A r \in Superseded(old) : r \in RefreshReads /\ ~r.mine
  BY SupersededRefresh
<1> HIDE DEF new, read
<1> QED
  BY <1>1, <1>2, <1>3, <1>4 DEF ModelPanelInv, ModelWaits

\* The end of a refresh; a read that is waited for is always the view's.
LEMMA ModelSettlesImplements ==
  ASSUME ModelPanelInv, NEW r \in modelReads, ModelSettles(r)
  PROVE  ModelPanelInv' /\ [MP!PanelNext]_(MP!panel)
<1>1. r \in RefreshReads /\ models \in ModelView /\ modelReads' = modelReads \ {r}
      /\ modelReads \subseteq RefreshReads
  BY DEF ModelPanelInv, ModelSettles
<1>2. PICK a \in Answer :
        LET returned == Returned(r.scope, r.kept, a)
            good == returned /\ InspectModelCatalog(r.scope, a)
            current == models.open /\ r.mine /\ (returned => r.scope = models.scope)
        IN models' = [models EXCEPT
             !.shown = IF ~current THEN @
                       ELSE [is |-> "shown", of |-> IF good THEN {a.of} ELSE {},
                             available |-> IF good THEN ModelSources ELSE {}],
             !.locked = IF r.mine THEN FALSE ELSE @]
  BY DEF ModelSettles
<1>3. CASE ~r.mine
  <2>1. models' = models
    BY <1>1, <1>2, <1>3 DEF ModelView
  <2> QED
    BY <1>1, <2>1 DEF ModelPanelInv, ModelWaits, MP!panel
<1>4. CASE r.mine
  <2>1. /\ r.scope = models.scope /\ r.kept /\ models.open /\ models.locked
        /\ models.shown = ModelLoading
    BY <1>4 DEF ModelPanelInv, ModelWaits
  <2>2. PICK good \in SUBSET ModelSources :
          models' = [models EXCEPT !.locked = FALSE,
                       !.shown = [is |-> "shown", of |-> IF good = {} THEN {} ELSE {models.scope},
                                  available |-> good]]
    <3>1. CASE Returned(r.scope, r.kept, a) /\ InspectModelCatalog(r.scope, a)
      <4>1. a.of = models.scope
        BY <1>1, <2>1, <3>1, AnswerOfScope DEF InspectModelCatalog, RefreshReads
      <4>2. models' = [models EXCEPT !.locked = FALSE,
                         !.shown = [is |-> "shown", of |-> {models.scope}, available |-> ModelSources]]
        BY <1>1, <1>2, <1>4, <2>1, <3>1, <4>1 DEF ModelView
      <4> QED
        BY <4>2 DEF ModelSources
    <3>2. CASE ~(Returned(r.scope, r.kept, a) /\ InspectModelCatalog(r.scope, a))
      <4>1. models' = [models EXCEPT !.locked = FALSE,
                         !.shown = [is |-> "shown", of |-> {}, available |-> {}]]
        BY <1>1, <1>2, <1>4, <2>1, <3>2 DEF ModelView
      <4> QED
        BY <4>1
    <3> QED
      BY <3>1, <3>2
  <2>3. /\ models' \in ModelView /\ models'.scope = models.scope /\ models'.open = models.open
        /\ models'.locked = FALSE
        /\ models'.shown = [is |-> "shown", of |-> IF good = {} THEN {} ELSE {models.scope},
                            available |-> good]
    BY <1>1, <2>2 DEF ModelView
  <2>4. \A q \in modelReads' : ~q.mine
    BY <1>1, <1>4, WaitedIsOne DEF ModelPanelInv, ModelWaits
  <2>5. MP!PanelSettles
    BY <2>1, <2>3 DEF MP!PanelSettles, MP!Loading, ModelLoading
  <2> QED
    BY <1>1, <2>3, <2>4, <2>5 DEF ModelPanelInv, ModelWaits, MP!PanelNext
<1> QED
  BY <1>3, <1>4

\* One step of the application is one of the model status, or none.
LEMMA ModelImplements ==
  ASSUME ModelPanelInv, [AppNext]_appvars
  PROVE  ModelPanelInv' /\ [MP!PanelNext]_(MP!panel)
<1>0. models \in ModelView /\ modelReads \subseteq RefreshReads
  BY DEF ModelPanelInv
<1>a. /\ \A r \in Superseded(modelReads) : r \in RefreshReads /\ ~r.mine
      /\ \A r \in Retargeted(modelReads) : r \in RefreshReads /\ ~r.mine
  BY <1>0, SupersededRefresh
<1>1. ASSUME NEW s \in Scope, ModelRetarget(s)
      PROVE  ModelPanelInv' /\ MP!PanelRetargets
  <2> DEFINE gone == [models EXCEPT !.scope = s, !.shown = ModelBlank]
  <2>1. /\ gone \in ModelView /\ gone.scope = s /\ gone.open = models.open
        /\ gone.locked = models.locked /\ gone.shown = ModelBlank
    BY <1>0 DEF ModelView, ModelBlank
  <2>2. CASE models.open
    <3>1. ModelRefreshes(gone, Retargeted(modelReads))
      BY <1>1, <2>2 DEF ModelRetarget
    <3> HIDE DEF gone
    <3>2. /\ ModelPanelInv' /\ models'.scope = gone.scope /\ models'.open = gone.open
          /\ models'.shown = ModelLoading /\ models'.locked = TRUE
      BY <1>a, <2>1, <2>2, <3>1, ModelRefreshWaits
    <3> QED
      BY <2>1, <2>2, <3>2 DEF MP!PanelRetargets, MP!Refreshes, MP!Loading, ModelLoading
  <2>3. CASE ~models.open
    <3>1. models' = gone /\ modelReads' = Retargeted(modelReads)
      BY <1>1, <2>3 DEF ModelRetarget
    <3> HIDE DEF gone
    <3> QED
      BY <1>a, <2>1, <2>3, <3>1
      DEF MP!PanelRetargets, MP!Blank, ModelBlank, ModelPanelInv, ModelWaits
  <2> QED
    BY <2>2, <2>3
<1>2. CASE ModelClick
  <2>1. ModelPanelInv' /\ models'.scope = models.scope /\ models'.open = models.open
        /\ models'.shown = ModelLoading /\ models'.locked = TRUE
    BY <1>0, <1>2, ModelRefreshWaits DEF ModelClick
  <2>2. MP!PanelRefreshes
    BY <1>0, <1>2, <2>1 DEF ModelClick, MP!PanelRefreshes, MP!Refreshes, MP!Loading, ModelLoading, ModelView
  <2> QED
    BY <2>1, <2>2 DEF MP!PanelNext
<1>3. CASE ModelToggle /\ ~models.open
  <2> DEFINE opened == [models EXCEPT !.open = TRUE]
  <2>1. opened \in ModelView /\ opened.scope = models.scope /\ opened.open = TRUE
    BY <1>0 DEF ModelView
  <2>2. ModelRefreshes(opened, modelReads)
    BY <1>3 DEF ModelToggle
  <2> HIDE DEF opened
  <2>3. ModelPanelInv' /\ models'.scope = models.scope /\ models'.open = TRUE
        /\ models'.shown = ModelLoading /\ models'.locked = TRUE
    BY <1>0, <2>1, <2>2, ModelRefreshWaits
  <2>4. MP!PanelOpens
    BY <1>3, <2>3 DEF MP!PanelOpens, MP!Refreshes, MP!Loading, ModelLoading
  <2> QED
    BY <2>3, <2>4 DEF MP!PanelNext
<1>4. CASE ModelToggle /\ models.open
  <2>1. models' = [models EXCEPT !.open = FALSE] /\ modelReads' = Superseded(modelReads)
    BY <1>4 DEF ModelToggle
  <2>2. /\ models' \in ModelView /\ models'.open = FALSE /\ models'.scope = models.scope
        /\ models'.shown = models.shown /\ models'.locked = models.locked
    BY <1>0, <2>1 DEF ModelView
  <2> QED
    BY <1>a, <1>4, <2>1, <2>2 DEF ModelPanelInv, ModelWaits, MP!PanelNext, MP!PanelCloses
<1>5. CASE \E r \in modelReads : ModelSettles(r)
  BY <1>5, ModelSettlesImplements
<1>6. CASE UNCHANGED modelvars
  BY <1>6 DEF ModelPanelInv, ModelWaits, MP!panel, modelvars
<1>7. CASE \E s \in Scope : Retarget(s)
  BY <1>1, <1>7 DEF Retarget, MP!PanelNext
<1> QED
  BY <1>2, <1>3, <1>4, <1>5, <1>6, <1>7 DEF AppNext, ModelNext, views, appvars

----------------------------------------------------------------------------
(* The controls the host allows *)

\* The host's status is asked again.
LEMMA ControlsAsked ==
  ASSUME NEW s \in Scope, NEW old, \A r \in old : r \in RefreshReads /\ ~r.mine,
         RefreshRunControls(s, old), scope' = s
  PROVE  ControlsInv' /\ controls' = ControlsLoading
<1>1. ControlsLoading \in Controls
  BY DEF ControlsLoading, Controls
<1>2. /\ controls' = ControlsLoading
      /\ controlReads' = old \cup {[scope |-> s, mine |-> TRUE, kept |-> TRUE]}
  BY DEF RefreshRunControls, ControlsLoading
<1>3. [scope |-> s, mine |-> TRUE, kept |-> TRUE] \in RefreshReads
  BY DEF RefreshReads
<1>4. controlReads' \subseteq RefreshReads /\ scope' \in Scope /\ controls' \in Controls
  BY <1>1, <1>2, <1>3
<1>5. ASSUME NEW r \in controlReads', r.mine
      PROVE  r.scope = s /\ r.kept
  <2>1. r = [scope |-> s, mine |-> TRUE, kept |-> TRUE]
    BY <1>2, <1>5
  <2> QED
    BY <2>1
<1> QED
  BY <1>2, <1>4, <1>5 DEF ControlsInv, ControlsWait

\* The host's status is answered.
LEMMA ControlsSettleImplements ==
  ASSUME ControlsInv, NEW r \in controlReads, ControlsSettle(r), scope' = scope
  PROVE  ControlsInv' /\ [CP!PanelNext]_(CP!panel)
<1>1. r \in RefreshReads /\ controls \in Controls /\ controlReads' = controlReads \ {r}
      /\ controlReads \subseteq RefreshReads
  BY DEF ControlsInv, ControlsSettle
<1>2. CASE ~r.mine
  <2>1. controls' = controls
    BY <1>2 DEF ControlsSettle
  <2> QED
    BY <1>1, <2>1 DEF ControlsInv, ControlsWait, CP!panel
<1>3. CASE r.mine
  <2>1. r.scope = scope /\ r.kept /\ controls = ControlsLoading
    BY <1>3 DEF ControlsInv, ControlsWait
  <2>2. PICK a \in Answer, supported \in SUBSET {"stop", "pause"} :
          LET allowed == IF Returned(r.scope, r.kept, a) /\ Authenticated(r, a)
                         THEN supported ELSE {}
          IN controls' = [is |-> "shown", of |-> IF allowed = {} THEN {} ELSE {a.of},
                          available |-> allowed]
    BY <1>3 DEF ControlsSettle
  <2>3. PICK good \in SUBSET {"stop", "pause"} :
          controls' = [is |-> "shown", of |-> IF good = {} THEN {} ELSE {scope}, available |-> good]
    <3>1. CASE Returned(r.scope, r.kept, a) /\ Authenticated(r, a)
      <4>1. a.of = scope
        BY <1>1, <2>1, <3>1, AnswerOfScope DEF Authenticated, RefreshReads
      <4> QED
        BY <2>2, <3>1, <4>1
    <3>2. CASE ~(Returned(r.scope, r.kept, a) /\ Authenticated(r, a))
      <4>1. controls' = [is |-> "shown", of |-> {}, available |-> {}]
        BY <2>2, <3>2
      <4> QED
        BY <4>1
    <3> QED
      BY <3>1, <3>2
  <2>4. controls' \in Controls /\ controls'.is = "shown" /\ controls.is = "loading"
    BY <2>1, <2>3 DEF Controls, ControlsLoading, ControlsInv
  <2>5. \A q \in controlReads' : ~q.mine
    BY <1>1, <1>3, WaitedIsOne DEF ControlsInv, ControlsWait
  <2>6. CP!PanelSettles
    BY <2>1, <2>3, <2>4 DEF CP!PanelSettles, CP!Loading, ControlsLoading
  <2> QED
    BY <1>1, <2>4, <2>5, <2>6 DEF ControlsInv, ControlsWait, CP!PanelNext
<1> QED
  BY <1>2, <1>3

\* One step of the application is one of the controls, or none.
LEMMA ControlsImplement ==
  ASSUME ControlsInv, [AppNext]_appvars
  PROVE  ControlsInv' /\ [CP!PanelNext]_(CP!panel)
<1>1. ASSUME NEW s \in Scope, Retarget(s)
      PROVE  ControlsInv' /\ CP!PanelRetargets
  <2>1. \A r \in Retargeted(controlReads) : r \in RefreshReads /\ ~r.mine
    BY SupersededRefresh DEF ControlsInv
  <2>2. ControlsInv' /\ controls' = ControlsLoading /\ scope' = s
    BY <1>1, <2>1, ControlsAsked DEF Retarget
  <2>3. controls'.is = "loading"
    BY <2>2 DEF ControlsLoading
  <2> QED
    BY <2>2, <2>3 DEF CP!PanelRetargets, CP!Refreshes, CP!Loading, ControlsLoading
<1>2. ASSUME NEW r \in controlReads, ControlsSettle(r), UNCHANGED scope
      PROVE  ControlsInv' /\ [CP!PanelNext]_(CP!panel)
  BY <1>2, ControlsSettleImplements
<1>3. CASE UNCHANGED <<scope, grants>>
  BY <1>3 DEF ControlsInv, ControlsWait, CP!panel, grants
<1> QED
  BY <1>1, <1>2, <1>3 DEF AppNext, appvars, CP!PanelNext

----------------------------------------------------------------------------
(* The activity *)

\* Superseded reads of the activity are wanted no more, and stay of their scope.
LEMMA SupersededActivity ==
  ASSUME NEW reads, reads \subseteq ActivityRead, \A r \in reads : PartsOfScope(r)
  PROVE  /\ \A r \in Superseded(reads) : r \in ActivityRead /\ ~r.mine /\ PartsOfScope(r)
         /\ \A r \in Retargeted(reads) : r \in ActivityRead /\ ~r.mine /\ PartsOfScope(r)
<1>1. ASSUME NEW q \in reads
      PROVE  /\ [q EXCEPT !.mine = FALSE] \in ActivityRead
             /\ ~[q EXCEPT !.mine = FALSE].mine
             /\ PartsOfScope([q EXCEPT !.mine = FALSE])
  BY DEF ActivityRead, PartsOfScope
<1>2. ASSUME NEW q \in reads
      PROVE  /\ [q EXCEPT !.mine = FALSE, !.kept = FALSE] \in ActivityRead
             /\ ~[q EXCEPT !.mine = FALSE, !.kept = FALSE].mine
             /\ PartsOfScope([q EXCEPT !.mine = FALSE, !.kept = FALSE])
  BY DEF ActivityRead, PartsOfScope
<1> QED
  BY <1>1, <1>2 DEF Superseded, Retargeted

\* A refresh begins: its read, of which nothing is answered, is the only one
\* waited for.
LEMMA ActivityRefreshWaits ==
  ASSUME NEW v \in ActivityView, v.open, NEW old, old \subseteq ActivityRead,
         \A r \in old : PartsOfScope(r), ActivityRefreshes(v, old)
  PROVE  /\ ActivityPanelInv' /\ activity'.scope = v.scope /\ activity'.open = v.open
         /\ activity'.shown = ActivityLoading /\ activity'.locked = TRUE
<1> DEFINE new == [v EXCEPT !.shown = ActivityLoading, !.locked = TRUE]
<1>1. /\ new \in ActivityView /\ new.scope = v.scope /\ new.open = v.open
      /\ new.shown = ActivityLoading /\ new.locked /\ new.locked = TRUE
  BY DEF ActivityLoading, ActivityView
<1>2. /\ NewRead(v.scope) \in ActivityRead /\ NewRead(v.scope).scope = v.scope
      /\ NewRead(v.scope).kept /\ PartsOfScope(NewRead(v.scope))
  BY DEF NewRead, ActivityRead, ActivityView, Part, Unanswered, PartsOfScope, PartOf
<1>3. activity' = new /\ activityReads' = Superseded(old) \cup {NewRead(v.scope)}
  BY DEF ActivityRefreshes
<1>4. \A r \in Superseded(old) : r \in ActivityRead /\ ~r.mine /\ PartsOfScope(r)
  BY SupersededActivity
<1> HIDE DEF new
<1> QED
  BY <1>1, <1>2, <1>3, <1>4 DEF ActivityPanelInv, ActivityWaits

\* An answer to a part of a refresh: a read becomes another of the same scope,
\* waited for as much, and the view stays.
LEMMA BecomesKeeps ==
  ASSUME ActivityPanelInv, NEW r \in activityReads, NEW s \in ActivityRead, PartsOfScope(s),
         s.scope = r.scope, s.mine = r.mine, s.kept = r.kept, Becomes(r, s)
  PROVE  ActivityPanelInv' /\ UNCHANGED activity
<1>1. activityReads' = (activityReads \ {r}) \cup {s} /\ UNCHANGED activity
  BY DEF Becomes
<1>2. activity' \in ActivityView /\ activityReads' \subseteq ActivityRead
  BY <1>1 DEF ActivityPanelInv
<1>3. ASSUME NEW q \in activityReads', NEW p \in activityReads', q.mine, p.mine
      PROVE  q = p
  BY <1>1, <1>3 DEF ActivityPanelInv, ActivityWaits
<1>4. ASSUME NEW q \in activityReads'
      PROVE  /\ PartsOfScope(q)
             /\ q.mine => /\ q.scope = activity'.scope /\ q.kept /\ activity'.open
                          /\ activity'.locked /\ activity'.shown = ActivityLoading
  BY <1>1, <1>4 DEF ActivityPanelInv, ActivityWaits
<1> QED
  BY <1>1, <1>2, <1>3, <1>4 DEF ActivityPanelInv, ActivityWaits

\* The answers of the owners.
LEMMA AnswersKeep ==
  ASSUME ActivityPanelInv, NEW r \in activityReads,
         LocalAnswers(r) \/ SessionsAnswer(r) \/ RunsAnswer(r)
  PROVE  ActivityPanelInv' /\ UNCHANGED activity
<1>1. r \in ActivityRead /\ PartsOfScope(r) /\ r.scope \in Scope
  BY DEF ActivityPanelInv, ActivityWaits, ActivityRead
<1>2. Failed \in Part /\ Failed \in PartOf(r.scope)
  BY DEF Failed, Part, PartOf
<1>3. ASSUME NEW a \in Answer, a.of = r.scope PROVE Got(a) \in Part /\ Got(a) \in PartOf(r.scope)
  BY <1>1, <1>3 DEF Got, Part, PartOf, Answer
<1>4. CASE LocalAnswers(r)
  <2>1. PICK a \in Answer :
          Becomes(r, [r EXCEPT !.local =
            IF Returned(r.scope, r.kept, a) /\ InspectActivity(r.scope, a) THEN Got(a) ELSE Failed])
    BY <1>4 DEF LocalAnswers
  <2>2. PICK part : part = IF Returned(r.scope, r.kept, a) /\ InspectActivity(r.scope, a)
                           THEN Got(a) ELSE Failed
    OBVIOUS
  <2>3. part \in Part /\ part \in PartOf(r.scope)
    BY <1>2, <1>3, <2>2 DEF InspectActivity
  <2>4. PICK s : s = [r EXCEPT !.local = part]
    OBVIOUS
  <2>5. s \in ActivityRead /\ PartsOfScope(s) /\ s.scope = r.scope /\ s.mine = r.mine /\ s.kept = r.kept
    BY <1>1, <2>3, <2>4 DEF ActivityRead, PartsOfScope
  <2> QED
    BY <2>1, <2>2, <2>4, <2>5, BecomesKeeps
<1>5. CASE SessionsAnswer(r)
  <2>1. PICK a \in Answer, n \in 0..MaxRunReads :
          Becomes(r, IF Returned(r.scope, r.kept, a) /\ InspectCanonicalSessions(r.scope, a)
                     THEN [r EXCEPT !.canonical = Got(a), !.waiting = n]
                     ELSE [r EXCEPT !.canonical = Failed])
    BY <1>5 DEF SessionsAnswer
  <2>2. n \in Nat
    BY ActivityAssumption
  <2>3. CASE Returned(r.scope, r.kept, a) /\ InspectCanonicalSessions(r.scope, a)
    <3>1. a.of = r.scope
      BY <1>1, <2>3, AnswerOfScope DEF InspectCanonicalSessions
    <3>2. PICK s : s = [r EXCEPT !.canonical = Got(a), !.waiting = n]
      OBVIOUS
    <3>3. s \in ActivityRead /\ PartsOfScope(s) /\ s.scope = r.scope /\ s.mine = r.mine /\ s.kept = r.kept
      BY <1>1, <1>3, <2>2, <3>1, <3>2 DEF ActivityRead, PartsOfScope
    <3> QED
      BY <2>1, <2>3, <3>2, <3>3, BecomesKeeps
  <2>4. CASE ~(Returned(r.scope, r.kept, a) /\ InspectCanonicalSessions(r.scope, a))
    <3>1. PICK s : s = [r EXCEPT !.canonical = Failed]
      OBVIOUS
    <3>2. s \in ActivityRead /\ PartsOfScope(s) /\ s.scope = r.scope /\ s.mine = r.mine /\ s.kept = r.kept
      BY <1>1, <1>2, <3>1 DEF ActivityRead, PartsOfScope
    <3> QED
      BY <2>1, <2>4, <3>1, <3>2, BecomesKeeps
  <2> QED
    BY <2>3, <2>4
<1>6. CASE RunsAnswer(r)
  <2>1. PICK a \in Answer :
          Becomes(r, [r EXCEPT !.waiting = @ - 1,
            !.runs = IF Returned(r.scope, r.kept, a) /\ InspectCanonicalRuns(r.scope, a)
                     THEN @ \cup {a.of} ELSE @])
    BY <1>6 DEF RunsAnswer
  <2>2. PICK runs : runs = IF Returned(r.scope, r.kept, a) /\ InspectCanonicalRuns(r.scope, a)
                           THEN r.runs \cup {a.of} ELSE r.runs
    OBVIOUS
  <2>3. Returned(r.scope, r.kept, a) /\ InspectCanonicalRuns(r.scope, a) => a.of = r.scope
    BY <1>1, AnswerOfScope DEF InspectCanonicalRuns
  <2>4. runs \subseteq {r.scope} /\ runs \in SUBSET Scope
    BY <1>1, <2>2, <2>3 DEF PartsOfScope
  <2>5. r.waiting - 1 \in Nat
    <3>1. r.waiting \in Nat /\ r.waiting > 0
      BY <1>1, <1>6 DEF RunsAnswer, ActivityRead
    <3> QED
      BY <3>1
  <2>6. PICK s : s = [r EXCEPT !.waiting = r.waiting - 1, !.runs = runs]
    OBVIOUS
  <2>7. s \in ActivityRead /\ PartsOfScope(s) /\ s.scope = r.scope /\ s.mine = r.mine /\ s.kept = r.kept
    BY <1>1, <2>4, <2>5, <2>6 DEF ActivityRead, PartsOfScope
  <2>8. Becomes(r, s)
    BY <2>1, <2>2, <2>6
  <2> QED
    BY <2>7, <2>8, BecomesKeeps
<1> QED
  BY <1>4, <1>5, <1>6

\* The end of a refresh, once both owners have answered.
LEMMA ActivitySettlesImplements ==
  ASSUME ActivityPanelInv, NEW r \in activityReads, ActivitySettles(r)
  PROVE  ActivityPanelInv' /\ [AP!PanelNext]_(AP!panel)
<1>1. /\ r \in ActivityRead /\ activity \in ActivityView /\ PartsOfScope(r)
      /\ activityReads' = activityReads \ {r} /\ activityReads \subseteq ActivityRead
  BY DEF ActivityPanelInv, ActivityWaits, ActivitySettles
<1>2. CASE ~r.mine
  <2>1. UNCHANGED activity
    BY <1>2 DEF ActivitySettles, FreshRead
  <2> QED
    BY <1>1, <2>1 DEF ActivityPanelInv, ActivityWaits, AP!panel
<1>3. CASE r.mine
  <2>1. /\ r.scope = activity.scope /\ r.kept /\ activity.open /\ activity.locked
        /\ activity.shown = ActivityLoading
    BY <1>3 DEF ActivityPanelInv, ActivityWaits
  <2>2. PICK good : good = {source \in ActivitySources :
                   \/ source = "local" /\ r.local.is = "ok"
                   \/ source = "canonical" /\ r.canonical.is = "ok"
                   \/ source = "runs" /\ r.runs # {}}
    OBVIOUS
  <2>3. activity' = [activity EXCEPT !.locked = FALSE,
               !.shown = [is |-> "shown", of |-> r.local.of \cup r.canonical.of \cup r.runs,
                          available |-> good]]
    BY <1>3, <2>1, <2>2 DEF ActivitySettles, FreshRead
  <2>4. r.local # Unanswered /\ r.canonical # Unanswered
    BY DEF ActivitySettles, Answered
  <2>5. /\ r.local.of = IF r.local.is = "ok" THEN {r.scope} ELSE {}
        /\ r.canonical.of = IF r.canonical.is = "ok" THEN {r.scope} ELSE {}
        /\ r.runs = IF r.runs # {} THEN {r.scope} ELSE {}
    BY <1>1, <2>4 DEF PartsOfScope, PartOf, Failed
  <2>6. good = {} <=> r.local.is # "ok" /\ r.canonical.is # "ok" /\ r.runs = {}
    BY <2>2 DEF ActivitySources
  <2>7. r.local.of \cup r.canonical.of \cup r.runs = IF good = {} THEN {} ELSE {activity.scope}
    BY <2>1, <2>5, <2>6
  <2>8. good \subseteq ActivitySources
    BY <2>2
  <2>9. /\ activity' \in ActivityView /\ activity'.scope = activity.scope
        /\ activity'.open = activity.open /\ activity'.locked = FALSE
        /\ activity'.shown = [is |-> "shown", of |-> IF good = {} THEN {} ELSE {activity.scope},
                              available |-> good]
    BY <1>1, <2>3, <2>7, <2>8 DEF ActivityView
  <2>10. \A q \in activityReads' : ~q.mine
    BY <1>1, <1>3 DEF ActivityPanelInv, ActivityWaits
  <2>11. AP!PanelSettles
    BY <2>1, <2>8, <2>9 DEF AP!PanelSettles, AP!Loading, ActivityLoading
  <2> QED
    BY <1>1, <2>9, <2>10, <2>11 DEF ActivityPanelInv, ActivityWaits, AP!PanelNext
<1> QED
  BY <1>2, <1>3

\* One step of the application is one of the activity, or none.
LEMMA ActivityImplements ==
  ASSUME ActivityPanelInv, [AppNext]_appvars
  PROVE  ActivityPanelInv' /\ [AP!PanelNext]_(AP!panel)
<1>0. /\ activity \in ActivityView /\ activityReads \subseteq ActivityRead
      /\ \A r \in activityReads : PartsOfScope(r)
  BY DEF ActivityPanelInv, ActivityWaits
<1>a. /\ \A r \in Superseded(activityReads) : r \in ActivityRead /\ ~r.mine /\ PartsOfScope(r)
      /\ \A r \in Retargeted(activityReads) : r \in ActivityRead /\ ~r.mine /\ PartsOfScope(r)
  BY <1>0, SupersededActivity
<1>1. ASSUME NEW s \in Scope, ActivityRetarget(s)
      PROVE  ActivityPanelInv' /\ AP!PanelRetargets
  <2> DEFINE gone == [activity EXCEPT !.scope = s, !.shown = ActivityBlank]
  <2>1. /\ gone \in ActivityView /\ gone.scope = s /\ gone.open = activity.open
        /\ gone.locked = activity.locked /\ gone.shown = ActivityBlank
    BY <1>0 DEF ActivityView, ActivityBlank
  <2>2. CASE activity.open
    <3>1. ActivityRefreshes(gone, Retargeted(activityReads))
      BY <1>1, <2>2 DEF ActivityRetarget
    <3> HIDE DEF gone
    <3>2. /\ ActivityPanelInv' /\ activity'.scope = gone.scope /\ activity'.open = gone.open
          /\ activity'.shown = ActivityLoading /\ activity'.locked = TRUE
      BY <1>a, <2>1, <2>2, <3>1, ActivityRefreshWaits
    <3> QED
      BY <2>1, <2>2, <3>2 DEF AP!PanelRetargets, AP!Refreshes, AP!Loading, ActivityLoading
  <2>3. CASE ~activity.open
    <3>1. activity' = gone /\ activityReads' = Retargeted(activityReads)
      BY <1>1, <2>3 DEF ActivityRetarget
    <3> HIDE DEF gone
    <3> QED
      BY <1>a, <2>1, <2>3, <3>1
      DEF AP!PanelRetargets, AP!Blank, ActivityBlank, ActivityPanelInv, ActivityWaits
  <2> QED
    BY <2>2, <2>3
<1>2. CASE ActivityClick
  <2>1. ActivityPanelInv' /\ activity'.scope = activity.scope /\ activity'.open = activity.open
        /\ activity'.shown = ActivityLoading /\ activity'.locked = TRUE
    BY <1>0, <1>2, ActivityRefreshWaits DEF ActivityClick
  <2>2. AP!PanelRefreshes
    BY <1>0, <1>2, <2>1
    DEF ActivityClick, AP!PanelRefreshes, AP!Refreshes, AP!Loading, ActivityLoading, ActivityView
  <2> QED
    BY <2>1, <2>2 DEF AP!PanelNext
<1>3. CASE ActivityToggle /\ ~activity.open
  <2> DEFINE opened == [activity EXCEPT !.open = TRUE]
  <2>1. opened \in ActivityView /\ opened.scope = activity.scope /\ opened.open = TRUE
    BY <1>0 DEF ActivityView
  <2>2. ActivityRefreshes(opened, activityReads)
    BY <1>3 DEF ActivityToggle
  <2> HIDE DEF opened
  <2>3. ActivityPanelInv' /\ activity'.scope = activity.scope /\ activity'.open = TRUE
        /\ activity'.shown = ActivityLoading /\ activity'.locked = TRUE
    BY <1>0, <2>1, <2>2, ActivityRefreshWaits
  <2>4. AP!PanelOpens
    BY <1>3, <2>3 DEF AP!PanelOpens, AP!Refreshes, AP!Loading, ActivityLoading
  <2> QED
    BY <2>3, <2>4 DEF AP!PanelNext
<1>4. CASE ActivityToggle /\ activity.open
  <2>1. activity' = [activity EXCEPT !.open = FALSE] /\ activityReads' = Superseded(activityReads)
    BY <1>4 DEF ActivityToggle
  <2>2. /\ activity' \in ActivityView /\ activity'.open = FALSE /\ activity'.scope = activity.scope
        /\ activity'.shown = activity.shown /\ activity'.locked = activity.locked
    BY <1>0, <2>1 DEF ActivityView
  <2> QED
    BY <1>a, <1>4, <2>1, <2>2 DEF ActivityPanelInv, ActivityWaits, AP!PanelNext, AP!PanelCloses
<1>5. ASSUME NEW r \in activityReads, LocalAnswers(r) \/ SessionsAnswer(r) \/ RunsAnswer(r)
      PROVE  ActivityPanelInv' /\ UNCHANGED AP!panel
  BY <1>5, AnswersKeep DEF AP!panel
<1>6. ASSUME NEW r \in activityReads, ActivitySettles(r)
      PROVE  ActivityPanelInv' /\ [AP!PanelNext]_(AP!panel)
  BY <1>6, ActivitySettlesImplements
<1>7. CASE UNCHANGED <<activity, activityReads>>
  BY <1>7 DEF ActivityPanelInv, ActivityWaits, AP!panel
<1>8. CASE \E s \in Scope : Retarget(s)
  BY <1>1, <1>8 DEF Retarget, AP!PanelNext
<1>9. CASE ActivityNext
  BY <1>2, <1>3, <1>4, <1>5, <1>6, <1>7, <1>9 DEF ActivityNext, FilterActivity
<1> QED
  BY <1>7, <1>8, <1>9 DEF AppNext, views, appvars, activityvars

----------------------------------------------------------------------------
(* All four *)

PanelsInv == DiagPanelInv /\ ActivityPanelInv /\ ModelPanelInv /\ ControlsInv

LEMMA PanelsInitially ==
  ASSUME AppInit
  PROVE  PanelsInv /\ DP!PanelInit /\ AP!PanelInit /\ MP!PanelInit /\ CP!PanelInit
<1>1. /\ diag \in View /\ diag.scope \in Scope /\ diag.open = FALSE /\ diag.locked = FALSE
      /\ diag.shown = ViewBlank /\ diagReads = {}
  <2>1. diag \in [scope : Scope, open : {FALSE}, shown : {ViewBlank}, locked : {FALSE}]
        /\ diagReads = {}
    BY DEF AppInit, DiagInit
  <2>2. /\ diag.scope \in Scope /\ diag.open = FALSE /\ diag.locked = FALSE
        /\ diag.shown = ViewBlank
    BY <2>1
  <2>3. diag \in View
    <3>1. diag = [scope |-> diag.scope, open |-> FALSE, locked |-> FALSE, shown |-> ViewBlank]
      BY <2>1
    <3>2. ViewBlank \in [is : {"blank", "loading", "shown"}, of : SUBSET Scope, available : SUBSET DiagSources]
      BY DEF ViewBlank
    <3> QED
      BY <2>2, <3>1, <3>2 DEF View
  <2> QED
    BY <2>1, <2>2, <2>3
<1>2. /\ activity \in ActivityView /\ activity.scope \in Scope /\ activity.open = FALSE
      /\ activity.locked = FALSE /\ activity.shown = ActivityBlank /\ activityReads = {}
  <2>1. activity \in [scope : Scope, open : {FALSE}, shown : {ActivityBlank}, locked : {FALSE}]
        /\ activityReads = {}
    BY DEF AppInit, ActivityInit
  <2>2. /\ activity.scope \in Scope /\ activity.open = FALSE /\ activity.locked = FALSE
        /\ activity.shown = ActivityBlank
    BY <2>1
  <2>3. activity \in ActivityView
    <3>1. activity = [scope |-> activity.scope, open |-> FALSE, locked |-> FALSE, shown |-> ActivityBlank]
      BY <2>1
    <3>2. ActivityBlank \in [is : {"blank", "loading", "shown"}, of : SUBSET Scope, available : SUBSET ActivitySources]
      BY DEF ActivityBlank
    <3> QED
      BY <2>2, <3>1, <3>2 DEF ActivityView
  <2> QED
    BY <2>1, <2>2, <2>3
<1>3. /\ models \in ModelView /\ models.scope \in Scope /\ models.open = FALSE
      /\ models.locked = FALSE /\ models.shown = ModelBlank /\ modelReads = {}
  <2>1. models \in [scope : Scope, open : {FALSE}, shown : {ModelBlank}, locked : {FALSE}]
        /\ modelReads = {}
    BY DEF AppInit, ModelInit
  <2>2. /\ models.scope \in Scope /\ models.open = FALSE /\ models.locked = FALSE
        /\ models.shown = ModelBlank
    BY <2>1
  <2>3. models \in ModelView
    <3>1. models = [scope |-> models.scope, open |-> FALSE, locked |-> FALSE, shown |-> ModelBlank]
      BY <2>1
    <3>2. ModelBlank \in [is : {"blank", "loading", "shown"}, of : SUBSET Scope, available : SUBSET ModelSources]
      BY DEF ModelBlank
    <3> QED
      BY <2>2, <3>1, <3>2 DEF ModelView
  <2> QED
    BY <2>1, <2>2, <2>3
<1>4. /\ scope \in Scope /\ controls = ControlsLoading /\ controls \in Controls
      /\ controlReads = {[scope |-> scope, mine |-> TRUE, kept |-> TRUE]}
  BY DEF AppInit, ControlsLoading, Controls
<1>5. DiagPanelInv /\ DP!PanelInit
  BY <1>1 DEF DiagPanelInv, ViewWell, DiagWaits, DP!PanelInit, DP!Blank, ViewBlank
<1>6. ActivityPanelInv /\ AP!PanelInit
  BY <1>2 DEF ActivityPanelInv, ActivityWaits, AP!PanelInit, AP!Blank, ActivityBlank
<1>7. ModelPanelInv /\ MP!PanelInit
  BY <1>3 DEF ModelPanelInv, ModelWaits, MP!PanelInit, MP!Blank, ModelBlank
<1>8. ControlsInv
  BY <1>4 DEF ControlsInv, ControlsWait, RefreshReads
<1>9. CP!PanelInit
  BY <1>4 DEF CP!PanelInit, CP!Loading, ControlsLoading
<1> QED
  BY <1>5, <1>6, <1>7, <1>8, <1>9 DEF PanelsInv

\* The status, the activity, the model status and the controls each show what
\* ScopedPanel promises, of the selected scope and of the newest refresh only,
\* whichever reads end late and whatever else the application does
\* (personal-chat-ui.ts 163-232 and the three panels).
THEOREM ViewsImplementScopedPanel == AppSpec => ImplementsScopedPanel
<1>1. PanelsInv /\ [AppNext]_appvars =>
        /\ PanelsInv' /\ [DP!PanelNext]_(DP!panel) /\ [AP!PanelNext]_(AP!panel)
        /\ [MP!PanelNext]_(MP!panel) /\ [CP!PanelNext]_(CP!panel)
  BY DiagImplements, ActivityImplements, ModelImplements, ControlsImplement DEF PanelsInv
<1> QED
  BY <1>1, PanelsInitially, PTL
  DEF AppSpec, ImplementsScopedPanel, DP!PanelSpec, AP!PanelSpec, MP!PanelSpec, CP!PanelSpec

----------------------------------------------------------------------------
(* The panes of the application *)

PaneOf(s, pane) ==
  pane \in [has : {pane.has}, id : {pane.id}, of : SUBSET {s}, busy : BOOLEAN, note : SUBSET {s}]
PanesWell ==
  /\ lastPane \in Nat /\ DOMAIN panes \subseteq 1..lastPane
  /\ panes = [p \in DOMAIN panes |-> panes[p]]
  /\ \A p \in DOMAIN panes : PaneOf(scope, panes[p])

\* An opening whose answer is still wanted is of a pane that is there and of
\* the selected workspace; a session is opened only in a pane that holds no
\* chat and lets none begin.
Wanted(o) ==
  /\ o.pane \in DOMAIN panes /\ o.of = scope
  /\ o.op = "open" => panes[o.pane].has = "nothing" /\ panes[o.pane].busy
OpeningShape(o) ==
  o \in [op : {o.op}, pane : {o.pane}, id : {o.id}, of : {o.of}, mine : BOOLEAN]
OpeningsWell ==
  \A o \in opening : OpeningShape(o) /\ (o.mine => Wanted(o))
\* At most one session is awaited in a pane.
OneOpening ==
  \A o, q \in opening : /\ o.mine /\ o.op = "open" /\ q.mine /\ q.op = "open"
                        /\ o.pane = q.pane
                        => o = q
PanesInv == PanesWell /\ OpeningsWell /\ OneOpening

LEMMA OneStays ==
  ASSUME OneOpening, \A o \in opening' : o.mine => o \in opening
  PROVE  OneOpening'
BY DEF OneOpening

\* What ChatNeverReplaced says of one step.
KeepsChats ==
  \A p \in DOMAIN panes \cap DOMAIN panes' :
    /\ panes[p].has \in {"chat", "opened"} /\ panes'[p] # EmptyPane =>
         panes'[p].has = panes[p].has /\ panes'[p].id = panes[p].id
    /\ panes'[p].of \cup panes'[p].note \subseteq {scope'}

LEMMA EmptyIsWell ==
  ASSUME NEW s
  PROVE  PaneOf(s, EmptyPane) /\ PaneOf(s, Opened) /\ Opened.has = "nothing" /\ Opened.busy
<1>1. PaneOf(s, EmptyPane) /\ EmptyPane.has = "nothing"
  BY DEF PaneOf, EmptyPane
<1>2. /\ Opened \in [has : {"nothing"}, id : {EmptyPane.id}, of : SUBSET {s}, busy : {TRUE},
                     note : SUBSET {s}]
  BY <1>1 DEF Opened, PaneOf
<1> QED
  BY <1>1, <1>2 DEF PaneOf

\* A pane is filled: it keeps its chat, or is emptied.
LEMMA FillKeeps ==
  ASSUME PanesInv, NEW p \in DOMAIN panes, NEW pane, PaneOf(scope, pane), Fill(p, pane),
         UNCHANGED <<scope, lastPane>>,
         panes[p].has \in {"chat", "opened"} /\ pane # EmptyPane =>
           pane.has = panes[p].has /\ pane.id = panes[p].id
  PROVE  /\ PanesWell' /\ KeepsChats /\ DOMAIN panes' = DOMAIN panes
         /\ panes'[p] = pane /\ \A q \in DOMAIN panes : q # p => panes'[q] = panes[q]
<1>1. /\ DOMAIN panes' = DOMAIN panes /\ panes'[p] = pane
      /\ \A q \in DOMAIN panes : q # p => panes'[q] = panes[q]
      /\ panes' = [q \in DOMAIN panes' |-> panes'[q]]
  BY DEF PanesInv, PanesWell, Fill
<1>2. \A q \in DOMAIN panes' : PaneOf(scope, panes'[q])
  BY <1>1 DEF PanesInv, PanesWell
<1>3. PanesWell'
  BY <1>1, <1>2 DEF PanesInv, PanesWell
<1>4. ASSUME NEW q \in DOMAIN panes
      PROVE  /\ panes[q].has \in {"chat", "opened"} /\ panes'[q] # EmptyPane =>
                  panes'[q].has = panes[q].has /\ panes'[q].id = panes[q].id
             /\ panes'[q].of \cup panes'[q].note \subseteq {scope'}
  <2>1. panes'[q].of \cup panes'[q].note \subseteq {scope'}
    BY <1>1, <1>2 DEF PaneOf
  <2>2. CASE q = p
    BY <1>1, <2>1, <2>2
  <2>3. CASE q # p
    BY <1>1, <2>1, <2>3
  <2> QED
    BY <2>2, <2>3
<1> QED
  BY <1>1, <1>3, <1>4 DEF KeepsChats

\* After pane.generation++ nothing is wanted in the pane.
LEMMA GenerationEnds ==
  ASSUME PanesInv, NEW p, NewPaneGeneration(p)
  PROVE  \A o \in opening' :
           OpeningShape(o) /\ (o.mine => o \in opening /\ o.pane # p)
<1> SUFFICES ASSUME NEW o \in opening
             PROVE  LET n == IF o.pane = p THEN [o EXCEPT !.mine = FALSE] ELSE o IN
                    OpeningShape(n) /\ (n.mine => n \in opening /\ n.pane # p)
  BY DEF NewPaneGeneration
<1>1. OpeningShape(o)
  BY DEF PanesInv, OpeningsWell
<1>2. CASE o.pane = p
  <2>1. OpeningShape([o EXCEPT !.mine = FALSE]) /\ ~[o EXCEPT !.mine = FALSE].mine
    BY <1>1 DEF OpeningShape
  <2> QED
    BY <1>2, <2>1
<1>3. CASE o.pane # p
  BY <1>1, <1>3
<1> QED
  BY <1>2, <1>3

\* What stays wanted when a pane begins a new generation and is filled.
LEMMA NewFillKeeps ==
  ASSUME PanesInv, NEW p \in DOMAIN panes, NEW pane, PaneOf(scope, pane), Fill(p, pane),
         UNCHANGED <<scope, lastPane>>, NewPaneGeneration(p),
         panes[p].has \in {"chat", "opened"} /\ pane # EmptyPane =>
           pane.has = panes[p].has /\ pane.id = panes[p].id
  PROVE  PanesInv' /\ KeepsChats
<1>1. /\ PanesWell' /\ KeepsChats /\ DOMAIN panes' = DOMAIN panes
      /\ \A q \in DOMAIN panes : q # p => panes'[q] = panes[q]
  BY FillKeeps
<1>2. ASSUME NEW o \in opening', o.mine PROVE Wanted(o)'
  <2>1. o \in opening /\ o.pane # p
    BY <1>2, GenerationEnds
  <2> QED
    BY <1>1, <1>2, <2>1 DEF PanesInv, OpeningsWell, Wanted
<1> QED
  BY <1>1, <1>2, GenerationEnds, OneStays DEF PanesInv, OpeningsWell

\* What stays wanted when a pane is filled that waits for no session.
LEMMA SameFillKeeps ==
  ASSUME PanesInv, NEW p \in DOMAIN panes, NEW pane, PaneOf(scope, pane), Fill(p, pane),
         UNCHANGED <<scope, lastPane>>, opening' \subseteq opening,
         \A o \in opening' : o.mine /\ o.op = "open" /\ o.pane = p =>
           pane.has = panes[p].has /\ pane.busy = panes[p].busy,
         panes[p].has \in {"chat", "opened"} /\ pane # EmptyPane =>
           pane.has = panes[p].has /\ pane.id = panes[p].id
  PROVE  PanesInv' /\ KeepsChats
<1>1. /\ PanesWell' /\ KeepsChats /\ DOMAIN panes' = DOMAIN panes /\ panes'[p] = pane
      /\ \A q \in DOMAIN panes : q # p => panes'[q] = panes[q]
  BY FillKeeps
<1>2. ASSUME NEW o \in opening', o.mine PROVE Wanted(o)'
  <2>1. Wanted(o)
    BY <1>2 DEF PanesInv, OpeningsWell
  <2>2. CASE o.pane = p
    BY <1>1, <1>2, <2>1, <2>2 DEF Wanted
  <2>3. CASE o.pane # p
    BY <1>1, <1>2, <2>1, <2>3 DEF Wanted
  <2> QED
    BY <2>2, <2>3
<1> QED
  BY <1>1, <1>2, OneStays DEF PanesInv, OpeningsWell

\* A pane is opened beside the others.
LEMMA OpenedBeside ==
  ASSUME PanesInv, NEW pane, PaneOf(scope, pane), UNCHANGED scope, lastPane' = lastPane + 1,
         panes' = [p \in DOMAIN panes \cup {lastPane'} |->
                     IF p = lastPane' THEN pane ELSE panes[p]]
  PROVE  /\ PanesWell' /\ KeepsChats /\ lastPane' \notin DOMAIN panes
         /\ DOMAIN panes' = DOMAIN panes \cup {lastPane'} /\ panes'[lastPane'] = pane
         /\ \A q \in DOMAIN panes : panes'[q] = panes[q]
<1>1. lastPane' \in Nat /\ lastPane' \notin DOMAIN panes
  BY DEF PanesInv, PanesWell
<1>2. /\ DOMAIN panes' = DOMAIN panes \cup {lastPane'} /\ panes'[lastPane'] = pane
      /\ \A q \in DOMAIN panes : panes'[q] = panes[q]
  BY <1>1
<1>3. DOMAIN panes' \subseteq 1..lastPane'
  BY <1>2 DEF PanesInv, PanesWell
<1>4. panes' = [p \in DOMAIN panes' |-> panes'[p]]
  BY <1>2
<1>5. \A q \in DOMAIN panes' : PaneOf(scope, panes'[q])
  BY <1>2 DEF PanesInv, PanesWell
<1>6. PanesWell'
  BY <1>1, <1>3, <1>4, <1>5 DEF PanesWell
<1>7. KeepsChats
  BY <1>2, <1>5 DEF KeepsChats, PaneOf
<1> QED
  BY <1>1, <1>2, <1>6, <1>7

\* One step of the panes, the list and the openings.
LEMMA ChatsStep ==
  ASSUME PanesInv, ChatsNext, UNCHANGED scope
  PROVE  PanesInv' /\ KeepsChats
<1>0. PanesWell /\ OpeningsWell /\ OneOpening
  BY DEF PanesInv
<1>a. CASE UNCHANGED chats
  <2>1. PanesInv'
    BY <1>0, <1>a DEF PanesInv, PanesWell, OpeningsWell, Wanted, OneOpening, chats
  <2>2. KeepsChats
    BY <1>0, <1>a DEF KeepsChats, PanesWell, PaneOf, chats
  <2> QED
    BY <2>1, <2>2
<1>1. CASE OpenPane
  <2>1. /\ PanesWell' /\ KeepsChats /\ DOMAIN panes \subseteq DOMAIN panes'
        /\ \A q \in DOMAIN panes : panes'[q] = panes[q]
    BY <1>1, EmptyIsWell, OpenedBeside DEF OpenPane, OpensPane
  <2> QED
    BY <1>0, <1>1, <2>1 DEF OpenPane, PanesInv, OpeningsWell, Wanted, OneOpening
<1>2. ASSUME NEW p \in DOMAIN panes, ClosePane(p) PROVE PanesInv' /\ KeepsChats
  <2>1. /\ DOMAIN panes' = DOMAIN panes \ {p} /\ panes' = [q \in DOMAIN panes' |-> panes'[q]]
        /\ \A q \in DOMAIN panes' : panes'[q] = panes[q]
    BY <1>2 DEF ClosePane
  <2>2. PanesWell' /\ KeepsChats
    BY <1>0, <1>2, <2>1 DEF ClosePane, PanesWell, KeepsChats, PaneOf
  <2>3. ASSUME NEW o \in opening', o.mine PROVE Wanted(o)'
    <3>1. o \in opening /\ o.pane # p
      BY <1>2, <2>3, GenerationEnds DEF ClosePane
    <3> QED
      BY <1>0, <2>1, <2>3, <3>1 DEF OpeningsWell, Wanted
  <2> QED
    BY <1>0, <1>2, <2>2, <2>3, GenerationEnds, OneStays DEF ClosePane, PanesInv, OpeningsWell
<1>3. ASSUME NEW p \in DOMAIN panes, NewConversation(p) PROVE PanesInv' /\ KeepsChats
  BY <1>3, EmptyIsWell, NewFillKeeps DEF NewConversation
<1>4. ASSUME NEW p \in DOMAIN panes, SendIn(p) PROVE PanesInv' /\ KeepsChats
  <2>1. PaneOf(scope, panes[p])
    BY <1>0 DEF PanesWell
  <2>2. PICK pane : pane = [panes[p] EXCEPT !.has = IF @ = "nothing" THEN "chat" ELSE @,
                                            !.of = {scope}, !.busy = TRUE, !.note = {}]
    OBVIOUS
  <2>3. Fill(p, pane) /\ NewPaneGeneration(p) /\ UNCHANGED lastPane
    BY <1>4, <2>2 DEF SendIn
  <2>4. PaneOf(scope, pane)
    BY <2>1, <2>2 DEF PaneOf
  <2>5. panes[p].has \in {"chat", "opened"} => pane.has = panes[p].has /\ pane.id = panes[p].id
    BY <2>1, <2>2 DEF PaneOf
  <2> QED
    BY <2>3, <2>4, <2>5, NewFillKeeps
<1>5. ASSUME NEW p \in DOMAIN panes, ReplyEnds(p) PROVE PanesInv' /\ KeepsChats
  <2>1. PaneOf(scope, panes[p])
    BY <1>0 DEF PanesWell
  <2>2. PICK pane : pane = [panes[p] EXCEPT !.busy = FALSE]
    OBVIOUS
  <2>3. Fill(p, pane) /\ UNCHANGED <<lastPane, opening>> /\ panes[p].has \in {"chat", "opened"}
    BY <1>5, <2>2 DEF ReplyEnds
  <2>4. PaneOf(scope, pane)
    BY <2>1, <2>2 DEF PaneOf
  <2>5. pane.has = panes[p].has /\ pane.id = panes[p].id
    BY <2>1, <2>2 DEF PaneOf
  <2>6. \A o \in opening' : ~(o.mine /\ o.op = "open" /\ o.pane = p)
    BY <1>0, <2>3 DEF OpeningsWell, Wanted
  <2> QED
    BY <2>3, <2>4, <2>5, <2>6, SameFillKeeps
<1>6. ASSUME NEW p \in DOMAIN panes, InsertCanvasNote(p) PROVE PanesInv' /\ KeepsChats
  <2>1. PICK n : n = [op |-> "note", pane |-> p, id |-> 0, of |-> scope, mine |-> TRUE]
    OBVIOUS
  <2>2. opening' = opening \cup {n} /\ UNCHANGED <<panes, lastPane>>
    BY <1>6, <2>1 DEF InsertCanvasNote
  <2>3. OpeningShape(n) /\ Wanted(n)
    BY <2>1 DEF OpeningShape, Wanted
  <2>4. OpeningsWell'
    BY <1>0, <2>2, <2>3 DEF OpeningsWell, Wanted
  <2>6. n.op # "open"
    BY <2>1
  <2>7. OneOpening'
    BY <1>0, <2>2, <2>6 DEF OneOpening
  <2>5. PanesWell' /\ KeepsChats
    BY <1>0, <2>2 DEF PanesWell, KeepsChats, PaneOf
  <2> QED
    BY <2>4, <2>5, <2>7 DEF PanesInv
<1>7. ASSUME NEW o \in opening, NoteSettles(o) PROVE PanesInv' /\ KeepsChats
  <2>1. opening' = opening \ {o} /\ UNCHANGED lastPane /\ o.op = "note"
    BY <1>7 DEF NoteSettles
  <2>2. CASE UNCHANGED panes
    <3>1. PanesWell' /\ KeepsChats
      BY <1>0, <2>1, <2>2 DEF PanesWell, KeepsChats, PaneOf
    <3>2. OpeningsWell' /\ OneOpening'
      BY <1>0, <2>1, <2>2, OneStays DEF OpeningsWell, Wanted
    <3> QED
      BY <3>1, <3>2 DEF PanesInv
  <2>3. CASE o.mine /\ o.of = scope
             /\ Fill(o.pane, [panes[o.pane] EXCEPT !.note = @ \cup {o.of}])
    <3>1. o.pane \in DOMAIN panes
      BY <1>0, <2>3 DEF OpeningsWell, Wanted
    <3>2. PaneOf(scope, panes[o.pane])
      BY <1>0, <3>1 DEF PanesWell
    <3>3. PICK pane : pane = [panes[o.pane] EXCEPT !.note = @ \cup {o.of}]
      OBVIOUS
    <3>4. Fill(o.pane, pane)
      BY <2>3, <3>3
    <3>5. PaneOf(scope, pane)
      BY <2>3, <3>2, <3>3 DEF PaneOf
    <3>6. pane.has = panes[o.pane].has /\ pane.id = panes[o.pane].id /\ pane.busy = panes[o.pane].busy
      BY <3>2, <3>3 DEF PaneOf
    <3>7. opening' \subseteq opening
      BY <2>1
    <3> QED
      BY <2>1, <3>1, <3>4, <3>5, <3>6, <3>7, SameFillKeeps
  <2> QED
    BY <1>7, <2>2, <2>3 DEF NoteSettles
<1>8. ASSUME NEW i \in DOMAIN hist.rows, OpenFromHistory(i) PROVE PanesInv' /\ KeepsChats
  <2> DEFINE session == hist.rows[i].id
  <2>1. ASSUME NEW p, Opens(p, session)
        PROVE  \E n : /\ n.pane = p /\ n.of = scope
                      /\ \A o \in opening' :
                           OpeningShape(o)
                           /\ (o.mine => o = n \/ (o \in opening /\ o.pane # p))
    <3>1. PICK n : n = [op |-> "open", pane |-> p, id |-> session, of |-> scope, mine |-> TRUE]
      OBVIOUS
    <3>2. PICK old : old = {IF o.pane = p THEN [o EXCEPT !.mine = FALSE] ELSE o : o \in opening}
      OBVIOUS
    <3>3. opening' = old \cup {n}
      BY <2>1, <3>1, <3>2 DEF Opens
    <3>4. ASSUME NEW o \in old
          PROVE  OpeningShape(o) /\ (o.mine => o \in opening /\ o.pane # p)
      <4>1. PICK q \in opening : o = IF q.pane = p THEN [q EXCEPT !.mine = FALSE] ELSE q
        BY <3>2
      <4>2. OpeningShape(q)
        BY <1>0 DEF OpeningsWell
      <4>3. OpeningShape([q EXCEPT !.mine = FALSE]) /\ ~[q EXCEPT !.mine = FALSE].mine
        BY <4>2 DEF OpeningShape
      <4> QED
        BY <4>1, <4>2, <4>3
    <3>5. OpeningShape(n)
      BY <3>1 DEF OpeningShape
    <3>6. n.pane = p /\ n.of = scope
      BY <3>1
    <3> QED
      BY <3>3, <3>4, <3>5, <3>6
  <2> HIDE DEF session
  <2>2. ASSUME NEW p \in DOMAIN panes, Idle(panes[p]),
               Fill(p, [Opened EXCEPT !.note = panes[p].note]), Opens(p, session),
               UNCHANGED lastPane
        PROVE  PanesInv' /\ KeepsChats
    <3>1. PICK pane : pane = [Opened EXCEPT !.note = panes[p].note]
      OBVIOUS
    <3>2. Fill(p, pane)
      BY <2>2, <3>1
    <3>3. PaneOf(scope, pane) /\ pane.has = "nothing" /\ pane.busy
      BY <1>0, <3>1, EmptyIsWell DEF PanesWell, PaneOf
    <3>4. ~(panes[p].has \in {"chat", "opened"})
      BY <2>2 DEF Idle
    <3>5. /\ PanesWell' /\ KeepsChats /\ DOMAIN panes' = DOMAIN panes /\ panes'[p] = pane
          /\ \A q \in DOMAIN panes : q # p => panes'[q] = panes[q]
      BY <2>2, <3>2, <3>3, <3>4, FillKeeps
    <3>6. PICK n : /\ n.pane = p /\ n.of = scope
                   /\ \A o \in opening' :
                        OpeningShape(o)
                        /\ (o.mine => o = n \/ (o \in opening /\ o.pane # p))
      BY <2>1, <2>2 DEF session
    <3>7. Wanted(n)'
      BY <3>3, <3>5, <3>6 DEF Wanted
    <3>8. ASSUME NEW o \in opening', o.mine PROVE Wanted(o)'
      BY <1>0, <3>5, <3>6, <3>7, <3>8 DEF OpeningsWell, Wanted
    <3>9. OneOpening'
      BY <1>0, <3>6 DEF OneOpening
    <3> QED
      BY <3>5, <3>6, <3>8, <3>9 DEF PanesInv, OpeningsWell
  <2>3. CASE /\ OpensPane /\ Opens(lastPane', session)
             /\ panes' = [p \in DOMAIN panes \cup {lastPane'} |->
                            IF p = lastPane' THEN Opened ELSE panes[p]]
    <3>1. /\ PanesWell' /\ KeepsChats /\ lastPane' \notin DOMAIN panes
          /\ DOMAIN panes' = DOMAIN panes \cup {lastPane'} /\ panes'[lastPane'] = Opened
          /\ \A q \in DOMAIN panes : panes'[q] = panes[q]
      BY <2>3, EmptyIsWell, OpenedBeside DEF OpensPane
    <3>2. PICK n : /\ n.pane = lastPane' /\ n.of = scope
                   /\ \A o \in opening' :
                        OpeningShape(o)
                        /\ (o.mine => o = n \/ (o \in opening /\ o.pane # lastPane'))
      BY <2>1, <2>3 DEF session
    <3>3. Wanted(n)'
      BY <3>1, <3>2, EmptyIsWell DEF Wanted
    <3>4. ASSUME NEW o \in opening', o.mine PROVE Wanted(o)'
      BY <1>0, <3>1, <3>2, <3>3, <3>4 DEF OpeningsWell, Wanted
    <3>5. OneOpening'
      BY <1>0, <3>2 DEF OneOpening
    <3> QED
      BY <3>1, <3>2, <3>4, <3>5 DEF PanesInv, OpeningsWell
  <2> QED
    BY <1>8, <2>2, <2>3 DEF OpenFromHistory, session
<1>9. ASSUME NEW o \in opening, OpeningSettles(o) PROVE PanesInv' /\ KeepsChats
  <2>1. opening' = opening \ {o} /\ UNCHANGED lastPane /\ o.op = "open"
    BY <1>9 DEF OpeningSettles
  <2>2. CASE ~o.mine
    <3>1. UNCHANGED panes
      BY <1>9, <2>2 DEF OpeningSettles
    <3>2. PanesWell' /\ KeepsChats
      BY <1>0, <2>1, <3>1 DEF PanesWell, KeepsChats, PaneOf
    <3>3. OpeningsWell' /\ OneOpening'
      BY <1>0, <2>1, <3>1, OneStays DEF OpeningsWell, Wanted
    <3> QED
      BY <3>2, <3>3 DEF PanesInv
  <2>3. CASE o.mine
    <3>1. /\ o.pane \in DOMAIN panes /\ o.of = scope
          /\ panes[o.pane].has = "nothing" /\ panes[o.pane].busy
      BY <1>0, <2>1, <2>3 DEF OpeningsWell, Wanted
    <3>2. PICK has \in {"opened", "failed"} :
            Fill(o.pane, [panes[o.pane] EXCEPT !.has = has, !.busy = FALSE,
                            !.id = IF has = "opened" THEN o.id ELSE 0,
                            !.of = IF has = "opened" THEN {o.of} ELSE {}])
      BY <1>9, <2>3 DEF OpeningSettles
    <3>3. PaneOf(scope, panes[o.pane])
      BY <1>0, <3>1 DEF PanesWell
    <3>4. PICK pane : pane = [panes[o.pane] EXCEPT !.has = has, !.busy = FALSE,
                                !.id = IF has = "opened" THEN o.id ELSE 0,
                                !.of = IF has = "opened" THEN {o.of} ELSE {}]
      OBVIOUS
    <3>5. Fill(o.pane, pane)
      BY <3>2, <3>4
    <3>6. PaneOf(scope, pane)
      BY <3>1, <3>3, <3>4 DEF PaneOf
    <3>7. \A q \in opening' : ~(q.mine /\ q.op = "open" /\ q.pane = o.pane)
      BY <1>0, <2>1, <2>3 DEF OneOpening
    <3>8. opening' \subseteq opening
      BY <2>1
    <3> QED
      BY <2>1, <3>1, <3>5, <3>6, <3>7, <3>8, SameFillKeeps
  <2> QED
    BY <2>2, <2>3
<1> QED
  BY <1>a, <1>1, <1>2, <1>3, <1>4, <1>5, <1>6, <1>7, <1>8, <1>9 DEF ChatsNext

\* One step of the application.
LEMMA PanesStep == PanesInv /\ [AppNext]_appvars => PanesInv' /\ KeepsChats
<1> SUFFICES ASSUME PanesInv, [AppNext]_appvars PROVE PanesInv' /\ KeepsChats
  OBVIOUS
<1>0. PanesWell /\ OpeningsWell /\ OneOpening
  BY DEF PanesInv
<1>1. ASSUME NEW s \in Scope, Retarget(s) PROVE PanesInv' /\ KeepsChats
  <2>1. /\ DOMAIN panes' = DOMAIN panes /\ panes' = [p \in DOMAIN panes' |-> panes'[p]]
        /\ \A p \in DOMAIN panes : panes'[p] = EmptyPane
        /\ lastPane' = lastPane
    BY <1>1 DEF Retarget
  <2>2. PanesWell'
    BY <1>0, <2>1, EmptyIsWell DEF PanesWell
  <2>3. KeepsChats
    BY <2>1 DEF KeepsChats, EmptyPane
  <2>4. ASSUME NEW o \in opening' PROVE OpeningShape(o) /\ ~o.mine
    <3>1. PICK q \in opening : o = [q EXCEPT !.mine = FALSE]
      BY <1>1 DEF Retarget
    <3>2. OpeningShape(q)
      BY <1>0 DEF OpeningsWell
    <3> QED
      BY <3>1, <3>2 DEF OpeningShape
  <2>5. OpeningsWell' /\ OneOpening'
    BY <2>4 DEF OpeningsWell, OneOpening
  <2> QED
    BY <2>2, <2>3, <2>5 DEF PanesInv
<1>2. CASE UNCHANGED <<scope, chats>>
  <2>1. PanesInv'
    BY <1>0, <1>2 DEF PanesInv, PanesWell, OpeningsWell, Wanted, OneOpening, chats
  <2>2. KeepsChats
    BY <1>0, <1>2 DEF KeepsChats, PanesWell, PaneOf, chats
  <2> QED
    BY <2>1, <2>2
<1>3. CASE ChatsNext /\ UNCHANGED scope
  BY <1>3, ChatsStep
<1> QED
  BY <1>1, <1>2, <1>3 DEF AppNext, appvars

\* A pane that holds a chat keeps it until the user begins a new one there or
\* the workspace changes, whatever is opened from the history meanwhile and
\* whenever it answers; and no pane or composer holds anything of another
\* workspace (personal-chat-ui.ts 306-362).
THEOREM ChatsStay == AppSpec => ChatNeverReplaced
<1>1. AppInit => PanesInv
  <2> SUFFICES ASSUME AppInit PROVE PanesInv
    OBVIOUS
  <2>1. lastPane = 1 /\ DOMAIN panes = {1} /\ panes[1] = EmptyPane /\ opening = {}
        /\ panes = [p \in DOMAIN panes |-> panes[p]]
    BY DEF AppInit
  <2> QED
    BY <2>1, EmptyIsWell DEF PanesInv, PanesWell, OpeningsWell, OneOpening
<1>2. PanesInv /\ [AppNext]_appvars => PanesInv' /\ [KeepsChats]_appvars
  BY PanesStep
<1> QED
  BY <1>1, <1>2, PTL DEF AppSpec, ChatNeverReplaced, KeepsChats

----------------------------------------------------------------------------
(* The list of previous chats *)

Row == [id : Nat, of : Scope]
HistoryRead == [offset : Nat, mine : BOOLEAN, kept : BOOLEAN]

\* The owner has each session once: those there were, and at most one new.
LibraryWell ==
  /\ library \in Seq(Nat)
  /\ \A i, j \in DOMAIN library : library[i] = library[j] => i = j
  /\ \A id \in 1..Len(Sessions) : \E i \in DOMAIN library : library[i] = id
  /\ \/ Len(library) = Len(Sessions)
     \/ /\ Len(library) = Len(Sessions) + 1 /\ MaxMoves > 0
        /\ \E i \in DOMAIN library : library[i] = Len(Sessions) + 1
  /\ IsFiniteSet(moved)

Shown == {hist.rows[i].id : i \in DOMAIN hist.rows}
Covered(m) == library[m] \in Shown \cup moved

ListWell ==
  /\ hist \in [hidden : BOOLEAN, rows : Seq(Row), next : 0..NoMore, loading : BOOLEAN]
  /\ \A i, j \in DOMAIN hist.rows :
       hist.rows[i].of = scope /\ (hist.rows[i].id = hist.rows[j].id => i = j)
  /\ hist.next = 0 => hist.rows = << >>

\* What the pages read so far cover is shown, save what moved; nothing of it
\* is behind what they do not cover.
PagesWell ==
  /\ \A m \in DOMAIN library : hist.next = NoMore \/ m <= hist.next => Covered(m)
  /\ \A m, n \in DOMAIN library : m <= n /\ ~Covered(m) => library[n] \notin Shown \ moved

\* A page that is awaited is the next one, and the button says so.
ReadsWell ==
  /\ histReads \subseteq HistoryRead
  /\ \A r, q \in histReads : r.mine /\ q.mine => r = q
  /\ \A r \in histReads : r.mine => r.offset = hist.next /\ hist.next # NoMore /\ hist.loading
  /\ hist.loading => \E r \in histReads : r.mine
HistoryInv == scope \in Scope /\ LibraryWell /\ ListWell /\ PagesWell /\ ReadsWell

LEMMA Bounds ==
  /\ Len(Sessions) \in Nat /\ MaxMoves \in Nat /\ PageSize \in Nat \ {0}
  /\ NoMore \in Nat /\ NoMore = Len(Sessions) + MaxMoves + 1
BY ApplicationAssumption DEF NoMore

\* A page of the owner: the sessions from its offset on, each of the scope.
LEMMA PageIs ==
  ASSUME LibraryWell, scope \in Scope, NEW offset \in Nat
  PROVE  /\ PageAt(offset) \in Seq(Row)
         /\ \A i \in 1..Len(PageAt(offset)) :
              /\ offset + i \in DOMAIN library /\ i <= PageSize
              /\ PageAt(offset)[i].id = library[offset + i] /\ PageAt(offset)[i].of = scope
         /\ \A m \in DOMAIN library :
              offset < m /\ m <= offset + PageSize => m - offset \in 1..Len(PageAt(offset))
<1> DEFINE here == 1..Len(library) \cap (offset + 1)..(offset + PageSize)
<1> DEFINE last == IF Len(library) < offset + PageSize THEN Len(library) ELSE offset + PageSize
<1> DEFINE n == Cardinality(here)
<1>1. Len(library) \in Nat /\ DOMAIN library = 1..Len(library) /\ PageSize \in Nat
  BY Bounds DEF LibraryWell
<1>2. last \in Nat /\ here = (offset + 1)..last
  BY <1>1
<1>3. n = IF offset + 1 > last THEN 0 ELSE last - offset
  <2> HIDE DEF last
  <2>1. Cardinality((offset + 1)..last) = IF offset + 1 > last THEN 0 ELSE last - (offset + 1) + 1
    BY <1>2, FS_Interval
  <2>2. Cardinality((offset + 1)..last) = IF offset + 1 > last THEN 0 ELSE last - offset
    BY <1>2, <2>1
  <2> HIDE DEF here
  <2>3. n = Cardinality((offset + 1)..last)
    BY <1>2
  <2> HIDE DEF n
  <2> QED
    BY <2>2, <2>3
<1>4. n \in Nat
  BY <1>2, <1>3
<1>5. \A i \in 1..n : offset + i \in DOMAIN library /\ i <= PageSize
  BY <1>1, <1>3, <1>4
<1>6. \A m \in DOMAIN library : offset < m /\ m <= offset + PageSize => m - offset \in 1..n
  BY <1>1, <1>3
<1>7. PageAt(offset) = [i \in 1..n |-> [id |-> library[offset + i], of |-> scope]]
  BY DEF PageAt
<1> HIDE DEF n, here, last
<1>8. \A j \in DOMAIN library : library[j] \in Nat
  BY <1>1, ElementOfSeq DEF LibraryWell
<1>9. \A i \in 1..n : [id |-> library[offset + i], of |-> scope] \in Row
  BY <1>5, <1>8 DEF Row
<1>10. PageAt(offset) \in [1..n -> Row]
  BY <1>7, <1>9
<1>11. PageAt(offset) \in Seq(Row)
  BY <1>4, <1>10, SeqDef
<1>12. Len(PageAt(offset)) = n
  BY <1>4, <1>10, <1>11, LenProperties
<1>13. \A i \in 1..n : PageAt(offset)[i].id = library[offset + i] /\ PageAt(offset)[i].of = scope
  BY <1>7
<1> QED
  BY <1>5, <1>6, <1>11, <1>12, <1>13

\* The list is shut, or opened anew: nothing is shown, so nothing is missing.
LEMMA ShutIsWell ==
  ASSUME NEW h \in {NoHistory, [NoHistory EXCEPT !.hidden = FALSE, !.loading = TRUE]}
  PROVE  /\ h \in [hidden : BOOLEAN, rows : Seq(Row), next : 0..NoMore, loading : BOOLEAN]
         /\ h.rows = << >> /\ h.next = 0 /\ 0 # NoMore
         /\ (h = NoHistory => ~h.loading)
         /\ (h # NoHistory => h.loading)
<1>1. << >> \in Seq(Row) /\ 0 \in 0..NoMore /\ 0 # NoMore
  BY Bounds
<1>2. NoHistory \in [hidden : BOOLEAN, rows : Seq(Row), next : 0..NoMore, loading : BOOLEAN]
      /\ NoHistory.rows = << >> /\ NoHistory.next = 0 /\ NoHistory.loading = FALSE
  BY <1>1 DEF NoHistory
<1>3. PICK opened : opened = [NoHistory EXCEPT !.hidden = FALSE, !.loading = TRUE]
  OBVIOUS
<1>4. opened \in [hidden : BOOLEAN, rows : Seq(Row), next : 0..NoMore, loading : BOOLEAN]
      /\ opened.rows = << >> /\ opened.next = 0 /\ opened.loading
  BY <1>2, <1>3
<1> QED
  BY <1>1, <1>2, <1>3, <1>4

LEMMA ShutKeeps ==
  ASSUME HistoryInv, scope' \in Scope, LibraryWell',
         hist' \in {NoHistory, [NoHistory EXCEPT !.hidden = FALSE, !.loading = TRUE]}
  PROVE  ListWell' /\ PagesWell'
<1>1. /\ hist' \in [hidden : BOOLEAN, rows : Seq(Row), next : 0..NoMore, loading : BOOLEAN]
      /\ hist'.rows = << >> /\ hist'.next = 0 /\ 0 # NoMore
  BY ShutIsWell
<1>2. DOMAIN hist'.rows = {} /\ Shown' = {}
  BY <1>1 DEF Shown
<1>3. ListWell'
  BY <1>1, <1>2 DEF ListWell
<1>4. \A m \in DOMAIN library' : m >= 1 /\ m \in Nat
  BY DEF LibraryWell
<1> QED
  BY <1>1, <1>2, <1>3, <1>4 DEF PagesWell

\* Reads that were awaited no more.
LEMMA SupersededHistory ==
  ASSUME ReadsWell
  PROVE  /\ \A r \in HistorySuperseded : r \in HistoryRead /\ ~r.mine
         /\ \A r \in Retargeted(histReads) : r \in HistoryRead /\ ~r.mine
BY DEF ReadsWell, HistorySuperseded, Retargeted, HistoryRead

\* The next page is shown: each of its sessions is new, and what was not
\* covered and is not of this page is behind it.
LEMMA PageKeeps ==
  ASSUME HistoryInv, NEW r \in histReads, r.mine, IsNew(PageAt(r.offset)),
         hist' = WithRows(r), histReads' = histReads \ {r}, UNCHANGED <<scope, world>>
  PROVE  HistoryInv'
<1>0. LibraryWell /\ ListWell /\ PagesWell /\ ReadsWell /\ scope \in Scope
  BY DEF HistoryInv
<1>1. /\ r.offset \in Nat /\ r.offset = hist.next /\ hist.next # NoMore
  BY <1>0 DEF ReadsWell, HistoryRead
<1>2. PICK page : page = PageAt(r.offset)
  OBVIOUS
<1>3. /\ page \in Seq(Row) /\ Len(page) \in Nat /\ DOMAIN page = 1..Len(page)
      /\ \A i \in 1..Len(page) : /\ r.offset + i \in DOMAIN library /\ i <= PageSize
                                 /\ page[i].id = library[r.offset + i] /\ page[i].of = scope
      /\ \A m \in DOMAIN library :
           r.offset < m /\ m <= r.offset + PageSize => m - r.offset \in 1..Len(page)
  BY <1>0, <1>1, <1>2, PageIs, LenProperties
<1>4. hist.rows \in Seq(Row) /\ Len(hist.rows) \in Nat /\ DOMAIN hist.rows = 1..Len(hist.rows)
  BY <1>0, LenProperties DEF ListWell
<1>5. PICK rows : rows = hist.rows \o page
  OBVIOUS
<1>6. /\ rows \in Seq(Row) /\ DOMAIN rows = 1..(Len(hist.rows) + Len(page))
      /\ \A i \in DOMAIN rows : /\ i <= Len(hist.rows) => rows[i] = hist.rows[i]
                                /\ i > Len(hist.rows) => rows[i] = page[i - Len(hist.rows)]
  <2>1. rows \in Seq(Row) /\ Len(rows) = Len(hist.rows) + Len(page)
    BY <1>3, <1>4, <1>5, ConcatProperties
  <2>2. DOMAIN rows = 1..(Len(hist.rows) + Len(page))
    BY <2>1, LenProperties
  <2>3. \A i \in 1..(Len(hist.rows) + Len(page)) :
          rows[i] = IF i <= Len(hist.rows) THEN hist.rows[i] ELSE page[i - Len(hist.rows)]
    BY <1>3, <1>4, <1>5, ConcatProperties
  <2> QED
    BY <1>3, <1>4, <2>1, <2>2, <2>3
<1>7. (IF r.offset = 0 THEN << >> ELSE hist.rows) \o page = rows
  BY <1>0, <1>1, <1>5 DEF ListWell
<1>8. PICK next : next = IF Len(library) > r.offset + PageSize THEN r.offset + PageSize ELSE NoMore
  OBVIOUS
<1>9. Len(library) \in Nat /\ DOMAIN library = 1..Len(library) /\ Len(library) < NoMore
  BY <1>0, LenProperties, Bounds DEF LibraryWell
<1>10. /\ next \in 0..NoMore /\ next # 0
       /\ \A m \in DOMAIN library : next = NoMore \/ m <= next => m <= r.offset + PageSize
  BY <1>1, <1>8, <1>9, Bounds
<1>11. hist' = [hist EXCEPT !.rows = rows, !.next = next, !.loading = FALSE]
  BY <1>2, <1>7, <1>8 DEF WithRows
<1>12. /\ hist' \in [hidden : BOOLEAN, rows : Seq(Row), next : 0..NoMore, loading : BOOLEAN]
       /\ hist'.rows = rows /\ hist'.next = next /\ hist'.loading = FALSE
  BY <1>0, <1>6, <1>10, <1>11 DEF ListWell
<1>13. Shown' = Shown \cup {page[i].id : i \in 1..Len(page)}
  <2>1. ASSUME NEW i \in DOMAIN rows
        PROVE  rows[i].id \in Shown \cup {page[j].id : j \in 1..Len(page)}
    <3>1. CASE i <= Len(hist.rows)
      BY <1>4, <1>6, <2>1, <3>1 DEF Shown
    <3>2. CASE i > Len(hist.rows)
      <4>1. i - Len(hist.rows) \in 1..Len(page)
        BY <1>3, <1>4, <1>6, <3>2
      <4> QED
        BY <1>6, <2>1, <3>2, <4>1
    <3> QED
      BY <1>4, <1>6, <3>1, <3>2
  <2>2. ASSUME NEW i \in DOMAIN hist.rows PROVE hist.rows[i].id \in Shown'
    <3>1. i \in DOMAIN rows /\ rows[i] = hist.rows[i]
      BY <1>3, <1>4, <1>6
    <3> QED
      BY <1>12, <3>1 DEF Shown
  <2>3. ASSUME NEW j \in 1..Len(page) PROVE page[j].id \in Shown'
    <3>1. Len(hist.rows) + j \in DOMAIN rows /\ Len(hist.rows) + j > Len(hist.rows)
          /\ (Len(hist.rows) + j) - Len(hist.rows) = j
      BY <1>3, <1>4, <1>6
    <3>2. rows[Len(hist.rows) + j] = page[j]
      BY <1>6, <3>1
    <3> QED
      BY <1>12, <3>1, <3>2 DEF Shown
  <2> QED
    BY <1>12, <2>1, <2>2, <2>3 DEF Shown
<1>14. ListWell'
  <2>1. ASSUME NEW i \in DOMAIN rows PROVE rows[i].of = scope
    <3>1. CASE i <= Len(hist.rows)
      BY <1>0, <1>3, <1>4, <1>6, <3>1 DEF ListWell
    <3>2. CASE i > Len(hist.rows)
      <4>1. i - Len(hist.rows) \in 1..Len(page)
        BY <1>3, <1>4, <1>6, <3>2
      <4> QED
        BY <1>3, <1>6, <3>2, <4>1
    <3> QED
      BY <1>4, <1>6, <3>1, <3>2
  <2>2. ASSUME NEW i \in DOMAIN hist.rows, NEW j \in DOMAIN page
        PROVE  hist.rows[i].id # page[j].id
    <3>1. hist.rows[i] # page[j]
      BY <1>2 DEF IsNew
    <3>2. hist.rows[i] \in Row /\ page[j] \in Row
      BY <1>3, <1>4, ElementOfSeq
    <3>3. hist.rows[i].of = page[j].of
      BY <1>0, <1>3 DEF ListWell
    <3> QED
      BY <3>1, <3>2, <3>3 DEF Row
  <2>3. ASSUME NEW i \in DOMAIN page, NEW j \in DOMAIN page, page[i].id = page[j].id
        PROVE  i = j
    <3>1. r.offset + i = r.offset + j
      BY <1>0, <1>3, <2>3 DEF LibraryWell
    <3> QED
      BY <1>1, <1>3, <3>1
  <2>4. ASSUME NEW i \in DOMAIN rows, NEW j \in DOMAIN rows, rows[i].id = rows[j].id PROVE i = j
    <3> DEFINE ni == i - Len(hist.rows)
    <3> DEFINE nj == j - Len(hist.rows)
    <3>1. /\ i > Len(hist.rows) => ni \in DOMAIN page
          /\ j > Len(hist.rows) => nj \in DOMAIN page
          /\ i <= Len(hist.rows) => i \in DOMAIN hist.rows
          /\ j <= Len(hist.rows) => j \in DOMAIN hist.rows
      BY <1>3, <1>4, <1>6
    <3>2. i \in Nat /\ j \in Nat
      BY <1>3, <1>4, <1>6
    <3>3. CASE i <= Len(hist.rows) /\ j <= Len(hist.rows)
      BY <1>0, <1>6, <2>4, <3>1, <3>3 DEF ListWell
    <3>4. CASE i > Len(hist.rows) /\ j > Len(hist.rows)
      <4>1. page[ni].id = page[nj].id
        BY <1>6, <2>4, <3>4
      <4>2. ni = nj
        BY <2>3, <3>1, <3>4, <4>1
      <4> QED
        BY <1>4, <3>2, <4>2
    <3>5. CASE i <= Len(hist.rows) /\ j > Len(hist.rows)
      BY <1>6, <2>2, <2>4, <3>1, <3>5
    <3>6. CASE i > Len(hist.rows) /\ j <= Len(hist.rows)
      BY <1>6, <2>2, <2>4, <3>1, <3>6
    <3> QED
      BY <1>4, <3>2, <3>3, <3>4, <3>5, <3>6
  <2> QED
    BY <1>10, <1>12, <2>1, <2>4 DEF ListWell
<1>15. \A m \in DOMAIN library : Covered(m) => Covered(m)'
  BY <1>13 DEF Covered, world
<1>16. ASSUME NEW m \in DOMAIN library, next = NoMore \/ m <= next
       PROVE  Covered(m)'
  <2>1. CASE m <= r.offset
    BY <1>0, <1>1, <1>15, <2>1 DEF PagesWell
  <2>2. CASE m > r.offset
    <3>1. m - r.offset \in 1..Len(page)
      BY <1>3, <1>10, <1>16, <2>2
    <3>2. r.offset + (m - r.offset) = m
      BY <1>1, <1>9
    <3>3. page[m - r.offset].id = library[m]
      BY <1>3, <3>1, <3>2
    <3> QED
      BY <1>13, <3>1, <3>3 DEF Covered, world
  <2> QED
    BY <1>1, <1>9, <2>1, <2>2
<1>17. ASSUME NEW m \in DOMAIN library, NEW n \in DOMAIN library, m <= n, ~Covered(m)'
       PROVE  library[n] \notin Shown' \ moved
  <2>1. ~Covered(m) /\ ~(m <= next) /\ next # NoMore
    BY <1>15, <1>16, <1>17
  <2>2. next = r.offset + PageSize
    BY <1>8, <2>1
  <2>3. library[n] \notin Shown \ moved
    BY <1>0, <1>17, <2>1 DEF PagesWell
  <2>4. ASSUME NEW i \in 1..Len(page), page[i].id = library[n] PROVE FALSE
    <3>1. n = r.offset + i /\ i <= PageSize
      BY <1>0, <1>3, <2>4 DEF LibraryWell
    <3> QED
      BY <1>1, <1>3, <1>9, <1>17, <2>1, <2>2, <3>1, Bounds
  <2> QED
    BY <1>13, <2>3, <2>4
<1>18. PagesWell'
  BY <1>12, <1>16, <1>17 DEF PagesWell, world
<1>19. ReadsWell'
  BY <1>0, <1>12 DEF ReadsWell
<1>20. LibraryWell'
  BY <1>0 DEF LibraryWell, world
<1> QED
  BY <1>0, <1>14, <1>18, <1>19, <1>20 DEF HistoryInv

\* A session comes to the front: the others keep their order, and none comes
\* before what it was behind.
LEMMA MoveKeeps ==
  ASSUME HistoryInv, NEW id \in 1..(Len(Sessions) + 1), SessionMoves(id),
         UNCHANGED <<scope, list>>
  PROVE  HistoryInv'
<1>0. LibraryWell /\ ListWell /\ PagesWell /\ ReadsWell /\ scope \in Scope
  BY DEF HistoryInv
<1>1. /\ Len(library) \in Nat /\ DOMAIN library = 1..Len(library)
      /\ \A i \in DOMAIN library : library[i] \in Nat
  BY <1>0, LenProperties, ElementOfSeq DEF LibraryWell
<1>2. PICK k \in 1..(Len(library) + 1) :
        (\A i \in DOMAIN library : library[i] = id <=> i = k) /\ library' = ToFront(k, id)
  BY DEF SessionMoves
<1>a. PICK len : len = Len(library)
  OBVIOUS
<1>b. len \in Nat /\ DOMAIN library = 1..len /\ k \in Nat /\ 1 <= k /\ k <= len + 1
  BY <1>1, <1>2, <1>a
<1>3. PICK n \in Nat : k <= n /\ ((k = len + 1 /\ n = len + 1) \/ (k <= len /\ n = len))
  <2>1. CASE k = len + 1
    BY <1>b, <2>1
  <2>2. CASE k # len + 1
    BY <1>b, <2>2
  <2> QED
    BY <2>1, <2>2
<1> DEFINE was(i) == IF i <= k THEN i - 1 ELSE i
<1>4. k \in 1..n /\ 1..Len(library) \cup {k} = 1..n /\ id \in Nat
  <2>1. 1..len \cup {k} = 1..n
    BY <1>b, <1>3
  <2>2. id \in Nat
    BY Bounds
  <2> QED
    BY <1>a, <1>b, <1>3, <2>1, <2>2
<1>5. library' = [i \in 1..n |-> IF i = 1 THEN id ELSE IF i <= k THEN library[i - 1] ELSE library[i]]
  BY <1>2, <1>4 DEF ToFront
<1>6. \A i \in 1..n : i # 1 => was(i) \in DOMAIN library /\ was(i) # k /\ was(i) <= i
  BY <1>b, <1>3
<1>7. library'[1] = id /\ \A i \in 1..n : i # 1 => library'[i] = library[was(i)]
  BY <1>4, <1>5
<1>8. \A i, j \in 1..n : i # 1 /\ j # 1 => (was(i) = was(j) => i = j) /\ (i <= j => was(i) <= was(j))
  BY <1>b, <1>3
<1>9. \A j \in DOMAIN library : j # k => \E i \in 1..n : i # 1 /\ was(i) = j
  <2> SUFFICES ASSUME NEW j \in DOMAIN library, j # k PROVE \E i \in 1..n : i # 1 /\ was(i) = j
    OBVIOUS
  <2>1. CASE j < k
    <3>1. j + 1 \in 1..n /\ j + 1 # 1 /\ was(j + 1) = j
      BY <1>b, <1>3, <2>1
    <3> QED
      BY <3>1
  <2>2. CASE j > k
    <3>1. j \in 1..n /\ j # 1 /\ was(j) = j
      BY <1>b, <1>3, <2>2
    <3> QED
      BY <3>1
  <2> QED
    BY <1>b, <2>1, <2>2
<1>10. library' \in [1..n -> Nat]
  <2>1. \A i \in 1..n : library'[i] \in Nat
    BY <1>1, <1>4, <1>6, <1>7
  <2> QED
    BY <1>5, <2>1
<1>11. library' \in Seq(Nat) /\ Len(library') = n /\ DOMAIN library' = 1..n
  <2>1. library' \in Seq(Nat)
    BY <1>4, <1>10, SeqDef
  <2> QED
    BY <1>4, <1>10, <2>1, LenProperties
<1> HIDE DEF was
<1>12. \A i, j \in 1..n : library'[i] = library'[j] => i = j
  <2> SUFFICES ASSUME NEW i \in 1..n, NEW j \in 1..n, library'[i] = library'[j] PROVE i = j
    OBVIOUS
  <2>1. CASE i = 1 \/ j = 1
    BY <1>2, <1>6, <1>7, <2>1
  <2>2. CASE i # 1 /\ j # 1
    BY <1>0, <1>6, <1>7, <1>8, <2>2 DEF LibraryWell
  <2> QED
    BY <2>1, <2>2
<1>13. ASSUME NEW x, NEW j \in DOMAIN library, library[j] = x
       PROVE  \E i \in 1..n : library'[i] = x
  <2>1. CASE j = k
    BY <1>2, <1>4, <1>7, <1>13, <2>1
  <2>2. CASE j # k
    BY <1>7, <1>9, <1>13, <2>2
  <2> QED
    BY <2>1, <2>2
<1>14. LibraryWell'
  <2>1. \A x \in 1..Len(Sessions) : \E i \in DOMAIN library' : library'[i] = x
    BY <1>0, <1>11, <1>13 DEF LibraryWell
  <2>2. \/ Len(library') = Len(Sessions)
        \/ /\ Len(library') = Len(Sessions) + 1 /\ MaxMoves > 0
           /\ \E i \in DOMAIN library' : library'[i] = Len(Sessions) + 1
    <3>1. CASE k = len + 1
      <4>1. \A j \in DOMAIN library : library[j] # id
        BY <1>b, <1>2, <3>1
      <4>2. id = Len(Sessions) + 1
        <5>1. id \notin 1..Len(Sessions)
          BY <1>0, <4>1 DEF LibraryWell
        <5> QED
          BY <5>1, Bounds
      <4>3. Len(library) = Len(Sessions)
        BY <1>0, <4>1, <4>2 DEF LibraryWell
      <4>4. Cardinality(moved) \in Nat /\ Cardinality(moved) < MaxMoves
        BY <1>0, FS_CardinalityType DEF LibraryWell, SessionMoves
      <4>5. MaxMoves > 0
        BY <4>4, Bounds
      <4>6. 1 \in DOMAIN library' /\ library'[1] = Len(Sessions) + 1
        BY <1>4, <1>7, <1>11, <4>2
      <4> QED
        BY <1>a, <1>3, <1>11, <1>b, <3>1, <4>3, <4>5, <4>6
    <3>2. CASE k # len + 1
      <4>1. Len(library') = Len(library)
        BY <1>a, <1>b, <1>3, <1>11, <3>2
      <4> QED
        BY <1>0, <1>11, <1>13, <4>1 DEF LibraryWell
    <3> QED
      BY <3>1, <3>2
  <2>3. IsFiniteSet(moved')
    BY <1>0, FS_AddElement DEF LibraryWell, SessionMoves
  <2> QED
    BY <1>11, <1>12, <2>1, <2>2, <2>3 DEF LibraryWell
<1>15. UNCHANGED <<hist, histReads>> /\ Shown' = Shown /\ moved' = moved \cup {id}
  BY DEF list, Shown, SessionMoves
<1>16. Covered(1)'
  BY <1>7, <1>15 DEF Covered
<1>17. ASSUME NEW m \in 1..n, m # 1, Covered(was(m)) PROVE Covered(m)'
  BY <1>7, <1>15, <1>17 DEF Covered
<1>18. ASSUME NEW m \in 1..n, hist.next = NoMore \/ m <= hist.next PROVE Covered(m)'
  <2>1. CASE m = 1
    BY <1>16, <2>1
  <2>2. CASE m # 1
    <3>1. was(m) \in DOMAIN library /\ was(m) <= m
      BY <1>6, <2>2
    <3>2. was(m) \in Nat /\ m \in Nat /\ hist.next \in Nat
      BY <1>0, <1>1, <3>1, Bounds DEF ListWell
    <3>3. hist.next = NoMore \/ was(m) <= hist.next
      BY <1>18, <3>1, <3>2
    <3>4. Covered(was(m))
      BY <1>0, <3>1, <3>3 DEF PagesWell
    <3> QED
      BY <1>17, <2>2, <3>4
  <2> QED
    BY <2>1, <2>2
<1>19. ASSUME NEW m \in 1..n, NEW q \in 1..n, m <= q, ~Covered(m)'
       PROVE  library'[q] \notin Shown \ moved'
  <2>1. m # 1 /\ q # 1
    BY <1>16, <1>19
  <2>2. ~Covered(was(m)) /\ was(m) <= was(q) /\ was(m) \in DOMAIN library /\ was(q) \in DOMAIN library
    BY <1>6, <1>8, <1>17, <1>19, <2>1
  <2>3. library[was(q)] \notin Shown \ moved
    BY <1>0, <2>2 DEF PagesWell
  <2> QED
    BY <1>7, <1>15, <2>1, <2>3
<1>20. PagesWell'
  BY <1>11, <1>15, <1>18, <1>19 DEF PagesWell
<1>21. ListWell' /\ ReadsWell'
  BY <1>0, <1>15 DEF ListWell, ReadsWell
<1> QED
  BY <1>0, <1>14, <1>20, <1>21 DEF HistoryInv

LEMMA SessionsAreWell ==
  ASSUME library = Sessions, moved = {}
  PROVE  LibraryWell
<1>1. Sessions \in Seq(Nat) /\ DOMAIN Sessions = 1..Len(Sessions) /\ \A i \in DOMAIN Sessions : Sessions[i] = i
  BY ApplicationAssumption, LenProperties
<1>2. IsFiniteSet({})
  BY FS_EmptySet
<1> QED
  BY <1>1, <1>2 DEF LibraryWell

\* One step of the list, of the panes beside it or of the owner.
LEMMA ListStep ==
  ASSUME HistoryInv, ChatsNext, UNCHANGED scope
  PROVE  HistoryInv'
<1>0. LibraryWell /\ ListWell /\ PagesWell /\ ReadsWell /\ scope \in Scope
  BY DEF HistoryInv
<1>a. \A r \in HistorySuperseded : r \in HistoryRead /\ ~r.mine
  BY <1>0, SupersededHistory
<1>1. CASE UNCHANGED <<list, world>>
  BY <1>0, <1>1 DEF HistoryInv, LibraryWell, ListWell, PagesWell, ReadsWell, Shown, Covered, list, world
<1>2. CASE ToggleHistory /\ hist.hidden
  <2>1. PICK n : n = [offset |-> 0, mine |-> TRUE, kept |-> TRUE]
    OBVIOUS
  <2>2. /\ hist' = [NoHistory EXCEPT !.hidden = FALSE, !.loading = TRUE]
        /\ histReads' = HistorySuperseded \cup {n} /\ moved' = {} /\ library' = library
    BY <1>2, <2>1 DEF ToggleHistory, ReadsPage
  <2>3. LibraryWell'
    BY <1>0, <2>2, FS_EmptySet DEF LibraryWell
  <2>4. ListWell' /\ PagesWell'
    BY <1>0, <2>2, <2>3, ShutKeeps DEF HistoryInv
  <2>5. hist'.next = 0 /\ 0 # NoMore /\ hist'.loading
    <3>1. hist' # NoHistory
      <4>1. NoHistory.loading = FALSE /\ [NoHistory EXCEPT !.hidden = FALSE, !.loading = TRUE].loading = TRUE
        BY DEF NoHistory
      <4> QED
        BY <2>2, <4>1
    <3> QED
      BY <2>2, <3>1, ShutIsWell
  <2>6. n \in HistoryRead /\ n.mine /\ n.offset = 0
    BY <2>1 DEF HistoryRead
  <2>7. ReadsWell'
    BY <1>a, <2>2, <2>5, <2>6 DEF ReadsWell
  <2> QED
    BY <1>0, <2>3, <2>4, <2>7 DEF HistoryInv
<1>3. CASE hist' = NoHistory /\ histReads' = HistorySuperseded /\ UNCHANGED world
  <2>1. LibraryWell'
    BY <1>0, <1>3 DEF LibraryWell, world
  <2>2. ListWell' /\ PagesWell'
    BY <1>0, <1>3, <2>1, ShutKeeps
  <2>3. ReadsWell'
    BY <1>a, <1>3, ShutIsWell DEF ReadsWell
  <2> QED
    BY <1>0, <2>1, <2>2, <2>3 DEF HistoryInv
<1>4. CASE LoadOlderChats
  <2>1. PICK n : n = [offset |-> hist.next, mine |-> TRUE, kept |-> TRUE]
    OBVIOUS
  <2>2. /\ hist' = [hist EXCEPT !.loading = TRUE] /\ histReads' = histReads \cup {n}
        /\ UNCHANGED world /\ ~hist.loading /\ hist.next \in 1..(NoMore - 1)
    BY <1>4, <2>1 DEF LoadOlderChats, ReadsPage
  <2>3. /\ hist' \in [hidden : BOOLEAN, rows : Seq(Row), next : 0..NoMore, loading : BOOLEAN]
        /\ hist'.rows = hist.rows /\ hist'.next = hist.next /\ hist'.loading
    BY <1>0, <2>2 DEF ListWell
  <2>4. n \in HistoryRead /\ n.mine /\ n.offset = hist.next /\ hist.next # NoMore
    BY <2>1, <2>2, Bounds DEF HistoryRead
  <2>5. \A r \in histReads : ~r.mine
    BY <1>0, <2>2 DEF ReadsWell
  <2>6. ReadsWell'
    BY <1>0, <2>2, <2>3, <2>4, <2>5 DEF ReadsWell
  <2>7. ListWell' /\ PagesWell' /\ LibraryWell'
    BY <1>0, <2>2, <2>3 DEF ListWell, PagesWell, LibraryWell, Shown, Covered, world
  <2> QED
    BY <1>0, <2>6, <2>7 DEF HistoryInv
<1>5. ASSUME NEW r \in histReads, HistorySettles(r) PROVE HistoryInv'
  <2>1. histReads' = histReads \ {r} /\ UNCHANGED world
    BY <1>5 DEF HistorySettles
  <2>2. CASE ~r.mine /\ UNCHANGED hist
    <3>1. ReadsWell'
      BY <1>0, <2>1, <2>2 DEF ReadsWell
    <3>2. ListWell' /\ PagesWell' /\ LibraryWell'
      BY <1>0, <2>1, <2>2 DEF ListWell, PagesWell, LibraryWell, Shown, Covered, world
    <3> QED
      BY <1>0, <3>1, <3>2 DEF HistoryInv
  <2>3. CASE r.mine /\ IsNew(PageAt(r.offset)) /\ hist' = WithRows(r)
    BY <2>1, <2>3, PageKeeps
  <2>4. CASE r.mine /\ hist' = [hist EXCEPT !.loading = FALSE]
    <3>1. /\ hist' \in [hidden : BOOLEAN, rows : Seq(Row), next : 0..NoMore, loading : BOOLEAN]
          /\ hist'.rows = hist.rows /\ hist'.next = hist.next /\ hist'.loading = FALSE
      BY <1>0, <2>4 DEF ListWell
    <3>2. ReadsWell'
      BY <1>0, <2>1, <2>4, <3>1 DEF ReadsWell
    <3>3. ListWell' /\ PagesWell' /\ LibraryWell'
      BY <1>0, <2>1, <3>1 DEF ListWell, PagesWell, LibraryWell, Shown, Covered, world
    <3> QED
      BY <1>0, <3>2, <3>3 DEF HistoryInv
  <2> QED
    BY <1>5, <2>2, <2>3, <2>4 DEF HistorySettles, CurrentPage
<1>6. ASSUME NEW o \in opening, OpeningSettles(o) PROVE HistoryInv'
  BY <1>1, <1>3, <1>6 DEF OpeningSettles
<1>7. ASSUME NEW id \in 1..(Len(Sessions) + 1), SessionMoves(id), UNCHANGED list PROVE HistoryInv'
  BY <1>7, MoveKeeps
<1>8. CASE ToggleHistory /\ ~hist.hidden
  BY <1>3, <1>8 DEF ToggleHistory, world
<1> QED
  BY <1>1, <1>2, <1>4, <1>5, <1>6, <1>7, <1>8 DEF ChatsNext

LEMMA HistoryStep == HistoryInv /\ [AppNext]_appvars => HistoryInv'
<1> SUFFICES ASSUME HistoryInv, [AppNext]_appvars PROVE HistoryInv'
  OBVIOUS
<1>0. LibraryWell /\ ListWell /\ PagesWell /\ ReadsWell /\ scope \in Scope
  BY DEF HistoryInv
<1>1. ASSUME NEW s \in Scope, Retarget(s) PROVE HistoryInv'
  <2>1. /\ scope' \in Scope /\ hist' = NoHistory /\ histReads' = Retargeted(histReads)
        /\ library' = Sessions /\ moved' = {}
    BY <1>1 DEF Retarget
  <2>2. LibraryWell'
    <3>1. Sessions \in Seq(Nat) /\ DOMAIN Sessions = 1..Len(Sessions)
          /\ \A i \in DOMAIN Sessions : Sessions[i] = i
      BY ApplicationAssumption, LenProperties
    <3> QED
      BY <2>1, <3>1, FS_EmptySet DEF LibraryWell
  <2>3. ListWell' /\ PagesWell'
    BY <2>1, <2>2, ShutKeeps
  <2>4. ReadsWell'
    BY <1>0, <2>1, SupersededHistory, ShutIsWell DEF ReadsWell
  <2> QED
    BY <2>1, <2>2, <2>3, <2>4 DEF HistoryInv
<1>2. CASE UNCHANGED <<scope, list, world>>
  BY <1>0, <1>2 DEF HistoryInv, LibraryWell, ListWell, PagesWell, ReadsWell, Shown, Covered, list, world
<1>3. CASE ChatsNext /\ UNCHANGED scope
  BY <1>3, ListStep
<1> QED
  BY <1>1, <1>2, <1>3 DEF AppNext, appvars

LEMMA HistoryInitially == AppInit => HistoryInv
<1> SUFFICES ASSUME AppInit PROVE HistoryInv
  OBVIOUS
<1>1. scope \in Scope /\ hist = NoHistory /\ histReads = {} /\ library = Sessions /\ moved = {}
  BY DEF AppInit
<1>2. LibraryWell
  BY <1>1, SessionsAreWell
<1>3. /\ hist \in [hidden : BOOLEAN, rows : Seq(Row), next : 0..NoMore, loading : BOOLEAN]
      /\ hist.rows = << >> /\ hist.next = 0 /\ 0 # NoMore /\ ~hist.loading
  BY <1>1, ShutIsWell
<1>4. DOMAIN hist.rows = {} /\ Shown = {}
  BY <1>3 DEF Shown
<1>5. \A m \in DOMAIN library : m >= 1 /\ m \in Nat
  BY <1>2 DEF LibraryWell
<1>6. ListWell /\ PagesWell /\ ReadsWell
  BY <1>1, <1>3, <1>4, <1>5 DEF ListWell, PagesWell, ReadsWell
<1> QED
  BY <1>1, <1>2, <1>6 DEF HistoryInv

----------------------------------------------------------------------------
(* Its types, and what is said of it *)

Panes == [has : {"nothing", "chat", "opened", "failed"}, id : Nat, of : SUBSET Scope,
          busy : BOOLEAN, note : SUBSET Scope]
PanesTyped ==
  /\ lastPane \in 0..MaxPaneIds /\ DOMAIN panes \subseteq 1..lastPane
  /\ IsFiniteSet(DOMAIN panes) /\ Cardinality(DOMAIN panes) \in 1..MaxPanes
  /\ \A p \in DOMAIN panes : panes[p] \in Panes
  /\ \A o \in opening : /\ o \in [op : {"open", "note"}, pane : {o.pane}, id : Nat, of : Scope,
                                  mine : BOOLEAN]
                        /\ o.mine => o.pane \in DOMAIN panes

\* A pane is filled with another of the type.
LEMMA FillTyped ==
  ASSUME PanesTyped, NEW p \in DOMAIN panes, NEW pane \in Panes, Fill(p, pane), UNCHANGED lastPane,
         \A o \in opening' :
           o \in [op : {"open", "note"}, pane : {o.pane}, id : Nat, of : Scope, mine : BOOLEAN],
         \A o \in opening' : o.mine => o.pane \in DOMAIN panes
  PROVE  PanesTyped'
<1>1. DOMAIN panes' = DOMAIN panes /\ \A q \in DOMAIN panes : panes'[q] \in {pane, panes[q]}
  BY DEF Fill
<1>2. \A q \in DOMAIN panes' : panes'[q] \in Panes
  BY <1>1 DEF PanesTyped
<1> QED
  BY <1>1, <1>2 DEF PanesTyped

\* A pane is opened beside the others.
LEMMA BesideTyped ==
  ASSUME PanesTyped, NEW pane \in Panes, OpensPane,
         panes' = [p \in DOMAIN panes \cup {lastPane'} |->
                     IF p = lastPane' THEN pane ELSE panes[p]],
         \A o \in opening' :
           o \in [op : {"open", "note"}, pane : {o.pane}, id : Nat, of : Scope, mine : BOOLEAN],
         \A o \in opening' : o.mine => o.pane \in DOMAIN panes \cup {lastPane'}
  PROVE  PanesTyped'
<1>1. lastPane' = lastPane + 1 /\ lastPane < MaxPaneIds /\ Cardinality(DOMAIN panes) < MaxPanes
  BY DEF OpensPane
<1>2. MaxPaneIds \in Nat /\ MaxPanes \in Nat /\ lastPane \in Nat
  BY ApplicationAssumption DEF PanesTyped
<1>3. lastPane' \in 0..MaxPaneIds
  BY <1>1, <1>2
<1>4. DOMAIN panes' = DOMAIN panes \cup {lastPane'} /\ \A q \in DOMAIN panes' :
        panes'[q] = IF q = lastPane' THEN pane ELSE panes[q]
  OBVIOUS
<1>5. DOMAIN panes' \subseteq 1..lastPane'
  BY <1>1, <1>2, <1>4 DEF PanesTyped
<1>6. IsFiniteSet(DOMAIN panes') /\ Cardinality(DOMAIN panes') \in 1..MaxPanes
  <2>1. lastPane' \notin DOMAIN panes
    BY <1>1, <1>2 DEF PanesTyped
  <2>2. IsFiniteSet(DOMAIN panes) /\ Cardinality(DOMAIN panes) \in 1..MaxPanes
    BY DEF PanesTyped
  <2>3. IsFiniteSet(DOMAIN panes') /\ Cardinality(DOMAIN panes') = Cardinality(DOMAIN panes) + 1
    BY <1>4, <2>1, <2>2, FS_AddElement
  <2> QED
    BY <1>1, <1>2, <2>2, <2>3
<1>7. \A q \in DOMAIN panes' : panes'[q] \in Panes
  BY <1>4 DEF PanesTyped
<1> QED
  BY <1>3, <1>4, <1>5, <1>6, <1>7 DEF PanesTyped

\* A retired opening keeps its type, and is not wanted.
LEMMA RetiredTyped ==
  ASSUME PanesTyped, NEW o \in opening
  PROVE  /\ [o EXCEPT !.mine = FALSE] \in
              [op : {"open", "note"}, pane : {o.pane}, id : Nat, of : Scope, mine : BOOLEAN]
         /\ [o EXCEPT !.mine = FALSE].pane = o.pane /\ ~[o EXCEPT !.mine = FALSE].mine
BY DEF PanesTyped

LEMMA GenerationTyped ==
  ASSUME PanesTyped, NEW p, NewPaneGeneration(p)
  PROVE  /\ \A o \in opening' :
              o \in [op : {"open", "note"}, pane : {o.pane}, id : Nat, of : Scope, mine : BOOLEAN]
         /\ \A o \in opening' : o.mine => o.pane \in DOMAIN panes /\ o.pane # p
<1> SUFFICES ASSUME NEW q \in opening'
             PROVE  /\ q \in [op : {"open", "note"}, pane : {q.pane}, id : Nat, of : Scope, mine : BOOLEAN]
                    /\ q.mine => q.pane \in DOMAIN panes /\ q.pane # p
  OBVIOUS
<1>1. PICK o \in opening : q = IF o.pane = p THEN [o EXCEPT !.mine = FALSE] ELSE o
  BY DEF NewPaneGeneration
<1>2. CASE o.pane = p
  BY <1>1, <1>2, RetiredTyped
<1>3. CASE o.pane # p
  BY <1>1, <1>3 DEF PanesTyped
<1> QED
  BY <1>2, <1>3

\* One step of the panes, when the list's rows have their type.
LEMMA TypedChats ==
  ASSUME PanesTyped, ListWell, scope \in Scope, ChatsNext, UNCHANGED scope
  PROVE  PanesTyped'
<1>0. /\ lastPane \in 0..MaxPaneIds /\ DOMAIN panes \subseteq 1..lastPane
      /\ IsFiniteSet(DOMAIN panes) /\ Cardinality(DOMAIN panes) \in 1..MaxPanes
      /\ \A p \in DOMAIN panes : panes[p] \in Panes
      /\ \A o \in opening :
           o \in [op : {"open", "note"}, pane : {o.pane}, id : Nat, of : Scope, mine : BOOLEAN]
      /\ \A o \in opening : o.mine => o.pane \in DOMAIN panes
  BY DEF PanesTyped
<1>a. EmptyPane \in Panes /\ Opened \in Panes
  <2>1. EmptyPane \in Panes
    BY DEF EmptyPane, Panes
  <2> QED
    BY <2>1 DEF Opened, Panes
<1>1. CASE UNCHANGED chats
  BY <1>1 DEF PanesTyped, chats
<1>2. CASE OpenPane
  BY <1>0, <1>a, <1>2, BesideTyped DEF OpenPane
<1>3. ASSUME NEW p \in DOMAIN panes, ClosePane(p) PROVE PanesTyped'
  <2>1. DOMAIN panes' = DOMAIN panes \ {p} /\ \A q \in DOMAIN panes' : panes'[q] = panes[q]
    BY <1>3 DEF ClosePane
  <2>2. IsFiniteSet(DOMAIN panes') /\ Cardinality(DOMAIN panes') = Cardinality(DOMAIN panes) - 1
    BY <1>0, <1>3, <2>1, FS_RemoveElement
  <2>3. Cardinality(DOMAIN panes') \in 1..MaxPanes
    BY <1>0, <1>3, <2>2, ApplicationAssumption DEF ClosePane
  <2>4. lastPane' = lastPane /\ NewPaneGeneration(p)
    BY <1>3 DEF ClosePane
  <2> QED
    BY <1>0, <2>1, <2>2, <2>3, <2>4, GenerationTyped DEF PanesTyped
<1>4. ASSUME NEW p \in DOMAIN panes, NewConversation(p) PROVE PanesTyped'
  BY <1>a, <1>4, GenerationTyped, FillTyped DEF NewConversation
<1>5. ASSUME NEW p \in DOMAIN panes, SendIn(p) PROVE PanesTyped'
  <2>1. PICK pane : pane = [panes[p] EXCEPT !.has = IF @ = "nothing" THEN "chat" ELSE @,
                                            !.of = {scope}, !.busy = TRUE, !.note = {}]
    OBVIOUS
  <2>2. pane \in Panes
    BY <1>0, <2>1 DEF Panes
  <2>3. Fill(p, pane) /\ NewPaneGeneration(p) /\ UNCHANGED lastPane
    BY <1>5, <2>1 DEF SendIn
  <2> QED
    BY <2>2, <2>3, GenerationTyped, FillTyped
<1>6. ASSUME NEW p \in DOMAIN panes, ReplyEnds(p) PROVE PanesTyped'
  <2>1. PICK pane : pane = [panes[p] EXCEPT !.busy = FALSE]
    OBVIOUS
  <2>2. pane \in Panes
    BY <1>0, <2>1 DEF Panes
  <2>3. Fill(p, pane) /\ UNCHANGED <<lastPane, opening>>
    BY <1>6, <2>1 DEF ReplyEnds
  <2> QED
    BY <1>0, <2>2, <2>3, FillTyped
<1>7. ASSUME NEW p \in DOMAIN panes, InsertCanvasNote(p) PROVE PanesTyped'
  <2>1. PICK n : n = [op |-> "note", pane |-> p, id |-> 0, of |-> scope, mine |-> TRUE]
    OBVIOUS
  <2>2. opening' = opening \cup {n} /\ UNCHANGED <<panes, lastPane>>
    BY <1>7, <2>1 DEF InsertCanvasNote
  <2>3. n \in [op : {"open", "note"}, pane : {n.pane}, id : Nat, of : Scope, mine : BOOLEAN]
        /\ n.pane = p
    BY <2>1
  <2> QED
    BY <1>0, <2>2, <2>3 DEF PanesTyped
<1>8. ASSUME NEW o \in opening, NoteSettles(o) PROVE PanesTyped'
  <2>1. opening' = opening \ {o} /\ UNCHANGED lastPane
    BY <1>8 DEF NoteSettles
  <2>2. CASE UNCHANGED panes
    BY <1>0, <2>1, <2>2 DEF PanesTyped
  <2>3. CASE o.mine /\ Fill(o.pane, [panes[o.pane] EXCEPT !.note = @ \cup {o.of}])
    <3>1. PICK pane : pane = [panes[o.pane] EXCEPT !.note = @ \cup {o.of}]
      OBVIOUS
    <3>2. o.pane \in DOMAIN panes /\ o.of \in Scope
      BY <1>0, <2>3
    <3>3. pane \in Panes
      BY <1>0, <3>1, <3>2 DEF Panes
    <3> QED
      BY <1>0, <2>1, <2>3, <3>1, <3>2, <3>3, FillTyped
  <2> QED
    BY <1>8, <2>2, <2>3 DEF NoteSettles
<1>9. ASSUME NEW i \in DOMAIN hist.rows, OpenFromHistory(i) PROVE PanesTyped'
  <2>1. hist.rows[i].id \in Nat
    <3>1. hist.rows \in Seq(Row)
      BY DEF ListWell
    <3>2. hist.rows[i] \in Row
      BY <3>1, LenProperties, ElementOfSeq
    <3> QED
      BY <3>2 DEF Row
  <2>2. ASSUME NEW p, Opens(p, hist.rows[i].id)
        PROVE  /\ \A q \in opening' :
                    q \in [op : {"open", "note"}, pane : {q.pane}, id : Nat, of : Scope, mine : BOOLEAN]
               /\ \A q \in opening' : q.mine => q.pane \in DOMAIN panes \cup {p}
    <3>1. PICK n : n = [op |-> "open", pane |-> p, id |-> hist.rows[i].id, of |-> scope, mine |-> TRUE]
      OBVIOUS
    <3>2. n \in [op : {"open", "note"}, pane : {n.pane}, id : Nat, of : Scope, mine : BOOLEAN]
          /\ n.pane = p
      BY <2>1, <3>1
    <3>3. opening' = {IF o.pane = p THEN [o EXCEPT !.mine = FALSE] ELSE o : o \in opening} \cup {n}
      BY <2>2, <3>1 DEF Opens
    <3>4. ASSUME NEW q \in opening', q # n
          PROVE  /\ q \in [op : {"open", "note"}, pane : {q.pane}, id : Nat, of : Scope, mine : BOOLEAN]
                 /\ q.mine => q.pane \in DOMAIN panes
      <4>1. PICK o \in opening : q = IF o.pane = p THEN [o EXCEPT !.mine = FALSE] ELSE o
        BY <3>3, <3>4
      <4>2. CASE o.pane = p
        BY <4>1, <4>2, RetiredTyped
      <4>3. CASE o.pane # p
        BY <1>0, <4>1, <4>3
      <4> QED
        BY <4>2, <4>3
    <3> QED
      BY <3>2, <3>4
  <2>3. ASSUME NEW p \in DOMAIN panes, Fill(p, [Opened EXCEPT !.note = panes[p].note]),
               Opens(p, hist.rows[i].id), UNCHANGED lastPane
        PROVE  PanesTyped'
    <3>1. PICK pane : pane = [Opened EXCEPT !.note = panes[p].note]
      OBVIOUS
    <3>2. pane \in Panes
      BY <1>0, <1>a, <3>1 DEF Panes
    <3> QED
      BY <2>2, <2>3, <3>1, <3>2, FillTyped
  <2>4. CASE /\ OpensPane /\ Opens(lastPane', hist.rows[i].id)
             /\ panes' = [p \in DOMAIN panes \cup {lastPane'} |->
                            IF p = lastPane' THEN Opened ELSE panes[p]]
    BY <1>a, <2>2, <2>4, BesideTyped
  <2> QED
    BY <1>9, <2>3, <2>4 DEF OpenFromHistory
<1>10. ASSUME NEW o \in opening, OpeningSettles(o) PROVE PanesTyped'
  <2>1. opening' = opening \ {o} /\ UNCHANGED lastPane
    BY <1>10 DEF OpeningSettles
  <2>2. CASE ~o.mine
    BY <1>0, <1>10, <2>1, <2>2 DEF PanesTyped, OpeningSettles
  <2>3. CASE o.mine
    <3>1. PICK has \in {"opened", "failed"} :
            Fill(o.pane, [panes[o.pane] EXCEPT !.has = has, !.busy = FALSE,
                            !.id = IF has = "opened" THEN o.id ELSE 0,
                            !.of = IF has = "opened" THEN {o.of} ELSE {}])
      BY <1>10, <2>3 DEF OpeningSettles
    <3>2. PICK pane : pane = [panes[o.pane] EXCEPT !.has = has, !.busy = FALSE,
                                !.id = IF has = "opened" THEN o.id ELSE 0,
                                !.of = IF has = "opened" THEN {o.of} ELSE {}]
      OBVIOUS
    <3>3. o.pane \in DOMAIN panes /\ o.of \in Scope /\ o.id \in Nat
      BY <1>0, <2>3
    <3>4. panes[o.pane] \in Panes
      BY <1>0, <3>3
    <3>5. pane \in Panes
      BY <3>2, <3>3, <3>4 DEF Panes
    <3> QED
      BY <1>0, <2>1, <3>1, <3>2, <3>3, <3>5, FillTyped
  <2> QED
    BY <2>2, <2>3
<1> QED
  BY <1>1, <1>2, <1>3, <1>4, <1>5, <1>6, <1>7, <1>8, <1>9, <1>10 DEF ChatsNext

LEMMA TypedStep == PanesTyped /\ HistoryInv /\ [AppNext]_appvars => PanesTyped'
<1> SUFFICES ASSUME PanesTyped, HistoryInv, [AppNext]_appvars PROVE PanesTyped'
  OBVIOUS
<1>1. ASSUME NEW s \in Scope, Retarget(s) PROVE PanesTyped'
  <2>1. DOMAIN panes' = DOMAIN panes /\ (\A p \in DOMAIN panes : panes'[p] = EmptyPane)
        /\ lastPane' = lastPane
    BY <1>1 DEF Retarget
  <2>2. EmptyPane \in Panes
    BY DEF EmptyPane, Panes
  <2>3. ASSUME NEW q \in opening'
        PROVE  /\ q \in [op : {"open", "note"}, pane : {q.pane}, id : Nat, of : Scope, mine : BOOLEAN]
               /\ ~q.mine
    BY <1>1, RetiredTyped DEF Retarget
  <2> QED
    BY <2>1, <2>2, <2>3 DEF PanesTyped
<1>2. CASE UNCHANGED chats
  BY <1>2 DEF PanesTyped, chats
<1>3. CASE ChatsNext /\ UNCHANGED scope
  BY <1>3, TypedChats DEF HistoryInv
<1> QED
  BY <1>1, <1>2, <1>3 DEF AppNext, appvars

LEMMA TypedInitially == AppInit => PanesTyped
<1> SUFFICES ASSUME AppInit PROVE PanesTyped
  OBVIOUS
<1>1. lastPane = 1 /\ DOMAIN panes = {1} /\ panes[1] = EmptyPane /\ opening = {}
  BY DEF AppInit
<1>2. EmptyPane \in Panes
  BY DEF EmptyPane, Panes
<1>3. IsFiniteSet({1}) /\ Cardinality({1}) = 1
  BY FS_Singleton
<1>4. 1 \in 0..MaxPaneIds /\ 1 \in 1..MaxPanes
  BY ApplicationAssumption
<1> QED
  BY <1>1, <1>2, <1>3, <1>4 DEF PanesTyped

\* What the list's invariants say of it.
LEMMA HistoryInvSays == HistoryInv /\ PanesTyped /\ ControlsInv => HistoryIsFaithful
<1> SUFFICES ASSUME HistoryInv, PanesTyped, ControlsInv PROVE HistoryIsFaithful
  OBVIOUS
<1>0. LibraryWell /\ ListWell /\ PagesWell /\ ReadsWell /\ scope \in Scope
  BY DEF HistoryInv
<1>1. AppTypeOK
  <2>1. hist.hidden \in BOOLEAN /\ hist.next \in 0..NoMore /\ hist.loading \in BOOLEAN
        /\ hist.rows \in Seq([id : Nat, of : Scope])
    BY <1>0 DEF ListWell, Row
  <2> QED
    BY <1>0, <2>1 DEF AppTypeOK, PanesTyped, Panes, ControlsInv, Controls
<1>2. \A i, j \in DOMAIN hist.rows :
        hist.rows[i].of = scope /\ (hist.rows[i].id = hist.rows[j].id => i = j)
  BY <1>0 DEF ListWell
<1>3. ASSUME NEW m \in DOMAIN library
      PROVE  \/ library[m] \in Shown \cup moved
             \/ hist.next # NoMore /\ \A n \in m..Len(library) : library[n] \notin Shown \ moved
  <2>1. DOMAIN library = 1..Len(library) /\ Len(library) \in Nat
    BY <1>0, LenProperties DEF LibraryWell
  <2>2. CASE ~Covered(m)
    <3>1. hist.next # NoMore
      BY <1>0, <2>2 DEF PagesWell
    <3>2. \A n \in m..Len(library) : n \in DOMAIN library /\ m <= n
      BY <2>1
    <3> QED
      BY <1>0, <2>2, <3>1, <3>2 DEF PagesWell
  <2> QED
    BY <2>2 DEF Covered
<1>4. hist.loading <=> \E r \in histReads : r.mine
  BY <1>0 DEF ReadsWell, ListWell
<1> QED
  BY <1>1, <1>2, <1>3, <1>4 DEF HistoryIsFaithful, Shown

\* The list of previous chats is of the selected workspace, has each chat once
\* and none left out between two shown, says when there is no older one, save
\* for those that moved while it was shown, and locks its button exactly while
\* a page is read, however pages, moves and changes of workspace interleave
\* (personal-chat-ui.ts 217-305).
THEOREM HistoryStaysFaithful == AppSpec => []HistoryIsFaithful
<1> DEFINE Inv == HistoryInv /\ PanesTyped /\ PanelsInv
<1>1. AppInit => Inv
  BY HistoryInitially, TypedInitially, PanelsInitially
<1>2. Inv /\ [AppNext]_appvars => Inv'
  BY HistoryStep, TypedStep, DiagImplements, ActivityImplements, ModelImplements, ControlsImplement
  DEF PanelsInv
<1>3. Inv => HistoryIsFaithful
  BY HistoryInvSays DEF PanelsInv
<1> QED
  BY <1>1, <1>2, <1>3, PTL DEF AppSpec

----------------------------------------------------------------------------
(* The text of a run                                                       *)
(*                                                                         *)
(* The argument is one about counting.  A subscription shows text from the *)
(* marker of the last resume it was told of, so the number of markers it   *)
(* requires, which it takes from its own answers, has to be the number in  *)
(* the log, but for the resume whose answer is still on its way            *)
(* (MarkersCounted).                                                       *)

\* The part of ProjectionExact that is about text.
TextShown ==
  sub # NoSub => Increasing(output) /\ {output[a] : a \in DOMAIN output} = Projected

\* A running view has a subscription, one that waits for an answer has none.
StreamPhases ==
  /\ sub \in [next : Nat, markers : Nat, awaiting : BOOLEAN]
  /\ call \in [op : {"none", "pause", "resume", "readback", "check", "reconnect"},
               ans : {"none", "running", "paused", "ended", "refused", "lost"}]
  /\ Len(log) <= MaxLog
  /\ phase = "running" <=> sub # NoSub
  /\ phase = "submitting" <=> call.op \in {"pause", "resume", "readback", "reconnect"}
  /\ call.ans = "refused" => call.op \in {"pause", "resume"}

\* The markers a subscription has read, and whether they are enough.
StreamCounts ==
  sub # NoSub =>
    /\ sub.markers = MarkersBefore(sub.next)
    /\ sub.awaiting <=> sub.markers < required

\* The owner has resumed the run and the controller has still to hear of it.
Acked == call = [op |-> "resume", ans |-> "running"]
OnItsWay == IF Acked THEN 1 ELSE 0

\* The markers required are no more than there are, and, but for the resumes
\* the controller was not told of, no less.
MarkersCounted ==
  /\ attempt <= Markers
  /\ required # Unknown => required + OnItsWay <= Markers
  /\ ~uncounted /\ required # Unknown => Markers = required + OnItsWay

StreamInv == StreamTypeOK /\ TextShown /\ StreamPhases /\ StreamCounts /\ MarkersCounted

----------------------------------------------------------------------------
(* Markers of a log *)

Events == {"delta", "resumed"}
Ahead(l, i) == Cardinality({j \in DOMAIN l : j < i /\ l[j] = "resumed"})

LEMMA AheadFinite ==
  ASSUME NEW l \in Seq(Events), NEW i \in Nat
  PROVE  /\ IsFiniteSet({j \in DOMAIN l : j < i /\ l[j] = "resumed"})
         /\ Ahead(l, i) \in Nat /\ Ahead(l, i) <= Len(l)
<1>1. Len(l) \in Nat /\ DOMAIN l = 1..Len(l)
  BY LenProperties
<1>2. IsFiniteSet(1..Len(l)) /\ Cardinality(1..Len(l)) = Len(l)
  BY <1>1, FS_Interval
<1>3. {j \in DOMAIN l : j < i /\ l[j] = "resumed"} \subseteq 1..Len(l)
  BY <1>1
<1> QED
  BY <1>1, <1>2, <1>3, FS_Subset, FS_CardinalityType DEF Ahead

LEMMA AheadMonotone ==
  ASSUME NEW l \in Seq(Events), NEW i \in Nat, NEW k \in Nat, i <= k
  PROVE  Ahead(l, i) <= Ahead(l, k)
<1>1. IsFiniteSet({j \in DOMAIN l : j < k /\ l[j] = "resumed"})
  BY AheadFinite
<1>2. DOMAIN l \subseteq Nat
  BY LenProperties
<1>3. {j \in DOMAIN l : j < i /\ l[j] = "resumed"}
        \subseteq {j \in DOMAIN l : j < k /\ l[j] = "resumed"}
  BY <1>2
<1> QED
  BY <1>1, <1>3, FS_Subset DEF Ahead

LEMMA AheadNext ==
  ASSUME NEW l \in Seq(Events), NEW i \in 1..Len(l)
  PROVE  Ahead(l, i + 1) = Ahead(l, i) + (IF l[i] = "resumed" THEN 1 ELSE 0)
<1> DEFINE S == {j \in DOMAIN l : j < i /\ l[j] = "resumed"}
<1>1. i \in Nat /\ DOMAIN l \subseteq Nat /\ i \in DOMAIN l
  BY LenProperties
<1>2. IsFiniteSet(S) /\ Cardinality(S) \in Nat /\ i \notin S
  BY <1>1, AheadFinite DEF Ahead
<1>3. CASE l[i] = "resumed"
  <2>1. {j \in DOMAIN l : j < i + 1 /\ l[j] = "resumed"} = S \cup {i}
    BY <1>1, <1>3
  <2>2. Cardinality(S \cup {i}) = Cardinality(S) + 1
    BY <1>2, FS_AddElement
  <2>3. Ahead(l, i + 1) = Cardinality(S) + 1 /\ Ahead(l, i) = Cardinality(S)
    BY <2>1, <2>2 DEF Ahead
  <2> QED
    BY <1>3, <2>3
<1>4. CASE l[i] # "resumed"
  <2>1. {j \in DOMAIN l : j < i + 1 /\ l[j] = "resumed"} = S
    BY <1>1, <1>4
  <2>2. Ahead(l, i + 1) = Cardinality(S) /\ Ahead(l, i) = Cardinality(S)
    BY <2>1 DEF Ahead
  <2> QED
    BY <1>2, <1>4, <2>2
<1> QED
  BY <1>3, <1>4

LEMMA AheadAppend ==
  ASSUME NEW l \in Seq(Events), NEW e \in Events, NEW i \in 0..(Len(l) + 1)
  PROVE  Ahead(Append(l, e), i) = Ahead(l, i)
<1>1. /\ Len(l) \in Nat /\ DOMAIN l = 1..Len(l) /\ DOMAIN Append(l, e) = 1..(Len(l) + 1)
      /\ \A j \in 1..Len(l) : Append(l, e)[j] = l[j]
  BY AppendProperties, LenProperties
<1>2. {j \in DOMAIN Append(l, e) : j < i /\ Append(l, e)[j] = "resumed"}
        = {j \in DOMAIN l : j < i /\ l[j] = "resumed"}
  BY <1>1
<1> QED
  BY <1>2 DEF Ahead

----------------------------------------------------------------------------
(* The log only grows *)

Grows ==
  \/ log' = log
  \/ Len(log) < MaxLog /\ \E e \in Events : log' = Append(log, e)

LEMMA GrowsKeeps ==
  ASSUME log \in Seq(Events), Len(log) <= MaxLog, Grows
  PROVE  /\ log' \in Seq(Events) /\ Len(log) \in Nat /\ Len(log') \in Nat
         /\ Len(log) <= Len(log') /\ Len(log') <= MaxLog
         /\ DOMAIN log = 1..Len(log) /\ DOMAIN log' = 1..Len(log')
         /\ \A i \in 1..Len(log) : log'[i] = log[i]
         /\ \A i \in 0..(Len(log) + 1) : MarkersBefore(i)' = MarkersBefore(i)
         /\ \A i \in Nat : MarkersBefore(i) \in Nat /\ MarkersBefore(i)' \in Nat
         /\ Markers <= Markers' /\ Markers \in Nat /\ Markers' \in Nat
<1>0. MaxLog \in Nat
  BY StreamAssumption
<1>1. Len(log) \in Nat /\ DOMAIN log = 1..Len(log)
  BY LenProperties
<1>2. /\ log' \in Seq(Events) /\ Len(log') \in Nat /\ Len(log) <= Len(log') /\ Len(log') <= MaxLog
      /\ DOMAIN log' = 1..Len(log') /\ \A i \in 1..Len(log) : log'[i] = log[i]
  <2>1. CASE log' = log
    BY <2>1, <1>1
  <2>2. CASE Len(log) < MaxLog /\ \E e \in Events : log' = Append(log, e)
    <3> PICK e \in Events : log' = Append(log, e)
      BY <2>2
    <3> QED
      BY <1>0, <1>1, <2>2, AppendProperties
  <2> QED
    BY <2>1, <2>2 DEF Grows
<1>3. \A i : MarkersBefore(i) = Ahead(log, i) /\ MarkersBefore(i)' = Ahead(log', i)
  BY DEF MarkersBefore, Ahead
<1>4. \A i \in 0..(Len(log) + 1) : MarkersBefore(i)' = MarkersBefore(i)
  BY <1>3, AheadAppend DEF Grows
<1>5. \A i \in Nat : MarkersBefore(i) \in Nat /\ MarkersBefore(i)' \in Nat
  BY <1>2, <1>3, AheadFinite
<1>6. Ahead(log', Len(log) + 1) <= Ahead(log', Len(log') + 1)
  BY <1>1, <1>2, AheadMonotone
<1>7. /\ Markers = Ahead(log, Len(log) + 1) /\ Markers' = Ahead(log', Len(log') + 1)
      /\ Ahead(log', Len(log) + 1) = Ahead(log, Len(log) + 1)
  BY <1>1, <1>3, <1>4 DEF Markers
<1>8. Len(log) + 1 \in Nat /\ Len(log') + 1 \in Nat
  BY <1>1, <1>2
<1>9. Markers \in Nat /\ Markers' \in Nat
  BY <1>2, <1>7, <1>8, AheadFinite
<1>10. Markers <= Markers'
  BY <1>6, <1>7
<1> QED
  BY <1>1, <1>2, <1>4, <1>5, <1>9, <1>10

LEMMA DeltasGrow ==
  ASSUME log \in Seq(Events), Len(log) <= MaxLog, Grows
  PROVE  /\ Deltas \subseteq Deltas' /\ Deltas \subseteq 1..Len(log)
         /\ \A i \in 1..Len(log) : i \in Deltas' <=> i \in Deltas
<1>1. /\ Len(log) \in Nat /\ Len(log') \in Nat /\ Len(log) <= Len(log')
      /\ DOMAIN log = 1..Len(log) /\ DOMAIN log' = 1..Len(log')
      /\ \A i \in 1..Len(log) : log'[i] = log[i]
  BY GrowsKeeps
<1>2. \A i \in 1..Len(log) : i \in DOMAIN log' /\ i \in DOMAIN log
  BY <1>1
<1>3. Deltas = {i \in 1..Len(log) : log[i] = "delta"}
  BY <1>1 DEF Deltas
<1>4. Deltas' = {i \in DOMAIN log' : log'[i] = "delta"}
  BY DEF Deltas
<1> QED
  BY <1>1, <1>2, <1>3, <1>4

----------------------------------------------------------------------------
(* What a step does to the text *)

TextInv ==
  /\ output \in Seq(Deltas) /\ required \in 0..Unknown
  /\ sub \in [next : Nat, markers : Nat, awaiting : BOOLEAN]
  /\ sub # NoSub => sub.next \in 1..(Len(log) + 1) /\ sub.markers <= Markers
  /\ TextShown /\ StreamCounts

LEMMA StreamTypes ==
  ASSUME StreamInv
  PROVE  /\ log \in Seq(Events) /\ Len(log) <= MaxLog /\ Len(log) \in Nat /\ DOMAIN log = 1..Len(log)
         /\ MaxLog \in Nat /\ Unknown \in Nat /\ 0..Unknown \subseteq Nat
         /\ Markers \in Nat /\ Markers <= Len(log) /\ TextInv
<1>1. log \in Seq(Events)
  BY DEF StreamInv, StreamTypeOK, Events
<1>2. Len(log) \in Nat /\ DOMAIN log = 1..Len(log) /\ Markers = Ahead(log, Len(log) + 1)
  BY <1>1, LenProperties DEF Markers, MarkersBefore, Ahead
<1>3. Markers \in Nat /\ Markers <= Len(log)
  <2>1. Len(log) + 1 \in Nat
    BY <1>2
  <2> QED
    BY <1>1, <1>2, <2>1, AheadFinite
<1>4. TextInv
  BY DEF StreamInv, StreamTypeOK, StreamPhases, TextInv
<1> QED
  BY <1>1, <1>2, <1>3, <1>4, StreamAssumption DEF StreamInv, StreamPhases, Unknown

LEMMA TextKept ==
  ASSUME StreamInv, Grows, UNCHANGED <<output, required, sub>>
  PROVE  TextInv'
<1>1. log \in Seq(Events) /\ Len(log) <= MaxLog /\ Len(log) \in Nat /\ TextInv /\ 0..Unknown \subseteq Nat
  BY StreamTypes
<1>2. /\ Len(log') \in Nat /\ Len(log) <= Len(log')
      /\ \A i \in 0..(Len(log) + 1) : MarkersBefore(i)' = MarkersBefore(i)
      /\ Markers <= Markers' /\ Markers \in Nat /\ Markers' \in Nat
  BY <1>1, GrowsKeeps
<1>3. /\ Deltas \subseteq Deltas' /\ Deltas \subseteq 1..Len(log)
      /\ \A i \in 1..Len(log) : i \in Deltas' <=> i \in Deltas
  BY <1>1, DeltasGrow
<1>4. output' \in Seq(Deltas')
  BY <1>1, <1>3, SeqMonotonic DEF TextInv
<1>5. CASE sub = NoSub
  BY <1>1, <1>4, <1>5 DEF TextInv, TextShown, StreamCounts, NoSub, Unknown
<1>6. CASE sub # NoSub
  <2>1. sub.next \in 1..(Len(log) + 1) /\ sub.markers \in Nat
    BY <1>1, <1>6 DEF TextInv
  <2>2. \A i \in Deltas' : i < sub.next => i \in 1..Len(log)
    <3>1. Deltas' \subseteq 1..Len(log')
      BY <1>1, GrowsKeeps DEF Deltas
    <3> QED
      BY <1>1, <1>2, <2>1, <3>1
  <2>3. Projected' = Projected
    <3>1. Projected = {i \in Deltas : i < sub.next /\ MarkersBefore(i) >= required}
      BY DEF Projected
    <3>2. Projected' = {i \in Deltas' : i < sub.next /\ MarkersBefore(i)' >= required}
      BY DEF Projected
    <3>3. \A i \in 1..Len(log) : MarkersBefore(i)' = MarkersBefore(i)
      BY <1>1, <1>2
    <3>4. \A i \in Projected' : i \in Projected
      BY <1>3, <2>2, <3>1, <3>2, <3>3
    <3>5. \A i \in Projected : i \in Projected'
      BY <1>3, <3>1, <3>2, <3>3
    <3> QED
      BY <3>4, <3>5
  <2>4. TextShown'
    BY <1>1, <1>6, <2>3 DEF TextInv, TextShown, Increasing, NoSub
  <2>5. StreamCounts'
    BY <1>1, <1>2, <1>6, <2>1 DEF TextInv, StreamCounts, NoSub
  <2>6. sub.next \in 1..(Len(log') + 1) /\ sub.markers <= Markers'
    BY <1>1, <1>2, <1>6, <2>1 DEF TextInv
  <2> QED
    BY <1>1, <1>4, <1>6, <2>4, <2>5, <2>6 DEF TextInv, Unknown
<1> QED
  BY <1>5, <1>6

LEMMA TextDropped ==
  ASSUME StreamInv, Grows, sub' = NoSub, output' = output \/ output' = << >>,
         required' \in 0..Unknown
  PROVE  TextInv'
<1>1. log \in Seq(Events) /\ Len(log) <= MaxLog /\ TextInv
  BY StreamTypes
<1>2. Deltas \subseteq Deltas'
  BY <1>1, DeltasGrow
<1>3. output' \in Seq(Deltas')
  BY <1>1, <1>2, SeqMonotonic, EmptySeq DEF TextInv
<1> QED
  BY <1>1, <1>3 DEF TextInv, TextShown, StreamCounts, NoSub, Unknown

LEMMA TextAnew ==
  ASSUME StreamInv, Grows, output' = << >>, required' \in 0..Unknown, Subscribe(required')
  PROVE  TextInv'
<1>1. log \in Seq(Events) /\ Len(log) <= MaxLog /\ Len(log) \in Nat /\ 0..Unknown \subseteq Nat
  BY StreamTypes
<1>2. log' \in Seq(Events) /\ Len(log') \in Nat /\ DOMAIN log' = 1..Len(log') /\ Markers' \in Nat
  BY <1>1, GrowsKeeps
<1>3. sub' = [next |-> 1, markers |-> 0, awaiting |-> required' > 0]
  BY DEF Subscribe
<1>4. MarkersBefore(1)' = 0
  <2>1. {j \in DOMAIN log' : j < 1 /\ log'[j] = "resumed"} = {}
    BY <1>2
  <2>2. MarkersBefore(1)' = Cardinality({j \in DOMAIN log' : j < 1 /\ log'[j] = "resumed"})
    BY DEF MarkersBefore
  <2> QED
    BY <2>1, <2>2, FS_EmptySet
<1>5. Projected' = {}
  BY <1>2, <1>3 DEF Projected, Deltas
<1>6. output' \in Seq(Deltas') /\ DOMAIN output' = {}
  BY EmptySeq
<1>7. TextShown'
  BY <1>5, <1>6 DEF TextShown, Increasing
<1>8. StreamCounts'
  BY <1>1, <1>3, <1>4 DEF StreamCounts
<1> QED
  BY <1>1, <1>2, <1>3, <1>6, <1>7, <1>8 DEF TextInv, Unknown

LEMMA TextHeard ==
  ASSUME StreamInv, StreamHears
  PROVE  TextInv' /\ sub' # NoSub
<1> DEFINE i == sub.next
<1>1. /\ log \in Seq(Events) /\ Len(log) \in Nat /\ Len(log) <= MaxLog /\ DOMAIN log = 1..Len(log)
      /\ TextInv /\ 0..Unknown \subseteq Nat /\ Markers \in Nat
  BY StreamTypes
<1>2. i \in 1..Len(log) /\ i \in Nat /\ sub # NoSub /\ sub.markers \in Nat /\ sub.awaiting \in BOOLEAN
      /\ required \in Nat
  BY <1>1 DEF TextInv, StreamHears
<1>3. log' = log /\ required' = required
  BY DEF StreamHears, owner
<1>4. /\ MarkersBefore(i + 1) = MarkersBefore(i) + (IF log[i] = "resumed" THEN 1 ELSE 0)
      /\ MarkersBefore(i) \in Nat /\ MarkersBefore(i + 1) \in Nat
      /\ MarkersBefore(i + 1) <= Markers
  <2>1. Ahead(log, i + 1) = Ahead(log, i) + (IF log[i] = "resumed" THEN 1 ELSE 0)
    BY <1>1, <1>2, AheadNext
  <2>2. Ahead(log, i) \in Nat /\ Ahead(log, i + 1) \in Nat
    <3>1. i + 1 \in Nat
      BY <1>2
    <3> QED
      BY <1>1, <1>2, <3>1, AheadFinite
  <2>3. Ahead(log, i + 1) <= Ahead(log, Len(log) + 1)
    BY <1>1, <1>2, AheadMonotone
  <2> QED
    BY <2>1, <2>2, <2>3 DEF MarkersBefore, Markers, Ahead
<1>5. sub.markers = MarkersBefore(i) /\ (sub.awaiting <=> sub.markers < required)
  BY <1>1, <1>2 DEF TextInv, StreamCounts
<1>6. \A k : MarkersBefore(k)' = MarkersBefore(k)
  BY <1>3 DEF MarkersBefore
<1>7. Deltas' = Deltas /\ Markers' = Markers /\ \A k \in Deltas : k \in Nat
  BY <1>1, <1>3 DEF Deltas, Markers, MarkersBefore
<1>8. Increasing(output) /\ {output[a] : a \in DOMAIN output} = Projected
  BY <1>1, <1>2 DEF TextInv, TextShown
<1>9. output \in Seq(Deltas)
  BY <1>1 DEF TextInv
<1>10. CASE log[i] = "resumed"
  <2>1. /\ sub' = [next |-> i + 1, markers |-> sub.markers + 1,
                   awaiting |-> sub.awaiting /\ ~Enough(sub.markers + 1)]
        /\ output' = output
    BY <1>10 DEF StreamHears
  <2>2. sub' # NoSub /\ sub'.next = i + 1 /\ sub'.markers = sub.markers + 1
    BY <1>2, <2>1 DEF NoSub
  <2>3. i \notin Deltas
    BY <1>10 DEF Deltas
  <2>4. Projected' = Projected
    BY <1>2, <1>3, <1>6, <1>7, <2>2, <2>3 DEF Projected
  <2>5. TextShown'
    BY <1>8, <2>1, <2>4 DEF TextShown, Increasing
  <2>6. MarkersBefore(sub.next)' = MarkersBefore(i + 1)
    BY <1>3, <2>2 DEF MarkersBefore
  <2>7. (sub'.awaiting <=> sub'.markers < required') /\ sub'.markers = sub.markers + 1
    <3>1. sub'.awaiting <=> sub.awaiting /\ ~(sub.markers + 1 >= required)
      BY <2>1 DEF Enough
    <3>2. sub.markers < required /\ ~(sub.markers + 1 >= required) <=> sub.markers + 1 < required
      BY <1>2
    <3> QED
      BY <1>3, <1>5, <2>2, <3>1, <3>2, Zenon
  <2>8. StreamCounts'
    BY <1>4, <1>5, <1>10, <2>6, <2>7 DEF StreamCounts
  <2>9. sub' \in [next : Nat, markers : Nat, awaiting : BOOLEAN]
    BY <1>2, <2>1
  <2>10. sub'.next \in 1..(Len(log') + 1) /\ sub'.markers <= Markers'
    BY <1>1, <1>2, <1>3, <1>4, <1>5, <1>7, <1>10, <2>2
  <2> QED
    BY <1>1, <1>3, <1>7, <1>9, <2>1, <2>2, <2>5, <2>8, <2>9, <2>10 DEF TextInv, Unknown
<1>11. CASE log[i] # "resumed"
  <2>1. sub' = [sub EXCEPT !.next = @ + 1] /\ log[i] = "delta"
    BY <1>1, <1>2, <1>11, ElementOfSeq DEF StreamHears, Events
  <2>2. /\ sub' # NoSub /\ sub'.next = i + 1 /\ sub'.markers = sub.markers /\ sub'.awaiting = sub.awaiting
        /\ sub' \in [next : Nat, markers : Nat, awaiting : BOOLEAN]
    BY <1>1, <1>2, <2>1 DEF NoSub, TextInv
  <2>3. i \in Deltas
    BY <1>1, <1>2, <2>1 DEF Deltas
  <2>8. MarkersBefore(sub.next)' = MarkersBefore(i + 1)
    BY <1>3, <2>2 DEF MarkersBefore
  <2>4. StreamCounts'
    BY <1>3, <1>4, <1>5, <1>11, <2>2, <2>8 DEF StreamCounts
  <2>5. sub'.next \in 1..(Len(log') + 1) /\ sub'.markers <= Markers'
    BY <1>1, <1>2, <1>3, <1>4, <1>5, <1>7, <1>11, <2>2
  <2>6. CASE sub.awaiting
    <3>1. output' = output
      BY <1>11, <2>6 DEF StreamHears
    <3>2. Projected' = Projected
      BY <1>2, <1>3, <1>4, <1>5, <1>6, <1>7, <2>2, <2>6 DEF Projected
    <3>3. TextShown'
      BY <1>8, <3>1, <3>2 DEF TextShown, Increasing
    <3> QED
      BY <1>1, <1>3, <1>7, <1>9, <2>2, <2>4, <2>5, <3>1, <3>3 DEF TextInv, Unknown
  <2>7. CASE ~sub.awaiting
    <3>1. output' = Append(output, i)
      BY <1>11, <2>7 DEF StreamHears
    <3>2. PICK n \in Nat : n = Len(output)
      BY <1>9, LenProperties
    <3>3. /\ DOMAIN output = 1..n /\ DOMAIN output' = 1..(n + 1)
          /\ \A a \in 1..n : output'[a] = output[a]
          /\ output'[n + 1] = i /\ output' \in Seq(Deltas)
      BY <1>9, <2>3, <3>1, <3>2, AppendProperties, LenProperties
    <3>4. Projected' = Projected \cup {i}
      BY <1>2, <1>3, <1>4, <1>5, <1>6, <1>7, <2>2, <2>3, <2>7 DEF Projected
    <3>5. {output'[a] : a \in DOMAIN output'} = {output[a] : a \in DOMAIN output} \cup {i}
      BY <3>3
    <3>6. \A a \in DOMAIN output : output[a] \in Nat /\ output[a] < i
      BY <1>7, <1>8 DEF Projected
    <3>7. Increasing(output')
      BY <1>2, <1>8, <3>2, <3>3, <3>6 DEF Increasing
    <3>8. TextShown'
      BY <1>8, <3>4, <3>5, <3>7 DEF TextShown, Increasing
    <3> QED
      BY <1>1, <1>3, <1>7, <2>2, <2>4, <2>5, <3>3, <3>8 DEF TextInv, Unknown
  <2> QED
    BY <2>6, <2>7
<1> QED
  BY <1>10, <1>11

----------------------------------------------------------------------------
(* The steps *)

RestTyped ==
  /\ log \in Seq(Events) /\ status \in {"running", "paused", "ended"}
  /\ attempt \in Nat /\ uncounted \in BOOLEAN
  /\ phase \in {"running", "paused", "submitting", "interrupted", "completed"}

\* A step that leaves the owner alone keeps the markers.
LEMMA SameMarkers ==
  ASSUME StreamInv, UNCHANGED log
  PROVE  Markers' = Markers /\ Grows
BY DEF Markers, MarkersBefore, Grows

LEMMA OwnerWritesStep ==
  ASSUME StreamInv, OwnerWrites \/ OwnerEnds, UNCHANGED uncounted
  PROVE  TextInv' /\ RestTyped' /\ StreamPhases' /\ MarkersCounted'
<1>1. /\ log \in Seq(Events) /\ Len(log) \in Nat /\ Len(log) <= MaxLog
  BY StreamTypes
<1>2. Grows /\ UNCHANGED <<attempt, phase, output, required, sub, call, uncounted>>
      /\ status' \in {"running", "paused", "ended"}
  BY DEF OwnerWrites, OwnerEnds, Grows, Events, controller, StreamInv, StreamTypeOK
<1>3. log' \in Seq(Events) /\ Len(log') <= MaxLog
  BY <1>1, <1>2, GrowsKeeps
<1>4. Markers' = Markers
  <2>1. CASE OwnerEnds
    BY <2>1, SameMarkers DEF OwnerEnds
  <2>2. CASE OwnerWrites
    <3>1. log' = Append(log, "delta") /\ Len(log') = Len(log) + 1 /\ log'[Len(log) + 1] = "delta"
      BY <1>1, <2>2, AppendProperties DEF OwnerWrites, Events
    <3>2. Len(log) + 1 \in 1..Len(log')
      BY <1>1, <3>1
    <3>3. Ahead(log', Len(log') + 1) = Ahead(log', Len(log) + 1) + 0
      BY <1>3, <3>1, <3>2, AheadNext
    <3>4. Ahead(log', Len(log) + 1) = Ahead(log, Len(log) + 1)
      BY <1>1, <3>1, AheadAppend DEF Events
    <3>5. Len(log) + 1 \in Nat
      BY <1>1
    <3>6. Ahead(log, Len(log) + 1) \in Nat
      BY <1>1, <3>5, AheadFinite
    <3> QED
      BY <3>3, <3>4, <3>6 DEF Markers, MarkersBefore, Ahead
  <2> QED
    BY <2>1, <2>2
<1>5. TextInv'
  BY <1>2, TextKept
<1>6. RestTyped'
  BY <1>2, <1>3 DEF RestTyped, StreamInv, StreamTypeOK
<1>7. StreamPhases'
  BY <1>2, <1>3 DEF StreamInv, StreamPhases, NoSub
<1>8. MarkersCounted'
  BY <1>2, <1>4 DEF StreamInv, MarkersCounted, OnItsWay, Acked, Unknown
<1> QED
  BY <1>5, <1>6, <1>7, <1>8

\* Someone resumes the run: a marker more.
LEMMA ResumesStep ==
  ASSUME StreamInv, Resumes
  PROVE  /\ Grows /\ log' \in Seq(Events) /\ log' # log
         /\ Len(log') <= MaxLog /\ Markers' = Markers + 1
<1>1. /\ log \in Seq(Events) /\ Len(log) \in Nat /\ Len(log) <= MaxLog
      /\ Markers \in Nat /\ MaxLog \in Nat
  BY StreamTypes
<1>2. log' = Append(log, "resumed") /\ Len(log) < MaxLog
  BY DEF Resumes
<1>3. Grows
  BY <1>2 DEF Grows, Events
<1>4. Len(log') = Len(log) + 1 /\ log'[Len(log) + 1] = "resumed" /\ log' \in Seq(Events)
  BY <1>1, <1>2, AppendProperties DEF Events
<1>5. Len(log) + 1 \in 1..Len(log') /\ log' # log /\ Len(log') <= MaxLog
  BY <1>1, <1>2, <1>4
<1>6. Ahead(log', Len(log') + 1) = Ahead(log', Len(log) + 1) + 1
  BY <1>4, <1>5, AheadNext
<1>7. Ahead(log', Len(log) + 1) = Ahead(log, Len(log) + 1)
  BY <1>1, <1>2, AheadAppend DEF Events
<1>8. Markers' = Markers + 1
  BY <1>6, <1>7 DEF Markers, MarkersBefore, Ahead
<1> QED
  BY <1>3, <1>4, <1>5, <1>8

LEMMA OtherControlsStep ==
  ASSUME StreamInv, OtherControls
  PROVE  TextInv' /\ RestTyped' /\ StreamPhases' /\ MarkersCounted'
<1>1. /\ log \in Seq(Events) /\ Len(log) \in Nat /\ Len(log) <= MaxLog
      /\ Markers \in Nat /\ required \in Nat /\ OnItsWay \in Nat /\ attempt \in Nat
  BY StreamTypes DEF TextInv, OnItsWay, StreamInv, StreamTypeOK
<1>2. /\ UNCHANGED <<attempt, phase, output, required, sub, call>>
      /\ uncounted' = (uncounted \/ log' # log) /\ status' \in {"running", "paused", "ended"}
  BY DEF OtherControls, controller, Pauses, Resumes
<1>3. OnItsWay' = OnItsWay
  BY <1>2 DEF OnItsWay, Acked
<1>4. CASE Pauses
  <2>1. log' = log /\ Markers' = Markers /\ Grows
    BY <1>4, SameMarkers DEF Pauses
  <2>2. uncounted' = uncounted
    BY <1>2, <2>1 DEF StreamInv, StreamTypeOK
  <2>3. TextInv'
    BY <1>2, <2>1, TextKept
  <2>4. RestTyped' /\ StreamPhases'
    BY <1>1, <1>2, <2>1, <2>2 DEF RestTyped, StreamInv, StreamTypeOK, StreamPhases, NoSub
  <2>5. MarkersCounted'
    BY <1>2, <1>3, <2>1, <2>2 DEF MarkersCounted, StreamInv, Unknown
  <2> QED
    BY <2>3, <2>4, <2>5
<1>5. CASE Resumes
  <2>1. /\ Grows /\ log' \in Seq(Events) /\ log' # log
        /\ Len(log') <= MaxLog /\ Markers' = Markers + 1
    BY <1>5, ResumesStep
  <2>2. uncounted' = TRUE
    BY <1>2, <2>1
  <2>3. TextInv'
    BY <1>2, <2>1, TextKept
  <2>4. RestTyped' /\ StreamPhases'
    BY <1>2, <2>1, <2>2 DEF RestTyped, StreamInv, StreamTypeOK, StreamPhases, NoSub
  <2>5. MarkersCounted'
    BY <1>1, <1>2, <1>3, <2>1, <2>2 DEF MarkersCounted, StreamInv, Unknown
  <2> QED
    BY <2>3, <2>4, <2>5
<1> QED
  BY <1>4, <1>5 DEF OtherControls

LEMMA OwnerAnswersStep ==
  ASSUME StreamInv, OwnerAnswers, UNCHANGED uncounted
  PROVE  TextInv' /\ RestTyped' /\ StreamPhases' /\ MarkersCounted'
<1>1. /\ log \in Seq(Events) /\ Len(log) \in Nat /\ Len(log) <= MaxLog
      /\ Markers \in Nat /\ required \in Nat /\ OnItsWay \in Nat /\ attempt \in Nat
  BY StreamTypes DEF TextInv, OnItsWay, StreamInv, StreamTypeOK
<1>2. UNCHANGED <<phase, output, required, sub, uncounted>>
  BY DEF OwnerAnswers, controller
<1>3. /\ call \in [op : {"none", "pause", "resume", "readback", "check", "reconnect"},
                    ans : {"none", "running", "paused", "ended", "refused", "lost"}]
      /\ call.op # "none" /\ call.ans = "none" /\ ~Acked /\ OnItsWay = 0
  BY DEF OwnerAnswers, StreamInv, StreamPhases, Acked, OnItsWay
<1>4. status \in {"running", "paused", "ended"}
  BY DEF StreamInv, StreamTypeOK
<1>5. CASE call.op = "resume" /\ Resumes /\ attempt' = Markers + 1
  <2>1. /\ Grows /\ log' \in Seq(Events) /\ log' # log
        /\ Len(log') <= MaxLog /\ Markers' = Markers + 1
    BY <1>5, ResumesStep
  <2>2. owner' # owner
    BY <2>1 DEF owner
  <2>3. call' = [call EXCEPT !.ans = "running"] /\ status' = "running"
    BY <1>5, <2>2 DEF OwnerAnswers, Resumes
  <2>4. call' = [op |-> "resume", ans |-> "running"] /\ OnItsWay' = 1
    BY <1>3, <1>5, <2>3 DEF Acked, OnItsWay
  <2>5. TextInv'
    BY <1>2, <2>1, TextKept
  <2>6. RestTyped' /\ StreamPhases'
    BY <1>1, <1>2, <1>3, <1>5, <2>1, <2>3, <2>4 DEF RestTyped, StreamInv, StreamTypeOK, StreamPhases, NoSub
  <2>7. MarkersCounted'
    BY <1>1, <1>2, <1>3, <1>5, <2>1, <2>4 DEF MarkersCounted, StreamInv, Unknown
  <2> QED
    BY <2>5, <2>6, <2>7
<1>6. CASE ~(call.op = "resume" /\ Resumes /\ attempt' = Markers + 1)
  <2>1. log' = log /\ attempt' = attempt /\ status' \in {"running", "paused", "ended"}
    BY <1>4, <1>6 DEF OwnerAnswers, Pauses, owner
  <2>2. call.op = "resume" => owner' = owner
    BY <1>3, <1>6 DEF OwnerAnswers
  <2>3. PICK a \in {"running", "paused", "ended", "refused"} : call' = [call EXCEPT !.ans = a]
    BY <2>1 DEF OwnerAnswers
  <2>4. call.op = "resume" => call' = [call EXCEPT !.ans = "refused"]
    BY <2>2 DEF OwnerAnswers
  <2>5. /\ call' \in [op : {"none", "pause", "resume", "readback", "check", "reconnect"},
                      ans : {"none", "running", "paused", "ended", "refused", "lost"}]
        /\ call'.op = call.op
    BY <1>3, <2>3
  <2>11. call'.ans = "refused" => call.op \in {"pause", "resume"}
    <3>1. CASE call.op \in {"pause", "resume"}
      BY <3>1
    <3>2. CASE call.op \notin {"pause", "resume"}
      BY <1>3, <2>1, <3>2 DEF OwnerAnswers
    <3> QED
      BY <3>1, <3>2
  <2>6. OnItsWay' = 0
    BY <1>3, <2>3, <2>4, <2>5 DEF OnItsWay, Acked
  <2>7. Markers' = Markers /\ Grows
    BY <2>1, SameMarkers
  <2>8. TextInv'
    BY <1>2, <2>7, TextKept
  <2>9. RestTyped' /\ StreamPhases'
    BY <1>1, <1>2, <2>1, <2>5, <2>11 DEF RestTyped, StreamInv, StreamTypeOK, StreamPhases, NoSub
  <2>10. MarkersCounted'
    BY <1>1, <1>2, <1>3, <2>1, <2>6, <2>7 DEF MarkersCounted, StreamInv, Unknown
  <2> QED
    BY <2>8, <2>9, <2>10
<1> QED
  BY <1>5, <1>6

\* A step that leaves the log, with an answer to a resume or none.
LEMMA QuietStep ==
  ASSUME StreamInv, UNCHANGED <<owner, required>>, TextInv', StreamPhases',
         phase' \in {"running", "paused", "submitting", "interrupted", "completed"},
         uncounted' \in BOOLEAN, uncounted => uncounted',
         ~Acked', Acked => uncounted'
  PROVE  TextInv' /\ RestTyped' /\ StreamPhases' /\ MarkersCounted'
<1>1. /\ Markers \in Nat /\ required \in Nat /\ attempt \in Nat /\ log \in Seq(Events)
  BY StreamTypes DEF TextInv, StreamInv, StreamTypeOK
<1>2. log' = log /\ status' = status /\ attempt' = attempt /\ required' = required
  BY DEF owner
<1>3. Markers' = Markers
  BY <1>2, SameMarkers
<1>4. RestTyped'
  BY <1>1, <1>2 DEF RestTyped, StreamInv, StreamTypeOK
<1>5. MarkersCounted'
  BY <1>1, <1>2, <1>3 DEF MarkersCounted, OnItsWay, StreamInv, Unknown
<1> QED
  BY <1>4, <1>5

LEMMA AnswerLostStep ==
  ASSUME StreamInv, AnswerLost
  PROVE  TextInv' /\ RestTyped' /\ StreamPhases' /\ MarkersCounted'
<1>1. /\ UNCHANGED <<owner, log, phase, output, required, sub>> /\ uncounted' = (uncounted \/ Acked)
  BY DEF AnswerLost, owner, controller, Acked
<1>2. /\ call' \in [op : {"none", "pause", "resume", "readback", "check", "reconnect"},
                    ans : {"none", "running", "paused", "ended", "refused", "lost"}]
      /\ call'.op = call.op /\ call'.ans = "lost"
  BY DEF AnswerLost, StreamInv, StreamPhases
<1>3. TextInv'
  BY <1>1, SameMarkers, TextKept
<1>4. StreamPhases'
  BY <1>1, <1>2 DEF StreamInv, StreamPhases, NoSub
<1>5. ~Acked' /\ UNCHANGED <<owner, required, phase>>
      /\ phase \in {"running", "paused", "submitting", "interrupted", "completed"}
  BY <1>1, <1>2 DEF Acked, StreamInv, StreamTypeOK
<1>6. uncounted \in BOOLEAN /\ Acked \in BOOLEAN
  BY DEF StreamInv, StreamTypeOK, Acked
<1>7. uncounted' \in BOOLEAN /\ (uncounted => uncounted') /\ (Acked => uncounted')
  BY <1>1, <1>6, Zenon
<1> QED
  BY <1>3, <1>4, <1>5, <1>7, QuietStep

LEMMA UserStep ==
  ASSUME StreamInv, Control("pause") \/ Control("resume") \/ Reconnect \/ Check,
         UNCHANGED uncounted
  PROVE  TextInv' /\ RestTyped' /\ StreamPhases' /\ MarkersCounted'
<1>1. UNCHANGED <<owner, log, required, uncounted>>
  BY DEF Control, Reconnect, Check, owner, controller
<1>2. ~Acked
  BY DEF Control, Reconnect, Check, StreamInv, StreamPhases, Acked, NoCall
<1>3. required \in 0..Unknown /\ TextInv
  BY StreamTypes DEF TextInv
<1>4. CASE Check
  <2>1. UNCHANGED <<phase, output, sub>> /\ call' = [op |-> "check", ans |-> "none"]
        /\ phase # "submitting"
    BY <1>4 DEF Check, controller
  <2>2. TextInv'
    BY <1>1, <2>1, SameMarkers, TextKept
  <2>3. StreamPhases'
    BY <1>1, <2>1 DEF StreamPhases, StreamInv, NoSub
  <2> QED
    BY <1>1, <1>2, <2>1, <2>2, <2>3, QuietStep DEF Acked, StreamInv, StreamTypeOK
<1>5. CASE ~Check
  <2>1. /\ phase' = "submitting" /\ output' = << >> /\ sub' = NoSub
        /\ \E op \in {"pause", "resume", "reconnect"} : call' = [op |-> op, ans |-> "none"]
    BY <1>5 DEF Control, Reconnect, StreamInv, StreamPhases
  <2>2. TextInv'
    BY <1>1, <1>3, <2>1, SameMarkers, TextDropped
  <2>3. StreamPhases'
    BY <1>1, <2>1 DEF StreamPhases, StreamInv, NoSub
  <2>4. ~Acked'
    BY <2>1 DEF Acked
  <2> QED
    BY <1>1, <1>2, <2>1, <2>2, <2>3, <2>4, QuietStep DEF StreamInv, StreamTypeOK
<1> QED
  BY <1>4, <1>5

LEMMA StreamStep ==
  ASSUME StreamInv, StreamHears \/ StreamEnds \/ StreamBreaks, UNCHANGED uncounted
  PROVE  TextInv' /\ RestTyped' /\ StreamPhases' /\ MarkersCounted'
<1>1. UNCHANGED <<owner, log, required, uncounted, call>>
  BY DEF StreamHears, StreamEnds, StreamBreaks, owner
<1>2. sub # NoSub /\ phase = "running"
  BY DEF StreamHears, StreamEnds, StreamBreaks, StreamInv, StreamPhases
<1>3. ~Acked
  BY <1>2 DEF StreamInv, StreamPhases, Acked
<1>4. ~Acked'
  BY <1>1, <1>3 DEF Acked
<1>5. required \in 0..Unknown
  BY StreamTypes DEF TextInv
<1>6. CASE StreamHears
  <2>1. TextInv' /\ sub' # NoSub /\ phase' = phase
    BY <1>6, TextHeard DEF StreamHears
  <2>2. StreamPhases'
    BY <1>1, <1>2, <2>1 DEF StreamPhases, StreamInv, TextInv, NoSub
  <2> QED
    BY <1>1, <1>2, <1>3, <1>4, <2>1, <2>2, QuietStep DEF StreamInv, StreamTypeOK
<1>7. CASE StreamEnds \/ StreamBreaks
  <2>1. /\ sub' = NoSub /\ (output' = output \/ output' = << >>)
        /\ phase' \in {"completed", "interrupted"}
    BY <1>7 DEF StreamEnds, StreamBreaks
  <2>2. TextInv'
    BY <1>1, <1>5, <2>1, SameMarkers, TextDropped
  <2>3. StreamPhases'
    BY <1>1, <1>2, <2>1 DEF StreamPhases, StreamInv, NoSub
  <2> QED
    BY <1>1, <1>3, <1>4, <2>1, <2>2, <2>3, QuietStep DEF StreamInv, StreamTypeOK
<1> QED
  BY <1>6, <1>7

\* The view shows an answer s: its text starts again.
LEMMA ShowsStep ==
  ASSUME StreamInv, UNCHANGED owner, call' = NoCall, NEW s \in {"running", "paused", "ended"},
         NEW r \in 0..Unknown, Shows(s, r)
  PROVE  TextInv' /\ StreamPhases' /\ required' = r /\ ~Acked' /\ Markers' = Markers
         /\ phase' \in {"running", "paused", "completed"}
<1>1. log' = log /\ output' = << >> /\ required' = r
  BY DEF owner, Shows
<1>2. phase' = PhaseOf(s) /\ phase' \in {"running", "paused", "completed"}
  BY DEF Shows, PhaseOf
<1>3. Grows /\ Markers' = Markers
  BY <1>1, SameMarkers
<1>4. TextInv' /\ (phase' = "running" <=> sub' # NoSub)
  <2>1. CASE s = "running"
    <3>1. Subscribe(required')
      BY <1>1, <2>1 DEF Shows, Streams
    <3> QED
      BY <1>1, <1>2, <1>3, <2>1, <3>1, TextAnew DEF Subscribe, NoSub, PhaseOf
  <2>2. CASE s # "running"
    <3>1. sub' = NoSub
      BY <2>2 DEF Shows, Streams
    <3> QED
      BY <1>1, <1>2, <1>3, <2>2, <3>1, TextDropped DEF PhaseOf
  <2> QED
    BY <2>1, <2>2
<1>5. StreamPhases'
  BY <1>1, <1>2, <1>4 DEF StreamPhases, StreamInv, TextInv, NoCall
<1> QED
  BY <1>1, <1>2, <1>3, <1>4, <1>5 DEF Acked, NoCall

LEMMA InterruptsStep ==
  ASSUME StreamInv, UNCHANGED <<owner, uncounted>>, call' = NoCall, Interrupts,
         phase = "submitting", ~Acked
  PROVE  TextInv' /\ RestTyped' /\ StreamPhases' /\ MarkersCounted'
<1>1. UNCHANGED <<log, output, required, sub>> /\ phase' = "interrupted" /\ ~Acked'
  BY DEF owner, Interrupts, Acked, NoCall
<1>2. TextInv'
  BY <1>1, SameMarkers, TextKept
<1>3. StreamPhases'
  BY <1>1 DEF StreamPhases, StreamInv, NoSub, NoCall
<1> QED
  BY <1>1, <1>2, <1>3, QuietStep DEF StreamInv, StreamTypeOK

LEMMA ControlSettlesStep ==
  ASSUME StreamInv, ControlSettles, UNCHANGED uncounted
  PROVE  TextInv' /\ RestTyped' /\ StreamPhases' /\ MarkersCounted'
<1>1. UNCHANGED <<owner, log, status, attempt, uncounted>>
  BY DEF ControlSettles, owner
<1>2. phase = "submitting" /\ sub = NoSub
  BY DEF ControlSettles, StreamInv, StreamPhases
<1>3. /\ required \in 0..Unknown /\ Markers \in Nat /\ Markers <= MaxLog /\ MaxLog \in Nat
      /\ Unknown = MaxLog + 1 /\ attempt \in Nat /\ log \in Seq(Events)
      /\ Len(log) \in Nat /\ Markers <= Len(log) /\ Len(log) <= MaxLog
  BY StreamTypes DEF TextInv, Unknown, StreamInv, StreamTypeOK
<1>4. call \in [op : {"none", "pause", "resume", "readback", "check", "reconnect"},
                ans : {"none", "running", "paused", "ended", "refused", "lost"}]
  BY DEF StreamInv, StreamPhases
<1>5. Acked <=> Counts
  BY <1>4 DEF Acked, Counts
<1>6. CASE call.ans \in {"running", "paused", "ended"}
  <2> DEFINE r == IF Counts THEN OneMore ELSE required
  <2>1. Shows(call.ans, r) /\ call' = NoCall
    BY <1>6 DEF ControlSettles
  <2>2. r \in 0..Unknown /\ (required = Unknown => r = Unknown)
        /\ (required # Unknown => r = required + OnItsWay /\ r # Unknown)
    BY <1>3, <1>5 DEF OneMore, OnItsWay, StreamInv, MarkersCounted
  <2>3. /\ TextInv' /\ StreamPhases' /\ required' = r /\ ~Acked' /\ Markers' = Markers
        /\ phase' \in {"running", "paused", "completed"}
    BY <1>1, <1>6, <2>1, <2>2, ShowsStep
  <2>4. RestTyped'
    BY <1>1, <1>3, <2>3 DEF RestTyped, StreamInv, StreamTypeOK
  <2>5. MarkersCounted'
    BY <1>1, <1>3, <2>2, <2>3 DEF MarkersCounted, OnItsWay, StreamInv, Unknown
  <2> QED
    BY <2>3, <2>4, <2>5
<1>7. CASE call.ans = "refused"
  <2>1. call' = [op |-> "readback", ans |-> "none"] /\ UNCHANGED <<phase, output, required, sub>>
    BY <1>7 DEF ControlSettles, controller
  <2>2. TextInv'
    BY <1>1, <2>1, SameMarkers, TextKept
  <2>3. StreamPhases'
    BY <1>1, <1>2, <2>1 DEF StreamPhases, StreamInv, NoSub
  <2>4. ~Acked' /\ ~Acked
    BY <1>7, <2>1 DEF Acked
  <2> QED
    BY <1>1, <2>1, <2>2, <2>3, <2>4, QuietStep DEF StreamInv, StreamTypeOK
<1>8. CASE call.ans = "lost"
  BY <1>1, <1>2, <1>8, InterruptsStep DEF ControlSettles, Acked
<1> QED
  BY <1>6, <1>7, <1>8 DEF ControlSettles

\* What is shown of an answer that is not to a resume.
LEMMA ReadShownStep ==
  ASSUME StreamInv, UNCHANGED <<owner, uncounted>>, call' = NoCall, ~Acked,
         NEW s \in {"running", "paused", "ended"},
         NEW r \in {required, Unknown}, Shows(s, r)
  PROVE  TextInv' /\ RestTyped' /\ StreamPhases' /\ MarkersCounted'
<1>1. UNCHANGED <<log, status, attempt>>
  BY DEF owner
<1>2. required \in 0..Unknown /\ Markers \in Nat /\ attempt \in Nat /\ log \in Seq(Events) /\ Unknown \in Nat
  BY StreamTypes DEF TextInv, StreamInv, StreamTypeOK
<1>3. /\ TextInv' /\ StreamPhases' /\ required' = r /\ ~Acked' /\ Markers' = Markers
      /\ phase' \in {"running", "paused", "completed"}
  BY <1>2, ShowsStep
<1>4. RestTyped'
  BY <1>1, <1>2, <1>3 DEF RestTyped, StreamInv, StreamTypeOK
<1>5. MarkersCounted'
  BY <1>1, <1>2, <1>3 DEF MarkersCounted, OnItsWay, StreamInv, Unknown
<1> QED
  BY <1>3, <1>4, <1>5

LEMMA ReadSettlesStep ==
  ASSUME StreamInv, ReadSettles \/ CheckSettles, UNCHANGED uncounted
  PROVE  TextInv' /\ RestTyped' /\ StreamPhases' /\ MarkersCounted'
<1>1. UNCHANGED <<owner, log>> /\ call' = NoCall
  BY DEF ReadSettles, CheckSettles, owner
<1>2. ~Acked /\ ~Acked'
  BY <1>1 DEF ReadSettles, CheckSettles, Acked, NoCall
<1>3. call.ans \in {"running", "paused", "ended", "refused", "lost"}
  BY DEF ReadSettles, CheckSettles, StreamInv, StreamPhases
<1>4. CASE ReadSettles
  <2>1. phase = "submitting"
    BY <1>4 DEF ReadSettles, StreamInv, StreamPhases
  <2>2. CASE call.ans = "lost"
    BY <1>1, <1>2, <1>4, <2>1, <2>2, InterruptsStep DEF ReadSettles
  <2>3. CASE call.ans # "lost"
    <3>1. call.ans \in {"running", "paused", "ended"} /\ Shows(call.ans, required)
      BY <1>3, <1>4, <2>3 DEF ReadSettles, StreamInv, StreamPhases
    <3> QED
      BY <1>1, <1>2, <3>1, ReadShownStep
  <2> QED
    BY <2>2, <2>3
<1>5. CASE CheckSettles
  <2>1. phase # "submitting"
    BY <1>5 DEF CheckSettles, StreamInv, StreamPhases
  <2>2. CASE UNCHANGED controller
    <3>1. TextInv'
      BY <1>1, <2>2, SameMarkers, TextKept DEF controller
    <3>2. StreamPhases'
      BY <1>1, <2>1, <2>2 DEF StreamPhases, StreamInv, NoSub, NoCall, controller
    <3> QED
      BY <1>1, <1>2, <2>2, <3>1, <3>2, QuietStep DEF StreamInv, StreamTypeOK, controller
  <2>3. CASE ~UNCHANGED controller
    <3>1. call.ans \in {"running", "paused", "ended"}
      BY <1>3, <1>5, <2>3 DEF CheckSettles, StreamInv, StreamPhases
    <3>2. Shows(call.ans, IF call.ans = "running" THEN Unknown ELSE required)
      BY <1>5, <2>3 DEF CheckSettles
    <3>3. (IF call.ans = "running" THEN Unknown ELSE required) \in {required, Unknown}
      OBVIOUS
    <3> QED
      BY <1>1, <1>2, <3>1, <3>2, <3>3, ReadShownStep
  <2> QED
    BY <2>2, <2>3
<1> QED
  BY <1>4, <1>5

----------------------------------------------------------------------------
LEMMA StreamInitially == Init => StreamInv
<1> SUFFICES ASSUME Init PROVE StreamInv
  OBVIOUS
<1>0. MaxLog \in Nat
  BY StreamAssumption
<1>1. log = << >> /\ log \in Seq(Events) /\ Len(log) = 0 /\ DOMAIN log = {} /\ output \in Seq(Deltas)
      /\ DOMAIN output = {}
  BY EmptySeq DEF Init
<1>2. \A i : MarkersBefore(i) = 0
  <2>1. \A i : {j \in DOMAIN log : j < i /\ log[j] = "resumed"} = {}
    BY <1>1
  <2> QED
    BY <2>1, FS_EmptySet DEF MarkersBefore
<1>3. Markers = 0 /\ Deltas = {}
  BY <1>1, <1>2 DEF Markers, Deltas
<1>4. /\ sub.next = 1 /\ sub.markers = 0 /\ sub.awaiting = FALSE /\ sub # NoSub
      /\ sub \in [next : Nat, markers : Nat, awaiting : BOOLEAN]
  <2>1. sub = [[next |-> 0, markers |-> 0, awaiting |-> FALSE] EXCEPT !.next = 1]
    BY DEF Init, NoSub
  <2>2. sub \in [next : Nat, markers : Nat, awaiting : BOOLEAN]
    BY <2>1
  <2>3. sub.next = 1 /\ sub.markers = 0 /\ sub.awaiting = FALSE
    BY <2>1
  <2>4. NoSub.next = 0
    BY DEF NoSub
  <2> QED
    BY <2>2, <2>3, <2>4
<1>5. TextShown
  BY <1>1, <1>3 DEF TextShown, Increasing, Projected
<1>6. StreamCounts
  BY <1>2, <1>4 DEF StreamCounts, Init
<1>7. StreamPhases
  BY <1>0, <1>1, <1>4 DEF StreamPhases, Init, NoCall
<1>8. MarkersCounted
  BY <1>3 DEF MarkersCounted, Init, OnItsWay, Acked, NoCall
<1>9. StreamTypeOK
  <2>1. /\ log \in Seq({"delta", "resumed"}) /\ status = "running" /\ attempt = 0 /\ uncounted = FALSE
        /\ phase = "running" /\ required = 0 /\ call = [op |-> "none", ans |-> "none"]
    BY <1>1 DEF Init, Events, NoCall
  <2>2. required \in 0..Unknown
    BY <1>0, <2>1 DEF Unknown
  <2>3. sub.next \in 1..(Len(log) + 1) /\ sub.markers <= Markers
    BY <1>1, <1>3, <1>4
  <2> QED
    BY <1>1, <2>1, <2>2, <2>3 DEF StreamTypeOK
<1> QED
  BY <1>5, <1>6, <1>7, <1>8, <1>9 DEF StreamInv

LEMMA StreamInductive == StreamInv /\ [Next]_vars => StreamInv'
<1> SUFFICES ASSUME StreamInv, [Next]_vars PROVE StreamInv'
  OBVIOUS
<1> DEFINE Kept == TextInv' /\ RestTyped' /\ StreamPhases' /\ MarkersCounted'
<1>0. Kept => StreamInv'
  BY DEF TextInv, RestTyped, StreamPhases, MarkersCounted, StreamInv, StreamTypeOK, Events
<1>1. CASE OtherControls
  BY <1>0, <1>1, OtherControlsStep
<1>2. CASE AnswerLost
  BY <1>0, <1>2, AnswerLostStep
<1>3. CASE Counted /\ UNCHANGED uncounted
  <2>1. CASE OwnerWrites \/ OwnerEnds
    BY <1>0, <1>3, <2>1, OwnerWritesStep
  <2>2. CASE OwnerAnswers
    BY <1>0, <1>3, <2>2, OwnerAnswersStep
  <2>3. CASE Control("pause") \/ Control("resume") \/ Reconnect \/ Check
    BY <1>0, <1>3, <2>3, UserStep
  <2>4. CASE ControlSettles
    BY <1>0, <1>3, <2>4, ControlSettlesStep
  <2>5. CASE ReadSettles \/ CheckSettles
    BY <1>0, <1>3, <2>5, ReadSettlesStep
  <2>6. CASE StreamHears \/ StreamEnds \/ StreamBreaks
    BY <1>0, <1>3, <2>6, StreamStep
  <2> QED
    BY <1>3, <2>1, <2>2, <2>3, <2>4, <2>5, <2>6 DEF Counted
<1>4. CASE UNCHANGED vars
  <2>1. UNCHANGED <<log, status, attempt, phase, output, required, sub, call, uncounted>>
    BY <1>4 DEF vars, owner, controller
  <2>2. StreamTypeOK'
    BY <2>1 DEF StreamInv, StreamTypeOK, Deltas, Markers, MarkersBefore, NoSub, Unknown
  <2>3. TextShown'
    BY <2>1 DEF StreamInv, TextShown, Increasing, Projected, Deltas, MarkersBefore, NoSub
  <2>4. StreamPhases'
    BY <2>1 DEF StreamInv, StreamPhases, NoSub
  <2>5. StreamCounts'
    BY <2>1 DEF StreamInv, StreamCounts, MarkersBefore, NoSub
  <2>6. MarkersCounted'
    BY <2>1 DEF StreamInv, MarkersCounted, OnItsWay, Acked, Markers, MarkersBefore, Unknown
  <2> QED
    BY <2>2, <2>3, <2>4, <2>5, <2>6 DEF StreamInv
<1> QED
  BY <1>1, <1>2, <1>3, <1>4 DEF Next

LEMMA StreamInvGivesExact == StreamInv => ProjectionExact
<1> SUFFICES ASSUME StreamInv PROVE ProjectionExact
  OBVIOUS
<1>1. /\ log \in Seq(Events) /\ Len(log) <= MaxLog /\ Markers \in Nat /\ required \in 0..Unknown
      /\ Markers <= Len(log) /\ MaxLog \in Nat /\ Len(log) \in Nat /\ attempt \in Nat
  BY StreamTypes DEF TextInv, StreamInv, StreamTypeOK
<1>2. required # Unknown => required <= Markers
  BY <1>1 DEF StreamInv, MarkersCounted, OnItsWay
<1>3. ASSUME phase = "running", ~uncounted, NEW i \in DOMAIN output
      PROVE  MarkersBefore(output[i]) >= attempt
  <2>1. sub # NoSub /\ OnItsWay = 0
    BY <1>3 DEF StreamInv, StreamPhases, OnItsWay, Acked
  <2>2. output[i] \in Projected
    BY <1>3, <2>1 DEF StreamInv, TextShown
  <2>3. output[i] \in Nat /\ MarkersBefore(output[i]) >= required
    BY <1>1, <2>2, LenProperties DEF Projected, Deltas
  <2>4. MarkersBefore(output[i]) \in Nat
    BY <1>1, <2>3, AheadFinite DEF MarkersBefore, Ahead
  <2>5. required >= attempt
    BY <1>1, <1>3, <2>1 DEF StreamInv, MarkersCounted, Unknown
  <2> QED
    BY <1>1, <2>3, <2>4, <2>5
<1> QED
  BY <1>2, <1>3 DEF ProjectionExact, StreamInv, TextShown

\* The text a running view shows is the text after the markers it requires, and
\* it requires no fewer than the resumes it was told of (ProjectionExact).
THEOREM ProjectionStaysExact == Spec => []ProjectionExact
<1>1. Spec => []StreamInv
  BY StreamInitially, StreamInductive, PTL DEF Spec
<1> QED
  BY <1>1, StreamInvGivesExact, PTL
=============================================================================
