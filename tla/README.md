# AI-Verse Dashboard in TLA+

AI-Verse Dashboard is a local page, and a loopback host behind it, through which
an operator talks to a *canonical Gateway* (the owner of chat runs) about the
workspaces of registered AI-Verse systems. Neither the page nor the host owns
anything: runs live at the Gateway, Canvas documents at the Data owner, files in
the systems' directories. What makes the code hard is that it must not show, or
let through, an answer that is no longer true: every operation awaits something,
and while it waits the operator selects another workspace, the host rotates the
session, the directory of a system is replaced, another client acts on the same
run. The modules here model those parts; the paths below are relative to `src/`.

## 1. The system

| Component | State | Operations | Talks to |
|---|---|---|---|
| `PersonalChatRunController`, `packages/client/src/conversation-run.ts` | the view, the active request, the confirmed context, four epochs, the event subscription, the resume markers | send, retry, reconnect, stop, checkpoint (pause, resume), refreshStatus, reconcile, openSession, recover, retarget, close, the stream's callbacks | the Gateway through `DashboardClient` and the event feed |
| `DashboardClient`, `packages/client/src/client.ts` | scope, selection epoch, a ttl cache | query, retarget | `POST /rpc` |
| Event feed, `packages/client/src/gateway-event-feed.ts` | a socket per run | subscribe, close | the host's WebSocket |
| `SystemRegistry`, `packages/registry/src/registry.ts` | records by id, ids by root, a binding serial and the generation of each record | register, rebind, unregister, resolveRoot, revalidate | the disk; holders of leases |
| `LocalApplicationSession`, `apps/gateway/src/local-app-session.ts` | pairing code and cookie, attempts, scope and directory, abort controller, expiry timer, one workspace request, sockets | pair, logout, request a workspace, approve, deny, rotate, expire | the registry, the disk, server.ts |
| Host and bridge, `apps/gateway/src/server.ts`, `canonical-gateway-bridge.ts`, `packages/client/src/canonical-gateway-client.ts` | calls in progress, sockets and their event streams | `/rpc`, gateway.subscribe and unsubscribe, the bridge's methods | session, registry, Gateway |
| `CanvasWorkspace`, `apps/web/src/canvas-workspace.ts` | the document shown, library, history pages, selected note, confirmations, busy, an epoch | open, create, edit, rename, duplicate, delete, history, revert, scratch, drag, quote a note, retarget | the Data owner through `DashboardClient` |
| `SubscriptionHub`, `DisposableCache`, `apps/gateway/src/subscriptions.ts`, `packages/os-read-adapter/src/cache.ts` | subscribers, dedupe window, sequence numbers; projections | publish, subscribe, watch; put, get, invalidate | file watcher, query router |
| Live sessions, `packages/live/src` | transcripts per system, adapters by name, a child process per send | create, append, setStatus, abort; send of the echo and the child process adapters; publishLive of any event; trace, log drawer, tool groups | hub, query router |
| Local page, `apps/web/local-app/boot.js` | cookie, mounted view, monitor, chooser, the id of a pending request, two epochs | pair, activate, check, poll, choose and request a workspace, logout, reload | `LocalApplicationSession` by fetch |
| Panes of the chat, `apps/web/src/personal-chat-ui.ts` | panes with a transcript, an active turn and a controller each; the list of conversations; the controls the host allows | send, open, recover, earlier turns, export, new chat; list and its pages; a Canvas note for the composer | `PersonalChatRunController`, `DashboardClient`, `CanvasWorkspace` |
| Activity, models, diagnostics, `apps/web/src/personal-*.ts` | what is shown, an epoch, a locked button; the typed ids of the run inspector | open, close, refresh, retarget, inspect | `DashboardClient` |
| Desktop shell, `apps/web/src/layout.ts`, `panels.ts` | panels mounted, each bound to a system and workspace; a counter | mount, state, presentation, retarget, presets | - |
| Query router, read models, OS adapter, protocol, scripts | none of their own | pure projections and validation | the disk |

The hard behaviours, and what correctness means there:

- *Chat.* Answers of several calls and of a stream arrive in any order, late or
  never. The view may only show the run of its own message and only outcomes the
  owner has; the context of the next prompt must be complete or marked as
  limited; a running view must be watched.
- *Registry.* A lease on a system must die when the directory behind it changes
  and must never come back to life, whatever returns to the disk.
- *Session and host.* A request is admitted, then awaits its body, reads,
  credentials and the owner. If the session or the binding changes in between,
  no effect may leave and no success may return.
- *Live sessions and hub.* A send awaits a child process; the session may be
  aborted, filled or written to meanwhile. A send must be settled once, a socket
  must hear one workspace of its own system, a projection must be of the file
  state it is stored under.
- *Page.* The page notices that its session has ended only by asking. A check, a
  poll, a pairing and a logout are under way together and may be lost; a late one
  must not touch the view of a session begun since.
- *Views.* What is shown is of the selected workspace and of the newest refresh;
  answers stand under their own questions; a conversation is never replaced by one
  that was opened late.
- *Canvas.* One request at a time excludes the others, across selections; a
  confirmation given for one document or version must not be used for another.

## 2. Modules

| Module | Models | Composes |
|---|---|---|
| `VerifiedConversation` | the abstract promise: a conversation is a growing sequence of verified turns, cut only from its old end | - |
| `ChatRun`, `ChatRunProps` | the chat run controller, its calls and stream, the Gateway's runs | refines `VerifiedConversation` (`TurnsAreVerified`) |
| `ChatContinuation` | which runs of a session a message may leave out, and which turns of its context: `ChatRun` with two history variables | extends `ChatRunProps` |
| `ChatStream` | the resume markers: which text of the replayed event stream is shown | beside `ChatRun`, one run in detail |
| `SystemRegistry` | the registry, the disk behind it and leases | - |
| `LocalAppSession`, `LocalAppSessionProps` | the browser's session | extends `SystemRegistry` |
| `AppHost` | the abstract promise of the host to its page: one session at a time, from one redemption of each code, one request at a time | `LocalAppSession` implements it (`ImplementsAppHost`) |
| `LocalAppPage` | the page: pairing, activation, monitor, chooser, logout, over lost and late answers | extends `AppHost`, so it runs against all that the session may do |
| `GatewayHost` | calls and event streams through the host | extends `LocalAppSession` |
| `ChatPane` | a pane: turns, active turn, restored and earlier turns, export | extends `ChatRun`: every step of the controller with the pane's `onChange` |
| `GatewayReads` | a read of a view: what it asks, what its answer may be | - |
| `ScopedPanel` | the abstract promise of every read-only view | implemented by three views and the host's controls (`ImplementsScopedPanel`) |
| `PersonalDiagnostics`, `PersonalModelStatus`, `PersonalAgentActivity` | the three views and the run inspector | extend `GatewayReads` |
| `PersonalApplication` | the application: panes and what opens in them, the list of conversations, the controls the host allows, the Canvas note, one change of workspace for all | extends the three views |
| `DashboardClient` | `query`, its selection epoch, its ttl cache | extends `GatewayReads` |
| `LayoutManager` | panels mounted, their bindings, presets | - |
| `CanvasWorkspace` | the Canvas view and the Data owner as it uses it | - |
| `SubscriptionHub` | the hub, a socket's workspace subscription and run stream, the watcher, previews and the projection cache | - |
| `LiveSessions` | the session store, adapters, sends and their child processes, publishLive | extends `SubscriptionHub` |
| `LiveReads` | the router's and the runs panel's reads, the properties | extends `LiveSessions` |
| `ChatRunProofs` | the theorems of the chat | extends `ChatRunProps` |
| `ChatContinuationProofs` | the theorems about what a message continues | extends `ChatContinuation`, `ChatRunProofs` |
| `PaneProofs` | the theorems of a pane | extends `ChatPane`, `ChatRunProofs` |
| `HostProofs` | the theorems of the registry, the session and the host | extends `GatewayHost`, `LocalAppSessionProps` |
| `PageProofs` | the theorems of the page | extends `LocalAppPage` |
| `CanvasProofs` | the theorems of the Canvas | extends `CanvasWorkspace` |
| `LiveProofs` | the theorems of the live sessions and the hub | extends `LiveReads` |
| `BrowserProofs` | the theorems of the client, the layouts, the application (its views, its list of chats, its panes) and the text of a run | extends `PersonalApplication`, `DashboardClient`, `LayoutManager`, `ChatStream` |
| `MC*` | instances for TLC | |

How state and actions correspond to the code:

- **A call is a record.** Each `await` of an operation is an element of `calls`
  (`rpcs` in the host, `bodies` in the session). One action sends it, one is the
  owner handling it (the answer is a snapshot of that moment), one loses the
  request or the answer, and one is the continuation: everything from the
  `await` to the next one, or to the end with its `catch` and `finally`.
- **Epochs are numbers**, as in the code. What has no epoch check in the code
  has none in the model.
- **Names are abstracted where they would help the code.** A selection A, B, A
  makes the workspace name equal again, so `ChatRun` drops it and only the epochs
  fence; `CanvasWorkspace` has two systems whose workspaces share a name.
- **Handlers are whole.** `Revoke` of the session aborts the lease, clears the
  timer, closes the sockets and forgets the request in one action, as the code
  does between two awaits; `OperationSettles` of the Canvas also sends the silent
  refresh of its `finally`.
- **What is outside `src/`** (the Gateway's runs and refusals, the Data owner,
  network, disk) is modelled from how the code uses it and marked external.
- **Epochs are marks where only equality with now matters.** A read of a view carries
  `mine`, a task of the page `session` and `chooser`: true until the code counts the
  epoch on. This is the same comparison and keeps the state small.
- **The head and the body of an answer** come apart where something happens between them: the
  head of a pairing's answer sets the cookie (`PairAnswered`), its body begins the activation
  (`PairSettles`). Where nothing is set between them, losing the answer covers losing its body.
- **Answers may be foreign.** A read of a view gets any answer of any scope; what the
  view accepts is what its inspect function checks, no more.
- **Payloads** are sizes in `ChatRun` (the byte bound matters), event numbers in
  `ChatStream`, versions in `CanvasWorkspace`.
- **History variables** record what a property needs and no action reads:
  `left` and `cut` in `ChatContinuation`; `asked`, `pairings`, `granted` in the session; `pendingOf`, `out`, `unopened` in the page;
  `refused`, `cut` in the pane; `given` in the client; `moved` in the list; `uncounted` in `ChatStream`;
  `armed`, `reference` in the Canvas; who told an event (`by`, the adapter, the host or another
  part) in the hub, and which closed session was opened again (`reopened`) in the live sessions. `leases` of the registry are the holders'.

## 3. Runs

| Run | Instance | What it shows |
|---|---|---|
| `chat_conversation` | contexts of two turns, opened ones of three; three messages sent, retried and stopped, conversations opened and runs recovered in 4 epochs, or four messages of which one overtakes another; two calls under way | a session is continued only when its runs have ended, and without the notice with all their turns in order, save runs that were left; the view is of its own message; the confirmed turns refine `VerifiedConversation` |
| `chat_one_run` | one message, every operation, terminal events before the status, 2 epochs, with fairness | outcomes are the owner's and stay, a running view is watched, closed views stay quiet, submitting views settle, ends are seen |
| `chat_delayed_check` | violation | a late check overwrites a verified completion (`conversation-run.ts:446`) |
| `chat_panes` | a pane with two messages and two earlier pages, two calls in flight, 3 epochs; earlier turns, checks, or messages refused, reconnected and recovered | answers stand under their own questions, whole; questions in the owner's order with the earlier pages before them; a completed view shows its answer |
| `pane_export` | violation | Enter in a pane that waits for recovery puts a question into the transcript which the controller refuses and Export writes (`personal-chat-ui.ts:546,681`) |
| `registry_bindings` | two systems, a root inside another, two directories, 3 bindings | roots stay apart; a lease names one binding and never returns |
| `session` | one system; pairings while it moves, requests while workspaces move, or the page with two tasks under way and two rotations; two bodies at a time | one code, one session, one timer; approvals are of what was shown; a page shows only its own session's view; the session implements `AppHost`; expired sessions end |
| `host` | one call or one stream, one rotation, one rebind | no effect, success or event outside its lease |
| `canvas` | two systems, two documents of three versions, pages of two, one change of selection | busy matches the request under way, nothing of another scope, history without gaps, restores and quotes are of what is shown |
| `live_sessions` | two systems with the same session ids and a shared workspace name, two sockets, transcripts of four entries, drawer pages of three at most, three sends; the host gives a session any status and tells any event of it | a send is settled once; after an abort the adapters tell no reply and no error, unless the host opened the session again; sockets and steps stay in one scope, reads agree, projections match their key, sends end |
| `page_ending` | the page with one call of the user beside its checks, two workspaces, two codes, one request, with fairness | a page whose session ended or changed learns it; an answered request does not stay pending |
| `browser` | two systems, two workspaces, one of nine uses in each behaviour | the views implement `ScopedPanel`; an inspection is of the ids typed; the list of chats is faithful; cached and late answers are of the selection; chats are not replaced; panels keep their bindings; the text shown is the replay after the counted markers |

The page's safety, `PageIsOfSession` and `RevokedForCause`, is checked in `session`, with
two tasks under way at a time, the checks included; `page_ending` lets a click start one
only when none is under way, because of the cost of liveness.

**Why the bounds are enough.** The properties compare at most two generations of
anything (this epoch and an earlier one, this binding and the one before, this
message and the previous), so every run has at least two of each, and one more
where a value may come back (A, B, A; unregister and register). `MaxStreams`,
`MaxCalls`, `MaxVersion` and the like bound counters that the code does not
bound. A context of two turns has an order, and is cut at its old end when a
third one comes, or when an opened conversation had three. Five events give a stream two interruptions with text before, between
and after. A transcript of four entries is full in the middle of a send, after
another send or an entry of the host; `MAX_ENTRIES` is 500 in the code.

**Where an instance is split.** `MCChatContinuation`, `MCLocalAppSession`, `MCCanvasWorkspace`,
`MCLiveReads`, `MCChatPane` and `MCBrowser` have a variable `use`, fixed at the start of a
behaviour: recovering or overtaking; pairings, workspace requests or the page; earlier turns, checks or messages of a pane; the library, the history or a note; sends, the host telling
of them, entries of the host, sockets or files; one part of the browser. Each use leaves out the other
inputs and keeps every reaction to its own. The parts of the browser share the selected
scope and nothing else that they write: a change of workspace reaches all of them in one
action, `Retarget`. `MCGatewayHost` has calls or a socket, not both: they meet only in the
session and the registry. `MCChatPane` has no retarget: in a pane it is a new chat with
another selection, which the controller's own runs check.

`CHECK_DEADLOCK FALSE` everywhere: all of these systems may rest for ever, the
operator and the network owe nothing.

## 4. Fairness

- `chat_one_run` assumes that a request that was sent is answered or fails, that
  the continuation of an answer runs, and that a stream ends or breaks once its
  run has ended. The first is the timeout of the host's requests to the Gateway
  (`canonical-gateway-client.ts`), the second is the event loop, the third the
  host's forwarding of the terminal event or of the failure. It does not hold when
  a binding is withdrawn (section 6): the liveness of the view is relative to a
  binding that stays.
- `session` assumes that a timer that is due fires (`TimerFires`), nothing else.
- `live_sessions` assumes that the timer of a send fires (`setTimeout` in runChild);
  nothing is assumed of the child.
- `page_ending` assumes that the interval of the monitor runs (`setInterval`, boot.js), that
  the host handles a check or it fails, and that the functions continue (weak). An
  answered request is learnt through a poll, which may be lost or belong to a chooser
  reopened meanwhile: strong fairness says that of the polls made again and again one
  is answered and read with the chooser left alone.
- No fairness is assumed of the operator, of other clients or of the disk.

## 5. What is proved

TLAPS checks the theorems below for every value of the constants under the
`ASSUME` of their module, which TLC evaluates in each run. Each rests on an inductive
invariant that TLC checked first on the bounds of the run of its component; the
invariants are stronger than the properties, and what they add is named here.

`ChatRunProofs`, from `IInv`:

- `TypeCorrect`: `Spec => []TypeOK`. The hard part is the context: `BoundedHistory`
  takes the newest pairs that fit, and the lemmas `PickElements` and
  `BoundedHistoryType` say that what it picks is a sequence of pairs.
- `OutcomeIsVerified`: a terminal view shows the owner's outcome. A late answer is
  a snapshot of the past, so the invariant says of every call in flight that a
  final status it carries is still the owner's (`CallsTrue`), which holds as
  the owner's final runs do not change (`OwnerStep`).
- `RunIsOwn`: the view of a message never shows another's run. It needs what each
  call is about (`CallsOwn`), that the epoch of a call is never ahead
  (`CallsWell`) and that the request in progress is well formed (`RequestWell`).
- `ClosedStaysClosed`: an action property; a closed view changes only by the
  operator, because the calls and the stream of before carry older epochs
  (`IdleAlone`, `SubWell`).
- `RunningStaysWatched`: inductive beside `IInv`. A step that starts another stream or
  drops one leaves a call that watches, and a call that watched and went on leaves a
  stream, another call or a view that no longer runs (`WatchGoesOn`, `SubscriberHears`).
- `OutcomeIsKept`: `~CheckInFlight => (Spec => VerifiedKept)`. While an answer to a message,
  a control or a loading is awaited, the epoch has no other call and no stream that it hears
  (`SoleCall`), so nothing can arrive at a verified view that would change it. The hypothesis
  is the application's: it disables the check while a view submits
  (`personal-chat-ui.ts:656`). Without it the property is false, and TLC shows so.
- `TurnsImplementConversation`: `Spec => TurnsAreVerified`, the refinement of
  `VerifiedConversation`. The abstract conversation takes a turn once. In the code that is
  the work of `confirmedRun` and of the keys of messages: `TurnsInv` says that the log and
  every list of rows name a run once (`LogOnce`, `RowsOnce`), under keys that were handed out
  (`KeysUsed`), and that the context holds the turn of the present request only when
  `confirmedRun` names it (`TurnsUsed`). That `boundedHistory` drops only old turns is
  `BoundedIsTail`.

`ChatContinuationProofs`, from `LeftInv` = `IInv /\ TurnsInv /\ EndedInv /\ WholeInv`, the
two parts of `SessionContinues`, and `SessionsContinue`, both together:

- `SessionsEndFirst`: a message continues a session only when every other run of it has ended,
  but for those left. `send` looks at the phase of its view alone, so the invariant is about
  the view: whatever it shows, of the session it is about only its own run may be alive
  (`SessionEnded`). A conversation is opened on a list of the owner, the newest row of which
  decides: it is enough because in the log of a session each run had ended when the next one
  came (`LogEnded`), and it is not when a create under way comes late. `LateIsLeft` says that
  such a create is the view's own, has taken place, or its message is left.
- `ContextStaysWhole`: without the notice, and unless `send` cut it, a message carries a turn of
  all these runs in the owner's order and none of another session. The confirmed turns are
  those of the view's session whenever neither flag is set (`ViewCarries`), those of the
  message and its own turn while one is under way (`MessageCarries`); the rows of an opened
  conversation are all of its runs (`CallsComplete`), and a history that keeps its length is
  the same history (`BoundedWhole`).

`PaneProofs`, from `ControllerInv` and `PaneInv`. The theorems are about the pane and its
controller together, over each step of both. `ControllerInv` is `IInv`, `TurnsInv` and `SessionInv`
of the chat, with the text of the view (`ViewOut`), the loading of a session or a run that excludes
every other call of its epoch (`LoneLoad`), and the session that is there from the start (`FirstLogged`).
`PaneInv` says what the newest turns have to do with the view, and what those above them are.
Like the properties it speaks of transcripts without a refused question: the controller knows
nothing of that one (`pane_export`).

- `TranscriptStaysTrue`: an output goes into the active turn, which is the last one, stands below the
  question of the active request and holds what the view shows (`ActiveWell`); or into the turn
  that waits for it, which is about the newest question and only there in an opened session
  (`PendingWell`). A turn written earlier stays true because the owner's final runs do not
  change (`AnswersFollow`).
- `QuestionsStayInOrder`: the turns of a number of whole pages come first, then the oldest
  question of the session (`PagesShown`), and all questions below are of the view's session in the
  order of the log (`QuestionsKnown`, `QuestionsLogged`). A page is read only while no turn is
  active, and the one that is read is the next one, unless a control dropped it (`OlderWell`, `PagesWell`).
- `AnswerStaysShown`: when no turn is active and none waits, the newest turn is the view's answer
  or, of a run that had not ended when it was opened, its question (`NewestShown`); a sent
  message whose turn is not active was canceled (`SentShown`).

Each step does to a pane one of ten things: it rests, shows a view, takes a
question, is refused, is emptied, begins to open or to recover, has opened or recovered, or
reads pages (`KindOfStep`). The invariant is kept by each kind, whichever of the
controller's actions it is.

`HostProofs`, from `RegistryInv` = `RegistryTypeOK /\ RootsApart /\ RecordsWell /\
LeasesWell` for the registry:

- `RootsStayApart`: the two indices agree and no approved roots are nested, for any
  relation `Inside`.
- `LeaseNamesItsBinding`: generations come from one serial that is never reused, and
  a lease that still passes its holder's check names the directory it was taken of
  (`LeasesWell`).
- `WithdrawnForEver`: a withdrawn lease never passes again, from `DriftIsSticky`.

and from `SessionInv` for the session and `HostInv` for the host:

- `PairingHasItsEffects`: each redemption is of a code shown so far, of the current one only
  when it is used (`CodesWell`); the one timer and the open sockets are the present
  lease's (`EndsWell`). Two bodies read at once are settled one after the other, and the
  second one meets the code of the first as used.
- `GrantIsShown`: requests are counted per code, so the numbers of all of them stay below
  `secret * MaxWorkspaceRequests + requestCount` (`AsksWell`), and what was granted is
  a request that was asked (`GrantsWell`).
- `SessionImplementsAppHost`: the refinement `ImplementsAppHost`, one step of the session at
  a time; the registry's own steps stutter.
- `EffectsLeaveInLease`, `StreamsStayInLease`: action properties over `HostInv`. What a
  call captured is compared with what is there at each stage of it, and a lease that has ended
  does not come back (`LeaseKept`, `CallWell`).

`PageProofs`, from `PageInv`, over any host that does what `AppHost` allows:

- `PageStaysOfSession`: the page cannot see the host; what an answer in flight tells is
  true of the session it was asked in (`TaskWell`), no task of an earlier session can mount a
  view (`StaysOut`), and while the page waits for a request no later code can become its
  cookie (`LatestWell`).
- `RevocationHasCause`: an action property; the cookie of a check of the present session is
  still the browser's or the browser has none (`ChecksWell`), but for the time between the
  cookie of a new pairing and its activation (`unopened`).

`CanvasProofs`, from `CanvasInv`:

- `BusyIsOneCall`: at most one exclusive request of the present epoch is under way, and the
  view is busy exactly then (`OneRuns`).
- `ShownStaysInScope`: every request is of the scope of its epoch and of a document of that
  scope, and its answer is so too (`CallsWell`); the owner only adds versions (`OwnerGrows`).
- `HistoryStaysWhole`: pages continue one another because the view is busy while the next is
  read, so the oldest entry is still the one it was asked after (`RunsWell`, `Whole`).
- `ShownIsActedOn`: an action property; an armed restore is of what is shown (`ShownWell`),
  and an answer under way is not older than what is shown (`RunsWell`, `NotesWell`).

`LiveProofs`, from `LiveInv`:

- `SendsSettleOnce`: the ids of a send are in its session only, and only once it is made
  (`OnlyOwn`); its entries, the events told of it, its child and its timer fit its
  phase (`SendWell`). The host may tell of any entry it can name, and the id of an entry still
  to be written it cannot (`HostKnows`).
- `SocketsKeepScope`: a socket hears one workspace of its system in the order of the
  counter (`SocketsWell`), and after an adapter told it of a session's abort no adapter tells
  it a reply or an error of that session, unless the host opened the session again: until then
  the session is closed (`AbortsWell`), and `append` refuses before the adapter tells. It says
  nothing of what the host tells through `publishLive`, which asks for no status.
- `CacheIsCurrent`: a projection has the text of its stat or a later one (`CacheWell`).
- `StepsStayApart`: an action property; each action touches one system.

`BrowserProofs`, whose modules assume of scopes only that they are pairs of a system and a
workspace:

- `AnswersAreOfSelection`: the cache outlives selections, so the invariant says that each
  entry is the answer to its own key (`CacheWell`), and that a query of the present epoch
  is about the selected scope (`QueriesWell`).
- `BindingsStay`: an action property, from `NumbersWell`: the counter is ahead of every number
  given, those in the presets included, so a mount takes none of them.
- `InspectionIsOfInput`: a read that is still wanted is of the selected scope and the typed
  ids, in an open view (`InspectionsWell`), and there is one at most (`WantedIsOne`).
- `ViewsImplementScopedPanel`: the refinement `ImplementsScopedPanel` of the four views, one
  lemma a view. A read that is waited for is the newest one of an open view that shows nothing
  yet, its button locked (`DiagPanelInv`, `ActivityPanelInv`, `ModelPanelInv`, `ControlsInv`);
  a late one changes nothing. That what is shown is of the selected scope needs both checks of
  an answer, of its system by the client and of its workspace by the view (`AnswerOfScope`); the
  two owners of the activity answer apart, so of its reads also the parts are (`PartsOfScope`).
- `HistoryStaysFaithful`: pages are asked by their offset in a list that changes while it is
  read. A session that moves comes to the front and pushes others back, never forward: all
  that lies before the next offset is shown or has moved (`PagesWell`), and a page awaited is
  the one at that offset (`ReadsWell`). `MoveKeeps` and `PageKeeps` are the two steps that matter.
- `ChatsStay`: an action property. An opening whose answer is still wanted is of a pane that
  holds no chat and lets none begin, and is the only one there (`Wanted`, `OneOpening`).
- `ProjectionStaysExact`, from `StreamInv`: the markers a subscription has read are those before its place in the
  log, and it shows text exactly when they are as many as it requires (`StreamCounts`). As many
  are required as the log has, less the resume whose answer is on its way (`MarkersCounted`),
  unless a resume came that no answer told of: then fewer, never more.

**What the attempts corrected.** `PageIsOfSession` said of a pending request that it is of the
session shown while no activation is under way; the induction failed, and with a second rotation
TLC found the counterexample. It holds while the connected panel is shown, and `session` has two
rotations of the page's codes since. What a message continues was stated of all earlier runs of
a session; it held in an instance of two messages, its induction failed, and with three messages
TLC refuted it. Excepting the runs that were left, it held with three messages and failed its
induction again: with four, a message that the view was taken off begins to run behind a later
one, and a conversation opened then is taken for one that has ended because its newest run has
(`OpensBehind`); `chat_conversation` has that case since. The turns of the context were asked
for by their number; the induction needed to know which ones they are, and `ContextIsWhole` says
so now. What holds, `SessionContinues`, is in `ChatContinuation`, what does not stands in
section 6. That no reply or error of an aborted session is told held only while `publishLive` was
given one harmless event: it is a property of the adapters, until the host opens the session.
`RevokedForCause` held while the head and the body of a pairing's answer were one step; with two
TLC refuted it, and it says now what happens between them. `CanvasAssumption` says `MaxVersion >= 1`, as a document is created with a version,
and `LiveAssumption` that the ids the host gives its entries are not those of a send, to which the code
gives a time and a random number (`adapter.ts:78`, `runtime-adapters.ts:150-175`).

**What stays with TLC.** Liveness (`WaitsEnd`, `ExpiredEnds`, `EndingIsLearnt`, `SendSettles`)
is out of the prover's reach. `ReadsAgree` compares projections of transcripts computed by
`SelectSeq`: what it computes is an induction over data. The owner's list of sessions was
written with `SelectSeq` too; it is a function of the places now (`ToFront`), and takes the
same steps. The turns of a restored history were built row by row; `Restored` picks them from
the places of all questions and answers now (`Pick`), with the same result.

## 6. Divergences met, and what is not modelled

Two runs end in a violation: `chat_delayed_check` and `pane_export`. The models do what
the code does in the following places too, where a comment or the rest of the code
suggests otherwise and no property is stated:

- `conversation-run.ts:238`: `send` looks at the phase of its own view only. After `recover`
  of an ended run the session is continued while a later run of it is alive, and so it is when
  a conversation is opened while the owner has still to create the run of a message, or when
  such a run began behind the one that the owner lists as the newest; the comment at line 234
  speaks of a completed session. `SessionContinues` is about all runs but those left in these
  ways (`left` in `ChatContinuation`).
- `conversation-run.ts:243`: the history of a reopened conversation is cut to 18 000 bytes
  without the notice that other cuts give; `SessionContinues` is about messages sent without
  such a cut (`cut`).
- `conversation-run.ts:331`: after a resume whose answer was lost, the replay shows the text
  of the paused attempt, as the marker of the resume was not counted.
- `canonical-gateway-bridge.ts:250`: an event that meets a binding no longer approved
  cancels the stream, and the page is not told.
- `canvas-workspace.ts:508`: a note of a saved document that is being dragged when Scratch
  is selected, or the workspace changes, is dropped on what is shown then; on Scratch that
  creates a document, which the comment at line 243 reserves to a direct edit.
- `canvas-workspace.ts:201`: `open` and `edit` keep `pendingDelete`.
- `layout.ts:155`: `loadPreset` of a manager made later does not advance its counter; a
  mount may then take the number of a restored panel. `LayoutManager` is one manager, whose
  counter is ahead of its presets.
- `boot.js:77`: a chooser reopened while a request is under way drops the id its answer
  brings; the page then does not know of the request the host shows.
- `cache.ts:84`: `invalidateWorkspace` drops the keys that begin with the system and the
  workspace, and projections are stored under the system and `proj`: a change drops none of
  them, or those of all the system's workspaces when the workspace is itself named `proj`, where
  `subscriptions.ts:88-90` says that the watcher "invalidates only that workspace's cache
  entries". Nothing old is shown for it: a preview never serves a projection of the cache
  (`query-router.ts:223` discards it), and the keys hold the file's stat. `CachedIsCurrent` is
  about what is stored, and holds whatever is dropped.
- `boot.js:193`: between the cookie of a new pairing and the activation, a check of the session
  before may still take its view down; the activation then mounts the new one.
- `activity.ts:28`: `publishLive` asks whether the session exists and is of the workspace, not
  for its status: the host may tell a reply or an error of an aborted session.
- `sessions.ts:138`: `setStatus` opens a closed session; a send that was under way when it was
  aborted may then still enter its reply and tell it.
- `sessions.ts:217`: an entry whose id an older session of another workspace has too is listed by
  `run.list` and cannot be read by `run.get`.
- `runtime-adapters.ts:291`: a write to the child's stdin that throws ends the send; one that
  fails later is an error event of stdin, for which there is no listener. It is not modelled.
- `boot.js:209`: the late answer of a logout clears the cookie of a session paired since.
- `conversation-run.ts:728`: a control of a run drops the page of earlier turns being
  loaded and the offer of it (`cut` in `ChatPane`).

Not modelled:

- In the chat: the session id a caller may pass to send, receipts and error
  codes, the markers recover resets. In a pane: find, receipts, quoting, the size and place
  of panes, `destroy`. The 200 newest runs are shown at most; the model reads fewer.
- In the session and the host: origins, ports, asset routes, token formats,
  symbolic links, the close of the host, streams of native clients; approval
  compares the directory and answers at once, as the disk cannot change within a
  synchronous handler; the directory of a workspace in the effect lease; the tool an
  approval is of (`canonical-gateway-bridge.ts:499`).
- In the registry: names of directories (`isWithin` takes a child whose name begins with
  two dots for one outside, `registry.ts:74`), health and labels.
- In the page: status texts, the module it loads (a wait that succeeds or fails), visibility.
- In the Canvas: the content of documents, the checkboxes for groups, panels.
- In the views: what rows say; an answer is accepted or not, of a scope.
- In the client: the typed methods, which are calls of `query`; the clock (an entry ages or
  not).
- In the hub and the live sessions: the clock of the dedupe window (a repeated
  payload is dropped or delivered, either way), bodies and their limits, the order
  by time and the limit of `run.list`, the late error event of a child's stdin. A write
  changes the file's stat.
- The other queries of the router, read models, OS adapter, protocol and purpose bridge are
  sequential and stateless; the MC1 and MC2 scripts drive other repositories.

## 7. Plan

1. Done: the chat with its proofs and its panes, the registry with its proofs, the session
   and the page, the host, the Canvas, the hub and live sessions, the browser's views, client
   and layouts with their first proofs.
2. Done: the proofs of the session, the host, the page, the Canvas and the live sessions; of
   the chat `RunningIsWatched`, `VerifiedKept` and the refinement `TurnsAreVerified`; of the
   application `ImplementsScopedPanel`, `HistoryIsFaithful` and `ChatNeverReplaced`; of the
   stream `ProjectionExact`; of what a message continues `SessionContinues`; of the panes
   `TranscriptTrue`, `QuestionsInOrder` and `AnswerIsShown`.
3. Models that may follow: the close of the host and what it awaits; the connected
   launcher (`scripts/mc2/start-connected.ts`).
