---------------------------- MODULE LocalAppPage ----------------------------
(***************************************************************************)
(* The page of the local application (apps/web/local-app/boot.js) and the  *)
(* browser's cookie, against AppHost.                                      *)
(*                                                                         *)
(* Every fetch is a task: the host handles it at some later moment, the    *)
(* network may lose the request or the answer, and the rest of the         *)
(* function runs when the answer arrives, among clicks, ticks of the       *)
(* monitor and the answers to other tasks.  The counters sessionEpoch and  *)
(* chooserEpoch are only compared with their value at the start of a task: *)
(* a task says whether it is still of the current one.                     *)
(***************************************************************************)
EXTENDS AppHost, FiniteSets

CONSTANTS
  NoScope,   \* no view is mounted
  MaxTasks   \* bound: the tasks when a click starts one, no two of them equal

ASSUME PageAssumption == NoScope \notin HostScopes /\ MaxTasks \in Nat

VARIABLES
  cookie,        \* the secret in the browser's cookie
  mounted,       \* the scope of chatApp, which is selectedWorkspace
  connected,     \* the connected panel is shown, not the pairing panel
  monitor,       \* activeMonitor is set
  checking,
  submitting,    \* the pairing button is disabled
  chooser,       \* the workspace chooser, [open, choices, off]: choices that
                 \* are enabled, requestButton.disabled
  pendingId,     \* 0 for null
  tasks,
  pendingOf,     \* history: the cookie with which that request was made
  out,           \* history: logged out, and no activation begun since
  unopened       \* history: the cookie is of a pairing, no activation begun since

page == <<cookie, mounted, connected, monitor, checking, submitting, chooser,
          pendingId, tasks, pendingOf, out, unopened>>
pagevars == <<apphost, page>>
panels == <<mounted, connected, monitor>>
waiting == <<pendingId, pendingOf>>
choosing == <<chooser, waiting>>

NoCookie == MaxHostSecret + 1   \* also a code the host never shows
PageIds == 0..MaxHostAsks
ClosedChooser == [open |-> FALSE, choices |-> {}, off |-> FALSE]

\* import is the wait for chat.js, paired the one for the body of the answer to
\* a pairing.
Ops == {"activate", "import", "pair", "paired", "verify", "poll", "list", "ask", "logout"}
Sent == [is |-> "sent", scope |-> NoScope, id |-> 0, state |-> "none"]
Answer == [is : {"sent", "ok", "no", "lost"}, scope : HostScopes \cup {NoScope},
           id : 0..NoCookie \cup PageIds, state : {"none", "pending", "denied", "expired"}]
Task == [op : Ops, cookie : 0..NoCookie, scope : HostScopes \cup {NoScope},
         id : 0..NoCookie \cup PageIds, target : HostScopes \cup {NoScope},
         session : BOOLEAN, chooser : BOOLEAN, ans : Answer]

PageTypeOK ==
  /\ AppHostTypeOK
  /\ cookie \in 0..NoCookie /\ mounted \in HostScopes \cup {NoScope}
  /\ connected \in BOOLEAN /\ monitor \in BOOLEAN /\ checking \in BOOLEAN
  /\ submitting \in BOOLEAN /\ out \in BOOLEAN /\ unopened \in BOOLEAN
  /\ pendingId \in PageIds /\ pendingOf \in 0..NoCookie
  /\ chooser \in [open : BOOLEAN, choices : SUBSET HostScopes, off : BOOLEAN]
  /\ tasks \in SUBSET Task

----------------------------------------------------------------------------
(* Helpers *)

NewTask(op, k, id, target) ==
  [op |-> op, cookie |-> k, scope |-> mounted, id |-> id, target |-> target,
   session |-> TRUE, chooser |-> TRUE, ans |-> Sent]

\* sessionEpoch++, chooserEpoch++, for the functions that compare them.
OldSession(s) ==
  {[t EXCEPT !.session = @ /\ t.op \notin {"activate", "import", "verify"}] : t \in s}
OldChooser(s) == {[t EXCEPT !.chooser = @ /\ t.op \notin {"list", "ask", "poll"}] : t \in s}

Starts(s, t) == Cardinality(s) < MaxTasks /\ t \notin s /\ tasks' = s \cup {t}

NotPending == pendingId' = 0 /\ pendingOf' = NoCookie
ResetChooser == chooser' = ClosedChooser /\ NotPending
Unmount ==
  /\ mounted' = NoScope /\ connected' = FALSE /\ monitor' = FALSE
  /\ ResetChooser
KeepView == UNCHANGED <<panels, choosing>>

\* revokeBrowserView() at the end of the task t.
RevokeView(t) ==
  /\ Unmount /\ tasks' = OldChooser(OldSession(tasks \ {t}))

Mounted == mounted # NoScope
AnySession(t) == TRUE
Current(t) == t.session
Leaves(t) == tasks' = tasks \ {t}

----------------------------------------------------------------------------
(* The user, and the monitor *)

\* The submitted pairing form, with the code the host shows or a wrong one.
SubmitPair(k) ==
  /\ ~connected /\ ~submitting
  /\ submitting' = TRUE
  /\ Starts(tasks, NewTask("pair", cookie, k, NoScope))
  /\ UNCHANGED <<apphost, cookie, panels, checking, choosing, out, unopened>>

OpenChooser ==
  /\ Mounted /\ connected /\ ~chooser.open
  /\ chooser' = [open |-> TRUE, choices |-> {}, off |-> TRUE]
  /\ Starts(OldChooser(tasks), NewTask("list", cookie, 0, NoScope))
  /\ UNCHANGED <<apphost, cookie, panels, checking, submitting, waiting, out, unopened>>

HideChooser ==
  /\ chooser.open /\ chooser' = [chooser EXCEPT !.open = FALSE]
  /\ UNCHANGED <<apphost, cookie, panels, checking, submitting, waiting, tasks, out, unopened>>

\* A disabled button does not submit its form.
SubmitRequest(w) ==
  /\ Mounted /\ chooser.open /\ ~chooser.off
  /\ pendingId = 0 /\ w \in chooser.choices
  /\ chooser' = [chooser EXCEPT !.off = TRUE]
  /\ Starts(tasks, NewTask("ask", cookie, 0, w))
  /\ UNCHANGED <<apphost, cookie, panels, checking, submitting, waiting, out, unopened>>

\* A tick of the monitor, the focus, the page made visible.
VerifyHostSession ==
  /\ Mounted /\ ~checking
  /\ checking' = TRUE
  /\ tasks' = tasks \cup {NewTask("verify", cookie, 0, NoScope)}
  /\ UNCHANGED <<apphost, cookie, panels, submitting, choosing, out, unopened>>

\* The view goes before the host has answered.
ClickLogout ==
  /\ connected
  /\ Unmount
  /\ tasks' = OldChooser(OldSession(tasks)) \cup {NewTask("logout", cookie, 0, NoScope)}
  /\ out' = TRUE
  /\ UNCHANGED <<apphost, cookie, checking, submitting, unopened>>

Activating(k, chain) == [NewTask("activate", k, chain, NoScope) EXCEPT !.scope = NoScope]

Reload ==
  /\ Unmount
  /\ checking' = FALSE /\ submitting' = FALSE /\ out' = FALSE /\ unopened' = FALSE
  /\ tasks' = {Activating(cookie, 0)}
  /\ UNCHANGED <<apphost, cookie>>

----------------------------------------------------------------------------
(* The host handles a task; the network loses one *)

Known(t) == hostLive /\ t.cookie = hostSecret

\* The answer to t, when the host does what the disjunct says.
Replies(t, is, scope, id, state) ==
  tasks' = (tasks \ {t}) \cup
           {[t EXCEPT !.ans = [is |-> is, scope |-> scope, id |-> id, state |-> state]]}
Ok(t, scope, id, state) == Replies(t, "ok", scope, id, state)
Refuses(t) == Replies(t, "no", NoScope, 0, "none")

Handles(t) ==
  /\ t.ans = Sent /\ t.op # "import"
  /\ \/ /\ ~Known(t) /\ t.op # "pair"
        /\ Refuses(t) /\ UNCHANGED apphost
     \/ /\ t.op \in {"activate", "verify"} /\ Known(t)
        /\ Ok(t, hostScope, 0, "none") /\ UNCHANGED apphost
     \/ /\ t.op = "poll" /\ Known(t)
        /\ Ok(t, NoScope, hostRequest.id, hostRequest.state) /\ UNCHANGED apphost
     \/ /\ t.op = "list" /\ Known(t)
        /\ Ok(t, NoScope, 0, "none") \/ Refuses(t)
        /\ UNCHANGED apphost
     \/ /\ t.op = "ask" /\ Known(t)
        /\ \/ /\ t.target # hostScope /\ HostIsAsked
              /\ IF hostRequest' = NoHostRequest THEN Refuses(t)
                 ELSE Ok(t, NoScope, hostRequest'.id, "pending")
           \/ Refuses(t) /\ UNCHANGED apphost
     \/ /\ t.op = "pair"
        /\ \/ /\ t.id = hostSecret /\ HostPairs
              /\ Ok(t, hostScope, hostSecret, "none")
           \/ Refuses(t) /\ UNCHANGED apphost
     \/ /\ t.op = "logout" /\ Known(t)
        /\ HostEnds /\ hostRequest' = NoHostRequest
        /\ Ok(t, NoScope, 0, "none")
  /\ UNCHANGED <<cookie, panels, checking, submitting, choosing, out, unopened>>

Loses(t) ==
  /\ t.ans.is # "lost" /\ t.op # "import"
  /\ Replies(t, "lost", NoScope, 0, "none")
  /\ UNCHANGED <<apphost, cookie, panels, checking, submitting, choosing, out, unopened>>

----------------------------------------------------------------------------
(* The rest of each function, when its answer is there *)

Answered(t, op) == t.op = op /\ t.ans # Sent
Good(t) == t.ans.is = "ok"

\* The head of the answer to a pairing sets the cookie; asJson still waits for
\* its body.
PairAnswered(t) ==
  /\ Answered(t, "pair") /\ Good(t)
  /\ cookie' = t.ans.id /\ unopened' = TRUE
  /\ tasks' = (tasks \ {t}) \cup {[t EXCEPT !.op = "paired"]}
  /\ KeepView /\ UNCHANGED <<apphost, checking, submitting, out>>

\* With the body activate() begins; without it, or refused, the pairing ends.
PairSettles(t) ==
  /\ \/ /\ t.op = "paired" /\ Good(t)
        /\ tasks' = OldSession(tasks \ {t}) \cup {Activating(cookie, 1)}
        /\ out' = FALSE /\ unopened' = FALSE /\ UNCHANGED submitting
     \/ /\ t.op \in {"pair", "paired"} /\ t.ans # Sent /\ ~Good(t)
        /\ Leaves(t) /\ submitting' = FALSE /\ UNCHANGED <<out, unopened>>
  /\ KeepView /\ UNCHANGED <<apphost, cookie, checking>>

\* The pairing button is enabled when the activation it waits for is over.
ChainEnds(t) == submitting' = (submitting /\ t.id = 0)

\* activate(), after its fetch: chat.js is loaded only under a session.
ActivateSettles(t) ==
  /\ Answered(t, "activate")
  /\ \/ /\ Current(t) /\ Good(t)
        /\ tasks' = (tasks \ {t}) \cup {[t EXCEPT !.op = "import", !.scope = t.ans.scope]}
        /\ UNCHANGED <<submitting, connected>>
     \/ /\ ~(Current(t) /\ Good(t))
        /\ connected' = (connected /\ ~(Current(t) /\ t.ans.is = "no"))
        /\ Leaves(t) /\ ChainEnds(t)
  /\ UNCHANGED <<apphost, cookie, mounted, monitor, checking, choosing, out, unopened>>

\* activate(), after the import: a view replaces the one before it.
ImportEnds(t) ==
  /\ t.op = "import" /\ ChainEnds(t)
  /\ \/ /\ Current(t)
        /\ mounted' = t.scope /\ connected' = TRUE /\ monitor' = TRUE
        /\ ResetChooser /\ tasks' = OldChooser(tasks \ {t})
     \/ Leaves(t) /\ KeepView
  /\ UNCHANGED <<apphost, cookie, checking, out, unopened>>

\* verifyHostSession(), then checkPending() while checking stays set.
StillChecking == UNCHANGED checking
CheckEnds == checking' = FALSE
VerifySettles(t) ==
  /\ Answered(t, "verify")
  /\ LET mine == Current(t) /\ Mounted
         same == Good(t) /\ t.ans.scope = mounted
         poll == NewTask("poll", cookie, pendingId, NoScope)
     IN \/ /\ mine /\ ~same
           /\ RevokeView(t) /\ CheckEnds
        \/ /\ mine /\ same /\ pendingId # 0
           /\ tasks' = (tasks \ {t}) \cup {poll}
           /\ KeepView /\ UNCHANGED checking
        \/ /\ ~mine \/ (same /\ pendingId = 0)
           /\ Leaves(t) /\ CheckEnds /\ KeepView
  /\ UNCHANGED <<apphost, cookie, submitting, out, unopened>>

\* checkPending(), after its fetch.
AnyChooser(t) == TRUE
CurrentChooser(t) == t.chooser
PollSettles(t) ==
  /\ Answered(t, "poll") /\ Leaves(t) /\ CheckEnds
  /\ IF /\ Good(t) /\ Mounted /\ CurrentChooser(t) /\ t.id = pendingId
        /\ t.ans.id # pendingId \/ t.ans.state \in {"denied", "expired"}
     THEN NotPending /\ chooser' = [chooser EXCEPT !.off = FALSE]
     ELSE UNCHANGED choosing
  /\ UNCHANGED <<apphost, cookie, panels, submitting, out, unopened>>

\* openChooser(), after its fetch; every other workspace is offered.
ListSettles(t) ==
  /\ Answered(t, "list") /\ Leaves(t)
  /\ LET others == HostScopes \ {mounted} IN
     IF Good(t) /\ Mounted /\ t.chooser /\ t.scope = mounted /\ chooser.open
     THEN chooser' = [open |-> TRUE, choices |-> others,
                      off |-> others = {} \/ pendingId # 0]
     ELSE UNCHANGED chooser
  /\ UNCHANGED <<apphost, cookie, panels, checking, submitting, waiting, out, unopened>>

\* The submitted request, after its fetch: of an earlier chooser it is
\* dropped, the id it brings included.
AskSettles(t) ==
  /\ Answered(t, "ask") /\ Leaves(t)
  /\ IF ~(Mounted /\ CurrentChooser(t) /\ t.scope = mounted) THEN UNCHANGED choosing
     ELSE IF Good(t) THEN pendingId' = t.ans.id /\ pendingOf' = t.cookie /\ UNCHANGED chooser
     ELSE chooser' = [chooser EXCEPT !.off = FALSE] /\ UNCHANGED waiting
  /\ UNCHANGED <<apphost, cookie, panels, checking, submitting, out, unopened>>

\* The answer to a logout clears the cookie, whichever it is by then.
LogoutSettles(t) ==
  /\ Answered(t, "logout") /\ Leaves(t)
  /\ cookie' = IF Good(t) THEN NoCookie ELSE cookie
  /\ KeepView /\ UNCHANGED <<apphost, checking, submitting, out, unopened>>

Settles(t) ==
  \/ PairAnswered(t) \/ PairSettles(t) \/ ActivateSettles(t) \/ ImportEnds(t) \/ VerifySettles(t)
  \/ PollSettles(t) \/ ListSettles(t) \/ AskSettles(t) \/ LogoutSettles(t)

----------------------------------------------------------------------------
PageInit ==
  /\ AppHostInit
  /\ cookie = NoCookie /\ mounted = NoScope /\ connected = FALSE /\ monitor = FALSE
  /\ checking = FALSE /\ submitting = FALSE
  /\ chooser = ClosedChooser /\ pendingId = 0 /\ pendingOf = NoCookie
  /\ out = FALSE /\ unopened = FALSE
  /\ tasks = {[op |-> "activate", cookie |-> NoCookie, scope |-> NoScope, id |-> 0,
               target |-> NoScope, session |-> TRUE, chooser |-> TRUE, ans |-> Sent]}

UserOfPage ==
  \/ \E k \in {hostSecret, NoCookie} : SubmitPair(k)
  \/ OpenChooser \/ HideChooser \/ ClickLogout \/ Reload
  \/ \E w \in HostScopes : SubmitRequest(w)

\* The host ends a session, answers a request or selects a workspace.
HostOfPage ==
  /\ \/ HostEnds
     \/ \E state \in {"denied", "expired"} : HostLeaves(state)
     \/ \E w \in HostScopes : HostSelects(w)
  /\ UNCHANGED page

PageNext ==
  \/ UserOfPage \/ VerifyHostSession \/ HostOfPage
  \/ \E t \in tasks : Handles(t) \/ Loses(t) \/ Settles(t)

PageSpec == PageInit /\ [][PageNext]_pagevars

\* The interval of the monitor runs, the host handles a check, its function
\* goes on, and a poll made again and again is answered at last, with the
\* chooser left alone meanwhile.
Goes(op) == \E t \in tasks : t.op = op /\ (Handles(t) \/ Settles(t))
PollGoes(A(_)) == \E t \in tasks : t.op = "poll" /\ t.ans.is # "lost" /\ t.chooser /\ A(t)
PageFairness ==
  /\ WF_pagevars(VerifyHostSession) /\ WF_pagevars(Goes("verify")) /\ WF_pagevars(Goes("poll"))
  /\ SF_pagevars(PollGoes(Handles)) /\ SF_pagevars(PollGoes(Settles))
FairPageSpec == PageSpec /\ PageFairness

----------------------------------------------------------------------------
(* What must hold of it *)

\* The host's session is the one the view and the cookie are of.
SessionOfView == hostLive /\ hostSecret = cookie /\ hostScope = mounted

\* A view that is shown is one the monitor watches, and after a logout none is
\* mounted again until an activation begins: the answers of the session before
\* do not bring it back ("Immediately stop UI subscriptions", 203; the epoch
\* checks of activate, 157-167).  The request a page waits for is one the host
\* gave an id, in the session whose workspace the connected panel shows: an
\* answer that arrives after another pairing, also of the same workspace, is not
\* taken for a request of its own (82, 100-104).
PageIsOfSession ==
  /\ PageTypeOK
  /\ Mounted <=> monitor
  /\ connected => Mounted
  /\ out => ~Mounted
  /\ pendingId # 0 => /\ Mounted /\ pendingId <= hostAsked
                      /\ connected /\ SessionOfView => pendingOf = hostSecret

\* A view goes by itself only when its session has, or when a call of its own
\* was lost: "An obsolete check must not disconnect a newly paired browser"
\* (139-140).  While a pairing has set the cookie and its activation has not
\* begun (193-198), the view is still of the session before, and its check may
\* take it down.
RevokedForCause ==
  [][Mounted /\ mounted' = NoScope
       => \/ ~SessionOfView \/ unopened \/ out' # out
          \/ \E t \in tasks \ tasks' : t.op = "verify" /\ t.session /\ t.ans.is = "lost"
          \/ Reload]_pagevars

\* The host no longer keeps the request, or has answered it.
HostAnswered(id) == hostRequest.id # id \/ hostRequest.state \in {"denied", "expired"}

\* The page learns by itself that its session has ended or changed, and that
\* its request was answered (91-107, 121-143).
EndingIsLearnt ==
  /\ (Mounted /\ ~SessionOfView) ~> (~Mounted \/ SessionOfView)
  /\ (pendingId # 0 /\ HostAnswered(pendingId)) ~> ~(pendingId # 0 /\ HostAnswered(pendingId))
=============================================================================
