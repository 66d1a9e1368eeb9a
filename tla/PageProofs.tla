----------------------------- MODULE PageProofs -----------------------------
(***************************************************************************)
(* What LocalAppPage says of the page holds for every set of workspaces    *)
(* and every bound: PageIsOfSession, RevokedForCause.                      *)
(*                                                                         *)
(* PageInv is the inductive invariant.  Beside the view it speaks of every *)
(* task that is under way: of which session its cookie and its answer are  *)
(* (TaskWell), which tasks are of the current epochs (StaysOut, ChecksWell)*)
(* and that no later code can become the cookie while the page waits for a *)
(* request of its own (LatestWell).                                        *)
(***************************************************************************)
EXTENDS LocalAppPage, TLAPS

Activation == {"activate", "import"}

\* A cookie is of a code that was redeemed.
KnownCookie(k) == k = NoCookie \/ (k <= hostSecret /\ (k = hostSecret => hostUsed))

ViewWell ==
  /\ Mounted <=> monitor
  /\ connected => Mounted
  /\ out => ~Mounted
  /\ pendingId # 0 => Mounted /\ pendingOf <= hostSecret /\ pendingId <= hostAsked

\* A task's cookie and code are ones the host gave, and its answer is one the
\* host gave to them: what a check learnt stays true of that session.
TaskWell(t) ==
  /\ KnownCookie(t.cookie)
  /\ t.ans.is = "sent" => t.ans = Sent
  /\ t.op = "import" => t.scope \in HostScopes
  /\ t.op = "activate" /\ Good(t) => t.ans.scope \in HostScopes
  /\ t.op = "pair" => t.id = NoCookie \/ t.id <= hostSecret
  /\ t.op = "pair" /\ Good(t) => t.ans.id = t.id /\ KnownCookie(t.id)
  /\ t.op = "ask" /\ Good(t) => t.cookie <= hostSecret /\ t.ans.id <= hostAsked
  /\ t.op = "verify" /\ t.ans.is = "no" => ~(hostLive /\ hostSecret = t.cookie)
  /\ t.op = "verify" /\ Good(t) =>
       t.cookie <= hostSecret /\ (hostSecret = t.cookie => hostScope = t.ans.scope)

TasksWell == \A t \in tasks : TaskWell(t)

\* After a logout no task that could mount a view is of the current session.
StaysOut == out => \A t \in tasks : t.op \in Activation => ~t.session

\* The cookie of a check of the current session is still the browser's, or
\* the browser has none; or it has that of a pairing whose activation is to come.
ChecksWell ==
  ~unopened => \A t \in tasks : t.op = "verify" /\ t.session => cookie \in {t.cookie, NoCookie}

\* No code after k is the cookie, or can become it.
Latest(k) ==
  /\ cookie = NoCookie \/ cookie <= k
  /\ \A p \in tasks : p.op = "pair" => p.id = NoCookie \/ p.id <= k

LatestWell ==
  connected =>
    /\ \A a \in tasks : a.op = "ask" /\ a.chooser /\ Good(a) => Latest(a.cookie)
    /\ pendingId # 0 => Latest(pendingOf)

PageInv ==
  /\ PageTypeOK /\ ViewWell /\ KnownCookie(cookie)
  /\ TasksWell /\ StaysOut /\ ChecksWell /\ LatestWell

----------------------------------------------------------------------------
(* Tasks, and the epochs they are of *)

Scoped == HostScopes \cup {NoScope}
Numbers == (0..NoCookie) \cup PageIds

\* t is u, or u of an earlier epoch.
Aged(u, t) ==
  /\ t \in Task
  /\ t.op = u.op /\ t.cookie = u.cookie /\ t.scope = u.scope /\ t.id = u.id
  /\ t.target = u.target /\ t.ans = u.ans
  /\ t.session => u.session
  /\ t.chooser => u.chooser

\* A task is aged of itself.
LEMMA AgedSelf == \A t \in Task : Aged(t, t)
BY DEF Aged

\* A task whose session or chooser flag is changed is a task.
LEMMA AgedFields ==
  ASSUME NEW u \in Task, NEW b \in BOOLEAN
  PROVE  /\ (b => u.session) => Aged(u, [u EXCEPT !.session = b])
         /\ (b => u.chooser) => Aged(u, [u EXCEPT !.chooser = b])
         /\ [u EXCEPT !.session = b].session = b
         /\ [u EXCEPT !.chooser = b].chooser = b
<1>1. /\ u.op \in Ops /\ u.cookie \in 0..NoCookie /\ u.scope \in Scoped
      /\ u.id \in Numbers /\ u.target \in Scoped /\ u.session \in BOOLEAN
      /\ u.chooser \in BOOLEAN /\ u.ans \in Answer
  BY DEF Task, Scoped, Numbers
<1>2. [u EXCEPT !.session = b] \in Task /\ [u EXCEPT !.chooser = b] \in Task
  BY <1>1 DEF Task, Scoped, Numbers
<1>3. QED BY <1>1, <1>2 DEF Aged, Task

\* sessionEpoch++: activations and checks under way are of the session before.
LEMMA OldSessionAges ==
  ASSUME NEW s, s \subseteq Task, NEW t \in OldSession(s)
  PROVE  /\ \E u \in s : Aged(u, t)
         /\ t.op \in {"activate", "import", "verify"} => ~t.session
<1>1. PICK u \in s : t = [u EXCEPT !.session = @ /\ u.op \notin {"activate", "import", "verify"}]
  BY DEF OldSession
<1> DEFINE b == u.session /\ u.op \notin {"activate", "import", "verify"}
<1>2. u \in Task /\ b \in BOOLEAN /\ (b => u.session) BY DEF Task
<1>3. t = [u EXCEPT !.session = b] BY <1>1, <1>2
<1>4. Aged(u, t) /\ t.session = b BY <1>2, <1>3, AgedFields
<1>5. QED BY <1>4 DEF Aged

\* chooserEpoch++: lists, requests and polls are of the chooser before.
LEMMA OldChooserAges ==
  ASSUME NEW s, s \subseteq Task, NEW t \in OldChooser(s)
  PROVE  /\ \E u \in s : Aged(u, t)
         /\ t.op \in {"list", "ask", "poll"} => ~t.chooser
<1>1. PICK u \in s : t = [u EXCEPT !.chooser = @ /\ u.op \notin {"list", "ask", "poll"}]
  BY DEF OldChooser
<1> DEFINE b == u.chooser /\ u.op \notin {"list", "ask", "poll"}
<1>2. u \in Task /\ b \in BOOLEAN /\ (b => u.chooser) BY DEF Task
<1>3. t = [u EXCEPT !.chooser = b] BY <1>1, <1>2
<1>4. Aged(u, t) /\ t.chooser = b BY <1>2, <1>3, AgedFields
<1>5. QED BY <1>4 DEF Aged

\* Both at once, as a view that goes does.
LEMMA OldBothAge ==
  ASSUME NEW s, s \subseteq Task, NEW t \in OldChooser(OldSession(s))
  PROVE  /\ \E u \in s : Aged(u, t)
         /\ t.op \in {"activate", "import", "verify"} => ~t.session
         /\ t.op \in {"list", "ask", "poll"} => ~t.chooser
<1>1. OldSession(s) \subseteq Task BY OldSessionAges DEF Aged
<1>2. PICK v \in OldSession(s) : Aged(v, t) BY <1>1, OldChooserAges
<1>3. PICK u \in s : Aged(u, v) BY OldSessionAges
<1>4. v.op \in {"activate", "import", "verify"} => ~v.session BY OldSessionAges
<1>5. t.op \in {"list", "ask", "poll"} => ~t.chooser BY <1>1, OldChooserAges
<1>6. QED BY <1>2, <1>3, <1>4, <1>5 DEF Aged

\* What a click starts, and what the host answers, is a task.
LEMMA NewTaskType ==
  ASSUME NEW op \in Ops, NEW k \in 0..NoCookie, NEW id \in Numbers, NEW w \in Scoped,
         mounted \in Scoped
  PROVE  /\ NewTask(op, k, id, w) \in Task
         /\ NewTask(op, k, id, w).ans.is = "sent"
<1>1. Sent \in Answer BY AppHostAssumption DEF Sent, Answer, NoCookie, PageIds
<1>2. QED BY <1>1 DEF NewTask, Task, Scoped, Numbers, Sent

LEMMA ActivatingType ==
  ASSUME NEW k \in 0..NoCookie, NEW chain \in {0, 1}, mounted \in Scoped
  PROVE  LET t == Activating(k, chain) IN
         t \in Task /\ t.op = "activate" /\ t.cookie = k /\ t.ans = Sent /\ t.ans.is = "sent"
<1>1. Sent \in Answer BY AppHostAssumption DEF Sent, Answer, NoCookie, PageIds
<1>2. chain \in 0..NoCookie BY PageAssumption, AppHostAssumption DEF NoCookie
<1>3. QED BY <1>1, <1>2 DEF Activating, NewTask, Task, Scoped, Numbers, Sent, Ops

\* r is t with an answer.
Answers(t, r) ==
  /\ r \in Task /\ r.ans.is # "sent"
  /\ r.op = t.op /\ r.cookie = t.cookie /\ r.scope = t.scope /\ r.id = t.id
  /\ r.session = t.session /\ r.chooser = t.chooser

LEMMA AnsweredType ==
  ASSUME NEW t \in Task, NEW is \in {"ok", "no", "lost"}, NEW w \in Scoped,
         NEW id \in Numbers, NEW state \in {"none", "pending", "denied", "expired"}, NEW r,
         r = [t EXCEPT !.ans = [is |-> is, scope |-> w, id |-> id, state |-> state]]
  PROVE  Answers(t, r) /\ r.ans.is = is /\ r.ans.scope = w /\ r.ans.id = id
<1>1. PICK a : a = [is |-> is, scope |-> w, id |-> id, state |-> state] OBVIOUS
<1>2. a \in Answer /\ a.is = is /\ a.scope = w /\ a.id = id
  BY <1>1 DEF Answer, Scoped, Numbers
<1>3. r = [t EXCEPT !.ans = a] BY <1>1
<1>4. QED BY <1>2, <1>3 DEF Task, Answers

----------------------------------------------------------------------------
(* What a step of the host leaves true *)

\* The host keeps its session or loses it for good, or has a later code.
HostMoves ==
  /\ AppHostTypeOK'
  /\ hostAsked <= hostAsked'
  /\ \/ /\ hostSecret' = hostSecret /\ hostScope' = hostScope
        /\ hostUsed => hostUsed'
        /\ hostUsed /\ ~hostLive => ~hostLive'
     \/ hostSecret < hostSecret'

\* Whatever the host does moves it so, and keeps its types.
LEMMA HostNextMoves ==
  ASSUME AppHostTypeOK, [AppHostNext]_apphost
  PROVE  HostMoves
<1> USE AppHostAssumption DEF AppHostTypeOK, HostMoves
<1>1. CASE HostPairs BY <1>1 DEF HostPairs
<1> DEFINE R == [id : 0..MaxHostAsks, state : {"none", "pending", "denied", "expired"}]
<1>n. NoHostRequest \in R /\ hostRequest \in R BY DEF NoHostRequest
<1>2. CASE HostEnds
  <2>1. hostRequest' \in R BY <1>2, <1>n DEF HostEnds
  <2>2. AppHostTypeOK' BY <1>2, <2>1 DEF HostEnds
  <2>3. hostAsked <= hostAsked' BY <1>2 DEF HostEnds
  <2>4. QED BY <1>2, <2>2, <2>3 DEF HostEnds
<1>3. CASE HostIsAsked
  <2>1. hostAsked' = hostAsked + 1 /\ hostAsked' \in 0..MaxHostAsks BY <1>3 DEF HostIsAsked
  <2>2. hostRequest' \in R
    BY <1>3, <1>n, <2>1 DEF HostIsAsked
  <2>3. QED BY <1>3, <2>1, <2>2 DEF HostIsAsked
<1>4. ASSUME NEW state \in {"denied", "expired"}, HostLeaves(state) PROVE HostMoves
  BY <1>4 DEF HostLeaves
<1>5. ASSUME NEW w \in HostScopes, HostSelects(w) PROVE HostMoves
  <2>1. hostRequest' \in R /\ hostScope' \in HostScopes BY <1>5, <1>n DEF HostSelects
  <2>2. /\ hostSecret < hostSecret' /\ hostSecret' \in 0..MaxHostSecret
        /\ hostUsed' = FALSE /\ hostLive' = FALSE /\ hostAsked' = hostAsked
    BY <1>5 DEF HostSelects
  <2>3. AppHostTypeOK' BY <2>1, <2>2
  <2>4. hostAsked <= hostAsked' BY <2>2
  <2>5. QED BY <2>2, <2>3, <2>4
<1>6. CASE UNCHANGED apphost BY <1>6 DEF apphost
<1>7. QED BY <1>1, <1>2, <1>3, <1>4, <1>5, <1>6 DEF AppHostNext

LEMMA HostStays == ASSUME AppHostTypeOK, UNCHANGED apphost PROVE HostMoves
BY HostNextMoves

\* A cookie the host gave stays one.
LEMMA KnownStays ==
  ASSUME AppHostTypeOK, HostMoves, NEW k \in 0..NoCookie, KnownCookie(k)
  PROVE  KnownCookie(k)'
BY AppHostAssumption DEF AppHostTypeOK, HostMoves, KnownCookie, NoCookie

\* What is well of a task stays well of it, while the host moves and the page
\* enters another epoch.
LEMMA TaskStaysWell ==
  ASSUME AppHostTypeOK, HostMoves, NEW u \in Task, NEW t, Aged(u, t), TaskWell(u)
  PROVE  TaskWell(t)'
<1> USE AppHostAssumption
<1>1. /\ u.cookie \in 0..NoCookie /\ u.id \in Numbers /\ u.ans.id \in Numbers
      /\ Numbers \subseteq Nat /\ MaxHostSecret \in Nat /\ NoCookie \in Nat
      /\ u.cookie \in Nat /\ u.id \in Nat /\ u.ans.id \in Nat
  BY DEF Task, Answer, Numbers, NoCookie, PageIds
<1>2. /\ t.op = u.op /\ t.cookie = u.cookie /\ t.scope = u.scope /\ t.id = u.id /\ t.ans = u.ans
  BY DEF Aged
<1>n. /\ hostSecret \in Nat /\ hostSecret' \in Nat /\ hostSecret <= hostSecret'
      /\ hostAsked \in Nat /\ hostAsked' \in Nat /\ hostAsked <= hostAsked'
      /\ hostSecret' <= MaxHostSecret
  BY DEF HostMoves, AppHostTypeOK
<1>3. KnownCookie(t.cookie)' BY <1>1, <1>2, KnownStays DEF TaskWell
<1>4. /\ t.ans.is = "sent" => t.ans = Sent
      /\ t.op = "import" => t.scope \in HostScopes
      /\ t.op = "activate" /\ Good(t) => t.ans.scope \in HostScopes
  BY <1>2 DEF TaskWell, Good
<1>5. t.op = "pair" => t.id = NoCookie \/ t.id <= hostSecret'
  BY <1>1, <1>2, <1>n DEF TaskWell
<1>6. t.op = "pair" /\ Good(t) => t.ans.id = t.id /\ KnownCookie(t.id)'
  <2>1. SUFFICES ASSUME t.op = "pair", Good(t) PROVE t.ans.id = t.id /\ KnownCookie(t.id)'
    OBVIOUS
  <2>2. u.ans.id = u.id /\ KnownCookie(u.id) BY <1>2, <2>1 DEF TaskWell, Good
  <2>3. KnownCookie(u.id)'
    BY <1>1, <1>n, <2>2 DEF HostMoves, KnownCookie
  <2>4. QED BY <1>2, <2>2, <2>3
<1>7. t.op = "ask" /\ Good(t) => t.cookie <= hostSecret' /\ t.ans.id <= hostAsked'
  BY <1>1, <1>2, <1>n DEF TaskWell, Good
<1>8. t.op = "verify" /\ t.ans.is = "no" => ~(hostLive' /\ hostSecret' = t.cookie)
  <2>1. KnownCookie(u.cookie) BY DEF TaskWell
  <2>2. QED BY <1>1, <1>2, <2>1 DEF TaskWell, HostMoves, AppHostTypeOK, KnownCookie, NoCookie
<1>9. t.op = "verify" /\ Good(t) =>
        t.cookie <= hostSecret' /\ (hostSecret' = t.cookie => hostScope' = t.ans.scope)
  BY <1>1, <1>2 DEF TaskWell, Good, HostMoves, AppHostTypeOK
<1>10. QED BY <1>3, <1>4, <1>5, <1>6, <1>7, <1>8, <1>9 DEF TaskWell, Good

----------------------------------------------------------------------------
(* What a step of the page must show, and what then holds after it *)

\* The tasks after a step are those before it, of this epoch or aged, and the
\* tasks of S.
Carries(S) == \A t \in tasks' : t \in S \/ \E u \in tasks : Aged(u, t)

LEMMA TasksStayWell ==
  ASSUME PageInv, HostMoves, NEW S, Carries(S), \A t \in S : t \in Task /\ TaskWell(t)'
  PROVE  (tasks \in SUBSET Task /\ TasksWell)'
<1>1. ASSUME NEW t \in tasks' PROVE t \in Task /\ TaskWell(t)'
  <2>1. CASE t \in S BY <2>1
  <2>2. ASSUME NEW u \in tasks, Aged(u, t) PROVE t \in Task /\ TaskWell(t)'
    <3>1. u \in Task /\ TaskWell(u) /\ AppHostTypeOK BY DEF PageInv, PageTypeOK, TasksWell
    <3>2. QED BY <2>2, <3>1, TaskStaysWell DEF Aged
  <2>3. QED BY <2>1, <2>2 DEF Carries
<1>2. QED BY <1>1 DEF TasksWell

LEMMA OutStays ==
  ASSUME PageInv, NEW S, Carries(S),
         out' => \A t \in S : t.op \in Activation => ~t.session,
         out' => out \/ \A t \in tasks' : t.op \in Activation => ~t.session
  PROVE  StaysOut'
<1>1. SUFFICES ASSUME out', out, NEW t \in tasks', t.op \in Activation PROVE ~t.session
  BY DEF StaysOut
<1>2. CASE t \in S BY <1>1, <1>2
<1>3. ASSUME NEW u \in tasks, Aged(u, t) PROVE ~t.session
  BY <1>1, <1>3 DEF PageInv, StaysOut, Aged
<1>4. QED BY <1>1, <1>2, <1>3 DEF Carries

LEMMA ChecksStay ==
  ASSUME PageInv, NEW S, Carries(S),
         \A t \in S : t.op = "verify" /\ t.session => unopened' \/ cookie' \in {t.cookie, NoCookie},
         \/ unopened'
         \/ unopened' = unopened /\ cookie' \in {cookie, NoCookie}
         \/ \A t \in tasks' : t.op = "verify" => ~t.session
  PROVE  ChecksWell'
<1>1. SUFFICES ASSUME ~unopened', NEW t \in tasks', t.op = "verify", t.session
               PROVE  cookie' \in {t.cookie, NoCookie}
  BY DEF ChecksWell
<1>2. CASE t \in S BY <1>1, <1>2
<1>3. ASSUME NEW u \in tasks, Aged(u, t) PROVE cookie' \in {t.cookie, NoCookie}
  <2>1. CASE unopened' = unopened /\ cookie' \in {cookie, NoCookie}
    <3>1. ~unopened BY <1>1, <2>1
    <3>2. cookie \in {u.cookie, NoCookie} BY <1>1, <1>3, <3>1 DEF PageInv, ChecksWell, Aged
    <3>3. QED BY <1>3, <2>1, <3>2 DEF Aged
  <2>2. QED BY <1>1, <2>1
<1>4. QED BY <1>2, <1>3 DEF Carries

\* The cookie stays, goes, or becomes the code of a pairing; while the
\* connected panel is shown nothing is submitted that is not one already.
LEMMA LatestStays ==
  ASSUME NEW k \in Nat, Latest(k), NEW S, Carries(S),
         \A t \in S : t.op = "pair" => \E p \in tasks : p.op = "pair" /\ p.id = t.id,
         \/ cookie' \in {cookie, NoCookie}
         \/ \E p \in tasks : p.op = "pair" /\ cookie' = p.id
  PROVE  Latest(k)'
<1>1. cookie' = NoCookie \/ cookie' <= k BY DEF Latest
<1>2. ASSUME NEW t \in tasks', t.op = "pair" PROVE t.id = NoCookie \/ t.id <= k
  <2>1. CASE t \in S BY <1>2, <2>1 DEF Latest
  <2>2. ASSUME NEW u \in tasks, Aged(u, t) PROVE t.id = NoCookie \/ t.id <= k
    BY <1>2, <2>2 DEF Latest, Aged
  <2>3. QED BY <2>1, <2>2 DEF Carries
<1>3. QED BY <1>1, <1>2 DEF Latest

\* The codes the page has sent are the host's, so the host's is the latest.
LEMMA HostIsLatest ==
  ASSUME PageInv
  PROVE  Latest(hostSecret)
<1>1. cookie = NoCookie \/ cookie <= hostSecret BY DEF PageInv, KnownCookie
<1>2. \A p \in tasks : p.op = "pair" => p.id = NoCookie \/ p.id <= hostSecret
  BY DEF PageInv, TasksWell, TaskWell
<1>3. QED BY <1>1, <1>2 DEF Latest

RestTypeOK ==
  /\ cookie \in 0..NoCookie /\ mounted \in Scoped
  /\ connected \in BOOLEAN /\ monitor \in BOOLEAN /\ checking \in BOOLEAN
  /\ submitting \in BOOLEAN /\ out \in BOOLEAN /\ unopened \in BOOLEAN
  /\ pendingId \in PageIds /\ pendingOf \in 0..NoCookie
  /\ chooser \in [open : BOOLEAN, choices : SUBSET HostScopes, off : BOOLEAN]

\* A task that a step starts, or goes on with.
Sound(t) ==
  /\ t \in Task /\ TaskWell(t)'
  /\ t.op \in Activation /\ t.session => ~out'
  /\ t.op = "verify" /\ t.session => unopened' \/ cookie' \in {t.cookie, NoCookie}

\* A logout and an activation begin a new epoch.
EpochsKept ==
  /\ out' => out \/ \A t \in tasks' : t.op \in Activation => ~t.session
  /\ \/ unopened'
     \/ unopened' = unopened /\ cookie' \in {cookie, NoCookie}
     \/ \A t \in tasks' : t.op = "verify" => ~t.session

\* The connected panel is shown anew, with nothing asked for, or the cookie
\* becomes the code of a pairing under way and the request is of the latest.
WaitsKept(S) ==
  connected' =>
    \/ pendingId' = 0 /\ \A a \in tasks' : a.op = "ask" => ~a.chooser
    \/ /\ connected
       /\ \A t \in S : t.op = "pair" => \E p \in tasks : p.op = "pair" /\ p.id = t.id
       /\ \A t \in S : t.op = "ask" /\ t.chooser /\ Good(t) => Latest(t.cookie)
       /\ \/ cookie' \in {cookie, NoCookie}
          \/ \E p \in tasks : p.op = "pair" /\ cookie' = p.id
       /\ \/ pendingId' = 0
          \/ pendingId # 0 /\ pendingOf' = pendingOf
          \/ Latest(pendingOf')

LEMMA WaitsStay ==
  ASSUME PageInv, RestTypeOK', NEW S, Carries(S), \A t \in S : t \in Task, WaitsKept(S)
  PROVE  LatestWell'
<1>1. CASE ~connected' BY <1>1 DEF LatestWell
<1>2. CASE pendingId' = 0 /\ \A a \in tasks' : a.op = "ask" => ~a.chooser
  BY <1>2 DEF LatestWell
<1>3. CASE /\ connected /\ connected'
           /\ \A t \in S : t.op = "pair" => \E p \in tasks : p.op = "pair" /\ p.id = t.id
           /\ \A t \in S : t.op = "ask" /\ t.chooser /\ Good(t) => Latest(t.cookie)
           /\ \/ cookie' \in {cookie, NoCookie}
              \/ \E p \in tasks : p.op = "pair" /\ cookie' = p.id
           /\ \/ pendingId' = 0
              \/ pendingId # 0 /\ pendingOf' = pendingOf
              \/ Latest(pendingOf')
  <2>1. ASSUME NEW k \in Nat, Latest(k) PROVE Latest(k)' BY <1>3, <2>1, LatestStays
  <2>2. ASSUME NEW a \in tasks', a.op = "ask", a.chooser, Good(a) PROVE Latest(a.cookie)'
    <3>1. Latest(a.cookie) /\ a \in Task
      <4>1. CASE a \in S BY <1>3, <2>2, <4>1
      <4>2. ASSUME NEW u \in tasks, Aged(u, a) PROVE Latest(a.cookie) /\ a \in Task
        BY <1>3, <2>2, <4>2 DEF PageInv, LatestWell, Aged, Good
      <4>3. QED BY <4>1, <4>2 DEF Carries
    <3>2. a.cookie \in Nat BY <3>1, AppHostAssumption DEF Task, NoCookie
    <3>3. QED BY <2>1, <3>1, <3>2
  <2>3. ASSUME pendingId' # 0 PROVE Latest(pendingOf)'
    <3>1. Latest(pendingOf') BY <1>3, <2>3 DEF PageInv, LatestWell
    <3>2. PICK k : k = pendingOf' OBVIOUS
    <3>3. k \in Nat /\ Latest(k)
      BY <3>1, <3>2, AppHostAssumption DEF RestTypeOK, NoCookie
    <3>4. Latest(k)' BY <2>1, <3>3
    <3>5. QED BY <3>2, <3>4 DEF Latest
  <2>4. QED BY <1>3, <2>2, <2>3 DEF LatestWell
<1>4. QED BY <1>1, <1>2, <1>3 DEF WaitsKept

LEMMA StepKeeps ==
  ASSUME PageInv, HostMoves, RestTypeOK', ViewWell', KnownCookie(cookie)',
         NEW S, Carries(S), \A t \in S : Sound(t), EpochsKept, WaitsKept(S)
  PROVE  PageInv'
<1>1. (tasks \in SUBSET Task /\ TasksWell)' BY TasksStayWell DEF Sound
<1>2. StaysOut' BY OutStays DEF Sound, EpochsKept
<1>3. ChecksWell' BY ChecksStay DEF Sound, EpochsKept
<1>4. LatestWell' BY WaitsStay DEF Sound
<1>5. PageTypeOK' BY <1>1 DEF PageTypeOK, RestTypeOK, HostMoves, Scoped
<1>6. QED BY <1>1, <1>2, <1>3, <1>4, <1>5 DEF PageInv

\* The tasks that are left are carried.
LEMMA LeftCarry ==
  ASSUME PageInv, NEW S, tasks' \subseteq tasks \cup S
  PROVE  Carries(S)
BY AgedSelf DEF PageInv, PageTypeOK, Carries

\* The facts of the invariant that every action's proof starts from.
LEMMA InvFacts ==
  ASSUME PageInv
  PROVE  /\ RestTypeOK /\ AppHostTypeOK /\ tasks \subseteq Task
         /\ ViewWell /\ KnownCookie(cookie)
BY DEF PageInv, PageTypeOK, RestTypeOK, Scoped

----------------------------------------------------------------------------
(* Each action of the user, the monitor and the host *)

\* A task that is not answered is well when its cookie and code are.
LEMMA SentIsWell ==
  ASSUME NEW t, t.ans = Sent, KnownCookie(t.cookie)', t.op # "import",
         t.op = "pair" => t.id = NoCookie \/ t.id <= hostSecret'
  PROVE  TaskWell(t)'
BY DEF TaskWell, Good, Sent

LEMMA SubmitPairKeeps ==
  ASSUME PageInv, NEW k \in {hostSecret, NoCookie}, SubmitPair(k)
  PROVE  PageInv'
<1> USE AppHostAssumption
<1>1. RestTypeOK /\ AppHostTypeOK /\ tasks \subseteq Task /\ ViewWell /\ KnownCookie(cookie)
  BY InvFacts
<1>2. HostMoves BY <1>1, HostStays DEF SubmitPair
<1>3. PICK n : n = NewTask("pair", cookie, k, NoScope) OBVIOUS
<1>4. n \in Task /\ n.op = "pair" /\ n.cookie = cookie /\ n.id = k /\ n.ans = Sent
  <2>1. k \in Numbers /\ cookie \in 0..NoCookie /\ NoScope \in Scoped /\ mounted \in Scoped
    BY <1>1 DEF AppHostTypeOK, RestTypeOK, Numbers, Scoped, NoCookie
  <2>2. n \in Task BY <1>3, <2>1, NewTaskType DEF Ops
  <2>3. QED BY <1>3, <2>2 DEF NewTask
<1>5. /\ tasks' = tasks \cup {n} /\ ~connected /\ connected' = connected /\ cookie' = cookie
      /\ out' = out /\ unopened' = unopened
      /\ hostSecret' = hostSecret /\ hostUsed' = hostUsed
  BY <1>3 DEF SubmitPair, Starts, apphost, panels
<1>6. RestTypeOK' /\ ViewWell'
  BY <1>1 DEF SubmitPair, RestTypeOK, ViewWell, Mounted, apphost, panels, choosing, waiting
<1>7. KnownCookie(cookie)' BY <1>1, <1>5 DEF KnownCookie
<1>8. Sound(n)
  <2>1. KnownCookie(n.cookie)' BY <1>4, <1>5, <1>7 DEF KnownCookie
  <2>2. n.id = NoCookie \/ n.id <= hostSecret'
    BY <1>1, <1>4, <1>5 DEF AppHostTypeOK
  <2>3. TaskWell(n)' BY <1>4, <2>1, <2>2, SentIsWell
  <2>4. QED BY <1>4, <2>3 DEF Sound, Activation
<1>9. Carries({n}) BY <1>5, LeftCarry
<1>10. EpochsKept BY <1>5 DEF EpochsKept
<1>11. WaitsKept({n}) BY <1>5 DEF WaitsKept
<1>12. QED BY <1>2, <1>6, <1>7, <1>8, <1>9, <1>10, <1>11, StepKeeps

LEMMA OpenChooserKeeps ==
  ASSUME PageInv, OpenChooser
  PROVE  PageInv'
<1> USE AppHostAssumption
<1>1. RestTypeOK /\ AppHostTypeOK /\ tasks \subseteq Task /\ ViewWell /\ KnownCookie(cookie)
  BY InvFacts
<1>2. HostMoves BY <1>1, HostStays DEF OpenChooser
<1>3. PICK n : n = NewTask("list", cookie, 0, NoScope) OBVIOUS
<1>4. n \in Task /\ n.op = "list" /\ n.cookie = cookie /\ n.ans = Sent
  <2>1. 0 \in Numbers /\ cookie \in 0..NoCookie /\ NoScope \in Scoped /\ mounted \in Scoped
    BY <1>1 DEF RestTypeOK, Numbers, Scoped, PageIds
  <2>2. n \in Task BY <1>3, <2>1, NewTaskType DEF Ops
  <2>3. QED BY <1>3, <2>2 DEF NewTask
<1>5. /\ tasks' = OldChooser(tasks) \cup {n} /\ connected' = connected /\ cookie' = cookie
      /\ out' = out /\ unopened' = unopened /\ pendingId' = pendingId /\ pendingOf' = pendingOf
      /\ hostSecret' = hostSecret /\ hostUsed' = hostUsed
  BY <1>3 DEF OpenChooser, Starts, apphost, panels, waiting
<1>6. RestTypeOK' /\ ViewWell'
  BY <1>1 DEF OpenChooser, RestTypeOK, ViewWell, Mounted, apphost, panels, waiting
<1>7. KnownCookie(cookie)' BY <1>1, <1>5 DEF KnownCookie
<1>8. Sound(n)
  <2>1. KnownCookie(n.cookie)' BY <1>4, <1>5, <1>7 DEF KnownCookie
  <2>2. TaskWell(n)' BY <1>4, <2>1, SentIsWell
  <2>3. QED BY <1>4, <2>2 DEF Sound, Activation
<1>9. Carries({n}) BY <1>1, <1>5, OldChooserAges DEF Carries
<1>10. EpochsKept BY <1>5 DEF EpochsKept
<1>11. WaitsKept({n}) BY <1>4, <1>5 DEF WaitsKept
<1>12. QED BY <1>2, <1>6, <1>7, <1>8, <1>9, <1>10, <1>11, StepKeeps

LEMMA HideChooserKeeps ==
  ASSUME PageInv, HideChooser
  PROVE  PageInv'
<1>1. RestTypeOK /\ AppHostTypeOK /\ ViewWell /\ KnownCookie(cookie) BY InvFacts
<1>2. HostMoves BY <1>1, HostStays DEF HideChooser
<1>3. RestTypeOK' /\ ViewWell'
  BY <1>1 DEF HideChooser, RestTypeOK, ViewWell, Mounted, apphost, panels, waiting
<1>4. KnownCookie(cookie)' BY <1>1 DEF HideChooser, KnownCookie, apphost
<1>5. Carries({}) BY LeftCarry DEF HideChooser
<1>6. EpochsKept BY DEF EpochsKept, HideChooser
<1>7. WaitsKept({}) BY DEF WaitsKept, HideChooser, panels, waiting
<1>8. QED BY <1>2, <1>3, <1>4, <1>5, <1>6, <1>7, StepKeeps

LEMMA SubmitRequestKeeps ==
  ASSUME PageInv, NEW w \in HostScopes, SubmitRequest(w)
  PROVE  PageInv'
<1> USE AppHostAssumption
<1>1. RestTypeOK /\ AppHostTypeOK /\ tasks \subseteq Task /\ ViewWell /\ KnownCookie(cookie)
  BY InvFacts
<1>2. HostMoves BY <1>1, HostStays DEF SubmitRequest
<1>3. PICK n : n = NewTask("ask", cookie, 0, w) OBVIOUS
<1>4. n \in Task /\ n.op = "ask" /\ n.cookie = cookie /\ n.ans = Sent /\ ~Good(n)
  <2>1. 0 \in Numbers /\ cookie \in 0..NoCookie /\ w \in Scoped /\ mounted \in Scoped
    BY <1>1 DEF RestTypeOK, Numbers, Scoped, PageIds
  <2>2. n \in Task BY <1>3, <2>1, NewTaskType DEF Ops
  <2>3. QED BY <1>3, <2>2 DEF NewTask, Good, Sent
<1>5. /\ tasks' = tasks \cup {n} /\ connected' = connected /\ cookie' = cookie
      /\ out' = out /\ unopened' = unopened /\ pendingId' = pendingId /\ pendingOf' = pendingOf
      /\ hostSecret' = hostSecret /\ hostUsed' = hostUsed
  BY <1>3 DEF SubmitRequest, Starts, apphost, panels, waiting
<1>6. RestTypeOK' /\ ViewWell'
  BY <1>1 DEF SubmitRequest, RestTypeOK, ViewWell, Mounted, apphost, panels, waiting
<1>7. KnownCookie(cookie)' BY <1>1, <1>5 DEF KnownCookie
<1>8. Sound(n)
  <2>1. KnownCookie(n.cookie)' BY <1>4, <1>5, <1>7 DEF KnownCookie
  <2>2. TaskWell(n)' BY <1>4, <2>1, SentIsWell
  <2>3. QED BY <1>4, <2>2 DEF Sound, Activation
<1>9. Carries({n}) BY <1>5, LeftCarry
<1>10. EpochsKept BY <1>5 DEF EpochsKept
<1>11. WaitsKept({n}) BY <1>4, <1>5 DEF WaitsKept
<1>12. QED BY <1>2, <1>6, <1>7, <1>8, <1>9, <1>10, <1>11, StepKeeps

LEMMA VerifyHostSessionKeeps ==
  ASSUME PageInv, VerifyHostSession
  PROVE  PageInv'
<1> USE AppHostAssumption
<1>1. RestTypeOK /\ AppHostTypeOK /\ tasks \subseteq Task /\ ViewWell /\ KnownCookie(cookie)
  BY InvFacts
<1>2. HostMoves BY <1>1, HostStays DEF VerifyHostSession
<1>3. PICK n : n = NewTask("verify", cookie, 0, NoScope) OBVIOUS
<1>4. n \in Task /\ n.op = "verify" /\ n.cookie = cookie /\ n.ans = Sent
  <2>1. 0 \in Numbers /\ cookie \in 0..NoCookie /\ NoScope \in Scoped /\ mounted \in Scoped
    BY <1>1 DEF RestTypeOK, Numbers, Scoped, PageIds
  <2>2. n \in Task BY <1>3, <2>1, NewTaskType DEF Ops
  <2>3. QED BY <1>3, <2>2 DEF NewTask
<1>5. /\ tasks' = tasks \cup {n} /\ connected' = connected /\ cookie' = cookie
      /\ out' = out /\ unopened' = unopened /\ pendingId' = pendingId /\ pendingOf' = pendingOf
      /\ hostSecret' = hostSecret /\ hostUsed' = hostUsed
  BY <1>3 DEF VerifyHostSession, apphost, panels, choosing, waiting
<1>6. RestTypeOK' /\ ViewWell'
  BY <1>1 DEF VerifyHostSession, RestTypeOK, ViewWell, Mounted, apphost, panels, choosing, waiting
<1>7. KnownCookie(cookie)' BY <1>1, <1>5 DEF KnownCookie
<1>8. Sound(n)
  <2>1. KnownCookie(n.cookie)' BY <1>4, <1>5, <1>7 DEF KnownCookie
  <2>2. TaskWell(n)' BY <1>4, <2>1, SentIsWell
  <2>3. QED BY <1>4, <1>5, <2>2 DEF Sound, Activation
<1>9. Carries({n}) BY <1>5, LeftCarry
<1>10. EpochsKept BY <1>5 DEF EpochsKept
<1>11. WaitsKept({n}) BY <1>4, <1>5 DEF WaitsKept
<1>12. QED BY <1>2, <1>6, <1>7, <1>8, <1>9, <1>10, <1>11, StepKeeps

\* A view that goes leaves nothing shown, open or asked for.
LEMMA UnmountClears ==
  ASSUME Unmount
  PROVE  /\ mounted' = NoScope /\ connected' = FALSE /\ monitor' = FALSE
         /\ pendingId' = 0 /\ pendingOf' = NoCookie
         /\ chooser' \in [open : BOOLEAN, choices : SUBSET HostScopes, off : BOOLEAN]
         /\ ViewWell'
<1>1. /\ mounted' = NoScope /\ connected' = FALSE /\ monitor' = FALSE
      /\ pendingId' = 0 /\ pendingOf' = NoCookie /\ chooser' = ClosedChooser
  BY DEF Unmount, ResetChooser, NotPending
<1>2. ClosedChooser \in [open : BOOLEAN, choices : SUBSET HostScopes, off : BOOLEAN]
  BY DEF ClosedChooser
<1>3. ViewWell' BY <1>1 DEF ViewWell, Mounted
<1>4. QED BY <1>1, <1>2, <1>3

LEMMA ClickLogoutKeeps ==
  ASSUME PageInv, ClickLogout
  PROVE  PageInv'
<1> USE AppHostAssumption
<1>1. RestTypeOK /\ AppHostTypeOK /\ tasks \subseteq Task /\ ViewWell /\ KnownCookie(cookie)
  BY InvFacts
<1>2. HostMoves BY <1>1, HostStays DEF ClickLogout
<1>3. PICK n : n = NewTask("logout", cookie, 0, NoScope) OBVIOUS
<1>4. n \in Task /\ n.op = "logout" /\ n.cookie = cookie /\ n.ans = Sent
  <2>1. 0 \in Numbers /\ cookie \in 0..NoCookie /\ NoScope \in Scoped /\ mounted \in Scoped
    BY <1>1 DEF RestTypeOK, Numbers, Scoped, PageIds
  <2>2. n \in Task BY <1>3, <2>1, NewTaskType DEF Ops
  <2>3. QED BY <1>3, <2>2 DEF NewTask
<1>5. /\ tasks' = OldChooser(OldSession(tasks)) \cup {n} /\ cookie' = cookie
      /\ hostSecret' = hostSecret /\ hostUsed' = hostUsed
  BY <1>3 DEF ClickLogout, apphost
<1>6. /\ mounted' = NoScope /\ connected' = FALSE /\ monitor' = FALSE
      /\ pendingId' = 0 /\ pendingOf' = NoCookie
      /\ chooser' \in [open : BOOLEAN, choices : SUBSET HostScopes, off : BOOLEAN]
      /\ ViewWell'
  BY UnmountClears DEF ClickLogout
<1>7. RestTypeOK'
  <2>1. NoScope \in Scoped /\ 0 \in PageIds /\ NoCookie \in 0..NoCookie
    BY DEF Scoped, PageIds, NoCookie
  <2>2. QED BY <1>1, <1>5, <1>6, <2>1 DEF ClickLogout, RestTypeOK
<1>8. KnownCookie(cookie)' BY <1>1, <1>5 DEF KnownCookie
<1>9. Sound(n)
  <2>1. KnownCookie(n.cookie)' BY <1>4, <1>5, <1>8 DEF KnownCookie
  <2>2. TaskWell(n)' BY <1>4, <2>1, SentIsWell
  <2>3. QED BY <1>4, <2>2 DEF Sound, Activation
<1>10. Carries({n}) BY <1>1, <1>5, OldBothAge DEF Carries
<1>11. EpochsKept BY <1>1, <1>4, <1>5, OldBothAge DEF EpochsKept, Activation
<1>12. WaitsKept({n}) BY <1>6 DEF WaitsKept
<1>13. QED BY <1>2, <1>6, <1>7, <1>8, <1>9, <1>10, <1>11, <1>12, StepKeeps

LEMMA ReloadKeeps ==
  ASSUME PageInv, Reload
  PROVE  PageInv'
<1> USE AppHostAssumption
<1>1. RestTypeOK /\ AppHostTypeOK /\ tasks \subseteq Task /\ ViewWell /\ KnownCookie(cookie)
  BY InvFacts
<1>2. HostMoves BY <1>1, HostStays DEF Reload
<1>3. PICK n : n = Activating(cookie, 0) OBVIOUS
<1>4. n \in Task /\ n.op = "activate" /\ n.cookie = cookie /\ n.ans = Sent
  BY <1>1, <1>3, ActivatingType DEF RestTypeOK
<1>5. /\ tasks' = {n} /\ cookie' = cookie /\ out' = FALSE /\ unopened' = FALSE
      /\ checking' = FALSE /\ submitting' = FALSE
      /\ hostSecret' = hostSecret /\ hostUsed' = hostUsed
  BY <1>3 DEF Reload, apphost
<1>6. /\ mounted' = NoScope /\ connected' = FALSE /\ monitor' = FALSE
      /\ pendingId' = 0 /\ pendingOf' = NoCookie
      /\ chooser' \in [open : BOOLEAN, choices : SUBSET HostScopes, off : BOOLEAN]
      /\ ViewWell'
  BY UnmountClears DEF Reload
<1>7. RestTypeOK'
  <2>1. NoScope \in Scoped /\ 0 \in PageIds /\ NoCookie \in 0..NoCookie
    BY DEF Scoped, PageIds, NoCookie
  <2>2. QED BY <1>1, <1>5, <1>6, <2>1 DEF RestTypeOK
<1>8. KnownCookie(cookie)' BY <1>1, <1>5 DEF KnownCookie
<1>9. Sound(n)
  <2>1. KnownCookie(n.cookie)' BY <1>4, <1>5, <1>8 DEF KnownCookie
  <2>2. TaskWell(n)' BY <1>4, <2>1, SentIsWell
  <2>3. QED BY <1>4, <1>5, <2>2 DEF Sound, Activation
<1>10. Carries({n}) BY <1>5 DEF Carries
<1>11. EpochsKept BY <1>4, <1>5 DEF EpochsKept, Activation
<1>12. WaitsKept({n}) BY <1>6 DEF WaitsKept
<1>13. QED BY <1>2, <1>6, <1>7, <1>8, <1>9, <1>10, <1>11, <1>12, StepKeeps

\* What the host does by itself disturbs only what the page knows of it.
LEMMA HostKeeps ==
  ASSUME PageInv, HostMoves, UNCHANGED page
  PROVE  PageInv'
<1>1. RestTypeOK /\ AppHostTypeOK /\ ViewWell /\ KnownCookie(cookie) BY InvFacts
<1>2. RestTypeOK' BY <1>1 DEF page, RestTypeOK
<1>3. KnownCookie(cookie)'
  <2>1. PICK k : k = cookie OBVIOUS
  <2>2. k \in 0..NoCookie /\ KnownCookie(k) BY <1>1, <2>1 DEF RestTypeOK
  <2>3. KnownCookie(k)' BY <1>1, <2>2, KnownStays
  <2>4. cookie' = k BY <2>1 DEF page
  <2>5. QED BY <2>3, <2>4 DEF KnownCookie
<1>4. ViewWell'
  <2>1. /\ pendingOf \in Nat /\ pendingId \in Nat /\ hostAsked \in Nat /\ hostAsked' \in Nat
        /\ hostSecret \in Nat /\ hostSecret' \in Nat
        /\ hostSecret <= hostSecret' /\ hostAsked <= hostAsked'
    BY <1>1, AppHostAssumption DEF RestTypeOK, HostMoves, AppHostTypeOK, NoCookie, PageIds
  <2>2. QED BY <1>1, <2>1 DEF ViewWell, Mounted, page
<1>5. Carries({}) BY LeftCarry DEF page
<1>6. EpochsKept BY DEF EpochsKept, page
<1>7. WaitsKept({}) BY DEF WaitsKept, page
<1>8. QED BY <1>2, <1>3, <1>4, <1>5, <1>6, <1>7, StepKeeps

LEMMA HostOfPageKeeps ==
  ASSUME PageInv, HostOfPage
  PROVE  PageInv'
<1>1. AppHostTypeOK BY InvFacts
<1>2. HostMoves BY <1>1, HostNextMoves DEF HostOfPage, AppHostNext
<1>3. QED BY <1>2, HostKeeps DEF HostOfPage

\* The host may move while it answers t, or the network loses t: the page then
\* differs by the one task.
LEMMA RepliesKeep ==
  ASSUME PageInv, HostMoves, NEW t \in tasks,
         UNCHANGED <<cookie, panels, checking, submitting, choosing, out, unopened>>,
         NEW r, r \in Task, TaskWell(r)', tasks' = (tasks \ {t}) \cup {r},
         r.op = t.op, r.session = t.session, r.cookie = t.cookie, r.id = t.id,
         r.op = "ask" /\ r.chooser /\ Good(r) => Latest(r.cookie)
  PROVE  PageInv'
<1>1. RestTypeOK /\ AppHostTypeOK /\ ViewWell /\ KnownCookie(cookie) BY InvFacts
<1>2. /\ cookie' = cookie /\ mounted' = mounted /\ connected' = connected /\ monitor' = monitor
      /\ checking' = checking /\ submitting' = submitting /\ chooser' = chooser
      /\ pendingId' = pendingId /\ pendingOf' = pendingOf /\ out' = out /\ unopened' = unopened
  BY DEF panels, choosing, waiting
<1>3. RestTypeOK' BY <1>1, <1>2 DEF RestTypeOK
<1>4. KnownCookie(cookie)'
  <2>1. PICK k : k = cookie OBVIOUS
  <2>2. k \in 0..NoCookie /\ KnownCookie(k) BY <1>1, <2>1 DEF RestTypeOK
  <2>3. KnownCookie(k)' BY <1>1, <2>2, KnownStays
  <2>4. QED BY <1>2, <2>1, <2>3 DEF KnownCookie
<1>5. ViewWell'
  <2>1. /\ pendingOf \in Nat /\ pendingId \in Nat /\ hostAsked \in Nat /\ hostAsked' \in Nat
        /\ hostSecret \in Nat /\ hostSecret' \in Nat
        /\ hostSecret <= hostSecret' /\ hostAsked <= hostAsked'
    BY <1>1, AppHostAssumption DEF RestTypeOK, HostMoves, AppHostTypeOK, NoCookie, PageIds
  <2>2. QED BY <1>1, <1>2, <2>1 DEF ViewWell, Mounted
<1>6. Sound(r)
  <2>1. ASSUME r.op \in Activation, r.session, out' PROVE FALSE
    <3>1. out /\ t.op \in Activation /\ t.session BY <1>2, <2>1
    <3>2. StaysOut BY DEF PageInv
    <3>3. QED BY <3>1, <3>2 DEF StaysOut
  <2>2. r.op = "verify" /\ r.session => unopened' \/ cookie' \in {r.cookie, NoCookie}
    <3>1. CASE unopened BY <1>2, <3>1
    <3>2. CASE ~unopened BY <1>2, <3>2 DEF PageInv, ChecksWell
    <3>3. QED BY <3>1, <3>2
  <2>3. QED BY <2>1, <2>2 DEF Sound
<1>7. Carries({r}) BY LeftCarry
<1>8. EpochsKept BY <1>2 DEF EpochsKept
<1>9. WaitsKept({r}) BY <1>2 DEF WaitsKept
<1>10. QED BY <1>3, <1>4, <1>5, <1>6, <1>7, <1>8, <1>9, StepKeeps

\* What the kinds of answers must be for the task to stay well.
LEMMA AnswerKeeps ==
  ASSUME PageInv, HostMoves, NEW t \in tasks, t.op # "import", NEW r, Answers(t, r),
         tasks' = (tasks \ {t}) \cup {r},
         UNCHANGED <<cookie, panels, checking, submitting, choosing, out, unopened>>,
         t.op = "activate" /\ Good(r) => r.ans.scope \in HostScopes,
         t.op = "pair" /\ Good(r) => r.ans.id = t.id /\ KnownCookie(t.id)',
         t.op = "ask" /\ Good(r) => t.cookie = hostSecret /\ r.ans.id <= hostAsked',
         t.op = "verify" /\ r.ans.is = "no" => ~(hostLive' /\ hostSecret' = t.cookie),
         t.op = "verify" /\ Good(r) =>
           t.cookie <= hostSecret' /\ (hostSecret' = t.cookie => hostScope' = r.ans.scope)
  PROVE  PageInv'
<1> USE AppHostAssumption
<1>1. AppHostTypeOK /\ t \in Task /\ TaskWell(t) BY InvFacts DEF PageInv, TasksWell
<1>2. /\ t.cookie \in 0..NoCookie /\ KnownCookie(t.cookie)
      /\ t.id \in Nat /\ hostSecret \in Nat /\ hostSecret' \in Nat /\ hostSecret <= hostSecret'
  BY <1>1 DEF TaskWell, Task, NoCookie, PageIds, HostMoves, AppHostTypeOK
<1>3. KnownCookie(r.cookie)'
  <2>1. KnownCookie(t.cookie)' BY <1>1, <1>2, KnownStays
  <2>2. QED BY <2>1 DEF Answers
<1>4. r.op = "pair" => r.id = NoCookie \/ r.id <= hostSecret'
  BY <1>1, <1>2 DEF TaskWell, Answers
<1>5. r.op = "ask" /\ Good(r) => r.cookie <= hostSecret' /\ r.ans.id <= hostAsked'
  BY <1>2 DEF Answers
<1>6. TaskWell(r)'
  BY <1>3, <1>4, <1>5 DEF Answers, TaskWell, Good
<1>7. r.op = "ask" /\ r.chooser /\ Good(r) => Latest(r.cookie)
  BY HostIsLatest DEF Answers
<1>8. QED BY <1>6, <1>7, RepliesKeep DEF Answers

LEMMA LosesKeeps ==
  ASSUME PageInv, NEW t \in tasks, Loses(t)
  PROVE  PageInv'
<1>1. AppHostTypeOK /\ t \in Task BY InvFacts DEF PageInv
<1>2. HostMoves BY <1>1, HostStays DEF Loses
<1>3. PICK r : r = [t EXCEPT !.ans = [is |-> "lost", scope |-> NoScope, id |-> 0, state |-> "none"]]
  OBVIOUS
<1>4. NoScope \in Scoped /\ 0 \in Numbers 
  BY AppHostAssumption DEF Scoped, Numbers, PageIds
<1>5. Answers(t, r) /\ r.ans.is = "lost" BY <1>1, <1>3, <1>4, AnsweredType
<1>6. tasks' = (tasks \ {t}) \cup {r} BY <1>3 DEF Loses, Replies
<1>7. QED BY <1>2, <1>5, <1>6, AnswerKeeps DEF Loses, Good

\* A session ends only for a cookie the host knew.
LEMMA HandlesKeeps ==
  ASSUME PageInv, NEW t \in tasks, Handles(t)
  PROVE  PageInv'
<1> USE AppHostAssumption
<1>1. AppHostTypeOK /\ t \in Task /\ TaskWell(t) BY InvFacts DEF PageInv, TasksWell
<1>2. t.op # "import" BY DEF Handles
<1>3. UNCHANGED <<cookie, panels, checking, submitting, choosing, out, unopened>> BY DEF Handles
<1>4. NoScope \in Scoped /\ 0 \in Numbers /\ hostSecret \in Numbers /\ hostScope \in Scoped
  BY <1>1 DEF Scoped, Numbers, PageIds, NoCookie, AppHostTypeOK
<1>5. ASSUME Refuses(t), HostMoves,
             t.op = "verify" => ~(hostLive' /\ hostSecret' = t.cookie)
      PROVE  PageInv'
  <2>1. PICK r : r = [t EXCEPT !.ans = [is |-> "no", scope |-> NoScope, id |-> 0, state |-> "none"]]
    OBVIOUS
  <2>2. Answers(t, r) /\ r.ans.is = "no" BY <1>1, <1>4, <2>1, AnsweredType
  <2>3. tasks' = (tasks \ {t}) \cup {r} BY <1>5, <2>1 DEF Refuses, Replies
  <2>4. QED BY <1>2, <1>3, <1>5, <2>2, <2>3, AnswerKeeps DEF Good
<1>6. ASSUME NEW w \in Scoped, NEW id \in Numbers,
             NEW state \in {"none", "pending", "denied", "expired"}, Ok(t, w, id, state), HostMoves,
             t.op = "activate" => w \in HostScopes,
             t.op = "pair" => id = t.id /\ KnownCookie(t.id)',
             t.op = "ask" => t.cookie = hostSecret /\ id <= hostAsked',
             t.op = "verify" =>
               t.cookie <= hostSecret' /\ (hostSecret' = t.cookie => hostScope' = w)
      PROVE  PageInv'
  <2>1. PICK r : r = [t EXCEPT !.ans = [is |-> "ok", scope |-> w, id |-> id, state |-> state]]
    OBVIOUS
  <2>2. Answers(t, r) /\ r.ans.is = "ok" /\ r.ans.scope = w /\ r.ans.id = id
    BY <1>1, <2>1, AnsweredType
  <2>3. tasks' = (tasks \ {t}) \cup {r} BY <1>6, <2>1 DEF Ok, Replies
  <2>4. QED BY <1>2, <1>3, <1>6, <2>2, <2>3, AnswerKeeps DEF Good
<1>7. UNCHANGED apphost => HostMoves BY <1>1, HostStays
<1>8. CASE ~Known(t) /\ t.op # "pair" /\ Refuses(t) /\ UNCHANGED apphost
  BY <1>5, <1>7, <1>8 DEF Known, apphost
<1>9. CASE /\ t.op \in {"activate", "verify"} /\ Known(t)
           /\ Ok(t, hostScope, 0, "none") /\ UNCHANGED apphost
  <2>1. hostScope \in HostScopes /\ hostSecret \in Nat BY <1>1 DEF AppHostTypeOK
  <2>2. PICK w : w = hostScope OBVIOUS
  <2>3. QED BY <1>4, <1>6, <1>7, <1>9, <2>1, <2>2 DEF Known, apphost
<1>10. CASE /\ t.op = "poll" /\ Known(t)
            /\ Ok(t, NoScope, hostRequest.id, hostRequest.state) /\ UNCHANGED apphost
  <2>1. PICK id, state : id = hostRequest.id /\ state = hostRequest.state OBVIOUS
  <2>2. id \in Numbers /\ state \in {"none", "pending", "denied", "expired"}
    BY <1>1, <2>1 DEF AppHostTypeOK, Numbers, PageIds
  <2>3. QED BY <1>4, <1>6, <1>7, <1>10, <2>1, <2>2
<1>11. CASE /\ t.op = "list" /\ Known(t)
            /\ Ok(t, NoScope, 0, "none") \/ Refuses(t)
            /\ UNCHANGED apphost
  BY <1>4, <1>5, <1>6, <1>7, <1>11
<1>12. CASE t.op = "ask" /\ Known(t) /\ Refuses(t) /\ UNCHANGED apphost
  BY <1>5, <1>7, <1>12
<1>13. CASE /\ t.op = "ask" /\ Known(t) /\ t.target # hostScope /\ HostIsAsked
            /\ IF hostRequest' = NoHostRequest THEN Refuses(t)
               ELSE Ok(t, NoScope, hostRequest'.id, "pending")
  <2>1. HostMoves BY <1>1, <1>13, HostNextMoves DEF AppHostNext
  <2>2. CASE hostRequest' = NoHostRequest BY <1>5, <1>13, <2>1, <2>2
  <2>3. CASE hostRequest' # NoHostRequest
    <3>1. PICK id : id = hostRequest'.id OBVIOUS
    <3>2. id = hostAsked' /\ id \in Numbers
      BY <1>1, <1>13, <2>1, <2>3, <3>1 DEF HostIsAsked, HostMoves, AppHostTypeOK, Numbers, PageIds
    <3>3. id <= hostAsked' BY <2>1, <3>2 DEF HostMoves, AppHostTypeOK
    <3>4. Ok(t, NoScope, id, "pending") BY <1>13, <2>3, <3>1
    <3>5. QED BY <1>4, <1>6, <1>13, <2>1, <3>2, <3>3, <3>4 DEF Known
  <2>4. QED BY <2>2, <2>3
<1>14. CASE t.op = "pair" /\ Refuses(t) /\ UNCHANGED apphost
  BY <1>5, <1>7, <1>14
<1>15. CASE /\ t.op = "pair" /\ t.id = hostSecret /\ HostPairs
            /\ Ok(t, hostScope, hostSecret, "none")
  <2>1. HostMoves BY <1>1, <1>15, HostNextMoves DEF AppHostNext
  <2>2. KnownCookie(t.id)'
    BY <1>1, <1>15 DEF HostPairs, KnownCookie, AppHostTypeOK
  <2>3. PICK w, id : w = hostScope /\ id = hostSecret OBVIOUS
  <2>4. QED BY <1>4, <1>6, <1>15, <2>1, <2>2, <2>3
<1>16. CASE /\ t.op = "logout" /\ Known(t)
            /\ HostEnds /\ hostRequest' = NoHostRequest
            /\ Ok(t, NoScope, 0, "none")
  <2>1. HostMoves BY <1>1, <1>16, HostNextMoves DEF AppHostNext
  <2>2. QED BY <1>4, <1>6, <1>16, <2>1
<1>17. QED
  BY <1>8, <1>9, <1>10, <1>11, <1>12, <1>13, <1>14, <1>15, <1>16 DEF Handles

----------------------------------------------------------------------------
(* Each answer *)

\* The cookie becomes the code that was redeemed.
LEMMA PairAnsweredKeeps ==
  ASSUME PageInv, NEW t \in tasks, PairAnswered(t)
  PROVE  PageInv'
<1> USE AppHostAssumption
<1>1. /\ RestTypeOK /\ AppHostTypeOK /\ tasks \subseteq Task /\ ViewWell
      /\ TaskWell(t) /\ t.op = "pair" /\ Good(t) /\ t \in Task
  BY InvFacts DEF PageInv, TasksWell, PairAnswered, Answered
<1>2. HostMoves BY <1>1, HostStays DEF PairAnswered
<1>3. /\ hostSecret' = hostSecret /\ hostUsed' = hostUsed /\ hostAsked' = hostAsked
      /\ connected' = connected /\ pendingId' = pendingId /\ pendingOf' = pendingOf
      /\ mounted' = mounted /\ monitor' = monitor /\ chooser' = chooser /\ checking' = checking
      /\ submitting' = submitting /\ out' = out /\ unopened' = TRUE /\ cookie' = t.ans.id
  BY DEF PairAnswered, KeepView, panels, choosing, waiting, apphost
<1>4. PICK n : n = [t EXCEPT !.op = "paired"] OBVIOUS
<1>5. tasks' = (tasks \ {t}) \cup {n} BY <1>4 DEF PairAnswered
<1>6. n \in Task /\ n.op = "paired" /\ n.cookie = t.cookie /\ n.ans = t.ans
  BY <1>1, <1>4 DEF Task, Ops
<1>7. t.ans.id = t.id /\ KnownCookie(t.id) BY <1>1 DEF TaskWell
<1>8. t.ans.id \in 0..NoCookie
  BY <1>1, <1>7 DEF KnownCookie, AppHostTypeOK, Task, NoCookie, PageIds
<1>9. KnownCookie(cookie)' BY <1>3, <1>7 DEF KnownCookie
<1>10. RestTypeOK' /\ ViewWell' BY <1>1, <1>3, <1>8 DEF RestTypeOK, ViewWell, Mounted
<1>11. Sound(n)
  <2>1. KnownCookie(n.cookie)' BY <1>1, <1>3, <1>6 DEF TaskWell, KnownCookie
  <2>2. n.ans.is # "sent" BY <1>1, <1>6 DEF Good
  <2>3. TaskWell(n)' BY <1>6, <2>1, <2>2 DEF TaskWell
  <2>4. QED BY <1>6, <2>3 DEF Sound, Activation
<1>12. Carries({n}) BY <1>5, LeftCarry
<1>13. EpochsKept BY <1>3 DEF EpochsKept
<1>14. WaitsKept({n}) BY <1>1, <1>3, <1>6, <1>7 DEF WaitsKept
<1>15. QED BY <1>2, <1>9, <1>10, <1>11, <1>12, <1>13, <1>14, StepKeeps

\* An activation begins, and the checks under way are of the session before.
LEMMA PairSettlesKeeps ==
  ASSUME PageInv, NEW t \in tasks, PairSettles(t)
  PROVE  PageInv'
<1> USE AppHostAssumption
<1>1. RestTypeOK /\ AppHostTypeOK /\ tasks \subseteq Task /\ ViewWell /\ KnownCookie(cookie)
  BY InvFacts
<1>2. HostMoves BY <1>1, HostStays DEF PairSettles
<1>3. /\ hostSecret' = hostSecret /\ hostUsed' = hostUsed /\ hostAsked' = hostAsked
      /\ connected' = connected /\ pendingId' = pendingId /\ pendingOf' = pendingOf
      /\ mounted' = mounted /\ monitor' = monitor /\ chooser' = chooser /\ checking' = checking
      /\ cookie' = cookie
  BY DEF PairSettles, KeepView, panels, choosing, waiting, apphost
<1>4. KnownCookie(cookie)' BY <1>1, <1>3 DEF KnownCookie
<1>5. CASE Leaves(t) /\ submitting' = FALSE /\ UNCHANGED <<out, unopened>>
  <2>1. /\ tasks' = tasks \ {t} /\ submitting' = FALSE /\ out' = out /\ unopened' = unopened
    BY <1>5 DEF Leaves
  <2>2. RestTypeOK' /\ ViewWell' BY <1>1, <1>3, <2>1 DEF RestTypeOK, ViewWell, Mounted
  <2>3. Carries({}) BY <2>1, LeftCarry
  <2>4. EpochsKept /\ WaitsKept({}) BY <1>3, <2>1 DEF EpochsKept, WaitsKept
  <2>5. QED BY <1>2, <1>4, <2>2, <2>3, <2>4, StepKeeps
<1>6. CASE /\ tasks' = OldSession(tasks \ {t}) \cup {Activating(cookie, 1)}
           /\ out' = FALSE /\ unopened' = FALSE /\ submitting' = submitting
  <2>1. PICK n : n = Activating(cookie, 1) OBVIOUS
  <2>2. tasks' = OldSession(tasks \ {t}) \cup {n} BY <1>6, <2>1
  <2>3. n \in Task /\ n.op = "activate" /\ n.cookie = cookie /\ n.ans = Sent
    BY <1>1, <2>1, ActivatingType DEF RestTypeOK
  <2>4. RestTypeOK' /\ ViewWell' BY <1>1, <1>3, <1>6 DEF RestTypeOK, ViewWell, Mounted
  <2>5. Sound(n)
    <3>1. KnownCookie(n.cookie)' BY <1>3, <1>4, <2>3 DEF KnownCookie
    <3>2. TaskWell(n)' BY <2>3, <3>1, SentIsWell
    <3>3. QED BY <1>6, <2>3, <3>2 DEF Sound
  <2>6. tasks \ {t} \subseteq Task BY <1>1
  <2>7. Carries({n}) BY <2>2, <2>6, OldSessionAges DEF Carries
  <2>8. EpochsKept BY <1>6, <2>2, <2>3, <2>6, OldSessionAges DEF EpochsKept
  <2>9. WaitsKept({n}) BY <1>1, <1>3, <2>2, <2>3 DEF WaitsKept
  <2>10. QED BY <1>2, <1>4, <2>4, <2>5, <2>7, <2>8, <2>9, StepKeeps
<1>7. QED BY <1>5, <1>6 DEF PairSettles

\* An activation of the current session goes on as an import of its scope.
LEMMA ActivateSettlesKeeps ==
  ASSUME PageInv, NEW t \in tasks, ActivateSettles(t)
  PROVE  PageInv'
<1> USE AppHostAssumption
<1>1. /\ RestTypeOK /\ AppHostTypeOK /\ tasks \subseteq Task /\ ViewWell /\ KnownCookie(cookie)
      /\ TaskWell(t) /\ t.op = "activate" /\ t \in Task
  BY InvFacts DEF PageInv, TasksWell, ActivateSettles, Answered
<1>2. HostMoves BY <1>1, HostStays DEF ActivateSettles
<1>3. /\ hostSecret' = hostSecret /\ hostUsed' = hostUsed /\ hostAsked' = hostAsked
      /\ pendingId' = pendingId /\ pendingOf' = pendingOf /\ cookie' = cookie
      /\ out' = out /\ unopened' = unopened
      /\ mounted' = mounted /\ monitor' = monitor /\ chooser' = chooser /\ checking' = checking
  BY DEF ActivateSettles, choosing, waiting, apphost
<1>4. KnownCookie(cookie)' BY <1>1, <1>3 DEF KnownCookie
<1>5. CASE /\ Current(t) /\ Good(t)
           /\ tasks' = (tasks \ {t}) \cup {[t EXCEPT !.op = "import", !.scope = t.ans.scope]}
           /\ UNCHANGED <<submitting, connected>>
  <2>1. PICK n : n = [t EXCEPT !.op = "import", !.scope = t.ans.scope] OBVIOUS
  <2>2. t.ans.scope \in HostScopes BY <1>1, <1>5 DEF TaskWell
  <2>3. /\ n \in Task /\ n.op = "import" /\ n.scope \in HostScopes
        /\ n.cookie = t.cookie /\ n.session = t.session /\ n.ans = t.ans
    BY <1>1, <2>1, <2>2 DEF Task, Ops
  <2>4. TaskWell(n)'
    <3>1. KnownCookie(n.cookie)' BY <1>1, <1>3, <2>3 DEF TaskWell, KnownCookie
    <3>2. n.ans.is # "sent" BY <1>5, <2>3 DEF Good
    <3>3. QED BY <2>3, <3>1, <3>2 DEF TaskWell
  <2>5. Sound(n)
    <3>1. ASSUME out', n.session PROVE FALSE
      BY <1>1, <1>3, <2>3, <3>1 DEF PageInv, StaysOut, Activation
    <3>2. QED BY <2>3, <2>4, <3>1 DEF Sound
  <2>6. tasks' = (tasks \ {t}) \cup {n} /\ connected' = connected /\ submitting' = submitting
    BY <1>5, <2>1
  <2>7. Carries({n}) BY <2>6, LeftCarry
  <2>8. RestTypeOK' /\ ViewWell' BY <1>1, <1>3, <2>6 DEF RestTypeOK, ViewWell, Mounted
  <2>9. EpochsKept /\ WaitsKept({n}) BY <1>3, <2>3, <2>6 DEF EpochsKept, WaitsKept
  <2>10. QED BY <1>2, <1>4, <2>5, <2>7, <2>8, <2>9, StepKeeps
<1>6. CASE /\ ~(Current(t) /\ Good(t))
           /\ connected' = (connected /\ ~(Current(t) /\ t.ans.is = "no"))
           /\ Leaves(t) /\ ChainEnds(t)
  <2>1. /\ tasks' = tasks \ {t} /\ connected' \in BOOLEAN /\ (connected' => connected)
        /\ submitting' \in BOOLEAN
    BY <1>6 DEF Leaves, ChainEnds
  <2>2. RestTypeOK' /\ ViewWell' BY <1>1, <1>3, <2>1 DEF RestTypeOK, ViewWell, Mounted
  <2>3. Carries({}) BY <2>1, LeftCarry
  <2>4. EpochsKept /\ WaitsKept({}) BY <1>3, <2>1 DEF EpochsKept, WaitsKept
  <2>5. QED BY <1>2, <1>4, <2>2, <2>3, <2>4, StepKeeps
<1>7. QED BY <1>5, <1>6 DEF ActivateSettles

\* A view is mounted with nothing asked for, and only when no logout came
\* after its activation.
LEMMA ImportEndsKeeps ==
  ASSUME PageInv, NEW t \in tasks, ImportEnds(t)
  PROVE  PageInv'
<1> USE AppHostAssumption
<1>1. /\ RestTypeOK /\ AppHostTypeOK /\ tasks \subseteq Task /\ ViewWell /\ KnownCookie(cookie)
      /\ TaskWell(t) /\ t.op = "import" /\ t \in Task
  BY InvFacts DEF PageInv, TasksWell, ImportEnds
<1>2. HostMoves BY <1>1, HostStays DEF ImportEnds
<1>3. /\ hostSecret' = hostSecret /\ hostUsed' = hostUsed /\ hostAsked' = hostAsked
      /\ cookie' = cookie
      /\ out' = out /\ unopened' = unopened /\ checking' = checking /\ submitting' \in BOOLEAN
  BY DEF ImportEnds, apphost, ChainEnds
<1>4. KnownCookie(cookie)' BY <1>1, <1>3 DEF KnownCookie
<1>5. CASE /\ Current(t)
           /\ mounted' = t.scope /\ connected' = TRUE /\ monitor' = TRUE
           /\ ResetChooser /\ tasks' = OldChooser(tasks \ {t})
  <2>1. t.scope \in HostScopes BY <1>1 DEF TaskWell
  <2>2. ~out BY <1>1, <1>5 DEF PageInv, StaysOut, Activation, Current
  <2>3. pendingId' = 0 /\ pendingOf' = NoCookie /\ chooser' = ClosedChooser
    BY <1>5 DEF ResetChooser, NotPending
  <2>4. /\ 0 \in PageIds /\ NoCookie \in 0..NoCookie /\ t.scope \in Scoped
        /\ ClosedChooser \in [open : BOOLEAN, choices : SUBSET HostScopes, off : BOOLEAN]
    BY <2>1 DEF PageIds, NoCookie, Scoped, ClosedChooser
  <2>5. RestTypeOK' BY <1>1, <1>3, <1>5, <2>3, <2>4 DEF RestTypeOK
  <2>6. ViewWell' BY <1>3, <1>5, <2>1, <2>2, <2>3, PageAssumption DEF ViewWell, Mounted
  <2>7. tasks \ {t} \subseteq Task BY <1>1
  <2>8. Carries({}) BY <1>5, <2>7, OldChooserAges DEF Carries
  <2>9. EpochsKept BY <1>3 DEF EpochsKept
  <2>10. WaitsKept({}) BY <1>5, <2>3, <2>7, OldChooserAges DEF WaitsKept
  <2>11. QED BY <1>2, <1>4, <2>5, <2>6, <2>8, <2>9, <2>10, StepKeeps
<1>6. CASE Leaves(t) /\ KeepView
  <2>1. /\ tasks' = tasks \ {t} /\ connected' = connected /\ mounted' = mounted
        /\ monitor' = monitor /\ chooser' = chooser
        /\ pendingId' = pendingId /\ pendingOf' = pendingOf
    BY <1>6 DEF Leaves, KeepView, panels, choosing, waiting
  <2>2. RestTypeOK' /\ ViewWell' BY <1>1, <1>3, <2>1 DEF RestTypeOK, ViewWell, Mounted
  <2>3. Carries({}) BY <2>1, LeftCarry
  <2>4. EpochsKept /\ WaitsKept({}) BY <1>3, <2>1 DEF EpochsKept, WaitsKept
  <2>5. QED BY <1>2, <1>4, <2>2, <2>3, <2>4, StepKeeps
<1>7. QED BY <1>5, <1>6 DEF ImportEnds

LEMMA VerifySettlesKeeps ==
  ASSUME PageInv, NEW t \in tasks, VerifySettles(t)
  PROVE  PageInv'
<1> USE AppHostAssumption
<1>1. /\ RestTypeOK /\ AppHostTypeOK /\ tasks \subseteq Task /\ ViewWell /\ KnownCookie(cookie)
      /\ TaskWell(t) /\ t.op = "verify" /\ t \in Task
  BY InvFacts DEF PageInv, TasksWell, VerifySettles, Answered
<1>2. HostMoves BY <1>1, HostStays DEF VerifySettles
<1>3. /\ hostSecret' = hostSecret /\ hostUsed' = hostUsed /\ hostAsked' = hostAsked
      /\ cookie' = cookie /\ out' = out /\ unopened' = unopened /\ submitting' = submitting
  BY DEF VerifySettles, apphost
<1>4. KnownCookie(cookie)' BY <1>1, <1>3 DEF KnownCookie
<1>5. CASE RevokeView(t) /\ CheckEnds
  <2>1. /\ mounted' = NoScope /\ connected' = FALSE /\ monitor' = FALSE
        /\ pendingId' = 0 /\ pendingOf' = NoCookie
        /\ chooser' \in [open : BOOLEAN, choices : SUBSET HostScopes, off : BOOLEAN]
        /\ ViewWell'
    BY <1>5, UnmountClears DEF RevokeView
  <2>2. NoScope \in Scoped /\ 0 \in PageIds /\ NoCookie \in 0..NoCookie
    BY DEF Scoped, PageIds, NoCookie
  <2>3. RestTypeOK' BY <1>1, <1>3, <1>5, <2>1, <2>2 DEF RestTypeOK, CheckEnds
  <2>4. tasks' = OldChooser(OldSession(tasks \ {t})) /\ tasks \ {t} \subseteq Task
    BY <1>1, <1>5 DEF RevokeView
  <2>5. Carries({}) BY <2>4, OldBothAge DEF Carries
  <2>6. EpochsKept /\ WaitsKept({}) BY <1>3, <2>1 DEF EpochsKept, WaitsKept
  <2>7. QED BY <1>2, <1>4, <2>1, <2>3, <2>5, <2>6, StepKeeps
<1>6. CASE /\ tasks' = (tasks \ {t}) \cup {NewTask("poll", cookie, pendingId, NoScope)}
           /\ KeepView /\ UNCHANGED checking
  <2>1. PICK n : n = NewTask("poll", cookie, pendingId, NoScope) OBVIOUS
  <2>2. n \in Task /\ n.op = "poll" /\ n.cookie = cookie /\ n.ans = Sent
    <3>1. pendingId \in Numbers /\ NoScope \in Scoped BY <1>1 DEF RestTypeOK, Numbers, Scoped
    <3>2. n \in Task BY <1>1, <2>1, <3>1, NewTaskType DEF Ops, RestTypeOK
    <3>3. QED BY <2>1, <3>2 DEF NewTask
  <2>3. /\ tasks' = (tasks \ {t}) \cup {n} /\ connected' = connected /\ mounted' = mounted
        /\ monitor' = monitor /\ chooser' = chooser /\ checking' = checking
        /\ pendingId' = pendingId /\ pendingOf' = pendingOf
    BY <1>6, <2>1 DEF KeepView, panels, choosing, waiting
  <2>4. RestTypeOK' /\ ViewWell' BY <1>1, <1>3, <2>3 DEF RestTypeOK, ViewWell, Mounted
  <2>5. Sound(n)
    <3>1. KnownCookie(n.cookie)' BY <1>3, <1>4, <2>2 DEF KnownCookie
    <3>2. TaskWell(n)' BY <2>2, <3>1, SentIsWell
    <3>3. QED BY <2>2, <3>2 DEF Sound, Activation
  <2>6. Carries({n}) BY <2>3, LeftCarry
  <2>7. EpochsKept /\ WaitsKept({n}) BY <1>3, <2>2, <2>3 DEF EpochsKept, WaitsKept
  <2>8. QED BY <1>2, <1>4, <2>4, <2>5, <2>6, <2>7, StepKeeps
<1>7. CASE Leaves(t) /\ CheckEnds /\ KeepView
  <2>1. /\ tasks' = tasks \ {t} /\ connected' = connected /\ mounted' = mounted
        /\ monitor' = monitor /\ chooser' = chooser /\ checking' = FALSE
        /\ pendingId' = pendingId /\ pendingOf' = pendingOf
    BY <1>7 DEF Leaves, CheckEnds, KeepView, panels, choosing, waiting
  <2>2. RestTypeOK' /\ ViewWell' BY <1>1, <1>3, <2>1 DEF RestTypeOK, ViewWell, Mounted
  <2>3. Carries({}) BY <2>1, LeftCarry
  <2>4. EpochsKept /\ WaitsKept({}) BY <1>3, <2>1 DEF EpochsKept, WaitsKept
  <2>5. QED BY <1>2, <1>4, <2>2, <2>3, <2>4, StepKeeps
<1>8. QED BY <1>5, <1>6, <1>7 DEF VerifySettles

LEMMA PollSettlesKeeps ==
  ASSUME PageInv, NEW t \in tasks, PollSettles(t)
  PROVE  PageInv'
<1> USE AppHostAssumption
<1>1. /\ RestTypeOK /\ AppHostTypeOK /\ tasks \subseteq Task /\ ViewWell /\ KnownCookie(cookie)
      /\ TaskWell(t) /\ t.op = "poll" /\ t \in Task
  BY InvFacts DEF PageInv, TasksWell, PollSettles, Answered
<1>2. HostMoves BY <1>1, HostStays DEF PollSettles
<1>3. /\ hostSecret' = hostSecret /\ hostUsed' = hostUsed /\ hostAsked' = hostAsked
      /\ cookie' = cookie
      /\ out' = out /\ unopened' = unopened /\ submitting' = submitting /\ checking' = FALSE
      /\ mounted' = mounted /\ connected' = connected /\ monitor' = monitor
      /\ tasks' = tasks \ {t}
  BY DEF PollSettles, apphost, panels, CheckEnds, Leaves
<1>4. KnownCookie(cookie)' BY <1>1, <1>3 DEF KnownCookie
<1>5. /\ \/ pendingId' = 0 /\ pendingOf' = NoCookie
         \/ pendingId' = pendingId /\ pendingOf' = pendingOf
      /\ chooser' \in {chooser, [chooser EXCEPT !.off = FALSE]}
  BY DEF PollSettles, NotPending, choosing, waiting
<1>6. RestTypeOK'
  <2>1. 0 \in PageIds /\ NoCookie \in 0..NoCookie BY DEF PageIds, NoCookie
  <2>2. chooser' \in [open : BOOLEAN, choices : SUBSET HostScopes, off : BOOLEAN]
    BY <1>1, <1>5 DEF RestTypeOK
  <2>3. QED BY <1>1, <1>3, <1>5, <2>1, <2>2 DEF RestTypeOK
<1>7. ViewWell' BY <1>1, <1>3, <1>5 DEF ViewWell, Mounted
<1>8. Carries({}) BY <1>3, LeftCarry
<1>9. EpochsKept /\ WaitsKept({}) BY <1>3, <1>5 DEF EpochsKept, WaitsKept
<1>10. QED BY <1>2, <1>4, <1>6, <1>7, <1>8, <1>9, StepKeeps

LEMMA ListSettlesKeeps ==
  ASSUME PageInv, NEW t \in tasks, ListSettles(t)
  PROVE  PageInv'
<1> USE AppHostAssumption
<1>1. /\ RestTypeOK /\ AppHostTypeOK /\ tasks \subseteq Task /\ ViewWell /\ KnownCookie(cookie)
      /\ TaskWell(t) /\ t.op = "list" /\ t \in Task
  BY InvFacts DEF PageInv, TasksWell, ListSettles, Answered
<1>2. HostMoves BY <1>1, HostStays DEF ListSettles
<1>3. /\ hostSecret' = hostSecret /\ hostUsed' = hostUsed /\ hostAsked' = hostAsked
      /\ cookie' = cookie
      /\ out' = out /\ unopened' = unopened /\ submitting' = submitting /\ checking' = checking
      /\ mounted' = mounted /\ connected' = connected /\ monitor' = monitor
      /\ pendingId' = pendingId /\ pendingOf' = pendingOf
      /\ tasks' = tasks \ {t}
  BY DEF ListSettles, apphost, panels, waiting, Leaves
<1>4. KnownCookie(cookie)' BY <1>1, <1>3 DEF KnownCookie
<1>5. chooser' \in [open : BOOLEAN, choices : SUBSET HostScopes, off : BOOLEAN]
  <2>1. HostScopes \ {mounted} \in SUBSET HostScopes OBVIOUS
  <2>2. chooser \in [open : BOOLEAN, choices : SUBSET HostScopes, off : BOOLEAN]
    BY <1>1 DEF RestTypeOK
  <2>3. \/ chooser' = chooser
        \/ \E b \in BOOLEAN :
             chooser' = [open |-> TRUE, choices |-> HostScopes \ {mounted}, off |-> b]
    BY DEF ListSettles
  <2>4. ASSUME NEW b \in BOOLEAN, NEW c \in SUBSET HostScopes
        PROVE  [open |-> TRUE, choices |-> c, off |-> b]
                 \in [open : BOOLEAN, choices : SUBSET HostScopes, off : BOOLEAN]
    OBVIOUS
  <2>5. CASE chooser' = chooser BY <2>2, <2>5
  <2>6. CASE chooser' # chooser
    <3>1. PICK b \in BOOLEAN :
            chooser' = [open |-> TRUE, choices |-> HostScopes \ {mounted}, off |-> b]
      BY <2>3, <2>6
    <3>2. QED BY <2>1, <2>4, <3>1
  <2>7. QED BY <2>5, <2>6
<1>6. RestTypeOK' /\ ViewWell' BY <1>1, <1>3, <1>5 DEF RestTypeOK, ViewWell, Mounted
<1>7. Carries({}) BY <1>3, LeftCarry
<1>8. EpochsKept /\ WaitsKept({}) BY <1>3 DEF EpochsKept, WaitsKept
<1>9. QED BY <1>2, <1>4, <1>6, <1>7, <1>8, StepKeeps

\* The request of the current chooser is of the latest code: a later pairing
\* would have reset the chooser.
LEMMA AskSettlesKeeps ==
  ASSUME PageInv, NEW t \in tasks, AskSettles(t)
  PROVE  PageInv'
<1> USE AppHostAssumption
<1>1. /\ RestTypeOK /\ AppHostTypeOK /\ tasks \subseteq Task /\ ViewWell /\ KnownCookie(cookie)
      /\ TaskWell(t) /\ t.op = "ask" /\ t \in Task
  BY InvFacts DEF PageInv, TasksWell, AskSettles, Answered
<1>2. HostMoves BY <1>1, HostStays DEF AskSettles
<1>3. /\ hostSecret' = hostSecret /\ hostUsed' = hostUsed /\ hostAsked' = hostAsked
      /\ cookie' = cookie
      /\ out' = out /\ unopened' = unopened /\ submitting' = submitting /\ checking' = checking
      /\ mounted' = mounted /\ connected' = connected /\ monitor' = monitor
      /\ tasks' = tasks \ {t}
  BY DEF AskSettles, apphost, panels, Leaves
<1>4. KnownCookie(cookie)' BY <1>1, <1>3 DEF KnownCookie
<1>5. CASE /\ Mounted /\ t.chooser /\ Good(t)
           /\ pendingId' = t.ans.id /\ pendingOf' = t.cookie /\ UNCHANGED chooser
  <2>1. t.cookie <= hostSecret /\ t.ans.id <= hostAsked BY <1>1, <1>5 DEF TaskWell
  <2>2. t.ans.id \in PageIds /\ t.cookie \in 0..NoCookie
    BY <1>1, <2>1 DEF Task, Answer, AppHostTypeOK, PageIds, NoCookie
  <2>3. RestTypeOK' BY <1>1, <1>3, <1>5, <2>2 DEF RestTypeOK
  <2>4. ViewWell' BY <1>1, <1>3, <1>5, <2>1 DEF ViewWell, Mounted
  <2>5. connected => Latest(pendingOf') BY <1>1, <1>5 DEF PageInv, LatestWell
  <2>6. Carries({}) BY <1>3, LeftCarry
  <2>7. EpochsKept /\ WaitsKept({}) BY <1>3, <2>5 DEF EpochsKept, WaitsKept
  <2>8. QED BY <1>2, <1>4, <2>3, <2>4, <2>6, <2>7, StepKeeps
<1>6. CASE UNCHANGED waiting /\ chooser' \in {chooser, [chooser EXCEPT !.off = FALSE]}
  <2>1. pendingId' = pendingId /\ pendingOf' = pendingOf BY <1>6 DEF waiting
  <2>2. chooser' \in [open : BOOLEAN, choices : SUBSET HostScopes, off : BOOLEAN]
    BY <1>1, <1>6 DEF RestTypeOK
  <2>3. RestTypeOK' /\ ViewWell' BY <1>1, <1>3, <2>1, <2>2 DEF RestTypeOK, ViewWell, Mounted
  <2>4. Carries({}) BY <1>3, LeftCarry
  <2>5. EpochsKept /\ WaitsKept({}) BY <1>3, <2>1 DEF EpochsKept, WaitsKept
  <2>6. QED BY <1>2, <1>4, <2>3, <2>4, <2>5, StepKeeps
<1>7. QED BY <1>5, <1>6 DEF AskSettles, CurrentChooser, choosing

LEMMA LogoutSettlesKeeps ==
  ASSUME PageInv, NEW t \in tasks, LogoutSettles(t)
  PROVE  PageInv'
<1> USE AppHostAssumption
<1>1. /\ RestTypeOK /\ AppHostTypeOK /\ tasks \subseteq Task /\ ViewWell /\ KnownCookie(cookie)
      /\ TaskWell(t) /\ t.op = "logout" /\ t \in Task
  BY InvFacts DEF PageInv, TasksWell, LogoutSettles, Answered
<1>2. HostMoves BY <1>1, HostStays DEF LogoutSettles
<1>3. /\ hostSecret' = hostSecret /\ hostUsed' = hostUsed /\ hostAsked' = hostAsked
      /\ out' = out /\ unopened' = unopened /\ submitting' = submitting /\ checking' = checking
      /\ mounted' = mounted /\ connected' = connected /\ monitor' = monitor /\ chooser' = chooser
      /\ pendingId' = pendingId /\ pendingOf' = pendingOf
      /\ tasks' = tasks \ {t} /\ cookie' \in {cookie, NoCookie}
  BY DEF LogoutSettles, apphost, KeepView, panels, choosing, waiting, Leaves
<1>4. KnownCookie(cookie)' BY <1>1, <1>3 DEF KnownCookie
<1>5. RestTypeOK' /\ ViewWell'
  <2>1. NoCookie \in 0..NoCookie BY DEF NoCookie
  <2>2. QED BY <1>1, <1>3, <2>1 DEF RestTypeOK, ViewWell, Mounted
<1>6. Carries({}) BY <1>3, LeftCarry
<1>7. EpochsKept /\ WaitsKept({}) BY <1>3 DEF EpochsKept, WaitsKept
<1>8. QED BY <1>2, <1>4, <1>5, <1>6, <1>7, StepKeeps

----------------------------------------------------------------------------
(* The theorems *)

LEMMA PageInitInv ==
  ASSUME PageInit
  PROVE  PageInv
<1> USE AppHostAssumption
<1>1. PICK n : tasks = {n} /\ n = [op |-> "activate", cookie |-> NoCookie, scope |-> NoScope,
               id |-> 0, target |-> NoScope, session |-> TRUE, chooser |-> TRUE, ans |-> Sent]
  BY DEF PageInit
<1>2. n \in Task
  <2>1. Sent \in Answer BY DEF Sent, Answer, NoCookie, PageIds
  <2>2. QED BY <1>1, <2>1 DEF Task, Ops, NoCookie, PageIds
<1>3. TaskWell(n) BY <1>1 DEF TaskWell, KnownCookie, Good, Sent
<1>4. AppHostTypeOK
  <2>1. NoHostRequest \in [id : 0..MaxHostAsks, state : {"none", "pending", "denied", "expired"}]
    BY DEF NoHostRequest
  <2>2. hostRequest = NoHostRequest /\ hostSecret = 0 /\ hostAsked = 0 BY DEF PageInit, AppHostInit
  <2>3. hostScope \in HostScopes /\ hostUsed = FALSE /\ hostLive = FALSE
    BY DEF PageInit, AppHostInit
  <2>4. 0 \in 0..MaxHostSecret /\ 0 \in 0..MaxHostAsks OBVIOUS
  <2>5. QED BY <2>1, <2>2, <2>3, <2>4 DEF AppHostTypeOK
<1>5. PageTypeOK
  <2>1. ClosedChooser \in [open : BOOLEAN, choices : SUBSET HostScopes, off : BOOLEAN]
    BY DEF ClosedChooser
  <2>2. 0 \in PageIds /\ NoCookie \in 0..NoCookie BY DEF NoCookie, PageIds
  <2>3. QED BY <1>1, <1>2, <1>4, <2>1, <2>2 DEF PageInit, PageTypeOK
<1>6. ViewWell /\ KnownCookie(cookie) BY DEF PageInit, ViewWell, Mounted, KnownCookie
<1>7. TasksWell /\ StaysOut /\ ChecksWell /\ LatestWell
  BY <1>1, <1>3 DEF PageInit, TasksWell, StaysOut, ChecksWell, LatestWell
<1>8. QED BY <1>5, <1>6, <1>7 DEF PageInv

LEMMA PageNextInv ==
  ASSUME PageInv, [PageNext]_pagevars
  PROVE  PageInv'
<1>1. CASE UserOfPage
  BY <1>1, SubmitPairKeeps, OpenChooserKeeps, HideChooserKeeps, ClickLogoutKeeps, ReloadKeeps,
     SubmitRequestKeeps DEF UserOfPage
<1>2. ASSUME NEW t \in tasks, Settles(t) PROVE PageInv'
  BY <1>2, PairAnsweredKeeps, PairSettlesKeeps, ActivateSettlesKeeps, ImportEndsKeeps,
     VerifySettlesKeeps, PollSettlesKeeps, ListSettlesKeeps, AskSettlesKeeps, LogoutSettlesKeeps DEF Settles
<1>3. CASE UNCHANGED pagevars
  <2>1. HostMoves BY <1>3, InvFacts, HostStays DEF pagevars
  <2>2. QED BY <1>3, <2>1, HostKeeps DEF pagevars
<1>4. QED
  BY <1>1, <1>2, <1>3, VerifyHostSessionKeeps, HostOfPageKeeps, HandlesKeeps, LosesKeeps
  DEF PageNext

LEMMA PageInductive == PageSpec => []PageInv
BY PageInitInv, PageNextInv, PTL DEF PageSpec

\* A mounted view is watched, a logout is not undone by an answer that comes
\* late, and the request the page waits for is one it made in the session it
\* shows (boot.js 82, 100-104, 157-167, 203).
THEOREM PageStaysOfSession == PageSpec => []PageIsOfSession
<1>1. ASSUME PageInv PROVE PageIsOfSession
  <2>1. RestTypeOK /\ AppHostTypeOK /\ ViewWell BY <1>1, InvFacts
  <2>2. ASSUME pendingId # 0, connected, SessionOfView PROVE pendingOf = hostSecret
    <3>1. Latest(pendingOf) /\ pendingOf <= hostSecret
      BY <1>1, <2>1, <2>2 DEF PageInv, LatestWell, ViewWell
    <3>2. hostSecret \in Nat /\ pendingOf \in Nat /\ hostSecret # NoCookie
      BY <2>1, AppHostAssumption DEF RestTypeOK, AppHostTypeOK, NoCookie
    <3>3. hostSecret <= pendingOf BY <2>2, <3>1, <3>2 DEF Latest, SessionOfView
    <3>4. QED BY <3>1, <3>2, <3>3
  <2>3. QED BY <1>1, <2>1, <2>2 DEF PageInv, PageIsOfSession, ViewWell
<1>2. QED BY <1>1, PageInductive, PTL

\* A check that found no session, or another workspace, found so of the
\* session its cookie was of.
LEMMA CheckIsRight ==
  ASSUME PageInv, ~unopened, NEW t \in tasks, t.op = "verify", t.session, Mounted,
         t.ans # Sent, ~(Good(t) /\ t.ans.scope = mounted), t.ans.is # "lost"
  PROVE  ~SessionOfView
<1>1. AppHostTypeOK /\ t \in Task /\ TaskWell(t) /\ cookie \in {t.cookie, NoCookie}
  BY InvFacts DEF PageInv, TasksWell, ChecksWell
<1>2. SUFFICES ASSUME SessionOfView PROVE FALSE OBVIOUS
<1>3. t.cookie = hostSecret
  BY <1>1, <1>2, AppHostAssumption DEF SessionOfView, AppHostTypeOK, NoCookie
<1>4. t.ans.is = "no" \/ Good(t) BY <1>1 DEF TaskWell, Good, Task, Answer
<1>5. QED BY <1>1, <1>2, <1>3, <1>4 DEF TaskWell, SessionOfView

\* A view goes by itself only when its session has, or when a check of its own
\* was lost (boot.js 139-140), or the page is paired anew and the view is of
\* the session before (193-198).
THEOREM RevocationHasCause == PageSpec => RevokedForCause
<1> DEFINE Cause == Mounted /\ mounted' = NoScope
                     => \/ ~SessionOfView \/ unopened \/ out' # out
                        \/ \E t \in tasks \ tasks' : t.op = "verify" /\ t.session /\ t.ans.is = "lost"
                        \/ Reload
<1>1. ASSUME PageInv, [PageNext]_pagevars PROVE [Cause]_pagevars
  <2>1. SUFFICES ASSUME PageNext, Mounted, mounted' = NoScope, ~Reload, out' = out,
                        SessionOfView, ~unopened
                 PROVE  \E t \in tasks \ tasks' : t.op = "verify" /\ t.session /\ t.ans.is = "lost"
    BY <1>1
  <2>2. mounted' # mounted BY <2>1 DEF Mounted
  <2>3. CASE UserOfPage
    <3>1. CASE ClickLogout
      BY <1>1, <2>1, <3>1 DEF ClickLogout, PageInv, ViewWell
    <3>2. QED
      BY <2>1, <2>2, <2>3, <3>1
      DEF UserOfPage, SubmitPair, OpenChooser, HideChooser, SubmitRequest, panels
  <2>4. CASE VerifyHostSession BY <2>2, <2>4 DEF VerifyHostSession, panels
  <2>5. CASE HostOfPage BY <2>2, <2>5 DEF HostOfPage, page
  <2>6. ASSUME NEW t \in tasks, Handles(t) \/ Loses(t) PROVE FALSE
    BY <2>2, <2>6 DEF Handles, Loses, panels
  <2>7. ASSUME NEW t \in tasks, Settles(t)
        PROVE  t \notin tasks' /\ t.op = "verify" /\ t.session /\ t.ans.is = "lost"
    <3>1. CASE ImportEnds(t)
      BY <1>1, <2>1, <2>2, <3>1, PageAssumption
      DEF ImportEnds, PageInv, TasksWell, TaskWell, KeepView, panels
    <3>2. ASSUME VerifySettles(t)
          PROVE  t \notin tasks' /\ t.op = "verify" /\ t.session /\ t.ans.is = "lost"
      <4>1. /\ t.op = "verify" /\ t.session /\ t.ans # Sent /\ RevokeView(t)
            /\ ~(Good(t) /\ t.ans.scope = mounted)
        BY <2>2, <3>2 DEF VerifySettles, Answered, KeepView, panels, Current
      <4>2. t.ans.is = "lost" BY <1>1, <2>1, <4>1, CheckIsRight
      <4>3. tasks' = OldChooser(OldSession(tasks \ {t})) /\ tasks \ {t} \subseteq Task
        BY <1>1, <4>1, InvFacts DEF RevokeView
      <4>4. t \notin tasks' BY <4>1, <4>3, OldBothAge
      <4>5. QED BY <4>1, <4>2, <4>4
    <3>3. QED
      BY <2>2, <2>7, <3>1, <3>2
      DEF Settles, PairAnswered, PairSettles, ActivateSettles, PollSettles, ListSettles, AskSettles,
          LogoutSettles, KeepView, panels
  <2>8. QED BY <2>1, <2>3, <2>4, <2>5, <2>6, <2>7 DEF PageNext
<1>2. QED BY <1>1, PageInductive, PTL DEF PageSpec, RevokedForCause
=============================================================================
