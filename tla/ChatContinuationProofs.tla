----------------------- MODULE ChatContinuationProofs -----------------------
(***************************************************************************)
(* What a message continues, for any messages and bounds: every other run  *)
(* of its session has ended, and without a notice it carries a turn of     *)
(* each of them in the owner's order, but for the runs that were left.     *)
(* The argument is an invariant of the view rather than of a message: of   *)
(* the session a view is about, whatever its phase, only the run it shows  *)
(* may be alive (SessionEnded), and its turns are those of all the others  *)
(* (ViewCarries).  An open relies on the owner's list, so what has ended   *)
(* must be a prefix of the log of the session (LogEnded); a create under   *)
(* way may come late, so it is the view's own or left (LateIsLeft).        *)
(***************************************************************************)
EXTENDS ChatContinuation, ChatRunProofs

\* A run that has ended, or of which nothing is said.
Done(k) == runs[k].status \in FinalStatus \/ k \in left

\* A create call of another epoch, whose run is still to come, is of a run left.
LateIsLeft ==
  \A c \in calls : c.op = "create" =>
    c.epoch = epoch \/ runs[c.req.key] # NoRun \/ c.req.key \in left

\* Every other run of the view's session has ended, and every run that another
\* one of its session follows in the log; if not left.
SessionEnded ==
  \A k \in Asks : InSession(k, CurrentSession) /\ k # Current => Done(k)
LogEnded ==
  \A i, j \in DOMAIN log :
    i < j /\ runs[log[i]].session = runs[log[j]].session /\ log[j] \notin left
      => Done(log[i])

\* What the answers of a session to be opened, or of a run to be recovered, show.
CallsComplete ==
  \A c \in calls : c.epoch = epoch =>
    /\ c.op = "open" /\ c.ans.is = "rows" =>
         \A k \in Asks \ left :
           InSession(k, c.run) => \E i \in DOMAIN c.ans.rows : c.ans.rows[i].run = k
    /\ c.op = "recover" =>
         \A k \in Asks : InSession(k, SessionOf(c.run)) /\ k # c.run => Done(k)

EndedInv ==
  /\ RunsWell /\ RunsKnown /\ RequestsWell /\ OwnSession /\ RowsWell
  /\ LateIsLeft /\ SessionEnded /\ LogEnded /\ CallsComplete

\* Turns of all the runs of session s but `own` and those left, in order.
Carries(turns, s, own) ==
  /\ \A i \in DOMAIN turns : turns[i].ask = turns[i].run /\ InSession(turns[i].run, s)
  /\ OrderedRows(turns)
  /\ \A k \in Asks \ left :
       InSession(k, s) /\ k # own => \E i \in DOMAIN turns : turns[i].run = k

Complete == ~limited /\ ~cut
OwnTurn == [ask |-> request.key, run |-> request.key]
MessageCarries ==
  request # NoRequest /\ Complete =>
    /\ Carries(request.ctx, SessionNamed(request), request.key)
    /\ runs[request.key] # NoRun =>
         \A i \in DOMAIN request.ctx : LoggedBefore(request.ctx[i].run, request.key)
    /\ confirmed = IF confirmedRun = request.key THEN Append(request.ctx, OwnTurn)
                   ELSE request.ctx
ViewCarries ==
  request = NoRequest =>
    /\ ~cut
    /\ view.run # NoAsk /\ ~limited => Carries(confirmed, SessionOf(view.run), NoAsk)
ConfirmedWell ==
  /\ view.phase = "idle" => request = NoRequest /\ confirmed = << >>
  /\ view.phase = "completed" /\ request # NoRequest => confirmedRun = request.key
  /\ confirmedRun # NoAsk => confirmedRun \in used
  /\ request.session = NoAsk => request.ctx = << >>

WholeInv == MessageCarries /\ ViewCarries /\ ConfirmedWell

----------------------------------------------------------------------------
(* What has ended remains so *)

LEMMA DoneStays ==
  ASSUME IInv, [Next]_vars, left \subseteq left', NEW k \in Asks, Done(k)
  PROVE  Done(k)'
BY OwnerStep DEF Done

\* A run that is created is of the present request, or was left.
LEMMA Newcomer ==
  ASSUME IInv, LateIsLeft, [Next]_vars, NEW c \in calls, Creates(c)
  PROVE  /\ c.req.key \in Asks
         /\ c.req.key \in left \/ (c.req = request /\ request # NoRequest)
         /\ UNCHANGED <<request, view, confirmed, confirmedRun, limited, epoch, used>>
<1>1. c.req.key \in Asks /\ c.op = "create" /\ runs[c.req.key] = NoRun
  BY DEF Creates, IInv, CallsWell
<1>2. c.req.key \in left \/ c.epoch = epoch
  BY <1>1 DEF LateIsLeft
<1>3. c.epoch = epoch => c.req = request
  BY <1>1 DEF IInv, CallsOwn
<1>4. NoRequest.key = NoAsk
  BY DEF NoRequest
<1> QED
  BY <1>1, <1>2, <1>3, <1>4, ChatAssumption DEF Creates, controller, epochs, context

\* Hence another run of a session is new only when it was left, or is the
\* present message's.
LEMMA NewInSession ==
  ASSUME IInv, LateIsLeft, [Next]_vars, NEW k \in Asks, NEW s, InSession(k, s)'
  PROVE  \/ InSession(k, s)
         \/ k \in left
         \/ /\ request # NoRequest /\ request' = request
            /\ k = request.key /\ s = SessionNamed(request)
<1>1. ASSUME NEW c \in calls, Creates(c), c.req.key = k, s = SessionNamed(c.req)
      PROVE  k \in left \/ (/\ request # NoRequest /\ request' = request
                            /\ k = request.key /\ s = SessionNamed(request))
  BY <1>1, Newcomer
<1> QED
  BY <1>1, InSessionNew

----------------------------------------------------------------------------
(* Every step keeps EndedInv *)

\* Once every run of a session but one has ended, or was left, it remains so:
\* the runs that join are left or the present message's.
LEMMA StaysEnded ==
  ASSUME IInv, LateIsLeft, LeftNext, NEW s, NEW own,
         \A k \in Asks : InSession(k, s) /\ k # own => Done(k),
         request = NoRequest \/ own = request.key \/ s # SessionNamed(request)
  PROVE  \A k \in Asks : InSession(k, s)' /\ k # own => Done(k)'
<1> SUFFICES ASSUME NEW k \in Asks, InSession(k, s)', k # own
             PROVE  Done(k)'
  OBVIOUS
<1>1. [Next]_vars /\ left \subseteq left'
  BY DEF LeftNext
<1>2. InSession(k, s) \/ k \in left
  BY <1>1, NewInSession
<1>3. Done(k)
  BY <1>2 DEF Done
<1> QED
  BY <1>1, <1>3, DoneStays

LEMMA SessionEndedStep ==
  ASSUME IInv, TurnsInv, EndedInv, LeftNext
  PROVE  SessionEnded'
<1>0. /\ [Next]_vars /\ left \subseteq left' /\ RunsWell /\ RunsKnown /\ RowsWell /\ LateIsLeft
      /\ OwnSession /\ SessionEnded /\ LogEnded /\ CallsComplete /\ RunsWell' /\ NoAsk \notin Asks
  BY RunsWellStep, ChatAssumption DEF LeftNext, EndedInv
<1>1. CASE GoesOn /\ request # NoRequest
  <2>1. request' = request
    BY <1>1 DEF GoesOn
  <2>2. PICK s, own : s = SessionNamed(request) /\ own = request.key
    OBVIOUS
  <2>3. \A k \in Asks : InSession(k, s) /\ k # own => Done(k)
    BY <2>2, <1>0, <1>1 DEF SessionEnded, Current, CurrentSession
  <2>4. \A k \in Asks : InSession(k, s)' /\ k # own => Done(k)'
    BY <2>2, <2>3, <1>0, StaysEnded
  <2> QED
    BY <2>1, <2>2, <2>4, <1>1 DEF SessionEnded, Current, CurrentSession, SessionNamed
<1>2. ASSUME request' = NoRequest, view'.run = NoAsk
      PROVE  SessionEnded'
  <2>1. CurrentSession' = NoAsk
    BY <1>2 DEF CurrentSession, SessionOf
  <2>2. \A k \in Asks : ~InSession(k, NoAsk)'
    BY <1>0 DEF RunsWell, InSession
  <2> QED
    BY <2>1, <2>2 DEF SessionEnded, InSession
<1>3. ASSUME request' = NoRequest, NEW own \in Asks, view'.run = own, NEW s, InSession(own, s)',
             \A k \in Asks : InSession(k, s)' /\ k # own => Done(k)'
      PROVE  SessionEnded'
  <2>1. own # NoAsk
    BY <1>0
  <2>2. CurrentSession' = s /\ Current' = own
    BY <1>3, <2>1 DEF CurrentSession, Current, SessionOf, InSession
  <2> QED
    BY <2>2, <1>3 DEF SessionEnded, InSession
<1>4. CASE GoesOn /\ request = NoRequest /\ view.run # NoAsk
  <2>1. request' = NoRequest /\ view'.run = view.run
    BY <1>4 DEF GoesOn
  <2>2. PICK own \in Asks : own = view.run
    BY <1>4 DEF IInv, TypeOK, View, Asks0
  <2>7. PICK s : s = runs[own].session
    OBVIOUS
  <2>3. InSession(own, s)
    BY <2>2, <2>7, <1>0, <1>4 DEF InSession, RunsKnown
  <2>4. \A k \in Asks : InSession(k, s) /\ k # own => Done(k)
    BY <2>2, <2>7, <1>0, <1>4 DEF SessionEnded, Current, CurrentSession, SessionOf
  <2>5. \A k \in Asks : InSession(k, s)' /\ k # own => Done(k)'
    BY <2>4, <1>0, <1>4, StaysEnded
  <2>6. InSession(own, s)'
    BY <2>3, <1>0, InSessionStays
  <2> QED
    BY <2>1, <2>2, <2>7, <2>5, <2>6, <1>3
<1>5. CASE Send
  <2>1. PICK own \in Asks \ used : own = request'.key
    BY <1>5, <1>0, SendStep
  <2>0. PICK s : s = SessionNamed(request')
    OBVIOUS
  <2>2. runs' = runs /\ request' # NoRequest
    BY <1>5, <1>0, SendStep DEF owner
  <2>3. ASSUME NEW k \in Asks, InSession(k, s), k # own
        PROVE  Done(k)
    <3>1. CASE request'.session = NoAsk
      <4>1. s = own
        BY <2>1, <2>0, <3>1 DEF SessionNamed
      <4> QED
        BY <4>1, <2>3, <1>0, FreshKey
    <3>2. CASE request'.session # NoAsk
      <4>1. /\ s = CurrentSession /\ Current = view.run
            /\ runs[view.run].status \in FinalStatus
        BY <2>1, <2>0, <3>2, <1>5, <1>0, SendStep DEF SessionNamed
      <4>2. CASE k = view.run
        BY <4>1, <4>2 DEF Done
      <4> QED
        BY <4>1, <4>2, <2>3, <1>0 DEF SessionEnded
    <3> QED
      BY <3>1, <3>2
  <2>4. ASSUME NEW k \in Asks, InSession(k, s)', k # own
        PROVE  Done(k)'
    <3>1. InSession(k, s)
      BY <2>2, <2>4 DEF InSession
    <3> QED
      BY <3>1, <2>3, <2>4, <1>0, DoneStays
  <2> QED
    BY <2>1, <2>0, <2>2, <2>4 DEF SessionEnded, Current, CurrentSession, SessionNamed, InSession
<1>6. ASSUME NEW c \in calls, ShowsSession(c)
      PROVE  SessionEnded'
  <2>0. /\ Len(c.ans.rows) \in DOMAIN c.ans.rows /\ view'.run = Newest(c.ans.rows)
        /\ Newest(c.ans.rows) \in Asks /\ c.run \in Asks
        /\ InSession(Newest(c.ans.rows), c.run) /\ c.op = "open" /\ UNCHANGED owner
    BY <1>0, <1>6, NewestRow DEF Newest
  <2>a. PICK rows : rows = c.ans.rows
    OBVIOUS
  <2>b. PICK own \in Asks : own = Newest(rows)
    BY <2>0, <2>a
  <2>c. PICK s \in Asks : s = c.run
    BY <2>0
  <2>1. /\ rows = c.ans.rows /\ own = Newest(rows) /\ s = c.run
        /\ Len(rows) \in DOMAIN rows /\ view'.run = own /\ InSession(own, s)
        /\ c.op = "open" /\ UNCHANGED owner
    BY <2>0, <2>a, <2>b, <2>c
  <2>2. ASSUME NEW k \in Asks, InSession(k, s), k # own
        PROVE  Done(k)'
    <3>1. CASE own \in left
      <4>1. k \in left' \/ runs[k].status \notin LiveStatus
        <5>1. OpensBehind(k)
          BY <2>1, <2>2, <3>1, <1>6 DEF OpensBehind, ShowsSession, InSession
        <5> QED
          BY <5>1 DEF LeftNext, Leaves
      <4>2. runs[k].status \in Status \ {"absent"}
        BY <2>2, <1>0 DEF InSession, RunsWell, IInv, TypeOK, Run
      <4>3. k \in left' \/ runs[k].status \in FinalStatus
        BY <4>1, <4>2 DEF Status
      <4> QED
        BY <4>3, <2>1 DEF Done, owner
    <3>2. CASE own \notin left
      <4>1. CASE k \in left
        BY <4>1, <1>0 DEF Done
      <4>2. CASE k \notin left
        <5>0. /\ OrderedRows(rows)
              /\ \A q \in Asks \ left : InSession(q, s) => \E i \in DOMAIN rows : rows[i].run = q
          BY <2>1, <1>0, <1>6 DEF CallsComplete, RowsWell, ShowsSession
        <5>1. PICK i \in DOMAIN rows : rows[i].run = k
          BY <4>2, <2>2, <5>0
        <5>2. rows \in Seq(Row)
          BY <2>1, <1>6 DEF IInv, TypeOK, Call, Answer
        <5>3. i < Len(rows)
          BY <5>1, <5>2, <2>1, <2>2 DEF Newest
        <5>4. LoggedBefore(k, own)
          BY <5>0, <5>1, <5>3, <2>1 DEF OrderedRows, Newest
        <5>5. PICK m \in DOMAIN log, n \in DOMAIN log : m < n /\ log[m] = k /\ log[n] = own
          BY <5>4 DEF LoggedBefore
        <5>6. runs[k].session = runs[own].session
          BY <2>1, <2>2 DEF InSession
        <5>7. Done(k)
          BY <5>5, <5>6, <3>2, <1>0 DEF LogEnded
        <5> QED
          BY <5>7, <1>0, DoneStays
      <4> QED
        BY <4>1, <4>2
    <3> QED
      BY <3>1, <3>2
  <2>3. \A k \in Asks : InSession(k, s)' <=> InSession(k, s)
    BY <2>1 DEF InSession, owner
  <2>4. request' = NoRequest
    BY <1>6 DEF ShowsSession
  <2> QED
    BY <2>1, <2>2, <2>3, <2>4, <1>3
<1>7. ASSUME NEW c \in calls, ShowsRun(c)
      PROVE  SessionEnded'
  <2>1. PICK own \in Asks : own = c.run
    BY <1>7 DEF ShowsRun, IInv, CallsWell
  <2>0. PICK s : s = runs[own].session
    OBVIOUS
  <2>2. own # NoAsk
    BY <1>0
  <2>3. InSession(own, s) /\ \A k \in Asks : InSession(k, s) /\ k # own => Done(k)
    BY <2>1, <2>0, <2>2, <1>0, <1>7 DEF ShowsRun, CallsComplete, RowsWell, SessionOf, InSession
  <2>4. \A k \in Asks : InSession(k, s)' /\ k # own => Done(k)'
    BY <2>3, <1>0, <1>7, StaysEnded DEF ShowsRun
  <2>5. InSession(own, s)'
    BY <2>3, <1>0, InSessionStays
  <2> QED
    BY <2>1, <2>0, <2>4, <2>5, <1>3, <1>7 DEF ShowsRun
<1>8. CASE StartsOver
  BY <1>2, <1>8 DEF StartsOver
<1>9. CASE GoesOn /\ request = NoRequest /\ view.run = NoAsk
  BY <1>2, <1>9 DEF GoesOn
<1> QED
  BY <1>0, <1>1, <1>4, <1>5, <1>6, <1>7, <1>8, <1>9, ViewStep

EndedAt(i) == Done(log[i])
LEMMA LogEndedStep ==
  ASSUME IInv, TurnsInv, EndedInv, LeftNext
  PROVE  LogEnded'
<1> SUFFICES ASSUME NEW i \in DOMAIN log', NEW j \in DOMAIN log', i < j,
                    runs'[log'[i]].session = runs'[log'[j]].session, log'[j] \notin left'
             PROVE  EndedAt(i)'
  BY DEF LogEnded, EndedAt, Done
<1>0. /\ [Next]_vars /\ left \subseteq left' /\ RunsWell /\ LateIsLeft /\ OwnSession
      /\ SessionEnded /\ LogEnded /\ log \in Seq(Asks) /\ log' \in Seq(Asks)
      /\ runs \in [Asks -> Run] /\ \A m \in DOMAIN log : log[m] \in Asks /\ runs[log[m]] # NoRun
  <2>1. log \in Seq(Asks) /\ log' \in Seq(Asks) /\ runs \in [Asks -> Run]
    BY TypeStep DEF LeftNext, IInv, TypeOK
  <2>2. \A m \in DOMAIN log : log[m] \in Asks /\ runs[log[m]] # NoRun
    BY <2>1, ElementOfSeq DEF TurnsInv, LogOnce
  <2> QED
    BY <2>1, <2>2 DEF LeftNext, EndedInv
<1>1. ASSUME i \in DOMAIN log, j \in DOMAIN log, log'[i] = log[i], log'[j] = log[j],
             runs'[log[i]].session = runs[log[i]].session,
             runs'[log[j]].session = runs[log[j]].session
      PROVE  EndedAt(i)'
  <2>1. PICK k \in Asks : k = log[i]
    BY <1>0, <1>1
  <2>2. Done(k)
    BY <2>1, <1>0, <1>1 DEF LogEnded
  <2>3. Done(k)'
    BY <2>2, <1>0, DoneStays
  <2> QED
    BY <2>1, <2>3, <1>1 DEF EndedAt, Done
<1>2. CASE Steady
  BY <1>0, <1>1, <1>2 DEF Steady
<1>3. ASSUME NEW c \in calls, Creates(c)
      PROVE  EndedAt(i)'
  <2> DEFINE k == c.req.key
  <2>1. /\ k \in Asks /\ runs[k] = NoRun /\ log' = Append(log, k)
        /\ runs'[k].session = SessionNamed(c.req) /\ \A q \in Asks : q # k => runs'[q] = runs[q]
        /\ k \in left \/ (c.req = request /\ request # NoRequest)
    BY <1>0, <1>3, Newcomer DEF Creates
  <2>2. /\ Len(log) \in Nat /\ DOMAIN log = 1..Len(log) /\ DOMAIN log' = 1..(Len(log) + 1)
        /\ log'[Len(log) + 1] = k /\ \A m \in 1..Len(log) : log'[m] = log[m]
    BY <2>1, <1>0
  <2>3. i \in DOMAIN log /\ log'[i] = log[i] /\ runs'[log[i]] = runs[log[i]]
    <3>1. i \in 1..Len(log)
      BY <2>2
    <3> QED
      BY <3>1, <2>1, <2>2, <1>0
  <2>4. CASE j \in DOMAIN log
    BY <2>1, <2>2, <2>3, <2>4, <1>0, <1>1
  <2>5. CASE j = Len(log) + 1
    <3>1. log'[j] = k /\ k \notin left'
      BY <2>2, <2>5
    <3>2. c.req = request /\ request # NoRequest
      BY <3>1, <2>1, <1>0
    <3>3. PICK q \in Asks : q = log[i]
      BY <2>3, <1>0
    <3>4. InSession(q, CurrentSession) /\ q # Current
      BY <3>1, <3>2, <3>3, <2>1, <2>3, <1>0 DEF InSession, CurrentSession, Current
    <3>5. Done(q)'
      BY <3>4, <1>0, DoneStays DEF SessionEnded
    <3> QED
      BY <3>3, <3>5, <2>3 DEF EndedAt, Done
  <2> QED
    BY <2>2, <2>4, <2>5
<1> QED
  BY <1>0, <1>2, <1>3, RunsStep

LEMMA LateIsLeftStep ==
  ASSUME IInv, LeftNext
  PROVE  LateIsLeft'
<1> SUFFICES ASSUME NEW d \in calls', d.op = "create"
             PROVE  d.epoch = epoch' \/ runs'[d.req.key] # NoRun \/ d.req.key \in left'
  BY DEF LateIsLeft
<1>1. d.req.key \in Asks
  BY CallsWellStep DEF CallsWell, LeftNext
<1>2. d.epoch = epoch' \/ runs'[d.req.key] # NoRun \/ Unsent(d.req.key)
  BY DEF Unsent
<1> QED
  BY <1>1, <1>2 DEF LeftNext, Leaves

LEMMA CallsCompleteStep ==
  ASSUME IInv, TurnsInv, EndedInv, LeftNext
  PROVE  CallsComplete'
<1>0. /\ [Next]_vars /\ left \subseteq left' /\ RunsWell /\ LateIsLeft /\ RunsWell' /\ RowsWell
      /\ CallsComplete /\ calls \in SUBSET Call /\ calls' \in SUBSET Call /\ NoAsk \notin Asks
      /\ CallsWell /\ CallsOwn /\ CallsWell' /\ CallsOwn' /\ TypeOK /\ runs \in [Asks -> Run]
      /\ epoch \in Nat
  BY RunsWellStep, CallsWellStep, CallsOwnStep, TypeStep, ChatAssumption
  DEF LeftNext, EndedInv, IInv, TypeOK
<1>1. ASSUME NEW c \in calls, c.epoch = epoch'
      PROVE  c.epoch = epoch /\ epoch' = epoch /\ request' = request
  <2>1. c.epoch <= epoch
    BY <1>0 DEF CallsWell
  <2> QED
    BY <2>1, <1>0, <1>1, EpochStep
<1>2. ASSUME NEW s, NEW k \in Asks, k \notin left', request = NoRequest, InSession(k, s)'
      PROVE  InSession(k, s)
  BY <1>0, <1>2, NewInSession
<1>4. ASSUME NEW d \in calls', d.epoch = epoch', d.op = "open", d.ans.is = "rows"
      PROVE  \A k \in Asks : k \notin left' /\ InSession(k, d.run)'
               => \E i \in DOMAIN d.ans.rows : d.ans.rows[i].run = k
  <2>1. PICK s \in Asks : s = d.run
    BY <1>0, <1>4 DEF CallsWell
  <2>2. PICK rows \in Seq(Row) : rows = d.ans.rows
    BY <1>0 DEF Call, Answer
  <2>3. \A k \in Asks \ left' : InSession(k, s)' => \E i \in DOMAIN rows : rows[i].run = k
    <3>1. CASE d \in calls
      <4>1. d.epoch = epoch /\ request = NoRequest
        BY <3>1, <1>0, <1>1, <1>4 DEF CallsOwn
      <4>2. \A k \in Asks \ left : InSession(k, s) => \E i \in DOMAIN rows : rows[i].run = k
        BY <3>1, <4>1, <2>1, <2>2, <1>0, <1>4 DEF CallsComplete
      <4> QED
        BY <4>1, <4>2, <1>0, <1>2
    <3>2. CASE d \notin calls
      <4>1. PICK c \in calls : Same(c, d) /\ d.ans = Rows(c.run) /\ UNCHANGED owner
        BY <3>2, <1>0, <1>4, RowsAnswered
      <4>2. rows = Rows(s).rows /\ s \in Asks0
        BY <4>1, <2>1, <2>2 DEF Same, Asks0
      <4>3. \A m \in DOMAIN log : runs[log[m]].session = s
              => \E i \in DOMAIN rows : rows[i].run = log[m]
        BY <4>2, <1>0, RowsOfSession
      <4>4. ASSUME NEW k \in Asks, InSession(k, s)'
            PROVE  \E i \in DOMAIN rows : rows[i].run = k
        <5>1. InSession(k, s)
          BY <4>1, <4>4 DEF InSession, owner
        <5>2. PICK m \in DOMAIN log : log[m] = k
          BY <5>1, <1>0 DEF RunsWell, InSession
        <5> QED
          BY <5>1, <5>2, <4>3 DEF InSession
      <4> QED
        BY <4>4
    <3> QED
      BY <3>1, <3>2
  <2> QED
    BY <2>1, <2>2, <2>3 DEF InSession
<1>5. ASSUME NEW d \in calls', d.epoch = epoch', d.op = "recover"
      PROVE  \A k \in Asks : InSession(k, SessionOf(d.run))' /\ k # d.run => Done(k)'
  <2>1. PICK own \in Asks : own = d.run
    BY <1>0, <1>5 DEF CallsWell
  <2>2. PICK s : s = runs[own].session
    OBVIOUS
  <2>3. own # NoAsk
    BY <1>0
  <2>4. InSession(own, s) /\ \A k \in Asks : InSession(k, s)' /\ k # own => Done(k)'
    <3>1. ASSUME NEW c \in calls, Same(c, d)
          PROVE  InSession(own, s) /\ \A k \in Asks : InSession(k, s)' /\ k # own => Done(k)'
      <4>1. c.epoch = epoch /\ c.op = "recover" /\ request = NoRequest /\ c.run = own
        BY <3>1, <2>1, <1>0, <1>1, <1>5 DEF Same, CallsOwn
      <4>2. InSession(own, s) /\ \A k \in Asks : InSession(k, s) /\ k # own => Done(k)
        BY <4>1, <2>2, <2>3, <1>0 DEF CallsComplete, RowsWell, SessionOf, InSession
      <4> QED
        BY <4>1, <4>2, <1>0, StaysEnded
    <3>2. ASSUME Made(d), MadeNow(d)', d \notin calls
          PROVE  InSession(own, s) /\ \A k \in Asks : InSession(k, s)' /\ k # own => Done(k)'
      <4>1. UNCHANGED owner /\ \E i \in DOMAIN log : log[i] = own
        BY <3>2, <2>1, <1>0, <1>5, LoadStep
      <4>2. runs[own] # NoRun
        BY <4>1, <1>0 DEF TurnsInv, LogOnce, TypeOK
      <4>3. ASSUME NEW k \in Asks, InSession(k, s)', k # own
            PROVE  Done(k)'
        <5>1. runs[k] # NoRun /\ runs[k].session = s /\ runs'[k] = runs[k]
          BY <4>1, <4>3 DEF InSession, owner
        <5>2. RecoversBeside(k)
          BY <5>1, <4>3, <3>2, <2>1, <2>2, <2>3, <1>5 DEF RecoversBeside, SessionOf, Made
        <5>3. k \in left' \/ runs[k].status \notin LiveStatus
          BY <5>2 DEF LeftNext, Leaves
        <5>4. runs[k].status \in Status \ {"absent"}
          BY <5>1, <1>0 DEF RunsWell, Run
        <5>5. k \in left' \/ runs'[k].status \in FinalStatus
          BY <5>1, <5>3, <5>4 DEF Status
        <5> QED
          BY <5>5 DEF Done
      <4> QED
        BY <4>2, <4>3, <2>2 DEF InSession
    <3> QED
      BY <3>1, <3>2, <1>0, <1>5, CallIsOf
  <2>5. InSession(own, s)'
    BY <2>4, <1>0, InSessionStays
  <2>6. runs'[own] # NoRun /\ runs'[own].session = s
    BY <2>5 DEF InSession
  <2> QED
    BY <2>1, <2>3, <2>4, <2>6 DEF SessionOf, InSession
<1> QED
  BY <1>4, <1>5 DEF CallsComplete, SessionOf, InSession

LEMMA EndedInvStep ==
  ASSUME IInv, TurnsInv, EndedInv, LeftNext
  PROVE  EndedInv'
<1>1. [Next]_vars
  BY DEF LeftNext
<1>2. SessionInv'
  BY <1>1, SessionStep DEF EndedInv, SessionInv
<1> QED
  BY <1>2, LateIsLeftStep, SessionEndedStep, LogEndedStep, CallsCompleteStep
  DEF EndedInv, SessionInv

----------------------------------------------------------------------------
(* Every step keeps WholeInv *)

\* A context that loses no turn is the one it was.
LEMMA BoundedWhole ==
  ASSUME NEW h \in Seq(Pair), Len(h) <= Len(BoundedHistory(h))
  PROVE  BoundedHistory(h) = h
<1>1. PICK i \in 1..Len(h)+1 : BoundedHistory(h) = SubSeq(h, i, Len(h))
  BY BoundedIsTail
<1>2. i = 1
  BY <1>1
<1> QED
  BY <1>1, <1>2

\* Turns of a session stay complete: the runs that join it are left or the
\* message's own.
LEMMA CarriesStays ==
  ASSUME IInv, LateIsLeft, LeftNext, NEW turns \in Seq(Pair), NEW s, NEW own,
         Carries(turns, s, own),
         request = NoRequest \/ own = request.key \/ s # SessionNamed(request)
  PROVE  Carries(turns, s, own)'
<1>0. [Next]_vars /\ left \subseteq left' /\ \A i \in DOMAIN turns : turns[i].run \in Asks
  <2>1. \A i \in DOMAIN turns : turns[i] \in Pair
    OBVIOUS
  <2> QED
    BY <2>1 DEF LeftNext, Pair
<1>1. ASSUME NEW i \in DOMAIN turns
      PROVE  turns[i].ask = turns[i].run /\ InSession(turns[i].run, s)'
  BY <1>0, InSessionStays DEF Carries
<1>2. ASSUME NEW i \in DOMAIN turns, NEW j \in DOMAIN turns, i < j
      PROVE  LoggedBefore(turns[i].run, turns[j].run)'
  <2>1. LoggedBefore(turns[i].run, turns[j].run)
    BY <1>2 DEF Carries, OrderedRows
  <2> QED
    BY <2>1, <1>0, LoggedStays
<1>3. ASSUME NEW k \in Asks, k \notin left', InSession(k, s)', k # own
      PROVE  \E i \in DOMAIN turns : turns[i].run = k
  <2>1. InSession(k, s)
    BY <1>0, <1>3, NewInSession
  <2> QED
    BY <2>1, <1>0, <1>3 DEF Carries
<1> QED
  BY <1>1, <1>2, <1>3 DEF Carries, OrderedRows

\* All the positions of a sequence pick the sequence.
LEMMA NthOfAll ==
  ASSUME NEW n \in Nat, NEW i \in 1..n
  PROVE  Nth(1..n, i) = i
<1>1. IsFiniteSet(1..n) /\ Cardinality(1..n) = n
  BY FS_Interval
<1>2. PICK m \in 1..n : m = Nth(1..n, i) /\ Cardinality(UpTo(1..n, m)) = i
  BY <1>1, NthIn DEF UpTo
<1>3. UpTo(1..n, m) = 1..m
  BY DEF UpTo
<1>4. Cardinality(1..m) = m
  BY FS_Interval
<1> QED
  BY <1>2, <1>3, <1>4

\* A session whose rows are all whole is restored as it is.
LEMMA RestoresAll ==
  ASSUME IInv, NEW c \in calls, ShowsSession(c), ~limited'
  PROVE  LET rows == c.ans.rows IN
         confirmed' = [i \in DOMAIN rows |-> [ask |-> rows[i].run, run |-> rows[i].run]]
<1>1. c.ans.is = "rows" /\ OpenSettles(c) /\ Lost.is = "lost"
  BY DEF ShowsSession, Lost, Pending
<1>2. PICK rows \in Seq(Row) : rows = c.ans.rows
  BY <1>1 DEF IInv, TypeOK, Call, Answer
<1> DEFINE K == {i \in 1..Len(rows) : Whole(rows[i])}
<1> DEFINE whole == Pick(rows, K)
<1> DEFINE history == [i \in 1..Len(whole) |-> [ask |-> whole[i].run, run |-> whole[i].run]]
<1>3. /\ confirmed' = NewestPairs(history)
      /\ limited' = (Len(whole) < Len(rows) \/ Len(whole) > MaxPairs)
  BY <1>1, <1>2 DEF OpenSettles
<1>4. Len(rows) \in Nat /\ K \in SUBSET (1..Len(rows)) /\ Cardinality(K) \in 0..Len(rows)
      /\ MaxPairs \in Nat
  BY PositionsFinite, ChatAssumption
<1>5. Len(whole) = Cardinality(K)
  BY <1>4 DEF Pick
<1>6. ~(Len(whole) < Len(rows)) /\ ~(Len(whole) > MaxPairs)
  BY <1>3, Zenon
<1>7. Cardinality(K) = Len(rows)
  <2> HIDE DEF K, whole
  <2> QED
    BY <1>4, <1>5, <1>6
<1>8. K = 1..Len(rows)
  <2>1. IsFiniteSet(1..Len(rows)) /\ Cardinality(1..Len(rows)) = Len(rows)
    <3>1. PICK n \in Nat : n = Len(rows)
      BY <1>4
    <3>2. IsFiniteSet(1..n) /\ Cardinality(1..n) = IF 1 > n THEN 0 ELSE n - 1 + 1
      BY FS_Interval
    <3>3. Cardinality(1..n) = n
      BY <3>2
    <3> QED
      BY <3>1, <3>2, <3>3
  <2> HIDE DEF K, whole
  <2> QED
    BY <2>1, <1>4, <1>7, FS_Subset
<1>9. whole = [i \in 1..Len(rows) |-> rows[i]]
  <2>1. \A i \in 1..Len(rows) : Nth(1..Len(rows), i) = i
    BY <1>4, NthOfAll
  <2> HIDE DEF K
  <2> QED
    BY <2>1, <1>7, <1>8 DEF Pick
<1>10. history = [i \in 1..Len(rows) |-> [ask |-> rows[i].run, run |-> rows[i].run]]
  <2> HIDE DEF K, whole
  <2> QED
    BY <1>4, <1>5, <1>7, <1>9
<1>11. NewestPairs(history) = history
  <2>1. history \in Seq([ask : Asks, run : Asks]) /\ Len(history) = Len(rows)
    <3>1. \A i \in 1..Len(rows) : rows[i].run \in Asks
      <4>1. \A i \in 1..Len(rows) : rows[i] \in Row
        OBVIOUS
      <4> QED
        BY <4>1 DEF Row
    <3> HIDE DEF whole, history
    <3> QED
      BY <3>1, <1>4, <1>10
  <2>2. ~(Len(history) > MaxPairs)
    <3> HIDE DEF K, whole, history
    <3> QED
      BY <2>1, <1>5, <1>6, <1>7
  <2> HIDE DEF K, whole, history
  <2> QED
    BY <2>1, <2>2, <1>4 DEF NewestPairs
<1>12. DOMAIN rows = 1..Len(rows)
  OBVIOUS
<1> HIDE DEF K, whole, history
<1> QED
  BY <1>2, <1>3, <1>10, <1>11, <1>12

LEMMA ConfirmedWellStep ==
  ASSUME IInv, TurnsInv, EndedInv, ConfirmedWell, [Next]_vars
  PROVE  ConfirmedWell'
<1>0. /\ RunsWell /\ RunsKnown /\ OwnSession /\ RowsWell /\ used \subseteq used'
      /\ NoAsk \notin Asks /\ NoRequest.session = NoAsk /\ NoRequest.ctx = << >>
      /\ confirmed \in Seq(Pair) /\ request \in Request
  BY UsedGrows, ChatAssumption DEF EndedInv, NoRequest, IInv, TypeOK
<1>1. CASE Send
  <2>1. /\ request'.session = NoAsk => request'.ctx = << >>
    <3>1. CASE request'.session = NoAsk
      <4>1. view.phase = "idle"
        BY <1>0, <1>1, <3>1, SendStep
      <4>2. confirmed = << >>
        BY <4>1 DEF ConfirmedWell
      <4>3. BoundedHistory(confirmed) \in Seq(Pair)
        BY <1>0, BoundedHistoryType
      <4>4. PICK i \in 1..Len(confirmed)+1 :
              BoundedHistory(confirmed) = SubSeq(confirmed, i, Len(confirmed))
        BY <1>0, BoundedIsTail
      <4>5. BoundedHistory(confirmed) = << >>
        BY <4>2, <4>4
      <4> QED
        BY <4>5, <1>0, <1>1, SendStep
    <3> QED
      BY <3>1
  <2>2. view'.phase = "submitting" /\ confirmedRun' = confirmedRun
    BY <1>0, <1>1, SendStep
  <2> QED
    BY <2>1, <2>2, <1>0 DEF ConfirmedWell
<1>2. CASE StartsOver
  BY <1>0, <1>2 DEF StartsOver, ConfirmedWell
<1>3. CASE GoesOn
  <2>1. request' = request /\ used' = used
    BY <1>3 DEF GoesOn
  <2>2. /\ UNCHANGED <<confirmed, confirmedRun>>
        \/ (request # NoRequest /\ confirmedRun' = request.key /\ request.key \in used)
    BY <1>3 DEF GoesOn, ConfirmsOwn, Admits, context, TurnsInv, KeysUsed
  <2>3. view'.phase = "idle" => request' = NoRequest /\ confirmed' = << >>
    BY <2>1, <2>2, <1>3 DEF GoesOn, ConfirmedWell
  <2>4. view'.phase = "completed" /\ request' # NoRequest => confirmedRun' = request'.key
    BY <2>1, <2>2, <1>3 DEF GoesOn, ConfirmedWell
  <2> QED
    BY <2>1, <2>2, <2>3, <2>4, <1>0 DEF ConfirmedWell
<1>4. ASSUME NEW c \in calls, ShowsSession(c)
      PROVE  ConfirmedWell'
  <2>1. /\ request' = NoRequest /\ used' = used
        /\ Len(c.ans.rows) \in DOMAIN c.ans.rows /\ c.op = "open"
    BY <1>0, <1>4, NewestRow DEF ShowsSession
  <2>2. /\ view'.phase # "idle"
        /\ confirmedRun' = Newest(c.ans.rows) \/ confirmedRun' = NoAsk
    <3>1. Lost.is = "lost"
      BY DEF Lost, Pending
    <3> QED
      BY <3>1, <1>4 DEF ShowsSession, OpenSettles, Newest
  <2>3. Newest(c.ans.rows) \in used
    <3>1. c.ans.rows \in Seq(Row)
      BY DEF IInv, TypeOK, Call, Answer
    <3>2. Len(c.ans.rows) \in 1..Len(c.ans.rows)
      BY <2>1, <3>1
    <3> QED
      BY <3>2 DEF TurnsInv, RowsOnce, Newest
  <2> QED
    BY <2>1, <2>2, <2>3, <1>0 DEF ConfirmedWell
<1>5. ASSUME NEW c \in calls, ShowsRun(c)
      PROVE  ConfirmedWell'
  BY <1>0, <1>5 DEF ShowsRun, ConfirmedWell
<1> QED
  BY <1>0, <1>1, <1>2, <1>3, <1>4, <1>5, ViewStep

LEMMA ViewCarriesStep ==
  ASSUME IInv, TurnsInv, EndedInv, ViewCarries, LeftNext
  PROVE  ViewCarries'
<1> SUFFICES ASSUME request' = NoRequest
             PROVE  /\ ~cut'
                    /\ view'.run # NoAsk /\ ~limited'
                         => Carries(confirmed, SessionOf(view.run), NoAsk)'
  BY DEF ViewCarries
<1>0. /\ [Next]_vars /\ RunsWell /\ RunsKnown /\ RowsWell /\ LateIsLeft /\ OwnSession /\ CallsComplete
      /\ NoAsk \notin Asks /\ view \in View /\ confirmed \in Seq(Pair) /\ confirmed' \in Seq(Pair)
      /\ runs \in [Asks -> Run]
  BY TypeStep, ChatAssumption DEF EndedInv, LeftNext, IInv, TypeOK
<1>1. ~cut'
  BY DEF LeftNext
<1>2. ASSUME NEW turns \in Seq(Pair), NEW own \in Asks, NEW s, InSession(own, s),
             turns = confirmed', view'.run = own, Carries(turns, s, NoAsk), request = NoRequest
      PROVE  Carries(confirmed, SessionOf(view.run), NoAsk)'
  <2>2. Carries(turns, s, NoAsk)'
    BY <1>0, <1>2, CarriesStays
  <2>3. InSession(own, s)'
    BY <1>0, <1>2, InSessionStays
  <2>4. SessionOf(view.run)' = s
    BY <2>3, <1>0, <1>2 DEF SessionOf, InSession
  <2> QED
    BY <2>2, <2>4, <1>2 DEF Carries, InSession, OrderedRows, LoggedBefore
<1>3. CASE GoesOn
  <2>1. request = NoRequest /\ view'.run = view.run /\ UNCHANGED context
    BY <1>3 DEF GoesOn, ConfirmsOwn, Admits
  <2>2. ASSUME view.run # NoAsk, ~limited
        PROVE  Carries(confirmed, SessionOf(view.run), NoAsk)'
    <3>1. PICK own \in Asks : own = view.run
      BY <2>2, <1>0 DEF View, Asks0
    <3>2. PICK s : s = runs[own].session
      OBVIOUS
    <3>3. PICK turns \in Seq(Pair) : turns = confirmed
      BY <1>0
    <3>4. InSession(own, s) /\ Carries(turns, s, NoAsk)
      BY <3>1, <3>2, <3>3, <2>1, <2>2, <1>0 DEF InSession, RunsKnown, ViewCarries, SessionOf
    <3> QED
      BY <3>1, <3>3, <3>4, <2>1, <1>2 DEF context
  <2> QED
    BY <2>1, <2>2, <1>1 DEF context
<1>4. CASE Send \/ StartsOver
  BY <1>0, <1>1, <1>4, SendStep DEF StartsOver
<1>5. ASSUME NEW c \in calls, ShowsRun(c)
      PROVE  limited'
  BY <1>5 DEF ShowsRun
<1>6. ASSUME NEW c \in calls, ShowsSession(c), ~limited'
      PROVE  Carries(confirmed, SessionOf(view.run), NoAsk)'
  <2>0. /\ Len(c.ans.rows) \in DOMAIN c.ans.rows /\ view'.run = Newest(c.ans.rows)
        /\ Newest(c.ans.rows) \in Asks /\ c.run \in Asks
        /\ InSession(Newest(c.ans.rows), c.run) /\ c.op = "open" /\ UNCHANGED owner
        /\ request = NoRequest /\ c.ans.is = "rows" /\ c.epoch = epoch
    BY <1>0, <1>6, NewestRow DEF ShowsSession, Newest
  <2>1. PICK rows \in Seq(Row) : rows = c.ans.rows
    BY DEF IInv, TypeOK, Call, Answer
  <2>2. PICK own \in Asks : own = Newest(c.ans.rows)
    BY <2>0
  <2>3. PICK s \in Asks : s = c.run
    BY <2>0
  <2>4. PICK turns \in Seq(Pair) : turns = confirmed'
    BY <1>0
  <2>5. turns = [i \in DOMAIN rows |-> [ask |-> rows[i].run, run |-> rows[i].run]]
    BY <2>1, <2>4, <1>6, RestoresAll
  <2>6. /\ \A i \in DOMAIN rows : InSession(rows[i].run, s)
        /\ OrderedRows(rows)
        /\ \A k \in Asks \ left : InSession(k, s) => \E i \in DOMAIN rows : rows[i].run = k
    BY <2>0, <2>1, <2>3, <1>0 DEF CallsComplete, RowsWell
  <2>7. DOMAIN turns = DOMAIN rows
        /\ \A i \in DOMAIN rows : turns[i].ask = rows[i].run /\ turns[i].run = rows[i].run
    BY <2>5
  <2>8. Carries(turns, s, NoAsk)
    BY <2>6, <2>7 DEF Carries, OrderedRows
  <2> QED
    BY <2>0, <2>2, <2>3, <2>4, <2>8, <1>2
<1> QED
  BY <1>0, <1>1, <1>3, <1>4, <1>5, <1>6, ViewStep

\* Of a completed answer the context is complete, its own turn included.
LEMMA CompletedCarries ==
  ASSUME IInv, TurnsInv, EndedInv, WholeInv, Complete, view.phase = "completed"
  PROVE  Carries(confirmed, CurrentSession, NoAsk)
<1>0. /\ RunsWell /\ RunsKnown /\ OwnSession /\ NoAsk \notin Asks
      /\ view \in View /\ request \in Request
  BY ChatAssumption DEF EndedInv, IInv, TypeOK
<1>1. view.run # NoAsk
  BY DEF IInv, VerifiedOutcome, Terminal
<1>2. Current = view.run /\ CurrentSession = SessionOf(view.run)
  BY <1>0, <1>1, ShownIsCurrent
<1>3. CASE request = NoRequest
  BY <1>1, <1>2, <1>3 DEF WholeInv, ViewCarries, Complete
<1>4. CASE request # NoRequest
  <2>1. /\ Carries(request.ctx, SessionNamed(request), request.key)
        /\ confirmed = Append(request.ctx, OwnTurn)
        /\ runs[request.key] # NoRun
             => \A i \in DOMAIN request.ctx : LoggedBefore(request.ctx[i].run, request.key)
    BY <1>4 DEF WholeInv, MessageCarries, ConfirmedWell
  <2>2. /\ request.key \in Asks /\ view.run = request.key /\ runs[request.key] # NoRun
        /\ CurrentSession = SessionNamed(request)
        /\ InSession(request.key, CurrentSession)
    BY <1>0, <1>1, <1>4 DEF IInv, OwnRunShown, RequestWell, RunsKnown, CurrentSession,
       OwnSession, InSession
  <2>3. PICK ctx \in Seq(Pair) : ctx = request.ctx
    BY <1>0 DEF Request
  <2>4. /\ OwnTurn \in Pair /\ OwnTurn.ask = request.key /\ OwnTurn.run = request.key
    BY <2>2 DEF OwnTurn, Pair
  <2>5. /\ DOMAIN ctx = 1..Len(ctx) /\ Len(ctx) \in Nat
        /\ DOMAIN confirmed = 1..(Len(ctx) + 1)
        /\ confirmed[Len(ctx) + 1] = OwnTurn
        /\ \A i \in 1..Len(ctx) : confirmed[i] = ctx[i]
    BY <2>1, <2>3, <2>4
  <2>6. ASSUME NEW i \in DOMAIN confirmed
        PROVE  confirmed[i].ask = confirmed[i].run /\ InSession(confirmed[i].run, CurrentSession)
    <3>1. CASE i \in 1..Len(ctx)
      BY <3>1, <2>1, <2>2, <2>3, <2>5 DEF Carries
    <3>2. CASE i = Len(ctx) + 1
      BY <3>2, <2>2, <2>4, <2>5
    <3> QED
      BY <3>1, <3>2, <2>5
  <2>7. ASSUME NEW i \in DOMAIN confirmed, NEW j \in DOMAIN confirmed, i < j
        PROVE  LoggedBefore(confirmed[i].run, confirmed[j].run)
    <3>1. i \in 1..Len(ctx)
      BY <2>5, <2>7
    <3>2. CASE j \in 1..Len(ctx)
      BY <3>1, <3>2, <2>1, <2>3, <2>5, <2>7 DEF Carries, OrderedRows
    <3>3. CASE j = Len(ctx) + 1
      BY <3>1, <3>3, <2>1, <2>2, <2>3, <2>4, <2>5
    <3> QED
      BY <3>2, <3>3, <2>5
  <2>8. ASSUME NEW k \in Asks \ left, InSession(k, CurrentSession)
        PROVE  \E i \in DOMAIN confirmed : confirmed[i].run = k
    <3>1. CASE k = request.key
      BY <3>1, <2>4, <2>5
    <3>2. CASE k # request.key
      <4>1. PICK i \in DOMAIN ctx : ctx[i].run = k
        BY <3>2, <2>1, <2>2, <2>3, <2>8 DEF Carries
      <4>2. i \in DOMAIN confirmed /\ confirmed[i] = ctx[i]
        BY <2>5
      <4> QED
        BY <4>1, <4>2
    <3> QED
      BY <3>1, <3>2
  <2> QED
    BY <2>6, <2>7, <2>8 DEF Carries, OrderedRows
<1> QED
  BY <1>3, <1>4

LEMMA MessageCarriesStep ==
  ASSUME IInv, TurnsInv, EndedInv, WholeInv, LeftNext
  PROVE  MessageCarries'
<1> SUFFICES ASSUME request' # NoRequest, ~limited', ~cut'
             PROVE  /\ Carries(request.ctx, SessionNamed(request), request.key)'
                    /\ runs'[request'.key] # NoRun =>
                         (\A i \in DOMAIN request.ctx :
                            LoggedBefore(request.ctx[i].run, request.key))'
                    /\ confirmed' = IF confirmedRun' = request'.key
                                    THEN Append(request'.ctx, OwnTurn') ELSE request'.ctx
  BY DEF MessageCarries, Complete
<1>0. /\ [Next]_vars /\ RunsWell /\ RunsKnown /\ RowsWell /\ LateIsLeft /\ OwnSession /\ CallsComplete
      /\ NoAsk \notin Asks /\ view \in View /\ confirmed \in Seq(Pair)
      /\ request \in Request /\ request' \in Request /\ runs \in [Asks -> Run] /\ log \in Seq(Asks)
      /\ ConfirmedWell /\ MessageCarries
  BY TypeStep, ChatAssumption DEF EndedInv, WholeInv, LeftNext, IInv, TypeOK
<1>1. cut' = (cut \/ Cuts)
  BY DEF LeftNext
<1>2. ~cut /\ ~Cuts
  BY <1>1
<1>3. CASE Send
  <2>1. /\ request'.key \in Asks \ used /\ UNCHANGED <<owner, confirmedRun>>
        /\ confirmed' = BoundedHistory(confirmed) /\ request'.ctx = confirmed'
        /\ limited' = (limited \/ view.phase = "canceled")
        /\ \/ view.phase = "idle" /\ request'.session = NoAsk
           \/ /\ view.phase \in {"completed", "canceled"}
              /\ request'.session = CurrentSession /\ request'.session \in Asks
    BY <1>0, <1>3, SendStep
  <2>2. PICK own \in Asks \ used : own = request'.key
    BY <2>1
  <2>0. PICK s : s = SessionNamed(request')
    OBVIOUS
  <2>3. confirmed' = confirmed
    <3>1. request' # request
      BY <2>2, <2>0, <1>0, FreshKey
    <3>2. ~(Len(confirmed') < Len(confirmed))
      BY <3>1, <1>2 DEF Cuts
    <3>3. BoundedHistory(confirmed) \in Seq(Pair)
      BY <1>0, BoundedHistoryType
    <3>4. Len(confirmed) <= Len(BoundedHistory(confirmed))
      BY <2>1, <3>2, <3>3, <1>0
    <3> QED
      BY <2>1, <3>4, <1>0, BoundedWhole
  <2>4. PICK turns \in Seq(Pair) : turns = confirmed
    BY <1>0
  <2>5. Carries(turns, s, own)
    <3>1. CASE view.phase = "idle"
      <4>1. confirmed = << >> /\ s = own
        BY <2>1, <2>2, <2>0, <3>1 DEF ConfirmedWell, SessionNamed, WholeInv
      <4>2. \A k \in Asks : ~InSession(k, own)
        BY <1>0, FreshKey
      <4> QED
        BY <4>1, <4>2, <2>4 DEF Carries, OrderedRows
    <3>2. CASE view.phase # "idle"
      <4>1. view.phase = "completed" /\ ~limited /\ s = CurrentSession
        BY <2>1, <2>2, <2>0, <3>2, <1>0 DEF SessionNamed
      <4>2. Carries(turns, s, NoAsk)
        BY <4>1, <2>4, <1>2, CompletedCarries DEF Complete
      <4> QED
        BY <4>2, <1>0 DEF Carries
    <3> QED
      BY <3>1, <3>2
  <2>6. request'.ctx = turns
    BY <2>1, <2>3, <2>4
  <2>7. left \subseteq left' /\ runs' = runs /\ log' = log
    BY <2>1 DEF LeftNext, owner
  <2>8. Carries(turns, s, own)'
    BY <2>5, <2>7 DEF Carries, InSession, OrderedRows, LoggedBefore
  <2>9. runs'[request'.key] = NoRun
    BY <2>2, <2>0, <2>7, <1>0, FreshKey
  <2>10. confirmedRun' # request'.key
    BY <2>1, <2>2, <2>0, <1>0 DEF ConfirmedWell
  <2>11. Carries(request.ctx, SessionNamed(request), request.key)'
    BY <2>2, <2>0, <2>6, <2>8 DEF Carries, InSession, OrderedRows, LoggedBefore, SessionNamed
  <2> QED
    BY <2>1, <2>9, <2>10, <2>11
<1>4. CASE GoesOn
  <2>1. request' = request
    BY <1>4 DEF GoesOn
  <2>2. UNCHANGED context \/ ConfirmsOwn
    BY <1>4 DEF GoesOn
  <2>3. ~limited
    BY <2>2 DEF context, ConfirmsOwn
  <2>4. /\ Carries(request.ctx, SessionNamed(request), request.key)
        /\ runs[request.key] # NoRun =>
             \A i \in DOMAIN request.ctx : LoggedBefore(request.ctx[i].run, request.key)
        /\ confirmed = IF confirmedRun = request.key THEN Append(request.ctx, OwnTurn)
                       ELSE request.ctx
    BY <2>1, <2>3, <1>0, <1>2 DEF MessageCarries, Complete
  <2>a. PICK turns \in Seq(Pair) : turns = request.ctx
    BY <2>1, <1>0 DEF Request
  <2>k. request.key \in Asks
    BY <2>1 DEF IInv, RequestWell
  <2>b. PICK own \in Asks : own = request.key
    BY <2>k
  <2>c. PICK s : s = SessionNamed(request)
    OBVIOUS
  <2>5. turns = request.ctx /\ s = SessionNamed(request) /\ own = request.key
    BY <2>a, <2>b, <2>c
  <2>6. Carries(turns, s, own)'
    BY <2>4, <2>5, <1>0, CarriesStays
  <2>7. Carries(request.ctx, SessionNamed(request), request.key)'
    BY <2>1, <2>5, <2>6 DEF Carries, InSession, OrderedRows, LoggedBefore, SessionNamed
  <2>8. ASSUME runs'[own] # NoRun, NEW i \in DOMAIN turns
        PROVE  LoggedBefore(turns[i].run, own)'
    <3>0. turns[i].run \in Asks /\ runs[turns[i].run] # NoRun
      <4>1. turns[i] \in Pair
        OBVIOUS
      <4> QED
        BY <4>1, <2>4, <2>5 DEF Pair, Carries, InSession
    <3>1. PICK q \in Asks : q = turns[i].run
      BY <3>0
    <3>2. CASE runs[own] # NoRun
      <4>1. LoggedBefore(q, own)
        BY <3>1, <3>2, <2>4, <2>5
      <4> QED
        BY <4>1, <3>1, <1>0, LoggedStays
    <3>3. CASE runs[own] = NoRun
      <4>1. PICK c \in calls : Creates(c) /\ c.req.key = own
        <5>1. ~Steady
          BY <2>8, <3>3 DEF Steady
        <5>2. ASSUME NEW c \in calls, Creates(c), c.req.key # own
              PROVE  FALSE
          BY <5>2, <2>8, <3>3, <1>0 DEF Creates
        <5> QED
          BY <5>1, <5>2, <1>0, RunsStep
      <4>2. log' = Append(log, own)
        BY <4>1 DEF Creates
      <4>3. PICK m \in DOMAIN log : log[m] = q
        BY <3>0, <3>1, <1>0 DEF RunsWell
      <4>4. /\ m \in DOMAIN log' /\ log'[m] = q /\ m < Len(log) + 1
            /\ Len(log) + 1 \in DOMAIN log' /\ log'[Len(log) + 1] = own
        BY <4>2, <4>3, <1>0
      <4> QED
        BY <4>4, <3>1 DEF LoggedBefore
    <3> QED
      BY <3>2, <3>3
  <2>9. runs'[request'.key] # NoRun =>
          (\A i \in DOMAIN request.ctx : LoggedBefore(request.ctx[i].run, request.key))'
    BY <2>1, <2>5, <2>8 DEF LoggedBefore
  <2>10. CASE UNCHANGED context
    <3>1. confirmed' = IF confirmedRun' = request'.key THEN Append(request'.ctx, OwnTurn')
                       ELSE request'.ctx
      BY <2>1, <2>4, <2>10 DEF context, OwnTurn
    <3> QED
      BY <3>1, <2>7, <2>9
  <2>11. CASE ConfirmsOwn
    <3>1. /\ confirmedRun # request.key /\ confirmedRun' = request.key
          /\ confirmed' = BoundedHistory(Append(confirmed, OwnTurn))
          /\ Len(confirmed') = Len(confirmed) + 1
      BY <2>11 DEF ConfirmsOwn, Admits, OwnTurn
    <3>2. confirmed = turns
      BY <3>1, <2>4, <2>5
    <3>3. OwnTurn \in Pair
      BY <2>5 DEF OwnTurn, Pair
    <3>a. PICK t \in Pair : t = OwnTurn
      BY <3>3
    <3>d. Append(confirmed, t) \in Seq(Pair)
      BY <1>0, AppendProperties
    <3>b. PICK h \in Seq(Pair) : h = Append(confirmed, t)
      BY <3>d
    <3>c. Len(h) = Len(confirmed) + 1
      BY <3>b, <1>0
    <3>4. h = Append(confirmed, OwnTurn) /\ Len(h) = Len(confirmed) + 1
      BY <3>a, <3>b, <3>c
    <3>5. Len(h) <= Len(BoundedHistory(h))
      BY <3>1, <3>4, <1>0
    <3>6. confirmed' = Append(turns, OwnTurn)
      BY <3>1, <3>2, <3>4, <3>5, BoundedWhole
    <3>7. OwnTurn' = OwnTurn
      BY <2>1 DEF OwnTurn
    <3>8. confirmed' = IF confirmedRun' = request'.key THEN Append(request'.ctx, OwnTurn')
                       ELSE request'.ctx
      BY <3>1, <3>6, <3>7, <2>1, <2>5
    <3> QED
      BY <3>8, <2>7, <2>9
  <2> QED
    BY <2>2, <2>10, <2>11
<1> QED
  BY <1>0, <1>3, <1>4, ViewStep DEF StartsOver, ShowsSession, ShowsRun

LEMMA WholeInvStep ==
  ASSUME IInv, TurnsInv, EndedInv, WholeInv, LeftNext
  PROVE  WholeInv'
<1>1. [Next]_vars
  BY DEF LeftNext
<1> QED
  BY <1>1, ConfirmedWellStep, ViewCarriesStep, MessageCarriesStep DEF WholeInv

----------------------------------------------------------------------------
(* Theorems *)

leftvars == <<vars, left, cut>>
LeftInv == IInv /\ TurnsInv /\ EndedInv /\ WholeInv

LEMMA LeftInitially == LeftInit => LeftInv
<1> SUFFICES ASSUME LeftInit
             PROVE  LeftInv
  OBVIOUS
<1>1. Init /\ IInv /\ TurnsInv
  BY InitInvariant, TurnsInitially DEF LeftInit
<1>2. /\ runs = [k \in Asks |-> NoRun] /\ log = << >> /\ request = NoRequest /\ calls = {}
      /\ view.run = NoAsk /\ view.phase = "idle" /\ confirmed = << >> /\ confirmedRun = NoAsk
      /\ ~cut
  BY <1>1 DEF Init, LeftInit
<1>3. NoRequest.session = NoAsk /\ NoRequest.ctx = << >>
  BY DEF NoRequest
<1>4. EndedInv
  BY <1>2, <1>3 DEF EndedInv, RunsWell, RunsKnown, RequestsWell, SessionKnown, OwnSession,
     RowsWell, LateIsLeft, SessionEnded, InSession, LogEnded, CallsComplete
<1>5. WholeInv
  BY <1>2, <1>3 DEF WholeInv, MessageCarries, ViewCarries, ConfirmedWell
<1> QED
  BY <1>1, <1>4, <1>5 DEF LeftInv

LEMMA LeftStep == LeftInv /\ [LeftNext]_leftvars => LeftInv'
<1> SUFFICES ASSUME LeftInv, [LeftNext]_leftvars
             PROVE  LeftInv'
  OBVIOUS
<1>1. [Next]_vars
  BY DEF LeftNext, leftvars
<1>2. IInv' /\ TurnsInv'
  BY <1>1, NextInvariant, TurnsInvStep DEF LeftInv
<1>3. CASE LeftNext
  BY <1>2, <1>3, EndedInvStep, WholeInvStep DEF LeftInv
<1>4. CASE UNCHANGED leftvars
  <2>1. EndedInv'
    BY <1>4 DEF leftvars, vars, LeftInv, EndedInv, RunsWell, RunsKnown, RequestsWell, SessionKnown,
       RowsWell, LateIsLeft, OwnSession, SessionNamed, SessionEnded, Current, CurrentSession, SessionOf, InSession, Done,
       LogEnded, CallsComplete, OrderedRows, LoggedBefore
  <2>2. WholeInv'
    BY <1>4 DEF leftvars, vars, LeftInv, WholeInv, MessageCarries, ViewCarries, ConfirmedWell,
       Carries, OrderedRows, LoggedBefore, InSession, SessionNamed, SessionOf, Complete, OwnTurn
  <2> QED
    BY <1>2, <2>1, <2>2 DEF LeftInv
<1> QED
  BY <1>3, <1>4

\* A message continues a session only when every run of the session that was
\* not left has ended, however the answers overtake one another (send(),
\* conversation-run.ts:238-240).
THEOREM SessionsEndFirst == LeftSpec => []SessionHasEnded
<1>1. LeftInv => SessionHasEnded
  <2> SUFFICES ASSUME LeftInv, NEW k \in Asks, Before(k)
               PROVE  runs[k].status \in FinalStatus
    BY DEF SessionHasEnded, LeftInv, IInv
  <2>1. NoRequest.session = NoAsk /\ NoRun.session = NoAsk
    BY DEF NoRequest, NoRun
  <2>2. InSession(k, CurrentSession) /\ k # Current /\ k \notin left
    BY <2>1 DEF Before, InSession, CurrentSession, Current, SessionNamed
  <2> QED
    BY <2>2 DEF LeftInv, EndedInv, SessionEnded, Done
<1> QED
  BY <1>1, LeftInitially, LeftStep, PTL DEF LeftSpec, leftvars

\* Unless the view says that context is missing, or the bound on the prompt
\* dropped turns (243), a message carries every turn of its session that was
\* not left, each once and in the owner's order, and no other.
THEOREM ContextStaysWhole == LeftSpec => []ContextIsWhole
<1>1. LeftInv => ContextIsWhole
  <2> SUFFICES ASSUME LeftInv, request # NoRequest, ~limited, ~cut
               PROVE  /\ \A k \in Asks : Before(k)
                           => \E i \in DOMAIN request.ctx : request.ctx[i].run = k
                      /\ \A i \in DOMAIN request.ctx :
                           /\ request.ctx[i].ask = request.ctx[i].run
                           /\ runs[request.ctx[i].run].session = request.session
                      /\ \A i, j \in DOMAIN request.ctx : i < j
                           => LoggedBefore(request.ctx[i].run, request.ctx[j].run)
    BY DEF ContextIsWhole
  <2>1. Carries(request.ctx, SessionNamed(request), request.key)
    BY DEF LeftInv, WholeInv, MessageCarries, Complete
  <2>2. CASE request.session = NoAsk
    <3>1. request.ctx = << >>
      BY <2>2 DEF LeftInv, WholeInv, ConfirmedWell
    <3> QED
      BY <3>1, <2>2 DEF Before
  <2>3. CASE request.session # NoAsk
    <3>1. ASSUME NEW k \in Asks, Before(k)
          PROVE  InSession(k, SessionNamed(request)) /\ k \notin left /\ k # request.key
      <4>1. NoRun.session = NoAsk
        BY DEF NoRun
      <4> QED
        BY <4>1, <3>1, <2>3 DEF Before, InSession, SessionNamed
    <3> QED
      BY <3>1, <2>1, <2>3 DEF Carries, InSession, OrderedRows, SessionNamed
  <2> QED
    BY <2>2, <2>3
<1> QED
  BY <1>1, LeftInitially, LeftStep, PTL DEF LeftSpec, leftvars

\* A message continues a session that has ended, with all of it or the notice.
THEOREM SessionsContinue == LeftSpec => []SessionContinues
BY SessionsEndFirst, ContextStaysWhole, PTL DEF SessionContinues
=============================================================================
