----------------------------- MODULE PaneProofs -----------------------------
(***************************************************************************)
(* Theorems of ChatPane, for any messages, earlier pages and bounds.       *)
(*                                                                         *)
(* The argument: the newest turns are about the view.  An active turn      *)
(* stands below the question of the active request and holds what the view *)
(* shows (ActiveWell); a pending output belongs to the newest question     *)
(* (PendingWell); while a session or a run is loaded nothing else is under *)
(* way and the pane is as it was cleared (LoneLoad, LoadPane).  The turns  *)
(* above are earlier pages in their order, then the questions of one       *)
(* session in the order of the log (PagesFirst, QuestionsLogged); a page   *)
(* is read only while no turn is active (OlderWell).                       *)
(***************************************************************************)
EXTENDS ChatPane, ChatRunProofs

----------------------------------------------------------------------------
(* The inductive invariant *)

\* The text of a view is that of its run: a final one is the owner's.
ViewOut ==
  /\ view.out = "partial" => view.phase \notin Terminal
  /\ view.out # "none" => view.run # NoAsk
  /\ view.out = "final" => runs[view.run].status = "completed" /\ runs[view.run].out = "final"

\* While a session or a run is loaded, the epoch has no other call.
Loads == {"open", "recover"}
LoneLoad ==
  \A c \in calls : c.epoch = epoch /\ c.op \in Loads =>
    /\ view.phase = "submitting" /\ view.run = NoAsk
    /\ \A d \in calls : d.epoch = epoch => d = c

\* The session that is there from the start is the oldest.
FirstLogged == First # NoAsk => log # << >> /\ log[1] = First

ControllerInv == IInv /\ TurnsInv /\ SessionInv /\ ViewOut /\ LoneLoad /\ FirstLogged

\* PaneTypeOK, with the pane as a record.
Page == [page : 1..Len(Earlier), mine : BOOLEAN, epoch : Nat, selection : Nat,
         ans : {"pending", "page", "failed"}]
Pane == [turns : Seq(Turn), active : Nat, busy : BOOLEAN, pending : [run : Asks0, cell : Nat],
         hasOlder : BOOLEAN, loading : BOOLEAN]
Shape(p) == p \in Pane /\ p.active <= Len(p.turns) /\ p.pending.cell <= Len(p.turns)
PaneType ==
  /\ refused \in BOOLEAN /\ cut \in BOOLEAN /\ cursor \in 0..Len(Earlier)
  /\ pages \in SUBSET Page /\ Shape(pane)

Locked == pane.busy <=> Busy(view)

\* A pane that loads is as PaneOpen and PaneRecover left it.
Opening == [Empty EXCEPT !.busy = TRUE]
Recovering == [Opening EXCEPT !.turns = <<AnswerTurn(NoAsk, "none")>>, !.active = 1]
LoadPane ==
  \A c \in calls : c.epoch = epoch /\ c.op \in Loads =>
    ~refused /\ pane = IF c.op = "open" THEN Opening ELSE Recovering

\* A refused message is in the transcript.
RefusedShown == refused => pane.turns # << >>

\* The pane's own page is the next one, unless the run was controlled since.
PagesWell ==
  /\ \A p \in pages : p.epoch <= epoch
  /\ ~refused => \A p \in pages :
       /\ p.mine => pane.loading
       /\ ~p.mine => p.epoch # epoch
       /\ p.mine /\ p.epoch = epoch => p.page = cursor /\ p.selection = selection
       /\ p.mine /\ p.epoch # epoch => cut
       /\ \A q \in pages : p.mine /\ q.mine => p = q

OlderWell ==
  /\ pane.hasOlder \/ pane.loading => pane.turns # << >> /\ pane.active = 0
  /\ cursor # 0 => pane.hasOlder \/ cut
  /\ pane.hasOlder => cursor # 0

ActiveWell ==
  pane.active # 0 =>
    LET n == Len(pane.turns) IN
    /\ pane.active = n /\ pane.pending = NotPending
    /\ pane.turns[n] = AnswerTurn(view.run, view.out)
    /\ \/ n = 1 /\ request = NoRequest
       \/ n > 1 /\ request # NoRequest /\ pane.turns[n-1] = Question(request.key)

PendingWell ==
  pane.pending # NotPending =>
    LET n == Len(pane.turns) IN
    /\ pane.active = 0 /\ request = NoRequest /\ view.phase # "completed"
    /\ view.run = pane.pending.run /\ view.run # NoAsk
    /\ \/ pane.pending.cell = 0 /\ n > 0 /\ pane.turns[n] = Question(view.run)
       \/ /\ pane.pending.cell = n /\ n > 1 /\ pane.turns[n-1] = Question(view.run)
          /\ pane.turns[n] = AnswerTurn(view.run, "clipped")

IdlePane == view.phase = "idle" => pane.turns = << >>

\* The turns of m pages come first, and below them the first session's.
PagesFirst(m) ==
  /\ 2 * m <= Len(pane.turns)
  /\ \A i \in 1..m :
       LET h == Earlier[Len(Earlier) - m + i] IN
       pane.turns[2*i-1] = Question(h) /\ pane.turns[2*i] = AnswerTurn(h, "final")
  /\ \A i \in 2*m+1..Len(pane.turns) : pane.turns[i].of \in Asks0
  /\ m > 0 \/ cursor # 0 => 2*m < Len(pane.turns) /\ pane.turns[2*m+1] = Question(First)
  /\ cursor # 0 => cursor = Len(Earlier) - m
PagesShown == \E m \in 0..Len(Earlier) : PagesFirst(m)

\* An answer: final text of a run, or partial text of the active turn.
IsAnswer(t) == t.role = "assistant" /\ t.text # "none"
AnswersKnown ==
  \A i \in 1..Len(pane.turns) :
    LET t == pane.turns[i] IN IsAnswer(t) /\ t.of \in Asks => runs[t.of] # NoRun
AnswersFollow ==
  \A i \in 1..Len(pane.turns) :
    LET t == pane.turns[i] IN
    /\ IsAnswer(t) =>
         /\ i > 1 => pane.turns[i-1] = Question(t.of)
         /\ i = 1 => \A j \in Questions : pane.turns[j].of # t.of
    /\ t.role = "assistant" /\ t.text = "final" /\ t.of \in Asks =>
         runs[t.of].status = "completed" /\ runs[t.of].out = "final"
    /\ t.text = "partial" => i = pane.active /\ view.phase \notin Terminal

\* The questions are of the view's session, in the order of the log.
QuestionsKnown ==
  \A i \in Questions :
    LET k == pane.turns[i].of IN
    /\ k # NoAsk
    /\ k \in Asks => (request # NoRequest /\ k = request.key) \/ InSession(k, CurrentSession)
\* The second of two runs is the later one, or is still to be made.
Precedes(a, b) == runs[a] # NoRun /\ (runs[b] = NoRun \/ LoggedBefore(a, b))
QuestionsLogged ==
  \A i, j \in Questions :
    LET a == pane.turns[i].of  b == pane.turns[j].of IN
    i < j /\ a \in Asks /\ b \in Asks => Precedes(a, b)

\* Nothing is shown of a view without a run, or of a failed one that was
\* recovered; a turn is no longer active when the run was canceled, and an
\* opened session ends with its newest run.
Ended(r, status) == r # NoAsk /\ runs[r].status = status
EmptyWell ==
  pane.turns = << >> => request = NoRequest /\ (view.run = NoAsk \/ Ended(view.run, "failed"))
SentShown == pane.active = 0 /\ request # NoRequest => Ended(request.key, "canceled")
NewestShown ==
  pane.active = 0 /\ request = NoRequest /\ pane.turns # << >> /\ pane.pending = NotPending =>
    \/ Newest \in {AnswerTurn(view.run, "final"), Question(view.run)}
    \/ Ended(view.run, "canceled")

TurnsWell ==
  /\ ActiveWell /\ PendingWell /\ IdlePane
  /\ AnswersKnown /\ AnswersFollow /\ QuestionsKnown /\ QuestionsLogged
  /\ EmptyWell /\ SentShown /\ NewestShown
TranscriptInv == OlderWell /\ PagesShown /\ TurnsWell
PaneInv ==
  /\ PaneType /\ Locked /\ LoadPane /\ RefusedShown /\ PagesWell
  /\ ~refused => TranscriptInv

----------------------------------------------------------------------------
(* The controller *)

LEMMA ViewOutStep ==
  ASSUME IInv, ViewOut, [Next]_vars
  PROVE  ViewOut'
<1> USE DEF epochs, controller, owner
<1>0. /\ view \in View /\ calls \in SUBSET Call /\ runs \in [Asks -> Run]
      /\ CallsWell /\ CallsTrue /\ NoAsk \notin Asks
  BY ChatAssumption DEF IInv, TypeOK
<1>1. ASSUME view'.run = view.run, view'.out = view.out,
             view'.phase \notin Terminal \/ view'.phase = view.phase
      PROVE  ViewOut'
  <2>1. view.out = "final" =>
          /\ view.run \in Asks /\ runs'[view.run].status = "completed"
          /\ runs'[view.run].out = "final"
    <3>1. view.out = "final" => view.run \in Asks
      BY <1>0 DEF ViewOut, View, Asks0
    <3> QED
      BY <3>1, OwnerStep DEF ViewOut, FinalStatus
  <2> QED
    BY <2>1, <1>1 DEF ViewOut
<1>2. CASE view'.out = "none"
  BY <1>2 DEF ViewOut
<1>3. ASSUME NEW c \in calls, c.op # "create", Verified(c.ans), view' = Shown(c.run, c.ans),
             runs' = runs
      PROVE  ViewOut'
  <2>1. c.run \in Asks /\ Truthful(c.run, c.ans)
    BY <1>0, <1>3 DEF CallsWell, CallsTrue, Verified, Subject
  <2>2. CASE c.ans.status = "completed"
    BY <2>1, <2>2, <1>0, <1>3 DEF ViewOut, Verified, Shown, Truthful, FinalStatus
  <2>3. CASE c.ans.status # "completed"
    BY <2>3, <1>3 DEF ViewOut, Shown
  <2> QED
    BY <2>2, <2>3
<1>4. CASE view' = view
  BY <1>1, <1>4
<1>5. CASE view' = Interrupted
  BY <1>0, <1>1, <1>5 DEF Interrupted, View, Terminal
<1>6. InterruptedEmpty.out = "none"
  BY <1>0 DEF InterruptedEmpty, View
<1>7. CASE UserNext
  <2>1. CASE RetrySubmission
    BY <2>1, <1>0, <1>1 DEF RetrySubmission, View, Terminal
  <2>2. CASE Reconnect
    BY <2>2, <1>0, <1>2 DEF Reconnect, View
  <2>3. CASE Send \/ Stop \/ Pause \/ Resume \/ OpenSession \/ Recover \/ Retarget \/ Close
    BY <2>3, <1>2 DEF Send, Stop, Pause, Resume, Control, OpenSession, Recover, Load, Retarget,
      Close, ResetView
  <2>4. CASE RefreshStatus
    BY <2>4, <1>4 DEF RefreshStatus
  <2> QED
    BY <2>1, <2>2, <2>3, <2>4, <1>7 DEF UserNext
<1>8. ASSUME NEW c \in calls, CreateSettles(c)
      PROVE  ViewOut'
  BY <1>2, <1>5, <1>8 DEF CreateSettles, Shown
<1>9. ASSUME NEW c \in calls, RunSettles(c) \/ ReconcileSettles(c) \/ RecoverSettles(c)
      PROVE  ViewOut'
  <2>1. \/ view' = Interrupted \/ view' = InterruptedEmpty
        \/ Verified(c.ans) /\ view' = Shown(c.run, c.ans)
    BY <1>9 DEF RunSettles, ReconcileSettles, RecoverSettles, Final
  <2>2. runs' = runs /\ c.op # "create"
    BY <1>9 DEF RunSettles, ReconcileSettles, RecoverSettles, ControlOps
  <2> QED
    BY <2>1, <2>2, <1>2, <1>3, <1>5, <1>6
<1>10. ASSUME NEW c \in calls, RefreshSettles(c)
       PROVE  ViewOut'
  <2>1. \/ view' = view \/ view' = InterruptedEmpty
        \/ Verified(c.ans) /\ view' = Shown(c.run, c.ans)
    BY <1>10 DEF RefreshSettles
  <2>2. runs' = runs /\ c.op # "create"
    BY <1>10 DEF RefreshSettles
  <2> QED
    BY <2>1, <2>2, <1>2, <1>3, <1>4, <1>6
<1>11. ASSUME NEW c \in calls, OpenSettles(c)
       PROVE  ViewOut'
  <2> DEFINE newest == c.ans.rows[Len(c.ans.rows)]
  <2>1. \/ view' = Interrupted \/ view'.out = "none"
        \/ /\ c.ans.is = "rows" /\ Whole(newest)
           /\ view' = [run |-> newest.run, phase |-> "completed", out |-> "final"]
    BY <1>11 DEF OpenSettles
  <2>2. CASE c.ans.is = "rows" /\ Whole(newest)
             /\ view' = [run |-> newest.run, phase |-> "completed", out |-> "final"]
    <3>1. VerifiedOutcome'
      BY OutcomeStep
    <3>2. view'.phase = "completed" /\ view'.out = "final" /\ view'.run = newest.run
      <4> HIDE DEF newest
      <4> QED
        BY <2>2
    <3>3. newest.run \in Asks /\ runs' = runs /\ c.ans.rows \in Seq(Row)
          /\ Truthful(newest.run, newest) /\ newest.status = "completed" /\ newest.out = "final"
      <4>1. c.ans.rows \in Seq(Row) /\ c.ans.rows # << >>
        BY <2>2, <1>0 DEF Call, Answer, CallsWell
      <4>2. Len(c.ans.rows) \in 1..Len(c.ans.rows)
        BY <4>1
      <4>3. newest \in Row /\ Truthful(newest.run, newest)
        BY <4>1, <4>2, <1>0, ElementOfSeq DEF CallsTrue
      <4>4. runs' = runs
        BY <1>11 DEF OpenSettles, owner
      <4> HIDE DEF newest
      <4> QED
        BY <4>1, <4>3, <4>4, <2>2 DEF Row, Whole, RowFits
    <3> HIDE DEF newest
    <3> QED
      BY <3>2, <3>3, <1>0 DEF ViewOut, Truthful, FinalStatus
  <2> QED
    BY <2>1, <2>2, <1>2, <1>5
<1>12. CASE \E c \in calls : Answers(c)
  BY <1>4, <1>12 DEF Answers, OwnerCreates, OwnerReads, OwnerControls, NetworkLoses
<1>13. ASSUME NEW c \in calls, Discard(c) \/ ControlRefused(c)
       PROVE  ViewOut'
  BY <1>4, <1>13 DEF Discard, ControlRefused
<1>14. CASE StreamDelta
  <2>1. sub.run \in Asks /\ view.phase \notin Terminal /\ view.run = sub.run
    BY <1>14 DEF StreamDelta, Heard, IInv, SubWell
  <2>2. view'.out = "partial" /\ view'.phase = view.phase /\ view'.run = view.run
    BY <1>0, <1>14 DEF StreamDelta, View
  <2> QED
    BY <2>1, <2>2, <1>0 DEF ViewOut
<1>15. CASE StreamTerminal \/ StreamInterrupted \/ UNCHANGED vars \/ \E r \in Asks : OwnerMoves(r)
  BY <1>4, <1>5, <1>15 DEF StreamTerminal, StreamInterrupted, OwnerMoves, vars
<1> QED
  BY <1>7, <1>8, <1>9, <1>10, <1>11, <1>12, <1>13, <1>14, <1>15
  DEF Next, Continues, StreamNext

NoLoad == \A c \in calls : c.epoch = epoch => c.op \notin Loads

\* A step of the epoch that makes no load call.
LEMMA NoLoadStays ==
  ASSUME NoLoad, epoch' = epoch, \A d \in calls' : d \in calls \/ d.op \notin Loads
  PROVE  NoLoad' /\ LoneLoad'
BY DEF NoLoad, LoneLoad, Loads

\* The load call is the one that settles.
LEMMA LoadSettles ==
  ASSUME LoneLoad, epoch' = epoch, NEW c \in calls, c.epoch = epoch,
         \A d \in calls' : (d \in calls /\ d # c) \/ d.op \notin Loads
  PROVE  NoLoad' /\ LoneLoad'
BY DEF NoLoad, LoneLoad, Loads

\* A call is answered or read back.
LEMMA LoadAnswered ==
  ASSUME LoneLoad, UNCHANGED <<epoch, view>>, NEW c \in calls, NEW e,
         e.epoch = c.epoch, e.op \in Loads => c.op \in Loads,
         calls' \subseteq (calls \ {c}) \cup {e}
  PROVE  LoneLoad'
<1> SUFFICES ASSUME NEW d \in calls', d.epoch = epoch, d.op \in Loads
             PROVE  /\ view.phase = "submitting" /\ view.run = NoAsk
                    /\ \A b \in calls' : b.epoch = epoch => b = d
  BY DEF LoneLoad, Loads
<1>1. CASE d = e
  BY <1>1 DEF LoneLoad, Loads
<1>2. CASE d \in calls /\ d # c
  <2>1. c.epoch # epoch
    BY <1>2 DEF LoneLoad, Loads
  <2> QED
    BY <1>2, <2>1 DEF LoneLoad, Loads
<1> QED
  BY <1>1, <1>2

\* A new epoch has at most the call that it was begun for.
LEMMA LoadOfNewEpoch ==
  ASSUME IInv, epoch' = epoch + 1,
         \/ calls' = calls
         \/ \E n : /\ calls' = calls \cup {n}
                   /\ n.op \in Loads => view'.phase = "submitting" /\ view'.run = NoAsk
  PROVE  LoneLoad'
<1>1. \A c \in calls : c.epoch # epoch'
  <2>1. \A c \in calls : c.epoch \in Nat /\ c.epoch <= epoch /\ epoch \in Nat
    BY DEF IInv, TypeOK, CallsWell, Call
  <2> QED
    BY <2>1
<1>2. ASSUME NEW n, calls' = calls \cup {n},
             n.op \in Loads => view'.phase = "submitting" /\ view'.run = NoAsk
      PROVE  LoneLoad'
  BY <1>1, <1>2 DEF LoneLoad, Loads
<1>3. CASE calls' = calls
  BY <1>1, <1>3 DEF LoneLoad
<1> QED
  BY <1>2, <1>3

LEMMA LoneLoadStep ==
  ASSUME IInv, LoneLoad, [Next]_vars
  PROVE  LoneLoad'
<1> USE DEF epochs, controller
<1>0. /\ view \in View /\ calls \in SUBSET Call /\ CallsWell /\ SubWell /\ NoAsk \notin Asks
  BY ChatAssumption DEF IInv, TypeOK
<1>1. \A op, e, t, r, q : MakeCall(op, e, t, r, q).op = op /\ MakeCall(op, e, t, r, q).epoch = e
  BY DEF MakeCall
<1>2. view.phase # "submitting" \/ view.run # NoAsk => NoLoad
  BY DEF LoneLoad, NoLoad, Loads
<1>3. CASE Send \/ OpenSession \/ Recover
  <2>1. epoch' = epoch + 1
    BY <1>3 DEF Send, OpenSession, Recover, Load, ResetView, ResetEpochs
  <2>2. view'.phase = "submitting" /\ view'.run = NoAsk
    BY <1>3 DEF Send, OpenSession, Recover, Load, ResetView
  <2>3. \E n : Dispatch(n)
    <3>1. CASE Send
      BY <3>1 DEF Send
    <3>2. ASSUME NEW name, NEW op, Load(name, op)
          PROVE  \E n : Dispatch(n)
      BY <3>2 DEF Load
    <3> QED
      BY <3>1, <3>2, <1>3 DEF OpenSession, Recover
  <2> QED
    BY <2>1, <2>2, <2>3, LoadOfNewEpoch DEF Dispatch
<1>4. CASE Stop \/ Pause \/ Resume
  <2>1. epoch' = epoch + 1
    BY <1>4 DEF Stop, Pause, Resume, Control, ResetView, ResetEpochs
  <2>2. \E n : calls' = calls \cup {n} /\ n.op \notin Loads
    BY <1>1, <1>4 DEF Stop, Pause, Resume, Control, Dispatch, Loads
  <2> QED
    BY <2>1, <2>2, LoadOfNewEpoch
<1>5. CASE Retarget \/ Close
  BY <1>5, LoadOfNewEpoch DEF Retarget, Close, ResetView, ResetEpochs, EpochAfterClose
<1>6. CASE RetrySubmission \/ Reconnect \/ RefreshStatus
  <2>1. NoLoad /\ epoch' = epoch
    BY <1>2, <1>6 DEF RetrySubmission, Reconnect, RefreshStatus
  <2>2. \A d \in calls' : d \in calls \/ d.op \notin Loads
    BY <1>1, <1>6 DEF RetrySubmission, Reconnect, RefreshStatus, Dispatch, Loads
  <2> QED
    BY <2>1, <2>2, NoLoadStays
<1>7. ASSUME NEW c \in calls, Answers(c)
      PROVE  LoneLoad'
  <2>1. PICK a : Reply(c, a)
    BY <1>7 DEF Answers, OwnerCreates, OwnerReads, OwnerControls, NetworkLoses
  <2>2. PICK e : e = [c EXCEPT !.ans = a]
    OBVIOUS
  <2>3. e.epoch = c.epoch /\ e.op = c.op
    BY <2>2, <1>0 DEF Call
  <2>4. UNCHANGED <<epoch, view>> /\ calls' \subseteq (calls \ {c}) \cup {e}
    BY <2>1, <2>2, <1>7 DEF Reply, Replace, Answers, OwnerCreates, OwnerReads, OwnerControls,
      NetworkLoses
  <2> QED
    BY <2>3, <2>4, LoadAnswered
<1>8. ASSUME NEW c \in calls, Discard(c) \/ ControlRefused(c)
      PROVE  LoneLoad'
  <2>1. PICK e : e = MakeCall("readback", c.epoch, 0, c.run, NoRequest)
    OBVIOUS
  <2>2. e.epoch = c.epoch /\ e.op \notin Loads
    BY <2>1, <1>1 DEF Loads
  <2>3. UNCHANGED <<epoch, view>> /\ calls' \subseteq (calls \ {c}) \cup {e}
    BY <2>1, <1>8 DEF Discard, ControlRefused, Readback, Settle, Replace
  <2> QED
    BY <2>2, <2>3, LoadAnswered
<1>9. ASSUME NEW c \in calls,
             \/ CreateSettles(c) \/ RunSettles(c) \/ RefreshSettles(c)
             \/ ReconcileSettles(c) \/ RecoverSettles(c) \/ OpenSettles(c)
      PROVE  LoneLoad'
  <2>1. c.epoch = epoch /\ epoch' = epoch
    BY <1>9 DEF CreateSettles, RunSettles, RefreshSettles, ReconcileSettles, RecoverSettles,
      OpenSettles, Fresh, Valid
  <2>2. \A d \in calls' : (d \in calls /\ d # c) \/ d.op \notin Loads
    BY <1>1, <1>9 DEF CreateSettles, RunSettles, RefreshSettles, ReconcileSettles, RecoverSettles,
      OpenSettles, Settle, Replace, Loads
  <2> QED
    BY <2>1, <2>2, LoadSettles
<1>10. CASE StreamDelta \/ StreamTerminal \/ (StreamInterrupted /\ Heard)
  <2>1. view.run # NoAsk
    BY <1>10, <1>0 DEF StreamDelta, StreamTerminal, StreamInterrupted, Heard, SubWell
  <2>2. epoch' = epoch /\ \A d \in calls' : d \in calls \/ d.op \notin Loads
    BY <1>1, <1>10 DEF StreamDelta, StreamTerminal, StreamInterrupted, Dispatch, Loads
  <2> QED
    BY <2>1, <2>2, <1>2, NoLoadStays
<1>11. CASE (StreamInterrupted /\ ~Heard) \/ UNCHANGED vars \/ \E r \in Asks : OwnerMoves(r)
  BY <1>11 DEF StreamInterrupted, OwnerMoves, vars, LoneLoad
<1> QED
  BY <1>3, <1>4, <1>5, <1>6, <1>7, <1>8, <1>9, <1>10, <1>11
  DEF Next, UserNext, Continues, StreamNext

LEMMA FirstLoggedStep ==
  ASSUME IInv, FirstLogged, [Next]_vars
  PROVE  FirstLogged'
<1>1. log \in Seq(Asks) /\ log' \in Seq(Asks)
  BY TypeStep DEF IInv, TypeOK
<1>2. ASSUME First # NoAsk
      PROVE  1 \in 1..Len(log') /\ log'[1] = First
  <2>1. 1 \in 1..Len(log)
    BY <1>1, <1>2 DEF FirstLogged
  <2> QED
    BY <2>1, <1>2, OwnerStep DEF FirstLogged
<1> QED
  BY <1>1, <1>2 DEF FirstLogged

LEMMA ControllerStep == ControllerInv /\ [Next]_vars => ControllerInv'
BY NextInvariant, TurnsInvStep, SessionStep, ViewOutStep, LoneLoadStep, FirstLoggedStep
DEF ControllerInv, SessionInv

\* A message that the controller refuses only uses up its key.
LEMMA RefusedKeeps ==
  ASSUME ControllerInv, used \subseteq used', used' \subseteq Asks,
         UNCHANGED <<owner, selection, epochs, view, request, context, sub, calls>>
  PROVE  ControllerInv'
<1> USE DEF owner, epochs, context
<1>1. IInv'
  BY DEF ControllerInv, IInv, TypeOK, CallsWell, RequestWell, SubWell, CallsTrue, CallsOwn,
    IdleAlone, VerifiedOutcome, OwnRunShown, Truthful
<1>2. TurnsInv'
  BY DEF ControllerInv, TurnsInv, LogOnce, KeysUsed, RowsOnce, TurnsUsed
<1>3. SessionInv'
  BY DEF ControllerInv, SessionInv, RunsWell, RunsKnown, RequestsWell, SessionKnown, OwnSession,
    SessionNamed, RowsWell, OrderedRows, LoggedBefore, InSession
<1>4. ViewOut' /\ LoneLoad' /\ FirstLogged'
  BY DEF ControllerInv, ViewOut, LoneLoad, FirstLogged
<1> QED
  BY <1>1, <1>2, <1>3, <1>4 DEF ControllerInv

LEMMA ControllerInitially == PaneInit => ControllerInv
<1> SUFFICES ASSUME PaneInit PROVE ControllerInv
  OBVIOUS
<1> USE DEF PaneInit
<1>0. /\ NoAsk \notin Asks /\ First \in Asks \cup {NoAsk}
      /\ \A k \in Asks : runs[k] # NoRun => k = First /\ runs[k].session = First
                                            /\ runs[k].status # "absent"
      /\ First # NoAsk => runs[First] # NoRun /\ runs[First].session = First
  <2>0. NoAsk \notin Asks /\ First \in Asks \cup {NoAsk}
    BY ChatAssumption, PaneAssumption
  <2>1. PICK status \in LiveStatus \cup FinalStatus, out \in Output :
          runs = [k \in Asks |-> IF k = First THEN Held(status, out) ELSE NoRun]
    OBVIOUS
  <2>2. status # "absent" /\ Held(status, out).status = status /\ Held(status, out).session = First
    BY DEF LiveStatus, FinalStatus, Held
  <2>3. Held(status, out) # NoRun
    BY <2>2 DEF NoRun
  <2> QED
    BY <2>0, <2>1, <2>2, <2>3
<1>1. TypeOK
  <2>1. request \in Request /\ sub \in Sub
    BY AnswerTypes
  <2>2. view \in View
    BY DEF View, Phase, Asks0
  <2>3. log \in Seq(Asks) /\ confirmed \in Seq(Pair) /\ used \in SUBSET Asks
    BY <1>0
  <2>4. runs \in [Asks -> Run]
    <3>1. NoRun \in Run
      BY DEF NoRun, Run, Status, Output, Asks0
    <3>2. \A status \in LiveStatus \cup FinalStatus, out \in Output : Held(status, out) \in Run
      BY <1>0 DEF Held, Run, Status, Asks0
    <3> QED
      BY <3>1, <3>2
  <2> QED
    BY <2>1, <2>2, <2>3, <2>4 DEF TypeOK, Asks0
<1>2. CallsWell /\ CallsTrue /\ CallsOwn /\ LoneLoad /\ RowsOnce /\ RowsWell
  BY DEF CallsWell, CallsTrue, CallsOwn, LoneLoad, RowsOnce, RowsWell
<1>3. RequestWell /\ SubWell /\ IdleAlone /\ VerifiedOutcome /\ OwnRunShown /\ ViewOut
  BY DEF RequestWell, SubWell, IdleAlone, VerifiedOutcome, OwnRunShown, Terminal, ViewOut
<1>4. FirstLogged /\ LogOnce
  BY <1>0 DEF FirstLogged, LogOnce
<1>5. KeysUsed /\ TurnsUsed
  BY DEF KeysUsed, TurnsUsed
<1>6. NoRequest.session = NoAsk
  BY DEF NoRequest
<1>7. RunsKnown /\ RequestsWell /\ OwnSession
  BY <1>6 DEF RunsKnown, RequestsWell, SessionKnown, OwnSession
<1>8. RunsWell
  BY <1>0 DEF RunsWell, InSession
<1> QED
  BY <1>1, <1>2, <1>3, <1>4, <1>5, <1>7, <1>8 DEF ControllerInv, IInv, TurnsInv, SessionInv

----------------------------------------------------------------------------
(* The turns of a history *)

\* The cells of a row: its question, and its answer after it.
LEMMA Cells ==
  ASSUME NEW n \in Nat
  PROVE  /\ \A x \in 1..n : /\ 2*x-1 \in 1..2*n /\ 2*x \in 1..2*n
                            /\ (2*x-1) % 2 = 1 /\ (2*x) % 2 = 0
                            /\ ((2*x-1) + 1) \div 2 = x /\ ((2*x) + 1) \div 2 = x
         /\ \A i \in 1..2*n : \E x \in 1..n : i = 2*x-1 \/ i = 2*x
<1>1. ASSUME NEW x \in 1..n
      PROVE  /\ 2*x-1 \in 1..2*n /\ 2*x \in 1..2*n
             /\ (2*x-1) % 2 = 1 /\ (2*x) % 2 = 0
             /\ ((2*x-1) + 1) \div 2 = x /\ ((2*x) + 1) \div 2 = x
  OBVIOUS
<1>2. ASSUME NEW i \in 1..2*n
      PROVE  \E x \in 1..n : i = 2*x-1 \/ i = 2*x
  <2>1. i % 2 \in 0..1 /\ i = 2 * (i \div 2) + (i % 2) /\ i \div 2 \in Int
    OBVIOUS
  <2>2. CASE i % 2 = 0
    <3>1. i \div 2 \in 1..n /\ i = 2 * (i \div 2)
      BY <2>1, <2>2
    <3> QED
      BY <3>1
  <2>3. CASE i % 2 = 1
    <3>1. (i \div 2) + 1 \in 1..n /\ i = 2 * ((i \div 2) + 1) - 1
      BY <2>1, <2>3
    <3> QED
      BY <3>1
  <2> QED
    BY <2>1, <2>2, <2>3
<1> QED
  BY <1>1, <1>2

\* Positions are picked in their order, none of them left out.
LEMMA NthNext ==
  ASSUME NEW n \in Nat, NEW K \in SUBSET (1..n), NEW i \in 1..Cardinality(K), NEW k \in K
  PROVE  /\ Nth(K, i) \in K
         /\ k < Nth(K, i) => i - 1 \in 1..Cardinality(K) /\ k <= Nth(K, i - 1)
         /\ k > Nth(K, i) => i < Cardinality(K)
<1>0. Cardinality(K) \in Nat /\ \A j \in 1..Cardinality(K) : Nth(K, j) \in K /\ Nth(K, j) \in Nat
  <2>1. Cardinality(K) \in Nat
    <3>1. Cardinality(K) \in 0..n
      BY PositionsFinite
    <3> QED
      BY <3>1
  <2>2. \A j \in 1..Cardinality(K) : Nth(K, j) \in K
    BY NthIn
  <2>3. \A j \in K : j \in Nat
    OBVIOUS
  <2> QED
    BY <2>1, <2>2, <2>3
<1>1. PICK j \in 1..Cardinality(K) : Nth(K, j) = k
  BY NthAll
<1>2. \A a, b \in 1..Cardinality(K) : a < b => Nth(K, a) < Nth(K, b)
  BY NthOrder
<1>3. ASSUME k < Nth(K, i)
      PROVE  i - 1 \in 1..Cardinality(K) /\ k <= Nth(K, i - 1)
  <2>1. j < i
    <3>1. i < j => FALSE
      <4>1. i < j => Nth(K, i) < k
        BY <1>1, <1>2
      <4> QED
        BY <4>1, <1>0, <1>1, <1>3
    <3>2. i # j
      BY <1>0, <1>1, <1>3
    <3> QED
      BY <3>1, <3>2, <1>0
  <2>2. i - 1 \in 1..Cardinality(K) /\ (j < i - 1 \/ j = i - 1)
    BY <2>1, <1>0
  <2>3. j < i - 1 => k < Nth(K, i - 1)
    BY <2>2, <1>1, <1>2
  <2> QED
    BY <2>2, <2>3, <1>0, <1>1
<1>4. ASSUME k > Nth(K, i)
      PROVE  i < Cardinality(K)
  <2>1. j < i => k < Nth(K, i)
    BY <1>1, <1>2
  <2>2. ~(j < i) /\ i # j
    BY <2>1, <1>0, <1>1, <1>4
  <2> QED
    BY <2>2, <1>0
<1> QED
  BY <1>0, <1>3, <1>4

LEMMA TurnTypes ==
  ASSUME NEW r \in Asks0 \cup Earliers, NEW text \in Text
  PROVE  /\ Question(r) \in Turn /\ AnswerTurn(r, text) \in Turn /\ Stopped \in Turn
         /\ Question(r).role = "user" /\ Question(r).of = r /\ Question(r).text = "final"
         /\ AnswerTurn(r, text).role = "assistant" /\ AnswerTurn(r, text).text = text
         /\ AnswerTurn(r, text).of = IF text = "none" THEN NoAsk ELSE r
         /\ Stopped.role = "status" /\ Stopped.text = "none" /\ Stopped.of = NoAsk
BY DEF Question, AnswerTurn, Stopped, Turn, Asks0, Text

\* The turns of rows: the question of each, and below it its answer.
LEMMA RestoredTurns ==
  ASSUME NEW rows \in Seq(Row), rows # << >>
  PROVE  LET turns == Restored(rows)  n == Len(turns)  newest == rows[Len(rows)] IN
         /\ turns \in Seq(Turn) /\ n >= 1
         /\ turns[1] = Question(rows[1].run)
         /\ \A i \in 1..n : \E x \in 1..Len(rows) :
              \/ turns[i] = Question(rows[x].run)
              \/ /\ HasAnswer(rows[x]) /\ turns[i] = RowAnswer(rows[x])
                 /\ i > 1 /\ turns[i-1] = Question(rows[x].run)
         /\ \A i, j \in 1..n : i < j /\ turns[i].role = "user" /\ turns[j].role = "user" =>
              \E x, y \in 1..Len(rows) : /\ x < y /\ turns[i] = Question(rows[x].run)
                                         /\ turns[j] = Question(rows[y].run)
         /\ IF HasAnswer(newest)
            THEN n > 1 /\ turns[n] = RowAnswer(newest) /\ turns[n-1] = Question(newest.run)
            ELSE turns[n] = Question(newest.run)
<1> DEFINE R == Len(rows)
           row(i) == rows[(i + 1) \div 2]
           turn(i) == IF i % 2 = 1 THEN Question(row(i).run) ELSE RowAnswer(row(i))
           K == {i \in 1..2*R : i % 2 = 1 \/ HasAnswer(row(i))}
           turns == Restored(rows)
           n == Cardinality(K)
<1>1. R \in Nat /\ R >= 1 /\ 2*R \in Nat
  BY EmptySeq
<1>2. \A x \in 1..R : rows[x] \in Row
  BY ElementOfSeq
<1>3. K \in SUBSET (1..2*R)
  OBVIOUS
<1>4. turns = [i \in 1..n |-> turn(Nth(K, i))]
  <2>1. PICK s : s = [i \in 1..2*R |-> turn(i)]
    OBVIOUS
  <2>2. turns = Pick(s, K)
    BY <2>1 DEF Restored
  <2>3. \A i \in K : s[i] = turn(i)
    BY <2>1
  <2>4. \A i \in 1..n : Nth(K, i) \in K
    BY <1>1, <1>3, NthIn
  <2> HIDE DEF K, turn
  <2> QED
    BY <2>2, <2>3, <2>4 DEF Pick
<1>5. \A x \in 1..R : /\ 2*x-1 \in 1..2*R /\ 2*x \in 1..2*R
                      /\ turn(2*x-1) = Question(rows[x].run) /\ turn(2*x) = RowAnswer(rows[x])
                      /\ 2*x-1 \in K /\ (2*x \in K <=> HasAnswer(rows[x]))
  BY <1>1, Cells
<1>6. \A k \in K : \E x \in 1..R : k = 2*x-1 \/ (k = 2*x /\ HasAnswer(rows[x]))
  <2> SUFFICES ASSUME NEW k \in K
               PROVE  \E x \in 1..R : k = 2*x-1 \/ (k = 2*x /\ HasAnswer(rows[x]))
    OBVIOUS
  <2>1. PICK x \in 1..R : k = 2*x-1 \/ k = 2*x
    BY <1>1, <1>3, Cells
  <2> HIDE DEF K, turn
  <2> QED
    BY <2>1, <1>5
<1> HIDE DEF K, turn, turns
<1>7. /\ n \in Nat /\ \A k \in K : k \in Int
      /\ \A i \in 1..n : Nth(K, i) \in K /\ Nth(K, i) \in Int
      /\ \A i \in 1..n, k \in K : /\ k < Nth(K, i) => i - 1 \in 1..n /\ k <= Nth(K, i - 1)
                                  /\ k > Nth(K, i) => i < n
      /\ \A i, j \in 1..n : i < j => Nth(K, i) < Nth(K, j)
      /\ \A k \in K : \E i \in 1..n : Nth(K, i) = k
  <2>1. \A i \in 1..n, k \in K : /\ k < Nth(K, i) => i - 1 \in 1..n /\ k <= Nth(K, i - 1)
                                 /\ k > Nth(K, i) => i < n
    BY <1>1, <1>3, NthNext
  <2>2. \A i, j \in 1..n : i < j => Nth(K, i) < Nth(K, j)
    BY <1>1, <1>3, NthOrder
  <2>3. \A k \in K : \E i \in 1..n : Nth(K, i) = k
    BY <1>1, <1>3, NthAll
  <2>4. n \in Nat
    BY <1>1, <1>3, PositionsFinite
  <2>5. \A i \in 1..n : Nth(K, i) \in K
    BY <1>1, <1>3, NthIn
  <2>6. \A k \in K : k \in Int
    BY <1>1, <1>3
  <2> QED
    BY <2>1, <2>2, <2>3, <2>4, <2>5, <2>6
<1>8. n >= 1
  BY <1>1, <1>5, <1>7
<1>9. \A x \in 1..R : /\ rows[x].run \in Asks /\ Question(rows[x].run) \in Turn
                      /\ RowAnswer(rows[x]) \in Turn /\ RowAnswer(rows[x]).role = "assistant"
  <2>1. ASSUME NEW x \in 1..R
        PROVE  /\ rows[x].run \in Asks /\ Question(rows[x].run) \in Turn
               /\ RowAnswer(rows[x]) \in Turn /\ RowAnswer(rows[x]).role = "assistant"
    <3>1. rows[x].run \in Asks
      BY <1>2 DEF Row
    <3> QED
      BY <3>1, TurnTypes DEF RowAnswer, Asks0, Text
  <2> QED
    BY <2>1
<1>10. ASSUME NEW i \in 1..n
       PROVE  \E x \in 1..R :
                \/ Nth(K, i) = 2*x-1 /\ turns[i] = Question(rows[x].run)
                \/ /\ Nth(K, i) = 2*x /\ HasAnswer(rows[x]) /\ turns[i] = RowAnswer(rows[x])
                   /\ i > 1 /\ turns[i-1] = Question(rows[x].run)
  <2>1. PICK x \in 1..R : Nth(K, i) = 2*x-1 \/ (Nth(K, i) = 2*x /\ HasAnswer(rows[x]))
    BY <1>6, <1>7
  <2>2. turns[i] = turn(Nth(K, i))
    BY <1>4
  <2>3. CASE Nth(K, i) = 2*x-1
    BY <2>2, <2>3, <1>5
  <2>4. CASE Nth(K, i) = 2*x /\ HasAnswer(rows[x])
    <3>1. 2*x-1 \in K /\ 2*x-1 < Nth(K, i)
      BY <2>4, <1>5
    <3>2. i - 1 \in 1..n /\ 2*x-1 <= Nth(K, i-1)
      BY <3>1, <1>7
    <3>3. Nth(K, i-1) < 2*x /\ Nth(K, i-1) \in Int
      <4>1. i \in Int /\ i - 1 < i
        BY <1>7
      <4> QED
        BY <4>1, <3>2, <2>4, <1>7
    <3>4. Nth(K, i-1) = 2*x-1
      BY <3>2, <3>3
    <3>5. turns[i-1] = turn(2*x-1)
      BY <3>2, <3>4, <1>4
    <3> QED
      BY <3>2, <3>5, <2>2, <2>4, <1>5, <1>7
  <2> QED
    BY <2>1, <2>3, <2>4
<1>11. turns \in Seq(Turn) /\ Len(turns) = n
  <2>1. \A i \in 1..n : turns[i] \in Turn
    BY <1>9, <1>10
  <2>2. PICK m \in Nat : m = n
    BY <1>7
  <2>3. turns \in [1..m -> Turn]
    BY <2>1, <2>2, <1>4
  <2> HIDE DEF n
  <2> QED
    BY <2>2, <2>3
<1>12. turns[1] = Question(rows[1].run)
  <2>1. 1 \in 1..n /\ 1 \in K
    BY <1>1, <1>5, <1>8
  <2>2. Nth(K, 1) = 1
    <3>1. ~(1 < Nth(K, 1))
      BY <2>1, <1>7
    <3>2. Nth(K, 1) \in 1..2*R
      BY <2>1, <1>3, <1>7
    <3> QED
      BY <3>1, <3>2
  <2> QED
    BY <2>1, <2>2, <1>1, <1>4, <1>5
<1>13. ASSUME NEW i \in 1..n, NEW j \in 1..n, i < j,
              turns[i].role = "user", turns[j].role = "user"
       PROVE  \E x, y \in 1..R : /\ x < y /\ turns[i] = Question(rows[x].run)
                                 /\ turns[j] = Question(rows[y].run)
  <2>1. PICK x \in 1..R : Nth(K, i) = 2*x-1 /\ turns[i] = Question(rows[x].run)
    BY <1>9, <1>10, <1>13
  <2>2. PICK y \in 1..R : Nth(K, j) = 2*y-1 /\ turns[j] = Question(rows[y].run)
    BY <1>9, <1>10, <1>13
  <2>3. 2*x-1 < 2*y-1
    BY <2>1, <2>2, <1>7, <1>13
  <2> QED
    BY <2>1, <2>2, <2>3
<1>14. ASSUME NEW k \in K, \A j \in K : j <= k
       PROVE  Nth(K, n) = k
  <2>1. n \in 1..n /\ Nth(K, n) \in K
    BY <1>7, <1>8
  <2>2. ~(k > Nth(K, n))
    BY <2>1, <1>7
  <2>3. Nth(K, n) <= k
    BY <2>1, <1>14
  <2>4. k \in Int /\ Nth(K, n) \in Int
    BY <2>1, <1>7
  <2> QED
    BY <2>2, <2>3, <2>4
<1>15. IF HasAnswer(rows[R])
       THEN n > 1 /\ turns[n] = RowAnswer(rows[R]) /\ turns[n-1] = Question(rows[R].run)
       ELSE turns[n] = Question(rows[R].run)
  <2>0. R \in 1..R /\ n \in 1..n
    BY <1>1, <1>7, <1>8
  <2>1. CASE HasAnswer(rows[R])
    <3>1. 2*R \in K /\ \A j \in K : j <= 2*R
      BY <2>0, <2>1, <1>3, <1>5
    <3>2. Nth(K, n) = 2*R
      BY <3>1, <1>14
    <3>3. PICK x \in 1..R :
            \/ Nth(K, n) = 2*x-1 /\ turns[n] = Question(rows[x].run)
            \/ /\ Nth(K, n) = 2*x /\ HasAnswer(rows[x]) /\ turns[n] = RowAnswer(rows[x])
               /\ n > 1 /\ turns[n-1] = Question(rows[x].run)
      BY <2>0, <1>10
    <3>4. x = R /\ Nth(K, n) # 2*x-1
      BY <3>2, <3>3, <1>1
    <3> QED
      BY <3>3, <3>4, <2>1
  <2>2. CASE ~HasAnswer(rows[R])
    <3>1. 2*R-1 \in K /\ 2*R \notin K
      BY <2>0, <2>2, <1>5
    <3>2. \A j \in K : j <= 2*R-1
      BY <3>1, <1>1, <1>3
    <3>3. Nth(K, n) = 2*R-1
      BY <3>1, <3>2, <1>14
    <3> QED
      BY <3>3, <2>0, <2>2, <1>4, <1>5
  <2> QED
    BY <2>1, <2>2
<1> QED
  BY <1>8, <1>9, <1>10, <1>11, <1>12, <1>13, <1>15 DEF turns

----------------------------------------------------------------------------
(* What a step does to the pane *)

\* Nothing, ...
Rests ==
  /\ [Next]_vars /\ UNCHANGED <<pane, panerest, view, request, epoch, selection>>
  /\ \A d \in calls' : d.op \in Loads => \E c \in calls : c.op = d.op /\ c.epoch = d.epoch

\* ... it shows what the view shows of its run, ...
Shows ==
  /\ [Next]_vars /\ pane' = OnChange(pane, view')
  /\ UNCHANGED <<cursor, pages, refused, request, selection>>
  /\ view'.run = view.run \/ (request # NoRequest /\ view'.run = request.key)
  /\ view'.phase = "idle" => view.phase = "idle"
  /\ \/ UNCHANGED <<epoch, cut>>
     \/ epoch' = epoch + 1 /\ cut' = (cut \/ \E p \in pages : p.mine)
  /\ NoLoad'

\* ... is given a question, or empties, ...
Questioned ==
  /\ [Next]_vars /\ Send /\ ~pane.busy /\ pane' = OnChange(WithQuestion(request'.key), view')
  /\ Restarts /\ UNCHANGED <<refused, cut>>
Empties == [Next]_vars /\ (Close \/ Retarget) /\ pane' = Empty /\ Cleared

\* ... begins to load and ends it, ...
BeginsOpen == [Next]_vars /\ OpenSession /\ pane' = Opening /\ Cleared
BeginsRecover ==
  /\ [Next]_vars /\ Recover /\ pane.turns = << >> /\ view.run = NoAsk
  /\ pane' = OnChange([pane EXCEPT !.turns = <<AnswerTurn(NoAsk, "none")>>, !.active = 1], view')
  /\ Restarts /\ UNCHANGED <<refused, cut>>
Opened(c) ==
  /\ [Next]_vars /\ c.op = "open" /\ OpenSettles(c) /\ pane' = RestoredPane(c)
  /\ cursor' = IF HasEarlier(c) THEN Len(Earlier) ELSE cursor
  /\ UNCHANGED <<pages, cut, refused>>
Recovered(c) ==
  /\ [Next]_vars /\ c.op = "recover" /\ RecoverSettles(c)
  /\ pane' = RecoveredPane(OnChange(pane, view'), view')
  /\ UNCHANGED panerest

\* ... or it reads a page, apart from the message that is refused.
Pages == PaneLoadOlder \/ \E p \in pages : PageAnswered(p) \/ PageSettles(p)

\* An answer that the controller does not show leaves the view as it is.
LEMMA SilentStep ==
  ASSUME IInv, NEW c \in calls, Continues(c), Silent(c)
  PROVE  UNCHANGED <<view, request, epoch, selection>>
<1> USE DEF epochs, controller
<1>0. /\ c \in Call /\ CallsWell /\ \A a : (a = Lost => a.is = "lost") /\ (a = Refused => a.is = "refused")
  BY DEF IInv, TypeOK, Lost, Refused, Pending
<1>1. CASE Discard(c) \/ ControlRefused(c)
  BY <1>1 DEF Discard, ControlRefused
<1>2. CASE ~Fresh(c)
  BY <1>1, <1>2 DEF Continues, CreateSettles, RunSettles, RefreshSettles, ReconcileSettles,
    RecoverSettles, OpenSettles
<1>3. CASE c.ans = Refused
  <2>1. c.ans.is = "refused" /\ c.op \in ControlOps /\ c.ans # Lost
    BY <1>0, <1>3 DEF CallsWell
  <2> QED
    BY <2>1, <1>1 DEF Continues, CreateSettles, RunSettles, RefreshSettles, ReconcileSettles,
      RecoverSettles, OpenSettles, ControlOps
<1>4. CASE Fresh(c) /\ OlderStatus(c)
  <2>1. c.op = "refresh" /\ c.ans # Lost /\ Verified(c.ans)
        /\ view.phase \in Terminal /\ PhaseOf(c.ans.status) \notin Terminal
    BY <1>0, <1>4 DEF OlderStatus
  <2>2. RefreshSettles(c) \/ Discard(c) \/ ControlRefused(c)
    BY <2>1 DEF Continues, CreateSettles, RunSettles, ReconcileSettles, RecoverSettles,
      OpenSettles, ControlOps
  <2> QED
    BY <2>1, <2>2, <1>1 DEF RefreshSettles
<1> QED
  BY <1>2, <1>3, <1>4 DEF Silent

LEMMA ShowStep ==
  ASSUME ControllerInv, NEW c \in calls, Continues(c), ~Silent(c), c.op \notin Loads
  PROVE  /\ UNCHANGED <<request, epoch, selection>> /\ NoLoad'
         /\ view'.run = view.run \/ (request # NoRequest /\ view'.run = request.key)
         /\ view'.phase = "idle" => view.phase = "idle"
<1> USE DEF epochs, controller
<1>1. Fresh(c) /\ c.epoch = epoch /\ c.ans # Refused
  BY DEF Silent, Fresh, Valid
<1>2. CreateSettles(c) \/ RunSettles(c) \/ RefreshSettles(c) \/ ReconcileSettles(c)
  BY <1>1 DEF Continues, Discard, ControlRefused, RecoverSettles, OpenSettles, Loads
<1>3. UNCHANGED <<request, epoch, selection>>
  BY <1>2 DEF CreateSettles, RunSettles, RefreshSettles, ReconcileSettles
<1>4. NoLoad
  BY <1>1 DEF ControllerInv, LoneLoad, NoLoad, Loads
<1>5. \A op, e, t, r, q : MakeCall(op, e, t, r, q).op = op
  BY DEF MakeCall
<1>6. NoLoad'
  <2>1. \A d \in calls' : d \in calls \/ d.op \notin Loads
    BY <1>2, <1>5 DEF CreateSettles, RunSettles, RefreshSettles, ReconcileSettles, Settle,
      Replace, Loads
  <2> QED
    BY <2>1, <1>3, <1>4, NoLoadStays
<1>7. [Next]_vars
  BY DEF Next
<1>8. epoch # epoch + 1
  BY DEF ControllerInv, IInv, TypeOK
<1>9. GoesOn
  <2>1. ~Send /\ ~StartsOver
    BY <1>3, <1>8 DEF Send, ResetView, ResetEpochs, StartsOver
  <2>2. \A d \in calls : ~ShowsSession(d) /\ ~ShowsRun(d)
    BY <1>4 DEF ShowsSession, ShowsRun, OpenSettles, NoLoad, Loads
  <2> QED
    BY <2>1, <2>2, <1>7, ViewStep DEF ControllerInv, SessionInv
<1> QED
  BY <1>3, <1>6, <1>9 DEF GoesOn

LEMMA SilentCalls ==
  ASSUME IInv, NEW c \in calls, Continues(c), Silent(c)
  PROVE  \A d \in calls' : d \in calls \/ d.op \notin Loads
<1> USE DEF epochs, controller
<1>0. \A op, e, t, r, q : MakeCall(op, e, t, r, q).op = op
  BY DEF MakeCall
<1> QED
  BY <1>0 DEF Continues, Discard, CreateSettles, RunSettles, ControlRefused, RefreshSettles,
    ReconcileSettles, RecoverSettles, OpenSettles, Settle, Replace, Readback, Loads

\* The controller's own steps, as the pane sees them.
LEMMA ContinuesKind ==
  ASSUME ControllerInv, NEW c \in calls, PaneContinues(c)
  PROVE  Rests \/ Shows \/ Opened(c) \/ Recovered(c)
<1>1. Continues(c) /\ [Next]_vars
  BY DEF PaneContinues, Next
<1>2. CASE Silent(c)
  <2>1. UNCHANGED <<view, request, epoch, selection>>
    BY <1>1, <1>2, SilentStep DEF ControllerInv
  <2>2. \A d \in calls' : d \in calls \/ d.op \notin Loads
    BY <1>1, <1>2, SilentCalls DEF ControllerInv
  <2>3. UNCHANGED <<pane, panerest>>
    BY <1>2 DEF PaneContinues, panerest, older
  <2> QED
    BY <1>1, <2>1, <2>2, <2>3 DEF Rests
<1>3. CASE ~Silent(c) /\ c.op \notin Loads
  <2>1. /\ UNCHANGED <<request, epoch, selection>> /\ NoLoad'
        /\ view'.run = view.run \/ (request # NoRequest /\ view'.run = request.key)
        /\ view'.phase = "idle" => view.phase = "idle"
    BY <1>1, <1>3, ShowStep
  <2>2. pane' = OnChange(pane, view') /\ UNCHANGED <<cursor, pages, refused, cut>>
    BY <1>3 DEF PaneContinues, Loads
  <2> QED
    BY <1>1, <2>1, <2>2 DEF Shows
<1>4. ASSUME ~Silent(c), c.op \in Loads
      PROVE  OpenSettles(c) \/ RecoverSettles(c)
  <2>1. Fresh(c) /\ c.ans # Refused
    BY <1>4 DEF Silent
  <2> QED
    BY <2>1, <1>1, <1>4 DEF Continues, Discard, CreateSettles, RunSettles, ControlRefused,
      RefreshSettles, ReconcileSettles, Loads, ControlOps
<1>5. CASE ~Silent(c) /\ c.op = "open"
  <2>1. OpenSettles(c)
    BY <1>4, <1>5 DEF Loads, RecoverSettles
  <2> QED
    BY <2>1, <1>1, <1>5 DEF PaneContinues, Opened
<1>6. CASE ~Silent(c) /\ c.op = "recover"
  <2>1. RecoverSettles(c)
    BY <1>4, <1>6 DEF Loads, OpenSettles
  <2> QED
    BY <2>1, <1>1, <1>6 DEF PaneContinues, Recovered, panerest, older
<1> QED
  BY <1>2, <1>3, <1>5, <1>6 DEF Loads

LEMMA UserKind ==
  ASSUME ControllerInv, PaneInv,
         \/ PaneSend \/ PaneRetry \/ PaneReconnect \/ PaneCheck
         \/ PaneControl \/ PaneNew \/ PaneOpen \/ PaneRecover
  PROVE  \/ Rests \/ Shows \/ Questioned \/ Empties \/ BeginsOpen \/ BeginsRecover
<1> USE DEF epochs, controller
<1>0. /\ \A op, e, t, r, q : MakeCall(op, e, t, r, q).op = op
      /\ view \in View /\ epoch \in Nat /\ \A c \in calls : c.epoch \in Nat /\ c.epoch <= epoch
  BY DEF MakeCall, ControllerInv, IInv, TypeOK, CallsWell, Call
<1>1. CASE PaneSend
  <2>1. Send /\ [Next]_vars
    BY <1>1 DEF PaneSend, Next, UserNext
  <2>2. used' = used \cup {request'.key}
    BY <2>1, SendStep DEF ControllerInv, SessionInv
  <2>3. pane' = OnChange(WithQuestion(request'.key), view')
    BY <2>2, <1>1 DEF PaneSend
  <2> QED
    BY <2>1, <2>3, <1>1 DEF PaneSend, Questioned
<1>2. CASE PaneRetry \/ PaneReconnect
  <2>1. [Next]_vars
    BY <1>2 DEF PaneRetry, PaneReconnect, Next, UserNext
  <2>2. view.phase = "interrupted" /\ UNCHANGED <<epoch, request, selection>>
    BY <1>2 DEF PaneRetry, PaneReconnect, RetrySubmission, Reconnect
  <2>3. view'.run = view.run /\ view'.phase = "submitting"
    BY <1>0, <1>2 DEF PaneRetry, PaneReconnect, RetrySubmission, Reconnect, View
  <2>4. NoLoad
    BY <2>2 DEF ControllerInv, LoneLoad, NoLoad, Loads
  <2>5. \A d \in calls' : d \in calls \/ d.op \notin Loads
    BY <1>0, <1>2 DEF PaneRetry, PaneReconnect, RetrySubmission, Reconnect, Dispatch, Loads
  <2>6. NoLoad'
    BY <2>2, <2>4, <2>5, NoLoadStays
  <2> QED
    BY <2>1, <2>2, <2>3, <2>6, <1>2 DEF Shows, PaneRetry, PaneReconnect, Follows, panerest, older
<1>3. CASE PaneCheck
  <2>1. [Next]_vars
    BY <1>3 DEF PaneCheck, Next, UserNext
  <2>2. UNCHANGED <<pane, panerest, view, request, epoch, selection>>
    BY <1>3 DEF PaneCheck, RefreshStatus
  <2>3. \A d \in calls' : d \in calls \/ d.op \notin Loads
    BY <1>0, <1>3 DEF PaneCheck, RefreshStatus, Dispatch, Loads
  <2> QED
    BY <2>1, <2>2, <2>3 DEF Rests
<1>4. CASE PaneControl
  <2>1. [Next]_vars
    BY <1>4 DEF PaneControl, Next, UserNext
  <2>2. UNCHANGED <<request, selection>> /\ epoch' = epoch + 1
        /\ view'.run = view.run /\ view'.phase = "submitting"
    BY <1>4 DEF PaneControl, Stop, Pause, Resume, Control, ResetView, ResetEpochs
  <2>3. \A d \in calls' : d \in calls \/ d.op \notin Loads
    BY <1>0, <1>4 DEF PaneControl, Stop, Pause, Resume, Control, Dispatch, Loads
  <2>4. NoLoad'
    BY <1>0, <2>2, <2>3 DEF NoLoad
  <2> QED
    BY <2>1, <2>2, <2>4, <1>4 DEF PaneControl, Shows
<1>5. CASE PaneNew
  BY <1>5 DEF PaneNew, Empties, Next, UserNext
<1>6. CASE PaneOpen
  BY <1>6 DEF PaneOpen, BeginsOpen, Next, UserNext, Opening
<1>7. CASE PaneRecover
  BY <1>7 DEF PaneRecover, BeginsRecover, Next, UserNext
<1> QED
  BY <1>1, <1>2, <1>3, <1>4, <1>5, <1>6, <1>7

LEMMA KindOfStep ==
  ASSUME ControllerInv, PaneInv, PaneNext
  PROVE  \/ Rests \/ Shows \/ Questioned \/ PaneRefused \/ Empties \/ BeginsOpen \/ BeginsRecover
         \/ (\E c \in calls : Opened(c) \/ Recovered(c)) \/ Pages
<1> USE DEF epochs, controller
<1>0. /\ \A op, e, t, r, q : MakeCall(op, e, t, r, q).op = op
      /\ view \in View /\ calls \in SUBSET Call /\ NoAsk \notin Asks
  BY ChatAssumption DEF MakeCall, ControllerInv, IInv, TypeOK
<1>1. ASSUME NEW c \in calls, Answers(c), UNCHANGED <<pane, panerest>>
      PROVE  Rests
  <2>1. [Next]_vars
    BY <1>1 DEF Next
  <2>2. PICK a : Reply(c, a)
    BY <1>1 DEF Answers, OwnerCreates, OwnerReads, OwnerControls, NetworkLoses
  <2>3. PICK e : e = [c EXCEPT !.ans = a]
    OBVIOUS
  <2>4. e.epoch = c.epoch /\ e.op = c.op /\ calls' = (calls \ {c}) \cup {e}
    BY <2>2, <2>3, <1>0 DEF Call, Reply, Replace
  <2>5. UNCHANGED <<view, request, epoch, selection>>
    BY <1>1 DEF Answers, OwnerCreates, OwnerReads, OwnerControls, NetworkLoses
  <2> QED
    BY <2>1, <2>4, <2>5, <1>1 DEF Rests
<1>2. ASSUME NEW r \in Asks, OwnerMoves(r), UNCHANGED <<pane, panerest>>
      PROVE  Rests
  BY <1>2 DEF Rests, Next, OwnerMoves
<1>3. CASE PaneStream
  <2>1. [Next]_vars
    BY <1>3 DEF PaneStream, Next, StreamNext
  <2>2. UNCHANGED <<request, epoch, selection>>
        /\ \A d \in calls' : d \in calls \/ d.op \notin Loads
    BY <1>0, <1>3 DEF PaneStream, StreamDelta, StreamInterrupted, StreamTerminal, Dispatch, Loads
  <2>3. CASE view' = view
    <3>1. UNCHANGED <<pane, panerest>>
      BY <2>3, <1>3 DEF PaneStream
    <3> QED
      BY <3>1, <2>1, <2>2, <2>3 DEF Rests
  <2>4. CASE view' # view
    <3>1. pane' = OnChange(pane, view') /\ UNCHANGED panerest
      BY <2>4, <1>3 DEF PaneStream, StreamTerminal, Follows
    <3>2. /\ sub # NoSub /\ Heard
          /\ view' = [view EXCEPT !.out = "partial"] \/ view' = Interrupted
      BY <2>4, <1>3 DEF PaneStream, StreamDelta, StreamInterrupted, StreamTerminal
    <3>3. view'.run = view.run /\ (view'.phase = "idle" => view.phase = "idle")
      BY <3>2, <1>0 DEF Interrupted, View
    <3>4. view.run # NoAsk
      BY <3>2, <1>0 DEF Heard, ControllerInv, IInv, SubWell
    <3>5. NoLoad
      BY <3>4 DEF ControllerInv, LoneLoad, NoLoad, Loads
    <3>6. NoLoad'
      BY <3>5, <2>2, NoLoadStays
    <3> QED
      BY <3>1, <3>3, <3>6, <2>1, <2>2 DEF Shows, panerest, older
  <2> QED
    BY <2>3, <2>4
<1> QED
  BY <1>1, <1>2, <1>3, UserKind, ContinuesKind DEF PaneNext, Pages

----------------------------------------------------------------------------
(* What a shown view does to the turns *)

\* The last turn is replaced by t, which is no question, or t goes below it.
Puts(t) ==
  LET n == Len(pane'.turns) IN
  /\ n \in {Len(pane.turns), Len(pane.turns) + 1} /\ n >= 1
  /\ n = Len(pane.turns) => pane.turns[n].role # "user"
  /\ pane'.turns[n] = t /\ \A i \in 1..n-1 : pane'.turns[i] = pane.turns[i]
  /\ t \in Turn /\ t.role # "user" /\ t.of \in Asks0

LEMMA PendingOutput ==
  ASSUME NEW p, Shape(p), NEW v \in View
  PROVE  LET q == AfterPending(p, v)  done == AnswerTurn(v.run, v.out) IN
         /\ Shape(q) /\ Len(q.turns) >= Len(p.turns)
         /\ q.active = p.active /\ q.busy = p.busy
         /\ q.hasOlder = p.hasOlder /\ q.loading = p.loading
         /\ ~Due(p, v) => q = p
         /\ Due(p, v) =>
              /\ q.pending = NotPending
              /\ q.turns = IF p.pending.cell = 0 THEN Append(p.turns, done)
                           ELSE [p.turns EXCEPT ![p.pending.cell] = done]
<1> DEFINE q == AfterPending(p, v)
           done == AnswerTurn(v.run, v.out)
<1>0. /\ p.turns \in Seq(Turn) /\ p.active \in Nat /\ p.pending \in [run : Asks0, cell : Nat]
      /\ p.active <= Len(p.turns) /\ p.pending.cell <= Len(p.turns) /\ p.pending.cell \in Nat
      /\ p.busy \in BOOLEAN /\ p.hasOlder \in BOOLEAN /\ p.loading \in BOOLEAN /\ p \in Pane
  BY DEF Shape, Pane
<1>1. CASE ~Due(p, v)
  BY <1>0, <1>1 DEF AfterPending
<1>2. CASE Due(p, v)
  <2>1. done \in Turn
    BY TurnTypes DEF View, Text
  <2>2. PICK s : s = IF p.pending.cell = 0 THEN Append(p.turns, done)
                     ELSE [p.turns EXCEPT ![p.pending.cell] = done]
    OBVIOUS
  <2>3. s \in Seq(Turn) /\ Len(s) >= Len(p.turns)
    <3>1. CASE p.pending.cell = 0
      BY <2>1, <2>2, <3>1, <1>0
    <3>2. CASE p.pending.cell # 0
      BY <2>1, <2>2, <3>2, <1>0, ExceptSeq
    <3> QED
      BY <3>1, <3>2
  <2>4. q = [p EXCEPT !.pending = NotPending, !.turns = s]
    BY <1>2, <2>2 DEF AfterPending
  <2>5. /\ q \in Pane /\ q.pending = NotPending /\ q.turns = s /\ q.active = p.active
        /\ q.busy = p.busy /\ q.hasOlder = p.hasOlder /\ q.loading = p.loading
    <3>1. NotPending \in [run : Asks0, cell : Nat]
      BY DEF NotPending, Asks0
    <3> QED
      BY <3>1, <2>3, <2>4, <1>0 DEF Pane
  <2>6. Shape(q)
    BY <2>3, <2>5, <1>0 DEF Shape, NotPending
  <2> QED
    BY <1>2, <2>2, <2>3, <2>5, <2>6
<1> QED
  BY <1>1, <1>2

OutputTurn(v) == IF v.phase = "canceled" THEN Stopped ELSE AnswerTurn(v.run, v.out)
StillActive(v, active) == IF v.phase = "canceled" THEN 0 ELSE active
LEMMA ActiveOutput ==
  ASSUME NEW p, Shape(p), NEW v \in View
  PROVE  LET q == AfterOutput(p, v) IN
         /\ Shape(q) /\ Len(q.turns) = Len(p.turns)
         /\ q.pending = p.pending /\ q.busy = p.busy
         /\ q.hasOlder = p.hasOlder /\ q.loading = p.loading
         /\ p.active = 0 => q = p
         /\ p.active # 0 => /\ q.turns = [p.turns EXCEPT ![p.active] = OutputTurn(v)]
                            /\ q.active = StillActive(v, p.active)
<1> USE DEF OutputTurn, StillActive
<1> DEFINE q == AfterOutput(p, v)
           t == OutputTurn(v)
<1>0. /\ p.turns \in Seq(Turn) /\ p.active \in Nat /\ p.pending \in [run : Asks0, cell : Nat]
      /\ p.active <= Len(p.turns) /\ p.pending.cell <= Len(p.turns) /\ p.pending.cell \in Nat
      /\ p.busy \in BOOLEAN /\ p.hasOlder \in BOOLEAN /\ p.loading \in BOOLEAN /\ p \in Pane
  BY DEF Shape, Pane
<1>1. CASE p.active = 0
  BY <1>0, <1>1 DEF AfterOutput
<1>2. CASE p.active # 0
  <2>1. t \in Turn
    BY TurnTypes DEF View, Text, Asks0
  <2>2. PICK s : s = [p.turns EXCEPT ![p.active] = t]
    OBVIOUS
  <2>3. s \in Seq(Turn) /\ Len(s) = Len(p.turns)
    BY <2>1, <2>2, <1>2, <1>0, ExceptSeq
  <2>7. PICK e \in Nat : e = IF v.phase = "canceled" THEN 0 ELSE p.active
    BY <1>0
  <2>4. q = [p EXCEPT !.turns = s, !.active = e]
    BY <1>0, <1>2, <2>2, <2>7 DEF AfterOutput, Pane
  <2>5. /\ q \in Pane /\ q.pending = p.pending /\ q.turns = s
        /\ q.active = e /\ q.busy = p.busy /\ q.hasOlder = p.hasOlder /\ q.loading = p.loading
    BY <2>3, <2>4, <1>0 DEF Pane
  <2>6. Shape(q)
    BY <2>3, <2>5, <2>7, <1>0 DEF Shape
  <2> QED
    BY <1>2, <2>2, <2>3, <2>5, <2>6, <2>7
<1> QED
  BY <1>1, <1>2

LEMMA OnChangeShape ==
  ASSUME NEW p, Shape(p), NEW v \in View
  PROVE  LET q == OnChange(p, v) IN
         /\ Shape(q) /\ Len(q.turns) >= Len(p.turns) /\ (q.busy <=> Busy(v))
         /\ q.hasOlder = p.hasOlder /\ q.loading = p.loading
         /\ q.turns = AfterOutput(AfterPending(p, v), v).turns
         /\ q.active = AfterOutput(AfterPending(p, v), v).active
         /\ q.pending = AfterOutput(AfterPending(p, v), v).pending
<1>1. PICK a : a = AfterPending(p, v)
  OBVIOUS
<1>2. PICK o : o = AfterOutput(a, v)
  OBVIOUS
<1>3. Shape(a) /\ Len(a.turns) >= Len(p.turns)
      /\ a.hasOlder = p.hasOlder /\ a.loading = p.loading
  BY <1>1, PendingOutput
<1>4. Shape(o) /\ Len(o.turns) = Len(a.turns)
      /\ o.hasOlder = a.hasOlder /\ o.loading = a.loading
  BY <1>2, <1>3, ActiveOutput
<1>6. PICK q : q = OnChange(p, v)
  OBVIOUS
<1>7. q = [o EXCEPT !.busy = Busy(v)]
  BY <1>1, <1>2, <1>6 DEF OnChange
<1>8. Busy(v) \in BOOLEAN
  BY DEF Busy
<1>9. /\ Shape(q) /\ q.turns = o.turns /\ q.busy = Busy(v) /\ q.active = o.active
      /\ q.pending = o.pending /\ q.hasOlder = o.hasOlder /\ q.loading = o.loading
  <2> HIDE DEF Busy
  <2> QED
    BY <1>4, <1>7, <1>8 DEF Shape, Pane
<1>10. Len(q.turns) >= Len(p.turns)
  <2>1. Len(q.turns) = Len(a.turns)
    BY <1>4, <1>9
  <2> QED
    BY <1>3, <2>1
<1> QED
  BY <1>1, <1>2, <1>3, <1>4, <1>6, <1>9, <1>10

\* The last turn is replaced, or one more follows.
LEMMA PutTurn ==
  ASSUME PaneType, NEW t \in Turn, t.role # "user", t.of \in Asks0,
         \/ pane'.turns = Append(pane.turns, t)
         \/ /\ pane.turns # << >> /\ pane'.turns = [pane.turns EXCEPT ![Len(pane.turns)] = t]
            /\ pane.turns[Len(pane.turns)].role # "user"
  PROVE  Puts(t)
<1>0. PICK T \in Seq(Turn) : T = pane.turns
  BY DEF PaneType, Shape, Pane
<1>1. CASE pane'.turns = Append(T, t)
  <2>1. /\ Len(pane'.turns) = Len(T) + 1 /\ pane'.turns[Len(T) + 1] = t
        /\ \A i \in 1..Len(T) : pane'.turns[i] = T[i]
    BY <1>1
  <2>2. Len(T) \in Nat
    OBVIOUS
  <2> QED
    BY <1>0, <2>1, <2>2 DEF Puts
<1>2. CASE /\ T # << >> /\ pane'.turns = [T EXCEPT ![Len(T)] = t]
           /\ T[Len(T)].role # "user"
  <2>1. Len(T) \in Nat /\ Len(T) >= 1
    BY <1>2, EmptySeq
  <2>2. /\ Len(pane'.turns) = Len(T) /\ pane'.turns[Len(T)] = t
        /\ \A i \in 1..Len(T)-1 : pane'.turns[i] = T[i]
    BY <1>2, <2>1, ExceptSeq
  <2> QED
    BY <1>0, <1>2, <2>1, <2>2 DEF Puts
<1> QED
  BY <1>0, <1>1, <1>2

\* What a shown view makes of the turns of a pane.
PutsPending ==
  /\ Puts(AnswerTurn(view'.run, "final")) /\ pane.active = 0 /\ pane'.active = 0
  /\ pane'.pending = NotPending /\ request = NoRequest
  /\ view'.run # NoAsk /\ view'.phase = "completed"
  /\ LET n == Len(pane'.turns) IN n > 1 /\ pane.turns[n-1] = Question(view'.run)
PutsActive ==
  LET n == Len(pane.turns) IN
  /\ pane.active = n /\ n >= 1 /\ Len(pane'.turns) = n
  /\ pane.pending = NotPending /\ pane'.pending = NotPending
  /\ \/ /\ view'.phase = "canceled" /\ Puts(Stopped) /\ pane'.active = 0
     \/ /\ Puts(AnswerTurn(view'.run, view'.out)) /\ pane'.active = n
        /\ \/ n = 1 /\ request = NoRequest
           \/ n > 1 /\ request # NoRequest /\ pane.turns[n-1] = Question(request.key)
PutsNone ==
  /\ pane'.turns = pane.turns /\ pane'.active = pane.active /\ pane'.pending = pane.pending
  /\ pane.active = 0 \/ view' = view
  /\ pane.pending # NotPending => view'.phase # "completed"

LEMMA OnChangeKind ==
  ASSUME ControllerInv, ControllerInv', PaneType, TurnsWell, pane' = OnChange(pane, view'),
         request' = request, request = NoRequest => view'.run = view.run
  PROVE  PutsPending \/ PutsActive \/ PutsNone
<1> DEFINE N == Len(pane.turns)
<1>7. PICK a : a = AfterPending(pane, view')
  OBVIOUS
<1>8. PICK o : o = AfterOutput(a, view')
  OBVIOUS
<1>0. Shape(pane) /\ view' \in View /\ pane.turns \in Seq(Turn) /\ N \in Nat
      /\ NoAsk \notin Asks
  BY ChatAssumption DEF PaneType, Shape, Pane, ControllerInv, IInv, TypeOK
<1>1. /\ pane'.turns = o.turns /\ pane'.active = o.active /\ pane'.pending = o.pending
  BY <1>0, <1>7, <1>8, OnChangeShape
<1>2. /\ Shape(a) /\ a.active = pane.active
      /\ ~Due(pane, view') => a = pane
      /\ Due(pane, view') =>
           /\ a.pending = NotPending
           /\ a.turns = IF pane.pending.cell = 0 THEN Append(pane.turns, AnswerTurn(view'.run, view'.out))
                        ELSE [pane.turns EXCEPT ![pane.pending.cell] = AnswerTurn(view'.run, view'.out)]
  BY <1>0, <1>7, PendingOutput
<1>3. /\ o.pending = a.pending
      /\ a.active = 0 => o = a
      /\ a.active # 0 => /\ o.turns = [a.turns EXCEPT ![a.active] = OutputTurn(view')]
                         /\ o.active = StillActive(view', a.active)
  BY <1>0, <1>2, <1>8, ActiveOutput
<1>4. CASE Due(pane, view')
  <2>1. pane.pending # NotPending /\ view'.phase = "completed" /\ view'.run = pane.pending.run
    BY <1>4 DEF Due, NotPending
  <2>2. /\ pane.active = 0 /\ request = NoRequest /\ view.run = pane.pending.run
        /\ view.run # NoAsk
        /\ \/ pane.pending.cell = 0 /\ N > 0 /\ pane.turns[N] = Question(view.run)
           \/ /\ pane.pending.cell = N /\ N > 1 /\ pane.turns[N-1] = Question(view.run)
              /\ pane.turns[N] = AnswerTurn(view.run, "clipped")
    BY <2>1 DEF TurnsWell, PendingWell
  <2>3. view'.out = "final" /\ view'.run \in Asks0
    BY <2>1, <1>0 DEF ControllerInv, IInv, VerifiedOutcome, Terminal, View
  <2>4. PICK t \in Turn : t = AnswerTurn(view'.run, "final")
    BY <2>3, TurnTypes DEF Text
  <2>5. t.role # "user" /\ t.of \in Asks0
    BY <2>3, <2>4, TurnTypes DEF Text
  <2>6. /\ pane'.turns = a.turns /\ pane'.active = 0 /\ pane'.pending = NotPending
    BY <1>1, <1>2, <1>3, <1>4, <2>2
  <2>7. CASE pane.pending.cell = 0
    <3>1. pane'.turns = Append(pane.turns, t)
      BY <2>3, <2>4, <2>6, <2>7, <1>2, <1>4
    <3>2. Puts(t) /\ Len(pane'.turns) = N + 1
      BY <3>1, <2>5, <1>0, PutTurn
    <3>3. N > 0 /\ pane.turns[N] = Question(view.run)
      BY <2>2, <2>7, <1>0
    <3> QED
      BY <3>2, <3>3, <2>1, <2>2, <2>4, <2>6, <1>0 DEF PutsPending
  <2>8. CASE pane.pending.cell # 0
    <3>1. N > 1 /\ pane.pending.cell = N /\ pane.turns[N-1] = Question(view.run)
          /\ pane.turns[N] = AnswerTurn(view.run, "clipped")
      BY <2>2, <2>8
    <3>2. pane'.turns = [pane.turns EXCEPT ![N] = t]
      BY <3>1, <2>3, <2>4, <2>6, <1>2, <1>4, <1>0
    <3>3. pane.turns # << >> /\ pane.turns[N].role # "user"
      BY <3>1 DEF AnswerTurn
    <3>4. Puts(t) /\ Len(pane'.turns) = N
      BY <3>2, <3>3, <2>5, <1>0, PutTurn, ExceptSeq
    <3> QED
      BY <3>1, <3>4, <2>1, <2>2, <2>4, <2>6, <1>0 DEF PutsPending
  <2> QED
    BY <2>7, <2>8
<1>5. CASE ~Due(pane, view') /\ pane.active = 0
  <2>1. pane'.turns = pane.turns /\ pane'.active = pane.active /\ pane'.pending = pane.pending
    BY <1>1, <1>2, <1>3, <1>5
  <2>2. pane.pending # NotPending => view'.phase # "completed"
    BY <1>5 DEF Due, TurnsWell, PendingWell
  <2> QED
    BY <2>1, <2>2, <1>5 DEF PutsNone
<1>6. CASE ~Due(pane, view') /\ pane.active # 0
  <2>1. /\ pane.active = N /\ pane.pending = NotPending
        /\ pane.turns[N] = AnswerTurn(view.run, view.out)
        /\ \/ N = 1 /\ request = NoRequest
           \/ N > 1 /\ request # NoRequest /\ pane.turns[N-1] = Question(request.key)
    BY <1>6 DEF TurnsWell, ActiveWell
  <2>2. PICK t : t = OutputTurn(view')
    OBVIOUS
  <2>3. t \in Turn /\ t.role # "user" /\ t.of \in Asks0
    BY <2>2, <1>0, TurnTypes DEF View, Text, Asks0, OutputTurn
  <2>4. /\ pane'.turns = [pane.turns EXCEPT ![N] = t] /\ pane'.pending = NotPending
        /\ pane'.active = StillActive(view', N)
    BY <2>1, <2>2, <1>1, <1>2, <1>3, <1>6
  <2>5. pane.turns # << >> /\ pane.turns[N].role # "user"
    BY <2>1, <1>0, <1>6, EmptySeq DEF AnswerTurn
  <2>6. Puts(t) /\ Len(pane'.turns) = N
    BY <2>3, <2>4, <2>5, <1>0, PutTurn, ExceptSeq
  <2> QED
    BY <2>1, <2>2, <2>4, <2>6, <1>0, <1>6 DEF PutsActive, OutputTurn, StillActive
<1> QED
  BY <1>4, <1>5, <1>6

----------------------------------------------------------------------------
(* What the owner keeps *)

LEMMA OwnerKeeps ==
  ASSUME ControllerInv, [Next]_vars
  PROVE  /\ \A k \in Asks : runs[k] # NoRun => runs'[k] # NoRun
         /\ \A k \in Asks : runs[k].status = "completed" /\ runs[k].out = "final"
              => runs'[k].status = "completed" /\ runs'[k].out = "final"
         /\ \A k \in Asks0, s \in FinalStatus : Ended(k, s) => Ended(k, s)'
         /\ \A k \in Asks, s \in Asks0 : InSession(k, s) => InSession(k, s)'
<1>0. IInv
  BY DEF ControllerInv
<1>1. \A k \in Asks : runs[k] # NoRun => runs'[k] # NoRun
  BY <1>0, ExistsStays
<1>2. \A k \in Asks : runs[k].status = "completed" /\ runs[k].out = "final"
        => runs'[k].status = "completed" /\ runs'[k].out = "final"
  BY <1>0, OwnerStep DEF FinalStatus
<1>3. \A k \in Asks0, s \in FinalStatus : Ended(k, s) => Ended(k, s)'
  BY <1>0, OwnerStep DEF Ended, Asks0
<1>4. \A k \in Asks, s \in Asks0 : InSession(k, s) => InSession(k, s)'
  BY <1>0, InSessionStays
<1> QED
  BY <1>1, <1>2, <1>3, <1>4

LEMMA OrderKeeps ==
  ASSUME ControllerInv, [Next]_vars, NEW a \in Asks, NEW b \in Asks, Precedes(a, b)
  PROVE  Precedes(a, b)'
<1>1. runs'[a] # NoRun
  BY OwnerKeeps DEF Precedes
<1>2. CASE LoggedBefore(a, b)
  BY <1>1, <1>2, LoggedStays DEF Precedes, ControllerInv
<1>3. CASE runs[b] = NoRun
  <2>1. CASE Steady
    BY <2>1, <1>1, <1>3 DEF Steady, Precedes
  <2>2. ASSUME NEW c \in calls, Creates(c)
        PROVE  Precedes(a, b)'
    <3>0. log \in Seq(Asks) /\ runs \in [Asks -> Run] /\ c.req.key \in Asks
      BY <2>2 DEF ControllerInv, IInv, TypeOK, Creates, CallsWell
    <3>1. CASE b # c.req.key
      <4>1. runs'[b] = runs[b]
        BY <3>0, <3>1, <2>2 DEF Creates
      <4> QED
        BY <4>1, <1>1, <1>3 DEF Precedes
    <3>2. CASE b = c.req.key
      <4>1. PICK i \in DOMAIN log : log[i] = a
        BY DEF Precedes, ControllerInv, SessionInv, RunsWell
      <4>2. /\ i \in 1..Len(log) /\ Len(log) \in Nat
            /\ log' = Append(log, b)
        BY <4>1, <3>0, <3>2, <2>2 DEF Creates
      <4>3. /\ i \in DOMAIN log' /\ Len(log) + 1 \in DOMAIN log' /\ i < Len(log) + 1
            /\ log'[i] = a /\ log'[Len(log) + 1] = b
        BY <4>1, <4>2, <3>0
      <4> QED
        BY <4>3, <1>1 DEF Precedes, LoggedBefore
    <3> QED
      BY <3>1, <3>2
  <2> QED
    BY <2>1, <2>2, RunsStep DEF ControllerInv
<1> QED
  BY <1>2, <1>3 DEF Precedes

\* The view goes on with its message or its run.
SameView ==
  /\ [Next]_vars /\ request' = request
  /\ view'.run = view.run \/ (request # NoRequest /\ view'.run = request.key)
  /\ view'.phase = "idle" => view.phase = "idle"

LEMMA SessionKeeps ==
  ASSUME ControllerInv, SameView
  PROVE  CurrentSession' = CurrentSession /\ CurrentSession \in Asks0
<1>0. /\ view \in View /\ request \in Request /\ runs \in [Asks -> Run]
  BY DEF ControllerInv, IInv, TypeOK
<1>1. CASE request # NoRequest
  BY <1>0, <1>1 DEF SameView, CurrentSession, SessionNamed, Request
<1>2. CASE request = NoRequest /\ view.run = NoAsk
  BY <1>2 DEF SameView, CurrentSession, SessionOf, Asks0
<1>3. CASE request = NoRequest /\ view.run # NoAsk
  <2>1. PICK r \in Asks : r = view.run
    BY <1>0, <1>3 DEF View, Asks0
  <2>2. PICK s : s = runs[r].session
    OBVIOUS
  <2>3. runs[r] # NoRun /\ s \in Asks0
    BY <2>1, <2>2, <1>0, <1>3 DEF ControllerInv, SessionInv, RunsKnown, Run
  <2>4. InSession(r, s)'
    BY <2>2, <2>3, OwnerKeeps DEF SameView, InSession
  <2>5. CurrentSession = s
    BY <2>1, <2>2, <1>3 DEF CurrentSession, SessionOf
  <2>6. CurrentSession' = s
    BY <2>1, <2>4, <1>3 DEF SameView, CurrentSession, SessionOf, InSession
  <2> QED
    BY <2>3, <2>5, <2>6
<1> QED
  BY <1>1, <1>2, <1>3

\* No turn becomes a question.
LEMMA QuestionsStay ==
  ASSUME ControllerInv, SameView, QuestionsKnown, QuestionsLogged,
         \A i \in 1..Len(pane'.turns) : pane'.turns[i].role = "user" =>
           i \in 1..Len(pane.turns) /\ pane'.turns[i] = pane.turns[i]
  PROVE  QuestionsKnown' /\ QuestionsLogged'
<1>0. [Next]_vars
  BY DEF SameView
<1>1. \A i \in Questions' : i \in Questions /\ pane'.turns[i].of = pane.turns[i].of
  BY DEF Questions
<1>2. QuestionsKnown'
  <2> SUFFICES ASSUME NEW i \in Questions'
               PROVE  LET k == pane'.turns[i].of IN
                      /\ k # NoAsk
                      /\ k \in Asks => \/ request' # NoRequest /\ k = request'.key
                                       \/ /\ runs'[k] # NoRun
                                          /\ runs'[k].session = CurrentSession'
    BY DEF QuestionsKnown, InSession
  <2>1. PICK k : k = pane.turns[i].of
    OBVIOUS
  <2>2. /\ k # NoAsk
        /\ k \in Asks => (request # NoRequest /\ k = request.key) \/ InSession(k, CurrentSession)
    BY <2>1, <1>1 DEF QuestionsKnown
  <2>3. PICK s \in Asks0 : s = CurrentSession
    BY SessionKeeps
  <2>4. s = CurrentSession'
    BY <2>3, SessionKeeps
  <2>5. k \in Asks /\ InSession(k, s) => InSession(k, s)'
    BY <1>0, OwnerKeeps
  <2>6. InSession(k, s)' => runs'[k] # NoRun /\ runs'[k].session = CurrentSession'
    BY <2>4 DEF InSession
  <2> QED
    BY <2>1, <2>2, <2>3, <2>5, <2>6, <1>1 DEF SameView
<1>3. QuestionsLogged'
  <2> SUFFICES ASSUME NEW i \in Questions', NEW j \in Questions', i < j,
                      pane'.turns[i].of \in Asks, pane'.turns[j].of \in Asks
               PROVE  Precedes(pane.turns[i].of, pane.turns[j].of)'
    BY <1>1 DEF QuestionsLogged
  <2>1. PICK a \in Asks : a = pane.turns[i].of
    BY <1>1
  <2>2. PICK b \in Asks : b = pane.turns[j].of
    BY <1>1
  <2>3. Precedes(a, b)
    BY <2>1, <2>2, <1>1 DEF QuestionsLogged
  <2>4. Precedes(a, b)'
    BY <2>3, <1>0, OrderKeeps
  <2>5. pane'.turns[i].of = a /\ pane'.turns[j].of = b
    BY <2>1, <2>2, <1>1
  <2> QED
    BY <2>1, <2>2, <2>4, <2>5, <1>1 DEF Precedes
<1> QED
  BY <1>2, <1>3

----------------------------------------------------------------------------
(* The turns of a pane that shows its view *)

LEMMA AnswersStay ==
  ASSUME ControllerInv, SameView, PaneType, TurnsWell, NEW t, Puts(t),
         pane.active \in {0, Len(pane'.turns)},
         t.text = "partial" => Len(pane'.turns) = pane'.active /\ view'.phase \notin Terminal,
         IsAnswer(t) =>
           /\ t.of \in Asks /\ runs'[t.of] # NoRun
           /\ LET n == Len(pane'.turns) IN n > 1 => pane.turns[n-1] = Question(t.of),
         t.role = "assistant" /\ t.text = "final" /\ t.of \in Asks
           => runs'[t.of].status = "completed" /\ runs'[t.of].out = "final"
  PROVE  AnswersKnown' /\ AnswersFollow' /\ QuestionsKnown' /\ QuestionsLogged'
<1> DEFINE n == Len(pane'.turns)
<1>0. /\ pane.turns \in Seq(Turn) /\ Len(pane.turns) \in Nat /\ [Next]_vars
      /\ n \in Nat /\ n >= 1 /\ n \in 1..n
  <2>1. Len(pane.turns) \in Nat /\ pane.turns \in Seq(Turn)
    BY DEF PaneType, Shape, Pane
  <2> QED
    BY <2>1 DEF Puts, SameView
<1>1. /\ n \in {Len(pane.turns), Len(pane.turns) + 1}
      /\ n = Len(pane.turns) => pane.turns[n].role # "user"
      /\ pane'.turns[n] = t /\ \A i \in 1..n-1 : pane'.turns[i] = pane.turns[i]
      /\ t.role # "user"
  BY DEF Puts
<1> HIDE DEF n
<1>2. \A i \in 1..n : i = n \/ (i \in 1..n-1 /\ i \in 1..Len(pane.turns) /\ i < n
                                 /\ pane'.turns[i] = pane.turns[i])
  BY <1>0, <1>1
<1>3. QuestionsKnown' /\ QuestionsLogged'
  <2>1. \A i \in 1..n : pane'.turns[i].role = "user" =>
          i \in 1..Len(pane.turns) /\ pane'.turns[i] = pane.turns[i]
    BY <1>1, <1>2
  <2> QED
    BY <2>1, QuestionsStay DEF TurnsWell, n
<1>4. AnswersKnown'
  <2> SUFFICES ASSUME NEW i \in 1..n, IsAnswer(pane'.turns[i]), pane'.turns[i].of \in Asks
               PROVE  runs'[pane'.turns[i].of] # NoRun
    BY DEF AnswersKnown, n
  <2>1. CASE i = n
    BY <2>1, <1>1
  <2>2. CASE i \in 1..Len(pane.turns) /\ pane'.turns[i] = pane.turns[i]
    <3>1. runs[pane.turns[i].of] # NoRun
      BY <2>2 DEF TurnsWell, AnswersKnown
    <3> QED
      BY <3>1, <2>2, <1>0, OwnerKeeps
  <2> QED
    BY <2>1, <2>2, <1>2
<1>5. \A j \in Questions' : j \in 1..n-1 /\ j \in Questions /\ pane'.turns[j] = pane.turns[j]
  BY <1>1, <1>2 DEF Questions, n
<1>6. AnswersFollow'
  <2> SUFFICES ASSUME NEW i \in 1..n
               PROVE  LET u == pane'.turns[i] IN
                 /\ IsAnswer(u) =>
                      /\ i > 1 => pane'.turns[i-1] = Question(u.of)
                      /\ i = 1 => \A j \in Questions' : pane'.turns[j].of # u.of
                 /\ u.role = "assistant" /\ u.text = "final" /\ u.of \in Asks =>
                      runs'[u.of].status = "completed" /\ runs'[u.of].out = "final"
                 /\ u.text = "partial" => i = pane'.active /\ view'.phase \notin Terminal
    BY DEF AnswersFollow, n
  <2>1. CASE i = n
    <3>1. n > 1 => pane'.turns[n-1] = pane.turns[n-1]
      BY <1>0, <1>1
    <3>2. n = 1 => Questions' = {}
      BY <1>5
    <3> QED
      BY <2>1, <3>1, <3>2, <1>1 DEF n
  <2>2. CASE i \in 1..n-1 /\ i \in 1..Len(pane.turns) /\ i < n /\ pane'.turns[i] = pane.turns[i]
    <3>1. PICK u : u = pane.turns[i]
      OBVIOUS
    <3>2. /\ IsAnswer(u) => /\ i > 1 => pane.turns[i-1] = Question(u.of)
                            /\ i = 1 => \A j \in Questions : pane.turns[j].of # u.of
          /\ u.role = "assistant" /\ u.text = "final" /\ u.of \in Asks =>
               runs[u.of].status = "completed" /\ runs[u.of].out = "final"
          /\ u.text = "partial" => i = pane.active
      BY <2>2, <3>1 DEF TurnsWell, AnswersFollow
    <3>3. i > 1 => pane'.turns[i-1] = pane.turns[i-1]
      BY <2>2, <1>0, <1>1
    <3>4. u.text # "partial"
      <4>1. i # 0 /\ i # n
        BY <2>2
      <4> QED
        BY <4>1, <3>2 DEF n
    <3> QED
      BY <2>2, <3>1, <3>2, <3>3, <3>4, <1>0, <1>5, OwnerKeeps
  <2> QED
    BY <2>1, <2>2, <1>2
<1> QED
  BY <1>3, <1>4, <1>6

LEMMA EndedNow ==
  ASSUME NEW s \in Status, PhaseOf(s) \in {"canceled", "failed"}
  PROVE  s = PhaseOf(s)
BY DEF PhaseOf, Status, LiveStatus, FinalStatus

\* The answer that was still to be verified is shown.
LEMMA PendingStep ==
  ASSUME ControllerInv, ControllerInv', SameView, PaneType, TurnsWell, PutsPending
  PROVE  TurnsWell'
<1> DEFINE n == Len(pane'.turns)
<1>0. view' \in View /\ NoAsk \notin Asks /\ n \in Nat
  <2>1. Len(pane.turns) \in Nat
    BY DEF PaneType, Shape, Pane
  <2> QED
    BY <2>1, ChatAssumption DEF ControllerInv, IInv, TypeOK, PutsPending, Puts
<1>1. PICK t : t = AnswerTurn(view'.run, "final")
  OBVIOUS
<1>2. /\ Puts(t) /\ pane.active = 0 /\ pane'.active = 0 /\ pane'.pending = NotPending
      /\ request' = NoRequest /\ view'.run \in Asks /\ view'.phase = "completed"
      /\ n > 1 /\ pane.turns[n-1] = Question(view'.run)
  BY <1>0, <1>1 DEF PutsPending, SameView, View, Asks0
<1>3. t.role = "assistant" /\ t.text = "final" /\ t.of = view'.run
  BY <1>1 DEF AnswerTurn
<1>4. /\ runs'[view'.run].status = "completed" /\ runs'[view'.run].out = "final"
      /\ runs'[view'.run] # NoRun
  <2>1. runs'[view'.run] \in Run
    BY <1>2 DEF ControllerInv, IInv, TypeOK
  <2> QED
    BY <2>1, <1>2, EndedNow
    DEF ControllerInv, IInv, VerifiedOutcome, Terminal, PhaseOf, NoRun, Run, Status, LiveStatus,
      FinalStatus
<1>5. AnswersKnown' /\ AnswersFollow' /\ QuestionsKnown' /\ QuestionsLogged'
  BY <1>2, <1>3, <1>4, AnswersStay DEF IsAnswer
<1>6. pane'.turns # << >>
  BY <1>2
<1>7. pane'.turns[n] = AnswerTurn(view'.run, "final")
  BY <1>1, <1>2 DEF Puts
<1> QED
  BY <1>2, <1>5, <1>6, <1>7
  DEF TurnsWell, ActiveWell, PendingWell, IdlePane, EmptyWell, SentShown, NewestShown, Newest

\* The active turn shows the output, or that the run was stopped.
LEMMA ActiveStep ==
  ASSUME ControllerInv, ControllerInv', SameView, PaneType, TurnsWell, PutsActive
  PROVE  TurnsWell'
<1> DEFINE n == Len(pane'.turns)
<1>0. /\ view' \in View /\ NoAsk \notin Asks /\ NoAsk \in Asks0 /\ runs' \in [Asks -> Run]
      /\ n \in Nat /\ n >= 1 /\ n = Len(pane.turns) /\ pane.active = n
      /\ pane'.pending = NotPending /\ pane'.turns # << >> /\ pane.turns # << >>
      /\ pane'.active \in {0, n} /\ pane.active # 0
  <2>1. Len(pane.turns) \in Nat
    BY DEF PaneType, Shape, Pane
  <2> QED
    BY <2>1, ChatAssumption DEF ControllerInv, IInv, TypeOK, PutsActive, Asks0
<1>1. view'.phase # "idle"
  BY <1>0 DEF SameView, TurnsWell, IdlePane
<1>2. view'.run # NoAsk => runs'[view'.run] # NoRun /\ view'.run \in Asks
  BY <1>0 DEF ControllerInv, SessionInv, RunsKnown, View, Asks0
<1> HIDE DEF n
<1>3. CASE view'.phase = "canceled" /\ Puts(Stopped) /\ pane'.active = 0
  <2>1. AnswersKnown' /\ AnswersFollow' /\ QuestionsKnown' /\ QuestionsLogged'
    <3>1. Stopped.text = "none" /\ Stopped.role = "status"
      BY DEF Stopped
    <3> QED
      BY <3>1, <1>0, <1>3, AnswersStay DEF IsAnswer, n
  <2>2. Ended(view.run, "canceled")'
    <3>1. view'.run # NoAsk /\ PhaseOf(runs'[view'.run].status) = "canceled"
      BY <1>3 DEF ControllerInv, IInv, VerifiedOutcome, Terminal
    <3>2. runs'[view'.run].status \in Status
      BY <3>1, <1>0, <1>2 DEF Run
    <3> QED
      BY <3>1, <3>2, EndedNow DEF Ended
  <2>3. request' # NoRequest => Ended(request.key, "canceled")'
    BY <2>2 DEF ControllerInv, IInv, OwnRunShown, Ended
  <2> QED
    BY <2>1, <2>2, <2>3, <1>0, <1>1, <1>3
    DEF TurnsWell, ActiveWell, PendingWell, IdlePane, EmptyWell, SentShown, NewestShown, Newest
<1>4. CASE /\ Puts(AnswerTurn(view'.run, view'.out)) /\ pane'.active = n
           /\ \/ n = 1 /\ request = NoRequest
              \/ n > 1 /\ request # NoRequest /\ pane.turns[n-1] = Question(request.key)
  <2>1. PICK t : t = AnswerTurn(view'.run, view'.out)
    OBVIOUS
  <2>2. /\ Puts(t) /\ t.role = "assistant" /\ t.text = view'.out
        /\ t.text # "none" => t.of = view'.run /\ t.of \in Asks
    BY <2>1, <1>0, <1>2, <1>4 DEF AnswerTurn, ControllerInv, ViewOut
  <2>3. ASSUME t.text # "none"
        PROVE  /\ runs'[t.of] # NoRun
               /\ n > 1 => pane.turns[n-1] = Question(t.of)
    <3>1. t.of = view'.run /\ t.of \in Asks /\ view'.run # NoAsk
      BY <2>2, <2>3, <1>0
    <3>2. request # NoRequest => view'.run = request.key
      BY <3>1 DEF SameView, ControllerInv, IInv, OwnRunShown
    <3> QED
      BY <3>1, <3>2, <1>2, <1>4
  <2>4. t.text = "final" => runs'[t.of].status = "completed" /\ runs'[t.of].out = "final"
    BY <2>2 DEF ControllerInv, ViewOut
  <2>5. t.text = "partial" => view'.phase \notin Terminal
    BY <2>2 DEF ControllerInv, ViewOut
  <2>6. AnswersKnown' /\ AnswersFollow' /\ QuestionsKnown' /\ QuestionsLogged'
    BY <2>2, <2>3, <2>4, <2>5, <1>0, <1>4, AnswersStay DEF IsAnswer, n
  <2>7. pane'.turns[n] = AnswerTurn(view'.run, view'.out)
        /\ (n > 1 => pane'.turns[n-1] = pane.turns[n-1])
    BY <2>1, <2>2, <1>0 DEF Puts, n
  <2>8. ActiveWell'
    BY <2>7, <1>0, <1>4 DEF ActiveWell, SameView, n
  <2> QED
    BY <2>6, <2>8, <1>0, <1>1, <1>4
    DEF TurnsWell, PendingWell, IdlePane, EmptyWell, SentShown, NewestShown
<1> QED
  BY <1>0, <1>3, <1>4 DEF PutsActive, n

\* The turns stay.
LEMMA NoneStep ==
  ASSUME ControllerInv, ControllerInv', SameView, PaneType, TurnsWell, PutsNone
  PROVE  TurnsWell'
<1> DEFINE N == Len(pane.turns)
<1>0. /\ pane.turns \in Seq(Turn) /\ N \in Nat /\ NoAsk \notin Asks /\ [Next]_vars
      /\ view \in View /\ request \in Request
      /\ pane'.turns = pane.turns /\ pane'.active = pane.active /\ pane'.pending = pane.pending
      /\ request' = request
  BY ChatAssumption DEF PaneType, Shape, Pane, SameView, PutsNone, ControllerInv, IInv, TypeOK
<1>1. Questions' = Questions
  BY <1>0 DEF Questions
<1>2. QuestionsKnown' /\ QuestionsLogged'
  BY <1>0, QuestionsStay DEF TurnsWell
<1>3. AnswersKnown'
  BY <1>0, OwnerKeeps DEF TurnsWell, AnswersKnown
<1>4. AnswersFollow'
  <2>1. \A i \in 1..N : pane.turns[i].text = "partial" =>
          i = pane.active /\ view'.phase \notin Terminal
    BY DEF TurnsWell, AnswersFollow, PutsNone
  <2>2. \A k \in Asks : runs[k].status = "completed" /\ runs[k].out = "final"
          => runs'[k].status = "completed" /\ runs'[k].out = "final"
    BY <1>0, OwnerKeeps
  <2> QED
    BY <2>1, <2>2, <1>0, <1>1 DEF TurnsWell, AnswersFollow
<1>5. request = NoRequest => view'.run = view.run
  BY DEF SameView
<1>6. ActiveWell'
  <2>1. pane.active # 0 => view' = view
    BY DEF PutsNone
  <2> QED
    BY <2>1, <1>0 DEF TurnsWell, ActiveWell
<1>7. PendingWell'
  BY <1>0, <1>5 DEF TurnsWell, PendingWell, PutsNone
<1>8. IdlePane'
  BY <1>0 DEF TurnsWell, IdlePane, SameView
<1>9. \A k \in Asks0, s \in FinalStatus : Ended(k, s) => Ended(k, s)'
  BY <1>0, OwnerKeeps
<1>10. view.run \in Asks0 /\ request.key \in Asks0 /\ {"failed", "canceled"} \subseteq FinalStatus
  BY <1>0 DEF View, Request, FinalStatus
<1>11. EmptyWell'
  <2>1. view'.run = view.run => (Ended(view.run, "failed") => runs'[view'.run].status = "failed")
    BY <1>9, <1>10 DEF Ended
  <2> QED
    BY <2>1, <1>0, <1>5 DEF TurnsWell, EmptyWell, Ended
<1>12. SentShown'
  BY <1>0, <1>9, <1>10 DEF TurnsWell, SentShown, Ended
<1>13. NewestShown'
  BY <1>0, <1>5, <1>9, <1>10 DEF TurnsWell, NewestShown, Newest, Ended
<1> QED
  BY <1>2, <1>3, <1>4, <1>6, <1>7, <1>8, <1>11, <1>12, <1>13 DEF TurnsWell

\* The earlier pages stay above what is put at the end.
LEMMA PagesPut ==
  ASSUME PaneType, PagesShown, cursor' = cursor, NEW t, Puts(t)
  PROVE  PagesShown'
<1> DEFINE n == Len(pane'.turns)
           N == Len(pane.turns)
<1>0. N \in Nat /\ Len(Earlier) \in Nat
  BY PaneAssumption DEF PaneType, Shape, Pane
<1>1. PICK m \in 0..Len(Earlier) : PagesFirst(m)
  BY DEF PagesShown
<1>2. m \in Nat
  BY <1>0
<1>3. /\ n \in {N, N + 1} /\ n >= 1 /\ n \in Nat
      /\ n = N => pane.turns[n].role # "user"
      /\ pane'.turns[n] = t /\ t.of \in Asks0
      /\ \A i \in 1..n-1 : pane'.turns[i] = pane.turns[i]
  BY <1>0 DEF Puts
<1> HIDE DEF n, N
<1>4. /\ 2 * m <= N
      /\ m > 0 \/ cursor # 0 => 2*m < N /\ pane.turns[2*m+1] = Question(First)
      /\ \A i \in 1..m :
           LET h == Earlier[Len(Earlier) - m + i] IN
           pane.turns[2*i-1] = Question(h) /\ pane.turns[2*i] = AnswerTurn(h, "final")
      /\ \A i \in 2*m+1..N : pane.turns[i].of \in Asks0
      /\ cursor # 0 => cursor = Len(Earlier) - m
  BY <1>1 DEF PagesFirst, N
<1>5. 2*m < n /\ (m > 0 \/ cursor # 0 => 2*m+1 < n)
  <2>1. CASE m > 0 \/ cursor # 0
    <3>1. 2*m < N /\ pane.turns[2*m+1].role = "user"
      BY <2>1, <1>4 DEF Question
    <3>2. n = N => n # 2*m+1
      BY <3>1, <1>3
    <3> QED
      BY <3>1, <3>2, <1>0, <1>2, <1>3 DEF N
  <2>2. CASE ~(m > 0 \/ cursor # 0)
    BY <2>2, <1>2, <1>3
  <2> QED
    BY <2>1, <2>2
<1>6. 2*m <= n
  BY <1>2, <1>3, <1>5
<1>7. ASSUME NEW i \in 1..m
      PROVE  LET h == Earlier[Len(Earlier) - m + i] IN
             pane'.turns[2*i-1] = Question(h) /\ pane'.turns[2*i] = AnswerTurn(h, "final")
  <2>1. 2*i-1 \in 1..n-1 /\ 2*i \in 1..n-1
    BY <1>2, <1>3, <1>5
  <2> QED
    BY <2>1, <1>3, <1>4
<1>8. ASSUME NEW i \in 2*m+1..n
      PROVE  pane'.turns[i].of \in Asks0
  <2>1. i = n \/ (i \in 1..n-1 /\ i \in 2*m+1..N)
    BY <1>0, <1>2, <1>3 DEF N
  <2> QED
    BY <2>1, <1>3, <1>4
<1>9. m > 0 \/ cursor' # 0 => 2*m < n /\ pane'.turns[2*m+1] = Question(First)
  <2>1. m > 0 \/ cursor # 0 => 2*m+1 \in 1..n-1
    BY <1>2, <1>3, <1>5
  <2> QED
    BY <2>1, <1>3, <1>4, <1>5
<1>10. PagesFirst(m)'
  BY <1>4, <1>6, <1>7, <1>8, <1>9 DEF PagesFirst, n
<1> QED
  BY <1>10 DEF PagesShown

LEMMA ShowsTurns ==
  ASSUME ControllerInv, ControllerInv', SameView, PaneType, TranscriptInv,
         pane' = OnChange(pane, view') \/ (UNCHANGED pane /\ view' = view), UNCHANGED cursor,
         cut => cut'
  PROVE  TranscriptInv'
<1>0. view' \in View /\ Shape(pane) /\ (request = NoRequest => view'.run = view.run)
      /\ request' = request /\ TurnsWell /\ PagesShown
  BY DEF ControllerInv, IInv, TypeOK, PaneType, SameView, TranscriptInv
<1>1. PutsPending \/ PutsActive \/ PutsNone
  <2>1. CASE pane' = OnChange(pane, view')
    BY <2>1, <1>0, OnChangeKind
  <2>2. CASE UNCHANGED pane /\ view' = view
    BY <2>2, <1>0 DEF PutsNone, TurnsWell, PendingWell
  <2> QED
    BY <2>1, <2>2
<1>2. TurnsWell'
  BY <1>0, <1>1, PendingStep, ActiveStep, NoneStep
<1>3. PagesShown'
  <2>1. CASE \E t : Puts(t)
    BY <2>1, <1>0, PagesPut
  <2>2. CASE pane'.turns = pane.turns
    BY <2>2, <1>0 DEF PagesShown, PagesFirst
  <2> QED
    BY <2>1, <2>2, <1>1 DEF PutsPending, PutsActive, PutsNone
<1>4. /\ pane'.hasOlder = pane.hasOlder /\ pane'.loading = pane.loading
      /\ pane.active = 0 => pane'.active = 0
      /\ pane.turns # << >> => pane'.turns # << >>
  <2>1. CASE pane' = OnChange(pane, view')
    <3>1. /\ pane'.hasOlder = pane.hasOlder /\ pane'.loading = pane.loading
          /\ Len(pane'.turns) >= Len(pane.turns) /\ pane'.turns \in Seq(Turn)
          /\ pane.turns \in Seq(Turn)
      BY <2>1, <1>0, OnChangeShape DEF Shape, Pane
    <3>2. pane.turns # << >> => pane'.turns # << >>
      BY <3>1, EmptySeq
    <3>3. pane.active = 0 => pane'.active = 0
      <4>1. PutsActive => pane.active # 0
        BY <1>0 DEF PutsActive, Shape, Pane
      <4> QED
        BY <4>1, <1>1 DEF PutsPending, PutsNone
    <3> QED
      BY <3>1, <3>2, <3>3
  <2> QED
    BY <2>1
<1>5. OlderWell'
  BY <1>4 DEF TranscriptInv, OlderWell
<1> QED
  BY <1>2, <1>3, <1>5 DEF TranscriptInv

----------------------------------------------------------------------------
(* Every kind of step keeps the invariant *)

\* Of a pane that loads: it is busy, and knows of no earlier page.
LEMMA LoadingPane ==
  ASSUME ControllerInv, PaneInv, NEW c \in calls, c.epoch = epoch, c.op \in Loads
  PROVE  /\ ~refused /\ TranscriptInv /\ pane = IF c.op = "open" THEN Opening ELSE Recovering
         /\ pane.busy /\ ~pane.hasOlder /\ ~pane.loading /\ cursor = 0
         /\ \A p \in pages : ~p.mine
         /\ view.run = NoAsk /\ request = NoRequest
<1>1. ~refused /\ TranscriptInv /\ pane = IF c.op = "open" THEN Opening ELSE Recovering
  BY DEF PaneInv, LoadPane
<1>2. /\ pane.busy /\ ~pane.hasOlder /\ ~pane.loading
      /\ pane.turns = << >> \/ pane.turns = <<AnswerTurn(NoAsk, "none")>>
  BY <1>1 DEF Opening, Recovering, Empty
<1>3. cursor = 0
  <2>1. PICK m \in 0..Len(Earlier) : PagesFirst(m)
    BY <1>1 DEF TranscriptInv, PagesShown
  <2>2. m \in Nat
    BY <2>1, PaneAssumption
  <2>3. cursor # 0 => 2*m < Len(pane.turns) /\ pane.turns[2*m+1] = Question(First)
    BY <2>1 DEF PagesFirst
  <2>4. CASE pane.turns = << >>
    BY <2>2, <2>3, <2>4
  <2>5. CASE pane.turns = <<AnswerTurn(NoAsk, "none")>>
    <3>1. Len(pane.turns) = 1 /\ pane.turns[1].role = "assistant"
      BY <2>5 DEF AnswerTurn
    <3>2. 2*m < 1 => m = 0
      BY <2>2
    <3>3. Question(First).role = "user"
      BY DEF Question
    <3> QED
      BY <2>3, <3>1, <3>2, <3>3
  <2> QED
    BY <1>2, <2>4, <2>5
<1>4. \A p \in pages : ~p.mine
  <2>1. \A p \in pages : p.mine \in BOOLEAN
    BY DEF PaneInv, PaneType, Page
  <2> QED
    BY <1>1, <1>2, <2>1 DEF PaneInv, PagesWell
<1>5. view.run = NoAsk /\ request = NoRequest
  BY DEF ControllerInv, LoneLoad, Loads, IInv, CallsOwn
<1> QED
  BY <1>1, <1>2, <1>3, <1>4, <1>5

LEMMA RestsStep ==
  ASSUME ControllerInv, ControllerInv', PaneInv, Rests
  PROVE  PaneInv'
<1>0. UNCHANGED <<pane, cursor, pages, cut, refused, view, request, epoch, selection>>
      /\ [Next]_vars
  BY DEF Rests, panerest, older
<1>1. PaneType' /\ Locked' /\ RefusedShown'
  BY <1>0 DEF PaneInv, PaneType, Shape, Locked, Busy, RefusedShown
<1>2. LoadPane'
  <2> SUFFICES ASSUME NEW d \in calls', d.epoch = epoch', d.op \in Loads
               PROVE  ~refused' /\ pane' = IF d.op = "open" THEN Opening ELSE Recovering
    BY DEF LoadPane
  <2>1. PICK c \in calls : c.op = d.op /\ c.epoch = d.epoch
    BY DEF Rests
  <2> QED
    BY <2>1, <1>0 DEF PaneInv, LoadPane
<1>3. PagesWell'
  BY <1>0 DEF PaneInv, PagesWell
<1>4. TranscriptInv => TranscriptInv'
  <2>1. SameView
    BY <1>0 DEF SameView
  <2> QED
    BY <1>0, <2>1, ShowsTurns DEF PaneInv
<1> QED
  BY <1>0, <1>1, <1>2, <1>3, <1>4 DEF PaneInv

LEMMA ShowsStep ==
  ASSUME ControllerInv, ControllerInv', PaneInv, Shows
  PROVE  PaneInv'
<1>0. /\ pane' = OnChange(pane, view') /\ UNCHANGED <<cursor, pages, refused, selection>>
      /\ SameView /\ NoLoad' /\ Shape(pane) /\ view' \in View
      /\ epoch \in Nat /\ pages \in SUBSET Page
  BY DEF Shows, SameView, PaneInv, PaneType, ControllerInv, IInv, TypeOK
<1>1. /\ Shape(pane') /\ Len(pane'.turns) >= Len(pane.turns) /\ (pane'.busy <=> Busy(view'))
      /\ pane'.hasOlder = pane.hasOlder /\ pane'.loading = pane.loading
  BY <1>0, OnChangeShape
<1>2. \/ UNCHANGED <<epoch, cut>>
      \/ epoch' = epoch + 1 /\ cut' = (cut \/ \E p \in pages : p.mine)
  BY DEF Shows
<1>3. cut \in BOOLEAN /\ cut' \in BOOLEAN /\ (cut => cut')
  BY <1>2 DEF PaneInv, PaneType
<1>4. PaneType' /\ Locked' /\ LoadPane'
  BY <1>0, <1>1, <1>3 DEF PaneInv, PaneType, Shape, Locked, Busy, NoLoad, LoadPane
<1>5. RefusedShown'
  <2>1. pane.turns # << >> => pane'.turns # << >>
    BY <1>0, <1>1, EmptySeq DEF Shape, Pane
  <2> QED
    BY <2>1, <1>0 DEF PaneInv, RefusedShown
<1>6. PagesWell'
  <2>1. \A p \in pages : p.epoch \in Nat /\ p.epoch <= epoch
    BY <1>0 DEF PaneInv, PagesWell, Page
  <2>2. CASE UNCHANGED <<epoch, cut>>
    BY <2>2, <1>0, <1>1 DEF PaneInv, PagesWell
  <2>3. CASE epoch' = epoch + 1 /\ cut' = (cut \/ \E p \in pages : p.mine)
    <3>1. \A p \in pages : p.epoch <= epoch' /\ p.epoch # epoch'
      BY <2>1, <2>3, <1>0
    <3>2. \A p \in pages : p.mine => cut'
      BY <2>3
    <3> QED
      BY <3>1, <3>2, <1>0, <1>1 DEF PaneInv, PagesWell
  <2> QED
    BY <2>2, <2>3, <1>2
<1>7. TranscriptInv => TranscriptInv'
  BY <1>0, <1>3, ShowsTurns DEF PaneInv
<1> QED
  BY <1>0, <1>4, <1>5, <1>6, <1>7 DEF PaneInv

\* A new generation of the pane has no pages of its own.
LEMMA RestartsPages ==
  ASSUME ControllerInv, PaneInv, NewGeneration, epoch' = epoch \/ epoch' = epoch + 1
  PROVE  /\ pages' \in SUBSET Page
         /\ \A p \in pages' : ~p.mine /\ p.epoch <= epoch'
         /\ epoch' = epoch + 1 => PagesWell'
<1>0. epoch \in Nat /\ pages \in SUBSET Page /\ \A p \in pages : p.epoch <= epoch
  BY DEF ControllerInv, IInv, TypeOK, PaneInv, PaneType, PagesWell
<1>1. ASSUME NEW q \in pages'
      PROVE  q \in Page /\ ~q.mine /\ q.epoch <= epoch
  <2>1. PICK p \in pages : q = [p EXCEPT !.mine = FALSE]
    BY DEF NewGeneration
  <2>2. p \in Page /\ p.epoch <= epoch
    BY <1>0
  <2> QED
    BY <2>1, <2>2 DEF Page
<1>2. \A q \in pages' : q.epoch \in Nat /\ q.epoch <= epoch
  BY <1>1 DEF Page
<1>3. \A q \in pages' : q.epoch <= epoch' /\ (epoch' = epoch + 1 => q.epoch # epoch')
  BY <1>0, <1>2
<1> QED
  BY <1>1, <1>3 DEF PagesWell

\* A pane without turns.
LEMMA BlankPane ==
  ASSUME pane'.turns = << >>, pane'.active = 0, pane'.pending = NotPending,
         ~pane'.hasOlder, ~pane'.loading, cursor' = 0, request' = NoRequest,
         view'.run = NoAsk \/ Ended(view.run, "failed")'
  PROVE  TranscriptInv'
<1>1. Questions' = {} /\ Len(pane'.turns) = 0
  BY DEF Questions
<1>2. OlderWell' /\ TurnsWell'
  BY <1>1 DEF OlderWell, TurnsWell, ActiveWell, PendingWell, IdlePane, AnswersKnown,
    AnswersFollow, QuestionsKnown, QuestionsLogged, EmptyWell, SentShown, NewestShown
<1>3. PagesFirst(0)'
  BY <1>1 DEF PagesFirst
<1>4. 0 \in 0..Len(Earlier)
  BY PaneAssumption
<1>5. PagesShown'
  BY <1>3, <1>4 DEF PagesShown
<1> QED
  BY <1>2, <1>5 DEF TranscriptInv

LEMMA EmptyType ==
  /\ Shape(Empty) /\ Shape(Opening) /\ Shape(Recovering)
  /\ Empty.turns = << >> /\ Empty.active = 0 /\ Empty.pending = NotPending
  /\ ~Empty.hasOlder /\ ~Empty.loading /\ ~Empty.busy
  /\ Opening.turns = << >> /\ Opening.active = 0 /\ Opening.pending = NotPending
  /\ ~Opening.hasOlder /\ ~Opening.loading /\ Opening.busy
<1>1. NotPending \in [run : Asks0, cell : Nat] /\ NotPending.cell = 0
  BY DEF NotPending, Asks0
<1>2. << >> \in Seq(Turn) /\ Len(<< >>) = 0
  OBVIOUS
<1>3. AnswerTurn(NoAsk, "none") \in Turn
  BY TurnTypes DEF Asks0, Text
<1>4. <<AnswerTurn(NoAsk, "none")>> \in Seq(Turn) /\ Len(<<AnswerTurn(NoAsk, "none")>>) = 1
  BY <1>3
<1>5. Shape(Empty)
  BY <1>1, <1>2 DEF Shape, Empty, Pane
<1>10. /\ Opening.turns = << >> /\ Opening.active = 0 /\ Opening.pending = NotPending
       /\ ~Opening.hasOlder /\ ~Opening.loading /\ Opening.busy
  BY DEF Opening, Empty
<1>6. Shape(Opening)
  <2>1. Opening \in Pane
    BY <1>5 DEF Shape, Opening, Pane
  <2> QED
    BY <2>1, <1>1, <1>2, <1>10 DEF Shape
<1>7. PICK s \in Seq(Turn) : s = <<AnswerTurn(NoAsk, "none")>> /\ Len(s) = 1
  BY <1>4
<1>8. Recovering = [Opening EXCEPT !.turns = s, !.active = 1]
  BY <1>7 DEF Recovering
<1>9. Shape(Recovering)
  <2>1. Opening \in Pane
    BY <1>6 DEF Shape
  <2>2. /\ Recovering \in Pane /\ Recovering.turns = s /\ Recovering.active = 1
        /\ Recovering.pending = NotPending
    BY <2>1, <1>7, <1>8, <1>10 DEF Pane
  <2> QED
    BY <2>2, <1>1, <1>7 DEF Shape
<1> QED
  BY <1>5, <1>6, <1>9, <1>10 DEF Empty

LEMMA EmptiesStep ==
  ASSUME ControllerInv, ControllerInv', PaneInv, Empties
  PROVE  PaneInv'
<1>0. /\ pane' = Empty /\ NewGeneration /\ cursor' = 0 /\ refused' = FALSE /\ cut' = FALSE
      /\ epoch' = epoch + 1 /\ request' = NoRequest /\ view'.run = NoAsk
      /\ view'.phase = "idle" /\ calls' = calls
  BY DEF Empties, Cleared, Restarts, Close, Retarget, EpochAfterClose, ResetView, ResetEpochs,
    ForgetConversation
<1>1. pages' \in SUBSET Page /\ PagesWell'
  BY <1>0, RestartsPages
<1>2. PaneType' /\ Locked' /\ RefusedShown'
  <2>1. cursor' \in 0..Len(Earlier)
    BY <1>0, PaneAssumption
  <2>2. PaneType'
    BY <1>0, <1>1, <2>1, EmptyType DEF PaneType, Shape
  <2> QED
    BY <1>0, <2>2, EmptyType DEF Locked, Busy, RefusedShown
<1>3. LoadPane'
  <2>1. \A c \in calls : c.epoch \in Nat /\ c.epoch <= epoch /\ epoch \in Nat
    BY DEF ControllerInv, IInv, TypeOK, Call, CallsWell
  <2>2. \A c \in calls' : c.epoch # epoch'
    BY <2>1, <1>0
  <2> QED
    BY <2>2 DEF LoadPane
<1>4. TranscriptInv'
  BY <1>0, EmptyType, BlankPane
<1> QED
  BY <1>1, <1>2, <1>3, <1>4 DEF PaneInv

\* The load call that begins an epoch is its only call.
LEMMA LoadBegins ==
  ASSUME ControllerInv, NEW name, NEW op, Load(name, op)
  PROVE  /\ epoch' = epoch + 1 /\ request' = NoRequest
         /\ view'.run = NoAsk /\ view'.phase = "submitting" /\ view'.out = "none"
         /\ \A d \in calls' : d.epoch = epoch' => d.op = op
<1>1. /\ epoch' = epoch + 1 /\ request' = NoRequest
      /\ view'.run = NoAsk /\ view'.phase = "submitting" /\ view'.out = "none"
  BY DEF Load, ResetView, ResetEpochs, ForgetConversation
<1>2. PICK r : Dispatch(MakeCall(op, epoch + 1, 0, r, NoRequest))
  BY DEF Load
<1>3. \A d \in calls' : d \in calls \/ d.op = op
  BY <1>2 DEF Dispatch, MakeCall
<1>4. \A c \in calls : c.epoch # epoch'
  <2>1. \A c \in calls : c.epoch \in Nat /\ c.epoch <= epoch /\ epoch \in Nat
    BY DEF ControllerInv, IInv, TypeOK, Call, CallsWell
  <2> QED
    BY <2>1, <1>1
<1> QED
  BY <1>1, <1>3, <1>4

LEMMA OpenBeginsStep ==
  ASSUME ControllerInv, ControllerInv', PaneInv, BeginsOpen
  PROVE  PaneInv'
<1>0. /\ pane' = Opening /\ NewGeneration /\ cursor' = 0 /\ refused' = FALSE /\ cut' = FALSE
      /\ epoch' = epoch + 1 /\ request' = NoRequest /\ view'.run = NoAsk
      /\ view'.phase = "submitting" /\ \A d \in calls' : d.epoch = epoch' => d.op = "open"
  <2>1. Load("open", "open")
    BY DEF BeginsOpen, OpenSession
  <2> QED
    BY <2>1, LoadBegins DEF BeginsOpen, Cleared, Restarts
<1>1. pages' \in SUBSET Page /\ PagesWell'
  BY <1>0, RestartsPages
<1>2. PaneType' /\ Locked' /\ RefusedShown'
  <2>1. cursor' \in 0..Len(Earlier)
    BY <1>0, PaneAssumption
  <2>2. PaneType'
    BY <1>0, <1>1, <2>1, EmptyType DEF PaneType, Shape
  <2> QED
    BY <1>0, <2>2, EmptyType DEF Locked, Busy, RefusedShown
<1>3. LoadPane'
  BY <1>0 DEF LoadPane
<1>4. TranscriptInv'
  BY <1>0, EmptyType, BlankPane
<1> QED
  BY <1>1, <1>2, <1>3, <1>4 DEF PaneInv

\* A pane with one turn, of the run that is recovered.
LEMMA SinglePane ==
  ASSUME ControllerInv', NEW t, pane'.turns = <<t>>, t.role # "user", t.of \in Asks0,
         pane'.pending = NotPending, ~pane'.hasOlder, ~pane'.loading, cursor' = 0,
         request' = NoRequest, view'.phase # "idle",
         \/ pane'.active = 1 /\ t = AnswerTurn(view'.run, view'.out)
         \/ pane'.active = 0 /\ t = Stopped /\ Ended(view.run, "canceled")'
  PROVE  TranscriptInv'
<1>0. /\ Len(pane'.turns) = 1 /\ pane'.turns[1] = t /\ pane'.turns # << >>
      /\ Questions' = {} /\ \A i \in 1..Len(pane'.turns) : i = 1
  BY DEF Questions
<1>1. t.role = "assistant" /\ t.text # "none" =>
        /\ pane'.active = 1 /\ t.text = view'.out /\ t.of = view'.run /\ view'.run # NoAsk
        /\ runs'[view'.run] # NoRun
  <2>1. CASE t = Stopped
    BY <2>1 DEF Stopped
  <2>2. CASE pane'.active = 1 /\ t = AnswerTurn(view'.run, view'.out)
    BY <2>2 DEF AnswerTurn, ControllerInv, ViewOut, SessionInv, RunsKnown
  <2> QED
    BY <2>1, <2>2
<1>2. t.text = "partial" => pane'.active = 1 /\ view'.phase \notin Terminal
  <2>1. t.text = "partial" => t # Stopped /\ view'.out = "partial"
    BY DEF Stopped, AnswerTurn
  <2> QED
    BY <2>1 DEF ControllerInv, ViewOut
<1>3. AnswersKnown' /\ AnswersFollow' /\ QuestionsKnown' /\ QuestionsLogged'
  <2>1. AnswersKnown'
    BY <1>0, <1>1 DEF AnswersKnown, IsAnswer
  <2>2. AnswersFollow'
    BY <1>0, <1>1, <1>2 DEF AnswersFollow, IsAnswer, ControllerInv, ViewOut
  <2> QED
    BY <2>1, <2>2, <1>0 DEF QuestionsKnown, QuestionsLogged
<1>4. ActiveWell' /\ PendingWell' /\ IdlePane' /\ EmptyWell' /\ SentShown' /\ NewestShown'
  BY <1>0 DEF ActiveWell, PendingWell, IdlePane, EmptyWell, SentShown, NewestShown
<1>5. OlderWell'
  BY <1>0 DEF OlderWell
<1>6. PagesFirst(0)'
  BY <1>0 DEF PagesFirst
<1>7. 0 \in 0..Len(Earlier)
  BY PaneAssumption
<1>8. PagesShown'
  BY <1>6, <1>7 DEF PagesShown
<1> QED
  BY <1>3, <1>4, <1>5, <1>8 DEF TranscriptInv, TurnsWell

LEMMA RecoverBeginsStep ==
  ASSUME ControllerInv, ControllerInv', PaneInv, BeginsRecover
  PROVE  PaneInv'
<1> DEFINE p == [pane EXCEPT !.turns = <<AnswerTurn(NoAsk, "none")>>, !.active = 1]
<1>0. /\ pane' = OnChange(p, view')
      /\ pane.turns = << >> /\ view.run = NoAsk /\ NewGeneration /\ cursor' = 0
      /\ UNCHANGED <<refused, cut>>
      /\ epoch' = epoch + 1 /\ request' = NoRequest /\ view'.run = NoAsk /\ view'.out = "none"
      /\ view'.phase = "submitting" /\ \A d \in calls' : d.epoch = epoch' => d.op = "recover"
  <2>1. Load("recover", "recover")
    BY DEF BeginsRecover, Recover
  <2> QED
    BY <2>1, LoadBegins DEF BeginsRecover, Restarts
<1>1. ~refused /\ TranscriptInv
  BY <1>0 DEF PaneInv, RefusedShown
<1>2. pane.active = 0 /\ pane.pending = NotPending /\ ~pane.hasOlder /\ ~pane.loading
  <2>1. Len(pane.turns) = 0 /\ pane.active \in Nat /\ pane.active <= 0
    BY <1>0 DEF PaneInv, PaneType, Shape, Pane
  <2> QED
    BY <2>1, <1>0, <1>1 DEF TranscriptInv, TurnsWell, PendingWell, OlderWell
<1>3. pane \in Pane
  BY DEF PaneInv, PaneType, Shape
<1>4. pane' = Recovering
  <2>1. ~Due(p, view')
    BY <1>0 DEF Due
  <2>2. AfterPending(p, view') = p
    BY <2>1 DEF AfterPending
  <2>3. PICK s : s = <<AnswerTurn(NoAsk, "none")>>
    OBVIOUS
  <2>4. s[1] = AnswerTurn(view'.run, view'.out) /\ [s EXCEPT ![1] = AnswerTurn(view'.run, view'.out)] = s
    BY <2>3, <1>0 DEF AnswerTurn
  <2>5. p = [pane EXCEPT !.turns = s, !.active = 1]
    BY <2>3
  <2>6. p.active = 1 /\ p.turns = s /\ p \in [turns : {s}, active : {1}, busy : BOOLEAN,
          pending : {NotPending}, hasOlder : {FALSE}, loading : {FALSE}]
    BY <2>5, <1>2, <1>3 DEF Pane
  <2> HIDE DEF p
  <2>7. AfterOutput(p, view') = p
    BY <2>4, <2>6, <1>0 DEF AfterOutput
  <2>8. Busy(view') = TRUE
    BY <1>0 DEF Busy
  <2>9. pane' = [p EXCEPT !.busy = TRUE]
    BY <2>2, <2>7, <2>8, <1>0 DEF OnChange
  <2>10. pane' = [turns |-> s, active |-> 1, busy |-> TRUE, pending |-> NotPending,
                  hasOlder |-> FALSE, loading |-> FALSE]
    BY <2>6, <2>9
  <2>11. Recovering = [turns |-> s, active |-> 1, busy |-> TRUE, pending |-> NotPending,
                       hasOlder |-> FALSE, loading |-> FALSE]
    <3>1. Opening \in [turns : {<< >>}, active : {0}, busy : {TRUE}, pending : {NotPending},
                       hasOlder : {FALSE}, loading : {FALSE}]
      <4>1. Empty \in [turns : {<< >>}, active : {0}, busy : {FALSE}, pending : {NotPending},
                       hasOlder : {FALSE}, loading : {FALSE}]
        BY DEF Empty
      <4> QED
        BY <4>1 DEF Opening
    <3>2. Recovering = [Opening EXCEPT !.turns = s, !.active = 1]
      BY <2>3 DEF Recovering
    <3> QED
      BY <3>1, <3>2
  <2> QED
    BY <2>10, <2>11
<1>5. pages' \in SUBSET Page /\ PagesWell'
  BY <1>0, RestartsPages
<1>6. /\ pane'.turns = <<AnswerTurn(NoAsk, "none")>> /\ pane'.active = 1 /\ pane'.busy
      /\ pane'.pending = NotPending /\ ~pane'.hasOlder /\ ~pane'.loading
  BY <1>4 DEF Recovering, Opening, Empty
<1>7. PaneType' /\ Locked' /\ RefusedShown'
  <2>1. cursor' \in 0..Len(Earlier)
    BY <1>0, PaneAssumption
  <2>2. PaneType'
    BY <1>0, <1>1, <1>4, <1>5, <2>1, EmptyType DEF PaneInv, PaneType, Shape
  <2> QED
    BY <1>0, <1>1, <1>6, <2>2, EmptyType DEF Locked, Busy, RefusedShown
<1>8. LoadPane'
  BY <1>0, <1>1, <1>4 DEF LoadPane
<1>9. TranscriptInv'
  <2>1. PICK t : t = AnswerTurn(NoAsk, "none")
    OBVIOUS
  <2>2. t.role # "user" /\ t.of \in Asks0 /\ t = AnswerTurn(view'.run, view'.out)
    BY <2>1, <1>0 DEF AnswerTurn, Asks0
  <2> QED
    BY <2>1, <2>2, <1>0, <1>6, SinglePane
<1> QED
  BY <1>5, <1>7, <1>8, <1>9 DEF PaneInv

\* A message goes below the turns.
LEMMA QuestionShape ==
  ASSUME Shape(pane), NEW k \in Asks
  PROVE  LET q == WithQuestion(k)  N == Len(pane.turns) IN
         /\ Shape(q) /\ N \in Nat /\ Len(q.turns) = N + 2 /\ q.turns \in Seq(Turn)
         /\ q.active = N + 2 /\ q.pending = NotPending
         /\ q.busy /\ ~q.hasOlder /\ ~q.loading
         /\ \A i \in 1..N : q.turns[i] = pane.turns[i]
         /\ q.turns[N+1] = Question(k) /\ q.turns[N+2] = AnswerTurn(NoAsk, "none")
<1> DEFINE N == Len(pane.turns)
<1>0. pane.turns \in Seq(Turn) /\ N \in Nat /\ pane \in Pane
  BY DEF Shape, Pane
<1>1. PICK a \in Turn : a = Question(k)
  BY TurnTypes DEF Asks0, Text
<1>2. PICK b \in Turn : b = AnswerTurn(NoAsk, "none")
  BY TurnTypes DEF Asks0, Text
<1>3. PICK s : s = pane.turns \o <<a, b>>
  OBVIOUS
<1>4. /\ s \in Seq(Turn) /\ Len(s) = N + 2 /\ \A i \in 1..N : s[i] = pane.turns[i]
      /\ s[N+1] = a /\ s[N+2] = b
  BY <1>0, <1>3
<1>5. WithQuestion(k) = [pane EXCEPT !.turns = s, !.active = N + 2, !.pending = NotPending,
                                     !.busy = TRUE, !.hasOlder = FALSE, !.loading = FALSE]
  BY <1>0, <1>1, <1>2, <1>3 DEF WithQuestion, Pane
<1>6. PICK q : q = WithQuestion(k)
  OBVIOUS
<1>7. NotPending \in [run : Asks0, cell : Nat] /\ NotPending.cell = 0
  BY DEF NotPending, Asks0
<1>8. PICK n \in Nat : n = N + 2
  BY <1>0
<1>9. q \in [turns : {s}, active : {n}, busy : {TRUE}, pending : {NotPending},
             hasOlder : {FALSE}, loading : {FALSE}]
  BY <1>0, <1>5, <1>6, <1>8 DEF Pane
<1>10. q \in Pane /\ q.turns = s /\ q.active = n /\ q.pending = NotPending /\ q.busy
       /\ ~q.hasOlder /\ ~q.loading
  BY <1>4, <1>7, <1>8, <1>9 DEF Pane
<1>11. Shape(q)
  BY <1>0, <1>4, <1>7, <1>8, <1>10 DEF Shape
<1> QED
  BY <1>0, <1>1, <1>2, <1>4, <1>6, <1>8, <1>10, <1>11

LEMMA RefusedStep ==
  ASSUME ControllerInv, PaneInv, PaneRefused
  PROVE  PaneInv'
<1>0. PICK k \in Asks : pane' = [WithQuestion(k) EXCEPT !.busy = FALSE]
  BY DEF PaneRefused
<1>1. PICK q : q = WithQuestion(k)
  OBVIOUS
<1>2. Shape(q) /\ Len(q.turns) = Len(pane.turns) + 2 /\ Len(pane.turns) \in Nat
  BY <1>1, QuestionShape DEF PaneInv, PaneType
<1>3. Shape(pane') /\ pane'.turns = q.turns /\ ~pane'.busy
  BY <1>0, <1>1, <1>2 DEF Shape, Pane
<1>4. /\ refused' = TRUE /\ NewGeneration /\ ~pane.busy
      /\ UNCHANGED <<cursor, cut, epoch, view, calls>>
  BY DEF PaneRefused, epochs
<1>5. pages' \in SUBSET Page /\ \A p \in pages' : p.epoch <= epoch'
  BY <1>4, RestartsPages
<1>6. PaneType' /\ PagesWell' /\ RefusedShown'
  <2>1. pane'.turns # << >>
    BY <1>2, <1>3
  <2> QED
    BY <2>1, <1>3, <1>4, <1>5 DEF PaneInv, PaneType, Shape, PagesWell, RefusedShown
<1>7. Locked'
  BY <1>3, <1>4 DEF PaneInv, Locked, Busy
<1>8. LoadPane'
  <2>1. \A c \in calls : c.epoch = epoch => c.op \notin Loads
    BY <1>4, LoadingPane
  <2> QED
    BY <2>1, <1>4 DEF LoadPane
<1> QED
  BY <1>4, <1>6, <1>7, <1>8 DEF PaneInv

LEMMA QuestionedStep ==
  ASSUME ControllerInv, ControllerInv', PaneInv, Questioned
  PROVE  PaneInv'
<1> DEFINE N == Len(pane.turns)
           k == request'.key
<1>0. /\ k \in Asks \ used /\ request' # NoRequest
      /\ UNCHANGED owner /\ epoch' = epoch + 1
      /\ view'.run = NoAsk /\ view'.phase = "submitting"
      /\ \/ view.phase = "idle" /\ request'.session = NoAsk
         \/ /\ view.phase \in {"completed", "canceled"} /\ view.run \in Asks
            /\ request'.session = CurrentSession /\ Current = view.run
            /\ InSession(view.run, CurrentSession) /\ request'.session \in Asks
  BY SendStep DEF Questioned, ControllerInv, SessionInv
<1>1. /\ pane' = OnChange(WithQuestion(k), view') /\ NewGeneration /\ cursor' = 0
      /\ UNCHANGED <<refused, cut>> /\ Shape(pane) /\ view'.out = "none" /\ [Next]_vars
      /\ view' \in View /\ NoAsk \notin Asks
  BY ChatAssumption DEF Questioned, Restarts, PaneInv, PaneType, Send, ResetView, ControllerInv,
    IInv, TypeOK
<1>2. PICK q : q = WithQuestion(k)
  OBVIOUS
<1>3. /\ Shape(q) /\ N \in Nat /\ Len(q.turns) = N + 2 /\ q.turns \in Seq(Turn)
      /\ q.active = N + 2 /\ q.pending = NotPending
      /\ ~q.hasOlder /\ ~q.loading
      /\ \A i \in 1..N : q.turns[i] = pane.turns[i]
      /\ q.turns[N+1] = Question(k) /\ q.turns[N+2] = AnswerTurn(NoAsk, "none")
  BY <1>0, <1>1, <1>2, QuestionShape
<1>4. /\ Shape(pane') /\ (pane'.busy <=> Busy(view'))
      /\ ~pane'.hasOlder /\ ~pane'.loading /\ pane'.turns \in Seq(Turn)
      /\ Len(pane'.turns) = N + 2 /\ pane'.active = N + 2 /\ pane'.pending = NotPending
      /\ \A i \in 1..N : pane'.turns[i] = pane.turns[i]
      /\ pane'.turns[N+1] = Question(k)
      /\ pane'.turns[N+2] = AnswerTurn(view'.run, view'.out)
  <2>1. AfterPending(q, view') = q
    BY <1>3 DEF AfterPending, Due, NotPending
  <2>2. PICK o : o = AfterOutput(q, view')
    OBVIOUS
  <2>3. /\ Shape(pane') /\ (pane'.busy <=> Busy(view'))
        /\ pane'.hasOlder = q.hasOlder /\ pane'.loading = q.loading
        /\ pane'.turns = o.turns /\ pane'.active = o.active /\ pane'.pending = o.pending
    BY <2>1, <2>2, <1>1, <1>2, <1>3, OnChangeShape
  <2>4. q.active # 0
    BY <1>3
  <2>5. /\ o.turns = [q.turns EXCEPT ![q.active] = OutputTurn(view')]
        /\ o.active = StillActive(view', q.active) /\ o.pending = q.pending
    BY <2>2, <2>4, <1>1, <1>3, ActiveOutput
  <2>6. o.active = N + 2 /\ OutputTurn(view') = AnswerTurn(view'.run, view'.out)
    BY <2>5, <1>0, <1>3 DEF StillActive, OutputTurn
  <2>7. PICK t \in Turn : t = AnswerTurn(view'.run, view'.out)
    BY <1>1, TurnTypes DEF View, Text
  <2>8. pane'.turns = [q.turns EXCEPT ![N+2] = t]
    BY <2>3, <2>5, <2>6, <2>7, <1>3
  <2>9. /\ pane'.turns \in Seq(Turn) /\ Len(pane'.turns) = N + 2 /\ pane'.turns[N+2] = t
        /\ \A i \in 1..N+1 : pane'.turns[i] = q.turns[i]
    BY <2>7, <2>8, <1>3
  <2>10. N+1 \in 1..N+1 /\ \A i \in 1..N : i \in 1..N+1
    BY <1>3
  <2> QED
    BY <2>3, <2>5, <2>6, <2>7, <2>9, <2>10, <1>3
<1>5. pages' \in SUBSET Page /\ PagesWell'
  BY <1>0, <1>1, RestartsPages
<1>6. PaneType' /\ Locked' /\ RefusedShown'
  <2>1. cursor' \in 0..Len(Earlier)
    BY <1>1, PaneAssumption
  <2>2. PaneType'
    BY <1>1, <1>4, <1>5, <2>1 DEF PaneInv, PaneType, Shape
  <2>3. pane'.turns # << >>
    BY <1>3, <1>4
  <2> QED
    BY <2>2, <2>3, <1>4 DEF Locked, Busy, RefusedShown
<1>7. LoadPane'
  <2>1. \A c \in calls : c.epoch \in Nat /\ c.epoch <= epoch /\ epoch \in Nat
    BY DEF ControllerInv, IInv, TypeOK, Call, CallsWell
  <2>2. PICK n : n.op = "create" /\ calls' = calls \cup {n}
    BY DEF Questioned, Send, Dispatch, MakeCall
  <2>3. \A c \in calls : c.epoch # epoch'
    BY <2>1, <1>0
  <2> QED
    BY <2>2, <2>3 DEF LoadPane, Loads
<1> HIDE DEF N, k
<1>8. ASSUME TranscriptInv
      PROVE  TranscriptInv'
  <2>0. /\ N \in Nat /\ runs' = runs /\ log' = log /\ k \in Asks /\ TurnsWell /\ PagesShown
        /\ pane'.turns # << >> /\ view'.phase \notin Terminal
    BY <1>0, <1>3, <1>4, <1>8 DEF N, owner, TranscriptInv, Terminal
  <2>1. \A i \in 1..N+2 : i \in 1..N \/ i = N+1 \/ i = N+2
    BY <2>0
  <2>2. /\ pane'.turns[N+1].role = "user" /\ pane'.turns[N+1].of = k
        /\ pane'.turns[N+1].text = "final"
        /\ pane'.turns[N+2].role = "assistant" /\ pane'.turns[N+2].text = "none"
        /\ pane'.turns[N+2].of = NoAsk
    BY <1>1, <1>4 DEF Question, AnswerTurn
  <2>3. \A i \in Questions' : i = N+1 \/ (i \in Questions /\ i \in 1..N)
    <3>1. \A i \in Questions' : i \in 1..N+2 /\ pane'.turns[i].role = "user"
      BY <1>4 DEF Questions
    <3> QED
      BY <3>1, <2>1, <2>2, <1>4 DEF Questions, N
  <2>4. runs[k] = NoRun
    BY <1>0, FreshKey DEF ControllerInv, SessionInv
  <2>5. view.phase = "idle" => N = 0
    BY <2>0 DEF TurnsWell, IdlePane, N
  <2>6. \A i \in Questions : pane.turns[i].of \in Asks =>
          /\ InSession(pane.turns[i].of, request'.session)
          /\ request'.session # NoAsk
    <3> SUFFICES ASSUME NEW i \in Questions, pane.turns[i].of \in Asks
                 PROVE  /\ InSession(pane.turns[i].of, request'.session)
                        /\ request'.session # NoAsk
      OBVIOUS
    <3>1. view.phase # "idle"
      <4>1. i \in 1..N
        BY DEF Questions, N
      <4> QED
        BY <4>1, <2>5
    <3>2. /\ request'.session = CurrentSession /\ Current = view.run
          /\ InSession(view.run, CurrentSession) /\ request'.session # NoAsk
      BY <3>1, <1>0, <1>1
    <3>3. \/ request # NoRequest /\ pane.turns[i].of = request.key
          \/ InSession(pane.turns[i].of, CurrentSession)
      BY <2>0 DEF TurnsWell, QuestionsKnown
    <3> QED
      BY <3>2, <3>3 DEF Current
  <2>7. CurrentSession' = IF request'.session = NoAsk THEN k ELSE request'.session
    BY <1>0 DEF CurrentSession, SessionNamed, k
  <2>8. QuestionsKnown'
    <3> SUFFICES ASSUME NEW i \in Questions'
                 PROVE  LET a == pane'.turns[i].of IN
                        /\ a # NoAsk
                        /\ a \in Asks => \/ request' # NoRequest /\ a = request'.key
                                         \/ /\ runs'[a] # NoRun
                                            /\ runs'[a].session = CurrentSession'
      BY DEF QuestionsKnown, InSession
    <3>1. CASE i = N+1
      BY <3>1, <2>2, <1>0, <1>1 DEF k
    <3>2. CASE i \in Questions /\ i \in 1..N
      BY <3>2, <2>0, <2>6, <2>7, <1>4 DEF TurnsWell, QuestionsKnown, InSession
    <3> QED
      BY <3>1, <3>2, <2>3
  <2>9. QuestionsLogged'
    <3> SUFFICES ASSUME NEW i \in Questions', NEW j \in Questions', i < j,
                        pane'.turns[i].of \in Asks, pane'.turns[j].of \in Asks
                 PROVE  LET a == pane'.turns[i].of  b == pane'.turns[j].of IN
                        runs[a] # NoRun /\ (runs[b] = NoRun \/ LoggedBefore(a, b))
      BY <2>0 DEF QuestionsLogged, Precedes, LoggedBefore
    <3>1. i \in 1..N /\ i \in Questions /\ pane'.turns[i] = pane.turns[i]
      <4>1. i # N+1
        <5>1. \A n \in 1..N : ~(N+1 < n)
          BY <2>0
        <5>2. ~(N+1 < N+1)
          BY <2>0
        <5> QED
          BY <5>1, <5>2, <2>3
      <4> QED
        BY <4>1, <2>3, <1>4
    <3>2. CASE j = N+1
      BY <3>1, <3>2, <2>2, <2>4, <2>6 DEF InSession
    <3>3. CASE j \in Questions /\ j \in 1..N
      BY <3>1, <3>3, <2>0, <1>4 DEF TurnsWell, QuestionsLogged, Precedes
    <3> QED
      BY <3>2, <3>3, <2>3
  <2>10. \A i \in 1..N+2 : IsAnswer(pane'.turns[i]) => i \in 1..N /\ pane'.turns[i] = pane.turns[i]
    BY <2>1, <2>2, <1>4 DEF IsAnswer
  <2>11. AnswersKnown'
    BY <2>0, <2>10, <1>4 DEF TurnsWell, AnswersKnown, N
  <2>12. \A i \in 1..N+2 : pane'.turns[i].text # "partial"
    <3>1. ASSUME NEW i \in 1..N, pane.turns[i].text = "partial"
          PROVE  FALSE
      <4>1. view.phase \notin Terminal
        BY <3>1, <2>0 DEF TurnsWell, AnswersFollow, N
      <4> QED
        BY <4>1, <1>0, <2>0, <2>5 DEF Terminal
    <3> QED
      BY <3>1, <2>1, <2>2, <1>4
  <2>13. AnswersFollow'
    <3> SUFFICES ASSUME NEW i \in 1..N+2
                 PROVE  LET u == pane'.turns[i] IN
                   /\ u.role = "assistant" /\ u.text # "none" =>
                        /\ i > 1 => pane'.turns[i-1] = Question(u.of)
                        /\ i = 1 => \A j \in Questions' : pane'.turns[j].of # u.of
                   /\ u.role = "assistant" /\ u.text = "final" /\ u.of \in Asks =>
                        runs'[u.of].status = "completed" /\ runs'[u.of].out = "final"
      BY <2>12, <1>4 DEF AnswersFollow, IsAnswer
    <3>1. CASE IsAnswer(pane'.turns[i])
      <4>1. PICK u : u = pane.turns[i]
        OBVIOUS
      <4>2. i \in 1..N /\ pane'.turns[i] = u /\ IsAnswer(u)
        BY <4>1, <3>1, <2>10
      <4>3. /\ i > 1 => pane.turns[i-1] = Question(u.of)
            /\ i = 1 => \A j \in Questions : pane.turns[j].of # u.of
            /\ u.role = "assistant" /\ u.text = "final" /\ u.of \in Asks =>
                 runs[u.of].status = "completed" /\ runs[u.of].out = "final"
        BY <4>1, <4>2, <2>0 DEF TurnsWell, AnswersFollow, N
      <4>4. i > 1 => pane'.turns[i-1] = pane.turns[i-1]
        <5>1. i > 1 => i-1 \in 1..N
          BY <4>2, <2>0
        <5> QED
          BY <5>1, <1>4
      <4>5. u.of # k
        BY <4>1, <4>2, <2>0, <2>4 DEF TurnsWell, AnswersKnown, N
      <4>6. i = 1 => \A j \in Questions' : pane'.turns[j].of # u.of
        BY <4>3, <4>5, <2>2, <2>3, <1>4
      <4> QED
        BY <4>2, <4>3, <4>4, <4>6, <2>0
    <3>2. CASE ~IsAnswer(pane'.turns[i])
      BY <3>2 DEF IsAnswer
    <3> QED
      BY <3>1, <3>2
  <2>14. ActiveWell'
    <3>1. N+2 > 1 /\ (N+2) - 1 = N+1
      BY <2>0
    <3> QED
      BY <3>1, <1>0, <1>4 DEF ActiveWell, k
  <2>15. PendingWell' /\ IdlePane' /\ EmptyWell' /\ SentShown' /\ NewestShown'
    <3>1. N+2 # 0
      BY <2>0
    <3> QED
      BY <3>1, <2>0, <1>0, <1>4 DEF PendingWell, IdlePane, EmptyWell, SentShown, NewestShown
  <2>16. OlderWell'
    BY <1>1, <1>4 DEF OlderWell
  <2>17. PagesShown'
    <3>1. PICK m \in 0..Len(Earlier) : PagesFirst(m)
      BY <2>0 DEF PagesShown
    <3>2. m \in Nat
      BY <3>1, PaneAssumption
    <3>3. /\ 2*m <= N /\ (m > 0 => 2*m < N /\ pane.turns[2*m+1] = Question(First))
          /\ \A i \in 1..m :
               LET h == Earlier[Len(Earlier) - m + i] IN
               pane.turns[2*i-1] = Question(h) /\ pane.turns[2*i] = AnswerTurn(h, "final")
          /\ \A i \in 2*m+1..N : pane.turns[i].of \in Asks0
      BY <3>1 DEF PagesFirst, N
    <3>4. /\ 2*m <= N+2 /\ (m > 0 => 2*m < N+2 /\ 2*m+1 \in 1..N)
          /\ \A i \in 1..m : 2*i-1 \in 1..N /\ 2*i \in 1..N
          /\ \A i \in 2*m+1..N+2 : i = N+1 \/ i = N+2 \/ (i \in 2*m+1..N /\ i \in 1..N)
      BY <3>2, <3>3, <2>0
    <3>5. ASSUME NEW i \in 2*m+1..N+2 PROVE pane'.turns[i].of \in Asks0
      <4>1. CASE i = N+1
        <5>1. pane'.turns[i].of = k
          BY <4>1, <2>2
        <5> QED
          BY <5>1, <2>0 DEF Asks0
      <4>2. CASE i = N+2
        <5>1. pane'.turns[i].of = NoAsk
          BY <4>2, <2>2
        <5> QED
          BY <5>1 DEF Asks0
      <4>3. CASE i \in 2*m+1..N /\ i \in 1..N
        <5>1. pane.turns[i].of \in Asks0
          BY <4>3, <3>3
        <5> QED
          BY <5>1, <4>3, <1>4
      <4>4. i = N+1 \/ i = N+2 \/ (i \in 2*m+1..N /\ i \in 1..N)
        <5>1. m \in Nat /\ N \in Nat
          BY <3>2, <2>0
        <5> QED
          BY <5>1, <3>4
      <4> QED
        BY <4>1, <4>2, <4>3, <4>4
    <3>6. m > 0 \/ cursor' # 0 => 2*m < N+2 /\ pane'.turns[2*m+1] = Question(First)
      BY <3>3, <3>4, <1>1, <1>4
    <3>7. \A i \in 1..m :
             LET h == Earlier[Len(Earlier) - m + i] IN
             pane'.turns[2*i-1] = Question(h) /\ pane'.turns[2*i] = AnswerTurn(h, "final")
      BY <3>3, <3>4, <1>4
    <3>8. PagesFirst(m)'
      BY <3>4, <3>5, <3>6, <3>7, <1>1, <1>4 DEF PagesFirst
    <3> QED
      BY <3>8 DEF PagesShown
  <2> QED
    BY <2>8, <2>9, <2>11, <2>13, <2>14, <2>15, <2>16, <2>17 DEF TranscriptInv, TurnsWell
<1> QED
  BY <1>1, <1>5, <1>6, <1>7, <1>8 DEF PaneInv

LEMMA RecoveredStep ==
  ASSUME ControllerInv, ControllerInv', PaneInv, NEW c \in calls, Recovered(c)
  PROVE  PaneInv'
<1>0. /\ c.op = "recover" /\ c.op \in Loads /\ RecoverSettles(c) /\ c.epoch = epoch
      /\ pane' = RecoveredPane(OnChange(pane, view'), view')
      /\ UNCHANGED <<cursor, pages, refused, cut, epoch, request>>
      /\ calls' = calls \ {c} /\ view' \in View /\ c.run \in Asks
  BY DEF Recovered, RecoverSettles, Fresh, Valid, Settle, Loads, panerest, older, ControllerInv,
    IInv, TypeOK, CallsWell
<1>1. /\ ~refused /\ TranscriptInv /\ pane = Recovering /\ cursor = 0
      /\ \A p \in pages : ~p.mine
      /\ view.run = NoAsk /\ request = NoRequest
  BY <1>0, LoadingPane
<1>2. NoLoad'
  BY <1>0, LoadSettles DEF ControllerInv
<1>3. \/ view' = Interrupted
      \/ /\ view' = Shown(c.run, c.ans)
         /\ view'.phase # "idle" /\ view'.phase # "interrupted"
  BY <1>0 DEF RecoverSettles, Shown, PhaseOf
<1>4. ASSUME NEW ph \in {"canceled", "failed"}, view'.phase = ph
      PROVE  Ended(view.run, ph)'
  <2>1. /\ view'.run # NoAsk /\ PhaseOf(runs'[view'.run].status) = ph
        /\ view'.run \in Asks /\ runs' \in [Asks -> Run]
    BY <1>0, <1>4 DEF ControllerInv, IInv, VerifiedOutcome, TypeOK, Terminal, View, Asks0
  <2>2. PICK s \in Status : s = runs'[view'.run].status
    BY <2>1 DEF Run
  <2>3. s = ph
    BY <2>1, <2>2, EndedNow
  <2> QED
    BY <2>1, <2>2, <2>3 DEF Ended
<1>5. PICK o : o = OnChange(Recovering, view')
  OBVIOUS
<1>6. /\ Shape(o) /\ (o.busy <=> Busy(view')) /\ ~o.hasOlder /\ ~o.loading
      /\ o.turns = <<OutputTurn(view')>> /\ o.active = StillActive(view', 1)
      /\ o.pending = NotPending
  <2>1. /\ Shape(Recovering) /\ Recovering.active = 1 /\ Recovering.pending = NotPending
        /\ ~Recovering.hasOlder /\ ~Recovering.loading
        /\ Recovering.turns = <<AnswerTurn(NoAsk, "none")>>
    BY EmptyType DEF Recovering, Opening, Empty
  <2>2. AfterPending(Recovering, view') = Recovering
    BY <2>1 DEF AfterPending, Due, NotPending
  <2>3. PICK q : q = AfterOutput(Recovering, view')
    OBVIOUS
  <2>4. /\ Shape(o) /\ (o.busy <=> Busy(view')) /\ ~o.hasOlder /\ ~o.loading
        /\ o.turns = q.turns /\ o.active = q.active /\ o.pending = q.pending
    BY <2>1, <2>2, <2>3, <1>0, <1>5, OnChangeShape
  <2>5. /\ q.turns = [Recovering.turns EXCEPT ![Recovering.active] = OutputTurn(view')]
        /\ q.active = StillActive(view', Recovering.active) /\ q.pending = NotPending
    BY <2>1, <2>3, <1>0, ActiveOutput
  <2>6. PICK a : a = AnswerTurn(NoAsk, "none")
    OBVIOUS
  <2>7. PICK t : t = OutputTurn(view')
    OBVIOUS
  <2>8. q.turns = [<<a>> EXCEPT ![1] = t]
    BY <2>1, <2>5, <2>6, <2>7
  <2>9. [<<a>> EXCEPT ![1] = t] = <<t>>
    OBVIOUS
  <2> QED
    BY <2>1, <2>4, <2>5, <2>7, <2>8, <2>9
<1>7. CASE view'.phase \in {"interrupted", "failed"}
  <2>1. pane' = Empty
    BY <1>0, <1>7 DEF RecoveredPane
  <2>2. view'.run = NoAsk \/ Ended(view.run, "failed")'
    BY <1>1, <1>3, <1>4, <1>7, <1>0 DEF Interrupted, View
  <2>3. TranscriptInv'
    BY <2>1, <2>2, <1>0, <1>1, EmptyType, BlankPane
  <2>4. Shape(pane') /\ (pane'.busy <=> Busy(view'))
    BY <2>1, <1>7, EmptyType DEF Busy
  <2> QED
    BY <2>3, <2>4, <1>0, <1>1, <1>2 DEF PaneInv, PaneType, Shape, Locked, LoadPane, NoLoad,
      RefusedShown, PagesWell
<1>8. CASE view'.phase \notin {"interrupted", "failed"}
  <2>1. pane' = o
    BY <1>0, <1>1, <1>5, <1>8 DEF RecoveredPane
  <2>2. view' = Shown(c.run, c.ans) /\ view'.phase # "idle"
    BY <1>0, <1>3, <1>8 DEF Interrupted, View
  <2>3. /\ OutputTurn(view').role # "user" /\ OutputTurn(view').of \in Asks0
        /\ \/ StillActive(view', 1) = 1 /\ OutputTurn(view') = AnswerTurn(view'.run, view'.out)
           \/ /\ StillActive(view', 1) = 0 /\ OutputTurn(view') = Stopped
              /\ view'.phase = "canceled"
    BY <1>0 DEF StillActive, OutputTurn, AnswerTurn, Stopped, View, Asks0
  <2>4. PICK t : t = OutputTurn(view')
    OBVIOUS
  <2>5. TranscriptInv'
    BY <2>1, <2>2, <2>3, <2>4, <1>0, <1>1, <1>4, <1>6, SinglePane
  <2> QED
    BY <2>1, <2>5, <1>0, <1>1, <1>2, <1>6 DEF PaneInv, PaneType, Shape, Locked, LoadPane, NoLoad,
      RefusedShown, PagesWell
<1> QED
  BY <1>7, <1>8

\* What a restored session shows, from the rows that the owner answered.
LEMMA OpenedRows ==
  ASSUME ControllerInv, NEW c \in calls, c.op = "open", c.ans.is = "rows"
  PROVE  LET rows == c.ans.rows IN
         /\ rows \in Seq(Row) /\ rows # << >>
         /\ \A x \in 1..Len(rows) :
              /\ rows[x] \in Row /\ rows[x].run \in Asks /\ InSession(rows[x].run, c.run)
              /\ Truthful(rows[x].run, rows[x])
         /\ \A x, y \in 1..Len(rows) : x < y => LoggedBefore(rows[x].run, rows[y].run)
         /\ c.run = First => rows[1].run = First
<1> DEFINE rows == c.ans.rows
<1>1. /\ rows \in Seq(Row) /\ rows # << >> /\ c.run \in Asks /\ NoAsk \notin Asks
      /\ log \in Seq(Asks)
  BY ChatAssumption DEF ControllerInv, IInv, TypeOK, CallsWell, Call, Answer
<1>2. DOMAIN rows = 1..Len(rows) /\ DOMAIN log = 1..Len(log) /\ Len(rows) \in Nat /\ Len(rows) >= 1
  BY <1>1
<1>3. /\ \A x \in 1..Len(rows) : InSession(rows[x].run, c.run) /\ Truthful(rows[x].run, rows[x])
      /\ \A x, y \in 1..Len(rows) : x < y => LoggedBefore(rows[x].run, rows[y].run)
      /\ \E x \in 1..Len(rows) : rows[x].run = c.run
  <2>1. OrderedRows(rows)
    BY DEF ControllerInv, SessionInv, RowsWell
  <2>2. \A x, y \in 1..Len(rows) : x < y => LoggedBefore(rows[x].run, rows[y].run)
    BY <2>1, <1>2 DEF OrderedRows
  <2>3. \A x \in 1..Len(rows) : Truthful(rows[x].run, rows[x])
    BY DEF ControllerInv, IInv, CallsTrue
  <2>4. /\ \A x \in 1..Len(rows) : InSession(rows[x].run, c.run)
        /\ \E x \in 1..Len(rows) : rows[x].run = c.run
    BY <1>2 DEF ControllerInv, SessionInv, RowsWell
  <2> QED
    BY <2>2, <2>3, <2>4
<1>4. \A x \in 1..Len(rows) : rows[x] \in Row /\ rows[x].run \in Asks
  <2>1. \A x \in 1..Len(rows) : rows[x] \in Row
    BY <1>1, ElementOfSeq
  <2> QED
    BY <2>1 DEF Row
<1>5. c.run = First => rows[1].run = First
  <2> SUFFICES ASSUME c.run = First, rows[1].run # First
               PROVE  FALSE
    OBVIOUS
  <2>1. log # << >> /\ log[1] = First
    BY <1>1 DEF ControllerInv, FirstLogged
  <2>2. PICK x \in 1..Len(rows) : rows[x].run = First
    BY <1>3
  <2>3. 1 \in 1..Len(rows) /\ x # 1
    BY <1>2, <2>2
  <2>4. 1 < x
    BY <2>2, <2>3, <1>2
  <2>5. LoggedBefore(rows[1].run, First)
    BY <2>2, <2>3, <2>4, <1>3
  <2>6. PICK i, j \in 1..Len(log) : i < j /\ log[j] = First
    BY <2>5, <1>2 DEF LoggedBefore
  <2>7. 1 \in 1..Len(log)
    BY <2>1, <1>1
  <2>8. j = 1
    BY <2>1, <2>6, <2>7 DEF ControllerInv, TurnsInv, LogOnce
  <2> QED
    BY <2>6, <2>8
<1> QED
  BY <1>1, <1>3, <1>4, <1>5

LEMMA OpenedTurns ==
  ASSUME ControllerInv, NEW c \in calls, c.op = "open", c.ans.is = "rows"
  PROVE  LET T == Restored(c.ans.rows) IN
         /\ T \in Seq(Turn) /\ Len(T) >= 1 /\ \A i \in 1..Len(T) : T[i].of \in Asks
         /\ \A i \in 1..Len(T) :
              /\ T[i].role # "status" /\ T[i].text \notin {"none", "partial"}
              /\ InSession(T[i].of, c.run)
              /\ T[i].role = "assistant" =>
                   /\ i > 1 /\ T[i-1] = Question(T[i].of)
                   /\ T[i].text = "final" =>
                        runs[T[i].of].status = "completed" /\ runs[T[i].of].out = "final"
         /\ \A i, j \in 1..Len(T) : i < j /\ T[i].role = "user" /\ T[j].role = "user" =>
              LoggedBefore(T[i].of, T[j].of)
<1>0. PICK rows : rows = c.ans.rows
  OBVIOUS
<1>5. PICK T : T = Restored(rows)
  OBVIOUS
<1>1. /\ rows \in Seq(Row) /\ rows # << >>
      /\ \A x \in 1..Len(rows) :
           /\ rows[x] \in Row /\ rows[x].run \in Asks /\ InSession(rows[x].run, c.run)
           /\ Truthful(rows[x].run, rows[x])
      /\ \A x, y \in 1..Len(rows) : x < y => LoggedBefore(rows[x].run, rows[y].run)
  BY <1>0, OpenedRows
<1>2. /\ T \in Seq(Turn) /\ Len(T) >= 1
      /\ \A i \in 1..Len(T) : \E x \in 1..Len(rows) :
           \/ T[i] = Question(rows[x].run)
           \/ /\ HasAnswer(rows[x]) /\ T[i] = RowAnswer(rows[x])
              /\ i > 1 /\ T[i-1] = Question(rows[x].run)
      /\ \A i, j \in 1..Len(T) : i < j /\ T[i].role = "user" /\ T[j].role = "user" =>
           \E x, y \in 1..Len(rows) : /\ x < y /\ T[i] = Question(rows[x].run)
                                      /\ T[j] = Question(rows[y].run)
  <2>1. rows \in Seq(Row) /\ rows # << >>
    BY <1>1
  <2>2. T \in Seq(Turn) /\ Len(T) >= 1
    BY <2>1, <1>5, RestoredTurns
  <2>3. \A i \in 1..Len(T) : \E x \in 1..Len(rows) :
           \/ T[i] = Question(rows[x].run)
           \/ /\ HasAnswer(rows[x]) /\ T[i] = RowAnswer(rows[x])
              /\ i > 1 /\ T[i-1] = Question(rows[x].run)
    BY <2>1, <1>5, RestoredTurns, Zenon
  <2>4. \A i, j \in 1..Len(T) : i < j /\ T[i].role = "user" /\ T[j].role = "user" =>
           \E x, y \in 1..Len(rows) : /\ x < y /\ T[i] = Question(rows[x].run)
                                      /\ T[j] = Question(rows[y].run)
    <3>1. SUFFICES ASSUME NEW i \in 1..Len(T), NEW j \in 1..Len(T),
                          i < j, T[i].role = "user", T[j].role = "user"
                   PROVE  \E x, y \in 1..Len(rows) : /\ x < y /\ T[i] = Question(rows[x].run)
                                                    /\ T[j] = Question(rows[y].run)
      OBVIOUS
    <3> QED
      BY <2>1, <1>5, <3>1, RestoredTurns
  <2> QED
    BY <2>2, <2>3, <2>4
<1>3. ASSUME NEW i \in 1..Len(T)
      PROVE  /\ T[i].of \in Asks /\ T[i].role # "status" /\ T[i].text \notin {"none", "partial"}
             /\ InSession(T[i].of, c.run)
             /\ T[i].role = "assistant" =>
                  /\ i > 1 /\ T[i-1] = Question(T[i].of)
                  /\ T[i].text = "final" =>
                       runs[T[i].of].status = "completed" /\ runs[T[i].of].out = "final"
  <2>1. PICK x \in 1..Len(rows) :
           \/ T[i] = Question(rows[x].run)
           \/ /\ HasAnswer(rows[x]) /\ T[i] = RowAnswer(rows[x])
              /\ i > 1 /\ T[i-1] = Question(rows[x].run)
    BY <1>2
  <2>2. PICK r : r = rows[x]
    OBVIOUS
  <2>3. r.run \in Asks /\ InSession(r.run, c.run) /\ Truthful(r.run, r)
    BY <1>1, <2>2
  <2>4. CASE T[i] = Question(r.run)
    BY <2>3, <2>4 DEF Question
  <2>5. CASE HasAnswer(r) /\ T[i] = RowAnswer(r) /\ i > 1 /\ T[i-1] = Question(r.run)
    <3>1. T[i].role = "assistant" /\ T[i].of = r.run
          /\ T[i].text = IF RowFits(r) THEN "final" ELSE "clipped"
      BY <2>5 DEF RowAnswer, AnswerTurn
    <3>2. T[i].text = "final" => r.status = "completed" /\ r.out = "final"
      BY <2>5, <3>1 DEF RowFits, HasAnswer
    <3>3. T[i].text = "final" => runs[r.run].status = "completed" /\ runs[r.run].out = "final"
      BY <3>2, <2>3 DEF Truthful, FinalStatus
    <3> QED
      BY <2>3, <2>5, <3>1, <3>3
  <2> QED
    BY <2>1, <2>2, <2>4, <2>5
<1>4. ASSUME NEW i \in 1..Len(T), NEW j \in 1..Len(T), i < j, T[i].role = "user", T[j].role = "user"
      PROVE  LoggedBefore(T[i].of, T[j].of)
  <2>1. PICK x, y \in 1..Len(rows) : /\ x < y /\ T[i] = Question(rows[x].run)
                                     /\ T[j] = Question(rows[y].run)
    BY <1>2, <1>4
  <2> QED
    BY <2>1, <1>1 DEF Question
<1> QED
  BY <1>0, <1>2, <1>3, <1>4, <1>5

\* The end of a restored session: its newest run, and the output of it that is
\* still to be verified.
LEMMA OpenedPending ==
  ASSUME NEW rows \in Seq(Row), rows # << >>, rows[Len(rows)] \in Row
  PROVE  LET T == Restored(rows)  n == Len(T)  newest == rows[Len(rows)]
             pending == RestoredPending(rows) IN
         /\ pending \in [run : Asks0, cell : Nat] /\ pending.cell <= n
         /\ T[1] = Question(rows[1].run)
         /\ pending = NotPending =>
              \/ T[n] = Question(newest.run)
              \/ Whole(newest) /\ T[n] = AnswerTurn(newest.run, "final")
         /\ pending # NotPending =>
              /\ ~Whole(newest) /\ pending.run = newest.run
              /\ \/ pending.cell = 0 /\ T[n] = Question(newest.run)
                 \/ /\ pending.cell = n /\ n > 1 /\ T[n-1] = Question(newest.run)
                    /\ T[n] = AnswerTurn(newest.run, "clipped")
<1>0. PICK T, newest, pending : T = Restored(rows) /\ newest = rows[Len(rows)]
                                /\ pending = RestoredPending(rows)
  OBVIOUS
<1>1. PICK n : n = Len(T)
  OBVIOUS
<1>2. /\ n \in Nat /\ n >= 1 /\ T[1] = Question(rows[1].run)
      /\ IF HasAnswer(newest)
         THEN n > 1 /\ T[n] = RowAnswer(newest) /\ T[n-1] = Question(newest.run)
         ELSE T[n] = Question(newest.run)
  BY <1>0, <1>1, RestoredTurns
<1>3. newest \in Row /\ newest.run \in Asks
  BY <1>0 DEF Row
<1>4. pending = IF newest.status # "completed" \/ Whole(newest) THEN NotPending
                ELSE [run |-> newest.run, cell |-> IF newest.out = "none" THEN 0 ELSE n]
  BY <1>0, <1>1 DEF RestoredPending
<1>5. /\ HasAnswer(newest) <=> newest.status = "completed" /\ newest.out # "none"
      /\ Whole(newest) => HasAnswer(newest)
      /\ HasAnswer(newest) => (Whole(newest) <=> RowFits(newest))
  BY DEF HasAnswer, Whole, RowFits
<1>6. RowAnswer(newest) = AnswerTurn(newest.run, IF RowFits(newest) THEN "final" ELSE "clipped")
  BY DEF RowAnswer
<1>7. CASE newest.status # "completed" \/ Whole(newest)
  <2>1. pending = NotPending
    BY <1>4, <1>7
  <2>2. NotPending \in [run : Asks0, cell : Nat] /\ NotPending.cell <= n
    BY <1>2 DEF NotPending, Asks0
  <2>3. \/ T[n] = Question(newest.run)
        \/ Whole(newest) /\ T[n] = AnswerTurn(newest.run, "final")
    BY <1>2, <1>5, <1>6, <1>7
  <2> QED
    BY <2>1, <2>2, <2>3, <1>0, <1>1, <1>2
<1>8. CASE newest.status = "completed" /\ ~Whole(newest)
  <2>1. pending = [run |-> newest.run, cell |-> IF newest.out = "none" THEN 0 ELSE n]
    BY <1>4, <1>8
  <2>2. /\ pending \in [run : Asks0, cell : Nat] /\ pending.cell <= n
        /\ pending.run = newest.run /\ pending # NotPending
        /\ pending.cell = IF newest.out = "none" THEN 0 ELSE n
    BY <2>1, <1>2, <1>3, ChatAssumption DEF NotPending, Asks0
  <2>3. \/ pending.cell = 0 /\ T[n] = Question(newest.run)
        \/ /\ pending.cell = n /\ n > 1 /\ T[n-1] = Question(newest.run)
           /\ T[n] = AnswerTurn(newest.run, "clipped")
    BY <2>2, <1>2, <1>5, <1>6, <1>8
  <2> QED
    BY <2>2, <2>3, <1>0, <1>1, <1>2, <1>8
<1> QED
  BY <1>7, <1>8

LEMMA OpenedStep ==
  ASSUME ControllerInv, ControllerInv', PaneInv, NEW c \in calls, Opened(c)
  PROVE  PaneInv'
<1>0. /\ c.op = "open" /\ c.op \in Loads /\ OpenSettles(c) /\ c.epoch = epoch
      /\ pane' = RestoredPane(c)
      /\ cursor' = IF HasEarlier(c) THEN Len(Earlier) ELSE cursor
      /\ UNCHANGED <<pages, refused, cut, epoch, request, runs, log>>
      /\ calls' = calls \ {c} /\ view \in View /\ runs \in [Asks -> Run] /\ NoAsk \notin Asks
      /\ c.run \in Asks /\ Len(Earlier) \in Nat
  <2>1. /\ c.op = "open" /\ c.op \in Loads /\ OpenSettles(c) /\ c.epoch = epoch
        /\ pane' = RestoredPane(c)
        /\ cursor' = IF HasEarlier(c) THEN Len(Earlier) ELSE cursor
        /\ UNCHANGED <<pages, refused, cut>>
    BY DEF Opened, OpenSettles, Fresh, Valid, Loads
  <2>2. UNCHANGED <<epoch, request, runs, log>> /\ calls' = calls \ {c}
    BY <2>1 DEF OpenSettles, Settle, owner, epochs
  <2>3. view \in View /\ runs \in [Asks -> Run] /\ NoAsk \notin Asks /\ c.run \in Asks
    BY <2>1, ChatAssumption DEF ControllerInv, IInv, TypeOK, CallsWell
  <2>4. Len(Earlier) \in Nat
    BY PaneAssumption
  <2> QED
    BY <2>1, <2>2, <2>3, <2>4
<1>1. /\ ~refused /\ TranscriptInv /\ pane = Opening /\ cursor = 0
      /\ \A p \in pages : ~p.mine
      /\ view.run = NoAsk /\ request = NoRequest
  BY <1>0, LoadingPane
<1>2. NoLoad'
  BY <1>0, LoadSettles DEF ControllerInv
<1>3. ASSUME Shape(pane'), cursor' \in 0..Len(Earlier), pane'.busy <=> Busy(view'), TranscriptInv'
      PROVE  PaneInv'
  BY <1>0, <1>1, <1>2, <1>3 DEF PaneInv, PaneType, Locked, LoadPane, NoLoad, RefusedShown, PagesWell
<1>4. CASE c.ans = Lost
  <2>1. c.ans.is = "lost"
    BY <1>4 DEF Lost, Pending
  <2>2. pane' = Empty /\ cursor' = 0
    BY <2>1, <1>0, <1>1 DEF RestoredPane, HasEarlier
  <2>3. view'.run = NoAsk /\ view'.phase = "interrupted"
    BY <2>1, <1>0, <1>1 DEF OpenSettles, Interrupted, View
  <2>4. TranscriptInv'
    BY <2>2, <2>3, <1>0, <1>1, EmptyType, BlankPane
  <2> QED
    BY <2>2, <2>3, <2>4, <1>0, <1>3, EmptyType DEF Busy
<1>5. CASE c.ans.is = "rows"
  <2>0. PICK rows : rows = c.ans.rows
    OBVIOUS
  <2>1. /\ rows \in Seq(Row) /\ rows # << >>
        /\ \A x \in 1..Len(rows) :
             /\ rows[x] \in Row /\ rows[x].run \in Asks /\ InSession(rows[x].run, c.run)
        /\ c.run = First => rows[1].run = First
    BY <2>0, <1>0, <1>5, OpenedRows
  <2>2. PICK newest : newest = rows[Len(rows)]
    OBVIOUS
  <2>3. newest \in Row /\ newest.run \in Asks /\ InSession(newest.run, c.run)
    <3>1. Len(rows) \in 1..Len(rows)
      BY <2>1
    <3> QED
      BY <3>1, <2>1, <2>2
  <2>4. PICK T, n, pending : T = Restored(rows) /\ n = Len(T) /\ pending = RestoredPending(rows)
    OBVIOUS
  <2>5. /\ T \in Seq(Turn) /\ n >= 1 /\ n \in Nat
        /\ \A i \in 1..n :
             /\ T[i].role # "status" /\ T[i].text \notin {"none", "partial"}
             /\ T[i].of \in Asks /\ InSession(T[i].of, c.run)
             /\ T[i].role = "assistant" =>
                  /\ i > 1 /\ T[i-1] = Question(T[i].of)
                  /\ T[i].text = "final" =>
                       runs[T[i].of].status = "completed" /\ runs[T[i].of].out = "final"
        /\ \A i, j \in 1..n : i < j /\ T[i].role = "user" /\ T[j].role = "user" =>
             LoggedBefore(T[i].of, T[j].of)
    BY <2>0, <2>4, <1>0, <1>5, OpenedTurns
  <2>6. /\ pending \in [run : Asks0, cell : Nat] /\ pending.cell <= n
        /\ T[1] = Question(rows[1].run)
        /\ pending = NotPending =>
             \/ T[n] = Question(newest.run)
             \/ Whole(newest) /\ T[n] = AnswerTurn(newest.run, "final")
        /\ pending # NotPending =>
             /\ ~Whole(newest) /\ pending.run = newest.run
             /\ \/ pending.cell = 0 /\ T[n] = Question(newest.run)
                \/ /\ pending.cell = n /\ n > 1 /\ T[n-1] = Question(newest.run)
                   /\ T[n] = AnswerTurn(newest.run, "clipped")
    BY <2>1, <2>2, <2>3, <2>4, OpenedPending
  <2>7. /\ view'.run = newest.run
        /\ view'.phase = IF Whole(newest) THEN "completed" ELSE "recovery-required"
    <3>1. c.ans # Lost
      BY <1>5 DEF Lost, Pending
    <3> QED
      BY <3>1, <2>0, <2>2, <1>0 DEF OpenSettles
  <2>8. PICK offers : offers = HasEarlier(c)
    OBVIOUS
  <2>9. /\ offers \in BOOLEAN
        /\ offers => c.run = First /\ Len(Earlier) # 0
    <3>1. Earlier # << >> => Len(Earlier) # 0
      BY PaneAssumption, EmptySeq
    <3> QED
      BY <3>1, <2>8 DEF HasEarlier
  <2>10. /\ pane'.turns = T /\ pane'.active = 0 /\ ~pane'.busy /\ pane'.pending = pending
         /\ pane'.hasOlder = offers /\ ~pane'.loading /\ Shape(pane')
    <3>1. pane' = [Empty EXCEPT !.turns = T, !.pending = pending, !.hasOlder = offers]
      BY <2>0, <2>4, <2>8, <1>0, <1>5 DEF RestoredPane
    <3>2. Empty \in Pane /\ Empty.active = 0 /\ ~Empty.busy /\ ~Empty.loading
      BY EmptyType DEF Shape
    <3>3. /\ pane' \in Pane /\ pane'.turns = T /\ pane'.pending = pending
          /\ pane'.hasOlder = offers /\ pane'.active = Empty.active
          /\ pane'.busy = Empty.busy /\ pane'.loading = Empty.loading
      BY <3>1, <3>2, <2>5, <2>6, <2>9 DEF Pane
    <3> QED
      BY <3>2, <3>3, <2>4, <2>5, <2>6 DEF Shape
  <2>11. cursor' = IF offers THEN Len(Earlier) ELSE 0
    BY <2>8, <1>0, <1>1
  <2>12. OlderWell'
    <3>1. T # << >>
      BY <2>4, <2>5
    <3>2. cursor' # 0 <=> offers
      BY <2>9, <2>11
    <3> QED
      BY <3>1, <3>2, <2>10 DEF OlderWell
  <2>13. ActiveWell' /\ PendingWell' /\ IdlePane' /\ EmptyWell' /\ SentShown' /\ NewestShown'
    <3>1. /\ request' = NoRequest /\ view'.phase # "idle" /\ view'.run \in Asks
          /\ view'.run # NoAsk /\ pane'.turns # << >>
          /\ pending # NotPending => view'.phase # "completed"
      BY <2>3, <2>4, <2>5, <2>6, <2>7, <2>10, <1>0, <1>1
    <3>2. PendingWell'
      <4> SUFFICES ASSUME pending # NotPending
                   PROVE  /\ view'.run = pending.run
                          /\ \/ pending.cell = 0 /\ n > 0 /\ T[n] = Question(view'.run)
                             \/ /\ pending.cell = n /\ n > 1 /\ T[n-1] = Question(view'.run)
                                /\ T[n] = AnswerTurn(view'.run, "clipped")
        BY <3>1, <2>4, <2>10 DEF PendingWell
      <4> QED
        BY <2>5, <2>6, <2>7
    <3>3. pending = NotPending => T[n] \in {AnswerTurn(view'.run, "final"), Question(view'.run)}
      BY <2>6, <2>7
    <3> QED
      BY <3>1, <3>2, <3>3, <2>4, <2>10 DEF ActiveWell, IdlePane, EmptyWell, SentShown,
        NewestShown, Newest
  <2>14. Len(pane'.turns) = n /\ \A i \in Questions' : i \in 1..n /\ T[i].role = "user"
    BY <2>4, <2>10 DEF Questions
  <2>15. AnswersKnown' /\ AnswersFollow'
    <3>1. AnswersKnown'
      BY <2>5, <2>10, <2>14, <1>0 DEF AnswersKnown, InSession
    <3>2. AnswersFollow'
      BY <2>5, <2>10, <2>14, <1>0 DEF AnswersFollow, IsAnswer
    <3> QED
      BY <3>1, <3>2
  <2>16. QuestionsKnown' /\ QuestionsLogged'
    <3>1. CurrentSession' = c.run
      <4>1. CurrentSession' = runs'[view'.run].session
        BY <2>3, <2>7, <1>0, <1>1 DEF CurrentSession, SessionOf
      <4> QED
        BY <4>1, <2>3, <2>7, <1>0 DEF InSession
    <3>2. QuestionsKnown'
      BY <3>1, <2>5, <2>10, <2>14, <1>0 DEF QuestionsKnown, InSession
    <3>3. QuestionsLogged'
      BY <2>5, <2>10, <2>14, <1>0 DEF QuestionsLogged, Precedes, LoggedBefore, InSession
    <3> QED
      BY <3>2, <3>3
  <2>17. PagesShown'
    <3>1. offers => T[1] = Question(First)
      BY <2>1, <2>6, <2>9
    <3>2. PagesFirst(0)'
      <4>1. \A i \in 1..n : pane'.turns[i].of \in Asks0
        BY <2>5, <2>10 DEF Asks0
      <4>2. cursor' # 0 => offers /\ cursor' = Len(Earlier)
        BY <2>11
      <4>3. 2 * 0 + 1 = 1 /\ 2 * 0 = 0 /\ Len(Earlier) - 0 = Len(Earlier) /\ 0 < n
        BY <2>5, <1>0
      <4> QED
        BY <4>1, <4>2, <4>3, <3>1, <2>10, <2>14 DEF PagesFirst
    <3> QED
      BY <3>2, <1>0 DEF PagesShown
  <2> QED
    <3>1. TranscriptInv'
      BY <2>12, <2>13, <2>15, <2>16, <2>17 DEF TranscriptInv, TurnsWell
    <3>2. pane'.busy <=> Busy(view')
      BY <2>7, <2>10 DEF Busy
    <3>3. cursor' \in 0..Len(Earlier)
      BY <2>11, <1>0
    <3> QED
      BY <3>1, <3>2, <3>3, <2>10, <1>3
<1>6. c.ans = Lost \/ c.ans.is = "rows"
  BY <1>0 DEF OpenSettles
<1> QED
  BY <1>4, <1>5, <1>6

\* Reading a page leaves the controller as it is: what the pane shows stays.
LEMMA SameTurns ==
  ASSUME ControllerInv, ControllerInv', PaneType, TranscriptInv, UNCHANGED <<vars, cursor, cut>>,
         pane'.turns = pane.turns, pane'.active = pane.active, pane'.pending = pane.pending
  PROVE  TurnsWell' /\ PagesShown'
<1>1. UNCHANGED <<view, request>> /\ TurnsWell /\ PagesShown
  BY DEF vars, TranscriptInv
<1>2. SameView
  BY <1>1 DEF SameView
<1>3. PutsNone
  BY <1>1 DEF PutsNone, TurnsWell, PendingWell
<1>4. TurnsWell'
  BY <1>1, <1>2, <1>3, NoneStep
<1>5. PagesShown'
  BY <1>1 DEF PagesShown, PagesFirst
<1> QED
  BY <1>4, <1>5

LEMMA LoadOlderStep ==
  ASSUME ControllerInv, ControllerInv', PaneInv, PaneLoadOlder
  PROVE  PaneInv'
<1> DEFINE page == [page |-> cursor, mine |-> TRUE, epoch |-> epoch,
                    selection |-> selection, ans |-> "pending"]
<1>0. /\ pane.hasOlder /\ ~pane.loading /\ cursor # 0
      /\ pane' = [pane EXCEPT !.loading = TRUE] /\ pages' = pages \cup {page}
      /\ UNCHANGED <<vars, cursor, refused, cut>>
  BY DEF PaneLoadOlder
<1>1. /\ UNCHANGED <<view, request, epoch, selection, calls>>
      /\ epoch \in Nat /\ selection \in Nat /\ pane \in Pane /\ cursor \in 1..Len(Earlier)
  <2>1. cursor \in 0..Len(Earlier) /\ Len(Earlier) \in Nat
    BY PaneAssumption DEF PaneInv, PaneType
  <2>2. cursor \in 1..Len(Earlier)
    BY <2>1, <1>0
  <2> QED
    BY <2>2, <1>0 DEF vars, ControllerInv, IInv, TypeOK, PaneInv, PaneType, Shape
<1>2. /\ Shape(pane') /\ pane'.loading = TRUE /\ pane'.busy = pane.busy
      /\ pane'.turns = pane.turns /\ pane'.active = pane.active /\ pane'.pending = pane.pending
      /\ pane'.hasOlder = pane.hasOlder
  BY <1>0, <1>1 DEF PaneInv, PaneType, Shape, Pane
<1>3. page \in Page
  BY <1>1 DEF Page
<1>4. PaneType' /\ Locked' /\ RefusedShown'
  BY <1>0, <1>1, <1>2, <1>3 DEF PaneInv, PaneType, Locked, Busy, RefusedShown
<1>5. LoadPane'
  <2>1. \A c \in calls : c.epoch = epoch => c.op \notin Loads
    BY <1>0, LoadingPane
  <2> QED
    BY <2>1, <1>1 DEF LoadPane
<1>6. PagesWell'
  <2>1. page.mine /\ page.epoch = epoch /\ page.page = cursor /\ page.selection = selection
        /\ page.epoch <= epoch
    BY <1>1
  <2>2. ~refused => \A p \in pages : ~p.mine
    BY <1>0 DEF PaneInv, PagesWell
  <2> HIDE DEF page
  <2> QED
    BY <2>1, <2>2, <1>0, <1>1, <1>2 DEF PaneInv, PagesWell
<1>7. TranscriptInv => TranscriptInv'
  <2>1. TranscriptInv => TurnsWell' /\ PagesShown'
    BY <1>0, <1>2, SameTurns DEF PaneInv
  <2> QED
    BY <2>1, <1>0, <1>2 DEF TranscriptInv, OlderWell
<1> QED
  BY <1>0, <1>4, <1>5, <1>6, <1>7 DEF PaneInv

LEMMA PageAnsweredStep ==
  ASSUME ControllerInv, ControllerInv', PaneInv, NEW p \in pages, PageAnswered(p)
  PROVE  PaneInv'
<1>1. /\ UNCHANGED <<vars, pane, cursor, refused, cut, view, epoch, selection, calls>>
      /\ \E a \in {"page", "failed"} : pages' = (pages \ {p}) \cup {[p EXCEPT !.ans = a]}
  BY DEF PageAnswered, vars
<1>2. PICK a \in {"page", "failed"} : pages' = (pages \ {p}) \cup {[p EXCEPT !.ans = a]}
  BY <1>1
<1>3. PICK q : q = [p EXCEPT !.ans = a]
  OBVIOUS
<1>4. /\ p \in Page /\ q \in Page /\ q.page = p.page /\ q.mine = p.mine /\ q.epoch = p.epoch
      /\ q.selection = p.selection /\ pages' = (pages \ {p}) \cup {q}
  <2>1. p \in Page
    BY DEF PaneInv, PaneType
  <2> QED
    BY <2>1, <1>2, <1>3 DEF Page
<1>5. PaneType' /\ Locked' /\ RefusedShown' /\ LoadPane'
  BY <1>1, <1>4 DEF PaneInv, PaneType, Shape, Locked, Busy, RefusedShown, LoadPane
<1>6. PagesWell'
  BY <1>1, <1>4 DEF PaneInv, PagesWell
<1>7. TranscriptInv => TranscriptInv'
  <2>1. TranscriptInv => TurnsWell' /\ PagesShown'
    BY <1>1, SameTurns DEF PaneInv
  <2> QED
    BY <2>1, <1>1 DEF TranscriptInv, OlderWell
<1> QED
  BY <1>1, <1>5, <1>6, <1>7 DEF PaneInv

\* A page goes before the turns.
Prepends(h) ==
  /\ Len(pane'.turns) = Len(pane.turns) + 2
  /\ pane'.turns[1] = Question(h) /\ pane'.turns[2] = AnswerTurn(h, "final")
  /\ \A i \in 1..Len(pane.turns) : pane'.turns[i+2] = pane.turns[i]
  /\ pane'.active = pane.active /\ pane'.pending.run = pane.pending.run
  /\ pane'.pending.cell = IF pane.pending.cell = 0 THEN 0 ELSE pane.pending.cell + 2

LEMMA PageShape ==
  ASSUME Shape(pane), NEW h \in Earliers, NEW more \in BOOLEAN,
         pane' = [WithPage(h) EXCEPT !.hasOlder = more, !.loading = FALSE]
  PROVE  /\ Shape(pane') /\ Prepends(h) /\ pane'.busy = pane.busy
         /\ pane'.hasOlder = more /\ ~pane'.loading
<1> DEFINE N == Len(pane.turns)
           moved == IF pane.pending.cell = 0 THEN 0 ELSE pane.pending.cell + 2
<1>0. /\ pane.turns \in Seq(Turn) /\ N \in Nat /\ pane \in Pane
      /\ pane.pending \in [run : Asks0, cell : Nat] /\ pane.pending.cell <= N
  BY DEF Shape, Pane
<1>1. PICK a \in Turn : a = Question(h)
  BY TurnTypes DEF Text
<1>2. PICK b \in Turn : b = AnswerTurn(h, "final")
  BY TurnTypes DEF Text
<1>3. PICK s : s = <<a, b>> \o pane.turns
  OBVIOUS
<1>4. /\ s \in Seq(Turn) /\ Len(s) = N + 2 /\ \A i \in 1..N : s[i+2] = pane.turns[i]
      /\ s[1] = a /\ s[2] = b
  BY <1>0, <1>3
<1>5. PICK c \in Nat : c = moved /\ c <= N + 2
  <2>1. moved \in Nat /\ moved <= N + 2
    BY <1>0
  <2> QED
    BY <2>1
<1>6. PICK r \in [run : Asks0, cell : Nat] : r = [pane.pending EXCEPT !.cell = c]
  BY <1>0
<1>7. r.run = pane.pending.run /\ r.cell = c
  BY <1>0, <1>6
<1>8. pane' = [pane EXCEPT !.turns = s, !.pending = r, !.hasOlder = more, !.loading = FALSE]
  BY <1>0, <1>1, <1>2, <1>3, <1>5, <1>6 DEF WithPage, Pane
<1>9. /\ pane' \in Pane /\ pane'.turns = s /\ pane'.pending = r /\ pane'.hasOlder = more
      /\ pane'.loading = FALSE /\ pane'.busy = pane.busy /\ pane'.active = pane.active
  BY <1>0, <1>4, <1>8 DEF Pane
<1>10. Shape(pane')
  <2>1. pane.active <= N + 2
    BY <1>0 DEF Shape, Pane
  <2> QED
    BY <2>1, <1>0, <1>4, <1>5, <1>7, <1>9 DEF Shape
<1> QED
  BY <1>1, <1>2, <1>4, <1>5, <1>7, <1>9, <1>10 DEF Prepends

LEMMA PrependStep ==
  ASSUME ControllerInv, PaneType, TranscriptInv, UNCHANGED vars, pane.active = 0,
         cursor # 0, cursor' = cursor - 1, Prepends(Earlier[cursor]),
         pane'.hasOlder <=> cursor > 1, ~pane'.loading, Shape(pane')
  PROVE  TranscriptInv'
<1> DEFINE N == Len(pane.turns)
           E == Len(Earlier)
           h == Earlier[cursor]
<1>0. /\ pane.turns \in Seq(Turn) /\ N \in Nat /\ E \in Nat /\ cursor \in 1..E
      /\ pane.pending \in [run : Asks0, cell : Nat] /\ NoAsk \notin Asks
      /\ UNCHANGED <<runs, log, view, request>>
      /\ TurnsWell /\ PagesShown /\ OlderWell
  <2>1. cursor \in 0..E /\ E \in Nat
    BY PaneAssumption DEF PaneType
  <2>2. cursor \in 1..E
    BY <2>1
  <2> QED
    BY <2>1, <2>2, ChatAssumption DEF PaneType, Shape, Pane, vars, TranscriptInv
<1>1. h \notin Asks /\ h # NoAsk
  BY <1>0, PaneAssumption
<1>2. PICK m \in 0..E : PagesFirst(m)
  BY <1>0 DEF PagesShown
<1>3. /\ m \in Nat /\ cursor = E - m /\ 2*m < N /\ pane.turns[2*m+1] = Question(First)
      /\ \A i \in 1..m : /\ pane.turns[2*i-1] = Question(Earlier[E - m + i])
                         /\ pane.turns[2*i] = AnswerTurn(Earlier[E - m + i], "final")
      /\ \A i \in 2*m+1..N : pane.turns[i].of \in Asks0
  <2>1. m \in Nat
    BY <1>0
  <2>2. cursor # 0
    BY <1>0
  <2> QED
    BY <1>2, <2>1, <2>2 DEF PagesFirst
<1>4. N >= 1 /\ pane.turns[1].role = "user"
  <2>1. N >= 1
    BY <1>0, <1>3
  <2>2. CASE m = 0
    BY <2>2, <1>3 DEF Question
  <2>3. CASE m # 0
    <3>1. 1 \in 1..m /\ 2*1-1 = 1
      BY <2>3, <1>3
    <3>2. pane.turns[1] = Question(Earlier[E - m + 1])
      BY <3>1, <1>3
    <3> QED
      BY <2>1, <3>2 DEF Question
  <2> QED
    BY <2>1, <2>2, <2>3
<1>5. /\ Len(pane'.turns) = N + 2
      /\ pane'.turns[1].role = "user" /\ pane'.turns[1].of = h /\ pane'.turns[1].text = "final"
      /\ pane'.turns[1] = Question(h) /\ pane'.turns[2] = AnswerTurn(h, "final")
      /\ pane'.turns[2].role = "assistant" /\ pane'.turns[2].of = h
      /\ pane'.turns[2].text = "final"
      /\ \A i \in 1..N : pane'.turns[i+2] = pane.turns[i]
      /\ pane'.active = 0 /\ pane'.pending.run = pane.pending.run
      /\ pane'.pending.cell = IF pane.pending.cell = 0 THEN 0 ELSE pane.pending.cell + 2
  BY DEF Prepends, Question, AnswerTurn
<1> HIDE DEF N, E, h
<1>6. \A i \in 1..N+2 : \/ i = 1 \/ i = 2
                        \/ /\ i - 2 \in 1..N /\ i > 2 /\ (i - 2) + 2 = i
                           /\ pane'.turns[i] = pane.turns[i-2]
  <2>1. \A i \in 1..N+2 : i = 1 \/ i = 2 \/ (i - 2 \in 1..N /\ i > 2 /\ (i - 2) + 2 = i)
    BY <1>0
  <2> QED
    BY <2>1, <1>5
<1>7. \A i \in Questions' : i = 1 \/ (i - 2 \in Questions /\ i - 2 \in 1..N /\ i > 2
                                      /\ pane'.turns[i] = pane.turns[i-2])
  BY <1>5, <1>6 DEF Questions, N
<1>8. pane'.turns # << >> /\ pane'.turns[N+2] = pane.turns[N]
      /\ (N > 1 => pane'.turns[N+1] = pane.turns[N-1])
  <2>1. N \in 1..N /\ (N > 1 => N-1 \in 1..N /\ (N-1)+2 = N+1)
    BY <1>0, <1>4
  <2> QED
    BY <2>1, <1>0, <1>5
<1>9. ActiveWell' /\ IdlePane' /\ EmptyWell' /\ SentShown'
  BY <1>0, <1>4, <1>5, <1>8 DEF TurnsWell, ActiveWell, IdlePane, EmptyWell, SentShown, N, Ended
<1>10. pane'.pending = NotPending <=> pane.pending = NotPending
  <2>1. pane'.pending \in [run : Asks0, cell : Nat]
    BY DEF Shape, Pane
  <2>2. pane.pending # NotPending => pane.pending.run # NoAsk
    BY <1>0 DEF TurnsWell, PendingWell
  <2>3. NotPending.run = NoAsk /\ NotPending.cell = 0 /\ NotPending = [run |-> NoAsk, cell |-> 0]
    BY DEF NotPending
  <2>4. pane.pending = NotPending => pane'.pending.run = NoAsk /\ pane'.pending.cell = 0
    BY <2>3, <1>5
  <2>5. pane'.pending.run = NoAsk /\ pane'.pending.cell = 0 => pane'.pending = NotPending
    BY <2>1, <2>3
  <2> QED
    BY <2>2, <2>3, <2>4, <2>5, <1>5
<1>11. PendingWell' /\ NewestShown'
  <2>1. ASSUME pane'.pending # NotPending
        PROVE  PendingWell'
    <3>1. /\ pane.active = 0 /\ request = NoRequest /\ view.phase # "completed"
          /\ view.run = pane.pending.run /\ view.run # NoAsk
          /\ \/ pane.pending.cell = 0 /\ N > 0 /\ pane.turns[N] = Question(view.run)
             \/ /\ pane.pending.cell = N /\ N > 1 /\ pane.turns[N-1] = Question(view.run)
                /\ pane.turns[N] = AnswerTurn(view.run, "clipped")
      BY <2>1, <1>0, <1>10 DEF TurnsWell, PendingWell, N
    <3>2. N + 2 > 1 /\ (N+2) - 1 = N+1 /\ N # 0
      BY <1>0, <1>4
    <3>3. \/ pane'.pending.cell = 0 /\ pane'.turns[N+2] = Question(view'.run)
          \/ /\ pane'.pending.cell = N+2 /\ pane'.turns[N+1] = Question(view'.run)
             /\ pane'.turns[N+2] = AnswerTurn(view'.run, "clipped")
      BY <3>1, <3>2, <1>0, <1>5, <1>8
    <3>4. N + 2 > 0
      BY <3>2, <1>0
    <3> QED
      BY <3>1, <3>2, <3>3, <3>4, <1>0, <1>5 DEF PendingWell
  <2>2. pane.turns # << >>
    BY <1>0, <1>4 DEF N
  <2>3. NewestShown'
    BY <2>2, <1>0, <1>5, <1>8, <1>10 DEF TurnsWell, NewestShown, Newest, Ended, N
  <2> QED
    BY <2>1, <2>3 DEF PendingWell
<1>12. AnswersKnown'
  <2> SUFFICES ASSUME NEW i \in 1..N+2, IsAnswer(pane'.turns[i]), pane'.turns[i].of \in Asks
               PROVE  runs'[pane'.turns[i].of] # NoRun
    BY <1>5 DEF AnswersKnown
  <2>1. i # 1 /\ i # 2
    BY <1>1, <1>5 DEF IsAnswer
  <2>2. i - 2 \in 1..N /\ pane'.turns[i] = pane.turns[i-2]
    BY <2>1, <1>6
  <2> QED
    BY <2>2, <1>0 DEF TurnsWell, AnswersKnown, N
<1>13. AnswersFollow'
  <2> SUFFICES ASSUME NEW i \in 1..N+2
               PROVE  LET t == pane'.turns[i] IN
                 /\ IsAnswer(t) =>
                      /\ i > 1 => pane'.turns[i-1] = Question(t.of)
                      /\ i = 1 => \A j \in Questions' : pane'.turns[j].of # t.of
                 /\ t.role = "assistant" /\ t.text = "final" /\ t.of \in Asks =>
                      runs'[t.of].status = "completed" /\ runs'[t.of].out = "final"
                 /\ t.text = "partial" => i = pane'.active /\ view'.phase \notin Terminal
    BY <1>5 DEF AnswersFollow
  <2>1. CASE i = 1
    BY <2>1, <1>5 DEF IsAnswer
  <2>2. CASE i = 2
    BY <2>2, <1>1, <1>5
  <2>3. CASE i - 2 \in 1..N /\ i > 2 /\ (i - 2) + 2 = i /\ pane'.turns[i] = pane.turns[i-2]
    <3>1. PICK j \in 1..N : j = i - 2
      BY <2>3
    <3>2. PICK t : t = pane.turns[j]
      OBVIOUS
    <3>3. pane'.turns[i] = t
      BY <3>1, <3>2, <2>3
    <3>4. /\ IsAnswer(t) => (j > 1 => pane.turns[j-1] = Question(t.of))
          /\ t.role = "assistant" /\ t.text = "final" /\ t.of \in Asks =>
               runs[t.of].status = "completed" /\ runs[t.of].out = "final"
          /\ t.text = "partial" => j = pane.active
      BY <3>2, <1>0 DEF TurnsWell, AnswersFollow, N
    <3>5. t.text # "partial"
      BY <3>1, <3>4
    <3>6. IsAnswer(t) => j > 1
      <4>1. IsAnswer(t) => j # 1
        BY <3>2, <1>4 DEF IsAnswer
      <4> QED
        BY <4>1, <3>1
    <3>7. j > 1 => pane'.turns[i-1] = pane.turns[j-1]
      <4>1. j > 1 => j-1 \in 1..N /\ (j-1)+2 = i-1
        BY <3>1, <1>0
      <4> QED
        BY <4>1, <1>5
    <3>8. i # 1
      BY <2>3
    <3> QED
      BY <3>3, <3>4, <3>5, <3>6, <3>7, <3>8, <1>0
  <2> QED
    BY <2>1, <2>2, <2>3, <1>6
<1>14. QuestionsKnown' /\ QuestionsLogged'
  <2>1. CurrentSession' = CurrentSession
    BY <1>0 DEF CurrentSession, SessionNamed, SessionOf
  <2>2. QuestionsKnown'
    <3> SUFFICES ASSUME NEW i \in Questions'
                 PROVE  LET k == pane'.turns[i].of IN
                   /\ k # NoAsk
                   /\ k \in Asks => (request' # NoRequest /\ k = request'.key)
                                    \/ (runs'[k] # NoRun /\ runs'[k].session = CurrentSession')
      BY DEF QuestionsKnown, InSession
    <3>1. CASE i = 1
      BY <3>1, <1>1, <1>5
    <3>2. CASE i - 2 \in Questions /\ pane'.turns[i] = pane.turns[i-2]
      BY <3>2, <2>1, <1>0 DEF TurnsWell, QuestionsKnown, InSession
    <3> QED
      BY <3>1, <3>2, <1>7
  <2>3. QuestionsLogged'
    <3> SUFFICES ASSUME NEW i \in Questions', NEW j \in Questions', i < j,
                        pane'.turns[i].of \in Asks, pane'.turns[j].of \in Asks
                 PROVE  Precedes(pane'.turns[i].of, pane'.turns[j].of)
      BY <1>0 DEF QuestionsLogged, Precedes, LoggedBefore
    <3>1. i # 1 /\ j # 1
      BY <1>1, <1>5
    <3>2. i - 2 \in Questions /\ j - 2 \in Questions /\ i - 2 \in 1..N /\ j - 2 \in 1..N
          /\ pane'.turns[i] = pane.turns[i-2] /\ pane'.turns[j] = pane.turns[j-2]
      BY <3>1, <1>7
    <3>3. i \in 1..N+2 /\ j \in 1..N+2
      BY <1>5 DEF Questions
    <3>4. i - 2 < j - 2
      BY <3>3, <1>0
    <3> QED
      BY <3>2, <3>4, <1>0 DEF TurnsWell, QuestionsLogged
  <2> QED
    BY <2>2, <2>3
<1>15. OlderWell'
  <2>1. cursor' # 0 <=> cursor > 1
    BY <1>0
  <2> QED
    BY <2>1, <1>5, <1>8 DEF OlderWell
<1>16. PagesShown'
  <2>1. m + 1 \in 0..E /\ cursor' = E - (m + 1) /\ h = Earlier[E - (m+1) + 1] /\ m + 1 > 0
    <3>1. E - (m+1) + 1 = cursor /\ m + 1 \in 0..E /\ cursor - 1 = E - (m + 1) /\ m + 1 > 0
      BY <1>0, <1>3
    <3> QED
      BY <3>1 DEF h
  <2>2. 2*(m+1) <= N+2 /\ 2*(m+1) < N+2
        /\ 2*m+1 \in 1..N /\ 2*(m+1)+1 = (2*m+1)+2
    BY <1>0, <1>3
  <2>3. ASSUME NEW i \in 1..m+1
        PROVE  /\ pane'.turns[2*i-1] = Question(Earlier[E - (m+1) + i])
               /\ pane'.turns[2*i] = AnswerTurn(Earlier[E - (m+1) + i], "final")
    <3>1. CASE i = 1
      BY <3>1, <2>1, <1>5
    <3>2. CASE i # 1
      <4>1. PICK k \in 1..m : k = i - 1
        BY <3>2, <1>3
      <4>2. /\ 2*i-1 = (2*k-1)+2 /\ 2*i = 2*k+2 /\ 2*k-1 \in 1..N /\ 2*k \in 1..N
            /\ E - (m+1) + i = E - m + k
        <5>1. i \in Nat /\ k \in Nat /\ i = k + 1 /\ 1 <= k /\ k <= m
          BY <4>1, <1>3
        <5>2. 2*m < N /\ m \in Nat /\ N \in Nat /\ E \in Nat
          BY <1>0, <1>3
        <5> QED
          BY <5>1, <5>2
      <4>3. pane'.turns[2*i-1] = pane.turns[2*k-1] /\ pane'.turns[2*i] = pane.turns[2*k]
        BY <4>2, <1>5
      <4> QED
        BY <4>1, <4>2, <4>3, <1>3
    <3> QED
      BY <3>1, <3>2
  <2>4. ASSUME NEW i \in 2*(m+1)+1..N+2
        PROVE  pane'.turns[i].of \in Asks0
    <3>1. PICK j \in 2*m+1..N : j = i - 2
      BY <1>0, <1>3
    <3>2. j \in 1..N /\ i = j + 2
      BY <3>1, <1>0, <1>3
    <3>3. pane'.turns[i] = pane.turns[j]
      BY <3>2, <1>5
    <3> QED
      BY <3>1, <3>3, <1>3
  <2>5. pane'.turns[2*(m+1)+1] = Question(First)
    <3>1. pane'.turns[(2*m+1)+2] = pane.turns[2*m+1]
      BY <2>2, <1>5
    <3> QED
      BY <3>1, <2>2, <1>3
  <2>6. PagesFirst(m+1)'
    BY <2>1, <2>2, <2>3, <2>4, <2>5, <1>5 DEF PagesFirst, E
  <2> QED
    BY <2>1, <2>6 DEF PagesShown, E
<1> QED
  BY <1>9, <1>11, <1>12, <1>13, <1>14, <1>15, <1>16 DEF TranscriptInv, TurnsWell

LEMMA PageSettlesStep ==
  ASSUME ControllerInv, ControllerInv', PaneInv, NEW p \in pages, PageSettles(p)
  PROVE  PaneInv'
<1> DEFINE valid == p.epoch = epoch /\ p.selection = selection /\ p.page = cursor
<1>0. /\ p \in Page /\ p.ans # "pending" /\ pages' = pages \ {p}
      /\ cursor' = IF p.ans = "page" /\ valid THEN cursor - 1 ELSE cursor
      /\ UNCHANGED <<vars, refused, cut>>
  BY DEF PageSettles, PaneInv, PaneType
<1>1. /\ UNCHANGED <<view, request, epoch, selection, calls>> /\ Len(Earlier) \in Nat
      /\ pane \in Pane /\ cursor \in 0..Len(Earlier) /\ Shape(pane)
      /\ p.page \in 1..Len(Earlier) /\ p.mine \in BOOLEAN /\ p.ans \in {"page", "failed"}
  BY <1>0, PaneAssumption DEF vars, PaneInv, PaneType, Shape, Page
<1>2. cursor' \in 0..Len(Earlier)
  <2>1. valid => cursor - 1 \in 0..Len(Earlier)
    BY <1>1
  <2> QED
    BY <2>1, <1>0, <1>1
<1>3. pages' \in SUBSET Page
  BY <1>0 DEF PaneInv, PaneType
<1>4. ~refused /\ ~p.mine => ~valid
  BY DEF PaneInv, PagesWell
<1>5. ~refused /\ p.mine => /\ \A q \in pages' : ~q.mine
                            /\ pane.loading
                            /\ ~valid => cut
  <2>1. ~refused /\ p.mine => \A q \in pages : q.mine => q = p
    BY DEF PaneInv, PagesWell
  <2>2. \A q \in pages' : q \in pages /\ q # p /\ q.mine \in BOOLEAN
    BY <1>0, <1>3 DEF Page
  <2> QED
    BY <2>1, <2>2 DEF PaneInv, PagesWell
<1>6. /\ Shape(pane') /\ pane'.busy = pane.busy
      /\ pane.turns # << >> => pane'.turns # << >>
      /\ ~p.mine => pane' = pane
      /\ ~refused => TranscriptInv'
  <2>0. pane.turns \in Seq(Turn) /\ Len(pane.turns) \in Nat /\ (~refused => TranscriptInv)
    BY <1>1 DEF Pane, PaneInv
  <2>1. ASSUME pane'.turns = pane.turns, pane'.active = pane.active,
               pane'.pending = pane.pending, ~refused, cursor' = cursor
        PROVE  TurnsWell' /\ PagesShown'
    BY <2>0, <2>1, <1>0, SameTurns DEF PaneInv
  <2>2. CASE ~p.mine
    <3>1. pane' = pane
      BY <2>2 DEF PageSettles
    <3>2. ~refused => cursor' = cursor
      BY <2>2, <1>0, <1>4
    <3>3. ~refused => OlderWell'
      BY <3>1, <3>2, <2>0, <1>0 DEF TranscriptInv, OlderWell
    <3> QED
      BY <2>1, <3>1, <3>2, <3>3, <1>1 DEF TranscriptInv
  <2>3. CASE p.mine /\ ~(p.ans = "page" /\ valid)
    <3>1. PICK more \in BOOLEAN :
             /\ pane' = [pane EXCEPT !.hasOlder = more, !.loading = FALSE]
             /\ \/ p.ans = "failed" /\ more = pane.hasOlder
                \/ ~valid /\ more = FALSE
      <4>1. CASE p.ans = "failed"
        <5>1. pane' = [pane EXCEPT !.loading = FALSE]
          BY <2>3, <4>1 DEF PageSettles
        <5>2. pane' = [pane EXCEPT !.hasOlder = pane.hasOlder, !.loading = FALSE]
          BY <5>1, <1>1 DEF Pane
        <5>3. pane.hasOlder \in BOOLEAN
          BY <1>1 DEF Pane
        <5> QED
          BY <4>1, <5>2, <5>3
      <4>2. CASE p.ans = "page"
        <5>1. pane' = [[pane EXCEPT !.hasOlder = FALSE] EXCEPT !.loading = FALSE]
          BY <2>3, <4>2 DEF PageSettles
        <5>2. pane' = [pane EXCEPT !.hasOlder = FALSE, !.loading = FALSE]
          BY <5>1, <1>1 DEF Pane
        <5> QED
          BY <2>3, <4>2, <5>2
      <4> QED
        BY <4>1, <4>2, <1>1
    <3>2. /\ pane' \in Pane /\ pane'.turns = pane.turns /\ pane'.active = pane.active
          /\ pane'.pending = pane.pending /\ pane'.busy = pane.busy
          /\ pane'.hasOlder = more /\ pane'.loading = FALSE
      BY <3>1, <1>1 DEF Pane
    <3>3. Shape(pane')
      BY <3>2, <1>1 DEF Shape
    <3>4. cursor' = cursor
      BY <2>3, <1>0
    <3>5. ~refused => OlderWell'
      BY <3>1, <3>2, <3>4, <2>0, <2>3, <1>0, <1>5 DEF TranscriptInv, OlderWell
    <3> QED
      BY <2>1, <2>3, <3>2, <3>3, <3>4, <3>5 DEF TranscriptInv
  <2>4. CASE p.mine /\ p.ans = "page" /\ valid
    <3>1. PICK h \in Earliers : h = Earlier[cursor]
      BY <2>4, <1>1 DEF Earliers
    <3>2. PICK more \in BOOLEAN : more = (cursor > 1)
      <4>1. (cursor > 1) \in BOOLEAN
        OBVIOUS
      <4> QED
        BY <4>1, Zenon
    <3>3. pane' = [WithPage(h) EXCEPT !.hasOlder = more, !.loading = FALSE]
      BY <2>4, <3>1, <3>2 DEF PageSettles
    <3>4. /\ Shape(pane') /\ Prepends(h) /\ pane'.busy = pane.busy
          /\ pane'.hasOlder = more /\ ~pane'.loading
      BY <3>3, <1>1, PageShape
    <3>5. pane'.turns # << >>
      <4>1. Len(pane'.turns) # 0
        BY <3>4, <2>0 DEF Prepends
      <4> QED
        BY <4>1
    <3>6. cursor # 0 /\ cursor' = cursor - 1
      BY <2>4, <1>0, <1>1
    <3>7. ~refused => pane.active = 0
      BY <2>0, <2>4, <1>5 DEF TranscriptInv, OlderWell
    <3>8. ~refused => TranscriptInv'
      BY <2>0, <3>1, <3>2, <3>4, <3>6, <3>7, <1>0, PrependStep DEF PaneInv
    <3> QED
      BY <2>4, <3>4, <3>5, <3>8
  <2> QED
    BY <2>2, <2>3, <2>4, <1>1
<1>7. PaneType' /\ Locked' /\ RefusedShown'
  BY <1>0, <1>1, <1>2, <1>3, <1>6 DEF PaneInv, PaneType, Locked, Busy, RefusedShown
<1>8. LoadPane'
  <2> SUFFICES ASSUME NEW c \in calls, c.epoch = epoch, c.op \in Loads
               PROVE  ~refused /\ pane' = IF c.op = "open" THEN Opening ELSE Recovering
    BY <1>0, <1>1 DEF LoadPane
  <2>1. ~p.mine
    BY LoadingPane
  <2> QED
    BY <2>1, <1>6, LoadingPane
<1>9. PagesWell'
  <2>1. CASE p.mine
    BY <2>1, <1>0, <1>1, <1>5 DEF PaneInv, PagesWell
  <2>2. CASE ~p.mine
    <3>1. pane' = pane /\ (~refused => cursor' = cursor)
      BY <2>2, <1>0, <1>4, <1>6
    <3> QED
      BY <3>1, <1>0, <1>1 DEF PaneInv, PagesWell
  <2> QED
    BY <2>1, <2>2, <1>1
<1> QED
  BY <1>0, <1>6, <1>7, <1>8, <1>9 DEF PaneInv

LEMMA PaneInvStep ==
  ASSUME ControllerInv, PaneInv, [PaneNext]_panevars
  PROVE  ControllerInv' /\ PaneInv'
<1>1. CASE UNCHANGED panevars
  <2>1. /\ UNCHANGED <<vars, pane, panerest>>
        /\ UNCHANGED <<view, request, epoch, selection, calls>>
    BY <1>1 DEF panevars, vars
  <2>2. Rests
    BY <2>1 DEF Rests
  <2>3. ControllerInv'
    BY <2>1, ControllerStep
  <2> QED
    BY <2>2, <2>3, RestsStep
<1>2. CASE PaneNext
  <2>1. \/ Rests \/ Shows \/ Questioned \/ PaneRefused \/ Empties \/ BeginsOpen \/ BeginsRecover
        \/ (\E c \in calls : Opened(c) \/ Recovered(c)) \/ Pages
    BY <1>2, KindOfStep
  <2>2. CASE PaneRefused
    <3>1. /\ used \subseteq used' /\ used' \subseteq Asks
          /\ UNCHANGED <<owner, selection, epochs, view, request, context, sub, calls>>
      BY <2>2 DEF PaneRefused, ControllerInv, IInv, TypeOK
    <3> QED
      BY <2>2, <3>1, RefusedKeeps, RefusedStep
  <2>3. CASE Pages
    <3>1. UNCHANGED vars
      BY <2>3 DEF Pages, PaneLoadOlder, PageAnswered, PageSettles
    <3>2. ControllerInv'
      BY <3>1, ControllerStep
    <3> QED
      BY <2>3, <3>2, LoadOlderStep, PageAnsweredStep, PageSettlesStep DEF Pages
  <2>4. ASSUME [Next]_vars
        PROVE  ControllerInv'
    BY <2>4, ControllerStep
  <2>5. CASE Rests
    BY <2>4, <2>5, RestsStep DEF Rests
  <2>6. CASE Shows
    BY <2>4, <2>6, ShowsStep DEF Shows
  <2>7. CASE Questioned
    BY <2>4, <2>7, QuestionedStep DEF Questioned
  <2>8. CASE Empties
    BY <2>4, <2>8, EmptiesStep DEF Empties
  <2>9. CASE BeginsOpen
    BY <2>4, <2>9, OpenBeginsStep DEF BeginsOpen
  <2>10. CASE BeginsRecover
    BY <2>4, <2>10, RecoverBeginsStep DEF BeginsRecover
  <2>11. ASSUME NEW c \in calls, Opened(c)
         PROVE  ControllerInv' /\ PaneInv'
    BY <2>4, <2>11, OpenedStep DEF Opened
  <2>12. ASSUME NEW c \in calls, Recovered(c)
         PROVE  ControllerInv' /\ PaneInv'
    BY <2>4, <2>12, RecoveredStep DEF Recovered
  <2> QED
    BY <2>1, <2>2, <2>3, <2>5, <2>6, <2>7, <2>8, <2>9, <2>10, <2>11, <2>12
<1> QED
  BY <1>1, <1>2

LEMMA PaneInitially == PaneInit => ControllerInv /\ PaneInv
<1> SUFFICES ASSUME PaneInit
             PROVE  PaneInv
  BY ControllerInitially
<1>1. /\ view.phase = "idle" /\ view.run = NoAsk /\ request = NoRequest /\ calls = {}
      /\ pane = Empty /\ cursor = 0 /\ pages = {} /\ ~refused /\ ~cut
      /\ refused \in BOOLEAN /\ cut \in BOOLEAN
  BY DEF PaneInit
<1>2. /\ Shape(pane) /\ pane.turns = << >> /\ pane.active = 0 /\ pane.pending = NotPending
      /\ ~pane.hasOlder /\ ~pane.loading /\ ~pane.busy
  BY <1>1, EmptyType
<1>3. Questions = {} /\ Len(pane.turns) = 0 /\ 0 \in 0..Len(Earlier)
  BY <1>2, PaneAssumption DEF Questions
<1>4. PaneType /\ Locked /\ LoadPane /\ RefusedShown /\ PagesWell
  BY <1>1, <1>2, <1>3 DEF PaneType, Locked, Busy, LoadPane, RefusedShown, PagesWell
<1>5. OlderWell /\ TurnsWell
  BY <1>1, <1>2, <1>3 DEF OlderWell, TurnsWell, ActiveWell, PendingWell, IdlePane, AnswersKnown,
    AnswersFollow, QuestionsKnown, QuestionsLogged, EmptyWell, SentShown, NewestShown
<1>6. PagesFirst(0)
  BY <1>1, <1>3 DEF PagesFirst
<1>7. PagesShown
  BY <1>3, <1>6 DEF PagesShown
<1> QED
  BY <1>4, <1>5, <1>7 DEF PaneInv, TranscriptInv

LEMMA PaneInvariance == PaneSpec => [](ControllerInv /\ PaneInv)
<1>1. ControllerInv /\ PaneInv /\ [PaneNext]_panevars => (ControllerInv /\ PaneInv)'
  BY PaneInvStep
<1> QED
  BY <1>1, PaneInitially, PTL DEF PaneSpec

----------------------------------------------------------------------------
(* What a pane shows *)

\* Whatever is sent, controlled, checked, opened, recovered and read, in any
\* order: an answer stands below its own question, a final one is the owner's,
\* only the active turn holds text that is not, and the composer is locked
\* exactly while a run is submitted or running (personal-chat-ui.ts:549-580).
THEOREM TranscriptStaysTrue == PaneSpec => []TranscriptTrue
<1>1. ASSUME ControllerInv, PaneInv
      PROVE  TranscriptTrue
  <2>1. PaneTypeOK
    <3>1. PICK n : n = Len(pane.turns)
      OBVIOUS
    <3>2. /\ pane \in Pane /\ pane.active <= n /\ pane.pending.cell <= n /\ n \in Nat
      BY <1>1, <3>1 DEF PaneInv, PaneType, Shape, Pane
    <3>3. pane.active \in 0..n /\ pane.pending \in [run : Asks0, cell : 0..n]
      BY <3>2 DEF Pane
    <3> QED
      BY <1>1, <3>1, <3>2, <3>3 DEF PaneTypeOK, PaneInv, PaneType, Page, Pane, ControllerInv, IInv
  <2>2. pane.busy <=> Busy(view)
    BY <1>1 DEF PaneInv, Locked
  <2>3. ~refused => AnswersFollow
    BY <1>1 DEF PaneInv, TranscriptInv, TurnsWell
  <2> QED
    BY <2>1, <2>2, <2>3 DEF TranscriptTrue, AnswersFollow, IsAnswer
<1> QED
  BY <1>1, PaneInvariance, PTL

\* A completed view shows its answer as the newest turn, also when it was
\* verified only after the history was opened; apart from a run that had not
\* ended by then (personal-chat-ui.ts:563-580).
THEOREM AnswerStaysShown == PaneSpec => []AnswerIsShown
<1>1. ASSUME ControllerInv, PaneInv, view.phase = "completed", ~refused
      PROVE  /\ pane.turns # << >>
             /\ \/ Newest = AnswerTurn(view.run, "final")
                \/ request = NoRequest /\ Newest = Question(view.run)
             /\ pane.pending = NotPending
  <2>1. view.run # NoAsk /\ PhaseOf(runs[view.run].status) = "completed" /\ view.out = "final"
    BY <1>1 DEF ControllerInv, IInv, VerifiedOutcome, Terminal
  <2>2. ~Ended(view.run, "failed") /\ ~Ended(view.run, "canceled")
    BY <2>1 DEF Ended, PhaseOf
  <2>3. TurnsWell
    BY <1>1 DEF PaneInv, TranscriptInv
  <2>4. pane.turns # << >> /\ pane.pending = NotPending
    BY <1>1, <2>1, <2>2, <2>3 DEF TurnsWell, EmptyWell, PendingWell
  <2>5. CASE pane.active # 0
    BY <2>1, <2>3, <2>4, <2>5 DEF TurnsWell, ActiveWell, Newest
  <2>6. CASE pane.active = 0 /\ request # NoRequest
    <3>1. view.run = request.key
      BY <1>1, <2>1, <2>6 DEF ControllerInv, IInv, OwnRunShown
    <3> QED
      BY <2>2, <2>3, <2>6, <3>1 DEF TurnsWell, SentShown
  <2>7. CASE pane.active = 0 /\ request = NoRequest
    BY <2>2, <2>3, <2>4, <2>7 DEF TurnsWell, NewestShown
  <2> QED
    BY <2>4, <2>5, <2>6, <2>7
<1>2. ControllerInv /\ PaneInv => AnswerIsShown
  BY <1>1 DEF AnswerIsShown
<1> QED
  BY <1>2, PaneInvariance, PTL

\* A name has one place among the earlier runs, and one in the log.
LEMMA OnePlace ==
  ASSUME ControllerInv
  PROVE  /\ \A x \in 1..Len(Earlier) : (CHOOSE m \in 1..Len(Earlier) : Earlier[m] = Earlier[x]) = x
         /\ \A x \in 1..Len(log) : (CHOOSE m \in 1..Len(log) : log[m] = log[x]) = x
<1>1. \A x, y \in 1..Len(Earlier) : Earlier[x] = Earlier[y] => x = y
  BY PaneAssumption
<1>2. \A x, y \in 1..Len(log) : log[x] = log[y] => x = y
  BY DEF ControllerInv, TurnsInv, LogOnce
<1> QED
  BY <1>1, <1>2

\* Two questions of the session.
LEMMA SessionOrder ==
  ASSUME ControllerInv, QuestionsKnown, NEW i \in Questions, NEW j \in Questions,
         LET a == pane.turns[i].of  b == pane.turns[j].of IN
         a \in Asks /\ b \in Asks /\ Precedes(a, b) /\ runs[b] # NoRun
  PROVE  Older(pane.turns[i].of, pane.turns[j].of)
<1>1. PICK a, b : a = pane.turns[i].of /\ b = pane.turns[j].of
  OBVIOUS
<1>2. a \in Asks /\ b \in Asks /\ runs[a] # NoRun /\ runs[b] # NoRun /\ LoggedBefore(a, b)
  BY <1>1 DEF Precedes
<1>3. ASSUME NEW q \in Questions, pane.turns[q].of \in Asks, runs[pane.turns[q].of] # NoRun
      PROVE  runs[pane.turns[q].of].session = CurrentSession
  BY <1>3 DEF QuestionsKnown, InSession, CurrentSession, ControllerInv, SessionInv, OwnSession
<1>4. runs[a].session = runs[b].session
  BY <1>1, <1>2, <1>3
<1>5. log \in Seq(Asks) /\ Len(log) \in Nat /\ Len(Earlier) \in Nat
  BY PaneAssumption DEF ControllerInv, IInv, TypeOK
<1>6. PICK x, y \in 1..Len(log) : x < y /\ log[x] = a /\ log[y] = b
  BY <1>2, <1>5 DEF LoggedBefore
<1>7. (CHOOSE m \in 1..Len(log) : log[m] = a) = x /\ (CHOOSE m \in 1..Len(log) : log[m] = b) = y
  BY <1>6, OnePlace
<1>8. Len(Earlier) + x < Len(Earlier) + y
  BY <1>5, <1>6
<1>9. Older(a, b)
  <2>1. /\ Len(Earlier) + (CHOOSE m \in 1..Len(log) : log[m] = a)
             < Len(Earlier) + (CHOOSE m \in 1..Len(log) : log[m] = b)
    BY <1>7, <1>8
  <2> QED
    BY <2>1, <1>2, <1>4 DEF Older
<1> QED
  BY <1>1, <1>9

\* The turns of m pages.
LEMMA PageTurns ==
  ASSUME NEW m \in 0..Len(Earlier), PagesFirst(m), NEW x \in 1..m
  PROVE  LET h == Earlier[Len(Earlier) - m + x] IN
         /\ pane.turns[2*x-1].role = "user" /\ pane.turns[2*x-1].of = h
         /\ pane.turns[2*x].role = "assistant"
<1>1. PICK h : h = Earlier[Len(Earlier) - m + x]
  OBVIOUS
<1>2. pane.turns[2*x-1] = Question(h) /\ pane.turns[2*x] = AnswerTurn(h, "final")
  BY <1>1 DEF PagesFirst
<1>3. Question(h).role = "user" /\ Question(h).of = h /\ AnswerTurn(h, "final").role = "assistant"
  BY DEF Question, AnswerTurn
<1> QED
  BY <1>1, <1>2, <1>3

\* The question of an earlier page and the one below it.
LEMMA PageOrder ==
  ASSUME ControllerInv, PaneType, PagesShown, QuestionsKnown,
         NEW i \in Questions, NEW j \in Questions, i < j,
         \A n \in Questions : n <= i \/ n >= j, pane.turns[i].of \notin Asks
  PROVE  Older(pane.turns[i].of, pane.turns[j].of)
<1> DEFINE N == Len(pane.turns)
           E == Len(Earlier)
<1>1. /\ N \in Nat /\ E \in Nat /\ i \in 1..N /\ j \in 1..N
      /\ pane.turns[i].role = "user" /\ pane.turns[j].role = "user"
      /\ pane.turns[i].of # NoAsk
      /\ \A n \in 1..N : pane.turns[n].role = "user" => n <= i \/ n >= j
  BY PaneAssumption DEF PaneType, Shape, Pane, Questions, QuestionsKnown
<1>2. PICK m \in 0..E : PagesFirst(m)
  BY DEF PagesShown
<1>3. /\ m \in Nat /\ 2*m <= N
      /\ \A x \in 1..m : /\ pane.turns[2*x-1].role = "user"
                         /\ pane.turns[2*x-1].of = Earlier[E - m + x]
                         /\ pane.turns[2*x].role = "assistant"
      /\ \A n \in 2*m+1..N : pane.turns[n].of \in Asks0
      /\ m > 0 => 2*m < N /\ pane.turns[2*m+1] = Question(First)
  <2>1. m \in Nat
    BY <1>1
  <2> QED
    BY <1>2, <2>1, PageTurns DEF PagesFirst
<1> HIDE DEF N, E
<1>4. PICK x \in 1..m : i = 2*x-1
  <2>1. i \notin 2*m+1..N
    BY <1>1, <1>3 DEF Asks0
  <2>2. i \in 1..2*m
    BY <2>1, <1>1, <1>3
  <2>3. PICK x \in 1..m : i = 2*x-1 \/ i = 2*x
    BY <2>2, <1>3, Cells
  <2>4. i # 2*x
    BY <1>1, <1>3
  <2> QED
    BY <2>3, <2>4
<1>5. pane.turns[i].of = Earlier[E - m + x]
  BY <1>3, <1>4
<1>6. /\ E - m + x \in 1..E /\ 2*x \in 1..N /\ 2*x+1 \in 1..N /\ 2*x+1 > i /\ m > 0
  BY <1>1, <1>2, <1>3, <1>4
<1>7. pane.turns[2*x].role # "user" /\ pane.turns[2*x+1].role = "user"
  <2>1. pane.turns[2*x].role # "user"
    BY <1>3
  <2>2. CASE x = m
    BY <2>1, <2>2, <1>3, <1>6 DEF Question
  <2>3. CASE x # m
    <3>1. x + 1 \in 1..m /\ 2*(x+1)-1 = 2*x+1
      <4>1. m \in Nat
        BY <1>3
      <4> QED
        BY <2>3, <4>1
    <3>2. pane.turns[2*(x+1)-1].role = "user"
      BY <3>1, <1>3
    <3> QED
      BY <2>1, <3>1, <3>2
  <2> QED
    BY <2>2, <2>3
<1>8. j = 2*x+1
  <2>1. j # 2*x
    BY <1>1, <1>7
  <2>2. 2*x+1 >= j
    BY <1>1, <1>6, <1>7
  <2> QED
    BY <2>1, <2>2, <1>1, <1>3, <1>4
<1>9. (CHOOSE n \in 1..E : Earlier[n] = Earlier[E - m + x]) = E - m + x
  BY <1>6, OnePlace DEF E
<1>10. pane.turns[i].of \notin Asks
  OBVIOUS
<1>11. CASE x = m
  <2>1. pane.turns[j] = Question(First)
    BY <1>3, <1>6, <1>8, <1>11
  <2>2. pane.turns[j].of = First
    BY <2>1 DEF Question
  <2>3. First \in Asks
    BY <2>2, PaneAssumption DEF QuestionsKnown
  <2>4. log # << >> /\ log[1] = First /\ log \in Seq(Asks)
    BY <2>3, ChatAssumption DEF ControllerInv, FirstLogged, IInv, TypeOK
  <2>5. 1 \in 1..Len(log)
    BY <2>4
  <2>6. (CHOOSE n \in 1..Len(log) : log[n] = First) = 1
    BY <2>4, <2>5, OnePlace
  <2>7. E + 1 = (E - m + x) + 1
    BY <1>1, <1>3, <1>11
  <2> QED
    BY <2>2, <2>3, <2>6, <2>7, <1>5, <1>9, <1>10 DEF Older, E
<1>12. CASE x # m
  <2>1. x + 1 \in 1..m /\ 2*(x+1)-1 = j /\ E - m + (x+1) \in 1..E
        /\ E - m + (x+1) = (E - m + x) + 1
    BY <1>1, <1>2, <1>3, <1>8, <1>12
  <2>2. pane.turns[j].of = Earlier[E - m + (x+1)]
    BY <2>1, <1>3
  <2>3. Earlier[E - m + (x+1)] \notin Asks
    BY <2>1, PaneAssumption DEF E
  <2>4. (CHOOSE n \in 1..E : Earlier[n] = Earlier[E - m + (x+1)]) = E - m + (x+1)
    BY <2>1, OnePlace DEF E
  <2> QED
    BY <2>1, <2>2, <2>3, <2>4, <1>5, <1>9, <1>10 DEF Older, E
<1> QED
  BY <1>11, <1>12

\* The questions of a transcript are the earlier pages' and then those of one
\* session in the owner's order, once and without a gap; the pane offers an
\* earlier page while the controller knows of one (personal-chat-ui.ts:357-391,
\* 673-693).
THEOREM QuestionsStayInOrder == PaneSpec => []QuestionsInOrder
<1>1. ASSUME ControllerInv, PaneInv, ~refused
      PROVE  /\ \A i, j \in Questions :
                  LET a == pane.turns[i].of  b == pane.turns[j].of IN
                  i < j /\ (\A n \in Questions : n <= i \/ n >= j) =>
                    /\ a \in Asks => runs[a] # NoRun
                    /\ (b \in Asks /\ runs[b] = NoRun) \/ Older(a, b)
             /\ cursor # 0 => pane.hasOlder \/ cut
             /\ pane.hasOlder => cursor # 0
  <2>1. /\ PaneType /\ OlderWell /\ PagesShown /\ QuestionsKnown /\ QuestionsLogged
    BY <1>1 DEF PaneInv, TranscriptInv, TurnsWell
  <2>2. ASSUME NEW i \in Questions, NEW j \in Questions, i < j,
               \A n \in Questions : n <= i \/ n >= j
        PROVE  LET a == pane.turns[i].of  b == pane.turns[j].of IN
               /\ a \in Asks => runs[a] # NoRun
               /\ (b \in Asks /\ runs[b] = NoRun) \/ Older(a, b)
    <3>1. CASE pane.turns[i].of \notin Asks
      BY <1>1, <2>1, <2>2, <3>1, PageOrder
    <3>2. CASE pane.turns[i].of \in Asks
      <4>1. pane.turns[j].of \in Asks
        <5>1. PICK m \in 0..Len(Earlier) : PagesFirst(m)
          BY <2>1 DEF PagesShown
        <5>2. /\ m \in Nat /\ i \in 1..Len(pane.turns) /\ j \in 1..Len(pane.turns)
              /\ Len(pane.turns) \in Nat /\ pane.turns[i].role = "user" /\ Len(Earlier) \in Nat
          BY <2>1, PaneAssumption DEF Questions, PaneType, Shape, Pane
        <5>3. \A x \in 1..m : /\ pane.turns[2*x-1].of = Earlier[Len(Earlier) - m + x]
                              /\ pane.turns[2*x].role = "assistant"
          BY <5>1, PageTurns
        <5>4. i \notin 1..2*m
          <6> SUFFICES ASSUME i \in 1..2*m
                       PROVE  FALSE
            OBVIOUS
          <6>1. PICK x \in 1..m : i = 2*x-1 \/ i = 2*x
            BY <5>2, Cells
          <6>2. i = 2*x-1
            BY <6>1, <5>2, <5>3
          <6>3. Len(Earlier) - m + x \in 1..Len(Earlier)
            BY <6>1, <5>1, <5>2
          <6>4. pane.turns[i].of = Earlier[Len(Earlier) - m + x]
            BY <6>2, <5>3
          <6> QED
            BY <6>3, <6>4, <3>2, PaneAssumption
        <5>5. j \in 2*m+1..Len(pane.turns)
          BY <5>2, <5>4, <2>2
        <5>6. pane.turns[j].of \in Asks0
          BY <5>1, <5>5 DEF PagesFirst
        <5> QED
          BY <5>6, <2>1 DEF Asks0, QuestionsKnown
      <4>2. Precedes(pane.turns[i].of, pane.turns[j].of)
        BY <2>1, <2>2, <3>2, <4>1 DEF QuestionsLogged
      <4>3. runs[pane.turns[j].of] # NoRun => Older(pane.turns[i].of, pane.turns[j].of)
        BY <1>1, <2>1, <3>2, <4>1, <4>2, SessionOrder
      <4> QED
        BY <4>1, <4>2, <4>3 DEF Precedes
    <3> QED
      BY <3>1, <3>2
  <2> QED
    BY <2>1, <2>2 DEF OlderWell
<1>2. ControllerInv /\ PaneInv => QuestionsInOrder
  BY <1>1 DEF QuestionsInOrder
<1> QED
  BY <1>2, PaneInvariance, PTL
=============================================================================
