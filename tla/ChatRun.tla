------------------------------ MODULE ChatRun ------------------------------
(***************************************************************************)
(* PersonalChatRunController (packages/client/src/conversation-run.ts):    *)
(* one chat view, the calls it has in flight to the canonical Gateway, the *)
(* run event stream it subscribes to, and the Gateway's runs as the code   *)
(* uses them.                                                              *)
(*                                                                         *)
(* Every await of the controller is a call in `calls`: the controller      *)
(* sends it, the owner handles it at some later moment (its answer is a    *)
(* snapshot of that moment), the network may lose the request or the       *)
(* answer, and the continuation runs when the answer arrives, in any order *)
(* with respect to the other calls and to the user's next action.          *)
(*                                                                         *)
(* A user message, its idempotency key and the run the owner creates for   *)
(* it are one element of Asks: the owner makes one run per key.  A session *)
(* is named by the ask that began it.  The workspace name is not modelled: *)
(* A -> B -> A selection makes the name equal again, so only the epochs    *)
(* fence a late answer, which is the case the model keeps.                 *)
(***************************************************************************)
EXTENDS Naturals, Sequences, FiniteSets

CONSTANTS
  Asks, NoAsk,      \* user messages (with their keys and runs); none
  Size,             \* Size[k]: bytes of question k and its answer
  MaxPairs,         \* turns of context kept (6 in the code)
  MaxBytes,         \* bytes of context kept (18 000 in the code)
  RowBytes,         \* a history row longer than this is truncated
  UserOps,          \* the user operations a run exercises
  CheckInFlight,    \* TRUE: Check run may be asked while "submitting"
  StatusLags,       \* TRUE: a terminal event may come before the status
  MaxEpoch, MaxChecks, MaxStreams  \* bounds on the counters below

OpNames == {"send", "retry", "reconnect", "stop", "check", "pause", "resume",
            "retarget", "close", "open", "recover"}

ASSUME ChatAssumption ==
  /\ NoAsk \notin Asks
  /\ Size \in [Asks -> Nat]
  /\ MaxPairs \in Nat /\ MaxBytes \in Nat /\ RowBytes \in Nat
  /\ UserOps \subseteq OpNames
  /\ CheckInFlight \in BOOLEAN /\ StatusLags \in BOOLEAN
  /\ MaxEpoch \in Nat /\ MaxChecks \in Nat /\ MaxStreams \in Nat

VARIABLES
  runs,          \* the owner's run of each ask
  log,           \* the created runs, oldest first
  selection,     \* DashboardClient.selectionEpoch
  epoch, streamEpoch, checkEpoch,
  view,          \* what the user sees: phase, run, out
  request,       \* activeRequest
  confirmed,     \* confirmedTurns, a pair (question, answer) per element
  confirmedRun,  \* confirmedRunId
  limited,       \* contextLimited, also shown in the view
  sub,           \* the live event subscription
  used,          \* the idempotency keys handed out so far
  calls          \* the calls awaited by some continuation

owner == <<runs, log>>
context == <<confirmed, confirmedRun, limited>>
epochs == <<epoch, streamEpoch, checkEpoch>>
vars == <<runs, log, selection, epoch, streamEpoch, checkEpoch, view, request,
          confirmed, confirmedRun, limited, sub, used, calls>>

----------------------------------------------------------------------------
(* Types *)

Asks0 == Asks \cup {NoAsk}
Pair == [ask : Asks, run : Asks]

\* "parked" stands for blocked, budget_limited and parked, "running" for the
\* statuses phase() maps to its default.
LiveStatus == {"running", "paused", "paused_recovery_required"}
FinalStatus == {"parked", "failed", "canceled", "completed"}
Status == {"absent"} \cup LiveStatus \cup FinalStatus

\* An owner's output is not there yet, whole, or longer than the projection.
Output == {"none", "final", "clipped"}
Run == [status : Status, out : Output, session : Asks0]
NoRun == [status |-> "absent", out |-> "none", session |-> NoAsk]

Phase == {"idle", "submitting", "running", "interrupted", "completed", "failed",
          "canceled", "blocked", "paused", "recovery-required"}
Terminal == {"completed", "failed", "canceled", "blocked"}
View == [phase : Phase, run : Asks0, out : {"none", "partial", "final"}]

Request == [key : Asks0, session : Asks0, ctx : Seq(Pair)]
NoRequest == [key |-> NoAsk, session |-> NoAsk, ctx |-> << >>]

Sub == [run : Asks0, stream : Nat, epoch : Nat, selection : Nat]
NoSub == [run |-> NoAsk, stream |-> 0, epoch |-> 0, selection |-> 0]

Row == [run : Asks, status : Status, out : Output]
Answer == [is : {"pending", "lost", "refused", "run", "rows"},
           status : Status, out : Output, rows : Seq(Row)]
Pending == [is |-> "pending", status |-> "absent", out |-> "none", rows |-> << >>]

GetOps == {"reconnect", "readback", "refresh", "reconcile", "recover"}
ControlOps == {"cancel", "pause", "resume"}
Call == [op : {"create", "open"} \cup GetOps \cup ControlOps,
         epoch : Nat, selection : Nat, tag : Nat,
         run : Asks0, req : Request, ans : Answer]

TypeOK ==
  /\ runs \in [Asks -> Run] /\ log \in Seq(Asks)
  /\ selection \in Nat /\ epoch \in Nat /\ streamEpoch \in Nat /\ checkEpoch \in Nat
  /\ view \in View /\ request \in Request
  /\ confirmed \in Seq(Pair) /\ confirmedRun \in Asks0 /\ limited \in BOOLEAN
  /\ sub \in Sub /\ used \in SUBSET Asks /\ calls \in SUBSET Call

----------------------------------------------------------------------------
(* Helpers *)

PhaseOf(s) ==
  CASE s = "parked" -> "blocked"
    [] s = "paused_recovery_required" -> "recovery-required"
    [] s \in {"completed", "failed", "canceled", "paused"} -> s
    [] OTHER -> "running"

\* Completed needs the whole canonical output.
VerifiedAnyOutput(a) == a.is = "run"
Verified(a) == a.is = "run" /\ (a.status = "completed" => a.out = "final")

\* The newest pairs that fit both bounds, counted from the newest.
Bytes(h) == LET total[i \in 0..Len(h)] ==
                  IF i = 0 THEN 0 ELSE total[i-1] + Size[h[i].run]
            IN total[Len(h)]
Fits(h, i) ==
  Len(h) - i < MaxPairs /\ Bytes(SubSeq(h, i, Len(h))) <= MaxBytes
BoundedHistory(h) ==
  LET kept == {i \in 1..Len(h) : Fits(h, i)}
  IN SubSeq(h, Len(h) + 1 - Cardinality(kept), Len(h))

\* The elements of s at the positions K, in their order.
Nth(K, i) == CHOOSE k \in K : Cardinality({j \in K : j <= k}) = i
Pick(s, K) == [i \in 1..Cardinality(K) |-> s[Nth(K, i)]]

\* The session of a run, which the view shows with the run.
SessionOf(r) == IF r = NoAsk THEN NoAsk ELSE runs[r].session

MakeCall(op, e, tag, r, req) ==
  [op |-> op, epoch |-> e, selection |-> selection, tag |-> tag, run |-> r,
   req |-> req, ans |-> Pending]
Dispatch(c) == calls' = calls \cup {c}
Replace(c, d) == calls' = (calls \ {c}) \cup {d}
Settle(c) == calls' = calls \ {c}

\* reset(): a new epoch, no stream, and the view empty or submitting.
ResetEpochs == epoch' = epoch + 1 /\ streamEpoch' = streamEpoch + 1
ResetView(phase, r) ==
  /\ ResetEpochs /\ UNCHANGED checkEpoch
  /\ sub' = NoSub
  /\ view' = [phase |-> phase, run |-> r, out |-> "none"]
ForgetConversation ==
  /\ request' = NoRequest
  /\ confirmed' = << >> /\ confirmedRun' = NoAsk /\ limited' = FALSE

Allowed(op) == op \in UserOps /\ epoch < MaxEpoch

----------------------------------------------------------------------------
(* User operations, up to their first await *)

SendableEvenInterrupted == {"idle", "completed", "canceled", "interrupted"}
Sendable == {"idle", "completed", "canceled"}

\* An unfinished reply is missing from the context of the next message.
UnfinishedReply == view.phase = "canceled"

\* send(): only after a resolved turn; the prompt is the bounded confirmed
\* history and the new message, in the session of the turn before it.
Send ==
  /\ Allowed("send")
  /\ view.phase \in Sendable
  /\ \E k \in Asks \ used :
       LET kept == BoundedHistory(confirmed)
           req == [key |-> k, ctx |-> kept,
                   session |-> IF view.phase = "idle" THEN NoAsk
                               ELSE SessionOf(view.run)]
       IN /\ used' = used \cup {k}
          /\ request' = req
          /\ confirmed' = kept
          /\ Dispatch(MakeCall("create", epoch + 1, 0, NoAsk, req))
  /\ limited' = (limited \/ UnfinishedReply)
  /\ ResetView("submitting", NoAsk)
  /\ UNCHANGED <<owner, selection, confirmedRun>>

\* retrySubmission(): the same request, with the same key, in the same epoch.
RetrySubmission ==
  /\ "retry" \in UserOps
  /\ view.phase = "interrupted" /\ view.run = NoAsk /\ request # NoRequest
  /\ view' = [view EXCEPT !.phase = "submitting"]
  /\ Dispatch(MakeCall("create", epoch, 0, NoAsk, request))
  /\ UNCHANGED <<owner, selection, epochs, request, context, sub, used>>

\* reconnect(): the epoch stays, the stream goes.
Reconnect ==
  /\ "reconnect" \in UserOps /\ streamEpoch < MaxStreams
  /\ view.phase = "interrupted" /\ view.run # NoAsk
  /\ streamEpoch' = streamEpoch + 1 /\ sub' = NoSub
  /\ view' = [view EXCEPT !.phase = "submitting", !.out = "none"]
  /\ Dispatch(MakeCall("reconnect", epoch, streamEpoch', view.run, NoRequest))
  /\ UNCHANGED <<owner, selection, epoch, checkEpoch, request, context, used>>

\* stop() and checkpoint(): a new epoch, then the control POST.
Control(op, call, phases) ==
  /\ Allowed(op)
  /\ view.phase \in phases /\ view.run # NoAsk
  /\ ResetView("submitting", view.run)
  /\ Dispatch(MakeCall(call, epoch + 1, 0, view.run, NoRequest))
  /\ UNCHANGED <<owner, selection, request, context, used>>

Stop == Control("stop", "cancel", {"running", "paused", "recovery-required"})
Pause == Control("pause", "pause", {"running"})
Resume == Control("resume", "resume", {"paused", "recovery-required"})

\* refreshStatus(): any phase of a known run; the newest check wins.  The
\* application keeps the button disabled while the view is submitting.
CheckOffered == CheckInFlight \/ view.phase # "submitting"
RefreshStatus ==
  /\ "check" \in UserOps /\ checkEpoch < MaxChecks
  /\ view.run # NoAsk /\ CheckOffered
  /\ checkEpoch' = checkEpoch + 1
  /\ Dispatch(MakeCall("refresh", epoch, checkEpoch', view.run, NoRequest))
  /\ UNCHANGED <<owner, selection, epoch, streamEpoch, view, request, context, sub, used>>

\* retarget(): the client selects a workspace, the controller starts over.
Retarget ==
  /\ Allowed("retarget")
  /\ selection' = selection + 1
  /\ ResetView("idle", NoAsk) /\ ForgetConversation
  /\ UNCHANGED <<owner, used, calls>>

\* close(): like reset, but the stream epoch stays.
SameEpochAfterClose == epoch
EpochAfterClose == epoch + 1
Close ==
  /\ Allowed("close")
  /\ epoch' = EpochAfterClose /\ UNCHANGED <<streamEpoch, checkEpoch>>
  /\ sub' = NoSub
  /\ view' = [phase |-> "idle", run |-> NoAsk, out |-> "none"]
  /\ ForgetConversation
  /\ UNCHANGED <<owner, selection, used, calls>>

\* openSession() of a session of the history, recover() of a run ID.
Load(name, op) ==
  /\ Allowed(name)
  /\ \E r \in {log[i] : i \in 1..Len(log)} :
       /\ op = "open" => runs[r].session = r
       /\ Dispatch(MakeCall(op, epoch + 1, 0, r, NoRequest))
  /\ ResetView("submitting", NoAsk) /\ ForgetConversation
  /\ UNCHANGED <<owner, selection, used>>

OpenSession == Load("open", "open")
Recover == Load("recover", "recover")

----------------------------------------------------------------------------
(* The owner and the network *)

Snapshot(f, r) == [is |-> "run", status |-> f[r].status, out |-> f[r].out, rows |-> << >>]
Refused == [Pending EXCEPT !.is = "refused"]
Lost == [Pending EXCEPT !.is = "lost"]
RowOf(f, r) == [run |-> r, status |-> f[r].status, out |-> f[r].out]
Rows(s) ==
  LET mine == Pick(log, {i \in 1..Len(log) : runs[log[i]].session = s})
  IN [Pending EXCEPT !.is = "rows", !.rows = [i \in 1..Len(mine) |-> RowOf(runs, mine[i])]]
Reply(c, a) == Replace(c, [c EXCEPT !.ans = a])
controller == <<selection, epochs, view, request, context, sub, used>>

\* run.create is idempotent in the key.
OwnerCreates(c) ==
  LET k == c.req.key
      fresh == [status |-> "running", out |-> "none",
                session |-> IF c.req.session = NoAsk THEN k ELSE c.req.session]
      after == IF runs[k] = NoRun THEN [runs EXCEPT ![k] = fresh] ELSE runs
  IN /\ c.op = "create" /\ c.ans = Pending
     /\ runs' = after
     /\ log' = IF runs[k] = NoRun THEN Append(log, k) ELSE log
     /\ Reply(c, Snapshot(after, k))
     /\ UNCHANGED controller

OwnerReads(c) ==
  /\ c.op \in GetOps \cup {"open"} /\ c.ans = Pending
  /\ Reply(c, IF c.op = "open" THEN Rows(c.run) ELSE Snapshot(runs, c.run))
  /\ UNCHANGED <<owner, controller>>

\* Cancel needs a live run, pause a running one, resume a paused one.
Controllable(op, s) ==
  CASE op = "cancel" -> s \in LiveStatus
    [] op = "pause" -> s = "running"
    [] OTHER -> s \in LiveStatus \ {"running"}
Controlled(op) ==
  CASE op = "cancel" -> "canceled" [] op = "pause" -> "paused" [] OTHER -> "running"

\* A control may also be acknowledged before it shows in the status.
OwnerControls(c) ==
  /\ c.op \in ControlOps /\ c.ans = Pending
  /\ \/ /\ Controllable(c.op, runs[c.run].status)
        /\ \E s \in {runs[c.run].status, Controlled(c.op)} :
             /\ runs' = [runs EXCEPT ![c.run].status = s]
             /\ Reply(c, Snapshot(runs', c.run))
     \/ /\ ~Controllable(c.op, runs[c.run].status)
        /\ Reply(c, Refused) /\ UNCHANGED runs
  /\ UNCHANGED <<log, controller>>

\* The run goes on by itself or under another client's control; the output
\* of a completed run may be projected after its status.
OwnerMoves(r) ==
  /\ \/ /\ runs[r].status \in LiveStatus
        /\ \E s \in LiveStatus \cup FinalStatus, o \in Output :
             /\ s # runs[r].status
             /\ s # "completed" => o = "none"
             /\ runs[r].status # "running" => s \in {"running", "canceled"}
             /\ runs' = [runs EXCEPT ![r].status = s, ![r].out = o]
     \/ /\ runs[r].status = "completed" /\ runs[r].out = "none"
        /\ runs' = [runs EXCEPT ![r].out = "final"]
  /\ UNCHANGED <<log, controller, calls>>

\* A timeout, an unreachable host: before or after the owner's effect.
NetworkLoses(c) ==
  /\ c.ans # Lost
  /\ Reply(c, Lost)
  /\ UNCHANGED <<owner, controller>>

----------------------------------------------------------------------------
(* Continuations: what the controller does with an answer *)

\* valid(): the epoch and the selection are those of the call.
ValidSelectionOnly(c) == c.selection = selection
Valid(c) == c.epoch = epoch /\ c.selection = selection

\* The checks between an await and its use.  A reconnect or a reconcile also
\* yields to a terminal phase that another call has verified meanwhile.
SameRun(c) == c.run # NoAsk /\ c.op \notin {"open", "recover"} => view.run = c.run
NewestCheck(c) == c.op = "refresh" => c.tag = checkEpoch
YieldsNever(c) == TRUE
Yields(c) == c.op \in {"reconnect", "reconcile"} => view.phase \notin Terminal
Fresh(c) == Valid(c) /\ SameRun(c) /\ NewestCheck(c) /\ Yields(c)

\* subscribe(): a new stream epoch, in the epoch of the call.
NewSub(r, stream) ==
  [run |-> r, stream |-> stream, epoch |-> epoch, selection |-> selection]
SubscribeBehind(r) == streamEpoch' = streamEpoch + 1 /\ sub' = NewSub(r, streamEpoch)
Subscribe(r) == streamEpoch' = streamEpoch + 1 /\ sub' = NewSub(r, streamEpoch + 1)
SameStream == UNCHANGED <<streamEpoch, sub>>
DropStream == streamEpoch' = streamEpoch + 1 /\ sub' = NoSub

\* confirmCanonicalOutput(): the canonical answer to the active request
\* becomes a turn, once; the context is bounded again.
Confirms(r, a) ==
  /\ a.status = "completed" /\ a.out = "final"
  /\ request # NoRequest /\ confirmedRun # r
Confirm(r, a) ==
  IF Confirms(r, a)
  THEN LET kept == BoundedHistory(Append(confirmed, [ask |-> request.key, run |-> r]))
       IN /\ confirmedRun' = r /\ confirmed' = kept
          /\ limited' = (limited \/ Len(kept) < Len(confirmed) + 1)
  ELSE UNCHANGED context

Shown(r, a) == [phase |-> PhaseOf(a.status), run |-> r,
                out |-> IF a.status = "completed" THEN "final" ELSE "none"]
Interrupted == [view EXCEPT !.phase = "interrupted"]
InterruptedEmpty == [view EXCEPT !.phase = "interrupted", !.out = "none"]

\* A late answer that fails its checks changes nothing.
Discard(c) ==
  /\ c.ans # Pending /\ c.ans # Refused /\ ~Fresh(c)
  /\ Settle(c)
  /\ UNCHANGED <<owner, controller>>

\* submit(): a completed run is read back before it is shown as completed.
CreateSettles(c) ==
  /\ c.op = "create" /\ c.ans # Pending /\ Fresh(c)
  /\ LET a == c.ans  r == c.req.key IN
     \/ /\ a = Lost /\ Settle(c)
        /\ view' = Interrupted /\ SameStream
     \/ /\ a.is = "run" /\ a.status = "completed"
        /\ view' = [phase |-> "running", run |-> r, out |-> "none"]
        /\ DropStream
        /\ Replace(c, MakeCall("reconcile", epoch, streamEpoch + 1, r, NoRequest))
     \/ /\ a.is = "run" /\ a.status # "completed" /\ Settle(c)
        /\ view' = Shown(r, a)
        /\ IF PhaseOf(a.status) \in Terminal THEN SameStream ELSE Subscribe(r)
  /\ UNCHANGED <<owner, selection, epoch, checkEpoch, request, context, used>>

\* reconnect(), stop(), checkpoint() and the readback after a refusal: show
\* the verified answer, and subscribe again when the run is running.
RunSettles(c) ==
  /\ c.op \in ControlOps \cup {"reconnect", "readback"}
  /\ c.ans.is \in {"run", "lost"} /\ Fresh(c) /\ Settle(c)
  /\ IF Verified(c.ans)
     THEN /\ Confirm(c.run, c.ans)
          /\ view' = Shown(c.run, c.ans)
          /\ IF PhaseOf(c.ans.status) = "running" THEN Subscribe(c.run) ELSE SameStream
     ELSE view' = Interrupted /\ UNCHANGED context /\ SameStream
  /\ UNCHANGED <<owner, selection, epoch, checkEpoch, request, used>>

\* A refused control is never sent again: the owner's state is read instead,
\* whatever became of the view (a new selection fails the call itself).
Readback(c) ==
  IF c.selection = selection
  THEN Replace(c, MakeCall("readback", c.epoch, 0, c.run, NoRequest))
  ELSE Settle(c)
ControlRefused(c) ==
  /\ c.ans = Refused
  /\ Readback(c)
  /\ UNCHANGED <<owner, controller>>

\* refreshStatus(): a running view keeps its stream, a terminal one is not
\* downgraded by a live status; a missing or truncated output interrupts.
RefreshSettles(c) ==
  /\ c.op = "refresh" /\ c.ans # Pending /\ Fresh(c) /\ Settle(c)
  /\ LET a == c.ans  p == PhaseOf(a.status) IN
     \/ /\ a = Lost
        /\ UNCHANGED <<view, context>> /\ SameStream
     \/ /\ a.is = "run" /\ ~Verified(a)
        /\ view' = InterruptedEmpty /\ DropStream /\ UNCHANGED context
     \/ /\ Verified(a) /\ view.phase \in Terminal /\ p \notin Terminal
        /\ UNCHANGED <<view, context>> /\ SameStream
     \/ /\ Verified(a) /\ ~(view.phase \in Terminal /\ p \notin Terminal)
        /\ Confirm(c.run, a)
        /\ IF p = "running" /\ view.phase = "running"
           THEN UNCHANGED view /\ SameStream
           ELSE /\ view' = Shown(c.run, a)
                /\ IF p = "running"
                   THEN /\ streamEpoch' = streamEpoch + 2
                        /\ sub' = NewSub(c.run, streamEpoch + 2)
                   ELSE DropStream
  /\ UNCHANGED <<owner, selection, epoch, checkEpoch, request, used>>

\* reconcile(): the owner's final answer, or interrupted; never "running"
\* with its stream gone.
FinalWhenVerified(a) == Verified(a)
Final(a) == Verified(a) /\ PhaseOf(a.status) \in Terminal
ReconcileSettles(c) ==
  /\ c.op = "reconcile" /\ c.ans # Pending /\ Fresh(c) /\ Settle(c)
  /\ LET a == c.ans IN
     IF Final(a)
     THEN Confirm(c.run, a) /\ view' = Shown(c.run, a)
     ELSE view' = InterruptedEmpty /\ UNCHANGED context
  /\ UNCHANGED <<owner, selection, epochs, request, sub, used>>

\* recover(): the run's own session, its earlier context unknown.
RecoverSettles(c) ==
  /\ c.op = "recover" /\ c.ans # Pending /\ Fresh(c) /\ Settle(c)
  /\ IF Verified(c.ans)
     THEN /\ limited' = TRUE
          /\ view' = Shown(c.run, c.ans)
          /\ IF PhaseOf(c.ans.status) = "running" THEN Subscribe(c.run) ELSE SameStream
     ELSE view' = Interrupted /\ UNCHANGED limited /\ SameStream
  /\ UNCHANGED <<owner, selection, epoch, checkEpoch, request, confirmed,
                 confirmedRun, used>>

\* openSession(): whole rows of completed runs become turns, the newest row
\* decides whether the conversation may go on.
RowFits(row) == row.out = "final" /\ Size[row.run] <= RowBytes
WholeStatusOnly(row) == row.status = "completed" /\ Size[row.run] <= RowBytes
Whole(row) == row.status = "completed" /\ RowFits(row)
NewestPairs(h) ==
  SubSeq(h, IF Len(h) > MaxPairs THEN Len(h) + 1 - MaxPairs ELSE 1, Len(h))

OpenSettles(c) ==
  /\ c.op = "open" /\ c.ans # Pending /\ Fresh(c) /\ Settle(c)
  /\ \/ /\ c.ans = Lost
        /\ view' = Interrupted /\ UNCHANGED context
     \/ /\ c.ans.is = "rows"
        /\ LET rows == c.ans.rows
               whole == Pick(rows, {i \in 1..Len(rows) : Whole(rows[i])})
               history == [i \in 1..Len(whole) |->
                             [ask |-> whole[i].run, run |-> whole[i].run]]
               newest == rows[Len(rows)]
           IN /\ confirmed' = NewestPairs(history)
              /\ limited' = (Len(whole) < Len(rows) \/ Len(whole) > MaxPairs)
              /\ confirmedRun' = IF Whole(newest) THEN newest.run ELSE NoAsk
              /\ view' = [run |-> newest.run,
                          phase |-> IF Whole(newest) THEN "completed" ELSE "recovery-required",
                          out |-> IF Whole(newest) THEN "final" ELSE "none"]
  /\ UNCHANGED <<owner, selection, epochs, request, sub, used>>

----------------------------------------------------------------------------
(* Callbacks of the event stream *)

\* The guard of both callbacks.
Heard ==
  /\ sub.stream = streamEpoch /\ sub.epoch = epoch /\ sub.selection = selection
  /\ view.run = sub.run /\ view.phase \notin Terminal

\* Replayed or fresh text; a delta before its resume marker is not shown.
StreamDelta ==
  /\ sub # NoSub /\ Heard
  /\ view.out # "partial"
  /\ view' = [view EXCEPT !.out = "partial"]
  /\ UNCHANGED <<owner, selection, epochs, request, context, sub, used, calls>>

\* A terminal event is a notification, which the owner's status may lag
\* behind: read the owner's answer.
StreamTerminal ==
  /\ sub # NoSub /\ Heard
  /\ StatusLags \/ runs[sub.run].status \in FinalStatus
  /\ DropStream
  /\ Dispatch(MakeCall("reconcile", epoch, streamEpoch + 1, sub.run, NoRequest))
  /\ UNCHANGED <<owner, selection, epoch, checkEpoch, view, request, context, used>>

\* The socket closes, fails or is refused; reported once.
StreamInterrupted ==
  /\ sub # NoSub
  /\ IF Heard THEN view' = Interrupted /\ DropStream
     ELSE sub' = NoSub /\ UNCHANGED <<view, streamEpoch>>
  /\ UNCHANGED <<owner, selection, epoch, checkEpoch, request, context, used, calls>>
----------------------------------------------------------------------------
Init ==
  /\ runs = [k \in Asks |-> NoRun] /\ log = << >>
  /\ selection = 0 /\ epoch = 0 /\ streamEpoch = 0 /\ checkEpoch = 0
  /\ view = [phase |-> "idle", run |-> NoAsk, out |-> "none"]
  /\ request = NoRequest
  /\ confirmed = << >> /\ confirmedRun = NoAsk /\ limited = FALSE
  /\ sub = NoSub /\ used = {} /\ calls = {}

UserNext ==
  \/ Send \/ RetrySubmission \/ Reconnect \/ RefreshStatus
  \/ Stop \/ Pause \/ Resume
  \/ Retarget \/ Close \/ OpenSession \/ Recover

Answers(c) == OwnerCreates(c) \/ OwnerReads(c) \/ OwnerControls(c) \/ NetworkLoses(c)

Continues(c) ==
  \/ Discard(c) \/ CreateSettles(c) \/ RunSettles(c) \/ ControlRefused(c)
  \/ RefreshSettles(c) \/ ReconcileSettles(c) \/ RecoverSettles(c) \/ OpenSettles(c)

StreamNext == StreamDelta \/ StreamTerminal \/ StreamInterrupted

Next ==
  \/ UserNext
  \/ \E c \in calls : Answers(c) \/ Continues(c)
  \/ \E r \in Asks : OwnerMoves(r)
  \/ StreamNext

Spec == Init /\ [][Next]_vars

\* Every call is answered or times out, its continuation runs, and the stream
\* of a run that has ended delivers the terminal event or breaks.
StreamEnds ==
  /\ sub # NoSub /\ runs[sub.run].status \in FinalStatus
  /\ StreamTerminal \/ StreamInterrupted
Fairness ==
  /\ WF_vars(\E c \in calls : c.ans = Pending /\ Answers(c))
  /\ WF_vars(\E c \in calls : Continues(c))
  /\ WF_vars(StreamEnds)

FairSpec == Spec /\ Fairness
=============================================================================
