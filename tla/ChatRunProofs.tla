--------------------------- MODULE ChatRunProofs ---------------------------
(***************************************************************************)
(* Theorems of ChatRun, for every set of messages, every size of message,  *)
(* every bound on the context and every bound on the counters.             *)
(*                                                                         *)
(* The argument: an answer in flight tells the truth about what cannot     *)
(* change any more (a final status, a projected output), whenever it was   *)
(* given and however late it arrives; and a call that belongs to the       *)
(* epoch of an idle view does not exist (IInv).  On it rest what is told   *)
(* of a running view, of an outcome (KeptInv) and of the turns (TurnsInv). *)
(***************************************************************************)
EXTENDS ChatRunProps, Integers, FiniteSetTheorems, SequenceTheorems, WellFoundedInduction, TLAPS

----------------------------------------------------------------------------
(* The inductive invariant *)

\* Calls name a run or a key, and an opened session has a first run.
CallsWell ==
  \A c \in calls :
    /\ c.epoch <= epoch
    /\ c.op = "create" => c.req.key \in Asks
    /\ c.op # "create" => c.run \in Asks
    /\ c.op = "open" => \E i \in 1..Len(log) : log[i] = c.run /\ runs[c.run].session = c.run
    /\ c.ans.is = "rows" => c.ans.rows # << >>
    /\ c.ans.is = "refused" => c.op \in ControlOps

RequestWell == request # NoRequest => request.key \in Asks
SubWell == sub # NoSub => sub.run \in Asks

\* What an answer says of a run that has ended is so for ever.
Truthful(r, a) ==
  /\ a.status \in FinalStatus => runs[r].status = a.status
  /\ a.status = "completed" /\ a.out = "final" => runs[r].out = "final"
Subject(c) == IF c.op = "create" THEN c.req.key ELSE c.run
CallsTrue ==
  \A c \in calls :
    /\ c.ans.is = "run" => Truthful(Subject(c), c.ans)
    /\ \A i \in 1..Len(c.ans.rows) : Truthful(c.ans.rows[i].run, c.ans.rows[i])

\* The calls of the present epoch serve the present request.
CallsOwn ==
  \A c \in calls : c.epoch = epoch =>
    /\ c.op = "create" => c.req = request
    /\ c.op \in {"open", "recover"} => request = NoRequest

\* An idle view has no stream and no call of its epoch.
IdleAlone ==
  view.phase = "idle" =>
    /\ view.run = NoAsk /\ sub = NoSub
    /\ \A c \in calls : c.epoch < epoch

IInv ==
  /\ TypeOK /\ CallsWell /\ RequestWell /\ SubWell
  /\ CallsTrue /\ CallsOwn /\ IdleAlone
  /\ VerifiedOutcome /\ OwnRunShown

----------------------------------------------------------------------------
(* Lemmas about the helpers *)

\* A set of positions of a sequence has a cardinality within its length.
LEMMA PositionsFinite ==
  ASSUME NEW n \in Nat, NEW K \in SUBSET (1..n)
  PROVE  IsFiniteSet(K) /\ Cardinality(K) \in 0..n
<1>1. IsFiniteSet(1..n) /\ Cardinality(1..n) = n
  BY FS_Interval
<1>2. IsFiniteSet(K) /\ Cardinality(K) <= n
  BY <1>1, FS_Subset
<1> QED
  BY <1>2, FS_CardinalityType

\* A set of naturals has a smallest element.
LEMMA Smallest ==
  ASSUME NEW T \in SUBSET Nat, T # {}
  PROVE  \E m \in T : \A q \in T : m <= q
<1> DEFINE R == OpToRel(<, Nat)
<1>1. IsWellFoundedOn(R, Nat)
  BY NatLessThanWellFounded
<1>2. \A x, y \in Nat : y < x => <<y, x>> \in R
  BY DEF OpToRel
<1> HIDE DEF R
<1>3. PICK m \in T : \A q \in T : ~ (<<q, m>> \in R)
  BY <1>1, WFMin
<1>4. \A q \in T : m \in Nat /\ q \in Nat /\ ~ (q < m)
  BY <1>2, <1>3
<1> QED
  BY <1>4

\* Nth finds an element, the last of i elements of K: the smallest bound below
\* which K has i elements.
LEMMA NthIn ==
  ASSUME NEW n \in Nat, NEW K \in SUBSET (1..n), NEW i \in 1..Cardinality(K)
  PROVE  Nth(K, i) \in K /\ Cardinality({j \in K : j <= Nth(K, i)}) = i
<1> DEFINE Below(m) == {j \in K : j <= m}
<1> DEFINE Enough == {m \in Nat : Cardinality(Below(m)) >= i}
<1>0. i \in Nat /\ i >= 1 /\ \A j \in K : j \in Nat /\ j >= 1 /\ j <= n
  BY PositionsFinite
<1>1. ASSUME NEW m \in Nat
      PROVE  IsFiniteSet(Below(m)) /\ Cardinality(Below(m)) \in Nat
  <2>1. Below(m) \in SUBSET (1..n)
    OBVIOUS
  <2> QED
    BY <2>1, PositionsFinite
<1>2. n \in Enough
  <2>1. \A j \in K : j <= n
    OBVIOUS
  <2>2. Below(n) = K
    BY <2>1
  <2> QED
    BY <2>2, PositionsFinite
<1>3. PICK m \in Enough : \A q \in Enough : m <= q
  <2>1. Enough \in SUBSET Nat /\ Enough # {}
    BY <1>2
  <2> HIDE DEF Enough
  <2> QED
    BY <2>1, Smallest
<1>4. m \in Nat /\ Cardinality(Below(m)) >= i
  BY <1>3
<1>5. m # 0
  <2>0. \A j \in K : ~(j <= 0)
    BY <1>0
  <2>1. Below(0) = {}
    BY <2>0
  <2>2. Cardinality(Below(0)) = 0
    BY <2>1, FS_EmptySet
  <2> QED
    BY <2>2, <1>4, <1>0
<1>6. m - 1 \in Nat /\ ~(Cardinality(Below(m - 1)) >= i)
  <2>1. m - 1 \in Nat /\ ~(m <= m - 1)
    BY <1>4, <1>5
  <2> QED
    BY <2>1, <1>3
<1>7. \A j \in K : j <= m <=> j <= m - 1 \/ j = m
  BY <1>4
<1>8. m \in K
  <2>1. CASE m \notin K
    <3>1. Below(m) = Below(m - 1)
      BY <2>1, <1>7
    <3> QED
      BY <3>1, <1>4, <1>6
  <2> QED
    BY <2>1
<1>9. Below(m) = Below(m - 1) \cup {m}
  BY <1>7, <1>8, <1>4
<1>10. m \notin Below(m - 1)
  BY <1>4
<1>11. Cardinality(Below(m)) = Cardinality(Below(m - 1)) + 1
  BY <1>9, <1>10, <1>1, <1>6, FS_AddElement
<1>12. Cardinality(Below(m)) \in Nat /\ Cardinality(Below(m - 1)) \in Nat
  BY <1>1, <1>4, <1>6
<1>13. Cardinality(Below(m)) = i
  <2> HIDE DEF Below
  <2> QED
    BY <1>11, <1>12, <1>6, <1>4, <1>0
<1> QED
  BY <1>8, <1>13 DEF Nth

\* Pick takes elements of the sequence, one for each position.
LEMMA PickElements ==
  ASSUME NEW S, NEW s \in Seq(S), NEW K \in SUBSET (1..Len(s))
  PROVE  /\ Pick(s, K) \in Seq(S)
         /\ Len(Pick(s, K)) = Cardinality(K)
         /\ \A i \in 1..Len(Pick(s, K)) : \E k \in K : Pick(s, K)[i] = s[k]
<1>1. Len(s) \in Nat
  OBVIOUS
<1>2. Cardinality(K) \in Nat
  BY <1>1, PositionsFinite
<1>3. \A i \in 1..Cardinality(K) : Nth(K, i) \in K
  BY <1>1, NthIn
<1>4. \A k \in K : s[k] \in S
  BY ElementOfSeq
<1>5. \A i \in 1..Cardinality(K) : s[Nth(K, i)] \in S
  BY <1>3, <1>4
<1>6. Pick(s, K) \in [1..Cardinality(K) -> S]
  BY <1>5 DEF Pick
<1>7. Pick(s, K) \in Seq(S) /\ Len(Pick(s, K)) = Cardinality(K)
  BY <1>2, <1>6
<1>8. \A i \in 1..Cardinality(K) : Pick(s, K)[i] = s[Nth(K, i)]
  BY DEF Pick
<1> QED
  BY <1>3, <1>7, <1>8

\* A bounded history is a history.
LEMMA BoundedHistoryType ==
  ASSUME NEW h \in Seq(Pair)
  PROVE  BoundedHistory(h) \in Seq(Pair)
<1> DEFINE kept == {i \in 1..Len(h) : Fits(h, i)}
<1> DEFINE first == Len(h) + 1 - Cardinality(kept)
<1>1. Len(h) \in Nat /\ Cardinality(kept) \in 0..Len(h)
  BY PositionsFinite
<1>2. first \in Int /\ first >= 1
  <2> HIDE DEF kept
  <2> QED
    BY <1>1
<1>3. \A i \in 1..Len(h) : h[i] \in Pair
  BY ElementOfSeq
<1>4. SubSeq(h, first, Len(h)) \in Seq(Pair)
  <2> HIDE DEF first
  <2> QED
    BY <1>1, <1>2, <1>3, SubSeqProperties
<1> QED
  BY <1>4 DEF BoundedHistory

----------------------------------------------------------------------------
(* Lemmas about calls, answers and views *)

LEMMA AnswerTypes ==
  /\ Pending \in Answer /\ Lost \in Answer /\ Refused \in Answer
  /\ NoRequest \in Request /\ NoRun \in Run /\ NoSub \in Sub
<1>1. Pending \in Answer
  BY DEF Pending, Answer, Status, Output
<1>2. Lost \in Answer /\ Refused \in Answer
  BY <1>1 DEF Lost, Refused, Answer
<1>3. NoRequest \in Request /\ NoSub \in Sub
  BY DEF NoRequest, Request, NoSub, Sub, Asks0
<1>4. NoRun \in Run
  BY DEF NoRun, Run, Status, Output, Asks0
<1> QED
  BY <1>1, <1>2, <1>3, <1>4

LEMMA SnapshotType ==
  ASSUME NEW f \in [Asks -> Run], NEW r \in Asks
  PROVE  /\ Snapshot(f, r) \in Answer /\ Snapshot(f, r).is = "run"
         /\ Snapshot(f, r).status = f[r].status /\ Snapshot(f, r).out = f[r].out
         /\ Snapshot(f, r).rows = << >>
BY DEF Snapshot, Answer, Run

LEMMA MakeCallType ==
  ASSUME TypeOK, NEW op \in {"create", "open"} \cup GetOps \cup ControlOps,
         NEW e \in Nat, NEW tag \in Nat, NEW r \in Asks0, NEW req \in Request
  PROVE  MakeCall(op, e, tag, r, req) \in Call
BY AnswerTypes DEF MakeCall, Call, TypeOK

LEMMA ReplyType ==
  ASSUME NEW c \in Call, NEW a \in Answer
  PROVE  /\ [c EXCEPT !.ans = a] \in Call
         /\ [c EXCEPT !.ans = a].ans = a
         /\ \A f \in {"op", "epoch", "selection", "tag", "run", "req"} :
              [c EXCEPT !.ans = a][f] = c[f]
BY DEF Call

LEMMA RowsType ==
  ASSUME TypeOK, NEW s \in Asks0
  PROVE  /\ Rows(s) \in Answer /\ Rows(s).is = "rows"
         /\ \A i \in 1..Len(Rows(s).rows) : \E r \in Asks : Rows(s).rows[i] = RowOf(runs, r)
         /\ (\E i \in 1..Len(log) : runs[log[i]].session = s) => Rows(s).rows # << >>
<1> DEFINE K == {i \in 1..Len(log) : runs[log[i]].session = s}
<1> DEFINE mine == Pick(log, K)
<1> DEFINE rows == [i \in 1..Len(mine) |-> RowOf(runs, mine[i])]
<1>1. log \in Seq(Asks) /\ runs \in [Asks -> Run]
  BY DEF TypeOK
<1>2. mine \in Seq(Asks) /\ Len(mine) = Cardinality(K)
  BY <1>1, PickElements
<1>3. \A r \in Asks : RowOf(runs, r) \in Row
  BY <1>1 DEF RowOf, Row, Run
<1> HIDE DEF mine
<1>4. \A i \in 1..Len(mine) : mine[i] \in Asks
  BY <1>2, ElementOfSeq
<1>5. rows \in Seq(Row) /\ Len(rows) = Len(mine)
  BY <1>2, <1>3, <1>4
<1>6. Rows(s) = [Pending EXCEPT !.is = "rows", !.rows = rows]
  BY DEF Rows, mine
<1>7. K # {} => Cardinality(K) # 0
  <2>1. Len(log) \in Nat
    BY <1>1
  <2>2. IsFiniteSet(K)
    BY <2>1, PositionsFinite
  <2> QED
    BY <2>2, FS_EmptySet
<1>8. K # {} => rows # << >>
  BY <1>7, <1>5, <1>2
<1>9. \A i \in 1..Len(rows) : \E r \in Asks : rows[i] = RowOf(runs, r)
  BY <1>4, <1>5
<1> HIDE DEF rows
<1>10. Rows(s) \in Answer /\ Rows(s).is = "rows" /\ Rows(s).rows = rows
  BY <1>5, <1>6 DEF Pending, Answer, Status, Output
<1> QED
  BY <1>8, <1>9, <1>10

LEMMA ShownType ==
  ASSUME NEW r \in Asks, NEW a \in Answer
  PROVE  Shown(r, a) \in View
BY DEF Shown, View, PhaseOf, Phase, Asks0

----------------------------------------------------------------------------
(* Every step keeps the types *)

\* The parts of a state that the user's operations and the continuations
\* replace, each of its type.
LEMMA TypeStep ==
  ASSUME IInv, [Next]_vars
  PROVE  TypeOK'
<1> USE DEF epochs, context, owner, controller, ResetEpochs
<1>0. /\ runs \in [Asks -> Run] /\ log \in Seq(Asks)
      /\ selection \in Nat /\ epoch \in Nat /\ streamEpoch \in Nat /\ checkEpoch \in Nat
      /\ view \in View /\ request \in Request
      /\ confirmed \in Seq(Pair) /\ confirmedRun \in Asks0 /\ limited \in BOOLEAN
      /\ sub \in Sub /\ used \in SUBSET Asks /\ calls \in SUBSET Call
      /\ TypeOK
  BY DEF IInv, TypeOK
<1>1. view.phase \in Phase /\ view.run \in Asks0 /\ view.out \in {"none", "partial", "final"}
  BY <1>0 DEF View
<1>2. \A phase \in Phase, r \in Asks0 :
        [phase |-> phase, run |-> r, out |-> "none"] \in View
  BY DEF View
<1>3. NoAsk \in Asks0 /\ Asks \subseteq Asks0
  BY DEF Asks0
<1> DEFINE ResetTypes == /\ epoch' \in Nat /\ streamEpoch' \in Nat /\ checkEpoch' \in Nat
                         /\ sub' \in Sub /\ view' \in View
<1> DEFINE ForgetTypes == /\ request' \in Request /\ confirmed' \in Seq(Pair)
                          /\ confirmedRun' \in Asks0 /\ limited' \in BOOLEAN
<1>R. \A phase \in Phase, r \in Asks0 : ResetView(phase, r) => ResetTypes
  BY <1>0, <1>2, AnswerTypes DEF ResetView
<1>F. ForgetConversation => ForgetTypes
  <2>1. << >> \in Seq(Pair)
    OBVIOUS
  <2> QED
    BY <2>1, <1>3, AnswerTypes DEF ForgetConversation
<1>4. CASE Send
  <2> DEFINE Req(k) == [key |-> k, ctx |-> BoundedHistory(confirmed),
                        session |-> IF view.phase = "idle" THEN NoAsk ELSE SessionOf(view.run)]
  <2>1. PICK k \in Asks \ used :
          /\ used' = used \cup {k} /\ request' = Req(k)
          /\ confirmed' = BoundedHistory(confirmed)
          /\ calls' = calls \cup {MakeCall("create", epoch + 1, 0, NoAsk, Req(k))}
    BY <1>4 DEF Send, Dispatch
  <2>2. confirmed' \in Seq(Pair)
    BY <2>1, <1>0, BoundedHistoryType
  <2>3. SessionOf(view.run) \in Asks0
    BY <1>0, <1>1, <1>3 DEF SessionOf, Run, Asks0
  <2>4. Req(k) \in Request
    BY <2>1, <2>2, <2>3, <1>3 DEF Request
  <2>5. MakeCall("create", epoch + 1, 0, NoAsk, Req(k)) \in Call
    BY <2>4, <1>0, <1>3, MakeCallType
  <2>6. view' \in View /\ sub' \in Sub
    BY <1>4, <1>2, <1>3, AnswerTypes DEF Send, ResetView, Phase
  <2> QED
    BY <2>1, <2>2, <2>4, <2>5, <2>6, <1>0, <1>4, <1>3
    DEF Send, ResetView, TypeOK, UnfinishedReply
<1>5. CASE RetrySubmission
  <2>1. view' \in View
    BY <1>0, <1>5 DEF RetrySubmission, View, Phase
  <2>2. MakeCall("create", epoch, 0, NoAsk, request) \in Call
    BY <1>0, <1>3, MakeCallType
  <2> QED
    BY <2>1, <2>2, <1>0, <1>5 DEF RetrySubmission, Dispatch, TypeOK
<1>6. CASE Reconnect
  <2>1. view' \in View
    BY <1>0, <1>6 DEF Reconnect, View, Phase
  <2>2. MakeCall("reconnect", epoch, streamEpoch + 1, view.run, NoRequest) \in Call
    BY <1>0, <1>1, AnswerTypes, MakeCallType DEF GetOps
  <2> QED
    BY <2>1, <2>2, <1>0, <1>6, AnswerTypes DEF Reconnect, Dispatch, TypeOK
<1>7. ASSUME NEW op, NEW call \in ControlOps, NEW phases, Control(op, call, phases)
      PROVE  TypeOK'
  <2>1. view' \in View
    BY <1>1, <1>2, <1>7 DEF Control, ResetView, Phase
  <2>2. MakeCall(call, epoch + 1, 0, view.run, NoRequest) \in Call
    <3>1. call \in {"create", "open"} \cup GetOps \cup ControlOps /\ epoch + 1 \in Nat
      BY <1>0
    <3> QED
      BY <3>1, <1>0, <1>1, AnswerTypes, MakeCallType
  <2> QED
    BY <2>1, <2>2, <1>0, <1>7, AnswerTypes DEF Control, ResetView, Dispatch, TypeOK
<1>8. CASE Stop \/ Pause \/ Resume
  BY <1>7, <1>8 DEF Stop, Pause, Resume, ControlOps
<1>9. CASE RefreshStatus
  <2>1. MakeCall("refresh", epoch, checkEpoch + 1, view.run, NoRequest) \in Call
    BY <1>0, <1>1, AnswerTypes, MakeCallType DEF GetOps
  <2> QED
    BY <2>1, <1>0, <1>9 DEF RefreshStatus, Dispatch, TypeOK
<1>10. CASE Retarget
  <2>1. ResetTypes /\ ForgetTypes
    BY <1>R, <1>F, <1>3, <1>10 DEF Retarget, Phase
  <2> QED
    BY <2>1, <1>0, <1>10 DEF Retarget, TypeOK
<1>11. CASE Close
  <2>1. ForgetTypes /\ view' \in View
    BY <1>F, <1>2, <1>3, <1>11 DEF Close, Phase
  <2> QED
    BY <2>1, <1>0, <1>11, AnswerTypes DEF Close, EpochAfterClose, TypeOK
<1>12. ASSUME NEW name, NEW op \in {"open", "recover"}, Load(name, op)
       PROVE  TypeOK'
  <2>1. PICK i \in 1..Len(log) : Dispatch(MakeCall(op, epoch + 1, 0, log[i], NoRequest))
    BY <1>12 DEF Load
  <2>2. log[i] \in Asks0
    BY <1>0, <1>3, ElementOfSeq
  <2>3. MakeCall(op, epoch + 1, 0, log[i], NoRequest) \in Call
    BY <2>2, <1>0, AnswerTypes, MakeCallType DEF GetOps
  <2>4. ResetTypes /\ ForgetTypes
    BY <1>R, <1>F, <1>3, <1>12 DEF Load, Phase
  <2> QED
    BY <2>1, <2>3, <2>4, <1>0, <1>12 DEF Load, Dispatch, TypeOK
<1>13. CASE OpenSession \/ Recover
  BY <1>12, <1>13 DEF OpenSession, Recover
<1>14. ASSUME NEW c \in calls
       PROVE  c \in Call /\ c.ans \in Answer /\ c.run \in Asks0 /\ c.req \in Request
              /\ c.epoch \in Nat /\ c.req.key \in Asks0 /\ c.req.session \in Asks0
  BY <1>0 DEF Call, Request
<1>15. ASSUME NEW c \in calls, OwnerCreates(c)
       PROVE  TypeOK'
  <2> DEFINE k == c.req.key
  <2>1. k \in Asks
    BY <1>15 DEF OwnerCreates, IInv, CallsWell
  <2>2. [status |-> "running", out |-> "none",
         session |-> IF c.req.session = NoAsk THEN k ELSE c.req.session] \in Run
    BY <2>1, <1>3, <1>14 DEF Run, Status, LiveStatus, Output
  <2>3. runs' \in [Asks -> Run] /\ log' \in Seq(Asks)
    BY <2>1, <2>2, <1>0, <1>15 DEF OwnerCreates
  <2>4. Snapshot(runs', k) \in Answer
    BY <2>1, <2>3, SnapshotType
  <2>5. calls' = (calls \ {c}) \cup {[c EXCEPT !.ans = Snapshot(runs', k)]}
    BY <1>15 DEF OwnerCreates, Reply, Replace
  <2>6. calls' \in SUBSET Call
    BY <2>4, <2>5, <1>0, <1>14, ReplyType
  <2> QED
    BY <2>3, <2>6, <1>0, <1>15 DEF OwnerCreates, controller, TypeOK
<1>16. ASSUME NEW c \in calls, NEW a \in Answer, Reply(c, a)
       PROVE  calls' \in SUBSET Call
  BY <1>0, <1>14, <1>16, ReplyType DEF Reply, Replace
<1>17. ASSUME NEW c \in calls, OwnerReads(c)
       PROVE  TypeOK'
  <2>1. c.run \in Asks
    BY <1>17 DEF OwnerReads, GetOps, IInv, CallsWell
  <2>2. Snapshot(runs, c.run) \in Answer /\ Rows(c.run) \in Answer
    BY <2>1, <1>0, <1>3, SnapshotType, RowsType
  <2>3. calls' \in SUBSET Call
    BY <2>2, <1>16, <1>17 DEF OwnerReads
  <2> QED
    BY <2>3, <1>0, <1>17 DEF OwnerReads, TypeOK
<1>18. ASSUME NEW c \in calls, OwnerControls(c)
       PROVE  TypeOK'
  <2>1. c.run \in Asks
    BY <1>18 DEF OwnerControls, ControlOps, IInv, CallsWell
  <2>2. \A s \in Status : [runs EXCEPT ![c.run].status = s] \in [Asks -> Run]
    BY <2>1, <1>0 DEF Run
  <2>3. runs[c.run].status \in Status /\ Controlled(c.op) \in Status
    BY <2>1, <1>0 DEF Run, Controlled, Status, LiveStatus, FinalStatus
  <2>4. runs' \in [Asks -> Run]
    BY <2>2, <2>3, <1>0, <1>18 DEF OwnerControls
  <2>5. Snapshot(runs', c.run) \in Answer
    BY <2>1, <2>4, SnapshotType
  <2>6. calls' \in SUBSET Call
    BY <2>5, <1>16, <1>18, AnswerTypes DEF OwnerControls
  <2> QED
    BY <2>4, <2>6, <1>0, <1>18 DEF OwnerControls, TypeOK
<1>19. ASSUME NEW c \in calls, NetworkLoses(c)
       PROVE  TypeOK'
  <2>1. calls' \in SUBSET Call
    BY <1>16, <1>19, AnswerTypes DEF NetworkLoses
  <2> QED
    BY <2>1, <1>0, <1>19 DEF NetworkLoses, TypeOK
<1>20. ASSUME NEW r \in Asks, OwnerMoves(r)
       PROVE  TypeOK'
  <2>1. \A s \in Status, o \in Output : [runs EXCEPT ![r].status = s, ![r].out = o] \in [Asks -> Run]
    BY <1>0 DEF Run
  <2>2. \A o \in Output : [runs EXCEPT ![r].out = o] \in [Asks -> Run]
    BY <1>0 DEF Run
  <2>3. LiveStatus \cup FinalStatus \subseteq Status /\ "final" \in Output
    BY DEF Status, Output
  <2>4. \/ \E s \in Status, o \in Output : runs' = [runs EXCEPT ![r].status = s, ![r].out = o]
        \/ runs' = [runs EXCEPT ![r].out = "final"]
    BY <2>3, <1>20 DEF OwnerMoves
  <2>5. runs' \in [Asks -> Run]
    <3>1. CASE \E s \in Status, o \in Output : runs' = [runs EXCEPT ![r].status = s, ![r].out = o]
      <4>1. PICK s \in Status, o \in Output : runs' = [runs EXCEPT ![r].status = s, ![r].out = o]
        BY <3>1
      <4> QED
        BY <4>1, <2>1, Zenon
    <3>2. CASE runs' = [runs EXCEPT ![r].out = "final"]
      BY <3>2, <2>2, <2>3, Zenon
    <3> QED
      BY <2>4, <3>1, <3>2
  <2> QED
    BY <2>5, <1>0, <1>20 DEF OwnerMoves, TypeOK
<1>21. ASSUME NEW c \in calls, Settle(c)
       PROVE  calls' \in SUBSET Call
  BY <1>0, <1>21 DEF Settle
<1>22. \A r \in Asks, n \in Nat : NewSub(r, n) \in Sub
  BY <1>0, <1>3 DEF NewSub, Sub
<1>23. Interrupted \in View /\ InterruptedEmpty \in View
  BY <1>0 DEF Interrupted, InterruptedEmpty, View, Phase
<1>24. ASSUME NEW c \in calls, Discard(c)
       PROVE  TypeOK'
  BY <1>0, <1>21, <1>24 DEF Discard, TypeOK
<1>25. ASSUME NEW r \in Asks, Subscribe(r) \/ DropStream \/ SameStream
       PROVE  streamEpoch' \in Nat /\ sub' \in Sub
  BY <1>0, <1>22, <1>25, AnswerTypes DEF Subscribe, DropStream, SameStream
<1>26. ASSUME NEW r \in Asks, NEW a, Confirm(r, a)
       PROVE  confirmed' \in Seq(Pair) /\ confirmedRun' \in Asks0 /\ limited' \in BOOLEAN
  <2>1. CASE ~Confirms(r, a)
    BY <2>1, <1>0, <1>26 DEF Confirm
  <2>2. CASE Confirms(r, a)
    <3> DEFINE turn == [ask |-> request.key, run |-> r]
    <3>1. turn \in Pair
      BY <2>2 DEF Confirms, IInv, RequestWell, Pair
    <3>2. Append(confirmed, turn) \in Seq(Pair)
      BY <3>1, <1>0, AppendProperties
    <3> HIDE DEF turn
    <3>3. BoundedHistory(Append(confirmed, turn)) \in Seq(Pair)
      BY <3>2, BoundedHistoryType
    <3>4. /\ confirmedRun' = r
          /\ confirmed' = BoundedHistory(Append(confirmed, turn))
          /\ limited' = (limited \/ Len(BoundedHistory(Append(confirmed, turn))) < Len(confirmed) + 1)
      BY <2>2, <1>26 DEF Confirm, turn
    <3>5. limited' \in BOOLEAN
      BY <3>4
    <3> QED
      BY <3>3, <3>4, <3>5, <1>3
  <2> QED
    BY <2>1, <2>2
<1>27. ASSUME NEW c \in calls, CreateSettles(c)
       PROVE  TypeOK'
  <2> DEFINE r == c.req.key
  <2>1. r \in Asks
    BY <1>27 DEF CreateSettles, IInv, CallsWell
  <2>2. \A n \in Nat : MakeCall("reconcile", epoch, n, r, NoRequest) \in Call
    BY <2>1, <1>0, <1>3, AnswerTypes, MakeCallType DEF GetOps
  <2>3. Shown(r, c.ans) \in View
    BY <2>1, <1>14, ShownType
  <2>4. [phase |-> "running", run |-> r, out |-> "none"] \in View
    BY <2>1, <1>2, <1>3 DEF Phase
  <2>5. view' \in View
    BY <2>3, <2>4, <1>23, <1>27 DEF CreateSettles
  <2>6. streamEpoch' \in Nat /\ sub' \in Sub
    BY <2>1, <1>25, <1>27 DEF CreateSettles
  <2>7. calls' \in SUBSET Call
    BY <2>2, <1>0, <1>21, <1>27 DEF CreateSettles, Replace
  <2> QED
    BY <2>5, <2>6, <2>7, <1>0, <1>27 DEF CreateSettles, TypeOK
<1>28. ASSUME NEW c \in calls, RunSettles(c)
       PROVE  TypeOK'
  <2>1. c.run \in Asks
    BY <1>28 DEF RunSettles, ControlOps, IInv, CallsWell
  <2>2. Shown(c.run, c.ans) \in View
    BY <2>1, <1>14, ShownType
  <2>3. view' \in View
    BY <2>2, <1>23, <1>28 DEF RunSettles
  <2>4. streamEpoch' \in Nat /\ sub' \in Sub
    BY <2>1, <1>25, <1>28 DEF RunSettles
  <2>5. confirmed' \in Seq(Pair) /\ confirmedRun' \in Asks0 /\ limited' \in BOOLEAN
    BY <2>1, <1>0, <1>26, <1>28 DEF RunSettles
  <2>6. calls' \in SUBSET Call
    BY <1>21, <1>28 DEF RunSettles
  <2> QED
    BY <2>3, <2>4, <2>5, <2>6, <1>0, <1>28 DEF RunSettles, TypeOK
<1>29. ASSUME NEW c \in calls, ControlRefused(c)
       PROVE  TypeOK'
  <2>1. MakeCall("readback", c.epoch, 0, c.run, NoRequest) \in Call
    BY <1>0, <1>14, AnswerTypes, MakeCallType DEF GetOps
  <2>2. calls' \in SUBSET Call
    BY <2>1, <1>0, <1>21, <1>29 DEF ControlRefused, Readback, Replace
  <2> QED
    BY <2>2, <1>0, <1>29 DEF ControlRefused, TypeOK
<1>30. ASSUME NEW c \in calls, RefreshSettles(c)
       PROVE  TypeOK'
  <2>1. c.run \in Asks
    BY <1>30 DEF RefreshSettles, IInv, CallsWell
  <2>2. Shown(c.run, c.ans) \in View
    BY <2>1, <1>14, ShownType
  <2>3. view' \in View
    BY <2>2, <1>0, <1>23, <1>30 DEF RefreshSettles
  <2>4. NewSub(c.run, streamEpoch + 2) \in Sub
    BY <2>1, <1>0, <1>22
  <2>5. streamEpoch' \in Nat /\ sub' \in Sub
    BY <2>1, <2>4, <1>0, <1>25, <1>30 DEF RefreshSettles
  <2>6. confirmed' \in Seq(Pair) /\ confirmedRun' \in Asks0 /\ limited' \in BOOLEAN
    BY <2>1, <1>0, <1>26, <1>30 DEF RefreshSettles
  <2>7. calls' \in SUBSET Call
    BY <1>21, <1>30 DEF RefreshSettles
  <2> QED
    BY <2>3, <2>5, <2>6, <2>7, <1>0, <1>30 DEF RefreshSettles, TypeOK
<1>31. ASSUME NEW c \in calls, ReconcileSettles(c)
       PROVE  TypeOK'
  <2>1. c.run \in Asks
    BY <1>31 DEF ReconcileSettles, IInv, CallsWell
  <2>2. Shown(c.run, c.ans) \in View
    BY <2>1, <1>14, ShownType
  <2>3. view' \in View
    BY <2>2, <1>23, <1>31 DEF ReconcileSettles
  <2>4. confirmed' \in Seq(Pair) /\ confirmedRun' \in Asks0 /\ limited' \in BOOLEAN
    BY <2>1, <1>0, <1>26, <1>31 DEF ReconcileSettles
  <2>5. calls' \in SUBSET Call
    BY <1>21, <1>31 DEF ReconcileSettles
  <2> QED
    BY <2>3, <2>4, <2>5, <1>0, <1>31 DEF ReconcileSettles, TypeOK
<1>32. ASSUME NEW c \in calls, RecoverSettles(c)
       PROVE  TypeOK'
  <2>1. c.run \in Asks
    BY <1>32 DEF RecoverSettles, IInv, CallsWell
  <2>2. Shown(c.run, c.ans) \in View
    BY <2>1, <1>14, ShownType
  <2>3. view' \in View
    BY <2>2, <1>23, <1>32 DEF RecoverSettles
  <2>4. streamEpoch' \in Nat /\ sub' \in Sub
    BY <2>1, <1>25, <1>32 DEF RecoverSettles
  <2>5. calls' \in SUBSET Call
    BY <1>21, <1>32 DEF RecoverSettles
  <2>6. limited' \in BOOLEAN
    BY <1>0, <1>32 DEF RecoverSettles
  <2> QED
    BY <2>3, <2>4, <2>5, <2>6, <1>0, <1>32 DEF RecoverSettles, TypeOK
<1>33. ASSUME NEW c \in calls, OpenSettles(c)
       PROVE  TypeOK'
  <2>1. calls' \in SUBSET Call
    BY <1>21, <1>33 DEF OpenSettles
  <2>2. CASE c.ans = Lost
    <3>1. c.ans.is # "rows"
      BY <2>2 DEF Lost, Pending
    <3>2. view' \in View /\ UNCHANGED context
      BY <3>1, <1>23, <1>33 DEF OpenSettles
    <3> QED
      BY <3>2, <2>1, <1>0, <1>33 DEF OpenSettles, TypeOK
  <2>3. CASE c.ans.is = "rows"
    <3> DEFINE rows == c.ans.rows
    <3> DEFINE whole == Pick(rows, {i \in 1..Len(rows) : Whole(rows[i])})
    <3> DEFINE history == [i \in 1..Len(whole) |-> [ask |-> whole[i].run, run |-> whole[i].run]]
    <3> DEFINE newest == rows[Len(rows)]
    <3>1. rows \in Seq(Row) /\ rows # << >>
      BY <2>3, <1>14 DEF Answer, IInv, CallsWell
    <3>2. newest \in Row
      BY <3>1
    <3>3. whole \in Seq(Row)
      BY <3>1, PickElements
    <3>4. c.ans # Lost
      BY <2>3 DEF Lost, Pending
    <3>5. /\ confirmed' = NewestPairs(history)
          /\ limited' = (Len(whole) < Len(rows) \/ Len(whole) > MaxPairs)
          /\ confirmedRun' = IF Whole(newest) THEN newest.run ELSE NoAsk
          /\ view' = [run |-> newest.run,
                      phase |-> IF Whole(newest) THEN "completed" ELSE "recovery-required",
                      out |-> IF Whole(newest) THEN "final" ELSE "none"]
      BY <3>4, <1>33 DEF OpenSettles
    <3>6. view' \in View /\ confirmedRun' \in Asks0
      BY <3>2, <3>5, <1>3 DEF Row, View, Phase
    <3>7. history \in Seq(Pair)
      <4> HIDE DEF whole
      <4>0. \A row \in Row : [ask |-> row.run, run |-> row.run] \in Pair
        BY DEF Row, Pair
      <4>1. \A i \in 1..Len(whole) : [ask |-> whole[i].run, run |-> whole[i].run] \in Pair
        BY <3>3, <4>0, ElementOfSeq
      <4> QED
        BY <4>1, <3>3
    <3>8. NewestPairs(history) \in Seq(Pair)
      <4> HIDE DEF history
      <4> DEFINE first == IF Len(history) > MaxPairs THEN Len(history) + 1 - MaxPairs ELSE 1
      <4>1. first \in Int /\ first >= 1 /\ Len(history) \in Int
        BY <3>7, ChatAssumption
      <4>2. \A i \in 1..Len(history) : history[i] \in Pair
        BY <3>7, ElementOfSeq
      <4>3. SubSeq(history, first, Len(history)) \in Seq(Pair)
        <5> HIDE DEF first
        <5> QED
          BY <4>1, <4>2, SubSeqProperties
      <4> QED
        BY <4>3 DEF NewestPairs
    <3>9. limited' \in BOOLEAN
      BY <3>5
    <3> HIDE DEF history
    <3> QED
      BY <3>5, <3>6, <3>8, <3>9, <2>1, <1>0, <1>33 DEF OpenSettles, TypeOK
  <2> QED
    BY <2>2, <2>3, <1>33 DEF OpenSettles
<1>34. CASE StreamDelta
  <2>1. view' \in View
    BY <1>0, <1>34 DEF StreamDelta, View
  <2> QED
    BY <2>1, <1>0, <1>34 DEF StreamDelta, TypeOK
<1>35. CASE StreamTerminal
  <2>1. MakeCall("reconcile", epoch, streamEpoch + 1, sub.run, NoRequest) \in Call
    <3>1. sub.run \in Asks0
      BY <1>0 DEF Sub
    <3> QED
      BY <3>1, <1>0, AnswerTypes, MakeCallType DEF GetOps
  <2> QED
    BY <2>1, <1>0, <1>35, AnswerTypes DEF StreamTerminal, DropStream, Dispatch, TypeOK
<1>36. CASE StreamInterrupted
  <2>1. view' \in View /\ streamEpoch' \in Nat /\ sub' \in Sub
    BY <1>0, <1>23, <1>36, AnswerTypes DEF StreamInterrupted, DropStream
  <2> QED
    BY <2>1, <1>0, <1>36 DEF StreamInterrupted, TypeOK
<1>37. CASE UNCHANGED vars
  BY <1>0, <1>37 DEF vars, TypeOK
<1> QED
  BY <1>4, <1>5, <1>6, <1>8, <1>9, <1>10, <1>11, <1>13, <1>15, <1>17, <1>18, <1>19,
     <1>20, <1>24, <1>27, <1>28, <1>29, <1>30, <1>31, <1>32, <1>33, <1>34, <1>35, <1>36,
     <1>37
  DEF Next, UserNext, Answers, Continues, StreamNext

----------------------------------------------------------------------------
(* What a step does to the owner, to the epochs and to the calls *)

\* What the owner has decided stays decided, and its log only grows.
LEMMA OwnerStep ==
  ASSUME IInv, [Next]_vars
  PROVE  /\ \A r \in Asks :
              /\ runs[r].status \in FinalStatus => runs'[r].status = runs[r].status
              /\ runs[r].status = "completed" /\ runs[r].out = "final"
                   => runs'[r].out = "final"
              /\ runs[r].session # NoAsk => runs'[r].session = runs[r].session
         /\ \A i \in 1..Len(log) : i \in 1..Len(log') /\ log'[i] = log[i]
<1>0. runs \in [Asks -> Run] /\ log \in Seq(Asks) /\ calls \in SUBSET Call
  BY DEF IInv, TypeOK
<1>1. CASE UNCHANGED owner
  BY <1>0, <1>1 DEF owner
<1>2. ASSUME NEW c \in calls, OwnerCreates(c), ~UNCHANGED owner
      PROVE  /\ c.req.key \in Asks /\ runs[c.req.key] = NoRun
             /\ log' = Append(log, c.req.key)
             /\ \E fresh : runs' = [runs EXCEPT ![c.req.key] = fresh]
  BY <1>2 DEF OwnerCreates, IInv, CallsWell, owner
<1>3. ASSUME NEW c \in calls, OwnerControls(c)
      PROVE  /\ log' = log /\ c.run \in Asks
             /\ \/ runs' = runs
                \/ /\ runs[c.run].status \in LiveStatus
                   /\ \E s \in Status : runs' = [runs EXCEPT ![c.run].status = s]
  <2>1. c.run \in Asks /\ log' = log
    BY <1>3 DEF OwnerControls, ControlOps, IInv, CallsWell
  <2>2. CASE Controllable(c.op, runs[c.run].status)
    <3>1. runs[c.run].status \in LiveStatus
      BY <2>2, <1>3 DEF OwnerControls, ControlOps, Controllable, LiveStatus
    <3>2. runs[c.run].status \in Status /\ Controlled(c.op) \in Status
      BY <3>1 DEF Controlled, Status, LiveStatus, FinalStatus
    <3> QED
      BY <2>1, <2>2, <3>1, <3>2, <1>3 DEF OwnerControls
  <2>3. CASE ~Controllable(c.op, runs[c.run].status)
    BY <2>1, <2>3, <1>3 DEF OwnerControls
  <2> QED
    BY <2>2, <2>3
<1>4. ASSUME NEW r \in Asks, OwnerMoves(r)
      PROVE  /\ log' = log
             /\ \/ /\ runs[r].status \in LiveStatus
                   /\ \E s \in Status, o \in Output :
                        runs' = [runs EXCEPT ![r].status = s, ![r].out = o]
                \/ /\ runs[r].out = "none"
                   /\ runs' = [runs EXCEPT ![r].out = "final"]
  <2>1. LiveStatus \cup FinalStatus \subseteq Status
    BY DEF Status
  <2> QED
    BY <2>1, <1>4 DEF OwnerMoves
<1>5. LiveStatus \cap FinalStatus = {} /\ "absent" \notin FinalStatus /\ "completed" \in FinalStatus
  BY DEF LiveStatus, FinalStatus
<1>6. CASE \E c \in calls : OwnerCreates(c)
  <2>1. PICK c \in calls : OwnerCreates(c)
    BY <1>6
  <2>2. CASE ~UNCHANGED owner
    BY <2>1, <2>2, <1>0, <1>2, <1>5 DEF NoRun, Run
  <2> QED
    BY <2>2, <1>1
<1>7. CASE \E c \in calls : OwnerControls(c)
  <2>1. PICK c \in calls : OwnerControls(c)
    BY <1>7
  <2>2. CASE runs' = runs
    BY <2>1, <2>2, <1>0, <1>3
  <2>3. ASSUME NEW s \in Status, runs[c.run].status \in LiveStatus,
               runs' = [runs EXCEPT ![c.run].status = s]
        PROVE  \A r \in Asks :
                 /\ runs'[r].out = runs[r].out /\ runs'[r].session = runs[r].session
                 /\ runs[r].status \in FinalStatus => runs'[r].status = runs[r].status
    BY <2>3, <1>0, <1>5 DEF Run
  <2> QED
    BY <2>1, <2>2, <2>3, <1>0, <1>3
<1>8. CASE \E r \in Asks : OwnerMoves(r)
  <2>1. PICK r \in Asks : OwnerMoves(r)
    BY <1>8
  <2>2. ASSUME NEW s \in Status, NEW o \in Output, runs[r].status \in LiveStatus,
               runs' = [runs EXCEPT ![r].status = s, ![r].out = o]
        PROVE  \A q \in Asks :
                 /\ runs'[q].session = runs[q].session
                 /\ runs[q].status \in FinalStatus => runs'[q] = runs[q]
    BY <2>2, <1>0, <1>5 DEF Run
  <2>3. ASSUME runs[r].out = "none", runs' = [runs EXCEPT ![r].out = "final"]
        PROVE  \A q \in Asks :
                 /\ runs'[q].session = runs[q].session
                 /\ runs'[q].status = runs[q].status
                 /\ runs'[q].out = runs[q].out \/ runs'[q].out = "final"
    BY <2>3, <1>0 DEF Run
  <2> QED
    BY <2>1, <2>2, <2>3, <1>0, <1>4, <1>5
<1>9. \/ \E c \in calls : OwnerCreates(c) \/ OwnerControls(c)
      \/ \E r \in Asks : OwnerMoves(r)
      \/ UNCHANGED owner
  BY DEF Next, vars, UserNext, Answers, Continues, StreamNext, Send, RetrySubmission,
     Reconnect, RefreshStatus, Stop, Pause, Resume, Control, Retarget, Close, OpenSession,
     Recover, Load, OwnerReads, NetworkLoses, Discard, CreateSettles, RunSettles,
     ControlRefused, RefreshSettles, ReconcileSettles, RecoverSettles, OpenSettles,
     StreamDelta, StreamTerminal, StreamInterrupted, owner
<1> QED
  BY <1>1, <1>6, <1>7, <1>8, <1>9

\* An epoch grows by one or stays, and the request changes only with it.
LEMMA EpochStep ==
  ASSUME IInv, [Next]_vars
  PROVE  /\ epoch' = epoch \/ epoch' = epoch + 1
         /\ epoch' = epoch => request' = request
<1> USE DEF epochs, controller
<1>1. CASE UserNext
  BY <1>1 DEF UserNext, Send, RetrySubmission, Reconnect, RefreshStatus, Stop, Pause, Resume,
     Control, Retarget, Close, EpochAfterClose, OpenSession, Recover, Load, ResetView,
     ResetEpochs, IInv, TypeOK
<1>2. CASE \E c \in calls : Answers(c)
  BY <1>2 DEF Answers, OwnerCreates, OwnerReads, OwnerControls, NetworkLoses
<1>3. CASE \E c \in calls : Continues(c)
  BY <1>3 DEF Continues, Discard, CreateSettles, RunSettles, ControlRefused,
     RefreshSettles, ReconcileSettles, RecoverSettles, OpenSettles
<1>4. CASE \E r \in Asks : OwnerMoves(r)
  BY <1>4 DEF OwnerMoves
<1>5. CASE StreamNext
  BY <1>5 DEF StreamNext, StreamDelta, StreamTerminal, StreamInterrupted
<1>6. CASE UNCHANGED vars
  BY <1>6 DEF vars
<1> QED
  BY <1>1, <1>2, <1>3, <1>4, <1>5, <1>6 DEF Next

\* An answer reports the owner's runs as they are.
Says(f, r, a) ==
  /\ a.is = "run" => r \in Asks /\ a.status = f[r].status /\ a.out = f[r].out
  /\ \A i \in 1..Len(a.rows) : \E q \in Asks : a.rows[i] = RowOf(f, q)
  /\ a.is = "rows" => a.rows # << >>

\* A call is old, or an old call just answered, or just made: by the user or
\* a callback in the present epoch, or by a refusal in the epoch it is of.
Answered(c, a) ==
  /\ Says(runs', Subject(c), a) /\ epoch' = epoch
  /\ a.is = "refused" => c.op \in ControlOps
Made(d) ==
  /\ d.ans = Pending
  /\ d.op = "create" => d.req.key \in Asks
  /\ d.op # "create" => d.run \in Asks
  /\ d.op = "open" => \E i \in 1..Len(log) : log[i] = d.run /\ runs[d.run].session = d.run
MadeNow(d) ==
  /\ d.epoch = epoch /\ view.phase # "idle"
  /\ d.op = "create" => d.req = request
  /\ d.op \in {"open", "recover"} => request = NoRequest

LEMMA CallsStep ==
  ASSUME IInv, [Next]_vars, NEW d \in calls', d \notin calls
  PROVE  \/ \E c \in calls, a \in Answer : d = [c EXCEPT !.ans = a] /\ Answered(c, a)
         \/ Made(d) /\ MadeNow(d)'
         \/ Made(d) /\ d.op = "readback" /\ epoch' = epoch
              /\ \E c \in calls : d.epoch = c.epoch
<1> USE DEF MakeCall
<1>0. /\ runs \in [Asks -> Run] /\ log \in Seq(Asks) /\ calls \in SUBSET Call
      /\ view \in View /\ request \in Request /\ sub \in Sub
      /\ runs' \in [Asks -> Run] /\ TypeOK /\ TypeOK'
  BY TypeStep DEF IInv, TypeOK
<1>1. ASSUME NEW c, Dispatch(c)
      PROVE  d = c
  BY <1>1 DEF Dispatch
<1>2. ASSUME NEW c, NEW e, Replace(c, e)
      PROVE  d = e
  BY <1>2 DEF Replace
<1>3. ASSUME NEW c, NEW a, Reply(c, a)
      PROVE  d = [c EXCEPT !.ans = a]
  BY <1>2, <1>3 DEF Reply
<1>4. CASE Send
  <2>1. /\ request'.key \in Asks
        /\ d = MakeCall("create", epoch + 1, 0, NoAsk, request')
    BY <1>1, <1>4 DEF Send
  <2> QED
    BY <2>1, <1>4 DEF Send, ResetView, ResetEpochs, Made, MadeNow
<1>5. CASE RetrySubmission
  BY <1>1, <1>5 DEF RetrySubmission, IInv, RequestWell, Made, MadeNow, epochs
<1>6. CASE Reconnect
  BY <1>0, <1>1, <1>6 DEF Reconnect, View, Asks0, Made, MadeNow
<1>7. ASSUME NEW op, NEW call \in ControlOps, NEW phases, Control(op, call, phases)
      PROVE  Made(d) /\ MadeNow(d)'
  BY <1>0, <1>1, <1>7 DEF Control, ControlOps, ResetView, ResetEpochs, View, Asks0, Made, MadeNow
<1>8. CASE Stop \/ Pause \/ Resume
  BY <1>7, <1>8 DEF Stop, Pause, Resume, ControlOps
<1>9. CASE RefreshStatus
  BY <1>0, <1>1, <1>9 DEF RefreshStatus, View, Asks0, IInv, IdleAlone, epochs, Made, MadeNow
<1>10. ASSUME NEW name, NEW op \in {"open", "recover"}, Load(name, op)
       PROVE  Made(d) /\ MadeNow(d)'
  <2>1. PICK i \in 1..Len(log) : /\ op = "open" => runs[log[i]].session = log[i]
                                 /\ d = MakeCall(op, epoch + 1, 0, log[i], NoRequest)
    BY <1>1, <1>10 DEF Load
  <2>2. log[i] \in Asks
    BY <1>0, ElementOfSeq
  <2> QED
    BY <2>1, <2>2, <1>10 DEF Load, ResetView, ResetEpochs, ForgetConversation, Made, MadeNow
<1>11. CASE OpenSession \/ Recover
  BY <1>10, <1>11 DEF OpenSession, Recover
<1>12. ASSUME NEW r \in Asks
       PROVE  Says(runs', r, Snapshot(runs', r))
  BY <1>0, SnapshotType DEF Says, Snapshot
<1>13. ASSUME NEW a \in {Lost, Refused}, NEW r
       PROVE  Says(runs', r, a)
  BY <1>13 DEF Says, Lost, Refused, Pending
<1>14. ASSUME NEW c \in calls, OwnerCreates(c)
       PROVE  \E a \in Answer : d = [c EXCEPT !.ans = a] /\ Answered(c, a)
  <2>1. c.req.key \in Asks /\ Subject(c) = c.req.key
    BY <1>14 DEF OwnerCreates, IInv, CallsWell, Subject
  <2>2. d = [c EXCEPT !.ans = Snapshot(runs', c.req.key)] /\ epoch' = epoch
    BY <1>3, <1>14 DEF OwnerCreates, controller, epochs
  <2> QED
    BY <2>1, <2>2, <1>0, <1>12, SnapshotType DEF Answered
<1>15. ASSUME NEW c \in calls, OwnerReads(c)
       PROVE  \E a \in Answer : d = [c EXCEPT !.ans = a] /\ Answered(c, a)
  <2>1. c.run \in Asks /\ Subject(c) = c.run
    BY <1>15 DEF OwnerReads, GetOps, IInv, CallsWell, Subject
  <2>2. runs' = runs /\ epoch' = epoch
    BY <1>15 DEF OwnerReads, owner, controller, epochs
  <2>3. CASE c.op # "open"
    <3>1. d = [c EXCEPT !.ans = Snapshot(runs', c.run)]
      BY <2>2, <2>3, <1>3, <1>15 DEF OwnerReads
    <3> QED
      BY <3>1, <2>1, <2>2, <1>0, <1>12, SnapshotType DEF Answered
  <2>4. CASE c.op = "open"
    <3>1. d = [c EXCEPT !.ans = Rows(c.run)]
      BY <2>4, <1>3, <1>15 DEF OwnerReads
    <3>2. \E i \in 1..Len(log) : runs[log[i]].session = c.run
      BY <2>4 DEF IInv, CallsWell
    <3>3. /\ Rows(c.run) \in Answer /\ Rows(c.run).is = "rows" /\ Rows(c.run).rows # << >>
          /\ \A i \in 1..Len(Rows(c.run).rows) : \E r \in Asks : Rows(c.run).rows[i] = RowOf(runs, r)
      BY <3>2, <2>1, <1>0, RowsType DEF Asks0
    <3> QED
      BY <3>1, <3>3, <2>1, <2>2 DEF Says, Answered
  <2> QED
    BY <2>3, <2>4
<1>16. ASSUME NEW c \in calls, OwnerControls(c)
       PROVE  \E a \in Answer : d = [c EXCEPT !.ans = a] /\ Answered(c, a)
  <2>1. c.run \in Asks /\ Subject(c) = c.run
    BY <1>16 DEF OwnerControls, ControlOps, IInv, CallsWell, Subject
  <2>2. epoch' = epoch
    BY <1>16 DEF OwnerControls, controller, epochs
  <2>3. d = [c EXCEPT !.ans = Snapshot(runs', c.run)] \/ d = [c EXCEPT !.ans = Refused]
    BY <1>3, <1>16 DEF OwnerControls
  <2>4. c.op \in ControlOps
    BY <1>16 DEF OwnerControls
  <2> QED
    BY <2>1, <2>2, <2>3, <2>4, <1>0, <1>12, <1>13, SnapshotType, AnswerTypes DEF Answered
<1>17. ASSUME NEW c \in calls, NetworkLoses(c)
       PROVE  \E a \in Answer : d = [c EXCEPT !.ans = a] /\ Answered(c, a)
  <2>1. d = [c EXCEPT !.ans = Lost] /\ epoch' = epoch
    BY <1>3, <1>17 DEF NetworkLoses, controller, epochs
  <2> QED
    BY <2>1, <1>13, AnswerTypes DEF Answered, Lost, Pending
<1>18. ASSUME NEW c \in calls, CreateSettles(c)
       PROVE  Made(d) /\ MadeNow(d)'
  <2>1. d = MakeCall("reconcile", epoch, streamEpoch + 1, c.req.key, NoRequest)
        /\ view'.phase = "running"
    BY <1>2, <1>18 DEF CreateSettles, Settle
  <2>2. epoch' = epoch /\ c.req.key \in Asks
    BY <1>18 DEF CreateSettles, IInv, CallsWell
  <2> QED
    BY <2>1, <2>2 DEF Made, MadeNow
<1>19. ASSUME NEW c \in calls, ControlRefused(c)
       PROVE  Made(d) /\ d.op = "readback" /\ epoch' = epoch /\ d.epoch = c.epoch
  <2>1. d = MakeCall("readback", c.epoch, 0, c.run, NoRequest) /\ epoch' = epoch
    BY <1>2, <1>19 DEF ControlRefused, Readback, Settle, controller, epochs
  <2>2. c.run \in Asks
    BY <1>19 DEF ControlRefused, IInv, CallsWell, Refused, Pending, ControlOps
  <2> QED
    BY <2>1, <2>2 DEF Made
<1>20. CASE StreamTerminal
  <2>1. d = MakeCall("reconcile", epoch, streamEpoch + 1, sub.run, NoRequest)
        /\ view' = view /\ epoch' = epoch
    BY <1>1, <1>20 DEF StreamTerminal
  <2>2. sub.run \in Asks /\ view.phase # "idle"
    BY <1>20 DEF StreamTerminal, IInv, SubWell, IdleAlone
  <2> QED
    BY <2>1, <2>2 DEF Made, MadeNow
<1>21. CASE \E c \in calls : Answers(c)
  BY <1>14, <1>15, <1>16, <1>17, <1>21 DEF Answers
<1>22. CASE \E c \in calls : Continues(c)
  <2>1. PICK c \in calls : Continues(c)
    BY <1>22
  <2>2. CreateSettles(c) \/ ControlRefused(c)
    BY <2>1 DEF Continues, Discard, RunSettles, RefreshSettles, ReconcileSettles,
       RecoverSettles, OpenSettles, Settle
  <2> QED
    BY <2>2, <1>18, <1>19
<1>23. ~ UNCHANGED calls
  OBVIOUS
<1> QED
  BY <1>4, <1>5, <1>6, <1>8, <1>9, <1>11, <1>20, <1>21, <1>22, <1>23
  DEF Next, UserNext, StreamNext, StreamDelta, StreamInterrupted, Retarget, Close,
      OwnerMoves, vars

----------------------------------------------------------------------------
(* Every step keeps the other parts of the invariant *)

LEMMA CallsWellStep ==
  ASSUME IInv, [Next]_vars
  PROVE  CallsWell'
<1> SUFFICES ASSUME NEW d \in calls'
             PROVE  /\ d.epoch <= epoch'
                    /\ d.op = "create" => d.req.key \in Asks
                    /\ d.op # "create" => d.run \in Asks
                    /\ d.op = "open" => \E i \in 1..Len(log') :
                                          log'[i] = d.run /\ runs'[d.run].session = d.run
                    /\ d.ans.is = "rows" => d.ans.rows # << >>
                    /\ d.ans.is = "refused" => d.op \in ControlOps
  BY DEF CallsWell
<1>0. /\ calls \in SUBSET Call /\ epoch \in Nat /\ epoch' \in Nat /\ CallsWell
      /\ NoAsk \notin Asks /\ calls' \in SUBSET Call
  BY TypeStep, ChatAssumption DEF IInv, TypeOK
<1>1. epoch <= epoch'
  BY <1>0, EpochStep
<1>2. ASSUME NEW r \in Asks, NEW i \in 1..Len(log), log[i] = r, runs[r].session = r
      PROVE  \E j \in 1..Len(log') : log'[j] = r /\ runs'[r].session = r
  BY <1>0, <1>2, OwnerStep
<1>3. CASE d \in calls
  <2>1. d.epoch \in Nat /\ d.epoch <= epoch'
    BY <1>0, <1>1, <1>3 DEF CallsWell, Call
  <2> QED
    BY <2>1, <1>0, <1>2, <1>3 DEF CallsWell
<1>4. ASSUME NEW c \in calls, NEW a \in Answer, d = [c EXCEPT !.ans = a], Answered(c, a)
      PROVE  /\ d.epoch = c.epoch /\ d.op = c.op /\ d.req = c.req /\ d.run = c.run
             /\ d.ans = a /\ epoch' = epoch
             /\ a.is = "rows" => a.rows # << >>
             /\ a.is = "refused" => c.op \in ControlOps
  <2>1. c \in Call
    BY <1>0
  <2> QED
    BY <2>1, <1>4 DEF Answered, Says, Call
<1>5. CASE \E c \in calls, a \in Answer : d = [c EXCEPT !.ans = a] /\ Answered(c, a)
  BY <1>0, <1>2, <1>4, <1>5 DEF CallsWell
<1>6. ASSUME Made(d)
      PROVE  /\ d.op = "create" => d.req.key \in Asks
             /\ d.op # "create" => d.run \in Asks
             /\ d.op = "open" => \E i \in 1..Len(log') :
                                   log'[i] = d.run /\ runs'[d.run].session = d.run
             /\ d.ans.is = "pending"
  BY <1>2, <1>6 DEF Made, Pending
<1>7. CASE Made(d) /\ MadeNow(d)'
  <2>1. d.epoch = epoch'
    BY <1>7 DEF MadeNow
  <2> QED
    BY <2>1, <1>0, <1>6, <1>7
<1>8. CASE Made(d) /\ epoch' = epoch /\ \E c \in calls : d.epoch = c.epoch
  BY <1>0, <1>6, <1>8 DEF CallsWell
<1> QED
  BY <1>3, <1>5, <1>7, <1>8, CallsStep

LEMMA CallsTrueStep ==
  ASSUME IInv, [Next]_vars
  PROVE  CallsTrue'
<1> SUFFICES ASSUME NEW d \in calls'
             PROVE  /\ d.ans.is = "run" => Truthful(Subject(d), d.ans)'
                    /\ \A i \in 1..Len(d.ans.rows) :
                         Truthful(d.ans.rows[i].run, d.ans.rows[i])'
  BY DEF CallsTrue, Subject
<1>0. calls \in SUBSET Call /\ calls' \in SUBSET Call /\ CallsWell /\ CallsTrue
  BY TypeStep DEF IInv, TypeOK
<1>1. ASSUME NEW r \in Asks, NEW a, Truthful(r, a)
      PROVE  Truthful(r, a)'
  BY <1>1, OwnerStep DEF Truthful, FinalStatus
<1>2. ASSUME NEW r, NEW a, a.status = runs'[r].status, a.out = runs'[r].out
      PROVE  Truthful(r, a)'
  BY <1>2 DEF Truthful
<1>3. CASE d \in calls
  <2>1. d \in Call /\ Subject(d) \in Asks
    BY <1>0, <1>3 DEF CallsWell, Subject
  <2>2. \A i \in 1..Len(d.ans.rows) : d.ans.rows[i].run \in Asks
    <3>1. d.ans.rows \in Seq(Row) /\ \A row \in Row : row.run \in Asks
      BY <2>1 DEF Call, Answer, Row
    <3> QED
      BY <3>1, ElementOfSeq
  <2> QED
    BY <2>1, <2>2, <1>0, <1>1, <1>3 DEF CallsTrue
<1>4. CASE \E c \in calls, a \in Answer : d = [c EXCEPT !.ans = a] /\ Answered(c, a)
  <2>1. PICK c \in calls, a \in Answer : d = [c EXCEPT !.ans = a] /\ Answered(c, a)
    BY <1>4
  <2>2. c \in Call /\ Says(runs', Subject(c), a)
    BY <2>1, <1>0 DEF Answered
  <2>3. d.ans = a /\ Subject(d) = Subject(c)
    BY <2>1, <2>2 DEF Call, Subject
  <2>4. d.ans.is = "run" => Truthful(Subject(d), d.ans)'
    BY <2>2, <2>3, <1>2 DEF Says
  <2>5. ASSUME NEW i \in 1..Len(a.rows)
        PROVE  Truthful(a.rows[i].run, a.rows[i])'
    <3>1. PICK q \in Asks : a.rows[i] = RowOf(runs', q)
      BY <2>2 DEF Says
    <3> QED
      BY <3>1, <1>2 DEF RowOf
  <2> QED
    BY <2>3, <2>4, <2>5
<1>5. CASE Made(d)
  BY <1>5 DEF Made, Pending
<1> QED
  BY <1>3, <1>4, <1>5, CallsStep

LEMMA CallsOwnStep ==
  ASSUME IInv, [Next]_vars
  PROVE  CallsOwn'
<1> SUFFICES ASSUME NEW d \in calls', d.epoch = epoch'
             PROVE  /\ d.op = "create" => d.req = request'
                    /\ d.op \in {"open", "recover"} => request' = NoRequest
  BY DEF CallsOwn
<1>0. calls \in SUBSET Call /\ epoch \in Nat /\ CallsWell /\ CallsOwn
  BY DEF IInv, TypeOK
<1>1. epoch' # epoch => epoch' = epoch + 1
  BY EpochStep
<1>2. CASE d \in calls
  <2>1. d.epoch \in Nat /\ d.epoch <= epoch
    BY <1>0, <1>2 DEF CallsWell, Call
  <2>2. epoch' = epoch /\ request' = request
    BY <2>1, <1>0, <1>1, EpochStep
  <2> QED
    BY <2>2, <1>0, <1>2 DEF CallsOwn
<1>3. CASE \E c \in calls, a \in Answer : d = [c EXCEPT !.ans = a] /\ Answered(c, a)
  <2>1. PICK c \in calls, a \in Answer : d = [c EXCEPT !.ans = a] /\ epoch' = epoch
    BY <1>3 DEF Answered
  <2>2. c \in Call /\ request' = request
    BY <2>1, <1>0, EpochStep
  <2>3. d.op = c.op /\ d.req = c.req /\ d.epoch = c.epoch
    BY <2>1, <2>2 DEF Call
  <2> QED
    BY <2>1, <2>2, <2>3, <1>0 DEF CallsOwn
<1>4. CASE MadeNow(d)'
  BY <1>4 DEF MadeNow
<1>5. CASE d.op = "readback"
  BY <1>5
<1> QED
  BY <1>2, <1>3, <1>4, <1>5, CallsStep

LEMMA RequestWellStep ==
  ASSUME IInv, [Next]_vars
  PROVE  RequestWell'
<1> USE DEF RequestWell, epochs, controller
<1>1. CASE Send
  BY <1>1 DEF Send
<1>2. CASE Retarget \/ Close \/ OpenSession \/ Recover
  BY <1>2 DEF Retarget, Close, OpenSession, Recover, Load, ForgetConversation
<1>3. CASE request' = request
  BY <1>3 DEF IInv
<1>4. CASE RetrySubmission \/ Reconnect \/ RefreshStatus \/ Stop \/ Pause \/ Resume
  BY <1>3, <1>4 DEF RetrySubmission, Reconnect, RefreshStatus, Stop, Pause, Resume, Control
<1>5. CASE epoch' = epoch
  BY <1>3, <1>5, EpochStep
<1>6. CASE \E c \in calls : Answers(c)
  BY <1>5, <1>6 DEF Answers, OwnerCreates, OwnerReads, OwnerControls, NetworkLoses
<1>7. CASE \E c \in calls : Continues(c)
  BY <1>5, <1>7 DEF Continues, Discard, CreateSettles, RunSettles, ControlRefused,
     RefreshSettles, ReconcileSettles, RecoverSettles, OpenSettles
<1>8. CASE StreamNext \/ UNCHANGED vars \/ \E r \in Asks : OwnerMoves(r)
  BY <1>5, <1>8 DEF StreamNext, StreamDelta, StreamTerminal, StreamInterrupted, OwnerMoves, vars
<1> QED
  BY <1>1, <1>2, <1>4, <1>6, <1>7, <1>8 DEF Next, UserNext

\* A stream is the old one, none, or one of a run.
LEMMA SubStep ==
  ASSUME IInv, [Next]_vars
  PROVE  \/ sub' = sub
         \/ sub' = NoSub
         \/ epoch' = epoch /\ sub'.run \in Asks /\ \E c \in calls : c.epoch = epoch
<1> USE DEF epochs, controller, ResetView
<1>0. CallsWell
  BY DEF IInv
<1>1. ASSUME NEW r \in Asks, Subscribe(r) \/ DropStream \/ SameStream
      PROVE  sub' = sub \/ sub' = NoSub \/ sub'.run \in Asks
  BY <1>1 DEF Subscribe, DropStream, SameStream, NewSub
<1>2. CASE UserNext
  BY <1>2 DEF UserNext, Send, RetrySubmission, Reconnect, RefreshStatus, Stop, Pause, Resume,
     Control, Retarget, Close, OpenSession, Recover, Load
<1>3. CASE \E c \in calls : Answers(c)
  BY <1>3 DEF Answers, OwnerCreates, OwnerReads, OwnerControls, NetworkLoses
<1>4. ASSUME NEW c \in calls, CreateSettles(c) \/ RunSettles(c) \/ RecoverSettles(c)
      PROVE  /\ sub' = sub \/ sub' = NoSub \/ sub'.run \in Asks
             /\ c.epoch = epoch /\ epoch' = epoch
  <2>1. c.epoch = epoch /\ epoch' = epoch
    BY <1>4 DEF CreateSettles, RunSettles, RecoverSettles, Fresh, Valid
  <2>2. CASE CreateSettles(c)
    BY <2>2, <2>1, <1>0, <1>1 DEF CreateSettles, CallsWell
  <2>3. CASE RunSettles(c)
    BY <2>3, <2>1, <1>0, <1>1 DEF RunSettles, CallsWell, ControlOps
  <2>4. CASE RecoverSettles(c)
    BY <2>4, <2>1, <1>0, <1>1 DEF RecoverSettles, CallsWell
  <2> QED
    BY <2>1, <2>2, <2>3, <2>4, <1>4
<1>5. ASSUME NEW c \in calls, RefreshSettles(c)
      PROVE  /\ sub' = sub \/ sub' = NoSub \/ sub'.run \in Asks
             /\ c.epoch = epoch /\ epoch' = epoch
  <2>1. c.epoch = epoch /\ epoch' = epoch /\ c.run \in Asks
    BY <1>0, <1>5 DEF RefreshSettles, Fresh, Valid, CallsWell
  <2>2. sub' = sub \/ sub' = NoSub \/ sub' = NewSub(c.run, streamEpoch + 2)
    BY <1>5 DEF RefreshSettles, SameStream, DropStream
  <2> QED
    BY <2>1, <2>2 DEF NewSub
<1>6. CASE \E c \in calls : Continues(c)
  BY <1>4, <1>5, <1>6 DEF Continues, Discard, ControlRefused, ReconcileSettles, OpenSettles
<1>7. CASE StreamNext \/ UNCHANGED vars \/ \E r \in Asks : OwnerMoves(r)
  BY <1>7 DEF StreamNext, StreamDelta, StreamTerminal, StreamInterrupted, DropStream,
     OwnerMoves, vars
<1> QED
  BY <1>2, <1>3, <1>6, <1>7 DEF Next

LEMMA SubWellStep ==
  ASSUME IInv, [Next]_vars
  PROVE  SubWell'
BY SubStep DEF IInv, SubWell

\* An idle view stays idle and alone, and only a new epoch makes a view idle.
LEMMA IdleStep ==
  ASSUME IInv, [Next]_vars, view'.phase = "idle" \/ (view.phase = "idle" /\ epoch' = epoch)
  PROVE  \/ /\ epoch' = epoch /\ UNCHANGED <<view, sub, confirmed, limited>>
            /\ view.phase = "idle"
         \/ /\ epoch' = epoch + 1 /\ calls' = calls
            /\ view'.run = NoAsk /\ sub' = NoSub
<1> USE DEF epochs, controller, context
<1>0. /\ view \in View /\ calls \in SUBSET Call /\ epoch \in Nat /\ epoch + 1 # epoch
      /\ CallsWell /\ IdleAlone
  BY DEF IInv, TypeOK
<1>1. ASSUME NEW c \in calls, Fresh(c)
      PROVE  view.phase # "idle"
  BY <1>0, <1>1 DEF Fresh, Valid, IdleAlone, CallsWell, Call
<1>2. CASE RetrySubmission \/ Reconnect
  <2>1. view'.phase = "submitting"
    BY <1>0, <1>2 DEF RetrySubmission, Reconnect, View
  <2>2. view.phase # "idle"
    BY <1>2 DEF RetrySubmission, Reconnect
  <2> QED
    BY <2>1, <2>2
<1>3. Interrupted.phase = "interrupted" /\ InterruptedEmpty.phase = "interrupted"
  BY <1>0 DEF Interrupted, InterruptedEmpty, View
<1>4. \A r, a : Shown(r, a).phase # "idle"
  BY DEF Shown, PhaseOf
<1>5. CASE Send \/ Stop \/ Pause \/ Resume \/ OpenSession \/ Recover
  <2>1. \E r : ResetView("submitting", r)
    BY <1>5 DEF Send, Stop, Pause, Resume, Control, OpenSession, Recover, Load
  <2>2. view'.phase = "submitting" /\ epoch' # epoch
    BY <2>1, <1>0 DEF ResetView, ResetEpochs
  <2> QED
    BY <2>2
<1>6. CASE RefreshStatus
  BY <1>6 DEF RefreshStatus
<1>7. CASE Retarget
  BY <1>7 DEF Retarget, ResetView, ResetEpochs
<1>8. CASE Close
  BY <1>8 DEF Close, EpochAfterClose
<1>9. CASE \E c \in calls : Answers(c)
  BY <1>9 DEF Answers, OwnerCreates, OwnerReads, OwnerControls, NetworkLoses
<1>10. ASSUME NEW c \in calls, Discard(c) \/ ControlRefused(c)
       PROVE  epoch' = epoch /\ UNCHANGED <<view, sub, confirmed, limited>>
  BY <1>10 DEF Discard, ControlRefused
<1>11. ASSUME NEW c \in calls,
              \/ CreateSettles(c) \/ RunSettles(c) \/ RefreshSettles(c)
              \/ ReconcileSettles(c) \/ RecoverSettles(c) \/ OpenSettles(c)
       PROVE  view.phase # "idle" /\ view'.phase # "idle"
  <2>1. view.phase # "idle"
    BY <1>1, <1>11 DEF CreateSettles, RunSettles, RefreshSettles, ReconcileSettles,
       RecoverSettles, OpenSettles
  <2>2. CASE CreateSettles(c)
    BY <2>1, <2>2, <1>3, <1>4 DEF CreateSettles
  <2>3. CASE RunSettles(c)
    BY <2>1, <2>3, <1>3, <1>4 DEF RunSettles
  <2>4. CASE RefreshSettles(c)
    BY <2>1, <2>4, <1>3, <1>4 DEF RefreshSettles
  <2>5. CASE ReconcileSettles(c)
    BY <2>1, <2>5, <1>3, <1>4 DEF ReconcileSettles
  <2>6. CASE RecoverSettles(c)
    BY <2>1, <2>6, <1>3, <1>4 DEF RecoverSettles
  <2>7. CASE OpenSettles(c)
    BY <2>1, <2>7, <1>3 DEF OpenSettles
  <2> QED
    BY <2>2, <2>3, <2>4, <2>5, <2>6, <2>7, <1>11
<1>12. CASE \E c \in calls : Continues(c)
  BY <1>10, <1>11, <1>12 DEF Continues
<1>13. CASE StreamNext
  BY <1>0, <1>3, <1>13 DEF StreamNext, StreamDelta, StreamTerminal, StreamInterrupted,
     IdleAlone, View
<1>14. CASE UNCHANGED vars \/ \E r \in Asks : OwnerMoves(r)
  BY <1>14 DEF OwnerMoves, vars
<1> QED
  BY <1>2, <1>5, <1>6, <1>7, <1>8, <1>9, <1>12, <1>13, <1>14 DEF Next, UserNext

LEMMA IdleAloneStep ==
  ASSUME IInv, [Next]_vars
  PROVE  IdleAlone'
<1> SUFFICES ASSUME view'.phase = "idle"
             PROVE  /\ view'.run = NoAsk /\ sub' = NoSub
                    /\ \A d \in calls' : d.epoch < epoch'
  BY DEF IdleAlone
<1>0. epoch \in Nat /\ calls \in SUBSET Call /\ CallsWell /\ IdleAlone /\ epoch + 1 # epoch
  BY DEF IInv, TypeOK
<1>1. CASE epoch' = epoch + 1 /\ calls' = calls /\ view'.run = NoAsk /\ sub' = NoSub
  <2>1. \A c \in calls : c.epoch \in Nat /\ c.epoch <= epoch
    BY <1>0 DEF CallsWell, Call
  <2> QED
    BY <2>1, <1>0, <1>1
<1>2. CASE epoch' = epoch /\ UNCHANGED <<view, sub>> /\ view.phase = "idle"
  <2>1. \A c \in calls : c.epoch < epoch
    BY <1>0, <1>2 DEF IdleAlone
  <2>2. ASSUME NEW d \in calls', d \notin calls
        PROVE  \E c \in calls : d.epoch = c.epoch
    <3>1. ~ MadeNow(d)'
      BY <1>2 DEF MadeNow
    <3>2. ASSUME NEW c \in calls, NEW a, d = [c EXCEPT !.ans = a]
          PROVE  d.epoch = c.epoch
      <4>1. c \in Call
        BY <1>0
      <4> QED
        BY <3>2, <4>1 DEF Call
    <3>3. \/ \E c \in calls, a \in Answer : d = [c EXCEPT !.ans = a]
          \/ \E c \in calls : d.epoch = c.epoch
      BY <2>2, <3>1, CallsStep
    <3> QED
      BY <3>2, <3>3
  <2>3. view'.run = NoAsk /\ sub' = NoSub
    BY <1>0, <1>2 DEF IdleAlone
  <2> QED
    BY <2>1, <2>2, <2>3, <1>2
<1>3. \/ epoch' = epoch /\ view' = view /\ sub' = sub /\ view.phase = "idle"
      \/ epoch' = epoch + 1 /\ calls' = calls /\ view'.run = NoAsk /\ sub' = NoSub
  BY IdleStep
<1> QED
  BY <1>1, <1>2, <1>3

\* What a verified answer paints is the owner's outcome.
LEMMA ShownIsTrue ==
  ASSUME NEW r \in Asks, NEW a \in Answer, Truthful(r, a), Verified(a) \/ a.status # "completed",
         view' = Shown(r, a), runs' = runs
  PROVE  VerifiedOutcome'
<1>1. /\ view'.phase = PhaseOf(a.status) /\ view'.run = r
      /\ view'.out = IF a.status = "completed" THEN "final" ELSE "none"
  BY DEF Shown
<1>2. PhaseOf(a.status) \in Terminal => a.status \in FinalStatus
  BY DEF PhaseOf, Terminal, FinalStatus, Answer, Status, LiveStatus
<1>3. PhaseOf(a.status) = "completed" => a.status = "completed"
  BY DEF PhaseOf, Answer, Status, LiveStatus, FinalStatus
<1> QED
  BY <1>1, <1>2, <1>3, ChatAssumption DEF VerifiedOutcome, Truthful, Verified

LEMMA OutcomeStep ==
  ASSUME IInv, [Next]_vars
  PROVE  VerifiedOutcome'
<1> USE DEF epochs, controller, owner
<1>0. /\ view \in View /\ calls \in SUBSET Call /\ runs \in [Asks -> Run]
      /\ CallsWell /\ CallsTrue /\ VerifiedOutcome /\ IdleAlone
      /\ NoAsk \notin Asks
  BY ChatAssumption DEF IInv, TypeOK
<1>1. CASE view' = view
  <2>1. view.phase \in Terminal => view.run \in Asks
    BY <1>0 DEF VerifiedOutcome, View, Asks0
  <2>2. view.phase \in Terminal => runs[view.run].status \in FinalStatus
    BY <2>1, <1>0 DEF VerifiedOutcome, Terminal, PhaseOf, FinalStatus, Run, Status, LiveStatus
  <2>3. view.phase = "completed" => runs[view.run].status = "completed"
    BY <2>1, <1>0 DEF VerifiedOutcome, Terminal, PhaseOf, FinalStatus, Run, Status, LiveStatus
  <2> QED
    BY <1>0, <1>1, <2>1, <2>2, <2>3, OwnerStep DEF VerifiedOutcome
<1>2. CASE view'.phase \notin Terminal
  BY <1>2 DEF VerifiedOutcome
<1>3. Interrupted.phase = "interrupted" /\ InterruptedEmpty.phase = "interrupted"
  BY <1>0 DEF Interrupted, InterruptedEmpty, View
<1>4. ASSUME NEW c \in calls
      PROVE  /\ c.ans \in Answer /\ (c.ans.is = "run" => Truthful(Subject(c), c.ans))
             /\ c.op = "create" => Subject(c) = c.req.key /\ c.req.key \in Asks
             /\ c.op # "create" => Subject(c) = c.run /\ c.run \in Asks
  BY <1>0 DEF Call, CallsTrue, CallsWell, Subject
<1>5. CASE UserNext
  <2>1. CASE RetrySubmission \/ Reconnect
    <3>1. view'.phase = "submitting"
      BY <1>0, <2>1 DEF RetrySubmission, Reconnect, View
    <3> QED
      BY <3>1, <1>2 DEF Terminal
  <2>2. CASE Send \/ Stop \/ Pause \/ Resume \/ OpenSession \/ Recover \/ Retarget
    <3>1. \E r : ResetView("idle", r) \/ ResetView("submitting", r)
      BY <2>2 DEF Send, Stop, Pause, Resume, Control, OpenSession, Recover, Load, Retarget
    <3>2. view'.phase \in {"idle", "submitting"}
      BY <3>1 DEF ResetView
    <3> QED
      BY <3>2, <1>2 DEF Terminal
  <2>3. CASE Close
    BY <2>3, <1>2 DEF Close, Terminal
  <2>4. CASE RefreshStatus
    BY <2>4, <1>1 DEF RefreshStatus
  <2> QED
    BY <2>1, <2>2, <2>3, <2>4, <1>5 DEF UserNext
<1>6. CASE \E c \in calls : Answers(c)
  BY <1>1, <1>6 DEF Answers, OwnerCreates, OwnerReads, OwnerControls, NetworkLoses
<1>7. ASSUME NEW c \in calls, CreateSettles(c)
      PROVE  VerifiedOutcome'
  <2>1. \/ view'.phase = "interrupted" \/ view'.phase = "running"
        \/ c.ans.is = "run" /\ c.ans.status # "completed" /\ view' = Shown(c.req.key, c.ans)
    BY <1>3, <1>7 DEF CreateSettles
  <2>2. runs' = runs /\ c.op = "create"
    BY <1>7 DEF CreateSettles
  <2> QED
    BY <2>1, <2>2, <1>2, <1>4, ShownIsTrue DEF Terminal
<1>8. ASSUME NEW c \in calls, RunSettles(c) \/ ReconcileSettles(c) \/ RecoverSettles(c)
      PROVE  VerifiedOutcome'
  <2>1. \/ view'.phase = "interrupted"
        \/ Verified(c.ans) /\ view' = Shown(c.run, c.ans)
    BY <1>3, <1>8 DEF RunSettles, ReconcileSettles, RecoverSettles, Final
  <2>2. runs' = runs /\ c.op # "create"
    BY <1>8 DEF RunSettles, ReconcileSettles, RecoverSettles, ControlOps
  <2> QED
    BY <2>1, <2>2, <1>2, <1>4, ShownIsTrue DEF Terminal, Verified
<1>9. ASSUME NEW c \in calls, RefreshSettles(c)
      PROVE  VerifiedOutcome'
  <2>1. \/ view'.phase = "interrupted" \/ view' = view
        \/ Verified(c.ans) /\ view' = Shown(c.run, c.ans)
    BY <1>3, <1>9 DEF RefreshSettles
  <2>2. runs' = runs /\ c.op # "create"
    BY <1>9 DEF RefreshSettles
  <2> QED
    BY <2>1, <2>2, <1>1, <1>2, <1>4, ShownIsTrue DEF Terminal, Verified
<1>10. ASSUME NEW c \in calls, OpenSettles(c)
       PROVE  VerifiedOutcome'
  <2> DEFINE newest == c.ans.rows[Len(c.ans.rows)]
  <2>1. \/ view'.phase \in {"interrupted", "recovery-required"}
        \/ /\ c.ans.is = "rows" /\ Whole(newest)
           /\ view' = [run |-> newest.run, phase |-> "completed", out |-> "final"]
    BY <1>3, <1>10 DEF OpenSettles
  <2>2. runs' = runs
    BY <1>10 DEF OpenSettles
  <2>3. CASE c.ans.is = "rows" /\ Whole(newest)
             /\ view' = [run |-> newest.run, phase |-> "completed", out |-> "final"]
    <3>1. c.ans.rows \in Seq(Row) /\ c.ans.rows # << >>
      BY <2>3, <1>0, <1>4 DEF Answer, CallsWell
    <3>2. Len(c.ans.rows) \in 1..Len(c.ans.rows)
      BY <3>1
    <3>3. newest \in Row /\ Truthful(newest.run, newest)
      BY <3>1, <3>2, <1>0, ElementOfSeq DEF CallsTrue
    <3>4. newest.run \in Asks /\ newest.status = "completed" /\ newest.out = "final"
      BY <3>3, <2>3 DEF Row, Whole, RowFits
    <3>5. runs[newest.run].status = "completed" /\ runs[newest.run].out = "final"
      BY <3>3, <3>4 DEF Truthful, FinalStatus
    <3> HIDE DEF newest
    <3> QED
      BY <3>4, <3>5, <2>2, <2>3, <1>0 DEF VerifiedOutcome, PhaseOf
  <2> QED
    BY <2>1, <2>3, <1>2 DEF Terminal
<1>11. CASE \E c \in calls : Continues(c)
  BY <1>1, <1>7, <1>8, <1>9, <1>10, <1>11 DEF Continues, Discard, ControlRefused
<1>12. CASE StreamNext
  <2>1. view' = view \/ view'.phase = "interrupted"
        \/ (view'.phase = view.phase /\ view.phase \notin Terminal)
    BY <1>0, <1>3, <1>12 DEF StreamNext, StreamDelta, StreamTerminal, StreamInterrupted, Heard, View
  <2> QED
    BY <2>1, <1>1, <1>2 DEF Terminal
<1>13. CASE UNCHANGED vars \/ \E r \in Asks : OwnerMoves(r)
  BY <1>1, <1>13 DEF OwnerMoves, vars
<1> QED
  BY <1>5, <1>6, <1>11, <1>12, <1>13 DEF Next

LEMMA OwnRunStep ==
  ASSUME IInv, [Next]_vars
  PROVE  OwnRunShown'
<1> USE DEF epochs, controller
<1>0. /\ view \in View /\ calls \in SUBSET Call /\ CallsWell /\ CallsOwn /\ OwnRunShown
      /\ sub \in Sub
  BY DEF IInv, TypeOK
<1>1. CASE request' = request /\ view'.run \in {NoAsk, view.run}
  BY <1>0, <1>1 DEF OwnRunShown
<1>2. CASE request' = NoRequest \/ view'.run = NoAsk
  BY <1>2 DEF OwnRunShown
<1>3. Interrupted.run = view.run /\ InterruptedEmpty.run = view.run
  BY <1>0 DEF Interrupted, InterruptedEmpty, View
<1>4. \A r, a : Shown(r, a).run = r
  BY DEF Shown
<1>5. CASE RetrySubmission \/ Reconnect \/ RefreshStatus
  <2>1. request' = request /\ view'.run = view.run
    BY <1>0, <1>5 DEF RetrySubmission, Reconnect, RefreshStatus, View
  <2> QED
    BY <2>1, <1>1
<1>6. CASE Stop \/ Pause \/ Resume
  <2>1. request' = request /\ ResetView("submitting", view.run)
    BY <1>6 DEF Stop, Pause, Resume, Control
  <2> QED
    BY <2>1, <1>1 DEF ResetView
<1>7. CASE Send \/ OpenSession \/ Recover \/ Retarget
  <2>1. \E phase : ResetView(phase, NoAsk)
    BY <1>7 DEF Send, OpenSession, Recover, Load, Retarget
  <2> QED
    BY <2>1, <1>2 DEF ResetView
<1>8. CASE Close
  BY <1>8, <1>2 DEF Close
<1>9. CASE \E c \in calls : Answers(c)
  BY <1>1, <1>9 DEF Answers, OwnerCreates, OwnerReads, OwnerControls, NetworkLoses
<1>10. ASSUME NEW c \in calls, CreateSettles(c)
       PROVE  OwnRunShown'
  <2>1. c.epoch = epoch /\ c.op = "create" /\ request' = request
    BY <1>10 DEF CreateSettles, Fresh, Valid
  <2>2. c.req = request
    BY <2>1, <1>0 DEF CallsOwn
  <2>3. view'.run \in {view.run, c.req.key}
    BY <1>3, <1>4, <1>10 DEF CreateSettles
  <2> QED
    BY <2>1, <2>2, <2>3, <1>0 DEF OwnRunShown
<1>11. ASSUME NEW c \in calls, RunSettles(c) \/ ReconcileSettles(c) \/ RefreshSettles(c)
       PROVE  OwnRunShown'
  <2>1. c.op \notin {"open", "recover", "create"} /\ SameRun(c) /\ request' = request
    BY <1>11 DEF RunSettles, ReconcileSettles, RefreshSettles, Fresh, ControlOps
  <2>2. view.run = c.run \/ c.run = NoAsk
    BY <2>1 DEF SameRun
  <2>3. view'.run \in {view.run, c.run}
    <3>1. CASE RunSettles(c)
      BY <3>1, <1>3, <1>4 DEF RunSettles
    <3>2. CASE ReconcileSettles(c)
      BY <3>2, <1>3, <1>4 DEF ReconcileSettles
    <3>3. CASE RefreshSettles(c)
      BY <3>3, <1>3, <1>4 DEF RefreshSettles
    <3> QED
      BY <3>1, <3>2, <3>3, <1>11
  <2> QED
    BY <2>1, <2>2, <2>3, <1>1
<1>12. ASSUME NEW c \in calls, RecoverSettles(c) \/ OpenSettles(c)
       PROVE  OwnRunShown'
  <2>1. c.epoch = epoch /\ c.op \in {"open", "recover"} /\ request' = request
    BY <1>12 DEF RecoverSettles, OpenSettles, Fresh, Valid
  <2> QED
    BY <2>1, <1>0, <1>2 DEF CallsOwn
<1>13. CASE \E c \in calls : Continues(c)
  BY <1>1, <1>10, <1>11, <1>12, <1>13 DEF Continues, Discard, ControlRefused
<1>14. CASE StreamNext
  <2>1. view'.run = view.run /\ request' = request
    BY <1>0, <1>3, <1>14 DEF StreamNext, StreamDelta, StreamTerminal, StreamInterrupted, View
  <2> QED
    BY <2>1, <1>1
<1>15. CASE UNCHANGED vars \/ \E r \in Asks : OwnerMoves(r)
  BY <1>1, <1>15 DEF OwnerMoves, vars
<1> QED
  BY <1>5, <1>6, <1>7, <1>8, <1>9, <1>13, <1>14, <1>15 DEF Next, UserNext

----------------------------------------------------------------------------
(* A running view is watched *)

\* The second way to be watched: a call that will settle the view.
Watches(c) == c.op \in {"reconcile", "reconnect"} /\ Fresh(c)

\* A call goes on watching while the epoch and the run shown stay.
LEMMA WatchGoesOn ==
  ASSUME NEW c, Watches(c), NEW d,
         d.op = c.op, d.epoch = c.epoch, d.selection = c.selection, d.run = c.run,
         epoch' = epoch, selection' = selection, view'.run = view.run,
         view'.phase \notin Terminal
  PROVE  Watches(d)'
BY DEF Watches, Fresh, Valid, SameRun, NewestCheck, Yields

\* Whoever subscribes hears the stream.
LEMMA SubscriberHears ==
  ASSUME NEW r \in Asks, sub' = NewSub(r, streamEpoch'), epoch' = epoch,
         selection' = selection, view'.run = r, view'.phase \notin Terminal
  PROVE  (sub # NoSub /\ Heard)'
BY ChatAssumption DEF NewSub, NoSub, Heard

\* A step that keeps the view and its stream, and every watching call but for
\* its answer, keeps the view watched.
LEMMA WatchedStaysWatched ==
  ASSUME RunningIsWatched, UNCHANGED <<epoch, streamEpoch, selection, sub>>,
         view'.phase = view.phase, view'.run = view.run,
         \A c \in calls : Watches(c) => \E d \in calls' :
           /\ d.op = c.op /\ d.epoch = c.epoch /\ d.selection = c.selection
           /\ d.run = c.run
  PROVE  RunningIsWatched'
<1> SUFFICES ASSUME view.phase = "running"
             PROVE  \/ (sub # NoSub /\ Heard)'
                    \/ \E d \in calls' : Watches(d)'
  BY DEF RunningIsWatched, Watches
<1>1. CASE sub # NoSub /\ Heard
  BY <1>1 DEF Heard
<1>2. CASE \E c \in calls : Watches(c)
  <2>1. PICK c \in calls : Watches(c)
    BY <1>2
  <2>2. PICK d \in calls' : /\ d.op = c.op /\ d.epoch = c.epoch
                            /\ d.selection = c.selection /\ d.run = c.run
    BY <2>1
  <2>3. view'.phase \notin Terminal
    BY DEF Terminal
  <2> QED
    BY <2>1, <2>2, <2>3, WatchGoesOn
<1> QED
  BY <1>1, <1>2 DEF RunningIsWatched, Watches

LEMMA WatchedStep ==
  ASSUME IInv, RunningIsWatched, [Next]_vars
  PROVE  RunningIsWatched'
<1> USE DEF epochs, controller
<1>0. /\ view \in View /\ calls \in SUBSET Call /\ sub \in Sub /\ CallsWell /\ SubWell
      /\ NoAsk \notin Asks
  BY ChatAssumption DEF IInv, TypeOK
<1>1. CASE view'.phase # "running"
  BY <1>1 DEF RunningIsWatched
<1>2. CASE UNCHANGED <<epoch, streamEpoch, selection, sub>> /\ view'.phase = view.phase
           /\ view'.run = view.run /\ calls \subseteq calls'
  <2>1. \A c \in calls : \E d \in calls' :
           /\ d.op = c.op /\ d.epoch = c.epoch /\ d.selection = c.selection
           /\ d.run = c.run
    BY <1>2
  <2> QED
    BY <1>2, <2>1, WatchedStaysWatched
<1>3. Interrupted.phase = "interrupted" /\ InterruptedEmpty.phase = "interrupted"
  BY <1>0 DEF Interrupted, InterruptedEmpty, View
<1>4. ASSUME NEW r \in Asks, NEW a, view' = Shown(r, a), PhaseOf(a.status) = "running",
             sub' = NewSub(r, streamEpoch'), epoch' = epoch, selection' = selection
      PROVE  RunningIsWatched'
  <2>1. view'.run = r /\ view'.phase = "running"
    BY <1>4 DEF Shown
  <2>2. view'.phase \notin Terminal
    BY <2>1 DEF Terminal
  <2> QED
    BY <1>4, <2>1, <2>2, SubscriberHears DEF RunningIsWatched
<1>5. CASE UserNext
  <2>1. CASE RetrySubmission \/ Reconnect
    <3>1. view'.phase = "submitting"
      BY <1>0, <2>1 DEF RetrySubmission, Reconnect, View
    <3> QED
      BY <3>1, <1>1
  <2>2. CASE Send \/ Stop \/ Pause \/ Resume \/ OpenSession \/ Recover \/ Retarget
    <3>1. \E r : ResetView("idle", r) \/ ResetView("submitting", r)
      BY <2>2 DEF Send, Stop, Pause, Resume, Control, OpenSession, Recover, Load, Retarget
    <3> QED
      BY <3>1, <1>1 DEF ResetView
  <2>3. CASE Close
    BY <2>3, <1>1 DEF Close
  <2>4. CASE RefreshStatus
    BY <2>4, <1>2 DEF RefreshStatus, Dispatch
  <2> QED
    BY <2>1, <2>2, <2>3, <2>4, <1>5 DEF UserNext
<1>6. ASSUME NEW c \in calls, Answers(c)
      PROVE  RunningIsWatched'
  <2>1. PICK a : Reply(c, a)
    BY <1>6 DEF Answers, OwnerCreates, OwnerReads, OwnerControls, NetworkLoses
  <2>2. UNCHANGED <<epoch, streamEpoch, selection, sub, view>>
    BY <1>6 DEF Answers, OwnerCreates, OwnerReads, OwnerControls, NetworkLoses
  <2> DEFINE e == [c EXCEPT !.ans = a]
  <2>3. e \in calls' /\ \A d \in calls : d # c => d \in calls'
    BY <2>1 DEF Reply, Replace
  <2>4. c \in Call
    BY <1>0
  <2>5. e.op = c.op /\ e.epoch = c.epoch /\ e.selection = c.selection /\ e.run = c.run
    BY <2>4 DEF Call
  <2> HIDE DEF e
  <2>6. \A b \in calls : \E d \in calls' :
           /\ d.op = b.op /\ d.epoch = b.epoch /\ d.selection = b.selection
           /\ d.run = b.run
    BY <2>3, <2>5
  <2> QED
    BY <2>2, <2>6, WatchedStaysWatched
<1>7. ASSUME NEW c \in calls, Discard(c) \/ ControlRefused(c)
             \/ (RefreshSettles(c) /\ view' = view /\ UNCHANGED <<streamEpoch, sub>>)
      PROVE  RunningIsWatched'
  <2>1. UNCHANGED <<epoch, streamEpoch, selection, sub, view>>
    BY <1>7 DEF Discard, ControlRefused, RefreshSettles
  <2>2. ~Watches(c)
    BY <1>7, <1>0 DEF Discard, ControlRefused, RefreshSettles, Watches, CallsWell,
                      Refused, Pending, ControlOps
  <2>3. \A d \in calls : d # c => d \in calls'
    BY <1>7 DEF Discard, ControlRefused, Readback, RefreshSettles, Settle, Replace
  <2>4. \A b \in calls : Watches(b) => \E d \in calls' :
           /\ d.op = b.op /\ d.epoch = b.epoch /\ d.selection = b.selection
           /\ d.run = b.run
    BY <2>2, <2>3
  <2> QED
    BY <2>1, <2>4, WatchedStaysWatched
<1>8. ASSUME NEW c \in calls, CreateSettles(c)
      PROVE  RunningIsWatched'
  <2> DEFINE r == c.req.key
  <2>0. r \in Asks
    BY <1>8, <1>0 DEF CreateSettles, CallsWell
  <2>1. CASE c.ans = Lost /\ view' = Interrupted
    BY <2>1, <1>1, <1>3
  <2>2. CASE /\ view' = [phase |-> "running", run |-> r, out |-> "none"]
             /\ Replace(c, MakeCall("reconcile", epoch, streamEpoch + 1, r, NoRequest))
    <3> DEFINE d == MakeCall("reconcile", epoch, streamEpoch + 1, r, NoRequest)
    <3>1. d \in calls'
      BY <2>2 DEF Replace
    <3>2. d.op = "reconcile" /\ d.epoch = epoch /\ d.selection = selection /\ d.run = r
      BY DEF MakeCall
    <3>3. epoch' = epoch /\ selection' = selection
      BY <1>8 DEF CreateSettles
    <3> HIDE DEF d
    <3>4. PICK b : b = d
      OBVIOUS
    <3>5. view'.run = r /\ view'.phase = "running"
      BY <2>2
    <3>6. Fresh(b)'
      BY <3>2, <3>3, <3>4, <3>5 DEF Fresh, Valid, SameRun, NewestCheck, Yields, Terminal
    <3> QED
      BY <3>1, <3>2, <3>4, <3>6 DEF RunningIsWatched
  <2>3. CASE /\ view' = Shown(r, c.ans)
             /\ IF PhaseOf(c.ans.status) \in Terminal THEN SameStream ELSE Subscribe(r)
    <3>1. view'.phase = PhaseOf(c.ans.status)
      BY <2>3 DEF Shown
    <3>2. CASE PhaseOf(c.ans.status) = "running"
      <4>1. Subscribe(r)
        BY <2>3, <3>2 DEF Terminal
      <4>2. sub' = NewSub(r, streamEpoch') /\ epoch' = epoch /\ selection' = selection
        BY <4>1, <1>8 DEF Subscribe, CreateSettles
      <4> QED
        BY <4>2, <2>0, <2>3, <3>2, <1>4
    <3> QED
      BY <3>1, <3>2, <1>1
  <2> QED
    BY <2>1, <2>2, <2>3, <1>8 DEF CreateSettles
<1>9. ASSUME NEW c \in calls, RunSettles(c) \/ RecoverSettles(c)
      PROVE  RunningIsWatched'
  <2>0. c.run \in Asks /\ epoch' = epoch /\ selection' = selection
    BY <1>9, <1>0 DEF RunSettles, RecoverSettles, CallsWell, ControlOps
  <2>1. CASE view' = Interrupted
    BY <2>1, <1>1, <1>3
  <2>2. CASE /\ view' = Shown(c.run, c.ans)
             /\ IF PhaseOf(c.ans.status) = "running" THEN Subscribe(c.run) ELSE SameStream
    <3>1. view'.phase = PhaseOf(c.ans.status)
      BY <2>2 DEF Shown
    <3>2. CASE PhaseOf(c.ans.status) = "running"
      <4>1. sub' = NewSub(c.run, streamEpoch')
        BY <2>2, <3>2 DEF Subscribe
      <4> QED
        BY <4>1, <2>0, <2>2, <3>2, <1>4
    <3> QED
      BY <3>1, <3>2, <1>1
  <2> QED
    BY <2>1, <2>2, <1>9 DEF RunSettles, RecoverSettles
<1>10. ASSUME NEW c \in calls, RefreshSettles(c)
       PROVE  RunningIsWatched'
  <2>0. c.run \in Asks /\ epoch' = epoch /\ selection' = selection
    BY <1>10, <1>0 DEF RefreshSettles, CallsWell
  <2>1. CASE view' = view /\ UNCHANGED <<streamEpoch, sub>>
    BY <2>1, <1>7, <1>10
  <2>2. CASE view' = InterruptedEmpty
    BY <2>2, <1>1, <1>3
  <2>3. CASE /\ view' = Shown(c.run, c.ans)
             /\ IF PhaseOf(c.ans.status) = "running"
                THEN /\ streamEpoch' = streamEpoch + 2
                     /\ sub' = NewSub(c.run, streamEpoch + 2)
                ELSE DropStream
    <3>1. view'.phase = PhaseOf(c.ans.status)
      BY <2>3 DEF Shown
    <3>2. CASE PhaseOf(c.ans.status) = "running"
      BY <2>3, <3>2, <2>0, <1>4
    <3> QED
      BY <3>1, <3>2, <1>1
  <2> QED
    BY <2>1, <2>2, <2>3, <1>10 DEF RefreshSettles, SameStream
<1>11. ASSUME NEW c \in calls, ReconcileSettles(c)
       PROVE  RunningIsWatched'
  <2>1. view'.phase = "interrupted" \/ view'.phase \in Terminal
    BY <1>11, <1>3 DEF ReconcileSettles, Final, Shown
  <2> QED
    BY <2>1, <1>1 DEF Terminal
<1>12. ASSUME NEW c \in calls, OpenSettles(c)
       PROVE  RunningIsWatched'
  <2>1. view'.phase \in {"interrupted", "completed", "recovery-required"}
    BY <1>12, <1>3 DEF OpenSettles
  <2> QED
    BY <2>1, <1>1
<1>13. CASE \E c \in calls : Continues(c)
  BY <1>7, <1>8, <1>9, <1>10, <1>11, <1>12, <1>13 DEF Continues
<1>14. CASE StreamDelta
  <2>1. view'.phase = view.phase /\ view'.run = view.run
    BY <1>14, <1>0 DEF StreamDelta, View
  <2> QED
    BY <2>1, <1>2, <1>14 DEF StreamDelta
<1>15. CASE StreamTerminal
  <2> DEFINE d == MakeCall("reconcile", epoch, streamEpoch + 1, sub.run, NoRequest)
  <2>1. d \in calls'
    BY <1>15 DEF StreamTerminal, Dispatch
  <2>2. d.op = "reconcile" /\ d.epoch = epoch /\ d.selection = selection /\ d.run = sub.run
    BY DEF MakeCall
  <2>3. UNCHANGED <<epoch, selection, view>> /\ view.run = sub.run /\ view.phase \notin Terminal
    BY <1>15 DEF StreamTerminal, Heard
  <2> HIDE DEF d
  <2>4. PICK b : b = d
    OBVIOUS
  <2>5. Fresh(b)'
    BY <2>2, <2>3, <2>4 DEF Fresh, Valid, SameRun, NewestCheck, Yields
  <2> QED
    BY <2>1, <2>2, <2>4, <2>5 DEF RunningIsWatched
<1>16. CASE StreamInterrupted
  <2>1. CASE Heard
    BY <2>1, <1>16, <1>1, <1>3 DEF StreamInterrupted
  <2>2. CASE ~Heard
    <3>1. UNCHANGED <<view, epoch, selection, calls>>
      BY <2>2, <1>16 DEF StreamInterrupted
    <3> SUFFICES ASSUME view.phase = "running"
                 PROVE  RunningIsWatched'
      BY <3>1 DEF RunningIsWatched
    <3>2. PICK c \in calls : Watches(c)
      BY <2>2 DEF RunningIsWatched, Watches
    <3>3. Watches(c)'
      BY <3>1, <3>2, WatchGoesOn DEF Terminal
    <3> QED
      BY <3>1, <3>2, <3>3 DEF RunningIsWatched, Watches
  <2> QED
    BY <2>1, <2>2
<1>17. CASE UNCHANGED vars \/ \E r \in Asks : OwnerMoves(r)
  BY <1>2, <1>17 DEF OwnerMoves, vars
<1> QED
  BY <1>5, <1>6, <1>13, <1>14, <1>15, <1>16, <1>17 DEF Next, StreamNext

----------------------------------------------------------------------------
(* A verified outcome stays as it is *)

\* While the view waits for the answer to a message, a control or a loading,
\* the epoch has no other call and no stream that it hears: reset() and the
\* application, which offers no check meanwhile, see to it.
SoleOps == {"create", "open", "recover", "readback"} \cup ControlOps
SoleCall ==
  \A c \in calls : c.epoch = epoch /\ c.op \in SoleOps =>
    /\ view.phase = "submitting" /\ (view.run = NoAsk \/ sub = NoSub)
    /\ \A d \in calls : d.epoch = epoch => d = c

\* The other calls follow up a run that the view shows.
FollowUps ==
  \A c \in calls : c.epoch = epoch /\ c.op \notin SoleOps => view.run # NoAsk

\* An outcome without an answer shows no text.
OutcomeShown ==
  view.phase \in Terminal /\ view.phase # "completed" => view.out = "none"

KeptInv == SoleCall /\ FollowUps /\ OutcomeShown

\* No call of the present epoch that the view waits for.
NoSole == \A c \in calls : c.epoch = epoch => c.op \notin SoleOps

LEMMA NoSoleUnlessSubmitting ==
  ASSUME SoleCall, view.phase # "submitting"
  PROVE  NoSole
BY DEF SoleCall, NoSole

LEMMA NoSoleWhenHeard ==
  ASSUME IInv, SoleCall, sub # NoSub, Heard
  PROVE  NoSole
<1>1. view.run = sub.run /\ sub.run \in Asks /\ NoAsk \notin Asks
  BY ChatAssumption DEF IInv, SubWell, Heard
<1> QED
  BY <1>1 DEF SoleCall, NoSole

\* When its one call is settled, or none was there, the epoch has only calls
\* that follow up the run of the view.
LEMMA OnlyFollowUps ==
  ASSUME FollowUps, epoch' = epoch,
         \A d \in calls' : d.epoch = epoch =>
           /\ d.op \notin SoleOps
           /\ d \in calls \/ view'.run # NoAsk,
         view.run # NoAsk => view'.run # NoAsk
  PROVE  SoleCall' /\ FollowUps'
BY DEF SoleCall, FollowUps

\* The call of the epoch is settled, with or without a call that follows up.
LEMMA SoleSettles ==
  ASSUME SoleCall, FollowUps, epoch' = epoch, NEW c \in calls, c.epoch = epoch,
         \A d \in calls' :
           \/ d \in calls /\ d # c
           \/ d.op \notin SoleOps /\ view'.run # NoAsk,
         view.run # NoAsk => view'.run # NoAsk
  PROVE  SoleCall' /\ FollowUps'
<1>1. ASSUME NEW d \in calls, d # c, d.epoch = epoch
      PROVE  d.op \notin SoleOps
  BY <1>1 DEF SoleCall
<1> QED
  BY <1>1, OnlyFollowUps

\* A call is answered, or a refused control is read back.
LEMMA SoleAnswered ==
  ASSUME SoleCall, FollowUps, UNCHANGED <<epoch, view, sub>>, NEW c \in calls, NEW e,
         e.epoch = c.epoch, e.op \in SoleOps <=> c.op \in SoleOps,
         calls' \subseteq (calls \ {c}) \cup {e}
  PROVE  SoleCall' /\ FollowUps'
<1>1. FollowUps'
  BY DEF FollowUps
<1>2. ASSUME NEW d \in calls', d.epoch = epoch, d.op \in SoleOps
      PROVE  /\ view.phase = "submitting" /\ (view.run = NoAsk \/ sub = NoSub)
             /\ \A b \in calls' : b.epoch = epoch => b = d
  <2>1. CASE d = e
    BY <1>2, <2>1 DEF SoleCall
  <2>2. CASE d \in calls /\ d # c
    <3>1. c.epoch # epoch
      BY <1>2, <2>2 DEF SoleCall
    <3> QED
      BY <1>2, <2>2, <3>1 DEF SoleCall
  <2> QED
    BY <1>2, <2>1, <2>2
<1> QED
  BY <1>1, <1>2 DEF SoleCall

\* A new epoch has at most the call that it was begun for.
LEMMA SoleOfNewEpoch ==
  ASSUME IInv, epoch' = epoch + 1,
         \/ calls' = calls
         \/ /\ \E n : calls' = calls \cup {n} /\ n.op \in SoleOps
            /\ view'.phase = "submitting" /\ sub' = NoSub
  PROVE  SoleCall' /\ FollowUps'
<1>1. \A c \in calls : c.epoch # epoch'
  <2>1. \A c \in calls : c.epoch \in Nat /\ c.epoch <= epoch /\ epoch \in Nat
    BY DEF IInv, TypeOK, CallsWell, Call
  <2> QED
    BY <2>1
<1>2. CASE calls' = calls
  BY <1>1, <1>2 DEF SoleCall, FollowUps
<1>3. CASE /\ \E n : calls' = calls \cup {n} /\ n.op \in SoleOps
           /\ view'.phase = "submitting" /\ sub' = NoSub
  <2>1. PICK n : calls' = calls \cup {n} /\ n.op \in SoleOps
    BY <1>3
  <2>2. FollowUps'
    BY <1>1, <2>1 DEF FollowUps
  <2>3. SoleCall'
    BY <1>1, <1>3, <2>1 DEF SoleCall
  <2> QED
    BY <2>2, <2>3
<1> QED
  BY <1>2, <1>3

LEMMA SoleStep ==
  ASSUME IInv, SoleCall, FollowUps, ~CheckInFlight, [Next]_vars
  PROVE  SoleCall' /\ FollowUps'
<1> USE DEF epochs, controller
<1>0. /\ view \in View /\ calls \in SUBSET Call /\ CallsWell /\ SubWell /\ sub \in Sub
      /\ NoAsk \notin Asks
  BY ChatAssumption DEF IInv, TypeOK
<1>1. \A op, e, t, r, q : MakeCall(op, e, t, r, q).op = op /\ MakeCall(op, e, t, r, q).epoch = e
  BY DEF MakeCall
<1>2. Interrupted.run = view.run /\ InterruptedEmpty.run = view.run
  BY <1>0 DEF Interrupted, InterruptedEmpty, View
<1>3. \A r, a : Shown(r, a).run = r
  BY DEF Shown
<1>4. CASE Send \/ OpenSession \/ Recover \/ Stop \/ Pause \/ Resume
  <2>1. /\ epoch' = epoch + 1 /\ view'.phase = "submitting" /\ sub' = NoSub
    BY <1>4 DEF Send, OpenSession, Recover, Load, Stop, Pause, Resume, Control,
                ResetView, ResetEpochs
  <2>2. \E n : calls' = calls \cup {n} /\ n.op \in SoleOps
    <3>1. CASE Send
      BY <3>1, <1>1 DEF Send, Dispatch, SoleOps
    <3>2. CASE OpenSession \/ Recover
      BY <3>2, <1>1 DEF OpenSession, Recover, Load, Dispatch, SoleOps
    <3>3. CASE Stop \/ Pause \/ Resume
      BY <3>3, <1>1 DEF Stop, Pause, Resume, Control, Dispatch, SoleOps, ControlOps
    <3> QED
      BY <3>1, <3>2, <3>3, <1>4
  <2> QED
    BY <2>1, <2>2, SoleOfNewEpoch
<1>5. CASE Retarget \/ Close
  <2>1. epoch' = epoch + 1 /\ calls' = calls
    BY <1>5 DEF Retarget, Close, EpochAfterClose, ResetView, ResetEpochs
  <2> QED
    BY <2>1, SoleOfNewEpoch
<1>6. CASE RetrySubmission
  <2>1. NoSole
    BY <1>6, NoSoleUnlessSubmitting DEF RetrySubmission
  <2>2. \A c \in calls : c.epoch # epoch
    BY <2>1, <1>6 DEF NoSole, FollowUps, RetrySubmission
  <2>3. /\ epoch' = epoch /\ view'.phase = "submitting" /\ view'.run = NoAsk
    BY <1>6, <1>0 DEF RetrySubmission, View
  <2>4. PICK n : calls' = calls \cup {n} /\ n.op = "create"
    BY <1>6, <1>1 DEF RetrySubmission, Dispatch
  <2>5. FollowUps'
    BY <2>2, <2>3, <2>4 DEF FollowUps, SoleOps
  <2>6. SoleCall'
    BY <2>2, <2>3, <2>4 DEF SoleCall
  <2> QED
    BY <2>5, <2>6
<1>7. CASE Reconnect \/ RefreshStatus
  <2>1. NoSole
    BY <1>7, NoSoleUnlessSubmitting DEF Reconnect, RefreshStatus, CheckOffered
  <2>2. epoch' = epoch /\ view'.run = view.run /\ view.run # NoAsk
    BY <1>7, <1>0 DEF Reconnect, RefreshStatus, View
  <2>3. PICK n : calls' = calls \cup {n} /\ n.op \in {"reconnect", "refresh"}
    BY <1>7, <1>1 DEF Reconnect, RefreshStatus, Dispatch
  <2> QED
    BY <2>1, <2>2, <2>3, OnlyFollowUps DEF NoSole, SoleOps, ControlOps
<1>8. ASSUME NEW c \in calls, Answers(c)
      PROVE  SoleCall' /\ FollowUps'
  <2>1. PICK a : Reply(c, a)
    BY <1>8 DEF Answers, OwnerCreates, OwnerReads, OwnerControls, NetworkLoses
  <2>2. UNCHANGED <<epoch, sub, view>>
    BY <1>8 DEF Answers, OwnerCreates, OwnerReads, OwnerControls, NetworkLoses
  <2>3. PICK e : e = [c EXCEPT !.ans = a]
    OBVIOUS
  <2>4. e.op = c.op /\ e.epoch = c.epoch
    BY <2>3, <1>0 DEF Call
  <2>5. calls' = (calls \ {c}) \cup {e}
    BY <2>1, <2>3 DEF Reply, Replace
  <2> QED
    BY <2>2, <2>4, <2>5, SoleAnswered
<1>9. ASSUME NEW c \in calls, ControlRefused(c) \/ Discard(c)
      PROVE  SoleCall' /\ FollowUps'
  <2>1. UNCHANGED <<epoch, sub, view>>
    BY <1>9 DEF ControlRefused, Discard
  <2>2. PICK e : e = MakeCall("readback", c.epoch, 0, c.run, NoRequest)
    OBVIOUS
  <2>3. CASE Settle(c)
    BY <2>1, <2>3, SoleAnswered DEF Settle
  <2>4. CASE Replace(c, e) /\ ControlRefused(c)
    <3>1. c.op \in ControlOps
      BY <2>4, <1>0 DEF ControlRefused, CallsWell, Refused, Pending
    <3>2. e.epoch = c.epoch /\ e.op \in SoleOps /\ c.op \in SoleOps
      BY <3>1, <2>2, <1>1 DEF SoleOps
    <3>3. calls' = (calls \ {c}) \cup {e}
      BY <2>4 DEF Replace
    <3> QED
      BY <2>1, <3>2, <3>3, SoleAnswered
  <2> QED
    BY <1>9, <2>2, <2>3, <2>4 DEF ControlRefused, Discard, Readback
<1>10. ASSUME NEW c \in calls, CreateSettles(c)
       PROVE  SoleCall' /\ FollowUps'
  <2>1. c.epoch = epoch /\ epoch' = epoch /\ c.req.key \in Asks
    BY <1>10, <1>0 DEF CreateSettles, Fresh, Valid, CallsWell
  <2>2. \/ Settle(c)
        \/ /\ view'.run = c.req.key
           /\ \E n : Replace(c, n) /\ n.op = "reconcile"
    BY <1>10, <1>1 DEF CreateSettles
  <2>3. view'.run = view.run \/ view'.run = c.req.key
    BY <1>10, <1>2, <1>3 DEF CreateSettles
  <2>4. \A d \in calls' :
           \/ d \in calls /\ d # c
           \/ d.op \notin SoleOps /\ view'.run # NoAsk
    BY <2>1, <2>2, <1>0 DEF Settle, Replace, SoleOps, ControlOps
  <2>5. view.run # NoAsk => view'.run # NoAsk
    BY <2>1, <2>3, <1>0
  <2> QED
    BY <2>1, <2>4, <2>5, SoleSettles
<1>11. ASSUME NEW c \in calls,
              \/ RunSettles(c) \/ RefreshSettles(c) \/ ReconcileSettles(c)
              \/ RecoverSettles(c) \/ OpenSettles(c)
       PROVE  SoleCall' /\ FollowUps'
  <2>1. c.epoch = epoch /\ epoch' = epoch /\ Settle(c) /\ c.op # "create"
    BY <1>11 DEF RunSettles, RefreshSettles, ReconcileSettles, RecoverSettles, OpenSettles,
                 Fresh, Valid, ControlOps
  <2>2. c.run \in Asks
    BY <2>1, <1>0 DEF CallsWell
  <2>3. view.run # NoAsk => view'.run # NoAsk
    <3>1. CASE RunSettles(c) \/ ReconcileSettles(c) \/ RecoverSettles(c) \/ RefreshSettles(c)
      <4>1. view' = view \/ view'.run = view.run \/ view'.run = c.run
        BY <3>1, <1>2, <1>3 DEF RunSettles, ReconcileSettles, RecoverSettles, RefreshSettles
      <4> QED
        BY <4>1, <2>2, <1>0
    <3>2. CASE OpenSettles(c)
      <4>1. CASE c.ans = Lost /\ view' = Interrupted
        BY <4>1, <1>2
      <4>2. CASE c.ans.is = "rows" /\ view'.run = c.ans.rows[Len(c.ans.rows)].run
        <5>1. c.ans.rows \in Seq(Row) /\ c.ans.rows # << >>
          BY <4>2, <1>0 DEF Call, Answer, CallsWell
        <5>2. Len(c.ans.rows) \in 1..Len(c.ans.rows)
          BY <5>1
        <5>3. c.ans.rows[Len(c.ans.rows)] \in Row
          BY <5>1, <5>2, ElementOfSeq
        <5> QED
          BY <5>3, <4>2, <1>0 DEF Row
      <4> QED
        BY <3>2, <4>1, <4>2 DEF OpenSettles
    <3> QED
      BY <3>1, <3>2, <1>11
  <2>4. \A d \in calls' : d \in calls /\ d # c
    BY <2>1 DEF Settle
  <2> QED
    BY <2>1, <2>3, <2>4, SoleSettles
<1>12. CASE StreamNext
  <2>1. CASE StreamInterrupted /\ ~Heard
    <3>1. UNCHANGED <<view, calls, epoch>> /\ sub' = NoSub
      BY <2>1 DEF StreamInterrupted
    <3> QED
      BY <3>1 DEF SoleCall, FollowUps
  <2>2. CASE sub # NoSub /\ Heard
    <3>1. NoSole
      BY <2>2, NoSoleWhenHeard
    <3>2. epoch' = epoch /\ view'.run = view.run /\ view.run # NoAsk
      BY <1>12, <2>2, <1>0, <1>2 DEF StreamNext, StreamDelta, StreamTerminal,
        StreamInterrupted, Heard, View, SubWell
    <3>3. \A d \in calls' : d \in calls \/ d.op = "reconcile"
      BY <1>12, <2>2, <1>1 DEF StreamNext, StreamDelta, StreamTerminal, StreamInterrupted,
        Dispatch
    <3> QED
      BY <3>1, <3>2, <3>3, OnlyFollowUps DEF NoSole, SoleOps, ControlOps
  <2> QED
    BY <1>12, <2>1, <2>2 DEF StreamNext, StreamDelta, StreamTerminal, StreamInterrupted
<1>13. CASE UNCHANGED vars \/ \E r \in Asks : OwnerMoves(r)
  <2>1. UNCHANGED <<view, calls, epoch, sub>>
    BY <1>13 DEF OwnerMoves, vars
  <2> QED
    BY <2>1 DEF SoleCall, FollowUps
<1> QED
  BY <1>4, <1>5, <1>6, <1>7, <1>8, <1>9, <1>10, <1>11, <1>12, <1>13
     DEF Next, UserNext, Continues

LEMMA OutcomeShownStep ==
  ASSUME IInv, OutcomeShown, [Next]_vars
  PROVE  OutcomeShown'
<1> USE DEF epochs, controller
<1>0. view \in View /\ view'.phase \in Phase
  <2>1. TypeOK /\ TypeOK'
    BY TypeStep DEF IInv
  <2> QED
    BY <2>1 DEF TypeOK, View
<1>1. CASE view' = view \/ view'.phase \notin Terminal \/ view'.phase = "completed"
  BY <1>1 DEF OutcomeShown
<1>2. Interrupted.phase = "interrupted" /\ InterruptedEmpty.phase = "interrupted"
  BY <1>0 DEF Interrupted, InterruptedEmpty, View
<1>3. ASSUME NEW r, NEW a, view' = Shown(r, a)
      PROVE  OutcomeShown'
  BY <1>3 DEF OutcomeShown, Shown, PhaseOf, Terminal
<1>4. CASE UserNext
  <2>1. CASE RetrySubmission \/ Reconnect
    <3>1. view'.phase = "submitting"
      BY <1>0, <2>1 DEF RetrySubmission, Reconnect, View
    <3> QED
      BY <3>1, <1>1 DEF Terminal
  <2>2. CASE Send \/ Stop \/ Pause \/ Resume \/ OpenSession \/ Recover \/ Retarget
    <3>1. \E r : ResetView("idle", r) \/ ResetView("submitting", r)
      BY <2>2 DEF Send, Stop, Pause, Resume, Control, OpenSession, Recover, Load, Retarget
    <3>2. view'.phase \in {"idle", "submitting"}
      BY <3>1 DEF ResetView
    <3> QED
      BY <3>2, <1>1 DEF Terminal
  <2>3. CASE Close
    BY <2>3, <1>1 DEF Close, Terminal
  <2>4. CASE RefreshStatus
    BY <2>4, <1>1 DEF RefreshStatus
  <2> QED
    BY <2>1, <2>2, <2>3, <2>4, <1>4 DEF UserNext
<1>5. ASSUME NEW c \in calls, Answers(c) \/ Discard(c) \/ ControlRefused(c)
      PROVE  OutcomeShown'
  BY <1>1, <1>5 DEF Answers, OwnerCreates, OwnerReads, OwnerControls, NetworkLoses,
                    Discard, ControlRefused
<1>6. ASSUME NEW c \in calls,
             \/ CreateSettles(c) \/ RunSettles(c) \/ RefreshSettles(c)
             \/ ReconcileSettles(c) \/ RecoverSettles(c)
      PROVE  OutcomeShown'
  <2>1. \/ view' = view \/ view'.phase \in {"interrupted", "running"}
        \/ view' = Shown(c.run, c.ans) \/ view' = Shown(c.req.key, c.ans)
    BY <1>6, <1>2 DEF CreateSettles, RunSettles, RefreshSettles, ReconcileSettles, RecoverSettles
  <2> QED
    BY <2>1, <1>1, <1>3 DEF Terminal
<1>7. ASSUME NEW c \in calls, OpenSettles(c)
      PROVE  OutcomeShown'
  <2>1. view'.phase \in {"interrupted", "completed", "recovery-required"}
    BY <1>7, <1>2 DEF OpenSettles
  <2> QED
    BY <2>1, <1>1 DEF Terminal
<1>8. CASE StreamNext
  <2>1. view' = view \/ view'.phase = "interrupted"
        \/ (view'.phase = view.phase /\ view.phase \notin Terminal)
    BY <1>0, <1>2, <1>8 DEF StreamNext, StreamDelta, StreamTerminal, StreamInterrupted,
                            Heard, View
  <2> QED
    BY <2>1, <1>1 DEF Terminal
<1>9. CASE UNCHANGED vars \/ \E r \in Asks : OwnerMoves(r)
  BY <1>1, <1>9 DEF OwnerMoves, vars
<1> QED
  BY <1>4, <1>5, <1>6, <1>7, <1>8, <1>9 DEF Next, Continues

\* The step of the theorem below.
LEMMA KeptStep ==
  ASSUME IInv, SoleCall, OutcomeShown, ~CheckInFlight, [Next]_vars,
         view.phase \in Terminal, epoch' = epoch, ~UnverifiedCheck
  PROVE  view' = view
<1> USE DEF epochs, controller
<1>0. /\ view \in View /\ calls \in SUBSET Call /\ CallsWell /\ CallsTrue /\ VerifiedOutcome
      /\ epoch \in Nat /\ NoAsk \notin Asks
  BY ChatAssumption DEF IInv, TypeOK
<1>1. NoSole /\ view.phase \notin {"submitting", "interrupted"}
  BY NoSoleUnlessSubmitting DEF Terminal
<1>2. epoch' # epoch + 1
  BY <1>0
<1>3. CASE UserNext
  BY <1>1, <1>2, <1>3 DEF UserNext, Send, RetrySubmission, Reconnect, RefreshStatus, Stop, Pause,
    Resume, Control, Retarget, Close, EpochAfterClose, OpenSession, Recover, Load, ResetView,
    ResetEpochs
<1>4. ASSUME NEW c \in calls, Answers(c) \/ Discard(c) \/ ControlRefused(c)
      PROVE  view' = view
  BY <1>4 DEF Answers, OwnerCreates, OwnerReads, OwnerControls, NetworkLoses,
              Discard, ControlRefused
<1>5. ASSUME NEW c \in calls,
             CreateSettles(c) \/ RunSettles(c) \/ RecoverSettles(c) \/ OpenSettles(c)
             \/ ReconcileSettles(c)
      PROVE  FALSE
  <2>1. Fresh(c) /\ c.epoch = epoch
    BY <1>5 DEF CreateSettles, RunSettles, RecoverSettles, OpenSettles, ReconcileSettles,
                Fresh, Valid
  <2>2. c.op \notin {"reconnect", "reconcile"}
    BY <2>1 DEF Fresh, Yields
  <2>3. c.op \in SoleOps
    BY <1>5, <2>2 DEF CreateSettles, RunSettles, RecoverSettles, OpenSettles, ReconcileSettles,
                      SoleOps
  <2> QED
    BY <2>1, <2>3, <1>1 DEF NoSole
<1>6. ASSUME NEW c \in calls, RefreshSettles(c)
      PROVE  view' = view
  <2>1. c.op = "refresh" /\ Settle(c) /\ view.run = c.run /\ c.run \in Asks
    BY <1>6, <1>0 DEF RefreshSettles, Fresh, SameRun, CallsWell
  <2>2. c \in calls \ calls'
    BY <2>1 DEF Settle
  <2>3. c.ans.is = "run" => Verified(c.ans)
    BY <2>1, <2>2 DEF UnverifiedCheck
  <2>4. CASE Verified(c.ans) /\ PhaseOf(c.ans.status) \in Terminal /\ view' = Shown(c.run, c.ans)
    <3>1. c.ans \in Answer /\ Truthful(c.run, c.ans)
      BY <2>1, <2>4, <1>0 DEF Call, CallsTrue, Verified, Subject
    <3>2. c.ans.status \in FinalStatus
      BY <2>4, <3>1 DEF PhaseOf, Terminal, FinalStatus, Answer, Status, LiveStatus
    <3>3. runs[c.run].status = c.ans.status
      BY <3>1, <3>2 DEF Truthful
    <3>4. PhaseOf(c.ans.status) = view.phase
      BY <3>3, <2>1, <1>0 DEF VerifiedOutcome
    <3>5. c.ans.status = "completed" <=> view.phase = "completed"
      BY <3>2, <3>4 DEF PhaseOf, FinalStatus
    <3>6. view.out = IF c.ans.status = "completed" THEN "final" ELSE "none"
      BY <3>5, <1>0 DEF VerifiedOutcome, OutcomeShown
    <3>7. Shown(c.run, c.ans) = [phase |-> view.phase, run |-> view.run, out |-> view.out]
      BY <3>4, <3>6, <2>1 DEF Shown
    <3>8. view = [phase |-> view.phase, run |-> view.run, out |-> view.out]
      BY <1>0 DEF View
    <3> QED
      BY <2>4, <3>7, <3>8
  <2> QED
    BY <1>6, <2>3, <2>4, <1>1 DEF RefreshSettles, Terminal
<1>7. CASE StreamNext
  BY <1>7 DEF StreamNext, StreamDelta, StreamTerminal, StreamInterrupted, Heard
<1>8. CASE UNCHANGED vars \/ \E r \in Asks : OwnerMoves(r)
  BY <1>8 DEF OwnerMoves, vars
<1> QED
  BY <1>3, <1>4, <1>5, <1>6, <1>7, <1>8 DEF Next, Continues

----------------------------------------------------------------------------
(* The confirmed turns are those VerifiedConversation allows *)

\* The log names each run once, under a key that was handed out.
LogOnce ==
  /\ \A i \in 1..Len(log) : log[i] \in used /\ runs[log[i]] # NoRun
  /\ \A i, j \in 1..Len(log) : log[i] = log[j] => i = j

\* Only keys that were handed out are asked with.
KeysUsed ==
  /\ request # NoRequest => request.key \in used
  /\ \A c \in calls : c.op = "create" => c.req.key \in used

\* Rows are of the log.
RowsOnce ==
  \A c \in calls :
    /\ \A i \in 1..Len(c.ans.rows) : c.ans.rows[i].run \in used
    /\ \A i, j \in 1..Len(c.ans.rows) : c.ans.rows[i].run = c.ans.rows[j].run => i = j

\* Turns are of keys handed out; the turn of the present request is there
\* only when confirmedRun says so.
TurnsUsed ==
  /\ \A i \in 1..Len(confirmed) : \E k \in used : confirmed[i] = [ask |-> k, run |-> k]
  /\ request # NoRequest /\ confirmedRun # request.key
       => \A i \in 1..Len(confirmed) : confirmed[i].run # request.key

TurnsInv == LogOnce /\ KeysUsed /\ RowsOnce /\ TurnsUsed

\* Of a sequence without repetition, Pick takes no element twice.
LEMMA PickOnce ==
  ASSUME NEW S, NEW s \in Seq(S), NEW K \in SUBSET (1..Len(s)),
         \A m, n \in 1..Len(s) : s[m] = s[n] => m = n,
         NEW i \in 1..Len(Pick(s, K)), NEW j \in 1..Len(Pick(s, K)),
         Pick(s, K)[i] = Pick(s, K)[j]
  PROVE  i = j
<1>1. Len(s) \in Nat /\ i \in 1..Cardinality(K) /\ j \in 1..Cardinality(K)
  BY PickElements
<1>2. /\ Nth(K, i) \in K /\ Cardinality({m \in K : m <= Nth(K, i)}) = i
      /\ Nth(K, j) \in K /\ Cardinality({m \in K : m <= Nth(K, j)}) = j
  BY <1>1, NthIn
<1>3. s[Nth(K, i)] = s[Nth(K, j)]
  BY <1>1 DEF Pick
<1>4. Nth(K, i) = Nth(K, j)
  BY <1>2, <1>3
<1> QED
  BY <1>2, <1>4

\* The elements of the end of a sequence are elements of the sequence, each
\* at a place of its own.
LEMMA TailElements ==
  ASSUME NEW S, NEW h \in Seq(S), NEW i \in 1..Len(h)+1,
         NEW j \in 1..Len(SubSeq(h, i, Len(h)))
  PROVE  i + j - 1 \in 1..Len(h) /\ SubSeq(h, i, Len(h))[j] = h[i + j - 1]
<1>1. Len(h) \in Nat /\ i \in Int /\ Len(h) \in Int /\ \A m \in i..Len(h) : h[m] \in S
  BY ElementOfSeq
<1>2. /\ Len(SubSeq(h, i, Len(h))) = IF i <= Len(h) THEN Len(h) - i + 1 ELSE 0
      /\ \A m \in 1..Len(h) - i + 1 : SubSeq(h, i, Len(h))[m] = h[i + m - 1]
  BY <1>1, SubSeqProperties
<1>3. j \in 1..Len(h) - i + 1
  BY <1>1, <1>2
<1> QED
  BY <1>1, <1>2, <1>3

\* A bounded history is the end of the history.
LEMMA BoundedIsTail ==
  ASSUME NEW h \in Seq(Pair)
  PROVE  \E i \in 1..Len(h)+1 : BoundedHistory(h) = SubSeq(h, i, Len(h))
<1> DEFINE kept == {i \in 1..Len(h) : Fits(h, i)}
<1>1. Len(h) \in Nat /\ Cardinality(kept) \in 0..Len(h)
  BY PositionsFinite
<1>2. Len(h) + 1 - Cardinality(kept) \in 1..Len(h)+1
  <2> HIDE DEF kept
  <2> QED
    BY <1>1
<1> QED
  BY <1>2 DEF BoundedHistory

\* A shortened list of pairs is its end.
LEMMA NewestIsTail ==
  ASSUME NEW h \in Seq(Pair)
  PROVE  \E i \in 1..Len(h)+1 : NewestPairs(h) = SubSeq(h, i, Len(h))
<1>1. Len(h) \in Nat /\ MaxPairs \in Nat
  BY ChatAssumption
<1> DEFINE first == IF Len(h) > MaxPairs THEN Len(h) + 1 - MaxPairs ELSE 1
<1>2. first \in 1..Len(h)+1
  BY <1>1
<1>3. NewestPairs(h) = SubSeq(h, first, Len(h))
  BY DEF NewestPairs
<1> QED
  BY <1>2, <1>3

\* The turns openSession() takes from the rows of a session.
WholeOf(rows) == Pick(rows, {i \in 1..Len(rows) : Whole(rows[i])})
TurnsOf(whole) ==
  NewestPairs([i \in 1..Len(whole) |-> [ask |-> whole[i].run, run |-> whole[i].run]])

\* They are of whole rows, each once.
LEMMA HistoryTurns ==
  ASSUME NEW rows \in Seq(Row),
         \A m, n \in 1..Len(rows) : rows[m].run = rows[n].run => m = n
  PROVE  /\ \A i \in 1..Len(TurnsOf(WholeOf(rows))) : \E m \in 1..Len(rows) :
              /\ Whole(rows[m])
              /\ TurnsOf(WholeOf(rows))[i] = [ask |-> rows[m].run, run |-> rows[m].run]
         /\ \A i, j \in 1..Len(TurnsOf(WholeOf(rows))) :
              TurnsOf(WholeOf(rows))[i] = TurnsOf(WholeOf(rows))[j] => i = j
<1> DEFINE whole == WholeOf(rows)
<1> DEFINE turns == TurnsOf(whole)
<1> DEFINE K == {i \in 1..Len(rows) : Whole(rows[i])}
<1> DEFINE h == [i \in 1..Len(whole) |-> [ask |-> whole[i].run, run |-> whole[i].run]]
<1>0. K \in SUBSET (1..Len(rows)) /\ whole = Pick(rows, K)
  BY DEF WholeOf
<1>1. /\ whole \in Seq(Row) /\ Len(whole) \in Nat
      /\ \A i \in 1..Len(whole) : \E k \in K : whole[i] = rows[k]
  <2> HIDE DEF K, whole
  <2>2. /\ Pick(rows, K) \in Seq(Row)
        /\ \A i \in 1..Len(Pick(rows, K)) : \E k \in K : Pick(rows, K)[i] = rows[k]
    BY <1>0, PickElements
  <2>3. /\ whole \in Seq(Row)
        /\ \A i \in 1..Len(whole) : \E k \in K : whole[i] = rows[k]
    BY <1>0, <2>2
  <2>4. Len(whole) \in Nat
    BY <2>3
  <2> QED
    BY <2>3, <2>4
<1> HIDE DEF whole
<1>2. \A i \in 1..Len(whole) : whole[i].run \in Asks
  <2>1. \A i \in 1..Len(whole) : whole[i] \in Row
    BY <1>1, ElementOfSeq
  <2> QED
    BY <2>1 DEF Row
<1>3. ASSUME NEW i \in 1..Len(whole), NEW j \in 1..Len(whole), whole[i].run = whole[j].run
      PROVE  i = j
  <2>1. \A m, n \in 1..Len(rows) : rows[m] = rows[n] => m = n
    OBVIOUS
  <2>2. PICK k \in K : whole[i] = rows[k]
    BY <1>1
  <2>3. PICK l \in K : whole[j] = rows[l]
    BY <1>1
  <2>4. whole[i] = whole[j]
    BY <1>3, <2>2, <2>3
  <2> HIDE DEF K
  <2> QED
    BY <1>0, <2>1, <2>4, PickOnce
<1>4. h \in Seq(Pair) /\ Len(h) = Len(whole)
  BY <1>1, <1>2 DEF Pair
<1>5. \A i \in 1..Len(h) : h[i] = [ask |-> whole[i].run, run |-> whole[i].run]
  BY <1>4
<1>6. ASSUME NEW i \in 1..Len(h), NEW j \in 1..Len(h), h[i] = h[j]
      PROVE  i = j
  BY <1>3, <1>4, <1>5, <1>6
<1>7. ASSUME NEW i \in 1..Len(h)
      PROVE  \E m \in 1..Len(rows) : /\ Whole(rows[m])
                                     /\ h[i] = [ask |-> rows[m].run, run |-> rows[m].run]
  BY <1>1, <1>4, <1>5
<1>8. turns = NewestPairs(h)
  BY DEF TurnsOf
<1> HIDE DEF h, K, turns
<1>9. PICK i \in 1..Len(h)+1 : turns = SubSeq(h, i, Len(h))
  BY <1>4, <1>8, NewestIsTail
<1>10. ASSUME NEW j \in 1..Len(turns)
       PROVE  i + j - 1 \in 1..Len(h) /\ turns[j] = h[i + j - 1]
  <2>1. j \in 1..Len(SubSeq(h, i, Len(h)))
    BY <1>9
  <2>2. i + j - 1 \in 1..Len(h) /\ SubSeq(h, i, Len(h))[j] = h[i + j - 1]
    BY <1>4, <2>1, TailElements
  <2> QED
    BY <1>9, <2>2
<1>11. \A m, n \in 1..Len(turns) : turns[m] = turns[n] => m = n
  <2>1. SUFFICES ASSUME NEW m \in 1..Len(turns), NEW n \in 1..Len(turns),
                        turns[m] = turns[n]
                 PROVE  m = n
    OBVIOUS
  <2>2. h[i + m - 1] = h[i + n - 1] /\ i + m - 1 \in 1..Len(h) /\ i + n - 1 \in 1..Len(h)
    BY <1>10, <2>1
  <2>4. i + m - 1 = i + n - 1
    BY <1>6, <2>2
  <2>3. m \in Int /\ n \in Int /\ i \in Int
    BY <1>4
  <2> QED
    BY <2>3, <2>4
<1>12. ASSUME NEW j \in 1..Len(turns)
       PROVE  \E m \in 1..Len(rows) : /\ Whole(rows[m])
                                      /\ turns[j] = [ask |-> rows[m].run, run |-> rows[m].run]
  <2>1. i + j - 1 \in 1..Len(h) /\ turns[j] = h[i + j - 1]
    BY <1>10
  <2>2. PICK m \in 1..Len(rows) : /\ Whole(rows[m])
                                  /\ h[i + j - 1] = [ask |-> rows[m].run, run |-> rows[m].run]
    BY <1>7, <2>1
  <2> QED
    BY <2>1, <2>2
<1> QED
  BY <1>11, <1>12 DEF turns, whole

\* What a step does to the request and the confirmed turns.
KeepsTurns == UNCHANGED <<request, confirmed, confirmedRun, used>>
AsksNow ==
  \E k \in Asks \ used :
    /\ used' = used \cup {k}
    /\ request' # NoRequest /\ request'.key = k
    /\ confirmed' = BoundedHistory(confirmed) /\ confirmedRun' = confirmedRun
    /\ UNCHANGED owner
Forgets == request' = NoRequest /\ confirmed' = << >> /\ used' = used /\ UNCHANGED owner
Admits ==
  /\ request # NoRequest /\ confirmedRun # request.key
  /\ runs[request.key].status = "completed" /\ runs[request.key].out = "final"
  /\ confirmedRun' = request.key
  /\ confirmed' = BoundedHistory(Append(confirmed, [ask |-> request.key, run |-> request.key]))
  /\ request' = request /\ used' = used /\ UNCHANGED owner
Opens ==
  \E c \in calls :
    /\ c.ans.is = "rows" /\ request = NoRequest
    /\ confirmed' = TurnsOf(WholeOf(c.ans.rows))
    /\ request' = request /\ used' = used /\ UNCHANGED owner

LEMMA ContextStep ==
  ASSUME IInv, [Next]_vars
  PROVE  KeepsTurns \/ AsksNow \/ Forgets \/ Admits \/ Opens
<1> USE DEF epochs, controller, context
<1>0. /\ calls \in SUBSET Call /\ CallsWell /\ CallsOwn /\ CallsTrue /\ OwnRunShown
      /\ NoAsk \notin Asks /\ view \in View
  BY ChatAssumption DEF IInv, TypeOK
<1>1. CASE UserNext
  <2>1. CASE Send
    <3>1. PICK k \in Asks \ used :
            /\ used' = used \cup {k} /\ confirmed' = BoundedHistory(confirmed)
            /\ request'.key = k
      BY <2>1 DEF Send
    <3>2. request' # NoRequest
      BY <3>1, <1>0 DEF NoRequest
    <3>3. confirmedRun' = confirmedRun /\ UNCHANGED owner
      BY <2>1 DEF Send
    <3> QED
      BY <3>1, <3>2, <3>3 DEF AsksNow
  <2>2. CASE OpenSession \/ Recover \/ Retarget \/ Close
    <3>1. ForgetConversation /\ used' = used /\ UNCHANGED owner
      BY <2>2 DEF OpenSession, Recover, Load, Retarget, Close
    <3> QED
      BY <3>1 DEF ForgetConversation, Forgets
  <2>3. CASE RetrySubmission \/ Reconnect \/ RefreshStatus \/ Stop \/ Pause \/ Resume
    BY <2>3 DEF RetrySubmission, Reconnect, RefreshStatus, Stop, Pause, Resume, Control,
                KeepsTurns
  <2> QED
    BY <1>1, <2>1, <2>2, <2>3 DEF UserNext
<1>2. CASE \E c \in calls : Answers(c)
  BY <1>2 DEF Answers, OwnerCreates, OwnerReads, OwnerControls, NetworkLoses, KeepsTurns
<1>3. ASSUME NEW c \in calls, Verified(c.ans), Confirm(c.run, c.ans), Fresh(c),
             c.op \notin {"create", "open", "recover"}, UNCHANGED <<owner, request, used>>
      PROVE  KeepsTurns \/ Admits
  <2>1. CASE ~Confirms(c.run, c.ans)
    BY <2>1, <1>3 DEF Confirm, KeepsTurns
  <2>2. CASE Confirms(c.run, c.ans)
    <3>1. c.run \in Asks /\ request # NoRequest /\ view.run = c.run
      BY <2>2, <1>0, <1>3 DEF CallsWell, Confirms, Fresh, SameRun
    <3>2. c.run = request.key
      BY <3>1, <1>0 DEF OwnRunShown
    <3>3. Truthful(c.run, c.ans)
      BY <1>0, <1>3 DEF CallsTrue, Subject, Verified
    <3>4. runs[c.run].status = "completed" /\ runs[c.run].out = "final"
      BY <3>3, <2>2 DEF Truthful, Confirms, FinalStatus
    <3> QED
      BY <3>1, <3>2, <3>4, <2>2, <1>3 DEF Confirm, Confirms, Admits
  <2> QED
    BY <2>1, <2>2
<1>4. ASSUME NEW c \in calls,
             Discard(c) \/ ControlRefused(c) \/ CreateSettles(c) \/ RecoverSettles(c)
      PROVE  KeepsTurns
  BY <1>4 DEF Discard, ControlRefused, CreateSettles, RecoverSettles, KeepsTurns
<1>5. ASSUME NEW c \in calls, RunSettles(c) \/ RefreshSettles(c) \/ ReconcileSettles(c)
      PROVE  KeepsTurns \/ Admits
  <2>1. Fresh(c) /\ c.op \notin {"create", "open", "recover"} /\ UNCHANGED <<owner, request, used>>
    BY <1>5 DEF RunSettles, RefreshSettles, ReconcileSettles, ControlOps
  <2>2. UNCHANGED context \/ (Verified(c.ans) /\ Confirm(c.run, c.ans))
    BY <1>5 DEF RunSettles, RefreshSettles, ReconcileSettles, Final
  <2> QED
    BY <2>1, <2>2, <1>3 DEF KeepsTurns
<1>6. ASSUME NEW c \in calls, OpenSettles(c)
      PROVE  KeepsTurns \/ Opens
  <2>1. UNCHANGED <<owner, request, used>> /\ request = NoRequest
    BY <1>6, <1>0 DEF OpenSettles, Fresh, Valid, CallsOwn
  <2>2. CASE c.ans.is = "rows"
    BY <2>1, <2>2, <1>6 DEF OpenSettles, Opens, Lost, Pending, TurnsOf, WholeOf
  <2>3. CASE UNCHANGED context
    BY <2>1, <2>3 DEF KeepsTurns
  <2> QED
    BY <2>2, <2>3, <1>6 DEF OpenSettles
<1>7. CASE \E c \in calls : Continues(c)
  BY <1>4, <1>5, <1>6, <1>7 DEF Continues
<1>8. CASE StreamNext \/ UNCHANGED vars \/ \E r \in Asks : OwnerMoves(r)
  BY <1>8 DEF StreamNext, StreamDelta, StreamTerminal, StreamInterrupted, OwnerMoves, vars,
              KeepsTurns
<1> QED
  BY <1>1, <1>2, <1>7, <1>8 DEF Next

LEMMA UsedGrows ==
  ASSUME IInv, [Next]_vars
  PROVE  used \subseteq used'
BY ContextStep DEF KeepsTurns, AsksNow, Forgets, Admits, Opens

LEMMA LogOnceStep ==
  ASSUME IInv, LogOnce, KeysUsed, [Next]_vars
  PROVE  LogOnce'
<1> USE DEF owner
<1>0. runs \in [Asks -> Run] /\ log \in Seq(Asks) /\ Len(log) \in Nat /\ used \subseteq used'
      /\ \A i \in 1..Len(log) : log[i] \in Asks
  BY UsedGrows, ElementOfSeq DEF IInv, TypeOK
<1>1. CASE log' = log /\ \A k \in Asks : runs[k] # NoRun => runs'[k] # NoRun
  BY <1>0, <1>1 DEF LogOnce
<1>2. ASSUME NEW c \in calls, OwnerCreates(c)
      PROVE  LogOnce'
  <2> DEFINE k == c.req.key
  <2>1. k \in used /\ k \in Asks
    BY <1>2 DEF OwnerCreates, KeysUsed, IInv, CallsWell
  <2>2. CASE runs[k] # NoRun
    BY <2>2, <1>1, <1>2 DEF OwnerCreates
  <2>3. CASE runs[k] = NoRun
    <3>1. log' = Append(log, k)
      BY <2>3, <1>2 DEF OwnerCreates
    <3>2. PICK s : runs' = [runs EXCEPT ![k] = [status |-> "running", out |-> "none",
                                                session |-> s]]
      BY <2>3, <1>2 DEF OwnerCreates
    <3>3. runs'[k] # NoRun /\ \A q \in Asks : q # k => runs'[q] = runs[q]
      BY <3>2, <2>1, <1>0 DEF NoRun
    <3> HIDE DEF k
    <3>4. /\ Len(log') = Len(log) + 1 /\ log'[Len(log) + 1] = k
          /\ \A i \in 1..Len(log) : log'[i] = log[i]
      BY <3>1, <2>1, <1>0
    <3>5. \A i \in 1..Len(log) : log[i] # k
      BY <2>3 DEF LogOnce
    <3>6. \A i \in 1..Len(log') : i \in 1..Len(log) \/ i = Len(log) + 1
      BY <3>4, <1>0
    <3>7. ASSUME NEW i \in 1..Len(log')
          PROVE  log'[i] \in used' /\ runs'[log'[i]] # NoRun
      <4>1. CASE i = Len(log) + 1
        BY <4>1, <3>3, <3>4, <2>1, <1>0
      <4>2. CASE i \in 1..Len(log)
        BY <4>2, <3>3, <3>4, <3>5, <1>0 DEF LogOnce
      <4> QED
        BY <3>6, <4>1, <4>2
    <3>8. ASSUME NEW i \in 1..Len(log'), NEW j \in 1..Len(log'), log'[i] = log'[j]
          PROVE  i = j
      <4>1. CASE i \in 1..Len(log) /\ j \in 1..Len(log)
        BY <4>1, <3>4, <3>8 DEF LogOnce
      <4>2. CASE i = Len(log) + 1 \/ j = Len(log) + 1
        BY <4>2, <3>4, <3>5, <3>6, <3>8
      <4> QED
        BY <3>6, <4>1, <4>2
    <3> QED
      BY <3>7, <3>8 DEF LogOnce
  <2> QED
    BY <2>2, <2>3
<1>3. ASSUME NEW r \in Asks, NEW s, NEW o, s # "absent",
             \/ runs' = [runs EXCEPT ![r].status = s, ![r].out = o]
             \/ runs' = [runs EXCEPT ![r].status = s]
      PROVE  \A k \in Asks : runs[k] # NoRun => runs'[k] # NoRun
  <2>1. runs'[r].status = s /\ \A k \in Asks : k # r => runs'[k] = runs[k]
    BY <1>0, <1>3 DEF Run
  <2>2. runs'[r] # NoRun
    BY <2>1, <1>3 DEF NoRun
  <2> QED
    BY <2>1, <2>2
<1>4. ASSUME NEW c \in calls, OwnerControls(c)
      PROVE  LogOnce'
  <2>1. c.run \in Asks /\ log' = log
    BY <1>4 DEF OwnerControls, IInv, CallsWell, ControlOps
  <2>2. CASE runs' = runs
    BY <2>1, <2>2, <1>1
  <2>3. CASE Controllable(c.op, runs[c.run].status)
             /\ \E s \in {runs[c.run].status, Controlled(c.op)} :
                   runs' = [runs EXCEPT ![c.run].status = s]
    <3>1. PICK s \in {runs[c.run].status, Controlled(c.op)} :
            runs' = [runs EXCEPT ![c.run].status = s]
      BY <2>3
    <3>2. s # "absent"
      BY <2>3 DEF Controllable, Controlled, LiveStatus
    <3> QED
      BY <3>1, <3>2, <2>1, <1>1, <1>3
  <2> QED
    BY <2>2, <2>3, <1>4 DEF OwnerControls
<1>5. ASSUME NEW r \in Asks, OwnerMoves(r)
      PROVE  LogOnce'
  <2>0. log' = log
    BY <1>5 DEF OwnerMoves
  <2>1. CASE \E s \in LiveStatus \cup FinalStatus, o \in Output :
               runs' = [runs EXCEPT ![r].status = s, ![r].out = o]
    <3>1. PICK s \in LiveStatus \cup FinalStatus, o \in Output :
            runs' = [runs EXCEPT ![r].status = s, ![r].out = o]
      BY <2>1
    <3>2. s # "absent"
      BY DEF LiveStatus, FinalStatus
    <3> QED
      BY <3>1, <3>2, <2>0, <1>1, <1>3
  <2>2. CASE runs' = [runs EXCEPT ![r].out = "final"]
    <3>1. runs'[r].out = "final" /\ \A k \in Asks : k # r => runs'[k] = runs[k]
      BY <2>2, <1>0 DEF Run
    <3>2. \A k \in Asks : runs[k] # NoRun => runs'[k] # NoRun
      BY <3>1 DEF NoRun
    <3> QED
      BY <3>2, <2>0, <1>1
  <2> QED
    BY <2>1, <2>2, <1>5 DEF OwnerMoves
<1>6. CASE UserNext
  <2>1. UNCHANGED owner
    BY <1>6 DEF UserNext, Send, RetrySubmission, Reconnect, RefreshStatus, Stop, Pause, Resume,
      Control, Retarget, Close, OpenSession, Recover, Load
  <2> QED
    BY <2>1, <1>1
<1>7. ASSUME NEW c \in calls, OwnerReads(c) \/ NetworkLoses(c) \/ Continues(c)
      PROVE  LogOnce'
  <2>1. UNCHANGED owner
    BY <1>7 DEF OwnerReads, NetworkLoses, Continues, Discard, CreateSettles, RunSettles,
      ControlRefused, RefreshSettles, ReconcileSettles, RecoverSettles, OpenSettles
  <2> QED
    BY <2>1, <1>1
<1>8. CASE StreamNext \/ UNCHANGED vars
  <2>1. UNCHANGED owner
    BY <1>8 DEF StreamNext, StreamDelta, StreamTerminal, StreamInterrupted, vars
  <2> QED
    BY <2>1, <1>1
<1> QED
  BY <1>2, <1>4, <1>5, <1>6, <1>7, <1>8 DEF Next, Answers

LEMMA KeysUsedStep ==
  ASSUME IInv, KeysUsed, [Next]_vars
  PROVE  KeysUsed'
<1>1. request' # NoRequest => request'.key \in used'
  BY ContextStep DEF KeysUsed, KeepsTurns, AsksNow, Forgets, Admits, Opens
<1>2. ASSUME NEW d \in calls', d.op = "create"
      PROVE  d.req.key \in used'
  <2>1. CASE d \in calls
    BY <2>1, <1>2, UsedGrows DEF KeysUsed
  <2>2. CASE \E c \in calls, a \in Answer : d = [c EXCEPT !.ans = a]
    <3>1. PICK c \in calls, a \in Answer : d = [c EXCEPT !.ans = a]
      BY <2>2
    <3>2. d.op = c.op /\ d.req = c.req
      BY <3>1 DEF IInv, TypeOK, Call
    <3> QED
      BY <3>2, <1>2, UsedGrows DEF KeysUsed
  <2>3. CASE Made(d) /\ MadeNow(d)'
    <3>1. d.req.key \in Asks /\ d.req = request'
      BY <2>3, <1>2 DEF Made, MadeNow
    <3>2. request' # NoRequest
      BY <3>1, ChatAssumption DEF NoRequest
    <3> QED
      BY <3>1, <3>2, <1>1
  <2> QED
    BY <1>2, <2>1, <2>2, <2>3, CallsStep
<1> QED
  BY <1>1, <1>2 DEF KeysUsed

LEMMA TurnsUsedStep ==
  ASSUME IInv, TurnsInv, [Next]_vars
  PROVE  TurnsUsed'
<1>0. /\ confirmed \in Seq(Pair) /\ used \in SUBSET Asks /\ request \in Request
      /\ calls \in SUBSET Call /\ TurnsUsed /\ KeysUsed /\ RowsOnce /\ RequestWell
  BY DEF IInv, TypeOK, TurnsInv
<1>1. CASE KeepsTurns
  BY <1>0, <1>1 DEF KeepsTurns, TurnsUsed
<1>2. CASE AsksNow
  <2>1. PICK k \in Asks \ used : used' = used \cup {k} /\ request'.key = k
                                 /\ confirmed' = BoundedHistory(confirmed)
    BY <1>2 DEF AsksNow
  <2>2. PICK i \in 1..Len(confirmed)+1 : confirmed' = SubSeq(confirmed, i, Len(confirmed))
    BY <2>1, <1>0, BoundedIsTail
  <2>3. \A j \in 1..Len(confirmed') : \E m \in 1..Len(confirmed) : confirmed'[j] = confirmed[m]
    BY <2>2, <1>0, TailElements
  <2>4. \A j \in 1..Len(confirmed') : \E q \in used : confirmed'[j] = [ask |-> q, run |-> q]
    BY <2>3, <1>0 DEF TurnsUsed
  <2>5. \A j \in 1..Len(confirmed') : \E q \in used' : confirmed'[j] = [ask |-> q, run |-> q]
    BY <2>1, <2>4
  <2>6. ASSUME NEW j \in 1..Len(confirmed')
        PROVE  confirmed'[j].run \in used
    <3>1. PICK q \in used : confirmed'[j] = [ask |-> q, run |-> q]
      BY <2>4
    <3> QED
      BY <3>1
  <2>7. \A j \in 1..Len(confirmed') : confirmed'[j].run # request'.key
    BY <2>1, <2>6
  <2> QED
    BY <2>5, <2>7 DEF TurnsUsed
<1>3. CASE Forgets
  BY <1>3 DEF Forgets, TurnsUsed
<1>4. CASE Admits
  <2> DEFINE t == [ask |-> request.key, run |-> request.key]
  <2> DEFINE h == Append(confirmed, t)
  <2>1. request.key \in used /\ t \in Pair
    BY <1>0, <1>4 DEF Admits, KeysUsed, Pair, RequestWell
  <2>2. /\ h \in Seq(Pair) /\ Len(h) = Len(confirmed) + 1 /\ h[Len(confirmed) + 1] = t
        /\ Len(confirmed) \in Nat /\ \A m \in 1..Len(confirmed) : h[m] = confirmed[m]
    BY <2>1, <1>0
  <2>3. \A m \in 1..Len(h) : \E q \in used : h[m] = [ask |-> q, run |-> q]
    <3>1. \A m \in 1..Len(h) : m \in 1..Len(confirmed) \/ m = Len(confirmed) + 1
      BY <2>2
    <3> HIDE DEF h
    <3> QED
      BY <3>1, <2>1, <2>2, <1>0 DEF TurnsUsed
  <2>4. confirmed' = BoundedHistory(h) /\ used' = used
        /\ confirmedRun' = request.key /\ request' = request
    BY <1>4 DEF Admits
  <2> HIDE DEF h
  <2>5. PICK i \in 1..Len(h)+1 : confirmed' = SubSeq(h, i, Len(h))
    BY <2>2, <2>4, BoundedIsTail
  <2>6. \A j \in 1..Len(confirmed') : \E m \in 1..Len(h) : confirmed'[j] = h[m]
    BY <2>2, <2>5, TailElements
  <2>7. ASSUME NEW j \in 1..Len(confirmed')
        PROVE  \E q \in used' : confirmed'[j] = [ask |-> q, run |-> q]
    <3>1. PICK m \in 1..Len(h) : confirmed'[j] = h[m]
      BY <2>6
    <3>2. PICK q \in used : h[m] = [ask |-> q, run |-> q]
      BY <2>3
    <3> QED
      BY <3>1, <3>2, <2>4
  <2> QED
    BY <2>4, <2>7 DEF TurnsUsed
<1>5. CASE Opens
  <2>1. PICK c \in calls : /\ request' = NoRequest /\ used' = used
                           /\ confirmed' = TurnsOf(WholeOf(c.ans.rows))
    BY <1>5 DEF Opens
  <2>2. c.ans.rows \in Seq(Row)
    BY <1>0 DEF Call, Answer
  <2>3. \A i \in 1..Len(confirmed') : \E m \in 1..Len(c.ans.rows) :
          confirmed'[i] = [ask |-> c.ans.rows[m].run, run |-> c.ans.rows[m].run]
    <3> DEFINE h == TurnsOf(WholeOf(c.ans.rows))
    <3>1. \A m, n \in 1..Len(c.ans.rows) : c.ans.rows[m].run = c.ans.rows[n].run => m = n
      BY <1>0 DEF RowsOnce
    <3>2. \A i \in 1..Len(h) : \E m \in 1..Len(c.ans.rows) :
            h[i] = [ask |-> c.ans.rows[m].run, run |-> c.ans.rows[m].run]
      BY <2>2, <3>1, HistoryTurns
    <3> QED
      BY <2>1, <3>2
  <2> QED
    BY <2>1, <2>3, <1>0 DEF TurnsUsed, RowsOnce
<1> QED
  BY <1>1, <1>2, <1>3, <1>4, <1>5, ContextStep

\* The rows of an opened session are of the log, each once.
LEMMA RowsAreOnce ==
  ASSUME TypeOK, LogOnce, NEW s \in Asks0, NEW i \in 1..Len(Rows(s).rows)
  PROVE  /\ Rows(s).rows[i].run \in used
         /\ \A j \in 1..Len(Rows(s).rows) : Rows(s).rows[i].run = Rows(s).rows[j].run => i = j
<1> DEFINE K == {m \in 1..Len(log) : runs[log[m]].session = s}
<1> DEFINE mine == Pick(log, K)
<1>1. log \in Seq(Asks) /\ K \in SUBSET (1..Len(log))
  BY DEF TypeOK
<1>2. /\ mine \in Seq(Asks) /\ Len(mine) \in Nat
      /\ \A m \in 1..Len(mine) : \E k \in K : mine[m] = log[k]
  <2> HIDE DEF K
  <2>1. /\ mine \in Seq(Asks)
        /\ \A m \in 1..Len(mine) : \E k \in K : mine[m] = log[k]
    BY <1>1, PickElements
  <2> HIDE DEF mine
  <2> QED
    BY <2>1
<1>3. \A m, n \in 1..Len(mine) : mine[m] = mine[n] => m = n
  <2>1. \A m, n \in 1..Len(log) : log[m] = log[n] => m = n
    BY DEF LogOnce
  <2> HIDE DEF K
  <2> QED
    BY <1>1, <2>1, PickOnce
<1>4. Rows(s).rows = [m \in 1..Len(mine) |-> RowOf(runs, mine[m])]
  BY DEF Rows, Pending
<1> HIDE DEF mine
<1>5. Len(Rows(s).rows) = Len(mine)
  BY <1>2, <1>4
<1>6. \A m \in 1..Len(mine) : Rows(s).rows[m].run = mine[m]
  BY <1>4 DEF RowOf
<1>7. mine[i] \in used
  BY <1>2, <1>5 DEF LogOnce
<1> QED
  BY <1>3, <1>5, <1>6, <1>7

LEMMA RowsOnceStep ==
  ASSUME IInv, LogOnce, RowsOnce, [Next]_vars
  PROVE  RowsOnce'
<1> USE DEF epochs, controller
<1> DEFINE Good(rows) ==
      /\ \A i \in 1..Len(rows) : rows[i].run \in used'
      /\ \A i, j \in 1..Len(rows) : rows[i].run = rows[j].run => i = j
<1> SUFFICES ASSUME NEW d \in calls'
             PROVE  Good(d.ans.rows)
  BY DEF RowsOnce
<1>0. /\ calls \in SUBSET Call /\ CallsWell /\ TypeOK /\ used \subseteq used'
  BY UsedGrows DEF IInv, TypeOK
<1>1. CASE d \in calls
  BY <1>0, <1>1 DEF RowsOnce
<1>2. CASE d.ans.rows = << >>
  BY <1>2
<1>3. \A f, r : Snapshot(f, r).rows = << >>
  BY DEF Snapshot
<1>4. Lost.rows = << >> /\ Refused.rows = << >>
  BY DEF Lost, Refused, Pending
<1>5. \A op, e, t, r, q : MakeCall(op, e, t, r, q).ans.rows = << >>
  BY DEF MakeCall, Pending
<1>6. ASSUME NEW c \in calls, NEW a, Reply(c, a), d \notin calls
      PROVE  d.ans = a
  <2>1. d = [c EXCEPT !.ans = a] /\ c \in Call
    BY <1>0, <1>6 DEF Reply, Replace
  <2> QED
    BY <2>1 DEF Call
<1>7. ASSUME NEW c \in calls, Answers(c), d \notin calls
      PROVE  Good(d.ans.rows)
  <2>1. CASE OwnerCreates(c)
    BY <2>1, <1>2, <1>3, <1>6, <1>7 DEF OwnerCreates
  <2>2. CASE OwnerControls(c)
    BY <2>2, <1>2, <1>3, <1>4, <1>6, <1>7 DEF OwnerControls
  <2>3. CASE NetworkLoses(c)
    BY <2>3, <1>2, <1>4, <1>6, <1>7 DEF NetworkLoses
  <2>4. CASE OwnerReads(c)
    <3>1. CASE c.op # "open"
      BY <2>4, <3>1, <1>2, <1>3, <1>6, <1>7 DEF OwnerReads
    <3>2. CASE c.op = "open"
      <4>1. d.ans = Rows(c.run) /\ c.run \in Asks0
        BY <2>4, <3>2, <1>0, <1>6, <1>7 DEF OwnerReads, CallsWell, Asks0
      <4> QED
        BY <4>1, <1>0, RowsAreOnce
    <3> QED
      BY <3>1, <3>2
  <2> QED
    BY <2>1, <2>2, <2>3, <2>4, <1>7 DEF Answers
<1>8. CASE UserNext /\ d \notin calls
  <2>1. \E op, e, t, r, q : d = MakeCall(op, e, t, r, q)
    <3>1. CASE Send \/ RetrySubmission
      BY <3>1, <1>8 DEF Send, RetrySubmission, Dispatch
    <3>2. CASE Reconnect \/ RefreshStatus
      BY <3>2, <1>8 DEF Reconnect, RefreshStatus, Dispatch
    <3>3. CASE Stop \/ Pause \/ Resume
      BY <3>3, <1>8 DEF Stop, Pause, Resume, Control, Dispatch
    <3>4. CASE OpenSession \/ Recover
      BY <3>4, <1>8 DEF OpenSession, Recover, Load, Dispatch
    <3>5. CASE Retarget \/ Close
      BY <3>5, <1>8 DEF Retarget, Close
    <3> QED
      BY <3>1, <3>2, <3>3, <3>4, <3>5, <1>8 DEF UserNext
  <2> QED
    BY <2>1, <1>2, <1>5
<1>9. ASSUME NEW c \in calls, Continues(c), d \notin calls
      PROVE  Good(d.ans.rows)
  <2>1. \E op, e, t, r, q : d = MakeCall(op, e, t, r, q)
    <3>1. CASE CreateSettles(c)
      BY <3>1, <1>9 DEF CreateSettles, Replace, Settle
    <3>2. CASE ControlRefused(c)
      BY <3>2, <1>9 DEF ControlRefused, Readback, Replace, Settle
    <3> QED
      BY <3>1, <3>2, <1>9 DEF Continues, Discard, RunSettles, RefreshSettles, ReconcileSettles,
        RecoverSettles, OpenSettles, Settle
  <2> QED
    BY <2>1, <1>2, <1>5
<1>10. CASE StreamNext /\ d \notin calls
  <2>1. \E op, e, t, r, q : d = MakeCall(op, e, t, r, q)
    BY <1>10 DEF StreamNext, StreamDelta, StreamTerminal, StreamInterrupted, Dispatch
  <2> QED
    BY <2>1, <1>2, <1>5
<1>11. CASE UNCHANGED vars \/ \E r \in Asks : OwnerMoves(r)
  BY <1>1, <1>11 DEF OwnerMoves, vars
<1> QED
  BY <1>1, <1>7, <1>8, <1>9, <1>10, <1>11 DEF Next

LEMMA TurnsInvStep == IInv /\ TurnsInv /\ [Next]_vars => TurnsInv'
BY LogOnceStep, KeysUsedStep, RowsOnceStep, TurnsUsedStep DEF TurnsInv

LEMMA TurnsInitially == Init => TurnsInv /\ Conversation!ConversationInit
<1> SUFFICES ASSUME Init PROVE TurnsInv /\ Conversation!ConversationInit
  OBVIOUS
<1>1. TurnsInv
  BY DEF Init, TurnsInv, LogOnce, KeysUsed, RowsOnce, TurnsUsed
<1>2. Conversation!ConversationInit
  BY DEF Init, NoRun, NoRequest, Conversation!ConversationInit
<1> QED
  BY <1>1, <1>2

\* Every step of the controller is a step of the conversation, or none.
LEMMA TurnsStep ==
  ASSUME IInv, TurnsInv, [Next]_vars
  PROVE  Conversation!ConversationNext \/ UNCHANGED Conversation!cvars
<1> DEFINE HeldIn(f) == {k \in Asks : f[k].status = "completed" /\ f[k].out = "final"}
<1>0. /\ confirmed \in Seq(Pair) /\ request \in Request /\ RequestWell
      /\ calls \in SUBSET Call /\ TurnsUsed /\ KeysUsed /\ RowsOnce /\ CallsTrue
      /\ used \in SUBSET Asks
  BY DEF IInv, TypeOK, TurnsInv
<1>1. CASE KeepsTurns
  <2>1. HeldIn(runs) \subseteq HeldIn(runs')
    BY OwnerStep DEF FinalStatus
  <2> QED
    BY <2>1, <1>1 DEF KeepsTurns, Conversation!ConversationNext, Conversation!Answer
<1>2. CASE AsksNow
  <2>1. PICK k \in Asks \ used : request'.key = k /\ confirmed' = BoundedHistory(confirmed)
                                 /\ UNCHANGED owner
    BY <1>2 DEF AsksNow
  <2>2. \E i \in 1..Len(confirmed)+1 : confirmed' = SubSeq(confirmed, i, Len(confirmed))
    BY <2>1, <1>0, BoundedIsTail
  <2>3. Conversation!Ask
    BY <2>1, <2>2 DEF owner, Conversation!Ask, Conversation!IsTail
  <2> QED
    BY <2>3 DEF Conversation!ConversationNext
<1>3. CASE Forgets
  <2>1. Conversation!Restore
    BY <1>3 DEF Forgets, NoRequest, owner, Conversation!Restore, Conversation!Distinct
  <2> QED
    BY <2>1 DEF Conversation!ConversationNext
<1>4. CASE Admits
  <2> DEFINE h == Append(confirmed, [ask |-> request.key, run |-> request.key])
  <2>1. request.key \in Asks /\ h \in Seq(Pair)
    BY <1>0, <1>4 DEF Admits, RequestWell, Pair
  <2>2. \E i \in 1..Len(h)+1 : confirmed' = SubSeq(h, i, Len(h))
    <3>1. confirmed' = BoundedHistory(h)
      BY <1>4 DEF Admits
    <3> HIDE DEF h
    <3> QED
      BY <2>1, <3>1, BoundedIsTail
  <2>3. \A i \in 1..Len(confirmed) : confirmed[i] # [ask |-> request.key, run |-> request.key]
    BY <1>0, <1>4 DEF Admits, TurnsUsed
  <2>4. request.key \in HeldIn(runs) /\ UNCHANGED <<runs, request>>
    BY <2>1, <1>4 DEF Admits, owner
  <2>5. Conversation!Admit
    BY <2>2, <2>3, <2>4 DEF Conversation!Admit, Conversation!IsTail, Conversation!Occurs,
       Conversation!Turn
  <2> QED
    BY <2>5 DEF Conversation!ConversationNext
<1>5. CASE Opens
  <2>1. PICK c \in calls : /\ request' = NoRequest /\ UNCHANGED owner
                           /\ confirmed' = TurnsOf(WholeOf(c.ans.rows))
    BY <1>5 DEF Opens
  <2>2. c.ans.rows \in Seq(Row)
    BY <1>0 DEF Call, Answer
  <2>3. PICK rows : rows = c.ans.rows
    OBVIOUS
  <2>4. PICK turns : turns = TurnsOf(WholeOf(rows))
    OBVIOUS
  <2>5. rows \in Seq(Row) /\ \A m, n \in 1..Len(rows) : rows[m].run = rows[n].run => m = n
    BY <1>0, <2>2, <2>3 DEF RowsOnce
  <2>6. /\ \A i \in 1..Len(turns) : \E m \in 1..Len(rows) :
             /\ Whole(rows[m])
             /\ turns[i] = [ask |-> rows[m].run, run |-> rows[m].run]
        /\ \A i, j \in 1..Len(turns) : turns[i] = turns[j] => i = j
    <3>1. /\ \A i \in 1..Len(TurnsOf(WholeOf(rows))) : \E m \in 1..Len(rows) :
               /\ Whole(rows[m])
               /\ TurnsOf(WholeOf(rows))[i] = [ask |-> rows[m].run, run |-> rows[m].run]
          /\ \A i, j \in 1..Len(TurnsOf(WholeOf(rows))) :
               TurnsOf(WholeOf(rows))[i] = TurnsOf(WholeOf(rows))[j] => i = j
      BY <2>5, HistoryTurns
    <3> QED
      BY <2>4, <3>1
  <2>7. ASSUME NEW m \in 1..Len(rows), Whole(rows[m])
        PROVE  rows[m].run \in HeldIn(runs)
    <3>1. Truthful(rows[m].run, rows[m])
      BY <1>0, <2>3 DEF CallsTrue
    <3>2. rows[m] \in Row
      BY <2>5, ElementOfSeq
    <3> QED
      BY <3>1, <3>2, <2>7 DEF Truthful, Whole, RowFits, FinalStatus, Row
  <2>8. \A i \in 1..Len(turns) : \E k \in HeldIn(runs) : turns[i] = [ask |-> k, run |-> k]
    BY <2>6, <2>7
  <2>9. confirmed' = turns /\ request'.key = NoAsk /\ UNCHANGED runs
    BY <2>1, <2>3, <2>4 DEF NoRequest, owner
  <2> HIDE DEF HeldIn
  <2>10. Conversation!Restore
    <3>1. \A i \in 1..Len(confirmed') : \E k \in HeldIn(runs) : confirmed'[i] = Conversation!Turn(k)
      BY <2>8, <2>9 DEF Conversation!Turn
    <3>2. Conversation!Distinct(confirmed')
      BY <2>6, <2>9 DEF Conversation!Distinct
    <3> QED
      BY <3>1, <3>2, <2>1, <2>9 DEF Conversation!Restore, owner, NoRequest, HeldIn
  <2> QED
    BY <2>10 DEF Conversation!ConversationNext
<1> QED
  BY <1>1, <1>2, <1>3, <1>4, <1>5, ContextStep

----------------------------------------------------------------------------
(* The session of a view, and the runs of the owner in it *)

InSession(k, s) == runs[k] # NoRun /\ runs[k].session = s
\* A run that exists is logged and belongs to the session of a run.
RunsWell ==
  \A k \in Asks : runs[k] # NoRun =>
    /\ runs[k].status # "absent" /\ runs[k].session \in Asks
    /\ InSession(runs[k].session, runs[k].session)
    /\ \E i \in DOMAIN log : log[i] = k
\* What is shown, and what a create call tells, is a run that exists.
RunsKnown ==
  /\ view.run # NoAsk => runs[view.run] # NoRun
  /\ \A c \in calls : c.op = "create" /\ c.ans.is = "run" => runs[c.req.key] # NoRun
\* A message continues the session of a run, under a key of its own.
SessionKnown(req) == req.session # NoAsk => InSession(req.session, req.session)
RequestsWell ==
  /\ SessionKnown(request)
  /\ \A c \in calls : c.op = "create" =>
       /\ SessionKnown(c.req)
       /\ c.req.key = request.key => c.req = request

\* The session of a message, which its run begins or goes on with.
SessionNamed(req) == IF req.session = NoAsk THEN req.key ELSE req.session
OwnSession ==
  request # NoRequest /\ runs[request.key] # NoRun
    => runs[request.key].session = SessionNamed(request)
\* The run the view is about, and its session.
Current == IF request # NoRequest THEN request.key ELSE view.run
CurrentSession == IF request # NoRequest THEN SessionNamed(request) ELSE SessionOf(view.run)
\* A session is answered with its runs, in the order of the log; the run to be
\* recovered exists.
OrderedRows(rows) ==
  \A i, j \in DOMAIN rows : i < j => LoggedBefore(rows[i].run, rows[j].run)
RowsWell ==
  \A c \in calls :
    /\ c.op = "open" /\ c.ans.is = "rows" =>
         /\ \A i \in DOMAIN c.ans.rows : InSession(c.ans.rows[i].run, c.run)
         /\ OrderedRows(c.ans.rows)
         /\ \E i \in DOMAIN c.ans.rows : c.ans.rows[i].run = c.run
    /\ c.op = "recover" => runs[c.run] # NoRun

SessionInv == RunsWell /\ RunsKnown /\ RequestsWell /\ OwnSession /\ RowsWell

----------------------------------------------------------------------------
(* What a step does to the owner's runs and to the calls *)

\* The runs keep their sessions and the log stays, or a create call adds a run.
Steady ==
  /\ log' = log
  /\ \A k \in Asks :
       /\ runs'[k] = NoRun <=> runs[k] = NoRun
       /\ runs'[k].session = runs[k].session
       /\ runs[k].status # "absent" => runs'[k].status # "absent"
Creates(c) ==
  /\ c.op = "create" /\ runs[c.req.key] = NoRun
  /\ log' = Append(log, c.req.key)
  /\ runs' = [runs EXCEPT ![c.req.key] =
                [status |-> "running", out |-> "none", session |-> SessionNamed(c.req)]]
  /\ UNCHANGED controller

LEMMA RunsStep ==
  ASSUME IInv, [Next]_vars
  PROVE  Steady \/ \E c \in calls : Creates(c)
<1> USE DEF owner
<1>0. runs \in [Asks -> Run]
  BY DEF IInv, TypeOK
<1>1. ASSUME runs' = runs, log' = log
      PROVE  Steady
  BY <1>1 DEF Steady
<1>2. ASSUME NEW c \in calls, OwnerCreates(c)
      PROVE  Steady \/ Creates(c)
  <2>1. CASE runs[c.req.key] = NoRun
    BY <2>1, <1>2 DEF OwnerCreates, Creates, SessionNamed
  <2>2. CASE runs[c.req.key] # NoRun
    BY <2>2, <1>1, <1>2 DEF OwnerCreates
  <2> QED
    BY <2>1, <2>2
<1>3. ASSUME NEW r \in Asks, NEW s, NEW o, s # "absent", runs[r].status # "absent", log' = log,
             \/ runs' = [runs EXCEPT ![r].status = s, ![r].out = o]
             \/ runs' = [runs EXCEPT ![r].status = s]
      PROVE  Steady
  <2>1. /\ runs'[r].status = s /\ runs'[r].session = runs[r].session
        /\ \A k \in Asks : k # r => runs'[k] = runs[k]
    BY <1>0, <1>3 DEF Run
  <2>2. runs'[r] # NoRun /\ runs[r] # NoRun
    BY <2>1, <1>3 DEF NoRun
  <2> QED
    BY <2>1, <2>2, <1>3 DEF Steady
<1>4. ASSUME NEW c \in calls, OwnerControls(c)
      PROVE  Steady
  <2>1. c.run \in Asks /\ log' = log
    BY <1>4 DEF OwnerControls, IInv, CallsWell, ControlOps
  <2>2. CASE runs' = runs
    BY <2>1, <2>2, <1>1
  <2>3. CASE Controllable(c.op, runs[c.run].status)
             /\ \E s \in {runs[c.run].status, Controlled(c.op)} :
                   runs' = [runs EXCEPT ![c.run].status = s]
    <3>1. PICK s \in {runs[c.run].status, Controlled(c.op)} :
            runs' = [runs EXCEPT ![c.run].status = s]
      BY <2>3
    <3>2. s # "absent" /\ runs[c.run].status # "absent"
      BY <2>3 DEF Controllable, Controlled, LiveStatus
    <3> QED
      BY <3>1, <3>2, <2>1, <1>3
  <2> QED
    BY <2>2, <2>3, <1>4 DEF OwnerControls
<1>5. ASSUME NEW r \in Asks, OwnerMoves(r)
      PROVE  Steady
  <2>0. log' = log
    BY <1>5 DEF OwnerMoves
  <2>1. CASE runs[r].status \in LiveStatus
             /\ \E s \in LiveStatus \cup FinalStatus, o \in Output :
                  runs' = [runs EXCEPT ![r].status = s, ![r].out = o]
    <3>1. PICK s \in LiveStatus \cup FinalStatus, o \in Output :
            runs' = [runs EXCEPT ![r].status = s, ![r].out = o]
      BY <2>1
    <3>2. s # "absent" /\ runs[r].status # "absent"
      BY <2>1 DEF LiveStatus, FinalStatus
    <3> QED
      BY <3>1, <3>2, <2>0, <1>3
  <2>2. CASE runs[r].status = "completed" /\ runs' = [runs EXCEPT ![r].out = "final"]
    <3>1. /\ runs'[r].status = "completed" /\ runs'[r].session = runs[r].session
          /\ \A k \in Asks : k # r => runs'[k] = runs[k]
      BY <2>2, <1>0 DEF Run
    <3>2. runs'[r] # NoRun /\ runs[r] # NoRun
      BY <3>1, <2>2 DEF NoRun
    <3> QED
      BY <3>1, <3>2, <2>0 DEF Steady
  <2> QED
    BY <2>1, <2>2, <1>5 DEF OwnerMoves
<1>6. CASE UserNext
  <2>1. UNCHANGED owner
    BY <1>6 DEF UserNext, Send, RetrySubmission, Reconnect, RefreshStatus, Stop, Pause, Resume,
      Control, Retarget, Close, OpenSession, Recover, Load
  <2> QED
    BY <2>1, <1>1
<1>7. ASSUME NEW c \in calls, OwnerReads(c) \/ NetworkLoses(c) \/ Continues(c)
      PROVE  Steady
  BY <1>1, <1>7 DEF OwnerReads, NetworkLoses, Continues, Discard, CreateSettles, RunSettles,
      ControlRefused, RefreshSettles, ReconcileSettles, RecoverSettles, OpenSettles
<1>8. CASE StreamNext \/ UNCHANGED vars
  BY <1>1, <1>8 DEF StreamNext, StreamDelta, StreamTerminal, StreamInterrupted, vars
<1> QED
  BY <1>2, <1>4, <1>5, <1>6, <1>7, <1>8 DEF Next, Answers

\* Of a call under way another one is the same call, or the call was just made.
Same(c, d) == d.op = c.op /\ d.epoch = c.epoch /\ d.run = c.run /\ d.req = c.req
LEMMA CallIsOf ==
  ASSUME IInv, [Next]_vars, NEW d \in calls'
  PROVE  \/ \E c \in calls : Same(c, d)
         \/ Made(d) /\ MadeNow(d)' /\ d \notin calls
         \/ d.op = "readback"
<1>0. calls \in SUBSET Call
  BY DEF IInv, TypeOK
<1>1. CASE d \in calls
  BY <1>1 DEF Same
<1>2. ASSUME NEW c \in calls, NEW a \in Answer, d = [c EXCEPT !.ans = a]
      PROVE  Same(c, d)
  BY <1>0, <1>2 DEF Same, Call
<1> QED
  BY <1>1, <1>2, CallsStep

\* A call to open a session or to recover a run is made of a run in the log.
LEMMA LoadStep ==
  ASSUME IInv, [Next]_vars, NEW d \in calls', d \notin calls, Made(d), MadeNow(d)',
         d.op \in {"open", "recover"}
  PROVE  UNCHANGED owner /\ \E i \in DOMAIN log : log[i] = d.run
<1> USE DEF MakeCall
<1>0. calls \in SUBSET Call /\ log \in Seq(Asks)
  BY DEF IInv, TypeOK
<1>1. ASSUME NEW c, Dispatch(c)
      PROVE  d = c
  BY <1>1 DEF Dispatch
<1>2. ASSUME NEW name, NEW op \in {"open", "recover"}, Load(name, op)
      PROVE  UNCHANGED owner /\ \E i \in DOMAIN log : log[i] = d.run
  <2>1. PICK i \in 1..Len(log) : d = MakeCall(op, epoch + 1, 0, log[i], NoRequest)
    BY <1>1, <1>2 DEF Load
  <2> QED
    BY <2>1, <1>2, <1>0 DEF Load
<1>3. CASE OpenSession \/ Recover
  BY <1>2, <1>3 DEF OpenSession, Recover
<1>4. CASE UserNext /\ ~(OpenSession \/ Recover)
  <2>1. CASE Send \/ RetrySubmission
    <3>1. \E e, t, r, q : Dispatch(MakeCall("create", e, t, r, q))
      BY <2>1 DEF Send, RetrySubmission
    <3> QED
      BY <3>1, <1>1
  <2>2. CASE Reconnect \/ RefreshStatus
    BY <2>2, <1>1 DEF Reconnect, RefreshStatus
  <2>3. CASE Stop \/ Pause \/ Resume
    BY <2>3, <1>1 DEF Stop, Pause, Resume, Control
  <2>4. CASE Retarget \/ Close
    BY <2>4 DEF Retarget, Close
  <2> QED
    BY <2>1, <2>2, <2>3, <2>4, <1>4 DEF UserNext
<1>5. ASSUME NEW c \in calls, NEW a, Reply(c, a), a # Pending
      PROVE  FALSE
  <2>1. d = [c EXCEPT !.ans = a] /\ c \in Call
    BY <1>0, <1>5 DEF Reply, Replace
  <2>2. d.ans = a
    BY <2>1 DEF Call
  <2> QED
    BY <2>2, <1>5 DEF Made
<1>6. ASSUME NEW c \in calls, Answers(c)
      PROVE  FALSE
  <2>1. \A f, r : Snapshot(f, r) # Pending
    BY DEF Snapshot, Pending
  <2>2. Lost # Pending /\ Refused # Pending /\ \A s : Rows(s).is = "rows"
    BY DEF Lost, Refused, Pending, Rows
  <2>3. \A s : Rows(s) # Pending
    BY <2>2 DEF Pending
  <2> QED
    BY <2>1, <2>2, <2>3, <1>5, <1>6 DEF Answers, OwnerCreates, OwnerReads, OwnerControls, NetworkLoses
<1>7. ASSUME NEW c \in calls, Continues(c)
      PROVE  FALSE
  BY <1>7 DEF Continues, Discard, CreateSettles, RunSettles, ControlRefused, RefreshSettles,
    ReconcileSettles, RecoverSettles, OpenSettles, Settle, Replace, Readback
<1>8. CASE StreamNext \/ UNCHANGED vars \/ \E r \in Asks : OwnerMoves(r)
  BY <1>1, <1>8 DEF StreamNext, StreamDelta, StreamTerminal, StreamInterrupted, OwnerMoves, vars
<1> QED
  BY <1>3, <1>4, <1>6, <1>7, <1>8 DEF Next

\* The rows of a session are the owner's of the moment of the answer.
LEMMA RowsAnswered ==
  ASSUME IInv, [Next]_vars, NEW d \in calls', d \notin calls, d.ans.is = "rows"
  PROVE  UNCHANGED owner /\ \E c \in calls : Same(c, d) /\ d.ans = Rows(c.run) /\ c.op = "open"
<1>0. calls \in SUBSET Call
  BY DEF IInv, TypeOK
<1>1. ASSUME NEW c \in calls, NEW a, Reply(c, a)
      PROVE  Same(c, d) /\ d.ans = a
  <2>1. d = [c EXCEPT !.ans = a] /\ c \in Call
    BY <1>0, <1>1 DEF Reply, Replace
  <2> QED
    BY <2>1 DEF Call, Same
<1>2. ASSUME NEW c \in calls, Answers(c)
      PROVE  UNCHANGED owner /\ Same(c, d) /\ d.ans = Rows(c.run) /\ c.op = "open"
  <2>1. \A f, r : Snapshot(f, r).is = "run"
    BY DEF Snapshot
  <2>2. Lost.is = "lost" /\ Refused.is = "refused"
    BY DEF Lost, Refused, Pending
  <2>3. CASE OwnerReads(c)
    BY <2>1, <2>3, <1>1, <1>2 DEF OwnerReads
  <2>4. CASE OwnerCreates(c) \/ OwnerControls(c) \/ NetworkLoses(c)
    BY <2>1, <2>2, <2>4, <1>1 DEF OwnerCreates, OwnerControls, NetworkLoses
  <2> QED
    BY <2>3, <2>4, <1>2 DEF Answers
<1>3. \A op, e, t, r, q : MakeCall(op, e, t, r, q).ans.is = "pending"
  BY DEF MakeCall, Pending
<1>4. CASE UserNext
  <2>1. \/ UNCHANGED calls
        \/ \E op, e, t, r, q : Dispatch(MakeCall(op, e, t, r, q))
    BY <1>4 DEF UserNext, Send, RetrySubmission, Reconnect, RefreshStatus, Stop, Pause, Resume,
      Control, OpenSession, Recover, Load, Retarget, Close
  <2> QED
    BY <2>1, <1>3 DEF Dispatch
<1>5. ASSUME NEW c \in calls, Continues(c)
      PROVE  FALSE
  BY <1>3, <1>5 DEF Continues, Discard, CreateSettles, RunSettles, ControlRefused, RefreshSettles,
    ReconcileSettles, RecoverSettles, OpenSettles, Settle, Replace, Readback
<1>6. CASE StreamNext \/ UNCHANGED vars \/ \E r \in Asks : OwnerMoves(r)
  BY <1>3, <1>6 DEF StreamNext, StreamDelta, StreamTerminal, StreamInterrupted, OwnerMoves, vars,
     Dispatch
<1> QED
  BY <1>2, <1>4, <1>5, <1>6 DEF Next

\* What is in the log, in a session, and done, remains so.
LEMMA LoggedStays ==
  ASSUME IInv, [Next]_vars, NEW a, NEW b, LoggedBefore(a, b)
  PROVE  LoggedBefore(a, b)'
<1>1. log \in Seq(Asks) /\ log' \in Seq(Asks)
  BY TypeStep DEF IInv, TypeOK
<1>2. PICK i \in DOMAIN log, j \in DOMAIN log : i < j /\ log[i] = a /\ log[j] = b
  BY DEF LoggedBefore
<1>3. /\ i \in DOMAIN log' /\ log'[i] = log[i]
      /\ j \in DOMAIN log' /\ log'[j] = log[j]
  BY <1>1, OwnerStep
<1> QED
  BY <1>2, <1>3 DEF LoggedBefore

LEMMA InSessionStays ==
  ASSUME IInv, [Next]_vars, NEW k \in Asks, NEW s, InSession(k, s)
  PROVE  InSession(k, s)'
<1>0. runs \in [Asks -> Run]
  BY DEF IInv, TypeOK
<1>1. CASE Steady
  BY <1>1 DEF Steady, InSession
<1>2. ASSUME NEW c \in calls, Creates(c)
      PROVE  InSession(k, s)'
  <2>1. k # c.req.key
    BY <1>2 DEF Creates, InSession
  <2>2. runs'[k] = runs[k]
    BY <2>1, <1>0, <1>2 DEF Creates
  <2> QED
    BY <2>2 DEF InSession
<1> QED
  BY <1>1, <1>2, RunsStep

\* A run enters a session when it is created for a message of the session.
LEMMA InSessionNew ==
  ASSUME IInv, [Next]_vars, NEW k \in Asks, NEW s, InSession(k, s)', ~ InSession(k, s)
  PROVE  \E c \in calls : Creates(c) /\ c.req.key = k /\ s = SessionNamed(c.req)
<1>0. runs \in [Asks -> Run]
  BY DEF IInv, TypeOK
<1>1. CASE Steady
  BY <1>1 DEF Steady, InSession
<1>2. ASSUME NEW c \in calls, Creates(c)
      PROVE  c.req.key = k /\ s = SessionNamed(c.req)
  <2>1. k = c.req.key
    BY <1>0, <1>2 DEF Creates, InSession
  <2>2. runs'[k].session = SessionNamed(c.req)
    BY <2>1, <1>0, <1>2 DEF Creates
  <2> QED
    BY <2>1, <2>2 DEF InSession
<1> QED
  BY <1>1, <1>2, RunsStep
----------------------------------------------------------------------------
(* What a step does to the view and to what the next message carries *)

\* It starts over, ...
StartsOver ==
  /\ request' = NoRequest /\ confirmed' = << >> /\ confirmedRun' = NoAsk
  /\ view'.run = NoAsk /\ limited' = FALSE /\ epoch' = epoch + 1 /\ used' = used
  /\ UNCHANGED owner

\* ... shows a session, or a run, ...
ShowsSession(c) ==
  /\ OpenSettles(c) /\ c.ans.is = "rows"
  /\ request = NoRequest /\ request' = NoRequest /\ epoch' = epoch /\ c.epoch = epoch
ShowsRun(c) ==
  /\ c.op = "recover" /\ c.epoch = epoch /\ epoch' = epoch
  /\ request = NoRequest /\ request' = NoRequest
  /\ view'.run = c.run /\ view'.phase # "idle" /\ limited' = TRUE
  /\ UNCHANGED <<owner, confirmed, confirmedRun, used>>

\* ... or goes on, with the turn of its own run once that is confirmed.
ConfirmsOwn ==
  /\ Admits
  /\ ~limited' => ~limited /\ Len(confirmed') = Len(confirmed) + 1
GoesOn ==
  /\ request' = request /\ used' = used
  /\ \/ view'.run = view.run
     \/ request # NoRequest /\ view'.run = request.key /\ runs[request.key] # NoRun
  /\ UNCHANGED context \/ ConfirmsOwn
  /\ view'.phase = "completed" /\ request # NoRequest
       => view.phase = "completed" \/ confirmedRun' = request.key
  /\ view'.phase = "idle" => view.phase = "idle"

LEMMA ViewStep ==
  ASSUME IInv, RunsKnown, [Next]_vars
  PROVE  \/ Send \/ StartsOver \/ GoesOn
         \/ \E c \in calls : ShowsSession(c) \/ ShowsRun(c)
<1> USE DEF epochs, controller, context
<1>0. /\ calls \in SUBSET Call /\ CallsWell /\ CallsOwn /\ CallsTrue /\ OwnRunShown
      /\ NoAsk \notin Asks /\ view \in View /\ NoRequest.key = NoAsk
  BY ChatAssumption DEF IInv, TypeOK, NoRequest
<1>1. CASE OpenSession \/ Recover \/ Retarget \/ Close
  BY <1>1 DEF OpenSession, Recover, Load, Retarget, Close, EpochAfterClose, ResetView,
    ResetEpochs, ForgetConversation, StartsOver
<1>2. ASSUME UNCHANGED <<request, used, context>>, view'.run = view.run,
             view'.phase = view.phase \/ view'.phase \notin {"completed", "idle"}
      PROVE  GoesOn
  BY <1>2 DEF GoesOn
<1>3. CASE RetrySubmission \/ Reconnect \/ RefreshStatus
  BY <1>0, <1>2, <1>3 DEF RetrySubmission, Reconnect, RefreshStatus, View
<1>4. CASE Stop \/ Pause \/ Resume
  BY <1>0, <1>2, <1>4 DEF Stop, Pause, Resume, Control, ResetView
<1>5. CASE \E c \in calls : Answers(c)
  BY <1>2, <1>5 DEF Answers, OwnerCreates, OwnerReads, OwnerControls, NetworkLoses
<1>6. CASE StreamNext \/ UNCHANGED vars \/ \E r \in Asks : OwnerMoves(r)
  BY <1>0, <1>2, <1>6 DEF StreamNext, StreamDelta, StreamTerminal, StreamInterrupted, OwnerMoves,
    vars, Interrupted, View
<1>7. ASSUME NEW s \in Status, PhaseOf(s) \in {"completed", "idle"}
      PROVE  s = "completed"
  BY <1>7 DEF PhaseOf, Status, LiveStatus, FinalStatus
<1>8. ASSUME NEW c \in calls, Verified(c.ans), Confirm(c.run, c.ans), Fresh(c),
             c.op \notin {"create", "open", "recover"}, UNCHANGED <<owner, request, used>>,
             view' = view \/ view' = Shown(c.run, c.ans)
      PROVE  GoesOn
  <2>1. c.run \in Asks /\ view.run = c.run /\ c.ans \in Answer
    BY <1>0, <1>8 DEF CallsWell, Fresh, SameRun, Call
  <2>2. view'.run = view.run
    BY <2>1, <1>8 DEF Shown
  <2>3. request # NoRequest => c.run = request.key
    BY <2>1, <1>0 DEF OwnRunShown
  <2>4. CASE ~Confirms(c.run, c.ans)
    <3>1. UNCHANGED context
      BY <2>4, <1>8 DEF Confirm
    <3>2. view' # view /\ view'.phase \in {"completed", "idle"} => c.ans.status = "completed"
      BY <1>7, <1>8, <2>1 DEF Shown, Answer
    <3>3. c.ans.status = "completed" /\ request # NoRequest => confirmedRun = request.key
      BY <2>3, <2>4, <1>8 DEF Confirms, Verified
    <3>4. view'.phase = "idle" => view.phase = "idle"
      BY <3>2, <1>8 DEF Shown, PhaseOf
    <3> QED
      BY <3>1, <3>2, <3>3, <3>4, <2>2, <1>8 DEF GoesOn
  <2>5. CASE Confirms(c.run, c.ans)
    <3>1. Truthful(c.run, c.ans)
      BY <1>0, <1>8 DEF CallsTrue, Subject, Verified
    <3>2. runs[c.run].status = "completed" /\ runs[c.run].out = "final"
      BY <3>1, <2>5 DEF Truthful, Confirms, FinalStatus
    <3>3. Admits
      BY <2>3, <3>2, <2>5, <1>8 DEF Confirm, Confirms, Admits
    <3> DEFINE kept == BoundedHistory(Append(confirmed, [ask |-> request.key, run |-> c.run]))
    <3>4. confirmed' = kept /\ limited' = (limited \/ Len(kept) < Len(confirmed) + 1)
      BY <2>5, <1>8 DEF Confirm
    <3>5. Len(confirmed') \in Nat /\ Len(confirmed) \in Nat /\ Len(confirmed') <= Len(confirmed) + 1
      <4>1. request.key \in Asks
        BY <2>1, <2>3, <2>5 DEF Confirms
      <4>2. confirmed \in Seq(Pair) /\ [ask |-> request.key, run |-> c.run] \in Pair
        BY <4>1, <2>1 DEF IInv, TypeOK, Pair
      <4> DEFINE h == Append(confirmed, [ask |-> request.key, run |-> c.run])
      <4>3. h \in Seq(Pair) /\ Len(h) = Len(confirmed) + 1 /\ Len(confirmed) \in Nat
        BY <4>2
      <4>4. confirmed' = BoundedHistory(h)
        BY <3>4
      <4> HIDE DEF h
      <4>5. PICK i \in 1..Len(h)+1 : confirmed' = SubSeq(h, i, Len(h))
        BY <4>3, <4>4, BoundedIsTail
      <4> QED
        BY <4>3, <4>5
    <3>6. ~limited' => ~limited /\ Len(confirmed') = Len(confirmed) + 1
      <4>1. Len(confirmed') < Len(confirmed) + 1 \/ Len(confirmed') = Len(confirmed) + 1
        BY <3>5
      <4>2. limited' = (limited \/ Len(confirmed') < Len(confirmed) + 1)
        BY <3>4, Zenon
      <4> QED
        BY <4>1, <4>2, Zenon
    <3>7. view'.phase = "idle" => view.phase = "idle"
      BY <2>5, <1>8 DEF Shown, PhaseOf, Confirms
    <3> QED
      BY <3>3, <3>6, <3>7, <2>2, <1>8 DEF GoesOn, ConfirmsOwn, Admits
  <2> QED
    BY <2>4, <2>5
<1>9. ASSUME NEW c \in calls, Discard(c) \/ ControlRefused(c)
      PROVE  GoesOn
  BY <1>2, <1>9 DEF Discard, ControlRefused
<1>10. ASSUME NEW c \in calls, CreateSettles(c)
       PROVE  GoesOn
  <2>1. c.req = request /\ request # NoRequest /\ c.ans \in Answer
    BY <1>0, <1>10 DEF CreateSettles, Fresh, Valid, CallsOwn, CallsWell, Call
  <2>2. view'.run = view.run \/ (view'.run = request.key /\ runs[request.key] # NoRun)
    <3>1. c.ans = Lost \/ c.ans.is = "run"
      BY <1>10 DEF CreateSettles
    <3>2. c.ans.is = "run" => runs[request.key] # NoRun
      BY <2>1, <1>10 DEF RunsKnown, CreateSettles
    <3>3. Lost.is # "run"
      BY DEF Lost, Pending
    <3> QED
      BY <3>1, <3>2, <3>3, <2>1, <1>0, <1>10 DEF CreateSettles, Interrupted, Shown, View
  <2>3. view'.phase \notin {"completed", "idle"}
    BY <2>1, <1>0, <1>7, <1>10 DEF CreateSettles, Interrupted, Shown, View, Answer
  <2> QED
    BY <2>1, <2>2, <2>3, <1>10 DEF GoesOn, CreateSettles
<1>11. ASSUME NEW c \in calls, RunSettles(c) \/ RefreshSettles(c) \/ ReconcileSettles(c)
       PROVE  GoesOn
  <2>1. Fresh(c) /\ c.op \notin {"create", "open", "recover"} /\ UNCHANGED <<owner, request, used>>
    BY <1>11 DEF RunSettles, RefreshSettles, ReconcileSettles, ControlOps
  <2>2. \/ UNCHANGED context /\ view' \in {view, Interrupted, InterruptedEmpty}
        \/ /\ Verified(c.ans) /\ Confirm(c.run, c.ans)
           /\ view' = view \/ view' = Shown(c.run, c.ans)
    BY <1>11 DEF RunSettles, RefreshSettles, ReconcileSettles, Final
  <2>3. CASE UNCHANGED context /\ view' \in {view, Interrupted, InterruptedEmpty}
    BY <2>1, <2>3, <1>0, <1>2 DEF Interrupted, InterruptedEmpty, View
  <2> QED
    BY <2>1, <2>2, <2>3, <1>8
<1>12. ASSUME NEW c \in calls, RecoverSettles(c)
       PROVE  GoesOn \/ ShowsRun(c)
  <2>1. c.epoch = epoch /\ request = NoRequest /\ c.ans \in Answer
    BY <1>0, <1>12 DEF RecoverSettles, Fresh, Valid, CallsOwn, Call
  <2>2. CASE Verified(c.ans)
    <3>1. view'.run = c.run /\ view'.phase = PhaseOf(c.ans.status)
      BY <2>2, <1>12 DEF RecoverSettles, Shown
    <3>2. view'.phase # "idle"
      BY <3>1 DEF PhaseOf
    <3> QED
      BY <2>1, <2>2, <3>1, <3>2, <1>12 DEF RecoverSettles, ShowsRun
  <2>3. CASE ~ Verified(c.ans)
    BY <2>3, <1>0, <1>2, <1>12 DEF RecoverSettles, Interrupted, View
  <2> QED
    BY <2>2, <2>3
<1>13. ASSUME NEW c \in calls, OpenSettles(c)
       PROVE  GoesOn \/ ShowsSession(c)
  <2>1. c.epoch = epoch /\ request = NoRequest
    BY <1>0, <1>13 DEF OpenSettles, Fresh, Valid, CallsOwn
  <2>2. CASE c.ans.is = "rows"
    BY <2>1, <2>2, <1>13 DEF OpenSettles, ShowsSession
  <2>3. CASE c.ans.is # "rows"
    BY <2>3, <1>0, <1>2, <1>13 DEF OpenSettles, Interrupted, View
  <2> QED
    BY <2>2, <2>3
<1>14. CASE \E c \in calls : Continues(c)
  BY <1>9, <1>10, <1>11, <1>12, <1>13, <1>14 DEF Continues
<1> QED
  BY <1>1, <1>3, <1>4, <1>5, <1>6, <1>14 DEF Next, UserNext
----------------------------------------------------------------------------
(* The rows of a session *)

\* Of two positions the later one has more positions below it.
UpTo(K, p) == {x \in K : x <= p}
LEMMA UpToGrows ==
  ASSUME NEW n \in Nat, NEW K \in SUBSET (1..n), NEW p \in K, NEW q \in K, p < q
  PROVE  /\ Cardinality(UpTo(K, p)) \in 1..Cardinality(K)
         /\ Cardinality(UpTo(K, p)) < Cardinality(UpTo(K, q))
         /\ Cardinality(UpTo(K, q)) \in 1..Cardinality(K)
<1>0. p \in Nat /\ q \in Nat /\ \A x \in K : x \in Nat
  OBVIOUS
<1>1. IsFiniteSet(K) /\ Cardinality(K) \in Nat
  BY PositionsFinite
<1>2. UpTo(K, p) \subseteq UpTo(K, q) /\ UpTo(K, q) \subseteq K
  <2>1. ASSUME NEW x \in Nat, x <= p
        PROVE  x <= q
    BY <2>1, <1>0
  <2> QED
    BY <2>1, <1>0 DEF UpTo
<1>3. p \in UpTo(K, p) /\ q \in UpTo(K, q) /\ q \notin UpTo(K, p)
  BY <1>0 DEF UpTo
<1>4. /\ IsFiniteSet(UpTo(K, q)) /\ Cardinality(UpTo(K, q)) <= Cardinality(K)
      /\ Cardinality(UpTo(K, q)) \in Nat
  BY <1>1, <1>2, FS_Subset, FS_CardinalityType
<1>5. /\ IsFiniteSet(UpTo(K, p)) /\ Cardinality(UpTo(K, p)) \in Nat
      /\ Cardinality(UpTo(K, p)) <= Cardinality(UpTo(K, q))
      /\ Cardinality(UpTo(K, p)) # Cardinality(UpTo(K, q))
  BY <1>2, <1>3, <1>4, FS_Subset, FS_CardinalityType
<1>6. Cardinality(UpTo(K, p)) # 0
  BY <1>3, <1>5, FS_EmptySet
<1> QED
  BY <1>1, <1>4, <1>5, <1>6

\* The elements at the positions K come in their order, and none is missing.
LEMMA NthOrder ==
  ASSUME NEW n \in Nat, NEW K \in SUBSET (1..n),
         NEW i \in 1..Cardinality(K), NEW j \in 1..Cardinality(K), i < j
  PROVE  Nth(K, i) < Nth(K, j)
<1>1. PICK p \in K : p = Nth(K, i) /\ Cardinality(UpTo(K, p)) = i
  BY NthIn DEF UpTo
<1>2. PICK q \in K : q = Nth(K, j) /\ Cardinality(UpTo(K, q)) = j
  BY NthIn DEF UpTo
<1>3. Cardinality(K) \in Nat
  BY PositionsFinite
<1>4. p # q
  BY <1>1, <1>2, <1>3
<1>5. ~ (q < p)
  <2>1. ~ (Cardinality(UpTo(K, q)) < Cardinality(UpTo(K, p)))
    BY <1>1, <1>2, <1>3
  <2> QED
    BY <2>1, UpToGrows
<1>6. p \in Nat /\ q \in Nat
  OBVIOUS
<1>7. p < q
  BY <1>4, <1>5, <1>6
<1> QED
  BY <1>1, <1>2, <1>7

LEMMA NthAll ==
  ASSUME NEW n \in Nat, NEW K \in SUBSET (1..n), NEW k \in K
  PROVE  \E i \in 1..Cardinality(K) : Nth(K, i) = k
<1>1. IsFiniteSet(K) /\ Cardinality(K) \in Nat
  BY PositionsFinite
<1>2. k \in UpTo(K, k) /\ UpTo(K, k) \subseteq K
  <2>1. k \in Nat
    OBVIOUS
  <2> QED
    BY <2>1 DEF UpTo
<1>3. IsFiniteSet(UpTo(K, k)) /\ Cardinality(UpTo(K, k)) <= Cardinality(K)
      /\ Cardinality(UpTo(K, k)) \in Nat /\ Cardinality(UpTo(K, k)) # 0
  BY <1>1, <1>2, FS_Subset, FS_CardinalityType, FS_EmptySet
<1>4. PICK i \in 1..Cardinality(K) : i = Cardinality(UpTo(K, k))
  BY <1>1, <1>3
<1>5. PICK m \in K : m = Nth(K, i) /\ Cardinality(UpTo(K, m)) = i
  BY NthIn DEF UpTo
<1>6. ~ (Cardinality(UpTo(K, k)) < Cardinality(UpTo(K, m)))
      /\ ~ (Cardinality(UpTo(K, m)) < Cardinality(UpTo(K, k)))
  BY <1>4, <1>5, <1>1
<1>7. ~ (k < m) /\ ~ (m < k)
  BY <1>6, UpToGrows
<1>8. k \in Nat /\ m \in Nat
  OBVIOUS
<1>9. k = m
  BY <1>7, <1>8
<1> QED
  BY <1>5, <1>9

LEMMA RowsOfSession ==
  ASSUME TypeOK, NEW s \in Asks0
  PROVE  /\ \A i \in DOMAIN Rows(s).rows : \E m \in DOMAIN log :
              Rows(s).rows[i].run = log[m] /\ runs[log[m]].session = s
         /\ OrderedRows(Rows(s).rows)
         /\ \A m \in DOMAIN log : runs[log[m]].session = s
              => \E i \in DOMAIN Rows(s).rows : Rows(s).rows[i].run = log[m]
<1> DEFINE K == {m \in 1..Len(log) : runs[log[m]].session = s}
<1> DEFINE mine == Pick(log, K)
<1>1. log \in Seq(Asks) /\ K \in SUBSET (1..Len(log)) /\ DOMAIN log = 1..Len(log)
      /\ Len(log) \in Nat /\ Cardinality(K) \in Nat
  BY PositionsFinite DEF TypeOK
<1>2. /\ DOMAIN mine = 1..Cardinality(K) /\ Len(mine) = Cardinality(K)
      /\ \A i \in 1..Cardinality(K) : mine[i] = log[Nth(K, i)]
  BY <1>1 DEF Pick
<1>3. Rows(s).rows = [i \in 1..Len(mine) |-> RowOf(runs, mine[i])]
  BY DEF Rows, Pending
<1>4. DOMAIN Rows(s).rows = 1..Cardinality(K)
      /\ \A i \in 1..Cardinality(K) : Rows(s).rows[i].run = log[Nth(K, i)]
  <2> HIDE DEF mine
  <2> QED
    BY <1>2, <1>3 DEF RowOf
<1>5. \A i \in 1..Cardinality(K) : Nth(K, i) \in K
  BY <1>1, NthIn
<1>6. OrderedRows(Rows(s).rows)
  <2> SUFFICES ASSUME NEW i \in 1..Cardinality(K), NEW j \in 1..Cardinality(K), i < j
               PROVE  LoggedBefore(log[Nth(K, i)], log[Nth(K, j)])
    BY <1>4 DEF OrderedRows
  <2>1. Nth(K, i) < Nth(K, j)
    BY <1>1, NthOrder
  <2> QED
    BY <2>1, <1>1, <1>5 DEF LoggedBefore
<1>7. ASSUME NEW m \in DOMAIN log, runs[log[m]].session = s
      PROVE  \E i \in DOMAIN Rows(s).rows : Rows(s).rows[i].run = log[m]
  <2>1. m \in K
    BY <1>1, <1>7
  <2>2. PICK i \in 1..Cardinality(K) : Nth(K, i) = m
    BY <2>1, <1>1, NthAll
  <2> QED
    BY <2>2, <1>4
<1> QED
  BY <1>1, <1>4, <1>5, <1>6, <1>7
----------------------------------------------------------------------------
(* Every step keeps SessionInv *)

LEMMA RunsWellStep ==
  ASSUME IInv, RunsWell, RequestsWell, [Next]_vars
  PROVE  RunsWell'
<1> SUFFICES ASSUME NEW k \in Asks, runs'[k] # NoRun
             PROVE  /\ runs'[k].status # "absent" /\ runs'[k].session \in Asks
                    /\ \E s \in Asks : runs'[k].session = s /\ InSession(s, s)'
                    /\ \E i \in DOMAIN log' : log'[i] = k
  BY DEF RunsWell, InSession
<1>0. /\ runs \in [Asks -> Run] /\ log \in Seq(Asks) /\ log' \in Seq(Asks)
      /\ calls \in SUBSET Call
  BY TypeStep DEF IInv, TypeOK
<1>1. CASE runs[k] # NoRun
  <2>1. /\ runs[k].status # "absent" /\ runs[k].session \in Asks
        /\ InSession(runs[k].session, runs[k].session)
        /\ \E i \in DOMAIN log : log[i] = k
    BY <1>1 DEF RunsWell
  <2>2. runs'[k].session = runs[k].session
    BY <2>1, OwnerStep, ChatAssumption
  <2>3. PICK s \in Asks : s = runs[k].session
    BY <2>1
  <2>4. InSession(s, s)'
    BY <2>1, <2>3, InSessionStays
  <2>5. \E i \in DOMAIN log' : log'[i] = k
    BY <2>1, <1>0, OwnerStep
  <2>6. runs'[k].status # "absent"
    <3>1. CASE Steady
      BY <3>1, <2>1 DEF Steady
    <3>2. ASSUME NEW c \in calls, Creates(c)
          PROVE  runs'[k] = runs[k]
      BY <3>2, <1>0, <1>1 DEF Creates
    <3> QED
      BY <3>1, <3>2, <2>1, RunsStep
  <2> QED
    BY <2>1, <2>2, <2>3, <2>4, <2>5, <2>6
<1>2. ASSUME NEW c \in calls, Creates(c), c.req.key = k
      PROVE  /\ runs'[k].status # "absent" /\ runs'[k].session \in Asks
             /\ \E s \in Asks : runs'[k].session = s /\ InSession(s, s)'
             /\ \E i \in DOMAIN log' : log'[i] = k
  <2>1. runs'[k] = [status |-> "running", out |-> "none", session |-> SessionNamed(c.req)]
    BY <1>0, <1>2 DEF Creates
  <2>2. runs'[k].session = SessionNamed(c.req) /\ runs'[k].status # "absent" /\ runs'[k] # NoRun
    BY <2>1 DEF NoRun
  <2>3. log' = Append(log, k)
    BY <1>2 DEF Creates
  <2>4. Len(log) + 1 \in DOMAIN log' /\ log'[Len(log) + 1] = k
    BY <2>3, <1>0
  <2>5. CASE c.req.session = NoAsk
    BY <2>2, <2>4, <2>5, <1>2 DEF SessionNamed, InSession
  <2>6. CASE c.req.session # NoAsk
    <3>1. c.req.session \in Asks
      BY <2>6, <1>0 DEF Call, Request, Asks0
    <3>2. InSession(c.req.session, c.req.session)
      BY <2>6, <1>2 DEF RequestsWell, SessionKnown, Creates
    <3>3. PICK s \in Asks : s = c.req.session
      BY <3>1
    <3>4. InSession(s, s)'
      BY <3>2, <3>3, InSessionStays
    <3> QED
      BY <2>2, <2>4, <2>6, <3>3, <3>4 DEF SessionNamed
  <2> QED
    BY <2>5, <2>6
<1>3. CASE runs[k] = NoRun
  <2>1. \E c \in calls : Creates(c) /\ c.req.key = k
    <3>1. ~Steady
      BY <1>3 DEF Steady
    <3>2. ASSUME NEW c \in calls, Creates(c), c.req.key # k
          PROVE  FALSE
      BY <3>2, <1>0, <1>3 DEF Creates
    <3> QED
      BY <3>1, <3>2, RunsStep
  <2> QED
    BY <2>1, <1>2
<1> QED
  BY <1>1, <1>3

\* A message has a key of its own.
LEMMA FreshKey ==
  ASSUME IInv, TurnsInv, RunsWell, NEW k \in Asks \ used
  PROVE  /\ runs[k] = NoRun /\ k # request.key
         /\ \A c \in calls : c.op = "create" => c.req.key # k
         /\ \A q \in Asks : ~InSession(q, k)
<1>1. ASSUME NEW q \in Asks, runs[q] # NoRun
      PROVE  q \in used
  <2>1. PICK i \in DOMAIN log : log[i] = q
    BY <1>1 DEF RunsWell
  <2>2. i \in 1..Len(log)
    BY DEF IInv, TypeOK
  <2> QED
    BY <2>1, <2>2 DEF TurnsInv, LogOnce
<1>2. runs[k] = NoRun
  BY <1>1
<1>3. k # request.key
  <2>1. NoRequest.key = NoAsk
    BY DEF NoRequest
  <2> QED
    BY <2>1, ChatAssumption DEF TurnsInv, KeysUsed
<1>4. \A c \in calls : c.op = "create" => c.req.key # k
  BY DEF TurnsInv, KeysUsed
<1>5. ASSUME NEW q \in Asks, InSession(q, k)
      PROVE  FALSE
  BY <1>2, <1>5 DEF InSession, RunsWell
<1> QED
  BY <1>2, <1>3, <1>4, <1>5

\* The run a view shows is the present one, of the present session.
LEMMA ShownIsCurrent ==
  ASSUME IInv, RunsKnown, OwnSession, view.run # NoAsk
  PROVE  Current = view.run /\ CurrentSession = SessionOf(view.run)
<1>1. CASE request = NoRequest
  BY <1>1 DEF Current, CurrentSession
<1>2. CASE request # NoRequest
  <2>1. view.run = request.key
    BY <1>2 DEF IInv, OwnRunShown
  <2>2. runs[request.key].session = SessionNamed(request)
    BY <2>1, <1>2 DEF RunsKnown, OwnSession
  <2> QED
    BY <2>1, <2>2, <1>2 DEF Current, CurrentSession, SessionOf
<1> QED
  BY <1>1, <1>2

\* What send() takes for its message.
LEMMA SendStep ==
  ASSUME IInv, TurnsInv, RunsWell, RunsKnown, OwnSession, Send
  PROVE  /\ request'.key \in Asks \ used /\ request' # NoRequest
         /\ UNCHANGED <<owner, confirmedRun>> /\ epoch' = epoch + 1
         /\ confirmed' = BoundedHistory(confirmed) /\ request'.ctx = confirmed'
         /\ used' = used \cup {request'.key} /\ view'.run = NoAsk /\ view'.phase = "submitting"
         /\ limited' = (limited \/ view.phase = "canceled")
         /\ \/ view.phase = "idle" /\ request'.session = NoAsk
            \/ /\ view.phase \in {"completed", "canceled"} /\ view.run \in Asks
               /\ runs[view.run].status \in FinalStatus
               /\ request'.session = CurrentSession /\ Current = view.run
               /\ InSession(view.run, CurrentSession) /\ request'.session \in Asks
<1>0. view \in View /\ NoAsk \notin Asks /\ NoRequest.key = NoAsk
  BY ChatAssumption DEF IInv, TypeOK, NoRequest
<1>1. PICK k \in Asks \ used :
        /\ request' = [key |-> k, ctx |-> BoundedHistory(confirmed),
                       session |-> IF view.phase = "idle" THEN NoAsk ELSE SessionOf(view.run)]
        /\ used' = used \cup {k} /\ confirmed' = BoundedHistory(confirmed)
  BY DEF Send
<1>2. /\ request'.key = k /\ request' # NoRequest
      /\ request'.ctx = confirmed'
      /\ request'.session = IF view.phase = "idle" THEN NoAsk ELSE SessionOf(view.run)
  BY <1>0, <1>1
<1>3. /\ UNCHANGED <<owner, confirmedRun>> /\ epoch' = epoch + 1
      /\ limited' = (limited \/ view.phase = "canceled")
      /\ view'.run = NoAsk /\ view'.phase = "submitting"
      /\ view.phase \in {"idle", "completed", "canceled"}
  BY DEF Send, ResetView, ResetEpochs, UnfinishedReply, Sendable
<1>4. CASE view.phase \in {"completed", "canceled"}
  <2>1. view.run # NoAsk /\ PhaseOf(runs[view.run].status) = view.phase
    BY <1>4 DEF IInv, VerifiedOutcome, Terminal
  <2>2. view.run \in Asks /\ runs[view.run] \in Run
    BY <2>1, <1>0 DEF View, Asks0, IInv, TypeOK
  <2>3. runs[view.run].status \in FinalStatus
    BY <2>1, <2>2, <1>4 DEF Run, Status, LiveStatus, FinalStatus, PhaseOf
  <2>4. SessionOf(view.run) = CurrentSession /\ Current = view.run
    BY <2>1, ShownIsCurrent
  <2>5. runs[view.run] # NoRun /\ SessionOf(view.run) = runs[view.run].session
    BY <2>1 DEF RunsKnown, SessionOf
  <2>6. runs[view.run].session \in Asks
    BY <2>2, <2>5 DEF RunsWell
  <2>7. request'.session = SessionOf(view.run)
    BY <1>2, <1>4
  <2> QED
    BY <1>1, <1>2, <1>3, <1>4, <2>2, <2>3, <2>4, <2>5, <2>6, <2>7 DEF InSession
<1> QED
  BY <1>1, <1>2, <1>3, <1>4

LEMMA ExistsStays ==
  ASSUME IInv, [Next]_vars, NEW k \in Asks, runs[k] # NoRun
  PROVE  runs'[k] # NoRun
<1>1. PICK s : s = runs[k].session
  OBVIOUS
<1>2. InSession(k, s)
  BY <1>1 DEF InSession
<1>3. InSession(k, s)'
  BY <1>2, InSessionStays
<1> QED
  BY <1>3 DEF InSession

\* A create call that was answered has a run.
LEMMA CreateAnswered ==
  ASSUME IInv, [Next]_vars, NEW d \in calls', d \notin calls, d.op = "create", d.ans.is = "run"
  PROVE  runs'[d.req.key] # NoRun
<1>0. calls \in SUBSET Call /\ runs \in [Asks -> Run]
  BY DEF IInv, TypeOK
<1>1. ASSUME NEW c \in calls, NEW a, Reply(c, a)
      PROVE  d.op = c.op /\ d.req = c.req /\ d.ans = a
  <2>1. d = [c EXCEPT !.ans = a] /\ c \in Call
    BY <1>0, <1>1 DEF Reply, Replace
  <2> QED
    BY <2>1 DEF Call
<1>2. ASSUME NEW c \in calls, OwnerCreates(c)
      PROVE  runs'[d.req.key] # NoRun
  <2>1. c.req.key \in Asks /\ c.req.key = d.req.key
    BY <1>1, <1>2 DEF OwnerCreates, IInv, CallsWell
  <2>2. CASE runs[c.req.key] # NoRun
    BY <2>1, <2>2, <1>2 DEF OwnerCreates
  <2>3. CASE runs[c.req.key] = NoRun
    <3>1. PICK s : runs' = [runs EXCEPT ![c.req.key] = [status |-> "running", out |-> "none",
                                                       session |-> s]]
      BY <2>3, <1>2 DEF OwnerCreates
    <3>2. runs'[c.req.key] = [status |-> "running", out |-> "none", session |-> s]
      BY <3>1, <2>1, <1>0
    <3> QED
      BY <3>2, <2>1 DEF NoRun
  <2> QED
    BY <2>2, <2>3
<1>3. ASSUME NEW c \in calls, OwnerReads(c) \/ OwnerControls(c) \/ NetworkLoses(c)
      PROVE  FALSE
  <2>1. d.op = c.op
    BY <1>1, <1>3 DEF OwnerReads, OwnerControls, NetworkLoses
  <2>2. CASE OwnerReads(c) \/ OwnerControls(c)
    BY <2>1, <2>2 DEF OwnerReads, OwnerControls, GetOps, ControlOps
  <2>3. CASE NetworkLoses(c)
    <3>1. d.ans = Lost
      BY <2>3, <1>1 DEF NetworkLoses
    <3> QED
      BY <3>1 DEF Lost, Pending
  <2> QED
    BY <2>2, <2>3, <1>3
<1>4. \A op, e, t, r, q : MakeCall(op, e, t, r, q).ans.is = "pending"
  BY DEF MakeCall, Pending
<1>5. CASE UserNext
  <2>1. \/ UNCHANGED calls
        \/ \E op, e, t, r, q : Dispatch(MakeCall(op, e, t, r, q))
    BY <1>5 DEF UserNext, Send, RetrySubmission, Reconnect, RefreshStatus, Stop, Pause, Resume,
      Control, OpenSession, Recover, Load, Retarget, Close
  <2> QED
    BY <2>1, <1>4 DEF Dispatch
<1>6. ASSUME NEW c \in calls, Continues(c)
      PROVE  FALSE
  BY <1>4, <1>6 DEF Continues, Discard, CreateSettles, RunSettles, ControlRefused, RefreshSettles,
    ReconcileSettles, RecoverSettles, OpenSettles, Settle, Replace, Readback
<1>7. CASE StreamNext \/ UNCHANGED vars \/ \E r \in Asks : OwnerMoves(r)
  BY <1>4, <1>7 DEF StreamNext, StreamDelta, StreamTerminal, StreamInterrupted, OwnerMoves, vars,
     Dispatch
<1> QED
  BY <1>2, <1>3, <1>5, <1>6, <1>7 DEF Next, Answers

LEMMA NewestRow ==
  ASSUME IInv, RunsKnown, RowsWell, NEW c \in calls, ShowsSession(c)
  PROVE  LET rows == c.ans.rows IN
         /\ Len(rows) \in DOMAIN rows /\ view'.run = rows[Len(rows)].run
         /\ rows[Len(rows)].run \in Asks /\ InSession(rows[Len(rows)].run, c.run) /\ c.run \in Asks /\ c.op = "open"
         /\ UNCHANGED owner /\ used' = used
<1>1. c \in Call /\ c.op = "open" /\ c.ans.is = "rows" /\ c.epoch = epoch
  BY DEF ShowsSession, OpenSettles, IInv, TypeOK
<1>2. c.ans.rows \in Seq(Row) /\ c.ans.rows # << >> /\ c.run \in Asks
  BY <1>1 DEF Call, Answer, IInv, CallsWell
<1>3. PICK rows \in Seq(Row) : rows = c.ans.rows
  BY <1>2
<1>4. Len(rows) \in DOMAIN rows /\ rows[Len(rows)] \in Row
  BY <1>2, <1>3
<1>5. rows[Len(rows)].run \in Asks
  BY <1>4 DEF Row
<1>6. view'.run = rows[Len(rows)].run /\ UNCHANGED owner /\ used' = used
  <2>1. Lost.is = "lost"
    BY DEF Lost, Pending
  <2> QED
    BY <2>1, <1>1, <1>3 DEF ShowsSession, OpenSettles
<1>7. InSession(rows[Len(rows)].run, c.run)
  BY <1>1, <1>3, <1>4 DEF RowsWell
<1> QED
  BY <1>1, <1>2, <1>3, <1>4, <1>5, <1>6, <1>7

LEMMA RunsKnownStep ==
  ASSUME IInv, RunsKnown, RowsWell, [Next]_vars
  PROVE  RunsKnown'
<1>0. view \in View /\ view' \in View /\ calls \in SUBSET Call
  BY TypeStep DEF IInv, TypeOK
<1>1. ASSUME view'.run # NoAsk
      PROVE  runs'[view'.run] # NoRun
  <2>1. view'.run \in Asks
    BY <1>0, <1>1 DEF View, Asks0
  <2>2. CASE Send \/ StartsOver
    BY <2>2, <1>1 DEF Send, ResetView, StartsOver
  <2>3. CASE GoesOn
    <3>1. runs[view'.run] # NoRun
      BY <2>3, <1>1 DEF GoesOn, RunsKnown
    <3> QED
      BY <3>1, <2>1, ExistsStays
  <2>4. ASSUME NEW c \in calls, ShowsSession(c)
        PROVE  runs[view'.run] # NoRun
    BY <2>4, NewestRow DEF InSession
  <2>5. ASSUME NEW c \in calls, ShowsRun(c)
        PROVE  runs[view'.run] # NoRun
    BY <2>5 DEF ShowsRun, RowsWell
  <2> QED
    BY <2>1, <2>2, <2>3, <2>4, <2>5, ViewStep, ExistsStays
<1>2. ASSUME NEW d \in calls', d.op = "create", d.ans.is = "run"
      PROVE  runs'[d.req.key] # NoRun
  <2>1. CASE d \in calls
    <3>1. d.req.key \in Asks /\ runs[d.req.key] # NoRun
      BY <2>1, <1>2 DEF IInv, CallsWell, RunsKnown
    <3> QED
      BY <3>1, ExistsStays
  <2> QED
    BY <2>1, <1>2, CreateAnswered
<1> QED
  BY <1>1, <1>2 DEF RunsKnown

LEMMA RequestsWellStep ==
  ASSUME IInv, TurnsInv, RunsWell, RunsKnown, RequestsWell, OwnSession, [Next]_vars
  PROVE  RequestsWell'
<1>0. /\ request \in Request /\ calls \in SUBSET Call
      /\ NoAsk \notin Asks /\ NoRequest.key = NoAsk /\ NoRequest.session = NoAsk
      /\ calls' \in SUBSET Call
  BY ChatAssumption, TypeStep DEF IInv, TypeOK, NoRequest
<1>1. ASSUME NEW req \in Request, SessionKnown(req)
      PROVE  SessionKnown(req)'
  <2>1. CASE req.session = NoAsk
    BY <2>1 DEF SessionKnown
  <2>2. CASE req.session # NoAsk
    <3>1. PICK s \in Asks : s = req.session
      BY <2>2 DEF Request, Asks0
    <3>2. InSession(s, s)'
      BY <3>1, <2>2, <1>0, <1>1, InSessionStays DEF SessionKnown
    <3> QED
      BY <3>1, <3>2 DEF SessionKnown
  <2> QED
    BY <2>1, <2>2
<1>2. \/ request' = request
      \/ request' = NoRequest
      \/ /\ request'.key \in Asks \ used
         /\ request'.session = NoAsk \/ InSession(request'.session, request'.session)
         /\ UNCHANGED owner
  <2>1. CASE Send
    <3>1. request'.session = NoAsk \/ \E q \in Asks : InSession(q, request'.session)
      BY <2>1, SendStep
    <3>2. request'.session = NoAsk \/ InSession(request'.session, request'.session)
      BY <3>1 DEF RunsWell, InSession
    <3> QED
      BY <3>2, <2>1, SendStep
  <2> QED
    BY <2>1, <1>0, ViewStep DEF StartsOver, GoesOn, ShowsSession, ShowsRun
<1>3. SessionKnown(request)'
  <2>1. CASE request' = request
    <3>1. PICK req \in Request : req = request
      BY <1>0
    <3>2. SessionKnown(req)'
      BY <3>1, <1>1 DEF RequestsWell
    <3> QED
      BY <2>1, <3>1, <3>2 DEF SessionKnown
  <2>2. CASE request' = NoRequest
    BY <2>2, <1>0 DEF SessionKnown
  <2>3. CASE InSession(request'.session, request'.session) /\ UNCHANGED owner
    BY <2>3 DEF SessionKnown, InSession, owner
  <2>4. CASE request'.session = NoAsk
    BY <2>4 DEF SessionKnown
  <2> QED
    BY <2>1, <2>2, <2>3, <2>4, <1>2
<1>4. ASSUME NEW d \in calls', d.op = "create"
      PROVE  /\ SessionKnown(d.req)'
             /\ d.req.key = request'.key => d.req = request'
  <2>1. CASE \E c \in calls : Same(c, d)
    <3>1. PICK c \in calls : Same(c, d)
      BY <2>1
    <3>2. c.op = "create" /\ c.req = d.req /\ d.req \in Request /\ d.req.key \in Asks
      BY <3>1, <1>0, <1>4 DEF Same, Call, IInv, CallsWell
    <3>3. PICK req \in Request : req = d.req
      BY <3>2
    <3>4. SessionKnown(req)'
      BY <3>2, <3>3, <1>1 DEF RequestsWell
    <3>5. d.req.key # request'.key \/ request' = request
      BY <3>2, <1>0, <1>2 DEF TurnsInv, KeysUsed
    <3> QED
      BY <3>2, <3>3, <3>4, <3>5 DEF RequestsWell, SessionKnown
  <2>2. CASE MadeNow(d)'
    BY <2>2, <1>3, <1>4 DEF MadeNow, SessionKnown
  <2> QED
    BY <2>1, <2>2, <1>0, <1>4, CallIsOf
<1> QED
  BY <1>3, <1>4 DEF RequestsWell

LEMMA OwnSessionStep ==
  ASSUME IInv, TurnsInv, RunsWell, RunsKnown, RequestsWell, OwnSession, [Next]_vars
  PROVE  OwnSession'
<1> SUFFICES ASSUME request' # NoRequest, runs'[request'.key] # NoRun
             PROVE  runs'[request'.key].session = SessionNamed(request')
  BY DEF OwnSession, SessionNamed
<1>1. CASE request' = request
  <2>1. PICK k \in Asks : k = request.key
    BY <1>1 DEF IInv, RequestWell
  <2>2. CASE runs[k] # NoRun
    BY <2>1, <2>2, <1>1, OwnerStep, ChatAssumption DEF OwnSession, RunsWell, SessionNamed
  <2>3. CASE runs[k] = NoRun
    <3>1. PICK s : s = runs'[k].session
      OBVIOUS
    <3>2. InSession(k, s)' /\ ~InSession(k, s)
      BY <3>1, <2>1, <2>3, <1>1 DEF InSession
    <3>3. PICK c \in calls : Creates(c) /\ c.req.key = k /\ s = SessionNamed(c.req)
      BY <3>2, InSessionNew
    <3>4. c.req = request
      BY <3>3, <2>1 DEF RequestsWell, Creates
    <3> QED
      BY <3>1, <3>3, <3>4, <2>1, <1>1
  <2> QED
    BY <2>2, <2>3
<1>2. CASE Send
  <2>1. request'.key \in Asks \ used /\ runs' = runs
    BY <1>2, SendStep DEF owner
  <2>2. PICK k \in Asks \ used : k = request'.key
    BY <2>1
  <2> QED
    BY <2>1, <2>2, FreshKey
<1> QED
  BY <1>1, <1>2, ViewStep DEF StartsOver, GoesOn, ShowsSession, ShowsRun
\* What was answered of a session remains so.
LEMMA RowsWellStep ==
  ASSUME IInv, TurnsInv, SessionInv, [Next]_vars
  PROVE  RowsWell'
<1>0. /\ RunsWell /\ RowsWell /\ calls \in SUBSET Call /\ calls' \in SUBSET Call
      /\ CallsWell /\ CallsWell' /\ TypeOK /\ runs \in [Asks -> Run]
  BY CallsWellStep, TypeStep DEF SessionInv, IInv, TypeOK
<1>1. ASSUME NEW d \in calls', d.op = "open", d.ans.is = "rows"
      PROVE  /\ (\A i \in DOMAIN d.ans.rows : InSession(d.ans.rows[i].run, d.run))'
             /\ OrderedRows(d.ans.rows)'
             /\ \E i \in DOMAIN d.ans.rows : d.ans.rows[i].run = d.run
  <2>1. PICK s \in Asks : s = d.run
    BY <1>0, <1>1 DEF CallsWell
  <2>2. PICK rows \in Seq(Row) : rows = d.ans.rows
    BY <1>0 DEF Call, Answer
  <2>3. \A i \in DOMAIN rows : rows[i].run \in Asks
    <3>1. \A i \in DOMAIN rows : rows[i] \in Row
      BY <2>2
    <3> QED
      BY <3>1 DEF Row
  <2>4. /\ \A i \in DOMAIN rows : InSession(rows[i].run, s)
        /\ OrderedRows(rows)
        /\ \E i \in DOMAIN rows : rows[i].run = s
    <3>1. CASE d \in calls
      BY <3>1, <2>1, <2>2, <1>0, <1>1 DEF RowsWell
    <3>2. CASE d \notin calls
      <4>1. PICK c \in calls : Same(c, d) /\ d.ans = Rows(c.run) /\ c.op = "open"
        BY <3>2, <1>0, <1>1, RowsAnswered
      <4>2. rows = Rows(s).rows
        BY <4>1, <2>1, <2>2 DEF Same
      <4>3. s \in Asks0
        BY DEF Asks0
      <4>4. /\ \A i \in DOMAIN rows : \E m \in DOMAIN log :
                 rows[i].run = log[m] /\ runs[log[m]].session = s
            /\ OrderedRows(rows)
            /\ \A m \in DOMAIN log : runs[log[m]].session = s
                 => \E i \in DOMAIN rows : rows[i].run = log[m]
        BY <4>2, <4>3, <1>0, RowsOfSession
      <4>5. \A m \in DOMAIN log : runs[log[m]] # NoRun
        BY <1>0 DEF TurnsInv, LogOnce, TypeOK
      <4>6. \E m \in 1..Len(log) : log[m] = s /\ runs[s].session = s
        BY <4>1, <2>1, <1>0 DEF CallsWell, Same
      <4>7. \E m \in DOMAIN log : log[m] = s /\ runs[s].session = s
        BY <4>6, <1>0 DEF TypeOK
      <4> QED
        BY <4>4, <4>5, <4>7 DEF InSession
    <3> QED
      BY <3>1, <3>2
  <2>5. ASSUME NEW i \in DOMAIN rows
        PROVE  InSession(rows[i].run, s)'
    BY <2>3, <2>4, InSessionStays
  <2>6. ASSUME NEW i \in DOMAIN rows, NEW j \in DOMAIN rows, i < j
        PROVE  LoggedBefore(rows[i].run, rows[j].run)'
    <3>1. LoggedBefore(rows[i].run, rows[j].run)
      BY <2>4, <2>6 DEF OrderedRows
    <3> QED
      BY <3>1, LoggedStays
  <2> QED
    BY <2>1, <2>2, <2>4, <2>5, <2>6 DEF InSession, OrderedRows, LoggedBefore
<1>2. ASSUME NEW d \in calls', d.op = "recover"
      PROVE  runs'[d.run] # NoRun
  <2>1. d.run \in Asks
    BY <1>0, <1>2 DEF CallsWell
  <2>2. CASE \E c \in calls : Same(c, d)
    <3>1. runs[d.run] # NoRun
      BY <2>2, <1>0, <1>2 DEF RowsWell, Same
    <3> QED
      BY <3>1, <2>1, ExistsStays
  <2>3. CASE Made(d) /\ MadeNow(d)' /\ d \notin calls
    <3>1. UNCHANGED owner /\ \E i \in DOMAIN log : log[i] = d.run
      BY <2>3, <1>2, LoadStep
    <3> QED
      BY <3>1, <1>0 DEF TurnsInv, LogOnce, TypeOK, owner
  <2> QED
    BY <2>2, <2>3, <1>2, CallIsOf
<1> QED
  BY <1>1, <1>2 DEF RowsWell, InSession, OrderedRows, LoggedBefore

LEMMA SessionStep ==
  ASSUME IInv, TurnsInv, SessionInv, [Next]_vars
  PROVE  SessionInv'
BY RunsWellStep, RunsKnownStep, RequestsWellStep, OwnSessionStep, RowsWellStep DEF SessionInv

----------------------------------------------------------------------------
(* The theorems *)

LEMMA InitInvariant == Init => IInv
<1> SUFFICES ASSUME Init PROVE IInv
  OBVIOUS
<1> USE DEF Init
<1>1. TypeOK
  <2>1. runs \in [Asks -> Run] /\ request \in Request /\ sub \in Sub
    BY AnswerTypes
  <2>2. view \in View
    BY DEF View, Phase, Asks0
  <2>3. log \in Seq(Asks) /\ confirmed \in Seq(Pair)
    OBVIOUS
  <2> QED
    BY <2>1, <2>2, <2>3 DEF TypeOK, Asks0
<1>2. CallsWell /\ CallsTrue /\ CallsOwn
  BY DEF CallsWell, CallsTrue, CallsOwn
<1>3. RequestWell /\ SubWell /\ IdleAlone
  BY DEF RequestWell, SubWell, IdleAlone
<1>4. VerifiedOutcome /\ OwnRunShown
  BY DEF VerifiedOutcome, OwnRunShown, Terminal
<1> QED
  BY <1>1, <1>2, <1>3, <1>4 DEF IInv

LEMMA NextInvariant == IInv /\ [Next]_vars => IInv'
BY TypeStep, CallsWellStep, RequestWellStep, SubWellStep, CallsTrueStep, CallsOwnStep,
   IdleAloneStep, OutcomeStep, OwnRunStep DEF IInv

\* The inductive invariant holds of every behaviour.
THEOREM Invariance == Spec => []IInv
BY InitInvariant, NextInvariant, PTL DEF Spec

\* Every state of every behaviour is well typed: in particular the confirmed
\* context, cut by boundedHistory and filtered from history rows, is always
\* a sequence of whole turns (conversation-run.ts:200-233, 669-697).
THEOREM TypeCorrect == Spec => []TypeOK
<1>1. IInv => TypeOK
  BY DEF IInv
<1> QED
  BY <1>1, Invariance, PTL

\* A terminal view always shows the outcome the owner holds, whatever the
\* number of runs, calls in flight, checks, controls and reconnects.
THEOREM OutcomeIsVerified == Spec => []VerifiedOutcome
<1>1. IInv => VerifiedOutcome
  BY DEF IInv
<1> QED
  BY <1>1, Invariance, PTL

\* The view of a sent message never shows the run of another.
THEOREM RunIsOwn == Spec => []OwnRunShown
<1>1. IInv => OwnRunShown
  BY DEF IInv
<1> QED
  BY <1>1, Invariance, PTL

\* Nothing that was awaited when a view was closed or retargeted repaints it.
THEOREM ClosedStaysClosed == Spec => IdleStaysQuiet
<1>1. ASSUME IInv, [Next]_vars, view.phase = "idle", epoch' = epoch
      PROVE  UNCHANGED <<view, confirmed, limited, sub>>
  <2>1. epoch \in Nat /\ epoch' # epoch + 1
    BY <1>1 DEF IInv, TypeOK
  <2> QED
    BY <2>1, <1>1, IdleStep
<1> QED
  BY <1>1, Invariance, PTL DEF IdleStaysQuiet, Spec

\* A running view is watched, for any number of runs, streams and calls.
THEOREM RunningStaysWatched == Spec => []RunningIsWatched
<1>1. Init => RunningIsWatched
  BY DEF Init, RunningIsWatched
<1>2. IInv /\ RunningIsWatched /\ [Next]_vars => RunningIsWatched'
  BY WatchedStep
<1> QED
  BY <1>1, <1>2, Invariance, PTL DEF Spec

\* What the view has verified stays until the user acts, whichever answers
\* come late, where the application offers no check while a view waits
\* (render, personal-chat-ui.ts:656).
THEOREM OutcomeIsKept == ~CheckInFlight => (Spec => VerifiedKept)
<1> SUFFICES ASSUME ~CheckInFlight PROVE Spec => VerifiedKept
  OBVIOUS
<1>1. Init => KeptInv
  BY DEF Init, KeptInv, SoleCall, FollowUps, OutcomeShown, Terminal
<1>2. IInv /\ KeptInv /\ [Next]_vars => KeptInv'
  BY SoleStep, OutcomeShownStep DEF KeptInv
<1>3. IInv /\ KeptInv /\ [Next]_vars
        => [view.phase \in Terminal /\ epoch' = epoch /\ ~UnverifiedCheck => view' = view]_vars
  BY KeptStep DEF KeptInv
<1> QED
  BY <1>1, <1>2, <1>3, Invariance, PTL DEF Spec, VerifiedKept

\* The chat view implements VerifiedConversation, for any messages, sizes and
\* bounds: a turn enters the context once, with the owner's final answer to
\* the question being asked, and only the oldest turns are ever dropped.
THEOREM TurnsImplementConversation == Spec => TurnsAreVerified
<1>1. Init => TurnsInv /\ Conversation!ConversationInit
  BY TurnsInitially
<1>2. IInv /\ TurnsInv /\ [Next]_vars => TurnsInv'
  BY TurnsInvStep
<1>3. IInv /\ TurnsInv /\ [Next]_vars
        => [Conversation!ConversationNext]_Conversation!cvars
  BY TurnsStep
<1> QED
  BY <1>1, <1>2, <1>3, Invariance, PTL DEF Spec, TurnsAreVerified, Conversation!ConversationSpec
=============================================================================
