-------------------------- MODULE ChatContinuation --------------------------
(***************************************************************************)
(* What send() continues.  It looks only at the phase of its own view      *)
(* (conversation-run.ts:238-240): a run that the view was taken off while  *)
(* it was still to be created or still alive goes on at the owner, and the *)
(* session may be continued from an earlier answer, or from a later one.   *)
(* The history variable `left` keeps these runs, so that what holds of all *)
(* the others can be said, and `cut` that send() itself dropped turns,     *)
(* which it does without the notice (243).  They change nothing of ChatRun.*)
(***************************************************************************)
EXTENDS ChatRunProps

VARIABLES
  left,  \* the runs a message may leave out
  cut    \* the message, or one before it in the view, was sent without turns

\* The view goes on (close, openSession, recover, retarget) while the owner
\* has still to create the run of the view's message.
Unsent(k) ==
  /\ runs'[k] = NoRun
  /\ \E c \in calls' : c.op = "create" /\ c.req.key = k /\ c.epoch # epoch'

\* The user recovers a run by its ID while another of its session is alive, or
\* opens a session whose newest run is one that was left: it may have overtaken
\* one that is alive.
RecoversBeside(k) ==
  \E c \in calls' \ calls :
    /\ c.op = "recover" /\ c.ans = Pending /\ c.run # k
    /\ runs[k].session = SessionOf(c.run)
Newest(rows) == rows[Len(rows)].run
OpensBehind(k) ==
  \E c \in calls :
    /\ OpenSettles(c) /\ c.ans.is = "rows" /\ Newest(c.ans.rows) \in left
    /\ runs[k].session = c.run

Leaves(k) ==
  Unsent(k) \/ (runs[k].status \in LiveStatus /\ (RecoversBeside(k) \/ OpensBehind(k)))

\* A new message is sent with fewer turns than the view had.
Cuts == request' # request /\ Len(confirmed') < Len(confirmed)

LeftInit == Init /\ left = {} /\ cut = FALSE
LeftNext ==
  /\ Next
  /\ left' = left \cup {k \in Asks : Leaves(k)}
  /\ cut' = (request' # NoRequest /\ (cut \/ Cuts))
LeftSpec == LeftInit /\ [][LeftNext]_<<vars, left, cut>>

\* The runs of the session a message continues, but those left.
Before(k) ==
  /\ request.session # NoAsk /\ runs[k].session = request.session
  /\ k # request.key /\ k \notin left

\* A message continues a session only when every run of the session has ended
\* at the owner (CHAT_PREVIOUS_RUN_UNRESOLVED, 238-240), so that no two are
\* alive at once.
SessionHasEnded ==
  TypeOK /\ \A k \in Asks : Before(k) => runs[k].status \in FinalStatus

\* Without the notice "Earlier conversation context unavailable or trimmed" a
\* message carries a turn of every run of the session, in the order of the
\* owner's log, and turns of no other session.
ContextIsWhole ==
  request # NoRequest /\ ~limited /\ ~cut =>
    LET ctx == request.ctx
    IN /\ \A k \in Asks : Before(k) => \E i \in DOMAIN ctx : ctx[i].run = k
       /\ \A i \in DOMAIN ctx :
            ctx[i].ask = ctx[i].run /\ runs[ctx[i].run].session = request.session
       /\ \A i, j \in DOMAIN ctx : i < j => LoggedBefore(ctx[i].run, ctx[j].run)

\* send() continues a conversation that has ended, with all of it or with the
\* notice (238-250).
SessionContinues == SessionHasEnded /\ ContextIsWhole
=============================================================================
