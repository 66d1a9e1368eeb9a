------------------------------ MODULE ChatPane ------------------------------
(***************************************************************************)
(* One pane of PersonalChatApplication (apps/web/src/personal-chat-ui.ts)  *)
(* over its controller ChatRun: the transcript it shows and exports.       *)
(*                                                                         *)
(* The controller reports its view in onChange each time it shows it; the  *)
(* pane decides into which turn of the transcript the output goes.  A pane *)
(* makes a new controller for a new or an opened conversation; the answers *)
(* to the old one are those of earlier epochs here.                        *)
(***************************************************************************)
EXTENDS ChatRun

CONSTANTS
  First,    \* the ask whose session is there from the start, or NoAsk
  Earlier,  \* the earlier runs of that session, oldest first, a page each
  MaxPages  \* bound: the calls for earlier pages in flight

\* Runs have names of their own.
ASSUME PaneAssumption ==
  /\ First \in Asks \cup {NoAsk} /\ Earlier \in Seq(STRING) /\ MaxPages \in Nat
  /\ \A i, j \in 1..Len(Earlier) : Earlier[i] = Earlier[j] => i = j
  /\ \A i \in 1..Len(Earlier) : Earlier[i] \notin Asks \cup {NoAsk}

VARIABLES
  pane,     \* turns, activeTurn, busy, pendingHistoryFinal, historyHasOlder
            \* and historyLoading
  cursor,   \* historicalOlder of the controller: the next page, 0 for none
  pages,    \* its calls for earlier pages; mine: of the pane's generation
  refused,  \* history: the controller refused a message since the pane was empty
  cut       \* history: the run was controlled while a page was read, since then

older == <<cursor, pages, cut>>
panerest == <<older, refused>>
panevars == <<vars, pane, panerest>>

\* `of` is the run whose question or output the turn holds.  Outputs of other
\* phases than completed are not canonical: partial.
Text == {"none", "partial", "final", "clipped"}
Earliers == {Earlier[i] : i \in 1..Len(Earlier)}
Turn == [role : {"user", "assistant", "status"}, of : Asks0 \cup Earliers, text : Text]
Question(k) == [role |-> "user", of |-> k, text |-> "final"]
AnswerTurn(r, text) == 
  [role |-> "assistant", of |-> IF text = "none" THEN NoAsk ELSE r, text |-> text]
Stopped == [role |-> "status", of |-> NoAsk, text |-> "none"]

\* The run whose final output is still to be verified and its cell, 0 for none.
NotPending == [run |-> NoAsk, cell |-> 0]

\* active is activeTurn counted from 1.
Empty == [turns |-> << >>, active |-> 0, busy |-> FALSE, pending |-> NotPending,
          hasOlder |-> FALSE, loading |-> FALSE]

PaneTypeOK ==
  /\ TypeOK /\ refused \in BOOLEAN /\ cut \in BOOLEAN /\ cursor \in 0..Len(Earlier)
  /\ pages \in SUBSET [page : 1..Len(Earlier), mine : BOOLEAN, epoch : Nat,
                       selection : Nat, ans : {"pending", "page", "failed"}]
  /\ pane.hasOlder \in BOOLEAN /\ pane.loading \in BOOLEAN
  /\ pane.turns \in Seq(Turn) /\ pane.active \in 0..Len(pane.turns) /\ pane.busy \in BOOLEAN
  /\ pane.pending \in [run : Asks0, cell : 0..Len(pane.turns)]

----------------------------------------------------------------------------
(* onChange(): what a shown view does to the pane *)

\* The verified final output of the newest restored run, into its own cell.
Due(p, v) == p.pending.run # NoAsk /\ v.phase = "completed" /\ v.run = p.pending.run
AfterPending(p, v) ==
  IF ~Due(p, v) THEN p
  ELSE LET done == AnswerTurn(v.run, v.out) IN
       [p EXCEPT !.pending = NotPending,
                 !.turns = IF p.pending.cell = 0 THEN Append(@, done)
                           ELSE [@ EXCEPT ![p.pending.cell] = done]]

\* The output of the view goes into the active turn, which is an assistant's.
AfterOutput(p, v) ==
  IF p.active = 0 THEN p
  ELSE IF v.phase = "canceled" THEN [p EXCEPT !.turns[p.active] = Stopped, !.active = 0]
  ELSE [p EXCEPT !.turns[p.active] = AnswerTurn(v.run, v.out)]

Busy(v) == v.phase \in {"submitting", "running"}
OnChange(p, v) == [AfterOutput(AfterPending(p, v), v) EXCEPT !.busy = Busy(v)]
Follows == pane' = OnChange(pane, view') /\ UNCHANGED panerest

\* pane.generation++, and the controller's reset(), which forgets the cursor.
NewGeneration == pages' = {[p EXCEPT !.mine = FALSE] : p \in pages}
Restarts == NewGeneration /\ cursor' = 0

\* The turns the rows of a history become: of each its question and, when the
\* run has completed with an output, the answer.
RowAnswer(row) == AnswerTurn(row.run, IF RowFits(row) THEN "final" ELSE "clipped")
HasAnswer(row) == row.status = "completed" /\ row.out # "none"
Restored(rows) ==
  LET row(i) == rows[(i + 1) \div 2]
      turn(i) == IF i % 2 = 1 THEN Question(row(i).run) ELSE RowAnswer(row(i))
      cells == 1..2 * Len(rows)
  IN Pick([i \in cells |-> turn(i)], {i \in cells : i % 2 = 1 \/ HasAnswer(row(i))})

\* pendingHistoryFinal of an opened session.
NoneRestoredPending(rows) == NotPending
RestoredPending(rows) ==
  LET newest == rows[Len(rows)] IN
  CASE newest.status # "completed" \/ Whole(newest) -> NotPending
    [] OTHER -> [run |-> newest.run,
                 cell |-> IF newest.out = "none" THEN 0 ELSE Len(Restored(rows))]

----------------------------------------------------------------------------
(* What the user does in the pane *)

\* send(): the question and an empty answer are appended, then the controller
\* is asked; its button is disabled when the controller would refuse, Enter
\* is not (546-549, 639-640).
WithQuestion(k) ==
  [pane EXCEPT !.turns = @ \o <<Question(k), AnswerTurn(NoAsk, "none")>>,
               !.active = Len(pane.turns) + 2, !.pending = NotPending, !.busy = TRUE,
               !.hasOlder = FALSE, !.loading = FALSE]

PaneSend ==
  /\ ~pane.busy /\ Send
  /\ \E k \in used' \ used : pane' = OnChange(WithQuestion(k), view')
  /\ Restarts /\ UNCHANGED <<refused, cut>>

PaneRefused ==
  /\ ~pane.busy /\ "send" \in UserOps /\ view.phase \notin Sendable
  /\ \E k \in Asks \ used :
       used' = used \cup {k} /\ pane' = [WithQuestion(k) EXCEPT !.busy = FALSE]
  /\ refused' = TRUE /\ NewGeneration
  /\ UNCHANGED <<cursor, cut, owner, selection, epochs, view, request, context, sub, calls>>

PaneRetry == ~pane.busy /\ RetrySubmission /\ Follows
PaneReconnect == ~pane.busy /\ Reconnect /\ Follows
PaneCheck == RefreshStatus /\ UNCHANGED <<pane, panerest>>
PaneControl ==
  /\ Stop \/ Pause \/ Resume
  /\ pane' = OnChange(pane, view')
  /\ cut' = (cut \/ \E p \in pages : p.mine)
  /\ UNCHANGED <<cursor, pages, refused>>

\* newConversation(), and retarget() of the application.
Cleared == Restarts /\ refused' = FALSE /\ cut' = FALSE
PaneNew == (Close \/ Retarget) /\ pane' = Empty /\ Cleared

\* openHistoricalSession(), in an idle pane (openFromHistory, 311-316).
PaneOpen ==
  /\ ~pane.busy /\ pane.turns = << >> /\ view.phase = "idle"
  /\ OpenSession
  /\ pane' = [Empty EXCEPT !.busy = TRUE] /\ Cleared

\* recover(): never into an existing transcript.
PaneRecover ==
  /\ ~pane.busy /\ pane.turns = << >> /\ view.run = NoAsk
  /\ Recover
  /\ pane' = OnChange([pane EXCEPT !.turns = <<AnswerTurn(NoAsk, "none")>>, !.active = 1], view')
  /\ Restarts /\ UNCHANGED <<refused, cut>>

\* loadOlderHistory() and loadOlderSessionRuns(), up to their await.
PaneLoadOlder ==
  /\ pane.hasOlder /\ ~pane.loading /\ cursor # 0 /\ Cardinality(pages) < MaxPages
  /\ pane' = [pane EXCEPT !.loading = TRUE]
  /\ pages' = pages \cup {[page |-> cursor, mine |-> TRUE, epoch |-> epoch,
                           selection |-> selection, ans |-> "pending"]}
  /\ UNCHANGED <<vars, cursor, refused, cut>>

----------------------------------------------------------------------------
(* What the controller's continuations and its stream do to the pane *)

\* The controller shows nothing: the answer is stale, a refused control is
\* read back first, a check finds an older status than the view's.
OlderStatus(c) ==
  /\ c.op = "refresh" /\ c.ans.is = "run" /\ Verified(c.ans)
  /\ view.phase \in Terminal /\ PhaseOf(c.ans.status) \notin Terminal
Silent(c) == c.ans = Refused \/ ~Fresh(c) \/ OlderStatus(c)

\* An opened history replaces the turns; a recovered run that is not there, or
\* has failed, leaves none.
HasEarlier(c) == c.ans.is = "rows" /\ c.run = First /\ Earlier # << >>
RestoredPane(c) ==
  IF c.ans.is = "rows"
  THEN [Empty EXCEPT !.turns = Restored(c.ans.rows), !.pending = RestoredPending(c.ans.rows),
                     !.hasOlder = HasEarlier(c)]
  ELSE Empty
RecoveredPane(p, v) == IF v.phase \in {"interrupted", "failed"} THEN Empty ELSE p

PaneContinues(c) ==
  /\ Continues(c) /\ UNCHANGED <<pages, cut, refused>>
  /\ cursor' = IF c.op = "open" /\ ~Silent(c) /\ HasEarlier(c) THEN Len(Earlier) ELSE cursor
  /\ LET followed == OnChange(pane, view') IN
     \/ Silent(c) /\ pane' = pane
     \/ ~Silent(c) /\ c.op = "open" /\ pane' = RestoredPane(c)
     \/ ~Silent(c) /\ c.op = "recover" /\ pane' = RecoveredPane(followed, view')
     \/ ~Silent(c) /\ c.op \notin {"open", "recover"} /\ pane' = followed

\* The page is answered, or the call fails.
PageAnswered(p) ==
  /\ p.ans = "pending"
  /\ \E a \in {"page", "failed"} : pages' = (pages \ {p}) \cup {[p EXCEPT !.ans = a]}
  /\ UNCHANGED <<vars, pane, cursor, refused, cut>>

\* The rest of both functions: the page goes before the turns, the cell of the
\* pending output moves with them.  When the controller has begun another
\* epoch it answers that there is nothing older.
WithPageLast(h) ==
  [pane EXCEPT !.turns = @ \o <<Question(h), AnswerTurn(h, "final")>>]
WithPageUnshifted(h) ==
  [pane EXCEPT !.turns = <<Question(h), AnswerTurn(h, "final")>> \o @]
WithPage(h) ==
  [pane EXCEPT !.turns = <<Question(h), AnswerTurn(h, "final")>> \o @,
               !.pending.cell = IF @ = 0 THEN 0 ELSE @ + 2]
PageSettles(p) ==
  /\ p.ans # "pending" /\ pages' = pages \ {p}
  /\ LET valid == p.epoch = epoch /\ p.selection = selection /\ p.page = cursor
         shown == IF p.ans = "failed" THEN pane
                  ELSE IF ~valid THEN [pane EXCEPT !.hasOlder = FALSE]
                  ELSE [WithPage(Earlier[p.page]) EXCEPT !.hasOlder = p.page > 1]
     IN /\ pane' = IF p.mine THEN [shown EXCEPT !.loading = FALSE] ELSE pane
        /\ cursor' = IF p.ans = "page" /\ valid THEN cursor - 1 ELSE cursor
  /\ UNCHANGED <<vars, refused, cut>>

PaneStream ==
  \/ (StreamDelta \/ StreamInterrupted) /\ (IF view' # view THEN Follows ELSE UNCHANGED <<pane, panerest>>)
  \/ StreamTerminal /\ UNCHANGED <<pane, panerest>>
----------------------------------------------------------------------------
\* The pane of a page just loaded; the owner may hold a session already.
Held(status, out) == [status |-> status, out |-> out, session |-> First]
PaneInit ==
  /\ \E status \in LiveStatus \cup FinalStatus, out \in Output :
       /\ out # "none" => status = "completed"
       /\ runs = [k \in Asks |-> IF k = First THEN Held(status, out) ELSE NoRun]
  /\ log = IF First = NoAsk THEN << >> ELSE <<First>>
  /\ used = {First} \ {NoAsk}
  /\ selection = 0 /\ epoch = 0 /\ streamEpoch = 0 /\ checkEpoch = 0
  /\ view = [phase |-> "idle", run |-> NoAsk, out |-> "none"]
  /\ request = NoRequest /\ confirmed = << >> /\ confirmedRun = NoAsk /\ limited = FALSE
  /\ sub = NoSub /\ calls = {}
  /\ pane = Empty /\ cursor = 0 /\ pages = {} /\ refused = FALSE /\ cut = FALSE

PaneNext ==
  \/ PaneSend \/ PaneRefused \/ PaneRetry \/ PaneReconnect \/ PaneCheck
  \/ PaneControl \/ PaneNew \/ PaneOpen \/ PaneRecover \/ PaneLoadOlder
  \/ \E c \in calls : PaneContinues(c) \/ (Answers(c) /\ UNCHANGED <<pane, panerest>>)
  \/ \E p \in pages : PageAnswered(p) \/ PageSettles(p)
  \/ (\E r \in Asks : OwnerMoves(r)) /\ UNCHANGED <<pane, panerest>>
  \/ PaneStream

PaneSpec == PaneInit /\ [][PaneNext]_panevars

----------------------------------------------------------------------------
Questions == {i \in 1..Len(pane.turns) : pane.turns[i].role = "user"}

\* What a turn shows as an answer is the answer to the question above it, a
\* final one is the owner's, whole, and only the active turn holds text that
\* is not: neither a late answer nor a restored history writes one run's
\* output under another's question (563-572, 573-580).  The composer is locked
\* exactly while a run is submitted or running.
TranscriptTrue ==
  /\ PaneTypeOK /\ (pane.busy <=> Busy(view))
  /\ ~refused => \A i \in 1..Len(pane.turns) :
       LET t == pane.turns[i] IN
       /\ t.role = "assistant" /\ t.text # "none" =>
            /\ i > 1 => pane.turns[i-1] = Question(t.of)
            /\ i = 1 => \A j \in Questions : pane.turns[j].of # t.of
       /\ t.role = "assistant" /\ t.text = "final" /\ t.of \in Asks =>
            runs[t.of].status = "completed" /\ runs[t.of].out = "final"
       /\ t.text = "partial" => i = pane.active /\ view.phase \notin Terminal

\* The questions of a transcript are runs of one session in the owner's order,
\* the earlier pages before them, once and without a gap; only the newest
\* question may not have reached the owner (357-391, 673-693).  While the
\* controller knows of an earlier page the pane offers it, and the pane offers
\* none that the controller does not know of; unless the run was controlled
\* while a page was read, which drops the page and the offer.
Older(a, b) ==
  LET Place(x) == IF x \in Asks THEN Len(Earlier) + (CHOOSE m \in 1..Len(log) : log[m] = x)
                  ELSE CHOOSE m \in 1..Len(Earlier) : Earlier[m] = x
  IN IF a \in Asks THEN Place(a) < Place(b) /\ runs[a].session = runs[b].session
     ELSE Place(b) = Place(a) + 1
QuestionsInOrder ==
  ~refused =>
    /\ \A i, j \in Questions :
         LET a == pane.turns[i].of  b == pane.turns[j].of IN
         i < j /\ (\A n \in Questions : n <= i \/ n >= j) =>
           /\ a \in Asks => runs[a] # NoRun
           /\ (b \in Asks /\ runs[b] = NoRun) \/ Older(a, b)
    /\ cursor # 0 => pane.hasOlder \/ cut
    /\ pane.hasOlder => cursor # 0

\* A completed view shows its answer as the newest turn, also when it was
\* verified only after the history was opened; apart from a run that had not
\* ended by then, whose answer Check run verifies and no turn shows.
Newest == pane.turns[Len(pane.turns)]
AnswerIsShown ==
  view.phase = "completed" /\ ~refused =>
    /\ pane.turns # << >>
    /\ \/ Newest = AnswerTurn(view.run, "final")
       \/ request = NoRequest /\ Newest = Question(view.run)
    /\ pane.pending = NotPending

\* exportLoadedTranscript() "Never ... invents missing messages or includes
\* speculative deltas" (756-758): every exported turn is a question or an
\* answer of a run of the owner.
Exportable == pane.turns # << >>
              /\ view.phase \in {"completed", "canceled", "blocked", "recovery-required"}
ExportIsCanonical ==
  Exportable => \A i \in 1..Len(pane.turns) :
    LET t == pane.turns[i] IN
    t.role # "status" /\ t.text # "none" => t.text # "partial" /\ (t.of \in Asks => runs[t.of] # NoRun)
=============================================================================
