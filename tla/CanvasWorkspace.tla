-------------------------- MODULE CanvasWorkspace --------------------------
(***************************************************************************)
(* CanvasWorkspace (apps/web/src/canvas-workspace.ts): the page's view of  *)
(* the Canvas documents of the selected workspace.  Documents live at the  *)
(* canonical Data owner, which keeps every version and accepts a change    *)
(* only of the version it has; the view holds one document, its history    *)
(* pages and the confirmations the operator was asked for.                 *)
(*                                                                         *)
(* Every method awaits a request; `calls` are the requests that have not   *)
(* been settled.  DashboardClient.query rejects an answer that arrives     *)
(* after a retarget.  What is in a document is its version; what is shown  *)
(* of it is not modelled.                                                  *)
(***************************************************************************)
EXTENDS Integers, FiniteSets

CONSTANTS
  Scopes,          \* a system with one of its workspaces
  WorkspaceOf,     \* the name of the workspace, which two systems may share
  Docs, NoDoc,     \* documents, and none
  Notes, NoNote,   \* notes, and none
  PageSize,        \* 20 in the code
  MaxVersion, MaxEpoch, MaxCalls   \* bounds

ASSUME CanvasAssumption ==
  /\ NoDoc \notin Docs /\ NoNote \notin Notes
  /\ DOMAIN WorkspaceOf = Scopes
  /\ PageSize \in Nat \ {0} /\ MaxVersion \in Nat \ {0} /\ MaxEpoch \in Nat /\ MaxCalls \in Nat

VARIABLES
  selected, epoch, destroyed,
  busy,
  list,          \* the documents of the library
  current,       \* the document shown and its version
  selectedNote,
  pendingDelete, \* Delete was pressed once
  hist,          \* historyOpen, history, historyHasMore, pendingRevertVersion
  drag,          \* the document whose note the pointer holds
  calls,
  owner,         \* the Data owner's documents
  armed,         \* what the operator was last asked to confirm restoring
  reference      \* the note given to the Chat composer

page == <<selected, epoch, destroyed>>
vars == <<page, busy, list, current, selectedNote, pendingDelete, hist, drag, calls,
          owner, armed, reference>>

Version == 0..MaxVersion
Revision == [doc : Docs \cup {NoDoc}, version : Version]
NoCanvas == [doc |-> NoDoc, version |-> 0]
ClosedHistory == [open |-> FALSE, entries |-> {}, more |-> FALSE, revert |-> 0]
Nothing == [doc |-> NoDoc, version |-> 0, to |-> 0]
NoReference == [doc |-> NoDoc, version |-> 0, note |-> NoNote]

Operations == {"create", "rename", "duplicate", "revert", "delete"}
Exclusive == Operations \cup {"open", "scratch", "edit", "history", "older"}
NoAnswer == [state |-> "none", doc |-> NoDoc, version |-> 0, items |-> {}]
Failure == [NoAnswer EXCEPT !.state = "failed"]
Call == [op : Exclusive \cup {"list", "note"}, epoch : 0..MaxEpoch, scope : Scopes,
         doc : Docs \cup {NoDoc}, version : Version, to : Version,
         of : Docs \cup {NoDoc}, note : Notes \cup {NoNote},
         ans : [state : {"none", "ok", "failed"}, doc : Docs \cup {NoDoc},
                version : Version, items : (SUBSET Docs) \cup (SUBSET Version)]]

CanvasTypeOK ==
  /\ selected \in Scopes /\ epoch \in 0..MaxEpoch /\ destroyed \in BOOLEAN
  /\ busy \in BOOLEAN /\ pendingDelete \in BOOLEAN
  /\ list \in SUBSET Docs /\ current \in Revision
  /\ selectedNote \in Notes \cup {NoNote} /\ drag \in Docs \cup {NoDoc}
  /\ current = NoCanvas => selectedNote = NoNote /\ ~pendingDelete /\ hist = ClosedHistory
  /\ hist \in [open : BOOLEAN, entries : SUBSET Revision, more : BOOLEAN, revert : Version]
  /\ calls \in SUBSET Call
  /\ owner \in [Docs -> [scope : Scopes, version : Version, deleted : BOOLEAN]]
  /\ armed \in [doc : Docs \cup {NoDoc}, version : Version, to : Version]
  /\ reference \in [doc : Docs \cup {NoDoc}, version : Version, note : Notes \cup {NoNote}]

-----------------------------------------------------------------------------
(* Requests *)

\* A request carries the scope selected when it is made.
Request(op, rev, e, s) ==
  [op |-> op, epoch |-> e, scope |-> s, doc |-> rev.doc, version |-> rev.version,
   to |-> 0, of |-> NoDoc, note |-> NoNote, ans |-> NoAnswer]
Ask(op, rev) == Request(op, rev, epoch, selected)
ListOf(e, s) == Request("list", NoCanvas, e, s)

MayAsk == Cardinality(calls) < MaxCalls
Idle == ~busy /\ ~destroyed /\ MayAsk

\* DashboardClient.query: a failure, or a selection that changed, throws.
DeliveredLate(c) == c.ans.state = "ok"
Delivered(c) == c.ans.state = "ok" /\ c.epoch = epoch
AliveInAnySelection(c) == ~destroyed
Alive(c) == ~destroyed /\ c.epoch = epoch
\* documentOf compares the name of the workspace.
InWorkspace(c, s) == WorkspaceOf[c.scope] = WorkspaceOf[s]
Settled(c) == c \in calls /\ c.ans.state # "none"

\* An operation that starts: busy until its answer is settled.
Starts(c) ==
  /\ busy' = TRUE
  /\ calls' = calls \cup {c}
  /\ UNCHANGED <<page, owner, reference>>

\* The finally block of an operation of this selection, with a silent refresh.
FinishAndRefresh(c) ==
  /\ busy' = FALSE
  /\ calls' = (calls \ {c}) \cup {ListOf(epoch, selected)}
Finish(c) == busy' = FALSE /\ calls' = calls \ {c}
Forget(c) == busy' = busy /\ calls' = calls \ {c}

-----------------------------------------------------------------------------
(* The operator *)

Init ==
  /\ selected \in Scopes /\ epoch = 0 /\ destroyed = FALSE
  /\ busy = FALSE /\ list = {} /\ current = NoCanvas
  /\ selectedNote = NoNote /\ pendingDelete = FALSE /\ hist = ClosedHistory
  /\ drag = NoDoc /\ armed = Nothing /\ reference = NoReference
  /\ \E s \in Scopes :
       owner = [d \in Docs |-> [scope |-> s, version |-> 0, deleted |-> FALSE]]
  /\ calls = {ListOf(0, selected)}

Retarget(s) ==
  /\ ~destroyed /\ epoch < MaxEpoch
  /\ epoch' = epoch + 1 /\ selected' = s
  /\ current' = NoCanvas /\ list' = {} /\ busy' = FALSE /\ selectedNote' = NoNote
  /\ pendingDelete' = FALSE /\ hist' = ClosedHistory
  /\ calls' = calls \cup {ListOf(epoch + 1, s)}
  /\ UNCHANGED <<destroyed, drag, owner, armed, reference>>

Destroy ==
  /\ ~destroyed
  /\ destroyed' = TRUE
  /\ UNCHANGED <<selected, epoch, busy, list, current, selectedNote, pendingDelete, hist,
                 drag, calls, owner, armed, reference>>

Refresh ==
  /\ Idle
  /\ calls' = calls \cup {ListOf(epoch, selected)}
  /\ UNCHANGED <<page, busy, list, current, selectedNote, pendingDelete, hist, drag,
                 owner, armed, reference>>

\* From the library, or Reload Canvas.
Open(d) ==
  /\ Idle /\ d \in list \cup ({current.doc} \ {NoDoc})
  /\ Starts(Ask("open", [doc |-> d, version |-> 0]))
  /\ UNCHANGED <<list, current, selectedNote, pendingDelete, hist, drag, armed>>

Scratch ==
  /\ ~busy /\ ~destroyed /\ current # NoCanvas
  /\ current' = NoCanvas /\ selectedNote' = NoNote
  /\ pendingDelete' = FALSE /\ hist' = ClosedHistory
  /\ UNCHANGED <<page, busy, list, drag, calls, owner, armed, reference>>

\* operate() with a request about the document shown, or for a new one.
Operate(c) ==
  /\ Idle
  /\ pendingDelete' = FALSE
  /\ Starts(c)

Create ==
  /\ Operate(Ask("create", NoCanvas))
  /\ selectedNote' = NoNote
  /\ UNCHANGED <<list, current, hist, drag, armed>>

Rename ==
  /\ current # NoCanvas
  /\ Operate(Ask("rename", current))
  /\ UNCHANGED <<list, current, selectedNote, hist, drag, armed>>

Duplicate ==
  /\ current # NoCanvas
  /\ Operate(Ask("duplicate", current))
  /\ selectedNote' = NoNote
  /\ UNCHANGED <<list, current, hist, drag, armed>>

\* The first press asks, the second one deletes.
AskDelete ==
  /\ current # NoCanvas /\ ~busy /\ ~destroyed /\ ~pendingDelete
  /\ pendingDelete' = TRUE
  /\ UNCHANGED <<page, busy, list, current, selectedNote, hist, drag, calls, owner,
                 armed, reference>>

Delete ==
  /\ current # NoCanvas /\ pendingDelete
  /\ Operate(Ask("delete", current))
  /\ UNCHANGED <<list, current, selectedNote, hist, drag, armed>>

Restorable(v) ==
  /\ current # NoCanvas /\ hist.open
  /\ \E e \in hist.entries : e.version = v
  /\ v < current.version

AskRevert(v) ==
  /\ ~busy /\ ~destroyed /\ Restorable(v) /\ hist.revert # v
  /\ hist' = [hist EXCEPT !.revert = v]
  /\ armed' = [doc |-> current.doc, version |-> current.version, to |-> v]
  /\ UNCHANGED <<page, busy, list, current, selectedNote, pendingDelete, drag, calls,
                 owner, reference>>

Revert(v) ==
  /\ Restorable(v) /\ hist.revert = v
  /\ hist' = [hist EXCEPT !.revert = 0]
  /\ Operate([Ask("revert", current) EXCEPT !.to = v])
  /\ armed' = Nothing
  /\ UNCHANGED <<list, current, selectedNote, drag>>

\* edit(): an edit of Scratch first creates the document it is about.
EditRequest(of) ==
  [Ask(IF current = NoCanvas THEN "scratch" ELSE "edit", current) EXCEPT !.of = of]

\* An addition, or a change of something the document shown has; removing the
\* selected note lets go of it.
Edit(of, removes) ==
  /\ Idle
  /\ of \in {NoDoc, current.doc} /\ (removes => of # NoDoc /\ selectedNote # NoNote)
  /\ Starts(EditRequest(of))
  /\ selectedNote' = IF removes THEN NoNote ELSE selectedNote
  /\ UNCHANGED <<list, current, pendingDelete, hist, drag, armed>>

\* pointerdown on a note; the rest of the drag listens on the window.
Drag ==
  /\ ~busy /\ ~destroyed /\ current # NoCanvas /\ drag = NoDoc
  /\ drag' = current.doc
  /\ UNCHANGED <<page, busy, list, current, selectedNote, pendingDelete, hist, calls,
                 owner, armed, reference>>

\* pointerup: a note that moved is edited, if the view is not busy.
Drop ==
  /\ drag # NoDoc /\ drag' = NoDoc
  /\ \/ Idle /\ Starts(EditRequest(drag))
     \/ UNCHANGED <<page, busy, calls, owner, reference>>
  /\ UNCHANGED <<list, current, selectedNote, pendingDelete, hist, armed>>

OpenHistory ==
  /\ Idle /\ current # NoCanvas
  /\ Starts(Ask("history", current))
  /\ UNCHANGED <<list, current, selectedNote, pendingDelete, hist, drag, armed>>

Oldest(entries) == CHOOSE v \in Version :
  /\ \E e \in entries : e.version = v
  /\ \A e \in entries : v <= e.version

LoadOlder ==
  /\ Idle /\ current # NoCanvas /\ hist.open /\ hist.more /\ hist.entries # {}
  /\ Starts([Ask("older", current) EXCEPT !.to = Oldest(hist.entries)])
  /\ UNCHANGED <<list, current, selectedNote, pendingDelete, hist, drag, armed>>

\* Close history is offered while a request is under way, too.
CloseHistory ==
  /\ ~destroyed /\ hist.open /\ current # NoCanvas
  /\ hist' = [hist EXCEPT !.open = FALSE, !.revert = 0]
  /\ UNCHANGED <<page, busy, list, current, selectedNote, pendingDelete, drag, calls,
                 owner, armed, reference>>

SelectNote(n) ==
  /\ ~busy /\ ~destroyed /\ current # NoCanvas /\ selectedNote # n
  /\ selectedNote' = n
  /\ UNCHANGED <<page, busy, list, current, pendingDelete, hist, drag, calls, owner,
                 armed, reference>>

\* selectedNoteForChat: reads the document again and leaves the view free.
InsertNote ==
  /\ Idle /\ current # NoCanvas /\ selectedNote # NoNote
  /\ calls' = calls \cup {[Ask("note", current) EXCEPT !.note = selectedNote]}
  /\ UNCHANGED <<page, busy, list, current, selectedNote, pendingDelete, hist, drag,
                 owner, armed, reference>>

-----------------------------------------------------------------------------
(* The Data owner and the way to it *)

Stored(d, s) == owner[d].scope = s /\ owner[d].version > 0 /\ ~owner[d].deleted
Answered(c, ans) == calls' = (calls \ {c}) \cup {[c EXCEPT !.ans = ans]}
Success(d, v, items) == [state |-> "ok", doc |-> d, version |-> v, items |-> items]

\* The versions of a page of history, newest first, below `to` if it is given.
HistoryPage(d, to) ==
  LET upto == IF to = 0 THEN owner[d].version ELSE to - 1
  IN  {v \in 1..upto : v > upto - PageSize}

OwnerReads(c) ==
  /\ c \in calls /\ c.ans.state = "none"
  /\ \/ /\ c.op = "list"
        /\ Answered(c, Success(NoDoc, 0, {d \in Docs : Stored(d, c.scope)}))
     \/ /\ c.op \in {"open", "note"} /\ Stored(c.doc, c.scope)
        /\ Answered(c, Success(c.doc, owner[c.doc].version, {}))
     \/ /\ c.op \in {"history", "older"} /\ Stored(c.doc, c.scope)
        /\ Answered(c, Success(c.doc, 0, HistoryPage(c.doc, c.to)))
  /\ UNCHANGED owner

OwnerCreates(c) ==
  /\ c \in calls /\ c.ans.state = "none"
  /\ \/ c.op \in {"create", "scratch"}
     \/ c.op = "duplicate" /\ Stored(c.doc, c.scope) /\ owner[c.doc].version = c.version
  /\ \E d \in Docs :
       /\ owner[d].version = 0
       /\ d = CHOOSE x \in Docs : owner[x].version = 0
       /\ owner' = [owner EXCEPT ![d] = [scope |-> c.scope, version |-> 1, deleted |-> FALSE]]
       /\ Answered(c, Success(d, 1, {}))

\* One version more, of the version the request names; a note that is moved
\* must be the document's.
OwnerWrites(c) ==
  /\ c \in calls /\ c.ans.state = "none"
  /\ c.op \in {"rename", "edit", "revert", "delete"}
  /\ Stored(c.doc, c.scope) /\ owner[c.doc].version = c.version
  /\ c.version < MaxVersion
  /\ c.op = "edit" => c.of \in {NoDoc, c.doc}
  /\ c.op = "revert" => c.to \in 1..(c.version - 1)
  /\ owner' = [owner EXCEPT ![c.doc].version = c.version + 1,
                            ![c.doc].deleted = (c.op = "delete")]
  /\ Answered(c, Success(c.doc, c.version + 1, {}))

\* Denied, in conflict or not found at the owner, or lost on the way to it.
Refused(c) ==
  /\ c \in calls /\ c.ans.state = "none"
  /\ Answered(c, Failure)
  /\ UNCHANGED owner

AnswerLost(c) ==
  /\ c \in calls /\ c.ans.state = "ok"
  /\ Answered(c, Failure)
  /\ UNCHANGED owner

\* Another client of the owner writes.
OthersWrite(d, deletes) ==
  /\ owner[d].version \in 1..(MaxVersion - 1) /\ ~owner[d].deleted
  /\ owner' = [owner EXCEPT ![d].version = @ + 1, ![d].deleted = deletes]
  /\ UNCHANGED calls

-----------------------------------------------------------------------------
(* Continuations *)

ListSettles(c) ==
  /\ Settled(c) /\ c.op = "list"
  /\ list' = IF ~Alive(c) THEN list ELSE IF Delivered(c) THEN c.ans.items ELSE {}
  /\ Forget(c)
  /\ UNCHANGED <<page, current, selectedNote, pendingDelete, hist, drag, owner, armed, reference>>

OpenSettles(c) ==
  /\ Settled(c) /\ c.op = "open"
  /\ IF Alive(c)
     THEN /\ Finish(c)
          /\ IF Delivered(c)
             THEN /\ current' = [doc |-> c.ans.doc, version |-> c.ans.version]
                  /\ selectedNote' = NoNote /\ hist' = ClosedHistory
             ELSE UNCHANGED <<current, selectedNote, hist>>
     ELSE Forget(c) /\ UNCHANGED <<current, selectedNote, hist>>
  /\ UNCHANGED <<page, list, pendingDelete, drag, owner, armed, reference>>

\* The answer of an edit or of operate().
AdoptBesideHistory(c) ==
  /\ current' = [doc |-> c.ans.doc, version |-> c.ans.version]
  /\ UNCHANGED hist
Adopt(c) ==
  /\ current' = [doc |-> c.ans.doc, version |-> c.ans.version]
  /\ hist' = ClosedHistory

\* A deleted document is let go of; a restored one reopens its history.
OperationSettles(c) ==
  /\ Settled(c) /\ c.op \in Operations
  /\ IF ~Alive(c) THEN Forget(c) /\ UNCHANGED <<current, selectedNote, hist>>
     ELSE IF ~Delivered(c) THEN FinishAndRefresh(c) /\ UNCHANGED <<current, selectedNote, hist>>
     ELSE CASE c.op = "delete" ->
                 /\ FinishAndRefresh(c)
                 /\ current' = NoCanvas /\ selectedNote' = NoNote /\ hist' = ClosedHistory
            [] c.op = "revert" ->
                 /\ Adopt(c) /\ busy' = TRUE
                 /\ calls' = (calls \ {c}) \cup
                      {ListOf(epoch, selected), Ask("history", current')}
                 /\ UNCHANGED selectedNote
            [] OTHER -> FinishAndRefresh(c) /\ Adopt(c) /\ UNCHANGED selectedNote
  /\ UNCHANGED <<page, list, pendingDelete, drag, owner, armed, reference>>

EditSettles(c) ==
  /\ Settled(c) /\ c.op = "edit"
  /\ IF Alive(c)
     THEN /\ FinishAndRefresh(c)
          /\ IF Delivered(c) THEN Adopt(c) ELSE UNCHANGED <<current, hist>>
     ELSE Forget(c) /\ UNCHANGED <<current, hist>>
  /\ UNCHANGED <<page, list, selectedNote, pendingDelete, drag, owner, armed, reference>>

\* ensureSaved: the new document is shown before the selection is compared
\* again, then the edit is requested.
ScratchSettles(c) ==
  /\ Settled(c) /\ c.op = "scratch"
  /\ LET made == [doc |-> c.ans.doc, version |-> c.ans.version]
         saved == Delivered(c) /\ InWorkspace(c, selected)
     IN  /\ current' = IF saved THEN made ELSE current
         /\ IF ~Alive(c) THEN Forget(c)
            ELSE IF saved
            THEN /\ calls' = (calls \ {c}) \cup {[Ask("edit", made) EXCEPT !.of = c.of]}
                 /\ UNCHANGED busy
            ELSE FinishAndRefresh(c)
  /\ UNCHANGED <<page, list, selectedNote, pendingDelete, hist, drag, owner, armed, reference>>

Entries(c) == [doc : {c.ans.doc}, version : c.ans.items]

HistorySettles(c) ==
  /\ Settled(c) /\ c.op = "history"
  /\ IF Alive(c) THEN Finish(c) ELSE Forget(c)
  /\ IF Alive(c) /\ Delivered(c) /\ current.doc = c.doc
        /\ \A e \in Entries(c) : e.doc = c.doc /\ e.version <= current.version
     THEN hist' = [open |-> TRUE, entries |-> Entries(c), revert |-> 0,
                   more |-> Cardinality(c.ans.items) = PageSize]
     ELSE UNCHANGED hist
  /\ UNCHANGED <<page, list, current, selectedNote, pendingDelete, drag, owner, armed, reference>>

OlderSettles(c) ==
  /\ Settled(c) /\ c.op = "older"
  /\ IF Alive(c) THEN Finish(c) ELSE Forget(c)
  /\ IF Alive(c) /\ Delivered(c) /\ current.doc = c.doc
        /\ \A e \in Entries(c) : e.doc = c.doc /\ e.version < c.to
        /\ Entries(c) \cap hist.entries = {}
     THEN hist' = [hist EXCEPT !.entries = @ \cup Entries(c),
                               !.more = Cardinality(c.ans.items) = PageSize]
     ELSE UNCHANGED hist
  /\ UNCHANGED <<page, list, current, selectedNote, pendingDelete, drag, owner, armed, reference>>

\* The note must still be in the document: its text may also be too long.
NoteSettlesAtAnyVersion(c) ==
  /\ Settled(c) /\ c.op = "note"
  /\ Forget(c)
  /\ \/ UNCHANGED reference
     \/ /\ Alive(c) /\ Delivered(c)
        /\ current.doc = c.doc /\ selectedNote = c.note
        /\ reference' = [doc |-> c.doc, version |-> c.ans.version, note |-> c.note]
  /\ UNCHANGED <<page, list, current, selectedNote, pendingDelete, hist, drag, owner, armed>>
NoteSettles(c) ==
  /\ Settled(c) /\ c.op = "note"
  /\ Forget(c)
  /\ \/ UNCHANGED reference
     \/ /\ Alive(c) /\ Delivered(c)
        /\ current.doc = c.doc /\ selectedNote = c.note /\ c.ans.version = c.version
        /\ reference' = [doc |-> c.doc, version |-> c.ans.version, note |-> c.note]
  /\ UNCHANGED <<page, list, current, selectedNote, pendingDelete, hist, drag, owner, armed>>

-----------------------------------------------------------------------------
Operator ==
  \/ \E s \in Scopes : Retarget(s)
  \/ Destroy \/ Refresh \/ Scratch \/ Create \/ Rename \/ Duplicate
  \/ \E d \in Docs : Open(d)
  \/ AskDelete \/ Delete
  \/ \E v \in Version : AskRevert(v) \/ Revert(v)
  \/ \E of \in Docs \cup {NoDoc}, removes \in BOOLEAN : Edit(of, removes)
  \/ Drag \/ Drop
  \/ OpenHistory \/ LoadOlder \/ CloseHistory
  \/ \E n \in Notes : SelectNote(n)
  \/ InsertNote

OwnerStep ==
  /\ \/ \E c \in calls :
          OwnerReads(c) \/ OwnerCreates(c) \/ OwnerWrites(c) \/ Refused(c) \/ AnswerLost(c)
     \/ \E d \in Docs, deletes \in BOOLEAN : OthersWrite(d, deletes)
  /\ UNCHANGED <<page, busy, list, current, selectedNote, pendingDelete, hist, drag,
                 armed, reference>>

Settles(c) ==
  \/ ListSettles(c) \/ OpenSettles(c) \/ OperationSettles(c) \/ EditSettles(c)
  \/ ScratchSettles(c) \/ HistorySettles(c) \/ OlderSettles(c) \/ NoteSettles(c)

Next == Operator \/ OwnerStep \/ \E c \in calls : Settles(c)

Spec == Init /\ [][Next]_vars

-----------------------------------------------------------------------------
(* Properties *)

(***************************************************************************)
(* The view is busy exactly while one request of this selection excludes   *)
(* the others.  The finally blocks of open, edit and operate clear busy    *)
(* only when alive(epoch), and retarget clears it while the requests of    *)
(* the old selection are still under way.                                  *)
(***************************************************************************)
BusyMatchesCall ==
  LET running == {c \in calls : c.epoch = epoch /\ c.op \in Exclusive}
  IN  /\ CanvasTypeOK
      /\ ~destroyed => Cardinality(running) = IF busy THEN 1 ELSE 0

(***************************************************************************)
(* Everything shown is of the selected system and workspace: the document, *)
(* the library and the history (retarget, alive, STALE_SELECTION).  And a  *)
(* request is made in the scope its document belongs to, also after the    *)
(* implicit create of an edit of Scratch: "Canvas write after selection    *)
(* switched ... no cross-workspace action".                                *)
(***************************************************************************)
StaysInScope ==
  /\ \A d \in list \cup {current.doc} \cup {e.doc : e \in hist.entries} :
       d # NoDoc => owner[d].scope = selected
  /\ \A c \in calls : c.doc # NoDoc => owner[c.doc].scope = c.scope

(***************************************************************************)
(* The history shown is that of the document shown, from its current       *)
(* version down without a gap, and to the first one when no older page is  *)
(* offered (openHistory, loadOlderHistory).                                *)
(***************************************************************************)
HistoryIsWhole ==
  hist.open =>
    LET shown == {e.version : e \in hist.entries}
    IN  /\ \A e \in hist.entries : e.doc = current.doc
        /\ current.version \in shown
        /\ \A v \in shown : v = 1 \/ v - 1 \in shown \/ v = Oldest(hist.entries)
        /\ ~hist.more => 1 \in shown

(***************************************************************************)
(* What is done is what the operator was shown.  A restore that is         *)
(* requested is the one the operator was asked to confirm, of the same     *)
(* document at the same version (revert); a note given to the composer is  *)
(* the one selected in the document shown, of the selected workspace, and  *)
(* never from a version the operator has not seen (selectedNoteForChat).   *)
(* What is shown never goes back to an older version of itself, whatever   *)
(* the order in which answers arrive: writes and reads of it exclude each  *)
(* other (busy).                                                           *)
(***************************************************************************)
ActsOnWhatIsShown ==
  [][/\ current'.doc = current.doc /\ current.doc # NoDoc /\ epoch' = epoch
          => current'.version >= current.version
     /\ \A c \in calls' \ calls : c.op = "revert" /\ c.ans.state = "none" =>
          armed = [doc |-> c.doc, version |-> c.version, to |-> c.to]
     /\ reference' # reference =>
          /\ reference'.doc = current.doc /\ reference'.note = selectedNote
          /\ owner[current.doc].scope = selected
          /\ reference'.version <= current.version]_vars
=============================================================================
