------------------------- MODULE MCCanvasWorkspace -------------------------
(***************************************************************************)
(* CanvasWorkspace on two systems whose personal workspaces have the same  *)
(* name, with two documents and history pages of two versions.  A          *)
(* behaviour is about the library, about the history or about a note.      *)
(***************************************************************************)
EXTENDS CanvasWorkspace, TLC

CONSTANTS s1, s2, operator

VARIABLE use

MCWorkspaceOf == (s1 :> operator @@ s2 :> operator)

NoHistory ==
  /\ hist = ClosedHistory
  /\ \A c \in calls : c.op \notin {"history", "older", "revert"}
NoNotes == selectedNote = NoNote /\ drag = NoDoc
Short == \A d \in Docs : owner[d].version <= 2

Library == NoHistory /\ NoNotes /\ Short
History ==
  /\ NoNotes /\ ~pendingDelete /\ list = {}
  /\ \A c \in calls : c.op = "list" => c.ans = NoAnswer
Note ==
  /\ NoHistory /\ Short /\ ~pendingDelete
  /\ \A c \in calls : c.op = "list" => c.ans = NoAnswer

InUse == CASE use = "library" -> Library [] use = "history" -> History [] use = "note" -> Note

MCInit == Init /\ use \in {"library", "history", "note"}
MCNext == Next /\ UNCHANGED use /\ InUse'
MCSpec == MCInit /\ [][MCNext]_<<vars, use>>
=============================================================================
