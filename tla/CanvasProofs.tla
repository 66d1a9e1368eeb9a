---------------------------- MODULE CanvasProofs ----------------------------
(***************************************************************************)
(* What CanvasWorkspace says holds for every set of systems, documents and *)
(* notes and every bound: BusyMatchesCall, StaysInScope, HistoryIsWhole    *)
(* and ActsOnWhatIsShown.                                                  *)
(*                                                                         *)
(* CanvasInv is the inductive invariant.  CallWell says what a request and *)
(* its answer know of the Data owner, which stays true however late they   *)
(* are settled; RunWell says what the one request that keeps the view busy *)
(* may count on: nothing it will change is changed before it.              *)
(***************************************************************************)
EXTENDS CanvasWorkspace, FiniteSetTheorems, TLAPS

\* The document exists, or existed, in the scope.
Made(d, s) == owner[d].version > 0 /\ owner[d].scope = s

Running(c) == c.epoch = epoch /\ c.op \in Exclusive
\* The operations whose answer is shown as the current document.
Shows == Exclusive \ {"history", "older"}

PageFrom(u) == {v \in 1..u : v > u - PageSize}

\* A request is of its selection's scope and of a document of that scope, and
\* so is its answer, at a version the owner has had.
CallWell(c) ==
  /\ c.epoch <= epoch
  /\ c.epoch = epoch => c.scope = selected
  /\ c.op \notin {"list", "create", "scratch"} => c.doc \in Docs
  /\ c.op = "history" => c.to = 0
  /\ c.op = "older" => c.to >= 1
  /\ c.doc # NoDoc => Made(c.doc, c.scope) /\ c.version <= owner[c.doc].version
  /\ c.ans.state = "ok" /\ c.op = "list" =>
       \A d \in c.ans.items : d \in Docs /\ Made(d, c.scope)
  /\ c.ans.state = "ok" /\ c.op # "list" =>
       /\ c.ans.doc \in Docs /\ Made(c.ans.doc, c.scope)
       /\ c.ans.version <= owner[c.ans.doc].version
  /\ c.ans.state = "ok" /\ c.op = "history" =>
       c.ans.doc = c.doc /\ \E u \in Version : u >= 1 /\ u >= c.version /\ c.ans.items = PageFrom(u)
  /\ c.ans.state = "ok" /\ c.op = "older" =>
       c.ans.doc = c.doc /\ c.ans.items = PageFrom(c.to - 1)

CallsWell == \A c \in calls : CallWell(c)

\* What is shown is of the scope, at a version the owner has had; a history
\* has no gap; a restore that is armed is of the version that is shown.
Whole ==
  /\ \A e \in hist.entries : e.doc = current.doc /\ e.version >= 1
  /\ \E e \in hist.entries : e.version = current.version
  /\ \E m \in Version :
       /\ \E e \in hist.entries : e.version = m
       /\ \A e \in hist.entries :
            /\ m <= e.version
            /\ \/ e.version = 1 \/ e.version = m
               \/ \E f \in hist.entries : f.version = e.version - 1
  /\ ~hist.more => \E e \in hist.entries : e.version = 1

ShownWell ==
  /\ current.doc = NoDoc => current = NoCanvas
  /\ current.doc # NoDoc => Made(current.doc, selected)
                            /\ current.version <= owner[current.doc].version
  /\ \A d \in list : Made(d, selected)
  /\ hist.open => hist.entries # {}
  /\ hist.entries # {} => Whole
  /\ hist.revert # 0 =>
       armed = [doc |-> current.doc, version |-> current.version, to |-> hist.revert]

\* While a request keeps the view busy, what it will be compared with stays.
RunWell(c) ==
  /\ c.op \in Operations => ~pendingDelete
  /\ c.op = "scratch" => current = NoCanvas
  /\ c.op = "history" => current.doc = c.doc /\ current.version = c.version
  /\ c.op = "older" =>
       /\ \E e \in hist.entries : e.version = c.to
       /\ \A e \in hist.entries : c.to <= e.version
  /\ c.op \in Shows /\ c.ans.state = "ok" =>
       /\ c.ans.doc = current.doc => current.version <= c.ans.version
       /\ \A n \in calls : n.op = "note" /\ n.epoch = epoch /\ n.doc = c.ans.doc
                             => n.version <= c.ans.version

OneRuns ==
  /\ \A c, d \in calls : Running(c) /\ Running(d) => c = d
  /\ ~destroyed => (busy <=> \E c \in calls : Running(c))

RunsWell == \A c \in calls : Running(c) => RunWell(c)

\* A note that is read again was of the version shown, or of one before.
NotesWell ==
  \A n \in calls : n.op = "note" /\ n.epoch = epoch /\ n.doc = current.doc
                     => n.version <= current.version

CanvasInv ==
  /\ CanvasTypeOK /\ CallsWell /\ ShownWell
  /\ OneRuns /\ RunsWell /\ NotesWell

-----------------------------------------------------------------------------
(* Types *)

DocOf == Docs \cup {NoDoc}
Answer == [state : {"none", "ok", "failed"}, doc : DocOf, version : Version,
           items : (SUBSET Docs) \cup (SUBSET Version)]
Owner == [Docs -> [scope : Scopes, version : Version, deleted : BOOLEAN]]
History == [open : BOOLEAN, entries : SUBSET Revision, more : BOOLEAN, revert : Version]
Armed == [doc : DocOf, version : Version, to : Version]
Reference == [doc : DocOf, version : Version, note : Notes \cup {NoNote}]

\* The parts of CanvasTypeOK, apart from the requests and the owner.
ViewTypeOK ==
  /\ selected \in Scopes /\ epoch \in 0..MaxEpoch /\ destroyed \in BOOLEAN
  /\ busy \in BOOLEAN /\ pendingDelete \in BOOLEAN
  /\ list \in SUBSET Docs /\ current \in Revision
  /\ selectedNote \in Notes \cup {NoNote} /\ drag \in DocOf
  /\ current = NoCanvas => selectedNote = NoNote /\ ~pendingDelete /\ hist = ClosedHistory
  /\ hist \in History /\ armed \in Armed /\ reference \in Reference

LEMMA TypesOf ==
  CanvasTypeOK <=> ViewTypeOK /\ calls \in SUBSET Call /\ owner \in Owner
BY DEF CanvasTypeOK, ViewTypeOK, DocOf, Owner, History, Armed, Reference

LEMMA VersionNat ==
  /\ MaxVersion \in Nat /\ Version \subseteq Nat /\ 0 \in Version
  /\ \A v \in Version : v <= MaxVersion
  /\ \A v \in Nat : v <= MaxVersion => v \in Version
BY CanvasAssumption DEF Version

\* The fields of a request.
LEMMA CallFields ==
  ASSUME NEW c \in Call
  PROVE  /\ c.op \in Exclusive \cup {"list", "note"} /\ c.epoch \in 0..MaxEpoch /\ c.scope \in Scopes
         /\ c.doc \in DocOf /\ c.version \in Version /\ c.to \in Version /\ c.ans \in Answer
         /\ c.ans.state \in {"none", "ok", "failed"} /\ c.ans.doc \in DocOf /\ c.ans.version \in Version
         /\ c.epoch \in Nat /\ c.version \in Nat /\ c.to \in Nat /\ c.ans.version \in Nat
<1>1. /\ c.op \in Exclusive \cup {"list", "note"} /\ c.epoch \in 0..MaxEpoch /\ c.scope \in Scopes
      /\ c.doc \in DocOf /\ c.version \in Version /\ c.to \in Version /\ c.ans \in Answer
  BY DEF Call, DocOf, Answer
<1>2. c.ans.state \in {"none", "ok", "failed"} /\ c.ans.doc \in DocOf /\ c.ans.version \in Version
  BY <1>1 DEF Answer
<1>3. c.epoch \in Nat BY <1>1, CanvasAssumption
<1>4. c.version \in Nat /\ c.to \in Nat /\ c.ans.version \in Nat BY <1>1, <1>2, VersionNat
<1>5. QED BY <1>1, <1>2, <1>3, <1>4

LEMMA InvFacts ==
  ASSUME CanvasInv
  PROVE  /\ ViewTypeOK /\ calls \subseteq Call /\ owner \in Owner
         /\ CallsWell /\ ShownWell /\ OneRuns /\ RunsWell /\ NotesWell
BY TypesOf DEF CanvasInv

\* A new request.
LEMMA RequestType ==
  ASSUME NEW op \in Exclusive \cup {"list", "note"}, NEW rev \in Revision,
         NEW e \in 0..MaxEpoch, NEW s \in Scopes, NEW c, c = Request(op, rev, e, s)
  PROVE  /\ c \in Call /\ c.op = op /\ c.epoch = e /\ c.scope = s
         /\ c.doc = rev.doc /\ c.version = rev.version /\ c.to = 0
         /\ c.ans = NoAnswer /\ c.ans.state = "none"
<1>1. NoAnswer \in Answer BY VersionNat DEF NoAnswer, Answer, DocOf
<1>2. rev.doc \in DocOf /\ rev.version \in Version BY DEF Revision, DocOf
<1>3. QED BY <1>1, <1>2, VersionNat DEF Request, Call, DocOf, Answer, NoAnswer

\* A request whose target version, document of the edit or note is filled in.
LEMMA RequestWith ==
  ASSUME NEW c \in Call
  PROVE  /\ \A v \in Version : LET d == [c EXCEPT !.to = v] IN
              /\ d \in Call /\ d.to = v /\ d.op = c.op /\ d.epoch = c.epoch /\ d.scope = c.scope
              /\ d.doc = c.doc /\ d.version = c.version /\ d.ans = c.ans
         /\ \A o \in DocOf : LET d == [c EXCEPT !.of = o] IN
              /\ d \in Call /\ d.to = c.to /\ d.op = c.op /\ d.epoch = c.epoch /\ d.scope = c.scope
              /\ d.doc = c.doc /\ d.version = c.version /\ d.ans = c.ans
         /\ \A n \in Notes \cup {NoNote} : LET d == [c EXCEPT !.note = n] IN
              /\ d \in Call /\ d.note = n /\ d.to = c.to /\ d.op = c.op /\ d.epoch = c.epoch
              /\ d.scope = c.scope /\ d.doc = c.doc /\ d.version = c.version /\ d.ans = c.ans
         /\ \A a \in Answer : LET d == [c EXCEPT !.ans = a] IN
              /\ d \in Call /\ d.to = c.to /\ d.op = c.op /\ d.epoch = c.epoch /\ d.note = c.note
              /\ d.scope = c.scope /\ d.doc = c.doc /\ d.version = c.version /\ d.ans = a
BY DEF Call, DocOf, Answer

-----------------------------------------------------------------------------
(* The Data owner, and what stays true of a request *)

\* A document keeps its scope, and its version grows.
OwnerGrows ==
  /\ owner' \in Owner
  /\ \A d \in Docs : owner[d].version > 0 =>
       owner'[d].scope = owner[d].scope /\ owner[d].version <= owner'[d].version

LEMMA OwnerFields ==
  ASSUME owner \in Owner, NEW d \in Docs
  PROVE  owner[d].version \in Version /\ owner[d].version \in Nat /\ owner[d].scope \in Scopes
BY VersionNat DEF Owner

LEMMA OwnerStays == ASSUME owner \in Owner, owner' = owner PROVE OwnerGrows
BY OwnerFields DEF OwnerGrows

LEMMA MadeStays ==
  ASSUME owner \in Owner, OwnerGrows, NEW d \in Docs, NEW s, Made(d, s)
  PROVE  Made(d, s)' /\ owner[d].version <= owner'[d].version
<1>1. owner[d].version \in Nat /\ owner'[d].version \in Nat
  BY VersionNat DEF OwnerGrows, Owner
<1>2. QED BY <1>1 DEF OwnerGrows, Made

\* What a request knows of the owner stays true, and a change of selection
\* makes it one of an earlier selection.
LEMMA CallStays ==
  ASSUME owner \in Owner, OwnerGrows, epoch \in Nat, epoch' \in Nat,
         \/ epoch' = epoch /\ selected' = selected
         \/ epoch < epoch',
         NEW c \in Call, CallWell(c)
  PROVE  CallWell(c)'
<1> USE DEF CallWell
<1>1. c.epoch \in Nat /\ c.doc \in DocOf /\ c.version \in Nat /\ c.ans.version \in Nat
  BY CallFields
<1>2. c.epoch <= epoch' /\ (c.epoch = epoch' => c.scope = selected') BY <1>1
<1>3. c.doc # NoDoc => Made(c.doc, c.scope)' /\ c.version <= owner'[c.doc].version
  <2>1. SUFFICES ASSUME c.doc # NoDoc
                 PROVE  Made(c.doc, c.scope)' /\ c.version <= owner'[c.doc].version
    OBVIOUS
  <2>2. c.doc \in Docs /\ Made(c.doc, c.scope) /\ c.version <= owner[c.doc].version
    BY <1>1, <2>1 DEF DocOf
  <2>3. owner[c.doc].version \in Nat /\ owner'[c.doc].version \in Nat
    BY <2>2, VersionNat DEF OwnerGrows, Owner
  <2>4. Made(c.doc, c.scope)' /\ owner[c.doc].version <= owner'[c.doc].version
    BY <2>2, MadeStays
  <2>5. QED BY <1>1, <2>2, <2>3, <2>4
<1>4. c.ans.state = "ok" /\ c.op = "list" =>
        \A d \in c.ans.items : d \in Docs /\ Made(d, c.scope)'
  BY MadeStays
<1>5. c.ans.state = "ok" /\ c.op # "list" =>
        /\ c.ans.doc \in Docs /\ Made(c.ans.doc, c.scope)'
        /\ c.ans.version <= owner'[c.ans.doc].version
  <2>1. SUFFICES ASSUME c.ans.state = "ok", c.op # "list"
                 PROVE  /\ c.ans.doc \in Docs /\ Made(c.ans.doc, c.scope)'
                        /\ c.ans.version <= owner'[c.ans.doc].version
    OBVIOUS
  <2>2. /\ c.ans.doc \in Docs /\ Made(c.ans.doc, c.scope)
        /\ c.ans.version <= owner[c.ans.doc].version
    BY <2>1
  <2>3. owner[c.ans.doc].version \in Nat /\ owner'[c.ans.doc].version \in Nat
    BY <2>2, VersionNat DEF OwnerGrows, Owner
  <2>4. Made(c.ans.doc, c.scope)' /\ owner[c.ans.doc].version <= owner'[c.ans.doc].version
    BY <2>2, MadeStays
  <2>5. QED BY <1>1, <2>2, <2>3, <2>4
<1>6. QED BY <1>2, <1>3, <1>4, <1>5

\* The requests after a step are some of those before it, and well ones.
LEMMA CallsStay ==
  ASSUME CanvasInv, OwnerGrows, epoch' \in 0..MaxEpoch,
         \/ epoch' = epoch /\ selected' = selected
         \/ epoch < epoch',
         \A c \in calls' : c \in calls \/ (c \in Call /\ CallWell(c)')
  PROVE  calls' \subseteq Call /\ CallsWell'
<1>1. owner \in Owner /\ calls \subseteq Call /\ CallsWell /\ ViewTypeOK BY InvFacts
<1>2. epoch \in Nat /\ epoch' \in Nat BY <1>1, CanvasAssumption DEF ViewTypeOK
<1>3. ASSUME NEW c \in calls' PROVE c \in Call /\ CallWell(c)'
  <2>1. CASE c \in calls
    <3>1. c \in Call /\ CallWell(c) BY <1>1, <2>1 DEF CallsWell
    <3>2. QED BY <1>1, <1>2, <3>1, CallStays
  <2>2. QED BY <2>1
<1>4. QED BY <1>3 DEF CallsWell

\* What is shown stays of the scope while the owner goes on.
LEMMA ShownStays ==
  ASSUME CanvasInv, OwnerGrows, selected' = selected, current' = current, list' = list,
         hist' = hist, armed' = armed
  PROVE  ShownWell'
<1>1. owner \in Owner /\ ShownWell /\ ViewTypeOK BY InvFacts
<1>2. ASSUME NEW d \in Docs, Made(d, selected)
      PROVE  Made(d, selected)' /\ owner[d].version <= owner'[d].version
  <2>1. PICK s : s = selected OBVIOUS
  <2>2. Made(d, s)' /\ owner[d].version <= owner'[d].version BY <1>1, <1>2, <2>1, MadeStays
  <2>3. QED BY <2>1, <2>2 DEF Made
<1>3. ASSUME current.doc # NoDoc
      PROVE  Made(current.doc, selected)' /\ current.version <= owner'[current.doc].version
  <2>1. PICK d : d = current.doc OBVIOUS
  <2>2. d \in Docs /\ Made(d, selected) /\ current.version <= owner[d].version
    BY <1>1, <1>3, <2>1 DEF ShownWell, ViewTypeOK, Revision
  <2>3. Made(d, selected)' /\ owner[d].version <= owner'[d].version BY <1>2, <2>2
  <2>4. current.version \in Nat /\ owner[d].version \in Nat /\ owner'[d].version \in Nat
    BY <1>1, <2>2, VersionNat DEF ViewTypeOK, Revision, OwnerGrows, Owner
  <2>5. current.version <= owner'[d].version BY <2>2, <2>3, <2>4
  <2>6. QED BY <2>1, <2>3, <2>5 DEF Made
<1>4. \A d \in list : Made(d, selected)' BY <1>1, <1>2 DEF ShownWell, ViewTypeOK
<1>5. hist.entries # {} => Whole' BY <1>1 DEF ShownWell, Whole
<1>6. QED BY <1>1, <1>3, <1>4, <1>5 DEF ShownWell

-----------------------------------------------------------------------------
(* The kinds of steps *)

Selection == epoch' = epoch /\ selected' = selected

\* The parts together.
LEMMA StepKeeps ==
  ASSUME CanvasInv, ViewTypeOK', ShownWell', OwnerGrows, Selection,
         \A c \in calls' : c \in calls \/ (c \in Call /\ CallWell(c)'),
         OneRuns', RunsWell', NotesWell'
  PROVE  CanvasInv'
<1>1. calls' \subseteq Call /\ CallsWell' BY CallsStay DEF Selection, ViewTypeOK
<1>2. CanvasTypeOK'
  BY <1>1 DEF OwnerGrows, CanvasTypeOK, ViewTypeOK, DocOf, Owner, History, Armed, Reference
<1>3. QED BY <1>1, <1>2 DEF CanvasInv

LEMMA NoneRuns ==
  ASSUME CanvasInv, ~busy, ~destroyed
  PROVE  \A c \in calls : ~Running(c)
BY DEF CanvasInv, OneRuns

\* A request that keeps nobody waiting comes or goes, and what the running one
\* counts on stays.
LEMMA QuietKeeps ==
  ASSUME CanvasInv, ViewTypeOK', ShownWell', OwnerGrows, Selection,
         busy' = busy, destroyed => destroyed',
         \A c \in calls' \ calls : c \in Call /\ CallWell(c)' /\ c.op \notin Exclusive,
         \A c \in calls \ calls' : ~Running(c),
         \/ \A c \in calls : ~Running(c)
         \/ /\ current' = current /\ hist'.entries = hist.entries /\ pendingDelete' = pendingDelete
            /\ \A c \in calls' \ calls : c.op # "note",
         current' = current \/ current' = NoCanvas,
         \A c \in calls' \ calls : c.op = "note" => c.version <= current'.version \/ c.doc # current'.doc
  PROVE  CanvasInv'
<1>1. CallsWell /\ OneRuns /\ RunsWell /\ NotesWell BY DEF CanvasInv
<1>2. \A c \in calls' : Running(c)' => c \in calls /\ Running(c) BY DEF Running, Selection
<1>3. \A c \in calls : Running(c) => c \in calls' /\ Running(c)' BY DEF Running, Selection
<1>4. OneRuns' BY <1>1, <1>2, <1>3 DEF OneRuns
<1>5. ASSUME NEW c \in calls', Running(c)' PROVE RunWell(c)'
  <2>1. c \in calls /\ Running(c) /\ RunWell(c) BY <1>1, <1>2, <1>5 DEF RunsWell
  <2>2. /\ current' = current /\ hist'.entries = hist.entries /\ pendingDelete' = pendingDelete
        /\ \A n \in calls' \ calls : n.op # "note"
    BY <2>1
  <2>3. \A n \in calls' : n.op = "note" /\ n.epoch = epoch' => n \in calls /\ n.epoch = epoch
    BY <2>2 DEF Selection
  <2>4. QED BY <2>1, <2>2, <2>3 DEF RunWell, Selection
<1>6. RunsWell' BY <1>5 DEF RunsWell
<1>7. ASSUME NEW n \in calls', n.op = "note", n.epoch = epoch', n.doc = current'.doc
      PROVE  n.version <= current'.version
  <2>1. CASE n \notin calls BY <1>7, <2>1
  <2>2. CASE n \in calls
    <3>1. n.epoch = epoch /\ n.doc \in Docs
      BY <1>1, <1>7, <2>2 DEF Selection, CallsWell, CallWell
    <3>2. current' = current BY <1>7, <3>1, CanvasAssumption DEF NoCanvas
    <3>3. QED BY <1>1, <1>7, <2>2, <3>1, <3>2 DEF NotesWell
  <2>3. QED BY <2>1, <2>2
<1>8. NotesWell' BY <1>7 DEF NotesWell
<1>9. \A c \in calls' : c \in calls \/ (c \in Call /\ CallWell(c)') OBVIOUS
<1>10. QED BY <1>4, <1>6, <1>8, <1>9, StepKeeps

\* A request that starts while nothing runs finds the view as it will leave it.
LEMMA StartKeeps ==
  ASSUME CanvasInv, ViewTypeOK', ShownWell', owner' = owner, Selection,
         ~busy, busy', ~destroyed, NEW c, c \in Call, CallWell(c)', calls' = calls \cup {c},
         current' = current, c.epoch = epoch, c.op \in Exclusive, c.ans.state = "none",
         c.op \in Operations => ~pendingDelete',
         c.op = "scratch" => current' = NoCanvas,
         c.op = "history" => current'.doc = c.doc /\ current'.version = c.version,
         c.op = "older" =>
           /\ \E e \in hist'.entries : e.version = c.to
           /\ \A e \in hist'.entries : c.to <= e.version
  PROVE  CanvasInv'
<1>1. \A d \in calls : ~Running(d) BY NoneRuns
<1>2. \A d \in calls' : Running(d)' <=> d = c BY <1>1 DEF Running, Selection
<1>3. OneRuns' BY <1>2 DEF OneRuns
<1>4. RunWell(c)' BY DEF RunWell
<1>5. RunsWell' BY <1>2, <1>4 DEF RunsWell
<1>6. NotesWell' BY DEF NotesWell, CanvasInv, Selection, Exclusive, Operations
<1>7. OwnerGrows BY InvFacts, OwnerStays
<1>8. \A d \in calls' : d \in calls \/ (d \in Call /\ CallWell(d)') OBVIOUS
<1>9. QED BY <1>3, <1>5, <1>6, <1>7, <1>8, StepKeeps

\* A request that is answered, while the owner goes on.
LEMMA AnswerKeeps ==
  ASSUME CanvasInv, OwnerGrows,
         UNCHANGED <<page, busy, list, current, selectedNote, pendingDelete, hist, drag,
                     armed, reference>>,
         NEW c \in calls, NEW r, r \in Call, CallWell(r)',
         r.op = c.op, r.epoch = c.epoch, r.doc = c.doc, r.version = c.version, r.to = c.to,
         calls' = (calls \ {c}) \cup {r},
         Running(c) /\ c.op \in Shows /\ r.ans.state = "ok" =>
           /\ r.ans.doc = current.doc => current.version <= r.ans.version
           /\ \A n \in calls : n.op = "note" /\ n.epoch = epoch /\ n.doc = r.ans.doc
                                 => n.version <= r.ans.version
  PROVE  CanvasInv'
<1>1. OneRuns /\ RunsWell /\ NotesWell BY DEF CanvasInv
<1>2. /\ Selection /\ current' = current /\ hist' = hist /\ pendingDelete' = pendingDelete
      /\ list' = list /\ armed' = armed /\ busy' = busy /\ destroyed' = destroyed
      /\ epoch' = epoch
  BY DEF page, Selection
<1>3. ViewTypeOK' BY InvFacts DEF ViewTypeOK, page
<1>4. ShownWell' BY <1>2, ShownStays DEF Selection
<1>5. Running(r)' <=> Running(c) BY <1>2 DEF Running
<1>6. \A d \in calls : Running(d)' <=> Running(d) BY <1>2 DEF Running
<1>7. OneRuns' BY <1>1, <1>2, <1>5, <1>6 DEF OneRuns
<1>8. \A n \in calls' : n.op = "note" /\ n.epoch = epoch' =>
        \E m \in calls : m.op = "note" /\ m.epoch = epoch /\ m.doc = n.doc /\ m.version = n.version
  BY <1>2
<1>9. ASSUME NEW d \in calls', Running(d)' PROVE RunWell(d)'
  <2>1. CASE d = r
    <3>1. RunWell(c) /\ Running(c) BY <1>1, <1>5, <1>9, <2>1 DEF RunsWell
    <3>2. r.op \in Shows /\ r.ans.state = "ok" =>
            /\ r.ans.doc = current.doc => current.version <= r.ans.version
            /\ \A n \in calls' : n.op = "note" /\ n.epoch = epoch' /\ n.doc = r.ans.doc
                                   => n.version <= r.ans.version
      BY <1>8, <3>1
    <3>3. QED BY <1>2, <2>1, <3>1, <3>2 DEF RunWell
  <2>2. CASE d \in calls
    <3>1. RunWell(d) BY <1>1, <1>6, <1>9, <2>2 DEF RunsWell
    <3>2. QED BY <1>2, <1>8, <3>1 DEF RunWell
  <2>3. QED BY <2>1, <2>2
<1>10. RunsWell' BY <1>9 DEF RunsWell
<1>11. NotesWell' BY <1>1, <1>2, <1>8 DEF NotesWell
<1>12. \A d \in calls' : d \in calls \/ (d \in Call /\ CallWell(d)') OBVIOUS
<1>13. QED BY <1>2, <1>3, <1>4, <1>7, <1>10, <1>11, <1>12, StepKeeps

\* The running request ends: the view is free, or goes on with the request r.
LEMMA EndKeeps ==
  ASSUME CanvasInv, ViewTypeOK', ShownWell', owner' = owner, Selection, destroyed' = destroyed,
         NEW c \in calls, Running(c),
         calls \ {c} \subseteq calls',
         \A d \in calls' : \/ d \in calls \ {c}
                           \/ d \in Call /\ CallWell(d)' /\ d.op # "note" /\ (Running(d) => RunWell(d)'),
         \A d, e \in calls' : Running(d) /\ Running(e) => d = e,
         ~destroyed => (busy' <=> \E d \in calls' : Running(d)),
         \/ current' = current
         \/ current' = NoCanvas
         \/ /\ c.op \in Shows /\ c.ans.state = "ok"
            /\ current' = [doc |-> c.ans.doc, version |-> c.ans.version]
  PROVE  CanvasInv'
<1>1. CallsWell /\ OneRuns /\ RunsWell /\ NotesWell BY DEF CanvasInv
<1>2. \A d : Running(d)' <=> Running(d) BY DEF Running, Selection
<1>3. \A d \in calls \ {c} : ~Running(d) BY <1>1 DEF OneRuns
<1>4. OneRuns' BY <1>2, <1>3 DEF OneRuns
<1>5. RunsWell' BY <1>2, <1>3 DEF RunsWell
<1>6. ASSUME NEW n \in calls', n.op = "note", n.epoch = epoch', n.doc = current'.doc
      PROVE  n.version <= current'.version
  <2>1. n \in calls /\ n.epoch = epoch /\ n.doc \in Docs
    BY <1>1, <1>6 DEF Selection, CallsWell, CallWell
  <2>2. CASE current' = current BY <1>1, <1>6, <2>1, <2>2 DEF NotesWell
  <2>3. CASE current' = NoCanvas BY <1>6, <2>1, <2>3, CanvasAssumption DEF NoCanvas
  <2>4. CASE /\ c.op \in Shows /\ c.ans.state = "ok"
             /\ current' = [doc |-> c.ans.doc, version |-> c.ans.version]
    BY <1>1, <1>6, <2>1, <2>4 DEF RunsWell, RunWell
  <2>5. QED BY <2>2, <2>3, <2>4
<1>7. NotesWell' BY <1>6 DEF NotesWell
<1>8. OwnerGrows BY InvFacts, OwnerStays
<1>9. \A d \in calls' : d \in calls \/ (d \in Call /\ CallWell(d)') OBVIOUS
<1>10. QED BY <1>4, <1>5, <1>7, <1>8, <1>9, StepKeeps

\* A request that is made is of the selection, and of a document of its scope.
LEMMA NewCallWell ==
  ASSUME Selection, owner' = owner, epoch \in Nat, NEW c \in Call, c.epoch = epoch, c.scope = selected,
         c.ans.state = "none",
         c.op \notin {"list", "create", "scratch"} => c.doc \in Docs,
         c.op = "history" => c.to = 0,
         c.op = "older" => c.to >= 1,
         c.doc # NoDoc => Made(c.doc, selected) /\ c.version <= owner[c.doc].version
  PROVE  CallWell(c)'
BY DEF CallWell, Selection, Made

LEMMA ListType ==
  ASSUME CanvasInv, NEW c, c = ListOf(epoch, selected)
  PROVE  /\ c \in Call /\ c.op = "list" /\ c.epoch = epoch /\ c.scope = selected
         /\ c.doc = NoDoc /\ c.ans.state = "none"
<1>1. NoCanvas \in Revision BY VersionNat DEF NoCanvas, Revision
<1>2. QED BY <1>1, InvFacts, RequestType DEF ListOf, NoCanvas, ViewTypeOK

LEMMA ListWell ==
  ASSUME CanvasInv, Selection, owner' = owner, NEW c, c = ListOf(epoch, selected)
  PROVE  /\ c \in Call /\ CallWell(c)' /\ c.op = "list" /\ c.epoch = epoch
         /\ c.op \notin Exclusive /\ c.op # "note"
<1>1. /\ c \in Call /\ c.op = "list" /\ c.epoch = epoch /\ c.scope = selected
      /\ c.doc = NoDoc /\ c.ans.state = "none"
  BY ListType
<1>2. epoch \in Nat BY InvFacts, CanvasAssumption DEF ViewTypeOK
<1>3. CallWell(c)' BY <1>1, <1>2, NewCallWell
<1>4. QED BY <1>1, <1>3 DEF Exclusive, Operations

\* What is shown may be asked for.
LEMMA ShownIsMade ==
  ASSUME CanvasInv
  PROVE  /\ current \in Revision /\ current.doc \in DocOf /\ current.version \in Nat
         /\ current # NoCanvas => current.doc \in Docs
         /\ current.doc # NoDoc => Made(current.doc, selected)
                                   /\ current.version <= owner[current.doc].version
         /\ \A d \in list : d \in Docs /\ Made(d, selected)
         /\ epoch \in 0..MaxEpoch /\ epoch \in Nat /\ selected \in Scopes
         /\ owner \in Owner
<1>1. ViewTypeOK /\ ShownWell /\ owner \in Owner BY InvFacts
<1>2. current \in Revision /\ epoch \in 0..MaxEpoch /\ selected \in Scopes /\ list \subseteq Docs
  BY <1>1 DEF ViewTypeOK
<1>3. current.doc \in DocOf /\ current.version \in Version BY <1>2 DEF Revision, DocOf
<1>4. current # NoCanvas => current.doc \in Docs BY <1>1, <1>3 DEF ShownWell, DocOf
<1>5. epoch \in Nat BY <1>2, CanvasAssumption
<1>6. QED BY <1>1, <1>2, <1>3, <1>4, <1>5, VersionNat DEF ShownWell

-----------------------------------------------------------------------------
(* What the operator does *)

\* Nothing of the owner, the selection or the requests.
LEMMA ViewKeeps ==
  ASSUME CanvasInv, ViewTypeOK', ShownWell', Selection, owner' = owner, calls' = calls,
         busy' = busy, destroyed => destroyed', current' = current \/ current' = NoCanvas,
         \/ ~busy /\ ~destroyed
         \/ current' = current /\ hist'.entries = hist.entries /\ pendingDelete' = pendingDelete
  PROVE  CanvasInv'
<1>1. OwnerGrows BY InvFacts, OwnerStays
<1>2. ~busy /\ ~destroyed => \A c \in calls : ~Running(c) BY NoneRuns
<1>3. QED BY <1>1, <1>2, QuietKeeps

LEMMA ClosedIsHistory == ClosedHistory \in History /\ ClosedHistory.entries = {}
                         /\ ~ClosedHistory.open /\ ClosedHistory.revert = 0
BY VersionNat DEF ClosedHistory, History

LEMMA NoCanvasIsRevision == NoCanvas \in Revision /\ NoCanvas.doc = NoDoc
BY VersionNat DEF NoCanvas, Revision

LEMMA RetargetKeeps ==
  ASSUME CanvasInv, NEW s \in Scopes, Retarget(s)
  PROVE  CanvasInv'
<1>1. /\ ViewTypeOK /\ calls \subseteq Call /\ owner \in Owner
      /\ CallsWell /\ ShownWell /\ OneRuns /\ RunsWell /\ NotesWell
  BY InvFacts
<1>2. /\ epoch' = epoch + 1 /\ selected' = s /\ current' = NoCanvas /\ list' = {} /\ busy' = FALSE
      /\ selectedNote' = NoNote /\ pendingDelete' = FALSE /\ hist' = ClosedHistory
      /\ destroyed' = destroyed /\ drag' = drag /\ owner' = owner /\ armed' = armed
      /\ reference' = reference /\ epoch < MaxEpoch
  BY DEF Retarget
<1>3. epoch \in Nat /\ epoch' \in 0..MaxEpoch /\ epoch < epoch'
  BY <1>1, <1>2, CanvasAssumption DEF ViewTypeOK
<1>4. PICK n : n = ListOf(epoch + 1, s) OBVIOUS
<1>5. calls' = calls \cup {n} BY <1>4 DEF Retarget
<1>6. /\ n \in Call /\ n.op = "list" /\ n.epoch = epoch' /\ n.scope = s /\ n.doc = NoDoc
      /\ n.ans.state = "none"
  <2>1. PICK e : e = epoch + 1 OBVIOUS
  <2>2. e \in 0..MaxEpoch /\ n = Request("list", NoCanvas, e, s)
    BY <1>2, <1>3, <1>4, <2>1 DEF ListOf
  <2>3. QED BY <1>2, <2>1, <2>2, RequestType, NoCanvasIsRevision
<1>7. CallWell(n)' BY <1>2, <1>3, <1>6 DEF CallWell
<1>8. OwnerGrows BY <1>1, <1>2, OwnerStays
<1>9. \A c \in calls' : c \in calls \/ (c \in Call /\ CallWell(c)') BY <1>5, <1>6, <1>7
<1>10. calls' \subseteq Call /\ CallsWell' BY <1>3, <1>8, <1>9, CallsStay
<1>11. \A c \in calls : c.epoch # epoch'
  <2>1. ASSUME NEW c \in calls PROVE c.epoch # epoch'
    <3>1. c.epoch \in Nat /\ c.epoch <= epoch BY <1>1, CallFields DEF CallsWell, CallWell
    <3>2. QED BY <1>3, <3>1
  <2>2. QED BY <2>1
<1>12. \A c \in calls' : ~Running(c)' BY <1>5, <1>6, <1>11 DEF Running, Exclusive, Operations
<1>13. OneRuns' /\ RunsWell' BY <1>2, <1>12 DEF OneRuns, RunsWell
<1>14. NotesWell' BY <1>5, <1>6, <1>11 DEF NotesWell
<1>15. ShownWell' BY <1>2, ClosedIsHistory, NoCanvasIsRevision DEF ShownWell
<1>16. ViewTypeOK'
  BY <1>1, <1>2, <1>3, ClosedIsHistory, NoCanvasIsRevision DEF ViewTypeOK
<1>17. CanvasTypeOK'
  BY <1>1, <1>2, <1>10, <1>16
  DEF CanvasTypeOK, ViewTypeOK, DocOf, Owner, History, Armed, Reference
<1>18. QED BY <1>10, <1>13, <1>14, <1>15, <1>17 DEF CanvasInv

LEMMA DestroyKeeps ==
  ASSUME CanvasInv, Destroy
  PROVE  CanvasInv'
<1>1. ViewTypeOK /\ owner \in Owner BY InvFacts
<1>2. Selection /\ owner' = owner BY DEF Destroy, Selection
<1>3. OwnerGrows BY <1>1, <1>2, OwnerStays
<1>4. ViewTypeOK' BY <1>1 DEF Destroy, ViewTypeOK
<1>5. ShownWell' BY <1>2, <1>3, ShownStays DEF Destroy, Selection
<1>6. QED BY <1>2, <1>4, <1>5, ViewKeeps DEF Destroy

LEMMA RefreshKeeps ==
  ASSUME CanvasInv, Refresh
  PROVE  CanvasInv'
<1>1. ViewTypeOK /\ owner \in Owner BY InvFacts
<1>2. Selection /\ owner' = owner BY DEF Refresh, Selection, page
<1>3. OwnerGrows BY <1>1, <1>2, OwnerStays
<1>4. ViewTypeOK' BY <1>1 DEF Refresh, ViewTypeOK, page
<1>5. ShownWell' BY <1>2, <1>3, ShownStays DEF Refresh, Selection
<1>6. PICK n : n = ListOf(epoch, selected) OBVIOUS
<1>7. calls' = calls \cup {n} BY <1>6 DEF Refresh
<1>8. n \in Call /\ CallWell(n)' /\ n.op \notin Exclusive /\ n.op # "note"
  BY <1>2, <1>6, ListWell
<1>9. /\ busy' = busy /\ destroyed' = destroyed /\ current' = current /\ hist' = hist
      /\ pendingDelete' = pendingDelete
  BY DEF Refresh, page
<1>10. QED BY <1>2, <1>3, <1>4, <1>5, <1>7, <1>8, <1>9, QuietKeeps

LEMMA ScratchKeeps ==
  ASSUME CanvasInv, Scratch
  PROVE  CanvasInv'
<1>1. ViewTypeOK /\ owner \in Owner /\ ShownWell BY InvFacts
<1>2. Selection /\ owner' = owner BY DEF Scratch, Selection, page
<1>3. ViewTypeOK'
  BY <1>1, ClosedIsHistory, NoCanvasIsRevision DEF Scratch, ViewTypeOK, page
<1>4. ShownWell'
  BY <1>1, ClosedIsHistory, NoCanvasIsRevision DEF Scratch, ShownWell, page, Made
<1>5. QED BY <1>2, <1>3, <1>4, ViewKeeps DEF Scratch, page

\* A click that changes neither the document shown nor the history's entries.
LEMMA ClickKeeps ==
  ASSUME CanvasInv,
         UNCHANGED <<page, busy, list, current, calls, owner>>,
         (~busy /\ ~destroyed) \/ pendingDelete' = pendingDelete,
         selectedNote' \in Notes \cup {NoNote}, pendingDelete' \in BOOLEAN, drag' \in DocOf,
         reference' = reference, current # NoCanvas,
         hist' \in History, armed' \in Armed, hist'.entries = hist.entries, hist'.more = hist.more,
         hist'.open => hist.open,
         hist'.revert # 0 =>
           armed' = [doc |-> current.doc, version |-> current.version, to |-> hist'.revert]
  PROVE  CanvasInv'
<1>1. ViewTypeOK /\ owner \in Owner /\ ShownWell BY InvFacts
<1>2. Selection /\ owner' = owner BY DEF Selection, page
<1>3. ViewTypeOK' BY <1>1 DEF ViewTypeOK, page
<1>4. ShownWell'
  <2>1. hist'.entries # {} => Whole' BY <1>1 DEF ShownWell, Whole
  <2>2. QED BY <1>1, <2>1 DEF ShownWell, Made, page
<1>5. QED BY <1>2, <1>3, <1>4, ViewKeeps DEF page

LEMMA AskDeleteKeeps ==
  ASSUME CanvasInv, AskDelete
  PROVE  CanvasInv'
<1>1. ViewTypeOK /\ ShownWell BY InvFacts
<1>2. QED BY <1>1, ClickKeeps DEF AskDelete, ViewTypeOK, ShownWell

LEMMA AskRevertKeeps ==
  ASSUME CanvasInv, NEW v \in Version, AskRevert(v)
  PROVE  CanvasInv'
<1>1. ViewTypeOK /\ ShownWell BY InvFacts
<1>2. hist \in History /\ current \in Revision BY <1>1 DEF ViewTypeOK
<1>3. hist' = [hist EXCEPT !.revert = v] BY DEF AskRevert
<1>4. /\ hist' \in History /\ hist'.entries = hist.entries /\ hist'.more = hist.more
      /\ hist'.open = hist.open /\ hist'.revert = v
  BY <1>2, <1>3 DEF History
<1>5. armed' = [doc |-> current.doc, version |-> current.version, to |-> v] BY DEF AskRevert
<1>6. armed' \in Armed BY <1>2, <1>5 DEF Armed, Revision, DocOf
<1>7. QED BY <1>1, <1>4, <1>5, <1>6, ClickKeeps DEF AskRevert, ViewTypeOK, Restorable

LEMMA DragKeeps ==
  ASSUME CanvasInv, Drag
  PROVE  CanvasInv'
<1>1. ViewTypeOK /\ ShownWell /\ current.doc \in DocOf BY InvFacts, ShownIsMade
<1>2. QED BY <1>1, ClickKeeps DEF Drag, ViewTypeOK, ShownWell

LEMMA CloseHistoryKeeps ==
  ASSUME CanvasInv, CloseHistory
  PROVE  CanvasInv'
<1>1. ViewTypeOK /\ ShownWell BY InvFacts
<1>2. hist \in History BY <1>1 DEF ViewTypeOK
<1>3. hist' = [hist EXCEPT !.open = FALSE, !.revert = 0] BY DEF CloseHistory
<1>4. /\ hist' \in History /\ hist'.entries = hist.entries /\ hist'.more = hist.more
      /\ hist'.open = FALSE /\ hist'.revert = 0
  BY <1>2, <1>3, VersionNat DEF History
<1>5. QED BY <1>1, <1>4, ClickKeeps DEF CloseHistory, ViewTypeOK

LEMMA SelectNoteKeeps ==
  ASSUME CanvasInv, NEW n \in Notes, SelectNote(n)
  PROVE  CanvasInv'
<1>1. ViewTypeOK /\ ShownWell BY InvFacts
<1>2. QED BY <1>1, ClickKeeps DEF SelectNote, ViewTypeOK, ShownWell

\* Reading a note again keeps nobody waiting.
LEMMA InsertNoteKeeps ==
  ASSUME CanvasInv, InsertNote
  PROVE  CanvasInv'
<1>1. ViewTypeOK /\ owner \in Owner BY InvFacts
<1>2. Selection /\ owner' = owner BY DEF InsertNote, Selection, page
<1>3. OwnerGrows BY <1>1, <1>2, OwnerStays
<1>4. ViewTypeOK' BY <1>1 DEF InsertNote, ViewTypeOK, page
<1>5. ShownWell' BY <1>2, <1>3, ShownStays DEF InsertNote, Selection
<1>6. PICK m : m = Ask("note", current) OBVIOUS
<1>7. /\ m \in Call /\ m.op = "note" /\ m.epoch = epoch /\ m.scope = selected
      /\ m.doc = current.doc /\ m.version = current.version /\ m.ans.state = "none"
  BY <1>6, RequestType, ShownIsMade DEF Ask
<1>8. PICK n : n = [m EXCEPT !.note = selectedNote] OBVIOUS
<1>9. /\ n \in Call /\ n.op = "note" /\ n.epoch = epoch /\ n.scope = selected
      /\ n.doc = current.doc /\ n.version = current.version /\ n.ans.state = "none"
  BY <1>1, <1>7, <1>8, RequestWith DEF ViewTypeOK
<1>10. CallWell(n)'
  BY <1>2, <1>9, ShownIsMade, NewCallWell DEF InsertNote
<1>11. calls' = calls \cup {n} BY <1>6, <1>8 DEF InsertNote
<1>12. \A c \in calls : ~Running(c) BY NoneRuns DEF InsertNote, Idle
<1>13. /\ busy' = busy /\ destroyed' = destroyed /\ current' = current /\ n.version <= current'.version
  BY <1>9, ShownIsMade DEF InsertNote, page
<1>14. n.op \notin Exclusive BY <1>9 DEF Exclusive, Operations
<1>15. QED
  BY <1>2, <1>3, <1>4, <1>5, <1>9, <1>10, <1>11, <1>12, <1>13, <1>14, QuietKeeps

\* An operation that starts about the document shown, or about none yet.
LEMMA BeginKeeps ==
  ASSUME CanvasInv, Idle, NEW c, Starts(c), c \in Call,
         c.op \in Exclusive, c.epoch = epoch, c.scope = selected, c.ans.state = "none",
         c.op \notin {"create", "scratch"} => c.doc \in Docs,
         c.op = "history" => c.to = 0,
         c.op = "older" => c.to >= 1,
         c.doc # NoDoc => Made(c.doc, selected) /\ c.version <= owner[c.doc].version,
         UNCHANGED <<current, list>>,
         selectedNote' \in {selectedNote, NoNote}, pendingDelete' \in {pendingDelete, FALSE},
         drag' \in DocOf,
         \/ UNCHANGED <<hist, armed>>
         \/ current # NoCanvas /\ hist' = [hist EXCEPT !.revert = 0] /\ armed' \in Armed,
         c.op \in Operations => ~pendingDelete',
         c.op = "scratch" => current = NoCanvas,
         c.op = "history" => current.doc = c.doc /\ current.version = c.version,
         c.op = "older" =>
           /\ \E e \in hist.entries : e.version = c.to
           /\ \A e \in hist.entries : c.to <= e.version
  PROVE  CanvasInv'
<1>1. ViewTypeOK /\ ShownWell /\ owner \in Owner BY InvFacts
<1>2. /\ Selection /\ owner' = owner /\ busy' = TRUE /\ ~busy /\ ~destroyed /\ destroyed' = destroyed
      /\ calls' = calls \cup {c} /\ reference' = reference
  BY DEF Selection, Starts, Idle, page
<1>3. CallWell(c)' BY <1>2, ShownIsMade, NewCallWell DEF Exclusive, Operations
<1>4. /\ hist' \in History /\ hist'.entries = hist.entries /\ hist'.more = hist.more
      /\ hist'.open = hist.open
      /\ hist'.revert # 0 => hist' = hist /\ armed' = armed
      /\ armed' \in Armed
  <2>1. hist \in History /\ armed \in Armed BY <1>1 DEF ViewTypeOK
  <2>2. CASE UNCHANGED <<hist, armed>> BY <2>1, <2>2
  <2>3. CASE hist' = [hist EXCEPT !.revert = 0] /\ armed' \in Armed
    BY <2>1, <2>3, VersionNat DEF History
  <2>4. QED BY <2>2, <2>3
<1>5. current = NoCanvas => hist' = hist OBVIOUS
<1>6. ViewTypeOK'
  <2>1. /\ selected' \in Scopes /\ epoch' \in 0..MaxEpoch /\ destroyed' \in BOOLEAN
        /\ busy' \in BOOLEAN /\ list' \in SUBSET Docs /\ current' \in Revision
        /\ reference' \in Reference
    BY <1>1, <1>2 DEF ViewTypeOK, Selection
  <2>2. pendingDelete' \in BOOLEAN /\ selectedNote' \in Notes \cup {NoNote}
    BY <1>1 DEF ViewTypeOK
  <2>3. current' = NoCanvas =>
          selectedNote' = NoNote /\ ~pendingDelete' /\ hist' = ClosedHistory
    <3>1. current = NoCanvas => selectedNote = NoNote /\ ~pendingDelete /\ hist = ClosedHistory
      BY <1>1 DEF ViewTypeOK
    <3>2. QED BY <1>5, <3>1
  <2>4. QED BY <1>4, <2>1, <2>2, <2>3 DEF ViewTypeOK
<1>7. ShownWell'
  <2>1. hist'.entries # {} => Whole' BY <1>1, <1>4 DEF ShownWell, Whole
  <2>2. QED BY <1>1, <1>2, <1>4, <2>1 DEF ShownWell, Made, Selection
<1>8. QED BY <1>2, <1>3, <1>4, <1>6, <1>7, StartKeeps

LEMMA AskFields ==
  ASSUME CanvasInv, NEW op \in Exclusive, NEW rev \in Revision, NEW c, c = Ask(op, rev)
  PROVE  /\ c \in Call /\ c.op = op /\ c.epoch = epoch /\ c.scope = selected
         /\ c.doc = rev.doc /\ c.version = rev.version /\ c.to = 0 /\ c.ans.state = "none"
BY RequestType, ShownIsMade DEF Ask

LEMMA OpenKeeps ==
  ASSUME CanvasInv, NEW d \in Docs, Open(d)
  PROVE  CanvasInv'
<1>1. d \in Docs /\ Made(d, selected) /\ owner[d].version \in Nat
  <2>1. d \in list \/ (d = current.doc /\ d # NoDoc) BY DEF Open
  <2>2. QED BY <2>1, ShownIsMade, OwnerFields
<1>2. PICK rev : rev = [doc |-> d, version |-> 0] OBVIOUS
<1>3. rev \in Revision /\ rev.doc = d /\ rev.version = 0 BY <1>2, VersionNat DEF Revision
<1>4. PICK c : c = Ask("open", rev) OBVIOUS
<1>5. /\ c \in Call /\ c.op = "open" /\ c.epoch = epoch /\ c.scope = selected
      /\ c.doc = d /\ c.version = 0 /\ c.ans.state = "none"
  BY <1>3, <1>4, AskFields DEF Exclusive, Operations
<1>6. Idle /\ Starts(c) BY <1>2, <1>4 DEF Open
<1>7. c.version <= owner[c.doc].version BY <1>1, <1>5
<1>8. drag' \in DocOf BY InvFacts DEF Open, ViewTypeOK
<1>9. QED
  BY <1>1, <1>5, <1>6, <1>7, <1>8, BeginKeeps DEF Open, Exclusive, Operations

LEMMA CreateKeeps ==
  ASSUME CanvasInv, Create
  PROVE  CanvasInv'
<1>1. PICK c : c = Ask("create", NoCanvas) OBVIOUS
<1>2. /\ c \in Call /\ c.op = "create" /\ c.epoch = epoch /\ c.scope = selected
      /\ c.doc = NoDoc /\ c.ans.state = "none"
  BY <1>1, AskFields, NoCanvasIsRevision DEF Exclusive, Operations
<1>3. Idle /\ Starts(c) /\ pendingDelete' = FALSE BY <1>1 DEF Create, Operate
<1>4. drag' \in DocOf BY InvFacts DEF Create, ViewTypeOK
<1>5. QED BY <1>2, <1>3, <1>4, BeginKeeps DEF Create, Exclusive, Operations

\* An operation about the document shown, which is deleted, copied or renamed.
LEMMA OperateKeeps ==
  ASSUME CanvasInv, NEW op \in Operations \ {"create", "revert"}, current # NoCanvas,
         Operate(Ask(op, current)), selectedNote' \in {selectedNote, NoNote},
         UNCHANGED <<list, current, hist, drag, armed>>
  PROVE  CanvasInv'
<1>1. PICK c : c = Ask(op, current) OBVIOUS
<1>2. /\ c \in Call /\ c.op = op /\ c.epoch = epoch /\ c.scope = selected
      /\ c.doc = current.doc /\ c.version = current.version /\ c.ans.state = "none"
  BY <1>1, AskFields, ShownIsMade DEF Exclusive, Operations
<1>3. Idle /\ Starts(c) /\ pendingDelete' = FALSE BY <1>1 DEF Operate
<1>4. drag' \in DocOf BY InvFacts DEF ViewTypeOK
<1>5. c.op \in Exclusive /\ c.op \notin {"scratch", "history", "older"}
  BY <1>2 DEF Exclusive, Operations
<1>6. c.doc \in Docs /\ Made(c.doc, selected) /\ c.version <= owner[c.doc].version
  BY <1>2, ShownIsMade, CanvasAssumption
<1>7. QED BY <1>2, <1>3, <1>4, <1>5, <1>6, BeginKeeps

LEMMA RevertKeeps ==
  ASSUME CanvasInv, NEW v \in Version, Revert(v)
  PROVE  CanvasInv'
<1>1. PICK m : m = Ask("revert", current) OBVIOUS
<1>2. /\ m \in Call /\ m.op = "revert" /\ m.epoch = epoch /\ m.scope = selected
      /\ m.doc = current.doc /\ m.version = current.version /\ m.ans.state = "none"
  BY <1>1, AskFields, ShownIsMade DEF Exclusive, Operations
<1>3. PICK c : c = [m EXCEPT !.to = v] OBVIOUS
<1>4. /\ c \in Call /\ c.op = "revert" /\ c.epoch = epoch /\ c.scope = selected
      /\ c.doc = current.doc /\ c.version = current.version /\ c.ans.state = "none"
  BY <1>2, <1>3, RequestWith
<1>5. Idle /\ Starts(c) /\ pendingDelete' = FALSE BY <1>1, <1>3 DEF Revert, Operate
<1>6. drag' \in DocOf BY InvFacts DEF Revert, ViewTypeOK
<1>7. current # NoCanvas BY DEF Revert, Restorable
<1>8. c.doc \in Docs /\ Made(c.doc, selected) /\ c.version <= owner[c.doc].version
  BY <1>4, <1>7, ShownIsMade, CanvasAssumption
<1>9. hist' = [hist EXCEPT !.revert = 0] /\ armed' \in Armed
  BY VersionNat DEF Revert, Nothing, Armed, DocOf
<1>10. UNCHANGED <<list, current>> /\ selectedNote' = selectedNote BY DEF Revert
<1>11. c.op \in Exclusive /\ c.op \notin {"scratch", "history", "older"}
  BY <1>4 DEF Exclusive, Operations
<1>12. QED
  BY <1>4, <1>5, <1>6, <1>7, <1>8, <1>9, <1>10, <1>11, BeginKeeps

\* An edit, of the document shown or after the implicit create of Scratch.
LEMMA EditRequestKeeps ==
  ASSUME CanvasInv, Idle, NEW o \in DocOf, Starts(EditRequest(o)),
         selectedNote' \in {selectedNote, NoNote}, drag' \in DocOf,
         UNCHANGED <<list, current, pendingDelete, hist, armed>>
  PROVE  CanvasInv'
<1>1. PICK op \in {"scratch", "edit"} : op = IF current = NoCanvas THEN "scratch" ELSE "edit"
  OBVIOUS
<1>2. PICK m : m = Ask(op, current) OBVIOUS
<1>3. /\ m \in Call /\ m.op = op /\ m.epoch = epoch /\ m.scope = selected
      /\ m.doc = current.doc /\ m.version = current.version /\ m.ans.state = "none"
  BY <1>2, AskFields, ShownIsMade DEF Exclusive, Operations
<1>4. PICK c : c = [m EXCEPT !.of = o] OBVIOUS
<1>5. /\ c \in Call /\ c.op = op /\ c.epoch = epoch /\ c.scope = selected
      /\ c.doc = current.doc /\ c.version = current.version /\ c.ans.state = "none"
  BY <1>3, <1>4, RequestWith
<1>6. Starts(c) BY <1>1, <1>2, <1>4 DEF EditRequest
<1>7. c.op \in Exclusive \ Operations /\ c.op \notin {"history", "older"}
  BY <1>5 DEF Exclusive, Operations
<1>8. c.doc # NoDoc => Made(c.doc, selected) /\ c.version <= owner[c.doc].version
  BY <1>5, ShownIsMade
<1>9. c.op # "scratch" => c.doc \in Docs BY <1>1, <1>5, ShownIsMade
<1>10. c.op = "scratch" => current = NoCanvas BY <1>1, <1>5
<1>11. QED BY <1>5, <1>6, <1>7, <1>8, <1>9, <1>10, BeginKeeps

LEMMA EditKeeps ==
  ASSUME CanvasInv, NEW o \in DocOf, NEW removes \in BOOLEAN, Edit(o, removes)
  PROVE  CanvasInv'
<1>1. drag' \in DocOf BY InvFacts DEF Edit, ViewTypeOK
<1>2. QED BY <1>1, EditRequestKeeps DEF Edit

LEMMA DropKeeps ==
  ASSUME CanvasInv, Drop
  PROVE  CanvasInv'
<1>1. ViewTypeOK /\ owner \in Owner BY InvFacts
<1>2. drag \in DocOf /\ drag' \in DocOf BY <1>1 DEF ViewTypeOK, Drop, DocOf
<1>3. CASE Idle /\ Starts(EditRequest(drag))
  <2>1. PICK o : o = drag OBVIOUS
  <2>2. Starts(EditRequest(o)) BY <1>3, <2>1
  <2>3. QED BY <1>2, <1>3, <2>1, <2>2, EditRequestKeeps DEF Drop
<1>4. CASE UNCHANGED <<page, busy, calls, owner, reference>>
  <2>1. Selection /\ owner' = owner BY <1>4 DEF Selection, page
  <2>2. OwnerGrows BY <1>1, <2>1, OwnerStays
  <2>3. ShownWell' BY <2>1, <2>2, ShownStays DEF Drop, Selection
  <2>4. ViewTypeOK' BY <1>1, <1>2, <1>4 DEF Drop, ViewTypeOK, page
  <2>5. QED BY <1>4, <2>1, <2>3, <2>4, ViewKeeps DEF Drop, page
<1>5. QED BY <1>3, <1>4 DEF Drop

LEMMA OpenHistoryKeeps ==
  ASSUME CanvasInv, OpenHistory
  PROVE  CanvasInv'
<1>1. PICK c : c = Ask("history", current) OBVIOUS
<1>2. /\ c \in Call /\ c.op = "history" /\ c.epoch = epoch /\ c.scope = selected /\ c.to = 0
      /\ c.doc = current.doc /\ c.version = current.version /\ c.ans.state = "none"
  BY <1>1, AskFields, ShownIsMade DEF Exclusive, Operations
<1>3. Idle /\ Starts(c) BY <1>1 DEF OpenHistory
<1>4. drag' \in DocOf BY InvFacts DEF OpenHistory, ViewTypeOK
<1>5. c.doc \in Docs /\ Made(c.doc, selected) /\ c.version <= owner[c.doc].version
  BY <1>2, ShownIsMade, CanvasAssumption DEF OpenHistory
<1>6. QED
  BY <1>2, <1>3, <1>4, <1>5, BeginKeeps DEF OpenHistory, Exclusive, Operations

\* The oldest version of a history is the one a whole history ends at.
LEMMA OldestIs ==
  ASSUME NEW entries, NEW m \in Version,
         \E e \in entries : e.version = m,
         \A e \in entries : m <= e.version /\ e.version \in Version
  PROVE  Oldest(entries) = m
<1>1. \A v \in Version :
        (/\ \E e \in entries : e.version = v
         /\ \A e \in entries : v <= e.version) => v = m
  BY VersionNat
<1>2. QED BY <1>1 DEF Oldest

LEMMA LoadOlderKeeps ==
  ASSUME CanvasInv, LoadOlder
  PROVE  CanvasInv'
<1>1. ViewTypeOK /\ ShownWell /\ hist.entries # {} /\ current # NoCanvas
  BY InvFacts DEF LoadOlder
<1>2. PICK v \in Version :
        /\ \E e \in hist.entries : e.version = v
        /\ \A e \in hist.entries : v <= e.version
  BY <1>1 DEF ShownWell, Whole
<1>3. \A e \in hist.entries : e.version \in Version /\ e.version >= 1
  BY <1>1 DEF ViewTypeOK, History, Revision, ShownWell, Whole
<1>4. Oldest(hist.entries) = v /\ v >= 1 BY <1>2, <1>3, OldestIs
<1>5. PICK m : m = Ask("older", current) OBVIOUS
<1>6. /\ m \in Call /\ m.op = "older" /\ m.epoch = epoch /\ m.scope = selected
      /\ m.doc = current.doc /\ m.version = current.version /\ m.ans.state = "none"
  BY <1>5, AskFields, ShownIsMade DEF Exclusive, Operations
<1>7. PICK c : c = [m EXCEPT !.to = v] OBVIOUS
<1>8. /\ c \in Call /\ c.op = "older" /\ c.epoch = epoch /\ c.scope = selected /\ c.to = v
      /\ c.doc = current.doc /\ c.version = current.version /\ c.ans.state = "none"
  BY <1>6, <1>7, RequestWith
<1>9. Idle /\ Starts(c) BY <1>4, <1>5, <1>7 DEF LoadOlder
<1>10. drag' \in DocOf BY <1>1 DEF LoadOlder, ViewTypeOK
<1>11. c.doc \in Docs /\ Made(c.doc, selected) /\ c.version <= owner[c.doc].version
  BY <1>1, <1>8, ShownIsMade, CanvasAssumption
<1>12. QED
  BY <1>2, <1>4, <1>8, <1>9, <1>10, <1>11, BeginKeeps DEF LoadOlder, Exclusive, Operations

LEMMA OperatorKeeps ==
  ASSUME CanvasInv, Operator
  PROVE  CanvasInv'
<1>1. CASE Rename BY <1>1, OperateKeeps DEF Rename, Operations
<1>2. CASE Duplicate BY <1>2, OperateKeeps DEF Duplicate, Operations
<1>3. CASE Delete BY <1>3, OperateKeeps DEF Delete, Operations
<1>4. QED
  BY <1>1, <1>2, <1>3, RetargetKeeps, DestroyKeeps, RefreshKeeps, ScratchKeeps, CreateKeeps,
     OpenKeeps, AskDeleteKeeps, AskRevertKeeps, RevertKeeps, EditKeeps, DragKeeps, DropKeeps,
     OpenHistoryKeeps, LoadOlderKeeps, CloseHistoryKeeps, SelectNoteKeeps, InsertNoteKeeps
  DEF Operator, DocOf

-----------------------------------------------------------------------------
(* What the owner does *)

View == <<page, busy, list, current, selectedNote, pendingDelete, hist, drag, armed, reference>>

\* What an answer must be when it is given.
LEMMA AnsweredKeeps ==
  ASSUME CanvasInv, OwnerGrows, UNCHANGED View,
         NEW c \in calls, NEW ans \in Answer, Answered(c, ans),
         ans.state = "ok" /\ c.op = "list" => \A d \in ans.items : d \in Docs /\ Made(d, c.scope)',
         ans.state = "ok" /\ c.op # "list" =>
           /\ ans.doc \in Docs /\ Made(ans.doc, c.scope)'
           /\ ans.version <= owner'[ans.doc].version,
         ans.state = "ok" /\ c.op = "history" =>
           ans.doc = c.doc /\ \E u \in Version : u >= 1 /\ u >= c.version /\ ans.items = PageFrom(u),
         ans.state = "ok" /\ c.op = "older" => ans.doc = c.doc /\ ans.items = PageFrom(c.to - 1),
         ans.state = "ok" /\ Running(c) /\ c.op \in Shows =>
           /\ ans.doc = current.doc => current.version <= ans.version
           /\ \A n \in calls : n.op = "note" /\ n.epoch = epoch /\ n.doc = ans.doc
                                 => n.version <= ans.version
  PROVE  CanvasInv'
<1>1. PICK r : r = [c EXCEPT !.ans = ans] OBVIOUS
<1>2. ViewTypeOK /\ calls \subseteq Call /\ owner \in Owner /\ CallsWell BY InvFacts
<1>3. /\ r \in Call /\ r.to = c.to /\ r.op = c.op /\ r.epoch = c.epoch /\ r.scope = c.scope
      /\ r.doc = c.doc /\ r.version = c.version /\ r.ans = ans
  BY <1>1, <1>2, RequestWith
<1>4. CallWell(c)'
  <2>1. epoch \in Nat /\ epoch' = epoch /\ selected' = selected
    BY ShownIsMade DEF View, page
  <2>2. c \in Call /\ CallWell(c) BY <1>2 DEF CallsWell
  <2>3. QED BY <1>2, <2>1, <2>2, CallStays
<1>5. CallWell(r)'
  <2>1. /\ r.epoch <= epoch'
        /\ r.epoch = epoch' => r.scope = selected'
        /\ r.op \notin {"list", "create", "scratch"} => r.doc \in Docs
        /\ r.op = "history" => r.to = 0
        /\ r.op = "older" => r.to >= 1
        /\ r.doc # NoDoc => Made(r.doc, r.scope)' /\ r.version <= owner'[r.doc].version
    BY <1>3, <1>4 DEF CallWell
  <2>2. r.ans.state = "ok" /\ r.op = "list" => \A d \in r.ans.items : d \in Docs /\ Made(d, r.scope)'
    BY <1>3
  <2>3. r.ans.state = "ok" /\ r.op # "list" =>
          /\ r.ans.doc \in Docs /\ Made(r.ans.doc, r.scope)'
          /\ r.ans.version <= owner'[r.ans.doc].version
    BY <1>3
  <2>4. /\ r.ans.state = "ok" /\ r.op = "history" =>
             r.ans.doc = r.doc /\ \E u \in Version : u >= 1 /\ u >= r.version /\ r.ans.items = PageFrom(u)
        /\ r.ans.state = "ok" /\ r.op = "older" => r.ans.doc = r.doc /\ r.ans.items = PageFrom(r.to - 1)
    BY <1>3
  <2>5. QED BY <2>1, <2>2, <2>3, <2>4 DEF CallWell
<1>6. calls' = (calls \ {c}) \cup {r} BY <1>1 DEF Answered
<1>7. QED BY <1>3, <1>5, <1>6, AnswerKeeps DEF View

\* What the owner has of a document is not behind what the page has seen.
LEMMA OwnerIsAhead ==
  ASSUME CanvasInv, NEW d \in Docs
  PROVE  /\ d = current.doc => owner[d].version > 0 /\ current.version <= owner[d].version
         /\ \A n \in calls : n.op = "note" /\ n.doc = d =>
              owner[d].version > 0 /\ n.version <= owner[d].version
<1>1. d # NoDoc BY CanvasAssumption
<1>2. QED BY <1>1, ShownIsMade, InvFacts DEF Made, CallsWell, CallWell

LEMMA OwnerReadsKeeps ==
  ASSUME CanvasInv, NEW c \in calls, OwnerReads(c), UNCHANGED View
  PROVE  CanvasInv'
<1>1. /\ owner \in Owner /\ c \in Call /\ CallWell(c)
  BY InvFacts DEF CallsWell
<1>2. owner' = owner /\ OwnerGrows BY <1>1, OwnerStays DEF OwnerReads
<1>3. CASE /\ c.op = "list"
           /\ Answered(c, Success(NoDoc, 0, {d \in Docs : Stored(d, c.scope)}))
  <2>1. PICK ans : ans = Success(NoDoc, 0, {d \in Docs : Stored(d, c.scope)}) OBVIOUS
  <2>2. /\ ans \in Answer /\ ans.state = "ok"
        /\ \A d \in ans.items : d \in Docs /\ Stored(d, c.scope)
    BY <2>1, VersionNat DEF Success, Answer, DocOf
  <2>3. \A d \in ans.items : d \in Docs /\ Made(d, c.scope)' BY <1>2, <2>2 DEF Stored, Made
  <2>4. Answered(c, ans) BY <1>3, <2>1
  <2>5. QED BY <1>2, <1>3, <2>2, <2>3, <2>4, AnsweredKeeps DEF Shows, Exclusive, Operations
<1>4. CASE /\ c.op \in {"open", "note"} /\ Stored(c.doc, c.scope)
           /\ Answered(c, Success(c.doc, owner[c.doc].version, {}))
  <2>1. PICK ans : ans = Success(c.doc, owner[c.doc].version, {}) OBVIOUS
  <2>2. c.doc \in Docs BY <1>1, <1>4 DEF CallWell
  <2>3. /\ ans \in Answer /\ ans.state = "ok" /\ ans.doc = c.doc
        /\ ans.version = owner[c.doc].version /\ owner[c.doc].version \in Nat
    BY <1>1, <2>1, <2>2, OwnerFields, VersionNat DEF Success, Answer, DocOf
  <2>4. Made(c.doc, c.scope)' BY <1>2, <1>4 DEF Stored, Made
  <2>5. Answered(c, ans) BY <1>4, <2>1
  <2>6. /\ ans.doc = current.doc => current.version <= ans.version
        /\ \A n \in calls : n.op = "note" /\ n.epoch = epoch /\ n.doc = ans.doc
                              => n.version <= ans.version
    BY <2>2, <2>3, OwnerIsAhead
  <2>7. ans.version <= owner'[ans.doc].version BY <1>2, <2>3
  <2>8. QED BY <1>2, <1>4, <2>2, <2>3, <2>4, <2>5, <2>6, <2>7, AnsweredKeeps
<1>5. CASE /\ c.op \in {"history", "older"} /\ Stored(c.doc, c.scope)
           /\ Answered(c, Success(c.doc, 0, HistoryPage(c.doc, c.to)))
  <2>1. PICK ans : ans = Success(c.doc, 0, HistoryPage(c.doc, c.to)) OBVIOUS
  <2>2. c.doc \in Docs BY <1>1, <1>5 DEF CallWell
  <2>3. PICK u : u = IF c.to = 0 THEN owner[c.doc].version ELSE c.to - 1 OBVIOUS
  <2>4. /\ u \in Version /\ HistoryPage(c.doc, c.to) = PageFrom(u)
    <3>1. c.to \in Version /\ owner[c.doc].version \in Version
      BY <1>1, <2>2, CallFields, OwnerFields
    <3>2. u \in Version BY <2>3, <3>1, VersionNat DEF Version
    <3>3. QED BY <2>3, <3>2 DEF HistoryPage, PageFrom
  <2>5. PageFrom(u) \subseteq Version BY <2>4, VersionNat DEF PageFrom, Version
  <2>6. /\ ans \in Answer /\ ans.state = "ok" /\ ans.doc = c.doc /\ ans.version = 0
        /\ ans.items = PageFrom(u) /\ owner[c.doc].version \in Nat
    <3>1. PageFrom(u) \in (SUBSET Docs) \cup (SUBSET Version) BY <2>5
    <3>2. ans = [state |-> "ok", doc |-> c.doc, version |-> 0, items |-> PageFrom(u)]
      BY <2>1, <2>4 DEF Success
    <3>3. QED BY <1>1, <2>2, <3>1, <3>2, OwnerFields, VersionNat DEF Answer, DocOf
  <2>7. Made(c.doc, c.scope)' BY <1>2, <1>5 DEF Stored, Made
  <2>8. c.op = "history" => u >= 1 /\ u >= c.version
    BY <1>1, <1>5, <2>2, <2>3, <2>6, CanvasAssumption DEF CallWell, Stored
  <2>9. c.op = "older" => u = c.to - 1
    BY <1>1, <2>3, CallFields DEF CallWell
  <2>10. Answered(c, ans) BY <1>5, <2>1
  <2>11. ans.version <= owner'[ans.doc].version BY <1>2, <2>6
  <2>12. c.op # "list" /\ c.op \notin Shows BY <1>5 DEF Shows
  <2>13. QED
    BY <1>2, <2>2, <2>4, <2>6, <2>7, <2>8, <2>9, <2>10, <2>11, <2>12, AnsweredKeeps
<1>6. QED BY <1>3, <1>4, <1>5 DEF OwnerReads

LEMMA OwnerCreatesKeeps ==
  ASSUME CanvasInv, NEW c \in calls, OwnerCreates(c), UNCHANGED View
  PROVE  CanvasInv'
<1>1. /\ owner \in Owner /\ c \in Call BY InvFacts
<1>2. PICK d \in Docs :
        /\ owner[d].version = 0
        /\ owner' = [owner EXCEPT ![d] = [scope |-> c.scope, version |-> 1, deleted |-> FALSE]]
        /\ Answered(c, Success(d, 1, {}))
  BY DEF OwnerCreates
<1>3. c.op \in {"create", "scratch", "duplicate"} BY DEF OwnerCreates
<1>4. 1 \in Version BY CanvasAssumption DEF Version
<1>5. /\ owner'[d] = [scope |-> c.scope, version |-> 1, deleted |-> FALSE]
      /\ \A x \in Docs \ {d} : owner'[x] = owner[x]
  BY <1>1, <1>2 DEF Owner
<1>6. OwnerGrows
  <2>1. c.scope \in Scopes BY <1>1, CallFields
  <2>2. [scope |-> c.scope, version |-> 1, deleted |-> FALSE]
          \in [scope : Scopes, version : Version, deleted : BOOLEAN]
    BY <1>4, <2>1
  <2>3. owner' \in Owner BY <1>1, <1>2, <2>2 DEF Owner
  <2>4. \A x \in Docs : owner[x].version > 0 =>
          owner'[x].scope = owner[x].scope /\ owner[x].version <= owner'[x].version
    BY <1>1, <1>2, <1>5, OwnerFields
  <2>5. QED BY <2>3, <2>4 DEF OwnerGrows
<1>7. PICK ans : ans = Success(d, 1, {}) OBVIOUS
<1>8. ans \in Answer /\ ans.state = "ok" /\ ans.doc = d /\ ans.version = 1
  BY <1>4, <1>7 DEF Success, Answer, DocOf
<1>9. Made(d, c.scope)' /\ ans.version <= owner'[d].version BY <1>5, <1>8 DEF Made
<1>10. d # current.doc /\ \A n \in calls : n.op = "note" => n.doc # d
  BY <1>2, OwnerIsAhead
<1>11. Answered(c, ans) BY <1>2, <1>7
<1>12. QED
  BY <1>3, <1>6, <1>8, <1>9, <1>10, <1>11, AnsweredKeeps

LEMMA OwnerWritesKeeps ==
  ASSUME CanvasInv, NEW c \in calls, OwnerWrites(c), UNCHANGED View
  PROVE  CanvasInv'
<1>1. /\ owner \in Owner /\ c \in Call /\ CallWell(c)
  BY InvFacts DEF CallsWell
<1>2. PICK d : d = c.doc OBVIOUS
<1>3. /\ c.op \in {"rename", "edit", "revert", "delete"} /\ d \in Docs
      /\ owner[d].scope = c.scope /\ owner[d].version > 0 /\ owner[d].version = c.version
      /\ c.version < MaxVersion
  BY <1>1, <1>2 DEF OwnerWrites, Stored, CallWell
<1>4. PICK v : v = c.version + 1 OBVIOUS
<1>5. v \in Version /\ owner[d].version <= v /\ v > 0
  BY <1>1, <1>3, <1>4, CallFields, VersionNat DEF Version
<1>6. PICK b \in BOOLEAN : b = (c.op = "delete") OBVIOUS
<1>7. owner' = [owner EXCEPT ![d].version = v, ![d].deleted = b]
  BY <1>2, <1>4, <1>6 DEF OwnerWrites
<1>8. /\ owner' \in Owner
      /\ owner'[d].version = v /\ owner'[d].scope = c.scope
      /\ \A x \in Docs \ {d} : owner'[x] = owner[x]
  <2>1. owner[d] \in [scope : Scopes, version : Version, deleted : BOOLEAN] BY <1>1, <1>3 DEF Owner
  <2>2. PICK o : o = [[owner[d] EXCEPT !.version = v] EXCEPT !.deleted = b] OBVIOUS
  <2>3. o \in [scope : Scopes, version : Version, deleted : BOOLEAN]
        /\ o.version = v /\ o.scope = c.scope
    BY <1>3, <1>5, <2>1, <2>2
  <2>4. owner' = [owner EXCEPT ![d] = o] BY <1>1, <1>3, <1>7, <2>2 DEF Owner
  <2>5. QED BY <1>1, <1>3, <2>3, <2>4 DEF Owner
<1>9. OwnerGrows BY <1>1, <1>3, <1>5, <1>8, OwnerFields DEF OwnerGrows
<1>10. PICK ans : ans = Success(d, v, {}) OBVIOUS
<1>11. ans \in Answer /\ ans.state = "ok" /\ ans.doc = d /\ ans.version = v
  BY <1>3, <1>5, <1>10 DEF Success, Answer, DocOf
<1>12. Made(d, c.scope)' /\ ans.version <= owner'[d].version
  BY <1>5, <1>8, <1>11, VersionNat DEF Made
<1>13. Answered(c, ans) BY <1>2, <1>4, <1>10 DEF OwnerWrites
<1>14. /\ d = current.doc => current.version <= v
       /\ \A n \in calls : n.op = "note" /\ n.epoch = epoch /\ n.doc = d => n.version <= v
  <2>1. d = current.doc => current.version <= owner[d].version BY <1>3, OwnerIsAhead
  <2>2. \A n \in calls : n.op = "note" /\ n.doc = d => n.version <= owner[d].version
    BY <1>3, OwnerIsAhead
  <2>3. v \in Nat /\ owner[d].version \in Nat /\ current.version \in Nat
    BY <1>1, <1>3, <1>5, OwnerFields, ShownIsMade, VersionNat
  <2>4. \A n \in calls : n.version \in Nat BY InvFacts, CallFields
  <2>5. QED BY <1>5, <2>1, <2>2, <2>3, <2>4
<1>15. c.op \notin {"list", "history", "older"} BY <1>3
<1>16. QED
  BY <1>3, <1>9, <1>11, <1>12, <1>13, <1>14, <1>15, AnsweredKeeps

LEMMA FailureKeeps ==
  ASSUME CanvasInv, NEW c \in calls, Answered(c, Failure), owner' = owner, UNCHANGED View
  PROVE  CanvasInv'
<1>1. PICK ans : ans = Failure OBVIOUS
<1>2. ans \in Answer /\ ans.state = "failed"
  BY <1>1, VersionNat DEF Failure, NoAnswer, Answer, DocOf
<1>3. OwnerGrows BY InvFacts, OwnerStays
<1>4. Answered(c, ans) BY <1>1
<1>5. QED BY <1>2, <1>3, <1>4, AnsweredKeeps

LEMMA OthersWriteKeeps ==
  ASSUME CanvasInv, NEW d \in Docs, NEW deletes \in BOOLEAN, OthersWrite(d, deletes), UNCHANGED View
  PROVE  CanvasInv'
<1>1. owner \in Owner /\ ViewTypeOK BY InvFacts
<1>2. PICK v : v = owner[d].version + 1 OBVIOUS
<1>3. v \in Version /\ owner[d].version \in Nat /\ owner[d].version <= v
  BY <1>1, <1>2, OwnerFields, VersionNat DEF OthersWrite, Version
<1>4. owner' = [owner EXCEPT ![d].version = v, ![d].deleted = deletes] BY <1>2 DEF OthersWrite
<1>5. PICK o : o = [[owner[d] EXCEPT !.version = v] EXCEPT !.deleted = deletes] OBVIOUS
<1>6. o \in [scope : Scopes, version : Version, deleted : BOOLEAN]
      /\ o.version = v /\ o.scope = owner[d].scope
  BY <1>1, <1>3, <1>5 DEF Owner
<1>7. owner' = [owner EXCEPT ![d] = o] BY <1>1, <1>4, <1>5 DEF Owner
<1>8. OwnerGrows
  <2>1. owner' \in Owner BY <1>1, <1>6, <1>7 DEF Owner
  <2>2. \A x \in Docs : owner[x].version > 0 =>
          owner'[x].scope = owner[x].scope /\ owner[x].version <= owner'[x].version
    BY <1>1, <1>3, <1>6, <1>7, OwnerFields DEF Owner
  <2>3. QED BY <2>1, <2>2 DEF OwnerGrows
<1>9. Selection /\ calls' = calls BY DEF Selection, View, page, OthersWrite
<1>10. ShownWell' BY <1>8, <1>9, ShownStays DEF View, Selection
<1>11. ViewTypeOK' BY <1>1 DEF ViewTypeOK, View, page
<1>12. QED BY <1>8, <1>9, <1>10, <1>11, QuietKeeps DEF View, page

LEMMA OwnerStepKeeps ==
  ASSUME CanvasInv, OwnerStep
  PROVE  CanvasInv'
<1>1. UNCHANGED View BY DEF OwnerStep, View
<1>2. QED
  BY <1>1, OwnerReadsKeeps, OwnerCreatesKeeps, OwnerWritesKeeps, FailureKeeps, OthersWriteKeeps
  DEF OwnerStep, Refused, AnswerLost
-----------------------------------------------------------------------------
(* What the continuations do *)

\* What is known of a request when it is settled.
LEMMA SettlingFacts ==
  ASSUME CanvasInv, NEW c \in calls
  PROVE  /\ c \in Call /\ CallWell(c)
         /\ Running(c) => RunWell(c)
         /\ Running(c) => \A d \in calls \ {c} : ~Running(d)
         /\ Alive(c) => ~destroyed /\ c.epoch = epoch /\ c.scope = selected
         /\ Alive(c) /\ c.op \in Exclusive => Running(c)
         /\ ~destroyed /\ Running(c) => Alive(c)
<1>1. calls \subseteq Call /\ CallsWell /\ OneRuns /\ RunsWell BY InvFacts
<1>2. CallWell(c) BY <1>1 DEF CallsWell
<1>3. QED BY <1>1, <1>2 DEF CallWell, OneRuns, RunsWell, Alive, Running

\* An answer nobody waits for is dropped: of an earlier selection, of a view
\* that was destroyed, or of a request that excluded nothing.
LEMMA ForgetKeeps ==
  ASSUME CanvasInv, NEW c \in calls, Forget(c), ~Alive(c) \/ c.op \notin Exclusive,
         UNCHANGED <<page, owner>>, ViewTypeOK', ShownWell',
         current' = current, hist' = hist, pendingDelete' = pendingDelete
  PROVE  CanvasInv'
<1>1. Selection /\ owner' = owner /\ destroyed' = destroyed BY DEF Selection, page
<1>2. OwnerGrows BY <1>1, InvFacts, OwnerStays
<1>3. busy' = busy /\ calls' = calls \ {c} BY DEF Forget
<1>4. CASE ~Running(c) BY <1>1, <1>2, <1>3, <1>4, QuietKeeps
<1>5. CASE Running(c)
  <2>1. destroyed BY <1>5, SettlingFacts DEF Running
  <2>2. \A d \in calls \ {c} : ~Running(d) BY <1>5, SettlingFacts
  <2>3. \A d, e \in calls' : Running(d) /\ Running(e) => d = e BY <1>3, <2>2
  <2>4. QED BY <1>1, <1>3, <1>5, <2>1, <2>3, EndKeeps
<1>6. QED BY <1>4, <1>5

\* The same, when nothing of the view changes.
LEMMA LateKeeps ==
  ASSUME CanvasInv, NEW c \in calls, Forget(c), ~Alive(c) \/ c.op \notin Exclusive,
         UNCHANGED <<page, list, current, selectedNote, pendingDelete, hist, drag, owner, armed,
                     reference>>
  PROVE  CanvasInv'
<1>1. ViewTypeOK' BY InvFacts DEF ViewTypeOK, page, Forget
<1>2. OwnerGrows BY InvFacts, OwnerStays
<1>3. ShownWell' BY <1>2, ShownStays DEF page
<1>4. QED BY <1>1, <1>3, ForgetKeeps

\* The finally block: the view is free, and may ask for the library.
LEMMA FreeKeeps ==
  ASSUME CanvasInv, NEW c \in calls, Running(c), Alive(c),
         busy' = FALSE,
         \/ calls' = calls \ {c}
         \/ calls' = (calls \ {c}) \cup {ListOf(epoch, selected)},
         UNCHANGED <<page, owner>>, ViewTypeOK', ShownWell',
         \/ current' = current
         \/ current' = NoCanvas
         \/ /\ c.op \in Shows /\ c.ans.state = "ok"
            /\ current' = [doc |-> c.ans.doc, version |-> c.ans.version]
  PROVE  CanvasInv'
<1>1. Selection /\ owner' = owner /\ destroyed' = destroyed BY DEF Selection, page
<1>2. \A d \in calls \ {c} : ~Running(d) BY SettlingFacts
<1>3. PICK l : l = ListOf(epoch, selected) OBVIOUS
<1>4. l \in Call /\ CallWell(l)' /\ l.op \notin Exclusive /\ l.op # "note"
  BY <1>1, <1>3, ListWell
<1>5. calls' = calls \ {c} \/ calls' = (calls \ {c}) \cup {l} BY <1>3
<1>6. ~Running(l) BY <1>4 DEF Running
<1>7. \A d \in calls' : ~Running(d) BY <1>2, <1>5, <1>6
<1>8. \A d \in calls' : \/ d \in calls \ {c}
                        \/ d \in Call /\ CallWell(d)' /\ d.op # "note" /\ (Running(d) => RunWell(d)')
  BY <1>4, <1>5, <1>6
<1>9. calls \ {c} \subseteq calls' BY <1>5
<1>10. QED BY <1>1, <1>7, <1>8, <1>9, EndKeeps

\* A document that is adopted is of the selection's scope.
LEMMA AnswerIsMade ==
  ASSUME CanvasInv, NEW c \in calls, c.ans.state = "ok", c.op # "list", c.epoch = epoch,
         NEW made, made = [doc |-> c.ans.doc, version |-> c.ans.version]
  PROVE  /\ made \in Revision /\ made.doc \in Docs /\ made # NoCanvas
         /\ Made(made.doc, selected) /\ made.version <= owner[made.doc].version
<1>1. c \in Call /\ CallWell(c) BY SettlingFacts
<1>2. /\ c.ans.doc \in Docs /\ Made(c.ans.doc, c.scope) /\ c.scope = selected
      /\ c.ans.version <= owner[c.ans.doc].version
  BY <1>1 DEF CallWell
<1>3. c.ans.version \in Version BY <1>1, CallFields
<1>4. QED BY <1>2, <1>3, CanvasAssumption DEF Revision, NoCanvas

\* With the history closed, only the document and the library are shown.
LEMMA ShownWithoutHistory ==
  ASSUME CanvasInv, UNCHANGED <<page, list, owner>>,
         hist'.entries = {}, ~hist'.open, hist'.revert = 0,
         \/ current' = NoCanvas
         \/ /\ current'.doc \in Docs /\ Made(current'.doc, selected)
            /\ current'.version <= owner[current'.doc].version
  PROVE  ShownWell'
<1>1. \A d \in list : Made(d, selected) BY ShownIsMade
<1>2. selected' = selected BY DEF page
<1>3. QED BY <1>1, <1>2, NoCanvasIsRevision, CanvasAssumption DEF ShownWell, Made

LEMMA ListSettlesKeeps ==
  ASSUME CanvasInv, NEW c \in calls, ListSettles(c)
  PROVE  CanvasInv'
<1>1. c \in Call /\ CallWell(c) /\ c.op = "list" BY SettlingFacts DEF ListSettles
<1>2. c.op \notin Exclusive BY <1>1 DEF Exclusive, Operations
<1>3. /\ UNCHANGED <<page, owner, current, hist, pendingDelete, selectedNote, drag, armed, reference>>
      /\ Forget(c)
  BY DEF ListSettles
<1>4. \A d \in list' : d \in Docs /\ Made(d, selected)
  <2>1. CASE ~Alive(c) BY <2>1, ShownIsMade DEF ListSettles
  <2>2. CASE Alive(c) /\ Delivered(c)
    <3>1. list' = c.ans.items /\ c.scope = selected /\ c.ans.state = "ok"
      BY <2>2, SettlingFacts DEF ListSettles, Delivered
    <3>2. QED BY <1>1, <3>1 DEF CallWell
  <2>3. CASE Alive(c) /\ ~Delivered(c) BY <2>3 DEF ListSettles
  <2>4. QED BY <2>1, <2>2, <2>3
<1>5. ViewTypeOK' BY <1>3, <1>4, InvFacts DEF ViewTypeOK, page, Forget
<1>6. ShownWell'
  <2>1. ShownWell BY InvFacts
  <2>2. hist'.entries # {} => Whole' BY <1>3, <2>1 DEF ShownWell, Whole
  <2>3. QED BY <1>3, <1>4, <2>1, <2>2 DEF ShownWell, Made, page
<1>7. QED BY <1>2, <1>3, <1>5, <1>6, ForgetKeeps

LEMMA OpenSettlesKeeps ==
  ASSUME CanvasInv, NEW c \in calls, OpenSettles(c)
  PROVE  CanvasInv'
<1>1. /\ c.op = "open" /\ UNCHANGED <<page, list, pendingDelete, drag, owner, armed, reference>>
      /\ c.op \in Exclusive /\ c.op \in Shows
  BY DEF OpenSettles, Exclusive, Operations, Shows
<1>2. CASE ~Alive(c) BY <1>1, <1>2, LateKeeps DEF OpenSettles
<1>3. CASE Alive(c) /\ ~Delivered(c)
  <2>1. Finish(c) /\ UNCHANGED <<current, selectedNote, hist>> BY <1>3 DEF OpenSettles
  <2>2. ViewTypeOK' BY <1>1, <2>1, InvFacts DEF ViewTypeOK, page, Finish
  <2>3. OwnerGrows BY <1>1, InvFacts, OwnerStays
  <2>4. ShownWell' BY <1>1, <2>1, <2>3, ShownStays DEF page
  <2>5. Running(c) BY <1>1, <1>3, SettlingFacts
  <2>6. QED BY <1>1, <1>3, <2>1, <2>2, <2>4, <2>5, FreeKeeps DEF Finish
<1>4. CASE Alive(c) /\ Delivered(c)
  <2>1. /\ Finish(c) /\ current' = [doc |-> c.ans.doc, version |-> c.ans.version]
        /\ selectedNote' = NoNote /\ hist' = ClosedHistory
    BY <1>4 DEF OpenSettles
  <2>2. c.ans.state = "ok" /\ c.epoch = epoch BY <1>4 DEF Delivered
  <2>3. /\ current' \in Revision /\ current'.doc \in Docs /\ current' # NoCanvas
        /\ Made(current'.doc, selected) /\ current'.version <= owner[current'.doc].version
    <3>1. PICK made : made = [doc |-> c.ans.doc, version |-> c.ans.version] OBVIOUS
    <3>2. /\ made \in Revision /\ made.doc \in Docs /\ made # NoCanvas
          /\ Made(made.doc, selected) /\ made.version <= owner[made.doc].version
      BY <1>1, <2>2, <3>1, AnswerIsMade
    <3>3. current' = made BY <2>1, <3>1
    <3>4. QED BY <3>2, <3>3
  <2>4. ViewTypeOK'
    BY <1>1, <2>1, <2>3, InvFacts, ClosedIsHistory DEF ViewTypeOK, page, Finish
  <2>5. ShownWell' BY <1>1, <2>1, <2>3, ClosedIsHistory, ShownWithoutHistory
  <2>6. Running(c) BY <1>1, <1>4, SettlingFacts
  <2>7. QED BY <1>1, <1>4, <2>1, <2>2, <2>4, <2>5, <2>6, FreeKeeps DEF Finish
<1>5. QED BY <1>2, <1>3, <1>4

LEMMA EditSettlesKeeps ==
  ASSUME CanvasInv, NEW c \in calls, EditSettles(c)
  PROVE  CanvasInv'
<1>1. /\ c.op = "edit" /\ UNCHANGED <<page, list, selectedNote, pendingDelete, drag, owner, armed,
                                      reference>>
      /\ c.op \in Exclusive /\ c.op \in Shows
  BY DEF EditSettles, Exclusive, Operations, Shows
<1>2. CASE ~Alive(c) BY <1>1, <1>2, LateKeeps DEF EditSettles
<1>3. CASE Alive(c) /\ ~Delivered(c)
  <2>1. FinishAndRefresh(c) /\ UNCHANGED <<current, hist>> BY <1>3 DEF EditSettles
  <2>2. ViewTypeOK' BY <1>1, <2>1, InvFacts DEF ViewTypeOK, page, FinishAndRefresh
  <2>3. OwnerGrows BY <1>1, InvFacts, OwnerStays
  <2>4. ShownWell' BY <1>1, <2>1, <2>3, ShownStays DEF page
  <2>5. Running(c) BY <1>1, <1>3, SettlingFacts
  <2>6. QED BY <1>1, <1>3, <2>1, <2>2, <2>4, <2>5, FreeKeeps DEF FinishAndRefresh
<1>4. CASE Alive(c) /\ Delivered(c)
  <2>1. /\ FinishAndRefresh(c) /\ current' = [doc |-> c.ans.doc, version |-> c.ans.version]
        /\ hist' = ClosedHistory
    BY <1>4 DEF EditSettles, Adopt
  <2>2. c.ans.state = "ok" /\ c.epoch = epoch BY <1>4 DEF Delivered
  <2>3. /\ current' \in Revision /\ current'.doc \in Docs /\ current' # NoCanvas
        /\ Made(current'.doc, selected) /\ current'.version <= owner[current'.doc].version
    <3>1. PICK made : made = [doc |-> c.ans.doc, version |-> c.ans.version] OBVIOUS
    <3>2. /\ made \in Revision /\ made.doc \in Docs /\ made # NoCanvas
          /\ Made(made.doc, selected) /\ made.version <= owner[made.doc].version
      BY <1>1, <2>2, <3>1, AnswerIsMade
    <3>3. current' = made BY <2>1, <3>1
    <3>4. QED BY <3>2, <3>3
  <2>4. ViewTypeOK'
    BY <1>1, <2>1, <2>3, InvFacts, ClosedIsHistory DEF ViewTypeOK, page, FinishAndRefresh
  <2>5. ShownWell' BY <1>1, <2>1, <2>3, ClosedIsHistory, ShownWithoutHistory
  <2>6. Running(c) BY <1>1, <1>4, SettlingFacts
  <2>7. QED BY <1>1, <1>4, <2>1, <2>2, <2>4, <2>5, <2>6, FreeKeeps DEF FinishAndRefresh
<1>5. QED BY <1>2, <1>3, <1>4

\* An answer that failed leaves what is shown.
LEMMA FailedKeeps ==
  ASSUME CanvasInv, NEW c \in calls, Alive(c), c.op \in Exclusive,
         Finish(c) \/ FinishAndRefresh(c),
         UNCHANGED <<page, list, current, selectedNote, pendingDelete, hist, drag, owner, armed,
                     reference>>
  PROVE  CanvasInv'
<1>1. busy' = FALSE /\ (calls' = calls \ {c} \/ calls' = (calls \ {c}) \cup {ListOf(epoch, selected)})
  BY DEF Finish, FinishAndRefresh
<1>2. ViewTypeOK' BY <1>1, InvFacts DEF ViewTypeOK, page
<1>3. OwnerGrows BY InvFacts, OwnerStays
<1>4. ShownWell' BY <1>3, ShownStays DEF page
<1>5. Running(c) BY SettlingFacts
<1>6. QED BY <1>1, <1>2, <1>4, <1>5, FreeKeeps

\* What the view shows once it has adopted the answer.
LEMMA AdoptShows ==
  ASSUME CanvasInv, NEW c \in calls, Alive(c), Delivered(c), c.op # "list", Adopt(c),
         busy' \in BOOLEAN, selectedNote' \in Notes \cup {NoNote},
         UNCHANGED <<page, list, pendingDelete, drag, owner, armed, reference>>
  PROVE  /\ ViewTypeOK' /\ ShownWell'
         /\ current' \in Revision /\ current'.doc \in Docs
         /\ Made(current'.doc, selected) /\ current'.version <= owner[current'.doc].version
<1>1. /\ current' = [doc |-> c.ans.doc, version |-> c.ans.version] /\ hist' = ClosedHistory
      /\ c.ans.state = "ok" /\ c.epoch = epoch
  BY DEF Adopt, Delivered
<1>2. /\ current' \in Revision /\ current'.doc \in Docs /\ current' # NoCanvas
      /\ Made(current'.doc, selected) /\ current'.version <= owner[current'.doc].version
  <2>1. PICK made : made = [doc |-> c.ans.doc, version |-> c.ans.version] OBVIOUS
  <2>2. /\ made \in Revision /\ made.doc \in Docs /\ made # NoCanvas
        /\ Made(made.doc, selected) /\ made.version <= owner[made.doc].version
    BY <1>1, <2>1, AnswerIsMade
  <2>3. current' = made BY <1>1, <2>1
  <2>4. QED BY <2>2, <2>3
<1>3. ViewTypeOK' BY <1>1, <1>2, InvFacts, ClosedIsHistory DEF ViewTypeOK, page
<1>4. ShownWell' BY <1>1, <1>2, ClosedIsHistory, ShownWithoutHistory
<1>5. QED BY <1>2, <1>3, <1>4

LEMMA OperationSettlesKeeps ==
  ASSUME CanvasInv, NEW c \in calls, OperationSettles(c)
  PROVE  CanvasInv'
<1>1. /\ c.op \in Operations /\ c.op \in Exclusive /\ c.op \in Shows /\ c.op # "list"
      /\ UNCHANGED <<page, list, pendingDelete, drag, owner, armed, reference>>
  BY DEF OperationSettles, Exclusive, Operations, Shows
<1>2. CASE ~Alive(c) BY <1>1, <1>2, LateKeeps DEF OperationSettles
<1>3. CASE Alive(c) /\ ~Delivered(c) BY <1>1, <1>3, FailedKeeps DEF OperationSettles
<1>4. CASE Alive(c) /\ Delivered(c) /\ c.op = "delete"
  <2>1. /\ FinishAndRefresh(c) /\ current' = NoCanvas /\ selectedNote' = NoNote
        /\ hist' = ClosedHistory
    BY <1>4 DEF OperationSettles
  <2>2. Running(c) /\ RunWell(c) BY <1>1, <1>4, SettlingFacts
  <2>3. ~pendingDelete' BY <1>1, <2>2 DEF RunWell
  <2>4. ViewTypeOK'
    BY <1>1, <2>1, <2>3, InvFacts, ClosedIsHistory, NoCanvasIsRevision
    DEF ViewTypeOK, page, FinishAndRefresh
  <2>5. ShownWell' BY <1>1, <2>1, ClosedIsHistory, ShownWithoutHistory
  <2>6. QED BY <1>1, <1>4, <2>1, <2>2, <2>4, <2>5, FreeKeeps DEF FinishAndRefresh
<1>5. CASE Alive(c) /\ Delivered(c) /\ c.op = "revert"
  <2>1. /\ Adopt(c) /\ busy' = TRUE /\ selectedNote' = selectedNote
        /\ calls' = (calls \ {c}) \cup {ListOf(epoch, selected), Ask("history", current')}
    BY <1>5 DEF OperationSettles
  <2>2. /\ ViewTypeOK' /\ ShownWell'
        /\ current' \in Revision /\ current'.doc \in Docs
        /\ Made(current'.doc, selected) /\ current'.version <= owner[current'.doc].version
    <3>1. selectedNote \in Notes \cup {NoNote} BY InvFacts DEF ViewTypeOK
    <3>2. QED BY <1>1, <1>5, <2>1, <3>1, AdoptShows
  <2>3. Selection /\ destroyed' = destroyed /\ owner' = owner /\ ~destroyed
    BY <1>1, <1>5 DEF Selection, page, Alive
  <2>4. PICK l : l = ListOf(epoch, selected) OBVIOUS
  <2>5. l \in Call /\ CallWell(l)' /\ l.op \notin Exclusive /\ l.op # "note"
    BY <2>3, <2>4, ListWell
  <2>6. PICK rev \in Revision : rev = current' BY <2>2
  <2>7. PICK r : r = Request("history", rev, epoch, selected) OBVIOUS
  <2>8. /\ r \in Call /\ r.op = "history" /\ r.epoch = epoch /\ r.scope = selected
        /\ r.doc = rev.doc /\ r.version = rev.version /\ r.to = 0 /\ r.ans.state = "none"
    BY <2>7, RequestType, ShownIsMade DEF Exclusive
  <2>9. CallWell(r)' BY <2>2, <2>3, <2>6, <2>8, NewCallWell, ShownIsMade
  <2>10. calls' = (calls \ {c}) \cup {l, r} BY <2>1, <2>4, <2>6, <2>7 DEF Ask
  <2>11. RunWell(r)' BY <2>6, <2>8 DEF RunWell, Operations
  <2>12. Running(c) /\ \A d \in calls \ {c} : ~Running(d) BY <1>1, <1>5, SettlingFacts
  <2>13. ~Running(l) /\ Running(r) BY <2>5, <2>8 DEF Running, Exclusive
  <2>14. \A d \in calls' : Running(d) <=> d = r BY <2>10, <2>12, <2>13
  <2>15. \A d \in calls' :
           \/ d \in calls \ {c}
           \/ d \in Call /\ CallWell(d)' /\ d.op # "note" /\ (Running(d) => RunWell(d)')
    BY <2>5, <2>8, <2>9, <2>10, <2>11, <2>13
  <2>16. \A d, e \in calls' : Running(d) /\ Running(e) => d = e BY <2>14
  <2>17. busy' <=> \E d \in calls' : Running(d) BY <2>1, <2>10, <2>13
  <2>18. /\ c.ans.state = "ok" /\ current' = [doc |-> c.ans.doc, version |-> c.ans.version]
    BY <1>5, <2>1 DEF Adopt, Delivered
  <2>19. calls \ {c} \subseteq calls' BY <2>10
  <2>20. QED
    BY <1>1, <2>2, <2>3, <2>12, <2>15, <2>16, <2>17, <2>18, <2>19, EndKeeps
<1>6. CASE Alive(c) /\ Delivered(c) /\ c.op \notin {"delete", "revert"}
  <2>1. FinishAndRefresh(c) /\ Adopt(c) /\ selectedNote' = selectedNote
    BY <1>6 DEF OperationSettles
  <2>2. ViewTypeOK' /\ ShownWell'
    <3>1. selectedNote \in Notes \cup {NoNote} BY InvFacts DEF ViewTypeOK
    <3>2. QED BY <1>1, <1>6, <2>1, <3>1, AdoptShows DEF FinishAndRefresh
  <2>3. Running(c) BY <1>1, <1>6, SettlingFacts
  <2>4. c.ans.state = "ok" /\ current' = [doc |-> c.ans.doc, version |-> c.ans.version]
    BY <1>6, <2>1 DEF Adopt, Delivered
  <2>5. QED BY <1>1, <1>6, <2>1, <2>2, <2>3, <2>4, FreeKeeps DEF FinishAndRefresh
<1>7. QED BY <1>2, <1>3, <1>4, <1>5, <1>6

LEMMA ScratchSettlesKeeps ==
  ASSUME CanvasInv, NEW c \in calls, ScratchSettles(c)
  PROVE  CanvasInv'
<1>1. /\ c.op = "scratch" /\ c.op \in Exclusive /\ c.op \in Shows /\ c.op # "list"
      /\ UNCHANGED <<page, list, selectedNote, pendingDelete, hist, drag, owner, armed, reference>>
  BY DEF ScratchSettles, Exclusive, Operations, Shows
<1>2. PICK made : made = [doc |-> c.ans.doc, version |-> c.ans.version] OBVIOUS
<1>3. CASE ~(Delivered(c) /\ InWorkspace(c, selected))
  <2>1. current' = current BY <1>3 DEF ScratchSettles
  <2>2. CASE ~Alive(c) BY <1>1, <2>1, <2>2, LateKeeps DEF ScratchSettles
  <2>3. CASE Alive(c) BY <1>1, <1>3, <2>1, <2>3, FailedKeeps DEF ScratchSettles
  <2>4. QED BY <2>2, <2>3
<1>4. CASE Delivered(c) /\ InWorkspace(c, selected)
  <2>1. c.ans.state = "ok" /\ c.epoch = epoch BY <1>4 DEF Delivered
  <2>2. Running(c) /\ RunWell(c) BY <1>1, <2>1, SettlingFacts DEF Running
  <2>3. current = NoCanvas /\ current' = made BY <1>1, <1>2, <1>4, <2>2 DEF RunWell, ScratchSettles
  <2>4. /\ made \in Revision /\ made.doc \in Docs /\ made # NoCanvas
        /\ Made(made.doc, selected) /\ made.version <= owner[made.doc].version
    BY <1>1, <1>2, <2>1, AnswerIsMade
  <2>5. hist = ClosedHistory BY <2>3, InvFacts DEF ViewTypeOK
  <2>6. busy' = busy
    BY <1>1, <1>4 DEF ScratchSettles, Forget
  <2>7. ViewTypeOK' BY <1>1, <2>3, <2>4, <2>6, InvFacts DEF ViewTypeOK, page
  <2>8. ShownWell' BY <1>1, <2>3, <2>4, <2>5, ClosedIsHistory, ShownWithoutHistory
  <2>9. Selection /\ destroyed' = destroyed /\ owner' = owner BY <1>1 DEF Selection, page
  <2>10. \A d \in calls \ {c} : ~Running(d) BY <2>2, SettlingFacts
  <2>11. CASE ~Alive(c)
    <3>1. calls' = calls \ {c} BY <2>11 DEF ScratchSettles, Forget
    <3>2. destroyed BY <2>1, <2>11 DEF Alive
    <3>3. \A d, e \in calls' : Running(d) /\ Running(e) => d = e BY <2>10, <3>1
    <3>4. \A d \in calls' : d \in calls \ {c} BY <3>1
    <3>5. calls \ {c} \subseteq calls' BY <3>1
    <3>6. QED
      BY <1>1, <1>2, <2>1, <2>2, <2>3, <2>7, <2>8, <2>9, <3>2, <3>3, <3>4, <3>5, EndKeeps
  <2>12. CASE Alive(c)
    <3>1. PICK a : a = Request("edit", made, epoch, selected) OBVIOUS
    <3>2. /\ a \in Call /\ a.op = "edit" /\ a.epoch = epoch /\ a.scope = selected
          /\ a.doc = made.doc /\ a.version = made.version /\ a.ans.state = "none"
      BY <2>4, <3>1, RequestType, ShownIsMade DEF Exclusive
    <3>3. c.of \in DocOf BY SettlingFacts DEF Call, DocOf
    <3>4. PICK r : r = [a EXCEPT !.of = c.of] OBVIOUS
    <3>5. /\ r \in Call /\ r.op = "edit" /\ r.epoch = epoch /\ r.scope = selected
          /\ r.doc = made.doc /\ r.version = made.version /\ r.ans.state = "none"
      BY <3>2, <3>3, <3>4, RequestWith
    <3>6. calls' = (calls \ {c}) \cup {r}
      BY <1>2, <1>4, <2>12, <3>1, <3>4 DEF ScratchSettles, Ask
    <3>7. CallWell(r)' BY <2>4, <2>9, <3>5, NewCallWell, ShownIsMade
    <3>8. Running(r) /\ RunWell(r)' BY <3>5 DEF Running, RunWell, Exclusive, Operations
    <3>9. \A d \in calls' : Running(d) <=> d = r BY <2>10, <3>6, <3>8
    <3>10. busy BY <2>2, <2>12, InvFacts DEF OneRuns, Alive
    <3>11. busy' <=> \E d \in calls' : Running(d) BY <2>6, <3>6, <3>8, <3>10
    <3>12. \A d \in calls' :
             \/ d \in calls \ {c}
             \/ d \in Call /\ CallWell(d)' /\ d.op # "note" /\ (Running(d) => RunWell(d)')
      BY <3>5, <3>6, <3>7, <3>8
    <3>13. \A d, e \in calls' : Running(d) /\ Running(e) => d = e BY <3>9
    <3>14. calls \ {c} \subseteq calls' BY <3>6
    <3>15. QED
      BY <1>1, <1>2, <2>1, <2>2, <2>3, <2>7, <2>8, <2>9, <3>11, <3>12, <3>13, <3>14, EndKeeps
  <2>13. QED BY <2>11, <2>12
<1>5. QED BY <1>3, <1>4

\* A page of history has no gap, and reaches the first version unless it is full.
LEMMA PageFacts ==
  ASSUME NEW u \in Version, u >= 1
  PROVE  /\ PageFrom(u) \subseteq Version /\ u \in PageFrom(u)
         /\ \A v \in PageFrom(u) : v \in Nat /\ 1 <= v /\ v <= u
         /\ \E m \in PageFrom(u) :
              \A v \in PageFrom(u) : m <= v /\ (v = m \/ v - 1 \in PageFrom(u))
         /\ Cardinality(PageFrom(u)) # PageSize => 1 \in PageFrom(u)
<1>1. u \in Nat /\ PageSize \in Nat \ {0} /\ u <= MaxVersion /\ MaxVersion \in Nat
  BY VersionNat, CanvasAssumption
<1>2. PageFrom(u) \subseteq Version /\ u \in PageFrom(u)
  BY <1>1 DEF PageFrom, Version
<1>3. \A v \in PageFrom(u) : v \in Nat /\ 1 <= v /\ v <= u BY <1>1 DEF PageFrom
<1>4. CASE u < PageSize
  <2>1. 1 \in PageFrom(u) BY <1>1, <1>4 DEF PageFrom
  <2>2. \A v \in PageFrom(u) : 1 <= v /\ (v = 1 \/ v - 1 \in PageFrom(u))
    BY <1>1, <1>4 DEF PageFrom
  <2>3. QED BY <1>2, <1>3, <2>1, <2>2
<1>5. CASE u >= PageSize
  <2>1. PICK m \in Nat : m = u - PageSize + 1 BY <1>1, <1>5
  <2>2. m \in PageFrom(u) BY <1>1, <1>5, <2>1 DEF PageFrom
  <2>3. \A v \in PageFrom(u) : m <= v /\ (v = m \/ v - 1 \in PageFrom(u))
    BY <1>1, <1>5, <2>1 DEF PageFrom
  <2>4. PageFrom(u) = m..u BY <1>1, <1>5, <2>1 DEF PageFrom
  <2>5. Cardinality(m..u) = PageSize
    <3>1. m <= u /\ u - m + 1 = PageSize BY <1>1, <2>1
    <3>2. Cardinality(m..u) = IF m > u THEN 0 ELSE u - m + 1 BY <1>1, <2>1, FS_Interval
    <3>3. QED BY <1>1, <2>1, <3>1, <3>2
  <2>6. QED BY <1>2, <1>3, <2>2, <2>3, <2>4, <2>5
<1>6. QED BY <1>1, <1>4, <1>5

LEMMA HistorySettlesKeeps ==
  ASSUME CanvasInv, NEW c \in calls, HistorySettles(c)
  PROVE  CanvasInv'
<1>1. /\ c.op = "history" /\ c.op \in Exclusive
      /\ UNCHANGED <<page, list, current, selectedNote, pendingDelete, drag, owner, armed, reference>>
  BY DEF HistorySettles, Exclusive, Operations
<1>2. CASE ~Alive(c) BY <1>1, <1>2, LateKeeps DEF HistorySettles
<1>3. CASE Alive(c) /\ hist' = hist
  <2>1. Finish(c) BY <1>3 DEF HistorySettles
  <2>2. QED BY <1>1, <1>3, <2>1, FailedKeeps
<1>4. CASE /\ Alive(c) /\ Delivered(c) /\ current.doc = c.doc
           /\ \A e \in Entries(c) : e.doc = c.doc /\ e.version <= current.version
           /\ hist' = [open |-> TRUE, entries |-> Entries(c), revert |-> 0,
                       more |-> Cardinality(c.ans.items) = PageSize]
  <2>1. c.ans.state = "ok" /\ c.epoch = epoch BY <1>4 DEF Delivered
  <2>2. Running(c) /\ RunWell(c) /\ c \in Call /\ CallWell(c) BY <1>1, <1>4, SettlingFacts
  <2>3. current.version = c.version /\ c.ans.doc = c.doc /\ c.doc \in Docs
    BY <1>1, <2>1, <2>2 DEF RunWell, CallWell
  <2>4. PICK u \in Version : u >= 1 /\ u >= c.version /\ c.ans.items = PageFrom(u)
    BY <1>1, <2>1, <2>2 DEF CallWell
  <2>5. \A v \in PageFrom(u) : \E e \in Entries(c) : e.version = v
    <3>1. ASSUME NEW v \in PageFrom(u) PROVE \E e \in Entries(c) : e.version = v
      <4>1. [doc |-> c.doc, version |-> v] \in Entries(c) BY <2>3, <2>4 DEF Entries
      <4>2. QED BY <4>1
    <3>2. QED BY <3>1
  <2>6. \A e \in Entries(c) : e.version \in PageFrom(u) /\ e.doc = current.doc
    BY <1>4, <2>4 DEF Entries
  <2>7. u = current.version
    <3>1. u <= current.version BY <1>4, <2>4, <2>5, PageFacts
    <3>2. u \in Nat /\ current.version \in Nat BY VersionNat, ShownIsMade
    <3>3. QED BY <2>3, <2>4, <3>1, <3>2
  <2>8. /\ hist'.open /\ hist'.entries = Entries(c) /\ hist'.revert = 0
        /\ (hist'.more <=> Cardinality(PageFrom(u)) = PageSize) /\ hist' \in History
    <3>1. Entries(c) \subseteq Revision
      <4>1. PageFrom(u) \subseteq Version BY <2>4, PageFacts
      <4>2. QED BY <2>3, <2>4, <4>1 DEF Entries, Revision
    <3>2. QED BY <1>4, <2>4, <3>1, VersionNat DEF History
  <2>9. Whole'
    <3>1. \A e \in hist'.entries : e.doc = current'.doc /\ e.version >= 1
      BY <1>1, <2>4, <2>6, <2>8, PageFacts
    <3>2. \E e \in hist'.entries : e.version = current'.version
      BY <1>1, <2>4, <2>5, <2>7, <2>8, PageFacts
    <3>3. PICK m \in PageFrom(u) :
            \A v \in PageFrom(u) : m <= v /\ (v = m \/ v - 1 \in PageFrom(u))
      BY <2>4, PageFacts
    <3>4. m \in Version /\ \E e \in hist'.entries : e.version = m
      BY <2>4, <2>5, <2>8, <3>3, PageFacts
    <3>5. \A e \in hist'.entries :
            /\ m <= e.version
            /\ \/ e.version = 1 \/ e.version = m
               \/ \E f \in hist'.entries : f.version = e.version - 1
      BY <2>5, <2>6, <2>8, <3>3
    <3>6. ~hist'.more => \E e \in hist'.entries : e.version = 1
      BY <2>4, <2>5, <2>8, PageFacts
    <3>7. QED BY <3>1, <3>2, <3>4, <3>5, <3>6 DEF Whole
  <2>10. hist'.entries # {} BY <2>4, <2>5, <2>8, PageFacts
  <2>11. current # NoCanvas BY <1>4, <2>3, CanvasAssumption DEF NoCanvas
  <2>12. busy' = FALSE /\ calls' = calls \ {c} BY <1>4 DEF HistorySettles, Finish
  <2>13. ViewTypeOK' BY <1>1, <2>8, <2>11, <2>12, InvFacts DEF ViewTypeOK, page
  <2>14. ShownWell' BY <1>1, <2>8, <2>9, <2>10, InvFacts DEF ShownWell, Made, page
  <2>15. QED BY <1>1, <1>4, <2>2, <2>12, <2>13, <2>14, FreeKeeps
<1>5. QED BY <1>2, <1>3, <1>4 DEF HistorySettles

LEMMA OlderSettlesKeeps ==
  ASSUME CanvasInv, NEW c \in calls, OlderSettles(c)
  PROVE  CanvasInv'
<1>1. /\ c.op = "older" /\ c.op \in Exclusive
      /\ UNCHANGED <<page, list, current, selectedNote, pendingDelete, drag, owner, armed, reference>>
  BY DEF OlderSettles, Exclusive, Operations
<1>2. CASE ~Alive(c) BY <1>1, <1>2, LateKeeps DEF OlderSettles
<1>3. CASE Alive(c) /\ hist' = hist
  <2>1. Finish(c) BY <1>3 DEF OlderSettles
  <2>2. QED BY <1>1, <1>3, <2>1, FailedKeeps
<1>4. CASE /\ Alive(c) /\ Delivered(c) /\ current.doc = c.doc
           /\ hist' = [hist EXCEPT !.entries = @ \cup Entries(c),
                                   !.more = Cardinality(c.ans.items) = PageSize]
  <2>1. c.ans.state = "ok" /\ c.epoch = epoch BY <1>4 DEF Delivered
  <2>2. Running(c) /\ RunWell(c) /\ c \in Call /\ CallWell(c) BY <1>1, <1>4, SettlingFacts
  <2>3. c.ans.doc = c.doc /\ c.doc \in Docs /\ c.to >= 1 /\ c.ans.items = PageFrom(c.to - 1)
    BY <1>1, <2>1, <2>2 DEF CallWell
  <2>4. PICK u : u = c.to - 1 OBVIOUS
  <2>5. u \in Version /\ u \in Nat /\ c.to \in Nat /\ c.to = u + 1
    BY <2>2, <2>3, <2>4, CallFields, VersionNat DEF Version
  <2>6. /\ \E e \in hist.entries : e.version = c.to
        /\ \A e \in hist.entries : c.to <= e.version
    BY <1>1, <2>2 DEF RunWell
  <2>7. /\ ShownWell /\ Whole /\ hist \in History
    BY <2>6, InvFacts DEF ShownWell, ViewTypeOK
  <2>8. \A e \in hist.entries : e.version \in Nat BY <2>7, VersionNat DEF History, Revision
  <2>9. \A v \in PageFrom(u) : \E e \in Entries(c) : e.version = v
    <3>1. ASSUME NEW v \in PageFrom(u) PROVE \E e \in Entries(c) : e.version = v
      <4>1. [doc |-> c.doc, version |-> v] \in Entries(c) BY <2>3, <2>4 DEF Entries
      <4>2. QED BY <4>1
    <3>2. QED BY <3>1
  <2>10. \A e \in Entries(c) : e.version \in PageFrom(u) /\ e.doc = current.doc
    BY <1>4, <2>3, <2>4 DEF Entries
  <2>11. u = 0 => PageFrom(u) = {} BY DEF PageFrom
  <2>12. PageFrom(u) \subseteq Version
    <3>1. u >= 1 \/ u = 0 BY <2>5
    <3>2. QED BY <2>5, <2>11, <3>1, PageFacts
  <2>13. /\ hist'.open = hist.open /\ hist'.entries = hist.entries \cup Entries(c)
         /\ hist'.revert = hist.revert
         /\ (hist'.more <=> Cardinality(PageFrom(u)) = PageSize) /\ hist' \in History
    <3>1. Entries(c) \subseteq Revision
      BY <2>3, <2>4, <2>12 DEF Entries, Revision
    <3>2. hist.entries \cup Entries(c) \in SUBSET Revision BY <2>7, <3>1 DEF History
    <3>3. (Cardinality(c.ans.items) = PageSize) \in BOOLEAN OBVIOUS
    <3>4. QED BY <1>4, <2>3, <2>4, <2>7, <3>2, <3>3 DEF History
  <2>14. Whole'
    <3>1. \A e \in hist'.entries : e.doc = current'.doc /\ e.version >= 1
      <4>1. ASSUME NEW e \in Entries(c) PROVE e.doc = current.doc /\ e.version >= 1
        <5>1. e.version \in PageFrom(u) /\ u >= 1 BY <2>5, <2>10, <2>11
        <5>2. QED BY <2>5, <2>10, <5>1, PageFacts
      <4>2. QED BY <1>1, <2>7, <2>13, <4>1 DEF Whole
    <3>2. \E e \in hist'.entries : e.version = current'.version
      BY <1>1, <2>7, <2>13 DEF Whole
    <3>3. CASE u = 0
      <4>1. Entries(c) = {} BY <2>10, <2>11, <3>3
      <4>2. hist'.entries = hist.entries BY <2>13, <4>1
      <4>3. \E e \in hist.entries : e.version = 1 BY <2>5, <2>6, <3>3
      <4>4. \E m \in Version :
              /\ \E e \in hist'.entries : e.version = m
              /\ \A e \in hist'.entries :
                   /\ m <= e.version
                   /\ \/ e.version = 1 \/ e.version = m
                      \/ \E f \in hist'.entries : f.version = e.version - 1
        BY <2>7, <4>2 DEF Whole
      <4>5. QED BY <3>1, <3>2, <4>2, <4>3, <4>4 DEF Whole
    <3>4. CASE u >= 1
      <4>1. PICK m \in PageFrom(u) :
              \A v \in PageFrom(u) : m <= v /\ (v = m \/ v - 1 \in PageFrom(u))
        BY <2>5, <3>4, PageFacts
      <4>2. /\ m \in Version /\ m \in Nat /\ m <= u /\ u \in PageFrom(u)
            /\ \E e \in hist'.entries : e.version = m
        BY <2>5, <2>9, <2>13, <3>4, <4>1, PageFacts
      <4>3. ASSUME NEW e \in hist'.entries
            PROVE  /\ m <= e.version
                   /\ \/ e.version = 1 \/ e.version = m
                      \/ \E f \in hist'.entries : f.version = e.version - 1
        <5>1. CASE e \in Entries(c) BY <2>9, <2>10, <2>13, <4>1, <5>1
        <5>2. CASE e \in hist.entries
          <6>1. c.to <= e.version /\ e.version \in Nat BY <2>6, <2>8, <5>2
          <6>2. m <= e.version BY <2>5, <4>2, <6>1
          <6>3. CASE e.version = c.to
            <7>1. \E f \in hist'.entries : f.version = u BY <2>9, <2>13, <4>2
            <7>2. e.version - 1 = u BY <2>5, <6>3
            <7>3. QED BY <6>2, <7>1, <7>2
          <6>4. CASE e.version # c.to
            <7>1. PICK k \in Version :
                    /\ \E x \in hist.entries : x.version = k
                    /\ \A x \in hist.entries :
                         /\ k <= x.version
                         /\ \/ x.version = 1 \/ x.version = k
                            \/ \E f \in hist.entries : f.version = x.version - 1
              BY <2>7 DEF Whole
            <7>2. k = c.to
              <8>1. c.to <= k /\ k <= c.to BY <2>6, <7>1
              <8>2. k \in Nat BY VersionNat
              <8>3. QED BY <2>5, <8>1, <8>2
            <7>3. \/ e.version = 1
                  \/ \E f \in hist.entries : f.version = e.version - 1
              BY <5>2, <6>4, <7>1, <7>2
            <7>4. QED BY <2>13, <6>2, <7>3
          <6>5. QED BY <6>3, <6>4
        <5>3. QED BY <2>13, <5>1, <5>2
      <4>4. ~hist'.more => \E e \in hist'.entries : e.version = 1
        BY <2>5, <2>9, <2>13, <3>4, PageFacts
      <4>5. QED BY <3>1, <3>2, <4>2, <4>3, <4>4 DEF Whole
    <3>5. QED BY <2>5, <3>3, <3>4
  <2>15. current # NoCanvas BY <1>4, <2>3, CanvasAssumption DEF NoCanvas
  <2>16. busy' = FALSE /\ calls' = calls \ {c} BY <1>4 DEF OlderSettles, Finish
  <2>17. ViewTypeOK' BY <1>1, <2>13, <2>15, <2>16, InvFacts DEF ViewTypeOK, page
  <2>18. hist'.entries # {} BY <2>6, <2>13
  <2>19. ShownWell' BY <1>1, <2>7, <2>13, <2>14, <2>18 DEF ShownWell, Made, page
  <2>20. QED BY <1>1, <1>4, <2>2, <2>16, <2>17, <2>19, FreeKeeps
<1>5. QED BY <1>2, <1>3, <1>4 DEF OlderSettles

LEMMA NoteSettlesKeeps ==
  ASSUME CanvasInv, NEW c \in calls, NoteSettles(c)
  PROVE  CanvasInv'
<1>1. /\ c.op = "note" /\ c.op \notin Exclusive /\ Forget(c) /\ c \in Call
      /\ UNCHANGED <<page, list, current, selectedNote, pendingDelete, hist, drag, owner, armed>>
  BY SettlingFacts DEF NoteSettles, Exclusive, Operations
<1>2. reference' \in Reference
  <2>1. reference \in Reference BY InvFacts DEF ViewTypeOK
  <2>2. c.note \in Notes \cup {NoNote} BY <1>1 DEF Call
  <2>3. c.doc \in DocOf /\ c.ans.version \in Version BY <1>1, CallFields
  <2>4. QED BY <2>1, <2>2, <2>3 DEF NoteSettles, Reference
<1>3. ViewTypeOK' BY <1>1, <1>2, InvFacts DEF ViewTypeOK, page, Forget
<1>4. OwnerGrows BY <1>1, InvFacts, OwnerStays
<1>5. ShownWell' BY <1>1, <1>4, ShownStays DEF page
<1>6. QED BY <1>1, <1>3, <1>5, ForgetKeeps

LEMMA SettlesKeeps ==
  ASSUME CanvasInv, NEW c \in calls, Settles(c)
  PROVE  CanvasInv'
BY ListSettlesKeeps, OpenSettlesKeeps, OperationSettlesKeeps, EditSettlesKeeps,
   ScratchSettlesKeeps, HistorySettlesKeeps, OlderSettlesKeeps, NoteSettlesKeeps
   DEF Settles

-----------------------------------------------------------------------------
(* The invariant *)

LEMMA CanvasInit == Init => CanvasInv
<1>1. SUFFICES ASSUME Init PROVE CanvasInv OBVIOUS
<1>2. 0 \in 0..MaxEpoch /\ 0 \in Version BY CanvasAssumption, VersionNat
<1>3. PICK l : l = ListOf(0, selected) OBVIOUS
<1>4. l \in Call /\ l.op = "list" /\ l.epoch = 0 /\ l.scope = selected /\ l.doc = NoDoc
      /\ l.version = 0 /\ l.to = 0 /\ l.ans.state = "none"
  <2>1. selected \in Scopes BY <1>1 DEF Init
  <2>2. QED BY <1>2, <1>3, <2>1, RequestType, NoCanvasIsRevision DEF ListOf, NoCanvas
<1>5. calls = {l} BY <1>1, <1>3 DEF Init
<1>6. owner \in Owner BY <1>1, <1>2 DEF Init, Owner
<1>7. ViewTypeOK
  <2>1. Nothing \in Armed /\ NoReference \in Reference
    BY <1>2 DEF Nothing, Armed, NoReference, Reference, DocOf
  <2>2. QED
    BY <1>1, <1>2, <2>1, ClosedIsHistory, NoCanvasIsRevision DEF Init, ViewTypeOK, DocOf
<1>8. CanvasTypeOK BY <1>4, <1>5, <1>6, <1>7, TypesOf
<1>9. CallsWell BY <1>1, <1>4, <1>5 DEF CallsWell, CallWell, Init
<1>10. ShownWell BY <1>1, ClosedIsHistory, NoCanvasIsRevision DEF ShownWell, Init
<1>11. OneRuns /\ RunsWell /\ NotesWell
  BY <1>1, <1>4, <1>5 DEF OneRuns, RunsWell, NotesWell, Running, Exclusive, Operations, Init
<1>12. QED BY <1>8, <1>9, <1>10, <1>11 DEF CanvasInv

LEMMA CanvasNext == CanvasInv /\ [Next]_vars => CanvasInv'
<1>1. SUFFICES ASSUME CanvasInv, [Next]_vars PROVE CanvasInv' OBVIOUS
<1>2. CASE Operator BY <1>1, <1>2, OperatorKeeps
<1>3. CASE OwnerStep BY <1>1, <1>3, OwnerStepKeeps
<1>4. ASSUME NEW c \in calls, Settles(c) PROVE CanvasInv' BY <1>1, <1>4, SettlesKeeps
<1>5. CASE UNCHANGED vars
  <2>1. /\ Selection /\ owner' = owner /\ calls' = calls /\ list' = list /\ current' = current
        /\ hist' = hist /\ armed' = armed /\ busy' = busy /\ destroyed' = destroyed
        /\ pendingDelete' = pendingDelete
    BY <1>5 DEF vars, page, Selection
  <2>2. OwnerGrows BY <1>1, <2>1, InvFacts, OwnerStays
  <2>3. ViewTypeOK' BY <1>1, <1>5, InvFacts DEF ViewTypeOK, vars, page
  <2>4. ShownWell' BY <1>1, <2>1, <2>2, ShownStays DEF Selection
  <2>5. QED BY <1>1, <2>1, <2>2, <2>3, <2>4, QuietKeeps
<1>6. QED BY <1>1, <1>2, <1>3, <1>4, <1>5 DEF Next

\* CanvasInv holds in every state.
THEOREM CanvasInductive == Spec => []CanvasInv
BY CanvasInit, CanvasNext, PTL DEF Spec

-----------------------------------------------------------------------------
(* What a reader should know *)

\* The view is busy exactly while one request of the selection excludes the
\* others, whatever came before it (the finally blocks of open, edit, operate).
THEOREM BusyIsOneCall == Spec => []BusyMatchesCall
<1>1. CanvasInv => BusyMatchesCall
  <2>1. SUFFICES ASSUME CanvasInv PROVE BusyMatchesCall OBVIOUS
  <2> DEFINE running == {c \in calls : c.epoch = epoch /\ c.op \in Exclusive}
  <2>2. \A c : c \in running <=> c \in calls /\ Running(c) BY DEF Running
  <2>3. CanvasTypeOK /\ OneRuns /\ busy \in BOOLEAN BY <2>1 DEF CanvasInv, CanvasTypeOK
  <2>4. ASSUME ~destroyed PROVE Cardinality(running) = IF busy THEN 1 ELSE 0
    <3>1. CASE busy
      <4>1. PICK c \in calls : Running(c) BY <2>3, <2>4, <3>1 DEF OneRuns
      <4>2. running = {c} BY <2>2, <2>3, <4>1 DEF OneRuns
      <4>3. Cardinality({c}) = 1 BY FS_Singleton
      <4>4. QED BY <3>1, <4>2, <4>3
    <3>2. CASE ~busy
      <4>1. running = {} BY <2>2, <2>3, <2>4, <3>2 DEF OneRuns
      <4>2. QED BY <3>2, <4>1, FS_EmptySet
    <3>3. QED BY <2>3, <3>1, <3>2
  <2>5. QED BY <2>3, <2>4 DEF BusyMatchesCall
<1>2. QED BY <1>1, CanvasInductive, PTL

\* Everything shown, and everything requested, is of the scope it is shown or
\* requested in, in whatever order answers and selections come (retarget,
\* alive, STALE_SELECTION).
THEOREM ShownStaysInScope == Spec => []StaysInScope
<1>1. CanvasInv => StaysInScope
  <2>1. SUFFICES ASSUME CanvasInv PROVE StaysInScope OBVIOUS
  <2>2. ShownWell /\ CallsWell BY <2>1, InvFacts
  <2>3. \A d \in list : owner[d].scope = selected BY <2>2 DEF ShownWell, Made
  <2>4. current.doc # NoDoc => owner[current.doc].scope = selected BY <2>2 DEF ShownWell, Made
  <2>5. \A e \in hist.entries : e.doc = current.doc BY <2>2 DEF ShownWell, Whole
  <2>6. \A c \in calls : c.doc # NoDoc => owner[c.doc].scope = c.scope
    BY <2>2 DEF CallsWell, CallWell, Made
  <2>7. QED BY <2>3, <2>4, <2>5, <2>6 DEF StaysInScope
<1>2. QED BY <1>1, CanvasInductive, PTL

\* The history shown is of the document shown, from its current version down
\* without a gap, however pages, restores and edits are interleaved.
THEOREM HistoryStaysWhole == Spec => []HistoryIsWhole
<1>1. CanvasInv => HistoryIsWhole
  <2>1. SUFFICES ASSUME CanvasInv, hist.open PROVE HistoryIsWhole BY DEF HistoryIsWhole
  <2> DEFINE shown == {e.version : e \in hist.entries}
  <2>2. ShownWell /\ ViewTypeOK BY <2>1, InvFacts
  <2>3. Whole BY <2>1, <2>2 DEF ShownWell
  <2>4. \A e \in hist.entries : e.version \in Version
    BY <2>2 DEF ViewTypeOK, History, Revision
  <2>5. PICK m \in Version :
          /\ \E e \in hist.entries : e.version = m
          /\ \A e \in hist.entries :
               /\ m <= e.version
               /\ \/ e.version = 1 \/ e.version = m
                  \/ \E f \in hist.entries : f.version = e.version - 1
    BY <2>3 DEF Whole
  <2>6. Oldest(hist.entries) = m BY <2>4, <2>5, OldestIs
  <2>7. ASSUME NEW v \in shown
        PROVE  v = 1 \/ v - 1 \in shown \/ v = Oldest(hist.entries)
    <3>1. PICK e \in hist.entries : e.version = v OBVIOUS
    <3>2. \/ e.version = 1 \/ e.version = m
          \/ \E f \in hist.entries : f.version = e.version - 1
      BY <2>5
    <3>3. QED BY <2>6, <3>1, <3>2
  <2>8. \A e \in hist.entries : e.doc = current.doc BY <2>3 DEF Whole
  <2>9. current.version \in shown BY <2>3 DEF Whole
  <2>10. ~hist.more => 1 \in shown BY <2>3 DEF Whole
  <2>11. QED BY <2>7, <2>8, <2>9, <2>10 DEF HistoryIsWhole
<1>2. QED BY <1>1, CanvasInductive, PTL

\* A step that puts an answer in place of the document shown does not go back
\* to an older version of it.
LEMMA NeverBack ==
  ASSUME CanvasInv, Next, current'.doc = current.doc, current.doc # NoDoc, epoch' = epoch
  PROVE  current'.version >= current.version
<1>1. current.version \in Nat BY ShownIsMade
<1>2. current' = current => current'.version >= current.version BY <1>1
<1>3. current' # NoCanvas BY DEF NoCanvas
<1>4. CASE Operator
  BY <1>2, <1>3, <1>4
  DEF Operator, Retarget, Destroy, Refresh, Scratch, Create, Rename, Duplicate, Open, AskDelete,
      Delete, AskRevert, Revert, Edit, Drag, Drop, OpenHistory, LoadOlder, CloseHistory,
      SelectNote, InsertNote
<1>5. CASE OwnerStep BY <1>2, <1>5 DEF OwnerStep
<1>6. ASSUME NEW c \in calls, Settles(c) PROVE current'.version >= current.version
  <2>1. ASSUME c.op \in Shows, Delivered(c),
               current' = [doc |-> c.ans.doc, version |-> c.ans.version]
        PROVE  current'.version >= current.version
    <3>1. Running(c) BY <2>1 DEF Delivered, Running, Shows
    <3>2. current.version <= c.ans.version
      BY <2>1, <3>1, SettlingFacts DEF RunWell, Delivered
    <3>3. QED BY <2>1, <3>2
  <2>2. CASE OpenSettles(c)
    BY <1>2, <2>1, <2>2 DEF OpenSettles, Shows, Exclusive, Operations
  <2>3. CASE OperationSettles(c)
    BY <1>2, <1>3, <2>1, <2>3 DEF OperationSettles, Adopt, Shows, Exclusive, Operations
  <2>4. CASE EditSettles(c)
    BY <1>2, <2>1, <2>4 DEF EditSettles, Adopt, Shows, Exclusive, Operations
  <2>5. CASE ScratchSettles(c)
    BY <1>2, <2>1, <2>5 DEF ScratchSettles, Shows, Exclusive, Operations
  <2>6. QED
    BY <1>2, <1>6, <2>2, <2>3, <2>4, <2>5
    DEF Settles, ListSettles, HistorySettles, OlderSettles, NoteSettles
<1>7. QED BY <1>4, <1>5, <1>6 DEF Next

\* A request that is made asks for what the action that makes it asks.
LEMMA RequestOp ==
  /\ \A op, rev, e, s : Request(op, rev, e, s).op = op
  /\ \A op, rev, v : [Ask(op, rev) EXCEPT !.to = v].op = op
  /\ \A op, rev, o : [Ask(op, rev) EXCEPT !.of = o].op = op
  /\ \A op, rev, n : [Ask(op, rev) EXCEPT !.note = n].op = op
BY DEF Request, Ask

\* Only Revert asks the owner to restore a version, and restores the one the
\* operator was asked to confirm.
LEMMA RestoresWhatWasArmed ==
  ASSUME CanvasInv, Next, NEW c \in calls' \ calls, c.op = "revert", c.ans.state = "none"
  PROVE  armed = [doc |-> c.doc, version |-> c.version, to |-> c.to]
<1>1. ASSUME NEW v \in Version, Revert(v)
      PROVE  armed = [doc |-> c.doc, version |-> c.version, to |-> c.to]
  <2>1. PICK a : a = Ask("revert", current) OBVIOUS
  <2>2. /\ a \in Call /\ a.doc = current.doc /\ a.version = current.version
    BY <2>1, AskFields, ShownIsMade DEF Exclusive, Operations
  <2>3. PICK r : r = [a EXCEPT !.to = v] OBVIOUS
  <2>4. r.doc = current.doc /\ r.version = current.version /\ r.to = v
    BY <2>2, <2>3, RequestWith
  <2>5. calls' = calls \cup {r} BY <1>1, <2>1, <2>3 DEF Revert, Operate, Starts
  <2>6. c = r BY <2>5
  <2>7. hist.revert = v /\ \E e \in hist.entries : e.version = v
    BY <1>1 DEF Revert, Restorable
  <2>8. v # 0
    <3>1. ShownWell /\ Whole BY <2>7, InvFacts DEF ShownWell
    <3>2. QED BY <2>7, <3>1 DEF Whole
  <2>9. armed = [doc |-> current.doc, version |-> current.version, to |-> v]
    BY <2>7, <2>8, InvFacts DEF ShownWell
  <2>10. QED BY <2>4, <2>6, <2>9
<1>2. ASSUME Operator, \A v \in Version : ~Revert(v) PROVE FALSE
  <2>1. ASSUME NEW n, calls' = calls \cup {n}, n.op # "revert" PROVE FALSE BY <2>1
  <2>2. ASSUME NEW o, Starts(EditRequest(o)) PROVE FALSE
    <3>1. PICK op \in {"scratch", "edit"} : op = IF current = NoCanvas THEN "scratch" ELSE "edit"
      OBVIOUS
    <3>2. PICK n : n = [Ask(op, current) EXCEPT !.of = o] OBVIOUS
    <3>3. n.op = op BY <3>2, RequestOp
    <3>4. calls' = calls \cup {n} BY <2>2, <3>1, <3>2 DEF Starts, EditRequest
    <3>5. QED BY <2>1, <3>3, <3>4
  <2>3. ASSUME NEW s \in Scopes, Retarget(s) PROVE FALSE BY <2>3, RequestOp DEF Retarget, ListOf
  <2>4. CASE Refresh BY <2>4, RequestOp DEF Refresh, ListOf
  <2>5. ASSUME NEW d \in Docs, Open(d) PROVE FALSE BY <2>5, RequestOp DEF Open, Starts, Ask
  <2>6. CASE Create BY <2>6, RequestOp DEF Create, Operate, Starts, Ask
  <2>7. CASE Rename BY <2>7, RequestOp DEF Rename, Operate, Starts, Ask
  <2>8. CASE Duplicate BY <2>8, RequestOp DEF Duplicate, Operate, Starts, Ask
  <2>9. CASE Delete BY <2>9, RequestOp DEF Delete, Operate, Starts, Ask
  <2>10. ASSUME NEW o, NEW removes, Edit(o, removes) PROVE FALSE BY <2>2, <2>10 DEF Edit
  <2>11. CASE Drop BY <2>2, <2>11 DEF Drop
  <2>12. CASE OpenHistory BY <2>12, RequestOp DEF OpenHistory, Starts, Ask
  <2>13. CASE LoadOlder
    <3>1. PICK n : n = [Ask("older", current) EXCEPT !.to = Oldest(hist.entries)] OBVIOUS
    <3>2. n.op = "older" BY <3>1, RequestOp
    <3>3. calls' = calls \cup {n} BY <2>13, <3>1 DEF LoadOlder, Starts
    <3>4. QED BY <2>1, <3>2, <3>3
  <2>14. CASE InsertNote
    <3>1. PICK n : n = [Ask("note", current) EXCEPT !.note = selectedNote] OBVIOUS
    <3>2. n.op = "note" BY <3>1, RequestOp
    <3>3. calls' = calls \cup {n} BY <2>14, <3>1 DEF InsertNote
    <3>4. QED BY <2>1, <3>2, <3>3
  <2>15. CASE \/ Destroy \/ Scratch \/ AskDelete \/ Drag \/ CloseHistory
              \/ (\E v \in Version : AskRevert(v)) \/ (\E n \in Notes : SelectNote(n))
    BY <2>15 DEF Destroy, Scratch, AskDelete, Drag, CloseHistory, AskRevert, SelectNote
  <2>16. QED
    BY <1>2, <2>3, <2>4, <2>5, <2>6, <2>7, <2>8, <2>9, <2>10, <2>11, <2>12, <2>13, <2>14, <2>15
    DEF Operator
<1>3. CASE OwnerStep
  <2>1. ASSUME NEW d \in calls, NEW ans, ans.state # "none", Answered(d, ans) PROVE FALSE
    <3>1. d \in Call BY InvFacts
    <3>2. [d EXCEPT !.ans = ans].ans = ans BY <3>1 DEF Call
    <3>3. c = [d EXCEPT !.ans = ans] BY <2>1 DEF Answered
    <3>4. QED BY <2>1, <3>2, <3>3
  <2>2. ASSUME NEW d \in calls, NEW x, NEW v, NEW items, Answered(d, Success(x, v, items)) PROVE FALSE
    <3>1. Success(x, v, items).state = "ok" BY DEF Success
    <3>2. QED BY <2>1, <2>2, <3>1
  <2>3. ASSUME NEW d \in calls, Answered(d, Failure) PROVE FALSE
    <3>1. Failure.state = "failed" BY DEF Failure, NoAnswer
    <3>2. QED BY <2>1, <2>3, <3>1
  <2>4. ASSUME NEW d \in calls, OwnerReads(d) PROVE FALSE BY <2>2, <2>4 DEF OwnerReads
  <2>5. ASSUME NEW d \in calls, OwnerCreates(d) PROVE FALSE BY <2>2, <2>5 DEF OwnerCreates
  <2>6. ASSUME NEW d \in calls, OwnerWrites(d) PROVE FALSE BY <2>2, <2>6 DEF OwnerWrites
  <2>7. ASSUME NEW d \in calls, Refused(d) \/ AnswerLost(d) PROVE FALSE
    BY <2>3, <2>7 DEF Refused, AnswerLost
  <2>8. ASSUME NEW d, NEW deletes, OthersWrite(d, deletes) PROVE FALSE BY <2>8 DEF OthersWrite
  <2>9. QED BY <1>3, <2>4, <2>5, <2>6, <2>7, <2>8 DEF OwnerStep
<1>4. ASSUME NEW d \in calls, Settles(d) PROVE FALSE
  <2>1. CASE OperationSettles(d)
    BY <2>1, RequestOp
    DEF OperationSettles, Forget, FinishAndRefresh, ListOf, Ask
  <2>2. CASE ScratchSettles(d)
    <3>1. PICK n : n = [Ask("edit", [doc |-> d.ans.doc, version |-> d.ans.version])
                          EXCEPT !.of = d.of]
      OBVIOUS
    <3>2. n.op = "edit" BY <3>1, RequestOp
    <3>3. \/ calls' = calls \ {d}
          \/ calls' = (calls \ {d}) \cup {ListOf(epoch, selected)}
          \/ calls' = (calls \ {d}) \cup {n}
      BY <2>2, <3>1 DEF ScratchSettles, Forget, FinishAndRefresh
    <3>4. QED BY <3>2, <3>3, RequestOp DEF ListOf
  <2>3. QED
    BY <1>4, <2>1, <2>2, RequestOp
    DEF Settles, ListSettles, OpenSettles, EditSettles, HistorySettles, OlderSettles, NoteSettles,
        Forget, Finish, FinishAndRefresh, ListOf
<1>5. QED BY <1>1, <1>2, <1>3, <1>4 DEF Next

\* A note is given to the composer from the document it is selected in, at a
\* version the operator has seen (selectedNoteForChat).
LEMMA GivesWhatIsSelected ==
  ASSUME CanvasInv, Next, reference' # reference
  PROVE  /\ reference'.doc = current.doc /\ reference'.note = selectedNote
         /\ owner[current.doc].scope = selected
         /\ reference'.version <= current.version
<1>1. PICK c \in calls : NoteSettles(c)
  <2>1. ~Operator
    BY DEF Operator, Retarget, Destroy, Refresh, Scratch, Create, Rename, Duplicate, Open, AskDelete,
      Delete, AskRevert, Revert, Edit, Drag, Drop, OpenHistory, LoadOlder, CloseHistory,
      SelectNote, InsertNote, Operate, Starts
  <2>2. ~OwnerStep BY DEF OwnerStep
  <2>3. QED
    BY <2>1, <2>2
    DEF Next, Settles, ListSettles, OpenSettles, OperationSettles, EditSettles, ScratchSettles,
        HistorySettles, OlderSettles
<1>2. /\ Alive(c) /\ c.op = "note" /\ current.doc = c.doc /\ selectedNote = c.note
      /\ c.ans.version = c.version
      /\ reference' = [doc |-> c.doc, version |-> c.ans.version, note |-> c.note]
  BY <1>1 DEF NoteSettles
<1>3. c \in Call /\ CallWell(c) /\ c.epoch = epoch BY <1>2, SettlingFacts
<1>4. c.doc \in Docs BY <1>2, <1>3 DEF CallWell
<1>5. owner[current.doc].scope = selected
  BY <1>2, <1>4, ShownIsMade, CanvasAssumption DEF Made
<1>6. c.version <= current.version BY <1>2, <1>3, InvFacts DEF NotesWell
<1>7. QED BY <1>2, <1>5, <1>6

\* What is shown never goes back, what is restored is what was confirmed, and
\* a note is the one selected, in whatever order the answers arrive.
THEOREM ShownIsActedOn == Spec => ActsOnWhatIsShown
<1> DEFINE Acts ==
      /\ current'.doc = current.doc /\ current.doc # NoDoc /\ epoch' = epoch
           => current'.version >= current.version
      /\ \A c \in calls' \ calls : c.op = "revert" /\ c.ans.state = "none" =>
           armed = [doc |-> c.doc, version |-> c.version, to |-> c.to]
      /\ reference' # reference =>
           /\ reference'.doc = current.doc /\ reference'.note = selectedNote
           /\ owner[current.doc].scope = selected
           /\ reference'.version <= current.version
<1>1. CanvasInv /\ [Next]_vars => [Acts]_vars
  BY NeverBack, RestoresWhatWasArmed, GivesWhatIsSelected
<1>2. QED BY <1>1, CanvasInductive, PTL DEF Spec, ActsOnWhatIsShown
=============================================================================
