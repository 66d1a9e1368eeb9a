----------------------------- MODULE LiveReads -----------------------------
(***************************************************************************)
(* What is read of the live sessions, and what LiveSessions must keep:     *)
(*   agent.list, run.list and run.get (apps/gateway/src/query-router.ts),  *)
(*   the trace, the log drawer and its copy button (packages/live/src/     *)
(*   runs.ts) and the tool groups (packages/live/src/activity.ts).         *)
(* Reads change nothing: they are operators over the state.  The order by  *)
(* time of run.list and its limit are left out.                            *)
(***************************************************************************)
EXTENDS LiveSessions

CONSTANT DrawerMax  \* DRAWER_BUFFER_MAX, 200 in the code

ASSUME DrawerAssumption == DrawerMax \in Nat \ {0}

SessionsOf(s, w) == {k \in SessionIds : Exists(s, k) /\ sessions[<<s, k>>].ws = w}
Transcript(s, k) == sessions[<<s, k>>].entries
EntriesOf(s, k) == {Transcript(s, k)[i] : i \in DOMAIN Transcript(s, k)}

----------------------------------------------------------------------------
(* The router's queries, for a workspace getWorkspace resolves *)

AgentList(s, w) ==
  {[session |-> k, status |-> sessions[<<s, k>>].status,
    entryCount |-> Len(Transcript(s, k))] : k \in SessionsOf(s, w)}

RunList(s, w, kinds) ==
  {e \in UNION {EntriesOf(s, k) : k \in SessionsOf(s, w)} : e.kind \in kinds}

\* findEntry: the first entry with the id, in the order of the map, of any
\* workspace of the system.
Holders(s, id) ==
  SelectSeq(created, LAMBDA p : p[1] = s /\ \E e \in EntriesOf(s, p[2]) : e.id = id)
FindEntry(s, id) ==
  IF Holders(s, id) = <<>> THEN None
  ELSE LET entries == Transcript(s, Holders(s, id)[1][2])
       IN entries[SelectInSeq(entries, LAMBDA e : e.id = id)]

RunGetOfSystem(s, w, id, k) ==
  LET e == FindEntry(s, id)
  IN IF e = None THEN None ELSE IF k # None /\ e.session # k THEN None ELSE e

\* run.get refuses an entry of another session than the one named, if one is,
\* and of another workspace.
RunGet(s, w, id, k) ==
  LET e == FindEntry(s, id)
  IN IF e = None THEN None
     ELSE IF (k # None /\ e.session # k) \/ e.ws # w THEN None ELSE e

----------------------------------------------------------------------------
(* The runs panel, for one session *)

Newest(limit, seq) == SubSeq(seq, 1 + (IF Len(seq) > limit THEN Len(seq) - limit ELSE 0), Len(seq))

\* buildTrace.  Every kind the models tell apart is traceable.
Trace(s, k, limit, kinds) ==
  LET entries == SelectSeq(Transcript(s, k), LAMBDA e : e.kind \in kinds)
  IN [spans |-> Newest(limit, entries), total |-> Len(entries),
      errors |-> Len(SelectSeq(entries, LAMBDA e : e.kind = "error-event"))]

SeverityOf(e) ==
  CASE e.kind = "error-event" -> "error" [] e.kind = "run-event" -> "warning" [] OTHER -> "info"

\* buildLogDrawer: the newest `limit` lines before a line, of one severity, and
\* how many such lines there are.  A page holds DrawerMax lines at most.
Lines(s, k) ==
  [i \in DOMAIN Transcript(s, k) |->
     [seq |-> i, severity |-> SeverityOf(Transcript(s, k)[i]), id |-> Transcript(s, k)[i].id]]
Drawer(s, k, limit, before, severity) ==
  LET lines == SelectSeq(Lines(s, k),
        LAMBDA l : l.seq < before /\ (severity = None \/ l.severity = severity))
  IN [lines |-> Newest(IF limit > DrawerMax THEN DrawerMax ELSE limit, lines),
      total |-> Len(lines)]

CopyLogLine(s, k, seq) == Transcript(s, k)[seq].id

ToolGroup(s, k) ==
  LET tools == SelectSeq(Transcript(s, k), LAMBDA e : e.kind = "tool-call")
  IN [session |-> k, toolCount |-> Len(tools),
      lastTool |-> IF tools = <<>> THEN None ELSE Last(tools).id,
      errors |-> Len(SelectSeq(Transcript(s, k), LAMBDA e : e.kind = "error-event"))]

----------------------------------------------------------------------------
(* Properties *)

Kinds == {"message", "tool-call", "run-event", "error-event"}
EntryIds == HostIds \cup {UserId(c) : c \in Sends} \cup {ReplyId(c) : c \in Sends}
              \cup {ErrorId(c) : c \in Sends}
CallPhases == {"none", "waiting", "accepted", "failed"}

\* The values of every variable (gateway's live state), with the hub's
\* counter as long as its keys need and each session in `created` once.
LiveTypeOK ==
  /\ \A p \in Systems \X SessionIds :
       LET x == sessions[p] IN
       /\ x.ws \in Workspaces \cup {None}
       /\ x.status \in SessionStatus \cup {"none"} /\ x.reopened \in BOOLEAN
       /\ Len(x.entries) <= MaxEntries
       /\ \A i \in DOMAIN x.entries :
            x.entries[i] \in [id : EntryIds, kind : Kinds, role : {"user", "agent", "system"},
                              sys : {p[1]}, ws : {x.ws}, session : {p[2]}]
  /\ IsInjective(created) /\ ToSet(created) = {p \in Systems \X SessionIds : sessions[p] # NoSession}
  /\ counter \in 0..MaxAuto
  /\ \A s \in Systems : IsInjective(adapters[s]) /\ ToSet(adapters[s]) \subseteq Names
  /\ \A c \in Sends :
       /\ calls[c].phase \in CallPhases /\ calls[c].child \in {"alive", "killed", "gone"}
       /\ calls[c].timer \in BOOLEAN
  /\ \A s \in Systems : Cardinality({y \in seen : y[1] = s}) <= seqBySystem[s]
  /\ open \subseteq Sockets /\ changed \subseteq watched /\ watched \subseteq Known
  /\ \A c \in Sockets : {selected[c], sub[c], stream[c]} \subseteq Workspaces \cup {None}
  /\ file \in [Known -> Version] /\ cached \subseteq Projection

\* A send is settled once and the transcript, the answer and the event agree:
\* an accepted send has its message and after it one reply that was told; a
\* failed one has no reply; a waiting one has a running child under a timer,
\* and no other call has one (send of runtime-adapters.ts and adapter.ts).
SendSettledOnce ==
  LiveTypeOK /\ \A c \in Sends : calls[c].phase # "none" =>
    LET call == calls[c]
        entries == Transcript(call.sys, call.session)
        at(id) == {i \in DOMAIN entries : entries[i].id = id}
        told(event, id) == \E w \in Workspaces :
          Key(call.sys, w, event, About(call.session, id)) \in seen
    IN /\ Cardinality(at(UserId(c))) = 1
       /\ call.phase = "accepted" =>
            /\ Cardinality(at(ReplyId(c))) = 1
            /\ \A i \in at(UserId(c)), j \in at(ReplyId(c)) : i < j
       /\ call.phase # "accepted" => at(ReplyId(c)) = {}
       /\ Cardinality(at(ErrorId(c))) <= (IF call.phase = "failed" THEN 1 ELSE 0)
       /\ told("chat.message", ReplyId(c)) <=> (at(ReplyId(c)) # {})
       /\ told("error-event", ErrorId(c)) <=> (at(ErrorId(c)) # {})
       /\ call.phase = "waiting" <=> call.child = "alive"
       /\ call.phase = "waiting" <=> call.timer

\* A socket is of one workspace: its subscription and its run stream are of
\* the selected one, and what it was sent is of it and of its system, in the
\* order of the system's counter (handleSocket, SubscriptionHub.publish).  After
\* an adapter told it that a session is aborted no adapter tells it a reply or
\* an error of that session, whatever sends were under way, unless the host has
\* opened the session again (append refuses a closed session before the adapter
\* tells anything).  The host itself may tell anything of a session that is
\* closed: publishLive does not ask, and nothing is claimed of it.
ByAdapter(event, names) == event.by = "adapter" /\ event.name \in names
SocketInScope ==
  \A c \in Sockets :
    /\ stream[c] # None => stream[c] = selected[c]
    /\ sub[c] # None => sub[c] = selected[c] /\ stream[c] \in {None, sub[c]}
    /\ \A i \in DOMAIN inbox[c] :
         /\ inbox[c][i].sys = SystemOf[c] /\ inbox[c][i].ws = selected[c]
         /\ i > 1 => inbox[c][i - 1].seq < inbox[c][i].seq
    /\ \A i, j \in DOMAIN inbox[c] :
         /\ i < j /\ ByAdapter(inbox[c][i], {"chat.aborted"})
         /\ inbox[c][j].payload.session = inbox[c][i].payload.session
         /\ ~sessions[<<SystemOf[c], inbox[c][i].payload.session>>].reopened
         => ~ByAdapter(inbox[c][j], {"chat.message", "error-event"})

\* A step is about one system: it changes the sessions, the counter, the
\* projections or the sockets of at most one (Rule 6: sessions, dedupe, seq
\* and cache are partitioned by systemId).
Touched(s) ==
  \/ \E k \in SessionIds : sessions'[<<s, k>>] # sessions[<<s, k>>]
  \/ seqBySystem'[s] # seqBySystem[s] \/ adapters'[s] # adapters[s]
  \/ {e \in cached' : e.sys = s} # {e \in cached : e.sys = s}
  \/ \E c \in Sockets : SystemOf[c] = s /\ (inbox'[c] # inbox[c] \/ sub'[c] # sub[c])
SystemsApart ==
  [][\A s, t \in Systems : Touched(s) /\ Touched(t) => s = t]_vars

\* The reads agree: run.get of an id in a workspace gives the entry that
\* run.list lists, exactly when the oldest session of the system that holds the
\* id is of that workspace, and hides it otherwise (findEntry); the pages of the
\* drawer, each continued before its first line, show every line once and none
\* is larger than DrawerMax, for every size of page and severity, and the
\* drawer's total is what they show; the copy of a line is that line; trace,
\* drawer and tool groups count the same errors.
Pages(s, k, limit, severity) ==
  LET from[before \in 0..(MaxEntries + 1)] ==
        LET page == Drawer(s, k, limit, before, severity).lines
        IN IF page = <<>> THEN <<>> ELSE from[page[1].seq] \o page
  IN from[MaxEntries + 1]
ReadsAgree ==
  /\ \A s \in Systems, w \in Workspaces :
     \A id \in {e.id : e \in UNION {EntriesOf(s, k) : k \in SessionIds}} :
       LET got == RunGet(s, w, id, None)
           listed == {e \in RunList(s, w, Kinds) : e.id = id}
           holders == Holders(s, id)
       IN IF holders # <<>> /\ sessions[holders[1]].ws = w THEN got \in listed ELSE got = None
  /\ \A s \in Systems, k \in SessionIds : Exists(s, k) =>
       /\ \A limit \in 1..MaxEntries : \A severity \in {None, "info", "warning", "error"} :
            LET all == SelectSeq(Lines(s, k), LAMBDA l : severity = None \/ l.severity = severity)
                first == Drawer(s, k, limit, MaxEntries + 1, severity)
            IN /\ Pages(s, k, limit, severity) = all
               /\ first.total = Len(all) /\ Len(first.lines) <= DrawerMax
       /\ \A i \in DOMAIN Lines(s, k) : CopyLogLine(s, k, i) = Lines(s, k)[i].id
       /\ LET errors == Drawer(s, k, 1, MaxEntries + 1, "error").total IN
          /\ Trace(s, k, 1, Kinds).errors = errors /\ ToolGroup(s, k).errors = errors
          /\ Trace(s, k, MaxEntries, {"tool-call"}).total = ToolGroup(s, k).toolCount
       /\ [session |-> k, status |-> sessions[<<s, k>>].status,
           entryCount |-> Trace(s, k, 1, Kinds).total] \in AgentList(s, sessions[<<s, k>>].ws)

\* A projection under a file's present stat holds its present text, though
\* the file may be written between the stat and the read of a preview
\* (readMarkdownFile takes the stat first).
CachedIsCurrent ==
  \A e \in cached : e.key = file[<<e.sys, e.ws>>] => e.body = e.key

\* Every send through the child process ends (its timer).
SendSettles ==
  \A c \in Sends : calls[c].phase = "waiting" ~> calls[c].phase \in {"accepted", "failed"}
=============================================================================
