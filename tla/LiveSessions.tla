---------------------------- MODULE LiveSessions ----------------------------
(***************************************************************************)
(* The gateway's own chat sessions (packages/live/src): SessionStore, the  *)
(* two runtime adapters and their registry, publishLive, and what the      *)
(* router and the runs panel read of them.                                 *)
(*                                                                         *)
(* A send through CliJsonlAdapter awaits a child process: between the      *)
(* user's entry and the reply other sends, an abort, the host's own        *)
(* entries and any request may come in.  Everything else is one step.      *)
(***************************************************************************)
EXTENDS SubscriptionHub, SequencesExt

CONSTANTS
  MaxAuto,       \* bound: the counter names sess-1 .. sess-MaxAuto
  MaxEntries,    \* MAX_ENTRIES, 500 in the code
  HostIds,       \* ids the host gives the entries it appends itself
  MaxSends,      \* bound: sends
  MaxEvents      \* bound: events of one system, for the steps of the host

ASSUME LiveAssumption ==
  /\ MaxAuto \in Nat /\ MaxEntries \in Nat \ {0}
  /\ MaxSends \in Nat /\ MaxEvents \in Nat
  /\ (HostIds \cup {None}) \cap ({"u", "a", "e"} \X (1..MaxSends)) = {}

VARIABLES
  sessions,  \* sessions[<<s, k>>]: a session, or NoSession
  created,   \* the keys in the order the map holds them
  counter,
  adapters,  \* adapters[s]: names in the order of their registration
  calls      \* calls[c]: the c-th send

live == <<sessions, created, counter, adapters, calls>>
vars == <<hubVars, live>>

Sends == 1..MaxSends
SessionIds == 1..MaxAuto
Names == {"echo", "cli"}
\* LiveEventName.
LiveEvents ==
  {"chat.message", "chat.aborted", "tool.started", "tool.finished", "run-event", "error-event"}
\* SessionStatus.
SessionStatus == {"active", "idle", "working", "waiting", "blocked", "done", "aborted"}
ClosedStatus == {"done", "aborted"}
\* `reopened` is history: a closed session was given an open status.
NewSession(w) == [ws |-> w, status |-> "active", entries |-> <<>>, reopened |-> FALSE]
NoSession == [ws |-> None, status |-> "none", entries |-> <<>>, reopened |-> FALSE]
NoCall == [phase |-> "none", sys |-> None, session |-> None, child |-> "gone", timer |-> FALSE]

\* Kinds of entries the models tell apart, and who wrote them.
Entry(s, k, id, kind, role) ==
  [id |-> id, kind |-> kind, role |-> role, sys |-> s, ws |-> sessions[<<s, k>>].ws,
   session |-> k]
UserId(c) == <<"u", c>>
ReplyId(c) == <<"a", c>>
ErrorId(c) == <<"e", c>>

Exists(s, k) == sessions[<<s, k>>] # NoSession
Closed(s, k) == sessions[<<s, k>>].status \in ClosedStatus
Full(s, k) == Len(sessions[<<s, k>>].entries) >= MaxEntries
\* append's refusals; its limits of one entry are the callers'.
AcceptsClosed(s, k) == Exists(s, k) /\ ~Full(s, k)
Accepts(s, k) == Exists(s, k) /\ ~Closed(s, k) /\ ~Full(s, k)

StatusAfter(status, role) ==
  CASE role = "agent" -> "idle" [] role = "user" -> "working" [] OTHER -> status
With(session, e) ==
  [session EXCEPT !.entries = Append(@, e), !.status = StatusAfter(@, e.role)]

Init ==
  /\ HubInit
  /\ sessions = [p \in Systems \X SessionIds |-> NoSession]
  /\ created = <<>> /\ counter = 0
  /\ adapters = [s \in Systems |-> <<>>]
  /\ calls = [c \in Sends |-> NoCall]

----------------------------------------------------------------------------
(* Sessions *)

\* create with an id, refused when the session exists.
Create(s, w, k) ==
  /\ ~Exists(s, k)
  /\ sessions' = [sessions EXCEPT ![<<s, k>>] = NewSession(w)]
  /\ created' = Append(created, <<s, k>>)
  /\ UNCHANGED <<counter, adapters, calls, hubVars>>

\* create without an id takes the next number, one counter for all systems;
\* the number is spent also when the session exists.
CreateNext(s, w) ==
  /\ counter < MaxAuto
  /\ counter' = counter + 1
  /\ IF Exists(s, counter + 1)
     THEN UNCHANGED <<sessions, created>>
     ELSE /\ sessions' = [sessions EXCEPT ![<<s, counter + 1>>] = NewSession(w)]
          /\ created' = Append(created, <<s, counter + 1>>)
  /\ UNCHANGED <<adapters, calls, hubVars>>

\* AdapterRegistry: a name is registered once in a system, and get finds it
\* there only; without a name it is the first registered.
Register(s, name) ==
  /\ ~Contains(adapters[s], name)
  /\ adapters' = [adapters EXCEPT ![s] = Append(@, name)]
  /\ UNCHANGED <<sessions, created, counter, calls, hubVars>>
Uses(s, name) == Contains(adapters[s], name)

\* setStatus asks nothing of the status before, so it opens a closed session too.
WithStatus(session, status) ==
  [session EXCEPT !.status = status,
                  !.reopened = @ \/ (session.status \in ClosedStatus /\ status \notin ClosedStatus)]

\* setStatus, called by the host: nobody is told.
SetStatus(s, k, status) ==
  /\ Exists(s, k)
  /\ sessions' = [sessions EXCEPT ![<<s, k>>] = WithStatus(@, status)]
  /\ UNCHANGED <<created, counter, adapters, calls, hubVars>>

\* abort, of either adapter.
Abort(s, k) ==
  /\ Exists(s, k) /\ adapters[s] # <<>> /\ seqBySystem[s] < MaxEvents
  /\ sessions' = [sessions EXCEPT ![<<s, k>>] = WithStatus(@, "aborted")]
  /\ Publish(s, sessions[<<s, k>>].ws, "chat.aborted", About(k, None), "adapter")
  /\ UNCHANGED <<created, counter, adapters, calls, socketVars, disk>>

\* The host appends what its runtime did: a tool call, a run event, an error.
HostAppends(s, k, id, kind, role) ==
  /\ Accepts(s, k)
  /\ sessions' = [sessions EXCEPT ![<<s, k>>] = With(@, Entry(s, k, id, kind, role))]
  /\ UNCHANGED <<created, counter, adapters, calls, hubVars>>

\* The ids the host can name: its own, and those of entries it can read.  The
\* id of an entry still to be written is a time and a random number.
Written == {e.id : e \in UNION {ToSet(sessions[p].entries) : p \in DOMAIN sessions}}
Nameable == HostIds \cup Written

\* publishLive: the session exists in that system and is of that workspace.
\* Its status is not asked for, and the host tells any of the names, about any
\* entry or none.
PublishLive(s, w, k, name, id) ==
  /\ Exists(s, k) /\ sessions[<<s, k>>].ws = w /\ seqBySystem[s] < MaxEvents
  /\ Publish(s, w, name, About(k, id), "host")
  /\ UNCHANGED <<live, socketVars, disk>>

----------------------------------------------------------------------------
(* Sends *)

Free == {c \in Sends : calls[c].phase = "none"}
Started(c) == c \in Free /\ \A d \in Free : c <= d
CallUntimed(s, k, phase, child) ==
  [phase |-> phase, sys |-> s, session |-> k, child |-> child, timer |-> FALSE]
Call(s, k, phase, child) ==
  [phase |-> phase, sys |-> s, session |-> k, child |-> child, timer |-> child = "alive"]
Posted(s, k, c) == With(sessions[<<s, k>>], Entry(s, k, UserId(c), "message", "user"))

\* LocalEchoAdapter.send: the user's entry and the reply, or the user's entry
\* alone when it was the last that fitted.
SendEcho(s, k, c) ==
  /\ Started(c) /\ Uses(s, "echo") /\ Accepts(s, k)
  /\ LET posted == Posted(s, k, c)
         fits == Len(posted.entries) < MaxEntries
     IN /\ sessions' = [sessions EXCEPT ![<<s, k>>] =
             IF fits THEN With(posted, Entry(s, k, ReplyId(c), "message", "agent")) ELSE posted]
        /\ calls' = [calls EXCEPT ![c] = Call(s, k, IF fits THEN "accepted" ELSE "failed", "gone")]
        /\ IF fits THEN Publish(s, posted.ws, "chat.message", About(k, ReplyId(c)), "adapter")
                   ELSE UNCHANGED hub
  /\ UNCHANGED <<created, counter, adapters, socketVars, disk>>

\* CliJsonlAdapter.send up to its await: the user's entry and the child.
SendCli(s, k, c) ==
  /\ Started(c) /\ Uses(s, "cli") /\ Accepts(s, k)
  /\ sessions' = [sessions EXCEPT ![<<s, k>>] = Posted(s, k, c)]
  /\ calls' = [calls EXCEPT ![c] = Call(s, k, "waiting", "alive")]
  /\ UNCHANGED <<created, counter, adapters, hubVars>>

\* The rest of send: runChild resolves or rejects, and the reply or an
\* error-event is appended and told, unless append refuses it.
Ends(c, call, kind, role, id, event, phase) ==
  LET s == call.sys  k == call.session
  IN IF Accepts(s, k)
     THEN /\ sessions' = [sessions EXCEPT ![<<s, k>>] = With(@, Entry(s, k, id, kind, role))]
          /\ calls' = [calls EXCEPT ![c] = [call EXCEPT !.phase = phase]]
          /\ Publish(s, sessions[<<s, k>>].ws, event, About(k, id), "adapter")
     ELSE /\ calls' = [calls EXCEPT ![c] = [call EXCEPT !.phase = "failed"]]
          /\ UNCHANGED <<sessions, hub>>
Replies(c, call) == Ends(c, call, "message", "agent", ReplyId(c), "chat.message", "accepted")
Rejects(c, call) == Ends(c, call, "error-event", "system", ErrorId(c), "error-event", "failed")

\* finish: once, kills the child and rejects.
FinishAgain(c, call) == Rejects(c, [call EXCEPT !.child = "killed"])
Finish(c, call) ==
  IF call.phase = "waiting"
  THEN Rejects(c, [call EXCEPT !.child = IF @ = "alive" THEN "killed" ELSE @])
  ELSE calls' = [calls EXCEPT ![c] = call] /\ UNCHANGED <<sessions, hub>>

rest == <<created, counter, adapters, socketVars, disk>>

Timeout(c) ==
  /\ calls[c].timer
  /\ Finish(c, [calls[c] EXCEPT !.timer = FALSE])
  /\ UNCHANGED rest

\* More output than the bound, also what was on its way when it was killed.
TooMuch(c) ==
  /\ calls[c].child \in {"alive", "killed"}
  /\ Finish(c, [calls[c] EXCEPT !.timer = FALSE])
  /\ UNCHANGED rest

\* The child could not be started.  (A write to its stdin that throws ends as in
\* TooMuch.  One that fails later is an error event of stdin, which nobody
\* listens to; it is not modelled.)
ChildFails(c) ==
  /\ calls[c].child = "alive" /\ calls[c].phase = "waiting"
  /\ Finish(c, [calls[c] EXCEPT !.timer = FALSE, !.child = "gone"])
  /\ UNCHANGED rest

\* The child ends: with a reply in its last line, or without.
ChildCloses(c, good) ==
  /\ calls[c].child \in {"alive", "killed"}
  /\ LET call == [calls[c] EXCEPT !.timer = FALSE, !.child = "gone"]
     IN IF calls[c].phase # "waiting"
        THEN calls' = [calls EXCEPT ![c] = call] /\ UNCHANGED <<sessions, hub>>
        ELSE IF good THEN Replies(c, call) ELSE Rejects(c, call)
  /\ UNCHANGED rest

ChildStep(c) ==
  \/ Timeout(c) \/ TooMuch(c) \/ ChildFails(c)
  \/ \E good \in BOOLEAN : ChildCloses(c, good)

SendNext ==
  \/ \E s \in Systems, k \in SessionIds, c \in Sends : SendEcho(s, k, c) \/ SendCli(s, k, c)
  \/ \E c \in Sends : ChildStep(c)
HostNext ==
  \E s \in Systems :
    \/ \E name \in Names : Register(s, name)
    \/ \E w \in Workspaces :
         \/ CreateNext(s, w)
         \/ \E k \in SessionIds :
              \/ Create(s, w, k)
              \/ \E name \in LiveEvents, id \in Nameable \cup {None} : PublishLive(s, w, k, name, id)
    \/ \E k \in SessionIds :
         \/ Abort(s, k)
         \/ \E status \in SessionStatus : SetStatus(s, k, status)
         \/ \E id \in HostIds :
              \/ HostAppends(s, k, id, "tool-call", "agent")
              \/ HostAppends(s, k, id, "run-event", "system")
              \/ HostAppends(s, k, id, "error-event", "system")

Next == SendNext \/ HostNext \/ (HubNext /\ UNCHANGED live)

\* The timer of a send fires at the latest (setTimeout).
Fairness == \A c \in Sends : WF_vars(Timeout(c))
Spec == Init /\ [][Next]_vars /\ Fairness
=============================================================================
