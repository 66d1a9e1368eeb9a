---------------------------- MODULE MCLiveReads ----------------------------
(***************************************************************************)
(* The live sessions of two systems with the same workspaces and the same  *)
(* session ids.  A behaviour is about sends, about the host's own entries, *)
(* or about sockets, files and projections.                                *)
(***************************************************************************)
EXTENDS LiveReads, TLC

CONSTANTS s1, s2, w1, proj, c1, c2, h1, h2

VARIABLE use

MCSystemOf == (c1 :> s1 @@ c2 :> s2)
MCKnown == {<<s1, w1>>, <<s2, w1>>, <<s1, proj>>}

NoDisk == watched = {} /\ cached = {} /\ \A p \in Known : file[p] = 0
NoSockets == open = Sockets /\ selected = [c \in Sockets |-> None]
NoSessions == created = <<>> /\ counter = 0
NoAdapters == adapters = [s \in Systems |-> <<>>]
Appended(id) == \E p \in DOMAIN sessions : \E i \in DOMAIN sessions[p].entries : sessions[p].entries[i].id = id
Transcripts == FoldSet(LAMBDA p, n : n + Len(sessions[p].entries), 0, DOMAIN sessions)

\* Steps of the host: it tells an event of a session, or sets its status.
HostTells == seqBySystem' # seqBySystem /\ UNCHANGED <<live, disk>>
HostSets(statuses) ==
  \E p \in Systems \X SessionIds :
    /\ sessions'[p].status \in statuses \ {sessions[p].status} /\ sessions[p] # NoSession
    /\ sessions'[p].entries = sessions[p].entries

\* Sends of one session, told to one socket, beside a session of the other
\* system with the same id.
Talk ==
  /\ NoDisk /\ open = Sockets /\ counter = 0
  /\ \A c \in Sockets : stream[c] = None
  /\ selected[c1] \in {None, w1} /\ selected[c2] = None
  /\ ~Appended(h1) /\ ~Appended(h2)
  /\ adapters[s2] = <<>> /\ seqBySystem[s2] = 0 /\ adapters[s1] # <<"cli", "echo">>
  /\ \A p \in ToSet(created) : p[2] = 1 /\ sessions[p].ws = w1
\* A send, while the host tells of its session what it likes, closes it and
\* opens it again.
Tell ==
  /\ Talk /\ Len(created) <= 1 /\ calls[2].phase = "none" /\ adapters[s1] \in {<<>>, <<"cli">>}
  /\ \A y \in seen : y[3] \in {"chat.message", "chat.aborted", "error-event"}
                      /\ y[4].entry \notin HostIds
\* Two sessions, with entries of the host.
Host ==
  /\ NoDisk /\ NoSockets /\ NoAdapters /\ seen = {}
  /\ Len(created) <= 2 /\ Transcripts <= 3
  /\ \A p \in ToSet(created) : \A i \in DOMAIN sessions[p].entries :
       sessions[p].entries[i].id = h2 => sessions[p].entries[i].kind = "run-event"
\* Subscriptions and streams of two sockets, told of changes.
Streams == NoSessions /\ NoAdapters /\ cached = {} /\ file[<<s1, proj>>] = 0
Files == NoSessions /\ NoAdapters /\ NoSockets

InUse ==
  CASE use = "talk" -> Talk [] use = "tell" -> Tell [] use = "host" -> Host
    [] use = "streams" -> Streams [] use = "files" -> Files

MCInit == Init /\ use \in {"talk", "tell", "host", "streams", "files"}
MCNext ==
  /\ Next /\ UNCHANGED use /\ InUse'
  /\ use = "talk" => ~HostTells
  /\ ~HostSets(CASE use = "tell" -> SessionStatus \ {"idle", "done", "aborted"}
                [] use = "talk" -> SessionStatus \ {"aborted"} [] OTHER -> SessionStatus)
MCSpec == MCInit /\ [][MCNext]_<<vars, use>> /\ Fairness
=============================================================================
