-------------------------- MODULE SubscriptionHub --------------------------
(***************************************************************************)
(* What the gateway tells its sockets and keeps of the disk:               *)
(*   SubscriptionHub and watchWorkspace (apps/gateway/src/subscriptions.ts),*)
(*   DisposableCache (packages/os-read-adapter/src/cache.ts),              *)
(*   source.preview (apps/gateway/src/query-router.ts) and the workspace   *)
(*   subscriptions of a socket (handleSocket of apps/gateway/src/server.ts,*)
(*   the sockets of the bearer token, which have no local application).    *)
(*                                                                         *)
(* Everything here runs on one thread.  The disk does not: a file may be   *)
(* written between the stat and the read of one preview.                   *)
(*                                                                         *)
(* The dedupe window is a second of wall clock.  Whether it has passed     *)
(* when a key is published again is a choice.                              *)
(***************************************************************************)
EXTENDS Integers, Sequences, FiniteSets

CONSTANTS
  Systems, Workspaces,
  Known,          \* the workspaces getWorkspace resolves: pairs of both
  Proj,           \* the workspace whose id is "proj", if there is one
  None,
  Sockets, SystemOf,  \* the system each socket is bound to
  MaxWrites       \* bound: writes of one file

ASSUME HubAssumption ==
  /\ Known \subseteq Systems \X Workspaces
  /\ None \notin Workspaces
  /\ SystemOf \in [Sockets -> Systems]
  /\ MaxWrites \in Nat

VARIABLES
  seqBySystem, seen,  \* the hub: last seq of a system, keys published so far
  selected,  \* selected[c]: selectedWorkspaceScope, or None
  sub,       \* sub[c]: workspace of activeSubId, or None
  stream,    \* stream[c]: workspace of the stream canonicalCancel ends, or None
  open,      \* sockets that are not closed
  inbox,     \* inbox[c]: the events sent to c for its present subscription, with
             \* who told them (`by`, a history field that no action reads)
  watched, changed,   \* watchers, and those with a change not yet called back
  file,      \* the version, mtime and size, of each workspace's file
  cached     \* projections: [sys, ws, key, body], key and body versions

hub == <<seqBySystem, seen, inbox>>
socketVars == <<selected, sub, stream, open>>
disk == <<watched, changed, file, cached>>
hubVars == <<hub, socketVars, disk>>

Version == 0..MaxWrites
Projection == [sys : Systems, ws : Workspaces, key : Version, body : Version]
\* The object an event is about: a session and an entry of it, or nothing.
About(k, e) == [session |-> k, entry |-> e]
Nothing == About(None, None)

HubInit ==
  /\ seqBySystem = [s \in Systems |-> 0] /\ seen = {}
  /\ inbox = [c \in Sockets |-> <<>>]
  /\ selected = [c \in Sockets |-> None] /\ sub = selected /\ stream = selected
  /\ open = Sockets
  /\ watched = {} /\ changed = {}
  /\ file = [p \in Known |-> 0] /\ cached = {}

----------------------------------------------------------------------------
(* The hub *)

\* Every partition of the hub is the system's own: the dedupe key, the
\* counter and the subscribers.
Key(s, w, name, payload) == <<s, w, name, payload>>
SubscribedOfSystem(s, w) == {c \in open : SystemOf[c] = s /\ sub[c] # None}
Subscribed(s, w) == {c \in open : SystemOf[c] = s /\ sub[c] = w}

Deliver(s, w, name, payload, by) ==
  /\ seqBySystem' = [seqBySystem EXCEPT ![s] = @ + 1]
  /\ seen' = seen \cup {Key(s, w, name, payload)}
  /\ inbox' = [c \in Sockets |->
       IF c \in Subscribed(s, w)
       THEN Append(inbox[c], [sys |-> s, ws |-> w, seq |-> seqBySystem[s] + 1,
                              name |-> name, payload |-> payload, by |-> by])
       ELSE inbox[c]]

\* publish: the same payload again within the window is dropped.
Publish(s, w, name, payload, by) ==
  \/ Key(s, w, name, payload) \in seen /\ UNCHANGED hub
  \/ Deliver(s, w, name, payload, by)

----------------------------------------------------------------------------
(* A socket.  Its subscription and its run stream are of one workspace. *)

\* "subscribe": another workspace ends the run stream of the last one.
Subscribe(c, w) ==
  /\ c \in open /\ <<SystemOf[c], w>> \in Known
  /\ stream' = [stream EXCEPT ![c] = IF selected[c] = w THEN @ ELSE None]
  /\ selected' = [selected EXCEPT ![c] = w]
  /\ sub' = [sub EXCEPT ![c] = w]
  /\ inbox' = [inbox EXCEPT ![c] = <<>>]
  /\ UNCHANGED <<open, seqBySystem, seen, disk>>

\* "gateway-run-subscribe": ends the workspace's subscription.
RunSubscribe(c, w) ==
  /\ c \in open
  /\ selected' = [selected EXCEPT ![c] = w]
  /\ stream' = [stream EXCEPT ![c] = w]
  /\ sub' = [sub EXCEPT ![c] = None]
  /\ inbox' = [inbox EXCEPT ![c] = <<>>]
  /\ UNCHANGED <<open, seqBySystem, seen, disk>>

\* "gateway-run-unsubscribe", and a run subscription that is refused.
RunUnsubscribe(c) ==
  /\ c \in open
  /\ stream' = [stream EXCEPT ![c] = None]
  /\ UNCHANGED <<hub, selected, sub, open, disk>>

Close(c) ==
  /\ c \in open
  /\ open' = open \ {c}
  /\ sub' = [sub EXCEPT ![c] = None] /\ stream' = [stream EXCEPT ![c] = None]
  /\ inbox' = [inbox EXCEPT ![c] = <<>>]
  /\ UNCHANGED <<selected, seqBySystem, seen, disk>>

----------------------------------------------------------------------------
(* The disk, the watcher and the cache *)

Write(s, w) ==
  /\ <<s, w>> \in Known /\ file[<<s, w>>] < MaxWrites
  /\ file' = [file EXCEPT ![<<s, w>>] = @ + 1]
  /\ changed' = changed \cup ({<<s, w>>} \cap watched)
  /\ UNCHANGED <<hub, socketVars, watched, cached>>

Watch(s, w) ==
  /\ <<s, w>> \in Known \ watched
  /\ watched' = watched \cup {<<s, w>>}
  /\ UNCHANGED <<hub, socketVars, changed, file, cached>>

Unwatch(s, w) ==
  /\ <<s, w>> \in watched
  /\ watched' = watched \ {<<s, w>>} /\ changed' = changed \ {<<s, w>>}
  /\ UNCHANGED <<hub, socketVars, file, cached>>

\* invalidateWorkspace drops the keys that begin with "s:w:".  Those of a
\* projection begin with "s:proj:".
OfWorkspace(s, w) == {e \in cached : e.sys = s /\ w = Proj}
OfEverySystem(s) == cached
OfSystem(s) == {e \in cached : e.sys = s}

\* The callback of fs.watch.
WatchFires(s, w) ==
  /\ <<s, w>> \in changed
  /\ changed' = changed \ {<<s, w>>}
  /\ cached' = cached \ OfWorkspace(s, w)
  /\ Publish(s, w, "source.changed", Nothing, "watcher")
  /\ UNCHANGED <<socketVars, watched, file>>

\* source.preview: what is stored under one key replaces what was.
Store(s, w, key, body) ==
  cached' = {e \in cached : ~(e.sys = s /\ e.ws = w /\ e.key = key)}
              \cup {[sys |-> s, ws |-> w, key |-> key, body |-> body]}
\* readMarkdownFile, while the file becomes `later`: the stat, then the text.
ReadThenStat(now, later) == [stat |-> later, text |-> now]
Read(now, later) == [stat |-> now, text |-> later]

Preview(s, w, raced) ==
  /\ <<s, w>> \in Known
  /\ raced => file[<<s, w>>] < MaxWrites
  /\ LET now == file[<<s, w>>]
         later == IF raced THEN now + 1 ELSE now
         read == Read(now, later)
     IN /\ file' = [file EXCEPT ![<<s, w>>] = later]
        /\ Store(s, w, read.stat, read.text)
  /\ changed' = IF raced THEN changed \cup ({<<s, w>>} \cap watched) ELSE changed
  /\ UNCHANGED <<hub, socketVars, watched>>

\* get of an entry over its ttl.
Expire(e) ==
  /\ e \in cached
  /\ cached' = cached \ {e}
  /\ UNCHANGED <<hub, socketVars, watched, changed, file>>

\* invalidateSystem, for the host that removes a system.
InvalidateSystem(s) ==
  /\ OfSystem(s) # {}
  /\ cached' = cached \ OfSystem(s)
  /\ UNCHANGED <<hub, socketVars, watched, changed, file>>

HubNext ==
  \/ \E c \in Sockets :
       \/ \E w \in Workspaces : Subscribe(c, w) \/ RunSubscribe(c, w)
       \/ RunUnsubscribe(c) \/ Close(c)
  \/ \E s \in Systems :
       \/ InvalidateSystem(s)
       \/ \E w \in Workspaces :
            \/ Write(s, w) \/ Watch(s, w) \/ Unwatch(s, w) \/ WatchFires(s, w)
            \/ \E raced \in BOOLEAN : Preview(s, w, raced)
  \/ \E e \in cached : Expire(e)
=============================================================================
