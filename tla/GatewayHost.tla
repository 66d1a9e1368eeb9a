----------------------------- MODULE GatewayHost -----------------------------
(***************************************************************************)
(* The way of a request from the paired browser, or from a native client   *)
(* of the host, to the canonical Gateway: POST /rpc (handleHttp in         *)
(* apps/gateway/src/server.ts), CanonicalGatewayBridge.handle() and the    *)
(* requests of CanonicalGatewayClient; and the way back of a run's events: *)
(* openEventStream() and handleSocket().                                   *)
(*                                                                         *)
(* A call awaits its body, reads of the owner, the credentials of its      *)
(* effect and the owner's answer.  Meanwhile the host may rotate the       *)
(* session, the browser may log out, and the registry and the disk change. *)
(* The bridge and the session are made at the same time: both captured     *)
(* the binding OwnerLease.                                                 *)
(***************************************************************************)
EXTENDS LocalAppSession

CONSTANTS
  Native,              \* a client with the host's bearer, instead of a cookie
  MaxRpcs, MaxEvents   \* bounds: calls at once, events of one stream

ASSUME HostAssumption ==
  Native \notin Nat /\ MaxRpcs \in Nat /\ MaxEvents \in Nat

VARIABLES
  rpcs,     \* the calls being served, and answers of success on their way
  streams   \* the event stream of each browser socket that asked for one

gvars == <<rpcs, streams>>
allvars == <<rvars, svars, gvars>>
sessionRest == <<folder, workspace, code, requestCount, bodies, history>>

----------------------------------------------------------------------------
(* What a call awaits: the methods that read, those that change a run.     *)

Ops == {"get", "create", "control", "approval"}
Awaits(op) ==
  CASE op = "get"      -> <<"body", "read", "ok">>
    [] op = "create"   -> <<"body", "read", "bearer", "sent", "ok">>
    [] op = "control"  -> <<"body", "read", "bearer", "sent", "ok">>
    [] op = "approval" -> <<"body", "read", "admit", "reread", "bearer", "sent", "ok">>
After(c) ==
  LET i == CHOOSE i \in DOMAIN Awaits(c.op) : Awaits(c.op)[i] = c.stage
  IN [c EXCEPT !.stage = Awaits(c.op)[i + 1]]
Stages == {"body", "read", "admit", "reread", "bearer", "sent", "ok"}

Rpc == [n : Nat, caller : Nat \cup {Native}, ws : Scopes, op : Ops, lease : Nat, stage : Stages]
Stream == [socket : Nat, ws : Scopes, stage : {"read", "bearer", "open", "over"},
           told : {"live", "failed", "terminal"}, events : Nat]

HostTypeOK ==
  /\ rpcs \subseteq Rpc /\ streams \subseteq Stream
  /\ \A c, d \in rpcs : c.n = d.n => c = d
  /\ \A x \in streams : /\ \E s \in sockets : s.n = x.socket
                        /\ \A y \in streams : x.socket = y.socket => x = y

----------------------------------------------------------------------------
(* The bridge *)

BridgeHolds == Holds(OwnerLease)
WorkspaceThere(w) == IF w = Operator THEN TRUE ELSE folder[w] # NoFolder

\* The signal of a browser's call: its lease has been revoked.
SignalAborted(c) == c.caller # Native /\ (aborted \/ c.lease # lease)

\* validateEffectLease()
EffectLease(c) == BridgeHolds /\ WorkspaceThere(c.ws) /\ ~SignalAborted(c)

\* The steps taken without the lease being checked first: only the client
\* may have been invalidated, by the signal.
UncheckedLate == {<<"create", "read">>, <<"approval", "read">>} \cup (Ops \X {"sent"})
Unchecked == {<<"create", "read">>, <<"approval", "read">>}
Passes(c) == IF <<c.op, c.stage>> \in Unchecked THEN ~SignalAborted(c) ELSE EffectLease(c)

\* active(): a withdrawn approval ends the session where it is noticed.
AsksActive ==
  /\ UsesRegistry
  /\ IF OwnerStillApproved THEN UNCHANGED <<browser, request>> ELSE Revoke

\* POST /rpc up to its body; approvals are not for the browser.
RpcArrives(k, w, op) ==
  /\ k # Native => Authorized(k) /\ op # "approval"
  /\ Cardinality(rpcs) < MaxRpcs
  /\ rpcs' = rpcs \cup {[n |-> Free(rpcs), caller |-> k, ws |-> w, op |-> op,
                         lease |-> 0, stage |-> "body"]}
  /\ UNCHANGED <<rvars, svars, streams>>

\* After the body: activeBrowserSignal(), isAllowedFrame() and the first
\* checks of handle().
Admitted(c) ==
  /\ c.caller # Native => Authorized(c.caller) /\ c.ws = scope
  /\ BridgeHolds /\ WorkspaceThere(c.ws)
RpcBodyEnds(c) ==
  /\ c.stage = "body"
  /\ IF c.caller = Native THEN UsesRegistry /\ UNCHANGED <<browser, request>> ELSE AsksActive
  /\ rpcs' = (rpcs \ {c}) \cup
       (IF Admitted(c) THEN {[After(c) EXCEPT !.lease = IF c.caller = Native THEN 0 ELSE lease]}
        ELSE {})
  /\ UNCHANGED <<sessionRest, streams>>

\* What the call awaits has come: it goes on, or fails.
RpcGoesOn(c) ==
  /\ c.stage \notin {"body", "ok"}
  /\ rpcs' = (rpcs \ {c}) \cup (IF Passes(c) THEN {After(c)} ELSE {})
  /\ IF <<c.op, c.stage>> \in Unchecked THEN UNCHANGED rvars ELSE UsesRegistry
  /\ UNCHANGED <<svars, streams>>

\* A refusal, a deadline, a broken connection; or the answer has been read.
RpcEnds(c) ==
  /\ rpcs' = rpcs \ {c}
  /\ UNCHANGED <<rvars, svars, streams>>

----------------------------------------------------------------------------
(* Event streams: one per socket, replaced by a new subscription.          *)

OpenSocket(n) == \E s \in sockets : s.n = n /\ s.open
Of(n) == {x \in streams : x.socket = n}
Becomes(x, y) == streams' = (streams \ {x}) \cup {y}

\* A frame that is not sent to a socket being closed or of another scope
\* does not reach active().
Reaches(x) == OpenSocket(x.socket) /\ x.ws = scope
Forwards(x, heard, unheard) ==
  /\ Becomes(x, IF Reaches(x) /\ Active THEN heard ELSE unheard)
  /\ IF Reaches(x) /\ ~OwnerStillApproved THEN Revoke ELSE UNCHANGED <<browser, request>>

\* gateway-run-subscribe in the scope of the session.
StreamSubscribes(s) ==
  /\ OwnerStillApproved
  /\ streams' = (streams \ Of(s.n)) \cup
       (IF Active THEN {[socket |-> s.n, ws |-> scope, stage |-> "read",
                         told |-> "live", events |-> 0]} ELSE {})
  /\ UNCHANGED <<rvars, svars, rpcs>>

\* gateway-run-unsubscribe, from any socket.
StreamUnsubscribes(s) ==
  /\ Of(s.n) # {} /\ streams' = streams \ Of(s.n)
  /\ UNCHANGED <<rvars, svars, rpcs>>

\* The run was read; the credentials came and the lease holds.
StreamGoesOn(x) ==
  /\ \/ x.stage = "read" /\ Becomes(x, [x EXCEPT !.stage = "bearer"])
     \/ x.stage = "bearer" /\ BridgeHolds /\ WorkspaceThere(x.ws)
        /\ Becomes(x, [x EXCEPT !.stage = "open"])
  /\ UNCHANGED <<rvars, svars, rpcs>>

\* The lease does not hold, the connection fails or the owner ends it: the
\* page is told, if a frame may still be sent to it.
FailsSilently(x) == Becomes(x, [x EXCEPT !.stage = "over"]) /\ UNCHANGED <<browser, request>>
Fails(x) ==
  Forwards(x, [x EXCEPT !.stage = "over", !.told = "failed"], [x EXCEPT !.stage = "over"])
StreamFails(x) ==
  /\ x.stage # "over" /\ Fails(x)
  /\ IF Reaches(x) \/ x.stage = "bearer" THEN UsesRegistry ELSE UNCHANGED rvars
  /\ UNCHANGED <<sessionRest, rpcs>>

\* An event of the run, the last one or not.
StreamEvent(x, last) ==
  /\ x.stage = "open" /\ BridgeHolds /\ x.events < MaxEvents
  /\ LET y == IF last THEN [x EXCEPT !.stage = "over"] ELSE x
     IN Forwards(x, [y EXCEPT !.events = @ + 1, !.told = IF last THEN "terminal" ELSE @], y)
  /\ UsesRegistry
  /\ UNCHANGED <<sessionRest, rpcs>>

\* An event after the binding has changed cancels the stream: neither the
\* event nor a failure is sent, for the stream is finished.
StreamCanceled(x) ==
  /\ x.stage = "open" /\ ~BridgeHolds
  /\ Becomes(x, [x EXCEPT !.stage = "over"])
  /\ UsesRegistry
  /\ UNCHANGED <<svars, rpcs>>

----------------------------------------------------------------------------
HostInit == SessionInit /\ rpcs = {} /\ streams = {}

RpcNext ==
  \/ \E k \in 0..secret \cup {Native}, w \in Scopes, op \in Ops : RpcArrives(k, w, op)
  \/ \E c \in rpcs : RpcBodyEnds(c) \/ RpcGoesOn(c) \/ RpcEnds(c)

StreamNext ==
  \/ \E s \in sockets : StreamSubscribes(s) \/ StreamUnsubscribes(s)
  \/ \E x \in streams : \/ StreamGoesOn(x) \/ StreamFails(x) \/ StreamCanceled(x)
                        \/ \E last \in BOOLEAN : StreamEvent(x, last)

\* The session's own steps; a socket that is gone takes its stream along.
SessionStep ==
  /\ SessionNext
  /\ streams' = {x \in streams : \E s \in sockets' : s.n = x.socket}
  /\ UNCHANGED rpcs

HostSystemNext == RpcNext \/ StreamNext \/ SessionStep

HostSpec == HostInit /\ [][HostSystemNext]_allvars

----------------------------------------------------------------------------
(* Properties *)

\* An effect leaves for the owner only under the binding the bridge was made
\* for and, if the browser asked for it, in the workspace and the pairing it
\* was asked in: not after a logout, a rotation, a rebind or a drift,
\* noticed or not ("immediately before any run-create/control POST", 307).
Dispatches(c) == c.stage = "bearer" /\ After(c) \in rpcs'
InLease(c) ==
  BridgeHolds /\ (c.caller # Native => c.caller = secret /\ c.ws = scope /\ ~aborted)
\* And no success is answered from a registration or a pairing that has been
\* revoked while the owner was answering (396-398).
Succeeds(c) == c.stage # "ok" /\ After(c) \in rpcs' /\ After(c).stage = "ok"
EffectInLease ==
  /\ []HostTypeOK
  /\ [][\A c \in rpcs : Dispatches(c) \/ Succeeds(c) => InLease(c)]_allvars

\* An event reaches a page only over an open socket of the present pairing,
\* in its workspace and while everything is still approved (237, 316-330), and
\* the page is told at least of every stream that ends while the session is
\* active and the binding the bridge was made for holds (259, 268-273).
StreamInLease ==
  [][\A x \in streams, y \in streams' : y.socket = x.socket =>
       /\ y.events > x.events =>
            /\ Active /\ x.ws = scope
            /\ \E s \in sockets : s.n = x.socket /\ s.open /\ s.cookie = secret
       /\ x.stage # "over" /\ y.stage = "over" /\ y.told = "live" =>
            ~(Active /\ BridgeHolds /\ x.ws = scope /\ OpenSocket(x.socket))]_allvars
=============================================================================
