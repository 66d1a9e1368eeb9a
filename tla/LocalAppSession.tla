-------------------------- MODULE LocalAppSession --------------------------
(***************************************************************************)
(* LocalApplicationSession (apps/gateway/src/local-app-session.ts): the    *)
(* browser session of the local application.  A trusted host shows a       *)
(* one-time pairing code; the browser that redeems it gets a cookie for    *)
(* one workspace of one approved system; the browser may ask the host for  *)
(* another workspace, and the host answers by rotating the session.        *)
(*                                                                         *)
(* The bodies of POST /pair and POST /workspace-request are read in an     *)
(* await: between the first checks and the last ones any other request,    *)
(* the host, the clock and the disk may come in.                           *)
(*                                                                         *)
(* The code and the cookie value change together: both are the number of   *)
(* the rotation that made them, `secret`.                                  *)
(***************************************************************************)
EXTENDS SystemRegistry

CONSTANTS
  Sys, Root,             \* the system and its root when the session is made
  Workspaces, Operator,  \* named workspaces; the personal one
  Folders, NoFolder,     \* identities of workspace directories; none usable
  MaxPairAttempts,       \* 5 in the code
  MaxWorkspaceRequests,  \* 5 in the code
  RegistryMoves,         \* FALSE: nobody else uses the registry or its disk
  MaxRotations, MaxInFlight, MaxSockets  \* bounds

ASSUME SessionAssumption ==
  /\ Sys \in Ids /\ Root \in Roots
  /\ Operator \notin Workspaces /\ NoFolder \notin Folders
  /\ MaxPairAttempts \in Nat /\ MaxWorkspaceRequests \in Nat
  /\ RegistryMoves \in BOOLEAN
  /\ MaxRotations \in Nat /\ MaxInFlight \in Nat /\ MaxSockets \in Nat

VARIABLES
  folder,    \* what is at each workspace's directory
  scope, scopeIdentity,   \* the workspace of the session, and its directory
  secret,    \* pairing and sessionToken
  codeOld,   \* the code is older than PAIR_TTL
  attempts, used,
  lease, aborted,         \* sessionAbort: its number, and whether it aborted
  until,     \* sessionsUntil: none, live or over
  timer, timers,          \* expiryTimer: the lease it was set for, 0 for none;
                          \* the timers that are running
  request, requestCount,
  sockets,   \* the browser's sockets, those being closed included
  bodies,    \* POST requests whose body is being read
  asked, pairings, granted  \* what the host was shown, which codes were
                            \* redeemed and what was approved

svars == <<folder, scope, scopeIdentity, secret, codeOld, attempts, used, lease, aborted,
           until, timer, timers, request, requestCount, sockets, bodies, asked, pairings, granted>>
workspace == <<scope, scopeIdentity>>
code == <<secret, codeOld, attempts, used>>
effects == <<lease, aborted, until, timer, timers>>
browser == <<effects, sockets>>
history == <<asked, pairings, granted>>
registryRest == <<disk, compatible, byRoot, generations, serial, counter, leases>>

Scopes == Workspaces \cup {Operator}
Secrets == 0..MaxRotations
WrongCode == MaxRotations + 1

Ask == [id : Nat, secret : Nat, ws : Scopes, identity : Folders \cup {NoFolder}]
Request == [id : Nat, ws : Scopes, identity : Folders \cup {NoFolder},
            state : {"none", "pending", "denied"}, old : BOOLEAN]
NoRequest == [id |-> 0, ws |-> Operator, identity |-> NoFolder,
              state |-> "none", old |-> FALSE]
Body == [n : Nat, kind : {"pair", "ask"}, secret : Nat, ws : Scopes]
Socket == [n : Nat, cookie : Nat, open : BOOLEAN]

SessionTypeOK ==
  /\ folder \in [Workspaces -> Folders \cup {NoFolder}]
  /\ scope \in Scopes /\ scopeIdentity \in Folders \cup {NoFolder}
  /\ scope = Operator <=> scopeIdentity = NoFolder
  /\ secret \in Nat /\ codeOld \in BOOLEAN /\ attempts \in Nat /\ used \in BOOLEAN
  /\ lease \in Nat /\ aborted \in BOOLEAN
  /\ until \in {"none", "live", "over"} /\ timer \in Nat /\ timers \in SUBSET Nat
  /\ request \in Request /\ requestCount \in Nat
  /\ sockets \in SUBSET Socket /\ bodies \in SUBSET Body
  /\ asked \in SUBSET Ask /\ pairings \in SUBSET [secret : Nat, lease : Nat]
  /\ granted \in Nat

----------------------------------------------------------------------------
(* Helpers *)

OwnerLease == CHOOSE l \in leases : l.id = Sys

\* captureWorkspaceIdentity(): none for the operator, else what getWorkspace
\* finds now; it needs the system.
Capturable(w) == IF w = Operator THEN TRUE ELSE Resolves(Sys) /\ folder[w] # NoFolder
Captured(w) == IF w = Operator THEN NoFolder ELSE folder[w]

\* ownerStillApproved(): the binding and the workspace directory captured
\* when the session was made or rotated.
OwnerStillApproved ==
  /\ Holds(OwnerLease)
  /\ Capturable(scope) /\ Captured(scope) = scopeIdentity

\* active() and isSession(), isAuthorizedBrowser(): the origin is exact.
Active == OwnerStillApproved /\ until = "live"
Authorized(cookie) == Active /\ cookie = secret

\* Every check uses the registry, which may find a drift.
UsesRegistry == byId' = AfterUse(Sys) /\ UNCHANGED registryRest

\* revoke(): the effect lease, the cookie, the request, the timer, the
\* tracked sockets.
AbortLease == aborted' = TRUE
ClearTimer == timer' = 0 /\ timers' = timers \ {timer}
CloseSockets == sockets' = {[s EXCEPT !.open = FALSE] : s \in sockets}
Revoke ==
  /\ AbortLease /\ ClearTimer /\ CloseSockets
  /\ until' = "none" /\ request' = NoRequest
  /\ UNCHANGED lease

NoTimer == UNCHANGED <<timer, timers>>
StartTimer == timer' = lease + 1 /\ timers' = timers \cup {lease + 1}

Pending == request.state = "pending" /\ ~request.old

\* What is checked before a body is read, and again after it.
PairAdmitted == ~used /\ attempts < MaxPairAttempts /\ ~codeOld
AskAdmitted(cookie) ==
  Authorized(cookie) /\ requestCount < MaxWorkspaceRequests /\ ~Pending

Unused(n, s) == \A x \in s : x.n # n
Free(s) == CHOOSE n \in 1..1 + Cardinality(s) : Unused(n, s)
Reads(kind, k, w) ==
  /\ Cardinality(bodies) < MaxInFlight
  /\ bodies' = bodies \cup {[n |-> Free(bodies), kind |-> kind, secret |-> k, ws |-> w]}

----------------------------------------------------------------------------
(* Requests of the browser *)

\* POST /pair up to its body, with the code the host has shown, an earlier
\* one, or a wrong one.
PairArrives(k) ==
  /\ OwnerStillApproved /\ PairAdmitted
  /\ Reads("pair", k, Operator)
  /\ UsesRegistry
  /\ UNCHANGED <<folder, workspace, code, browser, request, requestCount, history>>

\* POST /pair after its body.
PairReadmittedUsed == attempts < MaxPairAttempts /\ ~codeOld
PairReadmitted == PairAdmitted
PairEnds(b) ==
  /\ b.kind = "pair" /\ bodies' = bodies \ {b}
  /\ UsesRegistry
  /\ \/ /\ ~OwnerStillApproved /\ Revoke
        /\ UNCHANGED <<code, pairings>>
     \/ /\ OwnerStillApproved /\ ~PairReadmitted
        /\ UNCHANGED <<code, browser, request, pairings>>
     \/ /\ OwnerStillApproved /\ PairReadmitted
        /\ attempts' = attempts + 1
        /\ IF b.secret = secret
           THEN /\ used' = TRUE
                /\ lease' = lease + 1 /\ aborted' = FALSE
                /\ until' = "live" /\ StartTimer
                /\ pairings' = pairings \cup {[secret |-> secret, lease |-> lease']}
           ELSE UNCHANGED <<used, effects, pairings>>
        /\ UNCHANGED <<secret, codeOld, request, sockets>>
  /\ UNCHANGED <<folder, workspace, requestCount, asked, granted>>

\* POST /workspace-request up to its body.
AskArrives(cookie, w) ==
  /\ AskAdmitted(cookie)
  /\ Reads("ask", cookie, w)
  /\ UsesRegistry
  /\ UNCHANGED <<folder, workspace, code, browser, request, requestCount, history>>

\* POST /workspace-request after its body: the host is shown the request,
\* which is dropped again when the host's listener fails.
AskReadmittedPending(cookie) == Authorized(cookie) /\ requestCount < MaxWorkspaceRequests
AskReadmitted(cookie) == AskAdmitted(cookie)
AskEnds(b) ==
  /\ b.kind = "ask" /\ bodies' = bodies \ {b}
  /\ UsesRegistry
  /\ LET known == AskReadmitted(b.secret) /\ b.ws # scope /\ Capturable(b.ws)
         id == 1 + Cardinality(asked)
     IN \/ /\ ~OwnerStillApproved /\ Revoke
           /\ UNCHANGED <<requestCount, asked>>
        \/ /\ OwnerStillApproved /\ ~known
           /\ UNCHANGED <<browser, request, requestCount, asked>>
        \/ /\ OwnerStillApproved /\ known
           /\ requestCount' = requestCount + 1
           /\ asked' = asked \cup {[id |-> id, secret |-> b.secret, ws |-> b.ws,
                                    identity |-> Captured(b.ws)]}
           /\ request' \in {NoRequest, [id |-> id, ws |-> b.ws, identity |-> Captured(b.ws),
                                        state |-> "pending", old |-> FALSE]}
           /\ UNCHANGED browser
  /\ UNCHANGED <<folder, workspace, code, pairings, granted>>

\* A body that is too long, or whose connection breaks.
BodyFails(b) ==
  /\ bodies' = bodies \ {b}
  /\ UNCHANGED <<rvars, folder, workspace, code, browser, request, requestCount, history>>

\* POST /logout.
Logout(cookie) ==
  /\ Authorized(cookie)
  /\ Revoke /\ UsesRegistry
  /\ UNCHANGED <<folder, workspace, code, requestCount, bodies, history>>

\* The upgrade of a socket, tracked at once.
SocketOpens(cookie) ==
  /\ Authorized(cookie) /\ UsesRegistry
  /\ Cardinality(sockets) < MaxSockets
  /\ sockets' = sockets \cup {[n |-> Free(sockets), cookie |-> cookie, open |-> TRUE]}
  /\ UNCHANGED <<folder, workspace, code, effects, request, requestCount, bodies, history>>

SocketCloses(s) ==
  /\ sockets' = sockets \ {s}
  /\ UNCHANGED <<rvars, folder, workspace, code, effects, request, requestCount,
                 bodies, history>>

\* Any request or frame that finds the approval withdrawn.
FindsStale ==
  /\ ~OwnerStillApproved
  /\ Revoke /\ UsesRegistry
  /\ UNCHANGED <<folder, workspace, code, requestCount, bodies, history>>

----------------------------------------------------------------------------
(* The trusted host *)

\* rotateWorkspaceFromHost(): everything is validated before the old session
\* is revoked; both secrets change.
Rotate(w) ==
  /\ secret < MaxRotations
  /\ OwnerStillApproved /\ Capturable(w)
  /\ Revoke /\ UsesRegistry
  /\ scope' = w /\ scopeIdentity' = Captured(w)
  /\ secret' = secret + 1
  /\ codeOld' = FALSE /\ attempts' = 0 /\ used' = FALSE /\ requestCount' = 0
  /\ UNCHANGED <<folder, bodies, asked, pairings>>

HostRotates(w) == Rotate(w) /\ granted' = 0

\* approveWorkspaceRequest(): of a request the host was shown, if its
\* directory is still the one that was shown.
AnyDirectory(a) == TRUE
SameDirectory(a) == Captured(request.ws) = request.identity
HostApproves(a) ==
  /\ Pending /\ request.id = a.id
  /\ SameDirectory(a)
  /\ Rotate(request.ws) /\ granted' = a.id

HostDenies(a) ==
  /\ Pending /\ request.id = a.id
  /\ request' = [request EXCEPT !.state = "denied"]
  /\ UNCHANGED <<rvars, folder, workspace, code, browser, requestCount, bodies, history>>

----------------------------------------------------------------------------
(* The clock and the disk *)

CodeExpires ==
  /\ ~codeOld /\ codeOld' = TRUE
  /\ UNCHANGED <<rvars, folder, workspace, secret, attempts, used, browser, request,
                 requestCount, bodies, history>>

RequestExpires ==
  /\ Pending /\ request' = [request EXCEPT !.old = TRUE]
  /\ UNCHANGED <<rvars, folder, workspace, code, browser, requestCount, bodies, history>>

SessionExpires ==
  /\ until = "live" /\ until' = "over"
  /\ UNCHANGED <<rvars, folder, workspace, code, lease, aborted, timer, timers, sockets,
                 request, requestCount, bodies, history>>

TimerFires ==
  /\ \E t \in timers : t = lease => until = "over"
  /\ Revoke
  /\ UNCHANGED <<rvars, folder, workspace, code, requestCount, bodies, history>>

FolderChanges(w, f) ==
  /\ folder[w] # f /\ folder' = [folder EXCEPT ![w] = f]
  /\ UNCHANGED <<rvars, workspace, code, browser, request, requestCount, bodies, history>>

----------------------------------------------------------------------------
\* The system has been approved and the session made, in the host's choice
\* of workspace.
SessionInit ==
  /\ disk \in [Roots -> Objects] /\ compatible = Objects
  /\ byId = [id \in Ids |-> IF id = Sys THEN Approved(Root) ELSE NoRecord]
  /\ byRoot = [r \in Roots |-> IF r = Root THEN Sys ELSE NoId]
  /\ generations = [id \in Ids |-> IF id = Sys THEN 1 ELSE 0]
  /\ serial = 1 /\ counter = 0
  /\ leases = {[id |-> Sys, root |-> Root, generation |-> 1, identity |-> disk[Root]]}
  /\ folder \in [Workspaces -> Folders]
  /\ scope \in Scopes /\ scopeIdentity = Captured(scope)
  /\ secret = 0 /\ codeOld = FALSE /\ attempts = 0 /\ used = FALSE
  /\ lease = 0 /\ aborted = FALSE /\ until = "none" /\ timer = 0 /\ timers = {}
  /\ request = NoRequest /\ requestCount = 0
  /\ sockets = {} /\ bodies = {}
  /\ asked = {} /\ pairings = {} /\ granted = 0

BrowserNext ==
  \/ \E k \in {i \in Secrets : i <= secret} \cup {WrongCode} :
       \/ PairArrives(k) \/ Logout(k) \/ SocketOpens(k)
       \/ \E w \in Scopes : AskArrives(k, w)
  \/ \E b \in bodies : PairEnds(b) \/ AskEnds(b) \/ BodyFails(b)
  \/ \E s \in sockets : SocketCloses(s)
  \/ FindsStale

OperatorNext ==
  \/ \E w \in Scopes : HostRotates(w)
  \/ \E a \in asked : HostApproves(a) \/ HostDenies(a)

ClockNext == CodeExpires \/ RequestExpires \/ SessionExpires \/ TimerFires

\* The registry's other users: the holders of leases are fixed here.
OtherNext ==
  \/ /\ RegistryMoves
     /\ \/ \E id \in Ids, r \in Roots : Rebind(id, r)
        \/ \E id \in Ids : ResolveRoot(id) \/ Revalidate(id)
        \/ DiskNext
     /\ UNCHANGED svars
  \/ \E w \in Workspaces, f \in Folders \cup {NoFolder} : FolderChanges(w, f)

SessionNext == BrowserNext \/ OperatorNext \/ ClockNext \/ OtherNext

SessionSpec == SessionInit /\ [][SessionNext]_<<rvars, svars>>

\* A timer that is set fires.
FairSessionSpec == SessionSpec /\ WF_<<rvars, svars>>(TimerFires)
=============================================================================
