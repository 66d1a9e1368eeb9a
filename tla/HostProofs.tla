----------------------------- MODULE HostProofs -----------------------------
(***************************************************************************)
(* For any system, workspaces, number of attempts, requests, sockets and   *)
(* calls: what LocalApplicationSession does with a pairing code, a cookie  *)
(* and a request for a workspace, and what it promises its page; that no   *)
(* effect, success or event passes the host outside its lease; and, for    *)
(* any systems, roots, nesting of the roots and bounds, that the indices   *)
(* of SystemRegistry stay consistent, approved roots stay apart, and a     *)
(* lease reaches the directory approved when it was captured, or nothing.  *)
(***************************************************************************)
EXTENDS GatewayHost, LocalAppSessionProps, FiniteSetTheorems, TLAPS

----------------------------------------------------------------------------
(* The inductive invariant of the session *)

\* What Free numbers and what Cardinality counts is finite.
SetsFinite == IsFiniteSet(sockets) /\ IsFiniteSet(bodies) /\ IsFiniteSet(asked)

\* A code is redeemed once: the pairings are of codes shown so far, of the
\* current one only when it is used, and a session comes from it.
CodesWell ==
  /\ secret <= MaxRotations /\ attempts <= MaxPairAttempts
  /\ \A p, q \in pairings : p.secret = q.secret => p = q
  /\ \A p \in pairings : p.secret <= secret /\ (p.secret = secret => used)
  /\ until # "none" => used /\ [secret |-> secret, lease |-> lease] \in pairings /\ ~aborted

\* The one timer that runs is the session's, and so are the open sockets.
EndsWell ==
  /\ IF until = "none" THEN timers = {} ELSE timer = lease /\ timers = {lease}
  /\ \A s \in sockets : s.open => s.cookie = secret /\ until # "none"

\* The requests of the current code.
AskedNow == {a \in asked : a.secret = secret}

\* Requests are numbered, and counted by requestCount and the rotations.
AsksWell ==
  /\ \A a \in asked : a.id \in 1..Cardinality(asked) /\ a.secret <= secret
  /\ \A a, b \in asked : a.id = b.id => a = b
  /\ requestCount <= MaxWorkspaceRequests
  /\ Cardinality(AskedNow) <= requestCount
  /\ Cardinality(asked) <= secret * MaxWorkspaceRequests + requestCount

\* The request is one that was asked under the current code; what was granted
\* is what the host was shown.
GrantsWell ==
  /\ request.state # "none" =>
       \E a \in asked : a.id = request.id /\ a.secret = secret
                        /\ a.ws = request.ws /\ a.identity = request.identity
  /\ request.state = "none" => request = NoRequest
  /\ granted # 0 =>
       \E a \in asked : a.id = granted /\ a.ws = scope /\ a.identity = scopeIdentity

SessionInv == SessionTypeOK /\ SetsFinite /\ CodesWell /\ EndsWell /\ AsksWell /\ GrantsWell

----------------------------------------------------------------------------
(* Lemmas about the helpers *)

\* Among the first 1 + Cardinality(s) numbers one is free, so a call, a body or
\* a socket always gets a number no other has.
LEMMA FreeIsUnused ==
  ASSUME NEW s, IsFiniteSet(s)
  PROVE  Free(s) \in Nat \ {0} /\ Unused(Free(s), s)
<1> DEFINE N == 1..1 + Cardinality(s)
<1>1. Cardinality(s) \in Nat /\ IsFiniteSet(N) /\ Cardinality(N) = 1 + Cardinality(s)
  <2>1. Cardinality(s) \in Nat
    BY FS_CardinalityType
  <2>2. 1 \in Int /\ 1 + Cardinality(s) \in Int /\ 1 <= 1 + Cardinality(s)
    BY <2>1
  <2> QED
    BY <2>1, <2>2, FS_Interval
<1>2. \E n \in N : Unused(n, s)
  <2> SUFFICES ASSUME \A n \in N : \E x \in s : x.n = n PROVE FALSE
    BY DEF Unused
  <2> DEFINE f == [n \in N |-> CHOOSE x \in s : x.n = n]
  <2>1. \A n \in N : f[n] \in s /\ f[n].n = n
    OBVIOUS
  <2>2. f \in [N -> s]
    BY <2>1
  <2>3. PICK m, n \in N : m # n /\ f[m] = f[n]
    <3> HIDE DEF f, N
    <3> QED
      BY <1>1, <2>2, FS_PigeonHole
  <2> QED
    BY <2>1, <2>3
<1>3. Free(s) \in N /\ Unused(Free(s), s)
  BY <1>2 DEF Free
<1> QED
  BY <1>1, <1>3

\* The directory captured of a workspace is one, or none for the operator.
LEMMA CapturedIsWell ==
  ASSUME SessionTypeOK, NEW w \in Scopes, Capturable(w)
  PROVE  /\ Captured(w) \in Folders \cup {NoFolder}
         /\ w = Operator <=> Captured(w) = NoFolder
  BY SessionAssumption DEF SessionTypeOK, Capturable, Captured, Scopes

\* No request is well typed, and reported as none.
LEMMA NoRequestIsWell == NoRequest \in Request /\ NoRequest.state = "none"
  BY SessionAssumption DEF NoRequest, Request, Scopes

----------------------------------------------------------------------------
(* What keeps the invariant *)

LEMMA SessionInitially == SessionInit => SessionInv
<1> SUFFICES ASSUME SessionInit PROVE SessionInv
  OBVIOUS
<1>1. SessionTypeOK
  <2>1. scope \in Scopes /\ scopeIdentity \in Folders \cup {NoFolder}
        /\ (scope = Operator <=> scopeIdentity = NoFolder)
        /\ folder \in [Workspaces -> Folders \cup {NoFolder}]
    BY SessionAssumption DEF SessionInit, Captured, Scopes
  <2> QED
    BY <2>1, NoRequestIsWell DEF SessionInit, SessionTypeOK
<1>2. SetsFinite /\ Cardinality(asked) = 0 /\ Cardinality(AskedNow) = 0
  <2>1. AskedNow = {}
    BY DEF SessionInit, AskedNow
  <2> QED
    BY <2>1, FS_EmptySet DEF SessionInit, SetsFinite
<1>3. CodesWell /\ EndsWell /\ GrantsWell
  BY SessionAssumption, NoRequestIsWell DEF SessionInit, CodesWell, EndsWell, GrantsWell
<1>4. AsksWell
  BY <1>2, SessionAssumption DEF SessionInit, AsksWell
<1> QED
  BY <1>1, <1>2, <1>3, <1>4 DEF SessionInv

\* A step that only reads, or starts or ends the read of a body, or changes the
\* directories of workspaces.
LEMMA QuietKeeps ==
  ASSUME SessionInv, UNCHANGED <<workspace, code, browser, request, requestCount, history>>,
         folder' \in [Workspaces -> Folders \cup {NoFolder}],
         bodies' \in SUBSET Body, IsFiniteSet(bodies')
  PROVE  SessionInv'
<1> USE DEF SessionInv, workspace, code, browser, effects, history
<1>1. SessionTypeOK' /\ SetsFinite'
  BY DEF SessionTypeOK, SetsFinite
<1>2. CodesWell' /\ EndsWell' /\ GrantsWell'
  BY DEF CodesWell, EndsWell, GrantsWell
<1>3. AsksWell'
  BY DEF AsksWell, AskedNow
<1> QED
  BY <1>1, <1>2, <1>3

\* The sockets that a revocation closes stay until their close is seen.
LEMMA SocketsAreClosed ==
  ASSUME SessionInv, CloseSockets
  PROVE  sockets' \in SUBSET Socket /\ IsFiniteSet(sockets') /\ \A s \in sockets' : ~s.open
<1> DEFINE close == [s \in sockets |-> [s EXCEPT !.open = FALSE]]
<1>1. close \in Surjection(sockets, sockets')
  BY DEF CloseSockets, Surjection
<1>2. IsFiniteSet(sockets')
  <2> HIDE DEF close
  <2> QED
    BY <1>1, FS_Surjection DEF SessionInv, SetsFinite
<1> QED
  BY <1>2 DEF SessionInv, SessionTypeOK, Socket, CloseSockets

\* The end of a session, whatever brings it about.
LEMMA RevokeKeeps ==
  ASSUME SessionInv, Revoke, UNCHANGED <<folder, workspace, code, requestCount, history>>,
         bodies' \in SUBSET bodies
  PROVE  SessionInv'
<1> USE DEF SessionInv, workspace, code, history
<1>1. /\ aborted' = TRUE /\ timer' = 0 /\ timers' = timers \ {timer} /\ until' = "none"
      /\ request' = NoRequest /\ lease' = lease
      /\ sockets' = {[s EXCEPT !.open = FALSE] : s \in sockets}
  BY DEF Revoke, AbortLease, ClearTimer, CloseSockets
<1>2. sockets' \in SUBSET Socket /\ IsFiniteSet(sockets') /\ \A s \in sockets' : ~s.open
  BY SocketsAreClosed DEF Revoke, Rotate
<1>3. SetsFinite'
  BY <1>2, FS_Subset DEF SetsFinite
<1>4. SessionTypeOK'
  BY <1>1, <1>2, NoRequestIsWell DEF SessionTypeOK
<1>5. CodesWell' /\ EndsWell' /\ GrantsWell'
  BY <1>1, <1>2, NoRequestIsWell DEF CodesWell, EndsWell, GrantsWell
<1>6. AsksWell'
  BY DEF AsksWell, AskedNow
<1> QED
  BY <1>3, <1>4, <1>5, <1>6

\* The redemption of the current code, once: the timer of the session before
\* is none, so the new session's is the only one.
LEMMA PairingKeeps ==
  ASSUME SessionInv, NEW b \in bodies, PairEnds(b)
  PROVE  SessionInv'
<1> USE DEF SessionInv
<1>0. bodies' \in SUBSET bodies
  BY DEF PairEnds
<1>1. CASE Revoke /\ UNCHANGED <<code, pairings>>
  BY <1>0, <1>1, RevokeKeeps DEF PairEnds, history
<1>2. CASE UNCHANGED <<code, browser, request, pairings>>
  <2>1. bodies' \in SUBSET Body /\ IsFiniteSet(bodies')
    BY <1>0, FS_Subset DEF SessionTypeOK, SetsFinite
  <2>2. folder' \in [Workspaces -> Folders \cup {NoFolder}]
    BY DEF PairEnds, SessionTypeOK
  <2> QED
    BY <1>2, <2>1, <2>2, QuietKeeps DEF PairEnds, history
<1>3. CASE /\ PairReadmitted /\ attempts' = attempts + 1
           /\ IF b.secret = secret
              THEN /\ used' = TRUE
                   /\ lease' = lease + 1 /\ aborted' = FALSE
                   /\ until' = "live" /\ StartTimer
                   /\ pairings' = pairings \cup {[secret |-> secret, lease |-> lease']}
              ELSE UNCHANGED <<used, effects, pairings>>
           /\ UNCHANGED <<secret, codeOld, request, sockets>>
  <2>0. UNCHANGED <<folder, workspace, requestCount, asked, granted>>
    BY DEF PairEnds
  <2>1. SetsFinite' /\ AsksWell' /\ GrantsWell'
    BY <1>0, <1>3, <2>0, FS_Subset
    DEF SetsFinite, AsksWell, AskedNow, GrantsWell, workspace
  <2>2. attempts' <= MaxPairAttempts
    BY <1>3, SessionAssumption DEF PairReadmitted, PairAdmitted, SessionTypeOK
  <2>3. CASE b.secret = secret
    <3>1. until = "none" /\ timers = {} /\ \A p \in pairings : p.secret < secret
      BY <1>3 DEF PairReadmitted, PairAdmitted, CodesWell, EndsWell, SessionTypeOK
    <3>2. SessionTypeOK'
      <4>0. bodies' \in SUBSET Body /\ lease \in Nat /\ attempts \in Nat
        BY <1>0 DEF SessionTypeOK
      <4> DEFINE n == lease + 1
      <4>1. n \in Nat /\ attempts' \in Nat /\ lease' = n /\ timer' = n /\ timers' = {n}
        BY <4>0, <1>3, <2>3, <3>1 DEF StartTimer
      <4>2. pairings' \in SUBSET [secret : Nat, lease : Nat]
        BY <1>3, <2>3, <4>1 DEF SessionTypeOK
      <4> HIDE DEF n
      <4>3. sockets' = sockets /\ secret' = secret /\ codeOld' = codeOld /\ request' = request
        BY <1>3
      <4> QED
        BY <1>3, <2>0, <2>3, <4>0, <4>1, <4>2, <4>3 DEF SessionTypeOK, workspace
    <3>3. CodesWell' /\ EndsWell'
      BY <1>3, <2>2, <2>3, <3>1 DEF CodesWell, EndsWell, StartTimer, SessionTypeOK
    <3> QED
      BY <2>1, <3>2, <3>3
  <2>4. CASE b.secret # secret
    <3>1. UNCHANGED <<secret, codeOld, used, effects, request, sockets, pairings>>
      BY <1>3, <2>4
    <3>2. SessionTypeOK'
      BY <1>0, <1>3, <2>0, <3>1 DEF SessionTypeOK, workspace, effects
    <3>3. CodesWell' /\ EndsWell'
      BY <2>2, <3>1 DEF CodesWell, EndsWell, effects
    <3> QED
      BY <2>1, <3>2, <3>3
  <2> QED
    BY <2>3, <2>4
<1> QED
  BY <1>1, <1>2, <1>3 DEF PairEnds

\* A request that is shown to the host: the next number, one more of this code.
LEMMA AskingKeeps ==
  ASSUME SessionInv, NEW b \in bodies, AskEnds(b)
  PROVE  SessionInv'
<1> USE DEF SessionInv
<1>0. bodies' \in SUBSET bodies /\ UNCHANGED <<folder, workspace, code, pairings, granted>>
  BY DEF AskEnds
<1>1. CASE Revoke /\ UNCHANGED <<requestCount, asked>>
  BY <1>0, <1>1, RevokeKeeps DEF history
<1>2. CASE UNCHANGED <<browser, request, requestCount, asked>>
  <2>1. bodies' \in SUBSET Body /\ IsFiniteSet(bodies')
    BY <1>0, FS_Subset DEF SessionTypeOK, SetsFinite
  <2>2. folder' \in [Workspaces -> Folders \cup {NoFolder}]
    BY <1>0 DEF SessionTypeOK
  <2> QED
    BY <1>0, <1>2, <2>1, <2>2, QuietKeeps DEF history
<1> DEFINE id == 1 + Cardinality(asked)
           a == [id |-> id, secret |-> b.secret, ws |-> b.ws, identity |-> Captured(b.ws)]
<1>3. CASE /\ AskReadmitted(b.secret) /\ Capturable(b.ws)
           /\ requestCount' = requestCount + 1
           /\ asked' = asked \cup {a}
           /\ request' \in {NoRequest, [id |-> id, ws |-> b.ws, identity |-> Captured(b.ws),
                                        state |-> "pending", old |-> FALSE]}
           /\ UNCHANGED browser
  <2>1. b.secret = secret /\ requestCount < MaxWorkspaceRequests
    BY <1>3 DEF AskReadmitted, AskAdmitted, Authorized
  <2>2. Cardinality(asked) \in Nat /\ id \in Nat \ {0}
    BY FS_CardinalityType DEF SetsFinite
  <2>3. b \in Body /\ Captured(b.ws) \in Folders \cup {NoFolder}
    BY <1>3, CapturedIsWell DEF SessionTypeOK, Body
  <2>4. a \in Ask /\ a \notin asked /\ a.id = id /\ a.secret = secret /\ a.ws = b.ws
        /\ a.identity = Captured(b.ws)
    BY <2>1, <2>2, <2>3 DEF Ask, Body, AsksWell
  <2> DEFINE r == [id |-> id, ws |-> b.ws, identity |-> Captured(b.ws),
                   state |-> "pending", old |-> FALSE]
  <2>5. request' = NoRequest \/ /\ request' \in Request /\ request'.state = "pending"
                                /\ request'.id = id /\ request'.ws = b.ws
                                /\ request'.identity = Captured(b.ws)
    <3>1. /\ r \in Request /\ r.state = "pending" /\ r.id = id /\ r.ws = b.ws
          /\ r.identity = Captured(b.ws)
      BY <2>2, <2>3 DEF Request, Body
    <3>2. request' = NoRequest \/ request' = r
      BY <1>3
    <3> HIDE DEF r
    <3> QED
      BY <3>1, <3>2
  <2> HIDE DEF a
  <2>6. IsFiniteSet(asked') /\ Cardinality(asked') = Cardinality(asked) + 1
    BY <1>3, <2>4, FS_AddElement DEF SetsFinite
  <2>7. AskedNow' = AskedNow \cup {a} /\ a \notin AskedNow
    BY <1>0, <1>3, <2>4 DEF AskedNow, code
  <2>8. Cardinality(AskedNow') <= requestCount + 1
    <3>1. IsFiniteSet(AskedNow)
      BY FS_Subset DEF SetsFinite, AskedNow
    <3>2. Cardinality(AskedNow') = Cardinality(AskedNow) + 1 /\ Cardinality(AskedNow) \in Nat
      BY <2>7, <3>1, FS_AddElement, FS_CardinalityType
    <3> QED
      BY <3>2 DEF AsksWell, SessionTypeOK
  <2>9. SetsFinite'
    BY <1>0, <1>3, <2>6, FS_Subset DEF SetsFinite, browser
  <2>10. SessionTypeOK'
    BY <1>0, <1>3, <2>2, <2>4, <2>5, NoRequestIsWell
    DEF SessionTypeOK, workspace, code, browser, effects
  <2>11. CodesWell' /\ EndsWell'
    BY <1>0, <1>3 DEF CodesWell, EndsWell, code, browser, effects
  <2>12. AsksWell'
    <3>1. \A x \in asked' : x.id \in 1..Cardinality(asked') /\ x.secret <= secret'
      BY <1>0, <1>3, <2>2, <2>4, <2>6 DEF AsksWell, SessionTypeOK, code
    <3>2. \A x, y \in asked' : x.id = y.id => x = y
      BY <1>3, <2>2, <2>4 DEF AsksWell
    <3>3. Cardinality(asked') <= secret' * MaxWorkspaceRequests + requestCount'
      <4> DEFINE k == secret * MaxWorkspaceRequests
      <4>1. k \in Nat /\ secret' = secret
        BY <1>0, SessionAssumption DEF SessionTypeOK, code
      <4>2. Cardinality(asked) <= k + requestCount
        BY DEF AsksWell
      <4> HIDE DEF k
      <4>3. Cardinality(asked) + 1 <= k + (requestCount + 1)
        BY <2>2, <4>1, <4>2 DEF SessionTypeOK
      <4> QED
        BY <1>3, <2>6, <4>1, <4>3 DEF k
    <3>4. requestCount' <= MaxWorkspaceRequests
      BY <1>3, <2>1, SessionAssumption DEF SessionTypeOK
    <3> QED
      BY <1>3, <2>8, <3>1, <3>2, <3>3, <3>4 DEF AsksWell
  <2>13. GrantsWell'
    <3>1. request'.state # "none" =>
            /\ a \in asked' /\ a.id = request'.id /\ a.secret = secret'
            /\ a.ws = request'.ws /\ a.identity = request'.identity
      BY <1>0, <1>3, <2>4, <2>5, NoRequestIsWell DEF code
    <3>2. request'.state = "none" => request' = NoRequest
      BY <2>5
    <3> QED
      BY <1>0, <1>3, <3>1, <3>2 DEF GrantsWell, workspace
  <2> QED
    BY <2>9, <2>10, <2>11, <2>12, <2>13
<1> QED
  BY <1>1, <1>2, <1>3 DEF AskEnds

\* A socket opens under the cookie of the session, or closes.
LEMMA SocketsKeep ==
  ASSUME SessionInv, sockets' \in SUBSET Socket, IsFiniteSet(sockets'),
         \A s \in sockets' \ sockets : s.open => s.cookie = secret /\ until # "none",
         UNCHANGED <<folder, workspace, code, effects, request, requestCount, bodies, history>>
  PROVE  SessionInv'
<1> USE DEF SessionInv, workspace, code, effects, history
<1>1. SessionTypeOK' /\ SetsFinite'
  BY DEF SessionTypeOK, SetsFinite
<1>2. CodesWell' /\ EndsWell' /\ GrantsWell'
  BY DEF CodesWell, EndsWell, GrantsWell
<1>3. AsksWell'
  BY DEF AsksWell, AskedNow
<1> QED
  BY <1>1, <1>2, <1>3

LEMMA SocketOpensKeeps ==
  ASSUME SessionInv, NEW k \in Nat, SocketOpens(k)
  PROVE  SessionInv'
<1> DEFINE s == [n |-> Free(sockets), cookie |-> k, open |-> TRUE]
<1>1. IsFiniteSet(sockets) /\ sockets \in SUBSET Socket
  BY DEF SessionInv, SetsFinite, SessionTypeOK
<1>2. s \in Socket /\ s.cookie = k
  BY <1>1, FreeIsUnused DEF Socket
<1>3. sockets' = sockets \cup {s} /\ k = secret /\ until # "none"
  BY DEF SocketOpens, Authorized, Active
<1> HIDE DEF s
<1>4. IsFiniteSet(sockets')
  BY <1>1, <1>3, FS_AddElement
<1> QED
  BY <1>1, <1>2, <1>3, <1>4, SocketsKeep DEF SocketOpens

\* The host selects a workspace: no request and no pairing is of the new code.
LEMMA RotateKeeps ==
  ASSUME SessionInv, NEW w \in Scopes, Rotate(w), granted' \in Nat,
         granted' # 0 =>
           \E a \in asked : a.id = granted' /\ a.ws = w /\ a.identity = Captured(w)
  PROVE  SessionInv'
<1> USE DEF SessionInv
<1>1. /\ aborted' = TRUE /\ timer' = 0 /\ timers' = timers \ {timer} /\ until' = "none"
      /\ request' = NoRequest /\ lease' = lease
      /\ sockets' = {[s EXCEPT !.open = FALSE] : s \in sockets}
      /\ scope' = w /\ scopeIdentity' = Captured(w) /\ Capturable(w)
      /\ secret' = secret + 1 /\ secret < MaxRotations
      /\ codeOld' = FALSE /\ attempts' = 0 /\ used' = FALSE /\ requestCount' = 0
      /\ UNCHANGED <<folder, bodies, asked, pairings>>
  BY DEF Rotate, Revoke, AbortLease, ClearTimer, CloseSockets
<1>2. sockets' \in SUBSET Socket /\ IsFiniteSet(sockets') /\ \A s \in sockets' : ~s.open
  BY SocketsAreClosed DEF Revoke, Rotate
<1>3. SetsFinite'
  BY <1>1, <1>2 DEF SetsFinite
<1>4. SessionTypeOK'
  <2>1. /\ scope' \in Scopes /\ scopeIdentity' \in Folders \cup {NoFolder}
        /\ (scope = Operator <=> scopeIdentity = NoFolder)'
    BY <1>1, CapturedIsWell
  <2>2. /\ codeOld' \in BOOLEAN /\ used' \in BOOLEAN /\ aborted' \in BOOLEAN
        /\ until' \in {"none", "live", "over"}
    BY <1>1
  <2>3. /\ secret' \in Nat /\ attempts' \in Nat /\ lease' \in Nat
        /\ timer' \in Nat /\ requestCount' \in Nat
    BY <1>1 DEF SessionTypeOK
  <2>4. timers' \in SUBSET Nat
    BY <1>1 DEF SessionTypeOK
  <2> QED
    BY <1>1, <1>2, <2>1, <2>2, <2>3, <2>4, NoRequestIsWell DEF SessionTypeOK
<1>5. CodesWell' /\ EndsWell' /\ GrantsWell'
  BY <1>1, <1>2, NoRequestIsWell, SessionAssumption
  DEF CodesWell, EndsWell, GrantsWell, SessionTypeOK
<1>6. AsksWell'
  <2>1. AskedNow' = {} /\ Cardinality(AskedNow') = 0
    <3>1. \A a \in asked : a.secret <= secret /\ a.secret \in Nat /\ secret \in Nat
      BY DEF AsksWell, SessionTypeOK, Ask
    <3>2. \A a \in asked : a.secret # secret + 1
      BY <3>1
    <3>3. AskedNow' = {}
      BY <1>1, <3>2 DEF AskedNow
    <3> QED
      BY <3>3, FS_EmptySet
  <2>2. Cardinality(asked') <= secret' * MaxWorkspaceRequests + requestCount'
    <3>1. Cardinality(asked) \in Nat
      BY FS_CardinalityType DEF SetsFinite
    <3> DEFINE k == secret * MaxWorkspaceRequests
    <3>2. k \in Nat /\ (secret + 1) * MaxWorkspaceRequests = k + MaxWorkspaceRequests
      BY SessionAssumption DEF SessionTypeOK
    <3>3. Cardinality(asked) <= k + requestCount /\ requestCount <= MaxWorkspaceRequests
      BY DEF AsksWell
    <3> HIDE DEF k
    <3>4. Cardinality(asked) <= k + MaxWorkspaceRequests + 0
      BY <3>1, <3>2, <3>3, SessionAssumption DEF SessionTypeOK
    <3> QED
      BY <1>1, <3>2, <3>4
  <2> QED
    BY <1>1, <2>1, <2>2, SessionAssumption DEF AsksWell, SessionTypeOK, Ask
<1> QED
  BY <1>3, <1>4, <1>5, <1>6

\* An approval: the request's number names what the host was shown.
LEMMA ApprovalKeeps ==
  ASSUME SessionInv, NEW a \in asked, HostApproves(a)
  PROVE  SessionInv'
<1>1. request.id = a.id /\ request.state # "none" /\ Captured(request.ws) = request.identity
  BY DEF HostApproves, Pending, SameDirectory
<1>2. a.ws = request.ws /\ a.identity = request.identity /\ a.ws \in Scopes /\ a.id \in Nat
  BY <1>1 DEF SessionInv, GrantsWell, AsksWell, SessionTypeOK, Ask
<1> QED
  BY <1>1, <1>2, RotateKeeps DEF HostApproves

\* The request is answered, or expires; the code or the session gets old.
LEMMA AgesKeep ==
  ASSUME SessionInv,
         request' \in Request, request'.id = request.id, request'.ws = request.ws,
         request'.identity = request.identity,
         request' = request \/ (request.state # "none" /\ request'.state # "none"),
         codeOld' \in BOOLEAN, until' = until \/ (until = "live" /\ until' = "over"),
         UNCHANGED <<folder, workspace, secret, attempts, used, lease, aborted, timer, timers,
                     sockets, requestCount, bodies, history>>
  PROVE  SessionInv'
<1> USE DEF SessionInv, workspace, history
<1>1. SessionTypeOK' /\ SetsFinite'
  BY DEF SessionTypeOK, SetsFinite
<1>2. CodesWell' /\ EndsWell' /\ GrantsWell'
  BY DEF CodesWell, EndsWell, GrantsWell
<1>3. AsksWell'
  BY DEF AsksWell, AskedNow
<1> QED
  BY <1>1, <1>2, <1>3

LEMMA SessionStepKeeps == SessionInv /\ [SessionNext]_<<rvars, svars>> => SessionInv'
<1> SUFFICES ASSUME SessionInv, [SessionNext]_<<rvars, svars>> PROVE SessionInv'
  OBVIOUS
<1>1. /\ folder \in [Workspaces -> Folders \cup {NoFolder}] /\ bodies \in SUBSET Body
      /\ IsFiniteSet(bodies) /\ IsFiniteSet(sockets) /\ sockets \in SUBSET Socket
      /\ request \in Request /\ secret \in Nat /\ codeOld \in BOOLEAN
  BY DEF SessionInv, SessionTypeOK, SetsFinite
<1>2. ASSUME NEW kind \in {"pair", "ask"}, NEW k \in Nat, NEW w \in Scopes, Reads(kind, k, w)
      PROVE  bodies' \in SUBSET Body /\ IsFiniteSet(bodies')
  <2> DEFINE b == [n |-> Free(bodies), kind |-> kind, secret |-> k, ws |-> w]
  <2>1. b \in Body
    BY <1>1, FreeIsUnused DEF Body
  <2> HIDE DEF b
  <2> QED
    BY <1>1, <1>2, <2>1, FS_AddElement DEF Reads, b
<1>3. CASE BrowserNext
  <2>1. ASSUME NEW k \in {i \in Secrets : i <= secret} \cup {WrongCode}
        PROVE  /\ k \in Nat /\ Operator \in Scopes
               /\ (PairArrives(k) => SessionInv') /\ (Logout(k) => SessionInv')
               /\ (SocketOpens(k) => SessionInv')
               /\ \A w \in Scopes : AskArrives(k, w) => SessionInv'
    <3>1. k \in Nat /\ Operator \in Scopes
      BY SessionAssumption DEF Secrets, WrongCode, Scopes
    <3>2. ASSUME PairArrives(k) PROVE SessionInv'
      BY <1>1, <1>2, <3>1, <3>2, QuietKeeps DEF PairArrives
    <3>3. ASSUME Logout(k) PROVE SessionInv'
      BY <3>3, RevokeKeeps DEF Logout
    <3>4. ASSUME SocketOpens(k) PROVE SessionInv'
      BY <3>1, <3>4, SocketOpensKeeps
    <3>5. ASSUME NEW w \in Scopes, AskArrives(k, w) PROVE SessionInv'
      BY <1>1, <1>2, <3>1, <3>5, QuietKeeps DEF AskArrives
    <3> QED
      BY <3>1, <3>2, <3>3, <3>4, <3>5
  <2>2. ASSUME NEW b \in bodies, PairEnds(b) PROVE SessionInv'
    BY <2>2, PairingKeeps
  <2>3. ASSUME NEW b \in bodies, AskEnds(b) PROVE SessionInv'
    BY <2>3, AskingKeeps
  <2>4. ASSUME NEW b \in bodies, BodyFails(b) PROVE SessionInv'
    BY <1>1, <2>4, FS_RemoveElement, QuietKeeps DEF BodyFails
  <2>5. ASSUME NEW s \in sockets, SocketCloses(s) PROVE SessionInv'
    BY <1>1, <2>5, FS_RemoveElement, SocketsKeep DEF SocketCloses
  <2>6. ASSUME FindsStale PROVE SessionInv'
    BY <2>6, RevokeKeeps DEF FindsStale
  <2> QED
    BY <1>3, <2>1, <2>2, <2>3, <2>4, <2>5, <2>6 DEF BrowserNext
<1>4. CASE OperatorNext
  <2>1. ASSUME NEW w \in Scopes, HostRotates(w) PROVE SessionInv'
    BY <2>1, RotateKeeps DEF HostRotates
  <2>2. ASSUME NEW a \in asked, HostApproves(a) PROVE SessionInv'
    BY <2>2, ApprovalKeeps
  <2>3. ASSUME NEW a \in asked, HostDenies(a) PROVE SessionInv'
    <3>1. /\ request' \in Request /\ request'.id = request.id /\ request'.ws = request.ws
          /\ request'.identity = request.identity
          /\ request.state # "none" /\ request'.state # "none"
      BY <1>1, <2>3 DEF HostDenies, Pending, Request
    <3> QED
      BY <1>1, <2>3, <3>1, AgesKeep DEF HostDenies, browser, effects, code
  <2> QED
    BY <1>4, <2>1, <2>2, <2>3 DEF OperatorNext
<1>5. CASE ClockNext
  <2>1. ASSUME CodeExpires PROVE SessionInv'
    <3>1. /\ UNCHANGED <<folder, workspace, secret, attempts, used, lease, aborted, timer, timers,
                         sockets, requestCount, bodies, history>>
          /\ UNCHANGED <<request, until>> /\ codeOld' = TRUE
      BY <2>1 DEF CodeExpires, browser, effects
    <3>2. codeOld' \in BOOLEAN
      BY <3>1
    <3>3. /\ request' \in Request /\ request' = request /\ until' = until
          /\ request'.id = request.id /\ request'.ws = request.ws
          /\ request'.identity = request.identity
      BY <1>1, <3>1
    <3> QED
      BY <3>1, <3>2, <3>3, AgesKeep
  <2>2. ASSUME RequestExpires PROVE SessionInv'
    <3>1. /\ request' \in Request /\ request'.id = request.id /\ request'.ws = request.ws
          /\ request'.identity = request.identity
          /\ request.state # "none" /\ request'.state # "none"
      BY <1>1, <2>2 DEF RequestExpires, Pending, Request
    <3>2. /\ UNCHANGED <<folder, workspace, secret, attempts, used, lease, aborted, timer, timers,
                         sockets, requestCount, bodies, history>>
          /\ UNCHANGED <<codeOld, until>>
      BY <2>2 DEF RequestExpires, browser, effects, code
    <3>3. codeOld' \in BOOLEAN
      BY <1>1, <3>2
    <3> QED
      BY <3>1, <3>2, <3>3, AgesKeep
  <2>3. ASSUME SessionExpires PROVE SessionInv'
    <3>1. /\ UNCHANGED <<folder, workspace, secret, attempts, used, lease, aborted, timer, timers,
                         sockets, requestCount, bodies, history>>
          /\ UNCHANGED <<codeOld, request>> /\ until = "live" /\ until' = "over"
      BY <2>3 DEF SessionExpires, code
    <3>2. codeOld' \in BOOLEAN
      BY <1>1, <3>1
    <3>3. /\ request' \in Request /\ request' = request
          /\ request'.id = request.id /\ request'.ws = request.ws
          /\ request'.identity = request.identity
      BY <1>1, <3>1
    <3> QED
      BY <3>1, <3>2, <3>3, AgesKeep
  <2>4. ASSUME TimerFires PROVE SessionInv'
    BY <2>4, RevokeKeeps DEF TimerFires
  <2> QED
    BY <1>5, <2>1, <2>2, <2>3, <2>4 DEF ClockNext
<1>6. CASE OtherNext \/ UNCHANGED <<rvars, svars>>
  <2>1. UNCHANGED <<workspace, code, browser, request, requestCount, bodies, history>>
    BY <1>6 DEF OtherNext, FolderChanges, svars, workspace, code, browser, effects, history
  <2>2. folder' \in [Workspaces -> Folders \cup {NoFolder}]
    BY <1>1, <1>6 DEF OtherNext, FolderChanges, svars
  <2> QED
    BY <1>1, <2>1, <2>2, QuietKeeps
<1> QED
  BY <1>3, <1>4, <1>5, <1>6 DEF SessionNext

\* SessionInv is an invariant of the session.
LEMMA SessionInvariant == SessionSpec => []SessionInv
  BY SessionInitially, SessionStepKeeps, PTL DEF SessionSpec

----------------------------------------------------------------------------
(* Theorems about the session *)

\* One code makes one session and is compared a bounded number of times; the
\* session that has not ended is of the current code, exactly its own timer
\* runs and only its own sockets are open (186, 199-201, 394-415).
THEOREM PairingHasItsEffects == SessionSpec => []EffectsOfPairing
<1>1. SessionInv => EffectsOfPairing
  BY DEF SessionInv, CodesWell, EndsWell, EffectsOfPairing
<1> QED
  BY <1>1, SessionInvariant, PTL

\* The host approves what it was shown: the workspace, in the directory it
\* had then, of a request of this pairing (126-137, 334-345).
THEOREM GrantIsShown == SessionSpec => []GrantIsWhatWasShown
<1>1. ASSUME SessionInv PROVE GrantIsWhatWasShown
  <2>1. IsFiniteSet(AskedNow) /\ Cardinality(AskedNow) \in Nat
    BY <1>1, FS_Subset, FS_CardinalityType DEF SessionInv, SetsFinite, AskedNow
  <2>2. Cardinality(AskedNow) <= MaxWorkspaceRequests
    BY <1>1, <2>1, SessionAssumption DEF SessionInv, AsksWell, SessionTypeOK
  <2> QED
    BY <1>1, <2>2 DEF SessionInv, GrantsWell, GrantIsWhatWasShown, AskedNow
<1>2. SessionInv => GrantIsWhatWasShown
  BY <1>1
<1> QED
  BY <1>2, SessionInvariant, PTL

----------------------------------------------------------------------------
(* The session implements AppHost *)

\* What GET /workspace-request reports, as AppHost has it.
Reported == [id |-> request.id, state |-> ReportedState(request)]

\* A request is pending for the page exactly when the host may approve it.
LEMMA PendingIsReported ==
  ASSUME SessionInv
  PROVE  /\ Reported.state = "pending" <=> Pending
         /\ Reported.state \in {"none", "pending", "denied", "expired"}
  BY DEF Reported, ReportedState, Pending, SessionInv, SessionTypeOK, Request

\* No request is reported as AppHost's.
LEMMA NoRequestIsReported == request = NoRequest => Reported = AH!NoHostRequest
  BY DEF Reported, ReportedState, NoRequest, AH!NoHostRequest

LEMMA AppHostInitially == SessionInit => AH!AppHostInit
<1> SUFFICES ASSUME SessionInit PROVE AH!AppHostInit
  OBVIOUS
<1>1. Reported = AH!NoHostRequest
  BY NoRequestIsReported DEF SessionInit
<1>2. Cardinality(asked) = 0
  BY FS_EmptySet DEF SessionInit
<1> QED
  BY <1>1, <1>2 DEF SessionInit, AH!AppHostInit, Reported

\* Where the mapped state stays, AppHost stutters.
LEMMA StutterOfAppHost ==
  ASSUME UNCHANGED <<scope, secret, used, until, request, asked>>
  PROVE  UNCHANGED AH!apphost
  BY DEF AH!apphost, ReportedState

\* An end of the session is an end for the page.
LEMMA EndOfAppHost ==
  ASSUME Revoke, UNCHANGED <<scope, secret, used, asked>>
  PROVE  AH!HostEnds
<1>1. until' = "none" /\ request' = NoRequest
  BY DEF Revoke
<1>2. Reported' = AH!NoHostRequest
  BY <1>1, NoRequestIsReported DEF Reported, NoRequest, ReportedState, AH!NoHostRequest
<1> QED
  BY <1>1, <1>2 DEF AH!HostEnds, Reported

\* The redemption of a code.
LEMMA PairingOfAppHost ==
  ASSUME SessionInv, NEW b \in bodies, PairEnds(b)
  PROVE  AH!AppHostNext \/ UNCHANGED AH!apphost
<1>0. UNCHANGED <<scope, asked>>
  BY DEF PairEnds, workspace
<1>1. CASE Revoke /\ UNCHANGED <<code, pairings>>
  BY <1>0, <1>1, EndOfAppHost DEF code, AH!AppHostNext
<1>2. CASE UNCHANGED <<secret, used, until, request>>
  BY <1>0, <1>2, StutterOfAppHost
<1>3. CASE /\ PairReadmitted /\ used' = TRUE /\ until' = "live"
           /\ UNCHANGED <<secret, request>>
  <2>1. AH!HostPairs
    BY <1>0, <1>3 DEF AH!HostPairs, PairReadmitted, PairAdmitted, ReportedState
  <2> QED
    BY <2>1 DEF AH!AppHostNext
<1> QED
  BY <1>1, <1>2, <1>3 DEF PairEnds, code, browser, effects

\* A request shown to the host: one of at most AppHost's number of requests.
LEMMA AskingOfAppHost ==
  ASSUME SessionInv, NEW b \in bodies, AskEnds(b)
  PROVE  AH!AppHostNext \/ UNCHANGED AH!apphost
<1>0. UNCHANGED <<scope, secret, used>>
  BY DEF AskEnds, workspace, code
<1>1. CASE Revoke /\ UNCHANGED <<requestCount, asked>>
  BY <1>0, <1>1, EndOfAppHost DEF AH!AppHostNext
<1>2. CASE UNCHANGED <<browser, request, requestCount, asked>>
  BY <1>0, <1>2, StutterOfAppHost DEF browser, effects
<1> DEFINE id == 1 + Cardinality(asked)
           a == [id |-> id, secret |-> b.secret, ws |-> b.ws, identity |-> Captured(b.ws)]
           r == [id |-> id, ws |-> b.ws, identity |-> Captured(b.ws),
                 state |-> "pending", old |-> FALSE]
<1>3. CASE /\ AskReadmitted(b.secret)
           /\ asked' = asked \cup {a}
           /\ request' \in {NoRequest, r}
           /\ UNCHANGED browser
  <2>1. /\ until = "live" /\ until' = until /\ ~Pending
        /\ requestCount < MaxWorkspaceRequests
    BY <1>3 DEF AskReadmitted, AskAdmitted, Authorized, Active, browser, effects
  <2>2. Cardinality(asked) \in Nat /\ Cardinality(asked') = Cardinality(asked) + 1
    <3>1. IsFiniteSet(asked) /\ Cardinality(asked) \in Nat
      BY FS_CardinalityType DEF SessionInv, SetsFinite
    <3>2. a \notin asked
      BY <3>1 DEF SessionInv, AsksWell
    <3> HIDE DEF a
    <3> QED
      BY <1>3, <3>1, <3>2, FS_AddElement
  <2>3. Cardinality(asked) < (MaxRotations + 1) * MaxWorkspaceRequests
    <3> DEFINE M == MaxWorkspaceRequests
               k == secret * M
               m == MaxRotations * M
    <3>1. /\ secret \in Nat /\ M \in Nat /\ MaxRotations \in Nat /\ secret <= MaxRotations
          /\ requestCount \in Nat
      BY SessionAssumption DEF SessionInv, SessionTypeOK, CodesWell
    <3>2. k \in Nat /\ m \in Nat /\ k <= m /\ (MaxRotations + 1) * M = m + M
      BY <3>1
    <3>3. Cardinality(asked) <= k + requestCount
      BY DEF SessionInv, AsksWell
    <3> HIDE DEF k, m
    <3> QED
      BY <2>1, <2>2, <3>1, <3>2, <3>3
  <2>4. Reported' \in {AH!NoHostRequest, [id |-> Cardinality(asked) + 1, state |-> "pending"]}
    <3>1. CASE request' = NoRequest
      BY <3>1 DEF Reported, NoRequest, ReportedState, AH!NoHostRequest
    <3>2. CASE request' = r
      <4>1. r.id = Cardinality(asked) + 1 /\ ReportedState(r) = "pending"
        BY <2>2 DEF ReportedState
      <4> HIDE DEF r
      <4> QED
        BY <3>2, <4>1 DEF Reported
    <3> QED
      BY <1>3, <3>1, <3>2
  <2>5. ~AH!HostPending
    BY <2>1, PendingIsReported DEF AH!HostPending, Reported
  <2>6. AH!HostIsAsked
    BY <1>0, <2>1, <2>2, <2>3, <2>4, <2>5 DEF AH!HostIsAsked, Reported
  <2> QED
    BY <2>6 DEF AH!AppHostNext
<1> QED
  BY <1>1, <1>2, <1>3 DEF AskEnds

\* A selection of the host, or an approval.
LEMMA RotationOfAppHost ==
  ASSUME SessionInv, NEW w \in Scopes, Rotate(w)
  PROVE  AH!AppHostNext
<1>1. /\ secret < MaxRotations /\ secret' = secret + 1 /\ scope' = w /\ used' = FALSE
      /\ until' = "none" /\ request' = NoRequest /\ asked' = asked
  BY DEF Rotate, Revoke
<1>2. Reported' = AH!NoHostRequest
  BY <1>1 DEF Reported, NoRequest, ReportedState, AH!NoHostRequest
<1>3. AH!HostSelects(w)
  BY <1>1, <1>2 DEF AH!HostSelects, Reported
<1> QED
  BY <1>3 DEF AH!AppHostNext

\* A request that is denied or gets old is left by the host.
LEMMA LeavingOfAppHost ==
  ASSUME SessionInv, Pending, NEW state \in {"denied", "expired"},
         request'.id = request.id, ReportedState(request') = state,
         UNCHANGED <<scope, secret, used, until, asked>>
  PROVE  AH!AppHostNext
<1>1. Reported = [id |-> request.id, state |-> "pending"]
  BY DEF Reported, ReportedState, Pending
<1>2. Reported' = [id |-> request.id, state |-> state]
  BY DEF Reported
<1>3. AH!HostLeaves(state)
  BY <1>1, <1>2 DEF AH!HostLeaves, AH!HostPending, Reported
<1> QED
  BY <1>3 DEF AH!AppHostNext

LEMMA AppHostStep ==
  SessionInv /\ [SessionNext]_<<rvars, svars>> => [AH!AppHostNext]_AH!apphost
<1> SUFFICES ASSUME SessionInv, [SessionNext]_<<rvars, svars>>
             PROVE  AH!AppHostNext \/ UNCHANGED AH!apphost
  OBVIOUS
<1>1. CASE BrowserNext
  <2>1. ASSUME NEW k, \/ PairArrives(k) \/ SocketOpens(k)
                      \/ \E w \in Scopes : AskArrives(k, w)
        PROVE  UNCHANGED AH!apphost
    <3>1. UNCHANGED <<scope, secret, used, until, request, asked>>
      BY <2>1 DEF PairArrives, SocketOpens, AskArrives, workspace, code, browser, effects, history
    <3> QED
      BY <3>1, StutterOfAppHost
  <2>2. ASSUME NEW k, Logout(k) PROVE AH!AppHostNext
    BY <2>2, EndOfAppHost DEF Logout, workspace, code, history, AH!AppHostNext
  <2>3. ASSUME NEW b \in bodies, BodyFails(b) PROVE UNCHANGED AH!apphost
    BY <2>3, StutterOfAppHost DEF BodyFails, workspace, code, browser, effects, history
  <2>4. ASSUME NEW s \in sockets, SocketCloses(s) PROVE UNCHANGED AH!apphost
    BY <2>4, StutterOfAppHost DEF SocketCloses, workspace, code, effects, history
  <2>5. ASSUME FindsStale PROVE AH!AppHostNext
    BY <2>5, EndOfAppHost DEF FindsStale, workspace, code, history, AH!AppHostNext
  <2> QED
    BY <1>1, <2>1, <2>2, <2>3, <2>4, <2>5, PairingOfAppHost, AskingOfAppHost DEF BrowserNext
<1>2. CASE OperatorNext
  <2>1. ASSUME NEW a \in asked, HostApproves(a) PROVE AH!AppHostNext
    <3>1. request.ws \in Scopes
      BY DEF SessionInv, SessionTypeOK, Request
    <3> QED
      BY <2>1, <3>1, RotationOfAppHost DEF HostApproves
  <2>2. ASSUME NEW a \in asked, HostDenies(a) PROVE AH!AppHostNext
    <3>1. /\ Pending /\ request'.id = request.id /\ ReportedState(request') = "denied"
          /\ UNCHANGED <<scope, secret, used, until, asked>>
      BY <2>2 DEF HostDenies, ReportedState, SessionInv, SessionTypeOK, Request,
         workspace, code, browser, effects, history
    <3> QED
      BY <3>1, LeavingOfAppHost
  <2> QED
    BY <1>2, <2>1, <2>2, RotationOfAppHost DEF OperatorNext, HostRotates
<1>3. CASE ClockNext
  <2>1. ASSUME CodeExpires PROVE UNCHANGED AH!apphost
    BY <2>1, StutterOfAppHost DEF CodeExpires, workspace, browser, effects, history
  <2>2. ASSUME RequestExpires PROVE AH!AppHostNext
    <3>1. /\ Pending /\ request'.id = request.id /\ ReportedState(request') = "expired"
          /\ UNCHANGED <<scope, secret, used, until, asked>>
      BY <2>2 DEF RequestExpires, Pending, ReportedState, SessionInv, SessionTypeOK, Request,
         workspace, code, browser, effects, history
    <3> QED
      BY <3>1, LeavingOfAppHost
  <2>3. ASSUME SessionExpires PROVE AH!AppHostNext
    <3>1. until = "live" /\ until' = "over" /\ UNCHANGED <<scope, secret, used, request, asked>>
      BY <2>3 DEF SessionExpires, workspace, code, history
    <3>2. AH!HostEnds
      BY <3>1 DEF AH!HostEnds, ReportedState
    <3> QED
      BY <3>2 DEF AH!AppHostNext
  <2>4. ASSUME TimerFires PROVE AH!AppHostNext
    BY <2>4, EndOfAppHost DEF TimerFires, workspace, code, history, AH!AppHostNext
  <2> QED
    BY <1>3, <2>1, <2>2, <2>3, <2>4 DEF ClockNext
<1>4. CASE OtherNext \/ UNCHANGED <<rvars, svars>>
  <2>1. UNCHANGED <<scope, secret, used, until, request, asked>>
    BY <1>4 DEF OtherNext, FolderChanges, svars, workspace, code, browser, effects, history
  <2> QED
    BY <2>1, StutterOfAppHost
<1> QED
  BY <1>1, <1>2, <1>3, <1>4 DEF SessionNext

\* Seen by the page, the session is AppHost: one session at a time, from one
\* redemption of each code, one request at a time, an end for good (289-434).
\* LocalAppPage is checked against AppHost, so it may rely on this.
THEOREM SessionImplementsAppHost == SessionSpec => ImplementsAppHost
<1>1. SessionInit => AH!AppHostInit
  BY AppHostInitially
<1>2. SessionInv /\ [SessionNext]_<<rvars, svars>> => [AH!AppHostNext]_AH!apphost
  BY AppHostStep
<1> QED
  BY <1>1, <1>2, SessionInvariant, PTL DEF SessionSpec, ImplementsAppHost, AH!AppHostSpec

----------------------------------------------------------------------------
(* The host: calls and event streams *)

\* A call is at one of the awaits of its operation; a browser's call, once
\* admitted, carries a lease that is live only for its own pairing and scope.
CallWell(c) ==
  /\ \E i \in DOMAIN Awaits(c.op) : c.stage = Awaits(c.op)[i]
  /\ c.caller # Native /\ c.stage # "body" =>
       /\ c.lease <= lease
       /\ c.lease = lease /\ ~aborted => c.caller = secret /\ c.ws = scope
CallsWell == IsFiniteSet(rpcs) /\ \A c \in rpcs : CallWell(c)

HostInv == SessionInv /\ HostTypeOK /\ CallsWell

\* The awaits of an operation are passed one by one, to the answer.
LEMMA AfterIsNext ==
  ASSUME NEW c \in Rpc, c.stage # "ok",
         \E i \in DOMAIN Awaits(c.op) : c.stage = Awaits(c.op)[i]
  PROVE  \E s \in Stages :
           /\ After(c) = [c EXCEPT !.stage = s] /\ s # c.stage /\ s # "body"
           /\ \E i \in DOMAIN Awaits(c.op) : s = Awaits(c.op)[i]
           /\ s = "ok" => <<c.op, c.stage>> \in {<<"get", "read">>} \cup (Ops \X {"sent"})
<1> DEFINE A == Awaits(c.op)
           i == CHOOSE i \in DOMAIN A : A[i] = c.stage
<1>1. c.op \in Ops /\ c.stage \in Stages
  BY DEF Rpc
<1>2. i \in DOMAIN A /\ A[i] = c.stage
  OBVIOUS
<1>3. CASE c.op = "get"
  <2>1. A = <<"body", "read", "ok">>
    BY <1>3 DEF Awaits
  <2>2. DOMAIN A = 1..3 /\ A[1] = "body" /\ A[2] = "read" /\ A[3] = "ok"
    BY <2>1
  <2>3. \/ i = 1 /\ c.stage = "body" /\ A[i + 1] = "read" /\ i + 1 \in DOMAIN A
        \/ i = 2 /\ c.stage = "read" /\ A[i + 1] = "ok" /\ i + 1 \in DOMAIN A
    <3> HIDE DEF i, A
    <3> QED
      BY <1>2, <2>2
  <2>4. After(c) = [c EXCEPT !.stage = A[i + 1]]
    BY DEF After
  <2> HIDE DEF i, A
  <2> QED
    BY <1>3, <2>3, <2>4 DEF Stages, A
<1>4. CASE c.op \in {"create", "control"}
  <2>1. A = <<"body", "read", "bearer", "sent", "ok">>
    BY <1>4 DEF Awaits
  <2>2. DOMAIN A = 1..5 /\ A[1] = "body" /\ A[2] = "read" /\ A[3] = "bearer" /\ A[4] = "sent"
        /\ A[5] = "ok"
    BY <2>1
  <2>3. \/ i = 1 /\ c.stage = "body" /\ A[i + 1] = "read" /\ i + 1 \in DOMAIN A
        \/ i = 2 /\ c.stage = "read" /\ A[i + 1] = "bearer" /\ i + 1 \in DOMAIN A
        \/ i = 3 /\ c.stage = "bearer" /\ A[i + 1] = "sent" /\ i + 1 \in DOMAIN A
        \/ i = 4 /\ c.stage = "sent" /\ A[i + 1] = "ok" /\ i + 1 \in DOMAIN A
    <3> HIDE DEF i, A
    <3> QED
      BY <1>2, <2>2
  <2>4. After(c) = [c EXCEPT !.stage = A[i + 1]]
    BY DEF After
  <2> HIDE DEF i, A
  <2> QED
    BY <1>1, <2>3, <2>4 DEF Stages, A
<1>5. CASE c.op = "approval"
  <2>1. A = <<"body", "read", "admit", "reread", "bearer", "sent", "ok">>
    BY <1>5 DEF Awaits
  <2>2. DOMAIN A = 1..7 /\ A[1] = "body" /\ A[2] = "read" /\ A[3] = "admit" /\ A[4] = "reread"
        /\ A[5] = "bearer" /\ A[6] = "sent" /\ A[7] = "ok"
    BY <2>1
  <2>3. \/ i = 1 /\ c.stage = "body" /\ A[i + 1] = "read" /\ i + 1 \in DOMAIN A
        \/ i = 2 /\ c.stage = "read" /\ A[i + 1] = "admit" /\ i + 1 \in DOMAIN A
        \/ i = 3 /\ c.stage = "admit" /\ A[i + 1] = "reread" /\ i + 1 \in DOMAIN A
        \/ i = 4 /\ c.stage = "reread" /\ A[i + 1] = "bearer" /\ i + 1 \in DOMAIN A
        \/ i = 5 /\ c.stage = "bearer" /\ A[i + 1] = "sent" /\ i + 1 \in DOMAIN A
        \/ i = 6 /\ c.stage = "sent" /\ A[i + 1] = "ok" /\ i + 1 \in DOMAIN A
    <3> HIDE DEF i, A
    <3> QED
      BY <1>2, <2>2
  <2>4. After(c) = [c EXCEPT !.stage = A[i + 1]]
    BY DEF After
  <2> HIDE DEF i, A
  <2> QED
    BY <1>1, <2>3, <2>4 DEF Stages, A
<1> QED
  BY <1>1, <1>3, <1>4, <1>5 DEF Ops

\* What every step does to the session: it is kept well, and a lease that has
\* ended stays so, as does the scope and code of one that has not.
LeaseKept ==
  /\ lease' \in Nat /\ lease' >= lease
  /\ lease' = lease /\ ~aborted' => ~aborted /\ secret' = secret /\ scope' = scope

LEMMA LeaseOfRevoke ==
  ASSUME SessionInv, Revoke
  PROVE  LeaseKept
  BY DEF Revoke, AbortLease, LeaseKept, SessionInv, SessionTypeOK

LEMMA LeaseOfSession ==
  ASSUME SessionInv, [SessionNext]_<<rvars, svars>>
  PROVE  LeaseKept
<1>0. lease \in Nat /\ lease + 1 > lease
  BY DEF SessionInv, SessionTypeOK
<1>1. CASE UNCHANGED <<lease, aborted, secret, scope>>
  BY <1>0, <1>1 DEF LeaseKept
<1>2. ASSUME NEW b \in bodies, PairEnds(b) PROVE LeaseKept
  <2>1. \/ Revoke
        \/ UNCHANGED <<lease, aborted>> /\ UNCHANGED <<secret, scope>>
        \/ lease' = lease + 1
    BY <1>2 DEF PairEnds, code, browser, effects, workspace
  <2> QED
    BY <1>0, <2>1, LeaseOfRevoke DEF LeaseKept
<1>3. ASSUME NEW b \in bodies, AskEnds(b) PROVE LeaseKept
  <2>1. Revoke \/ UNCHANGED <<lease, aborted, secret, scope>>
    BY <1>3 DEF AskEnds, code, browser, effects, workspace
  <2> QED
    BY <1>1, <2>1, LeaseOfRevoke
<1>4. CASE BrowserNext
  <2>1. ASSUME NEW k, \/ PairArrives(k) \/ SocketOpens(k)
                      \/ \E w \in Scopes : AskArrives(k, w)
        PROVE  LeaseKept
    BY <1>1, <2>1 DEF PairArrives, SocketOpens, AskArrives, code, browser, effects, workspace
  <2>2. ASSUME NEW b \in bodies, BodyFails(b) PROVE LeaseKept
    BY <1>1, <2>2 DEF BodyFails, code, browser, effects, workspace
  <2>3. ASSUME NEW s \in sockets, SocketCloses(s) PROVE LeaseKept
    BY <1>1, <2>3 DEF SocketCloses, code, effects, workspace
  <2>4. ASSUME FindsStale \/ \E k \in Nat \cup {WrongCode} : Logout(k) PROVE LeaseKept
    BY <2>4, LeaseOfRevoke DEF FindsStale, Logout
  <2>5. Secrets \subseteq Nat
    BY SessionAssumption DEF Secrets
  <2> QED
    BY <1>2, <1>3, <1>4, <2>1, <2>2, <2>3, <2>4, <2>5 DEF BrowserNext
<1>5. CASE OperatorNext
  <2>1. ASSUME NEW w, Rotate(w) PROVE LeaseKept
    BY <2>1, LeaseOfRevoke DEF Rotate
  <2>2. ASSUME NEW a \in asked, HostDenies(a) PROVE LeaseKept
    BY <1>1, <2>2 DEF HostDenies, code, browser, effects, workspace
  <2> QED
    BY <1>5, <2>1, <2>2 DEF OperatorNext, HostRotates, HostApproves
<1>6. CASE ClockNext
  <2>1. ASSUME TimerFires PROVE LeaseKept
    BY <2>1, LeaseOfRevoke DEF TimerFires
  <2>2. ASSUME CodeExpires \/ RequestExpires \/ SessionExpires PROVE LeaseKept
    BY <1>1, <2>2 DEF CodeExpires, RequestExpires, SessionExpires, code, browser, effects, workspace
  <2> QED
    BY <1>6, <2>1, <2>2 DEF ClockNext
<1>7. CASE OtherNext \/ UNCHANGED <<rvars, svars>>
  <2>1. UNCHANGED <<lease, aborted, secret, scope>>
    BY <1>7 DEF OtherNext, FolderChanges, svars, workspace, code, browser, effects
  <2> QED
    BY <1>1, <2>1
<1> QED
  BY <1>4, <1>5, <1>6, <1>7 DEF SessionNext

\* A step of the host that notices a withdrawn approval, or nothing.
LEMMA HostTouchesSession ==
  ASSUME SessionInv, Revoke \/ UNCHANGED <<browser, request>>, UNCHANGED sessionRest
  PROVE  SessionInv' /\ LeaseKept /\ \A s \in sockets : \E z \in sockets' : z.n = s.n
<1>1. UNCHANGED <<folder, workspace, code, requestCount, bodies, history>>
  BY DEF sessionRest
<1>2. CASE Revoke
  <2>1. \A s \in sockets : [s EXCEPT !.open = FALSE] \in sockets'
    BY <1>2 DEF Revoke, CloseSockets
  <2>2. \A s \in sockets : [s EXCEPT !.open = FALSE].n = s.n
    BY DEF SessionInv, SessionTypeOK, Socket
  <2> QED
    BY <1>1, <1>2, <2>1, <2>2, RevokeKeeps, LeaseOfRevoke
<1>3. CASE UNCHANGED <<browser, request>>
  <2>1. /\ folder' \in [Workspaces -> Folders \cup {NoFolder}]
        /\ bodies' \in SUBSET Body /\ IsFiniteSet(bodies')
    BY <1>1 DEF SessionInv, SessionTypeOK, SetsFinite
  <2>2. SessionInv'
    BY <1>1, <1>3, <2>1, QuietKeeps
  <2>3. UNCHANGED <<lease, aborted, secret, scope, sockets>>
    BY <1>1, <1>3 DEF browser, effects, code, workspace
  <2> QED
    BY <2>2, <2>3 DEF LeaseKept, SessionInv, SessionTypeOK
<1> QED
  BY <1>2, <1>3

LEMMA HostLeavesSession ==
  ASSUME SessionInv, UNCHANGED svars
  PROVE  SessionInv' /\ LeaseKept /\ \A s \in sockets : \E z \in sockets' : z.n = s.n
<1>1. UNCHANGED <<browser, request>> /\ UNCHANGED sessionRest
  BY DEF svars, browser, effects, sessionRest, workspace, code, history
<1> QED
  BY <1>1, HostTouchesSession

\* A call that is left alone stays well, whatever the session does.
LEMMA CallStays ==
  ASSUME HostInv, LeaseKept, NEW c \in rpcs
  PROVE  CallWell(c)'
  BY DEF HostInv, HostTypeOK, CallsWell, CallWell, LeaseKept, SessionInv, SessionTypeOK, Rpc

\* A call ends, or goes on to its next await under its number.
LEMMA CallChanges ==
  ASSUME HostInv, LeaseKept, NEW c \in rpcs, NEW d \in Rpc, d.n = c.n, CallWell(d)',
         rpcs' \in {rpcs \ {c}, (rpcs \ {c}) \cup {d}}
  PROVE  /\ rpcs' \subseteq Rpc /\ CallsWell'
         /\ \A x, y \in rpcs' : x.n = y.n => x = y
<1>1. rpcs \subseteq Rpc /\ IsFiniteSet(rpcs) /\ \A x, y \in rpcs : x.n = y.n => x = y
  BY DEF HostInv, HostTypeOK, CallsWell
<1>2. IsFiniteSet(rpcs')
  <2>1. IsFiniteSet(rpcs \ {c})
    BY <1>1, FS_RemoveElement
  <2> QED
    BY <2>1, FS_AddElement
<1>3. \A x \in rpcs' : x = d \/ (x \in rpcs /\ x # c)
  OBVIOUS
<1>4. \A x \in rpcs' : CallWell(x)'
  BY <1>3, CallStays
<1> QED
  BY <1>1, <1>2, <1>3, <1>4 DEF CallsWell

LEMMA HostInitially == HostInit => HostInv
<1> SUFFICES ASSUME HostInit PROVE HostInv
  OBVIOUS
<1>1. SessionInv /\ rpcs = {} /\ streams = {}
  BY SessionInitially DEF HostInit
<1> QED
  BY <1>1, FS_EmptySet DEF HostInv, HostTypeOK, CallsWell

\* The streams of sockets that are still there stay well.
LEMMA StreamsStay ==
  ASSUME HostTypeOK, streams' \subseteq streams,
         \A x \in streams' : \E s \in sockets' : s.n = x.socket
  PROVE  /\ streams' \subseteq Stream
         /\ \A x \in streams' : /\ \E s \in sockets' : s.n = x.socket
                                /\ \A y \in streams' : x.socket = y.socket => x = y
  BY DEF HostTypeOK

LEMMA CallsKeep ==
  ASSUME HostInv, RpcNext
  PROVE  HostInv'
<1> USE DEF HostInv
<1>1. rpcs \subseteq Rpc /\ IsFiniteSet(rpcs) /\ streams' = streams
      /\ (\A x, y \in rpcs : x.n = y.n => x = y)
      /\ (\A c \in rpcs : CallWell(c)) /\ HostTypeOK /\ SessionInv
      /\ (\A x \in streams : \E s \in sockets : s.n = x.socket)
  BY DEF HostTypeOK, CallsWell, RpcNext, RpcArrives, RpcBodyEnds, RpcGoesOn, RpcEnds
<1> DEFINE Goal == /\ SessionInv' /\ CallsWell' /\ rpcs' \subseteq Rpc
                   /\ \A x, y \in rpcs' : x.n = y.n => x = y
                   /\ \A s \in sockets : \E z \in sockets' : z.n = s.n
<1>2. ASSUME NEW k \in 0..secret \cup {Native}, NEW w \in Scopes, NEW op \in Ops,
             RpcArrives(k, w, op)
      PROVE  Goal
  <2>0. PICK c : c = [n |-> Free(rpcs), caller |-> k, ws |-> w, op |-> op, lease |-> 0,
                      stage |-> "body"]
    OBVIOUS
  <2>1. SessionInv' /\ LeaseKept /\ \A s \in sockets : \E z \in sockets' : z.n = s.n
    BY <1>2, HostLeavesSession DEF RpcArrives
  <2>2. k \in Nat \cup {Native}
    BY DEF SessionInv, SessionTypeOK
  <2>3. Free(rpcs) \in Nat /\ Unused(Free(rpcs), rpcs)
    BY <1>1, FreeIsUnused
  <2>4. c \in Rpc /\ c.n = Free(rpcs) /\ c.stage = "body" /\ c.op = op
    BY <2>0, <2>2, <2>3 DEF Rpc, Stages
  <2>5. rpcs' = rpcs \cup {c}
    BY <1>2, <2>0 DEF RpcArrives
  <2>6. \E i \in DOMAIN Awaits(op) : "body" = Awaits(op)[i]
    <3>1. 1 \in DOMAIN Awaits(op) /\ Awaits(op)[1] = "body"
      BY DEF Awaits, Ops
    <3> QED
      BY <3>1
  <2>7. CallWell(c)'
    BY <2>4, <2>6 DEF CallWell
  <2>8. \A x \in rpcs' : CallWell(x)'
    BY <2>1, <2>5, <2>7, CallStays
  <2>9. IsFiniteSet(rpcs')
    BY <1>1, <2>5, FS_AddElement
  <2> QED
    BY <1>1, <2>1, <2>3, <2>4, <2>5, <2>8, <2>9 DEF CallsWell, Unused
<1>3. ASSUME NEW c \in rpcs, RpcBodyEnds(c) PROVE Goal
  <2>1. SessionInv' /\ LeaseKept /\ \A s \in sockets : \E z \in sockets' : z.n = s.n
    BY <1>1, <1>3, HostTouchesSession DEF RpcBodyEnds, AsksActive
  <2> DEFINE l == IF c.caller = Native THEN 0 ELSE lease
  <2>0. PICK d : d = [After(c) EXCEPT !.lease = l]
    OBVIOUS
  <2>2. c \in Rpc /\ c.stage = "body" /\ CallWell(c)
    BY <1>1, <1>3 DEF RpcBodyEnds
  <2>3. PICK s \in Stages :
          /\ After(c) = [c EXCEPT !.stage = s] /\ s # "body"
          /\ \E i \in DOMAIN Awaits(c.op) : s = Awaits(c.op)[i]
    BY <2>2, AfterIsNext DEF CallWell
  <2>4. l \in Nat /\ lease \in Nat
    BY <1>1 DEF SessionInv, SessionTypeOK
  <2>5. d \in Rpc /\ d.n = c.n /\ d.op = c.op /\ d.stage = s /\ d.caller = c.caller
        /\ d.ws = c.ws /\ d.lease = l
    BY <2>0, <2>2, <2>3, <2>4 DEF Rpc
  <2>6. CASE Admitted(c)
    <3>1. c.caller # Native => /\ c.caller = secret /\ c.ws = scope
                               /\ UNCHANGED <<browser, request>> /\ secret' = secret /\ scope' = scope
      BY <1>3, <2>6 DEF Admitted, Authorized, Active, RpcBodyEnds, AsksActive, sessionRest,
         workspace, code
    <3>2. CallWell(d)'
      BY <2>3, <2>4, <2>5, <3>1 DEF CallWell, browser, effects
    <3>3. rpcs' = (rpcs \ {c}) \cup {d}
      BY <1>3, <2>0, <2>6 DEF RpcBodyEnds
    <3> QED
      BY <2>1, <2>5, <3>2, <3>3, CallChanges
  <2>7. CASE ~Admitted(c)
    <3>1. rpcs' = rpcs \ {c}
      BY <1>3, <2>7 DEF RpcBodyEnds
    <3> QED
      BY <2>1, <2>2, <3>1, CallStays, CallChanges
  <2> QED
    BY <2>6, <2>7
<1>4. ASSUME NEW c \in rpcs, RpcGoesOn(c) PROVE Goal
  <2>1. SessionInv' /\ LeaseKept /\ \A s \in sockets : \E z \in sockets' : z.n = s.n
    BY <1>1, <1>4, HostLeavesSession DEF RpcGoesOn
  <2>2. c \in Rpc /\ c.stage \notin {"body", "ok"} /\ CallWell(c) /\ CallWell(c)'
    BY <1>1, <1>4, <2>1, CallStays DEF RpcGoesOn
  <2>3. PICK s \in Stages :
          /\ After(c) = [c EXCEPT !.stage = s] /\ s # "body"
          /\ \E i \in DOMAIN Awaits(c.op) : s = Awaits(c.op)[i]
    BY <2>2, AfterIsNext DEF CallWell
  <2>5. After(c) \in Rpc /\ After(c).n = c.n /\ After(c).op = c.op /\ After(c).stage = s
        /\ After(c).caller = c.caller /\ After(c).ws = c.ws /\ After(c).lease = c.lease
    BY <2>2, <2>3 DEF Rpc
  <2>6. CallWell(After(c))'
    BY <2>2, <2>3, <2>5 DEF CallWell
  <2>7. rpcs' \in {rpcs \ {c}, (rpcs \ {c}) \cup {After(c)}}
    BY <1>4 DEF RpcGoesOn
  <2> QED
    BY <2>1, <2>5, <2>6, <2>7, CallChanges
<1>5. ASSUME NEW c \in rpcs, RpcEnds(c) PROVE Goal
  <2>1. SessionInv' /\ LeaseKept /\ \A s \in sockets : \E z \in sockets' : z.n = s.n
    BY <1>1, <1>5, HostLeavesSession DEF RpcEnds
  <2> QED
    BY <1>1, <1>5, <2>1, CallStays, CallChanges DEF RpcEnds
<1>6. Goal
  BY <1>2, <1>3, <1>4, <1>5 DEF RpcNext
<1>7. \A x \in streams' : \E s \in sockets' : s.n = x.socket
  BY <1>1, <1>6
<1> QED
  BY <1>1, <1>6, <1>7, StreamsStay DEF HostTypeOK

\* A stream begins at a socket, ends, or goes on at the same socket.
LEMMA StreamChanges ==
  ASSUME HostTypeOK, NEW y \in Stream, \E s \in sockets : s.n = y.socket,
         \A s \in sockets : \E z \in sockets' : z.n = s.n,
         streams' \subseteq (streams \ Of(y.socket)) \cup {y}
  PROVE  /\ streams' \subseteq Stream
         /\ \A x \in streams' : /\ \E s \in sockets' : s.n = x.socket
                                /\ \A z \in streams' : x.socket = z.socket => x = z
  BY DEF HostTypeOK, Of

\* At its socket there is no other stream.
LEMMA OfIsOne ==
  ASSUME HostTypeOK, NEW x \in streams
  PROVE  Of(x.socket) = {x}
  BY DEF HostTypeOK, Of

\* What a frame of a stream, sent or not, leaves of it.
LEMMA ForwardsOne ==
  ASSUME HostTypeOK, NEW x \in streams, NEW heard \in Stream, NEW unheard \in Stream,
         Forwards(x, heard, unheard), heard.socket = x.socket, unheard.socket = x.socket
  PROVE  /\ Revoke \/ UNCHANGED <<browser, request>>
         /\ \E y \in Stream : /\ y.socket = x.socket
                              /\ streams' \subseteq (streams \ Of(y.socket)) \cup {y}
  BY OfIsOne DEF Forwards, Becomes

LEMMA StreamsKeep ==
  ASSUME HostInv, StreamNext
  PROVE  HostInv'
<1> USE DEF HostInv
<1>1. /\ streams \subseteq Stream /\ rpcs' = rpcs /\ HostTypeOK /\ SessionInv /\ CallsWell
      /\ sockets \subseteq Socket
      /\ \A x \in streams : \E s \in sockets : s.n = x.socket
  BY DEF StreamNext, StreamSubscribes, StreamUnsubscribes, StreamGoesOn, StreamFails,
     StreamCanceled, StreamEvent, HostTypeOK, SessionInv, SessionTypeOK
<1> DEFINE Changed == \E y \in Stream :
             /\ \E s \in sockets : s.n = y.socket
             /\ streams' \subseteq (streams \ Of(y.socket)) \cup {y}
<1>2. ASSUME Changed, SessionInv', LeaseKept, \A s \in sockets : \E z \in sockets' : z.n = s.n
      PROVE  HostInv'
  <2>1. CallsWell'
    BY <1>1, <1>2, CallStays DEF CallsWell
  <2>2. HostTypeOK'
    BY <1>1, <1>2, StreamChanges DEF HostTypeOK
  <2> QED
    BY <1>2, <2>1, <2>2
<1>3. ASSUME NEW s \in sockets, StreamSubscribes(s) PROVE HostInv'
  <2> DEFINE y == [socket |-> s.n, ws |-> scope, stage |-> "read", told |-> "live", events |-> 0]
  <2>1. y \in Stream /\ y.socket = s.n
    BY <1>1 DEF Stream, Socket, SessionInv, SessionTypeOK
  <2>2. streams' \subseteq (streams \ Of(s.n)) \cup {y}
    BY <1>3 DEF StreamSubscribes
  <2> HIDE DEF y
  <2> QED
    BY <1>1, <1>2, <1>3, <2>1, <2>2, HostLeavesSession DEF StreamSubscribes
<1>4. ASSUME NEW s \in sockets, StreamUnsubscribes(s) PROVE HostInv'
  <2>1. PICK y \in streams : y.socket = s.n
    BY <1>4 DEF StreamUnsubscribes, Of
  <2>2. Changed
    BY <1>1, <1>4, <2>1 DEF StreamUnsubscribes
  <2> QED
    BY <1>1, <1>2, <1>4, <2>2, HostLeavesSession DEF StreamUnsubscribes
<1>5. ASSUME NEW x \in streams, StreamGoesOn(x) \/ StreamCanceled(x) PROVE HostInv'
  <2>1. PICK y : /\ Becomes(x, y) /\ UNCHANGED svars
                 /\ \E stage \in {"bearer", "open", "over"} : y = [x EXCEPT !.stage = stage]
    BY <1>5 DEF StreamGoesOn, StreamCanceled
  <2>2. y \in Stream /\ y.socket = x.socket
    BY <1>1, <2>1 DEF Stream
  <2>3. Changed
    BY <1>1, <2>1, <2>2, OfIsOne DEF Becomes
  <2> QED
    BY <1>1, <1>2, <2>1, <2>3, HostLeavesSession
<1>6. ASSUME NEW x \in streams, StreamFails(x) PROVE HostInv'
  <2> DEFINE heard == [x EXCEPT !.stage = "over", !.told = "failed"]
             unheard == [x EXCEPT !.stage = "over"]
  <2>1. /\ heard \in Stream /\ heard.socket = x.socket
        /\ unheard \in Stream /\ unheard.socket = x.socket
    BY <1>1 DEF Stream
  <2>2. Forwards(x, heard, unheard) /\ UNCHANGED sessionRest
    BY <1>6 DEF StreamFails, Fails
  <2> HIDE DEF heard, unheard
  <2>3. (Revoke \/ UNCHANGED <<browser, request>>) /\ Changed
    BY <1>1, <2>1, <2>2, ForwardsOne
  <2> QED
    BY <1>1, <1>2, <2>2, <2>3, HostTouchesSession
<1>7. ASSUME NEW x \in streams, NEW last \in BOOLEAN, StreamEvent(x, last) PROVE HostInv'
  <2> DEFINE z == IF last THEN [x EXCEPT !.stage = "over"] ELSE x
             heard == [z EXCEPT !.events = @ + 1, !.told = IF last THEN "terminal" ELSE @]
  <2>1. z \in Stream /\ z.socket = x.socket
    BY <1>1 DEF Stream
  <2>2. heard \in Stream /\ heard.socket = x.socket
    <3>1. heard = [z EXCEPT !.events = z.events + 1,
                            !.told = IF last THEN "terminal" ELSE z.told]
      OBVIOUS
    <3> HIDE DEF z, heard
    <3>2. z.events + 1 \in Nat /\ z.told \in {"live", "failed", "terminal"}
      BY <2>1 DEF Stream
    <3> QED
      BY <2>1, <3>1, <3>2 DEF Stream
  <2>3. Forwards(x, heard, z) /\ UNCHANGED sessionRest
    BY <1>7 DEF StreamEvent
  <2> HIDE DEF heard, z
  <2>4. (Revoke \/ UNCHANGED <<browser, request>>) /\ Changed
    BY <1>1, <2>1, <2>2, <2>3, ForwardsOne
  <2> QED
    BY <1>1, <1>2, <2>3, <2>4, HostTouchesSession
<1> QED
  BY <1>3, <1>4, <1>5, <1>6, <1>7 DEF StreamNext

LEMMA HostStepKeeps == HostInv /\ [HostSystemNext]_allvars => HostInv'
<1> SUFFICES ASSUME HostInv, [HostSystemNext]_allvars PROVE HostInv'
  OBVIOUS
<1>1. CASE SessionStep
  <2>1. SessionInv' /\ LeaseKept
    BY <1>1, SessionStepKeeps, LeaseOfSession DEF SessionStep, HostInv
  <2>2. CallsWell'
    BY <1>1, <2>1, CallStays DEF SessionStep, CallsWell, HostInv
  <2>3. HostTypeOK'
    BY <1>1, StreamsStay DEF SessionStep, HostInv, HostTypeOK
  <2> QED
    BY <2>1, <2>2, <2>3 DEF HostInv
<1>2. CASE UNCHANGED allvars
  <2>1. SessionInv' /\ LeaseKept /\ UNCHANGED <<rpcs, streams, sockets>>
    BY <1>2, HostLeavesSession DEF allvars, gvars, svars, HostInv
  <2>2. CallsWell'
    BY <2>1, CallStays DEF CallsWell, HostInv
  <2> QED
    BY <2>1, <2>2 DEF HostInv, HostTypeOK
<1> QED
  BY <1>1, <1>2, CallsKeep, StreamsKeep DEF HostSystemNext

\* HostInv is an invariant of the host with its session.
LEMMA HostInvariant == HostSpec => []HostInv
  BY HostInitially, HostStepKeeps, PTL DEF HostSpec

----------------------------------------------------------------------------
(* Theorems about the host *)

\* A call whose next await is there after a step has been let pass in it.
LEMMA GoesOnByPassing ==
  ASSUME HostInv, [HostSystemNext]_allvars, NEW c \in rpcs, c.stage \notin {"body", "ok"},
         After(c) \in rpcs'
  PROVE  Passes(c)
<1>1. c \in Rpc /\ rpcs \subseteq Rpc /\ IsFiniteSet(rpcs) /\ CallWell(c)
      /\ \A x, y \in rpcs : x.n = y.n => x = y
  BY DEF HostInv, HostTypeOK, CallsWell
<1>2. PICK s \in Stages : After(c) = [c EXCEPT !.stage = s] /\ s # c.stage
  BY <1>1, AfterIsNext DEF CallWell
<1>3. After(c).n = c.n /\ After(c) # c /\ After(c) \notin rpcs
  BY <1>1, <1>2 DEF Rpc
<1>4. ASSUME NEW k, NEW w, NEW op, RpcArrives(k, w, op) PROVE FALSE
  <2> DEFINE d == [n |-> Free(rpcs), caller |-> k, ws |-> w, op |-> op, lease |-> 0,
                   stage |-> "body"]
  <2>1. rpcs' = rpcs \cup {d} /\ d.n = Free(rpcs)
    BY <1>4 DEF RpcArrives
  <2>2. Unused(Free(rpcs), rpcs)
    BY <1>1, FreeIsUnused
  <2> HIDE DEF d
  <2> QED
    BY <1>3, <2>1, <2>2 DEF Unused
<1>5. ASSUME NEW d \in rpcs, RpcBodyEnds(d) PROVE FALSE
  <2>1. d.stage = "body" /\ d # c /\ d.n # c.n
    BY <1>1, <1>5 DEF RpcBodyEnds
  <2>2. PICK r \in Stages : After(d) = [d EXCEPT !.stage = r]
    BY <1>1, <2>1, AfterIsNext DEF CallWell, HostInv, CallsWell
  <2>3. \A l : [After(d) EXCEPT !.lease = l].n = d.n
    BY <1>1, <2>2 DEF Rpc
  <2> QED
    BY <1>3, <1>5, <2>1, <2>3 DEF RpcBodyEnds
<1>6. ASSUME NEW d \in rpcs, RpcGoesOn(d), ~Passes(c) PROVE FALSE
  <2>1. CASE d = c
    BY <1>3, <1>6, <2>1 DEF RpcGoesOn
  <2>2. CASE d # c
    <3>1. d.n # c.n /\ d.stage # "ok" /\ d \in Rpc /\ CallWell(d)
      BY <1>1, <1>6, <2>2 DEF RpcGoesOn, HostInv, CallsWell
    <3>2. PICK r \in Stages : After(d) = [d EXCEPT !.stage = r]
      BY <3>1, AfterIsNext DEF CallWell
    <3>3. After(d).n = d.n
      BY <3>1, <3>2 DEF Rpc
    <3> QED
      BY <1>3, <1>6, <3>1, <3>3 DEF RpcGoesOn
  <2> QED
    BY <2>1, <2>2
<1>7. ASSUME NEW d \in rpcs, RpcEnds(d) PROVE FALSE
  BY <1>3, <1>7 DEF RpcEnds
<1>8. rpcs' = rpcs => FALSE
  BY <1>3
<1>9. CASE StreamNext \/ SessionStep \/ UNCHANGED allvars
  BY <1>8, <1>9 DEF StreamNext, StreamSubscribes, StreamUnsubscribes, StreamGoesOn, StreamFails,
     StreamCanceled, StreamEvent, SessionStep, allvars, gvars
<1> QED
  BY <1>4, <1>5, <1>6, <1>7, <1>9 DEF HostSystemNext, RpcNext

\* Effects leave, and successes return, only under the binding, pairing and
\* workspace they were asked in (307, 396-398), for any number of calls.
THEOREM EffectsLeaveInLease == HostSpec => EffectInLease
<1>1. ASSUME HostInv, [HostSystemNext]_allvars, NEW c \in rpcs, Dispatches(c) \/ Succeeds(c)
      PROVE  InLease(c)
  <2>1. c \in Rpc /\ CallWell(c)
    BY <1>1 DEF HostInv, HostTypeOK, CallsWell
  <2>2. /\ c.stage \notin {"body", "ok"} /\ After(c) \in rpcs'
        /\ <<c.op, c.stage>> \notin Unchecked
    <3>1. CASE Dispatches(c)
      BY <3>1 DEF Dispatches, Unchecked
    <3>2. CASE Succeeds(c)
      <4>1. PICK s \in Stages :
              /\ After(c) = [c EXCEPT !.stage = s]
              /\ s = "ok" => <<c.op, c.stage>> \in {<<"get", "read">>} \cup (Ops \X {"sent"})
        BY <2>1, <3>2, AfterIsNext DEF CallWell, Succeeds
      <4>2. s = "ok"
        BY <2>1, <3>2, <4>1 DEF Succeeds, Rpc
      <4> QED
        BY <3>2, <4>1, <4>2 DEF Succeeds, Unchecked
    <3> QED
      BY <1>1, <3>1, <3>2
  <2>3. EffectLease(c)
    BY <1>1, <2>2, GoesOnByPassing DEF Passes
  <2> QED
    BY <2>1, <2>2, <2>3 DEF EffectLease, SignalAborted, InLease, CallWell
<1>2. HostInv => HostTypeOK
  BY DEF HostInv
<1>3. HostInv /\ [HostSystemNext]_allvars
        => [\A c \in rpcs : Dispatches(c) \/ Succeeds(c) => InLease(c)]_allvars
  BY <1>1
<1> QED
  BY <1>2, <1>3, HostInvariant, PTL DEF HostSpec, EffectInLease

\* An open socket is the present pairing's.
LEMMA OpenIsOfPairing ==
  ASSUME SessionInv, NEW n, OpenSocket(n)
  PROVE  \E s \in sockets : s.n = n /\ s.open /\ s.cookie = secret
  BY DEF OpenSocket, SessionInv, EndsWell

\* What StreamInLease says of a stream and what becomes of it.
StreamAllowed(x, y) ==
  /\ y.events > x.events =>
       /\ Active /\ x.ws = scope
       /\ \E s \in sockets : s.n = x.socket /\ s.open /\ s.cookie = secret
  /\ x.stage # "over" /\ y.stage = "over" /\ y.told = "live" =>
       ~(Active /\ BridgeHolds /\ x.ws = scope /\ OpenSocket(x.socket))

\* A frame goes out to an open socket of the session, or is not told.
LEMMA FramesAllowed ==
  ASSUME HostInv, NEW x \in streams, NEW heard \in Stream, NEW unheard \in Stream,
         heard.socket = x.socket, unheard.socket = x.socket,
         unheard.events = x.events, heard.stage = "over" => heard.told # "live",
         Forwards(x, heard, unheard), NEW y \in streams', y.socket = x.socket
  PROVE  StreamAllowed(x, y)
<1>1. y = IF Reaches(x) /\ Active THEN heard ELSE unheard
  BY OfIsOne DEF Forwards, Becomes, HostInv, HostTypeOK
<1>2. x.events \in Nat
  BY DEF HostInv, HostTypeOK, Stream
<1>3. CASE Reaches(x) /\ Active
  BY <1>1, <1>3, OpenIsOfPairing DEF StreamAllowed, Reaches, HostInv
<1>4. CASE ~(Reaches(x) /\ Active)
  BY <1>1, <1>2, <1>4 DEF StreamAllowed, Reaches
<1> QED
  BY <1>3, <1>4

\* Events and failures reach a page only in its own session, and no stream of
\* an active session ends untold (237, 259-273, 316-330).
THEOREM StreamsStayInLease == HostSpec => StreamInLease
<1>1. ASSUME HostInv, [HostSystemNext]_allvars, NEW x \in streams, NEW y \in streams',
             y.socket = x.socket
      PROVE  StreamAllowed(x, y)
  <2> USE DEF HostInv
  <2>1. x \in Stream /\ x.events \in Nat /\ \A z \in streams : z.socket = x.socket => z = x
    BY <1>1 DEF HostTypeOK, Stream
  <2>2. CASE y \in streams
    BY <1>1, <2>1, <2>2 DEF StreamAllowed
  <2>3. ASSUME NEW s \in sockets, StreamSubscribes(s), y \notin streams
        PROVE  StreamAllowed(x, y)
    <3>1. y.events = 0 /\ y.stage = "read"
      BY <2>3 DEF StreamSubscribes
    <3> QED
      BY <2>1, <3>1 DEF StreamAllowed
  <2>4. ASSUME NEW z \in streams, StreamGoesOn(z), y \notin streams PROVE StreamAllowed(x, y)
    <3>1. z \in Stream /\ \E stage \in {"bearer", "open"} : y = [z EXCEPT !.stage = stage]
      BY <1>1, <2>4 DEF StreamGoesOn, Becomes, HostTypeOK
    <3>2. z = x /\ y.events = x.events /\ y.stage # "over"
      BY <1>1, <2>1, <3>1 DEF Stream
    <3> QED
      BY <2>1, <3>2 DEF StreamAllowed
  <2>5. ASSUME NEW z \in streams, StreamCanceled(z), y \notin streams PROVE StreamAllowed(x, y)
    <3>1. z \in Stream /\ y = [z EXCEPT !.stage = "over"] /\ ~BridgeHolds
      BY <1>1, <2>5 DEF StreamCanceled, Becomes, HostTypeOK
    <3>2. z = x /\ y.events = x.events
      BY <1>1, <2>1, <3>1 DEF Stream
    <3> QED
      BY <2>1, <3>1, <3>2 DEF StreamAllowed
  <2>6. ASSUME NEW z \in streams, StreamFails(z), y \notin streams PROVE StreamAllowed(x, y)
    <3> DEFINE heard == [z EXCEPT !.stage = "over", !.told = "failed"]
               unheard == [z EXCEPT !.stage = "over"]
    <3>1. z \in Stream
      BY <1>1 DEF HostTypeOK
    <3>2. /\ heard \in Stream /\ heard.socket = z.socket /\ heard.told = "failed"
          /\ unheard \in Stream /\ unheard.socket = z.socket /\ unheard.events = z.events
      BY <3>1 DEF Stream
    <3>3. Forwards(z, heard, unheard)
      BY <2>6 DEF StreamFails, Fails
    <3> HIDE DEF heard, unheard
    <3>4. z = x
      BY <1>1, <2>1, <2>6, <3>2, <3>3 DEF Forwards, Becomes
    <3> QED
      BY <1>1, <3>2, <3>3, <3>4, FramesAllowed
  <2>7. ASSUME NEW z \in streams, NEW last \in BOOLEAN, StreamEvent(z, last), y \notin streams
        PROVE  StreamAllowed(x, y)
    <3> DEFINE u == IF last THEN [z EXCEPT !.stage = "over"] ELSE z
               heard == [u EXCEPT !.events = @ + 1, !.told = IF last THEN "terminal" ELSE @]
    <3>1. z \in Stream /\ z.stage = "open"
      BY <1>1, <2>7 DEF HostTypeOK, StreamEvent
    <3>2. /\ u \in Stream /\ u.socket = z.socket /\ u.events = z.events
          /\ ~last => u.stage = "open"
      BY <3>1 DEF Stream
    <3>3. heard = [u EXCEPT !.events = u.events + 1, !.told = IF last THEN "terminal" ELSE u.told]
      OBVIOUS
    <3>4. Forwards(z, heard, u)
      BY <2>7 DEF StreamEvent
    <3> HIDE DEF u, heard
    <3>5. /\ heard \in Stream /\ heard.socket = z.socket
          /\ heard.stage = "over" => heard.told # "live"
      <4>1. u.events + 1 \in Nat /\ u.told \in {"live", "failed", "terminal"}
        BY <3>2 DEF Stream
      <4> QED
        BY <3>2, <3>3, <4>1 DEF Stream
    <3>6. z = x
      BY <1>1, <2>1, <2>7, <3>2, <3>4, <3>5 DEF Forwards, Becomes
    <3> QED
      BY <1>1, <3>2, <3>4, <3>5, <3>6, FramesAllowed
  <2>8. CASE streams' \subseteq streams
    BY <2>2, <2>8
  <2>9. CASE RpcNext \/ SessionStep \/ UNCHANGED allvars
    BY <2>8, <2>9 DEF RpcNext, RpcArrives, RpcBodyEnds, RpcGoesOn, RpcEnds, SessionStep,
       allvars, gvars
  <2>10. ASSUME NEW s \in sockets, StreamUnsubscribes(s) PROVE StreamAllowed(x, y)
    BY <2>8, <2>10 DEF StreamUnsubscribes
  <2> QED
    BY <1>1, <2>2, <2>3, <2>4, <2>5, <2>6, <2>7, <2>9, <2>10 DEF HostSystemNext, StreamNext
<1>2. HostInv /\ [HostSystemNext]_allvars
        => [\A x \in streams, y \in streams' : y.socket = x.socket => StreamAllowed(x, y)]_allvars
  BY <1>1
<1> QED
  BY <1>2, HostInvariant, PTL DEF HostSpec, StreamInLease, StreamAllowed

----------------------------------------------------------------------------
(* The inductive invariant of the registry *)

\* A record that exists has a generation of its own, no larger than the
\* serial, and a drifted system is not authorized.
RecordsWell ==
  \A id \in Ids :
    /\ generations[id] <= serial
    /\ generations[id] = 0 <=> ~Registered(id)
    /\ byId[id].drifted => ~byId[id].authorized

\* A lease whose generation is still the system's names its record.
LeasesWell ==
  \A l \in leases :
    /\ 0 < l.generation /\ l.generation <= serial
    /\ generations[l.id] = l.generation =>
         byId[l.id].root = l.root /\ byId[l.id].identity = l.identity

RegistryInv == RegistryTypeOK /\ RootsApart /\ RecordsWell /\ LeasesWell

----------------------------------------------------------------------------
\* No record: what its fields are.
LEMMA NoRecordIsNone ==
  /\ NoRecord.root = NoId /\ ~NoRecord.drifted /\ ~NoRecord.authorized
  /\ NoRecord \notin Record
  BY RegistryAssumption DEF NoRecord, Record

\* An approvable root leads to a well-typed record that is not drifted.
LEMMA ApprovedIsRecord ==
  ASSUME RegistryTypeOK, NEW r \in Roots, Approvable(r)
  PROVE  /\ Approved(r) \in Record /\ Approved(r) # NoRecord
         /\ Approved(r).root = r /\ ~Approved(r).drifted
  BY NoRecordIsNone DEF RegistryTypeOK, Approvable, Approved, Record

\* A registered system has a root that the other index knows.
LEMMA RegisteredHasRoot ==
  ASSUME RegistryTypeOK, RootsApart, NEW id \in Ids
  PROVE  Registered(id) <=> byId[id] \in Record /\ byId[id].root \in Roots
                            /\ byRoot[byId[id].root] = id
  BY NoRecordIsNone, RegistryAssumption
  DEF RegistryTypeOK, RootsApart, Registered, Record

\* Withdrawing an approval keeps the record's binding.
LEMMA DriftedIsRecord ==
  ASSUME NEW rec \in Record
  PROVE  /\ Drifted(rec) \in Record /\ Drifted(rec) # NoRecord
         /\ Drifted(rec).root = rec.root /\ Drifted(rec).identity = rec.identity
         /\ Drifted(rec).drifted /\ ~Drifted(rec).authorized
  BY NoRecordIsNone DEF Drifted, Record

\* Rebind and Unregister free exactly the root of their system.
LEMMA FreedRoot ==
  ASSUME RegistryTypeOK, RootsApart, NEW id \in Ids, Registered(id)
  PROVE  FreeOldRoot(id) = [r \in Roots |-> IF byRoot[r] = id THEN NoId ELSE byRoot[r]]
<1>1. byId[id].root \in Roots /\ byRoot[byId[id].root] = id
  BY RegisteredHasRoot
<1>2. \A r \in Roots : byRoot[r] = id <=> byId[id].root = r
  BY DEF RootsApart
<1> QED
  BY <1>1, <1>2 DEF FreeOldRoot, RegistryTypeOK

----------------------------------------------------------------------------
(* The invariant holds at the start and is kept *)

LEMMA RegistryInitInv == RegistryInit => RegistryInv
<1> SUFFICES ASSUME RegistryInit PROVE RegistryInv
  OBVIOUS
<1>1. RegistryTypeOK
  BY RegistryAssumption DEF RegistryInit, RegistryTypeOK
<1>2. RootsApart
  BY NoRecordIsNone, RegistryAssumption DEF RegistryInit, RootsApart
<1>3. RecordsWell
  BY NoRecordIsNone DEF RegistryInit, RecordsWell, Registered
<1>4. LeasesWell
  BY DEF RegistryInit, LeasesWell
<1> QED
  BY <1>1, <1>2, <1>3, <1>4 DEF RegistryInv

\* The entry of a system at a free root, next to roots that stay apart.
LEMMA EnterKeeps ==
  ASSUME RegistryInv, NEW id \in Ids, NEW r \in Roots,
         ~Registered(id), Approvable(r), NoOverlap(r, NoId), Enter(id, r),
         UNCHANGED <<environment, leases>>, counter' \in Nat
  PROVE  RegistryInv'
<1> USE DEF RegistryInv
<1>1. Approved(r) \in Record /\ Approved(r) # NoRecord /\ Approved(r).root = r
      /\ ~Approved(r).drifted
  BY ApprovedIsRecord
<1>2. byRoot[r] = NoId /\ \A s \in Roots : byRoot[s] # NoId => ~Overlaps(r, s)
  BY DEF NoOverlap, Overlaps, Within
<1>3. RegistryTypeOK'
  BY <1>1, RegistryAssumption
  DEF RegistryTypeOK, Enter, BumpBindingGeneration, NextGeneration, environment
<1>4. RootsApart'
  <2>1. \A x \in Ids, s \in Roots : byRoot'[s] = x <=> byId'[x].root = s
    BY <1>1, <1>2, NoRecordIsNone, RegistryAssumption
    DEF RegistryTypeOK, RootsApart, Enter, Registered
  <2>2. \A s, t \in Roots : s # t /\ byRoot'[s] # NoId /\ byRoot'[t] # NoId => ~Overlaps(s, t)
    BY <1>2 DEF RegistryTypeOK, RootsApart, Enter, Overlaps
  <2> QED
    BY <2>1, <2>2 DEF RootsApart
<1>5. RecordsWell'
  BY <1>1, RegistryAssumption
  DEF RegistryTypeOK, RecordsWell, Registered, Enter, BumpBindingGeneration, NextGeneration
<1>6. LeasesWell'
  BY DEF RegistryTypeOK, LeasesWell, Lease, Enter, BumpBindingGeneration, NextGeneration
<1> QED
  BY <1>3, <1>4, <1>5, <1>6

LEMMA RebindKeeps ==
  ASSUME RegistryInv, NEW id \in Ids, NEW r \in Roots, Rebind(id, r)
  PROVE  RegistryInv'
<1> USE DEF RegistryInv
<1>0. Registered(id) /\ Approvable(r) /\ NoOverlap(r, id)
  BY DEF Rebind
<1>1. Approved(r) \in Record /\ Approved(r) # NoRecord /\ Approved(r).root = r
      /\ ~Approved(r).drifted
  BY <1>0, ApprovedIsRecord
<1>2. byRoot' = [s \in Roots |-> IF s = r THEN id ELSE IF byRoot[s] = id THEN NoId ELSE byRoot[s]]
  BY <1>0, FreedRoot DEF Rebind
<1>3. \A s \in Roots : byRoot[s] \notin {NoId, id} => ~Overlaps(r, s) /\ ~Overlaps(s, r) /\ s # r
  BY <1>0 DEF NoOverlap, Overlaps, Within
<1>4. RegistryTypeOK'
  <2>1. byRoot' \in [Roots -> Ids \cup {NoId}]
    BY <1>2 DEF RegistryTypeOK
  <2> QED
    BY <1>1, <2>1, RegistryAssumption
    DEF RegistryTypeOK, Rebind, BumpBindingGeneration, NextGeneration, environment
<1>5. RootsApart'
  <2>1. ASSUME NEW x \in Ids, NEW s \in Roots PROVE byRoot'[s] = x <=> byId'[x].root = s
    <3>1. CASE x = id
      <4>1. byId'[x].root = r
        BY <1>1, <3>1 DEF Rebind, RegistryTypeOK
      <4> QED
        BY <1>2, <3>1, <4>1, RegistryAssumption
    <3>2. CASE x # id
      <4>1. byId'[x] = byId[x]
        BY <3>2 DEF Rebind, RegistryTypeOK
      <4>2. byRoot[r] # x
        BY <1>3, <3>2, RegistryAssumption
      <4> QED
        BY <1>2, <3>2, <4>1, <4>2, RegistryAssumption DEF RootsApart
    <3> QED
      BY <3>1, <3>2
  <2>2. \A s, t \in Roots : s # t /\ byRoot'[s] # NoId /\ byRoot'[t] # NoId => ~Overlaps(s, t)
    BY <1>2, <1>3 DEF RootsApart
  <2> QED
    BY <2>1, <2>2 DEF RootsApart
<1>6. RecordsWell'
  BY <1>1, <1>0, RegistryAssumption
  DEF RegistryTypeOK, RecordsWell, Registered, Rebind, BumpBindingGeneration, NextGeneration
<1>7. LeasesWell'
  BY DEF RegistryTypeOK, LeasesWell, Lease, Rebind, BumpBindingGeneration, NextGeneration
<1> QED
  BY <1>4, <1>5, <1>6, <1>7

LEMMA UnregisterKeeps ==
  ASSUME RegistryInv, NEW id \in Ids, Unregister(id)
  PROVE  RegistryInv'
<1> USE DEF RegistryInv
<1>1. Registered(id)
  BY DEF Unregister
<1>2. byRoot' = [r \in Roots |-> IF byRoot[r] = id THEN NoId ELSE byRoot[r]]
  BY <1>1, FreedRoot DEF Unregister
<1>3. RegistryTypeOK'
  BY <1>2, RegistryAssumption DEF RegistryTypeOK, Unregister, environment
<1>4. RootsApart'
  <2>1. \A x \in Ids, s \in Roots : byRoot'[s] = x <=> byId'[x].root = s
    BY <1>2, NoRecordIsNone, RegistryAssumption DEF RegistryTypeOK, RootsApart, Unregister
  <2>2. \A s, t \in Roots : s # t /\ byRoot'[s] # NoId /\ byRoot'[t] # NoId => ~Overlaps(s, t)
    BY <1>2 DEF RootsApart
  <2> QED
    BY <2>1, <2>2 DEF RootsApart
<1>5. RecordsWell'
  BY NoRecordIsNone DEF RegistryTypeOK, RecordsWell, Registered, Unregister
<1>6. LeasesWell'
  BY DEF RegistryTypeOK, LeasesWell, Lease, Unregister
<1> QED
  BY <1>3, <1>4, <1>5, <1>6

\* A use of a system, or a revalidation, changes what is authorized: never a
\* root, an identity or a generation, and no drifted system is authorized.
LEMMA WithdrawalKeeps ==
  ASSUME RegistryInv, NEW id \in Ids, Registered(id), NEW rec \in Record,
         byId' = [byId EXCEPT ![id] = rec],
         rec.root = byId[id].root, rec.identity = byId[id].identity,
         rec.drifted => ~rec.authorized,
         UNCHANGED <<environment, byRoot, generations, serial, counter, leases>>
  PROVE  RegistryInv'
<1> USE DEF RegistryInv
<1>1. rec # NoRecord
  BY NoRecordIsNone
<1>2. RegistryTypeOK'
  BY DEF RegistryTypeOK, environment
<1>3. RootsApart'
  BY DEF RegistryTypeOK, RootsApart
<1>4. RecordsWell'
  BY <1>1 DEF RegistryTypeOK, RecordsWell, Registered
<1>5. LeasesWell'
  BY DEF RegistryTypeOK, LeasesWell, Lease
<1> QED
  BY <1>2, <1>3, <1>4, <1>5

\* Any use that finds a drift.
LEMMA UseKeeps ==
  ASSUME RegistryInv, NEW id \in Ids, byId' = AfterUse(id),
         UNCHANGED <<environment, byRoot, generations, serial, counter, leases>>
  PROVE  RegistryInv'
<1>1. CASE Registered(id) /\ byId[id].authorized /\ Drifts(byId[id])
  <2>1. byId[id] \in Record
    BY <1>1, RegisteredHasRoot DEF RegistryInv
  <2> QED
    BY <1>1, <2>1, DriftedIsRecord, WithdrawalKeeps DEF AfterUse
<1>2. CASE ~(Registered(id) /\ byId[id].authorized /\ Drifts(byId[id]))
  BY <1>2 DEF AfterUse, RegistryInv, RegistryTypeOK, RootsApart, RecordsWell, LeasesWell,
     Registered, environment
<1> QED
  BY <1>1, <1>2

LEMMA RevalidateKeeps ==
  ASSUME RegistryInv, NEW id \in Ids, Revalidate(id)
  PROVE  RegistryInv'
<1>1. Registered(id) /\ ~byId[id].drifted /\ byId[id] \in Record
  BY RegisteredHasRoot DEF Revalidate, Recheckable, RegistryInv
<1> DEFINE rec == Rechecked(byId[id])
<1>2. /\ rec \in Record /\ rec.root = byId[id].root /\ rec.identity = byId[id].identity
      /\ rec.drifted => ~rec.authorized
  <2>1. CASE Drifts(byId[id])
    <3>1. rec = Drifted(byId[id])
      BY <2>1 DEF Rechecked
    <3> QED
      BY <1>1, <3>1, DriftedIsRecord
  <2>2. CASE ~Drifts(byId[id])
    <3> DEFINE b == disk[byId[id].root] \in compatible
    <3>1. rec = [byId[id] EXCEPT !.authorized = b]
      BY <2>2 DEF Rechecked
    <3>2. b \in BOOLEAN
      OBVIOUS
    <3> HIDE DEF b, rec
    <3> QED
      BY <1>1, <3>1, <3>2 DEF Record
  <2> QED
    BY <2>1, <2>2
<1> HIDE DEF rec
<1> QED
  BY <1>1, <1>2, WithdrawalKeeps DEF Revalidate, rec

LEMMA CaptureKeeps ==
  ASSUME RegistryInv, NEW id \in Ids, CaptureLease(id)
  PROVE  RegistryInv'
<1> USE DEF RegistryInv
<1> DEFINE l == [id |-> id, root |-> byId[id].root, generation |-> generations[id],
                 identity |-> byId[id].identity]
<1>1. Registered(id) /\ byId[id] \in Record /\ leases' = leases \cup {l}
  BY RegisteredHasRoot DEF CaptureLease, Resolves
<1>2. /\ l \in Lease /\ 0 < l.generation /\ l.generation <= serial
      /\ byId[l.id].root = l.root /\ byId[l.id].identity = l.identity
  BY <1>1 DEF RegistryTypeOK, RecordsWell, Lease, Record
<1> HIDE DEF l
<1>3. RegistryTypeOK' /\ LeasesWell'
  BY <1>1, <1>2 DEF RegistryTypeOK, LeasesWell, CaptureLease, environment
<1>4. RootsApart' /\ RecordsWell'
  BY DEF RootsApart, RecordsWell, Registered, CaptureLease
<1> QED
  BY <1>3, <1>4

LEMMA DiskKeeps ==
  ASSUME RegistryInv, DiskNext \/ UNCHANGED rvars
  PROVE  RegistryInv'
<1> USE DEF RegistryInv
<1>1. disk' \in [Roots -> Objects \cup {NoObject}] /\ compatible' \in SUBSET Objects
  <2>1. CASE DiskNext
    <3>1. CASE \E r \in Roots, o \in Objects \cup {NoObject} : DiskChanges(r, o)
      BY <3>1 DEF DiskChanges, RegistryTypeOK
    <3>2. CASE \E o \in Objects : ContentsChange(o)
      BY <3>2 DEF ContentsChange, RegistryTypeOK
    <3> QED
      BY <2>1, <3>1, <3>2 DEF DiskNext
  <2>2. CASE UNCHANGED rvars
    BY <2>2 DEF rvars, RegistryTypeOK
  <2> QED
    BY <2>1, <2>2
<1>2. UNCHANGED <<byId, byRoot, generations, serial, counter, leases>>
  BY DEF DiskNext, DiskChanges, ContentsChange, rvars
<1> QED
  BY <1>1, <1>2 DEF RegistryTypeOK, RootsApart, RecordsWell, LeasesWell, Registered

LEMMA RegistryStep == RegistryInv /\ [RegistryNext]_rvars => RegistryInv'
<1> SUFFICES ASSUME RegistryInv, [RegistryNext]_rvars PROVE RegistryInv'
  OBVIOUS
<1>1. CASE HostNext
  <2>1. ASSUME NEW id \in Ids, NEW r \in Roots, RegisterAs(id, r) PROVE RegistryInv'
    BY <2>1, EnterKeeps DEF RegisterAs, RegistryInv, RegistryTypeOK
  <2>2. ASSUME NEW id \in Ids, NEW r \in Roots, Rebind(id, r) PROVE RegistryInv'
    BY <2>2, RebindKeeps
  <2>3. ASSUME NEW r \in Roots, RegisterNext(r) PROVE RegistryInv'
    <3> DEFINE id == AutoId[counter + 1]
    <3>1. id \in Ids /\ counter' \in Nat
      BY <2>3, RegistryAssumption DEF RegisterNext, RegistryInv, RegistryTypeOK
    <3>2. CASE Registered(id)
      BY <2>3, <3>1, <3>2
      DEF RegisterNext, RegistryInv, RegistryTypeOK, RootsApart, RecordsWell, LeasesWell,
          Registered, environment
    <3>3. CASE ~Registered(id)
      <4>1. Enter(id, r) /\ Approvable(r) /\ NoOverlap(r, NoId)
            /\ UNCHANGED <<environment, leases>>
        BY <2>3, <3>3 DEF RegisterNext
      <4> QED
        BY <3>1, <3>3, <4>1, EnterKeeps
    <3> QED
      BY <3>2, <3>3
  <2>4. ASSUME NEW id \in Ids, Unregister(id) PROVE RegistryInv'
    BY <2>4, UnregisterKeeps
  <2>5. ASSUME NEW id \in Ids, ResolveRoot(id) PROVE RegistryInv'
    BY <2>5, UseKeeps DEF ResolveRoot
  <2>6. ASSUME NEW id \in Ids, Revalidate(id) PROVE RegistryInv'
    BY <2>6, RevalidateKeeps
  <2>7. ASSUME NEW id \in Ids, CaptureLease(id) PROVE RegistryInv'
    BY <2>7, CaptureKeeps
  <2> QED
    BY <1>1, <2>1, <2>2, <2>3, <2>4, <2>5, <2>6, <2>7 DEF HostNext
<1>2. CASE DiskNext \/ UNCHANGED rvars
  BY <1>2, DiskKeeps
<1> QED
  BY <1>1, <1>2 DEF RegistryNext

\* RegistryInv is an invariant of the registry.
LEMMA RegistryInvariant == RegistrySpec => []RegistryInv
  BY RegistryInitInv, RegistryStep, PTL DEF RegistrySpec

----------------------------------------------------------------------------
(* Theorems *)

\* Every record the registry keeps is well typed: a binding always has a
\* real directory identity, also after it has drifted.
THEOREM RegistryTypeCorrect == RegistrySpec => []RegistryTypeOK
<1>1. RegistryInv => RegistryTypeOK
  BY DEF RegistryInv
<1> QED
  BY <1>1, RegistryInvariant, PTL

\* The two indices agree and no two approved roots overlap, through every
\* register, rebind and unregister (assertNoOverlap, 130-147).
THEOREM RootsStayApart == RegistrySpec => []RootsApart
<1>1. RegistryInv => RootsApart
  BY DEF RegistryInv
<1> QED
  BY <1>1, RegistryInvariant, PTL

\* A lease that passes its holder's check reaches the directory that was
\* approved when it was captured (bumpBindingGeneration, 113-128).
THEOREM LeaseNamesItsBinding == RegistrySpec => []LeaseNamesOneBinding
<1>1. ASSUME RegistryInv, NEW l \in leases, Holds(l)
      PROVE  byId[l.id].identity = l.identity /\ disk[l.root] = l.identity
  BY <1>1 DEF RegistryInv, LeasesWell, Holds, Resolves, Drifts
<1>2. RegistryInv => LeaseNamesOneBinding
  BY <1>1 DEF LeaseNamesOneBinding
<1> QED
  BY <1>2, RegistryInvariant, PTL

\* What a step does to one system: it ends its generation, gives it a new
\* one, or leaves it and the drift as they are.
LEMMA DriftIsSticky ==
  ASSUME RegistryInv, [RegistryNext]_rvars, NEW id \in Ids
  PROVE  \/ generations'[id] \in {0, serial + 1}
         \/ generations'[id] = generations[id] /\ (byId[id].drifted => byId'[id].drifted)
<1> DEFINE Goal == \/ generations'[id] \in {0, serial + 1}
                   \/ generations'[id] = generations[id] /\ (byId[id].drifted => byId'[id].drifted)
<1> USE DEF RegistryInv, RegistryTypeOK
<1>1. ASSUME NEW x \in Ids, NEW r \in Roots, RegisterAs(x, r) \/ Rebind(x, r) PROVE Goal
  BY <1>1 DEF RegisterAs, Enter, Rebind, BumpBindingGeneration, NextGeneration
<1>2. ASSUME NEW r \in Roots, RegisterNext(r) PROVE Goal
  BY <1>2, RegistryAssumption DEF RegisterNext, Enter, BumpBindingGeneration, NextGeneration
<1>3. ASSUME NEW x \in Ids, Unregister(x) PROVE Goal
  BY <1>3 DEF Unregister
<1>4. ASSUME NEW x \in Ids, ResolveRoot(x) PROVE Goal
  BY <1>4 DEF ResolveRoot, AfterUse, Drifted
<1>5. ASSUME NEW x \in Ids, Revalidate(x) PROVE Goal
  BY <1>5 DEF Revalidate, Recheckable
<1>6. ASSUME NEW x \in Ids, CaptureLease(x) PROVE Goal
  BY <1>6 DEF CaptureLease
<1>7. CASE DiskNext \/ UNCHANGED rvars
  BY <1>7 DEF DiskNext, DiskChanges, ContentsChange, rvars
<1> QED
  BY <1>1, <1>2, <1>3, <1>4, <1>5, <1>6, <1>7 DEF RegistryNext, HostNext

\* A lease once withdrawn stays withdrawn, and its holder's check fails:
\* neither the old directory put back nor a revalidation restores it (37-38,
\* 303-304).
THEOREM WithdrawnForEver == RegistrySpec => LeaseNeverReturns
<1>1. ASSUME RegistryInv, RegistryInv', [RegistryNext]_rvars, NEW l \in leases, Withdrawn(l)
      PROVE  Withdrawn(l)' /\ ~Holds(l)'
  <2>1. /\ l.id \in Ids /\ l.generation \in Nat /\ 0 < l.generation /\ l.generation <= serial
        /\ serial \in Nat
    BY <1>1 DEF RegistryInv, RegistryTypeOK, LeasesWell, Lease
  <2>2. generations[l.id] # l.generation \/ byId[l.id].drifted
    BY <1>1, <2>1 DEF Withdrawn, RegistryInv, RecordsWell
  <2>3. generations'[l.id] # l.generation \/ byId'[l.id].drifted
    BY <1>1, <2>1, <2>2, DriftIsSticky
  <2>4. ~Holds(l)'
    BY <1>1, <2>1, <2>3 DEF Holds, Resolves, RegistryInv, RecordsWell
  <2> QED
    BY <2>3, <2>4 DEF Withdrawn
<1>2. RegistryInv /\ RegistryInv' /\ [RegistryNext]_rvars
        => [\A l \in leases : Withdrawn(l) => Withdrawn(l)' /\ ~Holds(l)']_rvars
  BY <1>1
<1> QED
  BY <1>2, RegistryInvariant, PTL DEF RegistrySpec, LeaseNeverReturns
=============================================================================
