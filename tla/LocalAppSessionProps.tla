------------------------ MODULE LocalAppSessionProps ------------------------
(***************************************************************************)
(* What must hold of LocalAppSession.                                      *)
(***************************************************************************)
EXTENDS LocalAppSession

\* A pairing code is single-use and compared at most MaxPairAttempts times,
\* also when several POST /pair have passed the first checks and read their
\* bodies ("the same single-use code", 394; 408).  The cookie of a session that has not ended comes from the current code,
\* exactly its own timer runs and only its own sockets are open: an earlier
\* pairing's timer never ends a later session, every session has one that ends
\* it, and no socket survives "logout or expiry" (186, 199-201, 413-415).
EffectsOfPairing ==
  /\ SessionTypeOK
  /\ \A p, q \in pairings : p.secret = q.secret => p = q
  /\ attempts <= MaxPairAttempts
  /\ until # "none" => [secret |-> secret, lease |-> lease] \in pairings /\ ~aborted
  /\ timers = IF until = "none" THEN {} ELSE {lease}
  /\ \A s \in sockets : s.open => s.cookie = secret /\ until # "none"

\* The request the host may approve is one this pairing made and the host was
\* shown, one pairing makes at most MaxWorkspaceRequests (334-345), and an
\* approval leads to the workspace the host was shown, in the directory it had
\* then (approveWorkspaceRequest, 126-137).
GrantIsWhatWasShown ==
  /\ request.state # "none" =>
       \E a \in asked : a.id = request.id /\ a.secret = secret
                        /\ a.ws = request.ws /\ a.identity = request.identity
  /\ Cardinality({a \in asked : a.secret = secret}) <= MaxWorkspaceRequests
  /\ granted # 0 =>
       \E a \in asked : a.id = granted /\ a.ws = scope /\ a.identity = scopeIdentity

\* The session does what AppHost promises the page: the codes, the cookie and
\* the request GET /workspace-request reports (289-434) change only by one
\* redemption of each code, one request at a time, an end and a rotation.
ReportedState(r) == IF r.state = "pending" /\ r.old THEN "expired" ELSE r.state
AH == INSTANCE AppHost WITH
  HostScopes <- Scopes, MaxHostSecret <- MaxRotations,
  MaxHostAsks <- (MaxRotations + 1) * MaxWorkspaceRequests,
  hostScope <- scope, hostSecret <- secret, hostUsed <- used, hostLive <- until = "live",
  hostRequest <- [id |-> request.id, state |-> ReportedState(request)],
  hostAsked <- Cardinality(asked)
ImplementsAppHost == AH!AppHostSpec

\* A session whose time is over is revoked without any request (414).
ExpiredEnds == until = "over" ~> until = "none"
=============================================================================
