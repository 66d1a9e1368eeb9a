------------------------------ MODULE AppHost ------------------------------
(***************************************************************************)
(* What the local application's host promises its browser page: one        *)
(* session at a time, made by redeeming the current one-time code once, in *)
(* one workspace, with one request for another workspace at a time.  The   *)
(* session ends for good: only a new code begins another.                  *)
(*                                                                         *)
(* LocalAppSession implements it (LocalAppSessionProps), LocalAppPage runs *)
(* against it.                                                             *)
(***************************************************************************)
EXTENDS Naturals

CONSTANTS
  HostScopes,                   \* the workspaces the host may select
  MaxHostSecret, MaxHostAsks    \* bounds on the two counters

ASSUME AppHostAssumption ==
  HostScopes # {} /\ MaxHostSecret \in Nat /\ MaxHostAsks \in Nat

VARIABLES
  hostScope,    \* the selected workspace
  hostSecret,   \* the number of the one-time code and of the cookie
  hostUsed,     \* the code has been redeemed
  hostLive,     \* the session it made has not ended
  hostRequest,  \* the request for another workspace, as GET reports it
  hostAsked     \* the requests shown to the host so far

apphost == <<hostScope, hostSecret, hostUsed, hostLive, hostRequest, hostAsked>>

NoHostRequest == [id |-> 0, state |-> "none"]
HostPending == hostRequest.state = "pending"

AppHostTypeOK ==
  /\ hostScope \in HostScopes /\ hostSecret \in 0..MaxHostSecret
  /\ hostUsed \in BOOLEAN /\ hostLive \in BOOLEAN /\ hostAsked \in 0..MaxHostAsks
  /\ hostRequest \in [id : 0..MaxHostAsks, state : {"none", "pending", "denied", "expired"}]

AppHostInit ==
  /\ hostScope \in HostScopes /\ hostSecret = 0
  /\ hostUsed = FALSE /\ hostLive = FALSE
  /\ hostRequest = NoHostRequest /\ hostAsked = 0

\* POST /pair with the current code.
HostPairs ==
  /\ ~hostUsed
  /\ hostUsed' = TRUE /\ hostLive' = TRUE
  /\ UNCHANGED <<hostScope, hostSecret, hostRequest, hostAsked>>

\* Logout, expiry, a withdrawn approval.
HostEnds ==
  /\ hostLive' = FALSE /\ hostRequest' \in {hostRequest, NoHostRequest}
  /\ UNCHANGED <<hostScope, hostSecret, hostUsed, hostAsked>>

\* POST /workspace-request: shown to the host, or dropped when that fails.
HostIsAsked ==
  /\ hostLive /\ ~HostPending /\ hostAsked < MaxHostAsks
  /\ hostAsked' = hostAsked + 1
  /\ hostRequest' \in {NoHostRequest, [id |-> hostAsked + 1, state |-> "pending"]}
  /\ UNCHANGED <<hostScope, hostSecret, hostUsed, hostLive>>

\* The operator denies the request, or lets it expire.
HostLeaves(state) ==
  /\ HostPending /\ hostRequest' = [hostRequest EXCEPT !.state = state]
  /\ UNCHANGED <<hostScope, hostSecret, hostUsed, hostLive, hostAsked>>

\* The operator selects a workspace or approves the request.
HostSelects(w) ==
  /\ hostSecret < MaxHostSecret /\ hostSecret' = hostSecret + 1
  /\ hostScope' = w
  /\ hostUsed' = FALSE /\ hostLive' = FALSE /\ hostRequest' = NoHostRequest
  /\ UNCHANGED hostAsked

AppHostNext ==
  \/ HostPairs \/ HostEnds \/ HostIsAsked
  \/ \E state \in {"denied", "expired"} : HostLeaves(state)
  \/ \E w \in HostScopes : HostSelects(w)

AppHostSpec == AppHostInit /\ [][AppHostNext]_apphost
=============================================================================
