--------------------------- MODULE SystemRegistry ---------------------------
(***************************************************************************)
(* SystemRegistry (packages/registry/src/registry.ts): the AI-Verse OS     *)
(* installations a Dashboard host has approved.  An approval binds a       *)
(* system id to one directory, by its real path and its filesystem         *)
(* identity (device, inode, birth time); what happens to the disk behind   *)
(* the registry's back is only noticed when a system is used.              *)
(*                                                                         *)
(* Other parts of the host capture a lease of a binding (its root and its  *)
(* generation) when they are built, and compare it at every use.           *)
(***************************************************************************)
EXTENDS Naturals, FiniteSets

CONSTANTS
  Ids, NoId,         \* system ids; no id (and no root)
  Roots,             \* canonical real paths a host may approve
  Inside,            \* pairs <<child, parent>> of Roots, child below parent
  Objects, NoObject, \* filesystem identities; nothing usable at a path
  AutoId,            \* AutoId[n]: the id register gives by itself ("aiverse-0n")
  MaxSerial,         \* bound on approvals (2^53 - 1 in the code)
  MaxCounter         \* bound on ids given by register

ASSUME RegistryAssumption ==
  /\ NoId \notin Ids \cup Roots
  /\ NoObject \notin Objects
  /\ Inside \subseteq Roots \X Roots
  /\ MaxSerial \in Nat /\ MaxCounter \in Nat
  /\ AutoId \in [1..MaxCounter -> Ids]

VARIABLES
  disk,        \* what is at each path
  compatible,  \* the directories whose contents are a compatible OS
  byId,        \* the connection record of each system
  byRoot,      \* the system registered at each path
  generations, \* bindingGenerations, 0 for none
  serial,      \* bindingSerial
  counter,     \* the last id given by register itself
  leases       \* every lease captured so far

rvars == <<disk, compatible, byId, byRoot, generations, serial, counter, leases>>
environment == <<disk, compatible>>

----------------------------------------------------------------------------
Record == [root : Roots, identity : Objects, drifted : BOOLEAN, authorized : BOOLEAN]
NoRecord == [root |-> NoId, identity |-> NoObject, drifted |-> FALSE, authorized |-> FALSE]
Lease == [id : Ids, root : Roots, generation : Nat, identity : Objects]

RegistryTypeOK ==
  /\ disk \in [Roots -> Objects \cup {NoObject}]
  /\ compatible \in SUBSET Objects
  /\ byId \in [Ids -> Record \cup {NoRecord}]
  /\ byRoot \in [Roots -> Ids \cup {NoId}]
  /\ generations \in [Ids -> Nat]
  /\ serial \in Nat /\ counter \in Nat
  /\ leases \in SUBSET Lease

Registered(id) == byId[id] # NoRecord
Within(r, s) == r = s \/ <<r, s>> \in Inside

----------------------------------------------------------------------------
(* Helpers of the registry *)

\* validateBindingCandidate(): a compatible OS whose directory is the same
\* before and after its contents were validated.
Approvable(r) == disk[r] \in compatible

\* assertNoOverlap(): equal to, below or above the root of another system.
OverlapsBelow(r, s) == Within(r, s)
Overlaps(r, s) == Within(r, s) \/ Within(s, r)
NoOverlap(r, own) ==
  \A s \in Roots : byRoot[s] \notin {NoId, own} => ~Overlaps(r, s)

\* bumpBindingGeneration(): one serial for all systems.
NextOfSystem(id) == generations[id] + 1
NextGeneration(id) == serial + 1
BumpBindingGeneration(id) ==
  /\ serial < MaxSerial
  /\ serial' = serial + 1
  /\ generations' = [generations EXCEPT ![id] = NextGeneration(id)]

Approved(r) == [root |-> r, identity |-> disk[r], drifted |-> FALSE, authorized |-> TRUE]

\* assertRootBinding(), markIdentityDrift(): a use of an authorized system
\* whose directory is no longer the approved one withdraws the approval.
Drifts(rec) == disk[rec.root] # rec.identity
Drifted(rec) == [rec EXCEPT !.authorized = FALSE, !.drifted = TRUE]

\* resolveRoot() succeeds; what it leaves behind in either case.
Resolves(id) == Registered(id) /\ byId[id].authorized /\ ~Drifts(byId[id])
AfterUse(id) ==
  IF Registered(id) /\ byId[id].authorized /\ Drifts(byId[id])
  THEN [byId EXCEPT ![id] = Drifted(byId[id])] ELSE byId

\* A holder's check of its lease: resolveRoot and bindingGeneration.
Holds(l) == Resolves(l.id) /\ byId[l.id].root = l.root /\ generations[l.id] = l.generation

----------------------------------------------------------------------------
(* Operations *)

Enter(id, r) ==
  /\ byId' = [byId EXCEPT ![id] = Approved(r)]
  /\ byRoot' = [byRoot EXCEPT ![r] = id]
  /\ BumpBindingGeneration(id)

\* register() under an id the host chose.
RegisterAs(id, r) ==
  /\ Approvable(r) /\ NoOverlap(r, NoId) /\ ~Registered(id)
  /\ Enter(id, r)
  /\ UNCHANGED <<environment, counter, leases>>

\* register() under the next automatic id: the counter moves even when the
\* host has given that id to another system before, and the call fails.
RegisterNext(r) ==
  /\ counter < MaxCounter
  /\ Approvable(r) /\ NoOverlap(r, NoId)
  /\ counter' = counter + 1
  /\ LET id == AutoId[counter + 1] IN
       IF Registered(id) THEN UNCHANGED <<byId, byRoot, generations, serial>>
       ELSE Enter(id, r)
  /\ UNCHANGED <<environment, leases>>

\* rebind(): the only operation that clears a drift.
FreeOldRoot(id) ==
  IF byRoot[byId[id].root] = id THEN [byRoot EXCEPT ![byId[id].root] = NoId] ELSE byRoot
Rebind(id, r) ==
  /\ Registered(id) /\ Approvable(r) /\ NoOverlap(r, id)
  /\ byId' = [byId EXCEPT ![id] = Approved(r)]
  /\ byRoot' = [FreeOldRoot(id) EXCEPT ![r] = id]
  /\ BumpBindingGeneration(id)
  /\ UNCHANGED <<environment, counter, leases>>

Unregister(id) ==
  /\ Registered(id)
  /\ byId' = [byId EXCEPT ![id] = NoRecord]
  /\ generations' = [generations EXCEPT ![id] = 0]
  /\ byRoot' = FreeOldRoot(id)
  /\ UNCHANGED <<environment, serial, counter, leases>>

\* Any use of the system that fails because its directory has changed.
ResolveRoot(id) ==
  /\ AfterUse(id) # byId
  /\ byId' = AfterUse(id)
  /\ UNCHANGED <<environment, byRoot, generations, serial, counter, leases>>

\* revalidate(): an incompatible system loses its authorization and gets it
\* back when it is compatible again; a drifted one does not.
RecheckDrifted(id) == TRUE
Recheckable(id) == ~byId[id].drifted
Rechecked(rec) ==
  IF Drifts(rec) THEN Drifted(rec)
  ELSE [rec EXCEPT !.authorized = (disk[rec.root] \in compatible)]
Revalidate(id) ==
  /\ Registered(id) /\ Recheckable(id)
  /\ byId' = [byId EXCEPT ![id] = Rechecked(byId[id])]
  /\ UNCHANGED <<environment, byRoot, generations, serial, counter, leases>>

\* A holder captures resolveRoot() and bindingGeneration().
CaptureLease(id) ==
  /\ Resolves(id)
  /\ leases' = leases \cup {[id |-> id, root |-> byId[id].root,
                             generation |-> generations[id],
                             identity |-> byId[id].identity]}
  /\ UNCHANGED <<environment, byId, byRoot, generations, serial, counter>>

\* The disk changes by itself: a directory is moved away, replaced, restored;
\* nothing exists below a path where nothing exists.
DiskChanges(r, o) ==
  /\ disk[r] # o
  /\ o # NoObject => \A p \in Inside : p[1] = r => disk[p[2]] # NoObject
  /\ disk' = [s \in Roots |-> IF s = r THEN o
                              ELSE IF o = NoObject /\ <<s, r>> \in Inside THEN NoObject
                              ELSE disk[s]]
  /\ UNCHANGED <<compatible, byId, byRoot, generations, serial, counter, leases>>

ContentsChange(o) ==
  /\ compatible' = IF o \in compatible THEN compatible \ {o} ELSE compatible \cup {o}
  /\ UNCHANGED <<disk, byId, byRoot, generations, serial, counter, leases>>

----------------------------------------------------------------------------
RegistryInit ==
  /\ disk \in [Roots -> Objects \cup {NoObject}]
  /\ \A p \in Inside : disk[p[1]] # NoObject => disk[p[2]] # NoObject
  /\ compatible = Objects
  /\ byId = [id \in Ids |-> NoRecord]
  /\ byRoot = [r \in Roots |-> NoId]
  /\ generations = [id \in Ids |-> 0]
  /\ serial = 0 /\ counter = 0 /\ leases = {}

HostNext ==
  \/ \E id \in Ids, r \in Roots : RegisterAs(id, r) \/ Rebind(id, r)
  \/ \E r \in Roots : RegisterNext(r)
  \/ \E id \in Ids : Unregister(id) \/ ResolveRoot(id) \/ Revalidate(id) \/ CaptureLease(id)

DiskNext ==
  \/ \E r \in Roots, o \in Objects \cup {NoObject} : DiskChanges(r, o)
  \/ \E o \in Objects : ContentsChange(o)

RegistryNext == HostNext \/ DiskNext

RegistrySpec == RegistryInit /\ [][RegistryNext]_rvars

----------------------------------------------------------------------------
(* Properties *)

\* The two indices agree and no two systems share a directory, one inside
\* the other or the same: "each registered OS is a separate boundary"
\* (README; assertNoOverlap, 130-147).
RootsApart ==
  /\ \A id \in Ids, r \in Roots : byRoot[r] = id <=> byId[id].root = r
  /\ \A r, s \in Roots : r # s /\ byRoot[r] # NoId /\ byRoot[s] # NoId => ~Overlaps(r, s)

\* A lease that still passes its holder's check reaches the very directory
\* that was approved when it was captured: a system id registered again at
\* the same path does not revive it (113-122).
LeaseNamesOneBinding ==
  \A l \in leases : Holds(l) => byId[l.id].identity = l.identity /\ disk[l.root] = l.identity

\* A lease withdrawn by a drift, a rebind or an unregister is withdrawn for
\* ever: neither the old directory put back nor a revalidation restores it
\* ("Identity drift is sticky", 303-304).
Withdrawn(l) ==
  ~Registered(l.id) \/ generations[l.id] # l.generation \/ byId[l.id].drifted
LeaseNeverReturns ==
  [][\A l \in leases : Withdrawn(l) => Withdrawn(l)' /\ ~Holds(l)']_rvars
=============================================================================
