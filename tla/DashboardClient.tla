-------------------------- MODULE DashboardClient --------------------------
(***************************************************************************)
(* DashboardClient (packages/client/src/client.ts): one client's selection,*)
(* its reads under way and its cache of answers, which outlives selections.*)
(***************************************************************************)
EXTENDS GatewayReads

CONSTANTS
  Methods,        \* a method with its params
  MaxSelections   \* bound on selectionEpoch

ASSUME ClientAssumption == Methods # {} /\ MaxSelections \in Nat

VARIABLES
  selection,   \* scope and selectionEpoch
  cache,       \* key -> entry
  queries,     \* queries under way
  given        \* history: the answer given last, by a query or by the cache

clientvars == <<selection, cache, queries, given>>

Key == [scope : Scope, method : Methods]
NothingGiven == {}

ClientTypeOK ==
  /\ selection \in [scope : Scope, epoch : 0..MaxSelections]
  /\ \A k \in DOMAIN cache : k.method \in Methods
  /\ \A k \in DOMAIN cache : cache[k] \in [value : Scope, method : Methods, old : BOOLEAN]
  /\ queries \subseteq [key : Key, epoch : 0..MaxSelections, cached : BOOLEAN]
  /\ Cardinality(given) <= 1

KeyOf(s, m) == [scope |-> s, method |-> m]

Gives(value, method, key, epoch) ==
  given' = {[value |-> value, method |-> method, key |-> key, asked |-> epoch,
             selection |-> selection]}

\* query(): the cached answer, if there is one within its ttl, unless the
\* caller wants none; else the request is sent.
Hit(k) == k \in DOMAIN cache /\ ~cache[k].old
Query(m, noCache) ==
  LET k == KeyOf(selection.scope, m) IN
  IF ~noCache /\ Hit(k)
  THEN /\ Gives(cache[k].value, cache[k].method, [scope |-> selection.scope, method |-> m],
                selection.epoch)
       /\ UNCHANGED <<selection, cache, queries>>
  ELSE /\ queries' = queries \cup {[key |-> [scope |-> selection.scope, method |-> m],
                                    epoch |-> selection.epoch, cached |-> ~noCache]}
       /\ UNCHANGED <<selection, cache, given>>

\* The rest of query(): of an answer of an earlier selection, of another
\* system, or an error, the caller gets an exception and the cache nothing.
OfScope(q) == q.key.scope = selection.scope
OfSelection(q) == q.epoch = selection.epoch
QuerySettles(q) ==
  /\ queries' = queries \ {q} /\ UNCHANGED selection
  /\ \/ UNCHANGED <<cache, given>>
     \/ /\ OfSelection(q)
        /\ Gives(q.key.scope, q.key.method, q.key, q.epoch)
        /\ cache' = IF ~q.cached THEN cache
                    ELSE LET k == KeyOf(q.key.scope, q.key.method)
                             e == [value |-> q.key.scope, method |-> q.key.method, old |-> FALSE]
                         IN [x \in DOMAIN cache \cup {k} |-> IF x = k THEN e ELSE cache[x]]

ClientRetarget(s) ==
  /\ selection.epoch < MaxSelections
  /\ selection' = [scope |-> s, epoch |-> selection.epoch + 1]
  /\ UNCHANGED <<cache, queries, given>>

ClearCache == cache # << >> /\ cache' = << >> /\ UNCHANGED <<selection, queries, given>>

\* The ttl of an entry passes.
EntryAges(k) ==
  /\ ~cache[k].old /\ cache' = [cache EXCEPT ![k].old = TRUE]
  /\ UNCHANGED <<selection, queries, given>>

ClientInit ==
  /\ selection \in [scope : Scope, epoch : {0}]
  /\ cache = << >> /\ queries = {} /\ given = NothingGiven

ClientNext ==
  \/ \E m \in Methods, noCache \in BOOLEAN : Query(m, noCache)
  \/ \E q \in queries : QuerySettles(q)
  \/ \E s \in Scope : ClientRetarget(s)
  \/ \E k \in DOMAIN cache : EntryAges(k)
  \/ ClearCache

ClientSpec == ClientInit /\ [][ClientNext]_clientvars

----------------------------------------------------------------------------
\* An answer given is to the very question, of the selection it was asked in,
\* whichever selections came in between (70), and what the cache gives was kept
\* for that question: "two panels on different systems never share entries"
\* (13-14).
AnswersOfSelection ==
  /\ ClientTypeOK
  /\ \A g \in given :
       /\ g.value = g.key.scope /\ g.method = g.key.method
       /\ g.asked = g.selection.epoch /\ g.key.scope = g.selection.scope
=============================================================================
