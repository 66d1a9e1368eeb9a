------------------------------ MODULE LiveProofs ------------------------------
(***************************************************************************)
(* What LiveSessions keeps, for every set of systems, workspaces and       *)
(* sockets and every bound: SendSettledOnce, SocketInScope, CachedIsCurrent *)
(* and SystemsApart of LiveReads.                                          *)
(*                                                                         *)
(* LiveInv is the inductive invariant.  Its SendWell says of one send what *)
(* its session's transcript, its answer and the events told must agree on; *)
(* OnlyOwn says that nothing else bears the ids of the send, so that steps *)
(* of other sends, of the host and of other systems leave it alone.        *)
(* ReadsAgree is left to TLC: its pages are a recursion over transcripts.  *)
(***************************************************************************)
EXTENDS LiveReads, FiniteSetTheorems, TLAPS

\* What a send is told of: its reply, or its error.
Tells == {"chat.message", "error-event"}
EventNames ==
  Tells \cup {"chat.aborted", "tool.started", "tool.finished", "run-event", "source.changed"}
Tellers == {"adapter", "host", "watcher"}
Statuses == SessionStatus \cup {"none"}
WsOf == Workspaces \cup {None}
Pairs == Systems \X SessionIds
Line == [id : EntryIds, kind : Kinds, role : {"user", "agent", "system"}, sys : Systems,
         ws : WsOf, session : SessionIds]
Session == [ws : WsOf, status : Statuses, entries : Seq(Line), reopened : BOOLEAN]
Payload == [session : SessionIds \cup {None}, entry : EntryIds \cup {None}]
Event == [sys : Systems, ws : Workspaces, seq : Nat, name : EventNames, payload : Payload,
          by : Tellers]
CallOf == [phase : CallPhases, sys : Systems \cup {None}, session : SessionIds \cup {None},
           child : {"alive", "killed", "gone"}, timer : BOOLEAN]

ToldTypes ==
  /\ seqBySystem \in [Systems -> Nat]
  /\ seen \subseteq (Systems \X Workspaces \X EventNames \X Payload) /\ IsFiniteSet(seen)
  /\ inbox \in [Sockets -> Seq(Event)]
  /\ \A s \in Systems : Cardinality({y \in seen : y[1] = s}) <= seqBySystem[s]

SocketTypes ==
  /\ selected \in [Sockets -> WsOf] /\ sub \in [Sockets -> WsOf] /\ stream \in [Sockets -> WsOf]
  /\ open \subseteq Sockets

DiskTypes ==
  /\ watched \subseteq Known /\ changed \subseteq watched
  /\ file \in [Known -> Version] /\ cached \subseteq Projection

CallTypes ==
  calls \in [Sends -> CallOf] /\ \A c \in Sends : calls[c].phase = "none" => calls[c] = NoCall

StoreTypes ==
  /\ sessions \in [Pairs -> Session]
  /\ created \in Seq(Pairs) /\ IsInjective(created)
  /\ ToSet(created) = {p \in Pairs : sessions[p] # NoSession}
  /\ counter \in 0..MaxAuto
  /\ adapters \in [Systems -> Seq(Names)] /\ \A s \in Systems : IsInjective(adapters[s])
  /\ CallTypes

\* A projection is of a stat that was taken, with the text of that moment or
\* of a later one.
CacheWell ==
  \A e \in cached : /\ <<e.sys, e.ws>> \in Known
                    /\ e.key <= e.body /\ e.body <= file[<<e.sys, e.ws>>]

\* A socket is told what its system has numbered, in that order.
SocketsWell ==
  \A c \in Sockets :
    /\ stream[c] # None => stream[c] = selected[c]
    /\ sub[c] # None => sub[c] = selected[c] /\ stream[c] \in {None, sub[c]}
    /\ \A i \in DOMAIN inbox[c] :
         /\ inbox[c][i].sys = SystemOf[c] /\ inbox[c][i].ws = selected[c]
         /\ inbox[c][i].seq <= seqBySystem[SystemOf[c]]
         /\ i > 1 => inbox[c][i - 1].seq < inbox[c][i].seq

Reopened(s, k) == sessions[<<s, k>>].reopened
Ended(s, k) == Closed(s, k) \/ Reopened(s, k)

\* A session an adapter told a socket is aborted is closed, unless the host
\* opened it again, and until then no adapter tells it of a send in it.
AbortsWell ==
  \A c \in Sockets :
    /\ \A i \in DOMAIN inbox[c] : ByAdapter(inbox[c][i], {"chat.aborted"}) =>
         /\ inbox[c][i].payload.session \in SessionIds
         /\ Ended(SystemOf[c], inbox[c][i].payload.session)
    /\ \A i, j \in DOMAIN inbox[c] :
         /\ i < j /\ ByAdapter(inbox[c][i], {"chat.aborted"})
         /\ inbox[c][j].payload.session = inbox[c][i].payload.session
         /\ ~Reopened(SystemOf[c], inbox[c][i].payload.session)
         => ~ByAdapter(inbox[c][j], Tells)

\* A session that exists has a workspace and a status, and its entries are its
\* own; one that does not has nothing.
StoreWell ==
  \A p \in Pairs :
    /\ sessions[p].status = "none" <=> sessions[p] = NoSession
    /\ sessions[p] # NoSession => sessions[p].ws \in Workspaces
    /\ Len(sessions[p].entries) <= MaxEntries
    /\ \A i \in DOMAIN sessions[p].entries :
         LET e == sessions[p].entries[i]
         IN e.sys = p[1] /\ e.session = p[2] /\ e.ws = sessions[p].ws

Mine(c) == {UserId(c), ReplyId(c), ErrorId(c)}
Once(entries, id) ==
  \E i \in DOMAIN entries : entries[i].id = id /\ \A j \in DOMAIN entries : entries[j].id = id => j = i
Never(entries, id) == \A i \in DOMAIN entries : entries[i].id # id

\* The ids of a send are in its session, and told, once it is made.
OnlyOwn ==
  /\ \A p \in Pairs : \A i \in DOMAIN sessions[p].entries : \A c \in Sends :
       sessions[p].entries[i].id \in Mine(c) =>
         calls[c].phase # "none" /\ calls[c].sys = p[1] /\ calls[c].session = p[2]
  /\ \A y \in seen, c \in Sends :
       y[3] \in Tells /\ y[4].entry \in Mine(c) => calls[c].phase # "none"

Told(s, k, name, id) == \E w \in Workspaces : Key(s, w, name, About(k, id)) \in seen

SendWell(c) ==
  LET call == calls[c]
      entries == sessions[<<call.sys, call.session>>].entries
  IN /\ call.sys \in Systems /\ call.session \in SessionIds
     /\ Once(entries, UserId(c))
     /\ call.phase = "accepted" =>
          /\ Once(entries, ReplyId(c))
          /\ \A i, j \in DOMAIN entries :
               entries[i].id = UserId(c) /\ entries[j].id = ReplyId(c) => i < j
     /\ call.phase # "accepted" => Never(entries, ReplyId(c))
     /\ Once(entries, ErrorId(c)) \/ Never(entries, ErrorId(c))
     /\ call.phase # "failed" => Never(entries, ErrorId(c))
     /\ Told(call.sys, call.session, "chat.message", ReplyId(c)) <=> ~Never(entries, ReplyId(c))
     /\ Told(call.sys, call.session, "error-event", ErrorId(c)) <=> ~Never(entries, ErrorId(c))
     /\ call.phase = "waiting" <=> call.child = "alive"
     /\ call.phase = "waiting" <=> call.timer
SendsWell == \A c \in Sends : calls[c].phase # "none" => SendWell(c)

LiveInv ==
  /\ ToldTypes /\ SocketTypes /\ DiskTypes /\ StoreTypes /\ CacheWell /\ SocketsWell /\ AbortsWell
  /\ StoreWell /\ OnlyOwn /\ SendsWell

-----------------------------------------------------------------------------
(* Sequences *)

LEMMA AppendFacts ==
  ASSUME NEW S, NEW q \in Seq(S), NEW e \in S
  PROVE  /\ Append(q, e) \in Seq(S) /\ Len(q) \in Nat /\ Len(Append(q, e)) = Len(q) + 1
         /\ DOMAIN q = 1..Len(q) /\ DOMAIN Append(q, e) = 1..(Len(q) + 1)
         /\ \A i \in 1..Len(q) : Append(q, e)[i] = q[i]
         /\ Append(q, e)[Len(q) + 1] = e
OBVIOUS

LEMMA AppendNew ==
  ASSUME NEW S, NEW q \in Seq(S), NEW e \in S, IsInjective(q), ~Contains(q, e)
  PROVE  /\ Append(q, e) \in Seq(S) /\ IsInjective(Append(q, e))
         /\ ToSet(Append(q, e)) = ToSet(q) \cup {e}
<1>1. /\ Append(q, e) \in Seq(S) /\ Len(q) \in Nat
      /\ DOMAIN q = 1..Len(q) /\ DOMAIN Append(q, e) = 1..(Len(q) + 1)
      /\ \A i \in 1..Len(q) : Append(q, e)[i] = q[i]
      /\ Append(q, e)[Len(q) + 1] = e
  BY AppendFacts
<1>2. \A i \in 1..Len(q) : q[i] # e BY <1>1 DEF Contains
<1>3. \A i, j \in 1..Len(q) : q[i] = q[j] => i = j BY <1>1 DEF IsInjective
<1>4. IsInjective(Append(q, e))
  <2>1. ASSUME NEW i \in 1..(Len(q) + 1), NEW j \in 1..(Len(q) + 1),
               Append(q, e)[i] = Append(q, e)[j]
        PROVE  i = j
    BY <1>1, <1>2, <1>3, <2>1
  <2>2. QED BY <1>1, <2>1 DEF IsInjective
<1>5. ToSet(Append(q, e)) = ToSet(q) \cup {e}
  <2>1. \A i \in 1..(Len(q) + 1) : i \in 1..Len(q) \/ i = Len(q) + 1 BY <1>1
  <2>2. \A i \in 1..Len(q) : i \in 1..(Len(q) + 1) BY <1>1
  <2>3. Len(q) + 1 \in 1..(Len(q) + 1) BY <1>1
  <2>4. \A x \in ToSet(Append(q, e)) : x \in ToSet(q) \cup {e} BY <1>1, <2>1 DEF ToSet
  <2>5. \A x \in ToSet(q) \cup {e} : x \in ToSet(Append(q, e)) BY <1>1, <2>2, <2>3 DEF ToSet
  <2>6. QED BY <2>4, <2>5
<1>6. QED BY <1>1, <1>4, <1>5

-----------------------------------------------------------------------------
(* The hub *)

\* The event of a step that tells something.
EventOf(s, w, name, payload, by) ==
  [sys |-> s, ws |-> w, seq |-> seqBySystem[s] + 1, name |-> name, payload |-> payload, by |-> by]

\* What is told, and to whom.
LEMMA PublishTells ==
  ASSUME ToldTypes, NEW s \in Systems, NEW w \in Workspaces, NEW name \in EventNames,
         NEW payload \in Payload, NEW by \in Tellers, Publish(s, w, name, payload, by)
  PROVE  /\ seen \subseteq seen' /\ Key(s, w, name, payload) \in seen'
         /\ \A y \in seen' : y \in seen \/ y = Key(s, w, name, payload)
         /\ \A t \in Systems : t # s => seqBySystem'[t] = seqBySystem[t]
         /\ \A c \in Sockets :
              \/ inbox'[c] = inbox[c]
              \/ /\ SystemOf[c] = s /\ sub[c] = w
                 /\ inbox'[c] = Append(inbox[c], EventOf(s, w, name, payload, by))
                 /\ seqBySystem'[s] = seqBySystem[s] + 1
<1>1. CASE Key(s, w, name, payload) \in seen /\ UNCHANGED hub BY <1>1 DEF hub
<1>2. CASE Deliver(s, w, name, payload, by)
  <2>1. /\ seqBySystem' = [seqBySystem EXCEPT ![s] = seqBySystem[s] + 1]
        /\ seen' = seen \cup {Key(s, w, name, payload)}
        /\ inbox' = [c \in Sockets |->
             IF c \in Subscribed(s, w) THEN Append(inbox[c], EventOf(s, w, name, payload, by))
             ELSE inbox[c]]
    BY <1>2 DEF Deliver, EventOf
  <2>2. seqBySystem'[s] = seqBySystem[s] + 1 BY <2>1 DEF ToldTypes
  <2>3. \A t \in Systems : t # s => seqBySystem'[t] = seqBySystem[t] BY <2>1 DEF ToldTypes
  <2>4. QED BY <2>1, <2>2, <2>3 DEF Subscribed
<1>3. QED BY <1>1, <1>2 DEF Publish

LEMMA PublishTypes ==
  ASSUME ToldTypes, NEW s \in Systems, NEW w \in Workspaces, NEW name \in EventNames,
         NEW payload \in Payload, NEW by \in Tellers, Publish(s, w, name, payload, by)
  PROVE  ToldTypes'
<1>1. CASE UNCHANGED hub BY <1>1 DEF hub, ToldTypes
<1>2. CASE Deliver(s, w, name, payload, by)
  <2>1. PICK k : k = Key(s, w, name, payload) OBVIOUS
  <2>2. seen' = seen \cup {k} /\ k \in Systems \X Workspaces \X EventNames \X Payload
    BY <1>2, <2>1 DEF Deliver, Key
  <2>3. IsFiniteSet(seen') BY <2>2, FS_AddElement DEF ToldTypes
  <2>4. /\ seqBySystem' = [seqBySystem EXCEPT ![s] = seqBySystem[s] + 1]
        /\ seqBySystem' \in [Systems -> Nat]
    BY <1>2 DEF Deliver, ToldTypes
  <2>5. \A c \in Sockets : inbox'[c] \in Seq(Event)
    <3>1. EventOf(s, w, name, payload, by) \in Event BY DEF EventOf, Event, ToldTypes
    <3>2. ASSUME NEW c \in Sockets PROVE inbox'[c] \in Seq(Event)
      <4>1. inbox[c] \in Seq(Event) BY DEF ToldTypes
      <4>2. inbox'[c] = inbox[c] \/ inbox'[c] = Append(inbox[c], EventOf(s, w, name, payload, by))
        BY <3>2, PublishTells
      <4>3. QED BY <3>1, <4>1, <4>2
    <3>3. QED BY <3>2
  <2>6. inbox' \in [Sockets -> Seq(Event)]
    <3>1. inbox' = [c \in Sockets |-> inbox'[c]] BY <1>2 DEF Deliver
    <3>2. QED BY <2>5, <3>1
  <2>7. ASSUME NEW t \in Systems
        PROVE  Cardinality({y \in seen' : y[1] = t}) <= seqBySystem'[t]
    <3> DEFINE old == {y \in seen : y[1] = t}
    <3>1. IsFiniteSet(old) /\ Cardinality(old) \in Nat
      BY FS_Subset, FS_CardinalityType DEF ToldTypes
    <3>2. Cardinality(old) <= seqBySystem[t] /\ seqBySystem[t] \in Nat BY DEF ToldTypes
    <3>3. CASE t = s
      <4>1. k[1] = t BY <2>1, <3>3 DEF Key
      <4>2. {y \in seen' : y[1] = t} = old \cup {k} BY <2>2, <4>1
      <4>3. Cardinality(old \cup {k}) \in {Cardinality(old), Cardinality(old) + 1}
        BY <3>1, FS_AddElement DEF ToldTypes
      <4>4. seqBySystem'[t] = seqBySystem[t] + 1 BY <2>4, <3>3 DEF ToldTypes
      <4>5. PICK m : m = Cardinality({y \in seen' : y[1] = t}) OBVIOUS
      <4>6. PICK n : n = Cardinality(old) OBVIOUS
      <4>7. n \in Nat /\ n <= seqBySystem[t] /\ m \in {n, n + 1}
        BY <3>1, <3>2, <4>2, <4>3, <4>5, <4>6
      <4>8. m <= seqBySystem'[t] BY <3>2, <4>4, <4>7
      <4>9. QED BY <4>5, <4>8
    <3>4. CASE t # s
      <4>1. k[1] # t BY <2>1, <3>4 DEF Key
      <4>2. {y \in seen' : y[1] = t} = old BY <2>2, <4>1
      <4>3. seqBySystem'[t] = seqBySystem[t] BY <2>4, <3>4 DEF ToldTypes
      <4>4. QED BY <3>2, <4>2, <4>3
    <3>5. QED BY <3>3, <3>4
  <2>8. QED BY <2>2, <2>3, <2>4, <2>6, <2>7 DEF ToldTypes
<1>3. QED BY <1>1, <1>2 DEF Publish

LEMMA PublishSockets ==
  ASSUME ToldTypes, SocketTypes, SocketsWell, NEW s \in Systems, NEW w \in Workspaces,
         NEW name \in EventNames, NEW payload \in Payload, NEW by \in Tellers, Publish(s, w, name, payload, by),
         UNCHANGED socketVars
  PROVE  SocketsWell'
<1>1. selected' = selected /\ sub' = sub /\ stream' = stream BY DEF socketVars
<1>2. \A t \in Systems : seqBySystem[t] \in Nat /\ seqBySystem'[t] \in Nat
                         /\ seqBySystem[t] <= seqBySystem'[t]
  <2>1. UNCHANGED hub \/ seqBySystem' = [seqBySystem EXCEPT ![s] = seqBySystem[s] + 1]
    BY DEF Publish, Deliver
  <2>2. QED BY <2>1 DEF hub, ToldTypes
<1>3. ASSUME NEW c \in Sockets, NEW i \in DOMAIN inbox'[c]
      PROVE  /\ inbox'[c][i].sys = SystemOf[c] /\ inbox'[c][i].ws = selected[c]
             /\ inbox'[c][i].seq <= seqBySystem'[SystemOf[c]]
             /\ i > 1 => inbox'[c][i - 1].seq < inbox'[c][i].seq
  <2>1. /\ inbox[c] \in Seq(Event) /\ SystemOf[c] \in Systems
        /\ DOMAIN inbox[c] = 1..Len(inbox[c]) /\ Len(inbox[c]) \in Nat
    BY HubAssumption DEF ToldTypes
  <2>2. \A j \in DOMAIN inbox[c] : inbox[c][j].seq \in Nat
    <3>1. \A j \in DOMAIN inbox[c] : inbox[c][j] \in Event BY <2>1
    <3>2. QED BY <3>1 DEF Event
  <2>3. \A j \in DOMAIN inbox[c] :
          /\ inbox[c][j].sys = SystemOf[c] /\ inbox[c][j].ws = selected[c]
          /\ inbox[c][j].seq <= seqBySystem[SystemOf[c]]
          /\ j > 1 => inbox[c][j - 1].seq < inbox[c][j].seq
    BY DEF SocketsWell
  <2>4. CASE inbox'[c] = inbox[c]
    <3>1. PICK q : q = inbox[c] OBVIOUS
    <3>2. i \in DOMAIN q /\ inbox'[c] = q BY <1>3, <2>4, <3>1
    <3>3. /\ q[i].sys = SystemOf[c] /\ q[i].ws = selected[c]
          /\ q[i].seq <= seqBySystem[SystemOf[c]] /\ (i > 1 => q[i - 1].seq < q[i].seq)
      BY <2>3, <3>1, <3>2
    <3>4. q[i].seq <= seqBySystem'[SystemOf[c]] BY <1>2, <2>1, <2>2, <3>1, <3>2, <3>3
    <3>5. QED BY <3>2, <3>3, <3>4
  <2>5. CASE /\ SystemOf[c] = s /\ sub[c] = w
             /\ inbox'[c] = Append(inbox[c], EventOf(s, w, name, payload, by))
             /\ seqBySystem'[s] = seqBySystem[s] + 1
    <3>1. PICK e : e = EventOf(s, w, name, payload, by) OBVIOUS
    <3>2. e \in Event /\ e.sys = s /\ e.ws = w /\ e.seq = seqBySystem[s] + 1
      BY <1>2, <3>1 DEF EventOf, Event
    <3>3. selected[c] = w
      <4>1. w # None BY HubAssumption
      <4>2. QED BY <2>5, <4>1 DEF SocketsWell
    <3>4. /\ DOMAIN inbox'[c] = 1..(Len(inbox[c]) + 1)
          /\ \A j \in 1..Len(inbox[c]) : inbox'[c][j] = inbox[c][j]
          /\ inbox'[c][Len(inbox[c]) + 1] = e
      BY <2>1, <2>5, <3>1, <3>2, AppendFacts
    <3>5. CASE i = Len(inbox[c]) + 1
      <4>1. i > 1 => inbox'[c][i - 1] = inbox[c][i - 1] /\ i - 1 \in DOMAIN inbox[c]
        BY <2>1, <3>4, <3>5
      <4>2. i > 1 => inbox[c][i - 1].seq < seqBySystem[s] + 1
        BY <1>2, <2>2, <2>3, <2>5, <4>1
      <4>3. QED BY <1>2, <2>5, <3>2, <3>3, <3>4, <3>5, <4>1, <4>2
    <3>6. CASE i \in 1..Len(inbox[c])
      <4>1. inbox'[c][i] = inbox[c][i] BY <3>4, <3>6
      <4>2. i > 1 => i - 1 \in 1..Len(inbox[c]) BY <2>1, <3>6
      <4>3. i > 1 => inbox'[c][i - 1] = inbox[c][i - 1] BY <3>4, <4>2
      <4>4. QED BY <1>2, <2>1, <2>2, <2>3, <2>5, <3>6, <4>1, <4>3
    <3>7. QED BY <1>3, <2>1, <3>4, <3>5, <3>6
  <2>6. QED BY <2>4, <2>5, PublishTells
<1>4. QED BY <1>1, <1>3 DEF SocketsWell

\* A session that takes a new value stays closed, or is opened again for good.
Outlives(old, x) ==
  /\ old.reopened => x.reopened
  /\ old.status \in ClosedStatus => x.status \in ClosedStatus \/ x.reopened
Lasts(s, k) == Outlives(sessions[<<s, k>>], sessions'[<<s, k>>])
ReopenedThen(s, k) == sessions'[<<s, k>>].reopened
EndedThen(s, k) == sessions'[<<s, k>>].status \in ClosedStatus \/ ReopenedThen(s, k)

LEMMA LastingFacts ==
  ASSUME NEW s, NEW k, Lasts(s, k)
  PROVE  /\ Ended(s, k) => EndedThen(s, k)
         /\ Reopened(s, k) => ReopenedThen(s, k)
BY DEF Lasts, Outlives, Ended, EndedThen, Closed, Reopened, ReopenedThen

\* A session that was open lasts whatever its new status.
LEMMA KeepsOpen ==
  ASSUME NEW s, NEW k, NEW x, ~Closed(s, k), x.reopened = sessions[<<s, k>>].reopened
  PROVE  Outlives(sessions[<<s, k>>], x)
BY DEF Outlives, Closed

\* No adapter tells of a send in a session after it told of its abort.
LEMMA PublishAborts ==
  ASSUME ToldTypes, AbortsWell, NEW s \in Systems, NEW w \in Workspaces,
         NEW name \in EventNames, NEW payload \in Payload, NEW by \in Tellers,
         Publish(s, w, name, payload, by),
         \A t \in Systems, k \in SessionIds : Lasts(t, k),
         by = "adapter" /\ name = "chat.aborted" =>
           payload.session \in SessionIds /\ EndedThen(s, payload.session),
         by = "adapter" /\ name \in Tells =>
           payload.session \in SessionIds /\ ~Closed(s, payload.session)
  PROVE  AbortsWell'
<1>1. ASSUME NEW c \in Sockets
      PROVE  /\ \A i \in DOMAIN inbox'[c] : ByAdapter(inbox'[c][i], {"chat.aborted"}) =>
                  /\ inbox'[c][i].payload.session \in SessionIds
                  /\ EndedThen(SystemOf[c], inbox'[c][i].payload.session)
             /\ \A i, j \in DOMAIN inbox'[c] :
                  /\ i < j /\ ByAdapter(inbox'[c][i], {"chat.aborted"})
                  /\ inbox'[c][j].payload.session = inbox'[c][i].payload.session
                  /\ ~ReopenedThen(SystemOf[c], inbox'[c][i].payload.session)
                  => ~ByAdapter(inbox'[c][j], Tells)
  <2>1. /\ inbox[c] \in Seq(Event) /\ SystemOf[c] \in Systems
        /\ DOMAIN inbox[c] = 1..Len(inbox[c]) /\ Len(inbox[c]) \in Nat
    BY HubAssumption DEF ToldTypes
  <2>2. PICK o : o = SystemOf[c] OBVIOUS
  <2>3. ASSUME NEW i \in DOMAIN inbox[c], ByAdapter(inbox[c][i], {"chat.aborted"})
        PROVE  /\ inbox[c][i].payload.session \in SessionIds
               /\ Ended(o, inbox[c][i].payload.session)
               /\ EndedThen(o, inbox[c][i].payload.session)
               /\ Reopened(o, inbox[c][i].payload.session) =>
                    ReopenedThen(o, inbox[c][i].payload.session)
    <3>1. PICK k : k = inbox[c][i].payload.session OBVIOUS
    <3>2. k \in SessionIds /\ Ended(o, k) BY <2>2, <2>3, <3>1 DEF AbortsWell
    <3>3. Lasts(o, k) BY <2>1, <2>2, <3>2
    <3>4. EndedThen(o, k) /\ (Reopened(o, k) => ReopenedThen(o, k)) BY <3>2, <3>3, LastingFacts
    <3>5. QED BY <3>1, <3>2, <3>4
  <2>4. ASSUME NEW i \in DOMAIN inbox[c], NEW j \in DOMAIN inbox[c], i < j,
               ByAdapter(inbox[c][i], {"chat.aborted"}),
               inbox[c][j].payload.session = inbox[c][i].payload.session,
               ~ReopenedThen(o, inbox[c][i].payload.session)
        PROVE  ~ByAdapter(inbox[c][j], Tells)
    <3>1. ~Reopened(o, inbox[c][i].payload.session) BY <2>3, <2>4
    <3>2. QED BY <2>2, <2>4, <3>1 DEF AbortsWell
  <2>5. CASE inbox'[c] = inbox[c]
    <3>1. PICK q : q = inbox[c] OBVIOUS
    <3>2. inbox'[c] = q BY <2>5, <3>1
    <3>3. QED BY <2>2, <2>3, <2>4, <3>1, <3>2
  <2>6. CASE /\ SystemOf[c] = s
             /\ inbox'[c] = Append(inbox[c], EventOf(s, w, name, payload, by))
    <3>1. PICK e : e = EventOf(s, w, name, payload, by) OBVIOUS
    <3>2. e \in Event /\ e.name = name /\ e.payload = payload /\ e.by = by
      BY <3>1 DEF EventOf, Event, ToldTypes
    <3>3. PICK now : now = inbox'[c] OBVIOUS
    <3>4. /\ DOMAIN now = 1..(Len(inbox[c]) + 1)
          /\ \A j \in 1..Len(inbox[c]) : now[j] = inbox[c][j]
          /\ now[Len(inbox[c]) + 1] = e
      BY <2>1, <2>6, <3>1, <3>2, <3>3, AppendFacts
    <3>5. ASSUME NEW i \in DOMAIN now, ByAdapter(now[i], {"chat.aborted"})
          PROVE  now[i].payload.session \in SessionIds /\ EndedThen(o, now[i].payload.session)
      <4>1. CASE i = Len(inbox[c]) + 1
        <5>1. by = "adapter" /\ name = "chat.aborted" BY <3>2, <3>4, <3>5, <4>1 DEF ByAdapter
        <5>2. payload.session \in SessionIds /\ EndedThen(s, payload.session) BY <5>1
        <5>3. now[i].payload.session = payload.session /\ o = s BY <2>2, <2>6, <3>2, <3>4, <4>1
        <5>4. QED BY <5>2, <5>3
      <4>2. CASE i \in 1..Len(inbox[c])
        <5>1. now[i] = inbox[c][i] /\ i \in DOMAIN inbox[c] BY <2>1, <3>4, <4>2
        <5>2. QED BY <2>3, <3>5, <5>1
      <4>3. QED BY <2>1, <3>4, <3>5, <4>1, <4>2
    <3>6. ASSUME NEW i \in DOMAIN now, NEW j \in DOMAIN now, i < j,
                 ByAdapter(now[i], {"chat.aborted"}),
                 now[j].payload.session = now[i].payload.session,
                 ~ReopenedThen(o, now[i].payload.session)
          PROVE  ~ByAdapter(now[j], Tells)
      <4>1. i \in 1..Len(inbox[c]) BY <2>1, <3>4, <3>6
      <4>2. now[i] = inbox[c][i] /\ i \in DOMAIN inbox[c] BY <2>1, <3>4, <4>1
      <4>3. CASE j \in 1..Len(inbox[c])
        <5>1. now[j] = inbox[c][j] /\ j \in DOMAIN inbox[c] BY <2>1, <3>4, <4>3
        <5>2. QED BY <2>4, <3>6, <4>2, <5>1
      <4>4. CASE j = Len(inbox[c]) + 1
        <5>1. PICK k : k = payload.session OBVIOUS
        <5>2. inbox[c][i].payload.session = k /\ o = s
          BY <2>2, <2>6, <3>2, <3>4, <3>6, <4>2, <4>4, <5>1
        <5>3. Ended(s, k) /\ (Reopened(s, k) => ReopenedThen(s, k)) BY <2>3, <3>6, <4>2, <5>2
        <5>4. ~ReopenedThen(s, k) BY <3>6, <4>2, <5>2
        <5>5. Closed(s, k) BY <5>3, <5>4 DEF Ended
        <5>6. ~(by = "adapter" /\ name \in Tells) BY <5>1, <5>5
        <5>7. QED BY <3>2, <3>4, <4>4, <5>6 DEF ByAdapter
      <4>5. QED BY <2>1, <3>4, <3>6, <4>3, <4>4
    <3>7. QED BY <2>2, <3>3, <3>5, <3>6
  <2>7. QED BY <2>5, <2>6, PublishTells
<1>2. QED BY <1>1 DEF AbortsWell, Ended, EndedThen, Closed, Reopened, ReopenedThen

-----------------------------------------------------------------------------
(* The sends a step leaves alone *)

\* The ids of a send are its own (the u-, a- and e- of the adapters).
LEMMA MineFacts ==
  /\ \A c, d \in Sends : \A id : id \in Mine(c) /\ id \in Mine(d) => c = d
  /\ \A c \in Sends : \A id \in HostIds \cup {None} : id \notin Mine(c)
  /\ \A c \in Sends : /\ UserId(c) # ReplyId(c) /\ UserId(c) # ErrorId(c) /\ ReplyId(c) # ErrorId(c)
                      /\ Mine(c) \subseteq EntryIds
<1>1. \A c, d \in Sends : \A id : id \in Mine(c) /\ id \in Mine(d) => c = d
  BY DEF Mine, UserId, ReplyId, ErrorId
<1>2. ASSUME NEW c \in Sends, NEW id \in HostIds \cup {None} PROVE id \notin Mine(c)
  <2>1. \A x \in {"u", "a", "e"} : <<x, c>> \in {"u", "a", "e"} \X (1..MaxSends) BY DEF Sends
  <2>2. Mine(c) \subseteq {"u", "a", "e"} \X (1..MaxSends)
    BY <2>1 DEF Mine, UserId, ReplyId, ErrorId
  <2>3. QED BY <2>2, LiveAssumption
<1>3. \A c \in Sends :
        UserId(c) # ReplyId(c) /\ UserId(c) # ErrorId(c) /\ ReplyId(c) # ErrorId(c)
  BY DEF UserId, ReplyId, ErrorId
<1>4. \A c \in Sends : Mine(c) \subseteq EntryIds BY DEF Mine, EntryIds
<1>5. QED BY <1>1, <1>2, <1>3, <1>4

LEMMA KeyFacts ==
  ASSUME NEW s, NEW w, NEW name, NEW k, NEW id
  PROVE  /\ Key(s, w, name, About(k, id))[3] = name
         /\ Key(s, w, name, About(k, id))[4] = About(k, id)
         /\ About(k, id).entry = id /\ About(k, id).session = k
BY DEF Key, About

\* A transcript is only added to.
Extends(p) ==
  /\ DOMAIN sessions[p].entries \subseteq DOMAIN sessions'[p].entries
  /\ \A i \in DOMAIN sessions[p].entries : sessions'[p].entries[i] = sessions[p].entries[i]

\* The host can know this id: if it is of a send, its entry was written.
HostKnows(id) ==
  \A d \in Sends : id \in Mine(d) => \E p \in Pairs : ~Never(sessions[p].entries, id)

\* The entries and the events that a step adds are of no send but c, if any.
AddsOnlyOf(c) ==
  /\ \A p \in Pairs : Extends(p)
  /\ \A p \in Pairs : \A i \in DOMAIN sessions'[p].entries \ DOMAIN sessions[p].entries :
       \/ sessions'[p].entries[i].id \in HostIds
       \/ /\ c \in Sends /\ sessions'[p].entries[i].id \in Mine(c)
          /\ calls'[c].sys = p[1] /\ calls'[c].session = p[2]
  /\ seen \subseteq seen'
  /\ \A y \in seen' \ seen :
       y[3] \notin Tells \/ HostKnows(y[4].entry) \/ (c \in Sends /\ y[4].entry \in Mine(c))

\* So every other send stays as well as it was.
LEMMA SendStays ==
  ASSUME OnlyOwn, NEW c, AddsOnlyOf(c), NEW d \in Sends, d # c, calls'[d] = calls[d], SendWell(d)
  PROVE  SendWell(d)'
<1>1. PICK s, k : s = calls[d].sys /\ k = calls[d].session OBVIOUS
<1>2. PICK old, now : old = sessions[<<s, k>>].entries /\ now = sessions'[<<s, k>>].entries OBVIOUS
<1>3. s \in Systems /\ k \in SessionIds /\ <<s, k>> \in Pairs BY <1>1 DEF SendWell, Pairs
<1>4. /\ DOMAIN old \subseteq DOMAIN now /\ \A i \in DOMAIN old : now[i] = old[i]
  BY <1>2, <1>3 DEF AddsOnlyOf, Extends
<1>5. \A i \in DOMAIN now \ DOMAIN old : now[i].id \notin Mine(d)
  BY <1>2, <1>3, MineFacts DEF AddsOnlyOf
<1>6. ASSUME NEW id \in Mine(d)
      PROVE  (Once(old, id) <=> Once(now, id)) /\ (Never(old, id) <=> Never(now, id))
  BY <1>4, <1>5 DEF Once, Never
<1>7. \A i, j \in DOMAIN now : now[i].id \in Mine(d) /\ now[j].id \in Mine(d) =>
        i \in DOMAIN old /\ j \in DOMAIN old /\ now[i] = old[i] /\ now[j] = old[j]
  BY <1>4, <1>5
<1>8. ASSUME NEW name \in Tells, NEW id \in Mine(d), Told(s, k, name, id) <=> ~Never(old, id)
      PROVE  Told(s, k, name, id)' <=> ~Never(old, id)
  <2>1. ASSUME NEW w, Key(s, w, name, About(k, id)) \in seen', Never(old, id)
        PROVE  Key(s, w, name, About(k, id)) \in seen
    <3>1. PICK y : y = Key(s, w, name, About(k, id)) OBVIOUS
    <3>2. y[3] = name /\ y[4].entry = id BY <3>1, KeyFacts
    <3>3. c \in Sends => id \notin Mine(c) BY <1>8, MineFacts
    <3>4. ~HostKnows(id)
      <4> SUFFICES ASSUME HostKnows(id) PROVE FALSE OBVIOUS
      <4>1. PICK p \in Pairs : ~Never(sessions[p].entries, id) BY <1>8 DEF HostKnows
      <4>2. p[1] = s /\ p[2] = k BY <1>1, <1>8, <4>1 DEF OnlyOwn, Never
      <4>3. p = <<s, k>> BY <4>2 DEF Pairs
      <4>4. QED BY <1>2, <2>1, <4>1, <4>3
    <3>5. QED BY <1>8, <2>1, <3>1, <3>2, <3>3, <3>4 DEF AddsOnlyOf
  <2>2. seen \subseteq seen' BY DEF AddsOnlyOf
  <2>3. QED BY <1>8, <2>1, <2>2 DEF Told
<1>9. UserId(d) \in Mine(d) /\ ReplyId(d) \in Mine(d) /\ ErrorId(d) \in Mine(d) BY DEF Mine
<1>10. "chat.message" \in Tells /\ "error-event" \in Tells BY DEF Tells
<1>11. PICK call : call = calls[d] OBVIOUS
<1>12. /\ Once(now, UserId(d))
       /\ call.phase = "accepted" =>
            /\ Once(now, ReplyId(d))
            /\ \A i, j \in DOMAIN now :
                 now[i].id = UserId(d) /\ now[j].id = ReplyId(d) => i < j
       /\ call.phase # "accepted" => Never(now, ReplyId(d))
       /\ Once(now, ErrorId(d)) \/ Never(now, ErrorId(d))
       /\ call.phase # "failed" => Never(now, ErrorId(d))
       /\ Told(s, k, "chat.message", ReplyId(d))' <=> ~Never(now, ReplyId(d))
       /\ Told(s, k, "error-event", ErrorId(d))' <=> ~Never(now, ErrorId(d))
       /\ call.phase = "waiting" <=> call.child = "alive"
       /\ call.phase = "waiting" <=> call.timer
  <2>1. /\ Once(old, UserId(d))
        /\ call.phase = "accepted" =>
             /\ Once(old, ReplyId(d))
             /\ \A i, j \in DOMAIN old :
                  old[i].id = UserId(d) /\ old[j].id = ReplyId(d) => i < j
        /\ call.phase # "accepted" => Never(old, ReplyId(d))
        /\ Once(old, ErrorId(d)) \/ Never(old, ErrorId(d))
        /\ call.phase # "failed" => Never(old, ErrorId(d))
        /\ Told(s, k, "chat.message", ReplyId(d)) <=> ~Never(old, ReplyId(d))
        /\ Told(s, k, "error-event", ErrorId(d)) <=> ~Never(old, ErrorId(d))
        /\ call.phase = "waiting" <=> call.child = "alive"
        /\ call.phase = "waiting" <=> call.timer
    BY <1>1, <1>2, <1>11 DEF SendWell
  <2>2. call.phase = "accepted" =>
          \A i, j \in DOMAIN now : now[i].id = UserId(d) /\ now[j].id = ReplyId(d) => i < j
    BY <1>7, <1>9, <2>1
  <2>3. QED BY <1>6, <1>8, <1>9, <1>10, <2>1, <2>2
<1>13. call = calls'[d] /\ s = calls'[d].sys /\ k = calls'[d].session BY <1>1, <1>11
<1>14. Told(s, k, "chat.message", ReplyId(d))' <=>
         \E w \in Workspaces : Key(s, w, "chat.message", About(k, ReplyId(d))) \in seen'
  BY DEF Told
<1>15. Told(s, k, "error-event", ErrorId(d))' <=>
         \E w \in Workspaces : Key(s, w, "error-event", About(k, ErrorId(d))) \in seen'
  BY DEF Told
<1>16. QED BY <1>2, <1>3, <1>12, <1>13, <1>14, <1>15 DEF SendWell, Told

LEMMA SendsKeep ==
  ASSUME OnlyOwn, SendsWell, NEW c, AddsOnlyOf(c),
         \A d \in Sends : d # c => calls'[d] = calls[d],
         c \in Sends =>
           /\ calls'[c].phase # "none"
           /\ calls[c].phase # "none" =>
                calls'[c].sys = calls[c].sys /\ calls'[c].session = calls[c].session
           /\ SendWell(c)'
  PROVE  OnlyOwn' /\ SendsWell'
<1>1. ASSUME NEW p \in Pairs, NEW i \in DOMAIN sessions'[p].entries, NEW d \in Sends,
             sessions'[p].entries[i].id \in Mine(d)
      PROVE  calls'[d].phase # "none" /\ calls'[d].sys = p[1] /\ calls'[d].session = p[2]
  <2>1. CASE i \in DOMAIN sessions[p].entries
    <3>1. sessions[p].entries[i].id \in Mine(d) BY <1>1, <2>1 DEF AddsOnlyOf, Extends
    <3>2. calls[d].phase # "none" /\ calls[d].sys = p[1] /\ calls[d].session = p[2]
      BY <2>1, <3>1 DEF OnlyOwn
    <3>3. QED BY <3>2
  <2>2. CASE i \notin DOMAIN sessions[p].entries
    <3>1. /\ c \in Sends /\ sessions'[p].entries[i].id \in Mine(c)
          /\ calls'[c].sys = p[1] /\ calls'[c].session = p[2]
      BY <1>1, <2>2, MineFacts DEF AddsOnlyOf
    <3>2. QED BY <1>1, <3>1, MineFacts
  <2>3. QED BY <2>1, <2>2
<1>2. ASSUME NEW y \in seen', NEW d \in Sends, y[3] \in Tells, y[4].entry \in Mine(d)
      PROVE  calls'[d].phase # "none"
  <2>1. CASE y \in seen
    <3>1. calls[d].phase # "none" BY <1>2, <2>1 DEF OnlyOwn
    <3>2. QED BY <3>1
  <2>2. CASE y \notin seen
    <3>1. CASE HostKnows(y[4].entry)
      <4>1. PICK p \in Pairs : ~Never(sessions[p].entries, y[4].entry) BY <1>2, <3>1 DEF HostKnows
      <4>2. calls[d].phase # "none" BY <1>2, <4>1 DEF OnlyOwn, Never
      <4>3. QED BY <4>2
    <3>2. CASE c \in Sends /\ y[4].entry \in Mine(c) BY <1>2, <3>2, MineFacts
    <3>3. QED BY <1>2, <2>2, <3>1, <3>2 DEF AddsOnlyOf
  <2>3. QED BY <2>1, <2>2
<1>3. OnlyOwn' BY <1>1, <1>2 DEF OnlyOwn
<1>4. ASSUME NEW d \in Sends, calls'[d].phase # "none" PROVE SendWell(d)'
  <2>1. CASE d = c
    <3>1. c \in Sends /\ SendWell(c)' BY <2>1
    <3>2. QED BY <2>1, <3>1
  <2>2. CASE d # c
    <3>1. calls'[d] = calls[d] BY <2>2
    <3>2. SendWell(d) BY <1>4, <3>1 DEF SendsWell
    <3>3. QED BY <2>2, <3>1, <3>2, SendStays
  <2>3. QED BY <2>1, <2>2
<1>5. SendsWell' BY <1>4 DEF SendsWell
<1>6. QED BY <1>3, <1>5

-----------------------------------------------------------------------------
(* The sockets, the disk and the cache *)

LEMMA InvFacts ==
  ASSUME LiveInv
  PROVE  /\ ToldTypes /\ SocketTypes /\ DiskTypes /\ StoreTypes /\ CacheWell /\ SocketsWell
         /\ AbortsWell /\ StoreWell /\ OnlyOwn /\ SendsWell
BY DEF LiveInv

\* No entry is added, and nothing of a send is told that is not written.
LEMMA QuietSends ==
  ASSUME OnlyOwn, SendsWell, calls' = calls,
         \A p \in Pairs : sessions'[p].entries = sessions[p].entries,
         seen \subseteq seen', \A y \in seen' \ seen : y[3] \notin Tells \/ HostKnows(y[4].entry)
  PROVE  OnlyOwn' /\ SendsWell'
<1>1. 0 \notin Sends BY LiveAssumption DEF Sends
<1>2. AddsOnlyOf(0) BY <1>1 DEF AddsOnlyOf, Extends
<1>3. QED BY <1>1, <1>2, SendsKeep

\* A step that leaves the sessions and the sends alone.
LEMMA StoreStays ==
  ASSUME LiveInv, UNCHANGED live, seen \subseteq seen',
         \A y \in seen' \ seen : y[3] \notin Tells \/ HostKnows(y[4].entry)
  PROVE  /\ StoreTypes' /\ StoreWell' /\ OnlyOwn' /\ SendsWell'
         /\ \A t \in Systems, k \in SessionIds : Lasts(t, k)
<1>1. /\ sessions' = sessions /\ created' = created /\ counter' = counter
      /\ adapters' = adapters /\ calls' = calls
  BY DEF live
<1>2. StoreTypes' /\ StoreWell' BY <1>1, InvFacts DEF StoreTypes, CallTypes, StoreWell
<1>3. OnlyOwn' /\ SendsWell' BY <1>1, InvFacts, QuietSends
<1>4. QED BY <1>1, <1>2, <1>3 DEF Lasts, Outlives

\* A socket subscribes, streams or closes.
LEMMA SocketKeeps ==
  ASSUME LiveInv, UNCHANGED live, UNCHANGED disk, seqBySystem' = seqBySystem, seen' = seen,
         SocketTypes', SocketsWell', inbox' \in [Sockets -> Seq(Event)],
         \A c \in Sockets : inbox'[c] = inbox[c] \/ inbox'[c] = <<>>
  PROVE  LiveInv'
<1>1. StoreTypes' /\ StoreWell' /\ OnlyOwn' /\ SendsWell' BY StoreStays
<1>2. ToldTypes' BY InvFacts DEF ToldTypes
<1>3. DiskTypes' /\ CacheWell' BY InvFacts DEF DiskTypes, CacheWell, disk
<1>4. AbortsWell'
  <2>1. sessions' = sessions BY DEF live
  <2>2. DOMAIN <<>> = {} OBVIOUS
  <2>3. QED BY <2>1, <2>2, InvFacts DEF AbortsWell, Ended, Closed, Reopened
<1>5. QED BY <1>1, <1>2, <1>3, <1>4 DEF LiveInv

\* A step of the disk, the watcher or the cache.
LEMMA DiskKeeps ==
  ASSUME LiveInv, UNCHANGED <<live, hub, socketVars>>, DiskTypes', CacheWell'
  PROVE  LiveInv'
<1>1. seen' = seen /\ inbox' = inbox /\ seqBySystem' = seqBySystem BY DEF hub
<1>2. StoreTypes' /\ StoreWell' /\ OnlyOwn' /\ SendsWell' BY <1>1, StoreStays
<1>3. ToldTypes' BY <1>1, InvFacts DEF ToldTypes
<1>4. SocketTypes' /\ SocketsWell' BY <1>1, InvFacts DEF SocketTypes, SocketsWell, socketVars
<1>5. AbortsWell' BY <1>1, InvFacts DEF AbortsWell, Ended, Closed, Reopened, live
<1>6. QED BY <1>2, <1>3, <1>4, <1>5 DEF LiveInv

LEMMA EmptyInbox ==
  ASSUME ToldTypes, NEW c, inbox' = [inbox EXCEPT ![c] = <<>>]
  PROVE  /\ inbox' \in [Sockets -> Seq(Event)]
         /\ \A d \in Sockets : inbox'[d] = inbox[d] \/ inbox'[d] = <<>>
         /\ \A d \in Sockets : d # c => inbox'[d] = inbox[d]
         /\ c \in Sockets => inbox'[c] = <<>>
<1>1. <<>> \in Seq(Event) OBVIOUS
<1>2. inbox \in [Sockets -> Seq(Event)] BY DEF ToldTypes
<1>3. QED BY <1>1, <1>2

LEMMA SubscribeKeeps ==
  ASSUME LiveInv, UNCHANGED live, NEW c \in Sockets, NEW w \in Workspaces, Subscribe(c, w)
  PROVE  LiveInv'
<1>1. /\ selected' = [selected EXCEPT ![c] = w] /\ sub' = [sub EXCEPT ![c] = w]
      /\ stream' = [stream EXCEPT ![c] = IF selected[c] = w THEN stream[c] ELSE None]
      /\ inbox' = [inbox EXCEPT ![c] = <<>>]
      /\ open' = open /\ seqBySystem' = seqBySystem /\ seen' = seen /\ UNCHANGED disk
  BY DEF Subscribe
<1>2. SocketTypes /\ ToldTypes /\ SocketsWell BY InvFacts
<1>3. SocketTypes' BY <1>1, <1>2 DEF SocketTypes, WsOf
<1>4. /\ inbox' \in [Sockets -> Seq(Event)]
      /\ \A d \in Sockets : inbox'[d] = inbox[d] \/ inbox'[d] = <<>>
      /\ \A d \in Sockets : d # c => inbox'[d] = inbox[d]
      /\ inbox'[c] = <<>>
  BY <1>1, <1>2, EmptyInbox
<1>5. DOMAIN inbox'[c] = {} BY <1>4
<1>6. /\ \A d \in Sockets : d # c => selected'[d] = selected[d] /\ sub'[d] = sub[d]
                                     /\ stream'[d] = stream[d]
      /\ selected'[c] = w /\ sub'[c] = w
      /\ stream'[c] = IF selected[c] = w THEN stream[c] ELSE None
  BY <1>1, <1>2 DEF SocketTypes
<1>7. SocketsWell' BY <1>1, <1>2, <1>4, <1>5, <1>6 DEF SocketsWell
<1>8. QED BY <1>1, <1>3, <1>4, <1>7, SocketKeeps

LEMMA RunSubscribeKeeps ==
  ASSUME LiveInv, UNCHANGED live, NEW c \in Sockets, NEW w \in Workspaces, RunSubscribe(c, w)
  PROVE  LiveInv'
<1>1. /\ selected' = [selected EXCEPT ![c] = w] /\ sub' = [sub EXCEPT ![c] = None]
      /\ stream' = [stream EXCEPT ![c] = w]
      /\ inbox' = [inbox EXCEPT ![c] = <<>>]
      /\ open' = open /\ seqBySystem' = seqBySystem /\ seen' = seen /\ UNCHANGED disk
  BY DEF RunSubscribe
<1>2. SocketTypes /\ ToldTypes /\ SocketsWell BY InvFacts
<1>3. SocketTypes' BY <1>1, <1>2 DEF SocketTypes, WsOf
<1>4. /\ inbox' \in [Sockets -> Seq(Event)]
      /\ \A d \in Sockets : inbox'[d] = inbox[d] \/ inbox'[d] = <<>>
      /\ \A d \in Sockets : d # c => inbox'[d] = inbox[d]
      /\ inbox'[c] = <<>>
  BY <1>1, <1>2, EmptyInbox
<1>5. DOMAIN inbox'[c] = {} BY <1>4
<1>6. /\ \A d \in Sockets : d # c => selected'[d] = selected[d] /\ sub'[d] = sub[d]
                                     /\ stream'[d] = stream[d]
      /\ selected'[c] = w /\ sub'[c] = None /\ stream'[c] = w
  BY <1>1, <1>2 DEF SocketTypes
<1>7. SocketsWell' BY <1>1, <1>2, <1>4, <1>5, <1>6 DEF SocketsWell
<1>8. QED BY <1>1, <1>3, <1>4, <1>7, SocketKeeps

LEMMA RunUnsubscribeKeeps ==
  ASSUME LiveInv, UNCHANGED live, NEW c \in Sockets, RunUnsubscribe(c)
  PROVE  LiveInv'
<1>1. /\ stream' = [stream EXCEPT ![c] = None] /\ selected' = selected /\ sub' = sub
      /\ open' = open /\ seqBySystem' = seqBySystem /\ seen' = seen /\ inbox' = inbox
      /\ UNCHANGED disk
  BY DEF RunUnsubscribe, hub
<1>2. SocketTypes /\ ToldTypes /\ SocketsWell BY InvFacts
<1>3. SocketTypes' BY <1>1, <1>2 DEF SocketTypes, WsOf
<1>4. \A d \in Sockets : stream'[d] = stream[d] \/ stream'[d] = None
  BY <1>1, <1>2 DEF SocketTypes
<1>5. SocketsWell' BY <1>1, <1>2, <1>4 DEF SocketsWell
<1>6. inbox' \in [Sockets -> Seq(Event)] BY <1>1, <1>2 DEF ToldTypes
<1>7. QED BY <1>1, <1>3, <1>5, <1>6, SocketKeeps

LEMMA CloseKeeps ==
  ASSUME LiveInv, UNCHANGED live, NEW c \in Sockets, Close(c)
  PROVE  LiveInv'
<1>1. /\ selected' = selected /\ sub' = [sub EXCEPT ![c] = None]
      /\ stream' = [stream EXCEPT ![c] = None]
      /\ inbox' = [inbox EXCEPT ![c] = <<>>]
      /\ open' = open \ {c} /\ seqBySystem' = seqBySystem /\ seen' = seen /\ UNCHANGED disk
  BY DEF Close
<1>2. SocketTypes /\ ToldTypes /\ SocketsWell BY InvFacts
<1>3. SocketTypes' BY <1>1, <1>2 DEF SocketTypes, WsOf
<1>4. /\ inbox' \in [Sockets -> Seq(Event)]
      /\ \A d \in Sockets : inbox'[d] = inbox[d] \/ inbox'[d] = <<>>
      /\ \A d \in Sockets : d # c => inbox'[d] = inbox[d]
      /\ inbox'[c] = <<>>
  BY <1>1, <1>2, EmptyInbox
<1>5. DOMAIN inbox'[c] = {} BY <1>4
<1>6. /\ \A d \in Sockets : d # c => sub'[d] = sub[d] /\ stream'[d] = stream[d]
      /\ sub'[c] = None /\ stream'[c] = None
  BY <1>1, <1>2 DEF SocketTypes
<1>7. SocketsWell' BY <1>1, <1>2, <1>4, <1>5, <1>6 DEF SocketsWell
<1>8. QED BY <1>1, <1>3, <1>4, <1>7, SocketKeeps

\* Versions are numbers, and a file's grows.
LEMMA FileFacts ==
  ASSUME DiskTypes
  PROVE  /\ Version \subseteq Nat /\ MaxWrites \in Nat
         /\ \A p \in Known : file[p] \in Version /\ file[p] \in Nat
         /\ \A e \in cached : e.key \in Nat /\ e.body \in Nat
<1>1. Version \subseteq Nat /\ MaxWrites \in Nat BY HubAssumption DEF Version
<1>2. \A p \in Known : file[p] \in Version BY DEF DiskTypes
<1>3. \A e \in cached : e.key \in Version /\ e.body \in Version BY DEF DiskTypes, Projection
<1>4. QED BY <1>1, <1>2, <1>3

LEMMA WriteKeeps ==
  ASSUME LiveInv, UNCHANGED live, NEW s \in Systems, NEW w \in Workspaces, Write(s, w)
  PROVE  LiveInv'
<1>1. DiskTypes /\ CacheWell BY InvFacts
<1>2. /\ <<s, w>> \in Known /\ file[<<s, w>>] < MaxWrites
      /\ file' = [file EXCEPT ![<<s, w>>] = file[<<s, w>>] + 1]
      /\ changed' = changed \cup ({<<s, w>>} \cap watched)
      /\ watched' = watched /\ cached' = cached
  BY DEF Write
<1>3. file[<<s, w>>] + 1 \in Version BY <1>1, <1>2, FileFacts DEF Version
<1>4. file' \in [Known -> Version] /\ \A p \in Known : file[p] <= file'[p]
  BY <1>1, <1>2, <1>3, FileFacts DEF DiskTypes
<1>5. DiskTypes' BY <1>1, <1>2, <1>4 DEF DiskTypes
<1>6. ASSUME NEW e \in cached PROVE e.body <= file'[<<e.sys, e.ws>>]
  <2>1. <<e.sys, e.ws>> \in Known /\ e.body <= file[<<e.sys, e.ws>>] BY <1>1 DEF CacheWell
  <2>2. file'[<<e.sys, e.ws>>] \in Nat /\ file[<<e.sys, e.ws>>] \in Nat
    BY <1>1, <1>4, <2>1, FileFacts
  <2>3. QED BY <1>1, <1>4, <2>1, <2>2, FileFacts
<1>7. CacheWell' BY <1>1, <1>2, <1>6 DEF CacheWell
<1>8. QED BY <1>5, <1>7, DiskKeeps DEF Write

LEMMA PreviewKeeps ==
  ASSUME LiveInv, UNCHANGED live, NEW s \in Systems, NEW w \in Workspaces, NEW raced \in BOOLEAN,
         Preview(s, w, raced)
  PROVE  LiveInv'
<1>1. DiskTypes /\ CacheWell BY InvFacts
<1>2. PICK now : now = file[<<s, w>>] OBVIOUS
<1>3. PICK later : later = IF raced THEN now + 1 ELSE now OBVIOUS
<1>4. /\ <<s, w>> \in Known /\ (raced => now < MaxWrites)
      /\ file' = [file EXCEPT ![<<s, w>>] = later]
      /\ cached' = {e \in cached : ~(e.sys = s /\ e.ws = w /\ e.key = now)}
                     \cup {[sys |-> s, ws |-> w, key |-> now, body |-> later]}
      /\ changed' \in {changed, changed \cup ({<<s, w>>} \cap watched)}
      /\ watched' = watched
  BY <1>2, <1>3 DEF Preview, Read, Store
<1>5. now \in Version /\ later \in Version /\ now <= later /\ now \in Nat /\ later \in Nat
  BY <1>1, <1>2, <1>3, <1>4, FileFacts DEF Version
<1>6. file' \in [Known -> Version] /\ file'[<<s, w>>] = later
      /\ \A p \in Known : file[p] <= file'[p]
  BY <1>1, <1>2, <1>4, <1>5, FileFacts DEF DiskTypes
<1>7. DiskTypes'
  <2>1. cached' \subseteq Projection BY <1>1, <1>4, <1>5 DEF DiskTypes, Projection
  <2>2. changed' \subseteq watched' BY <1>1, <1>4 DEF DiskTypes
  <2>3. QED BY <1>1, <1>4, <1>6, <2>1, <2>2 DEF DiskTypes
<1>8. ASSUME NEW e \in cached'
      PROVE  <<e.sys, e.ws>> \in Known /\ e.key <= e.body /\ e.body <= file'[<<e.sys, e.ws>>]
  <2>1. CASE e \in cached
    <3>1. <<e.sys, e.ws>> \in Known /\ e.key <= e.body /\ e.body <= file[<<e.sys, e.ws>>]
      BY <1>1, <2>1 DEF CacheWell
    <3>2. file'[<<e.sys, e.ws>>] \in Nat /\ file[<<e.sys, e.ws>>] \in Nat /\ e.body \in Nat
      BY <1>1, <1>6, <2>1, <3>1, FileFacts
    <3>3. QED BY <1>6, <3>1, <3>2
  <2>2. CASE e = [sys |-> s, ws |-> w, key |-> now, body |-> later]
    BY <1>4, <1>5, <1>6, <2>2
  <2>3. QED BY <1>4, <1>8, <2>1, <2>2
<1>9. CacheWell' BY <1>8 DEF CacheWell
<1>10. QED BY <1>7, <1>9, DiskKeeps DEF Preview

\* The watcher, and entries that are dropped.
LEMMA DropsKeep ==
  ASSUME LiveInv, UNCHANGED live,
         \/ \E s \in Systems, w \in Workspaces : Watch(s, w) \/ Unwatch(s, w)
         \/ \E s \in Systems : InvalidateSystem(s)
         \/ \E e \in cached : Expire(e)
  PROVE  LiveInv'
<1>1. DiskTypes /\ CacheWell BY InvFacts
<1>2. /\ UNCHANGED <<hub, socketVars, file>> /\ cached' \subseteq cached
      /\ watched' \subseteq Known /\ changed' \subseteq watched'
  BY <1>1 DEF Watch, Unwatch, InvalidateSystem, Expire, DiskTypes
<1>3. DiskTypes' BY <1>1, <1>2 DEF DiskTypes
<1>4. CacheWell' BY <1>1, <1>2 DEF CacheWell
<1>5. QED BY <1>2, <1>3, <1>4, DiskKeeps

LEMMA WatchFiresKeeps ==
  ASSUME LiveInv, UNCHANGED live, NEW s \in Systems, NEW w \in Workspaces, WatchFires(s, w)
  PROVE  LiveInv'
<1>1. ToldTypes /\ SocketTypes /\ DiskTypes /\ CacheWell /\ SocketsWell /\ AbortsWell BY InvFacts
<1>2. /\ Publish(s, w, "source.changed", Nothing, "watcher") /\ UNCHANGED socketVars
      /\ changed' = changed \ {<<s, w>>} /\ watched' = watched /\ file' = file
      /\ cached' \subseteq cached
  BY DEF WatchFires, OfWorkspace
<1>3. "source.changed" \in EventNames /\ "source.changed" \notin Tells /\ Nothing \in Payload
      /\ "watcher" \in Tellers
  BY DEF EventNames, Tells, Tellers, Nothing, About, Payload
<1>4. ToldTypes' BY <1>1, <1>2, <1>3, PublishTypes
<1>5. SocketsWell' BY <1>1, <1>2, <1>3, PublishSockets
<1>6. /\ seen \subseteq seen'
      /\ \A y \in seen' : y \in seen \/ y = Key(s, w, "source.changed", Nothing)
  BY <1>1, <1>2, <1>3, PublishTells
<1>7. \A y \in seen' \ seen : y[3] \notin Tells BY <1>3, <1>6 DEF Key
<1>8. /\ StoreTypes' /\ StoreWell' /\ OnlyOwn' /\ SendsWell'
      /\ \A t \in Systems, k \in SessionIds : Lasts(t, k)
  BY <1>6, <1>7, StoreStays
<1>9. AbortsWell' BY <1>1, <1>2, <1>3, <1>8, PublishAborts
<1>10. SocketTypes' BY <1>1, <1>2 DEF SocketTypes, socketVars
<1>11. DiskTypes' BY <1>1, <1>2 DEF DiskTypes
<1>12. CacheWell' BY <1>1, <1>2 DEF CacheWell
<1>13. QED BY <1>4, <1>5, <1>8, <1>9, <1>10, <1>11, <1>12 DEF LiveInv

LEMMA HubKeeps ==
  ASSUME LiveInv, HubNext, UNCHANGED live
  PROVE  LiveInv'
BY SubscribeKeeps, RunSubscribeKeeps, RunUnsubscribeKeeps, CloseKeeps, WriteKeeps, PreviewKeeps,
   DropsKeep, WatchFiresKeeps DEF HubNext

-----------------------------------------------------------------------------
(* The sessions *)

OwnLines(x, s, k) ==
  \A i \in DOMAIN x.entries :
    x.entries[i].sys = s /\ x.entries[i].session = k /\ x.entries[i].ws = x.ws

LEMMA SessionFacts ==
  ASSUME StoreTypes, StoreWell, NEW s \in Systems, NEW k \in SessionIds
  PROVE  /\ <<s, k>> \in Pairs /\ sessions[<<s, k>>] \in Session
         /\ OwnLines(sessions[<<s, k>>], s, k)
         /\ Len(sessions[<<s, k>>].entries) \in Nat
         /\ sessions[<<s, k>>].entries \in Seq(Line)
         /\ sessions[<<s, k>>].ws \in WsOf /\ sessions[<<s, k>>].status \in Statuses
         /\ Exists(s, k) => sessions[<<s, k>>].ws \in Workspaces
                            /\ sessions[<<s, k>>].status # "none"
<1>1. <<s, k>> \in Pairs BY DEF Pairs
<1>2. sessions[<<s, k>>] \in Session BY <1>1 DEF StoreTypes
<1>3. sessions[<<s, k>>].entries \in Seq(Line) BY <1>2 DEF Session
<1>4. QED BY <1>1, <1>2, <1>3 DEF StoreWell, OwnLines, Exists, Session

Adds(old, now, e) ==
  /\ Len(old) \in Nat /\ DOMAIN old = 1..Len(old)
  /\ Len(now) = Len(old) + 1 /\ DOMAIN now = 1..(Len(old) + 1)
  /\ \A i \in 1..Len(old) : now[i] = old[i]
  /\ now[Len(old) + 1] = e

\* One entry more.
LEMMA WithFacts ==
  ASSUME NEW x \in Session, NEW s \in Systems, NEW k \in SessionIds, OwnLines(x, s, k), x.status # "none",
         NEW e \in Line, e.sys = s, e.session = k, e.ws = x.ws
  PROVE  /\ With(x, e) \in Session /\ OwnLines(With(x, e), s, k)
         /\ With(x, e).ws = x.ws /\ With(x, e).status # "none"
         /\ With(x, e).reopened = x.reopened
         /\ Adds(x.entries, With(x, e).entries, e)
<1>1. /\ x.entries \in Seq(Line) /\ x.ws \in WsOf /\ x.status \in Statuses
      /\ x.reopened \in BOOLEAN
  BY DEF Session
<1>2. StatusAfter(x.status, e.role) \in {x.status, "idle", "working"} BY DEF StatusAfter
<1>3. PICK status : status = StatusAfter(x.status, e.role) OBVIOUS
<1>4. PICK q : q = Append(x.entries, e) OBVIOUS
<1>5. /\ q \in Seq(Line) /\ Len(q) = Len(x.entries) + 1 /\ Len(x.entries) \in Nat
      /\ DOMAIN x.entries = 1..Len(x.entries) /\ DOMAIN q = 1..(Len(x.entries) + 1)
      /\ \A i \in 1..Len(x.entries) : q[i] = x.entries[i]
      /\ q[Len(x.entries) + 1] = e
  BY <1>1, <1>4, AppendFacts
<1>6. With(x, e) = [ws |-> x.ws, status |-> status, entries |-> q, reopened |-> x.reopened]
  <2>1. With(x, e) = [x EXCEPT !.entries = q, !.status = status] BY <1>3, <1>4 DEF With
  <2>2. PICK ws, was, entries, again :
          x = [ws |-> ws, status |-> was, entries |-> entries, reopened |-> again]
    BY DEF Session
  <2>3. [x EXCEPT !.entries = q] = [ws |-> ws, status |-> was, entries |-> q, reopened |-> again]
    BY <2>2
  <2>4. [[x EXCEPT !.entries = q] EXCEPT !.status = status]
          = [ws |-> ws, status |-> status, entries |-> q, reopened |-> again]
    <3>1. PICK y : y = [x EXCEPT !.entries = q] OBVIOUS
    <3>2. y = [ws |-> ws, status |-> was, entries |-> q, reopened |-> again] BY <2>3, <3>1
    <3>3. [y EXCEPT !.status = status]
            = [ws |-> ws, status |-> status, entries |-> q, reopened |-> again]
      BY <3>2
    <3>4. QED BY <3>1, <3>3
  <2>5. [x EXCEPT !.entries = q, !.status = status]
          = [[x EXCEPT !.entries = q] EXCEPT !.status = status]
    OBVIOUS
  <2>6. QED BY <2>1, <2>2, <2>4, <2>5
<1>7. With(x, e) \in Session BY <1>1, <1>2, <1>3, <1>5, <1>6 DEF Session, Statuses, SessionStatus
<1>8. /\ With(x, e).ws = x.ws /\ With(x, e).status \in {x.status, "idle", "working"}
      /\ With(x, e).entries = q /\ With(x, e).reopened = x.reopened
  BY <1>2, <1>3, <1>6
<1>9. ASSUME NEW i \in DOMAIN q PROVE q[i].sys = s /\ q[i].session = k /\ q[i].ws = x.ws
  <2>1. i \in 1..Len(x.entries) \/ i = Len(x.entries) + 1 BY <1>5
  <2>2. QED BY <1>5, <2>1 DEF OwnLines
<1>10. OwnLines(With(x, e), s, k) BY <1>8, <1>9 DEF OwnLines
<1>11. Adds(x.entries, q, e) BY <1>5 DEF Adds
<1>12. QED BY <1>7, <1>8, <1>10, <1>11

\* A session that takes a new value, with the same workspace and with every
\* entry it had.
LEMMA StoreGrows ==
  ASSUME StoreTypes, StoreWell, NEW s \in Systems, NEW k \in SessionIds, Exists(s, k),
         NEW x \in Session, OwnLines(x, s, k), x.ws = sessions[<<s, k>>].ws, x.status # "none",
         Len(x.entries) <= MaxEntries, Outlives(sessions[<<s, k>>], x),
         sessions' = [sessions EXCEPT ![<<s, k>>] = x],
         created' = created, counter' = counter, adapters' = adapters,
         CallTypes'
  PROVE  /\ StoreTypes' /\ StoreWell'
         /\ sessions'[<<s, k>>] = x
         /\ \A p \in Pairs : p # <<s, k>> => sessions'[p] = sessions[p]
         /\ \A t \in Systems, l \in SessionIds : Lasts(t, l)
<1>1. <<s, k>> \in Pairs /\ sessions[<<s, k>>].ws \in Workspaces BY SessionFacts
<1>2. /\ sessions' \in [Pairs -> Session] /\ sessions'[<<s, k>>] = x
      /\ \A p \in Pairs : p # <<s, k>> => sessions'[p] = sessions[p]
  BY <1>1 DEF StoreTypes
<1>3. x # NoSession BY DEF NoSession
<1>4. \A p \in Pairs : sessions'[p] # NoSession <=> sessions[p] # NoSession
  BY <1>2, <1>3 DEF Exists
<1>5. StoreTypes' BY <1>2, <1>4 DEF StoreTypes
<1>6. ASSUME NEW p \in Pairs
      PROVE  /\ sessions'[p].status = "none" <=> sessions'[p] = NoSession
             /\ sessions'[p] # NoSession => sessions'[p].ws \in Workspaces
             /\ Len(sessions'[p].entries) <= MaxEntries
             /\ \A i \in DOMAIN sessions'[p].entries :
                  LET e == sessions'[p].entries[i]
                  IN e.sys = p[1] /\ e.session = p[2] /\ e.ws = sessions'[p].ws
  <2>1. CASE p = <<s, k>> BY <1>1, <1>2, <1>3, <2>1 DEF OwnLines
  <2>2. CASE p # <<s, k>> BY <1>2, <2>2 DEF StoreWell
  <2>3. QED BY <2>1, <2>2
<1>7. StoreWell' BY <1>6 DEF StoreWell
<1>8. ASSUME NEW t \in Systems, NEW l \in SessionIds PROVE Lasts(t, l)
  <2>1. <<t, l>> \in Pairs BY DEF Pairs
  <2>2. CASE <<t, l>> = <<s, k>> BY <1>2, <2>2 DEF Lasts
  <2>3. CASE <<t, l>> # <<s, k>> BY <1>2, <2>1, <2>3 DEF Lasts, Outlives
  <2>4. QED BY <2>2, <2>3
<1>9. QED BY <1>2, <1>5, <1>7, <1>8

\* The parts together, for a step of a session.
LEMMA SessionStep ==
  ASSUME LiveInv, UNCHANGED <<socketVars, disk>>, ToldTypes', SocketsWell', AbortsWell',
         StoreTypes', StoreWell', OnlyOwn', SendsWell'
  PROVE  LiveInv'
<1>1. SocketTypes' BY InvFacts DEF SocketTypes, socketVars
<1>2. DiskTypes' /\ CacheWell' BY InvFacts DEF DiskTypes, CacheWell, disk
<1>3. QED BY <1>1, <1>2 DEF LiveInv

\* A step of a session that tells nothing.
LEMMA SilentStep ==
  ASSUME LiveInv, UNCHANGED <<hub, socketVars, disk>>, StoreTypes', StoreWell', OnlyOwn', SendsWell',
         \A t \in Systems, l \in SessionIds : Lasts(t, l)
  PROVE  LiveInv'
<1>1. seen' = seen /\ inbox' = inbox /\ seqBySystem' = seqBySystem BY DEF hub
<1>2. ToldTypes /\ SocketsWell /\ AbortsWell BY InvFacts
<1>3. ToldTypes' BY <1>1, <1>2 DEF ToldTypes
<1>4. SocketsWell' BY <1>1, <1>2 DEF SocketsWell, socketVars
<1>5. ASSUME NEW c \in Sockets, NEW i \in DOMAIN inbox[c], ByAdapter(inbox[c][i], {"chat.aborted"})
      PROVE  LET k == inbox[c][i].payload.session
             IN /\ k \in SessionIds /\ EndedThen(SystemOf[c], k)
                /\ Reopened(SystemOf[c], k) => ReopenedThen(SystemOf[c], k)
  <2>1. PICK k : k = inbox[c][i].payload.session OBVIOUS
  <2>2. SystemOf[c] \in Systems BY HubAssumption
  <2>3. k \in SessionIds /\ Ended(SystemOf[c], k) BY <1>2, <1>5, <2>1 DEF AbortsWell
  <2>4. QED BY <2>1, <2>2, <2>3, LastingFacts
<1>6. AbortsWell'
  BY <1>1, <1>2, <1>5 DEF AbortsWell, Ended, EndedThen, Closed, Reopened, ReopenedThen
<1>7. QED BY <1>3, <1>4, <1>6, SessionStep

LEMMA NewSessionKeeps ==
  ASSUME LiveInv, NEW s \in Systems, NEW w \in Workspaces, NEW k \in SessionIds, ~Exists(s, k),
         sessions' = [sessions EXCEPT ![<<s, k>>] = NewSession(w)],
         created' = Append(created, <<s, k>>), counter' \in 0..MaxAuto,
         UNCHANGED <<adapters, calls, hubVars>>
  PROVE  LiveInv'
<1>1. StoreTypes /\ StoreWell /\ OnlyOwn /\ SendsWell BY InvFacts
<1>2. PICK x : x = NewSession(w) OBVIOUS
<1>3. <<>> \in Seq(Line) /\ Len(<<>>) = 0 /\ DOMAIN <<>> = {} OBVIOUS
<1>4. /\ x \in Session /\ x # NoSession /\ x.entries = <<>> /\ x.status = "active" /\ x.ws = w
  BY <1>2, <1>3 DEF Session, WsOf, Statuses, SessionStatus, NewSession, NoSession
<1>5. <<s, k>> \in Pairs /\ sessions[<<s, k>>] = NoSession BY DEF Pairs, Exists
<1>6. /\ sessions' \in [Pairs -> Session] /\ sessions'[<<s, k>>] = x
      /\ \A p \in Pairs : p # <<s, k>> => sessions'[p] = sessions[p]
  BY <1>1, <1>2, <1>4, <1>5 DEF StoreTypes
<1>7. /\ created' \in Seq(Pairs) /\ IsInjective(created')
      /\ ToSet(created') = ToSet(created) \cup {<<s, k>>}
  <2>1. <<s, k>> \notin ToSet(created) BY <1>1, <1>5 DEF StoreTypes
  <2>2. \A i \in 1..Len(created) : created[i] \in ToSet(created)
    BY <1>1 DEF StoreTypes, ToSet
  <2>3. ~Contains(created, <<s, k>>) BY <2>1, <2>2 DEF Contains
  <2>4. QED BY <1>1, <1>5, <2>3, AppendNew DEF StoreTypes
<1>8. ToSet(created') = {p \in Pairs : sessions'[p] # NoSession}
  BY <1>1, <1>4, <1>5, <1>6, <1>7 DEF StoreTypes
<1>9. StoreTypes' BY <1>1, <1>6, <1>7, <1>8 DEF StoreTypes, CallTypes
<1>10. MaxEntries \in Nat BY LiveAssumption
<1>11. StoreWell'
  <2>1. ASSUME NEW p \in Pairs
        PROVE  /\ sessions'[p].status = "none" <=> sessions'[p] = NoSession
               /\ sessions'[p] # NoSession => sessions'[p].ws \in Workspaces
               /\ Len(sessions'[p].entries) <= MaxEntries
               /\ \A i \in DOMAIN sessions'[p].entries :
                    LET e == sessions'[p].entries[i]
                    IN e.sys = p[1] /\ e.session = p[2] /\ e.ws = sessions'[p].ws
    <3>1. CASE p = <<s, k>> BY <1>3, <1>4, <1>6, <1>10, <3>1
    <3>2. CASE p # <<s, k>> BY <1>1, <1>6, <3>2 DEF StoreWell
    <3>3. QED BY <3>1, <3>2
  <2>2. QED BY <2>1 DEF StoreWell
<1>12. \A p \in Pairs : sessions'[p].entries = sessions[p].entries
  <2>1. sessions[<<s, k>>].entries = <<>> BY <1>5 DEF NoSession
  <2>2. QED BY <1>4, <1>6, <2>1
<1>13. seen' = seen BY DEF hubVars, hub
<1>14. OnlyOwn' /\ SendsWell' BY <1>1, <1>12, <1>13, QuietSends
<1>15. ASSUME NEW t \in Systems, NEW l \in SessionIds PROVE Lasts(t, l)
  <2>1. <<t, l>> \in Pairs BY DEF Pairs
  <2>2. CASE <<t, l>> = <<s, k>>
    BY <1>5, <2>2 DEF Lasts, Outlives, NoSession, ClosedStatus
  <2>3. CASE <<t, l>> # <<s, k>> BY <1>6, <2>1, <2>3 DEF Lasts, Outlives
  <2>4. QED BY <2>2, <2>3
<1>16. QED BY <1>9, <1>11, <1>14, <1>15, SilentStep DEF hubVars

LEMMA CreateKeeps ==
  ASSUME LiveInv, NEW s \in Systems, NEW w \in Workspaces, NEW k \in SessionIds, Create(s, w, k)
  PROVE  LiveInv'
<1>1. counter' \in 0..MaxAuto BY InvFacts DEF Create, StoreTypes
<1>2. QED BY <1>1, NewSessionKeeps DEF Create

LEMMA CreateNextKeeps ==
  ASSUME LiveInv, NEW s \in Systems, NEW w \in Workspaces, CreateNext(s, w)
  PROVE  LiveInv'
<1>1. StoreTypes /\ StoreWell /\ OnlyOwn /\ SendsWell BY InvFacts
<1>2. PICK k : k = counter + 1 OBVIOUS
<1>3. k \in SessionIds /\ k \in 0..MaxAuto /\ counter' = k
  BY <1>1, <1>2, LiveAssumption DEF CreateNext, StoreTypes, SessionIds
<1>4. CASE ~Exists(s, k)
  <2>1. /\ sessions' = [sessions EXCEPT ![<<s, k>>] = NewSession(w)]
        /\ created' = Append(created, <<s, k>>)
    BY <1>2, <1>4 DEF CreateNext
  <2>2. QED BY <1>3, <1>4, <2>1, NewSessionKeeps DEF CreateNext
<1>5. CASE Exists(s, k)
  <2>1. UNCHANGED <<sessions, created, adapters, calls, hubVars>> BY <1>2, <1>5 DEF CreateNext
  <2>2. StoreTypes' /\ StoreWell' BY <1>1, <1>3, <2>1 DEF StoreTypes, CallTypes, StoreWell
  <2>3. OnlyOwn' /\ SendsWell' BY <1>1, <2>1, QuietSends DEF hubVars, hub
  <2>4. QED BY <2>1, <2>2, <2>3, SilentStep DEF hubVars, Lasts, Outlives
<1>6. QED BY <1>4, <1>5

LEMMA RegisterKeeps ==
  ASSUME LiveInv, NEW s \in Systems, NEW name \in Names, Register(s, name)
  PROVE  LiveInv'
<1>1. StoreTypes /\ StoreWell /\ OnlyOwn /\ SendsWell BY InvFacts
<1>2. UNCHANGED <<sessions, created, counter, calls, hubVars>> BY DEF Register
<1>3. adapters' = [adapters EXCEPT ![s] = Append(adapters[s], name)] /\ ~Contains(adapters[s], name)
  BY DEF Register
<1>4. adapters[s] \in Seq(Names) /\ IsInjective(adapters[s]) BY <1>1 DEF StoreTypes
<1>5. Append(adapters[s], name) \in Seq(Names) /\ IsInjective(Append(adapters[s], name))
  BY <1>3, <1>4, AppendNew
<1>6. adapters' \in [Systems -> Seq(Names)] /\ \A t \in Systems : IsInjective(adapters'[t])
  <2>1. adapters \in [Systems -> Seq(Names)] BY <1>1 DEF StoreTypes
  <2>2. PICK q \in Seq(Names) : q = Append(adapters[s], name) BY <1>5
  <2>3. adapters' = [adapters EXCEPT ![s] = q] BY <1>3, <2>2
  <2>4. adapters' \in [Systems -> Seq(Names)] /\ adapters'[s] = q
        /\ \A t \in Systems : t # s => adapters'[t] = adapters[t]
    BY <2>1, <2>3
  <2>5. QED BY <1>1, <1>5, <2>2, <2>4 DEF StoreTypes
<1>7. StoreTypes' /\ StoreWell' BY <1>1, <1>2, <1>6 DEF StoreTypes, CallTypes, StoreWell
<1>8. OnlyOwn' /\ SendsWell' BY <1>1, <1>2, QuietSends DEF hubVars, hub
<1>9. QED BY <1>2, <1>7, <1>8, SilentStep DEF hubVars, Lasts, Outlives

\* A status and no more.
LEMMA StatusFacts ==
  ASSUME NEW x \in Session, NEW status \in SessionStatus
  PROVE  LET y == WithStatus(x, status)
         IN /\ y \in Session /\ y.status = status /\ status # "none"
            /\ y.entries = x.entries /\ y.ws = x.ws /\ Outlives(x, y)
<1>1. PICK ws, was, entries, again :
        /\ x = [ws |-> ws, status |-> was, entries |-> entries, reopened |-> again]
        /\ ws \in WsOf /\ was \in Statuses /\ entries \in Seq(Line) /\ again \in BOOLEAN
  BY DEF Session
<1>2. PICK now \in BOOLEAN : now <=> again \/ (was \in ClosedStatus /\ status \notin ClosedStatus)
  OBVIOUS
<1>3. WithStatus(x, status) = [ws |-> ws, status |-> status, entries |-> entries, reopened |-> now]
  <2>1. PICK z : z = [x EXCEPT !.status = status] OBVIOUS
  <2>2. z = [ws |-> ws, status |-> status, entries |-> entries, reopened |-> again] BY <1>1, <2>1
  <2>3. PICK opens \in BOOLEAN :
          opens = (x.reopened \/ (x.status \in ClosedStatus /\ status \notin ClosedStatus))
    OBVIOUS
  <2>4. opens = now BY <1>1, <1>2, <2>3
  <2>5. [z EXCEPT !.reopened = now]
          = [ws |-> ws, status |-> status, entries |-> entries, reopened |-> now]
    BY <2>2
  <2>6. WithStatus(x, status) = [x EXCEPT !.status = status, !.reopened = opens]
    BY <2>3 DEF WithStatus
  <2>7. [x EXCEPT !.status = status, !.reopened = opens] = [z EXCEPT !.reopened = opens]
    BY <2>1
  <2>8. QED BY <2>4, <2>5, <2>6, <2>7
<1>4. WithStatus(x, status) \in Session BY <1>1, <1>2, <1>3 DEF Session, Statuses
<1>5. Outlives(x, WithStatus(x, status)) BY <1>1, <1>2, <1>3 DEF Outlives
<1>6. status # "none" BY DEF SessionStatus
<1>7. QED BY <1>1, <1>3, <1>4, <1>5, <1>6

\* A session takes a status: SetStatus, and Abort before it tells.
LEMMA StatusKeeps ==
  ASSUME LiveInv, NEW s \in Systems, NEW k \in SessionIds, Exists(s, k), NEW status \in SessionStatus,
         sessions' = [sessions EXCEPT ![<<s, k>>] = WithStatus(sessions[<<s, k>>], status)],
         UNCHANGED <<created, counter, adapters, calls>>
  PROVE  /\ StoreTypes' /\ StoreWell' /\ sessions'[<<s, k>>].status = status
         /\ \A p \in Pairs : sessions'[p].entries = sessions[p].entries
         /\ \A t \in Systems, l \in SessionIds : Lasts(t, l)
<1>1. StoreTypes /\ StoreWell BY InvFacts
<1>2. /\ sessions[<<s, k>>] \in Session /\ OwnLines(sessions[<<s, k>>], s, k) /\ <<s, k>> \in Pairs
  BY <1>1, SessionFacts
<1>3. PICK x : x = WithStatus(sessions[<<s, k>>], status) OBVIOUS
<1>4. /\ x \in Session /\ x.status = status /\ x.entries = sessions[<<s, k>>].entries
      /\ x.ws = sessions[<<s, k>>].ws /\ Outlives(sessions[<<s, k>>], x) /\ x.status # "none"
  BY <1>2, <1>3, StatusFacts
<1>5. OwnLines(x, s, k) /\ Len(x.entries) <= MaxEntries BY <1>1, <1>2, <1>4 DEF OwnLines, StoreWell
<1>6. CallTypes' BY <1>1 DEF StoreTypes, CallTypes
<1>7. /\ StoreTypes' /\ StoreWell' /\ sessions'[<<s, k>>] = x
      /\ \A p \in Pairs : p # <<s, k>> => sessions'[p] = sessions[p]
      /\ \A t \in Systems, l \in SessionIds : Lasts(t, l)
  BY <1>1, <1>3, <1>4, <1>5, <1>6, StoreGrows
<1>8. \A p \in Pairs : sessions'[p].entries = sessions[p].entries BY <1>4, <1>7
<1>9. QED BY <1>4, <1>7, <1>8

LEMMA SetStatusKeeps ==
  ASSUME LiveInv, NEW s \in Systems, NEW k \in SessionIds, NEW status \in SessionStatus,
         SetStatus(s, k, status)
  PROVE  LiveInv'
<1>1. OnlyOwn /\ SendsWell BY InvFacts
<1>2. /\ Exists(s, k) /\ UNCHANGED <<created, counter, adapters, calls, hubVars>>
      /\ sessions' = [sessions EXCEPT ![<<s, k>>] = WithStatus(sessions[<<s, k>>], status)]
  BY DEF SetStatus
<1>3. /\ StoreTypes' /\ StoreWell' /\ \A p \in Pairs : sessions'[p].entries = sessions[p].entries
      /\ \A t \in Systems, l \in SessionIds : Lasts(t, l)
  BY <1>2, StatusKeeps
<1>4. OnlyOwn' /\ SendsWell' BY <1>1, <1>2, <1>3, QuietSends DEF hubVars, hub
<1>5. QED BY <1>2, <1>3, <1>4, SilentStep DEF hubVars

LEMMA AbortKeeps ==
  ASSUME LiveInv, NEW s \in Systems, NEW k \in SessionIds, Abort(s, k)
  PROVE  LiveInv'
<1>1. /\ StoreTypes /\ StoreWell /\ OnlyOwn /\ SendsWell
      /\ ToldTypes /\ SocketTypes /\ SocketsWell /\ AbortsWell
  BY InvFacts
<1>2. PICK w : w = sessions[<<s, k>>].ws OBVIOUS
<1>3. /\ Exists(s, k) /\ Publish(s, w, "chat.aborted", About(k, None), "adapter")
      /\ UNCHANGED <<socketVars, disk>> /\ UNCHANGED <<created, counter, adapters, calls>>
      /\ sessions' = [sessions EXCEPT ![<<s, k>>] = WithStatus(sessions[<<s, k>>], "aborted")]
  BY <1>2 DEF Abort
<1>4. w \in Workspaces BY <1>1, <1>2, <1>3, SessionFacts
<1>5. "aborted" \in SessionStatus /\ "aborted" \in ClosedStatus BY DEF SessionStatus, ClosedStatus
<1>6. /\ StoreTypes' /\ StoreWell' /\ sessions'[<<s, k>>].status = "aborted"
      /\ \A p \in Pairs : sessions'[p].entries = sessions[p].entries
      /\ \A t \in Systems, l \in SessionIds : Lasts(t, l)
  BY <1>3, <1>5, StatusKeeps
<1>7. About(k, None) \in Payload /\ About(k, None).session = k /\ "chat.aborted" \in EventNames
      /\ "chat.aborted" \notin Tells /\ "adapter" \in Tellers
  BY DEF About, Payload, EventNames, Tells, Tellers
<1>8. ToldTypes' BY <1>1, <1>3, <1>4, <1>7, PublishTypes
<1>9. SocketsWell' BY <1>1, <1>3, <1>4, <1>7, PublishSockets
<1>10. EndedThen(s, k) BY <1>5, <1>6 DEF EndedThen
<1>11. AbortsWell' BY <1>1, <1>3, <1>4, <1>6, <1>7, <1>10, PublishAborts
<1>12. /\ seen \subseteq seen'
       /\ \A y \in seen' : y \in seen \/ y = Key(s, w, "chat.aborted", About(k, None))
  BY <1>1, <1>3, <1>4, <1>7, PublishTells
<1>13. \A y \in seen' \ seen : y[3] \notin Tells BY <1>7, <1>12, KeyFacts
<1>14. OnlyOwn' /\ SendsWell' BY <1>1, <1>3, <1>6, <1>12, <1>13, QuietSends
<1>15. QED BY <1>3, <1>6, <1>8, <1>9, <1>11, <1>14, SessionStep

\* What the host tells is no adapter's, and of a send it can name only what
\* was written.
LEMMA PublishLiveKeeps ==
  ASSUME LiveInv, NEW s \in Systems, NEW w \in Workspaces, NEW k \in SessionIds,
         NEW name \in LiveEvents, NEW id \in Nameable \cup {None}, PublishLive(s, w, k, name, id)
  PROVE  LiveInv'
<1>1. ToldTypes /\ SocketTypes /\ SocketsWell /\ AbortsWell /\ StoreTypes BY InvFacts
<1>2. Publish(s, w, name, About(k, id), "host") /\ UNCHANGED <<live, socketVars, disk>>
  BY DEF PublishLive
<1>3. name \in EventNames /\ "host" \in Tellers /\ "host" # "adapter"
  BY DEF LiveEvents, EventNames, Tells, Tellers
<1>4. \A x \in Written : \E p \in Pairs :
        \E i \in DOMAIN sessions[p].entries : sessions[p].entries[i].id = x
  <2>1. DOMAIN sessions = Pairs BY <1>1 DEF StoreTypes
  <2>2. QED BY <2>1 DEF Written, ToSet
<1>5. id \in EntryIds \cup {None}
  <2>1. ASSUME NEW p \in Pairs, NEW i \in DOMAIN sessions[p].entries
        PROVE  sessions[p].entries[i].id \in EntryIds
    <3>1. sessions[p].entries \in Seq(Line) BY <1>1 DEF StoreTypes, Session
    <3>2. sessions[p].entries[i] \in Line BY <3>1
    <3>3. QED BY <3>2 DEF Line
  <2>2. QED BY <1>4, <2>1 DEF Nameable, EntryIds
<1>6. HostKnows(id)
  <2>1. ASSUME NEW d \in Sends, id \in Mine(d) PROVE id \in Written
    <3>1. id \notin HostIds BY <2>1, MineFacts
    <3>2. id # None BY <2>1, MineFacts
    <3>3. QED BY <3>1, <3>2 DEF Nameable
  <2>2. QED BY <1>4, <2>1 DEF HostKnows, Never
<1>7. About(k, id) \in Payload BY <1>5 DEF About, Payload
<1>8. /\ seen \subseteq seen'
      /\ \A y \in seen' : y \in seen \/ y = Key(s, w, name, About(k, id))
  BY <1>1, <1>2, <1>3, <1>7, PublishTells
<1>9. \A y \in seen' \ seen : HostKnows(y[4].entry) BY <1>6, <1>8, KeyFacts
<1>10. /\ StoreTypes' /\ StoreWell' /\ OnlyOwn' /\ SendsWell'
       /\ \A t \in Systems, l \in SessionIds : Lasts(t, l)
  BY <1>2, <1>8, <1>9, StoreStays
<1>11. ToldTypes' BY <1>1, <1>2, <1>3, <1>7, PublishTypes
<1>12. SocketsWell' BY <1>1, <1>2, <1>3, <1>7, PublishSockets
<1>13. AbortsWell' BY <1>1, <1>2, <1>3, <1>7, <1>10, PublishAborts
<1>14. QED BY <1>2, <1>10, <1>11, <1>12, <1>13, SessionStep

LEMMA HostAppendsKeeps ==
  ASSUME LiveInv, NEW s \in Systems, NEW k \in SessionIds, NEW id \in HostIds, NEW kind \in Kinds,
         NEW role \in {"user", "agent", "system"}, HostAppends(s, k, id, kind, role)
  PROVE  LiveInv'
<1>1. StoreTypes /\ StoreWell /\ OnlyOwn /\ SendsWell BY InvFacts
<1>2. PICK old : old = sessions[<<s, k>>] OBVIOUS
<1>3. PICK e : e = Entry(s, k, id, kind, role) OBVIOUS
<1>4. /\ Exists(s, k) /\ ~Closed(s, k) /\ ~Full(s, k)
      /\ sessions' = [sessions EXCEPT ![<<s, k>>] = With(old, e)]
      /\ UNCHANGED <<created, counter, adapters, calls, hubVars>>
  BY <1>2, <1>3 DEF HostAppends, Accepts
<1>5. /\ <<s, k>> \in Pairs /\ old \in Session /\ OwnLines(old, s, k) /\ old.status # "none"
      /\ Len(old.entries) \in Nat /\ old.ws \in WsOf
  BY <1>1, <1>2, <1>4, SessionFacts
<1>6. e \in Line /\ e.sys = s /\ e.session = k /\ e.ws = old.ws /\ e.id = id
  BY <1>2, <1>3, <1>5 DEF Entry, Line, EntryIds
<1>7. PICK x : x = With(old, e) OBVIOUS
<1>8. /\ x \in Session /\ OwnLines(x, s, k) /\ x.ws = old.ws /\ x.status # "none" /\ x.reopened = old.reopened
      /\ Adds(old.entries, x.entries, e)
  BY <1>5, <1>6, <1>7, WithFacts
<1>9. Len(x.entries) <= MaxEntries BY <1>2, <1>4, <1>5, <1>8, LiveAssumption DEF Full, Adds
<1>10. CallTypes' BY <1>1, <1>4 DEF StoreTypes, CallTypes
<1>11. /\ StoreTypes' /\ StoreWell' /\ sessions'[<<s, k>>] = x
       /\ \A p \in Pairs : p # <<s, k>> => sessions'[p] = sessions[p]
       /\ \A t \in Systems, l \in SessionIds : Lasts(t, l)
  <2>1. Outlives(old, x) BY <1>2, <1>4, <1>8, KeepsOpen
  <2>2. QED BY <1>1, <1>2, <1>4, <1>7, <1>8, <1>9, <1>10, <2>1, StoreGrows
<1>12. AddsOnlyOf(0)
  <2>1. ASSUME NEW p \in Pairs
        PROVE  /\ Extends(p)
               /\ \A i \in DOMAIN sessions'[p].entries \ DOMAIN sessions[p].entries :
                    sessions'[p].entries[i].id \in HostIds
    <3>1. CASE p = <<s, k>>
      <4>1. \A i \in 1..(Len(old.entries) + 1) :
              i \notin 1..Len(old.entries) => i = Len(old.entries) + 1
        BY <1>5
      <4>2. 1..Len(old.entries) \subseteq 1..(Len(old.entries) + 1) BY <1>5
      <4>3. QED BY <1>2, <1>6, <1>8, <1>11, <3>1, <4>1, <4>2 DEF Extends, Adds
    <3>2. CASE p # <<s, k>> BY <1>11, <3>2 DEF Extends
    <3>3. QED BY <3>1, <3>2
  <2>2. seen' = seen BY <1>4 DEF hubVars, hub
  <2>3. QED BY <2>1, <2>2 DEF AddsOnlyOf
<1>13. 0 \notin Sends BY LiveAssumption DEF Sends
<1>14. OnlyOwn' /\ SendsWell' BY <1>1, <1>4, <1>12, <1>13, SendsKeep
<1>15. QED BY <1>4, <1>11, <1>14, SilentStep DEF hubVars

LEMMA HostKeeps ==
  ASSUME LiveInv, HostNext
  PROVE  LiveInv'
<1>1. /\ {"tool-call", "run-event", "error-event"} \subseteq Kinds
      /\ "agent" \in {"user", "agent", "system"} /\ "system" \in {"user", "agent", "system"}
  BY DEF Kinds
<1>2. QED
  BY <1>1, RegisterKeeps, CreateNextKeeps, CreateKeeps, PublishLiveKeeps, AbortKeeps, SetStatusKeeps,
     HostAppendsKeeps
  DEF HostNext

-----------------------------------------------------------------------------
(* The sends *)

ToldThen(s, k, name, id) == \E w \in Workspaces : Key(s, w, name, About(k, id)) \in seen'

\* A transcript with one entry more has its id once, and the others as before.
LEMMA AddsFacts ==
  ASSUME NEW old, NEW now, NEW e, Adds(old, now, e)
  PROVE  /\ Never(old, e.id) => Once(now, e.id) /\ ~Never(now, e.id)
         /\ \A id : id # e.id => (Once(old, id) <=> Once(now, id)) /\ (Never(old, id) <=> Never(now, id))
         /\ \A i \in DOMAIN now : \/ i = Len(old) + 1 /\ now[i] = e
                                  \/ i \in DOMAIN old /\ now[i] = old[i] /\ i < Len(old) + 1
         /\ DOMAIN old \subseteq DOMAIN now /\ \A i \in DOMAIN old : now[i] = old[i]
<1>1. /\ Len(old) + 1 \in DOMAIN now /\ DOMAIN old \subseteq DOMAIN now
      /\ \A i \in DOMAIN old : i < Len(old) + 1 /\ now[i] = old[i]
      /\ \A i \in DOMAIN now : i = Len(old) + 1 \/ i \in DOMAIN old
  BY DEF Adds
<1>2. PICK m : m = Len(old) + 1 OBVIOUS
<1>3. m \in DOMAIN now /\ now[m] = e /\ m \notin DOMAIN old BY <1>1, <1>2 DEF Adds
<1>4. ASSUME Never(old, e.id) PROVE Once(now, e.id) /\ ~Never(now, e.id)
  BY <1>1, <1>2, <1>3, <1>4 DEF Once, Never
<1>5. ASSUME NEW id, id # e.id
      PROVE  (Once(old, id) <=> Once(now, id)) /\ (Never(old, id) <=> Never(now, id))
  BY <1>1, <1>2, <1>3, <1>5 DEF Once, Never
<1>6. QED BY <1>1, <1>2, <1>3, <1>4, <1>5

\* What SendWell asks for after a step, told by its parts.
LEMMA SendIsWell ==
  ASSUME NEW c \in Sends, NEW s \in Systems, NEW k \in SessionIds, NEW call, NEW now,
         calls'[c] = call, call.sys = s, call.session = k, sessions'[<<s, k>>].entries = now,
         Once(now, UserId(c)),
         call.phase = "accepted" =>
           /\ Once(now, ReplyId(c))
           /\ \A i, j \in DOMAIN now : now[i].id = UserId(c) /\ now[j].id = ReplyId(c) => i < j,
         call.phase # "accepted" => Never(now, ReplyId(c)),
         Once(now, ErrorId(c)) \/ Never(now, ErrorId(c)),
         call.phase # "failed" => Never(now, ErrorId(c)),
         ToldThen(s, k, "chat.message", ReplyId(c)) <=> ~Never(now, ReplyId(c)),
         ToldThen(s, k, "error-event", ErrorId(c)) <=> ~Never(now, ErrorId(c)),
         call.phase = "waiting" <=> call.child = "alive",
         call.phase = "waiting" <=> call.timer
  PROVE  SendWell(c)'
BY DEF SendWell, ToldThen, Told

\* What is known of a send under way, or not yet made.
LEMMA OldSend ==
  ASSUME OnlyOwn, SendsWell, NEW c \in Sends, NEW s \in Systems, NEW k \in SessionIds,
         \/ calls[c].phase = "none"
         \/ calls[c].phase = "waiting" /\ calls[c].sys = s /\ calls[c].session = k
  PROVE  LET old == sessions[<<s, k>>].entries
         IN /\ Never(old, ReplyId(c)) /\ Never(old, ErrorId(c))
            /\ IF calls[c].phase = "none" THEN Never(old, UserId(c)) ELSE Once(old, UserId(c))
            /\ ~Told(s, k, "chat.message", ReplyId(c)) /\ ~Told(s, k, "error-event", ErrorId(c))
<1>1. CASE calls[c].phase = "none"
  <2>1. <<s, k>> \in Pairs /\ UserId(c) \in Mine(c) /\ ReplyId(c) \in Mine(c) /\ ErrorId(c) \in Mine(c)
    BY DEF Pairs, Mine
  <2>2. \A id \in Mine(c) : Never(sessions[<<s, k>>].entries, id) BY <1>1, <2>1 DEF OnlyOwn, Never
  <2>3. ASSUME NEW name \in Tells, NEW id \in Mine(c), Told(s, k, name, id) PROVE FALSE
    <3>1. PICK w \in Workspaces : Key(s, w, name, About(k, id)) \in seen BY <2>3 DEF Told
    <3>2. PICK y : y = Key(s, w, name, About(k, id)) OBVIOUS
    <3>3. y \in seen /\ y[3] = name /\ y[4].entry = id BY <3>1, <3>2, KeyFacts
    <3>4. QED BY <1>1, <3>3 DEF OnlyOwn
  <2>4. "chat.message" \in Tells /\ "error-event" \in Tells BY DEF Tells
  <2>5. QED BY <1>1, <2>1, <2>2, <2>3, <2>4
<1>2. CASE calls[c].phase = "waiting" /\ calls[c].sys = s /\ calls[c].session = k
  <2>1. SendWell(c) BY <1>2 DEF SendsWell
  <2>2. PICK call : call = calls[c] OBVIOUS
  <2>3. PICK old : old = sessions[<<s, k>>].entries OBVIOUS
  <2>4. /\ Once(old, UserId(c))
        /\ call.phase # "accepted" => Never(old, ReplyId(c))
        /\ call.phase # "failed" => Never(old, ErrorId(c))
        /\ Told(s, k, "chat.message", ReplyId(c)) <=> ~Never(old, ReplyId(c))
        /\ Told(s, k, "error-event", ErrorId(c)) <=> ~Never(old, ErrorId(c))
    BY <1>2, <2>1, <2>2, <2>3 DEF SendWell
  <2>5. QED BY <1>2, <2>2, <2>3, <2>4
<1>3. QED BY <1>1, <1>2

\* What is told by one event, or by none.
LEMMA ToldOne ==
  ASSUME NEW s \in Systems, NEW w \in Workspaces, NEW k \in SessionIds, NEW name, NEW id,
         seen \subseteq seen', Key(s, w, name, About(k, id)) \in seen',
         \A y \in seen' : y \in seen \/ y = Key(s, w, name, About(k, id))
  PROVE  /\ ToldThen(s, k, name, id)
         /\ \A other, other_id : other # name => (ToldThen(s, k, other, other_id) <=> Told(s, k, other, other_id))
<1>1. ToldThen(s, k, name, id) BY DEF ToldThen
<1>2. ASSUME NEW other, NEW other_id, other # name
      PROVE  ToldThen(s, k, other, other_id) <=> Told(s, k, other, other_id)
  <2>1. ASSUME NEW v
        PROVE  Key(s, v, other, About(k, other_id)) \in seen' <=> Key(s, v, other, About(k, other_id)) \in seen
    <3>1. Key(s, v, other, About(k, other_id)) # Key(s, w, name, About(k, id)) BY <1>2, KeyFacts
    <3>2. QED BY <3>1
  <2>2. QED BY <2>1 DEF ToldThen, Told
<1>3. QED BY <1>1, <1>2

\* A step of one send: its session takes new entries that are its own.
SessionGrows(s, k, c, x) ==
  LET old == sessions[<<s, k>>]
  IN /\ Exists(s, k) /\ ~Closed(s, k)
     /\ x \in Session /\ OwnLines(x, s, k) /\ x.ws = old.ws /\ x.status # "none" /\ x.reopened = old.reopened
     /\ Len(x.entries) <= MaxEntries
     /\ sessions' = [sessions EXCEPT ![<<s, k>>] = x]
     /\ created' = created /\ counter' = counter /\ adapters' = adapters
     /\ DOMAIN old.entries \subseteq DOMAIN x.entries
     /\ \A i \in DOMAIN old.entries : x.entries[i] = old.entries[i]
     /\ \A i \in DOMAIN x.entries \ DOMAIN old.entries : x.entries[i].id \in Mine(c)
SendGoesOn(s, k, c, call) ==
  /\ call \in CallOf /\ calls' = [calls EXCEPT ![c] = call]
  /\ call.sys = s /\ call.session = k /\ call.phase # "none"
  /\ calls[c].phase # "none" => calls[c].sys = s /\ calls[c].session = k
  /\ seen \subseteq seen' /\ \A y \in seen' \ seen : y[4].entry \in Mine(c)

LEMMA SendStep ==
  ASSUME LiveInv, NEW s \in Systems, NEW k \in SessionIds, NEW c \in Sends, NEW x, NEW call,
         SessionGrows(s, k, c, x), SendGoesOn(s, k, c, call), SendWell(c)'
  PROVE  /\ StoreTypes' /\ StoreWell' /\ OnlyOwn' /\ SendsWell'
         /\ \A t \in Systems, l \in SessionIds : Lasts(t, l)
<1>1. StoreTypes /\ StoreWell /\ OnlyOwn /\ SendsWell BY InvFacts
<1>2. /\ calls' \in [Sends -> CallOf] /\ calls'[c] = call
      /\ \A d \in Sends : d # c => calls'[d] = calls[d]
      /\ call.sys = s /\ call.session = k /\ call.phase # "none"
      /\ calls[c].phase # "none" => calls[c].sys = s /\ calls[c].session = k
  BY <1>1 DEF StoreTypes, CallTypes, SendGoesOn
<1>3. CallTypes' BY <1>1, <1>2 DEF StoreTypes, CallTypes
<1>4. /\ StoreTypes' /\ StoreWell' /\ sessions'[<<s, k>>] = x
      /\ \A p \in Pairs : p # <<s, k>> => sessions'[p] = sessions[p]
      /\ \A t \in Systems, l \in SessionIds : Lasts(t, l)
  <2>1. Outlives(sessions[<<s, k>>], x) BY KeepsOpen DEF SessionGrows
  <2>2. QED BY <1>1, <1>3, <2>1, StoreGrows DEF SessionGrows
<1>5. ASSUME NEW p \in Pairs
      PROVE  /\ Extends(p)
             /\ \A i \in DOMAIN sessions'[p].entries \ DOMAIN sessions[p].entries :
                  /\ sessions'[p].entries[i].id \in Mine(c)
                  /\ calls'[c].sys = p[1] /\ calls'[c].session = p[2]
  <2>1. CASE p = <<s, k>>
    <3>1. p[1] = s /\ p[2] = k BY <2>1
    <3>2. sessions'[p] = x BY <1>4, <2>1
    <3>3. QED BY <1>2, <2>1, <3>1, <3>2 DEF Extends, SessionGrows
  <2>2. CASE p # <<s, k>> BY <1>4, <2>2 DEF Extends
  <2>3. QED BY <2>1, <2>2
<1>6. AddsOnlyOf(c) BY <1>5 DEF AddsOnlyOf, SendGoesOn
<1>7. calls'[c].phase # "none" /\ calls'[c].sys = s /\ calls'[c].session = k BY <1>2
<1>8. OnlyOwn' /\ SendsWell' BY <1>1, <1>2, <1>6, <1>7, SendsKeep
<1>9. QED BY <1>4, <1>8

LEMMA EntryFacts ==
  ASSUME StoreTypes, StoreWell, NEW s \in Systems, NEW k \in SessionIds, NEW id \in EntryIds,
         NEW kind \in Kinds, NEW role \in {"user", "agent", "system"}
  PROVE  LET e == Entry(s, k, id, kind, role)
         IN e \in Line /\ e.sys = s /\ e.session = k /\ e.ws = sessions[<<s, k>>].ws /\ e.id = id
<1>1. sessions[<<s, k>>].ws \in WsOf BY SessionFacts
<1>2. QED BY <1>1 DEF Entry, Line

\* append of an entry that is accepted.
LEMMA AppendKeeps ==
  ASSUME StoreTypes, StoreWell, NEW s \in Systems, NEW k \in SessionIds, Accepts(s, k),
         NEW id \in EntryIds, NEW kind \in Kinds, NEW role \in {"user", "agent", "system"}
  PROVE  LET old == sessions[<<s, k>>]
             e == Entry(s, k, id, kind, role)
             x == With(old, e)
         IN /\ x \in Session /\ OwnLines(x, s, k) /\ x.ws = old.ws /\ x.status # "none" /\ x.reopened = old.reopened
            /\ Adds(old.entries, x.entries, e) /\ Len(x.entries) <= MaxEntries
            /\ Len(x.entries) \in Nat /\ e.id = id /\ old.ws \in Workspaces
<1>1. PICK old : old = sessions[<<s, k>>] OBVIOUS
<1>2. PICK e : e = Entry(s, k, id, kind, role) OBVIOUS
<1>3. PICK x : x = With(old, e) OBVIOUS
<1>4. Exists(s, k) /\ ~Closed(s, k) /\ ~Full(s, k) BY DEF Accepts
<1>5. /\ old \in Session /\ OwnLines(old, s, k) /\ old.status # "none"
      /\ Len(old.entries) \in Nat /\ old.ws \in Workspaces
  BY <1>1, <1>4, SessionFacts
<1>6. e \in Line /\ e.sys = s /\ e.session = k /\ e.ws = old.ws /\ e.id = id
  BY <1>1, <1>2, EntryFacts
<1>7. /\ x \in Session /\ OwnLines(x, s, k) /\ x.ws = old.ws /\ x.status # "none" /\ x.reopened = old.reopened
      /\ Adds(old.entries, x.entries, e)
  BY <1>3, <1>5, <1>6, WithFacts
<1>8. Len(x.entries) <= MaxEntries /\ Len(x.entries) \in Nat
  BY <1>1, <1>4, <1>5, <1>7, LiveAssumption DEF Full, Adds
<1>9. QED BY <1>1, <1>2, <1>3, <1>5, <1>6, <1>7, <1>8

\* A send that tells nothing.
LEMMA Untold ==
  ASSUME seen' = seen, NEW s, NEW k, NEW name, NEW id
  PROVE  ToldThen(s, k, name, id) <=> Told(s, k, name, id)
BY DEF ToldThen, Told

\* The user's entry alone: SendCli, and SendEcho on the last place.
LEMMA PostKeeps ==
  ASSUME LiveInv, NEW s \in Systems, NEW k \in SessionIds, NEW c \in Sends, Accepts(s, k),
         calls[c].phase = "none", NEW call \in CallOf,
         call.sys = s, call.session = k,
         \/ call.phase = "failed" /\ call.child = "gone" /\ call.timer = FALSE
         \/ call.phase = "waiting" /\ call.child = "alive" /\ call.timer = TRUE,
         sessions' = [sessions EXCEPT ![<<s, k>>] = Posted(s, k, c)],
         calls' = [calls EXCEPT ![c] = call],
         UNCHANGED <<created, counter, adapters>>, UNCHANGED <<hub, socketVars, disk>>
  PROVE  LiveInv'
<1>1. StoreTypes /\ StoreWell /\ OnlyOwn /\ SendsWell BY InvFacts
<1>2. /\ UserId(c) \in EntryIds /\ UserId(c) \in Mine(c) /\ UserId(c) # ReplyId(c)
      /\ UserId(c) # ErrorId(c)
  BY MineFacts DEF Mine
<1>3. PICK old : old = sessions[<<s, k>>] OBVIOUS
<1>4. PICK e : e = Entry(s, k, UserId(c), "message", "user") OBVIOUS
<1>5. PICK x : x = Posted(s, k, c) OBVIOUS
<1>6. x = With(old, e) BY <1>3, <1>4, <1>5 DEF Posted
<1>7. "message" \in Kinds /\ "user" \in {"user", "agent", "system"} BY DEF Kinds
<1>8. /\ x \in Session /\ OwnLines(x, s, k) /\ x.ws = old.ws /\ x.status # "none" /\ x.reopened = old.reopened
      /\ Adds(old.entries, x.entries, e) /\ Len(x.entries) <= MaxEntries /\ e.id = UserId(c)
  BY <1>1, <1>2, <1>3, <1>4, <1>6, <1>7, AppendKeeps
<1>9. Exists(s, k) /\ ~Closed(s, k) BY DEF Accepts
<1>10. /\ Never(old.entries, ReplyId(c)) /\ Never(old.entries, ErrorId(c))
       /\ Never(old.entries, UserId(c))
       /\ ~Told(s, k, "chat.message", ReplyId(c)) /\ ~Told(s, k, "error-event", ErrorId(c))
  BY <1>1, <1>3, OldSend
<1>11. /\ Once(x.entries, UserId(c)) /\ Never(x.entries, ReplyId(c)) /\ Never(x.entries, ErrorId(c))
       /\ \A i \in DOMAIN x.entries : i \notin DOMAIN old.entries => x.entries[i] = e
       /\ DOMAIN old.entries \subseteq DOMAIN x.entries
       /\ \A i \in DOMAIN old.entries : x.entries[i] = old.entries[i]
  BY <1>2, <1>8, <1>10, AddsFacts
<1>12. seen' = seen BY DEF hub
<1>13. /\ ~ToldThen(s, k, "chat.message", ReplyId(c)) /\ ~ToldThen(s, k, "error-event", ErrorId(c))
  BY <1>10, <1>12, Untold
<1>14. calls'[c] = call /\ sessions'[<<s, k>>].entries = x.entries
  <2>1. sessions'[<<s, k>>] = x BY <1>1, <1>5 DEF StoreTypes, Pairs
  <2>2. QED BY <1>1, <2>1 DEF StoreTypes, CallTypes
<1>15. SendWell(c)' BY <1>11, <1>13, <1>14, SendIsWell
<1>16. SessionGrows(s, k, c, x)
  BY <1>2, <1>3, <1>5, <1>8, <1>9, <1>11 DEF SessionGrows
<1>17. SendGoesOn(s, k, c, call) BY <1>12 DEF SendGoesOn
<1>18. /\ StoreTypes' /\ StoreWell' /\ OnlyOwn' /\ SendsWell'
       /\ \A t \in Systems, l \in SessionIds : Lasts(t, l)
  BY <1>15, <1>16, <1>17, SendStep
<1>19. QED BY <1>18, SilentStep

\* The event of a send: its reply or its error, of a session that is open.
LEMMA SendTells ==
  ASSUME LiveInv, NEW s \in Systems, NEW w \in Workspaces, NEW k \in SessionIds, ~Closed(s, k),
         NEW name \in Tells, NEW id \in EntryIds, Publish(s, w, name, About(k, id), "adapter"),
         UNCHANGED socketVars,
         \A t \in Systems, l \in SessionIds : Lasts(t, l)
  PROVE  ToldTypes' /\ SocketsWell' /\ AbortsWell'
<1>1. ToldTypes /\ SocketTypes /\ SocketsWell /\ AbortsWell BY InvFacts
<1>2. /\ name \in EventNames /\ name # "chat.aborted" /\ About(k, id) \in Payload
      /\ About(k, id).session = k /\ "adapter" \in Tellers
  BY DEF EventNames, Tells, Tellers, About, Payload
<1>3. ToldTypes' BY <1>1, <1>2, PublishTypes
<1>4. SocketsWell' BY <1>1, <1>2, PublishSockets
<1>5. AbortsWell' BY <1>1, <1>2, PublishAborts
<1>6. QED BY <1>3, <1>4, <1>5

LEMMA SendHears ==
  ASSUME LiveInv, NEW s \in Systems, NEW w \in Workspaces, NEW k \in SessionIds, NEW c \in Sends,
         NEW name \in Tells, NEW id \in Mine(c), Publish(s, w, name, About(k, id), "adapter")
  PROVE  /\ seen \subseteq seen' /\ \A y \in seen' \ seen : y[4].entry \in Mine(c)
         /\ ToldThen(s, k, name, id)
         /\ \A other, other_id : other # name => (ToldThen(s, k, other, other_id) <=> Told(s, k, other, other_id))
<1>1. ToldTypes BY InvFacts
<1>2. name \in EventNames /\ About(k, id) \in Payload /\ "adapter" \in Tellers
  BY MineFacts DEF EventNames, Tellers, About, Payload
<1>3. /\ seen \subseteq seen' /\ Key(s, w, name, About(k, id)) \in seen'
      /\ \A y \in seen' : y \in seen \/ y = Key(s, w, name, About(k, id))
  BY <1>1, <1>2, PublishTells
<1>4. \A y \in seen' \ seen : y[4].entry \in Mine(c) BY <1>3, KeyFacts
<1>5. QED BY <1>3, <1>4, ToldOne

LEMMA SendCliKeeps ==
  ASSUME LiveInv, NEW s \in Systems, NEW k \in SessionIds, NEW c \in Sends, SendCli(s, k, c)
  PROVE  LiveInv'
<1>1. PICK call : call = Call(s, k, "waiting", "alive") OBVIOUS
<1>2. /\ call \in CallOf /\ call.sys = s /\ call.session = k
      /\ call.phase = "waiting" /\ call.child = "alive" /\ call.timer = TRUE
  BY <1>1 DEF Call, CallOf, CallPhases
<1>3. /\ Accepts(s, k) /\ calls[c].phase = "none"
      /\ sessions' = [sessions EXCEPT ![<<s, k>>] = Posted(s, k, c)]
      /\ calls' = [calls EXCEPT ![c] = call]
      /\ UNCHANGED <<created, counter, adapters>> /\ UNCHANGED <<hub, socketVars, disk>>
  BY <1>1 DEF SendCli, Started, Free, hubVars
<1>4. QED BY <1>2, <1>3, PostKeeps

\* The user's entry and the reply in one step.
LEMMA EchoKeeps ==
  ASSUME LiveInv, NEW s \in Systems, NEW k \in SessionIds, NEW c \in Sends, Accepts(s, k),
         calls[c].phase = "none", Len(Posted(s, k, c).entries) < MaxEntries,
         sessions' = [sessions EXCEPT ![<<s, k>>] =
           With(Posted(s, k, c), Entry(s, k, ReplyId(c), "message", "agent"))],
         calls' = [calls EXCEPT ![c] = Call(s, k, "accepted", "gone")],
         Publish(s, Posted(s, k, c).ws, "chat.message", About(k, ReplyId(c)), "adapter"),
         UNCHANGED <<created, counter, adapters>>, UNCHANGED <<socketVars, disk>>
  PROVE  LiveInv'
<1>1. StoreTypes /\ StoreWell /\ OnlyOwn /\ SendsWell BY InvFacts
<1>2. /\ UserId(c) \in EntryIds /\ ReplyId(c) \in EntryIds
      /\ UserId(c) \in Mine(c) /\ ReplyId(c) \in Mine(c)
      /\ UserId(c) # ReplyId(c) /\ UserId(c) # ErrorId(c) /\ ReplyId(c) # ErrorId(c)
  BY MineFacts DEF Mine
<1>3. PICK old : old = sessions[<<s, k>>] OBVIOUS
<1>4. PICK e : e = Entry(s, k, UserId(c), "message", "user") OBVIOUS
<1>5. PICK r : r = Entry(s, k, ReplyId(c), "message", "agent") OBVIOUS
<1>6. PICK m : m = Posted(s, k, c) OBVIOUS
<1>7. PICK x : x = With(m, r) OBVIOUS
<1>8. PICK call : call = Call(s, k, "accepted", "gone") OBVIOUS
<1>9. m = With(old, e) BY <1>3, <1>4, <1>6 DEF Posted
<1>10. "message" \in Kinds /\ {"user", "agent"} \subseteq {"user", "agent", "system"} BY DEF Kinds
<1>11. /\ m \in Session /\ OwnLines(m, s, k) /\ m.ws = old.ws /\ m.status # "none" /\ m.reopened = old.reopened
       /\ Adds(old.entries, m.entries, e) /\ Len(m.entries) \in Nat /\ e.id = UserId(c)
       /\ old.ws \in Workspaces
  BY <1>1, <1>2, <1>3, <1>4, <1>9, <1>10, AppendKeeps
<1>12. r \in Line /\ r.sys = s /\ r.session = k /\ r.ws = m.ws /\ r.id = ReplyId(c)
  BY <1>1, <1>2, <1>3, <1>5, <1>10, <1>11, EntryFacts
<1>13. /\ x \in Session /\ OwnLines(x, s, k) /\ x.ws = m.ws /\ x.status # "none" /\ x.reopened = m.reopened
       /\ Adds(m.entries, x.entries, r)
  BY <1>7, <1>11, <1>12, WithFacts
<1>14. Len(x.entries) <= MaxEntries BY <1>6, <1>11, <1>13, LiveAssumption DEF Adds
<1>15. Exists(s, k) /\ ~Closed(s, k) BY DEF Accepts
<1>16. /\ Never(old.entries, ReplyId(c)) /\ Never(old.entries, ErrorId(c))
       /\ Never(old.entries, UserId(c))
       /\ ~Told(s, k, "chat.message", ReplyId(c)) /\ ~Told(s, k, "error-event", ErrorId(c))
  BY <1>1, <1>3, OldSend
<1>17. /\ Once(m.entries, UserId(c)) /\ Never(m.entries, ReplyId(c)) /\ Never(m.entries, ErrorId(c))
       /\ \A i \in DOMAIN m.entries : i \notin DOMAIN old.entries => m.entries[i] = e
       /\ DOMAIN old.entries \subseteq DOMAIN m.entries
       /\ \A i \in DOMAIN old.entries : m.entries[i] = old.entries[i]
  BY <1>2, <1>11, <1>16, AddsFacts
<1>18. /\ Once(x.entries, UserId(c)) /\ Once(x.entries, ReplyId(c)) /\ ~Never(x.entries, ReplyId(c))
       /\ Never(x.entries, ErrorId(c))
       /\ \A i \in DOMAIN x.entries : \/ i = Len(m.entries) + 1 /\ x.entries[i] = r
                                      \/ /\ i \in DOMAIN m.entries /\ x.entries[i] = m.entries[i]
                                         /\ i < Len(m.entries) + 1
       /\ DOMAIN m.entries \subseteq DOMAIN x.entries
       /\ \A i \in DOMAIN m.entries : x.entries[i] = m.entries[i]
  BY <1>2, <1>12, <1>13, <1>17, AddsFacts
<1>19. \A i, j \in DOMAIN x.entries :
         x.entries[i].id = UserId(c) /\ x.entries[j].id = ReplyId(c) => i < j
  BY <1>2, <1>12, <1>17, <1>18 DEF Never
<1>20. SessionGrows(s, k, c, x)
  <2>1. sessions' = [sessions EXCEPT ![<<s, k>>] = x] BY <1>5, <1>6, <1>7
  <2>2. \A i \in DOMAIN x.entries \ DOMAIN old.entries : x.entries[i].id \in Mine(c)
    BY <1>2, <1>11, <1>12, <1>17, <1>18
  <2>3. DOMAIN old.entries \subseteq DOMAIN x.entries
        /\ \A i \in DOMAIN old.entries : x.entries[i] = old.entries[i]
    BY <1>17, <1>18
  <2>4. QED BY <1>3, <1>11, <1>13, <1>14, <1>15, <2>1, <2>2, <2>3 DEF SessionGrows
<1>21. /\ call \in CallOf /\ call.sys = s /\ call.session = k
       /\ call.phase = "accepted" /\ call.child = "gone" /\ call.timer = FALSE
  BY <1>8 DEF Call, CallOf, CallPhases
<1>22. PICK w : w = old.ws OBVIOUS
<1>23. /\ w \in Workspaces /\ "chat.message" \in Tells
       /\ Publish(s, w, "chat.message", About(k, ReplyId(c)), "adapter")
  BY <1>6, <1>11, <1>22 DEF Tells
<1>24. /\ seen \subseteq seen' /\ \A y \in seen' \ seen : y[4].entry \in Mine(c)
       /\ ToldThen(s, k, "chat.message", ReplyId(c))
       /\ \A other, other_id :
            other # "chat.message" => (ToldThen(s, k, other, other_id) <=> Told(s, k, other, other_id))
  BY <1>2, <1>23, SendHears
<1>25. ~ToldThen(s, k, "error-event", ErrorId(c)) BY <1>16, <1>24
<1>26. calls'[c] = call /\ sessions'[<<s, k>>].entries = x.entries
  <2>1. sessions'[<<s, k>>] = x BY <1>1, <1>5, <1>6, <1>7 DEF StoreTypes, Pairs
  <2>2. QED BY <1>1, <1>8, <2>1 DEF StoreTypes, CallTypes
<1>27. SendWell(c)' BY <1>18, <1>19, <1>21, <1>24, <1>25, <1>26, SendIsWell
<1>28. SendGoesOn(s, k, c, call) BY <1>8, <1>21, <1>24 DEF SendGoesOn
<1>29. /\ StoreTypes' /\ StoreWell' /\ OnlyOwn' /\ SendsWell'
       /\ \A t \in Systems, l \in SessionIds : Lasts(t, l)
  BY <1>20, <1>27, <1>28, SendStep
<1>30. ToldTypes' /\ SocketsWell' /\ AbortsWell' BY <1>2, <1>15, <1>23, <1>29, SendTells
<1>31. QED BY <1>29, <1>30, SessionStep

LEMMA SendEchoKeeps ==
  ASSUME LiveInv, NEW s \in Systems, NEW k \in SessionIds, NEW c \in Sends, SendEcho(s, k, c)
  PROVE  LiveInv'
<1>1. Accepts(s, k) /\ calls[c].phase = "none" /\ UNCHANGED <<created, counter, adapters>>
      /\ UNCHANGED <<socketVars, disk>>
  BY DEF SendEcho, Started, Free
<1>2. CASE Len(Posted(s, k, c).entries) < MaxEntries
  <2>1. /\ sessions' = [sessions EXCEPT ![<<s, k>>] =
             With(Posted(s, k, c), Entry(s, k, ReplyId(c), "message", "agent"))]
        /\ calls' = [calls EXCEPT ![c] = Call(s, k, "accepted", "gone")]
        /\ Publish(s, Posted(s, k, c).ws, "chat.message", About(k, ReplyId(c)), "adapter")
    BY <1>2 DEF SendEcho
  <2>2. QED BY <1>1, <1>2, <2>1, EchoKeeps
<1>3. CASE ~(Len(Posted(s, k, c).entries) < MaxEntries)
  <2>1. PICK call : call = Call(s, k, "failed", "gone") OBVIOUS
  <2>2. /\ call \in CallOf /\ call.sys = s /\ call.session = k
        /\ call.phase = "failed" /\ call.child = "gone" /\ call.timer = FALSE
    BY <2>1 DEF Call, CallOf, CallPhases
  <2>3. /\ sessions' = [sessions EXCEPT ![<<s, k>>] = Posted(s, k, c)]
        /\ calls' = [calls EXCEPT ![c] = call] /\ UNCHANGED hub
    BY <1>3, <2>1 DEF SendEcho
  <2>4. UNCHANGED <<hub, socketVars, disk>> BY <1>1, <2>3
  <2>5. QED BY <1>1, <2>2, <2>3, <2>4, PostKeeps
<1>4. QED BY <1>2, <1>3

\* The rest of a send on a call that is `call` by now: its child is not alive
\* and its timer is cleared.
Left(c, call) ==
  /\ call \in CallOf /\ call.sys = calls[c].sys /\ call.session = calls[c].session
  /\ call.child \in {"killed", "gone"} /\ call.timer = FALSE

\* The reply of a send, or its error.
Ending(c, id, event, phase) ==
  \/ id = ReplyId(c) /\ event = "chat.message" /\ phase = "accepted"
  \/ id = ErrorId(c) /\ event = "error-event" /\ phase = "failed"

\* A send whose last entry is refused, or that was over already.
LEMMA OverKeeps ==
  ASSUME LiveInv, NEW c \in Sends, calls[c].phase # "none", NEW call, Left(c, call),
         IF calls[c].phase = "waiting" THEN call.phase = "failed" ELSE call.phase = calls[c].phase,
         calls' = [calls EXCEPT ![c] = call], UNCHANGED <<sessions, hub>>, UNCHANGED rest
  PROVE  LiveInv'
<1>1. StoreTypes /\ StoreWell /\ OnlyOwn /\ SendsWell BY InvFacts
<1>2. PICK s, k : s = calls[c].sys /\ k = calls[c].session OBVIOUS
<1>3. PICK old : old = sessions[<<s, k>>].entries OBVIOUS
<1>4. PICK was : was = calls[c].phase OBVIOUS
<1>5. SendWell(c) BY <1>1 DEF SendsWell
<1>6. /\ s \in Systems /\ k \in SessionIds /\ Once(old, UserId(c))
      /\ was = "accepted" =>
           /\ Once(old, ReplyId(c))
           /\ \A i, j \in DOMAIN old :
                old[i].id = UserId(c) /\ old[j].id = ReplyId(c) => i < j
      /\ was # "accepted" => Never(old, ReplyId(c))
      /\ Once(old, ErrorId(c)) \/ Never(old, ErrorId(c))
      /\ was # "failed" => Never(old, ErrorId(c))
      /\ Told(s, k, "chat.message", ReplyId(c)) <=> ~Never(old, ReplyId(c))
      /\ Told(s, k, "error-event", ErrorId(c)) <=> ~Never(old, ErrorId(c))
  BY <1>2, <1>3, <1>4, <1>5 DEF SendWell
<1>7. /\ call.sys = s /\ call.session = k /\ call.child \in {"killed", "gone"} /\ call.timer = FALSE
      /\ call \in CallOf
      /\ IF was = "waiting" THEN call.phase = "failed" ELSE call.phase = was
  BY <1>2, <1>4 DEF Left
<1>8. /\ calls' \in [Sends -> CallOf] /\ calls'[c] = call
      /\ \A d \in Sends : d # c => calls'[d] = calls[d]
  BY <1>1, <1>7 DEF StoreTypes, CallTypes
<1>9. /\ seen' = seen /\ sessions' = sessions /\ created' = created /\ counter' = counter
      /\ adapters' = adapters /\ UNCHANGED <<hub, socketVars, disk>>
  BY DEF hub, rest
<1>10. /\ ToldThen(s, k, "chat.message", ReplyId(c)) <=> ~Never(old, ReplyId(c))
       /\ ToldThen(s, k, "error-event", ErrorId(c)) <=> ~Never(old, ErrorId(c))
  BY <1>6, <1>9, Untold
<1>11. sessions'[<<s, k>>].entries = old BY <1>3, <1>9
<1>12. SendWell(c)' BY <1>6, <1>7, <1>8, <1>10, <1>11, SendIsWell
<1>13. AddsOnlyOf(c) BY <1>9 DEF AddsOnlyOf, Extends
<1>14. calls'[c].phase # "none" /\ calls'[c].sys = calls[c].sys /\ calls'[c].session = calls[c].session
  BY <1>2, <1>4, <1>7, <1>8
<1>15. OnlyOwn' /\ SendsWell' BY <1>1, <1>8, <1>12, <1>13, <1>14, SendsKeep
<1>16. CallTypes' BY <1>1, <1>8, <1>14 DEF StoreTypes, CallTypes
<1>17. StoreTypes' /\ StoreWell' BY <1>1, <1>9, <1>16 DEF StoreTypes, StoreWell
<1>18. QED BY <1>9, <1>15, <1>17, SilentStep DEF Lasts, Outlives

\* The last entry of a send is accepted and told.
LEMMA LastKeeps ==
  ASSUME LiveInv, NEW c \in Sends, calls[c].phase = "waiting", NEW call, Left(c, call),
         NEW s, NEW k, s = calls[c].sys, k = calls[c].session, Accepts(s, k),
         NEW kind \in Kinds, NEW role \in {"user", "agent", "system"},
         NEW id, NEW event, NEW phase, Ending(c, id, event, phase),
         sessions' = [sessions EXCEPT ![<<s, k>>] = With(sessions[<<s, k>>], Entry(s, k, id, kind, role))],
         calls' = [calls EXCEPT ![c] = [call EXCEPT !.phase = phase]],
         Publish(s, sessions[<<s, k>>].ws, event, About(k, id), "adapter"), UNCHANGED rest
  PROVE  LiveInv'
<1>1. StoreTypes /\ StoreWell /\ OnlyOwn /\ SendsWell BY InvFacts
<1>2. SendWell(c) BY <1>1 DEF SendsWell
<1>3. s \in Systems /\ k \in SessionIds BY <1>2 DEF SendWell
<1>4. /\ id \in EntryIds /\ id \in Mine(c) /\ id # UserId(c) /\ event \in Tells
      /\ UserId(c) # ReplyId(c) /\ UserId(c) # ErrorId(c) /\ ReplyId(c) # ErrorId(c)
  BY MineFacts DEF Mine, Ending, Tells
<1>5. PICK old : old = sessions[<<s, k>>] OBVIOUS
<1>6. PICK e : e = Entry(s, k, id, kind, role) OBVIOUS
<1>7. PICK x : x = With(old, e) OBVIOUS
<1>8. PICK now : now = [call EXCEPT !.phase = phase] OBVIOUS
<1>9. /\ x \in Session /\ OwnLines(x, s, k) /\ x.ws = old.ws /\ x.status # "none" /\ x.reopened = old.reopened
      /\ Adds(old.entries, x.entries, e) /\ Len(x.entries) <= MaxEntries /\ e.id = id
      /\ old.ws \in Workspaces
  BY <1>1, <1>3, <1>4, <1>5, <1>6, <1>7, AppendKeeps
<1>10. Exists(s, k) /\ ~Closed(s, k) BY DEF Accepts
<1>11. /\ Never(old.entries, ReplyId(c)) /\ Never(old.entries, ErrorId(c))
       /\ Once(old.entries, UserId(c))
       /\ ~Told(s, k, "chat.message", ReplyId(c)) /\ ~Told(s, k, "error-event", ErrorId(c))
  BY <1>1, <1>3, <1>5, OldSend
<1>12. /\ Once(x.entries, UserId(c)) /\ Once(x.entries, id) /\ ~Never(x.entries, id)
       /\ \A other : other # id => (Never(old.entries, other) <=> Never(x.entries, other))
       /\ \A i \in DOMAIN x.entries : \/ i = Len(old.entries) + 1 /\ x.entries[i] = e
                                      \/ /\ i \in DOMAIN old.entries /\ x.entries[i] = old.entries[i]
                                         /\ i < Len(old.entries) + 1
       /\ DOMAIN old.entries \subseteq DOMAIN x.entries
       /\ \A i \in DOMAIN old.entries : x.entries[i] = old.entries[i]
  <2>1. Never(old.entries, id) BY <1>11 DEF Ending
  <2>2. QED BY <1>4, <1>9, <1>11, <2>1, AddsFacts
<1>13. /\ now \in CallOf /\ now.sys = s /\ now.session = k /\ now.phase = phase
       /\ now.child # "alive" /\ now.timer = FALSE
       /\ phase # "waiting" /\ phase # "none"
  BY <1>8 DEF Left, CallOf, CallPhases, Ending
<1>14. PICK w : w = old.ws OBVIOUS
<1>15. /\ w \in Workspaces /\ Publish(s, w, event, About(k, id), "adapter") BY <1>5, <1>9, <1>14
<1>16. /\ seen \subseteq seen' /\ \A y \in seen' \ seen : y[4].entry \in Mine(c)
       /\ ToldThen(s, k, event, id)
       /\ \A other, other_id : other # event =>
            (ToldThen(s, k, other, other_id) <=> Told(s, k, other, other_id))
  BY <1>3, <1>4, <1>15, SendHears
<1>17. calls'[c] = now /\ sessions'[<<s, k>>].entries = x.entries
  <2>1. sessions'[<<s, k>>] = x BY <1>1, <1>3, <1>5, <1>6, <1>7 DEF StoreTypes, Pairs
  <2>2. QED BY <1>1, <1>8, <2>1 DEF StoreTypes, CallTypes
<1>18. SendWell(c)'
  <2>1. CASE id = ReplyId(c) /\ event = "chat.message" /\ phase = "accepted"
    <3>1. Never(x.entries, ErrorId(c)) /\ ~ToldThen(s, k, "error-event", ErrorId(c))
      BY <1>4, <1>11, <1>12, <1>16, <2>1
    <3>2. \A i, j \in DOMAIN x.entries :
            x.entries[i].id = UserId(c) /\ x.entries[j].id = ReplyId(c) => i < j
      BY <1>4, <1>9, <1>11, <1>12, <2>1 DEF Never
    <3>3. QED BY <1>3, <1>12, <1>13, <1>16, <1>17, <2>1, <3>1, <3>2, SendIsWell
  <2>2. CASE id = ErrorId(c) /\ event = "error-event" /\ phase = "failed"
    <3>1. Never(x.entries, ReplyId(c)) /\ ~ToldThen(s, k, "chat.message", ReplyId(c))
      BY <1>4, <1>11, <1>12, <1>16, <2>2
    <3>2. QED BY <1>3, <1>12, <1>13, <1>16, <1>17, <2>2, <3>1, SendIsWell
  <2>3. QED BY <2>1, <2>2 DEF Ending
<1>19. SessionGrows(s, k, c, x)
  <2>1. sessions' = [sessions EXCEPT ![<<s, k>>] = x] BY <1>5, <1>6, <1>7
  <2>2. \A i \in DOMAIN x.entries \ DOMAIN old.entries : x.entries[i].id \in Mine(c)
    BY <1>4, <1>9, <1>12
  <2>3. created' = created /\ counter' = counter /\ adapters' = adapters BY DEF rest
  <2>4. QED BY <1>5, <1>9, <1>10, <1>12, <2>1, <2>2, <2>3 DEF SessionGrows
<1>20. SendGoesOn(s, k, c, now) BY <1>8, <1>13, <1>16 DEF SendGoesOn
<1>21. /\ StoreTypes' /\ StoreWell' /\ OnlyOwn' /\ SendsWell'
       /\ \A t \in Systems, l \in SessionIds : Lasts(t, l)
  BY <1>3, <1>18, <1>19, <1>20, SendStep
<1>22. ToldTypes' /\ SocketsWell' /\ AbortsWell'
  <2>1. UNCHANGED socketVars BY DEF rest
  <2>2. QED BY <1>3, <1>4, <1>10, <1>15, <1>21, <2>1, SendTells
<1>23. UNCHANGED <<socketVars, disk>> BY DEF rest
<1>24. QED BY <1>21, <1>22, <1>23, SessionStep

LEMMA EndsKeep ==
  ASSUME LiveInv, NEW c \in Sends, calls[c].phase = "waiting", NEW call, Left(c, call),
         Replies(c, call) \/ Rejects(c, call), UNCHANGED rest
  PROVE  LiveInv'
<1>1. ASSUME NEW kind \in Kinds, NEW role \in {"user", "agent", "system"}, NEW id, NEW event,
             NEW phase, Ending(c, id, event, phase), Ends(c, call, kind, role, id, event, phase)
      PROVE  LiveInv'
  <2>1. PICK s, k : s = call.sys /\ k = call.session OBVIOUS
  <2>2. s = calls[c].sys /\ k = calls[c].session BY <2>1 DEF Left
  <2>3. CASE Accepts(s, k)
    <3>1. /\ sessions' = [sessions EXCEPT ![<<s, k>>] =
               With(sessions[<<s, k>>], Entry(s, k, id, kind, role))]
          /\ calls' = [calls EXCEPT ![c] = [call EXCEPT !.phase = phase]]
          /\ Publish(s, sessions[<<s, k>>].ws, event, About(k, id), "adapter")
      BY <1>1, <2>1, <2>3 DEF Ends
    <3>2. QED BY <1>1, <2>2, <2>3, <3>1, LastKeeps
  <2>4. CASE ~Accepts(s, k)
    <3>1. PICK now : now = [call EXCEPT !.phase = "failed"] OBVIOUS
    <3>2. calls' = [calls EXCEPT ![c] = now] /\ UNCHANGED <<sessions, hub>>
      BY <1>1, <2>1, <2>4, <3>1 DEF Ends
    <3>3. Left(c, now) /\ now.phase = "failed" BY <3>1 DEF Left, CallOf, CallPhases
    <3>4. QED BY <3>2, <3>3, OverKeeps
  <2>5. QED BY <2>3, <2>4
<1>2. /\ "message" \in Kinds /\ "error-event" \in Kinds
      /\ "agent" \in {"user", "agent", "system"} /\ "system" \in {"user", "agent", "system"}
  BY DEF Kinds
<1>3. /\ Ending(c, ReplyId(c), "chat.message", "accepted")
      /\ Ending(c, ErrorId(c), "error-event", "failed")
  BY DEF Ending
<1>4. QED BY <1>1, <1>2, <1>3 DEF Replies, Rejects

LEMMA FinishKeeps ==
  ASSUME LiveInv, NEW c \in Sends, calls[c].phase # "none", NEW call \in CallOf,
         call.sys = calls[c].sys, call.session = calls[c].session, call.phase = calls[c].phase,
         call.timer = FALSE, call.child \in {calls[c].child, "gone"},
         Finish(c, call), UNCHANGED rest
  PROVE  LiveInv'
<1>1. CASE call.phase = "waiting"
  <2>1. PICK now : now = [call EXCEPT !.child = IF call.child = "alive" THEN "killed" ELSE call.child]
    OBVIOUS
  <2>2. Rejects(c, now) BY <1>1, <2>1 DEF Finish
  <2>3. Left(c, now) BY <2>1 DEF Left, CallOf
  <2>4. QED BY <1>1, <2>2, <2>3, EndsKeep
<1>2. CASE call.phase # "waiting"
  <2>1. calls' = [calls EXCEPT ![c] = call] /\ UNCHANGED <<sessions, hub>> BY <1>2 DEF Finish
  <2>2. calls[c].child # "alive" BY <1>2, InvFacts DEF SendsWell, SendWell
  <2>3. Left(c, call) BY <2>2 DEF Left, CallOf
  <2>4. QED BY <1>2, <2>1, <2>3, OverKeeps
<1>3. QED BY <1>1, <1>2

LEMMA ChildKeeps ==
  ASSUME LiveInv, NEW c \in Sends, ChildStep(c)
  PROVE  LiveInv'
<1>1. PICK was : was = calls[c] OBVIOUS
<1>2. was \in CallOf /\ (was.phase = "none" => was = NoCall)
  BY <1>1, InvFacts DEF StoreTypes, CallTypes
<1>3. was.timer \/ was.child \in {"alive", "killed"} => was.phase # "none"
  BY <1>2 DEF NoCall
<1>4. PICK cleared : cleared = [was EXCEPT !.timer = FALSE] OBVIOUS
<1>5. PICK gone : gone = [was EXCEPT !.timer = FALSE, !.child = "gone"] OBVIOUS
<1>6. /\ cleared \in CallOf /\ cleared.sys = was.sys /\ cleared.session = was.session
      /\ cleared.phase = was.phase /\ cleared.timer = FALSE /\ cleared.child = was.child
  BY <1>2, <1>4 DEF CallOf
<1>7. /\ gone \in CallOf /\ gone.sys = was.sys /\ gone.session = was.session
      /\ gone.phase = was.phase /\ gone.timer = FALSE /\ gone.child = "gone"
  BY <1>2, <1>5 DEF CallOf
<1>8. CASE Timeout(c)
  <2>1. was.timer /\ Finish(c, cleared) /\ UNCHANGED rest BY <1>1, <1>4, <1>8 DEF Timeout
  <2>2. QED BY <1>1, <1>3, <1>6, <2>1, FinishKeeps
<1>9. CASE TooMuch(c)
  <2>1. was.child \in {"alive", "killed"} /\ Finish(c, cleared) /\ UNCHANGED rest
    BY <1>1, <1>4, <1>9 DEF TooMuch
  <2>2. QED BY <1>1, <1>3, <1>6, <2>1, FinishKeeps
<1>10. CASE ChildFails(c)
  <2>1. was.child = "alive" /\ Finish(c, gone) /\ UNCHANGED rest
    BY <1>1, <1>5, <1>10 DEF ChildFails
  <2>2. QED BY <1>1, <1>3, <1>7, <2>1, FinishKeeps
<1>11. ASSUME NEW good \in BOOLEAN, ChildCloses(c, good) PROVE LiveInv'
  <2>1. was.child \in {"alive", "killed"} /\ UNCHANGED rest
        /\ IF was.phase # "waiting"
           THEN calls' = [calls EXCEPT ![c] = gone] /\ UNCHANGED <<sessions, hub>>
           ELSE Replies(c, gone) \/ Rejects(c, gone)
    BY <1>1, <1>5, <1>11 DEF ChildCloses
  <2>2. Left(c, gone) BY <1>1, <1>7 DEF Left
  <2>3. CASE was.phase = "waiting" BY <1>1, <2>1, <2>2, <2>3, EndsKeep
  <2>4. CASE was.phase # "waiting" BY <1>1, <1>3, <1>7, <2>1, <2>2, <2>4, OverKeeps
  <2>5. QED BY <2>3, <2>4
<1>12. QED BY <1>8, <1>9, <1>10, <1>11 DEF ChildStep

-----------------------------------------------------------------------------
(* The invariant *)

LEMMA LiveInit == Init => LiveInv
<1> SUFFICES ASSUME Init PROVE LiveInv OBVIOUS
<1>1. /\ seqBySystem = [s \in Systems |-> 0] /\ seen = {} /\ inbox = [c \in Sockets |-> <<>>]
      /\ selected = [c \in Sockets |-> None] /\ sub = selected /\ stream = selected
      /\ open = Sockets /\ watched = {} /\ changed = {}
      /\ file = [p \in Known |-> 0] /\ cached = {}
      /\ sessions = [p \in Pairs |-> NoSession] /\ created = <<>> /\ counter = 0
      /\ adapters = [s \in Systems |-> <<>>] /\ calls = [c \in Sends |-> NoCall]
  BY DEF Init, HubInit, Pairs
<1>2. <<>> \in Seq(Event) /\ <<>> \in Seq(Line) /\ <<>> \in Seq(Pairs) /\ <<>> \in Seq(Names)
      /\ Len(<<>>) = 0 /\ DOMAIN <<>> = {}
  OBVIOUS
<1>3. IsInjective(<<>>) /\ ToSet(<<>>) = {} BY <1>2 DEF IsInjective, ToSet
<1>4. ToldTypes
  <2>1. \A s \in Systems : {y \in seen : y[1] = s} = {} /\ seqBySystem[s] = 0 BY <1>1
  <2>2. IsFiniteSet({}) /\ Cardinality({}) = 0 BY FS_EmptySet
  <2>3. \A s \in Systems : Cardinality({y \in seen : y[1] = s}) <= seqBySystem[s] BY <2>1, <2>2
  <2>4. QED BY <1>1, <1>2, <2>2, <2>3 DEF ToldTypes
<1>5. SocketTypes /\ SocketsWell /\ AbortsWell
  <2>1. \A c \in Sockets : inbox[c] = <<>> /\ selected[c] = None /\ sub[c] = None /\ stream[c] = None
    BY <1>1
  <2>2. \A c \in Sockets : DOMAIN inbox[c] = {} BY <1>2, <2>1
  <2>3. SocketTypes BY <1>1 DEF SocketTypes, WsOf
  <2>4. SocketsWell BY <2>1, <2>2 DEF SocketsWell
  <2>5. AbortsWell BY <2>2 DEF AbortsWell
  <2>6. QED BY <2>3, <2>4, <2>5
<1>6. DiskTypes /\ CacheWell
  <2>1. 0 \in Version BY HubAssumption DEF Version
  <2>2. QED BY <1>1, <2>1 DEF DiskTypes, CacheWell
<1>7. NoSession \in Session /\ NoSession.status = "none" /\ NoSession.entries = <<>>
  BY <1>2 DEF NoSession, Session, WsOf, Statuses
<1>8. StoreTypes
  <2>1. sessions \in [Pairs -> Session] BY <1>1, <1>7
  <2>2. created \in Seq(Pairs) /\ IsInjective(created)
        /\ ToSet(created) = {p \in Pairs : sessions[p] # NoSession}
    BY <1>1, <1>2, <1>3
  <2>3. counter \in 0..MaxAuto BY <1>1, LiveAssumption
  <2>4. adapters \in [Systems -> Seq(Names)] /\ \A s \in Systems : IsInjective(adapters[s])
    BY <1>1, <1>2, <1>3
  <2>5. NoCall \in CallOf BY DEF NoCall, CallOf, CallPhases
  <2>6. CallTypes BY <1>1, <2>5 DEF CallTypes
  <2>7. QED BY <2>1, <2>2, <2>3, <2>4, <2>6 DEF StoreTypes
<1>9. \A p \in Pairs : sessions[p] = NoSession /\ DOMAIN sessions[p].entries = {}
                       /\ Len(sessions[p].entries) = 0
  BY <1>1, <1>2, <1>7
<1>10. StoreWell BY <1>7, <1>9, LiveAssumption DEF StoreWell
<1>11. OnlyOwn BY <1>1, <1>9 DEF OnlyOwn
<1>12. SendsWell BY <1>1 DEF SendsWell, NoCall
<1>13. QED BY <1>4, <1>5, <1>6, <1>8, <1>10, <1>11, <1>12 DEF LiveInv

LEMMA LiveNext == LiveInv /\ [Next]_vars => LiveInv'
<1> SUFFICES ASSUME LiveInv, [Next]_vars PROVE LiveInv' OBVIOUS
<1>1. CASE SendNext BY <1>1, SendEchoKeeps, SendCliKeeps, ChildKeeps DEF SendNext
<1>2. CASE HostNext BY <1>2, HostKeeps
<1>3. CASE HubNext /\ UNCHANGED live BY <1>3, HubKeeps
<1>4. CASE UNCHANGED vars
  <2>1. UNCHANGED <<hub, socketVars, disk>> /\ UNCHANGED live BY <1>4 DEF vars, hubVars
  <2>2. seen' = seen BY <2>1 DEF hub
  <2>3. /\ StoreTypes' /\ StoreWell' /\ OnlyOwn' /\ SendsWell'
        /\ \A t \in Systems, k \in SessionIds : Lasts(t, k)
    BY <2>1, <2>2, StoreStays
  <2>4. QED BY <2>1, <2>3, SilentStep
<1>5. QED BY <1>1, <1>2, <1>3, <1>4 DEF Next

\* The invariant holds of every run.
THEOREM LiveInductive == Spec => []LiveInv
<1>1. Init => LiveInv BY LiveInit
<1>2. LiveInv /\ [Next]_vars => LiveInv' BY LiveNext
<1>3. QED BY <1>1, <1>2, PTL DEF Spec

-----------------------------------------------------------------------------
(* What LiveReads asks *)

\* A socket is of one workspace and of its system, what it was sent is in the
\* order of the system's counter, and no adapter tells it a reply or an error of
\* a session after an adapter told it of the session's abort, unless the host
\* opened the session again (handleSocket, SubscriptionHub.publish, append).
THEOREM SocketsKeepScope == Spec => []SocketInScope
<1>1. LiveInv => SocketInScope
  <2> SUFFICES ASSUME LiveInv PROVE SocketInScope OBVIOUS
  <2>1. SocketsWell /\ AbortsWell BY InvFacts
  <2>2. QED BY <2>1 DEF SocketsWell, AbortsWell, SocketInScope, Reopened, Tells
<1>2. QED BY <1>1, LiveInductive, PTL

\* What is kept under the present stat of a file is its present text
\* (readMarkdownFile takes the stat first).
THEOREM CacheIsCurrent == Spec => []CachedIsCurrent
<1>1. LiveInv => CachedIsCurrent
  <2> SUFFICES ASSUME LiveInv, NEW e \in cached, e.key = file[<<e.sys, e.ws>>]
               PROVE  e.body = e.key
    BY DEF CachedIsCurrent
  <2>1. DiskTypes /\ CacheWell BY InvFacts
  <2>2. e.key \in Nat /\ e.body \in Nat BY <2>1, FileFacts
  <2>3. e.key <= e.body /\ e.body <= e.key BY <2>1 DEF CacheWell
  <2>4. QED BY <2>2, <2>3
<1>2. QED BY <1>1, LiveInductive, PTL

LEMMA TypesTold == LiveInv => LiveTypeOK
<1> SUFFICES ASSUME LiveInv PROVE LiveTypeOK OBVIOUS
<1>1. ToldTypes /\ SocketTypes /\ DiskTypes /\ StoreTypes /\ StoreWell BY InvFacts
<1>2. ASSUME NEW p \in Systems \X SessionIds
      PROVE  LET x == sessions[p] IN
             /\ x.ws \in Workspaces \cup {None}
             /\ x.status \in SessionStatus \cup {"none"} /\ x.reopened \in BOOLEAN
             /\ Len(x.entries) <= MaxEntries
             /\ \A i \in DOMAIN x.entries :
                  x.entries[i] \in [id : EntryIds, kind : Kinds, role : {"user", "agent", "system"},
                                    sys : {p[1]}, ws : {x.ws}, session : {p[2]}]
  <2>1. PICK x : x = sessions[p] OBVIOUS
  <2>2. p \in Pairs BY DEF Pairs
  <2>3. x \in Session BY <1>1, <2>1, <2>2 DEF StoreTypes
  <2>4. x.ws \in WsOf /\ x.status \in Statuses /\ x.entries \in Seq(Line)
        /\ x.reopened \in BOOLEAN
    BY <2>3 DEF Session
  <2>5. ASSUME NEW i \in DOMAIN x.entries
        PROVE  x.entries[i] \in [id : EntryIds, kind : Kinds, role : {"user", "agent", "system"},
                                 sys : {p[1]}, ws : {x.ws}, session : {p[2]}]
    <3>1. PICK e : e = x.entries[i] OBVIOUS
    <3>2. e \in Line BY <2>4, <3>1
    <3>3. e.sys = p[1] /\ e.session = p[2] /\ e.ws = x.ws
      BY <1>1, <2>1, <2>2, <3>1 DEF StoreWell
    <3>4. e \in [id : EntryIds, kind : Kinds, role : {"user", "agent", "system"},
                 sys : {p[1]}, ws : {x.ws}, session : {p[2]}]
      BY <3>2, <3>3 DEF Line
    <3>5. QED BY <3>1, <3>4
  <2>6. Len(x.entries) <= MaxEntries BY <1>1, <2>1, <2>2 DEF StoreWell
  <2>7. QED BY <2>1, <2>4, <2>5, <2>6 DEF WsOf, Statuses
<1>3. IsInjective(created) /\ ToSet(created) = {p \in Systems \X SessionIds : sessions[p] # NoSession}
  BY <1>1 DEF StoreTypes, Pairs
<1>4. \A s \in Systems : IsInjective(adapters[s]) /\ ToSet(adapters[s]) \subseteq Names
  <2>1. ASSUME NEW s \in Systems PROVE ToSet(adapters[s]) \subseteq Names
    <3>1. adapters[s] \in Seq(Names) BY <1>1 DEF StoreTypes
    <3>2. \A i \in DOMAIN adapters[s] : adapters[s][i] \in Names BY <3>1
    <3>3. QED BY <3>2 DEF ToSet
  <2>2. QED BY <1>1, <2>1 DEF StoreTypes
<1>5. \A c \in Sends :
        /\ calls[c].phase \in CallPhases /\ calls[c].child \in {"alive", "killed", "gone"}
        /\ calls[c].timer \in BOOLEAN
  <2>1. \A c \in Sends : calls[c] \in CallOf BY <1>1 DEF StoreTypes, CallTypes
  <2>2. QED BY <2>1 DEF CallOf
<1>6. \A c \in Sockets : {selected[c], sub[c], stream[c]} \subseteq Workspaces \cup {None}
  BY <1>1 DEF SocketTypes, WsOf
<1>7. QED BY <1>1, <1>2, <1>3, <1>4, <1>5, <1>6
      DEF LiveTypeOK, StoreTypes, ToldTypes, SocketTypes, DiskTypes

\* The places of an id that is there once, or never.
LEMMA Places ==
  ASSUME NEW entries, NEW id
  PROVE  LET at == {i \in DOMAIN entries : entries[i].id = id}
         IN /\ Once(entries, id) => Cardinality(at) = 1 /\ at # {}
            /\ Never(entries, id) <=> at = {}
            /\ Never(entries, id) => Cardinality(at) = 0
<1> DEFINE at == {i \in DOMAIN entries : entries[i].id = id}
<1>1. ASSUME Once(entries, id) PROVE Cardinality(at) = 1 /\ at # {}
  <2>1. PICK i : at = {i} BY <1>1 DEF Once
  <2>2. Cardinality({i}) = 1 BY FS_Singleton
  <2>3. QED BY <2>1, <2>2
<1>2. Never(entries, id) <=> at = {} BY DEF Never
<1>3. Never(entries, id) => Cardinality(at) = 0 BY <1>2, FS_EmptySet
<1>4. QED BY <1>1, <1>2, <1>3

\* A send is settled once, and its transcript, its answer and what was told of
\* it agree (send of runtime-adapters.ts and adapter.ts).
THEOREM SendsSettleOnce == Spec => []SendSettledOnce
<1>1. LiveInv => SendSettledOnce
  <2> SUFFICES ASSUME LiveInv PROVE SendSettledOnce OBVIOUS
  <2>1. LiveTypeOK BY TypesTold
  <2>2. ASSUME NEW c \in Sends, calls[c].phase # "none"
        PROVE  LET call == calls[c]
                   entries == Transcript(call.sys, call.session)
                   at(id) == {i \in DOMAIN entries : entries[i].id = id}
                   told(event, id) == \E w \in Workspaces :
                     Key(call.sys, w, event, About(call.session, id)) \in seen
               IN /\ Cardinality(at(UserId(c))) = 1
                  /\ call.phase = "accepted" =>
                       /\ Cardinality(at(ReplyId(c))) = 1
                       /\ \A i \in at(UserId(c)), j \in at(ReplyId(c)) : i < j
                  /\ call.phase # "accepted" => at(ReplyId(c)) = {}
                  /\ Cardinality(at(ErrorId(c))) <= (IF call.phase = "failed" THEN 1 ELSE 0)
                  /\ told("chat.message", ReplyId(c)) <=> (at(ReplyId(c)) # {})
                  /\ told("error-event", ErrorId(c)) <=> (at(ErrorId(c)) # {})
                  /\ call.phase = "waiting" <=> call.child = "alive"
                  /\ call.phase = "waiting" <=> call.timer
    <3>1. PICK call : call = calls[c] OBVIOUS
    <3>2. PICK s, k : s = call.sys /\ k = call.session OBVIOUS
    <3>3. PICK entries : entries = Transcript(s, k) OBVIOUS
    <3> DEFINE at(id) == {i \in DOMAIN entries : entries[i].id = id}
    <3>4. /\ Once(entries, UserId(c))
          /\ call.phase = "accepted" =>
               /\ Once(entries, ReplyId(c))
               /\ \A i, j \in DOMAIN entries :
                    entries[i].id = UserId(c) /\ entries[j].id = ReplyId(c) => i < j
          /\ call.phase # "accepted" => Never(entries, ReplyId(c))
          /\ Once(entries, ErrorId(c)) \/ Never(entries, ErrorId(c))
          /\ call.phase # "failed" => Never(entries, ErrorId(c))
          /\ Told(s, k, "chat.message", ReplyId(c)) <=> ~Never(entries, ReplyId(c))
          /\ Told(s, k, "error-event", ErrorId(c)) <=> ~Never(entries, ErrorId(c))
          /\ call.phase = "waiting" <=> call.child = "alive"
          /\ call.phase = "waiting" <=> call.timer
      BY <2>2, <3>1, <3>2, <3>3, InvFacts DEF SendsWell, SendWell, Transcript
    <3>5. /\ Cardinality(at(UserId(c))) = 1
          /\ call.phase = "accepted" => Cardinality(at(ReplyId(c))) = 1
      BY <3>4, Places
    <3>6. call.phase # "accepted" => at(ReplyId(c)) = {} BY <3>4, Places
    <3>7. Cardinality(at(ErrorId(c))) <= (IF call.phase = "failed" THEN 1 ELSE 0)
      <4>1. CASE Never(entries, ErrorId(c))
        <5>1. Cardinality(at(ErrorId(c))) = 0 BY <4>1, Places
        <5>2. QED BY <5>1
      <4>2. CASE Once(entries, ErrorId(c)) /\ ~Never(entries, ErrorId(c))
        <5>1. Cardinality(at(ErrorId(c))) = 1 /\ call.phase = "failed" BY <3>4, <4>2, Places
        <5>2. QED BY <5>1
      <4>3. QED BY <3>4, <4>1, <4>2
    <3>8. /\ Never(entries, ReplyId(c)) <=> at(ReplyId(c)) = {}
          /\ Never(entries, ErrorId(c)) <=> at(ErrorId(c)) = {}
      BY Places
    <3>9. \A i \in at(UserId(c)), j \in at(ReplyId(c)) : call.phase = "accepted" => i < j BY <3>4
    <3>10. /\ Told(s, k, "chat.message", ReplyId(c)) <=> at(ReplyId(c)) # {}
           /\ Told(s, k, "error-event", ErrorId(c)) <=> at(ErrorId(c)) # {}
      BY <3>4, <3>8
    <3>11. QED BY <3>1, <3>2, <3>3, <3>4, <3>5, <3>6, <3>7, <3>9, <3>10 DEF Told
  <2>3. QED BY <2>1, <2>2 DEF SendSettledOnce
<1>2. QED BY <1>1, LiveInductive, PTL

\* A step that is about the system s, if about any.
StepOf(s) ==
  /\ \A p \in Pairs : p[1] # s => sessions'[p] = sessions[p]
  /\ \A t \in Systems : t # s => seqBySystem'[t] = seqBySystem[t] /\ adapters'[t] = adapters[t]
  /\ \A e : e.sys # s => (e \in cached' <=> e \in cached)
  /\ \A c \in Sockets : SystemOf[c] # s => inbox'[c] = inbox[c] /\ sub'[c] = sub[c]

LEMMA StepTouches ==
  ASSUME NEW s, StepOf(s), NEW t \in Systems, Touched(t)
  PROVE  t = s
<1> SUFFICES ASSUME t # s PROVE FALSE OBVIOUS
<1>1. \A k \in SessionIds : sessions'[<<t, k>>] = sessions[<<t, k>>]
  <2>1. \A k \in SessionIds : <<t, k>> \in Pairs /\ <<t, k>>[1] = t BY DEF Pairs
  <2>2. QED BY <2>1 DEF StepOf
<1>2. seqBySystem'[t] = seqBySystem[t] /\ adapters'[t] = adapters[t] BY DEF StepOf
<1>3. {e \in cached' : e.sys = t} = {e \in cached : e.sys = t} BY DEF StepOf
<1>4. \A c \in Sockets : SystemOf[c] = t => inbox'[c] = inbox[c] /\ sub'[c] = sub[c] BY DEF StepOf
<1>5. QED BY <1>1, <1>2, <1>3, <1>4 DEF Touched

\* What a published event changes is of its system.
LEMMA PublishApart ==
  ASSUME NEW s, NEW w, NEW name, NEW payload, NEW by, Publish(s, w, name, payload, by), ToldTypes
  PROVE  /\ \A t \in Systems : t # s => seqBySystem'[t] = seqBySystem[t]
         /\ \A c \in Sockets : SystemOf[c] # s => inbox'[c] = inbox[c]
<1>1. CASE UNCHANGED hub BY <1>1 DEF hub
<1>2. CASE Deliver(s, w, name, payload, by) BY <1>2 DEF Deliver, Subscribed, ToldTypes
<1>3. QED BY <1>1, <1>2 DEF Publish

LEMMA HubApart ==
  ASSUME LiveInv, HubNext, UNCHANGED live
  PROVE  \E s : StepOf(s)
<1>1. ToldTypes /\ SocketTypes BY InvFacts
<1>2. sessions' = sessions /\ adapters' = adapters BY DEF live
<1>3. ASSUME NEW c \in Sockets, NEW w \in Workspaces, Subscribe(c, w) \/ RunSubscribe(c, w)
      PROVE  StepOf(SystemOf[c])
  <2>1. /\ seqBySystem' = seqBySystem /\ cached' = cached /\ inbox' = [inbox EXCEPT ![c] = <<>>]
        /\ sub' = [sub EXCEPT ![c] = w] \/ sub' = [sub EXCEPT ![c] = None]
    BY <1>3 DEF Subscribe, RunSubscribe, disk
  <2>2. \A d \in Sockets : d # c => inbox'[d] = inbox[d] /\ sub'[d] = sub[d]
    BY <1>1, <2>1 DEF ToldTypes, SocketTypes
  <2>3. QED BY <1>2, <2>1, <2>2 DEF StepOf
<1>4. ASSUME NEW c \in Sockets, Close(c) PROVE StepOf(SystemOf[c])
  <2>1. /\ seqBySystem' = seqBySystem /\ cached' = cached /\ inbox' = [inbox EXCEPT ![c] = <<>>]
        /\ sub' = [sub EXCEPT ![c] = None]
    BY <1>4 DEF Close, disk
  <2>2. \A d \in Sockets : d # c => inbox'[d] = inbox[d] /\ sub'[d] = sub[d]
    BY <1>1, <2>1 DEF ToldTypes, SocketTypes
  <2>3. QED BY <1>2, <2>1, <2>2 DEF StepOf
<1>5. ASSUME NEW c \in Sockets, RunUnsubscribe(c) PROVE StepOf(SystemOf[c])
  BY <1>2, <1>5 DEF RunUnsubscribe, StepOf, hub, disk
<1>6. ASSUME NEW s \in Systems,
             \/ InvalidateSystem(s)
             \/ \E w \in Workspaces : Write(s, w) \/ Watch(s, w) \/ Unwatch(s, w)
             \/ \E w \in Workspaces, raced \in BOOLEAN : Preview(s, w, raced)
      PROVE  StepOf(s)
  <2>1. UNCHANGED <<hub, socketVars>>
    BY <1>6 DEF InvalidateSystem, Write, Watch, Unwatch, Preview
  <2>2. \A e : e.sys # s => (e \in cached' <=> e \in cached)
    <3>1. CASE InvalidateSystem(s) BY <3>1 DEF InvalidateSystem, OfSystem
    <3>2. CASE \E w \in Workspaces : Write(s, w) \/ Watch(s, w) \/ Unwatch(s, w)
      BY <3>2 DEF Write, Watch, Unwatch
    <3>3. ASSUME NEW w \in Workspaces, NEW raced \in BOOLEAN, Preview(s, w, raced)
          PROVE  \A e : e.sys # s => (e \in cached' <=> e \in cached)
      <4>1. PICK key, body : Store(s, w, key, body) BY <3>3 DEF Preview
      <4>2. PICK new : new = [sys |-> s, ws |-> w, key |-> key, body |-> body] OBVIOUS
      <4>3. new.sys = s BY <4>2
      <4>4. cached' = {e \in cached : ~(e.sys = s /\ e.ws = w /\ e.key = key)} \cup {new}
        BY <4>1, <4>2 DEF Store
      <4>5. QED BY <4>3, <4>4
    <3>4. QED BY <1>6, <3>1, <3>2, <3>3
  <2>3. QED BY <1>2, <2>1, <2>2 DEF StepOf, hub, socketVars
<1>7. ASSUME NEW s \in Systems, NEW w \in Workspaces, WatchFires(s, w) PROVE StepOf(s)
  <2>1. /\ Publish(s, w, "source.changed", Nothing, "watcher") /\ sub' = sub
        /\ cached' = cached \ OfWorkspace(s, w)
    BY <1>7 DEF WatchFires, socketVars
  <2>2. \A e : e.sys # s => (e \in cached' <=> e \in cached) BY <2>1 DEF OfWorkspace
  <2>3. QED BY <1>1, <1>2, <2>1, <2>2, PublishApart DEF StepOf
<1>8. ASSUME NEW e \in cached, Expire(e) PROVE StepOf(e.sys)
  <2>1. cached' = cached \ {e} /\ UNCHANGED <<hub, socketVars>> BY <1>8 DEF Expire
  <2>2. QED BY <1>2, <2>1 DEF StepOf, hub, socketVars
<1>9. QED BY <1>3, <1>4, <1>5, <1>6, <1>7, <1>8 DEF HubNext

\* A step of a session of s.
LEMMA SessionApart ==
  ASSUME LiveInv, NEW s, NEW k, NEW x,
         \/ sessions' = [sessions EXCEPT ![<<s, k>>] = x] \/ sessions' = sessions,
         \/ adapters' = adapters \/ \E q : adapters' = [adapters EXCEPT ![s] = q],
         \/ UNCHANGED hub \/ \E w, name, payload, by : Publish(s, w, name, payload, by),
         UNCHANGED <<socketVars, disk>>
  PROVE  StepOf(s)
<1>1. ToldTypes /\ StoreTypes BY InvFacts
<1>2. \A p \in Pairs : p[1] # s => sessions'[p] = sessions[p]
  <2>1. \A p \in Pairs : p[1] # s => p # <<s, k>> OBVIOUS
  <2>2. QED BY <1>1, <2>1 DEF StoreTypes
<1>3. \A t \in Systems : t # s => adapters'[t] = adapters[t] BY <1>1 DEF StoreTypes
<1>4. /\ \A t \in Systems : t # s => seqBySystem'[t] = seqBySystem[t]
      /\ \A c \in Sockets : SystemOf[c] # s => inbox'[c] = inbox[c]
  BY <1>1, PublishApart DEF hub
<1>5. cached' = cached /\ sub' = sub BY DEF socketVars, disk
<1>6. QED BY <1>2, <1>3, <1>4, <1>5 DEF StepOf

LEMMA HostApart ==
  ASSUME LiveInv, HostNext
  PROVE  \E s : StepOf(s)
<1>1. ASSUME NEW s \in Systems, NEW k \in SessionIds, Abort(s, k) PROVE StepOf(s)
  <2>1. PICK x : x = WithStatus(sessions[<<s, k>>], "aborted") OBVIOUS
  <2>2. sessions' = [sessions EXCEPT ![<<s, k>>] = x] BY <1>1, <2>1 DEF Abort
  <2>3. QED BY <1>1, <2>2, SessionApart DEF Abort
<1>2. ASSUME NEW s \in Systems, NEW k \in SessionIds, NEW id, NEW kind, NEW role,
             HostAppends(s, k, id, kind, role)
      PROVE  StepOf(s)
  <2>1. PICK x : x = With(sessions[<<s, k>>], Entry(s, k, id, kind, role)) OBVIOUS
  <2>2. sessions' = [sessions EXCEPT ![<<s, k>>] = x] BY <1>2, <2>1 DEF HostAppends
  <2>3. QED BY <1>2, <2>2, SessionApart DEF HostAppends, hubVars
<1>3. ASSUME NEW s \in Systems, NEW w \in Workspaces, NEW k \in SessionIds, Create(s, w, k)
      PROVE  StepOf(s)
  BY <1>3, SessionApart DEF Create, hubVars
<1>4. ASSUME NEW s \in Systems, NEW w \in Workspaces, CreateNext(s, w) PROVE StepOf(s)
  <2>1. PICK k, x : k = counter + 1 /\ x = NewSession(w) OBVIOUS
  <2>2. sessions' = [sessions EXCEPT ![<<s, k>>] = x] \/ sessions' = sessions
    BY <1>4, <2>1 DEF CreateNext
  <2>3. QED BY <1>4, <2>2, SessionApart DEF CreateNext, hubVars
<1>5. ASSUME NEW s \in Systems, NEW w \in Workspaces, NEW k \in SessionIds, NEW name, NEW id,
             PublishLive(s, w, k, name, id)
      PROVE  StepOf(s)
  BY <1>5, SessionApart DEF PublishLive, live
<1>6. ASSUME NEW s \in Systems, NEW name \in Names, Register(s, name) PROVE StepOf(s)
  <2>1. PICK q : q = Append(adapters[s], name) OBVIOUS
  <2>2. adapters' = [adapters EXCEPT ![s] = q] BY <1>6, <2>1 DEF Register
  <2>3. QED BY <1>6, <2>2, SessionApart DEF Register, hubVars
<1>7. ASSUME NEW s \in Systems, NEW k \in SessionIds, NEW status, SetStatus(s, k, status)
      PROVE  StepOf(s)
  BY <1>7, SessionApart DEF SetStatus, hubVars
<1>8. QED BY <1>1, <1>2, <1>3, <1>4, <1>5, <1>6, <1>7 DEF HostNext

LEMMA SendApart ==
  ASSUME LiveInv, SendNext
  PROVE  \E s : StepOf(s)
<1>1. ASSUME NEW s \in Systems, NEW k \in SessionIds, NEW c \in Sends, SendCli(s, k, c)
      PROVE  StepOf(s)
  BY <1>1, SessionApart DEF SendCli, hubVars
<1>2. ASSUME NEW s \in Systems, NEW k \in SessionIds, NEW c \in Sends, SendEcho(s, k, c)
      PROVE  StepOf(s)
  <2>1. PICK x : sessions' = [sessions EXCEPT ![<<s, k>>] = x] BY <1>2 DEF SendEcho
  <2>2. UNCHANGED hub \/ \E w, name, payload, by : Publish(s, w, name, payload, by) BY <1>2 DEF SendEcho
  <2>3. QED BY <1>2, <2>1, <2>2, SessionApart DEF SendEcho
<1>3. ASSUME NEW c \in Sends, ChildStep(c) PROVE \E s : StepOf(s)
  <2>1. ASSUME NEW call, NEW kind, NEW role, NEW id, NEW event, NEW phase,
               Ends(c, call, kind, role, id, event, phase), UNCHANGED rest
        PROVE  \E s : StepOf(s)
    <3>1. PICK s, k : s = call.sys /\ k = call.session OBVIOUS
    <3>2. PICK x : x = With(sessions[<<s, k>>], Entry(s, k, id, kind, role)) OBVIOUS
    <3>3. sessions' = [sessions EXCEPT ![<<s, k>>] = x] \/ sessions' = sessions
      BY <2>1, <3>1, <3>2 DEF Ends
    <3>4. UNCHANGED hub \/ \E w, name, payload, by : Publish(s, w, name, payload, by)
      BY <2>1, <3>1 DEF Ends
    <3>5. StepOf(s) BY <2>1, <3>3, <3>4, SessionApart DEF rest
    <3>6. QED BY <3>5
  <2>2. ASSUME UNCHANGED <<sessions, hub>>, UNCHANGED rest PROVE \E s : StepOf(s)
    <3>1. StepOf(None) BY <2>2 DEF rest, hub, socketVars, disk, StepOf
    <3>2. QED BY <3>1
  <2>3. ASSUME NEW call, Finish(c, call), UNCHANGED rest PROVE \E s : StepOf(s)
    <3>1. CASE call.phase = "waiting"
      <4>1. Rejects(c, [call EXCEPT !.child = IF call.child = "alive" THEN "killed" ELSE call.child])
        BY <2>3, <3>1 DEF Finish
      <4>2. QED BY <2>1, <2>3, <4>1 DEF Rejects
    <3>2. CASE call.phase # "waiting" BY <2>2, <2>3, <3>2 DEF Finish
    <3>3. QED BY <3>1, <3>2
  <2>4. CASE Timeout(c) \/ TooMuch(c) \/ ChildFails(c)
    BY <2>3, <2>4 DEF Timeout, TooMuch, ChildFails
  <2>5. ASSUME NEW good \in BOOLEAN, ChildCloses(c, good) PROVE \E s : StepOf(s)
    <3>1. PICK call : call = [calls[c] EXCEPT !.timer = FALSE, !.child = "gone"] OBVIOUS
    <3>2. /\ UNCHANGED rest
          /\ \/ UNCHANGED <<sessions, hub>> \/ Replies(c, call) \/ Rejects(c, call)
      BY <2>5, <3>1 DEF ChildCloses
    <3>3. QED BY <2>1, <2>2, <3>2 DEF Replies, Rejects
  <2>6. QED BY <1>3, <2>4, <2>5 DEF ChildStep
<1>4. QED BY <1>1, <1>2, <1>3 DEF SendNext

\* A step changes the sessions, the counter, the projections or the sockets
\* of one system at most (Rule 6: everything is partitioned by systemId).
THEOREM StepsStayApart == Spec => SystemsApart
<1>1. ASSUME LiveInv, [Next]_vars, NEW s \in Systems, NEW t \in Systems, Touched(s), Touched(t)
      PROVE  s = t
  <2>1. CASE \E o : StepOf(o) BY <1>1, <2>1, StepTouches
  <2>2. CASE UNCHANGED vars
    <3>1. StepOf(None) BY <2>2 DEF vars, hubVars, hub, socketVars, disk, live, StepOf
    <3>2. QED BY <1>1, <3>1, StepTouches
  <2>3. QED BY <1>1, <2>1, <2>2, SendApart, HostApart, HubApart DEF Next
<1>2. LiveInv /\ [Next]_vars => \A s, t \in Systems : Touched(s) /\ Touched(t) => s = t BY <1>1
<1>3. QED BY <1>2, LiveInductive, PTL DEF Spec, SystemsApart
=============================================================================
