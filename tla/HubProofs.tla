----------------------------- MODULE HubProofs -----------------------------
(***************************************************************************)
(* Proofs about Hub, for any users, tabs, processes, publishers and        *)
(* connections, any size of the buffer and of a replay, and any faults.    *)
(***************************************************************************)
EXTENDS Hub, FiniteSetTheorems, SequenceTheorems, TLAPS

-----------------------------------------------------------------------------
(* The inductive invariant *)

\* A publisher that has an id has the row with that id to itself; what it will send to
\* subscribed in its process.
Has(w) == pub[w].pc \in {"insert", "fanout", "send"}

OwnRows ==
    /\ \A w \in Publishers : Has(w) =>
          /\ pub[w].id \in DOMAIN ev
          /\ ev[pub[w].id].user = pub[w].user
          /\ ev[pub[w].id].process = Home[w]
          /\ ev[pub[w].id].stored <=> pub[w].pc # "insert"
          /\ ~ev[pub[w].id].sent
          /\ \A v \in Publishers \ {w} : Has(v) => pub[v].id # pub[w].id
    /\ \A w \in Publishers : \A c \in pub[w].targets :
          /\ pub[w].pc = "send"
          /\ conn[c].pc # "none" /\ conn[c].process = Home[w] /\ User(c) = pub[w].user
    /\ \A e \in DOMAIN ev : ev[e].sent => ev[e].stored

\* Subscriptions, connections and tabs agree on who belongs to whom; nothing that was
\* never opened is shut.
Belong ==
    /\ \A c \in Conns : conn[c].pc = "none" => ~conn[c].shut
    /\ \A p \in Processes : \A c \in subs[p] :
          conn[c].process = p /\ conn[c].pc \notin {"none", "end"}
    /\ \A t \in Tabs :
          /\ tab[t].conn # NoConn => tab[t].conn \in tab[t].conns
          /\ \A c \in tab[t].conns : conn[c].pc # "none" /\ conn[c].tab = t

\* Only who resumes has a replay; one that was read in full is in the channel, in the
\* replay or was dropped.
Replayed ==
    \A c \in Conns :
        /\ conn[c].replay # "none" \/ conn[c].past # {} \/ conn[c].offered # {} => conn[c].since > 0
        /\ conn[c].pc \in {"none", "list"} => conn[c].replay = "none" /\ conn[c].past = {}
        /\ conn[c].replay = "all" =>
              conn[c].offered \subseteq Range(conn[c].out) \cup conn[c].past \cup conn[c].lost

IsStored(e) == e \in DOMAIN ev /\ ev[e].stored

\* What has reached a channel or a tab is in the database.
OnlyStored ==
    /\ \A c \in Conns :
          /\ \A e \in Range(conn[c].out) : e # Ping => IsStored(e)
          /\ \A e \in conn[c].past : IsStored(e)
    /\ \A t \in Tabs :
          /\ tab[t].last > 0 => IsStored(tab[t].last) /\ tab[t].last \in tab[t].seen
          /\ tab[t].from <= Len(ev)
          /\ tab[t].conn # NoConn /\ conn[tab[t].conn].since > 0 =>
                IsStored(conn[tab[t].conn].since) /\ conn[tab[t].conn].since \in tab[t].seen

\* The tab of c still listens to it, and did not know of a later event when it connected.
Current(c, e) == tab[conn[c].tab].conn = c /\ tab[conn[c].tab].from < e

\* Connection c owes e to its tab: e is an event of its user and its process, after its
\* cursor; and the replay was read in full, if there was to be one.
Wanted(c, e) ==
    /\ conn[c].since < e
    /\ ev[e].user = User(c) /\ ev[e].process = conn[c].process
    /\ \/ conn[c].since > 0 /\ conn[c].replay = "all"
       \/ conn[c].since = 0 /\ Current(c, e)

\* Whoever sends e is done with c.
PassedOn(c, e) ==
    \/ ev[e].sent
    \/ \E w \in Publishers : pub[w].pc = "send" /\ pub[w].id = e /\ c \notin pub[w].targets

\* A later event is on its way to c.
Followed(c, e) == \E w \in Publishers : c \in pub[w].targets /\ pub[w].id > e

Got(c, e) == e \in Range(conn[c].out) \cup conn[c].past \cup conn[c].lost

\* What was sent to an open connection has arrived.
Arrived ==
    \A c \in Conns, e \in DOMAIN ev :
        /\ conn[c].pc # "none" /\ ~conn[c].shut /\ Wanted(c, e)
        /\ \/ c \in subs[conn[c].process] /\ PassedOn(c, e)
           \/ ev[e].sent /\ ~ev[e].late /\ Followed(c, e)
        => Got(c, e)

\* An event behind a later one in a channel or a replay is there, too, or has its reason.
InOrder ==
    \A t \in Tabs, e \in DOMAIN ev :
        /\ tab[t].conn # NoConn
        /\ ev[e].sent /\ ~ev[e].late /\ ev[e].user = Owner[t]
        /\ tab[t].from < e /\ conn[tab[t].conn].since < e
        /\ \E x \in Range(conn[tab[t].conn].out) \cup conn[tab[t].conn].past : x > e
        => NotBroughtBy(tab[t].conn, e)

\* An event is behind the cursor of a tab, or of its connection.
Behind(t, e) ==
    /\ e \in DOMAIN ev /\ ev[e].stored /\ ev[e].user = Owner[t]
    /\ tab[t].from < e
    /\ e < tab[t].last \/ (tab[t].conn # NoConn /\ e < conn[tab[t].conn].since)

Explained(t, e) ==
    \/ ~ev[e].sent
    \/ ev[e].late
    \/ \E c \in tab[t].conns : conn[c].since < e /\ NotBroughtBy(c, e)

HolesHaveReasons ==
    \A t \in Tabs, e \in Ids : Behind(t, e) /\ e \notin tab[t].seen => Explained(t, e)

\* There is an id left for everybody who is about to ask for one.
Appending == {v \in Publishers : At(v, "append")}
Room == IsFiniteSet(Appending) /\ Len(ev) + Cardinality(Appending) <= MaxEvents

IInv ==
    /\ TypeOK /\ Room /\ OwnRows /\ Belong /\ Replayed /\ OnlyStored
    /\ Arrived /\ InOrder /\ HolesHaveReasons

-----------------------------------------------------------------------------
(* Lemmas about the operators *)

\* What a sequence of events has after one is appended, or changed in place.
LEMMA EventsAppended ==
    ASSUME NEW s \in Seq(Events), NEW r \in Events
    PROVE  /\ Append(s, r) \in Seq(Events) /\ Len(Append(s, r)) = Len(s) + 1
           /\ DOMAIN Append(s, r) = 1 .. Len(s) + 1 /\ DOMAIN s = 1 .. Len(s)
           /\ Append(s, r)[Len(s) + 1] = r
           /\ \A i \in DOMAIN s : Append(s, r)[i] = s[i]
OBVIOUS

LEMMA EventsChanged ==
    ASSUME NEW s \in Seq(Events), NEW i \in DOMAIN s, NEW r \in Events
    PROVE  /\ [s EXCEPT ![i] = r] \in Seq(Events) /\ Len([s EXCEPT ![i] = r]) = Len(s)
           /\ DOMAIN [s EXCEPT ![i] = r] = DOMAIN s
           /\ [s EXCEPT ![i] = r][i] = r
           /\ \A k \in DOMAIN s : k # i => [s EXCEPT ![i] = r][k] = s[k]
OBVIOUS

\* A channel that takes one more.
LEMMA RangeGrows ==
    ASSUME NEW S, NEW s \in Seq(S), NEW e \in S
    PROVE  Range(Append(s, e)) = Range(s) \cup {e}
BY DEF Range

\* The head of what is unread.
LEMMA FirstUnread ==
    ASSUME NEW S, NEW s \in Seq(S), NEW n \in Nat, SubSeq(s, n + 1, Len(s)) # <<>>
    PROVE  n + 1 \in DOMAIN s /\ Head(SubSeq(s, n + 1, Len(s))) = s[n + 1]
<1>1. Len(s) \in Nat /\ DOMAIN s = 1 .. Len(s)
  OBVIOUS
<1>2. n + 1 <= Len(s)
  <2>1. SUFFICES ASSUME ~(n + 1 <= Len(s)) PROVE FALSE
    OBVIOUS
  <2>2. SubSeq(s, n + 1, Len(s)) \in Seq(S) /\ Len(SubSeq(s, n + 1, Len(s))) = 0
    BY <1>1, <2>1
  <2> QED
    BY <2>2, EmptySeq
<1> QED
  BY <1>1, <1>2

\* What becomes of a connection that is sent to: it takes the event, drops it, or is shut.
LEMMA SentIs ==
    ASSUME HubAssumption, NEW r \in Connections, NEW e \in 0 .. MaxEvents
    PROVE  /\ Sent(r, e) \in Connections
           /\ Sent(r, e).pc = r.pc /\ Sent(r, e).tab = r.tab /\ Sent(r, e).process = r.process
           /\ Sent(r, e).since = r.since /\ Sent(r, e).past = r.past /\ Sent(r, e).shut = r.shut
           /\ Sent(r, e).replay = r.replay /\ Sent(r, e).offered = r.offered
           /\ \/ ~r.shut /\ Sent(r, e).out = Append(r.out, e) /\ Sent(r, e).lost = r.lost
              \/ /\ ~r.shut /\ Sent(r, e).out = r.out
                 /\ Sent(r, e).lost = r.lost \cup ({e} \ {Ping})
              \/ r.shut /\ Sent(r, e).out = r.out /\ Sent(r, e).lost = r.lost
<1>1. CASE r.shut
  BY <1>1 DEF Sent
<1>2. CASE ~r.shut /\ Len(r.out) - r.read < Buffer
  <2>1. r.out \in Seq(0 .. MaxEvents)
    BY DEF Connections
  <2>2. Append(r.out, e) \in Seq(0 .. MaxEvents)
    BY <2>1
  <2>3. Sent(r, e) = [r EXCEPT !.out = Append(r.out, e)]
    BY <1>2 DEF Sent
  <2> QED
    BY <1>2, <2>2, <2>3 DEF Connections
<1>3. CASE ~r.shut /\ ~(Len(r.out) - r.read < Buffer)
  <2>1. {e} \ {Ping} \subseteq Ids
    BY DEF HubAssumption, Ping, Ids
  <2>2. Sent(r, e) = [r EXCEPT !.lost = r.lost \cup ({e} \ {Ping})]
    BY <1>3 DEF Sent
  <2> QED
    BY <1>3, <2>1, <2>2 DEF Connections
<1> QED
  BY <1>1, <1>2, <1>3

\* What a replay is made of.
LEMMA FirstOf == ASSUME NEW S, NEW n PROVE First(S, n) \subseteq S
BY DEF First

-----------------------------------------------------------------------------
(* Types *)

\* What the types say of one publisher, connection or tab.
LEMMA Fields ==
    ASSUME HubAssumption, TypeOK
    PROVE  /\ \A w \in Publishers : pub[w] \in Publishings
           /\ \A c \in Conns : conn[c] \in Connections
           /\ \A t \in Tabs : tab[t] \in Adapters
           /\ DOMAIN ev = 1 .. Len(ev) /\ Len(ev) \in Nat
           /\ \A e \in DOMAIN ev : ev[e] \in Events /\ e \in Ids
BY DEF TypeOK, HubAssumption, Ids

\* A publisher, a connection or a tab is given a record that fits.
LEMMA RecordsFit ==
    ASSUME TypeOK
    PROVE  /\ \A w \in Publishers, r \in Publishings :
                  Call(w, r) => pub' \in [Publishers -> Publishings]
           /\ \A c \in Conns, r \in Connections :
                  Set(c, r) => conn' \in [Conns -> Connections]
BY DEF TypeOK, Call, Set

LEMMA FaultCounts ==
    ASSUME HubAssumption, TypeOK, Fault PROVE faults' \in 0 .. MaxFaults
BY DEF HubAssumption, TypeOK, Fault

LEMMA PublishingTypes ==
    ASSUME HubAssumption, TypeOK, Room, OwnRows, NEW w \in Publishers, Publishing(w)
    PROVE  TypeOK'
<1>0. pub[w] \in Publishings
  BY Fields
<1>1. ASSUME NEW u \in Users, Publish(w, u) PROVE TypeOK'
  <2>1. [Quiet(u) EXCEPT !.pc = "append"] \in Publishings
    BY DEF Quiet, Publishings, HubAssumption
  <2>2. pub' \in [Publishers -> Publishings]
    BY <1>1, <2>1, RecordsFit DEF Publish
  <2> QED
    BY <1>1, <2>2 DEF Publish, TypeOK
<1>2. CASE AppendEvent(w)
  <2> DEFINE r == [user |-> pub[w].user, process |-> Home[w],
                   stored |-> FALSE, sent |-> FALSE, late |-> FALSE]
  <2>1. r \in Events
    BY <1>0 DEF HubAssumption, Publishings, Events
  <2>2. ev' = Append(ev, r)
    BY <1>2 DEF AppendEvent
  <2>3. ev \in Seq(Events)
    BY DEF TypeOK
  <2> HIDE DEF r
  <2>4. ev' \in Seq(Events) /\ Len(ev') = Len(ev) + 1
    BY <2>1, <2>2, <2>3, EventsAppended
  <2>5. Len(ev) + 1 <= MaxEvents
    <3>1. Cardinality(Appending) \in Nat /\ Cardinality(Appending) # 0
      BY <1>2, FS_CardinalityType, FS_EmptySet DEF Room, Appending, AppendEvent
    <3> QED
      BY <2>3, <3>1 DEF Room, HubAssumption
  <2>6. [pub[w] EXCEPT !.pc = "insert", !.id = Len(ev')] \in Publishings
    <3>1. Len(ev') \in 0 .. MaxEvents
      BY <2>3, <2>4, <2>5 DEF HubAssumption
    <3> QED
      BY <1>0, <3>1 DEF Publishings
  <2>7. pub' \in [Publishers -> Publishings]
    BY <1>2, <2>6, RecordsFit DEF AppendEvent
  <2> QED
    BY <1>2, <2>3, <2>4, <2>5, <2>7 DEF AppendEvent, TypeOK
<1>3. CASE Commit(w)
  <2>1. ev' \in Seq(Events) /\ Len(ev') = Len(ev)
    <3>1. CASE pub[w].id \in DOMAIN ev
      <4>1. [ev[pub[w].id] EXCEPT !.stored = TRUE] \in Events
        BY <3>1, Fields DEF Events
      <4>2. ev' = [ev EXCEPT ![pub[w].id] = [ev[pub[w].id] EXCEPT !.stored = TRUE]]
        BY <1>3, <3>1 DEF Commit
      <4> QED
        BY <3>1, <4>1, <4>2, EventsChanged DEF TypeOK
    <3>2. pub[w].id \in DOMAIN ev
      BY <1>3 DEF Commit, OwnRows, Has, At
    <3> QED
      BY <3>1, <3>2
  <2>2. [pub[w] EXCEPT !.pc = "fanout"] \in Publishings
    BY <1>0 DEF Publishings
  <2>3. pub' \in [Publishers -> Publishings]
    BY <1>3, <2>2, RecordsFit DEF Commit
  <2> QED
    BY <1>3, <2>1, <2>3 DEF Commit, TypeOK
<1>4. CASE AppendFails(w)
  <2>1. Quiet(pub[w].user) \in Publishings
    BY <1>0 DEF Quiet, Publishings, HubAssumption
  <2>2. pub' \in [Publishers -> Publishings]
    BY <1>4, <2>1, RecordsFit DEF AppendFails
  <2> QED
    BY <1>4, <2>2, FaultCounts DEF AppendFails, TypeOK
<1>5. CASE Fanout(w)
  <2> DEFINE T == {c \in subs[Home[w]] : User(c) = pub[w].user}
  <2>1. T \subseteq Conns
    BY DEF TypeOK, HubAssumption
  <2>2. [pub[w] EXCEPT !.pc = "send", !.targets = T] \in Publishings
    BY <1>0, <2>1 DEF Publishings
  <2>3. pub' \in [Publishers -> Publishings]
    BY <1>5, <2>2, RecordsFit DEF Fanout
  <2> QED
    BY <1>5, <2>3 DEF Fanout, TypeOK
<1>6. ASSUME NEW c \in Conns, Send(w, c) PROVE TypeOK'
  <2>1. Sent(conn[c], pub[w].id) \in Connections
    BY <1>0, Fields, SentIs DEF Publishings
  <2>2. [pub[w] EXCEPT !.targets = @ \ {c}] \in Publishings
    BY <1>0 DEF Publishings
  <2>3. conn' \in [Conns -> Connections] /\ pub' \in [Publishers -> Publishings]
    BY <1>6, <2>1, <2>2, RecordsFit DEF Send
  <2> QED
    BY <1>6, <2>3 DEF Send, TypeOK
<1>7. CASE Return(w)
  <2>1. ev' \in Seq(Events) /\ Len(ev') = Len(ev)
    <3>1. CASE pub[w].id \in DOMAIN ev
      <4>1. [ev[pub[w].id] EXCEPT !.sent = TRUE, !.late = Overtaken(pub[w].id)] \in Events
        BY <3>1, Fields DEF Events, Overtaken
      <4>2. ev' = [ev EXCEPT ![pub[w].id] =
                      [ev[pub[w].id] EXCEPT !.sent = TRUE, !.late = Overtaken(pub[w].id)]]
        BY <1>7, <3>1 DEF Return
      <4> QED
        BY <3>1, <4>1, <4>2, EventsChanged DEF TypeOK
    <3>2. pub[w].id \in DOMAIN ev
      BY <1>7 DEF Return, OwnRows, Has, At
    <3> QED
      BY <3>1, <3>2
  <2>2. Quiet(pub[w].user) \in Publishings
    BY <1>0 DEF Quiet, Publishings, HubAssumption
  <2>3. pub' \in [Publishers -> Publishings]
    BY <1>7, <2>2, RecordsFit DEF Return
  <2> QED
    BY <1>7, <2>1, <2>3 DEF Return, TypeOK
<1> QED
  BY <1>1, <1>2, <1>3, <1>4, <1>5, <1>6, <1>7 DEF Publishing

LEMMA ServingTypes ==
    ASSUME HubAssumption, TypeOK, NEW c \in Conns, Serving(c)
    PROVE  TypeOK'
<1>0. conn[c] \in Connections /\ conn[c].tab \in Tabs
  BY Fields DEF Connections
<1>1. CASE ListAfter(c)
  <2> DEFINE all == EventsAfter(User(c), conn[c].since)
             past == First(all, ReplayLimit)
  <2>1. past \subseteq Ids
    BY FirstOf, Fields DEF EventsAfter
  <2>2. PICK r \in Connections : Set(c, r)
    <3>1. /\ [conn[c] EXCEPT !.pc = "offer"] \in Connections
          /\ [conn[c] EXCEPT !.pc = "offer", !.past = past, !.offered = past,
                             !.replay = IF past = all THEN "all" ELSE "part"] \in Connections
          /\ [conn[c] EXCEPT !.pc = "offer", !.replay = "failed"] \in Connections
      BY <1>0, <2>1 DEF Connections
    <3> QED
      BY <1>1, <3>1 DEF ListAfter
  <2>3. faults' \in 0 .. MaxFaults
    BY <1>1, FaultCounts DEF ListAfter, TypeOK
  <2> QED
    BY <1>1, <2>2, <2>3, RecordsFit DEF ListAfter, TypeOK
<1>2. CASE Offer(c)
  <2>1. PICK e \in conn[c].past :
           LET r == Sent(conn[c], e)
           IN  Set(c, IF Len(r.out) > Len(conn[c].out)
                      THEN [r EXCEPT !.past = @ \ {e}]
                      ELSE [r EXCEPT !.past = {}, !.replay = "part"])
    BY <1>2 DEF Offer
  <2>2. Sent(conn[c], e) \in Connections
    <3>1. e \in 0 .. MaxEvents
      BY <1>0, <2>1 DEF Connections, Ids, HubAssumption
    <3> QED
      BY <1>0, <3>1, SentIs
  <2>3. /\ [Sent(conn[c], e) EXCEPT !.past = @ \ {e}] \in Connections
        /\ [Sent(conn[c], e) EXCEPT !.past = {}, !.replay = "part"] \in Connections
    BY <2>2 DEF Connections
  <2>4. conn' \in [Conns -> Connections]
    BY <2>1, <2>3, RecordsFit
  <2> QED
    BY <1>2, <2>4 DEF Offer, TypeOK
<1>3. CASE Serve(c)
  <2>1. [conn[c] EXCEPT !.pc = "serve"] \in Connections
    BY <1>0 DEF Connections
  <2>2. conn' \in [Conns -> Connections]
    BY <1>3, <2>1, RecordsFit DEF Serve
  <2> QED
    BY <1>3, <2>2 DEF Serve, TypeOK
<1>4. CASE SendPing(c)
  <2>1. Sent(conn[c], Ping) \in Connections
    BY <1>0, SentIs DEF Ping, HubAssumption
  <2>2. conn' \in [Conns -> Connections]
    BY <1>4, <2>1, RecordsFit DEF SendPing
  <2> QED
    BY <1>4, <2>2, FaultCounts DEF SendPing, TypeOK
<1>5. CASE Write(c)
  <2>1. [conn[c] EXCEPT !.read = @ + 1] \in Connections
    <3>1. conn[c].read + 1 \in Nat
      BY <1>0 DEF Connections
    <3> QED
      BY <1>0, <3>1 DEF Connections
  <2>2. conn' \in [Conns -> Connections]
    BY <1>5, <2>1, RecordsFit DEF Write
  <2>3. Head(Queue(c)) \in 0 .. MaxEvents
    <3>1. conn[c].out \in Seq(0 .. MaxEvents) /\ conn[c].read \in Nat
      BY <1>0 DEF Connections
    <3>2. Queue(c) \in Seq(0 .. MaxEvents)
      BY <3>1 DEF Queue
    <3> QED
      BY <1>5, <3>2 DEF Write
  <2> DEFINE t == conn[c].tab
  <2>4. tab[t] \in Adapters
    BY <1>0, Fields
  <2>5. Received(tab[t], Head(Queue(c))) \in Adapters
    <3> DEFINE e == Head(Queue(c))
    <3>1. e # Ping => e \in Ids
      BY <2>3 DEF Ping, Ids, HubAssumption
    <3> HIDE DEF e
    <3>2. ASSUME e = Ping PROVE Received(tab[t], e) \in Adapters
      BY <2>4, <3>2 DEF Received, HasIdLine
    <3>3. ASSUME e # Ping PROVE Received(tab[t], e) \in Adapters
      <4>1. Received(tab[t], e) = [tab[t] EXCEPT !.last = e, !.seen = tab[t].seen \cup {e}]
        BY <3>3 DEF Received, HasIdLine
      <4>2. e \in 0 .. MaxEvents
        BY <2>3 DEF e
      <4>3. \A a \in Adapters : [a EXCEPT !.last = e, !.seen = a.seen \cup {e}] \in Adapters
        BY <3>1, <3>3, <4>2 DEF Adapters
      <4> QED
        BY <2>4, <4>1, <4>3
    <3> QED
      BY <3>2, <3>3 DEF e
  <2>6. tab' = [tab EXCEPT ![t] =
                   IF tab[t].conn = c THEN Received(tab[t], Head(Queue(c))) ELSE tab[t]]
    BY <1>5, <1>0 DEF Write, TypeOK
  <2>7. tab' \in [Tabs -> Adapters]
    BY <1>0, <2>4, <2>5, <2>6 DEF TypeOK
  <2> QED
    BY <1>5, <2>2, <2>7 DEF Write, TypeOK
<1>6. CASE Remove(c)
  <2>1. [conn[c] EXCEPT !.pc = "end", !.shut = TRUE] \in Connections
    BY <1>0 DEF Connections
  <2>2. conn' \in [Conns -> Connections]
    BY <1>6, <2>1, RecordsFit DEF Remove
  <2> QED
    BY <1>6, <2>2 DEF Remove, TypeOK
<1>7. CASE Shut(c)
  <2>1. [conn[c] EXCEPT !.shut = TRUE] \in Connections
    BY <1>0 DEF Connections
  <2>2. conn' \in [Conns -> Connections]
    BY <1>7, <2>1, RecordsFit DEF Shut
  <2> QED
    BY <1>7, <2>2 DEF Shut, TypeOK
<1> QED
  BY <1>1, <1>2, <1>3, <1>4, <1>5, <1>6, <1>7 DEF Serving

LEMMA OtherTypes ==
    ASSUME HubAssumption, TypeOK,
           \/ \E t \in Tabs, c \in Conns, p \in Processes : Subscribe(t, c, p)
           \/ \E p \in Processes : Close(p) \/ Crash(p)
           \/ \E t \in Tabs : Break(t) \/ StartOver(t)
           \/ UNCHANGED vars
    PROVE  TypeOK'
<1>1. ASSUME NEW t \in Tabs, NEW c \in Conns, NEW p \in Processes, Subscribe(t, c, p) PROVE TypeOK'
  <2>0. tab[t] \in Adapters /\ Len(ev) \in 0 .. MaxEvents
    BY Fields DEF TypeOK, HubAssumption
  <2>1. [Unused(t, p) EXCEPT !.pc = "list", !.since = LastEventID(t)] \in Connections
    BY <2>0, EmptySeq DEF Unused, LastEventID, Connections, Adapters
  <2>2. conn' \in [Conns -> Connections]
    BY <1>1, <2>1, RecordsFit DEF Subscribe
  <2>3. tab' = [tab EXCEPT ![t] = [tab[t] EXCEPT !.conn = c, !.conns = tab[t].conns \cup {c},
                   !.from = IF tab[t].last = 0 THEN Len(ev) ELSE tab[t].from]]
    BY <1>1 DEF Subscribe, TypeOK
  <2>4. tab' \in [Tabs -> Adapters]
    BY <2>0, <2>3 DEF TypeOK, Adapters
  <2> QED
    BY <1>1, <2>2, <2>4 DEF Subscribe, TypeOK
<1>2. ASSUME NEW p \in Processes, Close(p) PROVE TypeOK'
  BY <1>2, FaultCounts DEF Close, TypeOK
<1>3. ASSUME NEW p \in Processes, Crash(p) PROVE TypeOK'
  <2>1. pub' \in [Publishers -> Publishings]
    <3>1. ASSUME NEW w \in Publishers
          PROVE  /\ Quiet(pub[w].user) \in Publishings
                 /\ [pub[w] EXCEPT !.targets = {c \in @ : conn[c].process # p}] \in Publishings
      <4>1. pub[w] \in Publishings
        BY Fields
      <4> QED
        BY <4>1 DEF Quiet, Publishings, HubAssumption
    <3> QED
      BY <1>3, <3>1 DEF Crash
  <2>2. conn' \in [Conns -> Connections]
    <3>1. ASSUME NEW c \in Conns
          PROVE  [conn[c] EXCEPT !.pc = "end", !.shut = TRUE] \in Connections
      BY Fields DEF Connections
    <3> QED
      BY <1>3, <3>1, Fields DEF Crash
  <2> QED
    BY <1>3, <2>1, <2>2, FaultCounts DEF Crash, TypeOK
<1>4. ASSUME NEW t \in Tabs, Break(t) PROVE TypeOK'
  <2>1. [tab[t] EXCEPT !.conn = NoConn] \in Adapters
    BY Fields DEF Adapters
  <2>2. tab' = [tab EXCEPT ![t] = [tab[t] EXCEPT !.conn = NoConn]]
    BY <1>4 DEF Break, TypeOK
  <2> QED
    BY <1>4, <2>1, <2>2 DEF Break, TypeOK
<1>5. ASSUME NEW t \in Tabs, StartOver(t) PROVE TypeOK'
  <2>1. Fresh \in Adapters
    BY DEF Fresh, Adapters, HubAssumption
  <2> QED
    BY <1>5, <2>1 DEF StartOver, TypeOK
<1>6. CASE UNCHANGED vars
  BY <1>6 DEF vars, TypeOK
<1> QED
  BY <1>1, <1>2, <1>3, <1>4, <1>5, <1>6

LEMMA TypesKept ==
    ASSUME HubAssumption, TypeOK, Room, OwnRows, [Next]_vars PROVE TypeOK'
BY PublishingTypes, ServingTypes, OtherTypes DEF Next

-----------------------------------------------------------------------------
(* What a step may do to a connection, an event, a tab *)

\* Connection d remains whose it is and never opens again; it ends when it is removed
\* or goes down with its process.
SameEnds(d) ==
    /\ conn'[d].tab = conn[d].tab
    /\ conn'[d].process = conn[d].process
    /\ conn'[d].since = conn[d].since
    /\ conn'[d].pc = "none" <=> conn[d].pc = "none"
    /\ conn'[d].pc = "list" => conn[d].pc = "list"
    /\ conn[d].shut => conn'[d].shut
    /\ conn'[d].shut => conn[d].shut \/ conn[d].pc # "none"
    /\ conn'[d].pc = "end" =>
          \/ conn[d].pc = "end" \/ Remove(d)
          \/ \E p \in Processes : Crash(p) /\ conn[d].process = p

Steady(d) ==
    /\ conn'[d].out = conn[d].out
    /\ conn'[d].lost = conn[d].lost
    /\ conn'[d].past = conn[d].past
    /\ conn'[d].offered = conn[d].offered
    /\ conn'[d].replay = conn[d].replay

\* It takes e or drops it.
Takes(d, e) ==
    /\ ~conn[d].shut
    /\ conn'[d].past = conn[d].past
    /\ conn'[d].offered = conn[d].offered
    /\ conn'[d].replay = conn[d].replay
    /\ \/ /\ Range(conn'[d].out) = Range(conn[d].out) \cup {e}
          /\ conn'[d].lost = conn[d].lost
       \/ /\ conn'[d].out = conn[d].out
          /\ conn'[d].lost = conn[d].lost \cup ({e} \ {Ping})

\* Its replay is read, or cannot be.
Reads(d) ==
    /\ ListAfter(d)
    /\ conn[d].pc = "list" /\ conn'[d].pc = "offer" /\ conn[d].since > 0
    /\ conn'[d].out = conn[d].out
    /\ conn'[d].lost = conn[d].lost
    /\ \/ /\ conn'[d].past = First(EventsAfter(User(d), conn[d].since), ReplayLimit)
          /\ conn'[d].offered = conn'[d].past
          /\ \/ /\ conn'[d].replay = "all"
                /\ conn'[d].past = EventsAfter(User(d), conn[d].since)
             \/ conn'[d].replay = "part"
       \/ /\ conn'[d].past = conn[d].past
          /\ conn'[d].offered = conn[d].offered
          /\ conn'[d].replay = "failed"

\* One of its replay is taken, or the replay ends.
Offers(d) ==
    /\ conn[d].pc = "offer" /\ conn'[d].pc = "offer" /\ conn[d].past # {}
    /\ conn'[d].offered = conn[d].offered
    /\ \/ /\ ~conn[d].shut
          /\ conn'[d].replay = conn[d].replay
          /\ conn'[d].lost = conn[d].lost
          /\ \E e \in conn[d].past :
                /\ Range(conn'[d].out) = Range(conn[d].out) \cup {e}
                /\ conn'[d].past = conn[d].past \ {e}
       \/ /\ conn'[d].replay = "part"
          /\ conn'[d].past = {}
          /\ conn'[d].out = conn[d].out
          /\ conn[d].lost \subseteq conn'[d].lost

\* Sending changes nothing but what is taken.
LEMMA SentTakes ==
    ASSUME HubAssumption, TypeOK, NEW d \in Conns, NEW e \in 0 .. MaxEvents,
           conn'[d] = Sent(conn[d], e), conn[d].pc # "none"
    PROVE  SameEnds(d) /\ (Steady(d) \/ Takes(d, e))
<1>1. conn[d] \in Connections /\ conn[d].out \in Seq(0 .. MaxEvents)
  BY Fields DEF Connections
<1>2. Range(Append(conn[d].out, e)) = Range(conn[d].out) \cup {e}
  BY <1>1, RangeGrows
<1>3. SameEnds(d)
  BY <1>1, SentIs DEF SameEnds
<1>4. \/ ~conn[d].shut /\ conn'[d].out = Append(conn[d].out, e) /\ conn'[d].lost = conn[d].lost
      \/ /\ ~conn[d].shut /\ conn'[d].out = conn[d].out
         /\ conn'[d].lost = conn[d].lost \cup ({e} \ {Ping})
      \/ conn[d].shut /\ conn'[d].out = conn[d].out /\ conn'[d].lost = conn[d].lost
  <2> DEFINE s == Sent(conn[d], e)
  <2>1. \/ ~conn[d].shut /\ s.out = Append(conn[d].out, e) /\ s.lost = conn[d].lost
        \/ ~conn[d].shut /\ s.out = conn[d].out /\ s.lost = conn[d].lost \cup ({e} \ {Ping})
        \/ conn[d].shut /\ s.out = conn[d].out /\ s.lost = conn[d].lost
    BY <1>1, SentIs, Zenon
  <2> QED
    BY <2>1
<1>5. /\ conn'[d].past = conn[d].past
      /\ conn'[d].offered = conn[d].offered
      /\ conn'[d].replay = conn[d].replay
  BY <1>1, SentIs
<1> QED
  BY <1>2, <1>3, <1>4, <1>5 DEF Steady, Takes

LEMMA ServingMoves ==
    ASSUME HubAssumption, TypeOK, NEW d \in Conns, Serving(d)
    PROVE  /\ SameEnds(d)
           /\ Steady(d) \/ Reads(d) \/ Offers(d) \/ Takes(d, Ping)
<1>0. conn[d] \in Connections /\ conn[d].out \in Seq(0 .. MaxEvents) /\ conn[d].past \subseteq Ids
  BY Fields DEF Connections
<1>1. CASE ListAfter(d)
  <2> DEFINE all == EventsAfter(User(d), conn[d].since)
             past == First(all, ReplayLimit)
  <2>1. CASE conn' = [conn EXCEPT ![d] = [conn[d] EXCEPT !.pc = "offer"]]
    BY <1>0, <1>1, <2>1 DEF ListAfter, SameEnds, Steady, Connections, TypeOK
  <2>2. ASSUME conn[d].since > 0,
               conn' = [conn EXCEPT ![d] = [conn[d] EXCEPT !.pc = "offer", !.past = past,
                  !.offered = past, !.replay = IF past = all THEN "all" ELSE "part"]]
        PROVE  SameEnds(d) /\ Reads(d)
    BY <1>0, <1>1, <2>2 DEF ListAfter, SameEnds, Reads, Connections, TypeOK
  <2>3. ASSUME conn[d].since > 0,
               conn' = [conn EXCEPT ![d] = [conn[d] EXCEPT !.pc = "offer", !.replay = "failed"]]
        PROVE  SameEnds(d) /\ Reads(d)
    BY <1>0, <1>1, <2>3 DEF ListAfter, SameEnds, Reads, Connections, TypeOK
  <2> QED
    BY <1>1, <2>1, <2>2, <2>3 DEF ListAfter, Set
<1>2. CASE Offer(d)
  <2>1. PICK e \in conn[d].past :
           conn' = [conn EXCEPT ![d] =
                       IF Len(Sent(conn[d], e).out) > Len(conn[d].out)
                       THEN [Sent(conn[d], e) EXCEPT !.past = @ \ {e}]
                       ELSE [Sent(conn[d], e) EXCEPT !.past = {}, !.replay = "part"]]
    BY <1>2 DEF Offer, Set
  <2>2. e \in 0 .. MaxEvents
    BY <1>0 DEF Ids, HubAssumption
  <2>3. PICK r \in Connections : r = Sent(conn[d], e)
    BY <1>0, <2>2, SentIs
  <2>4. /\ r.pc = conn[d].pc /\ r.tab = conn[d].tab /\ r.process = conn[d].process
        /\ r.since = conn[d].since /\ r.past = conn[d].past /\ r.shut = conn[d].shut
        /\ r.replay = conn[d].replay /\ r.offered = conn[d].offered
        /\ \/ ~conn[d].shut /\ r.out = Append(conn[d].out, e) /\ r.lost = conn[d].lost
           \/ r.out = conn[d].out /\ conn[d].lost \subseteq r.lost
    BY <1>0, <2>2, <2>3, SentIs
  <2>5. conn[d].pc = "offer" /\ conn[d].past # {}
    BY <1>2 DEF Offer
  <2>6. CASE Len(r.out) > Len(conn[d].out)
    <3>1. r.out = Append(conn[d].out, e)
      BY <1>0, <2>4, <2>6
    <3>2. Range(r.out) = Range(conn[d].out) \cup {e} /\ r.lost = conn[d].lost /\ ~conn[d].shut
      <4>1. r.out # conn[d].out
        BY <1>0, <2>6
      <4>2. Range(Append(conn[d].out, e)) = Range(conn[d].out) \cup {e}
        BY <1>0, <2>2, RangeGrows
      <4> QED
        BY <2>4, <3>1, <4>1, <4>2
    <3>3. conn'[d] = [r EXCEPT !.past = r.past \ {e}]
      BY <2>1, <2>3, <2>6 DEF TypeOK
    <3> QED
      BY <2>3, <2>4, <2>5, <3>2, <3>3 DEF SameEnds, Offers, Connections
  <2>7. CASE ~(Len(r.out) > Len(conn[d].out))
    <3>1. r.out = conn[d].out /\ conn[d].lost \subseteq r.lost
      <4>1. r.out # Append(conn[d].out, e)
        <5>1. Len(Append(conn[d].out, e)) = Len(conn[d].out) + 1 /\ Len(conn[d].out) \in Nat
          BY <1>0, <2>2
        <5> QED
          BY <2>7, <5>1
      <4> QED
        BY <2>4, <4>1
    <3>2. conn'[d] = [r EXCEPT !.past = {}, !.replay = "part"]
      BY <2>1, <2>3, <2>7 DEF TypeOK
    <3> QED
      BY <2>3, <2>4, <2>5, <3>1, <3>2 DEF SameEnds, Offers, Connections
  <2> QED
    BY <2>6, <2>7
<1>3. CASE SendPing(d)
  <2>1. conn'[d] = Sent(conn[d], Ping) /\ conn[d].pc # "none" /\ Ping \in 0 .. MaxEvents
    BY <1>3 DEF SendPing, Set, TypeOK, Ping, HubAssumption
  <2> QED
    BY <2>1, SentTakes
<1>4. CASE Serve(d)
  BY <1>0, <1>4 DEF Serve, Set, SameEnds, Steady, Connections, TypeOK
<1>5. CASE Write(d)
  BY <1>0, <1>5 DEF Write, Set, SameEnds, Steady, Connections, TypeOK
<1>6. CASE Remove(d)
  BY <1>0, <1>6 DEF Remove, Set, SameEnds, Steady, Connections, TypeOK
<1>7. CASE Shut(d)
  BY <1>0, <1>7 DEF Shut, Set, SameEnds, Steady, Connections, TypeOK
<1> QED
  BY <1>1, <1>2, <1>3, <1>4, <1>5, <1>6, <1>7 DEF Serving

LEMMA ConnMoves ==
    ASSUME HubAssumption, TypeOK, OwnRows, [Next]_vars, NEW d \in Conns
    PROVE  \/ \E t \in Tabs, p \in Processes : Subscribe(t, d, p)
           \/ /\ SameEnds(d)
              /\ \/ Steady(d) \/ Reads(d) \/ Offers(d) \/ Takes(d, Ping)
                 \/ \E w \in Publishers : Send(w, d) /\ Takes(d, pub[w].id)
<1>1. ASSUME conn'[d] = conn[d] PROVE SameEnds(d) /\ Steady(d)
  BY <1>1 DEF SameEnds, Steady
<1>2. ASSUME NEW w \in Publishers, NEW c \in Conns, Send(w, c)
      PROVE  /\ SameEnds(d)
             /\ Steady(d) \/ \E v \in Publishers : Send(v, d) /\ Takes(d, pub[v].id)
  <2>1. CASE c # d
    BY <1>1, <1>2, <2>1 DEF Send, Set, TypeOK
  <2>2. CASE c = d
    <3>1. conn'[d] = Sent(conn[d], pub[w].id) /\ conn[d].pc # "none"
      BY <1>2, <2>2 DEF Send, Set, TypeOK, OwnRows
    <3>2. pub[w].id \in 0 .. MaxEvents
      BY Fields DEF Publishings
    <3> QED
      BY <1>2, <2>2, <3>1, <3>2, SentTakes
  <2> QED
    BY <2>1, <2>2
<1>3. ASSUME NEW w \in Publishers, Publishing(w), \A c \in Conns : ~Send(w, c)
      PROVE  conn' = conn
  BY <1>3 DEF Publishing, Publish, AppendEvent, Commit, AppendFails, Fanout, Return
<1>4. ASSUME NEW c \in Conns, Serving(c), c # d PROVE conn'[d] = conn[d]
  BY <1>4 DEF Serving, ListAfter, Offer, Serve, SendPing, Write, Remove, Shut, Set, TypeOK
<1>5. ASSUME NEW t \in Tabs, NEW c \in Conns, NEW p \in Processes, Subscribe(t, c, p), c # d
      PROVE  conn'[d] = conn[d]
  BY <1>5 DEF Subscribe, Set, TypeOK
<1>6. ASSUME NEW p \in Processes, Crash(p) PROVE SameEnds(d) /\ Steady(d)
  <2>1. conn'[d] = IF conn[d].pc # "none" /\ conn[d].process = p
                   THEN [conn[d] EXCEPT !.pc = "end", !.shut = TRUE]
                   ELSE conn[d]
    BY <1>6 DEF Crash
  <2>2. conn[d] \in Connections
    BY Fields
  <2>3. CASE conn[d].pc # "none" /\ conn[d].process = p
    <3>1. conn'[d] = [conn[d] EXCEPT !.pc = "end", !.shut = TRUE]
      BY <2>1, <2>3
    <3> HIDE DEF Crash
    <3> QED
      BY <1>6, <2>2, <2>3, <3>1 DEF SameEnds, Steady, Connections
  <2>4. CASE ~(conn[d].pc # "none" /\ conn[d].process = p)
    BY <1>1, <2>1, <2>4
  <2> QED
    BY <2>3, <2>4
<1>7. ASSUME \/ \E p \in Processes : Close(p)
             \/ \E t \in Tabs : Break(t) \/ StartOver(t)
             \/ UNCHANGED vars
      PROVE  conn' = conn
  BY <1>7 DEF Close, Break, StartOver, vars
<1>8. CASE \E w \in Publishers : Publishing(w)
  BY <1>1, <1>2, <1>3, <1>8
<1>9. CASE \E c \in Conns : Serving(c)
  BY <1>1, <1>4, <1>9, ServingMoves
<1>10. CASE \E t \in Tabs, c \in Conns, p \in Processes : Subscribe(t, c, p)
  BY <1>1, <1>5, <1>10
<1> QED
  BY <1>1, <1>6, <1>7, <1>8, <1>9, <1>10 DEF Next

\* The row of an event: what never changes, and the steps that change it.
LEMMA EventsMove ==
    ASSUME HubAssumption, TypeOK, OwnRows, [Next]_vars
    PROVE  /\ DOMAIN ev \subseteq DOMAIN ev'
           /\ \A e \in DOMAIN ev :
                 /\ ev'[e].user = ev[e].user /\ ev'[e].process = ev[e].process
                 /\ ev[e].stored => ev'[e].stored
                 /\ ev[e].sent => ev'[e] = ev[e]
                 /\ \/ ev'[e].sent = ev[e].sent
                    \/ \E w \in Publishers : Return(w) /\ pub[w].id = e /\ ev'[e].late = Overtaken(e)
                 /\ \/ ev'[e].stored = ev[e].stored
                    \/ \E w \in Publishers : Commit(w) /\ pub[w].id = e
           /\ \A e \in DOMAIN ev' \ DOMAIN ev :
                 e > Len(ev) /\ ~ev'[e].stored /\ ~ev'[e].sent
<1>0. ev \in Seq(Events) /\ Len(ev) \in Nat
  BY DEF TypeOK
<1>1. ASSUME ev' = ev PROVE DOMAIN ev \subseteq DOMAIN ev' /\ DOMAIN ev' \ DOMAIN ev = {}
  BY <1>1
<1>2. ASSUME NEW w \in Publishers, AppendEvent(w)
      PROVE  /\ DOMAIN ev \subseteq DOMAIN ev'
             /\ \A e \in DOMAIN ev : ev'[e] = ev[e]
             /\ \A e \in DOMAIN ev' \ DOMAIN ev : e > Len(ev) /\ ~ev'[e].stored /\ ~ev'[e].sent
  <2> DEFINE r == [user |-> pub[w].user, process |-> Home[w],
                   stored |-> FALSE, sent |-> FALSE, late |-> FALSE]
  <2>1. r \in Events /\ ~r.stored /\ ~r.sent
    BY Fields DEF HubAssumption, Publishings, Events
  <2>2. ev' = Append(ev, r)
    BY <1>2 DEF AppendEvent
  <2> HIDE DEF r
  <2> QED
    BY <1>0, <2>1, <2>2, EventsAppended
<1>3. ASSUME NEW w \in Publishers, Commit(w)
      PROVE  /\ DOMAIN ev' = DOMAIN ev
             /\ pub[w].id \in DOMAIN ev /\ ~ev[pub[w].id].sent
             /\ \A e \in DOMAIN ev : ev'[e] = IF e = pub[w].id THEN [ev[e] EXCEPT !.stored = TRUE] ELSE ev[e]
  BY <1>0, <1>3 DEF Commit, OwnRows, Has, At
<1>4. ASSUME NEW w \in Publishers, Return(w)
      PROVE  /\ DOMAIN ev' = DOMAIN ev
             /\ pub[w].id \in DOMAIN ev /\ ~ev[pub[w].id].sent
             /\ \A e \in DOMAIN ev :
                   ev'[e] = IF e = pub[w].id
                            THEN [ev[e] EXCEPT !.sent = TRUE, !.late = Overtaken(e)] ELSE ev[e]
  BY <1>0, <1>4 DEF Return, OwnRows, Has, At
<1>5. \A e \in DOMAIN ev : ev[e] \in Events
  BY Fields
<1>6. CASE \E w \in Publishers : Publishing(w)
  <2>1. PICK w \in Publishers : Publishing(w)
    BY <1>6
  <2>2. CASE AppendEvent(w)
    BY <1>2, <2>2
  <2>3. CASE Commit(w)
    BY <1>3, <1>5, <2>3 DEF Events
  <2>4. CASE Return(w)
    BY <1>4, <1>5, <2>4 DEF Events
  <2>5. CASE ev' = ev
    BY <2>5
  <2> QED
    BY <2>1, <2>2, <2>3, <2>4, <2>5 DEF Publishing, Publish, AppendFails, Fanout, Send
<1>7. CASE ~ \E w \in Publishers : Publishing(w)
  <2>1. ev' = ev
    BY <1>7 DEF Next, Serving, ListAfter, Offer, Serve, SendPing, Write, Remove, Shut,
                Subscribe, Close, Crash, Break, StartOver, vars
  <2> QED
    BY <2>1
<1> QED
  BY <1>6, <1>7

\* A publisher that sends goes on with the same event; it is rid of a target when that
\* was sent to, or went down with its process.
LEMMA SendersMove ==
    ASSUME HubAssumption, TypeOK, OwnRows, [Next]_vars, NEW w \in Publishers
    PROVE  pub'[w].pc = "send" =>
             /\ pub'[w].id = pub[w].id /\ pub'[w].user = pub[w].user
             /\ \/ Fanout(w) /\ pub'[w].targets = {c \in subs[Home[w]] : User(c) = pub[w].user}
                \/ /\ pub[w].pc = "send"
                   /\ pub'[w].targets \subseteq pub[w].targets
                   /\ \A c \in pub[w].targets \ pub'[w].targets :
                         Send(w, c) \/ \E p \in Processes : Crash(p) /\ conn[c].process = p
<1>0. \A v \in Publishers : pub[v] \in Publishings
  BY Fields
<1>1. ASSUME pub'[w] = pub[w]
      PROVE  pub'[w].pc = "send" => pub[w].pc = "send" /\ pub'[w].id = pub[w].id
  BY <1>1
<1>2. CASE \E v \in Publishers : Publishing(v)
  <2>1. PICK v \in Publishers : Publishing(v)
    BY <1>2
  <2>2. CASE v # w
    <3>1. pub'[w] = pub[w]
      BY <2>1, <2>2 DEF Publishing, Publish, AppendEvent, Commit, AppendFails, Fanout, Send,
                        Return, Call, TypeOK
    <3> QED
      BY <3>1
  <2>3. CASE v = w
    <3>1. CASE Fanout(w)
      BY <1>0, <3>1 DEF Fanout, Call, TypeOK, Publishings
    <3>2. CASE \E c \in Conns : Send(w, c)
      <4>1. PICK c \in Conns : Send(w, c)
        BY <3>2
      <4> QED
        BY <1>0, <4>1 DEF Send, Call, At, TypeOK, Publishings
    <3>3. CASE \/ \E u \in Users : Publish(w, u)
               \/ AppendEvent(w) \/ Commit(w) \/ AppendFails(w) \/ Return(w)
      <4>1. ASSUME NEW u \in Users, Publish(w, u) PROVE pub'[w].pc = "append"
        BY <1>0, <4>1 DEF Publish, Call, Quiet, TypeOK
      <4>2. ASSUME AppendEvent(w) PROVE pub'[w].pc = "insert"
        <5>1. \A n : [pub[w] EXCEPT !.pc = "insert", !.id = n].pc = "insert"
          BY <1>0 DEF Publishings
        <5>2. pub'[w] = [pub[w] EXCEPT !.pc = "insert", !.id = Len(ev')]
          BY <4>2 DEF AppendEvent, Call, TypeOK
        <5> QED
          BY <5>1, <5>2
      <4>3. ASSUME Commit(w) PROVE pub'[w].pc = "fanout"
        BY <1>0, <4>3 DEF Commit, Call, TypeOK, Publishings
      <4>4. ASSUME AppendFails(w) \/ Return(w) PROVE pub'[w].pc = "idle"
        BY <1>0, <4>4 DEF AppendFails, Return, Call, Quiet, TypeOK
      <4> QED
        BY <3>3, <4>1, <4>2, <4>3, <4>4
    <3> QED
      BY <2>1, <2>3, <3>1, <3>2, <3>3 DEF Publishing
  <2> QED
    BY <2>2, <2>3
<1>3. CASE \E p \in Processes : Crash(p)
  <2>1. PICK p \in Processes : Crash(p)
    BY <1>3
  <2>2. pub'[w] = IF Home[w] = p THEN Quiet(pub[w].user)
                  ELSE [pub[w] EXCEPT !.targets = {c \in pub[w].targets : conn[c].process # p}]
    BY <2>1 DEF Crash
  <2> QED
    BY <1>0, <2>1, <2>2 DEF Quiet, Publishings
<1>4. CASE /\ ~ \E v \in Publishers : Publishing(v)
           /\ ~ \E p \in Processes : Crash(p)
  <2>1. pub' = pub
    BY <1>4 DEF Next, Serving, ListAfter, Offer, Serve, SendPing, Write, Remove, Shut,
                Subscribe, Close, Break, StartOver, vars
  <2> QED
    BY <2>1
<1> QED
  BY <1>2, <1>3, <1>4

\* A tab: it connects, it receives, its stream breaks, it starts over.
LEMMA TabMoves ==
    ASSUME HubAssumption, TypeOK, [Next]_vars, NEW t \in Tabs
    PROVE  \/ tab'[t] = tab[t]
           \/ \E c \in Conns, p \in Processes :
                 /\ Subscribe(t, c, p)
                 /\ tab'[t] = [tab[t] EXCEPT !.conn = c, !.conns = tab[t].conns \cup {c},
                                  !.from = IF tab[t].last = 0 THEN Len(ev) ELSE tab[t].from]
           \/ \E c \in Conns : \E e \in Range(conn[c].out) :
                 /\ Write(c) /\ tab[t].conn = c /\ e # Ping
                 /\ tab'[t] = [tab[t] EXCEPT !.last = e, !.seen = tab[t].seen \cup {e}]
           \/ Break(t) /\ tab'[t] = [tab[t] EXCEPT !.conn = NoConn]
           \/ StartOver(t) /\ tab'[t] = Fresh
<1>1. ASSUME NEW s \in Tabs, NEW c \in Conns, NEW p \in Processes, Subscribe(s, c, p)
      PROVE  \/ tab'[t] = tab[t]
             \/ /\ s = t
                /\ tab'[t] = [tab[t] EXCEPT !.conn = c, !.conns = tab[t].conns \cup {c},
                                  !.from = IF tab[t].last = 0 THEN Len(ev) ELSE tab[t].from]
  <2>1. CASE s # t
    BY <1>1, <2>1 DEF Subscribe, TypeOK
  <2>2. CASE s = t
    BY <1>1, <2>2 DEF Subscribe, TypeOK, Adapters
  <2> QED
    BY <2>1, <2>2
<1>2. ASSUME NEW c \in Conns, Write(c)
      PROVE  \/ tab'[t] = tab[t]
             \/ /\ tab[t].conn = c
                /\ \E e \in Range(conn[c].out) :
                      e # Ping /\ tab'[t] = [tab[t] EXCEPT !.last = e, !.seen = tab[t].seen \cup {e}]
  <2>0. conn[c] \in Connections /\ conn[c].tab \in Tabs
    BY Fields DEF Connections
  <2> DEFINE s == conn[c].tab
             e == Head(Queue(c))
  <2>1. e \in Range(conn[c].out)
    <3>1. conn[c].out \in Seq(0 .. MaxEvents) /\ conn[c].read \in Nat
      BY <2>0 DEF Connections
    <3>2. Queue(c) # <<>> /\ Queue(c) = SubSeq(conn[c].out, conn[c].read + 1, Len(conn[c].out))
      BY <1>2 DEF Write, Queue
    <3>3. conn[c].read + 1 \in DOMAIN conn[c].out /\ e = conn[c].out[conn[c].read + 1]
      BY <3>1, <3>2, FirstUnread
    <3> QED
      BY <3>3 DEF Range
  <2>2. tab' = [tab EXCEPT ![s] = IF tab[s].conn = c THEN Received(tab[s], e) ELSE tab[s]]
    BY <1>2, <2>0 DEF Write, TypeOK
  <2> HIDE DEF e
  <2>3. CASE s = t /\ tab[t].conn = c /\ e # Ping
    BY <2>0, <2>1, <2>2, <2>3 DEF Received, HasIdLine, TypeOK
  <2>4. CASE ~(s = t /\ tab[t].conn = c /\ e # Ping)
    BY <2>0, <2>2, <2>4 DEF Received, HasIdLine, TypeOK
  <2> QED
    BY <2>3, <2>4
<1>3. ASSUME NEW s \in Tabs, Break(s)
      PROVE  tab'[t] = tab[t] \/ (s = t /\ tab'[t] = [tab[t] EXCEPT !.conn = NoConn])
  BY <1>3 DEF Break, TypeOK
<1>4. ASSUME NEW s \in Tabs, StartOver(s) PROVE tab'[t] = tab[t] \/ (s = t /\ tab'[t] = Fresh)
  BY <1>4 DEF StartOver, TypeOK
<1>5. ASSUME \/ \E w \in Publishers : Publishing(w)
             \/ \E c \in Conns : Serving(c) /\ ~Write(c)
             \/ \E p \in Processes : Close(p) \/ Crash(p)
             \/ UNCHANGED vars
      PROVE  tab' = tab
  BY <1>5 DEF Publishing, Publish, AppendEvent, Commit, AppendFails, Fanout, Send, Return,
              Serving, ListAfter, Offer, Serve, SendPing, Remove, Shut, Close, Crash, vars
<1>6. CASE \E s \in Tabs, c \in Conns, p \in Processes : Subscribe(s, c, p)
  <2>1. PICK s \in Tabs, c \in Conns, p \in Processes : Subscribe(s, c, p)
    BY <1>6
  <2>2. CASE tab'[t] = tab[t]
    BY <2>2
  <2>3. CASE tab'[t] # tab[t]
    <3>1. Subscribe(t, c, p)
      BY <1>1, <2>1, <2>3
    <3>2. tab'[t] = [tab[t] EXCEPT !.conn = c, !.conns = tab[t].conns \cup {c},
                         !.from = IF tab[t].last = 0 THEN Len(ev) ELSE tab[t].from]
      BY <1>1, <2>3, <3>1
    <3> QED
      BY <3>1, <3>2
  <2> QED
    BY <2>2, <2>3
<1>7. CASE \E c \in Conns : Write(c)
  BY <1>2, <1>7
<1>8. CASE \E s \in Tabs : Break(s) \/ StartOver(s)
  BY <1>3, <1>4, <1>8
<1> QED
  BY <1>5, <1>6, <1>7, <1>8 DEF Next

\* Who owns an open connection does not change.
LEMMA ConnsStay ==
    ASSUME HubAssumption, TypeOK, OwnRows, [Next]_vars,
           NEW d \in Conns, conn[d].pc # "none"
    PROVE  SameEnds(d) /\ User(d)' = User(d)
<1>1. SameEnds(d)
  BY ConnMoves DEF Subscribe
<1> QED
  BY <1>1 DEF SameEnds, User

-----------------------------------------------------------------------------
(* The parts of the invariant, one by one *)

LEMMA RoomKept ==
    ASSUME HubAssumption, TypeOK, Room, [Next]_vars PROVE Room'
<1>0. /\ IsFiniteSet(Appending) /\ Cardinality(Appending) \in Nat /\ Len(ev) \in Nat
      /\ MaxEvents \in Nat
      /\ Len(ev) + Cardinality(Appending) <= MaxEvents
  BY FS_CardinalityType DEF Room, TypeOK, HubAssumption
<1>1. ASSUME NEW w \in Publishers, NEW u \in Users, Publish(w, u) PROVE Room'
  <2>1. Appending' = Appending \cup {w} /\ w \notin Appending
    BY <1>1 DEF Publish, Appending, At, Call, Quiet, TypeOK
  <2>2. Len(ev) + Cardinality(Appending) < MaxEvents /\ ev' = ev
    BY <1>1 DEF Publish, Appending
  <2>3. IsFiniteSet(Appending') /\ Cardinality(Appending') = Cardinality(Appending) + 1
    BY <1>0, <2>1, FS_AddElement
  <2> QED
    BY <1>0, <2>2, <2>3 DEF Room
<1>2. ASSUME NEW w \in Publishers, AppendEvent(w) PROVE Room'
  <2>1. pub'[w].pc = "insert"
    <3>1. \A n : [pub[w] EXCEPT !.pc = "insert", !.id = n].pc = "insert"
      BY Fields DEF Publishings
    <3>2. pub'[w] = [pub[w] EXCEPT !.pc = "insert", !.id = Len(ev')]
      BY <1>2 DEF AppendEvent, Call, TypeOK
    <3> QED
      BY <3>1, <3>2
  <2>2. \A v \in Publishers \ {w} : pub'[v] = pub[v]
    BY <1>2 DEF AppendEvent, Call, TypeOK
  <2>3. Appending' = Appending \ {w} /\ w \in Appending
    BY <1>2, <2>1, <2>2 DEF AppendEvent, Appending, At
  <2>4. IsFiniteSet(Appending') /\ Cardinality(Appending') = Cardinality(Appending) - 1
    BY <1>0, <2>3, FS_RemoveElement
  <2>5. Len(ev') = Len(ev) + 1
    BY <1>2 DEF AppendEvent, TypeOK
  <2> QED
    BY <1>0, <2>4, <2>5 DEF Room
<1>3. ASSUME Appending' \subseteq Appending, Len(ev') = Len(ev) PROVE Room'
  <2>1. /\ IsFiniteSet(Appending') /\ Cardinality(Appending') <= Cardinality(Appending)
        /\ Cardinality(Appending') \in Nat
    BY <1>0, <1>3, FS_Subset, FS_CardinalityType
  <2> QED
    BY <1>0, <1>3, <2>1 DEF Room
<1>4. ASSUME NEW w \in Publishers, Commit(w) \/ Return(w) PROVE Room'
  <2>1. Len(ev') = Len(ev)
    BY <1>4 DEF Commit, Return, TypeOK
  <2>2. pub'[w].pc # "append"
    BY <1>4, Fields DEF Commit, Return, Call, Quiet, TypeOK, Publishings
  <2>3. \A v \in Publishers \ {w} : pub'[v] = pub[v]
    BY <1>4 DEF Commit, Return, Call, TypeOK
  <2> QED
    BY <1>3, <2>1, <2>2, <2>3 DEF Appending, At
<1>5. ASSUME NEW w \in Publishers, AppendFails(w) \/ Fanout(w) \/ \E c \in Conns : Send(w, c)
      PROVE  Room'
  <2>1. ev' = ev
    BY <1>5 DEF AppendFails, Fanout, Send
  <2>2. pub'[w].pc # "append"
    <3>1. ASSUME NEW c \in Conns, Send(w, c) PROVE pub'[w].pc = "send"
      BY <3>1, Fields DEF Send, At, Call, TypeOK, Publishings
    <3>2. ASSUME Fanout(w) PROVE pub'[w].pc = "send"
      BY <3>2, Fields DEF Fanout, Call, TypeOK, Publishings
    <3>3. ASSUME AppendFails(w) PROVE pub'[w].pc = "idle"
      BY <3>3 DEF AppendFails, Call, Quiet, TypeOK
    <3> QED
      BY <1>5, <3>1, <3>2, <3>3
  <2>3. \A v \in Publishers \ {w} : pub'[v] = pub[v]
    BY <1>5 DEF AppendFails, Fanout, Send, Call, TypeOK
  <2> QED
    BY <1>3, <2>1, <2>2, <2>3 DEF Appending, At
<1>6. ASSUME NEW p \in Processes, Crash(p) PROVE Room'
  <2>1. \A v \in Publishers : pub'[v].pc = "append" => pub[v].pc = "append"
    BY <1>6, Fields DEF Crash, Quiet, Publishings
  <2> QED
    BY <1>3, <1>6, <2>1 DEF Crash, Appending, At
<1>7. ASSUME UNCHANGED <<ev, pub>> PROVE Room'
  BY <1>3, <1>7 DEF Appending, At
<1>8. CASE \/ \E c \in Conns : Serving(c)
           \/ \E t \in Tabs, c \in Conns, p \in Processes : Subscribe(t, c, p)
           \/ \E p \in Processes : Close(p)
           \/ \E t \in Tabs : Break(t) \/ StartOver(t)
           \/ UNCHANGED vars
  BY <1>7, <1>8 DEF Serving, ListAfter, Offer, Serve, SendPing, Write, Remove, Shut,
                    Subscribe, Close, Break, StartOver, vars
<1> QED
  BY <1>1, <1>2, <1>4, <1>5, <1>6, <1>8 DEF Next, Publishing


\* Whoever is subscribed was so before, and is neither removed nor gone down, or
\* subscribes now.
LEMMA SubsMove ==
    ASSUME HubAssumption, TypeOK, Belong, [Next]_vars, NEW p \in Processes, NEW d \in subs'[p]
    PROVE  /\ d \in Conns
           /\ \/ /\ d \in subs[p]
                 /\ ~Remove(d) /\ ~ \E q \in Processes : Crash(q) /\ conn[d].process = q
              \/ \E t \in Tabs : Subscribe(t, d, p)
<1>0. subs \in [Processes -> SUBSET Conns]
  BY DEF TypeOK
<1>1. ASSUME NEW t \in Tabs, NEW c \in Conns, NEW q \in Processes, Subscribe(t, c, q), d \notin subs[p]
      PROVE  d = c /\ p = q
  BY <1>0, <1>1 DEF Subscribe
<1>2. ASSUME Remove(d) PROVE d \notin subs[p]
  <2>1. subs' = [subs EXCEPT ![conn[d].process] = @ \ {d}]
    BY <1>2 DEF Remove
  <2>2. ASSUME d \in subs[p] PROVE FALSE
    BY <1>0, <2>1, <2>2 DEF Belong
  <2> QED
    BY <2>2
<1>3. ASSUME NEW q \in Processes, Crash(q), conn[d].process = q PROVE d \notin subs[p]
  <2>1. subs' = [subs EXCEPT ![q] = {}]
    BY <1>3 DEF Crash
  <2>2. p # q
    BY <1>0, <2>1
  <2> QED
    BY <1>3, <2>2 DEF Belong
<1>4. ASSUME d \notin subs[p] PROVE d \in Conns /\ \E t \in Tabs : Subscribe(t, d, p)
  <2>1. ASSUME NEW q \in Processes, Close(q) \/ Crash(q) PROVE FALSE
    BY <1>0, <1>4, <2>1 DEF Close, Crash
  <2>2. ASSUME NEW c \in Conns, Remove(c) PROVE FALSE
    BY <1>0, <1>4, <2>2 DEF Remove
  <2>3. subs' # subs
    BY <1>4
  <2>4. \E t \in Tabs, c \in Conns, q \in Processes : Subscribe(t, c, q)
    BY <2>1, <2>2, <2>3
       DEF Next, Publishing, Publish, AppendEvent, Commit, AppendFails, Fanout, Send, Return,
           Serving, ListAfter, Offer, Serve, SendPing, Write, Shut, Break, StartOver, vars
  <2> QED
    BY <1>1, <1>4, <2>4
<1> QED
  BY <1>0, <1>2, <1>3, <1>4

LEMMA BelongKept ==
    ASSUME HubAssumption, TypeOK, OwnRows, Belong, [Next]_vars PROVE Belong'
<1>0. \A d \in Conns : conn[d].pc # "none" => SameEnds(d)
  BY ConnsStay
<1>1. ASSUME NEW t \in Tabs, NEW c \in Conns, NEW p \in Processes, Subscribe(t, c, p)
      PROVE  conn'[c].process = p /\ conn'[c].pc = "list" /\ conn'[c].tab = t
  <2>1. conn'[c] = [Unused(t, p) EXCEPT !.pc = "list", !.since = LastEventID(t)]
    BY <1>1 DEF Subscribe, Set, TypeOK
  <2> QED
    BY <2>1 DEF Unused
<1>2. ASSUME NEW p \in Processes, NEW d \in subs'[p]
      PROVE  conn'[d].process = p /\ conn'[d].pc \notin {"none", "end"}
  <2>1. CASE \E t \in Tabs : Subscribe(t, d, p)
    BY <1>1, <1>2, <2>1, SubsMove
  <2>2. CASE ~ \E t \in Tabs : Subscribe(t, d, p)
    <3>1. /\ d \in Conns /\ d \in subs[p]
          /\ ~Remove(d) /\ ~ \E q \in Processes : Crash(q) /\ conn[d].process = q
      BY <1>2, <2>2, SubsMove
    <3>2. conn[d].process = p /\ conn[d].pc \notin {"none", "end"}
      BY <3>1 DEF Belong
    <3> QED
      BY <1>0, <3>1, <3>2 DEF SameEnds
  <2> QED
    BY <2>1, <2>2
<1>3. ASSUME NEW t \in Tabs
      PROVE  /\ tab'[t].conn # NoConn => tab'[t].conn \in tab'[t].conns
             /\ \A c \in tab'[t].conns : conn'[c].pc # "none" /\ conn'[c].tab = t
  <2>0. tab[t] \in Adapters
    BY Fields
  <2>1. ASSUME NEW c \in tab[t].conns PROVE conn'[c].pc # "none" /\ conn'[c].tab = t
    BY <1>0, <2>0, <2>1 DEF Belong, SameEnds, Adapters
  <2>2. CASE tab'[t] = tab[t]
    BY <2>1, <2>2 DEF Belong
  <2>3. ASSUME NEW c \in Conns, NEW p \in Processes, Subscribe(t, c, p),
               tab'[t] = [tab[t] EXCEPT !.conn = c, !.conns = tab[t].conns \cup {c},
                             !.from = IF tab[t].last = 0 THEN Len(ev) ELSE tab[t].from]
        PROVE  tab'[t].conn = c /\ tab'[t].conns = tab[t].conns \cup {c}
    <3>1. \A n : [tab[t] EXCEPT !.conn = c, !.conns = tab[t].conns \cup {c}, !.from = n].conn = c
      BY <2>0 DEF Adapters
    <3>2. \A n : [tab[t] EXCEPT !.conn = c, !.conns = tab[t].conns \cup {c}, !.from = n].conns
                    = tab[t].conns \cup {c}
      BY <2>0 DEF Adapters
    <3> QED
      BY <2>3, <3>1, <3>2
  <2>4. ASSUME NEW e, tab'[t] = [tab[t] EXCEPT !.last = e, !.seen = tab[t].seen \cup {e}]
        PROVE  tab'[t].conn = tab[t].conn /\ tab'[t].conns = tab[t].conns
    BY <2>0, <2>4 DEF Adapters
  <2>5. ASSUME tab'[t] = [tab[t] EXCEPT !.conn = NoConn]
        PROVE  tab'[t].conn = NoConn /\ tab'[t].conns = tab[t].conns
    BY <2>0, <2>5 DEF Adapters
  <2>6. ASSUME tab'[t] = Fresh PROVE tab'[t].conn = NoConn /\ tab'[t].conns = {}
    BY <2>6 DEF Fresh
  <2>7. CASE \E c \in Conns, p \in Processes :
                /\ Subscribe(t, c, p)
                /\ tab'[t] = [tab[t] EXCEPT !.conn = c, !.conns = tab[t].conns \cup {c},
                                 !.from = IF tab[t].last = 0 THEN Len(ev) ELSE tab[t].from]
    <3>1. PICK c \in Conns, p \in Processes :
             /\ Subscribe(t, c, p)
             /\ tab'[t] = [tab[t] EXCEPT !.conn = c, !.conns = tab[t].conns \cup {c},
                               !.from = IF tab[t].last = 0 THEN Len(ev) ELSE tab[t].from]
      BY <2>7
    <3>2. tab'[t].conn = c /\ tab'[t].conns = tab[t].conns \cup {c}
      BY <2>3, <3>1
    <3>3. conn'[c].pc # "none" /\ conn'[c].tab = t
      BY <1>1, <3>1
    <3> QED
      BY <2>1, <3>2, <3>3
  <2>8. CASE \E e : tab'[t] = [tab[t] EXCEPT !.last = e, !.seen = tab[t].seen \cup {e}]
    BY <2>1, <2>4, <2>8 DEF Belong
  <2>9. CASE tab'[t] = [tab[t] EXCEPT !.conn = NoConn] \/ tab'[t] = Fresh
    BY <2>1, <2>5, <2>6, <2>9
  <2> QED
    BY <2>2, <2>7, <2>8, <2>9, TabMoves
<1>4. ASSUME NEW c \in Conns, conn'[c].pc = "none" PROVE ~conn'[c].shut
  BY <1>1, <1>4, ConnMoves DEF SameEnds, Belong
<1> QED
  BY <1>2, <1>3, <1>4 DEF Belong


\* A publisher changes by its own steps, or goes down.
LEMMA PubMoves ==
    ASSUME HubAssumption, TypeOK, [Next]_vars, NEW w \in Publishers
    PROVE  pub'[w] = pub[w] \/ Publishing(w) \/ \E p \in Processes : Crash(p)
<1>1. ASSUME NEW v \in Publishers, v # w, Publishing(v) PROVE pub'[w] = pub[w]
  BY <1>1 DEF Publishing, Publish, AppendEvent, Commit, AppendFails, Fanout, Send, Return,
              Call, TypeOK
<1>2. CASE \E v \in Publishers : Publishing(v)
  BY <1>1, <1>2
<1>3. CASE /\ ~ \E v \in Publishers : Publishing(v)
           /\ ~ \E p \in Processes : Crash(p)
  <2>1. pub' = pub
    BY <1>3 DEF Next, Serving, ListAfter, Offer, Serve, SendPing, Write, Remove, Shut,
                Subscribe, Close, Break, StartOver, vars
  <2> QED
    BY <2>1
<1> QED
  BY <1>2, <1>3

\* Its own steps, one by one.
LEMMA OwnSteps ==
    ASSUME HubAssumption, TypeOK, NEW w \in Publishers
    PROVE  /\ \A u \in Users : Publish(w, u) => pub'[w] = [Quiet(u) EXCEPT !.pc = "append"]
           /\ AppendEvent(w) => /\ pub'[w].pc = "insert" /\ pub'[w].user = pub[w].user
                                /\ pub'[w].id = Len(ev) + 1
                                /\ pub'[w].targets = pub[w].targets
           /\ Commit(w) => pub'[w] = [pub[w] EXCEPT !.pc = "fanout"]
           /\ Fanout(w) => pub'[w] = [pub[w] EXCEPT !.pc = "send",
                              !.targets = {c \in subs[Home[w]] : User(c) = pub[w].user}]
           /\ \A c \in Conns : Send(w, c) => pub'[w] = [pub[w] EXCEPT !.targets = pub[w].targets \ {c}]
           /\ AppendFails(w) => pub'[w] = Quiet(pub[w].user)
           /\ Return(w) => pub'[w] = Quiet(pub[w].user)
<1>0. pub \in [Publishers -> Publishings] /\ pub[w] \in Publishings
  BY DEF TypeOK
<1>1. ASSUME AppendEvent(w)
      PROVE  /\ pub'[w].pc = "insert" /\ pub'[w].user = pub[w].user
             /\ pub'[w].id = Len(ev) + 1 /\ pub'[w].targets = pub[w].targets
  <2>1. pub'[w] = [pub[w] EXCEPT !.pc = "insert", !.id = Len(ev')]
    BY <1>0, <1>1 DEF AppendEvent, Call
  <2>2. Len(ev') = Len(ev) + 1
    BY <1>1 DEF AppendEvent, TypeOK
  <2>3. ASSUME NEW n
        PROVE  /\ [pub[w] EXCEPT !.pc = "insert", !.id = n].pc = "insert"
               /\ [pub[w] EXCEPT !.pc = "insert", !.id = n].user = pub[w].user
               /\ [pub[w] EXCEPT !.pc = "insert", !.id = n].id = n
               /\ [pub[w] EXCEPT !.pc = "insert", !.id = n].targets = pub[w].targets
    BY <1>0 DEF Publishings
  <2>4. /\ pub'[w].pc = "insert" /\ pub'[w].user = pub[w].user
        /\ pub'[w].id = Len(ev') /\ pub'[w].targets = pub[w].targets
    BY <2>1, <2>3
  <2> QED
    BY <2>2, <2>4
<1>2. ASSUME NEW u \in Users, Publish(w, u) PROVE pub'[w] = [Quiet(u) EXCEPT !.pc = "append"]
  BY <1>0, <1>2 DEF Publish, Call
<1>3. ASSUME Commit(w) PROVE pub'[w] = [pub[w] EXCEPT !.pc = "fanout"]
  BY <1>0, <1>3 DEF Commit, Call
<1>4. ASSUME Fanout(w)
      PROVE  pub'[w] = [pub[w] EXCEPT !.pc = "send",
                           !.targets = {c \in subs[Home[w]] : User(c) = pub[w].user}]
  BY <1>0, <1>4 DEF Fanout, Call
<1>5. ASSUME NEW c \in Conns, Send(w, c)
      PROVE  pub'[w] = [pub[w] EXCEPT !.targets = pub[w].targets \ {c}]
  BY <1>0, <1>5 DEF Send, Call
<1>6. ASSUME AppendFails(w) \/ Return(w) PROVE pub'[w] = Quiet(pub[w].user)
  BY <1>0, <1>6 DEF AppendFails, Return, Call
<1> QED
  BY <1>1, <1>2, <1>3, <1>4, <1>5, <1>6

\* Who has an id got it just now, or had it and goes on with it.
LEMMA HasMoves ==
    ASSUME HubAssumption, TypeOK, [Next]_vars, NEW w \in Publishers, Has(w)'
    PROVE  /\ ~Return(w)
           /\ pub'[w].user = pub[w].user
           /\ \/ AppendEvent(w) /\ pub'[w].id = Len(ev) + 1 /\ pub'[w].pc = "insert"
              \/ /\ Has(w) /\ pub'[w].id = pub[w].id
                 /\ \/ ~Commit(w) /\ (pub'[w].pc = "insert" <=> pub[w].pc = "insert")
                    \/ Commit(w) /\ pub'[w].pc = "fanout"
<1>0. pub[w] \in Publishings /\ pub'[w].pc \in {"insert", "fanout", "send"}
  BY Fields DEF Has
<1>1. ~Return(w) /\ ~AppendFails(w) /\ \A u \in Users : ~Publish(w, u)
  <2>1. ASSUME Return(w) \/ AppendFails(w) PROVE pub'[w].pc = "idle"
    <3>1. pub'[w] = Quiet(pub[w].user)
      BY <2>1, OwnSteps
    <3> QED
      BY <3>1 DEF Quiet
  <2>2. ASSUME NEW u \in Users, Publish(w, u) PROVE pub'[w].pc = "append"
    BY <2>2, OwnSteps DEF Quiet
  <2> QED
    BY <1>0, <2>1, <2>2
<1>2. Commit(w) => pub[w].pc = "insert" /\ pub'[w] = [pub[w] EXCEPT !.pc = "fanout"]
  BY OwnSteps DEF Commit, At
<1>3. CASE pub'[w] = pub[w]
  <2>1. ~Commit(w)
    BY <1>0, <1>2, <1>3 DEF Publishings
  <2> QED
    BY <1>0, <1>1, <1>3, <2>1 DEF Has
<1>4. CASE \E p \in Processes : Crash(p)
  <2>1. PICK p \in Processes : Crash(p)
    BY <1>4
  <2>2. pub'[w] = IF Home[w] = p THEN Quiet(pub[w].user)
                  ELSE [pub[w] EXCEPT !.targets = {c \in pub[w].targets : conn[c].process # p}]
    BY <2>1 DEF Crash
  <2>3. /\ pub'[w].pc = pub[w].pc /\ pub'[w].id = pub[w].id /\ pub'[w].user = pub[w].user
    BY <1>0, <2>2 DEF Quiet, Publishings
  <2> QED
    BY <1>0, <1>1, <1>2, <2>3 DEF Has, Publishings
<1>5. CASE AppendEvent(w)
  BY <1>1, <1>5, OwnSteps
<1>6. CASE Commit(w)
  BY <1>0, <1>1, <1>2, <1>6 DEF Has, Publishings
<1>7. CASE Fanout(w)
  <2>1. pub[w].pc = "fanout" /\ pub'[w].pc = "send" /\ pub'[w].id = pub[w].id /\ pub'[w].user = pub[w].user
    BY <1>0, <1>7, OwnSteps DEF Fanout, At, Publishings
  <2> QED
    BY <1>1, <1>2, <2>1 DEF Has
<1>8. CASE \E c \in Conns : Send(w, c)
  <2>1. pub[w].pc = "send" /\ pub'[w].pc = "send" /\ pub'[w].id = pub[w].id /\ pub'[w].user = pub[w].user
    BY <1>0, <1>8, OwnSteps DEF Send, At, Publishings
  <2> QED
    BY <1>1, <1>2, <2>1 DEF Has
<1> QED
  BY <1>1, <1>3, <1>4, <1>5, <1>6, <1>7, <1>8, PubMoves DEF Publishing

LEMMA OwnRowsKept ==
    ASSUME HubAssumption, TypeOK, OwnRows, Belong, [Next]_vars PROVE OwnRows'
<1>0. /\ \A d \in Conns : conn[d].pc # "none" => SameEnds(d) /\ User(d)' = User(d)
      /\ \A v \in Publishers : pub[v] \in Publishings
      /\ DOMAIN ev = 1 .. Len(ev) /\ Len(ev) \in Nat
  BY ConnsStay, Fields
<1>1. ASSUME NEW w \in Publishers, NEW c \in pub'[w].targets
      PROVE  /\ pub'[w].pc = "send"
             /\ conn'[c].pc # "none" /\ conn'[c].process = Home[w] /\ User(c)' = pub'[w].user
  <2>1. pub'[w].pc = "send"
    <3>1. pub[w].pc # "send" => pub[w].targets = {}
      BY DEF OwnRows
    <3>2. CASE \E p \in Processes : Crash(p)
      <4>1. PICK p \in Processes : Crash(p)
        BY <3>2
      <4>2. pub'[w] = IF Home[w] = p THEN Quiet(pub[w].user)
                      ELSE [pub[w] EXCEPT !.targets = {d \in pub[w].targets : conn[d].process # p}]
        BY <4>1 DEF Crash
      <4>3. Home[w] # p
        BY <1>1, <4>2 DEF Quiet
      <4>4. c \in pub[w].targets /\ pub'[w].pc = pub[w].pc
        BY <1>0, <1>1, <4>2, <4>3 DEF Publishings
      <4> QED
        BY <3>1, <4>4
    <3>3. CASE Publishing(w)
      <4>1. ASSUME \/ \E u \in Users : Publish(w, u)
                   \/ AppendEvent(w) \/ AppendFails(w) \/ Return(w) \/ Commit(w)
            PROVE  pub'[w].targets = {}
        <5>1. ASSUME NEW u \in Users, Publish(w, u) PROVE pub'[w].targets = {}
          BY <5>1, OwnSteps DEF Quiet
        <5>2. ASSUME AppendEvent(w) PROVE pub'[w].targets = {}
          BY <3>1, <5>2, OwnSteps DEF AppendEvent, At
        <5>3. ASSUME Commit(w) PROVE pub'[w].targets = {}
          BY <1>0, <3>1, <5>3, OwnSteps DEF Commit, At, Publishings
        <5>4. ASSUME AppendFails(w) \/ Return(w) PROVE pub'[w].targets = {}
          <6>1. pub'[w] = Quiet(pub[w].user)
            BY <5>4, OwnSteps
          <6> QED
            BY <6>1 DEF Quiet
        <5> QED
          BY <4>1, <5>1, <5>2, <5>3, <5>4
      <4>2. ASSUME Fanout(w) \/ \E d \in Conns : Send(w, d) PROVE pub'[w].pc = "send"
        BY <1>0, <4>2, OwnSteps DEF Send, At, Publishings
      <4> QED
        BY <1>1, <3>3, <4>1, <4>2 DEF Publishing
    <3> QED
      BY <1>1, <3>1, <3>2, <3>3, PubMoves
  <2>2. \/ Fanout(w) /\ c \in subs[Home[w]] /\ User(c) = pub[w].user
        \/ c \in pub[w].targets
    BY <1>1, <2>1, SendersMove
  <2>3. conn[c].pc # "none" /\ conn[c].process = Home[w] /\ User(c) = pub[w].user /\ c \in Conns
    BY <1>0, <2>2 DEF OwnRows, Belong, Publishings, TypeOK, HubAssumption
  <2> QED
    BY <1>0, <2>1, <2>3, SendersMove DEF SameEnds
<1>2. ASSUME NEW w \in Publishers, Has(w)'
      PROVE  /\ pub'[w].id \in DOMAIN ev'
             /\ ev'[pub'[w].id].user = pub'[w].user
             /\ ev'[pub'[w].id].process = Home[w]
             /\ ev'[pub'[w].id].stored <=> pub'[w].pc # "insert"
             /\ ~ev'[pub'[w].id].sent
             /\ \A v \in Publishers \ {w} : Has(v)' => pub'[v].id # pub'[w].id
  <2>1. ASSUME NEW v \in Publishers
        PROVE  Has(v) => pub[v].id \in 1 .. Len(ev)
    BY <1>0 DEF OwnRows
  <2>2. CASE AppendEvent(w)
    <3> DEFINE r == [user |-> pub[w].user, process |-> Home[w],
                     stored |-> FALSE, sent |-> FALSE, late |-> FALSE]
    <3>1. r \in Events /\ r.user = pub[w].user /\ r.process = Home[w] /\ ~r.stored /\ ~r.sent
      BY <1>0 DEF HubAssumption, Publishings, Events
    <3>2. ev' = Append(ev, r) /\ ev \in Seq(Events)
      BY <2>2 DEF AppendEvent, TypeOK
    <3> HIDE DEF r
    <3>3. Len(ev) + 1 \in DOMAIN ev' /\ ev'[Len(ev) + 1] = r
      BY <1>0, <3>1, <3>2, EventsAppended
    <3>4. pub'[w].id = Len(ev) + 1 /\ pub'[w].pc = "insert" /\ pub'[w].user = pub[w].user
      BY <2>2, OwnSteps
    <3>5. ASSUME NEW v \in Publishers \ {w}, Has(v)' PROVE pub'[v].id # Len(ev) + 1
      <4>1. pub'[v] = pub[v]
        BY <2>2 DEF AppendEvent, Call, TypeOK
      <4> QED
        BY <1>0, <2>1, <3>5, <4>1 DEF Has
    <3> QED
      BY <3>1, <3>3, <3>4, <3>5
  <2>3. CASE ~AppendEvent(w)
    <3>1. /\ Has(w) /\ pub'[w].id = pub[w].id /\ pub'[w].user = pub[w].user /\ ~Return(w)
          /\ \/ ~Commit(w) /\ (pub'[w].pc = "insert" <=> pub[w].pc = "insert")
             \/ Commit(w) /\ pub'[w].pc = "fanout"
      BY <1>2, <2>3, HasMoves
    <3> DEFINE e == pub[w].id
    <3>2. /\ e \in DOMAIN ev /\ ev[e].user = pub[w].user /\ ev[e].process = Home[w]
          /\ ev[e].stored <=> pub[w].pc # "insert"
          /\ ~ev[e].sent
          /\ \A v \in Publishers \ {w} : Has(v) => pub[v].id # e
      BY <3>1 DEF OwnRows
    <3> HIDE DEF e
    <3>3. e \in DOMAIN ev' /\ ev'[e].user = ev[e].user /\ ev'[e].process = ev[e].process
      BY <3>2, EventsMove
    <3>4. ~ev'[e].sent
      <4>1. ASSUME NEW v \in Publishers, Return(v), pub[v].id = e PROVE FALSE
        BY <3>1, <3>2, <4>1 DEF Return, At, Has
      <4> QED
        BY <3>2, <4>1, EventsMove
    <3>5. ASSUME Commit(w) PROVE ev'[e].stored
      <4>1. ev[e] \in Events
        BY <3>2, Fields
      <4> QED
        BY <3>2, <3>5, <4>1 DEF Commit, TypeOK, Events, e
    <3>6. ASSUME ~Commit(w) PROVE ev'[e].stored = ev[e].stored
      <4>1. ASSUME NEW v \in Publishers, Commit(v), pub[v].id = e PROVE FALSE
        BY <3>2, <3>6, <4>1 DEF Commit, At, Has
      <4> QED
        BY <3>2, <4>1, EventsMove
    <3>7. ASSUME NEW v \in Publishers \ {w}, Has(v)' PROVE pub'[v].id # e
      <4>1. pub'[v].id = Len(ev) + 1 \/ (Has(v) /\ pub'[v].id = pub[v].id)
        BY <3>7, HasMoves
      <4> QED
        BY <1>0, <3>2, <4>1
    <3>8. pub'[w].id = e
      BY <3>1 DEF e
    <3> QED
      BY <3>1, <3>2, <3>3, <3>4, <3>5, <3>6, <3>7, <3>8
  <2> QED
    BY <2>2, <2>3
<1>3. ASSUME NEW e \in DOMAIN ev', ev'[e].sent PROVE ev'[e].stored
  <2>1. e \in DOMAIN ev
    BY <1>3, EventsMove
  <2>2. CASE ev[e].sent
    BY <1>3, <2>1, <2>2, EventsMove DEF OwnRows
  <2>3. CASE \E w \in Publishers : Return(w) /\ pub[w].id = e
    <3>1. ev[e].stored
      BY <2>3 DEF Return, At, OwnRows, Has
    <3> QED
      BY <2>1, <3>1, EventsMove
  <2> QED
    BY <1>3, <2>1, <2>2, <2>3, EventsMove
<1> QED
  BY <1>1, <1>2, <1>3 DEF OwnRows, Has

\* A tab's moves, field by field.
LEMMA TabSteps ==
    ASSUME HubAssumption, TypeOK, [Next]_vars, NEW t \in Tabs
    PROVE  \/ tab'[t] = tab[t]
           \/ \E c \in Conns, p \in Processes :
                 /\ Subscribe(t, c, p)
                 /\ tab'[t].conn = c /\ tab'[t].conns = tab[t].conns \cup {c}
                 /\ tab'[t].last = tab[t].last /\ tab'[t].seen = tab[t].seen
                 /\ tab'[t].from = IF tab[t].last = 0 THEN Len(ev) ELSE tab[t].from
           \/ \E c \in Conns : \E e \in Range(conn[c].out) :
                 /\ Write(c) /\ tab[t].conn = c /\ e # Ping
                 /\ tab'[t].last = e /\ tab'[t].seen = tab[t].seen \cup {e}
                 /\ tab'[t].conn = c /\ tab'[t].conns = tab[t].conns
                 /\ tab'[t].from = tab[t].from
           \/ /\ tab'[t].conn = NoConn /\ tab'[t].conns = tab[t].conns
              /\ tab'[t].last = tab[t].last /\ tab'[t].seen = tab[t].seen
              /\ tab'[t].from = tab[t].from
           \/ /\ tab'[t].conn = NoConn /\ tab'[t].conns = {} /\ tab'[t].last = 0
              /\ tab'[t].from = 0
<1>0. tab[t] \in Adapters
  BY Fields
<1>1. ASSUME NEW c \in Conns, NEW p \in Processes, NEW n, Subscribe(t, c, p),
             tab'[t] = [tab[t] EXCEPT !.conn = c, !.conns = tab[t].conns \cup {c}, !.from = n]
      PROVE  /\ tab'[t].conn = c /\ tab'[t].conns = tab[t].conns \cup {c}
             /\ tab'[t].last = tab[t].last /\ tab'[t].seen = tab[t].seen
             /\ tab'[t].from = n
  BY <1>0, <1>1 DEF Adapters
<1>2. ASSUME NEW e, tab'[t] = [tab[t] EXCEPT !.last = e, !.seen = tab[t].seen \cup {e}]
      PROVE  /\ tab'[t].last = e /\ tab'[t].seen = tab[t].seen \cup {e}
             /\ tab'[t].conn = tab[t].conn /\ tab'[t].conns = tab[t].conns
             /\ tab'[t].from = tab[t].from
  BY <1>0, <1>2 DEF Adapters
<1>3. CASE \E c \in Conns, p \in Processes :
              /\ Subscribe(t, c, p)
              /\ tab'[t] = [tab[t] EXCEPT !.conn = c, !.conns = tab[t].conns \cup {c},
                               !.from = IF tab[t].last = 0 THEN Len(ev) ELSE tab[t].from]
  BY <1>1, <1>3
<1>4. CASE \E c \in Conns : \E e \in Range(conn[c].out) :
              /\ Write(c) /\ tab[t].conn = c /\ e # Ping
              /\ tab'[t] = [tab[t] EXCEPT !.last = e, !.seen = tab[t].seen \cup {e}]
  BY <1>2, <1>4
<1>5. CASE tab'[t] = [tab[t] EXCEPT !.conn = NoConn]
  BY <1>0, <1>5 DEF Adapters
<1>6. CASE tab'[t] = Fresh
  BY <1>6 DEF Fresh
<1>7. CASE tab'[t] = tab[t]
  BY <1>7
<1> QED
  BY <1>3, <1>4, <1>5, <1>6, <1>7, TabMoves

\* A connection that is subscribed is new.
LEMMA SubscribeGives ==
    ASSUME TypeOK, NEW t \in Tabs, NEW c \in Conns, NEW p \in Processes, Subscribe(t, c, p)
    PROVE  /\ conn[c].pc = "none"
           /\ conn'[c].pc = "list" /\ conn'[c].tab = t /\ conn'[c].process = p
           /\ conn'[c].since = tab[t].last /\ conn'[c].out = <<>> /\ Range(conn'[c].out) = {}
           /\ conn'[c].past = {} /\ conn'[c].lost = {} /\ conn'[c].offered = {}
           /\ conn'[c].replay = "none" /\ ~conn'[c].shut
<1>1. conn'[c] = [Unused(t, p) EXCEPT !.pc = "list", !.since = tab[t].last]
  BY DEF Subscribe, Set, TypeOK, LastEventID
<1>2. Range(<<>>) = {}
  BY DEF Range
<1>3. conn[c].pc = "none"
  BY DEF Subscribe
<1> QED
  BY <1>1, <1>2, <1>3 DEF Unused

LEMMA ReplayedKept ==
    ASSUME HubAssumption, TypeOK, OwnRows, Replayed, [Next]_vars PROVE Replayed'
<1> SUFFICES ASSUME NEW c \in Conns
             PROVE  /\ conn'[c].replay # "none" \/ conn'[c].past # {} \/ conn'[c].offered # {}
                          => conn'[c].since > 0
                    /\ conn'[c].pc \in {"none", "list"} =>
                          conn'[c].replay = "none" /\ conn'[c].past = {}
                    /\ conn'[c].replay = "all" =>
                          conn'[c].offered \subseteq
                             Range(conn'[c].out) \cup conn'[c].past \cup conn'[c].lost
  BY DEF Replayed
<1>0. /\ conn[c].replay # "none" \/ conn[c].past # {} \/ conn[c].offered # {} => conn[c].since > 0
      /\ conn[c].pc \in {"none", "list"} => conn[c].replay = "none" /\ conn[c].past = {}
      /\ conn[c].replay = "all" =>
            conn[c].offered \subseteq Range(conn[c].out) \cup conn[c].past \cup conn[c].lost
  BY DEF Replayed
<1>1. CASE \E t \in Tabs, p \in Processes : Subscribe(t, c, p)
  <2>1. /\ conn'[c].replay = "none" /\ conn'[c].past = {} /\ conn'[c].offered = {}
    <3>1. PICK t \in Tabs, p \in Processes : Subscribe(t, c, p)
      BY <1>1
    <3> QED
      BY <3>1, SubscribeGives
  <2> QED
    BY <2>1
<1>2. CASE SameEnds(c) /\ Steady(c)
  BY <1>0, <1>2 DEF SameEnds, Steady
<1>3. CASE SameEnds(c) /\ Reads(c)
  BY <1>0, <1>3 DEF SameEnds, Reads
<1>4. CASE SameEnds(c) /\ Offers(c)
  BY <1>0, <1>4 DEF SameEnds, Offers
<1>5. CASE SameEnds(c) /\ \E e : Takes(c, e)
  BY <1>0, <1>5 DEF SameEnds, Takes
<1> QED
  BY <1>1, <1>2, <1>3, <1>4, <1>5, ConnMoves


\* What is in the database after a step; what was there stays.
StoredNext(e) == e \in DOMAIN ev' /\ ev'[e].stored

LEMMA StoredStays ==
    ASSUME HubAssumption, TypeOK, OwnRows, [Next]_vars
    PROVE  \A e : IsStored(e) => StoredNext(e)
BY EventsMove DEF IsStored, StoredNext

LEMMA OnlyStoredKept ==
    ASSUME HubAssumption, TypeOK, Room, OwnRows, Belong, OnlyStored, [Next]_vars
    PROVE  OnlyStored'
<1>0. /\ \A c \in Conns : conn[c].pc # "none" => SameEnds(c)
      /\ \A t \in Tabs : tab[t] \in Adapters
      /\ Len(ev) \in Nat /\ Len(ev') \in Nat /\ Len(ev) <= Len(ev')
  <2>1. ev \in Seq(Events) /\ ev' \in Seq(Events)
    BY TypesKept DEF TypeOK
  <2>2. DOMAIN ev = 1 .. Len(ev) /\ DOMAIN ev' = 1 .. Len(ev') /\ Len(ev) \in Nat /\ Len(ev') \in Nat
    BY <2>1
  <2>3. DOMAIN ev \subseteq DOMAIN ev'
    BY EventsMove
  <2>4. Len(ev) <= Len(ev')
    BY <2>2, <2>3
  <2> QED
    BY <2>2, <2>4, ConnsStay, Fields
<1>1. ASSUME NEW c \in Conns
      PROVE  /\ \A e \in Range(conn'[c].out) : e # Ping => StoredNext(e)
             /\ \A e \in conn'[c].past : StoredNext(e)
  <2>0. /\ \A e \in Range(conn[c].out) : e # Ping => StoredNext(e)
        /\ \A e \in conn[c].past : StoredNext(e)
    BY StoredStays DEF OnlyStored
  <2>1. CASE \E t \in Tabs, p \in Processes : Subscribe(t, c, p)
    <3>1. Range(conn'[c].out) = {} /\ conn'[c].past = {}
      <4>1. PICK t \in Tabs, p \in Processes : Subscribe(t, c, p)
        BY <2>1
      <4> QED
        BY <4>1, SubscribeGives
    <3> QED
      BY <3>1
  <2>2. CASE Steady(c)
    BY <2>0, <2>2 DEF Steady
  <2>3. CASE Reads(c)
    <3>1. First(EventsAfter(User(c), conn[c].since), ReplayLimit)
             \subseteq EventsAfter(User(c), conn[c].since)
      BY FirstOf
    <3>2. \A e \in EventsAfter(User(c), conn[c].since) : StoredNext(e)
      BY StoredStays DEF EventsAfter, IsStored
    <3> QED
      BY <2>0, <2>3, <3>1, <3>2 DEF Reads
  <2>4. CASE Offers(c)
    BY <2>0, <2>4 DEF Offers
  <2>5. CASE Takes(c, Ping)
    BY <2>0, <2>5 DEF Takes
  <2>6. CASE \E w \in Publishers : Send(w, c) /\ Takes(c, pub[w].id)
    <3>1. PICK w \in Publishers : Send(w, c) /\ Takes(c, pub[w].id)
      BY <2>6
    <3>2. IsStored(pub[w].id)
      BY <3>1 DEF Send, At, OwnRows, Has, IsStored
    <3>3. StoredNext(pub[w].id)
      BY <3>2, StoredStays
    <3> QED
      BY <2>0, <3>1, <3>3 DEF Takes
  <2> QED
    BY <2>1, <2>2, <2>3, <2>4, <2>5, <2>6, ConnMoves
<1>2. ASSUME NEW t \in Tabs
      PROVE  /\ tab'[t].last > 0 => StoredNext(tab'[t].last) /\ tab'[t].last \in tab'[t].seen
             /\ tab'[t].from <= Len(ev')
             /\ tab'[t].conn # NoConn /\ conn'[tab'[t].conn].since > 0 =>
                   /\ StoredNext(conn'[tab'[t].conn].since)
                   /\ conn'[tab'[t].conn].since \in tab'[t].seen
  <2>0. /\ tab[t].last > 0 => StoredNext(tab[t].last) /\ tab[t].last \in tab[t].seen
        /\ tab[t].from <= Len(ev) /\ tab[t].from \in Nat /\ tab[t].last \in Nat
        /\ tab[t].conn # NoConn /\ conn[tab[t].conn].since > 0 =>
              /\ StoredNext(conn[tab[t].conn].since) /\ conn[tab[t].conn].since \in tab[t].seen
        /\ tab[t].conn # NoConn => conn'[tab[t].conn].since = conn[tab[t].conn].since
    <3>1. tab[t] \in Adapters
      BY <1>0
    <3>2. tab[t].conn # NoConn => conn'[tab[t].conn].since = conn[tab[t].conn].since
      BY <1>0, <3>1 DEF Belong, SameEnds, Adapters
    <3>3. tab[t].from \in Nat /\ tab[t].last \in Nat
      BY <3>1 DEF Adapters, HubAssumption
    <3> QED
      BY <3>2, <3>3, StoredStays DEF OnlyStored
  <2>1. CASE tab'[t] = tab[t]
    <3>1. tab[t].from <= Len(ev')
      BY <1>0, <2>0
    <3> QED
      BY <2>0, <2>1, <3>1
  <2>2. CASE \E c \in Conns, p \in Processes :
                /\ Subscribe(t, c, p)
                /\ tab'[t].conn = c /\ tab'[t].conns = tab[t].conns \cup {c}
                /\ tab'[t].last = tab[t].last /\ tab'[t].seen = tab[t].seen
                /\ tab'[t].from = IF tab[t].last = 0 THEN Len(ev) ELSE tab[t].from
    <3>1. tab'[t].from <= Len(ev')
      BY <1>0, <2>0, <2>2
    <3>2. conn'[tab'[t].conn].since = tab[t].last
      BY <2>2, SubscribeGives
    <3> QED
      BY <2>0, <2>2, <3>1, <3>2
  <2>3. CASE \E c \in Conns : \E e \in Range(conn[c].out) :
                /\ Write(c) /\ tab[t].conn = c /\ e # Ping
                /\ tab'[t].last = e /\ tab'[t].seen = tab[t].seen \cup {e}
                /\ tab'[t].conn = c /\ tab'[t].conns = tab[t].conns
                /\ tab'[t].from = tab[t].from
    <3>1. tab'[t].from <= Len(ev')
      BY <1>0, <2>0, <2>3
    <3>2. StoredNext(tab'[t].last) /\ tab'[t].last \in tab'[t].seen
      BY <2>3, StoredStays DEF OnlyStored
    <3> QED
      BY <2>0, <2>3, <3>1, <3>2
  <2>4. CASE /\ tab'[t].conn = NoConn
             /\ \/ /\ tab'[t].last = tab[t].last /\ tab'[t].seen = tab[t].seen
                   /\ tab'[t].from = tab[t].from
                \/ tab'[t].last = 0 /\ tab'[t].from = 0
    <3>1. tab'[t].from <= Len(ev')
      BY <1>0, <2>0, <2>4
    <3> QED
      BY <2>0, <2>4, <3>1
  <2> QED
    BY <2>1, <2>2, <2>3, <2>4, TabSteps
<1> QED
  BY <1>1, <1>2 DEF OnlyStored, IsStored, StoredNext

GotNext(c, e) == e \in Range(conn'[c].out) \cup conn'[c].past \cup conn'[c].lost

\* What a connection has got it keeps, unless its replay ends early.
LEMMA GotKept ==
    ASSUME HubAssumption, TypeOK, OwnRows, Replayed, [Next]_vars,
           NEW c \in Conns, NEW e, conn[c].pc # "none", Got(c, e)
    PROVE  GotNext(c, e) \/ (conn[c].since > 0 /\ conn'[c].replay = "part")
<1>0. ~ \E t \in Tabs, p \in Processes : Subscribe(t, c, p)
  BY DEF Subscribe
<1>1. conn[c].past # {} => conn[c].since > 0
  BY DEF Replayed
<1>2. conn[c].pc = "list" => conn[c].past = {}
  BY DEF Replayed
<1>3. CASE Steady(c)
  BY <1>3 DEF Steady, Got, GotNext
<1>4. CASE Reads(c)
  BY <1>2, <1>4 DEF Reads, Got, GotNext
<1>5. CASE Offers(c)
  BY <1>1, <1>5 DEF Offers, Got, GotNext
<1>6. CASE \E x : Takes(c, x)
  BY <1>6 DEF Takes, Got, GotNext
<1> QED
  BY <1>0, <1>3, <1>4, <1>5, <1>6, ConnMoves

\* A replay that is read in full has every event that is in the database.
LEMMA ReadInFull ==
    ASSUME NEW c \in Conns, NEW e, Reads(c), conn'[c].replay = "all",
           IsStored(e), ev[e].user = User(c), conn[c].since < e
    PROVE  GotNext(c, e)
<1>1. e \in EventsAfter(User(c), conn[c].since)
  BY DEF IsStored, EventsAfter
<1> QED
  BY <1>1 DEF Reads, GotNext

\* What a connection owes after a step it owed before, unless its replay was read.
LEMMA WantedBefore ==
    ASSUME HubAssumption, TypeOK, OwnRows, Replayed, [Next]_vars,
           NEW c \in Conns, NEW e \in DOMAIN ev, conn[c].pc # "none", Wanted(c, e)', ~Reads(c)
    PROVE  Wanted(c, e)
<1>0. SameEnds(c) /\ User(c)' = User(c) /\ ~ \E t \in Tabs, p \in Processes : Subscribe(t, c, p)
  BY ConnsStay DEF Subscribe
<1>1. conn[c].since < e /\ ev[e].user = User(c) /\ ev[e].process = conn[c].process
  <2>1. ev'[e].user = ev[e].user /\ ev'[e].process = ev[e].process
    BY EventsMove
  <2> QED
    BY <1>0, <2>1 DEF Wanted, SameEnds
<1>2. ASSUME conn'[c].replay = "all" PROVE conn[c].replay = "all"
  BY <1>0, <1>2, ConnMoves DEF Steady, Offers, Takes
<1>3. ASSUME Current(c, e)' PROVE Current(c, e)
  <2> DEFINE s == conn[c].tab
  <2>1. s \in Tabs
    BY Fields DEF Connections
  <2>2. tab'[s].conn = c /\ tab'[s].from < e
    BY <1>0, <1>3 DEF Current, SameEnds
  <2>3. tab[s].conn = c /\ tab[s].from < e
    BY <1>0, <2>1, <2>2, TabSteps DEF HubAssumption
  <2> QED
    BY <2>3 DEF Current
<1> QED
  BY <1>0, <1>1, <1>2, <1>3 DEF Wanted, SameEnds

\* A connection that subscribes owes nothing yet.
LEMMA NothingOwedYet ==
    ASSUME HubAssumption, TypeOK, NEW c \in Conns, NEW t \in Tabs, NEW p \in Processes,
           [Next]_vars, Subscribe(t, c, p), NEW e \in DOMAIN ev, Wanted(c, e)'
    PROVE  FALSE
<1>1. conn'[c].replay = "none" /\ conn'[c].since = tab[t].last /\ conn'[c].tab = t
  BY SubscribeGives
<1>2. conn'[c].since = 0 /\ tab'[t].from < e
  BY <1>1 DEF Wanted, Current
<1>3. tab'[t].from = Len(ev)
  <2>1. tab[t].conn = NoConn /\ tab'[t].conn = c
    BY DEF Subscribe, TypeOK, Adapters
  <2>2. tab[t] \in Adapters
    BY Fields
  <2>3. tab'[t] = [tab[t] EXCEPT !.conn = c, !.conns = tab[t].conns \cup {c}, !.from = Len(ev)]
    BY <1>1, <1>2 DEF Subscribe, TypeOK
  <2>4. ASSUME NEW n
        PROVE  [tab[t] EXCEPT !.conn = c, !.conns = tab[t].conns \cup {c}, !.from = n].from = n
    BY <2>2 DEF Adapters
  <2> QED
    BY <2>3, <2>4
<1>4. e <= Len(ev) /\ Len(ev) \in Nat /\ e \in Nat
  BY Fields DEF Ids
<1> QED
  BY <1>2, <1>3, <1>4

\* Who sends is done with an open, subscribed connection: it was before, or the
\* connection has just got the event.
LEMMA PassedOnBefore ==
    ASSUME HubAssumption, TypeOK, OwnRows, Belong, [Next]_vars,
           NEW c \in Conns, NEW e \in DOMAIN ev, ~conn[c].shut,
           c \in subs[conn[c].process], ~ \E p \in Processes : Crash(p) /\ conn[c].process = p,
           ev[e].user = User(c), ev[e].process = conn[c].process, PassedOn(c, e)'
    PROVE  PassedOn(c, e) \/ GotNext(c, e)
<1>1. CASE ev'[e].sent
  <2>1. ASSUME NEW w \in Publishers, Return(w), pub[w].id = e PROVE PassedOn(c, e)
    BY <2>1 DEF Return, At, PassedOn
  <2> QED
    BY <1>1, <2>1, EventsMove DEF PassedOn
<1>2. CASE \E w \in Publishers : pub'[w].pc = "send" /\ pub'[w].id = e /\ c \notin pub'[w].targets
  <2>1. PICK w \in Publishers : pub'[w].pc = "send" /\ pub'[w].id = e /\ c \notin pub'[w].targets
    BY <1>2
  <2>2. pub[w].id = e
    BY <2>1, SendersMove
  <2>3. CASE Fanout(w)
    <3>1. ev[e].user = pub[w].user /\ ev[e].process = Home[w]
      BY <2>2, <2>3 DEF Fanout, At, OwnRows, Has
    <3>2. pub'[w].targets = {d \in subs[Home[w]] : User(d) = pub[w].user}
      <4>1. pub[w] \in Publishings
        BY Fields
      <4> QED
        BY <2>3, <4>1, OwnSteps DEF Publishings
    <3> QED
      BY <2>1, <3>1, <3>2
  <2>4. CASE c \notin pub[w].targets /\ ~Fanout(w)
    BY <2>1, <2>2, <2>4, SendersMove DEF PassedOn
  <2>5. CASE c \in pub[w].targets /\ ~Fanout(w)
    <3>1. Send(w, c)
      BY <2>1, <2>5, SendersMove
    <3>2. conn'[c] = Sent(conn[c], e)
      BY <2>2, <3>1 DEF Send, Set, TypeOK
    <3>3. conn[c] \in Connections /\ e \in 0 .. MaxEvents /\ e # Ping
      BY Fields DEF Ids, Ping, HubAssumption
    <3> DEFINE s == Sent(conn[c], e)
    <3>4. s.out = Append(conn[c].out, e) \/ s.lost = conn[c].lost \cup ({e} \ {Ping})
      BY <3>3, SentIs, Zenon
    <3>5. conn[c].out \in Seq(0 .. MaxEvents)
      BY <3>3 DEF Connections
    <3>6. Range(Append(conn[c].out, e)) = Range(conn[c].out) \cup {e}
      BY <3>3, <3>5, RangeGrows
    <3> QED
      BY <3>2, <3>3, <3>4, <3>6 DEF GotNext
  <2> QED
    BY <2>3, <2>4, <2>5
<1> QED
  BY <1>1, <1>2 DEF PassedOn

LEMMA ArrivedKept ==
    ASSUME HubAssumption, TypeOK, OwnRows, Belong, Replayed, Arrived, [Next]_vars
    PROVE  Arrived'
<1> SUFFICES ASSUME NEW c \in Conns, NEW e \in DOMAIN ev',
                    conn'[c].pc # "none", ~conn'[c].shut, Wanted(c, e)',
                    \/ c \in subs'[conn'[c].process] /\ PassedOn(c, e)'
                    \/ ev'[e].sent /\ ~ev'[e].late /\ Followed(c, e)'
             PROVE  GotNext(c, e)
  BY DEF Arrived, Got, GotNext
<1>0. OwnRows'
  BY OwnRowsKept
<1>1. e \in DOMAIN ev
  <2>1. ASSUME e \notin DOMAIN ev PROVE FALSE
    <3>1. ~ev'[e].sent /\ ~ev'[e].stored
      BY <2>1, EventsMove
    <3>2. PICK w \in Publishers : pub'[w].pc = "send" /\ pub'[w].id = e
      BY <3>1 DEF PassedOn
    <3> QED
      BY <1>0, <3>1, <3>2 DEF OwnRows, Has
  <2> QED
    BY <2>1
<1>2. conn[c].pc # "none" /\ SameEnds(c) /\ User(c)' = User(c) /\ ~conn[c].shut
  <2>1. ~ \E t \in Tabs, p \in Processes : Subscribe(t, c, p)
    BY <1>1, NothingOwedYet
  <2>2. SameEnds(c)
    BY <2>1, ConnMoves
  <2>3. conn[c].pc # "none" /\ ~conn[c].shut
    BY <2>2 DEF SameEnds
  <2> QED
    BY <2>2, <2>3, ConnsStay
<1>3. /\ conn'[c].since = conn[c].since /\ conn[c].since < e
      /\ ev[e].user = User(c) /\ ev[e].process = conn[c].process
      /\ conn'[c].since > 0 => conn'[c].replay = "all"
  <2>1. ev'[e].user = ev[e].user /\ ev'[e].process = ev[e].process
    BY <1>1, EventsMove
  <2>2. conn'[c].since > 0 => conn'[c].since # 0
    OBVIOUS
  <2> QED
    BY <1>2, <2>1, <2>2 DEF Wanted, SameEnds
<1>4. CASE Reads(c)
  <2>1. ev' = ev /\ pub' = pub
    BY <1>4 DEF Reads, ListAfter
  <2>2. PassedOn(c, e) \/ ev[e].sent
    BY <2>1 DEF PassedOn
  <2>3. IsStored(e)
    BY <1>1, <2>2 DEF PassedOn, OwnRows, Has, IsStored
  <2>4. conn'[c].replay = "all"
    BY <1>2, <1>3, <1>4 DEF Reads, SameEnds
  <2> QED
    BY <1>3, <1>4, <2>3, <2>4, ReadInFull
<1>5. CASE ~Reads(c)
  <2>1. Wanted(c, e)
    BY <1>1, <1>2, <1>5, WantedBefore
  <2>2. ASSUME c \in subs'[conn'[c].process], PassedOn(c, e)' PROVE Got(c, e) \/ GotNext(c, e)
    <3>1. c \in subs[conn[c].process] /\ ~ \E p \in Processes : Crash(p) /\ conn[c].process = p
      <4>1. conn[c].process \in Processes /\ conn'[c].process = conn[c].process
        BY <1>2, Fields DEF SameEnds, Connections
      <4>2. ~ \E t \in Tabs : Subscribe(t, c, conn[c].process)
        BY <1>2 DEF Subscribe
      <4> QED
        BY <2>2, <4>1, <4>2, SubsMove
    <3>2. PassedOn(c, e) \/ GotNext(c, e)
      BY <1>1, <1>2, <1>3, <2>2, <3>1, PassedOnBefore
    <3> QED
      BY <1>1, <1>2, <2>1, <3>1, <3>2 DEF Arrived
  <2>3. ASSUME ev'[e].sent, ~ev'[e].late, Followed(c, e)' PROVE Got(c, e)
    <3>1. PICK w \in Publishers : c \in pub'[w].targets /\ pub'[w].id > e
      BY <2>3 DEF Followed
    <3>2. /\ pub'[w].pc = "send" /\ pub'[w].id = pub[w].id
          /\ \/ Fanout(w) /\ c \in subs[Home[w]]
             \/ pub[w].pc = "send" /\ c \in pub[w].targets
      BY <1>0, <3>1, SendersMove DEF OwnRows
    <3>3. CASE ev[e].sent
      <4>1. ev'[e] = ev[e]
        BY <1>1, <3>3, EventsMove
      <4>2. ASSUME Fanout(w), c \in subs[Home[w]] PROVE Got(c, e)
        <5>1. Home[w] \in Processes
          BY DEF HubAssumption
        <5>2. c \in subs[conn[c].process]
          BY <4>2, <5>1 DEF Belong
        <5> QED
          BY <1>1, <1>2, <2>1, <3>3, <5>2 DEF Arrived, PassedOn
      <4>3. ASSUME c \in pub[w].targets PROVE Got(c, e)
        <5>1. Followed(c, e)
          BY <3>1, <3>2, <4>3 DEF Followed
        <5>2. ~ev[e].late
          BY <2>3, <4>1
        <5> QED
          BY <1>1, <1>2, <2>1, <3>3, <5>1, <5>2 DEF Arrived
      <4> QED
        BY <3>2, <4>2, <4>3
    <3>4. CASE ~ev[e].sent
      <4>1. ev'[e].late = Overtaken(e)
        BY <1>1, <2>3, <3>4, EventsMove
      <4>2. pub[w].id > e /\ IsStored(pub[w].id)
        BY <3>1, <3>2 DEF Fanout, At, OwnRows, Has, IsStored
      <4> QED
        BY <2>3, <4>1, <4>2 DEF Overtaken, IsStored
    <3> QED
      BY <3>3, <3>4
  <2>4. Got(c, e) \/ GotNext(c, e)
    BY <2>2, <2>3
  <2> QED
    BY <1>2, <1>3, <2>4, GotKept DEF SameEnds
<1> QED
  BY <1>4, <1>5

\* A reason not to have brought an event remains one.
LEMMA ReasonsLast ==
    ASSUME HubAssumption, TypeOK, OwnRows, Replayed, [Next]_vars,
           NEW c \in Conns, NEW e \in DOMAIN ev, conn[c].pc # "none",
           ev[e].stored, ev[e].user = User(c), conn[c].since < e, NotBroughtBy(c, e)
    PROVE  NotBroughtBy(c, e)'
<1>0. /\ conn'[c].process = conn[c].process /\ conn'[c].since = conn[c].since
      /\ ev'[e].process = ev[e].process
  BY ConnsStay, EventsMove DEF SameEnds
<1>1. CASE Reads(c)
  <2>1. CASE conn'[c].replay = "all"
    <3>1. GotNext(c, e)
      BY <1>1, <2>1, ReadInFull DEF IsStored
    <3> QED
      BY <3>1 DEF NotBroughtBy, GotNext
  <2>2. CASE conn'[c].replay # "all"
    BY <1>0, <1>1, <2>2 DEF Reads, NotBroughtBy
  <2> QED
    BY <2>1, <2>2
<1>2. CASE ~Reads(c)
  <2>1. /\ conn'[c].offered = conn[c].offered
        /\ conn'[c].replay = conn[c].replay \/ conn'[c].replay = "part"
    BY <1>2, ConnMoves DEF Steady, Offers, Takes, Subscribe
  <2>2. ASSUME Got(c, e) PROVE NotBroughtBy(c, e)'
    <3>1. GotNext(c, e) \/ (conn[c].since > 0 /\ conn'[c].replay = "part")
      BY <2>2, GotKept
    <3> QED
      BY <1>0, <3>1 DEF NotBroughtBy, GotNext
  <2>3. CASE conn[c].process # ev[e].process /\ e \notin conn[c].offered
    BY <1>0, <2>1, <2>3 DEF NotBroughtBy
  <2>4. CASE conn[c].since > 0 /\ conn[c].replay # "all"
    BY <1>0, <2>1, <2>4 DEF NotBroughtBy
  <2> QED
    BY <2>2, <2>3, <2>4 DEF NotBroughtBy, Got
<1> QED
  BY <1>1, <1>2

\* The connection of a tab, and what the tab and it know, before and after a step that
\* does not connect the tab.
LEMMA SameStream ==
    ASSUME HubAssumption, TypeOK, OwnRows, Belong, [Next]_vars,
           NEW t \in Tabs, NEW c \in Conns, tab'[t].conn = c,
           ~ \E p \in Processes : Subscribe(t, c, p)
    PROVE  /\ tab[t].conn = c /\ tab'[t].from = tab[t].from /\ c \in tab[t].conns
           /\ conn[c].pc # "none" /\ conn[c].tab = t /\ conn'[c].since = conn[c].since
<1>1. tab[t].conn = c /\ tab'[t].from = tab[t].from
  BY TabSteps DEF HubAssumption
<1>2. c \in tab[t].conns /\ conn[c].pc # "none" /\ conn[c].tab = t
  BY <1>1 DEF Belong, HubAssumption
<1> QED
  BY <1>1, <1>2, ConnsStay DEF SameEnds

LEMMA InOrderKept ==
    ASSUME HubAssumption, TypeOK, Room, OwnRows, Belong, Replayed, OnlyStored, Arrived,
           InOrder, [Next]_vars
    PROVE  InOrder'
<1> SUFFICES ASSUME NEW t \in Tabs, NEW e \in DOMAIN ev',
                    NEW c \in Conns, tab'[t].conn = c,
                    ev'[e].sent, ~ev'[e].late, ev'[e].user = Owner[t],
                    tab'[t].from < e, conn'[c].since < e,
                    NEW x \in Range(conn'[c].out) \cup conn'[c].past, x > e
             PROVE  NotBroughtBy(c, e)'
  <2>1. \A t \in Tabs : tab'[t].conn # NoConn => tab'[t].conn \in Conns
    BY TypesKept DEF TypeOK, Adapters
  <2> QED
    BY <2>1 DEF InOrder, NotBroughtBy
<1>0. e \in DOMAIN ev /\ ev'[e].user = ev[e].user
  BY EventsMove
<1>1. ~ \E p \in Processes : Subscribe(t, c, p)
  <2>1. ASSUME NEW p \in Processes, Subscribe(t, c, p) PROVE FALSE
    <3>1. Range(conn'[c].out) = {} /\ conn'[c].past = {}
      BY <2>1, SubscribeGives
    <3> QED
      BY <3>1
  <2> QED
    BY <2>1
<1>2. /\ tab[t].conn = c /\ tab'[t].from = tab[t].from /\ c \in tab[t].conns
      /\ conn[c].pc # "none" /\ conn[c].tab = t /\ conn'[c].since = conn[c].since
  BY <1>1, SameStream
<1>3. User(c) = ev[e].user /\ c # NoConn /\ tab[t].from < e /\ conn[c].since < e
  BY <1>0, <1>2 DEF User, HubAssumption
<1>4. ~ \E s \in Tabs, p \in Processes : Subscribe(s, c, p)
  BY <1>2 DEF Subscribe
<1>5. e \in Nat /\ e > 0 /\ \A y \in Range(conn[c].out) \cup conn[c].past : y \in Nat
  <2>1. conn[c].out \in Seq(0 .. MaxEvents) /\ conn[c].past \subseteq Ids
    BY Fields DEF Connections
  <2>2. Range(conn[c].out) \subseteq 0 .. MaxEvents
    BY <2>1 DEF Range
  <2>3. e \in Ids
    BY <1>0, Fields
  <2> QED
    BY <2>1, <2>2, <2>3 DEF Ids, HubAssumption
<1>6. CASE ~ev[e].sent
  <2>1. PICK w \in Publishers : Return(w) /\ pub[w].id = e /\ ev'[e].late = Overtaken(e)
    BY <1>0, <1>6, EventsMove
  <2>2. conn' = conn
    BY <2>1 DEF Return
  <2>3. x # Ping
    BY <1>5, <2>2 DEF Ping
  <2>4. IsStored(x)
    BY <2>2, <2>3 DEF OnlyStored
  <2> QED
    BY <2>1, <2>4 DEF Overtaken, IsStored
<1>7. CASE ev[e].sent
  <2>1. ev[e].stored /\ ~ev[e].late
    BY <1>0, <1>7, EventsMove DEF OwnRows
  <2>2. NotBroughtBy(c, e) => NotBroughtBy(c, e)'
    BY <1>0, <1>2, <1>3, <2>1, ReasonsLast
  <2>3. ASSUME x \in Range(conn[c].out) \cup conn[c].past PROVE NotBroughtBy(c, e)
    BY <1>0, <1>2, <1>3, <1>7, <2>1, <2>3 DEF InOrder, User
  <2>4. ASSUME x \notin Range(conn[c].out) \cup conn[c].past, Reads(c) PROVE NotBroughtBy(c, e)'
    <3>1. CASE conn'[c].replay = "all"
      <4>1. GotNext(c, e)
        BY <1>0, <1>3, <2>1, <2>4, <3>1, ReadInFull DEF IsStored
      <4> QED
        BY <4>1 DEF NotBroughtBy, GotNext
    <3>2. CASE conn'[c].replay # "all"
      BY <1>2, <2>4, <3>2 DEF Reads, NotBroughtBy
    <3> QED
      BY <3>1, <3>2
  <2>5. ASSUME x \notin Range(conn[c].out) \cup conn[c].past, ~Reads(c) PROVE NotBroughtBy(c, e)
    <3>1. ~Steady(c)
      BY <2>5 DEF Steady
    <3>2. ~Offers(c)
      BY <2>5 DEF Offers
    <3>3. ~Takes(c, Ping)
      BY <1>5, <2>5 DEF Takes, Ping
    <3>4. PICK w \in Publishers : Send(w, c) /\ Takes(c, pub[w].id)
      BY <1>4, <2>5, <3>1, <3>2, <3>3, ConnMoves
    <3>5. pub[w].id = x /\ ~conn[c].shut
      BY <2>5, <3>4 DEF Takes
    <3>6. Followed(c, e)
      BY <3>4, <3>5 DEF Send, Followed
    <3>7. CASE ev[e].process # conn[c].process
      <4>1. ASSUME e \in conn[c].offered, conn[c].replay = "all" PROVE NotBroughtBy(c, e)
        BY <4>1 DEF Replayed, NotBroughtBy
      <4>2. ASSUME e \in conn[c].offered, conn[c].replay # "all" PROVE NotBroughtBy(c, e)
        BY <4>2 DEF Replayed, NotBroughtBy
      <4> QED
        BY <3>7, <4>1, <4>2 DEF NotBroughtBy
    <3>8. CASE ev[e].process = conn[c].process /\ conn[c].since > 0 /\ conn[c].replay # "all"
      BY <3>8 DEF NotBroughtBy
    <3>9. CASE /\ ev[e].process = conn[c].process
               /\ conn[c].since = 0 \/ conn[c].replay = "all"
      <4>1. conn[c].since > 0 \/ conn[c].since = 0
        BY Fields DEF Connections, HubAssumption
      <4>2. Current(c, e)
        BY <1>2, <1>3 DEF Current
      <4>3. Wanted(c, e)
        BY <1>3, <3>9, <4>1, <4>2 DEF Wanted
      <4>4. Got(c, e)
        BY <1>0, <1>2, <1>7, <2>1, <3>5, <3>6, <4>3 DEF Arrived
      <4> QED
        BY <4>4 DEF Got, NotBroughtBy
    <3> QED
      <4>1. conn[c].since > 0 \/ conn[c].since = 0
        BY Fields DEF Connections, HubAssumption
      <4> QED
        BY <3>7, <3>8, <3>9, <4>1
  <2> QED
    BY <2>2, <2>3, <2>4, <2>5
<1> QED
  BY <1>6, <1>7

\* An event that was behind the cursor of a tab, and had its reason, has one after a step.
LEMMA ExplainedStays ==
    ASSUME HubAssumption, TypeOK, OwnRows, Belong, Replayed, OnlyStored, [Next]_vars,
           NEW t \in Tabs, NEW e \in DOMAIN ev, ev[e].stored, ev[e].user = Owner[t],
           tab[t].conns \subseteq tab'[t].conns,
           ev[e].sent \/ (\E i : i > e /\ IsStored(i)),
           Explained(t, e)
    PROVE  Explained(t, e)'
<1>1. CASE ~ev[e].sent
  <2>1. CASE ~ev'[e].sent
    BY <2>1 DEF Explained
  <2>2. CASE ev'[e].sent
    <3>1. ev'[e].late = Overtaken(e)
      BY <1>1, <2>2, EventsMove
    <3>2. Overtaken(e)
      BY <1>1 DEF Overtaken, IsStored
    <3> QED
      BY <3>1, <3>2 DEF Explained
  <2> QED
    BY <2>1, <2>2
<1>2. CASE ev[e].sent /\ ev[e].late
  BY <1>2, EventsMove DEF Explained
<1>3. CASE \E c \in tab[t].conns : conn[c].since < e /\ NotBroughtBy(c, e)
  <2>1. PICK c \in tab[t].conns : conn[c].since < e /\ NotBroughtBy(c, e)
    BY <1>3
  <2>2. c \in Conns /\ conn[c].pc # "none" /\ conn[c].tab = t
    BY Fields DEF Belong, Adapters
  <2>3. User(c) = ev[e].user
    BY <2>2 DEF User
  <2>4. NotBroughtBy(c, e)' /\ conn'[c].since = conn[c].since
    BY <2>1, <2>2, <2>3, ReasonsLast, ConnsStay DEF SameEnds
  <2> QED
    BY <2>1, <2>4 DEF Explained
<1> QED
  BY <1>1, <1>2, <1>3 DEF Explained

LEMMA HolesHaveReasonsKept ==
    ASSUME HubAssumption, TypeOK, Room, OwnRows, Belong, Replayed, OnlyStored, Arrived,
           InOrder, HolesHaveReasons, [Next]_vars
    PROVE  HolesHaveReasons'
<1> SUFFICES ASSUME NEW t \in Tabs, NEW e \in Ids, Behind(t, e)', e \notin tab'[t].seen
             PROVE  Explained(t, e)'
  BY DEF HolesHaveReasons
<1>0. /\ e \in DOMAIN ev' /\ ev'[e].stored /\ ev'[e].user = Owner[t] /\ tab'[t].from < e
      /\ e < tab'[t].last \/ (tab'[t].conn # NoConn /\ e < conn'[tab'[t].conn].since)
  BY DEF Behind
<1>1. e \in DOMAIN ev /\ ev[e].user = Owner[t] /\ e \in Nat /\ e > 0
  BY <1>0, EventsMove DEF Ids
<1>2. CASE ~ev[e].stored
  <2>1. ~ev[e].sent
    BY <1>1, <1>2 DEF OwnRows
  <2>2. PICK w \in Publishers : Commit(w) /\ pub[w].id = e
    BY <1>0, <1>1, <1>2, EventsMove
  <2>3. ASSUME NEW v \in Publishers, Return(v), pub[v].id = e PROVE FALSE
    BY <1>2, <2>3 DEF Return, At, OwnRows, Has
  <2>4. ~ev'[e].sent
    BY <1>1, <2>1, <2>3, EventsMove
  <2> QED
    BY <2>4 DEF Explained
<1>3. CASE ev[e].stored
  <2>0. tab[t] \in Adapters /\ (tab[t].conn # NoConn => tab[t].conn \in Conns)
    BY Fields DEF Adapters
  <2>1. ASSUME Behind(t, e), e \notin tab[t].seen, tab[t].conns \subseteq tab'[t].conns
        PROVE  Explained(t, e)'
    <3>1. Explained(t, e)
      BY <2>1 DEF HolesHaveReasons
    <3>2. \E i : i > e /\ IsStored(i)
      <4>1. CASE e < tab[t].last
        <5>1. tab[t].last \in Nat
          BY <2>0 DEF Adapters, HubAssumption
        <5>2. tab[t].last > 0
          BY <1>1, <4>1, <5>1
        <5> QED
          BY <4>1, <5>2 DEF OnlyStored
      <4>2. CASE tab[t].conn # NoConn /\ e < conn[tab[t].conn].since
        <5>1. conn[tab[t].conn].since \in Nat
          BY <2>0, <4>2, Fields DEF Connections, HubAssumption
        <5>2. conn[tab[t].conn].since > 0
          BY <1>1, <4>2, <5>1
        <5> QED
          BY <4>2, <5>2 DEF OnlyStored
      <4> QED
        BY <2>1, <4>1, <4>2 DEF Behind
    <3> QED
      BY <1>1, <1>3, <2>1, <3>1, <3>2, ExplainedStays
  <2>2. ASSUME tab[t].conn # NoConn
        PROVE  conn'[tab[t].conn].since = conn[tab[t].conn].since
    BY <2>0, <2>2, ConnsStay DEF Belong, SameEnds
  <2>3. CASE tab'[t] = tab[t]
    <3>1. Behind(t, e)
      BY <1>0, <1>1, <1>3, <2>2, <2>3 DEF Behind
    <3> QED
      BY <2>1, <2>3, <3>1
  <2>4. CASE \E c \in Conns, p \in Processes :
                /\ Subscribe(t, c, p)
                /\ tab'[t].conn = c /\ tab'[t].conns = tab[t].conns \cup {c}
                /\ tab'[t].last = tab[t].last /\ tab'[t].seen = tab[t].seen
                /\ tab'[t].from = IF tab[t].last = 0 THEN Len(ev) ELSE tab[t].from
    <3>1. conn'[tab'[t].conn].since = tab[t].last
      <4>1. PICK c \in Conns, p \in Processes : Subscribe(t, c, p) /\ tab'[t].conn = c
        BY <2>4
      <4> QED
        BY <4>1, SubscribeGives
    <3>2. e < tab[t].last
      BY <1>0, <2>4, <3>1
    <3>3. tab[t].last # 0
      BY <1>1, <3>2
    <3>4. Behind(t, e)
      BY <1>0, <1>1, <1>3, <2>4, <3>2, <3>3 DEF Behind
    <3> QED
      BY <2>1, <2>4, <3>4
  <2>5. CASE \E c \in Conns : \E x \in Range(conn[c].out) :
                /\ Write(c) /\ tab[t].conn = c /\ x # Ping
                /\ tab'[t].last = x /\ tab'[t].seen = tab[t].seen \cup {x}
                /\ tab'[t].conn = c /\ tab'[t].conns = tab[t].conns
                /\ tab'[t].from = tab[t].from
    <3>1. PICK c \in Conns : \E x \in Range(conn[c].out) :
                /\ Write(c) /\ tab[t].conn = c /\ x # Ping
                /\ tab'[t].last = x /\ tab'[t].seen = tab[t].seen \cup {x}
                /\ tab'[t].conn = c /\ tab'[t].conns = tab[t].conns
                /\ tab'[t].from = tab[t].from
      BY <2>5
    <3>2. PICK x \in Range(conn[c].out) :
                /\ Write(c) /\ tab[t].conn = c /\ x # Ping
                /\ tab'[t].last = x /\ tab'[t].seen = tab[t].seen \cup {x}
                /\ tab'[t].conn = c /\ tab'[t].conns = tab[t].conns
                /\ tab'[t].from = tab[t].from
      BY <3>1
    <3>3. tab[t].conn # NoConn /\ c \in tab[t].conns /\ conn[c].since \in Nat
          /\ conn'[c].since = conn[c].since
      BY <2>2, <3>2, Fields DEF HubAssumption, Belong, Connections
    <3>4. e \notin tab[t].seen
      BY <3>2
    <3>5. CASE Behind(t, e)
      BY <2>1, <3>2, <3>4, <3>5
    <3>6. CASE ~Behind(t, e)
      <4>1. ~(e < conn[c].since) /\ tab[t].from < e
        BY <1>0, <1>1, <1>3, <3>2, <3>3, <3>6 DEF Behind
      <4>2. e < x
        BY <1>0, <3>2, <3>3, <4>1
      <4>3. e # conn[c].since
        BY <1>1, <3>2, <3>3, <3>4 DEF OnlyStored
      <4>4. conn[c].since < e
        BY <1>1, <3>3, <4>1, <4>3
      <4>5. ev' = ev
        BY <3>2 DEF Write
      <4>6. CASE ~ev[e].sent \/ ev[e].late
        BY <4>5, <4>6 DEF Explained
      <4>7. CASE ev[e].sent /\ ~ev[e].late
        <5>1. NotBroughtBy(c, e)
          BY <1>1, <3>2, <3>3, <4>1, <4>2, <4>4, <4>7 DEF InOrder
        <5>2. conn[c].pc # "none" /\ User(c) = ev[e].user
          BY <1>1, <3>3 DEF Belong, User
        <5>3. NotBroughtBy(c, e)'
          BY <1>1, <1>3, <4>4, <5>1, <5>2, ReasonsLast
        <5> QED
          BY <3>2, <3>3, <4>4, <5>3 DEF Explained
      <4> QED
        BY <4>6, <4>7
    <3> QED
      BY <3>5, <3>6
  <2>6. CASE /\ tab'[t].conn = NoConn /\ tab'[t].conns = tab[t].conns
             /\ tab'[t].last = tab[t].last /\ tab'[t].seen = tab[t].seen
             /\ tab'[t].from = tab[t].from
    <3>1. Behind(t, e)
      BY <1>0, <1>1, <1>3, <2>6 DEF Behind
    <3> QED
      BY <2>1, <2>6, <3>1
  <2>7. CASE tab'[t].conn = NoConn /\ tab'[t].last = 0
    BY <1>0, <1>1, <2>7
  <2> QED
    BY <2>3, <2>4, <2>5, <2>6, <2>7, TabSteps
<1> QED
  BY <1>2, <1>3

-----------------------------------------------------------------------------
(* The theorems *)

LEMMA InvInit == ASSUME HubAssumption, Init PROVE IInv
<1>0. /\ (CHOOSE u \in Users : TRUE) \in Users
      /\ (CHOOSE t \in Tabs : TRUE) \in Tabs
      /\ (CHOOSE p \in Processes : TRUE) \in Processes
  BY DEF HubAssumption
<1>1. TypeOK
  <2>1. \A u \in Users : Quiet(u) \in Publishings
    BY DEF Quiet, Publishings, HubAssumption
  <2>2. \A t \in Tabs, p \in Processes : Unused(t, p) \in Connections
    BY EmptySeq DEF Unused, Connections, HubAssumption
  <2>3. Fresh \in Adapters
    BY DEF Fresh, Adapters, HubAssumption
  <2>4. ev \in Seq(Events) /\ Len(ev) = 0
    BY EmptySeq DEF Init
  <2>5. Len(ev) <= MaxEvents
    BY <2>4 DEF HubAssumption
  <2>6. pub \in [Publishers -> Publishings] /\ conn \in [Conns -> Connections] /\ tab \in [Tabs -> Adapters]
    BY <1>0, <2>1, <2>2, <2>3 DEF Init
  <2>7. subs \in [Processes -> SUBSET Conns] /\ closed \in [Processes -> BOOLEAN] /\ faults \in 0 .. MaxFaults
    BY DEF Init, HubAssumption
  <2> QED
    BY <2>4, <2>5, <2>6, <2>7 DEF TypeOK
<1>2. DOMAIN ev = {} /\ Len(ev) = 0
  BY DEF Init
<1>3. /\ \A w \in Publishers : pub[w].pc = "idle" /\ pub[w].targets = {}
      /\ \A p \in Processes : subs[p] = {}
  BY DEF Init, Quiet
<1>4. \A c \in Conns : /\ conn[c].pc = "none" /\ ~conn[c].shut /\ Range(conn[c].out) = {} /\ conn[c].past = {}
                       /\ conn[c].replay = "none" /\ conn[c].offered = {}
  <2>1. Range(<<>>) = {}
    BY DEF Range
  <2> QED
    BY <2>1 DEF Init, Unused
<1>5. \A t \in Tabs : tab[t].conn = NoConn /\ tab[t].last = 0 /\ tab[t].conns = {} /\ tab[t].from = 0
  BY DEF Init, Fresh
<1>6. Room
  <2>1. Appending = {}
    BY <1>3 DEF Appending, At
  <2>2. IsFiniteSet(Appending) /\ Cardinality(Appending) = 0
    BY <2>1, FS_EmptySet
  <2> QED
    BY <1>2, <2>2 DEF Room, HubAssumption
<1>7. OwnRows /\ Belong
  BY <1>2, <1>3, <1>4, <1>5 DEF OwnRows, Has, Belong
<1>8. Replayed /\ OnlyStored
  BY <1>2, <1>4, <1>5 DEF Replayed, OnlyStored
<1>9. Arrived /\ InOrder /\ HolesHaveReasons
  BY <1>2 DEF Arrived, InOrder, HolesHaveReasons, Behind
<1> QED
  BY <1>1, <1>6, <1>7, <1>8, <1>9 DEF IInv

LEMMA InvKept == ASSUME HubAssumption, IInv, [Next]_vars PROVE IInv'
<1>1. TypeOK'
  BY TypesKept DEF IInv
<1>2. Room'
  BY RoomKept DEF IInv
<1>3. OwnRows'
  BY OwnRowsKept DEF IInv
<1>4. Belong'
  BY BelongKept DEF IInv
<1>5. Replayed'
  BY ReplayedKept DEF IInv
<1>6. OnlyStored'
  BY OnlyStoredKept DEF IInv
<1>7. Arrived'
  BY ArrivedKept DEF IInv
<1>8. InOrder'
  BY InOrderKept DEF IInv
<1>9. HolesHaveReasons'
  BY HolesHaveReasonsKept DEF IInv
<1> QED
  BY <1>1, <1>2, <1>3, <1>4, <1>5, <1>6, <1>7, <1>8, <1>9 DEF IInv

LEMMA Invariance == Spec => []IInv
<1>1. Init => IInv
  BY HubAssumption, InvInit
<1>2. IInv /\ [Next]_vars => IInv'
  BY HubAssumption, InvKept
<1> QED
  BY <1>1, <1>2, PTL DEF Spec

\* Whatever the publishers, the connections, the processes and the tabs do, in any order,
\* and whatever fails, the state is well typed; above all no id is assigned beyond those
\* there are, and no channel holds what is not an event or a ping.
THEOREM HubTypeCorrect == Spec => []TypeOK
<1>1. IInv => TypeOK
  BY DEF IInv
<1> QED
  BY <1>1, Invariance, PTL

\* A connection that resumes and whose replay was read in full has, or dropped for want
\* of room, every event of its user after its cursor that was in the database then or
\* that its process has published since: subscribing before reading leaves no gap
\* (hub.go, Subscribe), for any number of publishers that append and fan out meanwhile.
THEOREM ResumesWithoutGap == Spec => []NothingFallsBetween
<1>1. ASSUME IInv PROVE NothingFallsBetween
  <2> SUFFICES ASSUME NEW c \in Conns, NEW e \in DOMAIN ev,
                      conn[c].pc \in {"offer", "serve"}, conn[c].replay = "all",
                      ~conn[c].shut, c \in subs[conn[c].process],
                      e > conn[c].since, ev[e].user = User(c),
                      e \in conn[c].offered \/ (ev[e].sent /\ ev[e].process = conn[c].process)
               PROVE  Got(c, e)
    BY DEF NothingFallsBetween, Got
  <2>1. CASE e \in conn[c].offered
    BY <1>1, <2>1 DEF IInv, Replayed, Got
  <2>2. CASE ev[e].sent /\ ev[e].process = conn[c].process
    <3>1. conn[c].since > 0
      BY <1>1 DEF IInv, Replayed
    <3>2. conn[c].since \in Nat /\ e \in Nat
      <4>1. conn[c] \in Connections /\ e \in Ids
        BY <1>1, Fields, HubAssumption DEF IInv
      <4> QED
        BY <4>1, HubAssumption DEF Connections, Ids
    <3>3. Wanted(c, e) /\ PassedOn(c, e)
      BY <2>2, <3>1, <3>2 DEF Wanted, PassedOn
    <3> QED
      BY <1>1, <3>3 DEF IInv, Arrived
  <2> QED
    BY <2>1, <2>2
<1> QED
  BY <1>1, Invariance, PTL

\* The id a tab resumes after stands for all that came before it: an event of its user
\* that it has passed and never got was sent too late or not at all by its own Publish,
\* or a connection of this adapter, named by its cursor, had a reason not to bring it.
THEOREM HolesAreExplained == Spec => []HolesExplained
<1>1. ASSUME IInv PROVE HolesExplained
  <2> SUFFICES ASSUME NEW t \in Tabs, NEW e \in DOMAIN ev,
                      ev[e].stored, ev[e].user = Owner[t],
                      tab[t].from < e, e < tab[t].last, e \notin tab[t].seen
               PROVE  Explained(t, e)
    BY DEF HolesExplained, Explained
  <2>1. e \in Ids
    BY <1>1, Fields, HubAssumption DEF IInv
  <2>2. Behind(t, e)
    BY DEF Behind
  <2> QED
    BY <1>1, <2>1, <2>2 DEF IInv, HolesHaveReasons
<1> QED
  BY <1>1, Invariance, PTL

\* No step of anybody puts anything into a channel that is closed, although publishers
\* still hold targets that were closed after they collected them (hub.go, subscriber).
THEOREM NoSendOnClosed == Spec => ClosedTakesNothing
<1>1. ASSUME IInv, [Next]_vars
      PROVE  \A c \in Conns : conn[c].shut => conn'[c].out = conn[c].out
  <2>1. SUFFICES ASSUME NEW c \in Conns, conn[c].shut PROVE conn'[c].out = conn[c].out
    OBVIOUS
  <2>2. CASE \E t \in Tabs, p \in Processes : Subscribe(t, c, p)
    BY <1>1, <2>1, <2>2 DEF IInv, Belong, Subscribe
  <2>3. CASE Steady(c) \/ Reads(c) \/ Offers(c)
    BY <2>1, <2>3 DEF Steady, Reads, Offers
  <2>4. \A e : ~Takes(c, e)
    BY <2>1 DEF Takes
  <2> QED
    BY <1>1, <2>2, <2>3, <2>4, ConnMoves, HubAssumption DEF IInv
<1>2. [Next]_vars /\ IInv => [\A c \in Conns : conn[c].shut => conn'[c].out = conn[c].out]_vars
  BY <1>1
<1> QED
  BY <1>2, Invariance, PTL DEF Spec, ClosedTakesNothing
=============================================================================
