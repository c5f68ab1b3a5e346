-------------------------------- MODULE Hub --------------------------------
(***************************************************************************)
(* The event stream: task_events (event.go), the Broker of each process    *)
(* (hub.go), the handler of an SSE connection (handlers_stream.go, sse.go) *)
(* and the browser that resumes it (adapters.ts).  A publisher, a          *)
(* subscription, the removal of one and the closing of the hub each take   *)
(* several steps, with h.mu or s.mu held within one step at most.          *)
(***************************************************************************)
EXTENDS Integers, Sequences, FiniteSets, Functions

CONSTANTS
    Users, Tabs, Processes,
    Publishers,     \* goroutines that call Publish
    Conns,          \* bound: each is a connection a tab may make once
    Owner,          \* Owner[t]: the user who opened tab t
    Home,           \* Home[w]: the process of publisher w
    Buffer,         \* the capacity of a subscriber's channel
    ReplayLimit,    \* how many events a replay has at most
    MaxEvents,      \* bound: how many ids there are
    MaxFaults,      \* bound: pings, failures of the database, crashes
    NoConn

ASSUME HubAssumption ==
    /\ Users # {} /\ Tabs # {} /\ Processes # {}
    /\ Owner \in [Tabs -> Users]
    /\ Home \in [Publishers -> Processes]
    /\ Buffer \in Nat \ {0}
    /\ ReplayLimit \in Nat \ {0}
    /\ MaxEvents \in Nat
    /\ MaxFaults \in Nat
    /\ NoConn \notin Conns

VARIABLES
    ev,         \* ev[i]: the row with id i, once the id is assigned
    pub,        \* pub[w]: the call of Publish that w is in
    conn,       \* conn[c]: connection c and its subscriber
    subs,       \* subs[p]: h.subs of process p
    closed,     \* closed[p]: h.closed
    tab,        \* tab[t]: the stream adapter of tab t
    faults      \* history

vars == <<ev, pub, conn, subs, closed, tab, faults>>

Ids == 1 .. MaxEvents

\* A ping has no id.
Ping == 0

\* History: has Publish returned nil, and was an event with a later id in the
\* database by then?
Events == [user : Users, process : Processes, stored : BOOLEAN, sent : BOOLEAN, late : BOOLEAN]

Publishings == [pc : {"idle", "append", "insert", "fanout", "send"},
                user : Users, id : 0 .. MaxEvents, targets : SUBSET Conns]

\* out is all that was put into the channel, read how much of it was taken out;
\* past is what is left to offer of the replay.  lost, replay and offered are
\* history: what did not fit, how the replay went, and what it was to offer.
Connections == [pc : {"none", "list", "offer", "serve", "end"},
                tab : Tabs, process : Processes, since : 0 .. MaxEvents,
                out : Seq(0 .. MaxEvents), read : Nat, past : SUBSET Ids,
                shut : BOOLEAN,
                lost : SUBSET Ids, replay : {"none", "all", "part", "failed"},
                offered : SUBSET Ids]

\* last is lastEventId (0: null); conns and from are history: the connections of this
\* adapter, and how many ids there were when it last connected without one.
Adapters == [conn : Conns \cup {NoConn}, last : 0 .. MaxEvents, seen : SUBSET Ids,
             conns : SUBSET Conns, from : 0 .. MaxEvents]

TypeOK ==
    /\ ev \in Seq(Events) /\ Len(ev) <= MaxEvents
    /\ pub \in [Publishers -> Publishings]
    /\ conn \in [Conns -> Connections]
    /\ subs \in [Processes -> SUBSET Conns]
    /\ closed \in [Processes -> BOOLEAN]
    /\ tab \in [Tabs -> Adapters]
    /\ faults \in 0 .. MaxFaults

Quiet(u) == [pc |-> "idle", user |-> u, id |-> 0, targets |-> {}]
Unused(t, p) ==
    [pc |-> "none", tab |-> t, process |-> p, since |-> 0, out |-> <<>>, read |-> 0,
     past |-> {}, shut |-> FALSE,
     lost |-> {}, replay |-> "none", offered |-> {}]
Fresh == [conn |-> NoConn, last |-> 0, seen |-> {}, conns |-> {}, from |-> 0]

Init ==
    /\ ev = <<>>
    /\ pub = [w \in Publishers |-> Quiet(CHOOSE u \in Users : TRUE)]
    /\ conn = [c \in Conns |-> Unused(CHOOSE t \in Tabs : TRUE, CHOOSE p \in Processes : TRUE)]
    /\ subs = [p \in Processes |-> {}]
    /\ closed = [p \in Processes |-> FALSE]
    /\ tab = [t \in Tabs |-> Fresh]
    /\ faults = 0

Fault == faults < MaxFaults /\ faults' = faults + 1
User(c) == Owner[conn[c].tab]
Set(c, r) == conn' = [conn EXCEPT ![c] = r]
Queue(c) == SubSeq(conn[c].out, conn[c].read + 1, Len(conn[c].out))

\* Mutant: a subscriber that was closed is sent to.
SentBlindly(r, e) ==
    IF Len(r.out) - r.read < Buffer THEN [r EXCEPT !.out = Append(@, e)]
    ELSE [r EXCEPT !.lost = @ \cup ({e} \ {Ping})]

\* subscriber.send, under s.mu: it never waits.
Sent(r, e) ==
    IF r.shut THEN r
    ELSE IF Len(r.out) - r.read < Buffer THEN [r EXCEPT !.out = Append(@, e)]
    ELSE [r EXCEPT !.lost = @ \cup ({e} \ {Ping})]

-----------------------------------------------------------------------------
(* Publish *)

At(w, pc) == pub[w].pc = pc
Call(w, r) == pub' = [pub EXCEPT ![w] = r]
Overtaken(e) == \E i \in DOMAIN ev : i > e /\ ev[i].stored

\* Up to the check of h.closed.
Publish(w, u) ==
    /\ At(w, "idle")
    /\ ~closed[Home[w]]
    /\ Len(ev) + Cardinality({v \in Publishers : At(v, "append")}) < MaxEvents
    /\ Call(w, [Quiet(u) EXCEPT !.pc = "append"])
    /\ UNCHANGED <<ev, conn, subs, closed, tab, faults>>

\* INSERT: the id is assigned before the row can be seen.
AppendEvent(w) ==
    /\ At(w, "append")
    /\ ev' = Append(ev, [user |-> pub[w].user, process |-> Home[w],
                         stored |-> FALSE, sent |-> FALSE, late |-> FALSE])
    /\ Call(w, [pub[w] EXCEPT !.pc = "insert", !.id = Len(ev')])
    /\ UNCHANGED <<conn, subs, closed, tab, faults>>

Commit(w) ==
    /\ At(w, "insert")
    /\ ev' = [ev EXCEPT ![pub[w].id].stored = TRUE]
    /\ Call(w, [pub[w] EXCEPT !.pc = "fanout"])
    /\ UNCHANGED <<conn, subs, closed, tab, faults>>

\* Append fails; so does Publish, and nothing is sent.
AppendFails(w) ==
    /\ At(w, "insert")
    /\ Fault
    /\ Call(w, Quiet(pub[w].user))
    /\ UNCHANGED <<ev, conn, subs, closed, tab>>

\* Mutant: a subscription whose replay is not done is no target.
FanoutToReaders(w) ==
    /\ At(w, "fanout")
    /\ Call(w, [pub[w] EXCEPT !.pc = "send",
                   !.targets = {c \in subs[Home[w]] : User(c) = pub[w].user /\ conn[c].pc = "serve"}])
    /\ UNCHANGED <<ev, conn, subs, closed, tab, faults>>

\* fanout: the targets are collected under h.mu,
Fanout(w) ==
    /\ At(w, "fanout")
    /\ Call(w, [pub[w] EXCEPT !.pc = "send",
                   !.targets = {c \in subs[Home[w]] : User(c) = pub[w].user}])
    /\ UNCHANGED <<ev, conn, subs, closed, tab, faults>>

\* and then sent to, one after the other, in the order of a Go map.
Send(w, c) ==
    /\ At(w, "send")
    /\ c \in pub[w].targets
    /\ Set(c, Sent(conn[c], pub[w].id))
    /\ Call(w, [pub[w] EXCEPT !.targets = @ \ {c}])
    /\ UNCHANGED <<ev, subs, closed, tab, faults>>

Return(w) ==
    /\ At(w, "send")
    /\ pub[w].targets = {}
    /\ ev' = [ev EXCEPT ![pub[w].id].sent = TRUE,
                      ![pub[w].id].late = Overtaken(pub[w].id)]
    /\ Call(w, Quiet(pub[w].user))
    /\ UNCHANGED <<conn, subs, closed, tab, faults>>

-----------------------------------------------------------------------------
(* A connection *)

\* What the handler makes of the header; no header, or none it can parse, is 0.
LastEventID(t) == tab[t].last

\* A tab connects, with the id it got last, and Subscribe registers it under h.mu.
Subscribe(t, c, p) ==
    /\ tab[t].conn = NoConn
    /\ conn[c].pc = "none"
    /\ ~closed[p]
    /\ Set(c, [Unused(t, p) EXCEPT !.pc = "list", !.since = LastEventID(t)])
    /\ subs' = [subs EXCEPT ![p] = @ \cup {c}]
    /\ tab' = [tab EXCEPT ![t].conn = c, ![t].conns = @ \cup {c},
                       ![t].from = IF tab[t].last = 0 THEN Len(ev) ELSE @]
    /\ UNCHANGED <<ev, pub, closed, faults>>

\* Mutant: of a replay, the first event is skipped.
EventsFrom(u, id) == {i \in DOMAIN ev : i > id + 1 /\ ev[i].stored /\ ev[i].user = u}

\* ListAfter, without its limit: what the database shows now.
EventsAfter(u, id) == {i \in DOMAIN ev : i > id /\ ev[i].stored /\ ev[i].user = u}

\* ORDER BY id LIMIT n.
First(S, n) == {i \in S : Cardinality({k \in S : k <= i}) <= n}

\* The replay is read, or there is none, or it cannot be read.
ListAfter(c) ==
    /\ conn[c].pc = "list"
    /\ LET all == EventsAfter(User(c), conn[c].since)
           past == First(all, ReplayLimit)
       IN  \/ /\ conn[c].since = 0
              /\ Set(c, [conn[c] EXCEPT !.pc = "offer"])
              /\ UNCHANGED faults
           \/ /\ conn[c].since > 0
              /\ Set(c, [conn[c] EXCEPT !.pc = "offer", !.past = past, !.offered = past,
                            !.replay = IF past = all THEN "all" ELSE "part"])
              /\ UNCHANGED faults
           \/ /\ conn[c].since > 0
              /\ Fault
              /\ Set(c, [conn[c] EXCEPT !.pc = "offer", !.replay = "failed"])
    /\ UNCHANGED <<ev, pub, subs, closed, tab>>

\* The events of the replay are offered in order; the first that is not taken ends it.
Offer(c) ==
    /\ conn[c].pc = "offer"
    /\ \E e \in conn[c].past :
          /\ \A i \in conn[c].past : e <= i
          /\ LET r == Sent(conn[c], e)
             IN  Set(c, IF Len(r.out) > Len(conn[c].out)
                        THEN [r EXCEPT !.past = @ \ {e}]
                        ELSE [r EXCEPT !.past = {}, !.replay = "part"])
    /\ UNCHANGED <<ev, pub, subs, closed, tab, faults>>

\* Subscribe returns, and the handler begins to read.
Serve(c) ==
    /\ conn[c].pc = "offer"
    /\ conn[c].past = {}
    /\ Set(c, [conn[c] EXCEPT !.pc = "serve"])
    /\ UNCHANGED <<ev, pub, subs, closed, tab, faults>>

\* pingLoop, from Subscribe on.
SendPing(c) ==
    /\ conn[c].pc = "serve"
    /\ Fault
    /\ Set(c, Sent(conn[c], Ping))
    /\ UNCHANGED <<ev, pub, subs, closed, tab>>

\* Encode writes an id line unless the event is a ping,
HasIdLine(e) == e # Ping

\* and the adapter moves its cursor when it finds one.
Received(a, e) ==
    IF ~HasIdLine(e) THEN a
    ELSE [a EXCEPT !.last = e, !.seen = @ \cup {e}]

\* The handler takes an event out and writes it: to the tab, if that still listens.
Write(c) ==
    /\ conn[c].pc = "serve"
    /\ Queue(c) # <<>>
    /\ Set(c, [conn[c] EXCEPT !.read = @ + 1])
    /\ LET t == conn[c].tab
       IN  tab' = [tab EXCEPT ![t] = IF tab[t].conn = c THEN Received(@, Head(Queue(c))) ELSE @]
    /\ UNCHANGED <<ev, pub, subs, closed, faults>>

\* The context of the request ends: the server has noticed that the client is gone, or
\* the handler has found its channel closed and empty and has returned.  remove takes
\* the subscription out of h.subs and closes it; if the handler is still at work, what
\* it does reaches nobody.
Remove(c) ==
    /\ conn[c].pc \notin {"none", "end"}
    /\ \/ tab[conn[c].tab].conn # c
       \/ conn[c].pc = "serve" /\ conn[c].shut /\ Queue(c) = <<>>
    /\ Set(c, [conn[c] EXCEPT !.pc = "end", !.shut = TRUE])
    /\ subs' = [subs EXCEPT ![conn[c].process] = @ \ {c}]
    /\ UNCHANGED <<ev, pub, closed, tab, faults>>

\* Broker.Close closes a subscriber that it took out.
Shut(c) ==
    /\ conn[c].pc \notin {"none", "end"}
    /\ ~conn[c].shut
    /\ c \notin subs[conn[c].process]
    /\ Set(c, [conn[c] EXCEPT !.shut = TRUE])
    /\ UNCHANGED <<ev, pub, subs, closed, tab, faults>>

\* Broker.Close takes all subscriptions out; Shut closes them one by one.
Close(p) ==
    /\ Fault
    /\ ~closed[p]
    /\ closed' = [closed EXCEPT ![p] = TRUE]
    /\ subs' = [subs EXCEPT ![p] = {}]
    /\ UNCHANGED <<ev, pub, conn, tab>>

\* A process dies: its publishers and connections are gone; it is started again.
Crash(p) ==
    /\ Fault
    /\ pub' = [w \in Publishers |-> IF Home[w] = p THEN Quiet(pub[w].user)
                                    ELSE [pub[w] EXCEPT !.targets = {c \in @ : conn[c].process # p}]]
    /\ conn' = [c \in Conns |->
                   IF conn[c].pc # "none" /\ conn[c].process = p
                   THEN [conn[c] EXCEPT !.pc = "end", !.shut = TRUE]
                   ELSE conn[c]]
    /\ subs' = [subs EXCEPT ![p] = {}]
    /\ closed' = [closed EXCEPT ![p] = FALSE]
    /\ UNCHANGED <<ev, tab>>

-----------------------------------------------------------------------------
(* The browser *)

\* The stream ends or breaks; whatever was on its way is lost.
Break(t) ==
    /\ tab[t].conn # NoConn
    /\ tab' = [tab EXCEPT ![t].conn = NoConn]
    /\ UNCHANGED <<ev, pub, conn, subs, closed, faults>>

\* After MAX_RETRIES failures in a row - how many there were is left out - the tab
\* polls, and a minute later a new adapter starts that knows of no event.
StartOver(t) ==
    /\ tab[t].conn = NoConn
    /\ tab[t].last > 0
    /\ tab' = [tab EXCEPT ![t] = Fresh]
    /\ UNCHANGED <<ev, pub, conn, subs, closed, faults>>

-----------------------------------------------------------------------------
Publishing(w) ==
    \/ \E u \in Users : Publish(w, u)
    \/ AppendEvent(w)
    \/ Commit(w)
    \/ AppendFails(w)
    \/ Fanout(w)
    \/ \E c \in Conns : Send(w, c)
    \/ Return(w)

Serving(c) ==
    \/ ListAfter(c)
    \/ Offer(c)
    \/ Serve(c)
    \/ SendPing(c)
    \/ Write(c)
    \/ Remove(c)
    \/ Shut(c)

Next ==
    \/ \E w \in Publishers : Publishing(w)
    \/ \E t \in Tabs, c \in Conns, p \in Processes : Subscribe(t, c, p)
    \/ \E c \in Conns : Serving(c)
    \/ \E p \in Processes : Close(p) \/ Crash(p)
    \/ \E t \in Tabs : Break(t) \/ StartOver(t)

Spec == Init /\ [][Next]_vars

-----------------------------------------------------------------------------
(* Properties *)

\* A connection that resumes and whose replay was read in full misses no event after
\* its cursor: one that was in the database when the replay was read, or whose Publish
\* has returned in the same process since, is in the channel, or was, or is still to be
\* offered, or it was counted as dropped because the buffer was full.  This is why
\* Subscribe registers before it reads (hub.go, Subscribe).
NothingFallsBetween ==
    \A c \in Conns, e \in DOMAIN ev :
        /\ conn[c].pc \in {"offer", "serve"} /\ conn[c].replay = "all"
        /\ ~conn[c].shut /\ c \in subs[conn[c].process]
        /\ e > conn[c].since
        /\ ev[e].user = User(c)
        /\ e \in conn[c].offered \/ (ev[e].sent /\ ev[e].process = conn[c].process)
        => e \in Range(conn[c].out) \cup conn[c].past \cup conn[c].lost

\* Why connection c did not bring event e to its tab: it was in another process and e
\* was not in its replay; or it dropped e, has it still in its replay (a live event
\* overtook it) or had it in the channel when the stream broke; or its replay was not
\* read, or not in full.
NotBroughtBy(c, e) ==
    \/ conn[c].process # ev[e].process /\ e \notin conn[c].offered
    \/ e \in Range(conn[c].out) \cup conn[c].past \cup conn[c].lost
    \/ conn[c].since > 0 /\ conn[c].replay # "all"

\* If an adapter has passed an event of its user that it never got, by the id it will
\* resume after, then Publish did not get to send it, or not before a later event was in
\* the database; or a connection of the adapter that was to bring it did not.
HolesExplained ==
    \A t \in Tabs, e \in DOMAIN ev :
        /\ ev[e].stored /\ ev[e].user = Owner[t]
        /\ tab[t].from < e /\ e < tab[t].last
        /\ e \notin tab[t].seen
        => \/ ~ev[e].sent
           \/ ev[e].late
           \/ \E c \in tab[t].conns : conn[c].since < e /\ NotBroughtBy(c, e)

\* A channel takes nothing once it is closed - a send would be a panic - although
\* publishers hold targets they collected before (hub.go, subscriber).
ClosedTakesNothing ==
    [][\A c \in Conns : conn[c].shut => conn'[c].out = conn[c].out]_vars

=============================================================================
