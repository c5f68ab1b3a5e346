------------------------------- MODULE Canvas -------------------------------
(***************************************************************************)
(* One project: its row, its cards and the log canvas_ops                  *)
(* (store/mysql/canvas.go), the browser tabs that edit it                  *)
(* (canvas/useCanvasSync.ts, handlers_canvas.go) and the results of tasks  *)
(* that the executor writes onto its cards.  ApplyOps and SetCardResult    *)
(* lock the row of the project first, and a Snapshot is one transaction at *)
(* REPEATABLE READ: each of them is one step.                              *)
(***************************************************************************)
EXTENDS CanvasOps, FiniteSets

CONSTANTS
    Tabs,
    Handlers,       \* calls of handlers that write to the canvas (see CanvasChat)
    Executor,       \* the author of task results
    MaxRevision,    \* bound: how often the canvas changes
    MaxFaults       \* bound: lost messages, crashes, deletions of the project

Authors == Tabs \cup Handlers \cup {Executor}

ASSUME CanvasAssumption ==
    /\ Tabs \cap Handlers = {} /\ Executor \notin Tabs \cup Handlers
    /\ MaxRevision \in Nat
    /\ MaxFaults \in Nat

VARIABLES
    trashed,    \* projects.deleted_at is set
    revision,   \* projects.revision
    canvas,     \* canvas_cards that are not deleted, projects.viewport
    log,        \* canvas_ops: row i has revision i.  by is history
    given,      \* history: the ids that cards have been created under
    tab,        \* tab[t]: what useCanvasSync of tab t holds
    faults      \* history

canvasVars == <<trashed, revision, canvas, log, given, tab, faults>>

\* rev is the revision in the query cache.  patch is the request in flight with
\* its base, then its answer; seen is history: how many rows the log had when the
\* cards on the screen were read.
Requests == [st : {"none", "sent", "ok", "failed", "resync"}, rev : Nat, seen : Nat]
Reads == [st : {"none", "read"}, rev : Nat, seen : Nat]
TabStates == [rev : Nat, seen : Nat, patch : Requests, fetch : Reads]

NoRequest == [st |-> "none", rev |-> 0, seen |-> 0]
NoRead == [st |-> "none", rev |-> 0, seen |-> 0]

EmptyCanvas == [cards |-> [c \in {} |-> 0], zoom |-> 0]

CanvasInit ==
    /\ trashed = FALSE
    /\ revision = 0
    /\ canvas = EmptyCanvas
    /\ log = <<>>
    /\ given = {}
    /\ tab = [t \in Tabs |-> [rev |-> 0, seen |-> 0, patch |-> NoRequest, fetch |-> NoRead]]
    /\ faults = 0

----------------------------------------------------------------------------
(* The repository.                                                         *)

\* May ApplyOps take a batch?  The row is locked from here to the commit.
Accepts(base, ops) ==
    /\ ~trashed
    /\ revision = base
    /\ BatchAllowed(canvas, ops)

Made(ops) == {ops[i].id : i \in {j \in DOMAIN ops : ops[j].type = "card.create"}}

\* A batch without operations leaves the revision alone.
CommitBatch(by, ops) ==
    IF ops = <<>> THEN UNCHANGED <<canvas, revision, log, given>>
    ELSE /\ canvas' = AfterBatch(canvas, ops)
         /\ given' = given \cup Made(ops)
         /\ revision' = revision + 1
         /\ log' = Append(log, [by |-> by, ops |-> ops])

RevisionAfter(ops) == IF ops = <<>> THEN revision ELSE revision + 1

\* SetCardResult: nil without an effect when the project or the card is gone.
ResultUnbumped(c, asset) ==     \* Mutant: a result leaves the revision alone
    /\ canvas' = PutCard(canvas, c, WithResult(canvas.cards[c], asset))
    /\ log' = Append(log, [by |-> Executor, ops |-> <<UpdateOp(c, [asset |-> asset])>>])
    /\ UNCHANGED revision

ResultUnlogged(c, asset) ==     \* Mutant: a result is no operation
    /\ canvas' = PutCard(canvas, c, WithResult(canvas.cards[c], asset))
    /\ revision' = revision + 1
    /\ UNCHANGED log

CommitResult(c, asset) ==
    /\ canvas' = PutCard(canvas, c, WithResult(canvas.cards[c], asset))
    /\ revision' = revision + 1
    /\ log' = Append(log, [by |-> Executor, ops |-> <<UpdateOp(c, [asset |-> asset])>>])

SetCardResult(c, asset) ==
    /\ revision < MaxRevision
    /\ ~trashed
    /\ c \in DOMAIN canvas.cards
    /\ CommitResult(c, asset)
    /\ UNCHANGED <<trashed, given, tab, faults>>

\* DeleteProject, RestoreProject: soft, and the revision stays.
Trash ==
    /\ ~trashed /\ faults < MaxFaults
    /\ trashed' = TRUE
    /\ faults' = faults + 1
    /\ UNCHANGED <<revision, canvas, log, given, tab>>

Restore ==
    /\ trashed
    /\ trashed' = FALSE
    /\ UNCHANGED <<revision, canvas, log, given, tab, faults>>

----------------------------------------------------------------------------
(* What a user does to the cards.  A new card gets an id of its own.       *)

FreshCards == Cards \ given

NewCard(text, params, auto) ==
    [text |-> text, params |-> params, versions |-> <<>>, asset |-> NoAsset,
     history |-> <<>>, place |-> CHOOSE p \in Places : TRUE, auto |-> auto]

Creations == {CreateOp(c, NewCard(EmptyText, p, FALSE)) : c \in FreshCards, p \in Params}

\* The text of a script, the params of another card; the version switch offers
\* what the history holds.
Patches(c) ==
    (IF KindOf[c] = "script" THEN {[text |-> x] : x \in Texts} ELSE {[params |-> p] : p \in Params})
        \cup {[asset |-> canvas.cards[c].history[i]] : i \in DOMAIN canvas.cards[c].history}

Updates == UNION {{UpdateOp(c, p) : p \in Patches(c)} : c \in DOMAIN canvas.cards}
Moves == {MoveOp(c, p) : c \in DOMAIN canvas.cards, p \in Places}
Deletions == {DeleteOp(c) : c \in given}
Zoomings == {ViewportOp(z) : z \in Zooms}

Edits == Creations \cup Updates \cup Moves \cup Deletions \cup Zoomings

\* What was enqueued within the 500 ms: one operation, or a card and a change of it.
Batches == {<<a>> : a \in Edits}
               \cup {<<a, UpdateOp(a.id, [text |-> x])>> : a \in Creations, x \in Texts \ {EmptyText}}

----------------------------------------------------------------------------
(* A tab.                                                                  *)

SetPatch(t, st, rev) == tab' = [tab EXCEPT ![t].patch.st = st, ![t].patch.rev = rev]

\* flush: never two requests at a time.
Flush(t) ==
    /\ tab[t].patch.st = "none"
    /\ tab' = [tab EXCEPT ![t].patch = [st |-> "sent", rev |-> tab[t].rev, seen |-> tab[t].seen]]
    /\ UNCHANGED <<trashed, revision, canvas, log, given, faults>>

\* handlePatchCanvas accepts or answers 409, 404 or 400.
Patch(t) ==
    /\ tab[t].patch.st = "sent"
    /\ \E ops \in Batches :
          IF Accepts(tab[t].patch.rev, ops)
          THEN /\ revision < MaxRevision
               /\ CommitBatch(t, ops)
               /\ SetPatch(t, "ok", RevisionAfter(ops))
          ELSE /\ SetPatch(t, "failed", 0)
               /\ UNCHANGED <<canvas, revision, log, given>>
    /\ UNCHANGED <<trashed, faults>>

\* The request or its answer is lost.
Lose(t) ==
    /\ faults < MaxFaults
    /\ tab[t].patch.st \in {"sent", "ok"}
    /\ SetPatch(t, "failed", 0)
    /\ faults' = faults + 1
    /\ UNCHANGED <<trashed, revision, canvas, log, given>>

\* The answer: the revision moves on, and the cards on the screen stay.
Answered(t) ==
    /\ tab[t].patch.st = "ok"
    /\ tab' = [tab EXCEPT ![t].rev = tab[t].patch.rev, ![t].patch = NoRequest]
    /\ UNCHANGED <<trashed, revision, canvas, log, given, faults>>

\* catch: invalidateQueries cancels a read under way and starts another.
Invalidate(t) ==
    /\ tab[t].patch.st = "failed"
    /\ tab' = [tab EXCEPT ![t].patch = [NoRequest EXCEPT !.st = "resync"], ![t].fetch = NoRead]
    /\ UNCHANGED <<trashed, revision, canvas, log, given, faults>>

\* Snapshot, for a resync or because an event says that a card has changed.
Snapshot == [rev |-> revision, seen |-> Len(log)]

Fetch(t) ==
    /\ ~trashed
    /\ tab' = [tab EXCEPT ![t].fetch = [st |-> "read", rev |-> Snapshot.rev, seen |-> Snapshot.seen]]
    /\ UNCHANGED <<trashed, revision, canvas, log, given, faults>>

Resynced(t) == IF tab[t].patch.st = "resync" THEN NoRequest ELSE tab[t].patch

\* The snapshot replaces all that the tab shows.
Arrive(t) ==
    /\ tab[t].fetch.st = "read"
    /\ tab' = [tab EXCEPT ![t] = [rev |-> tab[t].fetch.rev, seen |-> tab[t].fetch.seen,
                                  patch |-> Resynced(t), fetch |-> NoRead]]
    /\ UNCHANGED <<trashed, revision, canvas, log, given, faults>>

\* The read fails, and with it the resync: what the tab shows stays.
FetchFails(t) ==
    /\ tab[t].patch.st = "resync" \/ tab[t].fetch.st = "read"
    /\ \/ trashed /\ tab[t].fetch.st = "none" /\ UNCHANGED faults
       \/ faults < MaxFaults /\ faults' = faults + 1
    /\ tab' = [tab EXCEPT ![t].patch = Resynced(t), ![t].fetch = NoRead]
    /\ UNCHANGED <<trashed, revision, canvas, log, given>>

CanvasNext ==
    \/ Trash \/ Restore
    \/ \E c \in Cards, a \in Assets : SetCardResult(c, a)
    \/ \E t \in Tabs : Flush(t) \/ Patch(t) \/ Lose(t) \/ Answered(t) \/ Invalidate(t)
                       \/ Fetch(t) \/ Arrive(t) \/ FetchFails(t)
=============================================================================
