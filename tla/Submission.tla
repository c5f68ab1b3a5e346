----------------------------- MODULE Submission -----------------------------
(***************************************************************************)
(* How a generation or a composition is submitted (submitTask in           *)
(* handlers_tasks.go, handleCanvasCompose in compose.go): a series of      *)
(* reads, each of which may refuse the request, and then the row, the hold *)
(* and, for a composition, the card on the canvas.  No lock spans two of   *)
(* them, so several requests of one user go through them side by side,     *)
(* while workers take and end the rows and the browser edits the canvas.   *)
(*                                                                         *)
(* One user, one model with a limit for the generations, one model for the *)
(* compositions, one script on one canvas.  Every row costs Cost.          *)
(***************************************************************************)
EXTENDS Integers, FiniteSets

CONSTANTS
    Requests,       \* requests that are under way at a time
    GenerateTokens, \* client tokens the browser sends with a generation
    ComposeTokens,  \* ... and with a composition
    NoToken,
    MaxConcurrent,  \* limits.max_concurrent_per_user of the model; 0 is no limit
    Credits,        \* what the user has at the start
    Cost,
    MaxEdits,       \* bound: edits of the canvas
    MaxCards,       \* bound: composed cards
    MaxRequeues     \* bound: tasks an administrator queues again

ASSUME SubmissionAssumption ==
    /\ MaxConcurrent \in Nat /\ Credits \in Nat /\ Cost \in Nat
    /\ MaxEdits \in Nat /\ MaxCards \in Nat /\ MaxRequeues \in Nat
    /\ GenerateTokens \cap ComposeTokens = {}
    /\ IsFiniteSet(Requests) /\ IsFiniteSet(GenerateTokens)

VARIABLES
    request,    \* request[r]: where it is and what it has read
    row,        \* row[k]: the status of the task with client token k
    held,       \* held[k]: how often credits were held for token k
    available,  \* credits that are not held
    requeued,   \* history: tokens whose task was queued again
    composed,   \* the live cards that hold a composition of the script
    cardsMade,  \* how many such cards there have been
    canvasRev   \* canvases.revision

submissionVars == <<request, row, held, available, requeued, composed, cardsMade, canvasRev>>

Tokens == GenerateTokens \cup ComposeTokens

\* seenRev, seenCard: the snapshot a composition has read (card 0: there was none).
Submitting == [pc : {"idle", "lookup", "count", "balance", "snapshot", "card", "create", "hold", "unheld"},
               token : Tokens \cup {NoToken}, seenRev : Nat, seenCard : Nat, ofScript : BOOLEAN]

Unsent == [pc |-> "idle", token |-> NoToken, seenRev |-> 0, seenCard |-> 0, ofScript |-> FALSE]

SubmissionInit ==
    /\ request = [r \in Requests |-> Unsent]
    /\ row = [k \in Tokens |-> "none"]
    /\ held = [k \in Tokens |-> 0]
    /\ available = Credits
    /\ requeued = {}
    /\ composed = {}
    /\ cardsMade = 0
    /\ canvasRev = 0

Active(k) == row[k] \in {"queued", "running"}

\* A mutant: a task that waits in the queue does not count.
RunningOnly == {k \in GenerateTokens : row[k] = "running"}

\* CountRunningByModel.
RunningByModel == {k \in GenerateTokens : Active(k)}

At(r, pc) == request[r].pc = pc
Goto(r, pc) == request' = [request EXCEPT ![r].pc = pc]
Answer(r) == request' = [request EXCEPT ![r] = Unsent]

----------------------------------------------------------------------------
(* The reads.                                                              *)

\* The browser sends a token, also one it has sent before.
Submit(r, k) ==
    /\ At(r, "idle")
    /\ request' = [request EXCEPT ![r].pc = "lookup", ![r].token = k]
    /\ UNCHANGED <<row, held, available, requeued, composed, cardsMade, canvasRev>>

\* GetByClientToken: a task that is there already is the answer.
Lookup(r) ==
    /\ At(r, "lookup")
    /\ LET k == request[r].token IN
       IF row[k] # "none" THEN Answer(r)
       ELSE Goto(r, IF k \in ComposeTokens THEN "snapshot" ELSE "count")
    /\ UNCHANGED <<row, held, available, requeued, composed, cardsMade, canvasRev>>

\* The model is disabled, a field or an input is wrong, a card has no asset or a foreign one.
Refuse(r) ==
    /\ request[r].pc \in {"count", "snapshot", "balance"}
    /\ Answer(r)
    /\ UNCHANGED <<row, held, available, requeued, composed, cardsMade, canvasRev>>

Count(r) ==
    /\ At(r, "count")
    /\ IF MaxConcurrent > 0 /\ Cardinality(RunningByModel) >= MaxConcurrent
       THEN Answer(r) ELSE Goto(r, "balance")
    /\ UNCHANGED <<row, held, available, requeued, composed, cardsMade, canvasRev>>

\* The first pick is a shot whose first ref is the script (scriptOfPicks), or it
\* is not; composedCardOf finds the first card there is.
Snapshot(r) ==
    /\ At(r, "snapshot")
    /\ \E script \in BOOLEAN, c \in IF composed = {} THEN {0} ELSE composed :
          /\ \A d \in composed : c <= d
          /\ request' = [request EXCEPT ![r] = [@ EXCEPT !.pc = "balance", !.seenRev = canvasRev,
                                                       !.seenCard = c, !.ofScript = script]]
    /\ UNCHANGED <<row, held, available, requeued, composed, cardsMade, canvasRev>>

\* Only a composition of a script that has no card yet makes one.
AfterBalance(r) ==
    IF request[r].ofScript /\ request[r].seenCard = 0 THEN "card" ELSE "create"

\* Balance: too little is refused; a read that fails refuses nothing.
Balance(r) ==
    /\ At(r, "balance")
    /\ \/ available < Cost /\ Answer(r)
       \/ Goto(r, AfterBalance(r))
    /\ UNCHANGED <<row, held, available, requeued, composed, cardsMade, canvasRev>>

----------------------------------------------------------------------------
(* The writes.                                                             *)

\* A mutant: the revision is read again just before the card is made.
CreateCardRebased(r) ==
    /\ At(r, "card")
    /\ cardsMade < MaxCards
    /\ composed' = composed \cup {cardsMade + 1}
    /\ cardsMade' = cardsMade + 1
    /\ canvasRev' = canvasRev + 1
    /\ Goto(r, "create")
    /\ UNCHANGED <<row, held, available, requeued>>

\* Canvas.Apply under the revision of the snapshot: any edit since then is a conflict.
CreateCard(r) ==
    /\ At(r, "card")
    /\ IF request[r].seenRev # canvasRev
       THEN /\ Answer(r)
            /\ UNCHANGED <<composed, cardsMade, canvasRev>>
       ELSE /\ cardsMade < MaxCards
            /\ composed' = composed \cup {cardsMade + 1}
            /\ cardsMade' = cardsMade + 1
            /\ canvasRev' = canvasRev + 1
            /\ Goto(r, "create")
    /\ UNCHANGED <<row, held, available, requeued>>

\* A mutant: the table has no such key.
CreateAnyway(r) ==
    /\ At(r, "create")
    /\ Goto(r, "hold")
    /\ row' = [row EXCEPT ![request[r].token] = "queued"]
    /\ UNCHANGED <<held, available, requeued, composed, cardsMade, canvasRev>>

\* TaskRepo.Create: (user_id, client_token) is unique.
Create(r) ==
    /\ At(r, "create")
    /\ LET k == request[r].token IN
       IF row[k] # "none"
       THEN Answer(r) /\ UNCHANGED row
       ELSE Goto(r, "hold") /\ row' = [row EXCEPT ![k] = "queued"]
    /\ UNCHANGED <<held, available, requeued, composed, cardsMade, canvasRev>>

Hold(r) ==
    /\ At(r, "hold")
    /\ LET k == request[r].token IN
       IF available >= Cost
       THEN /\ held' = [held EXCEPT ![k] = @ + 1]
            /\ available' = available - Cost
            /\ Answer(r)
       ELSE Goto(r, "unheld") /\ UNCHANGED <<held, available>>
    /\ UNCHANGED <<row, requeued, composed, cardsMade, canvasRev>>

\* The hold failed: the task fails if no worker has taken it.
Compensate(r) ==
    /\ At(r, "unheld")
    /\ LET k == request[r].token IN
       row' = IF row[k] = "queued" THEN [row EXCEPT ![k] = "ended"] ELSE row
    /\ Answer(r)
    /\ UNCHANGED <<held, available, requeued, composed, cardsMade, canvasRev>>

----------------------------------------------------------------------------
(* Everybody else.                                                         *)

\* A worker claims a row, at any time after it is there.
ClaimRow(k) ==
    /\ row[k] = "queued"
    /\ row' = [row EXCEPT ![k] = "running"]
    /\ UNCHANGED <<request, held, available, requeued, composed, cardsMade, canvasRev>>

\* It succeeds, or it fails or is canceled and the hold comes back.
EndRow(k) ==
    /\ Active(k)
    /\ row' = [row EXCEPT ![k] = "ended"]
    /\ available' \in {available, IF held[k] > 0 THEN available + Cost ELSE available}
    /\ UNCHANGED <<request, held, requeued, composed, cardsMade, canvasRev>>

\* handleAdminRetryTask asks for no limit.
RequeueRow(k) ==
    /\ row[k] = "ended"
    /\ k \notin requeued /\ Cardinality(requeued) < MaxRequeues
    /\ row' = [row EXCEPT ![k] = "queued"]
    /\ requeued' = requeued \cup {k}
    /\ UNCHANGED <<request, held, available, composed, cardsMade, canvasRev>>

\* A batch of the browser: it may delete the card or bring a deleted one back.
Edit ==
    /\ canvasRev < MaxEdits
    /\ canvasRev' = canvasRev + 1
    /\ \E c \in 1 .. cardsMade : composed' \in {composed, composed \ {c}, composed \cup {c}}
    /\ UNCHANGED <<request, row, held, available, requeued, cardsMade>>

SubmissionNext ==
    \/ \E r \in Requests :
          \/ \E k \in Tokens : Submit(r, k)
          \/ Lookup(r) \/ Refuse(r) \/ Count(r) \/ Snapshot(r) \/ Balance(r)
          \/ CreateCard(r) \/ Create(r) \/ Hold(r) \/ Compensate(r)
    \/ \E k \in Tokens : ClaimRow(k) \/ EndRow(k) \/ RequeueRow(k)
    \/ Edit

SubmissionSpec == SubmissionInit /\ [][SubmissionNext]_submissionVars

----------------------------------------------------------------------------
(* Properties.                                                             *)

\* The limit on concurrent tasks is read before the row is written, so requests
\* that overlap exceed it; but by no more than there are requests under way: the
\* tasks submitted and not requeued, with the requests that have been let
\* through, stay below the limit plus the number of requests (submitTask).
OvershootBounded ==
    MaxConcurrent > 0 =>
        Cardinality(RunningByModel \ requeued)
        + Cardinality({r \in Requests : /\ request[r].token \in GenerateTokens
                                        /\ request[r].pc \in {"balance", "create"}})
            < MaxConcurrent + Cardinality(Requests)

\* A token that is sent again, also while its first request is under way, holds
\* credits once: the look-up may miss the row, the unique key does not.
TokenHeldOnce == \A k \in Tokens : held[k] <= 1

\* Two compositions of one script that are under way together do not make two
\* cards: whoever comes second works on an old revision and is turned away, and
\* a card is never made beside one that is there (handleCanvasCompose).
OneComposedCard ==
    [][cardsMade' > cardsMade => composed = {}]_submissionVars
=============================================================================
