------------------------------ MODULE Storage ------------------------------
(***************************************************************************)
(* The assets of one user: objects in the blob store, rows of assets and   *)
(* uploads, and users.storage_used_bytes, which counts them.  No two of    *)
(* these change in one transaction but a row and the counter, so the order *)
(* of the steps of transferor.go (TransferAll, Transfer, Promote), of      *)
(* quota.go and asset.go, and of the cleanup of handlers_admin_ops.go is   *)
(* what keeps them together.  Every step may fail, and workers may crash.  *)
(***************************************************************************)
EXTENDS Integers, FiniteSets

CONSTANTS
    Assets,             \* bound: how many assets there ever are
    Uploads,
    Workers,            \* goroutines that transfer or promote
    UploadSize,         \* UploadSize[u] is uploads.bytes
    Sizes,              \* how big products are
    Estimates,          \* what is reserved for one
    Quota,              \* users.storage_quota_bytes
    Products,           \* how many products a task has
    ReadBackFails,      \* may the SELECT after a committed Create fail?
    MaxFaults,          \* bound: how many crashes and failures to clean up there are
    NoAsset, NoUpload   \* NULLs

ASSUME StorageAssumption ==
    /\ Sizes \subseteq Nat
    /\ UploadSize \in [Uploads -> Nat]
    /\ Estimates \subseteq Nat
    /\ Quota \in Nat
    /\ Products \in Nat \ {0}
    /\ ReadBackFails \in BOOLEAN
    /\ MaxFaults \in Nat
    /\ NoAsset \notin Assets
    /\ NoUpload \notin Uploads

VARIABLES
    used,       \* users.storage_used_bytes
    row,        \* row[a]: the row of assets; deleted: deleted_at is set; gone: no more
    size,       \* size[a]: assets.bytes
    blobs,      \* the assets whose object is in the store
    upload,     \* upload[u]: the row of uploads
    promoted,   \* promoted[u]: uploads.promoted_asset_id
    files,      \* the uploads whose object is in the store
    job,        \* job[w]: what worker w does
    sweep,      \* the cleanup an administrator runs; bound: one at a time
    faults,     \* history: crashes and failures to clean up
    lost,       \* history: reserved bytes that nobody will give back
    erased,     \* history: what Recompute has done to reservations: "never" overwritten
                \* one; "now": the last time it ran; "once": earlier, not the last time
    over,       \* history: over[a]: by how much a is bigger than what was reserved
    failed,     \* history: the assets of transfers that have failed
    orphans     \* history: objects left behind by a crash or a failed deletion

counter == <<used, lost, erased>>
rows == <<row, size, over>>
uploads == <<upload, promoted, files>>
left == <<failed, orphans, faults>>
vars == <<counter, rows, blobs, uploads, job, sweep, left>>

\* A worker opens or reserves, writes the object, inserts the row, reads it back
\* and gives the reservation back; or it undoes what it did.  made is the variable
\* out of TransferAll; born is history: the rows this job has inserted.
Jobs == [pc : {"idle", "reserve", "put", "create", "read", "commit", "mark",
               "unput", "release", "rollback"},
         upload : Uploads \cup {NoUpload}, asset : Assets \cup {NoAsset},
         bytes : Nat, reserved : Nat, made : SUBSET Assets, born : SUBSET Assets]

\* Where a worker has an asset in hand.
Holding == {"create", "read", "commit", "mark", "unput"}

Idle == [pc |-> "idle", upload |-> NoUpload, asset |-> NoAsset,
         bytes |-> 0, reserved |-> 0, made |-> {}, born |-> {}]

Sweeps == [pc : {"idle", "uploads", "uploadRow", "assets", "assetRow", "recompute"},
           uploads : SUBSET Uploads, upload : Uploads \cup {NoUpload},
           assets : SUBSET Assets, asset : Assets \cup {NoAsset}]

Rest == [pc |-> "idle", uploads |-> {}, upload |-> NoUpload,
         assets |-> {}, asset |-> NoAsset]

Types ==
    /\ row \in [Assets -> {"none", "live", "deleted", "gone"}]
    /\ size \in [Assets -> Nat]
    /\ blobs \subseteq Assets
    /\ upload \in [Uploads -> {"none", "pending", "promoted", "gone"}]
    /\ promoted \in [Uploads -> Assets \cup {NoAsset}]
    /\ files \subseteq Uploads
    /\ job \in [Workers -> Jobs]
    /\ \A w \in Workers : job[w].asset \in Assets <=> job[w].pc \in Holding
    /\ sweep \in Sweeps
    /\ faults \in 0 .. MaxFaults
    /\ lost \in Nat
    /\ erased \in {"never", "now", "once"}
    /\ over \in [Assets -> Nat]
    /\ failed \subseteq Assets
    /\ orphans \subseteq Assets

TypeOK == Types /\ used \in Nat

Init ==
    /\ used = 0
    /\ row = [a \in Assets |-> "none"]
    /\ size = [a \in Assets |-> 0]
    /\ blobs = {}
    /\ upload = [u \in Uploads |-> "none"]
    /\ promoted = [u \in Uploads |-> NoAsset]
    /\ files = {}
    /\ job = [w \in Workers |-> Idle]
    /\ sweep = Rest
    /\ faults = 0
    /\ lost = 0
    /\ erased = "never"
    /\ over = [a \in Assets |-> 0]
    /\ failed = {}
    /\ orphans = {}

At(w, pc) == job[w].pc = pc
Step(w, j) == job' = [job EXCEPT ![w] = j]
Goto(w, pc) == Step(w, [job[w] EXCEPT !.pc = pc])
Transfers(w) == job[w].upload = NoUpload

Live == {a \in Assets : row[a] = "live"}
Reserving == {w \in Workers : job[w].reserved > 0}

\* The sum of f over S: how many bytes there are in all.
Units(S, f) == UNION {{x} \X (1 .. f[x]) : x \in S}
Total(S, f) == Cardinality(Units(S, f))

\* SUM(bytes) WHERE deleted_at IS NULL.
SumBytes == Total(Live, size)
Reservations == Total(Reserving, [w \in Workers |-> job[w].reserved])

\* GREATEST(0, storage_used_bytes - n).
Reduced(n) == IF used > n THEN used - n ELSE 0

\* One more of the faults that nothing repairs.
Fault == faults < MaxFaults /\ faults' = faults + 1

\* A worker is done with its reservation, or says in the log that it failed to be.
GiveBack(w) ==
    \/ used' = Reduced(job[w].reserved) /\ UNCHANGED <<lost, faults>>
    \/ lost' = lost + job[w].reserved /\ Fault /\ UNCHANGED used

-----------------------------------------------------------------------------
(* Transfer of the products of a task, promotion of an upload *)

\* handleCreateUpload, when it succeeds.
Upload(u) ==
    /\ upload[u] = "none"
    /\ upload' = [upload EXCEPT ![u] = "pending"]
    /\ files' = files \cup {u}
    /\ UNCHANGED <<counter, rows, blobs, promoted, job, sweep, left>>

TransferAll(w) ==
    /\ At(w, "idle")
    /\ Goto(w, "reserve")
    /\ UNCHANGED <<counter, rows, blobs, uploads, sweep, left>>

\* An upload that has an asset is answered with it; one that has none, be it that
\* the asset was deleted for good, is promoted.
Promote(w, u) ==
    /\ At(w, "idle")
    /\ upload[u] \in {"pending", "promoted"}
    /\ promoted[u] = NoAsset
    /\ Step(w, [job[w] EXCEPT !.pc = "reserve", !.upload = u])
    /\ UNCHANGED <<counter, rows, blobs, uploads, sweep, left>>

\* Mutant: the quota is compared with what was used before.
ReserveUnchecked(w) ==
    \E n \in IF Transfers(w) THEN Estimates ELSE {UploadSize[job[w].upload]} :
        /\ At(w, "reserve")
        /\ used <= Quota
        /\ used' = used + n
        /\ Step(w, [job[w] EXCEPT !.pc = "put", !.reserved = n])
        /\ UNCHANGED <<rows, blobs, uploads, sweep, lost, erased, left>>

\* Reserve, under the lock of the user's row.
Reserve(w) ==
    \E n \in IF Transfers(w) THEN Estimates ELSE {UploadSize[job[w].upload]} :
        /\ At(w, "reserve")
        /\ used + n <= Quota \/ n = 0
        /\ used' = used + n
        /\ Step(w, [job[w] EXCEPT !.pc = "put", !.reserved = n])
        /\ UNCHANGED <<rows, blobs, uploads, sweep, lost, erased, left>>

\* The product cannot be fetched, or the quota does not allow it.
Refuse(w) ==
    /\ At(w, "reserve")
    /\ Goto(w, "rollback")
    /\ UNCHANGED <<counter, rows, blobs, uploads, sweep, left>>

Put(w) ==
    LET u == job[w].upload
    IN  /\ At(w, "put")
        /\ ~Transfers(w) => u \in files
        /\ \E a \in Assets, n \in IF Transfers(w) THEN Sizes ELSE {UploadSize[u]} :
              /\ row[a] = "none"
              /\ a \notin blobs
              /\ \A v \in Workers : job[v].asset # a
              /\ blobs' = blobs \cup {a}
              /\ Step(w, [job[w] EXCEPT !.pc = "create", !.asset = a, !.bytes = n])
        /\ UNCHANGED <<counter, rows, uploads, sweep, left>>

PutFails(w) ==
    /\ At(w, "put")
    /\ Goto(w, "release")
    /\ UNCHANGED <<counter, rows, blobs, uploads, sweep, left>>

\* AssetRepo.Create: the row and its bytes in one transaction.
Create(w) ==
    LET a == job[w].asset
        n == job[w].bytes
    IN  /\ At(w, "create")
        /\ row' = [row EXCEPT ![a] = "live"]
        /\ size' = [size EXCEPT ![a] = n]
        /\ used' = used + n
        /\ over' = [over EXCEPT ![a] = IF n > job[w].reserved THEN n - job[w].reserved ELSE 0]
        /\ Step(w, [job[w] EXCEPT !.pc = "read", !.born = @ \cup {a}])
        /\ UNCHANGED <<blobs, uploads, sweep, lost, erased, left>>

CreateFails(w) ==
    /\ At(w, "create")
    /\ Goto(w, "unput")
    /\ UNCHANGED <<counter, rows, blobs, uploads, sweep, left>>

\* Create ends with a Get: it finds no asset that its owner has deleted by now.
ReadBack(w) ==
    /\ At(w, "read")
    /\ \/ row[job[w].asset] = "live" /\ Goto(w, "commit")
       \/ (row[job[w].asset] # "live" \/ ReadBackFails) /\ Goto(w, "unput")
    /\ UNCHANGED <<counter, rows, blobs, uploads, sweep, left>>

\* The object of an asset that was not created is removed.
Unput(w) ==
    LET a == job[w].asset
    IN  /\ At(w, "unput")
        /\ \/ blobs' = blobs \ {a} /\ UNCHANGED <<orphans, faults>>
           \/ orphans' = orphans \cup {a} /\ Fault /\ UNCHANGED blobs
        /\ Step(w, [job[w] EXCEPT !.pc = "release", !.asset = NoAsset])
        /\ UNCHANGED <<counter, rows, uploads, sweep, failed>>

Release(w) ==
    /\ At(w, "release")
    /\ GiveBack(w)
    /\ Step(w, [job[w] EXCEPT !.pc = "rollback", !.reserved = 0])
    /\ UNCHANGED <<rows, blobs, uploads, sweep, erased, failed, orphans>>

\* A transfer that fails deletes the assets it has made so far.
Rollback(w) ==
    /\ At(w, "rollback")
    /\ \E a \in job[w].made :
          /\ \/ /\ row[a] = "live"
                /\ row' = [row EXCEPT ![a] = "deleted"]
                /\ used' = Reduced(size[a])
                /\ Step(w, [job[w] EXCEPT !.made = @ \ {a}])
                /\ UNCHANGED faults
             \/ /\ row[a] # "live"
                /\ Step(w, [job[w] EXCEPT !.made = @ \ {a}])
                /\ UNCHANGED <<row, used, faults>>
             \/ /\ row[a] = "live"
                /\ Fault
                /\ Step(w, [job[w] EXCEPT !.made = @ \ {a}, !.born = @ \ {a}])
                /\ UNCHANGED <<row, used>>
    /\ UNCHANGED <<size, over, blobs, uploads, sweep, lost, erased, failed, orphans>>

RolledBack(w) ==
    /\ At(w, "rollback")
    /\ job[w].made = {}
    /\ failed' = failed \cup job[w].born
    /\ Step(w, Idle)
    /\ UNCHANGED <<counter, rows, blobs, uploads, sweep, orphans, faults>>

\* Mutant: the difference to what was reserved is booked once more (DEM-98).
CommitTwice(w) ==
    LET made == job[w].made \cup {job[w].asset}
        ends == Transfers(w) /\ Cardinality(made) = Products
    IN  /\ At(w, "commit")
        /\ used' = used + job[w].bytes - job[w].reserved
        /\ Step(w, IF ends THEN Idle
                   ELSE IF Transfers(w)
                   THEN [job[w] EXCEPT !.pc = "reserve", !.made = made, !.asset = NoAsset,
                                       !.reserved = 0]
                   ELSE [job[w] EXCEPT !.pc = "mark", !.reserved = 0])
        /\ UNCHANGED <<rows, blobs, uploads, sweep, lost, erased, left>>

\* QuotaGuard.Commit takes the reservation back, the row is counted by now.  The
\* next product follows, or the upload is marked.
Commit(w) ==
    LET made == job[w].made \cup {job[w].asset}
        ends == Transfers(w) /\ Cardinality(made) = Products
    IN  /\ At(w, "commit")
        /\ GiveBack(w)
        /\ Step(w, IF ends THEN Idle
                   ELSE IF Transfers(w)
                   THEN [job[w] EXCEPT !.pc = "reserve", !.made = made, !.asset = NoAsset,
                                       !.reserved = 0]
                   ELSE [job[w] EXCEPT !.pc = "mark", !.reserved = 0])
        /\ UNCHANGED <<rows, blobs, uploads, sweep, erased, failed, orphans>>

\* Only a pending upload is marked; whatever the outcome, the asset is returned.
\* The foreign key admits only an asset that has a row.
MarkPromoted(w) ==
    LET u == job[w].upload
    IN  /\ At(w, "mark")
        /\ \/ /\ upload[u] = "pending"
              /\ row[job[w].asset] # "gone"
              /\ upload' = [upload EXCEPT ![u] = "promoted"]
              /\ promoted' = [promoted EXCEPT ![u] = job[w].asset]
              /\ UNCHANGED faults
           \/ /\ upload[u] # "pending" \/ row[job[w].asset] = "gone"
              /\ UNCHANGED <<upload, promoted, faults>>
           \/ Fault /\ UNCHANGED <<upload, promoted>>
        /\ Step(w, Idle)
        /\ UNCHANGED <<counter, rows, blobs, files, sweep, failed, orphans>>

\* The process ends under a worker.
Crash(w) ==
    LET a == job[w].asset
    IN  /\ ~At(w, "idle")
        /\ Fault
        /\ Step(w, Idle)
        /\ lost' = lost + job[w].reserved
        /\ orphans' = IF a \in blobs /\ row[a] = "none" THEN orphans \cup {a} ELSE orphans
        /\ UNCHANGED <<used, erased, rows, blobs, uploads, sweep, failed>>

-----------------------------------------------------------------------------
(* The owner, the administrator *)

\* handleDeleteAsset: the mark and the counter in one transaction.
Delete(a) ==
    /\ row[a] = "live"
    /\ row' = [row EXCEPT ![a] = "deleted"]
    /\ used' = Reduced(size[a])
    /\ UNCHANGED <<size, over, blobs, uploads, job, sweep, lost, erased, left>>

\* cleanupExpiredUploads lists uploads nobody has promoted.  Which of them have
\* expired is left open: the sweep may take any of the list and end early.
ListExpired ==
    /\ sweep.pc = "idle"
    /\ LET S == {u \in Uploads : upload[u] = "pending"}
       IN  S # {} /\ sweep' = [Rest EXCEPT !.pc = "uploads", !.uploads = S]
    /\ UNCHANGED <<counter, rows, blobs, uploads, job, left>>

\* The object first, then the row.
RemoveUploadFile(u) ==
    /\ sweep.pc = "uploads"
    /\ u \in sweep.uploads
    /\ files' = files \ {u}
    /\ sweep' = [sweep EXCEPT !.pc = "uploadRow", !.upload = u, !.uploads = @ \ {u}]
    /\ UNCHANGED <<counter, rows, blobs, upload, promoted, job, left>>

RemoveUploadRow ==
    LET u == sweep.upload
    IN  /\ sweep.pc = "uploadRow"
        /\ upload' = [upload EXCEPT ![u] = "gone"]
        /\ promoted' = [promoted EXCEPT ![u] = NoAsset]
        /\ sweep' = [sweep EXCEPT !.pc = "uploads", !.upload = NoUpload]
        /\ UNCHANGED <<counter, rows, blobs, files, job, left>>

\* Mutant: any asset is listed.
ListAnyAssets ==
    /\ sweep.pc = "idle"
    /\ LET S == {a \in Assets : row[a] \in {"live", "deleted"}}
       IN  S # {} /\ sweep' = [Rest EXCEPT !.pc = "assets", !.assets = S]
    /\ UNCHANGED <<counter, rows, blobs, uploads, job, left>>

\* cleanupSoftDeletedAssets.
ListSoftDeleted ==
    /\ sweep.pc = "idle"
    /\ LET S == {a \in Assets : row[a] = "deleted"}
       IN  S # {} /\ sweep' = [Rest EXCEPT !.pc = "assets", !.assets = S]
    /\ UNCHANGED <<counter, rows, blobs, uploads, job, left>>

\* Mutant: the object is left for later.
RemoveNoBlob(a) ==
    /\ sweep.pc = "assets"
    /\ a \in sweep.assets
    /\ sweep' = [sweep EXCEPT !.pc = "assetRow", !.asset = a, !.assets = @ \ {a}]
    /\ UNCHANGED <<counter, rows, blobs, uploads, job, left>>

RemoveBlob(a) ==
    /\ sweep.pc = "assets"
    /\ a \in sweep.assets
    /\ blobs' = blobs \ {a}
    /\ sweep' = [sweep EXCEPT !.pc = "assetRow", !.asset = a, !.assets = @ \ {a}]
    /\ UNCHANGED <<counter, rows, uploads, job, left>>

\* The foreign key of uploads sets promoted_asset_id to NULL.
HardDelete ==
    LET a == sweep.asset
    IN  /\ sweep.pc = "assetRow"
        /\ row[a] = "deleted"
        /\ row' = [row EXCEPT ![a] = "gone"]
        /\ size' = [size EXCEPT ![a] = 0]
        /\ over' = [over EXCEPT ![a] = 0]
        /\ failed' = failed \ {a}
        /\ promoted' = [u \in Uploads |-> IF promoted[u] = a THEN NoAsset ELSE promoted[u]]
        /\ sweep' = [sweep EXCEPT !.pc = "recompute", !.asset = NoAsset]
        /\ UNCHANGED <<counter, blobs, upload, files, job, orphans, faults>>

\* Recompute writes the sum of the rows, which no reservation is in.
Recompute ==
    /\ sweep.pc = "recompute"
    /\ used' = SumBytes
    /\ lost' = 0
    /\ erased' = IF Reserving # {} THEN "now" ELSE IF erased = "never" THEN "never" ELSE "once"
    /\ sweep' = [sweep EXCEPT !.pc = "assets"]
    /\ UNCHANGED <<rows, blobs, uploads, job, left>>

\* The list is done, or a step fails and the handler returns.
SweepEnds ==
    /\ sweep.pc # "idle"
    /\ sweep' = Rest
    /\ UNCHANGED <<counter, rows, blobs, uploads, job, left>>

-----------------------------------------------------------------------------
Work(w) ==
    \/ TransferAll(w) \/ Reserve(w) \/ Refuse(w) \/ Put(w) \/ PutFails(w)
    \/ Create(w) \/ CreateFails(w) \/ ReadBack(w) \/ Unput(w) \/ Release(w)
    \/ Rollback(w) \/ RolledBack(w) \/ Commit(w) \/ MarkPromoted(w) \/ Crash(w)
    \/ \E u \in Uploads : Promote(w, u)

Cleanup ==
    \/ ListExpired \/ RemoveUploadRow \/ ListSoftDeleted \/ HardDelete \/ Recompute
    \/ SweepEnds
    \/ \E u \in Uploads : RemoveUploadFile(u)
    \/ \E a \in Assets : RemoveBlob(a)

Next ==
    \/ \E w \in Workers : Work(w)
    \/ \E u \in Uploads : Upload(u)
    \/ \E a \in Assets : Delete(a)
    \/ Cleanup

Spec == Init /\ [][Next]_vars

-----------------------------------------------------------------------------
(* Properties *)

\* An asset its owner can see has its object: no card that opens to nothing,
\* whatever else fails, whoever cleans up (transferor.go Transfer, "先写存储，再写库").
AssetHasBytes == ~ReadBackFails => Live \subseteq blobs

\* An object without a row is the work of somebody who is still at it, or of a
\* crash or a deletion that failed (transfer.go Transferor).
NoOrphans ==
    \A a \in blobs : row[a] \in {"none", "gone"} =>
        a \in orphans \/ \E w \in Workers : job[w].asset = a

\* A transfer that has failed leaves none of its products in sight, unless their
\* deletion failed (transferor.go TransferAll).
AllOrNothing == ~ReadBackFails => failed \cap Live = {}

\* What is used is what lives and what is reserved, or was and got lost: nothing
\* is counted twice and nothing forgotten, until Recompute overwrites a reservation;
\* from then on never too much, until it runs while nobody has reserved anything
\* (quota.go Commit, asset.go Create and Delete).
UsageAddsUp ==
    LET all == SumBytes + Reservations + lost
    IN  used <= all /\ (erased # "now" => used = all)

\* What lives is within the quota but for products bigger than was reserved for
\* them, as long as Recompute has never overwritten a reservation (quota.go Reserve).
WithinQuota == erased = "never" => SumBytes <= Quota + Total(Live, over)

\* An upload is given an asset once; it loses it only with the row of the asset or
\* its own (upload.go MarkPromoted).
PromotedOnce ==
    [][\A u \in Uploads : promoted[u] # NoAsset /\ promoted'[u] # promoted[u] =>
          /\ promoted'[u] = NoAsset
          /\ row'[promoted[u]] = "gone" \/ upload'[u] = "gone"]_vars
=============================================================================
