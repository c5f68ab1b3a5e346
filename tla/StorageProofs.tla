--------------------------- MODULE StorageProofs ---------------------------
(***************************************************************************)
(* What holds of Storage for any number of assets, uploads and workers,    *)
(* any sizes and any faults: first of rows and objects, which nothing that *)
(* is counted decides, then of the count.                                  *)
(***************************************************************************)
EXTENDS Storage, FiniteSetTheorems, FunctionTheorems, TLAPS

\* A worker's record and the asset in it belong together.
Fit(j) == j \in Jobs /\ (j.asset \in Assets <=> j.pc \in Holding)

RowTypes ==
    /\ row \in [Assets -> {"none", "live", "deleted", "gone"}]
    /\ size \in [Assets -> Nat]
    /\ over \in [Assets -> Nat]
    /\ blobs \subseteq Assets

UploadTypes ==
    /\ upload \in [Uploads -> {"none", "pending", "promoted", "gone"}]
    /\ promoted \in [Uploads -> Assets \cup {NoAsset}]
    /\ files \subseteq Uploads

LeftTypes ==
    /\ faults \in 0 .. MaxFaults
    /\ lost \in Nat
    /\ erased \in {"never", "now", "once"}
    /\ failed \subseteq Assets
    /\ orphans \subseteq Assets

JobTypes ==
    /\ job \in [Workers -> Jobs]
    /\ \A w \in Workers : job[w].asset \in Assets <=> job[w].pc \in Holding

\* The types fall into five groups, and most actions touch few of them.
LEMMA Groups == Types <=> JobTypes /\ RowTypes /\ UploadTypes /\ LeftTypes /\ sweep \in Sweeps
BY DEF Types, JobTypes, RowTypes, UploadTypes, LeftTypes

\* The records that stand for nobody at work.
LEMMA Nobody == StorageAssumption => Fit(Idle) /\ Rest \in Sweeps
BY DEF StorageAssumption, Fit, Idle, Jobs, Holding, Rest, Sweeps

\* What a worker's record is made of.
LEMMA JobFields ==
    ASSUME Types, NEW w \in Workers
    PROVE  /\ Fit(job[w])
           /\ job[w].upload \in Uploads \cup {NoUpload}
           /\ job[w].asset \in Assets \cup {NoAsset}
           /\ job[w].bytes \in Nat
           /\ job[w].reserved \in Nat
           /\ job[w].made \subseteq Assets
           /\ job[w].born \subseteq Assets
BY DEF Types, Fit, Jobs

\* A worker moves on to a record that fits.
LEMMA StepFits ==
    ASSUME Types, NEW w \in Workers, NEW j, Fit(j), Step(w, j)
    PROVE  JobTypes'
BY DEF Types, Fit, Step, JobTypes

\* What a worker reserves, and how much it then writes, are sizes.
LEMMA Amounts ==
    ASSUME StorageAssumption, Types, NEW w \in Workers
    PROVE  /\ Transfers(w) => Estimates \subseteq Nat /\ Sizes \subseteq Nat
           /\ ~Transfers(w) => UploadSize[job[w].upload] \in Nat
BY DEF StorageAssumption, Types, Jobs, Transfers

\* A fault keeps within the bound.
LEMMA FaultBounded ==
    ASSUME StorageAssumption, Types, Fault PROVE faults' \in 0 .. MaxFaults
BY DEF StorageAssumption, Types, Fault

\* Giving a reservation back, or losing it, keeps the types.
LEMMA GiveBackTypes ==
    ASSUME StorageAssumption, Types, NEW w \in Workers, GiveBack(w),
           UNCHANGED <<erased, failed, orphans>>
    PROVE  LeftTypes'
<1>1. CASE faults' = faults /\ lost' = lost
  BY <1>1 DEF Types, LeftTypes
<1>2. CASE lost' = lost + job[w].reserved /\ Fault
  BY <1>2, JobFields, FaultBounded DEF Types, LeftTypes
<1> QED
  BY <1>1, <1>2 DEF GiveBack

\* A worker keeps the types, but for the counter.
LEMMA WorkTypes ==
    ASSUME StorageAssumption, Types, NEW w \in Workers, Work(w)
    PROVE  Types'
<1>0. /\ JobTypes /\ RowTypes /\ UploadTypes /\ LeftTypes /\ sweep \in Sweeps
      /\ Fit(job[w])
  BY Groups, JobFields
<1>1. SUFFICES JobTypes' /\ RowTypes' /\ UploadTypes' /\ LeftTypes' /\ sweep' \in Sweeps
  <2>1. Types' <=> JobTypes' /\ RowTypes' /\ UploadTypes' /\ LeftTypes' /\ sweep' \in Sweeps
    BY DEF Types, JobTypes, RowTypes, UploadTypes, LeftTypes
  <2> QED
    BY <2>1
<1>2. ASSUME UNCHANGED rows, UNCHANGED blobs PROVE RowTypes'
  BY <1>0, <1>2 DEF RowTypes, rows
<1>3. ASSUME UNCHANGED uploads PROVE UploadTypes'
  BY <1>0, <1>3 DEF UploadTypes, uploads
<1>4. ASSUME UNCHANGED <<lost, erased, left>> PROVE LeftTypes'
  BY <1>0, <1>4 DEF LeftTypes, left
<1>5. CASE TransferAll(w)
  <2>1. Fit([job[w] EXCEPT !.pc = "reserve"])
    BY <1>0, <1>5 DEF TransferAll, At, Fit, Jobs, Holding
  <2> QED
    BY <1>0, <1>2, <1>3, <1>4, <1>5, <2>1, StepFits DEF TransferAll, Goto, counter
<1>6. CASE Refuse(w)
  <2>1. Fit([job[w] EXCEPT !.pc = "rollback"])
    BY <1>0, <1>6 DEF Refuse, At, Fit, Jobs, Holding
  <2> QED
    BY <1>0, <1>2, <1>3, <1>4, <1>6, <2>1, StepFits DEF Refuse, Goto, counter
<1>7. CASE PutFails(w)
  <2>1. Fit([job[w] EXCEPT !.pc = "release"])
    BY <1>0, <1>7 DEF PutFails, At, Fit, Jobs, Holding
  <2> QED
    BY <1>0, <1>2, <1>3, <1>4, <1>7, <2>1, StepFits DEF PutFails, Goto, counter
<1>8. CASE \E u \in Uploads : Promote(w, u)
  <2>1. PICK u \in Uploads : Promote(w, u)
    BY <1>8
  <2>2. Fit([job[w] EXCEPT !.pc = "reserve", !.upload = u])
    BY <1>0, <2>1 DEF Promote, At, Fit, Jobs, Holding
  <2> QED
    BY <1>0, <1>2, <1>3, <1>4, <2>1, <2>2, StepFits DEF Promote, counter
<1>9. CASE Reserve(w)
  <2>1. PICK n \in IF Transfers(w) THEN Estimates ELSE {UploadSize[job[w].upload]} :
            /\ At(w, "reserve")
            /\ Step(w, [job[w] EXCEPT !.pc = "put", !.reserved = n])
    BY <1>9 DEF Reserve
  <2>2. n \in Nat
    BY <2>1, Amounts
  <2>3. Fit([job[w] EXCEPT !.pc = "put", !.reserved = n])
    BY <1>0, <2>1, <2>2 DEF At, Fit, Jobs, Holding
  <2>4. JobTypes'
    BY <2>1, <2>3, StepFits
  <2> QED
    BY <1>0, <1>2, <1>3, <1>4, <1>9, <2>4 DEF Reserve
<1>10. CASE Put(w)
  <2>1. PICK a \in Assets,
             n \in IF Transfers(w) THEN Sizes ELSE {UploadSize[job[w].upload]} :
            /\ blobs' = blobs \cup {a}
            /\ Step(w, [job[w] EXCEPT !.pc = "create", !.asset = a, !.bytes = n])
    BY <1>10 DEF Put
  <2>2. n \in Nat
    BY <2>1, Amounts
  <2>3. Fit([job[w] EXCEPT !.pc = "create", !.asset = a, !.bytes = n])
    BY <1>0, <2>1, <2>2 DEF At, Fit, Jobs, Holding
  <2>4. JobTypes'
    BY <2>1, <2>3, StepFits
  <2>5. RowTypes'
    BY <1>0, <1>10, <2>1 DEF Put, RowTypes, rows
  <2> QED
    BY <1>0, <1>3, <1>4, <1>10, <2>4, <2>5 DEF Put, counter
<1>11. CASE Create(w)
  <2>1. job[w].asset \in Assets
    BY <1>0, <1>11 DEF Create, At, Fit, Holding
  <2>2. Fit([job[w] EXCEPT !.pc = "read", !.born = @ \cup {job[w].asset}])
    BY <1>0, <2>1 DEF Fit, Jobs, Holding
  <2>3. JobTypes'
    BY <1>11, <2>2, StepFits DEF Create
  <2>4. (IF job[w].bytes > job[w].reserved THEN job[w].bytes - job[w].reserved ELSE 0) \in Nat
    BY JobFields
  <2>5. RowTypes'
    BY <1>0, <1>11, <2>4, JobFields DEF Create, RowTypes
  <2> QED
    BY <1>0, <1>3, <1>4, <1>11, <2>3, <2>5 DEF Create
<1>12. CASE CreateFails(w)
  <2>1. Fit([job[w] EXCEPT !.pc = "unput"])
    BY <1>0, <1>12 DEF CreateFails, At, Fit, Jobs, Holding
  <2> QED
    BY <1>0, <1>2, <1>3, <1>4, <1>12, <2>1, StepFits DEF CreateFails, Goto, counter
<1>13. CASE ReadBack(w)
  <2>1. /\ Fit([job[w] EXCEPT !.pc = "unput"])
        /\ Fit([job[w] EXCEPT !.pc = "commit"])
    BY <1>0, <1>13 DEF ReadBack, At, Fit, Jobs, Holding
  <2> QED
    BY <1>0, <1>2, <1>3, <1>4, <1>13, <2>1, StepFits DEF ReadBack, Goto, counter
<1>14. CASE Unput(w)
  <2>1. job[w].asset \in Assets
    BY <1>0, <1>14 DEF Unput, At, Fit, Holding
  <2>2. Fit([job[w] EXCEPT !.pc = "release", !.asset = NoAsset])
    BY <1>0, StorageAssumption DEF StorageAssumption, Fit, Jobs, Holding
  <2>3. JobTypes'
    BY <1>14, <2>2, StepFits DEF Unput
  <2>4. RowTypes'
    BY <1>0, <1>14 DEF Unput, RowTypes, rows
  <2>5. LeftTypes'
    BY <1>0, <1>14, <2>1, FaultBounded DEF Unput, LeftTypes, counter
  <2> QED
    BY <1>0, <1>3, <1>14, <2>3, <2>4, <2>5 DEF Unput
<1>15. CASE Release(w)
  <2>1. Fit([job[w] EXCEPT !.pc = "rollback", !.reserved = 0])
    BY <1>0, <1>15 DEF Release, At, Fit, Jobs, Holding
  <2> QED
    BY <1>0, <1>2, <1>3, <1>15, <2>1, StepFits, GiveBackTypes DEF Release
<1>16. CASE Rollback(w)
  <2>1. PICK a \in job[w].made :
            \/ /\ row' = [row EXCEPT ![a] = "deleted"]
               /\ Step(w, [job[w] EXCEPT !.made = @ \ {a}])
               /\ UNCHANGED faults
            \/ /\ Step(w, [job[w] EXCEPT !.made = @ \ {a}])
               /\ UNCHANGED <<row, faults>>
            \/ /\ Fault
               /\ Step(w, [job[w] EXCEPT !.made = @ \ {a}, !.born = @ \ {a}])
               /\ UNCHANGED row
    BY <1>16 DEF Rollback
  <2>2. /\ Fit([job[w] EXCEPT !.made = @ \ {a}])
        /\ Fit([job[w] EXCEPT !.made = @ \ {a}, !.born = @ \ {a}])
    BY <1>0 DEF Fit, Jobs
  <2>3. JobTypes'
    BY <2>1, <2>2, StepFits
  <2>4. RowTypes'
    BY <1>0, <1>16, <2>1, JobFields DEF Rollback, RowTypes
  <2>5. faults' \in 0 .. MaxFaults
    BY <1>0, <2>1, FaultBounded DEF LeftTypes
  <2>6. LeftTypes'
    BY <1>0, <1>16, <2>5 DEF Rollback, LeftTypes
  <2> QED
    BY <1>0, <1>3, <1>16, <2>3, <2>4, <2>6 DEF Rollback
<1>17. CASE RolledBack(w)
  <2>1. JobTypes'
    BY <1>17, Nobody, StepFits DEF RolledBack
  <2>2. LeftTypes'
    BY <1>0, <1>17, JobFields DEF RolledBack, LeftTypes, counter
  <2> QED
    BY <1>0, <1>2, <1>3, <1>17, <2>1, <2>2 DEF RolledBack
<1>18. CASE Commit(w)
  <2> DEFINE made == job[w].made \cup {job[w].asset}
             next == [job[w] EXCEPT !.pc = "reserve", !.made = made, !.asset = NoAsset,
                                    !.reserved = 0]
             mark == [job[w] EXCEPT !.pc = "mark", !.reserved = 0]
  <2>1. job[w].asset \in Assets
    BY <1>0, <1>18 DEF Commit, At, Fit, Holding
  <2>2. Step(w, Idle) \/ Step(w, next) \/ Step(w, mark)
    BY <1>18 DEF Commit
  <2>3. Fit(next) /\ Fit(mark)
    BY <1>0, <2>1 DEF StorageAssumption, Fit, Jobs, Holding
  <2>4. JobTypes'
    BY <2>2, <2>3, Nobody, StepFits
  <2> QED
    BY <1>0, <1>2, <1>3, <1>18, <2>4, GiveBackTypes DEF Commit
<1>19. CASE MarkPromoted(w)
  <2>1. job[w].asset \in Assets
    BY <1>0, <1>19 DEF MarkPromoted, At, Fit, Holding
  <2>2. JobTypes'
    BY <1>19, Nobody, StepFits DEF MarkPromoted
  <2>3. UploadTypes'
    BY <1>0, <1>19, <2>1 DEF MarkPromoted, UploadTypes
  <2>4. LeftTypes'
    BY <1>0, <1>19, FaultBounded DEF MarkPromoted, LeftTypes, counter
  <2> QED
    BY <1>0, <1>2, <1>19, <2>2, <2>3, <2>4 DEF MarkPromoted
<1>20. CASE Crash(w)
  <2>1. JobTypes'
    BY <1>20, Nobody, StepFits DEF Crash
  <2>2. LeftTypes'
    BY <1>0, <1>20, JobFields, FaultBounded DEF Crash, LeftTypes, RowTypes
  <2> QED
    BY <1>0, <1>2, <1>3, <1>20, <2>1, <2>2 DEF Crash
<1> QED
  BY <1>5, <1>6, <1>7, <1>8, <1>9, <1>10, <1>11, <1>12, <1>13, <1>14, <1>15, <1>16,
     <1>17, <1>18, <1>19, <1>20 DEF Work

\* So does the cleanup.
LEMMA CleanupTypes ==
    ASSUME StorageAssumption, Types, Cleanup
    PROVE  Types'
<1>0. RowTypes /\ UploadTypes /\ LeftTypes /\ sweep \in Sweeps
  BY Groups
<1>1. RowTypes'
  <2>1. CASE UNCHANGED rows /\ UNCHANGED blobs
    BY <1>0, <2>1 DEF RowTypes, rows
  <2>2. CASE \E a \in Assets : RemoveBlob(a)
    BY <1>0, <2>2 DEF RowTypes, rows, RemoveBlob
  <2>3. CASE HardDelete
    BY <1>0, <2>3 DEF RowTypes, HardDelete
  <2> QED
    BY <2>1, <2>2, <2>3 DEF Cleanup, ListExpired, ListSoftDeleted, RemoveUploadFile,
         RemoveUploadRow, Recompute, SweepEnds
<1>2. UploadTypes'
  <2>1. CASE UNCHANGED uploads
    BY <1>0, <2>1 DEF UploadTypes, uploads
  <2>2. CASE \E u \in Uploads : RemoveUploadFile(u)
    BY <1>0, <2>2 DEF UploadTypes, RemoveUploadFile
  <2>3. CASE RemoveUploadRow
    BY <1>0, <2>3 DEF UploadTypes, RemoveUploadRow
  <2>4. CASE HardDelete
    BY <1>0, <2>4 DEF UploadTypes, HardDelete
  <2> QED
    BY <2>1, <2>2, <2>3, <2>4
       DEF Cleanup, ListExpired, ListSoftDeleted, RemoveBlob, Recompute, SweepEnds
<1>3. LeftTypes'
  <2>1. CASE UNCHANGED <<counter, left>>
    BY <1>0, <2>1 DEF LeftTypes, counter, left
  <2>2. CASE HardDelete
    BY <1>0, <2>2 DEF LeftTypes, HardDelete, counter
  <2>3. CASE Recompute
    BY <1>0, <2>3 DEF LeftTypes, Recompute, left
  <2> QED
    BY <2>1, <2>2, <2>3 DEF Cleanup, ListExpired, ListSoftDeleted, RemoveUploadFile,
         RemoveUploadRow, RemoveBlob, SweepEnds
<1>4. sweep' \in Sweeps
  <2>1. CASE ListExpired
    BY <1>0, <2>1 DEF ListExpired, Sweeps, Rest
  <2>2. CASE ListSoftDeleted
    BY <1>0, <2>2 DEF ListSoftDeleted, Sweeps, Rest
  <2>3. ASSUME NEW u \in Uploads, RemoveUploadFile(u) PROVE sweep' \in Sweeps
    BY <1>0, <2>3 DEF RemoveUploadFile, Sweeps
  <2>4. CASE RemoveUploadRow
    BY <1>0, <2>4 DEF RemoveUploadRow, Sweeps
  <2>5. ASSUME NEW a \in Assets, RemoveBlob(a) PROVE sweep' \in Sweeps
    BY <1>0, <2>5 DEF RemoveBlob, Sweeps
  <2>6. CASE HardDelete
    BY <1>0, <2>6 DEF HardDelete, Sweeps
  <2>7. CASE Recompute
    BY <1>0, <2>7 DEF Recompute, Sweeps
  <2>8. CASE SweepEnds
    BY <2>8, Nobody DEF SweepEnds
  <2> QED
    BY <2>1, <2>2, <2>3, <2>4, <2>5, <2>6, <2>7, <2>8 DEF Cleanup
<1>5. UNCHANGED job
  BY DEF Cleanup, ListExpired, RemoveUploadFile, RemoveUploadRow,
       ListSoftDeleted, RemoveBlob, HardDelete, Recompute, SweepEnds
<1> QED
  BY <1>1, <1>2, <1>3, <1>4, <1>5 DEF Types, RowTypes, UploadTypes, LeftTypes

\* Every step keeps the types, but for the counter.
LEMMA TypesKept ==
    ASSUME StorageAssumption, Types, [Next]_vars
    PROVE  Types'
<1>1. ASSUME NEW u \in Uploads, Upload(u) PROVE Types'
  BY <1>1 DEF Upload, Types, counter, rows, left
<1>2. ASSUME NEW a \in Assets, Delete(a) PROVE Types'
  BY <1>2 DEF Delete, Types, uploads, left
<1>3. CASE UNCHANGED vars
  BY <1>3 DEF vars, Types, counter, rows, uploads, left
<1> QED
  BY <1>1, <1>2, <1>3, WorkTypes, CleanupTypes DEF Next

\* The types hold at the start.
LEMMA InitTypes == ASSUME StorageAssumption, Init PROVE Types
<1>1. JobTypes
  BY Nobody DEF Init, JobTypes, Fit
<1>2. LeftTypes
  <2>1. MaxFaults \in Nat
    BY DEF StorageAssumption
  <2>2. 0 \in 0 .. MaxFaults
    BY <2>1
  <2> QED
    BY <2>2 DEF Init, LeftTypes
<1>3. RowTypes /\ UploadTypes /\ sweep \in Sweeps
  BY Nobody DEF Init, RowTypes, UploadTypes
<1> QED
  BY <1>1, <1>2, <1>3, Groups

\* The types hold of every state.
THEOREM StorageTypes == Spec => []Types
<1>1. Init => Types
  BY StorageAssumption, InitTypes
<1>2. Types /\ [Next]_vars => Types'
  BY StorageAssumption, TypesKept
<1> QED
  BY <1>1, <1>2, PTL DEF Spec

-----------------------------------------------------------------------------
(* The inductive invariant *)

\* No two workers have the same asset in hand.
Alone ==
    \A v, w \in Workers :
        v # w /\ job[v].pc \in Holding /\ job[w].pc \in Holding => job[v].asset # job[w].asset

\* What is true of the asset in hand: it has no row before it is created, has
\* had one after, and is in nobody's sight when its object is removed.
HandedBy(j) ==
    /\ j.pc = "create" => row[j.asset] = "none" /\ j.asset \in blobs
    /\ j.pc \in {"read", "commit", "mark"} => row[j.asset] # "none"
    /\ j.pc = "unput" /\ ~ReadBackFails => row[j.asset] # "live"

Handed == \A w \in Workers : HandedBy(job[w])

\* What a job has inserted and is in sight, it will undo if it fails.
UndoneBy(j) ==
    \A a \in j.born :
        /\ row[a] # "none"
        /\ row[a] = "live" /\ ~ReadBackFails =>
              \/ a \in j.made
              \/ a = j.asset /\ j.pc \in {"read", "commit", "mark"}

Undone == \A w \in Workers : UndoneBy(job[w])

\* What failed transfers have made had a row, and is in nobody's sight.
Failed == \A a \in failed : row[a] # "none" /\ (row[a] = "live" => ReadBackFails)

\* What the cleanup has listed was deleted, and loses its object before its row.
Swept ==
    /\ \A a \in sweep.assets : row[a] \in {"deleted", "gone"}
    /\ sweep.pc = "assetRow" =>
          /\ sweep.asset \in Assets
          /\ sweep.asset \notin blobs
          /\ row[sweep.asset] \in {"deleted", "gone"}

\* An object that nothing leads to any more is an orphan or in a worker's hand.
Stored ==
    \A a \in Assets :
        /\ row[a] = "live" /\ ~ReadBackFails => a \in blobs
        /\ row[a] = "gone" => a \notin blobs
        /\ row[a] = "none" /\ a \in blobs =>
              a \in orphans \/ \E w \in Workers : job[w].asset = a

\* An upload has an asset only once it is marked.
Marked == \A u \in Uploads : upload[u] \in {"none", "pending"} => promoted[u] = NoAsset

Inv == Types /\ Alone /\ Handed /\ Undone /\ Failed /\ Swept /\ Stored /\ Marked

\* A worker moves on to record j and nothing else of note changes: j takes up no
\* asset, gives up none whose object nothing else leads to, and keeps the promises.
LEMMA Moves ==
    ASSUME StorageAssumption, Inv, NEW w \in Workers, NEW j, Step(w, j), Fit(j),
           HandedBy(j), UndoneBy(j),
           j.pc \in Holding => j.asset = job[w].asset,
           \/ j.asset = job[w].asset
           \/ job[w].asset \notin blobs
           \/ job[w].asset \in orphans'
           \/ row[job[w].asset] # "none",
           UNCHANGED <<row, blobs, sweep, failed>>,
           orphans \subseteq orphans'
    PROVE  Alone' /\ Handed' /\ Undone' /\ Failed' /\ Swept' /\ Stored'
<1>1. /\ job' = [job EXCEPT ![w] = j]
      /\ \A v \in Workers : job'[v] = IF v = w THEN j ELSE job[v]
  BY DEF Inv, Types, Step
<1>2. Alone'
  <2>1. j.pc \in Holding => job[w].pc \in Holding
    BY DEF Fit, Inv, Types
  <2> QED
    BY <1>1, <2>1 DEF Inv, Alone
<1>3. Handed'
  BY <1>1 DEF Inv, Handed, HandedBy
<1>4. Undone'
  BY <1>1 DEF Inv, Undone, UndoneBy
<1>5. Failed' /\ Swept'
  BY DEF Inv, Failed, Swept
<1>6. Stored'
  <2> SUFFICES ASSUME NEW a \in Assets, row[a] = "none", a \in blobs, a \notin orphans'
               PROVE  \E v \in Workers : job'[v].asset = a
    BY DEF Inv, Stored
  <2>1. PICK v \in Workers : job[v].asset = a
    BY DEF Inv, Stored
  <2>2. CASE v = w
    BY <1>1, <2>1, <2>2
  <2>3. CASE v # w
    BY <1>1, <2>1, <2>3
  <2> QED
    BY <2>2, <2>3
<1> QED
  BY <1>2, <1>3, <1>4, <1>5, <1>6

\* A live asset is hidden from its owner, whoever does it; a worker may take it
\* off its list.
LEMMA Hides ==
    ASSUME StorageAssumption, Inv, NEW a \in Assets, row[a] = "live",
           row' = [row EXCEPT ![a] = "deleted"],
           \/ UNCHANGED job
           \/ \E w \in Workers : Step(w, [job[w] EXCEPT !.made = @ \ {a}]),
           UNCHANGED <<blobs, sweep, failed, orphans>>
    PROVE  Alone' /\ Handed' /\ Undone' /\ Failed' /\ Swept' /\ Stored'
<1>1. /\ \A b \in Assets : row'[b] = IF b = a THEN "deleted" ELSE row[b]
      /\ \A b \in Assets : row[b] = "none" => row'[b] = "none"
      /\ \A b \in Assets : row[b] # "none" => row'[b] # "none"
      /\ \A b \in Assets : row'[b] = "live" => row[b] = "live" /\ b # a
  BY DEF Inv, Types
<1>2. \A v \in Workers :
          /\ job'[v].pc = job[v].pc /\ job'[v].asset = job[v].asset
          /\ job'[v].born = job[v].born
          /\ job[v].made \ {a} \subseteq job'[v].made
  BY DEF Inv, Types, Jobs, Step
<1>3. \A v \in Workers : /\ job[v].pc \in Holding => job[v].asset \in Assets
                         /\ job[v].born \subseteq Assets
  BY JobFields DEF Inv, Fit
<1>4. Alone'
  BY <1>2 DEF Inv, Alone
<1>5. Handed'
  BY <1>1, <1>2, <1>3 DEF Inv, Handed, HandedBy, Holding
<1>6. Undone'
  <2> SUFFICES ASSUME NEW v \in Workers, NEW b \in job[v].born
               PROVE  /\ row'[b] # "none"
                      /\ row'[b] = "live" /\ ~ReadBackFails =>
                            \/ b \in job'[v].made
                            \/ b = job[v].asset /\ job[v].pc \in {"read", "commit", "mark"}
    BY <1>2 DEF Undone, UndoneBy
  <2>1. b \in Assets
    BY <1>3
  <2>2. /\ row[b] # "none"
        /\ row[b] = "live" /\ ~ReadBackFails =>
              \/ b \in job[v].made
              \/ b = job[v].asset /\ job[v].pc \in {"read", "commit", "mark"}
    BY DEF Inv, Undone, UndoneBy
  <2>3. CASE b = a
    BY <1>1, <2>1, <2>2, <2>3
  <2>4. CASE b # a
    BY <1>1, <1>2, <2>1, <2>2, <2>4
  <2> QED
    BY <2>3, <2>4
<1>7. Failed'
  BY <1>1 DEF Inv, Types, Failed
<1>8. Swept'
  BY <1>1 DEF Inv, Types, Sweeps, Swept
<1>9. Stored'
  BY <1>1, <1>2 DEF Inv, Stored
<1> QED
  BY <1>4, <1>5, <1>6, <1>7, <1>8, <1>9

\* What a worker promises of the record it has.
LEMMA Promises ==
    ASSUME StorageAssumption, Inv, NEW w \in Workers
    PROVE  /\ HandedBy(job[w]) /\ UndoneBy(job[w]) /\ Fit(job[w])
           /\ HandedBy(Idle) /\ UndoneBy(Idle) /\ Fit(Idle)
BY JobFields, Nobody DEF Inv, Handed, Undone, Idle, HandedBy, UndoneBy

\* The steps that change neither rows nor objects.
LEMMA QuietWorkKept ==
    ASSUME StorageAssumption, Inv, NEW w \in Workers,
           \/ TransferAll(w) \/ Reserve(w) \/ Refuse(w) \/ PutFails(w)
           \/ CreateFails(w) \/ ReadBack(w) \/ Release(w)
           \/ Commit(w) \/ MarkPromoted(w) \/ Crash(w)
           \/ \E u \in Uploads : Promote(w, u)
    PROVE  Alone' /\ Handed' /\ Undone' /\ Failed' /\ Swept' /\ Stored'
<1> USE DEF left, rows
<1>0. /\ HandedBy(job[w]) /\ UndoneBy(job[w]) /\ Fit(job[w])
      /\ HandedBy(Idle) /\ UndoneBy(Idle) /\ Fit(Idle)
      /\ Idle.pc \notin Holding
  BY Promises DEF Idle, Holding
<1>1. ASSUME NEW j, Step(w, j), Fit(j), HandedBy(j), UndoneBy(j),
             j.asset = job[w].asset \/ j.asset = NoAsset,
             j.asset # job[w].asset /\ job[w].asset \in Assets /\ row[job[w].asset] = "none" =>
                 job[w].asset \notin blobs \/ job[w].asset \in orphans',
             UNCHANGED <<row, blobs, sweep, failed>>, orphans \subseteq orphans'
      PROVE  Alone' /\ Handed' /\ Undone' /\ Failed' /\ Swept' /\ Stored'
  <2>1. j.pc \in Holding => j.asset = job[w].asset
    BY <1>1, StorageAssumption DEF StorageAssumption, Fit
  <2>2. \/ j.asset = job[w].asset
        \/ job[w].asset \notin blobs
        \/ job[w].asset \in orphans'
        \/ row[job[w].asset] # "none"
    BY <1>1 DEF Inv, Types
  <2> QED
    BY <1>1, <2>1, <2>2, Moves
<1>2. CASE TransferAll(w)
  <2> DEFINE j == [job[w] EXCEPT !.pc = "reserve"]
  <2>1. Fit(j) /\ HandedBy(j) /\ UndoneBy(j) /\ j.asset = job[w].asset
    BY <1>0, <1>2 DEF TransferAll, At, Fit, Jobs, Holding, HandedBy, UndoneBy
  <2> QED
    BY <1>1, <1>2, <2>1 DEF TransferAll, Goto
<1>3. CASE Refuse(w)
  <2> DEFINE j == [job[w] EXCEPT !.pc = "rollback"]
  <2>1. Fit(j) /\ HandedBy(j) /\ UndoneBy(j) /\ j.asset = job[w].asset
    BY <1>0, <1>3 DEF Refuse, At, Fit, Jobs, Holding, HandedBy, UndoneBy
  <2> QED
    BY <1>1, <1>3, <2>1 DEF Refuse, Goto
<1>4. CASE PutFails(w)
  <2> DEFINE j == [job[w] EXCEPT !.pc = "release"]
  <2>1. Fit(j) /\ HandedBy(j) /\ UndoneBy(j) /\ j.asset = job[w].asset
    BY <1>0, <1>4 DEF PutFails, At, Fit, Jobs, Holding, HandedBy, UndoneBy
  <2> QED
    BY <1>1, <1>4, <2>1 DEF PutFails, Goto
<1>5. CASE CreateFails(w)
  <2> DEFINE j == [job[w] EXCEPT !.pc = "unput"]
  <2>1. Fit(j) /\ HandedBy(j) /\ UndoneBy(j) /\ j.asset = job[w].asset
    BY <1>0, <1>5 DEF CreateFails, At, Fit, Jobs, Holding, HandedBy, UndoneBy
  <2> QED
    BY <1>1, <1>5, <2>1 DEF CreateFails, Goto
<1>6. ASSUME NEW u \in Uploads, Promote(w, u)
      PROVE  Alone' /\ Handed' /\ Undone' /\ Failed' /\ Swept' /\ Stored'
  <2> DEFINE j == [job[w] EXCEPT !.pc = "reserve", !.upload = u]
  <2>1. Fit(j) /\ HandedBy(j) /\ UndoneBy(j) /\ j.asset = job[w].asset
    BY <1>0, <1>6 DEF Promote, At, Fit, Jobs, Holding, HandedBy, UndoneBy
  <2> QED
    BY <1>1, <1>6, <2>1 DEF Promote
<1>7. CASE Reserve(w)
  <2>1. PICK n \in IF Transfers(w) THEN Estimates ELSE {UploadSize[job[w].upload]} :
            /\ At(w, "reserve")
            /\ Step(w, [job[w] EXCEPT !.pc = "put", !.reserved = n])
    BY <1>7 DEF Reserve
  <2> DEFINE j == [job[w] EXCEPT !.pc = "put", !.reserved = n]
  <2>2. n \in Nat
    BY <2>1, Amounts DEF Inv
  <2>3. Fit(j) /\ HandedBy(j) /\ UndoneBy(j) /\ j.asset = job[w].asset
    BY <1>0, <2>1, <2>2 DEF At, Fit, Jobs, Holding, HandedBy, UndoneBy
  <2> QED
    BY <1>1, <1>7, <2>1, <2>3 DEF Reserve
<1>8. CASE ReadBack(w)
  <2> DEFINE c == [job[w] EXCEPT !.pc = "commit"]
             d == [job[w] EXCEPT !.pc = "unput"]
  <2>1. CASE row[job[w].asset] = "live" /\ Step(w, c)
    <3>1. Fit(c) /\ HandedBy(c) /\ UndoneBy(c) /\ c.asset = job[w].asset
      BY <1>0, <1>8 DEF ReadBack, At, Fit, Jobs, Holding, HandedBy, UndoneBy
    <3> QED
      BY <1>1, <1>8, <2>1, <3>1 DEF ReadBack
  <2>2. CASE (row[job[w].asset] # "live" \/ ReadBackFails) /\ Step(w, d)
    <3>1. Fit(d) /\ HandedBy(d) /\ UndoneBy(d) /\ d.asset = job[w].asset
      BY <1>0, <1>8, <2>2 DEF ReadBack, At, Fit, Jobs, Holding, HandedBy, UndoneBy
    <3> QED
      BY <1>1, <1>8, <2>2, <3>1 DEF ReadBack
  <2> QED
    BY <1>8, <2>1, <2>2 DEF ReadBack, Goto
<1>9. CASE Release(w)
  <2> DEFINE j == [job[w] EXCEPT !.pc = "rollback", !.reserved = 0]
  <2>1. Fit(j) /\ HandedBy(j) /\ UndoneBy(j) /\ j.asset = job[w].asset
    BY <1>0, <1>9 DEF Release, At, Fit, Jobs, Holding, HandedBy, UndoneBy
  <2> QED
    BY <1>1, <1>9, <2>1 DEF Release
<1>10. CASE Commit(w)
  <2> DEFINE made == job[w].made \cup {job[w].asset}
             next == [job[w] EXCEPT !.pc = "reserve", !.made = made, !.asset = NoAsset,
                                    !.reserved = 0]
             mark == [job[w] EXCEPT !.pc = "mark", !.reserved = 0]
  <2>1. /\ job[w].asset \in Assets
        /\ row[job[w].asset] # "none"
    BY <1>0, <1>10 DEF Commit, At, Fit, Holding, HandedBy
  <2>2. Fit(next) /\ Fit(mark)
    BY <1>0, <2>1, StorageAssumption DEF StorageAssumption, Fit, Jobs, Holding
  <2>3. HandedBy(next) /\ UndoneBy(next) /\ next.asset = NoAsset
    BY <1>0 DEF Fit, Jobs, HandedBy, UndoneBy
  <2>4. HandedBy(mark) /\ UndoneBy(mark) /\ mark.asset = job[w].asset
    BY <1>0, <1>10 DEF Commit, At, Fit, Jobs, HandedBy, UndoneBy
  <2>5. Step(w, Idle) \/ Step(w, next) \/ Step(w, mark)
    BY <1>10 DEF Commit
  <2>6. UNCHANGED <<row, blobs, sweep, failed, orphans>>
    BY <1>10 DEF Commit
  <2>7. CASE Step(w, Idle)
    BY <1>0, <1>1, <2>1, <2>6, <2>7 DEF Idle
  <2>8. CASE Step(w, next)
    BY <1>1, <2>1, <2>2, <2>3, <2>6, <2>8
  <2>9. CASE Step(w, mark)
    BY <1>1, <2>2, <2>4, <2>6, <2>9
  <2> QED
    BY <2>5, <2>7, <2>8, <2>9
<1>11. CASE MarkPromoted(w)
  <2>1. row[job[w].asset] # "none"
    BY <1>0, <1>11 DEF MarkPromoted, At, HandedBy
  <2>2. Idle.asset = NoAsset
    BY DEF Idle
  <2> QED
    BY <1>0, <1>1, <1>11, <2>1, <2>2 DEF MarkPromoted
<1>12. CASE Crash(w)
  <2>1. Idle.asset = NoAsset
    BY DEF Idle
  <2>2. /\ orphans \subseteq orphans'
        /\ job[w].asset \in blobs /\ row[job[w].asset] = "none" => job[w].asset \in orphans'
    BY <1>12 DEF Crash
  <2> QED
    BY <1>0, <1>1, <1>12, <2>1, <2>2 DEF Crash
<1> QED
  BY <1>2, <1>3, <1>4, <1>5, <1>6, <1>7, <1>8, <1>9, <1>10, <1>11, <1>12

\* A worker's record after Step.
LEMMA Stepped ==
    ASSUME Types, NEW w \in Workers, NEW j, Step(w, j)
    PROVE  \A v \in Workers : job'[v] = IF v = w THEN j ELSE job[v]
BY DEF Types, Step

\* The steps that write an object or a row, or take them back.
LEMMA LoudWorkKept ==
    ASSUME StorageAssumption, Inv, NEW w \in Workers,
           \/ Put(w) \/ Create(w) \/ Unput(w) \/ Rollback(w) \/ RolledBack(w)
    PROVE  Alone' /\ Handed' /\ Undone' /\ Failed' /\ Swept' /\ Stored'
<1>0. /\ HandedBy(job[w]) /\ UndoneBy(job[w]) /\ Fit(job[w])
      /\ HandedBy(Idle) /\ UndoneBy(Idle) /\ Fit(Idle)
  BY Promises
<1>1. \A v \in Workers : job[v].pc \in Holding => job[v].asset \in Assets
  BY DEF Inv, Types
<1>2. CASE Put(w)
  <2>1. PICK a \in Assets,
             n \in IF Transfers(w) THEN Sizes ELSE {UploadSize[job[w].upload]} :
            /\ row[a] = "none"
            /\ a \notin blobs
            /\ \A v \in Workers : job[v].asset # a
            /\ blobs' = blobs \cup {a}
            /\ Step(w, [job[w] EXCEPT !.pc = "create", !.asset = a, !.bytes = n])
    BY <1>2 DEF Put
  <2> DEFINE j == [job[w] EXCEPT !.pc = "create", !.asset = a, !.bytes = n]
  <2>2. \A v \in Workers : job'[v] = IF v = w THEN j ELSE job[v]
    BY <2>1, Stepped DEF Inv
  <2>3. /\ j.pc = "create" /\ j.asset = a
        /\ j.made = job[w].made /\ j.born = job[w].born
    BY <1>0 DEF Fit, Jobs
  <2>4. UNCHANGED <<row, sweep, failed, orphans>>
    BY <1>2 DEF Put, rows, left
  <2> HIDE DEF j
  <2>5. Alone'
    BY <2>1, <2>2, <2>3 DEF Inv, Alone
  <2>6. Handed'
    BY <2>1, <2>2, <2>3, <2>4 DEF Inv, Handed, HandedBy
  <2>7. Undone'
    <3>1. /\ job'[w].made = job[w].made /\ job'[w].born = job[w].born
          /\ job[w].pc = "put"
      BY <1>2, <2>2, <2>3 DEF Put, At
    <3>2. UndoneBy(job[w])'
      BY <1>0, <2>4, <3>1 DEF UndoneBy
    <3>3. ASSUME NEW v \in Workers, v # w PROVE UndoneBy(job[v])'
      <4>1. job'[v] = job[v] /\ UndoneBy(job[v])
        BY <2>2, <3>3 DEF Inv, Undone
      <4> QED
        BY <2>4, <4>1 DEF UndoneBy
    <3> QED
      BY <3>2, <3>3 DEF Undone
  <2>8. Failed' /\ Swept'
    BY <2>1, <2>4 DEF Inv, Failed, Swept
  <2>9. Stored'
    <3>1. \A v \in Workers : job[v].asset \in Assets => job'[v].asset = job[v].asset
      BY <1>0, <1>2, <2>2 DEF Put, At, Fit, Holding
    <3>2. job'[w].asset = a
      BY <2>2, <2>3
    <3> QED
      BY <2>1, <2>4, <3>1, <3>2 DEF Inv, Stored
  <2> QED
    BY <2>5, <2>6, <2>7, <2>8, <2>9
<1>3. CASE Create(w)
  <2> DEFINE a == job[w].asset
             j == [job[w] EXCEPT !.pc = "read", !.born = @ \cup {a}]
  <2>1. /\ a \in Assets /\ row[a] = "none" /\ a \in blobs
        /\ job[w].pc \in Holding
    BY <1>0, <1>3 DEF Create, At, Fit, Holding, HandedBy
  <2>2. \A v \in Workers : job'[v] = IF v = w THEN j ELSE job[v]
    BY <1>3, Stepped DEF Inv, Create
  <2>3. /\ j.pc = "read" /\ j.asset = a
        /\ j.made = job[w].made /\ j.born = job[w].born \cup {a}
    BY <1>0 DEF Fit, Jobs
  <2>4. UNCHANGED <<blobs, sweep, failed, orphans>>
    BY <1>3 DEF Create, left
  <2>5. \A b \in Assets : row'[b] = IF b = a THEN "live" ELSE row[b]
    BY <1>3 DEF Create, Inv, Types
  <2>6. \A v \in Workers : v # w /\ job[v].pc \in Holding => job[v].asset # a
    BY <2>1 DEF Inv, Alone
  <2> HIDE DEF a, j
  <2>7. Alone'
    <3>1. j.pc \in Holding
      BY <2>3 DEF Holding
    <3> QED
      BY <2>2, <2>3, <2>6, <3>1 DEF Inv, Alone
  <2>8. Handed'
    <3>1. HandedBy(job[w])'
      BY <2>1, <2>2, <2>3, <2>5 DEF HandedBy
    <3>2. ASSUME NEW v \in Workers, v # w PROVE HandedBy(job[v])'
      <4>1. HandedBy(job[v])
        BY DEF Inv, Handed
      <4>2. job'[v] = job[v]
        BY <2>2, <3>2
      <4>3. job[v].pc \in Holding => row'[job[v].asset] = row[job[v].asset]
        BY <1>1, <2>5, <2>6, <3>2
      <4> QED
        BY <2>4, <4>1, <4>2, <4>3 DEF HandedBy, Holding
    <3> QED
      BY <3>1, <3>2 DEF Handed
  <2>9. Undone'
    <3>1. ASSUME NEW v \in Workers, NEW b \in job'[v].born, b # a
          PROVE  /\ row'[b] # "none"
                 /\ row'[b] = "live" /\ ~ReadBackFails =>
                      \/ b \in job'[v].made
                      \/ b = job'[v].asset /\ job'[v].pc \in {"read", "commit", "mark"}
      <4>1. b \in job[v].born
        BY <2>2, <2>3, <3>1
      <4>2. row'[b] = row[b]
        BY <2>5, <3>1, <4>1, JobFields DEF Inv
      <4>3. UndoneBy(job[v])
        BY DEF Inv, Undone
      <4>4. CASE v = w
        BY <1>3, <2>2, <2>3, <4>1, <4>2, <4>3, <4>4 DEF UndoneBy, Create, At
      <4>5. CASE v # w
        BY <2>2, <4>1, <4>2, <4>3, <4>5 DEF UndoneBy
      <4> QED
        BY <4>4, <4>5
    <3>2. ASSUME NEW v \in Workers, a \in job'[v].born PROVE v = w
      BY <2>1, <2>2, <3>2 DEF Inv, Undone, UndoneBy
    <3>3. /\ row'[a] # "none"
          /\ a = job'[w].asset /\ job'[w].pc \in {"read", "commit", "mark"}
      BY <2>1, <2>2, <2>3, <2>5
    <3> QED
      BY <3>1, <3>2, <3>3 DEF Undone, UndoneBy
  <2>10. Failed'
    <3>1. a \notin failed
      BY <2>1 DEF Inv, Failed
    <3> QED
      BY <2>4, <2>5, <3>1 DEF Inv, Types, Failed
  <2>11. Swept'
    BY <2>1, <2>4, <2>5 DEF Inv, Types, Sweeps, Swept
  <2>12. Stored'
    <3>1. \A v \in Workers : job'[v].asset = job[v].asset
      BY <2>2, <2>3 DEF a
    <3> QED
      BY <2>1, <2>4, <2>5, <3>1 DEF Inv, Stored
  <2> QED
    BY <2>7, <2>8, <2>9, <2>10, <2>11, <2>12
<1>4. CASE Unput(w)
  <2> DEFINE a == job[w].asset
             j == [job[w] EXCEPT !.pc = "release", !.asset = NoAsset]
  <2>1. /\ a \in Assets /\ job[w].pc \in Holding /\ job[w].pc = "unput"
        /\ row[a] = "live" => ReadBackFails
    BY <1>0, <1>4 DEF Unput, At, Fit, Holding, HandedBy
  <2>2. /\ j.pc = "release" /\ j.asset = NoAsset
        /\ j.made = job[w].made /\ j.born = job[w].born
    BY <1>0 DEF Fit, Jobs
  <2>3. Fit(j)
    BY <1>0, StorageAssumption DEF StorageAssumption, Fit, Jobs, Holding
  <2>4. HandedBy(j) /\ UndoneBy(j)
    BY <1>0, <2>1, <2>2 DEF HandedBy, UndoneBy
  <2>5. UNCHANGED <<row, sweep, failed>> /\ Step(w, j)
    BY <1>4 DEF Unput, rows
  <2>6. CASE orphans' = orphans \cup {a} /\ UNCHANGED blobs
    <3>1. ~(j.pc \in Holding)
      BY <2>2 DEF Holding
    <3> QED
      BY <2>3, <2>4, <2>5, <2>6, <3>1, Moves
  <2>7. CASE blobs' = blobs \ {a} /\ UNCHANGED orphans
    <3>1. \A v \in Workers : job'[v] = IF v = w THEN j ELSE job[v]
      BY <2>5, Stepped DEF Inv
    <3>2. \A v \in Workers : v # w /\ job[v].pc \in Holding => job[v].asset # a
      BY <2>1 DEF Inv, Alone
    <3> HIDE DEF a, j
    <3>3. Alone'
      BY <2>2, <3>1 DEF Inv, Alone, Holding
    <3>4. Handed'
      BY <2>2, <2>5, <2>7, <3>1, <3>2 DEF Inv, Handed, HandedBy, Holding
    <3>5. Undone'
      BY <2>4, <2>5, <3>1 DEF Inv, Undone, UndoneBy
    <3>6. Failed' /\ Swept'
      BY <2>5, <2>7 DEF Inv, Failed, Swept
    <3>7. Stored'
      <4> SUFFICES ASSUME NEW b \in Assets
                   PROVE  /\ row[b] = "live" /\ ~ReadBackFails => b \in blobs'
                          /\ row[b] = "gone" => b \notin blobs'
                          /\ row[b] = "none" /\ b \in blobs' =>
                                b \in orphans' \/ \E v \in Workers : job'[v].asset = b
        BY <2>5 DEF Stored
      <4>1. CASE b = a
        BY <2>1, <2>7, <4>1
      <4>2. CASE b # a
        <5>1. ASSUME row[b] = "none", b \in blobs', b \notin orphans'
              PROVE  \E v \in Workers : job'[v].asset = b
          <6>1. PICK v \in Workers : job[v].asset = b
            BY <2>7, <5>1 DEF Inv, Stored
          <6>2. v # w
            BY <4>2, <6>1 DEF a
          <6> QED
            BY <3>1, <6>1, <6>2
        <5> QED
          BY <2>7, <4>2, <5>1 DEF Inv, Stored
      <4> QED
        BY <4>1, <4>2
    <3> QED
      BY <3>3, <3>4, <3>5, <3>6, <3>7
  <2> QED
    BY <1>4, <2>6, <2>7 DEF Unput
<1>5. CASE Rollback(w)
  <2>1. PICK a \in job[w].made :
            \/ /\ row[a] = "live"
               /\ row' = [row EXCEPT ![a] = "deleted"]
               /\ Step(w, [job[w] EXCEPT !.made = @ \ {a}])
            \/ /\ row[a] # "live"
               /\ Step(w, [job[w] EXCEPT !.made = @ \ {a}])
               /\ UNCHANGED row
            \/ /\ Step(w, [job[w] EXCEPT !.made = @ \ {a}, !.born = @ \ {a}])
               /\ UNCHANGED row
    BY <1>5 DEF Rollback
  <2>2. a \in Assets /\ UNCHANGED <<blobs, sweep, failed, orphans>> /\ At(w, "rollback")
    BY <1>5, <2>1, JobFields DEF Rollback, Inv
  <2> DEFINE c == [job[w] EXCEPT !.made = @ \ {a}]
             d == [job[w] EXCEPT !.made = @ \ {a}, !.born = @ \ {a}]
  <2>3. CASE row[a] = "live" /\ row' = [row EXCEPT ![a] = "deleted"] /\ Step(w, c)
    BY <2>2, <2>3, Hides
  <2>4. CASE row[a] # "live" /\ Step(w, c) /\ UNCHANGED row
    <3>1. Fit(c) /\ HandedBy(c) /\ UndoneBy(c) /\ c.asset = job[w].asset
      BY <1>0, <2>2, <2>4 DEF At, Fit, Jobs, HandedBy, UndoneBy
    <3> QED
      BY <2>2, <2>4, <3>1, Moves
  <2>5. CASE Step(w, d) /\ UNCHANGED row
    <3>1. Fit(d) /\ HandedBy(d) /\ UndoneBy(d) /\ d.asset = job[w].asset
      BY <1>0, <2>2, <2>5 DEF At, Fit, Jobs, HandedBy, UndoneBy
    <3> QED
      BY <2>2, <2>5, <3>1, Moves
  <2> QED
    BY <2>1, <2>3, <2>4, <2>5
<1>6. CASE RolledBack(w)
  <2>1. \A v \in Workers : job'[v] = IF v = w THEN Idle ELSE job[v]
    BY <1>6, Stepped DEF RolledBack, Inv
  <2>2. UNCHANGED <<row, blobs, sweep, orphans>>
    BY <1>6 DEF RolledBack, rows
  <2>3. Alone'
    BY <2>1 DEF Inv, Alone, Idle, Holding
  <2>4. Handed' /\ Undone'
    BY <1>0, <2>1, <2>2 DEF Inv, Handed, HandedBy, Undone, UndoneBy
  <2>5. Failed'
    <3>1. \A a \in job[w].born : row[a] # "none" /\ (row[a] = "live" => ReadBackFails)
      BY <1>0, <1>6 DEF RolledBack, At, UndoneBy
    <3> QED
      BY <1>6, <2>2, <3>1 DEF RolledBack, Inv, Failed
  <2>6. Swept'
    BY <2>2 DEF Inv, Swept
  <2>7. Stored'
    <3>1. \A v \in Workers : job[v].asset \in Assets => job'[v].asset = job[v].asset
      BY <1>0, <1>6, <2>1 DEF RolledBack, At, Fit, Holding
    <3> QED
      BY <2>2, <3>1 DEF Inv, Stored
  <2> QED
    BY <2>3, <2>4, <2>5, <2>6, <2>7
<1> QED
  BY <1>2, <1>3, <1>4, <1>5, <1>6

\* What the cleanup takes is in nobody's sight and in nobody's way.
LEMMA CleanupKept ==
    ASSUME StorageAssumption, Inv, Cleanup
    PROVE  Alone' /\ Handed' /\ Undone' /\ Failed' /\ Swept' /\ Stored'
<1>0. UNCHANGED <<job, orphans>>
  BY DEF Cleanup, ListExpired, RemoveUploadFile, RemoveUploadRow, ListSoftDeleted,
         RemoveBlob, HardDelete, Recompute, SweepEnds, left
<1>1. Alone'
  BY <1>0 DEF Inv, Alone
<1>2. ASSUME UNCHANGED <<row, blobs, failed>>
      PROVE  Handed' /\ Undone' /\ Failed' /\ Stored'
  BY <1>0, <1>2 DEF Inv, Handed, HandedBy, Undone, UndoneBy, Failed, Stored
<1>3. ASSUME UNCHANGED <<row, blobs, failed>>,
             sweep'.assets \subseteq sweep.assets \cup {a \in Assets : row[a] = "deleted"},
             sweep'.pc # "assetRow"
      PROVE  Handed' /\ Undone' /\ Failed' /\ Stored' /\ Swept'
  <2>1. Swept'
    BY <1>3 DEF Inv, Swept
  <2> QED
    BY <1>2, <1>3, <2>1
<1>4. sweep \in Sweeps
  BY DEF Inv, Types
<1>5. CASE ListExpired \/ ListSoftDeleted \/ SweepEnds
  <2>1. UNCHANGED <<row, blobs, failed>>
    BY <1>5 DEF ListExpired, ListSoftDeleted, SweepEnds, rows, left
  <2>2. ASSUME ListExpired PROVE sweep'.pc = "uploads" /\ sweep'.assets = {}
    BY <2>2 DEF ListExpired, Rest
  <2>3. ASSUME ListSoftDeleted
        PROVE  sweep'.pc = "assets" /\ sweep'.assets = {a \in Assets : row[a] = "deleted"}
    BY <2>3 DEF ListSoftDeleted, Rest
  <2>4. ASSUME SweepEnds PROVE sweep'.pc = "idle" /\ sweep'.assets = {}
    BY <2>4 DEF SweepEnds, Rest
  <2> QED
    BY <1>1, <1>3, <1>5, <2>1, <2>2, <2>3, <2>4
<1>6. CASE (\E u \in Uploads : RemoveUploadFile(u)) \/ RemoveUploadRow
  <2>1. sweep'.assets = sweep.assets /\ sweep'.pc # "assetRow"
    BY <1>4, <1>6 DEF RemoveUploadFile, RemoveUploadRow, Sweeps
  <2> QED
    BY <1>1, <1>3, <1>6, <2>1 DEF RemoveUploadFile, RemoveUploadRow, rows, left
<1>7. CASE Recompute
  <2>1. sweep'.assets = sweep.assets /\ sweep'.pc # "assetRow"
    BY <1>4, <1>7 DEF Recompute, Sweeps
  <2> QED
    BY <1>1, <1>3, <1>7, <2>1 DEF Recompute, rows, left
<1>8. ASSUME NEW a \in Assets, RemoveBlob(a)
      PROVE  Handed' /\ Undone' /\ Failed' /\ Stored' /\ Swept'
  <2>1. /\ row[a] \in {"deleted", "gone"}
        /\ blobs' = blobs \ {a}
        /\ UNCHANGED <<row, failed>>
        /\ sweep'.pc = "assetRow" /\ sweep'.asset = a /\ sweep'.assets \subseteq sweep.assets
    BY <1>4, <1>8 DEF RemoveBlob, Inv, Swept, rows, left, Sweeps
  <2>2. Handed'
    BY <1>0, <2>1 DEF Inv, Handed, HandedBy
  <2>3. Undone' /\ Failed'
    BY <1>0, <2>1 DEF Inv, Undone, UndoneBy, Failed
  <2>4. Stored'
    BY <1>0, <2>1 DEF Inv, Stored
  <2>5. Swept'
    BY <2>1 DEF Inv, Swept
  <2> QED
    BY <2>2, <2>3, <2>4, <2>5
<1>9. CASE HardDelete
  <2> DEFINE a == sweep.asset
  <2>1. /\ a \in Assets /\ a \notin blobs /\ row[a] = "deleted"
        /\ failed' = failed \ {a}
        /\ UNCHANGED blobs
    BY <1>9 DEF HardDelete, Inv, Swept
  <2>2. /\ \A b \in Assets : row'[b] = IF b = a THEN "gone" ELSE row[b]
        /\ sweep'.pc = "recompute" /\ sweep'.assets = sweep.assets
    BY <1>4, <1>9 DEF HardDelete, Inv, Types, Sweeps
  <2>3. \A v \in Workers : /\ job[v].pc \in Holding => job[v].asset \in Assets
                           /\ job[v].born \subseteq Assets
    BY JobFields DEF Inv, Fit
  <2> HIDE DEF a
  <2>4. Handed'
    BY <1>0, <2>1, <2>2, <2>3 DEF Inv, Handed, HandedBy, Holding
  <2>5. Undone'
    BY <1>0, <2>1, <2>2, <2>3 DEF Inv, Undone, UndoneBy
  <2>6. Failed'
    BY <2>1, <2>2 DEF Inv, Types, Failed
  <2>7. Stored'
    BY <1>0, <2>1, <2>2 DEF Inv, Stored
  <2>8. Swept'
    BY <1>4, <2>1, <2>2 DEF Inv, Swept, Sweeps
  <2> QED
    BY <1>1, <2>4, <2>5, <2>6, <2>7, <2>8
<1> QED
  BY <1>1, <1>5, <1>6, <1>7, <1>8, <1>9 DEF Cleanup

\* An upload without an asset gets one only when it is marked.
LEMMA MarkedKept ==
    ASSUME StorageAssumption, Inv, [Next]_vars
    PROVE  Marked'
<1>1. ASSUME UNCHANGED <<upload, promoted>> PROVE Marked'
  BY <1>1 DEF Inv, Marked
<1>2. ASSUME NEW w \in Workers, MarkPromoted(w) PROVE Marked'
  BY <1>2 DEF MarkPromoted, Inv, Types, Marked
<1>3. ASSUME NEW w \in Workers, Work(w), ~MarkPromoted(w) PROVE UNCHANGED <<upload, promoted>>
  BY <1>3 DEF Work, TransferAll, Reserve, Refuse, Put, PutFails, Create, CreateFails, ReadBack,
       Unput, Release, Rollback, RolledBack, Commit, Crash, Promote, uploads
<1>4. ASSUME NEW u \in Uploads, Upload(u) PROVE Marked'
  BY <1>4 DEF Upload, Inv, Types, Marked
<1>5. CASE RemoveUploadRow
  BY <1>5 DEF RemoveUploadRow, Inv, Types, Marked
<1>6. CASE HardDelete
  BY <1>6 DEF HardDelete, Inv, Types, Marked
<1>7. ASSUME Cleanup, ~RemoveUploadRow, ~HardDelete PROVE UNCHANGED <<upload, promoted>>
  BY <1>7 DEF Cleanup, ListExpired, RemoveUploadFile, ListSoftDeleted,
       RemoveBlob, Recompute, SweepEnds, uploads
<1>8. ASSUME NEW a \in Assets, Delete(a) PROVE UNCHANGED <<upload, promoted>>
  BY <1>8 DEF Delete, uploads
<1>9. CASE UNCHANGED vars
  BY <1>1, <1>9 DEF vars, uploads
<1> QED
  BY <1>1, <1>2, <1>3, <1>4, <1>5, <1>6, <1>7, <1>8, <1>9 DEF Next

\* Every step keeps the invariant.
LEMMA InvKept ==
    ASSUME StorageAssumption, Inv, [Next]_vars
    PROVE  Inv'
<1>1. Types'
  BY TypesKept DEF Inv
<1>2. Marked'
  BY MarkedKept
<1>3. Alone' /\ Handed' /\ Undone' /\ Failed' /\ Swept' /\ Stored'
  <2>1. ASSUME NEW w \in Workers, Work(w)
        PROVE  Alone' /\ Handed' /\ Undone' /\ Failed' /\ Swept' /\ Stored'
    BY <2>1, QuietWorkKept, LoudWorkKept DEF Work
  <2>2. ASSUME UNCHANGED <<row, blobs, job, sweep, failed, orphans>>
        PROVE  Alone' /\ Handed' /\ Undone' /\ Failed' /\ Swept' /\ Stored'
    BY <2>2 DEF Inv, Alone, Handed, HandedBy, Undone, UndoneBy, Failed, Swept, Stored
  <2>3. ASSUME NEW u \in Uploads, Upload(u)
        PROVE  UNCHANGED <<row, blobs, job, sweep, failed, orphans>>
    BY <2>3 DEF Upload, rows, left
  <2>4. ASSUME NEW a \in Assets, Delete(a)
        PROVE  Alone' /\ Handed' /\ Undone' /\ Failed' /\ Swept' /\ Stored'
    BY <2>4, Hides DEF Delete, left
  <2>5. CASE UNCHANGED vars
    BY <2>2, <2>5 DEF vars, rows, left
  <2> QED
    BY <2>1, <2>2, <2>3, <2>4, <2>5, CleanupKept DEF Next
<1> QED
  BY <1>1, <1>2, <1>3 DEF Inv

\* The invariant holds of every state.
LEMMA StorageInvariant == Spec => []Inv
<1>1. Init => Inv
  <2> SUFFICES ASSUME Init PROVE Inv
    OBVIOUS
  <2>1. Types
    BY StorageAssumption, InitTypes
  <2>2. \A w \in Workers : job[w] = Idle
    BY DEF Init
  <2>3. Idle.pc = "idle" /\ Idle.born = {} /\ Rest.assets = {} /\ Rest.pc = "idle"
    BY DEF Idle, Rest
  <2>4. Alone /\ Handed /\ Undone
    BY <2>2, <2>3 DEF Alone, Handed, HandedBy, Undone, UndoneBy, Holding
  <2>5. Failed /\ Swept /\ Stored /\ Marked
    BY <2>3 DEF Init, Failed, Swept, Stored, Marked
  <2> QED
    BY <2>1, <2>4, <2>5 DEF Inv
<1>2. Inv /\ [Next]_vars => Inv'
  BY StorageAssumption, InvKept
<1> QED
  BY <1>1, <1>2, PTL DEF Spec

-----------------------------------------------------------------------------
(* The properties *)

\* An asset its owner can see has its object, as long as no committed row fails to
\* be read back (transferor.go Transfer).
THEOREM EveryLiveAssetHasBytes == Spec => []AssetHasBytes
<1>1. Inv => AssetHasBytes
  BY DEF Inv, Types, Stored, AssetHasBytes, Live
<1> QED
  BY <1>1, StorageInvariant, PTL

\* An object that no row names is in a worker's hand or an orphan of a fault
\* (transferor.go Transfer, handlers_admin_ops.go cleanupSoftDeletedAssets).
THEOREM NoOtherOrphans == Spec => []NoOrphans
<1>1. Inv => NoOrphans
  BY DEF Inv, Types, Stored, NoOrphans
<1> QED
  BY <1>1, StorageInvariant, PTL

\* A failed transfer leaves nothing in sight that it could delete (transferor.go
\* TransferAll).
THEOREM FailedTransfersUndone == Spec => []AllOrNothing
<1>1. Inv => AllOrNothing
  BY DEF Inv, Failed, AllOrNothing, Live
<1> QED
  BY <1>1, StorageInvariant, PTL

\* An upload keeps the asset it was given until the row of one of them is removed
\* (upload.go MarkPromoted).
THEOREM UploadsPromotedOnce == Spec => PromotedOnce
<1> DEFINE Once == \A u \in Uploads : promoted[u] # NoAsset /\ promoted'[u] # promoted[u] =>
                       /\ promoted'[u] = NoAsset
                       /\ row'[promoted[u]] = "gone" \/ upload'[u] = "gone"
<1>1. Inv /\ [Next]_vars => [Once]_vars
  <2> SUFFICES ASSUME Inv, Next, NEW u \in Uploads,
                      promoted[u] # NoAsset, promoted'[u] # promoted[u]
               PROVE  /\ promoted'[u] = NoAsset
                      /\ row'[promoted[u]] = "gone" \/ upload'[u] = "gone"
    OBVIOUS
  <2>0. upload[u] \notin {"none", "pending"} /\ promoted[u] \in Assets
    BY DEF Inv, Types, Marked
  <2>1. ASSUME NEW w \in Workers, Work(w) PROVE FALSE
    <3>1. CASE MarkPromoted(w)
      BY <2>0, <3>1 DEF MarkPromoted, Inv, Types
    <3>2. CASE UNCHANGED promoted
      BY <3>2
    <3> QED
      BY <2>1, <3>1, <3>2 DEF Work, TransferAll, Reserve, Refuse, Put, PutFails, Create,
           CreateFails, ReadBack, Unput, Release, Rollback, RolledBack, Commit, Crash,
           Promote, uploads
  <2>2. CASE RemoveUploadRow
    BY <2>2 DEF RemoveUploadRow, Inv, Types
  <2>3. CASE HardDelete
    BY <2>0, <2>3 DEF HardDelete, Inv, Types
  <2>4. ASSUME Cleanup, ~RemoveUploadRow, ~HardDelete PROVE FALSE
    BY <2>4 DEF Cleanup, ListExpired, RemoveUploadFile, ListSoftDeleted,
         RemoveBlob, Recompute, SweepEnds, uploads
  <2> QED
    BY <2>1, <2>2, <2>3, <2>4 DEF Next, Upload, Delete, uploads
<1> QED
  BY <1>1, StorageInvariant, PTL DEF Spec, PromotedOnce

-----------------------------------------------------------------------------
(* Sums *)

\* What x adds to the sum of f over S.
Share(S, f, x) == IF x \in S THEN f[x] ELSE 0

\* As many pairs as numbers.
LEMMA PairsCount ==
    ASSUME NEW x, NEW n \in Nat
    PROVE  IsFiniteSet({x} \X (1 .. n)) /\ Cardinality({x} \X (1 .. n)) = n
<1> DEFINE S == {x} \X (1 .. n)
           f == [i \in 1 .. n |-> <<x, i>>]
<1>1. f \in Bijection(1 .. n, S)
  <2>1. f \in [1 .. n -> S]
    OBVIOUS
  <2>2. \A i, j \in 1 .. n : f[i] = f[j] => i = j
    OBVIOUS
  <2>3. \A z \in S : \E i \in 1 .. n : f[i] = z
    OBVIOUS
  <2> HIDE DEF f, S
  <2> QED
    BY <2>1, <2>2, <2>3, Fun_IsBij
<1>2. ExistsBijection(1 .. n, S)
  BY <1>1 DEF ExistsBijection
<1> HIDE DEF S
<1>3. IsFiniteSet(S) /\ Cardinality(S) = n
  BY <1>2, FS_NatBijection, FS_CountingElements
<1> QED
  BY <1>3 DEF S

\* The sum of nothing.
LEMMA NothingAddsUp ==
    ASSUME NEW f PROVE IsFiniteSet(Units({}, f)) /\ Total({}, f) = 0
<1>1. Units({}, f) = {}
  BY DEF Units
<1> QED
  BY <1>1, FS_EmptySet DEF Total

\* Sums that differ in what x adds differ by that.
LEMMA TotalMoves ==
    ASSUME NEW S, NEW f, NEW T, NEW g, NEW x, IsFiniteSet(Units(S, f)),
           x \in S => f[x] \in Nat,
           x \in T => g[x] \in Nat,
           \A y \in S \cup T : y # x => y \in S /\ y \in T /\ f[y] = g[y]
    PROVE  /\ IsFiniteSet(Units(T, g))
           /\ Total(S, f) \in Nat
           /\ Total(T, g) \in Nat
           /\ Share(S, f, x) <= Total(S, f)
           /\ Total(T, g) = Total(S, f) - Share(S, f, x) + Share(T, g, x)
<1> DEFINE A == {x} \X (1 .. Share(S, f, x))
           B == {x} \X (1 .. Share(T, g, x))
           U == Units(S, f)
           V == Units(T, g)
           R == UNION {{y} \X (1 .. f[y]) : y \in S \ {x}}
<1>1. Share(S, f, x) \in Nat /\ Share(T, g, x) \in Nat
  BY DEF Share
<1>2. U = R \cup A /\ V = R \cup B /\ R \cap A = {} /\ R \cap B = {}
  <2>1. U = R \cup A
    BY DEF Units, Share
  <2>2. V = R \cup B
    BY DEF Units, Share
  <2> QED
    BY <2>1, <2>2
<1>3. /\ IsFiniteSet(A) /\ Cardinality(A) = Share(S, f, x)
      /\ IsFiniteSet(B) /\ Cardinality(B) = Share(T, g, x)
  BY <1>1, PairsCount
<1> HIDE DEF A, B, U, V, R
<1>4. IsFiniteSet(R) /\ Cardinality(R) \in Nat
  BY <1>2, FS_Subset, FS_CardinalityType DEF U
<1>5. Cardinality(U) = Cardinality(R) + Share(S, f, x)
  <2>1. Cardinality(R \cap A) = 0
    BY <1>2, FS_EmptySet
  <2>2. Cardinality(R \cup A) = Cardinality(R) + Cardinality(A) - Cardinality(R \cap A)
    BY <1>3, <1>4, FS_Union
  <2> QED
    BY <1>1, <1>2, <1>3, <1>4, <2>1, <2>2
<1>6. IsFiniteSet(V) /\ Cardinality(V) = Cardinality(R) + Share(T, g, x)
  <2>1. Cardinality(R \cap B) = 0
    BY <1>2, FS_EmptySet
  <2>2. /\ IsFiniteSet(R \cup B)
        /\ Cardinality(R \cup B) = Cardinality(R) + Cardinality(B) - Cardinality(R \cap B)
    BY <1>3, <1>4, FS_Union
  <2> QED
    BY <1>1, <1>2, <1>3, <1>4, <2>1, <2>2
<1>7. Total(S, f) = Cardinality(U) /\ Total(T, g) = Cardinality(V)
  BY DEF Total, U, V
<1> QED
  BY <1>1, <1>4, <1>5, <1>6, <1>7 DEF V

\* Sums of the same.
LEMMA TotalStays ==
    ASSUME NEW S, NEW f, NEW T, NEW g,
           \A y \in S \cup T : y \in S /\ y \in T /\ f[y] = g[y]
    PROVE  Units(T, g) = Units(S, f) /\ Total(T, g) = Total(S, f)
<1>1. Units(T, g) = Units(S, f)
  BY DEF Units
<1> QED
  BY <1>1 DEF Total

-----------------------------------------------------------------------------
(* What is counted *)

Reserved == [w \in Workers |-> job[w].reserved]

\* What a worker has reserved for bytes that no row has yet.
PledgedBy(j) == IF j.pc \in {"put", "create"} THEN j.reserved ELSE 0
Pledges == [w \in Workers |-> PledgedBy(job[w])]
Pledged == Total(Workers, Pledges)

Overshoot == Total(Live, over)

FiniteSums ==
    /\ IsFiniteSet(Units(Live, size))
    /\ IsFiniteSet(Units(Live, over))
    /\ IsFiniteSet(Units(Reserving, Reserved))

\* Who is not between reserving and releasing has nothing reserved.
NothingReserved ==
    \A w \in Workers : job[w].pc \in {"idle", "reserve", "rollback", "mark"} => job[w].reserved = 0

NoLarger == \A a \in Assets : over[a] <= size[a]

\* What is in sight, and what will be without another look at the quota.
Bounded == erased = "never" => SumBytes + Pledged <= Quota + Overshoot

Counted ==
    /\ used \in Nat
    /\ FiniteSums
    /\ NothingReserved
    /\ NoLarger
    /\ UsageAddsUp
    /\ Bounded

\* The sums are numbers, and no more is pledged than is reserved.
LEMMA SumsAreNumbers ==
    ASSUME Types, FiniteSums
    PROVE  /\ SumBytes \in Nat /\ Overshoot \in Nat /\ Reservations \in Nat /\ Pledged \in Nat
           /\ IsFiniteSet(Units(Workers, Pledges))
           /\ Pledged <= Reservations
<1>1. SumBytes \in Nat /\ Overshoot \in Nat /\ Reservations \in Nat
  BY FS_CardinalityType DEF FiniteSums, Total, SumBytes, Overshoot, Reservations, Reserved
<1>2. Units(Workers, Pledges) \subseteq Units(Reserving, Reserved)
  <2>1. SUFFICES ASSUME NEW w \in Workers, NEW i \in 1 .. Pledges[w]
                 PROVE  w \in Reserving /\ i \in 1 .. Reserved[w]
    BY DEF Units
  <2>2. job[w].reserved \in Nat
    BY JobFields
  <2> QED
    BY <2>2 DEF Pledges, PledgedBy, Reserving, Reserved
<1>3. IsFiniteSet(Units(Workers, Pledges)) /\ Pledged <= Reservations
  BY <1>2, FS_Subset DEF FiniteSums, Pledged, Total, Reservations, Reserved
<1> QED
  BY <1>1, <1>3, FS_CardinalityType DEF Pledged, Total

\* A worker's step changes what is reserved and pledged by its own part.
LEMMA JobSums ==
    ASSUME Types, FiniteSums, NEW w \in Workers, NEW j, Fit(j), Step(w, j)
    PROVE  /\ IsFiniteSet(Units(Reserving, Reserved)')
           /\ Reservations' = Reservations - job[w].reserved + j.reserved
           /\ Pledged' = Pledged - PledgedBy(job[w]) + PledgedBy(j)
           /\ job[w].reserved \in Nat /\ job[w].reserved <= Reservations
           /\ j.reserved \in Nat
<1>1. /\ \A v \in Workers : job'[v] = IF v = w THEN j ELSE job[v]
      /\ job[w].reserved \in Nat /\ j.reserved \in Nat
  BY JobFields DEF Types, Step, Fit, Jobs
<1>2. /\ IsFiniteSet(Units(Reserving', Reserved'))
      /\ Total(Reserving', Reserved') =
            Total(Reserving, Reserved) - Share(Reserving, Reserved, w)
               + Share(Reserving', Reserved', w)
      /\ Share(Reserving, Reserved, w) <= Total(Reserving, Reserved)
  <2>1. /\ w \in Reserving => Reserved[w] \in Nat
        /\ w \in Reserving' => Reserved'[w] \in Nat
    BY <1>1 DEF Reserved
  <2>2. \A y \in Reserving \cup Reserving' :
           y # w => y \in Reserving /\ y \in Reserving' /\ Reserved[y] = Reserved'[y]
    BY <1>1 DEF Reserving, Reserved
  <2> QED
    BY <2>1, <2>2, TotalMoves DEF FiniteSums
<1>3. /\ Share(Reserving, Reserved, w) = job[w].reserved
      /\ Share(Reserving', Reserved', w) = j.reserved
  BY <1>1 DEF Share, Reserving, Reserved
<1>4. Total(Workers, Pledges') =
            Total(Workers, Pledges) - Share(Workers, Pledges, w) + Share(Workers, Pledges', w)
  <2>1. Pledges[w] \in Nat /\ Pledges'[w] \in Nat
    BY <1>1 DEF Pledges, PledgedBy
  <2>2. \A y \in Workers \cup Workers : y # w => Pledges[y] = Pledges'[y]
    BY <1>1 DEF Pledges
  <2> QED
    BY <2>1, <2>2, SumsAreNumbers, TotalMoves
<1>5. /\ Share(Workers, Pledges, w) = PledgedBy(job[w])
      /\ Share(Workers, Pledges', w) = PledgedBy(j)
  BY <1>1 DEF Share, Pledges, PledgedBy
<1>6. Reservations = Total(Reserving, Reserved) /\ Reservations' = Total(Reserving', Reserved')
  BY DEF Reservations, Reserved
<1>7. Pledged = Total(Workers, Pledges) /\ Pledged' = Total(Workers, Pledges')
  BY DEF Pledged
<1>8. Units(Reserving, Reserved)' = Units(Reserving', Reserved')
  BY DEF Units
<1> QED
  BY <1>1, <1>2, <1>3, <1>4, <1>5, <1>6, <1>7, <1>8

\* A row that is inserted, hidden or removed changes what is in sight by its own part.
LEMMA RowSums ==
    ASSUME Types, Types', FiniteSums, NEW a \in Assets,
           \A b \in Assets \ {a} : /\ row'[b] = row[b]
                                   /\ size'[b] = size[b]
                                   /\ over'[b] = over[b]
    PROVE  /\ IsFiniteSet(Units(Live, size)') /\ IsFiniteSet(Units(Live, over)')
           /\ SumBytes' = SumBytes - Share(Live, size, a) + Share(Live', size', a)
           /\ Overshoot' = Overshoot - Share(Live, over, a) + Share(Live', over', a)
           /\ Share(Live, size, a) <= SumBytes
<1>1. \A y \in Live \cup Live' :
         y # a => /\ y \in Live /\ y \in Live'
                  /\ size[y] = size'[y] /\ over[y] = over'[y]
  BY DEF Live
<1>2. size[a] \in Nat /\ size'[a] \in Nat /\ over[a] \in Nat /\ over'[a] \in Nat
  BY DEF Types
<1>3. /\ IsFiniteSet(Units(Live', size'))
      /\ Total(Live', size') =
            Total(Live, size) - Share(Live, size, a) + Share(Live', size', a)
      /\ Share(Live, size, a) <= Total(Live, size)
  BY <1>1, <1>2, TotalMoves DEF FiniteSums
<1>4. /\ IsFiniteSet(Units(Live', over'))
      /\ Total(Live', over') =
            Total(Live, over) - Share(Live, over, a) + Share(Live', over', a)
  <2>1. IsFiniteSet(Units(Live, over))
    BY DEF FiniteSums
  <2>2. \A y \in Live \cup Live' : y # a => y \in Live /\ y \in Live' /\ over[y] = over'[y]
    BY <1>1
  <2> QED
    BY <1>2, <2>1, <2>2, TotalMoves
<1>5. /\ SumBytes = Total(Live, size) /\ SumBytes' = Total(Live', size')
      /\ Overshoot = Total(Live, over) /\ Overshoot' = Total(Live', over')
  BY DEF SumBytes, Overshoot
<1>6. /\ Units(Live, size)' = Units(Live', size')
      /\ Units(Live, over)' = Units(Live', over')
  BY DEF Units
<1> QED
  BY <1>3, <1>4, <1>5, <1>6

\* Steps that leave the workers, or the rows, alone.
LEMMA SameJobs ==
    ASSUME FiniteSums, UNCHANGED job
    PROVE  /\ IsFiniteSet(Units(Reserving, Reserved)')
           /\ Reservations' = Reservations /\ Pledged' = Pledged
  BY DEF FiniteSums, Units, Total, Reserving, Reserved, Reservations, Pledged, Pledges

LEMMA SameRows ==
    ASSUME FiniteSums, UNCHANGED rows
    PROVE  /\ IsFiniteSet(Units(Live, size)') /\ IsFiniteSet(Units(Live, over)')
           /\ SumBytes' = SumBytes /\ Overshoot' = Overshoot
  BY DEF FiniteSums, Units, Total, Live, rows, SumBytes, Overshoot

-----------------------------------------------------------------------------
(* The count is kept *)

LEMMA Weaker ==
    ASSUME NEW a \in Int, NEW b \in Int, NEW c \in Int, NEW d \in Int, a + b <= d, c <= b
    PROVE  a + c <= d
OBVIOUS

\* A worker moves on with what it has reserved, and nothing is pledged anew.
LEMMA CarriesOn ==
    ASSUME Types, Counted, NEW w \in Workers, NEW j, Fit(j), Step(w, j),
           j.reserved = job[w].reserved,
           j.pc \in {"put", "create"} => job[w].pc \in {"put", "create"},
           j.pc \in {"idle", "reserve", "rollback", "mark"} => j.reserved = 0,
           UNCHANGED <<counter, rows>>
    PROVE  Counted'
<1>1. /\ \A v \in Workers : job'[v] = IF v = w THEN j ELSE job[v]
      /\ UNCHANGED <<used, lost, erased, row, size, over>>
  BY DEF Types, Step, counter, rows
<1>2. FiniteSums /\ NothingReserved
  BY DEF Counted
<1>3. NothingReserved'
  BY <1>1, <1>2 DEF NothingReserved
<1>4. /\ IsFiniteSet(Units(Reserving, Reserved)')
      /\ Reservations' = Reservations - job[w].reserved + j.reserved
      /\ Pledged' = Pledged - PledgedBy(job[w]) + PledgedBy(j)
      /\ job[w].reserved \in Nat
  BY <1>2, JobSums
<1>5. /\ IsFiniteSet(Units(Live, size)') /\ IsFiniteSet(Units(Live, over)')
      /\ SumBytes' = SumBytes /\ Overshoot' = Overshoot
  BY <1>2, SameRows
<1>6. FiniteSums'
  BY <1>4, <1>5 DEF FiniteSums
<1>7. SumBytes \in Nat /\ Overshoot \in Nat /\ Reservations \in Nat /\ Pledged \in Nat
  BY <1>2, SumsAreNumbers
<1>8. Reservations' = Reservations
  BY <1>4, <1>7
<1>9. Pledged' <= Pledged
  BY <1>4, <1>7 DEF PledgedBy
<1>10. UsageAddsUp'
  BY <1>1, <1>5, <1>8 DEF Counted, UsageAddsUp
<1>11. Pledged' \in Int
  BY <1>4, <1>7 DEF PledgedBy
<1>12. Bounded'
  <2>1. erased = "never" => SumBytes + Pledged <= Quota + Overshoot
    BY DEF Counted, Bounded
  <2>2. Quota \in Nat
    BY StorageAssumption DEF StorageAssumption
  <2>3. erased = "never" => SumBytes + Pledged' <= Quota + Overshoot
    <3>1. ASSUME erased = "never" PROVE SumBytes + Pledged <= Quota + Overshoot
      BY <2>1, <3>1
    <3>2. Quota + Overshoot \in Int
      BY <1>7, <2>2
    <3> QED
      BY <1>7, <1>9, <1>11, <3>1, <3>2, Weaker
  <2> QED
    BY <1>1, <1>5, <2>3 DEF Bounded
<1>13. NoLarger' /\ used' \in Nat
  BY <1>1 DEF Counted, NoLarger
<1> QED
  BY <1>3, <1>6, <1>10, <1>12, <1>13 DEF Counted

\* A reservation is given back, or lost, and what was reserved is pledged no more.
LEMMA LetsGo ==
    ASSUME Types, Counted, NEW w \in Workers, NEW j, Fit(j), Step(w, j),
           j.reserved = 0,
           \/ used' = Reduced(job[w].reserved) /\ lost' = lost
           \/ used' = used /\ lost' = lost + job[w].reserved,
           UNCHANGED <<erased, rows>>
    PROVE  Counted'
<1>1. /\ \A v \in Workers : job'[v] = IF v = w THEN j ELSE job[v]
      /\ UNCHANGED <<erased, row, size, over>>
  BY DEF Types, Step, rows
<1>2. FiniteSums /\ NothingReserved /\ used \in Nat /\ lost \in Nat
  BY DEF Counted, Types
<1>3. NothingReserved'
  BY <1>1, <1>2 DEF NothingReserved
<1>4. /\ IsFiniteSet(Units(Reserving, Reserved)')
      /\ Reservations' = Reservations - job[w].reserved + j.reserved
      /\ Pledged' = Pledged - PledgedBy(job[w]) + PledgedBy(j)
      /\ job[w].reserved \in Nat /\ job[w].reserved <= Reservations
  BY <1>2, JobSums
<1>5. /\ IsFiniteSet(Units(Live, size)') /\ IsFiniteSet(Units(Live, over)')
      /\ SumBytes' = SumBytes /\ Overshoot' = Overshoot
  BY <1>2, SameRows
<1>6. FiniteSums'
  BY <1>4, <1>5 DEF FiniteSums
<1>7. SumBytes \in Nat /\ Overshoot \in Nat /\ Reservations \in Nat /\ Pledged \in Nat
  BY <1>2, SumsAreNumbers
<1>8. Reservations' = Reservations - job[w].reserved
  BY <1>4, <1>7
<1>9. Pledged' <= Pledged /\ Pledged' \in Int
  BY <1>4, <1>7 DEF PledgedBy
<1>10. used <= SumBytes + Reservations + lost
       /\ (erased # "now" => used = SumBytes + Reservations + lost)
  BY DEF Counted, UsageAddsUp
<1>11. /\ used' \in Nat
       /\ used' <= SumBytes + Reservations' + lost'
       /\ (erased # "now" => used' = SumBytes + Reservations' + lost')
  <2>1. CASE used' = used /\ lost' = lost + job[w].reserved
    BY <1>2, <1>4, <1>7, <1>8, <1>10, <2>1
  <2>2. CASE used' = Reduced(job[w].reserved) /\ lost' = lost
    BY <1>2, <1>4, <1>7, <1>8, <1>10, <2>2 DEF Reduced
  <2> QED
    BY <2>1, <2>2
<1>12. UsageAddsUp'
  BY <1>1, <1>5, <1>11 DEF UsageAddsUp
<1>13. Bounded'
  <2>1. erased = "never" => SumBytes + Pledged <= Quota + Overshoot
    BY DEF Counted, Bounded
  <2>2. Quota \in Nat
    BY StorageAssumption DEF StorageAssumption
  <2>3. erased = "never" => SumBytes + Pledged' <= Quota + Overshoot
    <3>1. ASSUME erased = "never" PROVE SumBytes + Pledged <= Quota + Overshoot
      BY <2>1, <3>1
    <3>2. Quota + Overshoot \in Int
      BY <1>7, <2>2
    <3> QED
      BY <1>7, <1>9, <3>1, <3>2, Weaker
  <2> QED
    BY <1>1, <1>5, <2>3 DEF Bounded
<1>14. NoLarger'
  BY <1>1 DEF Counted, NoLarger
<1> QED
  BY <1>3, <1>6, <1>11, <1>12, <1>13, <1>14 DEF Counted

\* An asset that was in sight is hidden, and counted no more.
LEMMA Uncounted ==
    ASSUME Types, Types', Counted, NEW a \in Assets, row[a] = "live",
           row' = [row EXCEPT ![a] = "deleted"], used' = Reduced(size[a]),
           \A w \in Workers : job'[w].pc = job[w].pc /\ job'[w].reserved = job[w].reserved,
           UNCHANGED <<size, over, lost, erased>>
    PROVE  Counted'
<1>1. FiniteSums /\ used \in Nat /\ lost \in Nat
  BY DEF Counted, Types
<1>2. /\ \A b \in Assets \ {a} : row'[b] = row[b]
      /\ row'[a] = "deleted"
      /\ size[a] \in Nat /\ over[a] \in Nat /\ over[a] <= size[a]
  BY DEF Types, Counted, NoLarger
<1>3. /\ Share(Live, size, a) = size[a] /\ Share(Live', size', a) = 0
      /\ Share(Live, over, a) = over[a] /\ Share(Live', over', a) = 0
  BY <1>2 DEF Share, Live
<1>4. /\ IsFiniteSet(Units(Live, size)') /\ IsFiniteSet(Units(Live, over)')
      /\ SumBytes' = SumBytes - size[a] + 0
      /\ Overshoot' = Overshoot - over[a] + 0
      /\ size[a] <= SumBytes
  <2>1. /\ IsFiniteSet(Units(Live, size)') /\ IsFiniteSet(Units(Live, over)')
        /\ SumBytes' = SumBytes - Share(Live, size, a) + Share(Live', size', a)
        /\ Overshoot' = Overshoot - Share(Live, over, a) + Share(Live', over', a)
        /\ Share(Live, size, a) <= SumBytes
    BY <1>1, <1>2, RowSums
  <2> QED
    BY <1>3, <2>1
<1>5. /\ Units(Reserving, Reserved)' = Units(Reserving, Reserved)
      /\ Reservations' = Reservations /\ Pledged' = Pledged
  <2>1. Reserving' = Reserving /\ Reserved' = Reserved /\ Pledges' = Pledges
    BY DEF Reserving, Reserved, Pledges, PledgedBy
  <2> QED
    BY <2>1 DEF Units, Total, Reservations, Reserved, Pledged
<1>6. FiniteSums'
  BY <1>1, <1>4, <1>5 DEF FiniteSums
<1>7. SumBytes \in Nat /\ Overshoot \in Nat /\ Reservations \in Nat /\ Pledged \in Nat
  BY <1>1, SumsAreNumbers
<1>8. used <= SumBytes + Reservations + lost
      /\ (erased # "now" => used = SumBytes + Reservations + lost)
  BY DEF Counted, UsageAddsUp
<1>9. /\ used' \in Nat
      /\ used' <= SumBytes' + Reservations + lost
      /\ (erased # "now" => used' = SumBytes' + Reservations + lost)
  BY <1>1, <1>2, <1>4, <1>7, <1>8 DEF Reduced
<1>10. UsageAddsUp'
  BY <1>5, <1>9 DEF UsageAddsUp
<1>11. Bounded'
  BY <1>2, <1>4, <1>5, <1>7, StorageAssumption DEF Counted, Bounded, StorageAssumption
<1>12. NothingReserved' /\ NoLarger'
  BY DEF Counted, NothingReserved, NoLarger
<1> QED
  BY <1>6, <1>9, <1>10, <1>11, <1>12 DEF Counted

\* Neither what is counted nor the count changes.
LEMMA CountUntouched ==
    ASSUME Counted, UNCHANGED <<counter, rows, job>> PROVE Counted'
<1>1. /\ IsFiniteSet(Units(Reserving, Reserved)')
      /\ Reservations' = Reservations /\ Pledged' = Pledged
  BY SameJobs DEF Counted
<1>2. /\ IsFiniteSet(Units(Live, size)') /\ IsFiniteSet(Units(Live, over)')
      /\ SumBytes' = SumBytes /\ Overshoot' = Overshoot
  BY SameRows DEF Counted
<1>3. UNCHANGED <<used, lost, erased, row, size, over, job>>
  BY DEF counter, rows
<1>4. FiniteSums'
  BY <1>1, <1>2 DEF FiniteSums
<1>5. UsageAddsUp' /\ Bounded'
  BY <1>1, <1>2, <1>3 DEF Counted, UsageAddsUp, Bounded
<1> QED
  BY <1>3, <1>4, <1>5 DEF Counted, NothingReserved, NoLarger

\* A reservation is counted, and within the quota as long as the count is right.
LEMMA ReserveCounted ==
    ASSUME StorageAssumption, Types, Counted, NEW w \in Workers, Reserve(w)
    PROVE  Counted'
<1>1. PICK n \in IF Transfers(w) THEN Estimates ELSE {UploadSize[job[w].upload]} :
          /\ At(w, "reserve")
          /\ used + n <= Quota \/ n = 0
          /\ used' = used + n
          /\ Step(w, [job[w] EXCEPT !.pc = "put", !.reserved = n])
          /\ UNCHANGED <<rows, lost, erased>>
  BY DEF Reserve
<1> DEFINE j == [job[w] EXCEPT !.pc = "put", !.reserved = n]
<1>2. n \in Nat /\ used \in Nat /\ lost \in Nat /\ Quota \in Nat
  BY <1>1, Amounts DEF Counted, Types, StorageAssumption
<1>3. Fit(j) /\ j.pc = "put" /\ j.reserved = n
  <2>1. Fit(job[w]) /\ job[w].pc = "reserve"
    BY <1>1, JobFields DEF At
  <2> QED
    BY <1>2, <2>1 DEF Fit, Jobs, Holding
<1>4. Step(w, j)
  BY <1>1
<1>5. job[w].reserved = 0 /\ PledgedBy(job[w]) = 0 /\ PledgedBy(j) = n
  BY <1>1, <1>3 DEF At, Counted, NothingReserved, PledgedBy
<1> HIDE DEF j
<1>6. FiniteSums
  BY DEF Counted
<1>7. /\ IsFiniteSet(Units(Reserving, Reserved)')
      /\ Reservations' = Reservations - job[w].reserved + j.reserved
      /\ Pledged' = Pledged - PledgedBy(job[w]) + PledgedBy(j)
  BY <1>3, <1>4, <1>6, JobSums
<1>8. /\ IsFiniteSet(Units(Live, size)') /\ IsFiniteSet(Units(Live, over)')
      /\ SumBytes' = SumBytes /\ Overshoot' = Overshoot
  BY <1>1, <1>6, SameRows
<1>9. /\ SumBytes \in Nat /\ Overshoot \in Nat /\ Reservations \in Nat /\ Pledged \in Nat
      /\ Pledged <= Reservations
  BY <1>6, SumsAreNumbers
<1>10. Reservations' = Reservations + n /\ Pledged' = Pledged + n
  BY <1>2, <1>3, <1>5, <1>7, <1>9
<1>11. used <= SumBytes + Reservations + lost
       /\ (erased # "now" => used = SumBytes + Reservations + lost)
  BY DEF Counted, UsageAddsUp
<1>12. UsageAddsUp' /\ used' \in Nat
  <2>1. /\ used' \in Nat
        /\ used' <= SumBytes + Reservations' + lost
        /\ (erased # "now" => used' = SumBytes + Reservations' + lost)
    BY <1>1, <1>2, <1>9, <1>10, <1>11
  <2> QED
    BY <1>1, <1>8, <2>1 DEF UsageAddsUp
<1>13. Bounded'
  <2>1. erased = "never" => SumBytes + Pledged <= Quota + Overshoot
    BY DEF Counted, Bounded
  <2>2. CASE n = 0
    <3>1. Pledged' = Pledged
      BY <1>9, <1>10, <2>2
    <3> QED
      BY <1>1, <1>8, <2>1, <3>1 DEF Bounded
  <2>3. ASSUME used + n <= Quota, erased = "never"
        PROVE  SumBytes + Pledged' <= Quota + Overshoot
    <3>1. used = SumBytes + Reservations + lost
      BY <1>11, <2>3
    <3> QED
      BY <1>2, <1>9, <1>10, <2>3, <3>1
  <2> QED
    BY <1>1, <1>8, <2>2, <2>3 DEF Bounded
<1>14. NothingReserved' /\ NoLarger'
  <2>1. \A v \in Workers : job'[v] = IF v = w THEN j ELSE job[v]
    BY <1>4 DEF Types, Step
  <2>2. UNCHANGED <<size, over>>
    BY <1>1 DEF rows
  <2> QED
    BY <1>3, <2>1, <2>2 DEF Counted, NothingReserved, NoLarger
<1> QED
  BY <1>7, <1>8, <1>12, <1>13, <1>14 DEF Counted, FiniteSums

\* A row is counted with all its bytes, while those reserved for it are counted, too.
LEMMA CreateCounted ==
    ASSUME Types, Types', Handed, Counted, NEW w \in Workers, Create(w)
    PROVE  Counted'
<1> DEFINE j == [job[w] EXCEPT !.pc = "read", !.born = @ \cup {job[w].asset}]
<1>1. PICK a \in Assets, n \in Nat, r \in Nat :
          /\ a = job[w].asset /\ n = job[w].bytes /\ r = job[w].reserved
  BY JobFields DEF Create, At, Fit, Holding
<1>2. /\ job[w].pc = "create" /\ row[a] = "none"
      /\ row' = [row EXCEPT ![a] = "live"]
      /\ size' = [size EXCEPT ![a] = n]
      /\ used' = used + n
      /\ over' = [over EXCEPT ![a] = IF n > r THEN n - r ELSE 0]
      /\ Step(w, j)
      /\ UNCHANGED <<lost, erased>>
  BY <1>1 DEF Create, At, Handed, HandedBy
<1>3. Fit(j) /\ j.pc = "read" /\ j.reserved = r
  BY <1>1, JobFields DEF Fit, Jobs, Holding
<1>4. PledgedBy(job[w]) = r /\ PledgedBy(j) = 0
  BY <1>1, <1>2, <1>3 DEF PledgedBy
<1> HIDE DEF j
<1>5. FiniteSums /\ used \in Nat /\ lost \in Nat
  BY DEF Counted, Types
<1>6. /\ IsFiniteSet(Units(Reserving, Reserved)')
      /\ Reservations' = Reservations - job[w].reserved + j.reserved
      /\ Pledged' = Pledged - PledgedBy(job[w]) + PledgedBy(j)
  BY <1>2, <1>3, <1>5, JobSums
<1>7. /\ \A b \in Assets \ {a} : row'[b] = row[b] /\ size'[b] = size[b] /\ over'[b] = over[b]
      /\ row'[a] = "live" /\ size'[a] = n
      /\ over'[a] = IF n > r THEN n - r ELSE 0
  BY <1>2 DEF Types
<1>8. /\ Share(Live, size, a) = 0 /\ Share(Live', size', a) = n
      /\ Share(Live, over, a) = 0 /\ Share(Live', over', a) = over'[a]
  BY <1>2, <1>7 DEF Share, Live
<1>9. /\ IsFiniteSet(Units(Live, size)') /\ IsFiniteSet(Units(Live, over)')
      /\ SumBytes' = SumBytes - Share(Live, size, a) + Share(Live', size', a)
      /\ Overshoot' = Overshoot - Share(Live, over, a) + Share(Live', over', a)
  BY <1>5, <1>7, RowSums
<1>10. SumBytes \in Nat /\ Overshoot \in Nat /\ Reservations \in Nat /\ Pledged \in Nat
  BY <1>5, SumsAreNumbers
<1>11. Reservations' = Reservations /\ Pledged' = Pledged - r
  BY <1>1, <1>3, <1>4, <1>6, <1>10
<1>12. over'[a] \in Nat /\ n <= r + over'[a] /\ over'[a] <= n
  BY <1>7
<1>13. SumBytes' = SumBytes + n /\ Overshoot' = Overshoot + over'[a]
  BY <1>8, <1>9, <1>10, <1>12
<1>14. used <= SumBytes + Reservations + lost
       /\ (erased # "now" => used = SumBytes + Reservations + lost)
  BY DEF Counted, UsageAddsUp
<1>15. UsageAddsUp' /\ used' \in Nat
  <2>1. /\ used' \in Nat
        /\ used' <= SumBytes' + Reservations + lost
        /\ (erased # "now" => used' = SumBytes' + Reservations + lost)
    BY <1>2, <1>5, <1>10, <1>13, <1>14
  <2> QED
    BY <1>2, <1>11, <2>1 DEF UsageAddsUp
<1>16. Bounded'
  <2>1. ASSUME erased = "never" PROVE SumBytes + Pledged <= Quota + Overshoot
    BY <2>1 DEF Counted, Bounded
  <2>2. Quota \in Nat
    BY StorageAssumption DEF StorageAssumption
  <2>3. ASSUME erased = "never" PROVE SumBytes' + Pledged' <= Quota + Overshoot'
    <3>1. SumBytes + n + (Pledged - r) <= Quota + (Overshoot + over'[a])
      BY <1>10, <1>12, <2>1, <2>2, <2>3
    <3> QED
      BY <1>11, <1>13, <3>1
  <2> QED
    BY <1>2, <2>3 DEF Bounded
<1>17. NothingReserved' /\ NoLarger'
  <2>1. \A v \in Workers : job'[v] = IF v = w THEN j ELSE job[v]
    BY <1>2 DEF Types, Step
  <2> QED
    BY <1>3, <1>7, <1>12, <2>1 DEF Counted, NothingReserved, NoLarger
<1> QED
  BY <1>6, <1>9, <1>15, <1>16, <1>17 DEF Counted, FiniteSums

\* Recompute writes the sum of the rows; whatever is reserved makes the count too low.
LEMMA RecomputeCounted ==
    ASSUME Counted, Recompute PROVE Counted'
<1>1. FiniteSums /\ UNCHANGED <<rows, job>> /\ UNCHANGED <<row, size, over>>
  BY DEF Counted, Recompute, rows
<1>2. /\ IsFiniteSet(Units(Reserving, Reserved)')
      /\ Reservations' = Reservations /\ Pledged' = Pledged
  BY <1>1, SameJobs
<1>3. /\ IsFiniteSet(Units(Live, size)') /\ IsFiniteSet(Units(Live, over)')
      /\ SumBytes' = SumBytes /\ Overshoot' = Overshoot
  BY <1>1, SameRows
<1>4. SumBytes \in Nat /\ Reservations \in Nat
  BY <1>1, FS_CardinalityType
     DEF FiniteSums, Total, SumBytes, Reservations, Reserved
<1>5. erased' # "now" => Reservations = 0
  <2>1. ASSUME Reserving = {} PROVE Reservations = 0
    BY <2>1, NothingAddsUp DEF Reservations
  <2> QED
    BY <2>1 DEF Recompute
<1>6. used' = SumBytes /\ lost' = 0 /\ (erased' = "never" => erased = "never")
  BY DEF Recompute
<1>7. UsageAddsUp' /\ used' \in Nat
  <2>1. /\ used' <= SumBytes + Reservations + lost'
        /\ erased' # "now" => used' = SumBytes + Reservations + lost'
    BY <1>4, <1>5, <1>6
  <2> QED
    BY <1>2, <1>3, <1>4, <1>6, <2>1 DEF UsageAddsUp
<1>8. Bounded'
  BY <1>2, <1>3, <1>6 DEF Counted, Bounded
<1> QED
  BY <1>1, <1>2, <1>3, <1>7, <1>8 DEF Counted, FiniteSums, NothingReserved, NoLarger

\* A row that leaves the table was not in sight.
LEMMA HardDeleteCounted ==
    ASSUME Types, Swept, Counted, HardDelete PROVE Counted'
<1>1. PICK a \in Assets : a = sweep.asset
  BY DEF HardDelete, Swept
<1>2. /\ row[a] = "deleted"
      /\ row' = [row EXCEPT ![a] = "gone"]
      /\ size' = [size EXCEPT ![a] = 0]
      /\ over' = [over EXCEPT ![a] = 0]
      /\ UNCHANGED <<used, lost, erased, job>>
  BY <1>1 DEF HardDelete, counter
<1>3. /\ Live' = Live
      /\ \A b \in Live : size'[b] = size[b] /\ over'[b] = over[b]
  BY <1>2 DEF Types, Live
<1>4. /\ Units(Live', size') = Units(Live, size) /\ Total(Live', size') = Total(Live, size)
      /\ Units(Live', over') = Units(Live, over) /\ Total(Live', over') = Total(Live, over)
  BY <1>3, TotalStays
<1>5. /\ Units(Live, size)' = Units(Live, size) /\ Units(Live, over)' = Units(Live, over)
      /\ SumBytes' = SumBytes /\ Overshoot' = Overshoot
  BY <1>4 DEF Units, SumBytes, Overshoot
<1>6. FiniteSums
  BY DEF Counted
<1>7. /\ IsFiniteSet(Units(Reserving, Reserved)')
      /\ Reservations' = Reservations /\ Pledged' = Pledged
  BY <1>2, <1>6, SameJobs
<1>8. UsageAddsUp' /\ Bounded'
  BY <1>2, <1>5, <1>7 DEF Counted, UsageAddsUp, Bounded
<1>9. NoLarger'
  BY <1>2 DEF Types, Counted, NoLarger
<1> QED
  BY <1>2, <1>5, <1>6, <1>7, <1>8, <1>9 DEF Counted, FiniteSums, NothingReserved

\* Every step of a worker keeps the count.
LEMMA WorkCounted ==
    ASSUME StorageAssumption, Inv, Types', Counted, NEW w \in Workers, Work(w)
    PROVE  Counted'
<1>0. Types /\ Handed /\ Fit(job[w]) /\ NothingReserved
  BY JobFields DEF Inv, Counted
<1>1. ASSUME NEW pc, Goto(w, pc), UNCHANGED <<counter, rows>>,
             Fit([job[w] EXCEPT !.pc = pc]),
             pc \in {"put", "create"} => job[w].pc \in {"put", "create"},
             pc \in {"idle", "reserve", "rollback", "mark"} => job[w].reserved = 0
      PROVE  Counted'
  <2> DEFINE j == [job[w] EXCEPT !.pc = pc]
  <2>1. Step(w, j) /\ Fit(j) /\ j.pc = pc /\ j.reserved = job[w].reserved
    BY <1>0, <1>1 DEF Goto, Fit, Jobs
  <2> HIDE DEF j
  <2> QED
    BY <1>0, <1>1, <2>1, CarriesOn
<1>2. CASE TransferAll(w) \/ Refuse(w) \/ PutFails(w) \/ CreateFails(w) \/ ReadBack(w)
  <2>1. PICK pc \in {"reserve", "rollback", "release", "unput", "commit"} :
            /\ Goto(w, pc)
            /\ UNCHANGED <<counter, rows>>
            /\ \/ pc = "reserve" /\ job[w].pc = "idle"
               \/ pc = "rollback" /\ job[w].pc = "reserve"
               \/ pc = "release" /\ job[w].pc = "put"
               \/ pc = "unput" /\ job[w].pc = "create"
               \/ pc \in {"unput", "commit"} /\ job[w].pc = "read"
    BY <1>2 DEF TransferAll, Refuse, PutFails, CreateFails, ReadBack, At
  <2>2. Fit([job[w] EXCEPT !.pc = pc])
    BY <1>0, <2>1 DEF Fit, Jobs, Holding
  <2>3. pc \in {"idle", "reserve", "rollback", "mark"} => job[w].reserved = 0
    BY <1>0, <2>1 DEF NothingReserved
  <2> QED
    BY <1>1, <2>1, <2>2, <2>3
<1>3. ASSUME NEW u \in Uploads, Promote(w, u) PROVE Counted'
  <2> DEFINE j == [job[w] EXCEPT !.pc = "reserve", !.upload = u]
  <2>1. Fit(j) /\ j.pc = "reserve" /\ j.reserved = job[w].reserved /\ job[w].reserved = 0
    BY <1>0, <1>3 DEF Promote, At, Fit, Jobs, Holding, NothingReserved
  <2>2. Step(w, j) /\ UNCHANGED <<counter, rows>>
    BY <1>3 DEF Promote
  <2> HIDE DEF j
  <2> QED
    BY <1>0, <2>1, <2>2, CarriesOn
<1>4. CASE Put(w)
  <2>1. PICK a \in Assets,
             n \in IF Transfers(w) THEN Sizes ELSE {UploadSize[job[w].upload]} :
            Step(w, [job[w] EXCEPT !.pc = "create", !.asset = a, !.bytes = n])
    BY <1>4 DEF Put
  <2> DEFINE j == [job[w] EXCEPT !.pc = "create", !.asset = a, !.bytes = n]
  <2>2. n \in Nat /\ job[w].pc = "put"
    BY <1>0, <1>4, Amounts DEF Put, At
  <2>3. Fit(j) /\ j.pc = "create" /\ j.reserved = job[w].reserved
    BY <1>0, <2>2 DEF Fit, Jobs, Holding
  <2>4. Step(w, j) /\ UNCHANGED <<counter, rows>>
    BY <1>4, <2>1 DEF Put
  <2> HIDE DEF j
  <2> QED
    BY <1>0, <2>2, <2>3, <2>4, CarriesOn
<1>5. CASE Unput(w)
  <2> DEFINE j == [job[w] EXCEPT !.pc = "release", !.asset = NoAsset]
  <2>1. Fit(j) /\ j.pc = "release" /\ j.reserved = job[w].reserved
    BY <1>0, StorageAssumption DEF StorageAssumption, Fit, Jobs, Holding
  <2>2. Step(w, j) /\ UNCHANGED <<counter, rows>>
    BY <1>5 DEF Unput
  <2> HIDE DEF j
  <2> QED
    BY <1>0, <2>1, <2>2, CarriesOn
<1>6. CASE RolledBack(w) \/ MarkPromoted(w)
  <2>1. Step(w, Idle) /\ UNCHANGED <<counter, rows>> /\ job[w].pc \in {"rollback", "mark"}
    BY <1>6 DEF RolledBack, MarkPromoted, At
  <2>2. Fit(Idle) /\ Idle.pc = "idle" /\ Idle.reserved = 0 /\ job[w].reserved = 0
    BY <1>0, <2>1, Nobody DEF Idle, NothingReserved
  <2> QED
    BY <1>0, <2>1, <2>2, CarriesOn
<1>7. CASE Release(w)
  <2> DEFINE j == [job[w] EXCEPT !.pc = "rollback", !.reserved = 0]
  <2>1. Fit(j) /\ j.reserved = 0
    BY <1>0, <1>7 DEF Release, At, Fit, Jobs, Holding
  <2>2. Step(w, j) /\ UNCHANGED <<erased, rows>>
    BY <1>7 DEF Release
  <2> HIDE DEF j
  <2> QED
    BY <1>0, <1>7, <2>1, <2>2, LetsGo DEF Release, GiveBack
<1>8. CASE Commit(w)
  <2> DEFINE made == job[w].made \cup {job[w].asset}
             next == [job[w] EXCEPT !.pc = "reserve", !.made = made, !.asset = NoAsset,
                                    !.reserved = 0]
             mark == [job[w] EXCEPT !.pc = "mark", !.reserved = 0]
  <2>1. job[w].asset \in Assets
    BY <1>0, <1>8 DEF Commit, At, Fit, Holding
  <2>2. Step(w, Idle) \/ Step(w, next) \/ Step(w, mark)
    BY <1>8 DEF Commit
  <2>3. Fit(next) /\ Fit(mark) /\ next.reserved = 0 /\ mark.reserved = 0
    BY <1>0, <2>1, StorageAssumption DEF StorageAssumption, Fit, Jobs, Holding
  <2>4. Fit(Idle) /\ Idle.reserved = 0
    BY Nobody DEF Idle
  <2>5. /\ UNCHANGED <<erased, rows>>
        /\ \/ used' = Reduced(job[w].reserved) /\ lost' = lost
           \/ used' = used /\ lost' = lost + job[w].reserved
    BY <1>8 DEF Commit, GiveBack
  <2> HIDE DEF next, mark
  <2> QED
    BY <1>0, <2>2, <2>3, <2>4, <2>5, LetsGo
<1>9. CASE Crash(w)
  <2>1. Fit(Idle) /\ Idle.reserved = 0
    BY Nobody DEF Idle
  <2>2. /\ Step(w, Idle) /\ UNCHANGED <<erased, rows>>
        /\ used' = used /\ lost' = lost + job[w].reserved
    BY <1>9 DEF Crash
  <2> QED
    BY <1>0, <2>1, <2>2, LetsGo
<1>10. CASE Rollback(w)
  <2>1. PICK a \in job[w].made :
            \/ /\ row[a] = "live"
               /\ row' = [row EXCEPT ![a] = "deleted"]
               /\ used' = Reduced(size[a])
               /\ Step(w, [job[w] EXCEPT !.made = @ \ {a}])
            \/ /\ UNCHANGED <<row, used>>
               /\ \/ Step(w, [job[w] EXCEPT !.made = @ \ {a}])
                  \/ Step(w, [job[w] EXCEPT !.made = @ \ {a}, !.born = @ \ {a}])
    BY <1>10 DEF Rollback
  <2>2. UNCHANGED <<size, over, lost, erased>> /\ job[w].pc = "rollback" /\ a \in Assets
    BY <1>10, JobFields, <1>0 DEF Rollback, At
  <2>3. CASE UNCHANGED <<row, used>>
    <3> DEFINE j == [job[w] EXCEPT !.made = @ \ {a}]
               k == [job[w] EXCEPT !.made = @ \ {a}, !.born = @ \ {a}]
    <3>1. Step(w, j) \/ Step(w, k)
      BY <2>1
    <3>2. /\ Fit(j) /\ j.pc = "rollback" /\ j.reserved = job[w].reserved
          /\ Fit(k) /\ k.pc = "rollback" /\ k.reserved = job[w].reserved
      BY <1>0, <2>2 DEF Fit, Jobs
    <3>3. UNCHANGED <<counter, rows>> /\ job[w].reserved = 0
      BY <1>0, <2>2, <2>3 DEF counter, rows, NothingReserved
    <3> HIDE DEF j, k
    <3> QED
      BY <1>0, <3>1, <3>2, <3>3, CarriesOn
  <2>4. ASSUME row[a] = "live", row' = [row EXCEPT ![a] = "deleted"], used' = Reduced(size[a]),
               Step(w, [job[w] EXCEPT !.made = @ \ {a}])
        PROVE  Counted'
    <3>1. \A v \in Workers : job'[v].pc = job[v].pc /\ job'[v].reserved = job[v].reserved
      BY <1>0, <2>4 DEF Types, Jobs, Step
    <3> QED
      BY <1>0, <2>2, <2>4, <3>1, Uncounted
  <2> QED
    BY <2>1, <2>3, <2>4
<1> QED
  BY <1>0, <1>2, <1>3, <1>4, <1>5, <1>6, <1>7, <1>8, <1>9, <1>10,
     ReserveCounted, CreateCounted DEF Work

\* Every step keeps the count.
LEMMA CountKept ==
    ASSUME StorageAssumption, Inv, Counted, [Next]_vars
    PROVE  Counted'
<1>1. Types /\ Swept /\ Types'
  BY TypesKept DEF Inv
<1>2. ASSUME NEW u \in Uploads, Upload(u) PROVE Counted'
  BY <1>2, CountUntouched DEF Upload
<1>3. ASSUME NEW a \in Assets, Delete(a) PROVE Counted'
  BY <1>1, <1>3, Uncounted DEF Delete
<1>4. ASSUME Cleanup, ~HardDelete, ~Recompute PROVE Counted'
  <2>1. UNCHANGED <<counter, rows, job>>
    BY <1>4 DEF Cleanup, ListExpired, RemoveUploadFile, RemoveUploadRow, ListSoftDeleted,
         RemoveBlob, SweepEnds
  <2> QED
    BY <2>1, CountUntouched
<1>5. CASE UNCHANGED vars
  BY <1>5, CountUntouched DEF vars
<1> QED
  BY <1>1, <1>2, <1>3, <1>4, <1>5, WorkCounted, HardDeleteCounted, RecomputeCounted DEF Next

\* Nothing is used at the start.
LEMMA InitCounted == ASSUME StorageAssumption, Init PROVE Counted
<1>1. Live = {} /\ Reserving = {}
  BY DEF Init, Live, Reserving, Idle
<1>2. /\ FiniteSums /\ SumBytes = 0 /\ Overshoot = 0 /\ Reservations = 0
  BY <1>1, NothingAddsUp DEF FiniteSums, SumBytes, Overshoot, Reservations
<1>3. Types
  BY InitTypes
<1>4. Pledged = 0
  BY <1>2, <1>3, SumsAreNumbers
<1>5. NothingReserved /\ NoLarger
  BY DEF Init, Idle, NothingReserved, NoLarger
<1>6. used = 0 /\ lost = 0 /\ Quota \in Nat
  BY DEF Init, StorageAssumption
<1>7. UsageAddsUp /\ Bounded
  BY <1>2, <1>4, <1>6 DEF UsageAddsUp, Bounded
<1> QED
  BY <1>2, <1>5, <1>6, <1>7 DEF Counted

LEMMA StorageCounts == Spec => []Counted
<1>1. Init => Counted
  BY StorageAssumption, InitCounted
<1>2. Inv /\ Counted /\ [Next]_vars => Counted'
  BY StorageAssumption, CountKept
<1> QED
  BY <1>1, <1>2, StorageInvariant, PTL DEF Spec

\* The counter of a user is what lives, what is reserved and what was lost, until
\* Recompute overwrites a reservation; and never more (quota.go, asset.go Create, Delete).
THEOREM UsageExplained == Spec => []UsageAddsUp
<1>1. Counted => UsageAddsUp
  BY DEF Counted
<1> QED
  BY <1>1, StorageCounts, PTL

\* However many transfers reserve at the same time, what lives is within the quota but
\* for products that outgrew their reservation (quota.go Reserve).
THEOREM QuotaHolds == Spec => []WithinQuota
<1>1. Types /\ Counted => WithinQuota
  <2> SUFFICES ASSUME Types, Counted, erased = "never" PROVE SumBytes <= Quota + Overshoot
    BY DEF WithinQuota, Overshoot
  <2>1. SumBytes + Pledged <= Quota + Overshoot
    BY DEF Counted, Bounded
  <2>2. SumBytes \in Nat /\ Pledged \in Nat /\ Overshoot \in Nat /\ Quota \in Nat
    BY SumsAreNumbers, StorageAssumption DEF Counted, StorageAssumption
  <2> QED
    BY <2>1, <2>2
<1> QED
  BY <1>1, StorageTypes, StorageCounts, PTL

\* Every variable keeps its type, the counter included: it never falls below zero.
THEOREM StorageTypeCorrect == Spec => []TypeOK
<1>1. Types /\ Counted => TypeOK
  BY DEF Counted, TypeOK
<1> QED
  BY <1>1, StorageTypes, StorageCounts, PTL
=============================================================================
