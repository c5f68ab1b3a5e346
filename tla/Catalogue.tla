----------------------------- MODULE Catalogue -----------------------------
(***************************************************************************)
(* The model catalogue: transactions of administrators that write models,  *)
(* providers and skills (model.go, provider.go, skill.go), each with a row *)
(* of config_versions as its last statement (bumpConfigVersion), and       *)
(* browsers that fetch the list of enabled models with the ETag they have  *)
(* (handleListModels, Fingerprint, List).                                  *)
(*                                                                         *)
(* The model holds what the fingerprint and the list tell apart: whether a *)
(* model is there, whether it is enabled, which write its columns come     *)
(* from, and updated_at.                                                   *)
(***************************************************************************)
EXTENDS Integers, FiniteSets, FiniteSetsExt

CONSTANTS
    Admins,         \* connections that run a transaction at a time
    Models,
    Browsers,
    MaxVersions,    \* bound: ids of config_versions
    MaxClock        \* bound: milliseconds

ASSUME CatalogueAssumption == MaxVersions \in Nat /\ MaxClock \in Nat

VARIABLES
    model,      \* committed: model[m]
    versions,   \* committed: the ids of config_versions
    nextId,     \* its AUTO_INCREMENT, which no rollback takes back
    tx,         \* tx[a]: the transaction of connection a
    ms,         \* the clock of the database
    fetch,      \* fetch[b]: a request for the list
    cached,     \* cached[b]: the ETag and the list browser b shows
    disorder    \* history: a transaction committed after one with a later version

catalogueVars == <<model, versions, nextId, tx, ms, fetch, cached, disorder>>

Absent == [there |-> FALSE, enabled |-> FALSE, write |-> 0, at |-> 0]
NoTx == [pc |-> "idle", target |-> "none", new |-> Absent, id |-> 0]
NotCached == [etag |-> <<>>, view |-> {}]

CatalogueInit ==
    /\ model = [m \in Models |-> Absent]
    /\ versions = {}
    /\ nextId = 1
    /\ tx = [a \in Admins |-> NoTx]
    /\ ms = 1
    /\ fetch = [b \in Browsers |-> [pc |-> "idle", etag |-> <<>>]]
    /\ cached = [b \in Browsers |-> NotCached]
    /\ disorder = FALSE

Enabled == {m \in Models : model[m].there /\ model[m].enabled}

\* Three subqueries of one statement: MAX(id), COUNT(*), MAX(updated_at).
Fingerprint == <<Max({0} \cup versions), Cardinality(Enabled), Max({0} \cup {model[m].at : m \in Enabled})>>

\* ModelRepo.List with enabled = 1.
View == {<<m, model[m].write>> : m \in Enabled}

\* The row lock of an upsert or a delete, held until the transaction ends.
Locked(m) == \E a \in Admins : tx[a].target = m

SetTx(a, t) == tx' = [tx EXCEPT ![a] = t]

----------------------------------------------------------------------------
(* Administrators.                                                         *)

\* ModelRepo.Upsert; `write` counts the writes of the row and stands for the columns written.
UpsertModel(a, m) ==
    /\ tx[a].pc = "idle" /\ ~Locked(m)
    /\ \E on \in BOOLEAN :
          SetTx(a, [pc |-> "bump", target |-> m, id |-> 0,
                    new |-> [there |-> TRUE, enabled |-> on, write |-> model[m].write + 1, at |-> ms]])
    /\ UNCHANGED <<model, versions, nextId, ms, fetch, cached, disorder>>

\* ModelRepo.Delete: no such row is an error.
DeleteModel(a, m) ==
    /\ tx[a].pc = "idle" /\ ~Locked(m)
    /\ model[m].there
    /\ SetTx(a, [pc |-> "bump", target |-> m, id |-> 0, new |-> [Absent EXCEPT !.write = model[m].write]])
    /\ UNCHANGED <<model, versions, nextId, ms, fetch, cached, disorder>>

\* ProviderRepo and SkillRepo: rows the list does not show.
WriteOther(a) ==
    /\ tx[a].pc = "idle"
    /\ SetTx(a, [NoTx EXCEPT !.pc = "bump"])
    /\ UNCHANGED <<model, versions, nextId, ms, fetch, cached, disorder>>

\* A mutant: an operation that forgets the version.
BumpForgotten(a) ==
    /\ tx[a].pc = "bump"
    /\ SetTx(a, [tx[a] EXCEPT !.pc = "commit"])
    /\ UNCHANGED <<model, versions, nextId, ms, fetch, cached, disorder>>

Bump(a) ==
    /\ tx[a].pc = "bump"
    /\ nextId <= MaxVersions
    /\ SetTx(a, [tx[a] EXCEPT !.pc = "commit", !.id = nextId])
    /\ nextId' = nextId + 1
    /\ UNCHANGED <<model, versions, ms, fetch, cached, disorder>>

Commit(a) ==
    /\ tx[a].pc = "commit"
    /\ model' = [m \in Models |-> IF tx[a].target = m THEN tx[a].new ELSE model[m]]
    /\ versions' = versions \cup ({tx[a].id} \ {0})
    /\ disorder' = (disorder \/ \E id \in versions : id > tx[a].id /\ tx[a].id > 0)
    /\ SetTx(a, NoTx)
    /\ UNCHANGED <<nextId, ms, fetch, cached>>

\* withTx: a statement fails, or the connection, and all of it is taken back.
Rollback(a) ==
    /\ tx[a].pc # "idle"
    /\ SetTx(a, NoTx)
    /\ UNCHANGED <<model, versions, nextId, ms, fetch, cached, disorder>>

Tick ==
    /\ ms < MaxClock
    /\ ms' = ms + 1
    /\ UNCHANGED <<model, versions, nextId, tx, fetch, cached, disorder>>

----------------------------------------------------------------------------
(* Browsers.                                                               *)

\* The fingerprint comes first: If-None-Match with the same one is 304.
Check(b) ==
    /\ fetch[b].pc = "idle"
    /\ IF cached[b].etag = Fingerprint THEN UNCHANGED fetch
       ELSE fetch' = [fetch EXCEPT ![b] = [pc |-> "list", etag |-> Fingerprint]]
    /\ UNCHANGED <<model, versions, nextId, tx, ms, cached, disorder>>

\* The list is read by a later statement, and sent with the fingerprint read before.
ListModels(b) ==
    /\ fetch[b].pc = "list"
    /\ cached' = [cached EXCEPT ![b] = [etag |-> fetch[b].etag, view |-> View]]
    /\ fetch' = [fetch EXCEPT ![b] = [pc |-> "idle", etag |-> <<>>]]
    /\ UNCHANGED <<model, versions, nextId, tx, ms, disorder>>

CatalogueNext ==
    \/ \E a \in Admins :
          \/ \E m \in Models : UpsertModel(a, m) \/ DeleteModel(a, m)
          \/ WriteOther(a) \/ Bump(a) \/ Commit(a) \/ Rollback(a)
    \/ Tick
    \/ \E b \in Browsers : Check(b) \/ ListModels(b)

CatalogueSpec == CatalogueInit /\ [][CatalogueNext]_catalogueVars

----------------------------------------------------------------------------
(* Properties.                                                             *)

\* A browser that is told that nothing has changed shows the catalogue as it is,
\* as long as transactions commit in the order of their version ids
\* (handleListModels, ModelRepo.Fingerprint).
FingerprintHonest ==
    \A b \in Browsers : cached[b].etag = Fingerprint /\ ~disorder => cached[b].view = View
=============================================================================
