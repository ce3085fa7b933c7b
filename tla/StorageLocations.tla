-------------------------- MODULE StorageLocations --------------------------
(***************************************************************************)
(* StorageLocations and those who store tables in them: the controller     *)
(* that creates and drops the Hive database of a StorageLocation           *)
(* (pkg/operator/storagelocations.go), the choice of a StorageLocation,    *)
(* default or named (storage.go), and the Reports and ReportDataSources    *)
(* that wait for its database and are queued when it is there.             *)
(*                                                                         *)
(* A StorageLocation is created and deleted at most once, and all are in   *)
(* one namespace.  How a table is created in a database is TableLifecycle. *)
(***************************************************************************)
EXTENDS Integers, FiniteSets

CONSTANTS
  Null,              \* nothing
  Storages,          \* the StorageLocations
  Unmanaged,         \* the ones with spec.hive.unmanagedDatabase
  WithLocation,      \* the ones with spec.hive.location
  Defaults,          \* the ones annotated as default
  Users,             \* the Reports and ReportDataSources that want a table
  KindOf,            \* "prometheus", "aws", "view" or "report"
  RefOf,             \* the StorageLocation each one names, or Null for the default
  Finalizers,        \* the values of op.cfg.EnableFinalizers
  maxRequeues,       \* of the queues of the users
  MaxFaults          \* bound on failed calls and restarts

ASSUME StorageAssumption ==
  /\ Null \notin Storages /\ Unmanaged \subseteq Storages
  /\ WithLocation \subseteq Storages /\ Defaults \subseteq Storages
  /\ KindOf \in [Users -> {"prometheus", "aws", "view", "report"}]
  /\ RefOf \in [Users -> Storages \cup {Null}]
  /\ Finalizers \subseteq BOOLEAN /\ maxRequeues \in Nat /\ MaxFaults \in Nat

VARIABLES
  obj,       \* the stored StorageLocations
  cache,     \* the informer's copies
  queue,     \* the keys in storageLocationQueue
  work,      \* the worker of each key: where it is, and its copy
  db,        \* the databases in Hive
  user,      \* the users: their table, their queue entry and its failed attempts
  panicked,  \* a worker has panicked
  faults,    \* bound
  EnableFinalizers   \* of op.cfg, which nothing changes

vars == <<obj, cache, queue, work, db, user, panicked, faults>>

-----------------------------------------------------------------------------
(* Metadata, and whether Status.Hive.DatabaseName is set.                  *)
StorageLocation == [ phase : {"new", "live", "terminating", "gone"}, status : BOOLEAN,
                     finalizer : BOOLEAN ]

NewStorage == [phase |-> "new", status |-> FALSE, finalizer |-> FALSE]

Steps == {"idle", "addFinalizer", "createDatabase", "putStatus", "deleteStorage", "removeFinalizer"}

Idle == [pc |-> "idle", copy |-> NewStorage]

(* Every variable holds a value of the kind the code keeps there.          *)
TypeOK ==
  /\ obj \in [Storages -> StorageLocation] /\ cache \in [Storages -> StorageLocation]
  /\ queue \subseteq Storages
  /\ work \in [Storages -> [pc : Steps, copy : StorageLocation]]
  /\ db \in [Storages -> BOOLEAN]
  /\ user \in [Users -> [ live : BOOLEAN, table : Storages \cup {Null}, queued : BOOLEAN,
                           tries : 0..maxRequeues ]]
  /\ panicked \in BOOLEAN /\ faults \in 0..MaxFaults /\ EnableFinalizers \in BOOLEAN

Exists(o) == o.phase \in {"live", "terminating"}

TablesIn(s) == {u \in Users : user[u].table = s}

-----------------------------------------------------------------------------
(* The choice of a StorageLocation, from the lister's copies               *)

(* None and more than one are both errors.                                 *)
getDefaultStorageLocation(objects) ==
  LET found == {s \in Defaults : Exists(objects[s])}
  IN  IF Cardinality(found) = 1 THEN CHOOSE s \in found : TRUE ELSE Null

getStorage(objects, ref) ==
  IF ref = Null THEN getDefaultStorageLocation(objects)
  ELSE IF Exists(objects[ref]) THEN ref ELSE Null

-----------------------------------------------------------------------------
(* Users of the API                                                        *)

createStorageLocation(s) ==
  /\ obj[s].phase = "new"
  /\ obj' = [obj EXCEPT ![s].phase = "live"]
  /\ UNCHANGED <<cache, queue, work, db, user, panicked, faults>>

deleteStorageLocation(s) ==
  /\ obj[s].phase = "live"
  /\ obj' = [obj EXCEPT ![s].phase = IF obj[s].finalizer THEN "terminating" ELSE "gone"]
  /\ UNCHANGED <<cache, queue, work, db, user, panicked, faults>>

(* A Report or ReportDataSource goes, and its table with it.               *)
deleteUser(u) ==
  /\ user[u].live
  /\ user' = [user EXCEPT ![u] = [live |-> FALSE, table |-> Null, queued |-> FALSE, tries |-> 0]]
  /\ UNCHANGED <<obj, cache, queue, work, db, panicked, faults>>

(* DROP DATABASE IF EXISTS, refused by Hive while it has tables.           *)
CanDrop(s, o) == s \in Unmanaged \/ ~o.status \/ TablesIn(s) = {}

Dropped(s, o) == [db EXCEPT ![s] = IF s \in Unmanaged \/ ~o.status THEN @ ELSE FALSE]

(***************************************************************************)
(* The informer and its handlers.  Without finalizers the delete handler   *)
(* drops the database itself, and tries only once.                         *)
(***************************************************************************)
deliver(s) ==
  LET eager == obj[s].phase = "gone" /\ ~EnableFinalizers /\ Exists(cache[s])
  IN  /\ cache[s] # obj[s]
      /\ cache' = [cache EXCEPT ![s] = obj[s]]
      /\ queue' = queue \cup {s}
      /\ db' = IF eager /\ CanDrop(s, obj[s]) THEN Dropped(s, obj[s]) ELSE db
      /\ UNCHANGED <<obj, work, user, panicked, faults>>

-----------------------------------------------------------------------------
(* The worker.  handleErr retries without limit (maxRequeues is -1).       *)

Fail(s) == work' = [work EXCEPT ![s] = Idle] /\ queue' = queue \cup {s}

Done(s) == work' = [work EXCEPT ![s] = Idle] /\ UNCHANGED queue

Goto(s, step, o) == work' = [work EXCEPT ![s] = [pc |-> step, copy |-> o]] /\ UNCHANGED queue

NeedsFinalizer(o) == EnableFinalizers /\ o.phase = "live" /\ ~o.finalizer

(* handleStorageLocation: no database to create for an unmanaged one.      *)
handleStep(s, o) ==
  IF o.status THEN "idle" ELSE IF s \in Unmanaged THEN "putStatus" ELSE "createDatabase"

syncStorageLocation(s) ==
  LET o    == cache[s]
      step == IF o.phase = "terminating" THEN "deleteStorage"
              ELSE IF o.phase # "live" THEN "idle"
              ELSE IF NeedsFinalizer(o) THEN "addFinalizer" ELSE handleStep(s, o)
  IN  /\ s \in queue /\ work[s].pc = "idle"
      /\ queue' = queue \ {s}
      /\ work' = [work EXCEPT ![s] = IF step = "idle" THEN Idle ELSE [pc |-> step, copy |-> o]]
      /\ UNCHANGED <<obj, cache, db, user, panicked, faults>>

(* The Update of a copy that is no longer the stored object is refused.    *)
updateAccepted(s) == obj[s] = work[s].copy

addStorageLocationFinalizer(s) ==
  LET o == [work[s].copy EXCEPT !.finalizer = TRUE]
  IN  /\ work[s].pc = "addFinalizer"
      /\ IF updateAccepted(s)
         THEN /\ obj' = [obj EXCEPT ![s] = o]
              /\ IF handleStep(s, o) = "idle" THEN Done(s) ELSE Goto(s, handleStep(s, o), o)
         ELSE UNCHANGED obj /\ Fail(s)
      /\ UNCHANGED <<cache, db, user, panicked, faults>>

(* generateCreateDatabaseSQL                                               *)
CreateDatabaseIfNotExists(s) == s \in WithLocation

createDatabase(s) ==
  /\ work[s].pc = "createDatabase"
  /\ IF db[s] /\ ~CreateDatabaseIfNotExists(s)
     THEN Fail(s) /\ UNCHANGED db
     ELSE db' = [db EXCEPT ![s] = TRUE] /\ Goto(s, "putStatus", work[s].copy)
  /\ UNCHANGED <<obj, cache, user, panicked, faults>>

(* queueDependentsOfStorageLocation: the ones that have no table yet and   *)
(* resolve to this one, views of ReportQueries excepted.                   *)
queueDependents(s) ==
  [u \in Users |->
     IF /\ user[u].live /\ user[u].table = Null /\ KindOf[u] # "view"
        /\ getStorage(cache, IF KindOf[u] = "aws" THEN Null ELSE RefOf[u]) = s
     THEN [user[u] EXCEPT !.queued = TRUE] ELSE user[u]]

putStatus(s) ==
  /\ work[s].pc = "putStatus"
  /\ IF updateAccepted(s)
     THEN /\ obj' = [obj EXCEPT ![s].status = TRUE]
          /\ user' = queueDependents(s)
          /\ Done(s)
     ELSE UNCHANGED <<obj, user>> /\ Fail(s)
  /\ UNCHANGED <<cache, db, panicked, faults>>

deleteStorage_regardless(s) ==
  /\ work[s].pc = "deleteStorage"
  /\ db' = Dropped(s, work[s].copy)
  /\ Goto(s, "removeFinalizer", work[s].copy)
  /\ UNCHANGED <<obj, cache, user, panicked, faults>>

deleteStorage_givesUp(s) ==
  /\ work[s].pc = "deleteStorage"
  /\ IF CanDrop(s, work[s].copy)
     THEN db' = Dropped(s, work[s].copy) /\ Goto(s, "removeFinalizer", work[s].copy)
     ELSE UNCHANGED db /\ Done(s)
  /\ UNCHANGED <<obj, cache, user, panicked, faults>>

deleteStorage(s) ==
  /\ work[s].pc = "deleteStorage"
  /\ IF CanDrop(s, work[s].copy)
     THEN db' = Dropped(s, work[s].copy) /\ Goto(s, "removeFinalizer", work[s].copy)
     ELSE UNCHANGED db /\ Fail(s)
  /\ UNCHANGED <<obj, cache, user, panicked, faults>>

removeStorageLocationFinalizer(s) ==
  /\ work[s].pc = "removeFinalizer"
  /\ IF ~work[s].copy.finalizer THEN UNCHANGED obj /\ Done(s)
     ELSE IF updateAccepted(s)
     THEN obj' = [obj EXCEPT ![s].phase = "gone", ![s].finalizer = FALSE] /\ Done(s)
     ELSE UNCHANGED obj /\ Fail(s)
  /\ UNCHANGED <<cache, db, user, panicked, faults>>

-----------------------------------------------------------------------------
(* The syncs of the users, up to their table                               *)

(* handleErr with a limit.                                                 *)
UserFails(u) ==
  user' = [user EXCEPT ![u].queued = user[u].tries < maxRequeues,
                       ![u].tries = IF user[u].tries < maxRequeues THEN @ + 1 ELSE 0]

UserGets(u, s) ==
  user' = [user EXCEPT ![u].table = s, ![u].queued = FALSE, ![u].tries = 0]

(* The checks before a table is created.  For AWS billing it is the Spec   *)
(* that is checked, and the name then read from the Status.                *)
createTable(u) ==
  LET ref == IF KindOf[u] \in {"aws", "view"} THEN Null ELSE RefOf[u]
      s   == getStorage(cache, ref)
  IN  /\ user[u].live /\ user[u].queued /\ user[u].table = Null
      /\ IF s # Null /\ ~cache[s].status /\ KindOf[u] = "aws"
         THEN panicked' = TRUE /\ UNCHANGED user
         ELSE /\ UNCHANGED panicked
              /\ IF s = Null THEN UserFails(u)
                 ELSE IF ~cache[s].status \/ ~db[s] THEN UserFails(u) ELSE UserGets(u, s)
      /\ UNCHANGED <<obj, cache, queue, work, db, faults>>

resync_ignored(u) ==
  FALSE /\ KindOf[u] # "report" /\ UNCHANGED vars

(* The resync of an informer: updateReportDataSource lets it through,      *)
(* updateReport does not.                                                  *)
resync(u) ==
  /\ KindOf[u] # "report" /\ user[u].live /\ user[u].table = Null /\ ~user[u].queued
  /\ user' = [user EXCEPT ![u].queued = TRUE]
  /\ UNCHANGED <<obj, cache, queue, work, db, panicked, faults>>

-----------------------------------------------------------------------------
callFails(s) ==
  /\ faults < MaxFaults /\ faults' = faults + 1
  /\ work[s].pc # "idle" /\ Fail(s)
  /\ UNCHANGED <<obj, cache, db, user, panicked>>

restart ==
  /\ faults < MaxFaults /\ faults' = faults + 1
  /\ cache' = [s \in Storages |-> obj[s]]
  /\ queue' = {s \in Storages : Exists(obj[s])}
  /\ work' = [s \in Storages |-> Idle]
  /\ user' = [u \in Users |-> [user[u] EXCEPT !.queued = user[u].live, !.tries = 0]]
  /\ UNCHANGED <<obj, db, panicked>>

Init ==
  /\ obj = [s \in Storages |-> NewStorage]
  /\ cache = obj /\ queue = {}
  /\ work = [s \in Storages |-> Idle]
  /\ db = [s \in Storages |-> s \in Unmanaged]
  /\ user = [u \in Users |-> [live |-> TRUE, table |-> Null, queued |-> TRUE, tries |-> 0]]
  /\ panicked = FALSE /\ faults = 0 /\ EnableFinalizers \in Finalizers

WorkerStep(s) ==
  \/ syncStorageLocation(s) \/ addStorageLocationFinalizer(s) \/ createDatabase(s)
  \/ putStatus(s) \/ deleteStorage(s) \/ removeStorageLocationFinalizer(s)

Next ==
  /\ \/ \E s \in Storages :
          \/ createStorageLocation(s) \/ deleteStorageLocation(s) \/ deliver(s)
          \/ WorkerStep(s) \/ callFails(s)
     \/ \E u \in Users : createTable(u) \/ resync(u) \/ deleteUser(u)
     \/ restart
  /\ UNCHANGED EnableFinalizers

Spec == Init /\ [][Next]_<<vars, EnableFinalizers>>

(* Workers run, watches deliver and informers resync.                      *)
FairSpec ==
  /\ Spec
  /\ \A s \in Storages : WF_vars(deliver(s)) /\ WF_vars(WorkerStep(s))
  /\ \A u \in Users : WF_vars(createTable(u)) /\ WF_vars(resync(u))

-----------------------------------------------------------------------------
(* A live StorageLocation that names its database has it, and so does      *)
(* every table: no drop for a stale copy, and none under a table.  All     *)
(* variables keep their types.                                             *)
StatusMeansDatabase ==
  /\ TypeOK
  /\ \A s \in Storages : obj[s].phase = "live" /\ obj[s].status => db[s]
  /\ \A u \in Users : user[u].table # Null => db[user[u].table]

(* Who resolves to a live StorageLocation gets a table in it, and needs no *)
(* edit for it: neither the order of creation, nor a stale copy, nor the   *)
(* retry limit leaves it waiting.                                          *)
Resolves(u) == \E s \in Storages : getStorage(obj, IF KindOf[u] \in {"aws", "view"} THEN Null
                                                    ELSE RefOf[u]) = s /\ obj[s].phase = "live"

UsersGetTables ==
  \A u \in Users : user[u].live /\ Resolves(u)
                     ~> user[u].table # Null \/ ~user[u].live \/ ~Resolves(u)

(* A deleted StorageLocation goes away once it has no tables.              *)
DeletedStorageGoes ==
  \A s \in Storages : obj[s].phase = "terminating" ~> obj[s].phase = "gone" \/ TablesIn(s) # {}
=============================================================================
