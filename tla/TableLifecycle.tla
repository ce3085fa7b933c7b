--------------------------- MODULE TableLifecycle ---------------------------
(***************************************************************************)
(* From a ReportDataSource to its table and back: the HiveTable and        *)
(* PrestoTable controllers (pkg/operator/hivetables.go, prestotables.go),  *)
(* the informer handlers that feed them (queues.go), the sync of the owner *)
(* that creates the resources and waits for them (datasources.go), and the *)
(* garbage collection of owned objects.                                    *)
(*                                                                         *)
(* An object is a key <<"hive", t>> or <<"presto", t>>.  A "hive" table    *)
(* has both: its HiveTable creates a PrestoTable that is unmanaged.  A     *)
(* "view" is a PrestoTable only, and so is a "ctas" table (createTableAs), *)
(* which a user creates and deletes without an owner.                      *)
(* Fields of an object only ever change one way, so a copy that equals the *)
(* stored object has its resourceVersion.                                  *)
(***************************************************************************)
EXTENDS Integers, Sequences, FiniteSets

CONSTANTS
  Null,               \* nothing
  Tables,             \* the tables, by the name of their owner
  Kinds,              \* the kinds of table tried: "hive", "view" and "ctas"
  EnableFinalizers,   \* op.cfg.EnableFinalizers
  Fragile,            \* the steps whose calls may fail and at which the process may stop
  MaxObjects,         \* bound on the objects ever created, for each kind of table
  MaxFaults           \* bound on failed calls and restarts

ASSUME LifecycleAssumption ==
  /\ Null \notin Nat /\ Kinds # {} /\ Kinds \subseteq {"hive", "view", "ctas"}
  /\ EnableFinalizers \in BOOLEAN
  /\ MaxObjects \in [Kinds -> Nat] /\ MaxFaults \in Nat

VARIABLES
  owner,     \* the ReportDataSource of each table
  ownerSync, \* where its sync is, and the uid of the copy it works on
  obj,       \* the stored HiveTables and PrestoTables
  watch,     \* the watch events of each object that are under way
  cache,     \* the informers' copies
  notify,    \* the copies whose handler has not run yet
  queue,     \* the keys in hiveTableQueue and prestoTableQueue
  work,      \* the state of each worker: where it is, and its copy
  tables,    \* the table or view in Hive or Presto: the uid it was created for
  announced, \* the table was named in the status of an object (history)
  nextUid,   \* bound and source of uids
  faults,    \* bound
  KindOf     \* the kind of each table, which nothing changes

ownerVars == <<owner, ownerSync>>
apiVars   == <<obj, watch>>
eventVars == <<cache, notify>>
boundVars == <<nextUid, faults>>
vars == <<ownerVars, apiVars, eventVars, queue, work, tables, announced, boundVars>>

-----------------------------------------------------------------------------
Keys == {"hive", "presto"} \X Tables

(* The key of the object the owner creates.                                *)
MainKey(t) == IF KindOf[t] = "hive" THEN <<"hive", t>> ELSE <<"presto", t>>

(* dropPrestoTable and handlePrestoTable leave an unmanaged table alone.   *)
Unmanaged(k) == k[1] = "presto" /\ KindOf[k[2]] = "hive"

Uids == UNION {0..MaxObjects[kind] : kind \in Kinds}

(* A HiveTable or PrestoTable: metadata, and whether Status.TableName is   *)
(* set.  A delete event has the fields of the object that was deleted.     *)
TableObject == [ phase : {"absent", "live", "terminating"}, uid : Uids, owner : Uids,
                 status : BOOLEAN, finalizer : BOOLEAN ]

NoObject == [phase |-> "absent", uid |-> 0, owner |-> 0, status |-> FALSE, finalizer |-> FALSE]

(* A ReportDataSource: metadata, and whether Status.TableRef is set.       *)
Owner == [phase : {"absent", "live", "terminating"}, uid : Uids, finalizer : BOOLEAN, ref : BOOLEAN]

NoOwner == [phase |-> "absent", uid |-> 0, finalizer |-> FALSE, ref |-> FALSE]

Steps == { "idle", "addFinalizer", "create", "putStatus", "createPrestoTable", "drop",
           "removeFinalizer" }

Idle == [pc |-> "idle", copy |-> NoObject]

NoSync == [pc |-> "idle", uid |-> 0]

(* Every variable holds a value of the kind the code keeps there.          *)
TypeOK ==
  /\ owner \in [Tables -> Owner]
  /\ ownerSync \in [Tables -> [pc : {"idle", "create", "waitHive", "waitPresto"}, uid : Uids]]
  /\ obj \in [Keys -> TableObject]
  /\ watch \in [Keys -> Seq(TableObject)]
  /\ cache \in [Keys -> TableObject]
  /\ notify \in [Keys -> Seq(TableObject)]
  /\ queue \subseteq Keys
  /\ work \in [Keys -> [pc : Steps, copy : TableObject]]
  /\ tables \in [Tables -> Uids \cup {Null}]
  /\ announced \in [Tables -> BOOLEAN]
  /\ nextUid \in Nat /\ nextUid - 1 \in Uids
  /\ faults \in 0..MaxFaults /\ KindOf \in [Tables -> Kinds]

-----------------------------------------------------------------------------
(* The API server and the informers                                        *)

Stored(o) == IF o.phase = "absent" THEN NoObject ELSE o

Put(k, o) ==
  /\ obj' = [obj EXCEPT ![k] = Stored(o)]
  /\ watch' = [watch EXCEPT ![k] = Append(@, o)]

NewUid(t) == nextUid <= MaxObjects[KindOf[t]] /\ nextUid' = nextUid + 1 /\ UNCHANGED faults

(* An object that goes: at once, or when its finalizer has been removed.   *)
Removed(o) == [o EXCEPT !.phase = IF o.finalizer THEN "terminating" ELSE "absent"]

(* A watch event updates the cache; the handlers run behind it.            *)
receive(k) ==
  /\ watch[k] # << >>
  /\ cache' = [cache EXCEPT ![k] = Stored(Head(watch[k]))]
  /\ notify' = [notify EXCEPT ![k] = Append(@, Head(watch[k]))]
  /\ watch' = [watch EXCEPT ![k] = Tail(@)]
  /\ UNCHANGED <<ownerVars, obj, queue, work, tables, announced, boundVars>>

(* Faulty variants are named for what they get wrong.                      *)
dropPrestoTable_never(t, o) == UNCHANGED <<tables, announced>>

Dropped(t) ==
  /\ tables' = [tables EXCEPT ![t] = Null]
  /\ announced' = [announced EXCEPT ![t] = FALSE]

(* Only a table the status names is dropped, and no unmanaged one.         *)
dropHiveTable(t, o) == IF o.status THEN Dropped(t) ELSE UNCHANGED <<tables, announced>>

dropPrestoTable(t, o) ==
  IF o.status /\ ~Unmanaged(<<"presto", t>>) THEN Dropped(t) ELSE UNCHANGED <<tables, announced>>

dropTable(k, o) == IF k[1] = "hive" THEN dropHiveTable(k[2], o) ELSE dropPrestoTable(k[2], o)

Handled(k) ==
  /\ notify[k] # << >>
  /\ notify' = [notify EXCEPT ![k] = Tail(@)]
  /\ UNCHANGED <<ownerVars, apiVars, cache, work, boundVars>>

(* addHiveTable, updateHiveTable, deleteHiveTable.  Without finalizers the *)
(* delete handler itself drops the table.                                  *)
handleHiveTableEvent(k) ==
  LET o == Head(notify[k])
  IN  /\ k[1] = "hive" /\ Handled(k)
      /\ IF o.phase # "live" /\ ~EnableFinalizers
         THEN dropTable(k, o) ELSE UNCHANGED <<tables, announced>>
      /\ queue' = queue \cup {k}

(* addPrestoTable, updatePrestoTable, deletePrestoTable.  The delete       *)
(* handler's drop fails for an unmanaged table, which is then not queued.  *)
handlePrestoTableEvent(k) ==
  LET o     == Head(notify[k])
      eager == o.phase # "live" /\ ~EnableFinalizers
  IN  /\ k[1] = "presto" /\ Handled(k)
      /\ IF eager THEN dropTable(k, o) ELSE UNCHANGED <<tables, announced>>
      /\ queue' = IF eager /\ Unmanaged(k) THEN queue ELSE queue \cup {k}

(* The informer's periodic resync, also of keys handleErr has given up.    *)
resync(k) ==
  /\ cache[k].phase # "absent" /\ k \notin queue
  /\ queue' = queue \cup {k}
  /\ UNCHANGED <<ownerVars, apiVars, eventVars, work, tables, announced, boundVars>>

Fault(step) == step \in Fragile /\ faults < MaxFaults /\ faults' = faults + 1 /\ UNCHANGED nextUid

-----------------------------------------------------------------------------
(* The worker of a key                                                     *)

(* handleErr: the key is queued again, up to maxRequeues times in a row.   *)
Fail(k) ==
  /\ work' = [work EXCEPT ![k] = Idle]
  /\ queue' = queue \cup {k}

Done(k) == work' = [work EXCEPT ![k] = Idle] /\ UNCHANGED queue

Goto(k, step, o) == work' = [work EXCEPT ![k] = [pc |-> step, copy |-> o]] /\ UNCHANGED queue

NeedsFinalizer(o) == EnableFinalizers /\ o.phase = "live" /\ ~o.finalizer

(* The first thing a sync does for a copy of the lister.                   *)
StepFor(o) ==
  IF o.phase = "absent" THEN "idle"
  ELSE IF o.phase = "terminating" THEN "drop"
  ELSE IF NeedsFinalizer(o) THEN "addFinalizer"
  ELSE IF o.status THEN "idle"
  ELSE "create"

(* syncHiveTable, syncPrestoTable and the first lines of their handlers.   *)
syncTable(k) ==
  LET o == cache[k]
  IN  /\ k \in queue /\ work[k].pc = "idle"
      /\ queue' = queue \ {k}
      /\ work' = [work EXCEPT ![k] = IF StepFor(o) = "idle" THEN Idle
                                      ELSE [pc |-> StepFor(o), copy |-> o]]
      /\ UNCHANGED <<ownerVars, apiVars, eventVars, tables, announced, boundVars>>

(* An Update of the worker's copy; any other write since is a conflict.    *)
updateAccepted_always(k) == obj[k].phase # "absent"

updateAccepted(k) == obj[k] = work[k].copy /\ obj[k].phase # "absent"

addFinalizer(k) ==
  LET o == [work[k].copy EXCEPT !.finalizer = TRUE]
  IN  /\ work[k].pc = "addFinalizer"
      /\ IF updateAccepted(k)
         THEN Put(k, o) /\ IF StepFor(o) = "idle" THEN Done(k) ELSE Goto(k, StepFor(o), o)
         ELSE UNCHANGED apiVars /\ Fail(k)
      /\ UNCHANGED <<ownerVars, eventVars, tables, announced, boundVars>>

(* handleHiveTable: CREATE TABLE IF NOT EXISTS.                            *)
createHiveTable(k) ==
  LET o == work[k].copy
  IN  /\ k[1] = "hive" /\ work[k].pc = "create"
      /\ tables' = [tables EXCEPT ![k[2]] = IF @ = Null THEN o.uid ELSE @]
      /\ Goto(k, "putStatus", o)
      /\ UNCHANGED <<ownerVars, apiVars, eventVars, announced, boundVars>>

(* handlePrestoTable: nothing for an unmanaged table, CREATE OR REPLACE    *)
(* VIEW, or CREATE TABLE AS, which fails when the table exists.            *)
handlePrestoTable(k) ==
  LET t == k[2]
      o == work[k].copy
  IN  /\ k[1] = "presto" /\ work[k].pc = "create"
      /\ IF KindOf[t] = "ctas" /\ tables[t] # Null
         THEN UNCHANGED tables /\ Fail(k)
         ELSE /\ tables' = IF Unmanaged(k) THEN tables ELSE [tables EXCEPT ![t] = o.uid]
              /\ Goto(k, "putStatus", o)
      /\ UNCHANGED <<ownerVars, apiVars, eventVars, announced, boundVars>>

Announce(k) == announced' = [announced EXCEPT ![k[2]] = @ \/ ~Unmanaged(k)]

(* The Status of a HiveTable is copied from its Spec and stored.           *)
putHiveTableStatus(k) ==
  LET o == [work[k].copy EXCEPT !.status = TRUE]
  IN  /\ k[1] = "hive" /\ work[k].pc = "putStatus"
      /\ IF updateAccepted(k)
         THEN Put(k, o) /\ Announce(k) /\ Goto(k, "createPrestoTable", o)
         ELSE UNCHANGED <<apiVars, announced>> /\ Fail(k)
      /\ UNCHANGED <<ownerVars, eventVars, tables, boundVars>>

(* copyPrestoTableSpecToStatus and the Update.                             *)
putPrestoTableStatus(k) ==
  LET o == [work[k].copy EXCEPT !.status = TRUE]
  IN  /\ k[1] = "presto" /\ work[k].pc = "putStatus"
      /\ IF updateAccepted(k)
         THEN Put(k, o) /\ Announce(k) /\ Done(k)
         ELSE UNCHANGED <<apiVars, announced>> /\ Fail(k)
      /\ UNCHANGED <<ownerVars, eventVars, tables, boundVars>>

(* The unmanaged PrestoTable of a HiveTable.  When there is one already    *)
(* Create returns an empty object, so handleHiveTable returns an error.    *)
createPrestoTable(k) ==
  LET p == <<"presto", k[2]>>
  IN  /\ work[k].pc = "createPrestoTable"
      /\ \/ /\ obj[p].phase = "absent"
            /\ NewUid(k[2])
            /\ Put(p, [NoObject EXCEPT !.phase = "live", !.uid = nextUid,
                                       !.owner = work[k].copy.uid])
            /\ Done(k)
         \/ /\ obj[p].phase # "absent"
            /\ Fail(k)
            /\ UNCHANGED <<apiVars, boundVars>>
      /\ UNCHANGED <<ownerVars, eventVars, tables, announced>>

dropForDeletion(k) ==
  /\ work[k].pc = "drop"
  /\ dropTable(k, work[k].copy)
  /\ Goto(k, "removeFinalizer", work[k].copy)
  /\ UNCHANGED <<ownerVars, apiVars, eventVars, boundVars>>

removeFinalizer(k) ==
  /\ work[k].pc = "removeFinalizer"
  /\ IF ~work[k].copy.finalizer
     THEN UNCHANGED apiVars /\ Done(k)
     ELSE IF updateAccepted(k)
     THEN Put(k, [work[k].copy EXCEPT !.finalizer = FALSE, !.phase = "absent"]) /\ Done(k)
     ELSE UNCHANGED apiVars /\ Fail(k)
  /\ UNCHANGED <<ownerVars, eventVars, tables, announced, boundVars>>

(* A call of the worker to Hive, Presto or the API server fails.           *)
callFails(k) ==
  /\ work[k].pc # "idle"
  /\ Fault(work[k].pc) /\ Fail(k)
  /\ UNCHANGED <<ownerVars, apiVars, eventVars, tables, announced>>

(* The process stops and another one lists all objects: what was deleted   *)
(* in between is never seen.                                               *)
restart ==
  /\ faults < MaxFaults /\ faults' = faults + 1 /\ UNCHANGED nextUid
  /\ \A k \in Keys : work[k].pc \in Fragile \cup {"idle"}
  /\ ownerSync' = [t \in Tables |-> NoSync]
  /\ watch' = [k \in Keys |-> << >>]
  /\ notify' = [k \in Keys |-> << >>]
  /\ cache' = obj
  /\ queue' = {k \in Keys : obj[k].phase # "absent"}
  /\ work' = [k \in Keys |-> Idle]
  /\ UNCHANGED <<owner, obj, tables, announced>>

-----------------------------------------------------------------------------
(* The owner and its sync.  Its cache is taken to be fresh.                *)

(* A ReportDataSource is created; there is room for its own objects.       *)
createOwner(t) ==
  /\ KindOf[t] # "ctas" /\ owner[t].phase = "absent"
  /\ nextUid + (IF KindOf[t] = "hive" THEN 2 ELSE 1) <= MaxObjects[KindOf[t]] /\ NewUid(t)
  /\ owner' = [owner EXCEPT ![t] = [NoOwner EXCEPT !.phase = "live", !.uid = nextUid]]
  /\ UNCHANGED <<ownerSync, apiVars, eventVars, queue, work, tables, announced>>

deleteOwner(t) ==
  /\ owner[t].phase = "live"
  /\ owner' = [owner EXCEPT ![t].phase = IF owner[t].finalizer THEN "terminating" ELSE "absent"]
  /\ UNCHANGED <<ownerSync, apiVars, eventVars, queue, work, tables, announced, boundVars>>

(* syncReportDataSource of an owner marked for deletion.                   *)
removeOwnerFinalizer(t) ==
  /\ owner[t].phase = "terminating" /\ ownerSync[t].pc = "idle"
  /\ owner' = [owner EXCEPT ![t].phase = "absent", ![t].finalizer = FALSE]
  /\ UNCHANGED <<ownerSync, apiVars, eventVars, queue, work, tables, announced, boundVars>>

(* handleReportDataSource of an owner that has no table yet.               *)
syncOwner(t) ==
  /\ owner[t].phase = "live" /\ ~owner[t].ref /\ ownerSync[t].pc = "idle"
  /\ owner' = [owner EXCEPT ![t].finalizer = EnableFinalizers]
  /\ ownerSync' = [ownerSync EXCEPT ![t] = [pc |-> "create", uid |-> owner[t].uid]]
  /\ UNCHANGED <<apiVars, eventVars, queue, work, tables, announced, boundVars>>

SyncAt(t, step) == ownerSync' = [ownerSync EXCEPT ![t].pc = step]

SyncEnds(t) == ownerSync' = [ownerSync EXCEPT ![t] = NoSync]

Adopt_never(t, k, wait) ==
  /\ obj[k].phase # "absent"
  /\ SyncEnds(t)
  /\ UNCHANGED <<apiVars, boundVars>>

(* An object that exists already is looked up in the lister, whoever owns  *)
(* it; it may not be there yet.                                            *)
Adopt(t, k, wait) ==
  /\ obj[k].phase # "absent"
  /\ IF cache[k].phase = "absent" THEN SyncEnds(t) ELSE SyncAt(t, wait)
  /\ UNCHANGED <<apiVars, boundVars>>

CreateObject(t, k) ==
  /\ obj[k].phase = "absent" /\ NewUid(t)
  /\ Put(k, [NoObject EXCEPT !.phase = "live", !.uid = nextUid,
                  !.owner = ownerSync[t].uid, !.finalizer = EnableFinalizers])

createHiveTableCR(t) ==
  LET k == <<"hive", t>>
  IN  /\ KindOf[t] = "hive" /\ ownerSync[t].pc = "create"
      /\ (CreateObject(t, k) /\ SyncAt(t, "waitHive")) \/ Adopt(t, k, "waitHive")
      /\ UNCHANGED <<owner, eventVars, queue, work, tables, announced>>

createPrestoTableCR(t) ==
  LET k == <<"presto", t>>
  IN  /\ KindOf[t] = "view" /\ ownerSync[t].pc = "create"
      /\ (CreateObject(t, k) /\ SyncAt(t, "waitPresto")) \/ Adopt(t, k, "waitPresto")
      /\ UNCHANGED <<owner, eventVars, queue, work, tables, announced>>

HasStatus(k) == obj[k].phase # "absent" /\ obj[k].status

waitForHiveTable(t) ==
  /\ ownerSync[t].pc = "waitHive" /\ HasStatus(<<"hive", t>>)
  /\ SyncAt(t, "waitPresto")
  /\ UNCHANGED <<owner, apiVars, eventVars, queue, work, tables, announced, boundVars>>

(* waitForPrestoTable and updateReportDataSource, which writes to whatever *)
(* object has the owner's name by then.                                    *)
waitForPrestoTable(t) ==
  /\ ownerSync[t].pc = "waitPresto" /\ HasStatus(<<"presto", t>>)
  /\ owner' = [owner EXCEPT ![t].ref = owner[t].phase # "absent"]
  /\ SyncEnds(t)
  /\ UNCHANGED <<apiVars, eventVars, queue, work, tables, announced, boundVars>>

(* wait.Poll gives up; the sync fails and the owner is queued again.       *)
waitTimesOut(t) ==
  /\ \/ ownerSync[t].pc = "waitHive" /\ ~HasStatus(<<"hive", t>>)
     \/ ownerSync[t].pc = "waitPresto" /\ ~HasStatus(<<"presto", t>>)
  /\ SyncEnds(t)
  /\ UNCHANGED <<owner, apiVars, eventVars, queue, work, tables, announced, boundVars>>

(* A user creates and deletes a PrestoTable with createTableAs.            *)
createTableResource(t) ==
  LET k == <<"presto", t>>
  IN  /\ KindOf[t] = "ctas" /\ obj[k].phase = "absent" /\ NewUid(t)
      /\ Put(k, [NoObject EXCEPT !.phase = "live", !.uid = nextUid])
      /\ UNCHANGED <<ownerVars, eventVars, queue, work, tables, announced>>

deleteTableResource(t) ==
  LET k == <<"presto", t>>
  IN  /\ KindOf[t] = "ctas" /\ obj[k].phase = "live"
      /\ Put(k, Removed(obj[k]))
      /\ UNCHANGED <<ownerVars, eventVars, queue, work, tables, announced, boundVars>>

(* Kubernetes deletes an object whose controller is gone.                  *)
OwnerGone(k) ==
  LET o == obj[k]
  IN  /\ o.owner # 0
      /\ IF Unmanaged(k)
         THEN LET h == obj[<<"hive", k[2]>>] IN h.phase = "absent" \/ h.uid # o.owner
         ELSE owner[k[2]].phase = "absent" \/ owner[k[2]].uid # o.owner

collectGarbage(k) ==
  /\ obj[k].phase = "live" /\ OwnerGone(k)
  /\ Put(k, Removed(obj[k]))
  /\ UNCHANGED <<ownerVars, eventVars, queue, work, tables, announced, boundVars>>

-----------------------------------------------------------------------------
Init ==
  /\ owner = [t \in Tables |-> NoOwner]
  /\ ownerSync = [t \in Tables |-> NoSync]
  /\ obj = [k \in Keys |-> NoObject]
  /\ watch = [k \in Keys |-> << >>]
  /\ cache = [k \in Keys |-> NoObject]
  /\ notify = [k \in Keys |-> << >>]
  /\ queue = {}
  /\ work = [k \in Keys |-> Idle]
  /\ tables = [t \in Tables |-> Null]
  /\ announced = [t \in Tables |-> FALSE]
  /\ nextUid = 1 /\ faults = 0 /\ KindOf \in [Tables -> Kinds]

WorkerStep(k) ==
  \/ syncTable(k) \/ addFinalizer(k) \/ createHiveTable(k) \/ handlePrestoTable(k)
  \/ putHiveTableStatus(k) \/ putPrestoTableStatus(k) \/ createPrestoTable(k)
  \/ dropForDeletion(k) \/ removeFinalizer(k)

OwnerStep(t) ==
  \/ syncOwner(t) \/ createHiveTableCR(t) \/ createPrestoTableCR(t)
  \/ waitForHiveTable(t) \/ waitForPrestoTable(t) \/ removeOwnerFinalizer(t)

Next ==
  /\ \/ \E t \in Tables :
          \/ createOwner(t) \/ deleteOwner(t) \/ OwnerStep(t) \/ waitTimesOut(t)
          \/ createTableResource(t) \/ deleteTableResource(t)
     \/ \E k \in Keys :
          \/ receive(k) \/ handleHiveTableEvent(k) \/ handlePrestoTableEvent(k)
          \/ resync(k) \/ WorkerStep(k)
          \/ collectGarbage(k) \/ callFails(k)
     \/ restart
  /\ UNCHANGED KindOf

Spec == Init /\ [][Next]_<<vars, KindOf>>

(* The process runs, watches deliver, informers resync and Kubernetes      *)
(* collects what has no owner.                                             *)
Fairness ==
  /\ \A t \in Tables : WF_vars(OwnerStep(t)) /\ WF_vars(waitTimesOut(t))
  /\ \A k \in Keys :
       /\ WF_vars(receive(k)) /\ WF_vars(resync(k))
       /\ WF_vars(handleHiveTableEvent(k) \/ handlePrestoTableEvent(k))
       /\ WF_vars(WorkerStep(k)) /\ WF_vars(collectGarbage(k))

FairSpec == Spec /\ Fairness

-----------------------------------------------------------------------------
(* A HiveTable or managed PrestoTable that is live and names its table in  *)
(* its status has that table, and a view is the one created for it:        *)
(* neither a late drop for an earlier object of the name nor a failed call *)
(* or a restart takes it away.  All variables keep their types.            *)
StatusMeansTable ==
  /\ TypeOK
  /\ \A k \in Keys :
       obj[k].phase = "live" /\ obj[k].status /\ ~Unmanaged(k)
         => /\ tables[k[2]] # Null
            /\ KindOf[k[2]] = "view" => tables[k[2]] = obj[k].uid

(* Once an object named the table in its status and goes away, the table   *)
(* is dropped, or a new object of the name takes it over.                  *)
AnnouncedTableIsDropped ==
  \A t \in Tables :
    announced[t] /\ obj[MainKey(t)].phase # "live"
      ~> ~announced[t] \/ obj[MainKey(t)].phase = "live"

(* A ReportDataSource gets its table reference, unless it is deleted.      *)
OwnerGetsTable ==
  \A t \in Tables :
    owner[t].phase = "live" ~> owner[t].ref \/ owner[t].phase # "live"
=============================================================================
