----------------------- MODULE StorageLocationsProofs -----------------------
(***************************************************************************)
(* A live StorageLocation that names its database has it, and every table  *)
(* lies in a database that exists, for any number of StorageLocations and  *)
(* of Reports and ReportDataSources that use them.                         *)
(***************************************************************************)
EXTENDS StorageLocations, FiniteSetTheorems, TLAPS

-----------------------------------------------------------------------------
(* The inductive invariant                                                 *)

(* A copy is never ahead of the stored object in its life.                 *)
Behind(c, s) ==
  /\ c.phase # "new" => obj[s].phase # "new"
  /\ c.phase \in {"terminating", "gone"} => obj[s].phase \in {"terminating", "gone"}

(* Copies lag, and the worker deletes only what is being deleted.          *)
CopiesSound(s) ==
  /\ Behind(cache[s], s) /\ Behind(work[s].copy, s)
  /\ work[s].pc \in {"addFinalizer", "createDatabase", "putStatus"} => work[s].copy.phase = "live"
  /\ work[s].pc \in {"deleteStorage", "removeFinalizer"} => work[s].copy.phase = "terminating"

(* The database is there before the status says so, or is about to.        *)
DatabaseSound(s) ==
  /\ s \in Unmanaged => db[s]
  /\ obj[s].phase = "new" => ~obj[s].status
  /\ obj[s].phase = "live" /\ (obj[s].status \/ work[s].pc = "putStatus") => db[s]

TablesSound == \A u \in Users : user[u].table # Null => db[user[u].table]

StorageInv ==
  /\ TypeOK
  /\ \A s \in Storages : CopiesSound(s) /\ DatabaseSound(s)
  /\ TablesSound

-----------------------------------------------------------------------------
(* Facts about the operators                                               *)

(* The choice of a StorageLocation ends in one of them, or in none.        *)
LEMMA GetStorageType ==
  ASSUME NEW objects, NEW ref \in Storages \cup {Null}
  PROVE  getStorage(objects, ref) \in Storages \cup {Null}
  <1> DEFINE found == {s \in Defaults : Exists(objects[s])}
  <1>1. Cardinality(found) = 1 => found # {}
    BY FS_EmptySet
  <1>2. found \subseteq Storages
    BY StorageAssumption
  <1>3. getDefaultStorageLocation(objects) \in Storages \cup {Null}
    <2>1. CASE Cardinality(found) = 1
      <3>1. (CHOOSE s \in found : TRUE) \in found
        BY <1>1, <2>1
      <3> QED BY <1>2, <2>1, <3>1 DEF getDefaultStorageLocation
    <2>2. CASE Cardinality(found) # 1
      BY <2>2 DEF getDefaultStorageLocation
    <2> QED BY <2>1, <2>2
  <1> QED BY <1>3 DEF getStorage

LEMMA IdleType == Idle \in [pc : Steps, copy : StorageLocation]
  BY DEF Idle, Steps, NewStorage, StorageLocation

(* Nothing of the StorageLocation k changes.                               *)
Same(k) == obj'[k] = obj[k] /\ cache'[k] = cache[k] /\ work'[k] = work[k] /\ db'[k] = db[k]

LEMMA StorageFrame ==
  ASSUME NEW k \in Storages, CopiesSound(k), DatabaseSound(k), Same(k)
  PROVE  CopiesSound(k)' /\ DatabaseSound(k)'
  BY DEF CopiesSound, DatabaseSound, Behind, Same

(* A step about one StorageLocation leaves the invariant to that one, and  *)
(* to the tables.                                                          *)
LEMMA OneStorage ==
  ASSUME StorageInv, NEW s \in Storages, TypeOK', \A k \in Storages : k # s => Same(k),
         CopiesSound(s)', DatabaseSound(s)', TablesSound'
  PROVE  StorageInv'
  <1>1. ASSUME NEW k \in Storages
        PROVE  CopiesSound(k)' /\ DatabaseSound(k)'
    <2>1. CASE k = s
      BY <2>1
    <2>2. CASE k # s
      BY <2>2, StorageFrame DEF StorageInv
    <2> QED BY <2>1, <2>2
  <1> QED BY <1>1 DEF StorageInv

(* Tables stay sound when no user changes and no database with a table is  *)
(* dropped.                                                                *)
LEMMA TablesFrame ==
  ASSUME StorageInv, user' = user, NEW s \in Storages,
         \A k \in Storages : k # s => db'[k] = db[k],
         db[s] /\ TablesIn(s) # {} => db'[s]
  PROVE  TablesSound'
  <1> SUFFICES ASSUME NEW u \in Users, user[u].table # Null
               PROVE  db'[user[u].table]
    BY DEF TablesSound
  <1>1. user[u].table \in Storages /\ db[user[u].table]
    BY DEF StorageInv, TypeOK, TablesSound
  <1>2. CASE user[u].table = s
    BY <1>1, <1>2 DEF TablesIn
  <1>3. CASE user[u].table # s
    BY <1>1, <1>3
  <1> QED BY <1>2, <1>3

(* A step that leaves the databases and the users alone.                   *)
LEMMA TablesAlone ==
  ASSUME StorageInv, UNCHANGED <<db, user>>
  PROVE  TablesSound'
  BY DEF StorageInv, TablesSound

(* What a drop changes: never a table's database, never an unmanaged one.  *)
LEMMA DropSound ==
  ASSUME StorageInv, NEW s \in Storages, NEW o \in StorageLocation, CanDrop(s, o)
  PROVE  /\ Dropped(s, o) \in [Storages -> BOOLEAN]
         /\ \A k \in Storages : k # s => Dropped(s, o)[k] = db[k]
         /\ s \in Unmanaged => Dropped(s, o)[s] = db[s]
         /\ db[s] /\ TablesIn(s) # {} => Dropped(s, o)[s]
  BY DEF StorageInv, TypeOK, CanDrop, Dropped, StorageLocation

-----------------------------------------------------------------------------
(* The API and the informer                                                *)

LEMMA CreateStep ==
  ASSUME StorageInv, NEW s \in Storages, createStorageLocation(s), UNCHANGED EnableFinalizers
  PROVE  StorageInv'
  <1> DEFINE o == [obj[s] EXCEPT !.phase = "live"]
  <1>1. o \in StorageLocation /\ o.phase = "live" /\ o.status = obj[s].status
    BY DEF StorageInv, TypeOK, StorageLocation
  <1>2. /\ obj[s].phase = "new" /\ obj' = [obj EXCEPT ![s] = o]
        /\ UNCHANGED <<cache, queue, work, db, user, panicked, faults, EnableFinalizers>>
    BY DEF createStorageLocation
  <1> HIDE DEF o
  <1>3. TypeOK' /\ obj'[s] = o /\ \A k \in Storages : k # s => Same(k)
    BY <1>1, <1>2 DEF StorageInv, TypeOK, Same
  <1>4. work[s].pc = "idle"
    BY <1>2 DEF StorageInv, CopiesSound, Behind, TypeOK, Steps
  <1>5. CopiesSound(s)'
    BY <1>1, <1>2, <1>3 DEF StorageInv, CopiesSound, Behind
  <1>6. DatabaseSound(s)'
    BY <1>1, <1>2, <1>3, <1>4 DEF StorageInv, DatabaseSound
  <1> QED BY <1>2, <1>3, <1>5, <1>6, TablesAlone, OneStorage

LEMMA DeleteStep ==
  ASSUME StorageInv, NEW s \in Storages, deleteStorageLocation(s), UNCHANGED EnableFinalizers
  PROVE  StorageInv'
  <1> DEFINE p == IF obj[s].finalizer THEN "terminating" ELSE "gone"
             o == [obj[s] EXCEPT !.phase = p]
  <1>1. o \in StorageLocation /\ o.phase \in {"terminating", "gone"}
    BY DEF StorageInv, TypeOK, StorageLocation
  <1>2. /\ obj[s].phase = "live" /\ obj' = [obj EXCEPT ![s] = o]
        /\ UNCHANGED <<cache, queue, work, db, user, panicked, faults, EnableFinalizers>>
    BY DEF deleteStorageLocation
  <1> HIDE DEF o, p
  <1>3. TypeOK' /\ obj'[s] = o /\ \A k \in Storages : k # s => Same(k)
    BY <1>1, <1>2 DEF StorageInv, TypeOK, Same
  <1>4. CopiesSound(s)'
    BY <1>1, <1>2, <1>3 DEF StorageInv, CopiesSound, Behind
  <1>5. DatabaseSound(s)'
    BY <1>1, <1>2, <1>3 DEF StorageInv, DatabaseSound
  <1> QED BY <1>2, <1>3, <1>4, <1>5, TablesAlone, OneStorage

(* Without finalizers the handler drops the database itself: the object is *)
(* gone by then, and the drop is refused while there are tables.           *)
LEMMA DeliverStep ==
  ASSUME StorageInv, NEW s \in Storages, deliver(s), UNCHANGED EnableFinalizers
  PROVE  StorageInv'
  <1>1. /\ cache' = [cache EXCEPT ![s] = obj[s]] /\ queue' = queue \cup {s}
        /\ UNCHANGED <<obj, work, user, panicked, faults, EnableFinalizers>>
        /\ \/ db' = db
           \/ obj[s].phase = "gone" /\ CanDrop(s, obj[s]) /\ db' = Dropped(s, obj[s])
    BY DEF deliver
  <1>2. obj[s] \in StorageLocation
    BY DEF StorageInv, TypeOK
  <1>3. /\ db' \in [Storages -> BOOLEAN]
        /\ \A k \in Storages : k # s => db'[k] = db[k]
        /\ s \in Unmanaged => db'[s] = db[s]
        /\ db[s] /\ TablesIn(s) # {} => db'[s]
        /\ db' = db \/ obj[s].phase = "gone"
    <2>1. CASE db' = db
      BY <2>1 DEF StorageInv, TypeOK
    <2>2. CASE obj[s].phase = "gone" /\ CanDrop(s, obj[s]) /\ db' = Dropped(s, obj[s])
      BY <1>2, <2>2, DropSound
    <2> QED BY <1>1, <2>1, <2>2
  <1>4. /\ cache' \in [Storages -> StorageLocation] /\ cache'[s] = obj[s]
        /\ \A k \in Storages : k # s => cache'[k] = cache[k]
    BY <1>1, <1>2 DEF StorageInv, TypeOK
  <1>5. TypeOK' /\ \A k \in Storages : k # s => Same(k)
    BY <1>1, <1>3, <1>4 DEF StorageInv, TypeOK, Same
  <1>6. CopiesSound(s)'
    BY <1>1, <1>4 DEF StorageInv, CopiesSound, Behind
  <1>7. DatabaseSound(s)'
    BY <1>1, <1>3 DEF StorageInv, DatabaseSound
  <1>8. TablesSound'
    BY <1>1, <1>3, TablesFrame
  <1> QED BY <1>5, <1>6, <1>7, <1>8, OneStorage

-----------------------------------------------------------------------------
(* The worker                                                              *)

(* What the worker may remember between two steps.                         *)
WorkSound(s, w) ==
  /\ w \in [pc : Steps, copy : StorageLocation]
  /\ Behind(w.copy, s)
  /\ w.pc \in {"addFinalizer", "createDatabase", "putStatus"} => w.copy.phase = "live"
  /\ w.pc \in {"deleteStorage", "removeFinalizer"} => w.copy.phase = "terminating"
  /\ w.pc = "putStatus" /\ obj[s].phase = "live" => db[s]

LEMMA WorkStep ==
  ASSUME StorageInv, NEW s \in Storages, NEW w, WorkSound(s, w), work' = [work EXCEPT ![s] = w],
         queue' \subseteq Storages, faults' \in 0..MaxFaults,
         UNCHANGED <<obj, cache, db, user, panicked, EnableFinalizers>>
  PROVE  StorageInv'
  <1>1. /\ work' \in [Storages -> [pc : Steps, copy : StorageLocation]] /\ work'[s] = w
        /\ \A k \in Storages : k # s => work'[k] = work[k]
    BY DEF StorageInv, TypeOK, WorkSound
  <1>2. TypeOK' /\ \A k \in Storages : k # s => Same(k)
    BY <1>1 DEF StorageInv, TypeOK, Same
  <1>3. CopiesSound(s)'
    BY <1>1 DEF StorageInv, CopiesSound, Behind, WorkSound
  <1>4. DatabaseSound(s)'
    BY <1>1 DEF StorageInv, DatabaseSound, WorkSound
  <1> QED BY <1>2, <1>3, <1>4, TablesAlone, OneStorage

LEMMA IdleSound ==
  ASSUME NEW s \in Storages
  PROVE  WorkSound(s, Idle)
  <1>1. Idle.pc = "idle" /\ Idle.copy.phase = "new"
    BY DEF Idle, NewStorage
  <1> QED BY <1>1, IdleType DEF WorkSound, Behind

(* The worker ends its sync, well or in an error, and has changed nothing. *)
LEMMA EndStep ==
  ASSUME StorageInv, NEW s \in Storages, Fail(s) \/ Done(s), faults' \in 0..MaxFaults,
         UNCHANGED <<obj, cache, db, user, panicked, EnableFinalizers>>
  PROVE  StorageInv'
  <1>1. queue' \subseteq Storages /\ work' = [work EXCEPT ![s] = Idle]
    BY DEF Fail, Done, StorageInv, TypeOK
  <1> QED BY <1>1, IdleSound, WorkStep

LEMMA SyncStep ==
  ASSUME StorageInv, NEW s \in Storages, syncStorageLocation(s), UNCHANGED EnableFinalizers
  PROVE  StorageInv'
  <1> DEFINE o == cache[s]
             step == IF o.phase = "terminating" THEN "deleteStorage"
                     ELSE IF o.phase # "live" THEN "idle"
                     ELSE IF NeedsFinalizer(o) THEN "addFinalizer" ELSE handleStep(s, o)
             w == IF step = "idle" THEN Idle ELSE [pc |-> step, copy |-> o]
  <1>1. /\ queue' \subseteq Storages /\ work' = [work EXCEPT ![s] = w]
        /\ faults' \in 0..MaxFaults /\ UNCHANGED <<obj, cache, db, user, panicked, EnableFinalizers>>
    BY DEF syncStorageLocation, StorageInv, TypeOK
  <1>2. o \in StorageLocation /\ Behind(o, s)
    BY DEF StorageInv, TypeOK, CopiesSound
  <1>3. /\ step \in Steps
        /\ step \in {"addFinalizer", "createDatabase", "putStatus"} => o.phase = "live"
        /\ step = "deleteStorage" => o.phase = "terminating"
        /\ step # "removeFinalizer"
        /\ step = "putStatus" => s \in Unmanaged
    BY DEF Steps, handleStep
  <1> HIDE DEF o, step
  <1>4. WorkSound(s, w)
    <2>1. CASE step = "idle"
      BY <2>1, IdleSound
    <2>2. CASE step # "idle"
      <3>1. w.pc = step /\ w.copy = o /\ w \in [pc : Steps, copy : StorageLocation]
        BY <1>2, <1>3, <2>2
      <3>2. s \in Unmanaged => db[s]
        BY DEF StorageInv, DatabaseSound
      <3> HIDE DEF w
      <3>3. WorkSound(s, w)
        BY <1>2, <1>3, <3>1, <3>2 DEF WorkSound
      <3> QED BY <3>3 DEF w
    <2> QED BY <2>1, <2>2
  <1> HIDE DEF w
  <1> QED BY <1>1, <1>4, WorkStep

(* An accepted Update of a live copy: the object stays live.               *)
LEMMA UpdateStep ==
  ASSUME StorageInv, NEW s \in Storages, NEW o \in StorageLocation, o.phase = "live",
         obj[s].phase = "live", obj' = [obj EXCEPT ![s] = o], NEW w, WorkSound(s, w),
         o.status => db[s], work' = [work EXCEPT ![s] = w], queue' = queue,
         user' \in [Users -> [ live : BOOLEAN, table : Storages \cup {Null}, queued : BOOLEAN,
                               tries : 0..maxRequeues ]],
         \A u \in Users : user'[u].table = user[u].table,
         UNCHANGED <<cache, db, panicked, faults, EnableFinalizers>>
  PROVE  StorageInv'
  <1>1. /\ work' \in [Storages -> [pc : Steps, copy : StorageLocation]] /\ work'[s] = w
        /\ \A k \in Storages : k # s => work'[k] = work[k]
    BY DEF StorageInv, TypeOK, WorkSound
  <1>2. obj'[s] = o
    BY DEF StorageInv, TypeOK
  <1>3. TypeOK' /\ \A k \in Storages : k # s => Same(k)
    BY <1>1 DEF StorageInv, TypeOK, Same
  <1>4. CopiesSound(s)'
    BY <1>1, <1>2 DEF StorageInv, CopiesSound, Behind, WorkSound
  <1>5. DatabaseSound(s)'
    BY <1>1, <1>2 DEF StorageInv, DatabaseSound, WorkSound
  <1>6. TablesSound'
    BY DEF StorageInv, TablesSound
  <1> QED BY <1>3, <1>4, <1>5, <1>6, OneStorage

LEMMA AddFinalizerStep ==
  ASSUME StorageInv, NEW s \in Storages, addStorageLocationFinalizer(s), UNCHANGED EnableFinalizers
  PROVE  StorageInv'
  <1> DEFINE o == [work[s].copy EXCEPT !.finalizer = TRUE]
             step == handleStep(s, o)
  <1>1. /\ work[s].pc = "addFinalizer" /\ work[s].copy.phase = "live"
        /\ work[s].copy \in StorageLocation
        /\ UNCHANGED <<cache, db, user, panicked, faults, EnableFinalizers>>
    BY DEF addStorageLocationFinalizer, StorageInv, CopiesSound, TypeOK, Steps
  <1>2. CASE ~updateAccepted(s)
    BY <1>1, <1>2, EndStep DEF addStorageLocationFinalizer, StorageInv, TypeOK
  <1>3. CASE updateAccepted(s)
    <2>1. /\ o \in StorageLocation /\ o.phase = "live" /\ o.status = work[s].copy.status
          /\ obj[s] = work[s].copy /\ step \in {"idle", "putStatus", "createDatabase"}
          /\ step = "putStatus" => s \in Unmanaged
      BY <1>1, <1>3 DEF updateAccepted, StorageLocation, handleStep
    <2> DEFINE w == IF step = "idle" THEN Idle ELSE [pc |-> step, copy |-> o]
    <2>2. obj' = [obj EXCEPT ![s] = o] /\ queue' = queue /\ work' = [work EXCEPT ![s] = w]
      BY <1>3 DEF addStorageLocationFinalizer, Goto, Done
    <2> HIDE DEF o, step
    <2>3. WorkSound(s, w)
      <3>1. CASE step = "idle"
        BY <3>1, IdleSound
      <3>2. CASE step # "idle"
        <4>1. w.pc = step /\ w.copy = o /\ w \in [pc : Steps, copy : StorageLocation]
          BY <2>1, <3>2 DEF Steps
        <4>2. s \in Unmanaged => db[s]
          BY DEF StorageInv, DatabaseSound
        <4> HIDE DEF w
        <4>3. WorkSound(s, w)
          BY <1>1, <2>1, <4>1, <4>2 DEF WorkSound, Behind
        <4> QED BY <4>3 DEF w
      <3> QED BY <3>1, <3>2
    <2> HIDE DEF w
    <2>4. o.status => db[s]
      BY <1>1, <2>1 DEF StorageInv, DatabaseSound
    <2> QED BY <1>1, <2>1, <2>2, <2>3, <2>4, UpdateStep DEF StorageInv, TypeOK
  <1> QED BY <1>2, <1>3

LEMMA CreateDatabaseStep ==
  ASSUME StorageInv, NEW s \in Storages, createDatabase(s), UNCHANGED EnableFinalizers
  PROVE  StorageInv'
  <1>1. /\ work[s].pc = "createDatabase" /\ work[s].copy.phase = "live"
        /\ work[s].copy \in StorageLocation
        /\ UNCHANGED <<obj, cache, user, panicked, faults, EnableFinalizers>>
    BY DEF createDatabase, StorageInv, CopiesSound, TypeOK, Steps
  <1>2. CASE Fail(s) /\ UNCHANGED db
    BY <1>1, <1>2, EndStep DEF StorageInv, TypeOK
  <1>3. CASE db' = [db EXCEPT ![s] = TRUE] /\ Goto(s, "putStatus", work[s].copy)
    <2> DEFINE w == [pc |-> "putStatus", copy |-> work[s].copy]
    <2>1. w \in [pc : Steps, copy : StorageLocation] /\ w.pc = "putStatus" /\ w.copy = work[s].copy
      BY <1>1 DEF Steps
    <2>2. queue' = queue /\ work' = [work EXCEPT ![s] = w]
      BY <1>3 DEF Goto
    <2> HIDE DEF w
    <2>3. /\ db' \in [Storages -> BOOLEAN] /\ db'[s]
          /\ \A k \in Storages : k # s => db'[k] = db[k]
      BY <1>3 DEF StorageInv, TypeOK
    <2>4. /\ work' \in [Storages -> [pc : Steps, copy : StorageLocation]] /\ work'[s] = w
          /\ \A k \in Storages : k # s => work'[k] = work[k]
      BY <2>1, <2>2 DEF StorageInv, TypeOK
    <2>5. TypeOK' /\ \A k \in Storages : k # s => Same(k)
      BY <1>1, <2>2, <2>3, <2>4 DEF StorageInv, TypeOK, Same
    <2>6. CopiesSound(s)'
      BY <1>1, <2>1, <2>4 DEF StorageInv, CopiesSound, Behind
    <2>7. DatabaseSound(s)'
      BY <1>1, <2>3 DEF StorageInv, DatabaseSound
    <2>8. TablesSound'
      BY <1>1, <2>3, TablesFrame
    <2> QED BY <2>5, <2>6, <2>7, <2>8, OneStorage
  <1> QED BY <1>2, <1>3 DEF createDatabase

LEMMA QueueDependentsType ==
  ASSUME TypeOK, NEW s \in Storages
  PROVE  /\ queueDependents(s) \in [Users -> [ live : BOOLEAN, table : Storages \cup {Null},
                                               queued : BOOLEAN, tries : 0..maxRequeues ]]
         /\ \A u \in Users : queueDependents(s)[u].table = user[u].table
  BY DEF TypeOK, queueDependents

LEMMA PutStatusStep ==
  ASSUME StorageInv, NEW s \in Storages, putStatus(s), UNCHANGED EnableFinalizers
  PROVE  StorageInv'
  <1>1. /\ work[s].pc = "putStatus" /\ work[s].copy.phase = "live"
        /\ UNCHANGED <<cache, db, panicked, faults, EnableFinalizers>>
    BY DEF putStatus, StorageInv, CopiesSound
  <1>2. CASE ~updateAccepted(s)
    BY <1>1, <1>2, EndStep DEF putStatus, StorageInv, TypeOK
  <1>3. CASE updateAccepted(s)
    <2> DEFINE o == [obj[s] EXCEPT !.status = TRUE]
    <2>1. o \in StorageLocation /\ o.phase = "live" /\ obj[s].phase = "live"
      BY <1>1, <1>3 DEF updateAccepted, StorageInv, TypeOK, StorageLocation
    <2>2. /\ obj' = [obj EXCEPT ![s] = o] /\ user' = queueDependents(s)
          /\ queue' = queue /\ work' = [work EXCEPT ![s] = Idle]
      BY <1>3 DEF putStatus, Done
    <2> HIDE DEF o
    <2>3. db[s]
      BY <1>1, <2>1 DEF StorageInv, DatabaseSound
    <2>4. /\ user' \in [Users -> [ live : BOOLEAN, table : Storages \cup {Null},
                                   queued : BOOLEAN, tries : 0..maxRequeues ]]
          /\ \A u \in Users : user'[u].table = user[u].table
      BY <2>2, QueueDependentsType DEF StorageInv
    <2> QED BY <1>1, <2>1, <2>2, <2>3, <2>4, IdleSound, UpdateStep
  <1> QED BY <1>2, <1>3

(* The worker drops a database: its copy is being deleted, and so is the   *)
(* stored object, however old the copy is.                                 *)
LEMMA DeleteStorageStep ==
  ASSUME StorageInv, NEW s \in Storages, deleteStorage(s), UNCHANGED EnableFinalizers
  PROVE  StorageInv'
  <1>1. /\ work[s].pc = "deleteStorage" /\ work[s].copy.phase = "terminating"
        /\ work[s].copy \in StorageLocation /\ obj[s].phase \in {"terminating", "gone"}
        /\ UNCHANGED <<obj, cache, user, panicked, faults, EnableFinalizers>>
    BY DEF deleteStorage, StorageInv, CopiesSound, Behind, TypeOK, Steps
  <1>2. CASE UNCHANGED db /\ Fail(s)
    BY <1>1, <1>2, EndStep DEF StorageInv, TypeOK
  <1>3. CASE /\ CanDrop(s, work[s].copy) /\ db' = Dropped(s, work[s].copy)
             /\ Goto(s, "removeFinalizer", work[s].copy)
    <2> DEFINE w == [pc |-> "removeFinalizer", copy |-> work[s].copy]
    <2>1. w \in [pc : Steps, copy : StorageLocation] /\ w.pc = "removeFinalizer" /\ w.copy = work[s].copy
      BY <1>1 DEF Steps
    <2>2. queue' = queue /\ work' = [work EXCEPT ![s] = w]
      BY <1>3 DEF Goto
    <2> HIDE DEF w
    <2>3. /\ db' \in [Storages -> BOOLEAN]
          /\ \A k \in Storages : k # s => db'[k] = db[k]
          /\ s \in Unmanaged => db'[s] = db[s]
          /\ db[s] /\ TablesIn(s) # {} => db'[s]
      BY <1>1, <1>3, DropSound
    <2>4. /\ work' \in [Storages -> [pc : Steps, copy : StorageLocation]] /\ work'[s] = w
          /\ \A k \in Storages : k # s => work'[k] = work[k]
      BY <2>1, <2>2 DEF StorageInv, TypeOK
    <2>5. TypeOK' /\ \A k \in Storages : k # s => Same(k)
      BY <1>1, <2>2, <2>3, <2>4 DEF StorageInv, TypeOK, Same
    <2>6. CopiesSound(s)'
      BY <1>1, <2>1, <2>4 DEF StorageInv, CopiesSound, Behind
    <2>7. DatabaseSound(s)'
      BY <1>1, <2>3 DEF StorageInv, DatabaseSound
    <2>8. TablesSound'
      BY <1>1, <2>3, TablesFrame
    <2> QED BY <2>5, <2>6, <2>7, <2>8, OneStorage
  <1> QED BY <1>2, <1>3 DEF deleteStorage

LEMMA RemoveFinalizerStep ==
  ASSUME StorageInv, NEW s \in Storages, removeStorageLocationFinalizer(s),
         UNCHANGED EnableFinalizers
  PROVE  StorageInv'
  <1>1. /\ work[s].pc = "removeFinalizer" /\ work[s].copy.phase = "terminating"
        /\ UNCHANGED <<cache, db, user, panicked, faults, EnableFinalizers>>
    BY DEF removeStorageLocationFinalizer, StorageInv, CopiesSound
  <1>2. CASE UNCHANGED obj /\ (Done(s) \/ Fail(s))
    BY <1>1, <1>2, EndStep DEF StorageInv, TypeOK
  <1> DEFINE o == [obj[s] EXCEPT !.phase = "gone", !.finalizer = FALSE]
  <1>3. CASE obj' = [obj EXCEPT ![s] = o] /\ Done(s)
    <2>1. o \in StorageLocation /\ o.phase = "gone"
      <3>1. obj[s] \in StorageLocation
        BY DEF StorageInv, TypeOK
      <3> QED BY <3>1 DEF StorageLocation
    <2> HIDE DEF o
    <2>2. obj' \in [Storages -> StorageLocation] /\ obj'[s] = o
          /\ \A k \in Storages : k # s => obj'[k] = obj[k]
      BY <1>3, <2>1 DEF StorageInv, TypeOK
    <2>3. /\ work' \in [Storages -> [pc : Steps, copy : StorageLocation]] /\ work'[s] = Idle
          /\ \A k \in Storages : k # s => work'[k] = work[k]
      BY <1>3, IdleType DEF Done, StorageInv, TypeOK
    <2>4. TypeOK' /\ \A k \in Storages : k # s => Same(k)
      BY <1>1, <1>3, <2>2, <2>3 DEF StorageInv, TypeOK, Same, Done
    <2>5. CopiesSound(s)'
      BY <1>1, <2>1, <2>2, <2>3 DEF StorageInv, CopiesSound, Behind, Idle
    <2>6. DatabaseSound(s)'
      BY <1>1, <2>1, <2>2 DEF StorageInv, DatabaseSound
    <2> QED BY <1>1, <2>4, <2>5, <2>6, TablesAlone, OneStorage
  <1>4. \/ UNCHANGED obj /\ (Done(s) \/ Fail(s))
        \/ obj' = [obj EXCEPT ![s].phase = "gone", ![s].finalizer = FALSE] /\ Done(s)
    BY DEF removeStorageLocationFinalizer
  <1>5. [obj EXCEPT ![s].phase = "gone", ![s].finalizer = FALSE] = [obj EXCEPT ![s] = o]
    BY DEF StorageInv, TypeOK
  <1> QED BY <1>2, <1>3, <1>4, <1>5

LEMMA CallFailsStep ==
  ASSUME StorageInv, NEW s \in Storages, callFails(s), UNCHANGED EnableFinalizers
  PROVE  StorageInv'
  <1>1. faults' \in 0..MaxFaults
    BY StorageAssumption DEF callFails, StorageInv, TypeOK
  <1> QED BY <1>1, EndStep DEF callFails

(* The worker goes away with its copies; no object and no database does.   *)
LEMMA RestartStep ==
  ASSUME StorageInv, restart, UNCHANGED EnableFinalizers
  PROVE  StorageInv'
  <1>1. faults' \in 0..MaxFaults
    <2>1. faults \in 0..MaxFaults /\ faults < MaxFaults /\ faults' = faults + 1
      BY DEF restart, StorageInv, TypeOK
    <2> QED BY <2>1, StorageAssumption
  <1>2. /\ user' \in [Users -> [ live : BOOLEAN, table : Storages \cup {Null},
                                 queued : BOOLEAN, tries : 0..maxRequeues ]]
        /\ \A u \in Users : user'[u].table = user[u].table
    <2>1. user' = [u \in Users |-> [user[u] EXCEPT !.queued = user[u].live, !.tries = 0]]
      BY DEF restart
    <2>2. user \in [Users -> [ live : BOOLEAN, table : Storages \cup {Null},
                              queued : BOOLEAN, tries : 0..maxRequeues ]]
      BY DEF StorageInv, TypeOK
    <2>3. 0 \in 0..maxRequeues
      BY StorageAssumption
    <2> QED BY <2>1, <2>2, <2>3
  <1>3. /\ work' \in [Storages -> [pc : Steps, copy : StorageLocation]]
        /\ \A s \in Storages : work'[s] = Idle
    BY IdleType DEF restart
  <1>4. /\ cache' \in [Storages -> StorageLocation] /\ \A s \in Storages : cache'[s] = obj[s]
        /\ queue' \subseteq Storages
    BY DEF restart, StorageInv, TypeOK
  <1>5. TypeOK'
    BY <1>1, <1>2, <1>3, <1>4 DEF restart, StorageInv, TypeOK
  <1>6. ASSUME NEW s \in Storages
        PROVE  CopiesSound(s)' /\ DatabaseSound(s)'
    <2>1. work'[s].pc = "idle" /\ work'[s].copy.phase = "new" /\ cache'[s] = obj[s]
          /\ UNCHANGED <<obj, db>>
      BY <1>3, <1>4 DEF Idle, NewStorage, restart
    <2> QED BY <2>1 DEF StorageInv, CopiesSound, DatabaseSound, Behind
  <1>7. TablesSound'
    BY <1>2 DEF restart, StorageInv, TablesSound
  <1> QED BY <1>5, <1>6, <1>7 DEF StorageInv

-----------------------------------------------------------------------------
(* Reports and ReportDataSources                                           *)

LEMMA UserStep ==
  ASSUME StorageInv, NEW u \in Users,
         NEW v \in [ live : BOOLEAN, table : Storages \cup {Null}, queued : BOOLEAN,
                     tries : 0..maxRequeues ],
         v.table = Null \/ v.table = user[u].table \/ db[v.table],
         user' = [user EXCEPT ![u] = v], panicked' \in BOOLEAN,
         UNCHANGED <<obj, cache, queue, work, db, faults, EnableFinalizers>>
  PROVE  StorageInv'
  <1>1. TypeOK'
    BY DEF StorageInv, TypeOK
  <1>2. \A s \in Storages : CopiesSound(s)' /\ DatabaseSound(s)'
    BY DEF StorageInv, CopiesSound, DatabaseSound, Behind
  <1>3. TablesSound'
    BY DEF StorageInv, TablesSound, TypeOK
  <1> QED BY <1>1, <1>2, <1>3 DEF StorageInv

(* A user that keeps its table.                                            *)
LEMMA UserKeeps ==
  ASSUME StorageInv, NEW u \in Users, NEW b \in BOOLEAN, NEW n \in 0..maxRequeues,
         user' = [user EXCEPT ![u].queued = b, ![u].tries = n],
         UNCHANGED <<obj, cache, queue, work, db, faults, panicked, EnableFinalizers>>
  PROVE  StorageInv'
  <1> DEFINE v == [user[u] EXCEPT !.queued = b, !.tries = n]
  <1>1. /\ v \in [ live : BOOLEAN, table : Storages \cup {Null}, queued : BOOLEAN,
                   tries : 0..maxRequeues ]
        /\ v.table = user[u].table /\ user' = [user EXCEPT ![u] = v]
    BY DEF StorageInv, TypeOK
  <1> HIDE DEF v
  <1> QED BY <1>1, UserStep DEF StorageInv, TypeOK

LEMMA UserFailsType ==
  ASSUME StorageInv, NEW u \in Users, UserFails(u)
  PROVE  \E b \in BOOLEAN, n \in 0..maxRequeues :
           user' = [user EXCEPT ![u].queued = b, ![u].tries = n]
  <1>1. user[u].tries \in 0..maxRequeues
    BY DEF StorageInv, TypeOK
  <1>2. CASE user[u].tries < maxRequeues
    <2>1. user' = [user EXCEPT ![u].queued = TRUE, ![u].tries = user[u].tries + 1]
      <3>1. (user[u].tries < maxRequeues) = TRUE
        BY <1>2, Zenon
      <3> QED BY <1>2, <3>1 DEF UserFails, StorageInv, TypeOK
    <2>2. user[u].tries + 1 \in 0..maxRequeues
      BY <1>1, <1>2, StorageAssumption
    <2> QED BY <2>1, <2>2
  <1>3. CASE ~(user[u].tries < maxRequeues)
    <2>1. user' = [user EXCEPT ![u].queued = FALSE, ![u].tries = 0]
      <3>1. (user[u].tries < maxRequeues) = FALSE
        BY <1>3, SMT
      <3> QED BY <1>3, <3>1 DEF UserFails
    <2>2. 0 \in 0..maxRequeues
      BY StorageAssumption
    <2> QED BY <2>1, <2>2
  <1> QED BY <1>2, <1>3

LEMMA CreateTableStep ==
  ASSUME StorageInv, NEW u \in Users, createTable(u), UNCHANGED EnableFinalizers
  PROVE  StorageInv'
  <1> DEFINE ref == IF KindOf[u] \in {"aws", "view"} THEN Null ELSE RefOf[u]
             s   == getStorage(cache, ref)
  <1>1. s \in Storages \cup {Null}
    BY StorageAssumption, GetStorageType
  <1> HIDE DEF s
  <1>2. UNCHANGED <<obj, cache, queue, work, db, faults, EnableFinalizers>>
    BY DEF createTable
  <1>3. \/ panicked' = TRUE /\ UNCHANGED user
        \/ UNCHANGED panicked /\ UserFails(u)
        \/ UNCHANGED panicked /\ s # Null /\ db[s] /\ UserGets(u, s)
    BY DEF createTable, s
  <1>4. CASE panicked' = TRUE /\ UNCHANGED user
    <2>1. TypeOK'
      BY <1>2, <1>4 DEF StorageInv, TypeOK
    <2>2. (\A k \in Storages : CopiesSound(k)' /\ DatabaseSound(k)') /\ TablesSound'
      BY <1>2, <1>4 DEF StorageInv, CopiesSound, DatabaseSound, Behind, TablesSound
    <2> QED BY <2>1, <2>2 DEF StorageInv
  <1>5. CASE UNCHANGED panicked /\ UserFails(u)
    BY <1>2, <1>5, UserFailsType, UserKeeps
  <1>6. CASE UNCHANGED panicked /\ s # Null /\ db[s] /\ UserGets(u, s)
    <2> DEFINE v == [user[u] EXCEPT !.table = s, !.queued = FALSE, !.tries = 0]
    <2>1. /\ v \in [ live : BOOLEAN, table : Storages \cup {Null}, queued : BOOLEAN,
                     tries : 0..maxRequeues ]
          /\ v.table = s /\ user' = [user EXCEPT ![u] = v]
      <3>1. user \in [Users -> [ live : BOOLEAN, table : Storages \cup {Null},
                                queued : BOOLEAN, tries : 0..maxRequeues ]]
        BY DEF StorageInv, TypeOK
      <3>2. 0 \in 0..maxRequeues
        BY StorageAssumption
      <3>3. user' = [user EXCEPT ![u].table = s, ![u].queued = FALSE, ![u].tries = 0]
        BY <1>6 DEF UserGets
      <3>4. user' = [user EXCEPT ![u] = v]
        BY <3>1, <3>3
      <3> QED BY <1>1, <3>1, <3>2, <3>4
    <2>2. panicked' \in BOOLEAN
      BY <1>6 DEF StorageInv, TypeOK
    <2> HIDE DEF v
    <2> QED BY <1>2, <1>6, <2>1, <2>2, UserStep
  <1> QED BY <1>3, <1>4, <1>5, <1>6

LEMMA ResyncStep ==
  ASSUME StorageInv, NEW u \in Users, resync(u), UNCHANGED EnableFinalizers
  PROVE  StorageInv'
  <1> DEFINE v == [user[u] EXCEPT !.queued = TRUE]
  <1>1. /\ v \in [ live : BOOLEAN, table : Storages \cup {Null}, queued : BOOLEAN,
                   tries : 0..maxRequeues ]
        /\ v.table = user[u].table /\ user' = [user EXCEPT ![u] = v] /\ panicked' \in BOOLEAN
    BY DEF StorageInv, TypeOK, resync
  <1> HIDE DEF v
  <1> QED BY <1>1, UserStep DEF resync

LEMMA DeleteUserStep ==
  ASSUME StorageInv, NEW u \in Users, deleteUser(u), UNCHANGED EnableFinalizers
  PROVE  StorageInv'
  <1> DEFINE v == [live |-> FALSE, table |-> Null, queued |-> FALSE, tries |-> 0]
  <1>1. /\ v \in [ live : BOOLEAN, table : Storages \cup {Null}, queued : BOOLEAN,
                   tries : 0..maxRequeues ]
        /\ v.table = Null /\ user' = [user EXCEPT ![u] = v] /\ panicked' \in BOOLEAN
    BY StorageAssumption DEF StorageInv, TypeOK, deleteUser
  <1> HIDE DEF v
  <1> QED BY <1>1, UserStep DEF deleteUser

-----------------------------------------------------------------------------
(* The theorems                                                            *)

LEMMA StorageInit ==
  ASSUME Init
  PROVE  StorageInv
  <1>1. NewStorage \in StorageLocation /\ NewStorage.phase = "new" /\ NewStorage.status = FALSE
    BY DEF NewStorage, StorageLocation
  <1>2. /\ obj \in [Storages -> StorageLocation] /\ cache = obj
        /\ \A s \in Storages : obj[s] = NewStorage
    BY <1>1 DEF Init
  <1>3. /\ work \in [Storages -> [pc : Steps, copy : StorageLocation]]
        /\ \A s \in Storages : work[s] = Idle
    BY IdleType DEF Init
  <1>4. /\ db \in [Storages -> BOOLEAN] /\ \A s \in Storages : db[s] <=> s \in Unmanaged
    <2>1. db = [s \in Storages |-> s \in Unmanaged]
      BY DEF Init
    <2>2. \A s \in Storages : (s \in Unmanaged) \in BOOLEAN
      OBVIOUS
    <2>3. db \in [Storages -> BOOLEAN]
      BY <2>1, <2>2, Zenon
    <2>4. \A s \in Storages : db[s] = (s \in Unmanaged)
      BY <2>1, Zenon
    <2> QED BY <2>3, <2>4, Zenon
  <1>5. /\ user \in [Users -> [ live : BOOLEAN, table : Storages \cup {Null},
                                queued : BOOLEAN, tries : 0..maxRequeues ]]
        /\ \A u \in Users : user[u].table = Null
    BY StorageAssumption DEF Init
  <1>6. TypeOK
    <2>1. panicked \in BOOLEAN /\ EnableFinalizers \in BOOLEAN
      BY StorageAssumption DEF Init
    <2>2. faults \in 0..MaxFaults /\ queue \subseteq Storages
      BY StorageAssumption DEF Init
    <2> QED BY <2>1, <2>2, <1>2, <1>3, <1>4, <1>5 DEF TypeOK
  <1>7. ASSUME NEW s \in Storages
        PROVE  CopiesSound(s) /\ DatabaseSound(s)
    <2>1. work[s].pc = "idle" /\ work[s].copy = NewStorage /\ cache[s] = NewStorage
      BY <1>2, <1>3 DEF Idle
    <2>2. CopiesSound(s)
      BY <1>1, <2>1 DEF CopiesSound, Behind
    <2>3. DatabaseSound(s)
      BY <1>1, <1>2, <1>4, <2>1 DEF DatabaseSound
    <2> QED BY <2>2, <2>3
  <1> QED BY <1>5, <1>6, <1>7 DEF StorageInv, TablesSound

LEMMA StorageStutter ==
  ASSUME StorageInv, UNCHANGED <<vars, EnableFinalizers>>
  PROVE  StorageInv'
  <1>1. TypeOK'
    BY DEF StorageInv, TypeOK, vars
  <1>2. (\A k \in Storages : CopiesSound(k)' /\ DatabaseSound(k)') /\ TablesSound'
    BY DEF StorageInv, CopiesSound, DatabaseSound, Behind, TablesSound, vars
  <1> QED BY <1>1, <1>2 DEF StorageInv

LEMMA StorageNext ==
  ASSUME StorageInv, [Next]_<<vars, EnableFinalizers>>
  PROVE  StorageInv'
  <1>1. ASSUME NEW s \in Storages, WorkerStep(s), UNCHANGED EnableFinalizers
        PROVE  StorageInv'
    BY <1>1, SyncStep, AddFinalizerStep, CreateDatabaseStep, PutStatusStep, DeleteStorageStep,
       RemoveFinalizerStep DEF WorkerStep
  <1> QED BY <1>1, CreateStep, DeleteStep, DeliverStep, CallFailsStep, CreateTableStep, ResyncStep,
             DeleteUserStep, RestartStep, StorageStutter DEF Next

(* The invariant of the StorageLocations holds in every reachable state.   *)
THEOREM StorageInvariant == Spec => []StorageInv
  <1>1. Init => StorageInv
    BY StorageInit
  <1>2. StorageInv /\ [Next]_<<vars, EnableFinalizers>> => StorageInv'
    BY StorageNext
  <1> QED BY <1>1, <1>2, PTL DEF Spec

(***************************************************************************)
(* No deleteStorage, of the worker or of the delete handler, takes a       *)
(* database from a live StorageLocation that names it, or from under a     *)
(* table, with finalizers or without, and across failed calls, stale       *)
(* copies and restarts.                                                    *)
(***************************************************************************)
THEOREM DatabasesOutliveTheirUse == Spec => []StatusMeansDatabase
  <1>1. StorageInv => StatusMeansDatabase
    BY DEF StorageInv, DatabaseSound, TablesSound, StatusMeansDatabase
  <1> QED BY <1>1, StorageInvariant, PTL
=============================================================================
