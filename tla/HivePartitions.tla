--------------------------- MODULE HivePartitions ---------------------------
(***************************************************************************)
(* The partitions of a HiveTable with managePartitions: a user, or the AWS *)
(* billing sync from the manifests in an S3 bucket (pkg/operator/          *)
(* datasources.go, aws_usage_hive.go, pkg/aws), writes the wanted ones     *)
(* into Spec.Partitions, and the HiveTable worker drops and adds           *)
(* partitions in Hive and records them in Status.Partitions                *)
(* (pkg/operator/hivetables.go).                                           *)
(*                                                                         *)
(* A list of partitions is a function from its entries, those of the       *)
(* billing periods and those of a user, to locations.  A value of a        *)
(* partition column is a sequence of tokens, because the code tells        *)
(* partitions apart by their values joined with "-".                       *)
(***************************************************************************)
EXTENDS Integers, Sequences, SequencesExt

CONSTANTS
  Null,            \* no partition
  Periods,         \* the billing periods, in the order in which manifests are listed
  Locations,       \* the data directories of a period
  Columns,         \* the names of the partition columns
  UserPartitions,  \* the PartitionSpecs that a user writes, in the order of the list
  MaxChanges,      \* bound on the changes of the bucket, or of the list by the user
  MaxFaults,       \* bound on failed calls and restarts
  MayRemove        \* whether a manifest may disappear, or a user take a partition out

ASSUME PartitionsAssumption ==
  /\ Len(Periods) \in Nat /\ Len(UserPartitions) \in Nat
  /\ Null \notin Locations /\ MayRemove \in BOOLEAN
  /\ MaxChanges \in Nat /\ MaxFaults \in Nat

VARIABLES
  owner,     \* who writes Spec.Partitions: "aws", a data source, or "user"
  bucket,    \* the top-level manifests: the location of each period
  obj,       \* the stored HiveTable
  cache,     \* the informer's copy
  queued,    \* the table's key is in hiveTableQueue
  aws,       \* the sync of the ReportDataSource: its copy and the partitions it wants
  work,      \* the sync of the HiveTable: its copy, the partitions to drop and to add
  hive,      \* the partitions in Hive: their locations
  faults     \* bound

vars == <<bucket, obj, cache, queued, aws, work, hive, faults>>

-----------------------------------------------------------------------------
Size == Len(Periods) + Len(UserPartitions)

Entries == 1..Size

(* The entries of a HiveTable with this owner.                             *)
Written(who) == {p \in Entries : (who = "aws") <=> p <= Len(Periods)}

Lists == [Entries -> Locations \cup {Null}]

NoPartitions == [p \in Entries |-> Null]

Listed(list) == {p \in Entries : list[p] # Null}

(* The keys are not the names of the partition columns.                    *)
getDesiredPartitions(p) == [start |-> Periods[p].start, end |-> Periods[p].end]

PartitionSpec(p) ==
  IF p <= Len(Periods) THEN getDesiredPartitions(p) ELSE UserPartitions[p - Len(Periods)]

(* p.PartitionSpec[col.Name]: the empty string when there is no such key.  *)
valueOf(p, col) == IF col \in DOMAIN PartitionSpec(p) THEN PartitionSpec(p)[col] ELSE << >>

(* FmtPartitionSpec: what ALTER TABLE names.                               *)
FmtPartitionSpec(p) == [i \in DOMAIN Columns |-> valueOf(p, Columns[i])]

(* strings.Join(vals, "-")                                                 *)
setID(p) ==
  LET vals == FmtPartitionSpec(p)
  IN  FoldLeft(LAMBDA str, val : str \o <<"-">> \o val, Head(vals), Tail(vals))

Partition == [spec : {FmtPartitionSpec(p) : p \in Entries}, location : Locations]

Ids(list) == {setID(p) : p \in Listed(list)}

(* The last partition of a list with this id.                              *)
lastWith(id, list) ==
  LET at == CHOOSE p \in Listed(list) :
              /\ setID(p) = id
              /\ \A q \in Listed(list) : setID(q) = id => q <= p
  IN  [spec |-> FmtPartitionSpec(at), location |-> list[at]]

(* Faulty variants are named for what they get wrong.                      *)
getPartitionChanges_onlyNew(current, desired) ==
  LET lookup(id) == IF id \in Ids(desired) THEN lastWith(id, desired) ELSE lastWith(id, current)
  IN  [ remove |-> {lookup(id) : id \in Ids(current) \ Ids(desired)},
        add    |-> {lookup(id) : id \in Ids(desired) \ Ids(current)},
        update |-> {} ]

getPartitionChanges_noLocation(current, desired) ==
  LET lookup(id) == IF id \in Ids(desired) THEN lastWith(id, desired) ELSE lastWith(id, current)
  IN  [ remove |-> {lookup(id) : id \in Ids(current) \ Ids(desired)},
        add    |-> {lookup(id) : id \in Ids(desired) \ Ids(current)},
        update |-> {[lookup(id) EXCEPT !.location = Null] : id \in Ids(desired) \cap Ids(current)} ]

(* getPartitionChanges: what is in both lists is always an update.         *)
getPartitionChanges(current, desired) ==
  LET lookup(id) == IF id \in Ids(desired) THEN lastWith(id, desired) ELSE lastWith(id, current)
  IN  [ remove |-> {lookup(id) : id \in Ids(current) \ Ids(desired)},
        add    |-> {lookup(id) : id \in Ids(desired) \ Ids(current)},
        update |-> {lookup(id) : id \in Ids(desired) \cap Ids(current)} ]

HiveTable == [version : Nat, change : Nat, spec : Lists, status : Lists]

IdleAws  == [pc |-> "idle", copy |-> Null, want |-> NoPartitions, change |-> 0]
IdleWork == [pc |-> "idle", copy |-> Null, drop |-> {}, add |-> {}]

(* Every variable holds a value of the kind the code keeps there.          *)
TypeOK ==
  /\ owner \in {"aws", "user"} /\ bucket.list \in Lists /\ bucket.change \in 0..MaxChanges
  /\ obj \in HiveTable /\ cache \in HiveTable /\ queued \in BOOLEAN
  /\ aws.pc \in {"idle", "update"} /\ aws.want \in Lists
  /\ work.pc \in {"idle", "alter"} /\ work.drop \subseteq Partition /\ work.add \subseteq Partition
  /\ hive \in [{FmtPartitionSpec(p) : p \in Entries} -> Locations \cup {Null}]
  /\ faults \in 0..MaxFaults

-----------------------------------------------------------------------------
NewLocations == Locations \cup (IF MayRemove THEN {Null} ELSE {})

(* AWS writes a new report for a period, or an old one is removed.         *)
changeBucket(p) ==
  /\ owner = "aws" /\ bucket.change < MaxChanges
  /\ \E loc \in NewLocations :
       /\ loc # bucket.list[p]
       /\ bucket' = [list |-> [bucket.list EXCEPT ![p] = loc], change |-> bucket.change + 1]
  /\ UNCHANGED <<obj, cache, queued, aws, work, hive, faults>>

updateAccepted_always(copy) == TRUE

(* An Update is refused when its copy is not the stored object.            *)
updateAccepted(copy) == copy.version = obj.version

(* An Update that changes nothing is not an event.                         *)
Store(o) == obj' = IF o = obj THEN obj ELSE [o EXCEPT !.version = obj.version + 1]

(* A user adds a partition, moves it, or takes it out of the list.         *)
editPartitions(p) ==
  /\ owner = "user" /\ obj.change < MaxChanges
  /\ \E loc \in NewLocations :
       /\ loc # obj.spec[p]
       /\ Store([obj EXCEPT !.spec = [@ EXCEPT ![p] = loc], !.change = @ + 1])
  /\ UNCHANGED <<bucket, cache, queued, aws, work, hive, faults>>

(* The informer: its copy, and updateHiveTable.                            *)
deliver ==
  /\ cache # obj
  /\ cache' = obj /\ queued' = TRUE
  /\ UNCHANGED <<bucket, obj, aws, work, hive, faults>>

resync ==
  /\ ~queued /\ queued' = TRUE
  /\ UNCHANGED <<bucket, obj, cache, aws, work, hive, faults>>

(* RetrieveManifests: the top-level manifests, and nothing without them.   *)
handleAWSBillingDataSource ==
  /\ owner = "aws" /\ aws.pc = "idle" /\ Listed(bucket.list) # {}
  /\ aws' = [pc |-> "update", copy |-> cache, want |-> bucket.list, change |-> bucket.change]
  /\ UNCHANGED <<bucket, obj, cache, queued, work, hive, faults>>

(* The partitions of all manifests, and the Update; a conflict fails it.   *)
updateAWSBillingPartitions ==
  /\ aws.pc = "update"
  /\ IF updateAccepted(aws.copy)
     THEN Store([aws.copy EXCEPT !.spec = aws.want, !.change = aws.change])
     ELSE UNCHANGED obj
  /\ aws' = IdleAws
  /\ UNCHANGED <<bucket, cache, queued, work, hive, faults>>

-----------------------------------------------------------------------------
(* handleHiveTable: an update is a removal and an addition.                *)
handleHiveTable ==
  LET changes == getPartitionChanges(cache.status, cache.spec)
  IN  /\ work.pc = "idle" /\ queued
      /\ queued' = FALSE
      /\ work' = [ pc |-> "alter", copy |-> cache,
                   drop |-> changes.remove \cup changes.update,
                   add |-> changes.add \cup changes.update ]
      /\ UNCHANGED <<bucket, obj, cache, aws, hive, faults>>

(* ALTER TABLE ... DROP IF EXISTS PARTITION                                *)
DropPartition ==
  /\ work.pc = "alter"
  /\ \E part \in work.drop :
       /\ hive' = [hive EXCEPT ![part.spec] = Null]
       /\ work' = [work EXCEPT !.drop = @ \ {part}]
  /\ UNCHANGED <<bucket, obj, cache, queued, aws, faults>>

(* ALTER TABLE ... ADD IF NOT EXISTS PARTITION                             *)
AddPartition ==
  /\ work.pc = "alter" /\ work.drop = {}
  /\ \E part \in work.add :
       /\ hive' = [hive EXCEPT ![part.spec] = IF @ = Null THEN part.location ELSE @]
       /\ work' = [work EXCEPT !.add = @ \ {part}]
  /\ UNCHANGED <<bucket, obj, cache, queued, aws, faults>>

(* Status.Partitions = desiredPartitions; a conflict fails the sync.       *)
putStatus ==
  /\ work.pc = "alter" /\ work.drop = {} /\ work.add = {}
  /\ work' = IdleWork
  /\ IF updateAccepted(work.copy)
     THEN /\ Store([work.copy EXCEPT !.status = work.copy.spec])
          /\ UNCHANGED queued
     ELSE queued' = TRUE /\ UNCHANGED obj
  /\ UNCHANGED <<bucket, cache, aws, hive, faults>>

(* A statement or a call fails: handleErr queues the table again.          *)
callFails ==
  /\ faults < MaxFaults /\ faults' = faults + 1
  /\ work.pc = "alter" /\ work' = IdleWork /\ queued' = TRUE
  /\ UNCHANGED <<bucket, obj, cache, aws, hive>>

restart ==
  /\ faults < MaxFaults /\ faults' = faults + 1
  /\ cache' = obj /\ queued' = TRUE /\ aws' = IdleAws /\ work' = IdleWork
  /\ UNCHANGED <<bucket, obj, hive>>

-----------------------------------------------------------------------------
Init ==
  /\ owner \in {"aws", "user"}
  /\ bucket = [list |-> NoPartitions, change |-> 0]
  /\ obj = [version |-> 0, change |-> 0, spec |-> NoPartitions, status |-> NoPartitions]
  /\ cache = obj /\ queued = TRUE
  /\ aws = IdleAws /\ work = IdleWork
  /\ hive = [s \in {FmtPartitionSpec(p) : p \in Entries} |-> Null]
  /\ faults = 0

AwsStep == handleAWSBillingDataSource \/ updateAWSBillingPartitions

WorkerStep == handleHiveTable \/ DropPartition \/ AddPartition \/ putStatus

Next ==
  /\ \/ \E p \in Written(owner) : changeBucket(p) \/ editPartitions(p)
     \/ deliver \/ resync \/ AwsStep \/ WorkerStep \/ callFails \/ restart
  /\ UNCHANGED owner

Spec == Init /\ [][Next]_<<vars, owner>>

(* Both workers run, watches deliver, informers resync; the data source is *)
(* queued again every partitionUpdateInterval.                             *)
FairSpec ==
  /\ Spec
  /\ WF_vars(deliver) /\ WF_vars(resync) /\ WF_vars(AwsStep) /\ WF_vars(WorkerStep)

-----------------------------------------------------------------------------
(* The newest wanted partitions.                                           *)
Wanted == IF owner = "aws" THEN bucket.list ELSE obj.spec

(* Every wanted partition gets to Hive at its newest location, the last    *)
(* listed one where several have the same id: also after statements that   *)
(* failed midway, partitions taken out and put back, conflicts between the *)
(* writers of the HiveTable and restarts.                                  *)
PartitionsArrive ==
  []<>(\A p \in Listed(Wanted) :
         (\A q \in Listed(Wanted) : setID(q) = setID(p) => q <= p) =>
           hive[FmtPartitionSpec(p)] = Wanted[p])

(* The wanted partitions are never taken back to older ones by the status  *)
(* update of the other worker.                                             *)
SpecNeverReverts == [][obj'.change >= obj.change]_vars

(* "There will be one partition per AWS billing period, and each partition *)
(* points to an S3 directory containing the most up-to-date billing        *)
(* information for that billing period."                                   *)
(* Documentation/metering-architecture.md:96                               *)
OnePartitionPerPeriod ==
  []<>(/\ \A p, q \in Listed(Wanted) : FmtPartitionSpec(p) = FmtPartitionSpec(q) => p = q
       /\ \A p \in Listed(Wanted) : hive[FmtPartitionSpec(p)] = Wanted[p])
=============================================================================
