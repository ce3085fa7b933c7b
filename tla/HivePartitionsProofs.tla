------------------------ MODULE HivePartitionsProofs ------------------------
(***************************************************************************)
(* Who writes the Spec.Partitions of a HiveTable, the AWS billing sync or  *)
(* a user, and the worker that writes its Status.Partitions never undo     *)
(* each other's writes, for any list of billing periods and any columns.   *)
(***************************************************************************)
EXTENDS HivePartitions, WellFoundedInduction, TLAPS

-----------------------------------------------------------------------------
(* The inductive invariant                                                 *)

AwsSync == [pc : {"idle", "update"}, copy : HiveTable \cup {Null}, want : Lists, change : Nat]

TableSync == [ pc : {"idle", "alter"}, copy : HiveTable \cup {Null},
               drop : SUBSET Partition, add : SUBSET Partition ]

(* A copy is not newer than the stored object, and one of its version is   *)
(* the stored object.                                                      *)
CopySound(c) ==
  /\ c \in HiveTable
  /\ c.version <= obj.version /\ (c.version = obj.version => c = obj)

(* Where the AWS billing sync moves the wanted partitions, what it has     *)
(* read from the bucket is not older than what is stored.                  *)
ChangesSound ==
  /\ owner = "aws" => obj.change <= bucket.change
  /\ aws.pc = "update" => owner = "aws"
  /\ aws.pc = "update" => obj.change <= aws.change /\ aws.change <= bucket.change

PartitionsInv ==
  /\ TypeOK /\ aws \in AwsSync /\ work \in TableSync
  /\ CopySound(cache) /\ ChangesSound
  /\ aws.pc = "update" => CopySound(aws.copy)
  /\ work.pc = "alter" => CopySound(work.copy)

-----------------------------------------------------------------------------
(* Facts about the operators                                               *)

LEMMA Least ==
  ASSUME NEW T, T \subseteq Nat, T # {}
  PROVE  \E x \in T : \A y \in T : x <= y
  <1>1. \E R : IsWellFoundedOn(R, Nat) /\ \A x, y \in Nat : y < x => <<y, x>> \in R
    <2>1. \A x, y \in Nat : y < x => <<y, x>> \in OpToRel(<, Nat)
      BY DEF OpToRel
    <2> QED BY <2>1, NatLessThanWellFounded, Zenon
  <1>2. PICK R : IsWellFoundedOn(R, Nat) /\ \A x, y \in Nat : y < x => <<y, x>> \in R
    BY <1>1
  <1>3. PICK x \in T : \A y \in T : ~ (<<y, x>> \in R)
    BY <1>2, WFMin
  <1>4. ASSUME NEW y \in T
        PROVE  x <= y
    <2>1. ~(y < x)
      BY <1>2, <1>3
    <2> QED BY <2>1
  <1> QED BY <1>4

(* A set of positions in the listing has a last one.                       *)
LEMMA LastPosition ==
  ASSUME NEW T, T \subseteq Entries, T # {}
  PROVE  \E p \in T : \A q \in T : q <= p
  <1>1. Size \in Nat /\ T \subseteq 1..Size
    BY PartitionsAssumption DEF Entries, Size
  <1> DEFINE D == {Size - p : p \in T}
  <1>2. D \subseteq Nat /\ D # {}
    <2>1. \A p \in T : Size - p \in Nat
      BY <1>1
    <2> QED BY <2>1
  <1>3. PICK d \in D : \A e \in D : d <= e
    BY <1>2, Least
  <1>4. PICK p \in T : d = Size - p
    BY <1>3
  <1>5. ASSUME NEW q \in T
        PROVE  q <= p
    <2>1. Size - q \in D
      OBVIOUS
    <2>2. Size - p <= Size - q
      BY <1>3, <1>4, <2>1
    <2> QED BY <1>1, <2>2
  <1> QED BY <1>5

(* What getPartitionChanges looks up is a partition of the list.           *)
LEMMA LastWithIsAPartition ==
  ASSUME NEW list \in Lists, NEW id \in Ids(list)
  PROVE  lastWith(id, list) \in Partition
  <1> DEFINE T == {p \in Listed(list) : setID(p) = id}
             IsLast(p) == setID(p) = id /\ \A q \in Listed(list) : setID(q) = id => q <= p
  <1>1. T \subseteq Entries /\ T # {}
    BY DEF Ids, Listed
  <1> HIDE DEF T
  <1>2. \E p \in T : \A q \in T : q <= p
    BY <1>1, LastPosition
  <1>3. \E p \in Listed(list) : IsLast(p)
    BY <1>2 DEF T
  <1> DEFINE at == CHOOSE p \in Listed(list) : IsLast(p)
  <1>4. at \in Listed(list)
    BY <1>3
  <1>5. lastWith(id, list) = [spec |-> FmtPartitionSpec(at), location |-> list[at]]
    BY DEF lastWith
  <1> HIDE DEF at
  <1>6. at \in Entries /\ list[at] \in Locations
    BY <1>4 DEF Listed, Lists
  <1> QED BY <1>5, <1>6 DEF Partition

LEMMA ChangesArePartitions ==
  ASSUME NEW current \in Lists, NEW desired \in Lists
  PROVE  /\ getPartitionChanges(current, desired).remove \subseteq Partition
         /\ getPartitionChanges(current, desired).add \subseteq Partition
         /\ getPartitionChanges(current, desired).update \subseteq Partition
  BY LastWithIsAPartition DEF getPartitionChanges

LEMMA ListTypes == NoPartitions \in Lists /\ IdleAws \in AwsSync /\ IdleWork \in TableSync
  <1>1. NoPartitions \in Lists
    BY DEF NoPartitions, Lists
  <1> QED BY <1>1 DEF IdleAws, AwsSync, IdleWork, TableSync

LEMMA TableFields ==
  ASSUME NEW o \in HiveTable
  PROVE  o.version \in Nat /\ o.change \in Nat /\ o.spec \in Lists /\ o.status \in Lists
  BY DEF HiveTable

(* A write that was accepted makes a new version, so that every copy made  *)
(* before is an older one.                                                 *)
LEMMA StoreFacts ==
  ASSUME obj \in HiveTable, NEW o \in HiveTable, o.version = obj.version, Store(o)
  PROVE  /\ obj' \in HiveTable /\ obj'.change = o.change
         /\ \A c : CopySound(c) => CopySound(c)'
  <1>1. obj.version \in Nat
    BY TableFields
  <1>2. CASE obj' = obj
    <2>1. obj'.change = o.change
      BY <1>1, <1>2 DEF Store, HiveTable
    <2> QED BY <1>2, <2>1 DEF CopySound
  <1>3. CASE obj' = [o EXCEPT !.version = obj.version + 1]
    <2>1. obj' \in HiveTable /\ obj'.version = obj.version + 1 /\ obj'.change = o.change
      BY <1>1, <1>3 DEF HiveTable
    <2>2. ASSUME NEW c, CopySound(c)
          PROVE  CopySound(c)'
      BY <1>1, <2>1, <2>2, TableFields DEF CopySound
    <2> QED BY <2>1, <2>2
  <1> QED BY <1>2, <1>3 DEF Store

-----------------------------------------------------------------------------
(* Every action                                                            *)

LEMMA InvFields ==
  ASSUME PartitionsInv
  PROVE  /\ obj \in HiveTable /\ cache \in HiveTable /\ aws \in AwsSync /\ work \in TableSync
         /\ obj.version \in Nat /\ obj.change \in Nat /\ bucket.change \in Nat
         /\ bucket.list \in Lists /\ aws.change \in Nat /\ aws.want \in Lists
         /\ aws.pc = "update" => aws.copy \in HiveTable
         /\ work.pc = "alter" => work.copy \in HiveTable
  <1>1. bucket.change \in 0..MaxChanges /\ bucket.list \in Lists
    BY DEF PartitionsInv, TypeOK
  <1>2. bucket.change \in Nat
    BY <1>1
  <1> QED BY <1>1, <1>2, TableFields DEF PartitionsInv, TypeOK, CopySound, AwsSync

LEMMA ChangeBucketStep ==
  ASSUME PartitionsInv, UNCHANGED owner, NEW p \in Entries, changeBucket(p)
  PROVE  PartitionsInv'
  <1>1. PICK loc \in Locations \cup {Null} :
          bucket' = [list |-> [bucket.list EXCEPT ![p] = loc], change |-> bucket.change + 1]
    BY DEF changeBucket, NewLocations
  <1>2. /\ bucket.change \in 0..MaxChanges /\ bucket.change < MaxChanges
        /\ bucket.list \in Lists /\ MaxChanges \in Nat
    BY PartitionsAssumption DEF PartitionsInv, TypeOK, changeBucket
  <1>3. bucket'.list \in Lists
    BY <1>1, <1>2 DEF Lists
  <1>4. bucket'.change \in 0..MaxChanges /\ bucket'.change = bucket.change + 1
    BY <1>1, <1>2
  <1>5. UNCHANGED <<obj, cache, queued, aws, work, hive, faults>>
    BY DEF changeBucket
  <1>6. TypeOK'
    BY <1>3, <1>4, <1>5 DEF PartitionsInv, TypeOK
  <1>7. ChangesSound'
    BY <1>2, <1>4, <1>5, InvFields DEF PartitionsInv, ChangesSound
  <1> QED BY <1>5, <1>6, <1>7 DEF PartitionsInv, CopySound

LEMMA EditWrite ==
  ASSUME PartitionsInv, NEW p \in Entries, editPartitions(p)
  PROVE  /\ obj' \in HiveTable /\ obj'.change = obj.change + 1
         /\ \A c : CopySound(c) => CopySound(c)'
  <1>1. PICK loc \in Locations \cup {Null} :
          Store([obj EXCEPT !.spec = [obj.spec EXCEPT ![p] = loc], !.change = obj.change + 1])
    BY DEF editPartitions, NewLocations
  <1> DEFINE list == [obj.spec EXCEPT ![p] = loc]
             n == obj.change + 1
             o == [obj EXCEPT !.spec = list, !.change = n]
  <1>2. obj \in HiveTable /\ obj.change \in Nat /\ obj.spec \in Lists
    BY InvFields, TableFields
  <1>3. list \in Lists /\ n \in Nat
    BY <1>2 DEF Lists
  <1> HIDE DEF list, n
  <1>4. o \in HiveTable /\ o.version = obj.version /\ o.change = n
    BY <1>2, <1>3 DEF HiveTable
  <1>5. Store(o)
    BY <1>1 DEF list, n
  <1> HIDE DEF o
  <1> QED BY <1>2, <1>4, <1>5, StoreFacts DEF n

LEMMA EditStep ==
  ASSUME PartitionsInv, UNCHANGED owner, NEW p \in Entries, editPartitions(p)
  PROVE  PartitionsInv'
  <1>1. owner = "user" /\ UNCHANGED <<bucket, cache, queued, aws, work, hive, faults>>
    BY DEF editPartitions
  <1>2. obj' \in HiveTable /\ \A c : CopySound(c) => CopySound(c)'
    BY EditWrite
  <1>3. TypeOK'
    BY <1>1, <1>2 DEF PartitionsInv, TypeOK
  <1>4. ChangesSound'
    BY <1>1 DEF PartitionsInv, ChangesSound
  <1>5. /\ CopySound(cache)' /\ (aws'.pc = "update" => CopySound(aws.copy)')
        /\ (work'.pc = "alter" => CopySound(work.copy)')
    <2>1. /\ CopySound(cache) /\ (aws.pc = "update" => CopySound(aws.copy))
          /\ (work.pc = "alter" => CopySound(work.copy))
      BY DEF PartitionsInv
    <2> QED BY <1>1, <1>2, <2>1 DEF CopySound
  <1> QED BY <1>1, <1>3, <1>4, <1>5 DEF PartitionsInv, CopySound

LEMMA InformerStep ==
  ASSUME PartitionsInv, UNCHANGED owner, deliver \/ resync
  PROVE  PartitionsInv'
  <1>1. /\ UNCHANGED <<bucket, obj, aws, work, hive, faults>>
        /\ cache' = cache \/ cache' = obj
        /\ queued' \in BOOLEAN
    BY DEF deliver, resync
  <1>2. TypeOK'
    BY <1>1 DEF PartitionsInv, TypeOK
  <1>3. CopySound(cache)'
    BY <1>1, InvFields DEF PartitionsInv, CopySound
  <1> QED BY <1>1, <1>2, <1>3 DEF PartitionsInv, CopySound, ChangesSound

LEMMA AwsReadStep ==
  ASSUME PartitionsInv, UNCHANGED owner, handleAWSBillingDataSource
  PROVE  PartitionsInv'
  <1>1. /\ UNCHANGED <<bucket, obj, cache, queued, work, hive, faults>>
        /\ aws' = [pc |-> "update", copy |-> cache, want |-> bucket.list, change |-> bucket.change]
    BY DEF handleAWSBillingDataSource
  <1>5. owner = "aws"
    BY DEF handleAWSBillingDataSource
  <1>2. /\ aws' \in AwsSync /\ aws'.pc = "update" /\ aws'.copy = cache /\ aws'.want = bucket.list
        /\ aws'.change = bucket.change
    BY <1>1, InvFields DEF AwsSync
  <1>3. TypeOK'
    BY <1>1, <1>2, InvFields DEF PartitionsInv, TypeOK
  <1>4. ChangesSound'
    BY <1>1, <1>2, <1>5, InvFields DEF PartitionsInv, ChangesSound
  <1> QED BY <1>1, <1>2, <1>3, <1>4 DEF PartitionsInv, CopySound

(* The AWS billing sync stores the partitions it wants, if the HiveTable   *)
(* is still the one it read.                                               *)
LEMMA AwsWrite ==
  ASSUME PartitionsInv, updateAWSBillingPartitions
  PROVE  /\ obj' \in HiveTable /\ obj.change <= obj'.change /\ obj'.change <= bucket.change
         /\ \A c : CopySound(c) => CopySound(c)'
  <1>1. aws.pc = "update" /\ CopySound(aws.copy) /\ aws.copy \in HiveTable
    BY InvFields DEF updateAWSBillingPartitions, PartitionsInv
  <1> DEFINE o == [aws.copy EXCEPT !.spec = aws.want, !.change = aws.change]
  <1>2. CASE updateAccepted(aws.copy)
    <2>1. o \in HiveTable /\ o.version = aws.copy.version /\ o.change = aws.change
      BY <1>1, InvFields DEF HiveTable
    <2>2. o.version = obj.version /\ Store(o)
      BY <1>2, <2>1 DEF updateAccepted, updateAWSBillingPartitions
    <2> HIDE DEF o
    <2>3. obj' \in HiveTable /\ obj'.change = o.change /\ \A c : CopySound(c) => CopySound(c)'
      BY <2>1, <2>2, InvFields, StoreFacts
    <2> QED BY <1>1, <2>1, <2>3 DEF PartitionsInv, ChangesSound
  <1>3. CASE obj' = obj
    BY <1>1, <1>3, InvFields DEF PartitionsInv, ChangesSound, CopySound
  <1> QED BY <1>2, <1>3 DEF updateAWSBillingPartitions

LEMMA AwsUpdateStep ==
  ASSUME PartitionsInv, UNCHANGED owner, updateAWSBillingPartitions
  PROVE  PartitionsInv'
  <1>1. aws' = IdleAws /\ UNCHANGED <<bucket, cache, queued, work, hive, faults>>
    BY DEF updateAWSBillingPartitions
  <1>2. aws' \in AwsSync /\ aws'.pc = "idle" /\ aws'.want \in Lists
    BY <1>1, ListTypes DEF IdleAws
  <1>3. /\ obj' \in HiveTable /\ obj'.change <= bucket.change
        /\ \A c : CopySound(c) => CopySound(c)'
    BY AwsWrite
  <1>4. TypeOK'
    BY <1>1, <1>2, <1>3 DEF PartitionsInv, TypeOK
  <1>5. ChangesSound'
    BY <1>1, <1>2, <1>3 DEF ChangesSound
  <1>6. CopySound(cache)' /\ (work'.pc = "alter" => CopySound(work.copy)')
    <2>1. CopySound(cache) /\ (work.pc = "alter" => CopySound(work.copy))
      BY DEF PartitionsInv
    <2> QED BY <1>1, <1>3, <2>1 DEF CopySound
  <1> QED BY <1>1, <1>2, <1>4, <1>5, <1>6 DEF PartitionsInv, CopySound

LEMMA HandleStep ==
  ASSUME PartitionsInv, UNCHANGED owner, handleHiveTable
  PROVE  PartitionsInv'
  <1> DEFINE changes == getPartitionChanges(cache.status, cache.spec)
  <1>1. /\ UNCHANGED <<bucket, obj, cache, aws, hive, faults>> /\ queued' = FALSE
        /\ work' = [ pc |-> "alter", copy |-> cache,
                     drop |-> changes.remove \cup changes.update,
                     add |-> changes.add \cup changes.update ]
    BY DEF handleHiveTable
  <1>2. changes.remove \subseteq Partition /\ changes.add \subseteq Partition /\ changes.update \subseteq Partition
    BY InvFields, TableFields, ChangesArePartitions
  <1> HIDE DEF changes
  <1>3. /\ work' \in TableSync /\ work'.pc = "alter" /\ work'.copy = cache
        /\ work'.drop \subseteq Partition /\ work'.add \subseteq Partition
    BY <1>1, <1>2, InvFields DEF TableSync
  <1>4. TypeOK'
    BY <1>1, <1>3 DEF PartitionsInv, TypeOK
  <1> QED BY <1>1, <1>3, <1>4 DEF PartitionsInv, CopySound, ChangesSound

(* A statement sent to Hive.                                               *)
LEMMA AlterStep ==
  ASSUME PartitionsInv, UNCHANGED owner, DropPartition \/ AddPartition
  PROVE  PartitionsInv'
  <1> DEFINE Specs == {FmtPartitionSpec(p) : p \in Entries}
  <1>1. /\ hive \in [Specs -> Locations \cup {Null}] /\ work \in TableSync /\ work.pc = "alter"
        /\ UNCHANGED <<bucket, obj, cache, queued, aws, faults>>
    BY DEF PartitionsInv, TypeOK, DropPartition, AddPartition
  <1>2. PICK part \in Partition, loc \in Locations \cup {Null} :
          /\ hive' = [hive EXCEPT ![part.spec] = loc]
          /\ \/ work' = [work EXCEPT !.drop = work.drop \ {part}]
             \/ work' = [work EXCEPT !.add = work.add \ {part}]
    <2>1. CASE DropPartition
      <3>1. PICK part \in work.drop :
              /\ hive' = [hive EXCEPT ![part.spec] = Null]
              /\ work' = [work EXCEPT !.drop = work.drop \ {part}]
        BY <2>1 DEF DropPartition
      <3> QED BY <1>1, <3>1 DEF TableSync
    <2>2. CASE AddPartition
      <3>1. PICK part \in work.add :
              /\ hive' = [hive EXCEPT ![part.spec] =
                            IF hive[part.spec] = Null THEN part.location ELSE hive[part.spec]]
              /\ work' = [work EXCEPT !.add = work.add \ {part}]
        BY <2>2 DEF AddPartition
      <3>2. part \in Partition
        BY <1>1, <3>1 DEF TableSync
      <3>3. part.spec \in Specs /\ part.location \in Locations
        BY <3>2 DEF Partition
      <3>4. (IF hive[part.spec] = Null THEN part.location ELSE hive[part.spec]) \in Locations \cup {Null}
        BY <1>1, <3>3
      <3> QED BY <3>1, <3>2, <3>4
    <2> QED BY <2>1, <2>2
  <1>3. part.spec \in Specs
    BY <1>2 DEF Partition
  <1>4. hive' \in [Specs -> Locations \cup {Null}]
    BY <1>1, <1>2, <1>3
  <1>5. /\ work' \in TableSync /\ work'.pc = "alter" /\ work'.copy = work.copy
        /\ work'.drop \subseteq Partition /\ work'.add \subseteq Partition
    BY <1>1, <1>2 DEF TableSync
  <1>6. TypeOK'
    BY <1>1, <1>4, <1>5 DEF PartitionsInv, TypeOK
  <1> QED BY <1>1, <1>5, <1>6 DEF PartitionsInv, CopySound, ChangesSound

(* The status update keeps the wanted partitions: it is made from the      *)
(* stored version or refused.                                              *)
LEMMA StatusWrite ==
  ASSUME PartitionsInv, putStatus
  PROVE  /\ obj' \in HiveTable /\ obj'.change = obj.change
         /\ \A c : CopySound(c) => CopySound(c)'
  <1>1. work.pc = "alter" /\ CopySound(work.copy) /\ work.copy \in HiveTable
    BY InvFields DEF putStatus, PartitionsInv
  <1> DEFINE o == [work.copy EXCEPT !.status = work.copy.spec]
  <1>2. CASE updateAccepted(work.copy)
    <2>1. o \in HiveTable /\ o.version = work.copy.version /\ o.change = work.copy.change
      BY <1>1, TableFields DEF HiveTable
    <2>2. o.version = obj.version /\ o.change = obj.change /\ Store(o)
      BY <1>1, <1>2, <2>1 DEF updateAccepted, putStatus, CopySound
    <2> HIDE DEF o
    <2> QED BY <2>1, <2>2, InvFields, StoreFacts
  <1>3. CASE obj' = obj
    BY <1>3, InvFields DEF CopySound
  <1> QED BY <1>2, <1>3 DEF putStatus

LEMMA PutStatusStep ==
  ASSUME PartitionsInv, UNCHANGED owner, putStatus
  PROVE  PartitionsInv'
  <1>1. work' = IdleWork /\ UNCHANGED <<bucket, cache, aws, hive, faults>> /\ queued' \in BOOLEAN
    BY DEF putStatus, PartitionsInv, TypeOK
  <1>2. work' \in TableSync /\ work'.pc = "idle" /\ work'.drop = {} /\ work'.add = {}
    BY <1>1, ListTypes DEF IdleWork
  <1>3. obj' \in HiveTable /\ obj'.change = obj.change /\ \A c : CopySound(c) => CopySound(c)'
    BY StatusWrite
  <1>4. TypeOK'
    BY <1>1, <1>2, <1>3 DEF PartitionsInv, TypeOK
  <1>5. ChangesSound'
    BY <1>1, <1>3 DEF PartitionsInv, ChangesSound
  <1>6. CopySound(cache)' /\ (aws'.pc = "update" => CopySound(aws.copy)')
    <2>1. CopySound(cache) /\ (aws.pc = "update" => CopySound(aws.copy))
      BY DEF PartitionsInv
    <2> QED BY <1>1, <1>3, <2>1 DEF CopySound
  <1> QED BY <1>1, <1>2, <1>4, <1>5, <1>6 DEF PartitionsInv, CopySound

LEMMA FaultStep ==
  ASSUME PartitionsInv, UNCHANGED owner, callFails \/ restart
  PROVE  PartitionsInv'
  <1>1. /\ UNCHANGED <<bucket, obj, hive>> /\ queued' = TRUE /\ work' = IdleWork
        /\ cache' = cache \/ cache' = obj
        /\ aws' = aws \/ aws' = IdleAws
    BY DEF callFails, restart
  <1>2. faults' \in 0..MaxFaults
    <2>1. faults \in 0..MaxFaults /\ faults < MaxFaults /\ faults' = faults + 1
      BY DEF callFails, restart, PartitionsInv, TypeOK
    <2> QED BY <2>1, PartitionsAssumption
  <1>3. work' \in TableSync /\ work'.pc = "idle" /\ work'.drop = {} /\ work'.add = {}
    BY <1>1, ListTypes DEF IdleWork
  <1>4. aws' \in AwsSync /\ (aws'.pc = "update" => aws' = aws)
    BY <1>1, ListTypes, InvFields DEF IdleAws
  <1>5. aws'.pc \in {"idle", "update"} /\ aws'.want \in Lists
    BY <1>4 DEF AwsSync
  <1>6. cache' \in HiveTable /\ CopySound(cache)'
    BY <1>1, InvFields DEF PartitionsInv, CopySound
  <1>7. TypeOK'
    BY <1>1, <1>2, <1>3, <1>5, <1>6 DEF PartitionsInv, TypeOK
  <1>8. ChangesSound' /\ (aws'.pc = "update" => CopySound(aws.copy)')
    BY <1>1, <1>4 DEF PartitionsInv, ChangesSound, CopySound
  <1> QED BY <1>1, <1>3, <1>4, <1>6, <1>7, <1>8 DEF PartitionsInv, CopySound

-----------------------------------------------------------------------------
(* The invariant                                                           *)

LEMMA InitialState ==
  ASSUME Init
  PROVE  PartitionsInv
  <1>1. obj \in HiveTable /\ cache = obj /\ obj.change = 0 /\ obj.version = 0
    BY ListTypes DEF Init, HiveTable
  <1>2. /\ aws \in AwsSync /\ aws.pc = "idle" /\ aws.want \in Lists
        /\ work \in TableSync /\ work.pc = "idle" /\ work.drop = {} /\ work.add = {}
    BY ListTypes DEF Init, IdleAws, IdleWork
  <1>3. bucket.list \in Lists /\ bucket.change = 0 /\ 0 \in 0..MaxChanges /\ 0 \in 0..MaxFaults
    BY ListTypes, PartitionsAssumption DEF Init
  <1>4. TypeOK
    BY <1>1, <1>2, <1>3 DEF Init, TypeOK
  <1> QED BY <1>1, <1>2, <1>3, <1>4 DEF PartitionsInv, CopySound, ChangesSound

LEMMA EveryStep ==
  ASSUME PartitionsInv, Next
  PROVE  PartitionsInv'
  BY ChangeBucketStep, EditStep, InformerStep, AwsReadStep, AwsUpdateStep, HandleStep, AlterStep,
     PutStatusStep, FaultStep DEF Next, Written, AwsStep, WorkerStep

LEMMA Stuttering ==
  ASSUME PartitionsInv, UNCHANGED <<vars, owner>>
  PROVE  PartitionsInv'
  BY DEF PartitionsInv, TypeOK, CopySound, ChangesSound, vars

(* The copies of the HiveTable are of an earlier version or are the stored *)
(* object, and the AWS billing sync is not behind what is stored.          *)
THEOREM PartitionsInvariant == Spec => []PartitionsInv
  <1>1. PartitionsInv /\ [Next]_<<vars, owner>> => PartitionsInv'
    BY EveryStep, Stuttering
  <1> QED BY <1>1, InitialState, PTL DEF Spec

(* The lists, the statements still to be sent and the partitions in Hive   *)
(* keep their types: getPartitionChanges (hivetables.go) only ever looks   *)
(* up ids that are in one of its two lists.                                *)
THEOREM PartitionsTypes == Spec => []TypeOK
  <1>1. PartitionsInv => TypeOK
    BY DEF PartitionsInv
  <1> QED BY <1>1, PartitionsInvariant, PTL

(* The AWS billing sync (datasources.go) and the HiveTable worker          *)
(* (hivetables.go) both Update the whole HiveTable from their copies, and  *)
(* users edit it; the wanted partitions are never taken back to older ones *)
(* by any of them, after conflicts, failed statements or restarts.         *)
THEOREM WantedPartitionsNeverRevert == Spec => SpecNeverReverts
  <1>1. PartitionsInv /\ [Next]_<<vars, owner>> => [obj'.change >= obj.change]_vars
    <2> SUFFICES ASSUME PartitionsInv, Next
                 PROVE  obj'.change >= obj.change
      BY DEF vars
    <2>1. obj.change \in Nat
      BY InvFields
    <2>2. CASE updateAWSBillingPartitions
      <3>1. obj' \in HiveTable /\ obj.change <= obj'.change
        BY <2>2, AwsWrite
      <3> QED BY <2>1, <3>1, TableFields
    <2>3. CASE putStatus
      BY <2>1, <2>3, StatusWrite
    <2>4. CASE UNCHANGED obj
      BY <2>1, <2>4
    <2>5. ASSUME NEW p \in Entries, editPartitions(p)
          PROVE  obj'.change >= obj.change
      BY <2>1, <2>5, EditWrite
    <2> QED BY <2>2, <2>3, <2>4, <2>5
        DEF Next, Written, AwsStep, WorkerStep, changeBucket, deliver, resync, handleAWSBillingDataSource,
            handleHiveTable, DropPartition, AddPartition, callFails, restart
  <1> QED BY <1>1, PartitionsInvariant, PTL DEF Spec, SpecNeverReverts
=============================================================================
