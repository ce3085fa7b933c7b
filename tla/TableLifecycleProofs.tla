------------------------ MODULE TableLifecycleProofs ------------------------
(***************************************************************************)
(* With finalizers, a HiveTable or managed PrestoTable whose status names  *)
(* its table has it, for any number of tables and any number of objects    *)
(* of the same name, one after the other.                                  *)
(***************************************************************************)
EXTENDS TableLifecycle, TLAPS

-----------------------------------------------------------------------------
(* The inductive invariant.  It is stated of one key's stored object O,    *)
(* the informer's copy C, the events W under way and the worker J, when    *)
(* the next object gets the uid n.                                         *)

TableWork == [pc : Steps, copy : TableObject]

(* A copy of the stored object itself is not ahead of it in its life.      *)
Lagging(O, c, n) ==
  /\ c.uid < n
  /\ O.phase = "live" /\ c.uid = O.uid => c.phase = "live"
  /\ O.phase = "terminating" /\ c.uid = O.uid => c.phase # "absent"

CopiesLag(O, C, W, J, n) ==
  /\ O.uid < n /\ (O.phase # "absent" => 0 < O.uid)
  /\ Lagging(O, C, n) /\ Lagging(O, J.copy, n)
  /\ \A i \in 1..Len(W) : Lagging(O, W[i], n)

(* Once the stored object has been seen, nothing older is seen again.      *)
NothingOlder(O, C, W, J) ==
  O.phase # "absent" =>
    /\ C.uid = O.uid => \A i \in 1..Len(W) : W[i].uid = O.uid
    /\ \A i, j \in 1..Len(W) : i < j /\ W[i].uid = O.uid => W[j].uid = O.uid
    /\ J.copy.uid = O.uid => C.uid = O.uid
    /\ O.status => C.uid = O.uid /\ (J.pc # "idle" => J.copy.uid = O.uid)

(* What the worker is doing fits its copy.                                 *)
WorkFits(k, J) ==
  /\ J.pc \in {"addFinalizer", "create", "putStatus", "createPrestoTable"} => J.copy.phase = "live"
  /\ J.pc \in {"drop", "removeFinalizer"} => J.copy.phase = "terminating"
  /\ J.pc = "createPrestoTable" => k[1] = "hive"

KeyOK(k, O, C, W, J, n) == CopiesLag(O, C, W, J, n) /\ NothingOlder(O, C, W, J) /\ WorkFits(k, J)

KeySound(k) == KeyOK(k, obj[k], cache[k], watch[k], work[k], nextUid)

(* The table of t is there, and a view is the one made for uid.            *)
HasTable(t, uid) == tables[t] # Null /\ (KindOf[t] = "view" => tables[t] = uid)

TableSound(k) ==
  ~Unmanaged(k) =>
    /\ work[k].pc = "putStatus" => HasTable(k[2], work[k].copy.uid)
    /\ obj[k].phase = "live" /\ obj[k].status => HasTable(k[2], obj[k].uid)

(* A table that is not of the kind "hive" has no HiveTable.                *)
NoHiveTable(t) ==
  LET k == <<"hive", t>>
  IN  KindOf[t] # "hive" =>
        /\ obj[k] = NoObject /\ cache[k] = NoObject /\ watch[k] = << >> /\ work[k] = Idle

LifecycleInv ==
  /\ TypeOK
  /\ \A k \in Keys : KeySound(k) /\ TableSound(k)
  /\ \A t \in Tables : NoHiveTable(t)

-----------------------------------------------------------------------------
(* Facts about the operators                                               *)

LEMMA UidsAreNumbers == Uids \subseteq Nat /\ 0 \in Uids /\ Null \notin Uids
  <1>1. \A kind \in Kinds : MaxObjects[kind] \in Nat /\ 0..MaxObjects[kind] \subseteq Nat
    BY LifecycleAssumption
  <1>2. Uids \subseteq Nat
    BY <1>1 DEF Uids
  <1>3. PICK kind \in Kinds : TRUE
    BY LifecycleAssumption
  <1>4. 0 \in 0..MaxObjects[kind]
    BY <1>1, <1>3
  <1> QED BY <1>2, <1>3, <1>4, LifecycleAssumption DEF Uids

LEMMA ObjectFields ==
  ASSUME NEW o \in TableObject
  PROVE  /\ o.phase \in {"absent", "live", "terminating"} /\ o.uid \in Nat /\ o.uid \in Uids
         /\ o.owner \in Uids /\ o.status \in BOOLEAN /\ o.finalizer \in BOOLEAN
  BY UidsAreNumbers DEF TableObject

LEMMA NothingTypes ==
  /\ NoObject \in TableObject /\ NoObject.phase = "absent" /\ NoObject.uid = 0
  /\ NoObject.status = FALSE /\ Idle \in TableWork /\ Idle.pc = "idle" /\ Idle.copy = NoObject
  <1>1. NoObject \in TableObject /\ NoObject.phase = "absent" /\ NoObject.uid = 0 /\ NoObject.status = FALSE
    BY UidsAreNumbers DEF NoObject, TableObject
  <1>2. Idle \in TableWork /\ Idle.pc = "idle" /\ Idle.copy = NoObject
    BY <1>1 DEF Idle, TableWork, Steps
  <1> QED BY <1>1, <1>2

LEMMA StoredType ==
  ASSUME NEW o \in TableObject
  PROVE  Stored(o) \in TableObject
  BY NothingTypes DEF Stored

(* The elements of a sequence with one more at its end.                    *)
LEMMA AppendFacts ==
  ASSUME NEW S, NEW s \in Seq(S), NEW e \in S
  PROVE  /\ Append(s, e) \in Seq(S) /\ Len(Append(s, e)) = Len(s) + 1 /\ Len(s) \in Nat
         /\ \A i \in 1..Len(s) : Append(s, e)[i] = s[i]
         /\ Append(s, e)[Len(s) + 1] = e
  OBVIOUS

LEMMA TailFacts ==
  ASSUME NEW S, NEW s \in Seq(S), s # << >>
  PROVE  /\ Tail(s) \in Seq(S) /\ Len(Tail(s)) = Len(s) - 1 /\ Len(s) \in Nat \ {0}
         /\ Head(s) \in S /\ Head(s) = s[1]
         /\ \A i \in 1..Len(Tail(s)) : Tail(s)[i] = s[i + 1]
  OBVIOUS

-----------------------------------------------------------------------------
(* One key: what happens to its object, its copies and its worker          *)

(* The stored object is updated: its status is set only by a worker that   *)
(* has a copy of it, and what is being deleted is not live again.          *)
LEMMA KeyUpdated ==
  ASSUME NEW k, NEW O \in TableObject, NEW C \in TableObject, NEW W \in Seq(TableObject),
         NEW J \in TableWork, NEW n \in Nat, KeyOK(k, O, C, W, J, n), NEW o \in TableObject,
         O.phase # "absent", o.phase # "absent", o.uid = O.uid,
         O.phase = "terminating" => o.phase = "terminating",
         o.status => O.status \/ J.copy.uid = O.uid
  PROVE  KeyOK(k, o, C, Append(W, o), J, n)
  <1> DEFINE V == Append(W, o)
  <1>0. J.copy \in TableObject
    BY DEF TableWork
  <1>1. /\ V \in Seq(TableObject) /\ Len(V) = Len(W) + 1 /\ Len(W) \in Nat
        /\ \A i \in 1..Len(W) : V[i] = W[i]
        /\ V[Len(W) + 1] = o
    BY AppendFacts
  <1> HIDE DEF V
  <1>2. O.uid \in Nat /\ C.uid \in Nat /\ J.copy.uid \in Nat /\ \A i \in 1..Len(W) : W[i].uid \in Nat
    BY <1>0, ObjectFields
  <1>3. ASSUME NEW c, Lagging(O, c, n)
        PROVE  Lagging(o, c, n)
    BY <1>3, ObjectFields DEF Lagging
  <1>4. Lagging(o, o, n)
    BY DEF Lagging, KeyOK, CopiesLag
  <1>5. CopiesLag(o, C, V, J, n)
    <2>1. Lagging(o, C, n) /\ Lagging(o, J.copy, n) /\ \A i \in 1..Len(W) : Lagging(o, W[i], n)
      BY <1>3 DEF KeyOK, CopiesLag
    <2>2. \A i \in 1..Len(V) : Lagging(o, V[i], n)
      BY <1>1, <1>4, <2>1
    <2> QED BY <2>1, <2>2 DEF KeyOK, CopiesLag
  <1>6. NothingOlder(o, C, V, J)
    <2>1. C.uid = o.uid => \A i \in 1..Len(V) : V[i].uid = o.uid
      BY <1>1 DEF KeyOK, NothingOlder
    <2>2. ASSUME NEW i \in 1..Len(V), NEW j \in 1..Len(V), i < j, V[i].uid = o.uid
          PROVE  V[j].uid = o.uid
      <3>1. i \in 1..Len(W) /\ (j \in 1..Len(W) \/ j = Len(W) + 1)
        BY <1>1, <2>2
      <3>2. CASE j \in 1..Len(W)
        <4>1. V[i] = W[i] /\ V[j] = W[j]
          BY <1>1, <3>1, <3>2
        <4> QED BY <2>2, <3>1, <3>2, <4>1 DEF KeyOK, NothingOlder
      <3> QED BY <1>1, <3>1, <3>2
    <2>3. /\ J.copy.uid = o.uid => C.uid = o.uid
          /\ o.status => C.uid = o.uid /\ (J.pc # "idle" => J.copy.uid = o.uid)
      BY DEF KeyOK, NothingOlder
    <2> QED BY <2>1, <2>2, <2>3 DEF NothingOlder
  <1> QED BY <1>5, <1>6 DEF KeyOK, V

(* The stored object is gone; o is its last state.                         *)
LEMMA KeyDeleted ==
  ASSUME NEW k, NEW O \in TableObject, NEW C \in TableObject, NEW W \in Seq(TableObject),
         NEW J \in TableWork, NEW n \in Nat \ {0}, KeyOK(k, O, C, W, J, n), NEW o \in TableObject,
         O.phase # "absent", o.uid = O.uid
  PROVE  KeyOK(k, NoObject, C, Append(W, o), J, n)
  <1> DEFINE V == Append(W, o)
  <1>1. /\ V \in Seq(TableObject) /\ Len(V) = Len(W) + 1 /\ Len(W) \in Nat
        /\ \A i \in 1..Len(W) : V[i] = W[i]
        /\ V[Len(W) + 1] = o
    BY AppendFacts
  <1> HIDE DEF V
  <1>2. ASSUME NEW c, c.uid < n
        PROVE  Lagging(NoObject, c, n)
    BY <1>2, NothingTypes DEF Lagging
  <1>3. C.uid < n /\ J.copy.uid < n /\ o.uid < n /\ \A i \in 1..Len(W) : W[i].uid < n
    BY DEF KeyOK, CopiesLag, Lagging
  <1>4. \A i \in 1..Len(V) : V[i].uid < n
    BY <1>1, <1>3
  <1>5. CopiesLag(NoObject, C, V, J, n)
    BY <1>2, <1>3, <1>4, NothingTypes DEF CopiesLag
  <1> QED BY <1>5, NothingTypes DEF KeyOK, NothingOlder, V

(* A new object has a uid that no copy has.                                *)
LEMMA KeyCreated ==
  ASSUME NEW k, NEW O \in TableObject, NEW C \in TableObject, NEW W \in Seq(TableObject),
         NEW J \in TableWork, NEW n \in Nat \ {0}, KeyOK(k, O, C, W, J, n), NEW o \in TableObject,
         o.phase = "live", o.uid = n, ~o.status
  PROVE  KeyOK(k, o, C, Append(W, o), J, n + 1)
  <1> DEFINE V == Append(W, o)
  <1>0. J.copy \in TableObject
    BY DEF TableWork
  <1>1. /\ V \in Seq(TableObject) /\ Len(V) = Len(W) + 1 /\ Len(W) \in Nat
        /\ \A i \in 1..Len(W) : V[i] = W[i]
        /\ V[Len(W) + 1] = o
    BY AppendFacts
  <1> HIDE DEF V
  <1>2. ASSUME NEW c \in TableObject, c.uid < n
        PROVE  Lagging(o, c, n + 1) /\ c.uid # o.uid
    BY <1>2, ObjectFields DEF Lagging
  <1>3. C.uid < n /\ J.copy.uid < n /\ \A i \in 1..Len(W) : W[i].uid < n
    BY DEF KeyOK, CopiesLag, Lagging
  <1>4. Lagging(o, o, n + 1)
    BY DEF Lagging
  <1>5. \A i \in 1..Len(W) : W[i] \in TableObject
    OBVIOUS
  <1>6. CopiesLag(o, C, V, J, n + 1)
    <2>1. Lagging(o, C, n + 1) /\ Lagging(o, J.copy, n + 1)
      BY <1>0, <1>2, <1>3
    <2>2. \A i \in 1..Len(V) : Lagging(o, V[i], n + 1)
      BY <1>1, <1>2, <1>3, <1>4, <1>5
    <2> QED BY <2>1, <2>2 DEF CopiesLag
  <1>7. NothingOlder(o, C, V, J)
    <2>1. C.uid # o.uid /\ J.copy.uid # o.uid /\ \A i \in 1..Len(W) : W[i].uid # o.uid
      BY <1>0, <1>2, <1>3, <1>5
    <2>2. \A i, j \in 1..Len(V) : i < j => V[i].uid # o.uid
      BY <1>1, <2>1
    <2> QED BY <2>1, <2>2 DEF NothingOlder
  <1> QED BY <1>6, <1>7 DEF KeyOK, V

(* The informer gets the next event.                                       *)
LEMMA KeyReceived ==
  ASSUME NEW k, NEW O \in TableObject, NEW C \in TableObject, NEW W \in Seq(TableObject),
         NEW J \in TableWork, NEW n \in Nat \ {0}, KeyOK(k, O, C, W, J, n), W # << >>
  PROVE  KeyOK(k, O, Stored(Head(W)), Tail(W), J, n)
  <1> DEFINE V == Tail(W)
             c == Stored(Head(W))
  <1>1. /\ V \in Seq(TableObject) /\ Len(V) = Len(W) - 1 /\ Len(W) \in Nat \ {0}
        /\ Head(W) \in TableObject /\ Head(W) = W[1]
        /\ \A i \in 1..Len(V) : V[i] = W[i + 1]
    BY TailFacts
  <1>2. c = Head(W) \/ (Head(W).phase = "absent" /\ c = NoObject)
    BY DEF Stored
  <1> HIDE DEF V, c
  <1>3. Lagging(O, W[1], n)
    BY <1>1 DEF KeyOK, CopiesLag
  <1>4. Lagging(O, c, n)
    <2>1. CASE c = W[1]
      BY <1>3, <2>1
    <2>2. CASE c = NoObject
      BY <2>2, NothingTypes, ObjectFields DEF KeyOK, CopiesLag, Lagging
    <2> QED BY <1>1, <1>2, <2>1, <2>2
  <1>5. CopiesLag(O, c, V, J, n)
    BY <1>1, <1>4 DEF KeyOK, CopiesLag
  <1>6. ASSUME O.phase # "absent", W[1].uid = O.uid
        PROVE  c = W[1]
    BY <1>1, <1>2, <1>3, <1>6, ObjectFields DEF Lagging
  <1>7. ASSUME O.phase # "absent", c.uid = O.uid
        PROVE  c = W[1] /\ W[1].uid = O.uid
    BY <1>1, <1>2, <1>7, NothingTypes, ObjectFields DEF KeyOK, CopiesLag
  <1>8. NothingOlder(O, c, V, J)
    <2> SUFFICES ASSUME O.phase # "absent"
                 PROVE  /\ c.uid = O.uid => \A i \in 1..Len(V) : V[i].uid = O.uid
                        /\ \A i, j \in 1..Len(V) : i < j /\ V[i].uid = O.uid => V[j].uid = O.uid
                        /\ J.copy.uid = O.uid => c.uid = O.uid
                        /\ O.status => c.uid = O.uid /\ (J.pc # "idle" => J.copy.uid = O.uid)
      BY DEF NothingOlder
    <2>1. c.uid = O.uid => \A i \in 1..Len(V) : V[i].uid = O.uid
      <3>1. c.uid = O.uid => \A i \in 1..Len(V) : W[i + 1].uid = O.uid
        BY <1>1, <1>7 DEF KeyOK, NothingOlder
      <3> QED BY <1>1, <3>1
    <2>2. \A i, j \in 1..Len(V) : i < j /\ V[i].uid = O.uid => V[j].uid = O.uid
      BY <1>1 DEF KeyOK, NothingOlder
    <2>3. C.uid = O.uid => c.uid = O.uid
      BY <1>1, <1>6 DEF KeyOK, NothingOlder
    <2>4. /\ J.copy.uid = O.uid => c.uid = O.uid
          /\ O.status => c.uid = O.uid /\ (J.pc # "idle" => J.copy.uid = O.uid)
      BY <2>3 DEF KeyOK, NothingOlder
    <2> QED BY <2>1, <2>2, <2>4
  <1> QED BY <1>5, <1>8 DEF KeyOK, V, c

(* The worker of the key is at another step, with a copy of the object     *)
(* that it or the informer had, or has ended.                              *)
LEMMA KeyWorked ==
  ASSUME NEW k, NEW O, NEW C, NEW W, NEW J, NEW n, KeyOK(k, O, C, W, J, n),
         NEW I, WorkFits(k, I), I.copy.uid = C.uid \/ (J.pc # "idle" /\ I.copy.uid = J.copy.uid),
         Lagging(O, I.copy, n)
  PROVE  KeyOK(k, O, C, W, I, n)
  <1>1. CopiesLag(O, C, W, I, n)
    BY DEF KeyOK, CopiesLag
  <1>2. NothingOlder(O, C, W, I)
    BY DEF KeyOK, NothingOlder
  <1> QED BY <1>1, <1>2 DEF KeyOK

LEMMA IdleFits == \A k : WorkFits(k, Idle)
  BY NothingTypes DEF WorkFits

LEMMA KeyIdle ==
  ASSUME NEW k, NEW O \in TableObject, NEW C, NEW W, NEW J, NEW n \in Nat \ {0},
         KeyOK(k, O, C, W, J, n)
  PROVE  KeyOK(k, O, C, W, Idle, n)
  <1>1. O.phase # "absent" => 0 < O.uid
    BY DEF KeyOK, CopiesLag
  <1>2. Lagging(O, Idle.copy, n)
    BY <1>1, NothingTypes, ObjectFields DEF Lagging
  <1>3. CopiesLag(O, C, W, Idle, n)
    BY <1>2 DEF KeyOK, CopiesLag
  <1>4. NothingOlder(O, C, W, Idle)
    BY <1>1, NothingTypes DEF KeyOK, NothingOlder
  <1> QED BY <1>3, <1>4, IdleFits DEF KeyOK

(* Another key gets a new object.                                          *)
LEMMA KeyLater ==
  ASSUME NEW k, NEW O \in TableObject, NEW C \in TableObject, NEW W \in Seq(TableObject),
         NEW J \in TableWork, NEW n \in Nat, KeyOK(k, O, C, W, J, n)
  PROVE  KeyOK(k, O, C, W, J, n + 1)
  <1>1. ASSUME NEW c \in TableObject, Lagging(O, c, n)
        PROVE  Lagging(O, c, n + 1)
    BY <1>1, ObjectFields DEF Lagging
  <1>2. J.copy \in TableObject /\ \A i \in 1..Len(W) : W[i] \in TableObject
    BY DEF TableWork
  <1>3. O.uid < n + 1 /\ (O.phase # "absent" => 0 < O.uid)
    BY ObjectFields DEF KeyOK, CopiesLag
  <1>4. CopiesLag(O, C, W, J, n + 1)
    BY <1>1, <1>2, <1>3 DEF KeyOK, CopiesLag
  <1> QED BY <1>4 DEF KeyOK

-----------------------------------------------------------------------------
(* All keys                                                                *)

LEMMA KeyParts ==
  ASSUME NEW k \in Keys
  PROVE  k[1] \in {"hive", "presto"} /\ k[2] \in Tables /\ k = <<k[1], k[2]>>
  BY DEF Keys

LEMMA KeyTypes ==
  ASSUME TypeOK, NEW k \in Keys
  PROVE  /\ obj[k] \in TableObject /\ cache[k] \in TableObject /\ watch[k] \in Seq(TableObject)
         /\ work[k] \in TableWork /\ work[k].copy \in TableObject /\ work[k].pc \in Steps
         /\ notify[k] \in Seq(TableObject)
  BY DEF TypeOK, TableWork

LEMMA NextUidIsPositive ==
  ASSUME TypeOK
  PROVE  nextUid \in Nat \ {0}
  <1>1. nextUid - 1 \in Nat
    BY UidsAreNumbers DEF TypeOK
  <1> QED BY <1>1 DEF TypeOK

(* Nothing of the key k changes.                                           *)
Same(k) == obj'[k] = obj[k] /\ cache'[k] = cache[k] /\ watch'[k] = watch[k] /\ work'[k] = work[k]

(* A worker that is busy with a table of its own is the only one.          *)
LEMMA TableOfOthers ==
  ASSUME LifecycleInv, NEW k \in Keys, NEW j \in Keys, j # k, Same(j), KindOf' = KindOf,
         \/ tables'[j[2]] = tables[j[2]]
         \/ j[2] = k[2] /\ ~Unmanaged(k) /\ work[k].pc # "idle"
  PROVE  TableSound(j)'
  <1>0. Unmanaged(j)' <=> Unmanaged(j)
    BY DEF Unmanaged
  <1>1. CASE tables'[j[2]] = tables[j[2]]
    BY <1>0, <1>1 DEF LifecycleInv, TableSound, HasTable, Same
  <1>2. CASE j[2] = k[2] /\ ~Unmanaged(k) /\ work[k].pc # "idle"
    <2>1. k[2] \in Tables /\ (k = <<"hive", k[2]>> \/ k = <<"presto", k[2]>>)
          /\ (j = <<"hive", k[2]>> \/ j = <<"presto", k[2]>>)
      BY <1>2, KeyParts
    <2>2. CASE k = <<"hive", k[2]>>
      <3>1. j = <<"presto", k[2]>> /\ j[1] = "presto"
        BY <2>1, <2>2
      <3>2. KindOf[k[2]] = "hive"
        BY <1>2, <2>1, <2>2, NothingTypes DEF LifecycleInv, NoHiveTable
      <3>3. Unmanaged(j)
        BY <1>2, <3>1, <3>2 DEF Unmanaged
      <3> QED BY <1>0, <3>3 DEF TableSound
    <2>3. CASE k = <<"presto", k[2]>>
      <3>1. j = <<"hive", k[2]>> /\ k[1] = "presto"
        BY <2>1, <2>3
      <3>2. KindOf[k[2]] # "hive"
        BY <1>2, <3>1 DEF Unmanaged
      <3>3. obj[j] = NoObject /\ work[j] = Idle
        BY <2>1, <3>1, <3>2 DEF LifecycleInv, NoHiveTable
      <3> QED BY <3>3, NothingTypes DEF TableSound, Same
    <2> QED BY <2>1, <2>2, <2>3
  <1> QED BY <1>1, <1>2

(* A step about one key: the rest is as it was.                            *)
LEMMA OneKey ==
  ASSUME LifecycleInv, NEW k \in Keys, TypeOK', KindOf' = KindOf,
         nextUid' = nextUid \/ nextUid' = nextUid + 1,
         \A j \in Keys : j # k => Same(j),
         k[1] = "presto" \/ KindOf[k[2]] = "hive" \/ Same(k),
         \A t \in Tables : t # k[2] => tables'[t] = tables[t],
         tables'[k[2]] = tables[k[2]] \/ (~Unmanaged(k) /\ work[k].pc # "idle"),
         KeySound(k)', TableSound(k)'
  PROVE  LifecycleInv'
  <1>1. ASSUME NEW j \in Keys
        PROVE  KeySound(j)' /\ TableSound(j)'
    <2>1. CASE j = k
      BY <2>1
    <2>2. CASE j # k
      <3>1. Same(j) /\ KeySound(j) /\ j[2] \in Tables
        BY <2>2, KeyParts DEF LifecycleInv
      <3>2. KeySound(j)'
        <4>1. KeyOK(j, obj[j], cache[j], watch[j], work[j], nextUid')
          <5>1. CASE nextUid' = nextUid
            BY <3>1, <5>1 DEF KeySound
          <5>2. CASE nextUid' = nextUid + 1
            BY <3>1, <5>2, KeyLater, KeyTypes, NextUidIsPositive DEF LifecycleInv, KeySound
          <5> QED BY <5>1, <5>2
        <4> QED BY <3>1, <4>1 DEF KeySound, Same
      <3>3. TableSound(j)'
        BY <2>2, <3>1, TableOfOthers
      <3> QED BY <3>2, <3>3
    <2> QED BY <2>1, <2>2
  <1>2. ASSUME NEW t \in Tables
        PROVE  NoHiveTable(t)'
    <2>1. <<"hive", t>> \in Keys
      BY DEF Keys
    <2>2. CASE Same(<<"hive", t>>)
      BY <2>2 DEF LifecycleInv, NoHiveTable, Same
    <2>3. CASE ~Same(<<"hive", t>>)
      <3>1. k = <<"hive", t>>
        BY <2>1, <2>3
      <3>2. KindOf[t] = "hive"
        BY <2>3, <3>1
      <3> QED BY <3>2 DEF NoHiveTable
    <2> QED BY <2>2, <2>3
  <1> QED BY <1>1, <1>2 DEF LifecycleInv

(* A step that touches no key at all.                                      *)
LEMMA NoKey ==
  ASSUME LifecycleInv, TypeOK', KindOf' = KindOf,
         nextUid' = nextUid \/ nextUid' = nextUid + 1,
         UNCHANGED <<obj, cache, watch, work, tables>>
  PROVE  LifecycleInv'
  <1>1. ASSUME NEW k \in Keys
        PROVE  KeySound(k)' /\ TableSound(k)'
    <2>1. KeyOK(k, obj[k], cache[k], watch[k], work[k], nextUid')
      <3>1. CASE nextUid' = nextUid
        BY <3>1 DEF LifecycleInv, KeySound
      <3>2. CASE nextUid' = nextUid + 1
        BY <3>2, KeyLater, KeyTypes, NextUidIsPositive DEF LifecycleInv, KeySound
      <3> QED BY <3>1, <3>2
    <2>2. KeySound(k)'
      BY <2>1 DEF KeySound
    <2>3. TableSound(k)'
      BY DEF LifecycleInv, TableSound, HasTable, Unmanaged
    <2> QED BY <2>2, <2>3
  <1>2. \A t \in Tables : NoHiveTable(t)'
    BY DEF LifecycleInv, NoHiveTable
  <1> QED BY <1>1, <1>2 DEF LifecycleInv

(* A write to the API server.                                              *)
LEMMA PutFacts ==
  ASSUME TypeOK, NEW k \in Keys, NEW o \in TableObject, Put(k, o)
  PROVE  /\ obj' \in [Keys -> TableObject] /\ watch' \in [Keys -> Seq(TableObject)]
         /\ obj'[k] = Stored(o) /\ watch'[k] = Append(watch[k], o)
         /\ \A j \in Keys : j # k => obj'[j] = obj[j] /\ watch'[j] = watch[j]
  <1>1. Stored(o) \in TableObject
    BY StoredType
  <1>2. Append(watch[k], o) \in Seq(TableObject)
    BY KeyTypes, AppendFacts
  <1>3. obj' = [obj EXCEPT ![k] = Stored(o)] /\ watch' = [watch EXCEPT ![k] = Append(watch[k], o)]
    BY DEF Put
  <1> QED BY <1>1, <1>2, <1>3 DEF TypeOK

LEMMA NewUidFacts ==
  ASSUME TypeOK, NEW t \in Tables, NewUid(t)
  PROVE  /\ nextUid' = nextUid + 1 /\ nextUid' \in Nat /\ nextUid \in Uids /\ nextUid' - 1 \in Uids
         /\ faults' = faults
  <1>1. nextUid \in Nat \ {0} /\ KindOf[t] \in Kinds
    BY NextUidIsPositive DEF TypeOK
  <1>2. MaxObjects[KindOf[t]] \in Nat /\ nextUid <= MaxObjects[KindOf[t]]
    BY <1>1, LifecycleAssumption DEF NewUid
  <1>3. nextUid \in 0..MaxObjects[KindOf[t]]
    BY <1>1, <1>2
  <1>4. nextUid \in Uids
    BY <1>1, <1>3 DEF Uids
  <1> QED BY <1>1, <1>4 DEF NewUid

(* The worker's next state.                                                *)
LEMMA WorkFacts ==
  ASSUME TypeOK, NEW k \in Keys, NEW J \in TableWork, work' = [work EXCEPT ![k] = J]
  PROVE  /\ work' \in [Keys -> [pc : Steps, copy : TableObject]] /\ work'[k] = J
         /\ \A j \in Keys : j # k => work'[j] = work[j]
  BY DEF TypeOK, TableWork

(* The types of what no key has.                                           *)
RestTypes ==
  /\ owner \in [Tables -> Owner]
  /\ ownerSync \in [Tables -> [pc : {"idle", "create", "waitHive", "waitPresto"}, uid : Uids]]
  /\ queue \subseteq Keys
  /\ announced \in [Tables -> BOOLEAN]
  /\ nextUid \in Nat /\ nextUid - 1 \in Uids
  /\ faults \in 0..MaxFaults /\ KindOf \in [Tables -> Kinds]

LEMMA RestOfTypes ==
  ASSUME TypeOK
  PROVE  RestTypes
  BY DEF TypeOK, RestTypes

(* Who has a HiveTable, or a worker busy with one, is of that kind.        *)
LEMMA BusyKey ==
  ASSUME LifecycleInv, NEW k \in Keys,
         work[k].pc # "idle" \/ watch[k] # << >> \/ obj[k].phase # "absent" \/ cache[k].phase # "absent"
  PROVE  k[1] = "presto" \/ KindOf[k[2]] = "hive"
  <1>1. k[2] \in Tables /\ (k = <<"hive", k[2]>> \/ k[1] = "presto")
    BY KeyParts
  <1>2. CASE k = <<"hive", k[2]>> /\ KindOf[k[2]] # "hive"
    BY <1>1, <1>2, NothingTypes DEF LifecycleInv, NoHiveTable
  <1> QED BY <1>1, <1>2

(* Only the worker of k goes on.                                           *)
LEMMA WorkStep ==
  ASSUME LifecycleInv, NEW k \in Keys, NEW J \in TableWork, work' = [work EXCEPT ![k] = J],
         RestTypes', UNCHANGED <<obj, watch, cache, notify, tables, nextUid, KindOf>>,
         KeyOK(k, obj[k], cache[k], watch[k], J, nextUid),
         J.pc = "putStatus" => Unmanaged(k) \/ HasTable(k[2], J.copy.uid),
         k[1] = "presto" \/ KindOf[k[2]] = "hive" \/ J = work[k]
  PROVE  LifecycleInv'
  <1>1. /\ work' \in [Keys -> [pc : Steps, copy : TableObject]] /\ work'[k] = J
        /\ \A j \in Keys : j # k => work'[j] = work[j]
    BY WorkFacts DEF LifecycleInv
  <1>2. TypeOK'
    BY <1>1 DEF LifecycleInv, TypeOK, RestTypes
  <1>3. \A j \in Keys : j # k => Same(j)
    BY <1>1 DEF Same
  <1>4. k[1] = "presto" \/ KindOf[k[2]] = "hive" \/ Same(k)
    BY <1>1 DEF Same
  <1>5. KeySound(k)'
    BY <1>1 DEF KeySound
  <1>6. TableSound(k)'
    BY <1>1 DEF LifecycleInv, TableSound, HasTable, Unmanaged
  <1> QED BY <1>2, <1>3, <1>4, <1>5, <1>6, OneKey

LEMMA EndStep ==
  ASSUME LifecycleInv, NEW k \in Keys, Fail(k) \/ Done(k), work[k].pc # "idle",
         faults' \in 0..MaxFaults, UNCHANGED <<ownerVars, apiVars, eventVars, tables, announced, nextUid, KindOf>>
  PROVE  LifecycleInv'
  <1>1. work' = [work EXCEPT ![k] = Idle] /\ (queue' = queue \/ queue' = queue \cup {k})
    BY DEF Fail, Done
  <1>2. RestTypes'
    BY <1>1, RestOfTypes DEF LifecycleInv, RestTypes, ownerVars
  <1>3. KeyOK(k, obj[k], cache[k], watch[k], Idle, nextUid)
    BY KeyIdle, KeyTypes, NextUidIsPositive DEF LifecycleInv, KeySound
  <1> QED BY <1>1, <1>2, <1>3, BusyKey, NothingTypes, WorkStep DEF apiVars, eventVars

(* A write to the object of k, and the next state of its worker.           *)
LEMMA PutStep ==
  ASSUME LifecycleInv, NEW k \in Keys, NEW o \in TableObject, Put(k, o),
         NEW J \in TableWork, work' = [work EXCEPT ![k] = J], RestTypes',
         nextUid' = nextUid \/ nextUid' = nextUid + 1, UNCHANGED <<cache, notify, tables, KindOf>>,
         KeyOK(k, Stored(o), cache[k], Append(watch[k], o), J, nextUid'),
         J.pc = "putStatus" => Unmanaged(k) \/ HasTable(k[2], J.copy.uid),
         o.phase = "live" /\ o.status => Unmanaged(k) \/ HasTable(k[2], o.uid),
         k[1] = "presto" \/ KindOf[k[2]] = "hive"
  PROVE  LifecycleInv'
  <1>1. /\ work' \in [Keys -> [pc : Steps, copy : TableObject]] /\ work'[k] = J
        /\ \A j \in Keys : j # k => work'[j] = work[j]
    BY WorkFacts DEF LifecycleInv
  <1>2. /\ obj' \in [Keys -> TableObject] /\ watch' \in [Keys -> Seq(TableObject)]
        /\ obj'[k] = Stored(o) /\ watch'[k] = Append(watch[k], o)
        /\ \A j \in Keys : j # k => obj'[j] = obj[j] /\ watch'[j] = watch[j]
    BY PutFacts DEF LifecycleInv
  <1>3. TypeOK'
    BY <1>1, <1>2 DEF LifecycleInv, TypeOK, RestTypes
  <1>4. \A j \in Keys : j # k => Same(j)
    BY <1>1, <1>2 DEF Same
  <1>5. KeySound(k)'
    BY <1>1, <1>2 DEF KeySound
  <1>6. TableSound(k)'
    <2>1. obj'[k].phase = "live" => obj'[k] = o
      BY <1>2, NothingTypes DEF Stored
    <2> QED BY <1>1, <2>1 DEF TableSound, HasTable, Unmanaged
  <1> QED BY <1>3, <1>4, <1>5, <1>6, OneKey

-----------------------------------------------------------------------------
(* The informers                                                           *)

LEMMA ReceiveStep ==
  ASSUME LifecycleInv, NEW k \in Keys, receive(k), UNCHANGED KindOf
  PROVE  LifecycleInv'
  <1>1. /\ watch[k] \in Seq(TableObject) /\ watch[k] # << >> /\ notify[k] \in Seq(TableObject)
        /\ UNCHANGED <<ownerVars, obj, queue, work, tables, announced, boundVars, KindOf>>
    BY KeyTypes DEF LifecycleInv, receive
  <1>2. /\ Tail(watch[k]) \in Seq(TableObject) /\ Head(watch[k]) \in TableObject
    BY <1>1, TailFacts
  <1>3. Stored(Head(watch[k])) \in TableObject /\ Append(notify[k], Head(watch[k])) \in Seq(TableObject)
    BY <1>1, <1>2, StoredType, AppendFacts
  <1>4. /\ cache' \in [Keys -> TableObject] /\ cache'[k] = Stored(Head(watch[k]))
        /\ watch' \in [Keys -> Seq(TableObject)] /\ watch'[k] = Tail(watch[k])
        /\ notify' \in [Keys -> Seq(TableObject)]
        /\ \A j \in Keys : j # k => cache'[j] = cache[j] /\ watch'[j] = watch[j]
    BY <1>2, <1>3 DEF receive, LifecycleInv, TypeOK
  <1>5. TypeOK'
    BY <1>1, <1>4 DEF LifecycleInv, TypeOK, ownerVars, boundVars
  <1>6. \A j \in Keys : j # k => Same(j)
    BY <1>1, <1>4 DEF Same
  <1>7. KeySound(k)'
    <2>1. KeyOK(k, obj[k], Stored(Head(watch[k])), Tail(watch[k]), work[k], nextUid)
      BY <1>1, KeyReceived, KeyTypes, NextUidIsPositive DEF LifecycleInv, KeySound
    <2> QED BY <1>1, <1>4, <2>1 DEF KeySound, boundVars
  <1>8. TableSound(k)'
    BY <1>1 DEF LifecycleInv, TableSound, HasTable, Unmanaged
  <1>9. k[2] \in Tables
    BY KeyParts
  <1> QED BY <1>1, <1>5, <1>6, <1>7, <1>8, <1>9, BusyKey, OneKey DEF boundVars

(* With finalizers no handler drops anything.                              *)
LEMMA HandleEventStep ==
  ASSUME LifecycleInv, EnableFinalizers, NEW k \in Keys, UNCHANGED KindOf,
         handleHiveTableEvent(k) \/ handlePrestoTableEvent(k)
  PROVE  LifecycleInv'
  <1>1. /\ Handled(k) /\ UNCHANGED <<tables, announced>>
        /\ queue' = queue \cup {k}
    BY DEF handleHiveTableEvent, handlePrestoTableEvent
  <1>2. notify' \in [Keys -> Seq(TableObject)]
    <2>1. notify[k] \in Seq(TableObject) /\ notify[k] # << >>
      BY <1>1, KeyTypes DEF LifecycleInv, Handled
    <2>2. Tail(notify[k]) \in Seq(TableObject)
      BY <2>1, TailFacts
    <2>3. notify' = [notify EXCEPT ![k] = Tail(notify[k])]
      BY <1>1 DEF Handled
    <2> QED BY <2>2, <2>3 DEF LifecycleInv, TypeOK
  <1>3. UNCHANGED <<ownerVars, apiVars, cache, work, boundVars>>
    BY <1>1 DEF Handled
  <1>4. TypeOK'
    BY <1>1, <1>2, <1>3 DEF LifecycleInv, TypeOK, ownerVars, apiVars, boundVars
  <1> QED BY <1>1, <1>3, <1>4, NoKey DEF apiVars, boundVars

LEMMA ResyncStep ==
  ASSUME LifecycleInv, NEW k \in Keys, resync(k), UNCHANGED KindOf
  PROVE  LifecycleInv'
  <1>1. TypeOK'
    BY DEF resync, LifecycleInv, TypeOK, ownerVars, apiVars, eventVars, boundVars
  <1> QED BY <1>1, NoKey DEF resync, apiVars, eventVars, boundVars

-----------------------------------------------------------------------------
(* The worker                                                              *)

LEMMA StepForFits ==
  ASSUME NEW k, NEW o \in TableObject, StepFor(o) # "idle"
  PROVE  /\ [pc |-> StepFor(o), copy |-> o] \in TableWork
         /\ WorkFits(k, [pc |-> StepFor(o), copy |-> o])
         /\ StepFor(o) \in {"drop", "addFinalizer", "create"}
  <1>1. /\ StepFor(o) \in {"drop", "addFinalizer", "create"}
        /\ StepFor(o) = "drop" => o.phase = "terminating"
        /\ StepFor(o) \in {"addFinalizer", "create"} => o.phase = "live"
    BY ObjectFields DEF StepFor
  <1> DEFINE J == [pc |-> StepFor(o), copy |-> o]
  <1>2. J.pc = StepFor(o) /\ J.copy = o /\ J \in TableWork
    BY <1>1 DEF TableWork, Steps
  <1> HIDE DEF J
  <1>3. WorkFits(k, J)
    BY <1>1, <1>2 DEF WorkFits
  <1> QED BY <1>1, <1>2, <1>3 DEF J

LEMMA SyncTableStep ==
  ASSUME LifecycleInv, NEW k \in Keys, syncTable(k), UNCHANGED KindOf
  PROVE  LifecycleInv'
  <1> DEFINE o == cache[k]
             J == [pc |-> StepFor(o), copy |-> o]
  <1>1. /\ queue' = queue \ {k} /\ work[k].pc = "idle" /\ o \in TableObject
        /\ UNCHANGED <<ownerVars, apiVars, eventVars, tables, announced, boundVars, KindOf>>
        /\ work' = [work EXCEPT ![k] = IF StepFor(o) = "idle" THEN Idle ELSE J]
    BY KeyTypes DEF syncTable, LifecycleInv
  <1>2. RestTypes'
    BY <1>1, RestOfTypes DEF LifecycleInv, RestTypes, ownerVars, boundVars
  <1>3. KeyOK(k, obj[k], o, watch[k], work[k], nextUid)
    BY DEF LifecycleInv, KeySound
  <1>4. CASE StepFor(o) = "idle"
    <2>1. KeyOK(k, obj[k], o, watch[k], Idle, nextUid)
      BY <1>3, KeyIdle, KeyTypes, NextUidIsPositive DEF LifecycleInv
    <2>2. k[1] = "presto" \/ KindOf[k[2]] = "hive" \/ Idle = work[k]
      <3>1. k[2] \in Tables /\ (k = <<"hive", k[2]>> \/ k[1] = "presto")
        BY KeyParts
      <3> QED BY <3>1 DEF LifecycleInv, NoHiveTable
    <2> QED BY <1>1, <1>2, <1>4, <2>1, <2>2, NothingTypes, WorkStep DEF apiVars, eventVars, boundVars
  <1>5. CASE StepFor(o) # "idle"
    <2>1. J \in TableWork /\ WorkFits(k, J) /\ J.pc \in {"drop", "addFinalizer", "create"}
          /\ J.copy = o
      BY <1>1, <1>5, StepForFits
    <2>2. o.phase # "absent"
      BY <1>5 DEF StepFor
    <2>3. work' = [work EXCEPT ![k] = J]
      BY <1>1, <1>5
    <2> HIDE DEF o, J
    <2>4. Lagging(obj[k], o, nextUid)
      BY <1>3 DEF KeyOK, CopiesLag
    <2>5. KeyOK(k, obj[k], o, watch[k], J, nextUid)
      BY <1>3, <2>1, <2>4, KeyWorked
    <2> QED BY <1>1, <1>2, <2>1, <2>2, <2>3, <2>5, BusyKey, WorkStep DEF o, apiVars, eventVars, boundVars
  <1> QED BY <1>4, <1>5

LEMMA AddFinalizerStep ==
  ASSUME LifecycleInv, NEW k \in Keys, addFinalizer(k), UNCHANGED KindOf
  PROVE  LifecycleInv'
  <1> DEFINE c == work[k].copy
             o == [c EXCEPT !.finalizer = TRUE]
             J == IF StepFor(o) = "idle" THEN Idle ELSE [pc |-> StepFor(o), copy |-> o]
  <1>1. /\ work[k].pc = "addFinalizer" /\ c.phase = "live" /\ c \in TableObject
        /\ UNCHANGED <<ownerVars, eventVars, tables, announced, boundVars, KindOf>>
    BY KeyTypes DEF addFinalizer, LifecycleInv, KeySound, KeyOK, WorkFits
  <1>2. CASE ~updateAccepted(k)
    <2>1. UNCHANGED apiVars /\ Fail(k) /\ faults' \in 0..MaxFaults
      BY <1>1, <1>2 DEF addFinalizer, LifecycleInv, TypeOK, boundVars
    <2> QED BY <1>1, <2>1, EndStep DEF boundVars
  <1>3. CASE updateAccepted(k)
    <2>1. /\ o \in TableObject /\ o.phase = "live" /\ o.uid = c.uid /\ o.status = c.status
          /\ obj[k] = c
      BY <1>1, <1>3 DEF TableObject, updateAccepted
    <2>2. Put(k, o) /\ queue' = queue /\ work' = [work EXCEPT ![k] = J]
      BY <1>3 DEF addFinalizer, Done, Goto
    <2> HIDE DEF o
    <2>3. KeyOK(k, c, cache[k], watch[k], work[k], nextUid)
      BY <2>1 DEF LifecycleInv, KeySound
    <2>4. KeyOK(k, o, cache[k], Append(watch[k], o), work[k], nextUid)
      BY <1>1, <2>1, <2>3, KeyUpdated, KeyTypes, NextUidIsPositive DEF LifecycleInv
    <2>5. /\ J \in TableWork /\ J.pc # "putStatus"
          /\ KeyOK(k, o, cache[k], Append(watch[k], o), J, nextUid)
      <3>1. CASE StepFor(o) = "idle"
        BY <2>1, <2>4, <3>1, KeyIdle, NothingTypes, NextUidIsPositive DEF LifecycleInv
      <3>2. CASE StepFor(o) # "idle"
        <4>1. J \in TableWork /\ WorkFits(k, J) /\ J.pc \in {"drop", "addFinalizer", "create"}
              /\ J.copy = o
          BY <2>1, <3>2, StepForFits
        <4>2. Lagging(o, o, nextUid)
          BY <2>1, <2>4 DEF KeyOK, CopiesLag, Lagging
        <4> HIDE DEF J
        <4> QED BY <1>1, <2>1, <2>4, <4>1, <4>2, KeyWorked
      <3> QED BY <3>1, <3>2
    <2> HIDE DEF J
    <2>6. Stored(o) = o
      BY <2>1 DEF Stored
    <2>7. o.status => Unmanaged(k) \/ HasTable(k[2], o.uid)
      BY <1>1, <2>1 DEF LifecycleInv, TableSound
    <2>8. RestTypes'
      BY <1>1, <2>2, RestOfTypes DEF LifecycleInv, RestTypes, ownerVars, boundVars
    <2> QED BY <1>1, <2>1, <2>2, <2>5, <2>6, <2>7, <2>8, BusyKey, PutStep DEF eventVars, boundVars
  <1> QED BY <1>2, <1>3

(* A statement to Hive or Presto, and the next state of the worker.        *)
LEMMA TableStep ==
  ASSUME LifecycleInv, NEW k \in Keys, work[k].pc # "idle", NEW J \in TableWork,
         work' = [work EXCEPT ![k] = J], RestTypes',
         UNCHANGED <<obj, watch, cache, notify, nextUid, KindOf>>,
         J.copy = work[k].copy, WorkFits(k, J),
         tables' \in [Tables -> Uids \cup {Null}],
         \A t \in Tables : t # k[2] => tables'[t] = tables[t],
         Unmanaged(k) => tables' = tables, TableSound(k)'
  PROVE  LifecycleInv'
  <1>1. /\ work' \in [Keys -> [pc : Steps, copy : TableObject]] /\ work'[k] = J
        /\ \A j \in Keys : j # k => work'[j] = work[j]
    BY WorkFacts DEF LifecycleInv
  <1>2. TypeOK'
    BY <1>1 DEF LifecycleInv, TypeOK, RestTypes
  <1>3. \A j \in Keys : j # k => Same(j)
    BY <1>1 DEF Same
  <1>4. KeyOK(k, obj[k], cache[k], watch[k], work[k], nextUid)
    BY DEF LifecycleInv, KeySound
  <1>5. Lagging(obj[k], J.copy, nextUid)
    BY <1>4 DEF KeyOK, CopiesLag
  <1>6. KeyOK(k, obj[k], cache[k], watch[k], J, nextUid)
    BY <1>4, <1>5, KeyWorked
  <1>7. KeySound(k)'
    BY <1>1, <1>6 DEF KeySound
  <1>8. k[1] = "presto" \/ KindOf[k[2]] = "hive"
    BY BusyKey
  <1> QED BY <1>2, <1>3, <1>7, <1>8, OneKey

(* The copy of a worker of an object with a status is a copy of it.        *)
LEMMA BusyWithCurrent ==
  ASSUME LifecycleInv, NEW k \in Keys, work[k].pc # "idle", obj[k].phase = "live", obj[k].status
  PROVE  work[k].copy.uid = obj[k].uid /\ work[k].copy.phase = "live"
  BY DEF LifecycleInv, KeySound, KeyOK, NothingOlder, CopiesLag, Lagging

LEMMA GotoFits ==
  ASSUME LifecycleInv, NEW k \in Keys, NEW step \in Steps,
         step \in {"putStatus", "removeFinalizer"},
         step = "putStatus" => work[k].copy.phase = "live",
         step = "removeFinalizer" => work[k].copy.phase = "terminating"
  PROVE  /\ [pc |-> step, copy |-> work[k].copy] \in TableWork
         /\ WorkFits(k, [pc |-> step, copy |-> work[k].copy])
  BY KeyTypes DEF LifecycleInv, TableWork, WorkFits

LEMMA CreateHiveTableStep ==
  ASSUME LifecycleInv, NEW k \in Keys, createHiveTable(k), UNCHANGED KindOf
  PROVE  LifecycleInv'
  <1> DEFINE c == work[k].copy
             J == [pc |-> "putStatus", copy |-> c]
             t == k[2]
  <1>1. /\ k[1] = "hive" /\ work[k].pc = "create" /\ c.phase = "live" /\ c \in TableObject
        /\ t \in Tables /\ c.uid \in Uids
        /\ UNCHANGED <<ownerVars, apiVars, eventVars, announced, boundVars, KindOf>>
    BY KeyTypes, KeyParts, ObjectFields DEF createHiveTable, LifecycleInv, KeySound, KeyOK, WorkFits
  <1>2. J \in TableWork /\ WorkFits(k, J) /\ J.copy = c /\ J.pc = "putStatus"
    BY <1>1, GotoFits DEF Steps
  <1>3. work' = [work EXCEPT ![k] = J] /\ queue' = queue
    BY DEF createHiveTable, Goto
  <1>4. /\ tables' \in [Tables -> Uids \cup {Null}]
        /\ \A s \in Tables : s # t => tables'[s] = tables[s]
        /\ tables'[t] = IF tables[t] = Null THEN c.uid ELSE tables[t]
    BY <1>1 DEF createHiveTable, LifecycleInv, TypeOK
  <1>5. tables'[t] # Null /\ KindOf[t] = "hive" /\ ~Unmanaged(k)
    BY <1>1, <1>4, BusyKey, UidsAreNumbers DEF Unmanaged
  <1> HIDE DEF J, c
  <1>6. TableSound(k)'
    BY <1>1, <1>5 DEF TableSound, HasTable
  <1>7. RestTypes'
    BY <1>1, <1>3, RestOfTypes DEF LifecycleInv, RestTypes, ownerVars, boundVars
  <1> QED BY <1>1, <1>2, <1>3, <1>4, <1>5, <1>6, <1>7, TableStep DEF c, apiVars, eventVars, boundVars

LEMMA HandlePrestoTableStep ==
  ASSUME LifecycleInv, NEW k \in Keys, handlePrestoTable(k), UNCHANGED KindOf
  PROVE  LifecycleInv'
  <1> DEFINE c == work[k].copy
             J == [pc |-> "putStatus", copy |-> c]
             t == k[2]
  <1>1. /\ k[1] = "presto" /\ work[k].pc = "create" /\ c.phase = "live" /\ c \in TableObject
        /\ t \in Tables /\ c.uid \in Uids
        /\ UNCHANGED <<ownerVars, apiVars, eventVars, announced, boundVars, KindOf>>
    BY KeyTypes, KeyParts, ObjectFields DEF handlePrestoTable, LifecycleInv, KeySound, KeyOK, WorkFits
  <1>2. CASE UNCHANGED tables /\ Fail(k)
    <2>1. faults' \in 0..MaxFaults
      BY <1>1 DEF LifecycleInv, TypeOK, boundVars
    <2> QED BY <1>1, <1>2, <2>1, EndStep DEF boundVars
  <1>3. CASE /\ tables' = IF Unmanaged(k) THEN tables ELSE [tables EXCEPT ![t] = c.uid]
             /\ Goto(k, "putStatus", c)
    <2>1. J \in TableWork /\ WorkFits(k, J) /\ J.copy = c /\ J.pc = "putStatus"
      BY <1>1, GotoFits DEF Steps
    <2>2. work' = [work EXCEPT ![k] = J] /\ queue' = queue
      BY <1>3 DEF Goto
    <2>3. /\ tables' \in [Tables -> Uids \cup {Null}]
          /\ \A s \in Tables : s # t => tables'[s] = tables[s]
          /\ Unmanaged(k) => tables' = tables
          /\ ~Unmanaged(k) => tables'[t] = c.uid
      BY <1>1, <1>3 DEF LifecycleInv, TypeOK
    <2> HIDE DEF J
    <2>4. work'[k] = J
      BY <2>1, <2>2, WorkFacts DEF LifecycleInv
    <2>5. TableSound(k)'
      <3>1. CASE Unmanaged(k)
        BY <1>1, <3>1 DEF TableSound, Unmanaged
      <3>2. CASE ~Unmanaged(k)
        <4>1. tables'[t] = c.uid /\ c.uid # Null
          BY <1>1, <2>3, <3>2, UidsAreNumbers
        <4>2. obj[k].phase = "live" /\ obj[k].status => c.uid = obj[k].uid
          BY <1>1, BusyWithCurrent
        <4> QED BY <1>1, <2>1, <2>4, <4>1, <4>2 DEF TableSound, HasTable, apiVars
      <3> QED BY <3>1, <3>2
    <2>6. RestTypes'
      BY <1>1, <2>2, RestOfTypes DEF LifecycleInv, RestTypes, ownerVars, boundVars
    <2> QED BY <1>1, <2>1, <2>2, <2>3, <2>5, <2>6, TableStep DEF apiVars, eventVars, boundVars
  <1> QED BY <1>2, <1>3 DEF handlePrestoTable

(* A drop is for a copy that is being deleted: the stored object is not    *)
(* live, or has no status yet.                                             *)
LEMMA DropStep ==
  ASSUME LifecycleInv, NEW k \in Keys, dropForDeletion(k), UNCHANGED KindOf
  PROVE  LifecycleInv'
  <1> DEFINE c == work[k].copy
             J == [pc |-> "removeFinalizer", copy |-> c]
             t == k[2]
  <1>1. /\ work[k].pc = "drop" /\ c.phase = "terminating" /\ t \in Tables
        /\ UNCHANGED <<ownerVars, apiVars, eventVars, boundVars, KindOf>>
    BY KeyParts DEF dropForDeletion, LifecycleInv, KeySound, KeyOK, WorkFits
  <1>2. J \in TableWork /\ WorkFits(k, J) /\ J.copy = c /\ J.pc = "removeFinalizer"
    BY <1>1, GotoFits DEF Steps
  <1>3. work' = [work EXCEPT ![k] = J] /\ queue' = queue
    BY DEF dropForDeletion, Goto
  <1> HIDE DEF J
  <1>4. UNCHANGED <<tables, announced>> \/ (~Unmanaged(k) /\ Dropped(t))
    <2>1. k = <<"hive", t>> \/ (k[1] = "presto" /\ k = <<"presto", t>>)
      BY KeyParts
    <2>2. CASE k = <<"hive", t>>
      BY <2>2 DEF dropForDeletion, dropTable, dropHiveTable, Unmanaged
    <2>3. CASE k[1] = "presto" /\ k = <<"presto", t>>
      BY <2>3 DEF dropForDeletion, dropTable, dropPrestoTable
    <2> QED BY <2>1, <2>2, <2>3
  <1>5. /\ tables' \in [Tables -> Uids \cup {Null}] /\ announced' \in [Tables -> BOOLEAN]
        /\ \A s \in Tables : s # t => tables'[s] = tables[s]
        /\ Unmanaged(k) => tables' = tables
    <2>1. CASE UNCHANGED <<tables, announced>>
      BY <2>1 DEF LifecycleInv, TypeOK
    <2>2. CASE ~Unmanaged(k) /\ Dropped(t)
      BY <1>1, <2>2 DEF LifecycleInv, TypeOK, Dropped
    <2> QED BY <1>4, <2>1, <2>2
  <1>6. TableSound(k)'
    <2>1. ~(obj[k].phase = "live" /\ obj[k].status)
      BY <1>1, BusyWithCurrent
    <2>2. work'[k] = J
      BY <1>2, <1>3, WorkFacts DEF LifecycleInv
    <2> QED BY <1>1, <1>2, <2>1, <2>2 DEF TableSound, apiVars
  <1>7. RestTypes'
    BY <1>1, <1>3, <1>5, RestOfTypes DEF LifecycleInv, RestTypes, ownerVars, boundVars
  <1> QED BY <1>1, <1>2, <1>3, <1>5, <1>6, <1>7, TableStep DEF apiVars, eventVars, boundVars

LEMMA AnnounceType ==
  ASSUME LifecycleInv, NEW k \in Keys, Announce(k)
  PROVE  announced' \in [Tables -> BOOLEAN]
  <1>1. announced \in [Tables -> BOOLEAN]
    BY DEF LifecycleInv, TypeOK
  <1>2. (announced[k[2]] \/ ~Unmanaged(k)) \in BOOLEAN
    BY DEF Unmanaged
  <1>3. announced' = [announced EXCEPT ![k[2]] = (announced[k[2]] \/ ~Unmanaged(k))]
    BY DEF Announce
  <1> QED BY <1>1, <1>2, <1>3

(* The status is stored: the table has been created for this very copy.    *)
LEMMA PutStatusStep ==
  ASSUME LifecycleInv, NEW k \in Keys, UNCHANGED KindOf,
         putHiveTableStatus(k) \/ putPrestoTableStatus(k)
  PROVE  LifecycleInv'
  <1> DEFINE c == work[k].copy
             o == [c EXCEPT !.status = TRUE]
             J == IF k[1] = "hive" THEN [pc |-> "createPrestoTable", copy |-> o] ELSE Idle
  <1>1. /\ work[k].pc = "putStatus" /\ c.phase = "live" /\ c \in TableObject
        /\ UNCHANGED <<ownerVars, eventVars, tables, boundVars, KindOf>>
    BY KeyTypes DEF putHiveTableStatus, putPrestoTableStatus, LifecycleInv, KeySound, KeyOK, WorkFits
  <1>2. CASE ~updateAccepted(k)
    <2>1. UNCHANGED <<apiVars, announced>> /\ Fail(k) /\ faults' \in 0..MaxFaults
      BY <1>1, <1>2 DEF putHiveTableStatus, putPrestoTableStatus, LifecycleInv, TypeOK, boundVars
    <2> QED BY <1>1, <2>1, EndStep DEF boundVars
  <1>3. CASE updateAccepted(k)
    <2>1. o \in TableObject /\ o.phase = "live" /\ o.uid = c.uid /\ obj[k] = c
      BY <1>1, <1>3 DEF TableObject, updateAccepted
    <2>2. Put(k, o) /\ Announce(k) /\ queue' = queue /\ work' = [work EXCEPT ![k] = J]
      BY <1>3 DEF putHiveTableStatus, putPrestoTableStatus, Done, Goto
    <2> HIDE DEF o
    <2>3. KeyOK(k, c, cache[k], watch[k], work[k], nextUid)
      BY <2>1 DEF LifecycleInv, KeySound
    <2>4. KeyOK(k, o, cache[k], Append(watch[k], o), work[k], nextUid)
      BY <1>1, <2>1, <2>3, KeyUpdated, KeyTypes, NextUidIsPositive DEF LifecycleInv
    <2>5. /\ J \in TableWork /\ J.pc # "putStatus"
          /\ KeyOK(k, o, cache[k], Append(watch[k], o), J, nextUid)
      <3>1. CASE k[1] # "hive"
        BY <2>1, <2>4, <3>1, KeyIdle, NothingTypes, NextUidIsPositive DEF LifecycleInv
      <3>2. CASE k[1] = "hive"
        <4>1. J \in TableWork /\ J.pc = "createPrestoTable" /\ J.copy = o
          BY <2>1, <3>2 DEF TableWork, Steps
        <4> HIDE DEF J
        <4>2. WorkFits(k, J)
          BY <2>1, <3>2, <4>1 DEF WorkFits
        <4>3. Lagging(o, o, nextUid)
          BY <2>1, <2>4 DEF KeyOK, CopiesLag, Lagging
        <4> QED BY <1>1, <2>1, <2>4, <4>1, <4>2, <4>3, KeyWorked
      <3> QED BY <3>1, <3>2
    <2> HIDE DEF J
    <2>6. Stored(o) = o
      BY <2>1 DEF Stored
    <2>7. Unmanaged(k) \/ HasTable(k[2], o.uid)
      BY <1>1, <2>1 DEF LifecycleInv, TableSound
    <2>8. RestTypes'
      BY <1>1, <2>2, RestOfTypes, AnnounceType DEF LifecycleInv, RestTypes, ownerVars, boundVars
    <2> QED BY <1>1, <2>1, <2>2, <2>5, <2>6, <2>7, <2>8, BusyKey, PutStep DEF eventVars, boundVars
  <1> QED BY <1>2, <1>3

LEMMA RemoveFinalizerStep ==
  ASSUME LifecycleInv, NEW k \in Keys, removeFinalizer(k), UNCHANGED KindOf
  PROVE  LifecycleInv'
  <1> DEFINE c == work[k].copy
             o == [c EXCEPT !.finalizer = FALSE, !.phase = "absent"]
  <1>1. /\ work[k].pc = "removeFinalizer" /\ c.phase = "terminating" /\ c \in TableObject
        /\ UNCHANGED <<ownerVars, eventVars, tables, announced, boundVars, KindOf>>
    BY KeyTypes DEF removeFinalizer, LifecycleInv, KeySound, KeyOK, WorkFits
  <1>2. CASE UNCHANGED apiVars /\ (Done(k) \/ Fail(k))
    <2>1. faults' \in 0..MaxFaults
      BY <1>1 DEF LifecycleInv, TypeOK, boundVars
    <2> QED BY <1>1, <1>2, <2>1, EndStep DEF boundVars
  <1>3. CASE updateAccepted(k) /\ Put(k, o) /\ Done(k)
    <2>1. o \in TableObject /\ o.phase = "absent" /\ o.uid = c.uid /\ obj[k] = c
      BY <1>1, <1>3 DEF TableObject, updateAccepted
    <2>2. queue' = queue /\ work' = [work EXCEPT ![k] = Idle]
      BY <1>3 DEF Done
    <2> HIDE DEF o
    <2>3. KeyOK(k, c, cache[k], watch[k], work[k], nextUid)
      BY <2>1 DEF LifecycleInv, KeySound
    <2>4. KeyOK(k, NoObject, cache[k], Append(watch[k], o), work[k], nextUid)
      BY <1>1, <2>1, <2>3, KeyDeleted, KeyTypes, NextUidIsPositive DEF LifecycleInv
    <2>5. KeyOK(k, NoObject, cache[k], Append(watch[k], o), Idle, nextUid)
      BY <2>4, KeyIdle, NothingTypes, NextUidIsPositive DEF LifecycleInv
    <2>6. Stored(o) = NoObject
      BY <2>1 DEF Stored
    <2>7. RestTypes'
      BY <1>1, <2>2, RestOfTypes DEF LifecycleInv, RestTypes, ownerVars, boundVars
    <2> QED BY <1>1, <1>3, <2>1, <2>2, <2>5, <2>6, <2>7, BusyKey, NothingTypes, PutStep
            DEF eventVars, boundVars
  <1> QED BY <1>2, <1>3 DEF removeFinalizer

LEMMA CallFailsStep ==
  ASSUME LifecycleInv, NEW k \in Keys, callFails(k), UNCHANGED KindOf
  PROVE  LifecycleInv'
  <1>1. faults \in 0..MaxFaults /\ faults < MaxFaults /\ faults' = faults + 1
    BY DEF callFails, Fault, LifecycleInv, TypeOK
  <1>2. faults' \in 0..MaxFaults
    BY <1>1, LifecycleAssumption
  <1> QED BY <1>2, EndStep DEF callFails, Fault

-----------------------------------------------------------------------------
(* New objects                                                             *)

(* A new object of the key k, by anyone but the worker of k.               *)
LEMMA NewObjectStep ==
  ASSUME LifecycleInv, NEW k \in Keys, obj[k].phase = "absent", NEW t \in Tables, NewUid(t),
         NEW o, nextUid \in Uids => o \in TableObject,
         o.phase = "live", o.uid = nextUid, o.status = FALSE, Put(k, o),
         k[1] = "presto" \/ KindOf[k[2]] = "hive", owner' = owner,
         ownerSync' \in [Tables -> [pc : {"idle", "create", "waitHive", "waitPresto"}, uid : Uids]],
         UNCHANGED <<eventVars, queue, work, tables, announced, KindOf>>
  PROVE  LifecycleInv'
  <1>1. /\ nextUid' = nextUid + 1 /\ nextUid' \in Nat /\ nextUid \in Uids /\ nextUid' - 1 \in Uids
        /\ faults' = faults /\ nextUid \in Nat \ {0}
    BY NewUidFacts, NextUidIsPositive DEF LifecycleInv
  <1>2. o \in TableObject
    BY <1>1
  <1>3. KeyOK(k, obj[k], cache[k], watch[k], work[k], nextUid)
    BY DEF LifecycleInv, KeySound
  <1>4. KeyOK(k, o, cache[k], Append(watch[k], o), work[k], nextUid')
    BY <1>1, <1>2, <1>3, KeyCreated, KeyTypes DEF LifecycleInv
  <1>5. Stored(o) = o
    BY <1>2 DEF Stored
  <1>6. RestTypes'
    BY <1>1, RestOfTypes DEF LifecycleInv, RestTypes
  <1>7. work' = [work EXCEPT ![k] = work[k]] /\ work[k] \in TableWork
    BY KeyTypes DEF LifecycleInv, TypeOK
  <1>8. work[k].pc = "putStatus" => Unmanaged(k) \/ HasTable(k[2], work[k].copy.uid)
    BY DEF LifecycleInv, TableSound
  <1>9. KeyOK(k, Stored(o), cache[k], Append(watch[k], o), work[k], nextUid')
    BY <1>4, <1>5
  <1>10. UNCHANGED <<cache, notify, tables, KindOf>>
    BY DEF eventVars
  <1> QED BY <1>1, <1>2, <1>6, <1>7, <1>8, <1>9, <1>10, PutStep

LEMMA SyncTypes ==
  ASSUME LifecycleInv, NEW t \in Tables
  PROVE  /\ NoSync \in [pc : {"idle", "create", "waitHive", "waitPresto"}, uid : Uids]
         /\ \A step \in {"idle", "create", "waitHive", "waitPresto"} :
              SyncAt(t, step) => ownerSync' \in [Tables ->
                [pc : {"idle", "create", "waitHive", "waitPresto"}, uid : Uids]]
         /\ SyncEnds(t) => ownerSync' \in [Tables ->
                [pc : {"idle", "create", "waitHive", "waitPresto"}, uid : Uids]]
  <1>1. NoSync \in [pc : {"idle", "create", "waitHive", "waitPresto"}, uid : Uids]
    BY UidsAreNumbers DEF NoSync
  <1>2. ownerSync \in [Tables -> [pc : {"idle", "create", "waitHive", "waitPresto"}, uid : Uids]]
    BY DEF LifecycleInv, TypeOK
  <1> QED BY <1>1, <1>2 DEF SyncAt, SyncEnds

(* The sync of the owner creates the object, or finds one of its name.     *)
LEMMA CreateCRStep ==
  ASSUME LifecycleInv, NEW t \in Tables, createHiveTableCR(t) \/ createPrestoTableCR(t),
         UNCHANGED KindOf
  PROVE  LifecycleInv'
  <1> DEFINE k == IF KindOf[t] = "hive" THEN <<"hive", t>> ELSE <<"presto", t>>
             wait == IF KindOf[t] = "hive" THEN "waitHive" ELSE "waitPresto"
  <1>1. /\ k \in Keys /\ (k[1] = "presto" \/ KindOf[k[2]] = "hive") /\ k[2] = t
        /\ wait \in {"idle", "create", "waitHive", "waitPresto"}
    BY DEF Keys
  <1>2. /\ UNCHANGED <<owner, eventVars, queue, work, tables, announced, KindOf>>
        /\ (CreateObject(t, k) /\ SyncAt(t, wait)) \/ Adopt(t, k, wait)
    BY DEF createHiveTableCR, createPrestoTableCR
  <1> HIDE DEF k, wait
  <1>3. CASE CreateObject(t, k) /\ SyncAt(t, wait)
    <2>1. ownerSync' \in [Tables -> [pc : {"idle", "create", "waitHive", "waitPresto"}, uid : Uids]]
      BY <1>1, <1>3, SyncTypes
    <2>2. ownerSync[t].uid \in Uids
      BY DEF LifecycleInv, TypeOK
    <2> DEFINE o == [NoObject EXCEPT !.phase = "live", !.uid = nextUid,
                        !.owner = ownerSync[t].uid, !.finalizer = EnableFinalizers]
    <2>3. /\ nextUid \in Uids => o \in TableObject
          /\ o.phase = "live" /\ o.uid = nextUid /\ o.status = FALSE
      BY <2>2, LifecycleAssumption DEF NoObject, TableObject
    <2>4. obj[k].phase = "absent" /\ NewUid(t) /\ Put(k, o)
      BY <1>3 DEF CreateObject
    <2> HIDE DEF o
    <2> QED BY <1>1, <1>2, <2>1, <2>3, <2>4, NewObjectStep
  <1>4. CASE Adopt(t, k, wait)
    <2>1. ownerSync' \in [Tables -> [pc : {"idle", "create", "waitHive", "waitPresto"}, uid : Uids]]
      BY <1>1, <1>4, SyncTypes DEF Adopt
    <2>2. UNCHANGED <<apiVars, boundVars>>
      BY <1>4 DEF Adopt
    <2>3. TypeOK'
      BY <1>2, <2>1, <2>2 DEF LifecycleInv, TypeOK, apiVars, eventVars, boundVars
    <2> QED BY <1>2, <2>2, <2>3, NoKey DEF apiVars, eventVars, boundVars
  <1> QED BY <1>2, <1>3, <1>4

LEMMA CreateResourceStep ==
  ASSUME LifecycleInv, NEW t \in Tables, createTableResource(t), UNCHANGED KindOf
  PROVE  LifecycleInv'
  <1> DEFINE k == <<"presto", t>>
  <1>1. k \in Keys /\ k[1] = "presto"
    BY DEF Keys
  <1> DEFINE o == [NoObject EXCEPT !.phase = "live", !.uid = nextUid]
  <1>2. /\ nextUid \in Uids => o \in TableObject
        /\ o.phase = "live" /\ o.uid = nextUid /\ o.status = FALSE
    BY UidsAreNumbers DEF NoObject, TableObject
  <1>3. ownerSync \in [Tables -> [pc : {"idle", "create", "waitHive", "waitPresto"}, uid : Uids]]
    BY DEF LifecycleInv, TypeOK
  <1>4. /\ obj[k].phase = "absent" /\ NewUid(t) /\ Put(k, o)
        /\ UNCHANGED <<ownerVars, eventVars, queue, work, tables, announced>>
    BY DEF createTableResource
  <1> HIDE DEF k, o
  <1> QED BY <1>1, <1>2, <1>3, <1>4, NewObjectStep DEF ownerVars

(* handleHiveTable creates the PrestoTable: two keys change.  Between the  *)
(* two, seen from the keys, nothing else can be told apart.                *)
LEMMA CreatePrestoTableStep ==
  ASSUME LifecycleInv, NEW k \in Keys, createPrestoTable(k), UNCHANGED KindOf
  PROVE  LifecycleInv'
  <1> DEFINE p == <<"presto", k[2]>>
  <1>1. /\ work[k].pc = "createPrestoTable" /\ k[1] = "hive" /\ k[2] \in Tables
        /\ work[k].copy.uid \in Uids
        /\ UNCHANGED <<ownerVars, eventVars, tables, announced, KindOf>>
    BY KeyParts, KeyTypes, ObjectFields
    DEF createPrestoTable, LifecycleInv, KeySound, KeyOK, WorkFits
  <1>2. p \in Keys /\ p # k /\ p[1] = "presto" /\ p[2] = k[2]
    BY <1>1 DEF Keys
  <1>3. CASE Fail(k) /\ UNCHANGED <<apiVars, boundVars>>
    <2>1. faults' \in 0..MaxFaults
      BY <1>3 DEF LifecycleInv, TypeOK, boundVars
    <2> QED BY <1>1, <1>3, <2>1, EndStep DEF boundVars
  <1> DEFINE o == [NoObject EXCEPT !.phase = "live", !.uid = nextUid, !.owner = work[k].copy.uid]
  <1>4. CASE obj[p].phase = "absent" /\ NewUid(k[2]) /\ Put(p, o) /\ Done(k)
    <2>1. /\ nextUid' = nextUid + 1 /\ nextUid' \in Nat /\ nextUid \in Uids /\ nextUid' - 1 \in Uids
          /\ faults' = faults /\ nextUid \in Nat \ {0}
      BY <1>1, <1>4, NewUidFacts, NextUidIsPositive DEF LifecycleInv
    <2>2. o \in TableObject /\ o.phase = "live" /\ o.uid = nextUid /\ o.status = FALSE
      BY <1>1, <2>1 DEF NoObject, TableObject
    <2> HIDE DEF o, p
    <2>3. Stored(o) = o
      BY <2>2 DEF Stored
    <2>4. /\ obj' \in [Keys -> TableObject] /\ watch' \in [Keys -> Seq(TableObject)]
          /\ obj'[p] = o /\ watch'[p] = Append(watch[p], o)
          /\ \A j \in Keys : j # p => obj'[j] = obj[j] /\ watch'[j] = watch[j]
      BY <1>2, <1>4, <2>2, <2>3, PutFacts DEF LifecycleInv
    <2>5. /\ work' \in [Keys -> [pc : Steps, copy : TableObject]] /\ work'[k] = Idle
          /\ \A j \in Keys : j # k => work'[j] = work[j]
      BY <1>4, NothingTypes, WorkFacts DEF LifecycleInv, Done
    <2>6. queue' = queue /\ UNCHANGED <<cache, notify, tables, owner, ownerSync, announced, KindOf>>
      BY <1>1, <1>4 DEF Done, eventVars, ownerVars
    <2>7. TypeOK'
      BY <2>1, <2>4, <2>5, <2>6 DEF LifecycleInv, TypeOK
    <2>8. ASSUME NEW j \in Keys
          PROVE  KeySound(j)'
      <3>1. KeyOK(j, obj[j], cache[j], watch[j], work[j], nextUid) /\ work[j] \in TableWork
            /\ obj[j] \in TableObject /\ cache[j] \in TableObject /\ watch[j] \in Seq(TableObject)
        BY KeyTypes DEF LifecycleInv, KeySound
      <3>2. KeyOK(j, obj[j], cache[j], watch[j], work'[j], nextUid) /\ work'[j] \in TableWork
        <4>1. CASE j = k
          BY <2>1, <2>5, <3>1, <4>1, KeyIdle, NothingTypes
        <4>2. CASE j # k
          BY <2>5, <3>1, <4>2
        <4> QED BY <4>1, <4>2
      <3>3. CASE j = p
        <4>1. KeyOK(p, o, cache[p], Append(watch[p], o), work'[p], nextUid + 1)
          BY <2>1, <2>2, <3>1, <3>2, <3>3, KeyCreated
        <4> QED BY <2>1, <2>4, <2>6, <3>3, <4>1 DEF KeySound
      <3>4. CASE j # p
        <4>1. KeyOK(j, obj[j], cache[j], watch[j], work'[j], nextUid + 1)
          BY <2>1, <3>1, <3>2, KeyLater
        <4> QED BY <2>1, <2>4, <2>6, <3>4, <4>1 DEF KeySound
      <3> QED BY <3>3, <3>4
    <2>9. ASSUME NEW j \in Keys
          PROVE  TableSound(j)'
      <3>1. /\ work'[j].pc = "putStatus" => work'[j] = work[j]
            /\ obj'[j].phase = "live" /\ obj'[j].status => obj'[j] = obj[j]
        BY <2>2, <2>4, <2>5, NothingTypes
      <3> QED BY <2>6, <3>1 DEF LifecycleInv, TableSound, HasTable, Unmanaged
    <2>10. ASSUME NEW t \in Tables
           PROVE  NoHiveTable(t)'
      <3>1. <<"hive", t>> \in Keys /\ <<"hive", t>> # p
        BY <1>2 DEF Keys
      <3>2. CASE <<"hive", t>> = k
        <4>1. KindOf[t] = "hive"
          BY <1>1, <3>1, <3>2, BusyKey
        <4> QED BY <2>6, <4>1 DEF NoHiveTable
      <3>3. CASE <<"hive", t>> # k
        BY <2>4, <2>5, <2>6, <3>1, <3>3 DEF LifecycleInv, NoHiveTable
      <3> QED BY <3>2, <3>3
    <2> QED BY <2>7, <2>8, <2>9, <2>10 DEF LifecycleInv
  <1> QED BY <1>3, <1>4 DEF createPrestoTable

-----------------------------------------------------------------------------
(* Deletions, restarts and the owner                                       *)

LEMMA RemovedFacts ==
  ASSUME NEW o \in TableObject
  PROVE  /\ Removed(o) \in TableObject /\ Removed(o).phase \in {"terminating", "absent"}
         /\ Removed(o).uid = o.uid /\ Removed(o).status = o.status
  BY DEF Removed, TableObject

LEMMA RemoveStep ==
  ASSUME LifecycleInv, NEW k \in Keys, obj[k].phase = "live", Put(k, Removed(obj[k])),
         UNCHANGED <<ownerVars, eventVars, queue, work, tables, announced, boundVars, KindOf>>
  PROVE  LifecycleInv'
  <1> DEFINE o == Removed(obj[k])
  <1>1. /\ o \in TableObject /\ o.phase \in {"terminating", "absent"}
        /\ o.uid = obj[k].uid /\ o.status = obj[k].status
    BY KeyTypes, RemovedFacts DEF LifecycleInv
  <1>2. Put(k, o)
    OBVIOUS
  <1> HIDE DEF o
  <1>3. KeyOK(k, obj[k], cache[k], watch[k], work[k], nextUid)
    BY DEF LifecycleInv, KeySound
  <1>4. KeyOK(k, Stored(o), cache[k], Append(watch[k], o), work[k], nextUid)
    <2>1. CASE o.phase = "absent"
      <3>1. Stored(o) = NoObject
        BY <2>1 DEF Stored
      <3> QED BY <1>1, <1>3, <3>1, KeyDeleted, KeyTypes, NextUidIsPositive DEF LifecycleInv
    <2>2. CASE o.phase = "terminating"
      <3>1. Stored(o) = o
        BY <2>2 DEF Stored
      <3> QED BY <1>1, <1>3, <2>2, <3>1, KeyUpdated, KeyTypes, NextUidIsPositive DEF LifecycleInv
    <2> QED BY <1>1, <2>1, <2>2
  <1>5. RestTypes'
    BY RestOfTypes DEF LifecycleInv, RestTypes, ownerVars, boundVars
  <1>6. work' = [work EXCEPT ![k] = work[k]] /\ work[k] \in TableWork
    BY KeyTypes DEF LifecycleInv, TypeOK
  <1>7. work[k].pc = "putStatus" => Unmanaged(k) \/ HasTable(k[2], work[k].copy.uid)
    BY DEF LifecycleInv, TableSound
  <1> QED BY <1>1, <1>2, <1>4, <1>5, <1>6, <1>7, BusyKey, PutStep DEF eventVars, boundVars

LEMMA DeletionSteps ==
  ASSUME LifecycleInv, UNCHANGED KindOf,
         \/ \E t \in Tables : deleteTableResource(t)
         \/ \E k \in Keys : collectGarbage(k)
  PROVE  LifecycleInv'
  <1>1. ASSUME NEW t \in Tables, deleteTableResource(t)
        PROVE  LifecycleInv'
    <2> DEFINE k == <<"presto", t>>
    <2>1. k \in Keys /\ obj[k].phase = "live" /\ Put(k, Removed(obj[k]))
          /\ UNCHANGED <<ownerVars, eventVars, queue, work, tables, announced, boundVars>>
      BY <1>1 DEF Keys, deleteTableResource
    <2> HIDE DEF k
    <2> QED BY <2>1, RemoveStep
  <1>2. ASSUME NEW k \in Keys, collectGarbage(k)
        PROVE  LifecycleInv'
    BY <1>2, RemoveStep DEF collectGarbage
  <1> QED BY <1>1, <1>2

(* A new process has the stored objects, and no events and no work.        *)
LEMMA RestartStep ==
  ASSUME LifecycleInv, restart, UNCHANGED KindOf
  PROVE  LifecycleInv'
  <1>1. faults' \in 0..MaxFaults
    <2>1. faults \in 0..MaxFaults /\ faults < MaxFaults /\ faults' = faults + 1
      BY DEF restart, LifecycleInv, TypeOK
    <2> QED BY <2>1, LifecycleAssumption
  <1>2. /\ ownerSync' \in [Tables -> [pc : {"idle", "create", "waitHive", "waitPresto"}, uid : Uids]]
    <2>1. NoSync \in [pc : {"idle", "create", "waitHive", "waitPresto"}, uid : Uids]
      BY UidsAreNumbers DEF NoSync
    <2> QED BY <2>1 DEF restart
  <1>3. /\ work' \in [Keys -> [pc : Steps, copy : TableObject]] /\ \A k \in Keys : work'[k] = Idle
    BY NothingTypes DEF restart, TableWork
  <1>4. /\ << >> \in Seq(TableObject) /\ watch' \in [Keys -> Seq(TableObject)]
        /\ notify' \in [Keys -> Seq(TableObject)] /\ \A k \in Keys : watch'[k] = << >>
    BY DEF restart
  <1>5. UNCHANGED <<owner, obj, tables, announced, nextUid, KindOf>> /\ cache' = obj /\ queue' \subseteq Keys
    BY DEF restart
  <1>6. TypeOK'
    BY <1>1, <1>2, <1>3, <1>4, <1>5 DEF LifecycleInv, TypeOK
  <1>7. ASSUME NEW k \in Keys
        PROVE  KeySound(k)'
    <2>1. KeyOK(k, obj[k], cache[k], watch[k], work[k], nextUid) /\ obj[k] \in TableObject
      BY KeyTypes DEF LifecycleInv, KeySound
    <2>2. KeyOK(k, obj[k], cache[k], watch[k], Idle, nextUid)
      BY <2>1, KeyIdle, NextUidIsPositive DEF LifecycleInv
    <2>3. Lagging(obj[k], obj[k], nextUid)
      BY <2>1 DEF KeyOK, CopiesLag, Lagging
    <2>4. CopiesLag(obj[k], obj[k], << >>, Idle, nextUid)
      BY <2>2, <2>3 DEF KeyOK, CopiesLag
    <2>5. NothingOlder(obj[k], obj[k], << >>, Idle)
      BY <2>2, NothingTypes DEF KeyOK, NothingOlder
    <2>6. KeyOK(k, obj[k], obj[k], << >>, Idle, nextUid)
      BY <2>2, <2>4, <2>5 DEF KeyOK
    <2> QED BY <1>3, <1>4, <1>5, <2>6 DEF KeySound
  <1>8. ASSUME NEW k \in Keys
        PROVE  TableSound(k)'
    BY <1>3, <1>5, NothingTypes DEF LifecycleInv, TableSound, HasTable, Unmanaged
  <1>9. ASSUME NEW t \in Tables
        PROVE  NoHiveTable(t)'
    <2>1. <<"hive", t>> \in Keys
      BY DEF Keys
    <2> QED BY <1>3, <1>4, <1>5, <2>1 DEF LifecycleInv, NoHiveTable
  <1> QED BY <1>6, <1>7, <1>8, <1>9 DEF LifecycleInv

(* What only concerns the owner leaves every key alone.                    *)
LEMMA OwnerSteps ==
  ASSUME LifecycleInv, NEW t \in Tables, UNCHANGED KindOf,
         \/ createOwner(t) \/ deleteOwner(t) \/ removeOwnerFinalizer(t) \/ syncOwner(t)
         \/ waitForHiveTable(t) \/ waitForPrestoTable(t) \/ waitTimesOut(t)
  PROVE  LifecycleInv'
  <1> DEFINE Syncs == [Tables -> [pc : {"idle", "create", "waitHive", "waitPresto"}, uid : Uids]]
  <1>1. /\ owner \in [Tables -> Owner] /\ ownerSync \in Syncs /\ owner[t] \in Owner
        /\ owner[t].uid \in Uids /\ owner[t].phase \in {"absent", "live", "terminating"}
    BY DEF LifecycleInv, TypeOK, Owner
  <1>2. UNCHANGED <<apiVars, eventVars, queue, work, tables, announced, KindOf>>
    BY DEF createOwner, deleteOwner, removeOwnerFinalizer, syncOwner, waitForHiveTable,
           waitForPrestoTable, waitTimesOut
  <1>3. /\ nextUid' = nextUid \/ nextUid' = nextUid + 1
        /\ nextUid' \in Nat /\ nextUid' - 1 \in Uids /\ faults' \in 0..MaxFaults
    <2>1. CASE createOwner(t)
      BY <2>1, NewUidFacts DEF createOwner, LifecycleInv, TypeOK
    <2>2. CASE UNCHANGED boundVars
      BY <2>2 DEF LifecycleInv, TypeOK, boundVars
    <2> QED BY <2>1, <2>2 DEF deleteOwner, removeOwnerFinalizer, syncOwner, waitForHiveTable,
               waitForPrestoTable, waitTimesOut
  <1>4. ownerSync' \in Syncs
    <2>1. CASE syncOwner(t)
      <3>1. [pc |-> "create", uid |-> owner[t].uid] \in
              [pc : {"idle", "create", "waitHive", "waitPresto"}, uid : Uids]
        BY <1>1
      <3> QED BY <1>1, <2>1, <3>1 DEF syncOwner
    <2>2. CASE waitForHiveTable(t)
      BY <2>2, SyncTypes DEF waitForHiveTable
    <2>3. CASE waitForPrestoTable(t) \/ waitTimesOut(t)
      BY <2>3, SyncTypes DEF waitForPrestoTable, waitTimesOut
    <2>4. CASE ownerSync' = ownerSync
      BY <1>1, <2>4
    <2> QED BY <2>1, <2>2, <2>3, <2>4 DEF createOwner, deleteOwner, removeOwnerFinalizer
  <1>5. owner' \in [Tables -> Owner]
    <2>1. CASE createOwner(t)
      <3>1. nextUid \in Uids
        BY <2>1, NewUidFacts DEF createOwner, LifecycleInv
      <3>2. [NoOwner EXCEPT !.phase = "live", !.uid = nextUid] \in Owner
        BY <3>1 DEF NoOwner, Owner
      <3> QED BY <1>1, <2>1, <3>2 DEF createOwner
    <2>2. CASE deleteOwner(t)
      <3>1. [owner[t] EXCEPT !.phase = IF owner[t].finalizer THEN "terminating" ELSE "absent"] \in Owner
        BY <1>1 DEF Owner
      <3> QED BY <1>1, <2>2, <3>1 DEF deleteOwner
    <2>3. CASE removeOwnerFinalizer(t)
      <3>1. [[owner[t] EXCEPT !.phase = "absent"] EXCEPT !.finalizer = FALSE] \in Owner
        BY <1>1 DEF Owner
      <3> QED BY <1>1, <2>3, <3>1 DEF removeOwnerFinalizer
    <2>4. CASE syncOwner(t)
      <3>1. [owner[t] EXCEPT !.finalizer = EnableFinalizers] \in Owner
        BY <1>1, LifecycleAssumption DEF Owner
      <3> QED BY <1>1, <2>4, <3>1 DEF syncOwner
    <2>5. CASE waitForPrestoTable(t)
      <3>1. (owner[t].phase # "absent") \in BOOLEAN
        OBVIOUS
      <3>2. [owner[t] EXCEPT !.ref = owner[t].phase # "absent"] \in Owner
        BY <1>1, <3>1 DEF Owner
      <3> QED BY <1>1, <2>5, <3>2 DEF waitForPrestoTable
    <2>6. CASE owner' = owner
      BY <1>1, <2>6
    <2> QED BY <2>1, <2>2, <2>3, <2>4, <2>5, <2>6 DEF waitForHiveTable, waitTimesOut
  <1>6. TypeOK'
    BY <1>2, <1>3, <1>4, <1>5 DEF LifecycleInv, TypeOK, apiVars, eventVars
  <1> QED BY <1>2, <1>3, <1>6, NoKey DEF apiVars, eventVars

-----------------------------------------------------------------------------
(* The invariant                                                           *)

LEMMA InitialState ==
  ASSUME Init
  PROVE  LifecycleInv
  <1>1. NoOwner \in Owner /\ NoSync \in [pc : {"idle", "create", "waitHive", "waitPresto"}, uid : Uids]
    BY UidsAreNumbers DEF NoOwner, Owner, NoSync
  <1>2. << >> \in Seq(TableObject) /\ Idle \in [pc : Steps, copy : TableObject]
    BY NothingTypes DEF TableWork
  <1>3. TypeOK
    <2>1. nextUid \in Nat /\ nextUid - 1 \in Uids /\ faults \in 0..MaxFaults
      BY UidsAreNumbers, LifecycleAssumption DEF Init
    <2> QED BY <1>1, <1>2, <2>1, NothingTypes DEF Init, TypeOK
  <1>4. ASSUME NEW k \in Keys
        PROVE  KeySound(k) /\ TableSound(k)
    <2>1. /\ obj[k] = NoObject /\ cache[k] = NoObject /\ watch[k] = << >> /\ work[k] = Idle
          /\ nextUid = 1
      BY DEF Init
    <2>2. Lagging(NoObject, NoObject, 1)
      BY NothingTypes DEF Lagging
    <2>3. CopiesLag(NoObject, NoObject, << >>, Idle, 1) /\ NothingOlder(NoObject, NoObject, << >>, Idle)
      BY <2>2, NothingTypes DEF CopiesLag, NothingOlder
    <2>4. KeyOK(k, NoObject, NoObject, << >>, Idle, 1)
      BY <2>3, IdleFits DEF KeyOK
    <2> QED BY <2>1, <2>4, NothingTypes DEF KeySound, TableSound
  <1>5. \A t \in Tables : NoHiveTable(t)
    BY DEF Init, NoHiveTable, Keys
  <1> QED BY <1>3, <1>4, <1>5 DEF LifecycleInv

LEMMA Stuttering ==
  ASSUME LifecycleInv, UNCHANGED <<vars, KindOf>>
  PROVE  LifecycleInv'
  <1>1. TypeOK'
    BY DEF LifecycleInv, TypeOK, vars, ownerVars, apiVars, eventVars, boundVars
  <1> QED BY <1>1, NoKey DEF vars, apiVars, eventVars, boundVars

LEMMA WorkerSteps ==
  ASSUME LifecycleInv, NEW k \in Keys, WorkerStep(k), UNCHANGED KindOf
  PROVE  LifecycleInv'
  BY SyncTableStep, AddFinalizerStep, CreateHiveTableStep, HandlePrestoTableStep, PutStatusStep,
     CreatePrestoTableStep, DropStep, RemoveFinalizerStep DEF WorkerStep

LEMMA EveryStep ==
  ASSUME LifecycleInv, EnableFinalizers, Next
  PROVE  LifecycleInv'
  <1>1. ASSUME NEW t \in Tables,
               \/ createOwner(t) \/ deleteOwner(t) \/ OwnerStep(t) \/ waitTimesOut(t)
               \/ createTableResource(t) \/ deleteTableResource(t)
        PROVE  LifecycleInv'
    BY <1>1, OwnerSteps, CreateCRStep, CreateResourceStep, DeletionSteps DEF Next, OwnerStep
  <1>2. ASSUME NEW k \in Keys,
               \/ receive(k) \/ handleHiveTableEvent(k) \/ handlePrestoTableEvent(k)
               \/ resync(k) \/ WorkerStep(k) \/ collectGarbage(k) \/ callFails(k)
        PROVE  LifecycleInv'
    BY <1>2, ReceiveStep, HandleEventStep, ResyncStep, WorkerSteps, DeletionSteps, CallFailsStep DEF Next
  <1>3. CASE restart
    BY <1>3, RestartStep DEF Next
  <1> QED BY <1>1, <1>2, <1>3 DEF Next

(* Every copy of an object lags behind it, nothing older is seen after it, *)
(* and the table is there when a status names it or is about to.  The      *)
(* finalizers are what keeps an object from being followed by another of   *)
(* its name while its table is still to be dropped.                        *)
THEOREM LifecycleInvariant ==
  ASSUME EnableFinalizers
  PROVE  Spec => []LifecycleInv
  <1>1. Init => LifecycleInv
    BY InitialState
  <1>2. LifecycleInv /\ [Next]_<<vars, KindOf>> => LifecycleInv'
    BY EveryStep, Stuttering
  <1> QED BY <1>1, <1>2, PTL DEF Spec

(* Where finalizers are enabled, a HiveTable or managed PrestoTable that   *)
(* is live and names its table in its status has that table, and a view is *)
(* the one created for it: no late drop for an earlier object of the name, *)
(* no conflict, failed call or restart of the HiveTable and PrestoTable    *)
(* controllers (hivetables.go, prestotables.go) takes it away.             *)
THEOREM TablesOutliveTheirStatus ==
  ASSUME EnableFinalizers
  PROVE  Spec => []StatusMeansTable
  <1>1. LifecycleInv => StatusMeansTable
    <2> SUFFICES ASSUME LifecycleInv
                 PROVE  StatusMeansTable
      OBVIOUS
    <2>1. ASSUME NEW k \in Keys, obj[k].phase = "live" /\ obj[k].status /\ ~Unmanaged(k)
          PROVE  tables[k[2]] # Null /\ (KindOf[k[2]] = "view" => tables[k[2]] = obj[k].uid)
      BY <2>1 DEF LifecycleInv, TableSound, HasTable
    <2> QED BY <2>1 DEF LifecycleInv, StatusMeansTable
  <1> QED BY <1>1, LifecycleInvariant, PTL
=============================================================================
