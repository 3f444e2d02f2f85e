--------------------- MODULE BRReplicatedKVStoreProofs ---------------------
(***************************************************************************)
(* Theorems about BRReplicatedKVStore, for any number of devices and keys, *)
(* any number of writes, syncs and faults.                                 *)
(***************************************************************************)
EXTENDS BRReplicatedKVStore, TLAPS

(***************************************************************************)
(* Type correctness.                                                       *)
(***************************************************************************)
Objects == [version : Nat, write : 0..MaxWrites, time : 0..MaxTime, deleted : BOOLEAN]
Tasks ==
    [stage : {"idle", "ver", "keys", "listed", "known", "remove", "sent", "answered", "stored"},
     op : {"none", "put", "del", "get"}, localVer : Nat, remoteVer : Nat, remoteTime : 0..MaxTime,
     err : {"nil", "tombstone", "unknown", "conflict"}, write : 0..MaxWrites]
LateRequests == [op : {"put", "del"}, key : Keys, remoteVer : Nat, write : 0..MaxWrites]

\* A sync that is not running is a task, and so is what is known of an object when a sync starts; a ver
\* answer gives the time of an object in whole seconds.
LEMMA TaskTypes ==
    /\ NoTask \in Tasks
    /\ \A o \in Objects, time \in 0..MaxTime : RemoteHead(o, time) \in Tasks
    /\ \A time \in 0..MaxTime : time - (time % Second) \in 0..MaxTime
<1>1. NoTask \in Tasks
  BY StoreAssumption DEF NoTask, Tasks
<1>2. ASSUME NEW o \in Objects, NEW time \in 0..MaxTime PROVE RemoteHead(o, time) \in Tasks
  <2> DEFINE e == IF o.deleted THEN "tombstone" ELSE "nil"
  <2>1. e \in {"nil", "tombstone", "unknown", "conflict"} /\ o.version \in Nat /\ 0 \in 0..MaxWrites
    BY StoreAssumption DEF Objects
  <2>2. RemoteHead(o, time) = [NoTask EXCEPT !.remoteVer = o.version, !.remoteTime = time, !.err = e]
    BY DEF RemoteHead
  <2> HIDE DEF e
  <2> QED BY <1>1, <2>1, <2>2 DEF Tasks
<1>3. ASSUME NEW time \in 0..MaxTime PROVE time - (time % Second) \in 0..MaxTime
  <2>1. Second \in Nat /\ Second > 0 /\ MaxTime \in Nat /\ time \in Nat /\ time <= MaxTime
    BY StoreAssumption
  <2>2. time % Second \in 0..time
    BY <2>1, SMT
  <2> QED BY <2>1, <2>2
<1> QED BY <1>1, <1>2, <1>3

\* Rows that the transactions insert are rows.
LEMMA RowTypes ==
    ASSUME clock \in Second..MaxTime
    PROVE  \A row \in Rows :
              /\ \A write \in 0..MaxWrites : SetRow(row, write) \in Rows
              /\ DelRow(row) \in Rows
              /\ \A l, r \in Nat : RemoteVersionRow(row, l, r) \in Rows
<1> SUFFICES ASSUME NEW row \in Rows
             PROVE  /\ \A write \in 0..MaxWrites : SetRow(row, write) \in Rows
                    /\ DelRow(row) \in Rows
                    /\ \A l, r \in Nat : RemoteVersionRow(row, l, r) \in Rows
  OBVIOUS
<1>1. /\ clock \in 0..MaxTime /\ row.version + 1 \in Nat /\ row.write \in 0..MaxWrites /\ row.time \in 0..MaxTime
      /\ row.version \in Nat /\ row.remote \in Nat
  BY StoreAssumption DEF Rows
<1>2. row.deleted \in BOOLEAN
  BY DEF Rows
<1>3. \A write \in 0..MaxWrites : SetRow(row, write) \in Rows
  BY <1>1 DEF Rows, SetRow
<1>4. DelRow(row) \in Rows
  BY <1>1 DEF Rows, DelRow
<1>5. \A l, r \in Nat : RemoteVersionRow(row, l, r) \in Rows
  BY <1>1, <1>2 DEF Rows, RemoteVersionRow
<1> QED BY <1>3, <1>4, <1>5

\* What the server makes of a request is an object.
LEMMA ChangedType ==
    ASSUME clock \in Second..MaxTime, server \in [Keys -> Objects], NEW k \in Keys,
           NEW r, r.write \in 0..MaxWrites
    PROVE  Changed(k, r) \in Objects
  BY StoreAssumption DEF Changed, Objects

\* Requests that were given up keep their types.
LEMMA AbandonedType ==
    ASSUME task \in [Devices -> [Keys -> Tasks]], NEW d \in Devices, NEW S \in SUBSET Keys
    PROVE  Abandoned(S, d) \subseteq LateRequests
  BY DEF Abandoned, LateRequests, Tasks

\* One sync moves on: its row and its task change, and the mode of its device.
LEMMA StepType ==
    ASSUME TypeOK, NEW d \in Devices, NEW k \in Keys, NEW row \in Rows, NEW t \in Tasks,
           local' = local \/ Store(d, k, row),
           Completed(d, k) \/ Continues(d, k, t)
    PROVE  /\ local' \in [Devices -> [Keys -> Rows]]
           /\ task' \in [Devices -> [Keys -> Tasks]]
           /\ mode' \in [Devices -> {"idle", "keys", "all", "one"}]
<1>1. local' \in [Devices -> [Keys -> Rows]]
  <2>1. local \in [Devices -> [Keys -> Rows]]
    BY DEF TypeOK
  <2> QED BY <2>1 DEF Store
<1>2. task' \in [Devices -> [Keys -> Tasks]]
  <2>1. task \in [Devices -> [Keys -> Tasks]]
    BY DEF TypeOK, Tasks
  <2> QED BY <2>1, TaskTypes DEF Completed, Continues
<1>3. mode' \in [Devices -> {"idle", "keys", "all", "one"}]
  <2>1. CASE Completed(d, k)
    <3>1. EndedWith(d) \in {"idle", "keys", "all", "one"}
      BY DEF TypeOK, EndedWith
    <3> QED BY <2>1, <3>1 DEF TypeOK, Completed
  <2>2. CASE Continues(d, k, t)
    BY <2>2 DEF TypeOK, Continues
  <2> QED BY <2>1, <2>2
<1> QED BY <1>1, <1>2, <1>3

\* The parts of TypeOK by name.
LEMMA Types ==
    TypeOK <=>
    /\ clock \in Second..MaxTime
    /\ local \in [Devices -> [Keys -> Rows]]
    /\ server \in [Keys -> Objects]
    /\ mode \in [Devices -> {"idle", "keys", "all", "one"}]
    /\ task \in [Devices -> [Keys -> Tasks]]
    /\ late \subseteq LateRequests
    /\ writes \in 0..MaxWrites /\ syncs \in 0..MaxSyncs /\ faults \in 0..MaxFaults
  BY DEF TypeOK, Objects, Tasks, LateRequests

(***************************************************************************)
(* The inductive invariant behind RecordedIsEqual.                         *)
(***************************************************************************)
\* What is deleted, or has this content, is what the object shows.
Shows(deleted, write, o) == deleted = o.deleted /\ (o.deleted \/ write = o.write)

\* A row records no version the server has not reached, and the present one only with its content.
RowAgrees(row, o) ==
    /\ row.remote <= o.version
    /\ row.remote # 0 /\ row.remote = o.version => Shows(row.deleted, row.write, o)

\* A sync knows no row the database has not reached ...
ReadBefore(t, row) == t.localVer <= row.version
\* ... and no object the server has not reached,
HeardBefore(t, o) ==
    t.stage \in {"listed", "known", "remove", "stored"} \/ (t.stage = "answered" /\ t.err = "nil")
    => t.remoteVer <= o.version
\* a tombstone it has heard of is one while the version is the same,
TombstoneAgrees(t, o) ==
    (t.stage \in {"listed", "known"} /\ t.err = "tombstone") \/ t.stage = "remove"
    => (t.remoteVer = o.version => o.deleted)
\* what it sends is the row while the row is the same,
SentAgrees(t, row) ==
    t.stage \in {"sent", "answered"} /\ t.localVer = row.version
    => /\ t.op = "put" => ~row.deleted /\ row.write = t.write
       /\ t.op = "del" => row.deleted
\* what was answered is the object while the version is the same,
AnswerAgrees(t, o) ==
    t.stage = "answered" /\ t.err = "nil" /\ t.remoteVer = o.version
    => /\ t.op \in {"put", "get"} => ~o.deleted /\ o.write = t.write
       /\ t.op = "del" => o.deleted
\* and a row it has stored shows the object while both are the same.
StoredAgrees(t, row, o) ==
    t.stage = "stored" /\ t.localVer = row.version /\ t.remoteVer # 0 /\ t.remoteVer = o.version
    => Shows(row.deleted, row.write, o)

TaskAgrees(t, row, o) ==
    /\ ReadBefore(t, row) /\ HeardBefore(t, o) /\ TombstoneAgrees(t, o)
    /\ SentAgrees(t, row) /\ AnswerAgrees(t, o) /\ StoredAgrees(t, row, o)

Agree ==
    \A d \in Devices, k \in Keys :
        RowAgrees(local[d][k], server[k]) /\ TaskAgrees(task[d][k], local[d][k], server[k])

Inductive == TypeOK /\ Agree

\* Deleted here and there, or the same content here and there.
LEMMA ShowsWhen ==
    ASSUME NEW row \in Rows, NEW o \in Objects,
           (row.deleted /\ o.deleted) \/ (~row.deleted /\ ~o.deleted /\ row.write = o.write)
    PROVE  Shows(row.deleted, row.write, o)
<1>1. row.deleted \in BOOLEAN /\ o.deleted \in BOOLEAN
  BY DEF Rows, Objects
<1>2. row.deleted = o.deleted
  BY <1>1
<1> QED BY <1>2 DEF Shows

\* The task after the row has been written: it knows the version of the new row.
Stored(t) == [t EXCEPT !.stage = "stored", !.localVer = @ + 1]
\* A task whose object has been stored has its type.
LEMMA StoredType ==
    ASSUME NEW t \in Tasks
    PROVE  /\ Stored(t) \in Tasks /\ Stored(t).stage = "stored"
           /\ Stored(t).localVer = t.localVer + 1 /\ Stored(t).remoteVer = t.remoteVer
<1> DEFINE l == t.localVer + 1
<1>1. l \in Nat
  BY DEF Tasks
<1>2. Stored(t) = [t EXCEPT !.stage = "stored", !.localVer = l]
  BY DEF Stored
<1> HIDE DEF l
<1>3. Stored(t) \in Tasks /\ Stored(t).stage = "stored" /\ Stored(t).localVer = l /\ Stored(t).remoteVer = t.remoteVer
  BY <1>1, <1>2 DEF Tasks
<1> QED BY <1>3 DEF l

\* A new version of an object ends what has been known of the old one.
LEMMA NewObject ==
    ASSUME NEW t \in Tasks, NEW row \in Rows, NEW o \in Objects, NEW p \in Objects, p.version = o.version + 1,
           RowAgrees(row, o), TaskAgrees(t, row, o)
    PROVE  RowAgrees(row, p) /\ TaskAgrees(t, row, p)
<1>1. o.version \in Nat /\ row.remote \in Nat /\ t.remoteVer \in Nat
  BY DEF Tasks, Rows, Objects
<1>2. RowAgrees(row, p)
  BY <1>1 DEF RowAgrees
<1>3. HeardBefore(t, p) /\ (HeardBefore(t, o) => TombstoneAgrees(t, p) /\ AnswerAgrees(t, p) /\ StoredAgrees(t, row, p))
  BY <1>1 DEF TaskAgrees, HeardBefore, TombstoneAgrees, AnswerAgrees, StoredAgrees
<1> QED
  BY <1>2, <1>3 DEF TaskAgrees

\* A new row ends what a sync has read.
LEMMA NewRow ==
    ASSUME NEW t \in Tasks, NEW row \in Rows, NEW new \in Rows, NEW o \in Objects, new.version = row.version + 1,
           TaskAgrees(t, row, o)
    PROVE  TaskAgrees(t, new, o)
<1>1. t.localVer \in Nat /\ row.version \in Nat
  BY DEF Tasks, Rows
<1>2. t.localVer <= row.version
  BY DEF TaskAgrees, ReadBefore
<1>3. ReadBefore(t, new) /\ t.localVer # new.version
  BY <1>1, <1>2 DEF ReadBefore
<1> QED
  BY <1>3 DEF TaskAgrees, SentAgrees, StoredAgrees

\* A sync that is not running knows nothing.
LEMMA NoTaskAgrees ==
    ASSUME NEW row \in Rows, NEW o \in Objects
    PROVE  TaskAgrees(NoTask, row, o)
  BY DEF Rows, Objects, TaskAgrees, NoTask, ReadBefore, HeardBefore, TombstoneAgrees, SentAgrees, AnswerAgrees, StoredAgrees

\* A write or a deletion of the application records nothing.
LEMMA WriteAgrees ==
    ASSUME NEW row \in Rows, NEW o \in Objects
    PROVE  /\ \A write : RowAgrees(SetRow(row, write), o) /\ SetRow(row, write).version = row.version + 1
           /\ RowAgrees(DelRow(row), o) /\ DelRow(row).version = row.version + 1
  BY DEF Rows, Objects, SetRow, DelRow, RowAgrees

\* One sync moves on, and the server does not change.
LEMMA OneSync ==
    ASSUME Inductive, NEW d \in Devices, NEW k \in Keys, NEW row \in Rows, NEW t \in Tasks,
           (local' = local /\ row = local[d][k]) \/ Store(d, k, row),
           (Completed(d, k) /\ t = NoTask) \/ Continues(d, k, t),
           clock' = clock, server' = server, late' \subseteq LateRequests,
           writes' = writes, syncs' = syncs, faults' \in 0..MaxFaults,
           RowAgrees(row, server[k]), TaskAgrees(t, row, server[k])
    PROVE  Inductive'
<1>1. TypeOK'
  <2>1. /\ local' \in [Devices -> [Keys -> Rows]]
        /\ task' \in [Devices -> [Keys -> Tasks]]
        /\ mode' \in [Devices -> {"idle", "keys", "all", "one"}]
    BY StepType DEF Inductive
  <2>2. TypeOK
    BY DEF Inductive
  <2> QED BY <2>1, <2>2, Types, StoreAssumption DEF TypeOK, Tasks, LateRequests
<1>2. Agree'
  <2> SUFFICES ASSUME NEW e \in Devices, NEW j \in Keys
               PROVE  RowAgrees(local'[e][j], server[j]) /\ TaskAgrees(task'[e][j], local'[e][j], server[j])
    BY DEF Agree
  <2>1. local \in [Devices -> [Keys -> Rows]] /\ task \in [Devices -> [Keys -> Tasks]]
    BY Types DEF Inductive
  <2>2. CASE e = d /\ j = k
    <3>1. local'[e][j] = row
      BY <2>1, <2>2 DEF Store
    <3>2. task'[e][j] = t
      BY <2>1, <2>2 DEF Completed, Continues
    <3> QED BY <2>2, <3>1, <3>2
  <2>3. CASE ~ (e = d /\ j = k)
    <3>1. local'[e][j] = local[e][j]
      BY <2>1, <2>3 DEF Store
    <3>2. task'[e][j] = task[e][j]
      BY <2>1, <2>3 DEF Completed, Continues
    <3> QED BY <3>1, <3>2 DEF Inductive, Agree
  <2> QED BY <2>2, <2>3
<1> QED BY <1>1, <1>2 DEF Inductive

\* What Inductive says of one sync.
LEMMA OneOf ==
    ASSUME Inductive, NEW d \in Devices, NEW k \in Keys
    PROVE  /\ local[d][k] \in Rows /\ server[k] \in Objects /\ task[d][k] \in Tasks
           /\ RowAgrees(local[d][k], server[k]) /\ TaskAgrees(task[d][k], local[d][k], server[k])
           /\ late \subseteq LateRequests /\ faults \in 0..MaxFaults /\ clock \in Second..MaxTime
  BY Types DEF Inductive, Agree

(***************************************************************************)
(* The actions, one by one.                                                *)
(***************************************************************************)
\* Recording the remote version of a row that shows the object.
LEMMA RecordAgrees ==
    ASSUME NEW row \in Rows, NEW o \in Objects, NEW l \in Nat, NEW r \in Nat, RowAgrees(row, o), r <= o.version,
           l = row.version /\ r # 0 /\ r = o.version => Shows(row.deleted, row.write, o)
    PROVE  RowAgrees(RemoteVersionRow(row, l, r), o)
<1>1. CASE l # 0 /\ row.version = l
  BY <1>1 DEF RemoteVersionRow, RowAgrees, Rows
<1>2. CASE ~ (l # 0 /\ row.version = l)
  BY <1>2 DEF RemoteVersionRow
<1> QED BY <1>1, <1>2

\* The application writes a row between two steps of a sync.
LEMMA WriteStep ==
    ASSUME Inductive, NEW d \in Devices, NEW k \in Keys, Set(d, k) \/ Del(d, k)
    PROVE  Inductive'
<1> DEFINE row == local'[d][k]
<1>0. TypeOK /\ Agree /\ writes + 1 \in 0..MaxWrites
  BY StoreAssumption DEF Inductive, TypeOK, Set, Del
<1>1. /\ local[d][k] \in Rows /\ server[k] \in Objects /\ clock \in Second..MaxTime
      /\ local \in [Devices -> [Keys -> Rows]] /\ task \in [Devices -> [Keys -> Tasks]]
  BY OneOf, Types, <1>0
<1>2. \/ row = SetRow(local[d][k], writes + 1) /\ Store(d, k, SetRow(local[d][k], writes + 1))
      \/ row = DelRow(local[d][k]) /\ Store(d, k, DelRow(local[d][k]))
  BY <1>1 DEF Set, Del, Store
<1>3. row \in Rows /\ RowAgrees(row, server[k]) /\ row.version = local[d][k].version + 1
  <2> DEFINE old == local[d][k]
             o == server[k]
             n == writes + 1
  <2>1. old \in Rows /\ o \in Objects /\ n \in 0..MaxWrites
    BY <1>0, <1>1
  <2> HIDE DEF old, o, n
  <2>2. SetRow(old, n) \in Rows /\ DelRow(old) \in Rows
    BY <1>1, <2>1, RowTypes
  <2>3. /\ RowAgrees(SetRow(old, n), o) /\ SetRow(old, n).version = old.version + 1
        /\ RowAgrees(DelRow(old), o) /\ DelRow(old).version = old.version + 1
    BY <2>1, WriteAgrees
  <2>4. row = SetRow(old, n) \/ row = DelRow(old)
    BY <1>2 DEF old, n
  <2> HIDE DEF row
  <2>5. row \in Rows /\ RowAgrees(row, o) /\ row.version = old.version + 1
    BY <2>2, <2>3, <2>4, Zenon
  <2> QED BY <2>5 DEF old, o
<1>4. row.version = local[d][k].version + 1
  BY <1>3
<1>5. Store(d, k, row)
  BY <1>2
<1>6. UNCHANGED <<clock, server, mode, task, late, syncs, faults>> /\ writes' = writes + 1
  BY DEF Set, Del
<1> HIDE DEF row
<1>7. local' \in [Devices -> [Keys -> Rows]]
  BY <1>1, <1>3, <1>5 DEF Store
<1>8. TypeOK'
  BY <1>0, <1>6, <1>7 DEF TypeOK
<1>9. Agree'
  <2> SUFFICES ASSUME NEW e \in Devices, NEW j \in Keys
               PROVE  RowAgrees(local'[e][j], server[j]) /\ TaskAgrees(task[e][j], local'[e][j], server[j])
    BY <1>6 DEF Agree
  <2>1. CASE e = d /\ j = k
    <3>1. local'[e][j] = row
      BY <1>1, <1>5, <2>1 DEF Store
    <3>2. TaskAgrees(task[e][j], row, server[j])
      <4>1. TaskAgrees(task[d][k], local[d][k], server[k]) /\ task[d][k] \in Tasks
        BY OneOf
      <4> QED BY <1>1, <1>3, <1>4, <2>1, <4>1, NewRow
    <3> QED BY <1>3, <2>1, <3>1, <3>2
  <2>2. CASE ~ (e = d /\ j = k)
    <3>1. local'[e][j] = local[e][j]
      BY <1>1, <1>5, <2>2 DEF Store
    <3> QED BY <1>0, <3>1 DEF Agree
  <2> QED BY <2>1, <2>2
<1> QED BY <1>8, <1>9 DEF Inductive

\* A sync starts, and every key of it knows nothing yet, or the sync of all keys ends or is given up.
LEMMA StartStep ==
    ASSUME Inductive, NEW d \in Devices, SyncAllKeys(d) \/ (\E k \in Keys : SyncKey(d, k))
    PROVE  Inductive'
<1>0. TypeOK /\ Agree /\ syncs + 1 \in 0..MaxSyncs /\ task \in [Devices -> [Keys -> Tasks]]
  BY StoreAssumption, Types DEF Inductive, TypeOK, SyncAllKeys, SyncKey
<1> DEFINE Fresh(stage) == [NoTask EXCEPT !.stage = stage]
<1>1. \A stage \in {"keys", "ver"} : Fresh(stage) \in Tasks /\ Fresh(stage).localVer = 0 /\ Fresh(stage).stage = stage
  <2>1. NoTask \in Tasks /\ NoTask.localVer = 0
    BY TaskTypes DEF NoTask
  <2> QED BY <2>1 DEF Tasks
<1>2. \A row \in Rows, o \in Objects, stage \in {"keys", "ver"} : TaskAgrees(Fresh(stage), row, o)
  <2> HIDE DEF Fresh
  <2> QED
    BY <1>1 DEF Rows, TaskAgrees, ReadBefore, HeardBefore, TombstoneAgrees, SentAgrees, AnswerAgrees, StoredAgrees
<1>3. \A e \in Devices, j \in Keys : task'[e][j] \in {task[e][j], Fresh("keys"), Fresh("ver")}
  BY <1>0 DEF SyncAllKeys, SyncKey
<1>4. task' \in [Devices -> [Keys -> Tasks]]
  <2> HIDE DEF Fresh
  <2>1. CASE SyncAllKeys(d)
    BY <1>0, <1>1, <2>1 DEF SyncAllKeys, Fresh
  <2>2. ASSUME NEW k \in Keys, SyncKey(d, k) PROVE task' \in [Devices -> [Keys -> Tasks]]
    BY <1>0, <1>1, <2>2 DEF SyncKey, Fresh
  <2> QED BY <2>1, <2>2
<1>5. UNCHANGED <<clock, local, server, late, writes, faults>> /\ syncs' = syncs + 1
      /\ mode' \in [Devices -> {"idle", "keys", "all", "one"}]
  BY <1>0, Types DEF SyncAllKeys, SyncKey
<1> HIDE DEF Fresh
<1>6. TypeOK'
  BY <1>0, <1>4, <1>5 DEF TypeOK, Tasks
<1>7. Agree'
  <2> SUFFICES ASSUME NEW e \in Devices, NEW j \in Keys
               PROVE  RowAgrees(local[e][j], server[j]) /\ TaskAgrees(task'[e][j], local[e][j], server[j])
    BY <1>5 DEF Agree
  <2>1. local[e][j] \in Rows /\ server[j] \in Objects
    BY OneOf
  <2> QED BY <1>0, <1>2, <1>3, <2>1 DEF Agree
<1> QED BY <1>6, <1>7 DEF Inductive

\* The answer of keys is on its way, and knows the objects as they are.
LEMMA RemoteHeadAgrees ==
    ASSUME NEW row \in Rows, NEW o \in Objects, NEW time, NEW stage \in {"listed", "known"}
    PROVE  TaskAgrees([RemoteHead(o, time) EXCEPT !.stage = stage], row, o)
<1> DEFINE t == [RemoteHead(o, time) EXCEPT !.stage = stage]
<1>1. /\ t.stage = stage /\ t.localVer = 0 /\ t.remoteVer = o.version
      /\ t.err = IF o.deleted THEN "tombstone" ELSE "nil"
  BY DEF RemoteHead, NoTask
<1> HIDE DEF t
<1>2. TombstoneAgrees(t, o)
  BY <1>1 DEF TombstoneAgrees
<1>3. ReadBefore(t, row) /\ HeardBefore(t, o) /\ SentAgrees(t, row) /\ AnswerAgrees(t, o) /\ StoredAgrees(t, row, o)
  BY <1>1 DEF Rows, Objects, ReadBefore, HeardBefore, SentAgrees, AnswerAgrees, StoredAgrees
<1> QED BY <1>2, <1>3 DEF TaskAgrees, t

\* The server answers with the version of a key,
LEMMA ServeVerStep ==
    ASSUME Inductive, NEW d \in Devices, NEW k \in Keys, ServeVer(d, k)
    PROVE  Inductive'
<1> DEFINE o == server[k]
           head == IF o.version = 0 THEN [NoTask EXCEPT !.err = "unknown"] ELSE RemoteHead(o, o.time - (o.time % Second))
           t == [head EXCEPT !.stage = "known"]
<1>1. local[d][k] \in Rows /\ o \in Objects /\ late \subseteq LateRequests /\ faults \in 0..MaxFaults
      /\ RowAgrees(local[d][k], o)
  BY OneOf
<1>2. head \in Tasks
  <2>1. [NoTask EXCEPT !.err = "unknown"] \in Tasks
    BY TaskTypes DEF Tasks
  <2>2. o.time \in 0..MaxTime
    BY <1>1 DEF Objects
  <2>3. RemoteHead(o, o.time - (o.time % Second)) \in Tasks
    BY <1>1, <2>2, TaskTypes
  <2> QED BY <2>1, <2>3
<1>3. t \in Tasks
  <2> HIDE DEF head
  <2> QED BY <1>2 DEF Tasks
<1>4. TaskAgrees(t, local[d][k], o)
  <2>1. CASE o.version = 0
    <3>1. t.stage = "known" /\ t.localVer = 0 /\ t.remoteVer = 0 /\ t.err = "unknown"
      BY <2>1 DEF NoTask
    <3> HIDE DEF t
    <3> QED
      BY <1>1, <3>1 DEF Rows, Objects, TaskAgrees, ReadBefore, HeardBefore, TombstoneAgrees, SentAgrees, AnswerAgrees, StoredAgrees
  <2>2. CASE o.version # 0
    BY <1>1, <2>2, RemoteHeadAgrees
  <2> QED BY <2>1, <2>2
<1>5. Continues(d, k, t) /\ UNCHANGED <<clock, local, server, late, writes, syncs, faults>>
  BY DEF ServeVer
<1> HIDE DEF t
<1> QED BY <1>1, <1>3, <1>4, <1>5, OneSync

\* Several tasks of a device change, and nothing else.
LEMMA TasksStep ==
    ASSUME Inductive, task' \in [Devices -> [Keys -> Tasks]],
           mode' \in [Devices -> {"idle", "keys", "all", "one"}],
           UNCHANGED <<clock, local, server, writes, syncs>>, late' \subseteq LateRequests, faults' \in 0..MaxFaults,
           \A d \in Devices, k \in Keys : TaskAgrees(task'[d][k], local[d][k], server[k])
    PROVE  Inductive'
<1>1. TypeOK'
  BY DEF Inductive, TypeOK, Tasks, LateRequests
<1>2. Agree'
  BY DEF Inductive, Agree
<1> QED BY <1>1, <1>2 DEF Inductive

\* with its keys,
LEMMA ServeKeysStep ==
    ASSUME Inductive, NEW d \in Devices, ServeKeys(d)
    PROVE  Inductive'
<1> DEFINE head(k) == [RemoteHead(server[k], server[k].time) EXCEPT !.stage = "listed"]
<1>0. task \in [Devices -> [Keys -> Tasks]] /\ mode \in [Devices -> {"idle", "keys", "all", "one"}]
      /\ late \subseteq LateRequests /\ faults \in 0..MaxFaults
  BY Types DEF Inductive
<1>1. ASSUME NEW k \in Keys PROVE head(k) \in Tasks
  <2>1. server[k] \in Objects
    BY OneOf
  <2>2. server[k].time \in 0..MaxTime
    BY <2>1 DEF Objects
  <2>3. RemoteHead(server[k], server[k].time) \in Tasks
    BY <2>1, <2>2, TaskTypes
  <2> QED BY <2>3 DEF Tasks
<1>2. task' = [task EXCEPT ![d] = [k \in Keys |-> head(k)]]
      /\ UNCHANGED <<clock, local, server, mode, late, writes, syncs, faults>>
  BY DEF ServeKeys
<1>3. \A e \in Devices, k \in Keys : TaskAgrees(head(k), local[e][k], server[k])
  BY OneOf, RemoteHeadAgrees
<1> HIDE DEF head
<1>4. task' \in [Devices -> [Keys -> Tasks]]
  BY <1>0, <1>1, <1>2
<1>5. \A e \in Devices, k \in Keys : TaskAgrees(task'[e][k], local[e][k], server[k])
  BY <1>0, <1>2, <1>3 DEF Inductive, Agree
<1> QED BY <1>0, <1>2, <1>4, <1>5, TasksStep

\* and the device starts a task for each key that is on either side.
LEMMA KeysAnsweredStep ==
    ASSUME Inductive, NEW d \in Devices, KeysAnswered(d)
    PROVE  Inductive'
<1> DEFINE next(k) == IF task[d][k].remoteVer # 0 \/ local[d][k].version # 0
                      THEN [task[d][k] EXCEPT !.stage = "known"] ELSE NoTask
<1>0. task \in [Devices -> [Keys -> Tasks]] /\ mode \in [Devices -> {"idle", "keys", "all", "one"}]
      /\ late \subseteq LateRequests /\ faults \in 0..MaxFaults
  BY Types DEF Inductive
<1>1. ASSUME NEW k \in Keys PROVE next(k) \in Tasks
  <2>1. task[d][k] \in Tasks
    BY OneOf
  <2>2. [task[d][k] EXCEPT !.stage = "known"] \in Tasks
    BY <2>1 DEF Tasks
  <2> QED BY <2>2, TaskTypes
<1>2. /\ task' = [task EXCEPT ![d] = [k \in Keys |-> next(k)]] /\ mode' = [mode EXCEPT ![d] = "all"]
      /\ UNCHANGED <<clock, local, server, late, writes, syncs, faults>>
  BY DEF KeysAnswered
<1>3. ASSUME NEW k \in Keys PROVE TaskAgrees(next(k), local[d][k], server[k])
  <2>1. /\ task[d][k] \in Tasks /\ local[d][k] \in Rows /\ server[k] \in Objects
        /\ TaskAgrees(task[d][k], local[d][k], server[k]) /\ task[d][k].stage = "listed"
    BY OneOf DEF KeysAnswered
  <2> DEFINE t == task[d][k]
             u == [t EXCEPT !.stage = "known"]
  <2>2. /\ u.stage = "known" /\ u.localVer = t.localVer /\ u.remoteVer = t.remoteVer /\ u.err = t.err
    BY <2>1 DEF Tasks
  <2>3. TaskAgrees(u, local[d][k], server[k])
    <3> HIDE DEF u
    <3> QED
      BY <2>1, <2>2 DEF TaskAgrees, ReadBefore, HeardBefore, TombstoneAgrees, SentAgrees, AnswerAgrees, StoredAgrees
  <2> QED BY <2>1, <2>3, NoTaskAgrees
<1> HIDE DEF next
<1>4. task' \in [Devices -> [Keys -> Tasks]] /\ mode' \in [Devices -> {"idle", "keys", "all", "one"}]
  BY <1>0, <1>1, <1>2
<1>5. \A e \in Devices, k \in Keys : TaskAgrees(task'[e][k], local[e][k], server[k])
  BY <1>0, <1>2, <1>3 DEF Inductive, Agree
<1> QED BY <1>0, <1>2, <1>4, <1>5, TasksStep

\* _syncKey reads the row and decides.
LEMMA StartKeyStep ==
    ASSUME Inductive, NEW d \in Devices, NEW k \in Keys, StartKey(d, k)
    PROVE  Inductive'
<1> DEFINE row == local[d][k]
           o == server[k]
           t == [task[d][k] EXCEPT !.localVer = row.version]
<1>1. /\ row \in Rows /\ o \in Objects /\ task[d][k] \in Tasks /\ RowAgrees(row, o) /\ TaskAgrees(task[d][k], row, o)
      /\ late \subseteq LateRequests /\ faults \in 0..MaxFaults
  BY OneOf
<1>2. task[d][k].stage = "known" /\ UNCHANGED <<clock, local, server, late, writes, syncs, faults>>
  BY DEF StartKey
<1>3. /\ t \in Tasks /\ t.localVer = row.version /\ t.stage = "known" /\ t.remoteVer = task[d][k].remoteVer
      /\ t.err = task[d][k].err
  BY <1>1, <1>2 DEF Tasks, Rows
<1>4. /\ t.remoteVer <= o.version
      /\ t.err = "tombstone" => (t.remoteVer = o.version => o.deleted)
  BY <1>1, <1>2, <1>3 DEF TaskAgrees, HeardBefore, TombstoneAgrees
<1>5. row.version \in Nat /\ row.write \in 0..MaxWrites /\ row.remote \in Nat /\ row.deleted \in BOOLEAN /\ o.version \in Nat
  BY <1>1 DEF Rows, Objects
<1>6. UseRemoteVer(t, row) \in Nat
  BY <1>3, <1>5 DEF UseRemoteVer, Tasks
<1> DEFINE known(u) == u \in Tasks /\ u.localVer = row.version
           stored == [t EXCEPT !.stage = "stored"]
           sendDel == [t EXCEPT !.stage = "sent", !.op = "del"]
           sendPut == [t EXCEPT !.stage = "sent", !.op = "put", !.write = row.write, !.remoteVer = UseRemoteVer(t, row)]
           remove == [t EXCEPT !.stage = "remove"]
           sendGet == [t EXCEPT !.stage = "sent", !.op = "get"]
<1>7. \/ Completed(d, k)
      \/ t.err = "tombstone" /\ row.deleted /\ Continues(d, k, stored)
      \/ row.deleted /\ Continues(d, k, sendDel)
      \/ ~row.deleted /\ Continues(d, k, sendPut)
      \/ t.err = "tombstone" /\ Continues(d, k, remove)
      \/ Continues(d, k, sendGet)
  BY DEF StartKey
<1> HIDE DEF t, row, o
<1> USE DEF TaskAgrees, ReadBefore, HeardBefore, TombstoneAgrees, SentAgrees, AnswerAgrees, StoredAgrees
<1>8. CASE Completed(d, k)
  BY <1>1, <1>2, <1>8, OneSync, NoTaskAgrees, TaskTypes DEF row, o
<1>9. CASE t.err = "tombstone" /\ row.deleted /\ Continues(d, k, stored)
  <2>1. stored \in Tasks /\ stored.localVer = row.version /\ stored.stage = "stored" /\ stored.remoteVer = t.remoteVer
    BY <1>3 DEF Tasks
  <2> HIDE DEF stored
  <2>2. t.remoteVer = o.version => Shows(row.deleted, row.write, o)
    BY <1>1, <1>4, <1>9, ShowsWhen
  <2>3. TaskAgrees(stored, row, o)
    BY <1>4, <1>5, <2>1, <2>2
  <2> QED BY <1>1, <1>2, <1>9, <2>1, <2>3, OneSync DEF row, o
<1>10. CASE row.deleted /\ Continues(d, k, sendDel)
  <2>1. sendDel \in Tasks /\ sendDel.localVer = row.version /\ sendDel.stage = "sent" /\ sendDel.op = "del"
    BY <1>3 DEF Tasks
  <2> HIDE DEF sendDel
  <2>2. TaskAgrees(sendDel, row, o)
    BY <1>5, <1>10, <2>1
  <2> QED BY <1>1, <1>2, <1>10, <2>1, <2>2, OneSync DEF row, o
<1>11. CASE ~row.deleted /\ Continues(d, k, sendPut)
  <2>1. /\ sendPut \in Tasks /\ sendPut.localVer = row.version /\ sendPut.stage = "sent" /\ sendPut.op = "put"
        /\ sendPut.write = row.write
    BY <1>3, <1>5, <1>6 DEF Tasks
  <2> HIDE DEF sendPut
  <2>2. TaskAgrees(sendPut, row, o)
    BY <1>5, <1>11, <2>1
  <2> QED BY <1>1, <1>2, <1>11, <2>1, <2>2, OneSync DEF row, o
<1>12. CASE t.err = "tombstone" /\ Continues(d, k, remove)
  <2>1. /\ remove \in Tasks /\ remove.localVer = row.version /\ remove.stage = "remove" /\ remove.remoteVer = t.remoteVer
    BY <1>3 DEF Tasks
  <2> HIDE DEF remove
  <2>2. TaskAgrees(remove, row, o)
    BY <1>4, <1>5, <1>12, <2>1
  <2> QED BY <1>1, <1>2, <1>12, <2>1, <2>2, OneSync DEF row, o
<1>13. CASE Continues(d, k, sendGet)
  <2>1. sendGet \in Tasks /\ sendGet.localVer = row.version /\ sendGet.stage = "sent" /\ sendGet.op = "get"
    BY <1>3 DEF Tasks
  <2> HIDE DEF sendGet
  <2>2. TaskAgrees(sendGet, row, o)
    BY <1>5, <2>1
  <2> QED BY <1>1, <1>2, <1>13, <2>1, <2>2, OneSync DEF row, o
<1> QED BY <1>7, <1>8, <1>9, <1>10, <1>11, <1>12, <1>13

\* An upload is answered, or the remote version of a stored row is recorded.
LEMMA RecordStep ==
    ASSUME Inductive, NEW d \in Devices, NEW k \in Keys, UploadAnswered(d, k) \/ Record(d, k)
    PROVE  Inductive'
<1> DEFINE row == local[d][k]
           o == server[k]
           t == task[d][k]
           new == RemoteVersionRow(row, t.localVer, t.remoteVer)
<1>1. /\ row \in Rows /\ o \in Objects /\ t \in Tasks /\ RowAgrees(row, o) /\ TaskAgrees(t, row, o)
      /\ late \subseteq LateRequests /\ faults \in 0..MaxFaults /\ clock \in Second..MaxTime
  BY OneOf
<1>2. t.localVer \in Nat /\ t.remoteVer \in Nat
  BY <1>1 DEF Tasks
<1>3. Completed(d, k) /\ UNCHANGED <<clock, server, late, writes, syncs, faults>>
  BY DEF UploadAnswered, Record
<1>4. CASE local' = local
  BY <1>1, <1>3, <1>4, OneSync, NoTaskAgrees, TaskTypes
<1>5. CASE Store(d, k, new) /\ (t.stage = "stored" \/ (t.stage = "answered" /\ t.op \in {"put", "del"} /\ t.err = "nil"))
  <2>1. /\ t.remoteVer <= o.version
        /\ t.localVer = row.version /\ t.remoteVer # 0 /\ t.remoteVer = o.version => Shows(row.deleted, row.write, o)
    <3> HIDE DEF t, row, o, new
    <3>2. CASE t.stage = "stored"
      BY <1>1, <3>2 DEF TaskAgrees, HeardBefore, StoredAgrees
    <3>3. CASE t.stage = "answered" /\ t.op \in {"put", "del"} /\ t.err = "nil"
      <4>1. t.remoteVer <= o.version
        BY <1>1, <3>3 DEF TaskAgrees, HeardBefore
      <4>2. CASE t.op = "put"
        <5>1. t.localVer = row.version /\ t.remoteVer = o.version
              => ~row.deleted /\ row.write = t.write /\ ~o.deleted /\ o.write = t.write
          BY <1>1, <3>3, <4>2 DEF TaskAgrees, SentAgrees, AnswerAgrees
        <5> QED BY <1>1, <4>1, <5>1, ShowsWhen
      <4>3. CASE t.op = "del"
        <5>1. t.localVer = row.version /\ t.remoteVer = o.version => row.deleted /\ o.deleted
          BY <1>1, <3>3, <4>3 DEF TaskAgrees, SentAgrees, AnswerAgrees
        <5> QED BY <1>1, <4>1, <5>1, ShowsWhen
      <4> QED BY <3>3, <4>2, <4>3
    <3> QED BY <1>5, <3>2, <3>3
  <2>2. new \in Rows /\ RowAgrees(new, o)
    BY <1>1, <1>2, <2>1, RowTypes, RecordAgrees
  <2> HIDE DEF new
  <2> QED BY <1>1, <1>3, <1>5, <2>2, OneSync, NoTaskAgrees, TaskTypes
<1> QED BY <1>4, <1>5 DEF UploadAnswered, Record

\* The object is a tombstone, and the row becomes one.
LEMMA RemoveStep ==
    ASSUME Inductive, NEW d \in Devices, NEW k \in Keys, Remove(d, k)
    PROVE  Inductive'
<1> DEFINE row == local[d][k]
           o == server[k]
           t == task[d][k]
           next == Stored(t)
<1>1. /\ row \in Rows /\ o \in Objects /\ t \in Tasks /\ RowAgrees(row, o) /\ TaskAgrees(t, row, o)
      /\ late \subseteq LateRequests /\ faults \in 0..MaxFaults /\ clock \in Second..MaxTime
  BY OneOf
<1>2. t.stage = "remove" /\ UNCHANGED <<clock, server, late, writes, syncs, faults>>
  BY DEF Remove
<1>3. CASE Completed(d, k) /\ local' = local
  BY <1>1, <1>2, <1>3, OneSync, NoTaskAgrees, TaskTypes
<1>4. CASE row.version = t.localVer /\ Store(d, k, DelRow(row)) /\ Continues(d, k, next)
  <2>1. /\ next \in Tasks /\ next.stage = "stored" /\ next.localVer = row.version + 1
        /\ next.remoteVer = t.remoteVer /\ row.version \in Nat
    BY <1>1, <1>4, StoredType DEF Rows
  <2>2. /\ DelRow(row) \in Rows /\ RowAgrees(DelRow(row), o)
        /\ DelRow(row).version = row.version + 1
    BY <1>1, RowTypes, WriteAgrees
  <2>3. DelRow(row).deleted = TRUE /\ o.deleted \in BOOLEAN
    BY <1>1 DEF DelRow, Rows, Objects
  <2>4. t.remoteVer <= o.version /\ (t.remoteVer = o.version => o.deleted)
    BY <1>1, <1>2 DEF TaskAgrees, HeardBefore, TombstoneAgrees
  <2> DEFINE new == DelRow(row)
  <2> HIDE DEF next, new, t, row, o
  <2>5. TaskAgrees(next, new, o)
    BY <1>1, <2>1, <2>2, <2>3, <2>4, ShowsWhen
    DEF TaskAgrees, ReadBefore, HeardBefore, TombstoneAgrees, SentAgrees, AnswerAgrees, StoredAgrees, new
  <2> QED BY <1>1, <1>2, <1>4, <2>1, <2>2, <2>5, OneSync DEF new, row, o
<1> QED BY <1>3, <1>4 DEF Remove, Stored

\* What the server had is written to the row.
LEMMA GetAnsweredStep ==
    ASSUME Inductive, NEW d \in Devices, NEW k \in Keys, GetAnswered(d, k)
    PROVE  Inductive'
<1> DEFINE row == local[d][k]
           o == server[k]
           t == task[d][k]
           next == Stored(t)
<1>1. /\ row \in Rows /\ o \in Objects /\ t \in Tasks /\ RowAgrees(row, o) /\ TaskAgrees(t, row, o)
      /\ late \subseteq LateRequests /\ faults \in 0..MaxFaults /\ clock \in Second..MaxTime
  BY OneOf
<1>2. t.stage = "answered" /\ t.op = "get" /\ UNCHANGED <<clock, server, late, writes, syncs>>
  BY DEF GetAnswered
<1>3. faults' \in 0..MaxFaults
  BY <1>1, StoreAssumption DEF GetAnswered
<1>4. CASE Completed(d, k) /\ local' = local
  BY <1>1, <1>2, <1>3, <1>4, OneSync, NoTaskAgrees, TaskTypes
<1>5. CASE Completed(d, k) /\ Store(d, k, DelRow(row))
  <2>1. DelRow(row) \in Rows /\ RowAgrees(DelRow(row), o)
    BY <1>1, RowTypes, WriteAgrees
  <2> QED BY <1>1, <1>2, <1>3, <1>5, <2>1, OneSync, NoTaskAgrees, TaskTypes
<1>6. CASE t.err = "nil" /\ row.version = t.localVer /\ Store(d, k, SetRow(row, t.write)) /\ Continues(d, k, next)
  <2>1. /\ next \in Tasks /\ next.stage = "stored" /\ next.localVer = row.version + 1
        /\ next.remoteVer = t.remoteVer /\ row.version \in Nat /\ t.write \in 0..MaxWrites
    <3>1. t.write \in 0..MaxWrites
      BY <1>1 DEF Tasks
    <3> QED BY <1>1, <1>6, <3>1, StoredType DEF Rows
  <2> DEFINE new == SetRow(row, t.write)
  <2>2. new \in Rows /\ RowAgrees(new, o) /\ new.version = row.version + 1
    BY <1>1, <2>1, RowTypes, WriteAgrees
  <2>3. new.deleted = FALSE /\ new.write = t.write /\ o.deleted \in BOOLEAN
    BY <1>1 DEF SetRow, Objects
  <2>4. t.remoteVer <= o.version /\ (t.remoteVer = o.version => ~o.deleted /\ o.write = t.write)
    BY <1>1, <1>2, <1>6 DEF TaskAgrees, HeardBefore, AnswerAgrees
  <2> HIDE DEF next, new, t, row, o
  <2>5. TaskAgrees(next, new, o)
    BY <1>1, <2>1, <2>2, <2>3, <2>4, ShowsWhen
    DEF TaskAgrees, ReadBefore, HeardBefore, TombstoneAgrees, SentAgrees, AnswerAgrees, StoredAgrees
  <2> QED BY <1>1, <1>2, <1>3, <1>6, <2>1, <2>2, <2>5, OneSync DEF new, row, o
<1> QED BY <1>4, <1>5, <1>6 DEF GetAnswered, Stored

\* The server answers a get with the object it has.
LEMMA ServeGetStep ==
    ASSUME Inductive, NEW d \in Devices, NEW k \in Keys, ServeGet(d, k)
    PROVE  Inductive'
<1> DEFINE row == local[d][k]
           o == server[k]
           t == task[d][k]
           found == [t EXCEPT !.stage = "answered", !.err = "nil", !.remoteVer = o.version, !.write = o.write]
           conflict == [t EXCEPT !.stage = "answered", !.err = "conflict"]
<1>1. /\ row \in Rows /\ o \in Objects /\ t \in Tasks /\ RowAgrees(row, o) /\ TaskAgrees(t, row, o)
      /\ late \subseteq LateRequests /\ faults \in 0..MaxFaults
  BY OneOf
<1>2. t.stage = "sent" /\ t.op = "get" /\ UNCHANGED <<clock, local, server, late, writes, syncs, faults>>
  BY DEF ServeGet
<1>3. t.localVer <= row.version /\ o.version \in Nat /\ o.write \in 0..MaxWrites
  BY <1>1 DEF TaskAgrees, ReadBefore, Objects
<1> USE DEF TaskAgrees, ReadBefore, HeardBefore, TombstoneAgrees, SentAgrees, AnswerAgrees, StoredAgrees
<1>4. CASE ~o.deleted /\ Continues(d, k, found)
  <2>1. /\ found \in Tasks /\ found.stage = "answered" /\ found.op = "get" /\ found.err = "nil"
        /\ found.localVer = t.localVer /\ found.remoteVer = o.version /\ found.write = o.write
    BY <1>1, <1>2, <1>3 DEF Tasks
  <2> HIDE DEF found, row, o, t
  <2>2. TaskAgrees(found, row, o)
    BY <1>3, <1>4, <2>1
  <2> QED BY <1>1, <1>2, <1>4, <2>1, <2>2, OneSync DEF row, o
<1>5. CASE Continues(d, k, conflict)
  <2>1. /\ conflict \in Tasks /\ conflict.stage = "answered" /\ conflict.op = "get" /\ conflict.err = "conflict"
        /\ conflict.localVer = t.localVer
    BY <1>1, <1>2 DEF Tasks
  <2> HIDE DEF conflict, row, o, t
  <2>2. TaskAgrees(conflict, row, o)
    BY <1>3, <2>1
  <2> QED BY <1>1, <1>2, <1>5, <2>1, <2>2, OneSync DEF row, o
<1> QED BY <1>4, <1>5 DEF ServeGet

\* The server takes a request: what is known of the object is over.
LEMMA ServerMoves ==
    ASSUME Inductive, NEW k \in Keys, NEW p \in Objects, p.version = server[k].version + 1,
           server' = [server EXCEPT ![k] = p]
    PROVE  /\ server' \in [Keys -> Objects]
           /\ \A d \in Devices, j \in Keys :
                 RowAgrees(local[d][j], server'[j]) /\ TaskAgrees(task[d][j], local[d][j], server'[j])
<1>1. server \in [Keys -> Objects]
  BY Types DEF Inductive
<1>2. ASSUME NEW d \in Devices, NEW j \in Keys
      PROVE  RowAgrees(local[d][j], server'[j]) /\ TaskAgrees(task[d][j], local[d][j], server'[j])
  <2>1. /\ local[d][j] \in Rows /\ server[j] \in Objects /\ task[d][j] \in Tasks
        /\ RowAgrees(local[d][j], server[j]) /\ TaskAgrees(task[d][j], local[d][j], server[j])
    BY OneOf
  <2>2. CASE j = k
    BY <1>1, <2>1, <2>2, NewObject
  <2>3. CASE j # k
    BY <1>1, <2>1, <2>3
  <2> QED BY <2>2, <2>3
<1> QED BY <1>1, <1>2

\* A put or a del is answered.
LEMMA ServeUploadStep ==
    ASSUME Inductive, NEW d \in Devices, NEW k \in Keys, ServeUpload(d, k)
    PROVE  Inductive'
<1> DEFINE row == local[d][k]
           o == server[k]
           t == task[d][k]
           v == o.version + 1
           accepted == [t EXCEPT !.stage = "answered", !.err = "nil", !.remoteVer = v]
           conflict == [t EXCEPT !.stage = "answered", !.err = "conflict"]
<1>1. /\ row \in Rows /\ o \in Objects /\ t \in Tasks /\ RowAgrees(row, o) /\ TaskAgrees(t, row, o)
      /\ late \subseteq LateRequests /\ faults \in 0..MaxFaults /\ clock \in Second..MaxTime
  BY OneOf
<1>2. t.stage = "sent" /\ t.op \in {"put", "del"} /\ UNCHANGED <<clock, local, late, writes, syncs, faults>>
  BY DEF ServeUpload
<1>3. t.localVer <= row.version /\ v \in Nat /\ SentAgrees(t, row)
  BY <1>1 DEF TaskAgrees, ReadBefore, Objects
<1>4. CASE UNCHANGED server /\ Continues(d, k, conflict)
  <2>1. /\ conflict \in Tasks /\ conflict.stage = "answered" /\ conflict.op = t.op /\ conflict.err = "conflict"
        /\ conflict.localVer = t.localVer /\ conflict.write = t.write
    BY <1>1, <1>2 DEF Tasks
  <2> HIDE DEF conflict, row, o, t
  <2>2. TaskAgrees(conflict, row, o)
    BY <1>2, <1>3, <2>1
    DEF TaskAgrees, ReadBefore, HeardBefore, TombstoneAgrees, SentAgrees, AnswerAgrees, StoredAgrees
  <2> QED BY <1>1, <1>2, <1>4, <2>1, <2>2, OneSync DEF row, o
<1>5. CASE server' = [server EXCEPT ![k] = Changed(k, t)] /\ Continues(d, k, accepted)
  <2> DEFINE p == Changed(k, t)
  <2>1. server \in [Keys -> Objects] /\ task \in [Devices -> [Keys -> Tasks]] /\ TypeOK
    BY Types DEF Inductive
  <2>2. p \in Objects /\ p.version = v
    <3>1. t.write \in 0..MaxWrites
      BY <1>1 DEF Tasks
    <3> QED BY <1>1, <2>1, <3>1, ChangedType DEF Changed
  <2>3. /\ p.deleted = (t.op = "del")
        /\ t.op = "put" => p.write = t.write
    BY <1>2 DEF Changed
  <2>4. /\ accepted \in Tasks /\ accepted.stage = "answered" /\ accepted.op = t.op /\ accepted.err = "nil"
        /\ accepted.localVer = t.localVer /\ accepted.remoteVer = v /\ accepted.write = t.write
    <3> HIDE DEF v
    <3> QED BY <1>1, <1>2, <1>3 DEF Tasks
  <2>5. /\ server' \in [Keys -> Objects]
        /\ \A e \in Devices, j \in Keys :
              RowAgrees(local[e][j], server'[j]) /\ TaskAgrees(task[e][j], local[e][j], server'[j])
    BY <1>5, <2>2, ServerMoves
  <2>6. server'[k] = p
    BY <1>5, <2>1
  <2>7. TaskAgrees(accepted, row, p)
    <3> HIDE DEF accepted, row, o, t, p, v
    <3>1. AnswerAgrees(accepted, p)
      BY <1>2, <2>2, <2>3, <2>4 DEF AnswerAgrees
    <3>2. SentAgrees(accepted, row)
      BY <1>2, <1>3, <2>4 DEF SentAgrees
    <3>3. /\ ReadBefore(accepted, row) /\ HeardBefore(accepted, p) /\ TombstoneAgrees(accepted, p)
          /\ StoredAgrees(accepted, row, p)
      BY <1>3, <2>2, <2>4 DEF ReadBefore, HeardBefore, TombstoneAgrees, StoredAgrees
    <3> QED BY <3>1, <3>2, <3>3 DEF TaskAgrees
  <2> HIDE DEF accepted, p
  <2>8. task' = [task EXCEPT ![d][k] = accepted] /\ mode' = mode
    BY <1>5 DEF Continues
  <2>9. TypeOK'
    <3>1. task' \in [Devices -> [Keys -> Tasks]]
      BY <2>1, <2>4, <2>8
    <3> QED BY <1>2, <2>1, <2>5, <2>8, <3>1 DEF TypeOK, Tasks, Objects
  <2>10. Agree'
    <3> SUFFICES ASSUME NEW e \in Devices, NEW j \in Keys
                 PROVE  RowAgrees(local[e][j], server'[j]) /\ TaskAgrees(task'[e][j], local[e][j], server'[j])
      BY <1>2 DEF Agree
    <3>1. CASE e = d /\ j = k
      <4>1. task'[e][j] = accepted
        BY <2>1, <2>8, <3>1
      <4> QED BY <2>5, <2>6, <2>7, <3>1, <4>1
    <3>2. CASE ~ (e = d /\ j = k)
      <4>1. task'[e][j] = task[e][j]
        BY <2>1, <2>8, <3>2
      <4> QED BY <2>5, <4>1
    <3> QED BY <3>1, <3>2
  <2> QED BY <2>9, <2>10 DEF Inductive
<1> QED BY <1>4, <1>5 DEF ServeUpload

\* A request nobody waits for arrives.
LEMMA ServeLateStep ==
    ASSUME Inductive, ServeLate
    PROVE  Inductive'
<1>1. PICK r \in late :
          /\ late' = late \ {r}
          /\ server' = IF Accepts(r.key, r) THEN [server EXCEPT ![r.key] = Changed(r.key, r)] ELSE server
  BY DEF ServeLate
<1>2. /\ TypeOK /\ Agree /\ server \in [Keys -> Objects] /\ late \subseteq LateRequests
      /\ clock \in Second..MaxTime /\ UNCHANGED <<clock, local, mode, task, writes, syncs, faults>>
  BY Types DEF Inductive, ServeLate
<1>3. r.key \in Keys /\ r.write \in 0..MaxWrites
  BY <1>2 DEF LateRequests
<1>4. CASE server' = server
  BY <1>1, <1>2, <1>4 DEF Inductive, TypeOK, Agree
<1>5. CASE server' = [server EXCEPT ![r.key] = Changed(r.key, r)]
  <2>1. Changed(r.key, r) \in Objects /\ Changed(r.key, r).version = server[r.key].version + 1
    BY <1>2, <1>3, ChangedType DEF Changed
  <2>2. /\ server' \in [Keys -> Objects]
        /\ \A e \in Devices, j \in Keys :
              RowAgrees(local[e][j], server'[j]) /\ TaskAgrees(task[e][j], local[e][j], server'[j])
    BY <1>3, <1>5, <2>1, ServerMoves
  <2>3. TypeOK'
    BY <1>1, <1>2, <2>2 DEF TypeOK, Objects
  <2>4. Agree'
    BY <1>2, <2>2 DEF Agree
  <2> QED BY <2>3, <2>4 DEF Inductive
<1> QED BY <1>1, <1>4, <1>5

\* Syncs end, time out, or die with the application.
LEMMA EndStep ==
    ASSUME Inductive, NEW d \in Devices,
           FinishAll(d) \/ TimeoutKeys(d) \/ Crash(d) \/ (\E k \in Keys : Timeout(d, k))
    PROVE  Inductive'
<1>1. /\ task \in [Devices -> [Keys -> Tasks]] /\ mode \in [Devices -> {"idle", "keys", "all", "one"}]
      /\ late \subseteq LateRequests /\ faults \in 0..MaxFaults
  BY Types DEF Inductive
<1>2. UNCHANGED <<clock, local, server, writes, syncs>> /\ faults' \in 0..MaxFaults
  <2>1. /\ UNCHANGED <<clock, local, server, writes, syncs>>
        /\ faults' = faults \/ (faults < MaxFaults /\ faults' = faults + 1)
    BY Zenon DEF FinishAll, TimeoutKeys, Crash, Timeout
  <2> QED BY <1>1, <2>1, StoreAssumption
<1>3. late' \subseteq LateRequests
  BY <1>1, AbandonedType DEF FinishAll, TimeoutKeys, Crash, Timeout
<1>4. /\ task' \in [Devices -> [Keys -> Tasks]] /\ mode' \in [Devices -> {"idle", "keys", "all", "one"}]
      /\ \A e \in Devices, j \in Keys : task'[e][j] \in {task[e][j], NoTask}
  <2>1. CASE FinishAll(d)
    BY <1>1, <2>1 DEF FinishAll
  <2>2. CASE TimeoutKeys(d) \/ Crash(d)
    <3>1. task' = [task EXCEPT ![d] = [k \in Keys |-> NoTask]] /\ mode' = [mode EXCEPT ![d] = "idle"]
      BY <2>2 DEF TimeoutKeys, Crash
    <3>2. NoTask \in Tasks
      BY TaskTypes
    <3> QED BY <1>1, <3>1, <3>2
  <2>3. ASSUME NEW k \in Keys, Timeout(d, k)
        PROVE  /\ task' \in [Devices -> [Keys -> Tasks]] /\ mode' \in [Devices -> {"idle", "keys", "all", "one"}]
               /\ \A e \in Devices, j \in Keys : task'[e][j] \in {task[e][j], NoTask}
    <3>1. task' = [task EXCEPT ![d][k] = NoTask] /\ mode' = [mode EXCEPT ![d] = EndedWith(d)]
      BY <2>3 DEF Timeout, Completed
    <3>2. NoTask \in Tasks /\ EndedWith(d) \in {"idle", "keys", "all", "one"}
      BY <1>1, TaskTypes DEF EndedWith
    <3> QED BY <1>1, <3>1, <3>2
  <2> QED BY <2>1, <2>2, <2>3
<1>5. \A e \in Devices, j \in Keys : TaskAgrees(task'[e][j], local[e][j], server[j])
  BY <1>4, OneOf, NoTaskAgrees
<1> QED BY <1>2, <1>3, <1>4, <1>5, TasksStep

(***************************************************************************)
(* The theorems.                                                           *)
(***************************************************************************)
LEMMA InitAgrees == Init => Inductive
<1> SUFFICES ASSUME Init PROVE Inductive
  OBVIOUS
<1>1. /\ NoRow \in Rows /\ SyncedRow \in Rows /\ NoObject \in Objects /\ SyncedObject \in Objects
      /\ NoRow.remote = 0 /\ SyncedRow.remote = 1 /\ SyncedObject.version = 1
      /\ SyncedRow.deleted = SyncedObject.deleted /\ SyncedRow.write = SyncedObject.write
  <2>1. 0 \in 0..MaxWrites /\ 0 \in 0..MaxTime /\ 1 \in 0..MaxTime
    BY StoreAssumption
  <2> QED BY <2>1 DEF NoRow, SyncedRow, NoObject, SyncedObject, Rows, Objects
<1>2. /\ server \in [Keys -> Objects] /\ local \in [Devices -> [Keys -> Rows]]
      /\ task \in [Devices -> [Keys -> Tasks]] /\ \A d \in Devices, k \in Keys : task[d][k] = NoTask
  BY <1>1, TaskTypes DEF Init
<1>3. TypeOK
  <2>1. Second \in Second..MaxTime /\ 0 \in 0..MaxWrites /\ 0 \in 0..MaxSyncs /\ 0 \in 0..MaxFaults
    BY StoreAssumption
  <2> QED BY <1>2, <2>1, Types DEF Init
<1>4. Agree
  <2> SUFFICES ASSUME NEW d \in Devices, NEW k \in Keys
               PROVE  RowAgrees(local[d][k], server[k]) /\ TaskAgrees(task[d][k], local[d][k], server[k])
    BY DEF Agree
  <2>1. TaskAgrees(task[d][k], local[d][k], server[k])
    BY <1>2, NoTaskAgrees
  <2>2. server[k] \in {NoObject, SyncedObject}
        /\ local[d][k] = IF server[k] = NoObject THEN NoRow ELSE SyncedRow
    BY DEF Init
  <2>3. server[k].version \in Nat
    BY <1>2 DEF Objects
  <2>4. RowAgrees(local[d][k], server[k])
    BY <1>1, <2>2, <2>3 DEF RowAgrees, Shows
  <2> QED BY <2>1, <2>4
<1> QED BY <1>3, <1>4 DEF Inductive

\* Every step keeps the invariant.
LEMMA StepAgrees == Inductive /\ [Next]_vars => Inductive'
<1> SUFFICES ASSUME Inductive, [Next]_vars PROVE Inductive'
  OBVIOUS
<1>1. CASE Tick
  BY <1>1, StoreAssumption DEF Tick, Inductive, TypeOK, Agree
<1>2. CASE ServeLate
  BY <1>2, ServeLateStep
<1>3. ASSUME NEW d \in Devices, SyncAllKeys(d) \/ TimeoutKeys(d) \/ Crash(d)
      PROVE  Inductive'
  BY <1>3, StartStep, EndStep
<1>4. ASSUME NEW d \in Devices, Sync(d)
      PROVE  Inductive'
  BY <1>4, ServeKeysStep, KeysAnsweredStep, EndStep, ServeVerStep, StartKeyStep, RemoveStep, ServeUploadStep, ServeGetStep,
     RecordStep, GetAnsweredStep DEF Sync
<1>5. ASSUME NEW d \in Devices, NEW k \in Keys, Set(d, k) \/ Del(d, k) \/ SyncKey(d, k) \/ Timeout(d, k)
      PROVE  Inductive'
  BY <1>5, WriteStep, StartStep, EndStep
<1>6. CASE UNCHANGED vars
  BY <1>6 DEF vars, Inductive, TypeOK, Agree
<1> QED BY <1>1, <1>2, <1>3, <1>4, <1>5, <1>6 DEF Next

\* Rows, objects, tasks of syncs and requests in flight keep their types on any number of devices, whatever
\* times out or is killed.
THEOREM StoreTypeCorrect == Spec => []TypeOK
<1>1. Inductive => TypeOK
  BY DEF Inductive
<1> QED BY InitAgrees, StepAgrees, <1>1, PTL DEF Spec

\* RecordedIsEqual, for any number of devices and keys: the optimisation of _syncKey, which does nothing when
\* the recorded version is the version of the server, never leaves a row that differs from the object.
THEOREM RecordedIsEqualCorrect == Spec => []RecordedIsEqual
<1>1. Inductive => RecordedIsEqual
  BY DEF Inductive, Agree, RowAgrees, Shows, RecordedIsEqual
<1> QED BY InitAgrees, StepAgrees, <1>1, PTL DEF Spec
=============================================================================
