------------------------ MODULE BRReplicatedKVStore ------------------------
(***************************************************************************)
(* The replicated key-value store of the application: each device keeps    *)
(* numbered versions of a key in a local database and exchanges them with  *)
(* a server, "last write wins" by time stamps, with optimistic locking on  *)
(* both sides.                                                             *)
(*                                                                         *)
(* A row is the newest version of a key in the database of a device; older *)
(* versions stay in the table and are not read by anything modelled here.  *)
(* What is stored is the number of the application's write. A transaction  *)
(* of the database (txn) is one step, and so is the main thread's check    *)
(* and update of syncRunning. All clocks show the same time.               *)
(*                                                                         *)
(* The server is external. It accepts a put or a del of the version it     *)
(* has, and creates a key with version 1.                                  *)
(***************************************************************************)
EXTENDS Integers, FiniteSets

CONSTANTS
    Devices,
    Keys,
    Second,      \* ticks of the clock in a second: an HTTP date has whole seconds
    MaxTime,     \* bound: the clock
    MaxWrites,   \* bound: calls of set and del by the application
    MaxSyncs,    \* bound: calls of syncAllKeys and syncKey
    MaxFaults    \* bound: requests that time out, data that cannot be decrypted, crashes

ASSUME StoreAssumption ==
    /\ Second \in Nat \ {0} /\ MaxTime \in Nat /\ Second > 1 /\ MaxTime >= Second
    /\ MaxWrites \in Nat /\ MaxSyncs \in Nat /\ MaxFaults \in Nat

VARIABLES
    clock,
    local,    \* local[d][k]: the newest row of k on d
    server,   \* server[k]: the object of k on the server
    mode,     \* mode[d]: why syncRunning is on
    task,     \* task[d][k]: the sync of k on d
    late,     \* requests whose answer nobody waits for any more
    writes, syncs, faults

vars == <<clock, local, server, mode, task, late, writes, syncs, faults>>

NoRow == [version |-> 0, write |-> 0, time |-> 0, deleted |-> FALSE, remote |-> 0]
NoObject == [version |-> 0, write |-> 0, time |-> 0, deleted |-> FALSE]

(***************************************************************************)
(* The sync of one key. Its stages:                                        *)
(*   "ver", "keys"  asked for the remote version of the key, of all keys   *)
(*   "listed"       the answer of keys is on its way                       *)
(*   "known"        _syncKey starts                                        *)
(*   "remove"       the remote object is deleted, the row is to follow     *)
(*   "sent"         a put, del or get has been sent                        *)
(*   "answered"     the answer is on its way; err is its error             *)
(*   "stored"       the row is written, its remote version is not          *)
(***************************************************************************)
NoTask == [stage |-> "idle", op |-> "none", localVer |-> 0, remoteVer |-> 0, remoteTime |-> 0, err |-> "nil", write |-> 0]

\* a row after an upload or a download, and its object
SyncedRow == [NoRow EXCEPT !.version = 2, !.time = 1, !.remote = 1]
SyncedObject == [NoObject EXCEPT !.version = 1, !.time = 1]

\* a key that nobody has, or one that every device has got from the server earlier
Init ==
    /\ clock = Second
    /\ server \in [Keys -> {NoObject, SyncedObject}]
    /\ local = [d \in Devices |-> [k \in Keys |-> IF server[k] = NoObject THEN NoRow ELSE SyncedRow]]
    /\ mode = [d \in Devices |-> "idle"]
    /\ task = [d \in Devices |-> [k \in Keys |-> NoTask]]
    /\ late = {} /\ writes = 0 /\ syncs = 0 /\ faults = 0

syncRunning(d) == mode[d] # "idle"

Tick == clock < MaxTime /\ clock' = clock + 1 /\ UNCHANGED <<local, server, mode, task, late, writes, syncs, faults>>

(***************************************************************************)
(* Rows: each function gives the row the transaction inserts.              *)
(***************************************************************************)
\* _set
SetRow(row, write) == [version |-> row.version + 1, write |-> write, time |-> clock, deleted |-> FALSE, remote |-> 0]
\* _del: the value is copied
DelRow(row) == [row EXCEPT !.version = @ + 1, !.time = clock, !.deleted = TRUE, !.remote = 0]

\* mutated: the version the caller has read is not compared
UncheckedRemoteVersion(row, localVer, remoteVer) ==
    IF row.version # 0 THEN [row EXCEPT !.version = @ + 1, !.time = clock, !.remote = remoteVer] ELSE row

\* setRemoteVersion; a conflict leaves the row
RemoteVersionRow(row, localVer, remoteVer) ==
    IF localVer # 0 /\ row.version = localVer
    THEN [row EXCEPT !.version = @ + 1, !.time = clock, !.remote = remoteVer] ELSE row

Store(d, k, row) == local' = [local EXCEPT ![d][k] = row]

\* set and del as the application calls them, with the version it has just read; a call with another
\* version is a conflict and changes nothing
Set(d, k) ==
    /\ writes < MaxWrites /\ writes' = writes + 1
    /\ Store(d, k, SetRow(local[d][k], writes + 1))
    /\ UNCHANGED <<clock, server, mode, task, late, syncs, faults>>
Del(d, k) ==
    /\ writes < MaxWrites /\ writes' = writes + 1
    /\ local[d][k].version # 0
    /\ Store(d, k, DelRow(local[d][k]))
    /\ UNCHANGED <<clock, server, mode, task, late, syncs, faults>>

(***************************************************************************)
(* Starting and ending a sync.                                             *)
(***************************************************************************)
\* syncAllKeys up to the request for the keys
SyncAllKeys(d) ==
    /\ ~syncRunning(d) /\ syncs < MaxSyncs /\ syncs' = syncs + 1
    /\ mode' = [mode EXCEPT ![d] = "keys"]
    /\ task' = [task EXCEPT ![d] = [k \in Keys |-> [NoTask EXCEPT !.stage = "keys"]]]
    /\ UNCHANGED <<clock, local, server, late, writes, faults>>

\* syncKey up to the request for the version
SyncKey(d, k) ==
    /\ ~syncRunning(d) /\ syncs < MaxSyncs /\ syncs' = syncs + 1
    /\ mode' = [mode EXCEPT ![d] = "one"]
    /\ task' = [task EXCEPT ![d][k] = [NoTask EXCEPT !.stage = "ver"]]
    /\ UNCHANGED <<clock, local, server, late, writes, faults>>

\* mutated: the handler of a single key does not end the sync
EndedNever(d) == mode[d]

\* the completion handler of syncKey ends the sync
EndedWith(d) == IF mode[d] = "one" THEN "idle" ELSE mode[d]

\* the sync of k calls its completion handler
Completed(d, k) ==
    /\ task' = [task EXCEPT ![d][k] = NoTask]
    /\ mode' = [mode EXCEPT ![d] = EndedWith(d)]
Continues(d, k, t) == task' = [task EXCEPT ![d][k] = t] /\ UNCHANGED mode

\* the end of syncAllKeys, after the wait for the group
FinishAll(d) ==
    /\ mode[d] = "all" /\ \A k \in Keys : task[d][k] = NoTask
    /\ mode' = [mode EXCEPT ![d] = "idle"]
    /\ UNCHANGED <<clock, local, server, task, late, writes, syncs, faults>>

\* what the answers of ver and keys say of an object
RemoteHead(o, time) ==
    [NoTask EXCEPT !.remoteVer = o.version, !.remoteTime = time, !.err = IF o.deleted THEN "tombstone" ELSE "nil"]

\* the server answers ver; for a missing object the headers are missing, which is an unknown error
ServeVer(d, k) ==
    /\ task[d][k].stage = "ver"
    /\ LET o == server[k]
           t == IF o.version = 0 THEN [NoTask EXCEPT !.err = "unknown"] ELSE RemoteHead(o, o.time - (o.time % Second))
       IN  Continues(d, k, [t EXCEPT !.stage = "known"])
    /\ UNCHANGED <<clock, local, server, late, writes, syncs, faults>>

\* the server answers keys
ServeKeys(d) ==
    /\ mode[d] = "keys" /\ \A k \in Keys : task[d][k].stage = "keys"
    /\ task' = [task EXCEPT ![d] = [k \in Keys |-> [RemoteHead(server[k], server[k].time) EXCEPT !.stage = "listed"]]]
    /\ UNCHANGED <<clock, local, server, mode, late, writes, syncs, faults>>

\* syncAllKeys, the handler of keys: the keys of the server and of the database are synced
KeysAnswered(d) ==
    /\ mode[d] = "keys" /\ \A k \in Keys : task[d][k].stage = "listed"
    /\ mode' = [mode EXCEPT ![d] = "all"]
    /\ task' = [task EXCEPT ![d] = [k \in Keys |-> IF task[d][k].remoteVer # 0 \/ local[d][k].version # 0
                                                   THEN [task[d][k] EXCEPT !.stage = "known"] ELSE NoTask]]
    /\ UNCHANGED <<clock, local, server, late, writes, syncs, faults>>

(***************************************************************************)
(* _syncKey.                                                               *)
(***************************************************************************)
\* mutated: the version before the one of the server
UseRemoteVerBefore(t, row) == t.remoteVer - 1

\* the version of a put: 1 creates the object
UseRemoteVer(t, row) == IF t.remoteVer = 0 \/ t.remoteVer < row.remote THEN 1 ELSE t.remoteVer

\* the remote version of the row is the one of the server: nothing to do
AlreadyEqual(t, row) == t.remoteVer > 0 /\ row.remote = t.remoteVer

\* _syncKey up to its request or its first change
StartKey(d, k) ==
    /\ task[d][k].stage = "known"
    /\ LET row == local[d][k]
           t == [task[d][k] EXCEPT !.localVer = row.version]
           newer == row.time >= t.remoteTime
       IN  \/ AlreadyEqual(t, row) /\ Completed(d, k)
           \/ ~AlreadyEqual(t, row) /\ t.err = "unknown" /\ Completed(d, k)
           \/ /\ ~AlreadyEqual(t, row) /\ t.err # "unknown"
              /\ \/ t.err = "tombstone" /\ row.deleted /\ Continues(d, k, [t EXCEPT !.stage = "stored"])
                 \/ t.err = "nil" /\ row.deleted /\ newer
                    /\ Continues(d, k, [t EXCEPT !.stage = "sent", !.op = "del"])
                 \/ ~row.deleted /\ newer
                    /\ Continues(d, k, [t EXCEPT !.stage = "sent", !.op = "put", !.write = row.write,
                                                 !.remoteVer = UseRemoteVer(t, row)])
                 \/ t.err = "tombstone" /\ ~row.deleted /\ ~newer /\ row.version = 0 /\ Completed(d, k)
                 \/ t.err = "tombstone" /\ ~row.deleted /\ ~newer /\ row.version # 0
                    /\ Continues(d, k, [t EXCEPT !.stage = "remove"])
                 \/ t.err = "nil" /\ ~newer /\ Continues(d, k, [t EXCEPT !.stage = "sent", !.op = "get"])
    /\ UNCHANGED <<clock, local, server, late, writes, syncs, faults>>

\* the object is deleted on the server and older here
Remove(d, k) ==
    /\ task[d][k].stage = "remove"
    /\ LET t == task[d][k]
           row == local[d][k]
       IN  \/ row.version # t.localVer /\ Completed(d, k) /\ UNCHANGED local
           \/ /\ row.version = t.localVer /\ Store(d, k, DelRow(row))
              /\ Continues(d, k, [t EXCEPT !.stage = "stored", !.localVer = @ + 1])
    /\ UNCHANGED <<clock, server, late, writes, syncs, faults>>

\* the answer of a put or a del; an error, not found among them, changes nothing
UploadAnswered(d, k) ==
    /\ task[d][k].stage = "answered" /\ task[d][k].op \in {"put", "del"}
    /\ LET t == task[d][k]
       IN  IF t.err = "nil" THEN Store(d, k, RemoteVersionRow(local[d][k], t.localVer, t.remoteVer)) ELSE UNCHANGED local
    /\ Completed(d, k)
    /\ UNCHANGED <<clock, server, late, writes, syncs, faults>>

\* the answer of a get; data that cannot be decrypted deletes the row
GetAnswered(d, k) ==
    /\ task[d][k].stage = "answered" /\ task[d][k].op = "get"
    /\ LET t == task[d][k]
           row == local[d][k]
           same == row.version = t.localVer
       IN  \/ t.err # "nil" /\ Completed(d, k) /\ UNCHANGED <<local, faults>>
           \/ t.err = "nil" /\ ~same /\ Completed(d, k) /\ UNCHANGED <<local, faults>>
           \/ /\ t.err = "nil" /\ same /\ Store(d, k, SetRow(row, t.write)) /\ UNCHANGED faults
              /\ Continues(d, k, [t EXCEPT !.stage = "stored", !.localVer = @ + 1])
           \/ /\ t.err = "nil" /\ faults < MaxFaults /\ faults' = faults + 1
              /\ Completed(d, k)
              /\ IF same /\ row.version # 0 THEN Store(d, k, DelRow(row)) ELSE UNCHANGED local
    /\ UNCHANGED <<clock, server, late, writes, syncs>>

\* the remote version is recorded after the row
Record(d, k) ==
    /\ task[d][k].stage = "stored"
    /\ LET t == task[d][k]
       IN  Store(d, k, RemoteVersionRow(local[d][k], t.localVer, t.remoteVer))
    /\ Completed(d, k)
    /\ UNCHANGED <<clock, server, late, writes, syncs, faults>>

(***************************************************************************)
(* The server and the network.                                             *)
(***************************************************************************)
\* the server's lock: a put or a del of a missing object with version 1 creates it
Accepts(k, r) ==
    IF server[k].version = 0 THEN r.op = "put" /\ r.remoteVer = 1 ELSE r.remoteVer = server[k].version
Changed(k, r) ==
    [version |-> server[k].version + 1, time |-> clock, deleted |-> r.op = "del",
     write |-> IF r.op = "del" THEN server[k].write ELSE r.write]

\* the server answers a put or a del
ServeUpload(d, k) ==
    /\ task[d][k].stage = "sent" /\ task[d][k].op \in {"put", "del"}
    /\ LET t == task[d][k]
       IN  IF Accepts(k, t)
           THEN /\ server' = [server EXCEPT ![k] = Changed(k, t)]
                /\ Continues(d, k, [t EXCEPT !.stage = "answered", !.err = "nil", !.remoteVer = server[k].version + 1])
           ELSE Continues(d, k, [t EXCEPT !.stage = "answered", !.err = "conflict"]) /\ UNCHANGED server
    /\ UNCHANGED <<clock, local, late, writes, syncs, faults>>

\* the server answers a get: the object has not changed, or it has, which is a conflict or gives the new one
ServeGet(d, k) ==
    /\ task[d][k].stage = "sent" /\ task[d][k].op = "get"
    /\ LET t == task[d][k]
           o == server[k]
       IN  \/ /\ ~o.deleted
              /\ Continues(d, k, [t EXCEPT !.stage = "answered", !.err = "nil", !.remoteVer = o.version, !.write = o.write])
           \/ o.version # t.remoteVer /\ Continues(d, k, [t EXCEPT !.stage = "answered", !.err = "conflict"])
    /\ UNCHANGED <<clock, local, server, late, writes, syncs, faults>>

\* a put or a del that was sent and given up may still arrive
Abandoned(S, d) ==
    {[op |-> task[d][k].op, key |-> k, remoteVer |-> task[d][k].remoteVer, write |-> task[d][k].write] :
        k \in {j \in S : task[d][j].stage = "sent" /\ task[d][j].op \in {"put", "del"}}}

\* a request times out, or its answer is lost
Timeout(d, k) ==
    /\ faults < MaxFaults /\ faults' = faults + 1
    /\ task[d][k].stage \in {"ver", "sent", "answered"}
    /\ late' = late \cup Abandoned({k}, d)
    /\ Completed(d, k)
    /\ UNCHANGED <<clock, local, server, writes, syncs>>
TimeoutKeys(d) ==
    /\ faults < MaxFaults /\ faults' = faults + 1
    /\ mode[d] = "keys" /\ mode' = [mode EXCEPT ![d] = "idle"]
    /\ task' = [task EXCEPT ![d] = [k \in Keys |-> NoTask]]
    /\ UNCHANGED <<clock, local, server, late, writes, syncs>>

ServeLate ==
    /\ \E r \in late :
          /\ late' = late \ {r}
          /\ server' = IF Accepts(r.key, r) THEN [server EXCEPT ![r.key] = Changed(r.key, r)] ELSE server
    /\ UNCHANGED <<clock, local, mode, task, writes, syncs, faults>>

\* the application is killed: the database stays
Crash(d) ==
    /\ syncRunning(d) /\ faults < MaxFaults /\ faults' = faults + 1
    /\ mode' = [mode EXCEPT ![d] = "idle"]
    /\ late' = late \cup Abandoned(Keys, d)
    /\ task' = [task EXCEPT ![d] = [k \in Keys |-> NoTask]]
    /\ UNCHANGED <<clock, local, server, writes, syncs>>

Sync(d) ==
    \/ ServeKeys(d) \/ KeysAnswered(d) \/ FinishAll(d)
    \/ \E k \in Keys : \/ ServeVer(d, k) \/ StartKey(d, k) \/ Remove(d, k) \/ ServeUpload(d, k) \/ ServeGet(d, k)
                       \/ UploadAnswered(d, k) \/ GetAnswered(d, k) \/ Record(d, k)

Next ==
    \/ Tick \/ ServeLate
    \/ \E d \in Devices :
          \/ SyncAllKeys(d) \/ Sync(d) \/ TimeoutKeys(d) \/ Crash(d)
          \/ \E k \in Keys : Set(d, k) \/ Del(d, k) \/ SyncKey(d, k) \/ Timeout(d, k)

Spec == Init /\ [][Next]_vars

\* every request is answered, and every handler runs
FairSpec == Spec /\ \A d \in Devices : WF_vars(Sync(d))

Rows == [version : Nat, write : 0..MaxWrites, time : 0..MaxTime, deleted : BOOLEAN, remote : Nat]
TypeOK ==
    /\ clock \in Second..MaxTime
    /\ local \in [Devices -> [Keys -> Rows]]
    /\ server \in [Keys -> [version : Nat, write : 0..MaxWrites, time : 0..MaxTime, deleted : BOOLEAN]]
    /\ mode \in [Devices -> {"idle", "keys", "all", "one"}]
    /\ task \in [Devices -> [Keys -> [stage : {"idle", "ver", "keys", "listed", "known", "remove", "sent", "answered", "stored"},
                                       op : {"none", "put", "del", "get"}, localVer : Nat, remoteVer : Nat,
                                       remoteTime : 0..MaxTime, err : {"nil", "tombstone", "unknown", "conflict"},
                                       write : 0..MaxWrites]]]
    /\ late \subseteq [op : {"put", "del"}, key : Keys, remoteVer : Nat, write : 0..MaxWrites]
    /\ writes \in 0..MaxWrites /\ syncs \in 0..MaxSyncs /\ faults \in 0..MaxFaults

\* "one optimization is we keep the remote version on the most recent local version, if they match, there is
\* nothing to do": a row that records the version of the server shows what the server has, whatever the
\* application writes while a sync runs, and when requests time out, arrive late, or the application is killed.
RecordedIsEqual ==
    \A d \in Devices, k \in Keys :
        LET row == local[d][k]
            o == server[k]
        IN  row.remote # 0 /\ row.remote = o.version => row.deleted = o.deleted /\ (o.deleted \/ row.write = o.write)

\* A sync ends, so that the next one is not refused.
SyncEnds == \A d \in Devices : syncRunning(d) ~> ~syncRunning(d)

\* "this is a basic last-write-wins strategy": no sync puts an older write back in the place of a newer one.
LastWriteWins == [][\A d \in Devices, k \in Keys : local'[d][k].write >= local[d][k].write]_vars
=============================================================================
