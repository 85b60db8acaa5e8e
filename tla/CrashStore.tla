----------------------------- MODULE CrashStore -----------------------------
(***************************************************************************)
(* The crash half of the server's storage tree: POST /v1/crashes handlers  *)
(* (crashes.rs) that turn multipart parts into content-addressed blobs and *)
(* publish an index, and the retention janitor (janitor.rs) that expires   *)
(* indexes and sweeps the blobs no index refers to.  Handlers and janitor  *)
(* are tokio tasks over one directory tree: they interleave at each await  *)
(* and share no lock.                                                      *)
(*                                                                         *)
(* A blob stands for its SHA-256 digest and so for its content.  A key     *)
(* stands for (source, timestamp); an index path is a key and the dump's   *)
(* digest.  Time is counted in days, the unit of the retention setting.    *)
(***************************************************************************)
EXTENDS Integers, FiniteSets

CONSTANTS
    Handlers,     \* requests that can be in flight together
    Blobs,        \* part contents, by digest
    Keys,         \* (source, timestamp) of a crash
    None,         \* no dump yet, no index file under examination
    CrashesTtl,   \* RetentionConfig.crashes_ttl_days
    MaxNow,       \* bound on the clock, in days
    MaxUploads,   \* bound on admitted requests
    MaxParts,     \* bound on the parts of one request
    MaxFaults     \* bound on aborted requests, janitor errors and crashes

ASSUME CrashStoreAssumption ==
    /\ None \notin Blobs /\ None \notin Keys
    /\ None \notin Keys \X Blobs
    /\ IsFiniteSet(Handlers)
    /\ CrashesTtl \in Nat
    /\ {MaxNow, MaxUploads, MaxParts, MaxFaults} \subseteq Nat

VARIABLES
    blobs,        \* files under crashes/by-hash
    idx,          \* files under crashes/by-source
    pc,           \* where each handler is
    req,          \* what each handler has gathered: BlobPointers and dump
    detached,     \* handlers writing to an index file that was unlinked
    tmp,          \* number of files under tmp/
    jpc,          \* where the janitor is
    snapshot,     \* blob_snapshot, less what was swept
    files,        \* index files listed and not yet examined
    cur,          \* the index file under examination
    seen,         \* its modification time, as is_older_than read it
    referenced,   \* digests collected from live indexes
    now,          \* the clock
    uploads,      \* requests admitted so far
    faults,       \* faults so far
    stray,        \* history: requests that ended in the middle of a part
    raced         \* history: uploads that held a snapshotted blob while the
                  \* janitor was collecting references or sweeping

handlerVars == <<pc, req, detached>>
janitorVars == <<jpc, snapshot, files, cur, seen, referenced>>
tmpVars == <<tmp, stray>>
boundVars == <<now, uploads, faults>>
vars == <<blobs, idx, handlerVars, tmpVars, janitorVars, boundVars, raced>>

Paths == Keys \X Blobs
Phases == {"idle", "parts", "writing", "link", "unlink", "fill"}
JanitorPhases == {"idle", "snapshot", "logs", "listing", "prune", "remove", "read"}
PartKinds == {"dump", "attach"}
Pointer == [sha: Blobs, dedup: BOOLEAN]
IndexState == {"absent", "partial", "complete", "garbled"}
IndexFile == [state: IndexState, refs: SUBSET Blobs, mtime: Nat, raced: BOOLEAN]
Request == [key: Keys \cup {None}, dump: Blobs \cup {None}, ptrs: SUBSET Pointer,
            part: Blobs \cup {None}, kind: PartKinds, parts: Nat]

NoFile == [state |-> "absent", refs |-> {}, mtime |-> 0, raced |-> FALSE]
NoRequest == [key |-> None, dump |-> None, ptrs |-> {}, part |-> None,
              kind |-> "attach", parts |-> 0]

Held(h) == {p.sha : p \in req[h].ptrs}
Present == {p \in Paths : idx[p].state # "absent"}
IndexPath(h) == <<req[h].key, req[h].dump>>

\* Between the listing of by-source and the end of the sweep the janitor acts
\* on what it has read of the indexes so far.
Collecting == jpc \in {"listing", "prune", "remove", "read"}

\* Defect: an index is taken for old a day early.
IsOlderThan_Early(p) == CrashesTtl = 0 \/ idx[p].mtime + CrashesTtl <= now + 1

\* Defect: an index exactly crashes_ttl_days old is kept.
IsOlderThan_Strict(p) == CrashesTtl = 0 \/ idx[p].mtime + CrashesTtl < now

IsOlderThan(p) == CrashesTtl = 0 \/ idx[p].mtime + CrashesTtl <= now

Init ==
    /\ blobs = {}
    /\ idx = [p \in Paths |-> NoFile]
    /\ pc = [h \in Handlers |-> "idle"]
    /\ req = [h \in Handlers |-> NoRequest]
    /\ detached = {}
    /\ tmp = 0 /\ stray = 0
    /\ jpc = "idle" /\ snapshot = {} /\ files = {} /\ cur = None /\ seen = 0
    /\ referenced = {}
    /\ now = 0 /\ uploads = 0 /\ faults = 0
    /\ raced = {}

-----------------------------------------------------------------------------
(* Handlers                                                                *)

\* The handler's future is gone: it answered, or was dropped.
Finish(h) ==
    /\ pc' = [pc EXCEPT ![h] = "idle"]
    /\ req' = [req EXCEPT ![h] = NoRequest]
    /\ detached' = detached \ {h}
    /\ raced' = raced \ {h}

\* Everything up to the part loop.  A request that fails a check on the way
\* answers with an error and leaves the tree alone.
Admit(h) ==
    /\ pc[h] = "idle"
    /\ uploads < MaxUploads
    /\ uploads' = uploads + 1
    /\ pc' = [pc EXCEPT ![h] = "parts"]
    /\ \E k \in Keys : req' = [req EXCEPT ![h].key = k]
    /\ UNCHANGED <<blobs, idx, detached, tmpVars, janitorVars, now, faults, raced>>

\* The next part is a dump or an attachment: its temporary file is created
\* and its chunks are written to it.
NextPart(h) ==
    /\ pc[h] = "parts"
    /\ req[h].parts < MaxParts
    /\ \E b \in Blobs, kind \in PartKinds :
        /\ kind = "dump" => req[h].dump = None
        /\ req' = [req EXCEPT ![h].part = b, ![h].kind = kind,
                              ![h].parts = req[h].parts + 1]
    /\ pc' = [pc EXCEPT ![h] = "writing"]
    /\ tmp' = tmp + 1
    /\ UNCHANGED <<blobs, idx, detached, stray, janitorVars, boundVars, raced>>

\* 400 for a second metadata or dump part, a part with another name or with
\* none, a body that ends without a dump or breaks off between two parts.
\* Blobs linked for earlier parts stay behind.
RejectParts(h) ==
    /\ pc[h] = "parts"
    /\ Finish(h)
    /\ UNCHANGED <<blobs, idx, tmpVars, janitorVars, boundVars>>

\* Defect: the error path forgets the temporary file.
RejectOversize_Leaks(h) ==
    /\ pc[h] = "writing"
    /\ Finish(h)
    /\ UNCHANGED <<blobs, idx, tmpVars, janitorVars, boundVars>>

\* 413: the part is larger than max_dump_bytes; its temporary file is removed.
RejectOversize(h) ==
    /\ pc[h] = "writing"
    /\ Finish(h)
    /\ tmp' = tmp - 1
    /\ UNCHANGED <<blobs, idx, stray, janitorVars, boundVars>>

\* 400: the part breaks off or is malformed, so that field.chunk() fails; its
\* temporary file stays.
RejectBody(h) ==
    /\ pc[h] = "writing"
    /\ Finish(h)
    /\ stray' = stray + 1
    /\ UNCHANGED <<blobs, idx, tmp, janitorVars, boundVars>>

\* The handler settles on pointing to blob b.
Point(h, b, dedup) ==
    /\ req' = [req EXCEPT ![h].ptrs = req[h].ptrs \cup {[sha |-> b, dedup |-> dedup]},
                          ![h].dump = IF req[h].kind = "dump" THEN b ELSE req[h].dump]
    /\ raced' = IF Collecting /\ b \in snapshot THEN raced \cup {h} ELSE raced
    /\ pc' = [pc EXCEPT ![h] = "unlink"]

\* The temporary file is synced and finalize_blob asks whether the digest is
\* already stored.
TryExists(h) ==
    /\ pc[h] = "writing"
    /\ \/ /\ req[h].part \in blobs
          /\ Point(h, req[h].part, TRUE)
       \/ /\ req[h].part \notin blobs
          /\ pc' = [pc EXCEPT ![h] = "link"]
          /\ UNCHANGED <<req, raced>>
    /\ UNCHANGED <<blobs, idx, detached, tmpVars, janitorVars, boundVars>>

\* Defect: rename instead of hard_link, which replaces a blob in silence.
HardLink_Rename(h) ==
    /\ pc[h] = "link"
    /\ Point(h, req[h].part, FALSE)
    /\ blobs' = blobs \cup {req[h].part}
    /\ UNCHANGED <<idx, detached, tmpVars, janitorVars, boundVars>>

\* hard_link either creates the blob or reports that another handler did.
HardLink(h) ==
    /\ pc[h] = "link"
    /\ \/ /\ req[h].part \notin blobs
          /\ blobs' = blobs \cup {req[h].part}
          /\ Point(h, req[h].part, FALSE)
       \/ /\ req[h].part \in blobs
          /\ UNCHANGED blobs
          /\ Point(h, req[h].part, TRUE)
    /\ UNCHANGED <<idx, detached, tmpVars, janitorVars, boundVars>>

\* hard_link fails for another reason: the temporary file is removed, 500.
HardLinkError(h) ==
    /\ pc[h] = "link"
    /\ Finish(h)
    /\ tmp' = tmp - 1
    /\ UNCHANGED <<blobs, idx, stray, janitorVars, boundVars>>

\* The temporary file is removed and the part loop goes on.
RemoveTemp(h) ==
    /\ pc[h] = "unlink"
    /\ pc' = [pc EXCEPT ![h] = "parts"]
    /\ req' = [req EXCEPT ![h].part = None, ![h].kind = "attach"]
    /\ tmp' = tmp - 1
    /\ UNCHANGED <<blobs, idx, detached, stray, janitorVars, boundVars, raced>>

\* Defect: the check for a missing dump part is dropped.
OpenIndex_NoDump(h) ==
    /\ pc[h] = "parts"
    /\ pc' = [pc EXCEPT ![h] = "fill"]
    /\ idx' = [idx EXCEPT ![IndexPath(h)] = [NoFile EXCEPT !.state = "partial", !.mtime = now]]
    /\ UNCHANGED <<blobs, req, detached, tmpVars, janitorVars, boundVars, raced>>

\* write_index, first half: fs::write creates or truncates the file.
OpenIndex(h) ==
    /\ pc[h] = "parts"
    /\ req[h].dump # None
    /\ pc' = [pc EXCEPT ![h] = "fill"]
    /\ idx' = [idx EXCEPT ![IndexPath(h)] = [NoFile EXCEPT !.state = "partial", !.mtime = now]]
    /\ UNCHANGED <<blobs, req, detached, tmpVars, janitorVars, boundVars, raced>>

\* What the file holds after a handler writes its JSON from offset 0.  Over
\* the text of another writer, which may be longer, a tail can remain.
Written(h, old) ==
    {[state |-> s, refs |-> IF s = "complete" THEN Held(h) ELSE {}, mtime |-> now,
      raced |-> s = "complete" /\ h \in raced] :
        s \in IF old.state = "partial" THEN {"complete"} ELSE {"complete", "garbled"}}

\* write_index, second half, and 201 Created.
FillIndex(h) ==
    /\ pc[h] = "fill"
    /\ \/ /\ h \notin detached
          /\ \E f \in Written(h, idx[IndexPath(h)]) : idx' = [idx EXCEPT ![IndexPath(h)] = f]
       \/ /\ h \in detached
          /\ UNCHANGED idx
    /\ Finish(h)
    /\ UNCHANGED <<blobs, tmpVars, janitorVars, boundVars>>

HoldsTemp(h) == pc[h] \in {"writing", "link", "unlink"}
Holding == {h \in Handlers : HoldsTemp(h)}
Busy == {h \in Handlers : pc[h] # "idle"}

\* A file operation fails, the removal of a temporary file on an error path
\* included, or the client hangs up and the future is dropped: nothing is
\* undone.
Abort(h) ==
    /\ pc[h] # "idle"
    /\ faults < MaxFaults
    /\ faults' = faults + 1
    /\ stray' = IF HoldsTemp(h) THEN stray + 1 ELSE stray
    /\ Finish(h)
    /\ UNCHANGED <<blobs, idx, tmp, janitorVars, now, uploads>>

-----------------------------------------------------------------------------
(* The janitor                                                             *)

EndCycleState ==
    /\ jpc' = "idle"
    /\ snapshot' = {} /\ files' = {} /\ cur' = None /\ seen' = 0
    /\ referenced' = {}

\* collect_files walks a directory tree while handlers add files to it: what
\* was there when the walk began is found, what comes later may be.
StartCycle ==
    /\ jpc = "idle"
    /\ jpc' = "snapshot"
    /\ snapshot' = blobs
    /\ UNCHANGED <<blobs, idx, handlerVars, tmpVars, files, cur, seen, referenced,
                   boundVars, raced>>

SnapshotBlobs ==
    /\ jpc = "snapshot"
    /\ jpc' = "logs"
    /\ \E S \in SUBSET blobs : snapshot \subseteq S /\ snapshot' = S
    /\ UNCHANGED <<blobs, idx, handlerVars, tmpVars, files, cur, seen, referenced,
                   boundVars, raced>>

\* prune_logs is over; the walk over by-source begins.
StartListing ==
    /\ jpc = "logs"
    /\ jpc' = "listing"
    /\ files' = Present
    /\ raced' = raced \cup {h \in Handlers : Held(h) \cap snapshot # {}}
    /\ UNCHANGED <<blobs, idx, handlerVars, tmpVars, snapshot, cur, seen, referenced, boundVars>>

ListIndexes ==
    /\ jpc = "listing"
    /\ jpc' = "prune"
    /\ \E S \in SUBSET Present : files \subseteq S /\ files' = S
    /\ UNCHANGED <<blobs, idx, handlerVars, tmpVars, snapshot, cur, seen, referenced,
                   boundVars, raced>>

\* is_older_than reads the modification time; acting on it is another await.
StatIndex(p) ==
    /\ jpc = "prune"
    /\ p \in files
    /\ files' = files \ {p}
    /\ cur' = p /\ seen' = idx[p].mtime
    /\ jpc' = IF IsOlderThan(p) THEN "remove" ELSE "read"
    /\ UNCHANGED <<blobs, idx, handlerVars, tmpVars, snapshot, referenced, boundVars, raced>>

RemoveIndex ==
    /\ jpc = "remove"
    /\ jpc' = "prune"
    /\ cur' = None /\ seen' = 0
    /\ idx' = [idx EXCEPT ![cur] = NoFile]
    /\ detached' = detached \cup {h \in Handlers : pc[h] = "fill" /\ IndexPath(h) = cur}
    /\ UNCHANGED <<blobs, pc, req, tmpVars, snapshot, files, referenced, boundVars, raced>>

\* Defect: only the dump is collected, not the attachments.
ReadIndex_DumpOnly ==
    /\ jpc = "read"
    /\ jpc' = "prune"
    /\ cur' = None /\ seen' = 0
    /\ referenced' = referenced \cup (idx[cur].refs \cap {cur[2]})
    /\ UNCHANGED <<blobs, idx, handlerVars, tmpVars, snapshot, files, boundVars, raced>>

\* Only a complete file parses; any other is passed over in silence.
ReadIndex ==
    /\ jpc = "read"
    /\ jpc' = "prune"
    /\ cur' = None /\ seen' = 0
    /\ referenced' = referenced \cup idx[cur].refs
    /\ UNCHANGED <<blobs, idx, handlerVars, tmpVars, snapshot, files, boundVars, raced>>

\* Defect: the sweep walks by-hash again instead of using the snapshot.
SweepBlob_NoSnapshot(b) ==
    /\ jpc = "prune" /\ files = {}
    /\ b \in blobs \ referenced
    /\ blobs' = blobs \ {b}
    /\ snapshot' = snapshot \ {b}
    /\ UNCHANGED <<idx, handlerVars, tmpVars, jpc, files, cur, seen, referenced, boundVars, raced>>

\* sweep_blobs, one blob of the snapshot at a time.
SweepBlob(b) ==
    /\ jpc = "prune" /\ files = {}
    /\ b \in snapshot \ referenced
    /\ blobs' = blobs \ {b}
    /\ snapshot' = snapshot \ {b}
    /\ UNCHANGED <<idx, handlerVars, tmpVars, jpc, files, cur, seen, referenced, boundVars, raced>>

\* Defect: the sweep may give up before the end of the snapshot.
FinishCycle_Early ==
    /\ jpc = "prune" /\ files = {}
    /\ EndCycleState
    /\ UNCHANGED <<blobs, idx, handlerVars, tmpVars, boundVars, raced>>

FinishCycle ==
    /\ jpc = "prune" /\ files = {}
    /\ snapshot \subseteq referenced
    /\ EndCycleState
    /\ UNCHANGED <<blobs, idx, handlerVars, tmpVars, boundVars, raced>>

\* Any I/O error ends the cycle where it stands; the next tick starts afresh.
JanitorError ==
    /\ jpc # "idle"
    /\ faults < MaxFaults
    /\ faults' = faults + 1
    /\ EndCycleState
    /\ UNCHANGED <<blobs, idx, handlerVars, tmpVars, now, uploads, raced>>

-----------------------------------------------------------------------------
(* The environment                                                         *)

\* The process dies and is started again: the tasks are gone, the tree stays.
Crash ==
    /\ faults < MaxFaults
    /\ faults' = faults + 1
    /\ stray' = stray + Cardinality(Holding)
    /\ pc' = [h \in Handlers |-> "idle"]
    /\ req' = [h \in Handlers |-> NoRequest]
    /\ detached' = {} /\ raced' = {}
    /\ EndCycleState
    /\ UNCHANGED <<blobs, idx, tmp, now, uploads>>

\* One fs::write does not last a day.
Tick ==
    /\ now < MaxNow
    /\ \A h \in Handlers : pc[h] # "fill"
    /\ now' = now + 1
    /\ UNCHANGED <<blobs, idx, handlerVars, tmpVars, janitorVars, uploads, faults, raced>>

HandlerStep(h) ==
    \/ Admit(h) \/ NextPart(h) \/ RejectParts(h) \/ RejectOversize(h) \/ RejectBody(h)
    \/ TryExists(h) \/ HardLink(h) \/ HardLinkError(h) \/ RemoveTemp(h)
    \/ OpenIndex(h) \/ FillIndex(h) \/ Abort(h)

JanitorCycle ==
    \/ StartCycle \/ SnapshotBlobs \/ StartListing \/ ListIndexes
    \/ \E p \in Paths : StatIndex(p)
    \/ RemoveIndex \/ ReadIndex
    \/ \E b \in Blobs : SweepBlob(b)
    \/ FinishCycle

Next ==
    \/ \E h \in Handlers : HandlerStep(h)
    \/ JanitorCycle
    \/ JanitorError
    \/ Crash
    \/ Tick

Spec == Init /\ [][Next]_vars

\* spawn_janitor loops on an interval for as long as the server runs.
FairSpec == Spec /\ WF_vars(JanitorCycle)
-----------------------------------------------------------------------------
(* Properties                                                              *)

\* Every variable holds what the code can put there: in particular a handler
\* writing its index has a dump, and the janitor's working sets are files of
\* the tree.  (That tmp is not negative is part of TempFilesAccountedFor.)
TypeOK ==
    /\ blobs \subseteq Blobs
    /\ idx \in [Paths -> IndexFile]
    /\ pc \in [Handlers -> Phases]
    /\ req \in [Handlers -> Request]
    /\ \A h \in Handlers :
        /\ pc[h] # "idle" => req[h].key # None
        /\ pc[h] \in {"writing", "link"} => req[h].part # None
        /\ pc[h] = "fill" => req[h].dump # None
    /\ detached \subseteq Handlers
    /\ tmp \in Int /\ stray \in Nat
    /\ jpc \in JanitorPhases
    /\ snapshot \subseteq Blobs
    /\ files \subseteq Paths
    /\ cur \in Paths \cup {None}
    /\ jpc \in {"remove", "read"} => cur # None
    /\ referenced \subseteq Blobs
    /\ {seen, now, uploads, faults} \subseteq Nat
    /\ raced \subseteq Handlers

\* "Retention must preserve every blob referenced by a live crash index."
\* The janitor does not: an upload that dedups against a blob, or links one
\* just before the snapshot, and publishes its index after by-source was
\* listed refers to a blob that the sweep removes (run_janitor_cycle,
\* finalize_blob).
LiveIndexesKeepBlobs ==
    \A p \in Paths : idx[p].state = "complete" => idx[p].refs \subseteq blobs

\* The race above is the only way to lose a blob.  An index whose upload never
\* held a snapshotted blob between the listing of by-source and the end of
\* that cycle's sweep has all its blobs for as long as it exists, whatever
\* uploads, cycles, aborts, errors and crashes follow.
UnracedIndexesKeepBlobs ==
    \A p \in Paths :
        idx[p].state = "complete" /\ ~idx[p].raced => idx[p].refs \subseteq blobs

\* The same for an upload under way: each blob it was told is stored
\* (write_part_to_blob returned a pointer) is still there when it comes to
\* write its index, unless the race above has met it.
UnracedUploadsKeepBlobs ==
    \A h \in Handlers \ raced : Held(h) \subseteq blobs

\* A file under tmp/ belongs to a part in progress, or to a request that ended
\* in the middle of one: it broke off there (400), a file operation failed, it was
\* dropped, or the process died.  Every other answer (201, 413, the 400s
\* between parts, 500 after a failed hard_link) has removed the file first, and no
\* request leaves more than one, however many parts it has.
TempFilesAccountedFor ==
    /\ tmp = Cardinality(Holding) + stray
    /\ tmp <= uploads

\* A blob that no index refers to does not stay so for ever: it is swept, or
\* an upload publishes an index that refers to it (sweep_blobs).
Orphan(b) ==
    b \in blobs /\ \A p \in Paths : b \notin idx[p].refs
OrphansCollected == \A b \in Blobs : Orphan(b) ~> ~Orphan(b)

Expired(p) == idx[p].state # "absent" /\ now >= idx[p].mtime + CrashesTtl

\* An index kept for crashes_ttl_days, readable or not, does not stay: it is
\* removed, or an upload writes it again.
ExpiredIndexesRemoved == \A p \in Paths : Expired(p) ~> ~Expired(p)

\* prune_indexes_and_collect_references reads the age of an index in one await
\* and removes it in another.  The index it removes is expired at that moment,
\* unless an upload has written it again since its age was read: nothing else
\* that happens in between, and no listing of an earlier day, costs a live
\* index.
OnlyExpiredIndexesRemoved ==
    [][\A p \in Paths : idx[p].state # "absent" /\ idx'[p].state = "absent" =>
        Expired(p) \/ idx[p].mtime > seen]_vars

Store == INSTANCE ContentStore WITH
            stored <- blobs, ptrs <- [h \in Handlers |-> req[h].ptrs]

\* finalize_blob's try_exists followed by hard_link is an atomic put with a
\* truthful dedup flag, under any interleaving of handlers and sweeps.
PutIsAtomic == Store!StoreSpec
-----------------------------------------------------------------------------
(* The inductive invariants                                                *)

\* Only the janitor removes blobs, so what it snapshotted is still there.
SnapshotIsStored == snapshot \subseteq blobs

\* Only a complete index refers to anything, and the janitor has an index in
\* hand exactly while it acts on the age it read.
IndexShape ==
    /\ \A p \in Paths : idx[p].state # "complete" => idx[p].refs = {}
    /\ jpc \notin {"remove", "read"} => cur = None

\* An unraced upload's blobs are stored, and out of reach of the sweep while
\* references are collected.
UploadsSafe ==
    \A h \in Handlers \ raced :
        Held(h) \subseteq blobs /\ (Collecting => Held(h) \cap snapshot = {})

\* An unraced index's blobs are stored, and while references are collected
\* the index is still to be examined or what the sweep could take of it has
\* been collected.
IndexesSafe ==
    \A p \in Paths :
        idx[p].state = "complete" /\ ~idx[p].raced =>
            /\ idx[p].refs \subseteq blobs
            /\ Collecting =>
                \/ p \in files
                \/ p = cur
                \/ idx[p].refs \cap snapshot \subseteq referenced

\* Behind the two Unraced properties.
IInv == TypeOK /\ SnapshotIsStored /\ IndexShape /\ UploadsSafe /\ IndexesSafe

\* Behind TempFilesAccountedFor: a request counts once among those that ended
\* in the middle of a part.
TempInv ==
    /\ tmp = Cardinality(Holding) + stray
    /\ stray + Cardinality(Busy) <= uploads

\* Behind OnlyExpiredIndexesRemoved: an index to be removed was old when its age
\* was read, and a file written since is younger than that.
AgesOK ==
    /\ \A p \in Paths : idx[p].mtime <= now
    /\ jpc = "remove" => seen + CrashesTtl <= now /\ seen <= idx[cur].mtime
=============================================================================
