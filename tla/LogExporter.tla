----------------------------- MODULE LogExporter ----------------------------
(***************************************************************************)
(* The client's log path: the tracing layer, its background worker and the *)
(* spool of failed batches (layer.rs, spool.rs), for processes that share  *)
(* one queue directory.                                                    *)
(*                                                                         *)
(* A record is <<process, number>>, a batch a set of records, a spool file *)
(* is named after the first record of its batch (the code draws a UUID).   *)
(* The server is known by its answers: Ok, or an error or timeout after it *)
(* took in some prefix of the batch.                                       *)
(***************************************************************************)
EXTENDS Integers, Sequences, FiniteSets

CONSTANTS
    Procs,
    None,
    Capacity,       \* DEFAULT_CHANNEL_CAPACITY
    BatchSize,      \* LayerBuilder.batch_size
    SampleRate,     \* LayerBuilder.sample_rate, clamped, in ten-thousandths
    TimeOf,         \* time_unix_nano of the records, by number
    MaxEvents, MaxFlushes, MaxFaults, MaxStarts   \* bounds

ASSUME LogExporterAssumption ==
    /\ None \notin Procs
    /\ Capacity \in Nat \ {0} /\ BatchSize \in Nat \ {0}
    /\ MaxEvents \in Nat /\ MaxFlushes \in Nat /\ MaxFaults \in Nat /\ MaxStarts \in Nat

ASSUME SamplingAssumption ==
    SampleRate \in 0 .. 10000 /\ TimeOf \in [1 .. MaxEvents -> Nat]

VARIABLES
    chan,       \* mpsc channels: record numbers, and 0 for a Flush message
    open,       \* whether a Layer clone is alive
    batch,      \* Worker::run's batch
    wpc,        \* worker control
    job,        \* the batch being exported or spooled, and who waits for it
    todo, cur,  \* drain_spooled: files to replay, the file being replayed
    lock,       \* who holds SpoolLock
    spool,      \* the queue directory
    caller,     \* Layer::flush: its state, and the records sent before it
    emitted, flushes, faults, starts,
    delivered,  \* history: how often the server took in a record, up to 2
    uncertain,  \* history: records in an attempt that was not known to succeed
    filed,      \* history: records of batches write_log_batch returned Ok for
    lost        \* history: records in memory at a crash or not spooled

clientVars == <<chan, open, batch, caller, emitted, flushes>>
workerVars == <<wpc, job, todo, cur>>
vars == <<clientVars, workerVars, lock, spool, faults, starts, delivered, uncertain, filed, lost>>

Recs == Procs \X (1 .. MaxEvents)
NoFile == [st |-> "absent", recs |-> {}]
NoJob == [recs |-> {}, reply |-> FALSE, last |-> FALSE]
NoCur == [file |-> None, recs |-> {}]
NoCall == [st |-> "none", before |-> {}]

FileOf(recs) == CHOOSE f \in recs : \A r \in recs : f[2] <= r[2]
Queued(p) == {<<p, chan[p][i]>> : i \in {j \in DOMAIN chan[p] : chan[p][j] # 0}}

\* A record is kept or not by where its time falls in ten thousand nanoseconds.
ShouldSample(n) ==
    SampleRate >= 10000 \/ (SampleRate > 0 /\ TimeOf[n] % 10000 < SampleRate)

Prefixes(recs) == {{r \in recs : r[2] <= k} : k \in 0 .. MaxEvents}

Init ==
    /\ chan = [p \in Procs |-> <<>>]
    /\ open = [p \in Procs |-> TRUE]
    /\ batch = [p \in Procs |-> {}]
    /\ wpc = [p \in Procs |-> "lock"]
    /\ job = [p \in Procs |-> NoJob]
    /\ todo = [p \in Procs |-> {}]
    /\ cur = [p \in Procs |-> NoCur]
    /\ lock = None
    /\ spool = [f \in Recs |-> NoFile]
    /\ caller = [p \in Procs |-> NoCall]
    /\ emitted = [p \in Procs |-> 0]
    /\ flushes = 0 /\ faults = 0
    /\ starts = 0
    /\ delivered = [r \in Recs |-> 0]
    /\ uncertain = {} /\ filed = {} /\ lost = {}

Deliver(recs) ==
    delivered' = [r \in Recs |-> IF r \in recs /\ delivered[r] < 2 THEN delivered[r] + 1
                                                                  ELSE delivered[r]]

-----------------------------------------------------------------------------
(* Layer                                                                   *)

\* on_event: try_send; a full channel drops the record.
OnEvent(p) ==
    /\ open[p] /\ emitted[p] < MaxEvents
    /\ emitted' = [emitted EXCEPT ![p] = @ + 1]
    /\ \/ Len(chan[p]) < Capacity /\ chan' = [chan EXCEPT ![p] = Append(@, emitted'[p])]
       \/ Len(chan[p]) >= Capacity /\ UNCHANGED chan
    /\ UNCHANGED <<open, batch, caller, flushes, workerVars, lock, spool, faults, starts>>
    /\ UNCHANGED <<delivered, uncertain, lost, filed>>

\* flush: sends its message once there is room and waits for the reply.
Flush(p) ==
    /\ open[p] /\ caller[p].st # "waiting" /\ flushes < MaxFlushes
    /\ Len(chan[p]) < Capacity
    /\ chan' = [chan EXCEPT ![p] = Append(@, 0)]
    /\ caller' = [caller EXCEPT ![p] = [st |-> "waiting", before |-> Queued(p) \cup batch[p]]]
    /\ flushes' = flushes + 1
    /\ UNCHANGED <<open, batch, emitted, workerVars, lock, spool, faults, starts>>
    /\ UNCHANGED <<delivered, uncertain, lost, filed>>

\* The last Layer clone is dropped (a caller of flush holds one).
DropLayer(p) ==
    /\ open[p] /\ caller[p].st # "waiting"
    /\ open' = [open EXCEPT ![p] = FALSE]
    /\ UNCHANGED <<chan, batch, caller, emitted, flushes, workerVars, lock, spool>>
    /\ UNCHANGED <<faults, starts, delivered, uncertain, lost, filed>>

-----------------------------------------------------------------------------
(* drain_spooled                                                           *)

\* Defect: the directory is scanned without the lock.
AcquireLock_NoLock(p) ==
    /\ wpc[p] = "lock"
    /\ lock' = p
    /\ todo' = [todo EXCEPT ![p] = {f \in Recs : spool[f].st # "absent"}]
    /\ wpc' = [wpc EXCEPT ![p] = "drain"]
    /\ UNCHANGED <<clientVars, job, cur, spool, faults, starts, delivered, uncertain, lost, filed>>

\* SpoolLock::acquire blocks until the lock is free; the directory is listed
\* under it.
AcquireLock(p) ==
    /\ wpc[p] = "lock" /\ lock = None
    /\ lock' = p
    /\ todo' = [todo EXCEPT ![p] = {f \in Recs : spool[f].st # "absent"}]
    /\ wpc' = [wpc EXCEPT ![p] = "drain"]
    /\ UNCHANGED <<clientVars, job, cur, spool, faults, starts, delivered, uncertain, lost, filed>>

\* The lock or the listing fails: the worker starts without a replay.
SkipDrain(p) ==
    /\ wpc[p] = "lock" /\ faults < MaxFaults
    /\ faults' = faults + 1
    /\ wpc' = [wpc EXCEPT ![p] = "idle"]
    /\ UNCHANGED <<clientVars, job, todo, cur, lock, spool, starts, delivered, uncertain, lost, filed>>

\* read_log_batch: an empty file decodes to a request without records, a torn
\* one does not decode and is passed over.
ReadBatch(p) ==
    /\ wpc[p] = "drain"
    /\ \E f \in todo[p] :
        /\ todo' = [todo EXCEPT ![p] = @ \ {f}]
        /\ \/ /\ spool[f].st \in {"empty", "full"}
              /\ cur' = [cur EXCEPT ![p] = [file |-> f, recs |-> spool[f].recs]]
              /\ wpc' = [wpc EXCEPT ![p] = "replay"]
           \/ spool[f].st \notin {"empty", "full"} /\ UNCHANGED <<cur, wpc>>
    /\ UNCHANGED <<clientVars, job, lock, spool, faults, starts, delivered, uncertain, lost, filed>>

ReplayOk(p) ==
    /\ wpc[p] = "replay"
    /\ Deliver(cur[p].recs)
    /\ wpc' = [wpc EXCEPT ![p] = "unlink"]
    /\ UNCHANGED <<clientVars, job, todo, cur, lock, spool, faults, starts, uncertain, lost, filed>>

\* Defect: a batch is removed whether or not its replay succeeded.
ReplayFails_Removes(p) ==
    /\ wpc[p] = "replay"
    /\ \E recs \in Prefixes(cur[p].recs) :
        /\ Deliver(recs)
        /\ uncertain' = uncertain \cup recs
    /\ wpc' = [wpc EXCEPT ![p] = "unlink"]
    /\ UNCHANGED <<clientVars, job, todo, cur, lock, spool, faults, starts, lost, filed>>

\* An error or the timeout: the file stays for the next start.
ReplayFails(p) ==
    /\ wpc[p] = "replay"
    /\ \E recs \in Prefixes(cur[p].recs) :
        /\ Deliver(recs)
        /\ uncertain' = uncertain \cup recs
    /\ cur' = [cur EXCEPT ![p] = NoCur]
    /\ wpc' = [wpc EXCEPT ![p] = "drain"]
    /\ UNCHANGED <<clientVars, job, todo, lock, spool, faults, starts, lost, filed>>

\* remove_file, whose error is ignored.
RemoveBatch(p) ==
    /\ wpc[p] = "unlink"
    /\ \/ spool' = [spool EXCEPT ![cur[p].file] = NoFile] /\ UNCHANGED <<faults, uncertain>>
       \/ /\ faults < MaxFaults /\ faults' = faults + 1
          /\ uncertain' = uncertain \cup cur[p].recs
          /\ UNCHANGED spool
    /\ cur' = [cur EXCEPT ![p] = NoCur]
    /\ wpc' = [wpc EXCEPT ![p] = "drain"]
    /\ UNCHANGED <<clientVars, job, todo, lock, starts, delivered, lost, filed>>

\* Defect: the lock is kept after the replay.
EndDrain_KeepsLock(p) ==
    /\ wpc[p] = "drain" /\ todo[p] = {}
    /\ wpc' = [wpc EXCEPT ![p] = "idle"]
    /\ UNCHANGED <<clientVars, lock, job, todo, cur, spool, faults, starts>>
    /\ UNCHANGED <<delivered, uncertain, lost, filed>>

EndDrain(p) ==
    /\ wpc[p] = "drain" /\ todo[p] = {}
    /\ lock' = None
    /\ wpc' = [wpc EXCEPT ![p] = "idle"]
    /\ UNCHANGED <<clientVars, job, todo, cur, spool, faults, starts>>
    /\ UNCHANGED <<delivered, uncertain, lost, filed>>

-----------------------------------------------------------------------------
(* Worker::run                                                             *)

Export(p, recs, reply, last) ==
    /\ job' = [job EXCEPT ![p] = [recs |-> recs, reply |-> reply, last |-> last]]
    /\ batch' = [batch EXCEPT ![p] = {}]
    /\ wpc' = [wpc EXCEPT ![p] = "export"]

Reply(p, reply, result) ==
    caller' = IF reply THEN [caller EXCEPT ![p].st = result] ELSE caller

\* Defect: a batch is exported when it is over its size, not when it reaches it.
RecvRecord_OffByOne(p) ==
    /\ wpc[p] = "idle" /\ chan[p] # <<>> /\ Head(chan[p]) # 0
    /\ chan' = [chan EXCEPT ![p] = Tail(@)]
    /\ LET n == Head(chan[p])
           b == batch[p] \cup (IF ShouldSample(n) THEN {<<p, n>>} ELSE {})
       IN  \/ Cardinality(b) > BatchSize /\ Export(p, b, FALSE, FALSE)
           \/ /\ Cardinality(b) <= BatchSize
              /\ batch' = [batch EXCEPT ![p] = b]
              /\ UNCHANGED <<wpc, job>>
    /\ UNCHANGED <<open, caller, emitted, flushes, todo, cur, lock, spool, faults, starts>>
    /\ UNCHANGED <<delivered, uncertain, lost, filed>>

\* A record is received, sampled, and completes a batch or not.
RecvRecord(p) ==
    /\ wpc[p] = "idle" /\ chan[p] # <<>> /\ Head(chan[p]) # 0
    /\ chan' = [chan EXCEPT ![p] = Tail(@)]
    /\ LET n == Head(chan[p])
           b == batch[p] \cup (IF ShouldSample(n) THEN {<<p, n>>} ELSE {})
       IN  \/ Cardinality(b) >= BatchSize /\ Export(p, b, FALSE, FALSE)
           \/ /\ Cardinality(b) < BatchSize
              /\ batch' = [batch EXCEPT ![p] = b]
              /\ UNCHANGED <<wpc, job>>
    /\ UNCHANGED <<open, caller, emitted, flushes, todo, cur, lock, spool, faults, starts>>
    /\ UNCHANGED <<delivered, uncertain, lost, filed>>

\* Defect: a flush is answered ahead of the records queued before it.
RecvFlush_Overtakes(p) ==
    /\ wpc[p] = "idle"
    /\ \E i \in DOMAIN chan[p] :
        /\ chan[p][i] = 0
        /\ chan' = [chan EXCEPT ![p] = SubSeq(@, 1, i - 1) \o SubSeq(@, i + 1, Len(@))]
    /\ \/ batch[p] # {} /\ Export(p, batch[p], TRUE, FALSE) /\ UNCHANGED caller
       \/ batch[p] = {} /\ Reply(p, TRUE, "ok") /\ UNCHANGED <<batch, wpc, job>>
    /\ UNCHANGED <<open, emitted, flushes, todo, cur, lock, spool, faults, starts>>
    /\ UNCHANGED <<delivered, uncertain, lost, filed>>

\* Flush exports what the batch holds; an empty batch is Ok at once.
RecvFlush(p) ==
    /\ wpc[p] = "idle" /\ chan[p] # <<>> /\ Head(chan[p]) = 0
    /\ chan' = [chan EXCEPT ![p] = Tail(@)]
    /\ \/ batch[p] # {} /\ Export(p, batch[p], TRUE, FALSE) /\ UNCHANGED caller
       \/ batch[p] = {} /\ Reply(p, TRUE, "ok") /\ UNCHANGED <<batch, wpc, job>>
    /\ UNCHANGED <<open, emitted, flushes, todo, cur, lock, spool, faults, starts>>
    /\ UNCHANGED <<delivered, uncertain, lost, filed>>

\* Defect: the interval only exports full batches.
Interval_FullOnly(p) ==
    /\ wpc[p] = "idle" /\ Cardinality(batch[p]) >= BatchSize
    /\ Export(p, batch[p], FALSE, FALSE)
    /\ UNCHANGED <<chan, open, caller, emitted, flushes, todo, cur, lock, spool, faults>>
    /\ UNCHANGED <<starts, delivered, uncertain, lost, filed>>

\* interval.tick
Interval(p) ==
    /\ wpc[p] = "idle" /\ batch[p] # {}
    /\ Export(p, batch[p], FALSE, FALSE)
    /\ UNCHANGED <<chan, open, caller, emitted, flushes, todo, cur, lock, spool, faults>>
    /\ UNCHANGED <<starts, delivered, uncertain, lost, filed>>

\* recv returns None: the rest is exported and the worker ends.
RecvClosed(p) ==
    /\ wpc[p] = "idle" /\ chan[p] = <<>> /\ ~ open[p]
    /\ \/ batch[p] # {} /\ Export(p, batch[p], FALSE, TRUE)
       \/ batch[p] = {} /\ wpc' = [wpc EXCEPT ![p] = "stopped"] /\ UNCHANGED <<batch, job>>
    /\ UNCHANGED <<chan, open, caller, emitted, flushes, todo, cur, lock, spool, faults>>
    /\ UNCHANGED <<starts, delivered, uncertain, lost, filed>>

-----------------------------------------------------------------------------
(* export_records                                                          *)

EndJob(p, result) ==
    /\ Reply(p, job[p].reply, result)
    /\ job' = [job EXCEPT ![p] = NoJob]
    /\ wpc' = [wpc EXCEPT ![p] = IF job[p].last THEN "stopped" ELSE "idle"]

ExportOk(p) ==
    /\ wpc[p] = "export"
    /\ Deliver(job[p].recs)
    /\ EndJob(p, "ok")
    /\ UNCHANGED <<chan, open, batch, emitted, flushes, todo, cur, lock, spool, faults>>
    /\ UNCHANGED <<starts, uncertain, lost, filed>>

\* An error status or the flush timeout: the batch goes to the spool.
ExportFails(p) ==
    /\ wpc[p] = "export"
    /\ \E recs \in Prefixes(job[p].recs) :
        /\ Deliver(recs)
        /\ uncertain' = uncertain \cup recs
    /\ wpc' = [wpc EXCEPT ![p] = "create"]
    /\ UNCHANGED <<clientVars, job, todo, cur, lock, spool, faults, starts, lost, filed>>

\* write_log_batch, fs::write: the file is there, empty, before its bytes are.
CreateBatch(p) ==
    /\ wpc[p] = "create"
    /\ spool' = [spool EXCEPT ![FileOf(job[p].recs)] = [st |-> "empty", recs |-> {}]]
    /\ wpc' = [wpc EXCEPT ![p] = "fill"]
    /\ UNCHANGED <<clientVars, job, todo, cur, lock, faults, starts, delivered, uncertain, lost, filed>>

\* The bytes go to the file wherever its name went meanwhile.
FillBatch(p) ==
    LET f == FileOf(job[p].recs) IN
    /\ wpc[p] = "fill"
    /\ spool' = [spool EXCEPT ![f] = IF @.st = "empty" THEN [st |-> "full", recs |-> job[p].recs]
                                                       ELSE @]
    /\ filed' = filed \cup job[p].recs
    /\ EndJob(p, "err")
    /\ UNCHANGED <<chan, open, batch, emitted, flushes, todo, cur, lock, faults, starts>>
    /\ UNCHANGED <<delivered, uncertain, lost>>

\* The file cannot be created, or not be filled: the records are dropped.
SpoolFails(p) ==
    LET f == FileOf(job[p].recs) IN
    /\ wpc[p] \in {"create", "fill"} /\ faults < MaxFaults
    /\ faults' = faults + 1
    /\ \/ UNCHANGED spool
       \/ spool[f].st = "empty" /\ spool' = [spool EXCEPT ![f].st = "torn"]
    /\ lost' = lost \cup job[p].recs
    /\ EndJob(p, "err")
    /\ UNCHANGED <<chan, open, batch, emitted, flushes, todo, cur, lock, starts>>
    /\ UNCHANGED <<delivered, uncertain, filed>>

-----------------------------------------------------------------------------
\* The process dies: its memory is lost, its lock released, a request on the
\* wire may still reach the server.
Crash(p) ==
    /\ wpc[p] # "stopped" /\ starts < MaxStarts
    /\ LET wire == CASE wpc[p] = "export" -> job[p].recs
                     [] wpc[p] = "replay" -> cur[p].recs
                     [] OTHER -> {}
       IN  \E recs \in Prefixes(wire) :
            /\ Deliver(recs)
            /\ uncertain' = uncertain \cup recs
                              \cup (IF wpc[p] = "unlink" THEN cur[p].recs ELSE {})
    /\ lost' = lost \cup Queued(p) \cup batch[p] \cup job[p].recs
    /\ lock' = IF lock = p THEN None ELSE lock
    /\ open' = [open EXCEPT ![p] = FALSE]
    /\ chan' = [chan EXCEPT ![p] = <<>>]
    /\ batch' = [batch EXCEPT ![p] = {}]
    /\ job' = [job EXCEPT ![p] = NoJob]
    /\ todo' = [todo EXCEPT ![p] = {}]
    /\ cur' = [cur EXCEPT ![p] = NoCur]
    /\ caller' = [caller EXCEPT ![p] = NoCall]
    /\ wpc' = [wpc EXCEPT ![p] = "stopped"]
    /\ UNCHANGED <<emitted, flushes, spool, faults, starts, filed>>

\* The process is started again: LayerBuilder::build spawns a new worker.
Restart(p) ==
    /\ wpc[p] = "stopped" /\ starts < MaxStarts
    /\ starts' = starts + 1
    /\ open' = [open EXCEPT ![p] = TRUE]
    /\ caller' = [caller EXCEPT ![p] = NoCall]
    /\ wpc' = [wpc EXCEPT ![p] = "lock"]
    /\ UNCHANGED <<chan, batch, emitted, flushes, job, todo, cur, lock, spool, faults>>
    /\ UNCHANGED <<delivered, uncertain, lost, filed>>

Drain(p) ==
    \/ AcquireLock(p) \/ ReadBatch(p) \/ ReplayOk(p) \/ ReplayFails(p)
    \/ RemoveBatch(p) \/ EndDrain(p)

Run(p) ==
    \/ RecvRecord(p) \/ RecvFlush(p) \/ Interval(p) \/ RecvClosed(p)
    \/ ExportOk(p) \/ ExportFails(p) \/ CreateBatch(p) \/ FillBatch(p) \/ SpoolFails(p)

Next ==
    \E p \in Procs :
        \/ OnEvent(p) \/ Flush(p) \/ DropLayer(p)
        \/ Drain(p) \/ SkipDrain(p) \/ Run(p) \/ Crash(p) \/ Restart(p)

Spec == Init /\ [][Next]_vars

\* The worker is polled, every export ends by its timeout, the interval ticks
\* and a free lock is granted.
FairSpec ==
    /\ Spec
    /\ \A p \in Procs : WF_vars(Drain(p)) /\ WF_vars(Run(p))

-----------------------------------------------------------------------------
InMemory(p) == Queued(p) \cup batch[p] \cup job[p].recs
Spooled == UNION {spool[f].recs : f \in Recs}

\* Values are in range; the channel and the batch keep within their sizes.
TypeOK ==
    /\ \A p \in Procs :
        /\ Len(chan[p]) <= Capacity
        /\ Cardinality(batch[p]) < BatchSize
        /\ wpc[p] \in {"lock", "drain", "replay", "unlink", "idle", "export", "create",
                       "fill", "stopped"}
        /\ \A r \in batch[p] \cup job[p].recs : r[1] = p /\ ShouldSample(r[2])
        /\ caller[p].st \in {"none", "waiting", "ok", "err"}
    /\ lock \in Procs \cup {None}
    /\ \A f \in Recs : spool[f].st \in {"absent", "empty", "torn", "full"}
    /\ uncertain \subseteq Recs /\ lost \subseteq Recs

\* A record reaches the server twice only if some attempt to deliver it ended
\* without the client knowing that it had: an error or timeout, a crash, or a
\* spool file that could not be removed.  Two processes never replay the same
\* file one after the other's success.
DuplicatesOnlyWhenUncertain ==
    \A r \in Recs : delivered[r] = 2 => r \in uncertain

\* A failed batch that was spooled is there for replay until the server has
\* taken in all of it.
SpooledUntilDelivered == \A r \in filed : r \in Spooled \/ delivered[r] > 0

\* When flush has returned, with Ok or an error, none of the records sent before
\* it is still waiting to be exported.
FlushCovers ==
    \A p \in Procs : caller[p].st \in {"ok", "err"} =>
        caller[p].before \cap InMemory(p) = {}

\* No record stays in the exporter's memory: it is exported, spooled or lost
\* within a batch, an interval, or at the end.
MemoryDrains ==
    \A r \in Recs : r \in InMemory(r[1]) ~> r \notin InMemory(r[1])

\* flush returns (or its process dies).
FlushReturns == \A p \in Procs : caller[p].st = "waiting" ~> caller[p].st # "waiting"
=============================================================================
