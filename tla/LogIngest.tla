------------------------------ MODULE LogIngest -----------------------------
(***************************************************************************)
(* Log ingestion: the OTLP export handler and the per-source writer tasks  *)
(* of logs.rs, the log half of the janitor, and graceful shutdown.         *)
(*                                                                         *)
(* A record is the number its source gave it when it was queued.  The      *)
(* clock counts DayLen ticks to a day.  A tokio File hands each write to a *)
(* background operation and reports that operation's error to the NEXT     *)
(* write or flush; a failed write may leave part of its line in the file.  *)
(* Whether the rate limiter refuses is left open here: RateLimiter models  *)
(* it.                                                                     *)
(***************************************************************************)
EXTENDS Integers, Sequences, FiniteSets, Functions

CONSTANTS
    Handlers,       \* concurrent export calls
    Sources,        \* SourceKeys
    None,
    Capacity,       \* WRITER_CHANNEL_CAPACITY
    LogsTtl,        \* RetentionConfig.logs_ttl_days
    DayLen,         \* ticks per day
    MaxNow, MaxRequests, MaxEntries, MaxRecords, MaxFaults, MaxCrashes \* bounds

ASSUME LogIngestAssumption ==
    /\ None \notin Sources /\ None \notin Nat
    /\ IsFiniteSet(Sources)
    /\ Capacity \in Nat \ {0} /\ LogsTtl \in Nat \ {0} /\ DayLen \in Nat \ {0}
    /\ MaxNow \in Nat /\ MaxRequests \in Nat /\ MaxEntries \in Nat
    /\ MaxRecords \in Nat /\ MaxFaults \in Nat /\ MaxCrashes \in Nat

VARIABLES
    mode,           \* "up", "stopping" (signal seen), "draining", "exited"
    req,            \* export calls
    pool,           \* sources with a WriterHandle in LogWriterPool.inner
    queue,          \* the mpsc channels
    sent,           \* records queued so far, by source
    wpc, hand, day, \* writer tasks: control, the record received, today
    date,           \* current_date
    fd,             \* file: the open tokio File
    disk,           \* the ndjson files, by source and date
    jpc, todo, doomed, \* prune_logs: control, files listed, file found old
    now, requests, faults, crashes,
    lost,           \* history: records lost to a failed or torn write
    gone            \* history: records in memory at a crash, or pruned

serverVars == <<mode, req, pool, queue, sent, requests>>
writerVars == <<wpc, hand, day, date, fd>>
janitorVars == <<jpc, todo, doomed>>
boundVars == <<now, faults, crashes>>
vars == <<serverVars, writerVars, disk, janitorVars, boundVars, lost, gone>>

\* What an export call leaves alone, and what it changes besides itself.
outside == <<writerVars, disk, janitorVars, boundVars, lost, gone>>
shared == <<mode, pool, queue, sent, requests>>

Date(t) == t \div DayLen
Days == 0 .. Date(MaxNow)
LogFiles == Sources \X Days

\* A ResourceLogs: src is None when its attributes name no valid source or
\* one the token may not write.
Entry == [src : Sources \cup {None}, n : 0 .. MaxRecords]
Batch == UNION {[1 .. m -> Entry] : m \in 0 .. MaxEntries}

\* An export call and what is left of its batch; it holds a sender in "send".
IdleReq == [pc |-> "idle", batch |-> <<>>]

NoFile == [lines |-> <<>>, mtime |-> 0, torn |-> FALSE, exists |-> FALSE]
ClosedFd == [open |-> FALSE, date |-> 0, op |-> 0, err |-> FALSE, linked |-> FALSE]

Init ==
    /\ mode = "up"
    /\ req = [h \in Handlers |-> IdleReq]
    /\ pool = {}
    /\ queue = [s \in Sources |-> <<>>]
    /\ sent = [s \in Sources |-> 0]
    /\ wpc = [s \in Sources |-> "none"]
    /\ hand = [s \in Sources |-> 0]
    /\ day = [s \in Sources |-> 0]
    /\ date = [s \in Sources |-> None]
    /\ fd = [s \in Sources |-> ClosedFd]
    /\ disk = [f \in LogFiles |-> NoFile]
    /\ jpc = "idle" /\ todo = {} /\ doomed = None
    /\ now = 0 /\ requests = 0 /\ faults = 0 /\ crashes = 0
    /\ lost = {} /\ gone = {}

-----------------------------------------------------------------------------
(* export_inner                                                            *)

\* A call with another version, without a token or with an entry that fails its
\* schema ends before this and leaves no trace (RequestGate has these gates).
Admit(h) ==
    /\ mode = "up" /\ requests < MaxRequests
    /\ req[h].pc = "idle"
    /\ requests' = requests + 1
    /\ \E b \in Batch :
        /\ b # <<>>
        /\ req' = [req EXCEPT ![h] = [IdleReq EXCEPT !.pc = "entry", !.batch = b]]
    /\ UNCHANGED <<mode, pool, queue, sent, outside>>

\* The call ends early; what it queued stays queued: bad source, no
\* permission, an exhausted bucket, or the client went away at an await.
Refuse(h) ==
    /\ req[h].pc = "entry" /\ req[h].batch # <<>>
    /\ req' = [req EXCEPT ![h] = IdleReq]
    /\ UNCHANGED <<shared, outside>>

\* source_from_resource_logs, permits, check_logs and sender_for succeed; the
\* first use of a source starts its writer.
StartEntry(h) ==
    LET e == Head(req[h].batch) IN
    /\ req[h].pc = "entry" /\ req[h].batch # <<>>
    /\ e.src # None
    /\ req' = [req EXCEPT ![h].pc = "send"]
    /\ pool' = pool \cup {e.src}
    /\ wpc' = [wpc EXCEPT ![e.src] = IF e.src \in pool THEN @ ELSE "recv"]
    /\ UNCHANGED <<mode, queue, sent, requests>>
    /\ UNCHANGED <<hand, day, date, fd, disk, janitorVars, boundVars, lost, gone>>

\* Defect: the channel is unbounded.
Send_Unbounded(h) ==
    LET e == Head(req[h].batch) IN
    /\ req[h].pc = "send" /\ e.n > 0
    /\ queue' = [queue EXCEPT ![e.src] = Append(@, sent[e.src] + 1)]
    /\ sent' = [sent EXCEPT ![e.src] = @ + 1]
    /\ req' = [req EXCEPT ![h].batch[1].n = @ - 1]
    /\ UNCHANGED <<mode, pool, requests, outside>>

\* try_send of the entry's next record.
Send(h) ==
    LET e == Head(req[h].batch) IN
    /\ req[h].pc = "send" /\ e.n > 0
    /\ Len(queue[e.src]) < Capacity
    /\ queue' = [queue EXCEPT ![e.src] = Append(@, sent[e.src] + 1)]
    /\ sent' = [sent EXCEPT ![e.src] = @ + 1]
    /\ req' = [req EXCEPT ![h].batch[1].n = @ - 1]
    /\ UNCHANGED <<mode, pool, requests, outside>>

\* try_send fails: ResourceExhausted, the rest of the batch is dropped.
QueueFull(h) ==
    LET e == Head(req[h].batch) IN
    /\ req[h].pc = "send" /\ e.n > 0
    /\ Len(queue[e.src]) >= Capacity
    /\ req' = [req EXCEPT ![h] = IdleReq]
    /\ UNCHANGED <<shared, outside>>

\* The entry's records are queued; the sender is dropped.
EndEntry(h) ==
    /\ req[h].pc = "send" /\ Head(req[h].batch).n = 0
    /\ req' = [req EXCEPT ![h].pc = "entry", ![h].batch = Tail(@)]
    /\ UNCHANGED <<shared, outside>>

\* The whole batch is queued: the client gets Ok.
Respond(h) ==
    /\ req[h].pc = "entry" /\ req[h].batch = <<>>
    /\ req' = [req EXCEPT ![h] = IdleReq]
    /\ UNCHANGED <<shared, outside>>

-----------------------------------------------------------------------------
(* writer_loop                                                             *)

\* Defect: the file is opened once and never rotated.
Recv_NoRotation(s) ==
    /\ wpc[s] = "recv" /\ queue[s] # <<>>
    /\ hand' = [hand EXCEPT ![s] = Head(queue[s])]
    /\ queue' = [queue EXCEPT ![s] = Tail(@)]
    /\ day' = [day EXCEPT ![s] = Date(now)]
    /\ wpc' = [wpc EXCEPT ![s] = IF date[s] = None THEN "rotate" ELSE "write"]
    /\ UNCHANGED <<mode, req, pool, sent, requests>>
    /\ UNCHANGED <<date, fd, disk, janitorVars, boundVars, lost, gone>>

Recv(s) ==
    /\ wpc[s] = "recv" /\ queue[s] # <<>>
    /\ hand' = [hand EXCEPT ![s] = Head(queue[s])]
    /\ queue' = [queue EXCEPT ![s] = Tail(@)]
    /\ day' = [day EXCEPT ![s] = Date(now)]
    /\ wpc' = [wpc EXCEPT ![s] = IF date[s] # Date(now) THEN "rotate" ELSE "write"]
    /\ UNCHANGED <<mode, req, pool, sent, requests>>
    /\ UNCHANGED <<date, fd, disk, janitorVars, boundVars, lost, gone>>

\* flush_file of the old day's file: waits for its last write.
Rotate(s) ==
    /\ wpc[s] = "rotate" /\ fd[s].op = 0
    /\ fd' = [fd EXCEPT ![s] = ClosedFd]
    /\ wpc' = [wpc EXCEPT ![s] = "open"]
    /\ UNCHANGED <<serverVars, hand, day, date, disk, janitorVars, boundVars, lost, gone>>

OpenLogFile(s) ==
    LET f == <<s, day[s]>> IN
    /\ wpc[s] = "open"
    /\ disk' = [disk EXCEPT ![f] = IF @.exists THEN @
                                   ELSE [NoFile EXCEPT !.exists = TRUE, !.mtime = now]]
    /\ fd' = [fd EXCEPT ![s] = [ClosedFd EXCEPT !.open = TRUE, !.date = day[s],
                                                !.linked = TRUE]]
    /\ date' = [date EXCEPT ![s] = day[s]]
    /\ wpc' = [wpc EXCEPT ![s] = "write"]
    /\ UNCHANGED <<serverVars, hand, day, janitorVars, boundVars, lost, gone>>

Lose(s) == lost' = lost \cup {<<s, hand[s]>>}

\* Defect: the date is remembered although its file could not be opened.
OpenFails_SetsDate(s) ==
    /\ wpc[s] = "open" /\ faults < MaxFaults
    /\ faults' = faults + 1
    /\ Lose(s) /\ hand' = [hand EXCEPT ![s] = 0] /\ day' = [day EXCEPT ![s] = 0]
    /\ date' = [date EXCEPT ![s] = day[s]]
    /\ wpc' = [wpc EXCEPT ![s] = "recv"]
    /\ UNCHANGED <<serverVars, fd, disk, janitorVars, now, crashes, gone>>

\* Defect: the record is queued again, behind newer ones.
OpenFails_Requeues(s) ==
    /\ wpc[s] = "open" /\ faults < MaxFaults
    /\ faults' = faults + 1
    /\ Len(queue[s]) < Capacity
    /\ queue' = [queue EXCEPT ![s] = Append(@, hand[s])]
    /\ hand' = [hand EXCEPT ![s] = 0] /\ day' = [day EXCEPT ![s] = 0]
    /\ wpc' = [wpc EXCEPT ![s] = "recv"]
    /\ UNCHANGED <<mode, req, pool, sent, requests, lost>>
    /\ UNCHANGED <<date, fd, disk, janitorVars, now, crashes, gone>>

\* Defect: the writer gives up.
OpenFails_Stops(s) ==
    /\ wpc[s] = "open" /\ faults < MaxFaults
    /\ faults' = faults + 1
    /\ Lose(s) /\ hand' = [hand EXCEPT ![s] = 0] /\ day' = [day EXCEPT ![s] = 0]
    /\ wpc' = [wpc EXCEPT ![s] = "done"]
    /\ UNCHANGED <<serverVars, date, fd, disk, janitorVars, now, crashes, gone>>

\* The record is dropped and the open retried with the next one.
OpenFails(s) ==
    /\ wpc[s] = "open" /\ faults < MaxFaults
    /\ faults' = faults + 1
    /\ Lose(s) /\ hand' = [hand EXCEPT ![s] = 0] /\ day' = [day EXCEPT ![s] = 0]
    /\ wpc' = [wpc EXCEPT ![s] = "recv"]
    /\ UNCHANGED <<serverVars, date, fd, disk, janitorVars, now, crashes, gone>>

\* write_all: waits for the previous write; if that one failed, its error is
\* this call's, and this record is not written.
Write(s) ==
    /\ wpc[s] = "write" /\ fd[s].op = 0
    /\ IF fd[s].err \/ ~ fd[s].open
         THEN fd' = [fd EXCEPT ![s].err = FALSE] /\ Lose(s)
         ELSE fd' = [fd EXCEPT ![s].op = hand[s]] /\ UNCHANGED lost
    /\ hand' = [hand EXCEPT ![s] = 0] /\ day' = [day EXCEPT ![s] = 0]
    /\ wpc' = [wpc EXCEPT ![s] = "recv"]
    /\ UNCHANGED <<serverVars, date, disk, janitorVars, boundVars, gone>>

\* The background write succeeds.  Behind a torn line the record is part of
\* that line; in a file without a name it is out of reach.
Land(s) ==
    LET f == <<s, fd[s].date>> IN
    /\ fd[s].op # 0
    /\ fd' = [fd EXCEPT ![s].op = 0]
    /\ IF ~ fd[s].linked THEN UNCHANGED <<disk, lost>>
       ELSE IF disk[f].torn
         THEN /\ disk' = [disk EXCEPT ![f] = [@ EXCEPT !.torn = FALSE, !.mtime = now]]
              /\ lost' = lost \cup {<<s, fd[s].op>>}
         ELSE /\ disk' = [disk EXCEPT ![f] = [@ EXCEPT !.lines = Append(disk[f].lines, fd[s].op),
                                                     !.mtime = now]]
              /\ UNCHANGED lost
    /\ UNCHANGED <<serverVars, wpc, hand, day, date, janitorVars, boundVars, gone>>

\* It fails, perhaps after part of the line.
LandFails(s) ==
    LET f == <<s, fd[s].date>> IN
    /\ fd[s].op # 0 /\ faults < MaxFaults
    /\ faults' = faults + 1
    /\ fd' = [fd EXCEPT ![s] = [@ EXCEPT !.op = 0, !.err = TRUE]]
    /\ \/ UNCHANGED disk
       \/ fd[s].linked /\ disk' = [disk EXCEPT ![f] = [@ EXCEPT !.torn = TRUE, !.mtime = now]]
    /\ lost' = lost \cup {<<s, fd[s].op>>}
    /\ UNCHANGED <<serverVars, wpc, hand, day, date, janitorVars, now, crashes, gone>>

HasSender(s) ==
    s \in pool \/ \E h \in Handlers : req[h].pc = "send" /\ Head(req[h].batch).src = s

\* Defect: the last write is not waited for.
WriterExit_NoFlush(s) ==
    /\ wpc[s] = "recv" /\ queue[s] = <<>> /\ ~ HasSender(s)
    /\ fd' = [fd EXCEPT ![s] = ClosedFd]
    /\ wpc' = [wpc EXCEPT ![s] = "done"]
    /\ UNCHANGED <<serverVars, hand, day, date, disk, janitorVars, boundVars, lost, gone>>

\* Defect: the writer stops at shutdown whatever is queued.
WriterExit_NoDrain(s) ==
    /\ wpc[s] = "recv" /\ ~ HasSender(s)
    /\ fd[s].op = 0
    /\ fd' = [fd EXCEPT ![s] = ClosedFd]
    /\ wpc' = [wpc EXCEPT ![s] = "done"]
    /\ UNCHANGED <<serverVars, hand, day, date, disk, janitorVars, boundVars, lost, gone>>

\* recv returns None: the channel is empty and every sender dropped.
WriterExit(s) ==
    /\ wpc[s] = "recv" /\ queue[s] = <<>> /\ ~ HasSender(s)
    /\ fd[s].op = 0
    /\ fd' = [fd EXCEPT ![s] = ClosedFd]
    /\ wpc' = [wpc EXCEPT ![s] = "done"]
    /\ UNCHANGED <<serverVars, hand, day, date, disk, janitorVars, boundVars, lost, gone>>

-----------------------------------------------------------------------------
(* prune_logs                                                              *)

ListLogs ==
    /\ mode \in {"up", "stopping"} /\ jpc = "idle"
    /\ todo' = {f \in LogFiles : disk[f].exists}
    /\ todo' # {}
    /\ jpc' = "stat"
    /\ UNCHANGED <<serverVars, writerVars, disk, doomed, boundVars, lost, gone>>

IsOlderThan(f) == now - disk[f].mtime >= LogsTtl * DayLen

EndOfList(rest) == IF rest = {} THEN "idle" ELSE "stat"

StatLog ==
    /\ jpc = "stat"
    /\ \E f \in todo :
        /\ todo' = todo \ {f}
        /\ \/ IsOlderThan(f) /\ doomed' = f /\ jpc' = "remove"
           \/ ~ IsOlderThan(f) /\ UNCHANGED doomed /\ jpc' = EndOfList(todo')
    /\ UNCHANGED <<serverVars, writerVars, disk, boundVars, lost, gone>>

RemoveLog ==
    LET s == doomed[1] IN
    /\ jpc = "remove"
    /\ gone' = gone \cup {<<s, r>> : r \in Range(disk[doomed].lines)}
    /\ disk' = [disk EXCEPT ![doomed] = NoFile]
    /\ fd' = [fd EXCEPT ![s].linked = @ /\ fd[s].date # doomed[2]]
    /\ doomed' = None
    /\ jpc' = EndOfList(todo)
    /\ UNCHANGED <<serverVars, wpc, hand, day, date, todo, boundVars, lost>>

\* A failed directory read, stat or removal ends the cycle.
JanitorError ==
    /\ jpc # "idle" /\ faults < MaxFaults
    /\ faults' = faults + 1
    /\ jpc' = "idle" /\ todo' = {} /\ doomed' = None
    /\ UNCHANGED <<serverVars, writerVars, disk, now, crashes, lost, gone>>

-----------------------------------------------------------------------------
(* serve_with_shutdown                                                     *)

\* ctrl-c or SIGTERM: no new calls, open ones are completed.
ShutdownSignal ==
    /\ mode = "up"
    /\ mode' = "stopping"
    /\ UNCHANGED <<req, pool, queue, sent, requests, outside>>

\* Defect: shutdown joins the writers while their senders are still in the pool.
Served_KeepsPool ==
    /\ mode = "stopping" /\ \A h \in Handlers : req[h].pc = "idle"
    /\ mode' = "draining"
    /\ jpc' = "idle" /\ todo' = {} /\ doomed' = None
    /\ UNCHANGED <<pool, req, queue, sent, requests>>
    /\ UNCHANGED <<writerVars, disk, boundVars, lost, gone>>

\* axum::serve returns; the janitor is aborted and the pool's senders dropped.
Served ==
    /\ mode = "stopping" /\ \A h \in Handlers : req[h].pc = "idle"
    /\ mode' = "draining"
    /\ jpc' = "idle" /\ todo' = {} /\ doomed' = None
    /\ pool' = {}
    /\ UNCHANGED <<req, queue, sent, requests>>
    /\ UNCHANGED <<writerVars, disk, boundVars, lost, gone>>

\* Every writer has been joined.
Exit ==
    /\ mode = "draining" /\ \A s \in Sources : wpc[s] \in {"none", "done"}
    /\ mode' = "exited"
    /\ UNCHANGED <<req, pool, queue, sent, requests, outside>>

InMemory(s) ==
    Range(queue[s]) \cup ({hand[s], fd[s].op} \ {0})

\* The process dies and is started again: memory is lost, a write in flight
\* may have got part of its line into the file.
Crash ==
    /\ mode # "exited" /\ crashes < MaxCrashes
    /\ crashes' = crashes + 1
    /\ \E T \in SUBSET {<<s, fd[s].date>> : s \in {x \in Sources : fd[x].op # 0 /\ fd[x].linked}} :
        disk' = [f \in LogFiles |-> IF f \in T THEN [disk[f] EXCEPT !.torn = TRUE, !.mtime = now]
                                               ELSE disk[f]]
    /\ gone' = gone \cup UNION {{s} \X InMemory(s) : s \in Sources}
    /\ mode' = "up"
    /\ req' = [h \in Handlers |-> IdleReq]
    /\ pool' = {}
    /\ queue' = [s \in Sources |-> <<>>]
    /\ wpc' = [s \in Sources |-> "none"]
    /\ hand' = [s \in Sources |-> 0]
    /\ day' = [s \in Sources |-> 0]
    /\ date' = [s \in Sources |-> None]
    /\ fd' = [s \in Sources |-> ClosedFd]
    /\ jpc' = "idle" /\ todo' = {} /\ doomed' = None
    /\ UNCHANGED <<sent, now, requests, faults, lost>>

\* Time passes; a record a writer is working on sees midnight once at most.
Tick ==
    /\ now < MaxNow
    /\ \A s \in Sources : /\ hand[s] # 0 => Date(now + 1) <= day[s] + 1
                          /\ fd[s].op # 0 => Date(now + 1) <= fd[s].date + 1
    /\ now' = now + 1
    /\ UNCHANGED <<serverVars, writerVars, disk, janitorVars, faults, crashes, lost, gone>>

-----------------------------------------------------------------------------
Call(h) ==
    \/ Admit(h) \/ Refuse(h) \/ StartEntry(h) \/ Send(h) \/ QueueFull(h)
    \/ EndEntry(h) \/ Respond(h)

WriterLoop(s) ==
    \/ Recv(s) \/ Rotate(s) \/ OpenLogFile(s) \/ OpenFails(s) \/ Write(s)
    \/ Land(s) \/ LandFails(s) \/ WriterExit(s)

PruneLogs == ListLogs \/ StatLog \/ RemoveLog \/ JanitorError

Shutdown == Served \/ Exit

Next ==
    \/ \E h \in Handlers : Call(h)
    \/ \E s \in Sources : WriterLoop(s)
    \/ PruneLogs \/ ShutdownSignal \/ Shutdown \/ Crash \/ Tick

Spec == Init /\ [][Next]_vars

\* The runtime polls every ready task: a call that was admitted, a writer with
\* something to do and the shutdown sequence go on.  Calls need not arrive,
\* the signal need not come.
FairSpec ==
    /\ Spec
    /\ \A h \in Handlers : WF_vars(Call(h) /\ req[h].pc # "idle")
    /\ \A s \in Sources : WF_vars(WriterLoop(s))
    /\ WF_vars(Shutdown)

-----------------------------------------------------------------------------
\* The records queued so far.
Record == UNION {{s} \X (1 .. sent[s]) : s \in Sources}

\* No channel is ever over its capacity; an open file is the one of
\* current_date; nothing is lost that was not queued; every value is in its
\* range.
TypeOK ==
    /\ mode \in {"up", "stopping", "draining", "exited"}
    /\ \A h \in Handlers :
        /\ req[h].pc \in {"idle", "entry", "send"}
        /\ req[h].batch \in Batch
    /\ pool \subseteq Sources
    /\ lost \subseteq Record /\ gone \subseteq Record
    /\ \A s \in Sources :
        /\ Len(queue[s]) <= Capacity
        /\ wpc[s] \in {"none", "recv", "rotate", "open", "write", "done"}
        /\ date[s] \in Days \cup {None} /\ day[s] \in Days
        /\ fd[s].open => fd[s].date = date[s]
    /\ doomed \in LogFiles \cup {None} /\ todo \subseteq LogFiles

OnDisk(s) == UNION {Range(disk[<<s, d>>].lines) : d \in Days}
LostOf(s) == {r[2] : r \in {x \in lost \cup gone : x[1] = s}}

\* A queued record is always in exactly one place: in memory, in a file under
\* its name, or lost for a reason that was seen (a failed write, a crash, its
\* file expired).  So nothing disappears at rotation, when a file is pruned or
\* at shutdown, and nothing is written twice.
Conserved ==
    \A s \in Sources :
        /\ 1 .. sent[s] = InMemory(s) \cup OnDisk(s) \cup LostOf(s)
        /\ OnDisk(s) \cap (InMemory(s) \cup LostOf(s)) = {}
        /\ InMemory(s) \cap LostOf(s) = {}
        /\ \A d, e \in Days :
            d # e => Range(disk[<<s, d>>].lines) \cap Range(disk[<<s, e>>].lines) = {}

\* One disk error costs at most three records: the one being written, the next
\* one, which is given the error, and the one after that, which joins a torn
\* line.  A crash costs one record of each source beyond those in memory.
LossBounded == Cardinality(lost) <= 3 * faults + Cardinality(Sources) * crashes

\* The lines of a source are in the order its records were accepted in, within
\* a day's file and from one day's file to the next.
LinesInOrder ==
    \A s \in Sources :
        /\ \A d \in Days : \A i, j \in DOMAIN disk[<<s, d>>].lines :
            i < j => disk[<<s, d>>].lines[i] < disk[<<s, d>>].lines[j]
        /\ \A d, e \in Days : d < e =>
            \A q \in Range(disk[<<s, d>>].lines), r \in Range(disk[<<s, e>>].lines) : q < r

\* The records of a source that are neither in its queue nor with its writer.
Settled(s) ==
    sent[s] - Len(queue[s]) - (IF hand[s] = 0 THEN 0 ELSE 1) - (IF fd[s].op = 0 THEN 0 ELSE 1)

Stream == INSTANCE LogStream WITH
            Window <- Capacity + 2,
            accepted <- sent,
            settled <- [s \in Sources |-> Settled(s)],
            lines <- [f \in LogFiles |-> disk[f].lines]

\* try_send, recv, the rotation and the background writes add up to a stream whose records
\* are dealt with in turn, each in one step: a record whose write is still pending when
\* the next one is received, when midnight comes or when the channel closes is neither
\* overtaken nor written twice, and no write touches a line that is there.
RecordsInTurn == Stream!StreamSpec

\* When the process exits after a signal, no record is left in memory.
DrainedOnExit == mode = "exited" => \A s \in Sources : InMemory(s) = {}

\* With logs_ttl_days of two or more, prune_logs only ever removes a file no line
\* was added to for that long, although it looks at the file's age in one step
\* and removes it in another: no writer appends to a file of two days ago.  (With
\* one day or none the file of a writer that was idle may be in use.)
OnlyExpiredLogsRemoved ==
    [][\A f \in LogFiles : disk[f].exists /\ ~ disk'[f].exists =>
        now - disk[f].mtime >= LogsTtl * DayLen]_vars

\* After the signal the process comes to its end: no writer waits for a sender
\* nobody drops.  (Unless it crashes and is started again.)
ShutdownCompletes == mode = "stopping" ~> mode \in {"exited", "up"}

\* Every queued record leaves its queue, whatever errors the writer meets.
QueuesDrain ==
    \A s \in Sources : \A r \in 1 .. MaxRequests * MaxEntries * MaxRecords :
        r \in Range(queue[s]) ~> r \notin Range(queue[s])
=============================================================================
