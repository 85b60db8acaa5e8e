-------------------------- MODULE LogIngestProofs ---------------------------
(* Proofs about LogIngest, for any number of calls, sources and records and *)
(* any capacity, day length and bounds.                                    *)
EXTENDS LogIngest, TLAPS

Phases == {"none", "recv", "rotate", "open", "write", "done"}
Holding == {"rotate", "open", "write"}

-----------------------------------------------------------------------------
(* Calls and shutdown                                                      *)

CallState == [pc: {"idle", "entry", "send"}, batch: Batch]

\* A call that sends has a sender of the pool, and no call is left when the pool is
\* dropped.
Serving ==
    /\ mode \in {"up", "stopping", "draining", "exited"}
    /\ req \in [Handlers -> CallState]
    /\ pool \in SUBSET Sources
    /\ mode \in {"draining", "exited"} => pool = {} /\ \A h \in Handlers : req[h].pc = "idle"
    /\ \A h \in Handlers : req[h].pc = "send" => req[h].batch # <<>> /\ req[h].batch[1].src \in pool

-----------------------------------------------------------------------------
(* Writers                                                                 *)

\* What a writer has taken from its channel so far.
Taken(s) == sent[s] - Len(queue[s])

FdType == [open: BOOLEAN, date: Days, op: Nat, err: BOOLEAN, linked: BOOLEAN]

WriterTypes ==
    /\ queue \in [Sources -> Seq(Nat \ {0})]
    /\ sent \in [Sources -> Nat]
    /\ wpc \in [Sources -> Phases]
    /\ hand \in [Sources -> Nat]
    /\ day \in [Sources -> Days]
    /\ date \in [Sources -> Days \cup {None}]
    /\ fd \in [Sources -> FdType]
    /\ now \in 0 .. MaxNow

\* A writer lives as long as a sender may exist, works on one record at a time, and
\* has the file of current_date open or will open another one first.
WriterOK(s) ==
    /\ s \in pool => wpc[s] \notin {"none", "done"}
    /\ s \notin pool /\ mode \in {"up", "stopping"} => wpc[s] = "none"
    /\ mode = "exited" => wpc[s] \in {"none", "done"}
    /\ wpc[s] \in {"none", "done"} => queue[s] = <<>> /\ fd[s].op = 0
    /\ wpc[s] = "none" => date[s] = None
    /\ hand[s] # 0 <=> wpc[s] \in Holding
    /\ ~ fd[s].open => fd[s].op = 0 /\ ~ fd[s].err
    /\ fd[s].op # 0 => ~ fd[s].err
    /\ fd[s].open => fd[s].date = date[s]
    /\ date[s] # None => date[s] <= Date(now)
    /\ date[s] # None /\ ~ fd[s].open /\ wpc[s] # "done" => date[s] < Date(now)
    /\ wpc[s] \in Holding => day[s] <= Date(now) /\ (date[s] # None => date[s] <= day[s])
    /\ wpc[s] = "rotate" /\ date[s] # None => date[s] < day[s]
    /\ wpc[s] = "write" => fd[s].open /\ date[s] = day[s]
    /\ wpc[s] = "open" => ~ fd[s].open

\* The queue holds the last records sent, in order; the record in hand is the one
\* before them, and the one being written came before that.
NumbersOK(s) ==
    /\ Len(queue[s]) <= Capacity /\ Len(queue[s]) <= sent[s]
    /\ \A i \in DOMAIN queue[s] : queue[s][i] = Taken(s) + i
    /\ hand[s] # 0 => hand[s] = Taken(s) /\ fd[s].op < hand[s]
    /\ fd[s].op <= Taken(s)

-----------------------------------------------------------------------------
(* Files                                                                   *)

Lines(s, d) == disk[<<s, d>>].lines

FileType == [lines: Seq(Nat), mtime: Nat, torn: BOOLEAN, exists: BOOLEAN]
DiskTypes == disk \in [LogFiles -> FileType]

JanitorTypes ==
    /\ jpc \in {"idle", "stat", "remove"}
    /\ todo \in SUBSET LogFiles
    /\ doomed \in LogFiles \cup {None}
    /\ jpc = "remove" => doomed \in LogFiles

\* What is in the files is older than what the writer holds, and in no file of a
\* later day than the one it writes to.
Behind(s) ==
    \A d \in Days : \A r \in Range(Lines(s, d)) :
        /\ r \in 1 .. Taken(s)
        /\ fd[s].op # 0 => r < fd[s].op
        /\ hand[s] # 0 => r < hand[s] /\ d <= day[s]
        /\ d <= Date(now)
        /\ fd[s].open => d <= fd[s].date

\* The lines of a file are in order, and so are the files.
Sorted(s) ==
    /\ \A d \in Days : \A i, j \in DOMAIN Lines(s, d) : i < j => Lines(s, d)[i] < Lines(s, d)[j]
    /\ \A d, e \in Days : d < e =>
        \A q \in Range(Lines(s, d)), r \in Range(Lines(s, e)) : q < r

-----------------------------------------------------------------------------
ControlInv == Serving /\ WriterTypes /\ JanitorTypes /\ \A s \in Sources : WriterOK(s)
NumbersInv == \A s \in Sources : NumbersOK(s)
OrderInv == DiskTypes /\ \A s \in Sources : Behind(s) /\ Sorted(s)

-----------------------------------------------------------------------------
(* Constants and sequences                                                 *)

\* The constants are numbers.
LEMMA Sizes ==
  /\ DayLen \in Nat /\ DayLen > 0 /\ MaxNow \in Nat /\ Capacity \in Nat /\ Capacity > 0
  /\ MaxEntries \in Nat /\ MaxRecords \in Nat /\ LogsTtl \in Nat /\ None \notin Sources
BY LogIngestAssumption

\* A later time is on no earlier day.
LEMMA DateMonotonic ==
  ASSUME NEW t \in Nat, NEW u \in Nat, t <= u
  PROVE  Date(t) \in Nat /\ Date(u) \in Nat /\ Date(t) <= Date(u)
BY Sizes DEF Date

\* The days of the clock.
LEMMA DateInDays ==
  ASSUME NEW t \in 0 .. MaxNow
  PROVE  Date(t) \in Days /\ Date(t) \in Nat
  <1>1. t \in Nat /\ MaxNow \in Nat /\ t <= MaxNow
    BY Sizes
  <1> QED BY <1>1, DateMonotonic DEF Days

\* A batch of entries, as a sequence.
LEMMA BatchFacts ==
  ASSUME NEW b \in Batch
  PROVE  /\ b \in Seq(Entry) /\ Len(b) <= MaxEntries /\ Len(b) \in Nat
         /\ b # <<>> => 1 \in DOMAIN b /\ Head(b) = b[1] /\ b[1] \in Entry
  <1>1. PICK m \in 0 .. MaxEntries : b \in [1 .. m -> Entry]
    BY DEF Batch
  <1>2. m \in Nat
    BY <1>1, Sizes
  <1>3. b \in Seq(Entry) /\ Len(b) = m
    BY <1>1, <1>2
  <1> QED BY <1>1, <1>2, <1>3

\* A sequence of entries that is short enough is a batch.
LEMMA IsBatch ==
  ASSUME NEW b \in Seq(Entry), Len(b) <= MaxEntries
  PROVE  b \in Batch
  <1>1. Len(b) \in 0 .. MaxEntries /\ b \in [1 .. Len(b) -> Entry]
    BY Sizes
  <1> QED BY <1>1, Zenon DEF Batch

\* The first entry has been worked through.
LEMMA RestOfBatch ==
  ASSUME NEW b \in Batch, b # <<>>
  PROVE  /\ Tail(b) \in Batch
         /\ \A i \in DOMAIN Tail(b) : i + 1 \in DOMAIN b /\ Tail(b)[i] = b[i + 1]
  <1>1. b \in Seq(Entry) /\ Len(b) <= MaxEntries /\ Len(b) \in Nat
    BY BatchFacts
  <1>2. Tail(b) \in Seq(Entry) /\ Len(Tail(b)) <= MaxEntries
    BY <1>1, Sizes
  <1>3. \A i \in DOMAIN Tail(b) : i + 1 \in DOMAIN b /\ Tail(b)[i] = b[i + 1]
    BY <1>1
  <1> QED BY <1>2, <1>3, IsBatch, ZenonT(30)

\* One record of the first entry has been sent.
OneSent(b) == [b EXCEPT ![1].n = @ - 1]

\* It is a batch of the same entries.
LEMMA OneLess ==
  ASSUME NEW b \in Batch, b # <<>>, b[1].n > 0
  PROVE  /\ OneSent(b) \in Batch /\ OneSent(b) # <<>>
         /\ DOMAIN OneSent(b) = DOMAIN b /\ OneSent(b)[1].src = b[1].src
  <1> DEFINE c == OneSent(b)
             e == [b[1] EXCEPT !.n = @ - 1]
  <1>1. b \in Seq(Entry) /\ Len(b) <= MaxEntries /\ Len(b) \in Nat /\ 1 \in DOMAIN b /\ b[1] \in Entry
    BY BatchFacts
  <1>2. e \in Entry /\ e.src = b[1].src
    <2>1. b[1].src \in Sources \cup {None} /\ b[1].n \in 0 .. MaxRecords
      BY <1>1, Zenon DEF Entry
    <2>2. b[1].n - 1 \in 0 .. MaxRecords
      BY <2>1, Sizes
    <2>3. e = [src |-> b[1].src, n |-> b[1].n - 1]
      BY <1>1 DEF Entry
    <2> HIDE DEF e
    <2> QED BY <2>1, <2>2, <2>3, Zenon DEF Entry
  <1>3. c = [b EXCEPT ![1] = e]
    BY Zenon DEF OneSent
  <1> HIDE DEF c, e
  <1>4. c \in Seq(Entry) /\ Len(c) = Len(b) /\ DOMAIN c = DOMAIN b /\ c[1] = e
        /\ \A i \in DOMAIN b : i # 1 => c[i] = b[i]
    BY <1>1, <1>2, <1>3
  <1>5. c \in Batch
    BY <1>1, <1>4, IsBatch, Zenon
  <1>6. c # <<>>
    BY <1>1, <1>4
  <1> QED BY <1>2, <1>4, <1>5, <1>6 DEF c

-----------------------------------------------------------------------------
(* Shutdown waits for the calls                                            *)

\* A call in progress changes its own state.
LEMMA CallKeepsServing ==
  ASSUME Serving, NEW h \in Handlers, NEW c \in CallState,
         req' = [req EXCEPT ![h] = c],
         mode' = mode, mode \notin {"draining", "exited"},
         pool \subseteq pool', pool' \in SUBSET Sources,
         c.pc = "send" => c.batch # <<>> /\ c.batch[1].src \in pool'
  PROVE  Serving'
  <1>1. req' \in [Handlers -> CallState]
    BY Zenon DEF Serving
  <1>2. \A g \in Handlers : req'[g] = IF g = h THEN c ELSE req[g]
    BY Zenon DEF Serving
  <1>3. \A g \in Handlers :
          req'[g].pc = "send" => req'[g].batch # <<>> /\ req'[g].batch[1].src \in pool'
    BY <1>2, Zenon DEF Serving
  <1>4. mode' \in {"up", "stopping", "draining", "exited"} /\ mode' \notin {"draining", "exited"}
    BY Zenon DEF Serving
  <1> QED BY <1>1, <1>3, <1>4, Zenon DEF Serving

\* A call that is not idle keeps the server from draining.
LEMMA BusyCall ==
  ASSUME Serving, NEW h \in Handlers, req[h].pc # "idle"
  PROVE  mode \notin {"draining", "exited"}
BY Zenon DEF Serving

\* What is known of a call's state.
LEMMA CallTypes ==
  ASSUME Serving, NEW h \in Handlers
  PROVE  /\ req[h] \in CallState
         /\ req[h].pc \in {"idle", "entry", "send"} /\ req[h].batch \in Batch
BY Zenon DEF Serving, CallState

\* An idle call.
LEMMA IdleCall == IdleReq \in CallState /\ IdleReq.pc = "idle" /\ IdleReq.batch = <<>>
  <1>1. <<>> \in Batch
    <2>1. <<>> \in Seq(Entry) /\ Len(<<>>) <= MaxEntries
      BY Sizes
    <2> QED BY <2>1, IsBatch, Zenon
  <1> QED BY <1>1 DEF IdleReq, CallState

\* A call ends.
LEMMA EndKeepsServing ==
  ASSUME Serving, NEW h \in Handlers, req[h].pc # "idle",
         req' = [req EXCEPT ![h] = IdleReq], UNCHANGED <<mode, pool>>
  PROVE  Serving'
  <1>1. mode \notin {"draining", "exited"}
    BY BusyCall, Zenon
  <1>2. pool \subseteq pool' /\ pool' \in SUBSET Sources
    BY Zenon DEF Serving
  <1>3. IdleReq.pc # "send"
    BY IdleCall
  <1>4. mode' = mode
    OBVIOUS
  <1> QED BY ONLY Serving, h \in Handlers, req' = [req EXCEPT ![h] = IdleReq], IdleCall,
                  <1>1, <1>2, <1>3, <1>4, CallKeepsServing, Zenon

\* A request is let in.
LEMMA AdmitServing ==
  ASSUME Serving, NEW h \in Handlers, Admit(h)
  PROVE  Serving'
  <1>1. PICK b \in Batch :
          req' = [req EXCEPT ![h] = [IdleReq EXCEPT !.pc = "entry", !.batch = b]]
    BY Zenon DEF Admit
  <1> DEFINE c == [IdleReq EXCEPT !.pc = "entry", !.batch = b]
  <1>2. c \in CallState /\ c.pc = "entry" /\ c.batch = b
    BY IdleCall, Zenon DEF CallState
  <1>3. mode' = mode /\ mode = "up" /\ pool' = pool
    BY Zenon DEF Admit
  <1>4. mode \notin {"draining", "exited"} /\ c.pc # "send"
    BY <1>2, <1>3
  <1>5. pool \subseteq pool' /\ pool' \in SUBSET Sources
    BY <1>3, Zenon DEF Serving
  <1>6. req' = [req EXCEPT ![h] = c]
    BY <1>1, Zenon
  <1> HIDE DEF c
  <1> QED BY <1>1, <1>2, <1>3, <1>4, <1>5, <1>6, CallKeepsServing, Zenon

\* ingest_batch takes the next source of the batch.
LEMMA StartEntryServing ==
  ASSUME Serving, NEW h \in Handlers, StartEntry(h)
  PROVE  Serving'
  <1> DEFINE b == req[h].batch
             c == [req[h] EXCEPT !.pc = "send"]
  <1>1. b \in Batch /\ b # <<>> /\ req[h].pc = "entry" /\ Head(b).src # None
        /\ pool' = pool \cup {Head(b).src} /\ mode' = mode
        /\ req' = [req EXCEPT ![h].pc = "send"]
    BY CallTypes, Zenon DEF StartEntry
  <1>2. Head(b) = b[1] /\ b[1] \in Entry
    BY <1>1, BatchFacts, Zenon
  <1>3. b[1].src \in Sources
    <2>1. b[1].src \in Sources \cup {None}
      BY <1>2, Zenon DEF Entry
    <2> QED BY <2>1, <1>1, <1>2, Zenon
  <1>4. pool \subseteq pool' /\ pool' \in SUBSET Sources /\ b[1].src \in pool'
    BY <1>1, <1>2, <1>3, Zenon DEF Serving
  <1>5. req' = [req EXCEPT ![h] = c]
    BY <1>1, Zenon
  <1>6. c \in CallState /\ c.batch = b
    BY CallTypes, Zenon DEF CallState
  <1>7. mode \notin {"draining", "exited"}
    <2>1. req[h].pc # "idle"
      BY <1>1
    <2> QED BY <2>1, BusyCall, Zenon
  <1> HIDE DEF c
  <1> QED BY <1>1, <1>4, <1>5, <1>6, <1>7, CallKeepsServing, Zenon

\* The batch is sent to the writer.
LEMMA SendServing ==
  ASSUME Serving, NEW h \in Handlers, Send(h)
  PROVE  Serving'
  <1> DEFINE b == req[h].batch
             d == [b EXCEPT ![1].n = @ - 1]
             c == [req[h] EXCEPT !.batch = d]
  <1>1. /\ b \in Batch /\ req[h].pc = "send" /\ Head(b).n > 0
        /\ pool' = pool /\ mode' = mode
        /\ req' = [req EXCEPT ![h].batch[1].n = @ - 1]
    BY CallTypes, Zenon DEF Send
  <1>2. b # <<>> /\ b[1].src \in pool
    BY <1>1, Zenon DEF Serving
  <1>3. Head(b) = b[1]
    BY <1>1, <1>2, BatchFacts, Zenon
  <1>5. pool \subseteq pool' /\ pool' \in SUBSET Sources
    BY <1>1, Zenon DEF Serving
  <1>6. d \in Batch /\ d # <<>> /\ DOMAIN d = DOMAIN b
        /\ d[1].src = b[1].src
    <2>1. b[1].n > 0
      BY <1>1, <1>3, Zenon
    <2>2. d = OneSent(b)
      BY Zenon DEF OneSent
    <2> HIDE DEF d
    <2> QED BY <1>1, <1>2, <2>1, <2>2, OneLess, Zenon
  <1>7. req' = [req EXCEPT ![h] = c]
    BY <1>1, Zenon
  <1> HIDE DEF d
  <1>8. c \in CallState /\ c.batch = d
    BY <1>6, CallTypes, Zenon DEF CallState
  <1>9. mode \notin {"draining", "exited"}
    <2>1. req[h].pc # "idle"
      BY <1>1
    <2> QED BY <2>1, BusyCall, Zenon
  <1>10. d[1].src \in pool'
    BY <1>1, <1>2, <1>6, Zenon
  <1> HIDE DEF c
  <1> QED BY <1>1, <1>5, <1>6, <1>7, <1>8, <1>9, <1>10, CallKeepsServing, Zenon

\* The entry is done; the request goes on to the next one, or ends.
LEMMA EndEntryServing ==
  ASSUME Serving, NEW h \in Handlers, EndEntry(h)
  PROVE  Serving'
  <1> DEFINE b == req[h].batch
             c == [req[h] EXCEPT !.pc = "entry", !.batch = Tail(b)]
  <1>1. /\ b \in Batch /\ req[h].pc = "send"
        /\ pool' = pool /\ mode' = mode
        /\ req' = [req EXCEPT ![h].pc = "entry", ![h].batch = Tail(@)]
    BY CallTypes, Zenon DEF EndEntry, shared
  <1>2. b # <<>>
    BY <1>1, Zenon DEF Serving
  <1>4. pool \subseteq pool' /\ pool' \in SUBSET Sources
    BY <1>1, Zenon DEF Serving
  <1>5. Tail(b) \in Batch
    <2> HIDE DEF b
    <2> QED BY <1>1, <1>2, RestOfBatch, Zenon
  <1>6. req' = [req EXCEPT ![h] = c]
    BY <1>1, ZenonT(30)
  <1>7. c \in CallState /\ c.batch = Tail(b) /\ c.pc = "entry"
    BY <1>5, CallTypes, Zenon DEF CallState
  <1>8. mode \notin {"draining", "exited"}
    <2>1. req[h].pc # "idle"
      BY <1>1
    <2> QED BY <2>1, BusyCall, Zenon
  <1>9. c.pc # "send"
    BY <1>7
  <1> HIDE DEF c
  <1> QED BY <1>1, <1>4, <1>5, <1>6, <1>7, <1>8, <1>9, CallKeepsServing, Zenon

\* A step that leaves the calls, the pool and the mode alone.
LEMMA ServingFrame ==
  ASSUME Serving, UNCHANGED <<mode, req, pool>>
  PROVE  Serving'
BY Zenon DEF Serving

\* The process dies: no request is left.
LEMMA CrashServing ==
  ASSUME Serving, Crash
  PROVE  Serving'
  <1>1. mode' = "up" /\ req' = [h \in Handlers |-> IdleReq] /\ pool' = {}
    BY Zenon DEF Crash
  <1>2. req' \in [Handlers -> CallState] /\ \A h \in Handlers : req'[h] = IdleReq
    BY <1>1, IdleCall, Zenon
  <1>3. mode' \in {"up", "stopping", "draining", "exited"} /\ mode' \notin {"draining", "exited"}
    BY <1>1
  <1>4. \A h \in Handlers : req'[h].pc # "send"
    BY <1>2, IdleCall
  <1> QED BY <1>1, <1>2, <1>3, <1>4, Zenon DEF Serving

\* The shutdown: it waits for the requests in flight.
LEMMA ShutdownServing ==
  ASSUME Serving, ShutdownSignal \/ Served \/ Exit
  PROVE  Serving'
  <1>1. CASE ShutdownSignal
    <2>1. mode' = "stopping" /\ UNCHANGED <<req, pool>>
      BY <1>1, Zenon DEF ShutdownSignal
    <2>2. mode' \in {"up", "stopping", "draining", "exited"} /\ mode' \notin {"draining", "exited"}
      BY <2>1
    <2> QED BY <2>1, <2>2, Zenon DEF Serving
  <1>2. CASE Served
    <2>1. mode' = "draining" /\ pool' = {} /\ UNCHANGED <<req>>
          /\ \A h \in Handlers : req[h].pc = "idle"
      BY <1>2, Zenon DEF Served
    <2>2. mode' \in {"up", "stopping", "draining", "exited"} /\ \A h \in Handlers : req'[h].pc # "send"
      BY <2>1
    <2> QED BY <2>1, <2>2, Zenon DEF Serving
  <1>3. CASE Exit
    <2>1. mode' = "exited" /\ mode = "draining" /\ UNCHANGED <<req, pool>>
      BY <1>3, Zenon DEF Exit
    <2> QED BY <2>1, Zenon DEF Serving
  <1> QED BY <1>1, <1>2, <1>3, Zenon

\* Writers, the janitor and time leave calls alone.
LEMMA BackgroundFrame ==
  ASSUME (\E s \in Sources : WriterLoop(s)) \/ PruneLogs \/ Tick \/ UNCHANGED vars
  PROVE  UNCHANGED <<mode, req, pool, sent>>
  <1>1. CASE \E s \in Sources : WriterLoop(s)
    BY <1>1, ZenonT(40) DEF WriterLoop, Recv, Rotate, OpenLogFile, OpenFails, Write, Land, LandFails,
              WriterExit, serverVars
  <1>2. CASE PruneLogs
    BY <1>2, Zenon DEF PruneLogs, ListLogs, StatLog, RemoveLog, JanitorError, serverVars
  <1>3. CASE Tick \/ UNCHANGED vars
    BY <1>3, Zenon DEF Tick, vars, serverVars
  <1> QED BY <1>1, <1>2, <1>3, Zenon

\* The server's side of every step.
LEMMA ServingStep ==
  ASSUME Serving, [Next]_vars
  PROVE  Serving'
  <1>1. ASSUME NEW h \in Handlers, Call(h)
        PROVE  Serving'
    <2>1. CASE Refuse(h) \/ QueueFull(h) \/ Respond(h)
      <3>1. req[h].pc # "idle"
        BY <2>1 DEF Refuse, QueueFull, Respond
      <3>2. req' = [req EXCEPT ![h] = IdleReq] /\ UNCHANGED <<mode, pool>>
        BY <2>1, Zenon DEF Refuse, QueueFull, Respond, shared
      <3> QED BY <3>1, <3>2, EndKeepsServing, Zenon
    <2> QED BY <1>1, <2>1, AdmitServing, StartEntryServing, SendServing, EndEntryServing, Zenon DEF Call
  <1>2. CASE (\E s \in Sources : WriterLoop(s)) \/ PruneLogs \/ Tick \/ UNCHANGED vars
    BY <1>2, BackgroundFrame, ServingFrame, Zenon
  <1> QED BY <1>1, <1>2, CrashServing, ShutdownServing, Zenon DEF Next, Shutdown

\* No request is in flight at first.
LEMMA ServingInit ==
  ASSUME Init
  PROVE  Serving
  <1>1. mode = "up" /\ req = [h \in Handlers |-> IdleReq] /\ pool = {}
    BY Zenon DEF Init
  <1>2. req \in [Handlers -> CallState] /\ \A h \in Handlers : req[h] = IdleReq
    BY <1>1, IdleCall, Zenon
  <1>3. mode \in {"up", "stopping", "draining", "exited"} /\ mode \notin {"draining", "exited"}
    BY <1>1
  <1>4. \A h \in Handlers : req[h].pc # "send"
    BY <1>2, IdleCall
  <1> QED BY <1>1, <1>2, <1>3, <1>4, Zenon DEF Serving

-----------------------------------------------------------------------------
(* What the steps do to a writer                                           *)

\* The values of a writer that a step leaves alone.
SameAt(t) ==
    /\ queue'[t] = queue[t] /\ sent'[t] = sent[t] /\ wpc'[t] = wpc[t] /\ hand'[t] = hand[t]
    /\ day'[t] = day[t] /\ date'[t] = date[t] /\ fd'[t] = fd[t]

\* Taking a record from a channel.
LEMMA TakeFacts ==
  ASSUME NEW q \in Seq(Nat \ {0}), q # <<>>
  PROVE  /\ Head(q) \in Nat \ {0} /\ Tail(q) \in Seq(Nat \ {0}) /\ Head(q) = q[1] /\ 1 \in DOMAIN q
         /\ Len(q) \in Nat /\ Len(q) > 0 /\ Len(Tail(q)) = Len(q) - 1
         /\ \A i \in DOMAIN Tail(q) : i \in Nat /\ i + 1 \in DOMAIN q /\ Tail(q)[i] = q[i + 1]
OBVIOUS

\* Putting a number behind a sequence of numbers.
LEMMA PutFacts ==
  ASSUME NEW N, NEW q \in Seq(N), NEW n \in N
  PROVE  /\ Append(q, n) \in Seq(N) /\ Len(q) \in Nat /\ Len(Append(q, n)) = Len(q) + 1
         /\ DOMAIN Append(q, n) = DOMAIN q \cup {Len(q) + 1}
         /\ Append(q, n)[Len(q) + 1] = n
         /\ \A i \in DOMAIN q : i \in Nat /\ i # Len(q) + 1 /\ i <= Len(q) /\ Append(q, n)[i] = q[i]
OBVIOUS

\* The first day.
LEMMA ZeroDay == 0 \in Days
  <1>1. Date(0) \in Days /\ Date(MaxNow) \in Nat
    BY DateInDays, DateMonotonic, Sizes
  <1> QED BY <1>1 DEF Days

\* A closed file.
LEMMA ClosedFacts ==
  /\ ClosedFd \in FdType
  /\ ~ ClosedFd.open /\ ClosedFd.op = 0 /\ ~ ClosedFd.err /\ ~ ClosedFd.linked
BY ZeroDay DEF ClosedFd, FdType

\* Days are numbers.
LEMMA DaysAreNat == Days \subseteq Nat
BY DateInDays, Sizes DEF Days

\* The lines of a file one was added to.
LEMMA RangePut ==
  ASSUME NEW N, NEW q \in Seq(N), NEW n \in N
  PROVE  Range(Append(q, n)) = Range(q) \cup {n}
  <1>1. /\ DOMAIN Append(q, n) = DOMAIN q \cup {Len(q) + 1} /\ Append(q, n)[Len(q) + 1] = n
        /\ \A i \in DOMAIN q : Append(q, n)[i] = q[i]
    BY PutFacts
  <1> QED BY <1>1, Zenon DEF Range

\* The types of a writer's values.
LEMMA WriterTypesAt ==
  ASSUME WriterTypes, NEW s \in Sources
  PROVE  /\ queue[s] \in Seq(Nat \ {0}) /\ sent[s] \in Nat /\ wpc[s] \in Phases /\ hand[s] \in Nat
         /\ day[s] \in Days /\ day[s] \in Nat /\ date[s] \in Days \cup {None}
         /\ date[s] # None => date[s] \in Nat
         /\ fd[s] \in FdType /\ now \in 0 .. MaxNow /\ now \in Nat /\ Date(now) \in Nat /\ Date(now) \in Days
         /\ fd[s].open \in BOOLEAN /\ fd[s].date \in Days /\ fd[s].date \in Nat /\ fd[s].op \in Nat
         /\ fd[s].err \in BOOLEAN /\ fd[s].linked \in BOOLEAN
  <1>1. Days \subseteq Nat
    BY DaysAreNat
  <1>2. /\ queue[s] \in Seq(Nat \ {0}) /\ sent[s] \in Nat /\ wpc[s] \in Phases /\ hand[s] \in Nat
        /\ day[s] \in Days /\ date[s] \in Days \cup {None} /\ fd[s] \in FdType /\ now \in 0 .. MaxNow
    BY Zenon DEF WriterTypes
  <1>3. now \in Nat
    BY <1>2, Sizes
  <1> QED BY <1>1, <1>2, <1>3, DateInDays, Zenon DEF FdType

\* recv hands the writer the next record, and it looks at the date.
LEMMA RecvEffect ==
  ASSUME WriterTypes, NEW s \in Sources, Recv(s)
  PROVE  /\ wpc[s] = "recv" /\ queue[s] # <<>>
         /\ queue'[s] = Tail(queue[s]) /\ hand'[s] = Head(queue[s]) /\ day'[s] = Date(now)
         /\ wpc'[s] = IF date[s] # Date(now) THEN "rotate" ELSE "write"
         /\ UNCHANGED <<mode, pool, sent, date, fd, disk, jpc, todo, doomed, now, faults, crashes, lost, gone>>
         /\ WriterTypes'
         /\ \A t \in Sources \ {s} : SameAt(t)
  <1>1. Head(queue[s]) \in Nat /\ Tail(queue[s]) \in Seq(Nat \ {0})
    <2>1. queue[s] \in Seq(Nat \ {0}) /\ queue[s] # <<>>
      BY WriterTypesAt, Zenon DEF Recv
    <2> QED BY <2>1, TakeFacts, Zenon
  <1>2. Date(now) \in Days
    BY WriterTypesAt, Zenon
  <1>3. (IF date[s] # Date(now) THEN "rotate" ELSE "write") \in Phases
    BY DEF Phases
  <1>4. /\ UNCHANGED <<mode, pool, sent, date, fd, disk, jpc, todo, doomed, now, faults, crashes, lost, gone>>
        /\ wpc[s] = "recv" /\ queue[s] # <<>>
        /\ hand' = [hand EXCEPT ![s] = Head(queue[s])]
        /\ queue' = [queue EXCEPT ![s] = Tail(queue[s])]
        /\ day' = [day EXCEPT ![s] = Date(now)]
        /\ wpc' = [wpc EXCEPT ![s] = IF date[s] # Date(now) THEN "rotate" ELSE "write"]
    BY Zenon DEF Recv, janitorVars, boundVars
  <1>5. WriterTypes'
    BY <1>1, <1>2, <1>3, <1>4, Zenon DEF WriterTypes
  <1> QED BY <1>4, <1>5, ZenonT(40) DEF WriterTypes, SameAt

\* A rotation closes the file, once its last write is over.
LEMMA RotateEffect ==
  ASSUME WriterTypes, NEW s \in Sources, Rotate(s)
  PROVE  /\ wpc[s] = "rotate" /\ fd[s].op = 0
         /\ fd'[s] = ClosedFd /\ wpc'[s] = "open"
         /\ UNCHANGED <<mode, pool, queue, sent, hand, day, date, disk, jpc, todo, doomed>>
         /\ UNCHANGED <<now, faults, crashes, lost, gone>>
         /\ WriterTypes'
         /\ \A t \in Sources \ {s} : SameAt(t)
  <1>1. "open" \in Phases
    BY DEF Phases
  <1>2. /\ UNCHANGED <<mode, pool, queue, sent, hand, day, date, disk, jpc, todo, doomed>>
        /\ UNCHANGED <<now, faults, crashes, lost, gone>>
        /\ wpc[s] = "rotate" /\ fd[s].op = 0
        /\ fd' = [fd EXCEPT ![s] = ClosedFd]
        /\ wpc' = [wpc EXCEPT ![s] = "open"]
    BY Zenon DEF Rotate, janitorVars, boundVars, serverVars
  <1>3. WriterTypes'
    BY <1>1, <1>2, ClosedFacts, Zenon DEF WriterTypes
  <1> QED BY <1>2, <1>3, Zenon DEF WriterTypes, SameAt

\* The file of the day is created if need be, and open.
LEMMA OpenEffect ==
  ASSUME WriterTypes, NEW s \in Sources, OpenLogFile(s)
  PROVE  /\ wpc[s] = "open" /\ wpc'[s] = "write" /\ date'[s] = day[s]
         /\ fd'[s] = [ClosedFd EXCEPT !.open = TRUE, !.date = day[s], !.linked = TRUE]
         /\ disk' = [disk EXCEPT ![<<s, day[s]>>] =
                        IF @.exists THEN @ ELSE [NoFile EXCEPT !.exists = TRUE, !.mtime = now]]
         /\ UNCHANGED <<mode, pool, queue, sent, hand, day, jpc, todo, doomed>>
         /\ UNCHANGED <<now, faults, crashes, lost, gone>>
         /\ WriterTypes'
         /\ \A t \in Sources \ {s} : SameAt(t)
  <1>1. "write" \in Phases
    BY DEF Phases
  <1>2. /\ UNCHANGED <<mode, pool, queue, sent, hand, day, jpc, todo, doomed>>
        /\ UNCHANGED <<now, faults, crashes, lost, gone>>
        /\ wpc[s] = "open"
        /\ fd' = [fd EXCEPT ![s] = [ClosedFd EXCEPT !.open = TRUE, !.date = day[s], !.linked = TRUE]]
        /\ date' = [date EXCEPT ![s] = day[s]]
        /\ wpc' = [wpc EXCEPT ![s] = "write"]
        /\ disk' = [disk EXCEPT ![<<s, day[s]>>] =
                        IF @.exists THEN @ ELSE [NoFile EXCEPT !.exists = TRUE, !.mtime = now]]
    BY Zenon DEF OpenLogFile, janitorVars, boundVars, serverVars
  <1>3. [ClosedFd EXCEPT !.open = TRUE, !.date = day[s], !.linked = TRUE] \in FdType
    <2>1. ClosedFd \in FdType /\ day[s] \in Days
      BY ClosedFacts, WriterTypesAt, Zenon
    <2> QED BY <2>1, Zenon DEF FdType
  <1>4. day[s] \in Days
    BY WriterTypesAt, Zenon
  <1>5. WriterTypes'
    BY <1>1, <1>2, <1>3, <1>4, Zenon DEF WriterTypes
  <1> QED BY <1>2, <1>5, Zenon DEF WriterTypes, SameAt

\* The file cannot be opened: the record in hand is lost.
LEMMA OpenFailsEffect ==
  ASSUME WriterTypes, NEW s \in Sources, OpenFails(s)
  PROVE  /\ wpc[s] = "open" /\ wpc'[s] = "recv" /\ hand'[s] = 0
         /\ lost' = lost \cup {<<s, hand[s]>>} /\ faults' = faults + 1
         /\ UNCHANGED <<mode, pool, queue, sent, date, fd, disk, jpc, todo, doomed, now, crashes, gone>>
         /\ WriterTypes'
         /\ \A t \in Sources \ {s} : SameAt(t)
  <1>1. "recv" \in Phases /\ 0 \in Nat
    BY DEF Phases
  <1>2. /\ UNCHANGED <<mode, pool, queue, sent, date, fd, disk, jpc, todo, doomed, now, crashes, gone>>
        /\ wpc[s] = "open" /\ faults' = faults + 1
        /\ lost' = lost \cup {<<s, hand[s]>>}
        /\ hand' = [hand EXCEPT ![s] = 0] /\ day' = [day EXCEPT ![s] = 0]
        /\ wpc' = [wpc EXCEPT ![s] = "recv"]
    BY Zenon DEF OpenFails, Lose, janitorVars, serverVars
  <1>3. WriterTypes'
    BY <1>1, <1>2, ZeroDay, Zenon DEF WriterTypes
  <1> QED BY <1>2, <1>3, Zenon DEF WriterTypes, SameAt

\* write_all hands the record to the file, or is given the last write's error.
LEMMA WriteEffect ==
  ASSUME WriterTypes, NEW s \in Sources, Write(s)
  PROVE  /\ wpc[s] = "write" /\ fd[s].op = 0 /\ wpc'[s] = "recv" /\ hand'[s] = 0
         /\ \/ /\ fd[s].err \/ ~ fd[s].open
               /\ fd'[s] = [fd[s] EXCEPT !.err = FALSE] /\ lost' = lost \cup {<<s, hand[s]>>}
            \/ /\ ~ fd[s].err /\ fd[s].open
               /\ fd'[s] = [fd[s] EXCEPT !.op = hand[s]] /\ lost' = lost
         /\ UNCHANGED <<mode, pool, queue, sent, date, disk, jpc, todo, doomed>>
         /\ UNCHANGED <<now, faults, crashes, gone>>
         /\ WriterTypes'
         /\ \A t \in Sources \ {s} : SameAt(t)
  <1>1. "recv" \in Phases /\ 0 \in Nat
    BY DEF Phases
  <1>2. /\ UNCHANGED <<mode, pool, queue, sent, date, disk, jpc, todo, doomed>>
        /\ UNCHANGED <<now, faults, crashes, gone>>
        /\ wpc[s] = "write" /\ fd[s].op = 0
        /\ hand' = [hand EXCEPT ![s] = 0] /\ day' = [day EXCEPT ![s] = 0]
        /\ wpc' = [wpc EXCEPT ![s] = "recv"]
    BY Zenon DEF Write, janitorVars, boundVars, serverVars
  <1>3. PICK r \in FdType :
          /\ fd' = [fd EXCEPT ![s] = r]
          /\ \/ /\ fd[s].err \/ ~ fd[s].open
                /\ r = [fd[s] EXCEPT !.err = FALSE] /\ lost' = lost \cup {<<s, hand[s]>>}
             \/ /\ ~ fd[s].err /\ fd[s].open
                /\ r = [fd[s] EXCEPT !.op = hand[s]] /\ lost' = lost
    <2>1. fd[s] \in FdType /\ hand[s] \in Nat
      BY WriterTypesAt, Zenon
    <2>2. [fd[s] EXCEPT !.err = FALSE] \in FdType /\ [fd[s] EXCEPT !.op = hand[s]] \in FdType
      BY <2>1, Zenon DEF FdType
    <2>3. CASE fd[s].err \/ ~ fd[s].open
      BY <2>2, <2>3, Zenon DEF Write, Lose
    <2>4. CASE ~ (fd[s].err \/ ~ fd[s].open)
      BY <2>2, <2>4, Zenon DEF Write
    <2> QED BY <2>3, <2>4, Zenon
  <1>4. WriterTypes'
    BY <1>1, <1>2, <1>3, ZeroDay, Zenon DEF WriterTypes
  <1>5. hand'[s] = 0 /\ wpc'[s] = "recv" /\ fd'[s] = r /\ \A t \in Sources \ {s} : SameAt(t)
    BY <1>2, <1>3, Zenon DEF WriterTypes, SameAt
  <1> QED BY <1>2, <1>3, <1>4, <1>5, Zenon

\* The background write ends.
LEMMA LandEffect ==
  ASSUME WriterTypes, NEW s \in Sources, Land(s)
  PROVE  /\ fd[s].op # 0 /\ fd'[s] = [fd[s] EXCEPT !.op = 0]
         /\ \/ ~ fd[s].linked /\ UNCHANGED <<disk, lost>>
            \/ /\ fd[s].linked /\ disk[<<s, fd[s].date>>].torn
               /\ disk' = [disk EXCEPT ![<<s, fd[s].date>>] = [@ EXCEPT !.torn = FALSE, !.mtime = now]]
               /\ lost' = lost \cup {<<s, fd[s].op>>}
            \/ /\ fd[s].linked /\ ~ disk[<<s, fd[s].date>>].torn
               /\ disk' = [disk EXCEPT ![<<s, fd[s].date>>] =
                   [@ EXCEPT !.lines = Append(disk[<<s, fd[s].date>>].lines, fd[s].op), !.mtime = now]]
               /\ lost' = lost
         /\ UNCHANGED <<mode, pool, queue, sent, wpc, hand, day, date, jpc, todo, doomed>>
         /\ UNCHANGED <<now, faults, crashes, gone>>
         /\ WriterTypes'
         /\ \A t \in Sources \ {s} : SameAt(t)
  <1>1. /\ UNCHANGED <<mode, pool, queue, sent, wpc, hand, day, date, jpc, todo, doomed>>
        /\ UNCHANGED <<now, faults, crashes, gone>>
        /\ fd[s].op # 0
        /\ fd' = [fd EXCEPT ![s] = [fd[s] EXCEPT !.op = 0]]
    BY Zenon DEF Land, janitorVars, boundVars, serverVars
  <1>2. [fd[s] EXCEPT !.op = 0] \in FdType
    <2>1. fd[s] \in FdType /\ 0 \in Nat
      BY WriterTypesAt, Zenon
    <2> QED BY <2>1, Zenon DEF FdType
  <1>3. WriterTypes'
    BY <1>1, <1>2, Zenon DEF WriterTypes
  <1>4. \/ ~ fd[s].linked /\ UNCHANGED <<disk, lost>>
        \/ /\ fd[s].linked /\ disk[<<s, fd[s].date>>].torn
           /\ disk' = [disk EXCEPT ![<<s, fd[s].date>>] = [@ EXCEPT !.torn = FALSE, !.mtime = now]]
           /\ lost' = lost \cup {<<s, fd[s].op>>}
        \/ /\ fd[s].linked /\ ~ disk[<<s, fd[s].date>>].torn
           /\ disk' = [disk EXCEPT ![<<s, fd[s].date>>] =
                 [@ EXCEPT !.lines = Append(disk[<<s, fd[s].date>>].lines, fd[s].op), !.mtime = now]]
           /\ lost' = lost
    BY Zenon DEF Land
  <1>6. fd'[s] = [fd[s] EXCEPT !.op = 0] /\ \A t \in Sources \ {s} : SameAt(t)
    BY <1>1, Zenon DEF WriterTypes, SameAt
  <1> QED BY <1>1, <1>3, <1>4, <1>6, Zenon

\* It fails.
LEMMA LandFailsEffect ==
  ASSUME WriterTypes, NEW s \in Sources, LandFails(s)
  PROVE  /\ fd[s].op # 0 /\ fd'[s] = [fd[s] EXCEPT !.op = 0, !.err = TRUE]
         /\ \/ disk' = disk
            \/ /\ fd[s].linked
               /\ disk' = [disk EXCEPT ![<<s, fd[s].date>>] = [@ EXCEPT !.torn = TRUE, !.mtime = now]]
         /\ lost' = lost \cup {<<s, fd[s].op>>} /\ faults' = faults + 1
         /\ UNCHANGED <<mode, pool, queue, sent, wpc, hand, day, date, jpc, todo, doomed, now, crashes, gone>>
         /\ WriterTypes'
         /\ \A t \in Sources \ {s} : SameAt(t)
  <1>1. /\ UNCHANGED <<mode, pool, queue, sent, wpc, hand, day, date, jpc, todo, doomed, now, crashes, gone>>
        /\ fd[s].op # 0 /\ lost' = lost \cup {<<s, fd[s].op>>} /\ faults' = faults + 1
        /\ fd' = [fd EXCEPT ![s] = [fd[s] EXCEPT !.op = 0, !.err = TRUE]]
        /\ \/ disk' = disk
           \/ /\ fd[s].linked
              /\ disk' = [disk EXCEPT ![<<s, fd[s].date>>] = [@ EXCEPT !.torn = TRUE, !.mtime = now]]
    BY Zenon DEF LandFails, janitorVars, serverVars
  <1>2. [fd[s] EXCEPT !.op = 0, !.err = TRUE] \in FdType
    <2>1. fd[s] \in FdType /\ 0 \in Nat
      BY WriterTypesAt, Zenon
    <2> QED BY <2>1, Zenon DEF FdType
  <1>3. WriterTypes'
    BY <1>1, <1>2, Zenon DEF WriterTypes
  <1>4. fd'[s] = [fd[s] EXCEPT !.op = 0, !.err = TRUE] /\ \A t \in Sources \ {s} : SameAt(t)
    BY <1>1, Zenon DEF WriterTypes, SameAt
  <1> QED BY <1>1, <1>3, <1>4, Zenon

\* The writer ends.
LEMMA WriterExitEffect ==
  ASSUME WriterTypes, NEW s \in Sources, WriterExit(s)
  PROVE  /\ wpc[s] = "recv" /\ queue[s] = <<>> /\ fd[s].op = 0 /\ s \notin pool
         /\ fd'[s] = ClosedFd /\ wpc'[s] = "done"
         /\ UNCHANGED <<mode, pool, queue, sent, hand, day, date, disk, jpc, todo, doomed>>
         /\ UNCHANGED <<now, faults, crashes, lost, gone>>
         /\ WriterTypes'
         /\ \A t \in Sources \ {s} : SameAt(t)
  <1>1. "done" \in Phases
    BY DEF Phases
  <1>2. /\ UNCHANGED <<mode, pool, queue, sent, hand, day, date, disk, jpc, todo, doomed>>
        /\ UNCHANGED <<now, faults, crashes, lost, gone>>
        /\ wpc[s] = "recv" /\ queue[s] = <<>> /\ fd[s].op = 0 /\ s \notin pool
        /\ fd' = [fd EXCEPT ![s] = ClosedFd]
        /\ wpc' = [wpc EXCEPT ![s] = "done"]
    BY Zenon DEF WriterExit, HasSender, janitorVars, boundVars, serverVars
  <1>3. WriterTypes'
    BY <1>1, <1>2, ClosedFacts, Zenon DEF WriterTypes
  <1> QED BY <1>2, <1>3, Zenon DEF WriterTypes, SameAt

\* The first entry of a source starts its writer.
LEMMA StartEntryEffect ==
  ASSUME Serving, WriterTypes, NEW h \in Handlers, StartEntry(h)
  PROVE  \E x \in Sources :
           /\ mode \notin {"draining", "exited"}
           /\ pool' = pool \cup {x} /\ wpc'[x] = IF x \in pool THEN wpc[x] ELSE "recv"
           /\ UNCHANGED <<mode, queue, sent, hand, day, date, fd, disk, jpc, todo, doomed>>
           /\ UNCHANGED <<now, faults, crashes, lost, gone>>
           /\ WriterTypes'
           /\ \A t \in Sources \ {x} : SameAt(t)
  <1> DEFINE b == req[h].batch
             x == Head(b).src
  <1>1. /\ UNCHANGED <<mode, queue, sent, hand, day, date, fd, disk, jpc, todo, doomed>>
        /\ UNCHANGED <<now, faults, crashes, lost, gone>>
        /\ req[h].pc = "entry" /\ b # <<>> /\ x # None
        /\ pool' = pool \cup {x}
        /\ wpc' = [wpc EXCEPT ![x] = IF x \in pool THEN @ ELSE "recv"]
    BY Zenon DEF StartEntry, janitorVars, boundVars
  <1>2. x \in Sources
    <2>1. b \in Batch
      BY CallTypes, Zenon
    <2>2. Head(b) \in Entry
      BY <1>1, <2>1, BatchFacts, Zenon
    <2>3. x \in Sources \cup {None}
      BY <2>2, Zenon DEF Entry
    <2> QED BY <1>1, <2>3, Zenon
  <1>3. mode \notin {"draining", "exited"}
    <2>1. req[h].pc # "idle"
      BY <1>1
    <2> QED BY <2>1, BusyCall, Zenon
  <1> HIDE DEF x
  <1>4. (IF x \in pool THEN wpc[x] ELSE "recv") \in Phases
    <2>1. "recv" \in Phases
      BY DEF Phases
    <2> QED BY <1>2, <2>1, WriterTypesAt, Zenon
  <1>5. WriterTypes'
    BY <1>1, <1>2, <1>4, Zenon DEF WriterTypes
  <1>6. wpc'[x] = (IF x \in pool THEN wpc[x] ELSE "recv") /\ \A t \in Sources \ {x} : SameAt(t)
    BY <1>1, <1>2, Zenon DEF WriterTypes, SameAt
  <1> QED BY <1>1, <1>2, <1>3, <1>5, <1>6, Zenon

\* A record is queued under the next number of its source.
LEMMA SendEffect ==
  ASSUME Serving, WriterTypes, NEW h \in Handlers, Send(h)
  PROVE  \E x \in Sources :
           /\ x \in pool /\ Len(queue[x]) < Capacity
           /\ queue'[x] = Append(queue[x], sent[x] + 1) /\ sent'[x] = sent[x] + 1
           /\ wpc'[x] = wpc[x] /\ hand'[x] = hand[x] /\ day'[x] = day[x] /\ date'[x] = date[x]
           /\ fd'[x] = fd[x]
           /\ UNCHANGED <<mode, pool, wpc, hand, day, date, fd, disk, jpc, todo, doomed>>
           /\ UNCHANGED <<now, faults, crashes, lost, gone>>
           /\ WriterTypes'
           /\ \A t \in Sources \ {x} : SameAt(t)
  <1> DEFINE b == req[h].batch
             x == Head(b).src
  <1>1. /\ UNCHANGED <<mode, pool, wpc, hand, day, date, fd, disk, jpc, todo, doomed>>
        /\ UNCHANGED <<now, faults, crashes, lost, gone>>
        /\ req[h].pc = "send" /\ Len(queue[x]) < Capacity
        /\ queue' = [queue EXCEPT ![x] = Append(@, sent[x] + 1)]
        /\ sent' = [sent EXCEPT ![x] = @ + 1]
    BY Zenon DEF Send, outside, writerVars, janitorVars, boundVars
  <1>2. x \in pool /\ x \in Sources
    <2>1. b \in Batch
      BY CallTypes, Zenon
    <2>2. b # <<>> /\ b[1].src \in pool /\ pool \in SUBSET Sources
      BY <1>1, Zenon DEF Serving
    <2>3. Head(b) = b[1]
      BY <2>1, <2>2, BatchFacts, Zenon
    <2> QED BY <2>2, <2>3, Zenon
  <1> HIDE DEF x
  <1>3. Append(queue[x], sent[x] + 1) \in Seq(Nat \ {0}) /\ sent[x] + 1 \in Nat
    <2>1. queue[x] \in Seq(Nat \ {0}) /\ sent[x] \in Nat
      BY <1>2, WriterTypesAt, Zenon
    <2>2. sent[x] + 1 \in Nat \ {0}
      BY <2>1
    <2> QED BY <2>1, <2>2, PutFacts, Zenon
  <1>4. queue' \in [Sources -> Seq(Nat \ {0})] /\ sent' \in [Sources -> Nat]
    BY <1>1, <1>2, <1>3, Zenon DEF WriterTypes
  <1>5. WriterTypes'
    BY <1>1, <1>4, Zenon DEF WriterTypes
  <1>6. queue'[x] = Append(queue[x], sent[x] + 1) /\ sent'[x] = sent[x] + 1
        /\ \A t \in Sources \ {x} : SameAt(t)
    BY <1>1, <1>2, Zenon DEF WriterTypes, SameAt
  <1> QED BY <1>1, <1>2, <1>5, <1>6, Zenon

\* The janitor unlinks a file, and with it the writer's file if it is that one.
LEMMA RemoveEffect ==
  ASSUME WriterTypes, doomed \in LogFiles, RemoveLog
  PROVE  \E s \in Sources, d \in Days :
           /\ doomed = <<s, d>> /\ jpc = "remove"
           /\ gone' = gone \cup {<<s, r>> : r \in Range(disk[doomed].lines)}
           /\ disk' = [disk EXCEPT ![doomed] = NoFile]
           /\ fd'[s] = [fd[s] EXCEPT !.linked = @ /\ fd[s].date # d]
           /\ doomed' = None /\ jpc' = EndOfList(todo)
           /\ UNCHANGED <<mode, pool, queue, sent, wpc, hand, day, date, todo>>
           /\ UNCHANGED <<now, faults, crashes, lost>>
           /\ WriterTypes'
           /\ \A t \in Sources \ {s} : SameAt(t)
  <1>1. PICK s \in Sources, d \in Days : doomed = <<s, d>>
    BY DEF LogFiles
  <1>2. doomed[1] = s /\ doomed[2] = d
    BY <1>1
  <1>3. /\ UNCHANGED <<mode, pool, queue, sent, wpc, hand, day, date, todo>>
        /\ UNCHANGED <<now, faults, crashes, lost>>
        /\ jpc = "remove" /\ doomed' = None /\ jpc' = EndOfList(todo)
        /\ gone' = gone \cup {<<s, r>> : r \in Range(disk[doomed].lines)}
        /\ disk' = [disk EXCEPT ![doomed] = NoFile]
        /\ fd' = [fd EXCEPT ![s] = [fd[s] EXCEPT !.linked = @ /\ fd[s].date # d]]
    BY <1>2, Zenon DEF RemoveLog, serverVars, boundVars
  <1>4. [fd[s] EXCEPT !.linked = @ /\ fd[s].date # d] \in FdType
    <2>1. fd[s] \in FdType
      BY WriterTypesAt, Zenon
    <2> QED BY <2>1, Zenon DEF FdType
  <1>5. WriterTypes'
    BY <1>3, <1>4, Zenon DEF WriterTypes
  <1>6. fd'[s] = [fd[s] EXCEPT !.linked = @ /\ fd[s].date # d] /\ \A t \in Sources \ {s} : SameAt(t)
    BY <1>3, Zenon DEF WriterTypes, SameAt
  <1> QED BY <1>1, <1>3, <1>5, <1>6, Zenon

\* A crash loses everything in memory.
LEMMA CrashEffect ==
  ASSUME WriterTypes, Crash
  PROVE  /\ mode' = "up" /\ pool' = {} /\ jpc' = "idle" /\ todo' = {} /\ doomed' = None
         /\ crashes' = crashes + 1 /\ gone' = gone \cup UNION {{s} \X InMemory(s) : s \in Sources}
         /\ UNCHANGED <<sent, now, faults, lost>>
         /\ \A s \in Sources :
              /\ queue'[s] = <<>> /\ wpc'[s] = "none" /\ hand'[s] = 0 /\ date'[s] = None
              /\ fd'[s] = ClosedFd
         /\ WriterTypes'
  <1>1. <<>> \in Seq(Nat \ {0}) /\ 0 \in Nat /\ "none" \in Phases
    BY DEF Phases
  <1>2. /\ mode' = "up" /\ pool' = {} /\ jpc' = "idle" /\ todo' = {} /\ doomed' = None
        /\ crashes' = crashes + 1 /\ gone' = gone \cup UNION {{s} \X InMemory(s) : s \in Sources}
        /\ UNCHANGED <<sent, now, faults, lost>>
        /\ queue' = [s \in Sources |-> <<>>] /\ wpc' = [s \in Sources |-> "none"]
        /\ hand' = [s \in Sources |-> 0] /\ day' = [s \in Sources |-> 0]
        /\ date' = [s \in Sources |-> None] /\ fd' = [s \in Sources |-> ClosedFd]
    BY Zenon DEF Crash
  <1>3. WriterTypes'
    BY <1>1, <1>2, ZeroDay, ClosedFacts, Zenon DEF WriterTypes
  <1> QED BY <1>2, <1>3, Zenon

\* Time passes.
LEMMA TickEffect ==
  ASSUME WriterTypes, Tick
  PROVE  /\ now' = now + 1 /\ now \in Nat /\ now + 1 \in 0 .. MaxNow /\ WriterTypes'
         /\ Date(now) \in Nat /\ Date(now + 1) \in Nat /\ Date(now) <= Date(now + 1)
         /\ \A s \in Sources : /\ hand[s] # 0 => Date(now + 1) <= day[s] + 1
                               /\ fd[s].op # 0 => Date(now + 1) <= fd[s].date + 1
         /\ UNCHANGED <<mode, pool, queue, sent, wpc, hand, day, date, fd, disk, jpc, todo, doomed>>
         /\ UNCHANGED <<faults, crashes, lost, gone>>
  <1>1. /\ now' = now + 1 /\ now < MaxNow
        /\ \A s \in Sources : /\ hand[s] # 0 => Date(now + 1) <= day[s] + 1
                              /\ fd[s].op # 0 => Date(now + 1) <= fd[s].date + 1
        /\ UNCHANGED <<mode, pool, queue, sent, wpc, hand, day, date, fd, disk, jpc, todo, doomed>>
        /\ UNCHANGED <<faults, crashes, lost, gone>>
    BY Zenon DEF Tick, serverVars, writerVars, janitorVars
  <1>2. now \in 0 .. MaxNow
    BY Zenon DEF WriterTypes
  <1>3. now \in Nat /\ now + 1 \in Nat /\ now + 1 \in 0 .. MaxNow /\ now <= now + 1
    BY <1>1, <1>2, Sizes
  <1>4. Date(now) \in Nat /\ Date(now + 1) \in Nat /\ Date(now) <= Date(now + 1)
    BY <1>3, DateMonotonic, Zenon
  <1>5. WriterTypes'
    BY <1>1, <1>3, Zenon DEF WriterTypes
  <1> QED BY <1>1, <1>3, <1>4, <1>5, Zenon

\* The steps that change neither a writer nor a file.
Quiet == UNCHANGED <<queue, sent, wpc, hand, day, date, fd, disk, now, lost, gone>>

\* Calls that queue nothing, and the janitor as long as it only looks.
LEMMA QuietCalls ==
  ASSUME NEW h \in Handlers,
         Admit(h) \/ Refuse(h) \/ QueueFull(h) \/ EndEntry(h) \/ Respond(h)
  PROVE  Quiet /\ UNCHANGED <<mode, pool, jpc, todo, doomed, faults, crashes>>
BY Zenon DEF Admit, Refuse, QueueFull, EndEntry, Respond, Quiet, shared, outside, writerVars,
             janitorVars, boundVars

\* The janitor, up to the removal, and a stuttering step leave writers and disk alone.
LEMMA QuietJanitor ==
  ASSUME ListLogs \/ StatLog \/ JanitorError \/ UNCHANGED vars
  PROVE  Quiet /\ UNCHANGED <<mode, pool, crashes>>
BY Zenon DEF ListLogs, StatLog, JanitorError, Quiet, serverVars, writerVars, boundVars, vars

\* So do the steps of the shutdown.
LEMMA QuietShutdown ==
  ASSUME ShutdownSignal \/ Served \/ Exit
  PROVE  Quiet /\ UNCHANGED <<faults, crashes>>
BY Zenon DEF ShutdownSignal, Served, Exit, Quiet, outside, writerVars, boundVars

-----------------------------------------------------------------------------
(* A writer lives as long as its senders and has the right file open       *)

\* A step that leaves a writer alone.
LEMMA WriterFrame ==
  ASSUME NEW t \in Sources, WriterOK(t), SameAt(t), mode' = mode, pool' = pool, now' = now
  PROVE  WriterOK(t)'
BY Zenon DEF WriterOK, SameAt

\* The same for a writer another source is added next to.
LEMMA OtherWriterFrame ==
  ASSUME NEW t \in Sources, WriterOK(t), SameAt(t), mode' = mode, t \in pool' <=> t \in pool, now' = now
  PROVE  WriterOK(t)'
BY ZenonT(40) DEF WriterOK, SameAt

\* Quiet steps leave every writer alone.
LEMMA QuietSame ==
  ASSUME Quiet
  PROVE  \A t \in Sources : SameAt(t)
BY Zenon DEF Quiet, SameAt

\* The writer takes a batch.
LEMMA RecvControl ==
  ASSUME WriterTypes, NEW s \in Sources, WriterOK(s), Recv(s)
  PROVE  WriterOK(s)'
  <1>1. Head(queue[s]) # 0
    <2>1. queue[s] \in Seq(Nat \ {0}) /\ queue[s] # <<>>
      BY WriterTypesAt, RecvEffect, Zenon
    <2> QED BY <2>1, TakeFacts, Zenon
  <1>2. CASE date[s] # Date(now)
    <2>1. wpc'[s] = "rotate"
      BY <1>2, RecvEffect, Zenon
    <2> QED BY <1>1, <1>2, <2>1, RecvEffect, WriterTypesAt, SMTT(20) DEF WriterOK, Holding
  <1>3. CASE date[s] = Date(now)
    <2>1. wpc'[s] = "write"
      BY <1>3, RecvEffect, Zenon
    <2>2. date[s] # None
      BY <1>3, WriterTypesAt, LogIngestAssumption
    <2> QED BY <1>1, <1>3, <2>1, <2>2, RecvEffect, WriterTypesAt, SMTT(20) DEF WriterOK, Holding
  <1> QED BY <1>2, <1>3, Zenon

\* The writer closes the file of an earlier day.
LEMMA RotateControl ==
  ASSUME WriterTypes, NEW s \in Sources, WriterOK(s), Rotate(s)
  PROVE  WriterOK(s)'
  <1>1. /\ wpc[s] = "rotate" /\ wpc'[s] = "open" /\ fd'[s] = ClosedFd
        /\ UNCHANGED <<mode, pool, queue, hand, day, date, now>>
    BY RotateEffect, Zenon
  <1>2. /\ wpc[s] \notin {"none", "done"} /\ wpc'[s] \notin {"none", "done", "rotate", "write"}
        /\ wpc[s] \in Holding /\ wpc'[s] \in Holding
    BY <1>1 DEF Holding
  <1>3. date[s] # None => date[s] < Date(now)
    BY <1>1, <1>2, WriterTypesAt DEF WriterOK
  <1> QED BY <1>1, <1>2, <1>3, ClosedFacts, Zenon DEF WriterOK

\* The writer opens the day's file.
LEMMA OpenControl ==
  ASSUME WriterTypes, NEW s \in Sources, WriterOK(s), OpenLogFile(s)
  PROVE  WriterOK(s)'
  <1>1. /\ fd'[s].open /\ fd'[s].date = day[s] /\ fd'[s].op = 0 /\ ~ fd'[s].err
    BY OpenEffect, Zenon DEF ClosedFd
  <1>2. day[s] # None
    BY WriterTypesAt, LogIngestAssumption
  <1>3. /\ wpc[s] = "open" /\ wpc'[s] = "write" /\ date'[s] = day[s]
        /\ UNCHANGED <<mode, pool, queue, hand, day, now>>
    BY OpenEffect, Zenon
  <1>4. /\ wpc[s] \notin {"none", "done"} /\ wpc'[s] \notin {"none", "done", "rotate"}
        /\ wpc[s] \in Holding /\ wpc'[s] \in Holding
    BY <1>3 DEF Holding
  <1>5. day[s] <= day[s]
    BY WriterTypesAt
  <1> QED BY <1>1, <1>2, <1>3, <1>4, <1>5, Zenon DEF WriterOK

\* The file cannot be opened.
LEMMA OpenFailsControl ==
  ASSUME WriterTypes, NEW s \in Sources, WriterOK(s), OpenFails(s)
  PROVE  WriterOK(s)'
BY OpenFailsEffect, WriterTypesAt DEF WriterOK, Holding

\* The writer puts a line into the file's buffer.
LEMMA WriteControl ==
  ASSUME WriterTypes, NEW s \in Sources, WriterOK(s), Write(s)
  PROVE  WriterOK(s)'
  <1>1. fd[s].open /\ fd[s] \in FdType
    BY WriteEffect, WriterTypesAt, Zenon DEF WriterOK
  <1>2. /\ fd'[s].open = fd[s].open /\ fd'[s].date = fd[s].date
        /\ ~ fd'[s].err /\ fd'[s].err \in BOOLEAN
    BY <1>1, WriteEffect, ZenonT(40) DEF FdType
  <1> QED BY <1>1, <1>2, WriteEffect, WriterTypesAt, Zenon DEF WriterOK, Holding

\* What is buffered reaches the disk, or fails to.
LEMMA LandControl ==
  ASSUME WriterTypes, NEW s \in Sources, WriterOK(s), Land(s) \/ LandFails(s)
  PROVE  WriterOK(s)'
  <1>1. /\ fd[s].op # 0 /\ fd[s] \in FdType
        /\ \/ fd'[s] = [fd[s] EXCEPT !.op = 0]
           \/ fd'[s] = [fd[s] EXCEPT !.op = 0, !.err = TRUE]
        /\ UNCHANGED <<mode, pool, queue, wpc, hand, day, date, now>>
    BY LandEffect, LandFailsEffect, WriterTypesAt, Zenon
  <1>2. fd'[s].open = fd[s].open /\ fd'[s].date = fd[s].date /\ fd'[s].op = 0
    BY <1>1, Zenon DEF FdType
  <1>3. fd[s].open
    BY <1>1, ZenonT(40) DEF WriterOK
  <1> QED BY <1>1, <1>2, <1>3, ZenonT(30) DEF WriterOK

\* The writer ends after the last batch.
LEMMA WriterExitControl ==
  ASSUME WriterTypes, NEW s \in Sources, WriterOK(s), WriterExit(s)
  PROVE  WriterOK(s)'
BY WriterExitEffect, WriterTypesAt, ClosedFacts DEF WriterOK, Holding

\* A request starts on an entry, and the writer of its source if there is none.
LEMMA StartEntryControl ==
  ASSUME Serving, WriterTypes, \A s \in Sources : WriterOK(s), NEW h \in Handlers, StartEntry(h)
  PROVE  \A s \in Sources : WriterOK(s)'
  <1>1. PICK x \in Sources :
           /\ mode \notin {"draining", "exited"}
           /\ pool' = pool \cup {x} /\ wpc'[x] = IF x \in pool THEN wpc[x] ELSE "recv"
           /\ UNCHANGED <<mode, queue, hand, day, date, fd, now>>
           /\ \A t \in Sources \ {x} : SameAt(t)
    BY StartEntryEffect, Zenon
  <1>2. \A t \in Sources \ {x} : WriterOK(t)'
    <2>1. \A t \in Sources \ {x} : t \in pool' <=> t \in pool
      BY <1>1, Zenon
    <2> QED BY <1>1, <2>1, OtherWriterFrame, Zenon
  <1>3. WriterOK(x)'
    <2>1. CASE x \in pool
      <3>1. pool' = pool /\ SameAt(x)
        <4>1. pool' = pool /\ wpc'[x] = wpc[x] /\ UNCHANGED <<hand, day, date, fd, queue>> /\ sent' = sent
          BY <1>1, <2>1, StartEntryEffect, Zenon
        <4> QED BY <4>1, Zenon DEF SameAt
      <3> QED BY <1>1, <3>1, WriterFrame, Zenon
    <2>2. CASE x \notin pool
      <3>1. wpc'[x] = "recv"
        BY <1>1, <2>2, Zenon
      <3>2. wpc[x] = "none"
        <4>1. mode \in {"up", "stopping"}
          BY <1>1, Zenon DEF Serving
        <4> QED BY <4>1, <2>2, Zenon DEF WriterOK
      <3>3. /\ wpc'[x] \notin {"none", "done", "rotate", "write"}
            /\ wpc[x] \notin Holding /\ wpc'[x] \notin Holding
        BY <3>1, <3>2 DEF Holding
      <3> QED BY <1>1, <3>2, <3>3, Zenon DEF WriterOK
    <2> QED BY <2>1, <2>2, Zenon
  <1> QED BY <1>2, <1>3, Zenon

\* A request sends an entry.
LEMMA SendControl ==
  ASSUME Serving, WriterTypes, \A s \in Sources : WriterOK(s), NEW h \in Handlers, Send(h)
  PROVE  \A s \in Sources : WriterOK(s)'
  <1>1. PICK x \in Sources :
           /\ x \in pool
           /\ UNCHANGED <<mode, pool, wpc, hand, day, date, fd, now>>
           /\ \A t \in Sources \ {x} : SameAt(t)
    BY SendEffect, Zenon
  <1>2. \A t \in Sources \ {x} : WriterOK(t)'
    BY <1>1, WriterFrame, Zenon
  <1>3. WriterOK(x)'
    BY <1>1, Zenon DEF WriterOK
  <1> QED BY <1>2, <1>3, Zenon

\* The janitor removes a file.
LEMMA RemoveControl ==
  ASSUME WriterTypes, \A s \in Sources : WriterOK(s), doomed \in LogFiles, RemoveLog
  PROVE  \A s \in Sources : WriterOK(s)'
  <1>1. PICK s \in Sources, d \in Days :
           /\ fd'[s] = [fd[s] EXCEPT !.linked = @ /\ fd[s].date # d]
           /\ UNCHANGED <<mode, pool, queue, sent, wpc, hand, day, date, now>>
           /\ \A t \in Sources \ {s} : SameAt(t)
    BY RemoveEffect, Zenon
  <1>2. \A t \in Sources \ {s} : WriterOK(t)'
    BY <1>1, WriterFrame, Zenon
  <1>3. /\ fd'[s].open = fd[s].open /\ fd'[s].date = fd[s].date /\ fd'[s].op = fd[s].op
        /\ fd'[s].err = fd[s].err
    <2>1. fd[s] \in FdType
      BY WriterTypesAt, Zenon
    <2> QED BY <1>1, <2>1, Zenon DEF FdType
  <1>4. WriterOK(s)'
    BY <1>1, <1>3, Zenon DEF WriterOK
  <1> QED BY <1>2, <1>4, Zenon

\* The stages of the shutdown.
LEMMA ShutdownControl ==
  ASSUME Serving, WriterTypes, \A s \in Sources : WriterOK(s), ShutdownSignal \/ Served \/ Exit
  PROVE  \A s \in Sources : WriterOK(s)'
  <1> SUFFICES ASSUME NEW s \in Sources
               PROVE  WriterOK(s)'
    BY Zenon
  <1>1. SameAt(s) /\ now' = now
    BY QuietShutdown, QuietSame, Zenon DEF Quiet
  <1>2. CASE ShutdownSignal
    <2>1. mode = "up" /\ mode' = "stopping" /\ pool' = pool
      BY <1>2, Zenon DEF ShutdownSignal
    <2>2. mode \in {"up", "stopping"} /\ mode' # "exited"
      BY <2>1
    <2> QED BY <1>1, <2>1, <2>2, ZenonT(40) DEF WriterOK, SameAt
  <1>3. CASE Served
    <2>1. mode' = "draining" /\ pool' = {}
      BY <1>3, Zenon DEF Served
    <2>2. mode' \notin {"up", "stopping", "exited"}
      BY <2>1
    <2> QED BY <1>1, <2>1, <2>2, ZenonT(40) DEF WriterOK, SameAt
  <1>4. CASE Exit
    <2>1. mode = "draining" /\ mode' = "exited" /\ pool' = pool /\ wpc[s] \in {"none", "done"}
      BY <1>4, Zenon DEF Exit
    <2>2. mode' \notin {"up", "stopping"}
      BY <2>1
    <2> QED BY <1>1, <2>1, <2>2, Zenon DEF WriterOK, SameAt
  <1> QED BY <1>2, <1>3, <1>4, Zenon

\* The process dies.
LEMMA CrashControl ==
  ASSUME WriterTypes, Crash
  PROVE  \A s \in Sources : WriterOK(s)'
  <1> SUFFICES ASSUME NEW s \in Sources
               PROVE  WriterOK(s)'
    BY Zenon
  <1>1. /\ mode' = "up" /\ pool' = {} /\ queue'[s] = <<>> /\ wpc'[s] = "none" /\ hand'[s] = 0
        /\ date'[s] = None /\ fd'[s] = ClosedFd
    BY CrashEffect, Zenon
  <1>2. mode' # "exited" /\ wpc'[s] \notin Holding /\ wpc'[s] \notin {"rotate", "write"}
    BY <1>1 DEF Holding
  <1> QED BY <1>1, <1>2, ClosedFacts, Zenon DEF WriterOK

\* A day passes.
LEMMA TickControl ==
  ASSUME WriterTypes, \A s \in Sources : WriterOK(s), Tick
  PROVE  \A s \in Sources : WriterOK(s)'
  <1> SUFFICES ASSUME NEW s \in Sources
               PROVE  WriterOK(s)'
    BY Zenon
  <1>1. /\ now' = now + 1 /\ Date(now) \in Nat /\ Date(now + 1) \in Nat /\ Date(now) <= Date(now + 1)
        /\ UNCHANGED <<mode, pool, queue, wpc, hand, day, date, fd>>
    BY TickEffect, Zenon
  <1>2. day[s] \in Nat /\ (date[s] # None => date[s] \in Nat)
    BY WriterTypesAt, ZenonT(40)
  <1>3. /\ date[s] # None => date[s] <= Date(now')
        /\ date[s] # None /\ ~ fd[s].open /\ wpc[s] # "done" => date[s] < Date(now')
        /\ wpc[s] \in Holding => day[s] <= Date(now')
    BY <1>1, <1>2 DEF WriterOK
  <1> QED BY <1>1, <1>3, Zenon DEF WriterOK

\* The janitor's list, and the file it is about to remove, are log files.
LEMMA JanitorStep ==
  ASSUME JanitorTypes, [Next]_vars
  PROVE  JanitorTypes'
  <1>1. ASSUME UNCHANGED <<jpc, todo, doomed>>
        PROVE  JanitorTypes'
    BY <1>1, Zenon DEF JanitorTypes
  <1>2. ASSUME jpc' = "idle", todo' = {}, doomed' = None
        PROVE  JanitorTypes'
    <2>1. jpc' \in {"idle", "stat", "remove"} /\ jpc' # "remove"
      BY <1>2
    <2> QED BY <1>2, <2>1, Zenon DEF JanitorTypes
  <1>3. CASE ListLogs
    <2>1. jpc' = "stat" /\ doomed' = doomed /\ todo' \in SUBSET LogFiles
      BY <1>3, Zenon DEF ListLogs
    <2>2. jpc' \in {"idle", "stat", "remove"} /\ jpc' # "remove"
      BY <2>1
    <2> QED BY <2>1, <2>2, Zenon DEF JanitorTypes
  <1>4. CASE StatLog
    <2>1. PICK f \in todo :
            /\ todo' = todo \ {f}
            /\ \/ doomed' = f /\ jpc' = "remove"
               \/ doomed' = doomed /\ jpc' = EndOfList(todo')
      BY <1>4, Zenon DEF StatLog
    <2>2. EndOfList(todo') \in {"idle", "stat"}
      BY Zenon DEF EndOfList
    <2>3. jpc' \in {"idle", "stat", "remove"} /\ (jpc' = "remove" => doomed' = f)
      BY <2>1, <2>2
    <2> QED BY <2>1, <2>3, Zenon DEF JanitorTypes
  <1>5. CASE RemoveLog
    <2>1. doomed' = None /\ jpc' = EndOfList(todo) /\ todo' = todo
      BY <1>5, Zenon DEF RemoveLog
    <2>2. EndOfList(todo) \in {"idle", "stat"}
      BY Zenon DEF EndOfList
    <2>3. jpc' \in {"idle", "stat", "remove"} /\ jpc' # "remove"
      BY <2>1, <2>2
    <2> QED BY <2>1, <2>3, Zenon DEF JanitorTypes
  <1>6. CASE JanitorError \/ Served \/ Crash
    BY <1>2, <1>6, Zenon DEF JanitorError, Served, Crash
  <1>7. CASE (\E h \in Handlers : Call(h)) \/ ShutdownSignal \/ Exit
    BY <1>1, <1>7, ZenonT(30) DEF Call, Admit, Refuse, StartEntry, Send, QueueFull, EndEntry, Respond,
              ShutdownSignal, Exit, outside, janitorVars
  <1>8. CASE \E s \in Sources : WriterLoop(s)
    <2>1. UNCHANGED <<jpc, todo, doomed>>
      BY <1>8, ZenonT(40) DEF WriterLoop, Recv, Rotate, OpenLogFile, OpenFails, Write, Land, LandFails,
                WriterExit, janitorVars
    <2> QED BY <1>1, <2>1, Zenon
  <1>9. CASE Tick \/ UNCHANGED vars
    BY <1>1, <1>9, Zenon DEF Tick, vars, janitorVars
  <1> QED BY <1>3, <1>4, <1>5, <1>6, <1>7, <1>8, <1>9, Zenon DEF Next, PruneLogs, Shutdown

\* Every step keeps the writers' invariant.
LEMMA ControlStep ==
  ASSUME ControlInv, [Next]_vars
  PROVE  ControlInv'
  <1>1. Serving /\ WriterTypes /\ (\A s \in Sources : WriterOK(s)) /\ Serving' /\ JanitorTypes'
    BY ServingStep, JanitorStep, Zenon DEF ControlInv
  <1>2. ASSUME Quiet, mode' = mode, pool' = pool
        PROVE  WriterTypes' /\ \A s \in Sources : WriterOK(s)'
    <2>1. WriterTypes'
      BY <1>1, <1>2, Zenon DEF WriterTypes, Quiet
    <2>2. now' = now
      BY <1>2, Zenon DEF Quiet
    <2> QED BY <1>1, <1>2, <2>1, <2>2, QuietSame, WriterFrame, Zenon
  <1>3. ASSUME NEW h \in Handlers, Call(h)
        PROVE  WriterTypes' /\ \A s \in Sources : WriterOK(s)'
    <2>1. CASE StartEntry(h)
      BY <1>1, <2>1, StartEntryControl, StartEntryEffect, Zenon
    <2>2. CASE Send(h)
      BY <1>1, <2>2, SendControl, SendEffect, Zenon
    <2>3. CASE Admit(h) \/ Refuse(h) \/ QueueFull(h) \/ EndEntry(h) \/ Respond(h)
      BY <1>2, <2>3, QuietCalls, Zenon
    <2> QED BY <1>3, <2>1, <2>2, <2>3, Zenon DEF Call
  <1>4. ASSUME NEW s \in Sources, WriterLoop(s)
        PROVE  WriterTypes' /\ \A t \in Sources : WriterOK(t)'
    <2>1. WriterTypes' /\ WriterOK(s)' /\ (\A t \in Sources \ {s} : SameAt(t)) /\ UNCHANGED <<mode, pool, now>>
      <3>1. CASE Recv(s) \/ Rotate(s) \/ OpenLogFile(s) \/ OpenFails(s)
        BY <1>1, <3>1, RecvControl, RecvEffect, RotateControl, RotateEffect, OpenControl, OpenEffect,
           OpenFailsControl, OpenFailsEffect, ZenonT(40)
      <3>2. CASE Write(s) \/ Land(s) \/ LandFails(s) \/ WriterExit(s)
        BY <1>1, <3>2, WriteControl, WriteEffect, LandControl, LandEffect, LandFailsEffect,
           WriterExitControl, WriterExitEffect, ZenonT(40)
      <3> QED BY <1>4, <3>1, <3>2, Zenon DEF WriterLoop
    <2> QED BY <1>1, <2>1, WriterFrame, Zenon
  <1>5. ASSUME PruneLogs
        PROVE  WriterTypes' /\ \A s \in Sources : WriterOK(s)'
    <2>1. CASE RemoveLog
      <3>1. doomed \in LogFiles
        BY <2>1, Zenon DEF RemoveLog, ControlInv, JanitorTypes
      <3> QED BY <1>1, <2>1, <3>1, RemoveControl, RemoveEffect, Zenon
    <2>2. CASE ListLogs \/ StatLog \/ JanitorError
      BY <1>2, <2>2, QuietJanitor, Zenon
    <2> QED BY <1>5, <2>1, <2>2, Zenon DEF PruneLogs
  <1>6. CASE ShutdownSignal \/ Shutdown
    <2>1. WriterTypes'
      BY <1>1, <1>6, QuietShutdown, Zenon DEF WriterTypes, Quiet, Shutdown
    <2> QED BY <1>1, <1>6, <2>1, ShutdownControl, Zenon DEF ControlInv, Shutdown
  <1>7. CASE Crash
    BY <1>1, <1>7, CrashControl, CrashEffect, Zenon DEF ControlInv
  <1>8. CASE Tick
    BY <1>1, <1>8, TickControl, TickEffect, Zenon DEF ControlInv
  <1>9. CASE UNCHANGED vars
    BY <1>1, <1>2, <1>9, QuietJanitor, Zenon DEF ControlInv
  <1> QED BY <1>1, <1>3, <1>4, <1>5, <1>6, <1>7, <1>8, <1>9, Zenon DEF ControlInv, Next

\* The initial states.
LEMMA ControlInit ==
  ASSUME Init
  PROVE  ControlInv
  <1>1. /\ mode = "up" /\ pool = {} /\ queue = [s \in Sources |-> <<>>] /\ sent = [s \in Sources |-> 0]
        /\ wpc = [s \in Sources |-> "none"] /\ hand = [s \in Sources |-> 0]
        /\ day = [s \in Sources |-> 0] /\ date = [s \in Sources |-> None]
        /\ fd = [s \in Sources |-> ClosedFd] /\ now = 0
        /\ jpc = "idle" /\ todo = {} /\ doomed = None
    BY Zenon DEF Init
  <1>2. <<>> \in Seq(Nat \ {0}) /\ 0 \in Nat /\ "none" \in Phases /\ 0 \in 0 .. MaxNow
    BY Sizes DEF Phases
  <1>3. WriterTypes
    BY <1>1, <1>2, ZeroDay, ClosedFacts, Zenon DEF WriterTypes
  <1>4. JanitorTypes
    <2>1. jpc \in {"idle", "stat", "remove"} /\ jpc # "remove"
      BY <1>1
    <2> QED BY <1>1, <2>1, Zenon DEF JanitorTypes
  <1>5. mode # "exited" /\ "none" \notin Holding /\ "none" \notin {"rotate", "write"}
    BY <1>1 DEF Holding
  <1>6. ASSUME NEW s \in Sources
        PROVE  WriterOK(s)
    BY <1>1, <1>5, ClosedFacts, Zenon DEF WriterOK
  <1> QED BY <1>3, <1>4, <1>6, ServingInit, Zenon DEF ControlInv

\* The writers' invariant.
THEOREM ControlInductive == Spec => []ControlInv
BY ControlInit, ControlStep, PTL DEF Spec

\* When the process exits after a signal, every channel, hand and file operation is
\* empty: LogWriterPool::shutdown drops the senders and joins the writers, and a writer
\* ends with an empty channel and after its last write.
THEOREM DrainSafety == Spec => []DrainedOnExit
  <1>1. ControlInv => DrainedOnExit
    <2> SUFFICES ASSUME ControlInv, mode = "exited", NEW s \in Sources
                 PROVE  InMemory(s) = {}
      BY Zenon DEF DrainedOnExit
    <2>1. wpc[s] \in {"none", "done"} /\ queue[s] = <<>> /\ fd[s].op = 0
          /\ (hand[s] # 0 <=> wpc[s] \in Holding)
      BY Zenon DEF ControlInv, WriterOK
    <2>2. hand[s] = 0
      BY <2>1 DEF Holding
    <2>3. Range(queue[s]) = {}
      BY <2>1 DEF Range
    <2> QED BY <2>1, <2>2, <2>3, Zenon DEF InMemory
  <1> QED BY <1>1, ControlInductive, PTL

-----------------------------------------------------------------------------
(* The numbers of the records a writer holds                               *)

\* A step that leaves a writer alone.
LEMMA NumbersFrame ==
  ASSUME NEW t \in Sources, NumbersOK(t), SameAt(t)
  PROVE  NumbersOK(t)'
BY Zenon DEF NumbersOK, Taken, SameAt

\* The number of the last record taken.
LEMMA TakenType ==
  ASSUME WriterTypes, NEW s \in Sources, NumbersOK(s)
  PROVE  /\ Taken(s) \in Nat /\ Len(queue[s]) \in Nat /\ sent[s] = Taken(s) + Len(queue[s])
         /\ Taken(s) <= sent[s]
  <1>1. queue[s] \in Seq(Nat \ {0}) /\ sent[s] \in Nat
    BY WriterTypesAt, Zenon
  <1>2. Len(queue[s]) \in Nat
    BY <1>1
  <1> QED BY <1>1, <1>2 DEF NumbersOK, Taken

\* A writer that waits for a record holds none.
LEMMA EmptyHand ==
  ASSUME NEW s, WriterOK(s), wpc[s] \in {"none", "recv", "done"}
  PROVE  hand[s] = 0
BY DEF WriterOK, Holding

\* The writer takes a batch.
LEMMA RecvNumbers ==
  ASSUME WriterTypes, NEW s \in Sources, WriterOK(s), NumbersOK(s), Recv(s)
  PROVE  NumbersOK(s)' /\ Taken(s)' = Taken(s) + 1 /\ hand'[s] = Taken(s) + 1
  <1>1. /\ queue[s] # <<>> /\ queue[s] \in Seq(Nat \ {0}) /\ queue'[s] = Tail(queue[s])
        /\ hand'[s] = Head(queue[s]) /\ sent'[s] = sent[s] /\ fd'[s] = fd[s]
    BY RecvEffect, WriterTypesAt, Zenon
  <1>2. /\ Head(queue[s]) = queue[s][1] /\ 1 \in DOMAIN queue[s]
        /\ Len(queue[s]) \in Nat /\ Len(queue[s]) > 0 /\ Len(queue'[s]) = Len(queue[s]) - 1
        /\ \A i \in DOMAIN queue'[s] : i \in Nat /\ i + 1 \in DOMAIN queue[s] /\ queue'[s][i] = queue[s][i + 1]
    BY <1>1, TakeFacts, Zenon
  <1>3. /\ Taken(s) \in Nat /\ Capacity \in Nat /\ sent[s] \in Nat /\ fd[s].op \in Nat
    BY TakenType, Sizes, WriterTypesAt, Zenon
  <1>4. Taken(s)' = Taken(s) + 1
    BY <1>1, <1>2, <1>3 DEF Taken
  <1>5. hand'[s] = Taken(s) + 1
    BY <1>1, <1>2, Zenon DEF NumbersOK
  <1>6. \A i \in DOMAIN queue'[s] : queue'[s][i] = Taken(s)' + i
    <2>1. \A i \in DOMAIN queue[s] : queue[s][i] = Taken(s) + i
      BY Zenon DEF NumbersOK
    <2> HIDE DEF Taken
    <2> QED BY <1>2, <1>3, <1>4, <2>1, SMTT(20)
  <1>7. /\ Len(queue'[s]) <= Capacity /\ Len(queue'[s]) <= sent'[s]
        /\ fd'[s].op <= Taken(s)' /\ fd'[s].op < hand'[s] /\ hand'[s] = Taken(s)'
    <2>1. Len(queue[s]) <= Capacity /\ Len(queue[s]) <= sent[s] /\ fd[s].op <= Taken(s)
      BY Zenon DEF NumbersOK
    <2> QED BY <1>1, <1>2, <1>3, <1>4, <1>5, <2>1, SMTT(20)
  <1> QED BY <1>4, <1>5, <1>6, <1>7, Zenon DEF NumbersOK

\* The steps of a writer that has its record.
Work(s) ==
    \/ Rotate(s) \/ OpenLogFile(s) \/ OpenFails(s) \/ Write(s) \/ Land(s) \/ LandFails(s)
    \/ WriterExit(s)

\* They pass the record in hand on to the file, or drop it.
LEMMA WorkEffect ==
  ASSUME WriterTypes, NEW s \in Sources, WriterOK(s), Work(s)
  PROVE  /\ queue'[s] = queue[s] /\ sent'[s] = sent[s] /\ now' = now
         /\ \/ hand'[s] = hand[s] /\ day'[s] = day[s] /\ fd'[s].op \in {fd[s].op, 0}
            \/ hand'[s] = 0 /\ fd'[s].op \in {fd[s].op, hand[s]} /\ hand[s] # 0
         /\ fd'[s].open => \/ fd[s].open /\ fd'[s].date = fd[s].date
                           \/ hand[s] # 0 /\ fd'[s].date = day[s]
         /\ WriterTypes' /\ \A t \in Sources \ {s} : SameAt(t)
  <1>1. /\ queue'[s] = queue[s] /\ sent'[s] = sent[s] /\ now' = now
        /\ WriterTypes' /\ \A t \in Sources \ {s} : SameAt(t)
    BY RotateEffect, OpenEffect, OpenFailsEffect, WriteEffect, LandEffect, LandFailsEffect,
       WriterExitEffect, Zenon DEF Work
  <1>2. fd[s] \in FdType
    BY WriterTypesAt, Zenon
  <1>3. wpc[s] \in {"open", "write"} => hand[s] # 0
    BY DEF WriterOK, Holding
  <1>4. CASE Rotate(s) \/ WriterExit(s)
    <2>1. hand'[s] = hand[s] /\ day'[s] = day[s] /\ fd'[s] = ClosedFd
      BY <1>4, RotateEffect, WriterExitEffect, Zenon
    <2> QED BY <1>1, <2>1, ClosedFacts, Zenon
  <1>5. CASE OpenLogFile(s)
    <2>1. hand'[s] = hand[s] /\ day'[s] = day[s] /\ hand[s] # 0
          /\ fd'[s] = [ClosedFd EXCEPT !.open = TRUE, !.date = day[s], !.linked = TRUE]
      BY <1>3, <1>5, OpenEffect, Zenon
    <2>2. fd'[s].op = 0 /\ fd'[s].date = day[s]
      BY <2>1, ClosedFacts, Zenon DEF FdType
    <2> QED BY <1>1, <2>1, <2>2, Zenon
  <1>6. CASE OpenFails(s)
    BY <1>1, <1>3, <1>6, OpenFailsEffect, Zenon
  <1>7. CASE Write(s)
    <2>1. hand'[s] = 0 /\ hand[s] # 0
      BY <1>3, <1>7, WriteEffect, Zenon
    <2>2. fd'[s].open = fd[s].open /\ fd'[s].date = fd[s].date /\ fd'[s].op \in {fd[s].op, hand[s]}
      BY <1>2, <1>7, WriteEffect, ZenonT(40) DEF FdType
    <2> QED BY <1>1, <2>1, <2>2, Zenon
  <1>8. CASE Land(s) \/ LandFails(s)
    <2>1. /\ hand'[s] = hand[s] /\ day'[s] = day[s]
          /\ \/ fd'[s] = [fd[s] EXCEPT !.op = 0]
             \/ fd'[s] = [fd[s] EXCEPT !.op = 0, !.err = TRUE]
      BY <1>8, LandEffect, LandFailsEffect, Zenon
    <2>2. fd'[s].open = fd[s].open /\ fd'[s].date = fd[s].date /\ fd'[s].op = 0
      BY <1>2, <2>1, Zenon DEF FdType
    <2> QED BY <1>1, <2>1, <2>2, Zenon
  <1> QED BY <1>4, <1>5, <1>6, <1>7, <1>8, Zenon DEF Work

\* The writer works on it: no number moves.
LEMMA WorkNumbers ==
  ASSUME WriterTypes, NEW s \in Sources, WriterOK(s), NumbersOK(s), Work(s)
  PROVE  NumbersOK(s)' /\ Taken(s)' = Taken(s)
  <1>1. queue'[s] = queue[s] /\ sent'[s] = sent[s]
    BY WorkEffect, Zenon
  <1>2. Taken(s)' = Taken(s) /\ Taken(s) \in Nat /\ 0 <= Taken(s)
    <2>1. Taken(s)' = Taken(s)
      BY <1>1, Zenon DEF Taken
    <2> QED BY <2>1, TakenType
  <1>3. \/ hand'[s] = hand[s] /\ fd'[s].op \in {fd[s].op, 0}
        \/ hand'[s] = 0 /\ fd'[s].op \in {fd[s].op, hand[s]} /\ hand[s] # 0
    BY WorkEffect, Zenon
  <1>4. hand'[s] # 0 => hand'[s] = Taken(s)' /\ fd'[s].op < hand'[s]
    BY <1>2, <1>3 DEF NumbersOK
  <1>5. fd'[s].op <= Taken(s)'
    BY <1>2, <1>3 DEF NumbersOK
  <1> QED BY <1>1, <1>2, <1>4, <1>5, Zenon DEF NumbersOK

\* A request sends the batch with the next number.
LEMMA SendNumbers ==
  ASSUME Serving, WriterTypes, \A s \in Sources : NumbersOK(s), NEW h \in Handlers, Send(h)
  PROVE  \A s \in Sources : NumbersOK(s)' /\ Taken(s)' = Taken(s)
  <1>1. PICK x \in Sources :
           /\ Len(queue[x]) < Capacity
           /\ queue'[x] = Append(queue[x], sent[x] + 1) /\ sent'[x] = sent[x] + 1
           /\ hand'[x] = hand[x] /\ fd'[x] = fd[x]
           /\ \A t \in Sources \ {x} : SameAt(t)
    BY SendEffect, Zenon
  <1>2. \A t \in Sources \ {x} : NumbersOK(t)' /\ Taken(t)' = Taken(t)
    BY <1>1, NumbersFrame, Zenon DEF SameAt, Taken
  <1>3. /\ queue[x] \in Seq(Nat \ {0}) /\ sent[x] \in Nat /\ Capacity \in Nat /\ Len(queue[x]) \in Nat
        /\ Taken(x) \in Nat /\ sent[x] = Taken(x) + Len(queue[x])
    BY WriterTypesAt, Sizes, TakenType, Zenon
  <1>4. /\ Len(queue'[x]) = Len(queue[x]) + 1
        /\ DOMAIN queue'[x] = DOMAIN queue[x] \cup {Len(queue[x]) + 1}
        /\ queue'[x][Len(queue[x]) + 1] = sent[x] + 1
        /\ \A i \in DOMAIN queue[x] : queue'[x][i] = queue[x][i]
    <2>1. sent[x] + 1 \in Nat \ {0}
      BY <1>3
    <2> DEFINE n == sent[x] + 1
               q == Append(queue[x], n)
    <2> HIDE DEF n
    <2>2. /\ Len(q) = Len(queue[x]) + 1 /\ DOMAIN q = DOMAIN queue[x] \cup {Len(queue[x]) + 1}
          /\ q[Len(queue[x]) + 1] = n /\ \A i \in DOMAIN queue[x] : q[i] = queue[x][i]
      <3>1. n \in Nat \ {0}
        BY <2>1, Zenon DEF n
      <3>2. queue[x] \in Seq(Nat \ {0})
        BY <1>3, Zenon
      <3> QED BY ONLY <3>1, <3>2, PutFacts
    <2>3. queue'[x] = q
      BY <1>1, Zenon DEF n
    <2> QED BY <2>2, <2>3, Zenon DEF n
  <1>5. Taken(x)' = Taken(x)
    <2>1. sent'[x] = sent[x] + 1 /\ Len(queue'[x]) = Len(queue[x]) + 1
      BY <1>1, <1>4, Zenon
    <2>2. sent[x] \in Nat /\ Len(queue[x]) \in Nat
      BY <1>3, Zenon
    <2> QED BY ONLY <2>1, <2>2 DEF Taken
  <1>6. \A i \in DOMAIN queue'[x] : queue'[x][i] = Taken(x)' + i
    <2>1. \A i \in DOMAIN queue[x] : queue[x][i] = Taken(x) + i
      BY Zenon DEF NumbersOK
    <2>2. sent[x] + 1 = Taken(x) + (Len(queue[x]) + 1)
      BY <1>3
    <2> QED BY <1>4, <1>5, <2>1, <2>2, Zenon
  <1>7. Len(queue'[x]) <= Capacity /\ Len(queue'[x]) <= sent'[x]
    BY <1>1, <1>3, <1>4
  <1>8. NumbersOK(x)'
    BY <1>1, <1>5, <1>6, <1>7, Zenon DEF NumbersOK
  <1> QED BY <1>2, <1>5, <1>8, Zenon

\* The process dies.
LEMMA CrashNumbers ==
  ASSUME WriterTypes, Crash, NEW s \in Sources
  PROVE  NumbersOK(s)' /\ Taken(s)' = sent[s]
  <1>1. queue'[s] = <<>> /\ hand'[s] = 0 /\ fd'[s].op = 0 /\ sent'[s] = sent[s] /\ sent[s] \in Nat
    BY CrashEffect, ClosedFacts, WriterTypesAt, Zenon
  <1>2. Capacity \in Nat
    BY Sizes
  <1> QED BY <1>1, <1>2 DEF NumbersOK, Taken

\* Every step keeps the numbers in order.
LEMMA NumbersStep ==
  ASSUME ControlInv, NumbersInv, [Next]_vars
  PROVE  NumbersInv'
  <1>1. Serving /\ WriterTypes /\ JanitorTypes /\ (\A s \in Sources : WriterOK(s) /\ NumbersOK(s))
    BY Zenon DEF ControlInv, NumbersInv
  <1>2. ASSUME Quiet
        PROVE  NumbersInv'
    BY <1>1, <1>2, QuietSame, NumbersFrame, Zenon DEF NumbersInv
  <1>3. ASSUME NEW h \in Handlers, Call(h)
        PROVE  NumbersInv'
    <2>1. CASE StartEntry(h)
      <3>1. queue' = queue /\ sent' = sent /\ hand' = hand /\ fd' = fd
        BY <1>1, <2>1, StartEntryEffect, Zenon
      <3> QED BY <1>1, <3>1, Zenon DEF NumbersInv, NumbersOK, Taken
    <2>2. CASE Send(h)
      BY <1>1, <2>2, SendNumbers, Zenon DEF NumbersInv
    <2>3. CASE Admit(h) \/ Refuse(h) \/ QueueFull(h) \/ EndEntry(h) \/ Respond(h)
      BY <1>2, <2>3, QuietCalls, Zenon
    <2> QED BY <1>3, <2>1, <2>2, <2>3, Zenon DEF Call
  <1>4. ASSUME NEW s \in Sources, WriterLoop(s)
        PROVE  NumbersInv'
    <2>1. NumbersOK(s)'
      BY <1>1, <1>4, RecvNumbers, WorkNumbers, Zenon DEF WriterLoop, Work
    <2>2. \A t \in Sources \ {s} : SameAt(t)
      BY <1>1, <1>4, RecvEffect, WorkEffect, Zenon DEF WriterLoop, Work
    <2> QED BY <1>1, <2>1, <2>2, NumbersFrame, Zenon DEF NumbersInv
  <1>5. ASSUME PruneLogs
        PROVE  NumbersInv'
    <2>1. CASE RemoveLog
      <3>1. doomed \in LogFiles
        BY <1>1, <2>1, Zenon DEF RemoveLog, JanitorTypes
      <3>2. PICK s \in Sources, d \in Days :
              /\ fd'[s] = [fd[s] EXCEPT !.linked = @ /\ fd[s].date # d]
              /\ UNCHANGED <<queue, sent, hand>>
              /\ \A t \in Sources \ {s} : SameAt(t)
        BY <1>1, <2>1, <3>1, RemoveEffect, Zenon
      <3>3. fd'[s].op = fd[s].op
        <4>1. fd[s] \in FdType
          BY <1>1, WriterTypesAt, Zenon
        <4> QED BY <3>2, <4>1, Zenon DEF FdType
      <3>4. NumbersOK(s)'
        BY <1>1, <3>2, <3>3, Zenon DEF NumbersOK, Taken
      <3> QED BY <1>1, <3>2, <3>4, NumbersFrame, Zenon DEF NumbersInv
    <2>2. CASE ListLogs \/ StatLog \/ JanitorError
      BY <1>2, <2>2, QuietJanitor, Zenon
    <2> QED BY <1>5, <2>1, <2>2, Zenon DEF PruneLogs
  <1>6. CASE ShutdownSignal \/ Shutdown
    BY <1>2, <1>6, QuietShutdown, Zenon DEF Shutdown
  <1>7. CASE Crash
    BY <1>1, <1>7, CrashNumbers, Zenon DEF NumbersInv
  <1>8. CASE Tick
    <2>1. queue' = queue /\ sent' = sent /\ hand' = hand /\ fd' = fd
      BY <1>1, <1>8, TickEffect, Zenon
    <2> QED BY <1>1, <2>1, Zenon DEF NumbersInv, NumbersOK, Taken
  <1>9. CASE UNCHANGED vars
    BY <1>2, <1>9, QuietJanitor, Zenon
  <1> QED BY <1>3, <1>4, <1>5, <1>6, <1>7, <1>8, <1>9, Zenon DEF Next

\* The initial states.
LEMMA NumbersInit ==
  ASSUME Init
  PROVE  NumbersInv
  <1> SUFFICES ASSUME NEW s \in Sources
               PROVE  NumbersOK(s)
    BY Zenon DEF NumbersInv
  <1>1. queue[s] = <<>> /\ hand[s] = 0 /\ fd[s].op = 0 /\ sent[s] = 0
    BY ClosedFacts, Zenon DEF Init
  <1>2. Capacity \in Nat
    BY Sizes
  <1> QED BY <1>1, <1>2 DEF NumbersOK, Taken

-----------------------------------------------------------------------------
(* What the steps do to the files                                          *)

\* Log files are named by their source and day.
LEMMA FileNames ==
  ASSUME NEW s \in Sources, NEW d \in Days
  PROVE  /\ <<s, d>> \in LogFiles /\ <<s, d>>[1] = s /\ <<s, d>>[2] = d
         /\ \A t \in Sources, e \in Days : <<t, e>> = <<s, d>> <=> t = s /\ e = d
BY DEF LogFiles

\* The types of a file's values.
LEMMA FileTypes ==
  ASSUME DiskTypes, NEW f \in LogFiles
  PROVE  /\ disk[f] \in FileType /\ disk[f].lines \in Seq(Nat) /\ disk[f].mtime \in Nat
         /\ disk[f].torn \in BOOLEAN /\ disk[f].exists \in BOOLEAN
BY Zenon DEF DiskTypes, FileType

\* A file is changed, the others are left alone.
LEMMA DiskUpdate ==
  ASSUME DiskTypes, NEW f \in LogFiles, NEW v \in FileType, disk' = [disk EXCEPT ![f] = v]
  PROVE  DiskTypes' /\ disk'[f] = v /\ \A g \in LogFiles : g # f => disk'[g] = disk[g]
BY Zenon DEF DiskTypes

\* No file.
LEMMA NoFileFacts ==
  NoFile \in FileType /\ NoFile.lines = <<>> /\ ~ NoFile.torn /\ ~ NoFile.exists
BY DEF NoFile, FileType

\* Opening creates the file if it is not there.
LEMMA OpenDisk ==
  ASSUME WriterTypes, DiskTypes, NEW s \in Sources, OpenLogFile(s)
  PROVE  LET f == <<s, day[s]>> IN
         /\ DiskTypes' /\ f \in LogFiles /\ \A g \in LogFiles : g # f => disk'[g] = disk[g]
         /\ disk'[f].exists
         /\ disk[f].exists => disk'[f] = disk[f]
         /\ ~ disk[f].exists => disk'[f].lines = <<>> /\ disk'[f].mtime = now /\ ~ disk'[f].torn
  <1> DEFINE f == <<s, day[s]>>
             n == [NoFile EXCEPT !.exists = TRUE, !.mtime = now]
             v == IF disk[f].exists THEN disk[f] ELSE n
  <1>1. f \in LogFiles
    BY WriterTypesAt, FileNames, Zenon
  <1>2. n \in FileType /\ n.exists /\ n.lines = <<>> /\ n.mtime = now /\ ~ n.torn
    <2>1. now \in Nat
      BY WriterTypesAt, Zenon
    <2> QED BY <2>1, NoFileFacts, Zenon DEF FileType
  <1>3. disk' = [disk EXCEPT ![f] = v]
    BY OpenEffect, Zenon
  <1> HIDE DEF f, n
  <1>4. v \in FileType
    BY <1>1, <1>2, FileTypes, Zenon
  <1>5. DiskTypes' /\ disk'[f] = v /\ \A g \in LogFiles : g # f => disk'[g] = disk[g]
    BY <1>1, <1>3, <1>4, DiskUpdate, Zenon
  <1>6. CASE disk[f].exists
    <2>1. disk'[f] = disk[f]
      BY <1>5, <1>6, Zenon
    <2> QED BY <1>1, <1>5, <1>6, <2>1, Zenon DEF f
  <1>7. CASE ~ disk[f].exists
    <2>1. disk'[f] = n
      BY <1>5, <1>7, Zenon
    <2> QED BY <1>1, <1>2, <1>5, <1>7, <2>1, Zenon DEF f
  <1> QED BY <1>6, <1>7, Zenon

\* A write that ends well.
LEMMA LandDisk ==
  ASSUME WriterTypes, DiskTypes, NEW s \in Sources, Land(s)
  PROVE  LET f == <<s, fd[s].date>> IN
         /\ DiskTypes' /\ f \in LogFiles /\ \A g \in LogFiles : g # f => disk'[g] = disk[g]
         /\ disk'[f].exists = disk[f].exists
         /\ \/ ~ fd[s].linked /\ UNCHANGED <<disk, lost>>
            \/ /\ fd[s].linked /\ disk[f].torn /\ ~ disk'[f].torn /\ disk'[f].mtime = now
               /\ disk'[f].lines = disk[f].lines /\ lost' = lost \cup {<<s, fd[s].op>>}
            \/ /\ fd[s].linked /\ ~ disk[f].torn /\ ~ disk'[f].torn /\ disk'[f].mtime = now
               /\ disk'[f].lines = Append(disk[f].lines, fd[s].op) /\ lost' = lost
  <1> DEFINE f == <<s, fd[s].date>>
             v == [disk[f] EXCEPT !.torn = FALSE, !.mtime = now]
             w == [disk[f] EXCEPT !.lines = Append(disk[f].lines, fd[s].op), !.mtime = now]
  <1>1. f \in LogFiles
    BY WriterTypesAt, FileNames, Zenon
  <1>2. disk[f] \in FileType /\ now \in Nat /\ fd[s].op \in Nat /\ disk[f].lines \in Seq(Nat)
    BY <1>1, FileTypes, WriterTypesAt, Zenon
  <1>3. Append(disk[f].lines, fd[s].op) \in Seq(Nat)
    BY <1>2, PutFacts, Zenon
  <1>4. v \in FileType /\ ~ v.torn /\ v.mtime = now /\ v.lines = disk[f].lines /\ v.exists = disk[f].exists
    BY <1>2, Zenon DEF FileType
  <1>5. w \in FileType /\ w.torn = disk[f].torn /\ w.mtime = now /\ w.exists = disk[f].exists
        /\ w.lines = Append(disk[f].lines, fd[s].op)
    BY <1>2, <1>3, Zenon DEF FileType
  <1>6. \/ ~ fd[s].linked /\ UNCHANGED <<disk, lost>>
        \/ /\ fd[s].linked /\ disk[f].torn /\ disk' = [disk EXCEPT ![f] = v]
           /\ lost' = lost \cup {<<s, fd[s].op>>}
        \/ fd[s].linked /\ ~ disk[f].torn /\ disk' = [disk EXCEPT ![f] = w] /\ lost' = lost
    BY Zenon DEF Land
  <1> HIDE DEF f, v, w
  <1>7. CASE disk' = disk /\ ~ fd[s].linked
    <2>1. DiskTypes'
      BY <1>7, Zenon DEF DiskTypes
    <2> QED BY <1>1, <1>6, <1>7, <2>1, Zenon DEF f
  <1>8. CASE fd[s].linked /\ disk[f].torn /\ disk' = [disk EXCEPT ![f] = v]
    <2>1. DiskTypes' /\ disk'[f] = v /\ \A g \in LogFiles : g # f => disk'[g] = disk[g]
      BY <1>1, <1>4, <1>8, DiskUpdate, Zenon
    <2> QED BY <1>1, <1>4, <1>6, <1>8, <2>1, Zenon DEF f
  <1>9. CASE fd[s].linked /\ ~ disk[f].torn /\ disk' = [disk EXCEPT ![f] = w]
    <2>1. DiskTypes' /\ disk'[f] = w /\ \A g \in LogFiles : g # f => disk'[g] = disk[g]
      BY <1>1, <1>5, <1>9, DiskUpdate, Zenon
    <2> QED BY <1>1, <1>5, <1>6, <1>9, <2>1, Zenon DEF f
  <1> QED BY <1>6, <1>7, <1>8, <1>9, Zenon

\* A write that fails, and may leave part of its line.
LEMMA LandFailsDisk ==
  ASSUME WriterTypes, DiskTypes, NEW s \in Sources, LandFails(s)
  PROVE  LET f == <<s, fd[s].date>> IN
         /\ DiskTypes' /\ f \in LogFiles /\ \A g \in LogFiles : g # f => disk'[g] = disk[g]
         /\ disk'[f].exists = disk[f].exists /\ disk'[f].lines = disk[f].lines
         /\ \/ disk' = disk
            \/ fd[s].linked /\ disk'[f].torn /\ disk'[f].mtime = now
  <1> DEFINE f == <<s, fd[s].date>>
             v == [disk[f] EXCEPT !.torn = TRUE, !.mtime = now]
  <1>1. f \in LogFiles
    BY WriterTypesAt, FileNames, Zenon
  <1>2. disk[f] \in FileType /\ now \in Nat
    BY <1>1, FileTypes, WriterTypesAt, Zenon
  <1>3. v \in FileType /\ v.torn /\ v.mtime = now /\ v.lines = disk[f].lines /\ v.exists = disk[f].exists
    BY <1>2, Zenon DEF FileType
  <1>4. disk' = disk \/ (fd[s].linked /\ disk' = [disk EXCEPT ![f] = v])
    BY LandFailsEffect, Zenon
  <1> HIDE DEF f, v
  <1>5. CASE disk' = disk
    <2>1. DiskTypes'
      BY <1>5, Zenon DEF DiskTypes
    <2> QED BY <1>1, <1>5, <2>1, Zenon DEF f
  <1>6. CASE fd[s].linked /\ disk' = [disk EXCEPT ![f] = v]
    <2>1. DiskTypes' /\ disk'[f] = v /\ \A g \in LogFiles : g # f => disk'[g] = disk[g]
      BY <1>1, <1>3, <1>6, DiskUpdate, Zenon
    <2> QED BY <1>1, <1>3, <1>6, <2>1, Zenon DEF f
  <1> QED BY <1>4, <1>5, <1>6, ZenonT(40)

\* A crash may tear the line a write in flight was adding to its file.
LEMMA CrashDisk ==
  ASSUME WriterTypes, DiskTypes, Crash
  PROVE  /\ DiskTypes'
         /\ \A f \in LogFiles :
              /\ disk'[f].lines = disk[f].lines /\ disk'[f].exists = disk[f].exists
              /\ \/ disk'[f] = disk[f]
                 \/ /\ disk'[f].torn /\ disk'[f].mtime = now
                    /\ \E s \in Sources : f = <<s, fd[s].date>> /\ fd[s].op # 0 /\ fd[s].linked
  <1>1. PICK T \in SUBSET {<<s, fd[s].date>> : s \in {x \in Sources : fd[x].op # 0 /\ fd[x].linked}} :
          disk' = [f \in LogFiles |-> IF f \in T THEN [disk[f] EXCEPT !.torn = TRUE, !.mtime = now]
                                                 ELSE disk[f]]
    BY Zenon DEF Crash
  <1>2. now \in Nat
    <2>1. now \in 0 .. MaxNow
      BY Zenon DEF WriterTypes
    <2> QED BY <2>1, Sizes
  <1>3. ASSUME NEW f \in LogFiles
        PROVE  LET v == [disk[f] EXCEPT !.torn = TRUE, !.mtime = now] IN
               v \in FileType /\ v.torn /\ v.mtime = now /\ v.lines = disk[f].lines /\ v.exists = disk[f].exists
    <2>1. disk[f] \in FileType
      BY FileTypes, Zenon
    <2> QED BY <1>2, <2>1, Zenon DEF FileType
  <1>4. DiskTypes'
    BY <1>1, <1>3, FileTypes, Zenon DEF DiskTypes
  <1>5. ASSUME NEW f \in LogFiles
        PROVE  /\ disk'[f].lines = disk[f].lines /\ disk'[f].exists = disk[f].exists
               /\ \/ disk'[f] = disk[f]
                  \/ /\ disk'[f].torn /\ disk'[f].mtime = now
                     /\ \E s \in Sources : f = <<s, fd[s].date>> /\ fd[s].op # 0 /\ fd[s].linked
    <2>1. CASE f \in T
      <3>1. disk'[f] = [disk[f] EXCEPT !.torn = TRUE, !.mtime = now]
        BY <1>1, <2>1, Zenon
      <3>2. \E s \in Sources : f = <<s, fd[s].date>> /\ fd[s].op # 0 /\ fd[s].linked
        BY <1>1, <2>1, Zenon
      <3> QED BY <1>3, <3>1, <3>2, Zenon
    <2>2. CASE f \notin T
      BY <1>1, <2>2, Zenon
    <2> QED BY <2>1, <2>2, Zenon
  <1> QED BY <1>4, <1>5, Zenon

-----------------------------------------------------------------------------
(* The lines of a source are in order                                      *)

\* No line is added to a file of the source.
LinesKept(s) == \A d \in Days : disk'[<<s, d>>].lines \in {disk[<<s, d>>].lines, <<>>}

\* A line there was is still there, a file may be gone.
LEMMA KeptLines ==
  ASSUME NEW s, LinesKept(s), NEW d \in Days
  PROVE  /\ Lines(s, d)' = Lines(s, d) \/ DOMAIN (Lines(s, d)') = {}
         /\ Range(Lines(s, d))' \subseteq Range(Lines(s, d))
  <1>1. disk'[<<s, d>>].lines = disk[<<s, d>>].lines \/ disk'[<<s, d>>].lines = <<>>
    BY Zenon DEF LinesKept
  <1>2. DOMAIN <<>> = {}
    OBVIOUS
  <1> QED BY <1>1, <1>2, Zenon DEF Lines, Range

\* A step that keeps the lines of a source keeps them in order.
LEMMA SortedFrame ==
  ASSUME NEW s, Sorted(s), LinesKept(s)
  PROVE  Sorted(s)'
  <1>1. \A d \in Days : \A i, j \in DOMAIN (Lines(s, d)') : i < j => Lines(s, d)'[i] < Lines(s, d)'[j]
    BY KeptLines, Zenon DEF Sorted
  <1>2. \A d, e \in Days : d < e =>
          \A q \in Range(Lines(s, d))', r \in Range(Lines(s, e))' : q < r
    BY KeptLines, Zenon DEF Sorted
  <1> QED BY <1>1, <1>2, Zenon DEF Sorted

\* The writer's state changes, the files at most lose lines.
LEMMA BehindWork ==
  ASSUME NEW s, Behind(s), LinesKept(s), Taken(s)' = Taken(s), now' = now,
         fd'[s].op \in {0, fd[s].op, hand[s]},
         hand'[s] # 0 => hand'[s] = hand[s] /\ day'[s] = day[s],
         fd'[s].open => \/ fd[s].open /\ fd'[s].date = fd[s].date
                        \/ hand[s] # 0 /\ fd'[s].date = day[s]
  PROVE  Behind(s)'
  <1> SUFFICES ASSUME NEW d \in Days, NEW r \in Range(Lines(s, d))'
               PROVE  /\ r \in 1 .. Taken(s)'
                      /\ fd'[s].op # 0 => r < fd'[s].op
                      /\ hand'[s] # 0 => r < hand'[s] /\ d <= day'[s]
                      /\ d <= Date(now')
                      /\ fd'[s].open => d <= fd'[s].date
    BY Zenon DEF Behind
  <1>1. r \in Range(Lines(s, d))
    BY KeptLines, Zenon
  <1>2. /\ r \in 1 .. Taken(s)
        /\ fd[s].op # 0 => r < fd[s].op
        /\ hand[s] # 0 => r < hand[s] /\ d <= day[s]
        /\ d <= Date(now)
        /\ fd[s].open => d <= fd[s].date
    BY <1>1, Zenon DEF Behind
  <1> QED BY <1>2, Zenon

\* A step that leaves a source alone.
LEMMA OrderFrame ==
  ASSUME NEW t \in Sources, Behind(t), Sorted(t), SameAt(t), now' = now, LinesKept(t)
  PROVE  Behind(t)' /\ Sorted(t)'
  <1>1. Taken(t)' = Taken(t)
    BY Zenon DEF SameAt, Taken
  <1> QED BY <1>1, BehindWork, SortedFrame, Zenon DEF SameAt

\* The writer takes a batch: its number is greater than those of all lines written.
LEMMA RecvOrder ==
  ASSUME WriterTypes, NEW s \in Sources, WriterOK(s), NumbersOK(s), Behind(s), Sorted(s), Recv(s)
  PROVE  Behind(s)' /\ Sorted(s)'
  <1>1. /\ disk' = disk /\ now' = now /\ fd' = fd /\ day'[s] = Date(now)
        /\ Taken(s)' = Taken(s) + 1 /\ hand'[s] = Taken(s) + 1 /\ Taken(s) \in Nat
    BY RecvEffect, RecvNumbers, TakenType, Zenon
  <1>2. Sorted(s)'
    BY <1>1, SortedFrame, Zenon DEF LinesKept
  <1>3. ASSUME NEW d \in Days, NEW r \in Range(Lines(s, d))
        PROVE  /\ r \in 1 .. Taken(s)'
               /\ fd'[s].op # 0 => r < fd'[s].op
               /\ hand'[s] # 0 => r < hand'[s] /\ d <= day'[s]
               /\ d <= Date(now')
               /\ fd'[s].open => d <= fd'[s].date
    <2>1. /\ r \in 1 .. Taken(s) /\ d <= Date(now)
          /\ fd[s].op # 0 => r < fd[s].op
          /\ fd[s].open => d <= fd[s].date
      BY Zenon DEF Behind
    <2>2. r \in 1 .. (Taken(s) + 1) /\ r < Taken(s) + 1
      BY <1>1, <2>1
    <2> QED BY <1>1, <2>1, <2>2, Zenon
  <1>4. \A d \in Days : Lines(s, d)' = Lines(s, d)
    BY <1>1, Zenon DEF Lines
  <1> QED BY <1>2, <1>3, <1>4, Zenon DEF Behind

\* The record lands in the file the writer has open, behind all others.
LEMMA LandOrder ==
  ASSUME WriterTypes, DiskTypes, NEW s \in Sources, WriterOK(s), NumbersOK(s), Behind(s), Sorted(s),
         Land(s), fd[s].linked, ~ disk[<<s, fd[s].date>>].torn
  PROVE  Behind(s)' /\ Sorted(s)'
  <1> DEFINE D == fd[s].date
             n == fd[s].op
             L(d) == disk[<<s, d>>].lines
             P(d) == disk'[<<s, d>>].lines
             q == L(D)
  <1>1. /\ n # 0 /\ n \in Nat /\ D \in Days /\ D \in Nat /\ fd[s].open
        /\ UNCHANGED <<hand, day, now>> /\ fd'[s] = [fd[s] EXCEPT !.op = 0]
    BY LandEffect, WriterTypesAt, ZenonT(40) DEF WriterOK
  <1>2. fd'[s].op = 0 /\ fd'[s].date = D
    BY <1>1, WriterTypesAt, Zenon DEF FdType
  <1>3. Taken(s)' = Taken(s) /\ Taken(s) \in Nat
    BY WorkNumbers, TakenType, Zenon DEF Work
  <1>4. /\ q \in Seq(Nat)
        /\ P(D) = Append(q, n)
        /\ \A d \in Days : d # D => P(d) = L(d)
    <2>1. /\ <<s, D>> \in LogFiles
          /\ \A g \in LogFiles : g # <<s, D>> => disk'[g] = disk[g]
          /\ disk'[<<s, D>>].lines = Append(disk[<<s, D>>].lines, n)
      BY LandDisk, Zenon
    <2>2. \A d \in Days : d # D => <<s, d>> \in LogFiles /\ <<s, d>> # <<s, D>>
      BY <1>1, FileNames, Zenon
    <2> QED BY <2>1, <2>2, FileTypes, Zenon
  <1>5. \A d \in Days : \A r \in Range(L(d)) :
          /\ r \in 1 .. Taken(s) /\ r < n /\ d <= Date(now) /\ d <= D
          /\ hand[s] # 0 => r < hand[s] /\ d <= day[s]
    BY <1>1, Zenon DEF Behind, Lines
  <1>6. /\ n \in 1 .. Taken(s) /\ D <= Date(now) /\ D <= D
        /\ hand[s] # 0 => n < hand[s] /\ D <= day[s]
    <2>1. n <= Taken(s) /\ (hand[s] # 0 => n < hand[s])
      BY Zenon DEF NumbersOK
    <2>2. date[s] = D /\ date[s] # None
      BY <1>1, LogIngestAssumption DEF WriterOK
    <2>3. D <= Date(now) /\ (hand[s] # 0 => D <= day[s])
      BY <2>2, Zenon DEF WriterOK
    <2>4. n \in 1 .. Taken(s) /\ D <= D
      BY <1>1, <1>3, <2>1
    <2> QED BY <2>1, <2>3, <2>4, Zenon
  <1>12. /\ \A d \in Days : \A i, j \in DOMAIN L(d) : i < j => L(d)[i] < L(d)[j]
         /\ \A d, e \in Days : d < e => \A x \in Range(L(d)), y \in Range(L(e)) : x < y
    BY Zenon DEF Sorted, Lines
  <1> HIDE DEF D, n, q, L, P
  <1>7. Range(Append(q, n)) = Range(q) \cup {n} /\ DOMAIN Append(q, n) = DOMAIN q \cup {Len(q) + 1}
        /\ Append(q, n)[Len(q) + 1] = n /\ Len(q) \in Nat
        /\ \A i \in DOMAIN q : i \in Nat /\ i <= Len(q) /\ Append(q, n)[i] = q[i]
    <2>1. q \in Seq(Nat) /\ n \in Nat
      BY <1>1, <1>4, Zenon
    <2> QED BY ONLY <2>1, RangePut, PutFacts
  <1>8. \A d \in Days : \A r \in Range(P(d)) : r \in Range(L(d)) \/ (r = n /\ d = D)
    <2> SUFFICES ASSUME NEW d \in Days, NEW r \in Range(P(d))
                 PROVE  r \in Range(L(d)) \/ (r = n /\ d = D)
      BY Zenon
    <2>1. CASE d # D
      BY <1>4, <2>1, Zenon
    <2>2. CASE d = D
      <3>1. r \in Range(Append(q, n)) /\ q = L(d)
        BY <1>4, <2>2, Zenon DEF q
      <3> QED BY <1>7, <2>2, <3>1, Zenon
    <2> QED BY <2>1, <2>2, Zenon
  <1>9. Behind(s)'
    <2> SUFFICES ASSUME NEW d \in Days, NEW r \in Range(P(d))
                 PROVE  /\ r \in 1 .. Taken(s)'
                        /\ fd'[s].op # 0 => r < fd'[s].op
                        /\ hand'[s] # 0 => r < hand'[s] /\ d <= day'[s]
                        /\ d <= Date(now')
                        /\ fd'[s].open => d <= fd'[s].date
      BY Zenon DEF Behind, Lines, P
    <2>1. CASE r \in Range(L(d))
      BY <1>1, <1>2, <1>3, <1>5, <2>1, Zenon
    <2>2. CASE r = n /\ d = D
      BY <1>1, <1>2, <1>3, <1>6, <2>2, ZenonT(40)
    <2> QED BY <1>8, <2>1, <2>2, Zenon
  <1>10. \A d \in Days : \A i, j \in DOMAIN P(d) : i < j => P(d)[i] < P(d)[j]
    <2> SUFFICES ASSUME NEW d \in Days, NEW i \in DOMAIN P(d), NEW j \in DOMAIN P(d), i < j
                 PROVE  P(d)[i] < P(d)[j]
      BY Zenon
    <2>1. CASE d # D
      BY <1>4, <1>12, <2>1, Zenon
    <2>2. CASE d = D
      <3>1. i \in DOMAIN q \cup {Len(q) + 1} /\ j \in DOMAIN q \cup {Len(q) + 1}
        BY <1>4, <1>7, <2>2, Zenon
      <3>2. i \in DOMAIN q
        <4>1. ASSUME i = Len(q) + 1
              PROVE  FALSE
          BY <1>7, <3>1, <4>1
        <4> QED BY <3>1, <4>1, Zenon
      <3>3. CASE j \in DOMAIN q
        BY <1>4, <1>7, <2>2, <3>2, <3>3, <1>12, ZenonT(40) DEF q
      <3>4. CASE j = Len(q) + 1
        <4>1. q[i] \in Range(q)
          BY <3>2, Zenon DEF Range
        <4>2. q[i] < n
          BY <1>5, <2>2, <4>1, Zenon DEF q
        <4> QED BY <1>4, <1>7, <2>2, <3>2, <3>4, <4>2, Zenon
      <3> QED BY <3>1, <3>3, <3>4, Zenon
    <2> QED BY <2>1, <2>2, Zenon
  <1>11. \A d, e \in Days : d < e => \A x \in Range(P(d)), y \in Range(P(e)) : x < y
    <2> SUFFICES ASSUME NEW d \in Days, NEW e \in Days, d < e,
                        NEW x \in Range(P(d)), NEW y \in Range(P(e))
                 PROVE  x < y
      BY Zenon
    <2>1. CASE x \in Range(L(d)) /\ y \in Range(L(e))
      BY <1>12, <2>1, Zenon
    <2>2. CASE x \in Range(L(d)) /\ y = n /\ e = D
      BY <1>5, <2>2, Zenon
    <2>3. CASE x = n /\ d = D /\ y \in Range(L(e))
      <3>1. e <= D /\ D < e
        BY <1>5, <2>3, Zenon
      <3> QED BY <1>1, <3>1, DaysAreNat
    <2>4. CASE d = D /\ e = D
      BY <1>1, <2>4
    <2> QED BY <1>8, <2>1, <2>2, <2>3, <2>4, Zenon
  <1> QED BY <1>9, <1>10, <1>11, ZenonT(40) DEF Sorted, Lines, P

\* The other steps of a writer add no line.
LEMMA WorkKeepsLines ==
  ASSUME WriterTypes, DiskTypes, NEW s \in Sources, Work(s),
         ~ (Land(s) /\ fd[s].linked /\ ~ disk[<<s, fd[s].date>>].torn)
  PROVE  DiskTypes' /\ \A t \in Sources : LinesKept(t)
  <1>1. ASSUME disk' = disk
        PROVE  DiskTypes' /\ \A t \in Sources : LinesKept(t)
    BY <1>1, Zenon DEF DiskTypes, LinesKept
  <1>2. ASSUME NEW f \in LogFiles, DiskTypes', disk'[f].lines \in {disk[f].lines, <<>>},
               \A g \in LogFiles : g # f => disk'[g] = disk[g]
        PROVE  DiskTypes' /\ \A t \in Sources : LinesKept(t)
    <2>1. \A t \in Sources, d \in Days : <<t, d>> \in LogFiles
      BY FileNames, Zenon
    <2> QED BY <1>2, <2>1, Zenon DEF LinesKept
  <1>3. CASE Rotate(s) \/ OpenFails(s) \/ Write(s) \/ WriterExit(s)
    BY <1>1, <1>3, RotateEffect, OpenFailsEffect, WriteEffect, WriterExitEffect, Zenon
  <1>4. CASE OpenLogFile(s)
    <2>1. disk'[<<s, day[s]>>].lines \in {disk[<<s, day[s]>>].lines, <<>>}
      BY <1>4, OpenDisk, Zenon
    <2> QED BY <1>2, <1>4, <2>1, OpenDisk, Zenon
  <1>5. CASE Land(s)
    <2>1. disk'[<<s, fd[s].date>>].lines = disk[<<s, fd[s].date>>].lines
      BY <1>5, LandDisk, Zenon
    <2>2. disk'[<<s, fd[s].date>>].lines \in {disk[<<s, fd[s].date>>].lines, <<>>}
      BY <2>1, Zenon
    <2> QED BY <1>2, <1>5, <2>2, LandDisk, Zenon
  <1>6. CASE LandFails(s)
    <2>1. disk'[<<s, fd[s].date>>].lines \in {disk[<<s, fd[s].date>>].lines, <<>>}
      BY <1>6, LandFailsDisk, Zenon
    <2> QED BY <1>2, <1>6, <2>1, LandFailsDisk, Zenon
  <1> QED BY <1>3, <1>4, <1>5, <1>6, Zenon DEF Work

\* The lines of one source are no business of another's writer.
LEMMA LandElsewhere ==
  ASSUME WriterTypes, DiskTypes, NEW s \in Sources, Land(s), NEW t \in Sources, t # s
  PROVE  \A d \in Days : <<t, d>> \in LogFiles /\ disk'[<<t, d>>] = disk[<<t, d>>]
  <1>1. \A d \in Days : <<t, d>> \in LogFiles /\ <<t, d>> # <<s, fd[s].date>>
    BY WriterTypesAt, FileNames, Zenon
  <1> QED BY <1>1, LandDisk, Zenon

\* The writer's steps keep the lines in order.
LEMMA WriterOrder ==
  ASSUME WriterTypes, OrderInv, NEW s \in Sources, WriterOK(s), NumbersOK(s), WriterLoop(s)
  PROVE  OrderInv'
  <1>1. DiskTypes /\ \A t \in Sources : Behind(t) /\ Sorted(t)
    BY Zenon DEF OrderInv
  <1>2. CASE Recv(s)
    <2>1. disk' = disk /\ now' = now /\ \A t \in Sources \ {s} : SameAt(t)
      BY <1>2, RecvEffect, Zenon
    <2>2. DiskTypes' /\ \A t \in Sources : LinesKept(t)
      BY <1>1, <2>1, Zenon DEF DiskTypes, LinesKept
    <2>3. Behind(s)' /\ Sorted(s)'
      BY <1>1, <1>2, RecvOrder, Zenon
    <2> QED BY <1>1, <2>1, <2>2, <2>3, OrderFrame, Zenon DEF OrderInv
  <1>3. CASE Land(s) /\ fd[s].linked /\ ~ disk[<<s, fd[s].date>>].torn
    <2>1. Behind(s)' /\ Sorted(s)' /\ DiskTypes' /\ now' = now
          /\ \A t \in Sources \ {s} : SameAt(t)
      BY <1>1, <1>3, LandOrder, LandDisk, LandEffect, Zenon
    <2>2. \A t \in Sources \ {s} : LinesKept(t)
      BY <1>1, <1>3, LandElsewhere, Zenon DEF LinesKept
    <2> QED BY <1>1, <2>1, <2>2, OrderFrame, Zenon DEF OrderInv
  <1>4. CASE Work(s) /\ ~ (Land(s) /\ fd[s].linked /\ ~ disk[<<s, fd[s].date>>].torn)
    <2>1. DiskTypes' /\ \A t \in Sources : LinesKept(t)
      BY <1>1, <1>4, WorkKeepsLines, Zenon
    <2>2. now' = now /\ (\A t \in Sources \ {s} : SameAt(t)) /\ Taken(s)' = Taken(s)
      BY <1>4, WorkEffect, WorkNumbers, Zenon
    <2>3. /\ fd'[s].op \in {0, fd[s].op, hand[s]}
          /\ hand'[s] # 0 => hand'[s] = hand[s] /\ day'[s] = day[s]
          /\ fd'[s].open => \/ fd[s].open /\ fd'[s].date = fd[s].date
                            \/ hand[s] # 0 /\ fd'[s].date = day[s]
      BY <1>4, WorkEffect, Zenon
    <2>4. Behind(s)' /\ Sorted(s)'
      BY <1>1, <2>1, <2>2, <2>3, BehindWork, SortedFrame, ZenonT(40)
    <2> QED BY <1>1, <2>1, <2>2, <2>4, OrderFrame, Zenon DEF OrderInv
  <1> QED BY <1>2, <1>3, <1>4, Zenon DEF WriterLoop, Work

\* Every step keeps the lines in order.
LEMMA OrderStep ==
  ASSUME ControlInv, NumbersInv, OrderInv, [Next]_vars
  PROVE  OrderInv'
  <1>1. /\ Serving /\ WriterTypes /\ JanitorTypes /\ DiskTypes
        /\ \A s \in Sources : WriterOK(s) /\ NumbersOK(s) /\ Behind(s) /\ Sorted(s)
    BY Zenon DEF ControlInv, NumbersInv, OrderInv
  <1>2. ASSUME Quiet
        PROVE  OrderInv'
    <2>1. disk' = disk /\ now' = now /\ \A t \in Sources : SameAt(t)
      BY <1>2, QuietSame, Zenon DEF Quiet
    <2>2. DiskTypes' /\ \A t \in Sources : LinesKept(t)
      BY <1>1, <2>1, Zenon DEF DiskTypes, LinesKept
    <2> QED BY <1>1, <2>1, <2>2, OrderFrame, Zenon DEF OrderInv
  <1>3. ASSUME UNCHANGED <<disk, now, hand, day, fd>>, \A s \in Sources : Taken(s)' = Taken(s)
        PROVE  OrderInv'
    <2>1. DiskTypes' /\ \A t \in Sources : LinesKept(t)
      BY <1>1, <1>3, Zenon DEF DiskTypes, LinesKept
    <2>2. \A s \in Sources : Behind(s)'
      BY <1>1, <1>3, <2>1, BehindWork, Zenon
    <2> QED BY <1>1, <2>1, <2>2, SortedFrame, Zenon DEF OrderInv
  <1>4. ASSUME NEW h \in Handlers, Call(h)
        PROVE  OrderInv'
    <2>1. CASE StartEntry(h)
      <3>1. UNCHANGED <<queue, sent, disk, now, hand, day, fd>>
        BY <1>1, <2>1, StartEntryEffect, Zenon
      <3>2. \A s \in Sources : Taken(s)' = Taken(s)
        BY <3>1, Zenon DEF Taken
      <3> QED BY <1>3, <3>1, <3>2, Zenon
    <2>2. CASE Send(h)
      <3>1. UNCHANGED <<disk, now, hand, day, fd>>
        BY <1>1, <2>2, SendEffect, Zenon
      <3>2. \A s \in Sources : Taken(s)' = Taken(s)
        BY <1>1, <2>2, SendNumbers, Zenon
      <3> QED BY <1>3, <3>1, <3>2, Zenon
    <2>3. CASE Admit(h) \/ Refuse(h) \/ QueueFull(h) \/ EndEntry(h) \/ Respond(h)
      BY <1>2, <2>3, QuietCalls, Zenon
    <2> QED BY <1>4, <2>1, <2>2, <2>3, Zenon DEF Call
  <1>5. ASSUME NEW s \in Sources, WriterLoop(s)
        PROVE  OrderInv'
    BY <1>1, <1>5, WriterOrder, Zenon
  <1>6. CASE RemoveLog
    <2>1. doomed \in LogFiles
      BY <1>1, <1>6, Zenon DEF RemoveLog, JanitorTypes
    <2>2. PICK s \in Sources, d \in Days :
            /\ disk' = [disk EXCEPT ![doomed] = NoFile]
            /\ fd'[s] = [fd[s] EXCEPT !.linked = @ /\ fd[s].date # d]
            /\ UNCHANGED <<queue, sent, hand, day, now>>
            /\ \A t \in Sources \ {s} : SameAt(t)
      BY <1>1, <1>6, <2>1, RemoveEffect, Zenon
    <2>3. DiskTypes' /\ disk'[doomed] = NoFile /\ \A g \in LogFiles : g # doomed => disk'[g] = disk[g]
      BY <1>1, <2>1, <2>2, NoFileFacts, DiskUpdate, Zenon
    <2>4. \A t \in Sources : LinesKept(t)
      <3>1. \A t \in Sources, e \in Days : <<t, e>> \in LogFiles
        BY FileNames, Zenon
      <3> QED BY <2>3, <3>1, NoFileFacts, Zenon DEF LinesKept
    <2>5. fd'[s].op = fd[s].op /\ fd'[s].open = fd[s].open /\ fd'[s].date = fd[s].date
      <3>1. fd[s] \in FdType
        BY <1>1, WriterTypesAt, Zenon
      <3> QED BY <2>2, <3>1, Zenon DEF FdType
    <2>6. Taken(s)' = Taken(s)
      BY <2>2, Zenon DEF Taken
    <2>7. Behind(s)' /\ Sorted(s)'
      BY <1>1, <2>2, <2>4, <2>5, <2>6, BehindWork, SortedFrame, Zenon
    <2> QED BY <1>1, <2>2, <2>3, <2>4, <2>7, OrderFrame, ZenonT(40) DEF OrderInv
  <1>7. CASE ListLogs \/ StatLog \/ JanitorError \/ UNCHANGED vars
    BY <1>2, <1>7, QuietJanitor, Zenon
  <1>8. CASE ShutdownSignal \/ Shutdown
    BY <1>2, <1>8, QuietShutdown, Zenon DEF Shutdown
  <1>9. CASE Crash
    <2>1. DiskTypes' /\ \A f \in LogFiles : disk'[f].lines = disk[f].lines
      BY <1>1, <1>9, CrashDisk, Zenon
    <2>2. \A t \in Sources : LinesKept(t)
      <3>1. \A t \in Sources, e \in Days : <<t, e>> \in LogFiles
        BY FileNames, Zenon
      <3> QED BY <2>1, <3>1, Zenon DEF LinesKept
    <2>3. ASSUME NEW s \in Sources
          PROVE  Behind(s)'
      <3>1. hand'[s] = 0 /\ fd'[s].op = 0 /\ ~ fd'[s].open /\ now' = now
        BY <1>1, <1>9, CrashEffect, ClosedFacts, Zenon
      <3>2. Taken(s)' = sent[s] /\ Taken(s) <= sent[s] /\ Taken(s) \in Nat /\ sent[s] \in Nat
        BY <1>1, <1>9, CrashNumbers, TakenType, WriterTypesAt, Zenon
      <3>3. \A d \in Days : \A r \in Range(Lines(s, d))' : r \in 1 .. Taken(s) /\ d <= Date(now)
        BY <1>1, <2>2, KeptLines, Zenon DEF Behind
      <3>4. \A r \in 1 .. Taken(s) : r \in 1 .. sent[s]
        BY <3>2
      <3> QED BY <3>1, <3>2, <3>3, <3>4, Zenon DEF Behind
    <2> QED BY <1>1, <2>1, <2>2, <2>3, SortedFrame, Zenon DEF OrderInv
  <1>10. CASE Tick
    <2>1. /\ now' = now + 1 /\ Date(now) \in Nat /\ Date(now + 1) \in Nat /\ Date(now) <= Date(now + 1)
          /\ UNCHANGED <<queue, sent, hand, day, fd, disk>>
      BY <1>1, <1>10, TickEffect, Zenon
    <2>2. DiskTypes' /\ \A t \in Sources : LinesKept(t)
      BY <1>1, <2>1, Zenon DEF DiskTypes, LinesKept
    <2>3. \A d \in Days : d <= Date(now) => d <= Date(now')
      BY <2>1, DaysAreNat
    <2>4. \A s \in Sources : Behind(s)'
      BY <1>1, <2>1, <2>3, ZenonT(40) DEF Behind, Lines, Taken
    <2> QED BY <1>1, <2>2, <2>4, SortedFrame, Zenon DEF OrderInv
  <1> QED BY <1>4, <1>5, <1>6, <1>7, <1>8, <1>9, <1>10, ZenonT(40) DEF Next, PruneLogs

\* The initial states.
LEMMA OrderInit ==
  ASSUME Init
  PROVE  OrderInv
  <1>1. disk = [f \in LogFiles |-> NoFile]
    BY Zenon DEF Init
  <1>2. \A s \in Sources, d \in Days : Lines(s, d) = <<>>
    BY <1>1, FileNames, NoFileFacts, Zenon DEF Lines
  <1>3. DOMAIN <<>> = {} /\ Range(<<>>) = {}
    BY DEF Range
  <1>4. \A s \in Sources : Behind(s) /\ Sorted(s)
    BY <1>2, <1>3, Zenon DEF Behind, Sorted
  <1>5. DiskTypes
    BY <1>1, NoFileFacts, Zenon DEF DiskTypes
  <1> QED BY <1>4, <1>5, Zenon DEF OrderInv

\* The writers' numbers and lines.
THEOREM OrderInductive == Spec => [](ControlInv /\ NumbersInv /\ OrderInv)
BY ControlInit, ControlStep, NumbersInit, NumbersStep, OrderInit, OrderStep, PTL DEF Spec

\* The lines of a source are in the order its records were accepted in, within a day's
\* file and from one day's file to the next, whatever fails: the channel is a queue with
\* one consumer, and the writer waits for a write before it rotates.
THEOREM OrderSafety == Spec => []LinesInOrder
  <1>1. OrderInv => LinesInOrder
    BY Zenon DEF OrderInv, Sorted, Lines, LinesInOrder
  <1> QED BY <1>1, OrderInductive, PTL

\* What the proofs of LogIngestPlaceProofs and LogIngestLossProofs take as known of a
\* state.
Known ==
    /\ Serving /\ WriterTypes /\ JanitorTypes /\ DiskTypes
    /\ \A s \in Sources : WriterOK(s) /\ NumbersOK(s) /\ Behind(s) /\ Sorted(s)

\* The invariants above give it.
LEMMA KnownFacts ==
  ASSUME ControlInv, NumbersInv, OrderInv
  PROVE  Known
BY Zenon DEF Known, ControlInv, NumbersInv, OrderInv

\* It is known of every state.
THEOREM KnownInductive == Spec => []Known
  <1>1. ControlInv /\ NumbersInv /\ OrderInv => Known
    BY KnownFacts, Zenon
  <1> QED BY <1>1, OrderInductive, PTL

-----------------------------------------------------------------------------
(* The records that are lost or forgotten                                  *)

PlaceTypes == lost \subseteq Record /\ gone \subseteq Record

\* The records of a source.
LEMMA RecordFacts ==
  ASSUME NEW s, NEW n
  PROVE  <<s, n>> \in Record <=> s \in Sources /\ n \in 1 .. sent[s]
  <1>1. ASSUME s \in Sources, n \in 1 .. sent[s]
        PROVE  <<s, n>> \in Record
    <2>1. <<s, n>> \in {s} \X (1 .. sent[s])
      BY <1>1, SMT
    <2> QED BY <1>1, <2>1, Zenon DEF Record
  <1>2. ASSUME <<s, n>> \in Record
        PROVE  s \in Sources /\ n \in 1 .. sent[s]
    <2>1. PICK t \in Sources : <<s, n>> \in {t} \X (1 .. sent[t])
      BY <1>2, Zenon DEF Record
    <2>2. s = t /\ n \in 1 .. sent[t]
      BY <2>1, Zenon
    <2> QED BY <2>2, Zenon
  <1> QED BY <1>1, <1>2, Zenon

\* The records a source has on disk.
LEMMA OnDiskFacts ==
  ASSUME NEW s, NEW n
  PROVE  n \in OnDisk(s) <=> \E d \in Days : n \in Range(Lines(s, d))
BY Zenon DEF OnDisk, Lines

\* What a writer holds is on no line yet, and is no record twice.
LEMMA HeldFacts ==
  ASSUME Known, NEW s \in Sources
  PROVE  /\ Taken(s) \in Nat /\ sent[s] \in Nat /\ Taken(s) <= sent[s]
         /\ \A n \in 1 .. Taken(s) : n \in 1 .. sent[s] /\ n # 0 /\ n <= Taken(s)
         /\ hand[s] # 0 => hand[s] \in 1 .. Taken(s) /\ hand[s] # fd[s].op /\ hand[s] \notin OnDisk(s)
         /\ fd[s].op # 0 => fd[s].op \in 1 .. Taken(s) /\ fd[s].op \notin OnDisk(s)
         /\ \A n \in OnDisk(s) : n \in 1 .. Taken(s)
  <1>1. WriterTypes /\ NumbersOK(s) /\ Behind(s)
    BY Zenon DEF Known
  <1>2. /\ Taken(s) \in Nat /\ sent[s] \in Nat /\ Taken(s) <= sent[s] /\ hand[s] \in Nat /\ fd[s].op \in Nat
        /\ fd[s].op <= Taken(s) /\ (hand[s] # 0 => hand[s] = Taken(s) /\ fd[s].op < hand[s])
    BY <1>1, TakenType, WriterTypesAt, Zenon DEF NumbersOK
  <1>3. /\ \A n \in 1 .. Taken(s) : n \in 1 .. sent[s] /\ n # 0 /\ n <= Taken(s)
        /\ hand[s] # 0 => hand[s] \in 1 .. Taken(s) /\ hand[s] # fd[s].op
        /\ fd[s].op # 0 => fd[s].op \in 1 .. Taken(s)
    BY ONLY <1>2
  <1>4. \A n \in OnDisk(s) : n \in 1 .. Taken(s) /\ (fd[s].op # 0 => n < fd[s].op)
                             /\ (hand[s] # 0 => n < hand[s])
    BY <1>1, OnDiskFacts, Zenon DEF Behind
  <1>5. ~ (hand[s] < hand[s]) /\ ~ (fd[s].op < fd[s].op)
    BY ONLY <1>2
  <1> QED BY <1>2, <1>3, <1>4, <1>5, Zenon

\* The records in memory are those in the queue and those the writer holds.
LEMMA MemoryFacts ==
  ASSUME Known, NEW t \in Sources
  PROVE  /\ \A n \in InMemory(t) : n \in 1 .. sent[t] /\ n \notin OnDisk(t)
         /\ \A n \in 1 .. sent[t] : n <= sent[t] /\ n # 0 /\ (n > Taken(t) => n \in InMemory(t))
         /\ \A n : n # 0 /\ (n = hand[t] \/ n = fd[t].op) => n \in InMemory(t)
         /\ \A n \in InMemory(t) : n = hand[t] \/ n = fd[t].op \/ ~ (n <= Taken(t))
  <1>0. WriterTypes /\ NumbersOK(t)
    BY Zenon DEF Known
  <1>1. /\ queue[t] \in Seq(Nat \ {0}) /\ NumbersOK(t) /\ sent[t] = Taken(t) + Len(queue[t])
        /\ Len(queue[t]) \in Nat
    BY <1>0, WriterTypesAt, TakenType, Zenon
  <1>2. /\ Taken(t) \in Nat /\ sent[t] \in Nat
        /\ \A n \in 1 .. Taken(t) : n \in 1 .. sent[t]
        /\ hand[t] # 0 => hand[t] \in 1 .. Taken(t) /\ hand[t] \notin OnDisk(t)
        /\ fd[t].op # 0 => fd[t].op \in 1 .. Taken(t) /\ fd[t].op \notin OnDisk(t)
        /\ \A n \in OnDisk(t) : n \in 1 .. Taken(t)
    BY HeldFacts, Zenon
  <1>3. \A i \in DOMAIN queue[t] : queue[t][i] = Taken(t) + i
    BY <1>1, Zenon DEF NumbersOK
  <1>4. ASSUME NEW n \in Range(queue[t])
        PROVE  n \in 1 .. sent[t] /\ n \notin 1 .. Taken(t) /\ ~ (n <= Taken(t))
    <2>1. PICK i \in DOMAIN queue[t] : n = Taken(t) + i
      BY <1>3, <1>4, Zenon DEF Range
    <2>2. DOMAIN queue[t] = 1 .. Len(queue[t])
      BY <1>1
    <2> QED BY ONLY <1>1, <1>2, <2>1, <2>2, SMTT(20)
  <1>5. ASSUME NEW n \in 1 .. sent[t], n > Taken(t)
        PROVE  n \in Range(queue[t])
    <2>1. n - Taken(t) \in 1 .. Len(queue[t]) /\ n = Taken(t) + (n - Taken(t))
      BY ONLY <1>1, <1>2, <1>5
    <2>2. DOMAIN queue[t] = 1 .. Len(queue[t])
      BY <1>1
    <2>3. n - Taken(t) \in DOMAIN queue[t] /\ queue[t][n - Taken(t)] = n
      BY <1>3, <2>1, <2>2, Zenon
    <2> QED BY <2>3, Zenon DEF Range
  <1>6. \A n \in 1 .. sent[t] : n <= sent[t] /\ n # 0
    BY <1>2
  <1>7. \A n \in InMemory(t) : n \in Range(queue[t]) \/ (n = hand[t] /\ hand[t] # 0)
                               \/ (n = fd[t].op /\ fd[t].op # 0)
    <2>1. \A n \in InMemory(t) : n \in Range(queue[t]) \/ (n # 0 /\ (n = hand[t] \/ n = fd[t].op))
      BY Zenon DEF InMemory
    <2> QED BY <2>1, SMT
  <1>8. \A n \in Range(queue[t]) : n \in InMemory(t)
    BY Zenon DEF InMemory
  <1>9. \A n : n # 0 /\ (n = hand[t] \/ n = fd[t].op) => n \in InMemory(t)
    BY Zenon DEF InMemory
  <1>10. \A n \in InMemory(t) : n = hand[t] \/ n = fd[t].op \/ ~ (n <= Taken(t))
    BY <1>4, <1>7, Zenon
  <1> QED BY <1>2, <1>4, <1>5, <1>6, <1>7, <1>8, <1>9, <1>10, ZenonT(40)

\* The records a step may lose or forget.
LEMMA NewlyMissing ==
  ASSUME Known, PlaceTypes, sent' = sent, \A r \in lost' \ lost : r \in Record,
         \A r \in gone' \ gone : r \in Record
  PROVE  PlaceTypes'
  <1>1. Record' = Record
    BY Zenon DEF Record
  <1> QED BY <1>1, Zenon DEF PlaceTypes

\* Only records that were queued are lost or forgotten.
LEMMA PlaceTypesStep ==
  ASSUME Known, PlaceTypes, [Next]_vars
  PROVE  PlaceTypes'
  <1>1. Serving /\ WriterTypes /\ JanitorTypes /\ DiskTypes /\ \A s \in Sources : WriterOK(s)
    BY Zenon DEF Known
  <1>2. ASSUME UNCHANGED <<sent, lost, gone>>
        PROVE  PlaceTypes'
    BY <1>2, NewlyMissing, Zenon
  <1>3. ASSUME NEW h \in Handlers, Call(h)
        PROVE  PlaceTypes'
    <2>1. CASE Send(h)
      <3>1. PICK x \in Sources :
              /\ sent'[x] = sent[x] + 1 /\ UNCHANGED <<lost, gone>>
              /\ \A t \in Sources \ {x} : SameAt(t)
        BY <1>1, <2>1, SendEffect, Zenon
      <3>2. \A n \in 1 .. sent[x] : n \in 1 .. sent'[x]
        BY <3>1, HeldFacts
      <3>3. \A s \in Sources : \A n \in 1 .. sent[s] : n \in 1 .. sent'[s]
        BY <3>1, <3>2, Zenon DEF SameAt
      <3>4. ASSUME NEW r \in Record
            PROVE  r \in Record'
        <4>1. PICK s \in Sources : r \in {s} \X (1 .. sent[s])
          BY <3>4, Zenon DEF Record
        <4>2. r \in {s} \X (1 .. sent'[s])
          BY <3>3, <4>1
        <4> QED BY <4>2, Zenon DEF Record
      <3> QED BY <3>1, <3>4, Zenon DEF PlaceTypes
    <2>2. CASE ~ Send(h)
      BY <1>1, <1>2, <1>3, <2>2, QuietCalls, StartEntryEffect, Zenon DEF Call, Quiet
    <2> QED BY <2>1, <2>2, Zenon
  <1>4. ASSUME NEW s \in Sources, WriterLoop(s)
        PROVE  PlaceTypes'
    <2>1. /\ sent' = sent /\ gone' = gone
          /\ \/ lost' = lost
             \/ wpc[s] \in {"open", "write"} /\ lost' = lost \cup {<<s, hand[s]>>}
             \/ fd[s].op # 0 /\ lost' = lost \cup {<<s, fd[s].op>>}
      BY <1>1, <1>4, RecvEffect, RotateEffect, OpenEffect, OpenFailsEffect, WriteEffect, LandEffect,
         LandFailsEffect, WriterExitEffect, ZenonT(40) DEF WriterLoop
    <2>2. wpc[s] \in {"open", "write"} => hand[s] # 0
      <3>1. wpc[s] \in {"open", "write"} => wpc[s] \in Holding
        BY DEF Holding
      <3> QED BY <1>1, <3>1, Zenon DEF WriterOK
    <2>3. /\ hand[s] # 0 => <<s, hand[s]>> \in Record
          /\ fd[s].op # 0 => <<s, fd[s].op>> \in Record
      BY HeldFacts, RecordFacts, Zenon
    <2> QED BY <2>1, <2>2, <2>3, NewlyMissing, Zenon
  <1>5. CASE RemoveLog
    <2>1. doomed \in LogFiles
      BY <1>1, <1>5, Zenon DEF RemoveLog, JanitorTypes
    <2>2. PICK s \in Sources, D \in Days :
            /\ doomed = <<s, D>> /\ UNCHANGED <<sent, lost>>
            /\ gone' = gone \cup {<<s, r>> : r \in Range(disk[doomed].lines)}
      BY <1>1, <1>5, <2>1, RemoveEffect, Zenon
    <2>3. \A r \in Range(disk[doomed].lines) : <<s, r>> \in Record
      <3>1. \A r \in Range(disk[<<s, D>>].lines) : r \in OnDisk(s)
        BY Zenon DEF OnDisk
      <3> QED BY <2>2, <3>1, HeldFacts, RecordFacts, Zenon
    <2> QED BY <2>2, <2>3, NewlyMissing, Zenon
  <1>6. CASE ListLogs \/ StatLog \/ JanitorError \/ ShutdownSignal \/ Shutdown \/ UNCHANGED vars
    BY <1>2, <1>6, QuietJanitor, QuietShutdown, Zenon DEF Quiet, Shutdown
  <1>7. CASE Crash
    <2>1. /\ gone' = gone \cup UNION {{t} \X InMemory(t) : t \in Sources}
          /\ UNCHANGED <<sent, lost>>
      BY <1>1, <1>7, CrashEffect, Zenon
    <2>2. ASSUME NEW x \in UNION {{t} \X InMemory(t) : t \in Sources}
          PROVE  x \in Record
      <3>1. PICK t \in Sources : x \in {t} \X InMemory(t)
        BY <2>2, Zenon
      <3>2. PICK n \in InMemory(t) : x = <<t, n>>
        BY <3>1, SMT
      <3> QED BY <3>2, MemoryFacts, RecordFacts, Zenon
    <2> QED BY <2>1, <2>2, NewlyMissing, Zenon
  <1>8. CASE Tick
    BY <1>1, <1>2, <1>8, TickEffect, ZenonT(40)
  <1> QED BY <1>3, <1>4, <1>5, <1>6, <1>7, <1>8, Zenon DEF Next, PruneLogs

\* What is known of every state, whatever the retention.
THEOREM KnownPlaces == Spec => [](Known /\ PlaceTypes)
  <1>1. Init => PlaceTypes
    BY Zenon DEF Init, PlaceTypes
  <1>2. Known /\ PlaceTypes /\ [Next]_vars => PlaceTypes'
    BY PlaceTypesStep, Zenon
  <1> QED BY <1>1, <1>2, KnownInductive, PTL DEF Spec

\* Every value is in its range: channels never exceed their capacity, an open file is the
\* one of current_date, and nothing is counted as lost that was not queued.
THEOREM IngestTypes == Spec => []TypeOK
  <1>1. ASSUME Known, PlaceTypes
        PROVE  TypeOK
    <2>1. Serving /\ WriterTypes /\ JanitorTypes
          /\ \A s \in Sources : WriterOK(s) /\ NumbersOK(s)
      BY <1>1, Zenon DEF Known
    <2>2. \A h \in Handlers : req[h].pc \in {"idle", "entry", "send"} /\ req[h].batch \in Batch
      BY <2>1, CallTypes, Zenon
    <2>3. \A s \in Sources :
            /\ Len(queue[s]) <= Capacity
            /\ wpc[s] \in {"none", "recv", "rotate", "open", "write", "done"}
            /\ date[s] \in Days \cup {None} /\ day[s] \in Days
            /\ fd[s].open => fd[s].date = date[s]
      BY <2>1, WriterTypesAt, Zenon DEF WriterOK, NumbersOK, Phases
    <2> QED BY <1>1, <2>1, <2>2, <2>3, Zenon DEF TypeOK, Serving, JanitorTypes, PlaceTypes
  <1>2. Known /\ PlaceTypes => TypeOK
    BY <1>1, Zenon
  <1> QED BY <1>2, KnownPlaces, PTL
=============================================================================
