------------------------ MODULE LogIngestPlaceProofs -----------------------
(* Proofs about LogIngest: time and the janitor, and where every record is. *)
EXTENDS LogIngestProofs

-----------------------------------------------------------------------------
(* Time                                                                    *)

\* A record in hand or being written sees midnight once at most; a file that was
\* removed under its writer is two days old.
ClockOK(s) ==
    /\ fd[s].op # 0 => Date(now) <= fd[s].date + 1
    /\ hand[s] # 0 => Date(now) <= day[s] + 1
    /\ fd[s].open /\ fd[s].linked => disk[<<s, fd[s].date>>].exists
    /\ fd[s].open /\ ~ fd[s].linked => Date(now) >= fd[s].date + 2

FileOK(f) ==
    /\ disk[f].exists => disk[f].mtime <= now /\ f[2] <= Date(disk[f].mtime)
    /\ ~ disk[f].exists => disk[f].lines = <<>> /\ ~ disk[f].torn

\* The file the janitor is about to remove is still old.
JanitorOK ==
    /\ \A f \in todo : disk[f].exists
    /\ jpc = "remove" => doomed \notin todo /\ disk[doomed].exists /\ IsOlderThan(doomed)

TimeInv == JanitorOK /\ (\A f \in LogFiles : FileOK(f)) /\ \A s \in Sources : ClockOK(s)

\* Two days of ticks apart is two dates apart.
LEMMA DateApart ==
  ASSUME NEW t \in Nat, NEW m \in Nat, NEW k \in Nat, k >= 2, t - m >= k * DayLen
  PROVE  Date(t) >= Date(m) + 2
  <1> DEFINE D == DayLen
             p == m \div D
             q == t \div D
  <1>1. D \in Nat /\ D > 0
    BY Sizes
  <1> HIDE DEF D
  <1>2. p \in Nat /\ q \in Nat /\ m >= D * p /\ t < D * (q + 1)
    BY <1>1
  <1>3. k * D >= 2 * D
    BY <1>1
  <1>4. t >= m + 2 * D
    <2>1. t - m >= k * D
      BY DEF D
    <2> QED BY <1>1, <1>3, <2>1
  <1> HIDE DEF p, q
  <1>5. D * (p + 2) = D * p + 2 * D
    BY <1>1, <1>2
  <1>6. D * (q + 1) > D * (p + 2)
    BY <1>1, <1>2, <1>4, <1>5
  <1>7. q + 1 > p + 2
    <2>1. ASSUME q + 1 <= p + 2
          PROVE  D * (q + 1) <= D * (p + 2)
      BY <1>1, <1>2, <2>1
    <2> QED BY <1>1, <1>2, <1>6, <2>1
  <1>8. q >= p + 2
    BY <1>2, <1>7
  <1> QED BY <1>8 DEF Date, D, p, q

\* A file that is old enough to be removed is from two days ago or more.
LEMMA OldFile ==
  ASSUME LogsTtl >= 2, WriterTypes, DiskTypes, NEW f \in LogFiles, FileOK(f), disk[f].exists, IsOlderThan(f)
  PROVE  Date(now) >= f[2] + 2
  <1>1. now \in Nat /\ Date(now) \in Nat
    <2>1. now \in 0 .. MaxNow
      BY Zenon DEF WriterTypes
    <2>2. now \in Nat
      BY <2>1, Sizes
    <2> QED BY <2>1, <2>2, DateInDays, Zenon
  <1>2. disk[f].mtime \in Nat /\ LogsTtl \in Nat
    BY FileTypes, Sizes, Zenon
  <1>3. Date(now) >= Date(disk[f].mtime) + 2
    <2>1. now - disk[f].mtime >= LogsTtl * DayLen
      BY Zenon DEF IsOlderThan
    <2> QED BY <1>1, <1>2, <2>1, DateApart
  <1>4. f[2] <= Date(disk[f].mtime) /\ f[2] \in Nat
    BY DaysAreNat, Zenon DEF LogFiles, FileOK
  <1>5. Date(disk[f].mtime) \in Nat
    <2>1. disk[f].mtime <= disk[f].mtime
      BY <1>2
    <2> QED BY <1>2, <2>1, DateMonotonic, Zenon
  <1> QED BY <1>1, <1>3, <1>4, <1>5

\* No file is removed.
FilesStay == \A f \in LogFiles : disk[f].exists => disk'[f].exists

\* A step that leaves a writer alone and removes no file.
LEMMA ClockFrame ==
  ASSUME WriterTypes, NEW t \in Sources, ClockOK(t), hand'[t] = hand[t], day'[t] = day[t],
         fd'[t] = fd[t], now' = now, FilesStay
  PROVE  ClockOK(t)'
  <1>1. <<t, fd[t].date>> \in LogFiles
    BY WriterTypesAt, FileNames, Zenon
  <1> QED BY <1>1, Zenon DEF ClockOK, FilesStay

\* A step that leaves a file alone.
LEMMA FileFrame ==
  ASSUME NEW f \in LogFiles, FileOK(f), disk'[f] = disk[f], now' = now
  PROVE  FileOK(f)'
BY Zenon DEF FileOK

\* A step that leaves the janitor and the file it looks at alone.
LEMMA JanitorFrame ==
  ASSUME JanitorTypes, JanitorOK, FilesStay, UNCHANGED <<jpc, todo, doomed, now>>,
         jpc = "remove" => disk'[doomed].mtime = disk[doomed].mtime
  PROVE  JanitorOK'
  <1>1. \A f \in todo' : disk'[f].exists
    BY Zenon DEF JanitorTypes, JanitorOK, FilesStay
  <1>2. ASSUME jpc' = "remove"
        PROVE  doomed' \notin todo' /\ disk'[doomed'].exists /\ IsOlderThan(doomed)'
    <2>1. doomed \in LogFiles /\ doomed' = doomed /\ now' = now /\ disk'[doomed].mtime = disk[doomed].mtime
          /\ doomed \notin todo /\ todo' = todo /\ disk[doomed].exists /\ IsOlderThan(doomed)
      BY <1>2, Zenon DEF JanitorTypes, JanitorOK
    <2> QED BY <2>1, Zenon DEF FilesStay, IsOlderThan
  <1> QED BY <1>1, <1>2, Zenon DEF JanitorOK

\* A step that changes no file.
LEMMA SameDisk ==
  ASSUME disk' = disk
  PROVE  FilesStay
BY Zenon DEF FilesStay

\* A write in flight goes to a file that has its name, and not to the one the janitor
\* is about to remove.
LEMMA InFlight ==
  ASSUME LogsTtl >= 2, Known, TimeInv, NEW s \in Sources, fd[s].op # 0
  PROVE  /\ fd[s].open /\ fd[s].linked /\ <<s, fd[s].date>> \in LogFiles
         /\ disk[<<s, fd[s].date>>].exists /\ fd[s].date <= Date(now)
         /\ jpc = "remove" => doomed # <<s, fd[s].date>>
  <1>1. WriterTypes /\ WriterOK(s) /\ ClockOK(s) /\ DiskTypes /\ JanitorTypes /\ JanitorOK
        /\ \A f \in LogFiles : FileOK(f)
    BY Zenon DEF Known, TimeInv
  <1>2. fd[s].open /\ Date(now) <= fd[s].date + 1
    BY <1>1, Zenon DEF WriterOK, ClockOK
  <1>3. Date(now) \in Nat /\ fd[s].date \in Nat /\ fd[s].date \in Days /\ fd[s].linked \in BOOLEAN
    BY <1>1, WriterTypesAt, Zenon
  <1>4. ~ (Date(now) >= fd[s].date + 2)
    BY <1>2, <1>3
  <1>5. fd[s].linked
    BY <1>1, <1>2, <1>4, Zenon DEF ClockOK
  <1>6. <<s, fd[s].date>> \in LogFiles /\ <<s, fd[s].date>>[2] = fd[s].date
    BY <1>3, FileNames, Zenon
  <1>7. disk[<<s, fd[s].date>>].exists
    BY <1>1, <1>2, <1>5, Zenon DEF ClockOK
  <1>8. ASSUME jpc = "remove"
        PROVE  doomed # <<s, fd[s].date>>
    <2>1. doomed \in LogFiles /\ disk[doomed].exists /\ IsOlderThan(doomed) /\ FileOK(doomed)
      BY <1>1, <1>8, Zenon DEF JanitorTypes, JanitorOK
    <2>2. Date(now) >= doomed[2] + 2
      BY <1>1, <2>1, OldFile, Zenon
    <2> QED BY <1>4, <1>6, <2>2, Zenon
  <1>9. fd[s].date <= Date(now)
    <2>1. fd[s].date = date[s] /\ date[s] # None
      BY <1>1, <1>2, <1>3, LogIngestAssumption DEF WriterOK
    <2> QED BY <1>1, <2>1, Zenon DEF WriterOK
  <1> QED BY <1>2, <1>5, <1>6, <1>7, <1>8, <1>9, ZenonT(40)

\* A file is written to.
LEMMA TouchedFile ==
  ASSUME WriterTypes, NEW f \in LogFiles, disk'[f].exists, disk'[f].mtime = now, now' = now,
         f[2] <= Date(now)
  PROVE  FileOK(f)'
  <1>1. now <= now
    <2>1. now \in 0 .. MaxNow
      BY Zenon DEF WriterTypes
    <2> QED BY <2>1, Sizes
  <1> QED BY <1>1, Zenon DEF FileOK

\* The end of a write.
LEMMA LandTime ==
  ASSUME LogsTtl >= 2, Known, TimeInv, NEW s \in Sources, Land(s) \/ LandFails(s)
  PROVE  TimeInv'
  <1>1. WriterTypes /\ DiskTypes /\ JanitorTypes /\ JanitorOK
        /\ (\A g \in LogFiles : FileOK(g)) /\ \A t \in Sources : ClockOK(t)
    BY Zenon DEF Known, TimeInv
  <1>0. PICK f \in LogFiles : f = <<s, fd[s].date>> /\ f[2] = fd[s].date
    <2>1. fd[s].date \in Days
      BY <1>1, WriterTypesAt, Zenon
    <2>2. <<s, fd[s].date>> \in LogFiles /\ <<s, fd[s].date>>[2] = fd[s].date
      BY <2>1, FileNames, Zenon
    <2> QED BY <2>2, Zenon
  <1>2. /\ fd[s].op # 0 /\ UNCHANGED <<hand, day, jpc, todo, doomed, now>>
        /\ \/ fd'[s] = [fd[s] EXCEPT !.op = 0]
           \/ fd'[s] = [fd[s] EXCEPT !.op = 0, !.err = TRUE]
        /\ \A t \in Sources \ {s} : SameAt(t)
    BY <1>1, LandEffect, LandFailsEffect, Zenon
  <1>3. /\ fd[s].linked /\ f \in LogFiles /\ disk[f].exists /\ f[2] <= Date(now)
        /\ jpc = "remove" => doomed # f
    BY <1>0, <1>2, InFlight, Zenon
  <1>4. /\ \A g \in LogFiles : g # f => disk'[g] = disk[g]
        /\ disk'[f].exists = disk[f].exists
        /\ disk'[f].mtime = now \/ disk' = disk
    BY <1>0, <1>1, <1>3, LandDisk, LandFailsDisk, Zenon
  <1>5. FilesStay
    BY <1>3, <1>4, Zenon DEF FilesStay
  <1>6. \A g \in LogFiles : FileOK(g)'
    <2>1. CASE disk' = disk
      BY <1>1, <1>2, <2>1, FileFrame, Zenon
    <2>2. CASE disk'[f].mtime = now
      <3>1. FileOK(f)'
        BY <1>1, <1>2, <1>3, <1>4, <2>2, TouchedFile, Zenon
      <3> QED BY <1>1, <1>2, <1>4, <3>1, FileFrame, Zenon
    <2> QED BY <1>4, <2>1, <2>2, Zenon
  <1>7. JanitorOK'
    <2>1. jpc = "remove" => disk'[doomed].mtime = disk[doomed].mtime
      BY <1>1, <1>3, <1>4, Zenon DEF JanitorTypes
    <2> QED BY <1>1, <1>2, <1>5, <2>1, JanitorFrame, Zenon
  <1>8. ClockOK(s)'
    <2>1. fd'[s].op = 0 /\ fd'[s].open = fd[s].open /\ fd'[s].date = fd[s].date /\ fd'[s].linked = fd[s].linked
      <3>1. fd[s] \in FdType
        BY <1>1, WriterTypesAt, Zenon
      <3> QED BY <1>2, <3>1, Zenon DEF FdType
    <2>2. disk'[<<s, fd[s].date>>].exists
      BY <1>0, <1>3, <1>4, Zenon
    <2> QED BY <1>1, <1>2, <2>1, <2>2, Zenon DEF ClockOK
  <1>9. \A t \in Sources : ClockOK(t)'
    <2>1. \A t \in Sources \ {s} : ClockOK(t)'
      BY <1>1, <1>2, <1>5, ClockFrame, Zenon DEF SameAt
    <2> QED BY <1>8, <2>1, Zenon
  <1> QED BY <1>6, <1>7, <1>9, Zenon DEF TimeInv

\* A writer opens its file.
LEMMA OpenTime ==
  ASSUME Known, TimeInv, NEW s \in Sources, OpenLogFile(s)
  PROVE  TimeInv'
  <1>1. WriterTypes /\ DiskTypes /\ JanitorTypes /\ JanitorOK /\ WriterOK(s)
        /\ (\A g \in LogFiles : FileOK(g)) /\ \A t \in Sources : ClockOK(t)
    BY Zenon DEF Known, TimeInv
  <1>2. PICK f \in LogFiles : f = <<s, day[s]>> /\ f[2] = day[s]
    <2>1. day[s] \in Days
      BY <1>1, WriterTypesAt, Zenon
    <2>2. <<s, day[s]>> \in LogFiles /\ <<s, day[s]>>[2] = day[s]
      BY <2>1, FileNames, Zenon
    <2> QED BY <2>2, Zenon
  <1>3. /\ UNCHANGED <<hand, day, jpc, todo, doomed, now>> /\ wpc[s] = "open"
        /\ fd'[s] = [ClosedFd EXCEPT !.open = TRUE, !.date = day[s], !.linked = TRUE]
        /\ \A t \in Sources \ {s} : SameAt(t)
    BY <1>1, OpenEffect, Zenon
  <1>4. /\ \A g \in LogFiles : g # f => disk'[g] = disk[g]
        /\ disk'[f].exists
        /\ disk[f].exists => disk'[f] = disk[f]
        /\ ~ disk[f].exists => disk'[f].mtime = now
    BY <1>1, <1>2, OpenDisk, Zenon
  <1>5. FilesStay
    BY <1>4, Zenon DEF FilesStay
  <1>6. f[2] <= Date(now)
    <2>1. wpc[s] \in Holding
      BY <1>3 DEF Holding
    <2> QED BY <1>1, <1>2, <2>1, ZenonT(40) DEF WriterOK
  <1>7. \A g \in LogFiles : FileOK(g)'
    <2>1. FileOK(f)'
      <3>1. CASE disk[f].exists
        BY <1>1, <1>3, <1>4, <3>1, FileFrame, Zenon
      <3>2. CASE ~ disk[f].exists
        BY <1>1, <1>3, <1>4, <1>6, <3>2, TouchedFile, ZenonT(40)
      <3> QED BY <3>1, <3>2, Zenon
    <2> QED BY <1>1, <1>3, <1>4, <2>1, FileFrame, Zenon
  <1>8. JanitorOK'
    <2>1. jpc = "remove" => disk'[doomed].mtime = disk[doomed].mtime
      BY <1>1, <1>4, Zenon DEF JanitorTypes, JanitorOK
    <2> QED BY <1>1, <1>3, <1>5, <2>1, JanitorFrame, Zenon
  <1>9. ClockOK(s)'
    <2>1. fd'[s].op = 0 /\ fd'[s].date = day[s] /\ fd'[s].linked
      BY <1>3, ClosedFacts, Zenon DEF FdType
    <2>2. disk'[<<s, day[s]>>].exists
      BY <1>2, <1>4, Zenon
    <2> QED BY <1>1, <1>3, <2>1, <2>2, Zenon DEF ClockOK
  <1>10. \A t \in Sources \ {s} : ClockOK(t)'
    BY <1>1, <1>3, <1>5, ClockFrame, Zenon DEF SameAt
  <1> QED BY <1>7, <1>8, <1>9, <1>10, Zenon DEF TimeInv

\* The steps of a writer that leave the files alone.
LEMMA OtherWriterTime ==
  ASSUME Known, TimeInv, NEW s \in Sources,
         Recv(s) \/ Rotate(s) \/ OpenFails(s) \/ Write(s) \/ WriterExit(s)
  PROVE  TimeInv'
  <1>1. WriterTypes /\ DiskTypes /\ JanitorTypes /\ JanitorOK /\ WriterOK(s)
        /\ (\A g \in LogFiles : FileOK(g)) /\ \A t \in Sources : ClockOK(t)
    BY Zenon DEF Known, TimeInv
  <1>2. UNCHANGED <<disk, jpc, todo, doomed, now>> /\ \A t \in Sources \ {s} : SameAt(t)
    BY <1>1, RecvEffect, RotateEffect, OpenFailsEffect, WriteEffect, WriterExitEffect, Zenon
  <1>3. FilesStay
    BY <1>2, SameDisk, Zenon
  <1>4. \A g \in LogFiles : FileOK(g)'
    BY <1>1, <1>2, FileFrame, Zenon
  <1>5. JanitorOK'
    BY <1>1, <1>2, <1>3, JanitorFrame, Zenon
  <1>6. ClockOK(s)'
    <2>1. CASE Recv(s)
      <3>1. fd' = fd /\ day'[s] = Date(now) /\ Date(now) \in Nat
        BY <1>1, <2>1, RecvEffect, WriterTypesAt, Zenon
      <3>2. Date(now) <= day'[s] + 1
        BY <3>1
      <3> QED BY <1>1, <1>2, <3>1, <3>2, Zenon DEF ClockOK
    <2>2. CASE Rotate(s) \/ WriterExit(s)
      <3>1. hand'[s] = hand[s] /\ day'[s] = day[s] /\ fd'[s] = ClosedFd
        BY <1>1, <2>2, RotateEffect, WriterExitEffect, Zenon
      <3> QED BY <1>1, <1>2, <3>1, ClosedFacts, Zenon DEF ClockOK
    <2>3. CASE OpenFails(s)
      <3>1. hand'[s] = 0 /\ fd' = fd
        BY <1>1, <2>3, OpenFailsEffect, Zenon
      <3> QED BY <1>1, <1>2, <3>1, Zenon DEF ClockOK
    <2>4. CASE Write(s)
      <3>1. hand'[s] = 0 /\ wpc[s] = "write" /\ fd[s].op = 0
            /\ \/ fd'[s] = [fd[s] EXCEPT !.err = FALSE]
               \/ fd'[s] = [fd[s] EXCEPT !.op = hand[s]]
        BY <1>1, <2>4, WriteEffect, Zenon
      <3>2. /\ fd'[s].open = fd[s].open /\ fd'[s].date = fd[s].date /\ fd'[s].linked = fd[s].linked
            /\ fd'[s].op \in {0, hand[s]}
        <4>1. fd[s] \in FdType
          BY <1>1, WriterTypesAt, Zenon
        <4> QED BY <3>1, <4>1, Zenon DEF FdType
      <3>3. fd[s].date = day[s]
        BY <1>1, <3>1, Zenon DEF WriterOK
      <3> QED BY <1>1, <1>2, <3>1, <3>2, <3>3, Zenon DEF ClockOK
    <2> QED BY <2>1, <2>2, <2>3, <2>4, Zenon
  <1>7. \A t \in Sources \ {s} : ClockOK(t)'
    BY <1>1, <1>2, <1>3, ClockFrame, Zenon DEF SameAt
  <1> QED BY <1>4, <1>5, <1>6, <1>7, Zenon DEF TimeInv

\* The janitor removes a file.
LEMMA RemoveTime ==
  ASSUME LogsTtl >= 2, Known, TimeInv, RemoveLog
  PROVE  TimeInv'
  <1>1. WriterTypes /\ DiskTypes /\ JanitorTypes /\ JanitorOK
        /\ (\A g \in LogFiles : FileOK(g)) /\ \A t \in Sources : ClockOK(t)
    BY Zenon DEF Known, TimeInv
  <1>2. jpc = "remove" /\ doomed \in LogFiles /\ doomed \notin todo
        /\ disk[doomed].exists /\ IsOlderThan(doomed)
    BY <1>1, Zenon DEF RemoveLog, JanitorTypes, JanitorOK
  <1>3. PICK s \in Sources, d \in Days :
          /\ doomed = <<s, d>> /\ disk' = [disk EXCEPT ![doomed] = NoFile]
          /\ fd'[s] = [fd[s] EXCEPT !.linked = @ /\ fd[s].date # d]
          /\ doomed' = None /\ jpc' = EndOfList(todo)
          /\ UNCHANGED <<hand, day, todo, now>>
          /\ \A t \in Sources \ {s} : SameAt(t)
    BY <1>1, <1>2, RemoveEffect, Zenon
  <1>4. disk'[doomed] = NoFile /\ \A g \in LogFiles : g # doomed => disk'[g] = disk[g]
    BY <1>1, <1>2, <1>3, NoFileFacts, DiskUpdate, ZenonT(40)
  <1>5. \A g \in LogFiles : FileOK(g)'
    <2>1. \A g \in LogFiles : g = doomed => FileOK(g)'
      BY <1>4, NoFileFacts, Zenon DEF FileOK
    <2> QED BY <1>1, <1>3, <1>4, <2>1, FileFrame, Zenon
  <1>6. JanitorOK'
    <2>1. jpc' # "remove"
      BY <1>3 DEF EndOfList
    <2>2. \A f \in todo' : disk'[f].exists
      BY <1>1, <1>2, <1>3, <1>4, Zenon DEF JanitorTypes, JanitorOK
    <2> QED BY <2>1, <2>2, Zenon DEF JanitorOK
  <1>7. Date(now) >= d + 2
    <2>1. doomed[2] = d
      BY <1>3, FileNames, Zenon
    <2> QED BY <1>1, <1>2, <2>1, OldFile, Zenon
  <1>8. ClockOK(s)'
    <2>1. /\ fd'[s].op = fd[s].op /\ fd'[s].open = fd[s].open /\ fd'[s].date = fd[s].date
          /\ fd'[s].linked = (fd[s].linked /\ fd[s].date # d)
      <3>1. fd[s] \in FdType
        BY <1>1, WriterTypesAt, Zenon
      <3> QED BY <1>3, <3>1, Zenon DEF FdType
    <2>2. fd[s].date # d => disk'[<<s, fd[s].date>>] = disk[<<s, fd[s].date>>]
      <3>1. fd[s].date \in Days
        BY <1>1, WriterTypesAt, Zenon
      <3>2. fd[s].date # d => <<s, fd[s].date>> \in LogFiles /\ <<s, fd[s].date>> # doomed
        BY <1>3, <3>1, FileNames, Zenon
      <3> QED BY <1>4, <3>2, Zenon
    <2> QED BY <1>1, <1>3, <1>7, <2>1, <2>2, ZenonT(40) DEF ClockOK
  <1>9. ASSUME NEW t \in Sources \ {s}
        PROVE  ClockOK(t)'
    <2>1. disk'[<<t, fd[t].date>>] = disk[<<t, fd[t].date>>]
      <3>1. fd[t].date \in Days
        BY <1>1, WriterTypesAt, Zenon
      <3>2. <<t, fd[t].date>> \in LogFiles /\ <<t, fd[t].date>> # doomed
        BY <1>3, <3>1, FileNames, Zenon
      <3> QED BY <1>4, <3>2, Zenon
    <2> QED BY <1>1, <1>3, <2>1, Zenon DEF ClockOK, SameAt
  <1> QED BY <1>5, <1>6, <1>8, <1>9, Zenon DEF TimeInv

\* A crash.
LEMMA CrashTime ==
  ASSUME LogsTtl >= 2, Known, TimeInv, Crash
  PROVE  TimeInv'
  <1>1. WriterTypes /\ DiskTypes /\ (\A g \in LogFiles : FileOK(g))
    BY Zenon DEF Known, TimeInv
  <1>2. jpc' = "idle" /\ todo' = {} /\ now' = now
        /\ \A s \in Sources : hand'[s] = 0 /\ fd'[s] = ClosedFd
    BY <1>1, CrashEffect, Zenon
  <1>3. ASSUME NEW f \in LogFiles
        PROVE  FileOK(f)'
    <2>1. CASE disk'[f] = disk[f]
      BY <1>1, <1>2, <2>1, FileFrame, Zenon
    <2>2. CASE disk'[f] # disk[f]
      <3>1. PICK s \in Sources : f = <<s, fd[s].date>> /\ fd[s].op # 0 /\ disk'[f].mtime = now
                                 /\ disk'[f].exists = disk[f].exists
        BY <1>1, <2>2, CrashDisk, Zenon
      <3>2. disk[f].exists /\ fd[s].date <= Date(now)
        BY <3>1, InFlight, Zenon
      <3>3. f[2] = fd[s].date
        BY <3>1, Zenon
      <3> QED BY <1>1, <1>2, <3>1, <3>2, <3>3, TouchedFile, ZenonT(40)
    <2> QED BY <2>1, <2>2, Zenon
  <1>4. JanitorOK'
    BY <1>2 DEF JanitorOK
  <1>5. \A s \in Sources : ClockOK(s)'
    BY <1>2, ClosedFacts, Zenon DEF ClockOK
  <1> QED BY <1>3, <1>4, <1>5, Zenon DEF TimeInv

\* Time passes.
LEMMA TickTime ==
  ASSUME Known, TimeInv, Tick
  PROVE  TimeInv'
  <1>1. WriterTypes /\ DiskTypes /\ JanitorTypes /\ JanitorOK
        /\ (\A g \in LogFiles : FileOK(g)) /\ \A t \in Sources : ClockOK(t)
    BY Zenon DEF Known, TimeInv
  <1>2. /\ now' = now + 1 /\ now \in Nat /\ now + 1 \in Nat
        /\ Date(now) \in Nat /\ Date(now + 1) \in Nat /\ Date(now) <= Date(now + 1)
        /\ \A s \in Sources : /\ hand[s] # 0 => Date(now + 1) <= day[s] + 1
                              /\ fd[s].op # 0 => Date(now + 1) <= fd[s].date + 1
        /\ UNCHANGED <<hand, day, fd, disk, jpc, todo, doomed>>
    <2>1. now + 1 \in Nat
      BY <1>1, TickEffect
    <2> QED BY <1>1, <2>1, TickEffect, Zenon
  <1>3. ASSUME NEW f \in LogFiles
        PROVE  FileOK(f)'
    <2>1. FileOK(f) /\ disk[f].mtime \in Nat
      BY <1>1, FileTypes, Zenon
    <2>2. disk[f].mtime <= now => disk[f].mtime <= now'
      BY ONLY <1>2, <2>1
    <2> QED BY <1>2, <2>1, <2>2, Zenon DEF FileOK
  <1>4. JanitorOK'
    <2>1. ASSUME jpc = "remove"
          PROVE  IsOlderThan(doomed)'
      <3>1. doomed \in LogFiles /\ doomed' = doomed /\ disk' = disk /\ IsOlderThan(doomed)
        BY <1>1, <1>2, <2>1, Zenon DEF JanitorTypes, JanitorOK
      <3>2. disk[doomed].mtime \in Nat
        BY <1>1, <3>1, FileTypes, Zenon
      <3> DEFINE L == LogsTtl * DayLen
      <3>3. L \in Nat /\ now - disk[doomed].mtime >= L
        BY <3>1, Sizes DEF IsOlderThan
      <3> HIDE DEF L
      <3>4. now' - disk[doomed].mtime >= L
        BY ONLY <1>2, <3>2, <3>3
      <3> QED BY <3>1, <3>4, Zenon DEF IsOlderThan, L
    <2> QED BY <1>1, <1>2, <2>1, Zenon DEF JanitorOK
  <1>5. ASSUME NEW s \in Sources
        PROVE  ClockOK(s)'
    <2>1. ClockOK(s) /\ fd[s].date \in Nat
      BY <1>1, WriterTypesAt, Zenon
    <2>2. Date(now) >= fd[s].date + 2 => Date(now + 1) >= fd[s].date + 2
      BY ONLY <1>2, <2>1
    <2> QED BY <1>2, <2>1, <2>2, Zenon DEF ClockOK
  <1> QED BY <1>3, <1>4, <1>5, Zenon DEF TimeInv

\* The steps that leave the writers' hands, their files and the clock alone.
LEMMA QuietTime ==
  ASSUME Known, TimeInv, UNCHANGED <<hand, day, fd, disk, now>>, JanitorOK'
  PROVE  TimeInv'
  <1>1. \A f \in LogFiles : FileOK(f)'
    BY FileFrame, Zenon DEF TimeInv
  <1>2. \A s \in Sources : ClockOK(s)'
    BY Zenon DEF TimeInv, ClockOK
  <1> QED BY <1>1, <1>2, Zenon DEF TimeInv

\* The janitor lists the files, looks at one, or gives up.
LEMMA ListTime ==
  ASSUME Known, TimeInv, ListLogs \/ StatLog \/ JanitorError \/ Served
  PROVE  TimeInv'
  <1>1. JanitorTypes /\ JanitorOK
    BY Zenon DEF Known, TimeInv
  <1>2. UNCHANGED <<hand, day, fd, disk, now>>
    BY QuietJanitor, QuietShutdown, Zenon DEF Quiet
  <1>3. JanitorOK'
    <2>1. CASE ListLogs
      BY <1>2, <2>1 DEF ListLogs, JanitorOK
    <2>2. CASE StatLog
      <3>1. PICK f \in todo :
              /\ todo' = todo \ {f}
              /\ \/ IsOlderThan(f) /\ doomed' = f
                 \/ jpc' = EndOfList(todo')
        BY <2>2, Zenon DEF StatLog
      <3>2. \A g \in todo' : disk'[g].exists
        BY <1>1, <1>2, <3>1, ZenonT(40) DEF JanitorOK
      <3>3. CASE jpc' = EndOfList(todo')
        <4>1. jpc' # "remove"
          BY <3>3 DEF EndOfList
        <4> QED BY <3>2, <4>1, Zenon DEF JanitorOK
      <3>4. CASE IsOlderThan(f) /\ doomed' = f
        <4>1. doomed' \notin todo' /\ disk'[doomed'].exists /\ IsOlderThan(doomed)'
          BY <1>1, <1>2, <3>1, <3>4, Zenon DEF JanitorOK, IsOlderThan
        <4> QED BY <3>2, <4>1, Zenon DEF JanitorOK
      <3> QED BY <3>1, <3>3, <3>4, Zenon
    <2>3. CASE JanitorError \/ Served
      <3>1. jpc' = "idle" /\ todo' = {}
        BY <2>3, Zenon DEF JanitorError, Served
      <3> QED BY <3>1 DEF JanitorOK
    <2> QED BY <2>1, <2>2, <2>3, Zenon
  <1> QED BY <1>2, <1>3, QuietTime, Zenon

\* Every step, as its effect on the janitor and the files.
LEMMA TimeStep ==
  ASSUME LogsTtl >= 2, Known, TimeInv, [Next]_vars
  PROVE  TimeInv'
  <1>1. ASSUME NEW h \in Handlers, Call(h)
        PROVE  TimeInv'
    <2>1. UNCHANGED <<hand, day, fd, disk, now, jpc, todo, doomed>>
      BY <1>1, QuietCalls, StartEntryEffect, SendEffect, Zenon DEF Call, Quiet, Known
    <2>2. FilesStay
      BY <2>1, SameDisk, Zenon
    <2>3. JanitorOK'
      BY <2>1, <2>2, JanitorFrame, Zenon DEF Known, TimeInv
    <2> QED BY <2>1, <2>3, QuietTime, Zenon
  <1>2. ASSUME NEW s \in Sources, WriterLoop(s)
        PROVE  TimeInv'
    BY <1>2, OtherWriterTime, OpenTime, LandTime, Zenon DEF WriterLoop
  <1>3. CASE PruneLogs \/ Served
    BY <1>3, ListTime, RemoveTime, Zenon DEF PruneLogs
  <1>4. CASE ShutdownSignal \/ Exit \/ UNCHANGED vars
    <2>1. UNCHANGED <<hand, day, fd, disk, now, jpc, todo, doomed>>
      BY <1>4, Zenon DEF ShutdownSignal, Exit, outside, vars, writerVars, janitorVars, boundVars
    <2>2. FilesStay
      BY <2>1, SameDisk, Zenon
    <2>3. JanitorOK'
      BY <2>1, <2>2, JanitorFrame, Zenon DEF Known, TimeInv
    <2> QED BY <2>1, <2>3, QuietTime, Zenon
  <1>5. CASE Crash
    BY <1>5, CrashTime, Zenon
  <1>6. CASE Tick
    BY <1>6, TickTime, Zenon
  <1> QED BY <1>1, <1>2, <1>3, <1>4, <1>5, <1>6, Zenon DEF Next, Shutdown

\* In the beginning there is no file.
LEMMA TimeInit ==
  ASSUME Init
  PROVE  TimeInv
  <1>1. JanitorOK
    BY DEF Init, JanitorOK
  <1>2. \A f \in LogFiles : FileOK(f)
    BY NoFileFacts, Zenon DEF Init, FileOK
  <1>3. \A s \in Sources : ClockOK(s)
    BY ClosedFacts, Zenon DEF Init, ClockOK
  <1> QED BY <1>1, <1>2, <1>3, Zenon DEF TimeInv

\* The invariant behind the janitor's safety: with a retention of two days or more, no
\* write is in flight to a file that prune_logs has found old.
THEOREM TimeInductive ==
  ASSUME LogsTtl >= 2
  PROVE  Spec => [](Known /\ TimeInv)
  <1>1. ControlInv /\ NumbersInv /\ OrderInv => Known
    BY KnownFacts, Zenon
  <1>2. Init => TimeInv
    BY TimeInit, Zenon
  <1>3. Known /\ TimeInv /\ [Next]_vars => TimeInv'
    BY TimeStep, Zenon
  <1> QED BY <1>1, <1>2, <1>3, OrderInductive, PTL DEF Spec

\* Only prune_logs removes a file.
LEMMA OthersRemoveNothing ==
  ASSUME Known, [Next]_vars, ~ RemoveLog
  PROVE  FilesStay
  <1>1. Serving /\ WriterTypes /\ DiskTypes
    BY Zenon DEF Known
  <1>2. ASSUME NEW h \in Handlers, Call(h)
        PROVE  FilesStay
    <2>1. disk' = disk
      BY <1>1, <1>2, QuietCalls, StartEntryEffect, SendEffect, Zenon DEF Call, Quiet
    <2> QED BY <2>1, SameDisk, Zenon
  <1>3. ASSUME NEW s \in Sources, WriterLoop(s)
        PROVE  FilesStay
    <2>1. CASE Recv(s) \/ Rotate(s) \/ OpenFails(s) \/ Write(s) \/ WriterExit(s)
      <3>1. disk' = disk
        BY <1>1, <2>1, RecvEffect, RotateEffect, OpenFailsEffect, WriteEffect, WriterExitEffect, ZenonT(40)
      <3> QED BY <3>1, SameDisk, Zenon
    <2>2. CASE OpenLogFile(s)
      BY <1>1, <2>2, OpenDisk, Zenon DEF FilesStay
    <2>3. CASE Land(s)
      BY <1>1, <2>3, LandDisk, Zenon DEF FilesStay
    <2>4. CASE LandFails(s)
      BY <1>1, <2>4, LandFailsDisk, Zenon DEF FilesStay
    <2> QED BY <1>3, <2>1, <2>2, <2>3, <2>4, ZenonT(40) DEF WriterLoop
  <1>4. CASE ListLogs \/ StatLog \/ JanitorError \/ ShutdownSignal \/ Shutdown \/ UNCHANGED vars
    <2>1. disk' = disk
      BY <1>4, QuietJanitor, QuietShutdown, Zenon DEF Quiet, Shutdown
    <2> QED BY <2>1, SameDisk, Zenon
  <1>5. CASE Crash
    BY <1>1, <1>5, CrashDisk, Zenon DEF FilesStay
  <1>6. CASE Tick
    BY <1>1, <1>6, TickEffect, SameDisk, Zenon
  <1> QED BY <1>2, <1>3, <1>4, <1>5, <1>6, ZenonT(40) DEF Next, PruneLogs

\* prune_logs stats a file in one step and removes it in another; with a retention of
\* two days or more no line is added in between, so what it removes has expired.
THEOREM ExpirySafety ==
  ASSUME LogsTtl >= 2
  PROVE  Spec => OnlyExpiredLogsRemoved
  <1>1. ASSUME Known, TimeInv, [Next]_vars
        PROVE  [\A f \in LogFiles : disk[f].exists /\ ~ disk'[f].exists =>
                    now - disk[f].mtime >= LogsTtl * DayLen]_vars
    <2> SUFFICES ASSUME NEW f \in LogFiles, disk[f].exists, ~ disk'[f].exists
                 PROVE  IsOlderThan(f)
      BY Zenon DEF IsOlderThan
    <2>1. RemoveLog
      BY <1>1, OthersRemoveNothing, Zenon DEF FilesStay
    <2>2. WriterTypes /\ DiskTypes /\ doomed \in LogFiles /\ IsOlderThan(doomed)
      BY <1>1, <2>1, Zenon DEF Known, TimeInv, JanitorTypes, JanitorOK, RemoveLog
    <2>3. disk' = [disk EXCEPT ![doomed] = NoFile]
      BY <2>1, Zenon DEF RemoveLog
    <2>4. f # doomed => disk'[f] = disk[f]
      BY <2>2, <2>3, NoFileFacts, DiskUpdate, ZenonT(40)
    <2> QED BY <2>2, <2>4, Zenon
  <1> QED BY <1>1, TimeInductive, PTL DEF Spec, OnlyExpiredLogsRemoved

-----------------------------------------------------------------------------
(* Where every record is                                                   *)

Missing == lost \cup gone

\* A record that was taken from the queue is in hand, being written, on a line or
\* missing, and one that is missing is in no other place.
PlacesOK(s) ==
    \A n \in 1 .. sent[s] :
        /\ n <= Taken(s) => n = hand[s] \/ n = fd[s].op \/ n \in OnDisk(s) \/ <<s, n>> \in Missing
        /\ <<s, n>> \in Missing =>
            n <= Taken(s) /\ n # hand[s] /\ n # fd[s].op /\ n \notin OnDisk(s)

PlacesInv == \A s \in Sources : PlacesOK(s)

\* A step that moves no record of a source.
LEMMA PlacesFrame ==
  ASSUME NEW s \in Sources, PlacesOK(s), sent'[s] = sent[s], Taken(s)' = Taken(s),
         hand'[s] = hand[s], fd'[s].op = fd[s].op, OnDisk(s)' = OnDisk(s),
         \A n : <<s, n>> \in Missing' <=> <<s, n>> \in Missing
  PROVE  PlacesOK(s)'
BY Zenon DEF PlacesOK

\* The record in hand is lost.
LEMMA HandLost ==
  ASSUME Known, NEW s \in Sources, PlacesOK(s), sent'[s] = sent[s], Taken(s)' = Taken(s), hand[s] # 0,
         hand'[s] = 0, fd'[s].op = fd[s].op, OnDisk(s)' = OnDisk(s),
         \A n : <<s, n>> \in Missing' <=> <<s, n>> \in Missing \/ n = hand[s]
  PROVE  PlacesOK(s)'
  <1>1. /\ hand[s] \in 1 .. Taken(s) /\ hand[s] # fd[s].op /\ hand[s] \notin OnDisk(s)
        /\ \A n \in 1 .. Taken(s) : n <= Taken(s)
    BY HeldFacts, Zenon
  <1>2. \A n \in 1 .. sent[s] : n # 0
    BY HeldFacts
  <1> QED BY <1>1, <1>2, Zenon DEF PlacesOK

\* The record being written is lost.
LEMMA WriteLost ==
  ASSUME Known, NEW s \in Sources, PlacesOK(s), sent'[s] = sent[s], Taken(s)' = Taken(s), fd[s].op # 0,
         hand'[s] = hand[s], fd'[s].op = 0, OnDisk(s)' = OnDisk(s),
         \A n : <<s, n>> \in Missing' <=> <<s, n>> \in Missing \/ n = fd[s].op
  PROVE  PlacesOK(s)'
  <1>1. /\ fd[s].op \in 1 .. Taken(s) /\ hand[s] # fd[s].op /\ fd[s].op \notin OnDisk(s)
        /\ \A n \in 1 .. Taken(s) : n <= Taken(s)
    BY HeldFacts, Zenon
  <1>2. \A n \in 1 .. sent[s] : n # 0
    BY HeldFacts
  <1> QED BY <1>1, <1>2, Zenon DEF PlacesOK

\* The record in hand is given to the file.
LEMMA HandWritten ==
  ASSUME Known, NEW s \in Sources, PlacesOK(s), sent'[s] = sent[s], Taken(s)' = Taken(s), fd[s].op = 0,
         hand'[s] = 0, fd'[s].op = hand[s], OnDisk(s)' = OnDisk(s), Missing' = Missing
  PROVE  PlacesOK(s)'
  <1>1. \A n \in 1 .. sent[s] : n # 0
    BY HeldFacts
  <1> QED BY <1>1, Zenon DEF PlacesOK

\* The record being written becomes a line.
LEMMA WriteLands ==
  ASSUME Known, NEW s \in Sources, PlacesOK(s), sent'[s] = sent[s], Taken(s)' = Taken(s), fd[s].op # 0,
         hand'[s] = hand[s], fd'[s].op = 0, OnDisk(s)' = OnDisk(s) \cup {fd[s].op}, Missing' = Missing
  PROVE  PlacesOK(s)'
  <1>1. \A n \in 1 .. sent[s] : n # 0
    BY HeldFacts
  <1> QED BY <1>1, Zenon DEF PlacesOK

\* Lines are removed.
LEMMA LinesPruned ==
  ASSUME NEW s \in Sources, PlacesOK(s), Known, sent'[s] = sent[s], Taken(s)' = Taken(s),
         hand'[s] = hand[s], fd'[s].op = fd[s].op,
         NEW R, OnDisk(s)' = OnDisk(s) \ R, R \subseteq OnDisk(s),
         \A n : <<s, n>> \in Missing' <=> <<s, n>> \in Missing \/ n \in R
  PROVE  PlacesOK(s)'
  <1>1. /\ \A n \in OnDisk(s) : n \in 1 .. Taken(s)
        /\ \A n \in 1 .. Taken(s) : n <= Taken(s) /\ n # 0
        /\ hand[s] # 0 => hand[s] \notin OnDisk(s)
        /\ fd[s].op # 0 => fd[s].op \notin OnDisk(s)
    BY HeldFacts, Zenon
  <1>2. hand[s] \notin OnDisk(s) /\ fd[s].op \notin OnDisk(s)
    BY <1>1, Zenon
  <1> QED BY <1>1, <1>2, Zenon DEF PlacesOK

\* A step that leaves the lines of a source alone.
LEMMA SameLines ==
  ASSUME NEW s \in Sources, \A d \in Days : disk'[<<s, d>>].lines = disk[<<s, d>>].lines
  PROVE  OnDisk(s)' = OnDisk(s)
  <1>1. \A d \in Days : Range(disk'[<<s, d>>].lines) = Range(disk[<<s, d>>].lines)
    BY Zenon
  <1> QED BY <1>1, Zenon DEF OnDisk

\* A step of another source's writer.
LEMMA PlacesElsewhere ==
  ASSUME NEW t \in Sources, PlacesOK(t), SameAt(t),
         \A d \in Days : disk'[<<t, d>>].lines = disk[<<t, d>>].lines,
         \A n : <<t, n>> \in Missing' <=> <<t, n>> \in Missing
  PROVE  PlacesOK(t)'
  <1>1. OnDisk(t)' = OnDisk(t)
    BY SameLines, Zenon
  <1>2. Taken(t)' = Taken(t) /\ sent'[t] = sent[t] /\ hand'[t] = hand[t] /\ fd'[t].op = fd[t].op
    BY Zenon DEF SameAt, Taken
  <1> QED BY <1>1, <1>2, PlacesFrame, Zenon

\* A step that loses one record, or none.
LEMMA OneMissing ==
  ASSUME NEW s \in Sources, NEW k, gone' = gone, lost' = lost \cup {<<s, k>>}
  PROVE  /\ \A n : <<s, n>> \in Missing' <=> <<s, n>> \in Missing \/ n = k
         /\ \A t \in Sources \ {s} : \A n : <<t, n>> \in Missing' <=> <<t, n>> \in Missing
  <1>1. \A t, n : <<t, n>> = <<s, k>> <=> t = s /\ n = k
    OBVIOUS
  <1> QED BY <1>1, Zenon DEF Missing

\* A step of a writer: the record it works on moves from one place to the next.
LEMMA WorkPlaces ==
  ASSUME LogsTtl >= 2, Known, TimeInv, PlacesInv, NEW s \in Sources, Work(s)
  PROVE  PlacesInv'
  <1>1. /\ WriterTypes /\ DiskTypes /\ WriterOK(s) /\ NumbersOK(s) /\ PlacesOK(s)
        /\ \A f \in LogFiles : FileOK(f)
        /\ \A t \in Sources : PlacesOK(t)
    BY Zenon DEF Known, TimeInv, PlacesInv
  <1>2. Taken(s)' = Taken(s) /\ sent'[s] = sent[s] /\ \A t \in Sources \ {s} : SameAt(t)
    BY <1>1, WorkNumbers, WorkEffect, Zenon
  <1>3. sent' = sent /\ gone' = gone
    BY <1>1, RotateEffect, OpenEffect, OpenFailsEffect, WriteEffect, LandEffect, LandFailsEffect,
       WriterExitEffect, ZenonT(40) DEF Work
  <1>4. \A t \in Sources, d \in Days : <<t, d>> \in LogFiles
    BY FileNames, Zenon
  <1>6. ASSUME PlacesOK(s)', \A t \in Sources \ {s} : \A d \in Days :
                                 disk'[<<t, d>>].lines = disk[<<t, d>>].lines,
               \/ lost' = lost
               \/ lost' = lost \cup {<<s, hand[s]>>}
               \/ lost' = lost \cup {<<s, fd[s].op>>}
        PROVE  PlacesInv'
    <2>1. \A t \in Sources \ {s} : \A n : <<t, n>> \in Missing' <=> <<t, n>> \in Missing
      BY <1>3, <1>6, OneMissing, Zenon DEF Missing
    <2>2. \A t \in Sources \ {s} : PlacesOK(t)'
      BY <1>1, <1>2, <1>6, <2>1, PlacesElsewhere, Zenon
    <2> QED BY <1>6, <2>2, Zenon DEF PlacesInv
  <1>7. ASSUME \A f \in LogFiles : disk'[f].lines = disk[f].lines
        PROVE  OnDisk(s)' = OnDisk(s)
               /\ \A t \in Sources \ {s} : \A d \in Days : disk'[<<t, d>>].lines = disk[<<t, d>>].lines
    BY <1>4, <1>7, SameLines, Zenon
  <1>8. CASE Rotate(s) \/ WriterExit(s) \/ OpenLogFile(s)
    <2>1. /\ hand'[s] = hand[s] /\ lost' = lost
          /\ \/ (Rotate(s) \/ WriterExit(s)) /\ fd[s].op = 0 /\ fd'[s] = ClosedFd /\ disk' = disk
             \/ wpc[s] = "open" /\ OpenLogFile(s)
                /\ fd'[s] = [ClosedFd EXCEPT !.open = TRUE, !.date = day[s], !.linked = TRUE]
      BY <1>1, <1>8, RotateEffect, WriterExitEffect, OpenEffect, Zenon
    <2>2. fd'[s].op = fd[s].op
      <3>1. fd'[s].op = 0
        BY <2>1, ClosedFacts, Zenon DEF FdType
      <3>2. fd[s].op # 0 => ~ OpenLogFile(s)
        BY <1>1, <2>1, OpenEffect, Zenon DEF WriterOK
      <3> QED BY <2>1, <3>1, <3>2, Zenon
    <2>3. \A f \in LogFiles : disk'[f].lines = disk[f].lines
      <3>1. CASE disk' = disk
        BY <3>1, Zenon
      <3>2. CASE OpenLogFile(s)
        <4>1. /\ \A g \in LogFiles : g # <<s, day[s]>> => disk'[g] = disk[g]
              /\ disk'[<<s, day[s]>>].lines = disk[<<s, day[s]>>].lines
          BY <1>1, <3>2, OpenDisk, Zenon DEF FileOK
        <4> QED BY <4>1, Zenon
      <3> QED BY <2>1, <3>1, <3>2, Zenon
    <2>4. PlacesOK(s)'
      BY <1>1, <1>2, <1>3, <1>7, <2>1, <2>2, <2>3, PlacesFrame, Zenon DEF Missing
    <2> QED BY <1>6, <1>7, <2>1, <2>3, <2>4, Zenon
  <1>9. CASE OpenFails(s)
    <2>1. wpc[s] = "open" /\ hand'[s] = 0 /\ lost' = lost \cup {<<s, hand[s]>>} /\ fd' = fd /\ disk' = disk
      BY <1>1, <1>9, OpenFailsEffect, Zenon
    <2>2. hand[s] # 0
      <3>1. wpc[s] \in Holding
        BY <2>1 DEF Holding
      <3> QED BY <1>1, <3>1, Zenon DEF WriterOK
    <2>3. PlacesOK(s)'
      BY <1>1, <1>2, <1>3, <1>7, <2>1, <2>2, HandLost, OneMissing, Zenon
    <2> QED BY <1>6, <1>7, <2>1, <2>2, <2>3, Zenon
  <1>10. CASE Write(s)
    <2>1. /\ wpc[s] = "write" /\ fd[s].op = 0 /\ hand'[s] = 0 /\ disk' = disk
          /\ \/ fd'[s] = [fd[s] EXCEPT !.err = FALSE] /\ lost' = lost \cup {<<s, hand[s]>>}
             \/ fd'[s] = [fd[s] EXCEPT !.op = hand[s]] /\ lost' = lost
      BY <1>1, <1>10, WriteEffect, Zenon
    <2>2. hand[s] # 0
      <3>1. wpc[s] \in Holding
        BY <2>1 DEF Holding
      <3> QED BY <1>1, <3>1, Zenon DEF WriterOK
    <2>3. fd[s] \in FdType
      BY <1>1, WriterTypesAt, Zenon
    <2>4. OnDisk(s)' = OnDisk(s)
      BY <1>7, <2>1, Zenon
    <2>5. CASE fd'[s] = [fd[s] EXCEPT !.err = FALSE] /\ lost' = lost \cup {<<s, hand[s]>>}
      <3>1. fd'[s].op = fd[s].op
        BY <2>3, <2>5, Zenon DEF FdType
      <3>2. PlacesOK(s)'
        BY <1>1, <1>2, <1>3, <2>1, <2>2, <2>4, <2>5, <3>1, HandLost, OneMissing, Zenon
      <3> QED BY <1>6, <1>7, <2>1, <2>2, <2>5, <3>2, Zenon
    <2>6. CASE fd'[s] = [fd[s] EXCEPT !.op = hand[s]] /\ lost' = lost
      <3>1. fd'[s].op = hand[s]
        BY <2>3, <2>6, Zenon DEF FdType
      <3>2. PlacesOK(s)'
        BY <1>1, <1>2, <1>3, <2>1, <2>4, <2>6, <3>1, HandWritten, Zenon DEF Missing
      <3> QED BY <1>6, <1>7, <2>1, <2>6, <3>2, Zenon
    <2> QED BY <2>1, <2>5, <2>6, Zenon
  <1>11. CASE LandFails(s)
    <2>1. fd[s].op # 0 /\ hand' = hand /\ lost' = lost \cup {<<s, fd[s].op>>}
          /\ fd'[s] = [fd[s] EXCEPT !.op = 0, !.err = TRUE]
      BY <1>1, <1>11, LandFailsEffect, Zenon
    <2>2. fd'[s].op = 0
      BY <1>1, <2>1, WriterTypesAt, Zenon DEF FdType
    <2>3. \A f \in LogFiles : disk'[f].lines = disk[f].lines
      BY <1>1, <1>11, LandFailsDisk, Zenon
    <2>4. PlacesOK(s)'
      BY <1>1, <1>2, <1>3, <1>7, <2>1, <2>2, <2>3, WriteLost, OneMissing, Zenon
    <2> QED BY <1>6, <1>7, <2>1, <2>3, <2>4, Zenon
  <1>12. CASE Land(s)
    <2>1. fd[s].op # 0 /\ hand' = hand /\ fd'[s] = [fd[s] EXCEPT !.op = 0]
      BY <1>1, <1>12, LandEffect, Zenon
    <2>2. fd'[s].op = 0
      BY <1>1, <2>1, WriterTypesAt, Zenon DEF FdType
    <2>3. fd[s].linked
      BY <2>1, InFlight, Zenon
    <2>4. CASE disk[<<s, fd[s].date>>].torn
      <3>1. lost' = lost \cup {<<s, fd[s].op>>} /\ \A f \in LogFiles : disk'[f].lines = disk[f].lines
        BY <1>1, <1>12, <2>3, <2>4, LandDisk, Zenon
      <3>2. PlacesOK(s)'
        BY <1>1, <1>2, <1>3, <1>7, <2>1, <2>2, <3>1, WriteLost, OneMissing, Zenon
      <3> QED BY <1>6, <1>7, <2>1, <3>1, <3>2, Zenon
    <2>5. CASE ~ disk[<<s, fd[s].date>>].torn
      <3>1. PICK D \in Days : D = fd[s].date
        BY <1>1, WriterTypesAt, Zenon
      <3>2. PICK k \in Nat : k = fd[s].op
        BY <1>1, WriterTypesAt, Zenon
      <3>3. /\ lost' = lost /\ disk'[<<s, D>>].lines = Append(disk[<<s, D>>].lines, k)
            /\ \A g \in LogFiles : g # <<s, D>> => disk'[g] = disk[g]
            /\ disk[<<s, D>>].lines \in Seq(Nat)
        BY <1>1, <1>4, <1>12, <2>3, <2>5, <3>1, <3>2, LandDisk, FileTypes, Zenon
      <3>4. Range(disk'[<<s, D>>].lines) = Range(disk[<<s, D>>].lines) \cup {k}
        <4>1. PICK q \in Seq(Nat) : q = disk[<<s, D>>].lines
          BY <3>3, Zenon
        <4>2. Range(Append(q, k)) = Range(q) \cup {k}
          BY ONLY <4>1, <3>2, RangePut
        <4> QED BY <3>3, <4>1, <4>2, Zenon
      <3>5. \A d \in Days : d # D => disk'[<<s, d>>] = disk[<<s, d>>]
        <4>1. \A d \in Days : d # D => <<s, d>> \in LogFiles /\ <<s, d>> # <<s, D>>
          BY FileNames, Zenon
        <4> QED BY <3>3, <4>1, Zenon
      <3>6. OnDisk(s)' = OnDisk(s) \cup {k}
        <4> DEFINE L(d) == Range(disk[<<s, d>>].lines)
                   P(d) == Range(disk'[<<s, d>>].lines)
        <4>1. P(D) = L(D) \cup {k} /\ \A d \in Days : d # D => P(d) = L(d)
          BY <3>4, <3>5, Zenon
        <4>2. /\ \A n : n \in OnDisk(s)' <=> \E d \in Days : n \in P(d)
              /\ \A n : n \in OnDisk(s) <=> \E d \in Days : n \in L(d)
          BY Zenon DEF OnDisk
        <4> HIDE DEF L, P
        <4>3. \A n : n \in OnDisk(s)' <=> n \in OnDisk(s) \/ n = k
          <5>1. ASSUME NEW n, n \in OnDisk(s)'
                PROVE  n \in OnDisk(s) \/ n = k
            <6>1. PICK d \in Days : n \in P(d)
              BY <4>2, <5>1, Zenon
            <6>2. CASE d = D
              BY <4>1, <4>2, <6>1, <6>2, Zenon
            <6>3. CASE d # D
              BY <4>1, <4>2, <6>1, <6>3, Zenon
            <6> QED BY <6>2, <6>3, Zenon
          <5>2. ASSUME NEW n, n \in OnDisk(s)
                PROVE  n \in OnDisk(s)'
            <6>1. PICK d \in Days : n \in L(d)
              BY <4>2, <5>2, Zenon
            <6>2. n \in P(d)
              BY <4>1, <6>1, Zenon
            <6> QED BY <4>2, <6>2, Zenon
          <5>3. k \in OnDisk(s)'
            BY <4>1, <4>2, Zenon
          <5> QED BY <5>1, <5>2, <5>3, Zenon
        <4> QED BY <4>3, Zenon
      <3>7. PlacesOK(s)'
        BY <1>1, <1>2, <1>3, <2>1, <2>2, <3>2, <3>3, <3>6, WriteLands, Zenon DEF Missing
      <3>8. \A t \in Sources \ {s} : \A d \in Days : disk'[<<t, d>>].lines = disk[<<t, d>>].lines
        BY <1>1, <1>12, LandElsewhere, Zenon
      <3> QED BY <1>6, <3>3, <3>7, <3>8, Zenon
    <2> QED BY <2>4, <2>5, Zenon
  <1> QED BY <1>8, <1>9, <1>10, <1>11, <1>12, ZenonT(40) DEF Work

\* A record is taken from the queue.
LEMMA RecvPlaces ==
  ASSUME Known, PlacesInv, NEW s \in Sources, Recv(s)
  PROVE  PlacesInv'
  <1>1. WriterTypes /\ WriterOK(s) /\ NumbersOK(s) /\ \A t \in Sources : PlacesOK(t)
    BY Zenon DEF Known, PlacesInv
  <1>2. UNCHANGED <<sent, fd, disk, lost, gone>> /\ \A t \in Sources \ {s} : SameAt(t)
    BY <1>1, RecvEffect, Zenon
  <1>3. hand'[s] = Taken(s) + 1 /\ Taken(s)' = Taken(s) + 1
    BY <1>1, RecvNumbers, Zenon
  <1>4. hand[s] = 0
    <2>1. wpc[s] = "recv"
      BY <1>1, RecvEffect, Zenon
    <2>2. wpc[s] \in {"none", "recv", "done"}
      BY <2>1
    <2> QED BY <1>1, <2>2, EmptyHand, Zenon
  <1>5. PlacesOK(s)'
    <2>1. /\ OnDisk(s)' = OnDisk(s) /\ sent'[s] = sent[s] /\ fd'[s].op = fd[s].op
          /\ Missing' = Missing /\ PlacesOK(s)
      BY <1>1, <1>2, SameLines, ZenonT(40) DEF Missing
    <2>2. ASSUME NEW n \in 1 .. sent[s]
          PROVE  /\ n <= Taken(s) + 1 => n <= Taken(s) \/ n = Taken(s) + 1
                 /\ n <= Taken(s) => n <= Taken(s) + 1 /\ n # Taken(s) + 1
                 /\ n # 0
      BY HeldFacts
    <2> QED BY <1>3, <1>4, <2>1, <2>2, Zenon DEF PlacesOK
  <1>6. \A t \in Sources \ {s} : PlacesOK(t)'
    BY <1>1, <1>2, PlacesElsewhere, Zenon DEF Missing
  <1> QED BY <1>5, <1>6, Zenon DEF PlacesInv

\* A record is put in a queue.
LEMMA SendPlaces ==
  ASSUME Known, PlaceTypes, PlacesInv, NEW h \in Handlers, Send(h)
  PROVE  PlacesInv'
  <1>1. Serving /\ WriterTypes /\ \A t \in Sources : PlacesOK(t) /\ NumbersOK(t)
    BY Zenon DEF Known, PlacesInv
  <1>2. PICK x \in Sources :
          /\ sent'[x] = sent[x] + 1 /\ UNCHANGED <<hand, fd, disk, lost, gone>>
          /\ \A t \in Sources \ {x} : SameAt(t)
    BY <1>1, SendEffect, Zenon
  <1>3. \A t \in Sources : Taken(t)' = Taken(t)
    BY <1>1, SendNumbers, Zenon
  <1>4. \A t \in Sources : OnDisk(t)' = OnDisk(t)
    BY <1>2, SameLines, Zenon
  <1>5. PlacesOK(x)'
    <2>1. \A n \in 1 .. (sent[x] + 1) :
            /\ n \in 1 .. sent[x] \/ n = sent[x] + 1
            /\ n = sent[x] + 1 => ~ (n <= Taken(x)) /\ n \notin 1 .. sent[x]
      BY HeldFacts
    <2>2. \A n : <<x, n>> \in Missing => n \in 1 .. sent[x]
      BY <1>1, RecordFacts, Zenon DEF PlaceTypes, Missing
    <2>3. Missing' = Missing /\ hand'[x] = hand[x] /\ fd'[x].op = fd[x].op /\ PlacesOK(x)
      BY <1>1, <1>2, Zenon DEF Missing
    <2> QED BY <1>2, <1>3, <1>4, <2>1, <2>2, <2>3, ZenonT(40) DEF PlacesOK
  <1>6. \A t \in Sources \ {x} : PlacesOK(t)'
    BY <1>1, <1>2, PlacesElsewhere, ZenonT(40) DEF Missing
  <1> QED BY <1>5, <1>6, Zenon DEF PlacesInv

\* The lines of a file go with it.
LEMMA RemovePlaces ==
  ASSUME Known, PlacesInv, RemoveLog
  PROVE  PlacesInv'
  <1>1. /\ WriterTypes /\ DiskTypes /\ doomed \in LogFiles
        /\ \A t \in Sources : PlacesOK(t) /\ Sorted(t)
    BY Zenon DEF Known, PlacesInv, JanitorTypes, RemoveLog
  <1>2. PICK s \in Sources, D \in Days :
          /\ doomed = <<s, D>> /\ disk' = [disk EXCEPT ![doomed] = NoFile]
          /\ gone' = gone \cup {<<s, r>> : r \in Range(disk[doomed].lines)}
          /\ fd'[s] = [fd[s] EXCEPT !.linked = @ /\ fd[s].date # D]
          /\ UNCHANGED <<queue, sent, hand, lost>>
          /\ \A t \in Sources \ {s} : SameAt(t)
    BY <1>1, RemoveEffect, Zenon
  <1>3. PICK R : R = Range(disk[<<s, D>>].lines)
    BY Zenon
  <1>4. disk'[<<s, D>>] = NoFile /\ \A g \in LogFiles : g # <<s, D>> => disk'[g] = disk[g]
    BY <1>1, <1>2, NoFileFacts, DiskUpdate, Zenon
  <1>5. /\ \A d \in Days : d # D => disk'[<<s, d>>] = disk[<<s, d>>]
        /\ \A t \in Sources \ {s} : \A d \in Days : disk'[<<t, d>>].lines = disk[<<t, d>>].lines
    <2>1. /\ \A d \in Days : d # D => <<s, d>> \in LogFiles /\ <<s, d>> # <<s, D>>
          /\ \A t \in Sources \ {s} : \A d \in Days : <<t, d>> \in LogFiles /\ <<t, d>> # <<s, D>>
      BY FileNames, Zenon
    <2> QED BY <1>4, <2>1, Zenon
  <1>6. OnDisk(s)' = OnDisk(s) \ R /\ R \subseteq OnDisk(s)
    <2> DEFINE L(d) == Range(disk[<<s, d>>].lines)
               P(d) == Range(disk'[<<s, d>>].lines)
    <2>1. P(D) = {} /\ L(D) = R /\ \A d \in Days : d # D => P(d) = L(d)
      <3>1. Range(<<>>) = {}
        BY DEF Range
      <3> QED BY <1>3, <1>4, <1>5, <3>1, NoFileFacts, ZenonT(40)
    <2>2. /\ \A n : n \in OnDisk(s)' <=> \E d \in Days : n \in P(d)
          /\ \A n : n \in OnDisk(s) <=> \E d \in Days : n \in L(d)
      BY Zenon DEF OnDisk
    <2>3. \A d, e \in Days : d # e => \A n : ~ (n \in L(d) /\ n \in L(e))
      <3> SUFFICES ASSUME NEW d \in Days, NEW e \in Days, d # e, NEW n, n \in L(d), n \in L(e)
                   PROVE  FALSE
        BY Zenon
      <3>1. n \in OnDisk(s)
        BY Zenon DEF OnDisk
      <3>2. n \in Nat
        BY <3>1, HeldFacts
      <3>3. ~ (n < n) /\ (d < e \/ e < d)
        BY <3>2, DaysAreNat
      <3> QED BY <1>1, <3>3, Zenon DEF Sorted, Lines
    <2> HIDE DEF L, P
    <2>4. \A n : n \in OnDisk(s)' <=> n \in OnDisk(s) /\ n \notin R
      <3>1. ASSUME NEW n, n \in OnDisk(s)'
            PROVE  n \in OnDisk(s) /\ n \notin R
        <4>1. PICK d \in Days : n \in P(d)
          BY <2>2, <3>1, Zenon
        <4>2. d # D /\ n \in L(d)
          BY <2>1, <4>1, Zenon
        <4>3. n \notin L(D)
          BY <2>3, <4>2, Zenon
        <4> QED BY <2>1, <2>2, <4>2, <4>3, Zenon
      <3>2. ASSUME NEW n, n \in OnDisk(s), n \notin R
            PROVE  n \in OnDisk(s)'
        <4>1. PICK d \in Days : n \in L(d)
          BY <2>2, <3>2, Zenon
        <4>2. n \in P(d)
          BY <2>1, <3>2, <4>1, Zenon
        <4> QED BY <2>2, <4>2, Zenon
      <3> QED BY <3>1, <3>2, Zenon
    <2>5. R \subseteq OnDisk(s)
      BY <2>1, <2>2, Zenon
    <2> QED BY <2>4, <2>5, Zenon
  <1>7. /\ \A n : <<s, n>> \in Missing' <=> <<s, n>> \in Missing \/ n \in R
        /\ \A t \in Sources \ {s} : \A n : <<t, n>> \in Missing' <=> <<t, n>> \in Missing
    <2>1. \A t, n, r : <<t, n>> = <<s, r>> <=> t = s /\ n = r
      OBVIOUS
    <2>2. gone' = gone \cup {<<s, r>> : r \in R} /\ lost' = lost
      BY <1>2, <1>3, Zenon
    <2>3. \A t, n : <<t, n>> \in {<<s, r>> : r \in R} <=> t = s /\ n \in R
      BY <2>1, Zenon
    <2> QED BY <2>2, <2>3, Zenon DEF Missing
  <1>8. PlacesOK(s)'
    <2>1. fd'[s].op = fd[s].op
      <3>1. fd[s] \in FdType
        BY <1>1, WriterTypesAt, Zenon
      <3> QED BY <1>2, <3>1, Zenon DEF FdType
    <2>2. Taken(s)' = Taken(s)
      BY <1>2, Zenon DEF Taken
    <2> QED BY <1>1, <1>2, <1>6, <1>7, <2>1, <2>2, LinesPruned, ZenonT(40)
  <1>9. \A t \in Sources \ {s} : PlacesOK(t)'
    BY <1>1, <1>2, <1>5, <1>7, PlacesElsewhere, ZenonT(40)
  <1> QED BY <1>8, <1>9, Zenon DEF PlacesInv

\* What is in memory goes with the process.
LEMMA CrashPlaces ==
  ASSUME Known, PlacesInv, Crash
  PROVE  PlacesInv'
  <1>1. /\ WriterTypes /\ DiskTypes
        /\ \A t \in Sources : PlacesOK(t) /\ NumbersOK(t)
    BY Zenon DEF Known, PlacesInv
  <1>2. /\ gone' = gone \cup UNION {{t} \X InMemory(t) : t \in Sources} /\ UNCHANGED <<sent, lost>>
        /\ \A t \in Sources : hand'[t] = 0 /\ fd'[t].op = 0 /\ Taken(t)' = sent[t]
    BY <1>1, CrashEffect, CrashNumbers, ClosedFacts, Zenon
  <1>3. \A t \in Sources : OnDisk(t)' = OnDisk(t)
    <2>1. \A t \in Sources, d \in Days : <<t, d>> \in LogFiles
      BY FileNames, Zenon
    <2> QED BY <1>1, <2>1, CrashDisk, SameLines, Zenon
  <1>4. ASSUME NEW t \in Sources, NEW n
        PROVE  <<t, n>> \in Missing' <=> <<t, n>> \in Missing \/ n \in InMemory(t)
    <2>1. ASSUME NEW u \in Sources, <<t, n>> \in {u} \X InMemory(u)
          PROVE  n \in InMemory(t)
      <3>1. u = t /\ n \in InMemory(u)
        BY <2>1, SMT
      <3> QED BY <3>1, Zenon
    <2>2. n \in InMemory(t) => <<t, n>> \in {t} \X InMemory(t)
      BY SMT
    <2>3. <<t, n>> \in UNION {{u} \X InMemory(u) : u \in Sources} <=> n \in InMemory(t)
      BY <2>1, <2>2, Zenon
    <2> QED BY <1>2, <2>3, Zenon DEF Missing
  <1>5. ASSUME NEW t \in Sources
        PROVE  /\ \A n \in InMemory(t) : n \in 1 .. sent[t] /\ n \notin OnDisk(t)
               /\ \A n \in 1 .. sent[t] : n <= sent[t] /\ n # 0 /\ (n > Taken(t) => n \in InMemory(t))
    BY MemoryFacts, Zenon
  <1>6. ASSUME NEW t \in Sources
        PROVE  PlacesOK(t)'
    <2>1. \A n : n # 0 /\ (n = hand[t] \/ n = fd[t].op) => n \in InMemory(t)
      BY Zenon DEF InMemory
    <2>2. /\ PlacesOK(t) /\ sent'[t] = sent[t] /\ hand'[t] = 0 /\ fd'[t].op = 0
          /\ Taken(t)' = sent[t] /\ OnDisk(t)' = OnDisk(t)
      BY <1>1, <1>2, <1>3, Zenon
    <2>3. \A n \in 1 .. sent[t] : n > Taken(t) \/ n <= Taken(t)
      BY HeldFacts
    <2> SUFFICES ASSUME NEW n \in 1 .. sent[t]
                 PROVE  /\ n \in OnDisk(t) \/ <<t, n>> \in Missing'
                        /\ <<t, n>> \in Missing' => n <= sent[t] /\ n # 0 /\ n \notin OnDisk(t)
      BY <2>2, Zenon DEF PlacesOK
    <2>4. n # 0 /\ n <= sent[t] /\ (n > Taken(t) => n \in InMemory(t))
      BY <1>5, Zenon
    <2>5. /\ n <= Taken(t) => n = hand[t] \/ n = fd[t].op \/ n \in OnDisk(t) \/ <<t, n>> \in Missing
          /\ <<t, n>> \in Missing => n \notin OnDisk(t)
      BY <2>2, Zenon DEF PlacesOK
    <2> QED BY <1>4, <1>5, <2>1, <2>3, <2>4, <2>5, Zenon
  <1> QED BY <1>6, Zenon DEF PlacesInv

\* Every step leaves each record in one place.
LEMMA PlacesStep ==
  ASSUME LogsTtl >= 2, Known, PlaceTypes, TimeInv, PlacesInv, [Next]_vars
  PROVE  PlacesInv'
  <1>1. ASSUME UNCHANGED <<queue, sent, hand, fd, disk, lost, gone>>
        PROVE  PlacesInv'
    <2>1. \A t \in Sources : OnDisk(t)' = OnDisk(t) /\ Taken(t)' = Taken(t)
      BY <1>1, SameLines, Zenon DEF Taken
    <2> QED BY <1>1, <2>1, PlacesFrame, Zenon DEF PlacesInv, Missing
  <1>2. ASSUME NEW h \in Handlers, Call(h)
        PROVE  PlacesInv'
    <2>1. CASE Send(h)
      BY <2>1, SendPlaces, Zenon
    <2>2. CASE ~ Send(h)
      <3>1. UNCHANGED <<queue, sent, hand, fd, disk, lost, gone>>
        BY <1>2, <2>2, QuietCalls, StartEntryEffect, ZenonT(40) DEF Call, Quiet, Known
      <3> QED BY <1>1, <3>1, Zenon
    <2> QED BY <2>1, <2>2, Zenon
  <1>3. ASSUME NEW s \in Sources, WriterLoop(s)
        PROVE  PlacesInv'
    BY <1>3, RecvPlaces, WorkPlaces, ZenonT(40) DEF WriterLoop, Work
  <1>4. CASE RemoveLog
    BY <1>4, RemovePlaces, Zenon
  <1>5. CASE ListLogs \/ StatLog \/ JanitorError \/ ShutdownSignal \/ Shutdown \/ UNCHANGED vars
    <2>1. UNCHANGED <<queue, sent, hand, fd, disk, lost, gone>>
      BY <1>5, QuietJanitor, QuietShutdown, ZenonT(40) DEF Quiet, Shutdown
    <2> QED BY <1>1, <2>1, Zenon
  <1>6. CASE Crash
    BY <1>6, CrashPlaces, Zenon
  <1>7. CASE Tick
    <2>1. UNCHANGED <<queue, sent, hand, fd, disk, lost, gone>>
      BY <1>7, TickEffect, Zenon DEF Known
    <2> QED BY <1>1, <2>1, Zenon
  <1> QED BY <1>2, <1>3, <1>4, <1>5, <1>6, <1>7, ZenonT(40) DEF Next, PruneLogs

\* In the beginning there is no record.
LEMMA PlacesInit ==
  ASSUME Init
  PROVE  PlacesInv
  <1>1. lost = {} /\ gone = {} /\ \A s \in Sources : sent[s] = 0
    BY Zenon DEF Init
  <1>2. \A s \in Sources : PlacesOK(s)
    <2>1. 1 .. 0 = {}
      OBVIOUS
    <2> QED BY <1>1, <2>1, ZenonT(40) DEF PlacesOK
  <1> QED BY <1>1, <1>2, ZenonT(40) DEF PlacesInv

\* The invariant behind Conserved.
THEOREM PlacesInductive ==
  ASSUME LogsTtl >= 2
  PROVE  Spec => [](Known /\ PlaceTypes /\ TimeInv /\ PlacesInv)
  <1>1. Init => PlacesInv
    BY PlacesInit, Zenon
  <1>2. Known /\ PlaceTypes /\ TimeInv /\ PlacesInv /\ [Next]_vars => PlacesInv'
    BY PlacesStep, Zenon
  <1> QED BY <1>1, <1>2, TimeInductive, KnownPlaces, PTL DEF Spec

\* A queued record is always in exactly one place: in memory, on one line of one file, or
\* lost for a reason that was seen.  Nothing disappears at rotation, when a file is
\* pruned or at shutdown, and nothing is written twice.
THEOREM ConservedSafety ==
  ASSUME LogsTtl >= 2
  PROVE  Spec => []Conserved
  <1>1. ASSUME Known, PlaceTypes, PlacesInv, NEW s \in Sources
        PROVE  /\ 1 .. sent[s] = InMemory(s) \cup OnDisk(s) \cup LostOf(s)
               /\ OnDisk(s) \cap (InMemory(s) \cup LostOf(s)) = {}
               /\ InMemory(s) \cap LostOf(s) = {}
               /\ \A d, e \in Days :
                    d # e => Range(disk[<<s, d>>].lines) \cap Range(disk[<<s, e>>].lines) = {}
    <2>1. PlacesOK(s) /\ Sorted(s)
      BY <1>1, Zenon DEF PlacesInv, Known
    <2>2. \A n : n \in LostOf(s) <=> <<s, n>> \in Missing
      <3>1. ASSUME NEW r \in Missing, r[1] = s
            PROVE  r = <<s, r[2]>>
        <4>1. r \in Record
          BY <1>1, <3>1, Zenon DEF PlaceTypes, Missing
        <4>2. PICK t \in Sources : r \in {t} \X (1 .. sent[t])
          BY <4>1, Zenon DEF Record
        <4> QED BY <3>1, <4>2, SMT
      <3>2. ASSUME NEW n, n \in LostOf(s)
            PROVE  <<s, n>> \in Missing
        BY <3>1, <3>2, Zenon DEF LostOf, Missing
      <3>3. ASSUME NEW n, <<s, n>> \in Missing
            PROVE  n \in LostOf(s)
        <4>1. <<s, n>>[1] = s /\ <<s, n>>[2] = n
          BY SMT
        <4> QED BY <3>3, <4>1, Zenon DEF LostOf, Missing
      <3> QED BY <3>2, <3>3, Zenon
    <2>3. \A n \in 1 .. sent[s] : n # 0 /\ (n > Taken(s) \/ n <= Taken(s))
      BY <1>1, HeldFacts
    <2>4. \A n : <<s, n>> \in Missing => n \in 1 .. sent[s]
      BY <1>1, RecordFacts, Zenon DEF PlaceTypes, Missing
    <2>5. \A n \in OnDisk(s) : n \in 1 .. sent[s]
      BY <1>1, HeldFacts, Zenon
    <2>6. \A n : n \in 1 .. sent[s] <=> n \in InMemory(s) \/ n \in OnDisk(s) \/ n \in LostOf(s)
      <3>1. ASSUME NEW n \in 1 .. sent[s]
            PROVE  n \in InMemory(s) \/ n \in OnDisk(s) \/ n \in LostOf(s)
        <4>1. n <= Taken(s) => n = hand[s] \/ n = fd[s].op \/ n \in OnDisk(s) \/ <<s, n>> \in Missing
          BY <2>1, Zenon DEF PlacesOK
        <4> QED BY <1>1, <2>2, <2>3, <4>1, MemoryFacts, Zenon
      <3> QED BY <1>1, <2>2, <2>4, <2>5, <3>1, MemoryFacts, Zenon
    <2>7. \A n \in OnDisk(s) : n \notin InMemory(s) /\ n \notin LostOf(s)
      BY <1>1, <2>1, <2>2, <2>5, MemoryFacts, Zenon DEF PlacesOK
    <2>8. ASSUME NEW d \in Days, NEW e \in Days, d # e, NEW n \in Range(Lines(s, d)),
                 n \in Range(Lines(s, e))
          PROVE  FALSE
      <3>1. n \in OnDisk(s)
        BY <2>8, OnDiskFacts, Zenon
      <3>2. n \in Nat
        BY <2>5, <3>1
      <3>3. ~ (n < n) /\ (d < e \/ e < d)
        BY <2>8, <3>2, DaysAreNat
      <3> QED BY <2>1, <2>8, <3>3, Zenon DEF Sorted
    <2>9. \A n \in LostOf(s) : n \notin InMemory(s)
      BY <1>1, <2>1, <2>2, <2>3, <2>4, MemoryFacts, Zenon DEF PlacesOK
    <2> QED BY <2>6, <2>7, <2>8, <2>9, Zenon DEF Lines
  <1>2. Known /\ PlaceTypes /\ PlacesInv => Conserved
    BY <1>1, Zenon DEF Conserved
  <1> QED BY <1>2, PlacesInductive, PTL
=============================================================================
