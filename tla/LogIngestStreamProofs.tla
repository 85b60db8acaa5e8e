------------------------ MODULE LogIngestStreamProofs -----------------------
(* Proofs about LogIngest: it implements LogStream, and how many records   *)
(* are lost.                                                               *)
EXTENDS LogIngestProofs

-----------------------------------------------------------------------------
(* The records of a source are dealt with in turn: LogStream               *)

\* The records dealt with when t have left the queue, h is in hand and o being written.
Dealt(t, h, o) == t - (IF h = 0 THEN 0 ELSE 1) - (IF o = 0 THEN 0 ELSE 1)

\* The record being written is the next one in turn.
TurnOK(s) == fd[s].op # 0 => fd[s].op = Settled(s) + 1
TurnInv == \A s \in Sources : TurnOK(s)

\* Settled in these terms, before and after a step.
LEMMA SettledIs ==
  ASSUME NEW s
  PROVE  /\ Settled(s) = Dealt(Taken(s), hand[s], fd[s].op)
         /\ Settled(s)' = Dealt(Taken(s)', hand'[s], fd'[s].op)
BY DEF Settled, Taken, Dealt

\* A step that leaves a source alone.
LEMMA TurnFrame ==
  ASSUME NEW t \in Sources, TurnOK(t), SameAt(t)
  PROVE  TurnOK(t)' /\ Settled(t)' = Settled(t)
  <1>1. Taken(t)' = Taken(t) /\ hand'[t] = hand[t] /\ fd'[t] = fd[t]
    BY Zenon DEF SameAt, Taken
  <1>2. Settled(t)' = Settled(t)
    BY <1>1, SettledIs, Zenon
  <1> QED BY <1>1, <1>2, Zenon DEF TurnOK

\* Receiving a record deals with none.
LEMMA RecvTurn ==
  ASSUME Known, NEW s \in Sources, TurnOK(s), Recv(s)
  PROVE  TurnOK(s)' /\ Settled(s)' = Settled(s)
  <1>1. WriterTypes /\ WriterOK(s) /\ NumbersOK(s)
    BY Zenon DEF Known
  <1>2. /\ Taken(s) \in Nat /\ Taken(s)' = Taken(s) + 1 /\ hand'[s] = Taken(s) + 1
        /\ hand[s] = 0 /\ fd' = fd
    BY <1>1, TakenType, RecvNumbers, RecvEffect, ZenonT(40) DEF WriterOK, Holding
  <1>3. Taken(s)' \in Nat /\ hand'[s] # 0
    BY <1>2
  <1>4. /\ fd[s].op = 0 => Settled(s) = Taken(s) /\ Settled(s)' = Taken(s)' - 1
        /\ fd[s].op # 0 => Settled(s) = Taken(s) - 1 /\ Settled(s)' = Taken(s)' - 2
    BY <1>2, <1>3, SettledIs, SMT DEF Dealt
  <1>5. Settled(s)' = Settled(s)
    BY <1>2, <1>4
  <1> QED BY <1>2, <1>5, Zenon DEF TurnOK

\* Neither does flushing, opening or closing a file.
LEMMA FileTurn ==
  ASSUME Known, NEW s \in Sources, Rotate(s) \/ OpenLogFile(s) \/ WriterExit(s)
  PROVE  TurnOK(s)' /\ Settled(s)' = Settled(s)
  <1>1. WriterTypes /\ WriterOK(s) /\ NumbersOK(s)
    BY Zenon DEF Known
  <1>2. hand' = hand /\ fd[s].op = 0 /\ Taken(s)' = Taken(s)
    BY <1>1, RotateEffect, OpenEffect, WriterExitEffect, WorkNumbers, Zenon DEF WriterOK, Work
  <1>3. fd'[s].op = 0
    <2>1. ClosedFd.op = 0 /\ [ClosedFd EXCEPT !.open = TRUE, !.date = day[s], !.linked = TRUE].op = 0
      BY DEF ClosedFd
    <2> QED BY <1>1, <2>1, RotateEffect, OpenEffect, WriterExitEffect, Zenon
  <1> QED BY <1>2, <1>3, SettledIs, Zenon DEF TurnOK

\* The record in hand is passed to the file.
LEMMA WriteTurn ==
  ASSUME Known, NEW s \in Sources, Write(s), lost' = lost, fd'[s] = [fd[s] EXCEPT !.op = hand[s]]
  PROVE  TurnOK(s)' /\ Settled(s)' = Settled(s)
  <1>1. WriterTypes /\ WriterOK(s) /\ NumbersOK(s)
    BY Zenon DEF Known
  <1>2. /\ Taken(s) \in Nat /\ Taken(s)' = Taken(s) /\ hand[s] # 0 /\ hand'[s] = 0 /\ hand[s] = Taken(s)
        /\ fd[s].op = 0
    BY <1>1, TakenType, WorkNumbers, WriteEffect, ZenonT(40) DEF WriterOK, Holding, Work, NumbersOK
  <1>3. fd'[s].op = hand[s]
    BY <1>1, WriterTypesAt, Zenon DEF FdType
  <1>4. Settled(s) = Taken(s) - 1 /\ Settled(s)' = Taken(s) - 1
    <2>1. Settled(s) = Dealt(Taken(s), hand[s], 0) /\ Settled(s)' = Dealt(Taken(s), 0, hand[s])
      BY <1>2, <1>3, SettledIs, Zenon
    <2> QED BY ONLY <1>2, <2>1 DEF Dealt
  <1>5. Taken(s) = Settled(s)' + 1
    BY <1>2, <1>4
  <1> QED BY <1>2, <1>3, <1>4, <1>5, Zenon DEF TurnOK

\* It is dropped: no file, or the error of the write before.
LEMMA GiveUpTurn ==
  ASSUME Known, NEW s \in Sources,
         OpenFails(s) \/ (Write(s) /\ fd'[s] = [fd[s] EXCEPT !.err = FALSE])
  PROVE  TurnOK(s)' /\ Settled(s)' = Settled(s) + 1 /\ Settled(s) < sent[s]
  <1>1. WriterTypes /\ WriterOK(s) /\ NumbersOK(s)
    BY Zenon DEF Known
  <1>2. /\ Taken(s) \in Nat /\ Taken(s)' = Taken(s) /\ hand[s] # 0 /\ hand'[s] = 0
        /\ fd[s].op = 0 /\ sent[s] \in Nat /\ Taken(s) <= sent[s]
    BY <1>1, TakenType, WorkNumbers, WriteEffect, OpenFailsEffect, WriterTypesAt, ZenonT(40)
       DEF WriterOK, Holding, Work
  <1>3. fd'[s].op = 0
    BY <1>1, <1>2, WriterTypesAt, OpenFailsEffect, Zenon DEF FdType
  <1>4. Settled(s) = Taken(s) - 1 /\ Settled(s)' = Taken(s)
    BY <1>2, <1>3, SettledIs, SMT DEF Dealt
  <1>5. Settled(s)' = Settled(s) + 1 /\ Settled(s) < sent[s]
    BY <1>2, <1>4
  <1> QED BY <1>3, <1>5, Zenon DEF TurnOK

\* The write comes to its end, good or bad.
LEMMA LandTurn ==
  ASSUME Known, NEW s \in Sources, TurnOK(s), Land(s) \/ LandFails(s)
  PROVE  /\ TurnOK(s)' /\ Settled(s)' = Settled(s) + 1 /\ Settled(s) < sent[s]
         /\ fd[s].op = Settled(s) + 1
  <1>1. WriterTypes /\ WriterOK(s) /\ NumbersOK(s)
    BY Zenon DEF Known
  <1>2. /\ Taken(s) \in Nat /\ Taken(s)' = Taken(s) /\ hand'[s] = hand[s]
        /\ fd[s].op # 0 /\ sent[s] \in Nat /\ Taken(s) <= sent[s]
    BY <1>1, TakenType, WorkNumbers, LandEffect, LandFailsEffect, WriterTypesAt, ZenonT(40) DEF Work
  <1>3. fd'[s].op = 0
    <2>1. fd'[s] = [fd[s] EXCEPT !.op = 0] \/ fd'[s] = [fd[s] EXCEPT !.op = 0, !.err = TRUE]
      BY <1>1, LandEffect, LandFailsEffect, Zenon
    <2> QED BY <1>1, <2>1, WriterTypesAt, Zenon DEF FdType
  <1>4. /\ hand[s] = 0 => Settled(s) = Taken(s) - 1 /\ Settled(s)' = Taken(s)
        /\ hand[s] # 0 => Settled(s) = Taken(s) - 2 /\ Settled(s)' = Taken(s) - 1
    BY <1>2, <1>3, SettledIs, SMT DEF Dealt
  <1>5. Settled(s)' = Settled(s) + 1 /\ Settled(s) < sent[s]
    BY <1>2, <1>4
  <1> QED BY <1>2, <1>3, <1>5, Zenon DEF TurnOK

\* There is room in the stream when there is room in the channel.
LEMMA SendTurn ==
  ASSUME Known, TurnInv, NEW h \in Handlers, Send(h)
  PROVE  /\ TurnInv' /\ disk' = disk /\ \A t \in Sources : Settled(t)' = Settled(t)
         /\ \E x \in Sources : /\ sent[x] < Settled(x) + (Capacity + 2)
                               /\ sent'[x] = sent[x] + 1
                               /\ \A t \in Sources \ {x} : sent'[t] = sent[t]
  <1>1. Serving /\ WriterTypes /\ \A s \in Sources : NumbersOK(s)
    BY Zenon DEF Known
  <1>2. PICK x \in Sources :
          /\ Len(queue[x]) < Capacity /\ sent'[x] = sent[x] + 1 /\ UNCHANGED <<hand, fd, disk>>
          /\ \A t \in Sources \ {x} : SameAt(t)
    BY <1>1, SendEffect, Zenon
  <1>3. \A t \in Sources : Taken(t)' = Taken(t)
    BY <1>1, SendNumbers, Zenon
  <1>4. \A t \in Sources : Settled(t)' = Settled(t)
    BY <1>2, <1>3, SettledIs, Zenon
  <1>5. sent[x] < Settled(x) + (Capacity + 2)
    <2>1. Taken(x) \in Nat /\ Len(queue[x]) \in Nat /\ sent[x] = Taken(x) + Len(queue[x])
      BY <1>1, TakenType, Zenon
    <2>2. Settled(x) = Taken(x) \/ Settled(x) = Taken(x) - 1 \/ Settled(x) = Taken(x) - 2
      BY <2>1, SettledIs, SMT DEF Dealt
    <2> QED BY <1>2, <2>1, <2>2, Sizes, SMTT(20)
  <1>6. TurnInv'
    BY <1>2, <1>4, Zenon DEF TurnInv, TurnOK
  <1> QED BY <1>2, <1>4, <1>5, <1>6, ZenonT(40) DEF SameAt

\* No line of any file is touched.
LinesStay == \A f \in LogFiles : disk'[f].lines = disk[f].lines

\* Steps that deal with no record and touch no line are invisible in the stream.
LEMMA StreamStutters ==
  ASSUME sent' = sent, \A t \in Sources : Settled(t)' = Settled(t), LinesStay
  PROVE  UNCHANGED Stream!streamVars
  <1>1. [t \in Sources |-> Settled(t)'] = [t \in Sources |-> Settled(t)]
    BY Zenon
  <1>2. [f \in LogFiles |-> disk'[f].lines] = [f \in LogFiles |-> disk[f].lines]
    BY Zenon DEF LinesStay
  <1> QED BY <1>1, <1>2, Zenon DEF Stream!streamVars

\* Queueing a record is accepting it.
LEMMA SendIsAccept ==
  ASSUME Known, TurnInv, NEW h \in Handlers, Send(h)
  PROVE  TurnInv' /\ Stream!StreamNext
  <1>1. PICK x \in Sources : /\ sent[x] < Settled(x) + (Capacity + 2)
                             /\ sent'[x] = sent[x] + 1
                             /\ \A t \in Sources \ {x} : sent'[t] = sent[t]
    BY SendTurn, Zenon
  <1>2. TurnInv' /\ disk' = disk /\ \A t \in Sources : Settled(t)' = Settled(t)
    BY SendTurn, Zenon
  <1>3. sent' = [sent EXCEPT ![x] = sent[x] + 1]
    <2>1. sent \in [Sources -> Nat] /\ sent' \in [Sources -> Nat]
      BY SendEffect, Zenon DEF Known, WriterTypes
    <2> QED BY <1>1, <2>1, Zenon
  <1>4. [t \in Sources |-> Settled(t)'] = [t \in Sources |-> Settled(t)]
    BY <1>2, Zenon
  <1>5. [t \in Sources |-> Settled(t)][x] = Settled(x)
    BY Zenon
  <1>6. Stream!Accept(x)
    BY <1>1, <1>2, <1>3, <1>4, <1>5, ZenonT(40) DEF Stream!Accept
  <1> QED BY <1>2, <1>6, Zenon DEF Stream!StreamNext

\* One record of a source is dealt with, those of the others wait.
OneSettled(s) ==
    /\ sent' = sent /\ Settled(s) < sent[s] /\ Settled(s)' = Settled(s) + 1
    /\ \A t \in Sources \ {s} : Settled(t)' = Settled(t)

\* That is the turn of the source in the stream.
LEMMA OneIsSettle ==
  ASSUME NEW s \in Sources, OneSettled(s)
  PROVE  Stream!Settle(s)
  <1> DEFINE V == [t \in Sources |-> Settled(t)]
  <1>1. V[s] = Settled(s)
    BY Zenon
  <1>2. [t \in Sources |-> Settled(t)'] = [V EXCEPT ![s] = V[s] + 1]
    BY <1>1, Zenon DEF OneSettled
  <1> QED BY <1>1, <1>2, Zenon DEF Stream!Settle, OneSettled

\* A record lost for good.
LEMMA LostIsDrop ==
  ASSUME NEW s \in Sources, OneSettled(s), LinesStay
  PROVE  Stream!StreamNext
  <1>1. [f \in LogFiles |-> disk'[f].lines] = [f \in LogFiles |-> disk[f].lines]
    BY Zenon DEF LinesStay
  <1>2. Stream!Drop(s)
    BY <1>1, OneIsSettle, Zenon DEF Stream!Drop
  <1> QED BY <1>2, Zenon DEF Stream!StreamNext

\* A file is emptied, whatever was in it.
LEMMA ClearedIsExpire ==
  ASSUME NEW f \in LogFiles, sent' = sent, \A t \in Sources : Settled(t)' = Settled(t),
         disk'[f].lines = <<>>, \A g \in LogFiles : g # f => disk'[g] = disk[g]
  PROVE  Stream!StreamNext
  <1> DEFINE L == [g \in LogFiles |-> disk[g].lines]
  <1>1. [g \in LogFiles |-> disk'[g].lines] = [L EXCEPT ![f] = <<>>]
    BY Zenon
  <1>2. [t \in Sources |-> Settled(t)'] = [t \in Sources |-> Settled(t)]
    BY Zenon
  <1>3. Stream!Expire(f)
    BY <1>1, <1>2, Zenon DEF Stream!Expire
  <1>4. f \in Sources \X Days
    BY Zenon DEF LogFiles
  <1> QED BY <1>3, <1>4, Zenon DEF Stream!StreamNext

\* A sequence without elements.
LEMMA EmptyRange ==
  ASSUME NEW q \in Seq(Nat), Range(q) = {}
  PROVE  q = <<>>
  <1>1. ASSUME q # <<>>
        PROVE  FALSE
    <2>1. 1 \in DOMAIN q
      BY <1>1
    <2> QED BY <2>1, Zenon DEF Range
  <1> QED BY <1>1, Zenon

\* A write that ends well adds the line of the record in turn, behind all others.
LEMMA LandIsAddLine ==
  ASSUME Known, NEW s \in Sources, TurnOK(s), Land(s), fd[s].linked, ~ disk[<<s, fd[s].date>>].torn,
         OneSettled(s)
  PROVE  Stream!StreamNext
  <1> DEFINE L == [g \in LogFiles |-> disk[g].lines]
             V == [t \in Sources |-> Settled(t)]
  <1>1. WriterTypes /\ DiskTypes /\ WriterOK(s) /\ Behind(s)
    BY Zenon DEF Known
  <1>2. PICK D \in Days : D = fd[s].date
    BY <1>1, WriterTypesAt, Zenon
  <1>3. /\ <<s, D>> \in LogFiles /\ \A g \in LogFiles : g # <<s, D>> => disk'[g] = disk[g]
        /\ disk'[<<s, D>>].lines = Append(disk[<<s, D>>].lines, fd[s].op)
    BY <1>1, <1>2, LandDisk, Zenon
  <1>4. fd[s].op = Settled(s) + 1 /\ V[s] = Settled(s) /\ L[<<s, D>>] = disk[<<s, D>>].lines
    BY <1>3, LandTurn, Zenon
  <1>5. [g \in LogFiles |-> disk'[g].lines] = [L EXCEPT ![<<s, D>>] = Append(L[<<s, D>>], V[s] + 1)]
    BY <1>3, <1>4, Zenon
  <1>6. ASSUME NEW e \in Days, e > D
        PROVE  L[<<s, e>>] = <<>>
    <2>1. <<s, e>> \in LogFiles /\ fd[s].open
      BY <1>1, FileNames, LandEffect, Zenon DEF WriterOK
    <2>2. L[<<s, e>>] = Lines(s, e) /\ Lines(s, e) \in Seq(Nat)
      BY <1>1, <2>1, FileTypes, Zenon DEF Lines
    <2>3. ~ (e <= D)
      <3>1. e \in Nat /\ D \in Nat
        BY DaysAreNat, Zenon
      <3> QED BY ONLY <1>6, <3>1
    <2>4. Range(Lines(s, e)) = {}
      BY <1>1, <1>2, <2>1, <2>3, Zenon DEF Behind
    <2>5. Lines(s, e) = <<>>
      BY <2>2, <2>4, EmptyRange, Zenon
    <2> QED BY <2>2, <2>5, Zenon
  <1>7. Stream!AddLine(s, D)
    BY <1>5, <1>6, OneIsSettle, Zenon DEF Stream!AddLine
  <1> QED BY <1>7, Zenon DEF Stream!StreamNext

\* What a step of the server is in the stream.
InStream == TurnInv' /\ [Stream!StreamNext]_(Stream!streamVars)

\* A step that touches neither channels nor records nor lines.
LEMMA IdleInStream ==
  ASSUME TurnInv, UNCHANGED <<queue, sent, hand, fd, disk>>
  PROVE  InStream
  <1>1. \A t \in Sources : Settled(t)' = Settled(t)
    BY Zenon DEF Settled
  <1>2. TurnInv'
    BY <1>1, Zenon DEF TurnInv, TurnOK
  <1> QED BY <1>1, <1>2, StreamStutters, Zenon DEF InStream, LinesStay

\* What a writer does to the other sources: nothing.
LEMMA WriterTurn ==
  ASSUME Known, TurnInv, NEW s \in Sources, WriterLoop(s)
  PROVE  /\ sent' = sent /\ \A t \in Sources \ {s} : Settled(t)' = Settled(t)
         /\ TurnOK(s)' => TurnInv'
  <1>1. WriterTypes /\ WriterOK(s)
    BY Zenon DEF Known
  <1>2. sent' = sent /\ \A t \in Sources \ {s} : SameAt(t)
    BY <1>1, RecvEffect, RotateEffect, OpenEffect, OpenFailsEffect, WriteEffect, LandEffect,
       LandFailsEffect, WriterExitEffect, ZenonT(40) DEF WriterLoop
  <1>3. \A t \in Sources \ {s} : TurnOK(t)' /\ Settled(t)' = Settled(t)
    BY <1>2, TurnFrame, Zenon DEF TurnInv
  <1> QED BY <1>2, <1>3, Zenon DEF TurnInv

\* The writer deals with no record and touches no line.
LEMMA WriterStutters ==
  ASSUME Known, TurnInv, NEW s \in Sources, WriterLoop(s), TurnOK(s)', Settled(s)' = Settled(s), LinesStay
  PROVE  InStream
  <1>1. sent' = sent /\ TurnInv' /\ \A t \in Sources : Settled(t)' = Settled(t)
    BY WriterTurn, Zenon
  <1> QED BY <1>1, StreamStutters, Zenon DEF InStream

\* The writer deals with the record in turn.
LEMMA WriterSettles ==
  ASSUME Known, TurnInv, NEW s \in Sources, WriterLoop(s), TurnOK(s)', Settled(s)' = Settled(s) + 1,
         Settled(s) < sent[s]
  PROVE  TurnInv' /\ OneSettled(s) /\ (LinesStay => InStream)
  <1>1. TurnInv' /\ OneSettled(s)
    BY WriterTurn, Zenon DEF OneSettled
  <1> QED BY <1>1, LostIsDrop, Zenon DEF InStream

\* Opening a file adds no line and deals with no record.
LEMMA OpenInStream ==
  ASSUME Known, TurnInv, NEW s \in Sources, OpenLogFile(s)
  PROVE  InStream
  <1>1. WriterTypes /\ DiskTypes /\ WriterLoop(s)
    BY Zenon DEF Known, WriterLoop
  <1>2. PICK f \in LogFiles :
          /\ \A g \in LogFiles : g # f => disk'[g] = disk[g]
          /\ disk'[f] = disk[f] \/ disk'[f].lines = <<>>
    <2>1. <<s, day[s]>> \in LogFiles /\ (disk[<<s, day[s]>>].exists \/ ~ disk[<<s, day[s]>>].exists)
      BY <1>1, OpenDisk, Zenon
    <2>2. /\ \A g \in LogFiles : g # <<s, day[s]>> => disk'[g] = disk[g]
          /\ disk'[<<s, day[s]>>] = disk[<<s, day[s]>>] \/ disk'[<<s, day[s]>>].lines = <<>>
      BY <1>1, OpenDisk, Zenon
    <2>3. PICK f \in LogFiles : f = <<s, day[s]>>
      BY <2>1, Zenon
    <2> QED BY <2>2, <2>3, Zenon
  <1>3. TurnOK(s)' /\ Settled(s)' = Settled(s)
    BY FileTurn, Zenon
  <1>4. CASE disk'[f] = disk[f]
    <2>1. LinesStay
      BY <1>2, <1>4, Zenon DEF LinesStay
    <2> QED BY <1>1, <1>3, <2>1, WriterStutters, Zenon
  <1>5. CASE disk'[f].lines = <<>>
    <2>1. sent' = sent /\ TurnInv' /\ \A t \in Sources : Settled(t)' = Settled(t)
      BY <1>1, <1>3, WriterTurn, Zenon
    <2> QED BY <1>2, <1>5, <2>1, ClearedIsExpire, Zenon DEF InStream
  <1> QED BY <1>2, <1>4, <1>5, Zenon

\* The end of a write.
LEMMA LandInStream ==
  ASSUME Known, TurnInv, NEW s \in Sources, Land(s) \/ LandFails(s)
  PROVE  InStream
  <1>1. WriterTypes /\ DiskTypes /\ WriterLoop(s) /\ TurnOK(s)
    BY Zenon DEF Known, WriterLoop, TurnInv
  <1>2. TurnInv' /\ OneSettled(s) /\ (LinesStay => InStream)
    BY <1>1, LandTurn, WriterSettles, Zenon
  <1>3. CASE Land(s) /\ fd[s].linked /\ ~ disk[<<s, fd[s].date>>].torn
    BY <1>1, <1>2, <1>3, LandIsAddLine, Zenon DEF InStream
  <1>4. CASE Land(s) /\ ~ (fd[s].linked /\ ~ disk[<<s, fd[s].date>>].torn)
    <2>1. LinesStay
      BY <1>1, <1>4, LandDisk, Zenon DEF LinesStay
    <2> QED BY <1>2, <2>1, Zenon
  <1>5. CASE LandFails(s)
    <2>1. LinesStay
      BY <1>1, <1>5, LandFailsDisk, Zenon DEF LinesStay
    <2> QED BY <1>2, <2>1, Zenon
  <1> QED BY <1>3, <1>4, <1>5, Zenon

\* Every step of a writer is a step of the stream, or invisible in it.
LEMMA WriterInStream ==
  ASSUME Known, TurnInv, NEW s \in Sources, WriterLoop(s)
  PROVE  InStream
  <1>1. WriterTypes /\ TurnOK(s)
    BY Zenon DEF Known, TurnInv
  <1>2. ASSUME disk' = disk
        PROVE  LinesStay
    BY <1>2, Zenon DEF LinesStay
  <1>3. CASE Recv(s)
    BY <1>1, <1>2, <1>3, RecvTurn, RecvEffect, WriterStutters, Zenon
  <1>4. CASE Rotate(s) \/ WriterExit(s)
    BY <1>1, <1>2, <1>4, FileTurn, RotateEffect, WriterExitEffect, WriterStutters, Zenon
  <1>5. CASE OpenFails(s)
    BY <1>1, <1>2, <1>5, GiveUpTurn, OpenFailsEffect, WriterSettles, Zenon
  <1>6. CASE Write(s)
    <2>1. LinesStay
      BY <1>1, <1>2, <1>6, WriteEffect, Zenon
    <2>2. CASE fd'[s] = [fd[s] EXCEPT !.err = FALSE]
      BY <1>6, <2>1, <2>2, GiveUpTurn, WriterSettles, Zenon
    <2>3. CASE lost' = lost /\ fd'[s] = [fd[s] EXCEPT !.op = hand[s]]
      BY <1>6, <2>1, <2>3, WriteTurn, WriterStutters, Zenon
    <2> QED BY <1>1, <1>6, <2>2, <2>3, WriteEffect, Zenon
  <1> QED BY <1>3, <1>4, <1>5, <1>6, OpenInStream, LandInStream, Zenon DEF WriterLoop

\* Removing an old file is its expiry.
LEMMA RemoveInStream ==
  ASSUME Known, TurnInv, RemoveLog
  PROVE  InStream
  <1>1. WriterTypes /\ DiskTypes /\ doomed \in LogFiles
    BY Zenon DEF Known, JanitorTypes, RemoveLog
  <1>2. PICK s \in Sources, d \in Days :
          /\ disk' = [disk EXCEPT ![doomed] = NoFile]
          /\ fd'[s] = [fd[s] EXCEPT !.linked = @ /\ fd[s].date # d]
          /\ UNCHANGED <<queue, sent, hand>> /\ \A t \in Sources \ {s} : SameAt(t)
    BY <1>1, RemoveEffect, Zenon
  <1>3. PICK f \in LogFiles : disk' = [disk EXCEPT ![f] = NoFile]
    BY <1>1, <1>2, Zenon
  <1>4. disk'[f].lines = <<>> /\ \A g \in LogFiles : g # f => disk'[g] = disk[g]
    BY <1>1, <1>3, NoFileFacts, DiskUpdate, Zenon
  <1>5. \A t \in Sources : fd'[t].op = fd[t].op
    <2>1. fd[s] \in FdType
      BY <1>1, WriterTypesAt, Zenon
    <2>2. fd'[s].op = fd[s].op
      BY <1>2, <2>1, Zenon DEF FdType
    <2> QED BY <1>2, <2>2, Zenon DEF SameAt
  <1>6. \A t \in Sources : Settled(t)' = Settled(t)
    BY <1>2, <1>5, Zenon DEF Settled
  <1>7. TurnInv'
    BY <1>5, <1>6, Zenon DEF TurnInv, TurnOK
  <1> QED BY <1>2, <1>4, <1>6, <1>7, ClearedIsExpire, Zenon DEF InStream

\* A restart drops what was in memory.
LEMMA CrashInStream ==
  ASSUME Known, Crash
  PROVE  InStream
  <1>1. WriterTypes /\ DiskTypes /\ sent \in [Sources -> Nat]
    BY Zenon DEF Known, WriterTypes
  <1>2. sent' = sent /\ \A t \in Sources : hand'[t] = 0 /\ fd'[t].op = 0 /\ Taken(t)' = sent[t]
    BY <1>1, CrashEffect, CrashNumbers, ClosedFacts, Zenon
  <1>3. ASSUME NEW t \in Sources
        PROVE  Settled(t)' = sent[t]
    <2>1. Settled(t)' = Dealt(sent[t], 0, 0) /\ sent[t] \in Nat
      BY <1>1, <1>2, SettledIs, Zenon
    <2> QED BY ONLY <2>1 DEF Dealt
  <1>4. [t \in Sources |-> Settled(t)'] = sent
    BY <1>1, <1>3, Zenon
  <1>5. [f \in LogFiles |-> disk'[f].lines] = [f \in LogFiles |-> disk[f].lines]
    BY <1>1, CrashDisk, Zenon
  <1>6. Stream!Restart
    BY <1>2, <1>4, <1>5, Zenon DEF Stream!Restart
  <1>7. TurnInv'
    BY <1>2, Zenon DEF TurnInv, TurnOK
  <1> QED BY <1>6, <1>7, ZenonT(40) DEF InStream, Stream!StreamNext

\* Every step of the server is a step of the stream, or invisible in it.
LEMMA StreamStep ==
  ASSUME Known, TurnInv, [Next]_vars
  PROVE  InStream
  <1>1. Serving /\ WriterTypes
    BY Zenon DEF Known
  <1>2. ASSUME NEW h \in Handlers, Call(h)
        PROVE  InStream
    <2>1. CASE Send(h)
      BY <2>1, SendIsAccept, Zenon DEF InStream
    <2>2. CASE ~ Send(h)
      <3>1. UNCHANGED <<queue, sent, hand, fd, disk>>
        BY <1>1, <1>2, <2>2, QuietCalls, StartEntryEffect, Zenon DEF Call, Quiet
      <3> QED BY <3>1, IdleInStream, Zenon
    <2> QED BY <2>1, <2>2, Zenon
  <1>3. CASE ListLogs \/ StatLog \/ JanitorError \/ ShutdownSignal \/ Shutdown \/ UNCHANGED vars
    <2>1. UNCHANGED <<queue, sent, hand, fd, disk>>
      BY <1>3, QuietJanitor, QuietShutdown, Zenon DEF Quiet, Shutdown
    <2> QED BY <2>1, IdleInStream, Zenon
  <1>4. CASE Tick
    <2>1. UNCHANGED <<queue, sent, hand, fd, disk>>
      BY <1>1, <1>4, TickEffect, Zenon
    <2> QED BY <2>1, IdleInStream, Zenon
  <1> QED BY <1>2, <1>3, <1>4, WriterInStream, RemoveInStream, CrashInStream, Zenon DEF Next, PruneLogs

\* The initial states.
LEMMA StreamStarts ==
  ASSUME Init
  PROVE  TurnInv /\ Stream!StreamInit
  <1>1. \A s \in Sources : sent[s] = 0 /\ queue[s] = <<>> /\ hand[s] = 0 /\ fd[s].op = 0
    BY ClosedFacts, Zenon DEF Init
  <1>2. ASSUME NEW s \in Sources
        PROVE  Settled(s) = 0
    BY <1>1 DEF Settled
  <1>3. [s \in Sources |-> Settled(s)] = [s \in Sources |-> 0]
    BY <1>2, Zenon
  <1>4. [f \in LogFiles |-> disk[f].lines] = [f \in Sources \X Days |-> <<>>]
    BY NoFileFacts, Zenon DEF Init, LogFiles
  <1>5. sent = [s \in Sources |-> 0]
    BY Zenon DEF Init
  <1> QED BY <1>1, <1>3, <1>4, <1>5, Zenon DEF Stream!StreamInit, TurnInv, TurnOK

\* LogIngest implements LogStream: whatever the interleaving of calls, writers, pending
\* writes, the janitor, midnight, errors and crashes, the records of a source are dealt
\* with one by one in the order they were accepted in, each by one line behind all others
\* or not at all.
THEOREM StreamRefinement == Spec => RecordsInTurn
  <1>1. Init => TurnInv /\ Stream!StreamInit
    BY StreamStarts, Zenon
  <1>2. Known /\ TurnInv /\ [Next]_vars => TurnInv' /\ [Stream!StreamNext]_(Stream!streamVars)
    BY StreamStep, Zenon DEF InStream
  <1> QED BY <1>1, <1>2, KnownInductive, PTL DEF Spec, RecordsInTurn, Stream!StreamSpec

-----------------------------------------------------------------------------
(* How many records are lost                                               *)

INSTANCE FiniteSetTheorems

\* Writers that owe the next record an error, and files that owe the next line.
Failing == {s \in Sources : fd[s].err}
Torn == {f \in LogFiles : disk[f].torn}

\* What was lost and what is owed is paid for by the errors and crashes so far.
LossOK ==
    /\ faults \in Nat /\ crashes \in Nat
    /\ IsFiniteSet(lost)
    /\ Cardinality(lost) + Cardinality(Failing) + Cardinality(Torn)
        <= 3 * faults + Cardinality(Sources) * crashes

\* A set that may grow by one element.
LEMMA OneMore ==
  ASSUME NEW S, IsFiniteSet(S), NEW x, NEW T, T \subseteq S \cup {x}
  PROVE  IsFiniteSet(T) /\ Cardinality(T) \in Nat /\ Cardinality(S) \in Nat
         /\ Cardinality(T) <= Cardinality(S) + 1
  <1>1. IsFiniteSet(S \cup {x}) /\ Cardinality(S \cup {x}) =
            IF x \in S THEN Cardinality(S) ELSE Cardinality(S) + 1
    BY FS_AddElement
  <1>2. T \in SUBSET (S \cup {x})
    BY Zenon
  <1>3. IsFiniteSet(T) /\ Cardinality(T) <= Cardinality(S \cup {x})
    BY ONLY <1>1, <1>2, FS_Subset
  <1>4. Cardinality(S) \in Nat /\ Cardinality(T) \in Nat
    BY <1>3, FS_CardinalityType, Zenon
  <1> QED BY ONLY <1>1, <1>3, <1>4

\* A set that does not grow, or loses an element.
LEMMA NoMore ==
  ASSUME NEW S, IsFiniteSet(S), NEW T, T \subseteq S
  PROVE  /\ IsFiniteSet(T) /\ Cardinality(T) \in Nat /\ Cardinality(S) \in Nat
         /\ Cardinality(T) <= Cardinality(S)
         /\ \A x \in S : x \notin T => Cardinality(T) + 1 <= Cardinality(S)
  <1>1. T \in SUBSET S
    BY Zenon
  <1>2. IsFiniteSet(T) /\ Cardinality(T) <= Cardinality(S) /\ (Cardinality(S) = Cardinality(T) => S = T)
    BY ONLY <1>1, IsFiniteSet(S), FS_Subset
  <1>3. Cardinality(S) \in Nat /\ Cardinality(T) \in Nat
    BY <1>2, FS_CardinalityType, ZenonT(40)
  <1>4. ASSUME NEW x \in S, x \notin T
        PROVE  Cardinality(T) + 1 <= Cardinality(S)
    <2>1. Cardinality(S) # Cardinality(T)
      BY <1>2, <1>4, Zenon
    <2> QED BY ONLY <1>2, <1>3, <2>1
  <1> QED BY <1>2, <1>3, <1>4, Zenon

\* There are finitely many writers and files.
LEMMA FinitelyMany ==
  /\ IsFiniteSet(Sources) /\ IsFiniteSet(LogFiles) /\ IsFiniteSet(Failing) /\ IsFiniteSet(Torn)
  /\ Cardinality(Sources) \in Nat /\ Cardinality(Failing) \in Nat /\ Cardinality(Torn) \in Nat
  <1>1. IsFiniteSet(Sources)
    BY LogIngestAssumption, Zenon
  <1>2. IsFiniteSet(Days)
    <2>1. Date(MaxNow) \in Nat
      BY Sizes, DateMonotonic
    <2>2. 0 \in Int /\ Date(MaxNow) \in Int
      BY <2>1
    <2>3. IsFiniteSet(0 .. Date(MaxNow))
      BY ONLY <2>2, FS_Interval
    <2> QED BY <2>3, Zenon DEF Days
  <1>3. IsFiniteSet(LogFiles)
    <2>1. IsFiniteSet(Sources \X Days)
      BY ONLY <1>1, <1>2, FS_Product
    <2> QED BY <2>1, Zenon DEF LogFiles
  <1>4. Failing \subseteq Sources /\ Torn \subseteq LogFiles
    BY Zenon DEF Failing, Torn
  <1>5. IsFiniteSet(Failing) /\ Cardinality(Failing) \in Nat /\ Cardinality(Sources) \in Nat
    BY <1>1, <1>4, NoMore, Zenon
  <1>6. IsFiniteSet(Torn) /\ Cardinality(Torn) \in Nat
    BY <1>3, <1>4, NoMore, Zenon
  <1> QED BY <1>1, <1>3, <1>5, <1>6, Zenon

\* The same after a step.
LEMMA StillFinite == Cardinality(Failing') \in Nat /\ Cardinality(Torn') \in Nat
  <1>1. Failing' \subseteq Sources /\ Torn' \subseteq LogFiles
    BY Zenon DEF Failing, Torn
  <1> QED BY <1>1, FinitelyMany, NoMore, Zenon

\* The accounts after a step, as sums.
LEMMA LossSum ==
  ASSUME LossOK, faults' \in Nat, crashes' \in Nat, IsFiniteSet(lost'),
         NEW l \in Int, NEW a \in Int, NEW t \in Int,
         Cardinality(lost') <= Cardinality(lost) + l,
         Cardinality(Failing') <= Cardinality(Failing) + a,
         Cardinality(Torn') <= Cardinality(Torn) + t,
         l + a + t <= 3 * (faults' - faults) + Cardinality(Sources) * (crashes' - crashes)
  PROVE  LossOK'
  <1>1. /\ Cardinality(lost) \in Nat /\ Cardinality(Failing) \in Nat /\ Cardinality(Torn) \in Nat
        /\ Cardinality(lost') \in Nat /\ Cardinality(Failing') \in Nat /\ Cardinality(Torn') \in Nat
        /\ Cardinality(Sources) \in Nat /\ faults \in Nat /\ crashes \in Nat
        /\ Cardinality(lost) + Cardinality(Failing) + Cardinality(Torn)
            <= 3 * faults + Cardinality(Sources) * crashes
    BY FinitelyMany, StillFinite, FS_CardinalityType, Zenon DEF LossOK
  <1> DEFINE N == Cardinality(Sources)
  <1>2. N * (crashes' - crashes) = N * crashes' - N * crashes /\ N * crashes \in Int /\ N * crashes' \in Int
    BY <1>1
  <1>3. Cardinality(lost') + Cardinality(Failing') + Cardinality(Torn') <= 3 * faults' + N * crashes'
    <2> HIDE DEF N
    <2>1. PICK c \in Int, d \in Int : c = N * crashes /\ d = N * crashes'
      BY <1>2, Zenon
    <2> QED BY <1>1, <1>2, <2>1 DEF N
  <1> QED BY <1>1, <1>3, Zenon DEF LossOK

\* A step that loses nothing and owes no more than before.
LEMMA NothingLost ==
  ASSUME LossOK, lost' = lost, Failing' \subseteq Failing, Torn' \subseteq Torn,
         faults' \in {faults, faults + 1}, crashes' = crashes
  PROVE  LossOK'
  <1>1. faults \in Nat /\ crashes \in Nat /\ IsFiniteSet(lost) /\ Cardinality(lost) \in Nat
    BY FS_CardinalityType, Zenon DEF LossOK
  <1>2. Cardinality(Failing') <= Cardinality(Failing) /\ Cardinality(Torn') <= Cardinality(Torn)
    BY FinitelyMany, NoMore, ZenonT(40)
  <1>3. /\ faults' \in Nat /\ crashes' \in Nat /\ 0 \in Int
        /\ Cardinality(lost) <= Cardinality(lost) + 0
        /\ Cardinality(Failing') <= Cardinality(Failing) + 0 /\ Cardinality(Torn') <= Cardinality(Torn) + 0
        /\ 0 + 0 + 0 <= 3 * (faults' - faults) + Cardinality(Sources) * (crashes' - crashes)
    BY <1>1, <1>2, FinitelyMany, StillFinite
  <1> QED BY <1>1, <1>3, LossSum, Zenon

\* A record is lost to an error of this step, or of an earlier one that was owed.
LEMMA OneLost ==
  ASSUME LossOK, NEW r, lost' = lost \cup {r}, crashes' = crashes,
         \/ /\ faults' = faults /\ Torn' \subseteq Torn
            /\ \E s \in Failing : Failing' \subseteq Failing \ {s}
         \/ /\ faults' = faults /\ Failing' \subseteq Failing
            /\ \E f \in Torn : Torn' \subseteq Torn \ {f}
         \/ /\ faults' = faults + 1
            /\ \E s, f : Failing' \subseteq Failing \cup {s} /\ Torn' \subseteq Torn \cup {f}
  PROVE  LossOK'
  <1>1. faults \in Nat /\ crashes \in Nat /\ crashes' \in Nat /\ IsFiniteSet(lost)
    BY Zenon DEF LossOK
  <1>2. IsFiniteSet(lost') /\ Cardinality(lost') <= Cardinality(lost) + 1
    BY <1>1, OneMore, Zenon
  <1>3. /\ Cardinality(Failing) \in Nat /\ Cardinality(Torn) \in Nat /\ Cardinality(Failing') \in Nat
        /\ Cardinality(Torn') \in Nat /\ Cardinality(Sources) \in Nat
        /\ IsFiniteSet(Failing) /\ IsFiniteSet(Torn)
    BY FinitelyMany, StillFinite, Zenon
  <1>4. 1 \in Int /\ 0 \in Int /\ -1 \in Int
    OBVIOUS
  <1>5. Cardinality(Sources) * (crashes' - crashes) = 0
    BY <1>1, <1>3
  <1>6. ASSUME NEW s \in Failing, Failing' \subseteq Failing \ {s}, Torn' \subseteq Torn, faults' = faults
        PROVE  LossOK'
    <2>1. Failing' \subseteq Failing /\ s \notin Failing'
      BY <1>6, Zenon
    <2>2. Cardinality(Failing') + 1 <= Cardinality(Failing) /\ Cardinality(Torn') <= Cardinality(Torn)
      BY <1>3, <1>6, <2>1, NoMore, Zenon
    <2>3. /\ faults' \in Nat /\ Cardinality(Failing') <= Cardinality(Failing) + (-1)
          /\ Cardinality(Torn') <= Cardinality(Torn) + 0
          /\ 1 + (-1) + 0 <= 3 * (faults' - faults) + Cardinality(Sources) * (crashes' - crashes)
      <3>1. faults' \in Nat /\ 3 * (faults' - faults) = 0
        BY <1>1, <1>6
      <3>2. 1 + (-1) + 0 <= 3 * (faults' - faults) + Cardinality(Sources) * (crashes' - crashes)
        BY ONLY <1>5, <3>1
      <3> QED BY ONLY <1>3, <2>2, <3>1, <3>2
    <2> QED BY <1>1, <1>2, <1>4, <2>3, LossSum, Zenon
  <1>7. ASSUME NEW f \in Torn, Torn' \subseteq Torn \ {f}, Failing' \subseteq Failing, faults' = faults
        PROVE  LossOK'
    <2>1. Torn' \subseteq Torn /\ f \notin Torn'
      BY <1>7, Zenon
    <2>2. Cardinality(Torn') + 1 <= Cardinality(Torn) /\ Cardinality(Failing') <= Cardinality(Failing)
      BY <1>3, <1>7, <2>1, NoMore, Zenon
    <2>3. /\ faults' \in Nat /\ Cardinality(Failing') <= Cardinality(Failing) + 0
          /\ Cardinality(Torn') <= Cardinality(Torn) + (-1)
          /\ 1 + 0 + (-1) <= 3 * (faults' - faults) + Cardinality(Sources) * (crashes' - crashes)
      <3>1. faults' \in Nat /\ 3 * (faults' - faults) = 0
        BY <1>1, <1>7
      <3>2. 1 + 0 + (-1) <= 3 * (faults' - faults) + Cardinality(Sources) * (crashes' - crashes)
        BY ONLY <1>5, <3>1
      <3> QED BY ONLY <1>3, <2>2, <3>1, <3>2
    <2> QED BY <1>1, <1>2, <1>4, <2>3, LossSum, Zenon
  <1>8. ASSUME NEW s, NEW f, Failing' \subseteq Failing \cup {s}, Torn' \subseteq Torn \cup {f},
               faults' = faults + 1
        PROVE  LossOK'
    <2>1. Cardinality(Failing') <= Cardinality(Failing) + 1 /\ Cardinality(Torn') <= Cardinality(Torn) + 1
      BY <1>3, <1>8, OneMore, Zenon
    <2>2. /\ faults' \in Nat
          /\ 1 + 1 + 1 <= 3 * (faults' - faults) + Cardinality(Sources) * (crashes' - crashes)
      BY ONLY <1>1, <1>3, <1>5, <1>8
    <2> QED BY <1>1, <1>2, <1>4, <2>1, <2>2, LossSum, Zenon
  <1> QED BY <1>6, <1>7, <1>8, Zenon

\* A crash may tear the line of every writer.
LEMMA CrashLoss ==
  ASSUME Known, LossOK, Crash
  PROVE  LossOK'
  <1>1. WriterTypes /\ DiskTypes /\ faults \in Nat /\ crashes \in Nat /\ IsFiniteSet(lost)
    BY Zenon DEF Known, LossOK
  <1>2. crashes' = crashes + 1 /\ faults' = faults /\ lost' = lost /\ \A s \in Sources : ~ fd'[s].err
    BY <1>1, CrashEffect, ClosedFacts, Zenon
  <1>3. Failing' \subseteq Failing
    BY <1>2, Zenon DEF Failing
  <1>4. PICK m : m = [s \in Sources |-> <<s, fd[s].date>>]
    BY Zenon
  <1>5. PICK W : W = {m[s] : s \in Sources}
    BY Zenon
  <1>6. m \in Surjection(Sources, W)
    BY <1>4, <1>5, Zenon DEF Surjection
  <1>7. IsFiniteSet(W) /\ Cardinality(W) <= Cardinality(Sources)
    BY ONLY <1>6, FinitelyMany, FS_Surjection, Zenon
  <1>8. Torn' \subseteq Torn \cup W
    BY <1>1, <1>4, <1>5, CrashDisk, Zenon DEF Torn
  <1>9. Cardinality(Torn') <= Cardinality(Torn) + Cardinality(Sources)
    <2>1. IsFiniteSet(Torn \cup W)
          /\ Cardinality(Torn \cup W) = Cardinality(Torn) + Cardinality(W) - Cardinality(Torn \cap W)
      BY <1>7, FinitelyMany, FS_Union
    <2>2. Cardinality(Torn') <= Cardinality(Torn \cup W)
      BY <1>8, <2>1, NoMore, Zenon
    <2>3. Cardinality(Torn \cap W) \in Nat /\ Cardinality(W) \in Nat
      <3>1. Torn \cap W \subseteq W
        BY Zenon
      <3> QED BY <1>7, <3>1, NoMore, Zenon
    <2>4. Cardinality(Torn) \in Nat /\ Cardinality(Sources) \in Nat /\ Cardinality(Torn') \in Nat
      BY FinitelyMany, StillFinite, Zenon
    <2> QED BY ONLY <1>7, <2>1, <2>2, <2>3, <2>4
  <1>10. PICK N \in Nat : N = Cardinality(Sources)
    BY FinitelyMany, Zenon
  <1>11. Cardinality(Failing') <= Cardinality(Failing) /\ Cardinality(lost) \in Nat
    BY <1>1, <1>3, FinitelyMany, NoMore, FS_CardinalityType, Zenon
  <1>12. /\ faults' \in Nat /\ crashes' \in Nat /\ 0 \in Int /\ N \in Int
         /\ Cardinality(lost) <= Cardinality(lost) + 0
         /\ Cardinality(Failing') <= Cardinality(Failing) + 0
         /\ 0 + 0 + N <= 3 * (faults' - faults) + N * (crashes' - crashes)
    BY <1>1, <1>2, <1>10, <1>11, FinitelyMany, StillFinite
  <1> QED BY <1>1, <1>2, <1>9, <1>10, <1>12, LossSum, Zenon

\* The steps of a writer.
LEMMA WriterLoss ==
  ASSUME Known, LossOK, NEW s \in Sources, WriterLoop(s)
  PROVE  LossOK'
  <1>1. WriterTypes /\ DiskTypes /\ WriterOK(s) /\ fd[s] \in FdType
    BY WriterTypesAt, Zenon DEF Known
  <1>2. ASSUME \A t \in Sources \ {s} : SameAt(t), fd'[s].err => fd[s].err
        PROVE  Failing' \subseteq Failing
    BY <1>2, Zenon DEF Failing, SameAt
  <1>3. ASSUME NEW f \in LogFiles, \A g \in LogFiles : g # f => disk'[g] = disk[g],
               disk'[f].torn => disk[f].torn
        PROVE  Torn' \subseteq Torn
    BY <1>3, Zenon DEF Torn
  <1>4. CASE Recv(s)
    <2>1. UNCHANGED <<fd, disk, lost, faults, crashes>>
      BY <1>1, <1>4, RecvEffect, Zenon
    <2> QED BY <2>1, NothingLost, Zenon DEF Failing, Torn
  <1>5. CASE Rotate(s) \/ WriterExit(s)
    <2>1. UNCHANGED <<disk, lost, faults, crashes>> /\ fd'[s] = ClosedFd /\ \A t \in Sources \ {s} : SameAt(t)
      BY <1>1, <1>5, RotateEffect, WriterExitEffect, Zenon
    <2>2. Failing' \subseteq Failing
      BY <1>2, <2>1, ClosedFacts, Zenon
    <2> QED BY <2>1, <2>2, NothingLost, Zenon DEF Torn
  <1>6. CASE OpenLogFile(s)
    <2>1. /\ UNCHANGED <<lost, faults, crashes>> /\ \A t \in Sources \ {s} : SameAt(t)
          /\ fd'[s] = [ClosedFd EXCEPT !.open = TRUE, !.date = day[s], !.linked = TRUE]
      BY <1>1, <1>6, OpenEffect, Zenon
    <2>2. ~ fd'[s].err
      BY <2>1, ClosedFacts, Zenon DEF FdType
    <2>3. Torn' \subseteq Torn
      BY <1>1, <1>3, <1>6, OpenDisk, Zenon
    <2> QED BY <1>2, <2>1, <2>2, <2>3, NothingLost, Zenon
  <1>7. CASE OpenFails(s)
    <2>1. lost' = lost \cup {<<s, hand[s]>>} /\ faults' = faults + 1 /\ crashes' = crashes
          /\ fd' = fd /\ disk' = disk
      BY <1>1, <1>7, OpenFailsEffect, Zenon
    <2>2. Failing' \subseteq Failing \cup {s} /\ Torn' \subseteq Torn \cup {s}
      BY <2>1, Zenon DEF Failing, Torn
    <2> QED BY <2>1, <2>2, OneLost, Zenon
  <1>8. CASE Write(s)
    <2>1. /\ wpc[s] = "write" /\ UNCHANGED <<disk, faults, crashes>> /\ \A t \in Sources \ {s} : SameAt(t)
          /\ \/ /\ fd[s].err \/ ~ fd[s].open
                /\ fd'[s] = [fd[s] EXCEPT !.err = FALSE] /\ lost' = lost \cup {<<s, hand[s]>>}
             \/ fd'[s] = [fd[s] EXCEPT !.op = hand[s]] /\ lost' = lost
      BY <1>1, <1>8, WriteEffect, Zenon
    <2>2. fd[s].open
      BY <1>1, <2>1, Zenon DEF WriterOK
    <2>3. CASE fd'[s] = [fd[s] EXCEPT !.op = hand[s]] /\ lost' = lost
      <3>1. fd'[s].err = fd[s].err
        BY <1>1, <2>3, Zenon DEF FdType
      <3>2. Torn' \subseteq Torn
        BY <2>1, Zenon DEF Torn
      <3> QED BY <1>2, <2>1, <2>3, <3>1, <3>2, NothingLost, Zenon
    <2>4. CASE fd[s].err /\ fd'[s] = [fd[s] EXCEPT !.err = FALSE] /\ lost' = lost \cup {<<s, hand[s]>>}
      <3>1. ~ fd'[s].err
        BY <1>1, <2>4, Zenon DEF FdType
      <3>2. s \in Failing /\ Failing' \subseteq Failing \ {s} /\ Torn' \subseteq Torn
        BY <2>1, <2>4, <3>1, Zenon DEF Failing, Torn, SameAt
      <3> QED BY <2>1, <2>4, <3>2, OneLost, Zenon
    <2> QED BY <2>1, <2>2, <2>3, <2>4, Zenon
  <1>9. CASE Land(s)
    <2>1. UNCHANGED <<faults, crashes>> /\ fd'[s] = [fd[s] EXCEPT !.op = 0]
          /\ \A t \in Sources \ {s} : SameAt(t)
      BY <1>1, <1>9, LandEffect, Zenon
    <2>2. Failing' \subseteq Failing
      <3>1. fd'[s].err = fd[s].err
        BY <1>1, <2>1, Zenon DEF FdType
      <3> QED BY <1>2, <2>1, <3>1, Zenon
    <2>3. PICK f \in LogFiles :
            /\ \A g \in LogFiles : g # f => disk'[g] = disk[g]
            /\ \/ UNCHANGED <<disk, lost>>
               \/ disk[f].torn /\ ~ disk'[f].torn /\ lost' = lost \cup {<<s, fd[s].op>>}
               \/ ~ disk'[f].torn /\ lost' = lost
      BY <1>1, <1>9, LandDisk, Zenon
    <2>4. CASE lost' = lost
      <3>1. Torn' \subseteq Torn
        BY <1>3, <2>3, Zenon
      <3> QED BY <2>1, <2>2, <2>4, <3>1, NothingLost, Zenon
    <2>5. CASE disk[f].torn /\ ~ disk'[f].torn /\ lost' = lost \cup {<<s, fd[s].op>>}
      <3>1. f \in Torn /\ Torn' \subseteq Torn \ {f}
        BY <2>3, <2>5, Zenon DEF Torn
      <3> QED BY <2>1, <2>2, <2>5, <3>1, OneLost, Zenon
    <2> QED BY <2>3, <2>4, <2>5, Zenon
  <1>10. CASE LandFails(s)
    <2>1. /\ lost' = lost \cup {<<s, fd[s].op>>} /\ faults' = faults + 1 /\ crashes' = crashes
          /\ \A t \in Sources \ {s} : SameAt(t)
      BY <1>1, <1>10, LandFailsEffect, Zenon
    <2>2. PICK f \in LogFiles : \A g \in LogFiles : g # f => disk'[g] = disk[g]
      BY <1>1, <1>10, LandFailsDisk, Zenon
    <2>3. Failing' \subseteq Failing \cup {s} /\ Torn' \subseteq Torn \cup {f}
      BY <2>1, <2>2, Zenon DEF Failing, Torn, SameAt
    <2> QED BY <2>1, <2>3, OneLost, Zenon
  <1> QED BY <1>4, <1>5, <1>6, <1>7, <1>8, <1>9, <1>10, Zenon DEF WriterLoop

\* Every step keeps the accounts.
LEMMA LossStep ==
  ASSUME Known, LossOK, [Next]_vars
  PROVE  LossOK'
  <1>1. Serving /\ WriterTypes /\ DiskTypes /\ JanitorTypes
    BY Zenon DEF Known
  <1>2. ASSUME UNCHANGED <<fd, disk, lost, crashes>>, faults' \in {faults, faults + 1}
        PROVE  LossOK'
    <2>1. Failing' \subseteq Failing /\ Torn' \subseteq Torn
      BY <1>2, Zenon DEF Failing, Torn
    <2> QED BY <1>2, <2>1, NothingLost, Zenon
  <1>3. ASSUME NEW h \in Handlers, Call(h)
        PROVE  LossOK'
    <2>1. UNCHANGED <<fd, disk, lost, crashes, faults>>
      BY <1>1, <1>3, QuietCalls, StartEntryEffect, SendEffect, Zenon DEF Call, Quiet
    <2> QED BY <1>2, <2>1, Zenon
  <1>4. ASSUME NEW s \in Sources, WriterLoop(s)
        PROVE  LossOK'
    BY <1>4, WriterLoss, Zenon
  <1>5. CASE RemoveLog
    <2>1. doomed \in LogFiles
      BY <1>1, <1>5, Zenon DEF RemoveLog, JanitorTypes
    <2>2. PICK s \in Sources, d \in Days :
            /\ disk' = [disk EXCEPT ![doomed] = NoFile]
            /\ fd'[s] = [fd[s] EXCEPT !.linked = @ /\ fd[s].date # d]
            /\ UNCHANGED <<faults, crashes, lost>>
            /\ \A t \in Sources \ {s} : SameAt(t)
      BY <1>1, <1>5, <2>1, RemoveEffect, Zenon
    <2>3. disk'[doomed] = NoFile /\ \A g \in LogFiles : g # doomed => disk'[g] = disk[g]
      BY <1>1, <2>1, <2>2, NoFileFacts, DiskUpdate, Zenon
    <2>4. fd'[s].err = fd[s].err
      <3>1. fd[s] \in FdType
        BY <1>1, WriterTypesAt, Zenon
      <3> QED BY <2>2, <3>1, Zenon DEF FdType
    <2>5. Failing' \subseteq Failing /\ Torn' \subseteq Torn
      BY <2>2, <2>3, <2>4, NoFileFacts, Zenon DEF Failing, Torn, SameAt
    <2> QED BY <2>2, <2>5, NothingLost, Zenon
  <1>6. CASE ListLogs \/ StatLog \/ JanitorError \/ ShutdownSignal \/ Shutdown \/ UNCHANGED vars
    <2>1. UNCHANGED <<fd, disk, lost, crashes>>
      BY <1>6, QuietJanitor, QuietShutdown, Zenon DEF Quiet, Shutdown
    <2>2. faults' \in {faults, faults + 1}
      BY <1>6, QuietShutdown, Zenon DEF ListLogs, StatLog, JanitorError, Shutdown, vars, boundVars
    <2> QED BY <1>2, <2>1, <2>2, Zenon
  <1>7. CASE Crash
    BY <1>7, CrashLoss, Zenon
  <1>8. CASE Tick
    <2>1. UNCHANGED <<fd, disk, lost, crashes, faults>>
      BY <1>1, <1>8, TickEffect, Zenon
    <2> QED BY <1>2, <2>1, Zenon
  <1> QED BY <1>3, <1>4, <1>5, <1>6, <1>7, <1>8, Zenon DEF Next, PruneLogs

\* In the beginning nothing is lost and nothing is owed.
LEMMA LossInit ==
  ASSUME Init
  PROVE  LossOK
  <1>1. lost = {} /\ faults = 0 /\ crashes = 0
    BY Zenon DEF Init
  <1>2. Failing = {} /\ Torn = {}
    BY ClosedFacts, NoFileFacts, Zenon DEF Init, Failing, Torn
  <1>3. IsFiniteSet({}) /\ Cardinality({}) = 0
    BY FS_EmptySet, Zenon
  <1>4. 0 + 0 + 0 <= 3 * 0 + Cardinality(Sources) * 0 /\ 0 \in Nat
    BY FinitelyMany
  <1> QED BY <1>1, <1>2, <1>3, <1>4, Zenon DEF LossOK

\* A disk error costs at most three records of a source and a crash at most one of each
\* source beyond those in memory, whatever the order of errors, rotations, crashes and
\* removals: an error is reported once, to the next write, and a torn line swallows the
\* next record only.
THEOREM LossSafety == Spec => []LossBounded
  <1>1. Init => LossOK
    BY LossInit, Zenon
  <1>2. Known /\ LossOK /\ [Next]_vars => LossOK'
    BY LossStep, Zenon
  <1>3. ASSUME LossOK
        PROVE  LossBounded
    <2>1. /\ Cardinality(lost) \in Nat /\ faults \in Nat /\ crashes \in Nat
          /\ Cardinality(lost) + Cardinality(Failing) + Cardinality(Torn)
              <= 3 * faults + Cardinality(Sources) * crashes
      BY <1>3, FS_CardinalityType, Zenon DEF LossOK
    <2> QED BY <2>1, FinitelyMany DEF LossBounded
  <1>4. LossOK => LossBounded
    BY <1>3, Zenon
  <1> QED BY <1>1, <1>2, <1>4, KnownInductive, PTL DEF Spec
=============================================================================
