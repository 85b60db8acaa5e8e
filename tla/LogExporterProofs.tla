------------------------- MODULE LogExporterProofs --------------------------
(* Proofs about LogExporter, for any number of processes and records and   *)
(* any sizes and bounds: the memory of the processes - channels, batches   *)
(* and jobs - and Layer::flush; the spool and what the server has, for any *)
(* number of processes on one queue directory; and the spooled batches of  *)
(* a process that has the directory to itself.                             *)
EXTENDS LogExporter, FiniteSetTheorems, WellFoundedInduction, TLAPS

Phases == {"lock", "drain", "replay", "unlink", "idle", "export", "create", "fill", "stopped"}
Draining == {"drain", "replay", "unlink"}
Exporting == {"export", "create", "fill"}

-----------------------------------------------------------------------------
(* Memory: channels, batches and jobs                                      *)

MemoryTypes ==
    /\ chan \in [Procs -> Seq(Nat)]
    /\ batch \in [Procs -> SUBSET Recs]
    /\ job \in [Procs -> [recs: SUBSET Recs, reply: BOOLEAN, last: BOOLEAN]]
    /\ wpc \in [Procs -> Phases]
    /\ emitted \in [Procs -> 0 .. MaxEvents]

\* What a process holds: a batch only between exports, a job only during one,
\* records of its own that were sampled, each of them in one place.
MemoryOK(p) ==
    /\ wpc[p] # "idle" => batch[p] = {}
    /\ wpc[p] \in Exporting => job[p].recs # {}
    /\ wpc[p] \notin Exporting => job[p] = NoJob
    /\ Len(chan[p]) <= Capacity
    /\ Cardinality(batch[p]) < BatchSize
    /\ \A r \in batch[p] \cup job[p].recs : r[1] = p /\ r[2] <= emitted[p] /\ ShouldSample(r[2])
    /\ \A i \in DOMAIN chan[p] :
        /\ chan[p][i] <= emitted[p]
        /\ <<p, chan[p][i]>> \notin batch[p] \cup job[p].recs
        /\ \A j \in DOMAIN chan[p] : chan[p][i] = chan[p][j] => i = j \/ chan[p][i] = 0

MInv == MemoryTypes /\ \A p \in Procs : MemoryOK(p)

-----------------------------------------------------------------------------
\* What the proofs need of the constants.
LEMMA Sizes ==
  /\ None \notin Procs
  /\ Capacity \in Nat /\ Capacity > 0 /\ BatchSize \in Nat /\ BatchSize > 0
  /\ MaxEvents \in Nat
BY LogExporterAssumption

\* Recs, a product, seen through its members.
LEMMA RecFacts ==
  ASSUME NEW r \in Recs
  PROVE  r = <<r[1], r[2]>> /\ r[1] \in Procs /\ r[2] \in Nat /\ r[2] \in 1 .. MaxEvents
  <1>1. PICK p \in Procs, n \in 1 .. MaxEvents : r = <<p, n>>
    BY DEF Recs
  <1> QED BY <1>1, Sizes

\* A number in range makes a record.
LEMMA RecOf ==
  ASSUME NEW p \in Procs, NEW n \in 1 .. MaxEvents
  PROVE  <<p, n>> \in Recs
BY Zenon DEF Recs

\* The name of a spool file is one of the records in it.
LEMMA FileOfIsMember ==
  ASSUME NEW recs \in SUBSET Recs, recs # {}
  PROVE  FileOf(recs) \in recs
  <1> DEFINE R == {ij \in Nat \X Nat : ij[1] < ij[2]}
             B == {r[2] : r \in recs}
  <1>1. IsWellFoundedOn(R, Nat)
    BY NatLessThanWellFounded, Zenon DEF OpToRel
  <1>2. B \subseteq Nat /\ B # {}
    BY RecFacts, Zenon
  <1>3. PICK m \in B : \A y \in B : ~ (<<y, m>> \in R)
    <2> HIDE DEF R, B
    <2> QED BY <1>1, <1>2, WFMin, Zenon
  <1>4. ASSUME NEW y \in B PROVE m <= y
    <2>1. y \in Nat /\ m \in Nat /\ ~ (<<y, m>> \in R)
      BY <1>2, <1>3, Zenon
    <2> QED BY <2>1
  <1>5. PICK f \in recs : f[2] = m
    BY <1>3, Zenon
  <1>6. \A r \in recs : f[2] <= r[2]
    BY <1>4, <1>5, Zenon
  <1> QED
    BY <1>5, <1>6, Zenon DEF FileOf

\* A prefix of a batch is part of it.
LEMMA PrefixIsPart ==
  ASSUME NEW recs, NEW part \in Prefixes(recs)
  PROVE  part \subseteq recs
BY Zenon DEF Prefixes

\* Receiving takes the first message from the channel.
LEMMA TailFacts ==
  ASSUME NEW s \in Seq(Nat), s # <<>>
  PROVE  /\ Tail(s) \in Seq(Nat) /\ Len(Tail(s)) <= Len(s)
         /\ 1 \in DOMAIN s /\ Head(s) = s[1]
         /\ \A i \in DOMAIN Tail(s) : i \in Nat /\ i > 0 /\ i + 1 \in DOMAIN s /\ Tail(s)[i] = s[i + 1]
         /\ \A i \in DOMAIN s : i \in Nat /\ (i > 1 => i - 1 \in DOMAIN Tail(s))
OBVIOUS

\* Sending puts one message at its end.
LEMMA AppendFacts ==
  ASSUME NEW s \in Seq(Nat), NEW n \in Nat
  PROVE  /\ Append(s, n) \in Seq(Nat) /\ Len(Append(s, n)) = Len(s) + 1 /\ Len(s) \in Nat
         /\ \A i \in DOMAIN Append(s, n) :
              \/ i \in DOMAIN s /\ Append(s, n)[i] = s[i]
              \/ i \notin DOMAIN s /\ i = Len(s) + 1 /\ Append(s, n)[i] = n
         /\ \A i \in DOMAIN s : i \in DOMAIN Append(s, n) /\ i < Len(s) + 1 /\ i \in Nat
         /\ Len(s) + 1 \in DOMAIN Append(s, n)
OBVIOUS

\* What is queued, in terms of the channel.
LEMMA QueuedFacts ==
  ASSUME MInv, NEW p \in Procs
  PROVE  /\ Queued(p) \subseteq Recs
         /\ \A r \in Queued(p) : r[1] = p /\ r[2] <= emitted[p]
         /\ \A r \in InMemory(p) : r \in Recs /\ r[1] = p /\ r[2] <= emitted[p]
         /\ Queued(p) \cap (batch[p] \cup job[p].recs) = {}
         /\ batch[p] \cap job[p].recs = {}
  <1>1. \A r \in Queued(p) : \E i \in DOMAIN chan[p] : chan[p][i] # 0 /\ r = <<p, chan[p][i]>>
    BY Zenon DEF Queued
  <1>2. \A i \in DOMAIN chan[p] : chan[p][i] \in Nat /\ chan[p][i] <= MaxEvents /\ chan[p][i] <= emitted[p]
    <2>1. chan[p] \in Seq(Nat) /\ emitted[p] \in 0 .. MaxEvents
      BY Zenon DEF MInv, MemoryTypes
    <2>2. \A i \in DOMAIN chan[p] : chan[p][i] \in Nat
      BY <2>1
    <2>3. \A i \in DOMAIN chan[p] : chan[p][i] <= emitted[p]
      BY Zenon DEF MInv, MemoryOK
    <2> QED BY <2>1, <2>2, <2>3, Sizes
  <1>3. \A r \in Queued(p) : r \in Recs /\ r[1] = p /\ r[2] <= emitted[p]
    BY <1>1, <1>2, RecOf, Sizes
  <1>4. Queued(p) \cap (batch[p] \cup job[p].recs) = {}
    <2>1. \A i \in DOMAIN chan[p] : <<p, chan[p][i]>> \notin batch[p] \cup job[p].recs
      BY Zenon DEF MInv, MemoryOK
    <2> QED BY <1>1, <2>1, Zenon
  <1>5. batch[p] \cap job[p].recs = {}
    BY DEF MInv, MemoryOK, NoJob, Exporting
  <1>6. \A r \in batch[p] \cup job[p].recs : r \in Recs /\ r[1] = p /\ r[2] <= emitted[p]
    BY Zenon DEF MInv, MemoryTypes, MemoryOK
  <1> QED BY <1>3, <1>4, <1>5, <1>6, Zenon DEF InMemory

-----------------------------------------------------------------------------
(* Memory is kept in order by every step                                   *)

\* A step of one process leaves the memory of the others alone.
LEMMA MemoryStep ==
  ASSUME MInv, NEW p \in Procs, MemoryTypes', MemoryOK(p)',
         \A q \in Procs \ {p} : /\ chan'[q] = chan[q] /\ batch'[q] = batch[q] /\ job'[q] = job[q]
                                /\ wpc'[q] = wpc[q] /\ emitted'[q] = emitted[q]
  PROVE  MInv' /\ \A q \in Procs \ {p} : InMemory(q)' = InMemory(q)
  <1>1. ASSUME NEW q \in Procs \ {p} PROVE MemoryOK(q)' /\ InMemory(q)' = InMemory(q)
    <2>1. /\ chan'[q] = chan[q] /\ batch'[q] = batch[q] /\ job'[q] = job[q]
          /\ wpc'[q] = wpc[q] /\ emitted'[q] = emitted[q]
      OBVIOUS
    <2>2. MemoryOK(q)
      BY Zenon DEF MInv
    <2>3. MemoryOK(q)'
      BY <2>1, <2>2 DEF MemoryOK
    <2>4. InMemory(q)' = InMemory(q)
      BY <2>1 DEF InMemory, Queued
    <2> QED BY <2>3, <2>4, Zenon
  <1>2. \A q \in Procs : MemoryOK(q)'
    BY <1>1, Zenon
  <1> QED BY <1>1, <1>2, Zenon DEF MInv

\* Only the worker's place changes.
LEMMA PhaseStep ==
  ASSUME MInv, NEW p \in Procs, NEW w \in Phases, UNCHANGED <<chan, batch, job, emitted>>,
         wpc' = [wpc EXCEPT ![p] = w], batch[p] = {}, w \in Exporting <=> wpc[p] \in Exporting
  PROVE  MInv' /\ \A q \in Procs : InMemory(q)' = InMemory(q)
  <1>1. MemoryTypes'
    BY Zenon DEF MInv, MemoryTypes
  <1>2. wpc'[p] = w
    BY Zenon DEF MInv, MemoryTypes
  <1>3. MemoryOK(p)'
    BY <1>2, ZenonT(30) DEF MInv, MemoryOK
  <1>4. \A q \in Procs \ {p} : wpc'[q] = wpc[q]
    BY Zenon DEF MInv, MemoryTypes
  <1>5. \A q \in Procs : InMemory(q)' = InMemory(q)
    BY Zenon DEF InMemory, Queued
  <1> QED BY <1>1, <1>3, <1>4, <1>5, MemoryStep, Zenon

\* A batch becomes a job.
LEMMA ExportStep ==
  ASSUME MInv, NEW p \in Procs, wpc[p] = "idle", emitted' = emitted,
         NEW s \in Seq(Nat), chan' = [chan EXCEPT ![p] = s],
         NEW recs \in SUBSET Recs, recs # {}, NEW reply \in BOOLEAN, NEW last \in BOOLEAN,
         Export(p, recs, reply, last), recs \subseteq Queued(p) \cup batch[p],
         Queued(p)' \subseteq Queued(p),
         \A r \in recs : r[1] = p /\ r[2] <= emitted[p] /\ ShouldSample(r[2]),
         Len(s) <= Capacity,
         \A i \in DOMAIN s : /\ s[i] <= emitted[p] /\ <<p, s[i]>> \notin recs
                             /\ \A j \in DOMAIN s : s[i] = s[j] => i = j \/ s[i] = 0
  PROVE  MInv' /\ \A q \in Procs : InMemory(q)' \subseteq InMemory(q)
  <1>1. MemoryTypes'
    BY Zenon DEF MInv, MemoryTypes, Export, Phases
  <1>2. chan'[p] = s /\ batch'[p] = {} /\ wpc'[p] = "export" /\ job'[p].recs = recs
    BY Zenon DEF MInv, MemoryTypes, Export
  <1>3. Cardinality({}) = 0
    BY FS_EmptySet, Zenon
  <1>4. MemoryOK(p)'
    BY <1>2, <1>3, Sizes DEF MemoryOK, Exporting
  <1>5. \A q \in Procs \ {p} : /\ chan'[q] = chan[q] /\ batch'[q] = batch[q] /\ job'[q] = job[q]
                               /\ wpc'[q] = wpc[q] /\ emitted'[q] = emitted[q]
    BY Zenon DEF MInv, MemoryTypes, Export
  <1>6. InMemory(p)' \subseteq InMemory(p)
    BY <1>2, Zenon DEF InMemory
  <1> QED BY <1>1, <1>4, <1>5, <1>6, MemoryStep, Zenon

\* A job ends, and its records leave memory.
LEMMA EndJobStep ==
  ASSUME MInv, NEW p \in Procs, wpc[p] \in Exporting, NEW result, EndJob(p, result),
         UNCHANGED <<chan, batch, emitted>>
  PROVE  /\ MInv' /\ \A q \in Procs \ {p} : InMemory(q)' = InMemory(q)
         /\ InMemory(p)' = InMemory(p) \ job[p].recs
  <1>1. MemoryTypes'
    BY Zenon DEF MInv, MemoryTypes, EndJob, NoJob, Phases
  <1>2. job'[p] = NoJob /\ wpc'[p] \in {"stopped", "idle"} /\ batch[p] = {}
    BY ZenonT(30) DEF MInv, MemoryTypes, MemoryOK, EndJob, Exporting
  <1>3. MemoryOK(p)'
    <2>1. MemoryOK(p)
      BY Zenon DEF MInv
    <2>2. job'[p].recs = {} /\ batch' = batch /\ chan' = chan /\ emitted' = emitted
      BY <1>2 DEF NoJob
    <2> QED BY <1>2, <2>1, <2>2, Zenon DEF MemoryOK, Exporting
  <1>4. \A q \in Procs \ {p} : job'[q] = job[q] /\ wpc'[q] = wpc[q]
    BY Zenon DEF MInv, MemoryTypes, EndJob
  <1>5. InMemory(p)' = InMemory(p) \ job[p].recs
    BY <1>2, QueuedFacts DEF InMemory, Queued, NoJob
  <1> QED BY <1>1, <1>3, <1>4, <1>5, MemoryStep, Zenon

\* An event takes the next number, and is queued or dropped.
LEMMA OnEventMemory ==
  ASSUME MInv, NEW p \in Procs, OnEvent(p)
  PROVE  /\ MInv' /\ \A q \in Procs \ {p} : InMemory(q)' = InMemory(q)
         /\ InMemory(p)' \subseteq InMemory(p) \cup {<<p, emitted[p] + 1>>}
         /\ emitted[p] + 1 \in 1 .. MaxEvents /\ emitted'[p] = emitted[p] + 1
         /\ \A q \in Procs \ {p} : emitted'[q] = emitted[q]
  <1> DEFINE n == emitted[p] + 1
  <1>1. /\ emitted' \in [Procs -> 0 .. MaxEvents] /\ emitted'[p] = n /\ n \in 1 .. MaxEvents
        /\ emitted[p] \in Nat /\ \A q \in Procs \ {p} : emitted'[q] = emitted[q]
    BY Sizes DEF MInv, MemoryTypes, OnEvent
  <1>2. UNCHANGED <<batch, job, wpc>>
    BY Zenon DEF OnEvent, workerVars
  <1>3. chan[p] \in Seq(Nat) /\ MemoryOK(p)
    BY Zenon DEF MInv, MemoryTypes
  <1> HIDE DEF n
  <1>4. \A i \in DOMAIN chan[p] : chan[p][i] \in Nat /\ chan[p][i] < n
    <2>1. \A i \in DOMAIN chan[p] : chan[p][i] \in Nat
      BY <1>3
    <2>2. \A i \in DOMAIN chan[p] : chan[p][i] <= emitted[p]
      BY <1>3, Zenon DEF MemoryOK
    <2> QED BY <1>1, <2>1, <2>2 DEF n
  <1>5. \A r \in batch[p] \cup job[p].recs : r \in Recs /\ r[1] = p /\ r[2] < n /\ ShouldSample(r[2])
    <2>1. batch[p] \cup job[p].recs \subseteq Recs
      BY Zenon DEF MInv, MemoryTypes
    <2> QED BY <1>1, <1>3, <2>1, RecFacts DEF MemoryOK, n
  <1>6. CASE Len(chan[p]) < Capacity /\ chan' = [chan EXCEPT ![p] = Append(@, emitted'[p])]
    <2> DEFINE s == Append(chan[p], n)
    <2>1. s \in Seq(Nat) /\ chan' = [chan EXCEPT ![p] = s]
      BY <1>1, <1>3, <1>6, AppendFacts
    <2>2. chan' \in [Procs -> Seq(Nat)] /\ chan'[p] = s /\ \A q \in Procs \ {p} : chan'[q] = chan[q]
      BY <2>1, Zenon DEF MInv, MemoryTypes
    <2>3. MemoryTypes'
      BY <1>1, <1>2, <2>2, Zenon DEF MInv, MemoryTypes
    <2>4. /\ Len(s) <= Capacity
          /\ \A i \in DOMAIN s : \/ i \in DOMAIN chan[p] /\ s[i] = chan[p][i]
                                 \/ i \notin DOMAIN chan[p] /\ i = Len(chan[p]) + 1 /\ s[i] = n
      <3>1. n \in Nat
        BY <1>1, Sizes
      <3>2. Len(s) = Len(chan[p]) + 1 /\ Len(chan[p]) \in Nat
        BY <1>3, <3>1, AppendFacts, Zenon
      <3>3. \A i \in DOMAIN s : \/ i \in DOMAIN chan[p] /\ s[i] = chan[p][i]
                                \/ i \notin DOMAIN chan[p] /\ i = Len(chan[p]) + 1 /\ s[i] = n
        BY <1>3, <3>1, AppendFacts, Zenon
      <3> QED BY <1>6, <3>2, <3>3, Sizes
    <2> HIDE DEF s
    <2>5. \A i \in DOMAIN s : s[i] <= n /\ \A j \in DOMAIN s : s[i] = s[j] => i = j \/ s[i] = 0
      <3>1. \A i, j \in DOMAIN chan[p] : chan[p][i] = chan[p][j] => i = j \/ chan[p][i] = 0
        BY <1>3, Zenon DEF MemoryOK
      <3>2. \A i \in DOMAIN s : s[i] <= n
        BY <1>1, <1>4, <2>4
      <3>3. ASSUME NEW i \in DOMAIN s, NEW j \in DOMAIN s, s[i] = s[j] PROVE i = j \/ s[i] = 0
        BY <1>1, <1>4, <2>4, <3>1, <3>3
      <3> QED BY <3>2, <3>3, Zenon
    <2>6. \A i \in DOMAIN s : <<p, s[i]>> \notin batch[p] \cup job[p].recs
      <3>1. <<p, n>> \notin batch[p] \cup job[p].recs
        BY <1>1, <1>5
      <3>2. \A i \in DOMAIN chan[p] : <<p, chan[p][i]>> \notin batch[p] \cup job[p].recs
        BY <1>3, Zenon DEF MemoryOK
      <3> QED BY <2>4, <3>1, <3>2, Zenon
    <2>7. \A r \in batch[p] \cup job[p].recs : r[1] = p /\ r[2] <= n /\ ShouldSample(r[2])
      BY <1>1, <1>5, RecFacts
    <2>8. MemoryOK(p)'
      BY <1>1, <1>2, <1>3, <2>2, <2>4, <2>5, <2>6, <2>7, Zenon DEF MemoryOK
    <2>9. InMemory(p)' \subseteq InMemory(p) \cup {<<p, n>>}
      BY <1>2, <2>2, <2>4, Zenon DEF InMemory, Queued
    <2> QED BY <1>1, <1>2, <2>2, <2>3, <2>8, <2>9, MemoryStep, Zenon DEF n
  <1>7. CASE Len(chan[p]) >= Capacity /\ UNCHANGED chan
    <2>1. MemoryTypes'
      BY <1>1, <1>2, <1>7, Zenon DEF MInv, MemoryTypes
    <2>2. MemoryOK(p)'
      <3>1. \A i \in DOMAIN chan[p] : chan[p][i] <= n
        BY <1>1, <1>4
      <3>2. \A r \in batch[p] \cup job[p].recs : r[1] = p /\ r[2] <= n /\ ShouldSample(r[2])
        BY <1>1, <1>5, RecFacts
      <3> QED BY <1>1, <1>2, <1>3, <1>7, <3>1, <3>2, Zenon DEF MemoryOK
    <2>3. InMemory(p)' = InMemory(p)
      BY <1>2, <1>7, Zenon DEF InMemory, Queued
    <2> QED BY <1>1, <1>2, <1>7, <2>1, <2>2, <2>3, MemoryStep, Zenon DEF n
  <1> QED BY <1>6, <1>7, Zenon DEF OnEvent

\* The message of a flush is no record.
LEMMA FlushMemory ==
  ASSUME MInv, NEW p \in Procs, Flush(p)
  PROVE  MInv' /\ \A q \in Procs : InMemory(q)' = InMemory(q)
  <1> DEFINE s == Append(chan[p], 0)
  <1>1. UNCHANGED <<batch, job, wpc, emitted>> /\ chan' = [chan EXCEPT ![p] = s]
    BY Zenon DEF Flush, workerVars
  <1>2. chan[p] \in Seq(Nat) /\ MemoryOK(p) /\ emitted[p] \in Nat /\ Len(chan[p]) < Capacity
    BY Sizes DEF MInv, MemoryTypes, Flush
  <1>3. /\ s \in Seq(Nat) /\ Len(s) <= Capacity
        /\ \A i \in DOMAIN s : \/ i \in DOMAIN chan[p] /\ s[i] = chan[p][i]
                               \/ i \notin DOMAIN chan[p] /\ i = Len(chan[p]) + 1 /\ s[i] = 0
        /\ \A i \in DOMAIN chan[p] : i \in DOMAIN s
    <2>1. s \in Seq(Nat) /\ Len(s) = Len(chan[p]) + 1 /\ Len(chan[p]) \in Nat
      BY <1>2, AppendFacts, Zenon
    <2>2. /\ \A i \in DOMAIN s : \/ i \in DOMAIN chan[p] /\ s[i] = chan[p][i]
                                 \/ i \notin DOMAIN chan[p] /\ i = Len(chan[p]) + 1 /\ s[i] = 0
          /\ \A i \in DOMAIN chan[p] : i \in DOMAIN s
      BY <1>2, AppendFacts, 0 \in Nat, Zenon
    <2> QED BY <1>2, <2>1, <2>2, Sizes
  <1> HIDE DEF s
  <1>4. chan' \in [Procs -> Seq(Nat)] /\ chan'[p] = s /\ \A q \in Procs \ {p} : chan'[q] = chan[q]
    BY <1>1, <1>3, Zenon DEF MInv, MemoryTypes
  <1>5. MemoryTypes'
    BY <1>1, <1>4, Zenon DEF MInv, MemoryTypes
  <1>6. batch[p] \cup job[p].recs \subseteq Recs
    BY Zenon DEF MInv, MemoryTypes
  <1>7. \A i \in DOMAIN s : <<p, s[i]>> \notin batch[p] \cup job[p].recs
    <2>1. <<p, 0>> \notin Recs
      BY DEF Recs
    <2> QED BY <1>2, <1>3, <1>6, <2>1, Zenon DEF MemoryOK
  <1>8. \A i \in DOMAIN s : s[i] <= emitted[p] /\ \A j \in DOMAIN s : s[i] = s[j] => i = j \/ s[i] = 0
    <2>1. \A i, j \in DOMAIN chan[p] : chan[p][i] = chan[p][j] => i = j \/ chan[p][i] = 0
      BY <1>2, Zenon DEF MemoryOK
    <2>2. \A i \in DOMAIN s : s[i] <= emitted[p]
      <3>1. \A i \in DOMAIN chan[p] : chan[p][i] <= emitted[p]
        BY <1>2, ZenonT(30) DEF MemoryOK
      <3> QED BY <1>2, <1>3, <3>1
    <2>3. ASSUME NEW i \in DOMAIN s, NEW j \in DOMAIN s, s[i] = s[j] PROVE i = j \/ s[i] = 0
      BY <1>3, <2>1, <2>3, Zenon
    <2> QED BY <2>2, <2>3, Zenon
  <1>9. MemoryOK(p)'
    BY <1>1, <1>2, <1>3, <1>4, <1>7, <1>8, Zenon DEF MemoryOK
  <1>10. InMemory(p)' = InMemory(p)
    BY <1>1, <1>3, <1>4 DEF InMemory, Queued
  <1> QED BY <1>1, <1>4, <1>5, <1>9, <1>10, MemoryStep, Zenon

\* What the worker takes from the channel.
LEMMA ReceiveFacts ==
  ASSUME MInv, NEW p \in Procs, chan[p] # <<>>
  PROVE  /\ Tail(chan[p]) \in Seq(Nat) /\ Len(Tail(chan[p])) <= Capacity
         /\ Head(chan[p]) \in 0 .. emitted[p] /\ 1 \in DOMAIN chan[p] /\ Head(chan[p]) = chan[p][1]
         /\ <<p, Head(chan[p])>> \notin batch[p] \cup job[p].recs
         /\ \A i \in DOMAIN Tail(chan[p]) :
              /\ i \in Nat /\ i > 0 /\ i + 1 \in DOMAIN chan[p] /\ Tail(chan[p])[i] = chan[p][i + 1]
              /\ Tail(chan[p])[i] <= emitted[p]
              /\ <<p, Tail(chan[p])[i]>> \notin batch[p] \cup job[p].recs
              /\ Tail(chan[p])[i] = Head(chan[p]) => Head(chan[p]) = 0
              /\ \A j \in DOMAIN Tail(chan[p]) :
                    Tail(chan[p])[i] = Tail(chan[p])[j] => i = j \/ Tail(chan[p])[i] = 0
  <1> DEFINE s == chan[p]
             t == Tail(chan[p])
  <1>1. s \in Seq(Nat) /\ MemoryOK(p) /\ emitted[p] \in Nat
    BY Sizes DEF MInv, MemoryTypes
  <1>2. /\ t \in Seq(Nat) /\ Len(t) <= Len(s)
        /\ 1 \in DOMAIN s /\ Head(s) = s[1]
        /\ \A i \in DOMAIN t : i \in Nat /\ i > 0 /\ i + 1 \in DOMAIN s /\ t[i] = s[i + 1]
    BY <1>1, TailFacts, Zenon
  <1>3. Len(t) <= Capacity
    <2>1. Len(s) <= Capacity /\ Len(s) \in Nat /\ Len(t) \in Nat
      BY <1>1, <1>2 DEF MemoryOK
    <2> QED BY <1>2, <2>1, Sizes
  <1>4. /\ \A i \in DOMAIN s : s[i] <= emitted[p] /\ <<p, s[i]>> \notin batch[p] \cup job[p].recs
        /\ \A i, j \in DOMAIN s : s[i] = s[j] => i = j \/ s[i] = 0
    BY <1>1, Zenon DEF MemoryOK
  <1>5. s[1] \in Nat
    BY <1>1, <1>2
  <1> HIDE DEF s, t
  <1>6. Head(s) \in 0 .. emitted[p] /\ <<p, Head(s)>> \notin batch[p] \cup job[p].recs
    BY <1>1, <1>2, <1>4, <1>5
  <1>7. ASSUME NEW i \in DOMAIN t
        PROVE  /\ i \in Nat /\ i > 0 /\ i + 1 \in DOMAIN s /\ t[i] = s[i + 1]
               /\ t[i] <= emitted[p] /\ <<p, t[i]>> \notin batch[p] \cup job[p].recs
               /\ t[i] = Head(s) => Head(s) = 0
               /\ \A j \in DOMAIN t : t[i] = t[j] => i = j \/ t[i] = 0
    <2>1. i \in Nat /\ i > 0 /\ i + 1 \in DOMAIN s /\ t[i] = s[i + 1]
      BY <1>2, Zenon
    <2>2. t[i] <= emitted[p] /\ <<p, t[i]>> \notin batch[p] \cup job[p].recs
      BY <1>4, <2>1, Zenon
    <2>3. t[i] = Head(s) => Head(s) = 0
      <3>1. i + 1 # 1
        BY <2>1
      <3> QED BY <1>2, <1>4, <2>1, <3>1, Zenon
    <2>4. ASSUME NEW j \in DOMAIN t, t[i] = t[j] PROVE i = j \/ t[i] = 0
      <3>1. j \in Nat /\ j + 1 \in DOMAIN s /\ t[j] = s[j + 1]
        BY <1>2, Zenon
      <3>2. i + 1 = j + 1 \/ s[i + 1] = 0
        BY <1>4, <2>1, <2>4, <3>1, Zenon
      <3> QED BY <2>1, <3>1, <3>2
    <2> QED BY <2>1, <2>2, <2>3, <2>4, Zenon
  <1> QED BY <1>2, <1>3, <1>6, <1>7, Zenon DEF s, t

\* What is left in the channel was there before.
LEMMA TailQueued ==
  ASSUME MInv, NEW p \in Procs, chan[p] # <<>>, chan'[p] = Tail(chan[p])
  PROVE  /\ Queued(p)' \subseteq Queued(p)
         /\ Head(chan[p]) # 0 => <<p, Head(chan[p])>> \in Queued(p)
  <1>1. \A i \in DOMAIN chan'[p] : i + 1 \in DOMAIN chan[p] /\ chan'[p][i] = chan[p][i + 1]
    BY ReceiveFacts, Zenon
  <1>2. 1 \in DOMAIN chan[p] /\ Head(chan[p]) = chan[p][1]
    BY ReceiveFacts, Zenon
  <1> QED BY <1>1, <1>2, Zenon DEF Queued

\* A received record moves from the channel to the batch or the job, or is not sampled.
LEMMA RecvRecordMemory ==
  ASSUME MInv, NEW p \in Procs, RecvRecord(p)
  PROVE  MInv' /\ \A q \in Procs : InMemory(q)' \subseteq InMemory(q)
  <1> DEFINE s == Tail(chan[p])
             n == Head(chan[p])
             b == batch[p] \cup (IF ShouldSample(n) THEN {<<p, n>>} ELSE {})
  <1>1. wpc[p] = "idle" /\ chan[p] # <<>> /\ n # 0 /\ chan' = [chan EXCEPT ![p] = s] /\ emitted' = emitted
    BY Zenon DEF RecvRecord
  <1>2. /\ s \in Seq(Nat) /\ Len(s) <= Capacity /\ n \in 0 .. emitted[p]
        /\ \A i \in DOMAIN s :
              /\ s[i] <= emitted[p] /\ s[i] # n
              /\ <<p, s[i]>> \notin batch[p] \cup job[p].recs
              /\ \A j \in DOMAIN s : s[i] = s[j] => i = j \/ s[i] = 0
    BY <1>1, ReceiveFacts, Zenon
  <1>3. /\ chan' \in [Procs -> Seq(Nat)] /\ chan'[p] = s
        /\ \A q \in Procs \ {p} : chan'[q] = chan[q]
    BY <1>1, <1>2, Zenon DEF MInv, MemoryTypes
  <1>4. /\ emitted[p] \in 0 .. MaxEvents /\ batch[p] \subseteq Recs /\ MemoryOK(p)
        /\ job[p] = NoJob
    BY <1>1, ZenonT(30) DEF MInv, MemoryTypes, MemoryOK, Exporting
  <1>5. n \in 1 .. MaxEvents /\ <<p, n>> \in Recs
    <2>1. n \in 1 .. MaxEvents
      BY <1>1, <1>2, <1>4, Sizes
    <2> QED BY <2>1, RecOf, Zenon
  <1>6. /\ Queued(p)' \subseteq Queued(p) /\ <<p, n>> \in Queued(p)
    BY <1>1, <1>3, TailQueued, Zenon
  <1>7. (Cardinality(b) >= BatchSize /\ Export(p, b, FALSE, FALSE))
        \/ (Cardinality(b) < BatchSize /\ batch' = [batch EXCEPT ![p] = b] /\ UNCHANGED <<wpc, job>>)
    BY ZenonT(30) DEF RecvRecord
  <1> HIDE DEF s, n
  <1>8. b \subseteq Recs /\ \A r \in b : r[1] = p /\ r[2] <= emitted[p] /\ ShouldSample(r[2])
    <2>1. \A r \in batch[p] : r[1] = p /\ r[2] <= emitted[p] /\ ShouldSample(r[2])
      BY <1>4, Zenon DEF MemoryOK
    <2>2. <<p, n>>[1] = p /\ <<p, n>>[2] = n /\ n <= emitted[p]
      BY <1>2, <1>4
    <2> QED BY <1>4, <1>5, <2>1, <2>2, Zenon
  <1>9. \A i \in DOMAIN s : <<p, s[i]>> \notin b
    BY <1>2, Zenon
  <1>10. b \subseteq Queued(p) \cup batch[p]
    BY <1>6, Zenon
  <1> HIDE DEF b
  <1>11. CASE Cardinality(b) >= BatchSize /\ Export(p, b, FALSE, FALSE)
    <2>1. b # {}
      BY <1>11, FS_EmptySet, Sizes
    <2> QED
      <3>1. \A i \in DOMAIN s : /\ s[i] <= emitted[p] /\ <<p, s[i]>> \notin b
                                /\ \A j \in DOMAIN s : s[i] = s[j] => i = j \/ s[i] = 0
        BY <1>2, <1>9, Zenon
      <3> QED
        BY <1>1, <1>2, <1>6, <1>8, <1>10, <1>11, <2>1, <3>1, ExportStep, FALSE \in BOOLEAN, ZenonT(40)
  <1>12. CASE Cardinality(b) < BatchSize /\ batch' = [batch EXCEPT ![p] = b] /\ UNCHANGED <<wpc, job>>
    <2>1. MemoryTypes' /\ batch'[p] = b /\ \A q \in Procs \ {p} : batch'[q] = batch[q]
      BY <1>1, <1>3, <1>8, <1>12, Zenon DEF MInv, MemoryTypes
    <2>2. job'[p].recs = {} /\ wpc'[p] = "idle" /\ job'[p] = NoJob
      BY <1>1, <1>4, <1>12, SMTT(20) DEF NoJob
    <2>3. MemoryOK(p)'
      BY <1>1, <1>2, <1>3, <1>8, <1>9, <1>12, <2>1, <2>2, ZenonT(40) DEF MemoryOK, Exporting
    <2>4. InMemory(p)' \subseteq InMemory(p)
      BY <1>6, <1>10, <2>1, <2>2, Zenon DEF InMemory
    <2> QED BY <1>1, <1>3, <1>12, <2>1, <2>3, <2>4, MemoryStep, ZenonT(40)
  <1> QED BY <1>7, <1>11, <1>12, Zenon

\* A received flush leaves the records where they are, or moves the batch to a job.
LEMMA RecvFlushMemory ==
  ASSUME MInv, NEW p \in Procs, RecvFlush(p)
  PROVE  MInv' /\ \A q \in Procs : InMemory(q)' \subseteq InMemory(q)
  <1> DEFINE s == Tail(chan[p])
  <1>1. wpc[p] = "idle" /\ chan[p] # <<>> /\ chan' = [chan EXCEPT ![p] = s] /\ emitted' = emitted
    BY Zenon DEF RecvFlush
  <1>2. /\ s \in Seq(Nat) /\ Len(s) <= Capacity
        /\ \A i \in DOMAIN s : /\ s[i] <= emitted[p] /\ <<p, s[i]>> \notin batch[p] \cup job[p].recs
                               /\ \A j \in DOMAIN s : s[i] = s[j] => i = j \/ s[i] = 0
    BY <1>1, ReceiveFacts, ZenonT(30)
  <1>3. /\ chan' \in [Procs -> Seq(Nat)] /\ chan'[p] = s
        /\ \A q \in Procs \ {p} : chan'[q] = chan[q]
    BY <1>1, <1>2, Zenon DEF MInv, MemoryTypes
  <1>4. Queued(p)' \subseteq Queued(p)
    BY <1>1, <1>3, TailQueued, ZenonT(30)
  <1> HIDE DEF s
  <1>5. CASE batch[p] # {} /\ Export(p, batch[p], TRUE, FALSE)
    <2> DEFINE b == batch[p]
    <2>1. \A i \in DOMAIN s : /\ s[i] <= emitted[p] /\ <<p, s[i]>> \notin b
                              /\ \A j \in DOMAIN s : s[i] = s[j] => i = j \/ s[i] = 0
      BY <1>2, Zenon
    <2>2. /\ b \in SUBSET Recs /\ b # {} /\ b \subseteq Queued(p) \cup batch[p]
          /\ Export(p, b, TRUE, FALSE)
          /\ \A r \in b : r[1] = p /\ r[2] <= emitted[p] /\ ShouldSample(r[2])
      BY <1>5, Zenon DEF MInv, MemoryTypes, MemoryOK
    <2> HIDE DEF b
    <2> QED
      BY <1>1, <1>2, <1>4, <2>1, <2>2, ExportStep, TRUE \in BOOLEAN, FALSE \in BOOLEAN, ZenonT(40)
  <1>6. CASE UNCHANGED <<batch, wpc, job>>
    <2>1. MemoryTypes'
      BY <1>1, <1>3, <1>6, Zenon DEF MInv, MemoryTypes
    <2>2. MemoryOK(p)'
      BY <1>1, <1>2, <1>3, <1>6, ZenonT(40) DEF MInv, MemoryOK
    <2>3. InMemory(p)' \subseteq InMemory(p)
      BY <1>4, <1>6, Zenon DEF InMemory
    <2> QED BY <1>1, <1>3, <1>6, <2>1, <2>2, <2>3, MemoryStep, ZenonT(40)
  <1> QED BY <1>5, <1>6, Zenon DEF RecvFlush

\* The interval and the end of the channel: the channel stays as it is.
ExportsRest(p, last) ==
    /\ wpc[p] = "idle" /\ UNCHANGED <<chan, emitted>>
    /\ batch[p] # {} /\ Export(p, batch[p], FALSE, last)

\* The batch becomes a job.
LEMMA ExportRest ==
  ASSUME MInv, NEW p \in Procs, NEW last \in BOOLEAN, ExportsRest(p, last)
  PROVE  MInv' /\ \A q \in Procs : InMemory(q)' \subseteq InMemory(q)
  <1> DEFINE s == chan[p]
             b == batch[p]
  <1>1. s \in Seq(Nat) /\ chan' = [chan EXCEPT ![p] = s] /\ Queued(p)' \subseteq Queued(p)
    BY Zenon DEF MInv, MemoryTypes, Queued, ExportsRest
  <1>2. /\ Len(s) <= Capacity
        /\ \A i \in DOMAIN s : /\ s[i] <= emitted[p] /\ <<p, s[i]>> \notin b
                               /\ \A j \in DOMAIN s : s[i] = s[j] => i = j \/ s[i] = 0
    BY DEF MInv, MemoryOK
  <1>3. /\ b \in SUBSET Recs /\ b # {} /\ b \subseteq Queued(p) \cup batch[p]
        /\ Export(p, b, FALSE, last)
        /\ \A r \in b : r[1] = p /\ r[2] <= emitted[p] /\ ShouldSample(r[2])
    BY Zenon DEF MInv, MemoryTypes, MemoryOK, ExportsRest
  <1>4. emitted' = emitted /\ FALSE \in BOOLEAN /\ wpc[p] = "idle"
    BY Zenon DEF ExportsRest
  <1> HIDE DEF s, b
  <1> QED BY <1>1, <1>2, <1>3, <1>4, ExportStep, ZenonT(30)

\* A crash empties the memory of its process.
LEMMA CrashMemory ==
  ASSUME MInv, NEW p \in Procs, Crash(p)
  PROVE  MInv' /\ InMemory(p)' = {} /\ \A q \in Procs \ {p} : InMemory(q)' = InMemory(q)
  <1>1. /\ chan' = [chan EXCEPT ![p] = <<>>] /\ batch' = [batch EXCEPT ![p] = {}]
        /\ job' = [job EXCEPT ![p] = NoJob] /\ wpc' = [wpc EXCEPT ![p] = "stopped"]
        /\ emitted' = emitted
    BY Zenon DEF Crash
  <1>2. MemoryTypes'
    BY <1>1 DEF MInv, MemoryTypes, NoJob, Phases
  <1>3. chan'[p] = <<>> /\ batch'[p] = {} /\ job'[p] = NoJob /\ wpc'[p] = "stopped"
    BY <1>1, Zenon DEF MInv, MemoryTypes
  <1>4. Cardinality({}) = 0
    BY FS_EmptySet, Zenon
  <1>5. MemoryOK(p)'
    BY <1>3, <1>4, Sizes DEF MemoryOK, Exporting, NoJob
  <1>6. \A q \in Procs \ {p} : /\ chan'[q] = chan[q] /\ batch'[q] = batch[q] /\ job'[q] = job[q]
                               /\ wpc'[q] = wpc[q] /\ emitted'[q] = emitted[q]
    BY <1>1, Zenon DEF MInv, MemoryTypes
  <1>7. InMemory(p)' = {}
    BY <1>3 DEF InMemory, Queued, NoJob
  <1> QED BY <1>2, <1>5, <1>6, <1>7, MemoryStep, Zenon

\* Every step keeps memory in order, and only an event brings a record into it.
LEMMA MemoryNext ==
  ASSUME MInv, [Next]_vars
  PROVE  /\ MInv'
         /\ \/ \A q \in Procs : InMemory(q)' \subseteq InMemory(q)
            \/ \E p \in Procs : OnEvent(p)
  <1>1. CASE UNCHANGED vars
    <2>1. UNCHANGED <<chan, batch, job, wpc, emitted>>
      BY <1>1, ZenonT(30) DEF vars, clientVars, workerVars
    <2>2. MInv'
      BY <2>1, ZenonT(30) DEF MInv, MemoryTypes, MemoryOK
    <2> QED BY <2>1, <2>2, Zenon DEF InMemory, Queued
  <1>2. CASE Next
    <2> PICK p \in Procs :
            \/ OnEvent(p) \/ Flush(p) \/ DropLayer(p)
            \/ Drain(p) \/ SkipDrain(p) \/ Run(p) \/ Crash(p) \/ Restart(p)
      BY <1>2, Zenon DEF Next
    <2>1. CASE OnEvent(p)
      BY <2>1, OnEventMemory, Zenon
    <2>2. CASE Flush(p)
      BY <2>2, FlushMemory, Zenon
    <2>3. CASE DropLayer(p) \/ (ReadBatch(p) /\ UNCHANGED wpc)
      <3>1. UNCHANGED <<chan, batch, job, wpc, emitted>>
        BY <2>3, ZenonT(30) DEF DropLayer, ReadBatch, clientVars, workerVars
      <3>2. MInv'
        BY <3>1, SMTT(20) DEF MInv, MemoryTypes, MemoryOK
      <3> QED BY <3>1, <3>2, Zenon DEF InMemory, Queued
    <2>4. ASSUME wpc[p] \in Draining \cup {"lock", "stopped"}, NEW w \in Draining \cup {"idle", "lock"},
                 UNCHANGED <<chan, batch, job, emitted>>, wpc' = [wpc EXCEPT ![p] = w]
          PROVE  MInv' /\ \A q \in Procs : InMemory(q)' \subseteq InMemory(q)
      <3>1. batch[p] = {}
        BY <2>4, Zenon DEF MInv, MemoryOK, Draining
      <3>2. w \in Phases /\ (w \in Exporting <=> wpc[p] \in Exporting)
        BY <2>4, Zenon DEF Phases, Draining, Exporting
      <3> QED BY <2>4, <3>1, <3>2, PhaseStep, ZenonT(30)
    <2>5. CASE AcquireLock(p)
      BY <2>4, <2>5, ZenonT(30) DEF AcquireLock, clientVars, Draining
    <2>6. CASE SkipDrain(p)
      BY <2>4, <2>6, Zenon DEF SkipDrain, clientVars, Draining
    <2>7. CASE ReadBatch(p)
      <3>1. CASE UNCHANGED wpc
        BY <2>3, <2>7, <3>1, ZenonT(30) DEF ReadBatch
      <3>2. CASE wpc' = [wpc EXCEPT ![p] = "replay"]
        BY <2>4, <2>7, <3>2, Zenon DEF ReadBatch, clientVars, Draining
      <3> QED BY <2>7, <3>1, <3>2, ZenonT(30) DEF ReadBatch
    <2>8. CASE ReplayOk(p)
      BY <2>4, <2>8, Zenon DEF ReplayOk, clientVars, Draining
    <2>9. CASE ReplayFails(p)
      BY <2>4, <2>9, Zenon DEF ReplayFails, clientVars, Draining
    <2>10. CASE RemoveBatch(p)
      BY <2>4, <2>10, Zenon DEF RemoveBatch, clientVars, Draining
    <2>11. CASE EndDrain(p)
      BY <2>4, <2>11, ZenonT(30) DEF EndDrain, clientVars, Draining
    <2>12. CASE Restart(p)
      BY <2>4, <2>12, Zenon DEF Restart, Draining
    <2>13. CASE RecvRecord(p)
      BY <2>13, RecvRecordMemory, Zenon
    <2>14. CASE RecvFlush(p)
      BY <2>14, RecvFlushMemory, Zenon
    <2>15. CASE Interval(p)
      BY <2>15, ExportRest, ZenonT(30) DEF Interval, ExportsRest
    <2>16. CASE RecvClosed(p)
      <3>1. CASE batch[p] # {} /\ Export(p, batch[p], FALSE, TRUE)
        BY <2>16, <3>1, ExportRest, ZenonT(30) DEF RecvClosed, ExportsRest
      <3>2. CASE batch[p] = {} /\ wpc' = [wpc EXCEPT ![p] = "stopped"] /\ UNCHANGED <<batch, job>>
        BY <2>16, <3>2, PhaseStep, Zenon DEF RecvClosed, Phases, Exporting
      <3> QED BY <2>16, <3>1, <3>2, Zenon DEF RecvClosed
    <2>17. ASSUME wpc[p] \in Exporting, NEW result, EndJob(p, result), UNCHANGED <<chan, batch, emitted>>
           PROVE  MInv' /\ \A q \in Procs : InMemory(q)' \subseteq InMemory(q)
      BY <2>17, EndJobStep, ZenonT(30)
    <2>18. CASE ExportOk(p)
      BY <2>17, <2>18, Zenon DEF ExportOk, Exporting
    <2>19. CASE FillBatch(p)
      BY <2>17, <2>19, Zenon DEF FillBatch, Exporting
    <2>20. CASE SpoolFails(p)
      BY <2>17, <2>20, Zenon DEF SpoolFails, Exporting
    <2>21. CASE ExportFails(p) \/ CreateBatch(p)
      <3>1. batch[p] = {} /\ UNCHANGED <<chan, batch, job, emitted>>
        BY <2>21, ZenonT(30) DEF MInv, MemoryOK, ExportFails, CreateBatch, clientVars
      <3>2. PICK w \in {"create", "fill"} : wpc' = [wpc EXCEPT ![p] = w]
        BY <2>21, Zenon DEF ExportFails, CreateBatch
      <3> QED BY <2>21, <3>1, <3>2, PhaseStep, ZenonT(30) DEF ExportFails, CreateBatch, Phases, Exporting
    <2>22. CASE Crash(p)
      BY <2>22, CrashMemory, Zenon
    <2> QED
      BY <2>1, <2>2, <2>3, <2>5, <2>6, <2>7, <2>8, <2>9, <2>10, <2>11, <2>12, <2>13, <2>14,
         <2>15, <2>16, <2>18, <2>19, <2>20, <2>21, <2>22, Zenon DEF Drain, Run
  <1> QED BY <1>1, <1>2, Zenon


\* In the initial states memory is empty.
LEMMA InitMemory ==
  ASSUME Init
  PROVE  MInv
  <1> USE DEF Init, NoJob
  <1>1. MemoryTypes
    BY Sizes DEF MemoryTypes, Phases
  <1>2. ASSUME NEW p \in Procs PROVE MemoryOK(p)
    <2>1. Cardinality({}) = 0
      BY FS_EmptySet, Zenon
    <2> QED BY <2>1, Sizes DEF MemoryOK, Exporting
  <1> QED BY <1>1, <1>2, ZenonT(40) DEF MInv

\* In every reachable state the memory of every process is in order.
THEOREM MemoryInductive == Spec => []MInv
  <1>1. MInv /\ [Next]_vars => MInv'
    BY MemoryNext, Zenon
  <1> QED BY <1>1, InitMemory, PTL DEF Spec

-----------------------------------------------------------------------------
(* Flush                                                                   *)

\* Where the message of a waiting flush is, and what is behind it.
FlushOK(p) ==
    /\ caller[p].st \in {"none", "waiting", "ok", "err"}
    /\ wpc[p] = "stopped" \/ job[p].last => ~ open[p]
    /\ ~ open[p] => caller[p].st # "waiting"
    /\ \A r \in caller[p].before : r[1] = p /\ r[2] <= emitted[p]
    /\ job[p].reply => caller[p].st = "waiting"
    /\ \A i \in DOMAIN chan[p] : chan[p][i] = 0 =>
        /\ caller[p].st = "waiting" /\ ~ job[p].reply
        /\ \A j \in DOMAIN chan[p] : /\ chan[p][j] = 0 => i = j
                                     /\ j > i => <<p, chan[p][j]>> \notin caller[p].before
    /\ caller[p].st = "waiting" =>
        \/ \E i \in DOMAIN chan[p] : chan[p][i] = 0
        \/ job[p].reply /\ caller[p].before \cap (Queued(p) \cup batch[p]) = {}
    /\ caller[p].st \in {"ok", "err"} => caller[p].before \cap InMemory(p) = {}

FInv ==
    /\ open \in [Procs -> BOOLEAN]
    /\ caller \in [Procs -> [st: {"none", "waiting", "ok", "err"}, before: SUBSET Recs]]
    /\ \A p \in Procs : FlushOK(p)

\* A step of one process leaves the calls of the others alone.
LEMMA FlushStep ==
  ASSUME FInv, NEW p \in Procs, FlushOK(p)', open' \in [Procs -> BOOLEAN],
         caller' \in [Procs -> [st: {"none", "waiting", "ok", "err"}, before: SUBSET Recs]],
         \A q \in Procs \ {p} : /\ chan'[q] = chan[q] /\ batch'[q] = batch[q] /\ job'[q] = job[q]
                                /\ wpc'[q] = wpc[q] /\ emitted'[q] = emitted[q]
                                /\ open'[q] = open[q] /\ caller'[q] = caller[q]
  PROVE  FInv'
  <1>1. ASSUME NEW q \in Procs \ {p} PROVE FlushOK(q)'
    <2>1. /\ chan'[q] = chan[q] /\ batch'[q] = batch[q] /\ job'[q] = job[q]
          /\ wpc'[q] = wpc[q] /\ emitted'[q] = emitted[q]
          /\ open'[q] = open[q] /\ caller'[q] = caller[q]
      OBVIOUS
    <2>2. FlushOK(q)
      BY Zenon DEF FInv
    <2>3. Queued(q)' = Queued(q) /\ InMemory(q)' = InMemory(q)
      BY <2>1 DEF InMemory, Queued
    <2> QED BY <2>1, <2>2, <2>3, SMTT(20) DEF FlushOK
  <1>2. \A q \in Procs : FlushOK(q)'
    BY <1>1, Zenon
  <1> QED BY <1>2, ZenonT(40) DEF FInv

\* A new record goes behind a waiting flush, and was not sent before it.
LEMMA OnEventFlush ==
  ASSUME MInv, FInv, NEW p \in Procs, OnEvent(p)
  PROVE  FInv'
  <1> DEFINE n == emitted[p] + 1
  <1>1. UNCHANGED <<batch, job, wpc, open, caller>>
    BY Zenon DEF OnEvent, workerVars
  <1>2. /\ emitted'[p] = n /\ n \in 1 .. MaxEvents /\ emitted[p] \in Nat
        /\ \A q \in Procs \ {p} : emitted'[q] = emitted[q]
        /\ InMemory(p)' \subseteq InMemory(p) \cup {<<p, n>>}
    BY OnEventMemory, Sizes DEF MInv, MemoryTypes
  <1>3. chan[p] \in Seq(Nat) /\ FlushOK(p) /\ caller[p].before \subseteq Recs
    BY Zenon DEF MInv, MemoryTypes, FInv
  <1>4. <<p, n>> \notin caller[p].before
    <2>1. <<p, n>>[2] = n
      OBVIOUS
    <2> QED BY <1>2, <1>3, <2>1 DEF FlushOK
  <1>5. \A r \in caller[p].before : r[1] = p /\ r[2] <= n
    BY <1>2, <1>3, RecFacts DEF FlushOK
  <1>6. CASE chan' = [chan EXCEPT ![p] = Append(@, emitted'[p])]
    <2> DEFINE s == Append(chan[p], n)
    <2>1. n \in Nat /\ n # 0
      BY <1>2, Sizes
    <2>2. chan'[p] = s /\ \A q \in Procs \ {p} : chan'[q] = chan[q]
      BY <1>2, <1>6, Zenon DEF MInv, MemoryTypes
    <2> HIDE DEF n
    <2>3. /\ \A i \in DOMAIN s :
               \/ i \in DOMAIN chan[p] /\ s[i] = chan[p][i]
               \/ i \notin DOMAIN chan[p] /\ i = Len(chan[p]) + 1 /\ s[i] = n
          /\ \A i \in DOMAIN chan[p] : i \in DOMAIN s /\ i < Len(chan[p]) + 1 /\ i \in Nat
      <3>1. chan[p] \in Seq(Nat) /\ n \in Nat
        BY <1>3, <2>1, Zenon
      <3> QED BY ONLY <3>1, AppendFacts, ZenonT(40)
    <2> HIDE DEF s
    <2>4. \A i \in DOMAIN s : s[i] = 0 => i \in DOMAIN chan[p] /\ chan[p][i] = 0
      BY <2>1, <2>3, Zenon
    <2>5. \A i \in DOMAIN s : s[i] = 0 =>
            /\ caller[p].st = "waiting" /\ ~ job[p].reply
            /\ \A j \in DOMAIN s : /\ s[j] = 0 => i = j
                                   /\ j > i => <<p, s[j]>> \notin caller[p].before
      BY <1>3, <1>4, <2>3, <2>4, Zenon DEF FlushOK
    <2>6. Queued(p)' \subseteq Queued(p) \cup {<<p, n>>}
      BY <2>2, <2>3 DEF Queued
    <2>7. caller[p].st = "waiting" =>
            \/ \E i \in DOMAIN s : s[i] = 0
            \/ job[p].reply /\ caller[p].before \cap (Queued(p)' \cup batch[p]) = {}
      BY <1>3, <1>4, <2>3, <2>6, Zenon DEF FlushOK
    <2>8. FlushOK(p)'
      <3>1. /\ caller'[p] = caller[p] /\ wpc'[p] = wpc[p] /\ job'[p] = job[p]
            /\ open'[p] = open[p] /\ batch'[p] = batch[p] /\ chan'[p] = s /\ emitted'[p] = n
        BY <1>1, <1>2, <2>2, Zenon
      <3>2. caller[p].st \in {"ok", "err"} => caller[p].before \cap InMemory(p)' = {}
        BY <1>2, <1>3, <1>4, Zenon DEF FlushOK
      <3>3. /\ caller[p].st \in {"none", "waiting", "ok", "err"}
            /\ wpc[p] = "stopped" \/ job[p].last => ~ open[p]
            /\ ~ open[p] => caller[p].st # "waiting"
            /\ job[p].reply => caller[p].st = "waiting"
        BY <1>3, Zenon DEF FlushOK
      <3> QED BY <1>5, <2>5, <2>7, <3>1, <3>2, <3>3, ZenonT(30) DEF FlushOK
    <2> QED BY <1>1, <1>2, <2>2, <2>8, FlushStep, Zenon DEF FInv
  <1>7. CASE UNCHANGED chan
    <2>1. Queued(p)' = Queued(p) /\ InMemory(p)' = InMemory(p)
      BY <1>1, <1>7, ZenonT(30) DEF Queued, InMemory
    <2>2. FlushOK(p)'
      BY <1>1, <1>2, <1>3, <1>5, <1>7, <2>1 DEF FlushOK
    <2> QED BY <1>1, <1>2, <1>7, <2>2, FlushStep, Zenon DEF FInv
  <1> QED BY <1>6, <1>7, Zenon DEF OnEvent

\* A flush goes behind everything that was sent before it.
LEMMA FlushFlush ==
  ASSUME MInv, FInv, NEW p \in Procs, Flush(p)
  PROVE  FInv'
  <1> DEFINE s == Append(chan[p], 0)
  <1>1. /\ UNCHANGED <<batch, job, wpc, open, emitted>> /\ chan' = [chan EXCEPT ![p] = s]
        /\ caller' = [caller EXCEPT ![p] = [st |-> "waiting", before |-> Queued(p) \cup batch[p]]]
        /\ caller[p].st # "waiting" /\ open[p]
    BY Zenon DEF Flush, workerVars
  <1>2. chan[p] \in Seq(Nat) /\ FlushOK(p) /\ Queued(p) \cup batch[p] \in SUBSET Recs
    BY QueuedFacts, Zenon DEF MInv, MemoryTypes, FInv
  <1>3. \A r \in Queued(p) \cup batch[p] : r[1] = p /\ r[2] <= emitted[p]
    BY QueuedFacts, Zenon DEF InMemory
  <1>4. /\ chan'[p] = s /\ \A q \in Procs \ {p} : chan'[q] = chan[q]
        /\ caller'[p] = [st |-> "waiting", before |-> Queued(p) \cup batch[p]]
        /\ \A q \in Procs \ {p} : caller'[q] = caller[q]
        /\ caller' \in [Procs -> [st: {"none", "waiting", "ok", "err"}, before: SUBSET Recs]]
    BY <1>1, <1>2, Zenon DEF MInv, MemoryTypes, FInv
  <1>5. /\ \A i \in DOMAIN s :
             \/ i \in DOMAIN chan[p] /\ s[i] = chan[p][i]
             \/ i \notin DOMAIN chan[p] /\ i = Len(chan[p]) + 1 /\ s[i] = 0
        /\ \A i \in DOMAIN chan[p] : i \in DOMAIN s /\ i < Len(chan[p]) + 1 /\ i \in Nat
        /\ Len(chan[p]) + 1 \in DOMAIN s
    BY <1>2, AppendFacts, 0 \in Nat, Zenon
  <1>6. Len(chan[p]) \in Nat
    BY <1>2, AppendFacts, Zenon
  <1> HIDE DEF s
  <1>7. (\A i \in DOMAIN chan[p] : chan[p][i] # 0) /\ ~ job[p].reply
    BY <1>1, <1>2, Zenon DEF FlushOK
  <1>8. \A i \in DOMAIN s : s[i] = 0 => i = Len(chan[p]) + 1
    BY <1>5, <1>7, Zenon
  <1>9. s[Len(chan[p]) + 1] = 0
    BY <1>5, <1>6
  <1>10. \A i, j \in DOMAIN s : s[i] = 0 => (s[j] = 0 => i = j) /\ ~ (j > i)
    <2>1. \A j \in DOMAIN s : ~ (j > Len(chan[p]) + 1)
      BY <1>5, <1>6
    <2> QED BY <1>8, <2>1, Zenon
  <1>11. FlushOK(p)'
    <2>1. caller'[p].st = "waiting" /\ caller'[p].before = Queued(p) \cup batch[p]
      BY <1>4
    <2>2. \E i \in DOMAIN s : s[i] = 0
      BY <1>5, <1>9, Zenon
    <2>3. wpc'[p] = "stopped" \/ job'[p].last => ~ open'[p]
      BY <1>1, <1>2, Zenon DEF FlushOK
    <2>4. \A r \in caller'[p].before : r[1] = p /\ r[2] <= emitted'[p]
      BY <1>1, <1>3, <2>1, Zenon
    <2>5. \A i \in DOMAIN chan'[p] : chan'[p][i] = 0 =>
            /\ caller'[p].st = "waiting" /\ ~ job'[p].reply
            /\ \A j \in DOMAIN chan'[p] : /\ chan'[p][j] = 0 => i = j
                                          /\ j > i => <<p, chan'[p][j]>> \notin caller'[p].before
      <3>1. chan'[p] = s /\ ~ job'[p].reply
        BY <1>1, <1>4, <1>7, Zenon
      <3> QED BY <1>10, <2>1, <3>1, Zenon
    <2>6. /\ ~ open'[p] => caller'[p].st # "waiting"
          /\ job'[p].reply => caller'[p].st = "waiting"
          /\ \E i \in DOMAIN chan'[p] : chan'[p][i] = 0
      BY <1>1, <1>4, <1>7, <2>2, Zenon
    <2>7. caller'[p].st \in {"none", "waiting", "ok", "err"} /\ caller'[p].st \notin {"ok", "err"}
      BY <2>1, Zenon
    <2> QED BY <2>3, <2>4, <2>5, <2>6, <2>7, ZenonT(40) DEF FlushOK
  <1> QED BY <1>1, <1>4, <1>11, FlushStep, Zenon DEF FInv

\* A message is taken from the channel.
LEMMA TakeFacts ==
  ASSUME MInv, FInv, NEW p \in Procs, wpc[p] = "idle", chan[p] # <<>>, chan'[p] = Tail(chan[p])
  PROVE  /\ 1 \in DOMAIN chan[p] /\ Head(chan[p]) = chan[p][1]
         /\ \A i \in DOMAIN chan'[p] :
              i \in Nat /\ i > 0 /\ i + 1 \in DOMAIN chan[p] /\ chan'[p][i] = chan[p][i + 1]
         /\ \A i \in DOMAIN chan[p] : i \in Nat /\ (i > 1 => i - 1 \in DOMAIN chan'[p])
         /\ job[p] = NoJob /\ ~ job[p].reply /\ FlushOK(p)
         /\ \A i \in DOMAIN chan'[p] : chan'[p][i] = 0 =>
              /\ caller[p].st = "waiting"
              /\ \A j \in DOMAIN chan'[p] : /\ chan'[p][j] = 0 => i = j
                                            /\ j > i => <<p, chan'[p][j]>> \notin caller[p].before
  <1>1. chan[p] \in Seq(Nat)
    BY Zenon DEF MInv, MemoryTypes
  <1>2. /\ 1 \in DOMAIN chan[p] /\ Head(chan[p]) = chan[p][1]
        /\ \A i \in DOMAIN chan'[p] :
             i \in Nat /\ i > 0 /\ i + 1 \in DOMAIN chan[p] /\ chan'[p][i] = chan[p][i + 1]
        /\ \A i \in DOMAIN chan[p] : i \in Nat /\ (i > 1 => i - 1 \in DOMAIN chan'[p])
    BY <1>1, TailFacts, Zenon
  <1>3. job[p] = NoJob /\ ~ job[p].reply /\ FlushOK(p)
    BY DEF MInv, MemoryOK, Exporting, NoJob, FInv
  <1>4. ASSUME NEW i \in DOMAIN chan'[p], chan'[p][i] = 0
        PROVE  /\ caller[p].st = "waiting"
               /\ \A j \in DOMAIN chan'[p] : /\ chan'[p][j] = 0 => i = j
                                             /\ j > i => <<p, chan'[p][j]>> \notin caller[p].before
    <2>1. i \in Nat /\ i + 1 \in DOMAIN chan[p] /\ chan[p][i + 1] = 0
      BY <1>2, <1>4, Zenon
    <2>2. /\ caller[p].st = "waiting"
          /\ \A j \in DOMAIN chan[p] : /\ chan[p][j] = 0 => i + 1 = j
                                       /\ j > i + 1 => <<p, chan[p][j]>> \notin caller[p].before
      BY <1>3, <2>1, Zenon DEF FlushOK
    <2>3. ASSUME NEW j \in DOMAIN chan'[p]
          PROVE  /\ chan'[p][j] = 0 => i = j
                 /\ j > i => <<p, chan'[p][j]>> \notin caller[p].before
      <3>1. j \in Nat /\ j + 1 \in DOMAIN chan[p] /\ chan'[p][j] = chan[p][j + 1]
        BY <1>2, Zenon
      <3>2. /\ chan[p][j + 1] = 0 => i + 1 = j + 1
            /\ j + 1 > i + 1 => <<p, chan[p][j + 1]>> \notin caller[p].before
        BY <2>2, <3>1, Zenon
      <3> QED BY <2>1, <3>1, <3>2
    <2> QED BY <2>2, <2>3, Zenon
  <1> QED BY <1>2, <1>3, <1>4, Zenon

\* Receiving a record does not touch the flush behind it.
LEMMA RecvRecordFlush ==
  ASSUME MInv, FInv, NEW p \in Procs, RecvRecord(p)
  PROVE  FInv'
  <1>1. /\ wpc[p] = "idle" /\ chan[p] # <<>> /\ Head(chan[p]) # 0
        /\ chan' = [chan EXCEPT ![p] = Tail(@)] /\ UNCHANGED <<open, caller, emitted>>
    BY Zenon DEF RecvRecord
  <1>2. chan'[p] = Tail(chan[p]) /\ \A q \in Procs \ {p} : chan'[q] = chan[q]
    BY <1>1, Zenon DEF MInv, MemoryTypes
  <1>3. /\ wpc'[p] \in {"idle", "export"} /\ ~ job'[p].reply /\ ~ job'[p].last
        /\ \A q \in Procs \ {p} : batch'[q] = batch[q] /\ job'[q] = job[q] /\ wpc'[q] = wpc[q]
    <2>1. job[p] = NoJob
      BY <1>1, <1>2, TakeFacts, ZenonT(30)
    <2> QED BY <1>1, <2>1 DEF RecvRecord, Export, NoJob, MInv, MemoryTypes
  <1>4. \A q \in Procs : InMemory(q)' \subseteq InMemory(q)
    BY RecvRecordMemory, Zenon
  <1>5. caller[p].st = "waiting" => \E i \in DOMAIN chan'[p] : chan'[p][i] = 0
    <2> SUFFICES ASSUME caller[p].st = "waiting" PROVE \E i \in DOMAIN chan'[p] : chan'[p][i] = 0
      OBVIOUS
    <2>1. PICK i \in DOMAIN chan[p] : chan[p][i] = 0
      BY <1>1, <1>2, TakeFacts, Zenon DEF FlushOK
    <2>2. i \in Nat /\ i # 1 /\ i > 0
      <3>1. i \in Nat /\ i # 1
        BY <1>1, <1>2, <2>1, TakeFacts, Zenon
      <3>2. chan[p] \in Seq(Nat)
        BY Zenon DEF MInv, MemoryTypes
      <3> QED BY <3>1, <3>2
    <2>3. i - 1 \in DOMAIN chan'[p]
      BY <1>1, <1>2, <2>2, TakeFacts, SMTT(20)
    <2>4. chan'[p][i - 1] = chan[p][(i - 1) + 1] /\ (i - 1) + 1 = i
      BY <1>1, <1>2, <2>2, <2>3, TakeFacts
    <2> QED BY <2>1, <2>3, <2>4, Zenon
  <1>6. FlushOK(p) /\ \A i \in DOMAIN chan'[p] : chan'[p][i] = 0 =>
            /\ caller[p].st = "waiting"
            /\ \A j \in DOMAIN chan'[p] : /\ chan'[p][j] = 0 => i = j
                                          /\ j > i => <<p, chan'[p][j]>> \notin caller[p].before
    BY <1>1, <1>2, TakeFacts, ZenonT(30)
  <1>7. FlushOK(p)'
    <2>1. wpc'[p] # "stopped"
      BY <1>3, Zenon
    <2>2. caller[p].st \in {"ok", "err"} => caller[p].before \cap InMemory(p)' = {}
      BY <1>4, <1>6, Zenon DEF FlushOK
    <2>3. /\ caller[p].st \in {"none", "waiting", "ok", "err"}
          /\ ~ open[p] => caller[p].st # "waiting"
          /\ \A r \in caller[p].before : r[1] = p /\ r[2] <= emitted[p]
      BY <1>6, Zenon DEF FlushOK
    <2>4. \A i \in DOMAIN chan'[p] : chan'[p][i] = 0 =>
            /\ caller'[p].st = "waiting" /\ ~ job'[p].reply
            /\ \A j \in DOMAIN chan'[p] : /\ chan'[p][j] = 0 => i = j
                                          /\ j > i => <<p, chan'[p][j]>> \notin caller'[p].before
      BY <1>1, <1>3, <1>6, Zenon
    <2> QED BY <1>1, <1>3, <1>5, <2>1, <2>2, <2>3, <2>4, ZenonT(30) DEF FlushOK
  <1> QED BY <1>1, <1>2, <1>3, <1>7, FlushStep, Zenon DEF FInv

\* When its message is received, what was sent before a flush is in the batch or gone.
LEMMA RecvFlushFlush ==
  ASSUME MInv, FInv, NEW p \in Procs, RecvFlush(p)
  PROVE  FInv'
  <1>1. /\ wpc[p] = "idle" /\ chan[p] # <<>> /\ Head(chan[p]) = 0
        /\ chan' = [chan EXCEPT ![p] = Tail(@)] /\ UNCHANGED <<open, emitted>>
    BY Zenon DEF RecvFlush
  <1>2. chan'[p] = Tail(chan[p]) /\ \A q \in Procs \ {p} : chan'[q] = chan[q]
    BY <1>1, Zenon DEF MInv, MemoryTypes
  <1>3. FlushOK(p) /\ 1 \in DOMAIN chan[p] /\ chan[p][1] = 0 /\ job[p] = NoJob
    BY <1>1, <1>2, TakeFacts, ZenonT(30)
  <1>4. /\ caller[p].st = "waiting"
        /\ \A j \in DOMAIN chan[p] : /\ chan[p][j] = 0 => 1 = j
                                     /\ j > 1 => <<p, chan[p][j]>> \notin caller[p].before
    BY <1>3, Zenon DEF FlushOK
  <1>5. \A i \in DOMAIN chan'[p] : chan'[p][i] # 0 /\ <<p, chan'[p][i]>> \notin caller[p].before
    <2> TAKE i \in DOMAIN chan'[p]
    <2>1. i \in Nat /\ i > 0 /\ i + 1 \in DOMAIN chan[p] /\ chan'[p][i] = chan[p][i + 1]
      BY <1>1, <1>2, TakeFacts, ZenonT(30)
    <2>2. i + 1 > 1 /\ i + 1 # 1
      BY <2>1
    <2> QED BY <1>4, <2>1, <2>2, Zenon
  <1>6. caller[p].before \cap Queued(p)' = {}
    BY <1>5, Zenon DEF Queued
  <1>7. CASE batch[p] # {} /\ Export(p, batch[p], TRUE, FALSE) /\ UNCHANGED caller
    <2>1. /\ batch'[p] = {} /\ wpc'[p] = "export" /\ job'[p].reply /\ ~ job'[p].last
          /\ \A q \in Procs \ {p} : batch'[q] = batch[q] /\ job'[q] = job[q] /\ wpc'[q] = wpc[q]
      BY <1>7, Zenon DEF Export, MInv, MemoryTypes
    <2>2. FlushOK(p)'
      BY <1>1, <1>3, <1>4, <1>5, <1>6, <1>7, <2>1, Zenon DEF FlushOK
    <2> QED BY <1>1, <1>2, <1>7, <2>1, <2>2, FlushStep, ZenonT(40) DEF FInv
  <1>8. CASE batch[p] = {} /\ Reply(p, TRUE, "ok") /\ UNCHANGED <<batch, wpc, job>>
    <2>1. /\ caller'[p].st = "ok" /\ caller'[p].before = caller[p].before
          /\ \A q \in Procs \ {p} : caller'[q] = caller[q]
          /\ caller' \in [Procs -> [st: {"none", "waiting", "ok", "err"}, before: SUBSET Recs]]
      BY <1>8, ZenonT(30) DEF Reply, FInv
    <2>2. InMemory(p)' = Queued(p)'
      <3>1. batch'[p] = {} /\ job'[p].recs = {}
        BY <1>3, <1>8 DEF NoJob
      <3> QED BY <3>1, Zenon DEF InMemory
    <2>3. ~ job'[p].reply /\ ~ job'[p].last /\ wpc'[p] = "idle"
      BY <1>1, <1>3, <1>8, SMTT(20) DEF NoJob
    <2>4. FlushOK(p)'
      BY <1>1, <1>3, <1>5, <1>6, <2>1, <2>2, <2>3, ZenonT(40) DEF FlushOK
    <2> QED BY <1>1, <1>2, <1>8, <2>1, <2>4, FlushStep, ZenonT(40) DEF FInv
  <1> QED BY <1>7, <1>8, Zenon DEF RecvFlush

\* Steps of the worker that move nothing.
LEMMA PhaseFlush ==
  ASSUME FInv, UNCHANGED <<chan, batch, job, open, caller, emitted>>,
         \A q \in Procs : wpc'[q] = "stopped" => wpc[q] = "stopped" \/ ~ open[q]
  PROVE  FInv'
  <1>1. ASSUME NEW q \in Procs PROVE FlushOK(q)'
    <2>1. FlushOK(q)
      BY Zenon DEF FInv
    <2>2. Queued(q)' = Queued(q) /\ InMemory(q)' = InMemory(q)
      BY Zenon DEF Queued, InMemory
    <2> QED BY <2>1, <2>2 DEF FlushOK
  <1> QED BY <1>1, ZenonT(40) DEF FInv

\* The interval and the end of the channel answer no flush.
LEMMA ExportRestFlush ==
  ASSUME MInv, FInv, NEW p \in Procs, NEW last \in BOOLEAN, ExportsRest(p, last),
         UNCHANGED <<open, caller>>, last => ~ open[p]
  PROVE  FInv'
  <1>1. /\ wpc[p] = "idle" /\ UNCHANGED <<chan, emitted>>
        /\ Export(p, batch[p], FALSE, last)
    BY Zenon DEF ExportsRest
  <1>2. /\ wpc'[p] = "export" /\ ~ job'[p].reply /\ job'[p].last = last
        /\ \A q \in Procs \ {p} : batch'[q] = batch[q] /\ job'[q] = job[q] /\ wpc'[q] = wpc[q]
    BY <1>1, ZenonT(30) DEF Export, MInv, MemoryTypes
  <1>3. FlushOK(p) /\ ~ job[p].reply
    BY <1>1 DEF FInv, MInv, MemoryOK, Exporting, NoJob
  <1>4. InMemory(p)' \subseteq InMemory(p)
    BY ExportRest, Zenon
  <1>5. FlushOK(p)'
    BY <1>1, <1>2, <1>3, <1>4, ZenonT(40) DEF FlushOK
  <1> QED BY <1>1, <1>2, <1>5, FlushStep, Zenon DEF FInv

\* The end of a job answers the flush that asked for it.
LEMMA EndJobFlush ==
  ASSUME MInv, FInv, NEW p \in Procs, wpc[p] \in Exporting, NEW result \in {"ok", "err"},
         EndJob(p, result), UNCHANGED <<chan, batch, open, emitted>>
  PROVE  FInv'
  <1>1. /\ job'[p] = NoJob /\ ~ job'[p].reply /\ ~ job'[p].last
        /\ wpc'[p] = "stopped" => job[p].last
        /\ \A q \in Procs \ {p} : job'[q] = job[q] /\ wpc'[q] = wpc[q]
    BY Zenon DEF EndJob, NoJob, MInv, MemoryTypes
  <1>2. FlushOK(p) /\ batch[p] = {}
    BY Zenon DEF FInv, MInv, MemoryOK, Exporting
  <1>3. InMemory(p)' = InMemory(p) \ job[p].recs /\ Queued(p)' = Queued(p)
    BY EndJobStep, Zenon DEF Queued
  <1>4. InMemory(p)' = Queued(p)
    BY <1>1, <1>2, <1>3, Zenon DEF InMemory, NoJob
  <1>5. CASE job[p].reply
    <2>1. /\ caller'[p].st = result /\ caller'[p].before = caller[p].before
          /\ \A q \in Procs \ {p} : caller'[q] = caller[q]
          /\ caller' \in [Procs -> [st: {"none", "waiting", "ok", "err"}, before: SUBSET Recs]]
      BY <1>5, Zenon DEF EndJob, Reply, FInv
    <2>2. /\ caller[p].st = "waiting" /\ caller[p].before \cap Queued(p) = {}
          /\ \A i \in DOMAIN chan[p] : chan[p][i] # 0
      BY <1>2, <1>5, Zenon DEF FlushOK
    <2>3. FlushOK(p)'
      BY <1>1, <1>2, <1>4, <2>1, <2>2, Zenon DEF FlushOK
    <2> QED BY <1>1, <2>1, <2>3, FlushStep, Zenon DEF FInv
  <1>6. CASE ~ job[p].reply
    <2>1. UNCHANGED caller
      BY <1>6, Zenon DEF EndJob, Reply
    <2>2. InMemory(p)' \subseteq InMemory(p)
      BY <1>3, Zenon
    <2>3. FlushOK(p)'
      <3>1. UNCHANGED <<chan, batch, open, emitted, caller>> /\ Queued(p)' = Queued(p)
        BY <1>3, <2>1, Zenon
      <3>2. wpc'[p] = "stopped" \/ job'[p].last => ~ open[p]
        BY <1>1, <1>2, Zenon DEF FlushOK
      <3>3. caller[p].st = "waiting" => \E i \in DOMAIN chan[p] : chan[p][i] = 0
        BY <1>2, <1>6, Zenon DEF FlushOK
      <3>4. caller[p].st \in {"ok", "err"} => caller[p].before \cap InMemory(p)' = {}
        BY <1>2, <2>2, Zenon DEF FlushOK
      <3>5. /\ caller[p].st \in {"none", "waiting", "ok", "err"}
            /\ ~ open[p] => caller[p].st # "waiting"
            /\ \A r \in caller[p].before : r[1] = p /\ r[2] <= emitted[p]
            /\ \A i \in DOMAIN chan[p] : chan[p][i] = 0 =>
                /\ caller[p].st = "waiting"
                /\ \A j \in DOMAIN chan[p] : /\ chan[p][j] = 0 => i = j
                                             /\ j > i => <<p, chan[p][j]>> \notin caller[p].before
        BY <1>2, Zenon DEF FlushOK
      <3> QED BY <1>1, <3>1, <3>2, <3>3, <3>4, <3>5, ZenonT(30) DEF FlushOK
    <2> QED BY <1>1, <2>1, <2>3, FlushStep, Zenon DEF FInv
  <1> QED BY <1>5, <1>6, Zenon

\* The layer is dropped, the process dies or is started again.
LEMMA ProcessFlush ==
  ASSUME MInv, FInv, NEW p \in Procs, DropLayer(p) \/ Crash(p) \/ Restart(p)
  PROVE  FInv'
  <1>1. CASE DropLayer(p)
    <2>1. /\ UNCHANGED <<chan, batch, job, wpc, caller, emitted>> /\ caller[p].st # "waiting"
          /\ ~ open'[p] /\ \A q \in Procs \ {p} : open'[q] = open[q]
          /\ open' \in [Procs -> BOOLEAN]
      BY <1>1, Zenon DEF DropLayer, workerVars, FInv
    <2>2. Queued(p)' = Queued(p) /\ InMemory(p)' = InMemory(p) /\ FlushOK(p)
      BY <2>1, Zenon DEF Queued, InMemory, FInv
    <2>3. FlushOK(p)'
      BY <2>1, <2>2, Zenon DEF FlushOK
    <2> QED BY <2>1, <2>3, FlushStep, Zenon DEF FInv
  <1>2. CASE Crash(p)
    <2>1. /\ chan'[p] = <<>> /\ ~ open'[p] /\ job'[p] = NoJob /\ caller'[p] = NoCall
          /\ \A q \in Procs \ {p} : /\ chan'[q] = chan[q] /\ batch'[q] = batch[q]
                                    /\ job'[q] = job[q] /\ wpc'[q] = wpc[q]
                                    /\ open'[q] = open[q] /\ caller'[q] = caller[q]
          /\ emitted' = emitted /\ open' \in [Procs -> BOOLEAN]
      BY <1>2, Zenon DEF Crash, MInv, MemoryTypes, FInv
    <2>2. caller' \in [Procs -> [st: {"none", "waiting", "ok", "err"}, before: SUBSET Recs]]
      BY <1>2, ZenonT(40) DEF Crash, NoCall, FInv
    <2>3. FlushOK(p)'
      BY <2>1, SMTT(20) DEF FlushOK, NoCall, NoJob
    <2> QED BY <2>1, <2>2, <2>3, FlushStep, Zenon
  <1>3. CASE Restart(p)
    <2>1. /\ UNCHANGED <<chan, batch, job, emitted>> /\ wpc[p] = "stopped"
          /\ wpc'[p] = "lock" /\ caller'[p] = NoCall
          /\ \A q \in Procs \ {p} : wpc'[q] = wpc[q] /\ open'[q] = open[q] /\ caller'[q] = caller[q]
          /\ open'[p] /\ open' \in [Procs -> BOOLEAN]
      BY <1>3, Zenon DEF Restart, MInv, MemoryTypes, FInv
    <2>2. caller' \in [Procs -> [st: {"none", "waiting", "ok", "err"}, before: SUBSET Recs]]
      BY <1>3, Zenon DEF Restart, NoCall, FInv
    <2>3. job[p] = NoJob /\ \A i \in DOMAIN chan[p] : chan[p][i] # 0
      BY <2>1, ZenonT(30) DEF MInv, MemoryOK, Exporting, FInv, FlushOK
    <2>4. FlushOK(p)'
      BY <2>1, <2>3 DEF FlushOK, NoCall, NoJob
    <2> QED BY <2>1, <2>2, <2>4, FlushStep, Zenon
  <1> QED BY <1>1, <1>2, <1>3, Zenon

\* Every step keeps the bookkeeping of flush.
LEMMA FlushNext ==
  ASSUME MInv, FInv, [Next]_vars
  PROVE  FInv'
  <1>1. CASE UNCHANGED vars
    <2>1. UNCHANGED <<chan, batch, job, wpc, open, caller, emitted>>
      BY <1>1, ZenonT(30) DEF vars, clientVars, workerVars
    <2>2. ASSUME NEW q \in Procs PROVE FlushOK(q)'
      <3>1. Queued(q)' = Queued(q) /\ InMemory(q)' = InMemory(q) /\ FlushOK(q)
        BY <2>1, Zenon DEF Queued, InMemory, FInv
      <3> QED BY <2>1, <3>1, SMTT(20) DEF FlushOK
    <2> QED BY <2>1, <2>2, Zenon DEF FInv
  <1>2. CASE Next
    <2> PICK p \in Procs :
            \/ OnEvent(p) \/ Flush(p) \/ DropLayer(p)
            \/ Drain(p) \/ SkipDrain(p) \/ Run(p) \/ Crash(p) \/ Restart(p)
      BY <1>2, Zenon DEF Next
    <2>1. CASE OnEvent(p) \/ Flush(p) \/ DropLayer(p) \/ Crash(p) \/ Restart(p)
      BY <2>1, OnEventFlush, FlushFlush, ProcessFlush, Zenon
    <2>2. CASE Drain(p) \/ SkipDrain(p) \/ ExportFails(p) \/ CreateBatch(p)
      <3>1. UNCHANGED <<chan, batch, job, open, caller, emitted>>
        BY <2>2, ZenonT(30) DEF Drain, AcquireLock, ReadBatch, ReplayOk, ReplayFails, RemoveBatch, EndDrain,
                    SkipDrain, ExportFails, CreateBatch, clientVars
      <3>2. \/ UNCHANGED wpc
            \/ \E w \in Phases \ {"stopped"} : wpc' = [wpc EXCEPT ![p] = w]
        BY <2>2, Zenon DEF Drain, AcquireLock, ReadBatch, ReplayOk, ReplayFails, RemoveBatch, EndDrain,
                    SkipDrain, ExportFails, CreateBatch, Phases
      <3>3. \A q \in Procs : wpc'[q] = "stopped" => wpc[q] = "stopped"
        BY <3>2, Zenon DEF MInv, MemoryTypes
      <3> QED BY <3>1, <3>3, PhaseFlush, Zenon
    <2>3. CASE RecvRecord(p) \/ RecvFlush(p)
      BY <2>3, RecvRecordFlush, RecvFlushFlush, Zenon
    <2>4. CASE Interval(p)
      BY <2>4, ExportRestFlush, Zenon DEF Interval, ExportsRest
    <2>5. CASE RecvClosed(p)
      <3>1. CASE batch[p] # {} /\ Export(p, batch[p], FALSE, TRUE)
        BY <2>5, <3>1, ExportRestFlush, ZenonT(30) DEF RecvClosed, ExportsRest
      <3>2. CASE batch[p] = {} /\ wpc' = [wpc EXCEPT ![p] = "stopped"] /\ UNCHANGED <<batch, job>>
        <4>1. UNCHANGED <<chan, batch, job, open, caller, emitted>> /\ ~ open[p]
          BY <2>5, <3>2, Zenon DEF RecvClosed
        <4>2. \A q \in Procs : wpc'[q] = "stopped" => wpc[q] = "stopped" \/ ~ open[q]
          BY <3>2, <4>1, Zenon DEF MInv, MemoryTypes
        <4> QED BY <4>1, <4>2, PhaseFlush, Zenon
      <3> QED BY <2>5, <3>1, <3>2, Zenon DEF RecvClosed
    <2>6. CASE ExportOk(p) \/ FillBatch(p) \/ SpoolFails(p)
      <3>1. /\ wpc[p] \in Exporting /\ UNCHANGED <<chan, batch, open, emitted>>
            /\ EndJob(p, "ok") \/ EndJob(p, "err")
        BY <2>6, Zenon DEF ExportOk, FillBatch, SpoolFails, Exporting
      <3> QED BY <3>1, EndJobFlush, Zenon
    <2> QED BY <2>1, <2>2, <2>3, <2>4, <2>5, <2>6, Zenon DEF Run
  <1> QED BY <1>1, <1>2, Zenon

\* In every reachable state the message of a waiting flush is in the channel, or its
\* job is under way and nothing sent before it is left behind.
THEOREM FlushInductive == Spec => []FInv
  <1>1. Init => FInv
    BY DEF Init, FInv, FlushOK, NoCall, NoJob
  <1>2. MInv /\ FInv /\ [Next]_vars => FInv'
    BY FlushNext, Zenon
  <1> QED BY <1>1, <1>2, MemoryInductive, PTL DEF Spec

\* When flush has returned, none of the records sent before it is still waiting to be
\* exported, whatever the sizes of the channel and the batch and however its process
\* is interrupted.
THEOREM FlushSafety == Spec => []FlushCovers
  <1>1. FInv => FlushCovers
    BY Zenon DEF FInv, FlushOK, FlushCovers
  <1> QED BY <1>1, FlushInductive, PTL

-----------------------------------------------------------------------------
(* The spool, and what the server has                                      *)

SpoolTypes ==
    /\ todo \in [Procs -> SUBSET Recs]
    /\ cur \in [Procs -> [file: Recs \cup {None}, recs: SUBSET Recs]]
    /\ lock \in Procs \cup {None}
    /\ spool \in [Recs -> [st: {"absent", "empty", "torn", "full"}, recs: SUBSET Recs]]
    /\ delivered \in [Recs -> 0 .. 2]
    /\ uncertain \subseteq Recs /\ lost \subseteq Recs /\ filed \subseteq Recs

\* Who drains holds the lock; who replays has a file, and what it read of it is
\* still there.
Locking ==
    \A p \in Procs :
        /\ wpc[p] \in Draining => lock = p
        /\ wpc[p] \in {"replay", "unlink"} =>
            cur[p].file \in Recs /\ cur[p].recs \subseteq spool[cur[p].file].recs
        /\ wpc[p] \notin {"replay", "unlink"} => cur[p] = NoCur

\* A file is named after one of its records; a record is in one file, and not
\* in memory as well.
Filing ==
    \A f \in Recs :
        /\ spool[f].recs # {} => f \in spool[f].recs
        /\ \A r \in spool[f].recs :
            /\ r[2] <= emitted[r[1]]
            /\ \A p \in Procs : r \notin InMemory(p)
            /\ \A g \in Recs : r \in spool[g].recs => f = g

\* A record that the server has, as far as the client knows, is nowhere it could
\* be sent from again: at most it is in the file being removed.
Once(r) ==
    /\ delivered[r] = 1
    /\ \A p \in Procs : r \notin InMemory(p) /\ (r \in cur[p].recs => wpc[p] = "unlink")
    /\ \A f \in Recs : r \in spool[f].recs =>
        \E q \in Procs : wpc[q] = "unlink" /\ cur[q].file = f /\ r \in cur[q].recs

Certain ==
    \A r \in Recs : delivered[r] # 0 =>
        r[2] <= emitted[r[1]] /\ (r \notin uncertain => Once(r))

SInv == SpoolTypes /\ Locking /\ Filing /\ Certain

-----------------------------------------------------------------------------
(* The spool and the server                                                *)

Shrinks == \A q \in Procs : InMemory(q)' \subseteq InMemory(q)

\* Steps that neither deliver nor touch a file.
LEMMA QuietStep ==
  ASSUME SInv, Shrinks, UNCHANGED <<delivered, uncertain, cur, emitted>>,
         \A f \in Recs : spool'[f].recs = spool[f].recs,
         \A q \in Procs : wpc'[q] = "unlink" <=> wpc[q] = "unlink"
  PROVE  Filing' /\ Certain'
  <1>1. Filing'
    BY Zenon DEF SInv, Filing, Shrinks
  <1>2. ASSUME NEW r \in Recs, Once(r) PROVE Once(r)'
    BY <1>2 DEF Once, Shrinks
  <1>3. Certain'
    BY <1>2, Zenon DEF SInv, Certain
  <1> QED BY <1>1, <1>3, Zenon

\* What Deliver does to one record.
LEMMA DeliverFacts ==
  ASSUME SpoolTypes, NEW recs, Deliver(recs)
  PROVE  /\ delivered' \in [Recs -> 0 .. 2]
         /\ \A r \in Recs : /\ r \notin recs => delivered'[r] = delivered[r]
                            /\ r \in recs => delivered'[r] > 0
                            /\ r \in recs /\ delivered[r] = 0 => delivered'[r] = 1
                            /\ delivered[r] > 0 => delivered'[r] > 0
BY DEF SpoolTypes, Deliver

\* A step whose deliveries are all uncertain, and which ends no removal.
LEMMA UncertainStep ==
  ASSUME SInv, NEW recs \in SUBSET Recs, Deliver(recs), recs \subseteq uncertain',
         uncertain \subseteq uncertain', Shrinks, emitted' = emitted,
         \A f \in Recs : spool'[f].recs = spool[f].recs,
         \A r \in recs : r[2] <= emitted[r[1]],
         \A q \in Procs : \A r \in Recs \ uncertain' :
            /\ r \in cur'[q].recs => r \in cur[q].recs /\ (wpc[q] = "unlink" => wpc'[q] = "unlink")
            /\ wpc[q] = "unlink" /\ r \in cur[q].recs => wpc'[q] = "unlink" /\ cur'[q] = cur[q]
  PROVE  Filing' /\ Certain'
  <1>1. Filing'
    BY Zenon DEF SInv, Filing, Shrinks
  <1>2. ASSUME NEW r \in Recs \ uncertain', Once(r) PROVE Once(r)'
    <2>1. delivered'[r] = 1
      BY <1>2, DeliverFacts, Zenon DEF Once, SInv
    <2>2. \A p \in Procs : r \notin InMemory(p)' /\ (r \in cur'[p].recs => wpc'[p] = "unlink")
      BY <1>2, ZenonT(40) DEF Once, Shrinks
    <2>3. ASSUME NEW f \in Recs, r \in spool'[f].recs
          PROVE  \E q \in Procs : wpc'[q] = "unlink" /\ cur'[q].file = f /\ r \in cur'[q].recs
      BY <1>2, <2>3 DEF Once
    <2> QED BY <2>1, <2>2, <2>3, Zenon DEF Once
  <1>3. Certain'
    <2> SUFFICES ASSUME NEW r \in Recs, delivered'[r] # 0
                 PROVE  r[2] <= emitted'[r[1]] /\ (r \notin uncertain' => Once(r)')
      BY Zenon DEF Certain
    <2>1. r \notin recs => delivered[r] # 0
      BY DeliverFacts, Zenon DEF SInv
    <2>2. r[2] <= emitted[r[1]]
      BY <2>1, Zenon DEF SInv, Certain
    <2>3. r \notin uncertain' => Once(r)
      BY <2>1, Zenon DEF SInv, Certain
    <2> QED BY <1>2, <2>2, <2>3, Zenon
  <1> QED BY <1>1, <1>3, Zenon

\* A new record is in no file, and the server does not have it.
LEMMA OnEventSpool ==
  ASSUME MInv, SInv, NEW p \in Procs, OnEvent(p)
  PROVE  SInv'
  <1> DEFINE new == <<p, emitted[p] + 1>>
  <1>1. UNCHANGED <<wpc, todo, cur, lock, spool, delivered, uncertain, lost, filed>>
    BY Zenon DEF OnEvent, workerVars
  <1>2. SpoolTypes' /\ Locking'
    BY <1>1, Zenon DEF SInv, SpoolTypes, Locking
  <1>3. emitted \in [Procs -> 0 .. MaxEvents]
    BY Zenon DEF MInv, MemoryTypes
  <1>4. ASSUME NEW r \in Recs, r[2] <= emitted[r[1]]
        PROVE  /\ r # new /\ r[2] <= emitted'[r[1]]
               /\ \A q \in Procs : r \notin InMemory(q) => r \notin InMemory(q)'
    <2>1. r[1] \in Procs /\ r[2] \in Nat
      BY RecFacts, Zenon
    <2>2. r # new
      <3>1. new[1] = p /\ new[2] = emitted[p] + 1
        OBVIOUS
      <3> QED BY <1>3, <1>4, <3>1, Sizes
    <2>3. r[2] <= emitted'[r[1]]
      BY <1>3, <1>4, <2>1, OnEventMemory, Sizes
    <2>4. \A q \in Procs : InMemory(q)' \subseteq InMemory(q) \cup {new}
      BY OnEventMemory, Zenon
    <2> QED BY <2>2, <2>3, <2>4, Zenon
  <1> HIDE DEF new
  <1>5. Filing'
    <2>1. \A f \in Recs : spool[f].recs \subseteq Recs
      BY Zenon DEF SInv, SpoolTypes
    <2> QED BY <1>1, <1>4, <2>1, Zenon DEF SInv, Filing
  <1>6. Certain'
    <2>1. ASSUME NEW r \in Recs, r[2] <= emitted[r[1]], Once(r) PROVE Once(r)'
      BY <1>1, <1>4, <2>1, ZenonT(40) DEF Once
    <2> QED BY <1>1, <1>4, <2>1, Zenon DEF SInv, Certain
  <1> QED BY <1>2, <1>5, <1>6, Zenon DEF SInv

\* The steps of the layer and of the worker that only move records in memory.
LEMMA QuietSpool ==
  ASSUME MInv, SInv, Shrinks, NEW p \in Procs, NEW w \in Phases \ {"drain", "replay", "unlink"},
         wpc[p] \notin Draining, wpc' = wpc \/ wpc' = [wpc EXCEPT ![p] = w],
         UNCHANGED <<todo, cur, lock, spool, emitted, delivered, uncertain, lost, filed>>
  PROVE  SInv'
  <1>1. wpc \in [Procs -> Phases]
    BY Zenon DEF MInv, MemoryTypes
  <1>2. \A q \in Procs : wpc'[q] = wpc[q] \/ (wpc'[q] \notin Draining /\ wpc[q] \notin Draining)
    BY <1>1, Zenon DEF Draining
  <1>3. SpoolTypes'
    BY Zenon DEF SInv, SpoolTypes
  <1>4. Locking'
    BY <1>2, Zenon DEF SInv, Locking, Draining
  <1>5. Filing' /\ Certain'
    BY <1>2, QuietStep, Zenon DEF Draining
  <1> QED BY <1>3, <1>4, <1>5, Zenon DEF SInv

\* A drain starts only when no other is under way.
LEMMA AcquireLockSpool ==
  ASSUME MInv, SInv, Shrinks, NEW p \in Procs, AcquireLock(p) \/ EndDrain(p)
  PROVE  SInv'
  <1>1. wpc \in [Procs -> Phases]
    BY Zenon DEF MInv, MemoryTypes
  <1>2. UNCHANGED <<cur, spool, emitted, delivered, uncertain, lost, filed>>
    BY Zenon DEF AcquireLock, EndDrain, clientVars
  <1>3. SpoolTypes'
    BY <1>2, ZenonT(40) DEF SInv, SpoolTypes, AcquireLock, EndDrain
  <1>4. \A q \in Procs : wpc'[q] = "unlink" <=> wpc[q] = "unlink"
    BY <1>1, Zenon DEF AcquireLock, EndDrain
  <1>5. \A q \in Procs \ {p} : wpc[q] \notin Draining /\ wpc'[q] = wpc[q]
    BY <1>1, Sizes, Zenon DEF SInv, Locking, AcquireLock, EndDrain, Draining
  <1>6. Locking'
    <2>1. CASE AcquireLock(p)
      <3>1. wpc'[p] = "drain" /\ lock' = p /\ wpc[p] = "lock"
        BY <1>1, <2>1, Zenon DEF AcquireLock
      <3> QED BY <1>2, <1>5, <3>1, Zenon DEF SInv, Locking, Draining
    <2>2. CASE EndDrain(p)
      <3>1. wpc'[p] = "idle" /\ wpc[p] = "drain"
        BY <1>1, <2>2, Zenon DEF EndDrain
      <3> QED BY <1>2, <1>5, <3>1, Zenon DEF SInv, Locking, Draining
    <2> QED BY <2>1, <2>2, Zenon
  <1>7. Filing' /\ Certain'
    BY <1>2, <1>4, QuietStep, Zenon
  <1> QED BY <1>3, <1>6, <1>7, Zenon DEF SInv

\* What is read of a file is in it.
LEMMA ReadBatchSpool ==
  ASSUME MInv, SInv, Shrinks, NEW p \in Procs, ReadBatch(p)
  PROVE  SInv'
  <1>1. wpc \in [Procs -> Phases]
    BY Zenon DEF MInv, MemoryTypes
  <1>2. UNCHANGED <<lock, spool, emitted, delivered, uncertain, lost, filed>> /\ wpc[p] = "drain"
    BY Zenon DEF ReadBatch, clientVars
  <1>3. PICK f \in todo[p] :
            /\ todo' = [todo EXCEPT ![p] = @ \ {f}]
            /\ \/ /\ spool[f].st \in {"empty", "full"}
                  /\ cur' = [cur EXCEPT ![p] = [file |-> f, recs |-> spool[f].recs]]
                  /\ wpc' = [wpc EXCEPT ![p] = "replay"]
               \/ spool[f].st \notin {"empty", "full"} /\ UNCHANGED <<cur, wpc>>
    BY Zenon DEF ReadBatch
  <1>4. f \in Recs /\ spool[f].recs \in SUBSET Recs
    BY <1>3, Zenon DEF SInv, SpoolTypes
  <1>5. CASE UNCHANGED <<cur, wpc>>
    <2>1. SpoolTypes' /\ Locking'
      BY <1>2, <1>3, <1>5, Zenon DEF SInv, SpoolTypes, Locking
    <2>2. Filing' /\ Certain'
      BY <1>2, <1>5, QuietStep, Zenon
    <2> QED BY <2>1, <2>2, Zenon DEF SInv
  <1>6. CASE /\ cur' = [cur EXCEPT ![p] = [file |-> f, recs |-> spool[f].recs]]
             /\ wpc' = [wpc EXCEPT ![p] = "replay"]
    <2>1. SpoolTypes'
      BY <1>2, <1>3, <1>4, <1>6, Zenon DEF SInv, SpoolTypes
    <2>2. /\ cur'[p] = [file |-> f, recs |-> spool[f].recs] /\ wpc'[p] = "replay"
          /\ \A q \in Procs \ {p} : cur'[q] = cur[q] /\ wpc'[q] = wpc[q]
      BY <1>1, <1>6, Zenon DEF SInv, SpoolTypes
    <2>3. \A q \in Procs \ {p} : wpc[q] \notin Draining
      BY <1>2, Sizes, ZenonT(40) DEF SInv, Locking, Draining
    <2>4. Locking'
      <3>1. lock' = p
        BY <1>2, Zenon DEF SInv, Locking, Draining
      <3> QED BY <1>2, <1>4, <2>2, <2>3, <3>1 DEF SInv, Locking, Draining
    <2>5. Filing'
      BY <1>2, Zenon DEF SInv, Filing, Shrinks
    <2>6. ASSUME NEW r \in Recs, Once(r) PROVE Once(r)'
      <3>1. \A g \in Recs : r \notin spool[g].recs
        BY <1>2, <2>3, <2>6, ZenonT(40) DEF Once, Draining
      <3>2. \A q \in Procs : r \notin cur'[q].recs
        BY <1>4, <2>2, <2>3, <2>6, <3>1 DEF Once, Draining
      <3> QED BY <1>2, <2>6, <3>1, <3>2, Zenon DEF Once, Shrinks
    <2>7. Certain'
      BY <1>2, <2>6, ZenonT(40) DEF SInv, Certain
    <2> QED BY <2>1, <2>4, <2>5, <2>7, Zenon DEF SInv
  <1> QED BY <1>3, <1>5, <1>6, Zenon

\* While one process drains, no other does, and the others hold no file.
LEMMA OneDrains ==
  ASSUME SInv, NEW p \in Procs, wpc[p] \in Draining
  PROVE  lock = p /\ \A q \in Procs \ {p} : wpc[q] \notin Draining /\ cur[q] = NoCur /\ cur[q].recs = {}
BY DEF SInv, Locking, Draining, NoCur

\* What a process read of a file is in that file, and not in memory.
LEMMA ReadFacts ==
  ASSUME SInv, NEW p \in Procs, NEW r \in cur[p].recs
  PROVE  /\ r \in Recs /\ cur[p].file \in Recs /\ r \in spool[cur[p].file].recs
         /\ r[2] <= emitted[r[1]]
         /\ \A q \in Procs : r \notin InMemory(q)
         /\ \A f \in Recs : r \in spool[f].recs => f = cur[p].file
  <1>1. cur[p].file \in Recs /\ cur[p].recs \subseteq spool[cur[p].file].recs
    BY DEF SInv, Locking, NoCur
  <1>2. r \in Recs
    BY Zenon DEF SInv, SpoolTypes
  <1> QED BY <1>1, <1>2, Zenon DEF SInv, Filing

\* A replay that succeeds delivers each record of its file for the first time, or one that was uncertain.
LEMMA ReplayOkSpool ==
  ASSUME MInv, SInv, Shrinks, NEW p \in Procs, ReplayOk(p)
  PROVE  SInv'
  <1>1. wpc \in [Procs -> Phases]
    BY Zenon DEF MInv, MemoryTypes
  <1>2. /\ wpc[p] = "replay" /\ Deliver(cur[p].recs)
        /\ UNCHANGED <<todo, cur, lock, spool, emitted, uncertain, lost, filed>>
    BY Zenon DEF ReplayOk, clientVars
  <1>3. wpc'[p] = "unlink" /\ \A q \in Procs \ {p} : wpc'[q] = wpc[q]
    BY <1>1, Zenon DEF ReplayOk
  <1>4. \A q \in Procs \ {p} : wpc[q] \notin Draining /\ cur[q].recs = {}
    BY <1>2, OneDrains, Zenon DEF Draining
  <1>5. /\ delivered' \in [Recs -> 0 .. 2]
        /\ \A r \in Recs : /\ r \notin cur[p].recs => delivered'[r] = delivered[r]
                           /\ r \in cur[p].recs /\ delivered[r] = 0 => delivered'[r] = 1
    BY <1>2, DeliverFacts, Zenon DEF SInv
  <1>6. SpoolTypes'
    BY <1>2, <1>5, Zenon DEF SInv, SpoolTypes
  <1>7. Locking'
    BY <1>2, <1>3, <1>4, ZenonT(40) DEF SInv, Locking, Draining
  <1>8. Filing'
    BY <1>2 DEF SInv, Filing, Shrinks
  <1>9. ASSUME NEW r \in Recs, delivered'[r] # 0
        PROVE  r[2] <= emitted'[r[1]] /\ (r \notin uncertain' => Once(r)')
    <2>1. CASE r \in cur[p].recs
      <3>1. r \notin uncertain => delivered[r] = 0
        BY <1>2, <2>1, Zenon DEF SInv, Certain, Once
      <3>2. r \notin uncertain => delivered'[r] = 1
        BY <1>5, <2>1, <3>1, Zenon
      <3>3. \A q \in Procs : r \notin InMemory(q)' /\ (r \in cur'[q].recs => wpc'[q] = "unlink")
        BY <1>2, <1>3, <1>4, <2>1, ReadFacts, Zenon DEF Shrinks
      <3>4. \A f \in Recs : r \in spool'[f].recs =>
                \E q \in Procs : wpc'[q] = "unlink" /\ cur'[q].file = f /\ r \in cur'[q].recs
        BY <1>2, <1>3, <2>1, ReadFacts, Zenon
      <3>5. r[2] <= emitted'[r[1]]
        BY <1>2, <2>1, ReadFacts, Zenon
      <3> QED BY <1>2, <3>2, <3>3, <3>4, <3>5, Zenon DEF Once
    <2>2. CASE r \notin cur[p].recs
      <3>1. delivered'[r] = delivered[r] /\ delivered[r] # 0
        BY <1>5, <1>9, <2>2, Zenon
      <3>2. r[2] <= emitted[r[1]] /\ (r \notin uncertain => Once(r))
        BY <3>1, Zenon DEF SInv, Certain
      <3>3. ASSUME Once(r) PROVE Once(r)'
        <4>1. \A f \in Recs : r \notin spool[f].recs
          BY <1>2, <1>4, <3>3, Zenon DEF Once, Draining
        <4> QED BY <1>2, <1>3, <2>2, <3>1, <3>3, <4>1 DEF Once, Shrinks
      <3> QED BY <1>2, <3>2, <3>3, Zenon
    <2> QED BY <2>1, <2>2, Zenon
  <1>10. Certain'
    BY <1>9, Zenon DEF Certain
  <1> QED BY <1>6, <1>7, <1>8, <1>10, ZenonT(40) DEF SInv

\* What a failed replay delivered is uncertain.
LEMMA ReplayFailsSpool ==
  ASSUME MInv, SInv, Shrinks, NEW p \in Procs, ReplayFails(p)
  PROVE  SInv'
  <1>1. wpc \in [Procs -> Phases] /\ cur \in [Procs -> [file: Recs \cup {None}, recs: SUBSET Recs]]
    BY Zenon DEF MInv, MemoryTypes, SInv, SpoolTypes
  <1>2. /\ wpc[p] = "replay" /\ UNCHANGED <<todo, lock, spool, emitted, lost, filed>>
        /\ cur' = [cur EXCEPT ![p] = NoCur]
    BY Zenon DEF ReplayFails, clientVars
  <1>3. PICK recs \in Prefixes(cur[p].recs) : Deliver(recs) /\ uncertain' = uncertain \cup recs
    BY Zenon DEF ReplayFails
  <1>4. recs \subseteq cur[p].recs /\ recs \in SUBSET Recs
    BY <1>1, PrefixIsPart, Zenon
  <1>5. /\ wpc'[p] = "drain" /\ cur'[p] = NoCur
        /\ \A q \in Procs \ {p} : wpc'[q] = wpc[q] /\ cur'[q] = cur[q]
    BY <1>1, <1>2, Zenon DEF ReplayFails
  <1>6. SpoolTypes'
    <2>1. delivered' \in [Recs -> 0 .. 2]
      BY <1>3, DeliverFacts, Zenon DEF SInv
    <2> QED BY <1>2, <1>3, <1>4, <2>1, Zenon DEF SInv, SpoolTypes, NoCur
  <1>7. Locking'
    BY <1>2, <1>5, Zenon DEF SInv, Locking, Draining
  <1>8. \A r \in recs : r[2] <= emitted[r[1]]
    BY <1>4, ReadFacts, Zenon
  <1>9. \A q \in Procs : \A r \in Recs \ uncertain' :
            /\ r \in cur'[q].recs => r \in cur[q].recs /\ (wpc[q] = "unlink" => wpc'[q] = "unlink")
            /\ wpc[q] = "unlink" /\ r \in cur[q].recs => wpc'[q] = "unlink" /\ cur'[q] = cur[q]
    BY <1>2, <1>5 DEF NoCur
  <1>10. Filing' /\ Certain'
    BY <1>2, <1>3, <1>4, <1>8, <1>9, UncertainStep, Zenon
  <1> QED BY <1>6, <1>7, <1>10, Zenon DEF SInv

\* A removed file held only delivered records; those of a file that stays are uncertain.
LEMMA RemoveBatchSpool ==
  ASSUME MInv, SInv, Shrinks, NEW p \in Procs, RemoveBatch(p)
  PROVE  SInv'
  <1>1. wpc \in [Procs -> Phases] /\ cur \in [Procs -> [file: Recs \cup {None}, recs: SUBSET Recs]]
    BY Zenon DEF MInv, MemoryTypes, SInv, SpoolTypes
  <1>2. /\ wpc[p] = "unlink" /\ UNCHANGED <<todo, lock, emitted, delivered, lost, filed>>
        /\ cur' = [cur EXCEPT ![p] = NoCur]
    BY Zenon DEF RemoveBatch, clientVars
  <1>3. /\ wpc'[p] = "drain" /\ cur'[p] = NoCur
        /\ \A q \in Procs \ {p} : wpc'[q] = wpc[q] /\ cur'[q] = cur[q]
    BY <1>1, <1>2, Zenon DEF RemoveBatch
  <1>4. \A q \in Procs \ {p} : wpc[q] \notin Draining /\ cur[q] = NoCur
    BY <1>2, OneDrains, Zenon DEF Draining
  <1>5. cur[p].file \in Recs
    BY <1>2, Zenon DEF SInv, Locking
  <1>6. Locking'
    BY <1>2, <1>3, <1>4, ZenonT(40) DEF SInv, Locking, Draining
  <1>7. CASE spool' = [spool EXCEPT ![cur[p].file] = NoFile] /\ UNCHANGED uncertain
    <2>1. SpoolTypes'
      BY <1>2, <1>7, ZenonT(30) DEF SInv, SpoolTypes, NoCur, NoFile
    <2>2. /\ spool'[cur[p].file].recs = {}
          /\ \A f \in Recs : spool'[f].recs \subseteq spool[f].recs
          /\ \A f \in Recs \ {cur[p].file} : spool'[f].recs = spool[f].recs
      BY <1>5, <1>7, Zenon DEF SInv, SpoolTypes, NoFile
    <2>3. Filing'
      <3>1. ASSUME NEW f \in Recs
            PROVE  spool'[f].recs # {} => f \in spool'[f].recs
        BY <2>2, Zenon DEF SInv, Filing
      <3>2. ASSUME NEW f \in Recs, NEW r \in spool'[f].recs
            PROVE  /\ r[2] <= emitted'[r[1]]
                   /\ \A q \in Procs : r \notin InMemory(q)'
                   /\ \A g \in Recs : r \in spool'[g].recs => f = g
        BY <1>2, <2>2, Zenon DEF SInv, Filing, Shrinks
      <3> QED BY <3>1, <3>2, Zenon DEF Filing
    <2>4. ASSUME NEW r \in Recs, Once(r) PROVE Once(r)'
      <3>1. \A f \in Recs : r \notin spool'[f].recs
        BY <1>4, <2>2, <2>4 DEF Once, Draining
      <3>2. \A q \in Procs : r \notin cur'[q].recs
        BY <1>3, <1>4 DEF NoCur
      <3> QED BY <1>2, <2>4, <3>1, <3>2, Zenon DEF Once, Shrinks
    <2>5. Certain'
      BY <1>2, <1>7, <2>4, Zenon DEF SInv, Certain
    <2> QED BY <1>6, <2>1, <2>3, <2>5, Zenon DEF SInv
  <1>8. CASE UNCHANGED spool /\ uncertain' = uncertain \cup cur[p].recs
    <2>1. SpoolTypes'
      BY <1>1, <1>2, <1>8, Zenon DEF SInv, SpoolTypes, NoCur
    <2>2. {} \in SUBSET Recs /\ Deliver({})
      BY <1>2, Zenon DEF SInv, SpoolTypes, Deliver
    <2>3. \A q \in Procs : \A r \in Recs \ uncertain' :
            /\ r \in cur'[q].recs => r \in cur[q].recs /\ (wpc[q] = "unlink" => wpc'[q] = "unlink")
            /\ wpc[q] = "unlink" /\ r \in cur[q].recs => wpc'[q] = "unlink" /\ cur'[q] = cur[q]
      BY <1>3, <1>8 DEF NoCur
    <2>4. Filing' /\ Certain'
      BY <1>2, <1>8, <2>2, <2>3, UncertainStep, Zenon
    <2> QED BY <1>6, <2>1, <2>4, Zenon DEF SInv
  <1> QED BY <1>7, <1>8, Zenon DEF RemoveBatch

\* A record in a job is nowhere else, and the server does not have it for certain.
LEMMA JobFacts ==
  ASSUME MInv, SInv, NEW p \in Procs, NEW r \in job[p].recs
  PROVE  /\ r \in Recs /\ r[1] = p /\ r[2] <= emitted[r[1]] /\ r \in InMemory(p)
         /\ \A q \in Procs \ {p} : r \notin InMemory(q)
         /\ \A f \in Recs : r \notin spool[f].recs
         /\ \A q \in Procs : r \notin cur[q].recs
         /\ ~ Once(r) /\ (r \notin uncertain => delivered[r] = 0)
  <1>1. r \in InMemory(p)
    BY Zenon DEF InMemory
  <1>2. r \in Recs /\ r[1] = p /\ r[2] <= emitted[p]
    BY <1>1, QueuedFacts, Zenon
  <1>3. \A q \in Procs \ {p} : r \notin InMemory(q)
    BY <1>2, QueuedFacts, Zenon
  <1>4. \A f \in Recs : r \notin spool[f].recs
    BY <1>1, Zenon DEF SInv, Filing
  <1>5. \A q \in Procs : r \notin cur[q].recs
    BY <1>1, ReadFacts, Zenon
  <1>6. ~ Once(r)
    BY <1>1, Zenon DEF Once
  <1> QED BY <1>1, <1>2, <1>3, <1>4, <1>5, <1>6, Zenon DEF SInv, Certain

\* An export that succeeds delivers records that are in memory alone.
LEMMA ExportOkSpool ==
  ASSUME MInv, SInv, Shrinks, NEW p \in Procs, ExportOk(p)
  PROVE  SInv'
  <1>1. wpc \in [Procs -> Phases]
    BY Zenon DEF MInv, MemoryTypes
  <1>2. /\ wpc[p] = "export" /\ Deliver(job[p].recs) /\ EndJob(p, "ok")
        /\ UNCHANGED <<chan, batch, todo, cur, lock, spool, emitted, uncertain, lost, filed>>
    BY Zenon DEF ExportOk
  <1>3. wpc'[p] \in {"stopped", "idle"} /\ \A q \in Procs \ {p} : wpc'[q] = wpc[q]
    BY <1>1, <1>2, Zenon DEF EndJob
  <1>4. \A q \in Procs : wpc'[q] = "unlink" <=> wpc[q] = "unlink"
    BY <1>2, <1>3, Zenon
  <1>5. /\ delivered' \in [Recs -> 0 .. 2]
        /\ \A r \in Recs : /\ r \notin job[p].recs => delivered'[r] = delivered[r]
                           /\ r \in job[p].recs /\ delivered[r] = 0 => delivered'[r] = 1
    BY <1>2, DeliverFacts, Zenon DEF SInv
  <1>6. SpoolTypes'
    BY <1>2, <1>5, Zenon DEF SInv, SpoolTypes
  <1>7. Locking'
    BY <1>2, <1>3, Zenon DEF SInv, Locking, Draining
  <1>8. Filing'
    BY <1>2, Zenon DEF SInv, Filing, Shrinks
  <1>9. InMemory(p)' = InMemory(p) \ job[p].recs
    BY <1>2, EndJobStep, Zenon DEF Exporting
  <1>10. ASSUME NEW r \in Recs, delivered'[r] # 0
         PROVE  r[2] <= emitted'[r[1]] /\ (r \notin uncertain' => Once(r)')
    <2>1. CASE r \in job[p].recs
      <3>1. r \notin uncertain => delivered'[r] = 1
        BY <1>5, <2>1, JobFacts, Zenon
      <3>2. \A q \in Procs : r \notin InMemory(q)' /\ r \notin cur'[q].recs
        BY <1>2, <1>9, <2>1, JobFacts, Zenon DEF Shrinks
      <3>3. \A f \in Recs : r \notin spool'[f].recs
        BY <1>2, <2>1, JobFacts, Zenon
      <3>4. r[2] <= emitted'[r[1]]
        BY <1>2, <2>1, JobFacts, Zenon
      <3> QED BY <1>2, <3>1, <3>2, <3>3, <3>4, Zenon DEF Once
    <2>2. CASE r \notin job[p].recs
      <3>1. delivered'[r] = delivered[r] /\ delivered[r] # 0
        BY <1>5, <1>10, <2>2, Zenon
      <3>2. r[2] <= emitted[r[1]] /\ (r \notin uncertain => Once(r))
        BY <3>1, Zenon DEF SInv, Certain
      <3>3. ASSUME Once(r) PROVE Once(r)'
        BY <1>2, <1>4, <3>1, <3>3, SMTT(20) DEF Once, Shrinks
      <3> QED BY <1>2, <3>2, <3>3, Zenon
    <2> QED BY <2>1, <2>2, Zenon
  <1>11. Certain'
    BY <1>10, Zenon DEF Certain
  <1> QED BY <1>6, <1>7, <1>8, <1>11, Zenon DEF SInv

\* What a failed export delivered is uncertain.
LEMMA ExportFailsSpool ==
  ASSUME MInv, SInv, Shrinks, NEW p \in Procs, ExportFails(p)
  PROVE  SInv'
  <1>1. wpc \in [Procs -> Phases]
    BY Zenon DEF MInv, MemoryTypes
  <1>2. wpc[p] = "export" /\ UNCHANGED <<todo, cur, lock, spool, emitted, lost, filed>>
    BY Zenon DEF ExportFails, clientVars
  <1>3. PICK recs \in Prefixes(job[p].recs) : Deliver(recs) /\ uncertain' = uncertain \cup recs
    BY Zenon DEF ExportFails
  <1>4. recs \subseteq job[p].recs /\ recs \in SUBSET Recs /\ \A r \in recs : r[2] <= emitted[r[1]]
    BY PrefixIsPart, JobFacts
  <1>5. wpc'[p] = "create" /\ \A q \in Procs \ {p} : wpc'[q] = wpc[q]
    BY <1>1, <1>2, Zenon DEF ExportFails
  <1>6. SpoolTypes'
    <2>1. delivered' \in [Recs -> 0 .. 2]
      BY <1>3, DeliverFacts, Zenon DEF SInv
    <2> QED BY <1>2, <1>3, <1>4, <2>1, Zenon DEF SInv, SpoolTypes
  <1>7. Locking'
    BY <1>2, <1>5, Zenon DEF SInv, Locking, Draining
  <1>8. \A q \in Procs : \A r \in Recs \ uncertain' :
            /\ r \in cur'[q].recs => r \in cur[q].recs /\ (wpc[q] = "unlink" => wpc'[q] = "unlink")
            /\ wpc[q] = "unlink" /\ r \in cur[q].recs => wpc'[q] = "unlink" /\ cur'[q] = cur[q]
    BY <1>2, <1>5, Zenon
  <1>9. Filing' /\ Certain'
    BY <1>2, <1>3, <1>4, <1>8, UncertainStep, ZenonT(40)
  <1> QED BY <1>6, <1>7, <1>9, Zenon DEF SInv

\* The file a job is written to has none of its records yet.
LEMMA JobFile ==
  ASSUME MInv, SInv, NEW p \in Procs, wpc[p] \in Exporting
  PROVE  FileOf(job[p].recs) \in job[p].recs /\ FileOf(job[p].recs) \in Recs
         /\ spool[FileOf(job[p].recs)].recs = {}
  <1>1. job[p].recs \in SUBSET Recs /\ job[p].recs # {}
    BY Zenon DEF MInv, MemoryTypes, MemoryOK
  <1>2. FileOf(job[p].recs) \in job[p].recs
    BY <1>1, FileOfIsMember, Zenon
  <1>3. FileOf(job[p].recs) \in InMemory(p) /\ FileOf(job[p].recs) \in Recs
    BY <1>1, <1>2, Zenon DEF InMemory
  <1> QED BY <1>2, <1>3 DEF SInv, Filing

\* Creating a file, and failing to create or fill it, store no record.
LEMMA UnfiledSpool ==
  ASSUME MInv, SInv, Shrinks, NEW p \in Procs, CreateBatch(p) \/ SpoolFails(p)
  PROVE  SInv'
  <1> DEFINE f == FileOf(job[p].recs)
  <1>1. wpc \in [Procs -> Phases] /\ spool \in [Recs -> [st: {"absent", "empty", "torn", "full"}, recs: SUBSET Recs]]
    BY Zenon DEF MInv, MemoryTypes, SInv, SpoolTypes
  <1>2. wpc[p] \in {"create", "fill"} /\ UNCHANGED <<todo, cur, lock, emitted, delivered, uncertain, filed>>
    BY Zenon DEF CreateBatch, SpoolFails, clientVars
  <1>3. f \in Recs /\ spool[f].recs = {} /\ job[p].recs \subseteq Recs
    BY <1>2, JobFile, Zenon DEF Exporting, MInv, MemoryTypes
  <1>4. wpc'[p] \in {"fill", "stopped", "idle"} /\ \A q \in Procs \ {p} : wpc'[q] = wpc[q]
    BY <1>1, Zenon DEF CreateBatch, SpoolFails, EndJob
  <1>5. /\ spool' \in [Recs -> [st: {"absent", "empty", "torn", "full"}, recs: SUBSET Recs]]
        /\ \A g \in Recs : spool'[g].recs = spool[g].recs
    <2>1. \/ spool' = [spool EXCEPT ![f] = [st |-> "empty", recs |-> {}]]
          \/ spool' = spool
          \/ spool' = [spool EXCEPT ![f].st = "torn"]
      BY Zenon DEF CreateBatch, SpoolFails
    <2> HIDE DEF f
    <2>2. CASE spool' = [spool EXCEPT ![f] = [st |-> "empty", recs |-> {}]]
      BY <1>1, <1>3, <2>2, Zenon
    <2>3. CASE spool' = [spool EXCEPT ![f].st = "torn"]
      <3>1. /\ spool'[f] = [spool[f] EXCEPT !.st = "torn"]
            /\ \A g \in Recs \ {f} : spool'[g] = spool[g]
        BY <1>1, <1>3, <2>3, Zenon
      <3>2. spool'[f].recs = spool[f].recs
        BY <1>1, <1>3, <3>1
      <3>3. \A g \in Recs : spool'[g].recs = spool[g].recs
        BY <3>1, <3>2, ZenonT(30)
      <3> QED BY <1>1, <1>3, <2>3, <3>3
    <2> QED BY <1>1, <2>1, <2>2, <2>3, Zenon
  <1>6. lost' \subseteq Recs
    BY <1>3, Zenon DEF CreateBatch, SpoolFails, SInv, SpoolTypes
  <1>7. SpoolTypes'
    BY <1>2, <1>5, <1>6, Zenon DEF SInv, SpoolTypes
  <1>8. Locking'
    BY <1>2, <1>4, <1>5, Zenon DEF SInv, Locking, Draining
  <1>9. \A q \in Procs : wpc'[q] = "unlink" <=> wpc[q] = "unlink"
    BY <1>2, <1>4, Zenon
  <1>10. Filing' /\ Certain'
    BY <1>2, <1>5, <1>9, QuietStep, ZenonT(40)
  <1> QED BY <1>7, <1>8, <1>10, Zenon DEF SInv

\* The records of a spooled batch move from memory to one file.
LEMMA FillBatchSpool ==
  ASSUME MInv, SInv, Shrinks, NEW p \in Procs, FillBatch(p)
  PROVE  SInv'
  <1> DEFINE f == FileOf(job[p].recs)
             recs == job[p].recs
  <1>1. /\ wpc \in [Procs -> Phases] /\ recs \subseteq Recs
        /\ spool \in [Recs -> [st: {"absent", "empty", "torn", "full"}, recs: SUBSET Recs]]
    BY Zenon DEF MInv, MemoryTypes, SInv, SpoolTypes
  <1>2. /\ wpc[p] = "fill" /\ EndJob(p, "err") /\ filed' = filed \cup recs
        /\ UNCHANGED <<chan, batch, todo, cur, lock, emitted, delivered, uncertain, lost>>
        /\ spool' = [spool EXCEPT ![f] = IF @.st = "empty" THEN [st |-> "full", recs |-> recs] ELSE @]
    BY Zenon DEF FillBatch
  <1>3. f \in Recs /\ f \in recs /\ spool[f].recs = {}
    BY <1>2, JobFile, Zenon DEF Exporting
  <1>4. wpc'[p] \in {"stopped", "idle"} /\ \A q \in Procs \ {p} : wpc'[q] = wpc[q]
    BY <1>1, <1>2, Zenon DEF EndJob
  <1>5. InMemory(p)' = InMemory(p) \ recs
    BY <1>2, EndJobStep, Zenon DEF Exporting
  <1> HIDE DEF f, recs
  <1>6. /\ spool' \in [Recs -> [st: {"absent", "empty", "torn", "full"}, recs: SUBSET Recs]]
        /\ \A g \in Recs \ {f} : spool'[g].recs = spool[g].recs
        /\ spool'[f].recs \in {recs, {}}
    BY <1>1, <1>2, <1>3, Zenon
  <1>7. SpoolTypes'
    BY <1>1, <1>2, <1>6, Zenon DEF SInv, SpoolTypes
  <1>8. Locking'
    <2>1. \A g \in Recs : spool[g].recs \subseteq spool'[g].recs
      BY <1>3, <1>6, Zenon
    <2> QED BY <1>2, <1>4, <2>1, Zenon DEF SInv, Locking, Draining
  <1>9. ASSUME NEW r \in recs
        PROVE  /\ r \in Recs /\ r[2] <= emitted'[r[1]] /\ ~ Once(r)
               /\ \A q \in Procs : r \notin InMemory(q)'
               /\ \A g \in Recs : r \notin spool[g].recs
    <2>1. r \in job[p].recs
      BY Zenon DEF recs
    <2> QED BY <1>2, <1>5, <2>1, JobFacts, Zenon DEF Shrinks
  <1>10. Filing'
    <2>1. ASSUME NEW g \in Recs PROVE spool'[g].recs # {} => g \in spool'[g].recs
      BY <1>3, <1>6 DEF SInv, Filing
    <2>2. ASSUME NEW g \in Recs, NEW r \in spool'[g].recs
          PROVE  /\ r[2] <= emitted'[r[1]]
                 /\ \A q \in Procs : r \notin InMemory(q)'
                 /\ \A h \in Recs : r \in spool'[h].recs => g = h
      <3>1. CASE r \in recs
        BY <1>6, <1>9, <2>2, <3>1, Zenon
      <3>2. CASE r \notin recs
        <4>1. \A h \in Recs : r \in spool'[h].recs => r \in spool[h].recs
          BY <1>6, <3>2, ZenonT(40)
        <4> QED BY <1>2, <2>2, <4>1, Zenon DEF SInv, Filing, Shrinks
      <3> QED BY <3>1, <3>2, Zenon
    <2> QED BY <2>1, <2>2, Zenon DEF Filing
  <1>11. ASSUME NEW r \in Recs, Once(r) PROVE Once(r)'
    <2>1. r \notin recs
      BY <1>9, <1>11, Zenon
    <2>2. \A h \in Recs : r \in spool'[h].recs => r \in spool[h].recs
      BY <1>6, <2>1, Zenon
    <2>3. \A q \in Procs : wpc'[q] = "unlink" <=> wpc[q] = "unlink"
      BY <1>2, <1>4, Zenon
    <2> QED BY <1>2, <1>11, <2>2, <2>3 DEF Once, Shrinks
  <1>12. Certain'
    BY <1>2, <1>11, Zenon DEF SInv, Certain
  <1> QED BY <1>7, <1>8, <1>10, <1>12, Zenon DEF SInv

\* What was on the wire or under removal at a crash is uncertain.
LEMMA CrashKeepsSpool ==
  ASSUME MInv, SInv, Shrinks, NEW p \in Procs, Crash(p)
  PROVE  SInv'
  <1> DEFINE wire == CASE wpc[p] = "export" -> job[p].recs
                       [] wpc[p] = "replay" -> cur[p].recs
                       [] OTHER -> {}
  <1>1. wpc \in [Procs -> Phases] /\ cur \in [Procs -> [file: Recs \cup {None}, recs: SUBSET Recs]]
    BY Zenon DEF MInv, MemoryTypes, SInv, SpoolTypes
  <1>2. /\ UNCHANGED <<emitted, spool, filed>> /\ cur' = [cur EXCEPT ![p] = NoCur]
        /\ todo' = [todo EXCEPT ![p] = {}] /\ lock' = IF lock = p THEN None ELSE lock
        /\ lost' = lost \cup Queued(p) \cup batch[p] \cup job[p].recs
        /\ wpc' = [wpc EXCEPT ![p] = "stopped"]
    BY Zenon DEF Crash
  <1>3. PICK recs \in Prefixes(wire) :
            /\ Deliver(recs)
            /\ uncertain' = uncertain \cup recs \cup (IF wpc[p] = "unlink" THEN cur[p].recs ELSE {})
    BY Zenon DEF Crash
  <1>4. recs \subseteq wire
    BY PrefixIsPart, Zenon
  <1>5. recs \subseteq Recs /\ \A r \in recs : r[2] <= emitted[r[1]]
    <2>1. \A r \in wire : r \in job[p].recs \/ r \in cur[p].recs
      OBVIOUS
    <2> HIDE DEF wire
    <2> QED BY <1>4, <2>1, JobFacts, ReadFacts, Zenon
  <1> HIDE DEF wire
  <1>6. /\ wpc'[p] = "stopped" /\ cur'[p] = NoCur
        /\ \A q \in Procs \ {p} : wpc'[q] = wpc[q] /\ cur'[q] = cur[q]
    BY <1>1, <1>2, Zenon
  <1>7. SpoolTypes'
    <2>1. delivered' \in [Recs -> 0 .. 2]
      BY <1>3, DeliverFacts, Zenon DEF SInv
    <2>2. lost' \subseteq Recs
      BY <1>2, QueuedFacts, Zenon DEF SInv, SpoolTypes, MInv, MemoryTypes
    <2>3. uncertain' \subseteq Recs
      BY <1>1, <1>3, <1>5, Zenon DEF SInv, SpoolTypes
    <2> QED BY <1>2, <2>1, <2>2, <2>3, Zenon DEF SInv, SpoolTypes, NoCur
  <1>8. Locking'
    BY <1>2, <1>6, Zenon DEF SInv, Locking, Draining
  <1>9. \A q \in Procs : \A r \in Recs \ uncertain' :
            /\ r \in cur'[q].recs => r \in cur[q].recs /\ (wpc[q] = "unlink" => wpc'[q] = "unlink")
            /\ wpc[q] = "unlink" /\ r \in cur[q].recs => wpc'[q] = "unlink" /\ cur'[q] = cur[q]
    <2>1. cur'[p].recs = {} /\ (wpc[p] = "unlink" => cur[p].recs \subseteq uncertain')
      BY <1>3, <1>6 DEF NoCur
    <2>2. \A q \in Procs \ {p} : wpc'[q] = wpc[q] /\ cur'[q] = cur[q]
      BY <1>6, Zenon
    <2> QED BY <2>1, <2>2, ZenonT(30)
  <1>10. Filing' /\ Certain'
    <2>1. recs \in SUBSET Recs /\ recs \subseteq uncertain' /\ uncertain \subseteq uncertain'
      BY <1>3, <1>5, Zenon
    <2> QED BY <1>2, <1>3, <1>5, <1>9, <2>1, UncertainStep, Zenon
  <1> QED BY <1>7, <1>8, <1>10, Zenon DEF SInv

\* Every step keeps the spool in order.
LEMMA SpoolNext ==
  ASSUME MInv, SInv, [Next]_vars
  PROVE  SInv'
  <1>1. CASE UNCHANGED vars
    <2>1. UNCHANGED <<chan, batch, job, wpc, emitted, todo, cur, lock, spool, delivered,
                      uncertain, lost, filed>>
      BY <1>1, Zenon DEF vars, clientVars, workerVars
    <2>2. Shrinks
      BY <2>1, Zenon DEF Shrinks, InMemory, Queued
    <2>3. SpoolTypes' /\ Locking'
      BY <2>1, Zenon DEF SInv, SpoolTypes, Locking
    <2>4. Filing' /\ Certain'
      BY <2>1, <2>2, QuietStep, Zenon
    <2> QED BY <2>3, <2>4, Zenon DEF SInv
  <1>2. CASE \E p \in Procs : OnEvent(p)
    BY <1>2, OnEventSpool, Zenon
  <1>3. CASE Next /\ Shrinks
    <2> PICK p \in Procs :
            \/ OnEvent(p) \/ Flush(p) \/ DropLayer(p)
            \/ Drain(p) \/ SkipDrain(p) \/ Run(p) \/ Crash(p) \/ Restart(p)
      BY <1>3, Zenon DEF Next
    <2>1. CASE OnEvent(p)
      BY <2>1, OnEventSpool, Zenon
    <2>2. CASE Flush(p) \/ DropLayer(p) \/ RecvRecord(p) \/ RecvFlush(p) \/ Interval(p)
                \/ RecvClosed(p) \/ Restart(p) \/ SkipDrain(p)
      <3>1. UNCHANGED <<todo, cur, lock, spool, emitted, delivered, uncertain, lost, filed>>
        BY <2>2, Zenon DEF Flush, DropLayer, RecvRecord, RecvFlush, Interval, RecvClosed, Restart,
                    SkipDrain, clientVars, workerVars
      <3>2. CASE UNCHANGED wpc
        <4>1. SpoolTypes' /\ Locking'
          BY <3>1, <3>2, Zenon DEF SInv, SpoolTypes, Locking
        <4>2. Filing' /\ Certain'
          BY <1>3, <3>1, <3>2, QuietStep, ZenonT(40)
        <4> QED BY <4>1, <4>2, Zenon DEF SInv
      <3>3. CASE wpc' # wpc
        <4>1. /\ wpc[p] \in {"idle", "stopped", "lock"}
              /\ \E w \in {"export", "stopped", "lock", "idle"} : wpc' = [wpc EXCEPT ![p] = w]
          BY <2>2, <3>3, Zenon DEF Flush, DropLayer, RecvRecord, RecvFlush, Interval, RecvClosed, Restart,
                            SkipDrain, Export, workerVars
        <4>2. PICK w \in Phases \ {"drain", "replay", "unlink"} : wpc' = [wpc EXCEPT ![p] = w]
          BY <4>1, ZenonT(30) DEF Phases
        <4>3. wpc[p] \notin Draining
          BY <4>1, Zenon DEF Draining
        <4> QED BY <1>3, <3>1, <4>2, <4>3, QuietSpool, ZenonT(30)
      <3> QED BY <3>2, <3>3, Zenon
    <2>3. CASE Drain(p)
      BY <1>3, <2>3, AcquireLockSpool, ReadBatchSpool, ReplayOkSpool, ReplayFailsSpool,
         RemoveBatchSpool, ZenonT(40) DEF Drain
    <2>4. CASE ExportOk(p) \/ ExportFails(p) \/ CreateBatch(p) \/ FillBatch(p) \/ SpoolFails(p)
      BY <1>3, <2>4, ExportOkSpool, ExportFailsSpool, UnfiledSpool, FillBatchSpool, ZenonT(40)
    <2>5. CASE Crash(p)
      BY <1>3, <2>5, CrashKeepsSpool, Zenon
    <2> QED BY <2>1, <2>2, <2>3, <2>4, <2>5, Zenon DEF Run
  <1> QED BY <1>1, <1>2, <1>3, MemoryNext, Zenon DEF Shrinks

\* In the initial states the spool is empty and the server has nothing.
LEMMA InitSpool ==
  ASSUME Init
  PROVE  SInv
  <1> USE DEF Init, NoJob, NoCur, NoFile
  <1>1. SpoolTypes
    BY SMTT(20) DEF SpoolTypes
  <1>2. Locking
    BY Zenon DEF Locking, Draining
  <1>3. Filing /\ Certain
    BY Zenon DEF Filing, Certain
  <1> QED BY <1>1, <1>2, <1>3, ZenonT(40) DEF SInv

\* In every reachable state memory and the spool are in order: drains exclude each
\* other, and a record is in one place only.
THEOREM ExporterInductive == Spec => [](MInv /\ SInv)
  <1>1. MInv /\ SInv /\ [Next]_vars => SInv'
    BY SpoolNext, Zenon
  <1> QED BY <1>1, InitSpool, MemoryInductive, PTL DEF Spec

\* A record reaches the server twice only if some attempt to deliver it ended
\* without the client knowing that it had, for any number of processes that share a
\* queue directory.
THEOREM DuplicateSafety == Spec => []DuplicatesOnlyWhenUncertain
  <1>1. SInv => DuplicatesOnlyWhenUncertain
    <2> SUFFICES ASSUME Certain, NEW r \in Recs, delivered[r] = 2
                 PROVE  r \in uncertain
      BY Zenon DEF SInv, DuplicatesOnlyWhenUncertain
    <2>1. delivered[r] # 0 /\ delivered[r] # 1
      OBVIOUS
    <2> QED BY <2>1, Zenon DEF Certain, Once
  <1> QED BY <1>1, ExporterInductive, PTL

\* With a single process nobody reads a file that is being written.
OneProcess == \A p, q \in Procs : p = q

Kept ==
    /\ SpooledUntilDelivered
    /\ \A p \in Procs :
        /\ wpc[p] = "unlink" => \A r \in cur[p].recs : delivered[r] > 0
        /\ wpc[p] \in {"replay", "unlink"} => spool[cur[p].file].recs = cur[p].recs
        /\ wpc[p] = "fill" => spool[FileOf(job[p].recs)].st = "empty"

-----------------------------------------------------------------------------
(* Spooled batches of a single process                                     *)

\* A step that keeps what is filed keeps it spooled or delivered.
LEMMA StaysSpooled ==
  ASSUME SInv, SpooledUntilDelivered, filed' = filed,
         \A f \in Recs : \A r \in spool[f].recs : r \in spool'[f].recs \/ delivered'[r] > 0,
         \A r \in Recs : delivered[r] > 0 => delivered'[r] > 0
  PROVE  SpooledUntilDelivered'
  <1> SUFFICES ASSUME NEW r \in filed PROVE r \in Spooled' \/ delivered'[r] > 0
    BY Zenon DEF SpooledUntilDelivered
  <1>1. r \in Recs
    BY Zenon DEF SInv, SpoolTypes
  <1>2. CASE r \in Spooled
    <2>1. PICK f \in Recs : r \in spool[f].recs
      BY <1>2, Zenon DEF Spooled
    <2> QED BY <2>1, Zenon DEF Spooled
  <1>3. CASE delivered[r] > 0
    BY <1>1, <1>3, Zenon
  <1> QED BY <1>2, <1>3, Zenon DEF SpooledUntilDelivered

\* Steps that change no file.
LEMMA QuietKept ==
  ASSUME SInv, Kept, UNCHANGED <<spool, filed>>,
         \A r \in Recs : delivered[r] > 0 => delivered'[r] > 0,
         \A p \in Procs :
            /\ wpc'[p] = "unlink" => /\ cur'[p] = cur[p] /\ wpc[p] \in {"replay", "unlink"}
                                     /\ \A r \in cur[p].recs : delivered'[r] > 0
            /\ wpc'[p] = "replay" => spool[cur'[p].file].recs = cur'[p].recs
            /\ wpc'[p] = "fill" => wpc[p] = "fill" /\ job'[p] = job[p]
  PROVE  Kept'
  <1>1. SpooledUntilDelivered'
    BY StaysSpooled, ZenonT(40) DEF Kept
  <1>2. ASSUME NEW p \in Procs
        PROVE  /\ wpc'[p] = "unlink" => \A r \in cur'[p].recs : delivered'[r] > 0
               /\ wpc'[p] \in {"replay", "unlink"} => spool'[cur'[p].file].recs = cur'[p].recs
               /\ wpc'[p] = "fill" => spool'[FileOf(job'[p].recs)].st = "empty"
    BY DEF Kept
  <1> QED BY <1>1, <1>2, Zenon DEF Kept

\* A file is removed after its records were delivered.
LEMMA RemoveBatchKept ==
  ASSUME OneProcess, MInv, SInv, Kept, NEW p \in Procs, RemoveBatch(p)
  PROVE  Kept'
  <1> DEFINE f == cur[p].file
  <1>1. /\ wpc[p] = "unlink" /\ wpc' = [wpc EXCEPT ![p] = "drain"]
        /\ UNCHANGED <<job, delivered, filed>>
        /\ spool' = [spool EXCEPT ![f] = NoFile] \/ UNCHANGED spool
    BY Zenon DEF RemoveBatch, clientVars
  <1>2. /\ f \in Recs /\ spool[f].recs = cur[p].recs /\ cur[p].recs \subseteq Recs
        /\ \A r \in cur[p].recs : delivered[r] > 0
    BY <1>1, Zenon DEF SInv, SpoolTypes, Locking, Kept
  <1>3. \A g \in Recs : \A r \in spool[g].recs : r \in spool'[g].recs \/ delivered'[r] > 0
    BY <1>1, <1>2, Zenon DEF SInv, SpoolTypes
  <1>4. SpooledUntilDelivered'
    BY <1>1, <1>3, StaysSpooled, Zenon DEF Kept
  <1>5. \A q \in Procs : wpc'[q] = "drain"
    BY <1>1, Zenon DEF MInv, MemoryTypes, OneProcess
  <1> QED BY <1>4, <1>5, Zenon DEF Kept

\* A failed batch is written to a file that nobody else holds.
LEMMA SpoolingKept ==
  ASSUME OneProcess, MInv, SInv, Kept, NEW p \in Procs,
         CreateBatch(p) \/ FillBatch(p) \/ SpoolFails(p)
  PROVE  Kept'
  <1> DEFINE f == FileOf(job[p].recs)
  <1>1. /\ wpc[p] \in {"create", "fill"} /\ delivered' = delivered
        /\ spool \in [Recs -> [st: {"absent", "empty", "torn", "full"}, recs: SUBSET Recs]]
    BY Zenon DEF CreateBatch, FillBatch, SpoolFails, SInv, SpoolTypes
  <1>2. f \in Recs /\ spool[f].recs = {} /\ job[p].recs \subseteq Recs
    BY <1>1, JobFile, Zenon DEF Exporting, MInv, MemoryTypes
  <1>3. CASE CreateBatch(p)
    <2>1. /\ spool' = [spool EXCEPT ![f] = [st |-> "empty", recs |-> {}]] /\ UNCHANGED <<job, filed>>
          /\ wpc' = [wpc EXCEPT ![p] = "fill"]
      BY <1>3, Zenon DEF CreateBatch
    <2> HIDE DEF f
    <2>2. spool'[f].st = "empty" /\ \A g \in Recs : spool'[g].recs = spool[g].recs
      BY <1>1, <1>2, <2>1, Zenon
    <2>3. SpooledUntilDelivered'
      BY <1>1, <2>1, <2>2, StaysSpooled, Zenon DEF Kept
    <2>4. \A q \in Procs : wpc'[q] = "fill" /\ job'[q] = job[p]
      BY <2>1, Zenon DEF MInv, MemoryTypes, OneProcess
    <2>5. \A q \in Procs : spool'[FileOf(job'[q].recs)].st = "empty"
      BY <2>2, <2>4, Zenon DEF f
    <2> QED BY <2>3, <2>4, <2>5, Zenon DEF Kept
  <1>4. CASE FillBatch(p) \/ SpoolFails(p)
    <2>1. \A q \in Procs : wpc'[q] \in {"stopped", "idle"}
      BY <1>4, Zenon DEF FillBatch, SpoolFails, EndJob, MInv, MemoryTypes, OneProcess
    <2>2. SpooledUntilDelivered'
      <3>1. CASE FillBatch(p)
        <4>1. /\ spool' = [spool EXCEPT ![f] = IF @.st = "empty" THEN [st |-> "full", recs |-> job[p].recs]
                                                                 ELSE @]
              /\ filed' = filed \cup job[p].recs
          BY <3>1, Zenon DEF FillBatch
        <4>2. spool[f].st = "empty"
          BY <3>1, Zenon DEF FillBatch, Kept
        <4> HIDE DEF f
        <4>3. spool'[f].recs = job[p].recs /\ \A g \in Recs \ {f} : spool'[g] = spool[g]
          BY <1>1, <1>2, <4>1, <4>2, Zenon
        <4>4. job[p].recs \subseteq Spooled' /\ Spooled \subseteq Spooled'
          BY <1>2, <4>3, Zenon DEF Spooled
        <4> QED BY <1>1, <4>1, <4>4, Zenon DEF Kept, SpooledUntilDelivered
      <3>2. CASE SpoolFails(p)
        <4>1. filed' = filed /\ (UNCHANGED spool \/ spool' = [spool EXCEPT ![f].st = "torn"])
          BY <3>2, Zenon DEF SpoolFails
        <4> HIDE DEF f
        <4>2. \A g \in Recs : spool'[g].recs = spool[g].recs
          BY <1>1, <1>2, <4>1, Zenon
        <4> QED BY <1>1, <4>1, <4>2, StaysSpooled, Zenon DEF Kept
      <3> QED BY <1>4, <3>1, <3>2, Zenon
    <2> QED BY <2>1, <2>2, Zenon DEF Kept
  <1> QED BY <1>3, <1>4, Zenon

\* Every step of a single process keeps Kept.
LEMMA KeptNext ==
  ASSUME OneProcess, MInv, SInv, Kept, [Next]_vars
  PROVE  Kept'
  <1>1. CASE UNCHANGED vars
    <2>1. UNCHANGED <<wpc, job, cur, spool, delivered, filed>>
      BY <1>1, Zenon DEF vars, workerVars
    <2> QED BY <2>1, QuietKept, Zenon DEF Kept
  <1>2. CASE Next
    <2> PICK p \in Procs :
            \/ OnEvent(p) \/ Flush(p) \/ DropLayer(p)
            \/ Drain(p) \/ SkipDrain(p) \/ Run(p) \/ Crash(p) \/ Restart(p)
      BY <1>2, Zenon DEF Next
    <2>1. CASE OnEvent(p) \/ Flush(p) \/ DropLayer(p)
      <3>1. UNCHANGED <<wpc, job, cur, spool, delivered, filed>>
        BY <2>1, Zenon DEF OnEvent, Flush, DropLayer, workerVars
      <3> QED BY <3>1, QuietKept, Zenon DEF Kept
    <2>2. ASSUME NEW w \in Phases \ {"replay", "unlink", "fill"}, wpc'[p] = w,
                 UNCHANGED <<spool, filed>>,
                 \A r \in Recs : delivered[r] > 0 => delivered'[r] > 0
          PROVE  Kept'
      <3>1. \A q \in Procs : wpc'[q] \notin {"replay", "unlink", "fill"}
        BY <2>2, Zenon DEF OneProcess
      <3> QED BY <2>2, <3>1, QuietKept, Zenon
    <2>3. CASE AcquireLock(p) \/ EndDrain(p) \/ SkipDrain(p) \/ RecvRecord(p) \/ RecvFlush(p)
                \/ Interval(p) \/ RecvClosed(p) \/ Restart(p)
      <3>1. UNCHANGED <<spool, filed, delivered>>
        BY <2>3, ZenonT(30) DEF AcquireLock, EndDrain, SkipDrain, RecvRecord, RecvFlush, Interval, RecvClosed,
                    Restart
      <3>2. \E w \in Phases \ {"replay", "unlink", "fill"} : wpc'[p] = w
        BY <2>3, ZenonT(30) DEF AcquireLock, EndDrain, SkipDrain, RecvRecord, RecvFlush, Interval, RecvClosed,
                    Restart, Export, MInv, MemoryTypes, Phases
      <3> QED BY <2>2, <3>1, <3>2, Zenon
    <2>4. CASE ReplayFails(p) \/ ExportOk(p) \/ ExportFails(p) \/ Crash(p)
      <3>1. UNCHANGED <<spool, filed>> /\ \E recs : Deliver(recs)
        BY <2>4, Zenon DEF ReplayFails, ExportOk, ExportFails, Crash
      <3>2. \A r \in Recs : delivered[r] > 0 => delivered'[r] > 0
        BY <3>1, DeliverFacts, Zenon DEF SInv
      <3>3. \E w \in Phases \ {"replay", "unlink", "fill"} : wpc'[p] = w
        BY <2>4, Zenon DEF ReplayFails, ExportOk, ExportFails, Crash, EndJob, MInv, MemoryTypes, Phases
      <3> QED BY <2>2, <3>1, <3>2, <3>3, Zenon
    <2>5. CASE ReadBatch(p)
      <3>1. UNCHANGED <<spool, filed, delivered, job>>
        BY <2>5, Zenon DEF ReadBatch
      <3>2. CASE UNCHANGED <<cur, wpc>>
        BY <3>1, <3>2, QuietKept, ZenonT(30) DEF Kept
      <3>3. CASE \E f \in Recs : /\ cur' = [cur EXCEPT ![p] = [file |-> f, recs |-> spool[f].recs]]
                                 /\ wpc' = [wpc EXCEPT ![p] = "replay"]
        <4>1. \A q \in Procs : wpc'[q] = "replay" /\ spool[cur'[q].file].recs = cur'[q].recs
          BY <3>3 DEF OneProcess, MInv, MemoryTypes, SInv, SpoolTypes
        <4> QED BY <3>1, <4>1, QuietKept, Zenon
      <3>4. todo[p] \subseteq Recs
        BY Zenon DEF SInv, SpoolTypes
      <3> QED BY <2>5, <3>2, <3>3, <3>4, Zenon DEF ReadBatch
    <2>6. CASE ReplayOk(p)
      <3>1. /\ UNCHANGED <<spool, filed, job, cur>> /\ Deliver(cur[p].recs)
            /\ wpc[p] = "replay" /\ wpc'[p] = "unlink"
        BY <2>6, Zenon DEF ReplayOk, MInv, MemoryTypes
      <3>2. /\ \A r \in Recs : delivered[r] > 0 => delivered'[r] > 0
            /\ \A r \in cur[p].recs : delivered'[r] > 0
        BY <3>1, DeliverFacts, Zenon DEF SInv, SpoolTypes
      <3>3. \A q \in Procs : q = p
        BY Zenon DEF OneProcess
      <3> QED BY <3>1, <3>2, <3>3, QuietKept, Zenon
    <2>7. CASE RemoveBatch(p)
      BY <2>7, RemoveBatchKept, Zenon
    <2>8. CASE CreateBatch(p) \/ FillBatch(p) \/ SpoolFails(p)
      BY <2>8, SpoolingKept, Zenon
    <2> QED BY <2>1, <2>3, <2>4, <2>5, <2>6, <2>7, <2>8, ZenonT(40) DEF Drain, Run
  <1> QED BY <1>1, <1>2, Zenon

\* With a single process per queue directory, a failed batch that was spooled is there
\* for replay until the server has taken in all of it.
THEOREM SpooledSafety ==
  ASSUME OneProcess
  PROVE  Spec => []SpooledUntilDelivered
  <1>1. Init => Kept
    BY Zenon DEF Init, Kept, SpooledUntilDelivered
  <1>2. MInv /\ SInv /\ Kept /\ [Next]_vars => Kept'
    BY KeptNext, Zenon
  <1>3. Kept => SpooledUntilDelivered
    BY Zenon DEF Kept
  <1> QED BY <1>1, <1>2, <1>3, ExporterInductive, PTL DEF Spec
-----------------------------------------------------------------------------
(* Types                                                                  *)

\* The channel and the batch keep within their sizes, and only sampled records of the
\* process itself are batched and exported.
THEOREM ExporterTypes == Spec => []TypeOK
  <1>1. MInv /\ SInv /\ FInv => TypeOK
    <2> SUFFICES ASSUME MInv, SInv, FInv PROVE TypeOK
      OBVIOUS
    <2>1. ASSUME NEW p \in Procs
          PROVE  /\ Len(chan[p]) <= Capacity
                 /\ Cardinality(batch[p]) < BatchSize
                 /\ wpc[p] \in {"lock", "drain", "replay", "unlink", "idle", "export", "create",
                                "fill", "stopped"}
                 /\ \A r \in batch[p] \cup job[p].recs : r[1] = p /\ ShouldSample(r[2])
                 /\ caller[p].st \in {"none", "waiting", "ok", "err"}
      BY DEF MInv, MemoryTypes, MemoryOK, Phases, FInv, FlushOK
    <2>2. /\ lock \in Procs \cup {None}
          /\ \A f \in Recs : spool[f].st \in {"absent", "empty", "torn", "full"}
          /\ uncertain \subseteq Recs /\ lost \subseteq Recs
      BY Zenon DEF SInv, SpoolTypes
    <2> QED BY <2>1, <2>2, Zenon DEF TypeOK
  <1> QED BY <1>1, ExporterInductive, FlushInductive, PTL
=============================================================================
