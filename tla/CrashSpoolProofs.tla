-------------------------- MODULE CrashSpoolProofs --------------------------
(* Proofs about CrashSpool, for any number of shippers, entries, retentions *)
(* and faults.                                                             *)
EXTENDS CrashSpool, WellFoundedInduction, TLAPS

-----------------------------------------------------------------------------
(* The inductive invariant                                                 *)

EntryType == [where: {"none", "pending", "sent", "removed"},
              file: [Files -> {"absent", "empty", "full"}],
              kind: {"panic", "minidump"}, keep: Retentions \cup {0}, born: 0 .. MaxNow]

Reading == {"meta", "dump", "attach", "post", "move"}
Working == {"clean", "list", "next"} \cup Reading

ShipType == [pc: {"idle", "lock"} \cup Working, mode: {"none", "pending", "stored"},
             todo: SUBSET Entries, keep: Nat \cup {None}, mine: SUBSET Entries, short: BOOLEAN]

Types ==
    /\ entry \in [Entries -> EntryType]
    /\ hook \in [Entries -> 0 .. Done]
    /\ ship \in [Shippers -> ShipType]
    /\ now \in 0 .. MaxNow
    /\ accepted \in [Entries -> 0 .. 2]
    /\ lock \in Shippers \cup {None}

\* A hook that has not finished dump.bin has not begun sdk-config.json, and one
\* that has begun it has finished dump.bin.
FilesOK(e) ==
    /\ hook[e] <= 4 => entry[e].file["cfg"] = "absent"
    /\ hook[e] = 5 => entry[e].file["cfg"] = "empty"
    /\ hook[e] \in {4, 5} => entry[e].file["dump"] = "full"
    /\ entry[e].file["cfg"] # "absent" => entry[e].file["dump"] = "full"

\* A run works under the lock, on entries that nobody else takes away, and
\* keeps account of the longest retention of those it has moved.
RunOK(s) ==
    /\ ship[s].pc \in Working <=> lock = s
    /\ ship[s].todo # {} => ship[s].pc \in {"next"} \cup Reading
    /\ ship[s].pc \in Reading => ship[s].todo # {}
    /\ \A e \in ship[s].todo : entry[e].where = "pending"
    /\ ship[s].mode = "stored" /\ ship[s].pc \in Reading =>
        entry[Now(s)].file["cfg"] = "full" /\ ~ship[s].short
    /\ ship[s].pc \notin Reading => ~ship[s].short
    /\ ship[s].pc = "move" => accepted[Now(s)] > 0
    /\ ship[s].mine # {} => ship[s].pc \in {"next"} \cup Reading /\ ship[s].keep # None
    /\ \A e \in ship[s].mine : /\ entry[e].where \in {"sent", "removed"}
                               /\ entry[e].keep <= ship[s].keep

\* An entry that was accepted has left pending/, or is about to, or its upload
\* did not end well.
AcceptedOK(e) ==
    /\ entry[e].where \in {"sent", "removed"} => accepted[e] > 0
    /\ accepted[e] > 0 /\ e \notin uncertain =>
        \/ entry[e].where \in {"sent", "removed"}
        \/ \E s \in Shippers : ship[s].pc = "move" /\ Now(s) = e
    /\ accepted[e] = 2 => e \in uncertain
    /\ <<e, "stored">> \notin partial

IInv ==
    /\ Types
    /\ \A e \in Entries : FilesOK(e) /\ AcceptedOK(e)
    /\ \A s \in Shippers : RunOK(s)

-----------------------------------------------------------------------------
(* The entry a run is at                                                   *)

\* The smallest of a set of naturals is one of them.
LEMMA MinIsElement ==
    ASSUME NEW S \in SUBSET Nat, S # {}
    PROVE  Min(S) \in S
  <1>. DEFINE R == {ss \in Nat \X Nat : ss[1] < ss[2]}
  <1>1. IsWellFoundedOn(R, Nat)
    BY NatLessThanWellFounded, Zenon DEF OpToRel
  <1>2. \E x \in S : \A y \in S : ~(<<y, x>> \in R)
    <2>. HIDE DEF R
    <2>. QED
      BY <1>1, WFMin, Zenon
  <1>3. \E x \in S : \A y \in S : x =< y
    <2>1. PICK x \in S : \A y \in S : ~(<<y, x>> \in R)
      BY <1>2, Zenon
    <2>2. ASSUME NEW y \in S PROVE x =< y
      <3>1. <<y, x>> \in Nat \X Nat /\ ~(<<y, x>>[1] < <<y, x>>[2])
        BY <2>1, Zenon
      <3>. QED
        BY <3>1
    <2>. QED
      BY <2>2, Zenon
  <1>. QED
    BY <1>3, Zenon DEF Min

\* A run that reads an entry reads one of its own, which is still pending.
LEMMA NowIsTodo ==
    ASSUME IInv, NEW s \in Shippers, ship[s].todo # {}
    PROVE  /\ Now(s) \in ship[s].todo
           /\ Now(s) \in Entries
           /\ entry[Now(s)].where = "pending"
  <1>1. ship[s].todo \in SUBSET Entries
    BY Zenon DEF IInv, Types, ShipType
  <1>2. ship[s].todo \in SUBSET Nat
    BY <1>1, CrashSpoolAssumption DEF Entries
  <1>3. Now(s) \in ship[s].todo
    BY <1>2, MinIsElement, Zenon DEF Now
  <1>. QED
    BY <1>1, <1>3, Zenon DEF IInv, RunOK

\* Days are naturals.
LEMMA EntryNumbers ==
    ASSUME IInv, NEW x \in Entries
    PROVE  entry[x].keep \in Nat /\ entry[x].born \in Nat /\ now \in Nat
  <1>1. entry[x] \in EntryType /\ now \in 0 .. MaxNow
    BY Zenon DEF IInv, Types
  <1>2. entry[x].keep \in Retentions \cup {0} /\ entry[x].born \in 0 .. MaxNow
    BY <1>1, Zenon DEF EntryType
  <1>3. entry[x].keep \in Nat
    <2>1. 0 \in Nat
      OBVIOUS
    <2>. QED
      BY <1>2, <2>1, CrashSpoolAssumption, Zenon
  <1>4. entry[x].born \in Nat /\ now \in Nat
    BY <1>1, <1>2, CrashSpoolAssumption
  <1>. QED
    BY <1>3, <1>4, Zenon

\* At most one run works at a time.
LEMMA OneWorks ==
    ASSUME IInv, NEW s \in Shippers, ship[s].pc \in Working, NEW t \in Shippers, t # s
    PROVE  ship[t].pc \notin Working
  BY Zenon DEF IInv, RunOK

\* A run that does not work has nothing to lose.
LEMMA RestingRun ==
    ASSUME IInv, NEW t \in Shippers, ship[t].pc \notin Working, ship'[t] = ship[t], lock' # t
    PROVE  RunOK(t)'
  <1>1. ship[t].todo = {} /\ ship[t].mine = {} /\ ~ship[t].short
    BY Zenon DEF IInv, RunOK, Working
  <1>. QED
    BY <1>1, Zenon DEF RunOK, Working, Reading

\* A step of a hook, of the clock or of a run that does not work leaves a run
\* as it is.
LEMMA QuietRun ==
    ASSUME IInv, NEW t \in Shippers, ship'[t] = ship[t], lock' = lock, accepted' = accepted,
           \A e \in Entries : entry[e].where # "none" =>
                /\ entry'[e].where = entry[e].where
                /\ entry'[e].keep = entry[e].keep
                /\ entry[e].file["cfg"] = "full" => entry'[e].file["cfg"] = "full"
    PROVE  RunOK(t)'
  <1>1. RunOK(t) /\ ship[t] \in ShipType
    BY Zenon DEF IInv, Types
  <1>2. Now(t)' = Now(t)
    BY Zenon DEF Now
  <1>3. ship[t].pc \in Reading => Now(t) \in Entries /\ entry[Now(t)].where = "pending"
    BY <1>1, NowIsTodo, Zenon DEF RunOK
  <1>4. ship[t].todo \subseteq Entries /\ ship[t].mine \subseteq Entries
    BY <1>1, Zenon DEF ShipType
  <1>5. \A e \in ship[t].todo : entry'[e].where = "pending"
    BY <1>1, <1>4, Zenon DEF RunOK
  <1>6. \A e \in ship[t].mine : /\ entry'[e].where \in {"sent", "removed"}
                                /\ entry'[e].keep <= ship[t].keep
    BY <1>1, <1>4, Zenon DEF RunOK
  <1>7. ship[t].mode = "stored" /\ ship[t].pc \in Reading => entry'[Now(t)].file["cfg"] = "full"
    BY <1>1, <1>3, Zenon DEF RunOK
  <1>. HIDE DEF Now
  <1>. QED
    BY <1>1, <1>2, <1>5, <1>6, <1>7, Zenon DEF RunOK

\* Such a step leaves an entry's account too.
LEMMA QuietEntry ==
    ASSUME IInv, NEW e \in Entries, accepted' = accepted, partial' = partial,
           uncertain \subseteq uncertain',
           entry[e].where \in {"sent", "removed"} => entry'[e].where \in {"sent", "removed"},
           entry[e].where \in {"none", "pending"} => entry'[e].where \in {"none", "pending"},
           \A s \in Shippers : ship[s].pc = "move" /\ Now(s) = e =>
                (ship'[s].pc = "move" /\ ship'[s].todo = ship[s].todo) \/ e \in uncertain'
    PROVE  AcceptedOK(e)'
  <1>1. AcceptedOK(e) /\ entry[e] \in EntryType
    BY Zenon DEF IInv, Types
  <1>2. entry'[e].where \in {"sent", "removed"} => accepted[e] > 0
    BY <1>1, Zenon DEF AcceptedOK, EntryType
  <1>3. ASSUME NEW s \in Shippers, ship[s].pc = "move", Now(s) = e, e \notin uncertain'
        PROVE  ship'[s].pc = "move" /\ Now(s)' = e
    BY <1>3, Zenon DEF Now
  <1>4. accepted[e] > 0 /\ e \notin uncertain' =>
            \/ entry'[e].where \in {"sent", "removed"}
            \/ \E s \in Shippers : ship'[s].pc = "move" /\ Now(s)' = e
    BY <1>1, <1>3, Zenon DEF AcceptedOK
  <1>. QED
    BY <1>1, <1>2, <1>4, Zenon DEF AcceptedOK

-----------------------------------------------------------------------------
(* Hooks and the clock                                                     *)

\* The capture of a new entry keeps the invariant.
LEMMA CaptureKeeps ==
    ASSUME IInv, NEW e \in Entries, Capture(e)
    PROVE  IInv'
  <1>1. PICK kind \in {"panic", "minidump"}, keep \in Retentions :
            entry' = [entry EXCEPT ![e] = [NoEntry EXCEPT !.where = "pending", !.kind = kind,
                                                          !.keep = keep, !.born = now]]
    BY Zenon DEF Capture
  <1>. DEFINE new == [NoEntry EXCEPT !.where = "pending", !.kind = kind, !.keep = keep, !.born = now]
  <1>2. new \in EntryType /\ new.where = "pending" /\ new.file = [f \in Files |-> "absent"]
    BY Zenon DEF NoEntry, EntryType, IInv, Types
  <1>. HIDE DEF new
  <1>3. /\ entry[e].where = "none"
        /\ hook' = [hook EXCEPT ![e] = 0]
        /\ UNCHANGED <<ship, lock, now, runs, faults, accepted, uncertain, partial>>
        /\ Types
    BY Zenon DEF Capture, IInv
  <1>4. entry' = [entry EXCEPT ![e] = new]
    BY <1>1, Zenon DEF new
  <1>5. Types'
    BY <1>2, <1>3, <1>4 DEF Types, Done
  <1>6. ASSUME NEW x \in Entries PROVE FilesOK(x)'
    <2>1. CASE x = e
      <3>1. entry'[e].file = [f \in Files |-> "absent"] /\ hook'[e] = 0
        BY <1>2, <1>3, <1>4, Zenon DEF Types
      <3>. QED
        BY <2>1, <3>1 DEF FilesOK, Files
    <2>2. CASE x # e
      <3>1. entry'[x] = entry[x] /\ hook'[x] = hook[x]
        BY <1>3, <1>4, <2>2, Zenon DEF Types
      <3>. QED
        BY <3>1, Zenon DEF FilesOK, IInv
    <2>. QED
      BY <2>1, <2>2, Zenon
  <1>7. \A x \in Entries : entry'[x] = IF x = e THEN new ELSE entry[x]
    BY <1>3, <1>4, Zenon DEF Types
  <1>8. ASSUME NEW x \in Entries PROVE AcceptedOK(x)'
    BY <1>2, <1>3, <1>7, QuietEntry, Zenon
  <1>9. ASSUME NEW s \in Shippers PROVE RunOK(s)'
    BY <1>3, <1>7, QuietRun, Zenon
  <1>. QED
    BY <1>5, <1>6, <1>8, <1>9, Zenon DEF IInv

\* Which file a step of a hook writes, and whether it creates or fills it.
LEMMA FileAt ==
    ASSUME NEW n \in 0 .. 5
    PROVE  /\ FileOrder[n \div 2 + 1] = IF n <= 1 THEN "meta" ELSE IF n <= 3 THEN "dump" ELSE "cfg"
           /\ n % 2 = IF n \in {1, 3, 5} THEN 1 ELSE 0
  <1>1. /\ 0 \div 2 = 0 /\ 1 \div 2 = 0 /\ 2 \div 2 = 1 /\ 3 \div 2 = 1 /\ 4 \div 2 = 2 /\ 5 \div 2 = 2
        /\ 0 % 2 = 0 /\ 1 % 2 = 1 /\ 2 % 2 = 0 /\ 3 % 2 = 1 /\ 4 % 2 = 0 /\ 5 % 2 = 1
    OBVIOUS
  <1>2. FileOrder[1] = "meta" /\ FileOrder[2] = "dump" /\ FileOrder[3] = "cfg"
    BY Zenon DEF FileOrder
  <1>3. n \in {0, 1, 2, 3, 4, 5}
    OBVIOUS
  <1>. QED
    BY <1>1, <1>2, <1>3

\* A step of writing an entry keeps the invariant.
LEMMA WriteKeeps ==
    ASSUME IInv, NEW e \in Entries, WriteStep(e)
    PROVE  IInv'
  <1>. DEFINE n == hook[e]
              f == FileOrder[n \div 2 + 1]
  <1>1. /\ n \in 0 .. 5
        /\ UNCHANGED <<ship, lock, now, runs, faults, accepted, uncertain, partial>>
        /\ Types
    BY DEF WriteStep, IInv, Types, Done
  <1>2. /\ f = IF n <= 1 THEN "meta" ELSE IF n <= 3 THEN "dump" ELSE "cfg"
        /\ n % 2 = IF n \in {1, 3, 5} THEN 1 ELSE 0
    BY <1>1, FileAt, Zenon
  <1>3. CASE entry' = entry /\ hook' = [hook EXCEPT ![e] = Done]
    <2>1. Types'
      BY <1>1, <1>3 DEF Types, Done
    <2>2. ASSUME NEW x \in Entries PROVE FilesOK(x)'
      <3>1. hook'[x] = hook[x] \/ hook'[x] = 7
        BY <1>1, <1>3, Zenon DEF Types, Done
      <3>. QED
        BY <1>3, <3>1 DEF FilesOK, IInv
    <2>3. ASSUME NEW x \in Entries PROVE AcceptedOK(x)'
      BY <1>1, <1>3, QuietEntry, Zenon
    <2>4. ASSUME NEW s \in Shippers PROVE RunOK(s)'
      BY <1>1, <1>3, QuietRun, Zenon
    <2>. QED
      BY <2>1, <2>2, <2>3, <2>4, Zenon DEF IInv
  <1>4. ASSUME NEW v \in {"empty", "full"},
               entry' = [entry EXCEPT ![e].file[f] = v],
               hook' = [hook EXCEPT ![e] = @ + 1],
               v = IF n \in {1, 3, 5} THEN "full" ELSE "empty"
        PROVE  IInv'
    <2>. HIDE DEF f
    <2>. DEFINE new == [entry[e] EXCEPT !.file = [entry[e].file EXCEPT ![f] = v]]
    <2>1. f \in Files /\ entry[e] \in EntryType
      BY <1>1, <1>2, Zenon DEF Files, Types
    <2>2. /\ entry' = [entry EXCEPT ![e] = new]
          /\ new \in EntryType
          /\ new.file = [entry[e].file EXCEPT ![f] = v]
          /\ new.where = entry[e].where /\ new.keep = entry[e].keep
      BY <1>1, <1>4, <2>1, Zenon DEF EntryType, Types
    <2>. HIDE DEF new
    <2>3. /\ \A x \in Entries : entry'[x] = IF x = e THEN new ELSE entry[x]
          /\ \A x \in Entries : hook'[x] = IF x = e THEN n + 1 ELSE hook[x]
      BY <1>1, <1>4, <2>2, Zenon DEF Types
    <2>4. Types'
      BY <1>1, <1>4, <2>2 DEF Types, Done
    <2>5. FilesOK(e)'
      <3>1. \A g \in Files : new.file[g] = IF g = f THEN v ELSE entry[e].file[g]
        BY <2>1, <2>2, Zenon DEF EntryType
      <3>2. /\ entry'[e].file["cfg"] = IF f = "cfg" THEN v ELSE entry[e].file["cfg"]
            /\ entry'[e].file["dump"] = IF f = "dump" THEN v ELSE entry[e].file["dump"]
            /\ hook'[e] = n + 1
        BY <2>3, <3>1, Zenon DEF Files
      <3>3. FilesOK(e)
        BY Zenon DEF IInv
      <3>. QED
        BY <1>1, <1>2, <1>4, <3>2, <3>3 DEF FilesOK
    <2>6. ASSUME NEW x \in Entries PROVE FilesOK(x)'
      BY <2>3, <2>5 DEF FilesOK, IInv
    <2>7. ASSUME NEW x \in Entries PROVE AcceptedOK(x)'
      BY <1>1, <2>2, <2>3, QuietEntry, Zenon
    <2>8. entry[e].file["cfg"] = "full" => new.file["cfg"] = "full"
      BY <1>1 DEF FilesOK, IInv
    <2>9. ASSUME NEW s \in Shippers PROVE RunOK(s)'
      BY <1>1, <2>2, <2>3, <2>8, QuietRun, ZenonT(40)
    <2>. QED
      BY <2>4, <2>6, <2>7, <2>9, Zenon DEF IInv
  <1>. QED
    <2>1. \/ entry' = entry /\ hook' = [hook EXCEPT ![e] = Done]
          \/ /\ n % 2 = 0
             /\ entry' = [entry EXCEPT ![e].file[f] = "empty"]
             /\ hook' = [hook EXCEPT ![e] = @ + 1]
          \/ /\ n % 2 = 1
             /\ entry' = [entry EXCEPT ![e].file[f] = "full"]
             /\ hook' = [hook EXCEPT ![e] = @ + 1]
      BY Zenon DEF WriteStep
    <2>2. (n % 2 = 0 => n \notin {1, 3, 5}) /\ (n % 2 = 1 => n \in {1, 3, 5})
      BY <1>1, <1>2
    <2>. HIDE DEF f, n
    <2>. QED
      BY <1>3, <1>4, <2>1, <2>2, Zenon

\* A hook that fails, and the clock, keep the invariant.
LEMMA HookFailsOrTick ==
    ASSUME IInv, (\E e \in Entries : HookFails(e)) \/ Tick
    PROVE  IInv'
  <1>1. /\ UNCHANGED <<entry, ship, lock, accepted, uncertain, partial>>
        /\ Types
    BY Zenon DEF HookFails, Tick, IInv
  <1>2. /\ hook' \in [Entries -> 0 .. Done]
        /\ \A x \in Entries : hook'[x] = hook[x] \/ hook'[x] = 7
    BY <1>1 DEF HookFails, Tick, Types, Done
  <1>3. now' \in 0 .. MaxNow
    BY <1>1, CrashSpoolAssumption DEF HookFails, Tick, Types
  <1>4. Types'
    BY <1>1, <1>2, <1>3, Zenon DEF Types
  <1>5. ASSUME NEW x \in Entries PROVE FilesOK(x)'
    BY <1>1, <1>2 DEF FilesOK, IInv
  <1>6. ASSUME NEW x \in Entries PROVE AcceptedOK(x)'
    BY <1>1, QuietEntry, Zenon
  <1>7. ASSUME NEW s \in Shippers PROVE RunOK(s)'
    BY <1>1, QuietRun, Zenon
  <1>. QED
    BY <1>4, <1>5, <1>6, <1>7, Zenon DEF IInv

-----------------------------------------------------------------------------
(* Runs                                                                    *)

\* What is left to show of a step of the run that works.
LEMMA WorkStep ==
    ASSUME IInv, NEW s \in Shippers, ship[s].pc \in Working, NEW r \in ShipType,
           ship' = [ship EXCEPT ![s] = r], lock' \in {s, None}, hook' = hook, now' = now,
           entry' \in [Entries -> EntryType], \A x \in Entries : entry'[x].file = entry[x].file,
           accepted' \in [Entries -> 0 .. 2], RunOK(s)', \A x \in Entries : AcceptedOK(x)'
    PROVE  IInv'
  <1>1. Types'
    BY Zenon DEF IInv, Types
  <1>2. \A x \in Entries : FilesOK(x)'
    BY Zenon DEF IInv, FilesOK
  <1>3. ASSUME NEW t \in Shippers, t # s PROVE RunOK(t)'
    <2>1. ship'[t] = ship[t] /\ lock' # t
      BY <1>3, CrashSpoolAssumption, Zenon DEF IInv, Types
    <2>. QED
      BY <1>3, <2>1, OneWorks, RestingRun, Zenon
  <1>. QED
    BY <1>1, <1>2, <1>3, Zenon DEF IInv

\* A run that ends, well or not, gives up the lock.
LEMMA EndStep ==
    ASSUME IInv, NEW s \in Shippers, ship[s].pc \in Working,
           ship' = [ship EXCEPT ![s] = IdleShip], lock' = None, hook' = hook, now' = now,
           entry' \in [Entries -> EntryType], \A x \in Entries : entry'[x].file = entry[x].file,
           accepted' \in [Entries -> 0 .. 2], \A x \in Entries : AcceptedOK(x)'
    PROVE  IInv'
  <1>1. IdleShip \in ShipType
    BY Zenon DEF IdleShip, ShipType
  <1>2. ship'[s] = IdleShip /\ lock' # s
    BY CrashSpoolAssumption, Zenon DEF IInv, Types
  <1>3. RunOK(s)'
    BY <1>2 DEF RunOK, IdleShip, Working, Reading
  <1>. QED
    BY <1>1, <1>3, WorkStep, Zenon

\* A run that goes from one place to the next, its entries and the lock
\* untouched, other than by moving an entry.
LEMMA PcStep ==
    ASSUME IInv, NEW s \in Shippers, ship[s].pc \in Working \ {"move"}, NEW r \in ShipType,
           ship' = [ship EXCEPT ![s] = r],
           UNCHANGED <<entry, hook, lock, now, accepted, uncertain, partial>>,
           r.pc \in Working, r.pc # "move",
           r.mine = ship[s].mine, r.keep = ship[s].keep, r.mode = ship[s].mode,
           r.todo # {} => r.pc \in {"next"} \cup Reading,
           r.pc \in Reading => r.todo # {} /\ r.todo = ship[s].todo,
           r.mine # {} => r.pc \in {"next"} \cup Reading,
           \A e \in r.todo : entry[e].where = "pending",
           r.pc \notin Reading => ~r.short,
           r.mode = "stored" /\ r.pc \in Reading => entry[Now(s)].file["cfg"] = "full" /\ ~r.short
    PROVE  IInv'
  <1>1. ship'[s] = r /\ Types /\ lock = s /\ RunOK(s)
    BY Zenon DEF IInv, Types, RunOK
  <1>2. r.pc \in Reading => Now(s)' = Now(s)
    BY <1>1, Zenon DEF Now
  <1>. HIDE DEF Now
  <1>3. RunOK(s)'
    BY <1>1, <1>2, Zenon DEF RunOK
  <1>4. ASSUME NEW t \in Shippers, ship[t].pc = "move" PROVE ship'[t] = ship[t]
    BY <1>1, <1>4, Zenon DEF Types
  <1>5. ASSUME NEW x \in Entries PROVE AcceptedOK(x)'
    BY <1>4, QuietEntry, Zenon
  <1>. QED
    BY <1>1, <1>3, <1>5, WorkStep, Zenon DEF Types

\* The run starts, and waits for the lock.
LEMMA StartKeeps ==
    ASSUME IInv, NEW s \in Shippers, StartRun(s)
    PROVE  IInv'
  <1>1. PICK mode \in {"pending", "stored"} :
            ship' = [ship EXCEPT ![s] = [IdleShip EXCEPT !.pc = "lock", !.mode = mode]]
    BY Zenon DEF StartRun
  <1>. DEFINE r == [IdleShip EXCEPT !.pc = "lock", !.mode = mode]
  <1>2. r \in ShipType /\ r.pc = "lock" /\ r.todo = {} /\ r.mine = {} /\ ~r.short
    BY Zenon DEF IdleShip, ShipType
  <1>. HIDE DEF r
  <1>3. /\ ship' = [ship EXCEPT ![s] = r] /\ ship[s].pc = "idle"
        /\ UNCHANGED <<entry, hook, lock, now, accepted, uncertain, partial>>
        /\ Types
    BY <1>1, Zenon DEF r, StartRun, IInv
  <1>4. Types'
    BY <1>2, <1>3, Zenon DEF Types
  <1>5. RunOK(s)'
    <2>1. ship'[s] = r /\ lock # s
      BY <1>3, Zenon DEF Types, IInv, RunOK, Working, Reading
    <2>. QED
      BY <1>2, <1>3, <2>1, Zenon DEF RunOK, Working, Reading
  <1>6. ASSUME NEW t \in Shippers, t # s PROVE RunOK(t)' /\ ship'[t] = ship[t]
    <2>1. ship'[t] = ship[t]
      BY <1>3, <1>6, Zenon DEF Types
    <2>. QED
      BY <1>3, <2>1, QuietRun, Zenon
  <1>7. ASSUME NEW x \in Entries PROVE AcceptedOK(x)' /\ FilesOK(x)'
    <2>1. AcceptedOK(x)'
      BY <1>3, <1>6, QuietEntry, Zenon
    <2>. QED
      BY <1>3, <2>1, Zenon DEF FilesOK, IInv
  <1>. QED
    BY <1>4, <1>5, <1>6, <1>7, Zenon DEF IInv

\* The lock is granted to a run when nobody works.
LEMMA AcquireKeeps ==
    ASSUME IInv, NEW s \in Shippers, Acquire(s)
    PROVE  IInv'
  <1>. DEFINE to == IF ship[s].mode = "pending" THEN "clean" ELSE "list"
              r == [ship[s] EXCEPT !.pc = to]
  <1>1. /\ ship[s].pc = "lock" /\ lock = None /\ lock' = s
        /\ UNCHANGED <<entry, hook, now, accepted, uncertain, partial>>
        /\ Types /\ RunOK(s) /\ ship[s] \in ShipType
    BY Zenon DEF Acquire, IInv, Types
  <1>2. to \in {"clean", "list"}
    OBVIOUS
  <1>. HIDE DEF to
  <1>3. r \in ShipType /\ r.pc = to /\ r.todo = {} /\ r.mine = {} /\ ~r.short
    BY <1>1, <1>2, Zenon DEF ShipType, RunOK, Working, Reading
  <1>4. ship' = [ship EXCEPT ![s] = r]
    BY <1>1, Zenon DEF Acquire, to, Types
  <1>. HIDE DEF r
  <1>5. ship'[s] = r
    BY <1>1, <1>4, Zenon DEF Types
  <1>6. RunOK(s)'
    BY <1>1, <1>2, <1>3, <1>5, Zenon DEF RunOK, Working, Reading
  <1>7. ASSUME NEW t \in Shippers, t # s PROVE RunOK(t)' /\ ship'[t] = ship[t]
    <2>1. ship'[t] = ship[t] /\ lock' # t
      BY <1>1, <1>4, <1>7, Zenon DEF Types
    <2>2. ship[t].pc \notin Working
      BY <1>1, CrashSpoolAssumption, Zenon DEF IInv, RunOK
    <2>. QED
      BY <2>1, <2>2, RestingRun, Zenon
  <1>8. ASSUME NEW x \in Entries PROVE AcceptedOK(x)' /\ FilesOK(x)'
    <2>1. AcceptedOK(x)'
      BY <1>1, <1>7, QuietEntry, Zenon
    <2>. QED
      BY <1>1, <2>1, Zenon DEF FilesOK, IInv
  <1>9. Types'
    BY <1>1, <1>3, <1>4, Zenon DEF Types
  <1>. QED
    BY <1>6, <1>7, <1>8, <1>9, Zenon DEF IInv

\* The cleanup removes entries that were sent and touches nothing else.
LEMMA CleanedIs ==
    ASSUME IInv, NEW d, entry' = Cleaned(d)
    PROVE  /\ entry' \in [Entries -> EntryType]
           /\ \A x \in Entries :
                /\ entry'[x].file = entry[x].file
                /\ entry'[x].where = entry[x].where
                   \/ (entry[x].where = "sent" /\ entry'[x].where = "removed")
  <1>1. ASSUME NEW x \in Entries
        PROVE  /\ entry'[x] \in EntryType
               /\ entry'[x].file = entry[x].file
               /\ entry'[x].where = entry[x].where
                   \/ (entry[x].where = "sent" /\ entry'[x].where = "removed")
    <2>1. entry[x] \in EntryType
      BY Zenon DEF IInv, Types
    <2>2. entry'[x] = entry[x]
          \/ (entry[x].where = "sent" /\ entry'[x] = [entry[x] EXCEPT !.where = "removed"])
      BY Zenon DEF Cleaned
    <2>. QED
      BY <2>1, <2>2, Zenon DEF EntryType
  <1>2. entry' = [x \in Entries |-> entry'[x]]
    BY Zenon DEF Cleaned
  <1>. QED
    BY <1>1, <1>2, Zenon

\* The cleanup before a run with an explicit endpoint.
LEMMA CleanFirstKeeps ==
    ASSUME IInv, NEW s \in Shippers, CleanFirst(s)
    PROVE  IInv'
  <1>. DEFINE r == [ship[s] EXCEPT !.pc = "list"]
  <1>1. /\ ship[s].pc = "clean" /\ Types /\ RunOK(s) /\ ship[s] \in ShipType
        /\ UNCHANGED <<hook, lock, now, accepted, uncertain, partial>>
    BY Zenon DEF CleanFirst, IInv, Types
  <1>2. /\ entry' \in [Entries -> EntryType]
        /\ \A x \in Entries :
                /\ entry'[x].file = entry[x].file
                /\ entry'[x].where = entry[x].where
                   \/ (entry[x].where = "sent" /\ entry'[x].where = "removed")
    BY CleanedIs, Zenon DEF CleanFirst
  <1>3. r \in ShipType /\ r.pc = "list" /\ r.todo = {} /\ r.mine = {} /\ ~r.short
    BY <1>1, Zenon DEF ShipType, RunOK, Working, Reading
  <1>4. ship' = [ship EXCEPT ![s] = r]
    BY <1>1, Zenon DEF CleanFirst, Types
  <1>. HIDE DEF r
  <1>5. ship'[s] = r /\ lock = s
    BY <1>1, <1>4, Zenon DEF Types, RunOK, Working
  <1>6. RunOK(s)'
    BY <1>1, <1>3, <1>5, Zenon DEF RunOK, Working, Reading
  <1>7. ASSUME NEW x \in Entries PROVE AcceptedOK(x)'
    <2>1. \A t \in Shippers : ship[t].pc = "move" => ship'[t] = ship[t]
      BY <1>1, <1>4, Zenon DEF Types
    <2>. QED
      BY <1>1, <1>2, <2>1, QuietEntry, Zenon
  <1>. QED
    BY <1>1, <1>2, <1>3, <1>4, <1>5, <1>6, <1>7, WorkStep, Zenon DEF Working, Types

\* The snapshot of pending/.
LEMMA ListKeeps ==
    ASSUME IInv, NEW s \in Shippers, ListPending(s)
    PROVE  IInv'
  <1>. DEFINE todo == {e \in Entries : entry[e].where = "pending"}
              r == [ship[s] EXCEPT !.pc = "next", !.todo = todo]
  <1>1. /\ ship[s].pc = "list" /\ Types /\ RunOK(s) /\ ship[s] \in ShipType
        /\ UNCHANGED <<entry, hook, lock, now, accepted, uncertain, partial>>
    BY Zenon DEF ListPending, IInv, Types
  <1>2. /\ r \in ShipType /\ r.pc = "next" /\ r.todo = todo /\ ~r.short
        /\ r.mine = ship[s].mine /\ r.keep = ship[s].keep /\ r.mode = ship[s].mode
    BY <1>1, Zenon DEF ShipType, Working, Reading, RunOK
  <1>3. ship' = [ship EXCEPT ![s] = r]
    BY <1>1, Zenon DEF ListPending, Types
  <1>. HIDE DEF r
  <1>. QED
    BY <1>1, <1>2, <1>3, PcStep, Zenon DEF Working, Reading

\* The steps that read an entry: in mode "stored" only a complete one gets past
\* the first of them.
LEMMA ReadsKeep ==
    ASSUME IInv, NEW s \in Shippers,
           Resolve(s) \/ ReadMeta(s) \/ ReadDump(s) \/ ReadAttachments(s)
    PROVE  IInv'
  <1>1. /\ Types /\ RunOK(s) /\ ship[s] \in ShipType /\ ship[s].todo # {}
        /\ ship[s].pc \in {"next", "meta", "dump", "attach"}
        /\ UNCHANGED <<entry, hook, lock, now, accepted, uncertain, partial>>
    BY Zenon DEF Resolve, ReadMeta, ReadDump, ReadAttachments, IInv, Types, RunOK, Reading
  <1>2. Now(s) \in Entries /\ FilesOK(Now(s)) /\ entry[Now(s)].where = "pending"
    BY <1>1, NowIsTodo, Zenon DEF IInv
  <1>3. ASSUME NEW to \in {"meta", "dump", "attach", "post"}, NEW b \in BOOLEAN,
               ship' = [ship EXCEPT ![s] = [ship[s] EXCEPT !.pc = to, !.short = b]],
               ship[s].mode = "stored" => entry[Now(s)].file["cfg"] = "full" /\ ~b
        PROVE  IInv'
    <2>. DEFINE r == [ship[s] EXCEPT !.pc = to, !.short = b]
    <2>1. /\ r \in ShipType /\ r.pc = to /\ r.todo = ship[s].todo /\ r.short = b
          /\ r.mine = ship[s].mine /\ r.keep = ship[s].keep /\ r.mode = ship[s].mode
      BY <1>1, Zenon DEF ShipType, Working, Reading
    <2>2. ship' = [ship EXCEPT ![s] = r]
      BY <1>3, Zenon
    <2>. HIDE DEF r
    <2>3. /\ ship[s].pc \in Working \ {"move"} /\ to \in Reading /\ to \in Working /\ to # "move"
          /\ \A e \in r.todo : entry[e].where = "pending"
      BY <1>1, <2>1, Zenon DEF Working, Reading, RunOK
    <2>. QED
      BY <1>1, <1>3, <2>1, <2>2, <2>3, PcStep, Zenon
  <1>. DEFINE Step(to, b) == ship' = [ship EXCEPT ![s] = [ship[s] EXCEPT !.pc = to, !.short = b]]
  <1>4. CASE Resolve(s)
    <2>1. Step("meta", ship[s].short)
      BY <1>1, <1>4, Zenon DEF Resolve, Types, ShipType
    <2>2. ship[s].short \in BOOLEAN
          /\ (ship[s].mode = "stored" => entry[Now(s)].file["cfg"] = "full" /\ ~ship[s].short)
      BY <1>1, <1>4, Zenon DEF Resolve, ShipType, RunOK, Reading
    <2>. QED
      BY <1>3, <2>1, <2>2, Zenon
  <1>5. CASE ReadMeta(s)
    <2>1. Step("dump", ship[s].short)
      BY <1>1, <1>5, Zenon DEF ReadMeta, Types, ShipType
    <2>2. ship[s].short \in BOOLEAN
          /\ (ship[s].mode = "stored" => entry[Now(s)].file["cfg"] = "full" /\ ~ship[s].short)
      BY <1>1, <1>5, Zenon DEF ReadMeta, ShipType, RunOK, Reading
    <2>. QED
      BY <1>3, <2>1, <2>2, Zenon
  <1>6. CASE ReadDump(s)
    <2>1. Step("attach", entry[Now(s)].file["dump"] = "empty")
      BY <1>1, <1>6, Zenon DEF ReadDump, Types, ShipType
    <2>2. ship[s].mode = "stored" =>
            entry[Now(s)].file["cfg"] = "full" /\ ~(entry[Now(s)].file["dump"] = "empty")
      BY <1>1, <1>2, <1>6, Zenon DEF ReadDump, RunOK, Reading, FilesOK
    <2>. QED
      BY <1>3, <2>1, <2>2, Zenon
  <1>7. CASE ReadAttachments(s)
    <2>. DEFINE b == ship[s].short \/ (entry[Now(s)].kind = "panic"
                                        /\ entry[Now(s)].file["cfg"] = "empty")
    <2>1. Step("post", b)
      BY <1>1, <1>7, Zenon DEF ReadAttachments, Types, ShipType
    <2>2. ship[s].mode = "stored" => entry[Now(s)].file["cfg"] = "full" /\ ~b
      BY <1>1, <1>7, Zenon DEF ReadAttachments, RunOK, Reading
    <2>. QED
      BY <1>3, <2>1, <2>2, Zenon
  <1>. QED
    BY <1>4, <1>5, <1>6, <1>7, Zenon

\* The server stores an entry: nobody else is about to move it, so one that was
\* accepted before is an uncertain one.
LEMMA AcceptIs ==
    ASSUME IInv, NEW s \in Shippers, ship[s].pc = "post", Accept(s)
    PROVE  LET e == Now(s) IN
           /\ e \in Entries /\ entry[e].where = "pending"
           /\ accepted' \in [Entries -> 0 .. 2]
           /\ accepted'[e] > 0
           /\ accepted'[e] = 2 => e \in uncertain
           /\ \A x \in Entries : x # e => accepted'[x] = accepted[x]
           /\ \A x \in Entries : <<x, "stored">> \notin partial'
           /\ \A t \in Shippers : ship[t].pc # "move"
  <1>. DEFINE e == Now(s)
  <1>1. /\ Types /\ RunOK(s) /\ ship[s].todo # {} /\ ship[s].pc \in Working
        /\ ship[s] \in ShipType
    BY Zenon DEF IInv, Types, RunOK, Working, Reading
  <1>2. e \in Entries /\ entry[e].where = "pending" /\ AcceptedOK(e)
    BY <1>1, NowIsTodo, Zenon DEF IInv
  <1>3. \A t \in Shippers : ship[t].pc # "move"
    BY <1>1, OneWorks, Zenon DEF Working, Reading
  <1>4. accepted[e] > 0 => e \in uncertain
    BY <1>2, <1>3, Zenon DEF AcceptedOK
  <1>. HIDE DEF e
  <1>5. accepted' = [accepted EXCEPT ![e] = IF @ < 2 THEN @ + 1 ELSE @]
    BY Zenon DEF Accept, e
  <1>6. /\ accepted' \in [Entries -> 0 .. 2]
        /\ accepted'[e] > 0
        /\ accepted'[e] = 2 => e \in uncertain
        /\ \A x \in Entries : x # e => accepted'[x] = accepted[x]
    BY <1>1, <1>2, <1>4, <1>5 DEF Types
  <1>7. ASSUME NEW x \in Entries PROVE <<x, "stored">> \notin partial'
    <2>1. <<x, "stored">> \notin partial
      BY Zenon DEF IInv, AcceptedOK
    <2>2. partial' = IF ship[s].short THEN partial \cup {<<e, ship[s].mode>>} ELSE partial
      BY Zenon DEF Accept, e
    <2>3. ship[s].short => ship[s].mode # "stored"
      BY <1>1, Zenon DEF RunOK, Reading
    <2>. QED
      BY <2>1, <2>2, <2>3, Zenon
  <1>. QED
    BY <1>2, <1>3, <1>6, <1>7, Zenon DEF e

\* An upload that ends well.
LEMMA PostOkKeeps ==
    ASSUME IInv, NEW s \in Shippers, PostOk(s)
    PROVE  IInv'
  <1>. DEFINE e == Now(s)
              r == [ship[s] EXCEPT !.pc = "move"]
  <1>1. /\ ship[s].pc = "post" /\ Types /\ RunOK(s) /\ ship[s] \in ShipType
        /\ UNCHANGED <<entry, hook, lock, now, uncertain>>
        /\ ship[s].pc \in Working /\ ship[s].pc \in Reading
    BY Zenon DEF PostOk, IInv, Types, Working, Reading
  <1>2. /\ e \in Entries /\ entry[e].where = "pending"
        /\ accepted' \in [Entries -> 0 .. 2]
        /\ accepted'[e] > 0
        /\ accepted'[e] = 2 => e \in uncertain
        /\ \A x \in Entries : x # e => accepted'[x] = accepted[x]
        /\ \A x \in Entries : <<x, "stored">> \notin partial'
        /\ \A t \in Shippers : ship[t].pc # "move"
    BY <1>1, AcceptIs, Zenon DEF PostOk
  <1>3. /\ r \in ShipType /\ r.pc = "move" /\ r.todo = ship[s].todo /\ r.short = ship[s].short
        /\ r.mine = ship[s].mine /\ r.keep = ship[s].keep /\ r.mode = ship[s].mode
    BY <1>1, Zenon DEF ShipType, Working, Reading
  <1>4. ship' = [ship EXCEPT ![s] = r]
    BY <1>1, Zenon DEF PostOk, Types
  <1>. HIDE DEF r
  <1>5. ship'[s] = r /\ lock = s
    BY <1>1, <1>4, Zenon DEF Types, RunOK
  <1>6. Now(s)' = e
    BY <1>3, <1>5, Zenon DEF Now
  <1>. HIDE DEF e
  <1>7. RunOK(s)'
    <2>1. r.pc \in Working /\ r.pc \in Reading
      BY <1>3, Zenon DEF Working, Reading
    <2>2. ship[s].mode = "stored" => entry[e].file["cfg"] = "full" /\ ~ship[s].short
      BY <1>1, Zenon DEF RunOK, e
    <2>. QED
      BY <1>1, <1>2, <1>3, <1>5, <1>6, <2>1, <2>2, Zenon DEF RunOK
  <1>8. ASSUME NEW x \in Entries PROVE AcceptedOK(x)'
    <2>1. AcceptedOK(x)
      BY Zenon DEF IInv
    <2>2. CASE x = e
      BY <1>1, <1>2, <1>3, <1>5, <1>6, <2>1, <2>2, Zenon DEF AcceptedOK
    <2>3. CASE x # e
      BY <1>1, <1>2, <2>1, <2>3, Zenon DEF AcceptedOK
    <2>. QED
      BY <2>2, <2>3, Zenon
  <1>. QED
    BY <1>1, <1>2, <1>3, <1>4, <1>5, <1>7, <1>8, WorkStep, Zenon DEF Types

\* An upload that does not, whatever the server made of it.
LEMMA PostFailsKeeps ==
    ASSUME IInv, NEW s \in Shippers, PostFails(s)
    PROVE  IInv'
  <1>. DEFINE e == Now(s)
  <1>1. /\ ship[s].pc = "post" /\ Types /\ RunOK(s)
        /\ UNCHANGED <<entry, hook, now>>
        /\ ship' = [ship EXCEPT ![s] = IdleShip] /\ lock' = None
        /\ ship[s].pc \in Working
    BY Zenon DEF PostFails, IInv, Working, Reading
  <1>2. CASE Accept(s) /\ uncertain' = uncertain \cup {e}
    <2>1. /\ accepted' \in [Entries -> 0 .. 2]
          /\ accepted'[e] > 0
          /\ \A x \in Entries : x # e => accepted'[x] = accepted[x]
          /\ \A x \in Entries : <<x, "stored">> \notin partial'
          /\ \A t \in Shippers : ship[t].pc # "move"
      BY <1>1, <1>2, AcceptIs, Zenon
    <2>. HIDE DEF e
    <2>2. ASSUME NEW x \in Entries PROVE AcceptedOK(x)'
      <3>1. AcceptedOK(x)
        BY Zenon DEF IInv
      <3>. QED
        BY <1>1, <1>2, <2>1, <3>1, Zenon DEF AcceptedOK
    <2>. QED
      BY <1>1, <2>1, <2>2, EndStep, Zenon DEF Types
  <1>3. CASE UNCHANGED <<accepted, partial, uncertain>>
    <2>1. ASSUME NEW x \in Entries PROVE AcceptedOK(x)'
      <3>1. \A t \in Shippers : ship[t].pc = "move" => ship'[t] = ship[t]
        BY <1>1, Zenon DEF Types
      <3>. QED
        BY <1>1, <1>3, <3>1, QuietEntry, Zenon
    <2>. QED
      BY <1>1, <1>3, <2>1, EndStep, Zenon DEF Types
  <1>. QED
    BY <1>2, <1>3, Zenon DEF PostFails

\* The move to sent/ and the retention of the run.
LEMMA MoveKeeps ==
    ASSUME IInv, NEW s \in Shippers, MoveToSent(s)
    PROVE  IInv'
  <1>. DEFINE e == Now(s)
              keep == IF ship[s].keep = None \/ entry[e].keep > ship[s].keep
                        THEN entry[e].keep ELSE ship[s].keep
              r == [ship[s] EXCEPT !.pc = "next", !.todo = @ \ {e}, !.mine = @ \cup {e},
                                   !.short = FALSE, !.keep = keep]
              new == [entry[e] EXCEPT !.where = "sent"]
  <1>1. /\ ship[s].pc = "move" /\ Types /\ RunOK(s) /\ ship[s] \in ShipType
        /\ UNCHANGED <<hook, lock, now, accepted, uncertain, partial>>
        /\ ship[s].pc \in Working /\ ship[s].pc \in Reading
    BY Zenon DEF MoveToSent, IInv, Types, Working, Reading
  <1>2. e \in Entries /\ e \in ship[s].todo /\ entry[e].where = "pending"
    BY <1>1, NowIsTodo, Zenon DEF RunOK
  <1>3. entry[e].keep \in Nat /\ keep \in Nat /\ entry[e].keep <= keep
        /\ (ship[s].keep # None => ship[s].keep <= keep)
    <2>1. entry[e].keep \in Nat
      BY <1>2, EntryNumbers, Zenon
    <2>2. ship[s].keep = None \/ ship[s].keep \in Nat
      BY <1>1, Zenon DEF ShipType
    <2>. QED
      BY <2>1, <2>2
  <1>4. new \in EntryType /\ new.where = "sent" /\ new.file = entry[e].file /\ new.keep = entry[e].keep
    BY <1>1, <1>2, SMTT(20) DEF Types, EntryType
  <1>5. ship' = [ship EXCEPT ![s] = r] /\ entry' = [entry EXCEPT ![e] = new]
    BY <1>1, <1>2, Zenon DEF MoveToSent, Types, ShipType, EntryType
  <1>6. accepted[e] > 0
    BY <1>1, Zenon DEF RunOK
  <1>. HIDE DEF e, keep, new
  <1>7. /\ r \in ShipType /\ r.pc = "next" /\ r.todo = ship[s].todo \ {e} /\ ~r.short
        /\ r.mine = ship[s].mine \cup {e} /\ r.keep = keep /\ r.mode = ship[s].mode
    BY <1>1, <1>2, <1>3, Zenon DEF ShipType, Working
  <1>. HIDE DEF r
  <1>8. /\ ship'[s] = r /\ lock = s
        /\ \A x \in Entries : entry'[x] = IF x = e THEN new ELSE entry[x]
        /\ entry' \in [Entries -> EntryType]
    BY <1>1, <1>4, <1>5, Zenon DEF Types, RunOK
  <1>9. RunOK(s)'
    <2>1. r.todo \subseteq Entries /\ r.mine \subseteq Entries
      BY <1>7, Zenon DEF ShipType
    <2>2. \A x \in r.todo : entry'[x].where = "pending"
      BY <1>1, <1>7, <1>8, <2>1, ZenonT(40) DEF RunOK
    <2>3. ASSUME NEW x \in r.mine
          PROVE  entry'[x].where \in {"sent", "removed"} /\ entry'[x].keep <= keep
      <3>1. CASE x = e
        BY <1>2, <1>3, <1>4, <1>8, <3>1, Zenon
      <3>2. CASE x # e
        <4>1. x \in ship[s].mine /\ x \in Entries
          BY <1>7, <2>1, <3>2, Zenon
        <4>2. ship[s].keep # None /\ ship[s].keep \in Nat /\ entry[x].keep \in Nat
          BY <1>1, <4>1, EntryNumbers, Zenon DEF RunOK, ShipType
        <4>. QED
          <5>1. entry'[x] = entry[x]
            BY <1>8, <3>2, <4>1, Zenon
          <5>2. entry[x].where \in {"sent", "removed"} /\ entry[x].keep <= ship[s].keep
            BY <1>1, <4>1, Zenon DEF RunOK
          <5>3. entry[x].keep <= keep
            BY <1>3, <4>2, <5>2
          <5>. QED
            BY <5>1, <5>2, <5>3, Zenon
      <3>. QED
        BY <3>1, <3>2, Zenon
    <2>4. keep # None
      BY <1>3, CrashSpoolAssumption, Zenon
    <2>. QED
      BY <1>1, <1>7, <1>8, <2>2, <2>3, <2>4, Zenon DEF RunOK, Working, Reading
  <1>10. ASSUME NEW x \in Entries PROVE AcceptedOK(x)'
    <2>1. AcceptedOK(x)
      BY Zenon DEF IInv
    <2>2. CASE x = e
      BY <1>1, <1>4, <1>6, <1>8, <2>1, <2>2, Zenon DEF AcceptedOK
    <2>3. CASE x # e
      <3>1. \A t \in Shippers : ~(ship[t].pc = "move" /\ Now(t) = x)
        BY <1>1, <2>3, OneWorks, Zenon DEF Working, Reading, e
      <3>. QED
        BY <1>1, <1>8, <2>1, <2>3, <3>1, Zenon DEF AcceptedOK
    <2>. QED
      BY <2>2, <2>3, Zenon
  <1>11. \A x \in Entries : entry'[x].file = entry[x].file
    BY <1>4, <1>8, Zenon
  <1>. QED
    BY <1>1, <1>5, <1>7, <1>8, <1>9, <1>10, <1>11, WorkStep, Zenon DEF Types

\* The end of a run.
LEMMA EndRunKeeps ==
    ASSUME IInv, NEW s \in Shippers, EndRun(s)
    PROVE  IInv'
  <1>1. /\ ship[s].pc = "next" /\ Types /\ ship[s].pc \in Working
        /\ ship' = [ship EXCEPT ![s] = IdleShip] /\ lock' = None
        /\ UNCHANGED <<hook, now, accepted, uncertain, partial>>
    BY Zenon DEF EndRun, IInv, Working
  <1>2. /\ entry' \in [Entries -> EntryType]
        /\ \A x \in Entries :
                /\ entry'[x].file = entry[x].file
                /\ entry'[x].where = entry[x].where
                   \/ (entry[x].where = "sent" /\ entry'[x].where = "removed")
    BY <1>1, CleanedIs, Zenon DEF EndRun, Types
  <1>3. ASSUME NEW x \in Entries PROVE AcceptedOK(x)'
    <2>1. \A t \in Shippers : ship[t].pc = "move" => ship'[t] = ship[t]
      BY <1>1, Zenon DEF Types
    <2>. QED
      BY <1>1, <1>2, <2>1, QuietEntry, Zenon
  <1>. QED
    BY <1>1, <1>2, <1>3, EndStep, Zenon DEF Types

\* An unreadable entry ends the run.
LEMMA AbortKeeps ==
    ASSUME IInv, NEW s \in Shippers, Abort(s)
    PROVE  IInv'
  <1>1. /\ ship[s].pc \in {"next", "meta", "dump", "attach"} /\ Types /\ ship[s].pc \in Working
        /\ ship' = [ship EXCEPT ![s] = IdleShip] /\ lock' = None
        /\ UNCHANGED <<entry, hook, now, accepted, uncertain, partial>>
    BY Zenon DEF Abort, Unreadable, IInv, Working, Reading
  <1>2. ASSUME NEW x \in Entries PROVE AcceptedOK(x)'
    <2>1. \A t \in Shippers : ship[t].pc = "move" => ship'[t] = ship[t]
      BY <1>1, Zenon DEF Types
    <2>. QED
      BY <1>1, <2>1, QuietEntry, Zenon
  <1>. QED
    BY <1>1, <1>2, EndStep, Zenon DEF Types

\* A run that fails anywhere; at worst its last upload is an uncertain one.
LEMMA RunFailsKeeps ==
    ASSUME IInv, NEW s \in Shippers, RunFails(s)
    PROVE  IInv'
  <1>1. /\ ship[s].pc # "idle" /\ Types /\ RunOK(s) /\ ship[s] \in ShipType
        /\ uncertain' = IF ship[s].pc = "move" THEN uncertain \cup {Now(s)} ELSE uncertain
        /\ ship' = [ship EXCEPT ![s] = IdleShip]
        /\ lock' = IF lock = s THEN None ELSE lock
        /\ UNCHANGED <<entry, hook, now, accepted, partial>>
    BY Zenon DEF RunFails, IInv, Types
  <1>2. \A t \in Shippers : t # s => ship'[t] = ship[t]
    BY <1>1, Zenon DEF Types
  <1>3. ASSUME NEW x \in Entries PROVE AcceptedOK(x)'
    BY <1>1, <1>2, QuietEntry, Zenon
  <1>4. CASE ship[s].pc \in Working
    <2>1. lock' = None
      BY <1>1, <1>4, Zenon DEF RunOK
    <2>. QED
      BY <1>1, <1>3, <1>4, <2>1, EndStep, Zenon DEF Types
  <1>5. CASE ship[s].pc \notin Working
    <2>1. lock # s /\ lock' = lock
      BY <1>1, <1>5, Zenon DEF RunOK
    <2>2. ship'[s] = IdleShip /\ IdleShip \in ShipType
      BY <1>1, Zenon DEF Types, IdleShip, ShipType
    <2>3. RunOK(s)'
      BY <2>1, <2>2 DEF RunOK, IdleShip, Working, Reading
    <2>4. ASSUME NEW t \in Shippers, t # s PROVE RunOK(t)'
      BY <1>1, <1>2, <2>1, <2>4, QuietRun, Zenon
    <2>5. Types'
      BY <1>1, <2>1, <2>2, Zenon DEF Types
    <2>6. \A x \in Entries : FilesOK(x)'
      BY <1>1, Zenon DEF FilesOK, IInv
    <2>. QED
      BY <1>3, <2>3, <2>4, <2>5, <2>6, Zenon DEF IInv
  <1>. QED
    BY <1>4, <1>5, Zenon

\* Every step of a hook, a run or the clock keeps the inductive invariant.
LEMMA StepKeepsIInv == IInv /\ [Next]_vars => IInv'
  <1>. SUFFICES ASSUME IInv, [Next]_vars PROVE IInv'
    OBVIOUS
  <1>1. ASSUME NEW e \in Entries, Hook(e) PROVE IInv'
    BY <1>1, CaptureKeeps, WriteKeeps, HookFailsOrTick, Zenon DEF Hook
  <1>2. ASSUME NEW s \in Shippers, Run(s) PROVE IInv'
    BY <1>2, AcquireKeeps, CleanFirstKeeps, ListKeeps, ReadsKeep, PostOkKeeps, PostFailsKeeps,
       MoveKeeps, EndRunKeeps, AbortKeeps, Zenon DEF Run
  <1>3. CASE UNCHANGED vars
    <2>1. /\ UNCHANGED <<entry, hook, ship, lock, now, accepted, uncertain, partial>>
      BY <1>3, Zenon DEF vars
    <2>2. Types' /\ \A e \in Entries : FilesOK(e)'
      BY <2>1, Zenon DEF IInv, Types, FilesOK
    <2>3. \A e \in Entries : AcceptedOK(e)'
      BY <2>1, QuietEntry, Zenon
    <2>4. \A s \in Shippers : RunOK(s)'
      BY <2>1, QuietRun, Zenon
    <2>. QED
      BY <2>2, <2>3, <2>4, Zenon DEF IInv
  <1>. QED
    BY <1>1, <1>2, <1>3, StartKeeps, RunFailsKeeps, HookFailsOrTick, Zenon DEF Next

-----------------------------------------------------------------------------
\* The inductive invariant holds of every behaviour of hooks and shippers.
THEOREM SpoolInductive == Spec => []IInv
  <1>1. Init => IInv
    <2>. SUFFICES ASSUME Init PROVE IInv
      OBVIOUS
    <2>1. NoEntry \in EntryType /\ IdleShip \in ShipType
      BY CrashSpoolAssumption DEF NoEntry, EntryType, IdleShip, ShipType
    <2>2. Types
      BY <2>1, CrashSpoolAssumption DEF Init, Types, Done
    <2>3. ASSUME NEW e \in Entries PROVE FilesOK(e) /\ AcceptedOK(e)
      BY DEF Init, FilesOK, AcceptedOK, NoEntry, Files, Done
    <2>4. ASSUME NEW s \in Shippers PROVE RunOK(s)
      BY CrashSpoolAssumption, Zenon DEF Init, RunOK, IdleShip, Working, Reading
    <2>. QED
      BY <2>2, <2>3, <2>4, Zenon DEF IInv
  <1>. QED
    BY <1>1, StepKeepsIInv, PTL DEF Spec

\* Values are in range and the lock is held by a run that works.
THEOREM SpoolTypes == Spec => []TypeOK
  <1>1. IInv => TypeOK
    BY Zenon DEF IInv, Types, RunOK, TypeOK, EntryType, ShipType, Working, Reading
  <1>. QED
    BY <1>1, SpoolInductive, PTL

\* An entry leaves pending/ only after the server accepted it, whatever fails
\* and however many processes share the spool.
THEOREM SentSafety == Spec => []SentWereAccepted
  <1>1. IInv => SentWereAccepted
    BY Zenon DEF IInv, AcceptedOK, SentWereAccepted
  <1>. QED
    BY <1>1, SpoolInductive, PTL

\* A run from the stored configuration uploads complete entries only.
THEOREM CompleteSafety == Spec => []StoredShipsComplete
  <1>1. IInv => StoredShipsComplete
    BY Zenon DEF IInv, AcceptedOK, StoredShipsComplete
  <1>. QED
    BY <1>1, SpoolInductive, PTL

\* Without a failed upload no entry is accepted twice.
THEOREM OnceSafety == Spec => []UploadedTwiceOnlyWhenUncertain
  <1>1. IInv => UploadedTwiceOnlyWhenUncertain
    BY Zenon DEF IInv, AcceptedOK, UploadedTwiceOnlyWhenUncertain
  <1>. QED
    BY <1>1, SpoolInductive, PTL

\* No run removes what it has just sent before the entry's own retention ends.
THEOREM RetentionSafety == Spec => RunKeepsItsEntries
  <1>. DEFINE Kept == \A s \in Shippers : \A e \in ship[s].mine :
                        ship[s].mode = "stored" /\ entry[e].where = "sent"
                            /\ entry'[e].where = "removed" =>
                                now - entry[e].born > entry[e].keep
  <1>1. IInv /\ [Next]_vars => [Kept]_vars
    <2>. SUFFICES ASSUME IInv, Next, NEW s \in Shippers, NEW e \in ship[s].mine,
                         ship[s].mode = "stored", entry[e].where = "sent",
                         entry'[e].where = "removed"
                  PROVE  now - entry[e].born > entry[e].keep
      OBVIOUS
    <2>1. /\ e \in Entries /\ ship[s].pc \in {"next"} \cup Reading
          /\ ship[s].keep # None /\ ship[s].keep \in Nat
          /\ entry[e].keep <= ship[s].keep /\ entry[e].keep \in Nat
          /\ entry[e].born \in Nat /\ now \in Nat
          /\ Types
      <3>1. ship[s] \in ShipType /\ RunOK(s) /\ Types
        BY Zenon DEF IInv, Types
      <3>2. /\ e \in Entries /\ ship[s].pc \in {"next"} \cup Reading
            /\ ship[s].keep # None /\ ship[s].keep \in Nat
            /\ entry[e].keep <= ship[s].keep
        BY <3>1, Zenon DEF RunOK, ShipType
      <3>. QED
        BY <3>1, <3>2, EntryNumbers, Zenon
    <2>2. ASSUME NEW x \in Entries, Hook(x) PROVE FALSE
      <3>1. entry' = entry \/ \E v : entry' = [entry EXCEPT ![x] = v] /\ (x = e => v.where # "removed")
        <4>1. CASE Capture(x)
          <5>1. x # e
            BY <4>1, Zenon DEF Capture
          <5>. QED
            BY <4>1, <5>1, Zenon DEF Capture
        <4>2. CASE WriteStep(x)
          <5>1. entry[x] \in EntryType
            BY <2>1, Zenon DEF Types
          <5>. DEFINE f == FileOrder[hook[x] \div 2 + 1]
          <5>2. \/ entry' = entry
                \/ entry' = [entry EXCEPT ![x].file[f] = "empty"]
                \/ entry' = [entry EXCEPT ![x].file[f] = "full"]
            BY <4>2, Zenon DEF WriteStep
          <5>. HIDE DEF f
          <5>3. ASSUME NEW v, entry' = [entry EXCEPT ![x].file[f] = v]
                PROVE  \E w : entry' = [entry EXCEPT ![x] = w] /\ (x = e => w.where # "removed")
            <6>. DEFINE w == [entry[x] EXCEPT !.file = [entry[x].file EXCEPT ![f] = v]]
            <6>1. entry' = [entry EXCEPT ![x] = w]
              BY <5>3, Zenon
            <6>2. w.where = entry[x].where
              BY <5>1, Zenon DEF EntryType
            <6>. HIDE DEF w
            <6>. QED
              BY <6>1, <6>2, Zenon
          <5>. QED
            BY <5>2, <5>3, Zenon
        <4>3. CASE HookFails(x)
          BY <4>3, Zenon DEF HookFails
        <4>. QED
          BY <2>2, <4>1, <4>2, <4>3, Zenon DEF Hook
      <3>. QED
        BY <2>1, <3>1, Zenon DEF Types
    <2>3. entry' # entry
      OBVIOUS
    <2>4. ASSUME NEW t \in Shippers, StartRun(t) \/ Run(t) \/ RunFails(t)
          PROVE  now - entry[e].born > entry[e].keep
      <3>1. CleanFirst(t) \/ MoveToSent(t) \/ EndRun(t)
        BY <2>3, <2>4, Zenon DEF StartRun, Run, RunFails, Acquire, ListPending, Resolve, ReadMeta,
                          ReadDump, ReadAttachments, PostOk, PostFails, Abort
      <3>2. ship[t].pc \in Working /\ ship[s].pc \in Working
        BY <2>1, <3>1, Zenon DEF CleanFirst, MoveToSent, EndRun, Working, Reading
      <3>3. t = s
        BY <3>2, OneWorks, Zenon
      <3>4. ~CleanFirst(t)
        BY <2>1, <3>3, Zenon DEF CleanFirst, Reading
      <3>5. ~MoveToSent(t)
        <4>1. SUFFICES ASSUME MoveToSent(t) PROVE FALSE
          OBVIOUS
        <4>2. entry' = [entry EXCEPT ![Now(t)].where = "sent"] /\ ship[t].pc \in Reading
          BY <4>1, Zenon DEF MoveToSent, Reading
        <4>3. entry[Now(t)].where = "pending"
          BY <4>2, NowIsTodo, Zenon DEF IInv, RunOK
        <4>. QED
          BY <2>1, <4>2, <4>3, Zenon DEF Types
      <3>6. entry' = Cleaned(ship[s].keep)
        BY <2>1, <2>3, <3>1, <3>3, <3>4, <3>5, Zenon DEF EndRun, RetentionOrDefault
      <3>7. entry[e].born < now - ship[s].keep
        BY <2>1, <2>3, <3>6, Zenon DEF Cleaned
      <3>. QED
        BY <2>1, <3>7
    <2>5. CASE Tick
      BY <2>3, <2>5, Zenon DEF Tick
    <2>. QED
      BY <2>2, <2>4, <2>5, Zenon DEF Next
  <1>. QED
    BY <1>1, SpoolInductive, PTL DEF Spec, RunKeepsItsEntries
=============================================================================
