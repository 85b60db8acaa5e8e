-------------------------- MODULE CrashStoreProofs --------------------------
(* Proofs about CrashStore, for any number of handlers, blobs and keys and *)
(* any bounds.                                                             *)
EXTENDS CrashStore, FiniteSetTheorems, TLAPS

USE CrashStoreAssumption

(***************************************************************************)
(* Lemmas on the operators the actions are built from                      *)
(***************************************************************************)

\* The record an absent index stands for, and an empty request, are well typed.
LEMMA EmptyValues ==
    /\ NoFile \in IndexFile
    /\ NoRequest \in Request
    /\ NoFile.state = "absent" /\ NoFile.refs = {}
    /\ NoRequest.ptrs = {}
BY Zenon DEF NoFile, NoRequest, IndexFile, IndexState, Request, Pointer, PartKinds

\* What a handler writes into its index file is a well-typed file that, when
\* complete, refers to the blobs the handler holds and is marked raced when
\* the handler is.
LEMMA WrittenFile ==
    ASSUME TypeOK, NEW h \in Handlers, NEW old, NEW f \in Written(h, old)
    PROVE  /\ f \in IndexFile
           /\ f.state # "complete" => f.refs = {}
           /\ f.state = "complete" => f.refs = Held(h) /\ f.raced = (h \in raced)
<1>1. PICK s \in {"complete", "garbled"} :
        f = [state |-> s, refs |-> IF s = "complete" THEN Held(h) ELSE {}, mtime |-> now,
             raced |-> s = "complete" /\ h \in raced]
    BY Zenon DEF Written
<1>2. Held(h) \subseteq Blobs
    BY DEF TypeOK, Held, Request, Pointer
<1>3. QED
    BY <1>1, <1>2 DEF IndexFile, IndexState, TypeOK

\* The path a handler publishes under is one of the paths of the tree.
LEMMA IndexPathType ==
    ASSUME TypeOK, NEW h \in Handlers, pc[h] # "idle", req[h].dump # None
    PROVE  IndexPath(h) \in Paths
BY Zenon DEF TypeOK, IndexPath, Paths, Request

(***************************************************************************)
(* Type correctness                                                        *)
(***************************************************************************)

\* A handler that ends, answered or dropped, leaves its own state well typed.
LEMMA FinishType ==
    ASSUME TypeOK, NEW h \in Handlers, Finish(h)
    PROVE  /\ pc' \in [Handlers -> Phases]
           /\ req' \in [Handlers -> Request]
           /\ \A g \in Handlers :
                /\ pc'[g] # "idle" => req'[g].key # None
                /\ pc'[g] \in {"writing", "link"} => req'[g].part # None
                /\ pc'[g] = "fill" => req'[g].dump # None
           /\ detached' \subseteq Handlers
           /\ raced' \subseteq Handlers
BY EmptyValues, Zenon DEF TypeOK, Finish, Phases

\* Settling on a blob (finalize_blob's result) gives a well-typed pointer.
LEMMA PointType ==
    ASSUME TypeOK, NEW h \in Handlers, NEW b \in Blobs, NEW d \in BOOLEAN,
           pc[h] # "idle", Point(h, b, d)
    PROVE  /\ pc' \in [Handlers -> Phases]
           /\ req' \in [Handlers -> Request]
           /\ \A g \in Handlers :
                /\ pc'[g] # "idle" => req'[g].key # None
                /\ pc'[g] \in {"writing", "link"} => req'[g].part # None
                /\ pc'[g] = "fill" => req'[g].dump # None
           /\ raced' \subseteq Handlers
<1>1. [sha |-> b, dedup |-> d] \in Pointer
    BY Zenon DEF Pointer
<1>2. /\ req' \in [Handlers -> Request]
      /\ \A g \in Handlers : req'[g].key = req[g].key
      /\ \A g \in Handlers \ {h} : req'[g] = req[g]
    <2> DEFINE r == [req[h] EXCEPT !.ptrs = req[h].ptrs \cup {[sha |-> b, dedup |-> d]},
                                   !.dump = IF req[h].kind = "dump" THEN b ELSE req[h].dump]
    <2>1. req' = [req EXCEPT ![h] = r]
        BY Zenon DEF Point, TypeOK
    <2>2. r \in Request /\ r.key = req[h].key
        <3>1. req[h] \in Request
            BY Zenon DEF TypeOK
        <3>2. QED BY <1>1, <3>1, Zenon DEF Request
    <2> HIDE DEF r
    <2>3. QED
        BY <2>1, <2>2, Zenon DEF TypeOK
<1>3. pc' \in [Handlers -> Phases] /\ pc'[h] = "unlink" /\ \A g \in Handlers \ {h} : pc'[g] = pc[g]
    BY Zenon DEF TypeOK, Point, Phases
<1>4. raced' \subseteq Handlers
    BY Zenon DEF TypeOK, Point
<1>5. QED
    BY <1>2, <1>3, <1>4, Zenon DEF TypeOK

\* Every step of crashes_handler keeps the state well typed.
LEMMA HandlerType ==
    ASSUME TypeOK, NEW h \in Handlers, HandlerStep(h)
    PROVE  TypeOK'
<1> USE DEF handlerVars, tmpVars, janitorVars, boundVars
<1>1. CASE Admit(h)
    <2>1. PICK k \in Keys : req' = [req EXCEPT ![h].key = k]
        BY <1>1, Zenon DEF Admit
    <2>2. req' \in [Handlers -> Request] /\ req'[h].key = k
        BY <2>1, SMTT(20) DEF TypeOK, Request
    <2>3. \A g \in Handlers \ {h} : req'[g] = req[g] /\ pc'[g] = pc[g]
        BY <1>1, <2>1, Zenon DEF Admit, TypeOK
    <2>4. k # None
        OBVIOUS
    <2>5. QED
        BY <1>1, <2>2, <2>3, <2>4 DEF Admit, TypeOK, Phases
<1>2. CASE NextPart(h)
    BY <1>2 DEF NextPart, TypeOK, Phases, Request, PartKinds
<1>3. CASE RejectParts(h)
    BY <1>3, FinishType, Zenon DEF RejectParts, TypeOK
<1>4. CASE RejectOversize(h)
    <2>1. tmp' \in Int
        BY <1>4 DEF RejectOversize, TypeOK
    <2>2. QED
        BY <1>4, <2>1, FinishType, Zenon DEF RejectOversize, TypeOK
<1>5. CASE TryExists(h)
    <2>1. req[h].part \in Blobs
        BY <1>5, Zenon DEF TryExists, TypeOK, Request
    <2>2. CASE req[h].part \in blobs
        BY <1>5, <2>1, <2>2, PointType, Zenon DEF TryExists, TypeOK
    <2>3. CASE req[h].part \notin blobs
        BY <1>5, <2>1, <2>3, Zenon DEF TryExists, TypeOK, Phases
    <2>4. QED BY <2>2, <2>3, Zenon
<1>6. CASE HardLink(h)
    <2>1. req[h].part \in Blobs
        BY <1>6, Zenon DEF HardLink, TypeOK, Request
    <2>2. QED
        BY <1>6, <2>1, PointType, Zenon DEF HardLink, TypeOK
<1>7. CASE HardLinkError(h)
    <2>1. tmp' \in Int
        BY <1>7 DEF HardLinkError, TypeOK
    <2>2. QED
        BY <1>7, <2>1, FinishType, Zenon DEF HardLinkError, TypeOK
<1>8. CASE RemoveTemp(h)
    <2> DEFINE r == [req[h] EXCEPT !.part = None, !.kind = "attach"]
    <2>1. req' = [req EXCEPT ![h] = r]
        BY <1>8, Zenon DEF RemoveTemp, TypeOK
    <2>2. r \in Request /\ r.key = req[h].key
        <3>1. req[h] \in Request
            BY Zenon DEF TypeOK
        <3>2. QED BY <3>1, Zenon DEF Request, PartKinds
    <2> HIDE DEF r
    <2>3. /\ req' \in [Handlers -> Request]
          /\ req'[h].key = req[h].key
          /\ \A g \in Handlers \ {h} : req'[g] = req[g]
        BY <2>1, <2>2, Zenon DEF TypeOK
    <2>4. /\ pc' \in [Handlers -> Phases] /\ pc[h] # "idle" /\ pc'[h] = "parts"
          /\ \A g \in Handlers \ {h} : pc'[g] = pc[g]
        BY <1>8, Zenon DEF RemoveTemp, TypeOK, Phases
    <2>5. UNCHANGED <<blobs, idx, detached, stray, janitorVars, boundVars, raced>>
        BY <1>8, Zenon DEF RemoveTemp
    <2>6. tmp' \in Int
        BY <1>8 DEF RemoveTemp, TypeOK
    <2>7. QED
        BY <2>3, <2>4, <2>5, <2>6 DEF TypeOK
<1>9. CASE OpenIndex(h)
    <2>1. [NoFile EXCEPT !.state = "partial", !.mtime = now] \in IndexFile
        BY Zenon DEF NoFile, IndexFile, IndexState, TypeOK
    <2>2. QED
        BY <1>9, <2>1, IndexPathType, Zenon DEF OpenIndex, TypeOK, Phases
<1>10. CASE FillIndex(h)
    <2>1. idx' \in [Paths -> IndexFile]
        BY <1>10, WrittenFile, IndexPathType DEF FillIndex, TypeOK
    <2>2. QED
        BY <1>10, <2>1, FinishType, Zenon DEF FillIndex, TypeOK
<1>11. CASE Abort(h)
    BY <1>11, FinishType DEF Abort, TypeOK
<1>12. CASE RejectBody(h)
    <2>1. stray' \in Nat
        BY <1>12 DEF RejectBody, TypeOK
    <2>2. QED
        BY <1>12, <2>1, FinishType, Zenon DEF RejectBody, TypeOK
<1>13. QED
    BY <1>1, <1>2, <1>3, <1>4, <1>5, <1>6, <1>7, <1>8, <1>9, <1>10, <1>11, <1>12, Zenon
    DEF HandlerStep

\* Every step of a janitor cycle keeps the state well typed, and so does an
\* error that cuts the cycle short.
LEMMA JanitorType ==
    ASSUME TypeOK, JanitorCycle \/ JanitorError
    PROVE  TypeOK'
<1> USE DEF TypeOK, handlerVars, tmpVars, janitorVars, boundVars, JanitorPhases
<1>0. 0 \in Nat
    OBVIOUS
<1>1. CASE StartCycle
    BY <1>1, Zenon DEF StartCycle
<1>2. CASE SnapshotBlobs
    BY <1>2, Zenon DEF SnapshotBlobs
<1>3. CASE StartListing
    BY <1>3, Zenon DEF StartListing, Present
<1>4. CASE ListIndexes
    BY <1>4, Zenon DEF ListIndexes, Present
<1>5. ASSUME NEW p \in Paths, StatIndex(p) PROVE TypeOK'
    <2>1. p # None
        BY Zenon DEF Paths
    <2>2. seen' \in Nat
        BY <1>5 DEF StatIndex, IndexFile
    <2>3. QED BY <1>5, <2>1, <2>2, Zenon DEF StatIndex
<1>6. CASE RemoveIndex
    BY <1>0, <1>6, EmptyValues, Zenon DEF RemoveIndex
<1>7. CASE ReadIndex
    <2>1. idx[cur].refs \subseteq Blobs
        BY <1>7, Zenon DEF ReadIndex, IndexFile
    <2>2. QED BY <1>0, <1>7, <2>1, Zenon DEF ReadIndex
<1>8. ASSUME NEW b \in Blobs, SweepBlob(b) PROVE TypeOK'
    BY <1>8, Zenon DEF SweepBlob
<1>9. CASE FinishCycle
    BY <1>0, <1>9, Zenon DEF FinishCycle, EndCycleState
<1>10. CASE JanitorError
    BY <1>10 DEF JanitorError, EndCycleState
<1>11. QED
    BY <1>1, <1>2, <1>3, <1>4, <1>5, <1>6, <1>7, <1>8, <1>9, <1>10, Zenon DEF JanitorCycle

\* A restart leaves a well-typed tree and no handler, however many temporary
\* files it strands.
LEMMA CrashType ==
    ASSUME TypeOK, Crash
    PROVE  TypeOK'
<1>1. Cardinality(Holding) \in Nat
    BY FS_Subset, FS_CardinalityType, Zenon DEF Holding
<1>2. QED
    BY <1>1, EmptyValues DEF Crash, TypeOK, EndCycleState, Phases, JanitorPhases

\* The initial state is well typed.
LEMMA InitType == Init => TypeOK
BY EmptyValues DEF Init, TypeOK, Phases, JanitorPhases

\* Every step keeps the state well typed.
LEMMA NextType ==
    ASSUME TypeOK, [Next]_vars
    PROVE  TypeOK'
<1>1. ASSUME NEW h \in Handlers, HandlerStep(h) PROVE TypeOK'
    BY <1>1, HandlerType, Zenon
<1>2. CASE JanitorCycle \/ JanitorError
    BY <1>2, JanitorType, Zenon
<1>3. CASE Crash
    BY <1>3, CrashType, Zenon
<1>4. CASE Tick
    BY <1>4 DEF Tick, TypeOK, handlerVars, tmpVars, janitorVars
<1>5. CASE UNCHANGED vars
    BY <1>5, Zenon DEF vars, TypeOK, handlerVars, tmpVars, janitorVars, boundVars
<1>6. QED
    BY <1>1, <1>2, <1>3, <1>4, <1>5, Zenon DEF Next

\* Every reachable state is well typed: the type invariant of CrashStore.
THEOREM TypeCorrect == Spec => []TypeOK
BY InitType, NextType, PTL DEF Spec

(***************************************************************************)
(* What each step does to the blobs the uploads hold                       *)
(***************************************************************************)

\* A handler that ends holds nothing; the others hold what they held.
LEMMA FinishHeld ==
    ASSUME TypeOK, NEW h \in Handlers, Finish(h)
    PROVE  \A g \in Handlers : Held(g)' = IF g = h THEN {} ELSE Held(g)
BY EmptyValues, Zenon DEF TypeOK, Finish, Held

\* Settling on a blob adds it, and only it, to what the handler holds.
LEMMA PointHeld ==
    ASSUME TypeOK, NEW h \in Handlers, NEW b \in Blobs, NEW d \in BOOLEAN, Point(h, b, d)
    PROVE  \A g \in Handlers : Held(g)' = IF g = h THEN Held(h) \cup {b} ELSE Held(g)
<1>1. req'[h].ptrs = req[h].ptrs \cup {[sha |-> b, dedup |-> d]}
    BY DEF Point, TypeOK, Request
<1>2. Held(h)' = Held(h) \cup {b}
    <2> DEFINE new == [sha |-> b, dedup |-> d]
    <2>1. new.sha = b
        OBVIOUS
    <2> HIDE DEF new
    <2>2. {p.sha : p \in req[h].ptrs \cup {new}} = {p.sha : p \in req[h].ptrs} \cup {new.sha}
        OBVIOUS
    <2>3. QED
        BY <1>1, <2>1, <2>2, Zenon DEF Held, new
<1>3. \A g \in Handlers \ {h} : req'[g] = req[g]
    BY Zenon DEF Point, TypeOK
<1>4. QED
    BY <1>2, <1>3, Zenon DEF Held

\* A step that gives out no pointer leaves what every handler holds.
LEMMA SameHeld ==
    ASSUME \A g \in Handlers : req'[g].ptrs = req[g].ptrs
    PROVE  \A g \in Handlers : Held(g)' = Held(g)
BY Zenon DEF Held
(***************************************************************************)
(* The inductive invariant                                                 *)
(***************************************************************************)

\* The inductive invariant holds initially: nothing is stored, held or published.
LEMMA InitIInv == Init => IInv
BY InitType, EmptyValues, Zenon
DEF Init, IInv, SnapshotIsStored, IndexShape, UploadsSafe, IndexesSafe, Held, Collecting

\* An upload that ends has nothing left to lose.
LEMMA FinishUploadsSafe ==
    ASSUME IInv, NEW h \in Handlers, Finish(h), UNCHANGED <<blobs, janitorVars>>
    PROVE  UploadsSafe'
<1> SUFFICES ASSUME NEW g \in Handlers, g \notin raced'
             PROVE  Held(g)' \subseteq blobs' /\ (Collecting' => Held(g)' \cap snapshot' = {})
    BY Zenon DEF UploadsSafe
<1>1. Held(g)' = IF g = h THEN {} ELSE Held(g)
    BY FinishHeld, Zenon DEF IInv
<1>2. CASE g = h
    BY <1>1, <1>2, Zenon
<1>3. CASE g # h
    <2>1. g \notin raced
        BY <1>3, Zenon DEF Finish
    <2>2. QED
        BY <1>1, <1>3, <2>1, Zenon DEF IInv, UploadsSafe, Collecting, janitorVars
<1>4. QED BY <1>2, <1>3, Zenon

\* An upload that ends without publishing keeps it.
LEMMA FinishIInv ==
    ASSUME IInv, TypeOK', NEW h \in Handlers, Finish(h), UNCHANGED <<blobs, idx, janitorVars>>
    PROVE  IInv'
<1> USE DEF IInv, janitorVars
<1>1. SnapshotIsStored' /\ IndexShape' /\ IndexesSafe'
    BY Zenon DEF SnapshotIsStored, IndexShape, IndexesSafe, Collecting
<1>2. UploadsSafe'
    BY FinishUploadsSafe, Zenon
<1>3. QED BY <1>1, <1>2, Zenon

\* A handler that settles on a stored blob keeps it: if the sweep could take
\* the blob, the upload is marked.
LEMMA PointIInv ==
    ASSUME IInv, TypeOK', NEW h \in Handlers, NEW b \in Blobs, NEW d \in BOOLEAN,
           Point(h, b, d), blobs' = blobs \cup {b}, UNCHANGED <<idx, janitorVars>>
    PROVE  IInv'
<1> USE DEF IInv, janitorVars
<1>1. SnapshotIsStored' /\ IndexShape' /\ IndexesSafe'
    BY Zenon DEF SnapshotIsStored, IndexShape, IndexesSafe, Collecting
<1>2. UploadsSafe'
    <2> SUFFICES ASSUME NEW g \in Handlers, g \notin raced'
                 PROVE  Held(g)' \subseteq blobs' /\ (Collecting' => Held(g)' \cap snapshot' = {})
        BY Zenon DEF UploadsSafe
    <2>1. g \notin raced /\ (Collecting /\ g = h => b \notin snapshot)
        BY Zenon DEF Point
    <2>2. Held(g)' = IF g = h THEN Held(h) \cup {b} ELSE Held(g)
        BY PointHeld
    <2>3. Held(g) \subseteq blobs /\ (Collecting => Held(g) \cap snapshot = {})
        BY <2>1, Zenon DEF UploadsSafe
    <2>4. QED BY <2>1, <2>2, <2>3, Zenon DEF Collecting
<1>3. QED BY <1>1, <1>2, Zenon

\* Every step of a handler keeps it.
LEMMA HandlerIInv ==
    ASSUME IInv, TypeOK', NEW h \in Handlers, HandlerStep(h)
    PROVE  IInv'
<1> USE DEF IInv
<1>1. ASSUME UNCHANGED <<blobs, idx, janitorVars, raced>>,
             \A g \in Handlers : req'[g].ptrs = req[g].ptrs
      PROVE  IInv'
    BY <1>1, SameHeld, ZenonT(40) DEF SnapshotIsStored, IndexShape, UploadsSafe, IndexesSafe, Collecting,
                          janitorVars
<1>2. CASE Admit(h)
    <2>1. \A g \in Handlers : req'[g].ptrs = req[g].ptrs
        BY <1>2 DEF Admit, TypeOK, Request
    <2>2. QED BY <1>1, <1>2, <2>1, Zenon DEF Admit
<1>3. CASE NextPart(h)
    <2>1. \A g \in Handlers : req'[g].ptrs = req[g].ptrs
        BY <1>3 DEF NextPart, TypeOK, Request
    <2>2. QED BY <1>1, <1>3, <2>1, Zenon DEF NextPart
<1>4. CASE RemoveTemp(h)
    <2>1. \A g \in Handlers : req'[g].ptrs = req[g].ptrs
        BY <1>4 DEF RemoveTemp, TypeOK, Request
    <2>2. QED BY <1>1, <1>4, <2>1, Zenon DEF RemoveTemp
<1>5. CASE RejectParts(h) \/ RejectOversize(h) \/ RejectBody(h) \/ HardLinkError(h) \/ Abort(h)
    BY <1>5, FinishIInv, Zenon DEF RejectParts, RejectOversize, RejectBody, HardLinkError, Abort
<1>6. CASE TryExists(h)
    <2>1. req[h].part \in Blobs
        BY <1>6, Zenon DEF TryExists, TypeOK, Request
    <2>2. CASE req[h].part \in blobs
        <3>1. blobs' = blobs \cup {req[h].part}
            BY <1>6, <2>2, Zenon DEF TryExists
        <3>2. QED BY <1>6, <2>1, <2>2, <3>1, PointIInv, Zenon DEF TryExists
    <2>3. CASE req[h].part \notin blobs
        BY <1>1, <1>6, <2>3, Zenon DEF TryExists
    <2>4. QED BY <2>2, <2>3, Zenon
<1>7. CASE HardLink(h)
    <2>1. req[h].part \in Blobs
        BY <1>7, Zenon DEF HardLink, TypeOK, Request
    <2>2. blobs' = blobs \cup {req[h].part}
        BY <1>7, Zenon DEF HardLink
    <2>3. QED BY <1>7, <2>1, <2>2, PointIInv, Zenon DEF HardLink
<1>8. CASE OpenIndex(h)
    <2> DEFINE f == [NoFile EXCEPT !.state = "partial", !.mtime = now]
    <2>1. f.state = "partial" /\ f.refs = {}
        BY Zenon DEF NoFile
    <2>2. idx' = [idx EXCEPT ![IndexPath(h)] = f]
        BY <1>8, Zenon DEF OpenIndex
    <2> HIDE DEF f
    <2>3. UNCHANGED <<blobs, req, janitorVars, raced>>
        BY <1>8, Zenon DEF OpenIndex
    <2>4. SnapshotIsStored' /\ UploadsSafe'
        BY <2>3, Zenon DEF SnapshotIsStored, UploadsSafe, Collecting, Held, janitorVars
    <2>5. \A p \in Paths : idx'[p] = idx[p] \/ idx'[p] = f
        BY <2>2, Zenon DEF TypeOK
    <2>6. IndexShape' /\ IndexesSafe'
        BY <2>1, <2>3, <2>5, Zenon DEF IndexShape, IndexesSafe, Collecting, janitorVars
    <2>7. QED BY <2>4, <2>6, Zenon
<1>9. CASE FillIndex(h)
    <2>1. CASE h \in detached
        BY <1>9, <2>1, FinishIInv, Zenon DEF FillIndex
    <2>2. CASE h \notin detached
        <3>1. PICK f \in Written(h, idx[IndexPath(h)]) : idx' = [idx EXCEPT ![IndexPath(h)] = f]
            BY <1>9, <2>2, Zenon DEF FillIndex
        <3>2. \A p \in Paths : idx'[p] = idx[p] \/ idx'[p] = f
            BY <3>1, Zenon DEF TypeOK
        <3>3. UNCHANGED <<blobs, janitorVars>> /\ Finish(h)
            BY <1>9, Zenon DEF FillIndex
        <3>4. /\ f.state # "complete" => f.refs = {}
              /\ f.state = "complete" => f.refs = Held(h) /\ f.raced = (h \in raced)
            BY <3>1, WrittenFile, Zenon
        <3>5. SnapshotIsStored' /\ IndexShape'
            BY <3>2, <3>3, <3>4, Zenon DEF SnapshotIsStored, IndexShape, janitorVars
        <3>6. UploadsSafe'
            BY <3>3, FinishUploadsSafe, Zenon
        <3>7. f.state = "complete" /\ ~f.raced =>
                f.refs \subseteq blobs /\ (Collecting => f.refs \cap snapshot = {})
            BY <3>4, Zenon DEF UploadsSafe
        <3>8. IndexesSafe'
            BY <3>2, <3>3, <3>7, ZenonT(40) DEF IndexesSafe, Collecting, janitorVars
        <3>9. QED BY <3>5, <3>6, <3>8, Zenon
    <2>3. QED BY <2>1, <2>2, Zenon
<1>10. QED
    BY <1>2, <1>3, <1>4, <1>5, <1>6, <1>7, <1>8, <1>9, Zenon DEF HandlerStep

\* Every step of the janitor keeps it.
LEMMA JanitorIInv ==
    ASSUME IInv, TypeOK', JanitorCycle \/ JanitorError
    PROVE  IInv'
<1> USE DEF IInv, SnapshotIsStored, IndexShape, UploadsSafe, IndexesSafe, Collecting,
            handlerVars
<1>1. CASE StartCycle
    BY <1>1, SameHeld, Zenon DEF StartCycle
<1>2. CASE SnapshotBlobs
    BY <1>2, SameHeld, Zenon DEF SnapshotBlobs
<1>3. CASE StartListing
    <2>1. \A g \in Handlers : Held(g)' = Held(g)
        BY <1>3, SameHeld, Zenon DEF StartListing
    <2>2. UploadsSafe'
        BY <1>3, <2>1 DEF StartListing
    <2>3. \A p \in Paths : idx[p].state = "complete" => p \in files'
        BY <1>3, Zenon DEF StartListing, Present
    <2>4. IndexesSafe'
        BY <1>3, <2>3, Zenon DEF StartListing
    <2>5. QED BY <1>3, <2>2, <2>4, Zenon DEF StartListing
<1>4. CASE ListIndexes
    BY <1>4, SameHeld DEF ListIndexes
<1>5. ASSUME NEW p \in Paths, StatIndex(p) PROVE IInv'
    <2>1. \A g \in Handlers : Held(g)' = Held(g)
        BY <1>5, SameHeld, Zenon DEF StatIndex
    <2>2. cur = None /\ jpc = "prune" /\ cur' = p /\ files' = files \ {p}
        BY <1>5, Zenon DEF StatIndex
    <2>3. jpc' \in {"remove", "read"} /\ UNCHANGED <<blobs, idx, raced, snapshot, referenced>>
        BY <1>5, Zenon DEF StatIndex
    <2>4. \A q \in Paths : q # None
        BY Zenon DEF Paths
    <2>5. QED BY <2>1, <2>2, <2>3, <2>4, Zenon
<1>6. CASE RemoveIndex
    <2>1. \A g \in Handlers : Held(g)' = Held(g)
        BY <1>6, SameHeld, Zenon DEF RemoveIndex
    <2>2. cur \in Paths /\ idx' = [idx EXCEPT ![cur] = NoFile]
        BY <1>6, Zenon DEF RemoveIndex, TypeOK
    <2>3. idx'[cur] = NoFile /\ \A p \in Paths \ {cur} : idx'[p] = idx[p]
        BY <2>2, Zenon DEF TypeOK
    <2>4. QED BY <1>6, <2>1, <2>2, <2>3, EmptyValues DEF RemoveIndex
<1>7. CASE ReadIndex
    BY <1>7, SameHeld, Zenon DEF ReadIndex
<1>8. ASSUME NEW b \in Blobs, SweepBlob(b) PROVE IInv'
    <2>1. \A g \in Handlers : Held(g)' = Held(g)
        BY <1>8, SameHeld, Zenon DEF SweepBlob
    <2>2. jpc = "prune" /\ cur = None /\ files = {} /\ b \in snapshot /\ b \notin referenced
        BY <1>8, Zenon DEF SweepBlob
    <2>3. /\ blobs' = blobs \ {b} /\ snapshot' = snapshot \ {b}
          /\ UNCHANGED <<idx, raced, jpc, files, cur, referenced>>
        BY <1>8, Zenon DEF SweepBlob
    <2>4. UploadsSafe'
        BY <2>1, <2>2, <2>3, Zenon
    <2>5. \A p \in Paths : p # cur
        BY <2>2, Zenon DEF Paths
    <2>6. \A p \in Paths : idx[p].state = "complete" /\ ~idx[p].raced => b \notin idx[p].refs
        BY <2>2, <2>5, Zenon
    <2>7. IndexesSafe'
        BY <2>2, <2>3, <2>5, <2>6, Zenon
    <2>8. QED BY <2>2, <2>3, <2>4, <2>7, Zenon
<1>9. CASE FinishCycle
    BY <1>9, SameHeld, Zenon DEF FinishCycle, EndCycleState
<1>10. CASE JanitorError
    BY <1>10, SameHeld, Zenon DEF JanitorError, EndCycleState
<1>11. QED
    BY <1>1, <1>2, <1>3, <1>4, <1>5, <1>6, <1>7, <1>8, <1>9, <1>10, SMTT(20) DEF JanitorCycle

\* Every step keeps it.
LEMMA NextIInv ==
    ASSUME IInv, [Next]_vars
    PROVE  IInv'
<1>1. TypeOK'
    BY NextType, Zenon DEF IInv
<1>2. ASSUME NEW h \in Handlers, HandlerStep(h) PROVE IInv'
    BY <1>1, <1>2, HandlerIInv, Zenon
<1>3. CASE JanitorCycle \/ JanitorError
    BY <1>1, <1>3, JanitorIInv, Zenon
<1>4. CASE Crash
    <2>1. \A h \in Handlers : Held(h)' = {}
        BY <1>4, EmptyValues, Zenon DEF Crash, Held
    <2>2. QED
        BY <1>1, <1>4, <2>1, Zenon DEF Crash, EndCycleState, IInv, SnapshotIsStored, IndexShape,
                                UploadsSafe, IndexesSafe, Collecting
<1>5. CASE Tick \/ UNCHANGED vars
    BY <1>1, <1>5, SameHeld, Zenon
    DEF Tick, vars, handlerVars, janitorVars, IInv, SnapshotIsStored, IndexShape,
        UploadsSafe, IndexesSafe, Collecting
<1>6. QED
    BY <1>2, <1>3, <1>4, <1>5, Zenon DEF Next

\* The inductive invariant holds in every reachable state.
THEOREM Inductive == Spec => []IInv
BY InitIInv, NextIInv, PTL DEF Spec

\* However many uploads, cycles, aborts, janitor errors and crashes there are,
\* an index whose upload met no collecting janitor keeps all its blobs.
THEOREM IndexSafety == Spec => []UnracedIndexesKeepBlobs
<1>1. IInv => UnracedIndexesKeepBlobs
    BY Zenon DEF IInv, IndexesSafe, UnracedIndexesKeepBlobs
<1>2. QED BY <1>1, Inductive, PTL

\* And so does an upload under way that met none.
THEOREM UploadSafety == Spec => []UnracedUploadsKeepBlobs
<1>1. IInv => UnracedUploadsKeepBlobs
    BY Zenon DEF IInv, UploadsSafe, UnracedUploadsKeepBlobs
<1>2. QED BY <1>1, Inductive, PTL

(***************************************************************************)
(* The files under tmp/                                                    *)
(***************************************************************************)

\* How the size of a set of handlers changes when only h may enter or leave it.
LEMMA OneMoves ==
    ASSUME NEW S \in SUBSET Handlers, NEW T \in SUBSET Handlers, NEW h \in Handlers,
           \A g \in Handlers \ {h} : g \in T <=> g \in S
    PROVE  /\ Cardinality(S) \in Nat /\ Cardinality(T) \in Nat
           /\ (h \in S <=> h \in T) => Cardinality(T) = Cardinality(S)
           /\ h \notin S /\ h \in T => Cardinality(T) = Cardinality(S) + 1
           /\ h \in S /\ h \notin T => Cardinality(T) = Cardinality(S) - 1
<1>1. IsFiniteSet(S) /\ IsFiniteSet(T)
    BY FS_Subset, Zenon
<1>2. Cardinality(S) \in Nat /\ Cardinality(T) \in Nat
    BY <1>1, FS_CardinalityType, Zenon
<1>3. ASSUME h \in S <=> h \in T PROVE Cardinality(T) = Cardinality(S)
    <2>1. T = S
        BY <1>3, SMTT(20)
    <2>2. QED BY <2>1, Zenon
<1>4. ASSUME h \notin S, h \in T PROVE Cardinality(T) = Cardinality(S) + 1
    <2>1. T = S \cup {h}
        BY <1>4, Zenon
    <2>2. QED BY <1>1, <1>4, <2>1, FS_AddElement, Zenon
<1>5. ASSUME h \in S, h \notin T PROVE Cardinality(T) = Cardinality(S) - 1
    <2>1. T = S \ {h}
        BY <1>5, Zenon
    <2>2. QED BY <1>1, <1>5, <2>1, FS_RemoveElement, Zenon
<1>6. QED
    BY <1>2, <1>3, <1>4, <1>5, Zenon

\* A handler that ends is the only one to move, and is idle.
LEMMA FinishMoves ==
    ASSUME TypeOK, NEW h \in Handlers, Finish(h)
    PROVE  pc'[h] = "idle" /\ \A g \in Handlers \ {h} : pc'[g] = pc[g]
BY Zenon DEF Finish, TypeOK

\* Every step of a handler keeps the count of temporary files.
LEMMA HandlerTemp ==
    ASSUME TypeOK, TempInv, NEW h \in Handlers, HandlerStep(h)
    PROVE  TempInv'
<1> DEFINE H == Cardinality(Holding)  H2 == Cardinality(Holding')
           B == Cardinality(Busy)     B2 == Cardinality(Busy')
<1>1. ASSUME \A g \in Handlers \ {h} : pc'[g] = pc[g]
      PROVE  /\ H \in Nat /\ H2 \in Nat /\ B \in Nat /\ B2 \in Nat
             /\ pc[h] = "idle" <=> pc'[h] = "idle" => B2 = B
             /\ pc[h] = "idle" /\ pc'[h] # "idle" => B2 = B + 1
             /\ pc[h] # "idle" /\ pc'[h] = "idle" => B2 = B - 1
             /\ (HoldsTemp(h) <=> HoldsTemp(h)') => H2 = H
             /\ ~HoldsTemp(h) /\ HoldsTemp(h)' => H2 = H + 1
             /\ HoldsTemp(h) /\ ~HoldsTemp(h)' => H2 = H - 1
    <2>1. \A g \in Handlers \ {h} : g \in Holding' <=> g \in Holding
        BY <1>1, Zenon DEF Holding, HoldsTemp
    <2>2. \A g \in Handlers \ {h} : g \in Busy' <=> g \in Busy
        BY <1>1, Zenon DEF Busy
    <2>3. /\ Holding \in SUBSET Handlers /\ Holding' \in SUBSET Handlers
          /\ Busy \in SUBSET Handlers /\ Busy' \in SUBSET Handlers
        BY Zenon DEF Holding, Busy
    <2>4. /\ h \in Holding <=> HoldsTemp(h)
          /\ h \in Holding' <=> HoldsTemp(h)'
          /\ h \in Busy <=> pc[h] # "idle"
          /\ h \in Busy' <=> pc'[h] # "idle"
        BY Zenon DEF Holding, Busy
    <2>5. /\ H \in Nat /\ H2 \in Nat
          /\ (h \in Holding <=> h \in Holding') => H2 = H
          /\ h \notin Holding /\ h \in Holding' => H2 = H + 1
          /\ h \in Holding /\ h \notin Holding' => H2 = H - 1
        BY <2>1, <2>3, OneMoves, Zenon
    <2>6. /\ B \in Nat /\ B2 \in Nat
          /\ (h \in Busy <=> h \in Busy') => B2 = B
          /\ h \notin Busy /\ h \in Busy' => B2 = B + 1
          /\ h \in Busy /\ h \notin Busy' => B2 = B - 1
        BY <2>2, <2>3, OneMoves, Zenon
    <2>7. QED
        BY <2>4, <2>5, <2>6, Zenon
<1>2. tmp \in Int /\ stray \in Nat /\ uploads \in Nat
    BY Zenon DEF TypeOK
<1>3. tmp = H + stray /\ stray + B <= uploads
    BY Zenon DEF TempInv
<1>4. ASSUME tmp' = H2 + stray', stray' + B2 <= uploads' PROVE TempInv'
    BY <1>4, Zenon DEF TempInv
<1> HIDE DEF H, H2, B, B2
<1> USE DEF HoldsTemp, tmpVars, boundVars
<1>5. CASE Admit(h)
    <2>1. /\ \A g \in Handlers \ {h} : pc'[g] = pc[g]
          /\ pc[h] = "idle" /\ pc'[h] = "parts"
          /\ uploads' = uploads + 1 /\ tmp' = tmp /\ stray' = stray
        BY <1>5, Zenon DEF Admit, TypeOK
    <2>2. QED BY <1>1, <1>2, <1>3, <1>4, <2>1
<1>6. CASE NextPart(h)
    <2>1. /\ \A g \in Handlers \ {h} : pc'[g] = pc[g]
          /\ pc[h] = "parts" /\ pc'[h] = "writing"
          /\ uploads' = uploads /\ tmp' = tmp + 1 /\ stray' = stray
        BY <1>6, Zenon DEF NextPart, TypeOK
    <2>2. QED BY <1>1, <1>2, <1>3, <1>4, <2>1
<1>7. CASE RejectParts(h)
    <2>1. pc[h] = "parts" /\ uploads' = uploads /\ tmp' = tmp /\ stray' = stray
        BY <1>7, Zenon DEF RejectParts
    <2>2. pc'[h] = "idle" /\ \A g \in Handlers \ {h} : pc'[g] = pc[g]
        BY <1>7, FinishMoves, Zenon DEF RejectParts
    <2>3. QED BY <1>1, <1>2, <1>3, <1>4, <2>1, <2>2
<1>8. CASE RejectOversize(h) \/ HardLinkError(h)
    <2>1. /\ pc[h] \in {"writing", "link"}
          /\ uploads' = uploads /\ tmp' = tmp - 1 /\ stray' = stray
        BY <1>8, Zenon DEF RejectOversize, HardLinkError
    <2>2. pc'[h] = "idle" /\ \A g \in Handlers \ {h} : pc'[g] = pc[g]
        BY <1>8, FinishMoves, Zenon DEF RejectOversize, HardLinkError
    <2>3. QED BY <1>1, <1>2, <1>3, <1>4, <2>1, <2>2
<1>9. CASE RejectBody(h)
    <2>1. pc[h] = "writing" /\ uploads' = uploads /\ tmp' = tmp /\ stray' = stray + 1
        BY <1>9, Zenon DEF RejectBody
    <2>2. pc'[h] = "idle" /\ \A g \in Handlers \ {h} : pc'[g] = pc[g]
        BY <1>9, FinishMoves, Zenon DEF RejectBody
    <2>3. QED BY <1>1, <1>2, <1>3, <1>4, <2>1, <2>2
<1>10. CASE TryExists(h) \/ HardLink(h)
    <2>1. /\ pc[h] \in {"writing", "link"} /\ pc'[h] \in {"link", "unlink"}
          /\ \A g \in Handlers \ {h} : pc'[g] = pc[g]
          /\ uploads' = uploads /\ tmp' = tmp /\ stray' = stray
        BY <1>10, Zenon DEF TryExists, HardLink, Point, TypeOK
    <2>2. QED BY <1>1, <1>2, <1>3, <1>4, <2>1
<1>11. CASE RemoveTemp(h)
    <2>1. /\ \A g \in Handlers \ {h} : pc'[g] = pc[g]
          /\ pc[h] = "unlink" /\ pc'[h] = "parts"
          /\ uploads' = uploads /\ tmp' = tmp - 1 /\ stray' = stray
        BY <1>11, Zenon DEF RemoveTemp, TypeOK
    <2>2. QED BY <1>1, <1>2, <1>3, <1>4, <2>1
<1>12. CASE OpenIndex(h)
    <2>1. /\ \A g \in Handlers \ {h} : pc'[g] = pc[g]
          /\ pc[h] = "parts" /\ pc'[h] = "fill"
          /\ uploads' = uploads /\ tmp' = tmp /\ stray' = stray
        BY <1>12, Zenon DEF OpenIndex, TypeOK
    <2>2. QED BY <1>1, <1>2, <1>3, <1>4, <2>1
<1>13. CASE FillIndex(h)
    <2>1. pc[h] = "fill" /\ uploads' = uploads /\ tmp' = tmp /\ stray' = stray
        BY <1>13, Zenon DEF FillIndex
    <2>2. pc'[h] = "idle" /\ \A g \in Handlers \ {h} : pc'[g] = pc[g]
        BY <1>13, FinishMoves, Zenon DEF FillIndex
    <2>3. QED BY <1>1, <1>2, <1>3, <1>4, <2>1, <2>2
<1>14. CASE Abort(h)
    <2>1. /\ pc[h] # "idle" /\ uploads' = uploads /\ tmp' = tmp
          /\ stray' = IF HoldsTemp(h) THEN stray + 1 ELSE stray
        BY <1>14, Zenon DEF Abort
    <2>2. pc'[h] = "idle" /\ \A g \in Handlers \ {h} : pc'[g] = pc[g]
        BY <1>14, FinishMoves, Zenon DEF Abort
    <2>3. QED BY <1>1, <1>2, <1>3, <1>4, <2>1, <2>2
<1>15. QED
    BY <1>5, <1>6, <1>7, <1>8, <1>9, <1>10, <1>11, <1>12, <1>13, <1>14, Zenon DEF HandlerStep

\* Only a busy handler has a temporary file.
LEMMA HoldingIsBusy ==
    Cardinality(Holding) \in Nat /\ Cardinality(Busy) \in Nat
        /\ Cardinality(Holding) <= Cardinality(Busy)
<1>1. Holding \subseteq Busy /\ Busy \subseteq Handlers
    BY DEF Holding, Busy, HoldsTemp
<1>2. IsFiniteSet(Busy)
    BY <1>1, FS_Subset, Zenon
<1>3. QED
    BY <1>1, <1>2, FS_Subset, FS_CardinalityType, Zenon

\* For any number of handlers, parts and faults: every file under tmp/ is that of
\* a part in progress or of a request that ended in the middle of one, and a
\* request leaves one at most.
THEOREM TempSafety == Spec => []TempFilesAccountedFor
<1>1. Init => TempInv
    <2>1. Init => Holding = {} /\ Busy = {}
        BY Zenon DEF Init, Holding, Busy, HoldsTemp
    <2>2. QED
        BY <2>1, FS_EmptySet DEF Init, TempInv
<1>2. TypeOK /\ TempInv /\ [Next]_vars => TempInv'
    <2> SUFFICES ASSUME TypeOK, TempInv, [Next]_vars PROVE TempInv'
        OBVIOUS
    <2>1. ASSUME NEW h \in Handlers, HandlerStep(h) PROVE TempInv'
        BY <2>1, HandlerTemp, Zenon
    <2>2. CASE Crash
        <3>1. Holding' = {} /\ Busy' = {}
            BY <2>2, Zenon DEF Crash, Holding, Busy, HoldsTemp
        <3>2. stray' = stray + Cardinality(Holding) /\ tmp' = tmp /\ uploads' = uploads
            BY <2>2, Zenon DEF Crash
        <3>3. Cardinality({}) = 0
            BY FS_EmptySet, Zenon
        <3>4. QED
            BY <3>1, <3>2, <3>3, HoldingIsBusy DEF TempInv, TypeOK
    <2>3. ASSUME UNCHANGED <<pc, tmp, stray, uploads>> PROVE TempInv'
        BY <2>3, Zenon DEF TempInv, Holding, Busy, HoldsTemp
    <2>4. ASSUME JanitorCycle \/ JanitorError \/ Tick \/ UNCHANGED vars
          PROVE  UNCHANGED <<pc, tmp, stray, uploads>>
        BY <2>4, Zenon DEF JanitorCycle, StartCycle, SnapshotBlobs, StartListing, ListIndexes,
            StatIndex, RemoveIndex, ReadIndex, SweepBlob, FinishCycle, JanitorError, Tick,
            handlerVars, tmpVars, boundVars, vars
    <2>5. QED
        BY <2>1, <2>2, <2>3, <2>4, Zenon DEF Next
<1>3. TypeOK /\ TempInv => TempFilesAccountedFor
    BY HoldingIsBusy DEF TempInv, TempFilesAccountedFor, TypeOK
<1>4. QED
    BY <1>1, <1>2, <1>3, TypeCorrect, PTL DEF Spec

(***************************************************************************)
(* The ages of the indexes                                                 *)
(***************************************************************************)

\* The modification time of every index, and the one the janitor has read, are
\* numbers.
LEMMA AgesType ==
    ASSUME TypeOK
    PROVE  /\ now \in Nat /\ seen \in Nat /\ CrashesTtl \in Nat
           /\ \A p \in Paths : idx[p].mtime \in Nat
           /\ jpc = "remove" => cur \in Paths
BY Zenon DEF TypeOK, IndexFile

\* A step that writes no index, or writes it now, and leaves the janitor and the
\* clock alone keeps the ages right.
LEMMA WrittenAges ==
    ASSUME TypeOK, AgesOK, UNCHANGED <<janitorVars, now>>,
           \A p \in Paths : idx'[p] = idx[p] \/ idx'[p].mtime = now
    PROVE  AgesOK'
<1>1. \A p \in Paths : idx[p].mtime \in Nat /\ idx[p].mtime <= now
    BY AgesType, Zenon DEF AgesOK
<1>2. now \in Nat /\ seen \in Nat /\ CrashesTtl \in Nat
    BY AgesType, Zenon
<1>3. \A p \in Paths : idx'[p].mtime <= now'
    BY <1>1, <1>2 DEF janitorVars
<1>4. ASSUME jpc' = "remove" PROVE seen' + CrashesTtl <= now' /\ seen' <= idx'[cur'].mtime
    <2>1. /\ cur \in Paths /\ cur' = cur /\ seen' = seen /\ now' = now
          /\ seen + CrashesTtl <= now /\ seen <= idx[cur].mtime
        BY <1>4, AgesType, Zenon DEF AgesOK, janitorVars
    <2>2. idx'[cur] = idx[cur] \/ idx'[cur].mtime = now
        BY <2>1, Zenon
    <2>3. QED
        BY <1>2, <2>1, <2>2
<1>5. QED
    BY <1>3, <1>4, Zenon DEF AgesOK

\* Every step of a handler keeps the ages right: what it writes is new.
LEMMA HandlerAges ==
    ASSUME TypeOK, AgesOK, NEW h \in Handlers, HandlerStep(h)
    PROVE  AgesOK'
<1>1. UNCHANGED <<janitorVars, now>>
    BY Zenon DEF HandlerStep, Admit, NextPart, RejectParts, RejectOversize, RejectBody, TryExists,
        HardLink, HardLinkError, RemoveTemp, OpenIndex, FillIndex, Abort, boundVars
<1>2. CASE OpenIndex(h)
    <2> DEFINE f == [NoFile EXCEPT !.state = "partial", !.mtime = now]
    <2>1. f.mtime = now
        BY Zenon DEF NoFile
    <2>2. idx' = [idx EXCEPT ![IndexPath(h)] = f]
        BY <1>2, Zenon DEF OpenIndex
    <2> HIDE DEF f
    <2>3. \A p \in Paths : idx'[p] = idx[p] \/ idx'[p].mtime = now
        BY <2>1, <2>2, Zenon DEF TypeOK
    <2>4. QED BY <1>1, <2>3, WrittenAges, Zenon
<1>3. CASE FillIndex(h) /\ h \notin detached
    <2>1. PICK f \in Written(h, idx[IndexPath(h)]) : idx' = [idx EXCEPT ![IndexPath(h)] = f]
        BY <1>3, Zenon DEF FillIndex
    <2>2. f.mtime = now
        BY <2>1 DEF Written
    <2>3. \A p \in Paths : idx'[p] = idx[p] \/ idx'[p].mtime = now
        BY <2>1, <2>2, Zenon DEF TypeOK
    <2>4. QED BY <1>1, <2>3, WrittenAges, Zenon
<1>4. CASE ~OpenIndex(h) /\ ~(FillIndex(h) /\ h \notin detached)
    <2>1. idx' = idx
        BY <1>4, Zenon DEF HandlerStep, Admit, NextPart, RejectParts, RejectOversize, RejectBody,
            TryExists, HardLink, HardLinkError, RemoveTemp, FillIndex, Abort
    <2>2. QED BY <1>1, <2>1, WrittenAges, Zenon
<1>5. QED BY <1>2, <1>3, <1>4, Zenon

\* Every step of the janitor keeps them: it goes on to a removal only from an
\* index that it found old.
LEMMA JanitorAges ==
    ASSUME TypeOK, AgesOK, JanitorCycle \/ JanitorError
    PROVE  AgesOK'
<1>1. ASSUME NEW p \in Paths, StatIndex(p) PROVE AgesOK'
    <2>1. /\ cur' = p /\ seen' = idx[p].mtime /\ idx' = idx /\ now' = now
          /\ jpc' = "remove" => IsOlderThan(p)
        BY <1>1 DEF StatIndex, boundVars
    <2>2. idx[p].mtime \in Nat /\ idx[p].mtime <= now
        BY AgesType, Zenon DEF AgesOK
    <2>3. IsOlderThan(p) => idx[p].mtime + CrashesTtl <= now
        BY <2>2 DEF IsOlderThan
    <2>4. QED
        BY <2>1, <2>2, <2>3 DEF AgesOK
<1>2. CASE RemoveIndex
    <2>1. jpc' = "prune" /\ now' = now
        BY <1>2, Zenon DEF RemoveIndex, boundVars
    <2>2. \A p \in Paths : idx'[p] = idx[p] \/ idx'[p] = NoFile
        BY <1>2, Zenon DEF RemoveIndex, TypeOK
    <2>3. NoFile.mtime = 0 /\ now \in Nat
        BY Zenon DEF NoFile, TypeOK
    <2>4. QED
        BY <2>1, <2>2, <2>3 DEF AgesOK
<1>3. CASE JanitorError \/ (JanitorCycle /\ ~RemoveIndex /\ ~\E p \in Paths : StatIndex(p))
    <2>1. idx' = idx /\ now' = now /\ (jpc' # "remove" \/ UNCHANGED <<jpc, cur, seen>>)
        BY <1>3 DEF JanitorCycle, StartCycle, SnapshotBlobs, StartListing, ListIndexes, ReadIndex,
            SweepBlob, FinishCycle, JanitorError, EndCycleState, boundVars
    <2>2. QED BY <2>1, Zenon DEF AgesOK
<1>4. QED BY <1>1, <1>2, <1>3, Zenon

\* Every step keeps the ages right.
LEMMA NextAges ==
    ASSUME TypeOK, AgesOK, [Next]_vars
    PROVE  AgesOK'
<1>1. ASSUME NEW h \in Handlers, HandlerStep(h) PROVE AgesOK'
    BY <1>1, HandlerAges, Zenon
<1>2. CASE JanitorCycle \/ JanitorError
    BY <1>2, JanitorAges, Zenon
<1>3. CASE Crash
    <2>1. idx' = idx /\ now' = now /\ jpc' = "idle"
        BY <1>3, Zenon DEF Crash, EndCycleState
    <2>2. QED BY <2>1 DEF AgesOK
<1>4. CASE Tick
    <2>1. idx' = idx /\ now' = now + 1 /\ UNCHANGED <<jpc, cur, seen>>
        BY <1>4, Zenon DEF Tick, janitorVars
    <2>2. QED BY <2>1, AgesType DEF AgesOK
<1>5. CASE UNCHANGED vars
    BY <1>5, Zenon DEF vars, janitorVars, boundVars, AgesOK
<1>6. QED
    BY <1>1, <1>2, <1>3, <1>4, <1>5, Zenon DEF Next

\* A step of a handler removes no index.
LEMMA HandlerKeepsIndexes ==
    ASSUME TypeOK, NEW h \in Handlers, HandlerStep(h), NEW p \in Paths, idx[p].state # "absent"
    PROVE  idx'[p].state # "absent"
<1>1. CASE OpenIndex(h)
    <2> DEFINE f == [NoFile EXCEPT !.state = "partial", !.mtime = now]
    <2>1. f.state = "partial"
        BY Zenon DEF NoFile
    <2>2. idx' = [idx EXCEPT ![IndexPath(h)] = f]
        BY <1>1, Zenon DEF OpenIndex
    <2> HIDE DEF f
    <2>3. idx'[p] = idx[p] \/ idx'[p] = f
        BY <2>2, Zenon DEF TypeOK
    <2>4. QED BY <2>1, <2>3
<1>2. CASE FillIndex(h) /\ h \notin detached
    <2>1. PICK f \in Written(h, idx[IndexPath(h)]) : idx' = [idx EXCEPT ![IndexPath(h)] = f]
        BY <1>2, Zenon DEF FillIndex
    <2>2. f.state \in {"complete", "garbled"}
        BY <2>1 DEF Written
    <2>3. idx'[p] = idx[p] \/ idx'[p] = f
        BY <2>1, Zenon DEF TypeOK
    <2>4. QED BY <2>2, <2>3
<1>3. CASE ~OpenIndex(h) /\ ~(FillIndex(h) /\ h \notin detached)
    BY <1>3, Zenon DEF HandlerStep, Admit, NextPart, RejectParts, RejectOversize, RejectBody,
        TryExists, HardLink, HardLinkError, RemoveTemp, FillIndex, Abort
<1>4. QED BY <1>1, <1>2, <1>3, Zenon

\* For any retention time, zero included, and any number of uploads under way:
\* the index the janitor removes is expired when it is removed, or has been
\* written again since its age was read.
THEOREM IndexRemovalSafety == Spec => OnlyExpiredIndexesRemoved
<1>1. Init => AgesOK
    <2>1. Init => jpc = "idle" /\ now = 0 /\ \A p \in Paths : idx[p].mtime = 0
        BY SMTT(20) DEF Init, NoFile
    <2>2. QED BY <2>1 DEF AgesOK
<1>2. TypeOK /\ AgesOK /\ [Next]_vars =>
        [\A p \in Paths : idx[p].state # "absent" /\ idx'[p].state = "absent" =>
            Expired(p) \/ idx[p].mtime > seen]_vars
    <2> SUFFICES ASSUME TypeOK, AgesOK, Next, NEW p \in Paths,
                        idx[p].state # "absent", idx'[p].state = "absent"
                 PROVE  Expired(p) \/ idx[p].mtime > seen
        BY Zenon
    <2>1. ~\E h \in Handlers : HandlerStep(h)
        BY HandlerKeepsIndexes, Zenon
    <2>2. idx' # idx
        OBVIOUS
    <2>3. RemoveIndex
        BY <2>1, <2>2, Zenon DEF Next, JanitorCycle, StartCycle, SnapshotBlobs, StartListing,
            ListIndexes, StatIndex, ReadIndex, SweepBlob, FinishCycle, JanitorError, Crash, Tick
    <2>4. jpc = "remove" /\ p = cur
        BY <2>3, Zenon DEF RemoveIndex, TypeOK
    <2>5. seen + CrashesTtl <= now /\ seen <= idx[p].mtime
        BY <2>4, Zenon DEF AgesOK
    <2>6. QED
        BY <2>5, AgesType DEF Expired
<1>3. QED
    BY <1>1, <1>2, NextAges, TypeCorrect, PTL DEF Spec, OnlyExpiredIndexesRemoved

(***************************************************************************)
(* finalize_blob implements the atomic put of ContentStore                 *)
(***************************************************************************)

\* Settling on a blob, with a flag that tells whether it was stored, is a put.
LEMMA PointIsPut ==
    ASSUME TypeOK, NEW h \in Handlers, NEW b \in Blobs, NEW d \in BOOLEAN,
           Point(h, b, d), d = (b \in blobs), blobs' = blobs \cup {b}
    PROVE  Store!Put(h, b)
<1> DEFINE P == [g \in Handlers |-> req[g].ptrs]
<1>1. req'[h].ptrs = req[h].ptrs \cup {[sha |-> b, dedup |-> d]}
    BY DEF Point, TypeOK, Request
<1>2. \A g \in Handlers \ {h} : req'[g].ptrs = req[g].ptrs
    BY Zenon DEF Point, TypeOK
<1>3. [g \in Handlers |-> req'[g].ptrs] =
        [P EXCEPT ![h] = P[h] \cup {[sha |-> b, dedup |-> b \in blobs]}]
    BY <1>1, <1>2, Zenon
<1>4. QED
    BY <1>3, Zenon DEF Store!Put

\* A handler that ends releases its pointers.
LEMMA FinishIsRelease ==
    ASSUME TypeOK, NEW h \in Handlers, Finish(h), UNCHANGED blobs
    PROVE  Store!StoreNext
<1>1. \A g \in Handlers : req'[g].ptrs = IF g \in {h} THEN {} ELSE req[g].ptrs
    BY EmptyValues, Zenon DEF TypeOK, Finish
<1>2. Store!Release({h})
    BY <1>1, Zenon DEF Store!Release
<1>3. QED
    BY <1>2, Zenon DEF Store!StoreNext

\* Steps that give out no pointer and touch no blob are invisible.
LEMMA SamePointersStutter ==
    ASSUME \A g \in Handlers : req'[g].ptrs = req[g].ptrs, UNCHANGED blobs
    PROVE  UNCHANGED Store!storeVars
BY Zenon DEF Store!storeVars

\* Every step of a handler is a step of the abstract store or invisible to it.
LEMMA HandlerStoreStep ==
    ASSUME TypeOK, NEW h \in Handlers, HandlerStep(h)
    PROVE  [Store!StoreNext]_(Store!storeVars)
<1>1. CASE \/ RejectParts(h) \/ RejectOversize(h) \/ RejectBody(h) \/ HardLinkError(h)
           \/ FillIndex(h) \/ Abort(h)
    BY <1>1, FinishIsRelease, Zenon DEF RejectParts, RejectOversize, RejectBody, HardLinkError,
        FillIndex, Abort
<1>2. CASE Admit(h)
    <2>1. \A g \in Handlers : req'[g].ptrs = req[g].ptrs
        BY <1>2 DEF Admit, TypeOK, Request
    <2>2. QED BY <1>2, <2>1, SamePointersStutter, Zenon DEF Admit
<1>3. CASE NextPart(h)
    <2>1. \A g \in Handlers : req'[g].ptrs = req[g].ptrs
        BY <1>3 DEF NextPart, TypeOK, Request
    <2>2. QED BY <1>3, <2>1, SamePointersStutter, Zenon DEF NextPart
<1>4. CASE RemoveTemp(h)
    <2>1. \A g \in Handlers : req'[g].ptrs = req[g].ptrs
        BY <1>4 DEF RemoveTemp, TypeOK, Request
    <2>2. QED BY <1>4, <2>1, SamePointersStutter, Zenon DEF RemoveTemp
<1>5. CASE OpenIndex(h)
    BY <1>5, SamePointersStutter, Zenon DEF OpenIndex
<1>6. CASE TryExists(h)
    <2>1. PICK b \in Blobs : b = req[h].part
        BY <1>6, Zenon DEF TryExists, TypeOK, Request
    <2>2. CASE b \in blobs
        <3>1. Point(h, b, TRUE) /\ blobs' = blobs \cup {b}
            BY <1>6, <2>1, <2>2, Zenon DEF TryExists
        <3>2. Store!Put(h, b)
            BY <2>2, <3>1, PointIsPut, Zenon
        <3>3. QED BY <3>2, Zenon DEF Store!StoreNext
    <2>3. CASE b \notin blobs
        BY <1>6, <2>1, <2>3, SamePointersStutter, Zenon DEF TryExists
    <2>4. QED BY <2>2, <2>3, Zenon
<1>7. CASE HardLink(h)
    <2>1. PICK b \in Blobs : b = req[h].part
        BY <1>7, Zenon DEF HardLink, TypeOK, Request
    <2>2. blobs' = blobs \cup {b}
        BY <1>7, <2>1, Zenon DEF HardLink
    <2>3. CASE b \in blobs
        <3>1. Point(h, b, TRUE)
            BY <1>7, <2>1, <2>3, Zenon DEF HardLink
        <3>2. Store!Put(h, b)
            BY <2>2, <2>3, <3>1, PointIsPut, Zenon
        <3>3. QED BY <3>2, Zenon DEF Store!StoreNext
    <2>4. CASE b \notin blobs
        <3>1. Point(h, b, FALSE)
            BY <1>7, <2>1, <2>4, Zenon DEF HardLink
        <3>2. Store!Put(h, b)
            <4>1. FALSE = (b \in blobs) /\ FALSE \in BOOLEAN
                BY <2>4
            <4>2. QED BY <2>2, <3>1, <4>1, PointIsPut, Zenon
        <3>3. QED BY <3>2, Zenon DEF Store!StoreNext
    <2>5. QED BY <2>3, <2>4, Zenon
<1>8. QED
    BY <1>1, <1>2, <1>3, <1>4, <1>5, <1>6, <1>7, Zenon DEF HandlerStep

\* CrashStore implements ContentStore: under any interleaving, storing a part
\* is atomic and the dedup flag is truthful.
THEOREM AtomicPut == Spec => PutIsAtomic
<1>1. Init => Store!StoreInit
    BY EmptyValues, Zenon DEF Init, Store!StoreInit
<1>2. IInv /\ [Next]_vars => [Store!StoreNext]_(Store!storeVars)
    <2> SUFFICES ASSUME IInv, [Next]_vars PROVE [Store!StoreNext]_(Store!storeVars)
        OBVIOUS
    <2>1. ASSUME NEW h \in Handlers, HandlerStep(h)
          PROVE  [Store!StoreNext]_(Store!storeVars)
        BY <2>1, HandlerStoreStep, Zenon DEF IInv
    <2>2. ASSUME NEW b \in Blobs, SweepBlob(b) PROVE Store!StoreNext
        <3>1. Store!Discard(b)
            BY <2>2, Zenon DEF SweepBlob, handlerVars, IInv, SnapshotIsStored, Store!Discard
        <3>2. QED BY <3>1, Zenon DEF Store!StoreNext
    <2>3. CASE Crash
        <3>1. \A g \in Handlers : req'[g].ptrs = {}
            BY <2>3, EmptyValues, Zenon DEF Crash
        <3>2. Store!Release(Handlers)
            BY <2>3, <3>1, Zenon DEF Crash, Store!Release
        <3>3. QED BY <3>2, Zenon DEF Store!StoreNext
    <2>4. ASSUME UNCHANGED <<blobs, req>> PROVE UNCHANGED Store!storeVars
        BY <2>4, SamePointersStutter, Zenon
    <2>5. ASSUME NEW p \in Paths, StatIndex(p) PROVE UNCHANGED <<blobs, req>>
        BY <2>5, Zenon DEF StatIndex, handlerVars
    <2>6. CASE \/ StartCycle \/ SnapshotBlobs \/ StartListing \/ ListIndexes
               \/ RemoveIndex \/ ReadIndex \/ FinishCycle \/ JanitorError
               \/ Tick \/ UNCHANGED vars
        BY <2>4, <2>6, Zenon
        DEF StartCycle, SnapshotBlobs, StartListing, ListIndexes, RemoveIndex, ReadIndex,
            FinishCycle, JanitorError, Tick, vars, handlerVars
    <2>7. QED
        BY <2>1, <2>2, <2>3, <2>4, <2>5, <2>6, Zenon DEF Next, JanitorCycle
<1>3. QED
    BY <1>1, <1>2, Inductive, PTL DEF Spec, PutIsAtomic, Store!StoreSpec
=============================================================================
