---------------------------- MODULE ContentStore ----------------------------
(***************************************************************************)
(* What the server promises an upload about content-addressed storage:     *)
(* putting a blob is one atomic step, and the dedup flag of the pointer it *)
(* returns says whether the blob was stored at that moment.  Of any number *)
(* of uploads that put the same content at the same time exactly one is    *)
(* told that the content is new.                                           *)
(***************************************************************************)
CONSTANTS Handlers, Blobs

VARIABLES
    stored,   \* the blobs in the store
    ptrs      \* the pointers each upload has been given

storeVars == <<stored, ptrs>>

StoreInit ==
    /\ stored = {}
    /\ ptrs = [h \in Handlers |-> {}]

Put(h, b) ==
    /\ ptrs' = [ptrs EXCEPT ![h] = ptrs[h] \cup {[sha |-> b, dedup |-> b \in stored]}]
    /\ stored' = stored \cup {b}

\* Some uploads end, answered or not; their pointers are theirs no longer.
Release(H) ==
    /\ ptrs' = [h \in Handlers |-> IF h \in H THEN {} ELSE ptrs[h]]
    /\ UNCHANGED stored

Discard(b) ==
    /\ b \in stored
    /\ stored' = stored \ {b}
    /\ UNCHANGED ptrs

StoreNext ==
    \/ \E h \in Handlers, b \in Blobs : Put(h, b)
    \/ \E H \in SUBSET Handlers : Release(H)
    \/ \E b \in Blobs : Discard(b)

StoreSpec == StoreInit /\ [][StoreNext]_storeVars
=============================================================================
