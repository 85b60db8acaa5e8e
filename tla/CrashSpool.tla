----------------------------- MODULE CrashSpool -----------------------------
(***************************************************************************)
(* The client's crash spool: the panic and minidump hooks that write       *)
(* entries under pending/ (panic_hook.rs) and the shippers that upload     *)
(* them, move them to sent/ and clean sent/ (shipper.rs), in processes     *)
(* that share a spool directory and run at any time.                       *)
(*                                                                         *)
(* An entry is a number; the order of numbers is the sort order of the     *)
(* directory names, which are random UUIDs.  Its files are "meta", "dump"  *)
(* and "cfg" (sdk-config.json), each absent, empty (created by fs::write)  *)
(* or full; the context files are copied before "meta" and go with it.     *)
(***************************************************************************)
EXTENDS Integers, FiniteSetsExt

CONSTANTS
    Shippers,
    None,
    MaxEntries,         \* entries are 1 .. MaxEntries
    Retentions,         \* values of sent_retention_days, in days
    DefaultRetention,   \* DEFAULT_SENT_RETENTION_DAYS
    MaxNow, MaxRuns, MaxFaults   \* bounds

ASSUME CrashSpoolAssumption ==
    /\ None \notin Shippers /\ None \notin Nat
    /\ Retentions \subseteq Nat
    /\ DefaultRetention \in Nat /\ MaxNow \in Nat /\ MaxEntries \in Nat
    /\ MaxRuns \in Nat /\ MaxFaults \in Nat

VARIABLES
    entry,      \* the spool's entries
    hook,       \* how many steps of writing an entry its hook has done, or Done
    ship,       \* shippers
    lock,       \* who holds SpoolLock
    now,        \* days
    runs, faults,
    accepted,   \* history: how often the server accepted an entry, up to 2
    uncertain,  \* history: entries accepted by an upload that did not end well
    partial     \* history: <<entry, mode>> uploaded before it was complete

vars == <<entry, hook, ship, lock, now, runs, faults, accepted, uncertain, partial>>

Entries == 1 .. MaxEntries
Files == {"meta", "dump", "cfg"}
Done == 7

\* where: none, pending, sent or removed.  born is the directory's mtime, which
\* the rename to sent/ leaves as it is.
NoEntry == [where |-> "none", file |-> [f \in Files |-> "absent"], kind |-> "panic",
            keep |-> 0, born |-> 0]

IdleShip == [pc |-> "idle", mode |-> "none", todo |-> {}, keep |-> None, mine |-> {},
             short |-> FALSE]

Init ==
    /\ entry = [e \in Entries |-> NoEntry]
    /\ hook = [e \in Entries |-> Done]
    /\ ship = [s \in Shippers |-> IdleShip]
    /\ lock = None
    /\ now = 0 /\ runs = 0 /\ faults = 0
    /\ accepted = [e \in Entries |-> 0]
    /\ uncertain = {} /\ partial = {}

-----------------------------------------------------------------------------
(* write_pending_crash ("panic") and write_pending_minidump ("minidump")   *)

\* Defect: the upload configuration is written before the rest.
FileOrder_ConfigFirst == <<"cfg", "meta", "dump">>

\* The order files are written in; each takes two steps, create and fill.
FileOrder == <<"meta", "dump", "cfg">>

\* A hook runs: the entry's directory is made.  The context files are copied
\* into it before any file of FileOrder.
Capture(e) ==
    /\ entry[e].where = "none"
    /\ \E kind \in {"panic", "minidump"}, keep \in Retentions :
        entry' = [entry EXCEPT ![e] = [NoEntry EXCEPT !.where = "pending", !.kind = kind,
                                                      !.keep = keep, !.born = now]]
    /\ hook' = [hook EXCEPT ![e] = 0]
    /\ UNCHANGED <<ship, lock, now, runs, faults, accepted, uncertain, partial>>

\* fs::write creates its file by path, which fails once the entry was moved,
\* and writes to it by handle.
WriteStep(e) ==
    LET f == FileOrder[hook[e] \div 2 + 1] IN
    /\ hook[e] < 6
    /\ \/ /\ hook[e] % 2 = 0 /\ entry[e].where = "pending"
          /\ entry' = [entry EXCEPT ![e].file[f] = "empty"]
          /\ hook' = [hook EXCEPT ![e] = @ + 1]
       \/ /\ hook[e] % 2 = 0 /\ entry[e].where # "pending"
          /\ hook' = [hook EXCEPT ![e] = Done]
          /\ UNCHANGED entry
       \/ /\ hook[e] % 2 = 1
          /\ entry' = [entry EXCEPT ![e].file[f] = "full"]
          /\ hook' = [hook EXCEPT ![e] = @ + 1]
    /\ UNCHANGED <<ship, lock, now, runs, faults, accepted, uncertain, partial>>

\* A context file cannot be read, a write fails, or the process dies first.
HookFails(e) ==
    /\ hook[e] < 6 /\ faults < MaxFaults
    /\ faults' = faults + 1
    /\ hook' = [hook EXCEPT ![e] = Done]
    /\ UNCHANGED <<entry, ship, lock, now, runs, accepted, uncertain, partial>>

-----------------------------------------------------------------------------
(* ship_pending_with_client (mode "pending", an explicit endpoint) and     *)
(* ship_stored_with_client (mode "stored")                                 *)

StartRun(s) ==
    /\ ship[s].pc = "idle" /\ runs < MaxRuns
    /\ runs' = runs + 1
    /\ \E mode \in {"pending", "stored"} :
        ship' = [ship EXCEPT ![s] = [IdleShip EXCEPT !.pc = "lock", !.mode = mode]]
    /\ UNCHANGED <<entry, hook, lock, now, faults, accepted, uncertain, partial>>

\* Defect: the scan goes ahead without the lock.
Acquire_NoLock(s) ==
    /\ ship[s].pc = "lock"
    /\ lock' = s
    /\ ship' = [ship EXCEPT ![s].pc = IF ship[s].mode = "pending" THEN "clean" ELSE "list"]
    /\ UNCHANGED <<entry, hook, now, runs, faults, accepted, uncertain, partial>>

\* SpoolLock::acquire, held for the whole run.
Acquire(s) ==
    /\ ship[s].pc = "lock" /\ lock = None
    /\ lock' = s
    /\ ship' = [ship EXCEPT ![s].pc = IF ship[s].mode = "pending" THEN "clean" ELSE "list"]
    /\ UNCHANGED <<entry, hook, now, runs, faults, accepted, uncertain, partial>>

\* cleanup_sent: what was modified more than so many days ago.
Cleaned(days) ==
    [e \in Entries |-> IF entry[e].where = "sent" /\ entry[e].born < now - days
                         THEN [entry[e] EXCEPT !.where = "removed"] ELSE entry[e]]

\* Defect: the last entry's retention counts, not the longest.
RetentionOrDefault_Last(s) ==
    IF ship[s].mine = {} THEN DefaultRetention
    ELSE entry[CHOOSE e \in ship[s].mine : \A x \in ship[s].mine : x <= e].keep

\* record_retention over the run's entries, then retention_or_default.
RetentionOrDefault(s) ==
    IF ship[s].keep = None THEN DefaultRetention ELSE ship[s].keep

CleanFirst(s) ==
    /\ ship[s].pc = "clean"
    /\ entry' = Cleaned(DefaultRetention)
    /\ ship' = [ship EXCEPT ![s].pc = "list"]
    /\ UNCHANGED <<hook, lock, now, runs, faults, accepted, uncertain, partial>>

\* pending_entries: a snapshot of pending/.
ListPending(s) ==
    /\ ship[s].pc = "list"
    /\ ship' = [ship EXCEPT ![s].pc = "next",
                            ![s].todo = {e \in Entries : entry[e].where = "pending"}]
    /\ UNCHANGED <<entry, hook, lock, now, runs, faults, accepted, uncertain, partial>>

\* The entries are taken in the order of their names.
Now(s) == Min(ship[s].todo)

\* resolve_stored_endpoint, in mode "stored": sdk-config.json is there and
\* parses.
Resolve(s) ==
    /\ ship[s].pc = "next" /\ ship[s].todo # {}
    /\ ship[s].mode = "stored" => entry[Now(s)].file["cfg"] = "full"
    /\ ship' = [ship EXCEPT ![s].pc = "meta"]
    /\ UNCHANGED <<entry, hook, lock, now, runs, faults, accepted, uncertain, partial>>

\* read_envelope reads metadata.json, dump.bin and the manifest's attachments
\* one after the other; the manifest of a panic entry names sdk-config.json.
ReadMeta(s) ==
    /\ ship[s].pc = "meta" /\ entry[Now(s)].file["meta"] = "full"
    /\ ship' = [ship EXCEPT ![s].pc = "dump"]
    /\ UNCHANGED <<entry, hook, lock, now, runs, faults, accepted, uncertain, partial>>

ReadDump(s) ==
    /\ ship[s].pc = "dump" /\ entry[Now(s)].file["dump"] # "absent"
    /\ ship' = [ship EXCEPT ![s].pc = "attach",
                            ![s].short = entry[Now(s)].file["dump"] = "empty"]
    /\ UNCHANGED <<entry, hook, lock, now, runs, faults, accepted, uncertain, partial>>

ReadAttachments(s) ==
    LET e == Now(s) IN
    /\ ship[s].pc = "attach"
    /\ entry[e].kind = "panic" => entry[e].file["cfg"] # "absent"
    /\ ship' = [ship EXCEPT ![s].pc = "post",
                            ![s].short = @ \/ (entry[e].kind = "panic" /\ entry[e].file["cfg"] = "empty")]
    /\ UNCHANGED <<entry, hook, lock, now, runs, faults, accepted, uncertain, partial>>

\* The server stores what post_envelope sends.
Accept(s) ==
    LET e == Now(s) IN
    /\ accepted' = [accepted EXCEPT ![e] = IF @ < 2 THEN @ + 1 ELSE @]
    /\ partial' = IF ship[s].short THEN partial \cup {<<e, ship[s].mode>>} ELSE partial

PostOk(s) ==
    /\ ship[s].pc = "post"
    /\ Accept(s)
    /\ ship' = [ship EXCEPT ![s].pc = "move"]
    /\ UNCHANGED <<entry, hook, lock, now, runs, faults, uncertain>>

\* Defect: the answer's status is not looked at.
PostFails_Moves(s) ==
    /\ ship[s].pc = "post"
    /\ ship' = [ship EXCEPT ![s].pc = "move"]
    /\ UNCHANGED <<lock, accepted, partial, uncertain>>
    /\ UNCHANGED <<entry, hook, now, runs, faults>>

\* A failed upload ends the run; the server may have accepted it all the same
\* (a timeout, an answer that is lost).
PostFails(s) ==
    /\ ship[s].pc = "post"
    /\ \/ Accept(s) /\ uncertain' = uncertain \cup {Now(s)}
       \/ UNCHANGED <<accepted, partial, uncertain>>
    /\ ship' = [ship EXCEPT ![s] = IdleShip]
    /\ lock' = None
    /\ UNCHANGED <<entry, hook, now, runs, faults>>

\* ship_one's rename, then record_retention.
MoveToSent(s) ==
    LET e == Now(s) IN
    /\ ship[s].pc = "move"
    /\ entry' = [entry EXCEPT ![e].where = "sent"]
    /\ ship' = [ship EXCEPT ![s].pc = "next", ![s].todo = @ \ {e}, ![s].mine = @ \cup {e},
                            ![s].short = FALSE,
                            ![s].keep = IF @ = None \/ entry[e].keep > @ THEN entry[e].keep ELSE @]
    /\ UNCHANGED <<hook, lock, now, runs, faults, accepted, uncertain, partial>>

\* The list is done; a "stored" run now cleans sent/.
EndRun(s) ==
    /\ ship[s].pc = "next" /\ ship[s].todo = {}
    /\ \/ ship[s].mode = "stored" /\ entry' = Cleaned(RetentionOrDefault(s))
       \/ ship[s].mode = "pending" /\ UNCHANGED entry
    /\ ship' = [ship EXCEPT ![s] = IdleShip]
    /\ lock' = None
    /\ UNCHANGED <<hook, now, runs, faults, accepted, uncertain, partial>>

\* What makes a step of reading an entry fail: a file that is not there, or
\* that does not parse.
Unreadable(s) ==
    LET file == entry[Now(s)].file IN
    \/ ship[s].pc = "next" /\ ship[s].todo # {} /\ ship[s].mode = "stored" /\ file["cfg"] # "full"
    \/ ship[s].pc = "meta" /\ file["meta"] # "full"
    \/ ship[s].pc = "dump" /\ file["dump"] = "absent"
    \/ ship[s].pc = "attach" /\ entry[Now(s)].kind = "panic" /\ file["cfg"] = "absent"

\* Defect: the lock outlives a run that ends with an error.
Abort_KeepsLock(s) ==
    /\ Unreadable(s)
    /\ ship' = [ship EXCEPT ![s] = IdleShip]
    /\ UNCHANGED <<lock, entry, hook, now, runs, faults, accepted, uncertain, partial>>

\* Defect: the run waits for the entry to become readable.
Abort_Retries(s) ==
    /\ Unreadable(s)
    /\ UNCHANGED vars

\* The first error aborts the run.
Abort(s) ==
    /\ Unreadable(s)
    /\ ship' = [ship EXCEPT ![s] = IdleShip]
    /\ lock' = None
    /\ UNCHANGED <<entry, hook, now, runs, faults, accepted, uncertain, partial>>

\* Any file operation of a run fails, or its process dies.
RunFails(s) ==
    /\ ship[s].pc # "idle" /\ faults < MaxFaults
    /\ faults' = faults + 1
    /\ uncertain' = IF ship[s].pc = "move" THEN uncertain \cup {Now(s)} ELSE uncertain
    /\ ship' = [ship EXCEPT ![s] = IdleShip]
    /\ lock' = IF lock = s THEN None ELSE lock
    /\ UNCHANGED <<entry, hook, now, runs, accepted, partial>>

\* A day passes; no hook takes a day.
Tick ==
    /\ now < MaxNow
    /\ \A e \in Entries : hook[e] >= 6
    /\ now' = now + 1
    /\ UNCHANGED <<entry, hook, ship, lock, runs, faults, accepted, uncertain, partial>>

-----------------------------------------------------------------------------
Hook(e) == Capture(e) \/ WriteStep(e) \/ HookFails(e)

Run(s) ==
    \/ Acquire(s) \/ CleanFirst(s) \/ ListPending(s) \/ Resolve(s) \/ ReadMeta(s)
    \/ ReadDump(s) \/ ReadAttachments(s) \/ PostOk(s) \/ PostFails(s) \/ MoveToSent(s)
    \/ EndRun(s) \/ Abort(s)

Next ==
    \/ \E e \in Entries : Hook(e)
    \/ \E s \in Shippers : StartRun(s) \/ Run(s) \/ RunFails(s)
    \/ Tick

Spec == Init /\ [][Next]_vars

\* A run that was started goes on: its file operations return, its uploads are
\* answered or time out, and a free lock is granted.
FairSpec == Spec /\ \A s \in Shippers : WF_vars(Run(s))

-----------------------------------------------------------------------------
\* Values are in range; a lock that is held is held by a run in progress.
TypeOK ==
    /\ \A e \in Entries :
        /\ entry[e].where \in {"none", "pending", "sent", "removed"}
        /\ entry[e].file \in [Files -> {"absent", "empty", "full"}]
        /\ entry[e].keep \in Retentions \cup {0} /\ entry[e].born \in 0 .. MaxNow
    /\ hook \in [Entries -> 0 .. Done]
    /\ \A s \in Shippers :
        /\ ship[s].pc \in {"idle", "lock", "clean", "list", "next", "meta", "dump", "attach",
                           "post", "move"}
        /\ ship[s].todo \subseteq Entries
        /\ lock = s => ship[s].pc \notin {"idle", "lock"}

\* The stored-config shipper uploads complete entries only, though it takes no
\* part in any lock the hooks hold: sdk-config.json is written last.
StoredShipsComplete == \A e \in Entries : <<e, "stored">> \notin partial

\* An entry leaves pending/ only after the server accepted it.
SentWereAccepted ==
    \A e \in Entries : entry[e].where \in {"sent", "removed"} => accepted[e] > 0

\* An entry is uploaded again only if an upload of it did not end well: two
\* shippers on one spool do not both upload it.
UploadedTwiceOnlyWhenUncertain ==
    \A e \in Entries : accepted[e] = 2 => e \in uncertain

\* The cleanup at the end of a "stored" run never removes an entry of that run
\* that was captured no more than its own retention ago.
RunKeepsItsEntries ==
    [][\A s \in Shippers : \A e \in ship[s].mine :
        ship[s].mode = "stored" /\ entry[e].where = "sent" /\ entry'[e].where = "removed" =>
            now - entry[e].born > entry[e].keep]_vars

\* Every run comes to an end and gives up the lock.
RunsEnd == \A s \in Shippers : ship[s].pc # "idle" ~> ship[s].pc = "idle"

\* A report is in the spool, whole, before it is uploaded.
WholeBeforeUpload == partial = {}
=============================================================================
