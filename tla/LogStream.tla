----------------------------- MODULE LogStream ------------------------------
(***************************************************************************)
(* What the server promises about the log records of a source: they are    *)
(* dealt with one at a time, in the order they were accepted in, and no    *)
(* more than Window of them are waiting.  Dealing with a record is one     *)
(* atomic step: its line is added to the file of a day, behind the line of *)
(* every earlier record that still has one, or the record is dropped for   *)
(* good.  Apart from that a file only ever changes by being removed whole; *)
(* a restart drops what is waiting.                                        *)
(***************************************************************************)
EXTENDS Naturals, Sequences

CONSTANTS Sources, Days, Window

VARIABLES
    accepted,   \* the number of records accepted, by source
    settled,    \* the number of records dealt with, by source
    lines       \* the records with a line in a file, by source and day

streamVars == <<accepted, settled, lines>>

StreamInit ==
    /\ accepted = [s \in Sources |-> 0]
    /\ settled = [s \in Sources |-> 0]
    /\ lines = [f \in Sources \X Days |-> <<>>]

Accept(s) ==
    /\ accepted[s] < settled[s] + Window
    /\ accepted' = [accepted EXCEPT ![s] = accepted[s] + 1]
    /\ UNCHANGED <<settled, lines>>

\* The record in turn is dealt with.
Settle(s) ==
    /\ settled[s] < accepted[s]
    /\ settled' = [settled EXCEPT ![s] = settled[s] + 1]
    /\ UNCHANGED accepted

AddLine(s, d) ==
    /\ Settle(s)
    /\ \A e \in Days : e > d => lines[<<s, e>>] = <<>>
    /\ lines' = [lines EXCEPT ![<<s, d>>] = Append(lines[<<s, d>>], settled[s] + 1)]

Drop(s) ==
    /\ Settle(s)
    /\ UNCHANGED lines

Expire(f) ==
    /\ lines' = [lines EXCEPT ![f] = <<>>]
    /\ UNCHANGED <<accepted, settled>>

Restart ==
    /\ settled' = accepted
    /\ UNCHANGED <<accepted, lines>>

StreamNext ==
    \/ \E s \in Sources : Accept(s) \/ Drop(s) \/ \E d \in Days : AddLine(s, d)
    \/ \E f \in Sources \X Days : Expire(f)
    \/ Restart

StreamSpec == StreamInit /\ [][StreamNext]_streamVars
=============================================================================
