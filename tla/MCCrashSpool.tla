---------------------------- MODULE MCCrashSpool ----------------------------
(* Small instances of CrashSpool for TLC.  One run covers two scenarios:    *)
(* two shippers, failures and a day that does not end; and one run,        *)
(* days that pass and entries that are kept for different times.           *)
EXTENDS CrashSpool

CONSTANTS Second, Scenarios   \* the second shipper; the scenarios to run

VARIABLE scenario

MCInit == Init /\ scenario \in Scenarios

MCNext ==
    /\ Next
    /\ UNCHANGED scenario
    /\ scenario = "shippers" => now' = 0 /\ \A e \in Entries : entry'[e].keep = 0
    /\ scenario = "days" => faults' = 0 /\ runs' <= 1 /\ ship'[Second] = IdleShip

MCSpec ==
    /\ MCInit /\ [][MCNext]_<<vars, scenario>>
    /\ \A s \in Shippers : WF_vars(Run(s))
=============================================================================
