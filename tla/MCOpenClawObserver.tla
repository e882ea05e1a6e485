-------------------------- MODULE MCOpenClawObserver --------------------------
(* An instance of OpenClawObserver for TLC: a write of the dream diary, and a *)
(* patch of the diary and of a file below memory/dreaming. Either both calls  *)
(* run beside one scan, or the patch alone beside two scans that may overlap. *)
EXTENDS OpenClawObserver, TLC

CONSTANTS write, patch, diary, nested

MCEvent == write :> [tool |-> "write", id |-> "1", args |-> "entry", before |-> <<diary>>,
                     after |-> <<diary>>]
        @@ patch :> [tool |-> "patch", id |-> "2", args |-> "hunks",
                     before |-> <<diary, nested>>, after |-> <<diary, nested>>]

VARIABLE beside    \* how many scans run

all == <<vars, beside>>

Runs(s) == s <= beside

MCInit == Init /\ beside \in {1, 2}

OneScan  == beside = 1 /\ Next /\ scan'[2] = NoScan /\ UNCHANGED beside
TwoScans == beside = 2 /\ Next /\ phase'[write] = "new" /\ now' = 0 /\ UNCHANGED beside

MCNext == OneScan \/ TwoScans

MCSpec == MCInit /\ [][MCNext]_all
                 /\ \A s \in Scan : WF_all(ScanStep(s) /\ Runs(s) /\ UNCHANGED beside)
=============================================================================
