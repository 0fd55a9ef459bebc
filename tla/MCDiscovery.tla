----------------------------- MODULE MCDiscovery -----------------------------
(***************************************************************************)
(* Small instances for TLC of what is read from the chain about a contract *)
(* by search and scan: its logs, its deployment block, its implementations.*)
(* They share no state; a behaviour runs one of them, chosen at its start. *)
(***************************************************************************)
EXTENDS AdaptiveScanner, DeploymentProbe, ProxyHistory

VARIABLE part

\* What the parts that do not run read is fixed.
MCInit ==
  /\ part \in {"scan", "probe", "history"}
  /\ part # "scan" =>
       /\ flaky = FALSE
       /\ upto = [b \in Blocks |-> 0]
       /\ chunk = 1
  /\ part # "probe" => code = [b \in Heights |-> FALSE]
  /\ part # "history" =>
       /\ slot = [b \in Baseline..ToBlock |-> None]
       /\ events = [b \in FromBlock..ToBlock |-> <<>>]
       /\ prefixed = FALSE
  /\ Init
  /\ ProbeInit
  /\ HistoryInit

MCNext ==
  /\ UNCHANGED part
  /\ \/ /\ part = "scan"
        /\ Next
        /\ UNCHANGED <<probeVars, historyVars>>
     \/ /\ part = "probe"
        /\ ProbeNext
        /\ UNCHANGED <<vars, historyVars>>
     \/ /\ part = "history"
        /\ HistoryNext
        /\ UNCHANGED <<vars, probeVars>>

MCSpec ==
  /\ MCInit
  /\ [][MCNext]_<<vars, probeVars, historyVars, part>>
  /\ part = "scan" => Fairness

\* Terminates and CompletesIfServed of AdaptiveScanner, in the behaviours that
\* run a scan: it returns or raises, and returns if it can be served.
ScanTerminates == part = "scan" => Terminates
ServedScanCompletes == part = "scan" => CompletesIfServed
=============================================================================
