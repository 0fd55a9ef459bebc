---------------------------- MODULE ScanProgress ----------------------------
(***************************************************************************)
(* What readers of a collection's rows see of its scan: its status, how    *)
(* many blocks of its range the checkpoint has passed, and its quality     *)
(* warnings.  CollectionScan implements it.                                *)
(***************************************************************************)
EXTENDS Integers

CONSTANTS
  Spans,  \* the numbers of blocks a scan may have
  Codes   \* quality warning codes

ASSUME SpansAssumption == Spans \subseteq Nat \ {0}

VARIABLES
  status,   \* collections.scan_status
  span,     \* blocks of the scan_jobs row's range, 0 without a row
  blocks,   \* blocks of them up to the checkpoint
  warnings  \* the codes of scan_jobs.quality_warnings

scan == <<status, span, blocks, warnings>>

Ended == {"complete", "quality_warning"}
Statuses == {"pending", "scanning"} \cup Ended

ScanTypeOK ==
  /\ status \in Statuses
  /\ span \in {0} \cup Spans
  /\ blocks \in Nat /\ blocks <= span
  /\ warnings \in SUBSET Codes

ScanInit ==
  /\ status = "pending"
  /\ span = 0
  /\ blocks = 0
  /\ warnings = {}

\* A task that found the deployment block says so, and may say it late.
Begin ==
  /\ status # "scanning"
  /\ status' = "scanning"
  /\ UNCHANGED <<span, blocks, warnings>>

CreateJob ==
  /\ span = 0
  /\ span' \in Spans
  /\ UNCHANGED <<status, blocks, warnings>>

Advance ==
  /\ blocks < span
  /\ blocks' \in blocks + 1 .. span
  /\ UNCHANGED <<status, span, warnings>>

\* Overlapping tasks may replace each other's warnings.
Warn ==
  /\ span # 0
  /\ warnings' \in (SUBSET Codes) \ {{}}
  /\ warnings' # warnings
  /\ UNCHANGED <<status, span, blocks>>

\* Only a scan that has passed its whole range ends, and it ends with a quality
\* warning only if it has one.  A warning that comes late is not reflected.
End ==
  /\ span # 0 /\ blocks = span
  /\ status' \in Ended \ {status}
  /\ status' = "quality_warning" => warnings # {}
  /\ UNCHANGED <<span, blocks, warnings>>

ScanNext == Begin \/ CreateJob \/ Advance \/ Warn \/ End

ScanSpec == ScanInit /\ [][ScanNext]_scan
=============================================================================
