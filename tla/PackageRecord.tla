--------------------------- MODULE PackageRecord ---------------------------
(***************************************************************************)
(* What a package job leaves in the database, to who exports packages and  *)
(* is charged for them.  PackageJobs implements it, however often the job  *)
(* is delivered, whatever runs beside it and wherever a run ends.          *)
(***************************************************************************)
EXTENDS Naturals

VARIABLES
  deal,         \* what the deal holds, counted up by each change
  certified,    \* the packages of the job are certified
  status,       \* the status of the job
  charged,      \* the export has been charged
  packages,     \* the deals that packages were made of
  current,      \* the package that the job names, 0: none
  certificate   \* the package that the manifest certifies, 0: none

job == <<status, charged, packages, current, certificate>>
vars == <<deal, certified, job>>

Init ==
  /\ deal = 1
  /\ certified \in BOOLEAN
  /\ status = "none" /\ charged = FALSE
  /\ packages = {} /\ current = 0 /\ certificate = 0

Change == deal' = deal + 1 /\ UNCHANGED <<certified, job>>

Request ==
  /\ status = "none"
  /\ status' = "QUEUED"
  /\ UNCHANGED <<deal, certified, charged, packages, current, certificate>>

Charge ==
  /\ status = "QUEUED" /\ ~charged
  /\ charged' = TRUE
  /\ UNCHANGED <<deal, certified, status, packages, current, certificate>>

\* A run begins to work, or gives the job up.
Mark(mark) ==
  /\ charged
  /\ status' = mark
  /\ UNCHANGED <<deal, certified, charged, packages, current, certificate>>

\* A package is made of the deal as it is, or was before.
Make(d) ==
  /\ charged
  /\ packages' = packages \cup {d}
  /\ current' = d
  /\ status' = "SUCCEEDED"
  /\ UNCHANGED <<deal, certified, charged, certificate>>

\* One package is certified, and for good.
Certify(d) ==
  /\ certified /\ certificate = 0
  /\ d \in packages
  /\ certificate' = d
  /\ UNCHANGED <<deal, certified, status, charged, packages, current>>

Next ==
  \/ Change \/ Request \/ Charge
  \/ \E mark \in {"PROCESSING", "FAILED"} : Mark(mark)
  \/ \E d \in 1..deal : Make(d) \/ Certify(d)

Spec == Init /\ [][Next]_vars
=============================================================================
