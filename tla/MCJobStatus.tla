----------------------------- MODULE MCJobStatus -----------------------------
(* Small instances of JobStatus.                                           *)
EXTENDS JobRefinement, TLC

CONSTANTS c1, c2, t1, t2

Tkgm == [env |-> "vsphere", kind |-> "tkgm"]
Tkgs == [env |-> "vsphere", kind |-> "tkgs"]
Vmc == [env |-> "vmc", kind |-> "tkgm"]

Inv(d, js, s) == [dep |-> d, jobs |-> js, skip |-> s]

\* One operator: two deployments in turn, a job the server records under
\* another name, one it does not record, one the environment guard refuses,
\* and a cleanup.
OneOperator ==
  { Inv(Tkgm, <<"PRECHECK", "MGMT">>, TRUE),
    Inv(Vmc, <<"PRECHECK", "WCP">>, FALSE),
    Inv(Tkgm, <<"CLEANUP">>, FALSE) }

\* Everything at once: an operator who may press ctrl-c beside the UI.
Beside == { Inv(Vmc, <<"PRECHECK">>, FALSE) }

UiNone == {}
UiOne == { [job |-> "AVI", dep |-> Tkgs] }
\* MGMT is posted to an endpoint the server keeps no status for.
UiVmc == { [job |-> "EXTENSIONS", dep |-> Vmc], [job |-> "MGMT", dep |-> Vmc] }

ThreadSymmetry == Permutations({t1, t2})
=============================================================================
