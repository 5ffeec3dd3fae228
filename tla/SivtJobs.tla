------------------------------ MODULE SivtJobs ------------------------------
(***************************************************************************)
(* The deployment jobs SIVT keeps a status for, the deployments they run   *)
(* in, and the REST endpoint a request for each of them is posted to.  A   *)
(* path is a sequence of segments below /api/tanzu: every endpoint of the  *)
(* server starts with that prefix, and on those endpoints the substring    *)
(* test of the code is the prefix test on segments.                        *)
(***************************************************************************)
EXTENDS Naturals, Sequences

NotStarted == "NOT STARTED"
InProgress == "IN PROGRESS"
Passed == "PASSED"
Failed == "FAILED"
Skipped == "SKIPPED"
NotApplicable == "NOT APPLICABLE"

Statuses ==
  {NotStarted, InProgress, Passed, Failed, Skipped, NotApplicable}

\* The components in the order initialize_db inserts them.
JobOrder ==
  << "PRECHECK", "VCF_PRECONFIG", "VMC_PRECONFIG", "AVI", "MGMT", "WCP_CONFIG",
     "WCP", "NAMESPACE", "SHARED_SERVICE", "WORKLOAD_PRECONFIG", "WORKLOAD",
     "EXTENSIONS", "CLEANUP" >>

Jobs ==
  {"PRECHECK", "VCF_PRECONFIG", "VMC_PRECONFIG", "AVI", "MGMT", "WCP_CONFIG",
   "WCP", "NAMESPACE", "SHARED_SERVICE", "WORKLOAD_PRECONFIG", "WORKLOAD",
   "EXTENSIONS", "CLEANUP"}

NoJob == "none"

Envs == {"vsphere", "vcf", "vmc"}

\* What the input file describes: TKGs on a supervisor cluster or TKGm
\* (tkgs-ns and tkgs-wcp are one kind here, as in initialize_db).
Kinds == {"tkgs", "tkgm"}

Deployments == [env: Envs, kind: Kinds]

-----------------------------------------------------------------------------

Cloud(env) == IF env = "vmc" THEN "vmc" ELSE "vsphere"

\* The endpoint the command line posts a job to.
Endpoint(job, d) ==
  CASE job = "PRECHECK"           -> <<"precheck">>
    [] job = "VCF_PRECONFIG"      -> <<"vsphere", "alb", "vcf_pre_config">>
    [] job = "VMC_PRECONFIG"      -> <<"vmc", "envconfig">>
    [] job = "AVI"                -> <<Cloud(d.env), "alb">>
    [] job = "MGMT"               -> <<Cloud(d.env), "tkgmgmt">>
    [] job = "WCP_CONFIG"         -> <<"vsphere", "tkgmgmt", "alb", "config", "wcp">>
    [] job = "WCP"                -> <<"vsphere", "enablewcp">>
    [] job = "NAMESPACE"          -> <<"vsphere", "workload", "createnamespace">>
    [] job = "SHARED_SERVICE"     -> <<Cloud(d.env), "tkgsharedsvc">>
    [] job = "WORKLOAD_PRECONFIG" -> <<Cloud(d.env), "workload", "network-config">>
    [] job = "WORKLOAD"           ->
         IF d.kind = "tkgs" THEN <<"vsphere", "workload", "createworkload">>
                            ELSE <<Cloud(d.env), "workload", "config">>
    [] job = "EXTENSIONS"         -> <<"extensions">>
    [] job = "CLEANUP"            -> <<"cleanup-env">>

\* API_COMPONENTS_MAPPING: the endpoints whose status the server records.
Mapping ==
  << [path |-> <<"precheck">>,                                    job |-> "PRECHECK"],
     [path |-> <<"vsphere", "alb">>,                              job |-> "AVI"],
     [path |-> <<"vsphere", "tkgmgmt", "alb", "config", "wcp">>,  job |-> "WCP_CONFIG"],
     [path |-> <<"vsphere", "enablewcp">>,                        job |-> "WCP"],
     [path |-> <<"vsphere", "workload", "createnamespace">>,      job |-> "NAMESPACE"],
     [path |-> <<"vsphere", "workload", "createworkload">>,       job |-> "WORKLOAD"],
     [path |-> <<"extensions">>,                                  job |-> "EXTENSIONS"] >>

\* `endpoint_path in parsed_url.path': the requested path is the needle, the
\* mapped one the haystack.
Within(path, mapped) ==
  Len(path) <= Len(mapped) /\ path = SubSeq(mapped, 1, Len(path))

MatchEndpoint(path) ==
  LET hits == {i \in 1..Len(Mapping) : Within(path, Mapping[i].path)}
  IN  IF hits = {} THEN NoJob
      ELSE Mapping[CHOOSE i \in hits : \A k \in hits : i <= k].job

\* The component the server marks when the endpoint of `job' is requested.
Marked(job, d) == MatchEndpoint(Endpoint(job, d))

\* The deployments for which the command line runs a job rather than exit.
\* For TKGs WORKLOAD is create_workload_cluster.
Allows(job, d) ==
  CASE job = "VCF_PRECONFIG" -> d.env = "vcf"
    [] job = "VMC_PRECONFIG" -> d.env = "vmc"
    [] job \in {"WCP_CONFIG", "WCP", "NAMESPACE"} -> d.env = "vsphere"
    [] job = "WORKLOAD" /\ d.kind = "tkgs" -> d.env = "vsphere"
    [] OTHER -> d.env \in Envs
=============================================================================
