----------------------------- MODULE Deployment -----------------------------
(***************************************************************************)
(* A deployment of Tanzu Kubernetes Grid, stage by stage.  The operator      *)
(* posts the stages one at a time and repeats a stage until it succeeds, or *)
(* posts one out of turn; calls fail, waits end too soon, the server ends.  *)
(* Meanwhile vCenter, NSX ALB and the clusters go on with what they were    *)
(* told.                                                                    *)
(***************************************************************************)
EXTENDS VcdDeploy

\* The endpoints, in the order of the command line's stages.
Order ==
  CASE setup \in {"vcf", "vmc"} -> <<"env", "alb", "mgmt", "shared", "wpre", "workload", "ext">>
    [] setup = "tkgs"           -> <<"alb", "wcp", "enable", "ns", "workload", "ext",
                                     "shutdown", "bringup">>
    [] setup = "vcd"            -> <<"alb", "cloud", "org", "cse">>
    [] setup = "pipelineTkgs"   -> <<"alb", "wcp", "enable", "ns", "workload", "ext">>
    [] setup \in Pipelines \ Supervised -> <<"alb", "mgmt", "shared", "workload", "ext">>
    [] OTHER                    -> <<"alb", "mgmt", "shared", "wpre", "workload", "ext">>

Stages == {Order[i] : i \in DOMAIN Order}
Earlier(s) == {Order[i] : i \in {j \in DOMAIN Order : \E k \in DOMAIN Order : j < k /\ Order[k] = s}}

VsphereProgram(s) ==
  CASE s = "env"      -> VcfNetwork(FALSE)
    [] s = "alb"      -> NsxAlb
    [] s = "mgmt"     -> ManagementStage
    [] s = "shared"   -> SharedServices
    [] s = "wpre"     -> WorkloadPreconfig
    [] s = "workload" -> WorkloadStage
    [] s = "ext"      -> Extensions

VmcProgram(s) ==
  CASE s = "env"      -> VmcNetwork
    [] s = "alb"      -> VmcAlb
    [] s = "mgmt"     -> VmcManagementStage
    [] s = "shared"   -> VmcSharedServices
    [] s = "wpre"     -> VmcPreconfig
    [] s = "workload" -> VmcWorkload
    [] s = "ext"      -> Extensions

PipelineProgram(s) ==
  CASE s = "alb"      -> GitAlb
    [] s = "mgmt"     -> GitManagement
    [] s = "shared"   -> GitShared
    [] s = "workload" -> GitWorkload
    [] s = "ext"      -> GitExtensions

TkgsProgram(s) ==
  CASE s = "alb"      -> NsxAlb
    [] s = "wcp"      -> TkgsConfig
    [] s = "enable"   -> TkgsEnableStage
    [] s = "ns"       -> TkgsNamespace
    [] s = "workload" -> TkgsWorkload
    [] s = "ext"      -> TkgsExtensions
    [] s = "shutdown" -> WcpShutdown
    [] s = "bringup"  -> WcpBringup

TkgsPipelineProgram(s) ==
  CASE s = "alb"      -> GitAlb
    [] s = "wcp"      -> GitTkgsConfig
    [] s = "enable"   -> GitEnableTask
    [] s = "ns"       -> GitNamespace
    [] s = "workload" -> GitTkgsWorkload
    [] s = "ext"      -> GitTkgsExtensions

VcdProgram(s) ==
  CASE s = "alb"      -> VcdAlb
    [] s = "cloud"    -> VcdCloud
    [] s = "org"      -> VcdOrg
    [] s = "cse"      -> VcdExtension

Program(s) ==
  CASE setup = "vmc"          -> VmcProgram(s)
    [] setup = "vcd"          -> VcdProgram(s)
    [] setup = "tkgs"         -> TkgsProgram(s)
    [] setup = "pipelineTkgs" -> TkgsPipelineProgram(s)
    [] setup \in Pipelines \ Supervised -> PipelineProgram(s)
    [] OTHER                  -> VsphereProgram(s)

-----------------------------------------------------------------------------
(* The operator and the server.                                            *)

Init ==
  /\ setup \in Setups
  /\ \E given \in IF setup = "manual" THEN {{}, {"oneNetwork"}} ELSE {{}} :
       world = [x \in Concerned(setup) |-> IF x \in given THEN "there" ELSE "none"]
  /\ faults = 0
  /\ stage = "idle" /\ todo = <<>> /\ done = {}

\* A stage is posted in turn, or too early or again by mistake.  A pipeline runs
\* its tasks in turn; by mistake it is cancelled, or run again.  What was shut down
\* is to be brought up again.
InTurn(s) == s \notin done /\ Earlier(s) \subseteq done

Post(s) ==
  /\ stage = "idle"
  /\ IF InTurn(s) THEN UNCHANGED faults
     ELSE /\ faults < MaxFaults[setup] /\ faults' = faults + 1
          /\ setup \in Pipelines => s = Order[1]
  /\ stage' = s
  /\ todo' = Program(s)
  /\ done' = IF setup \in Pipelines /\ s = Order[1] THEN {}
             ELSE done \ IF s = "shutdown" THEN {s, "bringup"} ELSE {s}
  /\ UNCHANGED <<setup, world>>

\* All calls were made: 200.
Answer ==
  /\ stage # "idle" /\ todo = <<>>
  /\ stage' = "idle" /\ done' = done \cup {stage}
  /\ UNCHANGED <<setup, world, faults, todo>>

\* The operator repeats the first stage that has not succeeded.
Diligence == stage = "idle" /\ \E s \in Stages : InTurn(s) /\ Post(s)

-----------------------------------------------------------------------------
(* What goes on without the server.                                        *)

Outside(x, from, to) ==
  /\ Is(x, from) /\ Becomes(x, to)
  /\ UNCHANGED <<setup, faults, request>>

ControllerUp == \E c \in Controllers : Outside(c, {"on"}, "up")
NodesActive == Outside("ha", {"joined"}, "active")
DefaultCloud == Is("c1", {"up"}) /\ Outside("defaultCloud", {"none"}, "there")

OnNsxt == setup \in {"vcf", "vcd", "pipelineVcf"}

\* Only a cloud with access to vCenter discovers networks and places images; the
\* placement matters on vSphere and VCF, outside of a pipeline.  For Cloud Director
\* neither matters, and no engine is waited for.
Orchestrated == setup \notin {"manual", "vmc", "vcd"}
Discovered ==
  /\ Orchestrated /\ There("cloud")
  /\ \/ Outside("inventory", {"none"}, "there")
     \/ setup \notin Pipelines \cup Supervised /\ Outside("placement", {"none"}, "there")

\* NSX ALB can serve the supervisor.
Balanced == \A x \in {"vipPool", "cloudIpam", "mgmtGroup", "cert"} : There(x)

\* The service asks for the engines of its group, one after the other; so does
\* the supervisor, which has the address of its API from NSX ALB.
Served(g) == Is("vs", {g}) \/ (g = "mgmt" /\ Is("super", Present) /\ Balanced)
EngineStarted ==
  /\ Orchestrated
  /\ \E g \in {"mgmt", "work"} :
       /\ Served(g)
       /\ \/ Outside(FirstOf(g), {"none"}, "up")
          \/ There(FirstOf(g)) /\ Outside(SecondOf(g), {"none"}, "up")
EngineUp == \E e \in Engines : Outside(e, {"on"}, "up")

\* Nobody asks whether the second engine of an orchestrated cloud is connected.
Awaited == IF Orchestrated THEN {FirstOf("mgmt"), FirstOf("work")} ELSE Engines
EngineConnects == \E e \in Awaited : Outside(e, {"up"}, "connected")

ClusterServes ==
  \/ \E c \in {"shared", "workload"} : Outside(c, {"creating"}, "serving")
  \/ Balanced /\ Outside("super", {"creating"}, "serving")
ClusterRuns ==
  \/ \E c \in {"mgmt", "ns"} : Outside(c, {"creating"}, "running")
  \/ Outside("super", {"serving"}, "running")
  \/ \E c \in {"shared", "workload"} : Outside(c, {"serving"}, "running")

\* The operator of AKO deploys it to the clusters its configurations select.
AkoStarts ==
  \/ Is("mgmt", Deployed) /\ Outside("mgmtAko", {"none"}, "there")
  \/ Is("shared", Reachable) /\ There("sharedAdc") /\ Outside("sharedAko", {"none"}, "there")
  \/ Is("workload", Reachable) /\ There("workAdc") /\ Outside("workAko", {"none"}, "there")

\* WCP starts the supervisor, and that its guest cluster.
PoweredOn ==
  \/ Is("wcpDown", {"none"}) /\ Outside("super", {"off"}, "running")
  \/ Is("super", Deployed) /\ Outside("workload", {"off"}, "running")

\* The kapp-controller tries a package again and again.
PackageReconciled == \E p \in Packages : Outside(p, {"creating", "failed"}, "there")

PackageFails ==
  /\ faults < MaxFaults[setup]
  /\ faults' = faults + 1
  /\ \E p \in Packages : Is(p, {"creating"}) /\ Becomes(p, "failed")
  /\ UNCHANGED <<setup, request>>

ClusterBreaks ==
  /\ faults < MaxFaults[setup]
  /\ faults' = faults + 1
  /\ \E c \in Clusters \cup Supervisor : Is(c, {"creating"}) /\ Becomes(c, "broken")
  /\ UNCHANGED <<setup, request>>

Meanwhile ==
  \/ ControllerUp \/ NodesActive \/ DefaultCloud \/ Discovered
  \/ EngineStarted \/ EngineUp \/ EngineConnects
  \/ ClusterServes \/ ClusterRuns \/ AkoStarts \/ PackageReconciled \/ PoweredOn

Next ==
  \/ \E s \in Stages : Post(s)
  \/ Calls \/ Failures \/ Answer
  \/ Meanwhile \/ ClusterBreaks \/ PackageFails

\* The server goes on with a request, the operator repeats the next stage now
\* and then, and what was started outside comes about: each of its steps happens
\* a bounded number of times, so that fairness of them all is fairness of each.
Fairness == WF_vars(Calls \/ Answer) /\ SF_vars(Diligence) /\ WF_vars(Meanwhile)

Spec == Init /\ [][Next]_vars /\ Fairness

-----------------------------------------------------------------------------
(* What a finished stage has set up.                                       *)

AllThere(xs) == \A x \in xs : There(x)
Unverified == setup \in {"vmc"} \cup Pipelines

NetworkSetUp ==
  AllThere({"segments", "groups", "services", "rules"}) /\ (setup = "vcf" => There("policy"))

\* Of three nodes it is not promised that they are active.  The first task of a
\* pipeline promises nothing.
ControllersSetUp ==
  setup \notin Pipelines =>
  /\ \A c \in Controllers : Is(c, {"up"})
  /\ AllThere({"albPool", "password", "settings", "phrase", "cert", "portal"})
  /\ HA => There("ha")
  /\ setup = "vcd" => There("vcdCtrl")

\* Of the two engines that an orchestrated cloud starts the code waits for one;
\* imported ones are connected and in their group.
EnginesSetUp(d, e, m, n) ==
  IF Orchestrated THEN Is(d, Listed)
  ELSE AllThere({m, n}) /\ \A x \in {d, e} : Is(x, {"connected"})

\* On VMC and in a pipeline the management cluster is not verified; on VMC the
\* profile may be short.
ManagementSetUp ==
  /\ AllThere({"cloud", "mgmtGroup", "vipPool", "ipam", "cloudIpam", "route"})
  /\ EnginesSetUp("e1", "e2", "member1", "member2")
  /\ setup # "vmc" => There("workGroup")
  /\ IF Unverified THEN There("mgmt") ELSE Is("mgmt", Deployed)

\* On VMC a repeated stage leaves the label out when the cluster runs.
Reconciled(ps) == \A p \in ps : Is(p, Have)
SharedSetUp ==
  IF setup \in Pipelines THEN Is("shared", Deployed)
  ELSE /\ Is("shared", Reachable) /\ There("sharedAko")
       /\ setup # "vmc" => There("label")
       /\ Reconciled(OnShared \cup {"harbor"})

\* The cloud, as the supervisor needs it.
WcpSetUp ==
  AllThere({"cloud", "mgmtPool", "cloudNet", "route", "vipPool", "ipam", "cloudIpam", "mgmtGroup",
            "vipRoute"})

\* With a refused session nothing is waited for but the plugin; and a pipeline
\* does not wait for a supervisor that was enabled before.
EnableSetUp ==
  There("library") /\ IF setup = "tkgs" THEN Is("super", Reachable \cup {"off"}) ELSE There("super")

PreconfigSetUp ==
  /\ AllThere({"workGroup", IF setup = "vcf" THEN "vipPool" ELSE "workPool"})
  /\ setup # "orchestrated" => EnginesSetUp("e3", "e4", "member3", "member4")
  /\ setup # "vmc" => Is("mgmt", Deployed)

\* On a supervisor the last two stages promise nothing: see DeadEnd.
WorkloadSetUp ==
  CASE setup \in Supervised -> TRUE
    [] setup = "vmc"       -> Is("workload", Deployed) /\ AllThere({"workRules", "mgwRule"})
    [] setup \in Pipelines \ Supervised -> Is("workload", Deployed) /\ AllThere({"workGroup", "workAdc"})
    [] OTHER               -> Is("workload", Reachable) /\ There("workAko")

\* Of Fluent Bit it is not promised that it works, and a pipeline promises nothing.
ExtensionsSetUp ==
  setup \notin Pipelines =>
    Reconciled({"workCert", "workContour", "prometheus", "grafana"}) /\ Is("fluent", Settled)

\* The cloud is imported, unless it was and the file says that it need not be: see
\* DeadEnd for this, and for the network of the organisation.
CloudSetUp ==
  AllThere({"cloud", "mgmtGroup"}) /\ (There("vcdCloud") \/ Is("importCloud", {"no"}))
OrgSetUp == AllThere({"org", "orgVdc", "edge"})
CseSetUp ==
  AllThere({"cseTemplate", "kubeOva", "plugin", "keEntity", "capEntity", "cseUser", "keConfig",
            "token", "vapp"})

\* Once it was shut down nothing of the supervisor runs until WCP is restarted.
ShutdownSetUp == There("wcpDown") => Is("super", {"off"}) /\ ~Is("workload", Reachable)
BringupSetUp == Is("super", Deployed)

SetUp(s) ==
  CASE s = "env"      -> NetworkSetUp
    [] s = "alb"      -> ControllersSetUp
    [] s = "mgmt"     -> ManagementSetUp
    [] s = "shared"   -> SharedSetUp
    [] s = "wpre"     -> PreconfigSetUp
    [] s = "wcp"      -> WcpSetUp
    [] s = "enable"   -> EnableSetUp
    [] s = "ns"       -> TRUE
    [] s = "workload" -> WorkloadSetUp
    [] s = "ext"      -> ExtensionsSetUp
    [] s = "cloud"    -> CloudSetUp
    [] s = "org"      -> OrgSetUp
    [] s = "cse"      -> CseSetUp
    [] s = "shutdown" -> ShutdownSetUp
    [] s = "bringup"  -> BringupSetUp

-----------------------------------------------------------------------------
(* Properties.                                                             *)

\* Each thing is in one of its states, and a request that ended has no calls
\* left, however it ended.
TypeOK ==
  /\ setup \in Setups
  /\ DOMAIN world = Concerned(setup) /\ \A x \in DOMAIN world : world[x] \in Lives[x]
  /\ faults \in 0 .. MaxFaults[setup]
  /\ stage \in Stages \cup {"idle"}
  /\ stage = "idle" => todo = <<>>
  /\ done \subseteq Stages

\* A stage answered with 200 has set up what it is for, and it stays so while
\* later stages fail, are repeated, or run out of turn.
Kept == \A s \in done : SetUp(s)

\* No package without its cluster, its repository and the packages it needs.
Started == Reachable \cup {"off"}
PackagesGrounded ==
  /\ \A c \in {"shared", "workload"} :
       /\ There(Kit[c].cert) => There(Kit[c].repo) /\ Is(c, Started)
       /\ There(Kit[c].contour) => Is(Kit[c].cert, Have)
       /\ There(Kit[c].contour) /\ setup \notin Supervised \cup Pipelines => There(Kit[c].ako)
  /\ There("harbor") =>
       LET c == IF setup \in Supervised THEN "workload" ELSE "shared"
       IN  Reconciled({Kit[c].cert, Kit[c].contour})
  /\ There("prometheus") => Is("workContour", Have)
  /\ There("grafana") \/ There("fluent") => There("workRepo") /\ Is("workload", Started)
  /\ There("workRepo") /\ setup \in Supervised => There("roleBinding") /\ Is("kapp", Have)

VcdGrounded ==
  /\ There("vcdCtrl") => There("vcdCert")
  /\ There("vcdCloud") => AllThere({"cloud", "vcdCtrl"})
  /\ There("vcdSeg") => AllThere({"mgmtGroup", "vcdCloud"})
  /\ There("edge") => AllThere({"vcdSeg", "org", "orgVdc"})
  /\ There("orgNetwork") => There("edge")
  /\ \A c \in {"cseCatalog", "k8sCatalog", "orgVdc", "keAccess", "capAccess"} : There(c) => There("org")
  /\ There("keAccess") \/ There("capAccess") => AllThere({"keEntity", "capEntity"})
  /\ There("vapp") => AllThere({"orgNetwork", "cseTemplate", "keConfig", "token"})

\* What a guest cluster is made from.  The pre-check of a pipeline may overlook the
\* management cluster, and the exception that follows deletes it: two faults.
Dependents == {"shared", "workload", "sharedAdc", "workAdc"}
Foundation == IF setup \in Supervised THEN "ns" ELSE "mgmt"
Overlooked == setup \in Pipelines \ Supervised /\ faults > 1

\* What the engines get their addresses from.
EngineNetwork == IF setup = "vmc" THEN "ipam" ELSE "vipPool"

\* Nothing is built on something missing, in whatever order stages were posted
\* and wherever they failed: no rules without their groups, no cluster of
\* controllers before all of them are up, no profile without the VIP network, no
\* engine without a cloud, a group or network with its pool, no guest cluster or
\* configuration of AKO without the management cluster, and on a supervisor none
\* without a namespace that runs, no gateway of an organisation without the cloud it
\* is served by, and no server of the extension without its network, its
\* configuration and its token.  On VMC a profile may be made without the VIP network
\* if that could not be looked up, and the engines rest on the profile; but the
\* management cluster needs the network.
Grounded ==
  /\ AllThere({"rules"}) => AllThere({"segments", "groups"})
  /\ \A r \in {"dnsRule", "vcenterRule", "mgwRule"} :
       There(r) => AllThere({"segments", "groups", "workSegment", "workNsxGroup"})
  /\ There("ha") => \A c \in Controllers : Is(c, {"up"})
  /\ There("cert") => There("phrase")
  /\ There("cloud") => (OnNsxt => AllThere({"vcCred", "nsxCred", "segments"}))
  /\ There("ipam") => There("vipPool") \/ (setup = "vmc" /\ Is("ipam", {"short"}))
  /\ There("cloudIpam") => AllThere({"ipam", "cloud"})
  /\ \A e \in Engines : There(e) => AllThere({"cloud", EngineNetwork})
  /\ \A m \in {"member3", "member4"} : There(m) => There("workGroup")
  /\ There("mgmt") => AllThere({"vipPool", "mgmtFolder", "kubeOva", "cloudIpam"})
  /\ There("super") => AllThere({"library", "cert"})
  /\ There("ns") => Is("super", Deployed \cup {"off"}) /\ AllThere({"library", "workNet"})
  /\ \A x \in Dependents : There(x) => Is(Foundation, Deployed) \/ Overlooked
  /\ PackagesGrounded
  /\ setup = "vcd" => VcdGrounded

\* Of Cloud Director: the import of the cloud failed halfway, so that the repeated
\* stage writes that no cloud is to be imported, which the next one takes for an
\* order to remove it; a gateway without its network, one catalog of two, a truncated
\* image, a type to which no access was granted, a configuration not registered: each
\* is looked up by the first thing made and taken for complete.
VcdDeadEnd ==
  \/ "cloud" \in done /\ Is("importCloud", {"no"}) /\ ~There("vcdSeg")
  \/ There("edge") /\ ~There("orgNetwork")
  \/ There("cseCatalog") # There("k8sCatalog")
  \/ \E f \in {"cseFile", "kubeFile"} : Is(f, {"partial"})
  \/ There("keEntity") /\ ~There("keAccess")
  \/ There("capEntity") /\ ~There("capAccess")
  \/ There("keConfig") /\ ~There("keRegistered")

\* What a retry cannot mend: one credential of two; a VM that was imported and
\* not powered on; a broken cluster; a truncated image of the service engine;
\* engines of VCF that the leftover service of the other group keeps away; a
\* shared cluster that runs without the configuration AKO needs; of a manual cloud,
\* a workload cluster that is not on its data network.  A pipeline skips
\* a controller that answers, though it was never configured or joined; a broken
\* workload cluster it deletes.  On a supervisor a refused session, or a stage
\* posted before its time, is answered with 200 though nothing was made; and the
\* pipeline never makes the certificate of a controller it skips.  Where WCP is down
\* a shutdown that failed cannot be repeated, nor can an earlier stage.
DeadEnd ==
  \/ There("vcCred") # There("nsxCred")
  \/ \E x \in Controllers \cup Engines : Is(x, {"off"})
  \/ \E c \in Clusters \cup Supervisor :
       Is(c, {"broken"}) /\ ~(setup \in Pipelines \ Supervised /\ c = "workload")
  \/ Is("seFile", {"partial"})
  \/ OnNsxt /\ \E g, h \in {"mgmt", "work"} :
       g # h /\ Is("vs", {g}) /\ Is(FirstOf(h), {"none", "connected"}) /\ ~There(SecondOf(h))
  \/ setup \notin Pipelines /\ Is("shared", Deployed) /\ ~There("sharedAdc")
  \/ setup = "manual" /\ ~There("oneNetwork") /\ Earlier("workload") \subseteq done
  \/ /\ setup \in Pipelines /\ Is("c1", {"up"})
     /\ ~There("password") \/ (HA /\ ~There("ha"))
  \/ setup \in Supervised /\ "workload" \in done /\ ~There("workload")
  \/ setup = "tkgs" /\ "ns" \in done /\ ~There("ns")
  \/ setup = "pipelineTkgs" /\ Is("c1", {"up"}) /\ ~There("cert")
  \/ There("wcpDown") /\ ~(Earlier("bringup") \subseteq done)
  \/ setup = "vcd" /\ VcdDeadEnd

\* All stages were answered with 200, and the clusters run.
Complete == done = Stages
Delivered ==
  CASE setup \in Supervised -> \A c \in {"super", "ns", "workload"} : Is(c, Deployed)
    [] setup = "vcd"         -> AllThere({"vapp", "vcdSeg", "keAccess", "capAccess", "keRegistered"})
    [] OTHER                 -> \A c \in Clusters : Is(c, Deployed)

\* The documents say that the shared services stage adds the tags the cluster
\* needs.  On VMC a stage repeated after its cluster came up adds none.
SharedTagged == "shared" \in done => There("label")

\* An operator who repeats the stage that failed gets through to the end and has
\* clusters that run, after whatever failed before, but for the dead ends listed
\* above.
Converges == <>(Complete /\ Delivered) \/ <>[]DeadEnd

=============================================================================
