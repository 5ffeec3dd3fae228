----------------------------- MODULE VmcDeploy -----------------------------
(***************************************************************************)
(* The deployment on VMC on AWS.  It has handlers of its own for what the   *)
(* classes of AlbDeploy, CloudDeploy and ClusterDeploy do on vSphere, and   *)
(* they look at other things before they act (vmc/, common_utilities.py).   *)
(* The cloud of VMC discovers nothing: its engines are imported.            *)
(***************************************************************************)
EXTENDS ClusterDeploy

-----------------------------------------------------------------------------
(* Controllers: avi_config.py.                                             *)

VmcPassword == Ensure("password")
VmcSettings == Set("settings")
VmcWelcomeScreen == Set("welcome")
VmcBackupPhrase == Set("phrase")
VmcConfigure == VmcPassword \o VmcSettings \o VmcWelcomeScreen \o VmcBackupPhrase

\* deployAndConfigureAvi: without an address the VM counts as absent.
VmcImport(c) == Find("aviOva") \o Make(c, "off") \o Put(c, "on")

\* A mistake the checks must notice: nobody waits until the controller is up.
VmcControllerUnawaited(c) == Unless(c, {"up"}, Need(c, {"none", "off"}) \o VmcImport(c))

VmcController(c) ==
  Unless(c, {"up"}, Need(c, {"none", "off"}) \o VmcImport(c) \o Await(c, {"up"}))

VmcFormCluster ==
  Unless("ha", {"joined", "active"}, Put("ha", "joined") \o Await("ha", {"active"}))

\* deploy_alb
VmcControllers ==
  ControllerOva \o Ensure("albPool") \o Find("segments")
    \o VmcController("c1") \o VmcConfigure
    \o IF HA THEN VmcController("c2") \o VmcController("c3") \o VmcFormCluster ELSE <<>>

\* govc_client.get_vm_ip(CONTROLLER_NAME)
FirstController == Need("c1", {"up"})

\* manage_alb_certs, manage_avi_certificates: at the address of the first.
VmcImportCertificate == Ensure("cert")
VmcReplaceCertificate == Set("portal")
VmcCertificates == FirstController \o VmcImportCertificate \o VmcReplaceCertificate

\* configure_alb
VmcAlb == VmcControllers \o VmcCertificates

-----------------------------------------------------------------------------
(* Cloud and engines: configCloud.                                         *)

VmcCloud == Ensure("cloud")
VmcGroup(g) == Ensure(g)

\* getVipNetwork, createVipNetwork
VmcNetworkPool(pool) == Ensure(pool)

\* A profile is made of the URLs of the two networks.  If the cluster VIP
\* network was there, the variable for its URL holds that of the data network.
\* The answer of the look is not tested, for the test is of the other network's: a
\* refused look goes on as if the network was there.
VmcIpam(s) == Unless("ipam", {"short", "there"}, Put("ipam", s))
VmcVipNetwork ==
  Spare("vipPool", Have, Set("vipPool") \o VmcIpam("there")) \o VmcIpam("short")

\* getDetailsOfNewCloud, updateNewCloudSeGroup
VmcCloudIpam == Set("cloudIpam")

\* A file of that name is taken as it is.
VmcEngineOva == Unless("seFile", {"partial", "there"}, Copy("seFile"))
VmcTemplate == Unless("seTemplate", Have, Find("seFile") \o Set("seTemplate"))

\* deploySeEngines
VmcImportEngine(e) == Find("seFile") \o Make(e, "off") \o Put(e, "on")

\* A mistake the checks must notice: an engine that is there is imported again.
VmcEngineAlways(e) == VmcImportEngine(e) \o Await(e, Powered)

VmcEngine(e) == Unless(e, {"off"} \cup Powered, VmcImportEngine(e)) \o Await(e, Powered)

VmcListed(es) == AllListed(es)
VmcRegroup(m, n) == Set(m) \o Set(n)
VmcConnected(d, e) == Await(d, {"connected"}) \o Await(e, {"connected"})
VmcRoute(r) == Find("cloud") \o Ensure(r)

\* controllerDeployment
VmcEngines(d, e, m, n, es) ==
  VmcEngine(d) \o VmcEngine(e) \o VmcListed(es) \o VmcRegroup(m, n) \o VmcConnected(d, e)

VmcClusterCloud ==
  KubernetesOva \o Ensure("templates") \o Login \o VmcCloud \o VmcGroup("mgmtGroup")
    \o VmcNetworkPool("dataPool") \o VmcVipNetwork \o VmcCloudIpam
    \o VmcEngineOva \o VmcTemplate
    \o VmcEngines("e1", "e2", "member1", "member2", {"e1", "e2"})
    \o VmcRoute("vipRoute") \o VmcRoute("route")

-----------------------------------------------------------------------------
(* Clusters.                                                               *)

\* deployManagementCluster: it is not verified afterwards.
VmcManagementCluster == Unless("mgmt", Deployed, Make("mgmt", "creating") \o Watch("mgmt"))

\* configTkgMgmt
VmcManagement ==
  Folder("mgmtFolder") \o Login \o Find("dataPool") \o Find("vipPool") \o VmcManagementCluster

\* configManagementCluster
VmcManagementStage == VmcClusterCloud \o VmcManagement

\* akoDeploymentConfigSharedCluster, createAkoFile
VmcAkoConfig ==
  OnManagement \o Await("mgmtAko", Have) \o FirstController \o Remove("sharedAdc")
    \o Find("dataPool") \o Find("vipPool") \o Set("sharedAdc")

\* A mistake the checks must notice: nobody waits for the cluster.
VmcCreateGuestUnawaited(c) == Make(c, "creating") \o Watch(c)

VmcCreateGuest(c) == Make(c, "creating") \o Watch(c) \o Await(c, Deployed)
VmcConnect(c) == Need(c, Reachable)

\* Everything is skipped once the cluster runs: it is "already deployed".
VmcShared ==
  KubernetesOva \o Folder("sharedFolder") \o OnManagement
    \o Unless("shared", Deployed,
              VmcAkoConfig \o VmcCreateGuest("shared") \o OnManagement \o Set("label")
                \o VmcConnect("shared") \o Await("sharedAko", Have))

\* networkConfig: the data network is appended to the profile every time.
VmcWorkSegments == Ensure("workSegment")
VmcDataNetworkIpam == Need("ipam", {"short", "there"}) \o Set("ipamWork")
VmcPreconfig ==
  KubernetesOva \o VmcWorkSegments \o FirstController \o Find("cloud") \o VmcNetworkPool("workPool")
    \o VmcGroup("workGroup") \o VmcDataNetworkIpam
    \o VmcEngines("e3", "e4", "member3", "member4", Engines) \o VmcRoute("workRoute")

VmcWorkSegment == Ensure("workSegment")
VmcWorkGroups == Find("segments") \o Ensure("workNsxGroup")

\* A rule is made of the segments and groups of the environment and of the
\* workload: it is not made before they are there.
VmcRule(r, xs) ==
  Unless(r, Have, (IF "segments" \in xs THEN Find("segments") \o Find("groups") ELSE <<>>)
                    \o Find("workSegment") \o Find("workNsxGroup") \o Set(r))

VmcDnsRule == VmcRule("dnsRule", {"segments"})
VmcVcenterRule == VmcRule("vcenterRule", {"segments"})
VmcInternetRule == VmcRule("workRules", {})
VmcManagementRule == VmcRule("mgwRule", {"segments"})

VmcWorkNetwork ==
  VmcWorkSegment \o VmcWorkGroups \o VmcDnsRule \o VmcVcenterRule
    \o VmcInternetRule \o VmcManagementRule

VmcWorkEngines ==
  FirstController \o Await("e3", Powered) \o Await("e4", Powered)
    \o VmcListed(Engines) \o Find("workGroup") \o VmcRegroup("member3", "member4")

\* createAkoFile of the workload: applied only, and before the cluster.
VmcWorkAkoConfig == Find("workPool") \o Find("vipPool") \o OnManagement \o Set("workAdc")

\* deploy: AKO is looked for in the context of the management cluster.
VmcWorkload ==
  KubernetesOva \o VmcWorkNetwork \o VmcWorkEngines \o Folder("workFolder") \o OnManagement
    \o Unless("workload", Deployed, VmcWorkAkoConfig \o VmcCreateGuest("workload"))
    \o OnManagement \o Await("mgmtAko", Have) \o VmcConnect("workload")

=============================================================================
