---------------------------- MODULE GitopsDeploy ----------------------------
(***************************************************************************)
(* The deployment as a Tekton pipeline, on vSphere and VCF.  Its tasks run  *)
(* one after the other, each in a container of its own: a task looks first  *)
(* whether its part is there, and a run that failed is started again from   *)
(* its first task.  A task that meets an exception deletes its cluster      *)
(* (tekton/scripts: __main__.py, pre_setup.py, workflows/, util/).           *)
(***************************************************************************)
EXTENDS VmcDeploy

OnVcf == setup = "pipelineVcf"

-----------------------------------------------------------------------------
(* NSX-T: nsxt_client.py, ra_nsxt_workflow.py.  op is "ensure" or "try".     *)

\* ensure x, or try to.
Each(op, x) == Call(op, x, Have, <<>>)

\* createNsxtSegment, createVcfDhcpServer
GitSegments(op) == Each(op, "segments")

\* createGroup
GitGroups(op) == Each(op, "groups")

\* createVipService
GitServices(op) == Each(op, "services")

\* createFirewallRule
GitRules(op) == Each(op, "policy") \o Each(op, "rules")

\* updateDefaultRule
GitDefaultRule(op) == Each(op, "defaultRule")

\* configure_avi_nsxt_config
GitNetwork(op) ==
  GitSegments(op) \o GitGroups(op) \o GitServices(op) \o GitRules(op) \o GitDefaultRule(op)

\* configure_workload_nsxt_config: its outcome is not looked at.
GitWorkNetwork == Try("workSegment") \o Try("workNsxGroup") \o Try("workRules")

-----------------------------------------------------------------------------
(* Images: a container starts without any, so there is none to use again.   *)

\* ra_avi_download
GitControllerOva == Ensure("aviOva")

\* downloadAndPushKubernetesOvaMarketPlace
GitKubernetesOva == Ensure("kubeOva")

-----------------------------------------------------------------------------
(* Controllers: ra_alb_workflow.py, avi_api_helper.py.                      *)

GitPassword == Ensure("password")
GitSettings == Set("settings")
GitWelcomeScreen == Set("welcome")
GitBackupPhrase == Set("phrase")
GitConfigure == GitPassword \o GitSettings \o GitWelcomeScreen \o GitBackupPhrase

\* deployAndConfigureAvi: a VM without an address counts as absent.
GitController(c) ==
  Unless(c, {"up"},
         Need(c, {"none", "off"}) \o Find("aviOva") \o Make(c, "off") \o Put(c, "on")
           \o Await(c, {"up"}))

\* form_avi_ha_cluster: of a cluster that is there it returns True where a pair
\* is expected, and the task fails.
GitFormCluster == Need("ha", {"none"}) \o Put("ha", "joined") \o Await("ha", {"active"})

\* manage_avi_certificates: the outcome is not looked at.
GitCertificate == Try("cert")
GitReplaceCertificate == Try("portal")

\* avi_controller_setup: a folder that cannot be created ends it, and passes.
GitControllers ==
  GitControllerOva \o (IF OnVcf THEN GitNetwork("ensure") ELSE <<>>) \o Quit("albPool")
    \o GitController("c1") \o GitConfigure
    \o (IF HA THEN GitController("c2") \o GitController("c3") \o GitFormCluster ELSE <<>>)
    \o GitCertificate \o GitReplaceCertificate

\* pre_check_avi: a controller that answers counts as deployed, configured or
\* not: where its password is refused the factory password is tried.
GitAlb ==
  (IF OnVcf THEN GitNetwork("try") ELSE <<>>) \o Ask("c1", {"up"}, GitControllers)

\* obtain_second_csrf, at the address of the cluster if there is one
GitLogin ==
  Need("c1", {"up"}) \o Find("password")
    \o (IF HA THEN Need("ha", {"joined", "active"}) ELSE <<>>)

-----------------------------------------------------------------------------
(* The cloud: configCloud of ra_mgmt_cluster_workflow.py.                   *)

\* waitForCloudPlacementReady: it gives up without an error, but the cloud that
\* a fresh controller starts with must be there.
GitDefaultCloud == Find("defaultCloud")

\* createCloudConnectUser: as CloudDeploy's Credentials.
GitCredentials ==
  Unless("vcCred", Have, Need("nsxCred", {"none"}) \o Set("vcCred") \o Set("nsxCred"))
    \o Find("nsxCred")

\* getCloudConnectUser, fetchTier1GatewayId
GitTier1 == Find("nsxCred")

\* fetchSegmentsId
GitSegmentIds == Find("segments")

\* createNsxtCloud
GitNsxtCloud == GitCredentials \o GitTier1 \o GitSegmentIds \o GitCredentials \o Set("cloud")

\* getCloudStatus, createNewCloud
GitCloud == Unless("cloud", Have, IF OnVcf THEN GitNsxtCloud ELSE Set("cloud"))

\* getNetworkUrl; getNetworkDetails, updateNetworkWithIpPools
GitNetworkUrl == Find("inventory")
GitPool(pool) == GitNetworkUrl \o Ensure(pool)

\* getNetworkDetailsVip, getNSXTNetworkDetailsVip
GitVipPool == GitNetworkUrl \o Ensure("vipPool")

\* getDetailsOfNewCloud, updateNewCloud
GitCloudNetwork == Set("cloudNet")

\* getIpam, createIpam, createIpam_nsxtCloud
GitIpam == Ensure("ipam")

\* createDns_nsxtCloud
GitDns == Ensure("dns")

\* getDetailsOfNewCloudAddIpam, updateIpam, associate_ipam_nsxtCloud
GitCloudIpam == Set("cloudIpam")

\* configureVcenterInNSXTCloud, createNsxtSECloud
GitNsxtGroup == Unless("vcenter", Have, GitCredentials \o Set("vcenter")) \o Set("mgmtGroup")

\* getSECloudStatus, createSECloud
GitManagementGroup == Unless("mgmtGroup", Have, IF OnVcf THEN GitNsxtGroup ELSE Set("mgmtGroup"))

\* createSECloud_Arch
GitWorkGroup == Ensure("workGroup")

\* enableDhcpForManagementNetwork
GitDhcp == Set("mgmtDhcp")

\* getVrfAndNextRoutId, addStaticRoute
GitRoute(r) == Find("cloud") \o Ensure(r)

\* create_virtual_service: the address; the service; the first engine; and both
\* are deleted again.
GitAddress == Find("vipPool") \o Ensure("vsVip")
GitServiceOf(g) == Unless("vs", {"mgmt", "work"}, Put("vs", g))
GitFirstEngine(g) ==
  Await(FirstOf(g), Listed) \o Need(FirstOf(g), {"up"}) \o Await(FirstOf(g), {"connected"})
GitRemoveService == Discard("vs") \o Discard("vsVip")
GitService(g) ==
  Unless(SecondOf(g), Listed,
         GitAddress \o GitServiceOf(g) \o GitFirstEngine(g) \o GitRemoveService)

GitProfiles == GitIpam \o (IF OnVcf THEN GitDns ELSE <<>>) \o GitCloudIpam
GitEngineGroups == GitManagementGroup \o GitWorkGroup
GitRoutes == GitRoute("route") \o GitRoute("vipRoute")

GitVsphereCloud ==
  GitCloud \o GitPool("mgmtPool") \o GitCloudNetwork \o GitPool("dataPool") \o GitVipPool
    \o GitProfiles \o GitNetworkUrl \o GitEngineGroups \o GitDhcp \o GitRoutes
    \o GitService("mgmt")

GitVcfCloud ==
  GitCloud \o GitNetworkUrl \o GitVipPool \o GitEngineGroups \o GitTier1 \o GitRoutes
    \o GitPool("mgmtPool") \o GitProfiles \o GitService("mgmt")

GitClusterCloud ==
  GitKubernetesOva \o GitLogin \o GitDefaultCloud
    \o IF OnVcf THEN GitVcfCloud ELSE GitVsphereCloud

-----------------------------------------------------------------------------
(* Clusters.                                                               *)

\* createResourceFolderAndWait
GitFolder(x) == Ensure(x)

\* deployManagementCluster: the cluster is not verified afterwards.
GitManagementCluster == Unless("mgmt", Deployed, Make("mgmt", "creating") \o Watch("mgmt"))

\* configTkgMgmt
GitConfigManagement ==
  GitFolder("mgmtFolder") \o GitLogin \o Find(IF OnVcf THEN "vipPool" ELSE "dataPool")
    \o GitManagementCluster

\* pre_check_mgmt, create_mgmt_cluster: a cluster that does not run counts as
\* not deployed.
GitManagement == Ask("mgmt", Deployed, GitClusterCloud \o GitConfigManagement)

\* switchToManagementContext
GitContext == Need("mgmt", Deployed)

\* akoDeploymentConfigSharedCluster, createAkoFile
GitAkoConfig ==
  GitContext \o Await("mgmtAko", Have) \o Remove("sharedAdc") \o GitLogin \o Find("vipPool")
    \o (IF OnVcf THEN GitTier1 ELSE Find("dataPool")) \o Set("sharedAdc")

\* deployCluster; isClusterRunning, for half an hour
GitCreate(c) == Make(c, "creating") \o Watch(c)
GitAwait(c) == Await(c, Deployed)

\* connect_to_workload
GitConnect(c) == Need(c, Reachable)

\* RaSharedClusterWorkflow.deploy
GitSharedTags ==
  GitContext \o Set("label") \o GitConnect("shared") \o Await("sharedAko", Have)
GitSharedCluster ==
  GitKubernetesOva \o GitFolder("sharedFolder") \o GitContext
    \o Unless("shared", Deployed, GitAkoConfig \o GitCreate("shared")) \o GitAwait("shared")
    \o GitSharedTags

\* pre_check_shrd
GitShared == Ask("shared", Deployed, GitSharedCluster)

\* getIPamDetails, updateIpamWithDataNetwork, updateIpam_profile
GitDataNetworkIpam == Find("ipam") \o Set("ipamWork")

\* createAkoFile of the workload: the file is applied only.
GitWorkAkoConfig ==
  GitContext \o Await("mgmtAko", Have) \o Find("vipPool") \o Set("workAdc")

\* networkConfig: without the engine group the call on VCF reads a variable that
\* was never set.
GitVcfWorkload ==
  Find("workGroup") \o GitVipPool \o GitRoute("route") \o GitWorkAkoConfig
    \o GitTier1 \o GitRoute("vipRoute") \o GitService("work")

GitVsphereWorkload ==
  GitNetworkUrl \o GitDataNetworkIpam \o GitWorkGroup \o GitPool("workPool")
    \o GitRoute("workRoute") \o GitWorkAkoConfig

GitWorkloadConfig ==
  GitKubernetesOva \o GitLogin \o Find("cloud")
    \o IF OnVcf THEN GitVcfWorkload ELSE GitVsphereWorkload

\* getNetworkFolder: the network of the workload must be there.
GitWorkFolder == IF OnVcf THEN Find("workSegment") ELSE <<>>

\* RaWorkloadClusterWorkflow.deploy: AKO is looked for in the context of the
\* management cluster.
GitWorkloadReady == GitContext \o Await("mgmtAko", Have) \o GitConnect("workload")
GitWorkloadCluster ==
  GitWorkloadConfig \o (IF OnVcf THEN GitWorkNetwork ELSE <<>>) \o GitFolder("workFolder")
    \o GitContext \o GitWorkFolder \o Unless("workload", Deployed, GitCreate("workload"))
    \o GitAwait("workload") \o GitWorkloadReady

\* pre_check_wrkld
GitWorkload == Ask("workload", Deployed, GitWorkloadCluster)

=============================================================================
