------------------------- MODULE SupervisorDeploy -------------------------
(***************************************************************************)
(* Kubernetes on a supervisor cluster of vCenter, with NSX ALB as its load  *)
(* balancer: the default cloud, the supervisor, a namespace and a workload   *)
(* cluster in it (vsphere_tkgs_supervisor_config.py,                         *)
(* vsphere_tkgs_workload.py), and the same as tasks of a pipeline            *)
(* (ra_mgmt_cluster_workflow.py, ra_workload_cluster_workflow.py).           *)
(***************************************************************************)
EXTENDS GitopsDeploy

\* The supervisor, a namespace or a cluster is there, in whatever state.
Present == {"creating", "serving", "running", "broken", "off"}

-----------------------------------------------------------------------------
(* The default cloud: config_tkgs_cloud.                                    *)

\* getCloudStatus: the default cloud is given the address of vCenter, once.
TkgsCloud == Unless("cloud", Have, Find("defaultCloud") \o Set("cloud"))

\* getNetworkUrl, getClusterUrl: vCenter's inventory as the cloud found it.
TkgsNetworkUrl == Find("inventory")
TkgsClusterUrl == Find("inventory")

\* getNetworkDetails, updateNetworkWithIpPools
TkgsIpPools(pool) == Set(pool)
TkgsPool(pool) == TkgsNetworkUrl \o Unless(pool, Have, TkgsIpPools(pool))

\* getDetailsOfNewCloud, updateNewCloud
TkgsCloudNetwork == Set("cloudNet")

\* getVrfAndNextRoutId, addStaticRoute
TkgsRoute(r) == Find("cloud") \o Ensure(r)

\* getIpam, create_ipam
TkgsNewIpam == Set("ipam")
TkgsIpam == Unless("ipam", Have, TkgsNewIpam)

\* getDetailsOfNewCloudAddIpam, updateIpam
TkgsCloudIpam == Set("cloudIpam")

\* getSECloudStatus, updateSeEngineDetails
TkgsGroup == Set("mgmtGroup")

TkgsNetworks ==
  TkgsPool("mgmtPool") \o TkgsCloudNetwork \o TkgsRoute("route") \o TkgsPool("vipPool")

TkgsProfiles ==
  TkgsIpam \o TkgsCloudIpam \o TkgsClusterUrl \o TkgsGroup \o TkgsRoute("vipRoute")

\* config_wcp
TkgsConfig == Login \o TkgsCloud \o TkgsNetworks \o TkgsProfiles

-----------------------------------------------------------------------------
(* The supervisor: enable_wcp.                                             *)

\* create_subscribed_library
TkgsLibrary == Ensure("library")

\* get_library_id, getAviCertificate
TkgsLibraryId == Find("library")
TkgsCertificate == Find("cert")

\* enableWCP: a supervisor that is being made cannot be enabled again.  A refused
\* session is taken for success.
TkgsEnable == TkgsLibraryId \o TkgsCertificate \o Make("super", "creating")
TkgsSupervisor == Spare("super", Deployed, TkgsEnable \o Await("super", Deployed))

\* checkAndWaitForAllTheServiceEngineIsUp: the count of connected engines is
\* never reset, so that a connected engine stands for all of them after some
\* polls; and where none is listed all of none are connected.
TkgsEnginesUp == Await("e1", {"none", "connected"})

\* configure_kubectl
TkgsPlugin == Need("super", Reachable)

\* configureTkgConfiguration: whether the configuration was replaced is not
\* looked at.
TkgsConfiguration == TkgsPlugin \o Try("tkgConfig")

\* enable_wcp
TkgsEnableStage ==
  TkgsLibrary \o Login \o Need("c1", {"up"}) \o TkgsSupervisor \o TkgsEnginesUp
    \o TkgsPlugin \o TkgsConfiguration

-----------------------------------------------------------------------------
(* The namespace: create_name_space.                                       *)

\* checkWorkloadNetwork, create_workload_network
TkgsNewWorkNet == Set("workNet")
TkgsWorkNet == Need("super", Deployed) \o Unless("workNet", Have, TkgsNewWorkNet)

\* A namespace must run or be absent, and when it was made five minutes are
\* waited for it, in vain or not.  vCenter refusing a session is answered as
\* success.
TkgsNamespace ==
  Leave("super", {"none"} \cup Present)
    \o Unless("ns", Deployed,
              Need("ns", {"none"}) \o TkgsLibraryId \o TkgsWorkNet \o Make("ns", "creating"))

-----------------------------------------------------------------------------
(* The workload cluster: create_workload.                                  *)

\* get_cluster_end_point, configure_kubectl: without a supervisor there is none,
\* and the answer is success.
TkgsEndpoint == Leave("super", Present)
TkgsEndpointPlugin == Leave("super", Reachable)

\* check_cluster_status
TkgsReady == Await("ns", Deployed) \o Await("super", Deployed)

\* get_tkr_type and get_alias_name ask the supervisor, for both kinds of cluster.
TkgsImageOs == Need("super", Reachable)
TkgsAliases == Need("super", Reachable)

\* generate_yaml_file_v1beta1; generate_yaml_file, the other kind: no image.
TkgsClassYaml == TkgsImageOs \o TkgsAliases
TkgsYaml == TkgsClassYaml

\* kubectl apply
TkgsApply == TkgsYaml \o Make("workload", "creating")

\* create_tkg_workload_cluster: a cluster of that name, in whatever state, is
\* success; check_v1beta1_cluster_status finds no bad status where it finds none.
TkgsWorkload ==
  TkgsEndpoint \o TkgsEndpointPlugin \o TkgsReady
    \o Unless("workload", Present, TkgsApply \o Watch("workload"))

-----------------------------------------------------------------------------
(* The same in a pipeline.                                                 *)

\* configTkgsCloud, updateSeEngineDetails
GitTkgsCloud == Unless("cloud", Have, Find("defaultCloud") \o Set("cloud"))
GitTkgsGroup == GitNetworkUrl \o Set("mgmtGroup")
GitTkgsProfiles == GitIpam \o GitCloudIpam \o GitTkgsGroup \o GitRoute("vipRoute")
GitTkgsConfig ==
  GitLogin \o GitDefaultCloud \o GitTkgsCloud \o GitPool("mgmtPool") \o GitCloudNetwork
    \o GitRoute("route") \o GitPool("vipPool") \o GitTkgsProfiles

\* createSubscribedLibrary; getLibraryId, getAviCertificate
GitLibrary == Ensure("library")
GitLibraryId == Find("library")
GitSupervisorCert == Find("cert")

\* enableWCP
GitEnable == GitLibraryId \o GitSupervisorCert \o Make("super", "creating")
GitSupervisor == Unless("super", Deployed, GitEnable \o Await("super", Deployed))

\* checkAndWaitForAllTheServiceEngineIsUp, configureKubectl
GitEnginesUp == Await("e1", {"none", "connected"})
GitPlugin == Need("super", Reachable)

\* pre_check_enable_wcp: a supervisor that was enabled is left as it is.
GitEnableTask ==
  Ask("super", Present, GitLibrary \o GitLogin \o GitSupervisor \o GitEnginesUp \o GitPlugin)

\* checkWorkloadNetwork, create_workload_network
GitWorkNet == Need("super", Deployed) \o Ensure("workNet")

\* checkNameSpaceRunningStatus, createNameSpace
GitNamespace ==
  Leave("super", {"none"} \cup Present)
    \o Unless("ns", Deployed,
              Need("ns", {"none"}) \o GitLibraryId \o GitWorkNet \o Make("ns", "creating"))

\* checkClusterStatus; generateYamlFile asks for the aliases.
GitTkgsReady == Await("ns", Deployed) \o Await("super", Deployed)
GitTkgsYaml == Need("super", Reachable)
GitTkgsApply == GitTkgsYaml \o Make("workload", "creating")

\* createTkgWorkloadCluster
GitTkgsWorkload ==
  Leave("super", Present) \o Leave("super", Reachable) \o GitTkgsReady
    \o Unless("workload", Present, GitTkgsApply \o Await("workload", Deployed))

=============================================================================
