--------------------------- MODULE ClusterDeploy ---------------------------
(***************************************************************************)
(* The clusters on vSphere and VCF: the management cluster, the networks    *)
(* of the workload cluster, the shared and the workload cluster             *)
(* (management_cluster_workflow.py, vsphere_cluster_creation.py,             *)
(* tanzu_util.py, ako_config_utils.py).                                     *)
(***************************************************************************)
EXTENDS CloudDeploy

\* verifyPodsAreRunning: the line of the cluster in the listing says running.
Deployed == {"running"}

\* A cluster whose API answers can be connected to before it is running.
Reachable == {"serving", "running"}

\* create_folder, create_resource_folder_and_wait
Folder(x) == Ensure(x)

\* tanzu_util.switch_to_management_context, cluster list
OnManagement == Need("mgmt", Deployed)

\* vsphere_prepare_ako_config, vcf_prepare_ako_config: the mask of the VIP network,
\* and the gateway of an NSX-T cloud.  Nobody looks at the mask of the data network.
\* On VCF a missing VIP network is not an error, but no file is written to apply.
AkoNetworks == Find("vipPool") \o (IF setup = "vcf" THEN Tier1Gateway ELSE <<>>)

\* A mistake the checks must notice: the management cluster is not asked.
AkoConfigAnywhere(adc) == Remove(adc) \o AkoNetworks \o Set(adc)

\* ako_deployment_config_for_cluster: the configuration of an earlier attempt
\* is deleted, and made again.
AkoConfig(adc) == OnManagement \o Await("mgmtAko", Have) \o Remove(adc) \o AkoNetworks \o Set(adc)

-----------------------------------------------------------------------------
(* The management cluster.                                                 *)

\* A mistake the checks must notice: the cluster is not verified.
CreateManagementUnverified == Make("mgmt", "creating") \o Watch("mgmt")

\* deploy_cluster: it is verified once, a minute after the command ended.
CreateManagement ==
  Unless("mgmt", Deployed, Make("mgmt", "creating") \o Watch("mgmt") \o Need("mgmt", Deployed))

\* deploy_management_cluster: with the mask of the data network, on VCF of the VIP network.
ManagementCluster ==
  Unless("mgmt", Deployed,
         Find(IF setup = "vcf" THEN "vipPool" ELSE "dataPool") \o CreateManagement)

\* management_cluster_deploy_worklflow
ManagementStage ==
  KubernetesOva \o ClusterCloud \o Folder("mgmtFolder") \o ManagementCluster

-----------------------------------------------------------------------------
(* The workload networks: workload_preconfig.                              *)

\* get_ipam_details, update_ipam_with_data_network, update_ipam_profile
DataNetworkIpam == Find("ipam") \o Set("ipamWork")

\* create_orchostrated, which is for the manual cloud
ManualWorkload ==
  Login \o Find("cloud") \o VipNetwork("workPool") \o EngineGroup("workGroup")
    \o DataNetworkIpam \o WorkloadEngines \o AkoConfig("workAdc")

OrchestratedWorkload ==
  Login \o Find("cloud") \o Find("inventory") \o DataNetworkIpam
    \o EngineGroup("workGroup") \o NetworkPool("workPool") \o StaticRoute("workRoute")
    \o AkoConfig("workAdc")

\* Without the engine group the call reads a variable that VCF never sets.
\* The workload network is the VIP network.
NsxtWorkload ==
  Login \o Find("cloud") \o Find("workGroup") \o VipPool \o StaticRoute("route")
    \o AkoConfig("workAdc")
    \o StaticRoute("vipRoute") \o Tier1Gateway \o Service("work")

WorkloadPreconfig ==
  KubernetesOva
    \o CASE setup = "orchestrated" -> OrchestratedWorkload
         [] setup = "manual"       -> ManualWorkload
         [] setup = "vcf"          -> NsxtWorkload

-----------------------------------------------------------------------------
(* The guest clusters: create_cluster.                                     *)

\* deploy_multi_cloud_cluster
CreateGuest(c) == Make(c, "creating") \o Watch(c)

\* _wait_for_pods_running returns its exceptions instead of raising them: the
\* call waits and cannot fail, and no state depends on it.

\* The configuration of AKO for the shared cluster is applied before it is
\* created, and only then.
DeployGuest(c) ==
  Unless(c, Deployed,
         (IF c = "shared" THEN AkoConfig("sharedAdc") ELSE <<>>) \o CreateGuest(c))

\* _apply_k8s_lable_to_shared: the label goes onto the cluster's object.
Label(c) ==
  IF c = "shared"
  THEN Need(c, {"creating", "serving", "running", "broken"}) \o Set("label")
  ELSE <<>>

\* _connect_to_cluster
Connect(c) == Need(c, Reachable)

\* check_ako_pods_running
AkoRuns(ako) == Await(ako, Have)

\* _configure_wrkld_vcf_workflow
WorkloadNetwork == IF setup = "vcf" THEN VcfNetwork(TRUE) ELSE <<>>

\* enable_dhcp on the network of the workload cluster: all but VCF.  A manual cloud
\* knows only the networks it was given, of the workload the data network: unless the
\* file names one network for both, the stage fails.
WorkloadDhcp ==
  CASE setup = "vcf"          -> <<>>
    [] setup = "manual"       -> Find("oneNetwork") \o Find("workPool") \o Set("workDhcp")
    [] setup = "orchestrated" -> EnableDhcp("workDhcp")

\* _configure_workload_se_workflow
WorkloadEngineNetworks == IF setup = "manual" THEN Login \o WorkloadEnginesAgain ELSE <<>>

Guest(c, folder, ako) ==
  Folder(folder) \o OnManagement \o DeployGuest(c) \o OnManagement
    \o Label(c) \o Connect(c) \o AkoRuns(ako)

SharedStage == KubernetesOva \o Guest("shared", "sharedFolder", "sharedAko")

WorkloadStage ==
  KubernetesOva \o WorkloadNetwork \o WorkloadDhcp \o WorkloadEngineNetworks
    \o Guest("workload", "workFolder", "workAko")

=============================================================================
