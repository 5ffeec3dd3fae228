---------------------------- MODULE CloudDeploy ----------------------------
(***************************************************************************)
(* What the management stage sets up in NSX ALB on vSphere and VCF: the      *)
(* cloud, its networks and address pools, IPAM and DNS profiles, engine      *)
(* groups, routes, and service engines (management_cluster_workflow.py,      *)
(* avi_infra_operations.py, avi_template_operations.py,                      *)
(* service_engine_utils.py).                                                *)
(***************************************************************************)
EXTENDS AlbDeploy

-----------------------------------------------------------------------------
(* Credentials of an NSX-T cloud.                                          *)

\* create_cloud_connect_user: of two missing credentials it makes both, one
\* after the other; having found one it indexes a string and fails.
Credentials ==
  Unless("vcCred", Have, Need("nsxCred", {"none"}) \o Set("vcCred") \o Set("nsxCred"))
    \o Find("nsxCred")

\* _get_cloud_connect_user, fetch_tier1_gateway_id
Tier1Gateway == Find("nsxCred")

\* fetch_segments_id: the management and the VIP segment must be there.
SegmentIds == Find("segments")

-----------------------------------------------------------------------------
(* Cloud and networks.                                                     *)

\* create_new_cloud, create_new_cloud_arch, create_nsxt_cloud
NewCloud == Set("cloud")
NsxtCloud == Credentials \o Tier1Gateway \o SegmentIds \o Credentials \o Set("cloud")

\* get_cloud_url
Cloud == Unless("cloud", Have, IF setup = "vcf" THEN NsxtCloud ELSE NewCloud)

\* get_network_url: the cloud discovers the networks of vCenter some time
\* after it was created.
NetworkUrl == Find("inventory")

\* update_network_with_ip_pools
IpPools(pool) == Set(pool)

\* get_network_details: a network with a subnet is configured.
NetworkPool(pool) == NetworkUrl \o Unless(pool, Have, IpPools(pool))

\* A manual cloud discovers nothing: get_vip_network, create_vip_network.
VipNetwork(pool) == Ensure(pool)

\* get_vip_pool
VipPool == NetworkPool("vipPool")

\* get_details_of_new_cloud, update_new_cloud: the network of the engines.
CloudNetwork == Set("cloudNet")

\* get_ipam, create_ipam, create_ipam_nsxt_cloud, create_ipam_arch
Ipam == Ensure("ipam")

\* get_details_of_new_cloud_add_ipam, update_ipam
CloudIpam == Set("cloudIpam")

\* create_dns_nsxt_cloud
DnsProfile == Ensure("dns")

\* enable_dhcp
EnableDhcp(x) == NetworkUrl \o Set(x)

\* get_vrf_and_next_route_id, add_static_route: the routes are read, and the
\* missing one is added.
StaticRoute(r) == Find("cloud") \o Ensure(r)

\* get_vrf_url
VrfRoutes == StaticRoute("route") \o StaticRoute("vipRoute")

\* wait_for_cloud_placement
CloudPlacement == Await("placement", Have)

-----------------------------------------------------------------------------
(* Engine groups.                                                          *)

\* configure_vcenter_in_nsxt_cloud
VcenterInCloud == Unless("vcenter", Have, Credentials \o Set("vcenter"))

\* get_se_cloud_url
ManagementGroup ==
  Unless("mgmtGroup", Have,
         (IF setup = "vcf" THEN VcenterInCloud ELSE <<>>) \o Set("mgmtGroup"))

\* get_SE_cloud_status, create_SE_cloud_arch
EngineGroup(g) == Ensure(g)

-----------------------------------------------------------------------------
(* A virtual service makes an orchestrated cloud start the engines of its   *)
(* group; it is removed as soon as they are there: create_virtual_service.  *)

FirstOf(g) == IF g = "mgmt" THEN "e1" ELSE "e3"
SecondOf(g) == IF g = "mgmt" THEN "e2" ELSE "e4"

\* The address and the service are looked up by name only.
ServiceAddress == Find("vipPool") \o Ensure("vsVip")
ServiceOf(g) == Unless("vs", {"mgmt", "work"}, Put("vs", g))

\* The first engine is listed within 45 minutes; an engine found connected at
\* the first poll counts as a failure, later ones do not.
FirstEngine(g) ==
  Await(FirstOf(g), Listed) \o Need(FirstOf(g), {"up"}) \o Await(FirstOf(g), {"connected"})

\* Both are deleted whatever the answers are.
RemoveService == Discard("vs") \o Discard("vsVip")

Service(g) ==
  Unless(SecondOf(g), Listed,
         ServiceAddress \o ServiceOf(g) \o FirstEngine(g) \o RemoveService)

-----------------------------------------------------------------------------
(* Engines of a manual cloud are imported and powered on one by one.       *)

\* generate_se_ova, download_se_ova: a file of that name is taken as it is.
EngineOva == Unless("seFile", {"partial", "there"}, Copy("seFile"))

\* push_se_ova_to_vcenter
EngineTemplate == Unless("seTemplate", Have, Find("seFile") \o Set("seTemplate"))


\* deploy_se_engines: the VM is looked up by name; one that is powered off never
\* gets an address.  The outcomes of the commands are not looked at: without a
\* whole image there is no address either.
DeployEngine(e) ==
  Unless(e, {"off"} \cup Powered, Find("seFile") \o Make(e, "off") \o Put(e, "on"))

\* Each has an address, and all the controller must list by now are listed:
\* get_details_of_service_engine, list_all_service_engine.
AllListed(es) ==
  IF es = {"e1", "e2"} THEN Await("e1", Listed) \o Await("e2", Listed)
  ELSE Await("e1", Listed) \o Await("e2", Listed) \o Await("e3", Listed) \o Await("e4", Listed)

\* change_se_group_and_set_interfaces
Regroup(m, n) == Set(m) \o Set(n)

\* get_connected_status
Connected(d, e) == Await(d, {"connected"}) \o Await(e, {"connected"})

\* controller_deployment: the last calls add routes to the VIP network and to
\* the data network.
DeployEngines(d, e, m, n, es, r) ==
  DeployEngine(d) \o Await(d, Powered) \o DeployEngine(e) \o Await(e, Powered)
    \o AllListed(es) \o Regroup(m, n) \o Connected(d, e)
    \o StaticRoute("vipRoute") \o StaticRoute(r)

ManagementEngines == DeployEngines("e1", "e2", "member1", "member2", {"e1", "e2"}, "route")
WorkloadEngines == DeployEngines("e3", "e4", "member3", "member4", Engines, "workRoute")

\* _create_workload_service_engines: the engines are there; they are put into
\* their group again.
WorkloadEnginesAgain ==
  Await("e3", Powered) \o Await("e4", Powered) \o AllListed(Engines)
    \o Find("workGroup") \o Regroup("member3", "member4")

-----------------------------------------------------------------------------
(* The three forms of configure_cluster_cloud.                             *)

\* configure_non_orchestrated_cloud
ManualCloud ==
  Ensure("templates") \o Cloud \o EngineGroup("mgmtGroup")
    \o VipNetwork("dataPool") \o VipNetwork("vipPool") \o Ipam \o CloudIpam
    \o EngineOva \o EngineGroup("workGroup") \o EngineTemplate \o ManagementEngines

\* configure_orchestrated_cloud, on vSphere
OrchestratedCloud ==
  Cloud \o NetworkPool("mgmtPool") \o CloudNetwork \o NetworkPool("dataPool")
    \o VipPool \o Ipam \o CloudIpam \o Find("inventory") \o ManagementGroup
    \o EngineGroup("workGroup") \o EnableDhcp("mgmtDhcp") \o StaticRoute("route")
    \o CloudPlacement \o Service("mgmt")

\* configure_orchestrated_cloud, on VCF
NsxtOrchestratedCloud ==
  Cloud \o NetworkUrl \o VipPool \o ManagementGroup \o EngineGroup("workGroup")
    \o Tier1Gateway \o VrfRoutes \o NetworkPool("mgmtPool") \o Ipam
    \o DnsProfile \o CloudIpam \o CloudPlacement \o Service("mgmt")

\* configure_cluster_cloud: of a fresh controller the default cloud comes up.
ClusterCloud ==
  Login \o Await("defaultCloud", Have)
    \o CASE setup = "orchestrated" -> OrchestratedCloud
         [] setup = "manual"       -> ManualCloud
         [] setup = "vcf"          -> NsxtOrchestratedCloud

=============================================================================
