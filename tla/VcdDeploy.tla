----------------------------- MODULE VcdDeploy -----------------------------
(***************************************************************************)
(* The Container Service Extension on VMware Cloud Director: NSX ALB and an  *)
(* NSX-T cloud of it are imported into Cloud Director, an organisation and   *)
(* its network are made, then the extension is uploaded, configured and      *)
(* started as a vApp.  The command line looks what there is, writes files    *)
(* that say what to make, and has Terraform apply them (cli.py, vcd/).       *)
(***************************************************************************)
EXTENDS SupervisorPower

-----------------------------------------------------------------------------
(* NSX ALB and Cloud Director: vcd_avi_configuration.                       *)

\* vars.tfvars.json says what is to be imported: it is there once the
\* controller was imported, and "yes" stands for import_cloud.
Vars == Need("importCloud", {"no", "yes"})
ImportCloud(s) == Put("importCloud", s)

\* upload_avi_cert: that it failed is answered with 200.
VcdCertificate == Try("vcdCert")

\* Cloud Director refuses a controller whose certificate it does not trust.
ImportAlb == Find("vcdCert") \o Set("vcdCtrl")

VcdAlb ==
  NsxAlb \o Unless("vcdCtrl", Have, VcdCertificate \o ImportCloud("no") \o ImportAlb)

-----------------------------------------------------------------------------
(* The cloud: nsx_cloud_creation, avi_cloud_configuration.                  *)

\* createNsxtSegment: a failure is only printed.
VcdSegment == Try("segments")

\* createCloudConnectUser: having found one credential it indexes a string.
VcdCredentials ==
  Unless("vcCred", Have, Need("nsxCred", {"none"}) \o Set("nsxCred") \o Set("vcCred"))
    \o Find("nsxCred")

\* createNsxtCloud
VcdNsxtCloud == VcdCredentials \o Find("segments") \o Set("cloud")

\* configureVcenterInNSXTCloud
VcdVcenter == Unless("vcenter", Have, VcdCredentials \o Set("vcenter"))

\* create_service_engine_group, createNsxtSECloud
VcdEngineGroup == Unless("mgmtGroup", Have, VcdVcenter \o Set("mgmtGroup"))

\* Whether the default cloud is ready makes no difference: after sixty polls
\* waitForCloudPlacementReady returns as if it were.
NsxCloud == Login \o Unless("cloud", Have, VcdSegment \o VcdNsxtCloud) \o VcdEngineGroup

\* The plan of nsx-alb-res: without import_cloud the cloud is not to be there.
ApplyAlb ==
  Unless("vcdCtrl", Have, ImportAlb)
    \o Unless("importCloud", {"no"}, Ensure("vcdCloud") \o Ensure("vcdSeg"))
    \o Unless("importCloud", {"yes"}, Remove("vcdSeg") \o Remove("vcdCloud"))

VcdCloud ==
  NsxCloud \o Find("cloud") \o Vars
    \o Unless("vcdCloud", {"none"}, ImportCloud("no"))
    \o Unless("vcdCloud", Have, ImportCloud("yes") \o ApplyAlb)

-----------------------------------------------------------------------------
(* The organisation: vcd_org_configuration.                                 *)

\* net.json says whether the network is to be made, as it was looked up; the
\* gateway counts as missing if it cannot be looked up.
CreateNet == Unless("orgNetwork", Have, Put("createNet", "yes"))
KeepNet == Unless("orgNetwork", {"none"}, Put("createNet", "no"))

\* The plan of networks: what net.json does not ask for is not to be there.  Cloud
\* Director does not remove a network that is in use.
ApplyNetworks ==
  Find("vcdSeg") \o Find("orgVdc") \o Ensure("edge")
    \o Unless("createNet", {"no"}, Ensure("orgNetwork"))
    \o Unless("createNet", {"yes"}, Need("vapp", {"none"}) \o Remove("orgNetwork"))

VcdOrg ==
  NsxCloud
    \o Unless("org", Have, Vars \o Set("org"))
    \o Unless("orgVdc", Have, Vars \o Find("org") \o Set("orgVdc"))
    \o Unless("vcdSeg", Have, Vars \o ApplyAlb)
    \o KeepNet \o CreateNet
    \o Ask("edge", Have, Vars \o ApplyNetworks)

-----------------------------------------------------------------------------
(* The extension: cse_server_configuration.                                 *)

\* create_files: the catalogs are made if there is no catalog at all.
Catalogs ==
  Unless("cseCatalog", Have,
         Unless("k8sCatalog", Have, Find("org") \o Set("cseCatalog") \o Set("k8sCatalog")))

\* A file of that name is taken as it is; find_file_in_catalog.
Upload(f, catalog) ==
  Unless(f, {"partial", "there"}, Copy(f))
    \o Find(catalog) \o Unless(Pushed(f), Have, Push(f))

\* upload_cse_ova_to_catalog, upload_kubernetes_ova_to_catalog
Uploads == Upload("cseFile", "cseCatalog") \o Upload("kubeFile", "k8sCatalog")

\* register_plugin_metadata, upload_cse_plugin
Plugin == Ensure("pluginMeta") \o Ensure("plugin")

\* create_interfaces_entities: the access to a type is granted by the request
\* that made the type, after both were made.
KeAccess == Find("org") \o Set("keAccess")
CapAccess == Find("org") \o Set("capAccess")
Entities ==
  Ensure("keInterface")
    \o Unless("keEntity", Have,
              Set("keEntity") \o Unless("capEntity", Have, Set("capEntity") \o KeAccess \o CapAccess))
    \o Unless("capEntity", Have, Set("capEntity") \o CapAccess)

\* configure_cse_plugin
CsePlugin == Plugin \o Entities

\* create_server_config_cse: a configuration that was found is not registered.
ServerConfig == Unless("keConfig", Have, Set("keConfig") \o Set("keRegistered"))

\* get_access_token_vapp: with the account that Terraform made.
AccessToken == Unless("token", Have, Find("cseUser") \o Set("token"))

Vapp == Find("cseTemplate") \o Find("orgNetwork") \o Set("vapp")

VcdExtension ==
  Catalogs \o Uploads \o CsePlugin \o Ensure("cseUser") \o ServerConfig \o AccessToken \o Vapp

=============================================================================
