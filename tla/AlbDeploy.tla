----------------------------- MODULE AlbDeploy -----------------------------
(***************************************************************************)
(* The controllers of NSX ALB on vSphere and VCF (nsx_alb_workflow.py):     *)
(* import and power on the VMs, configure the first, join the three to a    *)
(* cluster, replace the certificate.                                        *)
(***************************************************************************)
EXTENDS NetworkDeploy

AlbPool == Ensure("albPool")

-----------------------------------------------------------------------------
(* The first configuration of a controller: _configure_avi.                *)

\* obtain_first_csrf logs in with the factory password; if that is refused
\* the password was set before.
Password == Ensure("password")

\* The system configuration is fetched, changed on disk and put back.
Settings == Set("settings")

WelcomeScreen == Set("welcome")
BackupPhrase == Set("phrase")

Configure == Password \o Settings \o WelcomeScreen \o BackupPhrase

-----------------------------------------------------------------------------
(* The controllers.                                                        *)

\* _deploy_avi_controller: the network of the VM must be there as well.
ImportController(c) ==
  Find("aviOva") \o (IF setup = "vcf" THEN Find("segments") ELSE <<>>)
    \o Make(c, "off") \o Put(c, "on")

\* A controller that is powered off has no address, as if it were absent, and
\* the import of its name fails; one that has an address must be up.
Controller(c) ==
  Unless(c, {"up"}, Need(c, {"none", "off"}) \o ImportController(c) \o Await(c, {"up"}))

\* get_alb_details_dict: only the first is configured.
EachController ==
  Controller("c1") \o Configure
    \o (IF HA THEN Controller("c2") \o Controller("c3") ELSE <<>>)

\* The nodes are compared with the list of the cluster; if they are in it the
\* state they run in is not asked for.
FormCluster == Put("ha", "joined") \o Await("ha", {"active"})
JoinControllers ==
  IF HA THEN Unless("ha", {"joined", "active"}, FormCluster) ELSE <<>>

\* Requests go to the address of the cluster, if there is one.
Login == IF HA THEN Need("ha", {"joined", "active"}) ELSE Need("c1", {"up"})

-----------------------------------------------------------------------------
(* The certificate: manage_avi_certificates.                               *)

Certificate == Ensure("cert")

\* _get_current_cert_config, _replace_with_new_cert
ReplaceCertificate == Set("portal")

\* nsx_alb_deploy_workflow
NsxAlb ==
  ControllerOva \o AlbPool \o EachController \o JoinControllers
    \o Certificate \o ReplaceCertificate

=============================================================================
