-------------------------- MODULE ExtensionsDeploy --------------------------
(***************************************************************************)
(* Extensions: packages that the kapp-controller of a guest cluster         *)
(* installs.  The shared cluster gets Harbor at the end of its stage; the   *)
(* workload cluster gets Prometheus, Grafana and Fluent Bit in a stage of    *)
(* their own.  The command that installs a package is not looked at: what    *)
(* counts is whether the package is reconciled (extension_utils.py,          *)
(* deploy_ext.py, oneDot4_extensions.py, tkgs_extensions.py and, in a        *)
(* pipeline, ra_deploy_ext_workflow.py).                                     *)
(***************************************************************************)
EXTENDS SupervisorDeploy

\* A package is listed; it is reconciled, or could not be.
Installed == {"creating", "failed", "there"}
Settled == {"failed", "there"}

\* tanzu package install
Begin(p) == Unless(p, Installed, Put(p, "creating"))

\* Install p with its values unless it is reconciled, and wait until it is.
Package(p, values) == Unless(p, Have, values \o Begin(p) \o Await(p, Have))

\* What each guest cluster has of its own.
Kit ==
  [shared   |-> [repo |-> "sharedRepo", cert |-> "sharedCert", contour |-> "sharedContour",
                 ako |-> "sharedAko"],
   workload |-> [repo |-> "workRepo", cert |-> "workCert", contour |-> "workContour",
                 ako |-> "workAko"]]

-----------------------------------------------------------------------------
(* Both clusters: common_utilities.py, tanzu_util.py.                       *)

\* verify_cluster, get_management_cluster; switch_to_context
OnCluster(c) == Need(c, Deployed) \o OnManagement \o Need(c, Reachable)

\* check_repository_added: a repository that is listed is not waited for.
Repository(c) == Ensure(Kit[c].repo)

\* get_version_of_package
Version(c) == Need(Kit[c].repo, Have)

\* installExtensionFor14: contour only where AKO runs; on a supervisor AKO is
\* not looked for.
CertManager(c) == Package(Kit[c].cert, Version(c))
Contour(c) == Package(Kit[c].contour, Version(c))
InstallExtensions(c) ==
  CertManager(c) \o (IF setup \in Supervised THEN <<>> ELSE Need(Kit[c].ako, Have)) \o Contour(c)

\* installCertManagerAndContour
CertManagerAndContour(c) == OnCluster(c) \o Repository(c) \o InstallExtensions(c)

-----------------------------------------------------------------------------
(* The shared cluster: extension_utils.py, and VMC's own copy of it.        *)

\* install_harbor
Harbor ==
  Unless("harbor", Have,
         Await("sharedContour", Have) \o Await("sharedCert", Have)
           \o Version("shared") \o Begin("harbor") \o Await("harbor", Have))
VmcHarbor == Harbor

\* deploy_shared_extensions, deployExtensions
SharedExtensions == CertManagerAndContour("shared") \o Harbor
VmcSharedExtensions == CertManagerAndContour("shared") \o VmcHarbor

\* The extensions follow when the cluster was deployed, or ran already.
SharedServices == SharedStage \o SharedExtensions
VmcSharedServices == VmcShared \o VmcSharedExtensions

-----------------------------------------------------------------------------
(* The workload cluster: deploy_ext.py, oneDot4_extensions.py.              *)

\* generateYamlFile: the values come with the version in the repository.
Values == Version("workload")

\* monitoringDeployment
Monitoring(p) ==
  OnCluster("workload")
    \o (IF p = "prometheus" THEN CertManagerAndContour("workload") ELSE <<>>)
    \o Package(p, Values)

\* checkFluentBitInstalled: a package that could not be reconciled counts too.
FluentBitThere == Settled

\* deploy_fluent_bit: of a package that is reconciled by now the version is used,
\* though it was never set.
FluentBitPackage ==
  Need("fluent", {"none", "creating", "failed"}) \o Version("workload")
    \o Begin("fluent") \o Await("fluent", Have)

\* deploy_extension_fluent
FluentBit ==
  Repository("workload")
    \o Unless("fluent", FluentBitThere, OnCluster("workload") \o FluentBitPackage)

\* deploy_tkg_extensions
Extensions == Monitoring("prometheus") \o Monitoring("grafana") \o FluentBit

-----------------------------------------------------------------------------
(* The workload cluster on a supervisor: tkgs_extensions.py.                *)

\* isClusterRunning, connect_to_workload
TkgsOnCluster == Need("super", Reachable) \o Need("workload", Deployed)
TkgsConnect == Need("super", Reachable) \o Need("workload", Reachable)

\* createClusterRoleBinding, createPodSecurity
RoleBinding == Ensure("roleBinding")
PodSecurity == Ensure("psp")

\* kappConfiguration: the controller's pods must run.
Kapp == Unless("kapp", Have, PodSecurity \o Begin("kapp") \o Await("kapp", Have))

\* isRepoConfigured, configurePackagesRepository
TkgsRepository == Package("workRepo", <<>>)

\* tkgsExtensionsPrecheck
TkgsReadied == TkgsOnCluster \o TkgsConnect \o RoleBinding \o Kapp \o TkgsRepository

\* generateYamlFile, deploy_monitoring_extensions
TkgsValues == Version("workload")
TkgsMonitoring(p) == Package(p, TkgsValues)

\* deploy_extensions
TkgsFluentBit == Unless("fluent", FluentBitThere, FluentBitPackage)
TkgsPackages ==
  InstallExtensions("workload") \o TkgsMonitoring("prometheus") \o TkgsMonitoring("grafana")
    \o TkgsFluentBit

\* deploy_tkgs_extensions
TkgsExtensions == TkgsReadied \o TkgsPackages

-----------------------------------------------------------------------------
(* The same in a pipeline: its task ignores the outcome of them all.         *)

\* verifyCluster; switchToContext
GitOnCluster == Need("workload", Deployed) \o GitContext \o GitConnect("workload")

\* checkRepositoryAdded
GitRepository == Ensure("workRepo")

\* getVersionOfPackage, generateYamlFile
GitVersion == Need("workRepo", Have)
GitValues == GitVersion

\* installExtentionFor14, which does not look for AKO; installCertManagerAndContour
GitInstallExtensions == Package("workCert", GitVersion) \o Package("workContour", GitVersion)
GitCertManagerAndContour ==
  Need("workload", Deployed) \o GitContext \o GitConnect("workload") \o GitRepository
    \o GitInstallExtensions

\* monitoringDeployment
GitMonitoring(p) ==
  GitOnCluster \o (IF p = "prometheus" THEN GitCertManagerAndContour ELSE <<>>)
    \o Package(p, GitValues)

\* checkFluentBitInstalled, deploy_fluent_bit
GitFluentBitThere == Settled
GitFluentBitPackage == GitVersion \o Begin("fluent") \o Await("fluent", Have)

\* deploy_extension_fluent
GitFluentBit ==
  GitRepository \o Unless("fluent", GitFluentBitThere, GitOnCluster \o GitFluentBitPackage)

\* deploy_tkg_extensions
GitExtensions == GitFluentBit \o GitMonitoring("prometheus") \o GitMonitoring("grafana")

\* isClusterRunning; connect_to_workload
GitTkgsOnCluster == Need("super", Reachable) \o Need("workload", Deployed)
GitTkgsConnect == Need("super", Reachable) \o Need("workload", Reachable)

\* createClusterRoleBinding, createPodSecurity, kappConfiguration
GitRoleBinding == Ensure("roleBinding")
GitPodSecurity == Ensure("psp")
GitKapp == Unless("kapp", Have, GitPodSecurity \o Begin("kapp") \o Await("kapp", Have))

\* configurePackagesRepository
GitTkgsRepository == Package("workRepo", <<>>)

\* tkgsExtensionsPrecheck
GitTkgsReadied ==
  GitTkgsOnCluster \o GitTkgsConnect \o GitRoleBinding \o GitKapp \o GitTkgsRepository

\* installHarborTkgs: the images of a package that could not be reconciled are
\* patched; by the next run it counts as installed.
GitOverlay == Set("overlay")
GitHarbor ==
  Unless("harbor", Settled,
         Await("workContour", Have) \o Await("workCert", Have) \o GitVersion
           \o Begin("harbor") \o Await("harbor", Settled) \o Unless("harbor", Have, GitOverlay)
           \o Await("harbor", Have))

\* generateYamlFile, deploy_monitoring_extentions, deploy_extensions
GitTkgsValues == GitVersion
GitTkgsMonitoring(p) == Package(p, GitTkgsValues)
GitTkgsPackages ==
  GitInstallExtensions \o GitHarbor \o GitTkgsMonitoring("prometheus")
    \o GitTkgsMonitoring("grafana")
    \o Unless("fluent", GitFluentBitThere, GitFluentBitPackage)

\* deploy_tkgs_extensions
GitTkgsExtensions == GitPlugin \o GitTkgsReadied \o GitTkgsPackages

=============================================================================
