-------------------------- MODULE SupervisorPower --------------------------
(***************************************************************************)
(* Shutting a supervisor cluster down and bringing it up again: WCP, the     *)
(* service of vCenter that runs supervisors, is stopped first, and then the  *)
(* machines of the supervisor and of its guest clusters.  WCP starts them    *)
(* again when it is restarted (wcp_shutdown.py).                             *)
(***************************************************************************)
EXTENDS ExtensionsDeploy

\* check_wcp_cluster_status: without WCP vCenter knows of no supervisor.
WcpAnswers == Need("wcpDown", {"none"}) \o Need("super", Deployed)

\* kubectl vsphere login, the list of machines
WcpLogin == Need("super", Reachable)

\* stop_vc_svcname: WCP must not start with vCenter; then it is stopped.
StopWcp == Set("wcpManual") \o Set("wcpDown")

\* shutdown_sc_vm, on the host of the machine
ShutDown(x) == Unless(x, {"none", "broken", "off"}, Put(x, "off"))

\* wcp_shutdown
WcpShutdown ==
  WcpAnswers \o WcpLogin \o StopWcp \o ShutDown("super") \o ShutDown("workload")

\* restart_vc_svcname: how WCP starts with vCenter stays as it was left.
RestartWcp == Remove("wcpDown")

\* wcp_bringup: a supervisor that runs and is not ready ends the wait.
WcpBringup == RestartWcp \o Await("super", Deployed)

=============================================================================
