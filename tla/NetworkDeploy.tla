--------------------------- MODULE NetworkDeploy ---------------------------
(***************************************************************************)
(* Segments, inventory groups, services and firewall rules on NSX-T: the    *)
(* environment configuration of VMC and VCF (nsxt_workflow.py).  Each       *)
(* function lists the objects of a kind and creates the missing ones.       *)
(***************************************************************************)
EXTENDS Provision

Segments == Ensure("segments")
Groups == Ensure("groups")
Services == Ensure("services")

\* _create_gateway_firewall_rules
GatewayRules == Ensure("rules")

\* execute_workflow
VmcNetwork == Segments \o Groups \o Services \o GatewayRules

\* The passes of VCF take the networks of one kind of cluster: the segments
\* and groups of the management stage again, and those of the workload.
VcfSegments(workload) ==
  (IF workload THEN Ensure("workSegment") ELSE <<>>) \o Ensure("segments")

VcfGroups(workload) ==
  (IF workload THEN Ensure("workNsxGroup") ELSE <<>>) \o Ensure("groups")

VcfServices == Ensure("services")
Policy == Ensure("policy")
VcfRules(workload) == Ensure(IF workload THEN "workRules" ELSE "rules")

\* execute_workflow_vcf
VcfNetwork(workload) ==
  VcfSegments(workload) \o VcfGroups(workload) \o VcfServices \o Policy \o VcfRules(workload)

=============================================================================
