----------------------------- MODULE MCTeardown -----------------------------
(* Small instances of Teardown.                                            *)
EXTENDS Teardown, TLC

CONSTANTS t1, t2

Asking(options) == [option: options, retain: {FALSE}]

Everything == Asking(Options)
WithClusters == [option: {"all", "mgmt", "workload"}, retain: BOOLEAN]
AllOnly == Asking({"all"})

Vmware == {"govc", "inventory", "mgmtDelete", "nsx"}

OneDelete == {"delete"}
None == {}

ThreadSymmetry == Permutations({t1, t2})
=============================================================================
