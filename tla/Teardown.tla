------------------------------ MODULE Teardown ------------------------------
(***************************************************************************)
(* The cleanup of a TKGm deployment: POST /api/tanzu/cleanup-env.  Every   *)
(* request runs a sequence of steps against vCenter, the clusters, NSX ALB *)
(* and NSX-T, none of which is undone when a later one fails; requests run *)
(* in the worker threads of one server and share nothing but the           *)
(* environment they take apart.                                            *)
(***************************************************************************)
EXTENDS Naturals, Sequences

CONSTANTS
  Threads,     \* worker threads that serve a cleanup request
  Asks,        \* the requests an operator may make
  Env,         \* "vsphere", "vcf" or "vmc"
  NamedSes,    \* the service engines have fixed names: VMC, or non-orchestrated
  Flaky,       \* the external commands that may fail
  CanCrash,    \* the server process may end and be started again
  MaxPolls     \* polls of a wait loop: 360 in the code

Clusters == {"mgmt", "shared", "workload"}
Guests == {"shared", "workload"}

Options == {"all", "mgmt", "shared", "workload", "avi", "nsx"}

Ask == [option: Options, retain: BOOLEAN]
NoAsk == [option |-> "none", retain |-> FALSE]

Commands ==
  {"session", "list", "get", "delete", "stall", "mgmtDelete", "inventory",
   "govc", "vcenter", "library", "config", "nsx"}

ASSUME SetupAssumption ==
  /\ Asks \subseteq Ask
  /\ Env \in {"vsphere", "vcf", "vmc"}
  /\ NamedSes \in BOOLEAN /\ (Env = "vmc" => NamedSes)
  /\ Flaky \subseteq Commands
  /\ CanCrash \in BOOLEAN
  /\ MaxPolls \in Nat \ {0}

VARIABLES
  cluster, \* the state of a cluster, as `tanzu cluster list' words it
  estate,  \* the VMs and NSX objects that are still there
  ask,     \* the request a thread serves or served last
  reply,   \* "none", "pending", "200" or "500"
  todo,    \* the steps a request has yet to make, the current one first
  stage,   \* how far the current step has come
  polls,   \* polls made by the current wait loop
  found,   \* the VMs collected for removal
  uuid     \* the request knows the uuid of the controller

request == <<ask, reply>>
work == <<todo, stage, polls, found, uuid>>
vars == <<cluster, estate, request, work>>

-----------------------------------------------------------------------------
(* What there is to take apart.                                            *)

Vms ==
  {"controller1", "controller2", "seMgmt", "seWork"}
    \cup (IF Env = "vmc" THEN {"seTemplate"} ELSE {})

\* The NSX objects in the order they are deleted.
NsxOrder ==
  CASE Env = "vcf" -> <<"policy", "groups", "services", "segments">>
    [] Env = "vmc" -> <<"cgwRules", "mgwRules", "services", "mgwGroups",
                        "cgwGroups", "segments">>
    [] OTHER       -> <<>>

NsxPieces ==
  {"policy", "groups", "services", "segments", "cgwRules", "mgwRules",
   "mgwGroups", "cgwGroups"}

NsxObjects == {NsxOrder[i] : i \in 1..Len(NsxOrder)}

Vm(v) == <<"vm", v>>
Nsx(p) == <<"nsx", p>>

Present(v) == Vm(v) \in estate
Found(v) == IF Present(v) THEN <<v>> ELSE <<>>

\* A mistake the checks must notice: the first controller goes first.
ControllersInOrder == Found("controller1") \o Found("controller2")

Controllers == Found("controller2") \o Found("controller1")

Engines(type) ==
  CASE type = "mgmt"     -> Found("seMgmt")
    [] type = "workload" -> Found("seWork")
    [] type = "all"      -> Found("seMgmt") \o Found("seWork")

\* Pools, folders, kubectl contexts, TMC registrations, libraries, OVAs and
\* local files are left out: the steps on them matter to a request only in
\* that they can fail it.
Estate == {Vm(v) : v \in Vms} \cup {Nsx(p) : p \in NsxObjects}

-----------------------------------------------------------------------------
(* A request as a sequence of steps.                                       *)

Step(op, arg) == [op |-> op, arg |-> arg]
Do(op) == Step(op, "-")
ForEach(op, args) == [i \in 1..Len(args) |-> Step(op, args[i])]

Steps ==
  [op: {"session", "uuid", "probe", "fetchAlb", "refuseAlb", "destroy",
        "contexts", "pools", "folders", "library", "ova", "templates", "config"},
   arg: {"-"}]
    \cup [op: {"remove", "refuse"}, arg: Clusters]
    \cup [op: {"unregister"}, arg: {"mgmt", "guests"}]
    \cup [op: {"fetchSe"}, arg: {"mgmt", "workload", "all"}]
    \cup [op: {"nsx"}, arg: NsxPieces]

\* tkgm_cleanup, then delete_common_comp.
AllSteps ==
  << Do("session"), Do("probe"), Do("contexts"), Step("unregister", "guests"),
     Step("unregister", "mgmt"), Do("uuid"), Do("fetchAlb"),
     Step("fetchSe", "all"), Do("destroy"), Do("pools"), Do("library"),
     Do("ova"), Do("folders"), Do("templates"), Do("config") >>
    \o ForEach("nsx", NsxOrder)

MgmtSteps ==
  << Do("session"), Do("uuid"), Do("probe"), Do("contexts"),
     Step("unregister", "mgmt"), Step("fetchSe", "mgmt"), Do("destroy"),
     Do("pools"), Do("folders"), Do("ova"), Do("templates"), Do("config") >>

AviSteps ==
  << Do("session"), Do("probe"), Do("fetchAlb"), Do("destroy"), Do("pools"),
     Do("folders"), Do("library"), Do("ova") >>

\* cluster_cleanup
GuestSteps(c) ==
  << Do("session"), Step("remove", c), Step("unregister", "guests"),
     Do("pools"), Do("folders") >>

NsxSteps ==
  <<Do("session"), Do("fetchAlb"), Do("refuseAlb")>> \o ForEach("nsx", NsxOrder)

StepsOf(option) ==
  CASE option = "all"      -> AllSteps
    [] option = "mgmt"     -> MgmtSteps
    [] option = "shared"   -> GuestSteps("shared")
    [] option = "workload" ->
         GuestSteps("workload") \o <<Step("fetchSe", "workload"), Do("destroy")>>
    [] option = "avi"      -> AviSteps
    [] option = "nsx"      -> NsxSteps

\* A mistake the checks must notice: only one of the clusters is looked for.
OnManagementOneGuest(option) ==
  CASE option = "all"  -> ForEach("remove", <<"shared", "workload", "mgmt">>)
    [] option = "mgmt" -> <<Step("refuse", "workload"), Step("remove", "mgmt")>>
    [] OTHER           -> <<>>

\* What a request does first when it sees the management cluster.
OnManagement(option) ==
  CASE option = "all"  -> ForEach("remove", <<"shared", "workload", "mgmt">>)
    [] option = "mgmt" -> <<Step("refuse", "workload"), Step("refuse", "shared"),
                            Step("remove", "mgmt")>>
    [] OTHER           -> <<>>

-----------------------------------------------------------------------------
(* What the commands show.                                                 *)

Busy(t) == reply[t] = "pending"
At(t, op) == Busy(t) /\ todo[t] # <<>> /\ Head(todo[t]).op = op
Arg(t) == Head(todo[t]).arg
Fails(command) == command \in Flaky

\* A failed command reads like an absent object.
OrMissed(shown, command) == {shown} \cup (IF Fails(command) THEN {FALSE} ELSE {})

\* management_exists
Management == OrMissed(cluster["mgmt"] # "absent", "get")

\* `tanzu cluster list' is answered by the management cluster.
CanList == cluster["mgmt"] # "absent"

Exists(c) == CanList /\ cluster[c] # "absent"

\* getCluster
Listed(c) == OrMissed(Exists(c), "list")

\* The line of the cluster holds "deleting" or "running".
Alive(c) == CanList /\ cluster[c] \in {"running", "deleting"}

-----------------------------------------------------------------------------
(* The progress of a request.                                              *)

Collected == UNCHANGED <<found, uuid>>

Proceed(t, steps) ==
  /\ todo' = [todo EXCEPT ![t] = steps]
  /\ stage' = [stage EXCEPT ![t] = "ready"]
  /\ polls' = [polls EXCEPT ![t] = 0]
  /\ UNCHANGED request

Advance(t) == Proceed(t, Tail(todo[t]))

Within(t, place) ==
  /\ stage' = [stage EXCEPT ![t] = place]
  /\ UNCHANGED <<request, todo, polls, found, uuid>>

\* A mistake the checks must notice: the count starts over before its bound.
AgainOverAndOver(t) ==
  /\ polls' = [polls EXCEPT ![t] = (@ + 1) % MaxPolls]
  /\ stage' = [stage EXCEPT ![t] = "waiting"]
  /\ UNCHANGED <<request, todo, found, uuid>>

Again(t) ==
  /\ polls' = [polls EXCEPT ![t] = @ + 1]
  /\ stage' = [stage EXCEPT ![t] = "waiting"]
  /\ UNCHANGED <<request, todo, found, uuid>>

Answer(t, code) ==
  /\ reply' = [reply EXCEPT ![t] = code]
  /\ todo' = [todo EXCEPT ![t] = <<>>]
  /\ stage' = [stage EXCEPT ![t] = "ready"]
  /\ polls' = [polls EXCEPT ![t] = 0]
  /\ found' = [found EXCEPT ![t] = <<>>]
  /\ uuid' = [uuid EXCEPT ![t] = FALSE]
  /\ UNCHANGED ask

Begin(t) ==
  /\ ~Busy(t)
  /\ \E a \in Asks :
       /\ ask' = [ask EXCEPT ![t] = a]
       /\ todo' = [todo EXCEPT ![t] = StepsOf(a.option)]
  /\ reply' = [reply EXCEPT ![t] = "pending"]
  /\ UNCHANGED <<cluster, estate, stage, polls, found, uuid>>

\* envCheck, the vCenter details and the govc session.
Session(t) ==
  /\ At(t, "session")
  /\ \/ Advance(t) /\ Collected
     \/ Fails("session") /\ Answer(t, "500")
  /\ UNCHANGED <<cluster, estate>>

Finish(t) ==
  /\ Busy(t) /\ todo[t] = <<>>
  /\ Answer(t, "200")
  /\ UNCHANGED <<cluster, estate>>

-----------------------------------------------------------------------------
(* Clusters.                                                               *)

\* A mistake the checks must notice: the load balancer is removed under a
\* running management cluster.
ProbeUnrefused(t) ==
  /\ At(t, "probe")
  /\ \E seen \in Management :
       /\ Proceed(t, (IF seen THEN OnManagement(ask[t].option) ELSE <<>>)
                       \o Tail(todo[t]))
       /\ Collected
  /\ UNCHANGED <<cluster, estate>>

Probe(t) ==
  /\ At(t, "probe")
  /\ \E seen \in Management :
       IF seen /\ ask[t].option = "avi" THEN Answer(t, "500")
       ELSE /\ Proceed(t, (IF seen THEN OnManagement(ask[t].option) ELSE <<>>)
                            \o Tail(todo[t]))
            /\ Collected
  /\ UNCHANGED <<cluster, estate>>

\* "There are existing workload clusters running": mgmt_cluster_cleanup.
Refuse(t) ==
  /\ At(t, "refuse")
  /\ \E seen \in Listed(Arg(t)) :
       IF seen THEN Answer(t, "500") ELSE Advance(t) /\ Collected
  /\ UNCHANGED <<cluster, estate>>

Removing(t, c, place) == At(t, "remove") /\ Arg(t) = c /\ stage[t] = place

\* delete_cluster came out true; cluster_cleanup then drops the context.
Removed(t) ==
  /\ Proceed(t, (IF ask[t].option = Arg(t) THEN <<Do("contexts")>> ELSE <<>>)
                   \o Tail(todo[t]))
  /\ Collected

FindCluster(t) ==
  /\ \E c \in Guests :
       /\ Removing(t, c, "ready")
       /\ \E seen \in Listed(c) :
            IF seen THEN Within(t, "listed") ELSE Advance(t) /\ Collected
  /\ UNCHANGED <<cluster, estate>>

\* The failure branch returns the pair (response, 500), which is true.
DeleteCluster(t) ==
  /\ \E c \in Guests :
       /\ Removing(t, c, "listed")
       /\ \/ /\ Exists(c)
             /\ cluster' = [cluster EXCEPT ![c] = "deleting"]
             /\ Within(t, "issued")
          \/ /\ Fails("delete") \/ ~Exists(c)
             /\ Removed(t)
             /\ UNCHANGED cluster
  /\ UNCHANGED estate

\* The first listing must succeed; a later one that fails shows no cluster.
FirstPoll(t) ==
  /\ \E c \in Guests :
       /\ Removing(t, c, "issued")
       /\ \/ /\ ~CanList \/ Fails("list")
             /\ Answer(t, "500")
          \/ /\ CanList
             /\ IF Alive(c) THEN Again(t) ELSE Removed(t)
  /\ UNCHANGED <<cluster, estate>>

\* A mistake the checks must notice: one poll too many.
PollOnceMore(t) ==
  /\ \E c \in Guests :
       /\ Removing(t, c, "waiting")
       /\ IF polls[t] > MaxPolls THEN Answer(t, "500")
          ELSE \E shown \in OrMissed(Alive(c), "list") :
                 IF shown THEN Again(t) ELSE Removed(t)
  /\ UNCHANGED <<cluster, estate>>

Poll(t) ==
  /\ \E c \in Guests :
       /\ Removing(t, c, "waiting")
       /\ IF polls[t] = MaxPolls THEN Answer(t, "500")
          ELSE \E shown \in OrMissed(Alive(c), "list") :
                 IF shown THEN Again(t) ELSE Removed(t)
  /\ UNCHANGED <<cluster, estate>>

\* runProcess raises when the command has failed and poll() already knows.
StartMgmtDelete(t) ==
  /\ Removing(t, "mgmt", "ready")
  /\ IF cluster["mgmt"] # "absent"
     THEN /\ cluster' = [cluster EXCEPT !["mgmt"] = "deleting"]
          /\ Within(t, "running")
     ELSE /\ Answer(t, "500") \/ Within(t, "waiting")
          /\ UNCHANGED cluster
  /\ UNCHANGED estate

EndMgmtDelete(t) ==
  /\ Removing(t, "mgmt", "running")
  /\ \/ /\ cluster' = [cluster EXCEPT !["mgmt"] = "absent"]
        /\ Within(t, "waiting")
     \/ /\ Fails("mgmtDelete")
        /\ Answer(t, "500") \/ Within(t, "waiting")
        /\ UNCHANGED cluster
  /\ UNCHANGED estate

PollMgmt(t) ==
  /\ Removing(t, "mgmt", "waiting")
  /\ IF polls[t] = MaxPolls THEN Answer(t, "500")
     ELSE \E seen \in Management :
            IF seen THEN Again(t) ELSE Advance(t) /\ Collected
  /\ UNCHANGED <<cluster, estate>>

-----------------------------------------------------------------------------
(* VMs, in the order they were collected.                                  *)

Uuid(t) ==
  /\ At(t, "uuid")
  /\ \/ /\ uuid' = [uuid EXCEPT ![t] = Env = "vmc" /\ Present("controller1")]
        /\ Advance(t) /\ UNCHANGED found
     \/ Fails("vcenter") /\ Answer(t, "500")
  /\ UNCHANGED <<cluster, estate>>

\* fetch_avi_vms: without the first controller the others do not count.
FetchAlb(t) ==
  /\ At(t, "fetchAlb")
  /\ \/ /\ found' = [found EXCEPT ![t] =
                       IF Present("controller1") THEN Controllers ELSE <<>>]
        /\ Advance(t) /\ UNCHANGED uuid
     \/ Fails("govc") /\ Answer(t, "500")
  /\ UNCHANGED <<cluster, estate>>

RefuseAlb(t) ==
  /\ At(t, "refuseAlb")
  /\ IF found[t] # <<>> THEN Answer(t, "500") ELSE Advance(t) /\ Collected
  /\ UNCHANGED <<cluster, estate>>

\* Engines with fixed names are looked up in vCenter, the others in the
\* inventory of the first controller, if it can be asked.
SesSeen(type) ==
  IF NamedSes THEN {Engines(type)}
  ELSE {IF Present("controller1") THEN Engines(type) ELSE <<>>}
         \cup (IF Fails("inventory") THEN {<<>>} ELSE {})

FetchSe(t) ==
  /\ At(t, "fetchSe")
  /\ \/ /\ \E ses \in SesSeen(Arg(t)) : found' = [found EXCEPT ![t] = @ \o ses]
        /\ Advance(t) /\ UNCHANGED uuid
     \/ Fails("inventory") /\ Answer(t, "500")
  /\ UNCHANGED <<cluster, estate>>

\* cleanup_avi_vms; a VM that is gone has no path and raises.
DestroyVm(t) ==
  /\ At(t, "destroy") /\ found[t] # <<>>
  /\ \/ /\ Present(Head(found[t]))
        /\ estate' = estate \ {Vm(Head(found[t]))}
        /\ found' = [found EXCEPT ![t] = Tail(@)]
        /\ UNCHANGED <<request, todo, stage, polls, uuid>>
     \/ /\ ~Present(Head(found[t])) \/ Fails("govc")
        /\ Answer(t, "500")
        /\ UNCHANGED estate
  /\ UNCHANGED cluster

VmsDestroyed(t) ==
  /\ At(t, "destroy") /\ found[t] = <<>>
  /\ Advance(t) /\ Collected
  /\ UNCHANGED <<cluster, estate>>

-----------------------------------------------------------------------------
(* Everything else.                                                        *)

\* A step that removes `gone', or leaves it in place, or fails the request.
Tidy(t, op, gone, mayLeave, mayFail) ==
  /\ At(t, op)
  /\ \/ Advance(t) /\ Collected /\ estate' = estate \ gone
     \/ mayLeave /\ Advance(t) /\ Collected /\ UNCHANGED estate
     \/ mayFail /\ Answer(t, "500") /\ UNCHANGED estate
  /\ UNCHANGED cluster

Retain(t) == ask[t].retain

\* kubectl_configs_cleanup goes on whatever a command comes to.
Contexts(t) == Tidy(t, "contexts", {}, FALSE, FALSE)

\* delete_tmc_cluster: a failure is a warning.
Unregister(t) == Tidy(t, "unregister", {}, FALSE, FALSE)

Pools(t) == Tidy(t, "pools", {}, FALSE, Fails("govc"))

Folders(t) == Tidy(t, "folders", {}, FALSE, Fails("vcenter"))

Library(t) == Tidy(t, "library", {}, FALSE, Fails("library") /\ ~Retain(t))

Ova(t) == Tidy(t, "ova", {}, FALSE, FALSE)

\* The template of the engines is found by the uuid of the controller.
Templates(t) ==
  Tidy(t, "templates",
       IF uuid[t] /\ ~Retain(t) THEN {Vm("seTemplate")} ELSE {},
       FALSE, Fails("vcenter") /\ ~Retain(t))

Config(t) == Tidy(t, "config", {}, FALSE, Fails("config"))

\* delete_vcf_components, delete_vmc_components: the outcome of the
\* management gateway's rules is not looked at.
NsxPiece(t) ==
  Tidy(t, "nsx", {Nsx(Arg(t))}, Fails("nsx") /\ Arg(t) = "mgwRules",
       Fails("nsx") /\ Arg(t) # "mgwRules")

Serve(t) ==
  \/ Session(t) \/ Probe(t) \/ Refuse(t) \/ FindCluster(t) \/ DeleteCluster(t)
  \/ FirstPoll(t) \/ Poll(t) \/ StartMgmtDelete(t) \/ EndMgmtDelete(t)
  \/ PollMgmt(t) \/ Uuid(t) \/ FetchAlb(t) \/ RefuseAlb(t) \/ FetchSe(t)
  \/ DestroyVm(t) \/ VmsDestroyed(t) \/ Contexts(t) \/ Unregister(t)
  \/ Pools(t) \/ Folders(t) \/ Library(t) \/ Ova(t) \/ Templates(t) \/ Config(t)
  \/ NsxPiece(t) \/ Finish(t)

-----------------------------------------------------------------------------
(* The environment.                                                        *)

ClusterGone(c) ==
  /\ CanList /\ cluster[c] = "deleting"
  /\ cluster' = [cluster EXCEPT ![c] = "absent"]
  /\ UNCHANGED <<estate, request, work>>

\* The deletion ends in a state that is neither "deleting" nor "running".
ClusterStalls(c) ==
  /\ Fails("stall") /\ CanList /\ cluster[c] = "deleting"
  /\ cluster' = [cluster EXCEPT ![c] = "failed"]
  /\ UNCHANGED <<estate, request, work>>

\* The server ends with every request it serves.
Crash ==
  /\ CanCrash /\ \E t \in Threads : Busy(t)
  /\ reply' = [t \in Threads |-> IF Busy(t) THEN "none" ELSE reply[t]]
  /\ todo' = [t \in Threads |-> <<>>]
  /\ stage' = [t \in Threads |-> "ready"]
  /\ polls' = [t \in Threads |-> 0]
  /\ found' = [t \in Threads |-> <<>>]
  /\ uuid' = [t \in Threads |-> FALSE]
  /\ UNCHANGED <<cluster, estate, ask>>

\* A deployment that went as far as the management cluster or further.
Init ==
  /\ cluster \in {[c \in Clusters |-> IF c \in up THEN "running" ELSE "absent"] :
                    up \in {u \in SUBSET Clusters : u # {} => "mgmt" \in u}}
  /\ estate = Estate
  /\ ask = [t \in Threads |-> NoAsk]
  /\ reply = [t \in Threads |-> "none"]
  /\ todo = [t \in Threads |-> <<>>]
  /\ stage = [t \in Threads |-> "ready"]
  /\ polls = [t \in Threads |-> 0]
  /\ found = [t \in Threads |-> <<>>]
  /\ uuid = [t \in Threads |-> FALSE]

Next ==
  \/ \E t \in Threads : Begin(t) \/ Serve(t)
  \/ \E c \in Guests : ClusterGone(c) \/ ClusterStalls(c)
  \/ Crash

Spec == Init /\ [][Next]_vars

\* Worker threads run and every command ends; nobody has to ask for anything.
FairSpec == Spec /\ \A t \in Threads : WF_vars(Serve(t))

-----------------------------------------------------------------------------
(* Properties.                                                             *)

\* Types; a wait loop never polls more often than its bound.
TypeOK ==
  /\ cluster \in [Clusters -> {"running", "deleting", "failed", "absent"}]
  /\ estate \subseteq Estate
  /\ ask \in [Threads -> Ask \cup {NoAsk}]
  /\ reply \in [Threads -> {"none", "pending", "200", "500"}]
  /\ todo \in [Threads -> Seq(Steps)]
  /\ stage \in [Threads -> {"ready", "listed", "issued", "waiting", "running"}]
  /\ polls \in [Threads -> 0..MaxPolls]
  /\ found \in [Threads -> Seq(Vms)]
  /\ uuid \in [Threads -> BOOLEAN]

\* The management cluster is not touched while it manages another cluster:
\* tkgm_cleanup removes the others first, mgmt_cluster_cleanup refuses.
MgmtLast ==
  cluster["mgmt"] \in {"deleting", "absent"} =>
    \A c \in Guests : cluster[c] = "absent"

\* Load balancers outlive what they serve: a controller or a management
\* engine goes after the management cluster, a workload engine after the
\* workload cluster, whichever requests run side by side.
AlbServes ==
  /\ cluster["mgmt"] # "absent" =>
       {Vm("controller1"), Vm("controller2"), Vm("seMgmt")} \subseteq estate
  /\ cluster["workload"] # "absent" => Vm("seWork") \in estate

\* NSX-T objects go after the controllers: nsx pieces are removed by `all' at
\* the end and by the selective option only if no controller is found, and a
\* cleanup cut short leaves no controller that fetch_avi_vms would miss.
NsxLast ==
  (\E p \in NsxObjects : Nsx(p) \notin estate) =>
    Vm("controller1") \notin estate /\ Vm("controller2") \notin estate

Succeeded(t, option) == reply[t] = "200" /\ ask[t].option = option

\* After an end-to-end cleanup that was answered with success no cluster, no
\* VM and no NSX-T object of the deployment is left.
SuccessIsClean ==
  \A t \in Threads : Succeeded(t, "all") =>
    /\ \A c \in Clusters : cluster[c] = "absent"
    /\ \A v \in Vms : ~Present(v)
    /\ \A p \in NsxObjects : Nsx(p) \notin estate

\* Every request is answered: the wait loops are bounded, whatever the
\* commands they poll come to show.
Answered == \A t \in Threads : Busy(t) ~> ~Busy(t)

=============================================================================
