----------------------------- MODULE Provision -----------------------------
(***************************************************************************)
(* How a stage of a deployment is served.  The endpoint runs a fixed        *)
(* program of calls against vCenter, NSX and NSX ALB, and the clusters; the *)
(* first call that fails ends the request with 500 and nothing is undone,   *)
(* so the operator repeats the stage on what the last attempt left behind.  *)
(* What there is, is a state for each thing; a call looks at a thing, makes *)
(* it, sets it, waits for it or removes it.                                 *)
(***************************************************************************)
EXTENDS Naturals, Sequences

CONSTANTS
  Setups,    \* the kinds of environment to deploy into
  HA,        \* the load balancer has three controllers: enableAviHa
  MaxFaults  \* of each, how many calls may fail, servers end, clusters break or
             \* stages be posted out of turn

\* On vSphere the NSX ALB cloud makes its service engines itself, or they are
\* imported one by one; the others are VCF with NSX-T and VMC on AWS, a
\* supervisor cluster, and VMware Cloud Director.  Tekton runs the stages as the
\* tasks of a pipeline.
Pipelines == {"pipeline", "pipelineVcf", "pipelineTkgs"}
Supervised == {"tkgs", "pipelineTkgs"}
SetupKinds == {"orchestrated", "manual", "vcf", "vmc", "tkgs", "vcd"} \cup Pipelines

ASSUME ProvisionAssumption ==
  /\ Setups \subseteq SetupKinds
  /\ HA \in BOOLEAN
  /\ MaxFaults \in [Setups -> Nat]

VARIABLES
  setup,   \* the kind of environment, fixed when the deployment starts
  world,   \* the state of each thing outside the server
  faults,  \* faults there were so far
  stage,   \* the stage a request is serving, or "idle"
  todo,    \* the calls the request has yet to make, the current one first
  done     \* the stages whose last request was answered with 200

request == <<stage, todo, done>>
vars == <<setup, world, faults, request>>

-----------------------------------------------------------------------------
(* The things, and the states each goes through.                           *)

Controllers == IF HA THEN {"c1", "c2", "c3"} ELSE {"c1"}
Engines == {"e1", "e2", "e3", "e4"}
Clusters == {"mgmt", "shared", "workload"}

\* The supervisor cluster and its namespace.
Supervisor == {"super", "ns"}

\* Files the server downloads, and what each becomes in vCenter.
Files == {"aviFile", "kubeFile", "seFile", "cseFile"}
Pushed(f) ==
  CASE f = "aviFile" -> "aviOva"     [] f = "kubeFile" -> "kubeOva"
    [] f = "seFile"  -> "seTemplate" [] f = "cseFile"  -> "cseTemplate"

\* Things that are there or not.  One stands for all objects of its kind that
\* the code makes in one loop.  "oneNetwork" is in the operator's file: of a manual
\* cloud, the workload cluster is on its data network.
Plain ==
  {"segments", "groups", "services", "policy", "rules", "defaultRule", "workSegment",
   "workNsxGroup", "workRules",
   "dnsRule", "vcenterRule", "mgwRule",
   "albPool", "password", "settings", "welcome", "phrase", "cert", "portal",
   "templates", "defaultCloud", "cloud", "cloudNet", "cloudIpam", "inventory",
   "placement", "mgmtPool", "dataPool", "vipPool", "workPool", "ipamWork",
   "dns", "vcCred", "nsxCred", "vcenter", "mgmtGroup", "workGroup",
   "mgmtDhcp", "workDhcp", "route", "vipRoute", "workRoute", "vsVip",
   "member1", "member2", "member3", "member4",
   "mgmtFolder", "sharedFolder", "workFolder", "sharedAdc", "workAdc",
   "label", "mgmtAko", "sharedAko", "workAko",
   "library", "tkgConfig", "workNet",
   "sharedRepo", "roleBinding", "psp", "overlay", "wcpManual", "wcpDown", "oneNetwork"}
    \cup {Pushed(f) : f \in Files}

\* What there is in Cloud Director, and the files that say what to make there.
VcdVars == {"importCloud", "createNet"}
Director ==
  {"vcdCert", "vcdCtrl", "vcdCloud", "vcdSeg", "org", "orgVdc", "edge", "orgNetwork",
   "cseCatalog", "k8sCatalog", "cseTemplate", "pluginMeta", "plugin", "keInterface", "keEntity",
   "capEntity", "keAccess", "capAccess", "cseUser", "keConfig", "keRegistered", "token", "vapp"}
    \cup VcdVars

\* What the kapp-controller of a guest cluster installs, and that controller.
OnShared == {"sharedCert", "sharedContour"}
OnWorkload == {"workRepo", "workCert", "workContour", "prometheus", "grafana", "fluent", "kapp"}
Packages == OnShared \cup OnWorkload \cup {"harbor"}

Things ==
  {"ha", "ipam", "vs"} \cup Controllers \cup Engines \cup Clusters \cup Supervisor \cup Files
    \cup Packages \cup Plain \cup Director

\* The network profile may lack the cluster VIP network; the virtual service
\* belongs to one of the engine groups.
Lives ==
  [x \in Things |->
     CASE x \in Controllers -> {"none", "off", "on", "up"}
       [] x \in Engines     -> {"none", "off", "on", "up", "connected"}
       [] x \in Clusters \cup Supervisor -> {"none", "creating", "serving", "running", "broken", "off"}
       [] x \in Files       -> {"none", "partial", "there"}
       [] x \in Packages    -> {"none", "creating", "failed", "there"}
       [] x \in VcdVars     -> {"none", "no", "yes"}
       [] x = "ha"          -> {"none", "joined", "active"}
       [] x = "ipam"        -> {"none", "short", "there"}
       [] x = "vs"          -> {"none", "mgmt", "work"}
       [] OTHER             -> {"none", "there"}]

\* What a deployment can come across.
Concerned(s) == IF s = "vcd" THEN Things ELSE Things \ (Director \cup {"cseFile"})

Is(x, states) == world[x] \in states
There(x) == world[x] # "none"
Becomes(x, s) == world' = [world EXCEPT ![x] = s]

-----------------------------------------------------------------------------
(* A program is a sequence of calls.                                       *)

Call(op, x, states, calls) == <<[op |-> op, x |-> x, states |-> states, calls |-> calls]>>

\* Look at x and make the calls unless it is in one of the states.
Unless(x, states, calls) == Call("unless", x, states, calls)

\* Go on only if x is in one of the states; wait until it is.
Need(x, states) == Call("need", x, states, <<>>)
Await(x, states) == Call("await", x, states, <<>>)

\* Follow the command that creates cluster x to its end.
Watch(x) == Call("watch", x, {"running"}, <<>>)

\* Put x into state s, whatever it was; make it, if there is none.
Put(x, s) == Call("put", x, {s}, <<>>)
Make(x, s) == Call("make", x, {s}, <<>>)

\* Remove x; remove it without looking at the outcome; download it.
Remove(x) == Put(x, "none")
Discard(x) == Call("discard", x, {"none"}, <<>>)
Copy(f) == Call("copy", f, {"there"}, <<>>)

Have == {"there"}
Set(x) == Put(x, "there")
Find(x) == Need(x, Have)

\* Make x if it is missing: one call, for a single request is served at a time.
Ensure(x) == Call("ensure", x, Have, <<>>)

\* Of a pipeline: a look that takes a failure for an absence; a call whose
\* failure ends the attempt it belongs to, and one whose failure ends the task,
\* both without being reported; the end of a task that failed.
Ask(x, states, calls) == Call("ask", x, states, calls)
Try(x) == Call("try", x, Have, <<>>)
Quit(x) == Call("quit", x, Have, <<>>)
Abort(x) == Call("abort", x, {}, <<>>)

\* Go on only if x is in one of the states; otherwise the request ends, with 200.
\* Look at x; if vCenter refuses the session, the calls are left out.
Leave(x, states) == Call("leave", x, states, <<>>)
Spare(x, states, calls) == Call("spare", x, states, calls)

\* An engine has an address; an engine is listed by the controller.
Powered == {"on", "up", "connected"}
Listed == {"up", "connected"}

-----------------------------------------------------------------------------
(* What the calls do.                                                      *)

At(op) == todo # <<>> /\ Head(todo).op = op
Now == Head(todo)
Target == CHOOSE s \in Now.states : TRUE

Proceed == todo' = Tail(todo) /\ UNCHANGED <<stage, done>>

\* A mistake the checks must notice: the request ends, but its calls go on.
FailQuietly == stage' = "idle" /\ UNCHANGED <<todo, done>>

\* The exception handler of the endpoint answers 500.  A pipeline whose task
\* fails ends, and a new run starts with the first task.
Ended ==
  stage' = "idle" /\ todo' = <<>> /\ done' = IF setup \in Pipelines THEN {} ELSE done

\* An exception in the task of a cluster: its handler deletes the cluster.
Rescue ==
  /\ setup \in Pipelines \ Supervised /\ stage \in Clusters /\ todo # <<>> /\ ~At("ask")
  /\ todo' = Discard(stage) \o Abort(stage)
  /\ UNCHANGED <<stage, done>>

\* The task of the workload cluster turns every failure into an exception, the
\* others return an error.
Rescued ==
  setup \in Pipelines \ Supervised /\ stage = "workload" /\ todo # <<>> /\ ~At("ask")

\* The task of the extensions does not look at what it is told: it succeeds.
Unheard == setup \in Pipelines /\ stage = "ext"
Swallowed == todo' = <<>> /\ UNCHANGED <<stage, done>>

Fail == IF Rescued THEN Rescue ELSE IF Unheard THEN Swallowed ELSE Ended

UnlessCall ==
  /\ \E op \in {"unless", "ask", "spare"} : At(op)
  /\ IF Is(Now.x, Now.states) THEN Proceed
     ELSE todo' = Now.calls \o Tail(todo) /\ UNCHANGED <<stage, done>>
  /\ UNCHANGED <<setup, world, faults>>

NeedCall ==
  /\ At("need")
  /\ IF Is(Now.x, Now.states) THEN Proceed ELSE Fail
  /\ UNCHANGED <<setup, world, faults>>

AwaitCall ==
  /\ At("await") /\ Is(Now.x, Now.states)
  /\ Proceed
  /\ UNCHANGED <<setup, world, faults>>

\* A wait loop makes a bounded number of polls, and the last may come too soon.
\* Where that deletes what the wait is for, it must not come too soon for ever.
TooSoon ==
  IF Rescued /\ ~Is(Now.x, {"broken"})
  THEN faults < MaxFaults[setup] /\ faults' = faults + 1
  ELSE UNCHANGED faults

GiveUp ==
  /\ At("await") /\ ~Is(Now.x, Now.states)
  /\ TooSoon /\ Fail
  /\ UNCHANGED <<setup, world>>

\* runProcess raises only if poll() knows the exit code by then: the failure of
\* a command may pass unnoticed.
WatchCall ==
  /\ At("watch")
  /\ \/ Proceed /\ UNCHANGED faults
     \/ ~Is(Now.x, Now.states) /\ TooSoon /\ Fail
  /\ UNCHANGED <<setup, world>>

EnsureCall ==
  /\ \E op \in {"ensure", "try", "quit"} : At(op)
  /\ IF Is(Now.x, Now.states) THEN UNCHANGED world ELSE Becomes(Now.x, Target)
  /\ Proceed
  /\ UNCHANGED <<setup, faults>>

PutCall ==
  /\ At("put")
  /\ Becomes(Now.x, Target) /\ Proceed
  /\ UNCHANGED <<setup, faults>>

\* The name is taken: the command fails, and for a cluster that may pass.
MakeCall ==
  /\ At("make")
  /\ IF ~There(Now.x) THEN Becomes(Now.x, Target) /\ Proceed
     ELSE /\ Fail \/ (Now.x \in Clusters /\ Proceed)
          /\ UNCHANGED world
  /\ UNCHANGED <<setup, faults>>

\* What goes with a cluster.
Within(x) ==
  CASE x = "mgmt"     -> {"mgmtAko"}
    [] x = "shared"   -> {"sharedAko", "label", "sharedRepo", "harbor"} \cup OnShared
    [] x = "workload" -> {"workAko", "roleBinding", "psp"} \cup OnWorkload
    [] OTHER          -> {}

\* The outcome is not looked at.  The controller refuses to remove an address
\* that a service uses.
DiscardCall ==
  /\ At("discard")
  /\ IF Now.x = "vsVip" /\ There("vs") THEN UNCHANGED world
     ELSE world' = [x \in DOMAIN world |->
                      IF x \in {Now.x} \cup Within(Now.x) THEN "none" ELSE world[x]]
  /\ Proceed
  /\ UNCHANGED <<setup, faults>>

DiscardFails ==
  /\ At("discard") \/ At("spare")
  /\ faults < MaxFaults[setup]
  /\ faults' = faults + 1
  /\ Proceed
  /\ UNCHANGED <<setup, world>>

\* The image of a service engine is written after every *.ova of /tmp was
\* removed, where the other images are kept.
Downloaded(f, s) ==
  world' = [x \in DOMAIN world |->
              IF x = f THEN s
              ELSE IF f = "seFile" /\ x \in Files THEN "none"
              ELSE world[x]]

CopyCall ==
  /\ At("copy")
  /\ Downloaded(Now.x, "there") /\ Proceed
  /\ UNCHANGED <<setup, faults>>

\* The server ends while it writes the file.
CutShort ==
  /\ At("copy") /\ faults < MaxFaults[setup]
  /\ faults' = faults + 1
  /\ Downloaded(Now.x, "partial") /\ Fail
  /\ UNCHANGED setup

AbortCall == At("abort") /\ Ended /\ UNCHANGED <<setup, world, faults>>

\* The pre-check of a task cannot look: it counts as not deployed.
AskFails ==
  /\ At("ask") /\ faults < MaxFaults[setup]
  /\ faults' = faults + 1
  /\ todo' = Now.calls \o Tail(todo)
  /\ UNCHANGED <<setup, world, stage, done>>

\* The calls after an attempt that failed.
Untried ==
  LET n == CHOOSE n \in 0 .. Len(todo) :
             /\ \A i \in 1 .. n : todo[i].op = "try"
             /\ n < Len(todo) => todo[n + 1].op # "try"
  IN SubSeq(todo, n + 1, Len(todo))

TryFails ==
  /\ At("try") /\ faults < MaxFaults[setup]
  /\ faults' = faults + 1
  /\ todo' = Untried
  /\ UNCHANGED <<setup, world, stage, done>>

LeaveCall ==
  /\ At("leave")
  /\ IF Is(Now.x, Now.states) THEN Proceed ELSE Swallowed
  /\ UNCHANGED <<setup, world, faults>>

QuitFails ==
  /\ At("quit") \/ At("leave")
  /\ faults < MaxFaults[setup]
  /\ faults' = faults + 1
  /\ Swallowed
  /\ UNCHANGED <<setup, world>>

\* A call fails, or the server ends and the command line is left without an
\* answer; what the request did stays.  The management cluster is made from
\* the server, by a command that ends with it.
Trouble ==
  /\ stage # "idle" /\ faults < MaxFaults[setup]
  /\ faults' = faults + 1
  /\ Ended \/ Rescue \/ (Unheard /\ Swallowed)
  /\ \/ UNCHANGED world
     \/ Is("mgmt", {"creating"}) /\ Becomes("mgmt", "broken")
  /\ UNCHANGED setup

Calls ==
  \/ UnlessCall \/ NeedCall \/ AwaitCall \/ GiveUp \/ WatchCall \/ EnsureCall
  \/ PutCall \/ MakeCall \/ DiscardCall \/ CopyCall \/ LeaveCall \/ AbortCall

Failures == DiscardFails \/ CutShort \/ Trouble \/ AskFails \/ TryFails \/ QuitFails

-----------------------------------------------------------------------------
(* Images: marketplace_util.py.                                            *)

\* An image on disk is used again if its checksum is right.
Fetch(f) == Unless(f, Have, Copy(f))

\* push_to_content_library, deploy_ova_template
Push(f) == Find(f) \o Set(Pushed(f))

Library(f) == Unless(Pushed(f), Have, Fetch(f) \o Push(f))

ControllerOva == Library("aviFile")
KubernetesOva == Library("kubeFile")

=============================================================================
