# A specification of Service Installer for VMware Tanzu

Service Installer for VMware Tanzu (SIVT) deploys Tanzu Kubernetes Grid on
vSphere, VMware Cloud Foundation and VMware Cloud on AWS. Its core is a Python
program in `src/src`: a Flask server (`python_server.py`, run by waitress with
several worker threads, started by systemd with `Restart=always`) with one
REST endpoint per deployment job, and a command line (`cli.py`) that posts the
same requests a web UI posts. The endpoints drive vCenter, NSX ALB (Avi),
NSX-T, the `tanzu`, `govc` and `kubectl` commands, and wait in polling loops.
Nothing is transactional: what a request did before it failed stays done, and
the operator repairs it with another request or with a cleanup.

This directory holds TLA+ modules of that program, the TLC configurations that
check them, and TLAPS proofs. Paths below are relative to the repository.

## 1. Inventory

### 1.1 Parts, state and operations

| part | code (`src/src/...`) | state | operations |
|---|---|---|---|
| Deployment job status | `common/util/tiny_db_util.py`, hooks in `python_server.py`, `cli.py`, `deployment_status_util.py` | one JSON file with a list of components and their status, shared by processes; a query cache per process | check and initialise, mark, conclude, reset, recover, overview |
| TKGm cleanup | `common/cleanup/` | clusters, VMs, NSX objects in the data centre | `cleanup-env` with an option; `cleanup-prompt` (read only) |
| Supervisor power | `common/wcp_shutdown/` | WCP service (startup type, run state), supervisor and guest VMs | shutdown, bring-up |
| Process environment and working files | `os.putenv` in `service_engine_utils.py`, `cluster_yaml_dump_util.py`, `govc_client.py`, ...; `newCloudInfo.json`, `kubeconfig.yaml`, `cert.txt` | the environment and working directory of the server process | set, run a command, write, read back |
| NSX ALB controllers | `workflows/nsx_alb_workflow.py`, `lib/avi/avi_admin_operations.py` | controller VMs, cluster of controllers, sessions | deploy, form the cluster, licence, certificate |
| NSX ALB cloud | `lib/avi/avi_infra_operations.py` | clouds, engine groups, networks, IPAM and DNS profiles | get or create each |
| Management cluster | `workflows/management_cluster_workflow.py`, `vmc/managementConfig` | the cluster as `tanzu` lists it | check, create, verify |
| Shared and workload clusters | `workflows/vsphere_cluster_creation.py`, `vmc/sharedConfig`, `vmc/workloadConfig` | guest clusters | check, create, wait, connect AKO |
| TKGs | `vsphere/managementConfig`, `vsphere/workloadConfig`, `util/tkgs_util.py` | WCP, namespaces, clusters | enable, configure, create a namespace and a guest cluster |
| Environment configuration | `workflows/nsxt_workflow.py`, `vmc/vmcConfig` | segments, groups, rules | get or create |
| Extensions, Harbor | `common/tkg`, `common/harbor`, `common_utilities.py` | packages of guest clusters | install, wait |
| Cloud Director | `cli.py`, `vcd/` | organisation, gateway, catalogs, Container Service Extension, `.tf` plans | four stages of the command line |
| GitOps pipeline | `src/tekton/scripts` | the same systems, driven by Tekton tasks | look, skip or deploy, clean up |
| Prechecks, listings | `common/prechecks` | none | queries |
| Authentication | `common/login_auth` | users table, tokens, `current_user.txt` | login, check a token |
| Velero, TMC, sample application | `util/velero_util.py`, `util/saas_util.py` | external | register, back up |
| UI, AWS, Azure, docs | `ui/`, `aws/`, `azure/`, `docs/` | separate programs, definitions and texts | |

### 1.2 How they interact

* The command line marks a job in the status file, posts the request, waits for
  the answer and records a verdict. Before the endpoint runs, the server's
  `before_request` hook marks the job *it* finds for the request's path in the
  same file; its `after_request` hook records its own verdict. Both processes
  read all of the file and write all of it, without a lock.
* The UI posts requests without touching the file.
* A deployment is a sequence of requests. Each finds what the one before left in
  vCenter, NSX, NSX ALB and the clusters, and those go on by themselves: machines
  boot, engines connect, clusters come up, packages reconcile.
* The pipeline runs the same steps as tasks, each with a look at what there is
  before it, which may skip it, and a handler that deletes what failed.
* Deployment endpoints and cleanup run in worker threads and meet in the data
  centre: a cleanup removes what a deployment or another cleanup is looking at.
* Threads share the process environment (`GOVC_*`) and files in the working
  directory.
* `kubectl` and `tanzu` see guest clusters only through the management cluster,
  and service engines are found only through the first ALB controller, so the
  order in which things are removed decides what a later request can find.

### 1.3 What is hard

Concurrency without locks (status file, environment, working files); stale
reads (query cache, one probe for a cluster at the start of a long request);
crashes and restarts of the server and ctrl-c on the command line; polling
loops with a bound; commands that fail and read like an absent object, or whose
failure passes for success; a stage repeated on what a failed attempt left, where
"it is there" is taken for "it is complete"; sequences of irreversible steps cut
short. `PROJECT.json` lists each such place with its line, and the properties that
cover it.

### 1.4 What makes each part correct

* *Job status*: a verdict is one that was reached; a job in progress has
  somebody who will conclude it; a restart leaves no orphan; a cleanup starts
  the list over; the overview agrees with the file.
* *Cleanup*: nothing is removed before what depends on it, however many
  requests run and wherever they are cut short; success means clean; every
  request is answered.
* *Supervisor power*: a shutdown leaves nothing running, and a bring-up makes
  everything run again.
* *Shared session*: a command runs in the session of its own request.
* *Deployment*: a stage answered with 200 has set up what it is for and it stays
  so (`Kept`); nothing is built on something missing, wherever attempts stopped and
  in whatever order stages were posted (`Grounded`); an operator who repeats the
  stage that failed gets to a deployment that runs (`Converges`).

## 2. Plan

| order | module | what | status |
|---|---|---|---|
| 1 | `SivtJobs`, `JobStatus` | the status file and all who write it | done |
| 2 | `JobLedger`, `JobRefinement` | what a status list promises (abstract), and how the file keeps it | done; refinement checked and proved |
| 3 | `Teardown` | cleanup of a TKGm deployment | done except the extensions option |
| 4 | `Provision` | how a stage is served: programs of calls, failures, waits | done |
| 5 | `NetworkDeploy`, `AlbDeploy`, `CloudDeploy`, `ClusterDeploy` | the stages on vSphere and VCF | done |
| 6 | `VmcDeploy` | VMC on AWS, whose handlers are its own | done |
| 7 | `GitopsDeploy` | the tasks of the Tekton pipeline | done except day 2 |
| 8 | `SupervisorDeploy`, `SupervisorPower` | TKGs, its shutdown and bring-up | done except TMC |
| 9 | `ExtensionsDeploy` | packages of the guest clusters | done |
| 10 | `VcdDeploy` | Cloud Director and the Container Service Extension | done |
| 11 | `Deployment` | composes 4 to 10 with the operator and the outside world | done |
| 12 | `*_proofs`, `Outlines`, `StageOutlines` | types; `PassedIsEarned`, `TurnsTaken`, `InProgressIsOwned`, `CleanupResets`, `RestartSettles`, `LedgerSpec`; `MgmtLast`, `AlbServes`, `NsxLast`; `Grounded`, `Kept` | done, see section 5 |

Open: two deployment requests side by side on the shared environment and working
files (the hazard at `management_cluster_workflow.py:694`).
A deployment has some 60 to 200 calls per stage; two of them interleaved are beyond TLC at
the level of detail that the other questions need.

## 3. The modules

### 3.1 `SivtJobs`

Thirteen jobs (`Component` in `common/operation/constants.py`), six statuses,
the endpoint each job is posted to, and `API_COMPONENTS_MAPPING` with
`match_endpoint`. The code asks whether the requested path is a *substring* of
a mapped one and takes the first hit. A path here is a sequence of segments and
the test is "is a prefix of". On the endpoints of the server both agree,
since each path begins with `/api/tanzu`. `MatchEndpoint` shows a
consequence worth knowing: a vSphere management cluster deployment, posted to
`vsphere/tkgmgmt`, is a prefix of `vsphere/tkgmgmt/alb/config/wcp`, so the
server marks `WCP_CONFIG` for it. The VMC endpoints, cleanup and the shared
service are marked by nobody but the command line.

### 3.2 `JobStatus`

State: the file (`db`, one table per insertion of the list, and `blank`);
per actor the TinyDB operations it still has to make (`todo`), the content it
has read and not written back (`copy`) and its place in its handler (`pc`); the
command line's invocation, the requests being served, the answers; the
server's life, its recovery list and its query cache. `answered` is a history
variable: the requests an endpoint answered with 200.

* Every TinyDB change is two steps, `ReadFile` and `WriteFile`; everything may
  happen in between. A write of the server process clears its query cache, a
  write of the command line does not.
* `CheckFile` and `CheckEnv` are `check_db_file` with its two tests, and
  `InitScript` is `initialize_db`, with the fact that the server hands it the
  request body where it expects a path: the not-applicable marks of vSphere are
  made by the command line only.
* `CliStart .. CliConclude` are `run_arcas` and the operations of
  `ARCAS_OPS_DICT`, `Verdict` is the record each of them makes for 200, another
  answer, or none (a lost connection; most operations then record FAILED twice, since
  the `False` they print `.json()` of raises). `CliInterrupt` is ctrl-c: the
  request it sent goes on.
* `UiPost`, `ThreadCheckFile .. ThreadReply` are the hooks around an endpoint,
  whose outcome is a free choice.
* `Crash`, `Restart`, `RecoverNext`, `Listen` are the end of the process and
  `configure`, which fails the jobs it found in progress one by one; its search fills
  the query cache of the new process.

* `CleanupResets` speaks of every status: after the last write of a cleanup that worked
  no other job has any but NOT STARTED or NOT APPLICABLE.

Left out: a write of the file that is torn by a crash (TinyDB writes in
place); the `check_db_file` that `before_request` makes for the prompt which precedes
`--cleanup all`, since the prompt carries the Env header too (`cli.py:851`); the VCD operations of the command line, which use a file of their own;
the text of messages. The model gives every operation of a job the one form
that `Verdict` describes.

### 3.3 `JobLedger`

One status per job. A job gets a verdict only while it is in progress, a new
list replaces the old one as a whole, a cleanup that worked is the first entry
of the list it started. `JobRefinement` maps the file to it: the ledger is the
first table, or absent.

### 3.4 `Teardown`

A request is a sequence of steps (`AllSteps`, `MgmtSteps`, `GuestSteps`,
`AviSteps`, `NsxSteps`: one per option, in the order of `cleanup.py`) that a
worker thread makes one by one; every action is a step, or one command of a
step that waits (delete, poll, poll, ...). The state is the data centre
(`cluster`, `estate`) and per request the steps left, the polls made, the VMs
collected and whether it knows the uuid of the controller.

* `Flaky` names the external commands that may fail; what the code makes of the
  failure is in the action: `getCluster` and `management_exists` read a failed
  command as "absent", `delete_cluster` returns a pair that is true, `govc`
  raises and the request ends with 500.
* A management cluster that is absent or being deleted beyond the reach of
  `tanzu cluster list` makes the listing fail (`CanList`).
* `ClusterGone`, `ClusterStalls` and `Crash` are the environment.
* `Init` is a deployment that went as far as the management cluster or further,
  with all its VMs and NSX objects.
* Resource pools, folders, contexts, TMC registrations, libraries, OVAs and
  local files are not in `estate`: the steps on them only may fail a request, so that
  an `rm -r` of files which an earlier cleanup deleted (`cleanup_operations.py:426`)
  is such a failure and not a certain one.
* The first listing of a request fails it whenever the command fails. The code goes by the
  word "error" in the command's output (`ShellHelper.py:87`), so that a failure
  without that word reads as an empty list.

  The `extensions` option, `cleanup-prompt` and the TKGs branches are left out.

Known oddities of the code the model keeps: `delete_vmc_components` tests the
outcome of the compute gateway's rules twice and never the management
gateway's (`cleanup_operations.py:891`, `NsxPiece`); the template of the engines is
removed only on VMC and only if the first controller was seen (`Uuid`). One it
abstracts away: a guest cluster is never unregistered from TMC because of a
shadowed loop variable (`cleanup_operations.py:945`).

### 3.5 `Provision`: how a stage is served

A deployment endpoint is a long sequence of calls, each of which looks at a thing outside
the server, makes it, sets it, waits for it or removes it. The state is `world`, a
state for every thing (a controller goes `none`, `off`, `on`, `up`; a cluster
`creating`, `serving`, `running` or `broken`; a package `creating`, `failed`, `there`;
most things are there or not), and the request: `stage`, the calls it has yet to
make (`todo`) and the stages answered with 200 (`done`).

Each stage is a *program*: an operator that yields the sequence of its calls,
built function by function from the code, so that a definition names the function it
stands for. What a call does is one action of `Provision`:

| call | in the code |
|---|---|
| `Unless(x, S, calls)` | look at x; if it is not in S, do the calls (get or create) |
| `Need`, `Find` | look, and fail with 500 otherwise |
| `Await` | a wait loop with a bound; it may end too soon (`GiveUp`) |
| `Watch` | `runProcess`, whose failure may pass unnoticed (`ShellHelper.py:47`) |
| `Ensure`, `Make`, `Put`, `Set`, `Remove` | create if missing, create and fail if the name is taken, set, delete |
| `Discard` | delete without looking at the outcome |
| `Copy` | download; if it is cut short the file stays (`CutShort`) |
| `Ask`, `Spare` | a look whose failure counts as "absent" or as "leave it" |
| `Try`, `Quit`, `Leave` | a failure that is not reported: it ends the attempt, or the task, with success |

`Trouble` is any failure in any place: a call that fails, the server that ends
(a `tanzu management-cluster create` under way ends with it), a connection that breaks. What was
done stays done. In a pipeline a failure ends the run, and for the cluster tasks the
exception handler deletes the cluster first (`Rescue`).

### 3.6 The stages

| module | code | what it says |
|---|---|---|
| `NetworkDeploy` | `nsxt_workflow.py` | segments, groups, services, rules, policy on VMC and VCF |
| `AlbDeploy` | `nsx_alb_workflow.py`, `avi_admin_operations.py` | controllers, the cluster of three, password, backup phrase, certificate |
| `CloudDeploy` | `avi_infra_operations.py`, `avi_template_operations.py`, `service_engine_utils.py`, `management_cluster_workflow.py` | clouds of three kinds, credentials, pools, profiles, groups, routes, the virtual service that makes engines start, imported engines |
| `ClusterDeploy` | `management_cluster_workflow.py`, `vsphere_cluster_creation.py`, `ako_config_utils.py` | management cluster, guest clusters, AKO |
| `VmcDeploy` | `vmc/`, `common_utilities.py` | VMC, which looks at other things before it acts |
| `GitopsDeploy` | `tekton/scripts` | the tasks on vSphere and VCF, with their pre-checks |
| `SupervisorDeploy` | `vsphere_tkgs_*.py`, `ra_*_workflow.py` | default cloud, supervisor, namespace and guest cluster, with the pipeline's version |
| `ExtensionsDeploy` | `extension_utils.py`, `tkg/`, `harbor/`, `tkgs_extensions.py`, `ra_deploy_ext_workflow.py` | packages on both guest clusters |
| `SupervisorPower` | `wcp_shutdown.py` | stop WCP, shut machines down, restart |
| `VcdDeploy` | `cli.py`, `vcd/`, the `.tf` plans | import of the controller and the cloud, organisation, catalogs, types, server |

Oddities of the code that the models keep, beside those the hazards name:

* *Supervisor*: a stage posted too early, or a session that vCenter refuses, is answered
  with 200 though nothing was made; so the stages `ns` and `workload` promise nothing
  (`SetUp`), and `DeadEnd` lists them. `getWCPStatus` answers None for a supervisor that
  runs and is not ready, and the bring-up's wait ends with a TypeError.
* *Power*: the `else` of `wcp_shutdown.py:105-120` belongs to the test of one
  machine, not to the loop; WCP stays on MANUAL after a bring-up (`wcpManual`); a
  shutdown is refused once WCP is down, so one that failed halfway is finished by the
  bring-up and a new shutdown.
* *VMC*: the look at the cluster VIP network is not tested, for `management_config.py:258`
  tests the answer of the look before it. A refused look goes on to make the IPAM profile, and the
  engines, without the network (`VmcVipNetwork`; `ipam` is `short`). The profile is not
  mended later; the network is made by a repeated stage, since the management
  cluster looks for it. Labels are left out by a retry (section 4.1).
* *Manual cloud*: `enable_dhcp` is called for `tkgWorkloadNetworkName`
  (`vsphere_cluster_creation.py:814`), and a manual cloud knows the networks it was
  given, of the workload `tkgWorkloadDataNetworkName`. Unless the operator's file names
  one network for both, the stage `workload` fails for good. The file is either, by choice of
  `Init` (`oneNetwork`). Other coincidences of names are not modelled.
* *AKO*: nobody looks at the mask of the data network (`AkoNetworks`), which
  the management cluster does (`ManagementCluster`). On VCF the caller ignores that the VIP network is
  missing (`ako_config_utils.py:184`), but no file was written and applying it
  fails, so the look is a `Find` there too. That the file of an earlier
  configuration is applied instead is not modelled.
* *Pipeline*: the `alb` and `ext` tasks promise nothing, the management cluster is not
  verified, images do not survive a container.
* *Cloud Director*: both credentials' uuids are the last one's on their first creation;
  a certificate that could not be uploaded is answered with 200
  (`vcd_ui_utils.py:649-676`). That Cloud Director refuses a controller whose
  certificate it does not trust, and the removal of a network that is in use,
  are assumptions on Cloud Director.

### 3.7 `Deployment`

Composes the stages with an operator and what goes on outside. `Post` sends a
stage: the next one, or by mistake (which counts as a fault) one out of turn. `Diligence`
is the operator repeating the first stage that has not succeeded. `Meanwhile` holds
what happens by itself: controllers boot and join, the cloud discovers its inventory, engines
start if a virtual service asks for them, connect; clusters come up, AKO starts
where a configuration selects the cluster, packages reconcile, WCP starts
machines. `ClusterBreaks` and `PackageFails` are faults.

* `Kept`: what a stage answered with 200 has set up (`SetUp`, per stage) is so, and
  stays so while later stages fail, are repeated or run out of turn. The stage's promise
  is what the documents say of it, weakened where the code promises less; each weakening
  has a comment.
* `Grounded`: nothing is built on something missing. One exception needs two faults and was
  found while proving: in a pipeline the look at the management cluster may fail, so that its
  task runs again although guest clusters are there, and an exception in the task then
  deletes it under them (`Overlooked`; `ra_mgmt_cluster_workflow.py:153`). With
  one fault, or outside of a pipeline, there is none. On VMC engines get their addresses
  from the profile (`EngineNetwork`), which may lack the VIP network as said above; the management
  cluster does not come up without the network.
* `Converges`: an operator who goes on gets to a deployment whose stages are all done
  and whose clusters run, or is in a `DeadEnd`. `DeadEnd` is the list of the states no
  repetition mends. Each of its disjuncts is necessary: without it TLC finds a
  deployment that never ends. So `Converges` does not forbid these dead ends. It says that there
  are no others, and the list is what the program leaves to the operator's hands: a
  half-made pair of credentials, a machine imported and never powered on, a truncated image, a shared
  cluster without its configuration, a manual cloud without the workload's network, and so on.

Three weaknesses of these properties should be known. What leads to a dead end is listed, not
caught, by `Converges`. `Kept` promises nothing of a namespace or workload cluster on a supervisor, nor of
the first and the last task of a pipeline, since there a 200 says nothing. And `Grounded`
excepts what is named above. The hazards concerned carry a note in `PROJECT.json`.

## 4. The runs

`MCJobStatus`, `MCTeardown` and `MCDeployment` give the constants their values. Each run asks one
question; the violation runs reproduce a disagreement between the code and what
the repository says of it.

| run | instance | shows |
|---|---|---|
| `job_status_one_operator` | one command line with three invocations (TKGm prechecks and MGMT, VMC prechecks and a job the environment refuses, a cleanup), one thread, no crash, fair | the file is written in turns (`TurnsTaken`), a job in progress has an owner (`InProgressIsOwned`), the file implements `JobLedger` (`LedgerSpec`), a cleanup resets (`CleanupResets`), every job in progress is concluded (`Settles`) |
| `job_status_crash` | one command line that may be stopped beside UI requests for an endpoint the server marks and one it does not, crashes | types; no PASSED is invented (`PassedIsEarned`), although updates are lost |
| `job_status_ui` | two threads, UI requests, crashes, no command line | after a restart nothing is left in progress (`RestartSettles`) |
| `job_status_restart_race` (violation) | a command line and a crash | `RestartSettles` fails: the command line's write overlaps the recovery |
| `job_status_overview` (violation) | a command line and two threads | the overview's cached answer contradicts the file |
| `teardown_beside` | two threads, all six options, VCF, govc, inventory, NSX and the management delete fail, crashes | `MgmtLast`, `AlbServes`, `NsxLast`: removals keep their order whichever requests run side by side and wherever they stop |
| `teardown_answered` | one thread on VMC, every command may fail, cleanups with and without retention, fair | types, and every request is answered (`Answered`) |
| `teardown_failed_delete` (violation) | `all` with a failing delete command | the management cluster is deleted under a guest cluster whose deletion failed |
| `teardown_interrupted` (violation) | `all`, repeated after a crash | success is reported with service engines left behind |
| `deployment` | vSphere with both kinds of cloud, VCF, a supervisor, and the pipelines on vSphere and on a supervisor; three controllers, one fault of any kind anywhere, fair | types, `Kept`, `Grounded`, `Converges` |
| `deployment_elsewhere` | VMC, the pipeline on VCF, and Cloud Director, there with two faults, fair | `Kept`, `Grounded`, `Converges` where the handlers are other ones |
| `deployment_tags` (violation) | VMC | the shared services stage succeeds without the tags |

### 4.1 What the violations mean

* `RestartSettles` (`python_server.py:143`). A comment promises that a restart
  fails every halted job. The recovery searches once and updates job by job. A
  command line whose connection broke with the crash reads the file before the
  recovery's write and writes after it: the job is in progress again and its
  owner is gone once the write is done. With no command line about
  (`job_status_ui`) the promise holds.
* `OverviewTruthful` (`deployment_status_util.py:23`). `search` answers from the
  query cache of the server, which writes of the command line do not clear.
* `MgmtLast` without reliable commands (`cleanup_operations.py:691`).
* `SuccessIsClean` (`cleanup_operations.py:169`). The engines are found through
  the first controller, which is destroyed before them.

* `SharedTagged` (`shared_config.py:655`). The labels that make AKO and the
  extensions find the shared cluster are applied in the branch for a cluster that does not run
  yet. A stage that failed after its cluster came up is repeated, finds it
  running and answers 200 without them. vSphere has it right.

Three disagreements of the same kind are modelled without a run: two UI requests
may overwrite each other's verdict; a management cluster deployment marks
`WCP_CONFIG` in the server; and a listing that fails reads as "no such cluster".

### 4.2 Bounds

* *Tables*: `MaxTables` 2 or 3. Two copies of the list are the first state in
  which an update changes two documents; more behave alike.
* *Processes*: one command line with one or two threads. A lost update needs two
  writers of the file, a crash race a third (the recovery), and both are there.
  The proofs cover any number.
* *Invocations*: at most two jobs each, chosen so that a job is marked by the
  server under its own name, under another name, and not at all; that the
  environment guard refuses one; and that a second deployment of another
  environment truncates the list of the first.
* *Polls*: `MaxPolls` stands for 360 polls of 10 s. One or two polls already
  show a loop that goes on, ends early and ends at its bound.
* *Cleanup*: two concurrent requests of any option are all a conflict needs,
  since a step looks only at the data centre and at its own request. Three
  clusters, two controllers (the third behaves like the second) and two engine groups.
* *Faults*: one per deployment, two for Cloud Director (`Faults` in `MCDeployment`). One is
  a failed call, an end of the server, a broken cluster, a failed package or a stage out of turn,
  in any place; the repetition that follows meets what it left. Waits that
  end too soon, commands whose failure is hidden and the branches of the code come on top and
  are not counted, except where a wait that ends too soon deletes the cluster it
  waits for (`TooSoon`): there a bound is needed for the end to be reached at all.
  Two faults show one thing more: a repeated organisation stage whose look at the
  gateway fails removes the network. With two faults
  everywhere the other setups are out of a run's five minutes.
* *Deployment*: three controllers (`HA`), of which two behave alike; two engines per group,
  since the code waits for one of two; one object per kind where the code makes the objects of a kind in
  a loop and fails as a whole.
* Symmetry on threads is used only in runs that check safety.

`CHECK_DEADLOCK FALSE` everywhere: a server nobody asks anything of is at rest, and a
deployment that is complete stops.

### 4.3 Fairness

* `SteadySpec`: weak fairness of each actor's reads and writes, each command
  line's next step and each thread's next step. A thread that has a request runs
  until it is answered, since every wait loop is bounded; a command line waits
  for nothing but the answer. Nobody has to start an invocation, post from the
  UI or ask for the overview: these are not fair.
* `Teardown!FairSpec`: weak fairness of `Serve(t)`. Commands end, and the loops
  count their polls. No fairness of `ClusterGone`: a deletion may hang for ever and
  the request is answered nevertheless.

* `Deployment!Spec`: weak fairness of `Calls \/ Answer`, since a worker thread goes on until
  it has answered; strong fairness of `Diligence`: an operator who finds the server at rest often enough
  repeats, sooner or later, the first stage that has not succeeded (other stages may
  be posted in between, so weak fairness would say nothing);
  weak fairness of `Meanwhile`: each of its steps is irreversible until a request
  undoes it, so it happens boundedly often, and fairness of the disjunction is
  fairness of each. Nothing is assumed of the failures. With the fairness of the outside
  world `Converges` speaks of the program: machines boot and clusters come up if
  they are not broken.

`Settles` is checked without crashes on purpose: with them the run
`job_status_restart_race` shows that it does not hold.

## 5. The proofs

All constants are arbitrary, under the assumptions declared with them
(`ActorAssumption`: the kinds of actors are disjoint and requests are
well-typed; `SetupAssumption` for the cleanup; `ProvisionAssumption`: the setups are among
those the code knows, and faults are counted). All are evaluated by the runs.

* **`TypeCorrect`** (`JobStatus_proofs`): `Spec => []TypeOK`. Inductive with the
  disjointness of the actors; the arithmetic is in the sequences: an
  operation taken off `todo`, a script put on it.
* **`PassedIsEarnedAlways`** (`JobStatus_proofs`): `Spec => []PassedIsEarned`, for
  any number of processes, with crashes, interrupts and lost updates.
  `PassedIsEarned` speaks of the file alone and is not inductive. `EarnInv` adds:
  what actors have read (`SoundCopies`) and what they have yet to write
  (`SoundTodo`) is sound too; a 200 in a command line's inbox answers the job it
  has in hand (`SoundInbox`); which holds because a request in flight is the only one
  of its command line and is for that job (`SoundCalls`); and a thread that is about
  to reply 200 has been counted (`SoundReplies`). The last three are the protocol
  between the command line and the server, the first two say that stale copies
  are old, never invented.
* **`TeardownTypes`** (`Teardown_proofs`): `Spec => []TypeOK`, with `Counting` (a
  request that does not wait has made no polls), which bounds the wait loops.
* **`MgmtLastAlways`**, **`AlbServesAlways`** (`TeardownOrder_proofs`): under
  `Reliable` (listing, asking for and deleting clusters do not fail and
  deletions do not stall) `MgmtLast` and `AlbServes` hold for any number of
  concurrent requests, whatever VMs, NSX objects, crashes and other failures come
  between. `OrderInv` states what makes this so: in every request's remaining
  steps a step that removes the management cluster stands behind steps that clear
  each guest that is still there, a step that destroys VMs behind one that ends
  the cluster they serve, and a request for the workload cluster holds
  only its own engine. The argument is that clusters never come back, that a
  step only passes when what it stands for is gone (`Settled`), and so the order
  carries over from a sequence to its tail (`OrderedTail`). `Reliable` is
  necessary: without "delete" `teardown_failed_delete` is the counterexample.

* **`NsxLastAlways`** (`Teardown_proofs`): `Spec => []NsxLast` without any
  assumption on the commands: whatever fails and wherever the server ends, in any
  number of concurrent requests, an NSX object goes only when the controllers are gone.
  `NsxInv` adds to it that the second controller goes before the first (`SecondFirst`),
  that a request destroys the VMs it has collected in that order (`OrderlyFound`), and that
  every NSX step a request has left stands behind one that ascertains that the
  controllers it has collected are gone, which stands behind the step that collects
  them unless that has been done (`NsxBehind`).
* **`TurnsTakenAlways`**, **`InProgressIsOwnedAlways`**, **`CleanupResetsAlways`**
  (`JobTurns_proofs`): `SteadySpec` implies the three properties if the server has
  one command line which nobody interrupts and no UI (`Alone`), for any number of threads
  and any invocations. The processes write the one file without a lock; that they take
  turns is a consequence of the protocol, which `TurnInv` spells out: a thread with a request
  serves the command line that waits for it and has nothing to write meanwhile
  (`Hosted`); so at most one process is at work and its copy is the file as it is
  (`CopiesCurrent`); a list is inserted only where there is none (`ListedOnce`);
  who marks a job goes on to own it (`MarkersOwn`, `Owned`); and the PASSED of a
  cleanup stands behind the operation that empties the file, or meets one in which no job has begun,
  and nothing is marked in between (`CleanedBefore`); so it finds no status of the old deployment,
  whichever it was. With
  a crash a command line writes out of turn, as `job_status_restart_race` shows.
* **`RestartSettlesAlways`** (`JobTurns_proofs`): `Spec => RestartSettles` where no command
  line is at the file (`Unattended`), for any number of threads, any requests and crashes
  at any time, also during the recovery itself. `RecoverInv` says that until the server
  listens its threads are idle, that what the recovery loop has read is the file as it is,
  and that each job in progress there is one it has still to fail or is
  failing. A command line at the file breaks the second part: that is again
  `job_status_restart_race`.

* **`FileIsLedger`** (`JobLedger_proofs`): under `Alone` as well, `SteadySpec =>
  LedgerSpec`: the file, which a command line and a thread write in turn, an entry at a
  time, implements `JobLedger`. Each write must be an event of the ledger, which depends
  on all that is to be written and on where both processes are. `LedgerInv` says so:
  every operation of a script that is still to be made fits the list it will meet
  (`Scripts`; a job is struck, and a cleanup recorded, on a list without a verdict
  only); a command line that has called `check_db_file` has, or is about to write, a
  list of its environment, so that the thread that serves it does not start it over
  (`Lists`, `Vouched`); the job in hand is in progress or shows the verdict that the
  answer is going to be (`Shown`); and a thread records about one job, in the order of
  its handler (`ThreadPlace`). The initial state maps to `Ledger!Init`, and with
  `TurnInv` every step maps to a step of the ledger or leaves it alone.

* **`DeploymentTypes`**, **`DeploymentGrounded`** (`Deployment_proofs`): `Spec => []TypeOK` and
  `Spec => []Grounded` for every setup, one controller or three, and any number of
  faults, where the runs have one or two. Most of the state of `Deployment` is the program, the sequence of calls
  that the request has yet to make, so that an invariant has to say of every suffix of
  every stage's program what is known of the world when it is reached.

  `Outlines` has the means. `Needs(k, x)` names what a thing rests on, `Solid(y)` the states
  in which a thing bears what rests on it; a world is `Sound` if what is there has
  what it needs, in such a state. This is `Grounded` as a table, and
  stronger: it also speaks of the virtual service that makes engines start. An *outline* (`IsOutline`)
  is a set of pairs of a set of worlds and a program, closed under what a first call may do: the call leads from every
  world of the pair into the worlds of a pair that has the calls that come next,
  worlds stay in the set while things shift outside (`Lasts`), and a truncated copy leaves
  a sound world. `Gives(k, X, p, Y)` composes: after `p`, begun where the
  things of `X` bear, those of `Y` do, and all that did before still. There is
  one lemma for each kind of call, for sequences, conditions and attempts.

  `StageOutlines` follows the code: one lemma per function of the stages, up to
  one per stage, that its program has an outline from every sound world (`Safe`). Where a stage looks, the look
  is what makes the next call sound (`LookGives`); where the code builds without looking, what it
  needs was made before in the same program. What the missing test of VMC leaves open is in the
  table: there an engine needs the profile and not the network, and a profile needs
  nothing, but one that is not `short` has the network (`Profiled`). A stage of Cloud Director that puts a network away
  and makes it again knows more than that things bear, so its outlines name
  worlds (`AwayLeads`).

  The invariant (`Founded`): the calls left have an outline that holds of the world
  (`Carried`), or they are what is left of a task that deletes its cluster (`Deleting`). Deleting the
  management cluster is sound while no guest cluster rests on it, which in a pipeline
  follows from its pre-check alone: its task goes on only where the cluster does not run, and as long as there was no
  fault it does so with an outline for worlds without guests (`Unbuilt`, mode
  `bare` of `Kinds`). After two faults this is lost (`Overlooked`, mode `lost`); `Kind`
  is the mode the deployment is in. `StageOutlines` proves every stage for the modes
  that it meets.

* **`DeploymentKept`** (`Deployment_proofs`): `Spec => []Kept` for every setup, one controller or
  three, and any number of faults: what a stage answered with 200 has set up stays, whatever is
  posted, fails, is run again, deleted by a pipeline or goes on outside later.

  Two stages may depend on the same thing, and a stage that runs out of turn must not undo what an
  earlier one has shown. The argument splits `SetUp(s)` into the names that the stage has to show
  *itself*, `Own(s)`; what those rest on is there by `Grounded`. A name is a thing that
  bears, or a *pledge* (`Pledges`, `Met`) where a thing has to be in one state and not in any in which
  it bears: an engine is connected, a cluster runs, the supervisor is down and stays down, the cloud
  was imported or need not be. An outline has a kind (`Kinds`), which says what is to be kept
  throughout (`kept`: part of `Sound`, so every call and every shift outside has to preserve it) and
  what is to be reached in the end (`goal`). So `StageOutlines` proves of each stage more than for
  `Grounded`: from every sound world, whichever promises are kept there, its program has an outline in
  which they stay kept, and it ends with the names of `Own`.

  The invariant (`Promised`) has one outline per name. For every `x` of a stage that is done,
  the calls left have an outline that keeps `x` (`Vowed`); for every `x` that the stage
  under way has to show, one that reaches `x` (`Sought`), which becomes a vow when the stage is
  answered with no calls left. Outlines are not joined: for a single name the outline may choose
  what else it knows. Three promises other stages do
  not keep (`Frail`): what is running or down of a supervisor, and the import of the cloud. Only stages
  that are about to show them anew change them, and posting one takes those it undoes off
  `done` (`PostPromises`). And a pipeline that deletes a
  broken cluster does so in a task before which the later ones are not done (`InTurns`), so a cluster
  that a finished task has shown is not the one that is deleted (`VowGoesOn`). `PromisedKept`
  derives each `SetUp(s)` from the names and `Grounded`.

Model-checked only: liveness (`Settles`, `Answered`, `Converges`), which is out of the prover's
reach under fairness. `Founded` and `Promised` speak of all outlines, which is no bounded set, so
TLC checks what follows from them (`TypeOK`, `Grounded`, `Kept`) and not them.

## 6. Not modelled

* *Two deployment requests side by side.* Worker threads share the process environment
  (`GOVC_*`, `service_engine_utils.py:389`) and files in the working directory
  (`newCloudInfo.json`, `management_cluster_workflow.py:694`). `Deployment` has one request at a
  time, as one command line sends them.
* *TMC, Velero, Pinniped, RBAC users and the sample application*: optional, with
  services of their own; the stages are modelled without them. Of two of their functions
  a reader should know: creating RBAC users returns an exception instead of raising it
  (`vsphere_cluster_creation.py:450`), and `delete_tmc_cluster` compares a shadowed
  variable (`cleanup_operations.py:945`).
* *Day 2 of the pipeline* (resize, scale, upgrade), and its creation of clusters through TMC.
* *Cleanup*: the `extensions` option, the TKGs branches and `cleanup-prompt`. In
  them: `getCluster` answers False when the listing itself fails (`cleanup_operations.py:462`),
  `delete_tkgs_workload_cluster` does not test whether its wait loop ended with the cluster
  gone (`:1039`), and `getWCPStatus` falls through to None (`cleanup.py:742`).
* *Command line of Cloud Director*: its own status file.
* *A poll that never ends*: an exception in the loop over the listed engines leaves the counter
  alone (`service_engine_utils.py:758`, and `:348` likewise); the waits of `Deployment` end.
* *Data*: what is in a request, a YAML file or a certificate. So the models do not see, for
  example, `name="additional-ca-" + count` (`vsphere_tkgs_workload.py:536`, a TypeError, here a
  failed call), a cluster that is found by name with another configuration, or a counter
  `seCount` that is never reset.
* *Prechecks and listings* (they change nothing), *authentication* (a refused request is
  a failed call), *clients* (modelled where they are used, by their outcomes), *input
  schemas*, the *UI* (it posts the requests of `JobStatus`' UI), *AWS and Azure*
  (Terraform and shell, not part of the server), *documents*.

`PROJECT.json` names the reason for each part.
