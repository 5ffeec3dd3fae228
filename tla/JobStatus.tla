----------------------------- MODULE JobStatus -----------------------------
(***************************************************************************)
(* The status of every deployment job, kept in one TinyDB file that the    *)
(* threads of the REST server and any number of `arcas' command lines      *)
(* update without a lock.  Every TinyDB operation that changes the file    *)
(* reads all of it, changes the copy and writes all of it back.            *)
(***************************************************************************)
EXTENDS SivtJobs

CONSTANTS
  Clis,          \* command-line processes
  Threads,       \* worker threads of the server
  Invocations,   \* what an operator may ask of the command line
  UiRequests,    \* what the UI may post: [job, dep]
  Interruptible, \* the command lines that may be stopped with ctrl-c
  Prober,        \* the recovery loop of a starting server, as an actor
  NoClient,      \* the sender of a UI request
  MaxTables      \* bound on the copies of the component list in the file

Actors == Clis \cup Threads \cup {Prober}

Invocation == [dep: Deployments, jobs: Seq(Jobs), skip: BOOLEAN]

ASSUME ActorAssumption ==
  /\ Clis \cap Threads = {} /\ Prober \notin Clis \cup Threads
  /\ NoClient \notin Clis
  /\ Interruptible \subseteq Clis
  /\ Invocations \subseteq Invocation
  /\ UiRequests \subseteq [job: Jobs, dep: Deployments]
  /\ MaxTables \in Nat

VARIABLES
  db,      \* one table per initialize_db insert: [env, st]
  blank,   \* the file has size zero
  todo,    \* the TinyDB operations an actor has yet to make, in order
  copy,    \* the content an actor has read and not written back, or <<>>
  pc,      \* where an actor is in its handler
  run,     \* the invocation a command line works on; jobs: those left
  req,     \* the request a thread serves
  inbox,   \* what the command line's HTTP call came to
  server,  \* "up", "down" or "recovering"
  halted,  \* the jobs the recovery loop has yet to fail
  cache,   \* the server's query cache for status == IN PROGRESS, or <<>>
  answered \* history: the requests [job, dep] an endpoint answered with 200

file == <<db, blank>>
work == <<todo, copy, pc>>
calls == <<run, req, inbox>>
life == <<server, halted, cache>>

vars == <<file, work, calls, life, answered>>

-----------------------------------------------------------------------------
(* The file and the operations of TinyDbUtil on it.                        *)

Table == [env: Envs, st: [Jobs -> Statuses]]

Truncate == [kind |-> "truncate"]
Insert(e) == [kind |-> "insert", env |-> e]
Update(s, j) == [kind |-> "update", to |-> s, job |-> j]

Op == [kind: {"truncate"}] \cup [kind: {"insert"}, env: Envs]
        \cup [kind: {"update"}, to: Statuses, job: Jobs]

Fresh(e) == [env |-> e, st |-> [j \in Jobs |-> NotStarted]]

WithStatus(t, j, s) == [env |-> t.env, st |-> [t.st EXCEPT ![j] = s]]

\* An update changes every document of that name; without one it is lost.
Apply(op, d) ==
  CASE op.kind = "truncate" -> <<>>
    [] op.kind = "insert"   -> Append(d, Fresh(op.env))
    [] op.kind = "update"   ->
         [i \in 1..Len(d) |-> WithStatus(d[i], op.job, op.to)]

Running(d) == {j \in Jobs : \E i \in 1..Len(d) : d[i].st[j] = InProgress}

NA(j) == Update(NotApplicable, j)

\* initialize_db.  Its json_file is a path when the command line calls it and
\* the body of the request when the server does: load_json then raises, the
\* outer handler swallows it, and the vSphere updates are not made.
InitScript(d, caller) ==
  <<Insert(d.env)>>
    \o (IF d.env # "vcf" THEN <<NA("VCF_PRECONFIG")>> ELSE <<>>)
    \o (IF d.env # "vmc" THEN <<NA("VMC_PRECONFIG")>> ELSE <<>>)
    \o (IF d.env # "vsphere" \/ caller = "server" THEN <<>>
        ELSE IF d.kind = "tkgs"
             THEN <<NA("MGMT"), NA("WORKLOAD_PRECONFIG"), NA("SHARED_SERVICE")>>
             ELSE <<NA("WCP_CONFIG"), NA("WCP"), NA("NAMESPACE")>>)

Knows(e) == \E i \in 1..Len(db) : db[i].env = e

InServer(a) == a \in Threads \cup {Prober}

\* The first half of a TinyDB operation: storage.read().
ReadFile(a) ==
  /\ todo[a] # <<>> /\ copy[a] = <<>>
  /\ Head(todo[a]).kind = "insert" => Len(db) < MaxTables
  /\ copy' = [copy EXCEPT ![a] = <<db>>]
  /\ UNCHANGED <<file, todo, pc, calls, life, answered>>

\* The second half: storage.write(), then clear_cache() in the same process.
WriteFile(a) ==
  /\ todo[a] # <<>> /\ copy[a] # <<>>
  /\ db' = Apply(Head(todo[a]), Head(copy[a]))
  /\ blank' = FALSE
  /\ todo' = [todo EXCEPT ![a] = Tail(@)]
  /\ copy' = [copy EXCEPT ![a] = <<>>]
  /\ cache' = IF InServer(a) THEN <<>> ELSE cache
  /\ UNCHANGED <<pc, calls, server, halted, answered>>

Ready(a, place) == pc[a] = place /\ todo[a] = <<>>

\* check_db_file, first test: an empty file is initialised.
CheckFile(a, d, caller) ==
  /\ Ready(a, "checkFile")
  /\ todo' = [todo EXCEPT ![a] = IF blank THEN InitScript(d, caller) ELSE <<>>]
  /\ pc' = [pc EXCEPT ![a] = "checkEnv"]
  /\ UNCHANGED <<file, copy, calls, life, answered>>

\* check_db_file, second test: a file of another environment is started over.
CheckEnv(a, d, caller) ==
  /\ Ready(a, "checkEnv")
  /\ todo' = [todo EXCEPT ![a] =
                IF Knows(d.env) THEN <<>>
                ELSE <<Truncate>> \o InitScript(d, caller)]
  /\ pc' = [pc EXCEPT ![a] = "mark"]
  /\ UNCHANGED <<file, copy, calls, life, answered>>

-----------------------------------------------------------------------------
(* The command line: run_arcas and the operations of ARCAS_OPS_DICT.       *)

Job(c) == Head(run[c].jobs)

\* A cleanup neither checks the file nor runs the prechecks.
CliStart(c) ==
  /\ Ready(c, "idle")
  /\ \E inv \in Invocations :
       /\ inv.jobs # <<>>
       /\ run' = [run EXCEPT ![c] = inv]
       /\ pc' = [pc EXCEPT ![c] = IF Head(inv.jobs) = "CLEANUP" THEN "prompt"
                                                                ELSE "checkFile"]
  /\ UNCHANGED <<file, todo, copy, req, inbox, life, answered>>

CliCheckFile(c) == CheckFile(c, run[c].dep, "cli")
CliCheckEnv(c) == CheckEnv(c, run[c].dep, "cli")

\* clean_up before it marks the job: the operator confirms, or gives up, or
\* the cleanup-prompt call cannot reach the server and its missing reply is
\* dereferenced, which the handler records as a failed cleanup.  A call that
\* does reach it changes nothing the cleanup's own request would not: its
\* hook has the server check the file, here left to that request.
CliPrompt(c) ==
  /\ Ready(c, "prompt")
  /\ \/ pc' = [pc EXCEPT ![c] = "mark"] /\ UNCHANGED todo
     \/ pc' = [pc EXCEPT ![c] = "idle"] /\ UNCHANGED todo
     \/ /\ server # "up"
        /\ pc' = [pc EXCEPT ![c] = "idle"]
        /\ todo' = [todo EXCEPT ![c] = <<Update(Failed, "CLEANUP")>>]
  /\ UNCHANGED <<file, copy, calls, life, answered>>

\* The environment guard of the operation, then its IN PROGRESS.
CliMark(c) ==
  /\ Ready(c, "mark")
  /\ IF Allows(Job(c), run[c].dep)
     THEN /\ todo' = [todo EXCEPT ![c] = <<Update(InProgress, Job(c))>>]
          /\ pc' = [pc EXCEPT ![c] = "send"]
     ELSE /\ pc' = [pc EXCEPT ![c] = "idle"]
          /\ UNCHANGED todo
  /\ UNCHANGED <<file, copy, calls, life, answered>>

\* A bug: the command line does not wait for the answer.
CliSendUnawaited(c) ==
  /\ Ready(c, "send") /\ server = "up"
  /\ \E t \in Threads :
       /\ Ready(t, "free")
       /\ req' = [req EXCEPT ![t] =
                    [client |-> NoClient, job |-> Job(c), dep |-> run[c].dep]]
       /\ pc' = [pc EXCEPT ![c] = "wait", ![t] = "checkFile"]
  /\ inbox' = [inbox EXCEPT ![c] = "200"]
  /\ UNCHANGED <<file, todo, copy, run, life, answered>>

\* The POST reaches a free thread, or is refused.
CliSend(c) ==
  /\ Ready(c, "send")
  /\ \/ \E t \in Threads :
          /\ server = "up" /\ Ready(t, "free")
          /\ req' = [req EXCEPT ![t] =
                       [client |-> c, job |-> Job(c), dep |-> run[c].dep]]
          /\ pc' = [pc EXCEPT ![c] = "wait", ![t] = "checkFile"]
          /\ inbox' = [inbox EXCEPT ![c] = "none"]
     \/ /\ server # "up"
        /\ pc' = [pc EXCEPT ![c] = "wait"]
        /\ inbox' = [inbox EXCEPT ![c] = "lost"]
        /\ UNCHANGED req
  /\ UNCHANGED <<file, todo, copy, run, life, answered>>

\* Bugs: the precheck's two records swapped; a lost call taken for a success;
\* a cleanup that does not start the list over.
VerdictNoReset(c) ==
  <<Update(IF inbox[c] = "200" THEN Passed ELSE Failed, Job(c))>>

VerdictSkipFirst(c) ==
  IF inbox[c] # "200" THEN <<Update(Failed, Job(c))>>
  ELSE IF Job(c) = "PRECHECK" /\ run[c].skip
  THEN <<Update(Skipped, Job(c)), Update(Passed, Job(c))>>
  ELSE <<Update(Passed, Job(c))>>

VerdictLostIsSuccess(c) ==
  IF inbox[c] = "500" THEN <<Update(Failed, Job(c))>>
                      ELSE <<Update(Passed, Job(c))>>

\* What the operation records once the call is over.  A lost connection makes
\* exec_req return False: FAILED is recorded, False.json() raises, and the
\* except clause records it again; precheck_env calls requests itself.
Verdict(c) ==
  LET j == Job(c) IN
  CASE inbox[c] = "500"  -> <<Update(Failed, j)>>
    [] inbox[c] = "lost" ->
         IF j = "PRECHECK" THEN <<Update(Failed, j)>>
                           ELSE <<Update(Failed, j), Update(Failed, j)>>
    [] OTHER             ->
         IF j = "CLEANUP" THEN <<Truncate>> \o InitScript(run[c].dep, "cli")
                                 \o <<Update(Passed, "CLEANUP")>>
         ELSE IF j = "PRECHECK" /\ run[c].skip
         THEN <<Update(Passed, j), Update(Skipped, j)>>
         ELSE <<Update(Passed, j)>>

CliConclude(c) ==
  /\ Ready(c, "wait") /\ inbox[c] # "none"
  /\ todo' = [todo EXCEPT ![c] = Verdict(c)]
  /\ run' = [run EXCEPT ![c].jobs = Tail(@)]
  /\ pc' = [pc EXCEPT ![c] =
              IF inbox[c] = "200" /\ Len(run[c].jobs) > 1 THEN "mark" ELSE "idle"]
  /\ inbox' = [inbox EXCEPT ![c] = "none"]
  /\ UNCHANGED <<file, copy, req, life, answered>>

\* ctrl-c: the process is gone, its request is not.
CliInterrupt(c) ==
  /\ c \in Interruptible
  /\ pc[c] # "idle" \/ todo[c] # <<>>
  /\ pc' = [pc EXCEPT ![c] = "idle"]
  /\ todo' = [todo EXCEPT ![c] = <<>>]
  /\ copy' = [copy EXCEPT ![c] = <<>>]
  /\ inbox' = [inbox EXCEPT ![c] = "none"]
  /\ req' = [t \in Threads |-> IF req[t].client = c
                               THEN [req[t] EXCEPT !.client = NoClient]
                               ELSE req[t]]
  /\ UNCHANGED <<file, run, life, answered>>

-----------------------------------------------------------------------------
(* The server: before_request_func, the endpoint, after_request_func.      *)

UiPost(t) ==
  /\ server = "up" /\ Ready(t, "free")
  /\ \E r \in UiRequests :
       req' = [req EXCEPT ![t] = [client |-> NoClient, job |-> r.job, dep |-> r.dep]]
  /\ pc' = [pc EXCEPT ![t] = "checkFile"]
  /\ UNCHANGED <<file, todo, copy, run, inbox, life, answered>>

MarkedBy(t) == Marked(req[t].job, req[t].dep)

\* Bugs: no record of a failure; an endpoint outside the mapping recorded
\* nevertheless.
RecordNoFailure(s, t) ==
  IF MarkedBy(t) = NoJob \/ s = Failed THEN <<>> ELSE <<Update(s, MarkedBy(t))>>

RecordUnmapped(s, t) == <<Update(s, MarkedBy(t))>>

Record(s, t) == IF MarkedBy(t) = NoJob THEN <<>> ELSE <<Update(s, MarkedBy(t))>>

ThreadCheckFile(t) == CheckFile(t, req[t].dep, "server")
ThreadCheckEnv(t) == CheckEnv(t, req[t].dep, "server")

ThreadMark(t) ==
  /\ Ready(t, "mark")
  /\ todo' = [todo EXCEPT ![t] = Record(InProgress, t)]
  /\ pc' = [pc EXCEPT ![t] = "work"]
  /\ UNCHANGED <<file, copy, calls, life, answered>>

ThreadWork(t) ==
  /\ Ready(t, "work")
  /\ \/ /\ pc' = [pc EXCEPT ![t] = "200"]
        /\ todo' = [todo EXCEPT ![t] = Record(Passed, t)]
        /\ answered' = answered \cup {[job |-> req[t].job, dep |-> req[t].dep]}
     \/ /\ pc' = [pc EXCEPT ![t] = "500"]
        /\ todo' = [todo EXCEPT ![t] = Record(Failed, t)]
        /\ UNCHANGED answered
  /\ UNCHANGED <<file, copy, calls, life>>

ThreadReply(t) ==
  /\ pc[t] \in {"200", "500"} /\ todo[t] = <<>>
  /\ inbox' = IF req[t].client = NoClient THEN inbox
              ELSE [inbox EXCEPT ![req[t].client] = pc[t]]
  /\ req' = [req EXCEPT ![t].client = NoClient]
  /\ pc' = [pc EXCEPT ![t] = "free"]
  /\ UNCHANGED <<file, todo, copy, run, life, answered>>

\* deployStatusOverview: search() answers from the query cache, or reads the
\* file and then stores the result in the cache.
OverviewRead(t) ==
  /\ server = "up" /\ Ready(t, "free")
  /\ cache = <<>>
  /\ copy' = [copy EXCEPT ![t] = <<db>>]
  /\ pc' = [pc EXCEPT ![t] = "overview"]
  /\ UNCHANGED <<file, todo, calls, life, answered>>

OverviewStore(t) ==
  /\ pc[t] = "overview"
  /\ cache' = <<Running(Head(copy[t]))>>
  /\ copy' = [copy EXCEPT ![t] = <<>>]
  /\ pc' = [pc EXCEPT ![t] = "free"]
  /\ UNCHANGED <<file, todo, calls, server, halted, answered>>

Crash ==
  /\ server # "down"
  /\ server' = "down"
  /\ pc' = [a \in Actors |-> IF a \in Threads THEN "free" ELSE pc[a]]
  /\ todo' = [a \in Actors |-> IF InServer(a) THEN <<>> ELSE todo[a]]
  /\ copy' = [a \in Actors |-> IF InServer(a) THEN <<>> ELSE copy[a]]
  /\ inbox' = [c \in Clis |-> IF \E t \in Threads : req[t].client = c
                              THEN "lost" ELSE inbox[c]]
  /\ req' = [t \in Threads |-> [req[t] EXCEPT !.client = NoClient]]
  /\ halted' = {}
  /\ cache' = <<>>
  /\ UNCHANGED <<file, run, answered>>

\* configure(): update_in_progress_to_error searches once, which fills the
\* query cache, then fails the jobs it found one by one, and only then does
\* the server listen.
Restart ==
  /\ server = "down"
  /\ server' = "recovering"
  /\ halted' = Running(db)
  /\ cache' = <<Running(db)>>
  /\ UNCHANGED <<file, work, calls, answered>>

RecoverNext ==
  /\ server = "recovering" /\ todo[Prober] = <<>>
  /\ \E i \in 1..Len(JobOrder) :
       /\ JobOrder[i] \in halted
       /\ \A k \in 1..(i-1) : JobOrder[k] \notin halted
       /\ todo' = [todo EXCEPT ![Prober] = <<Update(Failed, JobOrder[i])>>]
       /\ halted' = halted \ {JobOrder[i]}
  /\ UNCHANGED <<file, copy, pc, calls, server, cache, answered>>

\* A bug: the server listens before the recovery loop is done.
ListenEarly ==
  /\ server = "recovering"
  /\ server' = "up" /\ halted' = {}
  /\ UNCHANGED <<file, work, calls, cache, answered>>

Listen ==
  /\ server = "recovering" /\ todo[Prober] = <<>> /\ halted = {}
  /\ server' = "up"
  /\ UNCHANGED <<file, work, calls, halted, cache, answered>>

-----------------------------------------------------------------------------
AnyDeployment == CHOOSE d \in Deployments : TRUE

\* A server that has started on an empty file: its search found nothing.
Init ==
  /\ db = <<>> /\ blank = TRUE
  /\ todo = [a \in Actors |-> <<>>]
  /\ copy = [a \in Actors |-> <<>>]
  /\ pc = [a \in Actors |-> IF a \in Threads THEN "free" ELSE "idle"]
  /\ run = [c \in Clis |-> [dep |-> AnyDeployment, jobs |-> <<>>, skip |-> FALSE]]
  /\ req = [t \in Threads |->
              [client |-> NoClient, job |-> "PRECHECK", dep |-> AnyDeployment]]
  /\ inbox = [c \in Clis |-> "none"]
  /\ server = "up"
  /\ halted = {}
  /\ cache = <<{}>>
  /\ answered = {}

CliStep(c) ==
  \/ CliCheckFile(c) \/ CliCheckEnv(c) \/ CliPrompt(c) \/ CliMark(c)
  \/ CliSend(c) \/ CliConclude(c)

ThreadStep(t) ==
  \/ ThreadCheckFile(t) \/ ThreadCheckEnv(t) \/ ThreadMark(t)
  \/ ThreadWork(t) \/ ThreadReply(t) \/ OverviewStore(t)

Working ==
  \/ \E a \in Actors : ReadFile(a) \/ WriteFile(a)
  \/ \E c \in Clis : CliStart(c) \/ CliStep(c) \/ CliInterrupt(c)
  \/ \E t \in Threads : UiPost(t) \/ ThreadStep(t) \/ OverviewRead(t)

Recovering == Restart \/ RecoverNext \/ Listen

Next == Working \/ Crash \/ Recovering

Spec == Init /\ [][Next]_vars

\* Every handler's polls are bounded, so a thread at work comes to an answer;
\* nothing stops a command line but ctrl-c.
Progress ==
  /\ \A a \in Actors : WF_vars(ReadFile(a)) /\ WF_vars(WriteFile(a))
  /\ \A c \in Clis : WF_vars(CliStep(c))
  /\ \A t \in Threads : WF_vars(ThreadStep(t))

\* A server that does not crash.
SteadySpec == Init /\ [][Working]_vars /\ Progress

-----------------------------------------------------------------------------
(* What is promised.                                                       *)

Pending(a) == {todo[a][i] : i \in 1..Len(todo[a])}

Requests == [client: Clis \cup {NoClient}, job: Jobs, dep: Deployments]

Places == {"idle", "free", "checkFile", "checkEnv", "prompt", "mark", "send",
           "wait", "work", "200", "500", "overview"}

\* Type invariant.
TypeOK ==
  /\ db \in Seq(Table) /\ blank \in BOOLEAN
  /\ todo \in [Actors -> Seq(Op)]
  /\ copy \in [Actors -> Seq(Seq(Table))] /\ \A a \in Actors : Len(copy[a]) <= 1
  /\ pc \in [Actors -> Places]
  /\ run \in [Clis -> Invocation]
  /\ req \in [Threads -> Requests]
  /\ inbox \in [Clis -> {"none", "200", "500", "lost"}]
  /\ server \in {"up", "down", "recovering"}
  /\ halted \in SUBSET Jobs
  /\ cache \in Seq(SUBSET Jobs) /\ Len(cache) <= 1
  /\ answered \in SUBSET [job: Jobs, dep: Deployments]

Earned(j) == \E r \in answered : r.job = j \/ Marked(r.job, r.dep) = j

PassedIn(d) == {j \in Jobs : \E i \in 1..Len(d) : d[i].st[j] = Passed}

\* However threads, command lines, crashes and recoveries interleave their
\* reads and writes of the file, no job is ever shown as PASSED that no
\* request answered with 200 accounts for: a lost update may bring an old
\* verdict back, it never invents one.
PassedIsEarned == \A j \in PassedIn(db) : Earned(j)

\* The code that has yet to record a verdict for a job shown IN PROGRESS.
Owns(a, j) ==
  \/ \E op \in Pending(a) : op.kind # "insert" /\ (op.kind = "update" => op.job = j)
  \/ a \in Clis /\ pc[a] \in {"send", "wait"} /\ Job(a) = j
  \/ a \in Threads /\ pc[a] = "work" /\ MarkedBy(a) = j

\* No job is left IN PROGRESS with nobody at work on it: while the server is
\* up, some process still has the job's verdict to write (after_request_func:
\* "update db with deployment job status").
InProgressIsOwned ==
  server = "up" => \A j \in Running(db) : \E a \in Actors : Owns(a, j)

\* With one command line and no crash the request and its sender take turns:
\* no two processes are ever inside a read-modify-write of the file at once,
\* and the component list is never inserted a second time.
TurnsTaken ==
  /\ \A a, b \in Actors : copy[a] # <<>> /\ copy[b] # <<>> /\ a # b
                            => "overview" \in {pc[a], pc[b]}
  /\ Len(db) <= 1

\* "incase of server restart all the in-progress(halted) jobs needs to be
\* error" (configure): once a restarted server listens, a job still shown IN
\* PROGRESS is one that a live command line is about to conclude.
RestartSettles ==
  [][Listen => \A j \in Running(db) : \E c \in Clis : Owns(c, j)]_vars

\* deployStatusOverview, "if any job started return True else False": a
\* cached answer agrees with the file.
OverviewTruthful ==
  server = "up" /\ cache # <<>> => (Head(cache) = {} <=> Running(db) = {})

\* A job shown IN PROGRESS is given a verdict in the end.
Settles == \A j \in Jobs : j \in Running(db) ~> j \notin Running(db)

\* The jobs a list shows anything of but that they have not been started or
\* are not part of this kind of deployment.
Begun(d) ==
  {j \in Jobs : \E i \in 1..Len(d) : d[i].st[j] \notin {NotStarted, NotApplicable}}

\* clean_up, "reset DB once cleanup is successful": when its last write has
\* set CLEANUP to PASSED, nothing is left of the old deployment's jobs: none
\* has passed, failed, was skipped or is still in progress.
CleanupResets ==
  [][\A c \in Clis :
       WriteFile(c) /\ Head(todo[c]) = Update(Passed, "CLEANUP")
         => Begun(db') \subseteq {"CLEANUP"}]_vars
=============================================================================
