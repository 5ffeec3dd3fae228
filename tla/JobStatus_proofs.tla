-------------------------- MODULE JobStatus_proofs --------------------------
(***************************************************************************)
(* That the job status file is well formed and that no verdict PASSED is   *)
(* invented, for any number of command lines and server threads, any       *)
(* invocations and any UI requests, lost updates, crashes and interrupts   *)
(* included.                                                               *)
(***************************************************************************)
EXTENDS JobStatus, TLAPS

\* A list stays one when a job of it gets another status.
LEMMA WithStatusType ==
  ASSUME NEW t \in Table, NEW j \in Jobs, NEW s \in Statuses
  PROVE  WithStatus(t, j, s) \in Table
<1>1. t.env \in Envs /\ t.st \in [Jobs -> Statuses]
  BY DEF Table
<1>2. [t.st EXCEPT ![j] = s] \in [Jobs -> Statuses]
  BY <1>1
<1> QED BY <1>1, <1>2 DEF WithStatus, Table

\* What a TinyDB operation leaves of a well-formed file is well-formed.
LEMMA ApplyType ==
  ASSUME NEW op \in Op, NEW d \in Seq(Table)
  PROVE  Apply(op, d) \in Seq(Table)
<1>1. CASE op.kind = "truncate"
  BY <1>1 DEF Apply
<1>2. CASE op.kind = "insert"
  <2>1. op.env \in Envs
    BY <1>2 DEF Op
  <2>2. Fresh(op.env) \in Table
    BY <2>1 DEF Fresh, Table, Statuses, NotStarted
  <2> QED BY <1>2, <2>2 DEF Apply
<1>3. CASE op.kind = "update"
  <2>1. op.to \in Statuses /\ op.job \in Jobs
    BY <1>3 DEF Op
  <2>2. \A i \in 1..Len(d) : WithStatus(d[i], op.job, op.to) \in Table
    BY <2>1, WithStatusType
  <2>3. Apply(op, d) = [i \in 1..Len(d) |-> WithStatus(d[i], op.job, op.to)]
    BY <1>3 DEF Apply
  <2> QED BY <2>2, <2>3
<1> QED BY <1>1, <1>2, <1>3 DEF Op

\* An update is a TinyDB operation.
LEMMA UpdateType ==
  ASSUME NEW s \in Statuses, NEW j \in Jobs
  PROVE  Update(s, j) \in Op
BY DEF Update, Op

\* initialize_db asks for well-formed operations only.
LEMMA InitScriptType ==
  ASSUME NEW d \in Deployments, NEW caller
  PROVE  InitScript(d, caller) \in Seq(Op)
<1>1. \A j \in Jobs : NA(j) \in Op
  BY UpdateType DEF NA, Statuses, NotApplicable
<1>2. Insert(d.env) \in Op
  BY DEF Insert, Op, Deployments
<1>3. /\ NA("VCF_PRECONFIG") \in Op /\ NA("VMC_PRECONFIG") \in Op
      /\ NA("MGMT") \in Op /\ NA("WORKLOAD_PRECONFIG") \in Op
      /\ NA("SHARED_SERVICE") \in Op /\ NA("WCP_CONFIG") \in Op
      /\ NA("WCP") \in Op /\ NA("NAMESPACE") \in Op
  BY <1>1 DEF Jobs
<1> QED BY <1>2, <1>3 DEF InitScript

\* What the server finds for a path is a job or none.
LEMMA MarkedType ==
  ASSUME NEW j, NEW d PROVE Marked(j, d) \in Jobs \cup {NoJob}
<1> DEFINE p == Endpoint(j, d)
           hits == {i \in 1..Len(Mapping) : Within(p, Mapping[i].path)}
           best == CHOOSE i \in hits : \A k \in hits : i <= k
<1>1. CASE hits = {}
  BY <1>1 DEF Marked, MatchEndpoint
<1>2. CASE hits # {}
  <2>1. Len(Mapping) = 7
    BY DEF Mapping
  <2>2. \E i \in hits : \A k \in hits : i <= k
    BY <1>2, <2>1
  <2>3. best \in 1..7
    BY <2>1, <2>2
  <2>4. Mapping[best].job \in Jobs
    <3>1. \A i \in 1..7 : i \in {1, 2, 3, 4, 5, 6, 7}
      OBVIOUS
    <3>2. /\ Mapping[1].job = "PRECHECK" /\ Mapping[2].job = "AVI"
          /\ Mapping[3].job = "WCP_CONFIG" /\ Mapping[4].job = "WCP"
          /\ Mapping[5].job = "NAMESPACE" /\ Mapping[6].job = "WORKLOAD"
          /\ Mapping[7].job = "EXTENSIONS"
      BY DEF Mapping
    <3> QED BY <2>3, <3>1, <3>2 DEF Jobs
  <2>5. Marked(j, d) = Mapping[best].job
    BY <1>2 DEF Marked, MatchEndpoint
  <2> QED BY <2>4, <2>5
<1> QED BY <1>1, <1>2

-----------------------------------------------------------------------------
(* Type correctness.                                                       *)

CliBusy == {"checkFile", "checkEnv", "prompt", "mark", "send", "wait"}

\* What typing rests on: a busy command line has a job in hand, and a thread
\* that answers the overview holds what it read and has nothing to write.
InHand ==
  /\ \A c \in Clis : pc[c] \in CliBusy => run[c].jobs # <<>>
  /\ \A t \in Threads : pc[t] = "overview" => copy[t] # <<>> /\ todo[t] = <<>>

TypeInv == TypeOK /\ InHand

\* The initial state is well typed.
LEMMA InitType == Init => TypeInv
<1> SUFFICES ASSUME Init PROVE TypeInv
  OBVIOUS
<1>1. AnyDeployment \in Deployments
  <2>1. [env |-> "vmc", kind |-> "tkgm"] \in Deployments
    BY DEF Deployments, Envs, Kinds
  <2> QED BY <2>1 DEF AnyDeployment
<1>2. TypeOK
  BY <1>1 DEF Init, TypeOK, Actors, Places, Invocation, Requests, Jobs
<1>3. InHand
  BY ActorAssumption DEF Init, InHand, Actors, CliBusy
<1> QED BY <1>2, <1>3 DEF TypeInv

\* So is what an actor has to make, when it is given a script.
LEMMA TodoType ==
  ASSUME TypeOK, NEW a, NEW s \in Seq(Op)
  PROVE  [todo EXCEPT ![a] = s] \in [Actors -> Seq(Op)]
BY DEF TypeOK

\* So is what the actors have read, when one of them drops its copy.
LEMMA NoCopyType ==
  ASSUME TypeOK, NEW a, copy' = [copy EXCEPT ![a] = <<>>]
  PROVE  copy' \in [Actors -> Seq(Seq(Table))] /\ \A b \in Actors : Len(copy'[b]) <= 1
<1>1. <<>> \in Seq(Seq(Table)) /\ Len(<<>>) = 0
  OBVIOUS
<1>2. copy' \in [Actors -> Seq(Seq(Table))]
  BY <1>1 DEF TypeOK
<1>3. \A b \in Actors : copy'[b] = copy[b] \/ copy'[b] = <<>>
  BY DEF TypeOK
<1> QED BY <1>1, <1>2, <1>3 DEF TypeOK

\* Reading the file keeps the types.
LEMMA ReadFileType ==
  ASSUME TypeInv, NEW a \in Actors, ReadFile(a) PROVE TypeInv'
<1>1. copy' \in [Actors -> Seq(Seq(Table))] /\ \A b \in Actors : Len(copy'[b]) <= 1
  BY DEF TypeInv, TypeOK, ReadFile
<1>2. TypeOK'
  BY <1>1 DEF TypeInv, TypeOK, ReadFile, file, calls, life
<1>3. InHand'
  BY DEF TypeInv, TypeOK, InHand, ReadFile, file, calls, life, Actors
<1> QED BY <1>2, <1>3 DEF TypeInv

\* Writing it back keeps the types.
LEMMA WriteFileType ==
  ASSUME TypeInv, NEW a \in Actors, WriteFile(a) PROVE TypeInv'
<1>1. Head(todo[a]) \in Op /\ Head(copy[a]) \in Seq(Table)
  BY DEF TypeInv, TypeOK, WriteFile
<1>2. db' \in Seq(Table)
  BY <1>1, ApplyType DEF WriteFile
<1>3. copy' \in [Actors -> Seq(Seq(Table))] /\ \A b \in Actors : Len(copy'[b]) <= 1
  BY DEF TypeInv, TypeOK, WriteFile
<1>4. todo' \in [Actors -> Seq(Op)]
  BY DEF TypeInv, TypeOK, WriteFile
<1>5. cache' \in Seq(SUBSET Jobs) /\ Len(cache') <= 1
  BY DEF TypeInv, TypeOK, WriteFile
<1>6. TypeOK'
  BY <1>2, <1>3, <1>4, <1>5 DEF TypeInv, TypeOK, WriteFile, calls
<1>7. InHand'
  BY DEF TypeInv, TypeOK, InHand, WriteFile, calls, Actors
<1> QED BY <1>6, <1>7 DEF TypeInv

\* check_db_file, whoever calls it.
LEMMA CheckType ==
  ASSUME TypeInv, NEW a \in Clis \cup Threads, NEW d \in Deployments, NEW caller,
         CheckFile(a, d, caller) \/ CheckEnv(a, d, caller)
  PROVE  TypeInv'
<1>1. InitScript(d, caller) \in Seq(Op)
  BY InitScriptType
<1>2. <<Truncate>> \o InitScript(d, caller) \in Seq(Op)
  BY <1>1 DEF Truncate, Op
<1>3. todo' \in [Actors -> Seq(Op)]
  <2>0. <<>> \in Seq(Op)
    OBVIOUS
  <2>1. CASE CheckFile(a, d, caller)
    BY <1>1, <2>0, <2>1, TodoType DEF TypeInv, CheckFile
  <2>2. CASE CheckEnv(a, d, caller)
    BY <1>2, <2>0, <2>2, TodoType DEF TypeInv, CheckEnv
  <2> QED BY <2>1, <2>2
<1>4. TypeOK'
  BY <1>3 DEF TypeInv, TypeOK, CheckFile, CheckEnv, file, calls, life, Places, Actors
<1>5. InHand'
  BY ActorAssumption
     DEF TypeInv, TypeOK, InHand, CheckFile, CheckEnv, file, calls, life, Actors, CliBusy, Ready
<1> QED BY <1>4, <1>5 DEF TypeInv

\* The command line starts an invocation.
LEMMA CliStartType ==
  ASSUME TypeInv, NEW c \in Clis, CliStart(c) PROVE TypeInv'
<1>1. run' \in [Clis -> Invocation]
  BY ActorAssumption DEF TypeInv, TypeOK, CliStart
<1>2. TypeOK'
  BY <1>1 DEF TypeInv, TypeOK, CliStart, file, life, Places, Actors
<1>3. InHand'
  BY ActorAssumption
     DEF TypeInv, TypeOK, InHand, CliStart, file, life, Actors, CliBusy
<1> QED BY <1>2, <1>3 DEF TypeInv

\* It asks whether to go on.
LEMMA CliPromptType ==
  ASSUME TypeInv, NEW c \in Clis, CliPrompt(c) PROVE TypeInv'
<1>1. Update(Failed, "CLEANUP") \in Op
  BY DEF Update, Op, Failed, Statuses, Jobs
<1>2. todo' \in [Actors -> Seq(Op)]
  <2>1. <<Update(Failed, "CLEANUP")>> \in Seq(Op)
    BY <1>1
  <2>2. todo' = todo \/ todo' = [todo EXCEPT ![c] = <<Update(Failed, "CLEANUP")>>]
    BY DEF CliPrompt
  <2> QED BY <2>1, <2>2, TodoType DEF TypeInv, TypeOK
<1>3. TypeOK'
  BY <1>2 DEF TypeInv, TypeOK, CliPrompt, file, calls, life, Places, Actors
<1>4. InHand'
  BY ActorAssumption
     DEF TypeInv, TypeOK, InHand, CliPrompt, Ready, file, calls, life, Actors, CliBusy
<1> QED BY <1>3, <1>4 DEF TypeInv

\* While a command line is busy it has a job in hand, of a deployment.
LEMMA JobType ==
  ASSUME TypeInv, NEW c \in Clis, pc[c] \in CliBusy
  PROVE  Job(c) \in Jobs /\ run[c].dep \in Deployments
BY DEF TypeInv, TypeOK, InHand, Job, Invocation

\* It marks the job.
LEMMA CliMarkType ==
  ASSUME TypeInv, NEW c \in Clis, CliMark(c) PROVE TypeInv'
<1>1. Update(InProgress, Job(c)) \in Op
  BY JobType, UpdateType DEF CliMark, Ready, CliBusy, InProgress, Statuses
<1>2. todo' \in [Actors -> Seq(Op)]
  <2>1. <<Update(InProgress, Job(c))>> \in Seq(Op)
    BY <1>1
  <2>2. todo' = todo \/ todo' = [todo EXCEPT ![c] = <<Update(InProgress, Job(c))>>]
    BY DEF CliMark
  <2> QED BY <2>1, <2>2, TodoType DEF TypeInv, TypeOK
<1>3. TypeOK'
  BY <1>2 DEF TypeInv, TypeOK, CliMark, file, calls, life, Places, Actors
<1>4. InHand'
  BY ActorAssumption
     DEF TypeInv, TypeOK, InHand, CliMark, Ready, file, calls, life, Actors, CliBusy
<1> QED BY <1>3, <1>4 DEF TypeInv

\* It posts the request.
LEMMA CliSendType ==
  ASSUME TypeInv, NEW c \in Clis, CliSend(c) PROVE TypeInv'
<1>1. Job(c) \in Jobs /\ run[c].dep \in Deployments
  BY JobType DEF CliSend, Ready, CliBusy
<1>2. req' \in [Threads -> Requests]
  <2> DEFINE r == [client |-> c, job |-> Job(c), dep |-> run[c].dep]
  <2>1. r \in Requests
    BY <1>1 DEF Requests
  <2>2. req' = req \/ \E t \in Threads : req' = [req EXCEPT ![t] = r]
    BY DEF CliSend
  <2> QED BY <2>1, <2>2 DEF TypeInv, TypeOK
<1>3. pc' \in [Actors -> Places] /\ inbox' \in [Clis -> {"none", "200", "500", "lost"}]
  BY DEF TypeInv, TypeOK, CliSend, Places, Actors
<1>4. TypeOK'
  BY <1>2, <1>3 DEF TypeInv, TypeOK, CliSend, file, life
<1>5. InHand'
  BY ActorAssumption
     DEF TypeInv, TypeOK, InHand, CliSend, Ready, file, life, Actors, CliBusy
<1> QED BY <1>4, <1>5 DEF TypeInv

\* What a command line concludes of an answer is a script.
LEMMA VerdictType ==
  ASSUME TypeInv, NEW c \in Clis, pc[c] = "wait" PROVE Verdict(c) \in Seq(Op)
<1>1. Job(c) \in Jobs /\ run[c].dep \in Deployments
  BY JobType DEF CliBusy
<1>2. /\ Update(Failed, Job(c)) \in Op /\ Update(Passed, Job(c)) \in Op
      /\ Update(Skipped, Job(c)) \in Op /\ Update(Passed, "CLEANUP") \in Op
  BY <1>1, UpdateType DEF Failed, Passed, Skipped, Statuses, Jobs
<1>3. InitScript(run[c].dep, "cli") \in Seq(Op)
  BY <1>1, InitScriptType
<1>4. Truncate \in Op
  BY DEF Truncate, Op
<1> QED BY <1>2, <1>3, <1>4 DEF Verdict

\* Of more than one job there is one left after the first.
LEMMA TailLeft ==
  ASSUME NEW s \in Seq(Jobs), Len(s) > 1 PROVE Tail(s) # <<>>
<1> DEFINE n == Len(s)
           m == Len(Tail(s))
<1>1. n \in Nat /\ m = n - 1 /\ n > 1
  OBVIOUS
<1> HIDE DEF n, m
<1>2. m # 0
  BY <1>1
<1>3. Len(<<>>) = 0
  OBVIOUS
<1> QED BY <1>2, <1>3 DEF m

\* The command line records the verdict and turns to the next job.
LEMMA CliConcludeType ==
  ASSUME TypeInv, NEW c \in Clis, CliConclude(c) PROVE TypeInv'
<1>1. Verdict(c) \in Seq(Op)
  BY VerdictType DEF CliConclude, Ready
<1>2. run[c].jobs # <<>> /\ run[c] \in Invocation
  BY DEF TypeInv, TypeOK, InHand, CliConclude, Ready, CliBusy
<1>3. run[c].jobs \in Seq(Jobs) /\ Tail(run[c].jobs) \in Seq(Jobs)
  BY <1>2 DEF Invocation
<1>4. run' \in [Clis -> Invocation]
  BY <1>2, <1>3 DEF TypeInv, TypeOK, CliConclude, Invocation
<1>5. todo' \in [Actors -> Seq(Op)] /\ pc' \in [Actors -> Places]
  BY <1>1 DEF TypeInv, TypeOK, CliConclude, Places, Actors
<1>6. TypeOK'
  BY <1>4, <1>5 DEF TypeInv, TypeOK, CliConclude, file, life
<1>7. Len(run[c].jobs) > 1 => run'[c].jobs # <<>>
  <2>1. run'[c].jobs = Tail(run[c].jobs)
    BY <1>2 DEF TypeInv, TypeOK, CliConclude, Invocation
  <2> QED BY <1>3, <2>1, TailLeft
<1>8. InHand'
  BY <1>7, ActorAssumption
     DEF TypeInv, TypeOK, InHand, CliConclude, file, life, Actors, CliBusy
<1> QED BY <1>6, <1>8 DEF TypeInv

\* It is stopped by ctrl-c.
LEMMA CliInterruptType ==
  ASSUME TypeInv, NEW c \in Clis, CliInterrupt(c) PROVE TypeInv'
<1>1. \A t \in Threads : [req[t] EXCEPT !.client = NoClient] \in Requests
  BY DEF TypeInv, TypeOK, Requests
<1>2. req' \in [Threads -> Requests]
  BY <1>1 DEF TypeInv, TypeOK, CliInterrupt
<1>3. copy' \in [Actors -> Seq(Seq(Table))] /\ \A b \in Actors : Len(copy'[b]) <= 1
  BY NoCopyType DEF TypeInv, CliInterrupt
<1>4. todo' \in [Actors -> Seq(Op)] /\ pc' \in [Actors -> Places]
  <2>1. todo' \in [Actors -> Seq(Op)]
    <3>1. todo' = [todo EXCEPT ![c] = <<>>] /\ <<>> \in Seq(Op)
      BY DEF CliInterrupt
    <3> QED BY <3>1, TodoType DEF TypeInv
  <2>2. pc' \in [Actors -> Places]
    BY DEF TypeInv, TypeOK, CliInterrupt, Places
  <2> QED BY <2>1, <2>2
<1>5. TypeOK'
  BY <1>2, <1>3, <1>4 DEF TypeInv, TypeOK, CliInterrupt, file, life
<1>6. InHand'
  BY ActorAssumption
     DEF TypeInv, TypeOK, InHand, CliInterrupt, file, life, Actors, CliBusy
<1> QED BY <1>5, <1>6 DEF TypeInv

\* The UI posts a request.
LEMMA UiPostType ==
  ASSUME TypeInv, NEW t \in Threads, UiPost(t) PROVE TypeInv'
<1>1. PICK r \in UiRequests :
        req' = [req EXCEPT ![t] = [client |-> NoClient, job |-> r.job, dep |-> r.dep]]
  BY DEF UiPost
<1>2. [client |-> NoClient, job |-> r.job, dep |-> r.dep] \in Requests
  BY ActorAssumption DEF Requests
<1>3. req' \in [Threads -> Requests]
  BY <1>1, <1>2 DEF TypeInv, TypeOK
<1>4. TypeOK'
  BY <1>3 DEF TypeInv, TypeOK, UiPost, file, life, Places
<1>5. InHand'
  BY ActorAssumption
     DEF TypeInv, TypeOK, InHand, UiPost, file, life, Actors, CliBusy
<1> QED BY <1>4, <1>5 DEF TypeInv

\* What a hook of the server records is a script.
LEMMA RecordType ==
  ASSUME NEW s \in Statuses, NEW t \in Threads PROVE Record(s, t) \in Seq(Op)
<1>1. CASE MarkedBy(t) = NoJob
  BY <1>1 DEF Record
<1>2. CASE MarkedBy(t) # NoJob
  <2>1. MarkedBy(t) \in Jobs
    BY <1>2, MarkedType DEF MarkedBy
  <2>2. Update(s, MarkedBy(t)) \in Op
    BY <2>1, UpdateType
  <2> QED BY <1>2, <2>2 DEF Record
<1> QED BY <1>1, <1>2

\* The hook before the request marks the job.
LEMMA ThreadMarkType ==
  ASSUME TypeInv, NEW t \in Threads, ThreadMark(t) PROVE TypeInv'
<1>1. Record(InProgress, t) \in Seq(Op)
  BY RecordType DEF InProgress, Statuses
<1>2. todo' \in [Actors -> Seq(Op)]
  BY <1>1, TodoType DEF TypeInv, ThreadMark
<1>3. TypeOK'
  BY <1>2 DEF TypeInv, TypeOK, ThreadMark, file, calls, life, Places
<1>4. InHand'
  BY ActorAssumption
     DEF TypeInv, TypeOK, InHand, ThreadMark, Ready, file, calls, life, Actors, CliBusy
<1> QED BY <1>3, <1>4 DEF TypeInv

\* The endpoint runs.
LEMMA ThreadWorkType ==
  ASSUME TypeInv, NEW t \in Threads, ThreadWork(t) PROVE TypeInv'
<1>1. Record(Passed, t) \in Seq(Op) /\ Record(Failed, t) \in Seq(Op)
  BY RecordType DEF Passed, Failed, Statuses
<1>2. todo' \in [Actors -> Seq(Op)]
  <2>1. \/ todo' = [todo EXCEPT ![t] = Record(Passed, t)]
        \/ todo' = [todo EXCEPT ![t] = Record(Failed, t)]
    BY DEF ThreadWork
  <2> QED BY <1>1, <2>1, TodoType DEF TypeInv
<1>3. [job |-> req[t].job, dep |-> req[t].dep] \in [job: Jobs, dep: Deployments]
  BY DEF TypeInv, TypeOK, Requests
<1>4. answered' \in SUBSET [job: Jobs, dep: Deployments]
  BY <1>3 DEF TypeInv, TypeOK, ThreadWork
<1>5. TypeOK'
  BY <1>2, <1>4 DEF TypeInv, TypeOK, ThreadWork, file, calls, life, Places
<1>6. InHand'
  BY ActorAssumption
     DEF TypeInv, TypeOK, InHand, ThreadWork, Ready, file, calls, life, Actors, CliBusy
<1> QED BY <1>5, <1>6 DEF TypeInv

\* The hook after the request has recorded the verdict, and the thread replies.
LEMMA ThreadReplyType ==
  ASSUME TypeInv, NEW t \in Threads, ThreadReply(t) PROVE TypeInv'
<1>1. [req[t] EXCEPT !.client = NoClient] \in Requests
  BY DEF TypeInv, TypeOK, Requests
<1>2. req' = [req EXCEPT ![t] = [req[t] EXCEPT !.client = NoClient]]
  BY DEF TypeInv, TypeOK, ThreadReply
<1>3. req' \in [Threads -> Requests]
  BY <1>1, <1>2 DEF TypeInv, TypeOK
<1>4. inbox' \in [Clis -> {"none", "200", "500", "lost"}]
  BY DEF TypeInv, TypeOK, ThreadReply
<1>5. TypeOK'
  BY <1>3, <1>4 DEF TypeInv, TypeOK, ThreadReply, file, life, Places
<1>6. InHand'
  BY ActorAssumption
     DEF TypeInv, TypeOK, InHand, ThreadReply, file, life, Actors, CliBusy
<1> QED BY <1>5, <1>6 DEF TypeInv

\* A thread answers for the overview.
LEMMA OverviewType ==
  ASSUME TypeInv, NEW t \in Threads, OverviewRead(t) \/ OverviewStore(t)
  PROVE  TypeInv'
<1>1. CASE OverviewRead(t)
  <2>1. <<db>> \in Seq(Seq(Table)) /\ Len(<<db>>) = 1 /\ <<db>> # <<>>
    BY DEF TypeInv, TypeOK
  <2>2. copy' \in [Actors -> Seq(Seq(Table))]
    BY <1>1, <2>1 DEF TypeInv, TypeOK, OverviewRead
  <2>3. \A b \in Actors : copy'[b] = copy[b] \/ copy'[b] = <<db>>
    BY <1>1 DEF TypeInv, TypeOK, OverviewRead
  <2>4. TypeOK'
    BY <1>1, <2>1, <2>2, <2>3 DEF TypeInv, TypeOK, OverviewRead, file, calls, life, Places
  <2>5. InHand'
    BY <1>1, <2>1, ActorAssumption
       DEF TypeInv, TypeOK, InHand, OverviewRead, Ready, file, calls, life, Actors, CliBusy
  <2> QED BY <2>4, <2>5 DEF TypeInv
<1>2. CASE OverviewStore(t)
  <2>1. copy' \in [Actors -> Seq(Seq(Table))] /\ \A b \in Actors : Len(copy'[b]) <= 1
    BY <1>2, NoCopyType DEF TypeInv, OverviewStore
  <2>2. Running(Head(copy[t])) \in SUBSET Jobs
    BY DEF Running
  <2>3. cache' \in Seq(SUBSET Jobs) /\ Len(cache') <= 1
    BY <1>2, <2>2 DEF OverviewStore
  <2>4. TypeOK'
    BY <1>2, <2>1, <2>3 DEF TypeInv, TypeOK, OverviewStore, file, calls, Places
  <2>5. InHand'
    BY <1>2, ActorAssumption
       DEF TypeInv, TypeOK, InHand, OverviewStore, file, calls, Actors, CliBusy
  <2> QED BY <2>4, <2>5 DEF TypeInv
<1> QED BY <1>1, <1>2

\* The server ends.
LEMMA CrashType ==
  ASSUME TypeInv, Crash PROVE TypeInv'
<1>1. req' \in [Threads -> Requests]
  <2>1. \A t \in Threads : [req[t] EXCEPT !.client = NoClient] \in Requests
    BY DEF TypeInv, TypeOK, Requests
  <2> QED BY <2>1 DEF Crash
<1>2. copy' \in [Actors -> Seq(Seq(Table))] /\ \A b \in Actors : Len(copy'[b]) <= 1
  <2>1. <<>> \in Seq(Seq(Table)) /\ Len(<<>>) = 0
    OBVIOUS
  <2> QED BY <2>1 DEF TypeInv, TypeOK, Crash
<1>3. todo' \in [Actors -> Seq(Op)]
  <2>1. <<>> \in Seq(Op)
    OBVIOUS
  <2> QED BY <2>1 DEF TypeInv, TypeOK, Crash
<1>4. pc' \in [Actors -> Places] /\ inbox' \in [Clis -> {"none", "200", "500", "lost"}]
  BY DEF TypeInv, TypeOK, Crash, Places
<1>5. cache' \in Seq(SUBSET Jobs) /\ Len(cache') <= 1
  BY DEF Crash
<1>6. TypeOK'
  BY <1>1, <1>2, <1>3, <1>4, <1>5 DEF TypeInv, TypeOK, Crash, file
<1>7. InHand'
  BY ActorAssumption DEF TypeInv, TypeOK, InHand, Crash, file, Actors, CliBusy
<1> QED BY <1>6, <1>7 DEF TypeInv

\* It starts again and fails the jobs that were halted.
LEMMA RecoveringType ==
  ASSUME TypeInv, Recovering PROVE TypeInv'
<1>1. CASE Restart
  <2>1. Running(db) \in SUBSET Jobs
    BY DEF Running
  <2>2. TypeOK'
    BY <1>1, <2>1 DEF TypeInv, TypeOK, Restart, file, work, calls
  <2>3. InHand'
    BY <1>1 DEF TypeInv, InHand, Restart, file, work, calls
  <2> QED BY <2>2, <2>3 DEF TypeInv
<1>2. CASE RecoverNext
  <2>1. PICK i \in 1..Len(JobOrder) :
          /\ JobOrder[i] \in halted
          /\ todo' = [todo EXCEPT ![Prober] = <<Update(Failed, JobOrder[i])>>]
          /\ halted' = halted \ {JobOrder[i]}
    BY <1>2 DEF RecoverNext
  <2>2. JobOrder[i] \in Jobs
    BY <2>1 DEF TypeInv, TypeOK
  <2>3. Update(Failed, JobOrder[i]) \in Op
    BY <2>2, UpdateType DEF Failed, Statuses
  <2>4. <<Update(Failed, JobOrder[i])>> \in Seq(Op)
    BY <2>3
  <2>5. todo' \in [Actors -> Seq(Op)]
    BY <2>1, <2>4, TodoType DEF TypeInv
  <2>6. TypeOK'
    BY <1>2, <2>1, <2>5 DEF TypeInv, TypeOK, RecoverNext, file, calls
  <2>7. InHand'
    BY <1>2, ActorAssumption
       DEF TypeInv, TypeOK, InHand, RecoverNext, file, calls, Actors
  <2> QED BY <2>6, <2>7 DEF TypeInv
<1>3. CASE Listen
  BY <1>3 DEF TypeInv, TypeOK, InHand, Listen, file, work, calls
<1> QED BY <1>1, <1>2, <1>3 DEF Recovering

\* Every step keeps the types.
LEMMA StepType == TypeInv /\ [Next]_vars => TypeInv'
<1> SUFFICES ASSUME TypeInv, [Next]_vars PROVE TypeInv'
  OBVIOUS
<1>1. ASSUME NEW a \in Actors, ReadFile(a) \/ WriteFile(a) PROVE TypeInv'
  BY <1>1, ReadFileType, WriteFileType
<1>2. ASSUME NEW c \in Clis, CliStart(c) \/ CliStep(c) \/ CliInterrupt(c)
      PROVE  TypeInv'
  <2>1. run[c].dep \in Deployments
    BY DEF TypeInv, TypeOK, Invocation
  <2> QED BY <1>2, <2>1, CheckType, CliStartType, CliPromptType, CliMarkType,
             CliSendType, CliConcludeType, CliInterruptType
          DEF CliStep, CliCheckFile, CliCheckEnv
<1>3. ASSUME NEW t \in Threads, UiPost(t) \/ ThreadStep(t) \/ OverviewRead(t)
      PROVE  TypeInv'
  <2>1. req[t].dep \in Deployments
    BY DEF TypeInv, TypeOK, Requests
  <2> QED BY <1>3, <2>1, CheckType, UiPostType, ThreadMarkType, ThreadWorkType,
             ThreadReplyType, OverviewType
          DEF ThreadStep, ThreadCheckFile, ThreadCheckEnv
<1>4. CASE UNCHANGED vars
  BY <1>4 DEF TypeInv, TypeOK, InHand, vars, file, work, calls, life
<1> QED BY <1>1, <1>2, <1>3, <1>4, CrashType, RecoveringType DEF Next, Working

\* Every value the status file, the processes and the server can hold is of
\* its type, whatever interleaves.
THEOREM TypeCorrect == Spec => []TypeOK
<1>1. TypeInv => TypeOK
  BY DEF TypeInv
<1> QED BY <1>1, InitType, StepType, PTL DEF Spec

-----------------------------------------------------------------------------
(* A PASSED is earned.                                                     *)

\* A content of the file, read or written, shows only earned PASSEDs.
Sound(d) == \A j \in PassedIn(d) : Earned(j)

\* Operations still to be made record only earned PASSEDs.
SoundOps(s) ==
  \A i \in 1..Len(s) :
    s[i].kind = "update" /\ s[i].to = Passed => Earned(s[i].job)

\* The command line `c' waits for the answer to its current job.
Awaits(c, j) == pc[c] = "wait" /\ inbox[c] = "none" /\ Job(c) = j

SoundFile == Sound(db)

SoundCopies == \A a \in Actors : copy[a] # <<>> => Sound(Head(copy[a]))

SoundTodo == \A a \in Actors : SoundOps(todo[a])

\* A 200 in the inbox answers the job the command line has in hand ...
SoundInbox ==
  \A c \in Clis : inbox[c] = "200" =>
    pc[c] = "wait" /\ \E r \in answered : r.job = Job(c)

\* ... because a request in flight is the only one of its command line, and
\* is for that job.
SoundCalls ==
  /\ \A t \in Threads : req[t].client \in Clis => Awaits(req[t].client, req[t].job)
  /\ \A t, u \in Threads :
       req[t].client \in Clis /\ req[u].client = req[t].client => t = u

SoundReplies ==
  \A t \in Threads :
    pc[t] = "200" => [job |-> req[t].job, dep |-> req[t].dep] \in answered

\* The inductive invariant.
EarnInv ==
  /\ SoundFile /\ SoundCopies /\ SoundTodo
  /\ SoundInbox /\ SoundCalls /\ SoundReplies

-----------------------------------------------------------------------------
(* Operations and contents.                                                *)

\* What was answered with 200 once, was.
LEMMA EarnedStays ==
  ASSUME answered \subseteq answered', NEW j, Earned(j) PROVE Earned(j)'
BY DEF Earned

\* A TinyDB operation adds at most the verdict it carries.
LEMMA ApplySound ==
  ASSUME NEW op \in Op, NEW d \in Seq(Table), Sound(d),
         op.kind = "update" /\ op.to = Passed => Earned(op.job)
  PROVE  Sound(Apply(op, d))
<1>1. CASE op.kind = "truncate"
  <2>1. PassedIn(<<>>) = {}
    BY DEF PassedIn
  <2> QED BY <1>1, <2>1 DEF Sound, Apply
<1>2. CASE op.kind = "insert"
  <2>1. Apply(op, d) = Append(d, Fresh(op.env))
    BY <1>2 DEF Apply
  <2>2. \A j \in Jobs : Fresh(op.env).st[j] # Passed
    BY DEF Fresh, NotStarted, Passed
  <2>3. \A i \in 1..Len(d) + 1 :
          Append(d, Fresh(op.env))[i] = IF i \in 1..Len(d) THEN d[i] ELSE Fresh(op.env)
    BY DEF Table
  <2>4. Len(Append(d, Fresh(op.env))) = Len(d) + 1
    OBVIOUS
  <2>5. PassedIn(Apply(op, d)) \subseteq PassedIn(d)
    <3> SUFFICES ASSUME NEW j \in Jobs, NEW i \in 1..Len(d) + 1,
                        Append(d, Fresh(op.env))[i].st[j] = Passed
                 PROVE  j \in PassedIn(d)
      BY <2>1, <2>4 DEF PassedIn
    <3> QED BY <2>2, <2>3 DEF PassedIn
  <2> QED BY <2>5 DEF Sound
<1>3. CASE op.kind = "update"
  <2>1. Apply(op, d) = [i \in 1..Len(d) |-> WithStatus(d[i], op.job, op.to)]
    BY <1>3 DEF Apply
  <2>2. op.job \in Jobs
    BY <1>3 DEF Op
  <2>3. SUFFICES ASSUME NEW j \in PassedIn(Apply(op, d)) PROVE Earned(j)
    BY DEF Sound
  <2>4. PICK i \in 1..Len(d) : WithStatus(d[i], op.job, op.to).st[j] = Passed
    BY <2>1, <2>3 DEF PassedIn
  <2>5. d[i].st \in [Jobs -> Statuses] /\ j \in Jobs
    <3>1. d[i] \in Table
      OBVIOUS
    <3>2. j \in Jobs
      BY <2>3 DEF PassedIn
    <3> QED BY <3>1, <3>2 DEF Table
  <2>6. CASE j = op.job
    <3>1. op.to = Passed
      BY <2>4, <2>5, <2>6 DEF WithStatus
    <3> QED BY <1>3, <2>6, <3>1
  <2>7. CASE j # op.job
    <3>1. d[i].st[j] = Passed
      BY <2>4, <2>5, <2>7 DEF WithStatus
    <3>2. j \in PassedIn(d)
      BY <2>5, <3>1 DEF PassedIn
    <3> QED BY <3>2 DEF Sound
  <2> QED BY <2>6, <2>7
<1> QED BY <1>1, <1>2, <1>3 DEF Op

\* No operation invents a PASSED.
LEMMA NoOpsSound == SoundOps(<<>>)
BY DEF SoundOps

\* One operation is sound if the PASSED it records, if any, is earned.
LEMMA OneSound ==
  ASSUME NEW op, op.kind = "update" /\ op.to = Passed => Earned(op.job)
  PROVE  SoundOps(<<op>>)
BY DEF SoundOps

\* What is left of a sound script is sound.
LEMMA TailSound ==
  ASSUME NEW s \in Seq(Op), s # <<>>, SoundOps(s) PROVE SoundOps(Tail(s))
<1>1. \A i \in 1..Len(Tail(s)) : i + 1 \in 1..Len(s) /\ Tail(s)[i] = s[i + 1]
  OBVIOUS
<1> QED BY <1>1 DEF SoundOps

\* Two sound scripts make one.
LEMMA ConcatSound ==
  ASSUME NEW s \in Seq(Op), NEW r \in Seq(Op), SoundOps(s), SoundOps(r)
  PROVE  SoundOps(s \o r)
<1>1. \A i \in 1..Len(s \o r) :
        \/ i \in 1..Len(s) /\ (s \o r)[i] = s[i]
        \/ i - Len(s) \in 1..Len(r) /\ (s \o r)[i] = r[i - Len(s)]
  OBVIOUS
<1> QED BY <1>1 DEF SoundOps

\* An update to any other status needs no account.
LEMMA OtherSound ==
  ASSUME NEW s, s # Passed, NEW j PROVE SoundOps(<<Update(s, j)>>)
BY OneSound DEF Update

\* To record an earned PASSED is sound.
LEMMA PassSound ==
  ASSUME NEW j, Earned(j) PROVE SoundOps(<<Update(Passed, j)>>)
BY OneSound DEF Update

\* initialize_db sets nothing to PASSED.
LEMMA InitScriptSound ==
  ASSUME NEW d, NEW caller PROVE SoundOps(InitScript(d, caller))
<1> DEFINE Harmless(s) == \A i \in 1..Len(s) : s[i].kind = "insert" \/ s[i].to = NotApplicable
<1>1. \A j : NA(j).to = NotApplicable
  BY DEF NA, Update
<1>2. Insert(d.env).kind = "insert"
  BY DEF Insert
<1>3. Harmless(InitScript(d, caller))
  BY <1>1, <1>2 DEF InitScript
<1> QED BY <1>3 DEF SoundOps, Passed, NotApplicable

-----------------------------------------------------------------------------
(* Initial states and steps.                                               *)

\* At first no PASSED is shown.
LEMMA InitEarn == Init => EarnInv
<1> SUFFICES ASSUME Init PROVE EarnInv
  OBVIOUS
<1>1. PassedIn(<<>>) = {}
  BY DEF PassedIn
<1>2. SoundFile /\ SoundCopies /\ SoundTodo
  BY <1>1, NoOpsSound
     DEF Init, SoundFile, SoundCopies, SoundTodo, Sound, Actors
<1>3. SoundInbox /\ SoundReplies
  BY ActorAssumption DEF Init, SoundInbox, SoundReplies, Actors
<1>4. SoundCalls
  BY ActorAssumption DEF Init, SoundCalls
<1> QED BY <1>2, <1>3, <1>4 DEF EarnInv

\* A write puts a sound operation on a sound copy, old as it may be.
LEMMA WriteFileEarn ==
  ASSUME TypeInv, EarnInv, NEW a \in Actors, WriteFile(a) PROVE EarnInv'
<1>1. \A j : Earned(j)' <=> Earned(j)
  BY DEF WriteFile, Earned
<1>2. Head(todo[a]) \in Op /\ Head(copy[a]) \in Seq(Table) /\ todo[a] \in Seq(Op)
  BY DEF TypeInv, TypeOK, WriteFile
<1>3. Sound(Head(copy[a])) /\ SoundOps(todo[a])
  BY DEF EarnInv, SoundCopies, SoundTodo, WriteFile
<1>4. Head(todo[a]).kind = "update" /\ Head(todo[a]).to = Passed
        => Earned(Head(todo[a]).job)
  <2>1. 1 \in 1..Len(todo[a]) /\ Head(todo[a]) = todo[a][1]
    BY <1>2 DEF WriteFile
  <2> QED BY <1>3, <2>1 DEF SoundOps
<1>5. SoundFile'
  <2>1. Sound(Apply(Head(todo[a]), Head(copy[a])))
    BY <1>2, <1>3, <1>4, ApplySound
  <2> QED BY <1>1, <2>1 DEF SoundFile, Sound, PassedIn, WriteFile
<1>6. SoundCopies'
  BY <1>1 DEF SoundCopies, Sound, PassedIn, EarnInv, WriteFile, TypeInv, TypeOK
<1>7. SoundTodo'
  <2>1. SoundOps(Tail(todo[a]))
    BY <1>2, <1>3, TailSound DEF WriteFile
  <2>2. \A b \in Actors : SoundOps(todo'[b])
    BY <2>1 DEF SoundTodo, EarnInv, WriteFile, TypeInv, TypeOK
  <2> QED BY <1>1, <2>2 DEF SoundTodo, SoundOps
<1>8. SoundInbox' /\ SoundCalls' /\ SoundReplies'
  BY DEF EarnInv, SoundInbox, SoundCalls, SoundReplies, Awaits, Job, WriteFile, calls
<1> QED BY <1>5, <1>6, <1>7, <1>8 DEF EarnInv

\* A file that was sound is sound while it is not written.
LEMMA FileKept ==
  ASSUME EarnInv, db' = db, answered \subseteq answered' PROVE SoundFile'
BY EarnedStays DEF EarnInv, SoundFile, Sound, PassedIn

\* No actor reads the file: the copies left are among those there were.
LEMMA CopiesKept ==
  ASSUME EarnInv, answered \subseteq answered',
         \A a \in Actors : copy'[a] = copy[a] \/ copy'[a] = <<>>
  PROVE  SoundCopies'
BY EarnedStays DEF EarnInv, SoundCopies, Sound, PassedIn

\* One actor has new operations to make, or none has.
LEMMA TodoKept ==
  ASSUME EarnInv, answered \subseteq answered',
         \A a \in Actors : todo'[a] = todo[a] \/ todo'[a] = <<>>
  PROVE  SoundTodo'
BY EarnedStays, NoOpsSound DEF EarnInv, SoundTodo, SoundOps

\* So is what is to be written, when an actor is given a sound script.
LEMMA TodoGiven ==
  ASSUME TypeInv, EarnInv, answered' = answered, NEW a \in Actors,
         NEW s, SoundOps(s), todo' = [todo EXCEPT ![a] = s]
  PROVE  SoundTodo'
<1>1. \A b \in Actors : SoundOps(todo'[b])
  BY DEF TypeInv, TypeOK, EarnInv, SoundTodo
<1> QED BY <1>1 DEF SoundTodo, SoundOps, Earned

\* A copy of a sound file is sound.
LEMMA ReadFileEarn ==
  ASSUME TypeInv, EarnInv, NEW a \in Actors, ReadFile(a) PROVE EarnInv'
<1>1. SoundFile' /\ SoundTodo'
  BY FileKept, TodoKept DEF ReadFile, file
<1>2. SoundCopies'
  <2>1. \A b \in Actors : copy'[b] = copy[b] \/ Head(copy'[b]) = db
    BY DEF ReadFile, TypeInv, TypeOK
  <2>2. \A j : Earned(j)' <=> Earned(j)
    BY DEF ReadFile, Earned
  <2> QED BY <2>1, <2>2 DEF EarnInv, SoundFile, SoundCopies, Sound, PassedIn
<1>3. SoundInbox' /\ SoundCalls' /\ SoundReplies'
  BY DEF EarnInv, SoundInbox, SoundCalls, SoundReplies, Awaits, Job, ReadFile, calls
<1> QED BY <1>1, <1>2, <1>3 DEF EarnInv

\* check_db_file starts a list over: it records no PASSED.
LEMMA CheckEarn ==
  ASSUME TypeInv, EarnInv, NEW a \in Clis \cup Threads, NEW d \in Deployments,
         NEW caller, CheckFile(a, d, caller) \/ CheckEnv(a, d, caller)
  PROVE  EarnInv'
<1>1. SoundFile' /\ SoundCopies'
  BY FileKept, CopiesKept DEF CheckFile, CheckEnv, file
<1>2. SoundTodo'
  <2>1. SoundOps(InitScript(d, caller)) /\ InitScript(d, caller) \in Seq(Op)
    BY InitScriptSound, InitScriptType
  <2>2. SoundOps(<<Truncate>>) /\ <<Truncate>> \in Seq(Op)
    BY OneSound DEF Truncate, Op
  <2>3. SoundOps(<<Truncate>> \o InitScript(d, caller))
    BY <2>1, <2>2, ConcatSound
  <2>4. SoundOps(IF blank THEN InitScript(d, caller) ELSE <<>>)
    BY <2>1, NoOpsSound
  <2>5. SoundOps(IF Knows(d.env) THEN <<>>
                 ELSE <<Truncate>> \o InitScript(d, caller))
    BY <2>3, NoOpsSound
  <2>6. CASE CheckFile(a, d, caller)
    BY <2>4, <2>6, TodoGiven DEF CheckFile, Actors
  <2>7. CASE CheckEnv(a, d, caller)
    BY <2>5, <2>7, TodoGiven DEF CheckEnv, Actors
  <2> QED BY <2>6, <2>7
<1>3. /\ pc' \in [Actors -> Places] /\ \A b \in Actors \ {a} : pc'[b] = pc[b]
      /\ pc[a] \notin {"wait", "200"} /\ pc'[a] \notin {"wait", "200"}
  BY DEF CheckFile, CheckEnv, Ready, TypeInv, TypeOK, Places, Actors
<1>4. SoundInbox' /\ SoundCalls' /\ SoundReplies'
  BY <1>3, ActorAssumption
     DEF EarnInv, SoundInbox, SoundCalls, SoundReplies, Awaits, Job, CheckFile,
         CheckEnv, calls, Actors
<1> QED BY <1>1, <1>2, <1>4 DEF EarnInv

-----------------------------------------------------------------------------
(* The command line.                                                       *)

\* A command line acts outside its call: nothing awaits it.
LEMMA CallsKept ==
  ASSUME TypeInv, EarnInv, NEW c \in Clis, pc[c] # "wait",
         \A b \in Actors \ {c} : pc'[b] = pc[b],
         \A b \in Clis \ {c} : run'[b] = run[b],
         UNCHANGED <<req, inbox, answered>>
  PROVE  SoundInbox' /\ SoundCalls' /\ SoundReplies'
<1>1. inbox[c] # "200" /\ \A t \in Threads : req[t].client # c
  BY DEF EarnInv, SoundInbox, SoundCalls, Awaits
<1> QED BY <1>1, ActorAssumption
        DEF EarnInv, SoundInbox, SoundCalls, SoundReplies, Awaits, Job, Actors

\* The command line starts an invocation.
LEMMA CliStartEarn ==
  ASSUME TypeInv, EarnInv, NEW c \in Clis, CliStart(c) PROVE EarnInv'
<1>1. SoundFile' /\ SoundCopies' /\ SoundTodo'
  BY FileKept, CopiesKept, TodoKept DEF CliStart, file
<1>2. SoundInbox' /\ SoundCalls' /\ SoundReplies'
  BY CallsKept DEF CliStart, Ready, TypeInv, TypeOK, Actors
<1> QED BY <1>1, <1>2 DEF EarnInv

\* It asks whether to go on.
LEMMA CliPromptEarn ==
  ASSUME TypeInv, EarnInv, NEW c \in Clis, CliPrompt(c) PROVE EarnInv'
<1>1. SoundFile' /\ SoundCopies'
  BY FileKept, CopiesKept DEF CliPrompt, file
<1>2. SoundTodo'
  <2>1. SoundOps(<<Update(Failed, "CLEANUP")>>)
    BY OtherSound DEF Failed, Passed
  <2> QED BY <2>1, TodoGiven, TodoKept DEF CliPrompt, Actors
<1>3. SoundInbox' /\ SoundCalls' /\ SoundReplies'
  BY CallsKept DEF CliPrompt, Ready, TypeInv, TypeOK, Actors, calls
<1> QED BY <1>1, <1>2, <1>3 DEF EarnInv

\* It marks a job as in progress.
LEMMA CliMarkEarn ==
  ASSUME TypeInv, EarnInv, NEW c \in Clis, CliMark(c) PROVE EarnInv'
<1>1. SoundFile' /\ SoundCopies'
  BY FileKept, CopiesKept DEF CliMark, file
<1>2. SoundTodo'
  <2>1. SoundOps(<<Update(InProgress, Job(c))>>)
    BY OtherSound DEF InProgress, Passed
  <2> QED BY <2>1, TodoGiven, TodoKept DEF CliMark, Actors
<1>3. SoundInbox' /\ SoundCalls' /\ SoundReplies'
  BY CallsKept DEF CliMark, Ready, TypeInv, TypeOK, Actors, calls
<1> QED BY <1>1, <1>2, <1>3 DEF EarnInv

\* It posts its one request in flight.
LEMMA CliSendEarn ==
  ASSUME TypeInv, EarnInv, NEW c \in Clis, CliSend(c) PROVE EarnInv'
<1>1. SoundFile' /\ SoundCopies' /\ SoundTodo'
  BY FileKept, CopiesKept, TodoKept DEF CliSend, file
<1>2. pc[c] = "send" /\ run' = run /\ answered' = answered
  BY DEF CliSend, Ready
<1>3. inbox[c] # "200" /\ \A t \in Threads : req[t].client # c
  BY <1>2 DEF EarnInv, SoundInbox, SoundCalls, Awaits
<1>4. pc'[c] = "wait" /\ inbox' = [inbox EXCEPT ![c] = inbox'[c]]
      /\ inbox'[c] \in {"none", "lost"}
  BY ActorAssumption DEF CliSend, TypeInv, TypeOK, Actors
<1>5. \A b \in Clis \ {c} : pc'[b] = pc[b] /\ inbox'[b] = inbox[b]
  BY ActorAssumption DEF CliSend, TypeInv, TypeOK, Actors
<1>6. SoundInbox'
  BY <1>2, <1>4, <1>5 DEF EarnInv, SoundInbox, Job
<1>7. CASE \E t \in Threads :
             /\ Ready(t, "free")
             /\ req' = [req EXCEPT ![t] =
                          [client |-> c, job |-> Job(c), dep |-> run[c].dep]]
             /\ pc' = [pc EXCEPT ![c] = "wait", ![t] = "checkFile"]
             /\ inbox' = [inbox EXCEPT ![c] = "none"]
  <2>1. PICK t \in Threads :
             /\ Ready(t, "free")
             /\ req' = [req EXCEPT ![t] =
                          [client |-> c, job |-> Job(c), dep |-> run[c].dep]]
             /\ pc' = [pc EXCEPT ![c] = "wait", ![t] = "checkFile"]
             /\ inbox' = [inbox EXCEPT ![c] = "none"]
    BY <1>7
  <2>2. /\ req'[t].client = c /\ req'[t].job = Job(c)
        /\ \A u \in Threads \ {t} : req'[u] = req[u] /\ pc'[u] = pc[u]
        /\ pc'[t] = "checkFile" /\ inbox'[c] = "none"
    BY <2>1, ActorAssumption DEF TypeInv, TypeOK, Actors
  <2>3. SoundCalls'
    BY <1>2, <1>3, <1>4, <1>5, <2>2 DEF EarnInv, SoundCalls, Awaits, Job
  <2>4. SoundReplies'
    BY <1>2, <2>2 DEF EarnInv, SoundReplies
  <2> QED BY <2>3, <2>4, <1>1, <1>6 DEF EarnInv
<1>8. CASE req' = req /\ pc' = [pc EXCEPT ![c] = "wait"]
  <2>1. SoundCalls'
    BY <1>2, <1>3, <1>5, <1>8 DEF EarnInv, SoundCalls, Awaits, Job
  <2>2. SoundReplies'
    BY <1>2, <1>8, ActorAssumption DEF EarnInv, SoundReplies, TypeInv, TypeOK, Actors
  <2> QED BY <2>1, <2>2, <1>1, <1>6 DEF EarnInv
<1> QED BY <1>7, <1>8 DEF CliSend

\* What an operation records once its call is over is earned.
LEMMA VerdictSound ==
  ASSUME TypeInv, EarnInv, NEW c \in Clis, pc[c] = "wait", inbox[c] # "none"
  PROVE  SoundOps(Verdict(c))
<1>1. /\ Job(c) \in Jobs /\ run[c].dep \in Deployments
      /\ inbox[c] \in {"200", "500", "lost"}
  BY DEF TypeInv, TypeOK, InHand, CliBusy, Invocation, Job
<1>2. CASE inbox[c] \in {"500", "lost"}
  <2>1. /\ SoundOps(<<Update(Failed, Job(c))>>)
        /\ SoundOps(<<Update(Failed, Job(c)), Update(Failed, Job(c))>>)
    BY DEF SoundOps, Update, Failed, Passed
  <2> QED BY <1>2, <2>1 DEF Verdict
<1>3. CASE inbox[c] = "200"
  <2>1. Earned(Job(c))
    BY <1>3 DEF EarnInv, SoundInbox, Earned
  <2>2. SoundOps(<<Update(Passed, Job(c))>>)
    BY <2>1, PassSound
  <2>3. SoundOps(<<Update(Passed, Job(c)), Update(Skipped, Job(c))>>)
    BY <2>1 DEF SoundOps, Update, Passed, Skipped
  <2>4. ASSUME Job(c) = "CLEANUP"
        PROVE  SoundOps(<<Truncate>> \o InitScript(run[c].dep, "cli")
                          \o <<Update(Passed, "CLEANUP")>>)
    <3>1. SoundOps(InitScript(run[c].dep, "cli"))
          /\ InitScript(run[c].dep, "cli") \in Seq(Op)
      BY <1>1, InitScriptSound, InitScriptType
    <3>2. SoundOps(<<Truncate>>) /\ <<Truncate>> \in Seq(Op)
      BY OneSound DEF Truncate, Op
    <3>3. SoundOps(<<Truncate>> \o InitScript(run[c].dep, "cli"))
          /\ <<Truncate>> \o InitScript(run[c].dep, "cli") \in Seq(Op)
      <4>1. SoundOps(<<Truncate>> \o InitScript(run[c].dep, "cli"))
        BY <3>1, <3>2, ConcatSound
      <4>2. <<Truncate>> \o InitScript(run[c].dep, "cli") \in Seq(Op)
        BY <3>1, <3>2
      <4> QED BY <4>1, <4>2
    <3>4. SoundOps(<<Update(Passed, "CLEANUP")>>)
      BY <2>2, <2>4
    <3>5. Update(Passed, "CLEANUP") \in Op
      BY UpdateType DEF Jobs, Passed, Statuses
    <3>6. <<Update(Passed, "CLEANUP")>> \in Seq(Op)
      BY <3>5
    <3> QED BY <3>3, <3>4, <3>6, ConcatSound
  <2>5. CASE Job(c) = "CLEANUP"
    BY <1>3, <2>4, <2>5 DEF Verdict
  <2>6. CASE Job(c) # "CLEANUP"
    BY <1>3, <2>2, <2>3, <2>6 DEF Verdict
  <2> QED BY <2>5, <2>6
<1> QED BY <1>1, <1>2, <1>3

\* It records a PASSED only for a 200, which answers the job in hand.
LEMMA CliConcludeEarn ==
  ASSUME TypeInv, EarnInv, NEW c \in Clis, CliConclude(c) PROVE EarnInv'
<1>1. SoundFile' /\ SoundCopies'
  BY FileKept, CopiesKept DEF CliConclude, file
<1>2. SoundTodo'
  <2>1. SoundOps(Verdict(c))
    BY VerdictSound DEF CliConclude, Ready
  <2> QED BY <2>1, TodoGiven DEF CliConclude, Actors
<1>3. \A t \in Threads : req[t].client # c
  BY DEF CliConclude, EarnInv, SoundCalls, Awaits
<1>4. /\ \A b \in Actors \ {c} : pc'[b] = pc[b]
      /\ \A b \in Clis \ {c} : run'[b] = run[b] /\ inbox'[b] = inbox[b]
      /\ inbox'[c] = "none" /\ UNCHANGED <<req, answered>>
  BY DEF CliConclude, TypeInv, TypeOK, Actors
<1>5. SoundInbox' /\ SoundCalls' /\ SoundReplies'
  BY <1>3, <1>4, ActorAssumption
     DEF EarnInv, SoundInbox, SoundCalls, SoundReplies, Awaits, Job, Actors
<1> QED BY <1>1, <1>2, <1>5 DEF EarnInv

\* An interrupted command line records that the job failed.
LEMMA CliInterruptEarn ==
  ASSUME TypeInv, EarnInv, NEW c \in Clis, CliInterrupt(c) PROVE EarnInv'
<1>1. SoundFile' /\ SoundCopies' /\ SoundTodo'
  BY FileKept, CopiesKept, TodoKept DEF CliInterrupt, file, TypeInv, TypeOK
<1>2. /\ \A b \in Actors \ {c} : pc'[b] = pc[b]
      /\ \A b \in Clis \ {c} : inbox'[b] = inbox[b]
      /\ inbox'[c] = "none" /\ UNCHANGED <<run, answered>>
  BY DEF CliInterrupt, TypeInv, TypeOK, Actors
<1>3. \A t \in Threads : /\ req'[t].job = req[t].job /\ req'[t].dep = req[t].dep
                         /\ req'[t].client # c
                         /\ req'[t].client \in Clis => req'[t].client = req[t].client
  BY ActorAssumption DEF CliInterrupt, TypeInv, TypeOK, Requests
<1>4. SoundInbox' /\ SoundCalls' /\ SoundReplies'
  BY <1>2, <1>3, ActorAssumption
     DEF EarnInv, SoundInbox, SoundCalls, SoundReplies, Awaits, Job, Actors
<1> QED BY <1>1, <1>4 DEF EarnInv

-----------------------------------------------------------------------------
(* The server.                                                             *)

\* A thread moves on without touching what the command lines wait for.
LEMMA ThreadMoves ==
  ASSUME TypeInv, EarnInv, NEW t \in Threads,
         \A a \in Actors \ {t} : pc'[a] = pc[a],
         pc'[t] # "200",
         UNCHANGED <<run, req, inbox, answered>>
  PROVE  SoundInbox' /\ SoundCalls' /\ SoundReplies'
BY ActorAssumption
   DEF EarnInv, SoundInbox, SoundCalls, SoundReplies, Awaits, Job, Actors

\* A request of the UI earns nothing yet.
LEMMA UiPostEarn ==
  ASSUME TypeInv, EarnInv, NEW t \in Threads, UiPost(t) PROVE EarnInv'
<1>1. SoundFile' /\ SoundCopies' /\ SoundTodo'
  BY FileKept, CopiesKept, TodoKept DEF UiPost, file
<1>2. /\ \A a \in Actors \ {t} : pc'[a] = pc[a]
      /\ pc'[t] = "checkFile" /\ req'[t].client = NoClient
      /\ \A u \in Threads \ {t} : req'[u] = req[u]
      /\ UNCHANGED <<run, inbox, answered>>
  BY DEF UiPost, TypeInv, TypeOK, Actors
<1>3. SoundInbox' /\ SoundCalls' /\ SoundReplies'
  BY <1>2, ActorAssumption
     DEF EarnInv, SoundInbox, SoundCalls, SoundReplies, Awaits, Job, Actors
<1> QED BY <1>1, <1>3 DEF EarnInv

\* The server marks a job as in progress.
LEMMA ThreadMarkEarn ==
  ASSUME TypeInv, EarnInv, NEW t \in Threads, ThreadMark(t) PROVE EarnInv'
<1>1. SoundFile' /\ SoundCopies'
  BY FileKept, CopiesKept DEF ThreadMark, file
<1>2. SoundTodo'
  <2>1. SoundOps(Record(InProgress, t))
    BY NoOpsSound, OtherSound DEF Record, InProgress, Passed
  <2> QED BY <2>1, TodoGiven DEF ThreadMark, Actors
<1>3. SoundInbox' /\ SoundCalls' /\ SoundReplies'
  BY ThreadMoves DEF ThreadMark, TypeInv, TypeOK, Actors, calls
<1> QED BY <1>1, <1>2, <1>3 DEF EarnInv

\* A request answered with 200 enters the history before it is recorded.
LEMMA ThreadWorkEarn ==
  ASSUME TypeInv, EarnInv, NEW t \in Threads, ThreadWork(t) PROVE EarnInv'
<1> DEFINE r == [job |-> req[t].job, dep |-> req[t].dep]
<1>0. answered \subseteq answered'
  BY DEF ThreadWork
<1>1. SoundFile' /\ SoundCopies'
  BY <1>0, FileKept, CopiesKept DEF ThreadWork, file
<1>2. \/ /\ pc' = [pc EXCEPT ![t] = "200"]
         /\ todo' = [todo EXCEPT ![t] = Record(Passed, t)]
         /\ answered' = answered \cup {r}
      \/ /\ pc' = [pc EXCEPT ![t] = "500"]
         /\ todo' = [todo EXCEPT ![t] = Record(Failed, t)]
         /\ answered' = answered
  BY DEF ThreadWork
<1>3. SoundTodo'
  <2>1. \A a \in Actors \ {t} : todo'[a] = todo[a]
    BY <1>2 DEF TypeInv, TypeOK, Actors
  <2>2. SoundOps(todo[t])'
    <3>1. CASE todo' = [todo EXCEPT ![t] = Record(Passed, t)]
               /\ answered' = answered \cup {r}
      <4>1. todo'[t] = <<>> \/ todo'[t] = <<Update(Passed, MarkedBy(t))>>
        BY <3>1 DEF Record, TypeInv, TypeOK, Actors
      <4>2. r \in answered' /\ Marked(r.job, r.dep) = MarkedBy(t)
        BY <3>1 DEF MarkedBy
      <4> QED BY <4>1, <4>2 DEF SoundOps, Earned, Update
    <3>2. CASE todo' = [todo EXCEPT ![t] = Record(Failed, t)]
      <4>1. todo'[t] = <<>> \/ todo'[t] = <<Update(Failed, MarkedBy(t))>>
        BY <3>2 DEF Record, TypeInv, TypeOK, Actors
      <4> QED BY <4>1 DEF SoundOps, Update, Failed, Passed
    <3> QED BY <1>2, <3>1, <3>2
  <2>3. \A a \in Actors \ {t} : SoundOps(todo[a])'
    BY <1>0, <2>1, EarnedStays DEF EarnInv, SoundTodo, SoundOps
  <2> QED BY <2>2, <2>3 DEF SoundTodo
<1>4. /\ \A a \in Actors \ {t} : pc'[a] = pc[a]
      /\ pc'[t] \in {"200", "500"} /\ (pc'[t] = "200" => r \in answered')
      /\ UNCHANGED <<run, req, inbox>>
  BY <1>2 DEF ThreadWork, TypeInv, TypeOK, Actors, calls
<1>5. SoundInbox' /\ SoundCalls' /\ SoundReplies'
  BY <1>0, <1>4, ActorAssumption
     DEF EarnInv, SoundInbox, SoundCalls, SoundReplies, Awaits, Job, Actors
<1> QED BY <1>1, <1>3, <1>5 DEF EarnInv

\* The answer goes to the one command line that awaits it, for its job.
LEMMA ThreadReplyEarn ==
  ASSUME TypeInv, EarnInv, NEW t \in Threads, ThreadReply(t) PROVE EarnInv'
<1>1. SoundFile' /\ SoundCopies' /\ SoundTodo'
  BY FileKept, CopiesKept, TodoKept DEF ThreadReply, file
<1>2. /\ \A a \in Actors \ {t} : pc'[a] = pc[a]
      /\ pc'[t] = "free" /\ req'[t].client = NoClient
      /\ \A u \in Threads \ {t} : req'[u] = req[u]
      /\ UNCHANGED <<run, answered>>
  BY DEF ThreadReply, TypeInv, TypeOK, Actors
<1>3. \A c \in Clis : \/ inbox'[c] = inbox[c]
                      \/ (req[t].client = c /\ inbox'[c] = pc[t])
  BY DEF ThreadReply, TypeInv, TypeOK
<1>4. SoundInbox'
  <2> SUFFICES ASSUME NEW c \in Clis, inbox'[c] = "200"
               PROVE  pc'[c] = "wait" /\ \E r \in answered' : r.job = Job(c)'
    BY DEF SoundInbox
  <2>1. pc'[c] = pc[c] /\ Job(c)' = Job(c)
    BY <1>2, ActorAssumption DEF Job, Actors
  <2>2. CASE inbox[c] = "200"
    BY <1>2, <2>1, <2>2 DEF EarnInv, SoundInbox
  <2>3. CASE req[t].client = c /\ pc[t] = "200"
    <3>1. pc[c] = "wait" /\ Job(c) = req[t].job
      BY <2>3 DEF EarnInv, SoundCalls, Awaits
    <3>2. [job |-> req[t].job, dep |-> req[t].dep] \in answered
      BY <2>3 DEF EarnInv, SoundReplies
    <3> QED BY <1>2, <2>1, <3>1, <3>2
  <2> QED BY <1>3, <2>2, <2>3
<1>5. SoundCalls'
  <2>1. \A u \in Threads : req'[u].client \in Clis =>
          u # t /\ req'[u] = req[u] /\ inbox'[req[u].client] = inbox[req[u].client]
    BY <1>2, <1>3, ActorAssumption DEF EarnInv, SoundCalls
  <2> QED BY <1>2, <2>1, ActorAssumption DEF EarnInv, SoundCalls, Awaits, Job, Actors
<1>6. SoundReplies'
  BY <1>2, ActorAssumption DEF EarnInv, SoundReplies, Actors
<1> QED BY <1>1, <1>4, <1>5, <1>6 DEF EarnInv

\* The overview changes nothing.
LEMMA OverviewEarn ==
  ASSUME TypeInv, EarnInv, NEW t \in Threads, OverviewRead(t) \/ OverviewStore(t)
  PROVE  EarnInv'
<1>1. SoundFile' /\ SoundTodo'
  BY FileKept, TodoKept DEF OverviewRead, OverviewStore, file
<1>2. SoundCopies'
  <2>1. \A b \in Actors : copy'[b] \in {copy[b], <<>>} \/ Head(copy'[b]) = db
    BY DEF OverviewRead, OverviewStore, TypeInv, TypeOK
  <2>2. \A j : Earned(j)' <=> Earned(j)
    BY DEF OverviewRead, OverviewStore, Earned
  <2> QED BY <2>1, <2>2 DEF EarnInv, SoundFile, SoundCopies, Sound, PassedIn
<1>3. SoundInbox' /\ SoundCalls' /\ SoundReplies'
  BY ThreadMoves DEF OverviewRead, OverviewStore, TypeInv, TypeOK, Actors, calls
<1> QED BY <1>1, <1>2, <1>3 DEF EarnInv

\* A crash loses calls, copies and updates, and answers nothing.
LEMMA CrashEarn ==
  ASSUME TypeInv, EarnInv, Crash PROVE EarnInv'
<1>1. SoundFile' /\ SoundCopies' /\ SoundTodo'
  BY FileKept, CopiesKept, TodoKept DEF Crash, file
<1>2. /\ \A c \in Clis : pc'[c] = pc[c] /\ inbox'[c] \in {inbox[c], "lost"}
      /\ \A t \in Threads : pc'[t] = "free" /\ req'[t].client = NoClient
      /\ UNCHANGED <<run, answered>>
  <2>1. \A c \in Clis : pc'[c] = pc[c] /\ inbox'[c] \in {inbox[c], "lost"}
    BY ActorAssumption DEF Crash, Actors
  <2>2. \A t \in Threads : pc'[t] = "free" /\ req'[t].client = NoClient
    BY DEF Crash, Actors, TypeInv, TypeOK, Requests
  <2> QED BY <2>1, <2>2 DEF Crash
<1>3. SoundInbox' /\ SoundCalls' /\ SoundReplies'
  BY <1>2, ActorAssumption
     DEF EarnInv, SoundInbox, SoundCalls, SoundReplies, Awaits, Job
<1> QED BY <1>1, <1>3 DEF EarnInv

\* The recovery records failures only.
LEMMA RecoveringEarn ==
  ASSUME TypeInv, EarnInv, Recovering PROVE EarnInv'
<1>1. SoundFile' /\ SoundCopies'
  BY FileKept, CopiesKept DEF Recovering, Restart, RecoverNext, Listen, file, work
<1>2. SoundTodo'
  <2>1. CASE Restart \/ Listen
    BY <2>1, TodoKept DEF Restart, Listen, work
  <2>2. CASE RecoverNext
    <3>1. PICK j : todo' = [todo EXCEPT ![Prober] = <<Update(Failed, j)>>]
      BY <2>2 DEF RecoverNext
    <3>2. SoundOps(<<Update(Failed, j)>>)
      BY OtherSound DEF Failed, Passed
    <3> QED BY <2>2, <3>1, <3>2, TodoGiven DEF RecoverNext, Actors
  <2> QED BY <2>1, <2>2 DEF Recovering
<1>3. SoundInbox' /\ SoundCalls' /\ SoundReplies'
  BY DEF EarnInv, SoundInbox, SoundCalls, SoundReplies, Awaits, Job,
         Recovering, Restart, RecoverNext, Listen, work, calls
<1> QED BY <1>1, <1>2, <1>3 DEF EarnInv

\* Every step keeps the invariant.
LEMMA StepEarn == TypeInv /\ EarnInv /\ [Next]_vars => EarnInv'
<1> SUFFICES ASSUME TypeInv, EarnInv, [Next]_vars PROVE EarnInv'
  OBVIOUS
<1>1. ASSUME NEW a \in Actors, ReadFile(a) \/ WriteFile(a) PROVE EarnInv'
  BY <1>1, ReadFileEarn, WriteFileEarn
<1>2. ASSUME NEW c \in Clis, CliStart(c) \/ CliStep(c) \/ CliInterrupt(c)
      PROVE  EarnInv'
  <2>1. run[c].dep \in Deployments
    BY DEF TypeInv, TypeOK, Invocation
  <2> QED BY <1>2, <2>1, CheckEarn, CliStartEarn, CliPromptEarn, CliMarkEarn,
             CliSendEarn, CliConcludeEarn, CliInterruptEarn
          DEF CliStep, CliCheckFile, CliCheckEnv
<1>3. ASSUME NEW t \in Threads, UiPost(t) \/ ThreadStep(t) \/ OverviewRead(t)
      PROVE  EarnInv'
  <2>1. req[t].dep \in Deployments
    BY DEF TypeInv, TypeOK, Requests
  <2> QED BY <1>3, <2>1, CheckEarn, UiPostEarn, ThreadMarkEarn, ThreadWorkEarn,
             ThreadReplyEarn, OverviewEarn
          DEF ThreadStep, ThreadCheckFile, ThreadCheckEnv
<1>4. CASE UNCHANGED vars
  BY <1>4 DEF EarnInv, SoundFile, SoundCopies, SoundTodo, SoundInbox, SoundCalls,
              SoundReplies, Sound, SoundOps, PassedIn, Earned, Awaits, Job,
              vars, file, work, calls, life
<1> QED BY <1>1, <1>2, <1>3, <1>4, CrashEarn, RecoveringEarn DEF Next, Working

\* Whatever is lost, overwritten or cut short, no job is shown as PASSED that
\* no answer with 200 accounts for (after_request_func and the operations of
\* the command line are the only ones that record it).
THEOREM PassedIsEarnedAlways == Spec => []PassedIsEarned
<1>1. EarnInv => PassedIsEarned
  BY DEF EarnInv, SoundFile, Sound, PassedIsEarned
<1> QED BY <1>1, InitType, StepType, InitEarn, StepEarn, PTL DEF Spec

=============================================================================
