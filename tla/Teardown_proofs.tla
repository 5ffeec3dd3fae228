--------------------------- MODULE Teardown_proofs ---------------------------
(***************************************************************************)
(* That each wait of the TKGm cleanup is bounded and that NSX-T objects     *)
(* outlive the controllers, for any number of concurrent requests, any     *)
(* options, any bound on the polls, whatever fails and wherever a request  *)
(* is cut short.                                                           *)
(***************************************************************************)
EXTENDS Teardown, TLAPS

-----------------------------------------------------------------------------
(* Sequences of steps.                                                     *)

Plain ==
  {"session", "uuid", "probe", "fetchAlb", "refuseAlb", "destroy", "contexts",
   "pools", "folders", "library", "ova", "templates", "config"}

\* A step without an argument is a step.
LEMMA DoType ==
  ASSUME NEW op \in Plain PROVE Do(op) \in Steps
BY DEF Plain, Do, Step, Steps

\* So is one with its argument.
LEMMA StepTypes ==
  /\ \A c \in Clusters : Step("remove", c) \in Steps /\ Step("refuse", c) \in Steps
  /\ \A a \in {"mgmt", "guests"} : Step("unregister", a) \in Steps
  /\ \A a \in {"mgmt", "workload", "all"} : Step("fetchSe", a) \in Steps
  /\ \A p \in NsxPieces : Step("nsx", p) \in Steps
BY DEF Step, Steps

\* The order in which NSX-T objects are removed, on VMC and on VCF.
LEMMA NsxOrderType == NsxOrder \in Seq(NsxPieces)
<1>1. <<"policy", "groups", "services", "segments">> \in Seq(NsxPieces)
  BY DEF NsxPieces
<1>2. <<"cgwRules", "mgwRules", "services", "mgwGroups", "cgwGroups", "segments">>
        \in Seq(NsxPieces)
  BY DEF NsxPieces
<1>3. <<>> \in Seq(NsxPieces)
  OBVIOUS
<1>4. CASE Env = "vcf"
  BY <1>1, <1>4 DEF NsxOrder
<1>5. CASE Env = "vmc"
  BY <1>2, <1>5 DEF NsxOrder
<1>6. CASE Env \notin {"vcf", "vmc"}
  BY <1>3, <1>6 DEF NsxOrder
<1> QED BY <1>4, <1>5, <1>6

\* Its steps.
LEMMA NsxType == ForEach("nsx", NsxOrder) \in Seq(Steps)
<1>1. NsxOrder \in Seq(NsxPieces)
  BY NsxOrderType
<1>2. \A i \in 1..Len(NsxOrder) : Step("nsx", NsxOrder[i]) \in Steps
  BY <1>1, StepTypes
<1> QED BY <1>1, <1>2 DEF ForEach

\* The steps of every option.
LEMMA StepsOfType ==
  ASSUME NEW o \in Options PROVE StepsOf(o) \in Seq(Steps)
<1>1. /\ Do("session") \in Steps /\ Do("uuid") \in Steps /\ Do("probe") \in Steps
      /\ Do("fetchAlb") \in Steps /\ Do("refuseAlb") \in Steps
      /\ Do("destroy") \in Steps /\ Do("contexts") \in Steps
      /\ Do("pools") \in Steps /\ Do("folders") \in Steps
      /\ Do("library") \in Steps /\ Do("ova") \in Steps
      /\ Do("templates") \in Steps /\ Do("config") \in Steps
  BY DoType DEF Plain
<1>2. /\ Step("unregister", "guests") \in Steps /\ Step("unregister", "mgmt") \in Steps
      /\ Step("fetchSe", "all") \in Steps /\ Step("fetchSe", "mgmt") \in Steps
      /\ Step("fetchSe", "workload") \in Steps
      /\ Step("remove", "shared") \in Steps /\ Step("remove", "workload") \in Steps
  BY StepTypes DEF Clusters
<1>3. AllSteps \in Seq(Steps)
  BY <1>1, <1>2, NsxType DEF AllSteps
<1>4. MgmtSteps \in Seq(Steps)
  BY <1>1, <1>2 DEF MgmtSteps
<1>5. AviSteps \in Seq(Steps)
  BY <1>1 DEF AviSteps
<1>6. GuestSteps("shared") \in Seq(Steps) /\ GuestSteps("workload") \in Seq(Steps)
  BY <1>1, <1>2 DEF GuestSteps
<1>7. NsxSteps \in Seq(Steps)
  BY <1>1, NsxType DEF NsxSteps
<1>8. <<Step("fetchSe", "workload"), Do("destroy")>> \in Seq(Steps)
  BY <1>1, <1>2
<1>9. GuestSteps("workload") \o <<Step("fetchSe", "workload"), Do("destroy")>> \in Seq(Steps)
  BY <1>6, <1>8
<1> QED BY <1>3, <1>4, <1>5, <1>6, <1>7, <1>9 DEF StepsOf, Options

\* The steps that depend on whether the management cluster is there.
LEMMA OnManagementType ==
  ASSUME NEW o PROVE OnManagement(o) \in Seq(Steps)
<1>1. /\ Step("remove", "shared") \in Steps /\ Step("remove", "workload") \in Steps
      /\ Step("remove", "mgmt") \in Steps /\ Step("refuse", "workload") \in Steps
      /\ Step("refuse", "shared") \in Steps
  BY StepTypes DEF Clusters
<1>2. ForEach("remove", <<"shared", "workload", "mgmt">>)
        = <<Step("remove", "shared"), Step("remove", "workload"), Step("remove", "mgmt")>>
  BY DEF ForEach
<1>3. /\ <<Step("remove", "shared"), Step("remove", "workload"),
           Step("remove", "mgmt")>> \in Seq(Steps)
      /\ <<Step("refuse", "workload"), Step("refuse", "shared"),
           Step("remove", "mgmt")>> \in Seq(Steps)
      /\ <<>> \in Seq(Steps)
  BY <1>1
<1>4. CASE o = "all"
  BY <1>2, <1>3, <1>4 DEF OnManagement
<1>5. CASE o = "mgmt"
  BY <1>3, <1>5 DEF OnManagement
<1>6. CASE o \notin {"all", "mgmt"}
  BY <1>3, <1>6 DEF OnManagement
<1> QED BY <1>4, <1>5, <1>6

\* What the listings of VMs find.
LEMMA FoundType ==
  /\ Controllers \in Seq(Vms)
  /\ \A type \in {"mgmt", "workload", "all"} : Engines(type) \in Seq(Vms)
<1>1. \A v \in Vms : Found(v) \in Seq(Vms)
  BY DEF Found
<1>2. {"controller1", "controller2", "seMgmt", "seWork"} \subseteq Vms
  BY DEF Vms
<1> QED BY <1>1, <1>2 DEF Controllers, Engines

-----------------------------------------------------------------------------
(* Type correctness.                                                       *)

\* A loop starts counting at zero.
Counting == \A t \in Threads : stage[t] # "waiting" => polls[t] = 0

TypeInv == TypeOK /\ Counting

\* What a request has of its own.
OwnType ==
  /\ ask \in [Threads -> Ask \cup {NoAsk}]
  /\ reply \in [Threads -> {"none", "pending", "200", "500"}]
  /\ todo \in [Threads -> Seq(Steps)]
  /\ stage \in [Threads -> {"ready", "listed", "issued", "waiting", "running"}]
  /\ polls \in [Threads -> 0..MaxPolls]
  /\ Counting

CollectedType == found \in [Threads -> Seq(Vms)] /\ uuid \in [Threads -> BOOLEAN]

WorldType ==
  /\ cluster \in [Clusters -> {"running", "deleting", "failed", "absent"}]
  /\ estate \subseteq Estate

\* The invariant in three parts, by the variables they speak of.
LEMMA TypeParts ==
  /\ OwnType /\ CollectedType /\ WorldType => TypeInv
  /\ OwnType' /\ CollectedType' /\ WorldType' => TypeInv'
BY DEF TypeInv, TypeOK, OwnType, CollectedType, WorldType

\* The initial state is well typed.
LEMMA InitTypes == Init => TypeInv
<1> SUFFICES ASSUME Init PROVE TypeInv
  OBVIOUS
<1>1. WorldType
  BY DEF Init, WorldType
<1>2. OwnType
  BY SetupAssumption DEF Init, OwnType, Counting
<1>3. CollectedType
  BY DEF Init, CollectedType
<1> QED BY <1>1, <1>2, <1>3, TypeParts

\* The step in hand, and those left.
LEMMA HeadTail ==
  ASSUME TypeInv, NEW t \in Threads, todo[t] # <<>>
  PROVE  Tail(todo[t]) \in Seq(Steps) /\ Head(todo[t]) \in Steps
BY DEF TypeInv, TypeOK

\* A request goes on with other steps.
LEMMA ProceedType ==
  ASSUME TypeInv, NEW t \in Threads, NEW s \in Seq(Steps), Proceed(t, s)
  PROVE  OwnType'
BY SetupAssumption
   DEF TypeInv, TypeOK, Counting, OwnType, Proceed, request

\* It goes on with the next step.
LEMMA AdvanceType ==
  ASSUME TypeInv, NEW t \in Threads, todo[t] # <<>>, Advance(t)
  PROVE  OwnType'
BY HeadTail, ProceedType DEF Advance

\* What is left alone stays well typed.
LEMMA KeptType ==
  ASSUME TypeInv
  PROVE  /\ Collected => CollectedType'
         /\ UNCHANGED <<request, todo, stage, polls>> => OwnType'
         /\ UNCHANGED <<cluster, estate>> => WorldType'
BY DEF TypeInv, TypeOK, Collected, CollectedType, OwnType, Counting, WorldType, request

\* It goes on within its step.
LEMMA WithinType ==
  ASSUME TypeInv, NEW t \in Threads, stage[t] # "waiting",
         NEW p \in {"ready", "listed", "issued", "waiting", "running"}, Within(t, p)
  PROVE  OwnType' /\ CollectedType'
BY DEF TypeInv, TypeOK, Counting, OwnType, CollectedType, Within, request

\* It polls once more, unless it has polled enough.
LEMMA AgainType ==
  ASSUME TypeInv, NEW t \in Threads, polls[t] # MaxPolls, Again(t)
  PROVE  OwnType' /\ CollectedType'
<1>1. polls' \in [Threads -> 0..MaxPolls]
  <2>1. polls[t] \in 0..MaxPolls /\ MaxPolls \in Nat
    BY SetupAssumption DEF TypeInv, TypeOK
  <2>2. polls[t] + 1 \in 0..MaxPolls
    BY <2>1
  <2> QED BY <2>2 DEF TypeInv, TypeOK, Again
<1> QED BY <1>1 DEF TypeInv, TypeOK, Counting, OwnType, CollectedType, Again, request

\* It is answered.
LEMMA AnswerType ==
  ASSUME TypeInv, NEW t \in Threads, NEW code \in {"200", "500"}, Answer(t, code)
  PROVE  OwnType' /\ CollectedType'
<1>1. <<>> \in Seq(Steps) /\ <<>> \in Seq(Vms) /\ 0 \in 0..MaxPolls
  BY SetupAssumption
<1>2. OwnType'
  BY <1>1 DEF TypeInv, TypeOK, Counting, OwnType, Answer
<1>3. CollectedType'
  BY <1>1 DEF TypeInv, TypeOK, CollectedType, Answer
<1> QED BY <1>2, <1>3

\* A request arrives.
LEMMA BeginType ==
  ASSUME TypeInv, NEW t \in Threads, Begin(t) PROVE TypeInv'
<1>1. PICK a \in Asks : /\ ask' = [ask EXCEPT ![t] = a]
                        /\ todo' = [todo EXCEPT ![t] = StepsOf(a.option)]
  BY DEF Begin
<1>2. a \in Ask /\ StepsOf(a.option) \in Seq(Steps)
  BY SetupAssumption, StepsOfType DEF Ask
<1>3. OwnType'
  BY <1>1, <1>2 DEF Begin, TypeInv, TypeOK, Counting, OwnType
<1> QED BY <1>3, KeptType, TypeParts DEF Begin, Collected

\* A cluster that is gone lets the request go on.
LEMMA RemovedType ==
  ASSUME TypeInv, NEW t \in Threads, todo[t] # <<>>, Removed(t)
  PROVE  OwnType' /\ CollectedType'
<1>1. Do("contexts") \in Steps
  BY DoType DEF Plain
<1>2. (IF ask[t].option = Arg(t) THEN <<Do("contexts")>> ELSE <<>>) \in Seq(Steps)
  BY <1>1
<1>3. (IF ask[t].option = Arg(t) THEN <<Do("contexts")>> ELSE <<>>) \o Tail(todo[t])
        \in Seq(Steps)
  BY <1>2, HeadTail
<1> QED BY <1>3, ProceedType, KeptType DEF Removed

\* The probe for the management cluster decides on the steps that follow.
LEMMA ProbeType ==
  ASSUME TypeInv, NEW t \in Threads, Probe(t) PROVE TypeInv'
<1>1. PICK seen \in Management :
       IF seen /\ ask[t].option = "avi" THEN Answer(t, "500")
       ELSE /\ Proceed(t, (IF seen THEN OnManagement(ask[t].option) ELSE <<>>)
                            \o Tail(todo[t]))
            /\ Collected
  BY DEF Probe
<1>2. todo[t] # <<>>
  BY DEF Probe, At
<1>3. (IF seen THEN OnManagement(ask[t].option) ELSE <<>>) \in Seq(Steps)
  <2>1. <<>> \in Seq(Steps)
    OBVIOUS
  <2> QED BY <2>1, OnManagementType
<1>4. (IF seen THEN OnManagement(ask[t].option) ELSE <<>>) \o Tail(todo[t]) \in Seq(Steps)
  BY <1>2, <1>3, HeadTail
<1>5. OwnType' /\ CollectedType'
  BY <1>1, <1>4, ProceedType, AnswerType, KeptType
<1> QED BY <1>5, KeptType, TypeParts DEF Probe

\* A cluster is looked up.
LEMMA FindClusterType ==
  ASSUME TypeInv, NEW t \in Threads, FindCluster(t) PROVE TypeInv'
<1>1. stage[t] = "ready" /\ todo[t] # <<>>
  BY DEF FindCluster, Removing, At
<1>2. Within(t, "listed") \/ (Advance(t) /\ Collected)
  BY DEF FindCluster
<1>3. OwnType' /\ CollectedType'
  BY <1>1, <1>2, WithinType, AdvanceType, KeptType
<1> QED BY <1>3, KeptType, TypeParts DEF FindCluster

\* Its deletion is asked for.
LEMMA DeleteClusterType ==
  ASSUME TypeInv, NEW t \in Threads, DeleteCluster(t) PROVE TypeInv'
<1>1. stage[t] = "listed" /\ todo[t] # <<>>
  BY DEF DeleteCluster, Removing, At
<1>2. Within(t, "issued") \/ Removed(t)
  BY DEF DeleteCluster
<1>3. OwnType' /\ CollectedType'
  BY <1>1, <1>2, WithinType, RemovedType
<1>4. WorldType'
  BY DEF DeleteCluster, TypeInv, TypeOK, WorldType
<1> QED BY <1>3, <1>4, TypeParts

\* Its deletion is waited for.
LEMMA PollType ==
  ASSUME TypeInv, NEW t \in Threads, FirstPoll(t) \/ Poll(t) PROVE TypeInv'
<1>1. todo[t] # <<>>
  BY DEF FirstPoll, Poll, Removing, At
<1>2. Answer(t, "500") \/ Removed(t) \/ (polls[t] # MaxPolls /\ Again(t))
  <2>1. CASE FirstPoll(t)
    <3>1. polls[t] = 0
      BY <2>1 DEF FirstPoll, Removing, TypeInv, Counting
    <3> QED BY <2>1, <3>1, SetupAssumption DEF FirstPoll
  <2>2. CASE Poll(t)
    BY <2>2 DEF Poll
  <2> QED BY <2>1, <2>2
<1>3. OwnType' /\ CollectedType'
  BY <1>1, <1>2, AnswerType, RemovedType, AgainType
<1> QED BY <1>3, KeptType, TypeParts DEF FirstPoll, Poll

\* The management cluster is deleted, and polled for.
LEMMA MgmtDeleteType ==
  ASSUME TypeInv, NEW t \in Threads,
         StartMgmtDelete(t) \/ EndMgmtDelete(t) \/ PollMgmt(t)
  PROVE  TypeInv'
<1>1. todo[t] # <<>>
  BY DEF StartMgmtDelete, EndMgmtDelete, PollMgmt, Removing, At
<1>2. \/ Answer(t, "500")
      \/ stage[t] # "waiting" /\ \E p \in {"running", "waiting"} : Within(t, p)
      \/ polls[t] # MaxPolls /\ Again(t)
      \/ Advance(t) /\ Collected
  BY DEF StartMgmtDelete, EndMgmtDelete, PollMgmt, Removing
<1>3. OwnType' /\ CollectedType'
  BY <1>1, <1>2, AnswerType, WithinType, AgainType, AdvanceType, KeptType
<1>4. WorldType'
  BY DEF StartMgmtDelete, EndMgmtDelete, PollMgmt, TypeInv, TypeOK, WorldType
<1> QED BY <1>3, <1>4, TypeParts

\* VMs are listed and destroyed.
LEMMA VmsType ==
  ASSUME TypeInv, NEW t \in Threads,
         Uuid(t) \/ FetchAlb(t) \/ FetchSe(t) \/ DestroyVm(t) \/ VmsDestroyed(t)
  PROVE  TypeInv'
<1>1. todo[t] # <<>>
  BY DEF Uuid, FetchAlb, FetchSe, DestroyVm, VmsDestroyed, At
<1>2. WorldType'
  BY DEF Uuid, FetchAlb, FetchSe, DestroyVm, VmsDestroyed, TypeInv, TypeOK, WorldType
<1>3. OwnType'
  <2>1. \/ Advance(t) \/ Answer(t, "500")
        \/ UNCHANGED <<request, todo, stage, polls>>
    BY DEF Uuid, FetchAlb, FetchSe, DestroyVm, VmsDestroyed
  <2> QED BY <1>1, <2>1, AdvanceType, AnswerType, KeptType
<1>4. CollectedType'
  <2>1. CASE Answer(t, "500")
    BY <2>1, AnswerType
  <2>2. CASE Collected
    BY <2>2, KeptType
  <2>3. CASE uuid' = [uuid EXCEPT ![t] = Env = "vmc" /\ Present("controller1")]
             /\ UNCHANGED found
    BY <2>3 DEF TypeInv, TypeOK, CollectedType
  <2>4. CASE found' = [found EXCEPT ![t] =
                         IF Present("controller1") THEN Controllers ELSE <<>>]
             /\ UNCHANGED uuid
    <3>1. (IF Present("controller1") THEN Controllers ELSE <<>>) \in Seq(Vms)
      BY FoundType
    <3> QED BY <2>4, <3>1 DEF TypeInv, TypeOK, CollectedType
  <2>5. CASE FetchSe(t) /\ UNCHANGED uuid
             /\ \E ses \in SesSeen(Arg(t)) : found' = [found EXCEPT ![t] = @ \o ses]
    <3>1. Arg(t) \in {"mgmt", "workload", "all"}
      BY <2>5, <1>1, HeadTail DEF FetchSe, At, Arg, Steps
    <3>2. PICK ses \in SesSeen(Arg(t)) : found' = [found EXCEPT ![t] = @ \o ses]
      BY <2>5
    <3>3. ses \in Seq(Vms)
      <4>1. <<>> \in Seq(Vms) /\ Engines(Arg(t)) \in Seq(Vms)
        BY <3>1, FoundType
      <4>2. ses = <<>> \/ ses = Engines(Arg(t))
        BY <3>2 DEF SesSeen
      <4> QED BY <4>1, <4>2
    <3>4. found[t] \o ses \in Seq(Vms)
      BY <3>3 DEF TypeInv, TypeOK
    <3> QED BY <2>5, <3>2, <3>4 DEF TypeInv, TypeOK, CollectedType
  <2>6. CASE DestroyVm(t) /\ UNCHANGED uuid /\ found' = [found EXCEPT ![t] = Tail(@)]
    <3>1. Tail(found[t]) \in Seq(Vms)
      BY <2>6 DEF DestroyVm, TypeInv, TypeOK
    <3> QED BY <2>6, <3>1 DEF TypeInv, TypeOK, CollectedType
  <2> QED BY <2>1, <2>2, <2>3, <2>4, <2>5, <2>6
          DEF Uuid, FetchAlb, FetchSe, DestroyVm, VmsDestroyed
<1> QED BY <1>2, <1>3, <1>4, TypeParts

\* A step that tidies up, checks or answers.
Tidies(t) ==
  \/ Contexts(t) \/ Unregister(t) \/ Pools(t) \/ Folders(t) \/ Library(t)
  \/ Ova(t) \/ Templates(t) \/ Config(t) \/ NsxPiece(t)

\* A step that tidies up removes something or nothing, and goes on or fails.
LEMMA TidiesShape ==
  ASSUME NEW t \in Threads, Tidies(t)
  PROVE  /\ todo[t] # <<>> /\ Head(todo[t]).op \notin {"remove", "refuse"}
         /\ (Advance(t) /\ Collected) \/ Answer(t, "500")
         /\ \E gone : estate' = estate \ gone \/ estate' = estate
         /\ UNCHANGED cluster
<1>1. PICK op \in {"contexts", "unregister", "pools", "folders", "library", "ova",
                   "templates", "config", "nsx"} :
        \E gone, mayLeave, mayFail : Tidy(t, op, gone, mayLeave, mayFail)
  BY DEF Tidies, Contexts, Unregister, Pools, Folders, Library, Ova, Templates,
         Config, NsxPiece
<1>2. PICK gone, mayLeave, mayFail : Tidy(t, op, gone, mayLeave, mayFail)
  BY <1>1
<1>3. todo[t] # <<>> /\ Head(todo[t]).op \notin {"remove", "refuse"}
  BY <1>2 DEF Tidy, At
<1>4. (Advance(t) /\ Collected) \/ Answer(t, "500")
  BY <1>2 DEF Tidy
<1>5. (estate' = estate \ gone \/ estate' = estate) /\ UNCHANGED cluster
  BY <1>2 DEF Tidy
<1> QED BY <1>3, <1>4, <1>5

\* Steps that tidy up.
LEMMA TidiesType ==
  ASSUME TypeInv, NEW t \in Threads, Tidies(t) PROVE TypeInv'
<1>1. OwnType' /\ CollectedType'
  BY TidiesShape, AdvanceType, AnswerType, KeptType
<1>2. WorldType'
  BY TidiesShape DEF TypeInv, TypeOK, WorldType
<1> QED BY <1>1, <1>2, TypeParts

\* Steps that only look.
LEMMA PlainType ==
  ASSUME TypeInv, NEW t \in Threads,
         Session(t) \/ Refuse(t) \/ RefuseAlb(t) \/ Finish(t)
  PROVE  TypeInv'
<1>1. \/ todo[t] # <<>> /\ Advance(t) /\ Collected
      \/ \E code \in {"200", "500"} : Answer(t, code)
  BY DEF Session, Refuse, RefuseAlb, Finish, At
<1>2. OwnType' /\ CollectedType'
  BY <1>1, AdvanceType, AnswerType, KeptType
<1> QED BY <1>2, KeptType, TypeParts DEF Session, Refuse, RefuseAlb, Finish

\* Whatever a request does next.
LEMMA ServeType ==
  ASSUME TypeInv, NEW t \in Threads, Serve(t) PROVE TypeInv'
BY PlainType, ProbeType, FindClusterType, DeleteClusterType, PollType,
   MgmtDeleteType, VmsType, TidiesType
   DEF Serve, Tidies

\* What the clusters and the operating system do.
LEMMA WorldMovesType ==
  ASSUME TypeInv, (\E c \in Guests : ClusterGone(c) \/ ClusterStalls(c)) \/ Crash
  PROVE  TypeInv'
<1>1. CASE \E c \in Guests : ClusterGone(c) \/ ClusterStalls(c)
  <2>1. WorldType'
    BY <1>1 DEF ClusterGone, ClusterStalls, TypeInv, TypeOK, WorldType
  <2> QED BY <1>1, <2>1, KeptType, TypeParts
          DEF ClusterGone, ClusterStalls, work, Collected
<1>2. CASE Crash
  <2>1. OwnType'
    BY <1>2, SetupAssumption DEF Crash, TypeInv, TypeOK, OwnType, Counting
  <2>2. CollectedType'
    BY <1>2 DEF Crash, CollectedType
  <2> QED BY <1>2, <2>1, <2>2, KeptType, TypeParts DEF Crash
<1> QED BY <1>1, <1>2

\* Every step keeps the types and the count of the polls.
LEMMA StepTypeInv == TypeInv /\ [Next]_vars => TypeInv'
<1> SUFFICES ASSUME TypeInv, [Next]_vars PROVE TypeInv'
  OBVIOUS
<1>1. CASE UNCHANGED vars
  BY <1>1, KeptType, TypeParts DEF vars, work, Collected
<1> QED BY <1>1, BeginType, ServeType, WorldMovesType DEF Next

\* Whatever requests run side by side and whatever fails, every value is of
\* its type; no wait loop polls more often than its bound.
THEOREM TeardownTypes == Spec => []TypeOK
<1>1. TypeInv => TypeOK
  BY DEF TypeInv
<1> QED BY <1>1, InitTypes, StepTypeInv, PTL DEF Spec

-----------------------------------------------------------------------------
(* The controllers and the NSX-T objects.                                  *)

AlbControllers == {"controller1", "controller2"}

AlbGone == \A v \in AlbControllers : ~Present(v)

\* Without the first controller fetch_avi_vms finds none: so the second must
\* go before it.
SecondFirst == ~Present("controller1") => ~Present("controller2")

\* The VMs of a request are destroyed in order: the first controller stands
\* behind the second.
OrderlyFound(t) ==
  \A i \in 1..Len(found[t]) :
    found[t][i] = "controller1" =>
      \/ ~Present("controller2")
      \/ \E j \in 1..(i-1) : found[t][j] = "controller2"

\* The request has collected what controllers there are.
Accounted(t) ==
  \A v \in AlbControllers : Present(v) => \E i \in 1..Len(found[t]) : found[t][i] = v

\* Past such a step what the request has collected is gone.
Ascertains(x) == x.op \in {"destroy", "refuseAlb"}

\* Behind an NSX step's place there is one that ascertains, on controllers that
\* are collected already (`known') or before it.
BehindAt(s, i, known) ==
  s[i].op = "nsx" =>
    \/ AlbGone
    \/ \E j \in 1..(i-1) :
         Ascertains(s[j]) /\ (known \/ \E k \in 1..(j-1) : s[k].op = "fetchAlb")

Behind(s, known) == \A i \in 1..Len(s) : BehindAt(s, i, known)

NsxBehind(t) == Behind(todo[t], Accounted(t))

\* The inductive invariant.
NsxInv ==
  /\ NsxLast /\ SecondFirst
  /\ \A t \in Threads : OrderlyFound(t) /\ NsxBehind(t)

-----------------------------------------------------------------------------
(* Sequences of steps.                                                     *)

\* What is left after a step keeps its NSX steps behind what ascertains that the
\* controllers are gone.
LEMMA BehindTail ==
  ASSUME NEW s \in Seq(Steps), s # <<>>, NEW known \in BOOLEAN, Behind(s, known),
         ~Ascertains(Head(s)) \/ ~known, NEW now \in BOOLEAN,
         now \/ (~known /\ Head(s).op # "fetchAlb") \/ AlbGone
  PROVE  Behind(Tail(s), now)
<1> SUFFICES ASSUME NEW i \in 1..Len(Tail(s)), Tail(s)[i].op = "nsx", ~AlbGone
             PROVE  \E j \in 1..(i-1) :
                      /\ Ascertains(Tail(s)[j])
                      /\ now \/ \E k \in 1..(j-1) : Tail(s)[k].op = "fetchAlb"
  BY DEF Behind, BehindAt
<1>1. i + 1 \in 1..Len(s) /\ Tail(s)[i] = s[i + 1] /\ Head(s) = s[1]
  OBVIOUS
<1>2. \A j \in 1..i : j = 1 \/ (j - 1 \in 1..(i-1) /\ Tail(s)[j - 1] = s[j])
  OBVIOUS
<1>3. PICK j \in 1..i :
        Ascertains(s[j]) /\ (known \/ \E k \in 1..(j-1) : s[k].op = "fetchAlb")
  BY <1>1 DEF Behind, BehindAt
<1>4. j # 1
  BY <1>1, <1>3
<1>5. j - 1 \in 1..(i-1) /\ Ascertains(Tail(s)[j - 1])
  BY <1>2, <1>3, <1>4
<1>6. CASE now
  BY <1>5, <1>6
<1>7. CASE ~known /\ Head(s).op # "fetchAlb"
  <2>1. PICK k \in 1..(j-1) : s[k].op = "fetchAlb"
    BY <1>3, <1>7
  <2>2. k # 1
    BY <1>1, <1>7, <2>1
  <2>3. k - 1 \in 1..((j-1)-1) /\ Tail(s)[k - 1] = s[k]
    BY <1>2, <2>2
  <2> QED BY <1>5, <2>1, <2>3
<1> QED BY <1>6, <1>7

\* Steps that are not on NSX may be put in front.
LEMMA BehindConcat ==
  ASSUME NEW r \in Seq(Steps), NEW s \in Seq(Steps), NEW known \in BOOLEAN,
         Behind(s, known), \A i \in 1..Len(r) : r[i].op # "nsx"
  PROVE  Behind(r \o s, known)
<1> SUFFICES ASSUME NEW i \in 1..Len(r \o s), (r \o s)[i].op = "nsx", ~AlbGone
             PROVE  \E j \in 1..(i-1) :
                      /\ Ascertains((r \o s)[j])
                      /\ known \/ \E k \in 1..(j-1) : (r \o s)[k].op = "fetchAlb"
  BY DEF Behind, BehindAt
<1> DEFINE n == i - Len(r)
<1>1. n \in 1..Len(s) /\ (r \o s)[i] = s[n]
  OBVIOUS
<1>2. \A j \in 1..(n-1) : j + Len(r) \in 1..(i-1) /\ (r \o s)[j + Len(r)] = s[j]
  OBVIOUS
<1>3. PICK j \in 1..(n-1) :
        Ascertains(s[j]) /\ (known \/ \E k \in 1..(j-1) : s[k].op = "fetchAlb")
  BY <1>1 DEF Behind, BehindAt
<1>4. \A k \in 1..(j-1) : k + Len(r) \in 1..((j + Len(r))-1) /\ (r \o s)[k + Len(r)] = s[k]
  BY <1>1
<1> QED BY <1>2, <1>3, <1>4

\* The front of two sequences is the first.
LEMMA FrontOf ==
  ASSUME NEW r \in Seq(Steps), NEW s \in Seq(Steps), NEW i \in 1..Len(r)
  PROVE  (r \o s)[i] = r[i]
OBVIOUS

\* An index beyond the first belongs to the second.
LEMMA LaterOf ==
  ASSUME NEW r \in Seq(Steps), NEW s \in Seq(Steps), NEW i \in 1..Len(r \o s)
  PROVE  i \in Nat /\ (i > Len(r) \/ i \in 1..Len(r))
OBVIOUS

\* Without NSX steps there is nothing to stand behind.
LEMMA BehindNone ==
  ASSUME NEW s, NEW known, \A i \in 1..Len(s) : s[i].op # "nsx" PROVE Behind(s, known)
BY DEF Behind, BehindAt

\* The more is known of the controllers, the less has to follow.
LEMMA BehindKnown ==
  ASSUME NEW s, NEW known \in BOOLEAN, NEW now \in BOOLEAN, Behind(s, known), known => now
  PROVE  Behind(s, now)
BY DEF Behind, BehindAt

\* Both requests that remove NSX objects see to the controllers first.
LEMMA StepsOfBehind ==
  ASSUME NEW o \in Options, NEW known \in BOOLEAN PROVE Behind(StepsOf(o), known)
<1>0. NsxOrder \in Seq(NsxPieces) /\ ForEach("nsx", NsxOrder) \in Seq(Steps)
  BY NsxOrderType, NsxType
<1>1. CASE o = "all"
  <2> DEFINE s ==
        << Do("session"), Do("probe"), Do("contexts"), Step("unregister", "guests"),
           Step("unregister", "mgmt"), Do("uuid"), Do("fetchAlb"),
           Step("fetchSe", "all"), Do("destroy"), Do("pools"), Do("library"),
           Do("ova"), Do("folders"), Do("templates"), Do("config") >>
  <2>1. s \in Seq(Steps)
    BY DoType, StepTypes DEF Plain
  <2>2. Len(s) = 15 /\ s[7].op = "fetchAlb" /\ Ascertains(s[9])
    BY DEF Do, Step, Ascertains
  <2>3. \A i \in 1..15 : s[i].op # "nsx"
    BY DEF Do, Step
  <2>4. StepsOf(o) = s \o ForEach("nsx", NsxOrder)
    BY <1>1 DEF StepsOf, AllSteps
  <2> HIDE DEF s
  <2>5. \A i \in 1..15 : (s \o ForEach("nsx", NsxOrder))[i] = s[i]
    BY <1>0, <2>1, <2>2, FrontOf
  <2>6. ASSUME NEW i \in 1..Len(StepsOf(o)), StepsOf(o)[i].op = "nsx"
        PROVE  i \in Nat /\ i > 15
    BY <1>0, <2>1, <2>2, <2>3, <2>4, <2>5, <2>6, LaterOf
  <2>7. StepsOf(o)[7].op = "fetchAlb" /\ Ascertains(StepsOf(o)[9])
    <3>1. 7 \in 1..15 /\ 9 \in 1..15
      OBVIOUS
    <3>2. \A i \in 1..15 : StepsOf(o)[i] = s[i]
      BY <2>4, <2>5
    <3>3. StepsOf(o)[7] = s[7] /\ StepsOf(o)[9] = s[9]
      BY <3>1, <3>2
    <3> QED BY <2>2, <3>3, Zenon DEF Ascertains
  <2>8. \A i \in Nat : i > 15 => 9 \in 1..(i-1) /\ 7 \in 1..(9-1)
    OBVIOUS
  <2> QED BY <2>6, <2>7, <2>8 DEF Behind, BehindAt
<1>2. CASE o = "nsx"
  <2> DEFINE s == <<Do("session"), Do("fetchAlb"), Do("refuseAlb")>>
  <2>1. s \in Seq(Steps)
    BY DoType DEF Plain
  <2>2. Len(s) = 3 /\ s[2].op = "fetchAlb" /\ Ascertains(s[3])
    BY DEF Do, Step, Ascertains
  <2>3. \A i \in 1..3 : s[i].op # "nsx"
    BY DEF Do, Step
  <2>4. StepsOf(o) = s \o ForEach("nsx", NsxOrder)
    BY <1>2 DEF StepsOf, NsxSteps
  <2> HIDE DEF s
  <2>5. \A i \in 1..3 : (s \o ForEach("nsx", NsxOrder))[i] = s[i]
    BY <1>0, <2>1, <2>2, FrontOf
  <2>6. ASSUME NEW i \in 1..Len(StepsOf(o)), StepsOf(o)[i].op = "nsx"
        PROVE  i \in Nat /\ i > 3
    BY <1>0, <2>1, <2>2, <2>3, <2>4, <2>5, <2>6, LaterOf
  <2>7. StepsOf(o)[2].op = "fetchAlb" /\ Ascertains(StepsOf(o)[3])
    <3>1. 2 \in 1..3 /\ 3 \in 1..3
      OBVIOUS
    <3>2. \A i \in 1..3 : StepsOf(o)[i] = s[i]
      BY <2>4, <2>5
    <3>3. StepsOf(o)[2] = s[2] /\ StepsOf(o)[3] = s[3]
      BY <3>1, <3>2
    <3> QED BY <2>2, <3>3, Zenon DEF Ascertains
  <2>8. \A i \in Nat : i > 3 => 3 \in 1..(i-1) /\ 2 \in 1..(3-1)
    OBVIOUS
  <2> QED BY <2>6, <2>7, <2>8 DEF Behind, BehindAt
<1>3. CASE o \in {"mgmt", "avi", "shared"}
  <2>1. \A i \in 1..Len(StepsOf(o)) : StepsOf(o)[i].op # "nsx"
    BY <1>3 DEF StepsOf, MgmtSteps, AviSteps, GuestSteps, Do, Step
  <2> QED BY <2>1, BehindNone
<1>4. CASE o = "workload"
  <2> DEFINE r == GuestSteps("workload")
             q == <<Step("fetchSe", "workload"), Do("destroy")>>
  <2>1. r \in Seq(Steps) /\ q \in Seq(Steps)
    BY DoType, StepTypes DEF Plain, Clusters, GuestSteps
  <2>2. /\ \A i \in 1..Len(r) : r[i].op # "nsx"
        /\ \A i \in 1..Len(q) : q[i].op # "nsx"
    BY DEF GuestSteps, Do, Step
  <2>3. StepsOf(o) = r \o q
    BY <1>4 DEF StepsOf
  <2> HIDE DEF r, q
  <2> QED BY <2>1, <2>2, <2>3, BehindNone, BehindConcat
<1> QED BY <1>1, <1>2, <1>3, <1>4 DEF Options

\* The steps after the probe remove no NSX object themselves.
LEMMA OnManagementNone ==
  ASSUME NEW o, NEW i \in 1..Len(OnManagement(o)) PROVE OnManagement(o)[i].op # "nsx"
<1>1. CASE o = "all"
  BY <1>1 DEF OnManagement, ForEach, Step
<1>2. CASE o = "mgmt"
  BY <1>2 DEF OnManagement, Step
<1>3. CASE o \notin {"all", "mgmt"}
  BY <1>3 DEF OnManagement
<1> QED BY <1>1, <1>2, <1>3

-----------------------------------------------------------------------------
(* What a step leaves alone.                                               *)

OthersKept(t) == \A u \in Threads \ {t} : todo'[u] = todo[u] /\ found'[u] = found[u]

\* VMs do not come back: what is collected or gone stays so.
LEMMA Shrinks ==
  ASSUME estate' \subseteq estate, NEW t, found'[t] = found[t]
  PROVE  /\ AlbGone => AlbGone'
         /\ Accounted(t) => Accounted(t)'
         /\ OrderlyFound(t) => OrderlyFound(t)'
BY DEF AlbGone, Accounted, OrderlyFound, Present, AlbControllers

\* A request that is given such steps has them.
LEMMA BehindNow ==
  ASSUME NEW s, NEW known \in BOOLEAN, NEW t, Behind(s, known), AlbGone => AlbGone',
         todo'[t] = s, known => Accounted(t)'
  PROVE  NsxBehind(t)'
<1>1. \A i \in 1..Len(s) :
        s[i].op = "nsx" =>
          \/ AlbGone'
          \/ \E j \in 1..(i-1) :
               Ascertains(s[j]) /\ (Accounted(t)' \/ \E k \in 1..(j-1) : s[k].op = "fetchAlb")
  BY DEF Behind, BehindAt
<1> QED BY <1>1 DEF NsxBehind, Behind, BehindAt, Ascertains

\* A request that has gone on with the same VMs.
LEMMA SameKept ==
  ASSUME NsxInv, NEW t \in Threads, estate' \subseteq estate,
         found'[t] = found[t], todo'[t] = todo[t]
  PROVE  OrderlyFound(t)' /\ NsxBehind(t)'
<1>1. OrderlyFound(t) /\ Behind(todo[t], Accounted(t)) /\ Accounted(t) \in BOOLEAN
  BY DEF NsxInv, NsxBehind, Accounted
<1> QED BY <1>1, Shrinks, BehindNow

\* The invariant after a step of one request, by what it does to that request and to the
\* VMs.
LEMMA NsxFrame ==
  ASSUME NsxInv, NEW t \in Threads, estate' \subseteq estate, OthersKept(t),
         OrderlyFound(t)', NsxBehind(t)', NsxLast', SecondFirst'
  PROVE  NsxInv'
<1>1. ASSUME NEW u \in Threads \ {t} PROVE OrderlyFound(u)' /\ NsxBehind(u)'
  BY SameKept DEF OthersKept
<1> QED BY <1>1 DEF NsxInv

\* While no VM goes what holds of the VMs stays.
LEMMA WorldKept ==
  ASSUME NsxInv, estate' = estate PROVE NsxLast' /\ SecondFirst'
BY DEF NsxInv, NsxLast, SecondFirst, Present

-----------------------------------------------------------------------------
(* How a request goes on.                                                  *)

\* An answered request has no steps left.
LEMMA AnswerNsx ==
  ASSUME TypeInv, NEW t \in Threads, NEW code, Answer(t, code)
  PROVE  OthersKept(t) /\ OrderlyFound(t)' /\ NsxBehind(t)'
<1>1. OthersKept(t)
  BY DEF Answer, OthersKept, TypeInv, TypeOK
<1>2. todo'[t] = <<>> /\ found'[t] = <<>>
  BY DEF Answer, TypeInv, TypeOK
<1> QED BY <1>1, <1>2 DEF OrderlyFound, NsxBehind, Behind

\* A request that stays where it is.
LEMMA StayNsx ==
  ASSUME NsxInv, NEW t \in Threads, estate' \subseteq estate, UNCHANGED <<todo, found>>
  PROVE  OthersKept(t) /\ OrderlyFound(t)' /\ NsxBehind(t)'
BY SameKept DEF OthersKept

\* A step that is not about controllers gives way to others.
LEMMA ProceedNsx ==
  ASSUME TypeInv, NsxInv, NEW t \in Threads, estate' \subseteq estate, UNCHANGED found,
         todo[t] # <<>>, Head(todo[t]).op \notin {"fetchAlb", "refuseAlb", "destroy"},
         NEW r \in Seq(Steps), \A i \in 1..Len(r) : r[i].op # "nsx",
         Proceed(t, r \o Tail(todo[t]))
  PROVE  OthersKept(t) /\ OrderlyFound(t)' /\ NsxBehind(t)'
<1>1. todo[t] \in Seq(Steps) /\ Tail(todo[t]) \in Seq(Steps)
  BY HeadTail DEF TypeInv, TypeOK
<1>2. OthersKept(t) /\ todo'[t] = r \o Tail(todo[t])
  BY DEF Proceed, OthersKept, TypeInv, TypeOK
<1>3. Behind(todo[t], Accounted(t)) /\ Accounted(t) \in BOOLEAN
  BY DEF NsxInv, NsxBehind, Accounted
<1>4. Behind(Tail(todo[t]), Accounted(t))
  BY <1>1, <1>3, BehindTail DEF Ascertains
<1>5. Behind(r \o Tail(todo[t]), Accounted(t))
  BY <1>1, <1>3, <1>4, BehindConcat
<1>6. NsxBehind(t)'
  BY <1>2, <1>3, <1>5, Shrinks, BehindNow
<1>7. OrderlyFound(t)'
  BY Shrinks DEF NsxInv
<1> QED BY <1>2, <1>6, <1>7

\* A request that goes on with its next step.
LEMMA AdvanceNsx ==
  ASSUME TypeInv, NsxInv, NEW t \in Threads, estate' \subseteq estate, UNCHANGED found,
         todo[t] # <<>>, Head(todo[t]).op \notin {"fetchAlb", "refuseAlb", "destroy"},
         Advance(t)
  PROVE  OthersKept(t) /\ OrderlyFound(t)' /\ NsxBehind(t)'
<1>1. Tail(todo[t]) = <<>> \o Tail(todo[t]) /\ <<>> \in Seq(Steps)
  BY HeadTail
<1>2. Proceed(t, <<>> \o Tail(todo[t]))
  BY <1>1 DEF Advance
<1>3. \A i \in 1..Len(<<>>) : <<>>[i].op # "nsx"
  OBVIOUS
<1> QED BY <1>1, <1>2, <1>3, ProceedNsx

\* No controller is left: nothing more is asked of the request.
LEMMA GoneNsx ==
  ASSUME NEW t, AlbGone' PROVE NsxBehind(t)'
BY DEF NsxBehind, Behind, BehindAt

\* What was collected is gone, and the controllers were collected or are yet to be.
LEMMA AscertainedNsx ==
  ASSUME TypeInv, NsxInv, NEW t \in Threads, estate' = estate, UNCHANGED found,
         todo[t] # <<>>, Ascertains(Head(todo[t])), found[t] = <<>>, Advance(t)
  PROVE  OthersKept(t) /\ OrderlyFound(t)' /\ NsxBehind(t)'
<1>1. OthersKept(t) /\ todo'[t] = Tail(todo[t])
  BY DEF Advance, Proceed, OthersKept, TypeInv, TypeOK
<1>2. OrderlyFound(t)'
  BY Shrinks DEF NsxInv
<1>3. CASE Accounted(t)
  <2>1. AlbGone'
    BY <1>3 DEF Accounted, AlbGone, Present
  <2> QED BY <1>1, <1>2, <2>1, GoneNsx
<1>4. CASE ~Accounted(t)
  <2>1. Behind(todo[t], FALSE) /\ todo[t] \in Seq(Steps)
    BY <1>4 DEF NsxInv, NsxBehind, Behind, BehindAt, TypeInv, TypeOK
  <2>2. Behind(Tail(todo[t]), FALSE)
    BY <2>1, BehindTail DEF Ascertains
  <2>3. AlbGone => AlbGone'
    BY Shrinks
  <2>4. NsxBehind(t)'
    BY <1>1, <2>2, <2>3, BehindNow
  <2> QED BY <1>1, <1>2, <2>4
<1> QED BY <1>3, <1>4

-----------------------------------------------------------------------------
(* Steps.                                                                  *)

\* At first there are no requests.
LEMMA InitNsx == Init => NsxInv
<1> SUFFICES ASSUME Init PROVE NsxInv
  OBVIOUS
<1>1. NsxLast
  BY DEF Init, NsxLast, Estate
<1>2. SecondFirst
  BY DEF Init, SecondFirst, Present, Estate, Vms
<1>3. ASSUME NEW t \in Threads PROVE OrderlyFound(t) /\ NsxBehind(t)
  <2>1. todo[t] = <<>> /\ found[t] = <<>>
    BY DEF Init
  <2> QED BY <2>1 DEF OrderlyFound, NsxBehind, Behind
<1> QED BY <1>1, <1>2, <1>3 DEF NsxInv

\* Each option has its NSX steps behind those of the controllers.
LEMMA BeginNsx ==
  ASSUME TypeInv, NsxInv, NEW t \in Threads, Begin(t) PROVE NsxInv'
<1>1. PICK a \in Asks : todo' = [todo EXCEPT ![t] = StepsOf(a.option)]
  BY DEF Begin
<1>2. OthersKept(t) /\ todo'[t] = StepsOf(a.option)
  BY <1>1 DEF OthersKept, Begin, TypeInv, TypeOK
<1>3. Behind(StepsOf(a.option), FALSE)
  BY SetupAssumption, StepsOfBehind DEF Ask
<1>4. estate' = estate /\ found' = found
  BY DEF Begin
<1>5. OrderlyFound(t)' /\ (AlbGone => AlbGone')
  BY <1>4, Shrinks DEF NsxInv
<1>6. NsxBehind(t)'
  BY <1>2, <1>3, <1>5, BehindNow
<1> QED BY <1>2, <1>4, <1>5, <1>6, WorldKept, NsxFrame

\* Checks and what is done to clusters leave VMs and NSX-T alone.
LEMMA ClusterNsx ==
  ASSUME TypeInv, NsxInv, NEW t \in Threads,
         \/ Session(t) \/ Finish(t) \/ Probe(t) \/ Refuse(t) \/ FindCluster(t)
         \/ DeleteCluster(t) \/ FirstPoll(t) \/ Poll(t) \/ StartMgmtDelete(t)
         \/ EndMgmtDelete(t) \/ PollMgmt(t) \/ Uuid(t)
  PROVE  NsxInv'
<1> DEFINE Kept == OthersKept(t) /\ OrderlyFound(t)' /\ NsxBehind(t)'
<1>1. estate' = estate
  BY DEF Session, Finish, Probe, Refuse, FindCluster, DeleteCluster, FirstPoll, Poll,
         StartMgmtDelete, EndMgmtDelete, PollMgmt, Uuid
<1>2. /\ \A code : Answer(t, code) => Kept
      /\ \A place : Within(t, place) => Kept
      /\ Again(t) => Kept
  BY <1>1, AnswerNsx, StayNsx DEF Within, Again
<1>3. CASE Session(t) \/ Refuse(t) \/ Uuid(t) \/ PollMgmt(t) \/ FindCluster(t)
  <2>1. /\ todo[t] # <<>>
        /\ Head(todo[t]).op \notin {"fetchAlb", "refuseAlb", "destroy"}
    BY <1>3 DEF Session, Refuse, Uuid, PollMgmt, FindCluster, Removing, At
  <2>2. Advance(t) /\ UNCHANGED found => Kept
    BY <1>1, <2>1, AdvanceNsx
  <2>3. Kept
    BY <1>2, <1>3, <2>2
       DEF Session, Refuse, Uuid, PollMgmt, FindCluster, Collected
  <2> QED BY <1>1, <2>3, WorldKept, NsxFrame
<1>4. CASE DeleteCluster(t) \/ FirstPoll(t) \/ Poll(t)
  <2>1. /\ todo[t] # <<>>
        /\ Head(todo[t]).op \notin {"fetchAlb", "refuseAlb", "destroy"}
    BY <1>4 DEF DeleteCluster, FirstPoll, Poll, Removing, At
  <2> DEFINE r == IF ask[t].option = Arg(t) THEN <<Do("contexts")>> ELSE <<>>
  <2>2. r \in Seq(Steps) /\ \A i \in 1..Len(r) : r[i].op # "nsx"
    <3>1. Do("contexts") \in Steps /\ Do("contexts").op # "nsx"
      BY DoType DEF Plain, Do, Step
    <3> QED BY <3>1
  <2>3. Removed(t) => Proceed(t, r \o Tail(todo[t])) /\ UNCHANGED found
    BY DEF Removed, Collected
  <2> HIDE DEF r
  <2>4. Removed(t) => Kept
    BY <1>1, <2>1, <2>2, <2>3, ProceedNsx
  <2>5. Kept
    BY <1>2, <1>4, <2>4 DEF DeleteCluster, FirstPoll, Poll
  <2> QED BY <1>1, <2>5, WorldKept, NsxFrame
<1>5. CASE StartMgmtDelete(t) \/ EndMgmtDelete(t) \/ Finish(t)
  <2>1. Kept
    BY <1>2, <1>5 DEF StartMgmtDelete, EndMgmtDelete, Finish
  <2> QED BY <1>1, <2>1, WorldKept, NsxFrame
<1>6. CASE Probe(t)
  <2>1. PICK seen \in Management :
         IF seen /\ ask[t].option = "avi" THEN Answer(t, "500")
         ELSE /\ Proceed(t, (IF seen THEN OnManagement(ask[t].option) ELSE <<>>)
                              \o Tail(todo[t]))
              /\ Collected
    BY <1>6 DEF Probe
  <2>2. todo[t] # <<>> /\ Head(todo[t]).op \notin {"fetchAlb", "refuseAlb", "destroy"}
    BY <1>6 DEF Probe, At
  <2> DEFINE r == IF seen THEN OnManagement(ask[t].option) ELSE <<>>
  <2>3. r \in Seq(Steps) /\ \A i \in 1..Len(r) : r[i].op # "nsx"
    BY OnManagementType, OnManagementNone
  <2>4. Answer(t, "500") \/ (Proceed(t, r \o Tail(todo[t])) /\ UNCHANGED found)
    BY <2>1 DEF Collected
  <2> HIDE DEF r
  <2>5. Kept
    BY <1>1, <1>2, <2>2, <2>3, <2>4, ProceedNsx
  <2> QED BY <1>1, <2>5, WorldKept, NsxFrame
<1> QED BY <1>3, <1>4, <1>5, <1>6

\* The controllers are collected, the second before the first.
LEMMA FetchAlbNsx ==
  ASSUME TypeInv, NsxInv, NEW t \in Threads, FetchAlb(t) PROVE NsxInv'
<1>1. estate' = estate
  BY DEF FetchAlb
<1>2. CASE Answer(t, "500")
  BY <1>1, <1>2, AnswerNsx, WorldKept, NsxFrame
<1>3. CASE /\ found' = [found EXCEPT ![t] =
                          IF Present("controller1") THEN Controllers ELSE <<>>]
           /\ Advance(t)
  <2>1. todo[t] # <<>> /\ Head(todo[t]).op = "fetchAlb" /\ todo[t] \in Seq(Steps)
    BY DEF FetchAlb, At, TypeInv, TypeOK
  <2>2. /\ OthersKept(t) /\ todo'[t] = Tail(todo[t])
        /\ found'[t] = IF Present("controller1") THEN Controllers ELSE <<>>
    BY <1>3 DEF Advance, Proceed, OthersKept, TypeInv, TypeOK
  <2>3. \A v : Present(v)' <=> Present(v)
    BY <1>1 DEF Present
  <2>4. Accounted(t)' /\ OrderlyFound(t)'
    <3>1. CASE ~Present("controller1")
      BY <2>2, <2>3, <3>1 DEF NsxInv, SecondFirst, Accounted, OrderlyFound, AlbControllers
    <3>2. CASE Present("controller1") /\ Present("controller2")
      <4>1. found'[t] = <<"controller2">> \o <<"controller1">>
        BY <2>2, <3>2 DEF Controllers, Found
      <4>2. /\ Len(found'[t]) = 2 /\ found'[t][1] = "controller2"
            /\ found'[t][2] = "controller1" /\ 1 \in 1..(2-1)
        BY <4>1
      <4> QED BY <4>2 DEF Accounted, OrderlyFound, AlbControllers
    <3>3. CASE Present("controller1") /\ ~Present("controller2")
      <4>1. found'[t] = <<"controller1">>
        BY <2>2, <3>3 DEF Controllers, Found
      <4> QED BY <2>3, <3>3, <4>1 DEF Accounted, OrderlyFound, AlbControllers
    <3> QED BY <3>1, <3>2, <3>3
  <2>5. Behind(todo[t], Accounted(t)) /\ Accounted(t) \in BOOLEAN
    BY DEF NsxInv, NsxBehind, Accounted
  <2>6. Behind(Tail(todo[t]), TRUE)
    BY <2>1, <2>5, BehindTail DEF Ascertains
  <2>7. NsxBehind(t)'
    <3>1. AlbGone => AlbGone'
      BY <2>3 DEF AlbGone
    <3> QED BY <2>2, <2>4, <2>6, <3>1, BehindNow
  <2> QED BY <1>1, <2>2, <2>4, <2>7, WorldKept, NsxFrame
<1> QED BY <1>2, <1>3 DEF FetchAlb

\* Engines are collected behind them.
LEMMA FetchSeNsx ==
  ASSUME TypeInv, NsxInv, NEW t \in Threads, FetchSe(t) PROVE NsxInv'
<1>1. estate' = estate
  BY DEF FetchSe
<1>2. CASE Answer(t, "500")
  BY <1>1, <1>2, AnswerNsx, WorldKept, NsxFrame
<1>3. CASE Advance(t) /\ \E ses \in SesSeen(Arg(t)) : found' = [found EXCEPT ![t] = @ \o ses]
  <2>1. todo[t] # <<>> /\ Head(todo[t]).op = "fetchSe" /\ todo[t] \in Seq(Steps)
    BY DEF FetchSe, At, TypeInv, TypeOK
  <2>2. PICK ses \in SesSeen(Arg(t)) : found' = [found EXCEPT ![t] = @ \o ses]
    BY <1>3
  <2>3. ses \in Seq(Vms) /\ \A i \in 1..Len(ses) : ses[i] # "controller1"
    <3>1. Arg(t) \in {"mgmt", "workload", "all"}
      BY <2>1, HeadTail DEF Arg, Steps
    <3>2. ses = <<>> \/ ses = Engines(Arg(t))
      BY DEF SesSeen
    <3>3. Engines(Arg(t)) \in Seq(Vms)
      BY <3>1, FoundType
    <3>4. \A i \in 1..Len(Engines(Arg(t))) : Engines(Arg(t))[i] # "controller1"
      BY <3>1 DEF Engines, Found
    <3> QED
      <4>1. CASE ses = <<>>
        BY <4>1
      <4>2. CASE ses = Engines(Arg(t))
        BY <3>3, <3>4, <4>2
      <4> QED BY <3>2, <4>1, <4>2
  <2>4. /\ OthersKept(t) /\ todo'[t] = Tail(todo[t]) /\ found'[t] = found[t] \o ses
        /\ found[t] \in Seq(Vms)
    BY <1>3, <2>2 DEF Advance, Proceed, OthersKept, TypeInv, TypeOK
  <2>5. /\ \A i \in 1..Len(found[t]) : i \in 1..Len(found'[t]) /\ found'[t][i] = found[t][i]
        /\ \A i \in 1..Len(found'[t]) : i \in 1..Len(found[t]) \/ found'[t][i] # "controller1"
    <3>1. \A i \in 1..Len(found[t] \o ses) :
            \/ i \in 1..Len(found[t]) /\ (found[t] \o ses)[i] = found[t][i]
            \/ i - Len(found[t]) \in 1..Len(ses) /\ (found[t] \o ses)[i] = ses[i - Len(found[t])]
      BY <2>3, <2>4
    <3>2. \A i \in 1..Len(found[t]) : i \in 1..Len(found[t] \o ses)
      BY <2>3, <2>4
    <3>3. \A i \in 1..Len(found[t]) : (found[t] \o ses)[i] = found[t][i]
      BY <2>3, <2>4
    <3> QED BY <2>3, <2>4, <3>1, <3>2, <3>3
  <2>6. \A v : Present(v)' <=> Present(v)
    BY <1>1 DEF Present
  <2>7. OrderlyFound(t)'
    <3> SUFFICES ASSUME NEW i \in 1..Len(found'[t]), found'[t][i] = "controller1",
                        Present("controller2")
                 PROVE  \E j \in 1..(i-1) : found'[t][j] = "controller2"
      BY <2>6 DEF OrderlyFound
    <3>1. i \in 1..Len(found[t]) /\ found[t][i] = "controller1"
      BY <2>5
    <3>2. PICK j \in 1..(i-1) : found[t][j] = "controller2"
      BY <3>1 DEF NsxInv, OrderlyFound
    <3>3. j \in 1..Len(found[t])
      BY <2>4, <3>1
    <3> QED BY <2>5, <3>2, <3>3
  <2>8. NsxBehind(t)'
    <3>1. Behind(todo[t], Accounted(t)) /\ Accounted(t) \in BOOLEAN
      BY DEF NsxInv, NsxBehind, Accounted
    <3>2. Behind(Tail(todo[t]), Accounted(t))
      BY <2>1, <3>1, BehindTail DEF Ascertains
    <3>3. Accounted(t) => Accounted(t)'
      BY <2>5, <2>6 DEF Accounted
    <3>4. AlbGone => AlbGone'
      BY <2>6 DEF AlbGone
    <3> QED BY <2>4, <3>1, <3>2, <3>3, <3>4, BehindNow
  <2> QED BY <1>1, <2>4, <2>7, <2>8, WorldKept, NsxFrame
<1> QED BY <1>2, <1>3 DEF FetchSe

\* VMs are destroyed in the order in which they were collected.
LEMMA DestroyNsx ==
  ASSUME TypeInv, NsxInv, NEW t \in Threads, DestroyVm(t) PROVE NsxInv'
<1>1. CASE Answer(t, "500") /\ UNCHANGED estate
  BY <1>1, AnswerNsx, WorldKept, NsxFrame
<1>2. CASE /\ estate' = estate \ {Vm(Head(found[t]))}
           /\ found' = [found EXCEPT ![t] = Tail(@)]
           /\ UNCHANGED <<request, todo, stage, polls, uuid>>
  <2> DEFINE f == found[t]
             v == Head(f)
  <2>1. f \in Seq(Vms) /\ f # <<>> /\ v = f[1]
    BY DEF DestroyVm, TypeInv, TypeOK
  <2>2. OthersKept(t) /\ todo'[t] = todo[t] /\ found'[t] = Tail(f)
    BY <1>2 DEF OthersKept, TypeInv, TypeOK
  <2>3. \A w : Present(w)' <=> Present(w) /\ w # v
    BY <1>2 DEF Present, Vm
  <2>4. /\ \A i \in 1..Len(f) : i = 1 \/ (i - 1 \in 1..Len(Tail(f)) /\ Tail(f)[i - 1] = f[i])
        /\ \A i \in 1..Len(Tail(f)) : i + 1 \in 1..Len(f) /\ Tail(f)[i] = f[i + 1]
    BY <2>1
  <2>5. SecondFirst'
    <3>1. 1 \in 1..Len(f) /\ \A j : j \notin 1..(1-1)
      BY <2>1
    <3>2. v = "controller1" => ~Present("controller2")
      BY <2>1, <3>1 DEF NsxInv, OrderlyFound
    <3> QED BY <2>3, <3>2 DEF NsxInv, SecondFirst
  <2>6. NsxLast'
    <3>1. \A p : Nsx(p) # Vm(v)
      BY DEF Nsx, Vm
    <3> QED BY <1>2, <3>1 DEF NsxInv, NsxLast
  <2>7. OrderlyFound(t)'
    <3> SUFFICES ASSUME NEW i \in 1..Len(Tail(f)), Tail(f)[i] = "controller1",
                        Present("controller2"), v # "controller2"
                 PROVE  \E j \in 1..(i-1) : Tail(f)[j] = "controller2"
      BY <2>2, <2>3 DEF OrderlyFound
    <3>1. i + 1 \in 1..Len(f) /\ f[i + 1] = "controller1"
      BY <2>4
    <3>2. PICK j \in 1..((i + 1)-1) : f[j] = "controller2"
      BY <3>1 DEF NsxInv, OrderlyFound
    <3>3. j # 1 /\ j \in 1..Len(f)
      BY <2>1, <3>1, <3>2
    <3>4. j - 1 \in 1..(i-1) /\ Tail(f)[j - 1] = "controller2"
      BY <2>4, <3>2, <3>3
    <3> QED BY <3>4
  <2>8. NsxBehind(t)'
    <3>1. Behind(todo[t], Accounted(t)) /\ Accounted(t) \in BOOLEAN
      BY DEF NsxInv, NsxBehind, Accounted
    <3>2. Accounted(t) => Accounted(t)'
      <4> SUFFICES ASSUME NEW w \in AlbControllers, Present(w), w # v,
                          NEW i \in 1..Len(f), f[i] = w
                   PROVE  \E k \in 1..Len(Tail(f)) : Tail(f)[k] = w
        BY <2>2, <2>3 DEF Accounted
      <4> QED BY <2>1, <2>4
    <3>3. AlbGone => AlbGone'
      BY <2>3 DEF AlbGone
    <3> QED BY <2>2, <3>1, <3>2, <3>3, BehindNow
  <2>9. estate' \subseteq estate
    BY <1>2
  <2> QED BY <2>2, <2>5, <2>6, <2>7, <2>8, <2>9, NsxFrame
<1> QED BY <1>1, <1>2 DEF DestroyVm

\* The controllers are gone past the steps that ascertain it.
LEMMA AscertainNsx ==
  ASSUME TypeInv, NsxInv, NEW t \in Threads, RefuseAlb(t) \/ VmsDestroyed(t)
  PROVE  NsxInv'
<1>1. estate' = estate /\ todo[t] # <<>> /\ Ascertains(Head(todo[t]))
  BY DEF RefuseAlb, VmsDestroyed, At, Ascertains
<1>2. CASE Answer(t, "500")
  BY <1>1, <1>2, AnswerNsx, WorldKept, NsxFrame
<1>3. CASE found[t] = <<>> /\ Advance(t) /\ UNCHANGED found
  BY <1>1, <1>3, AscertainedNsx, WorldKept, NsxFrame
<1> QED BY <1>2, <1>3 DEF RefuseAlb, VmsDestroyed, Collected

\* An NSX-T object is removed when its turn has come, and then no controller is left.
LEMMA TidiesNsx ==
  ASSUME TypeInv, NsxInv, NEW t \in Threads, Tidies(t) PROVE NsxInv'
<1>1. \/ estate' = estate
      \/ \E gone : estate' = estate \ gone /\
           (gone \subseteq {Vm("seTemplate")} \/ (NsxPiece(t) /\ gone = {Nsx(Arg(t))}))
  BY DEF Tidies, Contexts, Unregister, Pools, Folders, Library, Ova, Templates, Config,
         NsxPiece, Tidy
<1>2. estate' \subseteq estate
  BY <1>1
<1>3. /\ \A v, p : Vm(v) # Nsx(p)
      /\ \A v \in AlbControllers : Vm(v) # Vm("seTemplate")
  BY DEF Vm, Nsx, AlbControllers
<1>4. \A v \in AlbControllers : Vm(v) \in estate' <=> Vm(v) \in estate
  BY <1>1, <1>3
<1>5. SecondFirst'
  BY <1>4 DEF NsxInv, SecondFirst, Present, AlbControllers
<1>6. NsxLast'
  <2>1. CASE NsxPiece(t)
    <3>1. todo[t] \in Seq(Steps) /\ todo[t] # <<>> /\ Head(todo[t]).op = "nsx"
      BY <2>1 DEF NsxPiece, Tidy, At, TypeInv, TypeOK
    <3>2. 1 \in 1..Len(todo[t]) /\ Head(todo[t]) = todo[t][1] /\ \A j : j \notin 1..(1-1)
      BY <3>1
    <3>3. AlbGone
      BY <3>1, <3>2 DEF NsxInv, NsxBehind, Behind, BehindAt
    <3> QED BY <1>4, <3>3 DEF NsxLast, AlbGone, Present, AlbControllers
  <2>2. CASE ~NsxPiece(t)
    <3>1. \A p \in NsxObjects : Nsx(p) \in estate' <=> Nsx(p) \in estate
      BY <1>1, <1>3, <2>2
    <3> QED BY <1>4, <3>1 DEF NsxInv, NsxLast, AlbControllers
  <2> QED BY <2>1, <2>2
<1>7. /\ todo[t] # <<>> /\ ((Advance(t) /\ Collected) \/ Answer(t, "500"))
      /\ Head(todo[t]).op \notin {"fetchAlb", "refuseAlb", "destroy"}
  BY TidiesShape DEF Tidies, Contexts, Unregister, Pools, Folders, Library, Ova, Templates,
     Config, NsxPiece, Tidy, At
<1>8. OthersKept(t) /\ OrderlyFound(t)' /\ NsxBehind(t)'
  BY <1>2, <1>7, AnswerNsx, AdvanceNsx DEF Collected
<1> QED BY <1>2, <1>5, <1>6, <1>8, NsxFrame

\* Every step keeps the invariant.
LEMMA StepNsx == TypeInv /\ NsxInv /\ [Next]_vars => NsxInv'
<1> SUFFICES ASSUME TypeInv, NsxInv, [Next]_vars PROVE NsxInv'
  OBVIOUS
<1>1. ASSUME NEW t \in Threads, Begin(t) PROVE NsxInv'
  BY <1>1, BeginNsx
<1>2. ASSUME NEW t \in Threads, Serve(t) PROVE NsxInv'
  BY <1>2, ClusterNsx, FetchAlbNsx, FetchSeNsx, DestroyNsx, AscertainNsx, TidiesNsx
     DEF Serve, Tidies
<1>3. CASE \/ \E c \in Guests : ClusterGone(c) \/ ClusterStalls(c)
           \/ UNCHANGED vars
  <2>1. estate' = estate /\ UNCHANGED <<todo, found>>
    BY <1>3 DEF ClusterGone, ClusterStalls, vars, work
  <2>2. ASSUME NEW t \in Threads PROVE OrderlyFound(t)' /\ NsxBehind(t)'
    BY <2>1, StayNsx
  <2> QED BY <2>1, <2>2, WorldKept DEF NsxInv
<1>4. CASE Crash
  <2>1. ASSUME NEW t \in Threads PROVE OrderlyFound(t)' /\ NsxBehind(t)'
    <3>1. todo'[t] = <<>> /\ found'[t] = <<>>
      BY <1>4 DEF Crash
    <3> QED BY <3>1 DEF OrderlyFound, NsxBehind, Behind
  <2> QED BY <1>4, <2>1, WorldKept DEF NsxInv, Crash
<1> QED BY <1>1, <1>2, <1>3, <1>4 DEF Next

\* No NSX-T object is removed while a controller is left that stands on it: for
\* any number of requests of any option, whatever command fails, and wherever the
\* server ends, since the first controller, without which the others are not
\* found, is always the last.
THEOREM NsxLastAlways == Spec => []NsxLast
<1>1. NsxInv => NsxLast
  BY DEF NsxInv
<1> QED BY <1>1, InitTypes, StepTypeInv, InitNsx, StepNsx, PTL DEF Spec

=============================================================================
