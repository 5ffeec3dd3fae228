------------------------- MODULE TeardownOrder_proofs -------------------------
(***************************************************************************)
(* That cleanup requests, however many run side by side and whatever their *)
(* options, take nothing down before what depends on it, as long as the    *)
(* commands that show and delete clusters do not fail.                     *)
(***************************************************************************)
EXTENDS Teardown_proofs

\* The listings, the deletion of a guest cluster and the end of it.
ClusterCommands == {"list", "get", "delete", "stall"}

Reliable == Flaky \cap ClusterCommands = {}

Gone(c) == cluster[c] = "absent"

RemoveMgmt == Step("remove", "mgmt")

\* A step past which the guest cluster `c' is gone.
Clears(x, c) == x \in {Step("remove", c), Step("refuse", c)}

\* A step past which the management cluster is gone.
Ends(x) == x.op = "probe" \/ x = RemoveMgmt

\* What may follow in a request of option `o': the management cluster is
\* removed behind steps that clear the guests, VMs are destroyed behind steps
\* that end the cluster they serve.
OrderedAt(s, o, i) ==
  /\ s[i] = RemoveMgmt => \A c \in Guests : Gone(c) \/ \E j \in 1..(i-1) : Clears(s[j], c)
  /\ s[i].op = "destroy" /\ o # "workload" => Gone("mgmt") \/ \E j \in 1..(i-1) : Ends(s[j])
  /\ s[i].op = "destroy" /\ o = "workload" =>
       Gone("workload") \/ \E j \in 1..(i-1) : s[j] = Step("remove", "workload")
  /\ s[i].op = "probe" => o \in {"all", "mgmt", "avi"}
  /\ o = "workload" => /\ s[i].op # "fetchAlb"
                       /\ s[i].op = "fetchSe" => s[i].arg = "workload"

Ordered(s, o) == \A i \in 1..Len(s) : OrderedAt(s, o, i)

OrderedTodo(t) == Ordered(todo[t], ask[t].option)

\* A request for the workload cluster collects its engine and nothing else.
FoundOwn(t) ==
  ask[t].option = "workload" => \A i \in 1..Len(found[t]) : found[t][i] = "seWork"

\* The inductive invariant.
OrderInv ==
  /\ MgmtLast /\ AlbServes
  /\ \A c \in Clusters : cluster[c] # "failed"
  /\ \A t \in Threads : OrderedTodo(t) /\ FoundOwn(t)

-----------------------------------------------------------------------------
(* Sequences of steps.                                                     *)

\* The head of a request has done what the steps behind it rely on.
Settled(x) ==
  /\ \A c \in Guests : Clears(x, c) => Gone(c)
  /\ Ends(x) => Gone("mgmt")

\* Past a step that is settled the order holds of the steps left.
LEMMA OrderedTail ==
  ASSUME NEW s \in Seq(Steps), NEW o, s # <<>>, Ordered(s, o), Settled(Head(s))
  PROVE  Ordered(Tail(s), o)
<1> SUFFICES ASSUME NEW i \in 1..Len(Tail(s)) PROVE OrderedAt(Tail(s), o, i)
  BY DEF Ordered
<1>1. i + 1 \in 1..Len(s) /\ Tail(s)[i] = s[i + 1] /\ Head(s) = s[1]
  OBVIOUS
<1>2. OrderedAt(s, o, i + 1)
  BY <1>1 DEF Ordered
<1>3. \A j \in 1..i : j = 1 \/ (j - 1 \in 1..(i-1) /\ Tail(s)[j - 1] = s[j])
  OBVIOUS
<1>4. ASSUME NEW c \in Guests, Tail(s)[i] = RemoveMgmt, ~Gone(c)
      PROVE  \E j \in 1..(i-1) : Clears(Tail(s)[j], c)
  <2>1. PICK j \in 1..i : Clears(s[j], c)
    BY <1>1, <1>2, <1>4 DEF OrderedAt
  <2>2. j # 1
    BY <1>1, <1>4, <2>1 DEF Settled
  <2> QED BY <1>3, <2>1, <2>2
<1>5. ASSUME Tail(s)[i].op = "destroy", o # "workload", ~Gone("mgmt")
      PROVE  \E j \in 1..(i-1) : Ends(Tail(s)[j])
  <2>1. PICK j \in 1..i : Ends(s[j])
    BY <1>1, <1>2, <1>5 DEF OrderedAt
  <2>2. j # 1
    BY <1>1, <1>5, <2>1 DEF Settled
  <2> QED BY <1>3, <2>1, <2>2
<1>6. ASSUME Tail(s)[i].op = "destroy", o = "workload", ~Gone("workload")
      PROVE  \E j \in 1..(i-1) : Tail(s)[j] = Step("remove", "workload")
  <2>1. PICK j \in 1..i : s[j] = Step("remove", "workload")
    BY <1>1, <1>2, <1>6 DEF OrderedAt
  <2>2. j # 1
    BY <1>1, <1>6, <2>1 DEF Settled, Clears, Guests
  <2> QED BY <1>3, <2>1, <2>2
<1> QED BY <1>1, <1>2, <1>4, <1>5, <1>6 DEF OrderedAt

\* The elements of two sequences, one after the other.
LEMMA ConcatParts ==
  ASSUME NEW r \in Seq(Steps), NEW q \in Seq(Steps)
  PROVE  /\ Len(r \o q) = Len(r) + Len(q)
         /\ \A i \in 1..Len(r) : (r \o q)[i] = r[i]
         /\ \A i \in 1..Len(q) : (r \o q)[Len(r) + i] = q[i]
OBVIOUS

\* Two ordered sequences make one.
LEMMA OrderedConcat ==
  ASSUME NEW r \in Seq(Steps), NEW s \in Seq(Steps), NEW o, Ordered(r, o), Ordered(s, o)
  PROVE  Ordered(r \o s, o)
<1> SUFFICES ASSUME NEW i \in 1..Len(r \o s) PROVE OrderedAt(r \o s, o, i)
  BY DEF Ordered
<1>1. CASE i \in 1..Len(r)
  <2>1. \A j \in 1..i : (r \o s)[j] = r[j]
    BY <1>1
  <2>2. OrderedAt(r, o, i)
    BY <1>1 DEF Ordered
  <2> QED BY <1>1, <2>1, <2>2 DEF OrderedAt
<1>2. CASE i \notin 1..Len(r)
  <2>1. i - Len(r) \in 1..Len(s) /\ (r \o s)[i] = s[i - Len(r)]
    BY <1>2
  <2>2. \A j \in 1..(i - Len(r) - 1) :
          j + Len(r) \in 1..(i-1) /\ (r \o s)[j + Len(r)] = s[j]
    BY <1>2
  <2>3. OrderedAt(s, o, i - Len(r))
    BY <2>1 DEF Ordered
  <2> QED BY <2>1, <2>2, <2>3 DEF OrderedAt
<1> QED BY <1>1, <1>2

\* The probe gives way to the removal of the management cluster.
LEMMA OrderedProbe ==
  ASSUME NEW r \in Seq(Steps), NEW s \in Seq(Steps), NEW o, o # "workload",
         Ordered(r, o), Ordered(s, o), s # <<>>, Head(s).op = "probe",
         \E k \in 1..Len(r) : r[k] = RemoveMgmt
  PROVE  Ordered(r \o Tail(s), o)
<1> SUFFICES ASSUME NEW i \in 1..Len(r \o Tail(s)) PROVE OrderedAt(r \o Tail(s), o, i)
  BY DEF Ordered
<1>0. Tail(s) \in Seq(Steps)
  OBVIOUS
<1>1. CASE i \in 1..Len(r)
  <2>1. \A j \in 1..i : (r \o Tail(s))[j] = r[j]
    BY <1>0, <1>1
  <2>2. OrderedAt(r, o, i)
    BY <1>1 DEF Ordered
  <2> QED BY <1>1, <2>1, <2>2 DEF OrderedAt
<1>2. CASE i \notin 1..Len(r)
  <2> DEFINE n == i - Len(r) + 1
  <2>1. n \in 1..Len(s) /\ n - 1 \in 1..Len(Tail(s)) /\ (r \o Tail(s))[i] = s[n]
    BY <1>0, <1>2
  <2>2. \A j \in 1..(n-1) :
          j = 1 \/ (j + Len(r) - 1 \in 1..(i-1) /\ (r \o Tail(s))[j + Len(r) - 1] = s[j])
    BY <1>0, <1>2
  <2>3. OrderedAt(s, o, n)
    BY <2>1 DEF Ordered
  <2>4. \E k \in 1..(i-1) : Ends((r \o Tail(s))[k])
    <3>1. PICK k \in 1..Len(r) : r[k] = RemoveMgmt
      OBVIOUS
    <3>2. k \in 1..(i-1) /\ (r \o Tail(s))[k] = r[k]
      BY <1>0, <1>2
    <3> QED BY <3>1, <3>2 DEF Ends
  <2>5. \A c \in Guests : ~Clears(s[1], c)
    BY DEF Clears, Step
  <2>6. ASSUME NEW c \in Guests, s[n] = RemoveMgmt, ~Gone(c)
        PROVE  \E j \in 1..(i-1) : Clears((r \o Tail(s))[j], c)
    <3>1. PICK j \in 1..(n-1) : Clears(s[j], c)
      BY <2>3, <2>6 DEF OrderedAt
    <3> QED BY <2>2, <2>5, <3>1
  <2> QED BY <2>1, <2>3, <2>4, <2>6 DEF OrderedAt
<1> QED BY <1>1, <1>2

\* Steps that nothing is asked of.
LEMMA OrderedFree ==
  ASSUME NEW s, NEW o,
         \A i \in 1..Len(s) : s[i].op \notin {"remove", "destroy", "probe", "fetchAlb", "fetchSe"}
  PROVE  Ordered(s, o)
BY DEF Ordered, OrderedAt, RemoveMgmt, Step

\* The steps after the probe clear the guests before they remove the management cluster.
LEMMA OnManagementOrdered ==
  ASSUME NEW o \in {"all", "mgmt"}
  PROVE  /\ Ordered(OnManagement(o), o)
         /\ \E k \in 1..Len(OnManagement(o)) : OnManagement(o)[k] = RemoveMgmt
<1>1. CASE o = "all"
  <2>1. OnManagement(o) = <<Step("remove", "shared"), Step("remove", "workload"), RemoveMgmt>>
    BY <1>1 DEF OnManagement, ForEach, RemoveMgmt
  <2> DEFINE s == <<Step("remove", "shared"), Step("remove", "workload"), RemoveMgmt>>
  <2>2. /\ Len(s) = 3 /\ s[1] = Step("remove", "shared")
        /\ s[2] = Step("remove", "workload") /\ s[3] = RemoveMgmt
    OBVIOUS
  <2> HIDE DEF s
  <2>3. \A i \in 1..3 : OrderedAt(s, o, i)
    BY <2>2 DEF OrderedAt, Step, RemoveMgmt, Clears, Guests
  <2> QED BY <2>1, <2>2, <2>3 DEF Ordered, s
<1>2. CASE o = "mgmt"
  <2>1. OnManagement(o) = <<Step("refuse", "workload"), Step("refuse", "shared"), RemoveMgmt>>
    BY <1>2 DEF OnManagement, RemoveMgmt
  <2> DEFINE s == <<Step("refuse", "workload"), Step("refuse", "shared"), RemoveMgmt>>
  <2>2. /\ Len(s) = 3 /\ s[1] = Step("refuse", "workload")
        /\ s[2] = Step("refuse", "shared") /\ s[3] = RemoveMgmt
    OBVIOUS
  <2> HIDE DEF s
  <2>3. \A i \in 1..3 : OrderedAt(s, o, i)
    BY <2>2 DEF OrderedAt, Step, RemoveMgmt, Clears, Guests
  <2> QED BY <2>1, <2>2, <2>3 DEF Ordered, s
<1> QED BY <1>1, <1>2

\* Steps for NSX-T objects remove no cluster and no VM.
LEMMA NsxOrdered ==
  ASSUME NEW o PROVE Ordered(ForEach("nsx", NsxOrder), o)
<1>1. NsxOrder \in Seq(NsxPieces)
  BY NsxOrderType
<1>2. \A i \in 1..Len(ForEach("nsx", NsxOrder)) : ForEach("nsx", NsxOrder)[i].op = "nsx"
  BY <1>1 DEF ForEach, Step
<1> QED BY <1>2, OrderedFree

\* The steps of every option are ordered.
LEMMA StepsOfOrdered ==
  ASSUME NEW o \in Options PROVE Ordered(StepsOf(o), o)
<1>1. CASE o = "all"
  <2> DEFINE s ==
        << Do("session"), Do("probe"), Do("contexts"), Step("unregister", "guests"),
           Step("unregister", "mgmt"), Do("uuid"), Do("fetchAlb"),
           Step("fetchSe", "all"), Do("destroy"), Do("pools"), Do("library"),
           Do("ova"), Do("folders"), Do("templates"), Do("config") >>
  <2>1. s \in Seq(Steps)
    BY DoType, StepTypes DEF Plain
  <2>2. Len(s) = 15 /\ s[2] = Do("probe")
    OBVIOUS
  <2>3. \A i \in 1..15 : s[i].op \in {"remove", "destroy", "probe"} => i = 2 \/ i = 9
    BY DEF Do, Step
  <2>4. s[9] = Do("destroy")
    OBVIOUS
  <2>5. StepsOf(o) = s \o ForEach("nsx", NsxOrder)
    BY <1>1 DEF StepsOf, AllSteps
  <2> HIDE DEF s
  <2>6. Ordered(s, o)
    BY <1>1, <2>2, <2>3, <2>4 DEF Ordered, OrderedAt, Ends, RemoveMgmt, Do, Step
  <2> QED BY <2>1, <2>5, <2>6, NsxType, NsxOrdered, OrderedConcat
<1>2. CASE o = "mgmt"
  <2> DEFINE s ==
        << Do("session"), Do("uuid"), Do("probe"), Do("contexts"),
           Step("unregister", "mgmt"), Step("fetchSe", "mgmt"), Do("destroy"),
           Do("pools"), Do("folders"), Do("ova"), Do("templates"), Do("config") >>
  <2>2. Len(s) = 12 /\ s[3] = Do("probe") /\ s[7] = Do("destroy")
    OBVIOUS
  <2>3. \A i \in 1..12 : s[i].op \in {"remove", "destroy", "probe"} => i = 3 \/ i = 7
    BY DEF Do, Step
  <2>5. StepsOf(o) = s
    BY <1>2 DEF StepsOf, MgmtSteps
  <2> HIDE DEF s
  <2>6. \A i \in 1..12 : OrderedAt(s, o, i)
    <3>1. 3 \in 1..(7-1) /\ Ends(s[3])
      BY <2>2 DEF Ends, Do, Step
    <3> QED BY <1>2, <2>2, <2>3, <3>1 DEF OrderedAt, RemoveMgmt, Do, Step
  <2> QED BY <2>2, <2>5, <2>6 DEF Ordered
<1>3. CASE o = "avi"
  <2> DEFINE s ==
        << Do("session"), Do("probe"), Do("fetchAlb"), Do("destroy"), Do("pools"),
           Do("folders"), Do("library"), Do("ova") >>
  <2>2. Len(s) = 8 /\ s[2] = Do("probe") /\ s[4] = Do("destroy")
    OBVIOUS
  <2>3. \A i \in 1..8 : s[i].op \in {"remove", "destroy", "probe"} => i = 2 \/ i = 4
    BY DEF Do, Step
  <2>5. StepsOf(o) = s
    BY <1>3 DEF StepsOf, AviSteps
  <2> HIDE DEF s
  <2> QED BY <1>3, <2>2, <2>3, <2>5 DEF Ordered, OrderedAt, Ends, RemoveMgmt, Do, Step
<1>4. CASE o = "shared"
  <2> DEFINE s == << Do("session"), Step("remove", "shared"), Step("unregister", "guests"),
                     Do("pools"), Do("folders") >>
  <2>2. Len(s) = 5 /\ \A i \in 1..5 : s[i] # RemoveMgmt /\ s[i].op \notin {"destroy", "probe"}
    BY DEF Do, Step, RemoveMgmt
  <2>5. StepsOf(o) = s
    BY <1>4 DEF StepsOf, GuestSteps
  <2> HIDE DEF s
  <2> QED BY <1>4, <2>2, <2>5 DEF Ordered, OrderedAt
<1>5. CASE o = "workload"
  <2> DEFINE r == << Do("session"), Step("remove", "workload"), Step("unregister", "guests"),
                     Do("pools"), Do("folders") >>
             q == <<Step("fetchSe", "workload"), Do("destroy")>>
  <2>1. r \in Seq(Steps) /\ q \in Seq(Steps)
    BY DoType, StepTypes DEF Plain, Clusters
  <2>2. /\ Len(r) = 5 /\ r[2] = Step("remove", "workload")
        /\ Len(q) = 2 /\ q[1] = Step("fetchSe", "workload") /\ q[2] = Do("destroy")
    OBVIOUS
  <2>3. \A i \in 1..5 :
          r[i] # RemoveMgmt /\ r[i].op \notin {"probe", "fetchAlb", "destroy", "fetchSe"}
    BY DEF Do, Step, RemoveMgmt
  <2>4. StepsOf(o) = r \o q
    BY <1>5 DEF StepsOf, GuestSteps
  <2> HIDE DEF r, q
  <2>5. /\ Len(r \o q) = 7
        /\ \A i \in 1..5 : (r \o q)[i] = r[i]
        /\ (r \o q)[6] = q[1] /\ (r \o q)[7] = q[2]
    <3>0. /\ Len(r \o q) = Len(r) + Len(q)
          /\ \A i \in 1..Len(r) : (r \o q)[i] = r[i]
          /\ \A i \in 1..Len(q) : (r \o q)[Len(r) + i] = q[i]
      BY <2>1, ConcatParts, Zenon
    <3>1. /\ Len(r \o q) = 5 + 2
          /\ \A i \in 1..5 : (r \o q)[i] = r[i]
          /\ \A i \in 1..2 : (r \o q)[5 + i] = q[i]
      BY <2>2, <3>0
    <3>2. (r \o q)[5 + 1] = q[1] /\ (r \o q)[5 + 2] = q[2]
      BY <3>1
    <3> QED BY <3>1, <3>2
  <2>6. \A i \in 1..5 : OrderedAt(r \o q, o, i)
    BY <1>5, <2>3, <2>5 DEF OrderedAt
  <2>7. OrderedAt(r \o q, o, 6)
    BY <1>5, <2>2, <2>5 DEF OrderedAt, Step, RemoveMgmt
  <2>8. OrderedAt(r \o q, o, 7)
    <3>1. (r \o q)[2] = Step("remove", "workload") /\ 2 \in 1..(7-1)
      BY <2>2, <2>5
    <3> QED BY <1>5, <2>2, <2>5, <3>1 DEF OrderedAt, Do, Step, RemoveMgmt
  <2> QED BY <2>4, <2>5, <2>6, <2>7, <2>8 DEF Ordered
<1>6. CASE o = "nsx"
  <2> DEFINE s == <<Do("session"), Do("fetchAlb"), Do("refuseAlb")>>
  <2>1. s \in Seq(Steps)
    BY DoType DEF Plain
  <2>2. Len(s) = 3 /\ \A i \in 1..3 : s[i] # RemoveMgmt /\ s[i].op \notin {"destroy", "probe"}
    BY DEF Do, Step, RemoveMgmt
  <2>5. StepsOf(o) = s \o ForEach("nsx", NsxOrder)
    BY <1>6 DEF StepsOf, NsxSteps
  <2> HIDE DEF s
  <2>6. Ordered(s, o)
    BY <1>6, <2>2 DEF Ordered, OrderedAt
  <2> QED BY <2>1, <2>5, <2>6, NsxType, NsxOrdered, OrderedConcat
<1> QED BY <1>1, <1>2, <1>3, <1>4, <1>5, <1>6 DEF Options

-----------------------------------------------------------------------------
(* What a step leaves alone.                                               *)

\* No cluster comes back.
GoneStays == \A c \in Clusters : Gone(c) => Gone(c)'

Unfailing == \A c \in Clusters : cluster[c] # "failed"

RequestsKept(t) ==
  \A u \in Threads \ {t} : todo'[u] = todo[u] /\ ask'[u] = ask[u] /\ found'[u] = found[u]

\* A request that is given ordered steps has them; what was gone stays gone.
LEMMA OrderedNow ==
  ASSUME NEW t, NEW s, NEW o, Ordered(s, o), GoneStays, todo'[t] = s, ask'[t].option = o
  PROVE  OrderedTodo(t)'
<1>1. \A c \in Guests \cup {"mgmt", "workload"} : Gone(c) => Gone(c)'
  BY DEF GoneStays, Guests, Clusters
<1>2. \A i \in 1..Len(s) : OrderedAt(s, o, i)'
  BY <1>1 DEF Ordered, OrderedAt
<1> QED BY <1>2 DEF OrderedTodo, Ordered, OrderedAt

\* The invariant after a step of one request, by what it does to that request and to the
\* world.
LEMMA OrderFrame ==
  ASSUME TypeInv, OrderInv, NEW t \in Threads, GoneStays, RequestsKept(t),
         OrderedTodo(t)', FoundOwn(t)', MgmtLast', AlbServes', Unfailing'
  PROVE  OrderInv'
<1>1. ASSUME NEW u \in Threads \ {t} PROVE OrderedTodo(u)'
  <2>1. Ordered(todo[u], ask[u].option) /\ todo'[u] = todo[u]
        /\ ask'[u].option = ask[u].option
    BY DEF OrderInv, OrderedTodo, RequestsKept
  <2> QED BY <2>1, OrderedNow
<1>2. ASSUME NEW u \in Threads \ {t} PROVE FoundOwn(u)'
  BY DEF OrderInv, FoundOwn, RequestsKept
<1> QED BY <1>1, <1>2 DEF OrderInv, Unfailing

\* While no cluster goes what holds of the clusters stays.
LEMMA ClustersKept ==
  ASSUME OrderInv, UNCHANGED cluster
  PROVE  GoneStays /\ MgmtLast' /\ Unfailing' /\ (UNCHANGED estate => AlbServes')
BY DEF OrderInv, GoneStays, Gone, MgmtLast, Unfailing, AlbServes

-----------------------------------------------------------------------------
(* How a request goes on.                                                  *)

\* A request goes on with other steps.
LEMMA ProceedOrder ==
  ASSUME TypeInv, OrderInv, NEW t \in Threads, GoneStays,
         NEW s, Ordered(s, ask[t].option), Proceed(t, s), UNCHANGED found
  PROVE  RequestsKept(t) /\ OrderedTodo(t)' /\ FoundOwn(t)'
<1>1. todo' = [todo EXCEPT ![t] = s] /\ ask' = ask
  BY DEF Proceed, request
<1>2. RequestsKept(t)
  BY <1>1 DEF RequestsKept, TypeInv, TypeOK
<1>3. OrderedTodo(t)'
  BY <1>1, OrderedNow DEF TypeInv, TypeOK
<1>4. FoundOwn(t)'
  BY <1>1 DEF OrderInv, FoundOwn
<1> QED BY <1>2, <1>3, <1>4

\* Past its settled step the rest of a request is ordered.
LEMMA TailOrdered ==
  ASSUME TypeInv, OrderInv, NEW t \in Threads, todo[t] # <<>>, Settled(Head(todo[t]))
  PROVE  Ordered(Tail(todo[t]), ask[t].option)
<1>1. todo[t] \in Seq(Steps) /\ Ordered(todo[t], ask[t].option)
  BY DEF TypeInv, TypeOK, OrderInv, OrderedTodo
<1> QED BY <1>1, OrderedTail

\* A request goes on past a settled step.
LEMMA AdvanceOrder ==
  ASSUME TypeInv, OrderInv, NEW t \in Threads, GoneStays, todo[t] # <<>>,
         Settled(Head(todo[t])), Advance(t)
  PROVE  /\ OrderedTodo(t)' /\ ask' = ask
         /\ \A u \in Threads \ {t} : todo'[u] = todo[u]
         /\ UNCHANGED found => RequestsKept(t) /\ FoundOwn(t)'
<1>1. todo' = [todo EXCEPT ![t] = Tail(todo[t])] /\ ask' = ask
  BY DEF Advance, Proceed, request
<1>2. OrderedTodo(t)'
  BY <1>1, TailOrdered, OrderedNow DEF TypeInv, TypeOK
<1>3. UNCHANGED found => RequestsKept(t) /\ FoundOwn(t)'
  BY <1>1 DEF RequestsKept, OrderInv, FoundOwn, TypeInv, TypeOK
<1> QED BY <1>1, <1>2, <1>3 DEF TypeInv, TypeOK

\* An answered request has no steps left.
LEMMA AnswerOrder ==
  ASSUME TypeInv, OrderInv, NEW t \in Threads, GoneStays, NEW code, Answer(t, code)
  PROVE  RequestsKept(t) /\ OrderedTodo(t)' /\ FoundOwn(t)'
<1>1. /\ todo' = [todo EXCEPT ![t] = <<>>] /\ found' = [found EXCEPT ![t] = <<>>]
      /\ ask' = ask
  BY DEF Answer
<1>2. RequestsKept(t)
  BY <1>1 DEF RequestsKept, TypeInv, TypeOK
<1>3. todo'[t] = <<>> /\ found'[t] = <<>>
  BY <1>1 DEF TypeInv, TypeOK
<1> QED BY <1>2, <1>3 DEF OrderedTodo, Ordered, FoundOwn

\* A request that stays where it is.
LEMMA StayOrder ==
  ASSUME TypeInv, OrderInv, NEW t \in Threads, GoneStays, UNCHANGED <<todo, found, request>>
  PROVE  RequestsKept(t) /\ OrderedTodo(t)' /\ FoundOwn(t)'
<1>1. RequestsKept(t) /\ FoundOwn(t)'
  BY DEF RequestsKept, FoundOwn, OrderInv, request
<1>2. OrderedTodo(t)'
  BY OrderedNow DEF OrderInv, OrderedTodo, request
<1> QED BY <1>1, <1>2

\* A request goes on past a cluster that is gone.
LEMMA RemovedOrder ==
  ASSUME TypeInv, OrderInv, NEW t \in Threads, GoneStays, todo[t] # <<>>,
         Settled(Head(todo[t])), Removed(t)
  PROVE  RequestsKept(t) /\ OrderedTodo(t)' /\ FoundOwn(t)'
<1> DEFINE r == IF ask[t].option = Arg(t) THEN <<Do("contexts")>> ELSE <<>>
<1>1. r \in Seq(Steps)
  BY DoType DEF Plain
<1>2. Ordered(r, ask[t].option)
  BY OrderedFree DEF Do, Step
<1>3. Ordered(r \o Tail(todo[t]), ask[t].option)
  BY <1>1, <1>2, HeadTail, TailOrdered, OrderedConcat
<1> QED BY <1>3, ProceedOrder DEF Removed, Collected

\* Every step but a probe and those on clusters.
LEMMA CalmSettled ==
  ASSUME NEW x, x.op \notin {"remove", "refuse", "probe"} PROVE Settled(x)
BY DEF Settled, Clears, Ends, RemoveMgmt, Step

\* A guest cluster that its removal or its refusal has seen gone.
LEMMA GuestSettled ==
  ASSUME NEW x \in Steps, x.op \in {"remove", "refuse"}, x.arg \in Guests, Gone(x.arg)
  PROVE  Settled(x)
BY DEF Settled, Clears, Ends, RemoveMgmt, Step, Guests

\* Once the management cluster is gone the steps that end it are settled.
LEMMA MgmtSettled ==
  ASSUME Gone("mgmt"), NEW x \in Steps, x.op = "probe" \/ x = RemoveMgmt
  PROVE  Settled(x)
BY DEF Settled, Clears, Guests, RemoveMgmt, Step

\* A guest cluster that cannot be seen is gone.
LEMMA UnseenGone ==
  ASSUME TypeInv, OrderInv, NEW c \in Guests, ~Exists(c) \/ ~Alive(c) PROVE Gone(c)
BY DEF TypeInv, TypeOK, OrderInv, MgmtLast, Exists, Alive, CanList, Gone, Guests, Clusters

-----------------------------------------------------------------------------
(* Steps.                                                                  *)

\* At first there are no requests.
LEMMA InitOrder == Init => OrderInv
<1> SUFFICES ASSUME Init PROVE OrderInv
  OBVIOUS
<1>1. MgmtLast
  BY DEF Init, MgmtLast, Clusters, Guests
<1>2. AlbServes
  BY DEF Init, AlbServes, Estate, Vms
<1>3. \A c \in Clusters : cluster[c] # "failed"
  BY DEF Init
<1>4. \A t \in Threads : OrderedTodo(t) /\ FoundOwn(t)
  <2> SUFFICES ASSUME NEW t \in Threads PROVE OrderedTodo(t) /\ FoundOwn(t)
    OBVIOUS
  <2>1. todo[t] = <<>> /\ found[t] = <<>>
    BY DEF Init
  <2> QED BY <2>1 DEF OrderedTodo, Ordered, FoundOwn
<1> QED BY <1>1, <1>2, <1>3, <1>4 DEF OrderInv

\* A request begins with the ordered steps of its option.
LEMMA BeginOrder ==
  ASSUME TypeInv, OrderInv, NEW t \in Threads, Begin(t), found[t] = <<>>
  PROVE  OrderInv'
<1>1. PICK a \in Asks : /\ ask' = [ask EXCEPT ![t] = a]
                        /\ todo' = [todo EXCEPT ![t] = StepsOf(a.option)]
  BY DEF Begin
<1>2. Ordered(StepsOf(a.option), a.option)
  BY SetupAssumption, StepsOfOrdered DEF Ask
<1>3. GoneStays /\ MgmtLast' /\ AlbServes' /\ Unfailing'
  BY ClustersKept DEF Begin
<1>4. RequestsKept(t) /\ todo'[t] = StepsOf(a.option) /\ ask'[t].option = a.option
  BY <1>1 DEF RequestsKept, Begin, TypeInv, TypeOK
<1>5. OrderedTodo(t)'
  BY <1>2, <1>3, <1>4, OrderedNow
<1>6. FoundOwn(t)'
  BY DEF Begin, FoundOwn
<1> QED BY <1>3, <1>4, <1>5, <1>6, OrderFrame

\* Checks, tidying up and answers leave the clusters alone and touch no VM
\* but the template of the engines.
LEMMA CalmOrder ==
  ASSUME TypeInv, OrderInv, NEW t \in Threads,
         Session(t) \/ RefuseAlb(t) \/ Finish(t) \/ Tidies(t)
  PROVE  OrderInv'
<1>1. UNCHANGED cluster
  BY TidiesShape DEF Session, RefuseAlb, Finish
<1>2. AlbServes'
  <2>1. CASE Session(t) \/ RefuseAlb(t) \/ Finish(t)
    BY <2>1, ClustersKept DEF Session, RefuseAlb, Finish
  <2>2. CASE Tidies(t)
    <3>1. \/ estate' = estate
          \/ \E gone : estate' = estate \ gone /\
               (gone \subseteq {Vm("seTemplate")} \/ \E p : gone = {Nsx(p)})
      BY <2>2 DEF Tidies, Contexts, Unregister, Pools, Folders, Library, Ova,
                  Templates, Config, NsxPiece, Tidy
    <3>2. \A v \in {"controller1", "controller2", "seMgmt", "seWork"} :
            Vm(v) # Vm("seTemplate") /\ \A p : Vm(v) # Nsx(p)
      BY DEF Vm, Nsx
    <3>3. \A v \in {"controller1", "controller2", "seMgmt", "seWork"} :
            Vm(v) \in estate => Vm(v) \in estate'
      BY <3>1, <3>2
    <3> QED BY <1>1, <3>3 DEF AlbServes, OrderInv
  <2> QED BY <2>1, <2>2
<1>3. GoneStays /\ MgmtLast' /\ Unfailing'
  BY <1>1, ClustersKept
<1>4. \/ \E code : Answer(t, code)
      \/ todo[t] # <<>> /\ Settled(Head(todo[t])) /\ Advance(t) /\ UNCHANGED found
  <2>1. CASE Tidies(t)
    <3>1. todo[t] # <<>> /\ Head(todo[t]).op \notin {"remove", "refuse", "probe"}
      BY <2>1 DEF Tidies, Contexts, Unregister, Pools, Folders, Library, Ova,
                  Templates, Config, NsxPiece, Tidy, At
    <3>2. Settled(Head(todo[t]))
      BY <3>1, CalmSettled
    <3> QED BY <2>1, <3>1, <3>2, TidiesShape DEF Collected
  <2>2. CASE Session(t) \/ RefuseAlb(t) \/ Finish(t)
    <3>1. CASE Session(t)
      BY <3>1, CalmSettled DEF Session, At, Collected
    <3>2. CASE RefuseAlb(t)
      BY <3>2, CalmSettled DEF RefuseAlb, At, Collected
    <3>3. CASE Finish(t)
      BY <3>3 DEF Finish
    <3> QED BY <2>2, <3>1, <3>2, <3>3
  <2> QED BY <2>1, <2>2
<1>5. RequestsKept(t) /\ OrderedTodo(t)' /\ FoundOwn(t)'
  <2>1. CASE \E code : Answer(t, code)
    BY <1>3, <2>1, AnswerOrder
  <2>2. CASE todo[t] # <<>> /\ Settled(Head(todo[t])) /\ Advance(t) /\ UNCHANGED found
    <3>1. OrderedTodo(t)' /\ (UNCHANGED found => RequestsKept(t) /\ FoundOwn(t)')
      BY <1>3, <2>2, AdvanceOrder
    <3> QED BY <2>2, <3>1
  <2> QED BY <1>4, <2>1, <2>2
<1> QED BY <1>2, <1>3, <1>5, OrderFrame

\* VMs are collected.
LEMMA CollectOrder ==
  ASSUME TypeInv, OrderInv, NEW t \in Threads,
         Uuid(t) \/ FetchAlb(t) \/ FetchSe(t) \/ VmsDestroyed(t)
  PROVE  OrderInv'
<1>1. GoneStays /\ MgmtLast' /\ Unfailing' /\ AlbServes'
  BY ClustersKept DEF Uuid, FetchAlb, FetchSe, VmsDestroyed
<1>2. todo[t] # <<>> /\ Settled(Head(todo[t]))
  BY CalmSettled DEF Uuid, FetchAlb, FetchSe, VmsDestroyed, At
<1>3. CASE Answer(t, "500")
  BY <1>1, <1>3, AnswerOrder, OrderFrame
<1>4. CASE Advance(t)
  <2>1. /\ OrderedTodo(t)' /\ ask' = ask
        /\ \A u \in Threads \ {t} : todo'[u] = todo[u]
        /\ UNCHANGED found => RequestsKept(t) /\ FoundOwn(t)'
    BY <1>1, <1>2, <1>4, AdvanceOrder
  <2>2. CASE UNCHANGED found
    BY <1>1, <2>1, <2>2, OrderFrame
  <2>3. CASE FetchAlb(t) \/ FetchSe(t)
    <3>1. \A u \in Threads \ {t} : found'[u] = found[u]
      BY <2>3 DEF FetchAlb, FetchSe, Answer, TypeInv, TypeOK
    <3>2. OrderedAt(todo[t], ask[t].option, 1) /\ Head(todo[t]) = todo[t][1]
      <4>1. 1 \in 1..Len(todo[t]) /\ Head(todo[t]) = todo[t][1]
        BY <1>2 DEF TypeInv, TypeOK
      <4> QED BY <4>1 DEF OrderInv, OrderedTodo, Ordered
    <3>3. FoundOwn(t)'
      <4> SUFFICES ASSUME ask[t].option = "workload", ~Answer(t, "500")
                   PROVE  \A i \in 1..Len(found'[t]) : found'[t][i] = "seWork"
        BY <1>1, <2>1, AnswerOrder DEF FoundOwn
      <4>1. FetchSe(t) /\ Arg(t) = "workload"
        BY <2>3, <3>2 DEF OrderedAt, FetchAlb, FetchSe, At, Arg
      <4>2. PICK ses \in SesSeen("workload") : found' = [found EXCEPT ![t] = @ \o ses]
        BY <4>1 DEF FetchSe
      <4>3. ses = <<>> \/ ses = <<"seWork">>
        BY <4>2 DEF SesSeen, Engines, Found
      <4>4. found[t] \in Seq(Vms) /\ \A i \in 1..Len(found[t]) : found[t][i] = "seWork"
        BY DEF TypeInv, TypeOK, OrderInv, FoundOwn
      <4>5. found'[t] = found[t] \o ses
        BY <4>2 DEF TypeInv, TypeOK
      <4> QED BY <4>3, <4>4, <4>5
    <3>4. RequestsKept(t)
      BY <2>1, <3>1 DEF RequestsKept
    <3> QED BY <1>1, <2>1, <3>3, <3>4, OrderFrame
  <2>4. CASE Uuid(t) \/ VmsDestroyed(t)
    BY <1>3, <2>2, <2>4 DEF Uuid, VmsDestroyed, Collected
  <2> QED BY <2>3, <2>4
<1> QED BY <1>3, <1>4 DEF Uuid, FetchAlb, FetchSe, VmsDestroyed

\* A VM goes when the clusters it serves are gone.
LEMMA DestroyOrder ==
  ASSUME TypeInv, OrderInv, NEW t \in Threads, DestroyVm(t) PROVE OrderInv'
<1>1. GoneStays /\ MgmtLast' /\ Unfailing'
  BY ClustersKept DEF DestroyVm
<1>2. CASE Answer(t, "500") /\ UNCHANGED estate
  <2>1. AlbServes'
    BY <1>2, ClustersKept DEF DestroyVm
  <2> QED BY <1>1, <1>2, <2>1, AnswerOrder, OrderFrame
<1>3. CASE /\ estate' = estate \ {Vm(Head(found[t]))}
           /\ found' = [found EXCEPT ![t] = Tail(@)]
           /\ UNCHANGED <<request, todo, stage, polls, uuid>>
  <2>1. /\ todo[t] # <<>> /\ Head(todo[t]).op = "destroy"
        /\ found[t] # <<>> /\ found[t] \in Seq(Vms)
    BY DEF DestroyVm, At, TypeInv, TypeOK
  <2>2. OrderedAt(todo[t], ask[t].option, 1) /\ Head(todo[t]) = todo[t][1]
    <3>1. 1 \in 1..Len(todo[t]) /\ Head(todo[t]) = todo[t][1]
      BY <2>1 DEF TypeInv, TypeOK
    <3> QED BY <3>1 DEF OrderInv, OrderedTodo, Ordered
  <2>3. \A j : j \notin 1..(1-1)
    OBVIOUS
  <2>4. AlbServes'
    <3>1. CASE ask[t].option # "workload"
      <4>1. Gone("mgmt")
        BY <2>1, <2>2, <2>3, <3>1 DEF OrderedAt
      <4>2. Gone("workload")
        BY <4>1 DEF OrderInv, MgmtLast, Gone, Guests
      <4> QED BY <4>1, <4>2 DEF AlbServes, Gone, DestroyVm
    <3>2. CASE ask[t].option = "workload"
      <4>1. Gone("workload")
        BY <2>1, <2>2, <2>3, <3>2 DEF OrderedAt
      <4>2. Head(found[t]) = "seWork"
        <5>1. 1 \in 1..Len(found[t]) /\ Head(found[t]) = found[t][1]
          BY <2>1
        <5> QED BY <3>2, <5>1 DEF OrderInv, FoundOwn
      <4>3. \A v \in {"controller1", "controller2", "seMgmt"} : Vm(v) # Vm("seWork")
        BY DEF Vm
      <4> QED BY <1>3, <4>1, <4>2, <4>3 DEF AlbServes, OrderInv, Gone, DestroyVm
    <3> QED BY <3>1, <3>2
  <2>5. RequestsKept(t) /\ FoundOwn(t)'
    <3>1. \A i \in 1..Len(Tail(found[t])) :
            i + 1 \in 1..Len(found[t]) /\ Tail(found[t])[i] = found[t][i + 1]
      BY <2>1
    <3> QED BY <1>3, <3>1 DEF RequestsKept, FoundOwn, OrderInv, request, TypeInv, TypeOK
  <2>6. OrderedTodo(t)'
    BY <1>1, <1>3, OrderedNow DEF OrderInv, OrderedTodo, request
  <2> QED BY <1>1, <2>4, <2>5, <2>6, OrderFrame
<1> QED BY <1>2, <1>3 DEF DestroyVm

\* A probe that sees no management cluster, or has it removed, or refuses.
LEMMA ProbeOrder ==
  ASSUME TypeInv, OrderInv, Reliable, NEW t \in Threads, Probe(t) PROVE OrderInv'
<1>1. GoneStays /\ MgmtLast' /\ Unfailing' /\ AlbServes'
  BY ClustersKept DEF Probe
<1>2. todo[t] # <<>> /\ Head(todo[t]).op = "probe" /\ todo[t] \in Seq(Steps)
  BY DEF Probe, At, TypeInv, TypeOK
<1>3. PICK seen \in Management :
       IF seen /\ ask[t].option = "avi" THEN Answer(t, "500")
       ELSE /\ Proceed(t, (IF seen THEN OnManagement(ask[t].option) ELSE <<>>)
                            \o Tail(todo[t]))
            /\ Collected
  BY DEF Probe
<1>4. seen <=> ~Gone("mgmt")
  BY DEF Management, OrMissed, Fails, Reliable, ClusterCommands, Gone
<1>5. CASE Answer(t, "500")
  BY <1>1, <1>5, AnswerOrder, OrderFrame
<1>6. CASE ~seen
  <2>1. Ordered(Tail(todo[t]), ask[t].option)
    BY <1>2, <1>4, <1>6, HeadTail, MgmtSettled, TailOrdered
  <2>2. <<>> \o Tail(todo[t]) = Tail(todo[t])
    BY <1>2
  <2> QED BY <1>1, <1>3, <1>6, <2>1, <2>2, ProceedOrder, OrderFrame DEF Collected
<1>7. CASE seen /\ ask[t].option # "avi"
  <2>1. Ordered(todo[t], ask[t].option) /\ 1 \in 1..Len(todo[t]) /\ Head(todo[t]) = todo[t][1]
    BY <1>2 DEF OrderInv, OrderedTodo
  <2>2. ask[t].option \in {"all", "mgmt"}
    BY <1>2, <1>7, <2>1 DEF Ordered, OrderedAt
  <2>3. Ordered(OnManagement(ask[t].option) \o Tail(todo[t]), ask[t].option)
    BY <1>2, <2>1, <2>2, OnManagementOrdered, OnManagementType, OrderedProbe
  <2> QED BY <1>1, <1>3, <1>7, <2>3, ProceedOrder, OrderFrame DEF Collected
<1> QED BY <1>3, <1>5, <1>6, <1>7

\* A step for a guest cluster that is gone is settled.
LEMMA GuestStep ==
  ASSUME TypeInv, NEW t \in Threads, NEW c \in Guests,
         At(t, "remove") \/ At(t, "refuse"), Arg(t) = c, Gone(c)
  PROVE  todo[t] # <<>> /\ Settled(Head(todo[t]))
BY HeadTail, GuestSettled DEF At, Arg

\* A request for a management cluster is refused while a guest is listed.
LEMMA RefuseOrder ==
  ASSUME TypeInv, OrderInv, Reliable, NEW t \in Threads, Refuse(t) PROVE OrderInv'
<1>1. GoneStays /\ MgmtLast' /\ Unfailing' /\ AlbServes'
  BY ClustersKept DEF Refuse
<1>2. CASE Answer(t, "500")
  BY <1>1, <1>2, AnswerOrder, OrderFrame
<1>3. CASE ~Exists(Arg(t)) /\ Advance(t) /\ Collected
  <2>1. Settled(Head(todo[t])) /\ todo[t] # <<>>
    <3>1. CASE Arg(t) \in Guests
      BY <1>3, <3>1, UnseenGone, GuestStep DEF Refuse
    <3>2. CASE Arg(t) \notin Guests
      BY <3>2 DEF Refuse, At, Arg, Settled, Clears, Ends, RemoveMgmt, Step
    <3> QED BY <3>1, <3>2
  <2> QED BY <1>1, <1>3, <2>1, AdvanceOrder, OrderFrame DEF Collected
<1> QED BY <1>2, <1>3 DEF Refuse, Listed, OrMissed, Fails, Reliable, ClusterCommands

\* With a reliable listing a cluster that is not found is gone.
LEMMA FindClusterOrder ==
  ASSUME TypeInv, OrderInv, Reliable, NEW t \in Threads, FindCluster(t) PROVE OrderInv'
<1>1. GoneStays /\ MgmtLast' /\ Unfailing' /\ AlbServes'
  BY ClustersKept DEF FindCluster
<1>2. CASE Within(t, "listed")
  BY <1>1, <1>2, StayOrder, OrderFrame DEF Within
<1>3. CASE \E c \in Guests :
             At(t, "remove") /\ Arg(t) = c /\ ~Exists(c) /\ Advance(t) /\ Collected
  <2>1. Settled(Head(todo[t])) /\ todo[t] # <<>>
    BY <1>3, UnseenGone, GuestStep
  <2> QED BY <1>1, <1>3, <2>1, AdvanceOrder, OrderFrame DEF Collected
<1> QED BY <1>2, <1>3
        DEF FindCluster, Removing, Listed, OrMissed, Fails, Reliable, ClusterCommands

\* A cluster is deleted, its guests before it.
LEMMA DeleteClusterOrder ==
  ASSUME TypeInv, OrderInv, Reliable, NEW t \in Threads, DeleteCluster(t)
  PROVE  OrderInv'
<1>1. PICK c \in Guests :
       /\ Removing(t, c, "listed")
       /\ \/ /\ Exists(c)
             /\ cluster' = [cluster EXCEPT ![c] = "deleting"]
             /\ Within(t, "issued")
          \/ /\ ~Exists(c)
             /\ Removed(t)
             /\ UNCHANGED cluster
  BY DEF DeleteCluster, Fails, Reliable, ClusterCommands
<1>2. CASE Exists(c) /\ cluster' = [cluster EXCEPT ![c] = "deleting"] /\ Within(t, "issued")
  <2>1. c # "mgmt" /\ cluster[c] # "absent" /\ cluster["mgmt"] # "absent" /\ c \in Clusters
    BY <1>2 DEF Exists, CanList, Guests, Clusters
  <2>2. /\ \A d \in Clusters \ {c} : cluster'[d] = cluster[d]
        /\ cluster'[c] = "deleting"
    BY <1>2, <2>1 DEF TypeInv, TypeOK
  <2>3. GoneStays /\ Unfailing'
    BY <2>1, <2>2 DEF GoneStays, Gone, Unfailing, OrderInv
  <2>4. MgmtLast'
    BY <2>1, <2>2 DEF MgmtLast, OrderInv, Guests, Clusters
  <2>5. AlbServes'
    BY <2>1, <2>2 DEF AlbServes, OrderInv, DeleteCluster, Clusters
  <2> QED BY <1>2, <2>3, <2>4, <2>5, StayOrder, OrderFrame DEF Within
<1>3. CASE ~Exists(c) /\ Removed(t) /\ UNCHANGED cluster
  <2>1. Settled(Head(todo[t])) /\ todo[t] # <<>>
    BY <1>1, <1>3, UnseenGone, GuestStep DEF Removing
  <2>2. GoneStays /\ MgmtLast' /\ Unfailing' /\ AlbServes'
    BY <1>3, ClustersKept DEF DeleteCluster
  <2> QED BY <1>3, <2>1, <2>2, RemovedOrder, OrderFrame
<1> QED BY <1>1, <1>2, <1>3

\* With a reliable listing a wait ends when the cluster is gone.
LEMMA PollOrder ==
  ASSUME TypeInv, OrderInv, Reliable, NEW t \in Threads, FirstPoll(t) \/ Poll(t)
  PROVE  OrderInv'
<1>1. GoneStays /\ MgmtLast' /\ Unfailing' /\ AlbServes'
  BY ClustersKept DEF FirstPoll, Poll
<1>2. CASE Answer(t, "500")
  BY <1>1, <1>2, AnswerOrder, OrderFrame
<1>3. CASE Again(t)
  BY <1>1, <1>3, StayOrder, OrderFrame DEF Again
<1>4. CASE \E c \in Guests : At(t, "remove") /\ Arg(t) = c /\ ~Alive(c) /\ Removed(t)
  <2>1. Settled(Head(todo[t])) /\ todo[t] # <<>>
    BY <1>4, UnseenGone, GuestStep
  <2> QED BY <1>1, <1>4, <2>1, RemovedOrder, OrderFrame
<1> QED BY <1>2, <1>3, <1>4
        DEF FirstPoll, Poll, Removing, OrMissed, Fails, Reliable, ClusterCommands

\* The management cluster goes behind the steps that clear the guests.
LEMMA MgmtDeleteOrder ==
  ASSUME TypeInv, OrderInv, Reliable, NEW t \in Threads,
         StartMgmtDelete(t) \/ EndMgmtDelete(t) \/ PollMgmt(t)
  PROVE  OrderInv'
<1>1. /\ todo[t] # <<>> /\ Head(todo[t]) \in Steps
      /\ Head(todo[t]).op = "remove" /\ Head(todo[t]).arg = "mgmt"
  BY HeadTail DEF StartMgmtDelete, EndMgmtDelete, PollMgmt, Removing, At, Arg
<1>2. Head(todo[t]) = RemoveMgmt
  BY <1>1 DEF Steps, RemoveMgmt, Step
<1>3. \A c \in Guests : Gone(c)
  <2>1. 1 \in 1..Len(todo[t]) /\ Head(todo[t]) = todo[t][1]
    BY <1>1 DEF TypeInv, TypeOK
  <2>2. OrderedAt(todo[t], ask[t].option, 1)
    BY <2>1 DEF OrderInv, OrderedTodo, Ordered
  <2>3. \A j : j \notin 1..(1-1)
    OBVIOUS
  <2> QED BY <1>2, <2>1, <2>2, <2>3 DEF OrderedAt
<1>4. /\ \A d \in Guests : cluster'[d] = cluster[d]
      /\ cluster'["mgmt"] # "failed" /\ (Gone("mgmt") => Gone("mgmt")')
      /\ cluster'["mgmt"] # "absent" => cluster["mgmt"] # "absent"
  BY DEF StartMgmtDelete, EndMgmtDelete, PollMgmt, Gone, Guests, Clusters,
         TypeInv, TypeOK, OrderInv
<1>5. Clusters = Guests \cup {"mgmt"}
  BY DEF Clusters, Guests
<1>6. GoneStays /\ Unfailing'
  BY <1>4, <1>5 DEF GoneStays, Gone, Unfailing, OrderInv
<1>7. MgmtLast'
  BY <1>3, <1>4 DEF MgmtLast, Gone
<1>8. AlbServes'
  BY <1>4 DEF AlbServes, OrderInv, Guests, StartMgmtDelete, EndMgmtDelete, PollMgmt
<1>9. CASE \E code : Answer(t, code)
  BY <1>6, <1>7, <1>8, <1>9, AnswerOrder, OrderFrame
<1>10. CASE (\E p : Within(t, p)) \/ Again(t)
  BY <1>6, <1>7, <1>8, <1>10, StayOrder, OrderFrame DEF Within, Again
<1>11. CASE PollMgmt(t) /\ FALSE \in Management /\ Advance(t) /\ Collected
  <2>1. Gone("mgmt")
    BY <1>11 DEF Management, OrMissed, Fails, Reliable, ClusterCommands, Gone
  <2>2. Settled(Head(todo[t]))
    BY <1>1, <1>2, <2>1, MgmtSettled
  <2> QED BY <1>1, <1>6, <1>7, <1>8, <1>11, <2>2, AdvanceOrder, OrderFrame DEF Collected
<1>12. CASE StartMgmtDelete(t) \/ EndMgmtDelete(t)
  BY <1>9, <1>10, <1>12 DEF StartMgmtDelete, EndMgmtDelete
<1>13. CASE PollMgmt(t)
  BY <1>9, <1>10, <1>11, <1>13 DEF PollMgmt, Management, OrMissed
<1> QED BY <1>12, <1>13

\* A deletion comes to its end outside, or the server ends.
LEMMA WorldOrder ==
  ASSUME TypeInv, OrderInv, Reliable,
         (\E c \in Guests : ClusterGone(c) \/ ClusterStalls(c)) \/ Crash
  PROVE  OrderInv'
<1>1. CASE \E c \in Guests : ClusterGone(c)
  <2>1. PICK c \in Guests : ClusterGone(c)
    BY <1>1
  <2>2. /\ \A d \in Clusters \ {c} : cluster'[d] = cluster[d]
        /\ cluster'[c] = "absent" /\ c # "mgmt"
    BY <2>1 DEF ClusterGone, TypeInv, TypeOK, Guests, Clusters
  <2>3. GoneStays /\ Unfailing'
    BY <2>2 DEF GoneStays, Gone, Unfailing, OrderInv
  <2>4. MgmtLast' /\ AlbServes'
    BY <2>1, <2>2 DEF MgmtLast, AlbServes, OrderInv, Guests, Clusters, ClusterGone
  <2>5. ASSUME NEW t \in Threads PROVE OrderedTodo(t)' /\ FoundOwn(t)'
    <3>1. todo' = todo /\ ask' = ask /\ found' = found /\ request' = request
      BY <2>1 DEF ClusterGone, work, request
    <3> QED BY <2>3, <3>1, StayOrder
  <2> QED BY <2>3, <2>4, <2>5 DEF OrderInv, Unfailing
<1>2. CASE Crash
  <2>1. MgmtLast' /\ AlbServes' /\ Unfailing'
    BY <1>2, ClustersKept DEF Crash
  <2>2. ASSUME NEW t \in Threads PROVE OrderedTodo(t)' /\ FoundOwn(t)'
    <3>1. todo'[t] = <<>> /\ found'[t] = <<>>
      BY <1>2 DEF Crash
    <3> QED BY <3>1 DEF OrderedTodo, Ordered, FoundOwn
  <2> QED BY <2>1, <2>2 DEF OrderInv, Unfailing
<1> QED BY <1>1, <1>2 DEF ClusterStalls, Fails, Reliable, ClusterCommands

-----------------------------------------------------------------------------
(* A request that is over holds nothing.                                   *)

HoldsNothing == \A t \in Threads : ~Busy(t) => found[t] = <<>>

\* What a step of a request does to its reply and to what others have found.
LEMMA ServeShape ==
  ASSUME TypeInv, NEW t \in Threads, Serve(t)
  PROVE  /\ Busy(t)
         /\ \/ UNCHANGED reply /\ \A u \in Threads \ {t} : found'[u] = found[u]
            \/ \E code \in {"200", "500"} : Answer(t, code)
<1>1. Busy(t)
  BY DEF Serve, Session, Probe, Refuse, FindCluster, DeleteCluster, FirstPoll, Poll,
         StartMgmtDelete, EndMgmtDelete, PollMgmt, Uuid, FetchAlb, RefuseAlb, FetchSe,
         DestroyVm, VmsDestroyed, Contexts, Unregister, Pools, Folders, Library, Ova,
         Templates, Config, NsxPiece, Finish, Tidy, Removing, At
<1> DEFINE Keeps == UNCHANGED reply /\ \A u \in Threads \ {t} : found'[u] = found[u]
           Replies == \E code \in {"200", "500"} : Answer(t, code)
<1>2. /\ \A s : Proceed(t, s) => UNCHANGED reply
      /\ \A p : Within(t, p) => Keeps
      /\ Again(t) => Keeps
      /\ Removed(t) => Keeps
      /\ Advance(t) => UNCHANGED reply
      /\ Advance(t) /\ Collected => Keeps
  BY DEF Proceed, Within, Again, Removed, Advance, Collected, request
<1>3. Answer(t, "200") \/ Answer(t, "500") => Replies
  OBVIOUS
<1>4. CASE Session(t) \/ Refuse(t) \/ RefuseAlb(t) \/ Finish(t)
  <2>1. (Advance(t) /\ Collected) \/ Answer(t, "200") \/ Answer(t, "500")
    BY <1>4 DEF Session, Refuse, RefuseAlb, Finish
  <2> QED BY <1>1, <1>2, <1>3, <2>1
<1>5. CASE Probe(t)
  <2>1. ((\E s : Proceed(t, s)) /\ UNCHANGED found) \/ Answer(t, "500")
    BY <1>5 DEF Probe, Collected
  <2> QED BY <1>1, <1>2, <1>3, <2>1
<1>6. CASE FindCluster(t) \/ DeleteCluster(t) \/ FirstPoll(t) \/ Poll(t)
  <2>1. (\E p : Within(t, p)) \/ Again(t) \/ Removed(t) \/ (Advance(t) /\ Collected)
          \/ Answer(t, "500")
    BY <1>6 DEF FindCluster, DeleteCluster, FirstPoll, Poll
  <2> QED BY <1>1, <1>2, <1>3, <2>1
<1>7. CASE StartMgmtDelete(t) \/ EndMgmtDelete(t) \/ PollMgmt(t)
  <2>1. (\E p : Within(t, p)) \/ Again(t) \/ (Advance(t) /\ Collected) \/ Answer(t, "500")
    BY <1>7 DEF StartMgmtDelete, EndMgmtDelete, PollMgmt
  <2> QED BY <1>1, <1>2, <1>3, <2>1
<1>8. CASE Uuid(t) \/ FetchAlb(t) \/ FetchSe(t) \/ DestroyVm(t) \/ VmsDestroyed(t)
  <2>1. Keeps \/ Answer(t, "500")
    BY <1>2, <1>8 DEF Uuid, FetchAlb, FetchSe, DestroyVm, VmsDestroyed, Collected,
                      request, TypeInv, TypeOK
  <2> QED BY <1>1, <1>3, <2>1
<1>9. CASE Tidies(t)
  BY <1>1, <1>2, <1>3, <1>9, TidiesShape
<1> QED BY <1>4, <1>5, <1>6, <1>7, <1>8, <1>9 DEF Serve, Tidies

\* At first no thread has found anything.
LEMMA InitHolds == Init => HoldsNothing
BY DEF Init, HoldsNothing

\* A thread without a request has found nothing.
LEMMA StepHolds == TypeInv /\ HoldsNothing /\ [Next]_vars => HoldsNothing'
<1> SUFFICES ASSUME TypeInv, HoldsNothing, [Next]_vars PROVE HoldsNothing'
  OBVIOUS
<1>1. ASSUME NEW t \in Threads, Begin(t) PROVE HoldsNothing'
  BY <1>1 DEF Begin, HoldsNothing, Busy, TypeInv, TypeOK
<1>2. ASSUME NEW t \in Threads, Serve(t) PROVE HoldsNothing'
  <2>1. CASE UNCHANGED reply /\ \A u \in Threads \ {t} : found'[u] = found[u]
    BY <1>2, <2>1, ServeShape DEF HoldsNothing, Busy
  <2>2. CASE \E code \in {"200", "500"} : Answer(t, code)
    BY <2>2 DEF Answer, HoldsNothing, Busy, TypeInv, TypeOK
  <2> QED BY <1>2, <2>1, <2>2, ServeShape
<1>3. CASE Crash
  BY <1>3 DEF Crash, HoldsNothing
<1>4. CASE (\E c \in Guests : ClusterGone(c) \/ ClusterStalls(c)) \/ UNCHANGED vars
  BY <1>4 DEF ClusterGone, ClusterStalls, vars, request, work, HoldsNothing, Busy
<1> QED BY <1>1, <1>2, <1>3, <1>4 DEF Next

-----------------------------------------------------------------------------

\* Every step keeps the invariant.
LEMMA StepOrder ==
  ASSUME Reliable
  PROVE  TypeInv /\ HoldsNothing /\ OrderInv /\ [Next]_vars => OrderInv'
<1> SUFFICES ASSUME TypeInv, HoldsNothing, OrderInv, [Next]_vars PROVE OrderInv'
  OBVIOUS
<1>1. ASSUME NEW t \in Threads, Begin(t) PROVE OrderInv'
  BY <1>1, BeginOrder DEF HoldsNothing, Begin
<1>2. ASSUME NEW t \in Threads, Serve(t) PROVE OrderInv'
  BY <1>2, CalmOrder, CollectOrder, DestroyOrder, ProbeOrder, RefuseOrder,
     FindClusterOrder, DeleteClusterOrder, PollOrder, MgmtDeleteOrder
     DEF Serve, Tidies
<1>3. CASE UNCHANGED vars
  <2>1. UNCHANGED <<cluster, estate, ask, todo, found>> /\ request' = request
    BY <1>3 DEF vars, request, work
  <2>2. GoneStays /\ MgmtLast' /\ AlbServes' /\ Unfailing'
    BY <2>1, ClustersKept
  <2>3. \A t \in Threads : OrderedTodo(t)' /\ FoundOwn(t)'
    BY <2>1, <2>2, StayOrder
  <2> QED BY <2>2, <2>3 DEF OrderInv, Unfailing
<1> QED BY <1>1, <1>2, <1>3, WorldOrder DEF Next

\* tkgm_cleanup removes the guest clusters first and mgmt_cluster_cleanup
\* refuses while one is listed: no set of concurrent requests, and no crash,
\* takes the management cluster from under another cluster, provided the
\* commands that show and delete clusters do what they say.
THEOREM MgmtLastAlways == ASSUME Reliable PROVE Spec => []MgmtLast
<1>1. OrderInv => MgmtLast
  BY DEF OrderInv
<1> QED BY <1>1, InitTypes, StepTypeInv, InitHolds, StepHolds, InitOrder, StepOrder,
           PTL DEF Spec

\* Controllers and service engines outlive the clusters they serve, under the
\* same proviso; govc, vCenter and the controller's inventory may fail.
THEOREM AlbServesAlways == ASSUME Reliable PROVE Spec => []AlbServes
<1>1. OrderInv => AlbServes
  BY DEF OrderInv
<1> QED BY <1>1, InitTypes, StepTypeInv, InitHolds, StepHolds, InitOrder, StepOrder,
           PTL DEF Spec
=============================================================================
