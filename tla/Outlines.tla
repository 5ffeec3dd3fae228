------------------------------ MODULE Outlines ------------------------------
(***************************************************************************)
(* A proof outline annotates a program of calls with what is known of the   *)
(* world before each of them.  This module says what an outline is, and     *)
(* proves a rule for each kind of call and for their composition, by which  *)
(* StageOutlines annotates the programs of the stages and                   *)
(* Deployment_proofs shows that a deployment keeps to them.                 *)
(***************************************************************************)
EXTENDS Deployment, SequenceTheorems, TLAPS

-----------------------------------------------------------------------------
(* The worlds that are well founded.                                       *)

\* The things that pledges are about.
Touchy ==
  {"mgmt", "shared", "workload", "super", "wcpDown", "importCloud", "vcdCloud", "ipam"} \cup {"e1", "e2", "e3", "e4"}

\* How much is asked of what guest clusters are made from: that it runs; that
\* there is no guest cluster; nothing, once the management cluster was deleted.
Modes == {"firm", "bare", "lost"}

\* What may have been set up beyond that things bear what rests on them; the last
\* three where no other stage is about to change it.
Pledges(k) ==
  {"mgmtMade", "superMade", "superServed", "sharedRuns", "joined1", "joined2", "joined3", "joined4"}
    \cup (IF k.setup = "tkgs" THEN {} ELSE {"workRuns"})
    \cup (IF k.whole /\ k.setup = "tkgs" THEN {"superUp", "superRuns", "shut"} ELSE {})
    \cup (IF k.whole /\ k.setup = "vcd" THEN {"imported"} ELSE {})

Met(r, w) ==
  CASE r = "mgmtMade"    -> w["mgmt"] # "none"
    [] r = "superMade"   -> w["super"] # "none"
    [] r = "superServed" -> w["super"] \in Reachable \cup {"off"}
    [] r = "superUp"     -> w["super"] \in Reachable
    [] r = "superRuns"   -> w["super"] \in Deployed
    [] r = "sharedRuns"  -> w["shared"] \in Deployed
    [] r = "workRuns"    -> w["workload"] \in Deployed
    [] r = "joined1"     -> w["e1"] = "connected"
    [] r = "joined2"     -> w["e2"] = "connected"
    [] r = "joined3"     -> w["e3"] = "connected"
    [] r = "joined4"     -> w["e4"] = "connected"
    [] r = "shut"        -> w["wcpDown"] = "none"
                              \/ (w["super"] = "off" /\ w["workload"] \in {"none", "broken", "off"})
    [] r = "imported"    -> w["importCloud"] = "no" \/ (w["importCloud"] = "yes" /\ w["vcdCloud"] # "none")
    [] OTHER             -> TRUE

\* What may have to be kept: that a thing bears, or a pledge.
Promises ==
  Things \cup {"mgmtMade", "superMade", "superServed", "superUp", "superRuns", "sharedRuns", "workRuns", "joined1",
             "joined2", "joined3", "joined4", "shut", "imported"}

\* What was set up before and is to be kept, and what is to be set up in the end.
Shaky == {"vcdSeg", "vcdCloud", "orgNetwork"}
Kinds ==
  {k \in [setup: SetupKinds, mode: Modes, whole: BOOLEAN, kept: SUBSET Promises, goal: SUBSET Promises] :
     k.kept \cap Shaky = {}}

States == UNION {Lives[x] : x \in Things}

\* Things that come and go, or that nothing rests on.
Loose == Files \cup VcdVars \cup {"vs", "vsVip", "sharedAdc", "wcpDown"}

\* Of a cloud that makes them itself no engine is seen powered off or without its
\* controller, and no guest cluster is shut down but on a supervisor.
Orchestrating(k) == k.setup \notin {"manual", "vmc", "vcd"}
Powers(k, x) ==
  \/ x \in Controllers \cup Supervisor
  \/ x \in Engines /\ ~Orchestrating(k)
  \/ x = "workload" /\ k.setup = "tkgs"

\* The states in which x bears what rests on it.
Solid(x) ==
  CASE x \in Controllers            -> {"up"}
    [] x \in {"mgmt", "ns"}         -> Deployed
    [] x = "super"                  -> Deployed \cup {"off"}
    [] x \in {"shared", "workload"} -> Started
    [] x = "ha"                     -> {"joined", "active"}
    [] x = "ipam"                   -> {"short", "there"}
    [] x \in Engines                -> Listed
    [] x = "fluent"                 -> Settled
    [] x \in Loose                  -> Lives[x]
    [] x = "never"                  -> {}
    [] OTHER                        -> Have

OnGuest(k) ==
  CASE k.mode = "lost" -> {}
    [] k.mode = "bare" -> {"never"}
    [] OTHER           -> {IF k.setup \in Supervised THEN "ns" ELSE "mgmt"}

\* What a pipeline has set up before its clusters; the first engine of a group.
InPipeline(k) == k.setup \in Pipelines \ Supervised
Before(k, x) ==
  CASE InPipeline(k) /\ x = "mgmt"     -> {"mgmtGroup", "route", "workGroup", "e1"}
    [] InPipeline(k) /\ x = "workload" -> {"workGroup", "workAdc"}
    [] Orchestrating(k) /\ x = "e2"    -> {"e1"}
    [] Orchestrating(k) /\ x = "e4"    -> {"e3"}
    [] OTHER                           -> {}

\* What the engines get their addresses from.
PoolOf(k) == IF k.setup = "vmc" THEN "ipam" ELSE "vipPool"

\* What x rests on; the virtual service has engines made, which rest on the same.
Needs(k, x) ==
  CASE x = "rules"         -> {"segments", "groups"}
    [] x \in {"dnsRule", "vcenterRule", "mgwRule"}
                           -> {"segments", "groups", "workSegment", "workNsxGroup"}
    [] x = "ha"            -> Controllers
    [] x = "cert"          -> {"phrase"}
    [] x = "cloud"         -> IF k.setup \in {"vcf", "vcd", "pipelineVcf"}
                              THEN {"vcCred", "nsxCred", "segments"} ELSE {}
    [] x = "ipam"          -> IF k.setup = "vmc" THEN {} ELSE {"vipPool"}
    [] x = "cloudIpam"     -> {"ipam", "cloud"}
    [] x \in Engines \cup {"vs"}       -> {"cloud", PoolOf(k)} \cup Before(k, x)
    [] x \in {"member3", "member4"}    -> {"workGroup"}
    [] x = "mgmt"          -> {"vipPool", "mgmtFolder", "kubeOva", "cloudIpam"} \cup Before(k, x)
    [] x = "super"         -> {"library", "cert"}
    [] x = "ns"            -> {"super", "library", "workNet"}
    [] x \in Dependents    -> OnGuest(k) \cup Before(k, x)
    [] x = "sharedCert"    -> {"sharedRepo", "shared"}
    [] x = "workCert"      -> {"workRepo", "workload"}
    [] x = "sharedContour" -> {"sharedCert"}
                                \cup IF k.setup \in Supervised \cup Pipelines THEN {} ELSE {"sharedAko"}
    [] x = "workContour"   -> {"workCert"}
                                \cup IF k.setup \in Supervised \cup Pipelines THEN {} ELSE {"workAko"}
    [] x = "harbor"        -> IF k.setup \in Supervised THEN {"workCert", "workContour"}
                              ELSE {"sharedCert", "sharedContour"}
    [] x = "prometheus"    -> {"workContour"}
    [] x \in {"grafana", "fluent"}     -> {"workRepo", "workload"}
    [] x = "workRepo"      -> IF k.setup \in Supervised THEN {"roleBinding", "kapp"} ELSE {}
    [] x = "vcdCtrl"       -> {"vcdCert"}
    [] x = "vcdCloud"      -> {"cloud", "vcdCtrl"}
    [] x = "vcdSeg"        -> {"mgmtGroup", "vcdCloud"}
    [] x = "edge"          -> {"vcdSeg", "org", "orgVdc"}
    [] x = "orgNetwork"    -> {"edge"}
    [] x \in {"cseCatalog", "k8sCatalog", "orgVdc"} -> {"org"}
    [] x \in {"keAccess", "capAccess"} -> {"org", "keEntity", "capEntity"}
    [] x = "vapp"          -> {"orgNetwork", "cseTemplate", "keConfig", "token"}
    [] OTHER               -> {}

\* Things that something rests on, or that are to be kept: the configuration of AKO
\* for the workload cluster is made anew but in a pipeline.
Bearing(k) == (Concerned(k.setup) \cup {"never"}) \ (IF InPipeline(k) THEN {} ELSE {"workAdc"})

\* The things of W bear what rests on them, and the pledges of W are met.
Bears(k, W, w) ==
  /\ \A x \in W : x \in Bearing(k) => w[x] \in Solid(x)
  /\ \A r \in W \cap Pledges(k) : Met(r, w)

\* A profile that is not short was made of the VIP network.
Profiled(w) == w["ipam"] = "there" => w["vipPool"] # "none"

\* Each thing is in one of its states, what there is has what it rests on, and what is
\* to be kept is kept.
Sound(k) ==
  {w \in [Concerned(k.setup) -> States] :
     /\ \A x \in Concerned(k.setup) :
          /\ w[x] \in Lives[x] /\ (w[x] \in {"off", "on"} => Powers(k, x))
          /\ w[x] # "none" => \A y \in Needs(k, x) : w[y] \in Solid(y)
     /\ Profiled(w)
     /\ Bears(k, k.kept, w)}

\* The well-founded worlds in which W is known, and those in which the goal is reached.
Known(k, W) == {w \in Sound(k) : Bears(k, W, w)}
Reached(k) == Known(k, k.goal)

-----------------------------------------------------------------------------
(* What goes on outside.                                                   *)

\* Thing x turns from state a to state b by itself.
Turns(x, a, b) ==
  \/ x \in Controllers /\ a = "on" /\ b = "up"
  \/ x = "ha" /\ a = "joined" /\ b = "active"
  \/ x \in {"defaultCloud", "inventory", "placement", "mgmtAko", "sharedAko", "workAko"}
       /\ a = "none" /\ b = "there"
  \/ x \in Engines /\ <<a, b>> \in {<<"none", "up">>, <<"on", "up">>, <<"up", "connected">>}
  \/ x \in Clusters \cup Supervisor /\ a = "creating" /\ b \in {"serving", "running", "broken"}
  \/ x \in Clusters \cup Supervisor /\ a \in {"serving", "off"} /\ b = "running"
  \/ x \in Packages /\ a \in {"creating", "failed"} /\ b \in {"failed", "there"}

\* The world changes outside; engines are made where they find a cloud and a network, the
\* second of a group after the first; what was shut down starts when WCP does.
Shifts(k, v, w) ==
  \E x \in Concerned(k.setup), b \in States :
    /\ Turns(x, v[x], b)
    /\ w = [v EXCEPT ![x] = b]
    /\ x \in Engines /\ v[x] = "none" => v["cloud"] # "none" /\ v[PoolOf(k)] # "none"
    /\ x \in Engines /\ v[x] = "none" => \A e \in Before(k, x) : v[e] # "none"
    /\ x = "super" /\ v[x] = "off" => v["wcpDown"] = "none"
    /\ x = "workload" /\ v[x] = "off" => v["super"] \in Deployed

-----------------------------------------------------------------------------
(* Programs and their outlines.                                            *)

IsProgram(p) == \E S : p \in Seq(S)

Branching == {"unless", "ask", "spare"}

TargetOf(c) == CHOOSE s \in c.states : TRUE

Written(f, s, v) ==
  [x \in DOMAIN v |-> IF x = f THEN s ELSE IF f = "seFile" /\ x \in Files THEN "none" ELSE v[x]]

\* Call c takes the world from v to w and the request goes on.
Does(c, v, w) ==
  CASE c.op \in {"need", "await", "leave"} -> v[c.x] \in c.states /\ w = v
    [] c.op = "watch"                      -> w = v
    [] c.op \in {"ensure", "try", "quit"}  ->
         w = IF v[c.x] \in c.states THEN v ELSE [v EXCEPT ![c.x] = TargetOf(c)]
    [] c.op = "put"                        -> w = [v EXCEPT ![c.x] = TargetOf(c)]
    [] c.op = "make"                       ->
         IF v[c.x] = "none" THEN w = [v EXCEPT ![c.x] = TargetOf(c)] ELSE c.x \in Clusters /\ w = v
    [] c.op = "discard"                    -> w = v \/ w = [v EXCEPT ![c.x] = "none"]
    [] c.op = "copy"                       -> w = Written(c.x, "there", v)
    [] OTHER                               -> FALSE

Plainly == {"need", "await", "leave", "watch", "ensure", "try", "quit", "put", "make", "discard", "copy"}

\* The calls after the attempts that p starts with.
Skips(p, n) == (\A i \in 1 .. n : p[i].op = "try") /\ (n < Len(p) => p[n + 1].op # "try")
AfterTries(p) == LET n == CHOOSE n \in 0 .. Len(p) : Skips(p, n) IN SubSeq(p, n + 1, Len(p))

\* What is known may rely on what goes on outside.
Lasts(k, P) == \A v \in P : \A w : Shifts(k, v, w) => w \in P

\* The first call of p, of which rest follows, leads from P to what A says of the
\* calls that come next.
Serves(k, A, P, c, p, rest) ==
  /\ c.x \in Concerned(k.setup)
  /\ c.op \in Plainly \cup Branching
  /\ c.op \in Branching => IsProgram(c.calls)
  /\ c.op \in Branching =>
       \E R : <<R, rest>> \in A /\ \A v \in P : v[c.x] \in c.states \/ c.op = "spare" => v \in R
  /\ c.op \in Branching =>
       \E R : <<R, c.calls \o rest>> \in A
                /\ \A v \in P : v[c.x] \notin c.states \/ c.op = "ask" => v \in R
  /\ c.op \in Plainly =>
       \E R : <<R, rest>> \in A /\ \A v \in P : \A w : Does(c, v, w) => w \in R
  /\ c.op = "discard" => c.x \in {"vs", "vsVip"}
  /\ c.op = "copy" => \A v \in P : Written(c.x, "partial", v) \in Sound(k)
  /\ c.op = "ask" => k.mode # "bare"
  /\ c.op \in {"leave", "quit"} => k.goal = {}
  /\ c.op = "try" =>
       /\ \E n \in 0 .. Len(p) : Skips(p, n)
       /\ \E R : <<R, AfterTries(p)>> \in A /\ P \subseteq R

IsOutline(k, A) ==
  \A P, p : <<P, p>> \in A =>
    /\ IsProgram(p)
    /\ P \subseteq Sound(k) /\ Lasts(k, P)
    /\ p = <<>> => P \subseteq Reached(k)
    /\ p # <<>> => Serves(k, A, P, Head(p), p, Tail(p))

\* From any world of P the calls of p can be made, whatever goes on meanwhile.
Outlined(k, P, p) == \E A, R : IsOutline(k, A) /\ <<R, p>> \in A /\ P \subseteq R

\* From P the calls of p lead to Q: what can be outlined from Q, can be after them.
Leads(k, P, p, Q) ==
  \A q : IsProgram(q) /\ Outlined(k, Q, q) => Outlined(k, P, p \o q)

\* Where the things of X are known to bear, and maybe others, those of Y are
\* known to after p, and the others still.
Gives(k, X, p, Y) ==
  IsProgram(p) /\ \A W : X \subseteq W => Leads(k, Known(k, W), p, Known(k, W \cup Y))

-----------------------------------------------------------------------------
(* Programs as sequences.                                                  *)

\* Two programs make one.
LEMMA JoinProgram ==
  ASSUME NEW p, NEW q, IsProgram(p), IsProgram(q)
  PROVE  IsProgram(p \o q)
<1>1. PICK S : p \in Seq(S) BY DEF IsProgram
<1>2. PICK T : q \in Seq(T) BY DEF IsProgram
<1>3. p \in Seq(S \cup T) /\ q \in Seq(S \cup T) BY <1>1, <1>2, SeqMonotonic
<1>4. p \o q \in Seq(S \cup T) BY <1>3, ConcatProperties
<1> QED BY <1>4 DEF IsProgram

\* In whatever order they are joined.
LEMMA JoinAssoc ==
  ASSUME NEW p, NEW q, NEW r, IsProgram(p), IsProgram(q), IsProgram(r)
  PROVE  (p \o q) \o r = p \o (q \o r)
<1>1. PICK S : p \in Seq(S) BY DEF IsProgram
<1>2. PICK T : q \in Seq(T) BY DEF IsProgram
<1>3. PICK U : r \in Seq(U) BY DEF IsProgram
<1>4. p \in Seq(S \cup T \cup U) /\ q \in Seq(S \cup T \cup U) /\ r \in Seq(S \cup T \cup U)
  <2>1. p \in Seq(S \cup T \cup U) BY <1>1, SeqMonotonic
  <2>2. q \in Seq(S \cup T \cup U) BY <1>2, SeqMonotonic
  <2>3. r \in Seq(S \cup T \cup U) BY <1>3, SeqMonotonic
  <2> QED BY <2>1, <2>2, <2>3
<1> QED BY <1>4, ConcatAssociative

\* The empty program changes nothing.
LEMMA JoinEmpty ==
  ASSUME NEW p, IsProgram(p)
  PROVE  IsProgram(<<>>) /\ <<>> \o p = p /\ p \o <<>> = p
<1>1. PICK S : p \in Seq(S) BY DEF IsProgram
<1>2. <<>> \in Seq(S) BY EmptySeq
<1>3. <<>> \o p = p /\ p \o <<>> = p BY <1>1, ConcatEmptySeq
<1> QED BY <1>2, <1>3 DEF IsProgram

\* A call before a program.
LEMMA CallFirst ==
  ASSUME NEW c, NEW q, IsProgram(q)
  PROVE  /\ IsProgram(<<c>>) /\ IsProgram(<<c>> \o q)
         /\ <<c>> \o q # <<>> /\ Head(<<c>> \o q) = c /\ Tail(<<c>> \o q) = q
<1>1. PICK S : q \in Seq(S) BY DEF IsProgram
<1> DEFINE T == S \cup {c}
<1>2. q \in Seq(T) BY <1>1, SeqMonotonic
<1>3. <<c>> \in Seq(T) BY SMT
<1>4. IsProgram(<<c>>) /\ IsProgram(q) BY <1>2, <1>3 DEF IsProgram
<1>5. IsProgram(<<c>> \o q) BY <1>4, JoinProgram
<1>6. <<c>> \o q # <<>> /\ Head(<<c>> \o q) = c /\ Tail(<<c>> \o q) = q
  <2> HIDE DEF T
  <2>1. Len(<<c>>) = 1 /\ <<c>>[1] = c BY SMT
  <2>2. /\ <<c>> \o q \in Seq(T) /\ Len(<<c>> \o q) = 1 + Len(q) /\ Len(q) \in Nat
        /\ \A i \in 1 .. 1 + Len(q) : (<<c>> \o q)[i] = IF i <= 1 THEN <<c>>[i] ELSE q[i - 1]
    BY <1>2, <1>3, <2>1, ConcatProperties, LenProperties
  <2>3. <<c>> \o q # <<>> BY <2>2, EmptySeq
  <2>4. Head(<<c>> \o q) = c BY <2>1, <2>2, <2>3
  <2>5. /\ Tail(<<c>> \o q) \in Seq(T) /\ Len(Tail(<<c>> \o q)) = Len(q)
        /\ \A i \in 1 .. Len(q) : Tail(<<c>> \o q)[i] = (<<c>> \o q)[i + 1]
    BY <2>2, <2>3, HeadTailProperties
  <2>6. \A i \in 1 .. Len(q) : Tail(<<c>> \o q)[i] = q[i] BY <2>2, <2>5
  <2>7. Tail(<<c>> \o q) = q BY <1>2, <2>5, <2>6, SeqEqual
  <2> QED BY <2>3, <2>4, <2>7
<1> QED BY <1>4, <1>5, <1>6

-----------------------------------------------------------------------------
(* Outlines.                                                               *)

\* What is enough for a call in one outline is enough in a larger one.
LEMMA ServesMore ==
  ASSUME NEW k, NEW A, NEW B, A \subseteq B, NEW P, NEW c, NEW p, NEW rest,
         Serves(k, A, P, c, p, rest)
  PROVE  Serves(k, B, P, c, p, rest)
BY DEF Serves

\* Two outlines make one.
LEMMA JoinOutlines ==
  ASSUME NEW k, NEW A, NEW B, IsOutline(k, A), IsOutline(k, B)
  PROVE  IsOutline(k, A \cup B)
<1> SUFFICES ASSUME NEW P, NEW p, <<P, p>> \in A \cup B
             PROVE  /\ IsProgram(p) /\ P \subseteq Sound(k) /\ Lasts(k, P)
                    /\ p = <<>> => P \subseteq Reached(k)
                    /\ p # <<>> => Serves(k, A \cup B, P, Head(p), p, Tail(p))
  BY DEF IsOutline
<1>1. CASE <<P, p>> \in A
  <2>1. /\ IsProgram(p) /\ P \subseteq Sound(k) /\ Lasts(k, P)
        /\ p = <<>> => P \subseteq Reached(k)
        /\ p # <<>> => Serves(k, A, P, Head(p), p, Tail(p))
    BY <1>1 DEF IsOutline
  <2>2. A \subseteq A \cup B OBVIOUS
  <2> QED BY <2>1, <2>2, ServesMore
<1>2. CASE <<P, p>> \in B
  <2>1. /\ IsProgram(p) /\ P \subseteq Sound(k) /\ Lasts(k, P)
        /\ p = <<>> => P \subseteq Reached(k)
        /\ p # <<>> => Serves(k, B, P, Head(p), p, Tail(p))
    BY <1>2 DEF IsOutline
  <2>2. B \subseteq A \cup B OBVIOUS
  <2> QED BY <2>1, <2>2, ServesMore
<1> QED BY <1>1, <1>2

\* An outline of the calls that may come next makes one of the program.
LEMMA ExtendOutline ==
  ASSUME NEW k, NEW A, IsOutline(k, A), NEW P, P \subseteq Sound(k), Lasts(k, P),
         NEW c, NEW q, IsProgram(q), Serves(k, A, P, c, <<c>> \o q, q)
  PROVE  Outlined(k, P, <<c>> \o q)
<1> DEFINE p == <<c>> \o q
           B == A \cup {<<P, p>>}
<1>1. IsProgram(p) /\ p # <<>> /\ Head(p) = c /\ Tail(p) = q BY CallFirst
<1> HIDE DEF p
<1>2. Serves(k, A, P, c, p, q) BY DEF p
<1>3. ASSUME NEW R, NEW r, <<R, r>> \in B
      PROVE  /\ IsProgram(r) /\ R \subseteq Sound(k) /\ Lasts(k, R)
             /\ r = <<>> => R \subseteq Reached(k)
             /\ r # <<>> => Serves(k, B, R, Head(r), r, Tail(r))
  <2>0. A \subseteq B OBVIOUS
  <2>1. CASE <<R, r>> \in A
    <3>1. /\ IsProgram(r) /\ R \subseteq Sound(k) /\ Lasts(k, R)
          /\ r = <<>> => R \subseteq Reached(k)
          /\ r # <<>> => Serves(k, A, R, Head(r), r, Tail(r))
      BY <2>1 DEF IsOutline
    <3> QED BY <3>1, <2>0, ServesMore
  <2>2. CASE R = P /\ r = p
    <3>1. Serves(k, B, P, c, p, q) BY <1>2, <2>0, ServesMore
    <3> QED BY <2>2, <3>1, <1>1
  <2> QED BY <1>3, <2>1, <2>2
<1>4. IsOutline(k, B) BY <1>3 DEF IsOutline
<1>5. <<P, p>> \in B OBVIOUS
<1>6. Outlined(k, P, p) BY <1>4, <1>5 DEF Outlined
<1> QED BY <1>6 DEF p

\* Less may be assumed of the worlds that an outline starts from.
LEMMA OutlinedFrom ==
  ASSUME NEW k, NEW P, NEW Q, NEW p, Outlined(k, Q, p), P \subseteq Q
  PROVE  Outlined(k, P, p)
BY DEF Outlined

-----------------------------------------------------------------------------
(* What a call leads to.                                                   *)

\* A call that is made and left behind.
LEMMA PlainLeads ==
  ASSUME NEW k, NEW P, P \subseteq Sound(k), Lasts(k, P), NEW Q, NEW c,
         c.x \in Concerned(k.setup), c.op \in Plainly \ {"try"},
         c.op = "discard" => c.x \in {"vs", "vsVip"},
         c.op = "copy" => \A v \in P : Written(c.x, "partial", v) \in Sound(k),
         c.op \in {"leave", "quit"} => k.goal = {},
         \A v \in P : \A w : Does(c, v, w) => w \in Q
  PROVE  Leads(k, P, <<c>>, Q)
<1> SUFFICES ASSUME NEW q, IsProgram(q), Outlined(k, Q, q)
             PROVE  Outlined(k, P, <<c>> \o q)
  BY DEF Leads
<1>1. PICK A, R : IsOutline(k, A) /\ <<R, q>> \in A /\ Q \subseteq R BY DEF Outlined
<1>2. \A v \in P : \A w : Does(c, v, w) => w \in R BY <1>1
<1>3. c.op \notin Branching /\ c.op \notin {"ask", "try"} BY DEF Plainly, Branching
<1>4. Serves(k, A, P, c, <<c>> \o q, q) BY <1>1, <1>2, <1>3 DEF Serves
<1> QED BY <1>1, <1>4, ExtendOutline

\* The calls after a call that may fail together with those it is tried with.
LEMMA TriesCounted ==
  ASSUME NEW p, IsProgram(p), NEW n \in 0 .. Len(p), Skips(p, n)
  PROVE  AfterTries(p) = SubSeq(p, n + 1, Len(p))
<1>1. PICK S : p \in Seq(S) BY DEF IsProgram
<1>2. Len(p) \in Nat BY <1>1, LenProperties
<1>3. ASSUME NEW m \in 0 .. Len(p), Skips(p, m) PROVE m = n
  <2>1. ~ m < n BY <1>2, <1>3 DEF Skips
  <2>2. ~ n < m BY <1>2, <1>3 DEF Skips
  <2> QED BY <2>1, <2>2, <1>2
<1>4. (CHOOSE m \in 0 .. Len(p) : Skips(p, m)) = n BY <1>3
<1> QED BY <1>4 DEF AfterTries

\* An attempt in front of a program: the calls after all attempts are those of the
\* program.
LEMMA TryFirst ==
  ASSUME NEW c, c.op = "try", NEW q, IsProgram(q),
         q # <<>> /\ Head(q).op = "try" => \E n \in 0 .. Len(q) : Skips(q, n)
  PROVE  /\ \E n \in 0 .. Len(<<c>> \o q) : Skips(<<c>> \o q, n)
         /\ AfterTries(<<c>> \o q)
              = IF q # <<>> /\ Head(q).op = "try" THEN AfterTries(q) ELSE q
<1> DEFINE p == <<c>> \o q
<1>1. PICK S : q \in Seq(S) BY DEF IsProgram
<1> DEFINE T == S \cup {c}
<1>2. q \in Seq(T) BY <1>1, SeqMonotonic
<1>3. <<c>> \in Seq(T) /\ Len(<<c>>) = 1 /\ <<c>>[1] = c BY SMT
<1> HIDE DEF T
<1>4. /\ p \in Seq(T) /\ Len(p) = 1 + Len(q) /\ Len(q) \in Nat
      /\ \A i \in 1 .. 1 + Len(q) : p[i] = IF i <= 1 THEN <<c>>[i] ELSE q[i - 1]
  BY <1>2, <1>3, ConcatProperties, LenProperties
<1>5. p[1] = c /\ \A i \in 1 .. Len(q) : p[i + 1] = q[i] BY <1>3, <1>4
<1>6. IsProgram(p) BY <1>4 DEF IsProgram
<1>7. q # <<>> => Len(q) >= 1 /\ Head(q) = q[1] BY <1>2, EmptySeq
<1>8. ASSUME NEW n \in 0 .. Len(q) PROVE SubSeq(p, n + 2, Len(p)) = SubSeq(q, n + 1, Len(q))
  <2> HIDE DEF p
  <2>1. \A i \in n + 2 .. Len(p) : p[i] \in T BY <1>4, ElementOfSeq
  <2>2. \A i \in n + 1 .. Len(q) : q[i] \in T BY <1>2, <1>4, ElementOfSeq
  <2>3. /\ SubSeq(p, n + 2, Len(p)) \in Seq(T)
        /\ Len(SubSeq(p, n + 2, Len(p))) = Len(q) - n
        /\ \A i \in 1 .. Len(q) - n : SubSeq(p, n + 2, Len(p))[i] = p[n + 1 + i]
    <3>1. n + 2 \in Int /\ Len(p) \in Int BY <1>4
    <3>2. /\ SubSeq(p, n + 2, Len(p)) \in Seq(T)
          /\ Len(SubSeq(p, n + 2, Len(p))) = IF n + 2 <= Len(p) THEN Len(p) - (n + 2) + 1 ELSE 0
          /\ \A i \in 1 .. Len(p) - (n + 2) + 1 : SubSeq(p, n + 2, Len(p))[i] = p[n + 2 + i - 1]
      BY <2>1, <3>1, SubSeqProperties
    <3> QED BY <3>2, <1>4
  <2>4. /\ SubSeq(q, n + 1, Len(q)) \in Seq(T)
        /\ Len(SubSeq(q, n + 1, Len(q))) = Len(q) - n
        /\ \A i \in 1 .. Len(q) - n : SubSeq(q, n + 1, Len(q))[i] = q[n + i]
    <3>1. n + 1 \in Int /\ Len(q) \in Int BY <1>4
    <3>2. /\ SubSeq(q, n + 1, Len(q)) \in Seq(T)
          /\ Len(SubSeq(q, n + 1, Len(q))) = IF n + 1 <= Len(q) THEN Len(q) - (n + 1) + 1 ELSE 0
          /\ \A i \in 1 .. Len(q) - (n + 1) + 1 : SubSeq(q, n + 1, Len(q))[i] = q[n + 1 + i - 1]
      BY <2>2, <3>1, SubSeqProperties
    <3> QED BY <3>2, <1>4
  <2>5. \A i \in 1 .. Len(q) - n : p[n + 1 + i] = q[n + i]
    <3> TAKE i \in 1 .. Len(q) - n
    <3>1. n + i \in 1 .. Len(q) BY <1>4
    <3> QED BY <3>1, <1>5, <1>4
  <2> QED BY <2>3, <2>4, <2>5, SeqEqual
<1>9. CASE q # <<>> /\ Head(q).op = "try"
  <2>1. PICK n \in 0 .. Len(q) : Skips(q, n) BY <1>9
  <2>2. Skips(p, n + 1)
    <3> HIDE DEF p
    <3>1. \A i \in 1 .. n + 1 : p[i].op = "try"
      <4> TAKE i \in 1 .. n + 1
      <4>1. CASE i = 1 BY <4>1, <1>5
      <4>2. CASE i > 1
        <5>1. i - 1 \in 1 .. n /\ i - 1 \in 1 .. Len(q) BY <4>2, <1>4
        <5>2. p[i - 1 + 1] = q[i - 1] BY <5>1, <1>5
        <5>3. i - 1 + 1 = i BY <4>2
        <5>4. q[i - 1].op = "try" BY <5>1, <2>1 DEF Skips
        <5> QED BY <5>2, <5>3, <5>4
      <4> QED BY <4>1, <4>2
    <3>2. ASSUME n + 1 < Len(p) PROVE p[n + 1 + 1].op # "try"
      <4>1. n < Len(q) /\ n + 1 \in 1 .. Len(q) BY <3>2, <1>4
      <4>2. p[n + 1 + 1] = q[n + 1] BY <4>1, <1>5
      <4> QED BY <4>1, <4>2, <2>1 DEF Skips
    <3> QED BY <3>1, <3>2 DEF Skips
  <2>3. n + 1 \in 0 .. Len(p) BY <1>4
  <2>4. AfterTries(p) = SubSeq(p, n + 1 + 1, Len(p)) BY <2>2, <2>3, <1>6, TriesCounted
  <2>5. n + 1 + 1 = n + 2 BY SMT
  <2>6. AfterTries(q) = SubSeq(q, n + 1, Len(q)) BY <2>1, TriesCounted
  <2> QED BY <2>2, <2>3, <2>4, <2>5, <2>6, <1>8, <1>9
<1>10. CASE ~ (q # <<>> /\ Head(q).op = "try")
  <2>1. Skips(p, 1)
    <3> HIDE DEF p
    <3>1. \A i \in 1 .. 1 : p[i].op = "try" BY <1>5
    <3>2. ASSUME 1 < Len(p) PROVE p[1 + 1].op # "try"
      <4>1. 1 \in 1 .. Len(q) BY <3>2, <1>4
      <4>2. q # <<>> BY <4>1, <1>4
      <4>3. p[1 + 1] = q[1] BY <4>1, <1>5
      <4> QED BY <4>2, <4>3, <1>7, <1>10
    <3> QED BY <3>1, <3>2 DEF Skips
  <2>2. 1 \in 0 .. Len(p) /\ 0 \in 0 .. Len(q) BY <1>4
  <2>3. AfterTries(p) = SubSeq(p, 1 + 1, Len(p)) BY <2>1, <2>2, <1>6, TriesCounted
  <2>4. SubSeq(p, 0 + 2, Len(p)) = SubSeq(q, 0 + 1, Len(q)) BY <2>2, <1>8
  <2>5. SubSeq(q, 1, Len(q)) = q BY <1>1, SubSeqFull
  <2>6. 1 + 1 = 0 + 2 /\ 0 + 1 = 1 BY SMT
  <2> QED BY <2>1, <2>2, <2>3, <2>4, <2>5, <2>6, <1>10
<1> QED BY <1>9, <1>10

\* From P program p can be tried; the calls after its attempts can be, from V.
Tried(k, V, P, p) ==
  \E A, R, U :
    /\ IsOutline(k, A) /\ <<R, p>> \in A /\ P \subseteq R
    /\ p # <<>> /\ Head(p).op = "try"
    /\ \E n \in 0 .. Len(p) : Skips(p, n)
    /\ <<U, AfterTries(p)>> \in A /\ V \subseteq U

\* From P the calls of p are tried one after the other and lead to Q; where one of
\* them fails the others are left out, as from any world of V.
Attempts(k, V, P, p, Q) == \A q : IsProgram(q) /\ Outlined(k, Q, q) => Tried(k, V, P, p \o q)

\* A call tried before calls that may start with others that are tried.
LEMMA AttemptServes ==
  ASSUME NEW k, NEW A, IsOutline(k, A), NEW V, NEW P, P \subseteq Sound(k), Lasts(k, P), P \subseteq V, NEW c,
         c.x \in Concerned(k.setup), c.op = "try", NEW q, IsProgram(q),
         NEW R, <<R, q>> \in A, \A v \in P : \A w : Does(c, v, w) => w \in R,
         q # <<>> /\ Head(q).op = "try" => \E n \in 0 .. Len(q) : Skips(q, n),
         NEW U, <<U, IF q # <<>> /\ Head(q).op = "try" THEN AfterTries(q) ELSE q>> \in A, V \subseteq U
  PROVE  Tried(k, V, P, <<c>> \o q)
<1> DEFINE p == <<c>> \o q
<1>1. /\ \E n \in 0 .. Len(p) : Skips(p, n)
      /\ AfterTries(p) = IF q # <<>> /\ Head(q).op = "try" THEN AfterTries(q) ELSE q
  BY TryFirst
<1>2. p # <<>> /\ Head(p) = c BY CallFirst
<1> HIDE DEF p
<1>3. <<U, AfterTries(p)>> \in A BY <1>1
<1>4. c.op \in Plainly /\ c.op \notin Branching /\ c.op \notin {"ask", "discard", "copy", "leave", "quit"}
  BY DEF Plainly, Branching
<1>5. P \subseteq U OBVIOUS
<1>6. Serves(k, A, P, c, p, q) BY <1>1, <1>3, <1>4, <1>5 DEF Serves
<1>7. Serves(k, A, P, c, <<c>> \o q, q) BY <1>6 DEF p
<1>8. Outlined(k, P, <<c>> \o q) BY <1>7, ExtendOutline
<1>9. PICK B, T : IsOutline(k, B) /\ <<T, p>> \in B /\ P \subseteq T BY <1>8 DEF Outlined, p
<1>10. IsOutline(k, A \cup B) BY <1>9, JoinOutlines
<1>11. <<T, p>> \in A \cup B /\ <<U, AfterTries(p)>> \in A \cup B BY <1>3, <1>9
<1>12. Tried(k, V, P, p) BY <1>1, <1>2, <1>9, <1>10, <1>11 DEF Tried
<1> QED BY <1>12 DEF p

\* The last call of those that are tried together.
LEMMA AttemptLast ==
  ASSUME NEW k, NEW V, NEW P, P \subseteq Sound(k), Lasts(k, P), P \subseteq V, NEW Q, V \subseteq Q, NEW c,
         c.x \in Concerned(k.setup), c.op = "try",
         \A v \in P : \A w : Does(c, v, w) => w \in Q
  PROVE  Attempts(k, V, P, <<c>>, Q)
<1> SUFFICES ASSUME NEW q, IsProgram(q), Outlined(k, Q, q)
             PROVE  Tried(k, V, P, <<c>> \o q)
  BY DEF Attempts
<1>1. PICK A, R : IsOutline(k, A) /\ <<R, q>> \in A /\ Q \subseteq R BY DEF Outlined
<1>2. \A v \in P : \A w : Does(c, v, w) => w \in R BY <1>1
<1>3. q # <<>> => Serves(k, A, R, Head(q), q, Tail(q)) BY <1>1 DEF IsOutline
<1>4. q # <<>> /\ Head(q).op = "try" =>
        /\ \E n \in 0 .. Len(q) : Skips(q, n)
        /\ \E U : <<U, AfterTries(q)>> \in A /\ R \subseteq U
  BY <1>3 DEF Serves
<1>5. \E U : <<U, IF q # <<>> /\ Head(q).op = "try" THEN AfterTries(q) ELSE q>> \in A /\ V \subseteq U
  <2>1. CASE q # <<>> /\ Head(q).op = "try"
    <3>1. PICK U : <<U, AfterTries(q)>> \in A /\ R \subseteq U BY <2>1, <1>4
    <3> QED BY <2>1, <3>1, <1>1
  <2>2. CASE ~ (q # <<>> /\ Head(q).op = "try") BY <2>2, <1>1
  <2> QED BY <2>1, <2>2
<1>6. PICK U : <<U, IF q # <<>> /\ Head(q).op = "try" THEN AfterTries(q) ELSE q>> \in A /\ V \subseteq U BY <1>5
<1> QED BY <1>1, <1>2, <1>4, <1>6, AttemptServes

\* A call before others that are tried together with it.
LEMMA AttemptMore ==
  ASSUME NEW k, NEW V, NEW P, P \subseteq Sound(k), Lasts(k, P), P \subseteq V, NEW N, NEW Q, NEW c,
         c.x \in Concerned(k.setup), c.op = "try",
         \A v \in P : \A w : Does(c, v, w) => w \in N,
         NEW p, IsProgram(p), Attempts(k, V, N, p, Q)
  PROVE  Attempts(k, V, P, <<c>> \o p, Q)
<1> SUFFICES ASSUME NEW q, IsProgram(q), Outlined(k, Q, q)
             PROVE  Tried(k, V, P, (<<c>> \o p) \o q)
  BY DEF Attempts
<1> DEFINE r == p \o q
<1>1. IsProgram(r) BY JoinProgram
<1>2. (<<c>> \o p) \o q = <<c>> \o r
  <2>1. IsProgram(<<c>>) BY CallFirst
  <2> QED BY <2>1, JoinAssoc
<1>3. PICK A, R, U :
        /\ IsOutline(k, A) /\ <<R, r>> \in A /\ N \subseteq R
        /\ r # <<>> /\ Head(r).op = "try"
        /\ \E n \in 0 .. Len(r) : Skips(r, n)
        /\ <<U, AfterTries(r)>> \in A /\ V \subseteq U
  BY DEF Attempts, Tried
<1> HIDE DEF r
<1>4. \A v \in P : \A w : Does(c, v, w) => w \in R BY <1>3
<1>5. <<U, IF r # <<>> /\ Head(r).op = "try" THEN AfterTries(r) ELSE r>> \in A BY <1>3
<1>6. Tried(k, V, P, <<c>> \o r) BY <1>1, <1>3, <1>4, <1>5, AttemptServes
<1> QED BY <1>2, <1>6

\* Calls that are tried lead on whether or not they fail.
LEMMA AttemptsLead ==
  ASSUME NEW k, NEW P, NEW p, NEW Q, Attempts(k, P, P, p, Q)
  PROVE  Leads(k, P, p, Q)
BY DEF Attempts, Tried, Leads, Outlined

\* A call that is tried alone.
LEMMA TryLeads ==
  ASSUME NEW k, NEW P, P \subseteq Sound(k), Lasts(k, P), NEW Q, NEW c,
         c.x \in Concerned(k.setup), c.op = "try",
         \A v \in P : \A w : Does(c, v, w) => w \in Q,
         P \subseteq Q
  PROVE  Leads(k, P, <<c>>, Q)
BY AttemptLast, AttemptsLead

\* A look at a thing, and the calls that depend on it.
LEMMA BranchLeads ==
  ASSUME NEW k, NEW P, P \subseteq Sound(k), Lasts(k, P), NEW Q, NEW U, NEW c,
         c.x \in Concerned(k.setup), c.op \in Branching, IsProgram(c.calls),
         c.op = "ask" => k.mode # "bare",
         Leads(k, U, c.calls, Q),
         \A v \in P : v[c.x] \in c.states \/ c.op = "spare" => v \in Q,
         \A v \in P : v[c.x] \notin c.states \/ c.op = "ask" => v \in U
  PROVE  Leads(k, P, <<c>>, Q)
<1> SUFFICES ASSUME NEW q, IsProgram(q), Outlined(k, Q, q)
             PROVE  Outlined(k, P, <<c>> \o q)
  BY DEF Leads
<1>1. PICK A, R : IsOutline(k, A) /\ <<R, q>> \in A /\ Q \subseteq R BY DEF Outlined
<1>2. Outlined(k, U, c.calls \o q) BY DEF Leads
<1>3. PICK B, V : IsOutline(k, B) /\ <<V, c.calls \o q>> \in B /\ U \subseteq V BY <1>2 DEF Outlined
<1>4. IsOutline(k, A \cup B) BY <1>1, <1>3, JoinOutlines
<1>5. <<R, q>> \in A \cup B /\ <<V, c.calls \o q>> \in A \cup B BY <1>1, <1>3
<1>6. \A v \in P : v[c.x] \in c.states \/ c.op = "spare" => v \in R BY <1>1
<1>7. \A v \in P : v[c.x] \notin c.states \/ c.op = "ask" => v \in V BY <1>3
<1>8. c.op \notin Plainly /\ c.op \notin {"discard", "copy", "try", "leave", "quit"} BY DEF Plainly, Branching
<1>9. Serves(k, A \cup B, P, c, <<c>> \o q, q)
  BY <1>5, <1>6, <1>7, <1>8 DEF Serves
<1> QED BY <1>4, <1>9, ExtendOutline

-----------------------------------------------------------------------------
(* Composition.                                                            *)

\* Programs one after the other lead where the second leads from what the first leads
\* to.
LEMMA ThenLeads ==
  ASSUME NEW k, NEW P, NEW p, NEW Q, NEW q, NEW R, IsProgram(p), IsProgram(q),
         Leads(k, P, p, Q), Leads(k, Q, q, R)
  PROVE  Leads(k, P, p \o q, R)
<1> SUFFICES ASSUME NEW r, IsProgram(r), Outlined(k, R, r)
             PROVE  Outlined(k, P, (p \o q) \o r)
  BY DEF Leads
<1>1. Outlined(k, Q, q \o r) BY DEF Leads
<1>2. IsProgram(q \o r) BY JoinProgram
<1>3. Outlined(k, P, p \o (q \o r)) BY <1>1, <1>2 DEF Leads
<1>4. (p \o q) \o r = p \o (q \o r) BY JoinAssoc
<1> QED BY <1>3, <1>4

\* More may be known before, and less claimed after.
LEMMA LessLeads ==
  ASSUME NEW k, NEW P, NEW p, NEW Q, NEW R, NEW U, Leads(k, P, p, Q), R \subseteq P, Q \subseteq U
  PROVE  Leads(k, R, p, U)
<1> SUFFICES ASSUME NEW r, IsProgram(r), Outlined(k, U, r)
             PROVE  Outlined(k, R, p \o r)
  BY DEF Leads
<1>1. Outlined(k, Q, r) BY OutlinedFrom
<1>2. Outlined(k, P, p \o r) BY <1>1 DEF Leads
<1> QED BY <1>2, OutlinedFrom

\* The empty program leads to what was known.
LEMMA NothingLeads ==
  ASSUME NEW k, NEW P
  PROVE  IsProgram(<<>>) /\ Leads(k, P, <<>>, P)
<1>1. <<>> \in Seq({}) BY EmptySeq
<1>2. IsProgram(<<>>) BY <1>1 DEF IsProgram
<1>3. ASSUME NEW r, IsProgram(r), Outlined(k, P, r) PROVE Outlined(k, P, <<>> \o r)
  BY <1>3, JoinEmpty
<1> QED BY <1>2, <1>3 DEF Leads

-----------------------------------------------------------------------------
(* What bears, and what changes by itself.                                 *)

\* The states each kind of thing goes through.
LEMMA StatesOf ==
  ASSUME NEW x \in Things
  PROVE  /\ x \in Controllers           => Lives[x] = {"none", "off", "on", "up"}
         /\ x \in Engines               => Lives[x] = {"none", "off", "on", "up", "connected"}
         /\ x \in Clusters \cup Supervisor
              => Lives[x] = {"none", "creating", "serving", "running", "broken", "off"}
         /\ x \in Files                 => Lives[x] = {"none", "partial", "there"}
         /\ x \in Packages              => Lives[x] = {"none", "creating", "failed", "there"}
         /\ x \in VcdVars               => Lives[x] = {"none", "no", "yes"}
         /\ x = "ha"                    => Lives[x] = {"none", "joined", "active"}
         /\ x = "ipam"                  => Lives[x] = {"none", "short", "there"}
         /\ x = "vs"                    => Lives[x] = {"none", "mgmt", "work"}
         /\ x \notin Controllers \cup Engines \cup Clusters \cup Supervisor \cup Files \cup Packages
                       \cup VcdVars \cup {"ha", "ipam", "vs"}
              => Lives[x] = {"none", "there"}
BY DEF Lives, Controllers, Engines, Clusters, Supervisor, Files, OnShared, OnWorkload, Packages, VcdVars

\* What bears is in one of its states, and there, unless nothing rests on it.
LEMMA SolidStates ==
  ASSUME NEW x \in Things
  PROVE  /\ Solid(x) \subseteq Lives[x] /\ (x \notin Loose => "none" \notin Solid(x))
         /\ x \notin Touchy => "off" \notin Solid(x) /\ "on" \notin Solid(x)
<1>1. Solid(x) \subseteq Lives[x] /\ (x \notin Loose => "none" \notin Solid(x))
  BY StatesOf DEF Solid, Loose, Have, Deployed, Started, Reachable, Listed, Settled,
     Controllers, Engines, Clusters, Supervisor, Files, OnShared, OnWorkload, Packages, VcdVars
<1>2. x \in Controllers \cup {"ns"} => "off" \notin Solid(x) /\ "on" \notin Solid(x)
  <2>1. x \in Controllers => Solid(x) = {"up"} BY DEF Solid, Controllers, Loose, Engines, Files, VcdVars
  <2>2. Solid("ns") = Deployed BY DEF Solid, Controllers, Loose, Engines, Files, VcdVars
  <2> QED BY <2>1, <2>2 DEF Deployed
<1>3. x \notin Touchy \cup Controllers \cup {"ns"} => "off" \notin Lives[x] /\ "on" \notin Lives[x]
  BY StatesOf DEF Touchy, Controllers, Engines, Clusters, Supervisor, Files, OnShared, OnWorkload, Packages, VcdVars
<1> QED BY <1>1, <1>2, <1>3

\* What turns by itself stays, and goes on bearing; only some things appear.
LEMMA TurnsKeep ==
  ASSUME NEW x \in Things, NEW a \in Lives[x], NEW b, Turns(x, a, b)
  PROVE  /\ b \in Lives[x] /\ b \notin {"none", "off", "on"}
         /\ a \in Solid(x) => b \in Solid(x)
         /\ a = "none" => x \in {"defaultCloud", "inventory", "placement", "mgmtAko", "sharedAko", "workAko"}
                                  \cup Engines
BY StatesOf DEF Turns, Solid, Loose, Have, Deployed, Started, Reachable, Listed, Settled,
     Controllers, Engines, Clusters, Supervisor, Files, OnShared, OnWorkload, Packages, VcdVars

\* There is no state in which "never" bears, and it is no thing.
LEMMA NeverBears == Solid("never") = {} /\ "never" \notin Things
<1>1. Solid("never") = {} BY DEF Solid, Controllers, Loose, Engines, Files, VcdVars
<1>2. "never" \notin Things
  BY DEF Things, Controllers, Engines, Clusters, Supervisor, Files, Packages, OnShared, OnWorkload, Plain,
         Director, VcdVars, Pushed
<1> QED BY <1>1, <1>2

\* Things rest on things that the deployment can come across.
LEMMA NeedsConcerned ==
  ASSUME NEW k \in Kinds, NEW x \in Concerned(k.setup), NEW y \in Needs(k, x)
  PROVE  /\ y \in Concerned(k.setup) \/ y = "never"
         /\ y \in Bearing(k)
<1>1. CASE x \in Director
  <2>1. k.setup = "vcd"
    BY <1>1 DEF Concerned, Things
  <2>2. y \in Things \/ y = "never"
    BY <1>1 DEF Needs, Before, InPipeline, Orchestrating, Pipelines, Supervised, Director, VcdVars, Things, Plain,
           OnGuest, Dependents, Engines, Controllers, Supervisor, Clusters
  <2>3. y # "workAdc"
    BY <1>1 DEF Needs, Director, VcdVars, Engines, Dependents, Controllers
  <2> QED BY <2>1, <2>2, <2>3 DEF Concerned, Bearing
<1>2. CASE x \notin Director
  <2>1. y \in Things \ (Director \cup {"cseFile"}) \/ y = "never"
    BY <1>2 DEF Needs, PoolOf, Before, Director, VcdVars, Things, Plain, OnGuest, Dependents, Engines, Controllers,
           Supervisor, Clusters, Packages, OnShared, OnWorkload, Files, Pushed
  <2>2. y = "workAdc" => InPipeline(k)
    BY <1>2 DEF Needs, PoolOf, Before, Director, VcdVars, OnGuest, Dependents, Engines, Controllers
  <2> QED BY <2>1, <2>2 DEF Concerned, Bearing
<1> QED BY <1>1, <1>2

\* The pledges are no things.
LEMMA ThingsNoPledges ==
  ASSUME NEW k \in Kinds, NEW x \in Things \cup {"never"}
  PROVE  x \notin Pledges(k)
BY DEF Pledges, Things, Controllers, Engines, Clusters, Supervisor, Files, Packages, OnShared, OnWorkload, Plain,
       Director, VcdVars, Pushed

\* What needs a thing of what it rests on.
LEMMA NeedsBear ==
  ASSUME NEW k \in Kinds, NEW x \in Concerned(k.setup), NEW W, Needs(k, x) \subseteq W, NEW w \in Known(k, W)
  PROVE  \A y \in Needs(k, x) : w[y] \in Solid(y)
<1>1. \A y \in W : y \in Bearing(k) => w[y] \in Solid(y) BY DEF Known, Bears
<1> QED BY <1>1, NeedsConcerned

\* Thing x may be put into state v without breaking a pledge.
Upholds(k, w, x, v) ==
  /\ v \in {"off", "on"} => Powers(k, x)
  /\ x = "ipam" /\ v = "there" => w["vipPool"] # "none"
  /\ \A r \in Pledges(k) : Met(r, w) => Met(r, [w EXCEPT ![x] = v])

\* A pledge does not depend on other things.
LEMMA MetElsewhere ==
  ASSUME NEW k \in Kinds, NEW w, NEW u, \A x \in Concerned(k.setup) : x \in Touchy \ {"ipam"} => u[x] = w[x],
         NEW r \in Pledges(k), Met(r, w)
  PROVE  Met(r, u)
<1>1. Touchy \ {"importCloud", "vcdCloud"} \subseteq Concerned(k.setup)
  BY DEF Touchy, Concerned, Things, Clusters, Supervisor, Plain, Engines, Director, VcdVars
<1>2. k.setup = "vcd" => Touchy \subseteq Concerned(k.setup)
  BY DEF Touchy, Concerned, Things, Clusters, Supervisor, Plain, Engines, Director, VcdVars
<1>3. r = "imported" => k.setup = "vcd" BY DEF Pledges
<1> QED BY <1>1, <1>2, <1>3 DEF Touchy, Pledges, Met

\* No pledge is about another thing, so that it may be put into any state.
LEMMA UpholdsElsewhere ==
  ASSUME NEW k \in Kinds, NEW w \in [Concerned(k.setup) -> States], NEW x, x \notin Touchy, NEW v,
         v \in {"off", "on"} => Powers(k, x)
  PROVE  Upholds(k, w, x, v)
<1>1. \A y \in Concerned(k.setup) : y \in Touchy => [w EXCEPT ![x] = v][y] = w[y] OBVIOUS
<1>2. x # "ipam" BY DEF Touchy
<1> QED BY <1>1, <1>2, MetElsewhere DEF Upholds

\* Nor does what is made break one, unless it is a cluster where they are shut down.
LEMMA UpholdsMade ==
  ASSUME NEW k \in Kinds, NEW w \in [Concerned(k.setup) -> States], NEW x \in Concerned(k.setup), NEW v, w[x] = "none",
         v \in {"off", "on"} => Powers(k, x),
         x \notin {"wcpDown", "importCloud", "ipam"},
         x = "workload" => "shut" \notin Pledges(k) \/ w["super"] \in Reachable
  PROVE  Upholds(k, w, x, v)
<1>1. ASSUME NEW r \in Pledges(k), Met(r, w) PROVE Met(r, [w EXCEPT ![x] = v])
  <2> DEFINE u == [w EXCEPT ![x] = v]
  <2>1. u[x] = v /\ \A y \in Concerned(k.setup) : y # x => u[y] = w[y] OBVIOUS
  <2> HIDE DEF u
  <2>2. Touchy \ {"importCloud", "vcdCloud"} \subseteq Concerned(k.setup)
    BY DEF Touchy, Concerned, Things, Clusters, Supervisor, Plain, Engines, Director, VcdVars
  <2>3. r = "imported" => {"importCloud", "vcdCloud"} \subseteq Concerned(k.setup)
    BY DEF Pledges, Concerned, Things, Director, VcdVars
  <2>4. Met(r, u)
    BY <1>1, <2>1, <2>2, <2>3 DEF Touchy, Pledges, Met, Reachable, Deployed
  <2> QED BY <2>4 DEF u
<1> QED BY <1>1 DEF Upholds

\* Nor what is powered on that was off.
LEMMA UpholdsPower ==
  ASSUME NEW k \in Kinds, NEW w \in [Concerned(k.setup) -> States], NEW x \in Engines \cup Controllers, NEW v,
         w[x] = "off", Powers(k, x)
  PROVE  Upholds(k, w, x, v)
<1>1. x \in Concerned(k.setup)
  BY DEF Concerned, Things, Engines, Controllers, Director, VcdVars
<1>2. ASSUME NEW r \in Pledges(k), Met(r, w) PROVE Met(r, [w EXCEPT ![x] = v])
  <2> DEFINE u == [w EXCEPT ![x] = v]
  <2>1. u[x] = v /\ \A y \in Concerned(k.setup) : y # x => u[y] = w[y] BY <1>1
  <2> HIDE DEF u
  <2>2. Touchy \ {"importCloud", "vcdCloud"} \subseteq Concerned(k.setup)
    BY DEF Touchy, Concerned, Things, Clusters, Supervisor, Plain, Engines, Director, VcdVars
  <2>3. r = "imported" => {"importCloud", "vcdCloud"} \subseteq Concerned(k.setup)
    BY DEF Pledges, Concerned, Things, Director, VcdVars
  <2>4. Met(r, u)
    BY <1>2, <2>1, <2>2, <2>3 DEF Touchy, Pledges, Met, Engines, Controllers
  <2> QED BY <2>4 DEF u
<1>3. x # "ipam" BY DEF Engines, Controllers
<1> QED BY <1>2, <1>3 DEF Upholds

\* What changes in a well-founded world leaves it well founded, if what appears has
\* what it rests on, and what no longer bears has nothing resting on it and is not to
\* be kept.
LEMMA ChangeSound ==
  ASSUME NEW k \in Kinds, NEW w \in Sound(k), NEW x \in Concerned(k.setup), NEW v \in Lives[x],
         w[x] = "none" /\ v # "none" => \A y \in Needs(k, x) : w[y] \in Solid(y),
         Upholds(k, w, x, v),
         \/ x \in Bearing(k) /\ w[x] \in Solid(x) => v \in Solid(x)
         \/ /\ x \notin k.kept /\ x # "vipPool"
            /\ \A y \in Concerned(k.setup) : x \in Needs(k, y) => w[y] = "none" /\ x # y
  PROVE  [w EXCEPT ![x] = v] \in Sound(k)
<1> DEFINE u == [w EXCEPT ![x] = v]
<1>1. /\ w \in [Concerned(k.setup) -> States]
      /\ \A z \in Concerned(k.setup) :
           /\ w[z] \in Lives[z] /\ (w[z] \in {"off", "on"} => Powers(k, z))
           /\ w[z] # "none" => \A y \in Needs(k, z) : w[y] \in Solid(y)
      /\ Profiled(w) /\ Bears(k, k.kept, w)
  BY DEF Sound
<1>2. x \in Things BY DEF Concerned
<1>3. u \in [Concerned(k.setup) -> States] BY <1>1, <1>2 DEF States
<1>4. u[x] = v /\ \A z \in Concerned(k.setup) \ {x} : u[z] = w[z] BY <1>1
<1>5. \A r \in Pledges(k) : Met(r, w) => Met(r, u) BY DEF Upholds
<1>6. v \in {"off", "on"} => Powers(k, x) BY DEF Upholds
<1> HIDE DEF u
<1>7. ASSUME NEW z \in Concerned(k.setup)
      PROVE  /\ u[z] \in Lives[z] /\ (u[z] \in {"off", "on"} => Powers(k, z))
             /\ u[z] # "none" => \A y \in Needs(k, z) : u[y] \in Solid(y)
  <2>1. u[z] \in Lives[z] /\ (u[z] \in {"off", "on"} => Powers(k, z)) BY <1>1, <1>4, <1>6
  <2>2. ASSUME u[z] # "none", NEW y \in Needs(k, z) PROVE u[y] \in Solid(y)
    <3>1. w[y] \in Solid(y)
      <4>1. CASE z = x BY <4>1, <2>2, <1>1, <1>4
      <4>2. CASE z # x BY <4>2, <2>2, <1>1, <1>4
      <4> QED BY <4>1, <4>2
    <3>2. y \in Concerned(k.setup) /\ y \in Bearing(k) BY <3>1, NeverBears, NeedsConcerned
    <3>3. CASE y # x BY <3>1, <3>2, <3>3, <1>4
    <3>4. CASE y = x /\ (w[x] \in Solid(x) => v \in Solid(x)) BY <3>1, <3>4, <1>4
    <3>5. CASE y = x /\ ~ (w[x] \in Solid(x) => v \in Solid(x))
      <4>1. w[z] = "none" /\ x # z BY <3>2, <3>5
      <4> QED BY <4>1, <1>4, <2>2
    <3> QED BY <3>3, <3>4, <3>5
  <2> QED BY <2>1, <2>2
<1>8. Bears(k, k.kept, u)
  <2>1. ASSUME NEW z \in k.kept, z \in Bearing(k) PROVE u[z] \in Solid(z)
    <3>1. w[z] \in Solid(z) BY <1>1, <2>1 DEF Bears
    <3>2. z \in Concerned(k.setup) BY <2>1, <3>1, NeverBears DEF Bearing
    <3> QED BY <3>1, <3>2, <2>1, <1>4
  <2>2. \A r \in k.kept \cap Pledges(k) : Met(r, u) BY <1>1, <1>5 DEF Bears
  <2> QED BY <2>1, <2>2 DEF Bears
<1>9. Profiled(u)
  <2>1. "vipPool" \in Concerned(k.setup) /\ "ipam" \in Concerned(k.setup)
    BY DEF Concerned, Things, Plain, Director, VcdVars
  <2>2. Solid("vipPool") = Have BY DEF Solid, Controllers, Loose, Engines, Files, VcdVars
  <2>3. Lives["vipPool"] = {"none", "there"}
    <3>1. "vipPool" \in Things BY <2>1 DEF Concerned
    <3> QED BY <3>1, StatesOf DEF Controllers, Engines, Clusters, Supervisor, Files, Packages, OnShared,
               OnWorkload, VcdVars
  <2>4. w["vipPool"] # "none" => u["vipPool"] # "none"
    <3>1. CASE x # "vipPool" BY <2>1, <3>1, <1>4
    <3>2. CASE x = "vipPool"
      <4>1. "vipPool" \in Bearing(k) BY <2>1 DEF Bearing
      <4> QED BY <4>1, <2>1, <2>2, <2>3, <3>2, <1>1, <1>4 DEF Have
    <3> QED BY <3>1, <3>2
  <2>5. u["ipam"] = "there" => w["vipPool"] # "none" BY <2>1, <1>1, <1>4 DEF Upholds, Profiled
  <2> QED BY <2>4, <2>5 DEF Profiled
<1>10. u \in Sound(k) BY <1>3, <1>7, <1>8, <1>9 DEF Sound
<1> QED BY <1>10 DEF u

\* What is known of the other things stays known.
LEMMA ChangeKnown ==
  ASSUME NEW k \in Kinds, NEW W, NEW w \in Known(k, W), NEW x \in Concerned(k.setup), NEW v \in Lives[x],
         w[x] = "none" /\ v # "none" => \A y \in Needs(k, x) : w[y] \in Solid(y),
         Upholds(k, w, x, v),
         x \in Bearing(k) /\ w[x] \in Solid(x) => v \in Solid(x)
  PROVE  /\ [w EXCEPT ![x] = v] \in Known(k, W)
         /\ v \in Solid(x) => [w EXCEPT ![x] = v] \in Known(k, W \cup {x})
<1> DEFINE u == [w EXCEPT ![x] = v]
<1>1. w \in Sound(k) /\ Bears(k, W, w) BY DEF Known
<1>2. u \in Sound(k) BY <1>1, ChangeSound
<1>3. w \in [Concerned(k.setup) -> States] BY <1>1 DEF Sound
<1>4. u[x] = v /\ \A z \in Concerned(k.setup) \ {x} : u[z] = w[z] BY <1>3
<1>5. \A r \in Pledges(k) : Met(r, w) => Met(r, u) BY DEF Upholds
<1>6. x \in Things /\ x \notin Pledges(k)
  <2>1. x \in Things BY DEF Concerned
  <2> QED BY <2>1, ThingsNoPledges
<1> HIDE DEF u
<1>7. ASSUME NEW z \in W, z \in Bearing(k) PROVE u[z] \in Solid(z)
  <2>1. w[z] \in Solid(z) BY <1>1, <1>7 DEF Bears
  <2>2. z \in Concerned(k.setup) BY <1>7, <2>1, NeverBears DEF Bearing
  <2> QED BY <2>1, <2>2, <1>4, <1>7
<1>8. Bears(k, W, u) BY <1>1, <1>5, <1>7 DEF Bears
<1>9. v \in Solid(x) => Bears(k, W \cup {x}, u) BY <1>4, <1>6, <1>8 DEF Bears
<1> QED BY <1>2, <1>8, <1>9 DEF u, Known

\* The worlds that are known and in which x is in one of the states of S; the states
\* that are not left by themselves.
With(k, W, x, S) == {w \in Known(k, W) : w[x] \in S}
Stays(x, S) == \A a \in S : \A b : Turns(x, a, b) => b \in S

\* What turns by itself breaks no pledge.
LEMMA ShiftUpholds ==
  ASSUME NEW k \in Kinds, NEW w \in Sound(k), NEW x \in Concerned(k.setup), NEW b, Turns(x, w[x], b),
         x = "super" /\ w[x] = "off" => w["wcpDown"] = "none",
         x = "workload" /\ w[x] = "off" => w["super"] \in Deployed
  PROVE  Upholds(k, w, x, b)
<1> DEFINE u == [w EXCEPT ![x] = b]
<1>1. w \in [Concerned(k.setup) -> States] /\ \A z \in Concerned(k.setup) : w[z] \in Lives[z] BY DEF Sound
<1>2. u[x] = b /\ \A z \in Concerned(k.setup) : z # x => u[z] = w[z] BY <1>1
<1>3. b \notin {"none", "off", "on"} /\ x \in Things
  <2>1. x \in Things BY DEF Concerned
  <2> QED BY <2>1, <1>1, TurnsKeep
<1> HIDE DEF u
<1>4. Touchy \ {"importCloud", "vcdCloud"} \subseteq Concerned(k.setup)
  BY DEF Touchy, Concerned, Things, Clusters, Supervisor, Plain, Engines, Director, VcdVars
<1>5. ASSUME NEW r \in Pledges(k), Met(r, w) PROVE Met(r, u)
  <2>0. r = "imported" => {"importCloud", "vcdCloud"} \subseteq Concerned(k.setup)
    BY DEF Pledges, Concerned, Things, Director, VcdVars
  <2>1. CASE x \in Engines
    <3>1. x \in {"e1", "e2", "e3", "e4"} /\ w[x] # "connected"
      BY <2>1 DEF Turns, Engines, Controllers, Clusters, Supervisor, Packages, OnShared, OnWorkload
    <3> QED BY <3>1, <2>0, <1>2, <1>4, <1>5 DEF Touchy, Pledges, Met
  <2>2. CASE x \in Clusters \cup Supervisor
    <3>1. /\ x \in {"mgmt", "shared", "workload", "super", "ns"}
          /\ w[x] \in {"creating", "serving", "off"} /\ b \in {"serving", "running", "broken"}
          /\ w[x] # "creating" => b = "running"
      BY <2>2 DEF Turns, Engines, Controllers, Clusters, Supervisor, Packages, OnShared, OnWorkload
    <3>2. CASE x = "super"
      <4>1. r # "shut" => Met(r, u)
        BY <3>1, <3>2, <2>0, <1>2, <1>4, <1>5 DEF Touchy, Pledges, Met, Reachable, Deployed
      <4>2. r = "shut" => Met(r, u)
        BY <3>1, <3>2, <1>2, <1>4, <1>5 DEF Touchy, Met
      <4> QED BY <4>1, <4>2
    <3>3. CASE x = "workload"
      BY <3>1, <3>3, <2>0, <1>2, <1>4, <1>5 DEF Touchy, Pledges, Met, Reachable, Deployed
    <3>4. CASE x \in {"mgmt", "shared", "ns"}
      BY <3>1, <3>4, <2>0, <1>2, <1>4, <1>5 DEF Touchy, Pledges, Met, Reachable, Deployed
    <3> QED BY <3>1, <3>2, <3>3, <3>4
  <2>3. CASE x \notin Engines \cup Clusters \cup Supervisor
    <3>1. x \notin Touchy
      BY <2>3, <1>3 DEF Touchy, Turns, Engines, Controllers, Clusters, Supervisor, Packages, OnShared, OnWorkload
    <3> QED BY <3>1, <1>2, <1>5, MetElsewhere
  <2> QED BY <2>1, <2>2, <2>3
<1>6. x # "ipam" BY DEF Turns, Engines, Controllers, Clusters, Supervisor, Packages, OnShared, OnWorkload
<1> QED BY <1>3, <1>5, <1>6 DEF Upholds, u

\* What is known lasts, whatever goes on outside.
LEMMA ShiftKnown ==
  ASSUME NEW k \in Kinds, NEW W, NEW w \in Known(k, W), NEW u, Shifts(k, w, u)
  PROVE  u \in Known(k, W)
<1>1. PICK x \in Concerned(k.setup), b \in States :
        /\ Turns(x, w[x], b) /\ u = [w EXCEPT ![x] = b]
        /\ x \in Engines /\ w[x] = "none" => w["cloud"] # "none" /\ w[PoolOf(k)] # "none"
        /\ x \in Engines /\ w[x] = "none" => \A e \in Before(k, x) : w[e] # "none"
        /\ x = "super" /\ w[x] = "off" => w["wcpDown"] = "none"
        /\ x = "workload" /\ w[x] = "off" => w["super"] \in Deployed
  BY DEF Shifts
<1>2. /\ w \in Sound(k) /\ w \in [Concerned(k.setup) -> States]
      /\ \A z \in Concerned(k.setup) : w[z] \in Lives[z] /\ (w[z] \in {"off", "on"} => Powers(k, z))
  BY DEF Known, Sound
<1>3. x \in Things BY DEF Concerned
<1>4. /\ b \in Lives[x] /\ (w[x] \in Solid(x) => b \in Solid(x))
      /\ w[x] = "none" => x \in {"defaultCloud", "inventory", "placement", "mgmtAko", "sharedAko", "workAko"}
                                  \cup Engines
  BY <1>1, <1>2, <1>3, TurnsKeep
<1>5. ASSUME w[x] = "none" PROVE \A y \in Needs(k, x) : w[y] \in Solid(y)
  <2>1. CASE x \in Engines
    <3>1. Needs(k, x) = {"cloud", PoolOf(k)} \cup Before(k, x) BY <2>1 DEF Needs, Engines, Dependents
    <3>2. w["cloud"] # "none" /\ w[PoolOf(k)] # "none" BY <1>1, <1>5, <2>1
    <3>3. "cloud" \in Concerned(k.setup) /\ PoolOf(k) \in Concerned(k.setup)
      BY DEF Concerned, Things, Plain, Director, VcdVars, PoolOf
    <3>4. Lives["cloud"] = {"none", "there"} /\ Lives[PoolOf(k)] \subseteq {"none", "short", "there"}
      <4>1. "cloud" \in Things /\ PoolOf(k) \in Things BY <3>3 DEF Concerned
      <4> QED BY <4>1, StatesOf DEF Controllers, Engines, Clusters, Supervisor, Files, Packages, OnShared,
                 OnWorkload, VcdVars, PoolOf
    <3>5. Solid("cloud") = Have /\ (Solid("vipPool") = Have /\ Solid("ipam") = {"short", "there"})
      BY DEF Solid, Controllers, Loose, Engines, Files, VcdVars
    <3>6. w["cloud"] \in Solid("cloud") /\ w[PoolOf(k)] \in Solid(PoolOf(k))
      <4>1. w["cloud"] \in Lives["cloud"] /\ w[PoolOf(k)] \in Lives[PoolOf(k)] BY <3>3, <1>2
      <4>2. Lives["vipPool"] = {"none", "there"}
        <5>1. "vipPool" \in Things BY DEF Things, Plain
        <5> QED BY <5>1, StatesOf DEF Controllers, Engines, Clusters, Supervisor, Files, Packages, OnShared,
                   OnWorkload, VcdVars
      <4> QED BY <4>1, <4>2, <3>2, <3>4, <3>5 DEF Have, PoolOf
    <3>7. ASSUME NEW e \in Before(k, x) PROVE w[e] \in Solid(e)
      <4>1. Orchestrating(k) /\ e \in {"e1", "e3"} BY <2>1, <3>7 DEF Before, Engines
      <4>2. e \in Engines /\ e \in Things /\ e \in Concerned(k.setup)
        BY <4>1 DEF Engines, Concerned, Things, Director, VcdVars
      <4>3. ~ Powers(k, e) BY <4>1 DEF Powers, Engines, Controllers, Supervisor
      <4>4. w[e] \in {"none", "off", "on", "up", "connected"} BY <4>2, <1>2, StatesOf
      <4>5. w[e] \in Listed BY <4>2, <4>3, <4>4, <1>1, <1>2, <1>5, <2>1, <3>7 DEF Listed
      <4>6. Solid(e) = Listed BY <4>1 DEF Solid, Engines, Controllers, Loose, Files, VcdVars
      <4> QED BY <4>5, <4>6
    <3> QED BY <3>1, <3>6, <3>7
  <2>2. CASE x \in {"defaultCloud", "inventory", "placement", "mgmtAko", "sharedAko", "workAko"}
    <3>1. Needs(k, x) = {} BY <2>2 DEF Needs, Engines, Dependents
    <3> QED BY <3>1
  <2> QED BY <2>1, <2>2, <1>4, <1>5
<1>6. Upholds(k, w, x, b) BY <1>1, <1>2, ShiftUpholds
<1> QED BY <1>1, <1>4, <1>5, <1>6, ChangeKnown

\* What is known is well founded and may be relied on.
LEMMA KnownLasts ==
  ASSUME NEW k \in Kinds, NEW W
  PROVE  Known(k, W) \subseteq Sound(k) /\ Lasts(k, Known(k, W))
<1>1. \A v \in Known(k, W) : \A w : Shifts(k, v, w) => w \in Known(k, W) BY ShiftKnown
<1> QED BY <1>1 DEF Known, Lasts

\* So may a state that x does not leave by itself.
LEMMA WithLasts ==
  ASSUME NEW k \in Kinds, NEW W, NEW x \in Concerned(k.setup), NEW S, Stays(x, S)
  PROVE  With(k, W, x, S) \subseteq Sound(k) /\ Lasts(k, With(k, W, x, S))
<1>1. ASSUME NEW v \in With(k, W, x, S), NEW w, Shifts(k, v, w) PROVE w \in With(k, W, x, S)
  <2>1. v \in Known(k, W) /\ v[x] \in S BY DEF With
  <2>2. w \in Known(k, W) BY <1>1, <2>1, ShiftKnown
  <2>3. PICK y \in Concerned(k.setup), b \in States : Turns(y, v[y], b) /\ w = [v EXCEPT ![y] = b]
    BY <1>1 DEF Shifts
  <2>4. v \in [Concerned(k.setup) -> States] BY <2>1 DEF Known, Sound
  <2>5. w[x] \in S
    <3>1. CASE y = x
      <4>1. b \in S BY <3>1, <2>1, <2>3 DEF Stays
      <4> QED BY <4>1, <3>1, <2>3, <2>4
    <3>2. CASE y # x BY <3>2, <2>1, <2>3, <2>4
    <3> QED BY <3>1, <3>2
  <2> QED BY <2>2, <2>5 DEF With
<1>2. Lasts(k, With(k, W, x, S)) BY <1>1 DEF Lasts
<1> QED BY <1>2 DEF With, Known

\* Whatever state x is in, it is in one of its states.
LEMMA WithAny ==
  ASSUME NEW k \in Kinds, NEW W, NEW x \in Concerned(k.setup)
  PROVE  Known(k, W) = With(k, W, x, Lives[x]) /\ Stays(x, Lives[x])
<1>1. x \in Things BY DEF Concerned
<1>2. Stays(x, Lives[x]) BY <1>1, TurnsKeep DEF Stays
<1>3. \A w \in Known(k, W) : w[x] \in Lives[x] BY DEF Known, Sound
<1> QED BY <1>2, <1>3 DEF With

\* More is known of fewer worlds.
LEMMA KnownMore ==
  ASSUME NEW k, NEW V, NEW W, V \subseteq W
  PROVE  Known(k, W) \subseteq Known(k, V)
BY DEF Known, Bears

-----------------------------------------------------------------------------
(* What the calls give.                                                    *)

\* More may be known before, and less be said after.
LEMMA LessGives ==
  ASSUME NEW k, NEW X, NEW p, NEW Y, NEW V, NEW Z, Gives(k, X, p, Y), X \subseteq V, Z \subseteq V \cup Y
  PROVE  Gives(k, V, p, Z)
<1> SUFFICES ASSUME NEW W, V \subseteq W
             PROVE  Leads(k, Known(k, W), p, Known(k, W \cup Z))
  BY DEF Gives
<1>1. Leads(k, Known(k, W), p, Known(k, W \cup Y)) BY DEF Gives
<1>2. Known(k, W \cup Y) \subseteq Known(k, W \cup Z) BY DEF Known, Bears
<1> QED BY <1>1, <1>2, LessLeads

\* One program after the other.
LEMMA ThenGives ==
  ASSUME NEW k, NEW X, NEW p, NEW Y, NEW V, NEW q, NEW Z, NEW U,
         Gives(k, X, p, Y), Gives(k, V, q, Z), V \subseteq X \cup Y, U \subseteq X \cup Y \cup Z
  PROVE  Gives(k, X, p \o q, U)
<1>1. IsProgram(p) /\ IsProgram(q) /\ IsProgram(p \o q) BY JoinProgram DEF Gives
<1>2. ASSUME NEW W, X \subseteq W
      PROVE  Leads(k, Known(k, W), p \o q, Known(k, W \cup U))
  <2>1. Leads(k, Known(k, W), p, Known(k, W \cup Y)) BY <1>2 DEF Gives
  <2>2. V \subseteq W \cup Y BY <1>2
  <2>3. Leads(k, Known(k, W \cup Y), q, Known(k, W \cup Y \cup Z)) BY <2>2 DEF Gives
  <2>4. Leads(k, Known(k, W), p \o q, Known(k, W \cup Y \cup Z)) BY <1>1, <2>1, <2>3, ThenLeads
  <2>5. Known(k, W \cup Y \cup Z) \subseteq Known(k, W \cup U)
    <3>1. W \cup U \subseteq W \cup Y \cup Z BY <1>2
    <3> QED BY <3>1, KnownMore
  <2> QED BY <2>4, <2>5, LessLeads
<1> QED BY <1>1, <1>2 DEF Gives

\* The empty program keeps what is known.
LEMMA NothingGives ==
  ASSUME NEW k, NEW X
  PROVE  Gives(k, X, <<>>, {})
<1>1. \A W : W \cup {} = W OBVIOUS
<1>2. \A W : Leads(k, Known(k, W), <<>>, Known(k, W \cup {})) BY <1>1, NothingLeads
<1> QED BY <1>2, NothingLeads DEF Gives

\* Where x bears, so does what it rests on.
LEMMA NeedsGives ==
  ASSUME NEW k \in Kinds, NEW X, NEW p, NEW Y, Gives(k, X, p, Y),
         NEW x \in Concerned(k.setup), x \in X \cup Y, x \in Bearing(k), x \notin Loose,
         NEW Z, Z \subseteq X \cup Y \cup Needs(k, x)
  PROVE  Gives(k, X, p, Z)
<1> SUFFICES ASSUME NEW W, X \subseteq W
             PROVE  Leads(k, Known(k, W), p, Known(k, W \cup Z))
  BY DEF Gives
<1>1. Leads(k, Known(k, W), p, Known(k, W \cup Y)) BY DEF Gives
<1>2. Known(k, W \cup Y) \subseteq Known(k, W \cup Z)
  <2> SUFFICES ASSUME NEW w \in Known(k, W \cup Y)
               PROVE  w \in Known(k, W \cup Z)
    OBVIOUS
  <2>1. /\ w \in Sound(k)
        /\ \A y \in W \cup Y : y \in Bearing(k) => w[y] \in Solid(y)
        /\ \A r \in (W \cup Y) \cap Pledges(k) : Met(r, w)
    BY DEF Known, Bears
  <2>2. w[x] \in Solid(x) BY <2>1
  <2>3. w[x] # "none"
    <3>1. x \in Things BY DEF Concerned
    <3> QED BY <3>1, <2>2, SolidStates
  <2>4. \A y \in Needs(k, x) : w[y] \in Solid(y) BY <2>1, <2>3 DEF Sound
  <2>5. \A y \in Needs(k, x) : y \notin Pledges(k)
    <3>1. \A y \in Needs(k, x) : y \in Things \cup {"never"} BY NeedsConcerned DEF Concerned
    <3> QED BY <3>1, ThingsNoPledges
  <2>6. Bears(k, W \cup Z, w) BY <2>1, <2>4, <2>5 DEF Bears
  <2> QED BY <2>1, <2>6 DEF Known
<1> QED BY <1>1, <1>2, LessLeads

\* A call that is made and left behind.
LEMMA PlainGives ==
  ASSUME NEW k \in Kinds, NEW X, NEW Y, NEW c,
         c.x \in Concerned(k.setup), c.op \in Plainly,
         c.op = "discard" => c.x \in {"vs", "vsVip"},
         c.op = "copy" => \A v \in Known(k, X) : Written(c.x, "partial", v) \in Sound(k),
         c.op = "try" => Y = {},
         c.op \in {"leave", "quit"} => k.goal = {},
         \A W, v, w : X \subseteq W /\ v \in Known(k, W) /\ Does(c, v, w) => w \in Known(k, W \cup Y)
  PROVE  Gives(k, X, <<c>>, Y)
<1>1. IsProgram(<<c>>)
  <2>1. <<c>> \in Seq({c}) BY SMT
  <2> QED BY <2>1 DEF IsProgram
<1>2. ASSUME NEW W, X \subseteq W PROVE Leads(k, Known(k, W), <<c>>, Known(k, W \cup Y))
  <2> DEFINE P == Known(k, W)
             Q == Known(k, W \cup Y)
  <2>1. P \subseteq Sound(k) /\ Lasts(k, P) BY KnownLasts
  <2>2. P \subseteq Known(k, X) BY <1>2, KnownMore
  <2>3. \A v \in P : \A w : Does(c, v, w) => w \in Q BY <1>2
  <2>4. c.op = "copy" => \A v \in P : Written(c.x, "partial", v) \in Sound(k) BY <2>2
  <2>5. c.op = "try" => P \subseteq Q
    <3>1. c.op = "try" => W \cup Y = W OBVIOUS
    <3> QED BY <3>1
  <2> HIDE DEF P, Q
  <2>6. Leads(k, P, <<c>>, Q)
    <3>1. CASE c.op = "try" BY <2>1, <2>3, <2>5, <3>1, TryLeads
    <3>2. CASE c.op # "try" BY <2>1, <2>3, <2>4, <3>2, PlainLeads
    <3> QED BY <3>1, <3>2
  <2> QED BY <2>6 DEF P, Q
<1> QED BY <1>1, <1>2 DEF Gives

\* The target of a call that makes or sets a thing.
LEMMA TargetIs ==
  ASSUME NEW c, NEW v, c.states = {v}
  PROVE  TargetOf(c) = v
<1>1. (CHOOSE s \in {v} : TRUE) = v OBVIOUS
<1> QED BY <1>1 DEF TargetOf

\* A single call is a program.
LEMMA CallProgram ==
  ASSUME NEW op, NEW x, NEW S, NEW calls
  PROVE  IsProgram(Call(op, x, S, calls))
<1> DEFINE c == [op |-> op, x |-> x, states |-> S, calls |-> calls]
<1>1. <<c>> \in Seq({c}) BY SMT
<1>2. Call(op, x, S, calls) = <<c>> BY DEF Call
<1> QED BY <1>1, <1>2 DEF IsProgram

\* Nothing changes when a thing is looked at, and the request goes on if it is as
\* wanted.
LEMMA LookLeads ==
  ASSUME NEW k \in Kinds, NEW P, P \subseteq Sound(k), Lasts(k, P), NEW x \in Concerned(k.setup),
         NEW S, NEW op \in {"need", "await", "leave"}, op = "leave" => k.goal = {}
  PROVE  Leads(k, P, Call(op, x, S, <<>>), {w \in P : w[x] \in S})
<1> DEFINE c == [op |-> op, x |-> x, states |-> S, calls |-> <<>>]
           Q == {w \in P : w[x] \in S}
<1>1. c.op = op /\ c.x = x /\ c.states = S OBVIOUS
<1>2. \A v, w : Does(c, v, w) => v[x] \in S /\ w = v BY <1>1 DEF Does
<1>3. \A v \in P : \A w : Does(c, v, w) => w \in Q BY <1>2
<1>4. c.op \in Plainly \ {"try"} /\ c.op \notin {"discard", "copy", "quit"} /\ (c.op = "leave" => k.goal = {})
  BY <1>1 DEF Plainly
<1> HIDE DEF c, Q
<1>5. Leads(k, P, <<c>>, Q) BY <1>1, <1>3, <1>4, PlainLeads
<1>6. Call(op, x, S, <<>>) = <<c>> BY DEF Call, c
<1> QED BY <1>5, <1>6 DEF Q

\* A thing is put into a state, whatever it was or from one of the states of S.
LEMMA PutLeads ==
  ASSUME NEW k \in Kinds, NEW W, NEW x \in Concerned(k.setup), NEW S, Stays(x, S), NEW v \in Lives[x],
         v = "none" \/ "none" \notin S \/ Needs(k, x) \subseteq W,
         \A w \in With(k, W, x, S) : Upholds(k, w, x, v),
         \A a \in S : x \in Bearing(k) /\ a \in Solid(x) => v \in Solid(x)
  PROVE  Leads(k, With(k, W, x, S), Put(x, v), With(k, W, x, {v}))
<1>0. PICK c : c = [op |-> "put", x |-> x, states |-> {v}, calls |-> <<>>] OBVIOUS
<1> DEFINE P == With(k, W, x, S)
           Q == With(k, W, x, {v})
<1>1. c.op = "put" /\ c.x = x /\ TargetOf(c) = v /\ Put(x, v) = <<c>>
  <2>1. c.op = "put" /\ c.x = x /\ c.states = {v} BY <1>0
  <2>2. TargetOf(c) = v BY <2>1, TargetIs
  <2>3. Put(x, v) = <<c>> BY <1>0 DEF Put, Call
  <2> QED BY <2>1, <2>2, <2>3
<1>2. P \subseteq Sound(k) /\ Lasts(k, P) BY WithLasts
<1>3. ASSUME NEW u \in P, NEW w, Does(c, u, w) PROVE w \in Q
  <2>1. w = [u EXCEPT ![x] = v] BY <1>1, <1>3 DEF Does
  <2>2. u \in Known(k, W) /\ u[x] \in S BY DEF With
  <2>3. u \in [Concerned(k.setup) -> States] BY <2>2 DEF Known, Sound
  <2>4. w[x] = v BY <2>1, <2>3
  <2>5. u[x] = "none" /\ v # "none" => \A y \in Needs(k, x) : u[y] \in Solid(y)
    BY <2>2, NeedsBear
  <2>6. w \in Known(k, W) BY <2>1, <2>2, <2>5, ChangeKnown
  <2> QED BY <2>4, <2>6 DEF With
<1>4. c.op \in Plainly \ {"try"} /\ c.op \notin {"discard", "copy", "leave", "quit"} BY <1>1 DEF Plainly
<1> HIDE DEF P, Q
<1>5. Leads(k, P, <<c>>, Q) BY <1>1, <1>2, <1>3, <1>4, PlainLeads
<1> QED BY <1>1, <1>5 DEF P, Q

\* A thing is made under a name that must be free.
LEMMA MakeLeads ==
  ASSUME NEW k \in Kinds, NEW W, NEW x \in Concerned(k.setup), NEW v \in Lives[x],
         Needs(k, x) \subseteq W,
         v \in {"off", "on"} => Powers(k, x),
         x \notin {"wcpDown", "importCloud", "ipam"},
         x = "workload" => "shut" \notin Pledges(k) \/ "superUp" \in W
  PROVE  /\ Leads(k, Known(k, W), Make(x, v), Known(k, W))
         /\ x \notin Clusters => Leads(k, Known(k, W), Make(x, v), With(k, W, x, {v}))
<1>0. PICK c : c = [op |-> "make", x |-> x, states |-> {v}, calls |-> <<>>] OBVIOUS
<1> DEFINE P == Known(k, W)
           Q == With(k, W, x, {v})
<1>1. c.op = "make" /\ c.x = x /\ TargetOf(c) = v /\ Make(x, v) = <<c>>
  <2>1. c.op = "make" /\ c.x = x /\ c.states = {v} BY <1>0
  <2>2. TargetOf(c) = v BY <2>1, TargetIs
  <2>3. Make(x, v) = <<c>> BY <1>0 DEF Make, Call
  <2> QED BY <2>1, <2>2, <2>3
<1>2. P \subseteq Sound(k) /\ Lasts(k, P) BY KnownLasts
<1>3. ASSUME NEW u \in P, NEW w, Does(c, u, w) PROVE w \in P /\ (x \notin Clusters => w \in Q)
  <2>1. IF u[x] = "none" THEN w = [u EXCEPT ![x] = v] ELSE x \in Clusters /\ w = u
    BY <1>1, <1>3 DEF Does
  <2>2. u \in [Concerned(k.setup) -> States] BY DEF Known, Sound
  <2>3. CASE u[x] = "none"
    <3>1. w = [u EXCEPT ![x] = v] /\ w[x] = v BY <2>1, <2>2, <2>3
    <3>2. \A y \in Needs(k, x) : u[y] \in Solid(y) BY NeedsBear
    <3>3. u[x] \in Solid(x) => v \in Solid(x)
      <4>1. x \in Things BY DEF Concerned
      <4>2. x \in Loose => Solid(x) = Lives[x]
        BY <4>1 DEF Solid, Loose, Controllers, Engines, Files, VcdVars
      <4> QED BY <4>1, <4>2, <2>3, SolidStates
    <3>4. x = "workload" => "shut" \notin Pledges(k) \/ u["super"] \in Reachable
      <4>1. "shut" \in Pledges(k) => "superUp" \in Pledges(k) BY DEF Pledges
      <4>2. "superUp" \in W \cap Pledges(k) => u["super"] \in Reachable
        <5>1. "superUp" \in W \cap Pledges(k) => Met("superUp", u) BY DEF Known, Bears
        <5> QED BY <5>1 DEF Met
      <4> QED BY <4>1, <4>2
    <3>5. Upholds(k, u, x, v) BY <2>2, <2>3, <3>4, UpholdsMade
    <3>6. w \in Known(k, W) BY <3>1, <3>2, <3>3, <3>5, ChangeKnown
    <3> QED BY <3>1, <3>6 DEF With
  <2>4. CASE u[x] # "none" BY <2>1, <2>4
  <2> QED BY <2>3, <2>4
<1>4. c.op \in Plainly \ {"try"} /\ c.op \notin {"discard", "copy", "leave", "quit"} BY <1>1 DEF Plainly
<1> HIDE DEF P, Q
<1>5. Leads(k, P, <<c>>, P) BY <1>1, <1>2, <1>3, <1>4, PlainLeads
<1>6. x \notin Clusters => Leads(k, P, <<c>>, Q) BY <1>1, <1>2, <1>3, <1>4, PlainLeads
<1> QED BY <1>1, <1>5, <1>6 DEF P, Q

\* A look at a thing, and the calls unless it is as wanted.
LEMMA UnlessLeads ==
  ASSUME NEW k \in Kinds, NEW P, P \subseteq Sound(k), Lasts(k, P), NEW x \in Concerned(k.setup),
         NEW S, NEW p, IsProgram(p), NEW U, NEW Q, Leads(k, U, p, Q),
         \A v \in P : v[x] \in S => v \in Q,
         \A v \in P : v[x] \notin S => v \in U
  PROVE  Leads(k, P, Unless(x, S, p), Q)
<1> DEFINE c == [op |-> "unless", x |-> x, states |-> S, calls |-> p]
<1>1. c.op = "unless" /\ c.x = x /\ c.states = S /\ c.calls = p OBVIOUS
<1>2. Unless(x, S, p) = <<c>> BY DEF Unless, Call
<1>3. c.op \in Branching BY <1>1 DEF Branching
<1> HIDE DEF c
<1>4. Leads(k, P, <<c>>, Q) BY <1>1, <1>3, BranchLeads
<1> QED BY <1>2, <1>4

\* The same where the look may fail, or the calls may be left out.
LEMMA AskLeads ==
  ASSUME NEW k \in Kinds, NEW P, P \subseteq Sound(k), Lasts(k, P), NEW x \in Concerned(k.setup),
         NEW S, NEW p, IsProgram(p), NEW Q, Leads(k, P, p, Q), P \subseteq Q
  PROVE  /\ k.mode # "bare" => Leads(k, P, Ask(x, S, p), Q)
         /\ Leads(k, P, Spare(x, S, p), Q)
<1>1. ASSUME k.mode # "bare" PROVE Leads(k, P, Ask(x, S, p), Q)
  <2> DEFINE c == [op |-> "ask", x |-> x, states |-> S, calls |-> p]
  <2>1. c.op = "ask" /\ c.x = x /\ c.states = S /\ c.calls = p OBVIOUS
  <2>2. Ask(x, S, p) = <<c>> BY DEF Ask, Call
  <2>3. c.op \in Branching BY <2>1 DEF Branching
  <2> HIDE DEF c
  <2>4. Leads(k, P, <<c>>, Q) BY <1>1, <2>1, <2>3, BranchLeads
  <2> QED BY <2>2, <2>4
<1>2. Leads(k, P, Spare(x, S, p), Q)
  <2> DEFINE c == [op |-> "spare", x |-> x, states |-> S, calls |-> p]
  <2>1. c.op = "spare" /\ c.x = x /\ c.states = S /\ c.calls = p OBVIOUS
  <2>2. Spare(x, S, p) = <<c>> BY DEF Spare, Call
  <2>3. c.op \in Branching BY <2>1 DEF Branching
  <2> HIDE DEF c
  <2>4. Leads(k, P, <<c>>, Q) BY <2>1, <2>3, BranchLeads
  <2> QED BY <2>2, <2>4
<1> QED BY <1>1, <1>2

-----------------------------------------------------------------------------
(* The same as rules on what is known.                                     *)

\* What is known is still known after p.
Keeps(k, p) == Gives(k, {}, p, {})

\* A program that leads from what is known to what it keeps.
LEMMA KeepsLeads ==
  ASSUME NEW k, NEW p, IsProgram(p), \A W : Leads(k, Known(k, W), p, Known(k, W))
  PROVE  Keeps(k, p)
<1>1. \A W : W \cup {} = W OBVIOUS
<1> QED BY <1>1, Zenon DEF Keeps, Gives

\* Of what is looked at, what its states tell is known.
LEMMA LookSees ==
  ASSUME NEW k \in Kinds, NEW x \in Concerned(k.setup), NEW S, NEW Y,
         \A w \in Sound(k) : w[x] \in S => Bears(k, Y, w)
  PROVE  /\ Gives(k, {}, Need(x, S), Y) /\ Gives(k, {}, Await(x, S), Y)
         /\ k.goal = {} => Gives(k, {}, Leave(x, S), Y)
<1>1. ASSUME NEW op \in {"need", "await", "leave"}, op = "leave" => k.goal = {}
      PROVE  Gives(k, {}, Call(op, x, S, <<>>), Y)
  <2> DEFINE p == Call(op, x, S, <<>>)
  <2>1. IsProgram(p) BY CallProgram
  <2>2. ASSUME NEW W
        PROVE  Leads(k, Known(k, W), p, Known(k, W \cup Y))
    <3> DEFINE P == Known(k, W)
               Q == {w \in P : w[x] \in S}
    <3>1. Leads(k, P, p, Q) BY <1>1, KnownLasts, LookLeads
    <3>2. Q \subseteq Known(k, W \cup Y) BY DEF Known, Bears
    <3>3. P \subseteq P OBVIOUS
    <3> HIDE DEF P, Q, p
    <3>4. Leads(k, P, p, Known(k, W \cup Y)) BY <3>1, <3>2, <3>3, LessLeads
    <3> QED BY <3>4 DEF P
  <2> HIDE DEF p
  <2>3. Gives(k, {}, p, Y) BY <2>1, <2>2 DEF Gives
  <2> QED BY <2>3 DEF p
<1>2. Need(x, S) = Call("need", x, S, <<>>) BY DEF Need
<1>3. Await(x, S) = Call("await", x, S, <<>>) BY DEF Await
<1>4. Leave(x, S) = Call("leave", x, S, <<>>) BY DEF Leave
<1> QED BY <1>1, <1>2, <1>3, <1>4

\* What is looked at and found as it has to be bears what rests on it.
LEMMA LookGives ==
  ASSUME NEW k \in Kinds, NEW x \in Concerned(k.setup), NEW S
  PROVE  /\ Keeps(k, Need(x, S)) /\ Keeps(k, Await(x, S))
         /\ S \subseteq Solid(x) => Gives(k, {}, Need(x, S), {x}) /\ Gives(k, {}, Await(x, S), {x})
         /\ k.goal = {} => Keeps(k, Leave(x, S)) /\ (S \subseteq Solid(x) => Gives(k, {}, Leave(x, S), {x}))
<1>1. \A w \in Sound(k) : Bears(k, {}, w) BY DEF Bears
<1>2. S \subseteq Solid(x) => \A w \in Sound(k) : w[x] \in S => Bears(k, {x}, w)
  <2>1. x \notin Pledges(k) BY ThingsNoPledges DEF Concerned
  <2> QED BY <2>1 DEF Bears
<1>3. /\ Gives(k, {}, Need(x, S), {}) /\ Gives(k, {}, Await(x, S), {})
      /\ k.goal = {} => Gives(k, {}, Leave(x, S), {})
  BY <1>1, LookSees
<1>4. ASSUME S \subseteq Solid(x)
      PROVE  /\ Gives(k, {}, Need(x, S), {x}) /\ Gives(k, {}, Await(x, S), {x})
             /\ k.goal = {} => Gives(k, {}, Leave(x, S), {x})
  BY <1>2, <1>4, LookSees
<1> QED BY <1>3, <1>4 DEF Keeps

\* So does what is put into such a state, once what it rests on does.
LEMMA PutHolds ==
  ASSUME NEW k \in Kinds, NEW x \in Concerned(k.setup), NEW X, NEW v \in Lives[x],
         v = "none" \/ Needs(k, x) \subseteq X, x \in Bearing(k) => v \in Solid(x),
         \A w \in Known(k, X) : Upholds(k, w, x, v)
  PROVE  Gives(k, X, Put(x, v), {x}) /\ Gives(k, X, Put(x, v), {})
<1> DEFINE p == Put(x, v)
<1>2. IsProgram(p) BY CallProgram DEF Put
<1>3. ASSUME NEW W, X \subseteq W
      PROVE  Leads(k, Known(k, W), p, Known(k, W \cup {x}))
  <2>1. Known(k, W) = With(k, W, x, Lives[x]) /\ Stays(x, Lives[x]) BY WithAny
  <2>2. v = "none" \/ Needs(k, x) \subseteq W BY <1>3
  <2>3. \A w \in With(k, W, x, Lives[x]) : Upholds(k, w, x, v) BY <1>3, KnownMore DEF With
  <2>4. Leads(k, Known(k, W), p, With(k, W, x, {v})) BY <2>1, <2>2, <2>3, PutLeads
  <2>5. With(k, W, x, {v}) \subseteq Known(k, W \cup {x})
    <3>1. x \notin Pledges(k) BY ThingsNoPledges DEF Concerned
    <3> QED BY <3>1 DEF With, Known, Bears
  <2>6. Known(k, W) \subseteq Known(k, W) OBVIOUS
  <2> HIDE DEF p
  <2> QED BY <2>4, <2>5, <2>6, LessLeads
<1> HIDE DEF p
<1>4. Gives(k, X, p, {x}) BY <1>2, <1>3 DEF Gives
<1>5. Gives(k, X, p, {}) BY <1>4, LessGives
<1> QED BY <1>4, <1>5 DEF p

\* A thing is put into a state in which it bears, where what it rests on does.
LEMMA PutGives ==
  ASSUME NEW k \in Kinds, NEW x \in Concerned(k.setup), NEW X, NEW v \in Solid(x),
         v = "none" \/ Needs(k, x) \subseteq X, x \notin Touchy
  PROVE  Gives(k, X, Put(x, v), {x}) /\ Gives(k, X, Put(x, v), {})
<1>1. v \in Lives[x] /\ v \notin {"off", "on"}
  <2>1. x \in Things BY DEF Concerned
  <2> QED BY <2>1, SolidStates
<1>2. \A w \in Known(k, X) : Upholds(k, w, x, v) BY <1>1, UpholdsElsewhere DEF Known, Sound
<1> QED BY <1>1, <1>2, PutHolds

\* The configuration of AKO for the workload cluster, on which nothing rests but in a pipeline.
LEMMA RemoveAdcGives ==
  ASSUME NEW k \in Kinds, ~ InPipeline(k)
  PROVE  Keeps(k, Put("workAdc", "none"))
<1>1. "workAdc" \in Concerned(k.setup) /\ "workAdc" \in Things
  BY DEF Concerned, Things, Plain, Director, VcdVars
<1>2. "none" \in Lives["workAdc"]
  BY <1>1, StatesOf DEF Controllers, Engines, Clusters, Supervisor, Files, Packages, OnShared, OnWorkload, VcdVars
<1>3. "workAdc" \notin Bearing(k) BY DEF Bearing
<1>4. "workAdc" \notin Touchy BY DEF Touchy
<1>5. \A w \in Known(k, {}) : Upholds(k, w, "workAdc", "none") BY <1>4, UpholdsElsewhere DEF Known, Sound
<1> QED BY <1>1, <1>2, <1>3, <1>5, PutHolds DEF Keeps

\* What is made under a name, or was there before.
LEMMA MakeGives ==
  ASSUME NEW k \in Kinds, NEW x \in Concerned(k.setup), NEW X, NEW v \in Lives[x], Needs(k, x) \subseteq X,
         v \notin {"off", "on"}, x \notin {"wcpDown", "importCloud", "ipam"},
         x = "workload" => "shut" \notin Pledges(k) \/ "superUp" \in X
  PROVE  Gives(k, X, Make(x, v), {})
<1> DEFINE p == Make(x, v)
<1>1. IsProgram(p) BY CallProgram DEF Make
<1>2. ASSUME NEW W, X \subseteq W
      PROVE  Leads(k, Known(k, W), p, Known(k, W \cup {}))
  <2>1. Needs(k, x) \subseteq W BY <1>2
  <2>2. Leads(k, Known(k, W), p, Known(k, W)) BY <1>2, <2>1, MakeLeads
  <2>3. W \cup {} = W OBVIOUS
  <2> QED BY <2>2, <2>3
<1> HIDE DEF p
<1>3. Gives(k, X, p, {}) BY <1>1, <1>2 DEF Gives
<1> QED BY <1>3 DEF p

\* No pledge is about the profile, which is made of the VIP network.
LEMMA UpholdsProfile ==
  ASSUME NEW k \in Kinds, NEW W, NEW w \in Known(k, W), NEW v \in {"short", "there"},
         v = "short" \/ "vipPool" \in W
  PROVE  Upholds(k, w, "ipam", v)
<1>1. w \in [Concerned(k.setup) -> States] BY DEF Known, Sound
<1>2. \A y \in Concerned(k.setup) : y \in Touchy \ {"ipam"} => [w EXCEPT !["ipam"] = v][y] = w[y] BY <1>1
<1>3. "vipPool" \in Bearing(k) BY DEF Bearing, Concerned, Things, Plain, Director, VcdVars
<1>4. Solid("vipPool") = Have BY DEF Solid, Controllers, Loose, Engines, Files, VcdVars
<1>5. v = "there" => w["vipPool"] # "none" BY <1>3, <1>4 DEF Known, Bears, Have
<1> QED BY <1>2, <1>5, MetElsewhere DEF Upholds

\* A call that makes what is missing makes it bear.
LEMMA EnsureKnown ==
  ASSUME NEW k \in Kinds, NEW c, c.op \in {"ensure", "quit", "try"}, c.states = {"there"},
         c.x \in Concerned(k.setup), "there" \in Solid(c.x),
         NEW W, c.x \notin Touchy \/ (c.x = "ipam" /\ "vipPool" \in W), Needs(k, c.x) \subseteq W, NEW u \in Known(k, W), NEW w, Does(c, u, w)
  PROVE  w \in Known(k, W) /\ w \in Known(k, W \cup {c.x})
<1>1. PICK x : x = c.x OBVIOUS
<1>2. TargetOf(c) = "there" BY TargetIs
<1>3. w = IF u[x] \in {"there"} THEN u ELSE [u EXCEPT ![x] = "there"] BY <1>1, <1>2 DEF Does
<1>4. CASE u[x] = "there"
  <2>1. x \notin Pledges(k) BY <1>1, ThingsNoPledges DEF Concerned
  <2> QED BY <2>1, <1>1, <1>3, <1>4 DEF Known, Bears
<1>5. CASE u[x] # "there"
  <2>1. \A y \in Needs(k, x) : u[y] \in Solid(y) BY <1>1, NeedsBear
  <2>2. x \in Things /\ "there" \in Lives[x]
    <3>1. x \in Things BY <1>1 DEF Concerned
    <3> QED BY <1>1, <3>1, SolidStates
  <2>3. Upholds(k, u, x, "there")
    <3>1. x \notin Touchy => Upholds(k, u, x, "there") BY <1>1, UpholdsElsewhere DEF Known, Sound
    <3>2. x = "ipam" /\ "vipPool" \in W => Upholds(k, u, x, "there") BY UpholdsProfile
    <3> QED BY <1>1, <3>1, <3>2
  <2> QED BY <1>1, <1>3, <1>5, <2>1, <2>2, <2>3, ChangeKnown
<1> QED BY <1>4, <1>5

\* What is made if it is missing; where a failure ends the attempt nothing is known of it.
LEMMA EnsureGives ==
  ASSUME NEW k \in Kinds, NEW x \in Concerned(k.setup), NEW X, Needs(k, x) \subseteq X, "there" \in Solid(x),
         x \notin Touchy \/ (x = "ipam" /\ "vipPool" \in X)
  PROVE  /\ Gives(k, X, Ensure(x), {x}) /\ Gives(k, X, Ensure(x), {})
         /\ k.goal = {} => Gives(k, X, Quit(x), {x}) /\ Gives(k, X, Quit(x), {})
         /\ Gives(k, X, Try(x), {})
<1>1. ASSUME NEW op \in {"ensure", "quit", "try"}, op = "quit" => k.goal = {}
      PROVE  /\ op # "try" => Gives(k, X, Call(op, x, Have, <<>>), {x})
             /\ Gives(k, X, Call(op, x, Have, <<>>), {})
  <2>0. PICK c : c = [op |-> op, x |-> x, states |-> {"there"}, calls |-> <<>>] OBVIOUS
  <2>1. c.op = op /\ c.x = x /\ c.states = {"there"} BY <2>0
  <2>3. Call(op, x, Have, <<>>) = <<c>> BY <2>0 DEF Call, Have
  <2>4. ASSUME NEW W, X \subseteq W, NEW u \in Known(k, W), NEW w, Does(c, u, w)
        PROVE  w \in Known(k, W) /\ w \in Known(k, W \cup {x})
    BY <2>1, <2>4, EnsureKnown
  <2>5. c.op \in Plainly /\ c.op # "discard" /\ c.op # "copy" /\ (c.op \in {"leave", "quit"} => k.goal = {})
    BY <1>1, <2>1 DEF Plainly
  <2>6. \A W : W \cup {} = W OBVIOUS
  <2>7. Gives(k, X, <<c>>, {}) BY <2>1, <2>4, <2>5, <2>6, PlainGives
  <2>8. op # "try" => Gives(k, X, <<c>>, {x}) BY <2>1, <2>4, <2>5, PlainGives
  <2> QED BY <2>3, <2>7, <2>8
<1>2. Ensure(x) = Call("ensure", x, Have, <<>>) BY DEF Ensure
<1>3. Quit(x) = Call("quit", x, Have, <<>>) BY DEF Quit
<1>4. Try(x) = Call("try", x, Have, <<>>) BY DEF Try
<1> QED BY <1>1, <1>2, <1>3, <1>4

\* Calls that are tried one after the other, the first where the things of X bear.
Tries(k, X, p) ==
  /\ IsProgram(p)
  /\ \A V, W : V \subseteq W /\ X \subseteq W => Attempts(k, Known(k, V), Known(k, W), p, Known(k, V))

\* A call that is tried makes its thing bear for those after it, or they are left out.
LEMMA TriesGive ==
  ASSUME NEW k \in Kinds, NEW x \in Concerned(k.setup), NEW X, Needs(k, x) \subseteq X, "there" \in Solid(x),
         x \notin Touchy
  PROVE  /\ Tries(k, X, Try(x))
         /\ \A p : Tries(k, X \cup {x}, p) => Tries(k, X, Try(x) \o p)
<1>0. PICK c : c = [op |-> "try", x |-> x, states |-> {"there"}, calls |-> <<>>] OBVIOUS
<1>1. c.op = "try" /\ c.x = x /\ c.states = {"there"} BY <1>0
<1>2. Try(x) = <<c>> BY <1>0 DEF Try, Call, Have
<1>3. ASSUME NEW W, X \subseteq W, NEW u \in Known(k, W), NEW w, Does(c, u, w)
      PROVE  w \in Known(k, W) /\ w \in Known(k, W \cup {x})
  <2>1. Needs(k, x) \subseteq W BY <1>3
  <2> QED BY <1>1, <1>3, <2>1, EnsureKnown
<1>4. Tries(k, X, <<c>>)
  <2>1. IsProgram(<<c>>) BY CallProgram, <1>2 DEF Try
  <2>2. ASSUME NEW V, NEW W, V \subseteq W, X \subseteq W
        PROVE  Attempts(k, Known(k, V), Known(k, W), <<c>>, Known(k, V))
    <3>1. Known(k, W) \subseteq Known(k, V) BY <2>2, KnownMore
    <3>2. Known(k, W) \subseteq Sound(k) /\ Lasts(k, Known(k, W)) BY KnownLasts
    <3>3. \A u \in Known(k, W) : \A w : Does(c, u, w) => w \in Known(k, V) BY <2>2, <1>3, <3>1
    <3> QED BY <1>1, <3>1, <3>2, <3>3, AttemptLast
  <2> QED BY <2>1, <2>2 DEF Tries
<1>5. ASSUME NEW p, Tries(k, X \cup {x}, p) PROVE Tries(k, X, <<c>> \o p)
  <2>1. IsProgram(p) /\ IsProgram(<<c>> \o p) BY <1>5, CallFirst DEF Tries
  <2>2. ASSUME NEW V, NEW W, V \subseteq W, X \subseteq W
        PROVE  Attempts(k, Known(k, V), Known(k, W), <<c>> \o p, Known(k, V))
    <3>1. Known(k, W) \subseteq Known(k, V) BY <2>2, KnownMore
    <3>2. Known(k, W) \subseteq Sound(k) /\ Lasts(k, Known(k, W)) BY KnownLasts
    <3>3. \A u \in Known(k, W) : \A w : Does(c, u, w) => w \in Known(k, W \cup {x}) BY <2>2, <1>3
    <3>4. V \subseteq W \cup {x} /\ X \cup {x} \subseteq W \cup {x} BY <2>2
    <3>5. Attempts(k, Known(k, V), Known(k, W \cup {x}), p, Known(k, V)) BY <1>5, <3>4 DEF Tries
    <3> QED BY <1>1, <2>1, <3>1, <3>2, <3>3, <3>5, AttemptMore
  <2> QED BY <2>1, <2>2 DEF Tries
<1> QED BY <1>2, <1>4, <1>5

\* They keep what is known.
LEMMA TriesKeep ==
  ASSUME NEW k, NEW p, Tries(k, {}, p)
  PROVE  Keeps(k, p)
<1>1. \A W : Leads(k, Known(k, W), p, Known(k, W)) BY AttemptsLead DEF Tries
<1> QED BY <1>1, KeepsLeads DEF Tries

\* A command that is followed to its end.
LEMMA WatchGives ==
  ASSUME NEW k \in Kinds, NEW x \in Concerned(k.setup)
  PROVE  Keeps(k, Watch(x))
<1>0. PICK c : c = [op |-> "watch", x |-> x, states |-> {"running"}, calls |-> <<>>] OBVIOUS
<1>1. c.op = "watch" /\ c.x = x BY <1>0
<1>2. Watch(x) = <<c>> BY <1>0 DEF Watch, Call
<1>3. c.op \in Plainly /\ c.op \notin {"discard", "copy", "try", "leave", "quit"} BY <1>1 DEF Plainly
<1>4. \A W, v, w : {} \subseteq W /\ v \in Known(k, W) /\ Does(c, v, w) => w \in Known(k, W \cup {})
  <2>1. \A v, w : Does(c, v, w) => w = v BY <1>1 DEF Does
  <2>2. \A W : W \cup {} = W OBVIOUS
  <2> QED BY <2>1, <2>2
<1>5. Gives(k, {}, <<c>>, {}) BY <1>1, <1>3, <1>4, PlainGives
<1> QED BY <1>2, <1>5 DEF Keeps

\* A virtual service or its address that is removed, or not.
LEMMA DiscardGives ==
  ASSUME NEW k \in Kinds, NEW x \in {"vs", "vsVip"}
  PROVE  Keeps(k, Discard(x))
<1>0. PICK c : c = [op |-> "discard", x |-> x, states |-> {"none"}, calls |-> <<>>] OBVIOUS
<1>1. c.op = "discard" /\ c.x = x BY <1>0
<1>2. Discard(x) = <<c>> BY <1>0 DEF Discard, Call
<1>3. c.op \in Plainly /\ c.op \notin {"copy", "try", "leave", "quit"} BY <1>1 DEF Plainly
<1>4. x \in Concerned(k.setup) /\ x \in Things BY DEF Concerned, Things, Plain, Director, VcdVars
<1>5. "none" \in Lives[x] /\ "none" \in Solid(x)
  BY <1>4, StatesOf DEF Solid, Loose, Controllers, Engines, Clusters, Supervisor, Files, Packages, OnShared,
     OnWorkload, VcdVars
<1>6. \A W, v, w : {} \subseteq W /\ v \in Known(k, W) /\ Does(c, v, w) => w \in Known(k, W \cup {})
  <2>1. \A v, w : Does(c, v, w) => w = v \/ w = [v EXCEPT ![x] = "none"] BY <1>1 DEF Does
  <2>2. \A W : W \cup {} = W OBVIOUS
  <2>3. \A W : \A v \in Known(k, W) : [v EXCEPT ![x] = "none"] \in Known(k, W)
    <3>1. x \notin Touchy BY DEF Touchy
    <3>2. \A W : \A v \in Known(k, W) : Upholds(k, v, x, "none") BY <3>1, UpholdsElsewhere DEF Known, Sound
    <3> QED BY <1>4, <1>5, <3>2, ChangeKnown
  <2> QED BY <2>1, <2>2, <2>3
<1>7. Gives(k, {}, <<c>>, {}) BY <1>1, <1>3, <1>4, <1>6, PlainGives
<1> QED BY <1>2, <1>7 DEF Keeps

\* Files come and go, and nothing rests on them.
LEMMA WrittenKnown ==
  ASSUME NEW k \in Kinds, NEW W, NEW v \in Known(k, W), NEW f \in Files, f \in Concerned(k.setup),
         NEW s \in {"partial", "there"}
  PROVE  Written(f, s, v) \in Known(k, W)
<1> DEFINE w == Written(f, s, v)
<1>1. /\ v \in Sound(k) /\ v \in [Concerned(k.setup) -> States]
      /\ \A x \in Concerned(k.setup) :
           /\ v[x] \in Lives[x] /\ (v[x] \in {"off", "on"} => Powers(k, x))
           /\ v[x] # "none" => \A y \in Needs(k, x) : v[y] \in Solid(y)
      /\ Profiled(v) /\ Bears(k, k.kept, v) /\ Bears(k, W, v)
  BY DEF Known, Sound
<1>2. \A x \in Files : x \in Concerned(k.setup) =>
        {"none", "partial", "there"} \subseteq Lives[x] /\ Solid(x) = Lives[x] /\ Needs(k, x) = {}
  <2> TAKE x \in Files
  <2> HAVE x \in Concerned(k.setup)
  <2>1. x \in Things BY DEF Concerned
  <2>2. {"none", "partial", "there"} \subseteq Lives[x] BY <2>1, StatesOf
  <2>3. Solid(x) = Lives[x] BY DEF Solid, Loose, Controllers, Files, Engines, VcdVars
  <2>4. Needs(k, x) = {} BY DEF Needs, Files, Engines, Dependents
  <2> QED BY <2>2, <2>3, <2>4
<1>3. /\ DOMAIN w = Concerned(k.setup)
      /\ \A x \in Concerned(k.setup) : w[x] = v[x] \/ (x \in Files /\ w[x] \in {"none", "partial", "there"})
  BY <1>1 DEF Written
<1>4. w = [x \in Concerned(k.setup) |-> w[x]] BY <1>1 DEF Written
<1> HIDE DEF w
<1>5. \A x \in Concerned(k.setup) : w[x] \in Lives[x] /\ (w[x] \in {"off", "on"} => Powers(k, x)) BY <1>1, <1>2, <1>3
<1>6. \A x \in Concerned(k.setup) : v[x] \in Solid(x) => w[x] \in Solid(x) BY <1>1, <1>2, <1>3
<1>7. \A r \in Pledges(k) : Met(r, v) => Met(r, w)
  <2>1. \A x \in Concerned(k.setup) : x \in Touchy => w[x] = v[x] BY <1>3 DEF Touchy, Files
  <2> QED BY <2>1, MetElsewhere
<1>8. ASSUME NEW x \in Concerned(k.setup), w[x] # "none", NEW y \in Needs(k, x)
      PROVE  w[y] \in Solid(y)
  <2>1. x \notin Files BY <1>2, <1>8
  <2>2. w[x] = v[x] BY <1>3, <2>1
  <2>3. v[y] \in Solid(y) BY <1>1, <1>8, <2>2
  <2>4. y \in Concerned(k.setup) BY <2>3, NeverBears, NeedsConcerned
  <2> QED BY <1>6, <2>3, <2>4
<1>9. w \in [Concerned(k.setup) -> States]
  <2>1. \A x \in Concerned(k.setup) : w[x] \in States
    <3>1. \A x \in Concerned(k.setup) : x \in Things BY DEF Concerned
    <3> QED BY <3>1, <1>5 DEF States
  <2> QED BY <1>4, <2>1
<1>10. ASSUME NEW V, Bears(k, V, v) PROVE Bears(k, V, w)
  <2>1. ASSUME NEW x \in V, x \in Bearing(k) PROVE w[x] \in Solid(x)
    <3>1. v[x] \in Solid(x) BY <1>10, <2>1 DEF Bears
    <3>2. x \in Concerned(k.setup) BY <2>1, <3>1, NeverBears DEF Bearing
    <3> QED BY <3>1, <3>2, <1>6
  <2> QED BY <2>1, <1>7, <1>10 DEF Bears
<1>11. Bears(k, k.kept, w) /\ Bears(k, W, w) BY <1>1, <1>10
<1>12. w \in Sound(k)
  <2>1. Profiled(w)
    <3>1. "vipPool" \in Concerned(k.setup) /\ "ipam" \in Concerned(k.setup)
      BY DEF Concerned, Things, Plain, Director, VcdVars
    <3>2. w["vipPool"] = v["vipPool"] /\ w["ipam"] = v["ipam"] BY <3>1, <1>3 DEF Files
    <3> QED BY <3>2, <1>1 DEF Profiled
  <2> QED BY <2>1, <1>5, <1>8, <1>9, <1>11 DEF Sound
<1>13. w \in Known(k, W) BY <1>11, <1>12 DEF Known
<1> QED BY <1>13 DEF w

\* A file is downloaded, or half of it.
LEMMA CopyGives ==
  ASSUME NEW k \in Kinds, NEW f \in Files, f \in Concerned(k.setup)
  PROVE  Keeps(k, Copy(f))
<1>0. PICK c : c = [op |-> "copy", x |-> f, states |-> {"there"}, calls |-> <<>>] OBVIOUS
<1>1. c.op = "copy" /\ c.x = f BY <1>0
<1>2. Copy(f) = <<c>> BY <1>0 DEF Copy, Call
<1>3. c.op \in Plainly /\ c.op \notin {"discard", "try", "leave", "quit"} BY <1>1 DEF Plainly
<1>4. \A W, v, w : {} \subseteq W /\ v \in Known(k, W) /\ Does(c, v, w) => w \in Known(k, W \cup {})
  <2>1. \A v, w : Does(c, v, w) => w = Written(f, "there", v) BY <1>1 DEF Does
  <2>2. \A W : W \cup {} = W OBVIOUS
  <2>3. \A W : \A v \in Known(k, W) : Written(f, "there", v) \in Known(k, W) BY WrittenKnown
  <2> QED BY <2>1, <2>2, <2>3
<1>5. \A v \in Known(k, {}) : Written(f, "partial", v) \in Sound(k)
  <2>1. \A v \in Known(k, {}) : Written(f, "partial", v) \in Known(k, {}) BY WrittenKnown
  <2> QED BY <2>1 DEF Known
<1>6. Gives(k, {}, <<c>>, {}) BY <1>1, <1>3, <1>4, <1>5, PlainGives
<1> QED BY <1>2, <1>6 DEF Keeps

\* Calls made unless a thing is as wanted: what the look tells and the calls give.
LEMMA UnlessSees ==
  ASSUME NEW k \in Kinds, NEW x \in Concerned(k.setup), NEW S, NEW X, NEW p, NEW Y, Gives(k, X, p, Y),
         \A w \in Known(k, X) : w[x] \in S => Bears(k, Y, w)
  PROVE  Gives(k, X, Unless(x, S, p), Y)
<1>1. IsProgram(p) /\ IsProgram(Unless(x, S, p)) BY CallProgram DEF Gives, Unless
<1>2. ASSUME NEW W, X \subseteq W
      PROVE  Leads(k, Known(k, W), Unless(x, S, p), Known(k, W \cup Y))
  <2> DEFINE P == Known(k, W)
             Q == Known(k, W \cup Y)
  <2>1. P \subseteq Sound(k) /\ Lasts(k, P) BY KnownLasts
  <2>2. Leads(k, P, p, Q) BY <1>2 DEF Gives
  <2>3. P \subseteq Known(k, X) BY <1>2, KnownMore
  <2>4. \A v \in P : v[x] \in S => v \in Q
    <3> SUFFICES ASSUME NEW v \in P, v[x] \in S PROVE v \in Q
      OBVIOUS
    <3>1. Bears(k, Y, v) BY <2>3
    <3> QED BY <3>1 DEF Known, Bears
  <2> HIDE DEF P, Q
  <2>5. Leads(k, P, Unless(x, S, p), Q) BY <1>1, <2>1, <2>2, <2>4, UnlessLeads
  <2> QED BY <2>5 DEF P, Q
<1> QED BY <1>1, <1>2 DEF Gives

\* If the calls see to it, it is as wanted in any case.
LEMMA UnlessGives ==
  ASSUME NEW k \in Kinds, NEW x \in Concerned(k.setup), NEW S, NEW X, NEW p, NEW Y, Gives(k, X, p, Y)
  PROVE  /\ Gives(k, X, Unless(x, S, p), {}) /\ Gives(k, X, Spare(x, S, p), {})
         /\ k.mode # "bare" => Gives(k, X, Ask(x, S, p), {})
         /\ S \subseteq Solid(x) /\ x \in Y => Gives(k, X, Unless(x, S, p), {x})
<1>1. IsProgram(p) /\ IsProgram(Spare(x, S, p)) /\ IsProgram(Ask(x, S, p)) BY CallProgram DEF Gives, Spare, Ask
<1>2. ASSUME NEW W, X \subseteq W
      PROVE  /\ Leads(k, Known(k, W), Spare(x, S, p), Known(k, W))
             /\ k.mode # "bare" => Leads(k, Known(k, W), Ask(x, S, p), Known(k, W))
  <2> DEFINE P == Known(k, W)
  <2>1. P \subseteq Sound(k) /\ Lasts(k, P) BY KnownLasts
  <2>2. Leads(k, P, p, Known(k, W \cup Y)) BY <1>2 DEF Gives
  <2>3. Known(k, W \cup Y) \subseteq P BY DEF Known, Bears
  <2> HIDE DEF P
  <2>4. P \subseteq P OBVIOUS
  <2>5. Leads(k, P, p, P) BY <2>2, <2>3, <2>4, LessLeads
  <2>6. Leads(k, P, Spare(x, S, p), P) /\ (k.mode # "bare" => Leads(k, P, Ask(x, S, p), P))
    BY <1>1, <2>1, <2>4, <2>5, AskLeads
  <2> QED BY <2>6 DEF P
<1>3. \A W : W \cup {} = W OBVIOUS
<1>4. Gives(k, X, Unless(x, S, p), {})
  <2>1. Gives(k, X, p, {}) BY LessGives
  <2>2. \A w \in Known(k, X) : Bears(k, {}, w) BY DEF Bears
  <2> QED BY <2>1, <2>2, UnlessSees
<1>5. Gives(k, X, Spare(x, S, p), {}) BY <1>1, <1>2, <1>3, Zenon DEF Gives
<1>6. ASSUME k.mode # "bare" PROVE Gives(k, X, Ask(x, S, p), {})
  BY <1>1, <1>2, <1>3, <1>6, Zenon DEF Gives
<1>7. ASSUME S \subseteq Solid(x), x \in Y PROVE Gives(k, X, Unless(x, S, p), {x})
  <2>1. Gives(k, X, p, {x}) BY <1>7, LessGives
  <2>2. x \notin Pledges(k) BY ThingsNoPledges DEF Concerned
  <2>3. \A w \in Known(k, X) : w[x] \in S => Bears(k, {x}, w) BY <1>7, <2>2 DEF Bears
  <2> QED BY <2>1, <2>3, UnlessSees
<1> QED BY <1>4, <1>5, <1>6, <1>7

\* A package is listed only after what it needs.
LEMMA BeginGives ==
  ASSUME NEW k \in Kinds, NEW x \in Packages, x \in Concerned(k.setup), NEW X, Needs(k, x) \subseteq X
  PROVE  Gives(k, X, Begin(x), {})
<1>0. x \in Things BY DEF Concerned
<1>1. Lives[x] = {"none", "creating", "failed", "there"} BY <1>0, StatesOf
<1>2. Stays(x, {"none"}) /\ x \notin Touchy
  BY DEF Stays, Turns, Packages, OnShared, OnWorkload, Controllers, Engines, Clusters, Supervisor, Touchy
<1>3. "none" \notin Solid(x)
  <2>1. x \notin Loose
    BY DEF Loose, Packages, OnShared, OnWorkload, Engines, Files, VcdVars
  <2> QED BY <1>0, <2>1, SolidStates
<1>4. "creating" \in Lives[x] BY <1>1
<1>5. IsProgram(Begin(x)) /\ IsProgram(Put(x, "creating")) BY CallProgram DEF Begin, Unless, Put
<1>6. ASSUME NEW W, X \subseteq W
      PROVE  Leads(k, Known(k, W), Begin(x), Known(k, W))
  <2> DEFINE P == Known(k, W)
             U == With(k, W, x, {"none"})
  <2>1. P \subseteq Sound(k) /\ Lasts(k, P) BY KnownLasts
  <2>2. Needs(k, x) \subseteq W BY <1>6
  <2>3. \A w \in U : Upholds(k, w, x, "creating") BY <1>2, UpholdsElsewhere DEF With, Known, Sound
  <2>4. Leads(k, U, Put(x, "creating"), With(k, W, x, {"creating"}))
    BY <1>2, <1>3, <1>4, <2>2, <2>3, PutLeads
  <2>5. With(k, W, x, {"creating"}) \subseteq P /\ U \subseteq U BY DEF With
  <2>6. Leads(k, U, Put(x, "creating"), P) BY <2>4, <2>5, LessLeads
  <2>7. \A v \in P : v[x] \notin Installed => v \in U BY <1>1 DEF Known, Sound, With, Installed
  <2> HIDE DEF P, U
  <2>8. Leads(k, P, Unless(x, Installed, Put(x, "creating")), P)
    BY <1>5, <2>1, <2>6, <2>7, UnlessLeads
  <2> QED BY <2>8 DEF P, Begin
<1>7. \A W : W \cup {} = W OBVIOUS
<1> QED BY <1>5, <1>6, <1>7 DEF Gives

\* A controller or an engine is imported once, powered off, and powered on.
LEMMA PowerGives ==
  ASSUME NEW k \in Kinds, NEW c \in Controllers \cup Engines, Powers(k, c), NEW X, NEW q, NEW Y, Gives(k, X, q, Y),
         Needs(k, c) \subseteq X \cup Y
  PROVE  Gives(k, X, q \o Make(c, "off") \o Put(c, "on"), Y)
<1>0. /\ c \in Things /\ c \in Concerned(k.setup)
      /\ c \notin Clusters \cup {"wcpDown", "importCloud", "workload", "ipam"}
  BY DEF Controllers, Engines, Things, Concerned, Director, VcdVars, Clusters
<1>1. {"none", "off", "on", "up"} \subseteq Lives[c] /\ "off" \notin Solid(c)
  <2>1. {"none", "off", "on", "up"} \subseteq Lives[c] BY <1>0, StatesOf
  <2>2. c \in Controllers => Solid(c) = {"up"} BY DEF Solid, Loose, Controllers, Engines, Files, VcdVars
  <2>3. c \in Engines => Solid(c) = Listed BY DEF Solid, Loose, Controllers, Engines, Files, VcdVars
  <2> QED BY <2>1, <2>2, <2>3 DEF Listed
<1>2. Stays(c, {"off"})
  BY <1>0 DEF Stays, Turns, Packages, OnShared, OnWorkload, Controllers, Engines, Clusters, Supervisor
<1>3. IsProgram(q) /\ IsProgram(Make(c, "off")) /\ IsProgram(Put(c, "on"))
  BY CallProgram DEF Gives, Make, Put
<1>4. IsProgram(q \o Make(c, "off")) BY <1>3, JoinProgram
<1>5. IsProgram(q \o Make(c, "off") \o Put(c, "on")) BY <1>3, <1>4, JoinProgram
<1>6. ASSUME NEW W, X \subseteq W
      PROVE  Leads(k, Known(k, W), q \o Make(c, "off") \o Put(c, "on"), Known(k, W \cup Y))
  <2> DEFINE U == With(k, W \cup Y, c, {"off"})
  <2>0. Needs(k, c) \subseteq W \cup Y BY <1>6
  <2>1. Leads(k, Known(k, W), q, Known(k, W \cup Y)) BY <1>6 DEF Gives
  <2>2. Leads(k, Known(k, W \cup Y), Make(c, "off"), U) BY <1>0, <1>1, <2>0, MakeLeads
  <2>3. \A w \in U : Upholds(k, w, c, "on") BY UpholdsPower DEF With, Known, Sound
  <2>4. Leads(k, U, Put(c, "on"), With(k, W \cup Y, c, {"on"})) BY <1>0, <1>1, <1>2, <2>3, PutLeads
  <2>5. With(k, W \cup Y, c, {"on"}) \subseteq Known(k, W \cup Y) /\ U \subseteq U BY DEF With
  <2> HIDE DEF U
  <2>6. Leads(k, U, Put(c, "on"), Known(k, W \cup Y)) BY <2>4, <2>5, LessLeads
  <2>7. Leads(k, Known(k, W), q \o Make(c, "off"), U) BY <1>3, <2>1, <2>2, ThenLeads
  <2> QED BY <1>3, <1>4, <2>6, <2>7, ThenLeads
<1> QED BY <1>5, <1>6 DEF Gives

\* What there is of a supervisor is shut down, where nothing is pledged of that.
LEMMA UpholdsShutDown ==
  ASSUME NEW k \in Kinds, ~ k.whole, k.setup = "tkgs", NEW x \in {"super", "workload"},
         NEW w \in [Concerned(k.setup) -> States],
         w[x] # "none"
  PROVE  Upholds(k, w, x, "off")
<1>1. Powers(k, x) BY DEF Powers, Supervisor
<1>2. ASSUME NEW r \in Pledges(k), Met(r, w) PROVE Met(r, [w EXCEPT ![x] = "off"])
  <2> DEFINE u == [w EXCEPT ![x] = "off"]
  <2>1. Touchy \ {"importCloud", "vcdCloud"} \subseteq Concerned(k.setup)
    BY DEF Touchy, Concerned, Things, Clusters, Supervisor, Plain, Engines, Director, VcdVars
  <2>2. u[x] = "off" /\ \A y \in Concerned(k.setup) : y # x => u[y] = w[y] BY <2>1 DEF Touchy
  <2> HIDE DEF u
  <2>3. Met(r, u) BY <1>2, <2>1, <2>2 DEF Touchy, Pledges, Met
  <2> QED BY <2>3 DEF u
<1> QED BY <1>1, <1>2 DEF Upholds

\* On a supervisor what was started is shut down, where no pledge is about its power.
LEMMA ShutDownGives ==
  ASSUME NEW k \in Kinds, ~ k.whole, k.setup = "tkgs", NEW x \in {"super", "workload"}
  PROVE  Keeps(k, ShutDown(x))
<1>0. x \in Things /\ x \in Concerned(k.setup)
  BY DEF Things, Clusters, Supervisor, Concerned, Director, VcdVars
<1>1. /\ Lives[x] = {"none", "creating", "serving", "running", "broken", "off"}
      /\ "off" \in Solid(x)
  BY <1>0, StatesOf DEF Clusters, Supervisor, Solid, Started, Deployed, Controllers, Loose, Engines, Files, VcdVars
<1> DEFINE S == {"none", "broken", "off"}
           T == Lives[x] \ {"none"}
<1>2. Stays(x, T) BY <1>0, TurnsKeep DEF Stays
<1>3. IsProgram(ShutDown(x)) /\ IsProgram(Put(x, "off")) BY CallProgram DEF ShutDown, Unless, Put
<1>4. ASSUME NEW W
      PROVE  Leads(k, Known(k, W), ShutDown(x), Known(k, W))
  <2> DEFINE P == Known(k, W)
             U == With(k, W, x, T)
  <2>1. P \subseteq Sound(k) /\ Lasts(k, P) BY KnownLasts
  <2>2. \A w \in U : Upholds(k, w, x, "off") BY UpholdsShutDown DEF With, Known, Sound
  <2>3. Leads(k, U, Put(x, "off"), With(k, W, x, {"off"})) BY <1>0, <1>1, <1>2, <2>2, PutLeads
  <2>4. With(k, W, x, {"off"}) \subseteq P /\ U \subseteq U BY DEF With
  <2>5. Leads(k, U, Put(x, "off"), P) BY <2>3, <2>4, LessLeads
  <2>6. \A v \in P : v[x] \notin S => v \in U BY <1>0 DEF Known, Sound, With
  <2> HIDE DEF P, U, S, T
  <2>7. Leads(k, P, Unless(x, S, Put(x, "off")), P) BY <1>0, <1>3, <2>1, <2>5, <2>6, UnlessLeads
  <2> QED BY <2>7 DEF P, S, ShutDown
<1> QED BY <1>3, <1>4, KeepsLeads

\* What is kept by one program and then another.
LEMMA KeepsThen ==
  ASSUME NEW k, NEW p, NEW q, Keeps(k, p), Keeps(k, q)
  PROVE  Keeps(k, p \o q)
BY ThenGives, Zenon DEF Keeps

\* What is known after p is known after a program that keeps it, before and behind.
LEMMA GivesKept ==
  ASSUME NEW k, NEW X, NEW p, NEW Y, NEW q, Gives(k, X, p, Y), Keeps(k, q)
  PROVE  Gives(k, X, p \o q, Y) /\ Gives(k, X, q \o p, Y)
<1>1. Gives(k, {}, q, {}) BY DEF Keeps
<1>2. Gives(k, X, p \o q, Y) BY <1>1, ThenGives
<1>3. Gives(k, X, q, {}) BY <1>1, LessGives
<1>4. Gives(k, X, q \o p, Y) BY <1>3, ThenGives
<1> QED BY <1>2, <1>4

=============================================================================
