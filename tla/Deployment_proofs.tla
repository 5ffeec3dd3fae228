-------------------------- MODULE Deployment_proofs --------------------------
(***************************************************************************)
(* Whatever is posted, fails or goes on by itself, the world of a           *)
(* deployment has the things it should and nothing is built on something    *)
(* missing; what a stage has to show when it is answered with 200 is kept.  *)
(* The calls that a request has left have an outline that holds of the      *)
(* world, or they delete a cluster; the stages' programs have outlines by   *)
(* StageOutlines.                                                           *)
(***************************************************************************)
EXTENDS StageOutlines

\* From world w the calls of p can be made, whatever goes on meanwhile.
Carried(k, w, p) == \E P : w \in P /\ Outlined(k, P, p)

-----------------------------------------------------------------------------
(* What an outline that holds says of the world and of the next call.      *)

\* The worlds of an outline are well founded, and its programs are programs.
LEMMA CarriedSound ==
  ASSUME NEW k, NEW w, NEW p, Carried(k, w, p)
  PROVE  w \in Sound(k) /\ IsProgram(p)
<1>1. PICK P, A, R : w \in P /\ IsOutline(k, A) /\ <<R, p>> \in A /\ P \subseteq R BY DEF Carried, Outlined
<1>2. IsProgram(p) /\ R \subseteq Sound(k) BY <1>1 DEF IsOutline
<1> QED BY <1>1, <1>2

\* Where no calls are left the goal is reached.
LEMMA CarriedEmpty ==
  ASSUME NEW k \in Kinds
  PROVE  /\ \A w : Carried(k, w, <<>>) <=> w \in Reached(k)
         /\ Outlined(k, Reached(k), <<>>)
         /\ k.goal = {} => Reached(k) = Sound(k)
<1>1. Reached(k) \subseteq Sound(k) BY DEF Reached, Known
<1>2. Lasts(k, Reached(k)) BY KnownLasts DEF Reached
<1> DEFINE A == {<<Reached(k), <<>>>>}
<1>3. IsProgram(<<>>) BY NothingLeads
<1>4. \A P, p : <<P, p>> \in A => P = Reached(k) /\ p = <<>> OBVIOUS
<1>5. IsOutline(k, A) BY <1>1, <1>2, <1>3, <1>4 DEF IsOutline
<1>6. <<Reached(k), <<>>>> \in A OBVIOUS
<1> HIDE DEF A
<1>7. Outlined(k, Reached(k), <<>>) BY <1>1, <1>5, <1>6 DEF Outlined
<1>8. ASSUME NEW w, Carried(k, w, <<>>) PROVE w \in Reached(k)
  <2>1. PICK P, B, R : w \in P /\ IsOutline(k, B) /\ <<R, <<>>>> \in B /\ P \subseteq R BY <1>8 DEF Carried, Outlined
  <2> QED BY <2>1 DEF IsOutline
<1>9. k.goal = {} => Reached(k) = Sound(k) BY DEF Reached, Known, Bears
<1> QED BY <1>7, <1>8, <1>9 DEF Carried

\* From well-founded worlds program p leads to the goal.
Safe(k, p) == IsProgram(p) /\ Leads(k, Known(k, {}), p, Reached(k))

\* Then its calls can be made.
LEMMA CarriedSafe ==
  ASSUME NEW k \in Kinds, NEW w \in Sound(k), NEW p, Safe(k, p)
  PROVE  Carried(k, w, p)
<1>1. IsProgram(p) /\ Leads(k, Known(k, {}), p, Reached(k)) BY DEF Safe
<1>2. Outlined(k, Reached(k), <<>>) /\ IsProgram(<<>>) BY CarriedEmpty, NothingLeads
<1>3. Outlined(k, Known(k, {}), p \o <<>>) BY <1>1, <1>2 DEF Leads
<1>4. p \o <<>> = p BY <1>1, JoinEmpty
<1>5. w \in Known(k, {}) BY DEF Known, Bears
<1> QED BY <1>3, <1>4, <1>5 DEF Carried

\* The program of a stage keeps what is kept, and leads to what the stage has to show.
LEMMA StageSafe ==
  ASSUME NEW k \in Kinds, k.mode # "bare", setup = k.setup, NEW s \in Stages,
         \/ k.goal = {} /\ (~ k.whole \/ s \notin {"shutdown", "cloud"})
         \/ k.kept = {} /\ \E y \in Own(s) : k.goal = {y}
  PROVE  Safe(k, Program(s))
<1>1. CASE k.goal = {} /\ (~ k.whole \/ s \notin {"shutdown", "cloud"}) BY <1>1, ProgramKeeps DEF Safe, Reached
<1>2. ASSUME k.kept = {}, NEW y \in Own(s), k.goal = {y} PROVE Safe(k, Program(s))
  BY <1>2, ProgramGives DEF Safe, Reached
<1> QED BY <1>1, <1>2

\* What goes on outside leaves the outline valid.
LEMMA CarriedShifts ==
  ASSUME NEW k, NEW w, NEW p, Carried(k, w, p), NEW u, Shifts(k, w, u)
  PROVE  Carried(k, u, p)
<1>1. PICK P, A, R : w \in P /\ IsOutline(k, A) /\ <<R, p>> \in A /\ P \subseteq R BY DEF Carried, Outlined
<1>2. Lasts(k, R) BY <1>1 DEF IsOutline
<1>3. u \in R BY <1>1, <1>2 DEF Lasts
<1>4. R \subseteq R OBVIOUS
<1>5. Outlined(k, R, p) BY <1>1, <1>4 DEF Outlined
<1> QED BY <1>3, <1>5 DEF Carried

\* An outline under stricter demands is one under weaker demands.
LEMMA CarriedLoosely ==
  ASSUME NEW k \in Kinds, NEW j \in Kinds, k.setup = j.setup, Sound(k) \subseteq Sound(j), j.mode # "bare",
         k.goal = {}, j.goal = {}, NEW w, NEW p, Carried(k, w, p)
  PROVE  Carried(j, w, p)
<1>1. PICK P, A, R : w \in P /\ IsOutline(k, A) /\ <<R, p>> \in A /\ P \subseteq R BY DEF Carried, Outlined
<1>2. \A v, u : Shifts(k, v, u) <=> Shifts(j, v, u) BY DEF Shifts, PoolOf, Before, InPipeline, Orchestrating
<1>3. Reached(j) = Sound(j) BY CarriedEmpty
<1>4. ASSUME NEW Q, NEW q, <<Q, q>> \in A
      PROVE  /\ IsProgram(q) /\ Q \subseteq Sound(j) /\ Lasts(j, Q)
             /\ q = <<>> => Q \subseteq Reached(j)
             /\ q # <<>> => Serves(j, A, Q, Head(q), q, Tail(q))
  <2>1. /\ IsProgram(q) /\ Q \subseteq Sound(k) /\ Lasts(k, Q)
        /\ q # <<>> => Serves(k, A, Q, Head(q), q, Tail(q))
    BY <1>1, <1>4 DEF IsOutline
  <2>2. Q \subseteq Sound(j) BY <2>1
  <2>3. Lasts(j, Q) BY <1>2, <2>1 DEF Lasts
  <2>4. ASSUME q # <<>> PROVE Serves(j, A, Q, Head(q), q, Tail(q))
    <3>1. Serves(k, A, Q, Head(q), q, Tail(q)) BY <2>1, <2>4
    <3>2. Sound(k) \subseteq Sound(j) /\ k.setup = j.setup /\ j.mode # "bare" /\ j.goal = {} OBVIOUS
    <3> QED BY <3>1, <3>2 DEF Serves
  <2> QED BY <1>3, <2>1, <2>2, <2>3, <2>4
<1>5. IsOutline(j, A) BY <1>4 DEF IsOutline
<1> QED BY <1>1, <1>5 DEF Carried, Outlined

\* What the next call of an outline that holds does, and what comes then.
LEMMA CarriedNext ==
  ASSUME NEW k, NEW w, NEW p, Carried(k, w, p), p # <<>>, NEW c, c = Head(p)
  PROVE  /\ w \in Sound(k) /\ c.x \in Concerned(k.setup) /\ c.op \in Plainly \cup Branching
         /\ c.op \in Plainly => \A u : Does(c, w, u) => Carried(k, u, Tail(p))
         /\ c.op \in Branching /\ (w[c.x] \in c.states \/ c.op = "spare") => Carried(k, w, Tail(p))
         /\ c.op \in Branching /\ (w[c.x] \notin c.states \/ c.op = "ask") => Carried(k, w, c.calls \o Tail(p))
         /\ c.op = "discard" => c.x \in {"vs", "vsVip"}
         /\ c.op = "copy" => Written(c.x, "partial", w) \in Sound(k)
         /\ c.op = "ask" => k.mode # "bare"
         /\ c.op \in {"leave", "quit"} => k.goal = {}
         /\ c.op = "try" => Carried(k, w, AfterTries(p))
<1>1. PICK P, A, R : w \in P /\ IsOutline(k, A) /\ <<R, p>> \in A /\ P \subseteq R BY DEF Carried, Outlined
<1>2. w \in R BY <1>1
<1>3. R \subseteq Sound(k) /\ Serves(k, A, R, c, p, Tail(p)) BY <1>1 DEF IsOutline
<1>4. ASSUME NEW Q, NEW q, <<Q, q>> \in A, NEW u \in Q PROVE Carried(k, u, q)
  <2>1. Q \subseteq Q OBVIOUS
  <2>2. Outlined(k, Q, q) BY <1>1, <1>4, <2>1 DEF Outlined
  <2> QED BY <2>2 DEF Carried
<1>5. /\ c.x \in Concerned(k.setup) /\ c.op \in Plainly \cup Branching
      /\ c.op = "discard" => c.x \in {"vs", "vsVip"}
      /\ c.op = "copy" => Written(c.x, "partial", w) \in Sound(k)
      /\ c.op = "ask" => k.mode # "bare"
      /\ c.op \in {"leave", "quit"} => k.goal = {}
  BY <1>2, <1>3 DEF Serves
<1>6. ASSUME c.op \in Plainly, NEW u, Does(c, w, u) PROVE Carried(k, u, Tail(p))
  <2>1. PICK Q : <<Q, Tail(p)>> \in A /\ \A v \in R : \A x : Does(c, v, x) => x \in Q BY <1>3, <1>6 DEF Serves
  <2>2. u \in Q BY <1>2, <1>6, <2>1
  <2> QED BY <1>4, <2>1, <2>2
<1>7. ASSUME c.op \in Branching, w[c.x] \in c.states \/ c.op = "spare" PROVE Carried(k, w, Tail(p))
  <2>1. PICK Q : <<Q, Tail(p)>> \in A /\ \A v \in R : v[c.x] \in c.states \/ c.op = "spare" => v \in Q
    BY <1>3, <1>7 DEF Serves
  <2>2. w \in Q BY <1>2, <1>7, <2>1
  <2> QED BY <1>4, <2>1, <2>2
<1>8. ASSUME c.op \in Branching, w[c.x] \notin c.states \/ c.op = "ask" PROVE Carried(k, w, c.calls \o Tail(p))
  <2>1. PICK Q : <<Q, c.calls \o Tail(p)>> \in A /\ \A v \in R : v[c.x] \notin c.states \/ c.op = "ask" => v \in Q
    BY <1>3, <1>8 DEF Serves
  <2>2. w \in Q BY <1>2, <1>8, <2>1
  <2> QED BY <1>4, <2>1, <2>2
<1>9. ASSUME c.op = "try" PROVE Carried(k, w, AfterTries(p))
  <2>1. PICK Q : <<Q, AfterTries(p)>> \in A /\ R \subseteq Q BY <1>3, <1>9 DEF Serves
  <2>2. w \in Q BY <1>2, <2>1
  <2> QED BY <1>4, <2>1, <2>2
<1> QED BY <1>2, <1>3, <1>5, <1>6, <1>7, <1>8, <1>9

-----------------------------------------------------------------------------
(* What is asked of the world.                                             *)

\* What is asked of what guest clusters are made from.
Asking(s, m) == [setup |-> s, mode |-> m, whole |-> FALSE, kept |-> {}, goal |-> {}]
Firm == Asking(setup, "firm")
Bare == Asking(setup, "bare")
Lost == Asking(setup, "lost")

\* That thing x is kept, or is to be set up.
Frail == {"superRuns", "shut", "imported"}
Keeping(x) == [setup |-> setup, mode |-> "lost", whole |-> x \in Frail, kept |-> {x}, goal |-> {}]
Aiming(x) == [setup |-> setup, mode |-> "lost", whole |-> x \in Frail, kept |-> {}, goal |-> {x}]

\* The less is asked, the more worlds there are.
LEMMA SoundLoosens ==
  ASSUME NEW k, NEW j, k.setup = j.setup, NEW w \in Sound(k), Bears(j, j.kept, w),
         \A x \in Concerned(k.setup) : w[x] # "none" => \A y \in Needs(j, x) : w[y] \in Solid(y)
  PROVE  w \in Sound(j)
<1>1. \A x : Powers(k, x) <=> Powers(j, x) BY DEF Powers, Orchestrating
<1> QED BY <1>1 DEF Sound

\* The fewer guest clusters, and the less is asked, the more worlds there are.
LEMMA KindsLoosen ==
  ASSUME NEW s \in SetupKinds
  PROVE  /\ \A m \in Modes : Asking(s, m) \in Kinds
         /\ Sound(Asking(s, "bare")) \subseteq Sound(Asking(s, "firm"))
         /\ Sound(Asking(s, "firm")) \subseteq Sound(Asking(s, "lost"))
<1> DEFINE b == Asking(s, "bare")
           f == Asking(s, "firm")
           l == Asking(s, "lost")
<1>1. \A m \in Modes : Asking(s, m) \in Kinds BY DEF Kinds, Asking
<1>2. /\ b.setup = s /\ f.setup = s /\ l.setup = s
      /\ b.mode = "bare" /\ f.mode = "firm" /\ l.mode = "lost"
      /\ f.kept = {} /\ l.kept = {}
  BY DEF Asking
<1> HIDE DEF b, f, l
<1>3. OnGuest(b) = {"never"} /\ OnGuest(l) = {} BY <1>2 DEF OnGuest
<1>4. \A x : Before(b, x) = Before(f, x) /\ Before(f, x) = Before(l, x) BY <1>2 DEF Before, InPipeline, Orchestrating
<1>5. \A x : x \notin Dependents => Needs(b, x) = Needs(f, x) /\ Needs(f, x) = Needs(l, x) BY <1>2, <1>4 DEF Needs
<1>6. \A x \in Dependents : /\ "never" \in Needs(b, x) /\ Needs(l, x) \subseteq Needs(f, x)
  BY <1>3, <1>4 DEF Needs, Dependents, Engines
<1>7. Solid("never") = {} BY NeverBears
<1>8. \A w : Bears(f, f.kept, w) /\ Bears(l, l.kept, w) BY <1>2 DEF Bears
<1>9. Sound(b) \subseteq Sound(f)
  <2> SUFFICES ASSUME NEW w \in Sound(b) PROVE w \in Sound(f) OBVIOUS
  <2>1. ASSUME NEW x \in Concerned(s), w[x] # "none" PROVE \A y \in Needs(f, x) : w[y] \in Solid(y)
    <3>1. \A y \in Needs(b, x) : w[y] \in Solid(y) BY <1>2, <2>1 DEF Sound
    <3>2. x \notin Dependents BY <1>6, <1>7, <3>1
    <3> QED BY <1>5, <3>1, <3>2
  <2> QED BY <1>2, <1>8, <2>1, SoundLoosens
<1>10. Sound(f) \subseteq Sound(l)
  <2> SUFFICES ASSUME NEW w \in Sound(f) PROVE w \in Sound(l) OBVIOUS
  <2>1. ASSUME NEW x \in Concerned(s), w[x] # "none" PROVE \A y \in Needs(l, x) : w[y] \in Solid(y)
    <3>1. \A y \in Needs(f, x) : w[y] \in Solid(y) BY <1>2, <2>1 DEF Sound
    <3> QED BY <1>5, <1>6, <3>1
  <2> QED BY <1>2, <1>8, <2>1, SoundLoosens
<1> QED BY <1>1, <1>9, <1>10 DEF b, f, l

\* What is aimed at is asked of no other world than nothing is, and where it is reached it
\* can be kept.
LEMMA KeepingKinds ==
  ASSUME setup \in SetupKinds, NEW x \in Promises \ Shaky
  PROVE  /\ Keeping(x) \in Kinds /\ Aiming(x) \in Kinds
         /\ Keeping(x).setup = setup /\ Aiming(x).setup = setup
         /\ Keeping(x).mode # "bare" /\ Aiming(x).mode # "bare"
         /\ Sound(Lost) \subseteq Sound(Aiming(x)) /\ Sound(Keeping(x)) \subseteq Sound(Lost)
         /\ Reached(Aiming(x)) \subseteq Sound(Keeping(x))
<1> DEFINE k == Keeping(x)
           a == Aiming(x)
           l == Lost
<1>1. k \in Kinds /\ a \in Kinds BY DEF Kinds, Modes, Keeping, Aiming
<1>2. /\ k.setup = setup /\ a.setup = setup /\ l.setup = setup
      /\ k.mode = "lost" /\ a.mode = "lost" /\ l.mode = "lost"
      /\ k.kept = {x} /\ a.kept = {} /\ l.kept = {} /\ a.goal = {x} /\ a.whole = k.whole
  BY DEF Keeping, Aiming, Lost, Asking
<1> HIDE DEF k, a, l
<1>3. \A y : Needs(k, y) = Needs(l, y) /\ Needs(a, y) = Needs(l, y)
  BY <1>2 DEF Needs, OnGuest, Before, InPipeline, Orchestrating
<1>4. \A w : Bears(a, a.kept, w) /\ Bears(l, l.kept, w) BY <1>2 DEF Bears
<1>5. \A w : Bears(a, {x}, w) => Bears(k, k.kept, w) BY <1>2 DEF Bears, Bearing, InPipeline, Pledges
<1>6. Sound(l) \subseteq Sound(a)
  <2> SUFFICES ASSUME NEW w \in Sound(l) PROVE w \in Sound(a) OBVIOUS
  <2>1. \A y \in Concerned(l.setup) : w[y] # "none" => \A z \in Needs(a, y) : w[z] \in Solid(z) BY <1>3 DEF Sound
  <2> QED BY <1>2, <1>4, <2>1, SoundLoosens
<1>7. Sound(k) \subseteq Sound(l)
  <2> SUFFICES ASSUME NEW w \in Sound(k) PROVE w \in Sound(l) OBVIOUS
  <2>1. \A y \in Concerned(k.setup) : w[y] # "none" => \A z \in Needs(l, y) : w[z] \in Solid(z) BY <1>3 DEF Sound
  <2> QED BY <1>2, <1>4, <2>1, SoundLoosens
<1>8. Reached(a) \subseteq Sound(k)
  <2> SUFFICES ASSUME NEW w \in Reached(a) PROVE w \in Sound(k) OBVIOUS
  <2>1. w \in Sound(a) /\ Bears(a, {x}, w) BY <1>2 DEF Reached, Known
  <2>2. \A y \in Concerned(a.setup) : w[y] # "none" => \A z \in Needs(k, y) : w[z] \in Solid(z) BY <1>3, <2>1 DEF Sound
  <2> QED BY <1>2, <1>5, <2>1, <2>2, SoundLoosens
<1> QED BY <1>1, <1>2, <1>6, <1>7, <1>8 DEF k, a, l

\* While the management cluster does not run there is no guest cluster.
LEMMA NoGuests ==
  ASSUME NEW s \in SetupKinds \ Supervised, NEW w \in Sound(Asking(s, "firm")), w["mgmt"] \notin Deployed
  PROVE  w \in Sound(Asking(s, "bare"))
<1> DEFINE b == Asking(s, "bare")
           f == Asking(s, "firm")
<1>1. b.setup = s /\ f.setup = s /\ b.mode = "bare" /\ f.mode = "firm" /\ b.kept = {} BY DEF Asking
<1>2. w \in Sound(f) OBVIOUS
<1> HIDE DEF b, f
<1>3. \A x : x \notin Dependents => Needs(b, x) = Needs(f, x)
  BY <1>1 DEF Needs, Before, InPipeline, Orchestrating
<1>4. OnGuest(f) = {"mgmt"} BY <1>1 DEF OnGuest
<1>5. \A x \in Dependents : "mgmt" \in Needs(f, x) BY <1>4 DEF Needs, Dependents, Engines
<1>6. Solid("mgmt") = Deployed BY DEF Solid, Controllers, Loose, Engines, Files, VcdVars
<1>7. ASSUME NEW x \in Concerned(s), w[x] # "none" PROVE \A y \in Needs(b, x) : w[y] \in Solid(y)
  <2>1. \A y \in Needs(f, x) : w[y] \in Solid(y) BY <1>1, <1>2, <1>7 DEF Sound
  <2>2. x \notin Dependents BY <1>5, <1>6, <2>1
  <2> QED BY <1>3, <2>1, <2>2
<1>8. Bears(b, b.kept, w) BY <1>1 DEF Bears
<1>9. w \in Sound(b) BY <1>1, <1>2, <1>7, <1>8, SoundLoosens
<1> QED BY <1>9 DEF b

-----------------------------------------------------------------------------
(* The steps.                                                              *)

\* The states that things turn to are states.
LEMMA StatesTurnedTo == {"up", "active", "there", "connected", "serving", "running", "broken", "failed"} \subseteq States
<1>1. {"c1", "ha", "cloud", "e1", "mgmt", "harbor"} \subseteq Things
  BY DEF Things, Controllers, Engines, Clusters, Packages, Plain
<1>2. /\ "c1" \in Controllers /\ "e1" \in Engines /\ "mgmt" \in Clusters /\ "harbor" \in Packages
  BY DEF Controllers, Engines, Clusters, Packages
<1>3. /\ Lives["c1"] = {"none", "off", "on", "up"} /\ Lives["e1"] = {"none", "off", "on", "up", "connected"}
      /\ Lives["mgmt"] = {"none", "creating", "serving", "running", "broken", "off"}
      /\ Lives["harbor"] = {"none", "creating", "failed", "there"} /\ Lives["ha"] = {"none", "joined", "active"}
  BY <1>1, <1>2, StatesOf
<1>4. \A x \in Things : \A s \in Lives[x] : s \in States BY DEF States
<1> QED BY <1>1, <1>3, <1>4

\* A step outside is a turn of one thing.
LEMMA OutsideShifts ==
  ASSUME NEW k \in Kinds, k.setup = setup, NEW x \in Common, NEW from, NEW to \in States, Outside(x, from, to),
         \A a \in from : Turns(x, a, to),
         x \in Engines /\ world[x] = "none" => world["cloud"] # "none" /\ world[PoolOf(k)] # "none",
         x \in Engines /\ world[x] = "none" => \A e \in Before(k, x) : world[e] # "none",
         x = "super" /\ world[x] = "off" => world["wcpDown"] = "none",
         x = "workload" /\ world[x] = "off" => world["super"] \in Deployed
  PROVE  Shifts(k, world, world') /\ UNCHANGED <<setup, faults, request>>
<1>1. x \in Concerned(k.setup) BY CommonConcerned
<1>2. world[x] \in from /\ world' = [world EXCEPT ![x] = to] /\ UNCHANGED <<setup, faults, request>>
  BY DEF Outside, Is, Becomes
<1>3. Turns(x, world[x], to) BY <1>2
<1> QED BY <1>1, <1>2, <1>3 DEF Shifts

\* For a thing that is not an engine and was not shut down nothing more is asked.
LEMMA PlainlyShifts ==
  ASSUME NEW k \in Kinds, k.setup = setup, NEW x \in Common \ Engines, NEW from, NEW to \in States,
         Outside(x, from, to), \A a \in from : Turns(x, a, to), "off" \notin from
  PROVE  Shifts(k, world, world') /\ UNCHANGED <<setup, faults, request>>
<1>1. world[x] # "off" BY DEF Outside, Is
<1> QED BY <1>1, OutsideShifts

\* Where an engine is asked for there are a cloud and a network with addresses.
LEMMA ServedFounded ==
  ASSUME NEW k \in Kinds, k.setup = setup, world \in Sound(k), Orchestrated, NEW g \in {"mgmt", "work"}, Served(g)
  PROVE  world["cloud"] # "none" /\ world[PoolOf(k)] # "none"
<1>0. PoolOf(k) = "vipPool" BY DEF PoolOf, Orchestrated
<1>1. {"vs", "cloud", "vipPool", "cloudIpam", "ipam"} \subseteq Concerned(k.setup)
  <2>1. {"vs", "cloud", "cloudIpam", "ipam"} \subseteq Common BY CommonThings
  <2>2. "vipPool" \in Common
    <3>1. "vipPool" \in Free BY DEF Free, Plain
    <3> QED BY <3>1, CommonThings
  <2> QED BY <2>1, <2>2, CommonConcerned
<1>2. {"cloud", "vipPool"} \subseteq Needs(k, "vs") BY <1>0 DEF Needs, Engines, Dependents
<1>3. Needs(k, "cloudIpam") = {"ipam", "cloud"} BY DEF Needs, Engines, Dependents
<1>4. \A x \in {"cloud", "vipPool"} : "none" \notin Solid(x)
  BY DEF Solid, Controllers, Loose, Engines, Files, VcdVars, Have
<1>5. \A x \in Concerned(k.setup) : world[x] # "none" => \A y \in Needs(k, x) : world[y] \in Solid(y) BY DEF Sound
<1>6. world["vs"] # "none" => world["cloud"] # "none" /\ world["vipPool"] # "none"
  BY <1>1, <1>2, <1>4, <1>5
<1>7. world["cloudIpam"] # "none" => world["cloud"] # "none" BY <1>1, <1>3, <1>4, <1>5
<1>8. CASE Is("vs", {g}) BY <1>0, <1>6, <1>8 DEF Is
<1>9. CASE Balanced BY <1>0, <1>7, <1>9 DEF Balanced, There
<1> QED BY <1>8, <1>9 DEF Served

\* What goes on without the server is a turn of one thing.
LEMMA MeanwhileShifts ==
  ASSUME NEW k \in Kinds, k.setup = setup, world \in Sound(k), Meanwhile
  PROVE  Shifts(k, world, world') /\ UNCHANGED <<setup, faults, request>>
<1>0. /\ {"up", "active", "there", "connected", "serving", "running", "broken", "failed"} \subseteq States
      /\ Controllers \cup Engines \cup Clusters \cup Supervisor \cup Packages \subseteq Common
      /\ {"ha", "defaultCloud", "inventory", "placement", "mgmtAko", "sharedAko", "workAko"} \subseteq Common
  <2>1. {"defaultCloud", "inventory", "placement", "mgmtAko", "sharedAko", "workAko"} \subseteq Free BY DEF Free, Plain
  <2> QED BY <2>1, StatesTurnedTo, CommonThings
<1>1. CASE ControllerUp
  <2>1. PICK c \in Controllers : Outside(c, {"on"}, "up") BY <1>1 DEF ControllerUp
  <2>2. \A a \in {"on"} : Turns(c, a, "up") BY DEF Turns
  <2>3. c \notin Engines BY DEF Controllers, Engines
  <2> QED BY <1>0, <2>1, <2>2, <2>3, PlainlyShifts
<1>2. CASE NodesActive
  <2>1. \A a \in {"joined"} : Turns("ha", a, "active") BY DEF Turns
  <2>2. "ha" \notin Engines BY DEF Engines
  <2> QED BY <1>0, <1>2, <2>1, <2>2, PlainlyShifts DEF NodesActive
<1>3. CASE DefaultCloud
  <2>1. \A a \in {"none"} : Turns("defaultCloud", a, "there") BY DEF Turns
  <2>2. "defaultCloud" \notin Engines BY DEF Engines
  <2> QED BY <1>0, <1>3, <2>1, <2>2, PlainlyShifts DEF DefaultCloud
<1>4. CASE Discovered
  <2>1. PICK x \in {"inventory", "placement"} : Outside(x, {"none"}, "there") BY <1>4 DEF Discovered
  <2>2. \A a \in {"none"} : Turns(x, a, "there") BY DEF Turns
  <2>3. x \notin Engines BY DEF Engines
  <2> QED BY <1>0, <2>1, <2>2, <2>3, PlainlyShifts
<1>5. CASE EngineStarted
  <2>1. PICK g \in {"mgmt", "work"} :
          /\ Orchestrated /\ Served(g)
          /\ \/ Outside(FirstOf(g), {"none"}, "up")
             \/ There(FirstOf(g)) /\ Outside(SecondOf(g), {"none"}, "up")
    BY <1>5 DEF EngineStarted
  <2>2. /\ FirstOf(g) \in Engines /\ SecondOf(g) \in Engines
        /\ Before(k, FirstOf(g)) = {} /\ Before(k, SecondOf(g)) \subseteq {FirstOf(g)}
    BY DEF FirstOf, SecondOf, Engines, Before
  <2>3. world["cloud"] # "none" /\ world[PoolOf(k)] # "none" BY <2>1, ServedFounded
  <2>4. \A e \in Engines : \A a \in {"none"} : Turns(e, a, "up") BY DEF Turns
  <2>5. PICK e \in Engines : Outside(e, {"none"}, "up") /\ \A f \in Before(k, e) : world[f] # "none"
    BY <2>1, <2>2 DEF There
  <2>6. e \notin {"super", "workload"} BY DEF Engines
  <2> QED BY <1>0, <2>3, <2>4, <2>5, <2>6, OutsideShifts
<1>6. CASE EngineUp
  <2>1. PICK e \in Engines : Outside(e, {"on"}, "up") BY <1>6 DEF EngineUp
  <2>2. \A a \in {"on"} : Turns(e, a, "up") BY DEF Turns
  <2>3. world[e] # "none" /\ world[e] # "off" BY <2>1 DEF Outside, Is
  <2> QED BY <1>0, <2>1, <2>2, <2>3, OutsideShifts
<1>7. CASE EngineConnects
  <2>1. Awaited \subseteq Engines BY DEF Awaited, FirstOf, Engines
  <2>2. PICK e \in Engines : Outside(e, {"up"}, "connected") BY <1>7, <2>1 DEF EngineConnects
  <2>3. \A a \in {"up"} : Turns(e, a, "connected") BY DEF Turns
  <2>4. world[e] # "none" /\ world[e] # "off" BY <2>2 DEF Outside, Is
  <2> QED BY <1>0, <2>2, <2>3, <2>4, OutsideShifts
<1>8. CASE ClusterServes
  <2>1. PICK c \in {"shared", "workload", "super"} : Outside(c, {"creating"}, "serving") BY <1>8 DEF ClusterServes
  <2>2. c \in Clusters \cup Supervisor /\ c \notin Engines BY DEF Clusters, Supervisor, Engines
  <2>3. \A a \in {"creating"} : Turns(c, a, "serving") BY <2>2 DEF Turns
  <2> QED BY <1>0, <2>1, <2>2, <2>3, PlainlyShifts
<1>9. CASE ClusterRuns
  <2>1. PICK c \in Clusters \cup Supervisor, a \in {"creating", "serving"} : Outside(c, {a}, "running")
    BY <1>9 DEF ClusterRuns, Clusters, Supervisor
  <2>2. c \notin Engines BY DEF Clusters, Supervisor, Engines
  <2>3. \A b \in {a} : Turns(c, b, "running") BY DEF Turns
  <2> QED BY <1>0, <2>1, <2>2, <2>3, PlainlyShifts
<1>10. CASE AkoStarts
  <2>1. PICK x \in {"mgmtAko", "sharedAko", "workAko"} : Outside(x, {"none"}, "there") BY <1>10 DEF AkoStarts
  <2>2. \A a \in {"none"} : Turns(x, a, "there") BY DEF Turns
  <2>3. x \notin Engines BY DEF Engines
  <2> QED BY <1>0, <2>1, <2>2, <2>3, PlainlyShifts
<1>11. CASE PackageReconciled
  <2>1. PICK p \in Packages : Outside(p, {"creating", "failed"}, "there") BY <1>11 DEF PackageReconciled
  <2>2. \A a \in {"creating", "failed"} : Turns(p, a, "there") BY DEF Turns
  <2>3. p \notin Engines BY DEF Packages, OnShared, OnWorkload, Engines
  <2> QED BY <1>0, <2>1, <2>2, <2>3, PlainlyShifts
<1>12. CASE PoweredOn
  <2>1. PICK c \in {"super", "workload"} :
          /\ Outside(c, {"off"}, "running")
          /\ c = "super" => world["wcpDown"] = "none"
          /\ c = "workload" => world["super"] \in Deployed
    BY <1>12 DEF PoweredOn, Is
  <2>2. c \in Clusters \cup Supervisor /\ c \notin Engines BY DEF Clusters, Supervisor, Engines
  <2>3. \A a \in {"off"} : Turns(c, a, "running") BY <2>2 DEF Turns
  <2>4. c \in Common /\ "running" \in States BY <1>0, <2>2
  <2>5. /\ c \in Engines /\ world[c] = "none" => world["cloud"] # "none" /\ world[PoolOf(k)] # "none"
        /\ c \in Engines /\ world[c] = "none" => \A e \in Before(k, c) : world[e] # "none"
        /\ c = "super" /\ world[c] = "off" => world["wcpDown"] = "none"
        /\ c = "workload" /\ world[c] = "off" => world["super"] \in Deployed
    BY <2>1, <2>2
  <2>6. Outside(c, {"off"}, "running") BY <2>1
  <2> QED BY <2>3, <2>4, <2>5, <2>6, OutsideShifts
<1> QED BY <1>1, <1>2, <1>3, <1>4, <1>5, <1>6, <1>7, <1>8, <1>9, <1>10, <1>11, <1>12 DEF Meanwhile

\* So is a cluster that breaks and a package that fails.
LEMMA BreakingShifts ==
  ASSUME NEW k \in Kinds, k.setup = setup
  PROVE  /\ ClusterBreaks \/ PackageFails => Shifts(k, world, world')
         /\ Is("mgmt", {"creating"}) /\ Becomes("mgmt", "broken") => Shifts(k, world, world')
<1>1. /\ Clusters \cup Supervisor \cup Packages \subseteq Concerned(k.setup)
      /\ {"broken", "failed"} \subseteq States
  BY CommonThings, CommonConcerned, StatesTurnedTo
<1>2. ASSUME NEW c \in Clusters \cup Supervisor, Is(c, {"creating"}), Becomes(c, "broken")
      PROVE  Shifts(k, world, world')
  <2>1. Turns(c, world[c], "broken") /\ c \notin Engines /\ world[c] # "off"
    BY <1>2 DEF Turns, Is, Clusters, Supervisor, Engines
  <2> QED BY <1>1, <1>2, <2>1 DEF Shifts, Becomes
<1>3. ASSUME NEW p \in Packages, Is(p, {"creating"}), Becomes(p, "failed") PROVE Shifts(k, world, world')
  <2>1. Turns(p, world[p], "failed") /\ p \notin Engines /\ world[p] # "off"
    BY <1>3 DEF Turns, Is, Packages, OnShared, OnWorkload, Engines
  <2> QED BY <1>1, <1>3, <2>1 DEF Shifts, Becomes
<1>4. "mgmt" \in Clusters BY DEF Clusters
<1> QED BY <1>2, <1>3, <1>4 DEF ClusterBreaks, PackageFails

\* A request that has no calls left, or is left with the deletion of its cluster; the
\* calls of a stage that has something to show are not left out.
GivenUp(k) == Ended \/ (Swallowed /\ (k.goal = {} \/ Unheard)) \/ (Rescue /\ stage = "workload")

\* A call that fails ends the request or leaves it with the deletion of its cluster.
LEMMA FailGivesUp ==
  ASSUME NEW k, Fail
  PROVE  GivenUp(k)
BY DEF Fail, GivenUp, Rescued

\* A call is made as its outline says, or the request ends in a well-founded world.
LEMMA CallsCarry ==
  ASSUME NEW k \in Kinds, k.setup = setup, Carried(k, world, todo),
         Calls \/ DiscardFails \/ CutShort \/ AskFails \/ TryFails \/ QuitFails
  PROVE  \/ Carried(k, world', todo') /\ UNCHANGED <<stage, done>>
         \/ world' \in Sound(k) /\ GivenUp(k)
<1> DEFINE c == Head(todo)
           Goal == \/ Carried(k, world', todo') /\ UNCHANGED <<stage, done>>
                   \/ world' \in Sound(k) /\ GivenUp(k)
<1>0. todo # <<>> /\ Now = c
  BY DEF Calls, UnlessCall, NeedCall, AwaitCall, GiveUp, WatchCall, EnsureCall, PutCall, MakeCall, DiscardCall,
         CopyCall, LeaveCall, AbortCall, DiscardFails, CutShort, AskFails, TryFails, QuitFails, At, Now
<1>1. /\ world \in Sound(k) /\ c.x \in Concerned(k.setup) /\ c.op \in Plainly \cup Branching
      /\ c.op \in Plainly => \A u : Does(c, world, u) => Carried(k, u, Tail(todo))
      /\ c.op \in Branching /\ (world[c.x] \in c.states \/ c.op = "spare") => Carried(k, world, Tail(todo))
      /\ c.op \in Branching /\ (world[c.x] \notin c.states \/ c.op = "ask")
           => Carried(k, world, c.calls \o Tail(todo))
      /\ c.op = "discard" => c.x \in {"vs", "vsVip"}
      /\ c.op = "copy" => Written(c.x, "partial", world) \in Sound(k)
      /\ c.op = "ask" => k.mode # "bare"
      /\ c.op \in {"leave", "quit"} => k.goal = {}
      /\ c.op = "try" => Carried(k, world, AfterTries(todo))
  BY <1>0, CarriedNext
<1>2. \A op : At(op) <=> c.op = op BY <1>0 DEF At
<1>3. Target = TargetOf(c) BY <1>0 DEF Target, TargetOf
<1>4. world \in [Concerned(k.setup) -> States] BY <1>1 DEF Sound
<1>5. \A s : Is(c.x, s) <=> world[c.x] \in s BY DEF Is
<1>6. ASSUME c.op \in Plainly, Does(c, world, world'), Proceed PROVE Goal
  BY <1>1, <1>6 DEF Proceed
<1>7. ASSUME Fail, UNCHANGED world PROVE Goal BY <1>1, <1>7, FailGivesUp
<1>8. ASSUME Swallowed, UNCHANGED world, k.goal = {} PROVE Goal BY <1>1, <1>8 DEF GivenUp
<1> SUFFICES Goal OBVIOUS
<1> HIDE DEF Goal
<1>9. CASE UnlessCall
  <2>1. c.op \in Branching BY <1>2, <1>9 DEF UnlessCall, Branching
  <2>2. CASE world[c.x] \in c.states
    <3>1. Proceed /\ UNCHANGED world BY <1>0, <1>5, <1>9, <2>2 DEF UnlessCall
    <3> QED BY <1>1, <2>1, <2>2, <3>1 DEF Proceed, Goal
  <2>3. CASE world[c.x] \notin c.states
    <3>1. todo' = c.calls \o Tail(todo) /\ UNCHANGED <<stage, done>> /\ UNCHANGED world
      BY <1>0, <1>5, <1>9, <2>3 DEF UnlessCall
    <3> QED BY <1>1, <2>1, <2>3, <3>1 DEF Goal
  <2> QED BY <2>2, <2>3
<1>10. CASE NeedCall \/ LeaveCall
  <2>1. c.op \in {"need", "leave"} /\ c.op \in Plainly BY <1>2, <1>10 DEF NeedCall, LeaveCall, Plainly
  <2>2. CASE world[c.x] \in c.states
    <3>1. Proceed /\ UNCHANGED world BY <1>0, <1>5, <1>10, <2>2 DEF NeedCall, LeaveCall
    <3>2. Does(c, world, world') BY <2>1, <2>2, <3>1 DEF Does
    <3> QED BY <1>6, <2>1, <3>1, <3>2
  <2>3. CASE world[c.x] \notin c.states
    <3>1. (Fail \/ (c.op = "leave" /\ Swallowed)) /\ UNCHANGED world
      BY <1>0, <1>2, <1>5, <1>10, <2>3 DEF NeedCall, LeaveCall
    <3> QED BY <1>1, <1>7, <1>8, <3>1
  <2> QED BY <2>2, <2>3
<1>11. CASE AwaitCall
  <2>1. c.op = "await" /\ c.op \in Plainly BY <1>2, <1>11 DEF AwaitCall, Plainly
  <2>2. Proceed /\ UNCHANGED world /\ world[c.x] \in c.states BY <1>0, <1>5, <1>11 DEF AwaitCall
  <2>3. Does(c, world, world') BY <2>1, <2>2 DEF Does
  <2> QED BY <1>6, <2>1, <2>2, <2>3
<1>12. CASE GiveUp
  <2>1. Fail /\ UNCHANGED world BY <1>12 DEF GiveUp
  <2> QED BY <1>7, <2>1
<1>13. CASE WatchCall
  <2>1. c.op = "watch" /\ c.op \in Plainly BY <1>2, <1>13 DEF WatchCall, Plainly
  <2>2. (Proceed \/ Fail) /\ UNCHANGED world BY <1>13 DEF WatchCall
  <2>3. Does(c, world, world') BY <2>1, <2>2 DEF Does
  <2> QED BY <1>6, <1>7, <2>1, <2>2, <2>3
<1>14. CASE EnsureCall
  <2>1. c.op \in {"ensure", "try", "quit"} /\ c.op \in Plainly BY <1>2, <1>14 DEF EnsureCall, Plainly
  <2>2. /\ Proceed
        /\ world' = IF world[c.x] \in c.states THEN world ELSE [world EXCEPT ![c.x] = TargetOf(c)]
    BY <1>0, <1>3, <1>5, <1>14 DEF EnsureCall, Becomes
  <2>3. Does(c, world, world') BY <2>1, <2>2 DEF Does
  <2> QED BY <1>6, <2>1, <2>2, <2>3
<1>15. CASE PutCall
  <2>1. c.op = "put" /\ c.op \in Plainly BY <1>2, <1>15 DEF PutCall, Plainly
  <2>2. Proceed /\ world' = [world EXCEPT ![c.x] = TargetOf(c)] BY <1>0, <1>3, <1>15 DEF PutCall, Becomes
  <2>3. Does(c, world, world') BY <2>1, <2>2 DEF Does
  <2> QED BY <1>6, <2>1, <2>2, <2>3
<1>16. CASE MakeCall
  <2>1. c.op = "make" /\ c.op \in Plainly BY <1>2, <1>16 DEF MakeCall, Plainly
  <2>2. CASE world[c.x] = "none"
    <3>1. Proceed /\ world' = [world EXCEPT ![c.x] = TargetOf(c)]
      BY <1>0, <1>3, <1>16, <2>2 DEF MakeCall, Becomes, There
    <3>2. Does(c, world, world') BY <2>1, <2>2, <3>1 DEF Does
    <3> QED BY <1>6, <2>1, <3>1, <3>2
  <2>3. CASE world[c.x] # "none"
    <3>1. (Fail \/ (c.x \in Clusters /\ Proceed)) /\ UNCHANGED world BY <1>0, <1>16, <2>3 DEF MakeCall, There
    <3>2. c.x \in Clusters => Does(c, world, world') BY <2>1, <2>3, <3>1 DEF Does
    <3> QED BY <1>6, <1>7, <2>1, <3>1, <3>2
  <2> QED BY <2>2, <2>3
<1>17. CASE DiscardCall
  <2>1. c.op = "discard" /\ c.op \in Plainly BY <1>2, <1>17 DEF DiscardCall, Plainly
  <2>2. c.x \in {"vs", "vsVip"} BY <1>1, <2>1
  <2>3. Within(c.x) = {} BY <2>2 DEF Within
  <2>4. \/ UNCHANGED world
        \/ world' = [x \in DOMAIN world |-> IF x \in {c.x} \cup {} THEN "none" ELSE world[x]]
    BY <1>0, <1>17, <2>3 DEF DiscardCall
  <2>5. world' = world \/ world' = [world EXCEPT ![c.x] = "none"] BY <1>4, <2>4
  <2>6. Does(c, world, world') BY <2>1, <2>5 DEF Does
  <2> QED BY <1>6, <1>17, <2>1, <2>6 DEF DiscardCall
<1>18. CASE CopyCall
  <2>1. c.op = "copy" /\ c.op \in Plainly BY <1>2, <1>18 DEF CopyCall, Plainly
  <2>2. Proceed /\ world' = Written(c.x, "there", world) BY <1>0, <1>18 DEF CopyCall, Downloaded, Written
  <2>3. Does(c, world, world') BY <2>1, <2>2 DEF Does
  <2> QED BY <1>6, <2>1, <2>2, <2>3
<1>19. CASE AbortCall
  <2>1. c.op = "abort" BY <1>2, <1>19 DEF AbortCall
  <2> QED BY <1>1, <2>1 DEF Plainly, Branching
<1>20. CASE DiscardFails
  <2>1. c.op \in {"discard", "spare"} /\ Proceed /\ UNCHANGED world BY <1>2, <1>20 DEF DiscardFails
  <2>2. CASE c.op = "discard"
    <3>1. c.op \in Plainly /\ Does(c, world, world') BY <2>1, <2>2 DEF Does, Plainly
    <3> QED BY <1>6, <2>1, <3>1
  <2>3. CASE c.op = "spare" BY <1>1, <2>1, <2>3 DEF Proceed, Branching, Goal
  <2> QED BY <2>1, <2>2, <2>3
<1>21. CASE CutShort
  <2>1. c.op = "copy" BY <1>2, <1>21 DEF CutShort
  <2>2. Fail /\ world' = Written(c.x, "partial", world) BY <1>0, <1>21 DEF CutShort, Downloaded, Written
  <2> QED BY <1>1, <2>1, <2>2, FailGivesUp DEF Goal
<1>22. CASE AskFails
  <2>1. c.op = "ask" /\ UNCHANGED <<world, stage, done>> /\ todo' = c.calls \o Tail(todo)
    BY <1>0, <1>2, <1>22 DEF AskFails
  <2> QED BY <1>1, <2>1 DEF Branching, Goal
<1>23. CASE TryFails
  <2>1. c.op = "try" /\ UNCHANGED <<world, stage, done>> /\ todo' = AfterTries(todo)
    BY <1>2, <1>23 DEF TryFails, Untried, AfterTries, Skips
  <2> QED BY <1>1, <2>1 DEF Goal
<1>24. CASE QuitFails
  <2>1. c.op \in {"leave", "quit"} /\ Swallowed /\ UNCHANGED world BY <1>2, <1>24 DEF QuitFails
  <2> QED BY <1>1, <1>8, <2>1
<1> QED BY <1>9, <1>10, <1>11, <1>12, <1>13, <1>14, <1>15, <1>16, <1>17, <1>18, <1>19, <1>20, <1>21, <1>22, <1>23,
           <1>24 DEF Calls, Goal

-----------------------------------------------------------------------------
(* A cluster is deleted.                                                   *)

\* What goes with a cluster is all that rests on it, but for guest clusters.
LEMMA WithinNeeds ==
  ASSUME NEW k \in Kinds, k.setup \in Pipelines \ Supervised, NEW c \in Clusters, c = "mgmt" => k.mode # "firm",
         NEW x, x \notin {c} \cup Within(c)
  PROVE  Needs(k, x) \cap ({c} \cup Within(c)) = {}
<1>1. CASE c = "shared"
  <2>1. {c} \cup Within(c) = {"shared", "sharedAko", "label", "sharedRepo", "harbor", "sharedCert", "sharedContour"}
    BY <1>1 DEF Within, OnShared
  <2>2. \A y \in {"sharedCert", "sharedContour", "harbor"} : x # y BY <2>1
  <2>3. \A y \in {c} \cup Within(c) : y \notin OnGuest(k) BY <2>1 DEF OnGuest
  <2>4. \A y \in {c} \cup Within(c) : y \notin Needs(k, x)
    BY <2>1, <2>2, <2>3 DEF Needs, PoolOf, Before, Engines, Dependents, Controllers
  <2> QED BY <2>4
<1>2. CASE c = "workload"
  <2>1. {c} \cup Within(c) = {"workload", "workAko", "roleBinding", "psp", "workRepo", "workCert", "workContour",
                              "prometheus", "grafana", "fluent", "kapp"}
    BY <1>2 DEF Within, OnWorkload
  <2>2. \A y \in {"workCert", "workContour", "workRepo", "prometheus", "grafana", "fluent"} : x # y BY <2>1
  <2>3. \A y \in {c} \cup Within(c) : y \notin OnGuest(k) BY <2>1 DEF OnGuest
  <2>4. \A y \in {c} \cup Within(c) : y \notin Needs(k, x)
    BY <2>1, <2>2, <2>3 DEF Needs, PoolOf, Before, Engines, Dependents, Controllers
  <2> QED BY <2>4
<1>3. CASE c = "mgmt"
  <2>1. {c} \cup Within(c) = {"mgmt", "mgmtAko"} BY <1>3 DEF Within
  <2>2. k.mode # "firm" BY <1>3
  <2>3. \A y \in {c} \cup Within(c) : y \notin OnGuest(k) BY <2>1, <2>2 DEF OnGuest, Kinds, Modes
  <2>4. \A y \in {c} \cup Within(c) : y \notin Needs(k, x)
    BY <2>1, <2>3 DEF Needs, PoolOf, Before, Engines, Dependents, Controllers
  <2> QED BY <2>4
<1> QED BY <1>1, <1>2, <1>3 DEF Clusters

\* So the world stays well founded when a guest cluster is deleted, and when the management
\* cluster is while no guest cluster is made from it, if nothing that is kept
\* goes with it.
LEMMA DeletedSound ==
  ASSUME NEW k \in Kinds, k.setup \in Pipelines \ Supervised, NEW c \in Clusters, c = "mgmt" => k.mode # "firm",
         NEW w \in Sound(k),
         NEW u, u = [x \in DOMAIN w |-> IF x \in {c} \cup Within(c) THEN "none" ELSE w[x]], Bears(k, k.kept, u)
  PROVE  u \in Sound(k)
<1>1. w \in [Concerned(k.setup) -> States] /\ \A x \in Concerned(k.setup) : w[x] \in Lives[x] BY DEF Sound
<1> DEFINE D == {c} \cup Within(c)
<1>2. DOMAIN w = Concerned(k.setup) BY <1>1
<1>3. \A x \in Concerned(k.setup) : u[x] = IF x \in D THEN "none" ELSE w[x] BY <1>2
<1>4. \A x \in Concerned(k.setup) : "none" \in Lives[x] /\ Lives[x] \subseteq States
  <2> SUFFICES ASSUME NEW x \in Concerned(k.setup) PROVE "none" \in Lives[x] /\ Lives[x] \subseteq States OBVIOUS
  <2>1. x \in Things BY DEF Concerned
  <2>2. Lives[x] \subseteq States BY <2>1 DEF States
  <2>3. "none" \in Lives[x] BY <2>1, StatesOf
  <2> QED BY <2>2, <2>3
<1>5. u \in [Concerned(k.setup) -> States] /\ \A x \in Concerned(k.setup) : u[x] \in Lives[x]
  BY <1>1, <1>2, <1>4
<1>6. ASSUME NEW x \in Concerned(k.setup), u[x] # "none", NEW y \in Needs(k, x) PROVE u[y] \in Solid(y)
  <2>1. x \notin D /\ w[x] # "none" BY <1>3, <1>6
  <2>2. w[y] \in Solid(y) BY <1>6, <2>1 DEF Sound
  <2>3. y \notin D BY <1>6, <2>1, WithinNeeds
  <2>4. Solid("never") = {} BY NeverBears
  <2>5. y \in Concerned(k.setup) BY <1>6, <2>2, <2>4, NeedsConcerned
  <2> QED BY <1>3, <2>2, <2>3, <2>5
<1>7. \A x \in Concerned(k.setup) : u[x] \in {"off", "on"} => Powers(k, x) BY <1>3 DEF Sound
<1>8. Profiled(u)
  <2>1. "ipam" \in Concerned(k.setup) /\ "vipPool" \in Concerned(k.setup)
    <3>1. "vipPool" \in Free BY DEF Free, Plain
    <3> QED BY <3>1, CommonThings, CommonConcerned
  <2>2. "ipam" \notin D /\ "vipPool" \notin D BY DEF Within, OnShared, OnWorkload, Clusters
  <2>3. Profiled(w) BY DEF Sound
  <2> HIDE DEF D
  <2> QED BY <1>3, <2>1, <2>2, <2>3 DEF Profiled
<1> QED BY <1>5, <1>6, <1>7, <1>8 DEF Sound

-----------------------------------------------------------------------------
(* The invariant of what is built.                                         *)

\* A pipeline may have deleted the management cluster under guest clusters.
Kind == IF Overlooked THEN Lost ELSE Firm

Types ==
  /\ setup \in Setups
  /\ faults \in 0 .. MaxFaults[setup]
  /\ stage \in Stages \cup {"idle"}
  /\ stage = "idle" => todo = <<>>
  /\ done \subseteq Stages

\* A task that raised an exception is about to delete its cluster.
Deletes ==
  /\ setup \in Pipelines \ Supervised /\ stage \in Clusters
  /\ todo \in {Discard(stage) \o Abort(stage), Abort(stage)}

Deleting ==
  /\ Deletes /\ world \in Sound(Kind)
  /\ stage = "mgmt" => faults > 0 /\ (faults = 1 => world \in Sound(Bare))

\* Unless its pre-check was overlooked, the task that makes the management cluster
\* runs only while there is no guest cluster.
Unbuilt ==
  setup \in Pipelines \ Supervised /\ stage = "mgmt" /\ faults = 0 /\ todo # <<>> =>
    \/ \E p : todo = Ask("mgmt", Deployed, p) /\ Safe(Bare, p)
    \/ Carried(Bare, world, todo)

Founded ==
  /\ Types
  /\ Carried(Kind, world, todo) \/ Deleting
  /\ Unbuilt

-----------------------------------------------------------------------------
(* It holds at first and after every step.                                 *)

\* In the beginning there is nothing, or the one network of a manual cloud.
LEMMA InitFounded ==
  ASSUME Init
  PROVE  Founded
<1>1. /\ setup \in Setups /\ faults = 0 /\ stage = "idle" /\ todo = <<>> /\ done = {}
      /\ world \in [Concerned(setup) -> {"none", "there"}]
      /\ \A x \in Concerned(setup) : x # "oneNetwork" => world[x] = "none"
  BY DEF Init
<1>2. setup \in SetupKinds /\ MaxFaults[setup] \in Nat BY <1>1, ProvisionAssumption
<1>3. Kind = Firm BY <1>1 DEF Kind, Overlooked
<1>4. Firm \in Kinds /\ Firm.setup = setup /\ Firm.kept = {} /\ Firm.goal = {}
  BY <1>2, KindsLoosen DEF Firm, Modes, Asking
<1>5. world \in Sound(Firm)
  <2>1. "oneNetwork" \in Free /\ "vipPool" \in Free BY DEF Free, Plain
  <2>2. "ipam" \in Concerned(setup) /\ Needs(Firm, "oneNetwork") = {}
    BY <1>4, <2>1, CommonThings, CommonConcerned, FreeThings
  <2>3. world \in [Concerned(setup) -> States]
    <3>1. "none" \in States /\ "there" \in States
      <4>1. "wcpManual" \in Things /\ Lives["wcpManual"] = {"none", "there"}
        BY StatesOf DEF Things, Plain, Controllers, Engines, Clusters, Supervisor, Files, Packages, OnShared,
           OnWorkload, VcdVars
      <4> QED BY <4>1 DEF States
    <3> QED BY <1>1, <3>1
  <2>4. ASSUME NEW x \in Concerned(setup) PROVE world[x] \in Lives[x]
    <3>1. x \in Things BY DEF Concerned
    <3>2. CASE x = "oneNetwork"
      <4>1. Lives["oneNetwork"] = {"none", "there"}
        BY <3>1, <3>2, StatesOf DEF Controllers, Engines, Clusters, Supervisor, Files, Packages, OnShared,
           OnWorkload, VcdVars
      <4> QED BY <1>1, <3>2, <4>1
    <3>3. CASE x # "oneNetwork"
      <4>1. "none" \in Lives[x] BY <3>1, StatesOf
      <4> QED BY <1>1, <3>3, <4>1
    <3> QED BY <3>2, <3>3
  <2>5. \A x \in Concerned(setup) : world[x] \notin {"off", "on"} BY <1>1
  <2>6. \A x \in Concerned(setup) : world[x] # "none" => Needs(Firm, x) = {} BY <1>1, <2>2
  <2>7. Bears(Firm, Firm.kept, world) BY <1>4 DEF Bears
  <2>8. Profiled(world) BY <1>1, <2>2 DEF Profiled
  <2> QED BY <1>4, <2>3, <2>4, <2>5, <2>6, <2>7, <2>8 DEF Sound
<1>6. Carried(Kind, world, todo) BY <1>1, <1>3, <1>4, <1>5, CarriedEmpty
<1>7. Types BY <1>1, <1>2 DEF Types
<1>8. Unbuilt BY <1>1 DEF Unbuilt
<1> QED BY <1>6, <1>7, <1>8 DEF Founded

\* The setup stays, and faults are counted one by one.
LEMMA FaultsCounted ==
  ASSUME Next
  PROVE  setup' = setup /\ (faults' = faults \/ (faults < MaxFaults[setup] /\ faults' = faults + 1))
<1>1. ASSUME NEW s \in Stages, Post(s)
      PROVE  setup' = setup /\ (faults' = faults \/ (faults < MaxFaults[setup] /\ faults' = faults + 1))
  BY <1>1 DEF Post
<1>2. ASSUME Calls
      PROVE  setup' = setup /\ (faults' = faults \/ (faults < MaxFaults[setup] /\ faults' = faults + 1))
  BY <1>2 DEF Calls, UnlessCall, NeedCall, AwaitCall, GiveUp, WatchCall, EnsureCall, PutCall, MakeCall,
     DiscardCall, CopyCall, LeaveCall, AbortCall, TooSoon
<1>3. ASSUME Failures
      PROVE  setup' = setup /\ (faults' = faults \/ (faults < MaxFaults[setup] /\ faults' = faults + 1))
  BY <1>3 DEF Failures, DiscardFails, CutShort, Trouble, AskFails, TryFails, QuitFails
<1>4. ASSUME Answer \/ ClusterBreaks \/ PackageFails
      PROVE  setup' = setup /\ (faults' = faults \/ (faults < MaxFaults[setup] /\ faults' = faults + 1))
  BY <1>4 DEF Answer, ClusterBreaks, PackageFails
<1>5. ASSUME Meanwhile PROVE setup' = setup /\ faults' = faults
  BY <1>5 DEF Meanwhile, ControllerUp, NodesActive, DefaultCloud, Discovered, EngineStarted, EngineUp,
     EngineConnects, ClusterServes, ClusterRuns, AkoStarts, PackageReconciled, PoweredOn, Outside
<1> QED BY <1>1, <1>2, <1>3, <1>4, <1>5 DEF Next

\* What a call does to the request: it goes on, is left with other calls, or ends.
LEMMA CallsTurn ==
  ASSUME Calls \/ DiscardFails \/ CutShort \/ AskFails \/ TryFails \/ QuitFails
  PROVE  todo # <<>> /\ (UNCHANGED <<stage, done>> \/ Ended)
<1>1. Proceed => UNCHANGED <<stage, done>> BY DEF Proceed
<1>2. Fail => UNCHANGED <<stage, done>> \/ Ended BY DEF Fail, Rescue, Swallowed
<1>3. Swallowed => UNCHANGED <<stage, done>> BY DEF Swallowed
<1>4. ASSUME Calls PROVE todo # <<>> /\ (UNCHANGED <<stage, done>> \/ Ended)
  BY <1>1, <1>2, <1>3, <1>4 DEF Calls, UnlessCall, NeedCall, AwaitCall, GiveUp, WatchCall, EnsureCall, PutCall,
     MakeCall, DiscardCall, CopyCall, LeaveCall, AbortCall, At
<1>5. ASSUME DiscardFails \/ CutShort \/ AskFails \/ TryFails \/ QuitFails
      PROVE  todo # <<>> /\ (UNCHANGED <<stage, done>> \/ Ended)
  BY <1>1, <1>2, <1>3, <1>5 DEF DiscardFails, CutShort, AskFails, TryFails, QuitFails, At
<1> QED BY <1>4, <1>5

\* A stage is one of those of the setup, and a request that ended has no calls.
LEMMA TypesNext ==
  ASSUME Types, Next
  PROVE  Types'
<1>1. setup' = setup /\ (faults' = faults \/ (faults < MaxFaults[setup] /\ faults' = faults + 1))
  BY FaultsCounted
<1>2. setup' \in Setups BY <1>1 DEF Types
<1>3. faults' \in 0 .. MaxFaults[setup']
  <2>1. MaxFaults[setup] \in Nat /\ faults \in 0 .. MaxFaults[setup] BY ProvisionAssumption DEF Types
  <2> QED BY <1>1, <2>1
<1>4. Stages' = Stages BY <1>1 DEF Stages, Order, Pipelines, Supervised
<1>5. ASSUME UNCHANGED <<stage, done>>, stage # "idle" \/ UNCHANGED todo
      PROVE  stage' \in Stages \cup {"idle"} /\ (stage' = "idle" => todo' = <<>>) /\ done' \subseteq Stages
  BY <1>5 DEF Types
<1>6. ASSUME Ended PROVE stage' \in Stages \cup {"idle"} /\ (stage' = "idle" => todo' = <<>>) /\ done' \subseteq Stages
  BY <1>6 DEF Types, Ended
<1>7. stage' \in Stages \cup {"idle"} /\ (stage' = "idle" => todo' = <<>>) /\ done' \subseteq Stages
  <2>1. ASSUME NEW s \in Stages, Post(s)
        PROVE  stage' \in Stages \cup {"idle"} /\ (stage' = "idle" => todo' = <<>>) /\ done' \subseteq Stages
    <3>1. "idle" \notin Stages
      <4>1. setup \in SetupKinds BY ProvisionAssumption DEF Types
      <4> QED BY <4>1, StagesAre DEF SetupKinds, Pipelines, Supervised
    <3>2. stage' = s BY <2>1 DEF Post
    <3>3. done' \subseteq done BY <2>1 DEF Post
    <3> QED BY <3>1, <3>2, <3>3 DEF Types
  <2>2. CASE Answer
    <3>1. stage \in Stages /\ stage' = "idle" /\ todo' = <<>> /\ done' = done \cup {stage}
      BY <2>2 DEF Answer, Types
    <3> QED BY <3>1 DEF Types
  <2>3. CASE Calls \/ DiscardFails \/ CutShort \/ AskFails \/ TryFails \/ QuitFails
    <3>1. todo # <<>> /\ (UNCHANGED <<stage, done>> \/ Ended) BY <2>3, CallsTurn
    <3>2. stage # "idle" BY <3>1 DEF Types
    <3> QED BY <1>5, <1>6, <3>1, <3>2
  <2>4. CASE Trouble
    <3>1. stage # "idle" /\ (UNCHANGED <<stage, done>> \/ Ended) BY <2>4 DEF Trouble, Rescue, Swallowed
    <3> QED BY <1>5, <1>6, <3>1
  <2>5. CASE Meanwhile
    <3>1. UNCHANGED request
      BY <2>5 DEF Meanwhile, ControllerUp, NodesActive, DefaultCloud, Discovered, EngineStarted, EngineUp,
         EngineConnects, ClusterServes, ClusterRuns, AkoStarts, PackageReconciled, PoweredOn, Outside
    <3> QED BY <1>5, <3>1 DEF request
  <2>6. CASE ClusterBreaks \/ PackageFails
    <3>1. UNCHANGED request BY <2>6 DEF ClusterBreaks, PackageFails
    <3> QED BY <1>5, <3>1 DEF request
  <2> QED BY <2>1, <2>2, <2>3, <2>4, <2>5, <2>6 DEF Next, Failures
<1> QED BY <1>2, <1>3, <1>4, <1>7 DEF Types

\* Nothing is asked to be kept, and nothing to be set up.
Plainest(k) == ~ k.whole /\ k.kept = {} /\ k.goal = {}

\* What is asked after a step is no more than what was before it.
LEMMA KindNext ==
  ASSUME Types, Next
  PROVE  /\ Kind \in Kinds /\ Kind.setup = setup /\ Kind.mode # "bare" /\ Plainest(Kind)
         /\ Kind' \in Kinds /\ Kind'.setup = setup /\ Kind'.mode # "bare" /\ Plainest(Kind')
         /\ Bare \in Kinds /\ Bare.setup = setup /\ Bare' = Bare /\ Plainest(Bare)
         /\ Sound(Bare) \subseteq Sound(Kind) /\ Sound(Kind) \subseteq Sound(Kind')
         /\ Sound(Bare) \subseteq Sound(Kind')
<1>1. setup \in SetupKinds /\ MaxFaults[setup] \in Nat /\ faults \in 0 .. MaxFaults[setup]
  BY ProvisionAssumption DEF Types
<1>2. setup' = setup /\ (faults' = faults \/ (faults < MaxFaults[setup] /\ faults' = faults + 1))
  BY FaultsCounted
<1>3. /\ Firm \in Kinds /\ Lost \in Kinds /\ Bare \in Kinds
      /\ Sound(Bare) \subseteq Sound(Firm) /\ Sound(Firm) \subseteq Sound(Lost)
  BY <1>1, KindsLoosen DEF Firm, Lost, Bare, Modes
<1>4. /\ Firm.setup = setup /\ Lost.setup = setup /\ Bare.setup = setup
      /\ Firm.mode = "firm" /\ Lost.mode = "lost"
      /\ Plainest(Firm) /\ Plainest(Lost) /\ Plainest(Bare)
  BY DEF Firm, Lost, Bare, Asking, Plainest
<1>5. Firm' = Firm /\ Lost' = Lost /\ Bare' = Bare BY <1>2 DEF Firm, Lost, Bare
<1>6. Overlooked => Overlooked' BY <1>1, <1>2 DEF Overlooked
<1>7. Kind = Lost \/ Kind = Firm BY DEF Kind
<1>8. Kind' = Lost \/ (Kind = Firm /\ Kind' = Firm) BY <1>5, <1>6 DEF Kind
<1> HIDE DEF Firm, Lost, Bare, Kind
<1> QED BY <1>3, <1>4, <1>5, <1>7, <1>8

\* The deletion of a cluster as a sequence of two calls.
LEMMA DeletionCalls ==
  ASSUME NEW c
  PROVE  /\ Discard(c) \o Abort(c) # <<>> /\ Abort(c) # <<>>
         /\ Head(Discard(c) \o Abort(c)).op = "discard" /\ Head(Discard(c) \o Abort(c)).x = c
         /\ Tail(Discard(c) \o Abort(c)) = Abort(c)
         /\ Head(Abort(c)).op = "abort" /\ Tail(Abort(c)) = <<>>
<1>1. PICK d : d = [op |-> "discard", x |-> c, states |-> {"none"}, calls |-> <<>>] OBVIOUS
<1>2. PICK a : a = [op |-> "abort", x |-> c, states |-> {}, calls |-> <<>>] OBVIOUS
<1>3. d.op = "discard" /\ d.x = c /\ a.op = "abort" BY <1>1, <1>2
<1>4. Discard(c) = <<d>> /\ Abort(c) = <<a>> BY <1>1, <1>2 DEF Discard, Abort, Call
<1>5. IsProgram(Abort(c)) /\ IsProgram(<<>>) BY CallProgram, NothingLeads DEF Abort
<1>6. <<a>> \o <<>> = <<a>> BY <1>4, <1>5, JoinEmpty
<1>7. <<a>> # <<>> /\ Head(<<a>>) = a /\ Tail(<<a>>) = <<>> BY <1>5, <1>6, CallFirst
<1>8. <<d>> \o Abort(c) # <<>> /\ Head(<<d>> \o Abort(c)) = d /\ Tail(<<d>> \o Abort(c)) = Abort(c)
  BY <1>5, CallFirst
<1> QED BY <1>3, <1>4, <1>7, <1>8

\* The pre-check of a task as the first of its calls, which holds the others.
LEMMA AskCalls ==
  ASSUME NEW x, NEW S, NEW p
  PROVE  /\ Ask(x, S, p) # <<>> /\ Head(Ask(x, S, p)).op = "ask" /\ Head(Ask(x, S, p)).x = x
         /\ Head(Ask(x, S, p)).states = S /\ Head(Ask(x, S, p)).calls = p
         /\ Tail(Ask(x, S, p)) = <<>>
<1>1. PICK a : a = [op |-> "ask", x |-> x, states |-> S, calls |-> p] OBVIOUS
<1>2. a.op = "ask" /\ a.x = x /\ a.states = S /\ a.calls = p BY <1>1
<1>3. Ask(x, S, p) = <<a>> BY <1>1 DEF Ask, Call
<1>4. IsProgram(<<a>>) /\ IsProgram(<<>>)
  <2>1. IsProgram(Ask(x, S, p)) BY CallProgram DEF Ask
  <2> QED BY <1>3, <2>1, NothingLeads
<1>5. <<a>> \o <<>> = <<a>> BY <1>4, JoinEmpty
<1>6. <<a>> # <<>> /\ Head(<<a>>) = a /\ Tail(<<a>>) = <<>> BY <1>4, <1>5, CallFirst
<1> QED BY <1>2, <1>3, <1>6

\* A cluster is deleted or its deletion fails, then the task ends.
LEMMA DeletesOn ==
  ASSUME Types, Deletes, Next, NEW k \in Kinds, k.setup = setup, world \in Sound(k)
  PROVE  \/ Ended /\ world' \in Sound(k)
         \/ /\ Deletes' /\ UNCHANGED <<stage, done>>
            /\ \/ world' \in Sound(k)
               \/ /\ faults' = faults
                  /\ world' = [x \in DOMAIN world |-> IF x \in {stage} \cup Within(stage) THEN "none" ELSE world[x]]
<1> DEFINE c == stage
           p == Discard(c) \o Abort(c)
           Gone == [x \in DOMAIN world |-> IF x \in {c} \cup Within(c) THEN "none" ELSE world[x]]
           Goal == \/ Ended /\ world' \in Sound(k)
                   \/ /\ Deletes' /\ UNCHANGED <<stage, done>>
                      /\ world' \in Sound(k) \/ (faults' = faults /\ world' = Gone)
<1>1. setup' = setup BY FaultsCounted
<1>2. setup \in Pipelines \ Supervised /\ c \in Clusters /\ todo \in {p, Abort(c)} BY DEF Deletes
<1>3. /\ todo # <<>> /\ (todo = p \/ todo = Abort(c))
      /\ todo = p => Head(todo).op = "discard" /\ Head(todo).x = c /\ Tail(todo) = Abort(c)
      /\ todo = Abort(c) => Head(todo).op = "abort"
  BY <1>2, DeletionCalls
<1>4. stage # "idle" /\ stage # "ext" BY <1>2 DEF Clusters
<1>5. ASSUME UNCHANGED <<stage, done>>, todo' \in {p, Abort(c)} PROVE Deletes' BY <1>1, <1>2, <1>5 DEF Deletes
<1>6. ASSUME Shifts(k, world, world') \/ UNCHANGED world PROVE world' \in Sound(k)
  <2>1. Known(k, {}) = Sound(k) BY DEF Known, Bears
  <2> QED BY <1>6, <2>1, ShiftKnown
<1> SUFFICES Goal OBVIOUS
<1>7. CASE \E s \in Stages : Post(s) BY <1>4, <1>7 DEF Post
<1>8. CASE Answer BY <1>3, <1>8 DEF Answer
<1>9. CASE Meanwhile
  <2>1. Shifts(k, world, world') /\ UNCHANGED request BY <1>9, MeanwhileShifts
  <2> QED BY <1>2, <1>5, <1>6, <2>1 DEF request
<1>10. CASE ClusterBreaks \/ PackageFails
  <2>1. Shifts(k, world, world') BY <1>10, BreakingShifts
  <2>2. UNCHANGED <<stage, done, todo>> BY <1>10 DEF ClusterBreaks, PackageFails, request
  <2> QED BY <1>2, <1>5, <1>6, <2>1, <2>2
<1>11. CASE Trouble
  <2>1. UNCHANGED world \/ Shifts(k, world, world') BY <1>11, BreakingShifts DEF Trouble
  <2>2. Ended \/ Rescue BY <1>4, <1>11 DEF Trouble, Unheard
  <2>3. Rescue => todo' = p /\ UNCHANGED <<stage, done>> BY DEF Rescue
  <2> QED BY <1>5, <1>6, <2>1, <2>2, <2>3
<1>12. CASE AbortCall
  <2>1. UNCHANGED world /\ Ended BY <1>12 DEF AbortCall
  <2> QED BY <1>6, <2>1
<1>13. CASE DiscardFails
  <2>1. todo = p BY <1>3, <1>13 DEF DiscardFails, At
  <2>2. UNCHANGED world /\ UNCHANGED <<stage, done>> /\ todo' = Abort(c)
    BY <1>3, <1>13, <2>1 DEF DiscardFails, Proceed
  <2> QED BY <1>5, <1>6, <2>2
<1>14. CASE DiscardCall
  <2>1. todo = p BY <1>3, <1>14 DEF DiscardCall, At
  <2>2. Now.x = c /\ c # "vsVip" BY <1>2, <1>3, <2>1 DEF Now, Clusters
  <2>3. world' = Gone BY <1>14, <2>2 DEF DiscardCall
  <2>4. UNCHANGED <<stage, done>> /\ todo' = Abort(c) /\ faults' = faults
    BY <1>3, <1>14, <2>1 DEF DiscardCall, Proceed
  <2> QED BY <1>5, <2>3, <2>4
<1>15. CASE Calls /\ ~AbortCall /\ ~DiscardCall
  <2>1. Head(todo).op \in {"unless", "ask", "spare", "need", "await", "watch", "ensure", "try", "quit", "put",
                           "make", "copy", "leave"}
    BY <1>15 DEF Calls, UnlessCall, NeedCall, AwaitCall, GiveUp, WatchCall, EnsureCall, PutCall, MakeCall,
       CopyCall, LeaveCall, At
  <2> QED BY <1>3, <2>1
<1>16. CASE CutShort \/ AskFails \/ TryFails \/ QuitFails
  <2>1. Head(todo).op \in {"copy", "ask", "try", "quit", "leave"}
    BY <1>16 DEF CutShort, AskFails, TryFails, QuitFails, At
  <2> QED BY <1>3, <2>1
<1> HIDE DEF Goal
<1> QED BY <1>7, <1>8, <1>9, <1>10, <1>11, <1>12, <1>13, <1>14, <1>15, <1>16 DEF Next, Failures

\* Meanwhile the world stays well founded.
LEMMA DeletingNext ==
  ASSUME Types, Deleting, Next
  PROVE  Carried(Kind', world', todo') \/ Deleting'
<1>1. /\ Kind \in Kinds /\ Kind.setup = setup /\ Kind' \in Kinds /\ Kind'.setup = setup
      /\ Bare \in Kinds /\ Bare.setup = setup /\ Bare' = Bare
      /\ Sound(Bare) \subseteq Sound(Kind) /\ Sound(Kind) \subseteq Sound(Kind')
      /\ Sound(Bare) \subseteq Sound(Kind')
      /\ Kind.kept = {} /\ Kind'.goal = {} /\ Bare.kept = {}
  BY KindNext DEF Plainest
<1>2. setup' = setup /\ (faults' = faults \/ faults' = faults + 1) /\ faults \in Nat /\ MaxFaults[setup] \in Nat
  BY FaultsCounted, ProvisionAssumption DEF Types
<1>3. /\ Deletes /\ setup \in Pipelines \ Supervised /\ stage \in Clusters /\ world \in Sound(Kind)
      /\ stage = "mgmt" => faults > 0 /\ (faults = 1 => world \in Sound(Bare))
  BY DEF Deleting, Deletes
<1> DEFINE Gone == [x \in DOMAIN world |-> IF x \in {stage} \cup Within(stage) THEN "none" ELSE world[x]]
           Left(k) == Deletes' /\ UNCHANGED stage /\ (world' \in Sound(k) \/ (faults' = faults /\ world' = Gone))
<1>4. \A k \in Kinds : k.setup = setup /\ world \in Sound(k) => (Ended /\ world' \in Sound(k)) \/ Left(k)
  BY <1>3, DeletesOn
<1>5. ASSUME Ended, world' \in Sound(Kind) PROVE Carried(Kind', world', todo')
  <2>1. todo' = <<>> BY <1>5 DEF Ended
  <2> QED BY <1>1, <1>5, <2>1, CarriedEmpty
<1>6. ASSUME Left(Kind) PROVE Deleting'
  <2>1. Kind.mode \in {"firm", "lost"} /\ Bare.mode = "bare" BY DEF Kind, Firm, Lost, Bare, Asking
  <2>2. \A u : Bears(Kind, Kind.kept, u) /\ Bears(Bare, Bare.kept, u) BY <1>1 DEF Bears
  <2>3. world' \in Sound(Kind')
    <3>1. CASE world' \in Sound(Kind) BY <1>1, <3>1
    <3>2. ASSUME world' = Gone, stage = "mgmt" => Kind.mode # "firm" PROVE world' \in Sound(Kind')
      <4>1. world' \in Sound(Kind) BY <1>1, <1>3, <2>2, <3>2, DeletedSound
      <4> QED BY <1>1, <4>1
    <3>3. ASSUME faults' = faults, world' = Gone, stage = "mgmt", Kind.mode = "firm" PROVE world' \in Sound(Kind')
      <4>1. faults = 1 BY <1>2, <1>3, <2>1, <3>3 DEF Kind, Overlooked, Lost, Asking
      <4>2. world' \in Sound(Bare) BY <1>1, <1>3, <2>1, <2>2, <3>3, <4>1, DeletedSound
      <4> QED BY <1>1, <4>2
    <3> QED BY <1>6, <3>1, <3>2, <3>3
  <2>4. ASSUME stage' = "mgmt", faults' = 1 PROVE world' \in Sound(Bare)
    <3>1. stage = "mgmt" /\ faults = 1 /\ world \in Sound(Bare) BY <1>2, <1>3, <1>6, <2>4
    <3>2. Left(Bare) \/ world' \in Sound(Bare) BY <1>1, <1>4, <3>1
    <3>3. CASE world' = Gone BY <1>1, <1>3, <2>1, <2>2, <3>1, <3>3, DeletedSound
    <3> QED BY <3>2, <3>3
  <2>5. stage' = "mgmt" => faults' > 0 BY <1>2, <1>3, <1>6
  <2> QED BY <1>1, <1>6, <2>3, <2>4, <2>5 DEF Deleting
<1> HIDE DEF Gone, Left
<1> QED BY <1>1, <1>3, <1>4, <1>5, <1>6

\* An outlined request goes on as its outline says, ends, or is to delete its cluster.
LEMMA GoesOn ==
  ASSUME NEW k \in Kinds, k.setup = setup, Carried(k, world, todo), Next,
         ~ \E s \in Stages : Post(s), ~ Answer
  PROVE  /\ world' \in Sound(k)
         /\ \/ Carried(k, world', todo') /\ UNCHANGED <<stage, done>>
            \/ Ended \/ (Rescue /\ (stage = "workload" \/ Trouble)) \/ (Swallowed /\ (k.goal = {} \/ Unheard))
<1> DEFINE Goal == /\ world' \in Sound(k)
                   /\ \/ Carried(k, world', todo') /\ UNCHANGED <<stage, done>>
                      \/ Ended \/ (Rescue /\ (stage = "workload" \/ Trouble)) \/ (Swallowed /\ (k.goal = {} \/ Unheard))
<1>1. world \in Sound(k) BY CarriedSound
<1>2. ASSUME Carried(k, world', todo'), UNCHANGED <<stage, done>> PROVE Goal BY <1>2, CarriedSound
<1>3. ASSUME Shifts(k, world, world') \/ UNCHANGED world PROVE world' \in Sound(k)
  <2>1. Known(k, {}) = Sound(k) BY DEF Known, Bears
  <2> QED BY <1>1, <1>3, <2>1, ShiftKnown
<1> SUFFICES Goal OBVIOUS
<1> HIDE DEF Goal
<1>4. CASE Meanwhile
  <2>1. Shifts(k, world, world') /\ UNCHANGED request BY <1>1, <1>4, MeanwhileShifts
  <2>2. Carried(k, world', todo') BY <2>1, CarriedShifts DEF request
  <2> QED BY <1>2, <2>1, <2>2 DEF request
<1>5. CASE ClusterBreaks \/ PackageFails
  <2>1. Shifts(k, world, world') BY <1>5, BreakingShifts
  <2>2. UNCHANGED request BY <1>5 DEF ClusterBreaks, PackageFails
  <2>3. Carried(k, world', todo') BY <2>1, <2>2, CarriedShifts DEF request
  <2> QED BY <1>2, <2>2, <2>3 DEF request
<1>6. CASE Calls \/ DiscardFails \/ CutShort \/ AskFails \/ TryFails \/ QuitFails
  <2>1. CASE Carried(k, world', todo') /\ UNCHANGED <<stage, done>> BY <1>2, <2>1
  <2>2. CASE world' \in Sound(k) /\ GivenUp(k) BY <2>2 DEF GivenUp, Goal
  <2> QED BY <1>6, <2>1, <2>2, CallsCarry
<1>7. CASE Trouble
  <2>1. UNCHANGED world \/ Shifts(k, world, world') BY <1>7, BreakingShifts DEF Trouble
  <2>2. world' \in Sound(k) BY <1>3, <2>1
  <2> QED BY <1>7, <2>2 DEF Trouble, Goal
<1> QED BY <1>4, <1>5, <1>6, <1>7 DEF Next, Failures

\* So does a request under what is asked of every world.
LEMMA CarriedStep ==
  ASSUME Types, Carried(Kind, world, todo), Unbuilt, Next
  PROVE  Carried(Kind', world', todo') \/ Deleting'
<1>1. /\ Kind \in Kinds /\ Kind.setup = setup /\ Kind.mode # "bare"
      /\ Kind' \in Kinds /\ Kind'.setup = setup /\ Kind'.mode # "bare"
      /\ Bare \in Kinds /\ Bare.setup = setup /\ Bare' = Bare
      /\ Sound(Bare) \subseteq Sound(Kind) /\ Sound(Kind) \subseteq Sound(Kind')
      /\ Sound(Bare) \subseteq Sound(Kind')
      /\ Kind.goal = {} /\ Kind'.goal = {} /\ ~ Kind'.whole
  BY KindNext DEF Plainest
<1>2. setup' = setup /\ (faults' = faults \/ faults' = faults + 1) /\ faults \in Nat /\ MaxFaults[setup] \in Nat
  BY FaultsCounted, ProvisionAssumption DEF Types
<1>3. world \in Sound(Kind) BY CarriedSound
<1>4. \A w, p : Carried(Kind, w, p) => Carried(Kind', w, p) BY <1>1, CarriedLoosely
<1>5. ASSUME world' \in Sound(Kind'), todo' = <<>> PROVE Carried(Kind', world', todo') BY <1>1, <1>5, CarriedEmpty
<1>6. CASE \E s \in Stages : Post(s)
  <2>1. PICK s \in Stages : Post(s) BY <1>6
  <2>2. todo' = Program(s) /\ world' = world BY <2>1 DEF Post
  <2>3. Safe(Kind', Program(s)) BY <1>1, StageSafe
  <2> QED BY <1>1, <1>3, <2>2, <2>3, CarriedSafe
<1>7. CASE Answer
  <2>1. UNCHANGED <<world, todo>> BY <1>7 DEF Answer
  <2> QED BY <1>4, <2>1
<1>8. CASE ~ (\E s \in Stages : Post(s)) /\ ~ Answer
  <2>1. /\ world' \in Sound(Kind)
        /\ Carried(Kind, world', todo') \/ Ended \/ Swallowed \/ (Rescue /\ (stage = "workload" \/ Trouble))
    BY <1>1, <1>8, GoesOn
  <2>2. world' \in Sound(Kind') BY <1>1, <2>1
  <2>3. CASE Carried(Kind, world', todo') BY <1>4, <2>3
  <2>4. CASE Ended \/ Swallowed BY <1>5, <2>2, <2>4 DEF Ended, Swallowed
  <2>5. CASE Rescue /\ (stage = "workload" \/ Trouble)
    <3>1. /\ setup \in Pipelines \ Supervised /\ stage \in Clusters /\ todo # <<>> /\ Head(todo).op # "ask"
          /\ stage' = stage /\ todo' = Discard(stage) \o Abort(stage)
      BY <2>5 DEF Rescue, At
    <3>2. Deletes' BY <1>2, <3>1 DEF Deletes
    <3>3. ASSUME stage = "mgmt" PROVE faults' > 0 /\ (faults' = 1 => world' \in Sound(Bare))
      <4>1. Trouble /\ faults' = faults + 1 BY <2>5, <3>3 DEF Trouble
      <4>2. UNCHANGED world \/ Shifts(Bare, world, world') BY <1>1, <4>1, BreakingShifts DEF Trouble
      <4>3. ASSUME faults = 0 PROVE world' \in Sound(Bare)
        <5>1. Carried(Bare, world, todo) BY <3>1, <3>3, <4>3, AskCalls DEF Unbuilt
        <5>2. world \in Sound(Bare) BY <5>1, CarriedSound
        <5>3. Known(Bare, {}) = Sound(Bare) BY DEF Known, Bears
        <5> QED BY <1>1, <4>2, <5>2, <5>3, ShiftKnown
      <4> QED BY <1>2, <4>1, <4>3
    <3> QED BY <1>1, <2>2, <3>1, <3>2, <3>3 DEF Deleting
  <2> QED BY <2>1, <2>3, <2>4, <2>5
<1> QED BY <1>6, <1>7, <1>8

\* The task that makes the management cluster looks first whether it runs.
LEMMA UnbuiltNext ==
  ASSUME Types, Carried(Kind, world, todo) \/ Deleting, Unbuilt, Next
  PROVE  Unbuilt'
<1> SUFFICES ASSUME setup' \in Pipelines \ Supervised, stage' = "mgmt", faults' = 0, todo' # <<>>
             PROVE  \/ \E p : todo' = Ask("mgmt", Deployed, p) /\ Safe(Bare, p)
                    \/ Carried(Bare, world', todo')
  <2>1. Bare' = Bare BY KindNext
  <2> QED BY <2>1 DEF Unbuilt
<1>1. /\ Bare \in Kinds /\ Bare.setup = setup /\ Bare.mode = "bare" /\ Bare.goal = {} /\ setup' = setup
      /\ (faults' = faults \/ faults' = faults + 1) /\ faults \in Nat
  BY KindNext, FaultsCounted, ProvisionAssumption DEF Types, Bare, Asking, Plainest
<1>2. setup \in Pipelines \ Supervised /\ faults = 0 /\ faults' = faults BY <1>1
<1>3. setup \in SetupKinds \ Supervised /\ setup \in {"pipeline", "pipelineVcf"}
  BY <1>2 DEF SetupKinds, Pipelines, Supervised
<1>4. Kind = Firm BY <1>2 DEF Kind, Overlooked
<1>5. CASE \E s \in Stages : Post(s)
  <2>1. todo' = Program("mgmt") BY <1>5 DEF Post
  <2>2. Program("mgmt") = GitManagement BY <1>2 DEF Program, PipelineProgram, Pipelines, Supervised
  <2>3. Keeps(Bare, GitClusterCloud \o GitConfigManagement) BY <1>1, <1>3, GitManagementGives
  <2>4. Safe(Bare, GitClusterCloud \o GitConfigManagement)
    <3>1. {} \cup {} = {} OBVIOUS
    <3> QED BY <1>1, <2>3, <3>1 DEF Safe, Reached, Keeps, Gives, Plainest
  <2>5. GitManagement = Ask("mgmt", Deployed, GitClusterCloud \o GitConfigManagement) BY DEF GitManagement
  <2> QED BY <2>1, <2>2, <2>4, <2>5
<1>6. ASSUME UNCHANGED <<todo, stage>>, Shifts(Bare, world, world') \/ UNCHANGED world
      PROVE  \/ \E p : todo' = Ask("mgmt", Deployed, p) /\ Safe(Bare, p)
             \/ Carried(Bare, world', todo')
  <2>1. todo # <<>> /\ stage = "mgmt" BY <1>6
  <2>2. CASE \E p : todo = Ask("mgmt", Deployed, p) /\ Safe(Bare, p) BY <1>6, <2>2
  <2>3. CASE Carried(Bare, world, todo) BY <1>6, <2>3, CarriedShifts
  <2> QED BY <1>2, <2>1, <2>2, <2>3 DEF Unbuilt
<1>7. world \in Sound(Kind) BY CarriedSound DEF Deleting
<1>8. CASE Answer BY <1>6, <1>8 DEF Answer, Stages, Order
<1>9. CASE Meanwhile
  <2>1. /\ Kind \in Kinds /\ Kind.setup = setup BY KindNext
  <2>2. Shifts(Kind, world, world') /\ UNCHANGED request BY <1>7, <1>9, <2>1, MeanwhileShifts
  <2>3. Shifts(Bare, world, world')
    <3>1. PoolOf(Bare) = PoolOf(Kind) BY <1>1, <2>1 DEF PoolOf
    <3>2. \A x : Before(Bare, x) = Before(Kind, x) BY <1>1, <2>1 DEF Before, InPipeline, Orchestrating
    <3> QED BY <1>1, <2>1, <2>2, <3>1, <3>2 DEF Shifts
  <2> QED BY <1>6, <2>2, <2>3 DEF request
<1>10. CASE ClusterBreaks \/ PackageFails BY <1>2, <1>10 DEF ClusterBreaks, PackageFails
<1>11. CASE Trouble BY <1>2, <1>11 DEF Trouble
<1>12. CASE Calls \/ DiscardFails \/ CutShort \/ AskFails \/ TryFails \/ QuitFails
  <2>1. todo # <<>> /\ (UNCHANGED <<stage, done>> \/ Ended) BY <1>12, CallsTurn
  <2>2. stage = "mgmt" BY <2>1 DEF Ended
  <2>3. CASE Carried(Bare, world, todo)
    <3>1. CASE Carried(Bare, world', todo') BY <3>1
    <3>2. CASE GivenUp(Bare) BY <2>2, <3>2 DEF GivenUp, Ended, Swallowed
    <3> QED BY <1>1, <1>12, <2>3, <3>1, <3>2, CallsCarry
  <2>4. ASSUME NEW p, todo = Ask("mgmt", Deployed, p), Safe(Bare, p) PROVE Carried(Bare, world', todo')
    <3>1. /\ Head(todo).op = "ask" /\ Head(todo).x = "mgmt" /\ Head(todo).states = Deployed
          /\ Head(todo).calls = p /\ Tail(todo) = <<>>
      BY <2>4, AskCalls
    <3>2. UnlessCall
      <4>1. ~DiscardFails /\ ~CutShort /\ ~TryFails /\ ~QuitFails
        BY <3>1 DEF DiscardFails, CutShort, TryFails, QuitFails, At
      <4>2. ~AskFails BY <1>2 DEF AskFails
      <4>3. ~NeedCall /\ ~AwaitCall /\ ~GiveUp /\ ~WatchCall /\ ~EnsureCall /\ ~PutCall /\ ~MakeCall
            /\ ~DiscardCall /\ ~CopyCall /\ ~LeaveCall /\ ~AbortCall
        BY <3>1 DEF NeedCall, AwaitCall, GiveUp, WatchCall, EnsureCall, PutCall, MakeCall, DiscardCall, CopyCall,
           LeaveCall, AbortCall, At
      <4> QED BY <1>12, <4>1, <4>2, <4>3 DEF Calls
    <3>3. world["mgmt"] \notin Deployed /\ todo' = p \o <<>> /\ world' = world
      BY <3>1, <3>2 DEF UnlessCall, Is, Now, Proceed
    <3>4. p \o <<>> = p BY <2>4, JoinEmpty DEF Safe
    <3>5. world \in Sound(Bare) BY <1>3, <1>4, <1>7, <3>3, NoGuests DEF Firm, Bare
    <3> QED BY <1>1, <2>4, <3>3, <3>4, <3>5, CarriedSafe
  <2> QED BY <1>2, <2>1, <2>2, <2>3, <2>4 DEF Unbuilt
<1> QED BY <1>5, <1>8, <1>9, <1>10, <1>11, <1>12 DEF Next, Failures

\* Nothing happens, or a step of the deployment.
LEMMA FoundedNext ==
  ASSUME Founded, [Next]_vars
  PROVE  Founded'
<1>1. Types /\ (Carried(Kind, world, todo) \/ Deleting) /\ Unbuilt BY DEF Founded
<1>2. CASE Next
  <2>1. Types' BY <1>1, <1>2, TypesNext
  <2>2. Carried(Kind', world', todo') \/ Deleting' BY <1>1, <1>2, CarriedStep, DeletingNext
  <2>3. Unbuilt' BY <1>1, <1>2, UnbuiltNext
  <2> QED BY <2>1, <2>2, <2>3 DEF Founded
<1>3. CASE UNCHANGED vars
  <2>1. /\ setup' = setup /\ world' = world /\ faults' = faults /\ stage' = stage /\ todo' = todo
        /\ done' = done
    BY <1>3 DEF vars, request
  <2>2. Stages' = Stages BY <2>1 DEF Stages, Order
  <2>3. Types' BY <1>1, <2>1, <2>2 DEF Types
  <2>4. Kind' = Kind /\ Bare' = Bare BY <2>1 DEF Kind, Overlooked, Firm, Lost, Bare, Asking
  <2>5. Carried(Kind', world', todo') \/ Deleting' BY <1>1, <2>1, <2>4 DEF Deleting, Deletes
  <2>6. Unbuilt' BY <1>1, <2>1, <2>4 DEF Unbuilt
  <2> QED BY <2>3, <2>5, <2>6 DEF Founded
<1> QED BY <1>2, <1>3

\* The invariant says of the world that it is well founded.
LEMMA FoundedWorld ==
  ASSUME Founded
  PROVE  world \in Sound(Kind) /\ Kind \in Kinds /\ Kind.setup = setup
<1>1. Types /\ (Carried(Kind, world, todo) \/ Deleting) BY DEF Founded
<1>2. setup \in SetupKinds BY <1>1, ProvisionAssumption DEF Types
<1>3. world \in Sound(Kind) BY <1>1, CarriedSound DEF Deleting
<1>4. Firm \in Kinds /\ Lost \in Kinds /\ Firm.setup = setup /\ Lost.setup = setup
  BY <1>2, KindsLoosen DEF Firm, Lost, Modes, Asking
<1> QED BY <1>3, <1>4 DEF Kind

\* Each thing is in one of its states.
LEMMA FoundedTypes ==
  ASSUME Founded
  PROVE  TypeOK
<1>1. Types BY DEF Founded
<1>2. world \in Sound(Kind) /\ Kind.setup = setup BY FoundedWorld
<1>3. world \in [Concerned(setup) -> States] /\ \A x \in Concerned(setup) : world[x] \in Lives[x]
  BY <1>2 DEF Sound
<1> QED BY <1>1, <1>3 DEF TypeOK, Types

\* What there is has what it rests on, and what bears is there.
LEMMA FoundedBears ==
  ASSUME Founded
  PROVE  /\ \A x \in Concerned(setup) : There(x) => \A y \in Needs(Kind, x) : world[y] \in Solid(y)
         /\ Kind \in Kinds /\ Kind.setup = setup /\ Common \subseteq Concerned(setup)
<1>1. world \in Sound(Kind) /\ Kind \in Kinds /\ Kind.setup = setup BY FoundedWorld
<1>2. Common \subseteq Concerned(setup) BY <1>1, CommonConcerned
<1> QED BY <1>1, <1>2 DEF Sound, There

\* What the things of a network, of NSX ALB, and of the clusters rest on bears.
LEMMA BaseGrounded ==
  ASSUME Founded
  PROVE  /\ AllThere({"rules"}) => AllThere({"segments", "groups"})
         /\ \A r \in {"dnsRule", "vcenterRule", "mgwRule"} :
              There(r) => AllThere({"segments", "groups", "workSegment", "workNsxGroup"})
         /\ There("ha") => \A c \in Controllers : Is(c, {"up"})
         /\ There("cert") => There("phrase")
         /\ There("cloud") => (OnNsxt => AllThere({"vcCred", "nsxCred", "segments"}))
         /\ There("ipam") => There("vipPool") \/ (setup = "vmc" /\ Is("ipam", {"short"}))
         /\ There("cloudIpam") => AllThere({"ipam", "cloud"})
<1>1. /\ \A x \in Concerned(setup) : There(x) => \A y \in Needs(Kind, x) : world[y] \in Solid(y)
      /\ Kind.setup = setup /\ Common \subseteq Concerned(setup)
  BY FoundedBears
<1>2. \A x \in {"rules", "dnsRule", "vcenterRule", "mgwRule", "cert", "cloud", "cloudIpam", "ha", "ipam"} :
        x \in Concerned(setup)
  BY <1>1, CommonThings
<1>3. \A x \in {"segments", "groups", "workSegment", "workNsxGroup", "phrase", "vcCred", "nsxCred", "vipPool",
                "cloud"} : Solid(x) = Have
  BY DEF Solid, Controllers, Loose, Engines, Files, VcdVars
<1>4. /\ Solid("ipam") = {"short", "there"} /\ \A c \in Controllers : Solid(c) = {"up"}
  BY DEF Solid, Controllers, Loose, Engines, Files, VcdVars
<1>5. /\ Needs(Kind, "rules") = {"segments", "groups"}
      /\ \A r \in {"dnsRule", "vcenterRule", "mgwRule"} :
           Needs(Kind, r) = {"segments", "groups", "workSegment", "workNsxGroup"}
      /\ Needs(Kind, "ha") = Controllers /\ Needs(Kind, "cert") = {"phrase"}
      /\ OnNsxt => Needs(Kind, "cloud") = {"vcCred", "nsxCred", "segments"}
      /\ setup # "vmc" => Needs(Kind, "ipam") = {"vipPool"}
      /\ Needs(Kind, "cloudIpam") = {"ipam", "cloud"}
  BY <1>1 DEF Needs, Engines, Dependents, OnNsxt
<1>6. AllThere({"rules"}) => AllThere({"segments", "groups"}) BY <1>1, <1>2, <1>3, <1>5 DEF AllThere, There, Have
<1>7. ASSUME NEW r \in {"dnsRule", "vcenterRule", "mgwRule"}, There(r)
      PROVE  AllThere({"segments", "groups", "workSegment", "workNsxGroup"})
  BY <1>1, <1>2, <1>3, <1>5, <1>7 DEF AllThere, There, Have
<1>8. There("ha") => \A c \in Controllers : Is(c, {"up"}) BY <1>1, <1>2, <1>4, <1>5 DEF Is
<1>9. There("cert") => There("phrase") BY <1>1, <1>2, <1>3, <1>5 DEF There, Have
<1>10. There("cloud") /\ OnNsxt => AllThere({"vcCred", "nsxCred", "segments"})
  BY <1>1, <1>2, <1>3, <1>5 DEF AllThere, There, Have
<1>11. There("ipam") => There("vipPool") \/ (setup = "vmc" /\ Is("ipam", {"short"}))
  <2>1. CASE setup # "vmc" BY <1>1, <1>2, <1>3, <1>5, <2>1 DEF There, Have
  <2>2. CASE setup = "vmc"
    <3>1. world["ipam"] \in Lives["ipam"] /\ Profiled(world) BY <1>1, <1>2, FoundedWorld DEF Sound
    <3>2. world["ipam"] \in {"none", "short", "there"}
      <4>1. "ipam" \in Things BY <1>2 DEF Concerned
      <4> QED BY <3>1, <4>1, StatesOf
    <3> QED BY <2>2, <3>1, <3>2 DEF Profiled, There, Is
  <2> QED BY <2>1, <2>2
<1>12. There("cloudIpam") => AllThere({"ipam", "cloud"})
  BY <1>1, <1>2, <1>3, <1>4, <1>5 DEF AllThere, There, Have
<1> QED BY <1>6, <1>7, <1>8, <1>9, <1>10, <1>11, <1>12

\* The engines, the clusters and the configurations of AKO.
LEMMA ClustersGrounded ==
  ASSUME Founded
  PROVE  /\ \A e \in Engines : There(e) => AllThere({"cloud", EngineNetwork})
         /\ \A m \in {"member3", "member4"} : There(m) => There("workGroup")
         /\ There("mgmt") => AllThere({"vipPool", "mgmtFolder", "kubeOva", "cloudIpam"})
         /\ There("super") => AllThere({"library", "cert"})
         /\ There("ns") => Is("super", Deployed \cup {"off"}) /\ AllThere({"library", "workNet"})
         /\ \A x \in Dependents : There(x) => Is(Foundation, Deployed) \/ Overlooked
<1>1. /\ \A x \in Concerned(setup) : There(x) => \A y \in Needs(Kind, x) : world[y] \in Solid(y)
      /\ Kind.setup = setup /\ Common \subseteq Concerned(setup)
  BY FoundedBears
<1>2. \A x \in Engines \cup {"member3", "member4", "mgmt", "super", "ns"} \cup Dependents :
        x \in Concerned(setup)
  BY <1>1, CommonThings DEF Clusters, Supervisor, Dependents
<1>3. \A x \in {"cloud", "vipPool", "workGroup", "mgmtFolder", "kubeOva", "cloudIpam", "library", "cert",
                "workNet"} : Solid(x) = Have
  BY DEF Solid, Controllers, Loose, Engines, Files, VcdVars
<1>4. Solid("super") = Deployed \cup {"off"} /\ Solid("mgmt") = Deployed /\ Solid("ns") = Deployed
  BY DEF Solid, Controllers, Loose, Engines, Files, VcdVars
<1>5. /\ \A e \in Engines : {"cloud", EngineNetwork} \subseteq Needs(Kind, e)
      /\ \A m \in {"member3", "member4"} : Needs(Kind, m) = {"workGroup"}
      /\ {"vipPool", "mgmtFolder", "kubeOva", "cloudIpam"} \subseteq Needs(Kind, "mgmt")
      /\ Needs(Kind, "super") = {"library", "cert"}
      /\ Needs(Kind, "ns") = {"super", "library", "workNet"}
      /\ \A x \in Dependents : OnGuest(Kind) \subseteq Needs(Kind, x)
  BY <1>1 DEF Needs, PoolOf, EngineNetwork, Engines, Dependents
<1>6. ASSUME NEW e \in Engines, There(e) PROVE AllThere({"cloud", EngineNetwork})
  <2>1. "none" \notin Solid("cloud") /\ "none" \notin Solid(EngineNetwork)
    BY DEF EngineNetwork, Solid, Controllers, Loose, Engines, Files, VcdVars, Have
  <2> QED BY <1>1, <1>2, <1>5, <1>6, <2>1 DEF AllThere, There
<1>7. ASSUME NEW m \in {"member3", "member4"}, There(m) PROVE There("workGroup")
  BY <1>1, <1>2, <1>3, <1>5, <1>7 DEF There, Have
<1>8. There("mgmt") => AllThere({"vipPool", "mgmtFolder", "kubeOva", "cloudIpam"})
  BY <1>1, <1>2, <1>3, <1>5 DEF AllThere, There, Have
<1>9. There("super") => AllThere({"library", "cert"}) BY <1>1, <1>2, <1>3, <1>5 DEF AllThere, There, Have
<1>10. There("ns") => Is("super", Deployed \cup {"off"}) /\ AllThere({"library", "workNet"})
  BY <1>1, <1>2, <1>3, <1>4, <1>5 DEF AllThere, There, Have, Is
<1>11. ASSUME NEW x \in Dependents, There(x), ~Overlooked PROVE Is(Foundation, Deployed)
  <2>1. Kind = Firm /\ Kind.mode = "firm" BY <1>11 DEF Kind, Firm, Asking
  <2>2. OnGuest(Kind) = {Foundation} BY <1>1, <2>1 DEF OnGuest, Foundation
  <2>3. Solid(Foundation) = Deployed BY <1>4 DEF Foundation
  <2> QED BY <1>1, <1>2, <1>5, <1>11, <2>2, <2>3 DEF Is
<1> QED BY <1>6, <1>7, <1>8, <1>9, <1>10, <1>11

\* The packages.
LEMMA FoundedPackages ==
  ASSUME Founded
  PROVE  PackagesGrounded
<1>1. /\ \A x \in Concerned(setup) : There(x) => \A y \in Needs(Kind, x) : world[y] \in Solid(y)
      /\ Kind \in Kinds /\ Kind.setup = setup /\ Common \subseteq Concerned(setup)
  BY FoundedBears
<1>2. \A x \in Packages : x \in Concerned(setup) BY <1>1, CommonThings
<1>3. /\ {"sharedCert", "workCert", "sharedContour", "workContour", "harbor", "prometheus", "grafana", "fluent",
          "workRepo", "kapp"} \subseteq Packages
  BY DEF Packages, OnShared, OnWorkload
<1>4. \A x \in {"sharedCert", "workCert", "sharedContour", "workContour", "workRepo", "kapp"} : Solid(x) = Have
  BY <1>1, <1>3, PackageSolid
<1>5. \A x \in {"sharedRepo", "roleBinding", "sharedAko", "workAko"} : Solid(x) = Have
  BY DEF Solid, Controllers, Loose, Engines, Files, VcdVars
<1>6. Solid("shared") = Started /\ Solid("workload") = Started
  BY DEF Solid, Controllers, Loose, Engines, Files, VcdVars
<1>7. /\ Needs(Kind, "sharedCert") = {"sharedRepo", "shared"} /\ Needs(Kind, "workCert") = {"workRepo", "workload"}
      /\ Needs(Kind, "harbor") = IF setup \in Supervised THEN {"workCert", "workContour"}
                                 ELSE {"sharedCert", "sharedContour"}
      /\ Needs(Kind, "prometheus") = {"workContour"}
      /\ Needs(Kind, "grafana") = {"workRepo", "workload"} /\ Needs(Kind, "fluent") = {"workRepo", "workload"}
  BY <1>1, PackageNeeds
<1>8. /\ Needs(Kind, "sharedContour") = {"sharedCert"}
            \cup IF setup \in Supervised \cup Pipelines THEN {} ELSE {"sharedAko"}
      /\ Needs(Kind, "workContour") = {"workCert"}
            \cup IF setup \in Supervised \cup Pipelines THEN {} ELSE {"workAko"}
      /\ setup \in Supervised => Needs(Kind, "workRepo") = {"roleBinding", "kapp"}
  BY <1>1 DEF Needs, Engines, Dependents
<1>9. /\ Kit["shared"] = [repo |-> "sharedRepo", cert |-> "sharedCert", contour |-> "sharedContour",
                          ako |-> "sharedAko"]
      /\ Kit["workload"] = [repo |-> "workRepo", cert |-> "workCert", contour |-> "workContour",
                            ako |-> "workAko"]
  BY DEF Kit
<1>10. ASSUME NEW c \in {"shared", "workload"}
       PROVE  /\ There(Kit[c].cert) => There(Kit[c].repo) /\ Is(c, Started)
              /\ There(Kit[c].contour) => Is(Kit[c].cert, Have)
              /\ There(Kit[c].contour) /\ setup \notin Supervised \cup Pipelines => There(Kit[c].ako)
  <2>1. CASE c = "shared" BY <2>1, <1>1, <1>2, <1>3, <1>4, <1>5, <1>6, <1>7, <1>8, <1>9 DEF There, Is, Have
  <2>2. CASE c = "workload" BY <2>2, <1>1, <1>2, <1>3, <1>4, <1>5, <1>6, <1>7, <1>8, <1>9 DEF There, Is, Have
  <2> QED BY <2>1, <2>2
<1>11. There("harbor") =>
         LET c == IF setup \in Supervised THEN "workload" ELSE "shared"
         IN  Reconciled({Kit[c].cert, Kit[c].contour})
  BY <1>1, <1>2, <1>3, <1>4, <1>7, <1>9 DEF Reconciled, Is
<1>12. There("prometheus") => Is("workContour", Have) BY <1>1, <1>2, <1>3, <1>4, <1>7 DEF Is
<1>13. There("grafana") \/ There("fluent") => There("workRepo") /\ Is("workload", Started)
  BY <1>1, <1>2, <1>3, <1>4, <1>6, <1>7 DEF There, Is, Have
<1>14. There("workRepo") /\ setup \in Supervised => There("roleBinding") /\ Is("kapp", Have)
  BY <1>1, <1>2, <1>3, <1>4, <1>5, <1>8 DEF There, Is, Have
<1> QED BY <1>10, <1>11, <1>12, <1>13, <1>14 DEF PackagesGrounded

\* What was set up in Cloud Director.
LEMMA FoundedVcd ==
  ASSUME Founded, setup = "vcd"
  PROVE  VcdGrounded
<1>1. /\ \A x \in Concerned(setup) : There(x) => \A y \in Needs(Kind, x) : world[y] \in Solid(y)
      /\ Kind \in Kinds /\ Kind.setup = "vcd" /\ Common \subseteq Concerned(setup)
  BY FoundedBears
<1> DEFINE T == (Director \cup {"cseTemplate"}) \ VcdVars
<1>2. \A x \in T : x \in Concerned(setup) /\ Solid(x) = Have BY <1>1, DirectorThings
<1>3. {"vcdCert", "vcdCtrl", "vcdCloud", "vcdSeg", "org", "orgVdc", "edge", "orgNetwork", "cseCatalog",
       "k8sCatalog", "keAccess", "capAccess", "keEntity", "capEntity", "vapp", "cseTemplate", "keConfig",
       "token"} \subseteq T
  BY DEF Director, VcdVars
<1>4. Solid("cloud") = Have /\ Solid("mgmtGroup") = Have
  BY DEF Solid, Controllers, Loose, Engines, Files, VcdVars
<1>5. /\ Needs(Kind, "vcdCtrl") = {"vcdCert"} /\ Needs(Kind, "vcdCloud") = {"cloud", "vcdCtrl"}
      /\ Needs(Kind, "vcdSeg") = {"mgmtGroup", "vcdCloud"} /\ Needs(Kind, "edge") = {"vcdSeg", "org", "orgVdc"}
      /\ Needs(Kind, "orgNetwork") = {"edge"}
      /\ \A x \in {"cseCatalog", "k8sCatalog", "orgVdc"} : Needs(Kind, x) = {"org"}
      /\ \A x \in {"keAccess", "capAccess"} : Needs(Kind, x) = {"org", "keEntity", "capEntity"}
      /\ Needs(Kind, "vapp") = {"orgNetwork", "cseTemplate", "keConfig", "token"}
  BY <1>1, DirectorNeeds
<1> HIDE DEF T
<1>6. There("vcdCtrl") => There("vcdCert") BY <1>1, <1>2, <1>3, <1>5 DEF There, Have
<1>7. There("vcdCloud") => AllThere({"cloud", "vcdCtrl"})
  BY <1>1, <1>2, <1>3, <1>4, <1>5 DEF AllThere, There, Have
<1>8. There("vcdSeg") => AllThere({"mgmtGroup", "vcdCloud"})
  BY <1>1, <1>2, <1>3, <1>4, <1>5 DEF AllThere, There, Have
<1>9. There("edge") => AllThere({"vcdSeg", "org", "orgVdc"}) BY <1>1, <1>2, <1>3, <1>5 DEF AllThere, There, Have
<1>10. There("orgNetwork") => There("edge") BY <1>1, <1>2, <1>3, <1>5 DEF There, Have
<1>11. \A x \in {"cseCatalog", "k8sCatalog", "orgVdc", "keAccess", "capAccess"} : There(x) => There("org")
  BY <1>1, <1>2, <1>3, <1>5 DEF There, Have
<1>12. There("keAccess") \/ There("capAccess") => AllThere({"keEntity", "capEntity"})
  BY <1>1, <1>2, <1>3, <1>5 DEF AllThere, There, Have
<1>13. There("vapp") => AllThere({"orgNetwork", "cseTemplate", "keConfig", "token"})
  BY <1>1, <1>2, <1>3, <1>5 DEF AllThere, There, Have
<1> QED BY <1>6, <1>7, <1>8, <1>9, <1>10, <1>11, <1>12, <1>13 DEF VcdGrounded

\* What is well founded is built on nothing that is missing.
LEMMA FoundedGrounded ==
  ASSUME Founded
  PROVE  Grounded
<1>1. setup = "vcd" => VcdGrounded BY FoundedVcd
<1>2. PackagesGrounded BY FoundedPackages
<1> QED BY <1>1, <1>2, BaseGrounded, ClustersGrounded DEF Grounded

-----------------------------------------------------------------------------
(* What a stage has to show is kept.                                       *)

\* What a stage that was answered has to show is there and stays there, whatever the
\* request that is served is left with.
Vowed(x) == Carried(Keeping(x), world, todo) \/ (Deletes /\ world \in Sound(Keeping(x)))

\* The request leads to what its stage has to show, or will not be answered.
Sought(y) == Carried(Aiming(y), world, todo) \/ Deletes

\* A pipeline runs its tasks in turn, and starts with none of them done.
InTurns ==
  setup \in Pipelines \ Supervised =>
    IF stage = "idle" THEN done \in {Earlier(s) : s \in Stages} \cup {Stages} ELSE done = Earlier(stage)

Promised ==
  /\ Founded
  /\ InTurns
  /\ \A s \in done : \A x \in Own(s) : Vowed(x)
  /\ stage # "idle" => \A y \in Own(stage) : Sought(y)

\* The frail ones are pledges, no things.
LEMMA FrailThings == \A x \in Things : x \notin Frail
BY DEF Things, Frail, Controllers, Engines, Clusters, Supervisor, Files, Packages, OnShared, OnWorkload, Plain, Pushed,
   Director, VcdVars

\* What stages have to show; that others may be about to change it matters for the power
\* of the supervisor and for the import of the cloud.
LEMMA OwnThings ==
  ASSUME setup \in SetupKinds, NEW s \in Stages, NEW x \in Own(s)
  PROVE  /\ x \in Promises \ Shaky
         /\ x \in Frail => s \in {"shutdown", "bringup", "cloud"}
         /\ setup \in Pipelines => s # "ext"
         /\ setup \in Pipelines \ Supervised => <<s, x>> \in {<<"mgmt", "mgmtMade">>, <<"shared", "sharedRuns">>,
                                                              <<"workload", "workRuns">>}
<1> DEFINE Goal == /\ x \in Promises \ Shaky
                   /\ x \in Frail => s \in {"shutdown", "bringup", "cloud"}
                   /\ setup \in Pipelines => s # "ext"
                   /\ setup \in Pipelines \ Supervised =>
                        <<s, x>> \in {<<"mgmt", "mgmtMade">>, <<"shared", "sharedRuns">>, <<"workload", "workRuns">>}
<1>1. SUFFICES Goal OBVIOUS
<1>2. CASE setup \in Pipelines \ Supervised
  <2>1. s \in {"alb", "mgmt", "shared", "workload", "ext"} BY <1>2, StagesAre
  <2>2. setup \in Pipelines /\ setup # "vmc" /\ setup \notin Supervised BY <1>2 DEF Pipelines
  <2>3. s = "alb" => Own(s) = {} BY <2>2 DEF Own
  <2>4. s = "mgmt" => Own(s) = {"mgmtMade"} BY <2>2 DEF Own
  <2>5. s = "shared" => Own(s) = {"sharedRuns"} BY <2>2 DEF Own
  <2>6. s = "workload" => Own(s) = {"workRuns"} BY <2>2 DEF Own
  <2>7. s = "ext" => Own(s) = {} BY <2>2 DEF Own
  <2>8. <<s, x>> \in {<<"mgmt", "mgmtMade">>, <<"shared", "sharedRuns">>, <<"workload", "workRuns">>}
    BY <2>1, <2>3, <2>4, <2>5, <2>6, <2>7
  <2>9. x \in {"mgmtMade", "sharedRuns", "workRuns"} /\ s # "ext" BY <2>8
  <2>10. x \in Promises \ Shaky /\ x \notin Frail BY <2>9 DEF Promises, Shaky, Frail
  <2> QED BY <2>8, <2>9, <2>10
<1>3. ASSUME setup \notin Pipelines \/ s \in {"alb", "wcp", "enable", "ns", "workload"},
             setup \notin Pipelines \ Supervised
      PROVE  Goal
  <2>1. s \in {"env", "alb", "mgmt", "shared", "wpre", "wcp", "enable", "ns", "workload", "ext", "cloud", "org", "cse",
               "shutdown", "bringup"}
    <3>1. CASE setup \in {"vcf", "vmc"} BY <3>1, StagesAre
    <3>2. CASE setup \in {"orchestrated", "manual"} BY <3>2, StagesAre
    <3>3. CASE setup \in {"tkgs", "pipelineTkgs"} BY <3>3, StagesAre
    <3>4. CASE setup = "vcd" BY <3>4, StagesAre
    <3> QED BY <1>3, <3>1, <3>2, <3>3, <3>4 DEF SetupKinds, Pipelines, Supervised
  <2>2. setup \in Pipelines => s # "ext" BY <1>3
  <2>3. /\ \A y \in Common : y \in Promises \ Shaky /\ y \notin Frail
        /\ Free \subseteq Common /\ Controllers \cup Engines \cup Clusters \cup Packages \subseteq Common
        /\ {"rules", "mgwRule", "cert", "ha", "cloud", "cloudIpam", "member3", "member4"} \subseteq Common
    <3>1. \A y \in Common : y \in Things /\ y \notin Director BY DEF Common
    <3>2. Shaky \subseteq Director BY DEF Shaky, Director
    <3>3. \A y \in Things : y \notin Frail BY FrailThings
    <3> QED BY <3>1, <3>2, <3>3, CommonThings DEF Promises
  <2>4. ASSUME x \in Promises \ Shaky, x \notin Frail PROVE Goal BY <1>3, <2>2, <2>4
  <2>5. ASSUME NEW P, P \subseteq Common, x \in P PROVE Goal BY <2>3, <2>4, <2>5
  <2>6. ASSUME x \in {"mgmtMade", "superMade", "superServed", "sharedRuns", "workRuns", "joined1", "joined2", "joined3",
                      "joined4"}
        PROVE  Goal
    <3>1. x \in Promises \ Shaky /\ x \notin Frail BY <2>6 DEF Promises, Shaky, Frail
    <3> QED BY <2>4, <3>1
  <2> HIDE DEF Goal
  <2>7. CASE s = "env"
    <3>1. x \in {"segments", "groups", "services", "policy"} \cup {"rules"} BY <2>7 DEF Own
    <3>2. {"segments", "groups", "services", "policy"} \subseteq Free BY DEF Free, Plain
    <3> QED BY <2>3, <2>5, <3>1, <3>2
  <2>8. CASE s = "alb"
    <3> DEFINE N == {"albPool", "password", "settings", "phrase", "portal"}
    <3>1. x \in Controllers \cup N \cup {"cert", "ha"} \/ x = "vcdCtrl" BY <2>8 DEF Own, AlbOwn
    <3>2. N \subseteq Free BY DEF Free, Plain
    <3> HIDE DEF N
    <3>3. Controllers \cup N \cup {"cert", "ha"} \subseteq Common BY <2>3, <3>2
    <3>4. "vcdCtrl" \in Promises \ Shaky /\ "vcdCtrl" \notin Frail BY DEF Promises, Things, Director, Shaky, Frail
    <3> QED BY <2>4, <2>5, <3>1, <3>3, <3>4
  <2>9. CASE s = "mgmt"
    <3> DEFINE N == {"mgmtGroup", "route", "workGroup", "member1", "member2"}
    <3>1. x \in N \cup {"mgmt", "e1"} \/ x \in {"mgmtMade", "joined1", "joined2"}
      BY <2>9 DEF Own, VmcManagementOwn, CloudOwn, EnginesOwn
    <3>2. N \subseteq Free /\ "mgmt" \in Clusters /\ "e1" \in Engines BY DEF Free, Plain, Clusters, Engines
    <3> HIDE DEF N
    <3>3. N \cup {"mgmt", "e1"} \subseteq Common BY <2>3, <3>2
    <3> QED BY <2>5, <2>6, <3>1, <3>3
  <2>10. CASE s = "shared"
    <3>1. x \in {"harbor", "label"} \/ x = "sharedRuns" BY <2>10 DEF Own
    <3>2. "harbor" \in Packages /\ "label" \in Free BY DEF Free, Plain, Packages
    <3>3. {"harbor", "label"} \subseteq Common BY <2>3, <3>2
    <3> QED BY <2>5, <2>6, <3>1, <3>3
  <2>11. CASE s = "wpre"
    <3> DEFINE N == {"workPool", "workGroup"}
    <3>1. x \in N \cup {"mgmt", "e3", "member3", "member4"} \/ x \in {"joined3", "joined4"}
      BY <2>11 DEF Own, PreconfigOwn, WorkEnginesOwn
    <3>2. N \subseteq Free /\ "mgmt" \in Clusters /\ "e3" \in Engines BY DEF Free, Plain, Clusters, Engines
    <3> HIDE DEF N
    <3>3. N \cup {"mgmt", "e3", "member3", "member4"} \subseteq Common BY <2>3, <3>2
    <3> QED BY <2>5, <2>6, <3>1, <3>3
  <2>12. CASE s = "workload"
    <3>1. x \in {"workRules", "mgwRule", "workload", "workAko"} \/ x = "workRuns" BY <2>12 DEF Own
    <3>2. {"workRules", "workAko"} \subseteq Free /\ "workload" \in Clusters BY DEF Free, Plain, Clusters
    <3>3. {"workRules", "mgwRule", "workload", "workAko"} \subseteq Common BY <2>3, <3>2
    <3> QED BY <2>5, <2>6, <3>1, <3>3
  <2>13. CASE s = "ext"
    <3>1. x \in {"prometheus", "grafana", "fluent"} BY <2>13 DEF Own
    <3>2. {"prometheus", "grafana", "fluent"} \subseteq Common BY <2>3 DEF Packages, OnWorkload
    <3> QED BY <2>5, <3>1, <3>2
  <2>14. CASE s = "wcp"
    <3>1. x \in WcpOwn BY <2>14 DEF Own
    <3>2. WcpOwn \ {"cloudIpam"} \subseteq Free BY DEF Free, Plain, WcpOwn
    <3>3. WcpOwn \subseteq Common BY <2>3, <3>2
    <3> QED BY <2>5, <3>1, <3>3
  <2>15. CASE s \in {"enable", "ns"}
    <3>1. x \in {"superServed", "superMade"} BY <2>15 DEF Own
    <3> QED BY <2>6, <3>1
  <2>16. CASE s \in {"org", "cse"}
    <3>1. x \in {"edge"} \cup CseOwn BY <2>16 DEF Own
    <3>2. {"kubeOva"} \subseteq Common BY <2>3 DEF Free, Plain, Pushed, Files
    <3>3. x \in {"edge", "plugin", "keEntity", "capEntity", "cseUser", "vapp"} =>
            x \in Promises \ Shaky /\ x \notin Frail
      BY DEF Promises, Things, Director, Shaky, Frail
    <3>4. x \in {"kubeOva"} \/ x \in {"edge", "plugin", "keEntity", "capEntity", "cseUser", "vapp"}
      BY <3>1 DEF CseOwn
    <3> QED BY <2>4, <2>5, <3>2, <3>3, <3>4
  <2>17. CASE s \in {"cloud", "shutdown", "bringup"}
    <3>1. x \in {"cloud", "mgmtGroup"} \/ x \in {"imported", "shut", "superRuns"} BY <2>17 DEF Own
    <3>2. "mgmtGroup" \in Free BY DEF Free, Plain
    <3>3. {"cloud", "mgmtGroup"} \subseteq Common BY <2>3, <3>2
    <3>4. x \in {"imported", "shut", "superRuns"} => x \in Promises \ Shaky BY DEF Promises, Shaky
    <3>5. x \in {"imported", "shut", "superRuns"} => Goal BY <1>3, <2>2, <2>17, <3>4 DEF Goal
    <3> QED BY <2>5, <3>1, <3>3, <3>5
  <2> QED BY <2>1, <2>7, <2>8, <2>9, <2>10, <2>11, <2>12, <2>13, <2>14, <2>15, <2>16, <2>17
<1>4. ASSUME setup = "pipelineTkgs" PROVE s \in {"alb", "wcp", "enable", "ns", "workload"}
  <2>1. s \in {"alb", "wcp", "enable", "ns", "workload", "ext"} BY <1>4, StagesAre
  <2>2. s = "ext" => Own(s) = {} BY <1>4 DEF Own, Pipelines
  <2> QED BY <2>1, <2>2
<1>5. setup \in Pipelines \cap Supervised => setup = "pipelineTkgs" BY DEF Pipelines, Supervised
<1> HIDE DEF Goal
<1> QED BY <1>2, <1>3, <1>4, <1>5

\* It depends on the setup only.
LEMMA OwnSame ==
  ASSUME setup' = setup
  PROVE  /\ Stages' = Stages /\ \A s : Own(s)' = Own(s) /\ Earlier(s)' = Earlier(s)
         /\ \A x : Keeping(x)' = Keeping(x) /\ Aiming(x)' = Aiming(x)
<1>1. Order' = Order BY DEF Order
<1>2. CloudOwn' = CloudOwn /\ PreconfigOwn' = PreconfigOwn /\ VmcManagementOwn' = VmcManagementOwn
  BY DEF CloudOwn, PreconfigOwn, VmcManagementOwn
<1>3. ASSUME NEW s PROVE Own(s)' = Own(s) BY <1>2 DEF Own
<1>4. ASSUME NEW s PROVE Earlier(s)' = Earlier(s) BY <1>1 DEF Earlier
<1> QED BY <1>1, <1>3, <1>4 DEF Stages, Keeping, Aiming

\* The tasks of a pipeline before each of them.
LEMMA EarlierAre ==
  ASSUME setup \in Pipelines \ Supervised
  PROVE  /\ Earlier("alb") = {} /\ Earlier("mgmt") = {"alb"} /\ Earlier("shared") = {"alb", "mgmt"}
         /\ Earlier("workload") = {"alb", "mgmt", "shared"}
         /\ Earlier("ext") = {"alb", "mgmt", "shared", "workload"}
         /\ Order[1] = "alb"
<1>1. Order = <<"alb", "mgmt", "shared", "workload", "ext">> BY DEF Order, Pipelines, Supervised
<1>2. DOMAIN Order = 1 .. 5 BY <1>1
<1>3. \A j \in 1 .. 5 : j \in {1, 2, 3, 4, 5} OBVIOUS
<1>4. \A s : Earlier(s) = {Order[i] : i \in {j \in 1 .. 5 : \E k \in 1 .. 5 : j < k /\ Order[k] = s}}
  BY <1>2 DEF Earlier
<1>5. Earlier("alb") = {} BY <1>1, <1>3, <1>4
<1>6. Earlier("mgmt") = {"alb"} BY <1>1, <1>3, <1>4
<1>7. Earlier("shared") = {"alb", "mgmt"} BY <1>1, <1>3, <1>4
<1>8. Earlier("workload") = {"alb", "mgmt", "shared"} BY <1>1, <1>3, <1>4
<1>9. Earlier("ext") = {"alb", "mgmt", "shared", "workload"} BY <1>1, <1>3, <1>4
<1> QED BY <1>1, <1>5, <1>6, <1>7, <1>8, <1>9

\* But when a stage is posted or answered the request stays with its stage, or ends.
LEMMA StaysOrEnds ==
  ASSUME Next, ~ \E s \in Stages : Post(s), ~ Answer
  PROVE  UNCHANGED <<stage, done>> \/ Ended
<1>1. CASE Calls \/ DiscardFails \/ CutShort \/ AskFails \/ TryFails \/ QuitFails BY <1>1, CallsTurn
<1>2. CASE Trouble BY <1>2 DEF Trouble, Rescue, Swallowed
<1>3. CASE Meanwhile
  <2>1. UNCHANGED request
    BY <1>3 DEF Meanwhile, ControllerUp, NodesActive, DefaultCloud, Discovered, EngineStarted, EngineUp,
       EngineConnects, ClusterServes, ClusterRuns, AkoStarts, PackageReconciled, PoweredOn, Outside
  <2> QED BY <2>1 DEF request
<1>4. CASE ClusterBreaks \/ PackageFails BY <1>4 DEF ClusterBreaks, PackageFails, request
<1> QED BY <1>1, <1>2, <1>3, <1>4 DEF Next, Failures

\* The tasks of a pipeline are done in turn.
LEMMA InTurnsNext ==
  ASSUME Types, InTurns, Next
  PROVE  InTurns'
<1>1. setup' = setup BY FaultsCounted
<1>2. Stages' = Stages /\ \A s : Earlier(s)' = Earlier(s) BY <1>1, OwnSame
<1> SUFFICES ASSUME setup \in Pipelines \ Supervised
             PROVE  IF stage' = "idle" THEN done' \in {Earlier(s) : s \in Stages} \cup {Stages}
                    ELSE done' = Earlier(stage')
  BY <1>1, <1>2 DEF InTurns
<1>3. Stages = {"alb", "mgmt", "shared", "workload", "ext"} BY StagesAre
<1>4. /\ Earlier("alb") = {} /\ Earlier("mgmt") = {"alb"} /\ Earlier("shared") = {"alb", "mgmt"}
      /\ Earlier("workload") = {"alb", "mgmt", "shared"}
      /\ Earlier("ext") = {"alb", "mgmt", "shared", "workload"}
      /\ Order[1] = "alb"
  BY EarlierAre
<1>5. CASE \E s \in Stages : Post(s)
  <2>1. PICK s \in Stages : Post(s) BY <1>5
  <2>2. /\ stage = "idle" /\ stage' = s /\ s # "idle"
        /\ s = "alb" \/ (s \notin done /\ Earlier(s) \subseteq done)
        /\ done' = IF s = "alb" THEN {} ELSE done \ {s}
    BY <1>3, <1>4, <2>1 DEF Post, InTurn
  <2>3. done \in {{}, {"alb"}, {"alb", "mgmt"}, {"alb", "mgmt", "shared"}, {"alb", "mgmt", "shared", "workload"}, Stages}
    BY <1>3, <1>4, <2>2 DEF InTurns
  <2>4. CASE s = "alb" BY <1>4, <2>2, <2>4
  <2>5. CASE s = "mgmt" BY <1>3, <1>4, <2>2, <2>3, <2>5
  <2>6. CASE s = "shared" BY <1>3, <1>4, <2>2, <2>3, <2>6
  <2>7. CASE s = "workload" BY <1>3, <1>4, <2>2, <2>3, <2>7
  <2>8. CASE s = "ext" BY <1>3, <1>4, <2>2, <2>3, <2>8
  <2> QED BY <1>3, <2>4, <2>5, <2>6, <2>7, <2>8
<1>6. CASE Answer
  <2>1. stage # "idle" /\ stage \in Stages /\ stage' = "idle" /\ done' = done \cup {stage}
    BY <1>6 DEF Answer, Types
  <2>2. done' = Earlier(stage) \cup {stage} BY <2>1 DEF InTurns
  <2>3. Earlier("alb") \cup {"alb"} = Earlier("mgmt") /\ Earlier("mgmt") \cup {"mgmt"} = Earlier("shared")
    BY <1>4
  <2>4. /\ Earlier("shared") \cup {"shared"} = Earlier("workload")
        /\ Earlier("workload") \cup {"workload"} = Earlier("ext")
        /\ Earlier("ext") \cup {"ext"} = Stages
    BY <1>3, <1>4
  <2> QED BY <1>3, <2>1, <2>2, <2>3, <2>4
<1>7. CASE ~ (\E s \in Stages : Post(s)) /\ ~ Answer
  <2>1. UNCHANGED <<stage, done>> \/ Ended BY <1>7, StaysOrEnds
  <2>2. CASE UNCHANGED <<stage, done>> BY <2>2 DEF InTurns
  <2>3. CASE Ended
    <3>1. stage' = "idle" /\ done' = {} BY <2>3 DEF Ended
    <3> QED BY <1>3, <1>4, <3>1
  <2> QED BY <2>1, <2>2, <2>3
<1> QED BY <1>5, <1>6, <1>7

\* What is vowed of a stage that was answered is kept while another is served, also where
\* its cluster is deleted: nothing that a pipeline has to show goes with a later one.
LEMMA VowGoesOn ==
  ASSUME Types, InTurns, Next, ~ \E s \in Stages : Post(s), ~ Answer, NEW s \in done, NEW x \in Own(s), Vowed(x)
  PROVE  Vowed(x)'
<1> DEFINE k == Keeping(x)
<1>1. setup \in SetupKinds /\ s \in Stages BY ProvisionAssumption DEF Types
<1>2. x \in Promises \ Shaky BY <1>1, OwnThings
<1>3. /\ k \in Kinds /\ k.setup = setup /\ k.mode # "bare"
  BY <1>1, <1>2, KeepingKinds
<1>4. k.goal = {} /\ k.kept = {x} /\ k.mode = "lost" BY DEF Keeping
<1>5. setup' = setup /\ k' = k BY FaultsCounted, OwnSame
<1> HIDE DEF k
<1>6. ASSUME world' \in Sound(k), todo' = <<>> PROVE Carried(k, world', todo') BY <1>3, <1>4, <1>6, CarriedEmpty
<1>7. ASSUME Carried(k, world', todo') \/ (Deletes' /\ world' \in Sound(k)) PROVE Vowed(x)'
  BY <1>5, <1>7 DEF Vowed, k
<1>8. CASE Carried(k, world, todo)
  <2>1. /\ world' \in Sound(k)
        /\ Carried(k, world', todo') \/ Ended \/ Rescue \/ Swallowed
    BY <1>3, <1>8, GoesOn
  <2>2. Ended \/ Swallowed => todo' = <<>> BY DEF Ended, Swallowed
  <2>3. Rescue => Deletes' BY <1>5 DEF Rescue, Deletes
  <2> QED BY <1>6, <1>7, <2>1, <2>2, <2>3
<1>9. CASE Deletes /\ world \in Sound(k)
  <2> DEFINE D == {stage} \cup Within(stage)
             Gone == [y \in DOMAIN world |-> IF y \in D THEN "none" ELSE world[y]]
  <2>1. \/ Ended /\ world' \in Sound(k)
        \/ Deletes' /\ (world' \in Sound(k) \/ world' = Gone)
    BY <1>3, <1>9, DeletesOn
  <2>2. CASE Ended /\ world' \in Sound(k) BY <1>6, <1>7, <2>2 DEF Ended
  <2>3. CASE Deletes' /\ world' \in Sound(k) BY <1>7, <2>3
  <2>4. CASE Deletes' /\ world' = Gone
    <3>1. setup \in Pipelines \ Supervised /\ stage \in Clusters BY <1>9 DEF Deletes
    <3>2. /\ <<s, x>> \in {<<"mgmt", "mgmtMade">>, <<"shared", "sharedRuns">>, <<"workload", "workRuns">>}
          /\ s \in Earlier(stage)
      BY <1>1, <3>1, OwnThings DEF InTurns, Clusters
    <3>3. \/ stage \in {"shared", "workload"} /\ x = "mgmtMade"
          \/ stage = "workload" /\ x = "sharedRuns"
      BY <3>1, <3>2, EarlierAre DEF Clusters
    <3>4. world \in [Concerned(setup) -> States] /\ Bears(k, {x}, world) BY <1>3, <1>4, <1>9 DEF Sound
    <3>5. /\ "shared" \notin {"workload"} \cup Within("workload")
          /\ \A c \in {"shared", "workload"} : "mgmt" \notin {c} \cup Within(c)
      BY DEF Within, OnShared, OnWorkload
    <3>6. {"mgmt", "shared"} \subseteq Concerned(setup) BY <1>3, CommonThings, CommonConcerned DEF Clusters
    <3>7. x = "mgmtMade" => Gone["mgmt"] = world["mgmt"] BY <3>3, <3>4, <3>5, <3>6
    <3>8. x = "sharedRuns" => Gone["shared"] = world["shared"] BY <3>3, <3>4, <3>5, <3>6
    <3> HIDE DEF Gone
    <3>9. Met(x, Gone) <=> Met(x, world) BY <3>3, <3>7, <3>8 DEF Met
    <3>10. x \notin Bearing(k)
      <4>1. x \notin Things
        BY <3>3 DEF Things, Controllers, Engines, Clusters, Supervisor, Files, Packages, OnShared, OnWorkload,
           Plain, Pushed, Director, VcdVars
      <4> QED BY <3>3, <4>1 DEF Bearing, Concerned
    <3>11. Bears(k, k.kept, Gone) BY <1>4, <3>4, <3>9, <3>10 DEF Bears
    <3>12. Gone \in Sound(k) BY <1>3, <1>4, <1>9, <3>1, <3>11, DeletedSound DEF Gone
    <3> QED BY <1>7, <2>4, <3>12
  <2> QED BY <2>1, <2>2, <2>3, <2>4
<1> QED BY <1>8, <1>9 DEF Vowed, k

\* A request that is not given up leads to what its stage has to show.
LEMMA SoughtGoesOn ==
  ASSUME Founded, Next, ~ \E s \in Stages : Post(s), ~ Answer, stage # "idle", NEW y \in Own(stage), Sought(y)
  PROVE  stage' = "idle" \/ (stage' = stage /\ Sought(y)')
<1> DEFINE k == Aiming(y)
<1>1. setup \in SetupKinds /\ stage \in Stages /\ Types BY ProvisionAssumption DEF Types, Founded
<1>2. y \in Promises \ Shaky /\ (setup \in Pipelines => stage # "ext") BY <1>1, OwnThings
<1>3. k \in Kinds /\ k.setup = setup BY <1>1, <1>2, KeepingKinds
<1>4. k.goal = {y} BY DEF Aiming
<1>5. setup' = setup /\ k' = k BY FaultsCounted, OwnSame
<1> HIDE DEF k
<1>6. ASSUME Carried(k, world', todo') \/ Deletes' PROVE Sought(y)' BY <1>5, <1>6 DEF Sought, k
<1>7. CASE Carried(k, world, todo)
  <2>1. \/ Carried(k, world', todo') /\ UNCHANGED <<stage, done>>
        \/ Ended \/ Rescue \/ (Swallowed /\ (k.goal = {} \/ Unheard))
    BY <1>3, <1>7, GoesOn
  <2>2. k.goal # {} /\ ~ Unheard BY <1>2, <1>4 DEF Unheard
  <2>3. Ended => stage' = "idle" BY DEF Ended
  <2>4. Rescue => stage' = stage /\ Deletes' BY <1>5 DEF Rescue, Deletes
  <2> QED BY <1>6, <2>1, <2>2, <2>3, <2>4
<1>8. CASE Deletes
  <2>1. world \in Sound(Kind) /\ Kind \in Kinds /\ Kind.setup = setup BY FoundedWorld
  <2>2. Ended \/ (Deletes' /\ UNCHANGED <<stage, done>>) BY <1>1, <1>8, <2>1, DeletesOn
  <2>3. Ended => stage' = "idle" BY DEF Ended
  <2> QED BY <1>6, <2>2, <2>3
<1> QED BY <1>7, <1>8 DEF Sought, k

\* Between two requests, and when all calls were made, no cluster is deleted.
LEMMA NothingDeleted ==
  ASSUME todo = <<>>
  PROVE  ~ Deletes
BY DeletionCalls DEF Deletes

\* A stage that is posted leaves what the others have to show, unless it is about to
\* change it: then these are no longer done.
LEMMA PostPromises ==
  ASSUME Promised, NEW t \in Stages, Post(t), Next
  PROVE  /\ \A s \in done' : \A x \in Own(s) : Vowed(x)'
         /\ \A y \in Own(t) : Sought(y)'
<1>1. Types /\ Founded BY DEF Promised, Founded
<1>2. setup \in SetupKinds /\ done \subseteq Stages BY <1>1, ProvisionAssumption DEF Types
<1>3. /\ stage = "idle" /\ todo = <<>> /\ todo' = Program(t) /\ world' = world /\ setup' = setup
      /\ done' \subseteq done \ {t} /\ (t = "shutdown" => "bringup" \notin done')
  BY <1>1, <1>2 DEF Post, Types
<1>4. ASSUME NEW s \in done', NEW x \in Own(s) PROVE Vowed(x)'
  <2> DEFINE k == Keeping(x)
  <2>1. s \in done /\ s \in Stages /\ s # t /\ (t = "shutdown" => s # "bringup") BY <1>2, <1>3, <1>4
  <2>2. x \in Promises \ Shaky /\ (x \in Frail => s \in {"shutdown", "bringup", "cloud"}) BY <1>2, <1>4, <2>1, OwnThings
  <2>3. k \in Kinds /\ k.setup = setup /\ k.mode # "bare" BY <1>2, <2>2, KeepingKinds
  <2>4. k.goal = {} /\ k.whole = (x \in Frail) BY DEF Keeping
  <2>5. k' = k BY <1>3, OwnSame
  <2> HIDE DEF k
  <2>6. ~ k.whole \/ t \notin {"shutdown", "cloud"}
    <3>1. ~ ("shutdown" \in Stages /\ "cloud" \in Stages) BY <1>2, StagesAre DEF SetupKinds, Pipelines, Supervised
    <3>2. ~ ("bringup" \in Stages /\ "cloud" \in Stages) BY <1>2, StagesAre DEF SetupKinds, Pipelines, Supervised
    <3>3. k.whole => x \in Frail BY <2>4
    <3>4. x \in Frail => t \notin {"shutdown", "cloud"} BY <2>1, <2>2, <3>1, <3>2
    <3> QED BY <3>3, <3>4
  <2>7. Carried(k, world, <<>>) BY <1>3, <1>4, <2>1, NothingDeleted DEF Promised, Vowed, k
  <2>8. world \in Sound(k) BY <2>7, CarriedSound
  <2>9. Safe(k, Program(t)) BY <2>3, <2>4, <2>6, StageSafe
  <2>10. Carried(k, world, Program(t)) BY <2>3, <2>8, <2>9, CarriedSafe
  <2> QED BY <1>3, <2>5, <2>10 DEF Vowed, k
<1>5. ASSUME NEW y \in Own(t) PROVE Sought(y)'
  <2> DEFINE k == Aiming(y)
  <2>1. y \in Promises \ Shaky BY <1>2, <1>5, OwnThings
  <2>2. k \in Kinds /\ k.setup = setup /\ k.mode # "bare" /\ Sound(Lost) \subseteq Sound(k)
    BY <1>2, <2>1, KeepingKinds
  <2>3. k.goal = {y} /\ k.kept = {} BY DEF Aiming
  <2>4. k' = k BY <1>3, OwnSame
  <2> HIDE DEF k
  <2>5. world \in Sound(Kind) BY <1>1, FoundedWorld
  <2>6. Sound(Firm) \subseteq Sound(Lost) BY <1>2, KindsLoosen DEF Firm, Lost
  <2>7. world \in Sound(k) BY <2>2, <2>5, <2>6 DEF Kind
  <2>8. Safe(k, Program(t)) BY <1>5, <2>2, <2>3, StageSafe
  <2>9. Carried(k, world, Program(t)) BY <2>2, <2>7, <2>8, CarriedSafe
  <2> QED BY <1>3, <2>4, <2>9 DEF Sought, k
<1> QED BY <1>4, <1>5

\* A stage that is answered was led to what it has to show.
LEMMA AnswerPromises ==
  ASSUME Promised, Answer, NEW s \in done', NEW x \in Own(s)
  PROVE  Vowed(x)'
<1>1. Types /\ Founded BY DEF Promised, Founded
<1>2. setup \in SetupKinds /\ done \subseteq Stages BY <1>1, ProvisionAssumption DEF Types
<1>3. /\ stage # "idle" /\ stage \in Stages /\ todo = <<>> /\ todo' = <<>> /\ world' = world /\ setup' = setup
      /\ done' = done \cup {stage}
  BY <1>1 DEF Answer, Types
<1> DEFINE k == Keeping(x)
<1>4. ~ Deletes BY <1>3, NothingDeleted
<1>5. k' = k BY <1>3, OwnSame
<1>6. Carried(k, world, <<>>) => Vowed(x)' BY <1>3, <1>5 DEF Vowed
<1>7. CASE s \in done BY <1>3, <1>4, <1>6, <1>7 DEF Promised, Vowed
<1>8. CASE s = stage
  <2>1. Carried(Aiming(x), world, <<>>) BY <1>3, <1>4, <1>8 DEF Promised, Sought
  <2>2. x \in Promises \ Shaky BY <1>2, <1>3, <1>8, OwnThings
  <2>3. /\ k \in Kinds /\ Aiming(x) \in Kinds /\ Reached(Aiming(x)) \subseteq Sound(k)
    BY <1>2, <2>2, KeepingKinds
  <2>4. k.goal = {} BY DEF Keeping
  <2> HIDE DEF k
  <2>5. world \in Sound(k) BY <2>1, <2>3, CarriedEmpty
  <2>6. Carried(k, world, <<>>) BY <2>3, <2>4, <2>5, CarriedEmpty
  <2> QED BY <1>6, <2>6
<1> QED BY <1>3, <1>7, <1>8

\* In the beginning no stage was answered.
LEMMA InitPromised ==
  ASSUME Init
  PROVE  Promised
<1>1. stage = "idle" /\ done = {} /\ setup \in Setups BY DEF Init
<1>2. Founded BY InitFounded
<1>3. ASSUME setup \in Pipelines \ Supervised PROVE done \in {Earlier(s) : s \in Stages}
  <2>1. Earlier("alb") = {} /\ "alb" \in Stages BY <1>3, EarlierAre, StagesAre
  <2> QED BY <1>1, <2>1
<1>4. InTurns BY <1>1, <1>3 DEF InTurns
<1> QED BY <1>1, <1>2, <1>4 DEF Promised

\* What was promised is, after every step.
LEMMA PromisedNext ==
  ASSUME Promised, [Next]_vars
  PROVE  Promised'
<1>1. Founded /\ Types /\ InTurns BY DEF Promised, Founded
<1>2. Founded' BY <1>1, FoundedNext
<1>3. CASE Next
  <2>1. InTurns' BY <1>1, <1>3, InTurnsNext
  <2>2. setup' = setup BY <1>3, FaultsCounted
  <2>3. \A s : Own(s)' = Own(s) BY <2>2, OwnSame
  <2>4. ASSUME NEW t \in Stages, Post(t) PROVE Promised'
    <3>1. /\ \A s \in done' : \A x \in Own(s) : Vowed(x)'
          /\ \A y \in Own(t) : Sought(y)'
      BY <1>3, <2>4, PostPromises
    <3>2. stage' = t BY <2>4 DEF Post
    <3>3. Own(stage)' = Own(t) BY <2>2, <3>2 DEF Own, CloudOwn, PreconfigOwn, VmcManagementOwn
    <3> QED BY <1>2, <2>1, <2>3, <3>1, <3>3 DEF Promised
  <2>5. CASE Answer
    <3>1. \A s \in done' : \A x \in Own(s) : Vowed(x)' BY <2>5, AnswerPromises
    <3>2. stage' = "idle" BY <2>5 DEF Answer
    <3> QED BY <1>2, <2>1, <2>3, <3>1, <3>2 DEF Promised
  <2>6. CASE ~ (\E t \in Stages : Post(t)) /\ ~ Answer
    <3>1. done' \subseteq done
      <4>1. UNCHANGED <<stage, done>> \/ Ended BY <1>3, <2>6, StaysOrEnds
      <4> QED BY <4>1 DEF Ended
    <3>2. \A s \in done' : \A x \in Own(s) : Vowed(x)' BY <1>1, <1>3, <2>6, <3>1, VowGoesOn DEF Promised
    <3>3. stage # "idle" => \A y \in Own(stage) : stage' = "idle" \/ (stage' = stage /\ Sought(y)')
      BY <1>1, <1>3, <2>6, SoughtGoesOn DEF Promised
    <3>4. ASSUME stage' # "idle", NEW y, y \in Own(stage)' PROVE Sought(y)'
      <4>1. UNCHANGED <<stage, done>> BY <1>3, <2>6, <3>4, StaysOrEnds DEF Ended
      <4>2. Own(stage)' = Own(stage) BY <2>2, <4>1 DEF Own, CloudOwn, PreconfigOwn, VmcManagementOwn
      <4> QED BY <3>3, <3>4, <4>1, <4>2
    <3> QED BY <1>2, <2>1, <2>3, <3>2, <3>4 DEF Promised
  <2> QED BY <1>3, <2>4, <2>5, <2>6
<1>4. CASE UNCHANGED vars
  <2>1. setup' = setup /\ world' = world /\ stage' = stage /\ todo' = todo /\ done' = done BY <1>4 DEF vars, request
  <2>2. /\ Stages' = Stages /\ \A s : Own(s)' = Own(s) /\ Earlier(s)' = Earlier(s)
        /\ \A x : Keeping(x)' = Keeping(x) /\ Aiming(x)' = Aiming(x)
    BY <2>1, OwnSame
  <2>3. Deletes' <=> Deletes BY <2>1 DEF Deletes
  <2>4. \A x : (Vowed(x)' <=> Vowed(x)) /\ (Sought(x)' <=> Sought(x)) BY <2>1, <2>2, <2>3 DEF Vowed, Sought
  <2>5. Own(stage)' = Own(stage) BY <2>1 DEF Own, CloudOwn, PreconfigOwn, VmcManagementOwn
  <2>6. Earlier(stage)' = Earlier(stage) BY <2>1 DEF Earlier, Order
  <2>7. InTurns' BY <1>1, <2>1, <2>2, <2>6 DEF InTurns
  <2> QED BY <1>2, <2>1, <2>2, <2>4, <2>5, <2>7 DEF Promised
<1> QED BY <1>3, <1>4

\* What was promised of the world: what an answered stage has to show is there, and so is
\* what this rests on.
LEMMA OwnShows ==
  ASSUME Promised, NEW s \in done, NEW x \in Own(s)
  PROVE  /\ x \in Common \cup Director /\ x \notin VcdVars \cup {"workAdc"} /\ x \in Concerned(setup)
              => world[x] \in Solid(x)
         /\ x \in Pledges(Keeping(x)) => Met(x, world)
<1>1. Types BY DEF Promised, Founded
<1>2. setup \in SetupKinds /\ s \in Stages BY <1>1, ProvisionAssumption DEF Types
<1>3. x \in Promises \ Shaky BY <1>2, OwnThings
<1>4. Keeping(x) \in Kinds /\ Keeping(x).setup = setup BY <1>2, <1>3, KeepingKinds
<1>5. Keeping(x).kept = {x} BY DEF Keeping
<1>6. world \in Sound(Keeping(x)) BY CarriedSound DEF Promised, Vowed
<1>7. Bears(Keeping(x), {x}, world) BY <1>5, <1>6 DEF Sound
<1>8. x \in Concerned(setup) /\ x # "workAdc" => x \in Bearing(Keeping(x)) BY <1>4 DEF Bearing
<1> QED BY <1>7, <1>8 DEF Bears

\* Nothing is shut down that cannot be, and there is a setup.
LEMMA PromisedWorld ==
  ASSUME Promised
  PROVE  /\ setup \in SetupKinds /\ done \subseteq Stages /\ Common \subseteq Concerned(setup)
         /\ world["shared"] # "off" /\ (setup # "tkgs" => world["workload"] # "off")
         /\ Grounded /\ (setup = "vcd" => VcdGrounded) /\ PackagesGrounded
         /\ \A x \in Common : There(x) => \A y \in Needs(Kind, x) : world[y] \in Solid(y)
<1>1. Founded /\ Types BY DEF Promised, Founded
<1>2. world \in Sound(Kind) /\ Kind \in Kinds /\ Kind.setup = setup BY <1>1, FoundedWorld
<1>3. Common \subseteq Concerned(setup) BY <1>2, CommonConcerned
<1>4. {"shared", "workload"} \subseteq Concerned(setup) BY <1>3, CommonThings DEF Clusters
<1>5. \A x \in Concerned(setup) : world[x] \in {"off", "on"} => Powers(Kind, x) BY <1>2 DEF Sound
<1>6. ~ Powers(Kind, "shared") /\ (setup # "tkgs" => ~ Powers(Kind, "workload"))
  BY <1>2 DEF Powers, Controllers, Supervisor, Engines
<1>7. setup \in SetupKinds /\ done \subseteq Stages BY <1>1, ProvisionAssumption DEF Types
<1>8. \A x \in Common : There(x) => \A y \in Needs(Kind, x) : world[y] \in Solid(y) BY <1>1, <1>3, FoundedBears
<1> QED BY <1>1, <1>3, <1>4, <1>5, <1>6, <1>7, <1>8, FoundedGrounded, FoundedPackages, FoundedVcd

\* The network of VCF and of VMC.
LEMMA NetworkKept ==
  ASSUME Promised, "env" \in done
  PROVE  NetworkSetUp
<1> DEFINE N == {"segments", "groups", "services", "rules"} \cup (IF setup = "vcf" THEN {"policy"} ELSE {})
<1>1. Own("env") = N BY DEF Own
<1>2. N \subseteq Common /\ Common \subseteq Concerned(setup)
  <2>1. {"segments", "groups", "services", "policy"} \subseteq Free BY DEF Free, Plain
  <2> QED BY <2>1, CommonThings, PromisedWorld
<1>3. \A x \in N : Solid(x) = Have BY DEF Solid, Controllers, Loose, Engines, Files, VcdVars
<1>4. \A x \in N : x \notin VcdVars \cup {"workAdc"} BY DEF VcdVars
<1> HIDE DEF N
<1>5. \A x \in N : There(x) BY <1>1, <1>2, <1>3, <1>4, OwnShows DEF There, Have
<1> QED BY <1>5 DEF NetworkSetUp, AllThere, N

\* The controllers, their certificate and, for Cloud Director, their import.
LEMMA ControllersKept ==
  ASSUME Promised, "alb" \in done
  PROVE  ControllersSetUp
<1> SUFFICES ASSUME setup \notin Pipelines PROVE ControllersSetUp BY DEF ControllersSetUp
<1> DEFINE N == {"albPool", "password", "settings", "phrase", "cert", "portal"}
<1>1. /\ Controllers \cup N \subseteq Own("alb") /\ (HA => "ha" \in Own("alb"))
      /\ setup = "vcd" => "vcdCtrl" \in Own("alb")
  BY DEF Own, AlbOwn
<1>2. Controllers \cup N \cup {"ha"} \subseteq Common /\ Common \subseteq Concerned(setup)
  <2>1. N \ {"cert"} \subseteq Free BY DEF Free, Plain
  <2> QED BY <2>1, CommonThings, PromisedWorld
<1>3. setup = "vcd" => "vcdCtrl" \in Concerned(setup) /\ "vcdCtrl" \in Director
  BY DEF Concerned, Things, Director
<1>4. /\ \A x \in N \cup {"vcdCtrl"} : Solid(x) = Have
      /\ \A c \in Controllers : Solid(c) = {"up"}
      /\ Solid("ha") = {"joined", "active"}
  BY DEF Solid, Controllers, Loose, Engines, Files, VcdVars
<1>5. \A x \in Controllers \cup N \cup {"ha", "vcdCtrl"} : x \notin VcdVars \cup {"workAdc"}
  BY DEF Controllers, VcdVars
<1>6. /\ \A x \in N : world[x] \in Have /\ \A c \in Controllers : world[c] \in {"up"}
      /\ HA => world["ha"] \in {"joined", "active"}
      /\ setup = "vcd" => world["vcdCtrl"] \in Have
  <2> HIDE DEF N
  <2> QED BY <1>1, <1>2, <1>3, <1>4, <1>5, OwnShows
<1> QED BY <1>6 DEF ControllersSetUp, AllThere, There, Is, Have

\* Engines that were seen connected are.
LEMMA JoinedKept ==
  ASSUME Promised, NEW s \in done
  PROVE  /\ "joined1" \in Own(s) => world["e1"] = "connected"
         /\ "joined2" \in Own(s) => world["e2"] = "connected"
         /\ "joined3" \in Own(s) => world["e3"] = "connected"
         /\ "joined4" \in Own(s) => world["e4"] = "connected"
         /\ "mgmtMade" \in Own(s) => world["mgmt"] # "none"
         /\ "sharedRuns" \in Own(s) => world["shared"] \in Deployed
         /\ "workRuns" \in Own(s) /\ setup # "tkgs" => world["workload"] \in Deployed
<1> DEFINE R == {"joined1", "joined2", "joined3", "joined4", "mgmtMade", "sharedRuns"}
<1>1. \A r \in R : r \in Pledges(Keeping(r)) BY DEF Pledges
<1>2. setup # "tkgs" => "workRuns" \in Pledges(Keeping("workRuns")) BY DEF Pledges, Keeping
<1>3. \A r \in R : r \in Own(s) => Met(r, world) BY <1>1, OwnShows
<1>4. "workRuns" \in Own(s) /\ setup # "tkgs" => Met("workRuns", world) BY <1>2, OwnShows
<1> QED BY <1>3, <1>4 DEF Met

\* The cloud, its engines and the management cluster.
LEMMA ManagementKept ==
  ASSUME Promised, "mgmt" \in done
  PROVE  ManagementSetUp
<1>1. /\ setup \in SetupKinds /\ "mgmt" \in Stages /\ Common \subseteq Concerned(setup) /\ Grounded
      /\ \A x \in Common : There(x) => \A y \in Needs(Kind, x) : world[y] \in Solid(y)
  BY PromisedWorld
<1>2. setup \in {"vcf", "vmc", "orchestrated", "manual", "pipeline", "pipelineVcf"}
  BY <1>1, StagesAre DEF SetupKinds, Pipelines, Supervised
<1>3. There("mgmt") => AllThere({"cloud", "vipPool", "ipam", "cloudIpam"})
  BY <1>1 DEF Grounded, AllThere
<1>4. /\ {"mgmtGroup", "workGroup", "route", "member1", "member2"} \subseteq Free /\ Free \subseteq Common
      /\ {"mgmt", "e1"} \subseteq Common
  BY CommonThings DEF Free, Plain, Clusters, Engines
<1> DEFINE N == {"mgmtGroup", "workGroup", "route", "member1", "member2"}
<1>5. /\ \A x \in N : Solid(x) = Have
      /\ Solid("e1") = Listed /\ Solid("mgmt") = Deployed
  BY DEF Solid, Controllers, Loose, Engines, Files, VcdVars
<1>6. /\ \A x \in N : x \in Own("mgmt") => There(x)
      /\ "e1" \in Own("mgmt") => Is("e1", Listed)
      /\ "mgmt" \in Own("mgmt") => Is("mgmt", Deployed)
  <2>1. \A x \in N \cup {"e1", "mgmt"} : x \in Own("mgmt") => world[x] \in Solid(x)
    <3>1. \A x \in N \cup {"e1", "mgmt"} : x \notin VcdVars \cup {"workAdc"} BY DEF VcdVars
    <3>2. N \cup {"e1", "mgmt"} \subseteq Common \cap Concerned(setup) BY <1>1, <1>4
    <3> HIDE DEF N
    <3> QED BY <3>1, <3>2, OwnShows
  <2> QED BY <1>5, <2>1 DEF Is, There, Have
<1>7. /\ "joined1" \in Own("mgmt") => Is("e1", {"connected"})
      /\ "joined2" \in Own("mgmt") => Is("e2", {"connected"})
      /\ "mgmtMade" \in Own("mgmt") => There("mgmt")
  BY JoinedKept DEF Is, There
<1> HIDE DEF N
<1>8. Is("mgmt", Deployed) => There("mgmt") BY DEF Is, There, Deployed
<1>9. CASE setup \in {"orchestrated", "vcf"}
  <2>1. Own("mgmt") = {"mgmt", "mgmtGroup", "workGroup", "route", "e1"} BY <1>9 DEF Own, CloudOwn, Pipelines
  <2>2. Orchestrated /\ ~ Unverified BY <1>9 DEF Orchestrated, Unverified, Pipelines
  <2>3. There("mgmtGroup") /\ There("workGroup") /\ There("route") BY <1>6, <2>1 DEF N
  <2> QED BY <1>3, <1>6, <1>8, <2>1, <2>2, <2>3 DEF ManagementSetUp, EnginesSetUp, AllThere
<1>10. CASE setup = "manual"
  <2>1. Own("mgmt") = {"mgmt", "mgmtGroup", "workGroup", "route"} \cup EnginesOwn BY <1>10 DEF Own, CloudOwn, Pipelines
  <2>2. ~ Orchestrated /\ ~ Unverified BY <1>10 DEF Orchestrated, Unverified, Pipelines
  <2>3. There("mgmtGroup") /\ There("workGroup") /\ There("route") /\ There("member1") /\ There("member2")
    BY <1>6, <2>1 DEF N, EnginesOwn
  <2>4. Is("e1", {"connected"}) /\ Is("e2", {"connected"}) BY <1>7, <2>1 DEF EnginesOwn
  <2> QED BY <1>3, <1>6, <1>8, <2>1, <2>2, <2>3, <2>4 DEF ManagementSetUp, EnginesSetUp, AllThere
<1>11. CASE setup = "vmc"
  <2>1. Own("mgmt") = {"mgmtGroup", "route", "mgmtMade"} \cup EnginesOwn BY <1>11 DEF Own, VmcManagementOwn, Pipelines
  <2>2. ~ Orchestrated /\ Unverified BY <1>11 DEF Orchestrated, Unverified
  <2>3. There("mgmtGroup") /\ There("route") /\ There("member1") /\ There("member2")
    BY <1>6, <2>1 DEF N, EnginesOwn
  <2>4. Is("e1", {"connected"}) /\ Is("e2", {"connected"}) /\ There("mgmt") BY <1>7, <2>1 DEF EnginesOwn
  <2> QED BY <1>3, <1>11, <2>2, <2>3, <2>4 DEF ManagementSetUp, EnginesSetUp, AllThere
<1>12. CASE setup \in {"pipeline", "pipelineVcf"}
  <2>1. "mgmtMade" \in Own("mgmt") BY <1>12 DEF Own, Pipelines
  <2>2. Orchestrated /\ Unverified BY <1>12 DEF Orchestrated, Unverified, Pipelines
  <2>3. There("mgmt") BY <1>7, <2>1
  <2>4. {"mgmtGroup", "route", "workGroup", "e1"} \subseteq Needs(Kind, "mgmt")
    <3>1. Kind.setup = setup BY FoundedWorld DEF Promised
    <3> QED BY <1>12, <3>1 DEF Needs, Before, InPipeline, Pipelines, Supervised, Engines, Dependents
  <2>5. \A x \in {"mgmtGroup", "route", "workGroup", "e1"} : world[x] \in Solid(x) BY <1>1, <1>4, <2>3, <2>4
  <2>6. There("mgmtGroup") /\ There("workGroup") /\ There("route") /\ Is("e1", Listed)
    BY <1>5, <2>5 DEF N, There, Is, Have
  <2> QED BY <1>3, <2>2, <2>3, <2>6 DEF ManagementSetUp, EnginesSetUp, AllThere
<1> QED BY <1>2, <1>9, <1>10, <1>11, <1>12

\* Things that are there where they bear.
LEMMA OwnThere ==
  ASSUME Promised, NEW s \in done, NEW x \in Own(s)
  PROVE  /\ x \in {"label", "workGroup", "workPool", "member3", "member4", "mgmtPool", "cloudNet", "route", "cloudIpam",
                   "mgmtGroup", "vipRoute", "workRules", "mgwRule", "workAko", "cloud", "kubeOva", "harbor",
                   "prometheus", "grafana"}
              => world[x] \in Have /\ There(x)
         /\ x \in {"mgmt", "workload", "e3", "fluent"} => world[x] \in Solid(x)
<1> DEFINE F == {"label", "workGroup", "workPool", "mgmtPool", "cloudNet", "route", "mgmtGroup", "vipRoute",
                 "workRules", "workAko", "kubeOva"}
           G == {"member3", "member4", "cloudIpam", "mgwRule", "cloud"}
           P == {"harbor", "prometheus", "grafana"}
           L == {"mgmt", "workload", "e3", "fluent"}
<1>1. F \cup G \cup P \cup L \subseteq Common \cap Concerned(setup)
  <2>1. F \subseteq Free BY DEF Free, Plain, Pushed, Files
  <2>2. P \cup {"fluent"} \subseteq Packages BY DEF Packages, OnWorkload
  <2>3. {"mgmt", "workload"} \subseteq Clusters /\ "e3" \in Engines BY DEF Clusters, Engines
  <2>4. G \subseteq Common BY CommonThings
  <2> HIDE DEF F, G, P
  <2>5. F \cup G \cup P \cup L \subseteq Common BY <2>1, <2>2, <2>3, <2>4, CommonThings
  <2> QED BY <2>5, PromisedWorld
<1>2. \A y \in F \cup G \cup P : Solid(y) = Have BY DEF Solid, Controllers, Loose, Engines, Files, VcdVars
<1>3. \A y \in F \cup G \cup P \cup L : y \notin VcdVars \cup {"workAdc"} BY DEF VcdVars
<1>4. ASSUME x \in F \cup G \cup P \cup L PROVE world[x] \in Solid(x)
  <2> HIDE DEF F, G, P, L
  <2> QED BY <1>1, <1>3, <1>4, OwnShows
<1>5. ASSUME x \in F \cup G \cup P PROVE world[x] \in Have /\ There(x)
  <2>1. world[x] \in Have BY <1>2, <1>4, <1>5
  <2> QED BY <2>1 DEF There, Have
<1> QED BY <1>4, <1>5

\* The shared cluster and what is installed there.
LEMMA SharedKept ==
  ASSUME Promised, "shared" \in done
  PROVE  SharedSetUp
<1>1. PackagesGrounded /\ world["shared"] # "off" BY PromisedWorld
<1>2. CASE setup \in Pipelines
  <2>1. setup # "vmc" BY <1>2 DEF Pipelines
  <2>2. "sharedRuns" \in Own("shared") BY <1>2, <2>1 DEF Own
  <2> QED BY <1>2, <2>2, JoinedKept DEF SharedSetUp, Is
<1>3. CASE setup \notin Pipelines
  <2>1. "harbor" \in Own("shared") /\ (setup # "vmc" => "label" \in Own("shared")) BY <1>3 DEF Own
  <2>2. /\ Is("harbor", Have) /\ There("harbor")
        /\ setup # "vmc" => There("label")
    BY <2>1, OwnThere DEF Is
  <2>3. setup \notin Supervised
    <3>1. setup \in SetupKinds /\ "shared" \in Stages BY PromisedWorld
    <3>2. setup # "tkgs" BY <3>1, StagesAre
    <3> QED BY <1>3, <3>2 DEF Supervised, Pipelines
  <2>4. Is("sharedCert", Have) /\ Is("sharedContour", Have)
    <3>1. Reconciled({Kit["shared"].cert, Kit["shared"].contour}) BY <1>1, <2>2, <2>3 DEF PackagesGrounded
    <3> QED BY <3>1 DEF Reconciled, Kit
  <2>5. There("sharedCert") /\ There("sharedContour") BY <2>4 DEF Is, There, Have
  <2>6. Is("shared", Started) /\ There("sharedAko")
    <3>1. Kit["shared"].cert = "sharedCert" /\ Kit["shared"].contour = "sharedContour" /\ Kit["shared"].ako = "sharedAko"
      BY DEF Kit
    <3> QED BY <1>1, <1>3, <2>3, <2>5, <3>1 DEF PackagesGrounded
  <2>7. Is("shared", Reachable) BY <1>1, <2>6 DEF Is, Started
  <2> QED BY <1>3, <2>2, <2>4, <2>6, <2>7 DEF SharedSetUp, Reconciled, OnShared
<1> QED BY <1>2, <1>3

\* What the workload cluster is to be made with.
LEMMA PreconfigKept ==
  ASSUME Promised, "wpre" \in done
  PROVE  PreconfigSetUp
<1>1. setup \in {"vcf", "vmc", "orchestrated", "manual"}
  BY PromisedWorld, StagesAre DEF SetupKinds, Pipelines, Supervised
<1>2. Solid("mgmt") = Deployed /\ Solid("e3") = Listed BY DEF Solid, Controllers, Loose, Engines, Files, VcdVars
<1>3. /\ \A x \in {"workGroup", "workPool", "member3", "member4"} : x \in Own("wpre") => There(x)
      /\ "mgmt" \in Own("wpre") => Is("mgmt", Deployed)
      /\ "e3" \in Own("wpre") => Is("e3", Listed)
  BY <1>2, OwnThere DEF Is
<1>4. "joined3" \in Own("wpre") => Is("e3", {"connected"}) BY JoinedKept DEF Is
<1>5. "joined4" \in Own("wpre") => Is("e4", {"connected"}) BY JoinedKept DEF Is
<1>6. (There("member3") => There("workGroup")) /\ (There("mgmt") => There("vipPool"))
  <2>1. Grounded BY PromisedWorld
  <2> QED BY <2>1 DEF Grounded, AllThere
<1>7. Is("mgmt", Deployed) => There("mgmt") BY DEF Is, There, Deployed
<1>8. CASE setup = "orchestrated"
  <2>1. Own("wpre") = {"mgmt", "workGroup", "workPool"} BY <1>8 DEF Own, PreconfigOwn
  <2>2. There("workGroup") /\ There("workPool") /\ Is("mgmt", Deployed) BY <1>3, <2>1
  <2> QED BY <1>8, <2>2 DEF PreconfigSetUp, AllThere
<1>9. CASE setup = "vcf"
  <2>1. Own("wpre") = {"mgmt", "workGroup", "e3"} BY <1>9 DEF Own, PreconfigOwn
  <2>2. There("workGroup") /\ There("vipPool") /\ Is("mgmt", Deployed) /\ Is("e3", Listed) BY <1>3, <1>6, <1>7, <2>1
  <2>3. Orchestrated BY <1>9 DEF Orchestrated
  <2> QED BY <1>9, <2>2, <2>3 DEF PreconfigSetUp, EnginesSetUp, AllThere
<1>10. CASE setup \in {"manual", "vmc"}
  <2>1. /\ {"workPool", "member3", "member4", "joined3", "joined4"} \subseteq Own("wpre")
        /\ setup # "vmc" => "mgmt" \in Own("wpre")
    <3>1. setup = "vmc" => Own("wpre") = {"workPool"} \cup WorkEnginesOwn BY DEF Own
    <3>2. setup = "manual" => Own("wpre") = {"mgmt", "workPool"} \cup WorkEnginesOwn BY DEF Own, PreconfigOwn
    <3> QED BY <1>10, <3>1, <3>2 DEF WorkEnginesOwn
  <2>2. There("workPool") /\ There("member3") /\ There("member4") /\ (setup # "vmc" => Is("mgmt", Deployed))
    BY <1>3, <2>1
  <2>3. Is("e3", {"connected"}) /\ Is("e4", {"connected"}) BY <1>4, <1>5, <2>1
  <2>4. ~ Orchestrated BY <1>10 DEF Orchestrated
  <2>5. EnginesSetUp("e3", "e4", "member3", "member4") BY <2>2, <2>3, <2>4 DEF EnginesSetUp, AllThere
  <2>6. setup # "vcf" BY <1>10
  <2> QED BY <1>6, <2>2, <2>5, <2>6 DEF PreconfigSetUp, AllThere
<1> QED BY <1>1, <1>8, <1>9, <1>10

\* The cloud for the supervisor.
LEMMA WcpKept ==
  ASSUME Promised, "wcp" \in done
  PROVE  WcpSetUp
<1>1. Own("wcp") = WcpOwn BY DEF Own
<1>2. \A x \in WcpOwn : There(x) BY <1>1, OwnThere DEF WcpOwn
<1>3. There("cloudIpam") => There("ipam") /\ There("cloud") /\ There("vipPool")
  <2>1. Grounded BY PromisedWorld
  <2>2. setup # "vmc" BY PromisedWorld, StagesAre
  <2> QED BY <2>1, <2>2 DEF Grounded, AllThere
<1> QED BY <1>2, <1>3 DEF WcpOwn, WcpSetUp, AllThere

\* The supervisor with its library.
LEMMA EnableKept ==
  ASSUME Promised, "enable" \in done
  PROVE  EnableSetUp
<1>1. There("super") => There("library")
  <2>1. Grounded BY PromisedWorld
  <2> QED BY <2>1 DEF Grounded, AllThere
<1>2. \A r \in {"superServed", "superMade"} : r \in Own("enable") => Met(r, world)
  <2>1. \A r \in {"superServed", "superMade"} : r \in Pledges(Keeping(r)) BY DEF Pledges
  <2> QED BY <2>1, OwnShows
<1>3. CASE setup = "tkgs"
  <2>1. Own("enable") = {"superServed"} BY <1>3 DEF Own
  <2>2. Is("super", Reachable \cup {"off"}) BY <1>2, <2>1 DEF Met, Is
  <2>3. There("super") BY <2>2 DEF Is, There, Reachable
  <2> QED BY <1>1, <1>3, <2>2, <2>3 DEF EnableSetUp
<1>4. CASE setup # "tkgs"
  <2>1. Own("enable") = {"superMade"} BY <1>4 DEF Own
  <2>2. There("super") BY <1>2, <2>1 DEF Met, There
  <2> QED BY <1>1, <1>4, <2>2 DEF EnableSetUp
<1> QED BY <1>3, <1>4

\* The workload cluster, unless on a supervisor.
LEMMA WorkloadKept ==
  ASSUME Promised, "workload" \in done
  PROVE  WorkloadSetUp
<1> SUFFICES ASSUME setup \notin Supervised PROVE WorkloadSetUp
  BY DEF WorkloadSetUp, Supervised
<1>1. /\ Common \subseteq Concerned(setup) /\ (setup # "tkgs" => world["workload"] # "off")
      /\ \A x \in Common : There(x) => \A y \in Needs(Kind, x) : world[y] \in Solid(y)
  BY PromisedWorld
<1>2. "workRuns" \in Own("workload") => Is("workload", Deployed) BY JoinedKept DEF Is, Supervised
<1>3. CASE setup = "vmc"
  <2>1. Own("workload") = {"workRules", "mgwRule", "workRuns"} BY <1>3 DEF Own, Supervised, Pipelines
  <2>2. There("workRules") /\ There("mgwRule") BY <2>1, OwnThere
  <2> QED BY <1>2, <1>3, <2>1, <2>2 DEF WorkloadSetUp, AllThere, Supervised, Pipelines
<1>4. CASE setup \in Pipelines \ Supervised
  <2>1. setup # "vmc" /\ setup \in Pipelines BY <1>4 DEF Pipelines
  <2>2. Own("workload") = {"workRuns"} BY <1>4, <2>1 DEF Own
  <2>3. Is("workload", Deployed) BY <1>2, <2>2
  <2>4. There("workload") /\ "workload" \in Common
    <3>1. There("workload") BY <2>3 DEF Is, There, Deployed
    <3> QED BY <3>1, CommonThings DEF Clusters
  <2>5. {"workGroup", "workAdc"} \subseteq Needs(Kind, "workload")
    <3>1. Kind.setup = setup BY FoundedWorld DEF Promised
    <3>2. Before(Kind, "workload") = {"workGroup", "workAdc"} BY <1>4, <3>1 DEF Before, InPipeline
    <3>3. Needs(Kind, "workload") = OnGuest(Kind) \cup Before(Kind, "workload") BY DEF Needs, Engines, Dependents
    <3> QED BY <3>2, <3>3
  <2>6. world["workGroup"] \in Have /\ world["workAdc"] \in Have
    <3>1. Solid("workGroup") = Have /\ Solid("workAdc") = Have BY DEF Solid, Controllers, Loose, Engines, Files, VcdVars
    <3> QED BY <1>1, <2>4, <2>5, <3>1
  <2>7. AllThere({"workGroup", "workAdc"}) BY <2>6 DEF AllThere, There, Have
  <2> QED BY <1>4, <2>1, <2>3, <2>7 DEF WorkloadSetUp
<1>5. CASE setup \notin Pipelines /\ setup # "vmc"
  <2>1. Own("workload") = {"workload", "workAko"} BY <1>5 DEF Own
  <2>2. world["workload"] \in Solid("workload") /\ There("workAko") BY <2>1, OwnThere
  <2>3. Solid("workload") = Started BY DEF Solid, Controllers, Loose, Engines, Files, VcdVars
  <2>4. setup # "tkgs" BY DEF Supervised
  <2>5. Is("workload", Reachable) BY <1>1, <2>2, <2>3, <2>4 DEF Is, Started
  <2> QED BY <1>5, <2>2, <2>5 DEF WorkloadSetUp
<1> QED BY <1>3, <1>4, <1>5

\* The extensions.
LEMMA ExtensionsKept ==
  ASSUME Promised, "ext" \in done
  PROVE  ExtensionsSetUp
<1> SUFFICES ASSUME setup \notin Pipelines PROVE ExtensionsSetUp BY DEF ExtensionsSetUp
<1>1. Own("ext") = {"prometheus", "grafana", "fluent"} BY DEF Own
<1>2. /\ Is("prometheus", Have) /\ There("prometheus") /\ Is("grafana", Have)
      /\ world["fluent"] \in Solid("fluent")
  BY <1>1, OwnThere DEF Is
<1>3. Solid("fluent") = Settled BY DEF Solid, Controllers, Loose, Engines, Files, VcdVars
<1>4. PackagesGrounded BY PromisedWorld
<1>5. Is("workContour", Have) BY <1>2, <1>4 DEF PackagesGrounded
<1>6. There("workContour") BY <1>5 DEF Is, There, Have
<1>7. Is("workCert", Have)
  <2>1. Kit["workload"].cert = "workCert" /\ Kit["workload"].contour = "workContour" BY DEF Kit
  <2> QED BY <1>4, <1>6, <2>1 DEF PackagesGrounded
<1> QED BY <1>2, <1>3, <1>5, <1>7 DEF ExtensionsSetUp, Reconciled, Is

\* What the stages for Cloud Director set up there is there.
LEMMA DirectorOwnThere ==
  ASSUME Promised, setup = "vcd", NEW s \in done, NEW x \in Own(s),
         x \in {"edge", "plugin", "keEntity", "capEntity", "cseUser", "vapp"}
  PROVE  There(x)
<1>1. x \in Director /\ x \notin VcdVars \cup {"workAdc"} BY DEF Director, VcdVars
<1>2. x \in Concerned(setup) BY <1>1 DEF Concerned, Things
<1>3. Solid(x) = Have BY DEF Solid, Controllers, Loose, Engines, Files, VcdVars
<1>4. world[x] \in Have BY <1>1, <1>2, <1>3, OwnShows
<1> QED BY <1>4 DEF There, Have

\* The cloud and its import.
LEMMA CloudKept ==
  ASSUME Promised, "cloud" \in done
  PROVE  CloudSetUp
<1>1. setup = "vcd" BY PromisedWorld, StagesAre DEF SetupKinds, Pipelines, Supervised
<1>2. Own("cloud") = {"cloud", "mgmtGroup", "imported"} BY DEF Own
<1>3. There("cloud") /\ There("mgmtGroup") BY <1>2, OwnThere
<1>4. "imported" \in Pledges(Keeping("imported")) BY <1>1 DEF Pledges, Keeping, Frail
<1>5. Met("imported", world) BY <1>2, <1>4, OwnShows
<1> QED BY <1>3, <1>5 DEF CloudSetUp, AllThere, Met, There, Is

\* The organisation with its gateway.
LEMMA OrgKept ==
  ASSUME Promised, "org" \in done
  PROVE  OrgSetUp
<1>1. setup = "vcd" BY PromisedWorld, StagesAre DEF SetupKinds, Pipelines, Supervised
<1>2. Own("org") = {"edge"} BY DEF Own
<1>3. There("edge") BY <1>1, <1>2, DirectorOwnThere
<1>4. VcdGrounded BY <1>1, PromisedWorld
<1> QED BY <1>3, <1>4 DEF OrgSetUp, VcdGrounded, AllThere

\* The server of the extension with its configuration.
LEMMA CseKept ==
  ASSUME Promised, "cse" \in done
  PROVE  CseSetUp
<1>1. setup = "vcd" BY PromisedWorld, StagesAre DEF SetupKinds, Pipelines, Supervised
<1>2. Own("cse") = CseOwn BY DEF Own
<1>3. There("kubeOva") BY <1>2, OwnThere DEF CseOwn
<1>4. \A x \in CseOwn \ {"kubeOva"} : There(x) BY <1>1, <1>2, DirectorOwnThere DEF CseOwn
<1>5. VcdGrounded BY <1>1, PromisedWorld
<1>6. There("cseTemplate") /\ There("keConfig") /\ There("token") BY <1>4, <1>5 DEF CseOwn, VcdGrounded, AllThere
<1> QED BY <1>3, <1>4, <1>6 DEF CseOwn, CseSetUp, AllThere

\* A supervisor that was shut down, or brought up again.
LEMMA PowerKept ==
  ASSUME Promised
  PROVE  ("shutdown" \in done => ShutdownSetUp) /\ ("bringup" \in done => BringupSetUp)
<1>1. "shutdown" \in done \/ "bringup" \in done => setup = "tkgs"
  BY PromisedWorld, StagesAre DEF SetupKinds, Pipelines, Supervised
<1>2. Own("shutdown") = {"shut"} /\ Own("bringup") = {"superRuns"} BY DEF Own
<1>3. setup = "tkgs" => "shut" \in Pledges(Keeping("shut")) /\ "superRuns" \in Pledges(Keeping("superRuns"))
  BY DEF Pledges, Keeping, Frail
<1>4. "shutdown" \in done => Met("shut", world) BY <1>1, <1>2, <1>3, OwnShows
<1>5. "bringup" \in done => Met("superRuns", world) BY <1>1, <1>2, <1>3, OwnShows
<1>6. Met("shut", world) => ShutdownSetUp BY DEF Met, ShutdownSetUp, There, Is, Reachable
<1>7. Met("superRuns", world) => BringupSetUp BY DEF Met, BringupSetUp, Is
<1> QED BY <1>4, <1>5, <1>6, <1>7

\* What was answered for is set up.
LEMMA PromisedKept ==
  ASSUME Promised
  PROVE  Kept
<1> SUFFICES ASSUME NEW s \in done PROVE SetUp(s) BY DEF Kept
<1>1. s \in {"env", "alb", "mgmt", "shared", "wpre", "wcp", "enable", "ns", "workload", "ext", "cloud", "org", "cse",
             "shutdown", "bringup"}
  <2>1. setup \in SetupKinds /\ s \in Stages BY PromisedWorld
  <2>2. CASE setup \in {"vcf", "vmc"} BY <2>1, <2>2, StagesAre
  <2>3. CASE setup \in {"orchestrated", "manual"} BY <2>1, <2>3, StagesAre
  <2>4. CASE setup \in {"tkgs", "pipelineTkgs"} BY <2>1, <2>4, StagesAre
  <2>5. CASE setup \in Pipelines \ Supervised BY <2>1, <2>5, StagesAre
  <2>6. CASE setup = "vcd" BY <2>1, <2>6, StagesAre
  <2> QED BY <2>1, <2>2, <2>3, <2>4, <2>5, <2>6 DEF SetupKinds, Pipelines, Supervised
<1>2. CASE s = "env" BY <1>2, NetworkKept DEF SetUp
<1>3. CASE s = "alb" BY <1>3, ControllersKept DEF SetUp
<1>4. CASE s = "mgmt" BY <1>4, ManagementKept DEF SetUp
<1>5. CASE s = "shared" BY <1>5, SharedKept DEF SetUp
<1>6. CASE s = "wpre" BY <1>6, PreconfigKept DEF SetUp
<1>7. CASE s = "wcp" BY <1>7, WcpKept DEF SetUp
<1>8. CASE s = "enable" BY <1>8, EnableKept DEF SetUp
<1>9. CASE s = "ns" BY <1>9 DEF SetUp
<1>10. CASE s = "workload" BY <1>10, WorkloadKept DEF SetUp
<1>11. CASE s = "ext" BY <1>11, ExtensionsKept DEF SetUp
<1>12. CASE s = "cloud" BY <1>12, CloudKept DEF SetUp
<1>13. CASE s = "org" BY <1>13, OrgKept DEF SetUp
<1>14. CASE s = "cse" BY <1>14, CseKept DEF SetUp
<1>15. CASE s \in {"shutdown", "bringup"} BY <1>15, PowerKept DEF SetUp
<1> QED BY <1>1, <1>2, <1>3, <1>4, <1>5, <1>6, <1>7, <1>8, <1>9, <1>10, <1>11, <1>12, <1>13, <1>14, <1>15

-----------------------------------------------------------------------------
(* The theorems.                                                           *)

\* Whatever was posted, failed or went on outside, for every setup, with one
\* controller or three, and however many faults: the request has a program whose
\* calls can be made, or is about to delete its cluster.
THEOREM DeploymentFounded == Spec => []Founded
<1>1. Init => Founded BY InitFounded
<1>2. Founded /\ [Next]_vars => Founded' BY FoundedNext
<1> QED BY <1>1, <1>2, PTL DEF Spec

\* Each thing is in one of the states it goes through, and a request that was
\* answered or given up has no calls left.
THEOREM DeploymentTypes == Spec => []TypeOK
<1>1. Founded => TypeOK BY FoundedTypes
<1> QED BY <1>1, DeploymentFounded, PTL

\* Nothing is built on something missing, in whatever order the stages were posted
\* and wherever they failed.
THEOREM DeploymentGrounded == Spec => []Grounded
<1>1. Founded => Grounded BY FoundedGrounded
<1> QED BY <1>1, DeploymentFounded, PTL

\* Whatever was posted, failed, was run again or went on outside since: a stage that
\* was answered with 200 has set up what it is for.
THEOREM DeploymentKept == Spec => []Kept
<1>1. Init => Promised BY InitPromised
<1>2. Promised /\ [Next]_vars => Promised' BY PromisedNext
<1>3. Promised => Kept BY PromisedKept
<1> QED BY <1>1, <1>2, <1>3, PTL DEF Spec

=============================================================================
