---------------------------- MODULE StageOutlines ----------------------------
(***************************************************************************)
(* The outlines of the stages: what is known to be there after each part of *)
(* a program, and that every program keeps the world well founded from      *)
(* wherever it starts.  Each lemma is about the operator it names.          *)
(***************************************************************************)
EXTENDS Outlines

\* All of the proofs see which things pledges are about.
USE DEF Touchy

-----------------------------------------------------------------------------
(* Rules for the things of all setups.                                     *)

\* Things that every deployment can come across; those that rest on nothing.
Common == Things \ (Director \cup {"cseFile"})
Free ==
  Plain \ {"rules", "dnsRule", "vcenterRule", "mgwRule", "cert", "cloud", "cloudIpam",
           "member3", "member4", "sharedAdc", "workAdc", "cseTemplate", "wcpDown"}

\* The names of the things, for the proofs.
LEMMA CommonThings ==
  /\ Free \subseteq Common /\ Files \ {"cseFile"} \subseteq Common /\ Packages \subseteq Common
  /\ Controllers \cup Engines \cup Clusters \cup Supervisor \subseteq Common
  /\ {"rules", "dnsRule", "vcenterRule", "mgwRule", "cert", "cloud", "cloudIpam", "member3", "member4",
      "sharedAdc", "workAdc", "ha", "ipam", "vs", "wcpDown"} \subseteq Common
BY DEF Common, Free, Things, Plain, Pushed, Files, Director, VcdVars, Packages, OnShared, OnWorkload,
   Controllers, Engines, Clusters, Supervisor

\* A deployment comes across them whatever its setup.
LEMMA CommonConcerned ==
  ASSUME NEW k \in Kinds
  PROVE  Common \subseteq Concerned(k.setup)
BY DEF Common, Concerned

\* Things that something rests on.
LEMMA CommonBears ==
  ASSUME NEW k \in Kinds
  PROVE  Common \ {"workAdc"} \subseteq Bearing(k)
BY CommonConcerned DEF Bearing

\* A free thing bears once it is there.
LEMMA FreeThings ==
  ASSUME NEW k \in Kinds, NEW x \in Free
  PROVE  /\ x \in Concerned(k.setup) /\ Needs(k, x) = {} /\ "there" \in Solid(x) /\ Have \subseteq Solid(x)
         /\ x \notin Touchy
<1>1. x \in Concerned(k.setup) BY CommonThings, CommonConcerned
<1>2. Needs(k, x) = {} BY DEF Needs, Free, Plain, Pushed, Files, Engines, Dependents
<1>3. Solid(x) = Have \/ Solid(x) = Lives[x]
  BY DEF Solid, Free, Plain, Pushed, Files, Controllers, Loose, Engines, VcdVars
<1>4. "there" \in Lives[x]
  BY DEF Lives, Free, Plain, Pushed, Files, Controllers, Engines, VcdVars, Things, Clusters, Supervisor,
     Packages, OnShared, OnWorkload
<1>5. x \notin Touchy BY DEF Free, Plain, Pushed, Files
<1> QED BY <1>1, <1>2, <1>3, <1>4, <1>5 DEF Have

\* Free things can be made, set and found at any time.
LEMMA FreeGives ==
  ASSUME NEW k \in Kinds, NEW x \in Free
  PROVE  /\ Gives(k, {}, Ensure(x), {x}) /\ Gives(k, {}, Set(x), {x}) /\ Gives(k, {}, Find(x), {x})
         /\ Keeps(k, Ensure(x)) /\ Keeps(k, Set(x)) /\ Keeps(k, Find(x)) /\ Keeps(k, Try(x))
         /\ k.goal = {} => Gives(k, {}, Quit(x), {x}) /\ Keeps(k, Quit(x))
<1>1. /\ x \in Concerned(k.setup) /\ Needs(k, x) = {} /\ "there" \in Solid(x) /\ Have \subseteq Solid(x)
      /\ x \notin Touchy
  BY FreeThings
<1>2. /\ Gives(k, {}, Ensure(x), {x}) /\ Gives(k, {}, Ensure(x), {})
      /\ k.goal = {} => Gives(k, {}, Quit(x), {x}) /\ Gives(k, {}, Quit(x), {})
      /\ Gives(k, {}, Try(x), {})
  BY <1>1, EnsureGives
<1>3. Gives(k, {}, Put(x, "there"), {x}) /\ Gives(k, {}, Put(x, "there"), {}) BY <1>1, PutGives
<1>4. Gives(k, {}, Need(x, Have), {x}) /\ Keeps(k, Need(x, Have)) BY <1>1, LookGives
<1> QED BY <1>2, <1>3, <1>4 DEF Keeps, Find, Set

\* Any thing can be looked at at any time.
LEMMA LookKeeps ==
  ASSUME NEW k \in Kinds, NEW x \in Common, NEW S
  PROVE  /\ Keeps(k, Need(x, S)) /\ Keeps(k, Await(x, S)) /\ Keeps(k, Find(x))
         /\ k.goal = {} => Keeps(k, Leave(x, S))
BY CommonConcerned, LookGives DEF Find

\* Calls that keep what is known keep it where they depend on a look.
LEMMA UnlessKeeps ==
  ASSUME NEW k \in Kinds, NEW x \in Common, NEW S, NEW p, Keeps(k, p)
  PROVE  /\ Keeps(k, Unless(x, S, p)) /\ Keeps(k, Spare(x, S, p))
         /\ k.mode # "bare" => Keeps(k, Ask(x, S, p))
BY CommonConcerned, UnlessGives DEF Keeps

\* Calls that make a free thing which is missing.
LEMMA UnlessHas ==
  ASSUME NEW k \in Kinds, NEW x \in Free, NEW X, NEW p, Gives(k, X, p, {x})
  PROVE  Gives(k, X, Unless(x, Have, p), {x})
BY FreeThings, UnlessGives

\* No calls.
LEMMA NothingKeeps ==
  ASSUME NEW k PROVE Keeps(k, <<>>)
BY NothingGives DEF Keeps

-----------------------------------------------------------------------------
(* Images, networks and controllers.                                       *)

\* An image that is downloaded and pushed is in vCenter, whatever the file is like.
LEMMA LibraryGives ==
  ASSUME NEW k \in Kinds, NEW f \in {"aviFile", "kubeFile"}
  PROVE  Gives(k, {}, Library(f), {Pushed(f)})
<1>1. Pushed(f) \in Free /\ f \in Files /\ f \in Common BY CommonThings DEF Free, Plain, Pushed, Files
<1>2. Keeps(k, Copy(f)) BY <1>1, CommonConcerned, CopyGives
<1>3. Keeps(k, Fetch(f)) BY <1>1, <1>2, UnlessKeeps DEF Fetch
<1>4. Gives(k, {}, Push(f), {Pushed(f)}) BY <1>1, LookKeeps, FreeGives, GivesKept DEF Push
<1>5. Gives(k, {}, Fetch(f) \o Push(f), {Pushed(f)}) BY <1>3, <1>4, GivesKept
<1> QED BY <1>1, <1>5, UnlessHas DEF Library

\* The images of the controller and of Kubernetes.
LEMMA ImagesGive ==
  ASSUME NEW k \in Kinds
  PROVE  /\ Gives(k, {}, ControllerOva, {"aviOva"}) /\ Gives(k, {}, KubernetesOva, {"kubeOva"})
         /\ Keeps(k, ControllerOva) /\ Keeps(k, KubernetesOva)
<1>1. Gives(k, {}, ControllerOva, {"aviOva"}) /\ Gives(k, {}, KubernetesOva, {"kubeOva"})
  BY LibraryGives DEF ControllerOva, KubernetesOva, Pushed
<1> QED BY <1>1, LessGives DEF Keeps

\* What the first stage of VCF and of VMC sets up: the rules are made of the segments and
\* the groups.
LEMMA NetworksGive ==
  ASSUME NEW k \in Kinds
  PROVE  /\ Gives(k, {}, VmcNetwork, {"segments", "groups", "services", "rules"})
         /\ Gives(k, {}, VcfNetwork(FALSE), {"segments", "groups", "services", "policy", "rules"})
         /\ Keeps(k, VmcNetwork) /\ \A w \in BOOLEAN : Keeps(k, VcfNetwork(w))
<1>1. "rules" \in Concerned(k.setup) BY CommonThings, CommonConcerned
<1>2. Needs(k, "rules") = {"segments", "groups"} BY DEF Needs, Engines, Dependents
<1>3. Solid("rules") = Have BY DEF Solid, Controllers, Loose, Engines, Files, VcdVars
<1>4. Gives(k, {"segments", "groups"}, Ensure("rules"), {"rules"}) BY <1>1, <1>2, <1>3, EnsureGives DEF Have
<1>5. /\ "segments" \in Free /\ "groups" \in Free /\ "services" \in Free /\ "policy" \in Free
      /\ "workSegment" \in Free /\ "workNsxGroup" \in Free /\ "workRules" \in Free
  BY DEF Free, Plain
<1>6. /\ Gives(k, {}, Ensure("segments"), {"segments"}) /\ Gives(k, {}, Ensure("groups"), {"groups"})
      /\ Gives(k, {}, Ensure("services"), {"services"}) /\ Gives(k, {}, Ensure("policy"), {"policy"})
      /\ Keeps(k, Ensure("workRules"))
      /\ Keeps(k, Ensure("workSegment")) /\ Keeps(k, Ensure("workNsxGroup")) /\ Keeps(k, <<>>)
  BY <1>5, FreeGives, NothingKeeps
<1>7. Gives(k, {}, VmcNetwork, {"segments", "groups", "services", "rules"})
  <2>1. Gives(k, {}, Segments \o Groups, {"segments", "groups"}) BY <1>6, ThenGives DEF Segments, Groups
  <2>2. Gives(k, {}, Segments \o Groups \o Services, {"segments", "groups", "services"})
    BY <2>1, <1>6, ThenGives DEF Services
  <2> QED BY <2>2, <1>4, ThenGives DEF VmcNetwork, GatewayRules
<1>8. ASSUME NEW w \in BOOLEAN
      PROVE  /\ ~w => Gives(k, {}, VcfNetwork(w), {"segments", "groups", "services", "policy", "rules"})
             /\ Keeps(k, VcfNetwork(w))
  <2>1. Gives(k, {}, VcfSegments(w), {"segments"}) BY <1>6, GivesKept DEF VcfSegments
  <2>2. Gives(k, {}, VcfGroups(w), {"groups"}) BY <1>6, GivesKept DEF VcfGroups
  <2>3. Gives(k, {}, VcfSegments(w) \o VcfGroups(w), {"segments", "groups"}) BY <2>1, <2>2, ThenGives
  <2>4. Gives(k, {}, VcfSegments(w) \o VcfGroups(w) \o VcfServices, {"segments", "groups", "services"})
    BY <2>3, <1>6, ThenGives DEF VcfServices
  <2>5. Gives(k, {}, VcfSegments(w) \o VcfGroups(w) \o VcfServices \o Policy,
              {"segments", "groups", "services", "policy"})
    BY <2>4, <1>6, ThenGives DEF Policy
  <2>6. Gives(k, {"segments", "groups"}, VcfRules(w), IF w THEN {} ELSE {"rules"})
    BY <1>4, <1>6, LessGives DEF VcfRules, Keeps
  <2>7. Gives(k, {}, VcfNetwork(w),
              {"segments", "groups", "services", "policy"} \cup IF w THEN {} ELSE {"rules"})
    BY <2>5, <2>6, ThenGives DEF VcfNetwork
  <2> QED BY <2>7, LessGives DEF Keeps
<1>9. Keeps(k, VmcNetwork) BY <1>7, LessGives DEF Keeps
<1> QED BY <1>7, <1>8, <1>9

\* The controllers come up one after the other.
LEMMA ControllerGives ==
  ASSUME NEW k \in Kinds, NEW c \in Controllers, NEW q, Keeps(k, q)
  PROVE  Gives(k, {}, Unless(c, {"up"}, Need(c, {"none", "off"}) \o (q \o Make(c, "off") \o Put(c, "on"))
                                           \o Await(c, {"up"})), {c})
<1>1. c \in Common /\ c \in Concerned(k.setup) BY CommonThings, CommonConcerned
<1>2. Solid(c) = {"up"} BY DEF Solid, Loose, Controllers, Engines, Files, VcdVars
<1>3. Keeps(k, Need(c, {"none", "off"})) BY <1>1, LookKeeps
<1>4. Keeps(k, q \o Make(c, "off") \o Put(c, "on"))
  <2>1. Needs(k, c) = {} BY DEF Controllers, Needs, Engines, Dependents
  <2>2. Powers(k, c) BY DEF Powers
  <2> QED BY <2>1, <2>2, PowerGives DEF Keeps
<1>5. Gives(k, {}, Await(c, {"up"}), {c}) BY <1>1, <1>2, LookGives
<1>6. Gives(k, {}, Need(c, {"none", "off"}) \o (q \o Make(c, "off") \o Put(c, "on")) \o Await(c, {"up"}), {c})
  BY <1>3, <1>4, <1>5, KeepsThen, GivesKept
<1> QED BY <1>1, <1>2, <1>6, UnlessGives

\* All of them are up before they are joined.
LEMMA JoinGives ==
  ASSUME NEW k \in Kinds
  PROVE  /\ Gives(k, Controllers, Put("ha", "joined") \o Await("ha", {"active"}), {"ha"})
         /\ Keeps(k, Await("ha", {"active"}))
         /\ Gives(k, Controllers, JoinControllers, IF HA THEN {"ha"} ELSE {})
<1>1. "ha" \in Concerned(k.setup) /\ "ha" \in Common BY CommonThings, CommonConcerned
<1>2. Needs(k, "ha") = Controllers BY DEF Needs, Engines, Dependents
<1>3. Solid("ha") = {"joined", "active"} BY DEF Solid, Controllers, Loose, Engines, Files, VcdVars
<1>4. Gives(k, Controllers, Put("ha", "joined"), {"ha"}) BY <1>1, <1>2, <1>3, PutGives
<1>5. Keeps(k, Await("ha", {"active"})) BY <1>1, LookKeeps
<1>6. Gives(k, Controllers, FormCluster, {"ha"}) BY <1>4, <1>5, GivesKept DEF FormCluster
<1>7. Gives(k, Controllers, Unless("ha", {"joined", "active"}, FormCluster), {"ha"})
  BY <1>1, <1>3, <1>6, UnlessGives
<1> QED BY <1>5, <1>6, <1>7, NothingGives DEF JoinControllers, FormCluster

\* The first configuration of a controller sets the passphrase of its backup.
LEMMA ConfigureGives ==
  ASSUME NEW k \in Kinds
  PROVE  /\ Gives(k, {}, Configure, {"password", "settings", "phrase"})
         /\ Gives(k, {}, VmcConfigure, {"password", "settings", "phrase"})
         /\ Gives(k, {}, GitConfigure, {"phrase"})
<1>1. /\ "password" \in Free /\ "settings" \in Free /\ "welcome" \in Free /\ "phrase" \in Free
  BY DEF Free, Plain
<1>2. /\ Gives(k, {}, Ensure("password"), {"password"}) /\ Gives(k, {}, Set("settings"), {"settings"})
      /\ Keeps(k, Set("welcome")) /\ Gives(k, {}, Set("phrase"), {"phrase"})
      /\ Keeps(k, Ensure("password")) /\ Keeps(k, Set("settings"))
  BY <1>1, FreeGives
<1>3. Gives(k, {}, Ensure("password") \o Set("settings") \o Set("welcome"), {"password", "settings"})
  <2>1. Gives(k, {}, Ensure("password") \o Set("settings"), {"password", "settings"}) BY <1>2, ThenGives
  <2> QED BY <2>1, <1>2, GivesKept
<1>4. Gives(k, {}, Configure, {"password", "settings", "phrase"})
  BY <1>2, <1>3, ThenGives DEF Configure, Password, Settings, WelcomeScreen, BackupPhrase
<1>5. Gives(k, {}, VmcConfigure, {"password", "settings", "phrase"})
  BY <1>2, <1>3, ThenGives DEF VmcConfigure, VmcPassword, VmcSettings, VmcWelcomeScreen, VmcBackupPhrase
<1>6. Gives(k, {}, GitConfigure, {"phrase"})
  BY <1>2, KeepsThen, GivesKept DEF GitConfigure, GitPassword, GitSettings, GitWelcomeScreen, GitBackupPhrase
<1> QED BY <1>4, <1>5, <1>6

\* The certificate is made with the phrase.
LEMMA CertificateGives ==
  ASSUME NEW k \in Kinds
  PROVE  /\ Gives(k, {"phrase"}, Ensure("cert"), {"cert"}) /\ Gives(k, {"phrase"}, Ensure("cert"), {})
         /\ Gives(k, {"phrase"}, Try("cert"), {})
<1>1. "cert" \in Concerned(k.setup) BY CommonThings, CommonConcerned
<1>2. Needs(k, "cert") = {"phrase"} BY DEF Needs, Engines, Dependents
<1>3. Solid("cert") = Have BY DEF Solid, Controllers, Loose, Engines, Files, VcdVars
<1> QED BY <1>1, <1>2, <1>3, EnsureGives DEF Have

\* To log into a controller changes nothing that is known.
LEMMA LoginKeeps ==
  ASSUME NEW k \in Kinds
  PROVE  Keeps(k, Login) /\ Keeps(k, FirstController) /\ Keeps(k, GitLogin)
<1>1. "ha" \in Common /\ "c1" \in Common BY CommonThings DEF Controllers
<1>2. "password" \in Free BY DEF Free, Plain
<1>3. Keeps(k, Login) BY <1>1, LookKeeps DEF Login
<1>4. Keeps(k, FirstController) BY <1>1, LookKeeps DEF FirstController
<1>5. Keeps(k, GitLogin) BY <1>1, <1>2, LookKeeps, FreeGives, KeepsThen, NothingKeeps DEF GitLogin
<1> QED BY <1>3, <1>4, <1>5

\* What the controller stage sets up.
AlbOwn ==
  Controllers \cup {"albPool", "password", "settings", "phrase", "cert", "portal"}
    \cup IF HA THEN {"ha"} ELSE {}

\* _deploy_avi_controller and what follows, for one controller or three.
LEMMA NsxAlbGives ==
  ASSUME NEW k \in Kinds
  PROVE  Gives(k, {}, NsxAlb, AlbOwn) /\ Keeps(k, NsxAlb)
<1>1. /\ "aviOva" \in Free /\ "segments" \in Free /\ "albPool" \in Free /\ "portal" \in Free
  BY DEF Free, Plain, Pushed, Files
<1> DEFINE C == {"password", "settings", "phrase"}
<1>2. ASSUME NEW c \in Controllers PROVE Gives(k, {}, Controller(c), {c})
  <2> DEFINE q == Find("aviOva") \o (IF setup = "vcf" THEN Find("segments") ELSE <<>>)
  <2>1. Keeps(k, q) BY <1>1, FreeGives, NothingKeeps, KeepsThen
  <2>2. ImportController(c) = q \o Make(c, "off") \o Put(c, "on") BY DEF ImportController
  <2> HIDE DEF q
  <2> QED BY <2>1, <2>2, ControllerGives DEF Controller
<1>3. Gives(k, {}, EachController, Controllers \cup C)
  <2>1. CASE HA
    <3>1. Controllers = {"c1", "c2", "c3"} BY <2>1 DEF Controllers
    <3>2. Gives(k, {}, Controller("c1") \o Configure, {"c1"} \cup C)
      BY <3>1, <1>2, ConfigureGives, ThenGives
    <3>3. Gives(k, {}, Controller("c2") \o Controller("c3"), {"c2", "c3"})
      BY <3>1, <1>2, ThenGives
    <3>4. EachController = Controller("c1") \o Configure \o (Controller("c2") \o Controller("c3"))
      BY <2>1 DEF EachController
    <3> QED BY <3>1, <3>2, <3>3, <3>4, ThenGives
  <2>2. CASE ~HA
    <3>1. Controllers = {"c1"} BY <2>2 DEF Controllers
    <3>2. Gives(k, {}, Controller("c1") \o Configure, {"c1"} \cup C)
      BY <3>1, <1>2, ConfigureGives, ThenGives
    <3>3. EachController = Controller("c1") \o Configure \o <<>>
      BY <2>2 DEF EachController
    <3> QED BY <3>1, <3>2, <3>3, NothingKeeps, GivesKept
  <2> QED BY <2>1, <2>2
<1> HIDE DEF C
<1>4. Gives(k, {}, ControllerOva \o AlbPool \o EachController, Controllers \cup C \cup {"albPool"})
  <2>1. Gives(k, {}, ControllerOva \o AlbPool, {"albPool"}) BY <1>1, FreeGives, ImagesGive, GivesKept DEF AlbPool
  <2> QED BY <2>1, <1>3, ThenGives
<1> DEFINE H == IF HA THEN {"ha"} ELSE {}
<1>5. Gives(k, {}, ControllerOva \o AlbPool \o EachController \o JoinControllers,
            Controllers \cup C \cup {"albPool"} \cup H)
  <2>1. Gives(k, Controllers, JoinControllers, H) BY JoinGives
  <2> HIDE DEF H
  <2> QED BY <2>1, <1>4, ThenGives
<1> HIDE DEF H
<1>6. Gives(k, {}, ControllerOva \o AlbPool \o EachController \o JoinControllers \o Certificate,
            Controllers \cup C \cup {"albPool"} \cup H \cup {"cert"})
  <2>1. "phrase" \in C BY DEF C
  <2> QED BY <2>1, <1>5, CertificateGives, ThenGives DEF Certificate
<1>7. Gives(k, {}, NsxAlb, Controllers \cup C \cup {"albPool"} \cup H \cup {"cert"} \cup {"portal"})
  <2> DEFINE q == ControllerOva \o AlbPool \o EachController \o JoinControllers \o Certificate
             G == Controllers \cup C \cup {"albPool"} \cup H \cup {"cert"}
  <2>1. Gives(k, {}, q, G) BY <1>6
  <2>2. Gives(k, {}, ReplaceCertificate, {"portal"}) BY <1>1, FreeGives DEF ReplaceCertificate
  <2>3. NsxAlb = q \o ReplaceCertificate BY DEF NsxAlb
  <2> HIDE DEF q, G
  <2>4. Gives(k, {}, NsxAlb, G \cup {"portal"}) BY <2>1, <2>2, <2>3, ThenGives
  <2> QED BY <2>4 DEF G
<1>8. AlbOwn = Controllers \cup C \cup {"albPool"} \cup H \cup {"cert"} \cup {"portal"} BY DEF AlbOwn, C, H
<1> QED BY <1>7, <1>8, LessGives DEF Keeps

-----------------------------------------------------------------------------
(* The cloud, and the engines that it is given or makes.                   *)

\* The IPAM profile is made of the network of the engines' addresses; on VMC a short one
\* may be made without it.
LEMMA IpamGives ==
  ASSUME NEW k \in Kinds
  PROVE  /\ Gives(k, {"vipPool"}, Ensure("ipam"), {"ipam"})
         /\ Gives(k, {"vipPool"}, Put("ipam", "there"), {"ipam"})
         /\ k.setup = "vmc" => Gives(k, {}, Put("ipam", "short"), {"ipam"})
         /\ \A S \in SUBSET {"short", "there"} :
              /\ Gives(k, {}, Need("ipam", S), {"ipam"})
              /\ k.setup # "vmc" => Gives(k, {}, Need("ipam", S), {"vipPool"})
              /\ \A X, p : Gives(k, X, p, {"ipam"}) => Gives(k, X, Unless("ipam", S, p), {"ipam"})
<1>1. "ipam" \in Concerned(k.setup) BY CommonThings, CommonConcerned
<1>2. Needs(k, "ipam") = IF k.setup = "vmc" THEN {} ELSE {"vipPool"} BY DEF Needs, Engines, Dependents
<1>3. Solid("ipam") = {"short", "there"} BY DEF Solid, Controllers, Loose, Engines, Files, VcdVars
<1>4. "ipam" \notin Loose BY DEF Loose, Engines, Files, VcdVars
<1>5. Gives(k, {"vipPool"}, Ensure("ipam"), {"ipam"}) BY <1>1, <1>2, <1>3, EnsureGives
<1>6. Gives(k, {"vipPool"}, Put("ipam", "there"), {"ipam"})
      /\ (k.setup = "vmc" => Gives(k, {}, Put("ipam", "short"), {"ipam"}))
  <2>1. "ipam" \in Things BY <1>1 DEF Concerned
  <2>2. Lives["ipam"] = {"none", "short", "there"} BY <2>1, StatesOf
  <2>3. \A w \in Known(k, {"vipPool"}) : Upholds(k, w, "ipam", "there") BY UpholdsProfile
  <2>4. \A w \in Known(k, {}) : Upholds(k, w, "ipam", "short") BY UpholdsProfile
  <2>5. Gives(k, {"vipPool"}, Put("ipam", "there"), {"ipam"}) BY <1>1, <1>2, <1>3, <2>2, <2>3, PutHolds
  <2>6. k.setup = "vmc" => Gives(k, {}, Put("ipam", "short"), {"ipam"}) BY <1>1, <1>2, <1>3, <2>2, <2>4, PutHolds
  <2> QED BY <2>5, <2>6
<1>7. ASSUME NEW S \in SUBSET {"short", "there"}
      PROVE  /\ Gives(k, {}, Need("ipam", S), {"ipam"})
             /\ k.setup # "vmc" => Gives(k, {}, Need("ipam", S), {"vipPool"})
             /\ \A X, p : Gives(k, X, p, {"ipam"}) => Gives(k, X, Unless("ipam", S, p), {"ipam"})
  <2>1. Gives(k, {}, Need("ipam", S), {"ipam"}) BY <1>1, <1>3, LookGives
  <2>2. k.setup # "vmc" => Gives(k, {}, Need("ipam", S), {"vipPool"})
    BY <1>1, <1>2, <1>4, <2>1, CommonThings, CommonBears, NeedsGives
  <2>3. \A X, p : Gives(k, X, p, {"ipam"}) => Gives(k, X, Unless("ipam", S, p), {"ipam"})
    BY <1>1, <1>3, UnlessGives
  <2> QED BY <2>1, <2>2, <2>3
<1> QED BY <1>5, <1>6, <1>7

\* The cloud is given a profile, and it is found by name.
LEMMA CloudGives ==
  ASSUME NEW k \in Kinds
  PROVE  /\ Gives(k, {"ipam", "cloud"}, Set("cloudIpam"), {"cloudIpam"})
         /\ Gives(k, {}, Find("cloud"), {"cloud"})
         /\ Gives(k, Needs(k, "cloud"), Set("cloud"), {"cloud"})
         /\ Gives(k, Needs(k, "cloud"), Ensure("cloud"), {"cloud"})
         /\ \A X, p : Gives(k, X, p, {"cloud"}) => Gives(k, X, Unless("cloud", Have, p), {"cloud"})
<1>1. "cloud" \in Concerned(k.setup) /\ "cloudIpam" \in Concerned(k.setup) BY CommonThings, CommonConcerned
<1>2. Needs(k, "cloudIpam") = {"ipam", "cloud"} BY DEF Needs, Engines, Dependents
<1>3. Solid("cloud") = Have /\ Solid("cloudIpam") = Have BY DEF Solid, Controllers, Loose, Engines, Files, VcdVars
<1>4. "there" \in Have BY DEF Have
<1>5. Gives(k, {"ipam", "cloud"}, Set("cloudIpam"), {"cloudIpam"}) BY <1>1, <1>2, <1>3, <1>4, PutGives DEF Set
<1>6. Gives(k, {}, Find("cloud"), {"cloud"}) BY <1>1, <1>3, LookGives DEF Find
<1>7. Gives(k, Needs(k, "cloud"), Set("cloud"), {"cloud"}) BY <1>1, <1>3, <1>4, PutGives DEF Set
<1>8. Gives(k, Needs(k, "cloud"), Ensure("cloud"), {"cloud"}) BY <1>1, <1>3, <1>4, EnsureGives
<1>9. \A X, p : Gives(k, X, p, {"cloud"}) => Gives(k, X, Unless("cloud", Have, p), {"cloud"})
  BY <1>1, <1>3, UnlessGives
<1> QED BY <1>5, <1>6, <1>7, <1>8, <1>9

\* What an NSX-T cloud is made of.
LEMMA CloudNeeds ==
  ASSUME NEW k
  PROVE  /\ Needs(k, "cloud") \subseteq {"vcCred", "nsxCred", "segments"}
         /\ k.setup \notin {"vcf", "vcd", "pipelineVcf"} => Needs(k, "cloud") = {}
BY DEF Needs, Engines, Dependents

\* An engine is imported, or the virtual service has it made.
LEMMA EngineGives ==
  ASSUME NEW k \in Kinds
  PROVE  /\ ~ Orchestrating(k) =>
              \A e \in Engines : \A q : Keeps(k, q) => Gives(k, {"cloud", PoolOf(k)}, q \o Make(e, "off") \o Put(e, "on"), {})
         /\ \A g \in {"mgmt", "work"} : Gives(k, {"cloud", PoolOf(k)}, Put("vs", g), {})
         /\ \A m \in {"member1", "member2"} : Gives(k, {}, Set(m), {m})
         /\ \A m \in {"member3", "member4"} : Gives(k, {"workGroup"}, Set(m), {m})
<1>1. ASSUME ~ Orchestrating(k), NEW e \in Engines, NEW q, Keeps(k, q)
      PROVE  Gives(k, {"cloud", PoolOf(k)}, q \o Make(e, "off") \o Put(e, "on"), {})
  <2>1. Powers(k, e) BY <1>1 DEF Powers
  <2>2. Needs(k, e) = {"cloud", PoolOf(k)}
    <3>1. Before(k, e) = {} BY <1>1 DEF Before, InPipeline, Orchestrating, Engines
    <3> QED BY <3>1 DEF Needs, Engines, Dependents
  <2>3. Gives(k, {"cloud", PoolOf(k)}, q, {}) BY <1>1, LessGives DEF Keeps
  <2> QED BY <2>1, <2>2, <2>3, PowerGives
<1>2. ASSUME NEW g \in {"mgmt", "work"} PROVE Gives(k, {"cloud", PoolOf(k)}, Put("vs", g), {})
  <2>1. "vs" \in Things /\ "vs" \in Concerned(k.setup) BY CommonThings, CommonConcerned DEF Common
  <2>2. Needs(k, "vs") = {"cloud", PoolOf(k)} BY DEF Needs, Engines, Before, Dependents, Orchestrating, InPipeline
  <2>3. Lives["vs"] = {"none", "mgmt", "work"} BY <2>1, StatesOf
  <2>4. Solid("vs") = Lives["vs"] BY DEF Solid, Controllers, Loose, Engines
  <2> QED BY <2>1, <2>2, <2>3, <2>4, PutGives
<1>3. ASSUME NEW m \in {"member1", "member2"} PROVE Gives(k, {}, Set(m), {m})
  <2>1. m \in Free BY DEF Free, Plain
  <2> QED BY <2>1, FreeGives
<1>4. ASSUME NEW m \in {"member3", "member4"} PROVE Gives(k, {"workGroup"}, Set(m), {m})
  <2>1. m \in Concerned(k.setup) BY CommonThings, CommonConcerned
  <2>2. Needs(k, m) = {"workGroup"} BY DEF Needs, Engines, Dependents
  <2>3. Solid(m) = Have BY DEF Solid, Controllers, Loose, Engines, Files, VcdVars
  <2> QED BY <2>1, <2>2, <2>3, PutGives DEF Set, Have
<1> QED BY <1>1, <1>2, <1>3, <1>4

\* That a pledge is met can be seen, and so that a thing bears and what it rests on.
LEMMA PledgeSeen ==
  ASSUME NEW k \in Kinds, NEW r \in Pledges(k), NEW w, Met(r, w)
  PROVE  Bears(k, {r}, w)
<1>1. r \notin Bearing(k)
  <2>1. Bearing(k) \subseteq Things \cup {"never"} BY DEF Bearing, Concerned
  <2> QED BY <2>1, ThingsNoPledges
<1> QED BY <1>1 DEF Bears

\* A thing that bears is known to, and so is what it rests on.
LEMMA ThingSeen ==
  ASSUME NEW k \in Kinds, NEW x \in Concerned(k.setup), NEW w \in Sound(k), w[x] \in Solid(x)
  PROVE  Bears(k, {x}, w) /\ (x \notin Loose => Bears(k, Needs(k, x), w))
<1>1. x \notin Pledges(k) BY ThingsNoPledges DEF Concerned
<1>2. Bears(k, {x}, w) BY <1>1 DEF Bears
<1>3. ASSUME x \notin Loose PROVE Bears(k, Needs(k, x), w)
  <2>1. w[x] # "none"
    <3>1. x \in Things BY DEF Concerned
    <3> QED BY <3>1, <1>3, SolidStates
  <2>2. \A y \in Needs(k, x) : w[y] \in Solid(y) BY <2>1 DEF Sound
  <2>3. \A y \in Needs(k, x) : y \in Things \cup {"never"} BY NeedsConcerned DEF Concerned
  <2>4. \A y \in Needs(k, x) : y \notin Pledges(k) BY <2>3, ThingsNoPledges
  <2> QED BY <2>2, <2>4 DEF Bears
<1> QED BY <1>2, <1>3

\* What is known of two sets is known of both.
LEMMA BothSeen ==
  ASSUME NEW k, NEW X, NEW Y, NEW w, Bears(k, X, w), Bears(k, Y, w)
  PROVE  Bears(k, X \cup Y, w)
BY DEF Bears

\* What is known of more is known of less.
LEMMA LessSeen ==
  ASSUME NEW k, NEW X, NEW Y, NEW w, Bears(k, X, w), Y \subseteq X
  PROVE  Bears(k, Y, w)
BY DEF Bears

\* The pledge that an engine is connected.
JoinOf(e) ==
  CASE e = "e1" -> "joined1" [] e = "e2" -> "joined2" [] e = "e3" -> "joined3" [] e = "e4" -> "joined4"

\* The engines are looked at, and are connected once that was waited for.
LEMMA EngineLooks ==
  ASSUME NEW k \in Kinds
  PROVE  /\ \A e \in Engines : \A S : Keeps(k, Await(e, S)) /\ Keeps(k, Need(e, S))
         /\ \A es : Keeps(k, AllListed(es)) /\ Keeps(k, VmcListed(es))
         /\ \A d, e \in Engines : /\ Gives(k, {}, Connected(d, e), {JoinOf(d), JoinOf(e)})
                                  /\ Gives(k, {}, VmcConnected(d, e), {JoinOf(d), JoinOf(e)})
         /\ \A g : Gives(k, {}, FirstEngine(g), {FirstOf(g)})
<1>1. \A e \in Engines : \A S : Keeps(k, Await(e, S)) /\ Keeps(k, Need(e, S))
  BY CommonThings, LookKeeps
<1>2. "e1" \in Engines /\ "e2" \in Engines /\ "e3" \in Engines /\ "e4" \in Engines BY DEF Engines
<1>3. \A es : Keeps(k, AllListed(es)) BY <1>1, <1>2, KeepsThen DEF AllListed
<1>4. ASSUME NEW e \in Engines
      PROVE  Gives(k, {}, Await(e, {"connected"}), {JoinOf(e)}) /\ Gives(k, {}, Await(e, {"connected"}), {e})
  <2>1. e \in Concerned(k.setup) BY CommonThings, CommonConcerned
  <2>2. JoinOf(e) \in Pledges(k) /\ \A w : Met(JoinOf(e), w) <=> w[e] = "connected"
    BY DEF JoinOf, Pledges, Met, Engines
  <2>3. \A w \in Sound(k) : w[e] \in {"connected"} => Bears(k, {JoinOf(e)}, w) BY <2>2, PledgeSeen
  <2>4. {"connected"} \subseteq Solid(e) BY DEF Solid, Controllers, Loose, Engines, Files, VcdVars, Listed
  <2> QED BY <2>1, <2>3, <2>4, LookSees, LookGives
<1>5. ASSUME NEW d \in Engines, NEW e \in Engines
      PROVE  /\ Gives(k, {}, Connected(d, e), {JoinOf(d), JoinOf(e)})
             /\ Gives(k, {}, VmcConnected(d, e), {JoinOf(d), JoinOf(e)})
  <2>1. Gives(k, {}, Await(d, {"connected"}), {JoinOf(d)}) /\ Gives(k, {}, Await(e, {"connected"}), {JoinOf(e)})
    BY <1>4
  <2>2. Gives(k, {}, Await(d, {"connected"}) \o Await(e, {"connected"}), {JoinOf(d), JoinOf(e)})
    BY <2>1, ThenGives
  <2> QED BY <2>2 DEF Connected, VmcConnected
<1>6. \A g : FirstOf(g) \in Engines BY DEF FirstOf, Engines
<1>7. ASSUME NEW g PROVE Gives(k, {}, FirstEngine(g), {FirstOf(g)})
  <2>1. Keeps(k, Await(FirstOf(g), Listed) \o Need(FirstOf(g), {"up"})) BY <1>1, <1>6, KeepsThen
  <2> QED BY <2>1, <1>4, <1>6, GivesKept DEF FirstEngine
<1> QED BY <1>1, <1>3, <1>5, <1>7, Zenon DEF VmcListed

\* An engine is deployed where there is a cloud and a network for it.
LEMMA DeployGives ==
  ASSUME NEW k \in Kinds, ~ Orchestrating(k), NEW e \in Engines
  PROVE  /\ Gives(k, {"cloud", PoolOf(k)}, DeployEngine(e), {})
         /\ Gives(k, {"cloud", PoolOf(k)}, VmcEngine(e), {})
<1>1. e \in Concerned(k.setup) /\ "seFile" \in Common BY CommonThings, CommonConcerned DEF Files
<1>2. Keeps(k, Find("seFile")) BY <1>1, LookKeeps
<1>3. Gives(k, {"cloud", PoolOf(k)}, Find("seFile") \o Make(e, "off") \o Put(e, "on"), {})
  BY <1>2, EngineGives
<1>4. Gives(k, {"cloud", PoolOf(k)}, DeployEngine(e), {}) BY <1>1, <1>3, UnlessGives DEF DeployEngine
<1>5. Gives(k, {"cloud", PoolOf(k)}, Unless(e, {"off"} \cup Powered, VmcImportEngine(e)), {})
  BY <1>1, <1>3, UnlessGives DEF VmcImportEngine
<1>6. Gives(k, {"cloud", PoolOf(k)}, VmcEngine(e), {}) BY <1>5, EngineLooks, GivesKept DEF VmcEngine
<1> QED BY <1>4, <1>6

\* A route is added to the cloud.
LEMMA RouteGives ==
  ASSUME NEW k \in Kinds, NEW r \in {"route", "vipRoute", "workRoute"}
  PROVE  /\ Keeps(k, StaticRoute(r)) /\ Keeps(k, VmcRoute(r)) /\ Keeps(k, GitRoute(r)) /\ Keeps(k, TkgsRoute(r))
         /\ Gives(k, {}, VmcRoute(r), {"cloud", r}) /\ Gives(k, {}, StaticRoute(r), {"cloud", r})
         /\ Gives(k, {}, GitRoute(r), {"cloud", r}) /\ Gives(k, {}, TkgsRoute(r), {"cloud", r})
<1>1. r \in Free BY DEF Free, Plain
<1>2. Gives(k, {}, Ensure(r), {r}) BY <1>1, FreeGives
<1>3. Gives(k, {}, Find("cloud") \o Ensure(r), {"cloud", r}) BY <1>2, CloudGives, ThenGives
<1>4. Keeps(k, Find("cloud") \o Ensure(r)) BY <1>3, LessGives DEF Keeps
<1> QED BY <1>3, <1>4 DEF StaticRoute, VmcRoute, GitRoute, TkgsRoute

\* create_virtual_service: the first engine is made while the service is there.
LEMMA ServiceGives ==
  ASSUME NEW k \in Kinds, NEW g \in {"mgmt", "work"}
  PROVE  /\ Gives(k, {"cloud", PoolOf(k)}, Service(g), {}) /\ Gives(k, {"cloud", PoolOf(k)}, GitService(g), {})
         /\ Orchestrating(k) =>
              /\ Gives(k, {"cloud", PoolOf(k)}, Service(g), {FirstOf(g)})
              /\ Gives(k, {"cloud", PoolOf(k)}, GitService(g), {FirstOf(g)})
<1>1. "vipPool" \in Free /\ "vsVip" \in Free BY DEF Free, Plain
<1>2. /\ SecondOf(g) \in Common /\ SecondOf(g) \in Engines
      /\ FirstOf(g) \in Engines /\ SecondOf(g) \in Concerned(k.setup)
  BY CommonThings, CommonConcerned DEF SecondOf, FirstOf, Engines
<1>3. "vs" \in Concerned(k.setup) BY CommonThings, CommonConcerned
<1> DEFINE q == ServiceAddress \o ServiceOf(g) \o FirstEngine(g) \o RemoveService
<1>4. Gives(k, {"cloud", PoolOf(k)}, q, {FirstOf(g)})
  <2>1. Keeps(k, ServiceAddress) BY <1>1, FreeGives, KeepsThen DEF ServiceAddress
  <2>2. Gives(k, {"cloud", PoolOf(k)}, ServiceOf(g), {}) BY <1>3, EngineGives, UnlessGives DEF ServiceOf
  <2>3. Gives(k, {}, FirstEngine(g), {FirstOf(g)}) BY EngineLooks
  <2>4. Keeps(k, RemoveService) BY DiscardGives, KeepsThen DEF RemoveService
  <2>5. Gives(k, {"cloud", PoolOf(k)}, ServiceAddress \o ServiceOf(g), {}) BY <2>1, <2>2, GivesKept
  <2>6. Gives(k, {"cloud", PoolOf(k)}, ServiceAddress \o ServiceOf(g) \o FirstEngine(g), {FirstOf(g)})
    BY <2>3, <2>5, ThenGives
  <2> QED BY <2>4, <2>6, GivesKept
<1>5. Service(g) = Unless(SecondOf(g), Listed, q) BY DEF Service
<1>6. GitService(g) = Service(g)
  BY DEF GitService, Service, GitAddress, ServiceAddress, GitServiceOf, ServiceOf, GitFirstEngine, FirstEngine,
     GitRemoveService, RemoveService
<1> HIDE DEF q
<1>7. Gives(k, {"cloud", PoolOf(k)}, Service(g), {}) BY <1>2, <1>4, <1>5, UnlessGives
<1>8. ASSUME Orchestrating(k) PROVE Gives(k, {"cloud", PoolOf(k)}, Service(g), {FirstOf(g)})
  <2>1. ASSUME NEW w \in Known(k, {"cloud", PoolOf(k)}), w[SecondOf(g)] \in Listed
        PROVE  Bears(k, {FirstOf(g)}, w)
    <3>1. w \in Sound(k) BY <2>1 DEF Known
    <3>2. Solid(SecondOf(g)) = Listed
      BY <1>2 DEF Solid, Controllers, Loose, Engines, Files, VcdVars
    <3>3. SecondOf(g) \notin Loose BY <1>2 DEF Loose, Engines, Files, VcdVars
    <3>4. Bears(k, Needs(k, SecondOf(g)), w) BY <3>1, <3>2, <3>3, <1>2, <2>1, ThingSeen
    <3>5. Before(k, SecondOf(g)) = {FirstOf(g)} BY <1>8 DEF Before, SecondOf, FirstOf
    <3>6. FirstOf(g) \in Needs(k, SecondOf(g)) BY <1>2, <3>5 DEF Needs, Engines, Dependents
    <3> QED BY <3>4, <3>6, LessSeen
  <2> QED BY <1>2, <1>4, <1>5, <2>1, UnlessSees
<1> QED BY <1>6, <1>7, <1>8

\* The template of the engines.
LEMMA TemplateKeeps ==
  ASSUME NEW k \in Kinds
  PROVE  Keeps(k, EngineOva) /\ Keeps(k, EngineTemplate) /\ Keeps(k, VmcEngineOva) /\ Keeps(k, VmcTemplate)
<1>1. "seFile" \in Common /\ "seFile" \in Files BY CommonThings DEF Files
<1>2. "seTemplate" \in Free BY DEF Free, Plain, Pushed, Files
<1>3. Keeps(k, Copy("seFile")) BY <1>1, CommonConcerned, CopyGives
<1>4. Keeps(k, Find("seFile") \o Set("seTemplate")) BY <1>1, <1>2, LookKeeps, FreeGives, KeepsThen
<1>5. "seTemplate" \in Common BY <1>2, CommonThings
<1> QED BY <1>1, <1>3, <1>4, <1>5, UnlessKeeps DEF EngineOva, EngineTemplate, VmcEngineOva, VmcTemplate

\* Engines that were imported are connected and in their group.
EnginesOwn == {"member1", "member2", "joined1", "joined2"}
WorkEnginesOwn == {"member3", "member4", "joined3", "joined4"}

\* controller_deployment, for the management and for the workload group.
LEMMA EnginesGive ==
  ASSUME NEW k \in Kinds, ~ Orchestrating(k)
  PROVE  /\ Gives(k, {"cloud", PoolOf(k)}, ManagementEngines, {"route"} \cup EnginesOwn)
         /\ Gives(k, {"cloud", PoolOf(k), "workGroup"}, WorkloadEngines, WorkEnginesOwn)
         /\ Gives(k, {"cloud", PoolOf(k)}, VmcEngines("e1", "e2", "member1", "member2", {"e1", "e2"}), EnginesOwn)
         /\ Gives(k, {"cloud", PoolOf(k), "workGroup"}, VmcEngines("e3", "e4", "member3", "member4", Engines),
                  WorkEnginesOwn)
<1>1. "e1" \in Engines /\ "e2" \in Engines /\ "e3" \in Engines /\ "e4" \in Engines BY DEF Engines
<1>2. /\ JoinOf("e1") = "joined1" /\ JoinOf("e2") = "joined2" /\ JoinOf("e3") = "joined3" /\ JoinOf("e4") = "joined4"
      /\ EnginesOwn = {"member1", "member2"} \cup {JoinOf("e1"), JoinOf("e2")}
      /\ WorkEnginesOwn = {"member3", "member4"} \cup {JoinOf("e3"), JoinOf("e4")}
  BY DEF JoinOf, EnginesOwn, WorkEnginesOwn
<1>3. ASSUME NEW X, NEW d \in Engines, NEW e \in Engines, NEW m, NEW n, NEW q, NEW Y, Gives(k, X, q, {}),
             Gives(k, X, Set(m), {m}), Gives(k, X, Set(n), {n}), Y = {m, n} \cup {JoinOf(d), JoinOf(e)}
      PROVE  /\ Gives(k, X, q \o Regroup(m, n) \o Connected(d, e), Y)
             /\ Gives(k, X, q \o VmcRegroup(m, n) \o VmcConnected(d, e), Y)
  <2>1. Gives(k, X, Set(m) \o Set(n), {m, n}) BY <1>3, ThenGives
  <2>2. Gives(k, X, q \o (Set(m) \o Set(n)), {m, n}) BY <1>3, <2>1, ThenGives
  <2>3. /\ Gives(k, {}, Connected(d, e), {JoinOf(d), JoinOf(e)})
        /\ Gives(k, {}, VmcConnected(d, e), {JoinOf(d), JoinOf(e)})
    BY <1>3, EngineLooks
  <2>4. /\ Gives(k, X, q \o (Set(m) \o Set(n)) \o Connected(d, e), Y)
        /\ Gives(k, X, q \o (Set(m) \o Set(n)) \o VmcConnected(d, e), Y)
    BY <1>3, <2>2, <2>3, ThenGives
  <2> QED BY <2>4 DEF Regroup, VmcRegroup
<1>4. /\ Gives(k, {"cloud", PoolOf(k)}, Set("member1"), {"member1"})
      /\ Gives(k, {"cloud", PoolOf(k)}, Set("member2"), {"member2"})
      /\ Gives(k, {"cloud", PoolOf(k), "workGroup"}, Set("member3"), {"member3"})
      /\ Gives(k, {"cloud", PoolOf(k), "workGroup"}, Set("member4"), {"member4"})
  <2>1. \A m \in {"member1", "member2"} : Gives(k, {}, Set(m), {m}) BY EngineGives
  <2>2. \A m \in {"member3", "member4"} : Gives(k, {"workGroup"}, Set(m), {m}) BY EngineGives
  <2>3. /\ Gives(k, {"cloud", PoolOf(k)}, Set("member1"), {"member1"})
        /\ Gives(k, {"cloud", PoolOf(k)}, Set("member2"), {"member2"})
    BY <2>1, LessGives
  <2>4. /\ Gives(k, {"cloud", PoolOf(k), "workGroup"}, Set("member3"), {"member3"})
        /\ Gives(k, {"cloud", PoolOf(k), "workGroup"}, Set("member4"), {"member4"})
    BY <2>2, LessGives
  <2> QED BY <2>3, <2>4
<1>5. Gives(k, {"cloud", PoolOf(k)}, ManagementEngines, {"route"} \cup EnginesOwn)
  <2> DEFINE q == DeployEngine("e1") \o Await("e1", Powered) \o DeployEngine("e2") \o Await("e2", Powered)
                    \o AllListed({"e1", "e2"})
  <2>1. Gives(k, {"cloud", PoolOf(k)}, DeployEngine("e1") \o Await("e1", Powered), {})
    BY <1>1, DeployGives, EngineLooks, GivesKept
  <2>2. Gives(k, {"cloud", PoolOf(k)}, DeployEngine("e1") \o Await("e1", Powered) \o DeployEngine("e2"), {})
    BY <2>1, <1>1, DeployGives, ThenGives
  <2>3. Gives(k, {"cloud", PoolOf(k)}, q, {}) BY <2>2, <1>1, EngineLooks, GivesKept
  <2>4. ManagementEngines = q \o Regroup("member1", "member2") \o Connected("e1", "e2")
                              \o StaticRoute("vipRoute") \o StaticRoute("route")
    BY DEF ManagementEngines, DeployEngines
  <2> HIDE DEF q
  <2>5. Gives(k, {"cloud", PoolOf(k)}, q \o Regroup("member1", "member2") \o Connected("e1", "e2"), EnginesOwn)
    BY <1>1, <1>2, <1>3, <1>4, <2>3
  <2>6. Gives(k, {"cloud", PoolOf(k)}, q \o Regroup("member1", "member2") \o Connected("e1", "e2")
                                         \o StaticRoute("vipRoute"), EnginesOwn)
    BY <2>5, RouteGives, GivesKept
  <2>7. Gives(k, {}, StaticRoute("route"), {"cloud", "route"}) BY RouteGives
  <2> QED BY <2>4, <2>6, <2>7, ThenGives
<1>6. Gives(k, {"cloud", PoolOf(k), "workGroup"}, WorkloadEngines, WorkEnginesOwn)
  <2> DEFINE q == DeployEngine("e3") \o Await("e3", Powered) \o DeployEngine("e4") \o Await("e4", Powered)
                    \o AllListed(Engines)
  <2>1. Gives(k, {"cloud", PoolOf(k)}, DeployEngine("e3") \o Await("e3", Powered), {})
    BY <1>1, DeployGives, EngineLooks, GivesKept
  <2>2. Gives(k, {"cloud", PoolOf(k)}, DeployEngine("e3") \o Await("e3", Powered) \o DeployEngine("e4"), {})
    BY <2>1, <1>1, DeployGives, ThenGives
  <2>3. Gives(k, {"cloud", PoolOf(k)}, q, {}) BY <2>2, <1>1, EngineLooks, GivesKept
  <2>4. WorkloadEngines = q \o Regroup("member3", "member4") \o Connected("e3", "e4")
                            \o StaticRoute("vipRoute") \o StaticRoute("workRoute")
    BY DEF WorkloadEngines, DeployEngines
  <2> HIDE DEF q
  <2>5. Gives(k, {"cloud", PoolOf(k), "workGroup"}, q, {}) BY <2>3, LessGives
  <2>6. Gives(k, {"cloud", PoolOf(k), "workGroup"}, q \o Regroup("member3", "member4") \o Connected("e3", "e4"),
              WorkEnginesOwn)
    BY <1>1, <1>2, <1>3, <1>4, <2>5
  <2> QED BY <2>4, <2>6, RouteGives, GivesKept
<1>7. \A d, e \in Engines : \A es : Gives(k, {"cloud", PoolOf(k)}, VmcEngine(d) \o VmcEngine(e) \o VmcListed(es), {})
  <2> TAKE d, e \in Engines
  <2> TAKE es
  <2>1. Gives(k, {"cloud", PoolOf(k)}, VmcEngine(d) \o VmcEngine(e), {}) BY DeployGives, ThenGives
  <2> QED BY <2>1, EngineLooks, GivesKept
<1>8. Gives(k, {"cloud", PoolOf(k)}, VmcEngines("e1", "e2", "member1", "member2", {"e1", "e2"}), EnginesOwn)
  <2> DEFINE q == VmcEngine("e1") \o VmcEngine("e2") \o VmcListed({"e1", "e2"})
  <2>1. Gives(k, {"cloud", PoolOf(k)}, q, {}) BY <1>1, <1>7
  <2>2. VmcEngines("e1", "e2", "member1", "member2", {"e1", "e2"})
          = q \o VmcRegroup("member1", "member2") \o VmcConnected("e1", "e2")
    BY DEF VmcEngines
  <2> HIDE DEF q
  <2>3. Gives(k, {"cloud", PoolOf(k)}, q \o VmcRegroup("member1", "member2") \o VmcConnected("e1", "e2"),
              EnginesOwn)
    BY <1>1, <1>2, <1>3, <1>4, <2>1
  <2> QED BY <2>2, <2>3
<1>9. Gives(k, {"cloud", PoolOf(k), "workGroup"}, VmcEngines("e3", "e4", "member3", "member4", Engines),
            WorkEnginesOwn)
  <2> DEFINE q == VmcEngine("e3") \o VmcEngine("e4") \o VmcListed(Engines)
  <2>1. Gives(k, {"cloud", PoolOf(k), "workGroup"}, q, {}) BY <1>1, <1>7, LessGives
  <2>2. VmcEngines("e3", "e4", "member3", "member4", Engines)
          = q \o VmcRegroup("member3", "member4") \o VmcConnected("e3", "e4")
    BY DEF VmcEngines
  <2> HIDE DEF q
  <2>3. Gives(k, {"cloud", PoolOf(k), "workGroup"},
              q \o VmcRegroup("member3", "member4") \o VmcConnected("e3", "e4"), WorkEnginesOwn)
    BY <1>1, <1>2, <1>3, <1>4, <2>1
  <2> QED BY <2>2, <2>3
<1> QED BY <1>5, <1>6, <1>8, <1>9

\* What the stage of the workload cluster looks at again.
LEMMA EnginesAgain ==
  ASSUME NEW k \in Kinds
  PROVE  Keeps(k, WorkloadEnginesAgain) /\ Keeps(k, VmcWorkEngines)
<1>1. "e1" \in Engines /\ "e2" \in Engines /\ "e3" \in Engines /\ "e4" \in Engines BY DEF Engines
<1>2. "workGroup" \in Free BY DEF Free, Plain
<1>3. Gives(k, {"workGroup"}, Set("member3") \o Set("member4"), {}) BY EngineGives, ThenGives
<1>4. Gives(k, {}, Find("workGroup"), {"workGroup"}) BY <1>2, FreeGives
<1>5. Keeps(k, WorkloadEnginesAgain)
  <2>1. Gives(k, {}, Await("e3", Powered) \o Await("e4", Powered) \o AllListed(Engines) \o Find("workGroup"), {"workGroup"})
    BY <1>1, <1>4, EngineLooks, KeepsThen, GivesKept
  <2> QED BY <2>1, <1>3, ThenGives DEF WorkloadEnginesAgain, Keeps, Regroup
<1>6. Keeps(k, VmcWorkEngines)
  <2>1. Gives(k, {}, FirstController \o Await("e3", Powered) \o Await("e4", Powered) \o VmcListed(Engines)
                       \o Find("workGroup"), {"workGroup"})
    BY <1>1, <1>4, LoginKeeps, EngineLooks, KeepsThen, GivesKept
  <2> QED BY <2>1, <1>3, ThenGives DEF VmcWorkEngines, Keeps, VmcRegroup
<1> QED BY <1>5, <1>6

\* An address pool is set up on a network that the cloud discovered.
LEMMA PoolGives ==
  ASSUME NEW k \in Kinds, NEW x \in {"mgmtPool", "dataPool", "vipPool", "workPool"}
  PROVE  /\ Gives(k, {}, NetworkPool(x), {x}) /\ Gives(k, {}, VipNetwork(x), {x})
         /\ Gives(k, {}, VmcNetworkPool(x), {x}) /\ Gives(k, {}, GitPool(x), {x}) /\ Gives(k, {}, TkgsPool(x), {x})
         /\ Keeps(k, NetworkPool(x)) /\ Keeps(k, VipNetwork(x)) /\ Keeps(k, VmcNetworkPool(x))
         /\ Keeps(k, GitPool(x)) /\ Keeps(k, TkgsPool(x))
<1>1. x \in Free /\ "inventory" \in Free BY DEF Free, Plain
<1>2. Keeps(k, Find("inventory")) /\ Gives(k, {}, Ensure(x), {x}) /\ Gives(k, {}, Set(x), {x}) BY <1>1, FreeGives
<1>3. Gives(k, {}, Unless(x, Have, Set(x)), {x}) BY <1>1, <1>2, UnlessHas
<1>4. /\ Gives(k, {}, NetworkPool(x), {x}) /\ Gives(k, {}, VipNetwork(x), {x}) /\ Gives(k, {}, VmcNetworkPool(x), {x})
      /\ Gives(k, {}, GitPool(x), {x}) /\ Gives(k, {}, TkgsPool(x), {x})
  BY <1>2, <1>3, GivesKept
     DEF NetworkPool, NetworkUrl, IpPools, VipNetwork, VmcNetworkPool, GitPool, GitNetworkUrl, TkgsPool,
         TkgsNetworkUrl, TkgsIpPools
<1> QED BY <1>4, LessGives DEF Keeps

\* The credentials of an NSX-T cloud: both are there in the end.
LEMMA CredentialsGive ==
  ASSUME NEW k \in Kinds
  PROVE  /\ Gives(k, {}, Credentials, {"vcCred", "nsxCred"}) /\ Gives(k, {}, GitCredentials, {"vcCred", "nsxCred"})
         /\ Gives(k, {}, VcdCredentials, {"vcCred", "nsxCred"})
<1>1. "vcCred" \in Free /\ "nsxCred" \in Free BY DEF Free, Plain
<1>2. Keeps(k, Need("nsxCred", {"none"})) BY <1>1, CommonThings, LookKeeps
<1>3. Gives(k, {}, Need("nsxCred", {"none"}) \o Set("vcCred") \o Set("nsxCred"), {"vcCred"})
  BY <1>1, <1>2, FreeGives, GivesKept
<1>4. Gives(k, {}, Need("nsxCred", {"none"}) \o Set("nsxCred") \o Set("vcCred"), {"vcCred"})
  BY <1>1, <1>2, FreeGives, KeepsThen, GivesKept
<1>5. Gives(k, {}, Find("nsxCred"), {"nsxCred"}) BY <1>1, FreeGives
<1>6. Gives(k, {}, Credentials, {"vcCred", "nsxCred"})
  <2>1. Gives(k, {}, Unless("vcCred", Have, Need("nsxCred", {"none"}) \o Set("vcCred") \o Set("nsxCred")), {"vcCred"})
    BY <1>1, <1>3, UnlessHas
  <2> QED BY <2>1, <1>5, ThenGives DEF Credentials
<1>7. Gives(k, {}, VcdCredentials, {"vcCred", "nsxCred"})
  <2>1. Gives(k, {}, Unless("vcCred", Have, Need("nsxCred", {"none"}) \o Set("nsxCred") \o Set("vcCred")), {"vcCred"})
    BY <1>1, <1>4, UnlessHas
  <2> QED BY <2>1, <1>5, ThenGives DEF VcdCredentials
<1> QED BY <1>6, <1>7 DEF Credentials, GitCredentials

\* An NSX-T cloud is made of the credentials and the segments.
LEMMA NsxtCloudGives ==
  ASSUME NEW k \in Kinds
  PROVE  /\ Gives(k, {}, NsxtCloud, {"cloud"}) /\ Gives(k, {}, GitNsxtCloud, {"cloud"})
         /\ Gives(k, {}, VcdNsxtCloud, {"cloud"})
<1>1. "nsxCred" \in Free /\ "segments" \in Free BY DEF Free, Plain
<1>2. Gives(k, {}, Find("segments"), {"segments"}) /\ Keeps(k, Find("nsxCred")) BY <1>1, FreeGives
<1>3. Gives(k, {"vcCred", "nsxCred", "segments"}, Set("cloud"), {"cloud"}) BY CloudGives, CloudNeeds, LessGives
<1>4. Keeps(k, Credentials) /\ Keeps(k, GitCredentials) BY CredentialsGive, LessGives DEF Keeps
<1>5. Gives(k, {}, NsxtCloud, {"cloud"})
  <2>1. Gives(k, {}, Credentials \o Tier1Gateway, {"vcCred", "nsxCred"})
    BY <1>2, CredentialsGive, GivesKept DEF Tier1Gateway
  <2>2. Gives(k, {}, Credentials \o Tier1Gateway \o SegmentIds, {"vcCred", "nsxCred", "segments"})
    BY <2>1, <1>2, ThenGives DEF SegmentIds
  <2>3. Gives(k, {}, Credentials \o Tier1Gateway \o SegmentIds \o Credentials, {"vcCred", "nsxCred", "segments"})
    BY <2>2, <1>4, GivesKept
  <2> QED BY <2>3, <1>3, ThenGives DEF NsxtCloud
<1>6. GitNsxtCloud = NsxtCloud
  BY DEF GitNsxtCloud, NsxtCloud, GitCredentials, Credentials, GitTier1, Tier1Gateway, GitSegmentIds, SegmentIds
<1>7. Gives(k, {}, VcdNsxtCloud, {"cloud"})
  <2>1. Gives(k, {}, VcdCredentials \o Find("segments"), {"vcCred", "nsxCred", "segments"})
    BY <1>2, CredentialsGive, ThenGives
  <2> QED BY <2>1, <1>3, ThenGives DEF VcdNsxtCloud
<1> QED BY <1>5, <1>6, <1>7

\* Free things that are set up in the cloud.
LEMMA CloudSettings ==
  ASSUME NEW k \in Kinds
  PROVE  /\ Keeps(k, CloudNetwork) /\ Keeps(k, DnsProfile) /\ Keeps(k, Tier1Gateway) /\ Keeps(k, NetworkUrl)
         /\ \A x \in {"mgmtDhcp", "workDhcp"} : Keeps(k, EnableDhcp(x))
         /\ Keeps(k, CloudPlacement) /\ Keeps(k, VrfRoutes) /\ Keeps(k, VcenterInCloud)
         /\ Gives(k, {}, VrfRoutes, {"route"}) /\ Gives(k, {}, ManagementGroup, {"mgmtGroup"})
         /\ Gives(k, {}, EngineGroup("mgmtGroup"), {"mgmtGroup"})
         /\ Keeps(k, ManagementGroup) /\ Keeps(k, EngineGroup("mgmtGroup"))
         /\ Gives(k, {}, EngineGroup("workGroup"), {"workGroup"}) /\ Keeps(k, EngineGroup("workGroup"))
<1>1. /\ "cloudNet" \in Free /\ "dns" \in Free /\ "nsxCred" \in Free /\ "inventory" \in Free
      /\ "mgmtDhcp" \in Free /\ "workDhcp" \in Free /\ "placement" \in Free /\ "vcenter" \in Free
      /\ "mgmtGroup" \in Free /\ "workGroup" \in Free
  BY DEF Free, Plain
<1>2. Keeps(k, Credentials) BY CredentialsGive, LessGives DEF Keeps
<1>3. Keeps(k, VcenterInCloud) BY <1>1, <1>2, CommonThings, FreeGives, KeepsThen, UnlessKeeps DEF VcenterInCloud
<1>4. Gives(k, {}, ManagementGroup, {"mgmtGroup"}) /\ Keeps(k, ManagementGroup)
  <2>1. Keeps(k, IF setup = "vcf" THEN VcenterInCloud ELSE <<>>) BY <1>3, NothingKeeps
  <2>2. Gives(k, {}, Set("mgmtGroup"), {"mgmtGroup"}) BY <1>1, FreeGives
  <2>3. Gives(k, {}, ManagementGroup, {"mgmtGroup"})
    BY <1>1, <2>1, <2>2, GivesKept, UnlessHas DEF ManagementGroup
  <2> QED BY <2>3, LessGives DEF Keeps
<1>5. Keeps(k, CloudPlacement) BY <1>1, CommonThings, LookKeeps DEF CloudPlacement
<1>6. Gives(k, {}, VrfRoutes, {"route"}) /\ Keeps(k, VrfRoutes)
  <2>1. Gives(k, {}, StaticRoute("route"), {"route"}) BY RouteGives, LessGives
  <2>2. Gives(k, {}, VrfRoutes, {"route"}) BY <2>1, RouteGives, GivesKept DEF VrfRoutes
  <2> QED BY <2>2, LessGives DEF Keeps
<1>7. Keeps(k, CloudNetwork) /\ Keeps(k, DnsProfile) /\ Keeps(k, Tier1Gateway) /\ Keeps(k, NetworkUrl)
  BY <1>1, FreeGives DEF CloudNetwork, DnsProfile, Tier1Gateway, NetworkUrl
<1>8. \A x \in {"mgmtDhcp", "workDhcp"} : Keeps(k, EnableDhcp(x))
  BY <1>1, <1>7, FreeGives, KeepsThen DEF EnableDhcp
<1> QED BY <1>1, <1>3, <1>4, <1>5, <1>6, <1>7, <1>8, FreeGives DEF EngineGroup

\* configure_cluster_cloud, in its three forms, ends with a cloud that has its profile,
\* its engine groups, its route and an engine or two.
CloudOwn ==
  {"mgmtGroup", "workGroup", "route"} \cup IF setup = "manual" THEN EnginesOwn ELSE {"e1"}

\* Each form leads there from any world.
LEMMA ClusterCloudGives ==
  ASSUME NEW k \in Kinds, setup = k.setup, setup \in {"orchestrated", "manual", "vcf"}
  PROVE  Gives(k, {}, ClusterCloud, {"vipPool", "cloudIpam"} \cup CloudOwn)
<1>1. /\ "defaultCloud" \in Free /\ "templates" \in Free /\ "inventory" \in Free
      /\ "vipPool" \in Free
  BY DEF Free, Plain
<1>2. Gives(k, {}, Cloud, {"cloud"})
  <2>1. setup # "vcf" => Gives(k, {}, Set("cloud"), {"cloud"})
    <3>1. setup # "vcf" => Needs(k, "cloud") = {} BY CloudNeeds
    <3> QED BY <3>1, CloudGives
  <2>2. Gives(k, {}, IF setup = "vcf" THEN NsxtCloud ELSE NewCloud, {"cloud"})
    BY <2>1, NsxtCloudGives DEF NewCloud
  <2> QED BY <2>2, CloudGives DEF Cloud
<1>3. Gives(k, {"vipPool"}, Ipam, {"ipam"}) /\ Gives(k, {"ipam", "cloud"}, CloudIpam, {"cloudIpam"})
  BY IpamGives, CloudGives DEF Ipam, CloudIpam
<1>4. Keeps(k, Login) /\ Keeps(k, Await("defaultCloud", Have)) BY <1>1, CommonThings, LoginKeeps, LookKeeps
<1> DEFINE B == {"cloud", "vipPool", "cloudIpam"}
           G == {"mgmtGroup", "workGroup", "route"}
<1>5. ASSUME setup = "orchestrated" PROVE Gives(k, {}, OrchestratedCloud, B \cup G \cup {"e1"})
  <2> DEFINE p == Cloud \o NetworkPool("mgmtPool") \o CloudNetwork \o NetworkPool("dataPool") \o VipPool
             q == p \o Ipam \o CloudIpam \o Find("inventory")
             r == q \o ManagementGroup \o EngineGroup("workGroup") \o EnableDhcp("mgmtDhcp")
  <2>1. Gives(k, {}, p, {"cloud", "vipPool"})
    <3>1. Gives(k, {}, Cloud \o NetworkPool("mgmtPool") \o CloudNetwork \o NetworkPool("dataPool"), {"cloud"})
      BY <1>2, PoolGives, CloudSettings, GivesKept
    <3> QED BY <3>1, PoolGives, ThenGives DEF VipPool
  <2>2. Gives(k, {}, q, B)
    <3> HIDE DEF p
    <3>1. Gives(k, {}, p \o Ipam, {"cloud", "vipPool", "ipam"}) BY <2>1, <1>3, ThenGives
    <3>2. Gives(k, {}, p \o Ipam \o CloudIpam, B) BY <3>1, <1>3, ThenGives
    <3> QED BY <3>2, <1>1, FreeGives, GivesKept
  <2>3. Gives(k, {}, r, B \cup {"mgmtGroup", "workGroup"})
    <3> HIDE DEF q, B
    <3>1. Gives(k, {}, q \o ManagementGroup, B \cup {"mgmtGroup"}) BY <2>2, CloudSettings, ThenGives
    <3>2. Gives(k, {}, q \o ManagementGroup \o EngineGroup("workGroup"), B \cup {"mgmtGroup", "workGroup"})
      BY <3>1, CloudSettings, ThenGives
    <3> QED BY <3>2, CloudSettings, GivesKept
  <2>4. Gives(k, {}, r \o StaticRoute("route") \o CloudPlacement, B \cup G)
    <3> HIDE DEF r
    <3>1. Gives(k, {}, StaticRoute("route"), {"cloud", "route"}) BY RouteGives
    <3>2. Gives(k, {}, r \o StaticRoute("route"), B \cup G) BY <2>3, <3>1, ThenGives
    <3> QED BY <3>2, CloudSettings, GivesKept
  <2>5. Gives(k, {"cloud", "vipPool"}, Service("mgmt"), {"e1"})
    <3>1. Orchestrating(k) /\ PoolOf(k) = "vipPool" BY <1>5 DEF Orchestrating, PoolOf
    <3> QED BY <3>1, ServiceGives DEF FirstOf
  <2>6. OrchestratedCloud = r \o StaticRoute("route") \o CloudPlacement \o Service("mgmt")
    BY DEF OrchestratedCloud
  <2> HIDE DEF r
  <2> QED BY <2>4, <2>5, <2>6, ThenGives
<1>6. ASSUME setup = "manual" PROVE Gives(k, {}, ManualCloud, B \cup G \cup EnginesOwn)
  <2> DEFINE p == Ensure("templates") \o Cloud \o EngineGroup("mgmtGroup")
             q == p \o VipNetwork("dataPool") \o VipNetwork("vipPool") \o Ipam \o CloudIpam
             r == q \o EngineOva \o EngineGroup("workGroup") \o EngineTemplate
  <2>1. Gives(k, {}, p, {"cloud", "mgmtGroup"})
    <3>1. Gives(k, {}, Ensure("templates") \o Cloud, {"cloud"}) BY <1>1, <1>2, FreeGives, GivesKept
    <3> QED BY <3>1, CloudSettings, ThenGives
  <2>2. Gives(k, {}, q, B \cup {"mgmtGroup"})
    <3> HIDE DEF p
    <3>1. Gives(k, {}, p \o VipNetwork("dataPool"), {"cloud", "mgmtGroup"}) BY <2>1, PoolGives, GivesKept
    <3>2. Gives(k, {}, p \o VipNetwork("dataPool") \o VipNetwork("vipPool"), {"cloud", "mgmtGroup", "vipPool"})
      BY <3>1, PoolGives, ThenGives
    <3>3. Gives(k, {}, p \o VipNetwork("dataPool") \o VipNetwork("vipPool") \o Ipam,
                {"cloud", "mgmtGroup", "vipPool", "ipam"})
      BY <3>2, <1>3, ThenGives
    <3> QED BY <3>3, <1>3, ThenGives
  <2>3. Gives(k, {}, r, B \cup {"mgmtGroup", "workGroup"})
    <3> HIDE DEF q, B
    <3>1. Gives(k, {}, q \o EngineOva, B \cup {"mgmtGroup"}) BY <2>2, TemplateKeeps, GivesKept
    <3>2. Gives(k, {}, q \o EngineOva \o EngineGroup("workGroup"), B \cup {"mgmtGroup", "workGroup"})
      BY <3>1, CloudSettings, ThenGives
    <3> QED BY <3>2, TemplateKeeps, GivesKept
  <2>4. Gives(k, {"cloud", "vipPool"}, ManagementEngines, {"route"} \cup EnginesOwn)
    <3>1. ~ Orchestrating(k) /\ PoolOf(k) = "vipPool" BY <1>6 DEF Orchestrating, PoolOf
    <3> QED BY <3>1, EnginesGive
  <2>5. ManualCloud = r \o ManagementEngines BY DEF ManualCloud
  <2> HIDE DEF r
  <2> QED BY <2>3, <2>4, <2>5, ThenGives
<1>7. ASSUME setup = "vcf" PROVE Gives(k, {}, NsxtOrchestratedCloud, B \cup G \cup {"e1"})
  <2> DEFINE p == Cloud \o NetworkUrl \o VipPool \o ManagementGroup \o EngineGroup("workGroup")
             q == p \o Tier1Gateway \o VrfRoutes \o NetworkPool("mgmtPool")
             r == q \o Ipam \o DnsProfile \o CloudIpam \o CloudPlacement
             A == {"cloud", "vipPool"}
  <2>1. Gives(k, {}, p, A \cup {"mgmtGroup", "workGroup"})
    <3>1. Gives(k, {}, Cloud \o NetworkUrl, {"cloud"}) BY <1>2, CloudSettings, GivesKept
    <3>2. Gives(k, {}, Cloud \o NetworkUrl \o VipPool, A) BY <3>1, PoolGives, ThenGives DEF VipPool
    <3> HIDE DEF A
    <3>3. Gives(k, {}, Cloud \o NetworkUrl \o VipPool \o ManagementGroup, A \cup {"mgmtGroup"})
      BY <3>2, CloudSettings, ThenGives
    <3> QED BY <3>3, CloudSettings, ThenGives
  <2>2. Gives(k, {}, q, A \cup G)
    <3> HIDE DEF p, A
    <3>1. Gives(k, {}, p \o Tier1Gateway, A \cup {"mgmtGroup", "workGroup"}) BY <2>1, CloudSettings, GivesKept
    <3>2. Gives(k, {}, p \o Tier1Gateway \o VrfRoutes, A \cup G) BY <3>1, CloudSettings, ThenGives
    <3> QED BY <3>2, PoolGives, GivesKept
  <2>3. Gives(k, {}, r, B \cup G)
    <3> HIDE DEF q, G
    <3>1. Gives(k, {}, q \o Ipam, A \cup G \cup {"ipam"}) BY <2>2, <1>3, ThenGives
    <3>2. Gives(k, {}, q \o Ipam \o DnsProfile, A \cup G \cup {"ipam"}) BY <3>1, CloudSettings, GivesKept
    <3>3. Gives(k, {}, q \o Ipam \o DnsProfile \o CloudIpam, B \cup G) BY <3>2, <1>3, ThenGives
    <3> QED BY <3>3, CloudSettings, GivesKept
  <2>4. Gives(k, {"cloud", "vipPool"}, Service("mgmt"), {"e1"})
    <3>1. Orchestrating(k) /\ PoolOf(k) = "vipPool" BY <1>7 DEF Orchestrating, PoolOf
    <3> QED BY <3>1, ServiceGives DEF FirstOf
  <2>5. NsxtOrchestratedCloud = r \o Service("mgmt") BY DEF NsxtOrchestratedCloud
  <2> HIDE DEF r, G
  <2> QED BY <2>3, <2>4, <2>5, ThenGives
<1>8. Keeps(k, Login \o Await("defaultCloud", Have)) BY <1>4, KeepsThen
<1> DEFINE Y == {"vipPool", "cloudIpam"} \cup CloudOwn
           p == CASE setup = "orchestrated" -> OrchestratedCloud
                  [] setup = "manual"       -> ManualCloud
                  [] setup = "vcf"          -> NsxtOrchestratedCloud
<1>9. Gives(k, {}, p, Y)
  <2>1. CASE setup = "orchestrated"
    <3>1. Y \subseteq {} \cup (B \cup G \cup {"e1"}) BY <2>1 DEF CloudOwn
    <3>2. p = OrchestratedCloud BY <2>1
    <3> HIDE DEF B, G, p, Y
    <3> QED BY <2>1, <3>1, <3>2, <1>5, LessGives
  <2>2. CASE setup = "manual"
    <3>1. Y \subseteq {} \cup (B \cup G \cup EnginesOwn) BY <2>2 DEF CloudOwn
    <3>2. p = ManualCloud BY <2>2
    <3> HIDE DEF B, G, p, Y
    <3> QED BY <2>2, <3>1, <3>2, <1>6, LessGives
  <2>3. CASE setup = "vcf"
    <3>1. Y \subseteq {} \cup (B \cup G \cup {"e1"}) BY <2>3 DEF CloudOwn
    <3>2. p = NsxtOrchestratedCloud BY <2>3
    <3> HIDE DEF B, G, p, Y
    <3> QED BY <2>3, <3>1, <3>2, <1>7, LessGives
  <2> QED BY <2>1, <2>2, <2>3
<1>10. ClusterCloud = Login \o Await("defaultCloud", Have) \o p BY DEF ClusterCloud
<1> HIDE DEF p, Y
<1>11. Gives(k, {}, ClusterCloud, Y) BY <1>8, <1>9, <1>10, GivesKept
<1> QED BY <1>11 DEF Y

-----------------------------------------------------------------------------
(* The clusters on vSphere and VCF.                                        *)

\* The management cluster is made once there is what it rests on.
LEMMA ManagementGives ==
  ASSUME NEW k \in Kinds
  PROVE  /\ Gives(k, Needs(k, "mgmt"), Make("mgmt", "creating"), {})
         /\ Gives(k, Needs(k, "mgmt"), Make("mgmt", "creating"), {"mgmtMade"})
         /\ ~ InPipeline(k) => Needs(k, "mgmt") = {"vipPool", "mgmtFolder", "kubeOva", "cloudIpam"}
         /\ Keeps(k, Watch("mgmt"))
         /\ Gives(k, {}, OnManagement, {"mgmt"}) /\ Gives(k, {}, GitContext, {"mgmt"})
         /\ Keeps(k, OnManagement) /\ Keeps(k, GitContext)
<1>1. "mgmt" \in Concerned(k.setup) /\ "mgmt" \in Things
  BY CommonThings, CommonConcerned DEF Clusters, Common
<1>2. ~ InPipeline(k) => Needs(k, "mgmt") = {"vipPool", "mgmtFolder", "kubeOva", "cloudIpam"}
  <2>1. ~ InPipeline(k) => Before(k, "mgmt") = {} BY DEF Before
  <2> QED BY <2>1 DEF Needs, Engines, Dependents
<1>3. "creating" \in Lives["mgmt"] BY <1>1, StatesOf DEF Clusters
<1>4. Solid("mgmt") = Deployed BY DEF Solid, Controllers, Loose, Engines, Files, VcdVars
<1>5. Gives(k, Needs(k, "mgmt"), Make("mgmt", "creating"), {}) BY <1>1, <1>3, MakeGives
<1>6. Gives(k, {}, Need("mgmt", Deployed), {"mgmt"}) /\ Keeps(k, Need("mgmt", Deployed))
  BY <1>1, <1>4, LookGives
<1>7. Keeps(k, Watch("mgmt")) BY <1>1, WatchGives
<1>8. Gives(k, Needs(k, "mgmt"), Make("mgmt", "creating"), {"mgmtMade"})
  <2> DEFINE c == [op |-> "make", x |-> "mgmt", states |-> {"creating"}, calls |-> <<>>]
             X == Needs(k, "mgmt")
  <2>1. c.op = "make" /\ c.x = "mgmt" /\ c.states = {"creating"} /\ Make("mgmt", "creating") = <<c>>
    BY DEF Make, Call
  <2>2. TargetOf(c) = "creating" BY <2>1, TargetIs
  <2>3. ASSUME NEW W, NEW v, NEW w, X \subseteq W, v \in Known(k, W), Does(c, v, w)
        PROVE  w \in Known(k, W \cup {"mgmtMade"})
    <3>1. w = v \/ w = [v EXCEPT !["mgmt"] = "creating"] BY <2>1, <2>2, <2>3 DEF Does
    <3>2. v["mgmt"] = "none" => w = [v EXCEPT !["mgmt"] = "creating"] BY <2>1, <2>2, <2>3 DEF Does
    <3>3. w \in Known(k, W)
      <4>1. CASE v["mgmt"] = "none"
        <5>1. \A y \in Needs(k, "mgmt") : v[y] \in Solid(y) BY <1>1, <2>3, NeedsBear DEF X
        <5>2. Upholds(k, v, "mgmt", "creating")
          BY <1>1, <2>3, <4>1, UpholdsMade DEF Known, Sound
        <5>3. v["mgmt"] \notin Solid("mgmt") BY <4>1, <1>4 DEF Deployed
        <5>4. [v EXCEPT !["mgmt"] = "creating"] \in Known(k, W)
          BY <1>1, <1>3, <2>3, <5>1, <5>2, <5>3, ChangeKnown
        <5> QED BY <3>2, <4>1, <5>4
      <4>2. CASE v["mgmt"] # "none" BY <2>1, <2>3, <4>2 DEF Does
      <4> QED BY <4>1, <4>2
    <3>4. w["mgmt"] # "none"
      <4>1. v \in [Concerned(k.setup) -> States] BY <2>3 DEF Known, Sound
      <4> QED BY <1>1, <3>1, <3>2, <4>1
    <3>5. "mgmtMade" \in Pledges(k) /\ Met("mgmtMade", w) BY <3>4 DEF Pledges, Met
    <3>6. Bears(k, {"mgmtMade"}, w) BY <3>5, PledgeSeen
    <3> QED BY <3>3, <3>6, BothSeen DEF Known
  <2>4. c.op \in Plainly /\ c.op \notin {"discard", "copy", "try", "leave", "quit"} BY <2>1 DEF Plainly
  <2> HIDE DEF c, X
  <2>5. Gives(k, X, <<c>>, {"mgmtMade"}) BY <1>1, <2>1, <2>3, <2>4, PlainGives
  <2> QED BY <2>1, <2>5 DEF X
<1> QED BY <1>2, <1>5, <1>6, <1>7, <1>8 DEF OnManagement, GitContext

\* A guest cluster, and the configuration of AKO for it, once the cluster that makes
\* it runs.
LEMMA GuestGives ==
  ASSUME NEW k \in Kinds, k.mode # "bare",
         NEW b, b = IF k.setup \in Supervised THEN "ns" ELSE "mgmt"
  PROVE  /\ \A x \in {"sharedAdc", "workAdc"} :
              /\ Gives(k, {b}, Set(x), {x})
              /\ x = "sharedAdc" \/ ~ InPipeline(k) => Keeps(k, Remove(x))
         /\ \A c \in {"shared", "workload"} :
              /\ c = "shared" \/ ~ InPipeline(k) => Needs(k, c) \subseteq {b}
              /\ k.setup # "tkgs" => Gives(k, {b} \cup Needs(k, c), Make(c, "creating"), {})
              /\ Keeps(k, Watch(c))
<1>1. \A x \in Dependents : x \in Concerned(k.setup) /\ x \in Things
  BY CommonThings, CommonConcerned DEF Clusters, Common, Dependents
<1>2. \A x \in Dependents : x # "workload" \/ ~ InPipeline(k) => Needs(k, x) \subseteq {b}
  <2> TAKE x \in Dependents
  <2>1. x # "workload" \/ ~ InPipeline(k) => Before(k, x) = {} BY DEF Before, Dependents
  <2>2. Needs(k, x) = OnGuest(k) \cup Before(k, x) BY DEF Needs, Engines, Dependents
  <2>3. OnGuest(k) \subseteq {b} BY DEF OnGuest
  <2> QED BY <2>1, <2>2, <2>3
<1>3. ASSUME NEW x \in {"sharedAdc", "workAdc"}
      PROVE  Gives(k, {b}, Set(x), {x}) /\ (x = "sharedAdc" \/ ~ InPipeline(k) => Keeps(k, Remove(x)))
  <2>1. x \in Dependents BY DEF Dependents
  <2>2. Solid(x) = Lives[x] \/ (x = "workAdc" /\ Solid(x) = Have)
    BY DEF Solid, Controllers, Loose, Engines, Files, VcdVars
  <2>3. Lives[x] = {"none", "there"}
    BY <1>1, <2>1, StatesOf DEF Controllers, Engines, Clusters, Supervisor, Files, Packages, OnShared, OnWorkload, VcdVars
  <2>4. Gives(k, {b}, Put(x, "there"), {x}) BY <1>1, <1>2, <2>1, <2>2, <2>3, PutGives DEF Have
  <2>5. x = "sharedAdc" => Gives(k, {}, Put(x, "none"), {}) BY <1>1, <2>1, <2>2, <2>3, PutGives
  <2>6. x = "workAdc" /\ ~ InPipeline(k) => Gives(k, {}, Put(x, "none"), {}) BY RemoveAdcGives DEF Keeps
  <2> QED BY <2>4, <2>5, <2>6 DEF Set, Remove, Keeps
<1>4. ASSUME NEW c \in {"shared", "workload"}
      PROVE  /\ c = "shared" \/ ~ InPipeline(k) => Needs(k, c) \subseteq {b}
             /\ k.setup # "tkgs" => Gives(k, {b} \cup Needs(k, c), Make(c, "creating"), {})
             /\ Keeps(k, Watch(c))
  <2>1. c \in Dependents BY DEF Dependents
  <2>2. "creating" \in Lives[c] BY <1>1, <2>1, StatesOf DEF Clusters
  <2>3. k.setup # "tkgs" => "shut" \notin Pledges(k) BY DEF Pledges
  <2>4. k.setup # "tkgs" => Gives(k, {b} \cup Needs(k, c), Make(c, "creating"), {})
    BY <1>1, <2>1, <2>2, <2>3, MakeGives
  <2> QED BY <1>1, <1>2, <2>1, <2>4, WatchGives
<1> QED BY <1>3, <1>4

\* management_cluster_deploy_worklflow
LEMMA ManagementStageGives ==
  ASSUME NEW k \in Kinds, setup = k.setup, setup \in {"orchestrated", "manual", "vcf"}
  PROVE  Gives(k, {}, ManagementStage, {"mgmt"} \cup CloudOwn)
<1>1. "vipPool" \in Free /\ "dataPool" \in Free /\ "mgmtFolder" \in Free BY DEF Free, Plain
<1>2. "mgmt" \in Common /\ "mgmt" \in Concerned(k.setup) BY CommonThings, CommonConcerned DEF Clusters
<1> DEFINE N == {"vipPool", "mgmtFolder", "kubeOva", "cloudIpam"}
<1>3. Gives(k, N, ManagementCluster, {"mgmt"})
  <2> DEFINE n == IF setup = "vcf" THEN "vipPool" ELSE "dataPool"
  <2>1. Keeps(k, Find(n)) BY <1>1, FreeGives
  <2>2. Gives(k, {}, Need("mgmt", Deployed), {"mgmt"}) BY ManagementGives DEF OnManagement
  <2>5. Solid("mgmt") = Deployed BY DEF Solid, Controllers, Loose, Engines, Files, VcdVars
  <2>3. Gives(k, N, CreateManagement, {"mgmt"})
    <3>1. ~ InPipeline(k) BY DEF InPipeline, Pipelines
    <3>2. Gives(k, N, Make("mgmt", "creating") \o Watch("mgmt"), {}) BY <3>1, ManagementGives, GivesKept
    <3>3. Gives(k, N, Make("mgmt", "creating") \o Watch("mgmt") \o Need("mgmt", Deployed), {"mgmt"})
      BY <2>2, <3>2, ThenGives
    <3> QED BY <1>2, <2>5, <3>3, UnlessGives DEF CreateManagement
  <2> HIDE DEF n
  <2>4. Gives(k, N, Find(n) \o CreateManagement, {"mgmt"}) BY <2>1, <2>3, GivesKept
  <2> USE DEF n
  <2> QED BY <1>2, <2>4, <2>5, UnlessGives DEF ManagementCluster
<1>4. Gives(k, {}, KubernetesOva \o ClusterCloud, {"kubeOva", "vipPool", "cloudIpam"} \cup CloudOwn)
  BY ImagesGive, ClusterCloudGives, ThenGives
<1>5. Gives(k, {}, Folder("mgmtFolder"), {"mgmtFolder"}) BY <1>1, FreeGives DEF Folder
<1>6. Gives(k, {}, KubernetesOva \o ClusterCloud \o Folder("mgmtFolder"), N \cup CloudOwn)
  BY <1>4, <1>5, ThenGives
<1> QED BY <1>3, <1>6, ThenGives DEF ManagementStage

\* ako_deployment_config_for_cluster
LEMMA AkoGives ==
  ASSUME NEW k \in Kinds, k.mode # "bare", k.setup \notin Supervised,
         NEW x \in {"sharedAdc", "workAdc"}, ~ InPipeline(k)
  PROVE  Gives(k, {}, AkoConfig(x), {"mgmt"}) /\ Keeps(k, AkoConfig(x))
<1>1. "vipPool" \in Free /\ "mgmtAko" \in Free BY DEF Free, Plain
<1>2. Keeps(k, AkoNetworks) BY <1>1, FreeGives, CloudSettings, NothingKeeps, KeepsThen DEF AkoNetworks
<1>3. Keeps(k, Await("mgmtAko", Have)) BY <1>1, CommonThings, LookKeeps
<1>4. Gives(k, {"mgmt"}, Set(x), {x}) /\ Keeps(k, Remove(x)) BY GuestGives
<1>5. Gives(k, {}, OnManagement \o Await("mgmtAko", Have) \o Remove(x) \o AkoNetworks, {"mgmt"})
  BY <1>2, <1>3, <1>4, ManagementGives, GivesKept
<1>6. Gives(k, {}, AkoConfig(x), {"mgmt"}) BY <1>4, <1>5, ThenGives DEF AkoConfig
<1> QED BY <1>6, LessGives DEF Keeps

\* What workload_preconfig sets up.
PreconfigOwn ==
  {"mgmt"} \cup
    CASE setup = "orchestrated" -> {"workGroup", "workPool"}
      [] setup = "manual"       -> {"workPool"} \cup WorkEnginesOwn
      [] OTHER                  -> {"workGroup", "e3"}

\* workload_preconfig, for each setup that has one but VMC.
LEMMA WorkloadPreconfigGives ==
  ASSUME NEW k \in Kinds, k.mode # "bare", setup = k.setup, setup \in {"orchestrated", "manual", "vcf"}
  PROVE  Gives(k, {}, WorkloadPreconfig, PreconfigOwn)
<1>0. k.setup \notin Supervised /\ ~ InPipeline(k) BY DEF Supervised, InPipeline, Pipelines
<1>1. /\ "vipPool" \in Free /\ "workPool" \in Free /\ "ipamWork" \in Free /\ "inventory" \in Free
      /\ "workGroup" \in Free
  BY DEF Free, Plain
<1>2. Gives(k, {}, AkoConfig("workAdc"), {"mgmt"}) BY <1>0, AkoGives
<1>3. Gives(k, {}, DataNetworkIpam, {"vipPool"})
  <2>1. Have \in SUBSET {"short", "there"} BY DEF Have
  <2>2. k.setup # "vmc" OBVIOUS
  <2>3. Gives(k, {}, Find("ipam"), {"vipPool"}) BY <2>1, <2>2, IpamGives DEF Find
  <2> QED BY <1>1, <2>3, FreeGives, GivesKept DEF DataNetworkIpam
<1>4. Keeps(k, DataNetworkIpam) BY <1>3, LessGives DEF Keeps
<1>5. Gives(k, {}, Login \o Find("cloud"), {"cloud"}) BY LoginKeeps, CloudGives, GivesKept
<1>6. Keeps(k, Login \o Find("cloud")) BY <1>5, LessGives DEF Keeps
<1>7. Gives(k, {}, OrchestratedWorkload, {"mgmt", "workGroup", "workPool"})
  <2> DEFINE q == Login \o Find("cloud") \o Find("inventory") \o DataNetworkIpam
  <2>1. Keeps(k, q) BY <1>1, <1>4, <1>6, FreeGives, KeepsThen
  <2>2. OrchestratedWorkload
          = q \o EngineGroup("workGroup") \o NetworkPool("workPool") \o StaticRoute("workRoute")
              \o AkoConfig("workAdc")
    BY DEF OrchestratedWorkload
  <2> HIDE DEF q
  <2>3. Gives(k, {}, q \o EngineGroup("workGroup"), {"workGroup"}) BY <2>1, CloudSettings, GivesKept
  <2>4. Gives(k, {}, q \o EngineGroup("workGroup") \o NetworkPool("workPool"), {"workGroup", "workPool"})
    BY <2>3, PoolGives, ThenGives
  <2>5. Gives(k, {}, q \o EngineGroup("workGroup") \o NetworkPool("workPool") \o StaticRoute("workRoute"),
              {"workGroup", "workPool"})
    BY <2>4, RouteGives, GivesKept
  <2> QED BY <2>2, <2>5, <1>2, ThenGives
<1>8. Gives(k, {}, ManualWorkload, {"mgmt", "workPool"} \cup WorkEnginesOwn) \/ setup # "manual"
  <2> DEFINE q == Login \o Find("cloud") \o VipNetwork("workPool") \o EngineGroup("workGroup") \o DataNetworkIpam
             A == {"cloud", "workGroup", "vipPool", "workPool"}
  <2>1. Gives(k, {}, Login \o Find("cloud") \o VipNetwork("workPool"), {"cloud", "workPool"})
    BY <1>5, PoolGives, ThenGives
  <2>2. Gives(k, {}, Login \o Find("cloud") \o VipNetwork("workPool") \o EngineGroup("workGroup"),
              {"cloud", "workPool", "workGroup"})
    BY <2>1, CloudSettings, ThenGives
  <2>3. Gives(k, {}, q, A) BY <2>2, <1>3, ThenGives
  <2>4. ManualWorkload = q \o WorkloadEngines \o AkoConfig("workAdc") BY DEF ManualWorkload
  <2> HIDE DEF q
  <2>5. Gives(k, {"cloud", "vipPool", "workGroup"}, WorkloadEngines, WorkEnginesOwn) \/ setup # "manual"
    BY EnginesGive DEF Orchestrating, PoolOf
  <2>6. Gives(k, {}, q \o WorkloadEngines, {"workPool"} \cup WorkEnginesOwn) \/ setup # "manual"
    BY <2>3, <2>5, ThenGives
  <2>7. Gives(k, {}, AkoConfig("workAdc"), {"mgmt"}) BY <1>2
  <2> QED BY <2>4, <2>6, <2>7, ThenGives
<1>9. Gives(k, {}, NsxtWorkload, {"mgmt", "workGroup", "e3"}) \/ setup # "vcf"
  <2> DEFINE q == Login \o Find("cloud") \o Find("workGroup") \o VipPool \o StaticRoute("route")
             r == q \o AkoConfig("workAdc") \o StaticRoute("vipRoute") \o Tier1Gateway
             A == {"cloud", "workGroup", "vipPool"}
  <2>1. Gives(k, {}, Find("workGroup"), {"workGroup"}) BY <1>1, FreeGives
  <2>2. Gives(k, {}, Login \o Find("cloud") \o Find("workGroup"), {"cloud", "workGroup"})
    BY <1>5, <2>1, ThenGives
  <2>3. Gives(k, {}, Login \o Find("cloud") \o Find("workGroup") \o VipPool, A)
    BY <2>2, PoolGives, ThenGives DEF VipPool
  <2>4. Gives(k, {}, q, A) BY <2>3, RouteGives, GivesKept
  <2>5. Gives(k, {}, r, A \cup {"mgmt"})
    <3> HIDE DEF q, A
    <3>1. Gives(k, {}, AkoConfig("workAdc"), {"mgmt"}) BY <1>2
    <3>2. Gives(k, {}, q \o AkoConfig("workAdc"), A \cup {"mgmt"}) BY <2>4, <3>1, ThenGives
    <3> QED BY <3>2, RouteGives, CloudSettings, GivesKept
  <2>6. setup = "vcf" => Gives(k, {"cloud", "vipPool"}, Service("work"), {"e3"})
    <3>1. FirstOf("work") = "e3" BY DEF FirstOf
    <3>2. setup = "vcf" => Orchestrating(k) /\ PoolOf(k) = "vipPool" BY DEF Orchestrating, PoolOf
    <3> QED BY <3>1, <3>2, ServiceGives
  <2>7. NsxtWorkload = r \o Service("work") BY DEF NsxtWorkload
  <2> HIDE DEF r
  <2> QED BY <2>5, <2>6, <2>7, ThenGives
<1> DEFINE p == CASE setup = "orchestrated" -> OrchestratedWorkload
                  [] setup = "manual"       -> ManualWorkload
                  [] setup = "vcf"          -> NsxtWorkload
<1>10. Gives(k, {}, p, PreconfigOwn)
  <2>1. CASE setup = "orchestrated"
    <3>1. p = OrchestratedWorkload /\ PreconfigOwn = {"mgmt", "workGroup", "workPool"}
      BY <2>1 DEF PreconfigOwn
    <3> QED BY <3>1, <1>7
  <2>2. CASE setup = "manual"
    <3>1. p = ManualWorkload /\ PreconfigOwn = {"mgmt", "workPool"} \cup WorkEnginesOwn
      BY <2>2 DEF PreconfigOwn
    <3> QED BY <2>2, <3>1, <1>8
  <2>3. CASE setup = "vcf"
    <3>1. p = NsxtWorkload /\ PreconfigOwn = {"mgmt", "workGroup", "e3"}
      BY <2>3 DEF PreconfigOwn
    <3> QED BY <2>3, <3>1, <1>9
  <2> QED BY <2>1, <2>2, <2>3
<1>11. WorkloadPreconfig = KubernetesOva \o p BY DEF WorkloadPreconfig
<1> HIDE DEF p
<1> QED BY <1>10, <1>11, ImagesGive, GivesKept

\* What create_cluster sets up.
GuestOwn(c, ako) == {c, ako} \cup IF c = "shared" THEN {"label"} ELSE {}

\* create_cluster, for either cluster.
LEMMA GuestKeeps ==
  ASSUME NEW k \in Kinds, k.mode # "bare", k.setup \in {"orchestrated", "manual", "vcf"},
         NEW c \in {"shared", "workload"},
         NEW folder \in {"sharedFolder", "workFolder"}, NEW ako \in {"sharedAko", "workAko"}
  PROVE  Gives(k, {}, Guest(c, folder, ako), GuestOwn(c, ako)) /\ Keeps(k, Guest(c, folder, ako))
<1>0. k.setup \notin Supervised /\ k.setup # "tkgs" /\ ~ InPipeline(k) BY DEF Supervised, InPipeline, Pipelines
<1>1. folder \in Free /\ "label" \in Free /\ "dataPool" \in Free /\ ako \in Free BY DEF Free, Plain
<1>2. c \in Common /\ c \in Concerned(k.setup) BY CommonThings, CommonConcerned DEF Clusters
<1>3. Gives(k, {"mgmt"}, CreateGuest(c), {})
  <2>1. Needs(k, c) \subseteq {"mgmt"} /\ Gives(k, {"mgmt"} \cup Needs(k, c), Make(c, "creating"), {})
    BY <1>0, GuestGives
  <2>2. {"mgmt"} \cup Needs(k, c) = {"mgmt"} BY <2>1
  <2>3. Gives(k, {"mgmt"}, Make(c, "creating"), {}) BY <2>1, <2>2
  <2> QED BY <2>3, <1>0, GuestGives, GivesKept DEF CreateGuest
<1>4. Keeps(k, IF c = "shared" THEN AkoConfig("sharedAdc") ELSE <<>>)
  BY <1>0, <1>1, AkoGives, NothingKeeps
<1>5. Gives(k, {"mgmt"}, DeployGuest(c), {})
  BY <1>2, <1>3, <1>4, GivesKept, UnlessGives DEF DeployGuest
<1> DEFINE L == IF c = "shared" THEN {"label"} ELSE {}
<1>6. Gives(k, {}, Label(c), L)
  <2>1. c = "shared" => Gives(k, {}, Label(c), {"label"})
    BY <1>1, <1>2, LookKeeps, FreeGives, GivesKept DEF Label
  <2>2. c # "shared" => Gives(k, {}, Label(c), {}) BY NothingKeeps DEF Label, Keeps
  <2> QED BY <2>1, <2>2
<1>7. Gives(k, {}, Connect(c), {c}) /\ Gives(k, {}, AkoRuns(ako), {ako}) /\ Keeps(k, Folder(folder))
  <2>1. Solid(c) = Started BY DEF Solid, Controllers, Loose, Engines, Files, VcdVars
  <2>2. Gives(k, {}, Connect(c), {c}) BY <1>2, <2>1, LookGives DEF Connect, Started
  <2>3. Solid(ako) = Have BY DEF Solid, Controllers, Loose, Engines, Files, VcdVars
  <2>4. Gives(k, {}, AkoRuns(ako), {ako}) BY <1>1, <2>3, CommonThings, CommonConcerned, LookGives DEF AkoRuns
  <2> QED BY <1>1, <2>2, <2>4, FreeGives DEF Folder
<1> HIDE DEF L
<1>8. Gives(k, {}, Folder(folder) \o OnManagement, {"mgmt"}) BY <1>7, ManagementGives, GivesKept
<1>9. Keeps(k, Folder(folder) \o OnManagement \o DeployGuest(c) \o OnManagement)
  <2>1. Keeps(k, Folder(folder) \o OnManagement \o DeployGuest(c)) BY <1>5, <1>8, ThenGives DEF Keeps
  <2> QED BY <2>1, ManagementGives, KeepsThen
<1>10. Gives(k, {}, Folder(folder) \o OnManagement \o DeployGuest(c) \o OnManagement \o Label(c), L)
  BY <1>6, <1>9, GivesKept
<1>11. Gives(k, {}, Folder(folder) \o OnManagement \o DeployGuest(c) \o OnManagement \o Label(c) \o Connect(c),
             {c} \cup L)
  BY <1>7, <1>10, ThenGives
<1>12. Gives(k, {}, Guest(c, folder, ako), {ako} \cup ({c} \cup L))
  BY <1>7, <1>11, ThenGives DEF Guest
<1>13. GuestOwn(c, ako) = {ako} \cup ({c} \cup L) BY DEF GuestOwn, L
<1> QED BY <1>12, <1>13, LessGives DEF Keeps

\* The stages of the shared and the workload cluster.
LEMMA GuestStagesGive ==
  ASSUME NEW k \in Kinds, k.mode # "bare", k.setup \in {"orchestrated", "manual", "vcf"}, setup = k.setup
  PROVE  /\ Gives(k, {}, SharedStage, {"shared", "sharedAko", "label"})
         /\ Gives(k, {}, WorkloadStage, {"workload", "workAko"})
<1>1. "workPool" \in Free /\ "workDhcp" \in Free /\ "oneNetwork" \in Free BY DEF Free, Plain
<1>2. Gives(k, {}, SharedStage, {"shared", "sharedAko", "label"})
  <2>1. GuestOwn("shared", "sharedAko") = {"shared", "sharedAko", "label"} BY DEF GuestOwn
  <2>2. Gives(k, {}, Guest("shared", "sharedFolder", "sharedAko"), {"shared", "sharedAko", "label"})
    BY <2>1, GuestKeeps
  <2> QED BY <2>2, ImagesGive, GivesKept DEF SharedStage
<1>3. Gives(k, {}, WorkloadStage, {"workload", "workAko"})
  <2>1. Keeps(k, WorkloadNetwork) BY NetworksGive, NothingKeeps DEF WorkloadNetwork
  <2>2. Keeps(k, WorkloadDhcp)
    BY <1>1, NothingKeeps, FreeGives, CloudSettings, KeepsThen DEF WorkloadDhcp
  <2>3. Keeps(k, WorkloadEngineNetworks)
    BY NothingKeeps, LoginKeeps, EnginesAgain, KeepsThen DEF WorkloadEngineNetworks
  <2>4. Keeps(k, KubernetesOva \o WorkloadNetwork \o WorkloadDhcp \o WorkloadEngineNetworks)
    BY <2>1, <2>2, <2>3, ImagesGive, KeepsThen
  <2>5. GuestOwn("workload", "workAko") = {"workload", "workAko"} BY DEF GuestOwn
  <2>6. Gives(k, {}, Guest("workload", "workFolder", "workAko"), {"workload", "workAko"})
    BY <2>5, GuestKeeps
  <2> QED BY <2>4, <2>6, GivesKept DEF WorkloadStage
<1> QED BY <1>2, <1>3

-----------------------------------------------------------------------------
(* The stages on VMC, and the controllers of a pipeline.                   *)

\* A controller of VMC, and of a pipeline.
LEMMA VmcControllerGives ==
  ASSUME NEW k \in Kinds, NEW c \in Controllers
  PROVE  Gives(k, {}, VmcController(c), {c}) /\ Gives(k, {}, GitController(c), {c})
<1>1. "aviOva" \in Free /\ c \in Common BY CommonThings DEF Free, Plain, Pushed, Files
<1>2. Solid(c) = {"up"} BY DEF Solid, Loose, Controllers, Engines, Files, VcdVars
<1>3. Keeps(k, Find("aviOva")) /\ Keeps(k, Need(c, {"none", "off"})) BY <1>1, FreeGives, LookKeeps
<1>4. Gives(k, {}, VmcController(c), {c}) BY <1>3, ControllerGives DEF VmcController, VmcImport
<1>5. Gives(k, {}, Await(c, {"up"}), {c}) BY <1>1, <1>2, CommonConcerned, LookGives
<1>6. Keeps(k, (Need(c, {"none", "off"}) \o Find("aviOva")) \o Make(c, "off") \o Put(c, "on"))
  <2>1. Needs(k, c) = {} BY DEF Controllers, Needs, Engines, Dependents
  <2>2. Powers(k, c) BY DEF Powers
  <2>3. Keeps(k, Need(c, {"none", "off"}) \o Find("aviOva")) BY <1>3, KeepsThen
  <2> QED BY <2>1, <2>2, <2>3, PowerGives DEF Keeps
<1>7. Gives(k, {}, Need(c, {"none", "off"}) \o Find("aviOva") \o Make(c, "off") \o Put(c, "on")
                     \o Await(c, {"up"}), {c})
  BY <1>5, <1>6, GivesKept
<1>8. Gives(k, {}, GitController(c), {c}) BY <1>1, <1>2, <1>7, CommonConcerned, UnlessGives DEF GitController
<1> QED BY <1>4, <1>8

\* The controllers are joined in a cluster unless they were.
LEMMA ClusterFormed ==
  ASSUME NEW k \in Kinds
  PROVE  Gives(k, Controllers, VmcFormCluster, {"ha"}) /\ Gives(k, Controllers, GitFormCluster, {})
<1>1. "ha" \in Concerned(k.setup) /\ "ha" \in Common BY CommonThings, CommonConcerned
<1>2. Gives(k, Controllers, VmcFormCluster, {"ha"})
  <2>1. Solid("ha") = {"joined", "active"} BY DEF Solid, Controllers, Loose, Engines, Files, VcdVars
  <2> QED BY <1>1, <2>1, JoinGives, UnlessGives DEF VmcFormCluster
<1>3. Keeps(k, Need("ha", {"none"})) BY <1>1, LookKeeps
<1>4. Needs(k, "ha") = Controllers BY DEF Needs, Engines, Dependents
<1>5. Solid("ha") = {"joined", "active"} BY DEF Solid, Controllers, Loose, Engines, Files, VcdVars
<1>6. Gives(k, Controllers, Put("ha", "joined"), {}) BY <1>1, <1>4, <1>5, PutGives
<1>7. Gives(k, Controllers, GitFormCluster, {}) BY <1>3, <1>6, JoinGives, GivesKept DEF GitFormCluster
<1> QED BY <1>2, <1>7

\* configure_alb
LEMMA VmcAlbGives ==
  ASSUME NEW k \in Kinds
  PROVE  Gives(k, {}, VmcAlb, AlbOwn)
<1>1. "albPool" \in Free /\ "segments" \in Free /\ "portal" \in Free BY DEF Free, Plain
<1> DEFINE q == ControllerOva \o Ensure("albPool") \o Find("segments")
           r == q \o VmcController("c1") \o VmcConfigure
           C == {"password", "settings", "phrase"}
           A == {"albPool"} \cup C
           H == IF HA THEN {"ha"} ELSE {}
<1>2. Gives(k, {}, q, {"albPool"})
  <2>1. Gives(k, {}, Ensure("albPool"), {"albPool"}) /\ Keeps(k, Find("segments")) BY <1>1, FreeGives
  <2> QED BY <2>1, ImagesGive, GivesKept
<1>3. Gives(k, {}, r, A \cup {"c1"})
  <2> HIDE DEF q, C
  <2>0. Gives(k, {}, VmcController("c1"), {"c1"}) BY VmcControllerGives DEF Controllers
  <2>1. Gives(k, {}, q \o VmcController("c1"), {"albPool", "c1"}) BY <1>2, <2>0, ThenGives
  <2>2. Gives(k, {}, VmcConfigure, C) BY ConfigureGives DEF C
  <2> QED BY <2>1, <2>2, ThenGives
<1> HIDE DEF r, A
<1>4. Gives(k, {}, VmcControllers, A \cup Controllers \cup H)
  <2>1. CASE HA
    <3>1. Controllers = {"c1", "c2", "c3"} BY <2>1 DEF Controllers
    <3>2. Gives(k, {}, VmcController("c2") \o VmcController("c3"), {"c2", "c3"})
      BY <3>1, VmcControllerGives, ThenGives
    <3>3. Gives(k, {}, r \o (VmcController("c2") \o VmcController("c3") \o VmcFormCluster), A \cup Controllers \cup {"ha"})
      <4>1. Gives(k, {"c1"}, VmcController("c2") \o VmcController("c3"), Controllers)
        BY <3>1, <3>2, LessGives
      <4>2. Gives(k, {"c1"}, VmcController("c2") \o VmcController("c3") \o VmcFormCluster, Controllers \cup {"ha"})
        BY <4>1, ClusterFormed, ThenGives
      <4> QED BY <1>3, <4>2, ThenGives
    <3> QED BY <2>1, <3>3 DEF VmcControllers, r, q, H
  <2>2. CASE ~HA
    <3>1. Controllers = {"c1"} /\ H = {} BY <2>2 DEF Controllers, H
    <3>2. Gives(k, {}, r \o <<>>, A \cup {"c1"}) BY <1>3, NothingKeeps, GivesKept
    <3>3. VmcControllers = r \o <<>> BY <2>2 DEF VmcControllers, r, q
    <3>4. A \cup {"c1"} = A \cup Controllers \cup H BY <3>1
    <3> QED BY <3>2, <3>3, <3>4
  <2> QED BY <2>1, <2>2
<1>5. Gives(k, {"phrase"}, VmcCertificates, {"cert", "portal"})
  <2>1. Gives(k, {"phrase"}, FirstController \o Ensure("cert"), {"cert"})
    BY LoginKeeps, CertificateGives, GivesKept
  <2>2. Gives(k, {}, Set("portal"), {"portal"}) BY <1>1, FreeGives
  <2>3. Gives(k, {"phrase"}, FirstController \o Ensure("cert") \o Set("portal"), {"cert", "portal"})
    BY <2>1, <2>2, ThenGives
  <2> QED BY <2>3 DEF VmcCertificates, VmcImportCertificate, VmcReplaceCertificate
<1> HIDE DEF H
<1>6. Gives(k, {}, VmcAlb, A \cup Controllers \cup H \cup {"cert", "portal"})
  <2>1. "phrase" \in A BY DEF A
  <2> QED BY <2>1, <1>4, <1>5, ThenGives DEF VmcAlb
<1>7. AlbOwn = A \cup Controllers \cup H \cup {"cert", "portal"} BY DEF AlbOwn, A, H
<1> QED BY <1>6, <1>7

\* What configManagementCluster sets up.
VmcManagementOwn == {"mgmtGroup", "route", "mgmtMade"} \cup EnginesOwn

\* configManagementCluster
LEMMA VmcManagementGives ==
  ASSUME NEW k \in Kinds, k.setup = "vmc"
  PROVE  Gives(k, {}, VmcManagementStage, VmcManagementOwn)
<1>0. ~ Orchestrating(k) /\ ~ InPipeline(k) /\ PoolOf(k) = "ipam"
  BY DEF Orchestrating, InPipeline, Pipelines, PoolOf
<1>1. /\ "templates" \in Free /\ "mgmtGroup" \in Free /\ "mgmtFolder" \in Free /\ "dataPool" \in Free
      /\ "vipPool" \in Free
  BY DEF Free, Plain
<1>2. Gives(k, {}, VmcCloud, {"cloud"}) BY CloudGives, CloudNeeds DEF VmcCloud
<1>3. Gives(k, {}, VmcVipNetwork, {"ipam"})
  <2>1. {"short", "there"} \in SUBSET {"short", "there"} OBVIOUS
  <2>2. Gives(k, {"vipPool"}, VmcIpam("there"), {"ipam"}) /\ Gives(k, {}, VmcIpam("short"), {"ipam"})
    BY <2>1, IpamGives DEF VmcIpam
  <2>3. Gives(k, {}, Set("vipPool"), {"vipPool"}) BY <1>1, FreeGives
  <2>4. Gives(k, {}, Set("vipPool") \o VmcIpam("there"), {}) BY <2>2, <2>3, ThenGives
  <2>5. Gives(k, {}, Spare("vipPool", Have, Set("vipPool") \o VmcIpam("there")), {})
    BY <1>1, <2>4, CommonThings, CommonConcerned, UnlessGives
  <2> QED BY <2>2, <2>5, ThenGives DEF VmcVipNetwork
<1> DEFINE G == {"mgmtGroup", "route"} \cup EnginesOwn
<1>4. Gives(k, {}, VmcClusterCloud, {"kubeOva", "cloudIpam"} \cup G)
  <2> DEFINE q == KubernetesOva \o Ensure("templates") \o Login
             r == q \o VmcCloud \o VmcGroup("mgmtGroup") \o VmcNetworkPool("dataPool")
             s == r \o VmcVipNetwork \o VmcCloudIpam
             t == s \o VmcEngineOva \o VmcTemplate \o VmcEngines("e1", "e2", "member1", "member2", {"e1", "e2"})
             A == {"kubeOva", "cloud", "mgmtGroup"}
             B == {"kubeOva", "cloud", "mgmtGroup", "ipam", "cloudIpam"}
  <2>1. Gives(k, {}, q, {"kubeOva"}) BY <1>1, ImagesGive, FreeGives, LoginKeeps, GivesKept
  <2>2. Gives(k, {}, r, A)
    <3> HIDE DEF q
    <3>1. Gives(k, {}, q \o VmcCloud, {"kubeOva", "cloud"}) BY <2>1, <1>2, ThenGives
    <3>2. Gives(k, {}, VmcGroup("mgmtGroup"), {"mgmtGroup"}) BY <1>1, FreeGives DEF VmcGroup
    <3>3. Gives(k, {}, q \o VmcCloud \o VmcGroup("mgmtGroup"), A) BY <3>1, <3>2, ThenGives
    <3> QED BY <3>3, PoolGives, GivesKept
  <2>3. Gives(k, {}, s, B)
    <3> HIDE DEF r
    <3>1. Gives(k, {}, r \o VmcVipNetwork, A \cup {"ipam"})
      BY <2>2, <1>3, ThenGives
    <3> QED BY <3>1, CloudGives, ThenGives DEF VmcCloudIpam
  <2>4. Gives(k, {}, t, B \cup EnginesOwn)
    <3> HIDE DEF s
    <3>1. Gives(k, {}, s \o VmcEngineOva \o VmcTemplate, B)
      BY <2>3, TemplateKeeps, GivesKept
    <3>2. Gives(k, {"cloud", "ipam"}, VmcEngines("e1", "e2", "member1", "member2", {"e1", "e2"}), EnginesOwn)
      BY <1>0, EnginesGive
    <3> QED BY <3>1, <3>2, ThenGives
  <2>5. VmcClusterCloud = t \o VmcRoute("vipRoute") \o VmcRoute("route") BY DEF VmcClusterCloud
  <2> HIDE DEF t
  <2>6. Gives(k, {}, t \o VmcRoute("vipRoute"), B \cup EnginesOwn) BY <2>4, RouteGives, GivesKept
  <2> QED BY <2>5, <2>6, RouteGives, ThenGives
<1> DEFINE N == {"vipPool", "mgmtFolder", "kubeOva", "cloudIpam"}
<1>5. Gives(k, N, VmcManagementCluster, {"mgmtMade"})
  <2>1. Gives(k, N, Make("mgmt", "creating") \o Watch("mgmt"), {"mgmtMade"})
    BY <1>0, ManagementGives, GivesKept
  <2>2. ASSUME NEW w \in Known(k, N), w["mgmt"] \in Deployed PROVE Bears(k, {"mgmtMade"}, w)
    <3>1. "mgmtMade" \in Pledges(k) /\ Met("mgmtMade", w) BY <2>2 DEF Pledges, Met, Deployed
    <3> QED BY <3>1, PledgeSeen
  <2>3. "mgmt" \in Concerned(k.setup) BY CommonThings, CommonConcerned DEF Clusters
  <2> QED BY <2>1, <2>2, <2>3, UnlessSees DEF VmcManagementCluster
<1>6. Gives(k, {}, Folder("mgmtFolder") \o Login \o Find("dataPool") \o Find("vipPool"), {"mgmtFolder", "vipPool"})
  <2>1. Gives(k, {}, Folder("mgmtFolder") \o Login \o Find("dataPool"), {"mgmtFolder"})
    BY <1>1, FreeGives, LoginKeeps, GivesKept DEF Folder
  <2>2. Gives(k, {}, Find("vipPool"), {"vipPool"}) BY <1>1, FreeGives
  <2> QED BY <2>1, <2>2, ThenGives
<1>7. Gives(k, {"kubeOva", "cloudIpam"}, Folder("mgmtFolder") \o Login \o Find("dataPool") \o Find("vipPool"), N)
  BY <1>6, LessGives
<1>8. Gives(k, {"kubeOva", "cloudIpam"}, VmcManagement, {"mgmtMade"})
  BY <1>5, <1>7, ThenGives DEF VmcManagement
<1> HIDE DEF G
<1>9. Gives(k, {}, VmcManagementStage, G \cup {"mgmtMade"}) BY <1>4, <1>8, ThenGives DEF VmcManagementStage
<1>10. VmcManagementOwn = G \cup {"mgmtMade"} BY DEF VmcManagementOwn, G
<1> QED BY <1>9, <1>10

\* The pledge that a guest cluster runs.
RunOf(c) == IF c = "shared" THEN "sharedRuns" ELSE "workRuns"

\* A guest cluster is made, followed and waited for.
LEMMA VmcGuestGives ==
  ASSUME NEW k \in Kinds, k.mode # "bare", k.setup = "vmc", NEW c \in {"shared", "workload"}
  PROVE  /\ Gives(k, {"mgmt"}, VmcCreateGuest(c), {RunOf(c)}) /\ Keeps(k, VmcConnect(c))
         /\ RunOf(c) \in Pledges(k) /\ \A w : Met(RunOf(c), w) <=> w[c] \in Deployed
<1>1. c \in Common /\ c \in Concerned(k.setup) BY CommonThings, CommonConcerned DEF Clusters
<1>2. k.setup \notin Supervised /\ ~ InPipeline(k) BY DEF Supervised, InPipeline, Pipelines
<1>3. Gives(k, {"mgmt"}, Make(c, "creating"), {}) /\ Keeps(k, Watch(c))
  <2>1. /\ Needs(k, c) \subseteq {"mgmt"} /\ Gives(k, {"mgmt"} \cup Needs(k, c), Make(c, "creating"), {})
        /\ Keeps(k, Watch(c))
    BY <1>2, GuestGives
  <2>2. {"mgmt"} \cup Needs(k, c) = {"mgmt"} BY <2>1
  <2> QED BY <2>1, <2>2
<1>4. RunOf(c) \in Pledges(k) /\ \A w : Met(RunOf(c), w) <=> w[c] \in Deployed BY DEF RunOf, Pledges, Met
<1>5. Gives(k, {}, Await(c, Deployed), {RunOf(c)})
  <2>1. \A w \in Sound(k) : w[c] \in Deployed => Bears(k, {RunOf(c)}, w) BY <1>4, PledgeSeen
  <2> QED BY <1>1, <2>1, LookSees
<1>6. Gives(k, {"mgmt"}, Make(c, "creating") \o Watch(c), {}) BY <1>3, GivesKept
<1>7. Gives(k, {"mgmt"}, VmcCreateGuest(c), {RunOf(c)}) BY <1>5, <1>6, ThenGives DEF VmcCreateGuest
<1> QED BY <1>1, <1>4, <1>7, LookKeeps DEF VmcConnect

\* The configurations of AKO on VMC.
LEMMA VmcAkoGives ==
  ASSUME NEW k \in Kinds, k.mode # "bare", k.setup = "vmc"
  PROVE  Gives(k, {}, VmcAkoConfig, {"mgmt"}) /\ Gives(k, {}, VmcWorkAkoConfig, {"mgmt"})
<1>1. "dataPool" \in Free /\ "vipPool" \in Free /\ "workPool" \in Free /\ "mgmtAko" \in Free
  BY DEF Free, Plain
<1>2. k.setup \notin Supervised /\ ~ InPipeline(k) BY DEF Supervised, InPipeline, Pipelines
<1>3. Gives(k, {"mgmt"}, Set("sharedAdc"), {"sharedAdc"}) /\ Gives(k, {"mgmt"}, Set("workAdc"), {"workAdc"})
  <2>1. "mgmt" = IF k.setup \in Supervised THEN "ns" ELSE "mgmt" BY <1>2
  <2> QED BY <2>1, GuestGives
<1>0. Keeps(k, Remove("sharedAdc")) BY <1>2, GuestGives
<1>4. Keeps(k, Await("mgmtAko", Have)) BY <1>1, CommonThings, LookKeeps
<1> DEFINE q == OnManagement \o Await("mgmtAko", Have) \o FirstController \o Remove("sharedAdc")
                  \o Find("dataPool") \o Find("vipPool")
           r == Find("workPool") \o Find("vipPool") \o OnManagement
<1>5. Gives(k, {}, q, {"mgmt"}) BY <1>0, <1>1, <1>4, ManagementGives, LoginKeeps, FreeGives, GivesKept
<1>6. Gives(k, {}, r, {"mgmt"}) BY <1>1, ManagementGives, FreeGives, KeepsThen, GivesKept
<1>7. Gives(k, {}, q \o Set("sharedAdc"), {"mgmt"})
  <2> HIDE DEF q
  <2> QED BY <1>5, <1>3, ThenGives
<1>8. Gives(k, {}, r \o Set("workAdc"), {"mgmt"})
  <2> HIDE DEF r
  <2> QED BY <1>6, <1>3, ThenGives
<1> QED BY <1>7, <1>8 DEF VmcAkoConfig, VmcWorkAkoConfig

\* VMC's shared cluster, without its extensions.
LEMMA VmcSharedKeeps ==
  ASSUME NEW k \in Kinds, k.mode # "bare", k.setup = "vmc"
  PROVE  Keeps(k, VmcShared)
<1>1. /\ "sharedFolder" \in Free /\ "label" \in Free /\ "shared" \in Common
      /\ "sharedAko" \in Free
  BY CommonThings DEF Free, Plain, Clusters
<1>2. Keeps(k, Await("sharedAko", Have)) BY <1>1, CommonThings, LookKeeps
<1>3. Keeps(k, VmcAkoConfig \o VmcCreateGuest("shared"))
  BY VmcAkoGives, VmcGuestGives, ThenGives, LessGives DEF Keeps
<1>4. Keeps(k, VmcAkoConfig \o VmcCreateGuest("shared") \o OnManagement \o Set("label")
                 \o VmcConnect("shared") \o Await("sharedAko", Have))
  BY <1>1, <1>2, <1>3, ManagementGives, VmcGuestGives, FreeGives, KeepsThen
<1>5. Keeps(k, Folder("sharedFolder")) BY <1>1, FreeGives DEF Folder
<1> QED BY <1>1, <1>4, <1>5, ImagesGive, ManagementGives, UnlessKeeps, KeepsThen DEF VmcShared

\* networkConfig
LEMMA VmcPreconfigGives ==
  ASSUME NEW k \in Kinds, k.setup = "vmc"
  PROVE  Gives(k, {}, VmcPreconfig, {"workPool"} \cup WorkEnginesOwn)
<1>0. ~ Orchestrating(k) /\ PoolOf(k) = "ipam" BY DEF Orchestrating, PoolOf
<1>1. "workSegment" \in Free /\ "workGroup" \in Free /\ "ipamWork" \in Free BY DEF Free, Plain
<1> DEFINE q == KubernetesOva \o VmcWorkSegments \o FirstController \o Find("cloud")
                  \o VmcNetworkPool("workPool")
           r == q \o VmcGroup("workGroup") \o VmcDataNetworkIpam
<1>2. Gives(k, {}, q, {"cloud", "workPool"})
  <2>1. Keeps(k, KubernetesOva \o VmcWorkSegments \o FirstController)
    BY <1>1, ImagesGive, FreeGives, LoginKeeps, KeepsThen DEF VmcWorkSegments
  <2>2. Gives(k, {}, KubernetesOva \o VmcWorkSegments \o FirstController \o Find("cloud"), {"cloud"})
    BY <2>1, CloudGives, GivesKept
  <2>3. Gives(k, {}, VmcNetworkPool("workPool"), {"workPool"}) BY PoolGives
  <2> QED BY <2>2, <2>3, ThenGives
<1>3. Gives(k, {}, r, {"cloud", "ipam", "workGroup", "workPool"})
  <2> HIDE DEF q
  <2>1. {"short", "there"} \in SUBSET {"short", "there"} OBVIOUS
  <2>2. Gives(k, {}, VmcDataNetworkIpam, {"ipam"})
    BY <1>1, <2>1, IpamGives, FreeGives, GivesKept DEF VmcDataNetworkIpam
  <2>3. Gives(k, {}, VmcGroup("workGroup"), {"workGroup"}) BY <1>1, FreeGives DEF VmcGroup
  <2>4. Gives(k, {}, q \o VmcGroup("workGroup"), {"cloud", "workGroup", "workPool"}) BY <1>2, <2>3, ThenGives
  <2> QED BY <2>2, <2>4, ThenGives
<1>4. VmcPreconfig = r \o VmcEngines("e3", "e4", "member3", "member4", Engines) \o VmcRoute("workRoute")
  BY DEF VmcPreconfig
<1> HIDE DEF r
<1>5. Gives(k, {}, r \o VmcEngines("e3", "e4", "member3", "member4", Engines), {"workPool"} \cup WorkEnginesOwn)
  <2>1. Gives(k, {"cloud", "ipam", "workGroup"}, VmcEngines("e3", "e4", "member3", "member4", Engines), WorkEnginesOwn)
    BY <1>0, EnginesGive
  <2> QED BY <1>3, <2>1, ThenGives
<1> QED BY <1>4, <1>5, RouteGives, GivesKept

\* The firewall rules of the workload.
LEMMA VmcRulesGive ==
  ASSUME NEW k \in Kinds
  PROVE  Gives(k, {}, VmcWorkNetwork, {"workRules", "mgwRule"})
<1>1. /\ "segments" \in Free /\ "groups" \in Free /\ "workSegment" \in Free /\ "workNsxGroup" \in Free
      /\ "workRules" \in Free
  BY DEF Free, Plain
<1>0. /\ Gives(k, {}, Find("segments"), {"segments"}) /\ Gives(k, {}, Find("groups"), {"groups"})
      /\ Gives(k, {}, Find("workSegment"), {"workSegment"})
      /\ Gives(k, {}, Find("workNsxGroup"), {"workNsxGroup"})
  BY <1>1, FreeGives
<1> DEFINE N == {"segments", "groups", "workSegment", "workNsxGroup"}
<1>2. ASSUME NEW r \in {"dnsRule", "vcenterRule", "mgwRule"} PROVE Gives(k, {}, VmcRule(r, {"segments"}), {r})
  <2>1. r \in Concerned(k.setup) /\ r \in Common BY CommonThings, CommonConcerned
  <2>2. Needs(k, r) = N BY DEF Needs, Engines, Dependents
  <2>3. Solid(r) = Have BY DEF Solid, Controllers, Loose, Engines, Files, VcdVars
  <2>4. Gives(k, N, Set(r), {r}) BY <2>1, <2>2, <2>3, PutGives DEF Set, Have
  <2>5. Gives(k, {}, Find("segments") \o Find("groups"), {"segments", "groups"}) BY <1>0, ThenGives
  <2>6. Gives(k, {}, (Find("segments") \o Find("groups")) \o Find("workSegment"),
              {"segments", "groups", "workSegment"})
    BY <2>5, <1>0, ThenGives
  <2>7. Gives(k, {}, (Find("segments") \o Find("groups")) \o Find("workSegment") \o Find("workNsxGroup"), N)
    BY <2>6, <1>0, ThenGives
  <2>8. Gives(k, {}, (Find("segments") \o Find("groups")) \o Find("workSegment") \o Find("workNsxGroup") \o Set(r), {r})
    BY <2>4, <2>7, ThenGives
  <2>9. VmcRule(r, {"segments"})
          = Unless(r, Have, (Find("segments") \o Find("groups")) \o Find("workSegment")
                              \o Find("workNsxGroup") \o Set(r))
    BY DEF VmcRule
  <2> QED BY <2>1, <2>3, <2>8, <2>9, UnlessGives
<1>3. Gives(k, {}, VmcInternetRule, {"workRules"})
  <2>1. Gives(k, {}, <<>> \o Find("workSegment") \o Find("workNsxGroup") \o Set("workRules"), {"workRules"})
    BY <1>1, NothingKeeps, FreeGives, KeepsThen, GivesKept
  <2>2. VmcRule("workRules", {})
          = Unless("workRules", Have, <<>> \o Find("workSegment") \o Find("workNsxGroup") \o Set("workRules"))
    BY DEF VmcRule
  <2> QED BY <1>1, <2>1, <2>2, UnlessHas DEF VmcInternetRule
<1>4. Keeps(k, VmcWorkSegment) /\ Keeps(k, VmcWorkGroups)
  BY <1>1, FreeGives, KeepsThen DEF VmcWorkSegment, VmcWorkGroups
<1>5. Keeps(k, VmcDnsRule) /\ Keeps(k, VmcVcenterRule) BY <1>2, LessGives DEF VmcDnsRule, VmcVcenterRule, Keeps
<1>6. Keeps(k, VmcWorkSegment \o VmcWorkGroups \o VmcDnsRule \o VmcVcenterRule) BY <1>4, <1>5, KeepsThen
<1>7. Gives(k, {}, VmcWorkSegment \o VmcWorkGroups \o VmcDnsRule \o VmcVcenterRule \o VmcInternetRule, {"workRules"})
  BY <1>3, <1>6, GivesKept
<1>8. Gives(k, {}, VmcManagementRule, {"mgwRule"}) BY <1>2 DEF VmcManagementRule
<1> QED BY <1>7, <1>8, ThenGives DEF VmcWorkNetwork

\* deploy
LEMMA VmcWorkloadGives ==
  ASSUME NEW k \in Kinds, k.mode # "bare", k.setup = "vmc"
  PROVE  Gives(k, {}, VmcWorkload, {"workRules", "mgwRule", "workRuns"})
<1>1. /\ "workFolder" \in Free /\ "mgmtAko" \in Free
      /\ "workload" \in Common /\ "workload" \in Concerned(k.setup)
  BY CommonThings, CommonConcerned DEF Free, Plain, Clusters
<1>2. Keeps(k, Await("mgmtAko", Have)) /\ Keeps(k, Folder("workFolder"))
  BY <1>1, CommonThings, LookKeeps, FreeGives DEF Folder
<1>3. RunOf("workload") = "workRuns" BY DEF RunOf
<1>4. Gives(k, {}, VmcWorkAkoConfig \o VmcCreateGuest("workload"), {"workRuns"})
  BY <1>3, VmcAkoGives, VmcGuestGives, ThenGives
<1>5. Gives(k, {}, Unless("workload", Deployed, VmcWorkAkoConfig \o VmcCreateGuest("workload")), {"workRuns"})
  <2>1. "workRuns" \in Pledges(k) /\ \A w : Met("workRuns", w) <=> w["workload"] \in Deployed
    BY <1>3, VmcGuestGives
  <2>2. \A w \in Known(k, {}) : w["workload"] \in Deployed => Bears(k, {"workRuns"}, w) BY <2>1, PledgeSeen
  <2> QED BY <1>1, <1>4, <2>2, UnlessSees
<1> DEFINE p == KubernetesOva \o VmcWorkNetwork \o VmcWorkEngines \o Folder("workFolder") \o OnManagement
           q == Unless("workload", Deployed, VmcWorkAkoConfig \o VmcCreateGuest("workload"))
           R == {"workRules", "mgwRule"}
<1>6. Gives(k, {}, p, R)
  <2>1. Gives(k, {}, KubernetesOva \o VmcWorkNetwork, R) BY ImagesGive, VmcRulesGive, GivesKept
  <2> HIDE DEF R
  <2> QED BY <2>1, <1>2, EnginesAgain, ManagementGives, GivesKept
<1>7. VmcWorkload = p \o q \o OnManagement \o Await("mgmtAko", Have) \o VmcConnect("workload") BY DEF VmcWorkload
<1>8. Gives(k, {}, q, {"workRuns"}) BY <1>5
<1> HIDE DEF p, q
<1>9. Gives(k, {}, p \o q, R \cup {"workRuns"}) BY <1>6, <1>8, ThenGives
<1>10. Gives(k, {}, p \o q \o OnManagement \o Await("mgmtAko", Have) \o VmcConnect("workload"), R \cup {"workRuns"})
  BY <1>9, <1>2, ManagementGives, VmcGuestGives, GivesKept
<1>11. R \cup {"workRuns"} = {"workRules", "mgwRule", "workRuns"} OBVIOUS
<1> QED BY <1>7, <1>10, <1>11

-----------------------------------------------------------------------------
(* Extensions.                                                             *)

\* A package that is reconciled bears; Fluent Bit need not be.
LEMMA PackageSolid ==
  ASSUME NEW k \in Kinds, NEW p \in Packages
  PROVE  p \in Concerned(k.setup) /\ p \in Common /\ (p # "fluent" => Solid(p) = Have)
<1>1. p \in Common /\ p \in Concerned(k.setup) BY CommonThings, CommonConcerned
<1>2. /\ p \notin Controllers /\ p \notin Engines
      /\ p \notin {"mgmt", "ns", "super", "shared", "workload", "ha", "ipam", "never"}
  BY DEF Packages, OnShared, OnWorkload, Controllers, Engines
<1>3. p # "fluent" => p \notin Loose BY DEF Packages, OnShared, OnWorkload, Loose, Engines, Files, VcdVars
<1>4. p # "fluent" => Solid(p) = Have BY <1>2, <1>3 DEF Solid
<1> QED BY <1>1, <1>4

\* What the packages rest on.
LEMMA PackageNeeds ==
  ASSUME NEW k
  PROVE  /\ Needs(k, "sharedCert") = {"sharedRepo", "shared"} /\ Needs(k, "workCert") = {"workRepo", "workload"}
         /\ Needs(k, "sharedContour") \subseteq {"sharedCert", "sharedAko"}
         /\ Needs(k, "workContour") \subseteq {"workCert", "workAko"}
         /\ k.setup \in Supervised \cup Pipelines => Needs(k, "workContour") = {"workCert"}
         /\ Needs(k, "harbor") = IF k.setup \in Supervised THEN {"workCert", "workContour"}
                                 ELSE {"sharedCert", "sharedContour"}
         /\ Needs(k, "prometheus") = {"workContour"}
         /\ Needs(k, "grafana") = {"workRepo", "workload"} /\ Needs(k, "fluent") = {"workRepo", "workload"}
         /\ Needs(k, "workRepo") \subseteq {"roleBinding", "kapp"}
         /\ k.setup \notin Supervised => Needs(k, "workRepo") = {}
         /\ Needs(k, "kapp") = {}
BY DEF Needs, Engines, Dependents

\* A package that was reconciled bears.
LEMMA PackageGives ==
  ASSUME NEW k \in Kinds, NEW p \in Packages, NEW X, NEW values, NEW Y, p # "fluent",
         Gives(k, X, values, Y), Needs(k, p) \subseteq X \cup Y
  PROVE  Gives(k, X, Package(p, values), {p}) /\ Gives(k, X, Package(p, values), {})
<1>1. p \in Concerned(k.setup) /\ p \in Common BY PackageSolid
<1>2. Solid(p) = Have BY PackageSolid
<1>3. Gives(k, X \cup Y, Begin(p), {}) BY <1>1, BeginGives
<1>4. Gives(k, X, values \o Begin(p), {}) BY <1>3, ThenGives
<1>5. Gives(k, {}, Await(p, Have), {p}) BY <1>1, <1>2, LookGives
<1>6. Gives(k, X, values \o Begin(p) \o Await(p, Have), {p}) BY <1>4, <1>5, ThenGives
<1> QED BY <1>1, <1>2, <1>6, UnlessGives DEF Package

\* A guest cluster that is found to run, or to answer, bears its packages; so does a
\* repository that is found.
LEMMA ClusterLooks ==
  ASSUME NEW k \in Kinds
  PROVE  /\ \A c \in {"shared", "workload"} :
              /\ Gives(k, {}, Need(c, Deployed), {c}) /\ Keeps(k, Need(c, Deployed))
              /\ Gives(k, {}, Need(c, Reachable), {c}) /\ Keeps(k, Need(c, Reachable))
              /\ Gives(k, {}, OnCluster(c), {c})
              /\ Gives(k, {}, Version(c), {Kit[c].repo}) /\ Keeps(k, Version(c))
              /\ Gives(k, {}, Need(Kit[c].ako, Have), {Kit[c].ako})
         /\ Gives(k, {}, GitOnCluster, {"workload"})
<1>1. ASSUME NEW c \in {"shared", "workload"}
      PROVE  /\ Gives(k, {}, Need(c, Deployed), {c}) /\ Keeps(k, Need(c, Deployed))
             /\ Gives(k, {}, Need(c, Reachable), {c}) /\ Keeps(k, Need(c, Reachable))
  <2>1. c \in Concerned(k.setup) BY CommonThings, CommonConcerned DEF Clusters
  <2>2. Solid(c) = Started BY DEF Solid, Controllers, Loose, Engines, Files, VcdVars
  <2>3. Deployed \subseteq Started /\ Reachable \subseteq Started BY DEF Deployed, Reachable, Started
  <2> QED BY <2>1, <2>2, <2>3, LookGives
<1>2. \A c \in {"shared", "workload"} : Gives(k, {}, OnCluster(c), {c})
  BY <1>1, ManagementGives, GivesKept DEF OnCluster
<1>3. Kit["shared"].repo = "sharedRepo" /\ Kit["workload"].repo = "workRepo" BY DEF Kit
<1>4. Kit["shared"].ako = "sharedAko" /\ Kit["workload"].ako = "workAko" BY DEF Kit
<1>5. "sharedRepo" \in Free /\ "sharedAko" \in Free /\ "workAko" \in Free BY DEF Free, Plain
<1>6. Gives(k, {}, Need("workRepo", Have), {"workRepo"}) /\ Keeps(k, Need("workRepo", Have))
  <2>1. "workRepo" \in Packages BY DEF Packages, OnWorkload
  <2>2. "workRepo" \in Concerned(k.setup) /\ Solid("workRepo") = Have BY <2>1, PackageSolid
  <2> QED BY <2>2, LookGives
<1>7. Gives(k, {}, Version("shared"), {Kit["shared"].repo}) /\ Keeps(k, Version("shared"))
  BY <1>3, <1>5, FreeGives DEF Version, Find
<1>8. Gives(k, {}, Version("workload"), {Kit["workload"].repo}) /\ Keeps(k, Version("workload"))
  BY <1>3, <1>6 DEF Version
<1>9. \A c \in {"shared", "workload"} : Gives(k, {}, Need(Kit[c].ako, Have), {Kit[c].ako})
  BY <1>4, <1>5, FreeGives DEF Find
<1>10. Gives(k, {}, GitOnCluster, {"workload"})
  BY <1>1, ManagementGives, GivesKept DEF GitOnCluster, GitConnect
<1> QED BY <1>1, <1>2, <1>7, <1>8, <1>9, <1>10

\* installExtensionFor14: cert-manager, and then contour.
LEMMA InstallGives ==
  ASSUME NEW k \in Kinds, setup = k.setup, NEW c \in {"shared", "workload"},
         setup \in Supervised \cup Pipelines => c = "workload"
  PROVE  Gives(k, {c}, InstallExtensions(c), {Kit[c].cert, Kit[c].contour})
<1>1. Kit[c].cert \in Packages /\ Kit[c].cert # "fluent" /\ Kit[c].contour \in Packages /\ Kit[c].contour # "fluent"
  BY DEF Kit, Packages, OnShared, OnWorkload
<1>2. Needs(k, Kit[c].cert) \subseteq {c, Kit[c].repo} BY PackageNeeds DEF Kit
<1>3. /\ Needs(k, Kit[c].contour) \subseteq {Kit[c].cert, Kit[c].ako}
      /\ setup \in Supervised => Needs(k, Kit[c].contour) \subseteq {Kit[c].cert}
  <2>1. CASE c = "shared" BY <2>1, PackageNeeds DEF Kit
  <2>2. CASE c = "workload" BY <2>2, PackageNeeds DEF Kit
  <2> QED BY <2>1, <2>2
<1>4. Gives(k, {c}, Version(c), {Kit[c].repo}) BY ClusterLooks, LessGives
<1>5. Gives(k, {c}, CertManager(c), {Kit[c].cert}) BY <1>1, <1>2, <1>4, PackageGives DEF CertManager
<1> DEFINE q == IF setup \in Supervised THEN <<>> ELSE Need(Kit[c].ako, Have)
           Y == IF setup \in Supervised THEN {Kit[c].cert} ELSE {Kit[c].cert, Kit[c].ako}
<1>6. Gives(k, {c}, CertManager(c) \o q, Y)
  <2>1. CASE setup \in Supervised BY <1>5, <2>1, NothingKeeps, GivesKept
  <2>2. CASE setup \notin Supervised BY <1>5, <2>2, ClusterLooks, ThenGives
  <2> QED BY <2>1, <2>2
<1>7. Gives(k, Y, Contour(c), {Kit[c].contour})
  <2>1. Needs(k, Kit[c].contour) \subseteq Y BY <1>3
  <2>2. Gives(k, Y, Version(c), {}) BY ClusterLooks, LessGives DEF Keeps
  <2> HIDE DEF Y
  <2> QED BY <1>1, <2>1, <2>2, PackageGives DEF Contour
<1>8. InstallExtensions(c) = CertManager(c) \o q \o Contour(c) BY DEF InstallExtensions
<1>9. {Kit[c].cert, Kit[c].contour} \subseteq Y \cup {Kit[c].contour} OBVIOUS
<1> HIDE DEF q, Y
<1> QED BY <1>6, <1>7, <1>8, <1>9, ThenGives

\* The repository and these two, wherever there is no supervisor.
LEMMA CertManagerGives ==
  ASSUME NEW k \in Kinds, setup = k.setup, NEW c \in {"shared", "workload"}, setup \notin Supervised \cup Pipelines
  PROVE  /\ Gives(k, {}, CertManagerAndContour(c), {c, Kit[c].cert, Kit[c].contour})
         /\ Gives(k, {}, Repository(c), {Kit[c].repo})
<1>1. Gives(k, {}, Repository(c), {Kit[c].repo})
  <2>1. CASE c = "shared"
    <3>1. "sharedRepo" \in Free BY DEF Free, Plain
    <3> QED BY <2>1, <3>1, FreeGives DEF Repository, Kit
  <2>2. CASE c = "workload"
    <3>1. "workRepo" \in Packages BY DEF Packages, OnWorkload
    <3>2. "workRepo" \in Concerned(k.setup) /\ Solid("workRepo") = Have BY <3>1, PackageSolid
    <3>3. Needs(k, "workRepo") = {} BY PackageNeeds
    <3> QED BY <2>2, <3>2, <3>3, EnsureGives DEF Repository, Kit, Have
  <2> QED BY <2>1, <2>2
<1>2. Gives(k, {}, OnCluster(c) \o Repository(c), {c}) BY <1>1, ClusterLooks, ThenGives
<1> QED BY <1>1, <1>2, InstallGives, ThenGives DEF CertManagerAndContour

\* The extensions of the shared cluster: VMC's are the same.
LEMMA SharedExtensionsGive ==
  ASSUME NEW k \in Kinds, setup = k.setup, setup \notin Supervised \cup Pipelines
  PROVE  Gives(k, {}, SharedExtensions, {"harbor"}) /\ Gives(k, {}, VmcSharedExtensions, {"harbor"})
<1>1. Keeps(k, CertManagerAndContour("shared")) BY CertManagerGives, LessGives DEF Keeps
<1>2. /\ "harbor" \in Packages /\ "harbor" # "fluent" /\ "sharedCert" \in Packages /\ "sharedContour" \in Packages
      /\ "sharedCert" # "fluent" /\ "sharedContour" # "fluent"
  BY DEF Packages, OnShared
<1>3. Needs(k, "harbor") = {"sharedContour", "sharedCert"} BY PackageNeeds
<1>4. Gives(k, {}, Harbor, {"harbor"})
  <2>1. Gives(k, {}, Await("sharedContour", Have), {"sharedContour"}) BY <1>2, PackageSolid, LookGives
  <2>2. Gives(k, {}, Await("sharedCert", Have), {"sharedCert"}) BY <1>2, PackageSolid, LookGives
  <2>3. Gives(k, {}, Await("sharedContour", Have) \o Await("sharedCert", Have), {"sharedContour", "sharedCert"})
    BY <2>1, <2>2, ThenGives
  <2>4. Gives(k, {}, Await("sharedContour", Have) \o Await("sharedCert", Have) \o Version("shared"),
              {"sharedContour", "sharedCert"})
    BY <2>3, ClusterLooks, GivesKept
  <2>5. Gives(k, {"sharedContour", "sharedCert"}, Begin("harbor"), {})
    BY <1>2, <1>3, PackageSolid, BeginGives
  <2>6. Keeps(k, Await("sharedContour", Have) \o Await("sharedCert", Have) \o Version("shared") \o Begin("harbor"))
    BY <2>4, <2>5, ThenGives DEF Keeps
  <2>7. "harbor" \in Concerned(k.setup) /\ Solid("harbor") = Have BY <1>2, PackageSolid
  <2>8. Gives(k, {}, Await("harbor", Have), {"harbor"}) BY <2>7, LookGives
  <2> QED BY <2>6, <2>7, <2>8, GivesKept, UnlessGives DEF Harbor
<1> QED BY <1>1, <1>4, GivesKept DEF SharedExtensions, VmcSharedExtensions, VmcHarbor

\* Fluent Bit, where the cluster is known to run.
LEMMA FluentGives ==
  ASSUME NEW k \in Kinds
  PROVE  /\ Gives(k, {"workload"}, FluentBitPackage, {"fluent"})
         /\ Gives(k, {"workload"}, GitFluentBitPackage, {"fluent"})
         /\ \A X, p : Gives(k, X, p, {"fluent"}) => Gives(k, X, Unless("fluent", Settled, p), {"fluent"})
<1>1. "fluent" \in Packages /\ "fluent" \in Common BY CommonThings DEF Packages, OnWorkload
<1>0. "fluent" \in Concerned(k.setup) /\ Solid("fluent") = Settled
  <2>1. Solid("fluent") = Settled BY DEF Solid, Controllers, Loose, Engines, Files, VcdVars
  <2> QED BY <1>1, <2>1, PackageSolid
<1>2. Keeps(k, Need("fluent", {"none", "creating", "failed"})) /\ Gives(k, {}, Await("fluent", Have), {"fluent"})
  BY <1>0, <1>1, LookGives DEF Have, Settled
<1>3. Gives(k, {}, Version("workload"), {"workRepo"}) BY ClusterLooks DEF Kit
<1>4. Gives(k, {}, Need("fluent", {"none", "creating", "failed"}) \o Version("workload"), {"workRepo"})
  BY <1>2, <1>3, GivesKept
<1>5. Gives(k, {"workRepo", "workload"}, Begin("fluent"), {}) BY <1>1, PackageNeeds, PackageSolid, BeginGives
<1>6. Gives(k, {"workload"}, Version("workload"), {"workRepo"}) BY <1>3, LessGives
<1>7. Gives(k, {"workload"}, Need("fluent", {"none", "creating", "failed"}) \o Version("workload"), {"workRepo"})
  BY <1>4, LessGives
<1>8. Gives(k, {"workload"}, Version("workload") \o Begin("fluent"), {}) BY <1>5, <1>6, ThenGives
<1>9. Gives(k, {"workload"}, Need("fluent", {"none", "creating", "failed"}) \o Version("workload")
                               \o Begin("fluent"), {})
  BY <1>5, <1>7, ThenGives
<1>10. GitVersion = Version("workload") BY DEF GitVersion, Version, Kit
<1>11. Gives(k, {"workload"}, FluentBitPackage, {"fluent"}) BY <1>2, <1>9, ThenGives DEF FluentBitPackage
<1>12. Gives(k, {"workload"}, GitFluentBitPackage, {"fluent"})
  BY <1>2, <1>8, <1>10, ThenGives DEF GitFluentBitPackage
<1>13. \A X, p : Gives(k, X, p, {"fluent"}) => Gives(k, X, Unless("fluent", Settled, p), {"fluent"})
  BY <1>0, UnlessGives
<1> QED BY <1>11, <1>12, <1>13

\* What the packages of the workload cluster are installed on; their values come with
\* the version in the repository.
LEMMA WorkPackageGives ==
  ASSUME NEW k \in Kinds
  PROVE  /\ Gives(k, {"workContour"}, Package("prometheus", Values), {"prometheus"})
         /\ Gives(k, {"workload"}, Package("grafana", Values), {"grafana"})
         /\ GitValues = Values /\ TkgsValues = Values /\ GitTkgsValues = Values
<1>1. /\ "prometheus" \in Packages /\ "prometheus" # "fluent" /\ "grafana" \in Packages /\ "grafana" # "fluent"
  BY DEF Packages, OnWorkload
<1>2. Gives(k, {}, Values, {"workRepo"}) BY ClusterLooks DEF Kit, Values
<1>3. Gives(k, {"workContour"}, Values, {}) BY <1>2, LessGives
<1>4. Gives(k, {"workload"}, Values, {"workRepo"}) BY <1>2, LessGives
<1>5. Gives(k, {"workContour"}, Package("prometheus", Values), {"prometheus"}) BY <1>1, <1>3, PackageNeeds, PackageGives
<1>6. Gives(k, {"workload"}, Package("grafana", Values), {"grafana"}) BY <1>1, <1>4, PackageNeeds, PackageGives
<1> QED BY <1>5, <1>6 DEF GitValues, TkgsValues, GitTkgsValues, Values, GitVersion, Version, Kit

\* deploy_tkg_extensions
LEMMA ExtensionsGive ==
  ASSUME NEW k \in Kinds, setup = k.setup, setup \notin Supervised \cup Pipelines
  PROVE  Gives(k, {}, Extensions, {"prometheus", "grafana", "fluent"})
<1>1. Gives(k, {}, Monitoring("prometheus"), {"prometheus"})
  <2>1. Gives(k, {}, OnCluster("workload") \o CertManagerAndContour("workload"), {"workContour"})
    <3>1. Gives(k, {}, CertManagerAndContour("workload"), {"workContour"})
      BY CertManagerGives, LessGives DEF Kit
    <3>2. Keeps(k, OnCluster("workload")) BY ClusterLooks, LessGives DEF Keeps
    <3> QED BY <3>1, <3>2, GivesKept
  <2> QED BY <2>1, WorkPackageGives, ThenGives DEF Monitoring
<1>2. Gives(k, {}, Monitoring("grafana"), {"grafana"})
  <2>1. Gives(k, {}, OnCluster("workload") \o <<>>, {"workload"}) BY ClusterLooks, NothingKeeps, GivesKept
  <2>2. Monitoring("grafana") = OnCluster("workload") \o <<>> \o Package("grafana", Values) BY DEF Monitoring
  <2>3. Gives(k, {}, OnCluster("workload") \o <<>> \o Package("grafana", Values), {"grafana"})
    BY <2>1, WorkPackageGives, ThenGives
  <2> QED BY <2>2, <2>3
<1>3. Gives(k, {}, FluentBit, {"fluent"})
  <2>1. Gives(k, {}, OnCluster("workload") \o FluentBitPackage, {"fluent"})
    BY ClusterLooks, FluentGives, ThenGives
  <2>2. Keeps(k, Repository("workload")) BY CertManagerGives, LessGives DEF Keeps
  <2> QED BY <2>1, <2>2, FluentGives, GivesKept DEF FluentBit, FluentBitThere
<1>4. Gives(k, {}, Monitoring("prometheus") \o Monitoring("grafana"), {"prometheus", "grafana"})
  BY <1>1, <1>2, ThenGives
<1> QED BY <1>3, <1>4, ThenGives DEF Extensions

\* The stages that end with extensions.
LEMMA SharedServicesGive ==
  ASSUME NEW k \in Kinds, k.mode # "bare", setup = k.setup
  PROVE  /\ setup \in {"orchestrated", "manual", "vcf"} => Gives(k, {}, SharedServices, {"label", "harbor"})
         /\ setup = "vmc" => Gives(k, {}, VmcSharedServices, {"harbor"})
<1>1. ASSUME setup \in {"orchestrated", "manual", "vcf"} PROVE Gives(k, {}, SharedServices, {"label", "harbor"})
  <2>1. setup \notin Supervised \cup Pipelines BY <1>1 DEF Supervised, Pipelines
  <2>2. Gives(k, {}, SharedStage, {"shared", "sharedAko", "label"}) BY <1>1, GuestStagesGive
  <2> QED BY <2>1, <2>2, SharedExtensionsGive, ThenGives DEF SharedServices
<1>2. ASSUME setup = "vmc" PROVE Gives(k, {}, VmcSharedServices, {"harbor"})
  <2>1. setup \notin Supervised \cup Pipelines BY <1>2 DEF Supervised, Pipelines
  <2> QED BY <2>1, <1>2, VmcSharedKeeps, SharedExtensionsGive, GivesKept DEF VmcSharedServices
<1> QED BY <1>1, <1>2

-----------------------------------------------------------------------------
(* The stages on a supervisor.                                             *)

\* The supervisor and its namespace: what they are made of, and when they bear.
LEMMA SupervisorGives ==
  ASSUME NEW k \in Kinds
  PROVE  /\ Gives(k, {"library", "cert"}, Make("super", "creating"), {})
         /\ Gives(k, {"super", "library", "workNet"}, Make("ns", "creating"), {})
         /\ Gives(k, {}, Await("super", Deployed), {"super"}) /\ Gives(k, {}, Need("super", Deployed), {"super"})
         /\ Gives(k, {}, Await("ns", Deployed), {"ns"}) /\ Keeps(k, Await("super", Deployed))
         /\ Gives(k, {}, Find("cert"), {"cert"}) /\ Keeps(k, Need("super", Reachable))
         /\ Gives(k, {}, Need("super", Reachable), {"superMade"}) /\ Gives(k, {}, Need("super", Reachable), {"superServed"})
         /\ Gives(k, {}, Need("super", Reachable), {"superUp"}) /\ Gives(k, {}, Await("super", Deployed), {"superRuns"})
<1>1. \A x \in {"super", "ns", "cert"} : x \in Things /\ x \in Concerned(k.setup)
  BY CommonThings, CommonConcerned DEF Supervisor, Common
<1>2. /\ Needs(k, "super") = {"library", "cert"} /\ Needs(k, "ns") = {"super", "library", "workNet"}
  BY DEF Needs, Engines, Dependents
<1>3. "creating" \in Lives["super"] /\ "creating" \in Lives["ns"] BY <1>1, StatesOf DEF Supervisor
<1>4. Solid("super") = Deployed \cup {"off"} /\ Solid("ns") = Deployed /\ Solid("cert") = Have
  BY DEF Solid, Controllers, Loose, Engines, Files, VcdVars
<1>5. Gives(k, {"library", "cert"}, Make("super", "creating"), {}) BY <1>1, <1>2, <1>3, MakeGives
<1>6. Gives(k, {"super", "library", "workNet"}, Make("ns", "creating"), {}) BY <1>1, <1>2, <1>3, MakeGives
<1>7. /\ Gives(k, {}, Await("super", Deployed), {"super"}) /\ Gives(k, {}, Need("super", Deployed), {"super"})
      /\ Keeps(k, Await("super", Deployed)) /\ Keeps(k, Need("super", Reachable))
  BY <1>1, <1>4, LookGives
<1>8. Gives(k, {}, Await("ns", Deployed), {"ns"}) BY <1>1, <1>4, LookGives
<1>9. Gives(k, {}, Find("cert"), {"cert"}) BY <1>1, <1>4, LookGives DEF Find
<1>10. ASSUME NEW r \in {"superMade", "superServed", "superUp"} PROVE Gives(k, {}, Need("super", Reachable), {r})
  <2>1. ASSUME NEW w \in Sound(k), w["super"] \in Reachable PROVE Bears(k, {r}, w)
    <3>1. r \notin Bearing(k) BY DEF Bearing, Concerned, Things, Plain, Pushed, Files, Director, VcdVars, Packages,
                                     OnShared, OnWorkload, Controllers, Engines, Clusters, Supervisor
    <3>2. Met(r, w) BY <2>1 DEF Met, Reachable
    <3> QED BY <3>1, <3>2 DEF Bears
  <2> QED BY <1>1, <2>1, LookSees
<1>11. Gives(k, {}, Await("super", Deployed), {"superRuns"})
  <2>1. ASSUME NEW w \in Sound(k), w["super"] \in Deployed PROVE Bears(k, {"superRuns"}, w)
    <3>1. "superRuns" \notin Bearing(k)
      BY DEF Bearing, Concerned, Things, Plain, Pushed, Files, Director, VcdVars, Packages,
             OnShared, OnWorkload, Controllers, Engines, Clusters, Supervisor
    <3>2. Met("superRuns", w) BY <2>1 DEF Met
    <3> QED BY <3>1, <3>2 DEF Bears
  <2> QED BY <1>1, <2>1, LookSees
<1> QED BY <1>5, <1>6, <1>7, <1>8, <1>9, <1>10, <1>11

\* What config_wcp sets up: the default cloud, its networks and its profile.
WcpOwn == {"mgmtPool", "cloudNet", "route", "cloudIpam", "mgmtGroup", "vipRoute"}

\* config_wcp
LEMMA TkgsConfigGives ==
  ASSUME NEW k \in Kinds, k.setup \in Supervised
  PROVE  Gives(k, {}, TkgsConfig, WcpOwn)
<1>1. /\ "defaultCloud" \in Free /\ "inventory" \in Free /\ "mgmtGroup" \in Free /\ "cloudNet" \in Free
  BY DEF Free, Plain
<1>2. Needs(k, "cloud") = {} BY CloudNeeds DEF Supervised
<1>3. Gives(k, {}, TkgsCloud, {"cloud"})
  <2>1. Gives(k, {}, Find("defaultCloud") \o Set("cloud"), {"cloud"})
    BY <1>1, <1>2, FreeGives, CloudGives, GivesKept
  <2> QED BY <2>1, CloudGives DEF TkgsCloud
<1>4. Gives(k, {}, TkgsNetworks, {"mgmtPool", "cloudNet", "route", "vipPool"})
  <2>1. Gives(k, {}, TkgsCloudNetwork, {"cloudNet"}) BY <1>1, FreeGives DEF TkgsCloudNetwork
  <2>2. Gives(k, {}, TkgsPool("mgmtPool") \o TkgsCloudNetwork, {"mgmtPool", "cloudNet"})
    BY <2>1, PoolGives, ThenGives
  <2>3. Gives(k, {}, TkgsPool("mgmtPool") \o TkgsCloudNetwork \o TkgsRoute("route"), {"mgmtPool", "cloudNet", "route"})
    BY <2>2, RouteGives, ThenGives
  <2> QED BY <2>3, PoolGives, ThenGives DEF TkgsNetworks
<1>5. Gives(k, {"vipPool", "cloud"}, TkgsProfiles, {"cloudIpam", "mgmtGroup", "vipRoute"})
  <2>1. Gives(k, {"vipPool"}, TkgsIpam, {"ipam"})
    <3>1. Gives(k, {"vipPool"}, Set("ipam"), {"ipam"}) BY IpamGives DEF Set
    <3>2. Have \in SUBSET {"short", "there"} BY DEF Have
    <3> QED BY <3>1, <3>2, IpamGives DEF TkgsIpam, TkgsNewIpam
  <2>2. Gives(k, {"vipPool", "cloud"}, TkgsIpam \o TkgsCloudIpam, {"cloudIpam"})
    <3>1. Gives(k, {"vipPool", "cloud"}, TkgsIpam, {"ipam"}) BY <2>1, LessGives
    <3> QED BY <3>1, CloudGives, ThenGives DEF TkgsCloudIpam
  <2>3. Gives(k, {"vipPool", "cloud"}, TkgsIpam \o TkgsCloudIpam \o TkgsClusterUrl, {"cloudIpam"})
    BY <1>1, <2>2, FreeGives, GivesKept DEF TkgsClusterUrl
  <2>4. Gives(k, {}, TkgsGroup, {"mgmtGroup"}) BY <1>1, FreeGives DEF TkgsGroup
  <2>5. Gives(k, {"vipPool", "cloud"}, TkgsIpam \o TkgsCloudIpam \o TkgsClusterUrl \o TkgsGroup,
              {"cloudIpam", "mgmtGroup"})
    BY <2>3, <2>4, ThenGives
  <2> QED BY <2>5, RouteGives, ThenGives DEF TkgsProfiles
<1>6. Gives(k, {}, Login \o TkgsCloud, {"cloud"}) BY <1>3, LoginKeeps, GivesKept
<1>7. Gives(k, {}, Login \o TkgsCloud \o TkgsNetworks, {"mgmtPool", "cloudNet", "route", "vipPool", "cloud"})
  BY <1>4, <1>6, ThenGives
<1> QED BY <1>5, <1>7, ThenGives DEF TkgsConfig, WcpOwn

\* A pipeline looks whether its cluster is there; a failure counts as an absence.
LEMMA AskSees ==
  ASSUME NEW k \in Kinds, k.mode # "bare", NEW x \in Concerned(k.setup), NEW S, NEW p, NEW Y, Gives(k, {}, p, Y),
         \A w \in Sound(k) : w[x] \in S => Bears(k, Y, w)
  PROVE  Gives(k, {}, Ask(x, S, p), Y)
<1> DEFINE c == [op |-> "ask", x |-> x, states |-> S, calls |-> p]
<1>1. c.op = "ask" /\ c.x = x /\ c.states = S /\ c.calls = p /\ Ask(x, S, p) = <<c>> BY DEF Ask, Call
<1>2. IsProgram(p) BY DEF Gives
<1>3. IsProgram(Ask(x, S, p)) BY CallProgram DEF Ask
<1> HIDE DEF c
<1>4. ASSUME NEW W PROVE Leads(k, Known(k, W), Ask(x, S, p), Known(k, W \cup Y))
  <2>1. Known(k, W) \subseteq Sound(k) /\ Lasts(k, Known(k, W)) BY KnownLasts
  <2>2. Leads(k, Known(k, W), p, Known(k, W \cup Y)) BY DEF Gives
  <2>3. \A v \in Known(k, W) : v[x] \in S => v \in Known(k, W \cup Y) BY BothSeen DEF Known
  <2>4. c.op \in Branching BY <1>1 DEF Branching
  <2>5. \A v \in Known(k, W) : v[c.x] \in c.states \/ c.op = "spare" => v \in Known(k, W \cup Y)
    BY <1>1, <2>3
  <2>6. Leads(k, Known(k, W), <<c>>, Known(k, W \cup Y))
    BY <1>1, <1>2, <2>1, <2>2, <2>4, <2>5, BranchLeads
  <2> QED BY <1>1, <2>6
<1> QED BY <1>3, <1>4 DEF Gives

\* enable_wcp: the supervisor is enabled with its library and the certificate.
LEMMA EnableGives ==
  ASSUME NEW k \in Kinds
  PROVE  /\ Gives(k, {}, TkgsEnableStage, {"superServed"})
         /\ k.mode # "bare" => Gives(k, {}, GitEnableTask, {"superMade"})
<1>1. /\ "library" \in Free /\ "tkgConfig" \in Free /\ "super" \in Common /\ "c1" \in Common
      /\ "e1" \in Engines
  BY CommonThings DEF Free, Plain, Supervisor, Controllers, Engines
<1>2. Keeps(k, TkgsLibraryId \o TkgsCertificate \o Make("super", "creating"))
  <2>1. Gives(k, {}, TkgsLibraryId, {"library"}) BY <1>1, FreeGives DEF TkgsLibraryId
  <2>2. Gives(k, {}, TkgsLibraryId \o TkgsCertificate, {"library", "cert"})
    BY <2>1, SupervisorGives, ThenGives DEF TkgsCertificate
  <2> QED BY <2>2, SupervisorGives, ThenGives DEF Keeps
<1>3. GitEnable = TkgsEnable /\ TkgsEnable = TkgsLibraryId \o TkgsCertificate \o Make("super", "creating")
  BY DEF GitEnable, TkgsEnable, GitLibraryId, TkgsLibraryId, GitSupervisorCert, TkgsCertificate
<1>4. Keeps(k, TkgsEnable \o Await("super", Deployed)) BY <1>2, <1>3, SupervisorGives, KeepsThen
<1>5. Keeps(k, TkgsSupervisor) /\ Keeps(k, GitSupervisor)
  BY <1>1, <1>3, <1>4, UnlessKeeps DEF TkgsSupervisor, GitSupervisor
<1>6. Keeps(k, Need("c1", {"up"})) /\ Keeps(k, Await("e1", {"none", "connected"}))
  BY <1>1, LookKeeps, EngineLooks
<1>7. Gives(k, {}, TkgsEnableStage, {"superServed"})
  <2>1. Gives(k, {}, TkgsConfiguration, {"superServed"})
    BY <1>1, FreeGives, SupervisorGives, GivesKept DEF TkgsConfiguration, TkgsPlugin
  <2>2. Keeps(k, TkgsPlugin) BY SupervisorGives DEF TkgsPlugin
  <2>3. Keeps(k, TkgsLibrary \o Login \o Need("c1", {"up"}) \o TkgsSupervisor \o TkgsEnginesUp \o TkgsPlugin)
    BY <1>1, <1>5, <1>6, <2>2, FreeGives, LoginKeeps, KeepsThen DEF TkgsLibrary, TkgsEnginesUp
  <2> QED BY <2>1, <2>3, GivesKept DEF TkgsEnableStage
<1> DEFINE p == GitLibrary \o GitLogin \o GitSupervisor \o GitEnginesUp \o GitPlugin
<1>8. Gives(k, {}, p, {"superMade"})
  <2>1. Keeps(k, GitLibrary \o GitLogin \o GitSupervisor \o GitEnginesUp)
    BY <1>1, <1>5, <1>6, FreeGives, LoginKeeps, KeepsThen DEF GitLibrary, GitEnginesUp
  <2>2. Gives(k, {}, GitPlugin, {"superMade"}) BY SupervisorGives DEF GitPlugin
  <2> QED BY <2>1, <2>2, GivesKept
<1>9. "super" \in Concerned(k.setup) BY <1>1, CommonConcerned
<1>10. \A w \in Sound(k) : w["super"] \in Present => Bears(k, {"superMade"}, w)
  <2> TAKE w \in Sound(k)
  <2> HAVE w["super"] \in Present
  <2>1. "superMade" \in Pledges(k) /\ Met("superMade", w) BY DEF Pledges, Met, Present
  <2> QED BY <2>1, PledgeSeen
<1>11. GitEnableTask = Ask("super", Present, p) BY DEF GitEnableTask
<1> HIDE DEF p
<1> QED BY <1>7, <1>8, <1>9, <1>10, <1>11, AskSees

\* create_name_space: the namespace is made on a supervisor that runs, with its library
\* and the network.
LEMMA NamespaceKeeps ==
  ASSUME NEW k \in Kinds, k.goal = {}
  PROVE  Keeps(k, TkgsNamespace) /\ Keeps(k, GitNamespace)
<1>1. /\ "library" \in Free /\ "workNet" \in Free /\ "super" \in Common /\ "ns" \in Common
  BY CommonThings DEF Free, Plain, Supervisor
<1>2. Keeps(k, Need("ns", {"none"})) /\ Keeps(k, Leave("super", {"none"} \cup Present)) BY <1>1, LookKeeps
<1>3. Gives(k, {}, Unless("workNet", Have, Set("workNet")), {"workNet"}) BY <1>1, FreeGives, UnlessHas
<1>4. Gives(k, {}, Ensure("workNet"), {"workNet"}) BY <1>1, FreeGives
<1>5. Gives(k, {}, Need("ns", {"none"}) \o Find("library"), {"library"}) BY <1>1, <1>2, FreeGives, GivesKept
<1>6. ASSUME NEW p, Gives(k, {}, p, {"workNet"})
      PROVE  Keeps(k, Need("ns", {"none"}) \o Find("library") \o (Need("super", Deployed) \o p)
                        \o Make("ns", "creating"))
  <2>1. Gives(k, {}, Need("super", Deployed) \o p, {"super", "workNet"}) BY <1>6, SupervisorGives, ThenGives
  <2>2. Gives(k, {}, Need("ns", {"none"}) \o Find("library") \o (Need("super", Deployed) \o p),
              {"super", "library", "workNet"})
    BY <1>5, <2>1, ThenGives
  <2> QED BY <2>2, SupervisorGives, ThenGives DEF Keeps
<1>7. Keeps(k, TkgsNamespace)
  <2>1. Keeps(k, Need("ns", {"none"}) \o TkgsLibraryId \o TkgsWorkNet \o Make("ns", "creating"))
    BY <1>3, <1>6 DEF TkgsLibraryId, TkgsWorkNet, TkgsNewWorkNet
  <2> QED BY <1>1, <1>2, <2>1, UnlessKeeps, KeepsThen DEF TkgsNamespace
<1>8. Keeps(k, GitNamespace)
  <2>1. Keeps(k, Need("ns", {"none"}) \o GitLibraryId \o GitWorkNet \o Make("ns", "creating"))
    BY <1>4, <1>6 DEF GitLibraryId, GitWorkNet
  <2> QED BY <1>1, <1>2, <2>1, UnlessKeeps, KeepsThen DEF GitNamespace
<1> QED BY <1>7, <1>8

\* create_workload: the cluster is made once the namespace runs.
LEMMA SupervisedWorkloadKeeps ==
  ASSUME NEW k \in Kinds, k.mode # "bare", k.setup \in Supervised, k.goal = {}
  PROVE  Keeps(k, TkgsWorkload) /\ Keeps(k, GitTkgsWorkload)
<1>1. "super" \in Common /\ "workload" \in Common BY CommonThings DEF Supervisor, Clusters
<1>2. /\ Keeps(k, Leave("super", Present)) /\ Keeps(k, Leave("super", Reachable))
      /\ Keeps(k, Await("workload", Deployed))
  BY <1>1, LookKeeps
<1>3. Gives(k, {"ns", "superUp"}, Make("workload", "creating"), {}) /\ Keeps(k, Watch("workload"))
  <2>1. "ns" = IF k.setup \in Supervised THEN "ns" ELSE "mgmt" OBVIOUS
  <2>2. ~ InPipeline(k) BY DEF InPipeline
  <2>3. Needs(k, "workload") \subseteq {"ns"} /\ Keeps(k, Watch("workload")) BY <2>1, <2>2, GuestGives
  <2>4. "workload" \in Concerned(k.setup) /\ "workload" \in Things BY <1>1, CommonConcerned DEF Common
  <2>5. "creating" \in Lives["workload"] BY <2>4, StatesOf DEF Clusters
  <2>6. Gives(k, {"ns", "superUp"}, Make("workload", "creating"), {}) BY <2>3, <2>4, <2>5, MakeGives
  <2> QED BY <2>3, <2>6
<1>4. Gives(k, {}, TkgsYaml, {"superUp"}) /\ Gives(k, {}, GitTkgsYaml, {"superUp"})
  BY SupervisorGives, GivesKept DEF TkgsYaml, TkgsClassYaml, TkgsImageOs, TkgsAliases, GitTkgsYaml
<1>5. Gives(k, {"ns"}, TkgsYaml, {"superUp"}) /\ Gives(k, {"ns"}, GitTkgsYaml, {"superUp"}) BY <1>4, LessGives
<1>6. Gives(k, {"ns"}, TkgsYaml \o Make("workload", "creating"), {})
      /\ Gives(k, {"ns"}, GitTkgsYaml \o Make("workload", "creating"), {})
  BY <1>3, <1>5, ThenGives
<1>7. Gives(k, {"ns"}, TkgsApply \o Watch("workload"), {})
      /\ Gives(k, {"ns"}, GitTkgsApply \o Await("workload", Deployed), {})
  BY <1>2, <1>3, <1>6, GivesKept DEF TkgsApply, GitTkgsApply
<1>8. /\ Gives(k, {"ns"}, Unless("workload", Present, TkgsApply \o Watch("workload")), {})
      /\ Gives(k, {"ns"}, Unless("workload", Present, GitTkgsApply \o Await("workload", Deployed)), {})
  BY <1>1, <1>7, CommonConcerned, UnlessGives
<1>9. Gives(k, {}, Leave("super", Present) \o Leave("super", Reachable)
                     \o (Await("ns", Deployed) \o Await("super", Deployed)), {"ns"})
  BY <1>2, SupervisorGives, KeepsThen, GivesKept
<1>10. Keeps(k, TkgsWorkload)
  BY <1>8, <1>9, ThenGives DEF TkgsWorkload, TkgsEndpoint, TkgsEndpointPlugin, TkgsReady, Keeps
<1>11. Keeps(k, GitTkgsWorkload) BY <1>8, <1>9, ThenGives DEF GitTkgsWorkload, GitTkgsReady, Keeps
<1> QED BY <1>10, <1>11

\* tkgsExtensionsPrecheck ends with the repository on a cluster that runs.
LEMMA ReadiedGives ==
  ASSUME NEW k \in Kinds
  PROVE  Gives(k, {}, TkgsReadied, {"workload", "workRepo"}) /\ GitTkgsReadied = TkgsReadied
<1>1. /\ "roleBinding" \in Free /\ "psp" \in Free /\ "kapp" \in Packages /\ "workRepo" \in Packages
      /\ "kapp" # "fluent" /\ "workRepo" # "fluent"
  BY DEF Free, Plain, Packages, OnWorkload
<1>2. "kapp" \in Concerned(k.setup) /\ "kapp" \in Common /\ Solid("kapp") = Have BY <1>1, PackageSolid
<1>3. Gives(k, {}, Kapp, {"kapp"})
  <2>1. Keeps(k, PodSecurity) BY <1>1, FreeGives DEF PodSecurity
  <2>2. Keeps(k, Begin("kapp")) BY <1>1, <1>2, PackageNeeds, BeginGives DEF Keeps
  <2>3. Gives(k, {}, Await("kapp", Have), {"kapp"}) BY <1>2, LookGives
  <2>4. Gives(k, {}, PodSecurity \o Begin("kapp") \o Await("kapp", Have), {"kapp"})
    BY <2>1, <2>2, <2>3, KeepsThen, GivesKept
  <2> QED BY <1>2, <2>4, UnlessGives DEF Kapp
<1>4. Gives(k, {"roleBinding", "kapp"}, TkgsRepository, {"workRepo"})
  <2>1. Gives(k, {"roleBinding", "kapp"}, <<>>, {}) BY NothingGives
  <2> QED BY <1>1, <2>1, PackageNeeds, PackageGives DEF TkgsRepository
<1>5. Keeps(k, Need("super", Reachable)) BY SupervisorGives
<1>6. Gives(k, {}, TkgsOnCluster, {"workload"}) BY <1>5, ClusterLooks, GivesKept DEF TkgsOnCluster
<1>7. Keeps(k, TkgsConnect) BY <1>5, ClusterLooks, KeepsThen DEF TkgsConnect
<1>8. Gives(k, {}, TkgsOnCluster \o TkgsConnect, {"workload"}) BY <1>6, <1>7, GivesKept
<1>9. Gives(k, {}, RoleBinding, {"roleBinding"}) BY <1>1, FreeGives DEF RoleBinding
<1>10. Gives(k, {}, TkgsOnCluster \o TkgsConnect \o RoleBinding, {"workload", "roleBinding"})
  BY <1>8, <1>9, ThenGives
<1>11. Gives(k, {}, TkgsOnCluster \o TkgsConnect \o RoleBinding \o Kapp, {"workload", "roleBinding", "kapp"})
  BY <1>3, <1>10, ThenGives
<1>12. Gives(k, {}, TkgsReadied, {"workload", "workRepo"}) BY <1>4, <1>11, ThenGives DEF TkgsReadied
<1>13. GitTkgsReadied = TkgsReadied
  BY DEF GitTkgsReadied, TkgsReadied, GitTkgsOnCluster, TkgsOnCluster, GitTkgsConnect, TkgsConnect,
     GitRoleBinding, RoleBinding, GitKapp, Kapp, GitPodSecurity, PodSecurity, GitTkgsRepository, TkgsRepository
<1> QED BY <1>12, <1>13

\* deploy_tkgs_extensions
LEMMA TkgsExtensionsGive ==
  ASSUME NEW k \in Kinds, setup = k.setup, setup \in Supervised
  PROVE  Gives(k, {}, TkgsExtensions, {"prometheus", "grafana", "fluent"})
<1>1. FluentBitThere = Settled BY DEF FluentBitThere
<1>2. Gives(k, {"workload"}, InstallExtensions("workload"), {"workContour"})
  BY InstallGives, LessGives DEF Kit
<1>3. Gives(k, {"workload"}, InstallExtensions("workload") \o TkgsMonitoring("prometheus"), {"prometheus"})
  BY <1>2, WorkPackageGives, ThenGives DEF TkgsMonitoring
<1>4. Gives(k, {"workload"}, InstallExtensions("workload") \o TkgsMonitoring("prometheus")
                               \o TkgsMonitoring("grafana"), {"prometheus", "grafana"})
  BY <1>3, WorkPackageGives, ThenGives DEF TkgsMonitoring
<1>5. Gives(k, {"workload"}, TkgsFluentBit, {"fluent"}) BY <1>1, FluentGives DEF TkgsFluentBit
<1>6. Gives(k, {"workload"}, TkgsPackages, {"prometheus", "grafana", "fluent"})
  BY <1>4, <1>5, ThenGives DEF TkgsPackages
<1> QED BY <1>6, ReadiedGives, ThenGives DEF TkgsExtensions

\* installExtentionFor14, in a pipeline.
LEMMA GitInstallGives ==
  ASSUME NEW k \in Kinds, k.setup \in Pipelines
  PROVE  Gives(k, {"workload"}, GitInstallExtensions, {"workCert", "workContour"})
<1>1. /\ "workCert" \in Packages /\ "workContour" \in Packages /\ "workCert" # "fluent" /\ "workContour" # "fluent"
  BY DEF Packages, OnWorkload
<1>2. GitVersion = Version("workload") BY DEF GitVersion, Version, Kit
<1>3. Gives(k, {}, GitVersion, {"workRepo"}) BY <1>2, ClusterLooks DEF Kit
<1>4. Gives(k, {"workload"}, GitVersion, {"workRepo"}) /\ Gives(k, {"workCert"}, GitVersion, {})
  BY <1>3, LessGives
<1>5. Gives(k, {"workload"}, Package("workCert", GitVersion), {"workCert"}) BY <1>1, <1>4, PackageNeeds, PackageGives
<1>6. Gives(k, {"workCert"}, Package("workContour", GitVersion), {"workContour"})
  BY <1>1, <1>4, PackageNeeds, PackageGives
<1> QED BY <1>5, <1>6, ThenGives DEF GitInstallExtensions

\* deploy_tkgs_extensions of a pipeline, with Harbor on the workload cluster.
LEMMA GitTkgsExtensionsKeep ==
  ASSUME NEW k \in Kinds, k.setup = "pipelineTkgs"
  PROVE  Keeps(k, GitTkgsExtensions)
<1>0. k.setup \in Pipelines /\ k.setup \in Supervised BY DEF Pipelines, Supervised
<1>1. /\ "harbor" \in Packages /\ "workCert" \in Packages /\ "workContour" \in Packages
      /\ "workCert" # "fluent" /\ "workContour" # "fluent"
  BY DEF Packages, OnWorkload
<1>2. "fluent" \in Concerned(k.setup) /\ "harbor" \in Common
  BY CommonThings, CommonConcerned DEF Packages, OnWorkload
<1>3. Keeps(k, GitHarbor)
  <2>1. Gives(k, {}, Await("workContour", Have), {"workContour"}) BY <1>1, PackageSolid, LookGives
  <2>2. Gives(k, {}, Await("workCert", Have), {"workCert"}) BY <1>1, PackageSolid, LookGives
  <2>3. Gives(k, {}, Await("workContour", Have) \o Await("workCert", Have), {"workContour", "workCert"})
    BY <2>1, <2>2, ThenGives
  <2>4. GitVersion = Version("workload") BY DEF GitVersion, Version, Kit
  <2>5. Gives(k, {}, Await("workContour", Have) \o Await("workCert", Have) \o GitVersion, {"workContour", "workCert"})
    BY <2>3, <2>4, ClusterLooks, GivesKept
  <2>6. Needs(k, "harbor") = {"workCert", "workContour"} BY <1>0, PackageNeeds
  <2>7. Gives(k, {"workContour", "workCert"}, Begin("harbor"), {}) BY <1>1, <2>6, PackageSolid, BeginGives
  <2>8. Keeps(k, Await("workContour", Have) \o Await("workCert", Have) \o GitVersion \o Begin("harbor"))
    BY <2>5, <2>7, ThenGives DEF Keeps
  <2>9. "overlay" \in Free BY DEF Free, Plain
  <2>10. Keeps(k, Unless("harbor", Have, GitOverlay)) BY <1>2, <2>9, FreeGives, UnlessKeeps DEF GitOverlay
  <2>11. Keeps(k, Await("harbor", Have)) /\ Keeps(k, Await("harbor", Settled)) BY <1>2, LookKeeps
  <2> QED BY <1>2, <2>8, <2>10, <2>11, KeepsThen, UnlessKeeps DEF GitHarbor
<1>4. Gives(k, {"workload"}, GitInstallExtensions \o GitHarbor, {"workContour"})
  <2>1. Gives(k, {"workload"}, GitInstallExtensions, {"workContour"}) BY <1>0, GitInstallGives, LessGives
  <2> QED BY <2>1, <1>3, GivesKept
<1>5. Gives(k, {"workload"}, GitInstallExtensions \o GitHarbor \o GitTkgsMonitoring("prometheus"), {})
  BY <1>4, WorkPackageGives, ThenGives, LessGives DEF GitTkgsMonitoring
<1>6. Gives(k, {"workload"}, GitInstallExtensions \o GitHarbor \o GitTkgsMonitoring("prometheus")
                               \o GitTkgsMonitoring("grafana"), {})
  BY <1>5, WorkPackageGives, ThenGives DEF GitTkgsMonitoring
<1>7. Gives(k, {"workload"}, Unless("fluent", GitFluentBitThere, GitFluentBitPackage), {})
  <2>1. Gives(k, {"workload"}, GitFluentBitPackage, {}) BY FluentGives, LessGives
  <2> QED BY <1>2, <2>1, UnlessGives
<1>8. Gives(k, {"workload"}, GitTkgsPackages, {}) BY <1>6, <1>7, ThenGives DEF GitTkgsPackages
<1>9. Gives(k, {}, GitPlugin \o GitTkgsReadied, {"workload"})
  <2>1. Keeps(k, GitPlugin) BY SupervisorGives DEF GitPlugin
  <2>2. Gives(k, {}, GitTkgsReadied, {"workload"}) BY ReadiedGives, LessGives
  <2> QED BY <2>1, <2>2, GivesKept
<1> QED BY <1>8, <1>9, ThenGives DEF GitTkgsExtensions, Keeps

\* WCP is restarted at any time; no other stage can stop it where it must go on.
LEMMA WcpGives ==
  ASSUME NEW k \in Kinds
  PROVE  /\ Keeps(k, Remove("wcpDown"))
         /\ ~ k.whole => Keeps(k, Set("wcpDown"))
<1>1. "wcpDown" \in Things /\ "wcpDown" \in Concerned(k.setup) BY CommonThings, CommonConcerned DEF Common
<1>2. Solid("wcpDown") = Lives["wcpDown"] BY DEF Solid, Controllers, Loose, Engines
<1>3. Lives["wcpDown"] = {"none", "there"}
  BY <1>1, StatesOf DEF Controllers, Engines, Clusters, Supervisor, Files, Packages, OnShared, OnWorkload, VcdVars
<1>4. Needs(k, "wcpDown") = {} BY DEF Needs, Engines, Dependents
<1>5. ASSUME NEW w \in Known(k, {}), NEW v \in {"none", "there"}, ~ k.whole \/ v = "none"
      PROVE  Upholds(k, w, "wcpDown", v)
  <2>1. w \in [Concerned(k.setup) -> States] BY DEF Known, Sound
  <2>2. ASSUME NEW r \in Pledges(k), Met(r, w) PROVE Met(r, [w EXCEPT !["wcpDown"] = v])
    <3>1. r = "shut" => v = "none" BY <1>5 DEF Pledges
    <3>2. \A y : y # "wcpDown" => [w EXCEPT !["wcpDown"] = v][y] = w[y] BY <2>1
    <3>3. [w EXCEPT !["wcpDown"] = v]["wcpDown"] = v BY <1>1, <2>1
    <3> QED BY <2>2, <3>1, <3>2, <3>3 DEF Met
  <2> QED BY <2>2 DEF Upholds
<1>6. Gives(k, {}, Put("wcpDown", "none"), {}) BY <1>1, <1>2, <1>3, <1>4, <1>5, PutHolds
<1>7. ~ k.whole => Gives(k, {}, Put("wcpDown", "there"), {}) BY <1>1, <1>2, <1>3, <1>4, <1>5, PutHolds
<1> QED BY <1>6, <1>7 DEF Remove, Set, Keeps

\* wcp_shutdown, wcp_bringup: what is off goes on bearing.
LEMMA PowerKeeps ==
  ASSUME NEW k \in Kinds
  PROVE  /\ ~ k.whole /\ k.setup = "tkgs" => Keeps(k, WcpShutdown)
         /\ Keeps(k, WcpBringup) /\ Gives(k, {}, WcpBringup, {"superRuns"})
<1>1. "wcpManual" \in Free /\ "wcpDown" \in Common BY CommonThings DEF Free, Plain
<1>2. Keeps(k, Need("wcpDown", {"none"})) BY <1>1, LookKeeps
<1>3. Keeps(k, Need("super", Deployed)) BY CommonThings, LookKeeps DEF Supervisor
<1>4. ~ k.whole /\ k.setup = "tkgs" => Keeps(k, WcpShutdown)
  BY <1>1, <1>2, <1>3, SupervisorGives, FreeGives, WcpGives, ShutDownGives, KeepsThen
     DEF WcpShutdown, WcpAnswers, WcpLogin, StopWcp
<1>5. Gives(k, {}, WcpBringup, {"superRuns"}) BY WcpGives, SupervisorGives, GivesKept DEF WcpBringup, RestartWcp
<1> QED BY <1>4, <1>5, LessGives DEF Keeps

\* Where nothing is to be kept it makes no difference whether the whole is pledged.
LEMMA HalfSound ==
  ASSUME NEW k \in Kinds, k.kept = {}, NEW l, l = [k EXCEPT !.whole = FALSE]
  PROVE  /\ l \in Kinds /\ ~ l.whole /\ l.setup = k.setup /\ l.mode = k.mode /\ l.kept = {}
         /\ Sound(l) = Sound(k)
<1>1. l \in Kinds /\ ~ l.whole /\ l.setup = k.setup /\ l.mode = k.mode /\ l.kept = {} BY DEF Kinds
<1>2. Sound(l) = Sound(k)
  <2>1. \A x : Needs(l, x) = Needs(k, x) BY <1>1 DEF Needs, PoolOf, OnGuest, Before, InPipeline, Orchestrating
  <2>2. \A x : Powers(l, x) <=> Powers(k, x) BY <1>1 DEF Powers, Orchestrating
  <2>3. \A w : Bears(l, {}, w) /\ Bears(k, {}, w) BY DEF Bears
  <2> DEFINE G(w) == /\ w \in [Concerned(k.setup) -> States]
                     /\ \A x \in Concerned(k.setup) :
                          /\ w[x] \in Lives[x] /\ (w[x] \in {"off", "on"} => Powers(k, x))
                          /\ w[x] # "none" => \A y \in Needs(k, x) : w[y] \in Solid(y)
                     /\ Profiled(w)
  <2>4. \A w : w \in Sound(k) <=> G(w) BY <2>3 DEF Sound
  <2>5. \A w : w \in Sound(l) <=> G(w) BY <1>1, <2>1, <2>2, <2>3 DEF Sound
  <2> HIDE DEF G
  <2> QED BY <2>4, <2>5
<1> QED BY <1>1, <1>2

\* wcp_shutdown: once WCP is stopped what is turned off stays so.
LEMMA ShutdownLeads ==
  ASSUME NEW k \in Kinds, k.setup = "tkgs", k.kept = {}
  PROVE  IsProgram(WcpShutdown) /\ Leads(k, Known(k, {}), WcpShutdown, Known(k, {"shut"}))
<1> DEFINE l == [k EXCEPT !.whole = FALSE]
<1>1. l \in Kinds /\ ~ l.whole /\ l.setup = k.setup /\ l.mode = k.mode /\ l.kept = {} BY HalfSound
<1>2. Sound(l) = Sound(k) BY HalfSound
<1> HIDE DEF l
<1>3. \A x \in {"super", "workload", "wcpDown"} : x \in Concerned(k.setup) /\ x \in Things
  BY CommonThings, CommonConcerned DEF Supervisor, Clusters, Common
<1>4. Solid("super") = Deployed \cup {"off"} BY DEF Solid, Controllers, Loose, Engines, Files, VcdVars
<1>5. Lives["super"] = {"none", "creating", "serving", "running", "broken", "off"}
      /\ Lives["workload"] = {"none", "creating", "serving", "running", "broken", "off"}
  BY <1>3, StatesOf DEF Clusters, Supervisor
<1>6. \A w \in Sound(k) : w \in [Concerned(k.setup) -> States] BY DEF Sound
<1> DEFINE S == {"none", "broken", "off"}
           P1 == Known(k, {"super"})
           P2 == With(k, {"super"}, "wcpDown", {"there"})
           P3 == {w \in Sound(k) : w["super"] = "off" /\ w["wcpDown"] = "there"}
           Q == Known(k, {"shut"})
           p == WcpAnswers \o WcpLogin
<1>8. ASSUME NEW w \in Sound(k), NEW x \in {"super", "workload"}, w[x] # "none"
      PROVE  [w EXCEPT ![x] = "off"] \in Sound(k)
  <2>1. Upholds(l, w, x, "off") BY <1>1, <1>6, <1>8, UpholdsShutDown
  <2>2. x = "workload" => "off" \in Solid(x) BY DEF Solid, Controllers, Loose, Engines, Files, VcdVars, Started
  <2>3. [w EXCEPT ![x] = "off"] \in Sound(l)
    BY <1>1, <1>2, <1>3, <1>4, <1>5, <1>8, <2>1, <2>2, ChangeSound
  <2> QED BY <1>2, <2>3
<1>9. ASSUME NEW w \in P1 PROVE [w EXCEPT !["wcpDown"] = "there"] \in P2
  <2>1. w \in Sound(k) /\ w \in Known(l, {}) BY <1>2 DEF Known, Bears
  <2>2. Lives["wcpDown"] = {"none", "there"}
    BY <1>3, StatesOf DEF Controllers, Engines, Clusters, Supervisor, Files, Packages, OnShared, OnWorkload, VcdVars
  <2>3. Solid("wcpDown") = Lives["wcpDown"] BY DEF Solid, Controllers, Loose, Engines
  <2>4. Needs(l, "wcpDown") = {} BY DEF Needs, Engines, Dependents
  <2>5. w \in [Concerned(k.setup) -> States] BY <1>6, <2>1
  <2>6. \A y : y # "wcpDown" => [w EXCEPT !["wcpDown"] = "there"][y] = w[y] BY <2>5
  <2>7. [w EXCEPT !["wcpDown"] = "there"]["wcpDown"] = "there" BY <1>3, <2>5
  <2>8. Upholds(l, w, "wcpDown", "there")
    <3>1. ASSUME NEW r \in Pledges(l), Met(r, w) PROVE Met(r, [w EXCEPT !["wcpDown"] = "there"])
      <4>1. r # "shut" BY <1>1 DEF Pledges
      <4> QED BY <3>1, <4>1, <2>6 DEF Met
    <3> QED BY <3>1 DEF Upholds
  <2>9. [w EXCEPT !["wcpDown"] = "there"] \in Sound(l)
    BY <1>1, <1>2, <1>3, <2>1, <2>2, <2>3, <2>4, <2>8, ChangeSound
  <2>10. "super" \in Bearing(k) BY CommonThings, CommonBears DEF Supervisor
  <2>11. w["super"] \in Solid("super") BY <2>10 DEF P1, Known, Bears
  <2>12. "super" \notin Pledges(k) BY ThingsNoPledges, <1>3
  <2>13. Bears(k, {"super"}, [w EXCEPT !["wcpDown"] = "there"]) BY <2>6, <2>11, <2>12 DEF Bears
  <2> QED BY <1>2, <2>7, <2>9, <2>13 DEF P2, With, Known
<1>10. Gives(k, {}, p, {"super"})
  <2>1. "wcpDown" \in Common BY CommonThings
  <2>2. Keeps(k, Need("wcpDown", {"none"})) BY <2>1, LookKeeps
  <2>3. Gives(k, {}, WcpAnswers, {"super"}) BY <2>2, SupervisorGives, GivesKept DEF WcpAnswers
  <2> QED BY <2>3, SupervisorGives, GivesKept DEF WcpLogin
<1>11. IsProgram(p) /\ Leads(k, Known(k, {}), p, P1) BY <1>10 DEF Gives, P1
<1>12. IsProgram(Set("wcpDown")) /\ Leads(k, P1, Set("wcpDown"), P2)
  <2> DEFINE c == [op |-> "put", x |-> "wcpDown", states |-> {"there"}, calls |-> <<>>]
  <2>1. c.op = "put" /\ c.x = "wcpDown" /\ c.states = {"there"} /\ Set("wcpDown") = <<c>> BY DEF Set, Put, Call
  <2>2. TargetOf(c) = "there" BY <2>1, TargetIs
  <2>3. \A v \in P1 : \A w : Does(c, v, w) => w \in P2 BY <1>9, <2>1, <2>2 DEF Does
  <2>4. P1 \subseteq Sound(k) /\ Lasts(k, P1) BY KnownLasts DEF P1
  <2>5. c.op \in Plainly \ {"try"} BY <2>1 DEF Plainly
  <2> HIDE DEF c, P1, P2
  <2>6. Leads(k, P1, <<c>>, P2) BY <1>3, <2>1, <2>3, <2>4, <2>5, PlainLeads
  <2> QED BY <2>1, <2>6, CallProgram DEF Set, Put
<1>13. IsProgram(ShutDown("super")) /\ Leads(k, P2, ShutDown("super"), P3)
  <2> DEFINE c == [op |-> "put", x |-> "super", states |-> {"off"}, calls |-> <<>>]
  <2>1. c.op = "put" /\ c.x = "super" /\ c.states = {"off"} /\ Put("super", "off") = <<c>> BY DEF Put, Call
  <2>2. TargetOf(c) = "off" BY <2>1, TargetIs
  <2>3. "super" \in Bearing(k) BY CommonThings, CommonBears DEF Supervisor
  <2>4. \A v \in P2 : v \in Sound(k) /\ v["super"] \in Deployed \cup {"off"} /\ v["wcpDown"] = "there"
    BY <1>4, <2>3 DEF P2, With, Known, Bears
  <2>5. \A v \in P2 : \A w : Does(c, v, w) => w \in P3
    <3> TAKE v \in P2
    <3> TAKE w
    <3> HAVE Does(c, v, w)
    <3>1. w = [v EXCEPT !["super"] = "off"] BY <2>1, <2>2 DEF Does
    <3>2. v \in [Concerned(k.setup) -> States] BY <1>6, <2>4
    <3>3. v["super"] # "none" BY <2>4 DEF Deployed
    <3>4. w \in Sound(k) BY <1>8, <2>4, <3>1, <3>3
    <3> QED BY <1>3, <2>4, <3>1, <3>2, <3>4 DEF P3
  <2>6. Stays("wcpDown", {"there"})
    BY DEF Stays, Turns, Controllers, Engines, Clusters, Supervisor, Packages, OnShared, OnWorkload
  <2>7. P2 \subseteq Sound(k) /\ Lasts(k, P2) BY <1>3, <2>6, WithLasts DEF P2
  <2>8. \A v \in P2 : v["super"] \in S => v \in P3 BY <2>4 DEF P3, S, Deployed
  <2>9. c.op \in Plainly \ {"try"} BY <2>1 DEF Plainly
  <2>10. IsProgram(Put("super", "off")) BY CallProgram DEF Put
  <2> HIDE DEF c, P2, P3, S
  <2>11. Leads(k, P2, <<c>>, P3) BY <1>3, <2>1, <2>5, <2>7, <2>9, PlainLeads
  <2>12. Leads(k, P2, Unless("super", S, Put("super", "off")), P3)
    BY <1>3, <2>1, <2>7, <2>8, <2>10, <2>11, UnlessLeads
  <2> QED BY <2>12, CallProgram DEF ShutDown, Unless, S
<1>14. IsProgram(ShutDown("workload")) /\ Leads(k, P3, ShutDown("workload"), Q)
  <2> DEFINE c == [op |-> "put", x |-> "workload", states |-> {"off"}, calls |-> <<>>]
             U == {w \in P3 : w["workload"] # "none"}
  <2>1. c.op = "put" /\ c.x = "workload" /\ c.states = {"off"} /\ Put("workload", "off") = <<c>> BY DEF Put, Call
  <2>2. TargetOf(c) = "off" BY <2>1, TargetIs
  <2>3. ASSUME NEW w \in P3, w["workload"] \in S PROVE w \in Q
    <3>1. Met("shut", w) BY <2>3 DEF P3, S, Met
    <3>2. "shut" \notin Bearing(k)
      BY DEF Bearing, Concerned, Things, Plain, Pushed, Files, Director, VcdVars, Packages,
             OnShared, OnWorkload, Controllers, Engines, Clusters, Supervisor
    <3> QED BY <3>1, <3>2 DEF P3, Q, Known, Bears
  <2>4. P3 \subseteq Sound(k) BY DEF P3
  <2>5. ASSUME NEW v \in P3, NEW w, Shifts(k, v, w)
        PROVE  w \in P3 /\ (v["workload"] # "none" => w["workload"] # "none")
    <3>1. v \in Sound(k) /\ v \in Known(k, {}) BY DEF P3, Known, Bears
    <3>2. w \in Sound(k)
      <4>1. w \in Known(k, {}) BY <2>5, <3>1, ShiftKnown
      <4> QED BY <4>1 DEF Known
    <3>3. PICK x \in Concerned(k.setup), b \in States :
             /\ Turns(x, v[x], b) /\ w = [v EXCEPT ![x] = b]
             /\ x = "super" /\ v[x] = "off" => v["wcpDown"] = "none"
      BY <2>5 DEF Shifts
    <3>4. x # "super" BY <3>3 DEF P3
    <3>5. x # "wcpDown"
      BY <3>3 DEF Turns, Controllers, Engines, Clusters, Supervisor, Packages, OnShared, OnWorkload
    <3>6. v \in [Concerned(k.setup) -> States] BY <1>6, <3>1
    <3>7. x = "workload" => b # "none"
      BY <3>3 DEF Turns, Controllers, Engines, Clusters, Supervisor, Packages, OnShared, OnWorkload
    <3>8. w["workload"] = IF x = "workload" THEN b ELSE v["workload"] BY <1>3, <3>3, <3>6
    <3>9. w["super"] = v["super"] /\ w["wcpDown"] = v["wcpDown"] BY <1>3, <3>3, <3>4, <3>5, <3>6
    <3>10. w \in P3 BY <3>2, <3>9 DEF P3
    <3> QED BY <3>7, <3>8, <3>10
  <2>6. Lasts(k, P3) /\ Lasts(k, U) BY <2>5 DEF Lasts, U
  <2>7. \A v \in U : \A w : Does(c, v, w) => w \in Q
    <3> TAKE v \in U
    <3> TAKE w
    <3> HAVE Does(c, v, w)
    <3>1. w = [v EXCEPT !["workload"] = "off"] BY <2>1, <2>2 DEF Does
    <3>2. v \in Sound(k) /\ v \in [Concerned(k.setup) -> States] /\ v["workload"] # "none"
      BY <1>6, <2>4 DEF U
    <3>3. w \in Sound(k) BY <1>8, <3>1, <3>2
    <3>4. w["workload"] = "off" /\ w["super"] = v["super"] /\ w["wcpDown"] = v["wcpDown"] BY <1>3, <3>1, <3>2
    <3>5. w \in P3 BY <3>3, <3>4 DEF U, P3
    <3> QED BY <2>3, <3>4, <3>5 DEF S
  <2>8. c.op \in Plainly \ {"try"} BY <2>1 DEF Plainly
  <2>9. IsProgram(Put("workload", "off")) BY CallProgram DEF Put
  <2>10. U \subseteq Sound(k) BY <2>4 DEF U
  <2>11. \A v \in P3 : v["workload"] \notin S => v \in U BY DEF U, S
  <2>12. ShutDown("workload") = Unless("workload", S, Put("workload", "off")) BY DEF ShutDown, S
  <2>13. \A v \in P3 : v["workload"] \in S => v \in Q BY <2>3
  <2> HIDE DEF c, P3, S, U, Q
  <2>14. Leads(k, U, <<c>>, Q) BY <1>3, <2>1, <2>6, <2>7, <2>8, <2>10, PlainLeads
  <2>15. Leads(k, P3, Unless("workload", S, Put("workload", "off")), Q)
    BY <1>3, <2>1, <2>4, <2>6, <2>9, <2>11, <2>13, <2>14, UnlessLeads
  <2> QED BY <2>12, <2>15, CallProgram DEF Unless
<1>15. WcpShutdown = p \o (Set("wcpManual") \o Set("wcpDown")) \o ShutDown("super") \o ShutDown("workload")
  BY DEF WcpShutdown, StopWcp
<1>16. IsProgram(Set("wcpManual")) /\ Leads(k, P1, Set("wcpManual"), P1)
  <2>1. "wcpManual" \in Free BY DEF Free, Plain
  <2>2. Gives(k, {}, Set("wcpManual"), {}) BY <2>1, FreeGives DEF Keeps
  <2>3. {"super"} \cup {} = {"super"} OBVIOUS
  <2>4. Leads(k, Known(k, {"super"}), Set("wcpManual"), Known(k, {"super"} \cup {})) BY <2>2 DEF Gives
  <2> QED BY <2>2, <2>3, <2>4 DEF Gives, P1
<1> HIDE DEF p, P1, P2, P3, Q, S
<1>17. IsProgram(Set("wcpManual") \o Set("wcpDown")) /\ Leads(k, P1, Set("wcpManual") \o Set("wcpDown"), P2)
  BY <1>12, <1>16, ThenLeads, JoinProgram
<1>18. /\ IsProgram(p \o (Set("wcpManual") \o Set("wcpDown")))
       /\ Leads(k, Known(k, {}), p \o (Set("wcpManual") \o Set("wcpDown")), P2)
  BY <1>11, <1>17, ThenLeads, JoinProgram
<1>19. /\ IsProgram(p \o (Set("wcpManual") \o Set("wcpDown")) \o ShutDown("super"))
       /\ Leads(k, Known(k, {}), p \o (Set("wcpManual") \o Set("wcpDown")) \o ShutDown("super"), P3)
  BY <1>13, <1>18, ThenLeads, JoinProgram
<1>20. /\ IsProgram(WcpShutdown) /\ Leads(k, Known(k, {}), WcpShutdown, Q)
  BY <1>14, <1>15, <1>19, ThenLeads, JoinProgram
<1> QED BY <1>20 DEF Q

-----------------------------------------------------------------------------
(* The tasks of a pipeline.                                                *)

\* Attempts joined in one order are those joined in the other.
LEMMA TriesJoined ==
  ASSUME NEW k, NEW p, NEW q, NEW r, IsProgram(p), IsProgram(q), IsProgram(r),
         Tries(k, {}, p \o (q \o r))
  PROVE  Tries(k, {}, (p \o q) \o r)
<1>1. (p \o q) \o r = p \o (q \o r) BY JoinAssoc
<1> QED BY <1>1

\* Attempts made one after the other may be written down in two ways.
LEMMA SixJoined ==
  ASSUME NEW k, NEW a, NEW b, NEW c, NEW d, NEW e, NEW f,
         IsProgram(a), IsProgram(b), IsProgram(c), IsProgram(d), IsProgram(e), IsProgram(f),
         Tries(k, {}, a \o (b \o (c \o (d \o (e \o f)))))
  PROVE  Tries(k, {}, a \o b \o c \o (d \o e) \o f)
<1>1. ASSUME NEW p, NEW q, NEW r, IsProgram(p), IsProgram(q), IsProgram(r), Tries(k, {}, p \o (q \o r))
      PROVE  Tries(k, {}, (p \o q) \o r)
  BY <1>1, TriesJoined
<1>2. IsProgram(e \o f) /\ IsProgram(d \o e) /\ IsProgram(a \o b) BY JoinProgram
<1>3. IsProgram(d \o (e \o f)) /\ IsProgram(a \o b \o c) BY <1>2, JoinProgram
<1>4. IsProgram(c \o (d \o (e \o f))) BY <1>3, JoinProgram
<1>5. Tries(k, {}, (a \o b) \o (c \o (d \o (e \o f)))) BY <1>1, <1>4
<1>6. Tries(k, {}, ((a \o b) \o c) \o (d \o (e \o f))) BY <1>1, <1>2, <1>3, <1>5
<1>7. PICK abc : abc = a \o b \o c OBVIOUS
<1>8. PICK de : de = d \o e OBVIOUS
<1>9. Tries(k, {}, abc \o (de \o f))
  <2>1. (d \o e) \o f = d \o (e \o f) BY JoinAssoc
  <2>2. Tries(k, {}, abc \o (d \o (e \o f))) BY <1>6, <1>7
  <2>3. Tries(k, {}, abc \o ((d \o e) \o f)) BY <2>1, <2>2
  <2> QED BY <1>8, <2>3
<1>10. Tries(k, {}, (abc \o de) \o f) BY <1>1, <1>2, <1>3, <1>7, <1>8, <1>9
<1> QED BY <1>7, <1>8, <1>10

\* configure_avi_nsxt_config: where it is tried, the rules are left out unless their
\* segments and groups could be made.
LEMMA GitNetworkKeeps ==
  ASSUME NEW k \in Kinds
  PROVE  Keeps(k, GitNetwork("ensure")) /\ Keeps(k, GitNetwork("try")) /\ Keeps(k, GitWorkNetwork)
<1>1. /\ "segments" \in Free /\ "groups" \in Free /\ "services" \in Free /\ "policy" \in Free
      /\ "defaultRule" \in Free /\ "workSegment" \in Free /\ "workNsxGroup" \in Free /\ "workRules" \in Free
  BY DEF Free, Plain
<1>2. "rules" \in Concerned(k.setup) BY CommonThings, CommonConcerned
<1>3. Needs(k, "rules") = {"segments", "groups"} BY DEF Needs, Engines, Dependents
<1>4. "there" \in Solid("rules") BY DEF Solid, Controllers, Loose, Engines, Files, VcdVars, Have
<1>5. Keeps(k, GitNetwork("ensure"))
  <2>1. \A x : Each("ensure", x) = Ensure(x) BY DEF Each, Ensure
  <2>2. Gives(k, {}, Ensure("segments"), {"segments"}) /\ Gives(k, {}, Ensure("groups"), {"groups"})
    BY <1>1, FreeGives
  <2>3. /\ Keeps(k, Ensure("services")) /\ Keeps(k, Ensure("policy")) /\ Keeps(k, Ensure("defaultRule"))
    BY <1>1, FreeGives
  <2>4. Gives(k, {}, Ensure("segments") \o Ensure("groups"), {"segments", "groups"}) BY <2>2, ThenGives
  <2>5. Gives(k, {}, Ensure("segments") \o Ensure("groups") \o Ensure("services"), {"segments", "groups"})
    BY <2>3, <2>4, GivesKept
  <2>6. Gives(k, {"segments", "groups"}, Ensure("rules"), {}) BY <1>2, <1>3, <1>4, EnsureGives
  <2>7. Gives(k, {"segments", "groups"}, Ensure("policy") \o Ensure("rules"), {}) BY <2>3, <2>6, GivesKept
  <2>8. Keeps(k, Ensure("segments") \o Ensure("groups") \o Ensure("services") \o (Ensure("policy") \o Ensure("rules")))
    BY <2>5, <2>7, ThenGives DEF Keeps
  <2>9. Keeps(k, Ensure("segments") \o Ensure("groups") \o Ensure("services") \o (Ensure("policy") \o Ensure("rules"))
                   \o Ensure("defaultRule"))
    BY <2>3, <2>8, KeepsThen
  <2> QED BY <2>1, <2>9 DEF GitNetwork, GitSegments, GitGroups, GitServices, GitRules, GitDefaultRule
<1>6. Keeps(k, GitNetwork("try"))
  <2>2. \A x \in Free : x \in Concerned(k.setup) /\ Needs(k, x) = {} /\ "there" \in Solid(x) BY FreeThings
  <2> DEFINE a == Try("segments")
             b == Try("groups")
             c == Try("services")
             d == Try("policy")
             e == Try("rules")
             f == Try("defaultRule")
  <2>3. /\ IsProgram(a) /\ IsProgram(b) /\ IsProgram(c) /\ IsProgram(d) /\ IsProgram(e) /\ IsProgram(f)
    BY CallProgram DEF Try
  <2>4. Tries(k, {}, a \o (b \o (c \o (d \o (e \o f)))))
    <3>1. Tries(k, {"segments", "groups", "services", "policy", "rules"}, f) BY <1>1, <2>2, TriesGive
    <3>2. Tries(k, {"segments", "groups", "services", "policy"} \cup {"rules"}, f)
      <4>1. {"segments", "groups", "services", "policy"} \cup {"rules"}
              = {"segments", "groups", "services", "policy", "rules"}
        OBVIOUS
      <4> QED BY <3>1, <4>1
    <3>3. Tries(k, {"segments", "groups", "services", "policy"}, e \o f)
      <4>1. Needs(k, "rules") \subseteq {"segments", "groups", "services", "policy"} BY <1>3
      <4> QED BY <1>2, <1>4, <3>2, <4>1, TriesGive
    <3>4. {"segments", "groups", "services"} \cup {"policy"} = {"segments", "groups", "services", "policy"}
      OBVIOUS
    <3>5. Tries(k, {"segments", "groups", "services"}, d \o (e \o f)) BY <1>1, <2>2, <3>3, <3>4, TriesGive
    <3>6. {"segments", "groups"} \cup {"services"} = {"segments", "groups", "services"} OBVIOUS
    <3>7. Tries(k, {"segments", "groups"}, c \o (d \o (e \o f))) BY <1>1, <2>2, <3>5, <3>6, TriesGive
    <3>8. {"segments"} \cup {"groups"} = {"segments", "groups"} /\ {} \cup {"segments"} = {"segments"} OBVIOUS
    <3>9. Tries(k, {"segments"}, b \o (c \o (d \o (e \o f)))) BY <1>1, <2>2, <3>7, <3>8, TriesGive
    <3> QED BY <1>1, <2>2, <3>8, <3>9, TriesGive
  <2>5. GitNetwork("try") = a \o b \o c \o (d \o e) \o f
    BY DEF GitNetwork, GitSegments, GitGroups, GitServices, GitRules, GitDefaultRule, Each, Try
  <2> HIDE DEF a, b, c, d, e, f
  <2>6. Tries(k, {}, a \o b \o c \o (d \o e) \o f) BY <2>3, <2>4, SixJoined
  <2> QED BY <2>5, <2>6, TriesKeep
<1>7. Keeps(k, GitWorkNetwork) BY <1>1, FreeGives, KeepsThen DEF GitWorkNetwork
<1> QED BY <1>5, <1>6, <1>7

\* The task of the controllers.
LEMMA GitAlbKeeps ==
  ASSUME NEW k \in Kinds, k.mode # "bare", k.goal = {}
  PROVE  Keeps(k, GitAlb)
<1>1. "aviOva" \in Free /\ "albPool" \in Free /\ "portal" \in Free /\ "c1" \in Common
  BY CommonThings DEF Free, Plain, Pushed, Files, Controllers
<1> DEFINE q == GitControllerOva \o (IF OnVcf THEN GitNetwork("ensure") ELSE <<>>) \o Quit("albPool")
           r == q \o GitController("c1") \o GitConfigure
           s == IF HA THEN GitController("c2") \o GitController("c3") \o GitFormCluster ELSE <<>>
<1>2. Keeps(k, q)
  BY <1>1, FreeGives, GitNetworkKeeps, NothingKeeps, KeepsThen DEF GitControllerOva
<1>3. Gives(k, {}, r, {"c1", "phrase"})
  <2> HIDE DEF q
  <2>1. Gives(k, {}, q \o GitController("c1"), {"c1"})
    BY <1>2, VmcControllerGives, GivesKept DEF Controllers
  <2> QED BY <2>1, ConfigureGives, ThenGives
<1>4. Gives(k, {"c1"}, s, {})
  <2>1. CASE HA
    <3>1. Controllers = {"c1", "c2", "c3"} BY <2>1 DEF Controllers
    <3>2. Gives(k, {}, GitController("c2") \o GitController("c3"), {"c2", "c3"})
      BY <3>1, VmcControllerGives, ThenGives
    <3>3. Gives(k, {"c1"}, GitController("c2") \o GitController("c3"), Controllers)
      BY <3>1, <3>2, LessGives
    <3> QED BY <2>1, <3>3, ClusterFormed, ThenGives
  <2>2. CASE ~HA BY <2>2, NothingGives
  <2> QED BY <2>1, <2>2
<1>5. GitControllers = r \o s \o GitCertificate \o GitReplaceCertificate BY DEF GitControllers
<1>6. Keeps(k, GitControllers)
  <2> HIDE DEF r, s
  <2>1. Gives(k, {}, r \o s, {"phrase"}) BY <1>3, <1>4, ThenGives
  <2>2. Keeps(k, r \o s \o GitCertificate) BY <2>1, CertificateGives, ThenGives DEF GitCertificate, Keeps
  <2> QED BY <1>1, <1>5, <2>2, FreeGives, KeepsThen DEF GitReplaceCertificate
<1>7. Keeps(k, IF OnVcf THEN GitNetwork("try") ELSE <<>>) BY GitNetworkKeeps, NothingKeeps
<1> QED BY <1>1, <1>6, <1>7, UnlessKeeps, KeepsThen DEF GitAlb

\* configTkgsCloud and its profile.
LEMMA GitTkgsConfigGives ==
  ASSUME NEW k \in Kinds, k.setup \in Supervised
  PROVE  Gives(k, {}, GitTkgsConfig, WcpOwn)
<1>1. /\ "defaultCloud" \in Free /\ "inventory" \in Free /\ "mgmtGroup" \in Free /\ "cloudNet" \in Free
  BY DEF Free, Plain
<1>2. Needs(k, "cloud") = {} BY CloudNeeds DEF Supervised
<1>3. Gives(k, {}, GitTkgsCloud, {"cloud"})
  <2>1. Gives(k, {}, Find("defaultCloud") \o Set("cloud"), {"cloud"})
    BY <1>1, <1>2, FreeGives, CloudGives, GivesKept
  <2> QED BY <2>1, CloudGives DEF GitTkgsCloud
<1> DEFINE q == GitLogin \o GitDefaultCloud \o GitTkgsCloud
           r == q \o GitPool("mgmtPool") \o GitCloudNetwork \o GitRoute("route")
<1>4. Gives(k, {}, q, {"cloud"}) BY <1>1, <1>3, FreeGives, LoginKeeps, KeepsThen, GivesKept DEF GitDefaultCloud
<1>5. Gives(k, {}, r, {"cloud", "mgmtPool", "cloudNet", "route"})
  <2> HIDE DEF q
  <2>1. Gives(k, {}, q \o GitPool("mgmtPool"), {"cloud", "mgmtPool"}) BY <1>4, PoolGives, ThenGives
  <2>2. Gives(k, {}, GitCloudNetwork, {"cloudNet"}) BY <1>1, FreeGives DEF GitCloudNetwork
  <2>3. Gives(k, {}, q \o GitPool("mgmtPool") \o GitCloudNetwork, {"cloud", "mgmtPool", "cloudNet"})
    BY <2>1, <2>2, ThenGives
  <2> QED BY <2>3, RouteGives, ThenGives
<1>6. Gives(k, {}, r \o GitPool("vipPool"), {"cloud", "vipPool", "mgmtPool", "cloudNet", "route"})
  <2> HIDE DEF r
  <2> QED BY <1>5, PoolGives, ThenGives
<1>7. Gives(k, {"vipPool", "cloud"}, GitTkgsProfiles, {"cloudIpam", "mgmtGroup", "vipRoute"})
  <2>1. Gives(k, {"vipPool", "cloud"}, GitIpam, {"ipam"}) BY IpamGives, LessGives DEF GitIpam
  <2>2. Gives(k, {"vipPool", "cloud"}, GitIpam \o GitCloudIpam, {"cloudIpam"})
    BY <2>1, CloudGives, ThenGives DEF GitCloudIpam
  <2>3. Gives(k, {}, GitTkgsGroup, {"mgmtGroup"}) BY <1>1, FreeGives, GivesKept DEF GitTkgsGroup, GitNetworkUrl
  <2>4. Gives(k, {"vipPool", "cloud"}, GitIpam \o GitCloudIpam \o GitTkgsGroup, {"cloudIpam", "mgmtGroup"})
    BY <2>2, <2>3, ThenGives
  <2> QED BY <2>4, RouteGives, ThenGives DEF GitTkgsProfiles
<1>8. GitTkgsConfig = r \o GitPool("vipPool") \o GitTkgsProfiles BY DEF GitTkgsConfig
<1> HIDE DEF r
<1> QED BY <1>6, <1>7, <1>8, ThenGives DEF WcpOwn

\* configCloud: the settings that need nothing.
LEMMA GitCloudSettings ==
  ASSUME NEW k \in Kinds
  PROVE  /\ Keeps(k, GitCloudNetwork) /\ Keeps(k, GitDns) /\ Keeps(k, GitTier1) /\ Keeps(k, GitNetworkUrl)
         /\ Keeps(k, GitDhcp) /\ Keeps(k, GitRoutes) /\ Keeps(k, GitEngineGroups) /\ Keeps(k, GitDefaultCloud)
         /\ Gives(k, {}, GitEngineGroups, {"mgmtGroup", "workGroup"}) /\ Gives(k, {}, GitRoutes, {"route"})
         /\ Gives(k, {}, GitWorkGroup, {"workGroup"}) /\ Keeps(k, GitWorkGroup) /\ Gives(k, {}, GitVipPool, {"vipPool"})
         /\ Gives(k, {}, GitKubernetesOva, {"kubeOva"}) /\ Keeps(k, GitKubernetesOva)
         /\ \A x \in {"mgmtFolder", "sharedFolder", "workFolder"} : Gives(k, {}, GitFolder(x), {x}) /\ Keeps(k, GitFolder(x))
<1>1. /\ "cloudNet" \in Free /\ "dns" \in Free /\ "nsxCred" \in Free /\ "inventory" \in Free
      /\ "mgmtDhcp" \in Free /\ "vcenter" \in Free /\ "mgmtGroup" \in Free /\ "workGroup" \in Free
      /\ "defaultCloud" \in Free /\ "vipPool" \in Free /\ "kubeOva" \in Free /\ "mgmtFolder" \in Free
      /\ "sharedFolder" \in Free /\ "workFolder" \in Free
  BY DEF Free, Plain, Pushed, Files
<1>2. Keeps(k, GitCredentials) BY CredentialsGive, LessGives DEF Keeps
<1>3. Keeps(k, Unless("vcenter", Have, GitCredentials \o Set("vcenter")))
  BY <1>1, <1>2, CommonThings, FreeGives, KeepsThen, UnlessKeeps
<1>5. Gives(k, {}, GitManagementGroup, {"mgmtGroup"})
  <2>1. Gives(k, {}, GitNsxtGroup, {"mgmtGroup"}) BY <1>1, <1>3, FreeGives, GivesKept DEF GitNsxtGroup
  <2> QED BY <1>1, <2>1, FreeGives, UnlessHas DEF GitManagementGroup
<1>6. Gives(k, {}, GitWorkGroup, {"workGroup"}) /\ Keeps(k, GitWorkGroup) BY <1>1, FreeGives DEF GitWorkGroup
<1>7. Gives(k, {}, GitEngineGroups, {"mgmtGroup", "workGroup"}) /\ Keeps(k, GitEngineGroups)
  <2>1. Gives(k, {}, GitEngineGroups, {"mgmtGroup", "workGroup"}) BY <1>5, <1>6, ThenGives DEF GitEngineGroups
  <2> QED BY <2>1, LessGives DEF Keeps
<1>8. Gives(k, {}, GitRoutes, {"route"}) /\ Keeps(k, GitRoutes)
  <2>1. Gives(k, {}, GitRoute("route"), {"route"}) BY RouteGives, LessGives
  <2>2. Gives(k, {}, GitRoutes, {"route"}) BY <2>1, RouteGives, GivesKept DEF GitRoutes
  <2> QED BY <2>2, LessGives DEF Keeps
<1>9. Gives(k, {}, GitVipPool, {"vipPool"}) BY <1>1, FreeGives, GivesKept DEF GitVipPool, GitNetworkUrl
<1>10. Gives(k, {}, GitKubernetesOva, {"kubeOva"}) /\ Keeps(k, GitKubernetesOva)
  BY <1>1, FreeGives DEF GitKubernetesOva
<1>11. \A x \in {"mgmtFolder", "sharedFolder", "workFolder"} : Gives(k, {}, GitFolder(x), {x}) /\ Keeps(k, GitFolder(x))
  BY <1>1, FreeGives DEF GitFolder
<1> QED BY <1>1, <1>6, <1>7, <1>8, <1>9, <1>10, <1>11, FreeGives
        DEF GitCloudNetwork, GitDns, GitTier1, GitNetworkUrl, GitDhcp, GitDefaultCloud

\* What configCloud sets up: a cloud that has its profile, its groups, a route and an
\* engine.
GitCloudOwn == {"vipPool", "cloudIpam", "mgmtGroup", "workGroup", "route", "e1"}

\* configCloud
LEMMA GitClusterCloudGives ==
  ASSUME NEW k \in Kinds, setup = k.setup, setup \in {"pipeline", "pipelineVcf"}
  PROVE  Gives(k, {}, GitClusterCloud, {"kubeOva"} \cup GitCloudOwn)
<1>0. Orchestrating(k) /\ FirstOf("mgmt") = "e1" BY DEF Orchestrating, FirstOf
<1>1. Gives(k, {}, GitCloud, {"cloud"})
  <2>1. ~OnVcf => Gives(k, {}, Set("cloud"), {"cloud"})
    <3>1. ~OnVcf => Needs(k, "cloud") = {} BY CloudNeeds DEF OnVcf
    <3> QED BY <3>1, CloudGives
  <2>2. Gives(k, {}, IF OnVcf THEN GitNsxtCloud ELSE Set("cloud"), {"cloud"}) BY <2>1, NsxtCloudGives
  <2> QED BY <2>2, CloudGives DEF GitCloud
<1>2. Gives(k, {"vipPool", "cloud"}, GitProfiles, {"cloudIpam"})
  <2>1. Gives(k, {"vipPool", "cloud"}, GitIpam, {"ipam"}) BY IpamGives, LessGives DEF GitIpam
  <2>2. Keeps(k, IF OnVcf THEN GitDns ELSE <<>>) BY GitCloudSettings, NothingKeeps
  <2>3. Gives(k, {"vipPool", "cloud"}, GitIpam \o (IF OnVcf THEN GitDns ELSE <<>>), {"ipam"})
    BY <2>1, <2>2, GivesKept
  <2> QED BY <2>3, CloudGives, ThenGives DEF GitProfiles, GitCloudIpam
<1>3. Gives(k, {"cloud", "vipPool"}, GitService("mgmt"), {"e1"}) BY <1>0, ServiceGives DEF PoolOf
<1> DEFINE A == {"cloud", "vipPool"}
           B == {"cloud", "vipPool", "cloudIpam"}
           C == {"cloud", "vipPool", "mgmtGroup", "workGroup"}
           D == {"cloud", "vipPool", "cloudIpam", "mgmtGroup", "workGroup"}
           E == {"cloud", "vipPool", "mgmtGroup", "workGroup", "route"}
           F == {"cloud", "vipPool", "cloudIpam", "mgmtGroup", "workGroup", "route"}
<1>4. Gives(k, {}, GitVsphereCloud, GitCloudOwn)
  <2> DEFINE q == GitCloud \o GitPool("mgmtPool") \o GitCloudNetwork \o GitPool("dataPool")
             r == q \o GitVipPool \o GitProfiles
             s == r \o GitNetworkUrl \o GitEngineGroups \o GitDhcp
             t == s \o GitRoutes
  <2>1. Gives(k, {}, q, {"cloud"}) BY <1>1, PoolGives, GitCloudSettings, GivesKept
  <2>2. Gives(k, {}, r, B)
    <3> HIDE DEF q
    <3>1. Gives(k, {}, q \o GitVipPool, A) BY <2>1, GitCloudSettings, ThenGives
    <3> QED BY <3>1, <1>2, ThenGives
  <2>3. Gives(k, {}, s, D)
    <3> HIDE DEF r
    <3>1. Gives(k, {}, r \o GitNetworkUrl, B) BY <2>2, GitCloudSettings, GivesKept
    <3>2. Gives(k, {}, r \o GitNetworkUrl \o GitEngineGroups, D) BY <3>1, GitCloudSettings, ThenGives
    <3> QED BY <3>2, GitCloudSettings, GivesKept
  <2>4. Gives(k, {}, t, F)
    <3> HIDE DEF s
    <3> QED BY <2>3, GitCloudSettings, ThenGives
  <2>5. GitVsphereCloud = t \o GitService("mgmt") BY DEF GitVsphereCloud
  <2> HIDE DEF t
  <2>6. Gives(k, {}, t \o GitService("mgmt"), GitCloudOwn) BY <1>3, <2>4, ThenGives DEF GitCloudOwn
  <2> QED BY <2>5, <2>6
<1>5. Gives(k, {}, GitVcfCloud, GitCloudOwn)
  <2> DEFINE q == GitCloud \o GitNetworkUrl \o GitVipPool
             r == q \o GitEngineGroups \o GitTier1
             s == r \o GitRoutes \o GitPool("mgmtPool")
             t == s \o GitProfiles
  <2>1. Gives(k, {}, q, A)
    <3>1. Gives(k, {}, GitCloud \o GitNetworkUrl, {"cloud"}) BY <1>1, GitCloudSettings, GivesKept
    <3> QED BY <3>1, GitCloudSettings, ThenGives
  <2>2. Gives(k, {}, r, C)
    <3> HIDE DEF q
    <3>1. Gives(k, {}, q \o GitEngineGroups, C) BY <2>1, GitCloudSettings, ThenGives
    <3> QED BY <3>1, GitCloudSettings, GivesKept
  <2>3. Gives(k, {}, s, E)
    <3> HIDE DEF r
    <3>1. Gives(k, {}, r \o GitRoutes, E) BY <2>2, GitCloudSettings, ThenGives
    <3> QED BY <3>1, PoolGives, GivesKept
  <2>4. Gives(k, {}, t, F)
    <3> HIDE DEF s
    <3> QED BY <2>3, <1>2, ThenGives
  <2>5. GitVcfCloud = t \o GitService("mgmt") BY DEF GitVcfCloud
  <2> HIDE DEF t
  <2>6. Gives(k, {}, t \o GitService("mgmt"), GitCloudOwn) BY <1>3, <2>4, ThenGives DEF GitCloudOwn
  <2> QED BY <2>5, <2>6
<1>6. Gives(k, {}, IF OnVcf THEN GitVcfCloud ELSE GitVsphereCloud, GitCloudOwn) BY <1>4, <1>5
<1>7. Gives(k, {}, GitKubernetesOva \o GitLogin \o GitDefaultCloud, {"kubeOva"})
  BY GitCloudSettings, LoginKeeps, GivesKept
<1> QED BY <1>6, <1>7, ThenGives DEF GitClusterCloud

\* configTkgMgmt: this keeps the world well founded even where no guest cluster is
\* supposed to be there.
LEMMA GitManagementGives ==
  ASSUME NEW k \in Kinds, setup = k.setup, setup \in {"pipeline", "pipelineVcf"}
  PROVE  /\ Keeps(k, GitClusterCloud \o GitConfigManagement)
         /\ k.mode # "bare" => Gives(k, {}, GitManagement, {"mgmtMade"})
<1>1. "vipPool" \in Free /\ "dataPool" \in Free BY DEF Free, Plain
<1>2. "mgmt" \in Concerned(k.setup) BY CommonThings, CommonConcerned DEF Clusters
<1>3. \A w \in Sound(k) : w["mgmt"] \in Deployed => Bears(k, {"mgmtMade"}, w)
  <2> TAKE w \in Sound(k)
  <2> HAVE w["mgmt"] \in Deployed
  <2>1. "mgmtMade" \in Pledges(k) /\ Met("mgmtMade", w) BY DEF Pledges, Met, Deployed
  <2> QED BY <2>1, PledgeSeen
<1> DEFINE N == Needs(k, "mgmt")
           q == GitFolder("mgmtFolder") \o GitLogin \o Find(IF OnVcf THEN "vipPool" ELSE "dataPool")
<1>4. Gives(k, N, GitManagementCluster, {"mgmtMade"})
  <2>1. Gives(k, N, Make("mgmt", "creating") \o Watch("mgmt"), {"mgmtMade"}) BY ManagementGives, GivesKept
  <2>2. \A w \in Known(k, N) : w["mgmt"] \in Deployed => Bears(k, {"mgmtMade"}, w) BY <1>3 DEF Known
  <2> HIDE DEF N
  <2> QED BY <1>2, <2>1, <2>2, UnlessSees DEF GitManagementCluster
<1>5. Gives(k, {}, q, {"mgmtFolder"})
  <2>1. Keeps(k, Find(IF OnVcf THEN "vipPool" ELSE "dataPool")) BY <1>1, FreeGives
  <2> QED BY <2>1, GitCloudSettings, LoginKeeps, GivesKept
<1>6. N \subseteq {"kubeOva"} \cup GitCloudOwn \cup {"mgmtFolder"}
  <2>1. Before(k, "mgmt") \subseteq GitCloudOwn BY DEF Before, GitCloudOwn, InPipeline, Pipelines, Supervised
  <2> QED BY <2>1 DEF Needs, Engines, Dependents, GitCloudOwn
<1>7. GitConfigManagement = q \o GitManagementCluster BY DEF GitConfigManagement
<1> HIDE DEF q, N
<1> DEFINE X == {"kubeOva"} \cup GitCloudOwn
<1>8. Gives(k, X, q, {"mgmtFolder"}) BY <1>5, LessGives
<1>9. Gives(k, {}, GitClusterCloud, X) BY GitClusterCloudGives
<1>10. N \subseteq X \cup {"mgmtFolder"} BY <1>6
<1> HIDE DEF X
<1>11. Gives(k, X, q \o GitManagementCluster, {"mgmtMade"}) BY <1>4, <1>8, <1>10, ThenGives
<1>12. Gives(k, {}, GitClusterCloud \o GitConfigManagement, {"mgmtMade"}) BY <1>7, <1>9, <1>11, ThenGives
<1>13. k.mode # "bare" => Gives(k, {}, GitManagement, {"mgmtMade"})
  BY <1>2, <1>3, <1>12, AskSees DEF GitManagement
<1> QED BY <1>12, <1>13, LessGives DEF Keeps

\* A guest cluster of a pipeline: it is made, and waited for.
LEMMA GitGuestGives ==
  ASSUME NEW k \in Kinds, k.mode # "bare", InPipeline(k), NEW c \in {"shared", "workload"}
  PROVE  /\ Gives(k, IF c = "shared" THEN {"mgmt"} ELSE {"mgmt", "workGroup", "workAdc"}, GitCreate(c), {})
         /\ Keeps(k, GitAwait(c)) /\ Keeps(k, GitConnect(c)) /\ c \in Concerned(k.setup)
         /\ Gives(k, {}, GitAwait(c), {RunOf(c)})
         /\ \A w \in Sound(k) : w[c] \in Deployed => Bears(k, {RunOf(c)}, w)
<1>1. c \in Common /\ c \in Concerned(k.setup) BY CommonThings, CommonConcerned DEF Clusters
<1>2. k.setup \in Pipelines /\ k.setup \notin Supervised /\ k.setup # "tkgs"
  BY DEF InPipeline, Pipelines, Supervised
<1>3. Needs(k, c) \subseteq IF c = "shared" THEN {"mgmt"} ELSE {"mgmt", "workGroup", "workAdc"}
  <2>1. Needs(k, c) = OnGuest(k) \cup Before(k, c) BY DEF Needs, Engines, Dependents
  <2>2. OnGuest(k) \subseteq {"mgmt"} BY <1>2 DEF OnGuest
  <2>3. Before(k, c) = IF c = "shared" THEN {} ELSE {"workGroup", "workAdc"} BY DEF Before
  <2> QED BY <2>1, <2>2, <2>3
<1>4. Gives(k, {"mgmt"} \cup Needs(k, c), Make(c, "creating"), {}) /\ Keeps(k, Watch(c))
  <2>1. "mgmt" = IF k.setup \in Supervised THEN "ns" ELSE "mgmt" BY <1>2
  <2> QED BY <1>2, <2>1, GuestGives
<1>5. Gives(k, IF c = "shared" THEN {"mgmt"} ELSE {"mgmt", "workGroup", "workAdc"}, Make(c, "creating"), {})
  BY <1>3, <1>4, LessGives
<1>6. ASSUME NEW w \in Sound(k), w[c] \in Deployed PROVE Bears(k, {RunOf(c)}, w)
  <2>1. RunOf(c) \in Pledges(k) /\ Met(RunOf(c), w) BY <1>2, <1>6 DEF RunOf, Pledges, Met
  <2> QED BY <2>1, PledgeSeen
<1>7. Gives(k, {}, GitAwait(c), {RunOf(c)}) BY <1>1, <1>6, LookSees DEF GitAwait
<1>8. Keeps(k, GitAwait(c)) /\ Keeps(k, GitConnect(c)) BY <1>1, LookKeeps DEF GitAwait, GitConnect
<1>9. Gives(k, IF c = "shared" THEN {"mgmt"} ELSE {"mgmt", "workGroup", "workAdc"}, GitCreate(c), {})
  BY <1>4, <1>5, GivesKept DEF GitCreate
<1> QED BY <1>1, <1>6, <1>7, <1>8, <1>9

\* The configurations of AKO in a pipeline.
LEMMA GitAkoGives ==
  ASSUME NEW k \in Kinds, k.mode # "bare", InPipeline(k)
  PROVE  Gives(k, {}, GitAkoConfig, {"mgmt"}) /\ Gives(k, {}, GitWorkAkoConfig, {"workAdc"})
<1>1. "dataPool" \in Free /\ "vipPool" \in Free /\ "mgmtAko" \in Free BY DEF Free, Plain
<1>2. /\ Gives(k, {"mgmt"}, Set("sharedAdc"), {"sharedAdc"}) /\ Gives(k, {"mgmt"}, Set("workAdc"), {"workAdc"})
      /\ Keeps(k, Remove("sharedAdc"))
  <2>1. "mgmt" = IF k.setup \in Supervised THEN "ns" ELSE "mgmt" BY DEF InPipeline
  <2> QED BY <2>1, GuestGives
<1>3. Keeps(k, Await("mgmtAko", Have)) BY <1>1, CommonThings, LookKeeps
<1>4. Keeps(k, IF OnVcf THEN GitTier1 ELSE Find("dataPool")) BY <1>1, FreeGives, GitCloudSettings
<1> DEFINE q == GitContext \o Await("mgmtAko", Have) \o Remove("sharedAdc") \o GitLogin \o Find("vipPool")
                  \o (IF OnVcf THEN GitTier1 ELSE Find("dataPool"))
           r == GitContext \o Await("mgmtAko", Have) \o Find("vipPool")
<1>5. Gives(k, {}, q, {"mgmt"}) BY <1>1, <1>2, <1>3, <1>4, ManagementGives, LoginKeeps, FreeGives, GivesKept
<1>6. Gives(k, {}, r, {"mgmt"}) BY <1>1, <1>3, ManagementGives, FreeGives, GivesKept
<1>7. GitAkoConfig = q \o Set("sharedAdc") BY DEF GitAkoConfig
<1>8. GitWorkAkoConfig = r \o Set("workAdc") BY DEF GitWorkAkoConfig
<1> HIDE DEF q, r
<1>9. Gives(k, {}, q \o Set("sharedAdc"), {"mgmt"}) BY <1>5, <1>2, ThenGives
<1>10. Gives(k, {}, r \o Set("workAdc"), {"workAdc"}) BY <1>6, <1>2, ThenGives
<1> QED BY <1>7, <1>8, <1>9, <1>10

\* RaSharedClusterWorkflow.deploy
LEMMA GitSharedGives ==
  ASSUME NEW k \in Kinds, k.mode # "bare", InPipeline(k)
  PROVE  Gives(k, {}, GitShared, {"sharedRuns"})
<1>1. "label" \in Free /\ "sharedAko" \in Free BY DEF Free, Plain
<1>2. Keeps(k, GitAkoConfig \o GitCreate("shared")) BY GitAkoGives, GitGuestGives, ThenGives DEF Keeps
<1>3. Keeps(k, Await("sharedAko", Have)) BY <1>1, CommonThings, LookKeeps
<1>4. Keeps(k, GitSharedTags) BY <1>1, <1>3, ManagementGives, FreeGives, GitGuestGives, KeepsThen DEF GitSharedTags
<1>5. Keeps(k, Unless("shared", Deployed, GitAkoConfig \o GitCreate("shared")))
  BY <1>2, CommonThings, UnlessKeeps DEF Clusters
<1>6. Keeps(k, GitKubernetesOva \o GitFolder("sharedFolder") \o GitContext
                 \o Unless("shared", Deployed, GitAkoConfig \o GitCreate("shared")))
  BY <1>5, GitCloudSettings, ManagementGives, KeepsThen
<1>7. Gives(k, {}, GitAwait("shared"), {"sharedRuns"}) BY GitGuestGives DEF RunOf
<1>8. Gives(k, {}, GitSharedCluster, {"sharedRuns"}) BY <1>4, <1>6, <1>7, GivesKept DEF GitSharedCluster
<1>9. \A w \in Sound(k) : w["shared"] \in Deployed => Bears(k, {"sharedRuns"}, w) BY GitGuestGives DEF RunOf
<1> QED BY <1>8, <1>9, GitGuestGives, AskSees DEF GitShared

\* RaWorkloadClusterWorkflow.deploy, after networkConfig.
LEMMA GitWorkloadGives ==
  ASSUME NEW k \in Kinds, k.mode # "bare", InPipeline(k)
  PROVE  Gives(k, {}, GitWorkload, {"workRuns"})
<1>1. /\ "mgmtAko" \in Free /\ "workSegment" \in Free /\ "workGroup" \in Free /\ "ipamWork" \in Free
      /\ "ipam" \in Common
  BY CommonThings DEF Free, Plain
<1>2. Gives(k, {}, Find("workGroup"), {"workGroup"}) /\ Gives(k, {}, GitWorkGroup, {"workGroup"})
  BY <1>1, FreeGives DEF GitWorkGroup
<1>3. Gives(k, {}, Find("cloud"), {"cloud"}) BY CloudGives
<1> DEFINE W == {"workGroup", "workAdc"}
<1>4. Gives(k, {"cloud"}, GitVcfWorkload, W)
  <2> DEFINE q == Find("workGroup") \o GitVipPool \o GitRoute("route")
             r == q \o GitWorkAkoConfig \o GitTier1 \o GitRoute("vipRoute")
  <2>1. Gives(k, {}, q, {"vipPool", "workGroup"})
    <3>1. Gives(k, {}, Find("workGroup") \o GitVipPool, {"vipPool", "workGroup"})
      BY <1>2, GitCloudSettings, ThenGives
    <3> QED BY <3>1, RouteGives, GivesKept
  <2>2. Gives(k, {}, r, {"vipPool", "workGroup", "workAdc"})
    <3> HIDE DEF q
    <3>1. Gives(k, {}, q \o GitWorkAkoConfig, {"vipPool", "workGroup", "workAdc"})
      BY <2>1, GitAkoGives, ThenGives
    <3> QED BY <3>1, RouteGives, GitCloudSettings, GivesKept
  <2>3. GitVcfWorkload = r \o GitService("work") BY DEF GitVcfWorkload
  <2> HIDE DEF r
  <2>4. Gives(k, {"cloud"}, r, {"vipPool", "workGroup", "workAdc"}) BY <2>2, LessGives
  <2>5. Gives(k, {"cloud", "vipPool"}, GitService("work"), {})
    <3>1. PoolOf(k) = "vipPool" BY DEF PoolOf, InPipeline, Pipelines
    <3> QED BY <3>1, ServiceGives
  <2> QED BY <2>3, <2>4, <2>5, ThenGives
<1>5. Gives(k, {}, GitVsphereWorkload, W)
  <2> DEFINE q == GitNetworkUrl \o GitDataNetworkIpam \o GitWorkGroup \o GitPool("workPool") \o GitRoute("workRoute")
  <2>1. Keeps(k, GitDataNetworkIpam) BY <1>1, LookKeeps, FreeGives, KeepsThen DEF GitDataNetworkIpam
  <2>2. Keeps(k, GitNetworkUrl \o GitDataNetworkIpam) BY <2>1, GitCloudSettings, KeepsThen
  <2>3. Gives(k, {}, GitNetworkUrl \o GitDataNetworkIpam \o GitWorkGroup, {"workGroup"}) BY <1>2, <2>2, GivesKept
  <2>4. Gives(k, {}, q, {"workGroup"}) BY <2>3, PoolGives, RouteGives, GivesKept
  <2>5. GitVsphereWorkload = q \o GitWorkAkoConfig BY DEF GitVsphereWorkload
  <2> HIDE DEF q
  <2> QED BY <2>4, <2>5, GitAkoGives, ThenGives
<1> HIDE DEF W
<1>6. Gives(k, {"cloud"}, IF OnVcf THEN GitVcfWorkload ELSE GitVsphereWorkload, W)
  BY <1>4, <1>5, LessGives
<1>7. Gives(k, {}, GitKubernetesOva \o GitLogin \o Find("cloud"), {"cloud"})
  BY <1>3, GitCloudSettings, LoginKeeps, KeepsThen, GivesKept
<1>8. Gives(k, {}, GitWorkloadConfig, W) BY <1>6, <1>7, ThenGives DEF GitWorkloadConfig
<1> DEFINE q == GitWorkloadConfig \o (IF OnVcf THEN GitWorkNetwork ELSE <<>>) \o GitFolder("workFolder")
           r == q \o GitContext \o GitWorkFolder
<1>9. Gives(k, {}, q, W) BY <1>8, GitNetworkKeeps, NothingKeeps, GitCloudSettings, GivesKept
<1>10. Gives(k, {}, r, {"mgmt"} \cup W)
  <2> HIDE DEF q
  <2>1. Keeps(k, GitWorkFolder) BY <1>1, FreeGives, NothingKeeps DEF GitWorkFolder
  <2>2. Gives(k, {}, q \o GitContext, {"mgmt"} \cup W) BY <1>9, ManagementGives, ThenGives
  <2> QED BY <2>1, <2>2, GivesKept
<1>11. Gives(k, {"mgmt"} \cup W, Unless("workload", Deployed, GitCreate("workload")), {})
  <2>1. Gives(k, {"mgmt", "workGroup", "workAdc"}, GitCreate("workload"), {}) BY GitGuestGives
  <2>2. {"mgmt", "workGroup", "workAdc"} = {"mgmt"} \cup W BY DEF W
  <2> QED BY <2>1, <2>2, GitGuestGives, UnlessGives
<1>12. GitWorkloadCluster = r \o Unless("workload", Deployed, GitCreate("workload"))
                              \o GitAwait("workload") \o GitWorkloadReady
  BY DEF GitWorkloadCluster
<1> HIDE DEF r
<1>13. Keeps(k, r \o Unless("workload", Deployed, GitCreate("workload"))) BY <1>10, <1>11, ThenGives DEF Keeps
<1>14. Keeps(k, Await("mgmtAko", Have)) BY <1>1, CommonThings, LookKeeps
<1>15. Keeps(k, GitWorkloadReady) BY <1>14, ManagementGives, GitGuestGives, KeepsThen DEF GitWorkloadReady
<1>16. Gives(k, {}, GitAwait("workload"), {"workRuns"}) BY GitGuestGives DEF RunOf
<1>17. Gives(k, {}, GitWorkloadCluster, {"workRuns"}) BY <1>12, <1>13, <1>15, <1>16, GivesKept
<1>18. \A w \in Sound(k) : w["workload"] \in Deployed => Bears(k, {"workRuns"}, w) BY GitGuestGives DEF RunOf
<1> QED BY <1>17, <1>18, GitGuestGives, AskSees DEF GitWorkload

\* deploy_tkg_extensions of a pipeline.
LEMMA GitExtensionsKeep ==
  ASSUME NEW k \in Kinds, k.setup \in Pipelines, k.setup \notin Supervised
  PROVE  Keeps(k, GitExtensions)
<1>1. "fluent" \in Common BY CommonThings DEF Packages, OnWorkload
<1>2. Keeps(k, GitRepository)
  <2>1. "workRepo" \in Packages BY DEF Packages, OnWorkload
  <2>2. "workRepo" \in Concerned(k.setup) /\ Solid("workRepo") = Have BY <2>1, PackageSolid
  <2>3. Needs(k, "workRepo") = {} BY PackageNeeds
  <2> QED BY <2>2, <2>3, EnsureGives DEF GitRepository, Have, Keeps
<1>3. Keeps(k, GitOnCluster) BY ClusterLooks, LessGives DEF Keeps
<1>4. Keeps(k, GitFluentBit)
  <2>1. Keeps(k, GitOnCluster \o GitFluentBitPackage) BY ClusterLooks, FluentGives, ThenGives DEF Keeps
  <2> QED BY <1>1, <1>2, <2>1, UnlessKeeps, KeepsThen DEF GitFluentBit
<1>5. Gives(k, {}, GitCertManagerAndContour, {"workContour"})
  <2>1. GitOnCluster = Need("workload", Deployed) \o GitContext \o GitConnect("workload") BY DEF GitOnCluster
  <2>2. Gives(k, {}, GitOnCluster \o GitRepository, {"workload"}) BY <1>2, ClusterLooks, GivesKept
  <2>3. Gives(k, {}, GitOnCluster \o GitRepository \o GitInstallExtensions, {"workContour"})
    BY <2>2, GitInstallGives, ThenGives
  <2> QED BY <2>3 DEF GitCertManagerAndContour, GitOnCluster
<1>6. Keeps(k, GitMonitoring("prometheus"))
  <2>1. Gives(k, {}, GitOnCluster \o GitCertManagerAndContour, {"workContour"}) BY <1>3, <1>5, GivesKept
  <2>2. Keeps(k, GitOnCluster \o GitCertManagerAndContour \o Package("prometheus", Values))
    BY <2>1, WorkPackageGives, ThenGives DEF Keeps
  <2>3. GitMonitoring("prometheus") = GitOnCluster \o GitCertManagerAndContour \o Package("prometheus", GitValues)
    BY DEF GitMonitoring
  <2> QED BY <2>2, <2>3, WorkPackageGives
<1>7. Keeps(k, GitMonitoring("grafana"))
  <2>1. Gives(k, {}, GitOnCluster \o <<>>, {"workload"}) BY ClusterLooks, NothingKeeps, GivesKept
  <2>2. Keeps(k, GitOnCluster \o <<>> \o Package("grafana", Values))
    BY <2>1, WorkPackageGives, ThenGives DEF Keeps
  <2>3. GitMonitoring("grafana") = GitOnCluster \o <<>> \o Package("grafana", GitValues)
    BY DEF GitMonitoring
  <2> QED BY <2>2, <2>3, WorkPackageGives
<1> QED BY <1>4, <1>6, <1>7, KeepsThen DEF GitExtensions

-----------------------------------------------------------------------------
(* Cloud Director.                                                         *)

\* The things of Cloud Director that are there or not.
LEMMA DirectorThings ==
  ASSUME NEW k \in Kinds, k.setup = "vcd"
  PROVE  /\ \A x \in (Director \cup {"cseTemplate", "cseFile"}) \ VcdVars :
              x \in Concerned(k.setup) /\ x \in Things /\ x \in Bearing(k)
         /\ \A x \in (Director \cup {"cseTemplate"}) \ VcdVars :
              /\ Solid(x) = Have /\ "there" \in Solid(x) /\ Lives[x] = {"none", "there"} /\ Stays(x, {"none"})
              /\ x # "vcdCloud" => x \notin Touchy
         /\ \A x \in VcdVars : /\ x \in Concerned(k.setup) /\ x \in Things
                               /\ Lives[x] = {"none", "no", "yes"} /\ Solid(x) = Lives[x] /\ Needs(k, x) = {}
                               /\ Stays(x, {"no"}) /\ Stays(x, {"no", "yes"})
         /\ \A x \in Director \cup {"cseFile"} : \A S : Keeps(k, Need(x, S))
<1>1. \A x \in Director \cup {"cseTemplate", "cseFile"} : x \in Concerned(k.setup) /\ x \in Things /\ x \in Bearing(k)
  BY DEF Concerned, Things, Plain, Pushed, Files, Bearing, Director, VcdVars
<1>2. ASSUME NEW x \in (Director \cup {"cseTemplate"}) \ VcdVars
      PROVE  /\ Solid(x) = Have /\ "there" \in Solid(x) /\ Lives[x] = {"none", "there"} /\ Stays(x, {"none"})
             /\ x # "vcdCloud" => x \notin Touchy
  <2>1. /\ x \notin Controllers /\ x \notin Engines /\ x \notin Clusters \cup Supervisor /\ x \notin Files
        /\ x \notin Packages /\ x \notin VcdVars /\ x \notin {"ha", "ipam", "vs"}
        /\ x \notin {"defaultCloud", "inventory", "placement", "mgmtAko", "sharedAko", "workAko"}
    BY DEF Director, VcdVars, Controllers, Engines, Clusters, Supervisor, Files, Packages, OnShared, OnWorkload
  <2>2. x \notin Loose /\ x \notin {"mgmt", "ns", "super", "shared", "workload", "fluent", "never"}
    BY <2>1 DEF Director, VcdVars, Loose, Clusters, Supervisor
  <2>3. Solid(x) = Have BY <2>1, <2>2 DEF Solid
  <2>4. Lives[x] = {"none", "there"} BY <1>1, <2>1, StatesOf
  <2>5. Stays(x, {"none"})
    <3>1. ASSUME NEW a, NEW b PROVE ~ Turns(x, a, b) BY <2>1 DEF Turns
    <3> QED BY <3>1 DEF Stays
  <2>6. x # "vcdCloud" => x \notin Touchy BY <2>1, <2>2 DEF Director, VcdVars
  <2> QED BY <2>3, <2>4, <2>5, <2>6 DEF Have
<1>3. ASSUME NEW x \in VcdVars
      PROVE  /\ Lives[x] = {"none", "no", "yes"} /\ Solid(x) = Lives[x] /\ Needs(k, x) = {}
             /\ Stays(x, {"no"}) /\ Stays(x, {"no", "yes"})
  <2>1. x \in Director BY DEF Director
  <2>2. Solid(x) = Lives[x] BY DEF Solid, Controllers, Loose, VcdVars
  <2>3. Lives[x] = {"none", "no", "yes"} BY <1>1, <2>1, StatesOf
  <2>4. Needs(k, x) = {} BY DEF Needs, VcdVars, Engines, Dependents
  <2>5. Stays(x, {"no"}) /\ Stays(x, {"no", "yes"})
    BY DEF Stays, Turns, VcdVars, Controllers, Engines, Clusters, Supervisor, Packages, OnShared, OnWorkload
  <2> QED BY <2>2, <2>3, <2>4, <2>5
<1>4. \A x \in Director \cup {"cseFile"} : \A S : Keeps(k, Need(x, S)) BY <1>1, LookGives
<1>5. VcdVars \subseteq Director BY DEF Director
<1> QED BY <1>1, <1>2, <1>3, <1>4, <1>5

\* What rests on what in Cloud Director.
LEMMA DirectorNeeds ==
  ASSUME NEW k \in Kinds, k.setup = "vcd"
  PROVE  /\ Needs(k, "vcdCert") = {} /\ Needs(k, "vcdCtrl") = {"vcdCert"}
         /\ Needs(k, "vcdCloud") = {"cloud", "vcdCtrl"} /\ Needs(k, "vcdSeg") = {"mgmtGroup", "vcdCloud"}
         /\ Needs(k, "edge") = {"vcdSeg", "org", "orgVdc"} /\ Needs(k, "orgNetwork") = {"edge"}
         /\ Needs(k, "org") = {} /\ \A x \in {"cseCatalog", "k8sCatalog", "orgVdc"} : Needs(k, x) = {"org"}
         /\ \A x \in {"keAccess", "capAccess"} : Needs(k, x) = {"org", "keEntity", "capEntity"}
         /\ Needs(k, "vapp") = {"orgNetwork", "cseTemplate", "keConfig", "token"}
         /\ \A x \in {"pluginMeta", "plugin", "keInterface", "keEntity", "capEntity", "cseUser", "keConfig",
                      "keRegistered", "token", "cseTemplate"} : Needs(k, x) = {}
         /\ \A y : "vcdSeg" \in Needs(k, y) => y = "edge"
         /\ \A y : "vcdCloud" \in Needs(k, y) => y = "vcdSeg"
         /\ \A y : "orgNetwork" \in Needs(k, y) => y = "vapp"
BY DEF Needs, PoolOf, Engines, Dependents, OnGuest, Controllers, Before, InPipeline, Orchestrating

\* They can be made, set and found once there is what they rest on.
LEMMA DirectorGives ==
  ASSUME NEW k \in Kinds, k.setup = "vcd", NEW x \in (Director \cup {"cseTemplate"}) \ VcdVars
  PROVE  /\ Gives(k, {}, Find(x), {x}) /\ Keeps(k, Find(x))
         /\ x # "vcdCloud" => /\ Gives(k, Needs(k, x), Set(x), {x}) /\ Gives(k, Needs(k, x), Ensure(x), {x})
                              /\ Gives(k, Needs(k, x), Try(x), {})
         /\ \A X, p : Gives(k, X, p, {x}) => Gives(k, X, Unless(x, Have, p), {x})
         /\ \A X, p : Gives(k, X, p, {}) => Gives(k, X, Unless(x, Have, p), {})
<1>1. /\ x \in Concerned(k.setup) /\ Solid(x) = Have /\ "there" \in Solid(x)
      /\ x # "vcdCloud" => x \notin Touchy
  BY DirectorThings
<1>2. Gives(k, {}, Find(x), {x}) /\ Keeps(k, Find(x)) BY <1>1, LookGives DEF Find
<1>3. x # "vcdCloud" => Gives(k, Needs(k, x), Set(x), {x}) BY <1>1, PutGives DEF Set
<1>4. x # "vcdCloud" => Gives(k, Needs(k, x), Ensure(x), {x}) /\ Gives(k, Needs(k, x), Try(x), {})
  BY <1>1, EnsureGives
<1> QED BY <1>1, <1>2, <1>3, <1>4, UnlessGives

\* What a change means for the cloud that is imported.
LEMMA VcdUpholds ==
  ASSUME NEW k \in Kinds, k.setup = "vcd", NEW w \in Sound(k)
  PROVE  /\ Upholds(k, w, "importCloud", "no") /\ Upholds(k, w, "vcdCloud", "there")
         /\ ~ k.whole => Upholds(k, w, "importCloud", "yes")
         /\ w["importCloud"] # "yes" => Upholds(k, w, "vcdCloud", "none")
<1>1. w \in [Concerned(k.setup) -> States] BY DEF Sound
<1>2. {"importCloud", "vcdCloud"} \subseteq Concerned(k.setup)
  BY DEF Concerned, Things, Director, VcdVars
<1>3. ASSUME NEW x \in {"importCloud", "vcdCloud"}, NEW v, NEW r \in Pledges(k), r # "imported", Met(r, w)
      PROVE  Met(r, [w EXCEPT ![x] = v])
  <2> DEFINE u == [w EXCEPT ![x] = v]
  <2>1. \A y : y \in {"mgmt", "super", "shared", "workload", "e1", "e2", "e3", "e4", "wcpDown"} => u[y] = w[y] BY <1>1
  <2> HIDE DEF u
  <2>2. Met(r, u) BY <1>3, <2>1 DEF Met, Pledges
  <2> QED BY <2>2 DEF u
<1>4. ASSUME NEW x \in {"importCloud", "vcdCloud"}, NEW v \in {"none", "there", "no", "yes"},
             "imported" \in Pledges(k) /\ Met("imported", w) => Met("imported", [w EXCEPT ![x] = v])
      PROVE  Upholds(k, w, x, v)
  BY <1>3, <1>4 DEF Upholds
<1>5. /\ Met("imported", [w EXCEPT !["importCloud"] = "no"])
      /\ Met("imported", w) => Met("imported", [w EXCEPT !["vcdCloud"] = "there"])
      /\ w["importCloud"] # "yes" /\ Met("imported", w) => Met("imported", [w EXCEPT !["vcdCloud"] = "none"])
  BY <1>1, <1>2 DEF Met
<1>6. ~ k.whole => "imported" \notin Pledges(k) BY DEF Pledges
<1> QED BY <1>4, <1>5, <1>6

\* That no cloud is to be imported can be written at any time; so can what is to be
\* done about the network.
LEMMA WritesKeep ==
  ASSUME NEW k \in Kinds, k.setup = "vcd"
  PROVE  Keeps(k, ImportCloud("no")) /\ Keeps(k, Put("createNet", "no")) /\ Keeps(k, Put("createNet", "yes"))
<1>1. "importCloud" \in VcdVars /\ "createNet" \in VcdVars /\ "createNet" \notin Touchy BY DEF VcdVars
<1>2. Keeps(k, ImportCloud("no"))
  <2>1. /\ "importCloud" \in Concerned(k.setup) /\ Lives["importCloud"] = {"none", "no", "yes"}
        /\ Solid("importCloud") = Lives["importCloud"] /\ Needs(k, "importCloud") = {}
    BY <1>1, DirectorThings
  <2>2. \A w \in Known(k, {}) : Upholds(k, w, "importCloud", "no") BY VcdUpholds DEF Known
  <2>3. Gives(k, {}, Put("importCloud", "no"), {}) BY <2>1, <2>2, PutHolds
  <2> QED BY <2>3 DEF ImportCloud, Keeps
<1>3. ASSUME NEW s \in {"no", "yes"} PROVE Keeps(k, Put("createNet", s))
  <2>1. /\ "createNet" \in Concerned(k.setup) /\ Lives["createNet"] = {"none", "no", "yes"}
        /\ Solid("createNet") = Lives["createNet"] /\ Needs(k, "createNet") = {}
    BY <1>1, DirectorThings
  <2> QED BY <1>1, <2>1, PutGives DEF Keeps
<1> QED BY <1>2, <1>3

\* A world without a gateway, where it is written whether a cloud is to be imported.
Away(k, W) == With(k, W, "edge", {"none"}) \cap With(k, W, "importCloud", {"no", "yes"})

\* It stays so, whatever else is done.
LEMMA AwayLasts ==
  ASSUME NEW k \in Kinds, k.setup = "vcd", NEW W
  PROVE  /\ Away(k, W) \subseteq Known(k, W) /\ Away(k, W) \subseteq Sound(k) /\ Lasts(k, Away(k, W))
         /\ \A V : V \subseteq W => Away(k, W) \subseteq Away(k, V)
<1>1. "edge" \in (Director \cup {"cseTemplate"}) \ VcdVars /\ "importCloud" \in VcdVars BY DEF Director, VcdVars
<1>2. "edge" \in Concerned(k.setup) /\ Stays("edge", {"none"}) BY <1>1, DirectorThings
<1>3. "importCloud" \in Concerned(k.setup) /\ Stays("importCloud", {"no", "yes"}) BY <1>1, DirectorThings
<1>4. Lasts(k, With(k, W, "edge", {"none"})) BY <1>2, WithLasts
<1>5. Lasts(k, With(k, W, "importCloud", {"no", "yes"})) BY <1>3, WithLasts
<1>6. Lasts(k, Away(k, W)) BY <1>4, <1>5 DEF Lasts, Away
<1>7. Away(k, W) \subseteq Known(k, W) BY DEF Away, With
<1>8. Known(k, W) \subseteq Sound(k) BY DEF Known
<1>9. ASSUME NEW V, V \subseteq W PROVE Away(k, W) \subseteq Away(k, V)
  <2>1. Known(k, W) \subseteq Known(k, V) BY <1>9, KnownMore
  <2> QED BY <2>1 DEF Away, With
<1> QED BY <1>6, <1>7, <1>8, <1>9

\* What the cloud of Cloud Director is made from can be found and made meanwhile.
LEMMA AsideLeads ==
  ASSUME NEW k \in Kinds, k.setup = "vcd", NEW W, NEW x \in {"vcdCert", "vcdCtrl", "vcdCloud", "vcdSeg"}
  PROVE  /\ Leads(k, Away(k, W), Find(x), Away(k, W \cup {x}))
         /\ Needs(k, x) \subseteq W => /\ Leads(k, Away(k, W), Set(x), Away(k, W \cup {x}))
                                       /\ Leads(k, Away(k, W), Ensure(x), Away(k, W \cup {x}))
<1> DEFINE P == Away(k, W)
           Q == Away(k, W \cup {x})
<1>1. P \subseteq Known(k, W) /\ P \subseteq Sound(k) /\ Lasts(k, P) BY AwayLasts
<1>2. x \in (Director \cup {"cseTemplate"}) \ VcdVars BY DEF Director, VcdVars
<1>3. /\ x \in Concerned(k.setup) /\ x \in Things /\ Solid(x) = Have /\ "there" \in Solid(x)
      /\ Lives[x] = {"none", "there"} /\ (x # "vcdCloud" => x \notin Touchy)
  BY <1>2, DirectorThings
<1>4. x \notin Pledges(k) BY <1>3, ThingsNoPledges
<1>5. ASSUME NEW w \in P, w[x] \in Have PROVE w \in Q
  <2>1. w \in Known(k, W) /\ w["edge"] = "none" /\ w["importCloud"] \in {"no", "yes"} BY DEF Away, With
  <2>2. w \in Known(k, W \cup {x}) BY <1>3, <1>4, <1>5, <2>1 DEF Known, Bears
  <2> QED BY <2>1, <2>2 DEF Away, With
<1>6. Leads(k, P, Find(x), Q)
  <2>1. Leads(k, P, Need(x, Have), {w \in P : w[x] \in Have}) BY <1>1, <1>3, LookLeads DEF Need
  <2>2. {w \in P : w[x] \in Have} \subseteq Q BY <1>5
  <2>3. P \subseteq P OBVIOUS
  <2> HIDE DEF P, Q
  <2>4. Leads(k, P, Need(x, Have), Q) BY <2>1, <2>2, <2>3, LessLeads
  <2> QED BY <2>4 DEF Find
<1>7. ASSUME Needs(k, x) \subseteq W, NEW c, c.op \in {"put", "ensure"}, c.x = x, c.states = {"there"}
      PROVE  Leads(k, P, <<c>>, Q)
  <2>1. TargetOf(c) = "there" BY <1>7, TargetIs
  <2>2. ASSUME NEW u \in P, NEW w, Does(c, u, w) PROVE w \in Q
    <3>1. u \in Known(k, W) /\ u \in Sound(k) /\ u["edge"] = "none" /\ u["importCloud"] \in {"no", "yes"}
      BY <1>1 DEF Away, With
    <3>2. CASE w = u /\ u[x] \in {"there"} BY <1>5, <3>2 DEF Have
    <3>3. CASE w = [u EXCEPT ![x] = "there"]
      <4>1. u \in [Concerned(k.setup) -> States] BY <3>1 DEF Sound
      <4>2. \A y \in Needs(k, x) : u[y] \in Solid(y) BY <1>3, <1>7, <3>1, NeedsBear
      <4>3. Upholds(k, u, x, "there")
        <5>1. CASE x = "vcdCloud" BY <3>1, <5>1, VcdUpholds
        <5>2. CASE x # "vcdCloud" BY <1>3, <4>1, <5>2, UpholdsElsewhere
        <5> QED BY <5>1, <5>2
      <4>4. w \in Known(k, W \cup {x}) BY <1>3, <3>1, <3>3, <4>2, <4>3, ChangeKnown
      <4>5. w["edge"] = u["edge"] /\ w["importCloud"] = u["importCloud"] BY <3>3, <4>1
      <4> QED BY <3>1, <4>4, <4>5 DEF Away, With
    <3>4. w = [u EXCEPT ![x] = "there"] \/ (w = u /\ u[x] \in {"there"}) BY <1>7, <2>1, <2>2 DEF Does
    <3> QED BY <3>2, <3>3, <3>4
  <2>3. c.op \in Plainly \ {"try"} /\ c.op \notin {"discard", "copy", "leave", "quit"} BY <1>7 DEF Plainly
  <2> HIDE DEF P, Q
  <2> QED BY <1>1, <1>3, <1>7, <2>2, <2>3, PlainLeads
<1>8. PICK c : c = [op |-> "put", x |-> x, states |-> {"there"}, calls |-> <<>>] OBVIOUS
<1>9. PICK d : d = [op |-> "ensure", x |-> x, states |-> {"there"}, calls |-> <<>>] OBVIOUS
<1>10. Set(x) = <<c>> /\ c.op = "put" /\ c.x = x /\ c.states = {"there"} BY <1>8 DEF Set, Put, Call
<1>11. Ensure(x) = <<d>> /\ d.op = "ensure" /\ d.x = x /\ d.states = {"there"} BY <1>9 DEF Ensure, Call, Have
<1> HIDE DEF P, Q
<1>12. Needs(k, x) \subseteq W => Leads(k, P, Set(x), Q) /\ Leads(k, P, Ensure(x), Q) BY <1>7, <1>10, <1>11
<1> QED BY <1>6, <1>12 DEF P, Q

\* A thing that nothing there rests on can be removed; not what a profile was made of.
LEMMA RemoveLeads ==
  ASSUME NEW k \in Kinds, NEW W, NEW P, P \subseteq Known(k, W), Lasts(k, P), NEW x \in Concerned(k.setup),
         "none" \in Lives[x], x \notin Needs(k, x), x \notin W \cup k.kept,
         x # "vipPool", \A w \in P : Upholds(k, w, x, "none"),
         \A w \in P : \A y \in Concerned(k.setup) : x \in Needs(k, y) => w[y] = "none",
         NEW Q, \A w \in P : [w EXCEPT ![x] = "none"] \in Known(k, W) => [w EXCEPT ![x] = "none"] \in Q
  PROVE  Leads(k, P, Remove(x), Q)
<1>0. PICK c : c = [op |-> "put", x |-> x, states |-> {"none"}, calls |-> <<>>] OBVIOUS
<1>1. c.op = "put" /\ c.x = x /\ TargetOf(c) = "none" /\ Remove(x) = <<c>>
  <2>1. c.op = "put" /\ c.x = x /\ c.states = {"none"} BY <1>0
  <2>2. TargetOf(c) = "none" BY <2>1, TargetIs
  <2>3. Remove(x) = <<c>> BY <1>0 DEF Remove, Put, Call
  <2> QED BY <2>1, <2>2, <2>3
<1>2. P \subseteq Sound(k) BY DEF Known
<1>3. ASSUME NEW u \in P, NEW w, Does(c, u, w) PROVE w \in Q
  <2>1. w = [u EXCEPT ![x] = "none"] BY <1>1, <1>3 DEF Does
  <2>2. u \in Sound(k) /\ Bears(k, W, u) /\ u \in [Concerned(k.setup) -> States] BY DEF Known, Sound
  <2>3. w \in Sound(k)
    <3>1. \A y \in Concerned(k.setup) : x \in Needs(k, y) => u[y] = "none" /\ x # y BY <1>3
    <3>2. Upholds(k, u, x, "none") BY <1>3
    <3> QED BY <2>1, <2>2, <3>1, <3>2, ChangeSound
  <2>4. Bears(k, W, w)
    <3>1. \A r \in W \cap Pledges(k) : Met(r, w) BY <2>1, <2>2 DEF Bears, Upholds
    <3>2. ASSUME NEW y \in W, y \in Bearing(k) PROVE w[y] \in Solid(y)
      <4>1. u[y] \in Solid(y) BY <2>2, <3>2 DEF Bears
      <4>2. y \in Concerned(k.setup) BY <3>2, <4>1, NeverBears DEF Bearing
      <4> QED BY <2>1, <2>2, <4>1, <4>2
    <3> QED BY <3>1, <3>2 DEF Bears
  <2> QED BY <2>1, <2>3, <2>4 DEF Known
<1>4. c.op \in Plainly \ {"try"} /\ c.op \notin {"discard", "copy", "leave", "quit"} BY <1>1 DEF Plainly
<1>5. Leads(k, P, <<c>>, Q) BY <1>1, <1>2, <1>3, <1>4, PlainLeads
<1> QED BY <1>1, <1>5

\* What Cloud Director is told of NSX ALB: upload_avi_cert, import; and what the cloud is
\* made from.
LEMMA VcdAlbGives ==
  ASSUME NEW k \in Kinds, k.setup = "vcd"
  PROVE  /\ Gives(k, {}, VcdAlb, AlbOwn \cup {"vcdCtrl"}) /\ Gives(k, {}, ImportAlb, {"vcdCtrl"})
         /\ Gives(k, {}, NsxCloud, {"cloud", "mgmtGroup"})
<1>1. \A x \in {"vcdCert", "vcdCtrl"} : x \in (Director \cup {"cseTemplate"}) \ VcdVars /\ x # "vcdCloud"
  BY DEF Director, VcdVars
<1>2. Keeps(k, VcdCertificate)
  <2>1. Needs(k, "vcdCert") = {} BY DirectorNeeds
  <2>2. Gives(k, Needs(k, "vcdCert"), Try("vcdCert"), {}) BY <1>1, DirectorGives
  <2> QED BY <2>1, <2>2 DEF VcdCertificate, Keeps
<1>3. Gives(k, {}, ImportAlb, {"vcdCtrl"})
  <2>1. Gives(k, {}, Find("vcdCert"), {"vcdCert"}) BY <1>1, DirectorGives
  <2>2. Gives(k, {"vcdCert"}, Set("vcdCtrl"), {"vcdCtrl"})
    <3>1. Needs(k, "vcdCtrl") = {"vcdCert"} BY DirectorNeeds
    <3>2. Gives(k, Needs(k, "vcdCtrl"), Set("vcdCtrl"), {"vcdCtrl"}) BY <1>1, DirectorGives
    <3> QED BY <3>1, <3>2
  <2> QED BY <2>1, <2>2, ThenGives DEF ImportAlb
<1>4. Gives(k, {}, VcdAlb, AlbOwn \cup {"vcdCtrl"})
  <2>1. Keeps(k, VcdCertificate \o ImportCloud("no")) BY <1>2, WritesKeep, KeepsThen
  <2>2. Gives(k, {}, VcdCertificate \o ImportCloud("no") \o ImportAlb, {"vcdCtrl"}) BY <1>3, <2>1, GivesKept
  <2>3. Gives(k, {}, Unless("vcdCtrl", Have, VcdCertificate \o ImportCloud("no") \o ImportAlb), {"vcdCtrl"})
    BY <1>1, <2>2, DirectorGives
  <2>4. Gives(k, {}, NsxAlb, AlbOwn) BY NsxAlbGives
  <2> QED BY <2>3, <2>4, ThenGives DEF VcdAlb
<1>6. "segments" \in Free /\ "vcenter" \in Free /\ "mgmtGroup" \in Free BY DEF Free, Plain
<1>7. Gives(k, {}, VcdSegment \o VcdNsxtCloud, {"cloud"})
  BY <1>6, FreeGives, NsxtCloudGives, GivesKept DEF VcdSegment
<1>8. Gives(k, {}, Login \o Unless("cloud", Have, VcdSegment \o VcdNsxtCloud), {"cloud"})
  BY <1>7, CloudGives, LoginKeeps, GivesKept
<1>9. Gives(k, {}, VcdEngineGroup, {"mgmtGroup"})
  <2>1. Keeps(k, VcdCredentials) BY CredentialsGive, LessGives DEF Keeps
  <2>2. Keeps(k, VcdVcenter) BY <1>6, <2>1, FreeGives, CommonThings, KeepsThen, UnlessKeeps DEF VcdVcenter
  <2>3. Gives(k, {}, VcdVcenter \o Set("mgmtGroup"), {"mgmtGroup"}) BY <1>6, <2>2, FreeGives, GivesKept
  <2> QED BY <1>6, <2>3, UnlessHas DEF VcdEngineGroup
<1>10. Gives(k, {}, NsxCloud, {"cloud", "mgmtGroup"}) BY <1>8, <1>9, ThenGives DEF NsxCloud
<1> QED BY <1>3, <1>4, <1>10

\* The plan of the cloud where there is no gateway: a cloud is imported, or removed.
LEMMA ApplyAlbLeads ==
  ASSUME NEW k \in Kinds, k.setup = "vcd", NEW W, {"cloud", "mgmtGroup"} \subseteq W,
         W \cap Shaky = {}
  PROVE  /\ IsProgram(ApplyAlb)
         /\ Leads(k, Away(k, W), ApplyAlb, Known(k, W \cup {"imported"}))
<1> DEFINE V == W \cup {"vcdCtrl"}
           U == V \cup {"imported"}
<1>1. \A x \in {"vcdCert", "vcdCtrl", "vcdCloud", "vcdSeg"} : x \in (Director \cup {"cseTemplate"}) \ VcdVars
  BY DEF Director, VcdVars
<1>2. \A x \in {"vcdCert", "vcdCtrl", "vcdCloud", "vcdSeg"} :
        /\ x \in Concerned(k.setup) /\ Solid(x) = Have /\ Lives[x] = {"none", "there"} /\ Stays(x, {"none"})
        /\ x \in Bearing(k)
  <2>1. \A x \in (Director \cup {"cseTemplate", "cseFile"}) \ VcdVars : x \in Concerned(k.setup) /\ x \in Bearing(k)
    BY DirectorThings
  <2>2. \A x \in (Director \cup {"cseTemplate"}) \ VcdVars :
          Solid(x) = Have /\ Lives[x] = {"none", "there"} /\ Stays(x, {"none"})
    BY DirectorThings
  <2> QED BY <1>1, <2>1, <2>2
<1>3. "importCloud" \in Concerned(k.setup) /\ Stays("importCloud", {"no"})
  <2>1. "importCloud" \in VcdVars BY DEF VcdVars
  <2> QED BY <2>1, DirectorThings
<1>4. /\ Needs(k, "vcdCtrl") = {"vcdCert"} /\ Needs(k, "vcdCloud") = {"cloud", "vcdCtrl"}
      /\ Needs(k, "vcdSeg") = {"mgmtGroup", "vcdCloud"}
      /\ \A y : "vcdSeg" \in Needs(k, y) => y = "edge"
      /\ \A y : "vcdCloud" \in Needs(k, y) => y = "vcdSeg"
  BY DirectorNeeds
<1>5. \A X : Away(k, X) \subseteq Sound(k) /\ Lasts(k, Away(k, X)) BY AwayLasts
<1>6. IsProgram(ImportAlb) /\ Leads(k, Away(k, W), Unless("vcdCtrl", Have, ImportAlb), Away(k, V))
  <2> DEFINE X == W \cup {"vcdCert"}
  <2>1. Leads(k, Away(k, W), Find("vcdCert"), Away(k, X)) BY AsideLeads
  <2>2. Leads(k, Away(k, X), Set("vcdCtrl"), Away(k, X \cup {"vcdCtrl"}))
    <3>1. Needs(k, "vcdCtrl") \subseteq X BY <1>4
    <3> HIDE DEF X
    <3> QED BY <3>1, AsideLeads
  <2>3. Away(k, X \cup {"vcdCtrl"}) \subseteq Away(k, V)
    <3>1. V \subseteq X \cup {"vcdCtrl"} OBVIOUS
    <3> HIDE DEF X, V
    <3> QED BY <3>1, AwayLasts
  <2>4. \A v \in Away(k, W) : v["vcdCtrl"] \in Have => v \in Away(k, V)
    <3>1. "vcdCtrl" \notin Pledges(k) BY DEF Pledges
    <3> QED BY <1>2, <3>1 DEF Away, With, Known, Bears
  <2>5. IsProgram(Find("vcdCert")) /\ IsProgram(Set("vcdCtrl")) BY CallProgram DEF Find, Need, Set, Put
  <2>6. IsProgram(ImportAlb) BY <2>5, JoinProgram DEF ImportAlb
  <2>7. Away(k, W) \subseteq Away(k, W) OBVIOUS
  <2> HIDE DEF X, V
  <2>8. Leads(k, Away(k, W), ImportAlb, Away(k, X \cup {"vcdCtrl"})) BY <2>1, <2>2, <2>5, ThenLeads DEF ImportAlb
  <2>9. Leads(k, Away(k, W), ImportAlb, Away(k, V)) BY <2>3, <2>7, <2>8, LessLeads
  <2>10. \A v \in Away(k, W) : v["vcdCtrl"] \notin Have => v \in Away(k, W) OBVIOUS
  <2> QED BY <1>2, <1>5, <2>4, <2>6, <2>9, <2>10, UnlessLeads
<1>7. ASSUME NEW w \in Away(k, V), w["importCloud"] = "no" \/ w["vcdCloud"] # "none" PROVE w \in Away(k, U)
  <2>1. Met("imported", w) BY <1>7 DEF Away, With, Met
  <2>2. "imported" \notin Bearing(k)
    BY DEF Bearing, Concerned, Things, Plain, Pushed, Files, Director, VcdVars, Packages,
           OnShared, OnWorkload, Controllers, Engines, Clusters, Supervisor
  <2> QED BY <1>7, <2>1, <2>2 DEF Away, With, Known, Bears
<1> DEFINE p == Ensure("vcdCloud") \o Ensure("vcdSeg")
<1>8. IsProgram(p) /\ Leads(k, Away(k, V), Unless("importCloud", {"no"}, p), Away(k, U))
  <2> DEFINE X == V \cup {"vcdCloud"}
             Y == X \cup {"vcdSeg"}
  <2>1. Leads(k, Away(k, V), Ensure("vcdCloud"), Away(k, X))
    <3>1. Needs(k, "vcdCloud") \subseteq V BY <1>4
    <3> HIDE DEF V
    <3> QED BY <3>1, AsideLeads
  <2>2. Leads(k, Away(k, X), Ensure("vcdSeg"), Away(k, Y))
    <3>1. Needs(k, "vcdSeg") \subseteq X BY <1>4
    <3> HIDE DEF X
    <3> QED BY <3>1, AsideLeads
  <2>3. Away(k, Y) \subseteq Away(k, U)
    <3>1. V \subseteq Y /\ X \subseteq Y /\ "vcdCloud" \in X OBVIOUS
    <3> HIDE DEF X, Y, V, U
    <3>2. Away(k, Y) \subseteq Away(k, V) /\ Away(k, Y) \subseteq Away(k, X) BY <3>1, AwayLasts
    <3>3. \A w \in Away(k, X) : w["vcdCloud"] \in Have BY <1>2, <3>1 DEF Away, With, Known, Bears
    <3> QED BY <1>7, <3>2, <3>3 DEF Have
  <2>4. IsProgram(Ensure("vcdCloud")) /\ IsProgram(Ensure("vcdSeg")) BY CallProgram DEF Ensure
  <2>5. IsProgram(p) BY <2>4, JoinProgram
  <2>6. Away(k, V) \subseteq Away(k, V) OBVIOUS
  <2>7. \A v \in Away(k, V) : v["importCloud"] \in {"no"} => v \in Away(k, U) BY <1>7
  <2>8. \A v \in Away(k, V) : v["importCloud"] \notin {"no"} => v \in Away(k, V) OBVIOUS
  <2> HIDE DEF X, Y, V, U
  <2>9. Leads(k, Away(k, V), p, Away(k, Y)) BY <2>1, <2>2, <2>4, ThenLeads
  <2>10. Leads(k, Away(k, V), p, Away(k, U)) BY <2>3, <2>6, <2>9, LessLeads
  <2> HIDE DEF p
  <2> QED BY <1>3, <1>5, <2>5, <2>7, <2>8, <2>10, UnlessLeads
<1> DEFINE q == Remove("vcdSeg") \o Remove("vcdCloud")
<1>9. IsProgram(q) /\ Leads(k, Away(k, U), Unless("importCloud", {"yes"}, q), Known(k, U))
  <2> DEFINE P == Away(k, U) \cap With(k, U, "importCloud", {"no"})
             N == With(k, U, "vcdSeg", {"none"}) \cap With(k, U, "importCloud", {"no"})
  <2>0. /\ P \subseteq Known(k, U) /\ Lasts(k, P) /\ P \subseteq Sound(k)
        /\ N \subseteq Known(k, U) /\ Lasts(k, N) /\ N \subseteq Sound(k)
    <3>1. Lasts(k, With(k, U, "importCloud", {"no"})) BY <1>3, WithLasts
    <3>2. Lasts(k, With(k, U, "vcdSeg", {"none"})) BY <1>2, WithLasts
    <3>3. Lasts(k, Away(k, U)) BY <1>5
    <3> QED BY <3>1, <3>2, <3>3 DEF Lasts, With, Known
  <2>1. "vcdSeg" \notin U \cup k.kept /\ "vcdCloud" \notin U \cup k.kept BY DEF Shaky, Kinds
  <2>2. \A w \in Sound(k) : w["importCloud"] = "no" =>
          Upholds(k, w, "vcdSeg", "none") /\ Upholds(k, w, "vcdCloud", "none")
    <3>1. \A w \in Sound(k) : w \in [Concerned(k.setup) -> States] BY DEF Sound
    <3> QED BY <3>1, VcdUpholds, UpholdsElsewhere
  <2>3. Leads(k, P, Remove("vcdSeg"), N)
    <3>1. \A w \in P : w["edge"] = "none" /\ w["importCloud"] = "no" BY DEF Away, With
    <3>2. "vcdSeg" \notin Needs(k, "vcdSeg") BY <1>4
    <3>3. \A w \in P : \A y \in Concerned(k.setup) : "vcdSeg" \in Needs(k, y) => w[y] = "none" BY <1>4, <3>1
    <3>4. \A w \in P : Upholds(k, w, "vcdSeg", "none") BY <2>0, <2>2, <3>1
    <3>5. ASSUME NEW w \in P, [w EXCEPT !["vcdSeg"] = "none"] \in Known(k, U)
          PROVE  [w EXCEPT !["vcdSeg"] = "none"] \in N
      <4>1. w \in [Concerned(k.setup) -> States] BY <2>0 DEF Sound
      <4>2. w["importCloud"] = "no" BY <3>1
      <4>3. "vcdSeg" \in Concerned(k.setup) /\ "importCloud" \in Concerned(k.setup) BY <1>2, <1>3
      <4> HIDE DEF P, U
      <4>4. [w EXCEPT !["vcdSeg"] = "none"]["importCloud"] = "no" BY <4>1, <4>2, <4>3
      <4>5. [w EXCEPT !["vcdSeg"] = "none"]["vcdSeg"] = "none" BY <4>1, <4>3
      <4> QED BY <3>5, <4>4, <4>5 DEF With
    <3> HIDE DEF P, N, U
    <3> QED BY <1>2, <2>0, <2>1, <3>2, <3>3, <3>4, <3>5, RemoveLeads
  <2>4. Leads(k, N, Remove("vcdCloud"), Known(k, U))
    <3>1. \A w \in N : w["vcdSeg"] = "none" /\ w["importCloud"] = "no" BY DEF With
    <3>2. "vcdCloud" \notin Needs(k, "vcdCloud") BY <1>4
    <3>3. \A w \in N : \A y \in Concerned(k.setup) : "vcdCloud" \in Needs(k, y) => w[y] = "none" BY <1>4, <3>1
    <3>4. \A w \in N : Upholds(k, w, "vcdCloud", "none") BY <2>0, <2>2, <3>1
    <3> HIDE DEF P, N, U
    <3> QED BY <1>2, <2>0, <2>1, <3>2, <3>3, <3>4, RemoveLeads
  <2>5. IsProgram(Remove("vcdSeg")) /\ IsProgram(Remove("vcdCloud")) BY CallProgram DEF Remove, Put
  <2>6. IsProgram(q) BY <2>5, JoinProgram
  <2>7. \A v \in Away(k, U) : v["importCloud"] \in {"yes"} => v \in Known(k, U) BY AwayLasts
  <2>8. \A v \in Away(k, U) : v["importCloud"] \notin {"yes"} => v \in P BY DEF Away, With
  <2> HIDE DEF P, N, U
  <2>9. Leads(k, P, q, Known(k, U)) BY <2>3, <2>4, <2>5, ThenLeads
  <2> HIDE DEF q
  <2> QED BY <1>3, <1>5, <2>6, <2>7, <2>8, <2>9, UnlessLeads
<1>10. Known(k, U) \subseteq Known(k, W \cup {"imported"})
  <2>1. W \cup {"imported"} \subseteq U OBVIOUS
  <2> HIDE DEF U
  <2> QED BY <2>1, KnownMore
<1> DEFINE a == Unless("vcdCtrl", Have, ImportAlb)
           b == Unless("importCloud", {"no"}, p)
           c == Unless("importCloud", {"yes"}, q)
<1>11. IsProgram(a) /\ IsProgram(b) /\ IsProgram(c) BY CallProgram DEF Unless
<1>12. ApplyAlb = (a \o b) \o c BY DEF ApplyAlb
<1>13. Leads(k, Away(k, W), a, Away(k, V)) /\ Leads(k, Away(k, V), b, Away(k, U)) /\ Leads(k, Away(k, U), c, Known(k, U))
  BY <1>6, <1>8, <1>9
<1> HIDE DEF a, b, c, p, q, V, U
<1>14. Leads(k, Away(k, W), a \o b, Away(k, U)) /\ IsProgram(a \o b) BY <1>11, <1>13, ThenLeads, JoinProgram
<1>15. Leads(k, Away(k, W), (a \o b) \o c, Known(k, U)) /\ IsProgram((a \o b) \o c)
  BY <1>11, <1>13, <1>14, ThenLeads, JoinProgram
<1>16. Away(k, W) \subseteq Away(k, W) OBVIOUS
<1> QED BY <1>10, <1>12, <1>15, <1>16, LessLeads

\* Without a cloud in Cloud Director there is no segment of it, and without one no gateway.
LEMMA NoGateway ==
  ASSUME NEW k \in Kinds, k.setup = "vcd", NEW W, NEW v \in Known(k, W),
         v["vcdCloud"] \notin Have \/ v["vcdSeg"] \notin Have
  PROVE  v \in With(k, W, "edge", {"none"})
<1>1. \A x \in {"edge", "vcdCloud", "vcdSeg"} : x \in (Director \cup {"cseTemplate"}) \ VcdVars
  BY DEF Director, VcdVars
<1>2. \A x \in {"edge", "vcdCloud", "vcdSeg"} : x \in Concerned(k.setup) BY <1>1, DirectorThings
<1>3. \A x \in {"edge", "vcdCloud", "vcdSeg"} : Solid(x) = Have BY <1>1, DirectorThings
<1>4. "vcdCloud" \in Needs(k, "vcdSeg") /\ "vcdSeg" \in Needs(k, "edge")
  <2>1. Needs(k, "vcdSeg") = {"mgmtGroup", "vcdCloud"} /\ Needs(k, "edge") = {"vcdSeg", "org", "orgVdc"}
    BY DirectorNeeds
  <2> QED BY <2>1
<1>5. v["vcdSeg"] # "none" => v["vcdCloud"] \in Have BY <1>2, <1>3, <1>4 DEF Known, Sound
<1>6. v["edge"] # "none" => v["vcdSeg"] \in Have BY <1>2, <1>3, <1>4 DEF Known, Sound
<1>7. v["edge"] = "none" BY <1>5, <1>6 DEF Have
<1> QED BY <1>7 DEF With

\* That a cloud is to be imported is written where nothing says that one was.
LEMMA ImportKnown ==
  ASSUME NEW k \in Kinds, k.setup = "vcd", NEW W, ~ k.whole \/ (k.kept = {} /\ "imported" \notin W),
         NEW w \in Known(k, W)
  PROVE  [w EXCEPT !["importCloud"] = "yes"] \in Known(k, W)
<1>1. "importCloud" \in VcdVars BY DEF VcdVars
<1>2. PICK l \in Kinds : /\ ~ l.whole /\ l.setup = "vcd" /\ Sound(l) = Sound(k)
                         /\ l.setup = k.setup /\ W \cap Pledges(l) = W \cap Pledges(k)
  <2>1. CASE ~ k.whole BY <2>1
  <2>2. CASE k.kept = {} /\ "imported" \notin W
    <3> DEFINE l == [k EXCEPT !.whole = FALSE]
    <3>1. l \in Kinds /\ ~ l.whole /\ l.setup = k.setup /\ Sound(l) = Sound(k) BY <2>2, HalfSound
    <3> HIDE DEF l
    <3>2. W \cap Pledges(l) = W \cap Pledges(k) BY <2>2, <3>1 DEF Pledges
    <3> QED BY <3>1, <3>2
  <2> QED BY <2>1, <2>2
<1>3. Bearing(l) = Bearing(k) BY <1>2 DEF Bearing, InPipeline
<1>4. /\ "importCloud" \in Concerned(l.setup) /\ Lives["importCloud"] = {"none", "no", "yes"}
      /\ Solid("importCloud") = Lives["importCloud"] /\ Needs(l, "importCloud") = {}
  BY <1>1, <1>2, DirectorThings
<1>5. w \in Known(l, W) /\ w \in Sound(l) BY <1>2, <1>3 DEF Known, Bears
<1>6. Upholds(l, w, "importCloud", "yes") BY <1>2, <1>5, VcdUpholds
<1>7. [w EXCEPT !["importCloud"] = "yes"] \in Known(l, W) BY <1>4, <1>5, <1>6, ChangeKnown
<1> QED BY <1>2, <1>3, <1>7 DEF Known, Bears

\* What is written of the cloud makes no gateway.
LEMMA ImportLeads ==
  ASSUME NEW k \in Kinds, k.setup = "vcd", NEW W
  PROVE  /\ IsProgram(ImportCloud("yes")) /\ IsProgram(Vars)
         /\ ~ k.whole \/ (k.kept = {} /\ "imported" \notin W) =>
              Leads(k, With(k, W, "edge", {"none"}), ImportCloud("yes"), Away(k, W))
         /\ Leads(k, With(k, W, "edge", {"none"}), Vars, Away(k, W))
         /\ Leads(k, Known(k, W), Vars, With(k, W, "importCloud", {"no", "yes"}))
<1> DEFINE P == With(k, W, "edge", {"none"})
           Q == Away(k, W)
<1>1. "edge" \in (Director \cup {"cseTemplate"}) \ VcdVars /\ "importCloud" \in VcdVars BY DEF Director, VcdVars
<1>2. "edge" \in Concerned(k.setup) /\ "importCloud" \in Concerned(k.setup) BY <1>1, DirectorThings
<1>3. Stays("edge", {"none"}) BY <1>1, DirectorThings
<1>4. P \subseteq Sound(k) /\ Lasts(k, P) BY <1>2, <1>3, WithLasts
<1>5. PICK c : c = [op |-> "put", x |-> "importCloud", states |-> {"yes"}, calls |-> <<>>] OBVIOUS
<1>6. c.op = "put" /\ c.x = "importCloud" /\ TargetOf(c) = "yes" /\ ImportCloud("yes") = <<c>>
  <2>1. c.op = "put" /\ c.x = "importCloud" /\ c.states = {"yes"} BY <1>5
  <2>2. TargetOf(c) = "yes" BY <2>1, TargetIs
  <2>3. ImportCloud("yes") = <<c>> BY <1>5 DEF ImportCloud, Put, Call
  <2> QED BY <2>1, <2>2, <2>3
<1>7. ASSUME ~ k.whole \/ (k.kept = {} /\ "imported" \notin W), NEW u \in P, NEW w, Does(c, u, w) PROVE w \in Q
  <2>1. w = [u EXCEPT !["importCloud"] = "yes"] BY <1>6, <1>7 DEF Does
  <2>2. u \in Known(k, W) /\ u["edge"] = "none" BY DEF With
  <2>3. u \in [Concerned(k.setup) -> States] BY <2>2 DEF Known, Sound
  <2>4. w["edge"] = "none" /\ w["importCloud"] = "yes" BY <1>2, <2>1, <2>2, <2>3
  <2>5. w \in Known(k, W) BY <1>7, <2>1, <2>2, ImportKnown
  <2> QED BY <2>4, <2>5 DEF Away, With
<1>8. c.op \in Plainly \ {"try"} /\ c.op \notin {"discard", "copy", "leave", "quit"} BY <1>6 DEF Plainly
<1>9. IsProgram(ImportCloud("yes")) /\ IsProgram(Vars) BY CallProgram DEF ImportCloud, Put, Vars, Need
<1>10. Leads(k, P, Vars, Q)
  <2>1. Leads(k, P, Call("need", "importCloud", {"no", "yes"}, <<>>), {w \in P : w["importCloud"] \in {"no", "yes"}})
    BY <1>2, <1>4, LookLeads
  <2>2. {w \in P : w["importCloud"] \in {"no", "yes"}} \subseteq Q /\ P \subseteq P BY DEF Away, With
  <2> QED BY <2>1, <2>2, LessLeads DEF Vars, Need
<1>11. Leads(k, Known(k, W), Vars, With(k, W, "importCloud", {"no", "yes"}))
  <2>1. Known(k, W) \subseteq Sound(k) /\ Lasts(k, Known(k, W)) BY KnownLasts
  <2> QED BY <1>2, <2>1, LookLeads DEF Vars, Need, With
<1> HIDE DEF P, Q
<1>12. ~ k.whole \/ (k.kept = {} /\ "imported" \notin W) => Leads(k, P, <<c>>, Q)
  BY <1>2, <1>4, <1>6, <1>7, <1>8, PlainLeads
<1> QED BY <1>6, <1>9, <1>10, <1>11, <1>12 DEF P, Q

\* The cloud: nsx_cloud_creation, avi_cloud_configuration.
LEMMA VcdCloudLeads ==
  ASSUME NEW k \in Kinds, k.setup = "vcd", ~ k.whole \/ k.kept = {}
  PROVE  IsProgram(VcdCloud) /\ Leads(k, Known(k, {}), VcdCloud, Known(k, {"cloud", "mgmtGroup", "imported"}))
<1> DEFINE W == {"cloud", "mgmtGroup"}
           r == NsxCloud \o Find("cloud")
           t == Unless("vcdCloud", {"none"}, ImportCloud("no"))
           p == ImportCloud("yes") \o ApplyAlb
           u == Unless("vcdCloud", Have, p)
           P == With(k, W, "importCloud", {"no", "yes"})
           Q == Known(k, {"cloud", "mgmtGroup", "imported"})
<1>1. /\ "vcdCloud" \in Concerned(k.setup) /\ "importCloud" \in Concerned(k.setup)
      /\ Lives["importCloud"] = {"none", "no", "yes"} /\ Solid("importCloud") = Lives["importCloud"]
      /\ Needs(k, "importCloud") = {} /\ Stays("importCloud", {"no", "yes"})
  <2>1. "importCloud" \in VcdVars /\ "vcdCloud" \in (Director \cup {"cseTemplate"}) \ VcdVars BY DEF Director, VcdVars
  <2> QED BY <2>1, DirectorThings
<1>2. IsProgram(r) /\ Leads(k, Known(k, {}), r, Known(k, W))
  <2>1. "cloud" \in Common BY CommonThings
  <2>2. Keeps(k, Find("cloud")) BY <2>1, LookKeeps
  <2>3. Gives(k, {}, r, W) BY <2>2, VcdAlbGives, GivesKept
  <2>4. {} \cup W = W OBVIOUS
  <2> QED BY <2>3, <2>4 DEF Gives
<1>3. IsProgram(Vars) /\ Leads(k, Known(k, W), Vars, P) BY ImportLeads
<1>4. P \subseteq Sound(k) /\ Lasts(k, P) /\ P \subseteq Known(k, W) BY <1>1, WithLasts DEF With
<1>5. IsProgram(t) /\ Leads(k, P, t, P)
  <2>1. IsProgram(t) /\ IsProgram(ImportCloud("no")) BY CallProgram DEF Unless, ImportCloud, Put
  <2>2. Leads(k, P, ImportCloud("no"), P)
    <3>1. \A w \in P : Upholds(k, w, "importCloud", "no") BY <1>4, VcdUpholds
    <3>2. Leads(k, P, Put("importCloud", "no"), With(k, W, "importCloud", {"no"})) BY <1>1, <3>1, PutLeads
    <3>3. With(k, W, "importCloud", {"no"}) \subseteq P /\ P \subseteq P BY DEF With
    <3> HIDE DEF P
    <3> QED BY <3>2, <3>3, LessLeads DEF ImportCloud
  <2>3. \A v \in P : v["vcdCloud"] \in {"none"} => v \in P OBVIOUS
  <2>4. \A v \in P : v["vcdCloud"] \notin {"none"} => v \in P OBVIOUS
  <2> HIDE DEF P
  <2>5. Leads(k, P, t, P) BY <1>1, <1>4, <2>1, <2>2, <2>3, <2>4, UnlessLeads
  <2> QED BY <2>1, <2>5
<1>6. IsProgram(u) /\ Leads(k, P, u, Q)
  <2> DEFINE N == With(k, W, "edge", {"none"})
  <2>1. IsProgram(ImportCloud("yes")) /\ Leads(k, N, ImportCloud("yes"), Away(k, W)) BY ImportLeads
  <2>2. IsProgram(ApplyAlb) /\ Leads(k, Away(k, W), ApplyAlb, Q)
    <3>1. W \cap Shaky = {} /\ {"cloud", "mgmtGroup"} \subseteq W BY DEF Shaky
    <3>2. W \cup {"imported"} = {"cloud", "mgmtGroup", "imported"} OBVIOUS
    <3> HIDE DEF W
    <3> QED BY <3>1, <3>2, ApplyAlbLeads DEF Q
  <2>3. \A v \in P : v["vcdCloud"] \notin Have => v \in N BY <1>4, NoGateway
  <2>4. \A v \in P : v["vcdCloud"] \in Have => v \in Q
    <3>1. ASSUME NEW v \in P, v["vcdCloud"] \in Have PROVE v \in Q
      <4>1. Met("imported", v) BY <3>1 DEF With, Met, Have
      <4>2. "imported" \notin Bearing(k)
        BY DEF Bearing, Concerned, Things, Plain, Pushed, Files, Director, VcdVars, Packages,
               OnShared, OnWorkload, Controllers, Engines, Clusters, Supervisor
      <4> QED BY <1>4, <4>1, <4>2 DEF Known, Bears
    <3> QED BY <3>1
  <2>5. IsProgram(p) BY <2>1, <2>2, JoinProgram
  <2>6. IsProgram(u) BY CallProgram DEF Unless
  <2> HIDE DEF P, Q, N
  <2>7. Leads(k, N, p, Q) BY <2>1, <2>2, ThenLeads
  <2> HIDE DEF p
  <2>8. Leads(k, P, u, Q) BY <1>1, <1>4, <2>3, <2>4, <2>5, <2>7, UnlessLeads
  <2> QED BY <2>6, <2>8
<1>7. VcdCloud = r \o Vars \o t \o u BY DEF VcdCloud
<1> HIDE DEF r, t, u, p, P, Q, W
<1>8. IsProgram(r \o Vars) /\ Leads(k, Known(k, {}), r \o Vars, P) BY <1>2, <1>3, ThenLeads, JoinProgram
<1>9. IsProgram(r \o Vars \o t) /\ Leads(k, Known(k, {}), r \o Vars \o t, P) BY <1>5, <1>8, ThenLeads, JoinProgram
<1>10. IsProgram(r \o Vars \o t \o u) /\ Leads(k, Known(k, {}), r \o Vars \o t \o u, Q)
  BY <1>6, <1>9, ThenLeads, JoinProgram
<1> QED BY <1>7, <1>10 DEF Q

\* The plan of networks: a network that is not asked for is removed if nothing uses it.
LEMMA ApplyNetworksLeads ==
  ASSUME NEW k \in Kinds, k.setup = "vcd", NEW W, W \cap Shaky = {}
  PROVE  IsProgram(ApplyNetworks) /\ Leads(k, Known(k, W), ApplyNetworks, Known(k, W \cup {"edge"}))
<1>1. /\ \A x \in {"vcdSeg", "orgVdc", "org", "edge", "orgNetwork", "vapp"} :
           x \in (Director \cup {"cseTemplate"}) \ VcdVars /\ x # "vcdCloud"
      /\ "createNet" \in VcdVars
  BY DEF Director, VcdVars
<1>2. /\ Needs(k, "edge") = {"vcdSeg", "org", "orgVdc"} /\ Needs(k, "orgNetwork") = {"edge"}
      /\ Needs(k, "orgVdc") = {"org"} /\ \A y : "orgNetwork" \in Needs(k, y) => y = "vapp"
  BY DirectorNeeds
<1>3. \A x \in {"vcdSeg", "orgVdc", "org", "edge", "orgNetwork", "vapp"} :
        /\ x \in Concerned(k.setup) /\ Lives[x] = {"none", "there"} /\ Stays(x, {"none"}) /\ x \in Bearing(k)
        /\ x \notin Touchy
  <2>1. \A x \in (Director \cup {"cseTemplate", "cseFile"}) \ VcdVars : x \in Concerned(k.setup) /\ x \in Bearing(k)
    BY DirectorThings
  <2>2. \A x \in (Director \cup {"cseTemplate"}) \ VcdVars :
          Lives[x] = {"none", "there"} /\ Stays(x, {"none"}) /\ (x # "vcdCloud" => x \notin Touchy)
    BY DirectorThings
  <2> HIDE DEF Touchy
  <2> QED BY <1>1, <2>1, <2>2
<1>4. "createNet" \in Concerned(k.setup) BY <1>1, DirectorThings
<1> DEFINE q == Find("vcdSeg") \o Find("orgVdc") \o Ensure("edge")
                  \o Unless("createNet", {"no"}, Ensure("orgNetwork"))
           p == Need("vapp", {"none"}) \o Remove("orgNetwork")
           u == Unless("createNet", {"yes"}, p)
           E == W \cup {"edge"}
<1>5. Gives(k, {}, q, {"edge"})
  <2>1. Gives(k, {}, Find("vcdSeg"), {"vcdSeg"}) /\ Gives(k, {}, Find("orgVdc"), {"orgVdc"})
    BY <1>1, DirectorGives
  <2>2. Gives(k, {}, Find("orgVdc"), {"orgVdc", "org"})
    <3>1. "orgVdc" \notin Loose BY DEF Loose, Engines, Files, VcdVars
    <3> QED BY <1>2, <1>3, <2>1, <3>1, NeedsGives
  <2>3. Gives(k, {}, Find("vcdSeg") \o Find("orgVdc"), {"vcdSeg", "org", "orgVdc"}) BY <2>1, <2>2, ThenGives
  <2>4. Gives(k, Needs(k, "edge"), Ensure("edge"), {"edge"})
        /\ Gives(k, Needs(k, "orgNetwork"), Ensure("orgNetwork"), {"orgNetwork"})
    BY <1>1, DirectorGives
  <2>5. Gives(k, {}, Find("vcdSeg") \o Find("orgVdc") \o Ensure("edge"), {"edge"})
    <3>1. Gives(k, {"vcdSeg", "org", "orgVdc"}, Ensure("edge"), {"edge"}) BY <1>2, <2>4
    <3> QED BY <2>3, <3>1, ThenGives
  <2>6. Gives(k, {"edge"}, Unless("createNet", {"no"}, Ensure("orgNetwork")), {})
    <3>1. Gives(k, {"edge"}, Ensure("orgNetwork"), {"orgNetwork"}) BY <1>2, <2>4
    <3> QED BY <1>4, <3>1, UnlessGives
  <2> QED BY <2>5, <2>6, ThenGives
<1>6. IsProgram(u) /\ Leads(k, Known(k, E), u, Known(k, E))
  <2> DEFINE P == Known(k, E)
             N == With(k, E, "vapp", {"none"})
  <2>1. P \subseteq Sound(k) /\ Lasts(k, P) BY KnownLasts
  <2>0. "vapp" \in Concerned(k.setup) /\ Stays("vapp", {"none"}) BY <1>3
  <2>2. Leads(k, P, Need("vapp", {"none"}), N)
    <3> HIDE DEF E
    <3>1. N = {w \in P : w["vapp"] \in {"none"}} BY DEF With
    <3> HIDE DEF P, N
    <3> QED BY <2>0, <2>1, <3>1, LookLeads DEF Need
  <2>3. Leads(k, N, Remove("orgNetwork"), P)
    <3> HIDE DEF E
    <3>1. N \subseteq Known(k, E) /\ Lasts(k, N) /\ N \subseteq Sound(k)
      <4>1. N \subseteq Known(k, E) BY DEF With
      <4> QED BY <2>0, <4>1, WithLasts
    <3>2. \A w \in N : w["vapp"] = "none" BY DEF With
    <3>3. "orgNetwork" \notin Needs(k, "orgNetwork") BY <1>2
    <3>4. \A w \in N : \A y \in Concerned(k.setup) : "orgNetwork" \in Needs(k, y) => w[y] = "none"
      BY <1>2, <3>2
    <3>5. \A w \in N : Upholds(k, w, "orgNetwork", "none")
      <4>1. \A w \in N : w \in [Concerned(k.setup) -> States] BY <3>1 DEF Sound
      <4> QED BY <1>3, <4>1, UpholdsElsewhere
    <3>6. "orgNetwork" \notin E \cup k.kept /\ "none" \in Lives["orgNetwork"] BY <1>3 DEF E, Shaky, Kinds
    <3> HIDE DEF N, E
    <3> QED BY <1>3, <3>1, <3>3, <3>4, <3>5, <3>6, RemoveLeads
  <2>5. IsProgram(Need("vapp", {"none"})) /\ IsProgram(Remove("orgNetwork")) BY CallProgram DEF Need, Remove, Put
  <2>6. IsProgram(p) BY <2>5, JoinProgram
  <2>7. IsProgram(u) BY CallProgram DEF Unless
  <2> HIDE DEF N, P, E
  <2>8. Leads(k, P, p, P) BY <2>2, <2>3, <2>5, ThenLeads
  <2> HIDE DEF p
  <2>9. \A v \in P : v["createNet"] \notin {"yes"} => v \in P OBVIOUS
  <2>10. \A v \in P : v["createNet"] \in {"yes"} => v \in P OBVIOUS
  <2>11. Leads(k, P, u, P) BY <1>4, <2>1, <2>6, <2>8, <2>9, <2>10, UnlessLeads
  <2> QED BY <2>7, <2>11 DEF P
<1>7. IsProgram(q) /\ Leads(k, Known(k, W), q, Known(k, E)) BY <1>5 DEF Gives
<1>8. ApplyNetworks = q \o u BY DEF ApplyNetworks
<1> HIDE DEF q, u, E
<1>9. IsProgram(q \o u) /\ Leads(k, Known(k, W), q \o u, Known(k, E)) BY <1>6, <1>7, ThenLeads, JoinProgram
<1> QED BY <1>8, <1>9 DEF E

\* The organisation: vcd_org_configuration.
LEMMA VcdOrgLeads ==
  ASSUME NEW k \in Kinds, k.setup = "vcd", k.mode # "bare"
  PROVE  IsProgram(VcdOrg) /\ Leads(k, Known(k, {}), VcdOrg, Known(k, {"edge"}))
<1> DEFINE W == {"cloud", "mgmtGroup"}
           Q == Known(k, W \cup {"edge"})
           a == Unless("org", Have, Vars \o Set("org"))
           b == Unless("orgVdc", Have, Vars \o Find("org") \o Set("orgVdc"))
           r == NsxCloud \o a \o b
           g == Vars \o ApplyAlb
           u == Unless("vcdSeg", Have, g)
           n == KeepNet \o CreateNet
           p == Vars \o ApplyNetworks
           s == Ask("edge", Have, p)
<1>0. W \cap Shaky = {} /\ {"cloud", "mgmtGroup"} \subseteq W BY DEF Shaky
<1>1. /\ \A x \in {"orgVdc", "org", "edge", "orgNetwork", "vcdSeg"} :
           x \in (Director \cup {"cseTemplate"}) \ VcdVars /\ x # "vcdCloud"
      /\ "importCloud" \in Director
  BY DEF Director, VcdVars
<1>2. Needs(k, "org") = {} /\ Needs(k, "orgVdc") = {"org"} BY DirectorNeeds
<1>3. Keeps(k, Vars) BY <1>1, DirectorThings DEF Vars
<1>4. Keeps(k, a)
  <2>1. Gives(k, Needs(k, "org"), Set("org"), {"org"}) BY <1>1, DirectorGives
  <2>2. Gives(k, {}, Vars \o Set("org"), {"org"}) BY <1>2, <1>3, <2>1, GivesKept
  <2>3. Gives(k, {}, a, {"org"}) BY <1>1, <2>2, DirectorGives
  <2> QED BY <2>3, LessGives DEF Keeps
<1>5. Keeps(k, b)
  <2>1. Gives(k, Needs(k, "orgVdc"), Set("orgVdc"), {"orgVdc"}) BY <1>1, DirectorGives
  <2>2. Gives(k, {}, Find("org"), {"org"}) BY <1>1, DirectorGives
  <2>3. Gives(k, {}, Vars \o Find("org"), {"org"}) BY <1>3, <2>2, GivesKept
  <2>4. Gives(k, {}, Vars \o Find("org") \o Set("orgVdc"), {"orgVdc"})
    <3>1. Gives(k, {"org"}, Set("orgVdc"), {"orgVdc"}) BY <1>2, <2>1
    <3> QED BY <2>3, <3>1, ThenGives
  <2>5. Gives(k, {}, b, {"orgVdc"}) BY <1>1, <2>4, DirectorGives
  <2> QED BY <2>5, LessGives DEF Keeps
<1>6. IsProgram(r) /\ Leads(k, Known(k, {}), r, Known(k, W))
  <2>1. Gives(k, {}, NsxCloud, W) BY VcdAlbGives
  <2> HIDE DEF a, b, W
  <2>2. Gives(k, {}, r, W) BY <1>4, <1>5, <2>1, GivesKept
  <2>3. {} \subseteq {} /\ {} \cup W = W OBVIOUS
  <2> HIDE DEF r
  <2> QED BY <2>2, <2>3 DEF Gives
<1>7. IsProgram(u) /\ Leads(k, Known(k, W), u, Known(k, W))
  <2> DEFINE N == With(k, W, "edge", {"none"})
             P == Known(k, W)
  <2>1. IsProgram(Vars) /\ Leads(k, N, Vars, Away(k, W)) BY ImportLeads
  <2>2. IsProgram(ApplyAlb) /\ Leads(k, Away(k, W), ApplyAlb, P)
    <3> HIDE DEF W
    <3>1. IsProgram(ApplyAlb) /\ Leads(k, Away(k, W), ApplyAlb, Known(k, W \cup {"imported"}))
      BY <1>0, ApplyAlbLeads
    <3>2. Known(k, W \cup {"imported"}) \subseteq P BY KnownMore
    <3>3. Away(k, W) \subseteq Away(k, W) OBVIOUS
    <3> HIDE DEF P
    <3> QED BY <3>1, <3>2, <3>3, LessLeads
  <2>3. IsProgram(g) BY <2>1, <2>2, JoinProgram
  <2>4. \A v \in P : v["vcdSeg"] \notin Have => v \in N BY NoGateway
  <2>5. \A v \in P : v["vcdSeg"] \in Have => v \in P OBVIOUS
  <2>6. "vcdSeg" \in Concerned(k.setup) BY <1>1, DirectorThings
  <2>7. P \subseteq Sound(k) /\ Lasts(k, P) BY KnownLasts
  <2>8. IsProgram(u) BY CallProgram DEF Unless
  <2> HIDE DEF P, N, W
  <2>9. Leads(k, N, g, P) BY <2>1, <2>2, ThenLeads
  <2> HIDE DEF g
  <2>10. Leads(k, P, u, P) BY <2>3, <2>4, <2>5, <2>6, <2>7, <2>9, UnlessLeads
  <2> QED BY <2>8, <2>10 DEF P
<1>8. IsProgram(n) /\ Leads(k, Known(k, W), n, Known(k, W))
  <2>1. "orgNetwork" \in Concerned(k.setup) BY <1>1, DirectorThings
  <2>2. Keeps(k, KeepNet) /\ Keeps(k, CreateNet)
    BY <2>1, WritesKeep, UnlessGives DEF KeepNet, CreateNet, Keeps
  <2>3. Keeps(k, n) BY <2>2, KeepsThen
  <2> HIDE DEF n, W
  <2> QED BY <2>3 DEF Keeps, Gives
<1>9. IsProgram(s) /\ Leads(k, Known(k, W), s, Q)
  <2> DEFINE P == Known(k, W)
             c == [op |-> "ask", x |-> "edge", states |-> Have, calls |-> p]
  <2>1. IsProgram(Vars) /\ Leads(k, P, Vars, P)
    <3> HIDE DEF W
    <3> QED BY <1>3 DEF Keeps, Gives
  <2>2. IsProgram(ApplyNetworks) /\ Leads(k, P, ApplyNetworks, Q)
    <3> HIDE DEF W
    <3> QED BY <1>0, ApplyNetworksLeads
  <2>3. IsProgram(p) BY <2>1, <2>2, JoinProgram
  <2>4. "edge" \in Concerned(k.setup) /\ Solid("edge") = Have BY <1>1, DirectorThings
  <2>5. P \subseteq Sound(k) /\ Lasts(k, P) BY KnownLasts
  <2>6. \A v \in P : v["edge"] \in Have => v \in Q
    <3>1. "edge" \notin Pledges(k) BY DEF Pledges
    <3> QED BY <2>4, <3>1 DEF Known, Bears
  <2>7. IsProgram(s) BY CallProgram DEF Ask
  <2>8. c.op = "ask" /\ c.x = "edge" /\ c.states = Have /\ c.calls = p /\ s = <<c>> BY DEF Ask, Call
  <2>9. \A v \in P : v \in P OBVIOUS
  <2> HIDE DEF P, Q, W
  <2>10. Leads(k, P, p, Q) BY <2>1, <2>2, ThenLeads
  <2> HIDE DEF c, p, s
  <2>11. c.op \in Branching BY <2>8 DEF Branching
  <2>12. \A v \in P : v[c.x] \in c.states \/ c.op = "spare" => v \in Q BY <2>6, <2>8
  <2>13. Leads(k, P, <<c>>, Q) BY <2>3, <2>4, <2>5, <2>8, <2>9, <2>10, <2>11, <2>12, BranchLeads
  <2> QED BY <2>7, <2>8, <2>13 DEF P
<1>10. VcdOrg = r \o u \o KeepNet \o CreateNet \o s BY DEF VcdOrg
<1>11. IsProgram(KeepNet) /\ IsProgram(CreateNet) BY CallProgram DEF KeepNet, CreateNet, Unless
<1>12. Q \subseteq Known(k, {"edge"})
  <2>1. {"edge"} \subseteq W \cup {"edge"} OBVIOUS
  <2> HIDE DEF W
  <2> QED BY <2>1, KnownMore
<1> HIDE DEF r, u, s, Q, W, g, p
<1>13. IsProgram(r \o u) /\ Leads(k, Known(k, {}), r \o u, Known(k, W)) BY <1>6, <1>7, ThenLeads, JoinProgram
<1>14. (r \o u) \o (KeepNet \o CreateNet) = (r \o u \o KeepNet) \o CreateNet BY <1>11, <1>13, JoinAssoc
<1>15. IsProgram((r \o u) \o n) /\ Leads(k, Known(k, {}), (r \o u) \o n, Known(k, W))
  <2> HIDE DEF n
  <2> QED BY <1>8, <1>13, ThenLeads, JoinProgram
<1>16. IsProgram(((r \o u) \o n) \o s) /\ Leads(k, Known(k, {}), ((r \o u) \o n) \o s, Q)
  <2> HIDE DEF n
  <2> QED BY <1>9, <1>15, ThenLeads, JoinProgram
<1>17. VcdOrg = ((r \o u) \o n) \o s BY <1>10, <1>14
<1>18. Known(k, {}) \subseteq Known(k, {}) OBVIOUS
<1> HIDE DEF n
<1> QED BY <1>12, <1>16, <1>17, <1>18, LessLeads

\* What the things of the extension need before they are set.
LEMMA ExtensionSets ==
  ASSUME NEW k \in Kinds, k.setup = "vcd"
  PROVE  /\ \A x \in {"org", "pluginMeta", "plugin", "keInterface", "keEntity", "capEntity", "cseUser",
                      "keConfig", "keRegistered", "token", "cseTemplate"} :
              Gives(k, {}, Set(x), {x}) /\ Gives(k, {}, Ensure(x), {x}) /\ Keeps(k, Set(x)) /\ Keeps(k, Ensure(x))
         /\ \A x \in {"cseCatalog", "k8sCatalog"} : Gives(k, {"org"}, Set(x), {})
         /\ \A x \in {"keAccess", "capAccess"} : Gives(k, {"org", "keEntity", "capEntity"}, Set(x), {})
         /\ Gives(k, {"orgNetwork", "cseTemplate", "keConfig", "token"}, Set("vapp"), {"vapp"})
<1>1. \A x \in {"org", "pluginMeta", "plugin", "keInterface", "keEntity", "capEntity", "cseUser", "keConfig",
                "keRegistered", "token", "cseTemplate", "cseCatalog", "k8sCatalog", "keAccess", "capAccess", "vapp"} :
        x \in (Director \cup {"cseTemplate"}) \ VcdVars /\ x # "vcdCloud"
  BY DEF Director, VcdVars
<1>2. ASSUME NEW x \in {"org", "pluginMeta", "plugin", "keInterface", "keEntity", "capEntity", "cseUser",
                        "keConfig", "keRegistered", "token", "cseTemplate"}
      PROVE  Gives(k, {}, Set(x), {x}) /\ Gives(k, {}, Ensure(x), {x}) /\ Keeps(k, Set(x)) /\ Keeps(k, Ensure(x))
  <2>1. Needs(k, x) = {} BY DirectorNeeds
  <2>2. Gives(k, {}, Set(x), {x}) /\ Gives(k, {}, Ensure(x), {x}) BY <1>1, <2>1, DirectorGives
  <2> QED BY <2>2, LessGives DEF Keeps
<1>3. ASSUME NEW x \in {"cseCatalog", "k8sCatalog"} PROVE Gives(k, {"org"}, Set(x), {})
  <2>1. Needs(k, x) = {"org"} BY DirectorNeeds
  <2>2. Gives(k, {"org"}, Set(x), {x}) BY <1>1, <2>1, DirectorGives
  <2> QED BY <2>2, LessGives
<1>4. ASSUME NEW x \in {"keAccess", "capAccess"} PROVE Gives(k, {"org", "keEntity", "capEntity"}, Set(x), {})
  <2>1. Needs(k, x) = {"org", "keEntity", "capEntity"} BY DirectorNeeds
  <2>2. Gives(k, {"org", "keEntity", "capEntity"}, Set(x), {x}) BY <1>1, <2>1, DirectorGives
  <2> QED BY <2>2, LessGives
<1>5. Gives(k, {"orgNetwork", "cseTemplate", "keConfig", "token"}, Set("vapp"), {"vapp"})
  <2>1. Needs(k, "vapp") = {"orgNetwork", "cseTemplate", "keConfig", "token"} BY DirectorNeeds
  <2> QED BY <1>1, <2>1, DirectorGives
<1> QED BY <1>2, <1>3, <1>4, <1>5

\* Catalogs and the images in them: create_files, find_file_in_catalog.
LEMMA UploadsGive ==
  ASSUME NEW k \in Kinds, k.setup = "vcd"
  PROVE  Gives(k, {}, Catalogs \o Uploads, {"kubeOva"})
<1>1. /\ \A x \in {"org", "cseCatalog", "k8sCatalog", "cseTemplate"} :
           x \in (Director \cup {"cseTemplate"}) \ VcdVars
      /\ "kubeOva" \in Free /\ {"cseFile", "kubeFile"} \subseteq Files
  BY DEF Director, VcdVars, Free, Plain, Pushed, Files
<1>2. Keeps(k, Catalogs)
  <2>1. Gives(k, {}, Find("org"), {"org"}) BY <1>1, DirectorGives
  <2>2. Gives(k, {"org"}, Set("cseCatalog"), {}) /\ Gives(k, {"org"}, Set("k8sCatalog"), {}) BY ExtensionSets
  <2>3. Gives(k, {}, Find("org") \o Set("cseCatalog"), {"org"}) BY <2>1, <2>2, ThenGives
  <2>4. Gives(k, {}, Find("org") \o Set("cseCatalog") \o Set("k8sCatalog"), {}) BY <2>2, <2>3, ThenGives
  <2>5. Gives(k, {}, Unless("k8sCatalog", Have, Find("org") \o Set("cseCatalog") \o Set("k8sCatalog")), {})
    BY <1>1, <2>4, DirectorGives
  <2> QED BY <1>1, <2>5, DirectorGives DEF Catalogs, Keeps
<1>3. ASSUME NEW f \in {"cseFile", "kubeFile"}, NEW c \in {"cseCatalog", "k8sCatalog"}
      PROVE  Keeps(k, Upload(f, c)) /\ (f = "kubeFile" => Gives(k, {}, Upload(f, c), {"kubeOva"}))
  <2>1. f \in Concerned(k.setup)
    <3>1. "cseFile" \in Concerned(k.setup)
      <4>1. "cseFile" \in (Director \cup {"cseTemplate", "cseFile"}) \ VcdVars BY DEF Director, VcdVars
      <4> QED BY <4>1, DirectorThings
    <3>2. "kubeFile" \in Concerned(k.setup)
      <4>1. "kubeFile" \in Common BY <1>1, CommonThings
      <4> QED BY <4>1, CommonConcerned
    <3> QED BY <3>1, <3>2
  <2>2. Keeps(k, Copy(f)) BY <1>1, <2>1, CopyGives
  <2>3. Keeps(k, Unless(f, {"partial", "there"}, Copy(f))) BY <2>1, <2>2, UnlessGives DEF Keeps
  <2>4. Keeps(k, Find(c)) BY <1>1, DirectorGives
  <2>5. Keeps(k, Find(f)) BY <2>1, LookGives DEF Find
  <2>6. Keeps(k, Set(Pushed(f))) /\ Pushed(f) \in Concerned(k.setup)
    <3>1. CASE f = "cseFile"
      <4>1. Pushed(f) = "cseTemplate" BY <3>1 DEF Pushed
      <4>2. "cseTemplate" \in (Director \cup {"cseTemplate", "cseFile"}) \ VcdVars BY <1>1
      <4>3. "cseTemplate" \in Concerned(k.setup) BY <4>2, DirectorThings
      <4>4. Keeps(k, Set("cseTemplate")) BY ExtensionSets
      <4> QED BY <4>1, <4>3, <4>4
    <3>2. CASE f = "kubeFile"
      <4>1. Pushed(f) = "kubeOva" BY <3>2 DEF Pushed
      <4> QED BY <1>1, <4>1, FreeGives, FreeThings
    <3> QED BY <3>1, <3>2
  <2>7. Keeps(k, Unless(Pushed(f), Have, Push(f)))
    <3>1. Keeps(k, Push(f)) BY <2>5, <2>6, KeepsThen DEF Push
    <3> QED BY <2>6, <3>1, UnlessGives DEF Keeps
  <2>8. ASSUME f = "kubeFile" PROVE Gives(k, {}, Upload(f, c), {"kubeOva"})
    <3>1. Pushed(f) = "kubeOva" BY <2>8 DEF Pushed
    <3>2. Gives(k, {}, Set("kubeOva"), {"kubeOva"}) BY <1>1, FreeGives
    <3>3. Gives(k, {}, Push(f), {"kubeOva"}) BY <2>5, <3>1, <3>2, GivesKept DEF Push
    <3>4. Gives(k, {}, Unless(Pushed(f), Have, Push(f)), {"kubeOva"}) BY <1>1, <3>1, <3>3, UnlessHas
    <3> QED BY <2>3, <2>4, <3>4, KeepsThen, GivesKept DEF Upload
  <2> QED BY <2>3, <2>4, <2>7, <2>8, KeepsThen DEF Upload
<1>4. Keeps(k, Upload("cseFile", "cseCatalog")) /\ Gives(k, {}, Upload("kubeFile", "k8sCatalog"), {"kubeOva"})
  BY <1>3
<1>5. Gives(k, {}, Uploads, {"kubeOva"}) BY <1>4, GivesKept DEF Uploads
<1> QED BY <1>2, <1>5, GivesKept

\* A type and who may use it: create_interfaces_entities.
LEMMA EntitiesGive ==
  ASSUME NEW k \in Kinds, k.setup = "vcd"
  PROVE  Gives(k, {}, Entities, {"keEntity", "capEntity"})
<1> DEFINE E == {"keEntity", "capEntity"}
           a == Unless("keEntity", Have,
                       Set("keEntity") \o Unless("capEntity", Have, Set("capEntity") \o KeAccess \o CapAccess))
           b == Unless("capEntity", Have, Set("capEntity") \o CapAccess)
<1>1. \A x \in {"org", "keEntity", "capEntity"} : x \in (Director \cup {"cseTemplate"}) \ VcdVars
  BY DEF Director, VcdVars
<1>2. Gives(k, {}, Find("org"), {"org"}) BY <1>1, DirectorGives
<1>3. Gives(k, E, KeAccess, {}) /\ Gives(k, E, CapAccess, {})
  <2>1. /\ Gives(k, {"org", "keEntity", "capEntity"}, Set("keAccess"), {})
        /\ Gives(k, {"org", "keEntity", "capEntity"}, Set("capAccess"), {})
    BY ExtensionSets
  <2>2. Gives(k, E, Find("org"), {"org"}) BY <1>2, LessGives
  <2> QED BY <2>1, <2>2, ThenGives DEF KeAccess, CapAccess
<1>4. Gives(k, {}, Set("capEntity"), {"capEntity"}) /\ Gives(k, {}, Set("keEntity"), {"keEntity"}) BY ExtensionSets
<1>5. Gives(k, {"keEntity"}, Set("capEntity"), E) BY <1>4, LessGives
<1>6. Gives(k, {"keEntity"}, Set("capEntity") \o KeAccess \o CapAccess, {})
  <2>1. Gives(k, {"keEntity"}, Set("capEntity") \o KeAccess, E) BY <1>3, <1>5, ThenGives
  <2> QED BY <1>3, <2>1, ThenGives
<1>7. Gives(k, {"keEntity"}, b, {"capEntity"})
  <2>1. Gives(k, {"keEntity"}, Set("capEntity") \o CapAccess, {"capEntity"}) BY <1>3, <1>5, ThenGives
  <2> QED BY <1>1, <2>1, DirectorGives
<1>8. Gives(k, {}, a, {"keEntity"})
  <2>1. Gives(k, {"keEntity"}, Unless("capEntity", Have, Set("capEntity") \o KeAccess \o CapAccess), {})
    BY <1>1, <1>6, DirectorGives
  <2>2. Gives(k, {}, Set("keEntity") \o Unless("capEntity", Have, Set("capEntity") \o KeAccess \o CapAccess),
              {"keEntity"})
    BY <1>4, <2>1, ThenGives
  <2> QED BY <1>1, <2>2, DirectorGives
<1>9. Keeps(k, Ensure("keInterface")) BY ExtensionSets
<1>10. Entities = Ensure("keInterface") \o a \o b BY DEF Entities
<1> HIDE DEF a, b, E
<1>11. Gives(k, {}, Ensure("keInterface") \o a, {"keEntity"}) BY <1>8, <1>9, GivesKept
<1>12. Gives(k, {}, Ensure("keInterface") \o a \o b, {"keEntity", "capEntity"}) BY <1>7, <1>11, ThenGives
<1> QED BY <1>10, <1>12

\* What cse_server_configuration sets up.
CseOwn == {"kubeOva", "plugin", "keEntity", "capEntity", "cseUser", "vapp"}

\* The extension: cse_server_configuration.
LEMMA VcdExtensionGives ==
  ASSUME NEW k \in Kinds, k.setup = "vcd"
  PROVE  Gives(k, {}, VcdExtension, CseOwn)
<1>1. \A x \in {"keConfig", "token", "cseUser", "cseTemplate", "orgNetwork"} :
        x \in (Director \cup {"cseTemplate"}) \ VcdVars
  BY DEF Director, VcdVars
<1> DEFINE C == {"plugin", "keEntity", "capEntity"}
<1>2. Gives(k, {}, CsePlugin, C)
  <2>1. Keeps(k, Ensure("pluginMeta")) /\ Gives(k, {}, Ensure("plugin"), {"plugin"}) BY ExtensionSets
  <2>2. Gives(k, {}, Plugin, {"plugin"}) BY <2>1, GivesKept DEF Plugin
  <2> QED BY <2>2, EntitiesGive, ThenGives DEF CsePlugin
<1>3. Gives(k, {}, Ensure("cseUser"), {"cseUser"}) BY ExtensionSets
<1>4. Gives(k, {}, ServerConfig, {"keConfig"})
  <2>1. Gives(k, {}, Set("keConfig"), {"keConfig"}) /\ Keeps(k, Set("keRegistered")) BY ExtensionSets
  <2>2. Gives(k, {}, Set("keConfig") \o Set("keRegistered"), {"keConfig"}) BY <2>1, GivesKept
  <2> QED BY <1>1, <2>2, DirectorGives DEF ServerConfig
<1>5. Gives(k, {}, AccessToken, {"token"})
  <2>1. Gives(k, {}, Set("token"), {"token"}) BY ExtensionSets
  <2>2. Keeps(k, Find("cseUser")) BY <1>1, DirectorGives
  <2>3. Gives(k, {}, Find("cseUser") \o Set("token"), {"token"}) BY <2>1, <2>2, GivesKept
  <2> QED BY <1>1, <2>3, DirectorGives DEF AccessToken
<1>6. Gives(k, {"keConfig", "token"}, Vapp, {"vapp"})
  <2>1. Gives(k, {}, Find("cseTemplate"), {"cseTemplate"}) /\ Gives(k, {}, Find("orgNetwork"), {"orgNetwork"})
    BY <1>1, DirectorGives
  <2>2. Gives(k, {}, Find("cseTemplate") \o Find("orgNetwork"), {"cseTemplate", "orgNetwork"})
    BY <2>1, ThenGives
  <2>3. Gives(k, {"keConfig", "token"}, Find("cseTemplate") \o Find("orgNetwork"), {"cseTemplate", "orgNetwork"})
    BY <2>2, LessGives
  <2>4. Gives(k, {"orgNetwork", "cseTemplate", "keConfig", "token"}, Set("vapp"), {"vapp"}) BY ExtensionSets
  <2> QED BY <2>3, <2>4, ThenGives DEF Vapp
<1> DEFINE a == Catalogs \o Uploads
           r == a \o CsePlugin \o Ensure("cseUser") \o ServerConfig \o AccessToken
           D == {"kubeOva", "plugin", "keEntity", "capEntity", "cseUser", "keConfig", "token"}
<1>7. Gives(k, {}, a, {"kubeOva"}) BY UploadsGive
<1>8. Gives(k, {}, r, D)
  <2> HIDE DEF a
  <2>1. Gives(k, {}, a \o CsePlugin, {"kubeOva", "plugin", "keEntity", "capEntity"}) BY <1>2, <1>7, ThenGives
  <2>2. Gives(k, {}, a \o CsePlugin \o Ensure("cseUser"),
              {"kubeOva", "plugin", "keEntity", "capEntity", "cseUser"})
    BY <1>3, <2>1, ThenGives
  <2>3. Gives(k, {}, a \o CsePlugin \o Ensure("cseUser") \o ServerConfig,
              {"kubeOva", "plugin", "keEntity", "capEntity", "cseUser", "keConfig"})
    BY <1>4, <2>2, ThenGives
  <2> QED BY <1>5, <2>3, ThenGives
<1>9. VcdExtension = r \o Vapp BY DEF VcdExtension
<1> HIDE DEF r, a
<1> QED BY <1>6, <1>8, <1>9, ThenGives DEF CseOwn

-----------------------------------------------------------------------------
(* What the stages have to show for themselves.                            *)

\* What a stage that was answered has set up and what is to be kept; what this rests on
\* is set up with it.
Own(s) ==
  CASE s = "env"      -> {"segments", "groups", "services", "rules"} \cup (IF setup = "vcf" THEN {"policy"} ELSE {})
    [] s = "alb"      -> IF setup \in Pipelines THEN {}
                         ELSE AlbOwn \cup IF setup = "vcd" THEN {"vcdCtrl"} ELSE {}
    [] s = "mgmt"     -> CASE setup = "vmc"          -> VmcManagementOwn
                           [] setup \in Pipelines    -> {"mgmtMade"}
                           [] OTHER                  -> {"mgmt"} \cup CloudOwn
    [] s = "shared"   -> CASE setup = "vmc"          -> {"harbor"}
                           [] setup \in Pipelines    -> {"sharedRuns"}
                           [] OTHER                  -> {"label", "harbor"}
    [] s = "wpre"     -> IF setup = "vmc" THEN {"workPool"} \cup WorkEnginesOwn ELSE PreconfigOwn
    [] s = "workload" -> CASE setup = "vmc"          -> {"workRules", "mgwRule", "workRuns"}
                           [] setup \in Supervised   -> {}
                           [] setup \in Pipelines \ Supervised -> {"workRuns"}
                           [] OTHER                  -> {"workload", "workAko"}
    [] s = "ext"      -> IF setup \in Pipelines THEN {} ELSE {"prometheus", "grafana", "fluent"}
    [] s = "wcp"      -> WcpOwn
    [] s = "enable"   -> {IF setup = "tkgs" THEN "superServed" ELSE "superMade"}
    [] s = "ns"       -> {}
    [] s = "cloud"    -> {"cloud", "mgmtGroup", "imported"}
    [] s = "org"      -> {"edge"}
    [] s = "cse"      -> CseOwn
    [] s = "shutdown" -> {"shut"}
    [] s = "bringup"  -> {"superRuns"}

\* The stages of each setup.
LEMMA StagesAre ==
  /\ setup \in {"vcf", "vmc"} => Stages = {"env", "alb", "mgmt", "shared", "wpre", "workload", "ext"}
  /\ setup \in {"orchestrated", "manual"} => Stages = {"alb", "mgmt", "shared", "wpre", "workload", "ext"}
  /\ setup = "tkgs" => Stages = {"alb", "wcp", "enable", "ns", "workload", "ext", "shutdown", "bringup"}
  /\ setup = "pipelineTkgs" => Stages = {"alb", "wcp", "enable", "ns", "workload", "ext"}
  /\ setup \in Pipelines \ Supervised => Stages = {"alb", "mgmt", "shared", "workload", "ext"}
  /\ setup = "vcd" => Stages = {"alb", "cloud", "org", "cse"}
<1>1. ASSUME setup \in {"vcf", "vmc"} PROVE Stages = {"env", "alb", "mgmt", "shared", "wpre", "workload", "ext"}
  <2>1. Order = <<"env", "alb", "mgmt", "shared", "wpre", "workload", "ext">>
    BY <1>1 DEF Order, Pipelines, Supervised
  <2> QED BY <2>1 DEF Stages
<1>2. ASSUME setup \in {"orchestrated", "manual"} PROVE Stages = {"alb", "mgmt", "shared", "wpre", "workload", "ext"}
  <2>1. Order = <<"alb", "mgmt", "shared", "wpre", "workload", "ext">>
    BY <1>2 DEF Order, Pipelines, Supervised
  <2> QED BY <2>1 DEF Stages
<1>3. ASSUME setup = "tkgs"
      PROVE  Stages = {"alb", "wcp", "enable", "ns", "workload", "ext", "shutdown", "bringup"}
  <2>1. Order = <<"alb", "wcp", "enable", "ns", "workload", "ext", "shutdown", "bringup">>
    BY <1>3 DEF Order, Pipelines, Supervised
  <2> QED BY <2>1 DEF Stages
<1>4. ASSUME setup = "pipelineTkgs" PROVE Stages = {"alb", "wcp", "enable", "ns", "workload", "ext"}
  <2>1. Order = <<"alb", "wcp", "enable", "ns", "workload", "ext">>
    BY <1>4 DEF Order, Pipelines, Supervised
  <2> QED BY <2>1 DEF Stages
<1>5. ASSUME setup \in Pipelines \ Supervised PROVE Stages = {"alb", "mgmt", "shared", "workload", "ext"}
  <2>1. Order = <<"alb", "mgmt", "shared", "workload", "ext">>
    BY <1>5 DEF Order, Pipelines, Supervised
  <2> QED BY <2>1 DEF Stages
<1>6. ASSUME setup = "vcd" PROVE Stages = {"alb", "cloud", "org", "cse"}
  <2>1. Order = <<"alb", "cloud", "org", "cse">> BY <1>6 DEF Order, Pipelines, Supervised
  <2> QED BY <2>1 DEF Stages
<1> QED BY <1>1, <1>2, <1>3, <1>4, <1>5, <1>6

\* The program of a stage leads to what the stage has to show, and keeps what was known;
\* where it may end with 200 before its time, there is nothing to show.
LEMMA StageGives ==
  ASSUME NEW k \in Kinds, k.mode # "bare", setup = k.setup, NEW s \in Stages \ {"shutdown", "cloud", "org"},
         k.goal = {} \/ Own(s) # {}
  PROVE  Gives(k, {}, Program(s), Own(s))
<1>1. CASE setup \in {"orchestrated", "manual", "vcf"}
  <2>1. s \in {"env", "alb", "mgmt", "shared", "wpre", "workload", "ext"} BY <1>1, StagesAre DEF Pipelines, Supervised
  <2>2. CASE s = "env"
    <3>1. Program(s) = VcfNetwork(FALSE) BY <1>1, <2>2 DEF Program, VsphereProgram, Pipelines, Supervised
    <3>2. setup = "vcf" BY <1>1, <2>2, StagesAre DEF Pipelines, Supervised
    <3>3. Own(s) = {"segments", "groups", "services", "policy", "rules"} BY <2>2, <3>2 DEF Own
    <3> QED BY <3>1, <3>3, NetworksGive
  <2>3. CASE s = "alb"
    <3>1. Program(s) = NsxAlb BY <1>1, <2>3 DEF Program, VsphereProgram, Pipelines, Supervised
    <3>2. Own(s) = AlbOwn BY <1>1, <2>3 DEF Own, Pipelines, Supervised
    <3> QED BY <1>1, <3>1, <3>2, NsxAlbGives
  <2>4. CASE s = "mgmt"
    <3>1. Program(s) = ManagementStage BY <1>1, <2>4 DEF Program, VsphereProgram, Pipelines, Supervised
    <3>2. Own(s) = {"mgmt"} \cup CloudOwn BY <1>1, <2>4 DEF Own, Pipelines, Supervised
    <3> QED BY <1>1, <3>1, <3>2, ManagementStageGives
  <2>5. CASE s = "shared"
    <3>1. Program(s) = SharedServices BY <1>1, <2>5 DEF Program, VsphereProgram, Pipelines, Supervised
    <3>2. Own(s) = {"label", "harbor"} BY <1>1, <2>5 DEF Own, Pipelines, Supervised
    <3> QED BY <1>1, <3>1, <3>2, SharedServicesGive
  <2>6. CASE s = "wpre"
    <3>1. Program(s) = WorkloadPreconfig BY <1>1, <2>6 DEF Program, VsphereProgram, Pipelines, Supervised
    <3>2. Own(s) = PreconfigOwn BY <1>1, <2>6 DEF Own, Pipelines, Supervised
    <3> QED BY <1>1, <3>1, <3>2, WorkloadPreconfigGives
  <2>7. CASE s = "workload"
    <3>1. Program(s) = WorkloadStage BY <1>1, <2>7 DEF Program, VsphereProgram, Pipelines, Supervised
    <3>2. Own(s) = {"workload", "workAko"} BY <1>1, <2>7 DEF Own, Pipelines, Supervised
    <3> QED BY <1>1, <3>1, <3>2, GuestStagesGive
  <2>8. CASE s = "ext"
    <3>1. Program(s) = Extensions BY <1>1, <2>8 DEF Program, VsphereProgram, Pipelines, Supervised
    <3>2. Own(s) = {"prometheus", "grafana", "fluent"} BY <1>1, <2>8 DEF Own, Pipelines, Supervised
    <3> QED BY <1>1, <3>1, <3>2, ExtensionsGive DEF Supervised, Pipelines
  <2> QED BY <2>1, <2>2, <2>3, <2>4, <2>5, <2>6, <2>7, <2>8
<1>2. CASE setup = "vmc"
  <2>1. s \in {"env", "alb", "mgmt", "shared", "wpre", "workload", "ext"} BY <1>2, StagesAre DEF Pipelines, Supervised
  <2>2. CASE s = "env"
    <3>1. Program(s) = VmcNetwork BY <1>2, <2>2 DEF Program, VmcProgram, Pipelines, Supervised
    <3>2. Own(s) = {"segments", "groups", "services", "rules"} BY <1>2, <2>2 DEF Own, Pipelines, Supervised
    <3> QED BY <1>2, <3>1, <3>2, NetworksGive
  <2>3. CASE s = "alb"
    <3>1. Program(s) = VmcAlb BY <1>2, <2>3 DEF Program, VmcProgram, Pipelines, Supervised
    <3>2. Own(s) = AlbOwn BY <1>2, <2>3 DEF Own, Pipelines, Supervised
    <3> QED BY <1>2, <3>1, <3>2, VmcAlbGives
  <2>4. CASE s = "mgmt"
    <3>1. Program(s) = VmcManagementStage BY <1>2, <2>4 DEF Program, VmcProgram, Pipelines, Supervised
    <3>2. Own(s) = VmcManagementOwn BY <1>2, <2>4 DEF Own, Pipelines, Supervised
    <3> QED BY <1>2, <3>1, <3>2, VmcManagementGives
  <2>5. CASE s = "shared"
    <3>1. Program(s) = VmcSharedServices BY <1>2, <2>5 DEF Program, VmcProgram, Pipelines, Supervised
    <3>2. Own(s) = {"harbor"} BY <1>2, <2>5 DEF Own, Pipelines, Supervised
    <3> QED BY <1>2, <3>1, <3>2, SharedServicesGive
  <2>6. CASE s = "wpre"
    <3>1. Program(s) = VmcPreconfig BY <1>2, <2>6 DEF Program, VmcProgram, Pipelines, Supervised
    <3>2. Own(s) = {"workPool"} \cup WorkEnginesOwn BY <1>2, <2>6 DEF Own, Pipelines, Supervised
    <3> QED BY <1>2, <3>1, <3>2, VmcPreconfigGives
  <2>7. CASE s = "workload"
    <3>1. Program(s) = VmcWorkload BY <1>2, <2>7 DEF Program, VmcProgram, Pipelines, Supervised
    <3>2. Own(s) = {"workRules", "mgwRule", "workRuns"} BY <1>2, <2>7 DEF Own, Pipelines, Supervised
    <3> QED BY <1>2, <3>1, <3>2, VmcWorkloadGives
  <2>8. CASE s = "ext"
    <3>1. Program(s) = Extensions BY <1>2, <2>8 DEF Program, VmcProgram, Pipelines, Supervised
    <3>2. Own(s) = {"prometheus", "grafana", "fluent"} BY <1>2, <2>8 DEF Own, Pipelines, Supervised
    <3> QED BY <1>2, <3>1, <3>2, ExtensionsGive DEF Supervised, Pipelines
  <2> QED BY <2>1, <2>2, <2>3, <2>4, <2>5, <2>6, <2>7, <2>8
<1>3. CASE setup = "tkgs"
  <2>1. s \in {"alb", "wcp", "enable", "ns", "workload", "ext", "bringup"} BY <1>3, StagesAre
  <2>2. CASE s = "alb"
    <3>1. Program(s) = NsxAlb BY <1>3, <2>2 DEF Program, TkgsProgram, Pipelines, Supervised
    <3>2. Own(s) = AlbOwn BY <1>3, <2>2 DEF Own, Pipelines, Supervised
    <3> QED BY <1>3, <3>1, <3>2, NsxAlbGives
  <2>3. CASE s = "wcp"
    <3>1. Program(s) = TkgsConfig BY <1>3, <2>3 DEF Program, TkgsProgram, Pipelines, Supervised
    <3>2. Own(s) = WcpOwn BY <1>3, <2>3 DEF Own, Pipelines, Supervised
    <3> QED BY <1>3, <3>1, <3>2, TkgsConfigGives DEF Supervised, Pipelines
  <2>4. CASE s = "enable"
    <3>1. Program(s) = TkgsEnableStage BY <1>3, <2>4 DEF Program, TkgsProgram, Pipelines, Supervised
    <3>2. Own(s) = {"superServed"} BY <1>3, <2>4 DEF Own, Pipelines, Supervised
    <3> QED BY <1>3, <3>1, <3>2, EnableGives
  <2>5. CASE s = "ns"
    <3>1. Program(s) = TkgsNamespace BY <1>3, <2>5 DEF Program, TkgsProgram, Pipelines, Supervised
    <3>2. Own(s) = {} BY <1>3, <2>5 DEF Own, Pipelines, Supervised
    <3>3. k.goal = {} BY <3>2
    <3> QED BY <1>3, <3>1, <3>2, <3>3, NamespaceKeeps DEF Keeps
  <2>6. CASE s = "workload"
    <3>1. Program(s) = TkgsWorkload BY <1>3, <2>6 DEF Program, TkgsProgram, Pipelines, Supervised
    <3>2. Own(s) = {} BY <1>3, <2>6 DEF Own, Pipelines, Supervised
    <3>3. k.goal = {} BY <3>2
    <3> QED BY <1>3, <3>1, <3>2, <3>3, SupervisedWorkloadKeeps DEF Keeps, Supervised, Pipelines
  <2>7. CASE s = "ext"
    <3>1. Program(s) = TkgsExtensions BY <1>3, <2>7 DEF Program, TkgsProgram, Pipelines, Supervised
    <3>2. Own(s) = {"prometheus", "grafana", "fluent"} BY <1>3, <2>7 DEF Own, Pipelines, Supervised
    <3> QED BY <1>3, <3>1, <3>2, TkgsExtensionsGive DEF Supervised, Pipelines
  <2>8. CASE s = "bringup"
    <3>1. Program(s) = WcpBringup BY <1>3, <2>8 DEF Program, TkgsProgram, Pipelines, Supervised
    <3>2. Own(s) = {"superRuns"} BY <1>3, <2>8 DEF Own, Pipelines, Supervised
    <3> QED BY <1>3, <3>1, <3>2, PowerKeeps
  <2> QED BY <2>1, <2>2, <2>3, <2>4, <2>5, <2>6, <2>7, <2>8
<1>4. CASE setup = "pipelineTkgs"
  <2>1. s \in {"alb", "wcp", "enable", "ns", "workload", "ext"} BY <1>4, StagesAre DEF Pipelines, Supervised
  <2>2. CASE s = "alb"
    <3>1. Program(s) = GitAlb BY <1>4, <2>2 DEF Program, TkgsPipelineProgram, Pipelines, Supervised
    <3>2. Own(s) = {} BY <1>4, <2>2 DEF Own, Pipelines, Supervised
    <3>3. k.goal = {} BY <3>2
    <3> QED BY <1>4, <3>1, <3>2, <3>3, GitAlbKeeps DEF Keeps
  <2>3. CASE s = "wcp"
    <3>1. Program(s) = GitTkgsConfig BY <1>4, <2>3 DEF Program, TkgsPipelineProgram, Pipelines, Supervised
    <3>2. Own(s) = WcpOwn BY <1>4, <2>3 DEF Own, Pipelines, Supervised
    <3> QED BY <1>4, <3>1, <3>2, GitTkgsConfigGives DEF Supervised, Pipelines
  <2>4. CASE s = "enable"
    <3>1. Program(s) = GitEnableTask BY <1>4, <2>4 DEF Program, TkgsPipelineProgram, Pipelines, Supervised
    <3>2. Own(s) = {"superMade"} BY <1>4, <2>4 DEF Own, Pipelines, Supervised
    <3> QED BY <1>4, <3>1, <3>2, EnableGives
  <2>5. CASE s = "ns"
    <3>1. Program(s) = GitNamespace BY <1>4, <2>5 DEF Program, TkgsPipelineProgram, Pipelines, Supervised
    <3>2. Own(s) = {} BY <1>4, <2>5 DEF Own, Pipelines, Supervised
    <3>3. k.goal = {} BY <3>2
    <3> QED BY <1>4, <3>1, <3>2, <3>3, NamespaceKeeps DEF Keeps
  <2>6. CASE s = "workload"
    <3>1. Program(s) = GitTkgsWorkload BY <1>4, <2>6 DEF Program, TkgsPipelineProgram, Pipelines, Supervised
    <3>2. Own(s) = {} BY <1>4, <2>6 DEF Own, Pipelines, Supervised
    <3>3. k.goal = {} BY <3>2
    <3> QED BY <1>4, <3>1, <3>2, <3>3, SupervisedWorkloadKeeps DEF Keeps, Supervised, Pipelines
  <2>7. CASE s = "ext"
    <3>1. Program(s) = GitTkgsExtensions BY <1>4, <2>7 DEF Program, TkgsPipelineProgram, Pipelines, Supervised
    <3>2. Own(s) = {} BY <1>4, <2>7 DEF Own, Pipelines, Supervised
    <3> QED BY <1>4, <3>1, <3>2, GitTkgsExtensionsKeep DEF Keeps
  <2> QED BY <2>1, <2>2, <2>3, <2>4, <2>5, <2>6, <2>7
<1>5. CASE setup \in {"pipeline", "pipelineVcf"}
  <2>1. s \in {"alb", "mgmt", "shared", "workload", "ext"} BY <1>5, StagesAre DEF Pipelines, Supervised
  <2>2. CASE s = "alb"
    <3>1. Program(s) = GitAlb BY <1>5, <2>2 DEF Program, PipelineProgram, Pipelines, Supervised
    <3>2. Own(s) = {} BY <1>5, <2>2 DEF Own, Pipelines, Supervised
    <3>3. k.goal = {} BY <3>2
    <3> QED BY <1>5, <3>1, <3>2, <3>3, GitAlbKeeps DEF Keeps
  <2>3. CASE s = "mgmt"
    <3>1. Program(s) = GitManagement BY <1>5, <2>3 DEF Program, PipelineProgram, Pipelines, Supervised
    <3>2. Own(s) = {"mgmtMade"} BY <1>5, <2>3 DEF Own, Pipelines, Supervised
    <3> QED BY <1>5, <3>1, <3>2, GitManagementGives
  <2>4. CASE s = "shared"
    <3>1. Program(s) = GitShared BY <1>5, <2>4 DEF Program, PipelineProgram, Pipelines, Supervised
    <3>2. Own(s) = {"sharedRuns"} BY <1>5, <2>4 DEF Own, Pipelines, Supervised
    <3> QED BY <1>5, <3>1, <3>2, GitSharedGives DEF Supervised, Pipelines, InPipeline
  <2>5. CASE s = "workload"
    <3>1. Program(s) = GitWorkload BY <1>5, <2>5 DEF Program, PipelineProgram, Pipelines, Supervised
    <3>2. Own(s) = {"workRuns"} BY <1>5, <2>5 DEF Own, Pipelines, Supervised
    <3> QED BY <1>5, <3>1, <3>2, GitWorkloadGives DEF Supervised, Pipelines, InPipeline
  <2>6. CASE s = "ext"
    <3>1. Program(s) = GitExtensions BY <1>5, <2>6 DEF Program, PipelineProgram, Pipelines, Supervised
    <3>2. Own(s) = {} BY <1>5, <2>6 DEF Own, Pipelines, Supervised
    <3> QED BY <1>5, <3>1, <3>2, GitExtensionsKeep DEF Keeps, Supervised, Pipelines
  <2> QED BY <2>1, <2>2, <2>3, <2>4, <2>5, <2>6
<1>6. CASE setup = "vcd"
  <2>1. s \in {"alb", "cse"} BY <1>6, StagesAre
  <2>2. CASE s = "alb"
    <3>1. Program(s) = VcdAlb BY <1>6, <2>2 DEF Program, VcdProgram, Pipelines, Supervised
    <3>2. Own(s) = AlbOwn \cup {"vcdCtrl"} BY <1>6, <2>2 DEF Own, Pipelines, Supervised
    <3> QED BY <1>6, <3>1, <3>2, VcdAlbGives
  <2>3. CASE s = "cse"
    <3>1. Program(s) = VcdExtension BY <1>6, <2>3 DEF Program, VcdProgram, Pipelines, Supervised
    <3>2. Own(s) = CseOwn BY <1>6, <2>3 DEF Own, Pipelines, Supervised
    <3> QED BY <1>6, <3>1, <3>2, VcdExtensionGives
  <2> QED BY <2>1, <2>2, <2>3
<1> QED BY <1>1, <1>2, <1>3, <1>4, <1>5, <1>6 DEF Kinds, SetupKinds, Pipelines

\* From a well-founded world the program of each stage leads to one in which what was to
\* be kept is kept; those about to change it are left out.
LEMMA ProgramKeeps ==
  ASSUME NEW k \in Kinds, k.mode # "bare", setup = k.setup, NEW s \in Stages, k.goal = {},
         ~ k.whole \/ s \notin {"shutdown", "cloud"}
  PROVE  IsProgram(Program(s)) /\ Leads(k, Known(k, {}), Program(s), Known(k, {}))
<1>1. ASSUME NEW Y, Gives(k, {}, Program(s), Y)
      PROVE  IsProgram(Program(s)) /\ Leads(k, Known(k, {}), Program(s), Known(k, {}))
  <2>1. Gives(k, {}, Program(s), {}) BY <1>1, LessGives
  <2>2. {} \cup {} = {} OBVIOUS
  <2> QED BY <2>1, <2>2 DEF Gives
<1>2. CASE s \notin {"shutdown", "cloud", "org"} BY <1>1, <1>2, StageGives
<1>3. CASE s = "shutdown"
  <2>1. setup = "tkgs" BY <1>3, StagesAre DEF Kinds, SetupKinds, Pipelines, Supervised
  <2>2. Program(s) = WcpShutdown BY <1>3, <2>1 DEF Program, TkgsProgram, Pipelines, Supervised
  <2>3. Keeps(k, WcpShutdown) BY <1>3, <2>1, PowerKeeps
  <2> QED BY <1>1, <2>2, <2>3 DEF Keeps
<1>4. CASE s \in {"cloud", "org"}
  <2>1. setup = "vcd" BY <1>4, StagesAre DEF Kinds, SetupKinds, Pipelines, Supervised
  <2>2. ASSUME NEW W PROVE Known(k, W) \subseteq Known(k, {}) BY KnownMore
  <2>3. CASE s = "cloud"
    <3>1. Program(s) = VcdCloud BY <2>1, <2>3 DEF Program, VcdProgram, Pipelines, Supervised
    <3>2. IsProgram(VcdCloud) /\ Leads(k, Known(k, {}), VcdCloud, Known(k, {"cloud", "mgmtGroup", "imported"}))
      BY <2>1, <2>3, VcdCloudLeads
    <3> QED BY <2>2, <3>1, <3>2, LessLeads
  <2>4. CASE s = "org"
    <3>1. Program(s) = VcdOrg BY <2>1, <2>4 DEF Program, VcdProgram, Pipelines, Supervised
    <3>2. IsProgram(VcdOrg) /\ Leads(k, Known(k, {}), VcdOrg, Known(k, {"edge"})) BY <2>1, VcdOrgLeads
    <3> QED BY <2>2, <3>1, <3>2, LessLeads
  <2> QED BY <1>4, <2>3, <2>4
<1> QED BY <1>2, <1>3, <1>4

\* It leads to each thing the stage has to show.
LEMMA ProgramGives ==
  ASSUME NEW k \in Kinds, k.mode # "bare", setup = k.setup, NEW s \in Stages, NEW y \in Own(s), k.kept = {}
  PROVE  IsProgram(Program(s)) /\ Leads(k, Known(k, {}), Program(s), Known(k, {y}))
<1>1. ASSUME NEW Y, y \in Y, IsProgram(Program(s)), Leads(k, Known(k, {}), Program(s), Known(k, Y))
      PROVE  IsProgram(Program(s)) /\ Leads(k, Known(k, {}), Program(s), Known(k, {y}))
  <2>1. Known(k, Y) \subseteq Known(k, {y}) BY <1>1, KnownMore
  <2> QED BY <1>1, <2>1, LessLeads
<1>2. CASE s \notin {"shutdown", "cloud", "org"}
  <2>1. Gives(k, {}, Program(s), Own(s)) BY <1>2, StageGives
  <2>2. {} \cup Own(s) = Own(s) OBVIOUS
  <2>3. IsProgram(Program(s)) /\ Leads(k, Known(k, {}), Program(s), Known(k, Own(s))) BY <2>1, <2>2 DEF Gives
  <2> QED BY <1>1, <2>3
<1>3. CASE s = "shutdown"
  <2>1. setup = "tkgs" BY <1>3, StagesAre DEF Kinds, SetupKinds, Pipelines, Supervised
  <2>2. Program(s) = WcpShutdown BY <1>3, <2>1 DEF Program, TkgsProgram, Pipelines, Supervised
  <2>3. Own(s) = {"shut"} BY <1>3 DEF Own
  <2> QED BY <1>1, <2>1, <2>2, <2>3, ShutdownLeads
<1>4. CASE s \in {"cloud", "org"}
  <2>1. setup = "vcd" BY <1>4, StagesAre DEF Kinds, SetupKinds, Pipelines, Supervised
  <2>2. CASE s = "cloud"
    <3>1. Program(s) = VcdCloud BY <2>1, <2>2 DEF Program, VcdProgram, Pipelines, Supervised
    <3>2. Own(s) = {"cloud", "mgmtGroup", "imported"} BY <2>2 DEF Own
    <3> QED BY <1>1, <2>1, <3>1, <3>2, VcdCloudLeads
  <2>3. CASE s = "org"
    <3>1. Program(s) = VcdOrg BY <2>1, <2>3 DEF Program, VcdProgram, Pipelines, Supervised
    <3>2. Own(s) = {"edge"} BY <2>3 DEF Own
    <3> QED BY <1>1, <2>1, <3>1, <3>2, VcdOrgLeads
  <2> QED BY <1>4, <2>2, <2>3
<1> QED BY <1>2, <1>3, <1>4

=============================================================================
