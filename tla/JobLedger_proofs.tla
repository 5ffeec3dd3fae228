--------------------------- MODULE JobLedger_proofs ---------------------------
(***************************************************************************)
(* That the status file implements the ledger, with one operator's command *)
(* line and any number of threads, as long as the server does not end.      *)
(***************************************************************************)
EXTENDS JobTurns_proofs, JobRefinement

Absent == "absent"

Unstarted == \A j \in Jobs : Entries[j] \in {NotStarted, NotApplicable, Absent}

\* Operation i of a script is made on a list without a verdict.
Early(s, i) ==
  /\ \A k \in 1..(i-1) : s[k].kind = "update" => s[k].to = NotApplicable
  /\ Unstarted \/ \E k \in 1..(i-1) : s[k].kind # "update"

\* Operation i of a script will be an event of the ledger.
Fits(s, i) ==
  LET op == s[i] IN
  /\ op.kind = "truncate" => i = 1
  /\ op.kind = "update" =>
       \/ op.to = InProgress
       \/ op.to = NotApplicable /\ Early(s, i)
       \/ op = Update(Passed, "CLEANUP") /\ Early(s, i)
       \/ op = Update(Failed, "CLEANUP")
       \/ i = 1 /\ op.to \in {Passed, Failed} /\ Entries[op.job] \in {InProgress, op.to, Absent}
       \/ op = Update(Skipped, "PRECHECK")
            /\ \/ i = 1 /\ Entries["PRECHECK"] \in {Passed, Absent}
               \/ i = 2 /\ s[1] = Update(Passed, "PRECHECK")

Fitting(s) == \A i \in 1..Len(s) : Fits(s, i)

Scripts == \A a \in Actors : Fitting(todo[a])

\* Once the script is made the file holds a list of the environment.
Lists(s, e) ==
  \/ \E i \in 1..Len(s) : s[i] = Insert(e)
  \/ Knows(e) /\ \A i \in 1..Len(s) : s[i].kind # "truncate"

\* The command line has a job in hand that check_db_file was called for.
InCall(c) == pc[c] \in {"mark", "send", "wait"} /\ Job(c) # "CLEANUP"

\* A job in progress whose answer is x, or is not known yet, may show the
\* verdict the server has recorded.
Shown(s, x) == s = InProgress \/ (x = "200" /\ s = Passed) \/ (x = "500" /\ s = Failed)

CliPlace(c) ==
  /\ inbox[c] # "lost"
  /\ pc[c] = "prompt" => Job(c) = "CLEANUP"
  /\ InCall(c) => Lists(todo[c], run[c].dep.env)
  /\ pc[c] = "send" => todo[c] \in {<<>>, <<Update(InProgress, Job(c))>>}
  /\ InCall(c) /\ pc[c] = "send" /\ todo[c] = <<>> => Entries[Job(c)] = InProgress
  /\ InCall(c) /\ pc[c] = "wait" /\ inbox[c] # "none" => Shown(Entries[Job(c)], inbox[c])

\* What a thread records in each part of its handler.
Late == {"work", "200", "500"}

Recorded(t) ==
  CASE pc[t] = "work" -> InProgress [] pc[t] = "200" -> Passed [] pc[t] = "500" -> Failed

ThreadPlace(t) ==
  /\ req[t].dep = run[req[t].client].dep
  /\ req[t].job # "CLEANUP" => Shown(Entries[req[t].job], pc[t])
  /\ req[t].job # "CLEANUP" /\ pc[t] \notin Late => todo[t] = <<>>
  /\ pc[t] \in Late => todo[t] \in {<<>>, <<Update(Recorded(t), MarkedBy(t))>>}
  /\ pc[t] = "work" /\ todo[t] = <<>> /\ MarkedBy(t) # NoJob =>
       Entries[MarkedBy(t)] \in {InProgress, Absent}

CliPlaces == \A c \in Clis : CliPlace(c)

ThreadPlaces == \A t \in Threads : Serving(t) => ThreadPlace(t)

\* The inductive invariant.
LedgerInv == Scripts /\ CliPlaces /\ ThreadPlaces

-----------------------------------------------------------------------------
(* What an operation does to the list.                                     *)

\* The entries are those of the first list of the file.
LEMMA EntriesType ==
  ASSUME db \in Seq(Table)
  PROVE  /\ db = <<>> => Entries = [j \in Jobs |-> Absent]
         /\ db # <<>> => Entries \in [Jobs -> Statuses] /\ Entries = db[1].st /\ 1 \in 1..Len(db)
         /\ Absent \notin Statuses
<1>1. Absent \notin Statuses
  BY DEF Absent, Statuses, NotStarted, InProgress, Passed, Failed, Skipped, NotApplicable
<1>2. CASE db = <<>>
  BY <1>1, <1>2 DEF Entries, Absent
<1>3. CASE db # <<>>
  <2>1. Head(db) \in Table /\ Head(db) = db[1] /\ 1 \in 1..Len(db)
    BY <1>3
  <2> QED BY <1>1, <1>3, <2>1 DEF Entries, Table
<1> QED BY <1>2, <1>3

\* `db' is about to be changed by the operation, which inserts no second list.
Changes(op) ==
  /\ op \in Op /\ db \in Seq(Table) /\ Len(db) <= 1
  /\ op.kind = "insert" => db = <<>>
  /\ db' = Apply(op, db)

\* What an operation makes of the entries.
LEMMA EntriesAfter ==
  ASSUME NEW op, Changes(op)
  PROVE  /\ op.kind = "truncate" => Entries' = [j \in Jobs |-> Absent]
         /\ op.kind = "insert" => Entries' = [j \in Jobs |-> NotStarted]
         /\ op.kind = "update" /\ db = <<>> => Entries' = Entries
         /\ op.kind = "update" /\ db # <<>> => Entries' = [Entries EXCEPT ![op.job] = op.to]
<1>1. CASE op.kind = "truncate"
  <2>1. db' = <<>>
    BY <1>1 DEF Changes, Apply
  <2> QED BY <1>1, <2>1 DEF Entries, Absent
<1>2. CASE op.kind = "insert"
  <2>1. db' = Append(<<>>, Fresh(op.env))
    BY <1>2 DEF Changes, Apply
  <2>2. db' # <<>> /\ Head(db') = Fresh(op.env)
    BY <2>1
  <2> QED BY <1>2, <2>2 DEF Entries, Fresh
<1>3. CASE op.kind = "update"
  <2>1. db' = [i \in 1..Len(db) |-> WithStatus(db[i], op.job, op.to)]
    BY <1>3 DEF Changes, Apply
  <2>2. CASE db = <<>>
    <3>1. db' = <<>>
      BY <2>1, <2>2
    <3> QED BY <1>3, <2>2, <3>1 DEF Entries
  <2>3. CASE db # <<>>
    <3>1. db' \in Seq(Table) /\ 1 \in 1..Len(db) /\ db' # <<>>
      <4>1. db' \in Seq(Table)
        BY ApplyType DEF Changes
      <4>2. 1 \in 1..Len(db)
        BY <2>3 DEF Changes
      <4> QED BY <2>1, <4>1, <4>2
    <3>2. Head(db') = WithStatus(db[1], op.job, op.to) /\ Head(db) = db[1]
      BY <2>1, <2>3, <3>1 DEF Changes
    <3>3. Entries' = WithStatus(db[1], op.job, op.to).st /\ Entries = db[1].st
      BY <2>3, <3>1, <3>2 DEF Entries
    <3> QED BY <1>3, <2>3, <3>3 DEF WithStatus
  <2> QED BY <2>2, <2>3
<1> QED BY <1>1, <1>2, <1>3 DEF Changes, Op

\* What an operation makes of the list's environment.
LEMMA KnowsAfter ==
  ASSUME NEW op, Changes(op), NEW e
  PROVE  /\ Knows(e) => db # <<>>
         /\ op.kind = "update" /\ Knows(e) => Knows(e)'
         /\ op = Insert(e) => Knows(e)'
<1>1. Knows(e) => db # <<>>
  BY DEF Knows
<1>2. ASSUME op.kind = "update", Knows(e) PROVE Knows(e)'
  <2>1. PICK i \in 1..Len(db) : db[i].env = e
    BY <1>2 DEF Knows
  <2>2. /\ db' = [k \in 1..Len(db) |-> WithStatus(db[k], op.job, op.to)]
        /\ db' \in Seq(Table)
    BY <1>2, ApplyType DEF Changes, Apply
  <2>3. Len(db') = Len(db) /\ db'[i] = WithStatus(db[i], op.job, op.to)
    BY <2>2 DEF Changes
  <2> QED BY <2>1, <2>3 DEF Knows, WithStatus
<1>3. ASSUME op = Insert(e) PROVE Knows(e)'
  <2>1. op.kind = "insert" /\ op.env = e
    BY <1>3 DEF Insert
  <2>2. db' = Append(<<>>, Fresh(e))
    BY <2>1 DEF Changes, Apply
  <2>3. 1 \in 1..Len(db') /\ db'[1] = Fresh(e)
    BY <2>2
  <2> QED BY <2>3 DEF Knows, Fresh
<1> QED BY <1>1, <1>2, <1>3

-----------------------------------------------------------------------------
(* A step of the file is an event of the ledger.                           *)

\* The six statuses differ.
LEMMA StatusesDiffer ==
  /\ NotStarted # InProgress /\ NotStarted # Passed /\ NotStarted # Failed
  /\ NotStarted # Skipped /\ NotStarted # NotApplicable /\ InProgress # Passed
  /\ InProgress # Failed /\ InProgress # Skipped /\ InProgress # NotApplicable
  /\ Passed # Failed /\ Passed # Skipped /\ Passed # NotApplicable
  /\ Failed # Skipped /\ Failed # NotApplicable /\ Skipped # NotApplicable
BY DEF NotStarted, InProgress, Passed, Failed, Skipped, NotApplicable

\* The ledger's words are those of the file.
LEMMA LedgerWords ==
  /\ Ledger!Jobs = Jobs
  /\ Ledger!NotStarted = NotStarted
  /\ Ledger!InProgress = InProgress
  /\ Ledger!Passed = Passed
  /\ Ledger!Failed = Failed
  /\ Ledger!Skipped = Skipped
  /\ Ledger!NotApplicable = NotApplicable
  /\ Ledger!Empty = [j \in Jobs |-> Absent]
BY DEF Ledger!Jobs, Jobs, Ledger!NotStarted, NotStarted, Ledger!InProgress, InProgress,
       Ledger!Passed, Passed, Ledger!Failed, Failed, Ledger!Skipped, Skipped,
       Ledger!NotApplicable, NotApplicable, Ledger!Empty, Ledger!Absent, Absent

\* An operation that fits is an event of the ledger, or changes nothing.
LEMMA EventOfLedger ==
  ASSUME NEW s, Fits(s, 1), Changes(s[1])
  PROVE  [Ledger!Next]_Entries
<1> DEFINE op == s[1]
<1>1. CASE op.kind = "truncate"
  <2>1. Ledger!Clear
    BY <1>1, EntriesAfter, LedgerWords DEF Ledger!Clear
  <2> QED BY <2>1, LedgerWords DEF Ledger!Next
<1>2. CASE op.kind = "insert"
  <2>1. Entries = [j \in Jobs |-> Absent]
    BY <1>2, EntriesType DEF Changes
  <2>2. Ledger!Open
    BY <1>2, <2>1, EntriesAfter, LedgerWords DEF Ledger!Open
  <2> QED BY <2>2, LedgerWords DEF Ledger!Next
<1>3. CASE op.kind = "update" /\ db = <<>>
  BY <1>3, EntriesAfter
<1>4. CASE op.kind = "update" /\ db # <<>>
  <2>1. /\ Entries \in [Jobs -> Statuses] /\ Absent \notin Statuses
        /\ op.job \in Jobs /\ op.to \in Statuses
    <3>1. op \in Op
      BY DEF Changes
    <3>2. op.job \in Jobs /\ op.to \in Statuses
      BY <1>4, <3>1 DEF Op
    <3> QED BY <1>4, <3>2, EntriesType DEF Changes
  <2>2. Entries' = [Entries EXCEPT ![op.job] = op.to]
    BY <1>4, EntriesAfter
  <2>3. Entries # Ledger!Empty
    <3>1. "PRECHECK" \in Jobs
      BY DEF Jobs
    <3> QED BY <2>1, <3>1, LedgerWords
  <2>4. Ledger!Set(op.job, op.to)
    BY <2>2, LedgerWords DEF Ledger!Set
  <2>5. Early(s, 1) => \A k \in Jobs : Entries[k] \in {NotStarted, NotApplicable}
    BY <2>1 DEF Early, Unstarted
  <2>6. CASE op.to = InProgress
    <3>1. Ledger!Begin(op.job)
      BY <2>3, <2>4, <2>6, LedgerWords DEF Ledger!Begin
    <3> QED BY <2>1, <3>1, LedgerWords DEF Ledger!Next
  <2>7. CASE op.to = NotApplicable /\ Early(s, 1)
    <3>1. Ledger!Strike(op.job)
      BY <2>3, <2>4, <2>5, <2>7, LedgerWords DEF Ledger!Strike
    <3> QED BY <2>1, <3>1, LedgerWords DEF Ledger!Next
  <2>8. CASE op = Update(Passed, "CLEANUP") /\ Early(s, 1)
    <3>1. op.job = "CLEANUP" /\ op.to = Passed
      BY <2>8 DEF Update
    <3>2. Ledger!CleanedUp
      BY <2>3, <2>4, <2>5, <2>8, <3>1, LedgerWords DEF Ledger!CleanedUp
    <3> QED BY <3>2, LedgerWords DEF Ledger!Next
  <2>9. CASE op = Update(Failed, "CLEANUP")
    <3>1. op.job = "CLEANUP" /\ op.to = Failed
      BY <2>9 DEF Update
    <3>2. Ledger!CleanupFails
      BY <2>3, <2>4, <3>1, LedgerWords DEF Ledger!CleanupFails
    <3> QED BY <3>2, LedgerWords DEF Ledger!Next
  <2>10. CASE op.to \in {Passed, Failed} /\ Entries[op.job] \in {InProgress, op.to, Absent}
    <3>1. CASE Entries[op.job] = op.to
      <4>1. Entries' = Entries
        BY <2>1, <2>2, <3>1
      <4> QED BY <4>1
    <3>2. CASE Entries[op.job] = InProgress
      <4>1. Ledger!Conclude(op.job)
        BY <2>4, <2>10, <3>2, LedgerWords DEF Ledger!Conclude
      <4> QED BY <2>1, <4>1, LedgerWords DEF Ledger!Next
    <3> QED BY <2>1, <2>10, <3>1, <3>2
  <2>11. CASE op = Update(Skipped, "PRECHECK") /\ Entries["PRECHECK"] \in {Passed, Absent}
    <3>1. op.job = "PRECHECK" /\ op.to = Skipped
      BY <2>11 DEF Update
    <3>2. Entries["PRECHECK"] = Passed
      BY <2>1, <2>11, <3>1
    <3>3. Ledger!Skip
      BY <2>4, <3>1, <3>2, LedgerWords DEF Ledger!Skip
    <3> QED BY <3>3, LedgerWords DEF Ledger!Next
  <2>12. op # Update(Skipped, "PRECHECK") \/ s[1] # Update(Passed, "PRECHECK")
    BY StatusesDiffer DEF Update
  <2> QED BY <1>4, <2>6, <2>7, <2>8, <2>9, <2>10, <2>11, <2>12 DEF Fits
<1> QED BY <1>1, <1>2, <1>3, <1>4 DEF Changes, Op

-----------------------------------------------------------------------------
(* What is left of a script when its first operation has been made.        *)

\* A script and what is left of it, operation by operation.
LEMMA TailParts ==
  ASSUME NEW s \in Seq(Op), s # <<>>
  PROVE  /\ 1 \in 1..Len(s)
         /\ \A i \in 1..Len(Tail(s)) : i \in Nat /\ i + 1 \in 1..Len(s) /\ Tail(s)[i] = s[i + 1]
         /\ \A i \in 1..Len(s) : i = 1 \/ (i - 1 \in 1..Len(Tail(s)) /\ Tail(s)[i - 1] = s[i])
OBVIOUS

\* What is left of a fitting script fits the list after its first operation.
LEMMA TailFits ==
  ASSUME NEW s \in Seq(Op), s # <<>>, Fitting(s), Changes(s[1])
  PROVE  Fitting(Tail(s))'
<1> SUFFICES ASSUME NEW i \in 1..Len(Tail(s)) PROVE Fits(Tail(s), i)'
  BY DEF Fitting
<1> DEFINE op == s[1]
<1>1. i \in Nat /\ i + 1 \in 1..Len(s) /\ Tail(s)[i] = s[i + 1] /\ i + 1 # 1
  BY TailParts
<1>2. Fits(s, i + 1)
  BY <1>1 DEF Fitting
<1>3. /\ \A k \in 1..(i-1) : k + 1 \in 1..i /\ Tail(s)[k] = s[k + 1]
      /\ \A k \in 1..i : k = 1 \/ (k - 1 \in 1..(i-1) /\ Tail(s)[k - 1] = s[k])
      /\ 1 \in 1..i
  BY <1>1, TailParts
<1>4. ASSUME Early(s, i + 1) PROVE Early(Tail(s), i)'
  <2>1. /\ \A k \in 1..i : s[k].kind = "update" => s[k].to = NotApplicable
        /\ Unstarted \/ \E k \in 1..i : s[k].kind # "update"
    BY <1>1, <1>4 DEF Early
  <2>2. \A k \in 1..(i-1) : Tail(s)[k].kind = "update" => Tail(s)[k].to = NotApplicable
    BY <1>3, <2>1
  <2>3. CASE op.kind # "update"
    <3>1. op.kind \in {"truncate", "insert"}
      BY <2>3 DEF Changes, Op
    <3>2. Unstarted'
      BY <3>1, EntriesAfter DEF Unstarted
    <3> QED BY <2>2, <3>2 DEF Early
  <2>4. CASE op.kind = "update" /\ Unstarted
    <3>1. op.to = NotApplicable
      BY <1>3, <2>1, <2>4
    <3>2. \A j \in Jobs : Entries'[j] \in {Entries[j], NotApplicable}
      BY <2>4, <3>1, EntriesAfter, EntriesType DEF Changes
    <3>3. Unstarted'
      BY <2>4, <3>2 DEF Unstarted
    <3> QED BY <2>2, <3>3 DEF Early
  <2>5. CASE op.kind = "update" /\ ~Unstarted
    <3>1. PICK k \in 1..i : s[k].kind # "update"
      BY <2>1, <2>5
    <3>2. k - 1 \in 1..(i-1) /\ Tail(s)[k - 1].kind # "update"
      BY <1>3, <2>5, <3>1
    <3> QED BY <2>2, <3>2 DEF Early
  <2> QED BY <2>3, <2>4, <2>5
<1>5. CASE s[i + 1].kind # "update"
  BY <1>1, <1>2, <1>5 DEF Fits
<1>6. CASE s[i + 1].kind = "update" /\ Early(s, i + 1)
           /\ (s[i + 1].to = NotApplicable \/ s[i + 1] = Update(Passed, "CLEANUP"))
  BY <1>1, <1>4, <1>6 DEF Fits
<1>7. CASE s[i + 1].kind = "update"
           /\ (s[i + 1].to = InProgress \/ s[i + 1] = Update(Failed, "CLEANUP"))
  BY <1>1, <1>7 DEF Fits
<1>8. CASE /\ s[i + 1].kind = "update" /\ i = 1
           /\ s[i + 1] = Update(Skipped, "PRECHECK") /\ op = Update(Passed, "PRECHECK")
  <2>1. op.kind = "update" /\ op.to = Passed /\ op.job = "PRECHECK" /\ "PRECHECK" \in Jobs
    BY <1>8 DEF Update, Jobs
  <2>2. Entries'["PRECHECK"] \in {Passed, Absent}
    BY <2>1, EntriesAfter, EntriesType DEF Changes
  <2> QED BY <1>1, <1>8, <2>2 DEF Fits, Update
<1> QED BY <1>1, <1>2, <1>5, <1>6, <1>7, <1>8 DEF Fits

\* A script that will leave a list of an environment still will.
LEMMA TailLists ==
  ASSUME NEW s \in Seq(Op), s # <<>>, Fitting(s), Changes(s[1]), NEW e, Lists(s, e)
  PROVE  Lists(Tail(s), e)'
<1>1. \A i \in 1..Len(Tail(s)) : Tail(s)[i].kind # "truncate"
  BY TailParts DEF Fitting, Fits
<1>2. CASE \E i \in 1..Len(s) : s[i] = Insert(e)
  <2>1. PICK i \in 1..Len(s) : s[i] = Insert(e)
    BY <1>2
  <2>2. CASE i = 1
    BY <1>1, <2>1, <2>2, KnowsAfter DEF Lists
  <2>3. CASE i # 1
    BY <2>1, <2>3, TailParts DEF Lists
  <2> QED BY <2>2, <2>3
<1>3. CASE Knows(e) /\ \A i \in 1..Len(s) : s[i].kind # "truncate"
  <2>1. s[1].kind # "truncate" /\ db # <<>>
    BY <1>3, TailParts, KnowsAfter
  <2>2. s[1].kind = "update"
    BY <2>1 DEF Changes, Op
  <2> QED BY <1>1, <1>3, <2>2, KnowsAfter DEF Lists
<1> QED BY <1>2, <1>3 DEF Lists

\* A thread that serves a request has the command line wait for it, and is the
\* only one.
LEMMA Served ==
  ASSUME Alone, SoundCalls, Hosted, NEW t \in Threads, Serving(t)
  PROVE  /\ req[t].client \in Clis /\ pc[req[t].client] = "wait" /\ todo[req[t].client] = <<>>
         /\ inbox[req[t].client] = "none" /\ Job(req[t].client) = req[t].job
         /\ \A c \in Clis : c = req[t].client
         /\ \A u \in Threads : Serving(u) => u = t
<1>1. PICK c : Clis = {c}
  BY DEF Alone
<1>2. req[t].client \in Clis
  BY DEF Hosted
<1>3. Awaits(req[t].client, req[t].job)
  BY <1>2 DEF SoundCalls
<1>4. \A u \in Threads : Serving(u) => req[u].client = req[t].client
  BY <1>1, <1>2 DEF Hosted
<1> QED BY <1>1, <1>2, <1>3, <1>4 DEF Awaits, Hosted, SoundCalls

-----------------------------------------------------------------------------
(* A write.                                                                *)

\* No operation fits any list.
LEMMA NothingFits == Fitting(<<>>)
BY DEF Fitting

\* A write changes the file as it is by the first operation of one script.
LEMMA WriteFileChanges ==
  ASSUME Alone, TypeInv, EarnInv, TurnInv, LedgerInv, NEW a \in Actors, WriteFile(a),
         NEW s \in Seq(Op), s = todo[a]
  PROVE  /\ s # <<>> /\ Fitting(s) /\ Changes(s[1]) /\ todo'[a] = Tail(s)
         /\ \A b \in Actors \ {a} : todo[b] = <<>> /\ todo'[b] = <<>>
         /\ UNCHANGED <<pc, run, req, inbox>>
<1>1. /\ Head(s) \in Op /\ s # <<>> /\ 1 \in 1..Len(s) /\ Head(s) = s[1]
      /\ db \in Seq(Table) /\ db' = Apply(Head(s), db) /\ todo'[a] = Tail(s)
      /\ \A b \in Actors \ {a} : todo[b] = <<>> /\ todo'[b] = <<>>
      /\ UNCHANGED <<pc, calls>>
  BY WriteFileShape
<1>2. Len(db) <= 1 /\ Once(s)
  BY DEF TurnInv, ListedOnce
<1>3. s[1].kind = "insert" => db = <<>>
  BY <1>1, <1>2 DEF Once
<1>4. Fitting(s)
  BY DEF LedgerInv, Scripts
<1> QED BY <1>1, <1>2, <1>3, <1>4 DEF Changes, calls

\* A write keeps the invariant and is an event of the ledger.
LEMMA WriteFileLedger ==
  ASSUME Alone, TypeInv, EarnInv, TurnInv, LedgerInv, NEW a \in Actors, WriteFile(a)
  PROVE  LedgerInv' /\ [Ledger!Next]_Entries
<1>0. PICK s \in Seq(Op) : s = todo[a]
  BY DEF TypeInv, TypeOK
<1> DEFINE op == s[1]
<1>1. /\ s # <<>> /\ Fitting(s) /\ Changes(op) /\ todo'[a] = Tail(s)
      /\ \A b \in Actors \ {a} : todo[b] = <<>> /\ todo'[b] = <<>>
      /\ UNCHANGED <<pc, run, req, inbox>>
  BY <1>0, WriteFileChanges
<1>2. [Ledger!Next]_Entries
  <2>1. Fits(s, 1)
    BY <1>1, TailParts DEF Fitting
  <2> QED BY <1>1, <2>1, EventOfLedger
<1>3. Scripts'
  <2>1. Fitting(Tail(s))'
    BY <1>1, TailFits
  <2> SUFFICES ASSUME NEW b \in Actors, NEW i \in 1..Len(todo'[b]) PROVE Fits(todo[b], i)'
    BY DEF Scripts, Fitting
  <2>2. b = a
    BY <1>1
  <2>3. i \in 1..Len(Tail(s)) /\ todo'[b] = Tail(s)
    BY <1>1, <2>2
  <2>4. Fits(Tail(s), i)'
    BY <2>1, <2>3 DEF Fitting
  <2> QED BY <2>3, <2>4 DEF Fits, Early, Unstarted
<1>4. ASSUME NEW x, NEW j, s = <<Update(x, j)>>
      PROVE  /\ todo'[a] = <<>> /\ op.kind = "update" /\ op.job = j /\ op.to = x
             /\ j \in Jobs /\ x \in Statuses
  <2>1. op = Update(x, j) /\ Tail(s) = <<>>
    BY <1>4
  <2>2. op.kind = "update" /\ op.job = j /\ op.to = x
    BY <2>1 DEF Update
  <2> QED BY <1>1, <2>1, <2>2 DEF Changes, Op
<1>5. CliPlaces'
  <2> SUFFICES ASSUME NEW c \in Clis PROVE CliPlace(c)'
    BY DEF CliPlaces
  <2>1. CliPlace(c) /\ Job(c)' = Job(c) /\ (InCall(c)' <=> InCall(c)) /\ c \in Actors
    BY <1>1 DEF LedgerInv, CliPlaces, Job, InCall, Actors
  <2>2. CASE a = c
    <3>1. pc[c] # "wait"
      BY <1>0, <1>1, <2>2 DEF TurnInv, Hosted
    <3>2. ASSUME InCall(c) PROVE Lists(todo[c], run[c].dep.env)'
      <4>1. PICK e : e = run[c].dep.env
        OBVIOUS
      <4>2. Lists(s, e)
        BY <1>0, <2>1, <2>2, <3>2, <4>1 DEF CliPlace
      <4>3. Lists(Tail(s), e)'
        BY <1>1, <4>2, TailLists
      <4> QED BY <1>1, <2>2, <4>1, <4>3 DEF Lists, Knows
    <3>3. ASSUME pc[c] = "send"
          PROVE  todo'[c] = <<>> /\ (InCall(c) => Entries'[Job(c)] = InProgress)
      <4>1. s = <<Update(InProgress, Job(c))>>
        BY <1>0, <1>1, <2>1, <2>2, <3>3 DEF CliPlace
      <4>2. /\ todo'[a] = <<>> /\ op.kind = "update" /\ op.job = Job(c)
            /\ op.to = InProgress /\ Job(c) \in Jobs
        BY <1>4, <4>1
      <4>3. ASSUME InCall(c) PROVE db # <<>>
        <5>1. Lists(s, run[c].dep.env)
          BY <1>0, <2>1, <2>2, <4>3 DEF CliPlace
        <5>2. s[1] # Insert(run[c].dep.env)
          BY <4>2 DEF Insert
        <5>3. Knows(run[c].dep.env)
          BY <4>1, <5>1, <5>2 DEF Lists
        <5> QED BY <5>3 DEF Knows
      <4> QED BY <1>1, <2>2, <4>2, <4>3, EntriesAfter, EntriesType DEF Changes
    <3> QED BY <1>1, <2>1, <3>1, <3>2, <3>3 DEF CliPlace
  <2>3. CASE a # c
    <3>1. a \in Threads /\ Serving(a)
      <4>1. \A b \in Clis : b = c
        BY DEF Alone
      <4> QED BY <1>0, <1>1, <2>3, <4>1 DEF TurnInv, Hosted, Actors
    <3>2. c = req[a].client /\ pc[c] = "wait" /\ inbox[c] = "none" /\ Job(c) = req[a].job
      BY <3>1, Served DEF EarnInv, TurnInv
    <3>3. ASSUME InCall(c) PROVE Knows(run[c].dep.env)'
      <4>1. ThreadPlace(a) /\ req[a].job # "CLEANUP"
        BY <3>1, <3>2, <3>3 DEF LedgerInv, ThreadPlaces, InCall
      <4>2. s = <<Update(Recorded(a), MarkedBy(a))>>
        BY <1>0, <1>1, <4>1 DEF ThreadPlace
      <4>3. op.kind = "update"
        BY <1>4, <4>2
      <4>4. Knows(run[c].dep.env)
        <5>1. todo[c] = <<>>
          BY <1>1, <2>1, <2>3
        <5> QED BY <2>1, <3>3, <5>1 DEF CliPlace, Lists
      <4> QED BY <1>1, <4>3, <4>4, KnowsAfter DEF Knows
    <3>4. InCall(c) => Lists(todo[c], run[c].dep.env)'
      <4>1. todo'[c] = <<>>
        BY <1>1, <2>1, <2>3
      <4> QED BY <1>1, <3>3, <4>1 DEF Lists, Knows
    <3> QED BY <1>1, <2>1, <3>2, <3>4 DEF CliPlace
  <2> QED BY <2>2, <2>3
<1>6. ThreadPlaces'
  <2> SUFFICES ASSUME NEW t \in Threads, Serving(t) PROVE ThreadPlace(t)'
    BY <1>1 DEF ThreadPlaces, Serving
  <2>1. /\ ThreadPlace(t) /\ MarkedBy(t)' = MarkedBy(t)
        /\ pc[t] \in Late => Recorded(t)' = Recorded(t)
    BY <1>1 DEF LedgerInv, ThreadPlaces, MarkedBy, Recorded
  <2>2. a = t
    <3>1. todo[req[t].client] = <<>> /\ \A c \in Clis : c = req[t].client
      BY Served DEF EarnInv, TurnInv
    <3>2. a \in Threads
      BY <1>0, <1>1, <3>1 DEF TurnInv, Hosted, Actors
    <3>3. Serving(a)
      BY <1>0, <1>1, <3>2 DEF TurnInv, Hosted
    <3> QED BY <3>2, <3>3, Served DEF EarnInv, TurnInv
  <2>3. CASE pc[t] \in Late
    <3>1. s = <<Update(Recorded(t), MarkedBy(t))>>
      BY <1>0, <1>1, <2>1, <2>2, <2>3 DEF ThreadPlace
    <3>2. /\ todo'[t] = <<>> /\ op.kind = "update" /\ op.job = MarkedBy(t)
          /\ op.to = Recorded(t) /\ MarkedBy(t) \in Jobs /\ Recorded(t) \in Statuses
      BY <1>4, <2>2, <3>1
    <3>3. /\ Entries'[MarkedBy(t)] \in {Recorded(t), Absent}
          /\ \A j \in Jobs : Entries'[j] # Entries[j]
                             => j = MarkedBy(t) /\ Entries'[j] = Recorded(t)
      <4>1. CASE db = <<>>
        <5>1. Entries' = Entries /\ Entries = [j \in Jobs |-> Absent]
          BY <1>1, <3>2, <4>1, EntriesAfter, EntriesType DEF Changes
        <5> QED BY <3>2, <5>1
      <4>2. CASE db # <<>>
        <5>1. /\ Entries' = [Entries EXCEPT ![MarkedBy(t)] = Recorded(t)]
              /\ Entries \in [Jobs -> Statuses]
          BY <1>1, <3>2, <4>2, EntriesAfter, EntriesType DEF Changes
        <5> QED BY <3>2, <5>1
      <4> QED BY <4>1, <4>2
    <3>4. Shown(Recorded(t), pc[t])
      BY <2>3 DEF Recorded, Late, Shown
    <3>5. req[t].job # "CLEANUP" => Shown(Entries[req[t].job], pc[t])'
      <4>1. req[t].job \in Jobs
        BY DEF TypeInv, TypeOK, Requests
      <4> QED BY <1>1, <2>1, <3>3, <3>4, <4>1 DEF ThreadPlace, Shown
    <3>6. pc[t] = "work" => Recorded(t) = InProgress
      BY DEF Recorded
    <3> QED BY <1>1, <2>1, <3>2, <3>3, <3>5, <3>6 DEF ThreadPlace
  <2>4. CASE pc[t] \notin Late
    <3>1. req[t].job = "CLEANUP"
      BY <1>0, <1>1, <2>1, <2>2, <2>4 DEF ThreadPlace
    <3> QED BY <1>1, <2>1, <2>4, <3>1 DEF ThreadPlace, Late
  <2> QED BY <2>3, <2>4
<1> QED BY <1>2, <1>3, <1>5, <1>6 DEF LedgerInv

-----------------------------------------------------------------------------
(* Steps that leave the file alone.                                        *)

\* While the file stays so do the entries and its environment.
LEMMA FileStays ==
  ASSUME db' = db PROVE Entries' = Entries /\ \A e : Knows(e)' <=> Knows(e)
BY DEF Entries, Knows

\* So do the scripts, where the new ones fit.
LEMMA ScriptsStay ==
  ASSUME Scripts, db' = db, \A b \in Actors : todo'[b] = todo[b] \/ Fitting(todo'[b])
  PROVE  Scripts'
<1> SUFFICES ASSUME NEW b \in Actors, NEW i \in 1..Len(todo'[b]) PROVE Fits(todo[b], i)'
  BY DEF Scripts, Fitting
<1>1. Fits(todo'[b], i)
  BY DEF Scripts, Fitting
<1>2. Entries' = Entries
  BY FileStays
<1> QED BY <1>1, <1>2 DEF Fits, Early, Unstarted

\* So does the place of a command line that does nothing.
LEMMA CliStays ==
  ASSUME db' = db, NEW c \in Clis, CliPlace(c), todo'[c] = todo[c], pc'[c] = pc[c],
         run'[c] = run[c], inbox'[c] = inbox[c]
  PROVE  CliPlace(c)'
BY FileStays DEF CliPlace, InCall, Job, Lists, Shown

\* So does the place of a thread that does nothing.
LEMMA ThreadStays ==
  ASSUME db' = db, NEW t \in Threads, ThreadPlace(t), todo'[t] = todo[t], pc'[t] = pc[t],
         req'[t] = req[t], run'[req[t].client] = run[req[t].client]
  PROVE  ThreadPlace(t)'
BY FileStays DEF ThreadPlace, Shown, MarkedBy, Recorded, Late

\* A step of a command line that no thread works for.
LEMMA CliAlone ==
  ASSUME Alone, TypeInv, EarnInv, TurnInv, LedgerInv, NEW c \in Clis, UNCHANGED <<db, req>>,
         \A b \in Actors \ {c} : todo'[b] = todo[b] /\ pc'[b] = pc[b],
         pc[c] = "wait" => inbox[c] # "none",
         todo'[c] = todo[c] \/ Fitting(todo'[c]), CliPlace(c)'
  PROVE  LedgerInv'
<1>1. \A b \in Clis : b = c
  BY DEF Alone
<1>2. Scripts'
  BY ScriptsStay DEF LedgerInv
<1>3. CliPlaces'
  BY <1>1 DEF CliPlaces
<1>4. \A t \in Threads : ~Serving(t)
  BY <1>1, Served DEF EarnInv, TurnInv
<1>5. ThreadPlaces'
  BY <1>4, ActorAssumption DEF ThreadPlaces, Serving, Actors
<1> QED BY <1>2, <1>3, <1>5 DEF LedgerInv

\* A step of a thread that does not concern its command line.
LEMMA ThreadAlone ==
  ASSUME LedgerInv, NEW t \in Threads, UNCHANGED <<db, run, inbox>>,
         \A b \in Actors \ {t} : todo'[b] = todo[b] /\ pc'[b] = pc[b],
         \A u \in Threads \ {t} : req'[u] = req[u],
         todo'[t] = todo[t] \/ Fitting(todo'[t]), Serving(t)' => ThreadPlace(t)'
  PROVE  LedgerInv'
<1>1. Scripts'
  BY ScriptsStay DEF LedgerInv
<1>2. CliPlaces'
  <2> SUFFICES ASSUME NEW c \in Clis PROVE CliPlace(c)'
    BY DEF CliPlaces
  <2>1. c \in Actors \ {t} /\ CliPlace(c)
    BY ActorAssumption DEF Actors, LedgerInv, CliPlaces
  <2> QED BY <2>1, CliStays
<1>3. ThreadPlaces'
  <2> SUFFICES ASSUME NEW u \in Threads, Serving(u)' PROVE ThreadPlace(u)'
    BY DEF ThreadPlaces
  <2>1. CASE u # t
    <3>1. u \in Actors \ {t} /\ Serving(u)
      BY <2>1 DEF Actors, Serving
    <3> QED BY <2>1, <3>1, ThreadStays DEF LedgerInv, ThreadPlaces
  <2> QED BY <2>1
<1> QED BY <1>1, <1>2, <1>3 DEF LedgerInv

\* To read the file changes no entry.
LEMMA ReadFileLedger ==
  ASSUME LedgerInv, NEW a \in Actors, ReadFile(a) PROVE LedgerInv'
<1>1. UNCHANGED <<db, todo, pc, run, req, inbox>>
  BY DEF ReadFile, file, calls
<1>2. Scripts'
  BY <1>1, ScriptsStay DEF LedgerInv
<1>3. CliPlaces'
  BY <1>1, CliStays DEF LedgerInv, CliPlaces
<1>4. ThreadPlaces'
  BY <1>1, ThreadStays DEF LedgerInv, ThreadPlaces, Serving
<1> QED BY <1>2, <1>3, <1>4 DEF LedgerInv

-----------------------------------------------------------------------------
(* The scripts.                                                            *)

\* Without a list no job was started.
LEMMA EmptyUnstarted == ASSUME db = <<>> PROVE Unstarted
BY DEF Unstarted, Entries, Absent

\* To insert a list and strike what does not apply fits an empty file.
LEMMA InitScriptFits ==
  ASSUME NEW d \in Deployments, NEW caller, db = <<>>
  PROVE  Fitting(InitScript(d, caller))
<1> DEFINE q == InitScript(d, caller)
<1>1. \A i \in 1..Len(q) : \/ i = 1 /\ q[i].kind = "insert"
                           \/ i # 1 /\ q[i].kind = "update" /\ q[i].to = NotApplicable
  BY InitScriptParts
<1>2. \A i \in 1..Len(q) : Early(q, i)
  <2>1. \A i \in 1..Len(q) : \A k \in 1..(i-1) : k \in 1..Len(q)
    OBVIOUS
  <2> HIDE DEF q
  <2> QED BY <1>1, <2>1, EmptyUnstarted DEF Early
<1> HIDE DEF q
<1>3. Fitting(q)
  BY <1>1, <1>2 DEF Fitting, Fits
<1> QED BY <1>3 DEF q

\* The list is inserted first.
LEMMA InitScriptFirst ==
  ASSUME NEW d, NEW caller
  PROVE  1 \in 1..Len(InitScript(d, caller)) /\ InitScript(d, caller)[1] = Insert(d.env)
BY DEF InitScript

\* To empty the file and start over fits any list.
LEMMA StartOverFits ==
  ASSUME NEW d \in Deployments, NEW caller
  PROVE  /\ Fitting(<<Truncate>> \o InitScript(d, caller))
         /\ Lists(<<Truncate>> \o InitScript(d, caller), d.env)
<1> DEFINE q == InitScript(d, caller)
           r == <<Truncate>> \o q
<1>1. \A i \in 1..Len(r) : \/ i = 1 /\ r[i] = Truncate
                           \/ i = 2 /\ r[i].kind = "insert"
                           \/ i > 2 /\ r[i].kind = "update" /\ r[i].to = NotApplicable
  BY StartOverParts
<1>2. Truncate.kind = "truncate"
  BY DEF Truncate
<1>3. q \in Seq(Op) /\ <<Truncate>> \in Seq(Op)
  BY InitScriptType DEF Truncate, Op
<1>4. 2 \in 1..Len(r) /\ r[2] = q[1] /\ r[1] = Truncate
  BY <1>3, InitScriptFirst
<1>5. \A i \in 1..Len(r) : \A k \in 1..(i-1) : k \in 1..Len(r)
  OBVIOUS
<1>6. r[2] = Insert(d.env)
  BY <1>4, InitScriptFirst
<1> HIDE DEF q, r
<1>7. \A i \in 1..Len(r) : i > 2 => Early(r, i)
  BY <1>1, <1>2, <1>4, <1>5 DEF Early
<1>8. Fitting(r)
  BY <1>1, <1>2, <1>7 DEF Fitting, Fits
<1>9. Lists(r, d.env)
  BY <1>4, <1>6 DEF Lists
<1> QED BY <1>8, <1>9 DEF q, r

\* So does the reset of a cleanup that worked.
LEMMA CleanupFits ==
  ASSUME NEW d \in Deployments
  PROVE  LET s == <<Truncate>> \o InitScript(d, "cli") \o <<Update(Passed, "CLEANUP")>>
         IN  Fitting(s) /\ Lists(s, d.env)
<1> DEFINE q == InitScript(d, "cli")
           s == <<Truncate>> \o q \o <<Update(Passed, "CLEANUP")>>
<1>1. \A i \in 1..Len(s) : /\ s[1] = Truncate
                          /\ \/ i = 1
                             \/ i = 2 /\ s[i].kind = "insert"
                             \/ i > 2 /\ s[i].kind = "update" /\ s[i].to = NotApplicable
                             \/ i > 2 /\ i = Len(s) /\ s[i] = Update(Passed, "CLEANUP")
  BY CleanupParts
<1>2. Truncate.kind = "truncate" /\ Update(Passed, "CLEANUP").kind = "update"
  BY DEF Truncate, Update
<1>3. /\ q \in Seq(Op) /\ <<Truncate>> \in Seq(Op) /\ <<Update(Passed, "CLEANUP")>> \in Seq(Op)
  <2>1. Update(Passed, "CLEANUP") \in Op
    BY UpdateType DEF Passed, Statuses, Jobs
  <2> QED BY <2>1, InitScriptType DEF Truncate, Op
<1>4. 2 \in 1..Len(s) /\ s[2] = q[1] /\ s[1] = Truncate
  BY <1>3, InitScriptFirst
<1>5. \A i \in 1..Len(s) : \A k \in 1..(i-1) : k \in 1..Len(s) /\ k # Len(s)
  OBVIOUS
<1>6. s[2] = Insert(d.env)
  BY <1>4, InitScriptFirst
<1> HIDE DEF q, s
<1>7. \A i \in 1..Len(s) : i > 2 => Early(s, i)
  BY <1>1, <1>2, <1>4, <1>5 DEF Early
<1>8. Fitting(s)
  BY <1>1, <1>2, <1>7 DEF Fitting, Fits
<1>9. Lists(s, d.env)
  BY <1>4, <1>6 DEF Lists
<1> QED BY <1>8, <1>9 DEF q, s

-----------------------------------------------------------------------------
(* The command line.                                                       *)

\* check_db_file on the command line's side.
LEMMA CliCheckLedger ==
  ASSUME Alone, TypeInv, EarnInv, TurnInv, LedgerInv, NEW c \in Clis,
         CliCheckFile(c) \/ CliCheckEnv(c)
  PROVE  LedgerInv'
<1> DEFINE d == run[c].dep
           q == InitScript(d, "cli")
           r == <<Truncate>> \o q
<1>1. /\ todo[c] = <<>> /\ pc[c] \in {"checkFile", "checkEnv"}
      /\ UNCHANGED <<db, run, req, inbox>>
      /\ \A b \in Actors \ {c} : todo'[b] = todo[b] /\ pc'[b] = pc[b]
      /\ \/ pc'[c] = "checkEnv" /\ todo'[c] = IF blank THEN q ELSE <<>>
         \/ pc'[c] = "mark" /\ todo'[c] = IF Knows(d.env) THEN <<>> ELSE r
  BY DEF CliCheckFile, CliCheckEnv, CheckFile, CheckEnv, Ready, TypeInv, TypeOK, Actors, file, calls
<1>2. d \in Deployments /\ (blank => db = <<>>)
  BY DEF TypeInv, TypeOK, Invocation, TurnInv, ListedOnce
<1>3. Fitting(todo'[c])
  BY <1>1, <1>2, NothingFits, InitScriptFits, StartOverFits
<1>4. CliPlace(c)'
  <2>1. inbox'[c] # "lost"
    BY <1>1 DEF LedgerInv, CliPlaces, CliPlace
  <2>2. ASSUME InCall(c)' PROVE Lists(todo[c], run[c].dep.env)'
    <3>1. todo'[c] = IF Knows(d.env) THEN <<>> ELSE r
      BY <1>1, <2>2 DEF InCall
    <3>2. Lists(todo'[c], d.env)
      BY <1>2, <3>1, StartOverFits DEF Lists
    <3> QED BY <1>1, <3>2 DEF Lists, Knows
  <2> QED BY <1>1, <2>1, <2>2 DEF CliPlace
<1> QED BY <1>1, <1>3, <1>4, CliAlone

\* The command line starts, or asks whether to go on.
LEMMA CliStartLedger ==
  ASSUME Alone, TypeInv, EarnInv, TurnInv, LedgerInv, NEW c \in Clis,
         CliStart(c) \/ CliPrompt(c)
  PROVE  LedgerInv'
<1>1. server = "up" /\ CliPlace(c)
  BY DEF TurnInv, Hosted, LedgerInv, CliPlaces
<1>2. /\ pc[c] # "wait" /\ UNCHANGED <<db, todo, req, inbox>>
      /\ \A b \in Actors \ {c} : pc'[b] = pc[b]
      /\ \/ pc'[c] = "prompt" /\ Job(c)' = "CLEANUP"
         \/ pc'[c] = "mark" /\ Job(c)' = "CLEANUP"
         \/ pc'[c] \in {"idle", "checkFile"}
  BY <1>1
     DEF CliStart, CliPrompt, CliPlace, Ready, Job, TypeInv, TypeOK, Actors, file, calls
<1>3. CliPlace(c)'
  BY <1>1, <1>2 DEF CliPlace, InCall
<1> QED BY <1>2, <1>3, CliAlone

\* The command line marks the job: the list is one of its environment.
LEMMA CliMarkLedger ==
  ASSUME Alone, TypeInv, EarnInv, TurnInv, LedgerInv, NEW c \in Clis, CliMark(c)
  PROVE  LedgerInv'
<1> DEFINE u == Update(InProgress, Job(c))
<1>1. /\ todo[c] = <<>> /\ pc[c] = "mark" /\ UNCHANGED <<db, run, req, inbox>>
      /\ \A b \in Actors \ {c} : todo'[b] = todo[b] /\ pc'[b] = pc[b]
      /\ \/ pc'[c] = "send" /\ todo'[c] = <<u>>
         \/ pc'[c] = "idle" /\ todo'[c] = <<>>
  BY DEF CliMark, Ready, TypeInv, TypeOK, Actors, file, calls
<1>2. CliPlace(c)
  BY DEF LedgerInv, CliPlaces
<1>3. u.kind = "update" /\ u.to = InProgress
  BY DEF Update
<1> HIDE DEF u
<1>4. Fitting(<<u>>)
  BY <1>3 DEF Fitting, Fits
<1>5. CASE pc'[c] = "idle" /\ todo'[c] = <<>>
  <2>1. CliPlace(c)'
    BY <1>1, <1>2, <1>5 DEF CliPlace, InCall
  <2> QED BY <1>1, <1>5, <2>1, CliAlone
<1>6. CASE pc'[c] = "send" /\ todo'[c] = <<u>>
  <2>1. Job(c)' = Job(c) /\ u = Update(InProgress, Job(c))'
    BY <1>1 DEF Job, u, Update, InProgress
  <2>2. ASSUME InCall(c)' PROVE Lists(todo[c], run[c].dep.env)'
    <3>1. Knows(run[c].dep.env)
      BY <1>1, <1>2, <2>1, <2>2 DEF CliPlace, InCall, Lists
    <3>2. \A i \in 1..Len(<<u>>) : <<u>>[i].kind # "truncate"
      BY <1>3
    <3> QED BY <1>1, <1>6, <3>1, <3>2 DEF Lists, Knows
  <2>3. CliPlace(c)'
    BY <1>1, <1>2, <1>6, <2>1, <2>2 DEF CliPlace, u
  <2> QED BY <1>1, <1>4, <1>6, <2>3, CliAlone
<1> QED BY <1>1, <1>5, <1>6

\* The command line posts its request: the server will not start the list over.
LEMMA CliSendLedger ==
  ASSUME Alone, TypeInv, EarnInv, TurnInv, LedgerInv, NEW c \in Clis, CliSend(c)
  PROVE  LedgerInv'
<1>1. server = "up" /\ CliPlace(c) /\ \A b \in Clis : b = c
  BY DEF TurnInv, Hosted, LedgerInv, CliPlaces, Alone
<1>2. PICK t \in Threads :
        /\ Ready(t, "free")
        /\ req' = [req EXCEPT ![t] = [client |-> c, job |-> Job(c), dep |-> run[c].dep]]
        /\ pc' = [pc EXCEPT ![c] = "wait", ![t] = "checkFile"]
        /\ inbox' = [inbox EXCEPT ![c] = "none"]
  BY <1>1 DEF CliSend
<1>3. /\ todo[c] = <<>> /\ todo[t] = <<>> /\ pc[c] = "send"
      /\ pc'[c] = "wait" /\ pc'[t] = "checkFile" /\ inbox'[c] = "none"
      /\ req'[t] = [client |-> c, job |-> Job(c), dep |-> run[c].dep]
      /\ \A b \in Actors \ {c, t} : pc'[b] = pc[b]
      /\ UNCHANGED <<db, todo, run>>
  BY <1>2, ActorAssumption DEF CliSend, Ready, TypeInv, TypeOK, Actors, file
<1>4. Scripts'
  BY <1>3, ScriptsStay DEF LedgerInv
<1>5. CliPlace(c)'
  <2>1. InCall(c)' <=> InCall(c)
    BY <1>3 DEF InCall, Job
  <2> QED BY <1>1, <1>3, <2>1 DEF CliPlace, Lists, Knows
<1>6. ThreadPlace(t)'
  <2>1. Job(c) # "CLEANUP" => Entries'[Job(c)] = InProgress
    BY <1>1, <1>3, FileStays DEF CliPlace, InCall
  <2>2. "checkFile" \notin Late
    BY DEF Late
  <2> QED BY <1>3, <2>1, <2>2 DEF ThreadPlace, Shown, Late
<1>7. \A u \in Threads \ {t} : ~Serving(u)'
  <2>1. \A u \in Threads : ~Serving(u)
    BY <1>1, <1>3, Served DEF EarnInv, TurnInv
  <2> QED BY <1>3, <2>1, ActorAssumption DEF Serving, Actors
<1> QED BY <1>1, <1>4, <1>5, <1>6, <1>7 DEF LedgerInv, CliPlaces, ThreadPlaces

\* What an operation records fits: the job was begun, and the server agrees.
LEMMA VerdictFits ==
  ASSUME TypeInv, NEW c \in Clis, CliPlace(c), pc[c] = "wait", inbox[c] # "none"
  PROVE  /\ Fitting(Verdict(c))
         /\ Job(c) # "CLEANUP" => \A i \in 1..Len(Verdict(c)) : Verdict(c)[i].kind # "truncate"
         /\ inbox[c] = "200" /\ Job(c) = "CLEANUP" => Lists(Verdict(c), run[c].dep.env)
<1>1. /\ Job(c) \in Jobs /\ run[c].dep \in Deployments
      /\ inbox[c] \in {"200", "500"}
  BY DEF TypeInv, TypeOK, InHand, CliBusy, Invocation, Job, CliPlace
<1>2. Job(c) # "CLEANUP" => Shown(Entries[Job(c)], inbox[c])
  BY DEF CliPlace, InCall
<1>3. \A x, j : Update(x, j).kind = "update" /\ Update(x, j).to = x /\ Update(x, j).job = j
  BY DEF Update
<1>4. CASE inbox[c] = "500"
  <2> DEFINE u == Update(Failed, Job(c))
  <2>1. Verdict(c) = <<u>> /\ u.kind = "update" /\ u.to = Failed /\ u.job = Job(c)
    BY <1>3, <1>4 DEF Verdict
  <2>2. Job(c) = "CLEANUP" => u = Update(Failed, "CLEANUP")
    OBVIOUS
  <2> HIDE DEF u
  <2>3. Job(c) # "CLEANUP" => Entries[u.job] \in {InProgress, u.to, Absent}
    BY <1>2, <1>4, <2>1 DEF Shown
  <2>4. Fits(<<u>>, 1)
    BY <2>1, <2>2, <2>3 DEF Fits
  <2> QED BY <1>4, <2>1, <2>4 DEF Fitting
<1>5. CASE inbox[c] = "200" /\ Job(c) # "CLEANUP"
  <2> DEFINE u == Update(Passed, Job(c))
             v == Update(Skipped, Job(c))
  <2>1. \/ Verdict(c) = <<u>>
        \/ Verdict(c) = <<u, v>> /\ Job(c) = "PRECHECK"
    BY <1>5 DEF Verdict
  <2>2. /\ u.kind = "update" /\ u.to = Passed /\ u.job = Job(c) /\ v.kind = "update"
        /\ Job(c) = "PRECHECK" => u = Update(Passed, "PRECHECK") /\ v = Update(Skipped, "PRECHECK")
    BY <1>3
  <2> HIDE DEF u, v
  <2>3. Entries[u.job] \in {InProgress, u.to, Absent}
    BY <1>2, <1>5, <2>2 DEF Shown
  <2>4. Fits(<<u>>, 1) /\ Fits(<<u, v>>, 1)
    BY <2>2, <2>3 DEF Fits
  <2>5. Job(c) = "PRECHECK" => Fits(<<u, v>>, 2)
    BY <2>2 DEF Fits
  <2>6. Fitting(Verdict(c))
    <3>1. Fitting(<<u>>)
      <4>1. \A i \in 1..Len(<<u>>) : i = 1
        OBVIOUS
      <4> QED BY <2>4, <4>1 DEF Fitting
    <3>2. Job(c) = "PRECHECK" => Fitting(<<u, v>>)
      <4>1. \A i \in 1..Len(<<u, v>>) : i = 1 \/ i = 2
        OBVIOUS
      <4> QED BY <2>4, <2>5, <4>1 DEF Fitting
    <3> QED BY <2>1, <3>1, <3>2, Zenon
  <2>7. \A i \in 1..Len(Verdict(c)) : Verdict(c)[i].kind # "truncate"
    BY <2>1, <2>2
  <2> QED BY <1>5, <2>6, <2>7
<1>6. CASE inbox[c] = "200" /\ Job(c) = "CLEANUP"
  <2>1. Verdict(c) = <<Truncate>> \o InitScript(run[c].dep, "cli") \o <<Update(Passed, "CLEANUP")>>
    BY <1>6 DEF Verdict
  <2> QED BY <1>1, <1>6, <2>1, CleanupFits
<1> QED BY <1>1, <1>4, <1>5, <1>6

\* Its verdict fits: the job is in progress or shows the same.
LEMMA CliConcludeLedger ==
  ASSUME Alone, TypeInv, EarnInv, TurnInv, LedgerInv, NEW c \in Clis, CliConclude(c)
  PROVE  LedgerInv'
<1>1. /\ todo[c] = <<>> /\ pc[c] = "wait" /\ inbox[c] # "none" /\ inbox'[c] = "none"
      /\ todo'[c] = Verdict(c) /\ UNCHANGED <<db, req>>
      /\ pc'[c] \in {"mark", "idle"} /\ (pc'[c] = "mark" => inbox[c] = "200")
      /\ run'[c].dep = run[c].dep
      /\ \A b \in Actors \ {c} : todo'[b] = todo[b] /\ pc'[b] = pc[b]
  BY DEF CliConclude, Ready, TypeInv, TypeOK, Invocation, Actors, file
<1>2. CliPlace(c)
  BY DEF LedgerInv, CliPlaces
<1>3. ASSUME pc'[c] = "mark" PROVE Lists(todo[c], run[c].dep.env)'
  <2>1. Lists(Verdict(c), run[c].dep.env)
    <3>1. CASE Job(c) = "CLEANUP"
      BY <1>1, <1>2, <1>3, <3>1, VerdictFits
    <3>2. CASE Job(c) # "CLEANUP"
      <4>1. Knows(run[c].dep.env)
        BY <1>1, <1>2, <3>2 DEF CliPlace, InCall, Lists
      <4> QED BY <1>1, <1>2, <3>2, <4>1, VerdictFits DEF Lists
    <3> QED BY <3>1, <3>2
  <2>2. PICK s, e : s = Verdict(c) /\ e = run[c].dep.env
    OBVIOUS
  <2>3. todo'[c] = s /\ run'[c].dep.env = e /\ Lists(s, e)
    BY <1>1, <2>1, <2>2 DEF Lists
  <2> QED BY <1>1, <2>3 DEF Lists, Knows
<1>4. CliPlace(c)'
  BY <1>1, <1>3 DEF CliPlace, InCall
<1>5. Fitting(todo'[c])
  BY <1>1, <1>2, VerdictFits
<1> QED BY <1>1, <1>4, <1>5, CliAlone

-----------------------------------------------------------------------------
(* The server.                                                             *)

\* What the command line that waits for a thread vouches for.
LEMMA Vouched ==
  ASSUME Alone, EarnInv, TurnInv, LedgerInv, NEW t \in Threads, Serving(t),
         req[t].job # "CLEANUP"
  PROVE  Knows(req[t].dep.env) /\ ~blank
<1> DEFINE c == req[t].client
<1>1. /\ c \in Clis /\ pc[c] = "wait" /\ todo[c] = <<>> /\ Job(c) = req[t].job
  BY Served DEF EarnInv, TurnInv
<1>2. CliPlace(c) /\ ThreadPlace(t)
  BY <1>1 DEF LedgerInv, CliPlaces, ThreadPlaces
<1>3. Lists(<<>>, run[c].dep.env) /\ req[t].dep = run[c].dep
  BY <1>1, <1>2 DEF CliPlace, InCall, ThreadPlace
<1>4. Knows(req[t].dep.env)
  BY <1>3 DEF Lists
<1> QED BY <1>4 DEF Knows, TurnInv, ListedOnce

\* check_db_file on the server's side: nothing to do.
LEMMA ThreadCheckLedger ==
  ASSUME Alone, TypeInv, EarnInv, TurnInv, LedgerInv, NEW t \in Threads,
         ThreadCheckFile(t) \/ ThreadCheckEnv(t)
  PROVE  LedgerInv'
<1> DEFINE d == req[t].dep
           q == InitScript(d, "server")
           r == <<Truncate>> \o q
<1>1. /\ todo[t] = <<>> /\ pc[t] \in {"checkFile", "checkEnv"}
      /\ UNCHANGED <<db, run, req, inbox>>
      /\ \A b \in Actors \ {t} : todo'[b] = todo[b] /\ pc'[b] = pc[b]
      /\ \/ pc'[t] = "checkEnv" /\ todo'[t] = IF blank THEN q ELSE <<>>
         \/ pc'[t] = "mark" /\ todo'[t] = IF Knows(d.env) THEN <<>> ELSE r
  BY DEF ThreadCheckFile, ThreadCheckEnv, CheckFile, CheckEnv, Ready, TypeInv, TypeOK, Actors,
         file, calls
<1>2. d \in Deployments /\ (blank => db = <<>>)
  BY DEF TypeInv, TypeOK, Requests, TurnInv, ListedOnce
<1>3. Fitting(todo'[t])
  BY <1>1, <1>2, NothingFits, InitScriptFits, StartOverFits
<1>4. ThreadPlace(t)'
  <2>1. Serving(t) /\ pc'[t] \notin Late
    BY <1>1 DEF Serving, Late
  <2>2. ThreadPlace(t)
    BY <2>1 DEF LedgerInv, ThreadPlaces
  <2>3. req[t].job # "CLEANUP" => todo'[t] = <<>>
    BY <1>1, <2>1, Vouched
  <2>4. req[t].job # "CLEANUP" => Entries'[req[t].job] = InProgress
    BY <1>1, <2>2, FileStays DEF ThreadPlace, Shown
  <2> QED BY <1>1, <2>1, <2>2, <2>3, <2>4 DEF ThreadPlace, Shown, Late
<1> QED BY <1>1, <1>3, <1>4, ThreadAlone

\* A hook records one update, or nothing where no job is known.
LEMMA RecordParts ==
  ASSUME NEW t, NEW x
  PROVE  /\ Record(x, t) \in {<<>>, <<Update(x, MarkedBy(t))>>}
         /\ Record(x, t) = <<>> => MarkedBy(t) = NoJob
<1>1. <<Update(x, MarkedBy(t))>> # <<>>
  OBVIOUS
<1> QED BY <1>1 DEF Record

\* A thread marks the job it finds for the path.
LEMMA ThreadMarkLedger ==
  ASSUME TypeInv, LedgerInv, NEW t \in Threads, ThreadMark(t) PROVE LedgerInv'
<1> DEFINE u == Update(InProgress, MarkedBy(t))
<1>1. /\ todo[t] = <<>> /\ pc[t] = "mark" /\ pc'[t] = "work"
      /\ UNCHANGED <<db, run, req, inbox>>
      /\ \A b \in Actors \ {t} : todo'[b] = todo[b] /\ pc'[b] = pc[b]
      /\ todo'[t] = Record(InProgress, t)
  BY DEF ThreadMark, Ready, TypeInv, TypeOK, Actors, file, calls
<1>2. Fitting(<<u>>)
  <2>1. u.kind = "update" /\ u.to = InProgress
    BY DEF Update
  <2> HIDE DEF u
  <2> QED BY <2>1 DEF Fitting, Fits
<1>3. todo'[t] \in {<<>>, <<u>>} /\ (todo'[t] = <<>> => MarkedBy(t) = NoJob)
  BY <1>1, RecordParts
<1>4. Fitting(todo'[t])
  BY <1>2, <1>3, NothingFits
<1>5. ThreadPlace(t)
  BY <1>1 DEF LedgerInv, ThreadPlaces, Serving
<1>6. Recorded(t)' = InProgress /\ MarkedBy(t)' = MarkedBy(t) /\ Entries' = Entries
  BY <1>1, FileStays DEF Recorded, MarkedBy
<1>7. Update(Recorded(t), MarkedBy(t))' = u
  BY <1>6 DEF Update
<1> HIDE DEF u
<1>8. ThreadPlace(t)'
  BY <1>1, <1>3, <1>5, <1>6, <1>7 DEF ThreadPlace, Shown, Late
<1> QED BY <1>1, <1>4, <1>8, ThreadAlone

\* The verdict of the endpoint fits the job it marked.
LEMMA ThreadWorkLedger ==
  ASSUME TypeInv, LedgerInv, NEW t \in Threads, ThreadWork(t) PROVE LedgerInv'
<1>1. /\ todo[t] = <<>> /\ pc[t] = "work" /\ UNCHANGED <<db, run, req, inbox>>
      /\ \A b \in Actors \ {t} : todo'[b] = todo[b] /\ pc'[b] = pc[b]
      /\ \/ pc'[t] = "200" /\ todo'[t] = Record(Passed, t)
         \/ pc'[t] = "500" /\ todo'[t] = Record(Failed, t)
  BY DEF ThreadWork, Ready, TypeInv, TypeOK, Actors, file, calls
<1>2. PICK x : x = IF pc'[t] = "200" THEN Passed ELSE Failed
  OBVIOUS
<1>3. /\ Recorded(t)' = x /\ MarkedBy(t)' = MarkedBy(t) /\ Entries' = Entries
      /\ x \in {Passed, Failed} /\ todo'[t] = Record(x, t)
  BY <1>1, <1>2, FileStays DEF Recorded, MarkedBy
<1> DEFINE u == Update(x, MarkedBy(t))
<1>4. todo'[t] \in {<<>>, <<u>>} /\ (todo'[t] = <<u>> => MarkedBy(t) # NoJob)
  BY <1>3 DEF Record
<1>5. ThreadPlace(t)
  BY <1>1 DEF LedgerInv, ThreadPlaces, Serving
<1>6. MarkedBy(t) # NoJob => Fitting(<<u>>)
  <2>1. u.kind = "update" /\ u.to = x /\ u.job = MarkedBy(t)
    BY DEF Update
  <2>2. MarkedBy(t) # NoJob => Entries[u.job] \in {InProgress, u.to, Absent}
    BY <1>1, <1>5, <2>1 DEF ThreadPlace
  <2> HIDE DEF u
  <2> QED BY <1>3, <2>1, <2>2 DEF Fitting, Fits
<1>7. Fitting(todo'[t])
  BY <1>4, <1>6, NothingFits
<1>8. Update(Recorded(t), MarkedBy(t))' = u
  BY <1>3 DEF Update
<1> HIDE DEF u
<1>9. req[t].job # "CLEANUP" => Entries[req[t].job] = InProgress
  BY <1>1, <1>5 DEF ThreadPlace, Shown
<1>10. ThreadPlace(t)'
  BY <1>1, <1>3, <1>4, <1>5, <1>8, <1>9 DEF ThreadPlace, Shown, Late
<1> QED BY <1>1, <1>7, <1>10, ThreadAlone

\* A thread replies what it has recorded.
LEMMA ThreadReplyLedger ==
  ASSUME Alone, TypeInv, EarnInv, TurnInv, LedgerInv, NEW t \in Threads, ThreadReply(t)
  PROVE  LedgerInv'
<1>1. Serving(t)
  BY DEF ThreadReply, Serving
<1>2. PICK c \in Clis : c = req[t].client
  BY <1>1, Served DEF EarnInv, TurnInv
<1>3. /\ pc[c] = "wait" /\ todo[c] = <<>> /\ Job(c) = req[t].job /\ c # NoClient
      /\ \A b \in Clis : b = c
      /\ \A u \in Threads \ {t} : ~Serving(u)
      /\ CliPlace(c) /\ ThreadPlace(t)
  BY <1>1, <1>2, Served, ActorAssumption DEF EarnInv, TurnInv, LedgerInv, CliPlaces, ThreadPlaces
<1>4. /\ pc[t] \in {"200", "500"} /\ pc'[t] = "free" /\ inbox'[c] = pc[t]
      /\ \A b \in Actors \ {t} : pc'[b] = pc[b]
      /\ UNCHANGED <<db, todo, run>>
  BY <1>2, <1>3 DEF ThreadReply, TypeInv, TypeOK, Actors, file
<1>5. Scripts'
  BY <1>4, ScriptsStay DEF LedgerInv
<1>6. CliPlace(c)'
  <2>1. pc'[c] = "wait" /\ Job(c)' = Job(c) /\ (InCall(c)' <=> InCall(c))
    BY <1>3, <1>4, ActorAssumption DEF Actors, Job, InCall
  <2>2. InCall(c) => Shown(Entries[Job(c)], inbox[c])'
    <3>1. Entries' = Entries
      BY <1>4, FileStays
    <3> QED BY <1>3, <1>4, <2>1, <3>1 DEF ThreadPlace, InCall, Shown
  <2>3. InCall(c) => Lists(todo[c], run[c].dep.env)'
    BY <1>3, <1>4 DEF CliPlace, Lists, Knows
  <2> QED BY <1>4, <2>1, <2>2, <2>3 DEF CliPlace
<1>7. \A u \in Threads : ~Serving(u)'
  BY <1>3, <1>4 DEF Serving, Actors
<1>8. CliPlaces'
  BY <1>3, <1>6 DEF CliPlaces
<1> QED BY <1>5, <1>7, <1>8 DEF LedgerInv, ThreadPlaces

\* The overview changes nothing.
LEMMA OverviewLedger ==
  ASSUME TypeInv, LedgerInv, NEW t \in Threads, OverviewRead(t) \/ OverviewStore(t)
  PROVE  LedgerInv'
<1>1. /\ UNCHANGED <<db, todo, run, req, inbox>> /\ pc'[t] \in {"free", "overview"}
      /\ \A b \in Actors \ {t} : pc'[b] = pc[b]
  BY DEF OverviewRead, OverviewStore, TypeInv, TypeOK, Actors, file, calls
<1> QED BY <1>1, ThreadAlone DEF Serving

-----------------------------------------------------------------------------
(* What follows.                                                           *)

\* At first there is no list.
LEMMA InitLedger == ASSUME Alone PROVE Init => LedgerInv
<1> SUFFICES ASSUME Init PROVE LedgerInv
  OBVIOUS
<1>1. /\ \A a \in Actors : todo[a] = <<>> /\ pc[a] \in {"free", "idle"}
      /\ \A c \in Clis : inbox[c] = "none"
      /\ \A t \in Threads : pc[t] = "free"
  BY DEF Init, Actors
<1>2. Scripts
  BY <1>1, NothingFits DEF Scripts
<1>3. CliPlaces
  BY <1>1 DEF CliPlaces, CliPlace, InCall, Actors
<1>4. ThreadPlaces
  BY <1>1 DEF ThreadPlaces, Serving
<1> QED BY <1>2, <1>3, <1>4 DEF LedgerInv

\* Every step keeps the invariant and is a step of the ledger.
LEMMA StepLedger ==
  ASSUME Alone
  PROVE  TypeInv /\ EarnInv /\ TurnInv /\ LedgerInv /\ [Working]_vars
           => LedgerInv' /\ [Ledger!Next]_Entries
<1> SUFFICES ASSUME TypeInv, EarnInv, TurnInv, LedgerInv, [Working]_vars
             PROVE  LedgerInv' /\ [Ledger!Next]_Entries
  OBVIOUS
<1>1. ASSUME NEW a \in Actors, WriteFile(a) PROVE LedgerInv' /\ [Ledger!Next]_Entries
  BY <1>1, WriteFileLedger
<1>2. ASSUME NEW a \in Actors, ReadFile(a) PROVE LedgerInv' /\ UNCHANGED Entries
  BY <1>2, ReadFileLedger, FileStays DEF ReadFile, file
<1>3. ASSUME NEW c \in Clis, CliStart(c) \/ CliStep(c) \/ CliInterrupt(c)
      PROVE  LedgerInv' /\ UNCHANGED Entries
  <2>1. ~CliInterrupt(c)
    BY DEF Alone, CliInterrupt
  <2>2. LedgerInv'
    BY <1>3, <2>1, CliCheckLedger, CliStartLedger, CliMarkLedger, CliSendLedger,
       CliConcludeLedger DEF CliStep
  <2>3. db' = db
    BY <1>3, <2>1
       DEF CliStart, CliStep, CliCheckFile, CliCheckEnv, CheckFile, CheckEnv, CliPrompt, CliMark,
           CliSend, CliConclude, file
  <2> QED BY <2>2, <2>3, FileStays
<1>4. ASSUME NEW t \in Threads, UiPost(t) \/ ThreadStep(t) \/ OverviewRead(t)
      PROVE  LedgerInv' /\ UNCHANGED Entries
  <2>1. ~UiPost(t)
    BY DEF Alone, UiPost
  <2>2. LedgerInv'
    BY <1>4, <2>1, ThreadCheckLedger, ThreadMarkLedger, ThreadWorkLedger, ThreadReplyLedger,
       OverviewLedger DEF ThreadStep
  <2>3. db' = db
    BY <1>4, <2>1
       DEF ThreadStep, ThreadCheckFile, ThreadCheckEnv, CheckFile, CheckEnv, ThreadMark, ThreadWork,
           ThreadReply, OverviewRead, OverviewStore, file
  <2> QED BY <2>2, <2>3, FileStays
<1>5. CASE UNCHANGED vars
  <2>1. UNCHANGED <<db, todo, pc, run, req, inbox>>
    BY <1>5 DEF vars, file, work, calls
  <2>2. Scripts' /\ CliPlaces' /\ ThreadPlaces'
    BY <2>1, ScriptsStay, CliStays, ThreadStays
       DEF LedgerInv, CliPlaces, ThreadPlaces, Serving
  <2> QED BY <2>1, <2>2, FileStays DEF LedgerInv
<1> QED BY <1>1, <1>2, <1>3, <1>4, <1>5 DEF Working

\* However many threads there are and whatever jobs the operator asks for, the
\* file that two processes write without a lock, an entry at a time, is the
\* ledger: a verdict is given to a job in progress only, and a list that is
\* started over keeps nothing of the old one.
THEOREM FileIsLedger == ASSUME Alone PROVE SteadySpec => LedgerSpec
<1>1. Init => Ledger!Init
  <2> SUFFICES ASSUME Init PROVE Entries = Ledger!Empty
    BY DEF Ledger!Init
  <2> QED BY LedgerWords DEF Init, Entries, Absent
<1> QED BY <1>1, TurnInvariant, InitLedger, StepLedger, PTL DEF SteadySpec, LedgerSpec, Ledger!Spec
=============================================================================
