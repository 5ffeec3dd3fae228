--------------------------- MODULE JobTurns_proofs ---------------------------
(***************************************************************************)
(* That one operator's command line and the threads of the server take      *)
(* turns at the status file, with any number of threads and any jobs, as    *)
(* long as the server does not end; and that a server which ends, and has   *)
(* the file to itself, fails every job in progress before it listens again. *)
(***************************************************************************)
EXTENDS JobStatus_proofs

Alone == (\E c : Clis = {c}) /\ UiRequests = {} /\ Interruptible = {}

\* A thread has a request to serve.
Serving(t) == pc[t] \notin {"free", "overview"}

\* Each request is that of a command line, which waits (SoundCalls) and leaves
\* the file alone meanwhile, as does the recovery loop.
Hosted ==
  /\ server = "up"
  /\ \A t \in Threads : Serving(t) => req[t].client \in Clis
  /\ \A t \in Threads : ~Serving(t) => todo[t] = <<>>
  /\ \A c \in Clis : pc[c] = "wait" => todo[c] = <<>>
  /\ todo[Prober] = <<>>

\* A copy in use is the file as it is.
Current(a) == copy[a] # <<>> => pc[a] = "overview" \/ (todo[a] # <<>> /\ copy[a] = <<db>>)

CopiesCurrent ==
  /\ \A a \in Actors : Current(a)
  /\ \A a \in Actors \ Threads : pc[a] # "overview"

\* The component list is inserted into a file that has none.
Once(s) ==
  \A i \in 1..Len(s) :
    s[i].kind = "insert" => (i = 1 /\ db = <<>>) \/ (i = 2 /\ s[1].kind = "truncate")

ListedOnce ==
  /\ blank => db = <<>>
  /\ Len(db) <= 1
  /\ \A a \in Actors : Once(todo[a])

\* Whoever marks a job IN PROGRESS goes on to own it.
Marking(a, j) ==
  \/ a \in Clis /\ pc[a] = "send" /\ Job(a) = j
  \/ a \in Threads /\ pc[a] = "work" /\ MarkedBy(a) = j

MarkersOwn ==
  \A a \in Actors : \A i \in 1..Len(todo[a]) :
    todo[a][i].kind = "update" /\ todo[a][i].to = InProgress => Marking(a, todo[a][i].job)

Owned == \A j \in Running(db) : \E a \in Actors : Owns(a, j)

\* A cleanup's PASSED stands behind the operation that empties the file.
CleanedAt(s, i) ==
  /\ \A k \in 1..(i-1) : s[k].kind = "update" => s[k].to = NotApplicable
  /\ Begun(db) = {} \/ \E k \in 1..(i-1) : s[k].kind = "truncate"

CleanedBefore ==
  \A c \in Clis : \A i \in 1..Len(todo[c]) :
    todo[c][i] = Update(Passed, "CLEANUP") => CleanedAt(todo[c], i)

\* The inductive invariant.
TurnInv ==
  Hosted /\ CopiesCurrent /\ ListedOnce /\ MarkersOwn /\ Owned /\ CleanedBefore

-----------------------------------------------------------------------------
(* What operations do to what a content shows.                             *)

Shows(d, s) == {j \in Jobs : \E i \in 1..Len(d) : d[i].st[j] = s}

\* The jobs in progress and the jobs passed, by what the documents of a file show.
LEMMA ShownIn == \A d : Running(d) = Shows(d, InProgress) /\ PassedIn(d) = Shows(d, Passed)
BY DEF Shows, Running, PassedIn

\* The jobs begun, by the statuses that are not those of a new list.
LEMMA BegunShows ==
  ASSUME NEW d, NEW j
  PROVE  j \in Begun(d) <=> \E s : s \notin {NotStarted, NotApplicable} /\ j \in Shows(d, s)
BY DEF Shows, Begun

\* A status that is not that of a new list was there or is what was written.
LEMMA ApplyShows ==
  ASSUME NEW op \in Op, NEW d \in Seq(Table), NEW s, s # NotStarted,
         NEW j \in Shows(Apply(op, d), s)
  PROVE  /\ op.kind # "truncate"
         /\ \/ op.kind = "update" /\ op.job = j /\ op.to = s
            \/ j \in Shows(d, s) /\ (op.kind = "update" => op.job # j)
<1>0. j \in Jobs
  BY DEF Shows
<1>1. CASE op.kind = "truncate"
  <2>1. Shows(<<>>, s) = {}
    BY DEF Shows
  <2> QED BY <1>1, <2>1 DEF Apply
<1>2. CASE op.kind = "insert"
  <2>1. Apply(op, d) = Append(d, Fresh(op.env))
    BY <1>2 DEF Apply
  <2>2. Fresh(op.env).st[j] # s
    BY <1>0 DEF Fresh
  <2>3. /\ \A i \in 1..Len(d) + 1 :
             Append(d, Fresh(op.env))[i] = IF i \in 1..Len(d) THEN d[i] ELSE Fresh(op.env)
        /\ Len(Append(d, Fresh(op.env))) = Len(d) + 1
    BY DEF Table
  <2>4. PICK i \in 1..Len(d) + 1 : Append(d, Fresh(op.env))[i].st[j] = s
    BY <2>1, <2>3 DEF Shows
  <2>5. i \in 1..Len(d) /\ d[i].st[j] = s
    BY <2>2, <2>3, <2>4
  <2> QED BY <1>0, <1>2, <2>5 DEF Shows
<1>3. CASE op.kind = "update"
  <2>1. /\ Apply(op, d) = [i \in 1..Len(d) |-> WithStatus(d[i], op.job, op.to)]
        /\ op.job \in Jobs
    BY <1>3 DEF Apply, Op
  <2>2. PICK i \in 1..Len(d) : WithStatus(d[i], op.job, op.to).st[j] = s
    BY <2>1 DEF Shows
  <2>3. d[i].st \in [Jobs -> Statuses]
    <3>1. d[i] \in Table
      OBVIOUS
    <3> QED BY <3>1 DEF Table
  <2>4. CASE j = op.job
    <3>1. WithStatus(d[i], op.job, op.to).st[j] = op.to
      BY <1>0, <2>3, <2>4 DEF WithStatus
    <3> QED BY <1>3, <2>2, <2>4, <3>1
  <2>5. CASE j # op.job
    <3>1. d[i].st[j] = s
      BY <1>0, <2>2, <2>3, <2>5 DEF WithStatus
    <3> QED BY <1>0, <1>3, <2>5, <3>1 DEF Shows
  <2> QED BY <2>4, <2>5
<1> QED BY <1>1, <1>2, <1>3 DEF Op

\* No second list is inserted, and a truncated file is empty.
LEMMA ApplyLength ==
  ASSUME NEW op \in Op, NEW d \in Seq(Table), Len(d) <= 1, op.kind = "insert" => d = <<>>
  PROVE  Len(Apply(op, d)) <= 1 /\ (op.kind = "truncate" => Apply(op, d) = <<>>)
<1>1. CASE op.kind = "truncate"
  BY <1>1 DEF Apply
<1>2. CASE op.kind = "insert"
  BY <1>2 DEF Apply
<1>3. CASE op.kind = "update"
  <2>1. Apply(op, d) = [i \in 1..Len(d) |-> WithStatus(d[i], op.job, op.to)]
    BY <1>3 DEF Apply
  <2>2. Apply(op, d) \in Seq(Table) /\ Len(Apply(op, d)) = Len(d)
    BY <2>1, ApplyType
  <2> QED BY <1>3, <2>2
<1> QED BY <1>1, <1>2, <1>3 DEF Op

\* initialize_db inserts, and then strikes.
LEMMA InitScriptParts ==
  ASSUME NEW d \in Deployments, NEW caller, NEW i \in 1..Len(InitScript(d, caller))
  PROVE  \/ i = 1 /\ InitScript(d, caller)[i].kind = "insert"
         \/ /\ i # 1 /\ InitScript(d, caller)[i].kind = "update"
            /\ InitScript(d, caller)[i].to = NotApplicable
<1>1. \A j : NA(j).kind = "update" /\ NA(j).to = NotApplicable
  BY DEF NA, Update
<1>2. Insert(d.env).kind = "insert"
  BY DEF Insert
<1> DEFINE Good(s) == \A k \in 1..Len(s) :
              \/ k = 1 /\ s[k].kind = "insert"
              \/ k # 1 /\ s[k].kind = "update" /\ s[k].to = NotApplicable
<1>3. Good(InitScript(d, caller))
  BY <1>1, <1>2 DEF InitScript
<1> QED BY <1>3

\* The scripts of check_db_file and of a cleanup that worked.
LEMMA StartOverParts ==
  ASSUME NEW d \in Deployments, NEW caller,
         NEW i \in 1..Len(<<Truncate>> \o InitScript(d, caller))
  PROVE  LET s == <<Truncate>> \o InitScript(d, caller)
         IN  \/ i = 1 /\ s[i] = Truncate
             \/ i = 2 /\ s[i].kind = "insert"
             \/ i > 2 /\ s[i].kind = "update" /\ s[i].to = NotApplicable
<1> DEFINE q == InitScript(d, caller)
           s == <<Truncate>> \o q
<1>1. q \in Seq(Op) /\ <<Truncate>> \in Seq(Op)
  BY InitScriptType DEF Truncate, Op
<1>2. /\ s[1] = Truncate
      /\ i = 1 \/ (i - 1 \in 1..Len(q) /\ s[i] = q[i - 1] /\ i > 1)
  BY <1>1
<1>3. i = 1 \/ (i - 1 = 1 /\ s[i].kind = "insert")
      \/ (i - 1 # 1 /\ s[i].kind = "update" /\ s[i].to = NotApplicable)
  BY <1>2, InitScriptParts
<1> HIDE DEF s, q
<1>4. i \in Nat
  OBVIOUS
<1> QED BY <1>2, <1>3, <1>4 DEF s, q

\* The operations of a cleanup that worked: empty, insert, strike, pass.
LEMMA CleanupParts ==
  ASSUME NEW d \in Deployments,
         NEW i \in 1..Len(<<Truncate>> \o InitScript(d, "cli") \o <<Update(Passed, "CLEANUP")>>)
  PROVE  LET s == <<Truncate>> \o InitScript(d, "cli") \o <<Update(Passed, "CLEANUP")>>
         IN  /\ s[1] = Truncate
             /\ \/ i = 1
                \/ i = 2 /\ s[i].kind = "insert"
                \/ i > 2 /\ s[i].kind = "update" /\ s[i].to = NotApplicable
                \/ i > 2 /\ i = Len(s) /\ s[i] = Update(Passed, "CLEANUP")
<1> DEFINE r == <<Truncate>> \o InitScript(d, "cli")
           q == <<Update(Passed, "CLEANUP")>>
           s == r \o q
<1>1. r \in Seq(Op) /\ q \in Seq(Op) /\ Len(r) > 1 /\ Len(q) = 1
  <2>1. InitScript(d, "cli") \in Seq(Op) /\ Truncate \in Op /\ Update(Passed, "CLEANUP") \in Op
    BY InitScriptType, UpdateType DEF Truncate, Op, Passed, Statuses, Jobs
  <2>2. InitScript(d, "cli") # <<>>
    BY DEF InitScript
  <2> QED BY <2>1, <2>2
<1>2. /\ 1 \in 1..Len(r) /\ Len(s) = Len(r) + 1 /\ s[Len(r) + 1] = q[1]
      /\ \A k \in 1..Len(r) : s[k] = r[k]
  BY <1>1
<1>3. r[1] = Truncate
  BY <1>1, StartOverParts
<1>4. CASE i \in 1..Len(r)
  <2>1. \/ i = 1 /\ r[i] = Truncate
        \/ i = 2 /\ r[i].kind = "insert"
        \/ i > 2 /\ r[i].kind = "update" /\ r[i].to = NotApplicable
    BY <1>4, StartOverParts
  <2> QED BY <1>2, <1>3, <1>4, <2>1
<1>5. CASE i \notin 1..Len(r)
  <2>1. i = Len(s) /\ i > 2 
    BY <1>1, <1>2, <1>5
  <2> QED BY <1>2, <1>3, <2>1
<1> QED BY <1>4, <1>5

-----------------------------------------------------------------------------
(* Turns.                                                                  *)

\* At most one process has operations to make.
LEMMA OneAtWork ==
  ASSUME Alone, SoundCalls, Hosted,
         NEW a \in Actors, NEW b \in Actors, todo[a] # <<>>, todo[b] # <<>>
  PROVE  a = b
<1>1. PICK c : Clis = {c}
  BY DEF Alone
<1>2. a \in Clis \cup Threads /\ b \in Clis \cup Threads
  BY DEF Hosted, Actors
<1>3. \A t \in Threads : todo[t] # <<>> => req[t].client = c /\ pc[c] = "wait" /\ todo[c] = <<>>
  BY <1>1 DEF Hosted, SoundCalls, Awaits
<1>4. \A t, u \in Threads : todo[t] # <<>> /\ todo[u] # <<>> => t = u
  BY <1>1, <1>3 DEF SoundCalls
<1> QED BY <1>1, <1>2, <1>3, <1>4

\* Who has nothing to write owns a job by its place alone.
LEMMA OwnsByPlace ==
  ASSUME NEW a, NEW j, todo[a] = <<>>, Owns(a, j)
  PROVE  pc[a] \in {"send", "wait", "work"}
BY DEF Owns, Pending

\* Processes with nothing to write go on, with a script each; the file and the
\* others stay as they are.
LEMMA GoOn ==
  ASSUME TypeInv, TurnInv, NEW M \in SUBSET Actors, UNCHANGED <<db, blank, copy>>,
         \A b \in Actors \ M : todo'[b] = todo[b] /\ pc'[b] = pc[b],
         \A b \in Clis \ M : run'[b] = run[b],
         \A b \in Threads \ M : req'[b] = req[b],
         \A m \in M : todo[m] = <<>> /\ pc[m] # "overview" /\ pc'[m] # "overview",
         \A m \in M : Once(todo'[m]),
         \A m \in M : \A i \in 1..Len(todo'[m]) :
           todo'[m][i].kind = "update" /\ todo'[m][i].to = InProgress
             => Marking(m, todo[m][i].job)',
         \A m \in M \cap Clis : \A i \in 1..Len(todo'[m]) :
           todo'[m][i] = Update(Passed, "CLEANUP") => CleanedAt(todo'[m], i),
         \A m \in M : \A j \in Jobs : Owns(m, j) => Owns(m, j)'
  PROVE  CopiesCurrent' /\ ListedOnce' /\ MarkersOwn' /\ Owned' /\ CleanedBefore'
<1>1. CopiesCurrent'
  BY DEF TurnInv, CopiesCurrent, Current
<1>2. ListedOnce'
  <2>1. \A a \in Actors : Once(todo'[a])
    BY DEF TurnInv, ListedOnce
  <2> QED BY <2>1 DEF TurnInv, ListedOnce, Once
<1>3. MarkersOwn'
  <2> SUFFICES ASSUME NEW a \in Actors, NEW i \in 1..Len(todo'[a]),
                      todo'[a][i].kind = "update", todo'[a][i].to = InProgress
               PROVE  Marking(a, todo[a][i].job)'
    BY DEF MarkersOwn
  <2>1. CASE a \in M
    BY <2>1
  <2>2. CASE a \notin M
    <3>1. todo'[a] = todo[a] /\ Marking(a, todo[a][i].job)
      BY <2>2 DEF TurnInv, MarkersOwn
    <3> QED BY <2>2, <3>1 DEF Marking, Job, MarkedBy
  <2> QED BY <2>1, <2>2
<1>4. Owned'
  <2> SUFFICES ASSUME NEW j \in Running(db) PROVE \E a \in Actors : Owns(a, j)'
    BY DEF Owned, Running
  <2>1. j \in Jobs
    BY DEF Running
  <2>2. PICK a \in Actors : Owns(a, j)
    BY DEF TurnInv, Owned
  <2>3. CASE a \in M
    BY <2>1, <2>2, <2>3
  <2>4. CASE a \notin M
    BY <2>2, <2>4 DEF Owns, Pending, Job, MarkedBy
  <2> QED BY <2>3, <2>4
<1>5. CleanedBefore'
  <2>1. \A c \in Clis : \A i \in 1..Len(todo'[c]) :
          todo'[c][i] = Update(Passed, "CLEANUP") => CleanedAt(todo'[c], i)
    BY DEF TurnInv, CleanedBefore, Actors
  <2> QED BY <2>1 DEF CleanedBefore, CleanedAt, Begun
<1> QED BY <1>1, <1>2, <1>3, <1>4, <1>5

\* The same, of a single process.
LEMMA OneGoesOn ==
  ASSUME TypeInv, TurnInv, NEW a \in Actors, UNCHANGED <<db, blank, copy, run, req>>,
         \A b \in Actors \ {a} : todo'[b] = todo[b] /\ pc'[b] = pc[b],
         todo[a] = <<>>, pc[a] # "overview", pc'[a] # "overview", Once(todo'[a]),
         \A i \in 1..Len(todo'[a]) :
           todo'[a][i].kind = "update" /\ todo'[a][i].to = InProgress
             => Marking(a, todo[a][i].job)',
         a \in Clis => \A i \in 1..Len(todo'[a]) :
           todo'[a][i] = Update(Passed, "CLEANUP") => CleanedAt(todo'[a], i),
         \A j \in Jobs : Owns(a, j) => Owns(a, j)'
  PROVE  CopiesCurrent' /\ ListedOnce' /\ MarkersOwn' /\ Owned' /\ CleanedBefore'
<1> DEFINE M == {a}
<1>1. M \in SUBSET Actors /\ \A m \in M : m = a
  OBVIOUS
<1>2. \A b \in Actors \ M : todo'[b] = todo[b] /\ pc'[b] = pc[b]
  OBVIOUS
<1> HIDE DEF M
<1> QED BY <1>1, <1>2, GoOn

\* Nothing to write is nothing wrong.
LEMMA NothingToDo ==
  /\ Once(<<>>)
  /\ \A i : i \notin 1..Len(<<>>)
BY DEF Once

\* A script of one update.
LEMMA OneUpdate ==
  ASSUME NEW s, NEW j
  PROVE  /\ Once(<<Update(s, j)>>)
         /\ \A i \in 1..Len(<<Update(s, j)>>) : <<Update(s, j)>>[i] = Update(s, j)
BY DEF Once, Update

-----------------------------------------------------------------------------
(* Steps.                                                                  *)

\* At first nobody writes.
LEMMA InitTurn == ASSUME Alone PROVE Init => TurnInv
<1> SUFFICES ASSUME Init PROVE TurnInv
  OBVIOUS
<1>1. \A a \in Actors : todo[a] = <<>> /\ copy[a] = <<>> /\ pc[a] \in {"free", "idle"}
  BY DEF Init
<1>2. \A t \in Threads : pc[t] = "free"
  BY DEF Init, Actors
<1>3. Hosted
  BY <1>1, <1>2 DEF Init, Hosted, Serving, Actors
<1>4. CopiesCurrent
  BY <1>1 DEF CopiesCurrent, Current
<1>5. ListedOnce
  BY <1>1, NothingToDo DEF Init, ListedOnce
<1>6. MarkersOwn /\ CleanedBefore
  BY <1>1, NothingToDo DEF MarkersOwn, CleanedBefore, Actors
<1>7. Owned
  BY DEF Init, Owned, Running
<1> QED BY <1>3, <1>4, <1>5, <1>6, <1>7 DEF TurnInv

\* Who reads the file is alone with it.
LEMMA ReadFileTurn ==
  ASSUME TypeInv, TurnInv, NEW a \in Actors, ReadFile(a) PROVE TurnInv'
<1>1. UNCHANGED <<file, todo, pc, calls, server>> /\ todo[a] # <<>>
  BY DEF ReadFile, life
<1>2. Hosted' /\ ListedOnce' /\ MarkersOwn' /\ Owned' /\ CleanedBefore'
  BY <1>1
     DEF TurnInv, Hosted, Serving, ListedOnce, Once, MarkersOwn, Marking, Owned, Owns, Pending,
         CleanedBefore, CleanedAt, Running, Begun, Job, MarkedBy, file, calls
<1>3. CopiesCurrent'
  BY DEF TurnInv, CopiesCurrent, Current, ReadFile, file, TypeInv, TypeOK
<1> QED BY <1>2, <1>3 DEF TurnInv

\* The operation of the only process that has any is applied to the file as it is.
LEMMA WriteFileShape ==
  ASSUME Alone, TypeInv, EarnInv, TurnInv, NEW a \in Actors, WriteFile(a)
  PROVE  /\ Head(todo[a]) \in Op /\ todo[a] \in Seq(Op) /\ todo[a] # <<>>
         /\ 1 \in 1..Len(todo[a]) /\ Head(todo[a]) = todo[a][1]
         /\ db \in Seq(Table) /\ db' = Apply(Head(todo[a]), db) /\ blank' = FALSE
         /\ todo'[a] = Tail(todo[a]) /\ copy'[a] = <<>>
         /\ \A b \in Actors \ {a} : todo[b] = <<>> /\ todo'[b] = <<>> /\ copy'[b] = copy[b]
         /\ UNCHANGED <<pc, calls, server>>
<1>1. todo[a] # <<>> /\ copy[a] # <<>>
  BY DEF WriteFile
<1>2. pc[a] # "overview"
  BY <1>1 DEF TypeInv, InHand, TurnInv, CopiesCurrent
<1>3. copy[a] = <<db>>
  BY <1>1, <1>2 DEF TurnInv, CopiesCurrent, Current
<1>4. \A b \in Actors \ {a} : todo[b] = <<>>
  BY <1>1, OneAtWork DEF EarnInv, TurnInv
<1>5. todo[a] \in Seq(Op) /\ db \in Seq(Table)
  BY DEF TypeInv, TypeOK
<1>6. Head(todo[a]) \in Op /\ 1 \in 1..Len(todo[a]) /\ Head(todo[a]) = todo[a][1]
  BY <1>1, <1>5
<1>7. db' = Apply(Head(todo[a]), db) /\ blank' = FALSE
  BY <1>3 DEF WriteFile
<1>8. /\ todo'[a] = Tail(todo[a]) /\ copy'[a] = <<>>
      /\ \A b \in Actors \ {a} : todo'[b] = todo[b] /\ copy'[b] = copy[b]
  BY DEF WriteFile, TypeInv, TypeOK
<1> QED BY <1>1, <1>4, <1>5, <1>6, <1>7, <1>8 DEF WriteFile

\* Who writes it writes back what it is, changed by one operation.
LEMMA WriteFileTurn ==
  ASSUME Alone, TypeInv, EarnInv, TurnInv, NEW a \in Actors, WriteFile(a)
  PROVE  TurnInv'
<1> DEFINE s == todo[a]
           op == Head(s)
<1>1. /\ op \in Op /\ s \in Seq(Op) /\ s # <<>> /\ 1 \in 1..Len(s) /\ op = s[1]
      /\ db \in Seq(Table) /\ db' = Apply(op, db) /\ blank' = FALSE
      /\ todo'[a] = Tail(s) /\ copy'[a] = <<>>
      /\ \A b \in Actors \ {a} : todo[b] = <<>> /\ todo'[b] = <<>> /\ copy'[b] = copy[b]
      /\ UNCHANGED <<pc, calls, server>>
  BY WriteFileShape
<1>2. /\ \A i \in 1..Len(Tail(s)) : i + 1 \in 1..Len(s) /\ Tail(s)[i] = s[i + 1]
      /\ \A i \in 1..Len(s) : i = 1 \/ (i - 1 \in 1..Len(Tail(s)) /\ Tail(s)[i - 1] = s[i])
  BY <1>1
<1>3. op.kind = "insert" => db = <<>>
  BY <1>1 DEF TurnInv, ListedOnce, Once
<1>4. Len(db') <= 1 /\ (op.kind = "truncate" => db' = <<>>)
  BY <1>1, <1>3, ApplyLength DEF TurnInv, ListedOnce
<1> HIDE DEF s, op
<1>5. Hosted'
  BY <1>1, ActorAssumption DEF TurnInv, Hosted, Serving, Actors, calls, s
<1>6. CopiesCurrent'
  BY <1>1 DEF TurnInv, CopiesCurrent, Current
<1>7. ListedOnce'
  <2>1. ASSUME NEW i \in 1..Len(Tail(s)), Tail(s)[i].kind = "insert"
        PROVE  i = 1 /\ db' = <<>>
    <3>1. s[i + 1].kind = "insert" /\ i + 1 \in 1..Len(s) /\ i + 1 # 1
      BY <1>2, <2>1
    <3>2. Once(s)
      BY DEF TurnInv, ListedOnce, s
    <3>3. i + 1 = 2 /\ s[1].kind = "truncate"
      BY <3>1, <3>2 DEF Once
    <3> QED BY <1>1, <1>4, <3>3
  <2>2. Once(todo[a])'
    BY <1>1, <2>1 DEF Once
  <2>3. \A b \in Actors \ {a} : Once(todo[b])'
    BY <1>1, NothingToDo DEF Once
  <2> QED BY <1>1, <1>4, <2>2, <2>3 DEF ListedOnce
<1>8. MarkersOwn'
  <2> SUFFICES ASSUME NEW b \in Actors, NEW i \in 1..Len(todo'[b]),
                      todo'[b][i].kind = "update", todo'[b][i].to = InProgress
               PROVE  Marking(b, todo[b][i].job)'
    BY DEF MarkersOwn
  <2>1. b = a
    BY <1>1, NothingToDo
  <2>2. i \in 1..Len(Tail(s)) /\ todo'[b][i] = Tail(s)[i]
    BY <1>1, <2>1
  <2>3. Marking(a, Tail(s)[i].job)
    BY <1>2, <2>2 DEF TurnInv, MarkersOwn, s
  <2>4. \A j : Marking(a, j) => Marking(a, j)'
    BY <1>1 DEF Marking, Job, MarkedBy, calls
  <2> QED BY <2>1, <2>2, <2>3, <2>4 DEF Marking
<1>9. Owned'
  <2> SUFFICES ASSUME NEW j \in Running(db') PROVE \E b \in Actors : Owns(b, j)'
    BY DEF Owned, Running
  <2>1. /\ op.kind # "truncate"
        /\ \/ op.kind = "update" /\ op.job = j /\ op.to = InProgress
           \/ j \in Running(db) /\ (op.kind = "update" => op.job # j)
    <3>1. j \in Shows(Apply(op, db), InProgress) /\ InProgress # NotStarted
      BY <1>1, ShownIn DEF InProgress, NotStarted
    <3> QED BY <1>1, <3>1, ApplyShows, ShownIn
  <2>2. CASE op.kind = "update" /\ op.job = j /\ op.to = InProgress
    <3>1. Marking(a, j)
      BY <1>1, <2>2 DEF TurnInv, MarkersOwn, s
    <3> QED BY <1>1, <3>1 DEF Marking, Owns, Job, MarkedBy, calls
  <2>3. CASE j \in Running(db) /\ (op.kind = "update" => op.job # j)
    <3>1. PICK b \in Actors : Owns(b, j)
      BY <2>3 DEF TurnInv, Owned
    <3>2. CASE \E i \in 1..Len(todo[b]) :
                 todo[b][i].kind # "insert" /\ (todo[b][i].kind = "update" => todo[b][i].job = j)
      <4>1. PICK i \in 1..Len(todo[b]) :
              todo[b][i].kind # "insert" /\ (todo[b][i].kind = "update" => todo[b][i].job = j)
        BY <3>2
      <4>2. b = a
        BY <1>1, <4>1, NothingToDo
      <4>3. i # 1
        <5>1. op.kind \in {"truncate", "insert", "update"}
          BY <1>1 DEF Op
        <5> QED BY <1>1, <2>1, <2>3, <4>1, <4>2, <5>1 DEF s
      <4>4. i - 1 \in 1..Len(Tail(s)) /\ Tail(s)[i - 1] = todo[b][i]
        BY <1>2, <4>1, <4>2, <4>3 DEF s
      <4>5. todo[b][i] \in Pending(b)'
        BY <1>1, <4>2, <4>4 DEF Pending
      <4> QED BY <4>1, <4>5 DEF Owns
    <3>3. CASE \/ b \in Clis /\ pc[b] \in {"send", "wait"} /\ Job(b) = j
               \/ b \in Threads /\ pc[b] = "work" /\ MarkedBy(b) = j
      BY <1>1, <3>3 DEF Owns, Job, MarkedBy, calls
    <3> QED BY <3>1, <3>2, <3>3 DEF Owns, Pending
  <2> QED BY <2>1, <2>2, <2>3
<1>10. CleanedBefore'
  <2> SUFFICES ASSUME a \in Clis, NEW i \in 1..Len(Tail(s)),
                      Tail(s)[i] = Update(Passed, "CLEANUP")
               PROVE  /\ \A k \in 1..(i-1) : Tail(s)[k].kind = "update" => Tail(s)[k].to = NotApplicable
                      /\ Begun(db') = {} \/ \E k \in 1..(i-1) : Tail(s)[k].kind = "truncate"
    BY <1>1, NothingToDo DEF CleanedBefore, CleanedAt, Begun, Actors
  <2>1. i + 1 \in 1..Len(s) /\ s[i + 1] = Update(Passed, "CLEANUP")
    BY <1>2
  <2>2. CleanedAt(s, i + 1)
    BY <2>1 DEF TurnInv, CleanedBefore, s
  <2>3. /\ \A k \in 1..i : s[k].kind = "update" => s[k].to = NotApplicable
        /\ Begun(db) = {} \/ \E k \in 1..i : s[k].kind = "truncate"
    BY <2>2 DEF CleanedAt
  <2>4. \A k \in 1..(i-1) : k + 1 \in 1..i /\ Tail(s)[k] = s[k + 1]
    BY <1>2
  <2>5. op.kind = "update" => op.to = NotApplicable
    BY <1>1, <2>3
  <2>6. Begun(db') \subseteq Begun(db) /\ (op.kind = "truncate" => Begun(db') = {})
    <3>1. ASSUME NEW j \in Begun(db') PROVE j \in Begun(db) /\ op.kind # "truncate"
      <4>1. PICK q : q \notin {NotStarted, NotApplicable} /\ j \in Shows(db', q)
        BY <3>1, BegunShows
      <4>2. j \in Shows(Apply(op, db), q) /\ q # NotStarted
        BY <1>1, <4>1
      <4>3. op.kind # "truncate" /\ j \in Shows(db, q)
        BY <1>1, <2>5, <4>1, <4>2, ApplyShows
      <4> QED BY <4>1, <4>3, BegunShows
    <3> QED BY <3>1
  <2>7. CASE Begun(db) = {} \/ op.kind = "truncate"
    BY <2>3, <2>4, <2>6, <2>7
  <2>8. CASE op.kind # "truncate" /\ \E k \in 1..i : s[k].kind = "truncate"
    <3>1. PICK k \in 1..i : s[k].kind = "truncate"
      BY <2>8
    <3>2. k # 1
      BY <1>1, <2>8, <3>1
    <3>3. k - 1 \in 1..(i-1) /\ Tail(s)[k - 1] = s[k]
      BY <2>4, <3>2
    <3> QED BY <2>3, <2>4, <3>1, <3>3
  <2> QED BY <2>3, <2>7, <2>8
<1> QED BY <1>5, <1>6, <1>7, <1>8, <1>9, <1>10 DEF TurnInv

\* check_db_file, whoever calls it: a list is inserted into an empty file.
LEMMA CheckTurn ==
  ASSUME TypeInv, TurnInv, NEW a \in Clis \cup Threads, NEW d \in Deployments, NEW caller,
         CheckFile(a, d, caller) \/ CheckEnv(a, d, caller)
  PROVE  TurnInv'
<1> DEFINE q == InitScript(d, caller)
           r == <<Truncate>> \o q
<1>1. /\ todo[a] = <<>> /\ pc[a] \in {"checkFile", "checkEnv"}
      /\ pc' = [pc EXCEPT ![a] = pc'[a]] /\ pc'[a] \in {"checkEnv", "mark"}
      /\ UNCHANGED <<file, copy, calls, life>>
      /\ todo' = [todo EXCEPT ![a] = todo'[a]]
      /\ \/ todo'[a] = <<>>
         \/ todo'[a] = q /\ blank
         \/ todo'[a] = r
  BY DEF CheckFile, CheckEnv, Ready, TypeInv, TypeOK, Actors
<1>2. \A b \in Actors \ {a} : todo'[b] = todo[b] /\ pc'[b] = pc[b]
  BY <1>1 DEF TypeInv, TypeOK
<1>3. Hosted'
  BY <1>1, <1>2, ActorAssumption DEF TurnInv, Hosted, Serving, Actors, calls, life
<1>4. blank => db = <<>>
  BY DEF TurnInv, ListedOnce
<1>5. ASSUME NEW i \in 1..Len(todo'[a])
      PROVE  /\ todo'[a][i].kind = "insert"
                  => (i = 1 /\ db = <<>>) \/ (i = 2 /\ todo'[a][1].kind = "truncate")
             /\ todo'[a][i].kind = "update" => todo'[a][i].to = NotApplicable
  <2>1. CASE todo'[a] = <<>>
    BY <2>1, NothingToDo
  <2>2. CASE todo'[a] = q /\ blank
    <3>1. \/ i = 1 /\ q[i].kind = "insert"
          \/ i # 1 /\ q[i].kind = "update" /\ q[i].to = NotApplicable
      BY <2>2, InitScriptParts
    <3> QED BY <1>4, <2>2, <3>1
  <2>3. CASE todo'[a] = r
    <3>1. \/ i = 1 /\ r[i] = Truncate
          \/ i = 2 /\ r[i].kind = "insert"
          \/ i > 2 /\ r[i].kind = "update" /\ r[i].to = NotApplicable
      BY <2>3, StartOverParts
    <3>2. r[1] = Truncate
      BY InitScriptType DEF Truncate, Op
    <3> QED BY <2>3, <3>1, <3>2 DEF Truncate
  <2> QED BY <1>1, <2>1, <2>2, <2>3
<1> HIDE DEF q, r
<1>6. Once(todo'[a])
  BY <1>5 DEF Once
<1>7. /\ NotApplicable # InProgress /\ NotApplicable # Passed
      /\ Update(Passed, "CLEANUP").kind = "update" /\ Update(Passed, "CLEANUP").to = Passed
  BY DEF NotApplicable, InProgress, Passed, Update
<1>8. \A i \in 1..Len(todo'[a]) :
        /\ ~(todo'[a][i].kind = "update" /\ todo'[a][i].to = InProgress)
        /\ todo'[a][i] # Update(Passed, "CLEANUP")
  BY <1>5, <1>7
<1>9. \A j \in Jobs : ~Owns(a, j)
  BY <1>1, OwnsByPlace
<1>10. CopiesCurrent' /\ ListedOnce' /\ MarkersOwn' /\ Owned' /\ CleanedBefore'
  <2>1. a \in Actors /\ pc[a] # "overview" /\ pc'[a] # "overview"
    BY <1>1 DEF Actors
  <2>2. UNCHANGED <<db, blank, copy, run, req>>
    BY <1>1 DEF file, calls
  <2> QED BY <1>1, <1>2, <1>6, <1>8, <1>9, <2>1, <2>2, OneGoesOn
<1> QED BY <1>3, <1>10 DEF TurnInv

\* A command line without a script goes on outside of a call.
LEMMA CliGoesOn ==
  ASSUME TypeInv, TurnInv, NEW c \in Clis, UNCHANGED <<file, copy, req, server, todo>>,
         \A b \in Actors \ {c} : pc'[b] = pc[b], \A b \in Clis \ {c} : run'[b] = run[b],
         todo[c] = <<>>, pc[c] \notin {"send", "wait"}, pc'[c] \notin {"wait", "overview"}
  PROVE  TurnInv'
<1>1. Hosted'
  BY ActorAssumption DEF TurnInv, Hosted, Serving, Actors
<1>2. pc[c] # "overview"
  BY ActorAssumption DEF TurnInv, CopiesCurrent, Actors
<1>3. \A j \in Jobs : ~Owns(c, j)
  BY ActorAssumption DEF Owns, Pending
<1>4. CopiesCurrent' /\ ListedOnce' /\ MarkersOwn' /\ Owned' /\ CleanedBefore'
  <2>1. {c} \in SUBSET Actors
    BY DEF Actors
  <2> QED BY <1>2, <1>3, <2>1, GoOn, NothingToDo DEF file
<1> QED BY <1>1, <1>4 DEF TurnInv

\* The command line starts when it has nothing left to write.
LEMMA CliStartTurn ==
  ASSUME TypeInv, TurnInv, NEW c \in Clis, CliStart(c) \/ CliPrompt(c) PROVE TurnInv'
<1>1. server = "up"
  BY DEF TurnInv, Hosted
<1>2. /\ todo[c] = <<>> /\ pc[c] \in {"idle", "prompt"}
      /\ pc'[c] \in {"idle", "prompt", "mark", "checkFile"}
      /\ UNCHANGED <<file, copy, req, server, todo>>
      /\ \A b \in Actors \ {c} : pc'[b] = pc[b]
      /\ \A b \in Clis \ {c} : run'[b] = run[b]
  BY <1>1 DEF CliStart, CliPrompt, Ready, TypeInv, TypeOK, Actors, calls, life
<1> QED BY <1>2, CliGoesOn

\* The command line that marks a job goes on to own it.
LEMMA CliMarkTurn ==
  ASSUME TypeInv, TurnInv, NEW c \in Clis, CliMark(c) PROVE TurnInv'
<1>1. /\ todo[c] = <<>> /\ pc[c] = "mark" /\ UNCHANGED <<file, copy, calls, life>>
      /\ \A b \in Actors \ {c} : pc'[b] = pc[b] /\ todo'[b] = todo[b]
  BY DEF CliMark, Ready, TypeInv, TypeOK, Actors
<1>2. CASE pc' = [pc EXCEPT ![c] = "idle"] /\ UNCHANGED todo
  BY <1>1, <1>2, CliGoesOn DEF calls, life, TypeInv, TypeOK, Actors
<1>3. CASE /\ todo' = [todo EXCEPT ![c] = <<Update(InProgress, Job(c))>>]
           /\ pc' = [pc EXCEPT ![c] = "send"]
  <2>1. todo'[c] = <<Update(InProgress, Job(c))>> /\ pc'[c] = "send"
    BY <1>3 DEF TypeInv, TypeOK, Actors
  <2>2. Hosted'
    BY <1>1, <2>1, ActorAssumption DEF TurnInv, Hosted, Serving, Actors, calls, life
  <2>3. \A j \in Jobs : ~Owns(c, j)
    BY <1>1, OwnsByPlace
  <2>4. Job(c)' = Job(c) /\ Update(InProgress, Job(c)).job = Job(c)
    BY <1>1 DEF Job, calls, Update
  <2>5. \A i \in 1..Len(todo'[c]) : Marking(c, todo[c][i].job)'
    BY <2>1, <2>4, OneUpdate DEF Marking
  <2>6. Update(InProgress, Job(c)) # Update(Passed, "CLEANUP")
    BY DEF Update, InProgress, Passed
  <2>7. CopiesCurrent' /\ ListedOnce' /\ MarkersOwn' /\ Owned' /\ CleanedBefore'
    <3>1. c \in Actors /\ pc[c] # "overview" /\ pc'[c] # "overview"
      BY <1>1, <2>1 DEF Actors
    <3>2. UNCHANGED <<db, blank, copy, run, req>>
      BY <1>1 DEF file, calls
    <3>3. /\ Once(todo'[c])
          /\ \A i \in 1..Len(todo'[c]) : todo'[c][i] # Update(Passed, "CLEANUP")
      BY <2>1, <2>6, OneUpdate
    <3> QED BY <1>1, <2>3, <2>5, <3>1, <3>2, <3>3, OneGoesOn
  <2> QED BY <2>2, <2>7 DEF TurnInv
<1> QED BY <1>2, <1>3 DEF CliMark

\* The job goes from the command line's hands into its call.
LEMMA CliSendTurn ==
  ASSUME TypeInv, TurnInv, NEW c \in Clis, CliSend(c) PROVE TurnInv'
<1>1. server = "up"
  BY DEF TurnInv, Hosted
<1>2. PICK t \in Threads :
        /\ Ready(t, "free")
        /\ req' = [req EXCEPT ![t] = [client |-> c, job |-> Job(c), dep |-> run[c].dep]]
        /\ pc' = [pc EXCEPT ![c] = "wait", ![t] = "checkFile"]
  BY <1>1 DEF CliSend
<1>3. /\ todo[c] = <<>> /\ todo[t] = <<>> /\ pc[c] = "send" /\ pc[t] = "free"
      /\ pc'[c] = "wait" /\ pc'[t] = "checkFile" /\ req'[t].client = c
      /\ \A b \in Actors \ {c, t} : pc'[b] = pc[b]
      /\ \A u \in Threads \ {t} : req'[u] = req[u]
      /\ UNCHANGED <<file, todo, copy, run, server>>
  BY <1>2, ActorAssumption DEF CliSend, Ready, TypeInv, TypeOK, Actors, life
<1>4. Hosted'
  BY <1>3, ActorAssumption DEF TurnInv, Hosted, Serving, Actors
<1>5. \A j \in Jobs : /\ Owns(c, j) => Owns(c, j)'
                     /\ ~Owns(t, j)
  <2>1. \A j \in Jobs : ~Owns(t, j)
    BY <1>3, OwnsByPlace
  <2>2. \A j \in Jobs : Owns(c, j) => Owns(c, j)'
    BY <1>3, ActorAssumption DEF Owns, Pending, Job
  <2> QED BY <2>1, <2>2
<1>6. CopiesCurrent' /\ ListedOnce' /\ MarkersOwn' /\ Owned' /\ CleanedBefore'
  <2> DEFINE M == {c, t}
  <2>1. M \in SUBSET Actors
    BY DEF Actors
  <2>2. \A m \in M : /\ todo[m] = <<>> /\ todo'[m] = <<>>
                    /\ pc[m] # "overview" /\ pc'[m] # "overview"
                    /\ \A j \in Jobs : Owns(m, j) => Owns(m, j)'
    BY <1>3, <1>5
  <2>3. /\ \A b \in Actors \ M : todo'[b] = todo[b] /\ pc'[b] = pc[b]
        /\ \A b \in Clis \ M : run'[b] = run[b]
        /\ \A b \in Threads \ M : req'[b] = req[b]
        /\ UNCHANGED <<db, blank, copy>>
    BY <1>3 DEF file
  <2> HIDE DEF M
  <2> QED BY <2>1, <2>2, <2>3, GoOn, NothingToDo
<1> QED BY <1>4, <1>6 DEF TurnInv

\* What an operation records next owns the job it was about.
LEMMA VerdictOwns ==
  ASSUME TypeInv, NEW c \in Clis, pc[c] = "wait", inbox[c] # "none"
  PROVE  /\ Verdict(c) # <<>> /\ Verdict(c) \in Seq(Op)
         /\ Verdict(c)[1] = Truncate
              \/ (Verdict(c)[1].kind = "update" /\ Verdict(c)[1].job = Job(c))
<1>1. Job(c) \in Jobs /\ run[c].dep \in Deployments
      /\ inbox[c] \in {"200", "500", "lost"}
  BY DEF TypeInv, TypeOK, InHand, CliBusy, Invocation, Job
<1>2. Verdict(c) \in Seq(Op)
  BY VerdictType
<1>3. \A s, j : Update(s, j).kind = "update" /\ Update(s, j).job = j
  BY DEF Update
<1>4. CASE inbox[c] \in {"500", "lost"}
  BY <1>2, <1>3, <1>4 DEF Verdict
<1>5. CASE inbox[c] = "200" /\ Job(c) # "CLEANUP"
  BY <1>2, <1>3, <1>5 DEF Verdict
<1>6. CASE inbox[c] = "200" /\ Job(c) = "CLEANUP"
  <2> DEFINE s == <<Truncate>> \o InitScript(run[c].dep, "cli") \o <<Update(Passed, "CLEANUP")>>
  <2>1. Verdict(c) = s
    BY <1>6 DEF Verdict
  <2>2. Len(s) > 0
    <3>1. InitScript(run[c].dep, "cli") \in Seq(Op)
      BY <1>1, InitScriptType
    <3>2. Truncate \in Op /\ Update(Passed, "CLEANUP") \in Op
      BY UpdateType DEF Truncate, Op, Passed, Statuses, Jobs
    <3> QED BY <3>1, <3>2
  <2>3. 1 \in 1..Len(s)
    BY <1>2, <2>1, <2>2
  <2>4. s[1] = Truncate
    BY <1>1, <2>3, CleanupParts
  <2> HIDE DEF s
  <2> QED BY <1>2, <2>1, <2>2, <2>4
<1> QED BY <1>1, <1>4, <1>5, <1>6

\* The operations of a verdict, the reset of a cleanup included.
LEMMA VerdictParts ==
  ASSUME TypeInv, NEW c \in Clis, pc[c] = "wait", inbox[c] # "none",
         NEW i \in 1..Len(Verdict(c))
  PROVE  /\ Verdict(c)[i].kind = "insert" => i = 2 /\ Verdict(c)[1].kind = "truncate"
         /\ Verdict(c)[i].kind = "update" => Verdict(c)[i].to # InProgress
         /\ Verdict(c)[i] = Update(Passed, "CLEANUP") =>
              /\ \A k \in 1..(i-1) : Verdict(c)[k].kind = "update" => Verdict(c)[k].to = NotApplicable
              /\ \E k \in 1..(i-1) : Verdict(c)[k].kind = "truncate"
<1>1. Job(c) \in Jobs /\ run[c].dep \in Deployments
      /\ inbox[c] \in {"200", "500", "lost"}
  BY DEF TypeInv, TypeOK, InHand, CliBusy, Invocation, Job
<1>2. CASE inbox[c] \in {"500", "lost"}
  <2>1. \/ Verdict(c) = <<Update(Failed, Job(c))>>
        \/ Verdict(c) = <<Update(Failed, Job(c)), Update(Failed, Job(c))>>
    BY <1>2 DEF Verdict
  <2>2. Verdict(c)[i] = Update(Failed, Job(c))
    BY <2>1
  <2>3. /\ Update(Failed, Job(c)).kind = "update" /\ Update(Failed, Job(c)).to = Failed
        /\ Update(Passed, "CLEANUP").to = Passed /\ Failed # Passed /\ Failed # InProgress
    BY DEF Update, Failed, InProgress, Passed
  <2>4. /\ Verdict(c)[i].kind = "update" /\ Verdict(c)[i].to = Failed
        /\ Verdict(c)[i] # Update(Passed, "CLEANUP")
    BY <2>2, <2>3, Zenon
  <2> QED BY <2>3, <2>4
<1>3. CASE inbox[c] = "200" /\ Job(c) # "CLEANUP"
  <2>1. \/ Verdict(c) = <<Update(Passed, Job(c))>>
        \/ Verdict(c) = <<Update(Passed, Job(c)), Update(Skipped, Job(c))>>
    BY <1>3 DEF Verdict
  <2>2. Verdict(c)[i] \in {Update(Passed, Job(c)), Update(Skipped, Job(c))}
    BY <2>1
  <2>3. \A x \in {Passed, Skipped} :
          /\ Update(x, Job(c)).kind = "update" /\ Update(x, Job(c)).to = x
          /\ Update(x, Job(c)).job = Job(c) /\ x # InProgress
    BY DEF Update, InProgress, Passed, Skipped
  <2>4. Verdict(c)[i].kind = "update"
    BY <2>2, <2>3, Zenon
  <2>5. Verdict(c)[i].to # InProgress
    BY <2>2, <2>3, Zenon
  <2>6. Verdict(c)[i].job # "CLEANUP"
    BY <1>3, <2>2, <2>3, Zenon
  <2>7. Update(Passed, "CLEANUP").job = "CLEANUP"
    BY DEF Update
  <2>8. Verdict(c)[i] # Update(Passed, "CLEANUP")
    BY <2>6, <2>7, Zenon
  <2>9. ~ (Verdict(c)[i].kind = "insert")
    BY <2>4
  <2> QED BY <2>5, <2>8, <2>9, Zenon
<1>4. CASE inbox[c] = "200" /\ Job(c) = "CLEANUP"
  <2> DEFINE d == run[c].dep
             s == <<Truncate>> \o InitScript(d, "cli") \o <<Update(Passed, "CLEANUP")>>
  <2>1. Verdict(c) = s
    BY <1>4 DEF Verdict
  <2>2. \A k \in 1..Len(s) :
          /\ s[1] = Truncate
          /\ \/ k = 1
             \/ k = 2 /\ s[k].kind = "insert"
             \/ k > 2 /\ s[k].kind = "update" /\ s[k].to = NotApplicable
             \/ k > 2 /\ k = Len(s) /\ s[k] = Update(Passed, "CLEANUP")
    BY <1>1, CleanupParts
  <2> HIDE DEF s
  <2>3. /\ Truncate.kind = "truncate" /\ Truncate # Update(Passed, "CLEANUP")
        /\ Update(Passed, "CLEANUP").kind = "update" /\ Update(Passed, "CLEANUP").to = Passed
        /\ NotApplicable # Passed /\ NotApplicable # InProgress /\ Passed # InProgress
    BY DEF Truncate, Update, NotApplicable, Passed, InProgress
  <2>4. i \in 1..Len(s)
    BY <2>1
  <2>5. s[i].kind = "insert" => i = 2 /\ s[1].kind = "truncate"
    BY <2>2, <2>3, <2>4
  <2>6. s[i].kind = "update" => s[i].to # InProgress
    BY <2>2, <2>3, <2>4
  <2>7. ASSUME s[i] = Update(Passed, "CLEANUP")
        PROVE  /\ \A k \in 1..(i-1) : s[k].kind = "update" => s[k].to = NotApplicable
               /\ \E k \in 1..(i-1) : s[k].kind = "truncate"
    <3>1. i > 2 /\ i = Len(s)
      BY <2>2, <2>3, <2>4, <2>7
    <3>2. \A k \in 1..(i-1) : k \in 1..Len(s) /\ k # Len(s)
      BY <3>1
    <3>3. 1 \in 1..(i-1)
      BY <2>4, <3>1
    <3> QED BY <2>2, <2>3, <3>2, <3>3
  <2> QED BY <2>1, <2>5, <2>6, <2>7
<1> QED BY <1>1, <1>2, <1>3, <1>4

\* A command line that has its answer owns the job until its verdict is written.
LEMMA CliConcludeTurn ==
  ASSUME TypeInv, EarnInv, TurnInv, NEW c \in Clis, CliConclude(c) PROVE TurnInv'
<1>1. /\ todo[c] = <<>> /\ pc[c] = "wait" /\ inbox[c] # "none"
      /\ todo'[c] = Verdict(c) /\ pc'[c] \in {"mark", "idle"}
      /\ \A b \in Actors \ {c} : pc'[b] = pc[b] /\ todo'[b] = todo[b]
      /\ \A b \in Clis \ {c} : run'[b] = run[b]
      /\ UNCHANGED <<file, copy, req, server>>
  BY DEF CliConclude, Ready, TypeInv, TypeOK, Actors, life
<1>2. Hosted'
  BY <1>1, ActorAssumption DEF TurnInv, Hosted, Serving, Actors
<1>3. Once(todo'[c])
  BY <1>1, VerdictParts DEF Once
<1>4. \A j \in Jobs : Owns(c, j) => Owns(c, j)'
  <2> SUFFICES ASSUME NEW j \in Jobs, Owns(c, j) PROVE Owns(c, j)'
    OBVIOUS
  <2>1. Job(c) = j
    BY <1>1, ActorAssumption DEF Owns, Pending
  <2>2. 1 \in 1..Len(Verdict(c)) /\ Verdict(c)[1] \in Pending(c)'
    BY <1>1, VerdictOwns DEF Pending
  <2>3. Truncate.kind = "truncate"
    BY DEF Truncate
  <2> QED BY <1>1, <2>1, <2>2, <2>3, VerdictOwns DEF Owns
<1>5. /\ \A i \in 1..Len(todo'[c]) :
            ~(todo'[c][i].kind = "update" /\ todo'[c][i].to = InProgress)
      /\ \A i \in 1..Len(todo'[c]) :
            todo'[c][i] = Update(Passed, "CLEANUP") => CleanedAt(todo'[c], i)
  BY <1>1, VerdictParts DEF CleanedAt
<1>6. CopiesCurrent' /\ ListedOnce' /\ MarkersOwn' /\ Owned' /\ CleanedBefore'
  <2>1. {c} \in SUBSET Actors
    BY DEF Actors
  <2> QED BY <1>1, <1>3, <1>4, <1>5, <2>1, GoOn DEF file
<1> QED BY <1>2, <1>6 DEF TurnInv

-----------------------------------------------------------------------------
(* The server.                                                             *)

\* A thread without a script goes on with its request, or ends it.
LEMMA ThreadGoesOn ==
  ASSUME TypeInv, TurnInv, NEW t \in Threads, UNCHANGED <<file, copy, run, req, server>>,
         \A b \in Actors \ {t} : pc'[b] = pc[b] /\ todo'[b] = todo[b],
         todo[t] = <<>>, pc[t] \in {"mark", "work"}, pc'[t] \in {"work", "200", "500"},
         NEW s \in Statuses, todo'[t] = Record(s, t), s = InProgress => pc'[t] = "work",
         pc[t] = "work" => s # InProgress
  PROVE  TurnInv'
<1>1. Hosted'
  BY ActorAssumption DEF TurnInv, Hosted, Serving, Actors
<1>2. MarkedBy(t)' = MarkedBy(t) /\ NoJob \notin Jobs
  BY DEF MarkedBy, NoJob, Jobs
<1>3. \/ todo'[t] = <<>> /\ MarkedBy(t) = NoJob
      \/ todo'[t] = <<Update(s, MarkedBy(t))>> /\ MarkedBy(t) # NoJob
  BY DEF Record
<1>4. Once(todo'[t])
  BY <1>3, OneUpdate, NothingToDo
<1>5. \A i \in 1..Len(todo'[t]) : todo'[t][i] = Update(s, MarkedBy(t))
  BY <1>3, OneUpdate, NothingToDo
<1>6. Update(s, MarkedBy(t)).to = s /\ Update(s, MarkedBy(t)).job = MarkedBy(t)
      /\ Update(s, MarkedBy(t)).kind = "update"
  BY DEF Update
<1>7. \A i \in 1..Len(todo'[t]) :
        todo'[t][i].to = InProgress => Marking(t, todo[t][i].job)'
  BY <1>2, <1>5, <1>6 DEF Marking
<1>8. t \notin Clis /\ t \in Actors
  BY ActorAssumption DEF Actors
<1>9. \A j \in Jobs : Owns(t, j) => Owns(t, j)'
  <2> SUFFICES ASSUME NEW j \in Jobs, Owns(t, j) PROVE Owns(t, j)'
    OBVIOUS
  <2>1. pc[t] = "work" /\ MarkedBy(t) = j
    BY <1>8 DEF Owns, Pending
  <2>2. todo'[t] = <<Update(s, j)>>
    BY <1>2, <1>3, <2>1
  <2>3. Update(s, j) \in Pending(t)' /\ Update(s, j).kind = "update" /\ Update(s, j).job = j
    BY <2>2 DEF Pending, Update
  <2> QED BY <2>3 DEF Owns
<1>10. CopiesCurrent' /\ ListedOnce' /\ MarkersOwn' /\ Owned' /\ CleanedBefore'
  <2>1. pc[t] # "overview" /\ pc'[t] # "overview" /\ UNCHANGED <<db, blank>>
    BY DEF file
  <2> QED BY <1>4, <1>7, <1>8, <1>9, <2>1, OneGoesOn
<1> QED BY <1>1, <1>10 DEF TurnInv

\* A thread marks and works while the command line waits.
LEMMA ThreadTurn ==
  ASSUME TypeInv, TurnInv, NEW t \in Threads, ThreadMark(t) \/ ThreadWork(t) PROVE TurnInv'
<1>1. CASE ThreadMark(t)
  <2>1. /\ UNCHANGED <<file, copy, run, req, server>> /\ todo[t] = <<>> /\ pc[t] = "mark"
        /\ pc'[t] = "work" /\ todo'[t] = Record(InProgress, t)
        /\ \A b \in Actors \ {t} : pc'[b] = pc[b] /\ todo'[b] = todo[b]
    BY <1>1 DEF ThreadMark, Ready, TypeInv, TypeOK, Actors, calls, life
  <2>2. InProgress \in Statuses
    BY DEF Statuses
  <2> QED BY <2>1, <2>2, ThreadGoesOn
<1>2. CASE ThreadWork(t)
  <2>1. /\ UNCHANGED <<file, copy, run, req, server>> /\ todo[t] = <<>> /\ pc[t] = "work"
        /\ pc'[t] \in {"200", "500"} /\ todo'[t] \in {Record(Passed, t), Record(Failed, t)}
        /\ \A b \in Actors \ {t} : pc'[b] = pc[b] /\ todo'[b] = todo[b]
    BY <1>2 DEF ThreadWork, Ready, TypeInv, TypeOK, Actors, calls, life
  <2>2. /\ Passed \in Statuses /\ Failed \in Statuses
        /\ Passed # InProgress /\ Failed # InProgress
    BY DEF Statuses, Passed, Failed, InProgress
  <2> QED BY <2>1, <2>2, ThreadGoesOn
<1> QED BY <1>1, <1>2

\* A thread replies when it has written all: then it is the command line's turn.
LEMMA ThreadReplyTurn ==
  ASSUME TypeInv, TurnInv, NEW t \in Threads, ThreadReply(t) PROVE TurnInv'
<1>1. /\ UNCHANGED <<file, copy, run, server, todo>> /\ todo[t] = <<>>
      /\ pc[t] \in {"200", "500"} /\ pc'[t] = "free"
      /\ \A b \in Actors \ {t} : pc'[b] = pc[b]
      /\ \A u \in Threads \ {t} : req'[u] = req[u]
  BY DEF ThreadReply, TypeInv, TypeOK, Actors, life
<1>2. Hosted'
  BY <1>1, ActorAssumption DEF TurnInv, Hosted, Serving, Actors
<1>3. CopiesCurrent' /\ ListedOnce' /\ MarkersOwn' /\ Owned' /\ CleanedBefore'
  <2> DEFINE M == {t}
  <2>1. M \in SUBSET Actors /\ \A m \in M : m = t
    BY DEF Actors
  <2>2. \A j \in Jobs : ~Owns(t, j)
    BY <1>1, OwnsByPlace
  <2>3. /\ \A b \in Actors \ M : todo'[b] = todo[b] /\ pc'[b] = pc[b]
        /\ \A b \in Clis \ M : run'[b] = run[b]
        /\ \A b \in Threads \ M : req'[b] = req[b]
        /\ UNCHANGED <<db, blank, copy>>
    BY <1>1 DEF file
  <2>4. \A m \in M : /\ todo[m] = <<>> /\ todo'[m] = <<>>
                    /\ pc[m] # "overview" /\ pc'[m] # "overview"
                    /\ \A j \in Jobs : Owns(m, j) => Owns(m, j)'
    BY <1>1, <2>2
  <2> HIDE DEF M
  <2> QED BY <2>1, <2>3, <2>4, GoOn, NothingToDo
<1> QED BY <1>2, <1>3 DEF TurnInv

\* The overview looks at the file and does not change it.
LEMMA OverviewTurn ==
  ASSUME TypeInv, TurnInv, NEW t \in Threads, OverviewRead(t) \/ OverviewStore(t)
  PROVE  TurnInv'
<1>1. /\ UNCHANGED <<file, todo, calls, server>> /\ todo[t] = <<>>
      /\ \A b \in Actors \ {t} : pc'[b] = pc[b] /\ copy'[b] = copy[b]
      /\ pc[t] \in {"free", "overview"}
      /\ \/ pc'[t] = "overview"
         \/ pc'[t] = "free" /\ copy'[t] = <<>>
  BY DEF OverviewRead, OverviewStore, Ready, TypeInv, TypeOK, InHand, Actors, life
<1>2. Hosted'
  BY <1>1, ActorAssumption DEF TurnInv, Hosted, Serving, Actors, calls
<1>3. CopiesCurrent'
  BY <1>1 DEF TurnInv, CopiesCurrent, Current, file
<1>4. ListedOnce' /\ CleanedBefore'
  BY <1>1 DEF TurnInv, ListedOnce, Once, CleanedBefore, CleanedAt, Begun, file
<1>5. \A a \in Actors, j \in Jobs :
        /\ Marking(a, j) => Marking(a, j)'
        /\ Owns(a, j) => Owns(a, j)'
  BY <1>1, ActorAssumption DEF Marking, Owns, Pending, Job, MarkedBy, calls
<1>6. MarkersOwn'
  <2> SUFFICES ASSUME NEW a \in Actors, NEW i \in 1..Len(todo[a]),
                      todo[a][i].kind = "update", todo[a][i].to = InProgress
               PROVE  Marking(a, todo[a][i].job)'
    BY <1>1 DEF MarkersOwn
  <2>1. Marking(a, todo[a][i].job) /\ todo[a][i].job \in Jobs
    <3>1. todo[a][i] \in Op
      BY DEF TypeInv, TypeOK
    <3> QED BY <3>1 DEF TurnInv, MarkersOwn, Op
  <2> QED BY <1>1, <1>5, <2>1 DEF Marking
<1>7. Owned'
  BY <1>1, <1>5 DEF TurnInv, Owned, Running, file
<1> QED BY <1>2, <1>3, <1>4, <1>6, <1>7 DEF TurnInv

\* Every step keeps the turns.
LEMMA StepTurn ==
  ASSUME Alone PROVE TypeInv /\ EarnInv /\ TurnInv /\ [Working]_vars => TurnInv'
<1> SUFFICES ASSUME TypeInv, EarnInv, TurnInv, [Working]_vars PROVE TurnInv'
  OBVIOUS
<1>1. ASSUME NEW a \in Actors, ReadFile(a) \/ WriteFile(a) PROVE TurnInv'
  BY <1>1, ReadFileTurn, WriteFileTurn
<1>2. ASSUME NEW c \in Clis, CliStart(c) \/ CliStep(c) \/ CliInterrupt(c)
      PROVE  TurnInv'
  <2>1. run[c].dep \in Deployments
    BY DEF TypeInv, TypeOK, Invocation
  <2>2. ~CliInterrupt(c)
    BY DEF Alone, CliInterrupt
  <2> QED BY <1>2, <2>1, <2>2, CheckTurn, CliStartTurn, CliMarkTurn, CliSendTurn, CliConcludeTurn
          DEF CliStep, CliCheckFile, CliCheckEnv
<1>3. ASSUME NEW t \in Threads, UiPost(t) \/ ThreadStep(t) \/ OverviewRead(t)
      PROVE  TurnInv'
  <2>1. req[t].dep \in Deployments
    BY DEF TypeInv, TypeOK, Requests
  <2>2. ~UiPost(t)
    BY DEF Alone, UiPost
  <2> QED BY <1>3, <2>1, <2>2, CheckTurn, ThreadTurn, ThreadReplyTurn, OverviewTurn
          DEF ThreadStep, ThreadCheckFile, ThreadCheckEnv
<1>4. CASE UNCHANGED vars
  BY <1>4
     DEF TurnInv, Hosted, Serving, CopiesCurrent, Current, ListedOnce, Once, MarkersOwn, Marking,
         Owned, Owns, Pending, CleanedBefore, CleanedAt, Running, Begun, Job, MarkedBy,
         vars, file, work, calls, life
<1> QED BY <1>1, <1>2, <1>3, <1>4 DEF Working

-----------------------------------------------------------------------------
(* What follows.                                                           *)

\* So the turns are kept for ever.
LEMMA TurnInvariant == ASSUME Alone PROVE SteadySpec => [](TypeInv /\ EarnInv /\ TurnInv)
<1>1. Working => Next
  BY DEF Next
<1> QED BY <1>1, InitType, StepType, InitEarn, StepEarn, InitTurn, StepTurn, PTL DEF SteadySpec

\* However many threads there are, and whatever jobs the operator asks for, no
\* two processes are inside an update of the status file at once, and there
\* is one list of jobs: what initialize_db and check_db_file rely on.
THEOREM TurnsTakenAlways == ASSUME Alone PROVE SteadySpec => []TurnsTaken
<1>1. ASSUME TypeInv, EarnInv, TurnInv PROVE TurnsTaken
  <2>1. \A a \in Actors : copy[a] # <<>> /\ pc[a] # "overview" => todo[a] # <<>>
    BY <1>1 DEF TurnInv, CopiesCurrent, Current
  <2>2. \A a, b \in Actors : todo[a] # <<>> /\ todo[b] # <<>> => a = b
    BY <1>1, OneAtWork DEF EarnInv, TurnInv
  <2>3. Len(db) <= 1
    BY <1>1 DEF TurnInv, ListedOnce
  <2> QED BY <2>1, <2>2, <2>3 DEF TurnsTaken
<1> QED BY <1>1, TurnInvariant, PTL

\* A job shown IN PROGRESS always has a process that will record its verdict:
\* the thread that serves it or the command line that awaits it.
THEOREM InProgressIsOwnedAlways == ASSUME Alone PROVE SteadySpec => []InProgressIsOwned
<1>1. TurnInv => InProgressIsOwned
  BY DEF TurnInv, Owned, InProgressIsOwned
<1> QED BY <1>1, TurnInvariant, PTL

\* When a cleanup records its success every other job is one that has not been
\* started or does not apply: no verdict of the old deployment is left, and no
\* IN PROGRESS, whatever list there was before and whichever jobs came before it.
THEOREM CleanupResetsAlways == ASSUME Alone PROVE SteadySpec => CleanupResets
<1>1. ASSUME TypeInv, EarnInv, TurnInv, NEW c \in Clis, WriteFile(c),
             Head(todo[c]) = Update(Passed, "CLEANUP")
      PROVE  Begun(db') \subseteq {"CLEANUP"}
  <2>1. /\ Head(todo[c]) \in Op /\ 1 \in 1..Len(todo[c]) /\ Head(todo[c]) = todo[c][1]
        /\ db \in Seq(Table) /\ db' = Apply(Head(todo[c]), db)
    BY <1>1, WriteFileShape DEF Actors
  <2>2. CleanedAt(todo[c], 1)
    BY <1>1, <2>1 DEF TurnInv, CleanedBefore
  <2>3. Begun(db) = {}
    BY <2>2 DEF CleanedAt
  <2>4. Update(Passed, "CLEANUP").job = "CLEANUP"
    BY DEF Update
  <2> SUFFICES ASSUME NEW j \in Begun(db') PROVE j = "CLEANUP"
    OBVIOUS
  <2>5. PICK q : q \notin {NotStarted, NotApplicable} /\ j \in Shows(Apply(Head(todo[c]), db), q)
    BY <2>1, BegunShows
  <2>6. j \notin Shows(db, q)
    BY <2>3, <2>5, BegunShows
  <2> QED BY <1>1, <2>1, <2>4, <2>5, <2>6, ApplyShows
<1>2. TypeInv /\ EarnInv /\ TurnInv /\ [Working]_vars =>
        [\A c \in Clis : WriteFile(c) /\ Head(todo[c]) = Update(Passed, "CLEANUP")
                            => Begun(db') \subseteq {"CLEANUP"}]_vars
  BY <1>1
<1> QED BY <1>2, TurnInvariant, PTL DEF SteadySpec, CleanupResets

-----------------------------------------------------------------------------
(* The recovery.                                                           *)

\* Only the server is at the file.
Unattended == Clis = {}

\* Until the server listens its recovery loop is alone with the file, works on
\* the file as it is, and fails every job it has not failed yet.
RecoverInv ==
  /\ server # "up" => \A t \in Threads : pc[t] = "free" /\ todo[t] = <<>> /\ copy[t] = <<>>
  /\ server # "recovering" => todo[Prober] = <<>>
  /\ copy[Prober] # <<>> => todo[Prober] # <<>> /\ copy[Prober] = <<db>>
  /\ todo[Prober] # <<>> => \E j \in Jobs : todo[Prober] = <<Update(Failed, j)>>
  /\ server = "recovering" =>
       Running(db) \subseteq halted \cup {j \in Jobs : todo[Prober] = <<Update(Failed, j)>>}

\* At first the server listens.
LEMMA InitRecover == Init => RecoverInv
BY DEF Init, RecoverInv, Actors

\* A job that is failed is not in progress any more.
LEMMA FailedNotRunning ==
  ASSUME NEW d \in Seq(Table), NEW j \in Jobs
  PROVE  Running(Apply(Update(Failed, j), d)) \subseteq Running(d) \ {j}
<1>1. Failed \in Statuses /\ InProgress # NotStarted /\ Failed # InProgress
  BY DEF Statuses, Failed, InProgress, NotStarted
<1>2. Update(Failed, j) \in Op BY <1>1, UpdateType
<1>3. /\ Update(Failed, j).kind = "update" /\ Update(Failed, j).job = j /\ Update(Failed, j).to = Failed
  BY DEF Update
<1> HIDE DEF Update
<1> SUFFICES ASSUME NEW i \in Running(Apply(Update(Failed, j), d)) PROVE i \in Running(d) \ {j}
  OBVIOUS
<1>4. i \in Shows(Apply(Update(Failed, j), d), InProgress) BY ShownIn
<1>5. i \in Shows(d, InProgress) /\ j # i BY <1>1, <1>2, <1>3, <1>4, ApplyShows
<1> QED BY <1>5, ShownIn

\* Who writes while the server does not listen is the recovery loop.
LEMMA WriteFileRecover ==
  ASSUME Unattended, TypeInv, RecoverInv, NEW a \in Actors, WriteFile(a)
  PROVE  RecoverInv'
<1>1. todo[a] # <<>> /\ copy[a] # <<>> /\ UNCHANGED <<pc, server, halted>>
  BY DEF WriteFile, calls
<1>2. /\ todo' = [todo EXCEPT ![a] = Tail(@)] /\ copy' = [copy EXCEPT ![a] = <<>>]
      /\ db' = Apply(Head(todo[a]), Head(copy[a]))
  BY DEF WriteFile
<1>3. a \in Threads \cup {Prober} /\ Prober \notin Threads BY ActorAssumption DEF Unattended, Actors
<1>4. todo \in [Actors -> Seq(Op)] /\ DOMAIN copy = Actors /\ db \in Seq(Table) /\ Threads \subseteq Actors
      /\ Prober \in Actors
  BY DEF TypeInv, TypeOK, Actors
<1>5. CASE a \in Threads
  <2>1. server = "up" BY <1>1, <1>5 DEF RecoverInv
  <2>2. todo[Prober] = <<>> /\ copy[Prober] = <<>> BY <2>1 DEF RecoverInv
  <2>3. todo'[Prober] = <<>> /\ copy'[Prober] = <<>> BY <1>2, <1>3, <1>4, <1>5, <2>2
  <2> QED BY <1>1, <2>1, <2>3 DEF RecoverInv
<1>6. CASE a = Prober
  <2>1. copy[Prober] = <<db>> /\ server = "recovering" BY <1>1, <1>6 DEF RecoverInv
  <2>2. PICK j \in Jobs : todo[Prober] = <<Update(Failed, j)>> BY <1>1, <1>6 DEF RecoverInv
  <2>3. Head(todo[Prober]) = Update(Failed, j) /\ Tail(todo[Prober]) = <<>> /\ Head(copy[Prober]) = db
    BY <2>1, <2>2
  <2>4. todo'[Prober] = <<>> /\ copy'[Prober] = <<>> BY <1>2, <1>4, <1>6, <2>3
  <2>5. Running(db') \subseteq Running(db) \ {j} BY <1>2, <1>4, <1>6, <2>3, FailedNotRunning
  <2>6. \A i \in Jobs : todo[Prober] = <<Update(Failed, i)>> => i = j BY <2>2 DEF Update
  <2>7. Running(db') \subseteq halted BY <2>1, <2>5, <2>6 DEF RecoverInv
  <2>8. \A t \in Threads : todo'[t] = todo[t] /\ copy'[t] = copy[t] BY <1>2, <1>3, <1>4, <1>6
  <2> QED BY <1>1, <2>1, <2>4, <2>7, <2>8 DEF RecoverInv
<1> QED BY <1>3, <1>5, <1>6

\* A read while the server does not listen is that of the recovery loop.
LEMMA ReadFileRecover ==
  ASSUME Unattended, TypeInv, RecoverInv, NEW a \in Actors, ReadFile(a)
  PROVE  RecoverInv'
<1>1. todo[a] # <<>> /\ copy' = [copy EXCEPT ![a] = <<db>>] /\ UNCHANGED <<db, todo, pc, server, halted>>
  BY DEF ReadFile, file, life
<1>2. a \in Threads \cup {Prober} /\ Prober \notin Threads BY ActorAssumption DEF Unattended, Actors
<1>3. DOMAIN copy = Actors /\ Threads \subseteq Actors /\ Prober \in Actors BY DEF TypeInv, TypeOK, Actors
<1>4. CASE a \in Threads
  <2>1. server = "up" BY <1>1, <1>4 DEF RecoverInv
  <2>2. copy'[Prober] = copy[Prober] BY <1>1, <1>2, <1>3, <1>4
  <2> QED BY <1>1, <2>1, <2>2 DEF RecoverInv, Running
<1>5. CASE a = Prober
  <2>1. copy'[Prober] = <<db>> /\ \A t \in Threads : copy'[t] = copy[t] BY <1>1, <1>2, <1>3, <1>5
  <2> QED BY <1>1, <1>5, <2>1 DEF RecoverInv, Running
<1> QED BY <1>2, <1>4, <1>5

\* A thread at work has a server that listens, and leaves the recovery loop alone.
LEMMA ThreadRecover ==
  ASSUME TypeInv, RecoverInv, NEW t \in Threads, UiPost(t) \/ ThreadStep(t) \/ OverviewRead(t)
  PROVE  RecoverInv'
<1>1. Prober \notin Threads /\ Prober # t BY ActorAssumption
<1>2. DOMAIN copy = Actors /\ DOMAIN todo = Actors /\ t \in Actors /\ Prober \in Actors
  BY DEF TypeInv, TypeOK, Actors
<1>3. server = "up"
  BY DEF RecoverInv, UiPost, ThreadStep, OverviewRead, ThreadCheckFile, ThreadCheckEnv, CheckFile, CheckEnv,
     ThreadMark, ThreadWork, ThreadReply, OverviewStore, Ready
<1>4. server' = server /\ db' = db
  BY DEF UiPost, ThreadStep, OverviewRead, ThreadCheckFile, ThreadCheckEnv, CheckFile, CheckEnv,
     ThreadMark, ThreadWork, ThreadReply, OverviewStore, life, file
<1>5. todo'[Prober] = todo[Prober] /\ copy'[Prober] = copy[Prober]
  BY <1>1, <1>2 DEF UiPost, ThreadStep, OverviewRead, ThreadCheckFile, ThreadCheckEnv, CheckFile, CheckEnv,
     ThreadMark, ThreadWork, ThreadReply, OverviewStore
<1> QED BY <1>3, <1>4, <1>5 DEF RecoverInv

\* The server ends, and starts again.
LEMMA RestartRecover ==
  ASSUME TypeInv, RecoverInv, Crash \/ Recovering
  PROVE  RecoverInv'
<1>1. Threads \subseteq Actors /\ Prober \in Actors /\ todo \in [Actors -> Seq(Op)] /\ halted \subseteq Jobs
  BY DEF TypeInv, TypeOK, Actors
<1>2. CASE Crash
  <2>1. /\ server' = "down" /\ \A t \in Threads : pc'[t] = "free" /\ todo'[t] = <<>> /\ copy'[t] = <<>>
        /\ todo'[Prober] = <<>> /\ copy'[Prober] = <<>>
    BY <1>1, <1>2 DEF Crash, InServer
  <2> QED BY <2>1 DEF RecoverInv
<1>3. CASE Restart
  <2>1. server = "down" /\ server' = "recovering" /\ halted' = Running(db) /\ UNCHANGED <<db, todo, copy, pc>>
    BY <1>3 DEF Restart, file, work
  <2>2. Running(db') = Running(db) BY <2>1
  <2> QED BY <2>1, <2>2 DEF RecoverInv
<1>4. CASE RecoverNext
  <2>1. /\ server = "recovering" /\ todo[Prober] = <<>> /\ UNCHANGED <<db, copy, pc, server>>
    BY <1>4 DEF RecoverNext, file
  <2>2. PICK j \in halted : todo' = [todo EXCEPT ![Prober] = <<Update(Failed, j)>>] /\ halted' = halted \ {j}
    BY <1>4 DEF RecoverNext
  <2>3. todo'[Prober] = <<Update(Failed, j)>> /\ j \in Jobs BY <1>1, <2>2
  <2>4. \A t \in Threads : todo'[t] = todo[t] BY <1>1, <2>2, ActorAssumption
  <2>5. copy[Prober] = <<>> BY <2>1 DEF RecoverInv
  <2>6. \A i \in Jobs : todo[Prober] # <<Update(Failed, i)>> BY <2>1
  <2>7. Running(db') \subseteq halted BY <2>1, <2>6 DEF RecoverInv
  <2>8. <<Update(Failed, j)>> # <<>> OBVIOUS
  <2> HIDE DEF Update
  <2> QED BY <2>1, <2>2, <2>3, <2>4, <2>5, <2>7, <2>8 DEF RecoverInv
<1>5. CASE Listen
  <2>1. todo[Prober] = <<>> /\ server' = "up" /\ UNCHANGED <<db, todo, copy, pc>>
    BY <1>5 DEF Listen, file, work
  <2> QED BY <2>1 DEF RecoverInv
<1> QED BY <1>2, <1>3, <1>4, <1>5 DEF Recovering

\* Every step keeps it.
LEMMA StepRecover == ASSUME Unattended PROVE TypeInv /\ RecoverInv /\ [Next]_vars => RecoverInv'
<1> SUFFICES ASSUME TypeInv, RecoverInv, [Next]_vars PROVE RecoverInv' OBVIOUS
<1>1. ASSUME NEW a \in Actors, ReadFile(a) \/ WriteFile(a) PROVE RecoverInv'
  BY <1>1, ReadFileRecover, WriteFileRecover
<1>2. ASSUME NEW t \in Threads, UiPost(t) \/ ThreadStep(t) \/ OverviewRead(t) PROVE RecoverInv'
  BY <1>2, ThreadRecover
<1>3. CASE UNCHANGED vars BY <1>3 DEF RecoverInv, vars, file, work, life, Running
<1> QED BY <1>1, <1>2, <1>3, RestartRecover DEF Next, Working, Unattended

\* Where only the server writes the file, whatever requests there are and whenever it
\* ends, even while it recovers: when it listens again no job is in progress.
THEOREM RestartSettlesAlways == ASSUME Unattended PROVE Spec => RestartSettles
<1>1. ASSUME RecoverInv, Listen PROVE Running(db) = {}
  <2>1. todo[Prober] = <<>> /\ halted = {} /\ server = "recovering" BY <1>1 DEF Listen
  <2>2. \A j \in Jobs : todo[Prober] # <<Update(Failed, j)>> BY <2>1
  <2> QED BY <1>1, <2>1, <2>2 DEF RecoverInv
<1>2. RecoverInv /\ [Next]_vars => [Listen => \A j \in Running(db) : \E c \in Clis : Owns(c, j)]_vars
  BY <1>1
<1> QED BY <1>2, InitType, StepType, InitRecover, StepRecover, PTL DEF Spec, RestartSettles
=============================================================================
