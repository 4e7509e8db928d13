------------------------ MODULE IssueLifecycleProofs -------------------------
(* What TLAPS proves about IssueLifecycle, for any number of calls, tests, *)
(* issues, tasks, child Specs, results and edits.                          *)
EXTENDS IssueLifecycle, TLAPS

(***************************************************************************)
(* The inductive invariant.                                                *)
(***************************************************************************)

Label == {"idle", "numbers", "convert", "origin", "kick", "emit", "satisfying", "task",
          "issues", "links", "latest", "resolve", "child", "promoted", "retire"}

Job == [task : Task \cup {None}, issue : Issue \cup {None}, child : Child \cup {None},
        seq : Task \cup {0}, ac : Task \cup {None}, event : {NoEvent} \cup Event,
        test : Test \cup {None}, seen : SUBSET Event, todo : SUBSET Issue]

(* What a call has read by the time it stands at a label.                  *)
Has(label, j) ==
    /\ label \in Label
    /\ label \in {"numbers", "convert"} => j.issue \in Issue
    /\ label = "convert" => j.seq \in Task /\ j.ac \in Task
    /\ label \in {"origin", "kick"} => j.task \in Task
    /\ label \in {"emit", "satisfying"} => j.event \in Event
    /\ label \in {"task", "issues", "links", "latest"} => j.task \in Task
    /\ label = "latest" => j.ac \in Task
    /\ label \in {"child", "promoted"} => j.child \in Child
    /\ label = "retire" => j.ac \in Task /\ j.test \in Test

CallsOK ==
    /\ pc \in [Proc -> Label]
    /\ job \in [Proc -> Job]
    /\ \A p \in Proc : Has(pc[p], job[p])

IInv == TypeOK /\ CallsOK

(* The rows alone: the part of TypeOK that only writes can disturb.        *)
RowsOK ==
    /\ issue \in [Issue -> [status : {"none", "open", "converted", "resolved", "wont_fix", "deleted"},
                            task : Task \cup {None}, child : Child \cup {None}]]
    /\ task \in [Task -> [status : {"none", "not_started", "in_progress", "complete", "deleted"},
                          seq : Task \cup {0}, ac : Task \cup {None}]]
    /\ criteria \subseteq Task
    /\ child \in [Child -> {"none", "open", "done"}]
    /\ \A i \in Issue : issue[i].task # None => issue[i].task \in Tasks
    /\ \A i \in Issue : issue[i].child # None => child[issue[i].child] # "none"
    /\ \A t \in Task : task[t].ac # None => t \in Tasks /\ task[t].ac \in criteria
    /\ \A t, u \in Tasks : t # u =>
           task[t].seq # task[u].seq /\ (task[t].ac = task[u].ac => task[t].ac = None)

ResultsOK ==
    /\ log \subseteq Event
    /\ summary \in [Task -> [Test -> [at : 0..MaxEvents, verdict : Verdict]]]
    /\ clock \in 0..MaxEvents

CountsOK == edits \in 0..MaxEdits /\ begun \in 0..MaxCalls

LEMMA TypeParts == TypeOK <=> RowsOK /\ ResultsOK /\ CountsOK
BY DEF TypeOK, RowsOK, ResultsOK, CountsOK

LEMMA BlankJob == Blank \in Job /\ \A l \in Label :
    l \notin {"numbers", "convert", "origin", "kick", "emit", "satisfying", "task", "issues",
              "links", "latest", "child", "promoted", "retire"} => Has(l, Blank)
BY DEF Blank, Job, Has, Label, None, NoEvent

LEMMA Goes ==
    ASSUME CallsOK, NEW p \in Proc, NEW l \in Label, NEW j \in Job, Has(l, j), Go(p, l, j)
    PROVE  CallsOK'
<1>1. pc' \in [Proc -> Label] /\ job' \in [Proc -> Job]
  BY DEF CallsOK, Go, Label
<1>2. ASSUME NEW q \in Proc PROVE Has(pc'[q], job'[q])
  <2>1. CASE q = p
    BY <2>1 DEF CallsOK, Go
  <2>2. CASE q # p
    BY <2>2 DEF CallsOK, Go
  <2> QED BY <2>1, <2>2
<1> QED BY <1>1, <1>2 DEF CallsOK

LEMMA Returns == ASSUME CallsOK, NEW p \in Proc, Return(p) PROVE CallsOK'
<1>1. "idle" \in Label /\ Has("idle", Blank) /\ Blank \in Job
  BY BlankJob DEF Label
<1> QED BY <1>1, Goes DEF Return

(* A row's values keep their types when only fields change.                *)
LEMMA Counting == ASSUME CountsOK PROVE /\ Edit => edits' \in 0..MaxEdits
                                        /\ \A p \in Proc : Begin(p) => begun' \in 0..MaxCalls
BY BoundsAssumption DEF CountsOK, Edit, Begin

LEMMA InitTyped == Init => IInv
<1> SUFFICES ASSUME Init PROVE IInv
  OBVIOUS
<1>1. RowsOK
  BY BoundsAssumption DEF Init, RowsOK, Issue, Task, Child, None, Tasks
<1>2. ResultsOK
  BY BoundsAssumption DEF Init, ResultsOK, NoResult, Verdict
<1>3. CountsOK
  BY BoundsAssumption DEF Init, CountsOK
<1>4. CallsOK
  <2>1. pc \in [Proc -> Label] /\ job \in [Proc -> Job]
    BY BlankJob DEF Init, Label
  <2>2. Has("idle", Blank)
    BY BlankJob DEF Label
  <2> QED BY <2>1, <2>2 DEF Init, CallsOK
<1> QED BY <1>1, <1>2, <1>3, <1>4, TypeParts DEF IInv
-----------------------------------------------------------------------------
(* Writes keep rows typed and linked to rows that exist.                   *)

LEMMA RowsSame == ASSUME RowsOK, UNCHANGED rows PROVE RowsOK'
BY DEF RowsOK, rows, Tasks

(* A new task whose numbers nobody has.                                    *)
LEMMA TaskAdded ==
    ASSUME RowsOK, NEW t \in Task, task[t].status = "none", NEW n \in Task,
           NEW m \in Task \cup {None}, m = None \/ m \notin criteria,
           \A u \in Tasks : task[u].seq # n,
           task' = [task EXCEPT ![t] = [status |-> "not_started", seq |-> n, ac |-> m]],
           criteria' = IF m = None THEN criteria ELSE criteria \cup {m}
    PROVE  /\ Tasks' = Tasks \cup {t} /\ t \notin Tasks
           /\ task' \in [Task -> [status : {"none", "not_started", "in_progress", "complete", "deleted"},
                                  seq : Task \cup {0}, ac : Task \cup {None}]]
           /\ criteria' \subseteq Task
           /\ \A u \in Task : task'[u].ac # None => u \in Tasks' /\ task'[u].ac \in criteria'
           /\ \A u, v \in Tasks' : u # v =>
                  task'[u].seq # task'[v].seq /\ (task'[u].ac = task'[v].ac => task'[u].ac = None)
<1>1. Tasks' = Tasks \cup {t} /\ t \notin Tasks
  BY DEF RowsOK, Tasks
<1>2. task' \in [Task -> [status : {"none", "not_started", "in_progress", "complete", "deleted"},
                          seq : Task \cup {0}, ac : Task \cup {None}]]
  BY DEF RowsOK
<1>3. criteria' \subseteq Task
  BY DEF RowsOK
<1>4. \A u \in Task : task'[u] = IF u = t THEN [status |-> "not_started", seq |-> n, ac |-> m]
                                 ELSE task[u]
  BY DEF RowsOK
<1>5. \A u \in Task : task'[u].ac # None => u \in Tasks' /\ task'[u].ac \in criteria'
  BY <1>1, <1>4 DEF RowsOK
<1>6. \A u, v \in Tasks' : u # v =>
          task'[u].seq # task'[v].seq /\ (task'[u].ac = task'[v].ac => task'[u].ac = None)
  <2> SUFFICES ASSUME NEW u \in Tasks', NEW v \in Tasks', u # v
               PROVE  task'[u].seq # task'[v].seq /\ (task'[u].ac = task'[v].ac => task'[u].ac = None)
    OBVIOUS
  <2>1. u \in Task /\ v \in Task
    BY DEF Tasks
  <2>2. CASE u # t /\ v # t
    BY <1>1, <1>4, <2>1, <2>2 DEF RowsOK
  <2>3. CASE u = t
    BY <1>1, <1>4, <2>1, <2>3 DEF RowsOK
  <2>4. CASE v = t
    BY <1>1, <1>4, <2>1, <2>4 DEF RowsOK
  <2> QED BY <2>2, <2>3, <2>4
<1> QED BY <1>1, <1>2, <1>3, <1>5, <1>6

LEMMA UnusedRow ==
    ASSUME NEW pool, pool \subseteq Int, NEW table, NEW x, Unused(pool, table, x)
    PROVE  table[x].status = "none"
BY DEF Unused

LEMMA createTaskRows == ASSUME RowsOK, createTask PROVE RowsOK'
<1>1. PICK t \in Task, n \in 1..MaxTasks :
        /\ Unused(Task, task, t) /\ nextSeq(n, {task[u].seq : u \in Tasks})
        /\ task' = [task EXCEPT ![t] = [status |-> "not_started", seq |-> n, ac |-> None]]
  BY DEF createTask
<1>2. task[t].status = "none"
  BY <1>1 DEF Unused, Task
<1>3. \A u \in Tasks : task[u].seq # n
  <2>1. \A u \in Tasks : task[u].seq \in Nat
    BY BoundsAssumption DEF RowsOK, Tasks, Task
  <2>2. PICK m \in {task[u].seq : u \in Tasks} \cup {0} :
          (\A x \in {task[u].seq : u \in Tasks} : x <= m) /\ n = m + 1
    BY <1>1 DEF nextSeq
  <2> QED BY <2>1, <2>2
<1>4. UNCHANGED <<issue, criteria, child>> /\ n \in Task
  BY DEF createTask, Task
<1>5. /\ Tasks' = Tasks \cup {t}
      /\ task' \in [Task -> [status : {"none", "not_started", "in_progress", "complete", "deleted"},
                             seq : Task \cup {0}, ac : Task \cup {None}]]
      /\ \A u \in Task : task'[u].ac # None => u \in Tasks' /\ task'[u].ac \in criteria'
      /\ \A u, v \in Tasks' : u # v =>
             task'[u].seq # task'[v].seq /\ (task'[u].ac = task'[v].ac => task'[u].ac = None)
  BY <1>1, <1>2, <1>3, <1>4, TaskAdded
<1> QED BY <1>4, <1>5 DEF RowsOK

LEMMA createIssueRows == ASSUME RowsOK, createIssue PROVE RowsOK'
BY DEF RowsOK, createIssue, Tasks

LEMMA updateIssueStatusRows ==
    ASSUME RowsOK, NEW i \in Issue, NEW s \in {"open", "converted", "resolved", "wont_fix"},
           updateIssueStatus(i, s)
    PROVE  RowsOK'
BY DEF RowsOK, updateIssueStatus, Tasks

LEMMA deleteIssueRows == ASSUME RowsOK, NEW i \in Issue, deleteIssue(i) PROVE RowsOK'
BY DEF RowsOK, deleteIssue, Tasks

(* Removing a task, with the links of issues to it.                        *)
LEMMA TaskRemoved ==
    ASSUME RowsOK, NEW t \in Task, task' = [task EXCEPT ![t] = Gone]
    PROVE  /\ Tasks' = Tasks \ {t}
           /\ task' \in [Task -> [status : {"none", "not_started", "in_progress", "complete", "deleted"},
                                  seq : Task \cup {0}, ac : Task \cup {None}]]
           /\ \A u \in Task : task'[u].ac # None => u \in Tasks' /\ task'[u].ac \in criteria
           /\ \A u, v \in Tasks' : u # v =>
                  task'[u].seq # task'[v].seq /\ (task'[u].ac = task'[v].ac => task'[u].ac = None)
           /\ \A i \in Issue : /\ Unlinked(t)[i].task # None => Unlinked(t)[i].task \in Tasks'
                               /\ Unlinked(t)[i].child = issue[i].child
                               /\ Unlinked(t)[i].status = issue[i].status
           /\ Unlinked(t) \in
                  [Issue -> [status : {"none", "open", "converted", "resolved", "wont_fix", "deleted"},
                             task : Task \cup {None}, child : Child \cup {None}]]
<1>1. Tasks' = Tasks \ {t}
  BY DEF RowsOK, Tasks, Gone
<1>2. task' \in [Task -> [status : {"none", "not_started", "in_progress", "complete", "deleted"},
                          seq : Task \cup {0}, ac : Task \cup {None}]]
  BY DEF RowsOK, Gone
<1>3. \A u \in Task : task'[u] = IF u = t THEN Gone ELSE task[u]
  BY DEF RowsOK
<1>4. \A u \in Task : task'[u].ac # None => u \in Tasks' /\ task'[u].ac \in criteria
  BY <1>1, <1>3 DEF RowsOK, Gone
<1>5. \A u, v \in Tasks' : u # v =>
          task'[u].seq # task'[v].seq /\ (task'[u].ac = task'[v].ac => task'[u].ac = None)
  BY <1>1, <1>3 DEF RowsOK, Tasks
<1>6. \A i \in Issue : /\ Unlinked(t)[i].task # None => Unlinked(t)[i].task \in Tasks'
                       /\ Unlinked(t)[i].child = issue[i].child
                       /\ Unlinked(t)[i].status = issue[i].status
  BY <1>1 DEF RowsOK, Unlinked
<1>7. Unlinked(t) \in
          [Issue -> [status : {"none", "open", "converted", "resolved", "wont_fix", "deleted"},
                     task : Task \cup {None}, child : Child \cup {None}]]
  BY DEF RowsOK, Unlinked
<1> QED BY <1>1, <1>2, <1>4, <1>5, <1>6, <1>7

LEMMA deleteTaskRows == ASSUME RowsOK, NEW t \in Task, deleteTask(t) PROVE RowsOK'
<1>1. task' = [task EXCEPT ![t] = Gone] /\ issue' = Unlinked(t) /\ UNCHANGED <<criteria, child>>
  BY DEF deleteTask
<1>2. /\ task' \in [Task -> [status : {"none", "not_started", "in_progress", "complete", "deleted"},
                            seq : Task \cup {0}, ac : Task \cup {None}]]
      /\ \A u \in Task : task'[u].ac # None => u \in Tasks' /\ task'[u].ac \in criteria
      /\ \A u, v \in Tasks' : u # v =>
             task'[u].seq # task'[v].seq /\ (task'[u].ac = task'[v].ac => task'[u].ac = None)
      /\ \A i \in Issue : /\ Unlinked(t)[i].task # None => Unlinked(t)[i].task \in Tasks'
                          /\ Unlinked(t)[i].child = issue[i].child
      /\ Unlinked(t) \in
             [Issue -> [status : {"none", "open", "converted", "resolved", "wont_fix", "deleted"},
                        task : Task \cup {None}, child : Child \cup {None}]]
  BY <1>1, TaskRemoved
<1> QED BY <1>1, <1>2 DEF RowsOK

LEMMA deleteAcRows == ASSUME RowsOK, NEW n \in Task, deleteAc(n) PROVE RowsOK'
BY DEF RowsOK, deleteAc, Tasks, None, Task

LEMMA markIssuePromotedRows ==
    ASSUME RowsOK, NEW i \in Issue, markIssuePromoted(i) PROVE RowsOK'
<1>1. PICK c \in Child : /\ child[c] = "none"
                        /\ child' = [child EXCEPT ![c] = "open"]
                        /\ issue' = [issue EXCEPT ![i] = [status |-> "converted", task |-> @.task, child |-> c]]
  BY DEF markIssuePromoted
<1>2. UNCHANGED <<task, criteria>>
  BY DEF markIssuePromoted
<1>3. issue' \in [Issue -> [status : {"none", "open", "converted", "resolved", "wont_fix", "deleted"},
                            task : Task \cup {None}, child : Child \cup {None}]]
  BY <1>1 DEF RowsOK
<1>4. child' \in [Child -> {"none", "open", "done"}]
  BY <1>1 DEF RowsOK
<1>5. \A j \in Issue : /\ issue'[j].task = issue[j].task
                       /\ issue'[j].child = IF j = i THEN c ELSE issue[j].child
  <2>1. issue' = [issue EXCEPT ![i] = [status |-> "converted", task |-> issue[i].task, child |-> c]]
    BY <1>1
  <2> QED BY <2>1 DEF RowsOK
<1>6. \A j \in Issue : issue'[j].task # None => issue'[j].task \in Tasks'
  BY <1>2, <1>5 DEF RowsOK, Tasks
<1>7. \A j \in Issue : issue'[j].child # None => child'[issue'[j].child] # "none"
  BY <1>1, <1>5 DEF RowsOK
<1>8. Tasks' = Tasks
  BY <1>2 DEF Tasks
<1> QED BY <1>2, <1>3, <1>4, <1>6, <1>7, <1>8 DEF RowsOK

LEMMA ConvertCommitRows ==
    ASSUME RowsOK, CallsOK, NEW p \in Proc, ConvertCommit(p) PROVE RowsOK'
<1> DEFINE j == job[p]
<1>1. j.issue \in Issue /\ j.seq \in Task /\ j.ac \in Task
  BY DEF ConvertCommit, CallsOK, Has
<1>2. PICK t \in Task :
        /\ Unused(Task, task, t)
        /\ task' = [task EXCEPT ![t] = [status |-> "not_started", seq |-> j.seq, ac |-> j.ac]]
        /\ issue' = [i \in Issue |->
               IF i = j.issue /\ i \in Issues
               THEN [status |-> "converted", task |-> t, child |-> issue[i].child] ELSE issue[i]]
  BY DEF ConvertCommit
<1>3. /\ criteria' = criteria \cup {j.ac} /\ UNCHANGED child
      /\ j.ac \notin criteria /\ \A u \in Tasks : task[u].seq # j.seq
  BY DEF ConvertCommit, NumbersFree
<1>4. j.ac # None /\ task[t].status = "none"
  <2>1. j.ac # None
    BY <1>1 DEF Task, None
  <2>2. task[t].status = "none"
    <3>1. Task \subseteq Int /\ Unused(Task, task, t)
      BY <1>2, BoundsAssumption DEF Task
    <3> HIDE <1>2
    <3> QED BY <3>1, UnusedRow
  <2> QED BY <2>1, <2>2
<1> HIDE DEF j
<1>5. /\ Tasks' = Tasks \cup {t}
      /\ task' \in [Task -> [status : {"none", "not_started", "in_progress", "complete", "deleted"},
                             seq : Task \cup {0}, ac : Task \cup {None}]]
      /\ criteria' \subseteq Task
      /\ \A u \in Task : task'[u].ac # None => u \in Tasks' /\ task'[u].ac \in criteria'
      /\ \A u, v \in Tasks' : u # v =>
             task'[u].seq # task'[v].seq /\ (task'[u].ac = task'[v].ac => task'[u].ac = None)
  BY <1>1, <1>2, <1>3, <1>4, TaskAdded
<1>6. /\ issue' \in [Issue -> [status : {"none", "open", "converted", "resolved", "wont_fix", "deleted"},
                               task : Task \cup {None}, child : Child \cup {None}]]
      /\ \A i \in Issue : issue'[i].child = issue[i].child /\ issue'[i].task \in {issue[i].task, t}
  <2>1. \A i \in Issue : \/ issue'[i] = issue[i]
                         \/ issue'[i] = [status |-> "converted", task |-> t, child |-> issue[i].child]
    BY <1>2
  <2>2. issue' = [i \in Issue |-> issue'[i]]
    BY <1>2
  <2> QED BY <2>1, <2>2 DEF RowsOK
<1> QED BY <1>3, <1>5, <1>6 DEF RowsOK

LEMMA KickCommitRows ==
    ASSUME RowsOK, CallsOK, NEW p \in Proc, KickCommit(p) PROVE RowsOK'
<1> DEFINE j == job[p]
           kept == Unlinked(j.task)
<1>1. j.task \in Task /\ j.issue \in Issue \cup {None}
  BY DEF KickCommit, CallsOK, Has, Job
<1>2. task' = [task EXCEPT ![j.task] = Gone] /\ UNCHANGED <<criteria, child>>
  BY DEF KickCommit
<1>3. \/ j.issue \in Issue /\ issue' = [kept EXCEPT ![j.issue] =
            [status |-> "open", task |-> None, child |-> @.child]]
      \/ issue' = kept
      \/ \E i \in Issue : issue' = [kept EXCEPT ![i].status = "open"]
  BY <1>1 DEF KickCommit
<1> HIDE DEF j
<1>4. /\ Tasks' = Tasks \ {j.task}
      /\ task' \in [Task -> [status : {"none", "not_started", "in_progress", "complete", "deleted"},
                             seq : Task \cup {0}, ac : Task \cup {None}]]
      /\ \A u \in Task : task'[u].ac # None => u \in Tasks' /\ task'[u].ac \in criteria
      /\ \A u, v \in Tasks' : u # v =>
             task'[u].seq # task'[v].seq /\ (task'[u].ac = task'[v].ac => task'[u].ac = None)
      /\ \A i \in Issue : /\ kept[i].task # None => kept[i].task \in Tasks'
                          /\ kept[i].child = issue[i].child
      /\ kept \in
             [Issue -> [status : {"none", "open", "converted", "resolved", "wont_fix", "deleted"},
                        task : Task \cup {None}, child : Child \cup {None}]]
  BY <1>1, <1>2, TaskRemoved
<1> HIDE DEF kept
<1>5. /\ issue' \in [Issue -> [status : {"none", "open", "converted", "resolved", "wont_fix", "deleted"},
                               task : Task \cup {None}, child : Child \cup {None}]]
      /\ \A i \in Issue : issue'[i].child = kept[i].child /\ issue'[i].task \in {kept[i].task, None}
  <2>1. CASE j.issue \in Issue /\ issue' = [kept EXCEPT ![j.issue] =
            [status |-> "open", task |-> None, child |-> @.child]]
    BY <1>4, <2>1
  <2>2. CASE issue' = kept
    BY <1>4, <2>2
  <2>3. CASE \E i \in Issue : issue' = [kept EXCEPT ![i].status = "open"]
    BY <1>4, <2>3
  <2> QED BY <1>3, <2>1, <2>2, <2>3
<1> QED BY <1>2, <1>4, <1>5 DEF RowsOK

LEMMA updateTaskStatusRows ==
    ASSUME RowsOK, NEW p \in Proc, NEW t \in Task,
           NEW s \in {"not_started", "in_progress", "complete"}, updateTaskStatus(p, t, s)
    PROVE  RowsOK'
<1>1. t \in Tasks /\ task' = [task EXCEPT ![t].status = s] /\ UNCHANGED <<issue, criteria, child>>
  BY DEF updateTaskStatus
<1>2. /\ task' \in [Task -> [status : {"none", "not_started", "in_progress", "complete", "deleted"},
                             seq : Task \cup {0}, ac : Task \cup {None}]]
      /\ \A u \in Task : task'[u].seq = task[u].seq /\ task'[u].ac = task[u].ac
  BY <1>1 DEF RowsOK
<1>3. Tasks' = Tasks
  BY <1>1 DEF RowsOK, Tasks
<1> QED BY <1>1, <1>2, <1>3 DEF RowsOK

LEMMA ResolveOneRows ==
    ASSUME RowsOK, NEW p \in Proc, NEW i \in Issue, ResolveOne(p, i) PROVE RowsOK'
BY DEF RowsOK, ResolveOne, Tasks

LEMMA ChildMovesRows ==
    ASSUME RowsOK, NEW p \in Proc, NEW c \in Child, NEW s \in {"open", "done"},
           ChildMoves(p, c, s)
    PROVE  RowsOK'
BY DEF RowsOK, ChildMoves, Tasks
-----------------------------------------------------------------------------
(* What calls read keeps its types.                                        *)

LEMMA ResultsSame == ASSUME ResultsOK, UNCHANGED results PROVE ResultsOK'
BY DEF ResultsOK, results

LEMMA CallsSame == ASSUME CallsOK, UNCHANGED calls PROVE CallsOK'
BY DEF CallsOK, calls

LEMMA NoneApart == None \notin Issue /\ None \notin Task /\ None \notin Child
BY BoundsAssumption DEF None, Issue, Task, Child

LEMMA ConvertCheckCalls ==
    ASSUME CallsOK, NEW p \in Proc, NEW i \in Issue, ConvertCheck(p, i) PROVE CallsOK'
<1> DEFINE j == [Blank EXCEPT !.issue = i]
<1>1. j \in Job /\ Has("numbers", j) /\ "numbers" \in Label
  BY DEF Job, Blank, Has, Label, None, NoEvent
<1>2. Go(p, "numbers", j)
  BY DEF ConvertCheck
<1> QED BY <1>1, <1>2, Goes

LEMMA ConvertNumbersCalls ==
    ASSUME CallsOK, NEW p \in Proc, ConvertNumbers(p) PROVE CallsOK'
<1>1. PICK n \in Task, m \in Task : Go(p, "convert", [job[p] EXCEPT !.seq = n, !.ac = m])
  BY DEF ConvertNumbers
<1> DEFINE j == [job[p] EXCEPT !.seq = n, !.ac = m]
<1>2. job[p] \in Job /\ job[p].issue \in Issue
  BY DEF CallsOK, ConvertNumbers, Has
<1>3. j \in Job /\ j.issue \in Issue /\ j.seq = n /\ j.ac = m
  BY <1>2 DEF Job
<1>4. "convert" \in Label /\ Has("convert", j)
  BY <1>3 DEF Label, Has
<1> QED BY <1>1, <1>3, <1>4, Goes

LEMMA KickTaskCalls ==
    ASSUME CallsOK, NEW p \in Proc, NEW t \in Task, KickTask(p, t) PROVE CallsOK'
<1> DEFINE j == [Blank EXCEPT !.task = t]
<1>1. j \in Job /\ Has("origin", j) /\ "origin" \in Label
  BY DEF Job, Blank, Has, Label, None, NoEvent
<1>2. Go(p, "origin", j)
  BY DEF KickTask
<1> QED BY <1>1, <1>2, Goes

LEMMA KickOriginCalls ==
    ASSUME CallsOK, NEW p \in Proc, KickOrigin(p) PROVE CallsOK'
<1>1. PICK i \in Issue \cup {None} : Go(p, "kick", [job[p] EXCEPT !.issue = i])
  BY DEF KickOrigin, Origins
<1> DEFINE j == [job[p] EXCEPT !.issue = i]
<1>2. job[p] \in Job /\ job[p].task \in Task
  BY DEF CallsOK, KickOrigin, Has
<1>3. j \in Job /\ j.task \in Task
  BY <1>2 DEF Job
<1>4. "kick" \in Label /\ Has("kick", j)
  BY <1>3 DEF Label, Has
<1> QED BY <1>1, <1>3, <1>4, Goes

LEMMA updateTaskStatusCalls ==
    ASSUME CallsOK, NEW p \in Proc, NEW t \in Task,
           NEW s \in {"not_started", "in_progress", "complete"}, updateTaskStatus(p, t, s)
    PROVE  CallsOK'
<1> DEFINE j == [Blank EXCEPT !.task = t]
<1>1. j \in Job /\ Has("task", j) /\ "task" \in Label
  BY DEF Job, Blank, Has, Label, None, NoEvent
<1>2. Go(p, "task", j) \/ UNCHANGED calls
  BY DEF updateTaskStatus
<1> QED BY <1>1, <1>2, Goes, CallsSame

LEMMA ChildMovesCalls ==
    ASSUME CallsOK, NEW p \in Proc, NEW c \in Child, NEW s \in {"open", "done"},
           ChildMoves(p, c, s)
    PROVE  CallsOK'
<1> DEFINE j == [Blank EXCEPT !.child = c]
<1>1. j \in Job /\ Has("child", j) /\ "child" \in Label
  BY DEF Job, Blank, Has, Label, None, NoEvent
<1>2. Go(p, "child", j) \/ UNCHANGED calls
  BY DEF ChildMoves
<1> QED BY <1>1, <1>2, Goes, CallsSame

LEMMA EmitBeginCalls ==
    ASSUME CallsOK, ResultsOK, NEW p \in Proc, NEW n \in Task, NEW t \in Test,
           NEW v \in Verdict, EmitBegin(p, n, t, v)
    PROVE  CallsOK' /\ ResultsOK'
<1> DEFINE e == [ac |-> n, test |-> t, at |-> clock', verdict |-> v]
           j == [Blank EXCEPT !.event = e]
<1>1. clock' \in 1..MaxEvents
  BY BoundsAssumption DEF EmitBegin, ResultsOK
<1>2. e \in Event
  BY <1>1 DEF Event
<1> HIDE DEF e
<1>3. j \in Job /\ j.event = e
  BY <1>2 DEF Job, Blank, None, NoEvent
<1>4. "emit" \in Label /\ Has("emit", j)
  BY <1>2, <1>3 DEF Label, Has
<1>5. Go(p, "emit", j)
  BY DEF EmitBegin, e
<1>6. ResultsOK'
  BY <1>1 DEF EmitBegin, ResultsOK
<1> QED BY <1>3, <1>4, <1>5, <1>6, Goes

LEMMA EmitCommitCalls ==
    ASSUME CallsOK, ResultsOK, NEW p \in Proc, EmitCommit(p) PROVE CallsOK' /\ ResultsOK'
<1> DEFINE e == job[p].event
<1>1. e \in Event /\ job[p] \in Job
  BY DEF EmitCommit, CallsOK, Has
<1>2. CallsOK'
  <2>1. CASE e.verdict = "pass"
    <3>1. "satisfying" \in Label /\ Has("satisfying", job[p])
      BY <1>1 DEF Label, Has
    <3>2. Go(p, "satisfying", job[p])
      BY <2>1 DEF EmitCommit, AfterEmission
    <3> QED BY <1>1, <3>1, <3>2, Goes
  <2>2. CASE e.verdict # "pass"
    <3>1. Return(p)
      BY <2>2 DEF EmitCommit, AfterEmission, Return
    <3> QED BY <3>1, Returns
  <2> QED BY <2>1, <2>2
<1>3. ResultsOK'
  <2>1. log' = log \cup {e} /\ summary' = applyEmissionToSummary(e) /\ clock' = clock
    BY DEF EmitCommit
  <2> HIDE DEF e
  <2>2. e.ac \in Task /\ e.test \in Test /\ [at |-> e.at, verdict |-> e.verdict] \in
              [at : 0..MaxEvents, verdict : Verdict]
    BY <1>1, BoundsAssumption DEF Event
  <2>3. summary' \in [Task -> [Test -> [at : 0..MaxEvents, verdict : Verdict]]]
    BY <2>1, <2>2 DEF ResultsOK, applyEmissionToSummary
  <2> QED BY <1>1, <2>1, <2>3 DEF ResultsOK
<1> QED BY <1>2, <1>3

LEMMA RetireRowsCalls ==
    ASSUME CallsOK, ResultsOK, NEW p \in Proc, NEW n \in Task, NEW t \in Test,
           RetireRows(p, n, t)
    PROVE  CallsOK'
<1> DEFINE S == {e \in log : e.ac = n /\ e.test = t}
           j == [Blank EXCEPT !.ac = n, !.test = t, !.seen = S]
<1>1. S \subseteq Event
  BY DEF ResultsOK
<1> HIDE DEF S
<1>2. j \in Job /\ j.ac = n /\ j.test = t
  BY <1>1 DEF Job, Blank, None, NoEvent
<1>3. "retire" \in Label /\ Has("retire", j)
  BY <1>2 DEF Label, Has
<1>4. Go(p, "retire", j)
  BY DEF RetireRows, S
<1> QED BY <1>2, <1>3, <1>4, Goes

LEMMA RetireCommitCalls ==
    ASSUME CallsOK, ResultsOK, NEW p \in Proc, RetireCommit(p) PROVE CallsOK' /\ ResultsOK'
<1>1. CallsOK'
  BY Returns DEF RetireCommit
<1>2. job[p].ac \in Task /\ job[p].test \in Test
  BY DEF RetireCommit, CallsOK, Has
<1>3. NoResult \in [at : 0..MaxEvents, verdict : Verdict]
  BY BoundsAssumption DEF NoResult, Verdict
<1>4. ResultsOK'
  BY <1>2, <1>3 DEF RetireCommit, ResultsOK
<1> QED BY <1>1, <1>4

LEMMA ReadsCalls ==
    ASSUME CallsOK, RowsOK, NEW p \in Proc,
           ReadSatisfying(p) \/ ReadTask(p) \/ ReadIssues(p) \/ ReadLinks(p) \/ ReadLatest(p)
             \/ ReadChild(p) \/ ReadPromoted(p)
    PROVE  CallsOK'
<1>0. job[p] \in Job /\ Has(pc[p], job[p])
  BY DEF CallsOK
<1>1. ASSUME ReadSatisfying(p) PROVE CallsOK'
  <2>1. Return(p) \/ \E t \in Task : Go(p, "task", [Blank EXCEPT !.task = t])
    BY <1>1 DEF ReadSatisfying, Tasks
  <2>2. ASSUME NEW t \in Task PROVE [Blank EXCEPT !.task = t] \in Job /\ Has("task", [Blank EXCEPT !.task = t])
    BY DEF Job, Blank, Has, Label, None, NoEvent
  <2> QED BY <2>1, <2>2, Returns, Goes DEF Label
<1>2. ASSUME ReadTask(p) PROVE CallsOK'
  <2>1. Has("issues", job[p])
    BY <1>0, <1>2 DEF ReadTask, Has, Label
  <2>2. Return(p) \/ Go(p, "issues", job[p])
    BY <1>2 DEF ReadTask
  <2> QED BY <1>0, <2>1, <2>2, Returns, Goes DEF Label
<1>3. ASSUME ReadIssues(p) PROVE CallsOK'
  <2> DEFINE S == Candidates(job[p].task)
             j == [job[p] EXCEPT !.todo = S]
  <2>1. S \subseteq Issue
    BY DEF Candidates, Origins
  <2>2. Return(p) \/ Go(p, "links", j)
    BY <1>3 DEF ReadIssues
  <2> HIDE DEF S
  <2>3. j \in Job /\ j.task = job[p].task
    BY <1>0, <2>1 DEF Job
  <2>4. Has("links", j)
    BY <1>0, <1>3, <2>3 DEF ReadIssues, Has, Label
  <2> QED BY <2>2, <2>3, <2>4, Returns, Goes DEF Label
<1>4. ASSUME ReadLinks(p) PROVE CallsOK'
  <2> DEFINE n == task[job[p].task].ac
             j == [job[p] EXCEPT !.ac = n]
  <2>1. Return(p) \/ (n # None /\ Go(p, "latest", j))
    BY <1>4 DEF ReadLinks
  <2>2. n # None => n \in Task
    BY <1>0, <1>4 DEF ReadLinks, Has, RowsOK
  <2> HIDE DEF n
  <2>3. n # None => j \in Job /\ j.task = job[p].task /\ j.ac = n
    BY <1>0, <2>2 DEF Job
  <2>4. n # None => Has("latest", j)
    BY <1>0, <1>4, <2>2, <2>3 DEF ReadLinks, Has, Label
  <2> QED BY <2>1, <2>3, <2>4, Returns, Goes DEF Label
<1>5. ASSUME ReadLatest(p) PROVE CallsOK'
  <2>1. Has("resolve", job[p])
    BY DEF Has, Label
  <2>2. Return(p) \/ Go(p, "resolve", job[p])
    BY <1>5 DEF ReadLatest
  <2> QED BY <1>0, <2>1, <2>2, Returns, Goes DEF Label
<1>6. ASSUME ReadChild(p) PROVE CallsOK'
  <2>1. Has("promoted", job[p])
    BY <1>0, <1>6 DEF ReadChild, Has, Label
  <2>2. Return(p) \/ Go(p, "promoted", job[p])
    BY <1>6 DEF ReadChild
  <2> QED BY <1>0, <2>1, <2>2, Returns, Goes DEF Label
<1>7. ASSUME ReadPromoted(p) PROVE CallsOK'
  <2> DEFINE S == {i \in Issue : issue[i].child = job[p].child /\ issue[i].status = "converted"}
             j == [job[p] EXCEPT !.todo = S]
  <2>1. S \subseteq Issue
    OBVIOUS
  <2>2. Return(p) \/ Go(p, "resolve", j)
    BY <1>7 DEF ReadPromoted
  <2> HIDE DEF S
  <2>3. j \in Job
    BY <1>0, <2>1 DEF Job
  <2>4. Has("resolve", j)
    BY DEF Has, Label
  <2> QED BY <2>2, <2>3, <2>4, Returns, Goes DEF Label
<1> QED BY <1>1, <1>2, <1>3, <1>4, <1>5, <1>6, <1>7

LEMMA ResolveOneCalls ==
    ASSUME CallsOK, NEW p \in Proc, NEW i \in Issue, ResolveOne(p, i) PROVE CallsOK'
<1> DEFINE S == job[p].todo \ {i}
           j == [job[p] EXCEPT !.todo = S]
<1>1. Return(p) \/ Go(p, "resolve", j)
  BY DEF ResolveOne
<1>2. job[p] \in Job /\ S \subseteq Issue
  BY DEF CallsOK, Job
<1> HIDE DEF S
<1>3. j \in Job
  BY <1>2 DEF Job
<1>4. Has("resolve", j)
  BY DEF Has, Label
<1> QED BY <1>1, <1>3, <1>4, Returns, Goes DEF Label
-----------------------------------------------------------------------------
(* Every step keeps the types.                                             *)

LEMMA Together == ASSUME RowsOK', ResultsOK', CountsOK', CallsOK' PROVE IInv'
BY DEF IInv, TypeOK, RowsOK, ResultsOK, CountsOK

LEMMA CountsStep ==
    ASSUME CountsOK, NEW p \in Proc,
           \/ Edit /\ UNCHANGED begun
           \/ Begin(p) /\ UNCHANGED edits
           \/ UNCHANGED <<begun, edits>>
    PROVE  CountsOK'
BY Counting DEF CountsOK

LEMMA SomeoneTyped == ASSUME IInv, Someone PROVE IInv'
<1>0. RowsOK /\ ResultsOK /\ CountsOK /\ CallsOK
  BY TypeParts DEF IInv
<1>1. UNCHANGED results /\ UNCHANGED calls /\ Edit /\ UNCHANGED begun
  BY DEF Someone, createTask, createIssue, deleteIssue, markIssuePromoted, updateIssueStatus,
         deleteTask, deleteAc, results, calls
<1>2. ResultsOK' /\ CallsOK' /\ CountsOK'
  BY <1>0, <1>1, ResultsSame, CallsSame, Counting DEF CountsOK
<1>3. RowsOK'
  BY <1>0, createTaskRows, createIssueRows, updateIssueStatusRows, deleteIssueRows,
     deleteTaskRows, deleteAcRows, markIssuePromotedRows DEF Someone
<1> QED BY <1>2, <1>3, Together

LEMMA StepTyped == ASSUME IInv, NEW p \in Proc, Step(p) PROVE IInv'
<1>0. RowsOK /\ ResultsOK /\ CountsOK /\ CallsOK
  BY TypeParts DEF IInv
<1>1. CASE Converts(p)
  <2>1. ResultsOK' /\ CountsOK'
    BY <1>0, <1>1, ResultsSame, CountsStep
    DEF Converts, ConvertCheck, ConvertNumbers, ConvertCommit, ConvertRefused, results
  <2>2. RowsOK'
    BY <1>0, <1>1, RowsSame, ConvertCommitRows
    DEF Converts, ConvertCheck, ConvertNumbers, ConvertRefused
  <2>3. CallsOK'
    BY <1>0, <1>1, ConvertCheckCalls, ConvertNumbersCalls, Returns
    DEF Converts, ConvertCommit, ConvertRefused
  <2> QED BY <2>1, <2>2, <2>3, Together
<1>2. CASE Kicks(p)
  <2>1. ResultsOK' /\ CountsOK'
    BY <1>0, <1>2, ResultsSame, CountsStep DEF Kicks, KickTask, KickOrigin, KickCommit, results
  <2>2. RowsOK'
    BY <1>0, <1>2, RowsSame, KickCommitRows DEF Kicks, KickTask, KickOrigin
  <2>3. CallsOK'
    BY <1>0, <1>2, KickTaskCalls, KickOriginCalls, Returns DEF Kicks, KickCommit
  <2> QED BY <2>1, <2>2, <2>3, Together
<1>3. CASE Emits(p)
  <2>1. criteria \subseteq Task
    BY <1>0 DEF RowsOK
  <2>2. RowsOK' /\ CountsOK'
    BY <1>0, <1>3, RowsSame, CountsStep DEF Emits, EmitBegin, EmitCommit, ReadSatisfying
  <2>3. ASSUME ReadSatisfying(p) PROVE ResultsOK' /\ CallsOK'
    BY <1>0, <2>3, ResultsSame, ReadsCalls DEF ReadSatisfying
  <2>4. ResultsOK' /\ CallsOK'
    BY <1>0, <1>3, <2>1, <2>3, EmitBeginCalls, EmitCommitCalls DEF Emits
  <2> QED BY <2>2, <2>4, Together
<1>4. CASE Completes(p)
  <2>1. PICK t \in Task, s \in {"not_started", "in_progress", "complete"} : updateTaskStatus(p, t, s)
    BY <1>4 DEF Completes
  <2>2. ResultsOK' /\ CountsOK'
    BY <1>0, <2>1, ResultsSame, CountsStep DEF updateTaskStatus
  <2>3. RowsOK' /\ CallsOK'
    BY <1>0, <2>1, updateTaskStatusRows, updateTaskStatusCalls
  <2> QED BY <2>2, <2>3, Together
<1>5. CASE Moves(p)
  <2>1. ASSUME NEW c \in Child, NEW s \in {"open", "done"}, ChildMoves(p, c, s)
        PROVE  RowsOK' /\ ResultsOK' /\ CountsOK' /\ CallsOK'
    <3>1. ResultsOK' /\ CountsOK'
      BY <1>0, <2>1, ResultsSame, CountsStep DEF ChildMoves
    <3> QED BY <1>0, <2>1, <3>1, ChildMovesRows, ChildMovesCalls
  <2>2. ASSUME ReadChild(p) \/ ReadPromoted(p)
        PROVE  RowsOK' /\ ResultsOK' /\ CountsOK' /\ CallsOK'
    <3>1. UNCHANGED rows /\ UNCHANGED results /\ UNCHANGED <<begun, edits>>
      BY <2>2 DEF ReadChild, ReadPromoted
    <3> QED BY <1>0, <2>2, <3>1, RowsSame, ResultsSame, CountsStep, ReadsCalls
  <2> QED BY <1>5, <2>1, <2>2, Together DEF Moves
<1>6. CASE Resolves(p)
  <2>1. ASSUME NEW i \in Issue, ResolveOne(p, i)
        PROVE  RowsOK' /\ ResultsOK' /\ CountsOK' /\ CallsOK'
    <3>1. ResultsOK' /\ CountsOK'
      BY <1>0, <2>1, ResultsSame, CountsStep DEF ResolveOne
    <3> QED BY <1>0, <2>1, <3>1, ResolveOneRows, ResolveOneCalls
  <2>2. ASSUME ReadTask(p) \/ ReadIssues(p) \/ ReadLinks(p) \/ ReadLatest(p)
        PROVE  RowsOK' /\ ResultsOK' /\ CountsOK' /\ CallsOK'
    <3>1. UNCHANGED rows /\ UNCHANGED results /\ UNCHANGED <<begun, edits>>
      BY <2>2 DEF ReadTask, ReadIssues, ReadLinks, ReadLatest
    <3> QED BY <1>0, <2>2, <3>1, RowsSame, ResultsSame, CountsStep, ReadsCalls
  <2> QED BY <1>6, <2>1, <2>2, Together DEF Resolves
<1>7. CASE Retires(p)
  <2>1. ASSUME NEW n \in Task, NEW t \in Test, RetireRows(p, n, t)
        PROVE  RowsOK' /\ ResultsOK' /\ CountsOK' /\ CallsOK'
    <3>1. UNCHANGED rows /\ UNCHANGED results /\ Edit /\ UNCHANGED begun
      BY <2>1 DEF RetireRows
    <3> QED BY <1>0, <2>1, <3>1, RowsSame, ResultsSame, CountsStep, RetireRowsCalls
  <2>2. ASSUME RetireCommit(p) PROVE RowsOK' /\ ResultsOK' /\ CountsOK' /\ CallsOK'
    <3>1. UNCHANGED rows /\ UNCHANGED <<begun, edits>>
      BY <2>2 DEF RetireCommit
    <3> QED BY <1>0, <2>2, <3>1, RowsSame, CountsStep, RetireCommitCalls
  <2> QED BY <1>7, <2>1, <2>2, Together DEF Retires
<1>8. CASE Fail(p)
  <2>1. UNCHANGED rows /\ UNCHANGED results /\ UNCHANGED <<begun, edits>> /\ Return(p)
    BY <1>8 DEF Fail
  <2> QED BY <1>0, <2>1, RowsSame, ResultsSame, CountsStep, Returns, Together
<1> QED BY <1>1, <1>2, <1>3, <1>4, <1>5, <1>6, <1>7, <1>8 DEF Step

LEMMA StutterTyped == ASSUME IInv, UNCHANGED vars PROVE IInv'
<1>1. RowsOK /\ ResultsOK /\ CountsOK /\ CallsOK
  BY TypeParts DEF IInv
<1>2. UNCHANGED rows /\ UNCHANGED results /\ UNCHANGED calls /\ UNCHANGED <<edits, begun>>
  BY DEF vars
<1>3. CountsOK'
  BY <1>1, <1>2 DEF CountsOK
<1> QED BY <1>1, <1>2, <1>3, RowsSame, ResultsSame, CallsSame, Together

LEMMA NextTyped == ASSUME IInv, [Next]_vars PROVE IInv'
BY SomeoneTyped, StepTyped, StutterTyped DEF Next

(* Whatever calls overlap and fail, every row links to rows that exist:    *)
(* a conversion commits a task, its criterion and the link together or     *)
(* not at all, and no number is given twice.                               *)
THEOREM TypeCorrect == Spec => []TypeOK
<1>1. IInv => TypeOK
  BY DEF IInv
<1> QED BY InitTyped, NextTyped, <1>1, PTL DEF Spec
-----------------------------------------------------------------------------
(* Nothing is stranded.                                                    *)

TaskOwed(i) ==
    /\ issue[i].status = "converted"
    /\ Complete(i) /\ Ref(i) # None /\ Green(Ref(i))
    /\ <<i, "task">> \notin missed

ChildOwed(i) ==
    /\ issue[i].status = "converted"
    /\ ProvenByChild(i)
    /\ <<i, "child">> \notin missed

LEMMA Stranding == NothingStranded <=> \A i \in Issue :
    /\ TaskOwed(i) => \E p \in Proc : LooksAtTask(p, i)
    /\ ChildOwed(i) => \E p \in Proc : LooksAtChild(p, i)
BY DEF NothingStranded, TaskOwed, ChildOwed

Strandless == \A i \in Issue :
    /\ TaskOwed(i) => \E p \in Proc : LooksAtTask(p, i)
    /\ ChildOwed(i) => \E p \in Proc : LooksAtChild(p, i)

(* A call that does not move still looks at the issues it looked at.       *)
LEMMA StillLooks ==
    ASSUME NEW i \in Issue, NEW q \in Proc, pc'[q] = pc[q], job'[q] = job[q],
           issue'[i].task = issue[i].task, Ref(i)' = Ref(i), issue'[i].child = issue[i].child
    PROVE  /\ LooksAtTask(q, i) => LooksAtTask(q, i)'
           /\ LooksAtChild(q, i) => LooksAtChild(q, i)'
BY DEF LooksAtTask, LooksAtChild

LEMMA OthersStay ==
    ASSUME CallsOK, NEW p \in Proc, NEW l, NEW j, Go(p, l, j), NEW q \in Proc, q # p
    PROVE  pc'[q] = pc[q] /\ job'[q] = job[q]
BY DEF CallsOK, Go

LEMMA GoneTo ==
    ASSUME CallsOK, NEW p \in Proc, NEW l, NEW j, Go(p, l, j)
    PROVE  pc'[p] = l /\ job'[p] = j
BY DEF CallsOK, Go

(* What is owed depends on the rows, the summary and missed alone.         *)
LEMMA OwedSame ==
    ASSUME UNCHANGED rows, UNCHANGED results, NEW i \in Issue
    PROVE  /\ Ref(i)' = Ref(i) /\ issue' = issue
           /\ TaskOwed(i)' /\ missed \subseteq missed' => TaskOwed(i)
           /\ ChildOwed(i)' /\ missed \subseteq missed' => ChildOwed(i)
BY DEF rows, results, Ref, TaskOwed, ChildOwed, Complete, Green, Latest, ProvenByChild

(* A step that writes no row and passes on what it looked at.              *)
LEMMA ReadsStrandNothing ==
    ASSUME CallsOK, Strandless, NEW p \in Proc, NEW l, NEW j, Go(p, l, j),
           UNCHANGED rows, UNCHANGED results, missed \subseteq missed',
           \A i \in Issue : TaskOwed(i) /\ TaskOwed(i)' /\ LooksAtTask(p, i) => LooksAtTask(p, i)',
           \A i \in Issue : ChildOwed(i) /\ ChildOwed(i)' /\ LooksAtChild(p, i) => LooksAtChild(p, i)'
    PROVE  Strandless'
<1> SUFFICES ASSUME NEW i \in Issue
             PROVE  /\ TaskOwed(i)' => \E q \in Proc : LooksAtTask(q, i)'
                    /\ ChildOwed(i)' => \E q \in Proc : LooksAtChild(q, i)'
  BY DEF Strandless
<1>0. issue' = issue /\ Ref(i)' = Ref(i)
  BY OwedSame
<1>1. ASSUME TaskOwed(i)' PROVE \E q \in Proc : LooksAtTask(q, i)'
  <2>1. TaskOwed(i)
    BY <1>1, OwedSame
  <2>2. PICK q \in Proc : LooksAtTask(q, i)
    BY <2>1 DEF Strandless
  <2>3. CASE q = p
    BY <1>1, <2>1, <2>2, <2>3
  <2>4. CASE q # p
    BY <1>0, <2>2, <2>4, OthersStay, StillLooks
  <2> QED BY <2>3, <2>4
<1>2. ASSUME ChildOwed(i)' PROVE \E q \in Proc : LooksAtChild(q, i)'
  <2>1. ChildOwed(i)
    BY <1>2, OwedSame
  <2>2. PICK q \in Proc : LooksAtChild(q, i)
    BY <2>1 DEF Strandless
  <2>3. CASE q = p
    BY <1>2, <2>1, <2>2, <2>3
  <2>4. CASE q # p
    BY <1>0, <2>2, <2>4, OthersStay, StillLooks
  <2> QED BY <2>3, <2>4
<1> QED BY <1>1, <1>2

(* A call that is not resolving looks at nothing.                          *)
LEMMA NotLooking ==
    ASSUME NEW p \in Proc, pc[p] \notin Resolving, NEW i
    PROVE  ~LooksAtTask(p, i) /\ ~LooksAtChild(p, i)
BY DEF LooksAtTask, LooksAtChild, Resolving

(* A write of a call that is not resolving, or of no call: what is owed    *)
(* afterwards was owed before, for the same task and child.                *)
LEMMA WritesStrandNothing ==
    ASSUME CallsOK, Strandless,
           \/ UNCHANGED calls
           \/ \E p \in Proc : pc[p] \notin Resolving /\ \E l, j : Go(p, l, j),
           \A i \in Issue : TaskOwed(i)' =>
              \/ \E p \in Proc : LooksAtTask(p, i)'
              \/ TaskOwed(i) /\ issue'[i] = issue[i] /\ Ref(i)' = Ref(i),
           \A i \in Issue : ChildOwed(i)' =>
              \/ \E p \in Proc : LooksAtChild(p, i)'
              \/ ChildOwed(i) /\ issue'[i].child = issue[i].child
    PROVE  Strandless'
<1>0. ASSUME NEW q \in Proc, pc[q] \in Resolving PROVE pc'[q] = pc[q] /\ job'[q] = job[q]
  <2>1. ASSUME UNCHANGED calls PROVE pc'[q] = pc[q] /\ job'[q] = job[q]
    BY <2>1 DEF calls
  <2>2. ASSUME NEW p \in Proc, pc[p] \notin Resolving, NEW l, NEW j, Go(p, l, j)
        PROVE  pc'[q] = pc[q] /\ job'[q] = job[q]
    <3>1. q # p
      BY <1>0, <2>2
    <3> QED BY <2>2, <3>1, OthersStay
  <2> QED BY <2>1, <2>2
<1> SUFFICES ASSUME NEW i \in Issue
             PROVE  /\ TaskOwed(i)' => \E q \in Proc : LooksAtTask(q, i)'
                    /\ ChildOwed(i)' => \E q \in Proc : LooksAtChild(q, i)'
  BY DEF Strandless
<1>1. ASSUME TaskOwed(i), issue'[i] = issue[i], Ref(i)' = Ref(i)
      PROVE  \E q \in Proc : LooksAtTask(q, i)'
  <2>1. PICK q \in Proc : LooksAtTask(q, i)
    BY <1>1 DEF Strandless
  <2>2. pc'[q] = pc[q] /\ job'[q] = job[q]
    BY <1>0, <2>1, NotLooking
  <2>3. LooksAtTask(q, i)'
    BY <1>1, <2>1, <2>2, StillLooks
  <2> QED BY <2>3
<1>2. ASSUME ChildOwed(i), issue'[i].child = issue[i].child
      PROVE  \E q \in Proc : LooksAtChild(q, i)'
  <2>1. PICK q \in Proc : LooksAtChild(q, i)
    BY <1>2 DEF Strandless
  <2>2. pc'[q] = pc[q] /\ job'[q] = job[q]
    BY <1>0, <2>1, NotLooking
  <2>3. LooksAtChild(q, i)'
    BY <1>2, <2>1, <2>2 DEF LooksAtChild
  <2> QED BY <2>3
<1> QED BY <1>1, <1>2

(* An issue whose row, task, criterion and results a step leaves alone.    *)
LEMMA TaskOwedKept ==
    ASSUME NEW i \in Issue, issue'[i] = issue[i],
           issue[i].task # None => task'[issue[i].task] = task[issue[i].task],
           Ref(i) # None => summary'[Ref(i)] = summary[Ref(i)],
           <<i, "task">> \in missed => <<i, "task">> \in missed'
    PROVE  Ref(i)' = Ref(i) /\ (TaskOwed(i)' => TaskOwed(i))
BY DEF Ref, TaskOwed, Complete, Green, Latest

LEMMA ChildOwedKept ==
    ASSUME NEW i \in Issue, issue'[i].child = issue[i].child,
           issue'[i].status = "converted" => issue[i].status = "converted",
           issue[i].child # None => child'[issue[i].child] = child[issue[i].child],
           <<i, "child">> \in missed => <<i, "child">> \in missed'
    PROVE  ChildOwed(i)' => ChildOwed(i)
BY DEF ChildOwed, ProvenByChild

LEMMA NotOwed ==
    ASSUME NEW i \in Issue, issue'[i].status # "converted"
    PROVE  ~TaskOwed(i)' /\ ~ChildOwed(i)'
BY DEF TaskOwed, ChildOwed

LEMMA createTaskStrands == ASSUME IInv, Strandless, createTask PROVE Strandless'
<1>0. RowsOK /\ CallsOK
  BY TypeParts DEF IInv
<1>1. UNCHANGED calls /\ issue' = issue /\ child' = child /\ summary' = summary /\ missed' = missed
  BY DEF createTask, results
<1>2. PICK t \in Task : task[t].status = "none" /\ \A u \in Task : u # t => task'[u] = task[u]
  <2>1. PICK t \in Task : Unused(Task, task, t) /\ \A u \in Task : u # t => task'[u] = task[u]
    BY <1>0 DEF createTask, RowsOK
  <2>2. Task \subseteq Int
    BY BoundsAssumption DEF Task
  <2> QED BY <2>1, <2>2, UnusedRow
<1>3. ASSUME NEW i \in Issue, issue[i].task # None PROVE task'[issue[i].task] = task[issue[i].task]
  BY <1>0, <1>2, <1>3 DEF RowsOK, Tasks
<1> QED BY <1>0, <1>1, <1>3, TaskOwedKept, ChildOwedKept, WritesStrandNothing

LEMMA createIssueStrands == ASSUME IInv, Strandless, createIssue PROVE Strandless'
<1>0. RowsOK /\ CallsOK
  BY TypeParts DEF IInv
<1>1. UNCHANGED calls /\ task' = task /\ child' = child /\ summary' = summary /\ missed' = missed
  BY DEF createIssue, results
<1>2. \A i \in Issue : issue'[i] = issue[i] \/ issue'[i].status = "open"
  BY <1>0 DEF createIssue, RowsOK
<1> QED BY <1>0, <1>1, <1>2, NotOwed, TaskOwedKept, ChildOwedKept, WritesStrandNothing

LEMMA updateIssueStatusStrands ==
    ASSUME IInv, Strandless, NEW i \in Issue, NEW s, updateIssueStatus(i, s) PROVE Strandless'
<1>0. RowsOK /\ CallsOK
  BY TypeParts DEF IInv
<1>1. UNCHANGED calls /\ task' = task /\ child' = child /\ summary' = summary
  BY DEF updateIssueStatus, results
<1>2. ~TaskOwed(i)' /\ ~ChildOwed(i)'
  BY <1>0 DEF updateIssueStatus, RowsOK, TaskOwed, ChildOwed
<1>3. \A k \in Issue : k # i => issue'[k] = issue[k]
  BY <1>0 DEF updateIssueStatus, RowsOK
<1>4. missed \subseteq missed'
  BY DEF updateIssueStatus
<1> QED BY <1>0, <1>1, <1>2, <1>3, <1>4, TaskOwedKept, ChildOwedKept, WritesStrandNothing

LEMMA deleteIssueStrands ==
    ASSUME IInv, Strandless, NEW i \in Issue, deleteIssue(i) PROVE Strandless'
<1>0. RowsOK /\ CallsOK
  BY TypeParts DEF IInv
<1>1. UNCHANGED calls /\ task' = task /\ child' = child /\ summary' = summary /\ missed' = missed
  BY DEF deleteIssue, results
<1>2. issue'[i].status # "converted" /\ \A k \in Issue : k # i => issue'[k] = issue[k]
  BY <1>0 DEF deleteIssue, RowsOK
<1> QED BY <1>0, <1>1, <1>2, NotOwed, TaskOwedKept, ChildOwedKept, WritesStrandNothing

(* The foreign key: an issue either keeps its row or loses its task.       *)
LEMMA UnlinkedRow ==
    ASSUME RowsOK, NEW t \in Task, NEW i \in Issue
    PROVE  IF issue[i].task = t
           THEN /\ Unlinked(t)[i].task = None /\ Unlinked(t)[i].status = issue[i].status
                /\ Unlinked(t)[i].child = issue[i].child
           ELSE Unlinked(t)[i] = issue[i]
BY DEF RowsOK, Unlinked

LEMMA deleteTaskStrands ==
    ASSUME IInv, Strandless, NEW t \in Task, deleteTask(t) PROVE Strandless'
<1>0. RowsOK /\ CallsOK
  BY TypeParts DEF IInv
<1>1. UNCHANGED calls /\ child' = child /\ summary' = summary /\ missed' = missed
  BY DEF deleteTask, results
<1>2. issue' = Unlinked(t) /\ \A u \in Task : u # t => task'[u] = task[u]
  BY <1>0 DEF deleteTask, RowsOK
<1>3. ASSUME NEW i \in Issue, issue[i].task = t
      PROVE  ~TaskOwed(i)' /\ (ChildOwed(i)' => ChildOwed(i)) /\ issue'[i].child = issue[i].child
  <2>1. /\ issue'[i].task = None /\ issue'[i].status = issue[i].status
        /\ issue'[i].child = issue[i].child
    BY <1>0, <1>2, <1>3, UnlinkedRow
  <2> QED BY <1>1, <2>1, ChildOwedKept DEF TaskOwed, Complete
<1>4. ASSUME NEW i \in Issue, issue[i].task # t
      PROVE  /\ issue'[i] = issue[i]
             /\ issue[i].task # None => task'[issue[i].task] = task[issue[i].task]
  BY <1>0, <1>2, <1>4, UnlinkedRow DEF RowsOK
<1> QED BY <1>0, <1>1, <1>3, <1>4, TaskOwedKept, ChildOwedKept, WritesStrandNothing

LEMMA deleteAcStrands ==
    ASSUME IInv, Strandless, NEW n \in Task, deleteAc(n) PROVE Strandless'
<1>0. RowsOK /\ CallsOK
  BY TypeParts DEF IInv
<1>1. /\ UNCHANGED calls /\ issue' = issue /\ child' = child /\ summary' = summary
      /\ missed' = missed
  BY DEF deleteAc, results
<1>2. \A u \in Task : IF task[u].ac = n THEN task'[u].ac = None ELSE task'[u] = task[u]
  BY <1>0 DEF deleteAc, RowsOK
<1>3. ASSUME NEW i \in Issue, Ref(i) = n PROVE ~TaskOwed(i)'
  BY <1>0, <1>1, <1>2, <1>3 DEF TaskOwed, Complete, Ref, RowsOK, Task, None
<1>4. ASSUME NEW i \in Issue, Ref(i) # n, issue[i].task # None
      PROVE  task'[issue[i].task] = task[issue[i].task]
  BY <1>0, <1>2, <1>4 DEF Ref, RowsOK
<1> QED BY <1>0, <1>1, <1>3, <1>4, TaskOwedKept, ChildOwedKept, WritesStrandNothing

LEMMA markIssuePromotedStrands ==
    ASSUME IInv, Strandless, NEW i \in Issue, markIssuePromoted(i) PROVE Strandless'
<1>0. RowsOK /\ CallsOK
  BY TypeParts DEF IInv
<1>1. UNCHANGED calls /\ task' = task /\ summary' = summary
  BY DEF markIssuePromoted, results
<1>2. PICK c \in Child : /\ child[c] = "none" /\ child' = [child EXCEPT ![c] = "open"]
                         /\ issue' = [issue EXCEPT ![i] = [status |-> "converted",
                                                task |-> issue[i].task, child |-> c]]
  BY DEF markIssuePromoted
<1>3. \A k \in Issue : k # i => issue'[k] = issue[k]
  BY <1>0, <1>2 DEF RowsOK
<1>4. ~TaskOwed(i)' /\ ~ChildOwed(i)'
  <2>1. <<i, "task">> \in missed'
    BY DEF markIssuePromoted
  <2>2. issue'[i].child = c /\ child'[c] = "open"
    BY <1>0, <1>2 DEF RowsOK
  <2> QED BY <2>1, <2>2 DEF TaskOwed, ChildOwed, ProvenByChild
<1>5. ASSUME NEW k \in Issue, k # i
      PROVE  /\ <<k, "task">> \in missed => <<k, "task">> \in missed'
             /\ <<k, "child">> \in missed => <<k, "child">> \in missed'
             /\ issue[k].child # None => child'[issue[k].child] = child[issue[k].child]
  BY <1>0, <1>2, <1>5 DEF markIssuePromoted, RowsOK
<1> QED BY <1>0, <1>1, <1>3, <1>4, <1>5, TaskOwedKept, ChildOwedKept, WritesStrandNothing

LEMMA SomeoneStrands == ASSUME IInv, Strandless, Someone PROVE Strandless'
BY createTaskStrands, createIssueStrands, updateIssueStatusStrands, deleteIssueStrands,
   deleteTaskStrands, deleteAcStrands, markIssuePromotedStrands DEF Someone

LEMMA ConvertCommitStrands ==
    ASSUME IInv, Strandless, NEW p \in Proc, ConvertCommit(p) PROVE Strandless'
<1>0. RowsOK /\ CallsOK
  BY TypeParts DEF IInv
<1>1. /\ pc[p] \notin Resolving /\ Go(p, "idle", Blank)
      /\ child' = child /\ summary' = summary
  BY DEF ConvertCommit, Return, results, Resolving
<1> DEFINE i == job[p].issue
<1>2. PICK t \in Task :
        /\ Unused(Task, task, t)
        /\ task' = [task EXCEPT ![t] = [status |-> "not_started", seq |-> job[p].seq,
                                        ac |-> job[p].ac]]
        /\ issue' = [k \in Issue |->
               IF k = i /\ k \in Issues
               THEN [status |-> "converted", task |-> t, child |-> issue[k].child] ELSE issue[k]]
  BY DEF ConvertCommit
<1>3. task[t].status = "none"
  <2>1. Task \subseteq Int /\ Unused(Task, task, t)
    BY <1>2, BoundsAssumption DEF Task
  <2> HIDE <1>2
  <2> QED BY <2>1, UnusedRow
<1>4. /\ \A u \in Task : u # t => task'[u] = task[u]
      /\ task'[t].status = "not_started"
  BY <1>0, <1>2 DEF RowsOK
<1>5. /\ \A k \in Issue : issue'[k] = issue[k] \/ (k = i /\ issue'[k].task = t)
      /\ \A k \in Issue : issue'[k].child = issue[k].child
  <2> SUFFICES ASSUME NEW k \in Issue
               PROVE  /\ issue'[k] = issue[k] \/ (k = i /\ issue'[k].task = t)
                      /\ issue'[k].child = issue[k].child
    OBVIOUS
  <2>1. CASE k = i /\ k \in Issues
    <3>1. issue'[k] = [status |-> "converted", task |-> t, child |-> issue[k].child]
      BY <1>2, <2>1
    <3> QED BY <2>1, <3>1
  <2>2. CASE ~(k = i /\ k \in Issues)
    BY <1>2, <2>2
  <2> QED BY <2>1, <2>2
<1>6. ASSUME NEW k \in Issue, issue[k].task # None
      PROVE  task'[issue[k].task] = task[issue[k].task]
  BY <1>0, <1>3, <1>4, <1>6 DEF RowsOK, Tasks
<1>7. ASSUME NEW k \in Issue, k # i
      PROVE  /\ <<k, "task">> \in missed => <<k, "task">> \in missed'
             /\ <<k, "child">> \in missed => <<k, "child">> \in missed'
  BY <1>7 DEF ConvertCommit
<1>8. ASSUME NEW k \in Issue, k = i, issue'[k] # issue[k]
      PROVE  ~TaskOwed(k)' /\ ~ChildOwed(k)'
  <2>1. ~TaskOwed(k)'
    BY <1>4, <1>5, <1>8 DEF TaskOwed, Complete
  <2>2. issue[k].child # None => <<k, "child">> \in missed'
    BY <1>8 DEF ConvertCommit
  <2> QED BY <1>5, <2>1, <2>2 DEF ChildOwed, ProvenByChild
<1>9. ASSUME NEW k \in Issue, k = i, issue'[k] = issue[k]
      PROVE  ~TaskOwed(k)' /\ ~ChildOwed(k)'
  <2>1. k \notin Issues \/ issue'[k].task = t
    BY <1>2, <1>9
  <2>2. k \notin Issues
    BY <1>0, <1>3, <1>9, <2>1 DEF RowsOK, Tasks, Task, None
  <2> QED BY <1>9, <2>2 DEF Issues, TaskOwed, ChildOwed
<1> HIDE DEF i
<1>10. \A k \in Issue : TaskOwed(k)' => TaskOwed(k) /\ issue'[k] = issue[k] /\ Ref(k)' = Ref(k)
  BY <1>1, <1>5, <1>6, <1>7, <1>8, <1>9, TaskOwedKept
<1>11. \A k \in Issue : ChildOwed(k)' => ChildOwed(k) /\ issue'[k].child = issue[k].child
  BY <1>1, <1>5, <1>7, <1>8, <1>9, ChildOwedKept
<1> QED BY <1>0, <1>1, <1>10, <1>11, WritesStrandNothing

LEMMA KickCommitStrands ==
    ASSUME IInv, Strandless, NEW p \in Proc, KickCommit(p) PROVE Strandless'
<1>0. RowsOK /\ CallsOK
  BY TypeParts DEF IInv
<1>1. /\ pc[p] \notin Resolving /\ Go(p, "idle", Blank)
      /\ child' = child /\ summary' = summary /\ missed' = missed
  BY DEF KickCommit, Return, results, Resolving
<1> DEFINE t == job[p].task
           kept == Unlinked(t)
<1>2. t \in Task /\ \A u \in Task : u # t => task'[u] = task[u]
  BY <1>0 DEF KickCommit, RowsOK, CallsOK, Has
<1>3. ASSUME NEW k \in Issue PROVE issue'[k] = kept[k] \/ issue'[k].status = "open"
  <2>1. DOMAIN kept = Issue
    BY DEF Unlinked
  <2>2. CASE job[p].issue # None /\ issue' = IF job[p].issue \in Issues
                          THEN [kept EXCEPT ![job[p].issue] =
                                      [status |-> "open", task |-> None, child |-> @.child]]
                          ELSE kept
    BY <2>1, <2>2
  <2>3. CASE \E i \in Issue : issue' = [kept EXCEPT ![i].status = "open"]
    <3>1. kept \in [Issue -> [status : {"none", "open", "converted", "resolved", "wont_fix", "deleted"},
                              task : Task \cup {None}, child : Child \cup {None}]]
      BY <1>0 DEF RowsOK, Unlinked
    <3> HIDE DEF kept
    <3> QED BY <2>3, <3>1
  <2> QED BY <2>2, <2>3 DEF KickCommit
<1>4. ASSUME NEW k \in Issue, issue[k].task = t
      PROVE  /\ ~TaskOwed(k)' /\ (ChildOwed(k)' => ChildOwed(k))
             /\ ChildOwed(k)' => issue'[k].child = issue[k].child
  <2>1. kept[k].task = None /\ kept[k].status = issue[k].status /\ kept[k].child = issue[k].child
    BY <1>0, <1>2, <1>4, UnlinkedRow
  <2>2. CASE issue'[k] = kept[k]
    BY <1>1, <2>1, <2>2, ChildOwedKept DEF TaskOwed, Complete
  <2>3. CASE issue'[k].status = "open"
    BY <2>3, NotOwed
  <2> QED BY <1>3, <2>2, <2>3
<1>5. ASSUME NEW k \in Issue, issue[k].task # t
      PROVE  /\ TaskOwed(k)' => TaskOwed(k) /\ issue'[k] = issue[k] /\ Ref(k)' = Ref(k)
             /\ ChildOwed(k)' => ChildOwed(k) /\ issue'[k].child = issue[k].child
  <2>1. kept[k] = issue[k] /\ (issue[k].task # None => task'[issue[k].task] = task[issue[k].task])
    BY <1>0, <1>2, <1>5, UnlinkedRow DEF RowsOK
  <2>2. CASE issue'[k] = kept[k]
    BY <1>1, <2>1, <2>2, TaskOwedKept, ChildOwedKept
  <2>3. CASE issue'[k].status = "open"
    BY <2>3, NotOwed
  <2> QED BY <1>3, <2>2, <2>3
<1> HIDE DEF t, kept
<1> QED BY <1>0, <1>1, <1>4, <1>5, WritesStrandNothing

LEMMA updateTaskStatusStrands ==
    ASSUME IInv, Strandless, NEW p \in Proc, NEW t \in Task, NEW s, updateTaskStatus(p, t, s)
    PROVE  Strandless'
<1>0. RowsOK /\ CallsOK
  BY TypeParts DEF IInv
<1>1. pc[p] \notin Resolving /\ child' = child /\ summary' = summary /\ issue' = issue
  BY DEF updateTaskStatus, Begin, results, Resolving
<1>2. /\ \A u \in Task : u # t => task'[u] = task[u]
      /\ task'[t].status = s /\ task'[t].ac = task[t].ac
  BY <1>0 DEF updateTaskStatus, RowsOK
<1> DEFINE j == [Blank EXCEPT !.task = t]
<1>3. \/ s = "complete" /\ Go(p, "task", j) /\ missed' = missed \ OfTask(t)
      \/ s # "complete" /\ UNCHANGED calls /\ UNCHANGED missed
  BY DEF updateTaskStatus
<1>4. ASSUME NEW i \in Issue, issue[i].task = t
      PROVE  TaskOwed(i)' => \E q \in Proc : LooksAtTask(q, i)'
  <2>1. CASE s = "complete"
    <3>1. pc'[p] = "task" /\ job'[p] = j
      BY <1>0, <1>3, <2>1, GoneTo
    <3>2. job'[p].task = issue'[i].task
      BY <1>1, <1>4, <3>1 DEF Blank
    <3> QED BY <3>1, <3>2 DEF LooksAtTask
  <2>2. CASE s # "complete"
    BY <1>1, <1>2, <1>4, <2>2 DEF TaskOwed, Complete
  <2> QED BY <2>1, <2>2
<1>5. \A i \in Issue : issue[i].task # t /\ <<i, "task">> \in missed => <<i, "task">> \in missed'
  BY <1>3 DEF OfTask
<1>6. \A i \in Issue : issue[i].task # t /\ issue[i].task # None
           => task'[issue[i].task] = task[issue[i].task]
  BY <1>0, <1>2 DEF RowsOK
<1>7. \A i \in Issue : <<i, "child">> \in missed => <<i, "child">> \in missed'
  BY <1>3 DEF OfTask
<1>8. \A i \in Issue : TaskOwed(i)' =>
          \/ \E q \in Proc : LooksAtTask(q, i)'
          \/ TaskOwed(i) /\ issue'[i] = issue[i] /\ Ref(i)' = Ref(i)
  BY <1>1, <1>4, <1>5, <1>6, TaskOwedKept
<1>9. \A i \in Issue : ChildOwed(i)' => ChildOwed(i) /\ issue'[i].child = issue[i].child
  BY <1>1, <1>7, ChildOwedKept
<1> HIDE DEF j
<1> QED BY <1>0, <1>1, <1>3, <1>8, <1>9, WritesStrandNothing

LEMMA ChildMovesStrands ==
    ASSUME IInv, Strandless, NEW p \in Proc, NEW c \in Child, NEW s, ChildMoves(p, c, s)
    PROVE  Strandless'
<1>0. RowsOK /\ CallsOK
  BY TypeParts DEF IInv
<1>1. pc[p] \notin Resolving /\ task' = task /\ summary' = summary /\ issue' = issue
  BY DEF ChildMoves, Begin, results, Resolving
<1>2. child'[c] = s /\ \A d \in Child : d # c => child'[d] = child[d]
  BY <1>0 DEF ChildMoves, RowsOK
<1> DEFINE j == [Blank EXCEPT !.child = c]
<1>3. \/ s = "done" /\ Go(p, "child", j) /\ missed' = missed \ OfChild(c)
      \/ s = "open" /\ UNCHANGED calls /\ UNCHANGED missed
  BY DEF ChildMoves
<1>4. ASSUME NEW i \in Issue, issue[i].child = c
      PROVE  ChildOwed(i)' => \E q \in Proc : LooksAtChild(q, i)'
  <2>1. CASE s = "done"
    <3>1. pc'[p] = "child" /\ job'[p] = j
      BY <1>0, <1>3, <2>1, GoneTo
    <3>2. job'[p].child = issue'[i].child
      BY <1>1, <1>4, <3>1 DEF Blank
    <3> QED BY <3>1, <3>2 DEF LooksAtChild
  <2>2. CASE s # "done"
    BY <1>1, <1>2, <1>4, <2>2 DEF ChildOwed, ProvenByChild
  <2> QED BY <2>1, <2>2
<1>5. \A i \in Issue : issue[i].child # c /\ <<i, "child">> \in missed => <<i, "child">> \in missed'
  BY <1>3 DEF OfChild
<1>6. \A i \in Issue : issue[i].child # c /\ issue[i].child # None
           => child'[issue[i].child] = child[issue[i].child]
  BY <1>0, <1>2 DEF RowsOK
<1>7. \A i \in Issue : <<i, "task">> \in missed => <<i, "task">> \in missed'
  BY <1>3 DEF OfChild
<1>8. \A i \in Issue : TaskOwed(i)' => TaskOwed(i) /\ issue'[i] = issue[i] /\ Ref(i)' = Ref(i)
  BY <1>1, <1>7, TaskOwedKept
<1>9. \A i \in Issue : ChildOwed(i)' =>
          \/ \E q \in Proc : LooksAtChild(q, i)'
          \/ ChildOwed(i) /\ issue'[i].child = issue[i].child
  BY <1>1, <1>4, <1>5, <1>6, ChildOwedKept
<1> HIDE DEF j
<1> QED BY <1>0, <1>1, <1>3, <1>8, <1>9, WritesStrandNothing

(* A result with the stamp of a failure never makes a criterion green.     *)
LEMMA FailTurnsNothingGreen ==
    ASSUME ResultsOK, NEW e \in Event, e.verdict = "fail",
           NEW n \in Task, summary' = applyEmissionToSummary(e), Green(n)'
    PROVE  Green(n)
<1>1. CASE summary' = summary
  BY <1>1 DEF Green, Latest
<1>2. CASE /\ summary' = [summary EXCEPT ![e.ac][e.test] = [at |-> e.at, verdict |-> e.verdict]]
           /\ e.at >= summary[e.ac][e.test].at
  <2>1. e.ac \in Task /\ e.test \in Test /\ e.at \in Nat
    BY DEF Event
  <2>2. /\ \A m \in Task, u \in Test :
             (m # e.ac \/ u # e.test) => summary'[m][u] = summary[m][u]
        /\ summary'[e.ac][e.test] = [at |-> e.at, verdict |-> "fail"]
    BY <1>2, <2>1 DEF ResultsOK
  <2>3. PICK r \in {summary'[n][u] : u \in Test} : Latest(n, r)' /\ r.verdict = "pass"
    BY DEF Green
  <2>4. PICK t \in Test : /\ r = summary'[n][t] /\ r # NoResult
                          /\ \A u \in Test : summary'[n][u].at <= r.at
    BY <2>3 DEF Latest
  <2>5. r = summary[n][t]
    BY <2>2, <2>3, <2>4
  <2>6. \A u \in Test : summary[n][u].at \in Nat
    BY BoundsAssumption DEF ResultsOK
  <2>7. \A u \in Test : summary[n][u].at <= r.at
    BY <1>2, <2>1, <2>2, <2>4, <2>5, <2>6
  <2>8. Latest(n, r) /\ r \in {summary[n][u] : u \in Test}
    BY <2>4, <2>5, <2>7 DEF Latest
  <2> QED BY <2>3, <2>8 DEF Green
<1> QED BY <1>1, <1>2 DEF applyEmissionToSummary

LEMMA EmitCommitStrands ==
    ASSUME IInv, Strandless, NEW p \in Proc, EmitCommit(p) PROVE Strandless'
<1>0. RowsOK /\ ResultsOK /\ CallsOK
  BY TypeParts DEF IInv
<1> DEFINE e == job[p].event
<1>1. /\ pc[p] \notin Resolving /\ e \in Event
      /\ issue' = issue /\ task' = task /\ child' = child
  BY <1>0 DEF EmitCommit, rows, Resolving, CallsOK, Has
<1>2. summary' = applyEmissionToSummary(e)
  BY DEF EmitCommit
<1>3. \/ e.verdict = "pass" /\ Go(p, "satisfying", job[p]) /\ missed' = missed \ OfCriterion(e.ac)
      \/ e.verdict = "fail" /\ Go(p, "idle", Blank) /\ missed' = missed
  BY <1>1 DEF EmitCommit, AfterEmission, Event, Verdict
<1>4. \A i \in Issue : Ref(i)' = Ref(i) /\ Complete(i)' = Complete(i)
  BY <1>1 DEF Ref, Complete
<1>5. \A i \in Issue : <<i, "child">> \in missed => <<i, "child">> \in missed'
  BY <1>3 DEF OfCriterion
<1> HIDE DEF e
<1>6. ASSUME NEW i \in Issue, Ref(i) = e.ac
      PROVE  TaskOwed(i)' => (\E q \in Proc : LooksAtTask(q, i)') \/ TaskOwed(i)
  <2>1. CASE e.verdict = "pass"
    <3>1. pc'[p] = "satisfying" /\ job'[p].event.ac = Ref(i)' /\ Ref(i)' # None
      BY <1>0, <1>1, <1>3, <1>4, <1>6, <2>1, GoneTo DEF e, Event, Task, None
    <3> QED BY <3>1 DEF LooksAtTask
  <2>2. CASE e.verdict = "fail"
    <3>1. Ref(i) \in Task
      BY <1>1, <1>6 DEF Event
    <3>2. Green(Ref(i))' => Green(Ref(i))
      <4>1. PICK n \in Task : n = Ref(i) /\ n = Ref(i)'
        BY <1>4, <3>1
      <4>2. Green(n)' => Green(n)
        BY <1>0, <1>1, <1>2, <2>2, FailTurnsNothingGreen
      <4> QED BY <4>1, <4>2 DEF Green, Latest
    <3> QED BY <1>1, <1>3, <1>4, <2>2, <3>2 DEF TaskOwed
  <2> QED BY <1>1, <2>1, <2>2 DEF Event, Verdict
<1>7. ASSUME NEW i \in Issue, Ref(i) # e.ac PROVE TaskOwed(i)' => TaskOwed(i)
  <2>1. <<i, "task">> \in missed => <<i, "task">> \in missed'
    BY <1>3, <1>7 DEF OfCriterion
  <2>2. Ref(i) # None => Ref(i) \in Task
    BY <1>0 DEF Ref, RowsOK
  <2>3. Ref(i) # None => summary'[Ref(i)] = summary[Ref(i)]
    BY <1>0, <1>1, <1>2, <1>7, <2>2 DEF applyEmissionToSummary, Event, ResultsOK
  <2> QED BY <1>1, <2>1, <2>3, TaskOwedKept
<1>8. \A i \in Issue : ChildOwed(i)' => ChildOwed(i) /\ issue'[i].child = issue[i].child
  BY <1>1, <1>5, ChildOwedKept
<1>9. \A i \in Issue : TaskOwed(i)' =>
          \/ \E q \in Proc : LooksAtTask(q, i)'
          \/ TaskOwed(i) /\ issue'[i] = issue[i] /\ Ref(i)' = Ref(i)
  BY <1>1, <1>4, <1>6, <1>7
<1> QED BY <1>0, <1>1, <1>3, <1>8, <1>9, WritesStrandNothing

LEMMA EmitBeginStrands ==
    ASSUME IInv, Strandless, NEW p \in Proc, NEW n, NEW t, NEW v, EmitBegin(p, n, t, v)
    PROVE  Strandless'
<1>0. CallsOK
  BY DEF IInv
<1>1. /\ pc[p] \notin Resolving /\ \E l, j : Go(p, l, j)
      /\ UNCHANGED <<issue, task, child, summary, missed>>
  BY DEF EmitBegin, Begin, rows, Resolving
<1> QED BY <1>0, <1>1, TaskOwedKept, ChildOwedKept, WritesStrandNothing

LEMMA RetireCommitStrands ==
    ASSUME IInv, Strandless, NEW p \in Proc, RetireCommit(p) PROVE Strandless'
<1>0. RowsOK /\ ResultsOK /\ CallsOK
  BY TypeParts DEF IInv
<1> DEFINE n == job[p].ac
<1>1. /\ pc[p] \notin Resolving /\ Go(p, "idle", Blank)
      /\ issue' = issue /\ task' = task /\ child' = child
  BY DEF RetireCommit, Return, rows, Resolving
<1>2. missed' = missed \cup OfCriterion(n)
  BY DEF RetireCommit
<1>3. \A m \in Task : m # n => summary'[m] = summary[m]
  BY <1>0 DEF RetireCommit, ResultsOK
<1>4. \A i \in Issue : Ref(i) # None => Ref(i) \in Task
  BY <1>0 DEF Ref, RowsOK
<1>5. \A i \in Issue : Ref(i) = n => ~TaskOwed(i)'
  BY <1>2 DEF TaskOwed, OfCriterion
<1> HIDE DEF n
<1>6. \A i \in Issue : TaskOwed(i)' => TaskOwed(i) /\ issue'[i] = issue[i] /\ Ref(i)' = Ref(i)
  BY <1>1, <1>2, <1>3, <1>4, <1>5, TaskOwedKept
<1>7. \A i \in Issue : ChildOwed(i)' => ChildOwed(i) /\ issue'[i].child = issue[i].child
  BY <1>1, <1>2, ChildOwedKept
<1> QED BY <1>0, <1>1, <1>6, <1>7, WritesStrandNothing

(* A statement of a call that is not resolving and writes nothing.         *)
LEMMA IdleReads ==
    ASSUME CallsOK, Strandless, NEW p \in Proc, pc[p] \notin Resolving, NEW l, NEW j,
           Go(p, l, j), UNCHANGED rows, UNCHANGED results, UNCHANGED missed
    PROVE  Strandless'
BY NotLooking, ReadsStrandNothing

LEMMA ConvertReadsStrand ==
    ASSUME IInv, Strandless, NEW p \in Proc,
           \/ \E i \in Issue : ConvertCheck(p, i)
           \/ ConvertNumbers(p) \/ ConvertRefused(p)
    PROVE  Strandless'
<1>0. CallsOK
  BY DEF IInv
<1>1. /\ pc[p] \notin Resolving /\ \E l, j : Go(p, l, j)
      /\ UNCHANGED rows /\ UNCHANGED results /\ UNCHANGED missed
  BY DEF ConvertCheck, ConvertNumbers, ConvertRefused, Begin, Return, Resolving
<1> QED BY <1>0, <1>1, IdleReads

LEMMA KickReadsStrand ==
    ASSUME IInv, Strandless, NEW p \in Proc, (\E t \in Task : KickTask(p, t)) \/ KickOrigin(p)
    PROVE  Strandless'
<1>0. CallsOK
  BY DEF IInv
<1>1. /\ pc[p] \notin Resolving /\ \E l, j : Go(p, l, j)
      /\ UNCHANGED rows /\ UNCHANGED results /\ UNCHANGED missed
  BY DEF KickTask, KickOrigin, Begin, Resolving
<1> QED BY <1>0, <1>1, IdleReads

LEMMA RetireRowsStrands ==
    ASSUME IInv, Strandless, NEW p \in Proc, NEW n, NEW t, RetireRows(p, n, t) PROVE Strandless'
<1>0. CallsOK
  BY DEF IInv
<1>1. /\ pc[p] \notin Resolving /\ \E l, j : Go(p, l, j)
      /\ UNCHANGED rows /\ UNCHANGED results /\ UNCHANGED missed
  BY DEF RetireRows, Resolving
<1> QED BY <1>0, <1>1, IdleReads

(* The criterion of the result belongs to one task, the issue's own.       *)
LEMMA ReadSatisfyingStrands ==
    ASSUME IInv, Strandless, NEW p \in Proc, ReadSatisfying(p) PROVE Strandless'
<1>0. RowsOK /\ CallsOK
  BY TypeParts DEF IInv
<1>1. pc[p] = "satisfying" /\ UNCHANGED rows /\ UNCHANGED results /\ UNCHANGED missed
  BY DEF ReadSatisfying
<1>2. \A i \in Issue : ~LooksAtChild(p, i)
  BY <1>1 DEF LooksAtChild
<1> DEFINE S == {t \in Tasks : task[t].ac = job[p].event.ac}
<1>3. ASSUME NEW i \in Issue, TaskOwed(i), LooksAtTask(p, i)
      PROVE  issue[i].task \in S /\ S = {issue[i].task}
  <2>1. Ref(i) # None /\ job[p].event.ac = Ref(i)
    BY <1>1, <1>3 DEF LooksAtTask
  <2>2. issue[i].task \in Tasks /\ task[issue[i].task].ac = Ref(i)
    BY <1>0, <2>1 DEF RowsOK, Ref
  <2> QED BY <1>0, <2>1, <2>2 DEF RowsOK
<1>4. PICK l, j : /\ Go(p, l, j)
                 /\ \/ S = {}
                    \/ l = "task" /\ \E t \in S : j = [Blank EXCEPT !.task = t]
  BY DEF ReadSatisfying, Return
<1>5. ASSUME NEW i \in Issue, TaskOwed(i), LooksAtTask(p, i) PROVE LooksAtTask(p, i)'
  <2>1. l = "task" /\ j.task = issue[i].task
    BY <1>3, <1>4, <1>5 DEF Blank
  <2>2. pc'[p] = "task" /\ job'[p].task = issue'[i].task
    BY <1>0, <1>1, <1>4, <2>1, GoneTo DEF rows
  <2> QED BY <2>2 DEF LooksAtTask
<1> HIDE DEF S
<1> QED BY <1>0, <1>1, <1>2, <1>4, <1>5, ReadsStrandNothing

LEMMA ReadTaskStrands == ASSUME IInv, Strandless, NEW p \in Proc, ReadTask(p) PROVE Strandless'
<1>0. RowsOK /\ CallsOK
  BY TypeParts DEF IInv
<1>1. pc[p] = "task" /\ UNCHANGED rows /\ UNCHANGED results /\ UNCHANGED missed
  BY DEF ReadTask
<1>2. \A i \in Issue : ~LooksAtChild(p, i)
  BY <1>1 DEF LooksAtChild
<1>3. ASSUME NEW i \in Issue, TaskOwed(i), LooksAtTask(p, i) PROVE LooksAtTask(p, i)'
  <2>1. job[p].task = issue[i].task
    BY <1>1, <1>3 DEF LooksAtTask
  <2>2. job[p].task \in Tasks /\ task[job[p].task].status = "complete"
    BY <1>0, <1>3, <2>1 DEF TaskOwed, Complete, RowsOK
  <2>3. Go(p, "issues", job[p])
    BY <2>2 DEF ReadTask
  <2>4. pc'[p] = "issues" /\ job'[p].task = issue'[i].task
    BY <1>0, <1>1, <2>1, <2>3, GoneTo DEF rows
  <2> QED BY <2>4 DEF LooksAtTask
<1>4. \E l, j : Go(p, l, j)
  BY DEF ReadTask, Return
<1> QED BY <1>0, <1>1, <1>2, <1>3, <1>4, ReadsStrandNothing

LEMMA ReadIssuesStrands ==
    ASSUME IInv, Strandless, NEW p \in Proc, ReadIssues(p) PROVE Strandless'
<1>0. CallsOK /\ job[p] \in Job
  BY DEF IInv, CallsOK
<1>1. pc[p] = "issues" /\ UNCHANGED rows /\ UNCHANGED results /\ UNCHANGED missed
  BY DEF ReadIssues
<1>2. \A i \in Issue : ~LooksAtChild(p, i)
  BY <1>1 DEF LooksAtChild
<1> DEFINE S == Candidates(job[p].task)
           j == [job[p] EXCEPT !.todo = S]
<1>3. ASSUME NEW i \in Issue, TaskOwed(i), LooksAtTask(p, i) PROVE LooksAtTask(p, i)'
  <2>1. job[p].task = issue[i].task /\ i \in S
    BY <1>1, <1>3 DEF LooksAtTask, TaskOwed, Candidates, Origins
  <2>2. Go(p, "links", j)
    BY <2>1 DEF ReadIssues
  <2>3. j.task = job[p].task /\ j.todo = S
    BY <1>0 DEF Job
  <2>4. pc'[p] = "links" /\ job'[p] = j
    BY <1>0, <2>2, GoneTo
  <2>5. pc'[p] = "links" /\ job'[p].task = issue'[i].task /\ i \in job'[p].todo
    BY <1>1, <2>1, <2>3, <2>4 DEF rows
  <2> QED BY <2>5 DEF LooksAtTask
<1>4. \E l, k : Go(p, l, k)
  BY DEF ReadIssues, Return
<1> HIDE DEF S, j
<1> QED BY <1>0, <1>1, <1>2, <1>3, <1>4, ReadsStrandNothing

LEMMA ReadLinksStrands ==
    ASSUME IInv, Strandless, NEW p \in Proc, ReadLinks(p) PROVE Strandless'
<1>0. CallsOK /\ job[p] \in Job
  BY DEF IInv, CallsOK
<1>1. pc[p] = "links" /\ UNCHANGED rows /\ UNCHANGED results /\ UNCHANGED missed
  BY DEF ReadLinks
<1>2. \A i \in Issue : ~LooksAtChild(p, i)
  BY <1>1 DEF LooksAtChild
<1> DEFINE n == task[job[p].task].ac
           j == [job[p] EXCEPT !.ac = n]
<1>3. ASSUME NEW i \in Issue, TaskOwed(i), LooksAtTask(p, i) PROVE LooksAtTask(p, i)'
  <2>1. job[p].task = issue[i].task /\ i \in job[p].todo
    BY <1>1, <1>3 DEF LooksAtTask
  <2>2. n = Ref(i) /\ n # None
    BY <1>3, <2>1 DEF TaskOwed, Ref
  <2>3. Go(p, "latest", j)
    BY <2>2 DEF ReadLinks
  <2>4. j.ac = n /\ j.todo = job[p].todo
    BY <1>0 DEF Job
  <2>5. pc'[p] = "latest" /\ job'[p] = j
    BY <1>0, <2>3, GoneTo
  <2>6. Ref(i)' = Ref(i)
    BY <1>1 DEF rows, Ref
  <2>7. pc'[p] = "latest" /\ job'[p].ac = Ref(i)' /\ i \in job'[p].todo
    BY <2>1, <2>2, <2>4, <2>5, <2>6
  <2> QED BY <2>7 DEF LooksAtTask
<1>4. \E l, k : Go(p, l, k)
  BY DEF ReadLinks, Return
<1> HIDE DEF n, j
<1> QED BY <1>0, <1>1, <1>2, <1>3, <1>4, ReadsStrandNothing

LEMMA ReadLatestStrands ==
    ASSUME IInv, Strandless, NEW p \in Proc, ReadLatest(p) PROVE Strandless'
<1>0. CallsOK
  BY DEF IInv
<1>1. pc[p] = "latest" /\ UNCHANGED rows /\ UNCHANGED results /\ UNCHANGED missed
  BY DEF ReadLatest
<1>2. \A i \in Issue : ~LooksAtChild(p, i)
  BY <1>1 DEF LooksAtChild
<1>3. ASSUME NEW i \in Issue, TaskOwed(i), LooksAtTask(p, i) PROVE LooksAtTask(p, i)'
  <2>1. job[p].ac = Ref(i) /\ i \in job[p].todo
    BY <1>1, <1>3 DEF LooksAtTask
  <2>2. Go(p, "resolve", job[p])
    BY <1>3, <2>1 DEF ReadLatest, TaskOwed
  <2>3. pc'[p] = "resolve" /\ i \in job'[p].todo
    BY <1>0, <2>1, <2>2, GoneTo
  <2> QED BY <2>3 DEF LooksAtTask
<1>4. \E l, j : Go(p, l, j)
  BY DEF ReadLatest, Return
<1> QED BY <1>0, <1>1, <1>2, <1>3, <1>4, ReadsStrandNothing

LEMMA ReadChildStrands ==
    ASSUME IInv, Strandless, NEW p \in Proc, ReadChild(p) PROVE Strandless'
<1>0. CallsOK
  BY DEF IInv
<1>1. pc[p] = "child" /\ UNCHANGED rows /\ UNCHANGED results /\ UNCHANGED missed
  BY DEF ReadChild
<1>2. \A i \in Issue : ~LooksAtTask(p, i)
  BY <1>1 DEF LooksAtTask
<1>3. ASSUME NEW i \in Issue, ChildOwed(i), LooksAtChild(p, i) PROVE LooksAtChild(p, i)'
  <2>1. job[p].child = issue[i].child /\ child[job[p].child] = "done"
    BY <1>1, <1>3 DEF LooksAtChild, ChildOwed, ProvenByChild
  <2>2. Go(p, "promoted", job[p])
    BY <2>1 DEF ReadChild
  <2>3. pc'[p] = "promoted" /\ job'[p].child = issue'[i].child
    BY <1>0, <1>1, <2>1, <2>2, GoneTo DEF rows
  <2> QED BY <2>3 DEF LooksAtChild
<1>4. \E l, j : Go(p, l, j)
  BY DEF ReadChild, Return
<1> QED BY <1>0, <1>1, <1>2, <1>3, <1>4, ReadsStrandNothing

LEMMA ReadPromotedStrands ==
    ASSUME IInv, Strandless, NEW p \in Proc, ReadPromoted(p) PROVE Strandless'
<1>0. CallsOK /\ job[p] \in Job
  BY DEF IInv, CallsOK
<1>1. pc[p] = "promoted" /\ UNCHANGED rows /\ UNCHANGED results /\ UNCHANGED missed
  BY DEF ReadPromoted
<1>2. \A i \in Issue : ~LooksAtTask(p, i)
  BY <1>1 DEF LooksAtTask
<1> DEFINE S == {i \in Issue : issue[i].child = job[p].child /\ issue[i].status = "converted"}
           j == [job[p] EXCEPT !.todo = S]
<1>3. ASSUME NEW i \in Issue, ChildOwed(i), LooksAtChild(p, i) PROVE LooksAtChild(p, i)'
  <2>1. i \in S
    BY <1>1, <1>3 DEF LooksAtChild, ChildOwed
  <2>2. Go(p, "resolve", j)
    BY <2>1 DEF ReadPromoted
  <2>3. pc'[p] = "resolve" /\ job'[p] = j
    BY <1>0, <2>2, GoneTo
  <2>4. j.todo = S
    BY <1>0 DEF Job
  <2> QED BY <2>1, <2>3, <2>4 DEF LooksAtChild
<1>4. \E l, k : Go(p, l, k)
  BY DEF ReadPromoted, Return
<1> HIDE DEF S, j
<1> QED BY <1>0, <1>1, <1>2, <1>3, <1>4, ReadsStrandNothing

(* A lost call accounts for what it was looking at.                        *)
LEMMA FailStrands == ASSUME IInv, Strandless, NEW p \in Proc, Fail(p) PROVE Strandless'
<1>0. CallsOK
  BY DEF IInv
<1>1. /\ UNCHANGED rows /\ UNCHANGED results /\ missed \subseteq missed'
      /\ Go(p, "idle", Blank)
  BY DEF Fail, Return
<1>2. ASSUME NEW i \in Issue
      PROVE  /\ LooksAtTask(p, i) => ~TaskOwed(i)'
             /\ LooksAtChild(p, i) => ~ChildOwed(i)'
  BY DEF Fail, TaskOwed, ChildOwed
<1> QED BY <1>0, <1>1, <1>2, ReadsStrandNothing

LEMMA ResolveOneStrands ==
    ASSUME IInv, Strandless, NEW p \in Proc, NEW i \in Issue, ResolveOne(p, i) PROVE Strandless'
<1>0. RowsOK /\ CallsOK /\ job[p] \in Job
  BY TypeParts DEF IInv, CallsOK
<1>1. /\ pc[p] = "resolve" /\ i \in job[p].todo
      /\ task' = task /\ child' = child /\ summary' = summary /\ missed' = missed
  BY DEF ResolveOne, results
<1>2. issue'[i].status # "converted" /\ \A k \in Issue : k # i => issue'[k] = issue[k]
  BY <1>0 DEF ResolveOne, RowsOK
<1> DEFINE j == [job[p] EXCEPT !.todo = job[p].todo \ {i}]
<1>3. \/ job[p].todo = {i} /\ Go(p, "idle", Blank)
      \/ Go(p, "resolve", j)
  BY DEF ResolveOne, Return
<1>4. j.todo = job[p].todo \ {i}
  BY <1>0 DEF Job
<1> HIDE DEF j
<1>5. ASSUME NEW k \in Issue, k # i, LooksAtTask(p, k) \/ LooksAtChild(p, k)
      PROVE  LooksAtTask(p, k)' /\ LooksAtChild(p, k)'
  <2>1. k \in job[p].todo /\ job[p].todo # {i}
    BY <1>1, <1>5 DEF LooksAtTask, LooksAtChild
  <2>2. pc'[p] = "resolve" /\ job'[p] = j
    BY <1>0, <1>3, <2>1, GoneTo
  <2> QED BY <1>4, <1>5, <2>1, <2>2 DEF LooksAtTask, LooksAtChild
<1>6. ASSUME NEW q \in Proc, q # p PROVE pc'[q] = pc[q] /\ job'[q] = job[q]
  BY <1>0, <1>3, <1>6, OthersStay
<1> SUFFICES ASSUME NEW k \in Issue
             PROVE  /\ TaskOwed(k)' => \E q \in Proc : LooksAtTask(q, k)'
                    /\ ChildOwed(k)' => \E q \in Proc : LooksAtChild(q, k)'
  BY DEF Strandless
<1>7. CASE k = i
  BY <1>2, <1>7, NotOwed
<1>8. CASE k # i
  <2>1. issue'[k] = issue[k] /\ Ref(k)' = Ref(k)
    BY <1>1, <1>2, <1>8 DEF Ref
  <2>2. TaskOwed(k)' => TaskOwed(k)
    BY <1>1, <2>1, TaskOwedKept
  <2>3. ChildOwed(k)' => ChildOwed(k)
    BY <1>1, <2>1, ChildOwedKept
  <2>4. ASSUME TaskOwed(k)' PROVE \E q \in Proc : LooksAtTask(q, k)'
    <3>1. PICK q \in Proc : LooksAtTask(q, k)
      BY <2>2, <2>4 DEF Strandless
    <3>2. CASE q = p
      <4>1. LooksAtTask(p, k)
        BY <3>1, <3>2
      <4> QED BY <1>5, <1>8, <4>1
    <3>3. CASE q # p
      BY <1>6, <2>1, <3>1, <3>3, StillLooks
    <3> QED BY <3>2, <3>3
  <2>5. ASSUME ChildOwed(k)' PROVE \E q \in Proc : LooksAtChild(q, k)'
    <3>1. PICK q \in Proc : LooksAtChild(q, k)
      BY <2>3, <2>5 DEF Strandless
    <3>2. CASE q = p
      <4>1. LooksAtChild(p, k)
        BY <3>1, <3>2
      <4> QED BY <1>5, <1>8, <4>1
    <3>3. CASE q # p
      BY <1>6, <2>1, <3>1, <3>3, StillLooks
    <3> QED BY <3>2, <3>3
  <2> QED BY <2>4, <2>5
<1> QED BY <1>7, <1>8

LEMMA StepStrands == ASSUME IInv, Strandless, NEW p \in Proc, Step(p) PROVE Strandless'
<1>1. CASE Converts(p)
  BY <1>1, ConvertReadsStrand, ConvertCommitStrands DEF Converts
<1>2. CASE Kicks(p)
  BY <1>2, KickReadsStrand, KickCommitStrands DEF Kicks
<1>3. CASE Emits(p)
  BY <1>3, EmitBeginStrands, EmitCommitStrands, ReadSatisfyingStrands DEF Emits
<1>4. CASE Completes(p)
  BY <1>4, updateTaskStatusStrands DEF Completes
<1>5. CASE Moves(p)
  BY <1>5, ChildMovesStrands, ReadChildStrands, ReadPromotedStrands DEF Moves
<1>6. CASE Resolves(p)
  BY <1>6, ReadTaskStrands, ReadIssuesStrands, ReadLinksStrands, ReadLatestStrands,
     ResolveOneStrands DEF Resolves
<1>7. CASE Retires(p)
  BY <1>7, RetireRowsStrands, RetireCommitStrands DEF Retires
<1>8. CASE Fail(p)
  BY <1>8, FailStrands
<1> QED BY <1>1, <1>2, <1>3, <1>4, <1>5, <1>6, <1>7, <1>8, Zenon DEF Step

LEMMA StutterStrands == ASSUME Strandless, UNCHANGED vars PROVE Strandless'
<1>1. UNCHANGED calls /\ UNCHANGED rows /\ UNCHANGED results /\ missed' = missed
  BY DEF vars, history
<1>2. /\ pc' = pc /\ job' = job
      /\ UNCHANGED <<issue, task, child, summary>>
  BY <1>1 DEF calls, rows, results
<1>3. ASSUME NEW i \in Issue
      PROVE  Ref(i)' = Ref(i) /\ (TaskOwed(i)' => TaskOwed(i)) /\ (ChildOwed(i)' => ChildOwed(i))
  BY <1>1, <1>2, TaskOwedKept, ChildOwedKept
<1>4. ASSUME NEW i \in Issue, NEW q \in Proc
      PROVE  /\ LooksAtTask(q, i) => LooksAtTask(q, i)'
             /\ LooksAtChild(q, i) => LooksAtChild(q, i)'
  BY <1>2, <1>3, StillLooks
<1> QED BY <1>3, <1>4 DEF Strandless

(* Evidence that arrives in two halves, from two calls, in any order, is   *)
(* always seen by one of them: whatever overlaps, an issue that ought to   *)
(* be closed has a call on its way to close it, unless that call was lost. *)
THEOREM Unstranded == Spec => []NothingStranded
<1>1. Init => Strandless
  BY DEF Init, Strandless, TaskOwed, ChildOwed
<1>2. IInv /\ Strandless /\ [Next]_vars => Strandless'
  BY SomeoneStrands, StepStrands, StutterStrands DEF Next
<1>3. Strandless => NothingStranded
  BY Stranding DEF Strandless
<1> QED BY InitTyped, NextTyped, <1>1, <1>2, <1>3, PTL DEF Spec
-----------------------------------------------------------------------------
(* The summary agrees with the log.                                        *)

(* The summary row of a test is the newest of its results in the log.      *)
Agrees(n, t) ==
    /\ \A e \in log : e.ac = n /\ e.test = t => e.at <= summary[n][t].at
    /\ summary[n][t] # NoResult => \E e \in log :
           e.ac = n /\ e.test = t /\ e.at = summary[n][t].at /\ e.verdict = summary[n][t].verdict

SummaryAgrees ==
    /\ \A n \in Task : n \notin torn => \A t \in Test : Agrees(n, t)
    /\ \A p \in Proc : pc[p] = "retire" =>
           \A e \in job[p].seen : e.ac = job[p].ac /\ e.test = job[p].test

LEMMA GreenPasses ==
    ASSUME IInv, SummaryAgrees, NEW n \in Task, n \notin torn, Green(n)
    PROVE  \E e \in NewestOf(n) : e.verdict = "pass"
<1>0. ResultsOK
  BY TypeParts DEF IInv
<1>1. PICK t \in Test : /\ summary[n][t] # NoResult /\ summary[n][t].verdict = "pass"
                        /\ \A u \in Test : summary[n][u].at <= summary[n][t].at
  BY DEF Green, Latest
<1>2. PICK e \in log : /\ e.ac = n /\ e.test = t
                       /\ e.at = summary[n][t].at /\ e.verdict = summary[n][t].verdict
  BY <1>1 DEF SummaryAgrees, Agrees
<1>3. ASSUME NEW f \in log, f.ac = n PROVE f.at <= e.at
  <2>1. f \in Event /\ e \in Event
    BY <1>0 DEF ResultsOK
  <2>2. f.test \in Test /\ f.at \in Int /\ e.at \in Int
    BY <2>1, BoundsAssumption DEF Event
  <2>3. f.at <= summary[n][f.test].at
    BY <1>3, <2>2 DEF SummaryAgrees, Agrees
  <2>4. summary[n][f.test].at \in Int
    BY <1>0, <2>2, BoundsAssumption DEF ResultsOK
  <2> QED BY <1>1, <1>2, <2>2, <2>3, <2>4
<1> QED BY <1>1, <1>2, <1>3 DEF NewestOf

(* Steps that leave the results alone, and begin no retirement.            *)
LEMMA AgreementKept ==
    ASSUME SummaryAgrees, log' = log, summary' = summary, torn' = torn,
           \A p \in Proc : pc'[p] = "retire" => pc'[p] = pc[p] /\ job'[p] = job[p]
    PROVE  SummaryAgrees'
BY DEF SummaryAgrees, Agrees

LEMMA EmitCommitAgrees ==
    ASSUME IInv, SummaryAgrees, NEW p \in Proc, EmitCommit(p) PROVE SummaryAgrees'
<1>0. ResultsOK /\ CallsOK
  BY TypeParts DEF IInv
<1> DEFINE e == job[p].event
<1>1. e \in Event
  BY <1>0 DEF EmitCommit, CallsOK, Has
<1>2. /\ e.ac \in Task /\ e.test \in Test /\ e.at \in Int /\ e.at > 0 /\ e.verdict \in Verdict
  BY <1>1, BoundsAssumption DEF Event
<1>3. log' = log \cup {e} /\ summary' = applyEmissionToSummary(e) /\ torn' = torn
  BY DEF EmitCommit
<1> HIDE DEF e
<1>4. \A n \in Task, t \in Test : n # e.ac \/ t # e.test => summary'[n][t] = summary[n][t]
  BY <1>0, <1>2, <1>3 DEF applyEmissionToSummary, ResultsOK
<1>5. summary'[e.ac][e.test] =
        IF e.at >= summary[e.ac][e.test].at THEN [at |-> e.at, verdict |-> e.verdict]
        ELSE summary[e.ac][e.test]
  BY <1>0, <1>2, <1>3 DEF applyEmissionToSummary, ResultsOK
<1>6. \A n \in Task, t \in Test : summary[n][t].at \in Int
  BY <1>0, BoundsAssumption DEF ResultsOK
<1>7. \A f \in log : f.at \in Int
  BY <1>0, BoundsAssumption DEF ResultsOK, Event
<1>8. ASSUME NEW n \in Task, n \notin torn, NEW t \in Test PROVE Agrees(n, t)'
  <2>1. Agrees(n, t)
    BY <1>8 DEF SummaryAgrees
  <2>2. CASE n # e.ac \/ t # e.test
    BY <1>3, <1>4, <2>1, <2>2 DEF Agrees
  <2>3. CASE n = e.ac /\ t = e.test /\ e.at >= summary[n][t].at
    BY <1>2, <1>3, <1>5, <1>6, <1>7, <2>1, <2>3 DEF Agrees
  <2>4. CASE n = e.ac /\ t = e.test /\ ~(e.at >= summary[n][t].at)
    BY <1>2, <1>3, <1>5, <1>6, <1>7, <2>1, <2>4 DEF Agrees
  <2> QED BY <2>2, <2>3, <2>4
<1>9. \A q \in Proc : pc'[q] = "retire" => pc'[q] = pc[q] /\ job'[q] = job[q]
  BY <1>0, OthersStay, GoneTo DEF EmitCommit, AfterEmission
<1> QED BY <1>3, <1>8, <1>9 DEF SummaryAgrees

LEMMA RetireRowsAgrees ==
    ASSUME IInv, SummaryAgrees, NEW p \in Proc, NEW n \in Task, NEW t \in Test, RetireRows(p, n, t)
    PROVE  SummaryAgrees'
<1>0. CallsOK
  BY DEF IInv
<1> DEFINE S == {e \in log : e.ac = n /\ e.test = t}
           j == [Blank EXCEPT !.ac = n, !.test = t, !.seen = S]
<1>1. Go(p, "retire", j) /\ log' = log /\ summary' = summary /\ torn' = torn
  BY DEF RetireRows, results
<1>2. j.ac = n /\ j.test = t /\ j.seen = S
  BY DEF Blank
<1>3. ASSUME NEW q \in Proc, pc'[q] = "retire", NEW e \in job'[q].seen
      PROVE  e.ac = job'[q].ac /\ e.test = job'[q].test
  <2>1. CASE q = p
    BY <1>0, <1>1, <1>2, <1>3, <2>1, GoneTo
  <2>2. CASE q # p
    BY <1>0, <1>1, <1>3, <2>2, OthersStay DEF SummaryAgrees
  <2> QED BY <2>1, <2>2
<1> QED BY <1>1, <1>3 DEF SummaryAgrees, Agrees

LEMMA RetireCommitAgrees ==
    ASSUME IInv, SummaryAgrees, NEW p \in Proc, RetireCommit(p) PROVE SummaryAgrees'
<1>0. ResultsOK /\ CallsOK
  BY TypeParts DEF IInv
<1> DEFINE n == job[p].ac
           t == job[p].test
<1>1. n \in Task /\ t \in Test
  BY <1>0 DEF RetireCommit, CallsOK, Has
<1>2. \A e \in job[p].seen : e.ac = n /\ e.test = t
  BY DEF SummaryAgrees, RetireCommit
<1>3. /\ log' = log \ job[p].seen
      /\ summary' = [summary EXCEPT ![n][t] = NoResult]
      /\ torn' = IF \E e \in log' : e.ac = n /\ e.test = t THEN torn \cup {n} ELSE torn
  BY DEF RetireCommit
<1> HIDE DEF n, t
<1>4. /\ \A m \in Task, u \in Test : m # n \/ u # t => summary'[m][u] = summary[m][u]
      /\ summary'[n][t] = NoResult
  BY <1>0, <1>1, <1>3 DEF ResultsOK
<1>5. ASSUME NEW m \in Task, m \notin torn', NEW u \in Test PROVE Agrees(m, u)'
  <2>1. Agrees(m, u)
    BY <1>3, <1>5 DEF SummaryAgrees
  <2>2. CASE m # n \/ u # t
    BY <1>2, <1>3, <1>4, <2>1, <2>2 DEF Agrees
  <2>3. CASE m = n /\ u = t
    <3>1. \A e \in log' : ~(e.ac = n /\ e.test = t)
      BY <1>3, <1>5, <2>3
    <3> QED BY <1>4, <2>3, <3>1 DEF Agrees
  <2> QED BY <2>2, <2>3
<1>6. \A q \in Proc : pc'[q] = "retire" => pc'[q] = pc[q] /\ job'[q] = job[q]
  BY <1>0, OthersStay, GoneTo DEF RetireCommit, Return
<1> QED BY <1>5, <1>6 DEF SummaryAgrees

LEMMA AgreementStep == ASSUME IInv, SummaryAgrees, [Next]_vars PROVE SummaryAgrees'
<1>0. CallsOK
  BY DEF IInv
<1>1. CASE Someone
  <2>1. UNCHANGED <<results, calls, torn>>
    BY <1>1 DEF Someone, createTask, createIssue, updateIssueStatus, deleteIssue, deleteTask,
                deleteAc, markIssuePromoted
  <2> QED BY <2>1, AgreementKept DEF results, calls
<1>2. CASE UNCHANGED vars
  BY <1>2, AgreementKept DEF vars, results, calls, history
<1>3. ASSUME NEW p \in Proc, NEW l, l # "retire", NEW j, Go(p, l, j),
             log' = log, summary' = summary, torn' = torn
      PROVE  SummaryAgrees'
  <2>1. \A q \in Proc : pc'[q] = "retire" => pc'[q] = pc[q] /\ job'[q] = job[q]
    BY <1>0, <1>3, OthersStay, GoneTo
  <2> QED BY <1>3, <2>1, AgreementKept
<1>4. ASSUME NEW p \in Proc, UNCHANGED calls, log' = log, summary' = summary, torn' = torn
      PROVE  SummaryAgrees'
  BY <1>4, AgreementKept DEF calls
<1>5. ASSUME NEW p \in Proc, Converts(p) PROVE SummaryAgrees'
  BY <1>3, <1>5 DEF Converts, ConvertCheck, ConvertNumbers, ConvertCommit, ConvertRefused,
                    Return, results
<1>6. ASSUME NEW p \in Proc, Kicks(p) PROVE SummaryAgrees'
  BY <1>3, <1>6 DEF Kicks, KickTask, KickOrigin, KickCommit, Return, results
<1>7. ASSUME NEW p \in Proc, Emits(p) PROVE SummaryAgrees'
  BY <1>3, <1>7, EmitCommitAgrees DEF Emits, EmitBegin, ReadSatisfying, Return, results
<1>8. ASSUME NEW p \in Proc, Completes(p) PROVE SummaryAgrees'
  BY <1>3, <1>4, <1>8 DEF Completes, updateTaskStatus, results
<1>9. ASSUME NEW p \in Proc, Moves(p) PROVE SummaryAgrees'
  BY <1>3, <1>4, <1>9 DEF Moves, ChildMoves, ReadChild, ReadPromoted, Return, results
<1>10. ASSUME NEW p \in Proc, Resolves(p) PROVE SummaryAgrees'
  BY <1>3, <1>10 DEF Resolves, ReadTask, ReadIssues, ReadLinks, ReadLatest, ResolveOne, Return,
                     results
<1>11. ASSUME NEW p \in Proc, Retires(p) PROVE SummaryAgrees'
  BY <1>11, RetireRowsAgrees, RetireCommitAgrees DEF Retires
<1>12. ASSUME NEW p \in Proc, Fail(p) PROVE SummaryAgrees'
  BY <1>3, <1>12 DEF Fail, Return, results
<1> QED BY <1>1, <1>2, <1>5, <1>6, <1>7, <1>8, <1>9, <1>10, <1>11, <1>12 DEF Next, Step

-----------------------------------------------------------------------------
(* What a call has seen still holds, unless others overtook it.            *)

(* What makes closing i right, as far as the log and the rows go.          *)
Justified(i) ==
    \/ Complete(i) /\ (Ref(i) \notin torn => Passing(i))
    \/ ProvenByChild(i)

SeenOf(label, j, lost) == \A i \in Issue \ lost :
    /\ label = "issues" /\ issue[i].task = j.task => Complete(i)
    /\ label \in {"links", "latest"} /\ i \in j.todo => issue[i].task = j.task /\ Complete(i)
    /\ label = "latest" /\ i \in j.todo => Ref(i) = j.ac
    /\ label = "promoted" /\ issue[i].child = j.child => ProvenByChild(i)
    /\ label = "resolve" /\ i \in j.todo => Justified(i)

Seen(p) == SeenOf(pc[p], job[p], overtaken[p])

AllSeen == SummaryAgrees /\ \A p \in Proc : Seen(p)

(* Labels at which a call has seen nothing about issues yet.               *)
Fresh == {"idle", "numbers", "convert", "origin", "kick", "emit", "satisfying", "task", "child",
          "retire"}

LEMMA FreshSeen == ASSUME NEW p \in Proc, pc[p] \in Fresh PROVE Seen(p)
BY DEF Seen, SeenOf, Fresh

(* A call that stands still keeps what it saw of the issues nobody touched. *)
LEMMA SeenKept ==
    ASSUME NEW q \in Proc, Seen(q), pc'[q] = pc[q], job'[q] = job[q], torn \subseteq torn',
           \A i \in Issue \ overtaken'[q] : i \notin overtaken[q] /\ Evidence(i)' = Evidence(i)
    PROVE  Seen(q)'
<1> SUFFICES ASSUME NEW i \in Issue \ overtaken'[q]
             PROVE  /\ pc[q] = "issues" /\ issue'[i].task = job[q].task => Complete(i)'
                    /\ pc[q] \in {"links", "latest"} /\ i \in job[q].todo =>
                           issue'[i].task = job[q].task /\ Complete(i)'
                    /\ pc[q] = "latest" /\ i \in job[q].todo => Ref(i)' = job[q].ac
                    /\ pc[q] = "promoted" /\ issue'[i].child = job[q].child => ProvenByChild(i)'
                    /\ pc[q] = "resolve" /\ i \in job[q].todo => Justified(i)'
  BY DEF Seen, SeenOf
<1>1. /\ issue'[i] = issue[i] /\ Complete(i)' = Complete(i) /\ Ref(i)' = Ref(i)
      /\ Passing(i)' = Passing(i) /\ ProvenByChild(i)' = ProvenByChild(i)
  BY DEF Evidence
<1>2. Justified(i) => Justified(i)'
  BY <1>1 DEF Justified
<1> QED BY <1>1, <1>2 DEF Seen, SeenOf

(* Watch puts what a step changed out of sight of every other call.        *)
LEMMA WatchedSeen ==
    ASSUME NEW own, Watch(own), NEW q \in Proc, q \notin own, Seen(q),
           pc'[q] = pc[q], job'[q] = job[q], torn \subseteq torn'
    PROVE  Seen(q)'
<1>1. CASE pc[q] \in Resolving
  <2>1. overtaken'[q] = overtaken[q] \cup {i \in Issue : Evidence(i)' # Evidence(i)}
    BY <1>1 DEF Watch
  <2> QED BY <2>1, SeenKept
<1>2. CASE pc[q] \notin Resolving
  BY <1>2 DEF Seen, SeenOf, Resolving
<1> QED BY <1>1, <1>2

LEMMA MoveSeen ==
    ASSUME CallsOK, NEW p \in Proc, NEW l, NEW j, Go(p, l, j), Watch({p}), torn \subseteq torn',
           \A q \in Proc : Seen(q), Seen(p)'
    PROVE  \A q \in Proc : Seen(q)'
<1>1. ASSUME NEW q \in Proc, q # p PROVE Seen(q)'
  BY <1>1, OthersStay, WatchedSeen
<1> QED BY <1>1

(* A step of a call that is not looking at issues afterwards.              *)
LEMMA FreshMoveSeen ==
    ASSUME CallsOK, NEW p \in Proc, NEW l \in Fresh, NEW j, Go(p, l, j), Watch({p}),
           torn \subseteq torn', \A q \in Proc : Seen(q)
    PROVE  \A q \in Proc : Seen(q)'
<1>1. pc'[p] \in Fresh
  BY GoneTo
<1>2. Seen(p)'
  BY <1>1 DEF Seen, SeenOf, Fresh
<1> QED BY <1>2, MoveSeen

(* A step of no call, or of one that stays idle.                           *)
LEMMA StandingSeen ==
    ASSUME UNCHANGED calls, NEW own, Watch(own), \A q \in own : pc[q] = "idle",
           torn' = torn, \A q \in Proc : Seen(q)
    PROVE  \A q \in Proc : Seen(q)'
<1> SUFFICES ASSUME NEW q \in Proc PROVE Seen(q)'
  OBVIOUS
<1>1. pc'[q] = pc[q] /\ job'[q] = job[q]
  BY DEF calls
<1>2. CASE q \in own
  BY <1>1, <1>2 DEF Seen, SeenOf
<1>3. CASE q \notin own
  BY <1>1, <1>3, WatchedSeen
<1> QED BY <1>2, <1>3

(* A call that reads: nothing is written, and its own view is kept.        *)
LEMMA ReadingKeeps ==
    ASSUME NEW p \in Proc, UNCHANGED rows, UNCHANGED results, torn' = torn, Watch({p})
    PROVE  /\ \A i \in Issue : /\ issue'[i] = issue[i] /\ Complete(i)' = Complete(i)
                               /\ Ref(i)' = Ref(i) /\ Passing(i)' = Passing(i)
                               /\ ProvenByChild(i)' = ProvenByChild(i)
                               /\ Justified(i)' = Justified(i)
           /\ pc[p] \in Resolving /\ pc'[p] \in Resolving => overtaken'[p] = overtaken[p]
<1>1. \A i \in Issue : /\ issue'[i] = issue[i] /\ Complete(i)' = Complete(i)
                       /\ Ref(i)' = Ref(i) /\ Passing(i)' = Passing(i)
                       /\ ProvenByChild(i)' = ProvenByChild(i)
  BY DEF rows, results, Complete, Ref, Passing, NewestOf, ProvenByChild
<1>2. \A i \in Issue : Justified(i)' = Justified(i)
  BY <1>1 DEF Justified
<1>3. pc[p] \in Resolving /\ pc'[p] \in Resolving => overtaken'[p] = overtaken[p]
  BY DEF Watch
<1> QED BY <1>1, <1>2, <1>3

LEMMA ReadTaskSeen ==
    ASSUME IInv, AllSeen, NEW p \in Proc, ReadTask(p) PROVE \A q \in Proc : Seen(q)'
<1>0. CallsOK /\ torn' = torn /\ Watch({p}) /\ \A q \in Proc : Seen(q)
  BY DEF IInv, ReadTask, AllSeen
<1>1. CASE Return(p)
  BY <1>0, <1>1, FreshMoveSeen DEF Return, Fresh
<1>2. CASE ~Return(p)
  <2>1. Go(p, "issues", job[p]) /\ task[job[p].task].status = "complete" /\ job[p].task \in Tasks
    BY <1>2 DEF ReadTask
  <2>2. pc'[p] = "issues" /\ job'[p] = job[p]
    BY <1>0, <2>1, GoneTo
  <2>3. \A i \in Issue : issue[i].task = job[p].task => Complete(i)
    BY <1>0, <2>1, NoneApart DEF Complete, Tasks
  <2>4. Seen(p)'
    BY <1>0, <2>2, <2>3, ReadingKeeps DEF Seen, SeenOf, ReadTask
  <2> QED BY <1>0, <2>1, <2>4, MoveSeen
<1> QED BY <1>1, <1>2

LEMMA ReadIssuesSeen ==
    ASSUME IInv, AllSeen, NEW p \in Proc, ReadIssues(p) PROVE \A q \in Proc : Seen(q)'
<1>0. CallsOK /\ torn' = torn /\ Watch({p}) /\ \A q \in Proc : Seen(q)
  BY DEF IInv, ReadIssues, AllSeen
<1>1. CASE Return(p)
  BY <1>0, <1>1, FreshMoveSeen DEF Return, Fresh
<1>2. CASE ~Return(p)
  <2> DEFINE j == [job[p] EXCEPT !.todo = Candidates(job[p].task)]
  <2>1. Go(p, "links", j) /\ pc[p] = "issues"
    BY <1>2 DEF ReadIssues
  <2>2. j.todo = Candidates(job[p].task) /\ j.task = job[p].task
    BY <1>0 DEF CallsOK, Job
  <2> HIDE DEF j
  <2>3. pc'[p] = "links" /\ job'[p] = j
    BY <1>0, <2>1, GoneTo
  <2>4. overtaken'[p] = overtaken[p]
    BY <1>0, <2>1, <2>3, ReadingKeeps DEF Resolving, ReadIssues
  <2>5. \A i \in Issue \ overtaken[p] : i \in j.todo => issue[i].task = j.task /\ Complete(i)
    BY <1>0, <2>1, <2>2 DEF Seen, SeenOf, Candidates, Origins
  <2>6. Seen(p)'
    BY <1>0, <2>3, <2>4, <2>5, ReadingKeeps DEF Seen, SeenOf, ReadIssues
  <2> QED BY <1>0, <2>1, <2>6, MoveSeen
<1> QED BY <1>1, <1>2

LEMMA ReadLinksSeen ==
    ASSUME IInv, AllSeen, NEW p \in Proc, ReadLinks(p) PROVE \A q \in Proc : Seen(q)'
<1>0. CallsOK /\ torn' = torn /\ Watch({p}) /\ \A q \in Proc : Seen(q)
  BY DEF IInv, ReadLinks, AllSeen
<1>1. CASE Return(p)
  BY <1>0, <1>1, FreshMoveSeen DEF Return, Fresh
<1>2. CASE ~Return(p)
  <2> DEFINE n == task[job[p].task].ac
             j == [job[p] EXCEPT !.ac = n]
  <2>1. Go(p, "latest", j) /\ pc[p] = "links"
    BY <1>2 DEF ReadLinks
  <2>2. j.todo = job[p].todo /\ j.task = job[p].task /\ j.ac = n
    BY <1>0 DEF CallsOK, Job
  <2> HIDE DEF j
  <2>3. pc'[p] = "latest" /\ job'[p] = j
    BY <1>0, <2>1, GoneTo
  <2>4. overtaken'[p] = overtaken[p]
    BY <1>0, <2>1, <2>3, ReadingKeeps DEF Resolving, ReadLinks
  <2>5. \A i \in Issue \ overtaken[p] : i \in j.todo =>
            issue[i].task = j.task /\ Complete(i) /\ Ref(i) = j.ac
    BY <1>0, <2>1, <2>2 DEF Seen, SeenOf, Ref, Complete
  <2>6. Seen(p)'
    BY <1>0, <2>3, <2>4, <2>5, ReadingKeeps DEF Seen, SeenOf, ReadLinks
  <2> QED BY <1>0, <2>1, <2>6, MoveSeen
<1> QED BY <1>1, <1>2

LEMMA ReadLatestSeen ==
    ASSUME IInv, AllSeen, NEW p \in Proc, ReadLatest(p) PROVE \A q \in Proc : Seen(q)'
<1>0. CallsOK /\ torn' = torn /\ Watch({p}) /\ \A q \in Proc : Seen(q)
  BY DEF IInv, ReadLatest, AllSeen
<1>1. CASE Return(p)
  BY <1>0, <1>1, FreshMoveSeen DEF Return, Fresh
<1>2. CASE ~Return(p)
  <2>1. Go(p, "resolve", job[p]) /\ pc[p] = "latest" /\ Green(job[p].ac)
    BY <1>2 DEF ReadLatest
  <2>2. job[p].ac \in Task
    BY <1>0, <2>1 DEF CallsOK, Has
  <2>3. pc'[p] = "resolve" /\ job'[p] = job[p]
    BY <1>0, <2>1, GoneTo
  <2>4. overtaken'[p] = overtaken[p]
    BY <1>0, <2>1, <2>3, ReadingKeeps DEF Resolving, ReadLatest
  <2>5. ASSUME NEW i \in Issue \ overtaken[p], i \in job[p].todo PROVE Justified(i)
    <3>1. Complete(i) /\ Ref(i) = job[p].ac
      BY <1>0, <2>1, <2>5 DEF Seen, SeenOf
    <3>2. Ref(i) \notin torn => Passing(i)
      BY <2>1, <2>2, <3>1, GreenPasses, NoneApart DEF Passing, AllSeen
    <3> QED BY <3>1, <3>2 DEF Justified
  <2>6. Seen(p)'
    BY <1>0, <2>3, <2>4, <2>5, ReadingKeeps DEF Seen, SeenOf, ReadLatest
  <2> QED BY <1>0, <2>1, <2>6, MoveSeen
<1> QED BY <1>1, <1>2

LEMMA ReadChildSeen ==
    ASSUME IInv, AllSeen, NEW p \in Proc, ReadChild(p) PROVE \A q \in Proc : Seen(q)'
<1>0. CallsOK /\ torn' = torn /\ Watch({p}) /\ \A q \in Proc : Seen(q)
  BY DEF IInv, ReadChild, AllSeen
<1>1. CASE Return(p)
  BY <1>0, <1>1, FreshMoveSeen DEF Return, Fresh
<1>2. CASE ~Return(p)
  <2>1. /\ Go(p, "promoted", job[p]) /\ child[job[p].child] = "done" /\ pc[p] = "child"
        /\ job[p].child \in Child
    BY <1>0, <1>2 DEF ReadChild, CallsOK, Has
  <2>2. pc'[p] = "promoted" /\ job'[p] = job[p]
    BY <1>0, <2>1, GoneTo
  <2>3. \A i \in Issue : issue[i].child = job[p].child => ProvenByChild(i)
    BY <2>1, NoneApart DEF ProvenByChild
  <2>4. Seen(p)'
    BY <1>0, <2>2, <2>3, ReadingKeeps DEF Seen, SeenOf, ReadChild
  <2> QED BY <1>0, <2>1, <2>4, MoveSeen
<1> QED BY <1>1, <1>2

LEMMA ReadPromotedSeen ==
    ASSUME IInv, AllSeen, NEW p \in Proc, ReadPromoted(p) PROVE \A q \in Proc : Seen(q)'
<1>0. CallsOK /\ torn' = torn /\ Watch({p}) /\ \A q \in Proc : Seen(q)
  BY DEF IInv, ReadPromoted, AllSeen
<1>1. CASE Return(p)
  BY <1>0, <1>1, FreshMoveSeen DEF Return, Fresh
<1>2. CASE ~Return(p)
  <2> DEFINE S == {i \in Issue : issue[i].child = job[p].child /\ issue[i].status = "converted"}
             j == [job[p] EXCEPT !.todo = S]
  <2>1. Go(p, "resolve", j) /\ pc[p] = "promoted"
    BY <1>2 DEF ReadPromoted
  <2>2. j.todo = S
    BY <1>0 DEF CallsOK, Job
  <2> HIDE DEF j
  <2>3. pc'[p] = "resolve" /\ job'[p] = j
    BY <1>0, <2>1, GoneTo
  <2>4. overtaken'[p] = overtaken[p]
    BY <1>0, <2>1, <2>3, ReadingKeeps DEF Resolving, ReadPromoted
  <2>5. \A i \in Issue \ overtaken[p] : i \in j.todo => Justified(i)
    BY <1>0, <2>1, <2>2 DEF Seen, SeenOf, Justified
  <2>6. Seen(p)'
    BY <1>0, <2>3, <2>4, <2>5, ReadingKeeps DEF Seen, SeenOf, ReadPromoted
  <2> QED BY <1>0, <2>1, <2>6, MoveSeen
<1> QED BY <1>1, <1>2

LEMMA ResolveOneSeen ==
    ASSUME IInv, AllSeen, NEW p \in Proc, NEW k \in Issue, ResolveOne(p, k)
    PROVE  \A q \in Proc : Seen(q)'
<1>0. CallsOK /\ RowsOK /\ torn' = torn /\ Watch({p}) /\ \A q \in Proc : Seen(q)
  BY TypeParts DEF IInv, ResolveOne, AllSeen
<1>1. CASE Return(p)
  BY <1>0, <1>1, FreshMoveSeen DEF Return, Fresh
<1>2. CASE ~Return(p)
  <2> DEFINE j == [job[p] EXCEPT !.todo = @ \ {k}]
  <2>1. Go(p, "resolve", j) /\ pc[p] = "resolve"
    BY <1>2 DEF ResolveOne
  <2>2. j.todo = job[p].todo \ {k}
    BY <1>0 DEF CallsOK, Job
  <2> HIDE DEF j
  <2>3. pc'[p] = "resolve" /\ job'[p] = j
    BY <1>0, <2>1, GoneTo
  <2>4. overtaken'[p] = overtaken[p]
    BY <1>0, <2>1, <2>3 DEF Watch, Resolving
  <2>5. ASSUME NEW i \in Issue \ overtaken[p], i \in j.todo PROVE Justified(i)'
    <3>1. i # k /\ Justified(i)
      BY <1>0, <2>1, <2>2, <2>5 DEF Seen, SeenOf
    <3>2. issue'[i] = issue[i] /\ UNCHANGED <<task, child, log, torn>>
      BY <1>0, <3>1 DEF ResolveOne, RowsOK, results
    <3> QED BY <3>1, <3>2 DEF Justified, Complete, Ref, Passing, NewestOf, ProvenByChild
  <2>6. Seen(p)'
    BY <2>3, <2>4, <2>5 DEF Seen, SeenOf
  <2> QED BY <1>0, <2>1, <2>6, MoveSeen
<1> QED BY <1>1, <1>2

LEMMA SeenStep == ASSUME IInv, AllSeen, [Next]_vars PROVE \A q \in Proc : Seen(q)'
<1> DEFINE Goal == \A q \in Proc : Seen(q)'
<1>0. CallsOK /\ \A q \in Proc : Seen(q)
  BY DEF IInv, AllSeen
<1>1. CASE Someone
  <2>1. UNCHANGED calls /\ torn' = torn /\ Watch({})
    BY <1>1 DEF Someone, createTask, createIssue, updateIssueStatus, deleteIssue, deleteTask,
                deleteAc, markIssuePromoted
  <2> QED BY <1>0, <2>1, StandingSeen
<1>2. CASE UNCHANGED vars
  BY <1>0, <1>2, SeenKept DEF vars, calls, history, rows, results, Evidence, Complete, Ref,
     Passing, NewestOf, ProvenByChild
<1>3. ASSUME NEW p \in Proc, NEW l \in Fresh, NEW j, Go(p, l, j), Watch({p}),
             torn \subseteq torn' PROVE Goal
  BY <1>0, <1>3, FreshMoveSeen
<1>4. ASSUME NEW p \in Proc, Begin(p), UNCHANGED calls, Watch({p}), torn' = torn PROVE Goal
  BY <1>0, <1>4, StandingSeen DEF Begin
<1>5. ASSUME NEW p \in Proc, Converts(p) PROVE Goal
  BY <1>3, <1>5 DEF Converts, ConvertCheck, ConvertNumbers, ConvertCommit, ConvertRefused,
                    Return, Fresh
<1>6. ASSUME NEW p \in Proc, Kicks(p) PROVE Goal
  BY <1>3, <1>6 DEF Kicks, KickTask, KickOrigin, KickCommit, Return, Fresh
<1>7. ASSUME NEW p \in Proc, Emits(p) PROVE Goal
  BY <1>3, <1>7 DEF Emits, EmitBegin, EmitCommit, AfterEmission, ReadSatisfying, Return, Fresh
<1>8. ASSUME NEW p \in Proc, Completes(p) PROVE Goal
  BY <1>3, <1>4, <1>8 DEF Completes, updateTaskStatus, Fresh
<1>9. ASSUME NEW p \in Proc, Moves(p) PROVE Goal
  BY <1>3, <1>4, <1>9, ReadChildSeen, ReadPromotedSeen DEF Moves, ChildMoves, Fresh
<1>10. ASSUME NEW p \in Proc, Resolves(p) PROVE Goal
  BY <1>10, ReadTaskSeen, ReadIssuesSeen, ReadLinksSeen, ReadLatestSeen, ResolveOneSeen
     DEF Resolves
<1>11. ASSUME NEW p \in Proc, Retires(p) PROVE Goal
  BY <1>3, <1>11 DEF Retires, RetireRows, RetireCommit, Return, Fresh
<1>12. ASSUME NEW p \in Proc, Fail(p) PROVE Goal
  BY <1>3, <1>12 DEF Fail, Return, Fresh
<1> QED BY <1>1, <1>2, <1>5, <1>6, <1>7, <1>8, <1>9, <1>10, <1>11, <1>12 DEF Next, Step

(* Whatever overlaps, a resolving call closes an issue only on evidence    *)
(* the log itself bears out: what it read of an issue still holds when it  *)
(* writes, unless another call changed that issue's evidence meanwhile.    *)
THEOREM ResolvedOnEvidence == Spec => ResolvesOnEvidence
<1>1. Init => AllSeen
  BY DEF Init, AllSeen, SummaryAgrees, Agrees, Seen, SeenOf
<1>2. IInv /\ AllSeen /\ [Next]_vars => AllSeen'
  BY AgreementStep, SeenStep DEF AllSeen
<1>3. AllSeen /\ [Next]_vars => [\A p \in Proc, i \in Issue :
          /\ pc[p] = "resolve" /\ i \in job[p].todo \ job'[p].todo
          /\ issue[i].status = "converted" /\ issue'[i].status = "resolved"
          /\ i \notin overtaken[p] /\ Ref(i) \notin torn
          => (Complete(i) /\ Passing(i)) \/ ProvenByChild(i)]_vars
  BY DEF AllSeen, Seen, SeenOf, Justified
<1> QED BY <1>1, <1>2, <1>3, InitTyped, NextTyped, PTL DEF Spec, ResolvesOnEvidence
=============================================================================
