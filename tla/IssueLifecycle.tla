--------------------------- MODULE IssueLifecycle ----------------------------
(***************************************************************************)
(* The issues of one Spec and what closes them (services/issues.ts): the   *)
(* conversion of an issue to a task with a criterion of its own, the kick  *)
(* of a task back to an issue, the promotion of an issue to a child Spec,  *)
(* and the three calls that resolve a converted issue by themselves: after *)
(* a task is completed (services/tasks.ts), after a passing test result    *)
(* (routes/test-events.ts) and after a child Spec is done                  *)
(* (services/documents.ts).                                                *)
(*                                                                         *)
(* A call is a sequence of awaited statements, and other calls run between *)
(* them.  A transaction that only writes is one action, its commit.  Test  *)
(* results go to a log and to a summary of the latest result per test      *)
(* (services/test-event-latest.ts), and are stamped when their             *)
(* transaction starts, so they can commit out of order.                    *)
(***************************************************************************)
EXTENDS Integers, FiniteSets

CONSTANTS
    Proc,       \* calls in progress
    Test,       \* test identifiers
    MaxIssues,  \* bound: issues ever created
    MaxTasks,   \* bound: tasks ever created
    MaxChildren,\* bound: child Specs promoted
    MaxEvents,  \* bound: test results emitted
    MaxEdits,   \* bound: rows created, deleted, promoted, retired or set by hand
    MaxCalls    \* bound: conversions, kicks, completions, results, child moves

ASSUME BoundsAssumption ==
    /\ {MaxTasks, MaxChildren, MaxEvents, MaxEdits, MaxCalls} \subseteq Nat
    /\ MaxIssues \in Nat \ {0}

Issue == 1..MaxIssues
Task == 1..MaxTasks
Child == 1..MaxChildren
None == 0       \* no row: a null link
Verdict == {"pass", "fail"}

(* A row of test_events: ac is the number in its subject_ref.              *)
Event == [ac : Task, test : Test, at : 1..MaxEvents, verdict : Verdict]

VARIABLES
    issue,      \* issues: status, satisfying_task_id, promoted_doc_id
    task,       \* tasks: status, seq and the criterion task_satisfies_ac links
    criteria,   \* acs: the numbers (seq) of those that exist
    child,      \* the Specs issues were promoted to: done or not
    log,        \* test_events
    summary,    \* test_event_latest, by criterion number and test
    clock,      \* now(): results stamped so far
    pc,         \* pc[p]: the statement the call runs next
    job,        \* job[p]: what it has read
    edits,      \* edits made so far
    begun,      \* calls begun so far
    overtaken,  \* overtaken[p]: issues whose evidence others changed since p began (history)
    missed,     \* issues that became ripe with no call, or whose call was lost (history)
    torn        \* tests whose retirement overlapped a result (history)

rows == <<issue, task, criteria, child>>
results == <<log, summary, clock>>
calls == <<pc, job>>
history == <<overtaken, missed, torn>>
vars == <<rows, results, calls, edits, begun, history>>
-----------------------------------------------------------------------------
(* Rows that exist.                                                        *)
Issues == {i \in Issue : issue[i].status \notin {"none", "deleted"}}
Tasks == {t \in Task : task[t].status \notin {"none", "deleted"}}

(* The next unused id of a pool of rows.                                   *)
Unused(pool, table, x) ==
    x \in pool /\ \A y \in pool : table[y].status = "none" <=> y >= x

(* COALESCE(MAX(seq), 0) + 1 over the seqs S.                              *)
nextSeq(n, S) == \E m \in S \cup {0} : (\A x \in S : x <= m) /\ n = m + 1

Gone == [status |-> "deleted", seq |-> 0, ac |-> None]

(* Mutant: the foreign key does nothing.                                   *)
LeftLinked(t) == issue

(* issues.satisfying_task_id: ON DELETE SET NULL.                          *)
Unlinked(t) == [i \in Issue |->
    IF issue[i].task = t THEN [issue[i] EXCEPT !.task = None] ELSE issue[i]]

NoResult == [at |-> 0, verdict |-> "fail"]

(* The row newest by latest_run_at of criterion n.                         *)
Latest(n, r) ==
    \E t \in Test : /\ r = summary[n][t] /\ r # NoResult
                    /\ \A u \in Test : summary[n][u].at <= r.at

Green(n) == \E r \in {summary[n][t] : t \in Test} : Latest(n, r) /\ r.verdict = "pass"

(* Mutant: the result that commits last wins.                              *)
LastCommitWins(e) == [summary EXCEPT ![e.ac][e.test] = [at |-> e.at, verdict |-> e.verdict]]

(* The upsert of applyEmissionToSummary: the newer result wins.            *)
applyEmissionToSummary(e) ==
    IF e.at >= summary[e.ac][e.test].at
    THEN [summary EXCEPT ![e.ac][e.test] = [at |-> e.at, verdict |-> e.verdict]]
    ELSE summary
-----------------------------------------------------------------------------
NoEvent == [ac |-> None, at |-> 0]
Blank == [task |-> None, issue |-> None, child |-> None, seq |-> 0, ac |-> None,
          event |-> NoEvent, test |-> None, seen |-> {}, todo |-> {}]

Go(p, label, j) ==
    /\ pc' = [pc EXCEPT ![p] = label]
    /\ job' = [job EXCEPT ![p] = j]

Return(p) == Go(p, "idle", Blank)

Edit == edits < MaxEdits /\ edits' = edits + 1

Begin(p) ==
    /\ pc[p] = "idle"
    /\ begun < MaxCalls /\ begun' = begun + 1

Init ==
    /\ issue = [i \in Issue |-> [status |-> IF i = 1 THEN "open" ELSE "none",
                                 task |-> None, child |-> None]]
    /\ task = [t \in Task |-> [status |-> "none", seq |-> 0, ac |-> None]]
    /\ criteria = {}
    /\ child = [c \in Child |-> "none"]
    /\ log = {}
    /\ summary = [n \in Task |-> [t \in Test |-> NoResult]]
    /\ clock = 0
    /\ pc = [p \in Proc |-> "idle"]
    /\ job = [p \in Proc |-> Blank]
    /\ edits = 0
    /\ begun = 0
    /\ overtaken = [p \in Proc |-> {}]
    /\ missed = {}
    /\ torn = {}
-----------------------------------------------------------------------------
(* What an issue is, and what would justify closing it.                    *)
Ref(i) == IF issue[i].task = None THEN None ELSE task[issue[i].task].ac

NewestOf(n) == {e \in log : e.ac = n /\ \A f \in log : f.ac = n => f.at <= e.at}

Complete(i) == issue[i].task # None /\ task[issue[i].task].status = "complete"
Passing(i) == Ref(i) # None /\ \E e \in NewestOf(Ref(i)) : e.verdict = "pass"

ProvenByChild(i) == issue[i].child # None /\ child[issue[i].child] = "done"

Evidence(i) == <<issue[i], Complete(i), Ref(i), Passing(i), ProvenByChild(i)>>

Resolving == {"satisfying", "task", "issues", "links", "latest", "resolve", "child", "promoted"}

(* Every step: whose evidence others changed while a call was resolving.   *)
Watch(own) ==
    overtaken' = [q \in Proc |->
        IF ~({pc[q], pc'[q]} \subseteq Resolving) THEN {}
        ELSE IF q \in own THEN overtaken[q]
        ELSE overtaken[q] \cup {i \in Issue : Evidence(i)' # Evidence(i)}]

(* The converted issues a call made for task t, or child c, is for.        *)
OfTask(t) == {<<i, "task">> : i \in {i \in Issue : issue[i].task = t}}
OfCriterion(n) == {<<i, "task">> : i \in {i \in Issue : Ref(i) = n}}
OfChild(c) == {<<i, "child">> : i \in {i \in Issue : issue[i].child = c}}
-----------------------------------------------------------------------------
(* createTask, retried until its seq is free.                              *)
createTask ==
    /\ Edit
    /\ \E t \in Task, n \in 1..MaxTasks :
        /\ Unused(Task, task, t) /\ nextSeq(n, {task[u].seq : u \in Tasks})
        /\ task' = [task EXCEPT ![t] = [status |-> "not_started", seq |-> n, ac |-> None]]
    /\ UNCHANGED <<issue, criteria, child, results, calls, begun, missed, torn>>
    /\ Watch({})

createIssue ==
    /\ Edit
    /\ \E i \in Issue : /\ Unused(Issue, issue, i)
                        /\ issue' = [issue EXCEPT ![i].status = "open"]
    /\ UNCHANGED <<task, criteria, child, results, calls, begun, missed, torn>>
    /\ Watch({})

(* updateIssueStatus: any status, whatever the issue is.                   *)
updateIssueStatus(i, s) ==
    /\ Edit
    /\ i \in Issues /\ issue[i].status # s
    /\ issue' = [issue EXCEPT ![i].status = s]
    /\ missed' = IF s = "converted" THEN missed \cup {<<i, "task">>, <<i, "child">>} ELSE missed
    /\ UNCHANGED <<task, criteria, child, results, calls, begun, torn>>
    /\ Watch({})

deleteIssue(i) ==
    /\ Edit
    /\ i \in Issues
    /\ issue' = [issue EXCEPT ![i] = [status |-> "deleted", task |-> None, child |-> None]]
    /\ UNCHANGED <<task, criteria, child, results, calls, begun, missed, torn>>
    /\ Watch({})

deleteTask(t) ==
    /\ Edit
    /\ t \in Tasks
    /\ task' = [task EXCEPT ![t] = Gone]
    /\ issue' = Unlinked(t)
    /\ UNCHANGED <<criteria, child, results, calls, begun, missed, torn>>
    /\ Watch({})

(* deleteAc cascades to task_satisfies_ac; the results stay.               *)
deleteAc(n) ==
    /\ Edit
    /\ n \in criteria
    /\ criteria' = criteria \ {n}
    /\ task' = [t \in Task |-> IF task[t].ac = n THEN [task[t] EXCEPT !.ac = None] ELSE task[t]]
    /\ UNCHANGED <<issue, child, results, calls, begun, missed, torn>>
    /\ Watch({})

(* promoteToSpec and markIssuePromoted.                                    *)
markIssuePromoted(i) ==
    /\ Edit
    /\ i \in Issues
    /\ \E c \in Child :
        /\ child[c] = "none" /\ \A d \in Child : d < c => child[d] # "none"
        /\ child' = [child EXCEPT ![c] = "open"]
        /\ issue' = [issue EXCEPT ![i] = [status |-> "converted", task |-> @.task, child |-> c]]
    /\ missed' = (missed \cup {<<i, "task">>}) \ {<<i, "child">>}
    /\ UNCHANGED <<task, criteria, results, calls, begun, torn>>
    /\ Watch({})

Someone ==
    \/ createTask \/ createIssue
    \/ \E i \in Issue : deleteIssue(i) \/ markIssuePromoted(i)
    \/ \E i \in Issue, s \in {"open", "converted", "resolved", "wont_fix"} :
           updateIssueStatus(i, s)
    \/ \E t \in Task : deleteTask(t)
    \/ \E n \in Task : deleteAc(n)
-----------------------------------------------------------------------------
(* convertIssueToTask: the check, the numbers (read outside the            *)
(* transaction it is about to commit), the commit.                         *)
ConvertCheck(p, i) ==
    /\ Begin(p)
    /\ issue[i].status = "open"
    /\ Go(p, "numbers", [Blank EXCEPT !.issue = i])
    /\ UNCHANGED <<rows, results, edits, missed, torn>>
    /\ Watch({p})

ConvertNumbers(p) ==
    /\ pc[p] = "numbers"
    /\ \E n, m \in Task :
        /\ nextSeq(n, {task[t].seq : t \in Tasks}) /\ nextSeq(m, criteria)
        /\ Go(p, "convert", [job[p] EXCEPT !.seq = n, !.ac = m])
    /\ UNCHANGED <<rows, results, begun, edits, missed, torn>>
    /\ Watch({p})

NumbersFree(p) ==
    /\ \A t \in Tasks : task[t].seq # job[p].seq
    /\ job[p].ac \notin criteria

ConvertCommit(p) ==
    /\ pc[p] = "convert" /\ NumbersFree(p)
    /\ \E t \in Task :
        /\ Unused(Task, task, t)
        /\ task' = [task EXCEPT ![t] = [status |-> "not_started", seq |-> job[p].seq,
                                        ac |-> job[p].ac]]
        /\ issue' = [i \in Issue |->
               IF i = job[p].issue /\ i \in Issues
               THEN [status |-> "converted", task |-> t, child |-> issue[i].child] ELSE issue[i]]
    /\ LET i == job[p].issue
       IN  missed' = IF issue[i].child = None THEN missed \ {<<i, "task">>}
                     ELSE (missed \ {<<i, "task">>}) \cup {<<i, "child">>}
    /\ criteria' = criteria \cup {job[p].ac}
    /\ Return(p)
    /\ UNCHANGED <<child, results, begun, edits, torn>>
    /\ Watch({p})

(* A unique index refuses the insert and the transaction rolls back.       *)
ConvertRefused(p) ==
    /\ pc[p] = "convert" /\ ~NumbersFree(p)
    /\ Return(p)
    /\ UNCHANGED <<rows, results, begun, edits, missed, torn>>
    /\ Watch({p})

(* kickTaskToIssue: the task, the issue it came from, the commit.          *)
KickTask(p, t) ==
    /\ Begin(p)
    /\ t \in Tasks
    /\ Go(p, "origin", [Blank EXCEPT !.task = t])
    /\ UNCHANGED <<rows, results, edits, missed, torn>>
    /\ Watch({p})

Origins(t) == {i \in Issue : issue[i].task = t}

KickOrigin(p) ==
    /\ pc[p] = "origin"
    /\ LET S == Origins(job[p].task) IN
       \E i \in IF S = {} THEN {None} ELSE S : Go(p, "kick", [job[p] EXCEPT !.issue = i])
    /\ UNCHANGED <<rows, results, begun, edits, missed, torn>>
    /\ Watch({p})

KickCommit(p) ==
    /\ pc[p] = "kick"
    /\ LET kept == Unlinked(job[p].task)
       IN  \/ /\ job[p].issue # None
              /\ issue' = IF job[p].issue \in Issues
                          THEN [kept EXCEPT ![job[p].issue] =
                                      [status |-> "open", task |-> None, child |-> @.child]]
                          ELSE kept
           \/ /\ job[p].issue = None
              /\ \E i \in Issue :
                    /\ Unused(Issue, issue, i)
                    /\ issue' = [kept EXCEPT ![i].status = "open"]
    /\ task' = [task EXCEPT ![job[p].task] = Gone]
    /\ Return(p)
    /\ UNCHANGED <<criteria, child, results, begun, edits, missed, torn>>
    /\ Watch({p})
-----------------------------------------------------------------------------
(* updateTaskStatus: the write, then the resolving call if it completed.   *)
updateTaskStatus(p, t, s) ==
    /\ Begin(p)
    /\ t \in Tasks
    /\ task' = [task EXCEPT ![t].status = s]
    /\ \/ /\ s = "complete"
          /\ Go(p, "task", [Blank EXCEPT !.task = t])
          /\ missed' = missed \ OfTask(t)
       \/ /\ s # "complete" /\ UNCHANGED <<calls, missed>>
    /\ UNCHANGED <<issue, criteria, child, results, edits, torn>>
    /\ Watch({p})

(* processOneEvent: the transaction starts and stamps the result, commits  *)
(* log and summary together, and a pass looks for the tasks it verifies.   *)
EmitBegin(p, n, t, v) ==
    /\ Begin(p)
    /\ clock < MaxEvents
    /\ clock' = clock + 1
    /\ Go(p, "emit", [Blank EXCEPT !.event =
                        [ac |-> n, test |-> t, at |-> clock', verdict |-> v]])
    /\ UNCHANGED <<rows, log, summary, edits, missed, torn>>
    /\ Watch({p})

(* Mutant: only the completion of a task looks for evidence.               *)
AfterEmissionNothing(e) == "idle"

AfterEmission(e) == IF e.verdict = "pass" THEN "satisfying" ELSE "idle"

EmitCommit(p) ==
    /\ pc[p] = "emit"
    /\ LET e == job[p].event
       IN  /\ log' = log \cup {e}
           /\ summary' = applyEmissionToSummary(e)
           /\ Go(p, AfterEmission(e), IF e.verdict = "pass" THEN job[p] ELSE Blank)
           /\ missed' = IF e.verdict = "pass" THEN missed \ OfCriterion(e.ac) ELSE missed
    /\ UNCHANGED <<rows, clock, begun, edits, torn>>
    /\ Watch({p})

(* maybeAutoResolveIssuesForAcUid: the tasks the criterion is linked to.   *)
ReadSatisfying(p) ==
    /\ pc[p] = "satisfying"
    /\ LET S == {t \in Tasks : task[t].ac = job[p].event.ac} IN
       \/ S = {} /\ Return(p)
       \/ \E t \in S : Go(p, "task", [Blank EXCEPT !.task = t])
    /\ UNCHANGED <<rows, results, begun, edits, missed, torn>>
    /\ Watch({p})

(* maybeAutoResolveIssuesForTask: the task, the candidates, the links and  *)
(* the latest result (verifyingAcIsGreen), then one UPDATE per candidate.  *)
ReadTask(p) ==
    /\ pc[p] = "task"
    /\ IF job[p].task \in Tasks /\ task[job[p].task].status = "complete"
       THEN Go(p, "issues", job[p]) ELSE Return(p)
    /\ UNCHANGED <<rows, results, begun, edits, missed, torn>>
    /\ Watch({p})

Candidates(t) == {i \in Origins(t) : issue[i].status = "converted"}

ReadIssues(p) ==
    /\ pc[p] = "issues"
    /\ LET S == Candidates(job[p].task)
       IN  IF S = {} THEN Return(p) ELSE Go(p, "links", [job[p] EXCEPT !.todo = S])
    /\ UNCHANGED <<rows, results, begun, edits, missed, torn>>
    /\ Watch({p})

ReadLinks(p) ==
    /\ pc[p] = "links"
    /\ LET n == task[job[p].task].ac
       IN  IF n = None THEN Return(p) ELSE Go(p, "latest", [job[p] EXCEPT !.ac = n])
    /\ UNCHANGED <<rows, results, begun, edits, missed, torn>>
    /\ Watch({p})

ReadLatest(p) ==
    /\ pc[p] = "latest"
    /\ IF Green(job[p].ac) THEN Go(p, "resolve", job[p]) ELSE Return(p)
    /\ UNCHANGED <<rows, results, begun, edits, missed, torn>>
    /\ Watch({p})

ResolveOne(p, i) ==
    /\ pc[p] = "resolve" /\ i \in job[p].todo
    /\ issue' = IF issue[i].status = "converted"
                THEN [issue EXCEPT ![i].status = "resolved"] ELSE issue
    /\ IF job[p].todo = {i} THEN Return(p) ELSE Go(p, "resolve", [job[p] EXCEPT !.todo = @ \ {i}])
    /\ UNCHANGED <<task, criteria, child, results, begun, edits, missed, torn>>
    /\ Watch({p})

(* updateDocStatus on a child Spec, and, once it is done,                  *)
(* maybeAutoResolveIssuesForPromotedDoc: the child, then its issues.       *)
ChildMoves(p, c, s) ==
    /\ Begin(p)
    /\ child[c] # "none"
    /\ child' = [child EXCEPT ![c] = s]
    /\ \/ /\ s = "done"
          /\ Go(p, "child", [Blank EXCEPT !.child = c])
          /\ missed' = missed \ OfChild(c)
       \/ /\ s = "open" /\ UNCHANGED <<calls, missed>>
    /\ UNCHANGED <<issue, task, criteria, results, edits, torn>>
    /\ Watch({p})

ReadChild(p) ==
    /\ pc[p] = "child"
    /\ IF child[job[p].child] = "done" THEN Go(p, "promoted", job[p]) ELSE Return(p)
    /\ UNCHANGED <<rows, results, begun, edits, missed, torn>>
    /\ Watch({p})

ReadPromoted(p) ==
    /\ pc[p] = "promoted"
    /\ LET S == {i \in Issue : issue[i].child = job[p].child /\ issue[i].status = "converted"}
       IN  IF S = {} THEN Return(p) ELSE Go(p, "resolve", [job[p] EXCEPT !.todo = S])
    /\ UNCHANGED <<rows, results, begun, edits, missed, torn>>
    /\ Watch({p})

(* discontinueTestEventsForAc: the log rows its DELETE sees, then the      *)
(* summary row, committed together.                                        *)
RetireRows(p, n, t) ==
    /\ Edit
    /\ pc[p] = "idle" /\ n \in criteria
    /\ Go(p, "retire", [Blank EXCEPT !.ac = n, !.test = t,
                          !.seen = {e \in log : e.ac = n /\ e.test = t}])
    /\ UNCHANGED <<rows, results, begun, missed, torn>>
    /\ Watch({p})

RetireCommit(p) ==
    /\ pc[p] = "retire"
    /\ LET n == job[p].ac
           t == job[p].test
       IN  /\ log' = log \ job[p].seen
           /\ summary' = [summary EXCEPT ![n][t] = NoResult]
           /\ torn' = IF \E e \in log' : e.ac = n /\ e.test = t THEN torn \cup {n} ELSE torn
           /\ missed' = missed \cup OfCriterion(n)
    /\ Return(p)
    /\ UNCHANGED <<rows, clock, begun, edits>>
    /\ Watch({p})
-----------------------------------------------------------------------------
(* Call p has yet to look at what would resolve issue i for its task.      *)
LooksAtTask(p, i) ==
    \/ pc[p] = "satisfying" /\ Ref(i) # None /\ job[p].event.ac = Ref(i)
    \/ pc[p] \in {"task", "issues"} /\ job[p].task = issue[i].task
    \/ pc[p] = "links" /\ job[p].task = issue[i].task /\ i \in job[p].todo
    \/ pc[p] = "latest" /\ job[p].ac = Ref(i) /\ i \in job[p].todo
    \/ pc[p] = "resolve" /\ i \in job[p].todo

LooksAtChild(p, i) ==
    \/ pc[p] \in {"child", "promoted"} /\ job[p].child = issue[i].child
    \/ pc[p] = "resolve" /\ i \in job[p].todo

(* A statement fails or the server dies.  An open transaction rolls back;  *)
(* the error of a resolving call is caught and dropped.                    *)
Fail(p) ==
    /\ pc[p] # "idle"
    /\ missed' = missed \cup {<<i, "task">> : i \in {i \in Issue : LooksAtTask(p, i)}}
                        \cup {<<i, "child">> : i \in {i \in Issue : LooksAtChild(p, i)}}
    /\ Return(p)
    /\ UNCHANGED <<rows, results, begun, edits, torn>>
    /\ Watch({p})
-----------------------------------------------------------------------------
Converts(p) ==
    \/ \E i \in Issue : ConvertCheck(p, i)
    \/ ConvertNumbers(p) \/ ConvertCommit(p) \/ ConvertRefused(p)

Kicks(p) ==
    \/ \E t \in Task : KickTask(p, t)
    \/ KickOrigin(p) \/ KickCommit(p)

Emits(p) ==
    \/ \E n \in criteria, t \in Test, v \in Verdict : EmitBegin(p, n, t, v)
    \/ EmitCommit(p) \/ ReadSatisfying(p)

Completes(p) ==
    \E t \in Task, s \in {"not_started", "in_progress", "complete"} : updateTaskStatus(p, t, s)

Moves(p) ==
    \/ \E c \in Child, s \in {"open", "done"} : ChildMoves(p, c, s)
    \/ ReadChild(p) \/ ReadPromoted(p)

Resolves(p) ==
    \/ ReadTask(p) \/ ReadIssues(p) \/ ReadLinks(p) \/ ReadLatest(p)
    \/ \E i \in Issue : ResolveOne(p, i)

Retires(p) ==
    \/ \E n \in Task, t \in Test : RetireRows(p, n, t)
    \/ RetireCommit(p)

Step(p) ==
    \/ Converts(p) \/ Kicks(p) \/ Emits(p) \/ Completes(p) \/ Moves(p) \/ Resolves(p)
    \/ Retires(p) \/ Fail(p)

Next == Someone \/ \E p \in Proc : Step(p)

Spec == Init /\ [][Next]_vars
-----------------------------------------------------------------------------
(* Types and the foreign keys: what an issue links to exists, a task's     *)
(* criterion exists and is its own, and results are about known numbers.   *)
TypeOK ==
    /\ issue \in [Issue -> [status : {"none", "open", "converted", "resolved", "wont_fix", "deleted"},
                            task : Task \cup {None}, child : Child \cup {None}]]
    /\ task \in [Task -> [status : {"none", "not_started", "in_progress", "complete", "deleted"},
                          seq : Task \cup {0}, ac : Task \cup {None}]]
    /\ criteria \subseteq Task
    /\ child \in [Child -> {"none", "open", "done"}]
    /\ log \subseteq Event
    /\ summary \in [Task -> [Test -> [at : 0..MaxEvents, verdict : Verdict]]]
    /\ clock \in 0..MaxEvents
    /\ edits \in 0..MaxEdits /\ begun \in 0..MaxCalls
    /\ \A i \in Issue : issue[i].task # None => issue[i].task \in Tasks
    /\ \A i \in Issue : issue[i].child # None => child[issue[i].child] # "none"
    /\ \A t \in Task : task[t].ac # None => t \in Tasks /\ task[t].ac \in criteria
    /\ \A t, u \in Tasks : t # u =>
           task[t].seq # task[u].seq /\ (task[t].ac = task[u].ac => task[t].ac = None)

(* A converted issue whose task is complete and whose criterion's latest   *)
(* result is a pass, or whose child Spec is done, always has a call under  *)
(* way that has yet to see it, unless the last such call was lost or a     *)
(* hand-set status or a retirement made it so: the two halves of the       *)
(* evidence arrive in either order, and neither call overlooks the other   *)
(* (updateTaskStatus, processOneEvent, updateDocStatus).                   *)
NothingStranded == \A i \in Issue :
    issue[i].status = "converted" =>
        /\ /\ Complete(i) /\ Ref(i) # None /\ Green(Ref(i))
           /\ <<i, "task">> \notin missed
           => \E p \in Proc : LooksAtTask(p, i)
        /\ ProvenByChild(i) /\ <<i, "child">> \notin missed
           => \E p \in Proc : LooksAtChild(p, i)

(* A resolving call closes an issue only when the log itself proves it:    *)
(* its task is complete and the newest result of its criterion is a pass,  *)
(* or its child Spec is done.  It can be wrong only about what someone     *)
(* else changed after it began, or after a retirement that overlapped a    *)
(* result (maybeAutoResolveIssuesForTask, verifyingAcIsGreen,              *)
(* applyEmissionToSummary).                                                *)
ResolvesOnEvidence == [][\A p \in Proc, i \in Issue :
    /\ pc[p] = "resolve" /\ i \in job[p].todo \ job'[p].todo
    /\ issue[i].status = "converted" /\ issue'[i].status = "resolved"
    /\ i \notin overtaken[p] /\ Ref(i) \notin torn
    => (Complete(i) /\ Passing(i)) \/ ProvenByChild(i)]_vars

(* A resolving call made for one task never closes an issue that by then   *)
(* is another task's.  issues.ts says the hook resolves "exactly when" the *)
(* satisfying task is complete; its UPDATE checks the status alone, and    *)
(* the issue may have been kicked back and converted anew meanwhile.       *)
NeverForAnotherTask == [][\A p \in Proc, i \in Issue :
    /\ pc[p] = "resolve" /\ i \in job[p].todo \ job'[p].todo
    /\ issue[i].status = "converted" /\ issue'[i].status = "resolved"
    /\ job[p].task # None
    => issue[i].task = job[p].task]_vars
=============================================================================
