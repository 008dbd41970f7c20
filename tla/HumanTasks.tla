------------------------------ MODULE HumanTasks ------------------------------
(***************************************************************************)
(* Review tasks one person owes another (app/human_tasks.py): assignment,  *)
(* due dates and a closed state machine.  A request reads the task, tests  *)
(* the caller's part against that row and then writes with one conditional *)
(* UPDATE; requests of several people overlap.  Every change leaves an     *)
(* event row, so the events are the task's history.                        *)
(***************************************************************************)
EXTENDS Naturals, Sequences

CONSTANTS
    Staff,          \* members of the firm
    Managers,       \* edit permission and the manager's role on the case
    Reviewers,      \* approve permission and a reviewing role
    Workers,        \* edit permission on the case
    Tasks, Days,
    Unassigned, NoDay, NoTask, Legacy,
    MaxEvents       \* bound on the changes of one task

Ended == {"done", "cancelled"}
TaskStatuses == {"open", "started", "review"} \cup Ended

TaskRow == [status : TaskStatuses, assignee : Staff \cup {Unassigned},
            due : Days \cup {NoDay}, version : Nat]

ASSUME TaskConstants ==
    /\ Managers \subseteq Workers /\ Workers \subseteq Staff /\ Reviewers \subseteq Staff
    /\ Unassigned \notin Staff /\ NoDay \notin Days
    /\ NoTask \notin TaskRow
    /\ MaxEvents \in Nat

VARIABLES
    task,       \* the row of each task, or NoTask
    events,     \* its event rows, in order
    move        \* the action request each person has open, with the row it read

taskVars == <<task, events, move>>

------------------------------------------------------------------------------
(* Mistakes the code could contain; PROJECT.json pairs each with the        *)
(* definition it replaces and the property that must notice it.             *)

UnmovedStatus(t, row) == task[t] # NoTask /\ task[t].status = row.status

------------------------------------------------------------------------------

TaskInit ==
    /\ task = [t \in Tasks |-> NoTask]
    /\ events = [t \in Tasks |-> <<>>]
    /\ move = [p \in Staff |-> NoTask]

\* Who may be given a task: a member with edit rights on the case.  (One who is
\* deactivated at that moment is refused too; the model takes them as active.)
CanAssign(m) == m \in Workers

CreateTask(p, t, m, d) ==
    /\ p \in Managers
    /\ task[t] = NoTask
    /\ m # Unassigned => CanAssign(m)
    /\ task' = [task EXCEPT ![t] =
            [status |-> "open", assignee |-> m, due |-> d, version |-> 1]]
    /\ events' = [events EXCEPT ![t] =
            <<[action |-> "create", by |-> p, to |-> "open", value |-> <<m, d>>,
               basis |-> 0]>>]
    /\ UNCHANGED move

CanWork(p, row) == p \in Workers /\ (p = row.assignee \/ p \in Managers)

\* What each action requires of the caller and of the row the request read.
Allowed(p, row, action, m) ==
    \/ action = "start"    /\ CanWork(p, row) /\ row.status = "open"
                           /\ row.assignee # Unassigned
    \/ action = "submit"   /\ CanWork(p, row) /\ row.status = "started"
    \/ action = "return"   /\ p \in Reviewers /\ row.status \in {"review", "started"}
    \/ action = "complete" /\ p \in Reviewers /\ row.status = "review"
    \/ action = "cancel"   /\ p \in Managers  /\ row.status \notin Ended
    \/ action = "assign"   /\ p \in Managers  /\ row.status \notin Ended /\ CanAssign(m)
    \/ action = "due"      /\ p \in Managers  /\ row.status \notin Ended

Actions == {"start", "submit", "return", "complete", "cancel", "assign", "due"}

NextStage(status, action) ==
    CASE action = "start"    -> "started"
      [] action = "submit"   -> "review"
      [] action = "return"   -> "open"
      [] action = "complete" -> "done"
      [] action = "cancel"   -> "cancelled"
      [] OTHER               -> status

\* PATCH up to the UPDATE.  expected is the version on the caller's page, which
\* may be any the task has had (Legacy pages send none); value is the member to
\* assign or the new due date.
ReadTask(p, t, action, value, expected) ==
    LET row == task[t]
    IN  /\ move[p] = NoTask
        /\ row # NoTask
        /\ Len(events[t]) < MaxEvents
        /\ Allowed(p, row, action, value)
        /\ expected \in {row.version, Legacy}
        /\ move' = [move EXCEPT ![p] =
                [task |-> t, action |-> action, value |-> value, row |-> row,
                 basis |-> expected]]
        /\ UNCHANGED <<task, events>>

\* The conditional UPDATE tests the version and the status that were read.
Unmoved(t, row) ==
    /\ task[t] # NoTask
    /\ task[t].version = row.version /\ task[t].status = row.status

WriteTask(p) ==
    LET a == move[p]
        to == NextStage(a.row.status, a.action)
    IN  /\ a # NoTask
        /\ Unmoved(a.task, a.row)
        /\ task' = [task EXCEPT ![a.task] =
                [status   |-> IF a.action \in {"assign", "due"} THEN @.status ELSE to,
                 assignee |-> IF a.action = "assign" THEN a.value ELSE @.assignee,
                 due      |-> IF a.action = "due" THEN a.value ELSE @.due,
                 version  |-> @.version + 1]]
        /\ events' = [events EXCEPT ![a.task] = Append(@,
                [action |-> a.action, by |-> p, to |-> to, value |-> a.value,
                 basis |-> a.basis])]
        /\ move' = [move EXCEPT ![p] = NoTask]

RefuseTask(p) ==
    /\ move[p] # NoTask
    /\ ~Unmoved(move[p].task, move[p].row)
    /\ move' = [move EXCEPT ![p] = NoTask]
    /\ UNCHANGED <<task, events>>

Values(action) ==
    CASE action = "assign" -> Staff
      [] action = "due"    -> Days \cup {NoDay}
      [] OTHER             -> {NoDay}

TaskNext ==
    \E p \in Staff :
        \/ \E t \in Tasks, m \in Staff \cup {Unassigned}, d \in Days \cup {NoDay} :
               CreateTask(p, t, m, d)
        \/ \E t \in Tasks, action \in Actions, expected \in 1 .. MaxEvents \cup {Legacy} :
               \E value \in Values(action) : ReadTask(p, t, action, value, expected)
        \/ WriteTask(p) \/ RefuseTask(p)

TaskSpec == TaskInit /\ [][TaskNext]_taskVars

------------------------------------------------------------------------------
TaskTypeOK ==
    /\ task \in [Tasks -> TaskRow \cup {NoTask}]
    /\ \A t \in Tasks : /\ Len(events[t]) \in 0 .. MaxEvents + 1
                        /\ \A k \in DOMAIN events[t] :
                              events[t][k].by \in Staff /\ events[t][k].to \in TaskStatuses
    /\ \A p \in Staff : move[p] # NoTask =>
            move[p].task \in Tasks /\ move[p].action \in Actions /\ move[p].row \in TaskRow

\* The row an event leaves, given the row before it.
After(row, e) ==
    [status   |-> e.to,
     assignee |-> IF e.action = "assign" THEN e.value ELSE row.assignee,
     due      |-> IF e.action = "due" THEN e.value ELSE row.due,
     version  |-> row.version + 1]

\* The row the first k events of a task lead to.
Replayed(t) ==
    LET log == events[t]
        row[k \in 1 .. Len(log)] ==
            IF k = 1
            THEN [status |-> "open", assignee |-> log[1].value[1],
                  due |-> log[1].value[2], version |-> 1]
            ELSE After(row[k - 1], log[k])
    IN  row

\* The event rows are the whole truth about a task: replaying them in order
\* gives its row, each step was legal for the row it changed (not merely for
\* the row the request had read), and an event of a page that sent a version
\* stands right after the change that made that version.
EventsTellTheTask ==
    \A t \in Tasks : task[t] # NoTask =>
        LET row == Replayed(t)
            log == events[t]
        IN  /\ row[Len(log)] = task[t]
            /\ \A k \in 2 .. Len(log) :
                  /\ log[k].to = NextStage(row[k - 1].status, log[k].action)
                  /\ row[k - 1].status \notin Ended
                  /\ log[k].action \in {"start", "submit"} =>
                        CanWork(log[k].by, row[k - 1])
                  /\ log[k].basis \in {k - 1, Legacy}
==============================================================================
