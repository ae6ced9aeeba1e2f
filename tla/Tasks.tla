------------------------------- MODULE Tasks -------------------------------
(***************************************************************************)
(* The tasks and notes of internal/todo.  A note is a task on the list the *)
(* server keeps under the slug "notes"; a task nobody filed goes to the    *)
(* list under "inbox"; both lists are made when something first asks.  A   *)
(* route is a chain of single statements with no transaction around them,  *)
(* and the web, the assistant's tools and the import run at once.          *)
(* Titles, dates and ordinals are left out.                                *)
(***************************************************************************)
EXTENDS Naturals, FiniteSetsExt, Functions

CONSTANTS
    Requests,   \* routes and tool calls that may run at once
    MaxTasks,   \* bound: task ids given out
    MaxLists    \* bound: list ids given out

VARIABLES
    lists,      \* todo_lists: id -> slug ("none" for one a person made)
    tasks,      \* todo_tasks: id -> [list, status, stamped]
    nextList,   \* the AUTOINCREMENT of each table
    nextTask,
    request     \* what each route is doing

table == <<lists, tasks, nextList, nextTask>>
vars == <<table, request>>

ListIds == 1 .. MaxLists
TaskIds == 1 .. MaxTasks
Slugs == {"none", "notes", "inbox"}
Statuses == {"todo", "done"}
Row == [list : ListIds, status : Statuses, stamped : BOOLEAN]

NoTask == [list |-> 0, status |-> "todo", stamped |-> FALSE]
NoRequest == [op |-> "none", by |-> "none", list |-> 0, task |-> 0,
              status |-> "todo", seen |-> NoTask, at |-> "none"]

TypeOK ==
    /\ DOMAIN lists \subseteq 1 .. nextList - 1
    /\ \A l \in DOMAIN lists : lists[l] \in Slugs
    /\ DOMAIN tasks \subseteq 1 .. nextTask - 1
    /\ \A t \in DOMAIN tasks : tasks[t] \in Row /\ tasks[t].list \in DOMAIN lists
    /\ nextList \in 1 .. MaxLists + 1 /\ nextTask \in 1 .. MaxTasks + 1
    /\ request \in [Requests ->
           [op : {"none", "add", "note", "unlist", "tick", "erase"},
            by : {"none", "web", "tool", "note"},
            list : {0} \cup ListIds, task : {0} \cup TaskIds, status : Statuses,
            seen : {NoTask} \cup Row,
            at : {"none", "create", "insert", "read", "write", "erase",
                  "clear", "unlist"}]]

Init ==
    /\ lists = <<>> /\ tasks = <<>> /\ nextList = 1 /\ nextTask = 1
    /\ request = [r \in Requests |-> NoRequest]

Begin(r, req) ==
    /\ request[r] = NoRequest
    /\ request' = [request EXCEPT ![r] = req]
    /\ UNCHANGED table

Reply(r) == request' = [request EXCEPT ![r] = NoRequest]
At(r, at) == request[r].at = at

\* A table with one more row.
Insertion(rows, id, row) ==
    [x \in DOMAIN rows \cup {id} |-> IF x = id THEN row ELSE rows[x]]

-----------------------------------------------------------------------------
(* Lists                                                                   *)

Kept(slug) == {l \in DOMAIN lists : lists[l] = slug}

\* The row of a new list; its slug is empty or taken by no other list (the
\* partial unique index).
InsertList(slug) ==
    /\ nextList <= MaxLists
    /\ lists' = Insertion(lists, nextList, slug)
    /\ nextList' = nextList + 1

\* Where a route goes once it has the list the server keeps for it: a note or
\* an unfiled task onto that list; a change to a task on, unless its guard
\* refuses: requireNote all but notes, requireTask notes.
Placed(q, l) ==
    IF q.op \in {"add", "note"} THEN [q EXCEPT !.list = l, !.at = "insert"]
    ELSE IF (q.list = l) /= (q.by = "note") THEN NoRequest
    ELSE [q EXCEPT !.list = 0, !.at = IF q.op = "erase" THEN "erase" ELSE "read"]

SlugOf(q) == IF q.op = "add" THEN "inbox" ELSE "notes"

\* NotesList and inboxList: read by slug.  A list the server keeps stays once
\* it is made, so that reading it along with what was read before (the task,
\* the lists in sight) loses nothing.
Sought(q) ==
    IF Kept(SlugOf(q)) = {} THEN [q EXCEPT !.at = "create"]
    ELSE Placed(q, CHOOSE l \in Kept(SlugOf(q)) : TRUE)

\* ... and create; the loser of a race reads again.
Create(r) ==
    LET q == request[r] IN
    /\ At(r, "create")
    /\ \/ /\ Kept(SlugOf(q)) = {}
          /\ InsertList(SlugOf(q))
          /\ request' = [request EXCEPT ![r] = Placed(q, nextList)]
          /\ UNCHANGED <<tasks, nextTask>>
       \/ /\ Kept(SlugOf(q)) /= {}
          /\ request' = [request EXCEPT ![r] = Sought(q)]
          /\ UNCHANGED table

\* CreateList; the tool's tasks follow one at a time (AddTo), and an error
\* tells its caller how far they got.
MakeList ==
    /\ InsertList("none")
    /\ UNCHANGED <<tasks, nextTask, request>>

\* Service.DeleteList: a list the server keeps is refused, ...
BeginUnlist(r, l) ==
    /\ l \in DOMAIN lists /\ lists[l] = "none"
    /\ Begin(r, [NoRequest EXCEPT !.op = "unlist", !.list = l, !.at = "clear"])

\* ... then its tasks are deleted, ...
ClearList(r) ==
    /\ At(r, "clear")
    /\ tasks' = Restrict(tasks, {t \in DOMAIN tasks : tasks[t].list /= request[r].list})
    /\ request' = [request EXCEPT ![r].at = "unlist"]
    /\ UNCHANGED <<lists, nextList, nextTask>>

\* ... then the list, whose key takes along what was added in between.
DeleteList(r) ==
    /\ At(r, "unlist")
    /\ lists' = Restrict(lists, DOMAIN lists \ {request[r].list})
    /\ tasks' = Restrict(tasks, {t \in DOMAIN tasks : tasks[t].list /= request[r].list})
    /\ Reply(r)
    /\ UNCHANGED <<nextList, nextTask>>

-----------------------------------------------------------------------------
(* Tasks                                                                   *)

\* Mutant: the id of a deleted task is given out again (no AUTOINCREMENT).
NewTask_Reused ==
    IF DOMAIN tasks = {} THEN 1
    ELSE 1 + Max(DOMAIN tasks)

NewTask == nextTask

\* The list is looked up, and its key checked by the insert.
InsertTask(l, s) ==
    /\ l \in DOMAIN lists /\ nextTask <= MaxTasks
    /\ tasks' = Insertion(tasks, NewTask, [list |-> l, status |-> s, stamped |-> s = "done"])
    /\ nextTask' = NewTask + 1
    /\ UNCHANGED <<lists, nextList>>

\* CreateTask on a list the caller names, with a status it may choose.
AddTo(l, s) == InsertTask(l, s) /\ UNCHANGED request

\* CreateNote
BeginNote(r) == Begin(r, Sought([NoRequest EXCEPT !.op = "note"]))

\* addTaskHandler without a list asks for the default one: the only list in
\* sight that is not the notes, the inbox when there is none, no answer when
\* there are several.  Any list may be archived (UpdateList) and out of sight.
BeginUnfiled(r) ==
    \E sight \in SUBSET (DOMAIN lists \ Kept("notes")) :
        LET q == [NoRequest EXCEPT !.op = "add"] IN
        \/ sight = {} /\ Begin(r, Sought(q))
        \/ \E l \in sight : sight = {l} /\ Begin(r, Placed(q, l))

\* CreateTask on the list that was found; it may be gone by now.
Insert(r) ==
    /\ At(r, "insert") /\ Reply(r)
    /\ \/ InsertTask(request[r].list, "todo")
       \/ request[r].list \notin DOMAIN lists /\ UNCHANGED table

\* A change to a task.  The web names any task, the tools for tasks refuse a
\* note (requireTask) and the routes for notes refuse a task (requireNote).
\* What an edit leaves alone it writes back as read, status included, so that
\* to this model an edit is a tick.
BeginChange(r, op, by, t) ==
    LET q == [NoRequest EXCEPT !.op = op, !.by = by, !.task = t] IN
    IF by = "web" THEN op = "tick" /\ Begin(r, [q EXCEPT !.at = "read"])
    ELSE Begin(r, Sought([q EXCEPT !.list = tasks[t].list]))

\* UpdateTask reads the row, ...
Read(r) ==
    LET t == request[r].task IN
    /\ At(r, "read")
    /\ IF t \notin DOMAIN tasks THEN Reply(r)
       ELSE \E s \in Statuses :
                request' = [request EXCEPT ![r].seen = tasks[t], ![r].status = s,
                                           ![r].at = "write"]
    /\ UNCHANGED table

\* completed_at follows the status.
Stamp(status, seen) ==
    CASE status = "done" /\ seen.status /= "done" -> TRUE
      [] status /= "done" -> FALSE
      [] OTHER -> seen.stamped

\* ... and writes it whole, its list excepted.
Write(r) ==
    LET t == request[r].task
        s == request[r].status IN
    /\ At(r, "write")
    /\ tasks' = IF t \notin DOMAIN tasks THEN tasks
                ELSE [tasks EXCEPT ![t].status = s,
                                   ![t].stamped = Stamp(s, request[r].seen)]
    /\ Reply(r)
    /\ UNCHANGED <<lists, nextList, nextTask>>

\* DeleteTask: the web's on its own, the others' behind their guard.
EraseTask(t) ==
    /\ tasks' = Restrict(tasks, DOMAIN tasks \ {t})
    /\ UNCHANGED <<lists, nextList, nextTask>>

Erase(r) == At(r, "erase") /\ EraseTask(request[r].task) /\ Reply(r)
EraseAny(t) == EraseTask(t) /\ UNCHANGED request

\* A statement fails, or the server stops: the route goes no further.
Fail(r) == request[r] /= NoRequest /\ Reply(r) /\ UNCHANGED table

-----------------------------------------------------------------------------
Start(r) ==
    \/ \E l \in DOMAIN lists : BeginUnlist(r, l)
    \/ BeginUnfiled(r) \/ BeginNote(r)
    \/ \E op \in {"tick", "erase"}, by \in {"web", "tool", "note"} :
           \E t \in DOMAIN tasks : BeginChange(r, op, by, t)

Step(r) ==
    \/ Create(r) \/ ClearList(r) \/ DeleteList(r)
    \/ Insert(r) \/ Read(r) \/ Write(r) \/ Erase(r)

Next ==
    \/ \E r \in Requests : Start(r) \/ Step(r) \/ Fail(r)
    \/ MakeList
    \/ \E l \in DOMAIN lists, s \in Statuses : AddTo(l, s)
    \/ \E t \in DOMAIN tasks : EraseAny(t)

Spec == Init /\ [][Next]_vars

-----------------------------------------------------------------------------
(* Properties                                                              *)

\* Past its check
Checked(r) == request[r].at \in {"read", "write", "erase"}

\* The check of a route and its effect are statements apart, and lists and
\* tasks come and go between them; still a route for notes changes nothing
\* but notes, and a tool for tasks no note (requireNote, requireTask).
RoutesKeepToTheirKind ==
    \A r \in Requests : Checked(r) /\ request[r].task \in DOMAIN tasks =>
        LET note == lists[tasks[request[r].task].list] = "notes" IN
        /\ request[r].by = "note" => note
        /\ request[r].by = "tool" => ~note

\* However edits overlap, a task has a completion time exactly when it is
\* done (Service.UpdateTask: the status decides, from a row read before).
DoneIsStamped == \A t \in DOMAIN tasks : tasks[t].stamped <=> tasks[t].status = "done"

=============================================================================
