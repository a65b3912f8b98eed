----------------------------- MODULE Applications -----------------------------
(***************************************************************************)
(* The tools that work on the database (tools/email, tools/calculator.py,  *)
(* tools/db_tool.py): what each call reads, does outside and commits.      *)
(*                                                                         *)
(* A call is synchronous, so a process has one at a time, and calls of     *)
(* different processes meet in the database between any two statements.    *)
(* A statement may fail as in SchemaManager; every tool catches that and   *)
(* reports a failure.  Ids are never used twice (unique_rowid).             *)
(***************************************************************************)
EXTENDS SchemaManager, FiniteSets

CONSTANTS
    Sync,      \* the call id of the one synchronous call of a process
    Ids,       \* the ids of applications, 1..n: bounds the inserts
    Attempts   \* stop_after_attempt of the mail and of the model

ASSUME ApplicationsAssumption ==
    /\ Sync \in CallIds
    /\ Ids \subseteq Nat \ {0} /\ Attempts \in Nat \ {0}

VARIABLES
    apps,        \* the status of each application, "none" before it is inserted
    nextId,      \* the sequence of the ids
    filled,      \* the other tables that have rows
    call,        \* the tool call of each process
    mails,       \* history: the mails delivered for an application, two standing for more
    doubtful,    \* history: applications with a mail that its send could not confirm
    overlapped,  \* history: applications with two sends at once
    written,     \* history: applications that a statement of query_database wrote
    reported     \* history: what calls have reported with success

toolVars == <<apps, nextId, filled, call, mails, doubtful, overlapped, written, reported>>
outcomes == <<apps, nextId, filled, mails, overlapped, written>>

AppStatuses == {"none", "draft", "sent", "gone"}
Savers == {"store", "load", "calculate"}
Queries == {"select", "insert", "returning", "write", "update"}
Ops == {"send", "delete", "draft", "list", "resumes"} \cup Queries \cup Savers
TableFor(op) == IF op = "calculate" THEN "calculations" ELSE "resumes"

NoCall == [op |-> "none", at |-> "idle", app |-> 0, tries |-> 0, made |-> FALSE]

ToolsTypeOK ==
    /\ apps \in [Ids -> AppStatuses] /\ nextId \in Nat \ {0}
    /\ \A a \in Ids : apps[a] # "none" => a < nextId
    /\ filled \subseteq {"resumes", "calculations"}
    /\ call \in [Processes -> [op : Ops \cup {"none"}, app : Ids \cup {0}, tries : 0..Attempts - 1,
                               made : BOOLEAN,
                               at : {"idle", "begun", "checked", "ready", "open", "done"}]]
    /\ mails \in [Ids -> 0..2]
    /\ doubtful \subseteq Ids /\ overlapped \subseteq Ids /\ written \subseteq Ids
    /\ reported \subseteq Ops \X (Ids \cup {0})

\* Drafts of earlier sessions may be there, and a resume with them.
ToolsInit(drafts) ==
    /\ apps = [a \in Ids |-> IF a \in drafts THEN "draft" ELSE "none"]
    /\ nextId = 1 + Cardinality(drafts)
    /\ filled = IF drafts = {} THEN {} ELSE {"resumes"}
    /\ call = [p \in Processes |-> NoCall]
    /\ mails = [a \in Ids |-> 0]
    /\ doubtful = {} /\ overlapped = {} /\ written = {} /\ reported = {}

-----------------------------------------------------------------------------
(* What all tools share.                                                   *)

InCall(p) == call[p].at # "idle"
At(p, op, step) == call[p].op = op /\ call[p].at = step
HasConn(p) == conn[p][Sync] \in Conns

MoveTo(p, step) == call' = [call EXCEPT ![p].at = step]
\* The call is over; "open": without a commit, so a transaction is open still.
Finish(p, end) == call' = [call EXCEPT ![p] = [NoCall EXCEPT !.at = end]]
Succeed(p, end, a) == Finish(p, end) /\ reported' = reported \cup {<<call[p].op, a>>}

Sending(p, a) == call[p].op = "send" /\ call[p].app = a /\ call[p].at \in {"checked", "ready"}
InDoubt(p) == IF At(p, "send", "ready") THEN {call[p].app} ELSE {}

StartCall(p, op, a) ==
    /\ ~InCall(p)
    /\ call' = [call EXCEPT ![p] = [NoCall EXCEPT !.op = op, !.app = a, !.at = "begun"]]
    /\ UNCHANGED <<outcomes, doubtful, reported>>

\* The tool reports a failure: no connection, no such row, table or file, an
\* application that was sent, a query that is not safe, or a statement, a model or
\* a mail server that fails.
FailCall(p) ==
    /\ call[p].at \in {"begun", "checked", "ready"}
    /\ doubtful' = doubtful \cup InDoubt(p)
    /\ Finish(p, "open")
    /\ UNCHANGED <<outcomes, reported>>

\* A process ends in the middle of a call.
ForgetCall(p) ==
    /\ doubtful' = doubtful \cup InDoubt(p)
    /\ call' = [call EXCEPT ![p] = NoCall]
    /\ UNCHANGED <<outcomes, reported>>

-----------------------------------------------------------------------------
(* send_email.                                                             *)

\* Mutant of CheckSend: the status is not looked at.
CheckExists(p) ==
    /\ At(p, "send", "begun") /\ HasConn(p)
    /\ apps[call[p].app] \in {"draft", "sent"}
    /\ MoveTo(p, "checked")
    /\ UNCHANGED <<outcomes, doubtful, reported>>

CheckSend(p) ==
    /\ At(p, "send", "begun") /\ HasConn(p)
    /\ {"applications", "resumes"} \subseteq tables
    /\ apps[call[p].app] = "draft"
    /\ MoveTo(p, "checked")
    /\ overlapped' = IF \E q \in Processes : Sending(q, call[p].app)
                     THEN overlapped \cup {call[p].app} ELSE overlapped
    /\ UNCHANGED <<apps, nextId, filled, mails, doubtful, written, reported>>

Deliver(a) == mails' = [mails EXCEPT ![a] = IF @ = 2 THEN 2 ELSE @ + 1]

MailSent(p) ==
    /\ At(p, "send", "checked")
    /\ Deliver(call[p].app)
    /\ call' = [call EXCEPT ![p].at = "ready", ![p].tries = 0]
    /\ UNCHANGED <<apps, nextId, filled, overlapped, doubtful, written, reported>>

\* The server may have taken the mail before the connection broke.
MaybeDelivered(a) ==
    \/ Deliver(a) /\ doubtful' = doubtful \cup {a}
    \/ UNCHANGED <<mails, doubtful>>

\* Mutant of RetryMail: the attempts start again after the last one.
RetryForever(p) ==
    /\ At(p, "send", "checked")
    /\ MaybeDelivered(call[p].app)
    /\ call' = [call EXCEPT ![p].tries = (@ + 1) % Attempts]
    /\ UNCHANGED <<apps, nextId, filled, overlapped, written, reported>>

\* Mutant of RetryMail: one attempt too many.
RetryOnceMore(p) ==
    /\ At(p, "send", "checked") /\ call[p].tries < Attempts
    /\ MaybeDelivered(call[p].app)
    /\ call' = [call EXCEPT ![p].tries = @ + 1]
    /\ UNCHANGED <<apps, nextId, filled, overlapped, written, reported>>

\* An error that send_with_retry retries, short of the last attempt.
RetryMail(p) ==
    /\ At(p, "send", "checked") /\ call[p].tries + 1 < Attempts
    /\ MaybeDelivered(call[p].app)
    /\ call' = [call EXCEPT ![p].tries = @ + 1]
    /\ UNCHANGED <<apps, nextId, filled, overlapped, written, reported>>

\* Any other error, or the last attempt.
MailFails(p) ==
    /\ At(p, "send", "checked")
    /\ MaybeDelivered(call[p].app)
    /\ Finish(p, "open")
    /\ UNCHANGED <<apps, nextId, filled, overlapped, written, reported>>

\* UPDATE ... WHERE id, and the commit, though the row may be gone.
CommitSend(p) ==
    /\ At(p, "send", "ready") /\ "applications" \in tables
    /\ apps' = [apps EXCEPT ![call[p].app] = IF @ = "draft" THEN "sent" ELSE @]
    /\ Succeed(p, "done", call[p].app)
    /\ UNCHANGED <<nextId, filled, mails, overlapped, doubtful, written>>

-----------------------------------------------------------------------------
(* delete_draft, draft_application, list_applications, list_resumes.       *)

CheckDelete(p) ==
    /\ At(p, "delete", "begun") /\ HasConn(p)
    /\ "applications" \in tables
    /\ apps[call[p].app] = "draft"
    /\ MoveTo(p, "ready")
    /\ UNCHANGED <<outcomes, doubtful, reported>>

\* Mutant of CommitDelete: DELETE ... WHERE id alone.
DeleteAny(p) ==
    /\ At(p, "delete", "ready") /\ "applications" \in tables
    /\ apps' = [apps EXCEPT ![call[p].app] = "gone"]
    /\ Succeed(p, "done", call[p].app)
    /\ UNCHANGED <<nextId, filled, mails, overlapped, doubtful, written>>

\* DELETE ... WHERE id AND status = 'draft', and the commit.
CommitDelete(p) ==
    /\ At(p, "delete", "ready") /\ "applications" \in tables
    /\ apps' = [apps EXCEPT ![call[p].app] = IF @ = "draft" THEN "gone" ELSE @]
    /\ Succeed(p, "done", call[p].app)
    /\ UNCHANGED <<nextId, filled, mails, overlapped, doubtful, written>>

CheckDraft(p) ==
    /\ At(p, "draft", "begun") /\ HasConn(p)
    /\ "resumes" \in tables \cap filled
    /\ MoveTo(p, "checked")
    /\ UNCHANGED <<outcomes, doubtful, reported>>

\* _call_llm, which is retried on any error.
AskModel(p) ==
    /\ At(p, "draft", "checked")
    /\ \/ call' = [call EXCEPT ![p].at = "ready", ![p].tries = 0]
       \/ call[p].tries + 1 < Attempts /\ call' = [call EXCEPT ![p].tries = @ + 1]
    /\ UNCHANGED <<outcomes, doubtful, reported>>

\* INSERT of a draft, committed.
InsertDraft(p) ==
    /\ nextId \in Ids /\ "applications" \in tables
    /\ apps' = [apps EXCEPT ![nextId] = "draft"]
    /\ nextId' = nextId + 1
    /\ Succeed(p, "done", nextId)
    /\ UNCHANGED <<filled, mails, overlapped, doubtful, written>>

CommitDraft(p) == At(p, "draft", "ready") /\ InsertDraft(p)

Look(p, op, t) ==
    /\ At(p, op, "begun") /\ HasConn(p)
    /\ t \in tables
    /\ Finish(p, "open")
    /\ UNCHANGED <<outcomes, doubtful, reported>>

ListApplications(p) == Look(p, "list", "applications")
ListResumes(p) == Look(p, "resumes", "resumes")

-----------------------------------------------------------------------------
(* query_database.                                                         *)

\* is_safe_query looks at the kind of the whole statement: it blocks an UPDATE and
\* a DELETE, not what an INSERT does on a conflict or changes in a WITH clause, nor
\* an ALTER TABLE that renames.
IsSafeQuery(op) == op \in {"select", "insert", "returning", "write"}

QuerySelect(p) == IsSafeQuery("select") /\ Look(p, "select", "applications")

\* A plain INSERT, which leaves id and status to the table.
QueryInsert(p) ==
    /\ At(p, "insert", "begun") /\ IsSafeQuery("insert") /\ HasConn(p)
    /\ InsertDraft(p)

\* With RETURNING the cursor has rows, and the branch that fetches them does not
\* commit: success is reported, and only the sequence has moved.
QueryReturning(p) ==
    /\ At(p, "returning", "begun") /\ IsSafeQuery("returning") /\ HasConn(p)
    /\ nextId \in Ids /\ "applications" \in tables
    /\ nextId' = nextId + 1
    /\ Succeed(p, "open", nextId)
    /\ UNCHANGED <<apps, filled, mails, overlapped, doubtful, written>>

QueryBegun(p) == At(p, "write", "begun") /\ IsSafeQuery("write") /\ HasConn(p)

\* Any other statement that passes and returns no rows is committed.  On the
\* applications: a row is inserted with a status or an id of its own, or a row
\* that is or was there changes, is deleted or inserted again.
QueryApplications(p) ==
    /\ QueryBegun(p) /\ "applications" \in tables
    /\ \E a \in Ids, status \in {"draft", "sent", "gone"} :
        /\ apps[a] = "none" => a = nextId /\ status # "gone"
        /\ apps' = [apps EXCEPT ![a] = status]
        /\ nextId' = IF a = nextId THEN nextId + 1 ELSE nextId
        /\ written' = written \cup {a}
    /\ Finish(p, "done")
    /\ UNCHANGED <<filled, mails, doubtful, overlapped, reported>>

\* The rows of a table are gone with it.
DropRows(t) ==
    /\ filled' = filled \ {t}
    /\ apps' = IF t = "applications"
               THEN [a \in Ids |-> IF apps[a] = "none" THEN "none" ELSE "gone"] ELSE apps

\* On a table itself, or on the rows of another one: it is made, renamed away, or
\* written.
CreateTable(t) ==
    /\ tables' = tables \cup {t}
    /\ UNCHANGED <<records, altered, apps, filled, written>>

RenameTable(t) ==
    /\ t \in tables /\ tables' = tables \ {t}
    /\ altered' = altered \cup {t}
    /\ records' = IF t = Tracking THEN {} ELSE records
    /\ DropRows(t)
    /\ written' = written \cup {a \in Ids : apps'[a] # apps[a]}

WriteTable(t) ==
    /\ t \in tables \ {"applications"}
    /\ altered' = altered \cup {t}
    /\ records' \in IF t = Tracking THEN SUBSET Keys ELSE {records}
    /\ filled' \in IF t \in {"resumes", "calculations"}
                  THEN {filled \cup {t}, filled \ {t}} ELSE {filled}
    /\ UNCHANGED <<tables, apps, written>>

QueryTables(p) ==
    /\ QueryBegun(p)
    /\ \E t \in Tables : CreateTable(t) \/ RenameTable(t) \/ WriteTable(t)
    /\ Finish(p, "done")
    /\ UNCHANGED <<initialized, mig, undone, crossed, unverified, nextId, mails, doubtful,
                   overlapped, reported>>

-----------------------------------------------------------------------------
(* store_resume, load_resume_from_pdf and calculate make their table       *)
(* themselves if it is missing, in the transaction of their INSERT.        *)

\* load_resume_from_pdf reads the file before it calls store_resume.
ReadFile(p) ==
    /\ At(p, "load", "begun")
    /\ MoveTo(p, "checked")
    /\ UNCHANGED <<outcomes, doubtful, reported>>

CanSave(p) ==
    /\ HasConn(p)
    /\ \/ call[p].op \in {"store", "calculate"} /\ call[p].at = "begun"
       \/ At(p, "load", "checked")

CheckSave(p) ==
    LET t == TableFor(call[p].op) IN
    /\ CanSave(p)
    /\ call' = [call EXCEPT ![p].at = "ready", ![p].made = t \notin tables]
    /\ UNCHANGED <<outcomes, doubtful, reported>>

\* The stored resume is as new as the file: success without a commit.
UpToDate(p) ==
    /\ CanSave(p) /\ call[p].op # "calculate"
    /\ "resumes" \in tables \cap filled
    /\ Succeed(p, "open", 0)
    /\ UNCHANGED <<outcomes, doubtful>>

\* Mutant of CommitSave: the commit is missing.
SaveUncommitted(p) ==
    /\ call[p].op \in Savers /\ call[p].at = "ready"
    /\ Succeed(p, "done", 0)
    /\ UNCHANGED <<tables, outcomes, doubtful>>

CommitSave(p) ==
    LET t == TableFor(call[p].op) IN
    /\ call[p].op \in Savers /\ call[p].at = "ready"
    /\ call[p].made <=> t \notin tables
    /\ tables' = tables \cup {t}
    /\ filled' = filled \cup {t}
    /\ Succeed(p, "done", 0)
    /\ UNCHANGED <<apps, nextId, mails, overlapped, doubtful, written>>

\* Without a connection, calculate answers and says that nothing was stored.
Calculate(p) ==
    /\ At(p, "calculate", "begun") /\ ~HasConn(p)
    /\ Finish(p, "done")
    /\ UNCHANGED <<outcomes, doubtful, reported>>

\* A table is dropped with its rows, and what was saved there is no longer promised.
ForgetRows(t) ==
    /\ DropRows(t)
    /\ reported' = {r \in reported : r[1] \notin Savers \/ TableFor(r[1]) # t}
    /\ UNCHANGED <<nextId, call, mails, doubtful, overlapped, written>>

-----------------------------------------------------------------------------
\* The steps of a call that leave the tables of the database alone.
ToolStep(p) ==
    \/ FailCall(p)
    \/ CheckSend(p) \/ MailSent(p) \/ RetryMail(p) \/ MailFails(p) \/ CommitSend(p)
    \/ CheckDelete(p) \/ CommitDelete(p) \/ CheckDraft(p) \/ AskModel(p) \/ CommitDraft(p)
    \/ ListApplications(p) \/ ListResumes(p)
    \/ QuerySelect(p) \/ QueryInsert(p) \/ QueryReturning(p) \/ QueryApplications(p)
    \/ ReadFile(p) \/ CheckSave(p) \/ UpToDate(p) \/ Calculate(p)

EndCall(p) ==
    /\ call[p].at \in {"open", "done"}
    /\ call' = [call EXCEPT ![p] = NoCall]
    /\ UNCHANGED <<outcomes, doubtful, reported>>

-----------------------------------------------------------------------------
\* A sent application was mailed; a mailed one is not left a draft, nor mailed
\* again, but for a mail its send could not confirm (an error or a crash after the
\* server took it) or for two sends of it at once.  Of an application that a
\* statement of query_database wrote, none of this can be said.
ExactlyOnceUnlessInDoubt ==
    \A a \in Ids \ written :
        /\ apps[a] = "sent" => mails[a] > 0
        /\ mails[a] > 0 /\ apps[a] = "draft" =>
            a \in doubtful \/ \E p \in Processes : Sending(p, a) /\ call[p].at = "ready"
        /\ mails[a] > 1 => a \in doubtful \cup overlapped

\* What a call has reported with success is in the database, whatever the other
\* process does: a send is not a draft again, a deleted draft is gone unless a send
\* was under way, a draft that was inserted is not lost, a saved row is there.
\* Excepted are rows and tables that a statement of query_database wrote since, and
\* a row that its INSERT with RETURNING reported, which is rolled back (QueryReturning).
ReportsDurable ==
    \A r \in reported :
        /\ r[1] \in {"send", "delete", "draft", "insert"} /\ r[2] \notin written =>
            /\ r[1] = "send" => apps[r[2]] \in {"sent", "gone"}
            /\ r[1] = "delete" => apps[r[2]] = "gone" \/ (apps[r[2]] = "sent" /\ mails[r[2]] > 0)
            /\ r[1] \in {"draft", "insert"} => apps[r[2]] # "none"
        /\ r[1] \in Savers /\ TableFor(r[1]) \notin altered =>
            TableFor(r[1]) \in tables \cap filled

\* An application that was sent or deleted changes in two ways only, whatever any
\* process does: its table is dropped in a rollback, or a statement of
\* query_database writes it.
ApplicationsFinal ==
    [][\A a \in Ids : apps[a] \in {"sent", "gone"} /\ apps'[a] # apps[a] =>
        \/ apps'[a] = "gone" /\ "applications" \notin tables'
        \/ \E p \in Processes : At(p, "write", "begun") /\ call'[p].at = "done"]_apps

=============================================================================
