------------------------------ MODULE Migration ------------------------------
(***************************************************************************)
(* init_db (hagent/db.py): every process, be it the server or one command,  *)
(* brings the database of an earlier release up to date before it does      *)
(* anything else.  The driver begins a transaction at the first INSERT or   *)
(* UPDATE and not before: each ALTER and CREATE that comes earlier is        *)
(* committed by itself, and what follows is committed as a whole.            *)
(***************************************************************************)
EXTENDS Integers, FiniteSets

CONSTANTS
    Starters,       \* processes that start on the same database
    Nobody,         \* no process has a write transaction open
    InitAttempts,   \* range(5) of init_db
    MaxRows,        \* bound: rows of a table
    MaxKills        \* bound: processes that are killed

ASSUME MigrationAssumption ==
    /\ Nobody \notin Starters /\ IsFiniteSet(Starters)
    /\ {InitAttempts, MaxRows} \subseteq Nat \ {0} /\ MaxKills \in Nat

\* The tables whose old shape has to go: autopilot_triggers with a mandatory cron_expression,
\* chat_threads with a title, chat_messages with an author; they are looked at in this order.
Tables == {"triggers", "threads", "messages"}
After(t) == [tables |-> "triggers", triggers |-> "threads", threads |-> "messages", messages |-> "none"][t]
Rows == 1 .. MaxRows

VARIABLES
    db,        \* what is committed: tables that are there, columns added, old shapes, copies, rows
    holder,    \* the process whose write transaction is open
    draft,     \* the database as that transaction has left it so far; what is committed if there is none
    starting,  \* where each process is in init_db, and what its inspector has cached
    defaults,  \* the workspaces that are called default
    written,   \* history: the rows that have been committed to each table
    kills      \* processes killed so far

migrationVars == <<db, holder, draft, starting, defaults, written, kills>>

Databases == [there : BOOLEAN, added : SUBSET Tables, old : SUBSET Tables, copies : SUBSET Tables,
              rows : [Tables -> SUBSET Rows], copied : [Tables -> SUBSET Rows],
              plain : BOOLEAN,      \* a skill has no emoji yet
              numbered : BOOLEAN]   \* every issue has its number
NotStarting == [at |-> "off", table |-> "none", old |-> {}, absent |-> FALSE, attempt |-> 0]
Places == {"off", "look", "add", "skills", "number", "create", "copy", "drop", "rename", "commit",
           "default", "insert", "up", "failed"}

MigrationTypeOK ==
    /\ db \in Databases /\ draft \in Databases
    /\ holder \in Starters \cup {Nobody}
    /\ starting \in [Starters -> [at : Places, table : Tables \cup {"tables", "none"}, old : SUBSET Tables,
                                  absent : BOOLEAN, attempt : 0 .. InitAttempts - 1]]
    /\ defaults \in 0 .. Cardinality(Starters)
    /\ written \in [Tables -> SUBSET Rows]
    /\ kills \in 0 .. MaxKills

\* A database of the first release, with skills or without, and one row in each of the old tables.
MigrationInit ==
    /\ \E plain \in BOOLEAN :
         db = [there |-> FALSE, added |-> {}, old |-> Tables, copies |-> {},
               rows |-> [t \in Tables |-> {1}], copied |-> [t \in Tables |-> {}],
               plain |-> plain, numbered |-> FALSE]
    /\ holder = Nobody /\ draft = db
    /\ starting = [p \in Starters |-> NotStarting]
    /\ defaults = 0
    /\ written = [t \in Tables |-> {1}]
    /\ kills = 0

IsAt(p, place) == starting[p].at = place
Sees(p) == IF holder = p THEN draft ELSE db
LockFree(p) == holder \in {Nobody, p}
Go(p, place, t) == starting' = [starting EXCEPT ![p].at = place, ![p].table = t]

\* Fault: the driver commits after every statement.
Execute_Autocommit(p, d) == db' = d /\ draft' = d /\ UNCHANGED holder

\* CREATE, ALTER and DROP: part of the transaction if there is one, committed by themselves if not.
Execute(p, d) ==
    IF holder = p THEN draft' = d /\ UNCHANGED <<db, holder>> ELSE db' = d /\ draft' = d /\ UNCHANGED holder

\* INSERT and UPDATE: they begin the transaction.
Modify(p, d) == holder' = p /\ draft' = d /\ UNCHANGED db

\* engine.begin rolls back what has not been committed.
RollBack(p) ==
    /\ IF holder = p THEN holder' = Nobody /\ draft' = db ELSE UNCHANGED <<holder, draft>>
    /\ UNCHANGED db

-----------------------------------------------------------------------------

BeginInit(p) ==
    /\ starting[p].at \in {"off", "failed"}
    /\ starting' = [starting EXCEPT ![p] = [NotStarting EXCEPT !.at = "look", !.table = "tables"]]
    /\ UNCHANGED <<db, holder, draft, defaults, written, kills>>

\* create_all lists the tables, and the inspector the columns of one table after the other: it
\* keeps what it has read for as long as this attempt lasts.
Look(p) ==
    LET t == starting[p].table
        absent == IF t = "tables" THEN ~db.there ELSE t \notin db.added
        looked == [starting[p] EXCEPT !.absent = absent, !.old = @ \cup ({t} \cap db.old)]
    IN  /\ IsAt(p, "look")
        /\ starting' = [starting EXCEPT ![p] = IF absent THEN [looked EXCEPT !.at = "add"]
                          ELSE IF After(t) = "none" THEN [looked EXCEPT !.at = "skills"]
                          ELSE [looked EXCEPT !.table = After(t)]]
        /\ UNCHANGED <<db, holder, draft, defaults, written, kills>>

\* What was missing is still missing: it is added.
Add(p) ==
    LET t == starting[p].table
    IN  /\ IsAt(p, "add") /\ LockFree(p)
        /\ IF t = "tables" THEN ~db.there /\ Execute(p, [db EXCEPT !.there = TRUE])
                           ELSE t \notin db.added /\ Execute(p, [db EXCEPT !.added = @ \cup {t}])
        /\ IF After(t) = "none" THEN Go(p, "skills", t) ELSE Go(p, "look", After(t))
        /\ UNCHANGED <<defaults, written, kills>>

\* Skills without an emoji get one, which begins the transaction.
SkillRows(p) ==
    /\ IsAt(p, "skills")
    /\ \/ db.plain /\ LockFree(p) /\ Modify(p, [Sees(p) EXCEPT !.plain = FALSE])
       \/ ~db.plain /\ UNCHANGED <<db, holder, draft>>
    /\ Go(p, "create", "triggers")
    /\ UNCHANGED <<defaults, written, kills>>

-----------------------------------------------------------------------------
(* The tables of the old shape are rebuilt: created anew, copied, dropped and renamed. *)

Rebuilt(t) == IF t = "triggers" THEN "number" ELSE IF t = "threads" THEN "create" ELSE "commit"
NextTable(t) == IF t = "triggers" THEN "triggers" ELSE After(t)

SkipRebuild(p) ==
    /\ IsAt(p, "create") /\ starting[p].table \notin starting[p].old
    /\ Go(p, Rebuilt(starting[p].table), NextTable(starting[p].table))
    /\ UNCHANGED <<db, holder, draft, defaults, written, kills>>

\* For the messages, the role and the content are taken from author and body, if these are there.
CreateCopy(p) ==
    LET t == starting[p].table
        d == [Sees(p) EXCEPT !.copies = @ \cup {t}, !.copied[t] = {}]
    IN  /\ IsAt(p, "create") /\ t \in starting[p].old /\ LockFree(p)
        /\ t \notin Sees(p).copies
        /\ t = "messages" => t \in Sees(p).old
        /\ IF t = "triggers" THEN Execute(p, d) ELSE Modify(p, d)
        /\ Go(p, "copy", t)
        /\ UNCHANGED <<defaults, written, kills>>

CopyRows(p) ==
    LET t == starting[p].table
    IN  /\ IsAt(p, "copy") /\ LockFree(p)
        /\ Modify(p, [Sees(p) EXCEPT !.copied[t] = Sees(p).rows[t]])
        /\ Go(p, "drop", t)
        /\ UNCHANGED <<defaults, written, kills>>

DropOld(p) ==
    LET t == starting[p].table
    IN  /\ IsAt(p, "drop")
        /\ Execute(p, [Sees(p) EXCEPT !.rows[t] = {}])
        /\ Go(p, "rename", t)
        /\ UNCHANGED <<defaults, written, kills>>

RenameCopy(p) ==
    LET t == starting[p].table
    IN  /\ IsAt(p, "rename")
        /\ Execute(p, [Sees(p) EXCEPT !.rows[t] = Sees(p).copied[t], !.copied[t] = {},
                                      !.copies = @ \ {t}, !.old = @ \ {t}])
        /\ Go(p, Rebuilt(t), NextTable(t))
        /\ UNCHANGED <<defaults, written, kills>>

\* The attachments are updated whether there are any or not: from here on there is a transaction.
NumberIssues(p) ==
    /\ IsAt(p, "number") /\ LockFree(p)
    /\ Modify(p, [Sees(p) EXCEPT !.numbered = TRUE])
    /\ Go(p, "create", "threads")
    /\ UNCHANGED <<defaults, written, kills>>

CommitSchema(p) ==
    /\ IsAt(p, "commit")
    /\ db' = Sees(p) /\ holder' = Nobody
    /\ Go(p, "default", "none")
    /\ UNCHANGED <<draft, defaults, written, kills>>

-----------------------------------------------------------------------------

\* get_or_create_default_workspace, which nothing keeps from inserting a second one.
LookForDefault(p) ==
    /\ IsAt(p, "default")
    /\ Go(p, IF defaults = 0 THEN "insert" ELSE "up", "none")
    /\ UNCHANGED <<db, holder, draft, defaults, written, kills>>

InsertDefault(p) ==
    /\ IsAt(p, "insert") /\ LockFree(p)
    /\ defaults' = defaults + 1
    /\ Go(p, "up", "none")
    /\ UNCHANGED <<db, holder, draft, written, kills>>

\* A process that is up writes rows, while another one may be upgrading.
WriteRow(p, t, r) ==
    /\ IsAt(p, "up") /\ holder = Nobody
    /\ r \notin written[t] /\ \A k \in Rows : k < r => k \in written[t]
    /\ db' = [db EXCEPT !.rows[t] = @ \cup {r}]
    /\ draft' = db'
    /\ written' = [written EXCEPT ![t] = @ \cup {r}]
    /\ UNCHANGED <<holder, starting, defaults, kills>>

\* The errors after which init_db begins again: what was to be made exists already, or the write
\* lock was not to be had within busy_timeout.
AlreadyThere(p) ==
    LET t == starting[p].table
    IN  \/ IsAt(p, "add") /\ (IF t = "tables" THEN db.there ELSE t \in db.added)
        \/ IsAt(p, "create") /\ t \in starting[p].old \cap Sees(p).copies
Locked(p) == ~LockFree(p) /\ starting[p].at \in {"add", "skills", "create", "copy", "number"}

Again(p) ==
    /\ AlreadyThere(p) \/ Locked(p)
    /\ starting' = [starting EXCEPT ![p] =
         IF starting[p].attempt + 1 = InitAttempts THEN [NotStarting EXCEPT !.at = "failed"]
         ELSE [NotStarting EXCEPT !.at = "look", !.table = "tables", !.attempt = starting[p].attempt + 1]]
    /\ RollBack(p)
    /\ UNCHANGED <<defaults, written, kills>>

\* Another process has rebuilt the messages since the inspector looked: there is no author any more.
NoSuchColumn(p) ==
    /\ IsAt(p, "create") /\ starting[p].table = "messages" /\ LockFree(p)
    /\ "messages" \in starting[p].old \ Sees(p).old
    /\ starting' = [starting EXCEPT ![p] = [NotStarting EXCEPT !.at = "failed"]]
    /\ RollBack(p)
    /\ UNCHANGED <<defaults, written, kills>>

\* A process is killed, or ends: SQLite forgets its transaction.
Killed(p) ==
    /\ ~IsAt(p, "off") /\ kills < MaxKills /\ kills' = kills + 1
    /\ starting' = [starting EXCEPT ![p] = NotStarting]
    /\ RollBack(p)
    /\ UNCHANGED <<defaults, written>>

MigrationNext == \E p \in Starters :
    \/ BeginInit(p) \/ Look(p) \/ Add(p) \/ SkillRows(p) \/ SkipRebuild(p) \/ CreateCopy(p)
    \/ CopyRows(p) \/ DropOld(p) \/ RenameCopy(p) \/ NumberIssues(p) \/ CommitSchema(p)
    \/ LookForDefault(p) \/ InsertDefault(p) \/ Again(p) \/ NoSuchColumn(p) \/ Killed(p)
    \/ \E t \in Tables, r \in Rows : WriteRow(p, t, r)

MigrationSpec == MigrationInit /\ [][MigrationNext]_migrationVars

-----------------------------------------------------------------------------

\* However many processes start at once, find the database locked, work from what their inspector
\* saw before the others, or are killed in the middle: no row of a table that is rebuilt is ever
\* missing from it, and a process that is up finds the schema it was written for.
RowsKept == \A t \in Tables : db.rows[t] = written[t]
StartedOnSchema == (\E p \in Starters : IsAt(p, "up")) =>
    db.there /\ db.added = Tables /\ db.old = {} /\ db.numbered /\ ~db.plain
UpgradeIsSafe == RowsKept /\ StartedOnSchema
=============================================================================
