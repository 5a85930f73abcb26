-------------------------------- MODULE Board --------------------------------
(***************************************************************************)
(* The issues of a database and the comments on one of them (hagent/        *)
(* models.py, tenancy.py, keys.py, cli.py, web.py).  Commands and pages     *)
(* each read what they need, let the hooks of the ORM number and check what *)
(* they are about to write, and write it afterwards; the database neither   *)
(* enforces foreign keys nor keeps numbers or parents consistent.           *)
(***************************************************************************)
EXTENDS Integers, FiniteSets, FiniteSetsExt

CONSTANTS
    Writers,         \* commands and pages that write at the same time, each over a connection of its own
    BoardProjects,   \* projects,
    Elsewhere,       \*   and those of them that belong to a second workspace
    MaxIssues,       \* bound: issues
    MaxComments,     \* bound: comments on the issue that is looked at
    MaxBoardEdits,   \* bound: commands and pages that are begun
    MaxBoardFaults   \* bound: processes that are killed, and writes that find the database locked

ASSUME BoardAssumption ==
    /\ Elsewhere \subseteq BoardProjects /\ "none" \notin BoardProjects
    /\ {MaxIssues, MaxComments, MaxBoardEdits, MaxBoardFaults} \subseteq Nat

VARIABLES
    issue,       \* the rows of issues: project, number, parent (0 is NULL)
    comment,     \* the rows of comments: status (none, there, gone), parent (0 is NULL)
    attachment,  \* comment_id of the one attachment: -1 if there is none, 0 is NULL
    handedOut,   \* connection.info: the last number a connection has given in a workspace
    writing,     \* op, at; what it has read and will write; outdated: someone has committed since
    boardEdits, boardFaults,   \* how many so far
    outran         \* history: a command has written what it decided on before another commit

boardVars == <<issue, comment, attachment, handedOut, writing, boardEdits, boardFaults, outran>>

IssueIds == 1 .. MaxIssues
CommentIds == 1 .. MaxComments
Workspace(p) == p \in Elsewhere
NoIssueRow == [project |-> "none", number |-> 0, parent |-> 0]
NoComment == [status |-> "none", parent |-> 0]
IssueRows == [project : BoardProjects, number : 1 .. MaxBoardEdits, parent : IssueIds \cup {0}]
NotWriting == [op |-> "none", id |-> 0, row |-> NoIssueRow, doomed |-> {}, detaches |-> FALSE, outdated |-> FALSE]

BoardTypeOK ==
    /\ issue \in [IssueIds -> IssueRows \cup {NoIssueRow}]
    /\ comment \in [CommentIds -> [status : {"none", "there", "gone"}, parent : CommentIds \cup {0}]]
    /\ attachment \in {-1, 0} \cup CommentIds
    /\ handedOut \in [Writers -> [BOOLEAN -> 0 .. MaxBoardEdits]]
    /\ \A w \in Writers :
         /\ writing[w].op \in {"none", "create", "move", "reply", "delete", "upload"}
         /\ writing[w].id \in 0 .. Max({MaxIssues, MaxComments})
         /\ writing[w].row \in IssueRows \cup {NoIssueRow} /\ writing[w].doomed \subseteq CommentIds
    /\ boardEdits \in 0 .. MaxBoardEdits /\ boardFaults \in 0 .. MaxBoardFaults

BoardInit ==
    /\ issue = [i \in IssueIds |-> NoIssueRow]
    /\ comment = [c \in CommentIds |-> NoComment]
    /\ attachment = -1
    /\ handedOut = [w \in Writers |-> [ws \in BOOLEAN |-> 0]]
    /\ writing = [w \in Writers |-> NotWriting]
    /\ boardEdits = 0 /\ boardFaults = 0 /\ outran = FALSE

IssuesIn(ws) == {i \in IssueIds : issue[i] # NoIssueRow /\ Workspace(issue[i].project) = ws}
Thread == {c \in CommentIds : comment[c].status = "there"}
NextComment(c) == comment[c] = NoComment /\ \A k \in CommentIds : k < c => comment[k] # NoComment

Busy(w) == writing[w].op # "none"
BeginEdit(w) == ~Busy(w) /\ boardEdits < MaxBoardEdits /\ boardEdits' = boardEdits + 1 /\ UNCHANGED <<boardFaults, outran>>

\* A commit makes whatever the other writers have read outdated.
Commit(w) ==
    /\ writing' = [v \in Writers |-> IF v = w THEN NotWriting ELSE [writing[v] EXCEPT !.outdated = Busy(v)]]
    /\ outran' = (outran \/ writing[w].outdated)
    /\ UNCHANGED <<boardEdits, boardFaults>>

-----------------------------------------------------------------------------
(* Issues *)

\* An id, or a key such as HAG-12, names the issues with that number: resolve_issue_ref takes one.
Resolved(ws, n) == {i \in IssuesIn(ws) : issue[i].number = n}

\* Fault: only the first number is taken from the database.
NextNumber_OwnMemory(w, ws) ==
    IF handedOut[w][ws] > 0 THEN handedOut[w][ws] + 1 ELSE Max({0} \cup {issue[i].number : i \in IssuesIn(ws)}) + 1

\* _assign_issue_number: one more than the workspace holds and than this connection has given.
NextNumber(w, ws) ==
    Max({Max({0} \cup {issue[i].number : i \in IssuesIn(ws)}), handedOut[w][ws]}) + 1

\* The issues above a parent, nearest first, as the flush hook walks them; 0 above the last.
Above(parent) ==
    LET up[k \in 0 .. MaxIssues] == IF k = 0 THEN parent
                                    ELSE IF up[k - 1] = 0 THEN 0 ELSE issue[up[k - 1]].parent
    IN  up

\* scope_writes: the walk comes to an end, does not meet the issue, and stays in its project.
Permitted(i, project, parent) ==
    LET up == Above(parent)
    IN  up[MaxIssues] = 0 /\ \A k \in 0 .. MaxIssues : up[k] # 0 => up[k] # i /\ issue[up[k]].project = project

\* issue_create and create_issue: the parent is looked up in the workspace, the hooks check and
\* number the row before it is inserted.
CreateIssue(w, p, parent) ==
    LET ws == Workspace(p)
        n == NextNumber(w, ws)
    IN  /\ BeginEdit(w) /\ parent \in IssuesIn(ws) \cup {0}
        /\ Permitted(0, p, parent)
        /\ handedOut' = [handedOut EXCEPT ![w][ws] = n]
        /\ writing' = [writing EXCEPT ![w] = [NotWriting EXCEPT !.op = "create",
                         !.row = [project |-> p, number |-> n, parent |-> parent]]]
        /\ UNCHANGED <<issue, comment, attachment>>

CreateIssueCommit(w) ==
    /\ writing[w].op = "create"
    /\ \E i \in {j \in IssueIds : issue[j] = NoIssueRow /\ \A k \in IssueIds : k < j => issue[k] # NoIssueRow} :
         issue' = [issue EXCEPT ![i] = writing[w].row]
    /\ Commit(w)
    /\ UNCHANGED <<comment, attachment, handedOut>>

\* issue_update --parent; '' takes the parent away.
MoveIssue(w, i, parent) ==
    /\ BeginEdit(w) /\ issue[i] # NoIssueRow
    /\ parent \in IssuesIn(Workspace(issue[i].project)) \cup {0} /\ parent # issue[i].parent
    /\ Permitted(i, issue[i].project, parent)
    /\ writing' = [writing EXCEPT ![w] = [NotWriting EXCEPT !.op = "move", !.id = i, !.row = [issue[i] EXCEPT !.parent = parent]]]
    /\ UNCHANGED <<issue, comment, attachment, handedOut>>

MoveIssueCommit(w) ==
    /\ writing[w].op = "move"
    /\ issue' = [issue EXCEPT ![writing[w].id].parent = writing[w].row.parent]
    /\ Commit(w)
    /\ UNCHANGED <<comment, attachment, handedOut>>

-----------------------------------------------------------------------------
(* The comments on an issue *)

\* The page adds a comment without looking at anything else.
AddComment(w, c) ==
    /\ ~Busy(w) /\ boardEdits < MaxBoardEdits /\ boardEdits' = boardEdits + 1
    /\ NextComment(c)
    /\ comment' = [comment EXCEPT ![c].status = "there"]
    /\ writing' = [v \in Writers |-> [writing[v] EXCEPT !.outdated = Busy(v)]]
    /\ UNCHANGED <<issue, attachment, handedOut, boardFaults, outran>>

\* issue_comment_add --parent and attachment_upload --comment look the comment up first.
Answer(w, op, c) ==
    /\ BeginEdit(w) /\ c \in Thread
    /\ op = "upload" => attachment = -1
    /\ writing' = [writing EXCEPT ![w] = [NotWriting EXCEPT !.op = op, !.id = c]]
    /\ UNCHANGED <<issue, comment, attachment, handedOut>>

ReplyCommit(w, c) ==
    /\ writing[w].op = "reply"
    /\ NextComment(c)
    /\ comment' = [comment EXCEPT ![c] = [status |-> "there", parent |-> writing[w].id]]
    /\ Commit(w)
    /\ UNCHANGED <<issue, attachment, handedOut>>

UploadCommit(w) ==
    /\ writing[w].op = "upload"
    /\ attachment' = writing[w].id
    /\ Commit(w)
    /\ UNCHANGED <<issue, comment, handedOut>>

\* The comments below a comment: those a search reaches in as many rounds as there are comments.
RepliesTo(C) == {c \in Thread : comment[c].parent \in C}
Below(c) ==
    LET reached[k \in 0 .. MaxComments] == IF k = 0 THEN {c} ELSE reached[k - 1] \cup RepliesTo(reached[k - 1])
    IN  reached[MaxComments]

\* issue_comment_delete: the comment and all that answers it; its attachments go to the issue.
Doomed(c) == Below(c)

DeleteComment(w, c) ==
    /\ BeginEdit(w) /\ c \in Thread
    /\ writing' = [writing EXCEPT ![w] = [NotWriting EXCEPT !.op = "delete", !.doomed = Doomed(c), !.detaches = attachment \in Doomed(c)]]
    /\ UNCHANGED <<issue, comment, attachment, handedOut>>

DeleteCommentCommit(w) ==
    /\ writing[w].op = "delete"
    /\ comment' = [c \in CommentIds |-> IF c \in writing[w].doomed THEN [comment[c] EXCEPT !.status = "gone"] ELSE comment[c]]
    /\ attachment' = IF writing[w].detaches THEN 0 ELSE attachment
    /\ Commit(w)
    /\ UNCHANGED <<issue, handedOut>>

-----------------------------------------------------------------------------

\* The database stays locked for longer than busy_timeout: the command ends, its connection remembers.
LockedOut(w) ==
    /\ Busy(w) /\ boardFaults < MaxBoardFaults /\ boardFaults' = boardFaults + 1
    /\ writing' = [writing EXCEPT ![w] = NotWriting]
    /\ UNCHANGED <<issue, comment, attachment, handedOut, boardEdits, outran>>

\* The process ends, as every command does, and the next one opens a connection of its own.
WriterEnds(w) ==
    /\ boardFaults < MaxBoardFaults /\ boardFaults' = boardFaults + 1
    /\ writing' = [writing EXCEPT ![w] = NotWriting]
    /\ handedOut' = [handedOut EXCEPT ![w] = [ws \in BOOLEAN |-> 0]]
    /\ UNCHANGED <<issue, comment, attachment, boardEdits, outran>>

BoardNext == \E w \in Writers :
    \/ \E p \in BoardProjects, parent \in IssueIds \cup {0} : CreateIssue(w, p, parent)
    \/ \E i \in IssueIds, parent \in IssueIds \cup {0} : MoveIssue(w, i, parent)
    \/ CreateIssueCommit(w) \/ MoveIssueCommit(w)
    \/ \E c \in CommentIds : AddComment(w, c) \/ DeleteComment(w, c) \/ ReplyCommit(w, c)
                             \/ \E op \in {"reply", "upload"} : Answer(w, op, c)
    \/ UploadCommit(w) \/ DeleteCommentCommit(w)
    \/ LockedOut(w) \/ WriterEnds(w)

BoardSpec == BoardInit /\ [][BoardNext]_boardVars

-----------------------------------------------------------------------------

\* A key names one issue of a workspace ("Numbers are per workspace and assigned when an issue is
\* inserted", keys.py), whatever connections have given numbers, failed and ended before; and
\* everything that hangs below something hangs below something that exists and that is not below
\* it: an issue has finitely many issues above it, all of its project, so that the hook which walks
\* them lets it be written again; what answers a comment or is attached to it does not outlive it
\* ("Delete a comment and any replies to it").  This is so as long as no two commands overlap, and
\* no sequence of inserts, moves, answers, deletions, failures and restarts can break it.
NumbersUnique ==
    \A ws \in BOOLEAN : \A i \in IssuesIn(ws) : Resolved(ws, issue[i].number) = {i}

IssuesFormTrees == \A i \in IssueIds :
    LET up == Above(issue[i].parent)
    IN  up[MaxIssues] = 0 /\ \A k \in 0 .. MaxIssues : up[k] # 0 => issue[up[k]].project = issue[i].project
RepliesHaveParents ==
    /\ \A c \in Thread : comment[c].parent \in Thread \cup {0}
    /\ attachment \in Thread \cup {-1, 0}
BoardConsistent == ~outran => NumbersUnique /\ IssuesFormTrees /\ RepliesHaveParents
=============================================================================
