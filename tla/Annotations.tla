----------------------------- MODULE Annotations -----------------------------
(***************************************************************************)
(* What people attach to an issue (labels, values of properties and of      *)
(* metadata, subscribers: hagent/cli.py, web.py) and what runs attach to a   *)
(* skill (lessons: hagent/engine.py).  Commands, pages and runs look whether *)
(* the row exists and insert it in a later transaction; of these tables only *)
(* the one of the labels has a key that keeps a second row out.  Lessons are *)
(* mirrored to a file when they have been committed.                         *)
(***************************************************************************)
EXTENDS Integers, FiniteSetsExt

CONSTANTS
    Annotators,         \* commands, pages and runs that write at the same time
    Lessons,            \* texts of lessons, redacted and shortened
    MaxAnnotations,     \* bound: those that are begun
    MaxAnnotationFaults \* bound: processes killed, transactions that find the database locked

ASSUME AnnotationAssumption ==
    /\ {MaxAnnotations, MaxAnnotationFaults} \subseteq Nat
    /\ IsFiniteSet(Annotators)
    /\ IsFiniteSet(Lessons)   \* texts are cut to a length

VARIABLES
    labelled,      \* the issue has the label
    values,        \* the rows that give the issue a value for one property (or key of metadata)
    subscribed,    \* the rows that subscribe one name to the issue
    skillThere,    \* the skill has not been deleted
    lesson,        \* for each text, the rows that hold it as a lesson of the skill
    improvement,   \* improvement_count of the skill
    mirror,        \* the notes of the skill on disk: whether there is a file, and the entries in it
    task,          \* what each annotator is about to write, and on which look at the rows
    annotations, annotationFaults,   \* how many so far
    learned,       \* history: for each text, the rows ever committed
    staleWrite     \* history: something was written on a look that another commit had outdated

annotationVars == <<labelled, values, subscribed, skillThere, lesson, improvement, mirror, task,
                    annotations, annotationFaults, learned, staleWrite>>

Counts == 0 .. MaxAnnotations
PerText == [Lessons -> Counts]
NoLessons == [t \in Lessons |-> 0]
NoFile == [there |-> FALSE, entries |-> NoLessons]
Resting == [op |-> "none", text |-> "none", found |-> FALSE, rows |-> 0, loaded |-> NoLessons, outdated |-> FALSE]

AnnotationsTypeOK ==
    /\ {labelled, skillThere, staleWrite} \subseteq BOOLEAN
    /\ {values, subscribed, improvement, annotations} \subseteq Counts
    /\ lesson \in PerText /\ learned \in PerText
    /\ mirror \in [there : BOOLEAN, entries : PerText]
    /\ task \in [Annotators -> [op : {"none", "label", "unlabel", "value", "unset", "subscribe", "unsubscribe",
                                      "learn", "delete", "note", "head", "append"},
                                text : Lessons \cup {"none"}, found : BOOLEAN, rows : Counts, loaded : PerText,
                                outdated : BOOLEAN]]
    /\ annotationFaults \in 0 .. MaxAnnotationFaults

AnnotationsInit ==
    /\ labelled = FALSE /\ values = 0 /\ subscribed = 0
    /\ skillThere = TRUE /\ improvement = 0
    /\ lesson = NoLessons /\ learned = lesson
    /\ mirror = NoFile
    /\ task = [w \in Annotators |-> Resting]
    /\ annotations = 0 /\ annotationFaults = 0 /\ staleWrite = FALSE

\* An annotator looks at the rows it is about to change.
Take(w, op, text, found, rows) ==
    /\ task[w].op = "none"
    /\ annotations < MaxAnnotations /\ annotations' = annotations + 1
    /\ task' = [task EXCEPT ![w] = [op |-> op, text |-> text, found |-> found, rows |-> rows,
                                  loaded |-> IF op = "delete" THEN lesson ELSE NoLessons, outdated |-> FALSE]]
    /\ UNCHANGED <<labelled, values, subscribed, skillThere, lesson, improvement, mirror, annotationFaults,
                   learned, staleWrite>>

\* A commit outdates what the others have looked at; its annotator goes on with the operation next.
Committed(w, next) ==
    /\ task' = [v \in Annotators |-> IF v = w THEN [Resting EXCEPT !.op = next, !.text = IF next = "none" THEN "none" ELSE task[w].text]
                                     ELSE [task[v] EXCEPT !.outdated = @ \/ task[v].op \notin {"none", "note", "head", "append"}]]
    /\ staleWrite' = (staleWrite \/ task[w].outdated)
    /\ UNCHANGED <<annotations, annotationFaults>>

-----------------------------------------------------------------------------
(* Labels, values and subscribers of an issue *)

AddLabel(w) == ~labelled /\ Take(w, "label", "none", FALSE, 0)
RemoveLabel(w) == labelled /\ Take(w, "unlabel", "none", TRUE, 1)

\* The second insert of a label meets the primary key, the second removal no row: both end in an error.
LabelCommit(w) ==
    /\ task[w].op \in {"label", "unlabel"}
    /\ labelled' = (task[w].op = "label")
    /\ Committed(w, "none")
    /\ UNCHANGED <<values, subscribed, skillThere, lesson, improvement, mirror, learned>>

SetValue(w) == Take(w, "value", "none", values > 0, 0)

\* A row that was found is updated, which fails if it is gone; none found is inserted.
SetValueCommit(w) ==
    /\ task[w].op = "value"
    /\ values' = values + (IF task[w].found THEN 0 ELSE 1)
    /\ Committed(w, "none")
    /\ UNCHANGED <<labelled, subscribed, skillThere, lesson, improvement, mirror, learned>>

\* Unsetting deletes the first row that was found, be there others or not.
UnsetValue(w) == values > 0 /\ Take(w, "unset", "none", TRUE, 1)

UnsetValueCommit(w) ==
    /\ task[w].op = "unset"
    /\ values' = Max({0, values - 1})
    /\ Committed(w, "none")
    /\ UNCHANGED <<labelled, subscribed, skillThere, lesson, improvement, mirror, learned>>

\* The page subscribes a name that is not there yet, the command any name.
Subscribe(w) == subscribed = 0 /\ Take(w, "subscribe", "none", FALSE, 0)

SubscribeAnyway(w) == Take(w, "subscribe", "none", FALSE, 0)

SubscribeCommit(w) ==
    /\ task[w].op = "subscribe"
    /\ subscribed' = subscribed + 1
    /\ Committed(w, "none")
    /\ UNCHANGED <<labelled, values, skillThere, lesson, improvement, mirror, learned>>

\* All the rows that were found are deleted.
Unsubscribe(w) == subscribed > 0 /\ Take(w, "unsubscribe", "none", TRUE, subscribed)

UnsubscribeCommit(w) ==
    /\ task[w].op = "unsubscribe"
    /\ subscribed' = Max({0, subscribed - task[w].rows})
    /\ Committed(w, "none")
    /\ UNCHANGED <<labelled, values, skillThere, lesson, improvement, mirror, learned>>

-----------------------------------------------------------------------------
(* Lessons of a skill *)

\* _learn_from_mistake: a text that the skill has already is not recorded again.
LearnFrom(w, t) == skillThere /\ lesson[t] = 0 /\ Take(w, "learn", t, FALSE, improvement)

\* Fault: the count is raised from the copy of the skill that was loaded.
RaisedCount_FromCopy(w) == task[w].rows + 1

\* improvement_count = improvement_count + 1, in the UPDATE.
RaisedCount(w) == improvement + 1

LearnCommit(w) ==
    /\ task[w].op = "learn"
    /\ lesson' = [lesson EXCEPT ![task[w].text] = @ + 1]
    /\ improvement' = IF skillThere THEN RaisedCount(w) ELSE improvement
    /\ learned' = [learned EXCEPT ![task[w].text] = @ + 1]
    /\ Committed(w, "note")
    /\ UNCHANGED <<labelled, values, subscribed, skillThere, mirror>>

Goes(w, next) ==
    /\ task' = [task EXCEPT ![w].op = next, ![w].text = IF next = "none" THEN "none" ELSE @]
    /\ UNCHANGED <<labelled, values, subscribed, skillThere, lesson, improvement, annotations, annotationFaults,
                   learned, staleWrite>>

\* _append_skill_note_file looks for the file, writes its heading if there is none, and appends.
LookForNotes(w) == task[w].op = "note" /\ Goes(w, IF mirror.there THEN "append" ELSE "head") /\ UNCHANGED mirror

WriteHeading(w) ==
    /\ task[w].op = "head" /\ Goes(w, "append")
    /\ mirror' = [NoFile EXCEPT !.there = TRUE]

AppendNote(w) ==
    /\ task[w].op = "append" /\ Goes(w, "none")
    /\ mirror' = [mirror EXCEPT !.there = TRUE, !.entries[task[w].text] = @ + 1]

\* The rows of the lessons that were loaded are deleted with the skill; a later one stays behind.
DeleteSkill(w) == skillThere /\ Take(w, "delete", "none", TRUE, 0)

DeleteSkillCommit(w) ==
    /\ task[w].op = "delete"
    /\ skillThere' = FALSE
    /\ lesson' = [t \in Lessons |-> Max({0, lesson[t] - task[w].loaded[t]})]
    /\ Committed(w, "none")
    /\ UNCHANGED <<labelled, values, subscribed, improvement, mirror, learned>>

\* A process is killed, or a transaction ends because the database stays locked.
GivesUp(w) ==
    /\ task[w].op # "none"
    /\ annotationFaults < MaxAnnotationFaults /\ annotationFaults' = annotationFaults + 1
    /\ task' = [task EXCEPT ![w] = Resting]
    /\ UNCHANGED <<labelled, values, subscribed, skillThere, lesson, improvement, mirror, annotations,
                   learned, staleWrite>>

AnnotationsNext == \E w \in Annotators :
    \/ AddLabel(w) \/ RemoveLabel(w) \/ LabelCommit(w)
    \/ SetValue(w) \/ SetValueCommit(w) \/ UnsetValue(w) \/ UnsetValueCommit(w)
    \/ Subscribe(w) \/ SubscribeAnyway(w) \/ SubscribeCommit(w) \/ Unsubscribe(w) \/ UnsubscribeCommit(w)
    \/ \E t \in Lessons : LearnFrom(w, t)
    \/ LearnCommit(w) \/ LookForNotes(w) \/ WriteHeading(w) \/ AppendNote(w)
    \/ DeleteSkill(w) \/ DeleteSkillCommit(w)
    \/ GivesUp(w)

AnnotationsSpec == AnnotationsInit /\ [][AnnotationsNext]_annotationVars

-----------------------------------------------------------------------------

\* improvement_count of a skill is the number of its lessons, even if two runs learn the same at the
\* same time; nothing is in the notes on disk that was not committed before ("so a failed
\* transaction can never leave a phantom lesson on disk"); and as long as no two of them overlap, a
\* property has one value and a text is one lesson.
LessonRows == UNION {{t} \X (1 .. lesson[t]) : t \in Lessons}
CountIsOfRows == skillThere => improvement = Cardinality(LessonRows)
NoPhantomNotes == \A t \in Lessons : mirror.entries[t] <= learned[t]
AttachedOnce == ~staleWrite => values <= 1 /\ \A t \in Lessons : lesson[t] <= 1
LessonsOnRecord == CountIsOfRows /\ NoPhantomNotes /\ AttachedOnce
=============================================================================
