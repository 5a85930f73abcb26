---------------------------- MODULE SharedMemory ----------------------------
(***************************************************************************)
(* The memory that all agents, commands and pages share (hagent/memory.py,  *)
(* with the callers in web.py, cli.py and memory_mcp.py).                   *)
(*                                                                         *)
(* Every operation of MemoryService works on rows that its session loaded   *)
(* before: between the load and the commit other processes (an MCP server   *)
(* per agent, the web server, the command line) commit too, and what was    *)
(* loaded is not read again.  A fact is a category with a text; texts that  *)
(* the duplicate test of remember takes for the same are one fact.          *)
(***************************************************************************)
EXTENDS Naturals, Sequences, FiniteSets

CONSTANTS
    Facts,          \* what can be remembered
    Projects,       \* projects of the workspace
    MemoryClients,  \* sessions that are open at a time
    MaxMemories,    \* bound: rows of memories
    MaxMemoryOps,   \* bound: operations
    MaxToggles      \* bound: changes of the settings

ASSUME MemoryAssumption ==
    /\ {MaxMemories, MaxMemoryOps, MaxToggles} \subseteq Nat
    /\ {"[forgotten]", "none"} \cap (Facts \cup Projects) = {}

VARIABLES
    memory,     \* the rows of memories
    revisions,  \* the contents in the revisions of a row
    enabled,    \* MemorySetting.enabled
    session,     \* what a session is doing, with the rows it has loaded
    memoryOps,  \* the number of operations so far
    toggles,    \* the number of changes of the settings
    held,       \* history: the contents that a row has had
    raced       \* history: rows that changed between a load and the commit relying on it

memoryVars == <<memory, revisions, enabled, session, memoryOps, toggles,
                held, raced>>

Memories == 1 .. MaxMemories
Scopes == Projects \cup {"global"}
Contents == Facts \cup {"[forgotten]"}
NoMemory == [status |-> "none", content |-> "none", scope |-> "global", by |-> 0]
Idle == [at |-> "idle", scope |-> "global", todo |-> <<>>, item |-> 0, copy |-> NoMemory,
         found |-> 0, match |-> NoMemory]

MemoryRow == [status : {"none", "active", "superseded", "deleted"},
              content : Contents \cup {"none"}, scope : Scopes, by : 0 .. MaxMemories]

MemoryTypeOK ==
    /\ memory \in [Memories -> MemoryRow]
    /\ \A m \in Memories : (memory[m].status = "superseded") <=> (memory[m].by # 0 /\
                                                            memory[m].status # "deleted")
    /\ revisions \in [Memories -> SUBSET Contents]
    /\ held \in [Memories -> SUBSET Contents]
    /\ enabled \in BOOLEAN
    /\ \A c \in MemoryClients :
         /\ session[c].at \in {"idle", "saving", "storing", "marking", "updating", "forgetting"}
         /\ session[c].at \in {"saving", "storing"} => session[c].todo # <<>>
         /\ session[c].at \in {"marking", "updating", "forgetting"} =>
              session[c].item \in Memories
    /\ memoryOps \in 0 .. MaxMemoryOps
    /\ toggles \in 0 .. MaxToggles
    /\ raced \subseteq Memories

MemoryInit ==
    /\ memory = [m \in Memories |-> NoMemory]
    /\ revisions = [m \in Memories |-> {}]
    /\ enabled = TRUE
    /\ session = [c \in MemoryClients |-> Idle]
    /\ memoryOps = 0 /\ toggles = 0
    /\ held = [m \in Memories |-> {}]
    /\ raced = {}

-----------------------------------------------------------------------------
(* Queries *)

\* base_query with the global rows: what a caller of a scope may name.
Owned(scope) == {m \in Memories : memory[m].status # "none" /\ memory[m].scope \in {scope, "global"}}

\* The content as a session sees it: a row it has loaded is not read again.
ContentSeen(c, m) == IF m = session[c].item THEN session[c].copy.content ELSE memory[m].content

\* Fault: superseded rows count as duplicates.
Duplicates_AnyStatus(c, fact) ==
    {m \in Memories : /\ memory[m].status \in {"active", "superseded"}
                      /\ memory[m].scope = session[c].scope
                      /\ ContentSeen(c, m) = fact}

\* The rows of exactly the caller's scope that say the same.  The time to live of a row only
\* hides it from search: here it counts although it may have run out.
Duplicates(c, fact) ==
    {m \in Memories : /\ memory[m].status = "active"
                      /\ memory[m].scope = session[c].scope
                      /\ ContentSeen(c, m) = fact}

Changed(m, copy) == memory[m] # copy

-----------------------------------------------------------------------------
(* What callers ask for *)

Begin(c, state) ==
    /\ session[c].at = "idle" /\ memoryOps < MaxMemoryOps
    /\ session' = [session EXCEPT ![c] = state]
    /\ memoryOps' = memoryOps + 1

\* A caller remembers one fact (memory_create, memory_remember, the MCP tool).
AskRemember(c, scope, fact) ==
    /\ Begin(c, [Idle EXCEPT !.at = "saving", !.scope = scope, !.todo = <<fact>>])
    /\ UNCHANGED <<memory, revisions, enabled, toggles, held, raced>>

\* A session is finished with its summary and what is left to do (automatic_extraction); the
\* row of the session is committed first, and a session may be finished again.
FinishMemorySession(c, scope, summary, unresolved) ==
    /\ Begin(c, [Idle EXCEPT !.at = "saving", !.scope = scope, !.todo = <<summary, unresolved>>])
    /\ UNCHANGED <<memory, revisions, enabled, toggles, held, raced>>

\* The rows of an export: deleted ones are left out by the import.
Export(scope) == {m \in Owned(scope) : memory[m].status # "deleted"}

\* What one scope exports, in the order of creation, is imported into a scope: import_data
\* remembers one row after the other, each in a transaction of its own, and takes superseded
\* rows for active ones.
AskImport(c, from, scope) ==
    /\ Export(from) # {}
    /\ \E order \in [1 .. Cardinality(Export(from)) -> Export(from)] :
         /\ \A i, j \in DOMAIN order : i < j => order[i] < order[j]
         /\ Begin(c, [Idle EXCEPT !.at = "saving", !.scope = scope,
                                  !.todo = [i \in DOMAIN order |-> memory[order[i]].content]])
    /\ UNCHANGED <<memory, revisions, enabled, toggles, held, raced>>

\* update loads a row that is not deleted, to write over its content ...
AskUpdate(c, scope, m, fact) ==
    /\ m \in Owned(scope) /\ memory[m].status # "deleted"
    /\ Begin(c, [Idle EXCEPT !.at = "updating", !.scope = scope, !.todo = <<fact>>, !.item = m,
                             !.copy = memory[m]])
    /\ UNCHANGED <<memory, revisions, enabled, toggles, held, raced>>

\* ... or to remember a replacement first.
AskSupersede(c, scope, m, fact) ==
    /\ m \in Owned(scope) /\ memory[m].status # "deleted"
    /\ Begin(c, [Idle EXCEPT !.at = "saving", !.scope = scope, !.todo = <<fact>>, !.item = m,
                             !.copy = memory[m]])
    /\ UNCHANGED <<memory, revisions, enabled, toggles, held, raced>>

AskForget(c, scope, m) ==
    /\ m \in Owned(scope)
    /\ Begin(c, [Idle EXCEPT !.at = "forgetting", !.scope = scope, !.item = m, !.copy = memory[m]])
    /\ UNCHANGED <<memory, revisions, enabled, toggles, held, raced>>

-----------------------------------------------------------------------------
(* remember *)

\* The duplicates are looked up and the embedding is computed, by a call to a provider.
LookUp(c) ==
    /\ session[c].at = "saving" /\ enabled
    /\ LET same == Duplicates(c, Head(session[c].todo))
       IN  \E found \in IF same = {} THEN {0} ELSE same :
             session' = [session EXCEPT ![c].at = "storing", ![c].found = found,
                          ![c].match = IF found = 0 THEN NoMemory ELSE memory[found]]
    /\ UNCHANGED <<memory, revisions, enabled, memoryOps, toggles, held, raced>>

\* remember raises while memory is disabled: what is left of the operation is dropped.
Refused(c) ==
    /\ session[c].at = "saving" /\ ~enabled
    /\ session' = [session EXCEPT ![c] = Idle]
    /\ UNCHANGED <<memory, revisions, enabled, memoryOps, toggles, held, raced>>

\* What follows when a fact is in row m, which looked like this.
AfterStored(c, m, row) ==
    LET s == session[c]
    IN  session' = [session EXCEPT ![c] =
            IF Len(s.todo) > 1 THEN [s EXCEPT !.at = "saving", !.todo = Tail(s.todo), !.found = 0,
                                              !.match = NoMemory]
            ELSE IF s.item # 0 THEN [s EXCEPT !.at = "marking", !.found = m, !.match = row]
            ELSE Idle]

\* The duplicate gets a revision; neither its content nor its expiry changes.
Merge(c) ==
    /\ session[c].at = "storing" /\ session[c].found # 0
    /\ LET m == session[c].found
       IN  /\ revisions' = [revisions EXCEPT ![m] = @ \cup {session[c].match.content}]
           /\ raced' = IF Changed(m, session[c].match) THEN raced \cup {m} ELSE raced
           /\ AfterStored(c, m, session[c].match)
    /\ UNCHANGED <<memory, enabled, memoryOps, toggles, held>>

StoreNew(c) ==
    /\ session[c].at = "storing" /\ session[c].found = 0
    /\ \E m \in Memories :
         /\ memory[m].status = "none" /\ \A k \in 1 .. m - 1 : memory[k].status # "none"
         /\ LET fact == Head(session[c].todo)
            IN  /\ memory' = [memory EXCEPT ![m] = [NoMemory EXCEPT !.status = "active",
                                 !.content = fact, !.scope = session[c].scope]]
                /\ revisions' = [revisions EXCEPT ![m] = {fact}]
                /\ held' = [held EXCEPT ![m] = {fact}]
         /\ AfterStored(c, m, memory'[m])
    /\ UNCHANGED <<enabled, memoryOps, toggles, raced>>

-----------------------------------------------------------------------------
(* update and forget, with the row as it was loaded *)

\* A change of the loaded row: a revision with its loaded content, then the change.
Write(c, row) ==
    LET m == session[c].item
        copy == session[c].copy
    IN  /\ memory' = [memory EXCEPT ![m] = row]
        /\ revisions' = [revisions EXCEPT ![m] = @ \cup {copy.content}]
        /\ held' = [held EXCEPT ![m] = @ \cup {row.content}]
        /\ raced' = IF Changed(m, copy) THEN raced \cup {m} ELSE raced
        /\ session' = [session EXCEPT ![c] = Idle]

MarkSuperseded(c) ==
    /\ session[c].at = "marking"
    /\ LET m == session[c].item
           found == session[c].found
       IN  /\ memory' = [memory EXCEPT ![m].by = found,
                            ![m].status = IF session[c].copy.status = "superseded" THEN @
                                          ELSE "superseded"]
           /\ revisions' = [revisions EXCEPT ![m] = @ \cup {session[c].copy.content}]
           /\ raced' = raced \cup {k \in {m} : Changed(m, session[c].copy)}
                             \cup {k \in {found} : Changed(found, session[c].match)}
           /\ session' = [session EXCEPT ![c] = Idle]
    /\ UNCHANGED <<enabled, memoryOps, toggles, held>>

\* Fault: the revision is taken after the change.
CommitUpdate_RevisedLate(c) ==
    /\ session[c].at = "updating"
    /\ LET m == session[c].item
           fact == Head(session[c].todo)
       IN  /\ memory' = [memory EXCEPT ![m].content = fact]
           /\ revisions' = [revisions EXCEPT ![m] = @ \cup {fact}]
           /\ held' = [held EXCEPT ![m] = @ \cup {fact}]
           /\ session' = [session EXCEPT ![c] = Idle]
    /\ UNCHANGED <<enabled, memoryOps, toggles, raced>>

\* An attribute that is set to the value that was loaded is not written.
CommitUpdate(c) ==
    /\ session[c].at = "updating"
    /\ LET m == session[c].item
           fact == Head(session[c].todo)
       IN  Write(c, [memory[m] EXCEPT !.content = IF fact = session[c].copy.content THEN @ ELSE fact])
    /\ UNCHANGED <<enabled, memoryOps, toggles>>

CommitForget(c) ==
    /\ session[c].at = "forgetting"
    /\ IF session[c].copy.status = "deleted"
       THEN /\ session' = [session EXCEPT ![c] = Idle]
            /\ UNCHANGED <<memory, revisions, held, raced>>
       ELSE Write(c, [memory[session[c].item] EXCEPT !.status = "deleted",
                                                    !.content = "[forgotten]"])
    /\ UNCHANGED <<enabled, memoryOps, toggles>>

-----------------------------------------------------------------------------

\* memory_settings: memory is switched on or off.
SaveMemorySettings ==
    /\ toggles < MaxToggles
    /\ enabled' = ~enabled
    /\ toggles' = toggles + 1
    /\ UNCHANGED <<memory, revisions, session, memoryOps, held, raced>>

\* A command is interrupted or the process of an MCP server ends.
ClientEnds(c) ==
    /\ session[c].at # "idle"
    /\ session' = [session EXCEPT ![c] = Idle]
    /\ UNCHANGED <<memory, revisions, enabled, memoryOps, toggles, held, raced>>

MemoryNext ==
    \/ \E c \in MemoryClients, s \in Scopes :
         \/ \E f \in Facts : \/ AskRemember(c, s, f)
                             \/ \E g \in Facts : FinishMemorySession(c, s, f, g)
         \/ \E from \in Scopes : AskImport(c, from, s)
         \/ \E m \in Memories : \/ AskForget(c, s, m)
                                \/ \E f \in Facts : AskUpdate(c, s, m, f) \/ AskSupersede(c, s, m, f)
    \/ \E c \in MemoryClients : \/ LookUp(c) \/ Refused(c) \/ Merge(c) \/ StoreNew(c)
                                \/ MarkSuperseded(c) \/ CommitUpdate(c) \/ CommitForget(c)
                                \/ ClientEnds(c)
    \/ SaveMemorySettings

MemorySpec == MemoryInit /\ [][MemoryNext]_memoryVars

-----------------------------------------------------------------------------

\* The audit trail is complete: each content that a memory has had is its content now or in
\* one of its revisions, unless two operations held the row at the same time (the docstrings
\* of memory_update and memory_forget in memory_mcp.py).
AuditKeepsContents ==
    \A m \in Memories \ raced : held[m] \subseteq revisions[m] \cup {memory[m].content}

\* Superseding loses nothing: from a superseded memory one comes to one that is not.  A set
\* of memories that replace each other holds one that was replaced by itself (its own content
\* was given again) or one that changed under an operation (update, the path of supersede).
SupersededIsReplaced ==
    \A C \in SUBSET {m \in Memories : memory[m].status = "superseded"} :
        C # {} /\ (\A m \in C : memory[m].by \in C) =>
            \E m \in C : memory[m].by = m \/ m \in raced
=============================================================================
