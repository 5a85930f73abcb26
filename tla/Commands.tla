------------------------------ MODULE Commands ------------------------------
(***************************************************************************)
(* How a command line reaches the database (hagent/warm.py, remote.py and   *)
(* remote_api.py).  A command asks the warm process whose address is in the *)
(* state file and runs by itself if anything looks wrong; a command that is *)
(* sent to a server runs there in a child process, one at a time, and the   *)
(* child asks the warm process of that machine.                             *)
(***************************************************************************)
EXTENDS Naturals, FiniteSets

CONSTANTS
    Commands,    \* command lines
    MaxWarm      \* bound: warm processes

ASSUME CommandsAssumption == MaxWarm \in Nat

VARIABLES
    command,     \* what has become of a command line
    executed,    \* how often it has run
    warm,        \* the warm processes; holds: the command that has run_lock
    stateFile,   \* the warm process named in warm.json, 0 if there is no file
    stopping,    \* `warm stop` has sent its request and not yet removed the file
    remoteLock,  \* the command that has _run_lock of the server
    codeEdited,  \* the code has changed since the first warm process started
    cut          \* history: commands whose warm process ended, or whose reply was too large,
                 \* after it had begun to run them

commandVars == <<command, executed, warm, stateFile, stopping, remoteLock, codeEdited, cut>>

Warm == 1 .. MaxWarm
NoWarm == [at |-> "none", holds |-> "none", outdated |-> FALSE]
NotIssued == [at |-> "none", server |-> 0, end |-> "none"]

CommandsTypeOK ==
    /\ \A c \in Commands :
         /\ command[c].at \in {"none", "queued", "start", "connecting", "sent", "running", "replying",
                               "direct", "done"}
         /\ command[c].end \in {"none", "refused", "timeout"}
         /\ command[c].server \in Warm \cup {0}
         /\ executed[c] \in 0 .. 2
    /\ \A s \in Warm : /\ warm[s].at \in {"none", "starting", "up", "ending", "gone"}
                       /\ warm[s].holds \in Commands \cup {"none"}
    /\ stateFile \in Warm \cup {0}
    /\ remoteLock \in Commands \cup {"none"}
    /\ {stopping, codeEdited} \subseteq BOOLEAN
    /\ cut \subseteq Commands

CommandsInit ==
    /\ command = [c \in Commands |-> NotIssued]
    /\ executed = [c \in Commands |-> 0]
    /\ warm = [s \in Warm |-> NoWarm]
    /\ stateFile = 0 /\ stopping = FALSE /\ remoteLock = "none" /\ codeEdited = FALSE /\ cut = {}

Alive(s) == s # 0 /\ warm[s].at \in {"up", "ending"}
Become(c, at) == command' = [command EXCEPT ![c].at = at]

\* The command is over, and with it the child of the server.
Leave(c, at) == command' = [command EXCEPT ![c].at = at, ![c].server = 0]
Done(c) == Leave(c, "done") /\ remoteLock' = IF remoteLock = c THEN "none" ELSE remoteLock

\* try_warm gives None: the command runs in its own process, unless that was killed.
FallsBack(c) ==
    IF command[c].end = "timeout" THEN Done(c) ELSE Leave(c, "direct") /\ UNCHANGED remoteLock

-----------------------------------------------------------------------------
(* On the machine that the command is meant for *)

\* main: a command for the configured server is posted to it (run_remote).
Issue(c, remote) ==
    /\ command[c].at = "none"
    /\ command' = [command EXCEPT ![c].at = IF remote THEN "queued" ELSE "start"]
    /\ UNCHANGED <<executed, warm, stateFile, stopping, remoteLock, codeEdited, cut>>

\* run_command of the server starts a child, or gives up after a minute.
TakeRemoteLock(c) ==
    /\ command[c].at = "queued" /\ remoteLock = "none"
    /\ Become(c, "start") /\ remoteLock' = c
    /\ UNCHANGED <<executed, warm, stateFile, stopping, codeEdited, cut>>

RemoteBusy(c) ==
    /\ command[c].at = "queued" /\ remoteLock # "none"
    /\ command' = [command EXCEPT ![c].at = "done", ![c].end = "refused"]
    /\ UNCHANGED <<executed, warm, stateFile, stopping, remoteLock, codeEdited, cut>>

\* The child is killed after three minutes; what it has asked of a warm process goes on there.
RemoteTimesOut(c) ==
    /\ remoteLock = c
    /\ command' = [command EXCEPT ![c].end = "timeout",
                     ![c].at = IF @ \in {"sent", "running", "replying"} THEN @ ELSE "done"]
    /\ executed' \in {executed, [executed EXCEPT ![c] = @ + IF command[c].at = "direct" THEN 1 ELSE 0]}
    /\ remoteLock' = "none"
    /\ UNCHANGED <<warm, stateFile, stopping, codeEdited, cut>>

\* The state file is missing or names another database, or the warm process is asked.
ReadState(c) ==
    /\ command[c].at = "start"
    /\ \/ Become(c, "direct")
       \/ stateFile # 0 /\ command' = [command EXCEPT ![c].at = "connecting", ![c].server = stateFile]
    /\ UNCHANGED <<executed, warm, stateFile, stopping, remoteLock, codeEdited, cut>>

ConnectWarm(c) ==
    /\ command[c].at = "connecting"
    /\ IF Alive(command[c].server) THEN Become(c, "sent") ELSE Leave(c, "direct")
    /\ UNCHANGED <<executed, warm, stateFile, stopping, remoteLock, codeEdited, cut>>

\* Fault: the half second for connecting also limits the wait for the reply.
ConnectionLost_OrSlow(c) == command[c].server \in Warm

ConnectionLost(c) == ~Alive(command[c].server)

\* OSError or ValueError in _request.
LoseConnection(c) ==
    /\ command[c].at \in {"sent", "running", "replying"} /\ ConnectionLost(c)
    /\ FallsBack(c)
    /\ UNCHANGED <<executed, warm, stateFile, stopping, codeEdited, cut>>

RunDirectly(c) ==
    /\ command[c].at = "direct"
    /\ executed' = [executed EXCEPT ![c] = @ + 1]
    /\ Done(c)
    /\ UNCHANGED <<warm, stateFile, stopping, codeEdited, cut>>

-----------------------------------------------------------------------------
(* The warm process *)

\* _run: a process whose code is out of date refuses and ends; a busy one refuses.
TakeCommand(c) ==
    /\ command[c].at = "sent" /\ Alive(command[c].server)
    /\ LET s == command[c].server
       IN  IF warm[s].outdated \/ warm[s].holds # "none"
           THEN /\ FallsBack(c)
                /\ warm' = [warm EXCEPT ![s].at = IF warm[s].outdated THEN "ending" ELSE @]
           ELSE /\ Become(c, "running") /\ warm' = [warm EXCEPT ![s].holds = c]
                /\ UNCHANGED remoteLock
    /\ UNCHANGED <<executed, stateFile, stopping, codeEdited, cut>>

RunWarm(c) ==
    /\ command[c].at = "running" /\ Alive(command[c].server)
    /\ executed' = [executed EXCEPT ![c] = @ + 1]
    /\ warm' = [warm EXCEPT ![command[c].server].holds = "none"]
    /\ Become(c, "replying")
    /\ UNCHANGED <<stateFile, stopping, remoteLock, codeEdited, cut>>

ReplyWarm(c) ==
    /\ command[c].at = "replying" /\ Alive(command[c].server)
    /\ Done(c)
    /\ UNCHANGED <<executed, warm, stateFile, stopping, codeEdited, cut>>

\* The reply exceeds MAX_MESSAGE: _recv of the client raises ValueError.
ReplyTooLarge(c) ==
    /\ command[c].at = "replying" /\ Alive(command[c].server)
    /\ FallsBack(c)
    /\ cut' = cut \cup {c}
    /\ UNCHANGED <<executed, warm, stateFile, stopping, codeEdited>>

\* `warm start`, unless the process in the file answers.
StartWarm(s) ==
    /\ warm[s].at = "none" /\ (\A q \in 1 .. s - 1 : warm[q].at # "none")
    /\ ~Alive(stateFile)
    /\ warm' = [warm EXCEPT ![s].at = "starting"]
    /\ UNCHANGED <<command, executed, stateFile, stopping, remoteLock, codeEdited, cut>>

ListenWarm(s) ==
    /\ warm[s].at = "starting"
    /\ warm' = [warm EXCEPT ![s].at = "up"]
    /\ stateFile' = s
    /\ UNCHANGED <<command, executed, stopping, remoteLock, codeEdited, cut>>

EditCode ==
    /\ ~codeEdited /\ codeEdited' = TRUE
    /\ warm' = [s \in Warm |-> [warm[s] EXCEPT !.outdated = warm[s].at \in {"starting", "up", "ending"}]]
    /\ UNCHANGED <<command, executed, stateFile, stopping, remoteLock, cut>>

\* `warm stop` asks the process to end ...
StopWarm ==
    /\ stateFile # 0 /\ ~stopping
    /\ warm' = [warm EXCEPT ![stateFile].at = IF @ = "up" THEN "ending" ELSE @]
    /\ stopping' = TRUE
    /\ UNCHANGED <<command, executed, stateFile, remoteLock, codeEdited, cut>>

\* ... and removes the file, whichever process it names by now.
RemoveState ==
    /\ stopping
    /\ stateFile' = 0 /\ stopping' = FALSE
    /\ UNCHANGED <<command, executed, warm, remoteLock, codeEdited, cut>>

\* The process ends and its threads with it; a command in the middle may have done its work.
WarmGone(s) ==
    LET begun == {c \in Commands : command[c].server = s /\ command[c].at \in {"running", "replying"}}
    IN  /\ warm' = [warm EXCEPT ![s].at = "gone", ![s].holds = "none", ![s].outdated = FALSE]
        /\ cut' = cut \cup begun
        /\ \E did \in SUBSET {c \in begun : command[c].at = "running"} :
             executed' = [c \in Commands |-> IF c \in did THEN executed[c] + 1 ELSE executed[c]]
        /\ UNCHANGED <<command, stopping, remoteLock, codeEdited>>

\* close removes the file if it is its own.
EndWarm(s) ==
    /\ warm[s].at = "ending"
    /\ WarmGone(s)
    /\ stateFile' = IF stateFile = s THEN 0 ELSE stateFile

KillWarm(s) ==
    /\ warm[s].at \in {"starting", "up", "ending"}
    /\ WarmGone(s)
    /\ UNCHANGED stateFile

CommandsNext ==
    \/ \E c \in Commands :
         \/ \E remote \in BOOLEAN : Issue(c, remote)
         \/ TakeRemoteLock(c) \/ RemoteBusy(c) \/ RemoteTimesOut(c)
         \/ ReadState(c) \/ ConnectWarm(c) \/ LoseConnection(c) \/ RunDirectly(c)
         \/ TakeCommand(c) \/ RunWarm(c) \/ ReplyWarm(c) \/ ReplyTooLarge(c)
    \/ \E s \in Warm : StartWarm(s) \/ ListenWarm(s) \/ EndWarm(s) \/ KillWarm(s)
    \/ EditCode \/ StopWarm \/ RemoveState

CommandsSpec == CommandsInit /\ [][CommandsNext]_commandVars

-----------------------------------------------------------------------------

\* Whichever way a command takes it runs once, and not at all only if the server was busy or
\* the command was killed after three minutes: falling back never repeats what a warm process
\* has done, unless that process ended, or its reply was too large, after it had begun ("or
\* anything looks unsafe or unusual, it silently runs the command the normal way", warm.py:1-5).
CommandsRunOnce ==
    \A c \in Commands \ cut :
        /\ executed[c] <= 1
        /\ command[c].at = "done" /\ command[c].end = "none" => executed[c] = 1
=============================================================================
