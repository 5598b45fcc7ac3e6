---------------------------- MODULE LocalSandbox ----------------------------
(***************************************************************************)
(* One command of an agent in the sandbox of the coding worker: run waits  *)
(* for a fresh token, spawns bash, and answers when bash has exited and    *)
(* both of its output streams are closed.  An abort kills bash, not what   *)
(* bash left in the background, which keeps the streams open.              *)
(***************************************************************************)
EXTENDS Naturals

CONSTANTS
    ExitCodes,      \* with which bash may exit by itself
    Killed          \* in place of an exit code

ASSUME SandboxAssumption == 0 \in ExitCodes /\ Killed \notin ExitCodes \cup {1}

VARIABLES
    phase,          \* of run
    bash,           \* the process
    background,     \* a child of bash holds the streams
    aborted,        \* the caller's signal
    abortable,      \* an abort will call spawn's listener
    code,           \* what bash exited with, if by itself
    exitCode        \* what run answers, if it did

sandboxVars == <<phase, bash, background, aborted, abortable, code, exitCode>>

SandboxTypeOK ==
    /\ phase \in {"token", "waiting", "returned", "rejected"}
    /\ bash \in {"none", "running", "dying", "gone"}
    /\ background \in BOOLEAN /\ aborted \in BOOLEAN /\ abortable \in BOOLEAN
    /\ code \in ExitCodes \cup {Killed}
    /\ exitCode \in ExitCodes \cup {1, Killed}
    /\ exitCode # Killed <=> phase = "returned"

SandboxInit ==
    /\ phase = "token" /\ bash = "none"
    /\ background = FALSE /\ aborted = FALSE /\ abortable = FALSE
    /\ code = Killed /\ exitCode = Killed

-----------------------------------------------------------------------------
(* A signal that was aborted before the listener is added never calls it.  *)
Spawn ==
    /\ phase = "token"
    /\ phase' = "waiting"
    /\ bash' = "running"
    /\ abortable' = ~aborted
    /\ UNCHANGED <<background, aborted, code, exitCode>>

(* bash cannot be started, as in a directory that is gone: event 'error'.  *)
SpawnFails ==
    /\ phase = "token"
    /\ phase' = "returned"
    /\ exitCode' = 1
    /\ UNCHANGED <<bash, background, aborted, abortable, code>>

(* getGithubToken rejects, and so does spawn.                              *)
TokenFails ==
    /\ phase = "token"
    /\ phase' = "rejected"
    /\ UNCHANGED <<bash, background, aborted, abortable, code, exitCode>>

(* Variants, each named for the slip it makes, stand before what they      *)
(* replace: the runs show that the properties tell them apart.             *)
AbortUnheard ==
    /\ ~aborted
    /\ aborted' = TRUE
    /\ UNCHANGED <<phase, bash, background, abortable, code, exitCode>>

Abort ==
    /\ ~aborted
    /\ aborted' = TRUE
    /\ bash' = IF abortable /\ bash = "running" THEN "dying" ELSE bash
    /\ UNCHANGED <<phase, background, abortable, code, exitCode>>

Background ==
    /\ bash = "running"
    /\ background' = TRUE
    /\ UNCHANGED <<phase, bash, aborted, abortable, code, exitCode>>

BashExits(c) ==
    /\ bash = "running"
    /\ bash' = "gone"
    /\ code' = c
    /\ UNCHANGED <<phase, background, aborted, abortable, exitCode>>

BashIsKilled ==
    /\ bash = "dying"
    /\ bash' = "gone"
    /\ UNCHANGED <<phase, background, aborted, abortable, code, exitCode>>

BackgroundEnds ==
    /\ background
    /\ background' = FALSE
    /\ UNCHANGED <<phase, bash, aborted, abortable, code, exitCode>>

CloseUncoded ==
    /\ phase = "waiting" /\ bash = "gone" /\ ~background
    /\ phase' = "returned"
    /\ exitCode' = code
    /\ UNCHANGED <<bash, background, aborted, abortable, code>>

CloseAsDone ==
    /\ phase = "waiting" /\ bash = "gone" /\ ~background
    /\ phase' = "returned"
    /\ exitCode' = IF code = Killed THEN 0 ELSE code
    /\ UNCHANGED <<bash, background, aborted, abortable, code>>

(* 'close': the process is gone and the streams have ended.                *)
Close ==
    /\ phase = "waiting" /\ bash = "gone" /\ ~background
    /\ phase' = "returned"
    /\ exitCode' = IF code = Killed THEN 1 ELSE code
    /\ UNCHANGED <<bash, background, aborted, abortable, code>>

SandboxNext ==
    \/ Spawn \/ SpawnFails \/ TokenFails \/ Abort \/ Background
    \/ \E c \in ExitCodes : BashExits(c)
    \/ BashIsKilled \/ BackgroundEnds \/ Close

(* A killed bash goes, and node hears of it.  Nothing makes a command or   *)
(* its background end by itself.                                           *)
SandboxProgress == BashIsKilled \/ Close

SandboxFairness == WF_sandboxVars(SandboxProgress)

-----------------------------------------------------------------------------
(* The agent is told of success only when the whole command succeeded: it  *)
(* was started, ran to its end, was not killed, and left nothing behind    *)
(* that could still write.                                                 *)
SuccessIsReal ==
    phase = "returned" /\ exitCode = 0 => bash = "gone" /\ code = 0 /\ ~background

(* An abort ends the call, except where the code cannot: it came before    *)
(* bash was spawned, or a background process goes on.                      *)
AbortedEnds ==
    (aborted /\ abortable /\ phase = "waiting") ~>
      (phase = "returned" \/ background)
=============================================================================
