------------------------------ MODULE ShellTool ------------------------------
(***************************************************************************)
(* One command of the shell tool (packages/tools/src/tools/shell.ts): a    *)
(* process group of its own, a timer that sends SIGTERM and three seconds  *)
(* later SIGKILL, a cancellation that sends SIGTERM, and a result that is  *)
(* there when nobody holds the command's pipes any more.                   *)
(***************************************************************************)
EXTENDS FiniteSets

CONSTANTS Members,    \* processes the command may consist of
          Leader      \* the one that was spawned

ASSUME ShellAssumption == Leader \in Members

VARIABLES
  alive,      \* members that run
  holding,    \* members that hold stdout or stderr
  stubborn,   \* members that ignore SIGTERM
  escaped,       \* members that left the group (setsid)
  timer,      \* the timeout: "unset", "set", "fired", "cleared"
  killTimer,  \* the three seconds: "unset", "set", "fired"
  signal,     \* the run's AbortSignal was aborted
  flags,      \* killed, timedOut
  result      \* what the tool returned

shellVars == <<alive, holding, stubborn, escaped, timer, killTimer, signal, flags, result>>

ShellInit ==
  /\ alive = {} /\ holding = {} /\ escaped = {}
  /\ stubborn \in SUBSET Members
  /\ timer = "unset" /\ killTimer = "unset" /\ signal = FALSE
  /\ flags = [killed |-> FALSE, timedOut |-> FALSE]
  /\ result = "none"

-----------------------------------------------------------------------------

\* The policy says no, or asks.
Refuses ==
  /\ timer = "unset" /\ result = "none"
  /\ result' \in {"needs-approval", "policy-denied"}
  /\ UNCHANGED <<alive, holding, stubborn, escaped, timer, killTimer, signal, flags>>

Spawns ==
  /\ timer = "unset" /\ result = "none" /\ ~signal
  /\ alive' = {Leader} /\ holding' = {Leader}
  /\ timer' = "set"
  /\ UNCHANGED <<stubborn, escaped, killTimer, signal, flags, result>>

SpawnFails ==
  /\ timer = "unset" /\ result = "none" /\ ~signal
  /\ timer' = "cleared" /\ result' = "spawn-error"
  /\ UNCHANGED <<alive, holding, stubborn, escaped, killTimer, signal, flags>>

-----------------------------------------------------------------------------
(* What the command's processes do of themselves. *)

Commanded == UNCHANGED <<stubborn, timer, killTimer, signal, flags, result>>

Forks(m) ==
  /\ alive # {} /\ m \in Members \ alive
  /\ alive' = alive \cup {m} /\ holding' = holding \cup {m}
  /\ \E parent \in alive : escaped' = IF parent \in escaped THEN escaped \cup {m} ELSE escaped \ {m}
  /\ result = "none" /\ Commanded

Redirects(m) ==                 \* lets go of the pipes
  /\ m \in alive \cap holding
  /\ holding' = holding \ {m}
  /\ UNCHANGED <<alive, escaped>> /\ Commanded

Leaves(m) ==
  /\ m \in alive \ escaped
  /\ escaped' = escaped \cup {m}
  /\ UNCHANGED <<alive, holding>> /\ Commanded

Exits(m) ==
  /\ m \in alive
  /\ alive' = alive \ {m} /\ holding' = holding \ {m}
  /\ UNCHANGED escaped /\ Commanded

-----------------------------------------------------------------------------
(* killGroup: to every member that is still in the group. *)

Group == alive \ escaped
\* Mutant: the signal goes to the spawned process alone.
KillLeader(dead) ==
  alive' = alive \ (dead \cap {Leader}) /\ holding' = holding \ (dead \cap {Leader})
KillGroup(dead) == alive' = alive \ dead /\ holding' = holding \ dead

SendsTerm == KillGroup(Group \ stubborn)
SendsKill == KillGroup(Group)

TimesOut ==
  /\ timer = "set"
  /\ timer' = "fired" /\ killTimer' = "set"
  /\ flags' = [killed |-> TRUE, timedOut |-> TRUE]
  /\ SendsTerm
  /\ UNCHANGED <<stubborn, escaped, signal, result>>

\* Mutant: a process that was sent a signal counts as killed.
EscalatesUnlessKilled ==
  /\ killTimer = "set" /\ ~flags.killed
  /\ killTimer' = "fired"
  /\ SendsKill
  /\ UNCHANGED <<stubborn, escaped, timer, signal, flags, result>>

\* It is never cleared: it fires though the command is long over.
Escalates ==
  /\ killTimer = "set"
  /\ killTimer' = "fired"
  /\ SendsKill
  /\ UNCHANGED <<stubborn, escaped, timer, signal, flags, result>>

Aborts ==
  /\ ~signal
  /\ signal' = TRUE
  /\ IF alive # {} /\ result = "none"
     THEN SendsTerm /\ flags' = [flags EXCEPT !.killed = TRUE]
     ELSE UNCHANGED <<alive, holding, flags>>
  /\ UNCHANGED <<stubborn, escaped, timer, killTimer, result>>

\* "close": the leader has exited and the pipes are shut.
Closes ==
  /\ timer \in {"set", "fired"} /\ result = "none"
  /\ Leader \notin alive /\ holding = {}
  /\ timer' = IF timer = "set" THEN "cleared" ELSE timer
  /\ result' = IF flags.timedOut THEN "timeout" ELSE "ok"
  /\ UNCHANGED <<alive, holding, stubborn, escaped, killTimer, signal, flags>>

ShellNext ==
  \/ Refuses \/ Spawns \/ SpawnFails \/ TimesOut \/ Escalates \/ Aborts \/ Closes
  \/ \E m \in Members : Forks(m) \/ Redirects(m) \/ Leaves(m) \/ Exits(m)

\* Timers fire and events are delivered; the command need never end.
ShellFairness == WF_shellVars(TimesOut) /\ WF_shellVars(Escalates) /\ WF_shellVars(Closes)

ShellSpec == ShellInit /\ [][ShellNext]_shellVars /\ ShellFairness

-----------------------------------------------------------------------------
(* Properties *)

ShellTypeOK ==
  /\ holding \subseteq alive /\ alive \subseteq Members
  /\ stubborn \subseteq Members /\ escaped \subseteq Members
  /\ timer \in {"unset", "set", "fired", "cleared"}
  /\ killTimer \in {"unset", "set", "fired"}
  /\ flags \in [killed : BOOLEAN, timedOut : BOOLEAN]
  /\ result \in {"none", "needs-approval", "policy-denied", "spawn-error", "timeout", "ok"}

\* When a timeout has run its course nothing of the command is left in its
\* group, though it forked, ignored SIGTERM and let go of its pipes
\* (shell.ts:132-141).
TimeoutKillsTheGroup == killTimer = "fired" => Group = {}

\* Every command the tool starts gives a result in the end, one that never
\* ends and ignores SIGTERM too, but for one that leaves its group.
CommandReturns == (timer # "unset") ~> (result # "none" \/ escaped # {})
=============================================================================
