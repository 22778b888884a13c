--------------------------- MODULE ContainerFaults ---------------------------
(***************************************************************************)
(* The setup commands of setupCommand/docker that change the state of a    *)
(* container: killContainer, stopContainer, startContainer, pauseContainer,*)
(* unpauseContainer and composeUp, each with the Cleanup that is meant to  *)
(* undo it, run by TraceTest.Run (test/tracetest.go): Execute in order,    *)
(* Cleanup in reverse, also of the command that failed.                    *)
(*                                                                         *)
(* The Docker daemon is external: Accepts, Refuses and Target say what a   *)
(* call does to a container.  Assumed: a container changes only by these   *)
(* calls, and a call that gets no answer had no effect.  One container     *)
(* stands for the containers of a compose project.                         *)
(***************************************************************************)
EXTENDS Naturals, Sequences

CONSTANTS
    Containers,   \* containers of the environment under test
    Setups,       \* the lists of setup commands a test may have
    RunCount      \* how often the test is run (--count)

States == {"absent", "stopped", "running", "paused"}

Commands == {"kill", "stop", "start", "pause", "unpause", "up"}

ASSUME RunCountAssumption == RunCount \in Nat \ {0}

ASSUME SetupsAssumption == Setups \subseteq Seq([cmd : Commands, on : Containers])

VARIABLES
    phase,      \* "setup", "test", "cleanup" or "end"
    run,        \* number of the run of the test
    setup,      \* the setup commands of the test
    held,       \* how many of them wait for their Cleanup
    env,        \* the state of each container
    initial,    \* history: env before the first run
    before,     \* history: env before each of the commands that are held
    expected,   \* history: each command found its container as it expects it
    lost        \* history: a Cleanup got no answer from the daemon

vars == <<phase, run, setup, held, env, initial, before, expected, lost>>

-----------------------------------------------------------------------------
\* The call that undoes a command: its Cleanup method.
Undo(cmd) ==
    CASE cmd \in {"kill", "stop"} -> "start"
      [] cmd = "start"            -> "stop"
      [] cmd = "pause"            -> "unpause"
      [] cmd = "unpause"          -> "pause"
      [] cmd = "up"               -> "down"

\* The state a call leads to.
Target(call) ==
    CASE call \in {"start", "unpause", "up"} -> "running"
      [] call \in {"stop", "kill"}          -> "stopped"
      [] call = "pause"                     -> "paused"
      [] call = "down"                      -> "absent"

\* The states in which the daemon accepts a call.  Starting a running
\* container and stopping a stopped one is no error (304 Not Modified).
\* Whether a paused container can be stopped or killed depends on the version
\* of the daemon: such a call may be accepted, and may be refused.
Accepts(call, s) ==
    \/ call \in {"up", "down"}
    \/ call = "start"   /\ s \in {"stopped", "running"}
    \/ call = "stop"    /\ s \in {"stopped", "running", "paused"}
    \/ call = "kill"    /\ s \in {"running", "paused"}
    \/ call = "pause"   /\ s = "running"
    \/ call = "unpause" /\ s = "paused"

Refuses(call, s) ==
    ~Accepts(call, s) \/ (call \in {"stop", "kill"} /\ s = "paused")

\* The state a command is written for.
Expects(cmd) ==
    CASE cmd \in {"kill", "stop", "pause"} -> "running"
      [] cmd = "start"   -> "stopped"
      [] cmd = "unpause" -> "paused"
      [] cmd = "up"      -> "absent"

-----------------------------------------------------------------------------
Init ==
    /\ phase = "setup"
    /\ run = 1
    /\ setup \in Setups
    /\ held = 0
    /\ env \in [Containers -> States]
    /\ initial = env
    /\ before = [n \in 1..Len(setup) |-> env]
    /\ expected = TRUE
    /\ lost = FALSE

\* The command after the held ones is executed and leaves its container in
\* state s; it is held whether it succeeds or fails.
ExecuteTo(s) ==
    LET command == setup[held + 1]
    IN  /\ env' = [env EXCEPT ![command.on] = s]
        /\ before' = [before EXCEPT ![held + 1] = env]
        /\ expected' = (expected /\ env[command.on] = Expects(command.cmd))
        /\ held' = held + 1
        /\ UNCHANGED <<run, setup, initial, lost>>

(* Execute of the next setup command returns nil.                          *)
ExecuteSucceeds ==
    /\ phase = "setup" /\ held < Len(setup)
    /\ LET command == setup[held + 1]
       IN  /\ Accepts(command.cmd, env[command.on])
           /\ ExecuteTo(Target(command.cmd))
    /\ UNCHANGED phase

\* A mutant for the model checker: only a command that succeeded is held.
ExecuteFailsUnheld ==
    /\ phase = "setup" /\ held < Len(setup)
    /\ LET command == setup[held + 1]
           s == env[command.on]
       IN  /\ \/ UNCHANGED env
              \/ command.cmd = "up" /\ env' = [env EXCEPT ![command.on] = Target("up")]
           /\ expected' = (expected /\ s = Expects(command.cmd))
    /\ phase' = "cleanup"
    /\ UNCHANGED <<run, setup, held, initial, before, lost>>

(* Execute fails, refused or unanswered, and no other command follows.     *)
(* compose up may have started its containers all the same.                *)
ExecuteFails ==
    /\ phase = "setup" /\ held < Len(setup)
    /\ LET command == setup[held + 1]
       IN  \/ ExecuteTo(env[command.on])
           \/ command.cmd = "up" /\ ExecuteTo(Target("up"))
    /\ phase' = "cleanup"

(* All commands succeeded: the rest of the pipeline runs.                  *)
SetupDone ==
    /\ phase = "setup" /\ held = Len(setup)
    /\ phase' = "test"
    /\ UNCHANGED <<run, setup, held, env, initial, before, expected, lost>>

(* Run returns: the deferred cleanups start.                               *)
TestReturns ==
    /\ phase = "test"
    /\ phase' = "cleanup"
    /\ UNCHANGED <<run, setup, held, env, initial, before, expected, lost>>

\* A mutant for the model checker: cleanups in the order of the setup.
CleanupInOrder ==
    /\ phase = "cleanup" /\ held > 0
    /\ LET command == setup[Len(setup) + 1 - held]
       IN  /\ Accepts(Undo(command.cmd), env[command.on])
           /\ env' = [env EXCEPT ![command.on] = Target(Undo(command.cmd))]
    /\ held' = held - 1
    /\ UNCHANGED <<phase, run, setup, initial, before, expected, lost>>

(* Cleanup of the command held last returns nil.                           *)
CleanupSucceeds ==
    /\ phase = "cleanup" /\ held > 0
    /\ LET command == setup[held]
       IN  /\ Accepts(Undo(command.cmd), env[command.on])
           /\ env' = [env EXCEPT ![command.on] = Target(Undo(command.cmd))]
    /\ held' = held - 1
    /\ UNCHANGED <<phase, run, setup, initial, before, expected, lost>>

(* Cleanup fails, refused or unanswered.  The error is only logged.        *)
CleanupFails ==
    /\ phase = "cleanup" /\ held > 0
    /\ LET command == setup[held]
       IN  \/ Refuses(Undo(command.cmd), env[command.on]) /\ UNCHANGED lost
           \/ lost' = TRUE
    /\ held' = held - 1
    /\ UNCHANGED <<phase, run, setup, env, initial, before, expected>>

(* The --count loop starts the next run of the same test, in the           *)
(* environment this one leaves.                                            *)
NextRun ==
    /\ phase = "cleanup" /\ held = 0
    /\ IF run < RunCount THEN phase' = "setup" /\ run' = run + 1
                         ELSE phase' = "end" /\ UNCHANGED run
    /\ UNCHANGED <<setup, held, env, initial, before, expected, lost>>

End ==
    /\ phase = "end"
    /\ UNCHANGED vars

Next ==
    \/ ExecuteSucceeds \/ ExecuteFails
    \/ SetupDone \/ TestReturns
    \/ CleanupSucceeds \/ CleanupFails
    \/ NextRun
    \/ End

Spec == Init /\ [][Next]_vars

-----------------------------------------------------------------------------
TypeOK ==
    /\ phase \in {"setup", "test", "cleanup", "end"}
    /\ run \in 1..RunCount
    /\ setup \in Setups
    /\ held \in 0..Len(setup)
    /\ env \in [Containers -> States]
    /\ initial \in [Containers -> States]
    /\ before \in [1..Len(setup) -> [Containers -> States]]
    /\ expected \in BOOLEAN /\ lost \in BOOLEAN

\* No run is under way.
BetweenRuns == held = 0 /\ phase \in {"setup", "end"}

(* Cleaning up in reverse restores the environment, over any number of     *)
(* runs, when every command found its container in the state it is written *)
(* for: a command that failed, with or without an effect, is undone like   *)
(* one that succeeded, and the Cleanup of a command without effect does no *)
(* harm.  Only a Cleanup the daemon never answered is excused.             *)
Restored == (BetweenRuns /\ expected /\ ~lost) => env = initial

-----------------------------------------------------------------------------
\* What a command may have made of the environment e.
Outcomes(command, e) ==
    {e, [e EXCEPT ![command.on] = Target(command.cmd)]}

\* The environment after the first n commands that are held.
Level(n) == IF n = held THEN env ELSE before[n + 1]

\* The n-th command found the state it expects, and led from its level to the
\* next one.
Link(n) ==
    /\ before[n][setup[n].on] = Expects(setup[n].cmd)
    /\ Level(n) \in Outcomes(setup[n], before[n])

(* The held commands lead from the environment at the start of the run to  *)
(* the present one, each from the state it expects.                        *)
Chain ==
    (expected /\ ~lost) =>
        /\ Level(0) = initial
        /\ \A n \in 1..held : Link(n)

FaultsInv ==
    /\ TypeOK
    /\ phase = "end" => held = 0
    /\ Chain

=============================================================================
