----------------------- MODULE ContainerFaultsProofs -----------------------
(***************************************************************************)
(* Proofs about ContainerFaults for any containers, any lists of setup     *)
(* commands and any number of runs.                                        *)
(*                                                                         *)
(* FaultsInv is inductive.  Its part Chain says that each held command     *)
(* leads from the environment before it to the environment before the next *)
(* one; a Cleanup walks that chain one step back, whatever the command did.*)
(***************************************************************************)
EXTENDS ContainerFaults, SequenceTheorems, TLAPS

(* A setup command names one of the known commands and a container.        *)
LEMMA SetupType ==
  ASSUME setup \in Setups
  PROVE  /\ Len(setup) \in Nat
         /\ \A n \in 1..Len(setup) :
              setup[n].cmd \in Commands /\ setup[n].on \in Containers
<1>1. setup \in Seq([cmd : Commands, on : Containers])
  BY SetupsAssumption
<1>2. /\ Len(setup) \in Nat
      /\ \A n \in 1..Len(setup) : setup[n] \in [cmd : Commands, on : Containers]
  BY <1>1, LenProperties, ElementOfSeq
<1> QED
  BY <1>2

(* From the state a command expects, whether it had its effect or none,    *)
(* its Cleanup leads back to that state, or finds the container there.     *)
LEMMA UndoRestores ==
  ASSUME NEW cmd \in Commands, NEW s \in {Expects(cmd), Target(cmd)}
  PROVE  /\ Expects(cmd) \in States /\ Target(cmd) \in States
         /\ Target(Undo(cmd)) = Expects(cmd)
         /\ Refuses(Undo(cmd), s) => s = Expects(cmd)
<1> USE DEF Target, Undo, Expects, Accepts, Refuses, States
<1>1. CASE cmd = "kill"
  BY <1>1
<1>2. CASE cmd = "stop"
  BY <1>2
<1>3. CASE cmd = "start"
  BY <1>3
<1>4. CASE cmd = "pause"
  BY <1>4
<1>5. CASE cmd = "unpause"
  BY <1>5
<1>6. CASE cmd = "up"
  BY <1>6
<1> QED
  BY <1>1, <1>2, <1>3, <1>4, <1>5, <1>6 DEF Commands

(* Nothing is held at the start.                                           *)
LEMMA InitFaultsInv == Init => FaultsInv
<1> SUFFICES ASSUME Init PROVE FaultsInv
  OBVIOUS
<1>1. setup \in Setups /\ env \in [Containers -> States]
  BY Zenon DEF Init
<1>2. /\ phase = "setup" /\ run = 1 /\ held = 0 /\ initial = env
      /\ before = [n \in 1..Len(setup) |-> env]
  BY Zenon DEF Init
<1>3. expected = TRUE /\ lost = FALSE
  BY Zenon DEF Init
<1>4. TypeOK
  <2>1. expected \in BOOLEAN /\ lost \in BOOLEAN
    BY <1>3, Zenon
  <2>2. run \in 1..RunCount /\ held \in 0..Len(setup)
    BY <1>1, <1>2, RunCountAssumption, SetupType
  <2> QED
    BY <1>1, <1>2, <2>1, <2>2 DEF TypeOK
<1>5. Chain
  BY <1>2 DEF Chain, Level
<1> QED
  BY <1>2, <1>4, <1>5 DEF FaultsInv

(* Execute adds a link to the chain, also when it fails.                   *)
LEMMA ExecuteStep ==
  FaultsInv /\ (ExecuteSucceeds \/ ExecuteFails) => FaultsInv'
<1> SUFFICES ASSUME FaultsInv, ExecuteSucceeds \/ ExecuteFails PROVE FaultsInv'
  OBVIOUS
<1> DEFINE command == setup[held + 1]
<1>1. /\ phase = "setup" /\ held \in 0..Len(setup) /\ held < Len(setup)
      /\ setup \in Setups /\ env \in [Containers -> States]
      /\ before \in [1..Len(setup) -> [Containers -> States]]
      /\ before' = [before EXCEPT ![held + 1] = env] /\ held' = held + 1
      /\ phase' \in {"setup", "cleanup"}
      /\ UNCHANGED <<run, setup, initial, lost>>
  BY DEF FaultsInv, TypeOK, ExecuteSucceeds, ExecuteFails, ExecuteTo
<1>2. PICK s \in {env[command.on], Target(command.cmd)} :
           env' = [env EXCEPT ![command.on] = s]
  BY DEF ExecuteSucceeds, ExecuteFails, ExecuteTo
<1>3. expected' = (expected /\ env[command.on] = Expects(command.cmd))
  BY Zenon DEF ExecuteSucceeds, ExecuteFails, ExecuteTo
<1>4. /\ Len(setup) \in Nat /\ held + 1 \in 1..Len(setup)
      /\ command.cmd \in Commands /\ command.on \in Containers
  BY <1>1, SetupType
<1>5. s \in States
  BY <1>1, <1>2, <1>4, UndoRestores
<1>6. TypeOK'
  <2>1. env' \in [Containers -> States]
    BY <1>1, <1>2, <1>4, <1>5
  <2>2. before' \in [1..Len(setup') -> [Containers -> States]]
    BY <1>1
  <2>3. held' \in 0..Len(setup')
    BY <1>1, <1>4
  <2>4. expected' \in BOOLEAN
    BY <1>3
  <2> QED
    BY <1>1, <2>1, <2>2, <2>3, <2>4 DEF FaultsInv, TypeOK
<1>7. Chain'
  <2> SUFFICES ASSUME expected', ~lost' PROVE Chain'
    BY DEF Chain
  <2>1. expected /\ ~lost /\ env[command.on] = Expects(command.cmd)
    BY <1>1, <1>3
  <2>2. /\ Level(0) = initial
        /\ \A n \in 1..held : Link(n)
    BY <2>1 DEF FaultsInv, Chain
  <2>3. /\ before'[held + 1] = env
        /\ \A n \in 1..held : before'[n] = before[n]
    BY <1>1, <1>4
  <2>4. \A n \in 0..held : Level(n)' = Level(n)
    BY <1>1, <2>3 DEF Level
  <2>5. ASSUME NEW n \in 1..held PROVE Link(n)'
    BY <1>1, <2>2, <2>3, <2>4 DEF Link, Outcomes
  <2>6. ASSUME NEW n, n = held + 1 PROVE Link(n)'
    <3>1. env' \in Outcomes(command, env)
      <4>1. env' = env \/ env' = [env EXCEPT ![command.on] = Target(command.cmd)]
        BY <1>1, <1>2, <1>4
      <4> QED
        BY <4>1 DEF Outcomes
    <3>2. Level(n)' = env' /\ before'[n] = env /\ setup'[n] = command
      BY <1>1, <2>3, <2>6 DEF Level
    <3> QED
      BY <2>1, <3>1, <3>2 DEF Link, Outcomes
  <2>7. \A n \in 1..held' : Link(n)'
    <3>1. \A n \in 1..held' : n \in 1..held \/ n = held + 1
      BY <1>1
    <3> QED
      BY <2>5, <2>6, <3>1
  <2>8. Level(0)' = initial'
    BY <1>1, <2>2, <2>4
  <2> QED
    BY <2>7, <2>8 DEF Chain
<1> QED
  BY <1>1, <1>6, <1>7 DEF FaultsInv

(* Cleanup takes the last link off the chain, also when it is refused.     *)
LEMMA CleanupStep ==
  FaultsInv /\ (CleanupSucceeds \/ CleanupFails) => FaultsInv'
<1> SUFFICES ASSUME FaultsInv, CleanupSucceeds \/ CleanupFails PROVE FaultsInv'
  OBVIOUS
<1> DEFINE command == setup[held]
           undo == Undo(command.cmd)
<1>1. /\ phase = "cleanup" /\ held \in 0..Len(setup) /\ held > 0
      /\ setup \in Setups /\ env \in [Containers -> States]
      /\ before \in [1..Len(setup) -> [Containers -> States]]
      /\ held' = held - 1
      /\ UNCHANGED <<phase, run, setup, initial, before, expected>>
  BY DEF FaultsInv, TypeOK, CleanupSucceeds, CleanupFails
<1>2. \/ env' = [env EXCEPT ![command.on] = Target(undo)] /\ lost' = lost
      \/ env' = env /\ lost' = lost /\ Refuses(undo, env[command.on])
      \/ env' = env /\ lost' = TRUE
  BY DEF CleanupSucceeds, CleanupFails
<1>3. /\ Len(setup) \in Nat /\ held \in 1..Len(setup)
      /\ command.cmd \in Commands /\ command.on \in Containers
  BY <1>1, SetupType
<1>4. Expects(command.cmd) \in States /\ Target(undo) = Expects(command.cmd)
  BY <1>3, UndoRestores
<1>5. TypeOK'
  <2>1. env' \in [Containers -> States]
    BY <1>1, <1>2, <1>4
  <2>2. held' \in 0..Len(setup')
    BY <1>1, <1>3
  <2>3. lost' \in BOOLEAN
    <3>1. lost \in BOOLEAN /\ (lost' = lost \/ lost' = TRUE)
      BY <1>2, Zenon DEF FaultsInv, TypeOK
    <3> QED
      BY <3>1, Zenon
  <2> QED
    BY <1>1, <2>1, <2>2, <2>3 DEF FaultsInv, TypeOK
<1>6. Chain'
  <2> SUFFICES ASSUME expected', ~lost' PROVE Chain'
    BY DEF Chain
  <2>1. expected /\ ~lost
    BY <1>1, <1>2
  <2>2. /\ Level(0) = initial
        /\ \A n \in 1..held : Link(n)
    BY <2>1 DEF FaultsInv, Chain
  <2>3. /\ before[held][command.on] = Expects(command.cmd)
        /\ env \in Outcomes(command, before[held])
    BY <1>3, <2>2 DEF Link, Level
  <2>4. before[held] \in [Containers -> States]
    BY <1>1, <1>3
  <2>5. env' = before[held]
    <3>1. CASE env = before[held]
      BY <3>1, <1>1, <1>2, <1>4, <2>3, <2>4
    <3>2. CASE env = [before[held] EXCEPT ![command.on] = Target(command.cmd)]
      <4>1. env[command.on] = Target(command.cmd)
        BY <3>2, <2>4, <1>3
      <4>2. CASE env' = [env EXCEPT ![command.on] = Target(undo)]
        BY <4>2, <3>2, <1>3, <1>4, <2>3, <2>4
      <4>3. CASE env' = env /\ Refuses(undo, env[command.on])
        <5>1. env[command.on] = before[held][command.on]
          BY <4>1, <4>3, <1>3, <2>3, UndoRestores
        <5> QED
          BY <4>3, <5>1, <3>2, <4>1, <2>4
      <4> QED
        BY <1>2, <4>2, <4>3
    <3> QED
      BY <2>3, <3>1, <3>2 DEF Outcomes
  <2>6. \A n \in 0..held' : Level(n)' = Level(n)
    BY <1>1, <1>3, <2>5 DEF Level
  <2>7. \A n \in 1..held' : Link(n)'
    <3> SUFFICES ASSUME NEW n \in 1..held' PROVE Link(n)'
      OBVIOUS
    <3>1. n \in 1..held /\ n \in 0..held'
      BY <1>1
    <3> QED
      BY <3>1, <1>1, <2>2, <2>6 DEF Link, Outcomes
  <2>8. Level(0)' = initial'
    BY <1>1, <2>2, <2>6
  <2> QED
    BY <2>7, <2>8 DEF Chain
<1> QED
  BY <1>1, <1>5, <1>6 DEF FaultsInv

(* The other steps leave the commands and the environment alone.           *)
LEMMA FaultsStep == FaultsInv /\ [Next]_vars => FaultsInv'
<1> SUFFICES ASSUME FaultsInv, [Next]_vars PROVE FaultsInv'
  OBVIOUS
<1>1. CASE ExecuteSucceeds \/ ExecuteFails
  BY <1>1, ExecuteStep
<1>2. CASE CleanupSucceeds \/ CleanupFails
  BY <1>2, CleanupStep
<1>3. CASE SetupDone \/ TestReturns \/ NextRun \/ End \/ UNCHANGED vars
  <2>1. UNCHANGED <<setup, held, env, initial, before, expected, lost>>
    BY <1>3 DEF SetupDone, TestReturns, NextRun, End, vars
  <2>2. Chain'
    BY <2>1 DEF FaultsInv, Chain, Link, Level, Outcomes
  <2>3. TypeOK' /\ (phase' = "end" => held' = 0)
    <3>1. CASE SetupDone \/ TestReturns
      BY <2>1, <3>1 DEF SetupDone, TestReturns, FaultsInv, TypeOK
    <3>2. CASE NextRun
      BY <2>1, <3>2, RunCountAssumption DEF NextRun, FaultsInv, TypeOK
    <3>3. CASE End \/ UNCHANGED vars
      BY <2>1, <3>3 DEF End, vars, FaultsInv, TypeOK
    <3> QED
      BY <1>3, <3>1, <3>2, <3>3
  <2> QED
    BY <2>2, <2>3 DEF FaultsInv
<1> QED
  BY <1>1, <1>2, <1>3 DEF Next

(* The chain of held commands always leads from the initial environment to *)
(* the present one.                                                        *)
THEOREM FaultsInvariant == Spec => []FaultsInv
<1> QED
  BY InitFaultsInv, FaultsStep, PTL DEF Spec

(* Setup commands that found their containers as they expect them leave    *)
(* the environment as it was, failed commands and repeated runs included.  *)
THEOREM FaultsUndone == Spec => []Restored
<1>1. FaultsInv => Restored
  BY DEF FaultsInv, Chain, Level, Restored, BetweenRuns
<1> QED
  BY FaultsInvariant, <1>1, PTL
=============================================================================
