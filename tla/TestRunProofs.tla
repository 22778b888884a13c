---------------------------- MODULE TestRunProofs ----------------------------
(***************************************************************************)
(* Proofs about TestRun for any number of tests, runs, setup commands,     *)
(* verification items and exporters.                                       *)
(***************************************************************************)
EXTENDS TestRun, SequenceTheorems, TLAPS

-----------------------------------------------------------------------------
(* Sequences: a last element is appended and taken away again.             *)

(* Taking the last element away keeps the others: the pop of the defer     *)
(* stack of Run.                                                           *)
LEMMA PopLemma ==
    ASSUME NEW S, NEW s \in Seq(S), s # <<>>
    PROVE  LET p == SubSeq(s, 1, Len(s) - 1)
           IN  /\ p \in Seq(S)
               /\ Len(p) = Len(s) - 1
               /\ \A k \in 1..Len(p) : p[k] = s[k]
               /\ Len(s) \in 1..Len(s)
               /\ s[Len(s)] \in S
<1>1. Len(s) \in Nat \ {0} /\ \A k \in 1..Len(s) : s[k] \in S
  BY EmptySeq, LenProperties, ElementOfSeq
<1>2. \A k \in 1..(Len(s) - 1) : s[k] \in S
  BY <1>1
<1>3. 1 \in Int /\ Len(s) - 1 \in Int
  BY <1>1
<1> DEFINE n == Len(s) - 1
           p == SubSeq(s, 1, n)
<1>4. /\ p \in Seq(S)
      /\ Len(p) = IF 1 <= n THEN n - 1 + 1 ELSE 0
      /\ \A k \in 1..(n - 1 + 1) : p[k] = s[1 + k - 1]
  BY <1>2, <1>3, SubSeqProperties
<1> HIDE DEF p
<1>5. Len(p) = n
  <2>1. n \in Nat
    BY <1>1
  <2>2. Len(p) = IF 1 <= n THEN n - 1 + 1 ELSE 0
    BY <1>4
  <2> HIDE DEF n
  <2> QED
    BY <2>1, <2>2
<1>6. \A k \in 1..Len(p) : p[k] = s[k]
  BY <1>1, <1>4, <1>5
<1>7. Len(s) \in 1..Len(s) /\ s[Len(s)] \in S
  BY <1>1
<1>8. p \in Seq(S) /\ Len(p) = Len(s) - 1
  BY <1>4, <1>5
<1> QED
  BY <1>6, <1>7, <1>8 DEF p

-----------------------------------------------------------------------------
(* A result is always well-formed: the messages of Run name a stage of the *)
(* pipeline and an index.                                                  *)
LEMMA FailedType ==
    ASSUME NEW s \in Stages, NEW i \in Nat
    PROVE  Failed(s, i) \in Verdicts
BY DEF Failed, Verdicts, CollectTrace

(* So are the two results that name no failed stage.                       *)
LEMMA FixedVerdictsType == NoVerdict \in Verdicts /\ Passed \in Verdicts
BY DEF NoVerdict, Passed, Verdicts, CollectTrace, Stages

-----------------------------------------------------------------------------
\* Sequences of sequences of results, as facts about sequences of any set.
LEMMA VerdictSeqs ==
    /\ <<>> \in Seq(Seq(Verdicts))
    /\ \A q \in Seq(Seq(Verdicts)), r \in Seq(Verdicts) :
           Append(q, r) \in Seq(Seq(Verdicts))
<1> DEFINE R == Seq(Verdicts)
<1> HIDE DEF R
<1>1. /\ <<>> \in Seq(R)
      /\ \A q \in Seq(R), r \in R : Append(q, r) \in Seq(R)
  BY EmptySeq, AppendProperties
<1> QED
  BY <1>1 DEF R

(* At the start nothing was executed and nothing is pending.               *)
LEMMA InitStackInv == Init => StackInv
<1> SUFFICES ASSUME Init PROVE StackInv
  OBVIOUS
<1>1. TypeOK
  <2>1. suites \in Seq(Seq(Verdicts)) /\ results \in Seq(Verdicts)
    BY VerdictSeqs, EmptySeq DEF Init
  <2>2. deferred \in Seq(Nat) /\ executed \in Seq(Nat) /\ cleaned \in Seq(Nat)
    BY EmptySeq DEF Init
  <2>3. /\ pc \in Locations /\ panicking \in BOOLEAN /\ next \in Nat \ {0}
        /\ test \in 1..(NTests + 1)
    <3>1. pc \in Locations /\ panicking \in BOOLEAN
      BY DEF Init, Locations
    <3>2. test = 1 /\ next = 1
      BY DEF Init
    <3> QED
      BY <3>1, <3>2, CountsAssumption
  <2>4. confirmed \subseteq (Stages \X Nat) /\ delivered \subseteq (ExportStages \X Nat)
        /\ verdict \in Verdicts
    BY FixedVerdictsType, Zenon DEF Init
  <2> QED
    BY <2>1, <2>2, <2>3, <2>4 DEF TypeOK
<1>2. CleanupMirrorsSetup
  BY DEF Init, CleanupMirrorsSetup
<1>3. PendingByPlace
  BY DEF Init, PendingByPlace, PipelineStages, VerifyStages, ExportStages
<1> QED
  BY <1>1, <1>2, <1>3 DEF StackInv

(* Every action keeps the types.                                           *)
LEMMA TypeStep == StackInv /\ [Next]_vars => TypeOK'
<1> SUFFICES ASSUME StackInv, [Next]_vars PROVE TypeOK'
  OBVIOUS
<1> USE DEF StackInv, TypeOK, Locations, PipelineStages, VerifyStages,
            ExportStages, Ended, Stages, runVars, reportVars
<1>1. CASE CreateTest
  BY <1>1 DEF CreateTest
<1>2. CASE SkipTest
  BY <1>2, CountsAssumption, FailedType DEF SkipTest
<1>3. ASSUME NEW ok \in BOOLEAN, SetupReturns(ok) PROVE TypeOK'
  BY <1>3, FailedType DEF SetupReturns, Return
<1>4. CASE SetupPanics
  BY <1>4 DEF SetupPanics, Panic
<1>5. ASSUME NEW ok \in BOOLEAN, Trigger(ok) PROVE TypeOK'
  BY <1>5, FailedType DEF Trigger, Return
<1>6. ASSUME NEW ok \in BOOLEAN, Fetch(ok) PROVE TypeOK'
  BY <1>6, FailedType DEF Fetch, Return
<1>7. ASSUME NEW ok \in BOOLEAN, CompareProperties(ok) PROVE TypeOK'
  BY <1>7, FailedType DEF CompareProperties, Return
<1>8. ASSUME NEW stage \in VerifyStages, NEW ok \in BOOLEAN, VerifyItem(stage, ok)
      PROVE  TypeOK'
  BY <1>8, FailedType DEF VerifyItem, Return
<1>9. CASE CheckPanics
  BY <1>9 DEF CheckPanics, Panic
<1>10. ASSUME NEW stage \in VerifyStages, EndOfLoop(stage) PROVE TypeOK'
  <2>1. pc' \in {"assertions", "checks", "cleanup"} /\ verdict' \in Verdicts
    <3>1. CASE stage = "traces"
      BY <1>10, <3>1 DEF EndOfLoop
    <3>2. CASE stage = "assertions"
      BY <1>10, <3>2 DEF EndOfLoop
    <3>3. CASE stage = "checks"
      BY <1>10, <3>3, FixedVerdictsType DEF EndOfLoop, Return
    <3> QED
      BY <3>1, <3>2, <3>3
  <2> QED
    BY <1>10, <2>1 DEF EndOfLoop
<1>11. ASSUME NEW panics \in BOOLEAN, RunCleanup(panics) PROVE TypeOK'
  <2>1. deferred' \in Seq(Nat) /\ deferred[Len(deferred)] \in Nat
    BY <1>11, PopLemma DEF RunCleanup
  <2> QED
    BY <1>11, <2>1 DEF RunCleanup
<1>12. CASE EndRun
  <2>1. Append(results, verdict) \in Seq(Verdicts)
    OBVIOUS
  <2>2. suites' \in Seq(Seq(Verdicts)) /\ results' \in Seq(Verdicts)
    BY <1>12, <2>1, EmptySeq, VerdictSeqs DEF EndRun
  <2>3. test' \in 1..(NTests + 1)
    BY <1>12, CountsAssumption DEF EndRun, PendingByPlace, Tests
  <2> QED
    BY <1>12, <2>2, <2>3, FixedVerdictsType DEF EndRun
<1>13. CASE Crash
  BY <1>13 DEF Crash
<1>14. CASE StartExport
  BY <1>14 DEF StartExport
<1>15. ASSUME NEW stage \in ExportStages, ExportTo(stage) PROVE TypeOK'
  BY <1>15 DEF ExportTo
<1>16. CASE StartAnalytics
  BY <1>16 DEF StartAnalytics
<1>17. CASE Finish
  BY <1>17 DEF Finish
<1>18. CASE Interrupt
  BY <1>18 DEF Interrupt
<1>19. CASE UNCHANGED vars
  BY <1>19 DEF vars
<1> QED
  BY <1>1, <1>2, <1>3, <1>4, <1>5, <1>6, <1>7, <1>8, <1>9, <1>10, <1>11,
     <1>12, <1>13, <1>14, <1>15, <1>16, <1>17, <1>18, <1>19
     DEF Next, Step, Terminated

(* Only three actions touch the defer stack or the two histories: Execute  *)
(* pushes, a cleanup pops, the end of a run forgets.                       *)
LEMMA MirrorStep == StackInv /\ [Next]_vars => CleanupMirrorsSetup'
<1> SUFFICES ASSUME StackInv, [Next]_vars PROVE CleanupMirrorsSetup'
  OBVIOUS
<1> USE DEF StackInv
<1>1. ASSUME NEW ok \in BOOLEAN, SetupReturns(ok) PROVE CleanupMirrorsSetup'
  <2>1. cleaned = <<>> /\ cleaned' = <<>> /\ Len(cleaned) = 0
    BY <1>1 DEF SetupReturns, PendingByPlace, PipelineStages
  <2>2. /\ deferred \in Seq(Nat) /\ executed \in Seq(Nat) /\ next \in Nat
        /\ deferred' = Append(deferred, next)
        /\ executed' = Append(executed, next)
    BY <1>1 DEF SetupReturns, TypeOK
  <2>3. /\ Len(deferred) = Len(executed)
        /\ \A k \in 1..Len(deferred) : deferred[k] = executed[k]
    BY <2>1, <2>2 DEF CleanupMirrorsSetup
  <2>4. /\ Len(deferred') = Len(executed')
        /\ \A k \in 1..Len(deferred') : deferred'[k] = executed'[k]
    BY <2>2, <2>3
  <2> QED
    BY <2>1, <2>2, <2>4 DEF CleanupMirrorsSetup
<1>2. ASSUME NEW panics \in BOOLEAN, RunCleanup(panics) PROVE CleanupMirrorsSetup'
  <2>1. /\ deferred \in Seq(Nat) /\ deferred # <<>>
        /\ executed \in Seq(Nat) /\ cleaned \in Seq(Nat)
        /\ deferred' = SubSeq(deferred, 1, Len(deferred) - 1)
        /\ cleaned' = Append(cleaned, deferred[Len(deferred)])
        /\ executed' = executed
    BY <1>2 DEF RunCleanup, TypeOK
  <2>2. /\ deferred' \in Seq(Nat) /\ Len(deferred') = Len(deferred) - 1
        /\ \A k \in 1..Len(deferred') : deferred'[k] = deferred[k]
        /\ Len(deferred) \in 1..Len(deferred)
        /\ deferred[Len(deferred)] \in Nat
    BY <2>1, PopLemma
  <2>3. /\ Len(cleaned') = Len(cleaned) + 1
        /\ cleaned'[Len(cleaned) + 1] = deferred[Len(deferred)]
        /\ \A k \in 1..Len(cleaned) : cleaned'[k] = cleaned[k]
    BY <2>1, <2>2
  <2>4. /\ Len(executed) \in Nat /\ Len(deferred) \in Nat /\ Len(cleaned) \in Nat
        /\ Len(executed) = Len(deferred) + Len(cleaned)
        /\ deferred[Len(deferred)] = executed[Len(deferred)]
    BY <2>1, <2>2, LenProperties DEF CleanupMirrorsSetup
  <2>5. \A k \in 1..Len(cleaned') : cleaned'[k] = executed'[Len(executed') + 1 - k]
    <3>1. ASSUME NEW k \in 1..Len(cleaned) PROVE cleaned'[k] = executed[Len(executed) + 1 - k]
      BY <2>3 DEF CleanupMirrorsSetup
    <3>2. Len(executed) + 1 - (Len(cleaned) + 1) = Len(deferred)
      BY <2>4
    <3>3. \A k \in 1..(Len(cleaned) + 1) : k \in 1..Len(cleaned) \/ k = Len(cleaned) + 1
      BY <2>4
    <3> QED
      BY <2>1, <2>3, <2>4, <3>1, <3>2, <3>3
  <2> QED
    <3>1. Len(executed') = Len(deferred') + Len(cleaned')
      <4>1. Len(deferred') = Len(deferred) - 1
        BY <2>2
      <4>2. Len(cleaned') = Len(cleaned) + 1
        BY <2>3
      <4>3. Len(executed') = Len(executed)
        BY <2>1
      <4>4. Len(deferred) \in Nat /\ Len(cleaned) \in Nat
        BY <2>4
      <4>5. Len(executed) = Len(deferred) + Len(cleaned)
        BY <2>4
      <4> QED
        BY <4>1, <4>2, <4>3, <4>4, <4>5
    <3>2. \A k \in 1..Len(deferred') : deferred'[k] = executed'[k]
      <4>1. ASSUME NEW k \in 1..Len(deferred') PROVE deferred'[k] = executed'[k]
        <5>1. k \in 1..Len(deferred)
          BY <2>2, <2>4
        <5>2. deferred[k] = executed[k]
          BY <5>1 DEF CleanupMirrorsSetup
        <5>3. deferred'[k] = deferred[k]
          BY <2>2
        <5>4. executed' = executed
          BY <2>1
        <5> QED
          BY <5>2, <5>3, <5>4
      <4> QED
        BY <4>1
    <3> QED
      BY <2>5, <3>1, <3>2 DEF CleanupMirrorsSetup
<1>3. CASE EndRun
  BY <1>3 DEF EndRun, CleanupMirrorsSetup
<1>4. CASE UNCHANGED <<deferred, executed, cleaned>>
  BY <1>4 DEF CleanupMirrorsSetup
<1> QED
  BY <1>1, <1>2, <1>3, <1>4
     DEF Next, Step, Terminated, vars, runVars, reportVars, CreateTest,
         SkipTest, SetupPanics, Trigger, Fetch, CompareProperties, VerifyItem,
         CheckPanics, EndOfLoop, Crash, StartExport, ExportTo, StartAnalytics,
         Finish, Interrupt

(* The place of the process still tells what is pending.                   *)
LEMMA PlaceStep == StackInv /\ [Next]_vars => PendingByPlace'
<1> SUFFICES ASSUME StackInv, [Next]_vars PROVE PendingByPlace'
  OBVIOUS
<1> USE DEF StackInv, PendingByPlace, PipelineStages, VerifyStages,
            ExportStages, Ended, runVars, reportVars
<1>1. CASE CreateTest
  BY <1>1, CountsAssumption DEF CreateTest, TypeOK, Tests
<1>2. CASE SkipTest
  BY <1>2 DEF SkipTest
<1>3. ASSUME NEW ok \in BOOLEAN, SetupReturns(ok) PROVE PendingByPlace'
  BY <1>3 DEF SetupReturns, Return
<1>4. CASE SetupPanics \/ CheckPanics
  BY <1>4 DEF SetupPanics, CheckPanics, Panic
<1>5. ASSUME NEW ok \in BOOLEAN, Trigger(ok) PROVE PendingByPlace'
  BY <1>5 DEF Trigger, Return
<1>6. ASSUME NEW ok \in BOOLEAN, Fetch(ok) PROVE PendingByPlace'
  BY <1>6 DEF Fetch, Return
<1>7. ASSUME NEW ok \in BOOLEAN, CompareProperties(ok) PROVE PendingByPlace'
  BY <1>7 DEF CompareProperties, Return
<1>8. ASSUME NEW stage \in VerifyStages, NEW ok \in BOOLEAN, VerifyItem(stage, ok)
      PROVE  PendingByPlace'
  BY <1>8 DEF VerifyItem, Return
<1>9. ASSUME NEW stage \in VerifyStages, EndOfLoop(stage) PROVE PendingByPlace'
  <2>1. pc' \in {"assertions", "checks", "cleanup"}
    BY <1>9 DEF EndOfLoop, Return
  <2> QED
    BY <1>9, <2>1 DEF EndOfLoop
<1>10. ASSUME NEW panics \in BOOLEAN, RunCleanup(panics) PROVE PendingByPlace'
  BY <1>10 DEF RunCleanup
<1>11. CASE EndRun
  BY <1>11 DEF EndRun
<1>12. CASE Crash
  BY <1>12 DEF Crash
<1>13. CASE StartExport \/ StartAnalytics \/ Finish \/ Interrupt
  BY <1>13 DEF StartExport, StartAnalytics, Finish, Interrupt
<1>14. ASSUME NEW stage \in ExportStages, ExportTo(stage) PROVE PendingByPlace'
  BY <1>14 DEF ExportTo
<1>15. CASE UNCHANGED vars
  BY <1>15 DEF vars
<1> QED
  BY <1>1, <1>2, <1>3, <1>4, <1>5, <1>6, <1>7, <1>8, <1>9, <1>10, <1>11,
     <1>12, <1>13, <1>14, <1>15 DEF Next, Step, Terminated

-----------------------------------------------------------------------------
(* The inductive invariant of Run's defer stack holds for any tests: what  *)
(* was executed is what is pending, followed by what was cleaned.          *)
THEOREM StackInvariant == Spec => []StackInv
<1>1. StackInv /\ [Next]_vars => StackInv'
  BY TypeStep, MirrorStep, PlaceStep DEF StackInv
<1> QED
  BY InitStackInv, <1>1, PTL DEF Spec

(* Every variable keeps its type, whatever the environment answers.        *)
THEOREM TypeCorrect == Spec => []TypeOK
<1>1. StackInv => TypeOK
  BY DEF StackInv
<1> QED
  BY StackInvariant, <1>1, PTL

(* Cleanups mirror setup: none forgotten, repeated, out of order or made   *)
(* up, for any number of setup commands and through failures and panics.   *)
THEOREM CleanupCorrect == Spec => []CleanupMirrorsSetup
<1>1. StackInv => CleanupMirrorsSetup
  BY DEF StackInv
<1> QED
  BY StackInvariant, <1>1, PTL

(* A result is stored only with every executed command of its run cleaned, *)
(* for any tests and any number of runs.                                   *)
THEOREM ResultIsLast == Spec => ResultAfterCleanup
<1> DEFINE Published == (results' # results \/ suites' # suites) =>
                \/ test' = test + 1 /\ executed = <<>> /\ pc = "create"
                \/ deferred = <<>> /\ Len(cleaned) = Len(executed)
<1>1. StackInv /\ [Next]_vars => [Published]_vars
  <2> SUFFICES ASSUME StackInv, [Next]_vars PROVE Published
    OBVIOUS
  <2>1. CASE SkipTest
    BY <2>1 DEF SkipTest, StackInv, PendingByPlace
  <2>2. CASE EndRun
    <3>1. deferred = <<>> /\ Len(deferred) = 0
      BY <2>2 DEF EndRun
    <3>2. Len(executed) = Len(deferred) + Len(cleaned) /\ Len(cleaned) \in Nat
      BY LenProperties DEF StackInv, CleanupMirrorsSetup, TypeOK
    <3> QED
      BY <3>1, <3>2
  <2>3. CASE UNCHANGED <<results, suites>>
    BY <2>3
  <2> QED
    BY <2>1, <2>2, <2>3
       DEF Next, Step, Terminated, vars, runVars, reportVars, CreateTest,
           SetupReturns, SetupPanics, Trigger, Fetch, CompareProperties,
           VerifyItem, CheckPanics, EndOfLoop, RunCleanup, Crash, StartExport,
           ExportTo, StartAnalytics, Finish, Interrupt
<1> QED
  BY StackInvariant, <1>1, PTL DEF Spec, ResultAfterCleanup

-----------------------------------------------------------------------------
(* The program implements Lifecycle: every step is a step of the promise,  *)
(* or changes nothing of it.                                               *)
THEOREM Implements == Spec => KeepsPromise
<1> DEFINE place == CASE pc \in PipelineStages -> "open"
                      [] pc \in {"done", "crashed"} -> "ended"
                      [] pc = "killed" -> "killed"
                      [] OTHER -> "closed"
<1> USE DEF PipelineStages, VerifyStages, ExportStages, Ended, runVars, reportVars
<1>1. Init => Promise!LInit
  BY DEF Init, Promise!LInit
<1>2. StackInv /\ [Next]_vars => [Promise!LNext]_(Promise!lvars)
  <2> SUFFICES ASSUME StackInv, [Next]_vars
               PROVE  Promise!LNext \/ UNCHANGED <<deferred, place>>
    BY DEF Promise!lvars
  <2> USE DEF StackInv, Promise!LNext
  <2>1. CASE CreateTest
    BY <2>1 DEF CreateTest, PendingByPlace, Promise!Open
  <2>2. ASSUME NEW ok \in BOOLEAN, SetupReturns(ok)
        PROVE  Promise!LNext
    <3>1. next \in Commands
      <4>1. next \in 1..NumSetup[test] /\ test \in Tests
        BY <2>2, StageSizesAssumption DEF SetupReturns, TypeOK, PendingByPlace
      <4> QED
        BY <4>1 DEF Commands
    <3>2. Promise!Hold(next)
      BY <2>2 DEF SetupReturns, Return, Promise!Hold
    <3> QED
      BY <3>1, <3>2
  <2>3. CASE SetupPanics \/ CheckPanics
    BY <2>3 DEF SetupPanics, CheckPanics, Panic, Promise!Close
  <2>4. ASSUME NEW ok \in BOOLEAN, Trigger(ok) \/ Fetch(ok) \/ CompareProperties(ok)
        PROVE  Promise!LNext \/ UNCHANGED <<deferred, place>>
    BY <2>4 DEF Trigger, Fetch, CompareProperties, Return, Promise!Close
  <2>5. ASSUME NEW stage \in VerifyStages, NEW ok \in BOOLEAN, VerifyItem(stage, ok)
        PROVE  Promise!LNext \/ UNCHANGED <<deferred, place>>
    BY <2>5 DEF VerifyItem, Return, Promise!Close
  <2>6. ASSUME NEW stage \in VerifyStages, EndOfLoop(stage)
        PROVE  Promise!LNext \/ UNCHANGED <<deferred, place>>
    <3>1. pc \in VerifyStages /\ pc' \in {"assertions", "checks", "cleanup"}
          /\ deferred' = deferred
      BY <2>6 DEF EndOfLoop, Return
    <3> QED
      BY <3>1 DEF Promise!Close
  <2>7. ASSUME NEW panics \in BOOLEAN, RunCleanup(panics) PROVE Promise!LNext
    BY <2>7 DEF RunCleanup, Promise!Undo
  <2>8. CASE EndRun
    BY <2>8 DEF EndRun, Promise!Open
  <2>9. CASE Crash \/ Finish
    BY <2>9 DEF Crash, Finish, PendingByPlace, Promise!End
  <2>10. CASE Interrupt
    BY <2>10 DEF Interrupt, TypeOK, Locations, Promise!Kill
  <2>11. CASE SkipTest \/ StartExport \/ StartAnalytics
    BY <2>11 DEF SkipTest, StartExport, StartAnalytics
  <2>12. ASSUME NEW stage \in ExportStages, ExportTo(stage)
         PROVE  UNCHANGED <<deferred, place>>
    BY <2>12 DEF ExportTo
  <2>13. CASE UNCHANGED vars
    BY <2>13 DEF vars
  <2> QED
    BY <2>1, <2>2, <2>3, <2>4, <2>5, <2>6, <2>7, <2>8, <2>9, <2>10, <2>11,
       <2>12, <2>13 DEF Next, Step, Terminated
<1> QED
  BY StackInvariant, <1>1, <1>2, PTL DEF Spec, KeepsPromise, Promise!LSpec
-----------------------------------------------------------------------------
(* The order of the pipeline.                                              *)

Tried == {"setup", "trigger", "fetch", "properties", "traces", "assertions",
          "checks"}

\* What comes before a place of the pipeline of test t.
Earlier(t, place) == {a \in Pipeline(t) : Before(a, place)}

(* The stages have ranks of their own.                                     *)
LEMMA RankProperties ==
    /\ \A s \in Tried : Rank[s] \in 1..7
    /\ \A s, u \in Tried : Rank[s] = Rank[u] => s = u
BY DEF Tried, Rank

(* An item of the pipeline is a stage and a number within its stage.       *)
LEMMA PipelineItems ==
    ASSUME NEW t \in Tests
    PROVE  /\ \A a \in Pipeline(t) :
                 /\ a[1] \in Tried /\ a[2] \in Nat \ {0} /\ a = <<a[1], a[2]>>
                 /\ a[1] = "setup" => a[2] <= NumSetup[t]
                 /\ a[1] \in {"trigger", "fetch", "properties"} => a[2] = 1
                 /\ a[1] = "traces" => a[2] <= NumTraces[t]
                 /\ a[1] = "assertions" => a[2] <= NumAssertions[t]
                 /\ a[1] = "checks" => a[2] <= NumChecks[t]
           /\ \A s \in {"trigger", "fetch", "properties"} : <<s, 1>> \in Pipeline(t)
           /\ \A k \in Nat \ {0} :
                 /\ k <= NumSetup[t] => <<"setup", k>> \in Pipeline(t)
                 /\ k <= NumTraces[t] => <<"traces", k>> \in Pipeline(t)
                 /\ k <= NumAssertions[t] => <<"assertions", k>> \in Pipeline(t)
                 /\ k <= NumChecks[t] => <<"checks", k>> \in Pipeline(t)
<1>1. /\ NumSetup[t] \in Nat /\ NumTraces[t] \in Nat
      /\ NumAssertions[t] \in Nat /\ NumChecks[t] \in Nat
  BY StageSizesAssumption
<1> QED
  BY <1>1 DEF Pipeline, Tried

(* Being earlier is transitive.                                            *)
LEMMA BeforeTransitive ==
    ASSUME NEW a, NEW b, NEW c,
           a[1] \in Tried, b[1] \in Tried, c[1] \in Tried,
           a[2] \in Nat, b[2] \in Nat, c[2] \in Nat,
           Before(a, b), Before(b, c)
    PROVE  Before(a, c)
<1>1. Rank[a[1]] \in Int /\ Rank[b[1]] \in Int /\ Rank[c[1]] \in Int
  BY RankProperties
<1> QED
  BY <1>1 DEF Before

(* What is confirmed up to a place holds all that is earlier than any of   *)
(* it.                                                                     *)
LEMMA EarlierClosed ==
    ASSUME NEW t \in Tests, NEW place, place[1] \in Tried, place[2] \in Nat
    PROVE  \A b \in Earlier(t, place) : \A a \in Pipeline(t) :
               Before(a, b) => a \in Earlier(t, place)
BY PipelineItems, BeforeTransitive DEF Earlier

(* One more item of a stage.                                               *)
LEMMA NextItem ==
    ASSUME NEW t \in Tests, NEW s \in Tried, NEW k \in Nat \ {0},
           <<s, k>> \in Pipeline(t)
    PROVE  Earlier(t, <<s, k + 1>>) = Earlier(t, <<s, k>>) \cup {<<s, k>>}
<1>1. Before(<<s, k>>, <<s, k + 1>>)
  BY DEF Before
<1>2. ASSUME NEW a \in Pipeline(t)
      PROVE  Before(a, <<s, k + 1>>) <=> Before(a, <<s, k>>) \/ a = <<s, k>>
  <2>1. a[2] \in Nat /\ a = <<a[1], a[2]>>
    BY PipelineItems
  <2>2. (a[1] = s /\ a[2] < k + 1) <=> (a[1] = s /\ a[2] < k) \/ a = <<s, k>>
    BY <2>1
  <2>3. a = <<s, k>> => a[1] = s
    OBVIOUS
  <2> QED
    BY <2>2, <2>3 DEF Before
<1> QED
  BY <1>1, <1>2 DEF Earlier

(* A stage that is exhausted is followed by the next one.                  *)
LEMMA NextStage ==
    ASSUME NEW t \in Tests, NEW s \in Tried, NEW u \in Tried, NEW k \in Nat,
           Rank[u] = Rank[s] + 1,
           \A a \in Pipeline(t) : a[1] = s => a[2] < k
    PROVE  Earlier(t, <<s, k>>) = Earlier(t, <<u, 1>>)
<1>1. ASSUME NEW a \in Pipeline(t)
      PROVE  Before(a, <<s, k>>) <=> Before(a, <<u, 1>>)
  <2>1. a[1] \in Tried /\ a[2] \in Nat \ {0}
    BY PipelineItems
  <2>2. /\ Rank[a[1]] \in Int /\ Rank[s] \in Int /\ Rank[u] \in Int
        /\ Rank[a[1]] = Rank[s] => a[1] = s
    BY <2>1, RankProperties
  <2>3. ~(a[1] = u /\ a[2] < 1)
    BY <2>1
  <2>4. a[1] = s => a[2] < k
    OBVIOUS
  <2> QED
    BY <2>2, <2>3, <2>4 DEF Before
<1> QED
  BY <1>1 DEF Earlier

(* After the last check everything is earlier.                             *)
LEMMA LastStage ==
    ASSUME NEW t \in Tests, NEW k \in Nat,
           \A a \in Pipeline(t) : a[1] = "checks" => a[2] < k
    PROVE  Earlier(t, <<"checks", k>>) = Pipeline(t)
<1>1. ASSUME NEW a \in Pipeline(t) PROVE Before(a, <<"checks", k>>)
  <2>1. a[1] \in Tried
    BY PipelineItems
  <2>2. a[1] = "checks" \/ Rank[a[1]] < Rank["checks"]
    BY <2>1 DEF Tried, Rank
  <2> QED
    BY <2>2 DEF Before
<1> QED
  BY <1>1 DEF Earlier

(* Where the pipeline is after one of its steps.                           *)
LEMMA ConfirmedStep == RunInv /\ [Next]_vars => ConfirmedByPlace'
<1> SUFFICES ASSUME RunInv, [Next]_vars PROVE ConfirmedByPlace'
  OBVIOUS
<1> USE DEF runVars, reportVars
<1>a. /\ TypeOK /\ ConfirmedByPlace
      /\ pc \in PipelineStages => test \in Tests
      /\ next \in Nat \ {0}
  BY DEF RunInv, StackInv, TypeOK, PendingByPlace
<1>b. /\ "setup" \in Tried /\ "trigger" \in Tried /\ "fetch" \in Tried
      /\ "properties" \in Tried /\ VerifyStages \subseteq Tried
      /\ Rank["trigger"] = Rank["setup"] + 1 /\ Rank["fetch"] = Rank["trigger"] + 1
      /\ Rank["properties"] = Rank["fetch"] + 1
      /\ Rank["traces"] = Rank["properties"] + 1
      /\ Rank["assertions"] = Rank["traces"] + 1
      /\ Rank["checks"] = Rank["assertions"] + 1
  BY DEF Tried, VerifyStages, Rank
<1>c. pc \in PipelineStages =>
        confirmed = Earlier(test, <<pc, next>>) /\ verdict = NoVerdict /\ ~panicking
  BY <1>a DEF ConfirmedByPlace, Earlier
<1>d. ASSUME pc' = "cleanup" PROVE ConfirmedByPlace'
  BY <1>d DEF ConfirmedByPlace, PipelineStages, VerifyStages, ExportStages
<1>e. ASSUME pc' \in PipelineStages, test' = test, verdict' = verdict,
             panicking' = panicking, pc \in PipelineStages,
             confirmed' = Earlier(test, <<pc', next'>>),
             pc' \in {"fetch", "properties"} => next' = 1
      PROVE  ConfirmedByPlace'
  BY <1>c, <1>e DEF ConfirmedByPlace, Earlier, PipelineStages, VerifyStages,
     ExportStages
<1>1. CASE CreateTest
  <2>1. /\ pc = "create" /\ pc' = "setup" /\ next' = 1 /\ test' = test
        /\ confirmed' = confirmed /\ verdict' = verdict /\ panicking' = panicking
        /\ test \in Tests
    BY <1>1, <1>a, CountsAssumption DEF CreateTest, TypeOK, Tests
  <2>2. confirmed = {} /\ verdict = NoVerdict /\ ~panicking
    BY <1>a, <2>1 DEF ConfirmedByPlace
  <2>3. ASSUME NEW a \in Pipeline(test) PROVE ~Before(a, <<"setup", 1>>)
    <3>1. a[1] \in Tried /\ a[2] \in Nat \ {0}
      BY <2>1, PipelineItems
    <3>2. Rank[a[1]] \in 1..7 /\ Rank["setup"] = 1
      BY <3>1, RankProperties DEF Rank
    <3> QED
      BY <3>1, <3>2 DEF Before
  <2>4. confirmed' = {a \in Pipeline(test) : Before(a, <<"setup", 1>>)}
    BY <2>1, <2>2, <2>3
  <2> QED
    BY <2>1, <2>2, <2>4 DEF ConfirmedByPlace, ExportStages
<1>2. ASSUME NEW ok \in BOOLEAN, SetupReturns(ok) PROVE ConfirmedByPlace'
  <2>1. CASE ok
    <3>1. /\ pc = "setup" /\ next <= NumSetup[test] /\ pc' = pc /\ test' = test
          /\ next' = next + 1 /\ verdict' = verdict /\ panicking' = panicking
          /\ confirmed' = confirmed \cup {<<"setup", next>>}
      BY <1>2, <2>1 DEF SetupReturns
    <3>2. test \in Tests /\ pc \in PipelineStages
      BY <1>a, <3>1 DEF PipelineStages
    <3>3. <<"setup", next>> \in Pipeline(test)
      BY <1>a, <3>1, <3>2, PipelineItems
    <3>4. confirmed' = Earlier(test, <<"setup", next + 1>>)
      BY <1>a, <1>b, <1>c, <3>1, <3>2, <3>3, NextItem
    <3> QED
      BY <1>e, <3>1, <3>2, <3>4
  <2>2. CASE ~ok
    BY <1>2, <1>d, <2>2 DEF SetupReturns, Return
  <2> QED
    BY <2>1, <2>2
<1>3. ASSUME NEW ok \in BOOLEAN, Trigger(ok) PROVE ConfirmedByPlace'
  <2>1. CASE ok
    <3>1. /\ pc = "setup" /\ next > NumSetup[test] /\ pc' = "fetch" /\ test' = test
          /\ next' = 1 /\ verdict' = verdict /\ panicking' = panicking
          /\ confirmed' = confirmed \cup {<<"trigger", 1>>}
      BY <1>3, <2>1 DEF Trigger
    <3>2. test \in Tests /\ pc \in PipelineStages /\ pc' \in PipelineStages
      BY <1>a, <3>1 DEF PipelineStages
    <3>3. \A a \in Pipeline(test) : a[1] = "setup" => a[2] < next
      BY <1>a, <3>1, <3>2, PipelineItems, StageSizesAssumption
    <3>4. confirmed = Earlier(test, <<"trigger", 1>>)
      BY <1>a, <1>b, <1>c, <3>1, <3>2, <3>3, NextStage
    <3>5. <<"trigger", 1>> \in Pipeline(test)
      BY <3>2, PipelineItems
    <3>6. confirmed' = Earlier(test, <<"trigger", 1 + 1>>)
      BY <1>b, <3>1, <3>2, <3>4, <3>5, NextItem
    <3>7. \A a \in Pipeline(test) : a[1] = "trigger" => a[2] < 2
      BY <3>2, PipelineItems
    <3>8. Earlier(test, <<"trigger", 1 + 1>>) = Earlier(test, <<"fetch", 1>>)
      BY <1>b, <3>2, <3>7, NextStage
    <3> QED
      BY <1>e, <3>1, <3>2, <3>6, <3>8
  <2>2. CASE ~ok
    BY <1>3, <1>d, <2>2 DEF Trigger, Return
  <2> QED
    BY <2>1, <2>2
<1>4. ASSUME NEW ok \in BOOLEAN, Fetch(ok) PROVE ConfirmedByPlace'
  <2>1. CASE ok
    <3>1. /\ pc = "fetch" /\ pc' = "properties" /\ test' = test
          /\ next' = next /\ verdict' = verdict /\ panicking' = panicking
          /\ confirmed' = confirmed \cup {<<"fetch", 1>>}
      BY <1>4, <2>1 DEF Fetch
    <3>2. /\ test \in Tests /\ pc \in PipelineStages /\ pc' \in PipelineStages
          /\ next = 1
      BY <1>a, <3>1 DEF PipelineStages, ConfirmedByPlace
    <3>3. <<"fetch", 1>> \in Pipeline(test)
      BY <3>2, PipelineItems
    <3>4. confirmed' = Earlier(test, <<"fetch", 1 + 1>>)
      BY <1>b, <1>c, <3>1, <3>2, <3>3, NextItem
    <3>5. \A a \in Pipeline(test) : a[1] = "fetch" => a[2] < 2
      BY <3>2, PipelineItems
    <3>6. Earlier(test, <<"fetch", 1 + 1>>) = Earlier(test, <<"properties", 1>>)
      BY <1>b, <3>2, <3>5, NextStage
    <3> QED
      BY <1>e, <3>1, <3>2, <3>4, <3>6
  <2>2. CASE ~ok
    BY <1>4, <1>d, <2>2 DEF Fetch, Return
  <2> QED
    BY <2>1, <2>2
<1>5. ASSUME NEW ok \in BOOLEAN, CompareProperties(ok) PROVE ConfirmedByPlace'
  <2>1. CASE ok
    <3>1. /\ pc = "properties" /\ pc' = "traces" /\ test' = test
          /\ next' = next /\ verdict' = verdict /\ panicking' = panicking
          /\ confirmed' = confirmed \cup {<<"properties", 1>>}
      BY <1>5, <2>1 DEF CompareProperties
    <3>2. /\ test \in Tests /\ pc \in PipelineStages /\ pc' \in PipelineStages
          /\ next = 1
      BY <1>a, <3>1 DEF PipelineStages, VerifyStages, ConfirmedByPlace
    <3>3. <<"properties", 1>> \in Pipeline(test)
      BY <3>2, PipelineItems
    <3>4. confirmed' = Earlier(test, <<"properties", 1 + 1>>)
      BY <1>b, <1>c, <3>1, <3>2, <3>3, NextItem
    <3>5. \A a \in Pipeline(test) : a[1] = "properties" => a[2] < 2
      BY <3>2, PipelineItems
    <3>6. Earlier(test, <<"properties", 1 + 1>>) = Earlier(test, <<"traces", 1>>)
      BY <1>b, <3>2, <3>5, NextStage DEF VerifyStages
    <3> QED
      BY <1>e, <3>1, <3>2, <3>4, <3>6
  <2>2. CASE ~ok
    BY <1>5, <1>d, <2>2 DEF CompareProperties, Return
  <2> QED
    BY <2>1, <2>2
<1>6. ASSUME NEW stage \in VerifyStages, NEW ok \in BOOLEAN, VerifyItem(stage, ok)
      PROVE  ConfirmedByPlace'
  <2>1. CASE ok
    <3>1. /\ pc = stage /\ next <= Items(stage) /\ pc' = pc /\ test' = test
          /\ next' = next + 1 /\ verdict' = verdict /\ panicking' = panicking
          /\ confirmed' = confirmed \cup {<<stage, next>>}
      BY <1>6, <2>1 DEF VerifyItem
    <3>2. test \in Tests /\ pc \in PipelineStages /\ pc' \notin {"fetch", "properties"}
      BY <1>a, <3>1 DEF PipelineStages, VerifyStages
    <3>3. <<stage, next>> \in Pipeline(test)
      BY <1>a, <3>1, <3>2, PipelineItems DEF Items, VerifyStages
    <3>4. confirmed' = Earlier(test, <<stage, next + 1>>)
      BY <1>a, <1>b, <1>c, <3>1, <3>2, <3>3, NextItem
    <3> QED
      BY <1>e, <3>1, <3>2, <3>4
  <2>2. CASE ~ok
    BY <1>6, <1>d, <2>2 DEF VerifyItem, Return
  <2> QED
    BY <2>1, <2>2
<1>7. ASSUME NEW stage \in VerifyStages, EndOfLoop(stage) PROVE ConfirmedByPlace'
  <2>1. /\ pc = stage /\ next > Items(stage) /\ next' = 1 /\ test' = test
        /\ panicking' = panicking /\ confirmed' = confirmed
    BY <1>7 DEF EndOfLoop
  <2>2. test \in Tests /\ pc \in PipelineStages
    BY <1>a, <2>1 DEF PipelineStages
  <2>3. ASSUME NEW u \in {"assertions", "checks"}, pc' = u, verdict' = verdict,
               Rank[u] = Rank[stage] + 1,
               \A a \in Pipeline(test) : a[1] = stage => a[2] < next
        PROVE  ConfirmedByPlace'
    <3>1. u \in Tried /\ stage \in Tried /\ pc' \in PipelineStages
      BY <1>b, <2>3 DEF VerifyStages, PipelineStages
    <3>2. confirmed' = Earlier(test, <<u, 1>>)
      BY <1>a, <1>c, <2>1, <2>2, <2>3, <3>1, NextStage
    <3> QED
      BY <1>e, <2>1, <2>2, <2>3, <3>1, <3>2
  <2>4. CASE stage = "traces"
    <3>1. pc' = "assertions" /\ verdict' = verdict /\ next > NumTraces[test]
      BY <1>7, <2>4 DEF EndOfLoop, Items
    <3>2. \A a \in Pipeline(test) : a[1] = "traces" => a[2] < next
      BY <1>a, <2>2, <3>1, PipelineItems, StageSizesAssumption
    <3> QED
      BY <1>b, <2>3, <2>4, <3>1, <3>2
  <2>5. CASE stage = "assertions"
    <3>1. pc' = "checks" /\ verdict' = verdict /\ next > NumAssertions[test]
      BY <1>7, <2>5 DEF EndOfLoop, Items
    <3>2. \A a \in Pipeline(test) : a[1] = "assertions" => a[2] < next
      BY <1>a, <2>2, <3>1, PipelineItems, StageSizesAssumption
    <3> QED
      BY <1>b, <2>3, <2>5, <3>1, <3>2
  <2>6. CASE stage = "checks"
    BY <1>7, <1>d, <2>6 DEF EndOfLoop, Return
  <2> QED
    BY <2>4, <2>5, <2>6 DEF VerifyStages
<1>8. CASE SetupPanics \/ CheckPanics \/ \E panics \in BOOLEAN : RunCleanup(panics)
  BY <1>8, <1>d DEF SetupPanics, CheckPanics, Panic, RunCleanup
<1>9. CASE EndRun
  <2>1. /\ next' = 1 /\ verdict' = NoVerdict /\ confirmed' = {} /\ ~panicking'
        /\ pc' \in {"setup", "create"} /\ test \in Tests
        /\ pc' = "setup" => test' = test
    BY <1>9 DEF EndRun, RunInv, StackInv, PendingByPlace
  <2>2. ASSUME pc' = "setup", NEW a \in Pipeline(test')
        PROVE  ~Before(a, <<"setup", 1>>)
    <3>1. a[1] \in Tried /\ a[2] \in Nat \ {0}
      BY <2>1, <2>2, PipelineItems
    <3>2. Rank[a[1]] \in 1..7 /\ Rank["setup"] = 1
      BY <3>1, RankProperties DEF Rank
    <3> QED
      BY <3>1, <3>2 DEF Before
  <2>3. pc' = "setup" => confirmed' = {a \in Pipeline(test') : Before(a, <<"setup", 1>>)}
    BY <2>1, <2>2
  <2> QED
    BY <2>1, <2>3 DEF ConfirmedByPlace, PipelineStages, VerifyStages, ExportStages
<1>10. CASE SkipTest \/ StartExport \/ StartAnalytics \/ Finish
            \/ \E stage \in ExportStages : ExportTo(stage)
  <2>1. /\ pc \in {"create"} \cup ExportStages /\ confirmed' = confirmed
        /\ pc' \in {"create", "done"} \cup ExportStages
        /\ verdict' = verdict /\ panicking' = panicking
    BY <1>10 DEF SkipTest, StartExport, StartAnalytics, Finish, ExportTo, ExportStages
  <2> QED
    BY <1>a, <2>1 DEF ConfirmedByPlace, PipelineStages, VerifyStages, ExportStages
<1>11. CASE Crash \/ Interrupt
  BY <1>11 DEF Crash, Interrupt, ConfirmedByPlace, PipelineStages, VerifyStages,
     ExportStages
<1>12. CASE UNCHANGED vars
  BY <1>a, <1>12 DEF vars, ConfirmedByPlace, Pipeline, Before
<1> QED
  BY <1>1, <1>2, <1>3, <1>4, <1>5, <1>6, <1>7, <1>8, <1>9, <1>10, <1>11, <1>12
     DEF Next, Step, Terminated

(* What is confirmed stays closed: while the pipeline runs it is what      *)
(* comes before the place where Run is, and nothing is added afterwards.   *)
LEMMA SkippedStep == RunInv /\ [Next]_vars => NothingSkipped'
<1> SUFFICES ASSUME RunInv, [Next]_vars PROVE NothingSkipped'
  OBVIOUS
<1> USE DEF runVars, reportVars
<1>1. ConfirmedByPlace' /\ TypeOK' /\ PendingByPlace'
  BY ConfirmedStep, TypeStep, PlaceStep DEF RunInv
<1>2. CASE pc' \in PipelineStages
  <2>1. /\ confirmed' = Earlier(test', <<pc', next'>>) /\ test' \in Tests
        /\ pc' \in Tried /\ next' \in Nat
    BY <1>1, <1>2 DEF ConfirmedByPlace, Earlier, TypeOK, PendingByPlace,
       PipelineStages, VerifyStages, Tried
  <2> QED
    BY <2>1, EarlierClosed DEF NothingSkipped
<1>3. CASE confirmed' = {}
  BY <1>3 DEF NothingSkipped
<1>4. CASE test' = test /\ confirmed' = confirmed
  BY <1>4 DEF RunInv, NothingSkipped, Pipeline, Before
<1>5. pc = "create" => confirmed = {}
  BY DEF RunInv, ConfirmedByPlace
<1>6. ASSUME NEW ok \in BOOLEAN,
             SetupReturns(ok) \/ Trigger(ok) \/ Fetch(ok) \/ CompareProperties(ok)
      PROVE  NothingSkipped'
  <2>1. pc' \in PipelineStages \/ (test' = test /\ confirmed' = confirmed)
    BY <1>6 DEF SetupReturns, Trigger, Fetch, CompareProperties, Return,
       PipelineStages, VerifyStages
  <2> QED
    BY <1>2, <1>4, <2>1
<1>7. ASSUME NEW stage \in VerifyStages, NEW ok \in BOOLEAN, VerifyItem(stage, ok)
      PROVE  NothingSkipped'
  <2>1. pc' \in PipelineStages \/ (test' = test /\ confirmed' = confirmed)
    BY <1>7 DEF VerifyItem, Return, PipelineStages, VerifyStages
  <2> QED
    BY <1>2, <1>4, <2>1
<1>8. CASE SkipTest \/ EndRun
  BY <1>3, <1>5, <1>8 DEF SkipTest, EndRun
<1> QED
  BY <1>4, <1>6, <1>7, <1>8
     DEF Next, Step, Terminated, vars, CreateTest, SetupPanics, CheckPanics,
         EndOfLoop, RunCleanup, Crash, StartExport, ExportTo, StartAnalytics,
         Finish, Interrupt

(* Failing at a place of the pipeline is justified by what was confirmed   *)
(* before it.                                                              *)
LEMMA BlameJustified ==
    ASSUME RunInv, pc \in PipelineStages, NEW s \in Tried, NEW k \in Nat \ {0},
           <<s, k>> \in Pipeline(test), confirmed = Earlier(test, <<s, k>>),
           verdict' = Failed(s, k), confirmed' = confirmed, test' = test
    PROVE  VerdictJustified'
<1>1. /\ Failed(s, k).passed = FALSE /\ Failed(s, k).stage = s
      /\ Failed(s, k).item = k
  BY DEF Failed
<1>2. /\ ~verdict'.passed
      /\ <<verdict'.stage, verdict'.item>> = <<s, k>>
  BY <1>1
<1>3. Pipeline(test') = Pipeline(test)
  OBVIOUS
<1>4. confirmed' = {a \in Pipeline(test') : Before(a, <<s, k>>)}
  BY <1>3 DEF Earlier
<1> HIDE DEF Earlier
<1> QED
  BY <1>2, <1>3, <1>4 DEF VerdictJustified

(* The result Run returns is the verdict of the place where it stopped.    *)
LEMMA VerdictStep == RunInv /\ [Next]_vars => VerdictJustified'
<1> SUFFICES ASSUME RunInv, [Next]_vars PROVE VerdictJustified'
  OBVIOUS
<1> USE DEF runVars, reportVars
<1>a. /\ pc \in PipelineStages => test \in Tests
      /\ next \in Nat \ {0}
      /\ pc \in PipelineStages =>
           confirmed = Earlier(test, <<pc, next>>) /\ verdict = NoVerdict
  BY DEF RunInv, StackInv, TypeOK, PendingByPlace, ConfirmedByPlace, Earlier
<1>b. /\ Rank["trigger"] = Rank["setup"] + 1 /\ "setup" \in Tried
      /\ "trigger" \in Tried
  BY DEF Tried, Rank
<1>c. CASE pc' # "cleanup"
  BY <1>c DEF VerdictJustified
<1>d. CASE verdict' = NoVerdict
  BY <1>d DEF VerdictJustified
<1>1. ASSUME NEW ok \in BOOLEAN, SetupReturns(ok) PROVE VerdictJustified'
  <2>1. CASE ok
    BY <1>1, <1>c, <2>1 DEF SetupReturns
  <2>2. CASE ~ok
    <3>1. /\ pc = "setup" /\ next <= NumSetup[test] /\ test' = test
          /\ verdict' = Failed("setup", next) /\ confirmed' = confirmed
          /\ pc \in PipelineStages
      BY <1>1, <2>2 DEF SetupReturns, Return, PipelineStages
    <3>2. <<"setup", next>> \in Pipeline(test)
      BY <1>a, <3>1, PipelineItems
    <3> QED
      BY <1>a, <1>b, <3>1, <3>2, BlameJustified
  <2> QED
    BY <2>1, <2>2
<1>2. ASSUME NEW ok \in BOOLEAN, Trigger(ok) PROVE VerdictJustified'
  <2>1. CASE ok
    BY <1>2, <1>c, <2>1 DEF Trigger
  <2>2. CASE ~ok
    <3>1. /\ pc = "setup" /\ next > NumSetup[test] /\ test' = test
          /\ verdict' = Failed("trigger", 1) /\ confirmed' = confirmed
          /\ pc \in PipelineStages
      BY <1>2, <2>2 DEF Trigger, Return, PipelineStages
    <3>2. /\ <<"trigger", 1>> \in Pipeline(test)
          /\ \A a \in Pipeline(test) : a[1] = "setup" => a[2] < next
      BY <1>a, <3>1, PipelineItems, StageSizesAssumption
    <3>3. confirmed = Earlier(test, <<"trigger", 1>>)
      BY <1>a, <1>b, <3>1, <3>2, NextStage
    <3> QED
      BY <1>b, <3>1, <3>2, <3>3, BlameJustified
  <2> QED
    BY <2>1, <2>2
<1>3. ASSUME NEW ok \in BOOLEAN, Fetch(ok) \/ CompareProperties(ok)
      PROVE  VerdictJustified'
  <2>1. CASE ok
    BY <1>3, <1>c, <2>1 DEF Fetch, CompareProperties
  <2>2. CASE ~ok
    <3>1. /\ pc \in {"fetch", "properties"} /\ test' = test
          /\ verdict' = Failed(pc, 1) /\ confirmed' = confirmed
          /\ pc \in PipelineStages /\ pc \in Tried
      BY <1>3, <2>2 DEF Fetch, CompareProperties, Return, PipelineStages, Tried
    <3>2. <<pc, 1>> \in Pipeline(test) /\ next = 1
      BY <1>a, <3>1, PipelineItems DEF RunInv, ConfirmedByPlace
    <3> QED
      BY <1>a, <3>1, <3>2, BlameJustified
  <2> QED
    BY <2>1, <2>2
<1>4. ASSUME NEW stage \in VerifyStages, NEW ok \in BOOLEAN, VerifyItem(stage, ok)
      PROVE  VerdictJustified'
  <2>1. CASE ok
    BY <1>4, <1>c, <2>1 DEF VerifyItem, VerifyStages
  <2>2. CASE ~ok
    <3>1. /\ pc = stage /\ next <= Items(stage) /\ test' = test
          /\ verdict' = Failed(stage, next) /\ confirmed' = confirmed
          /\ pc \in PipelineStages /\ stage \in Tried
      BY <1>4, <2>2 DEF VerifyItem, Return, PipelineStages, VerifyStages, Tried
    <3>2. <<stage, next>> \in Pipeline(test)
      BY <1>a, <3>1, PipelineItems DEF Items, VerifyStages
    <3> QED
      BY <1>a, <3>1, <3>2, BlameJustified
  <2> QED
    BY <2>1, <2>2
<1>5. ASSUME NEW stage \in VerifyStages, EndOfLoop(stage) PROVE VerdictJustified'
  <2>1. CASE stage \in {"traces", "assertions"}
    BY <1>5, <1>c, <2>1 DEF EndOfLoop
  <2>2. CASE stage = "checks"
    <3>1. /\ pc = "checks" /\ next > NumChecks[test] /\ test' = test
          /\ verdict' = Passed /\ confirmed' = confirmed
          /\ pc \in PipelineStages
      BY <1>5, <2>2 DEF EndOfLoop, Return, Items, PipelineStages, VerifyStages
    <3>2. \A a \in Pipeline(test) : a[1] = "checks" => a[2] < next
      BY <1>a, <3>1, PipelineItems, StageSizesAssumption
    <3>3. confirmed = Pipeline(test)
      BY <1>a, <3>1, <3>2, LastStage
    <3>4. verdict'.passed /\ confirmed' = Pipeline(test')
      <4>1. verdict'.passed
        BY <3>1 DEF Passed
      <4> QED
        BY <3>1, <3>3, <4>1
    <3> QED
      BY <3>4 DEF VerdictJustified
  <2> QED
    BY <2>1, <2>2 DEF VerifyStages
<1>6. CASE SetupPanics \/ CheckPanics
  <2>1. verdict' = verdict /\ pc \in PipelineStages
    BY <1>6 DEF SetupPanics, CheckPanics, Panic, PipelineStages, VerifyStages
  <2> QED
    BY <1>a, <1>d, <2>1
<1>7. ASSUME NEW panics \in BOOLEAN, RunCleanup(panics) PROVE VerdictJustified'
  BY <1>7 DEF RunCleanup, RunInv, VerdictJustified, Pipeline, Before
<1>8. CASE EndRun \/ CreateTest \/ Crash \/ StartExport \/ StartAnalytics
           \/ Finish \/ Interrupt
  BY <1>8, <1>c DEF EndRun, CreateTest, Crash, StartExport, StartAnalytics,
     Finish, Interrupt
<1>9. CASE SkipTest \/ \E stage \in ExportStages : ExportTo(stage)
  BY <1>9, <1>c DEF SkipTest, ExportTo, ExportStages
<1>10. CASE UNCHANGED vars
  BY <1>10 DEF vars, RunInv, VerdictJustified, Pipeline, Before
<1> QED
  BY <1>1, <1>2, <1>3, <1>4, <1>5, <1>6, <1>7, <1>8, <1>9, <1>10
     DEF Next, Step, Terminated

-----------------------------------------------------------------------------
(* The report.                                                             *)

\* What the suite of one test may be.
Suite(s) == \/ s = <<Failed("create", 0)>>
            \/ Len(s) = RunCount /\ \A k \in 1..RunCount : FromRun(s[k])

(* A suite is appended behind the others.                                  *)
LEMMA AppendSuite ==
    ASSUME NEW q \in Seq(Seq(Verdicts)), NEW s \in Seq(Verdicts),
           \A t \in 1..Len(q) : Suite(q[t]), Suite(s)
    PROVE  /\ Len(Append(q, s)) = Len(q) + 1
           /\ \A t \in 1..Len(Append(q, s)) : Suite(Append(q, s)[t])
<1> DEFINE R == Seq(Verdicts)
<1> HIDE DEF R
<1>1. q \in Seq(R) /\ s \in R /\ Len(q) \in Nat
  BY LenProperties DEF R
<1>2. /\ Len(Append(q, s)) = Len(q) + 1
      /\ \A t \in 1..Len(q) : Append(q, s)[t] = q[t]
      /\ Append(q, s)[Len(q) + 1] = s
  BY <1>1, AppendProperties
<1>3. \A n \in Nat : \A t \in 1..(n + 1) : t \in 1..n \/ t = n + 1
  OBVIOUS
<1>4. \A t \in 1..(Len(q) + 1) : t \in 1..Len(q) \/ t = Len(q) + 1
  BY <1>1, <1>3
<1> QED
  BY <1>2, <1>4

(* The results of Run name a stage that was tried.                         *)
LEMMA VerdictsFromRun ==
    /\ FromRun(Passed)
    /\ \A s \in Tried, k \in Nat : FromRun(Failed(s, k))
BY DEF FromRun, Passed, Failed, Tried

\* ReportByPlace in parts: the suites and results, the result under way, and
\* the calls of the exporters.
SuitesOK ==
    /\ Len(suites) = test - 1
    /\ \A t \in 1..Len(suites) : Suite(suites[t])
    /\ Len(results) < RunCount
    /\ \A k \in 1..Len(results) : FromRun(results[k])

ResultOK == pc = "cleanup" => panicking \/ FromRun(verdict)

\* The first n exporters of a stage were called.
Calls(stage, n) == {stage} \X (1..n)

CallsOK ==
    /\ delivered # {} => test = NTests + 1
    /\ pc \in PipelineStages \cup {"create", "cleanup"} => delivered = {}
    /\ pc = "export" =>
         delivered = Calls("export", next - 1) /\ next <= NumExporters + 1
    /\ pc = "analytics" =>
         /\ delivered = Calls("export", NumExporters) \cup Calls("analytics", next - 1)
         /\ next <= NumAnalytics + 1
    /\ pc \in ExportStages \cup {"done"} => test = NTests + 1

DoneOK == pc = "done" =>
    delivered = Calls("export", NumExporters) \cup Calls("analytics", NumAnalytics)

LEMMA ReportParts == ReportByPlace <=> SuitesOK /\ ResultOK /\ CallsOK
BY DEF ReportByPlace, SuitesOK, ResultOK, CallsOK, Suite, Calls

(* One exporter more is called.                                            *)
LEMMA CallsGrow ==
    /\ \A s : Calls(s, 0) = {}
    /\ \A s : \A n \in Nat \ {0} : Calls(s, n) = Calls(s, n - 1) \cup {<<s, n>>}
<1>1. 1..0 = {} /\ \A n \in Nat \ {0} : 1..n = (1..(n - 1)) \cup {n}
  OBVIOUS
<1>2. \A s : Calls(s, 0) = {}
  BY <1>1 DEF Calls
<1>3. ASSUME NEW s, NEW n \in Nat \ {0}
      PROVE  Calls(s, n) = Calls(s, n - 1) \cup {<<s, n>>}
  <2> DEFINE less == 1..(n - 1)
  <2>1. 1..n = less \cup {n}
    BY <1>1
  <2> HIDE DEF less
  <2>2. {s} \X (less \cup {n}) = ({s} \X less) \cup {<<s, n>>}
    OBVIOUS
  <2> QED
    BY <2>1, <2>2 DEF Calls, less
<1> QED
  BY <1>2, <1>3

(* A run that ends adds its result, or closes the suite of its test.       *)
LEMMA SuitesStep == RunInv /\ [Next]_vars => SuitesOK'
<1> SUFFICES ASSUME RunInv, [Next]_vars PROVE SuitesOK'
  OBVIOUS
<1>a. /\ SuitesOK /\ ResultOK /\ TypeOK
      /\ test \in Nat /\ RunCount \in Nat
      /\ results \in Seq(Verdicts) /\ Len(results) \in Nat
      /\ suites \in Seq(Seq(Verdicts)) /\ verdict \in Verdicts
  <2>1. SuitesOK /\ ResultOK /\ TypeOK
    BY ReportParts DEF RunInv, StackInv
  <2>2. results \in Seq(Verdicts) /\ suites \in Seq(Seq(Verdicts)) /\ verdict \in Verdicts
    BY <2>1 DEF TypeOK
  <2> QED
    BY <2>1, <2>2, LenProperties, CountsAssumption DEF TypeOK
<1>1. CASE SkipTest
  <2>1. /\ suites' = Append(suites, <<Failed("create", 0)>>) /\ test' = test + 1
        /\ results' = results
    BY <1>1 DEF SkipTest
  <2>2. <<Failed("create", 0)>> \in Seq(Verdicts) /\ Suite(<<Failed("create", 0)>>)
    <3>1. Failed("create", 0) \in Verdicts
      BY FailedType DEF Stages
    <3> QED
      BY <3>1 DEF Suite
  <2>3. /\ Len(suites') = Len(suites) + 1
        /\ \A t \in 1..Len(suites') : Suite(suites'[t])
    BY <1>a, <2>1, <2>2, AppendSuite DEF SuitesOK
  <2> QED
    BY <1>a, <2>1, <2>3 DEF SuitesOK
<1>2. CASE EndRun
  <2> DEFINE longer == Append(results, verdict)
  <2>1. FromRun(verdict)
    BY <1>2, <1>a DEF EndRun, ResultOK
  <2>2. /\ longer \in Seq(Verdicts) /\ Len(longer) = Len(results) + 1
        /\ \A k \in 1..Len(longer) : FromRun(longer[k])
    BY <1>a, <2>1, AppendProperties DEF SuitesOK
  <2> HIDE DEF longer
  <2>3. CASE Len(results) + 1 < RunCount
    <3>1. results' = longer /\ test' = test /\ suites' = suites
      BY <1>2, <2>3 DEF EndRun, longer
    <3> QED
      BY <1>a, <2>2, <2>3, <3>1 DEF SuitesOK
  <2>4. CASE ~(Len(results) + 1 < RunCount)
    <3>1. suites' = Append(suites, longer) /\ results' = <<>> /\ test' = test + 1
      BY <1>2, <2>4 DEF EndRun, longer
    <3>2. Suite(longer)
      BY <1>a, <2>2, <2>4 DEF SuitesOK, Suite
    <3>3. /\ Len(suites') = Len(suites) + 1
          /\ \A t \in 1..Len(suites') : Suite(suites'[t])
      BY <1>a, <2>2, <3>1, <3>2, AppendSuite DEF SuitesOK
    <3>4. Len(results') = 0 /\ RunCount > 0
      BY <3>1, CountsAssumption
    <3> QED
      BY <1>a, <3>1, <3>3, <3>4 DEF SuitesOK
  <2> QED
    BY <2>3, <2>4
<1>3. CASE UNCHANGED <<test, suites, results>>
  BY <1>a, <1>3 DEF SuitesOK
<1> QED
  BY <1>1, <1>2, <1>3
     DEF Next, Step, Terminated, vars, runVars, reportVars, CreateTest,
         SetupReturns, SetupPanics, Trigger, Fetch, CompareProperties,
         VerifyItem, CheckPanics, EndOfLoop, RunCleanup, Crash, StartExport,
         ExportTo, StartAnalytics, Finish, Interrupt

(* Run gives a result that it has, or panics.                              *)
LEMMA ResultStep == RunInv /\ [Next]_vars => ResultOK'
<1> SUFFICES ASSUME RunInv, [Next]_vars PROVE ResultOK'
  OBVIOUS
<1> USE VerdictsFromRun DEF runVars, reportVars, ResultOK
<1>a. ResultOK /\ next \in Nat
  BY ReportParts DEF RunInv, StackInv, TypeOK
<1>1. ASSUME NEW ok \in BOOLEAN,
             SetupReturns(ok) \/ Trigger(ok) \/ Fetch(ok) \/ CompareProperties(ok)
      PROVE  ResultOK'
  BY <1>1, <1>a DEF SetupReturns, Trigger, Fetch, CompareProperties, Return, Tried
<1>2. ASSUME NEW stage \in VerifyStages, NEW ok \in BOOLEAN, VerifyItem(stage, ok)
      PROVE  ResultOK'
  BY <1>2, <1>a DEF VerifyItem, Return, Tried, VerifyStages
<1>3. ASSUME NEW stage \in VerifyStages, EndOfLoop(stage) PROVE ResultOK'
  <2>1. CASE stage = "checks"
    BY <1>3, <2>1 DEF EndOfLoop, Return
  <2>2. CASE stage \in {"traces", "assertions"}
    BY <1>3, <2>2 DEF EndOfLoop
  <2> QED
    BY <2>1, <2>2 DEF VerifyStages
<1>4. CASE SetupPanics \/ CheckPanics
  BY <1>4 DEF SetupPanics, CheckPanics, Panic
<1>5. ASSUME NEW panics \in BOOLEAN, RunCleanup(panics) PROVE ResultOK'
  BY <1>5, <1>a DEF RunCleanup
<1>6. CASE EndRun \/ CreateTest \/ SkipTest \/ Crash \/ StartExport
           \/ StartAnalytics \/ Finish \/ Interrupt
           \/ \E stage \in ExportStages : ExportTo(stage)
  BY <1>6 DEF EndRun, CreateTest, SkipTest, Crash, StartExport, StartAnalytics,
     Finish, Interrupt, ExportTo, ExportStages
<1>7. CASE UNCHANGED vars
  BY <1>7, <1>a DEF vars
<1> QED
  BY <1>1, <1>2, <1>3, <1>4, <1>5, <1>6, <1>7 DEF Next, Step, Terminated

(* The exporters are called one by one, after the last test.               *)
LEMMA CallsStep == RunInv /\ [Next]_vars => CallsOK' /\ ReportComplete'
<1> SUFFICES ASSUME RunInv, [Next]_vars PROVE CallsOK' /\ ReportComplete'
  OBVIOUS
<1> USE DEF runVars, reportVars, ExportStages, PipelineStages, VerifyStages
<1>a. CallsOK /\ DoneOK /\ TypeOK /\ next \in Nat \ {0} /\ test \in 1..(NTests + 1)
      /\ NTests \in Nat /\ NumExporters \in Nat /\ NumAnalytics \in Nat
  <2>1. CallsOK /\ DoneOK /\ TypeOK
    BY ReportParts DEF RunInv, StackInv, ReportComplete, DoneOK, Calls
  <2> QED
    BY <2>1, CountsAssumption DEF TypeOK
<1>b. SUFFICES CallsOK' /\ DoneOK'
  <2>1. SuitesOK'
    BY SuitesStep
  <2>2. delivered' # {} => Len(suites') = NTests
    BY <1>a, <2>1 DEF CallsOK, SuitesOK
  <2>3. delivered' # {} => \A t \in Tests : Suite(suites'[t])
    BY <2>1, <2>2 DEF SuitesOK, Tests
  <2> QED
    BY <2>2, <2>3 DEF ReportComplete, Suite, FromRun, DoneOK, Calls
<1>c. ASSUME pc' \in PipelineStages \cup {"create", "cleanup"}, delivered' = {}
      PROVE  CallsOK' /\ DoneOK'
  BY <1>c DEF CallsOK, DoneOK
<1>d. pc \in PipelineStages \cup {"create", "cleanup"} => delivered = {}
  BY <1>a DEF CallsOK, DoneOK
<1>1. CASE CreateTest \/ SkipTest \/ SetupPanics \/ CheckPanics \/ EndRun
  BY <1>1, <1>c, <1>d DEF CreateTest, SkipTest, SetupPanics, CheckPanics, Panic, EndRun
<1>2. ASSUME NEW ok \in BOOLEAN,
             SetupReturns(ok) \/ Trigger(ok) \/ Fetch(ok) \/ CompareProperties(ok)
      PROVE  CallsOK' /\ DoneOK'
  BY <1>2, <1>c, <1>d DEF SetupReturns, Trigger, Fetch, CompareProperties, Return
<1>3. ASSUME NEW stage \in VerifyStages, NEW ok \in BOOLEAN, VerifyItem(stage, ok)
      PROVE  CallsOK' /\ DoneOK'
  BY <1>3, <1>c, <1>d DEF VerifyItem, Return
<1>4. ASSUME NEW stage \in VerifyStages, EndOfLoop(stage) PROVE CallsOK' /\ DoneOK'
  <2>1. pc' \in {"assertions", "checks", "cleanup"} /\ delivered' = delivered /\ pc = stage
    BY <1>4 DEF EndOfLoop, Return
  <2> QED
    BY <1>c, <1>d, <2>1
<1>5. ASSUME NEW panics \in BOOLEAN, RunCleanup(panics) PROVE CallsOK' /\ DoneOK'
  BY <1>5, <1>c, <1>d DEF RunCleanup
<1>6. CASE Crash \/ Interrupt
  BY <1>6, <1>a, <1>d DEF Crash, Interrupt, CallsOK, DoneOK
<1>7. CASE StartExport
  <2>1. /\ delivered' = {} /\ next' = 1 /\ test' = NTests + 1 /\ pc' = "export"
        /\ Calls("export", next' - 1) = {}
    BY CallsGrow, <1>7, <1>a, <1>d DEF StartExport
  <2> QED
    BY <1>a, <2>1 DEF CallsOK, DoneOK
<1>8. ASSUME NEW stage \in ExportStages, ExportTo(stage) PROVE CallsOK' /\ DoneOK'
  <2>1. /\ pc = stage /\ pc' = stage /\ next' = next + 1 /\ test' = test
        /\ delivered' = delivered \cup {<<stage, next>>}
        /\ test = NTests + 1
    BY <1>8, <1>a DEF ExportTo, CallsOK
  <2>2. Calls(stage, next) = Calls(stage, next - 1) \cup {<<stage, next>>}
        /\ next' - 1 = next
    BY <1>a, <2>1, CallsGrow
  <2>3. CASE stage = "export"
    <3>1. next <= NumExporters /\ delivered = Calls("export", next - 1)
      BY <1>8, <1>a, <2>1, <2>3 DEF ExportTo, CallsOK
    <3>2. delivered' = Calls("export", next)
      BY <2>1, <2>2, <2>3, <3>1
    <3> QED
      BY <1>a, <2>1, <2>2, <2>3, <3>1, <3>2 DEF CallsOK, DoneOK
  <2>4. CASE stage = "analytics"
    <3>1. /\ next <= NumAnalytics
          /\ delivered = Calls("export", NumExporters)
                            \cup Calls("analytics", next - 1)
      BY <1>8, <1>a, <2>1, <2>4 DEF ExportTo, CallsOK
    <3>2. delivered' = Calls("export", NumExporters) \cup Calls("analytics", next)
      BY <2>1, <2>2, <2>4, <3>1
    <3> QED
      BY <1>a, <2>1, <2>2, <2>4, <3>1, <3>2 DEF CallsOK, DoneOK
  <2> QED
    BY <2>3, <2>4
<1>9. CASE StartAnalytics
  <2>1. /\ pc' = "analytics" /\ next' = 1 /\ test' = test /\ delivered' = delivered
        /\ next - 1 = NumExporters /\ delivered = Calls("export", next - 1)
        /\ test = NTests + 1 /\ Calls("analytics", next' - 1) = {}
    BY CallsGrow, <1>9, <1>a DEF StartAnalytics, CallsOK
  <2>2. delivered' = Calls("export", NumExporters) \cup Calls("analytics", next' - 1)
    BY <2>1
  <2> QED
    BY <1>a, <2>1, <2>2 DEF CallsOK, DoneOK
<1>10. CASE Finish
  <2>1. /\ pc' = "done" /\ test' = test /\ delivered' = delivered /\ test = NTests + 1
    BY <1>10, <1>a DEF Finish, CallsOK, DoneOK
  <2>2. delivered = Calls("export", NumExporters) \cup Calls("analytics", NumAnalytics)
    <3>1. CASE pc = "export" /\ next > NumExporters /\ ~CollectTrace
      <4>1. next - 1 = NumExporters /\ NumAnalytics = 0
            /\ delivered = Calls("export", next - 1)
        BY <3>1, <1>a DEF CallsOK, DoneOK, CollectTrace
      <4>2. Calls("analytics", NumAnalytics) = {}
        BY <4>1, CallsGrow
      <4> QED
        BY <4>1, <4>2
    <3>2. CASE pc = "analytics" /\ next > NumAnalytics
      BY <3>2, <1>a DEF CallsOK, DoneOK
    <3> QED
      BY <1>10, <3>1, <3>2 DEF Finish
  <2> QED
    BY <2>1, <2>2 DEF CallsOK, DoneOK
<1>11. CASE UNCHANGED vars
  BY <1>a, <1>11 DEF vars, CallsOK, DoneOK
<1> QED
  BY <1>1, <1>2, <1>3, <1>4, <1>5, <1>6, <1>7, <1>8, <1>9, <1>10, <1>11
     DEF Next, Step, Terminated

-----------------------------------------------------------------------------
(* At the start nothing was confirmed and nothing reported.                *)
LEMMA InitRunInv == Init => RunInv
<1> SUFFICES ASSUME Init PROVE RunInv
  OBVIOUS
<1>1. StackInv
  BY InitStackInv
<1>2. ConfirmedByPlace /\ NothingSkipped /\ VerdictJustified
  BY DEF Init, ConfirmedByPlace, NothingSkipped, VerdictJustified, PipelineStages,
     VerifyStages, ExportStages
<1>3. ReportByPlace
  <2>1. /\ test = 1 /\ suites = <<>> /\ results = <<>> /\ pc = "create"
        /\ delivered = {}
    BY Zenon DEF Init
  <2>2. Len(suites) = 0 /\ Len(results) = 0
    BY <2>1
  <2> QED
    BY <2>1, <2>2, CountsAssumption DEF ReportByPlace, PipelineStages, ExportStages
<1>4. ReportComplete
  BY DEF Init, ReportComplete
<1> QED
  BY <1>1, <1>2, <1>3, <1>4 DEF RunInv

(* The inductive invariant of the orchestrator: the stack of cleanups, what *)
(* was confirmed up to the place where Run is, and what was reported up to  *)
(* the test the outer loop works on.                                        *)
THEOREM RunInvariant == Spec => []RunInv
<1>1. RunInv /\ [Next]_vars => StackInv'
  BY TypeStep, MirrorStep, PlaceStep DEF RunInv, StackInv
<1>2. RunInv /\ [Next]_vars => ReportByPlace'
  BY SuitesStep, ResultStep, CallsStep
     DEF ReportByPlace, SuitesOK, ResultOK, CallsOK, Suite, Calls
<1>3. RunInv /\ [Next]_vars => RunInv'
  BY <1>1, <1>2, ConfirmedStep, SkippedStep, VerdictStep, CallsStep DEF RunInv
<1> QED
  BY InitRunInv, <1>3, PTL DEF Spec

(* No stage is reached past one that failed: for any number of setup        *)
(* commands and verifications, the trigger fires only on a complete setup,  *)
(* and nothing is verified of a trace that was not fetched.                 *)
THEOREM PipelineInOrder == Spec => []NothingSkipped
<1>1. RunInv => NothingSkipped
  BY DEF RunInv
<1> QED
  BY RunInvariant, <1>1, PTL

(* A test passes only when all of its items said yes, and a failed result   *)
(* blames the first item that did not.                                      *)
THEOREM VerdictCorrect == Spec => []VerdictJustified
<1>1. RunInv => VerdictJustified
  BY DEF RunInv
<1> QED
  BY RunInvariant, <1>1, PTL

(* The exporters see every test in order with all of its runs, whatever     *)
(* fails, and mtracer ends normally only after it has called each of them.  *)
THEOREM ReportCorrect == Spec => []ReportComplete
<1>1. RunInv => ReportComplete
  BY DEF RunInv
<1> QED
  BY RunInvariant, <1>1, PTL
=============================================================================
