--------------------------- MODULE ThrottleProofs ---------------------------
(***************************************************************************)
(* Proofs about Throttle for any number of throttling commands, any        *)
(* assignment of targets to them and any number of runs.                   *)
(***************************************************************************)
EXTENDS Throttle, TLAPS

-----------------------------------------------------------------------------
(* What is needed of the constants and names.                              *)
LEMMA HelperNames ==
    /\ NoRule \notin Helpers
    /\ \A h \in Helpers : h[1] \in Throttles /\ h[2] \in 1..RunCount /\ h = <<h[1], h[2]>>
    /\ \A t \in Throttles, r \in 1..RunCount : <<t, r>> \in Helpers
    /\ \A t \in Throttles : TargetOf[t] \in Targets
BY ThrottleAssumption DEF Helpers, NoRule, Throttles, Targets

(* A throttler that has an id knows a helper.                              *)
LEMMA KnownIsHelper ==
    ASSUME TypeOK, next \in Throttles, id[next] # 0
    PROVE  Known \in Helpers /\ TargetOf[next] \in Targets /\ Known[1] = next
<1>1. id[next] \in 1..RunCount
  BY ThrottleAssumption DEF TypeOK
<1> QED
  BY <1>1, HelperNames DEF Known

-----------------------------------------------------------------------------
(* At the start there is no helper, no rule and no id.                     *)
LEMMA InitInv == Init => ThrottleInv
<1> SUFFICES ASSUME Init PROVE ThrottleInv
  OBVIOUS
<1>1. TypeOK
  <2>1. pc = "setup" /\ run = 1 /\ next = 1
    BY DEF Init
  <2>2. settled \in BOOLEAN /\ lost \in BOOLEAN /\ cut \in BOOLEAN /\ attached \in BOOLEAN
    BY Zenon DEF Init
  <2>3. /\ id \in [Throttles -> 0..RunCount] /\ rule \in [Targets -> Helpers \cup {NoRule}]
        /\ helper \in [Helpers -> {"none", "created", "installing", "ready", "gone"}]
    BY ThrottleAssumption DEF Init
  <2>4. pending \in SUBSET Helpers
    BY DEF Init
  <2> QED
    BY <2>1, <2>2, <2>3, <2>4, ThrottleAssumption DEF TypeOK
<1>2. HelpersByRun
  <2>1. pc = "setup" /\ run = 1 /\ next = 1
    BY DEF Init
  <2>2. \A t \in Throttles : id[t] = 0
    BY DEF Init
  <2>3. \A h \in Helpers : helper[h] = "none"
    BY DEF Init
  <2>4. \A t \in Throttles : <<t, run>> \in Helpers
    BY <2>1, HelperNames, ThrottleAssumption
  <2> QED
    BY <2>1, <2>2, <2>3, <2>4 DEF HelpersByRun
<1>3. RulesAndHelpers
  BY HelperNames DEF Init, RulesAndHelpers, Live, Installing
<1> QED
  BY <1>1, <1>2, <1>3 DEF ThrottleInv

(* Every step keeps the types.                                             *)
LEMMA TypeStep == ThrottleInv /\ [Next]_vars => TypeOK'
<1> SUFFICES ASSUME ThrottleInv, [Next]_vars PROVE TypeOK'
  OBVIOUS
<1> USE ThrottleAssumption DEF ThrottleInv, TypeOK
<1>1. CASE BuildSucceeds
  <2>1. next \in Throttles /\ <<next, run>> \in Helpers
    BY <1>1, HelperNames DEF BuildSucceeds, HelpersByRun, Throttles
  <2> QED
    BY <1>1, <2>1 DEF BuildSucceeds
<1>2. CASE BuildFails \/ StartFails \/ TestReturns
  <2>1. settled' \in BOOLEAN /\ lost' \in BOOLEAN /\ cut' \in BOOLEAN
    BY <1>2 DEF BuildFails, StartFails, TestReturns, StartCleanup
  <2>2. pc' = "cleanup" /\ next' \in 0..(NThrottles + 1)
    BY <1>2 DEF BuildFails, StartFails, TestReturns, StartCleanup
  <2>3. UNCHANGED <<run, attached, id, helper, rule, pending>>
    BY <1>2 DEF BuildFails, StartFails, TestReturns
  <2> QED
    BY <2>1, <2>2, <2>3
<1>3. CASE StartSucceeds
  <2>1. /\ pc' = "setup" /\ next' = next + 1 /\ next \in Throttles
        /\ helper' = [helper EXCEPT ![<<next, run>>] = "installing"]
        /\ UNCHANGED <<run, attached, id, rule, pending, settled, lost, cut>>
    BY <1>3 DEF StartSucceeds, HelpersByRun
  <2>2. next' \in 0..(NThrottles + 1)
    BY <2>1 DEF Throttles
  <2>3. helper' \in [Helpers -> {"none", "created", "installing", "ready", "gone"}]
    BY <2>1
  <2> QED
    BY <2>1, <2>2, <2>3
<1>4. CASE SetupDone
  BY <1>4 DEF SetupDone
<1>5. ASSUME NEW h \in Helpers, Install(h) \/ InstallFails(h) PROVE TypeOK'
  BY <1>5 DEF Install, InstallFails
<1>6. ASSUME NEW h \in Helpers, ExecRuns(h) PROVE TypeOK'
  BY <1>6 DEF ExecRuns, Delete
<1>7. CASE ExecSucceeds
  <2>1. next \in Throttles /\ Known \in Helpers
    BY <1>7, KnownIsHelper DEF ExecSucceeds, HelpersByRun, Throttles
  <2> HIDE DEF Known
  <2> QED
    BY <1>7, <2>1 DEF ExecSucceeds, Delete
<1>8. CASE ExecFails
  <2>1. lost' \in BOOLEAN
    BY <1>8 DEF ExecFails
  <2>2. next' \in 0..(NThrottles + 1) /\ pc' = pc
    BY <1>8 DEF ExecFails
  <2>3. UNCHANGED <<run, attached, id, helper, rule, pending, settled, cut>>
    BY <1>8 DEF ExecFails
  <2> QED
    BY <2>1, <2>2, <2>3
<1>9. CASE StopSucceeds
  <2>1. next \in Throttles /\ Known \in Helpers
    BY <1>9, KnownIsHelper DEF StopSucceeds, HelpersByRun, Throttles
  <2> QED
    BY <1>9, <2>1 DEF StopSucceeds, Throttles
<1>10. CASE StopFails
  BY <1>10 DEF StopFails, HelpersByRun, Throttles
<1>11. CASE NextRun
  BY <1>11 DEF NextRun
<1>12. CASE UNCHANGED vars
  BY <1>12 DEF vars
<1> QED
  BY <1>1, <1>2, <1>3, <1>4, <1>5, <1>6, <1>7, <1>8, <1>9, <1>10, <1>11, <1>12
     DEF Next, End

(* Every step keeps the names: only Build makes a helper, of the run under *)
(* way, and gives its throttler the id.                                    *)
LEMMA ByRunStep == ThrottleInv /\ [Next]_vars => HelpersByRun'
<1> SUFFICES ASSUME ThrottleInv, [Next]_vars PROVE HelpersByRun'
  OBVIOUS
<1>a. TypeOK /\ HelpersByRun
  BY DEF ThrottleInv
<1>1. CASE BuildSucceeds
  <2>1. next \in Throttles /\ <<next, run>> \in Helpers
    BY <1>1, <1>a, HelperNames, ThrottleAssumption
       DEF BuildSucceeds, HelpersByRun, Throttles, TypeOK
  <2>2. /\ pc' = "start" /\ run' = run /\ next' = next /\ pc = "setup"
        /\ helper' = [helper EXCEPT ![<<next, run>>] = "created"]
        /\ id' = [id EXCEPT ![next] = run]
    BY <1>1 DEF BuildSucceeds
  <2>3. \A t \in Throttles : id'[t] <= run
    BY <1>a, <2>1, <2>2, ThrottleAssumption DEF TypeOK, HelpersByRun
  <2>4. ASSUME NEW h \in Helpers, helper'[h] # "none"
        PROVE  h[2] <= run /\ (h[2] = run => id'[h[1]] = run)
    <3>1. h[1] \in Throttles /\ h[2] \in Nat /\ h = <<h[1], h[2]>>
      BY HelperNames, ThrottleAssumption
    <3>2. CASE h = <<next, run>>
      BY <1>a, <2>1, <2>2, <3>1, <3>2, ThrottleAssumption DEF TypeOK
    <3>3. CASE h # <<next, run>>
      <4>1. helper[h] # "none"
        BY <1>a, <2>2, <2>4, <3>3 DEF TypeOK
      <4>2. h[2] <= run /\ (h[2] = run => id[h[1]] = run)
        BY <1>a, <4>1 DEF HelpersByRun
      <4> QED
        BY <1>a, <2>1, <2>2, <3>1, <3>3, <4>2 DEF TypeOK
    <3> QED
      BY <3>2, <3>3
  <2>5. \A t \in Throttles : t > next => helper'[<<t, run>>] = "none"
    <3>1. \A t \in Throttles : t > next => helper[<<t, run>>] = "none" /\ <<t, run>> \in Helpers
      BY <1>a, <2>2, HelperNames DEF HelpersByRun, TypeOK
    <3> QED
      BY <1>a, <2>2, <3>1 DEF TypeOK
  <2>6. helper'[<<next, run>>] = "created"
    BY <1>a, <2>1, <2>2 DEF TypeOK
  <2> QED
    BY <2>1, <2>2, <2>3, <2>4, <2>5, <2>6, ThrottleAssumption DEF HelpersByRun, Throttles
<1>2. CASE StartSucceeds
  <2>1. /\ pc = "start" /\ pc' = "setup" /\ next' = next + 1 /\ run' = run /\ id' = id
        /\ helper' = [helper EXCEPT ![<<next, run>>] = "installing"]
        /\ next \in Throttles /\ helper[<<next, run>>] = "created"
    BY <1>2, <1>a DEF StartSucceeds, HelpersByRun
  <2>2. \A h \in Helpers : helper'[h] # "none" => helper[h] # "none"
    BY <1>a, <2>1 DEF TypeOK
  <2>3. ASSUME NEW t \in Throttles, t > next' \/ t = next'
        PROVE  helper'[<<t, run>>] = "none"
    <3>1. t > next /\ t # next /\ <<t, run>> \in Helpers
      BY <1>a, <2>1, <2>3, HelperNames, ThrottleAssumption DEF Throttles, TypeOK
    <3>2. helper[<<t, run>>] = "none"
      BY <1>a, <2>1, <3>1 DEF HelpersByRun
    <3> QED
      BY <1>a, <2>1, <3>1, <3>2 DEF TypeOK
  <2>4. next' >= 1
    BY <2>1, ThrottleAssumption DEF Throttles
  <2> QED
    BY <1>a, <2>1, <2>2, <2>3, <2>4 DEF HelpersByRun
<1>3. CASE NextRun
  <2>1. CASE run < RunCount
    <3>1. /\ pc' = "setup" /\ run' = run + 1 /\ next' = 1 /\ id' = id /\ helper' = helper
          /\ run \in Nat
      BY <1>3, <1>a, <2>1, ThrottleAssumption DEF NextRun, TypeOK
    <3>2. \A h \in Helpers : h[2] \in Nat
      BY HelperNames, ThrottleAssumption
    <3>3. \A h \in Helpers : helper[h] # "none" => h[2] <= run /\ h[2] <= run + 1 /\ h[2] # run + 1
      BY <1>a, <3>1, <3>2 DEF HelpersByRun
    <3>4. ASSUME NEW t \in Throttles PROVE helper[<<t, run + 1>>] = "none"
      <4>1. <<t, run + 1>> \in Helpers /\ <<t, run + 1>>[2] = run + 1
        BY <1>a, <2>1, <3>1, HelperNames, ThrottleAssumption
      <4> QED
        BY <3>1, <3>3, <4>1
    <3>5. \A t \in Throttles : id[t] <= run + 1
      BY <1>a, <3>1, ThrottleAssumption DEF HelpersByRun, TypeOK
    <3> QED
      BY <3>1, <3>3, <3>4, <3>5 DEF HelpersByRun
  <2>2. CASE ~(run < RunCount)
    BY <1>3, <1>a, <2>2 DEF NextRun, HelpersByRun
  <2> QED
    BY <2>1, <2>2
<1>4. CASE BuildFails \/ StartFails \/ TestReturns \/ SetupDone
  <2>1. /\ UNCHANGED <<run, id, helper>> /\ pc' \in {"cleanup", "test"}
        /\ pc' = "cleanup" => next' <= NThrottles
    BY <1>4, <1>a, ThrottleAssumption DEF BuildFails, StartFails, TestReturns,
       SetupDone, StartCleanup, HelpersByRun, Throttles
  <2> QED
    BY <1>a, <2>1 DEF HelpersByRun
<1>5. CASE ExecFails \/ StopFails
  <2>1. next \in Throttles /\ UNCHANGED <<run, id, helper>>
        /\ pc' = "cleanup" /\ next' = next - 1
    BY <1>5, <1>a, ThrottleAssumption DEF ExecFails, StopFails, HelpersByRun,
       Throttles, TypeOK
  <2> QED
    BY <1>a, <2>1, ThrottleAssumption DEF HelpersByRun, Throttles
<1>6. CASE ExecSucceeds
  <2>1. /\ UNCHANGED <<run, id, helper, next>> /\ pc' = "stop" /\ id[next] # 0
        /\ helper[Known] # "none" /\ Known' = Known
    BY <1>6 DEF ExecSucceeds, Live, Known
  <2>2. next \in Throttles
    BY <1>6, <1>a, ThrottleAssumption DEF ExecSucceeds, HelpersByRun, Throttles, TypeOK
  <2> HIDE DEF Known
  <2> QED
    BY <1>a, <2>1, <2>2, ThrottleAssumption DEF HelpersByRun, Throttles
<1>7. CASE StopSucceeds
  <2>1. next \in Throttles /\ Known \in Helpers
    BY <1>7, <1>a, KnownIsHelper DEF StopSucceeds, HelpersByRun
  <2>2. /\ pc' = "cleanup" /\ next' = next - 1 /\ run' = run /\ id' = id
        /\ helper' = [helper EXCEPT ![Known] = "gone"] /\ helper[Known] # "none"
    BY <1>7, <1>a DEF StopSucceeds, HelpersByRun
  <2> HIDE DEF Known
  <2>3. \A h \in Helpers : helper'[h] # "none" => helper[h] # "none"
    BY <1>a, <2>1, <2>2 DEF TypeOK
  <2>4. next' <= NThrottles
    BY <2>1, <2>2, ThrottleAssumption DEF Throttles
  <2> QED
    BY <1>a, <2>2, <2>3, <2>4 DEF HelpersByRun
<1>8. ASSUME NEW h \in Helpers, Install(h) \/ InstallFails(h) \/ ExecRuns(h)
      PROVE  HelpersByRun'
  <2>1. /\ pc' = pc /\ run' = run /\ next' = next /\ id' = id
        /\ \A g \in Helpers : helper'[g] # helper[g] =>
              helper[g] = "installing" /\ helper'[g] # "none"
    BY <1>8, <1>a DEF Install, InstallFails, ExecRuns, TypeOK
  <2>2. \A t \in Throttles : <<t, run>> \in Helpers
    BY <1>a, HelperNames DEF TypeOK
  <2>3. Known' = Known /\ (pc = "stop" => Known \in Helpers)
    BY <1>a, <2>1, KnownIsHelper DEF HelpersByRun, Known
  <2>4. pc = "stop" => helper'[Known] # "none"
    BY <1>a, <2>1, <2>3 DEF HelpersByRun
  <2> HIDE DEF Known
  <2> QED
    BY <1>a, <2>1, <2>2, <2>3, <2>4 DEF HelpersByRun
<1>9. CASE UNCHANGED vars
  <2>1. UNCHANGED <<pc, run, next, id, helper>> /\ Known' = Known
    BY <1>9 DEF vars, Known
  <2> QED
    BY <1>a, <2>1 DEF HelpersByRun
<1> QED
  BY <1>1, <1>2, <1>3, <1>4, <1>5, <1>6, <1>7, <1>8, <1>9 DEF Next, End

-----------------------------------------------------------------------------
\* RulesAndHelpers in parts: the helpers that run, the deletes under way, and
\* the rules.
HelpersOK ==
    /\ \A h \in Helpers : Live(h) => h[2] = run /\ Reached(h[1])
    /\ pc \in {"cleanup", "stop", "end"} => Installing = {}
    /\ pc = "stop" => Live(Known)

PendingOK == pending \subseteq (IF pc = "stop" THEN {Known} ELSE {})

RulesOK ==
    /\ \A c \in Targets : rule[c] # NoRule =>
         rule[c] \in Helpers /\ TargetOf[rule[c][1]] = c /\ helper[rule[c]] = "ready"
    /\ \A h \in Helpers : helper[h] = "ready" =>
         rule[TargetOf[h[1]]] = IF Deleted(h) THEN NoRule ELSE h

LEMMA RulesParts == RulesAndHelpers <=> HelpersOK /\ PendingOK /\ RulesOK
BY DEF RulesAndHelpers, HelpersOK, PendingOK, RulesOK

(* What once disturbed a cleanup is not forgotten.                         *)
LEMMA DisturbedForGood ==
    ASSUME ThrottleInv, [Next]_vars, Undisturbed'
    PROVE  Undisturbed /\ HelpersOK /\ PendingOK /\ RulesOK
<1>1. settled' => settled
  BY DEF Next, vars, BuildSucceeds, BuildFails, StartSucceeds, StartFails, SetupDone,
     TestReturns, StartCleanup, Install, InstallFails, ExecRuns, ExecSucceeds,
     ExecFails, StopSucceeds, StopFails, NextRun, End
<1>2. lost => lost'
  BY DEF Next, vars, BuildSucceeds, BuildFails, StartSucceeds, StartFails, SetupDone,
     TestReturns, StartCleanup, Install, InstallFails, ExecRuns, ExecSucceeds,
     ExecFails, StopSucceeds, StopFails, NextRun, End
<1>3. cut => cut'
  BY DEF Next, vars, BuildSucceeds, BuildFails, StartSucceeds, StartFails, SetupDone,
     TestReturns, StartCleanup, Install, InstallFails, ExecRuns, ExecSucceeds,
     ExecFails, StopSucceeds, StopFails, NextRun, End
<1>4. Undisturbed
  BY <1>1, <1>2, <1>3 DEF Undisturbed
<1> QED
  BY <1>4, RulesParts DEF ThrottleInv

(* The helpers that run stay those of the commands of this run that are    *)
(* still to be cleaned up.                                                 *)
LEMMA HelpersStep ==
    ASSUME ThrottleInv, [Next]_vars, Undisturbed'
    PROVE  HelpersOK'
<1>a. TypeOK /\ HelpersByRun /\ HelpersOK /\ PendingOK /\ RulesOK
  BY DisturbedForGood DEF ThrottleInv
<1>b. \A h \in Helpers : h[1] \in Nat /\ h[2] \in Nat /\ h[1] <= NThrottles
  BY HelperNames, ThrottleAssumption DEF Throttles
<1>c. run \in Nat /\ next \in Nat
  BY <1>a, ThrottleAssumption DEF TypeOK
<1>1. CASE BuildSucceeds
  <2>1. /\ pc = "setup" /\ pc' = "start" /\ run' = run /\ next' = next
        /\ helper' = [helper EXCEPT ![<<next, run>>] = "created"]
    BY <1>1 DEF BuildSucceeds
  <2>2. \A h \in Helpers : Live(h)' => Live(h)
    BY <1>a, <2>1 DEF Live, TypeOK
  <2> QED
    BY <1>a, <2>1, <2>2 DEF HelpersOK, Reached
<1>2. CASE BuildFails \/ StartFails
  <2>1. /\ pc \in {"setup", "start"} /\ pc' = "cleanup" /\ run' = run /\ next' = next
        /\ helper' = helper
    BY <1>2 DEF BuildFails, StartFails, StartCleanup
  <2>2. Installing = {}
    BY <1>2 DEF BuildFails, StartFails, StartCleanup, Undisturbed
  <2>3. Installing' = {}
    <3>1. helper' = helper
      BY <2>1
    <3> QED
      BY <2>2, <3>1 DEF Installing
  <2>4. \A h \in Helpers : Live(h)' => Live(h)
    <3>1. helper' = helper
      BY <2>1
    <3> QED
      BY <3>1 DEF Live
  <2> QED
    BY <1>a, <1>b, <1>c, <2>1, <2>3, <2>4 DEF HelpersOK, Reached
<1>3. CASE StartSucceeds
  <2>1. /\ pc = "start" /\ pc' = "setup" /\ run' = run /\ next' = next + 1
        /\ helper' = [helper EXCEPT ![<<next, run>>] = "installing"]
    BY <1>3 DEF StartSucceeds
  <2>2. ASSUME NEW h \in Helpers, Live(h)' PROVE h[2] = run /\ h[1] < next + 1
    <3>1. CASE h = <<next, run>>
      BY <1>c, <3>1
    <3>2. CASE h # <<next, run>>
      <4>1. Live(h)
        BY <1>a, <2>1, <2>2, <3>2 DEF Live, TypeOK
      <4> QED
        BY <1>a, <1>b, <1>c, <2>1, <4>1 DEF HelpersOK, Reached
    <3> QED
      BY <3>1, <3>2
  <2> QED
    BY <2>1, <2>2 DEF HelpersOK, Reached
<1>4. CASE SetupDone
  <2>1. pc' = "test" /\ run' = run /\ helper' = helper
    BY <1>4 DEF SetupDone
  <2> QED
    BY <1>a, <2>1 DEF HelpersOK, Reached, Live
<1>5. CASE TestReturns
  <2>1. /\ pc' = "cleanup" /\ run' = run /\ next' = NThrottles /\ helper' = helper
        /\ settled' => Installing = {}
    BY <1>5 DEF TestReturns, StartCleanup
  <2>2. Installing' = {}
    BY <2>1 DEF Undisturbed, Installing
  <2> QED
    BY <1>a, <1>b, <2>1, <2>2 DEF HelpersOK, Reached, Live
<1>6. ASSUME NEW h \in Helpers, Install(h) \/ InstallFails(h) PROVE HelpersOK'
  <2>1. /\ UNCHANGED <<pc, run, next, id>> /\ helper[h] = "installing"
        /\ \A g \in Helpers : Live(g)' => Live(g)
    BY <1>6, <1>a DEF Install, InstallFails, Live, TypeOK
  <2>2. h \in Installing
    BY <2>1 DEF Installing
  <2>3. pc \notin {"cleanup", "stop", "end"}
    BY <1>a, <2>2 DEF HelpersOK
  <2> QED
    BY <1>a, <2>1, <2>3 DEF HelpersOK, Reached
<1>7. CASE (\E h \in Helpers : ExecRuns(h)) \/ UNCHANGED vars
  <2>1. UNCHANGED <<pc, run, next, id, helper>>
    BY <1>7 DEF ExecRuns, vars
  <2> QED
    BY <1>a, <2>1 DEF HelpersOK, Reached, Live, Installing, Known
<1>8. CASE ExecSucceeds
  <2>1. /\ pc = "cleanup" /\ pc' = "stop" /\ UNCHANGED <<run, next, id, helper>>
        /\ Live(Known)
    BY <1>8 DEF ExecSucceeds
  <2> QED
    BY <1>a, <2>1 DEF HelpersOK, Reached, Live, Installing, Known
<1>9. CASE ExecFails
  <2>1. /\ pc = "cleanup" /\ pc' = "cleanup" /\ next' = next - 1 /\ next \in Throttles
        /\ UNCHANGED <<run, id, helper>> /\ Installing = {}
        /\ id[next] = 0 \/ helper[Known] # "ready"
    BY <1>9, <1>a, ThrottleAssumption
       DEF ExecFails, HelpersByRun, HelpersOK, Undisturbed, Throttles, TypeOK
  <2>2. ASSUME NEW h \in Helpers, Live(h), h[1] = next PROVE FALSE
    <3>1. helper[h] = "ready" /\ h[2] = run
      BY <1>a, <2>1, <2>2 DEF Live, Installing, HelpersOK
    <3>2. id[next] = run /\ run # 0
      BY <1>a, <2>2, <3>1, ThrottleAssumption DEF HelpersByRun, TypeOK
    <3>3. h = Known
      BY <2>2, <3>1, <3>2, HelperNames DEF Known
    <3> QED
      BY <2>1, <3>1, <3>2, <3>3
  <2>3. \A h \in Helpers : Live(h) => h[2] = run /\ h[1] <= next - 1
    BY <1>a, <1>b, <1>c, <2>1, <2>2 DEF HelpersOK, Reached
  <2> QED
    BY <2>1, <2>3 DEF HelpersOK, Reached, Live, Installing
<1>10. CASE StopSucceeds
  <2>1. /\ pc = "stop" /\ pc' = "cleanup" /\ next' = next - 1 /\ next \in Throttles
        /\ UNCHANGED <<run, id>> /\ helper' = [helper EXCEPT ![Known] = "gone"]
        /\ Known \in Helpers /\ Installing = {}
    BY <1>10, <1>a, KnownIsHelper DEF StopSucceeds, HelpersByRun, HelpersOK
  <2>2. ASSUME NEW h \in Helpers, Live(h)' PROVE h[2] = run /\ h[1] <= next - 1
    <3>1. h # Known /\ Live(h)
      BY <1>a, <2>1, <2>2 DEF Live, TypeOK
    <3>2. h[2] = run /\ h[1] <= next
      BY <1>a, <2>1, <3>1 DEF HelpersOK, Reached
    <3>3. h[1] # next
      <4>1. id[h[1]] = run
        BY <1>a, <3>1, <3>2 DEF HelpersByRun, Live
      <4> QED
        BY <3>1, <3>2, <4>1, HelperNames DEF Known
    <3> QED
      BY <1>b, <1>c, <3>2, <3>3
  <2>3. Installing' = {}
    BY <1>a, <2>1 DEF Installing, TypeOK
  <2> QED
    BY <2>1, <2>2, <2>3 DEF HelpersOK, Reached
<1>11. CASE StopFails
  BY <1>11 DEF StopFails, Undisturbed
<1>12. CASE NextRun
  <2>1. /\ pc = "cleanup" /\ next = 0 /\ helper' = helper /\ pc' \in {"setup", "end"}
    BY <1>12 DEF NextRun
  <2>2. \A h \in Helpers : ~Live(h)
    <3>1. \A h \in Helpers : h[1] > 0
      BY HelperNames, ThrottleAssumption DEF Throttles
    <3> QED
      BY <1>a, <1>b, <2>1, <3>1 DEF HelpersOK, Reached
  <2> QED
    BY <1>a, <2>1, <2>2 DEF HelpersOK, Live, Installing
<1> QED
  BY <1>1, <1>2, <1>3, <1>4, <1>5, <1>6, <1>7, <1>8, <1>9, <1>10, <1>11, <1>12
     DEF Next, End

(* A delete is pending only in the helper that is about to be stopped.     *)
LEMMA PendingStep ==
    ASSUME ThrottleInv, [Next]_vars, Undisturbed'
    PROVE  PendingOK'
<1>a. TypeOK /\ HelpersByRun /\ HelpersOK /\ PendingOK
  BY DisturbedForGood DEF ThrottleInv
<1>1. CASE ExecSucceeds
  <2>1. pending = {} /\ pc' = "stop" /\ Known' = Known /\ pending' \subseteq pending \cup {Known}
    BY <1>1, <1>a DEF ExecSucceeds, PendingOK, Known
  <2> QED
    BY <2>1 DEF PendingOK
<1>2. CASE StopSucceeds
  <2>1. pending \subseteq {Known} /\ pending' = pending \ {Known}
    BY <1>2, <1>a DEF StopSucceeds, PendingOK
  <2> QED
    BY <2>1 DEF PendingOK
<1>3. CASE StopFails
  BY <1>3 DEF StopFails, Undisturbed
<1>4. ASSUME NEW h \in Helpers, Install(h) \/ InstallFails(h) \/ ExecRuns(h)
      PROVE  PendingOK'
  <2>1. pending' \subseteq pending /\ pc' = pc /\ Known' = Known
    BY <1>4 DEF Install, InstallFails, ExecRuns, Known
  <2> QED
    BY <1>a, <2>1 DEF PendingOK
<1>5. CASE BuildSucceeds \/ BuildFails \/ StartSucceeds \/ StartFails \/ SetupDone
           \/ TestReturns \/ ExecFails \/ NextRun
  <2>1. pending' = pending /\ pc # "stop"
    BY <1>5 DEF BuildSucceeds, BuildFails, StartSucceeds, StartFails, SetupDone,
       TestReturns, ExecFails, NextRun
  <2> QED
    BY <1>a, <2>1 DEF PendingOK
<1>6. CASE UNCHANGED vars
  <2>1. pending' = pending /\ pc' = pc /\ Known' = Known
    BY <1>6 DEF vars, Known
  <2> QED
    BY <1>a, <2>1 DEF PendingOK
<1> QED
  BY <1>1, <1>2, <1>3, <1>4, <1>5, <1>6 DEF Next, End

(* The rules stay those of the ready helpers when a step leaves the rules  *)
(* and the ready helpers alone, and no delete is under way.                *)
LEMMA RulesFrame ==
    ASSUME RulesOK, rule' = rule, pc # "stop", pc' # "stop",
           \A h \in Helpers : helper'[h] = "ready" <=> helper[h] = "ready"
    PROVE  RulesOK'
BY DEF RulesOK, Deleted

(* A delete in the helper about to be stopped takes its own rule away and  *)
(* no other.                                                               *)
LEMMA DeleteKnown ==
    ASSUME TypeOK, RulesOK, Known \in Helpers, helper[Known] = "ready",
           ~Deleted(Known), helper' = helper, pc' = "stop", Known' = Known,
           Known \notin pending', rule' = [rule EXCEPT ![TargetOf[Known[1]]] = NoRule],
           \A h \in Helpers : ~Deleted(h)
    PROVE  RulesOK'
<1> DEFINE mine == TargetOf[Known[1]]
<1>1. mine \in Targets /\ rule[mine] = Known
  BY HelperNames DEF RulesOK
<1>2. Deleted(Known)'
  BY DEF Deleted
<1>3. \A h \in Helpers : Deleted(h)' => h = Known
  BY DEF Deleted
<1>4. ASSUME NEW c \in Targets, rule'[c] # NoRule
      PROVE  rule'[c] \in Helpers /\ TargetOf[rule'[c][1]] = c /\ helper[rule'[c]] = "ready"
  <2>1. c # mine /\ rule'[c] = rule[c]
    BY <1>1, <1>4 DEF TypeOK
  <2> QED
    BY <1>4, <2>1 DEF RulesOK
<1>5. ASSUME NEW h \in Helpers, helper[h] = "ready", h # Known
      PROVE  rule'[TargetOf[h[1]]] = h
  <2>1. rule[TargetOf[h[1]]] = h /\ TargetOf[h[1]] \in Targets
    BY <1>5, HelperNames DEF RulesOK
  <2>2. TargetOf[h[1]] # mine
    BY <1>1, <1>5, <2>1
  <2> QED
    BY <2>1, <2>2 DEF TypeOK
<1>6. rule'[mine] = NoRule
  BY <1>1 DEF TypeOK
<1> QED
  <2>1. helper' = helper
    OBVIOUS
  <2> HIDE DEF Known
  <2> QED
    BY <1>2, <1>3, <1>4, <1>5, <1>6, <2>1 DEF RulesOK

(* The rules stay those of the helpers that are ready and not deleted.     *)
LEMMA RulesStep ==
    ASSUME ThrottleInv, [Next]_vars, Undisturbed'
    PROVE  RulesOK'
<1>a. TypeOK /\ HelpersByRun /\ HelpersOK /\ PendingOK /\ RulesOK /\ Undisturbed
  BY DisturbedForGood DEF ThrottleInv
<1>b. pc = "stop" => /\ next \in Throttles /\ Known \in Helpers /\ Installing = {}
                     /\ helper[Known] = "ready"
  BY <1>a, KnownIsHelper DEF HelpersByRun, HelpersOK, Live, Installing
<1>1. CASE BuildSucceeds
  <2>1. /\ pc = "setup" /\ pc' = "start" /\ rule' = rule
        /\ helper' = [helper EXCEPT ![<<next, run>>] = "created"]
    BY <1>1 DEF BuildSucceeds
  <2>2. helper[<<next, run>>] = "none" /\ <<next, run>> \in Helpers
    BY <1>1, <1>a, HelperNames, ThrottleAssumption
       DEF BuildSucceeds, HelpersByRun, Throttles, TypeOK
  <2>3. \A h \in Helpers : helper'[h] = "ready" <=> helper[h] = "ready"
    BY <1>a, <2>1, <2>2 DEF TypeOK
  <2> QED
    BY <1>a, <2>1, <2>3, RulesFrame
<1>2. CASE StartSucceeds
  <2>1. /\ pc = "start" /\ pc' = "setup" /\ rule' = rule
        /\ helper' = [helper EXCEPT ![<<next, run>>] = "installing"]
        /\ helper[<<next, run>>] = "created"
    BY <1>2, <1>a DEF StartSucceeds, HelpersByRun
  <2>2. \A h \in Helpers : helper'[h] = "ready" <=> helper[h] = "ready"
    BY <1>a, <2>1 DEF TypeOK
  <2> QED
    BY <1>a, <2>1, <2>2, RulesFrame
<1>3. CASE BuildFails \/ StartFails \/ SetupDone \/ TestReturns \/ ExecFails \/ NextRun
  <2>1. rule' = rule /\ helper' = helper /\ pc # "stop" /\ pc' # "stop"
    BY <1>3 DEF BuildFails, StartFails, SetupDone, TestReturns, StartCleanup,
       ExecFails, NextRun
  <2> QED
    BY <1>a, <2>1, RulesFrame
<1>4. ASSUME NEW h \in Helpers, Install(h) PROVE RulesOK'
  <2> DEFINE c == TargetOf[h[1]]
  <2>1. /\ helper[h] = "installing" /\ rule[c] = NoRule /\ c \in Targets
        /\ rule' = [rule EXCEPT ![c] = h] /\ helper' = [helper EXCEPT ![h] = "ready"]
        /\ pc' = pc
    BY <1>4, HelperNames DEF Install
  <2>2. pc # "stop"
    BY <1>b, <2>1 DEF Installing
  <2>3. ASSUME NEW g \in Helpers, helper'[g] = "ready"
        PROVE  rule'[TargetOf[g[1]]] = g
    <3>1. CASE g = h
      BY <1>a, <2>1, <3>1 DEF TypeOK
    <3>2. CASE g # h
      <4>1. helper[g] = "ready"
        BY <1>a, <2>1, <2>3, <3>2 DEF TypeOK
      <4>2. rule[TargetOf[g[1]]] = g /\ g # NoRule
        BY <1>a, <2>2, <4>1, HelperNames DEF RulesOK, Deleted
      <4>3. TargetOf[g[1]] # c /\ TargetOf[g[1]] \in Targets
        BY <2>1, <4>2, HelperNames
      <4> QED
        BY <1>a, <2>1, <4>2, <4>3 DEF TypeOK
    <3> QED
      BY <3>1, <3>2
  <2>4. ASSUME NEW d \in Targets, rule'[d] # NoRule
        PROVE  rule'[d] \in Helpers /\ TargetOf[rule'[d][1]] = d /\ helper'[rule'[d]] = "ready"
    <3>1. CASE d = c
      BY <1>a, <2>1, <3>1 DEF TypeOK
    <3>2. CASE d # c
      <4>1. rule'[d] = rule[d]
        BY <1>a, <2>1, <3>2 DEF TypeOK
      <4>2. rule[d] \in Helpers /\ TargetOf[rule[d][1]] = d /\ helper[rule[d]] = "ready"
        BY <1>a, <2>4, <4>1 DEF RulesOK
      <4>3. helper'[rule[d]] = "ready"
        BY <1>a, <2>1, <4>2 DEF TypeOK
      <4> QED
        BY <4>1, <4>2, <4>3
    <3> QED
      BY <3>1, <3>2
  <2>5. \A g \in Helpers : ~Deleted(g)'
    BY <2>1, <2>2 DEF Deleted
  <2> QED
    BY <2>3, <2>4, <2>5 DEF RulesOK
<1>5. ASSUME NEW h \in Helpers, InstallFails(h) PROVE RulesOK'
  <2>1. /\ helper[h] = "installing" /\ helper' = [helper EXCEPT ![h] = "gone"]
        /\ rule' = rule /\ pc' = pc
    BY <1>5 DEF InstallFails
  <2>2. pc # "stop"
    BY <1>b, <2>1 DEF Installing
  <2>3. \A g \in Helpers : helper'[g] = "ready" <=> helper[g] = "ready"
    BY <1>a, <2>1 DEF TypeOK
  <2> QED
    BY <1>a, <2>1, <2>2, <2>3, RulesFrame
<1>6. ASSUME NEW h \in Helpers, ExecRuns(h) PROVE RulesOK'
  <2>1. pc = "stop" /\ h = Known /\ pending = {Known}
    BY <1>6, <1>a DEF ExecRuns, PendingOK
  <2>2. /\ pc' = "stop" /\ Known' = Known /\ helper' = helper
        /\ Known \notin pending' /\ Known \in Helpers /\ helper[Known] = "ready"
    BY <1>6, <1>b, <2>1 DEF ExecRuns, Known
  <2>3. rule' = [rule EXCEPT ![TargetOf[Known[1]]] = NoRule]
    BY <1>6, <2>1, <2>2 DEF ExecRuns, Delete
  <2>4. ~Deleted(Known) /\ \A g \in Helpers : ~Deleted(g)
    BY <2>1 DEF Deleted
  <2> QED
    BY <1>a, <2>2, <2>3, <2>4, DeleteKnown
<1>7. CASE ExecSucceeds
  <2>1. /\ pc = "cleanup" /\ next \in Throttles /\ Live(Known) /\ Known \in Helpers
        /\ pc' = "stop" /\ Known' = Known /\ helper' = helper /\ pending = {}
    <3>1. next \in Throttles
      BY <1>7, <1>a, ThrottleAssumption DEF ExecSucceeds, HelpersByRun, Throttles, TypeOK
    <3> QED
      BY <1>7, <1>a, <3>1, KnownIsHelper DEF ExecSucceeds, PendingOK, Known
  <2>2. helper[Known] = "ready"
    BY <1>a, <2>1 DEF HelpersOK, Live, Installing
  <2>3. ~Deleted(Known) /\ \A g \in Helpers : ~Deleted(g)
    BY <2>1 DEF Deleted
  <2>4. CASE attached
    <3>1. pending' = pending /\ rule' = [rule EXCEPT ![TargetOf[Known[1]]] = NoRule]
      BY <1>7, <2>2, <2>4 DEF ExecSucceeds, Delete
    <3>2. Known \notin pending'
      BY <2>1, <3>1
    <3> QED
      BY <1>a, <2>1, <2>2, <2>3, <3>1, <3>2, DeleteKnown
  <2>5. CASE ~attached
    <3>1. pending' = {Known} /\ rule' = rule
      BY <1>7, <2>1, <2>5 DEF ExecSucceeds
    <3>2. \A g \in Helpers : ~Deleted(g)'
      BY <2>1, <3>1 DEF Deleted
    <3> QED
      BY <1>a, <2>1, <2>3, <3>1, <3>2 DEF RulesOK
  <2> QED
    BY <2>4, <2>5
<1>8. CASE StopSucceeds
  <2>1. /\ pc = "stop" /\ pc' = "cleanup" /\ rule' = rule
        /\ helper' = [helper EXCEPT ![Known] = "gone"] /\ Known \notin pending
    BY <1>8 DEF StopSucceeds, Undisturbed
  <2>2. Deleted(Known) /\ rule[TargetOf[Known[1]]] = NoRule
    BY <1>a, <1>b, <2>1 DEF Deleted, RulesOK
  <2>3. ASSUME NEW h \in Helpers, helper'[h] = "ready"
        PROVE  rule[TargetOf[h[1]]] = h
    <3>1. h # Known /\ helper[h] = "ready"
      BY <1>a, <1>b, <2>1, <2>3 DEF TypeOK
    <3> QED
      BY <1>a, <3>1 DEF RulesOK, Deleted
  <2>4. ASSUME NEW c \in Targets, rule[c] # NoRule
        PROVE  rule[c] \in Helpers /\ TargetOf[rule[c][1]] = c /\ helper'[rule[c]] = "ready"
    <3>1. rule[c] \in Helpers /\ TargetOf[rule[c][1]] = c /\ helper[rule[c]] = "ready"
      BY <1>a, <2>4 DEF RulesOK
    <3>2. rule[c] # Known
      BY <2>2, <2>4, <3>1
    <3> QED
      BY <1>a, <2>1, <3>1, <3>2 DEF TypeOK
  <2>5. \A h \in Helpers : ~Deleted(h)'
    BY <2>1 DEF Deleted
  <2> HIDE DEF Known
  <2> QED
    BY <2>1, <2>3, <2>4, <2>5 DEF RulesOK
<1>9. CASE StopFails
  BY <1>9 DEF StopFails, Undisturbed
<1>10. CASE UNCHANGED vars
  BY <1>a, <1>10 DEF vars, RulesOK, Deleted, Known
<1> QED
  BY <1>1, <1>2, <1>3, <1>4, <1>5, <1>6, <1>7, <1>8, <1>9, <1>10 DEF Next, End

-----------------------------------------------------------------------------
(* The inductive invariant: who created which helper, and, as long as      *)
(* nothing disturbs a cleanup, which helpers run and whose rules are on    *)
(* the interfaces.                                                         *)
THEOREM ThrottleInvariant == Spec => []ThrottleInv
<1>1. ThrottleInv /\ [Next]_vars => ThrottleInv'
  <2> SUFFICES ASSUME ThrottleInv, [Next]_vars PROVE ThrottleInv'
    OBVIOUS
  <2>1. TypeOK' /\ HelpersByRun'
    BY TypeStep, ByRunStep
  <2>2. ASSUME Undisturbed' PROVE RulesAndHelpers'
    <3>1. HelpersOK' /\ PendingOK' /\ RulesOK'
      BY <2>2, HelpersStep, PendingStep, RulesStep
    <3> QED
      BY <3>1 DEF RulesAndHelpers, HelpersOK, PendingOK, RulesOK
  <2> QED
    BY <2>1, <2>2 DEF ThrottleInv
<1> QED
  BY InitInv, <1>1, PTL DEF Spec

(* Between runs nothing slows a target and no helper runs, for any number  *)
(* of throttles on any targets, unless a cleanup was disturbed in one of   *)
(* the three named ways.                                                   *)
THEOREM CleanupRestoresNetwork == Spec => []Unthrottled
<1>1. ThrottleInv => Unthrottled
  <2> SUFFICES ASSUME ThrottleInv, BetweenRuns, Undisturbed
               PROVE  /\ \A c \in Targets : rule[c] = NoRule
                      /\ \A h \in Helpers : ~Live(h)
    BY DEF Unthrottled, Undisturbed
  <2>1. HelpersOK /\ RulesOK
    BY RulesParts DEF ThrottleInv
  <2>2. ASSUME NEW h \in Helpers PROVE ~Live(h)
    <3>1. h[1] \in Nat /\ h[1] >= 1
      BY HelperNames, ThrottleAssumption DEF Throttles
    <3> QED
      BY <2>1, <3>1 DEF HelpersOK, Reached, BetweenRuns
  <2>3. ASSUME NEW c \in Targets PROVE rule[c] = NoRule
    BY <2>1, <2>2 DEF RulesOK, Live
  <2> QED
    BY <2>2, <2>3
<1> QED
  BY ThrottleInvariant, <1>1, PTL

(* No cleanup takes away the rule of a throttle whose own cleanup is still *)
(* to come, however many commands slow the same target.                    *)
THEOREM DeletesOwnRule == Spec => OwnRuleOnly
<1> DEFINE Own == \A c \in Targets :
                     (settled /\ ~lost /\ ~cut /\ rule[c] # NoRule /\ rule'[c] = NoRule)
                        => /\ rule[c] = Known \/ rule[c] \in pending
                           /\ pc \in {"cleanup", "stop"}
<1>1. ThrottleInv /\ [Next]_vars => [Own]_vars
  <2> SUFFICES ASSUME ThrottleInv, [Next]_vars, Undisturbed, NEW c \in Targets,
                      rule[c] # NoRule, rule'[c] = NoRule
               PROVE  /\ rule[c] = Known \/ rule[c] \in pending
                      /\ pc \in {"cleanup", "stop"}
    BY DEF Undisturbed
  <2>a. TypeOK /\ HelpersByRun /\ HelpersOK /\ PendingOK /\ RulesOK
    BY RulesParts DEF ThrottleInv
  <2>1. CASE rule' = rule
    BY <2>1
  <2>2. ASSUME NEW h \in Helpers, Install(h) PROVE FALSE
    BY <2>2, <2>a, HelperNames DEF Install, TypeOK
  <2>3. ASSUME NEW h \in Helpers, ExecRuns(h)
        PROVE  rule[c] \in pending /\ pc = "stop"
    <3>1. pc = "stop" /\ h = Known /\ pending = {Known} /\ helper[h] = "ready"
      BY <2>3, <2>a DEF ExecRuns, PendingOK, HelpersOK, Live, Installing
    <3>2. rule[TargetOf[h[1]]] = h /\ c = TargetOf[h[1]]
      BY <2>3, <2>a, <3>1, HelperNames DEF ExecRuns, Delete, RulesOK, Deleted, TypeOK
    <3> QED
      BY <3>1, <3>2
  <2>4. CASE ExecSucceeds
    <3>1. next \in Throttles
      BY <2>4, <2>a, ThrottleAssumption DEF ExecSucceeds, HelpersByRun, Throttles, TypeOK
    <3>2. pc = "cleanup" /\ Known \in Helpers /\ helper[Known] = "ready"
      BY <2>4, <2>a, <3>1, KnownIsHelper DEF ExecSucceeds, HelpersOK, Live, Installing
    <3>3. rule[TargetOf[Known[1]]] = Known
      BY <2>a, <3>2 DEF RulesOK, Deleted
    <3>4. c = TargetOf[Known[1]]
      BY <2>4, <2>a, <3>2, HelperNames DEF ExecSucceeds, Delete, TypeOK
    <3> QED
      BY <3>2, <3>3, <3>4
  <2> QED
    BY <2>1, <2>2, <2>3, <2>4
       DEF Next, vars, BuildSucceeds, BuildFails, StartSucceeds, StartFails,
           SetupDone, TestReturns, InstallFails, ExecFails, StopSucceeds,
           StopFails, NextRun, End
<1> QED
  BY ThrottleInvariant, <1>1, PTL DEF Spec, OwnRuleOnly
=============================================================================
