------------------------------- MODULE Throttle -------------------------------
(***************************************************************************)
(* The setup commands that slow a container's network: delayContainer,     *)
(* packetLossContainer and customQdiscContainer.  They share one mechanism *)
(* (setupCommand/docker/throttle.go): Throttle creates and starts a helper *)
(* container in the network namespace of the target, whose own shell       *)
(* installs iproute2 and then adds a queueing rule; Unthrottle executes    *)
(* "tc qdisc del" in the helper and stops it.                              *)
(*                                                                         *)
(* Throttle returns when the helper is started, so that the helper works   *)
(* beside the test: Install and InstallFails are steps of the helper, the  *)
(* other actions are steps of TraceTest.Run.  An interface has one root    *)
(* rule: adding a second one fails, and the helper exits and is removed.   *)
(***************************************************************************)
EXTENDS Naturals, FiniteSets

CONSTANTS
    NThrottles,   \* throttling setup commands of the test, in order
    TargetOf,     \* the container (its network interface) each one slows
    RunCount      \* how often the test is run (--count)

Throttles == 1..NThrottles

ASSUME ThrottleAssumption ==
    /\ NThrottles \in Nat
    /\ RunCount \in Nat \ {0}
    /\ DOMAIN TargetOf = Throttles

Targets == {TargetOf[t] : t \in Throttles}

\* A helper is named by the command and the run that created it.
Helpers == Throttles \X (1..RunCount)
NoRule  == <<0, 0>>

VARIABLES
    pc,        \* "setup", "start", "test", "cleanup", "stop" or "end"
    run,       \* number of the run
    next,      \* the command executed next, or cleaned up next
    attached,  \* the log level is Info or lower: an exec is waited for
    id,        \* helperContainerId of each throttler: the run it is of, or 0
    helper,    \* the state of each helper container
    rule,      \* the helper whose rule is on the interface of each target
    pending,   \* helpers with a detached exec that has not run
    settled,   \* history: no cleanup began while a helper was installing
    lost,      \* history: a call of a Cleanup got no answer from the daemon
    cut        \* history: a helper was stopped before its detached exec ran

vars == <<pc, run, next, attached, id, helper, rule, pending, settled, lost, cut>>

Live(h) == helper[h] \in {"installing", "ready"}

Installing == {h \in Helpers : helper[h] = "installing"}

-----------------------------------------------------------------------------
Init ==
    /\ pc = "setup"
    /\ run = 1
    /\ next = 1
    /\ attached \in BOOLEAN
    /\ id = [t \in Throttles |-> 0]
    /\ helper = [h \in Helpers |-> "none"]
    /\ rule = [c \in Targets |-> NoRule]
    /\ pending = {}
    /\ settled = TRUE /\ lost = FALSE /\ cut = FALSE

\* Run returns: the deferred cleanups start with command n.
StartCleanup(n) ==
    /\ pc' = "cleanup"
    /\ next' = n
    /\ settled' = (settled /\ Installing = {})

(* Build creates the helper container, and Throttle keeps its id.          *)
BuildSucceeds ==
    /\ pc = "setup" /\ next <= NThrottles
    /\ helper' = [helper EXCEPT ![<<next, run>>] = "created"]
    /\ id' = [id EXCEPT ![next] = run]
    /\ pc' = "start"
    /\ UNCHANGED <<run, next, attached, rule, pending, settled, lost, cut>>

(* Build fails: Execute fails, and the throttler keeps the id it has from  *)
(* an earlier run.                                                         *)
BuildFails ==
    /\ pc = "setup" /\ next <= NThrottles
    /\ StartCleanup(next)
    /\ UNCHANGED <<run, attached, id, helper, rule, pending, lost, cut>>

(* The helper is started; Throttle returns without waiting for the rule.   *)
StartSucceeds ==
    /\ pc = "start"
    /\ helper' = [helper EXCEPT ![<<next, run>>] = "installing"]
    /\ pc' = "setup" /\ next' = next + 1
    /\ UNCHANGED <<run, attached, id, rule, pending, settled, lost, cut>>

(* The helper cannot be started: it stays behind, created.                 *)
StartFails ==
    /\ pc = "start"
    /\ StartCleanup(next)
    /\ UNCHANGED <<run, attached, id, helper, rule, pending, lost, cut>>

SetupDone ==
    /\ pc = "setup" /\ next > NThrottles
    /\ pc' = "test"
    /\ UNCHANGED <<run, next, attached, id, helper, rule, pending, settled, lost, cut>>

TestReturns ==
    /\ pc = "test"
    /\ StartCleanup(NThrottles)
    /\ UNCHANGED <<run, attached, id, helper, rule, pending, lost, cut>>

-----------------------------------------------------------------------------
\* A mutant for the model checker: ";" for "&&", the helper sleeps without its rule.
InstallUnchecked(h) ==
    /\ helper[h] = "installing"
    /\ rule' = IF rule[TargetOf[h[1]]] = NoRule
                 THEN [rule EXCEPT ![TargetOf[h[1]]] = h] ELSE rule
    /\ helper' = [helper EXCEPT ![h] = "ready"]
    /\ UNCHANGED <<pc, run, next, attached, id, pending, settled, lost, cut>>

(* A helper adds its rule and sleeps.                                      *)
Install(h) ==
    /\ helper[h] = "installing"
    /\ rule[TargetOf[h[1]]] = NoRule
    /\ rule' = [rule EXCEPT ![TargetOf[h[1]]] = h]
    /\ helper' = [helper EXCEPT ![h] = "ready"]
    /\ UNCHANGED <<pc, run, next, attached, id, pending, settled, lost, cut>>

(* No package, or a rule is there already: the helper exits (AutoRemove).  *)
InstallFails(h) ==
    /\ helper[h] = "installing"
    /\ helper' = [helper EXCEPT ![h] = "gone"]
    /\ UNCHANGED <<pc, run, next, attached, id, rule, pending, settled, lost, cut>>

-----------------------------------------------------------------------------
\* "tc qdisc del" in helper h: it deletes the rule of the interface, whoever
\* added it.  While h is installing, tc may still be missing.
Delete(h) ==
    \/ rule' = [rule EXCEPT ![TargetOf[h[1]]] = NoRule]
    \/ helper[h] = "installing" /\ UNCHANGED rule

\* The helper the throttler at next knows of.
Known == <<next, id[next]>>

\* A mutant for the model checker: the helper is stopped, its rule is left.
ExecSkipped ==
    /\ pc = "cleanup" /\ next > 0
    /\ id[next] # 0 /\ Live(Known)
    /\ pc' = "stop"
    /\ UNCHANGED <<run, next, attached, id, helper, rule, pending, settled, lost, cut>>

(* Unthrottle, first half: the delete command is executed in the helper,   *)
(* and waited for when attached.  Its exit status is not looked at.        *)
ExecSucceeds ==
    /\ pc = "cleanup" /\ next > 0
    /\ id[next] # 0 /\ Live(Known)
    /\ IF attached THEN Delete(Known) /\ UNCHANGED pending
                   ELSE pending' = pending \cup {Known} /\ UNCHANGED rule
    /\ pc' = "stop"
    /\ UNCHANGED <<run, next, attached, id, helper, settled, lost, cut>>

(* It fails: no id, no such running helper, no tc in it yet, or no answer. *)
(* Unthrottle returns without stopping the helper.                         *)
ExecFails ==
    /\ pc = "cleanup" /\ next > 0
    /\ \/ /\ \/ id[next] = 0
             \/ id[next] # 0 /\ helper[Known] # "ready"
          /\ UNCHANGED lost
       \/ lost' = TRUE
    /\ next' = next - 1
    /\ UNCHANGED <<pc, run, attached, id, helper, rule, pending, settled, cut>>

(* A detached exec runs in its helper.                                     *)
ExecRuns(h) ==
    /\ h \in pending /\ Live(h)
    /\ Delete(h)
    /\ pending' = pending \ {h}
    /\ UNCHANGED <<pc, run, next, attached, id, helper, settled, lost, cut>>

(* Unthrottle, second half: the helper is stopped, with what still runs in *)
(* it, and removed.                                                        *)
StopSucceeds ==
    /\ pc = "stop"
    /\ helper' = [helper EXCEPT ![Known] = "gone"]
    /\ pending' = pending \ {Known}
    /\ cut' = (cut \/ Known \in pending)
    /\ pc' = "cleanup" /\ next' = next - 1
    /\ UNCHANGED <<run, attached, id, rule, settled, lost>>

StopFails ==
    /\ pc = "stop"
    /\ lost' = TRUE
    /\ pc' = "cleanup" /\ next' = next - 1
    /\ UNCHANGED <<run, attached, id, helper, rule, pending, settled, cut>>

(* All cleanups are done; the --count loop may run the test again, with    *)
(* the same throttlers.                                                    *)
NextRun ==
    /\ pc = "cleanup" /\ next = 0
    /\ IF run < RunCount THEN pc' = "setup" /\ run' = run + 1 /\ next' = 1
                         ELSE pc' = "end" /\ UNCHANGED <<run, next>>
    /\ UNCHANGED <<attached, id, helper, rule, pending, settled, lost, cut>>

End ==
    /\ pc = "end"
    /\ UNCHANGED vars

Next ==
    \/ BuildSucceeds \/ BuildFails \/ StartSucceeds \/ StartFails
    \/ SetupDone \/ TestReturns
    \/ \E h \in Helpers : Install(h) \/ InstallFails(h) \/ ExecRuns(h)
    \/ ExecSucceeds \/ ExecFails \/ StopSucceeds \/ StopFails
    \/ NextRun
    \/ End

Spec == Init /\ [][Next]_vars

-----------------------------------------------------------------------------
TypeOK ==
    /\ pc \in {"setup", "start", "test", "cleanup", "stop", "end"}
    /\ run \in 1..RunCount
    /\ next \in 0..(NThrottles + 1)
    /\ attached \in BOOLEAN
    /\ id \in [Throttles -> 0..RunCount]
    /\ helper \in [Helpers -> {"none", "created", "installing", "ready", "gone"}]
    /\ rule \in [Targets -> Helpers \cup {NoRule}]
    /\ pending \in SUBSET Helpers
    /\ settled \in BOOLEAN /\ lost \in BOOLEAN /\ cut \in BOOLEAN

BetweenRuns == pc = "end" \/ (pc = "setup" /\ next = 1)

(* After each run nothing slows a target and no helper runs, also when a   *)
(* helper could not be built, started or installed, when two commands slow *)
(* the same target, and when a Build of a later run fails and its cleanup  *)
(* works with an old id.  What has to be excused: a cleanup that began     *)
(* while a helper was installing, a call that was lost, and a detached     *)
(* delete that Stop overtook.                                              *)
Unthrottled ==
    (BetweenRuns /\ settled /\ ~lost /\ ~cut) =>
        /\ \A c \in Targets : rule[c] = NoRule
        /\ \A h \in Helpers : ~Live(h)

(* Which run a helper is of, and what its throttler knows of it: a helper  *)
(* of the run under way was created by the command that now has its id.    *)
HelpersByRun ==
    /\ \A t \in Throttles : id[t] <= run
    /\ \A h \in Helpers : helper[h] # "none" =>
         h[2] <= run /\ (h[2] = run => id[h[1]] = run)
    /\ pc \in {"setup", "start"} =>
         /\ next >= 1
         /\ \A t \in Throttles : (t > next \/ (t = next /\ pc = "setup")) =>
              helper[<<t, run>>] = "none"
    /\ pc = "start" => next \in Throttles /\ helper[<<next, run>>] = "created"
    /\ pc \in {"cleanup", "stop"} => next <= NThrottles
    /\ pc = "stop" =>
         next \in Throttles /\ id[next] # 0 /\ helper[Known] # "none"

Undisturbed == settled /\ ~lost /\ ~cut

(* The commands whose helper may be running: those executed so far, or not *)
(* cleaned up so far.                                                      *)
Reached(t) ==
    /\ pc \in {"setup", "start"} => t < next
    /\ pc \in {"cleanup", "stop"} => t <= next
    /\ pc # "end"

\* The delete command has run in h, which is about to be stopped.
Deleted(h) == pc = "stop" /\ h = Known /\ h \notin pending

(* As long as nothing disturbs a cleanup: helpers run only for commands of *)
(* this run still to be cleaned up, none installs during the cleanups, at  *)
(* most the delete of the helper being stopped is pending, and the rules   *)
(* are those of the helpers that are ready and not deleted.                *)
RulesAndHelpers ==
    /\ \A h \in Helpers : Live(h) => h[2] = run /\ Reached(h[1])
    /\ pc \in {"cleanup", "stop", "end"} => Installing = {}
    /\ pending \subseteq (IF pc = "stop" THEN {Known} ELSE {})
    /\ pc = "stop" => Live(Known)
    /\ \A c \in Targets : rule[c] # NoRule =>
         rule[c] \in Helpers /\ TargetOf[rule[c][1]] = c /\ helper[rule[c]] = "ready"
    /\ \A h \in Helpers : helper[h] = "ready" =>
         rule[TargetOf[h[1]]] = IF Deleted(h) THEN NoRule ELSE h

(* The inductive invariant of ThrottleProofs.                              *)
ThrottleInv == TypeOK /\ HelpersByRun /\ (Undisturbed => RulesAndHelpers)

(* A delete only ever takes away the rule of the helper it runs in, unless *)
(* a helper was still installing: cleanups in reverse order never disturb  *)
(* a throttle whose own cleanup is yet to come.                            *)
OwnRuleOnly ==
    [][\A c \in Targets :
         (settled /\ ~lost /\ ~cut /\ rule[c] # NoRule /\ rule'[c] = NoRule)
            => /\ rule[c] = Known \/ rule[c] \in pending
               /\ pc \in {"cleanup", "stop"}]_vars

-----------------------------------------------------------------------------
(* README.md:16 says that the cleanup restores the environment after the   *)
(* test finishes: if every call is answered and no delete is cut off, no   *)
(* target would stay slowed once no helper has anything left to do.        *)
UnthrottledAtEnd ==
    (pc = "end" /\ ~lost /\ ~cut /\ Installing = {} /\ pending = {}) =>
        \A c \in Targets : rule[c] = NoRule
=============================================================================
