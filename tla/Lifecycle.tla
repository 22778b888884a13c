----------------------------- MODULE Lifecycle -----------------------------
(***************************************************************************)
(* What mtracer promises about the environment it prepares for a test,     *)
(* seen from outside (README, "How It Works", steps 1 and 6): a test opens *)
(* the environment and changes it, one change after the other; once it has *)
(* a verdict the environment is closed to changes and they are undone in   *)
(* the opposite order; the environment is opened again, or left for good,  *)
(* only when every change was undone.  A signal may kill mtracer any time. *)
(*                                                                         *)
(* TestRun implements this specification.                                  *)
(***************************************************************************)
EXTENDS Naturals, Sequences

CONSTANT Change    \* the changes a test may make to its environment

VARIABLES
    held,    \* the changes not undone yet, the latest last
    phase    \* "open", "closed", "ended" or "killed"

lvars == <<held, phase>>

LInit == held = <<>> /\ phase = "closed"

Open ==
    /\ phase \in {"open", "closed"} /\ held = <<>>
    /\ phase' = "open"
    /\ UNCHANGED held

(* Make a change.  One that failed half-way closes the environment at      *)
(* once, but is held like any other.                                       *)
Hold(c) ==
    /\ phase = "open"
    /\ held' = Append(held, c)
    /\ phase' \in {"open", "closed"}

Close ==
    /\ phase = "open"
    /\ phase' = "closed"
    /\ UNCHANGED held

Undo ==
    /\ phase = "closed" /\ held # <<>>
    /\ held' = SubSeq(held, 1, Len(held) - 1)
    /\ UNCHANGED phase

End ==
    /\ phase = "closed" /\ held = <<>>
    /\ phase' = "ended"
    /\ UNCHANGED held

Kill ==
    /\ phase \in {"open", "closed"}
    /\ phase' = "killed"
    /\ UNCHANGED held

LNext ==
    \/ Open
    \/ \E c \in Change : Hold(c)
    \/ Close
    \/ Undo
    \/ End
    \/ Kill

LSpec == LInit /\ [][LNext]_lvars
=============================================================================
