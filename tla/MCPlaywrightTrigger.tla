------------------------ MODULE MCPlaywrightTrigger ------------------------
(* Three requests of the browser, two runs of the trigger.                 *)
EXTENDS PlaywrightTrigger

MCRequests == 1..3
=============================================================================
