------------------------- MODULE ConfigTransaction --------------------------
(***************************************************************************)
(* What transactional reload promises of the configuration: a committed    *)
(* configuration and at most one on trial.  A trial ends by being          *)
(* confirmed or by being reverted; a further reload during the trial       *)
(* takes the unconfirmed configuration as the one to go back to.           *)
(***************************************************************************)
VARIABLES committed,  \* the configuration a revert would restore
          trial       \* Option of the configuration on trial

\* One configuration, any configuration, comes on trial.
OnTrial == \E c \in trial' : trial' = {c}

Init == trial = {}

Begin == /\ trial = {}
         /\ OnTrial
         /\ UNCHANGED committed

Confirm == trial = {committed'} /\ trial' = {}

Revert == trial # {} /\ trial' = {} /\ UNCHANGED committed

Supersede == trial = {committed'} /\ OnTrial

Next == Begin \/ Confirm \/ Revert \/ Supersede

Spec == Init /\ [][Next]_<<committed, trial>>

=============================================================================
