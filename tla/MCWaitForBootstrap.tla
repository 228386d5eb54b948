------------------------- MODULE MCWaitForBootstrap -------------------------
(* Model values for the runs of WaitForBootstrap: the clock readings.       *)
EXTENDS WaitForBootstrap

CONSTANT Horizon   \* the last reading of the clock

ClockRange == 0..Horizon
=============================================================================
