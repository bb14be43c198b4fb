-------------------------- MODULE MCReminderSchedule --------------------------
(* A schedule that fires at every instant, as vault-reminder-tick does, and  *)
(* a sparser one with a reminder or without.                                 *)
EXTENDS ReminderSchedule, TLC

CONSTANTS Minute, Hourly

MCFires == (Minute :> (1 .. (MaxTime + 1))) @@ (Hourly :> {4, MaxTime + 1})
===============================================================================
