------------------------------ MODULE SessionLog ------------------------------
(***************************************************************************)
(* The record of one goal session as crates/session-store keeps it: a      *)
(* header in memory and an append-only log on disk.  A log is stood for by *)
(* the header its lines fold to, because replay_file reads nothing else    *)
(* out of it that a status depends on; the order in which lines reach the  *)
(* file is kept, as the order in which they are applied.                   *)
(***************************************************************************)
CONSTANT Grants   \* SUBSET BOOLEAN: whether grants hold Capability::AskHuman

ASSUME GrantsAssumption == Grants \subseteq BOOLEAN

Ended == {"Succeeded", "Failed", "Cancelled", "BudgetExhausted"}
Statuses == {"Pending", "Running", "Parked"} \cup Ended

Header == [status : Statuses \cup {"Absent"}, awaiting : BOOLEAN,
           ask : BOOLEAN, result : BOOLEAN]

NoHeader == [status |-> "Absent", awaiting |-> FALSE, ask |-> FALSE, result |-> FALSE]
NewHeader(ask) ==
    [status |-> "Pending", awaiting |-> FALSE, ask |-> ask, result |-> FALSE]

Known(h) == h.status # "Absent"
Over(h) == h.status \in Ended

(* The lines replay_file distinguishes; every other event leaves the header *)
(* alone.                                                                   *)
Line == [kind : {"status", "finish"}, to : Statuses]
        \cup [kind : {"asked", "answered"}, to : {"Absent"}]
StatusLine(st) == [kind |-> "status", to |-> st]
FinishLine(st) == [kind |-> "finish", to |-> st]
Asked == [kind |-> "asked", to |-> "Absent"]
Answered == [kind |-> "answered", to |-> "Absent"]

(* What a line does to a header: set_status, finish and push_event change   *)
(* the one in memory by the same rules replay_file applies to the log.      *)
Applied(h, line) ==
    CASE line.kind = "status"   -> [h EXCEPT !.status = line.to]
      [] line.kind = "finish"   -> [h EXCEPT !.status = line.to, !.result = TRUE,
                                             !.awaiting = FALSE]
      [] line.kind = "asked"    -> [h EXCEPT !.awaiting = TRUE]
      [] line.kind = "answered" -> [h EXCEPT !.awaiting = FALSE]

(* Mutant: a session that was recorded and never ran stays Pending.         *)
RestoredIfRun(h) ==
    IF h.status # "Running" THEN h
    ELSE IF h.awaiting THEN [h EXCEPT !.status = "Parked"]
    ELSE [h EXCEPT !.status = "Failed"]

(* What a start makes of a header: nothing runs it now, so an open question *)
(* makes it Parked and anything else unfinished Failed.                     *)
Restored(h) ==
    IF h.status \notin {"Pending", "Running"} THEN h
    ELSE IF h.awaiting THEN [h EXCEPT !.status = "Parked"]
    ELSE [h EXCEPT !.status = "Failed"]
===============================================================================
