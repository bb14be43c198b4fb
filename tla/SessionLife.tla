----------------------------- MODULE SessionLife -----------------------------
(***************************************************************************)
(* What the goal-session hub promises whoever starts a background session  *)
(* and awaits it (crates/session: await_terminal, SessionFinished): the    *)
(* session runs once, ends once, and is announced with the outcome it then *)
(* keeps.  A stop of the daemon may cut short what was not announced yet;  *)
(* it leaves nothing Pending or Running, and no announced outcome changes. *)
(* SessionHub implements this through its maps, tasks, pumps and logs.     *)
(***************************************************************************)
CONSTANT Sessions

VARIABLES
    status,     \* each session as the store shows it
    announced   \* the outcome last announced for it

vars == <<status, announced>>

Finals == {"Succeeded", "Failed", "Cancelled", "BudgetExhausted"}

Init ==
    /\ status = [s \in Sessions |-> "Absent"]
    /\ announced = [s \in Sessions |-> "Absent"]

Moves(s, from, to) ==
    /\ status[s] = from /\ status' = [status EXCEPT ![s] = to]
    /\ UNCHANGED announced

Start(s) == Moves(s, "Absent", "Pending")
Begin(s) == Moves(s, "Pending", "Running")
Finish(s) == \E out \in Finals : Moves(s, "Running", out)
GiveUp(s) == Moves(s, "Parked", "Cancelled")

Announce(s) ==
    /\ status[s] \in Finals
    /\ announced' = [announced EXCEPT ![s] = status[s]]
    /\ UNCHANGED status

\* What a stop and the start after it may make of a session.
AfterStop(s) ==
    IF status[s] = "Absent" \/ announced[s] # "Absent" THEN {status[s]}
    ELSE {"Parked", "Failed"} \cup ({status[s]} \cap Finals)

Interrupt ==
    /\ status' \in [Sessions -> {"Absent", "Parked"} \cup Finals]
    /\ \A s \in Sessions : status'[s] \in AfterStop(s)
    /\ UNCHANGED announced

Next ==
    \/ \E s \in Sessions : Start(s) \/ Begin(s) \/ Finish(s) \/ GiveUp(s) \/ Announce(s)
    \/ Interrupt

Spec == Init /\ [][Next]_vars
==============================================================================
