------------------------------- MODULE Proposals -------------------------------
(***************************************************************************)
(* One proposal, from the note a human has to decide about to the archive. *)
(* The note lies in the vault, where four parties write it, all of them    *)
(* blindly (Vault::write without an expected hash): the taps of the human  *)
(* (PermissionResolver under its lock, ApprovalBot::set_status without     *)
(* one), the daemon's reaction to a change (execute, mark done, archive),  *)
(* the reaper of expired notes, and a revision by the model.  What a tap   *)
(* decided is recorded in a ledger before it is written to the note.  The  *)
(* note may be edited by hand, a write may fail, and the process may stop, *)
(* at any step.                                                            *)
(***************************************************************************)
EXTENDS Naturals, FiniteSets

CONSTANTS
    Taps,           \* the taps of the human, on any surface
    Kinds,          \* the kinds of proposal looked at
    MaxRevisions,   \* bound on revisions
    MaxFaults       \* bound on what goes wrong and what is done by hand

AllKinds == {"ordinary", "permission", "schedule"}

ASSUME ProposalsAssumption ==
    /\ IsFiniteSet(Taps) /\ Kinds \subseteq AllKinds
    /\ MaxRevisions \in Nat /\ MaxFaults \in Nat

VARIABLES
    kind,       \* what the proposal is
    phase,      \* 0 before its deadline, 1 past it, 2 past the reaper's grace
    note,       \* the note in proposals/
    archive,    \* the directories of proposals/archive/ that hold a copy
    ledger,     \* the last decision recorded
    dirty,      \* the path waits for its quiet period
    queued,     \* events about it in the daemon's channel
    tap,        \* the taps
    reactor,    \* the daemon's loop
    reaper,     \* the reaper's sweep
    reviser,    \* the version a revision was read from, 0 when there is none
    done,       \* history: approvals recorded, and what was done about them
    faults      \* history: what went wrong, and what was done by hand

vault == <<note, archive, dirty>>
actors == <<tap, reactor, reaper, reviser>>
fixed == <<kind, done, faults>>
vars == <<kind, phase, vault, ledger, queued, actors, done, faults>>

Open == {"pending", "approved"}
Terminal == {"rejected", "expired", "done"}
Choices == [ordinary |-> {"deny", "once"}, permission |-> {"deny", "once", "always"},
            schedule |-> {"deny", "once"}]

Absent == [status |-> "absent", choice |-> "none", version |-> 0, by |-> "agent"]
Idle == [pc |-> "idle", copy |-> Absent]

(* Of a note that is closed only the status is read again, but for wording. *)
Closed(status) == [Absent EXCEPT !.status = status]

Untapped == [pc |-> "idle", choice |-> "none", copy |-> Absent]

Init ==
    /\ kind \in Kinds /\ phase = 0
    /\ note = [status |-> "pending", choice |-> "none", version |-> 1, by |-> "agent"]
    /\ archive = {} /\ ledger = "none" /\ dirty = TRUE /\ queued = 0
    /\ tap = [t \in Taps |-> Untapped]
    /\ reactor = Idle /\ reaper = "idle" /\ reviser = 0
    /\ done = [approved |-> {}, approvals |-> 0, applied |-> 0,
               ran |-> {}, runs |-> 0, granted |-> FALSE]
    /\ faults = [fails |-> 0, stops |-> 0, cuts |-> 0, edits |-> 0, touches |-> 0]

Expired == phase > 0

(* Something fails, or is done to the note by hand; "cuts" counts what took *)
(* effect and was not marked when that happened.                            *)
Fault(what, cut) ==
    /\ faults.fails + faults.stops + faults.edits + faults.touches < MaxFaults
    /\ faults' = [w \in DOMAIN faults |->
                     IF w = what \/ (w = "cuts" /\ cut) THEN faults[w] + 1 ELSE faults[w]]

(* A blind write: whatever the path holds, or does not hold, is replaced.   *)
Write(content, by) ==
    /\ note' = [content EXCEPT !.by = by]
    /\ dirty' = TRUE /\ UNCHANGED archive

-----------------------------------------------------------------------------
(* The human's taps.                                                        *)

Locked == kind # "ordinary"
InLock(t) == tap[t].pc # "idle" /\ tap[t].pc # "told"

(* Mutant: the resolver takes no lock.                                      *)
NoLock == TRUE

LockFree == Locked => \A t \in Taps : ~InLock(t)

(* Read the note, and decide if it is open; one that is not, or that is in  *)
(* the archive, is reported as decided and left alone.                      *)
TapReads(t, choice) ==
    /\ tap[t].pc = "idle" /\ LockFree
    /\ note.status = "pending" /\ ~Expired
    /\ choice \in Choices[kind]
    /\ tap' = [tap EXCEPT ![t] = [pc |-> "decided", choice |-> choice, copy |-> note]]
    /\ UNCHANGED <<fixed, phase, vault, ledger, queued, reactor, reaper, reviser>>

(* A schedule card is applied before anything is stored.                    *)
TapApplies(t) ==
    /\ kind = "schedule" /\ tap[t].pc = "decided" /\ tap[t].choice # "deny"
    /\ done' = [done EXCEPT !.applied = @ + 1]
    /\ tap' = [tap EXCEPT ![t].pc = "applied"]
    /\ UNCHANGED <<kind, phase, vault, ledger, queued, reactor, reaper, reviser, faults>>

Recordable(t) ==
    \/ tap[t].pc = "applied"
    \/ tap[t].pc = "decided" /\ (kind = "schedule" => tap[t].choice = "deny")

TapRecords(t) ==
    /\ Recordable(t)
    /\ ledger' = IF tap[t].choice = "deny" THEN "rejected" ELSE "approved"
    /\ done' = IF tap[t].choice = "deny" THEN done
               ELSE [done EXCEPT !.approvals = @ + 1,
                                 !.approved = @ \cup {tap[t].copy.version}]
    /\ tap' = [tap EXCEPT ![t].pc = "recorded"]
    /\ UNCHANGED <<kind, phase, vault, queued, reactor, reaper, reviser, faults>>

(* Mutant: the decision is set on whatever the note has become.             *)
DecidedInPlace(copy, choice) ==
    [note EXCEPT !.status = IF choice = "deny" THEN "rejected" ELSE "approved"]

Decided(copy, choice) ==
    CASE choice = "deny" -> Closed("rejected")
      [] choice # "deny" /\ kind = "schedule" -> Closed("done")
      [] OTHER -> [copy EXCEPT !.status = "approved", !.choice = choice]

(* What the tap read becomes the note, and the human is told.               *)
TapWrites(t) ==
    /\ tap[t].pc = "recorded"
    /\ Write(Decided(tap[t].copy, tap[t].choice), "human")
    /\ tap' = [tap EXCEPT ![t].pc = "told", ![t].copy = Absent]
    /\ UNCHANGED <<fixed, phase, ledger, queued, reactor, reaper, reviser>>

(* An effect is cut off when it is not marked in the note before a failure. *)
Cut(t) == tap[t].pc \in {"applied", "recorded"} /\ kind = "schedule" /\ tap[t].choice # "deny"

(* The ledger or the vault refuses: the human is asked to tap again.        *)
TapFails(t) ==
    /\ Recordable(t) \/ tap[t].pc = "recorded"
    /\ Fault("fails", Cut(t))
    /\ tap' = [tap EXCEPT ![t] = Untapped]
    /\ UNCHANGED <<kind, done, phase, vault, ledger, queued, reactor, reaper, reviser>>

(* A revision is asked of the model; the answer becomes a new pending note  *)
(* whatever happened to the proposal meanwhile.                             *)
ReviseReads ==
    /\ kind = "ordinary" /\ reviser = 0
    /\ note.status = "pending" /\ note.version <= MaxRevisions
    /\ reviser' = note.version
    /\ UNCHANGED <<fixed, phase, vault, ledger, queued, tap, reactor, reaper>>

ReviseWrites ==
    /\ reviser # 0 /\ reviser' = 0
    /\ Write([Closed("pending") EXCEPT !.version = reviser + 1], "human")
    /\ UNCHANGED <<fixed, phase, ledger, queued, tap, reactor, reaper>>

ReviseFails ==
    /\ reviser # 0 /\ reviser' = 0
    /\ UNCHANGED <<fixed, phase, vault, ledger, queued, tap, reactor, reaper>>

(* The status is edited in the note itself: the editor saves what it shows. *)
Edit(status) ==
    /\ note.status = "pending" /\ Fault("edits", FALSE)
    /\ Write(IF status = "rejected" THEN Closed(status)
                                   ELSE [note EXCEPT !.status = status], "human")
    /\ UNCHANGED <<kind, done, phase, ledger, queued, actors>>

(* The note is saved as it is.                                              *)
Touch ==
    /\ note # Absent /\ Fault("touches", FALSE)
    /\ dirty' = TRUE
    /\ UNCHANGED <<kind, done, phase, note, archive, ledger, queued, actors>>

-----------------------------------------------------------------------------
(* The watcher: once the path is quiet, the content it holds then is        *)
(* attributed, and an event is queued unless the daemon wrote it.           *)

(* Mutant: a human's write is taken for the daemon's own.                   *)
NeverForeign == FALSE

Foreign == note # Absent /\ note.by = "human"

Settle ==
    /\ dirty /\ dirty' = FALSE
    /\ queued' = IF Foreign THEN queued + 1 ELSE queued
    /\ UNCHANGED <<fixed, phase, note, archive, ledger, actors>>

(* Mutant: an expired note is filed without a mark.                         *)
FiledWhenExpired(copy) ==
    CASE copy.status \in Terminal \/ Expired -> "filing"
      [] copy.status = "approved" /\ ~Expired -> "checking"
      [] OTHER -> "idle"

(* Where the reaction to a copy goes after the guards on its status and its *)
(* deadline.                                                                *)
Guarded(copy) ==
    CASE copy.status \in Terminal -> "filing"
      [] copy.status \in Open /\ Expired -> "expiring"
      [] copy.status = "approved" /\ ~Expired -> "checking"
      [] OTHER -> "idle"

Reactor(pc) == reactor' = IF pc = "idle" THEN Idle ELSE [reactor EXCEPT !.pc = pc]
SameButReactor == UNCHANGED <<kind, phase, ledger, queued, tap, reaper, reviser>>

React ==
    /\ reactor.pc = "idle" /\ queued > 0 /\ queued' = queued - 1
    /\ reactor' = CASE Guarded(note) = "idle" -> Idle
                    [] Guarded(note) = "checking" -> [pc |-> "checking", copy |-> note]
                    [] OTHER -> [pc |-> Guarded(note), copy |-> Closed(note.status)]
    /\ UNCHANGED <<fixed, phase, vault, ledger, tap, reaper, reviser>>

(* Mutant: the note's own word is enough.                                   *)
AnyApproval == TRUE

LedgerApproves == ledger = "approved"

ReactorChecks ==
    /\ reactor.pc = "checking"
    /\ Reactor(IF LedgerApproves THEN "ready" ELSE "idle")
    /\ SameButReactor /\ UNCHANGED <<vault, done, faults>>

ReactorRechecks ==
    /\ reactor.pc = "ready"
    /\ Reactor(IF Expired THEN "expiring" ELSE "running")
    /\ SameButReactor /\ UNCHANGED <<vault, done, faults>>

(* Mutant: a grant for one call is kept as well.                            *)
AnyGrant(choice) == choice # "deny"

Standing(choice) == choice = "always"

(* execute_approved looks at the deadline once more, and may fail before it *)
(* has run anything.                                                        *)
Runs ==
    /\ reactor.pc = "running" /\ ~Expired
    /\ done' = [done EXCEPT !.runs = @ + 1, !.ran = @ \cup {reactor.copy.version},
                            !.granted = @ \/ Standing(reactor.copy.choice)]
    /\ Reactor("ran")
    /\ SameButReactor /\ UNCHANGED <<vault, faults>>

RunFails ==
    /\ reactor.pc = "running" /\ ~Expired /\ Fault("fails", FALSE)
    /\ Reactor("idle")
    /\ SameButReactor /\ UNCHANGED <<vault, done>>

(* A refused run leaves the note expired, or as it is when that fails.      *)
RunRefused ==
    /\ reactor.pc = "running" /\ Expired
    /\ reactor' = [pc |-> "filing", copy |-> Closed("expired")]
    /\ \/ Write(Closed("expired"), "agent") /\ UNCHANGED faults
       \/ Fault("fails", FALSE) /\ UNCHANGED vault
    /\ SameButReactor /\ UNCHANGED done

Mark(status) ==
    /\ Write(Closed(status), "agent")
    /\ reactor' = [pc |-> "filing", copy |-> Closed(status)]

ReactorMarksDone ==
    /\ reactor.pc = "ran" /\ Mark("done")
    /\ SameButReactor /\ UNCHANGED <<done, faults>>

ReactorExpires ==
    /\ reactor.pc = "expiring" /\ Mark("expired")
    /\ SameButReactor /\ UNCHANGED <<done, faults>>

ReactorFails ==
    /\ reactor.pc \in {"ran", "expiring", "filing"}
    /\ Fault("fails", reactor.pc = "ran")
    /\ Reactor("idle")
    /\ SameButReactor /\ UNCHANGED <<vault, done>>

Directory(status) ==
    CASE status = "done" -> "approved" [] status = "rejected" -> "rejected" [] OTHER -> "expired"

(* What the path holds moves to the directory of the copy's status, unless  *)
(* that directory has a note of this name.                                  *)
File(status) ==
    IF note # Absent /\ Directory(status) \notin archive
    THEN /\ note' = Absent /\ archive' = archive \cup {Directory(status)}
         /\ UNCHANGED dirty
    ELSE UNCHANGED vault

ReactorFiles ==
    /\ reactor.pc = "filing" /\ File(reactor.copy.status) /\ Reactor("idle")
    /\ SameButReactor /\ UNCHANGED <<done, faults>>

-----------------------------------------------------------------------------
(* The reaper's sweep.                                                      *)

(* Mutant: an approved note is never the reaper's.                          *)
OwnsPending == note.status = "pending" /\ Expired

Owns == (note.status = "pending" /\ Expired) \/ (note.status = "approved" /\ phase = 2)

SameButReaper == UNCHANGED <<kind, phase, ledger, queued, tap, reactor, reviser, done>>

ReaperReads ==
    /\ reaper = "idle" /\ Owns /\ reaper' = "expiring"
    /\ SameButReaper /\ UNCHANGED <<vault, faults>>

ReaperExpires ==
    /\ reaper = "expiring" /\ reaper' = "filing"
    /\ Write(Closed("expired"), "agent")
    /\ SameButReaper /\ UNCHANGED faults

ReaperFiles ==
    /\ reaper = "filing" /\ reaper' = "idle"
    /\ File("expired")
    /\ SameButReaper /\ UNCHANGED faults

ReaperFails ==
    /\ reaper # "idle" /\ reaper' = "idle" /\ Fault("fails", FALSE)
    /\ SameButReaper /\ UNCHANGED vault

-----------------------------------------------------------------------------
(* The deadline passes, and later the grace; an execution is far shorter.   *)
Tick ==
    /\ phase < 2
    /\ phase = 1 => reactor.pc = "idle"
    /\ phase' = phase + 1
    /\ UNCHANGED <<fixed, vault, ledger, queued, actors>>

(* What is in flight is lost, and the debounced path and the queue with it. *)
Stop ==
    /\ Fault("stops", reactor.pc = "ran" \/ \E t \in Taps : InLock(t) /\ Cut(t))
    /\ tap' = [t \in Taps |-> IF InLock(t) THEN Untapped ELSE tap[t]]
    /\ reactor' = Idle /\ reaper' = "idle" /\ reviser' = 0
    /\ dirty' = FALSE /\ queued' = 0
    /\ UNCHANGED <<kind, phase, note, archive, ledger, done>>

TapStep == \E t \in Taps : TapApplies(t) \/ TapRecords(t) \/ TapWrites(t)
ReactorStep ==
    React \/ ReactorChecks \/ ReactorRechecks \/ Runs \/ RunRefused
          \/ ReactorMarksDone \/ ReactorExpires \/ ReactorFiles
ReaperStep == ReaperReads \/ ReaperExpires \/ ReaperFiles

Next ==
    \/ \E t \in Taps : (\E c \in Choices[kind] : TapReads(t, c)) \/ TapFails(t)
    \/ TapStep
    \/ ReviseReads \/ ReviseWrites \/ ReviseFails
    \/ \E status \in {"approved", "rejected"} : Edit(status)
    \/ Touch \/ Settle
    \/ ReactorStep \/ RunFails \/ ReactorFails
    \/ ReaperStep \/ ReaperFails
    \/ Tick \/ Stop

(* The runtime schedules every task that can go on; the human owes nothing. *)
Fairness ==
    /\ \A t \in Taps : WF_vars(TapApplies(t) \/ TapRecords(t) \/ TapWrites(t))
    /\ WF_vars(Settle) /\ WF_vars(ReactorStep) /\ WF_vars(ReaperStep)

Spec == Init /\ [][Next]_vars
FairSpec == Spec /\ Fairness

-----------------------------------------------------------------------------
Statuses == {"absent"} \cup Open \cup Terminal
AnyChoice == {"none", "deny", "once", "always"}
Versions == 1 .. (MaxRevisions + 1)
Note == [status : Statuses, choice : AnyChoice, version : Versions \cup {0},
         by : {"agent", "human"}]
TapPcs == {"idle", "decided", "applied", "recorded", "told"}
ReactorPcs == {"idle", "checking", "ready", "running", "ran", "expiring", "filing"}

(* Every variable keeps its type; the reaper and the reactor file what they *)
(* hold as terminal only.                                                   *)
TypeOK ==
    /\ kind \in Kinds /\ phase \in 0 .. 2
    /\ note \in Note /\ archive \in SUBSET {"approved", "rejected", "expired"}
    /\ ledger \in {"none", "approved", "rejected"}
    /\ dirty \in BOOLEAN /\ queued \in Nat
    /\ tap \in [Taps -> [pc : TapPcs, choice : AnyChoice, copy : Note]]
    /\ reactor \in [pc : ReactorPcs, copy : Note]
    /\ reaper \in {"idle", "expiring", "filing"}
    /\ reviser \in 0 .. MaxRevisions
    /\ done \in [approved : SUBSET Versions, approvals : Nat, applied : Nat,
                ran : SUBSET Versions, runs : Nat, granted : BOOLEAN]
    /\ faults \in [{"fails", "stops", "cuts", "edits", "touches"} -> 0 .. MaxFaults]
    /\ reactor.pc = "filing" => reactor.copy.status \in Terminal

Told(choices) == {t \in Taps : tap[t].pc = "told" /\ tap[t].choice \in choices}

(* The ledger gate (proposals.rs, refuse_without_ledger_approval): nothing  *)
(* runs that no tap approved, and no approval runs twice, however the note  *)
(* says approved: through an edit by hand, a revision or a stale copy.      *)
RunsPerApproval ==
    /\ done.runs > 0 => done.approvals > 0
    /\ done.runs <= done.approvals + faults.cuts + faults.edits

(* What runs is what the human was shown: the version that runs is one that *)
(* a tap approved, however a revision and a tap on the old version cross.   *)
RunsWhatWasShown == faults.edits = 0 => done.ran \subseteq done.approved

(* The resolver's first decision wins (resolve.rs): of the taps on one      *)
(* permission request or schedule card, one at most is told it decided.     *)
OneDecision == Locked => Cardinality(Told(AnyChoice)) <= 1

(* A human who was told that a request is denied never sees it executed,    *)
(* unless an edit approved it, or an earlier tap was cut off after it had   *)
(* applied its card.                                                        *)
DeniedStands ==
    (Locked /\ faults.edits = 0 /\ Told({"deny"}) # {}) =>
        /\ done.runs = 0
        /\ done.applied <= faults.cuts

(* A standing grant follows a call that ran, and the decision of a tap that *)
(* asked for one and was told so.                                           *)
GrantFollowsDecision == done.granted => done.runs > 0 /\ Told({"always"}) # {}

(* A tap that was told it approved a permission request sees it run, unless *)
(* the deadline passes first or something fails.                            *)
ApprovedRuns ==
    (kind = "permission" /\ Told({"once", "always"}) # {}) ~>
        (done.runs > 0 \/ Expired \/ faults.fails + faults.stops + faults.edits > 0)

(* A note past its deadline and the grace does not stay open, whatever was  *)
(* lost and whoever wrote it again (proposals.rs, reaper_owns).             *)
ExpiredCloses == phase = 2 ~> [](note.status \notin Open)

-----------------------------------------------------------------------------
(* approval bot (lib.rs, set_status): a status is set only on a note that   *)
(* is pending, and any other state is left untouched.  So a proposal whose  *)
(* rejection was confirmed to the human does not run.                       *)
RejectionStands == Told({"deny"}) # {} => done.runs = 0
===============================================================================
