---------------------------- MODULE ProposalsProofs ----------------------------
(* Theorems about Proposals for every set of taps and every bound on        *)
(* revisions and on faults.                                                 *)
EXTENDS Proposals, FiniteSetTheorems, TLAPS

-----------------------------------------------------------------------------
(* The inductive invariant.                                                 *)

(* Every cut comes with a fault, and the faults are bounded.                *)
Counted ==
    /\ faults.cuts <= faults.fails + faults.stops + faults.edits + faults.touches
    /\ faults.fails + faults.stops + faults.edits + faults.touches <= MaxFaults

Executing == {"checking", "ready", "running"}

(* What may still be approved or run has a version a human can have read.   *)
Versioned ==
    /\ note.status \in Open => note.version \in Versions
    /\ \A t \in Taps : InLock(t) => tap[t].copy.version \in Versions
    /\ reactor.pc \in Executing => reactor.copy.version \in Versions

(* Approvals that were recorded and are not in the note yet.                *)
Approving(t) == tap[t].pc = "recorded" /\ tap[t].choice # "deny"
Recorded == {t \in Taps : Approving(t)}
Owed == Cardinality(Recorded)

(* What approvals, cuts and edits allow to run.                             *)
Allowed == done.approvals + faults.cuts + faults.edits

(* Each run used up an approval: the note that says approved is worth one,  *)
(* and so is the execution that took it from there.                         *)
Credit ==
    /\ reactor.pc \in Executing => done.runs + 1 + Owed <= Allowed
    /\ reactor.pc = "ran" => done.runs + Owed <= Allowed
    /\ reactor.pc \notin Executing \cup {"ran"} =>
          /\ done.runs + Owed <= Allowed
          /\ note.status = "approved" => done.runs + 1 + Owed <= Allowed

(* What passed the ledger gate was approved by a tap.                       *)
Approvals ==
    ledger = "approved" \/ reactor.pc \in {"ready", "running", "ran"} \/ done.runs > 0 =>
        done.approvals > 0

(* Under the resolver's lock one tap decides, and after it none.            *)
FirstWins ==
    Locked =>
        /\ reviser = 0
        /\ \A t, u \in Taps : InLock(t) /\ InLock(u) => t = u
        /\ \A t, u \in Taps : tap[t].pc = "told" /\ tap[u].pc = "told" => t = u
        /\ \A t \in Taps : tap[t].pc = "told" =>
              note.status # "pending" /\ \A u \in Taps : ~InLock(u)

ToldYes == \E t \in Taps : tap[t].pc = "told" /\ tap[t].choice # "deny"

(* What runs, and a card that was applied and not cut off, was told so.     *)
Denied ==
    Locked /\ faults.edits = 0 =>
        /\ \/ note.status = "approved"
           \/ reactor.pc \in Executing \cup {"ran"}
           \/ done.runs > 0
           => ToldYes
        /\ done.applied <= faults.cuts + 1
        /\ done.applied > faults.cuts => ToldYes \/ \E t \in Taps : Cut(t)

(* What may still run is a version some tap approved.                       *)
Shown ==
    faults.edits = 0 =>
        /\ note.status = "approved" => note.version \in done.approved
        /\ \A t \in Taps : Approving(t) => tap[t].copy.version \in done.approved
        /\ reactor.pc \in Executing => reactor.copy.version \in done.approved
        /\ done.ran \subseteq done.approved

ToldAlways == \E t \in Taps : tap[t].pc = "told" /\ tap[t].choice = "always"

(* A standing grant comes from a tap that was told so.                      *)
Granted ==
    /\ \/ note.choice = "always"
       \/ reactor.copy.choice = "always"
       \/ \E t \in Taps : tap[t].copy.choice = "always"
       \/ done.granted = TRUE
       => ToldAlways
    /\ done.granted = TRUE => done.runs > 0

IInv ==
    /\ TypeOK
    /\ Counted
    /\ Versioned
    /\ Credit
    /\ Approvals
    /\ FirstWins
    /\ Denied
    /\ Shown
    /\ Granted

-----------------------------------------------------------------------------
(* Notes, and the parties' copies of them.                                  *)

(* A closed note, and no note at all, allow nothing.                        *)
LEMMA Closings ==
  /\ Absent \in Note /\ Absent.status = "absent" /\ Absent.choice = "none" /\ Absent.version = 0
  /\ \A s \in Statuses : /\ Closed(s) \in Note /\ Closed(s).status = s
                         /\ Closed(s).choice = "none" /\ Closed(s).version = 0
  /\ Idle = [pc |-> "idle", copy |-> Absent]
  /\ Untapped = [pc |-> "idle", choice |-> "none", copy |-> Absent]
BY DEF Closed, Absent, Idle, Untapped, Note, Statuses, AnyChoice

(* A blind write leaves what was written, and says by whom.                 *)
LEMMA Written ==
  ASSUME NEW content \in Note, NEW by \in {"agent", "human"}, Write(content, by)
  PROVE  /\ note' \in Note /\ note'.status = content.status /\ note'.choice = content.choice
         /\ note'.version = content.version /\ dirty' = TRUE /\ archive' = archive
BY DEF Write, Note

(* What is filed is gone from proposals/, and nothing else is changed.      *)
LEMMA Filed ==
  ASSUME TypeOK, NEW s \in Statuses, File(s)
  PROVE  /\ note' = note \/ note' = Absent
         /\ archive' \in SUBSET {"approved", "rejected", "expired"} /\ dirty' = dirty
<1>1. CASE note # Absent /\ Directory(s) \notin archive
  BY <1>1 DEF File, Directory, TypeOK
<1>2. CASE ~(note # Absent /\ Directory(s) \notin archive)
  BY <1>2 DEF File, vault, TypeOK
<1> QED
  BY <1>1, <1>2

(* The loop keeps its copy until it is idle again.                          *)
LEMMA Reacting ==
  ASSUME TypeOK, NEW pc \in ReactorPcs, Reactor(pc)
  PROVE  /\ reactor' \in [pc : ReactorPcs, copy : Note] /\ reactor'.pc = pc
         /\ reactor'.copy = IF pc = "idle" THEN Absent ELSE reactor.copy
<1>1. CASE pc = "idle"
  BY <1>1, Closings DEF Reactor, ReactorPcs
<1>2. CASE pc # "idle"
  <2>1. reactor' = [reactor EXCEPT !.pc = pc]
    BY <1>2 DEF Reactor
  <2> QED
    BY <2>1, <1>2 DEF TypeOK
<1> QED
  BY <1>1, <1>2

(* What nobody touches keeps what is said of it.                            *)
LEMMA Stays ==
  ASSUME IInv
  PROVE  /\ UNCHANGED faults => Counted'
         /\ UNCHANGED <<note, tap, reactor>> => Versioned'
         /\ UNCHANGED <<note, tap, reactor, done, faults>> => Credit'
         /\ UNCHANGED <<ledger, reactor, done>> => Approvals'
         /\ UNCHANGED <<kind, note, tap, reviser>> => FirstWins'
         /\ UNCHANGED <<kind, note, tap, reactor, done, faults>> => Denied'
         /\ UNCHANGED <<note, tap, reactor, done, faults>> => Shown'
         /\ UNCHANGED <<note, tap, reactor, done>> => Granted'
<1>1. UNCHANGED faults => Counted'
  BY DEF IInv, Counted
<1>2. UNCHANGED <<note, tap, reactor>> => Versioned'
  BY DEF IInv, Versioned, InLock
<1>3. UNCHANGED <<note, tap, reactor, done, faults>> => Credit'
  BY DEF IInv, Credit, Owed, Recorded, Approving, Allowed
<1>4. UNCHANGED <<ledger, reactor, done>> => Approvals'
  BY DEF IInv, Approvals
<1>5. UNCHANGED <<kind, note, tap, reviser>> => FirstWins'
  BY DEF IInv, FirstWins, Locked, InLock
<1>6. UNCHANGED <<kind, note, tap, reactor, done, faults>> => Denied'
  BY DEF IInv, Denied, Locked, ToldYes, Cut
<1>7. UNCHANGED <<note, tap, reactor, done, faults>> => Shown'
  BY DEF IInv, Shown, Approving
<1>8. UNCHANGED <<note, tap, reactor, done>> => Granted'
  BY DEF IInv, Granted, ToldAlways
<1> QED
  BY <1>1, <1>2, <1>3, <1>4, <1>5, <1>6, <1>7, <1>8

-----------------------------------------------------------------------------
(* Faults, and approvals owed.                                              *)

(* A fault counts once, and as a cut when something was cut off.            *)
LEMMA Faulted ==
  ASSUME TypeOK, Counted, NEW what \in {"fails", "stops", "edits", "touches"},
         NEW cut \in BOOLEAN, Fault(what, cut)
  PROVE  /\ faults' \in [{"fails", "stops", "cuts", "edits", "touches"} -> 0 .. MaxFaults]
         /\ Counted'
         /\ faults'.edits = faults.edits + IF what = "edits" THEN 1 ELSE 0
         /\ faults'.cuts = faults.cuts + IF cut THEN 1 ELSE 0
<1> USE ProposalsAssumption
<1>1. /\ faults.fails \in Nat /\ faults.stops \in Nat /\ faults.cuts \in Nat
      /\ faults.edits \in Nat /\ faults.touches \in Nat
  BY DEF TypeOK
<1>2. /\ DOMAIN faults = {"fails", "stops", "cuts", "edits", "touches"}
      /\ faults' = [w \in DOMAIN faults |->
                       IF w = what \/ (w = "cuts" /\ cut) THEN faults[w] + 1 ELSE faults[w]]
  BY DEF TypeOK, Fault
<1>3. /\ faults'.cuts = faults.cuts + IF cut THEN 1 ELSE 0
      /\ faults'.edits = faults.edits + IF what = "edits" THEN 1 ELSE 0
      /\ faults'.fails = faults.fails + IF what = "fails" THEN 1 ELSE 0
      /\ faults'.stops = faults.stops + IF what = "stops" THEN 1 ELSE 0
      /\ faults'.touches = faults.touches + IF what = "touches" THEN 1 ELSE 0
  BY <1>1, <1>2
<1>7. faults' = [x \in {"fails", "stops", "cuts", "edits", "touches"} |-> faults'[x]]
  BY <1>2
<1>4. faults.fails + faults.stops + faults.edits + faults.touches < MaxFaults
  BY DEF Fault
<1>5. Counted'
  BY <1>1, <1>3, <1>4 DEF Counted
<1>6. \A x \in {"fails", "stops", "cuts", "edits", "touches"} : faults'[x] \in 0 .. MaxFaults
  BY <1>1, <1>3, <1>4, <1>5 DEF Counted
<1> QED
  BY <1>3, <1>5, <1>6, <1>7

(* The approvals owed are finitely many.                                    *)
LEMMA OwedNat == IsFiniteSet(Recorded) /\ Owed \in Nat
<1>1. IsFiniteSet(Recorded)
  BY ProposalsAssumption, FS_Subset DEF Recorded
<1> QED
  BY <1>1, FS_CardinalityType DEF Owed

(* One tap changes them by its own approval.                                *)
LEMMA OwedMoves ==
  ASSUME NEW t \in Taps, \A u \in Taps \ {t} : tap'[u] = tap[u]
  PROVE  Owed' = Owed + (IF Approving(t)' THEN 1 ELSE 0) - (IF Approving(t) THEN 1 ELSE 0)
<1> USE OwedNat
<1>1. \A u \in Taps \ {t} : Approving(u)' <=> Approving(u)
  BY DEF Approving
<1>2. CASE Approving(t)' /\ ~Approving(t)
  <2>1. Recorded' = Recorded \cup {t} /\ t \notin Recorded
    BY <1>1, <1>2 DEF Recorded
  <2> QED
    BY <2>1, <1>2, FS_AddElement, SMTT(60) DEF Owed
<1>3. CASE ~Approving(t)' /\ Approving(t)
  <2>1. Recorded' = Recorded \ {t} /\ t \in Recorded
    BY <1>1, <1>3 DEF Recorded
  <2> QED
    BY <2>1, <1>3, FS_RemoveElement, SMTT(60) DEF Owed
<1>4. CASE Approving(t)' <=> Approving(t)
  <2>1. Recorded' = Recorded
    BY <1>1, <1>4 DEF Recorded
  <2> QED
    BY <2>1, <1>4 DEF Owed
<1> QED
  BY <1>2, <1>3, <1>4

(* As long as the taps are as they were, so is what they are owed.          *)
LEMMA OwedStays == ASSUME tap' = tap PROVE Owed' = Owed
BY DEF Owed, Recorded, Approving

-----------------------------------------------------------------------------
(* What each action keeps.                                                   *)

(* A tap takes the lock when nobody holds it, and nobody was told.          *)
LEMMA TapReadsKeeps ==
  ASSUME IInv, NEW t \in Taps, NEW c \in Choices[kind], TapReads(t, c)
  PROVE  IInv'
<1> USE DEF IInv
<1>u. UNCHANGED <<kind, phase, note, archive, dirty, ledger, queued, reactor, reaper,
    reviser, done, faults>>
  BY DEF TapReads, vault, fixed
<1>t. /\ tap' \in [Taps -> [pc : TapPcs, choice : AnyChoice, copy : Note]]
      /\ \A u \in Taps \ {t} : tap'[u] = tap[u]
      /\ tap'[t].pc = "decided" /\ tap'[t].choice = c /\ tap'[t].copy = note
  BY ProposalsAssumption DEF TapReads, TypeOK, Choices, AllKinds, AnyChoice, TapPcs
<1>o. Owed' = Owed + (IF Approving(t)' THEN 1 ELSE 0) - (IF Approving(t) THEN 1 ELSE 0)
  BY OwedMoves DEF TapReads, TypeOK
<1>1. TypeOK'
  BY ProposalsAssumption, <1>u, <1>t DEF TypeOK, TapReads
<1>2. Versioned'
  BY <1>u, <1>t DEF Versioned, TapReads, InLock, Executing, Open, TypeOK
<1>3. Credit'
  BY OwedNat, <1>u, <1>o, <1>t DEF Credit, TapReads, Approving, Allowed, Executing, TypeOK
<1>4. FirstWins'
  BY <1>u, <1>t DEF FirstWins, TapReads, LockFree, InLock, Locked, TypeOK
<1>5. Denied'
  BY <1>u, <1>t DEF Denied, TapReads, ToldYes, Cut, Executing, Locked, TypeOK
<1>6. Shown'
  BY <1>u, <1>t DEF Shown, TapReads, Approving, Executing, TypeOK
<1>7. Granted'
  BY <1>u, <1>t DEF Granted, TapReads, ToldAlways, TypeOK
<1>8. Counted' /\ Approvals'
  BY <1>u, Stays
<1> QED
  BY <1>1, <1>2, <1>3, <1>4, <1>5, <1>6, <1>7, <1>8

(* An applied card is in the hands of the tap that will be told.            *)
LEMMA TapAppliesKeeps ==
  ASSUME IInv, NEW t \in Taps, TapApplies(t)
  PROVE  IInv'
<1> USE DEF IInv
<1>u. UNCHANGED <<kind, phase, note, archive, dirty, ledger, queued, reactor, reaper,
    reviser, faults>>
  BY DEF TapApplies, vault
<1>t. /\ tap' \in [Taps -> [pc : TapPcs, choice : AnyChoice, copy : Note]]
      /\ \A u \in Taps \ {t} : tap'[u] = tap[u]
      /\ tap'[t].pc = "applied" /\ tap'[t].choice = tap[t].choice /\ tap'[t].copy = tap[t].copy
  BY DEF TapApplies, TypeOK, TapPcs
<1>o. Owed' = Owed + (IF Approving(t)' THEN 1 ELSE 0) - (IF Approving(t) THEN 1 ELSE 0)
  BY OwedMoves DEF TapApplies, TypeOK
<1>1. TypeOK'
  BY ProposalsAssumption, <1>u, <1>t DEF TypeOK, TapApplies
<1>2. Versioned'
  BY <1>u, <1>t DEF Versioned, TapApplies, InLock, Executing, Open, TypeOK
<1>3. Credit'
  BY OwedNat, <1>u, <1>o, <1>t DEF Credit, TapApplies, Approving, Allowed, Executing,
      TypeOK
<1>4. Approvals'
  BY <1>u, <1>t DEF Approvals, TapApplies, TypeOK
<1>5. FirstWins'
  BY <1>u, <1>t DEF FirstWins, TapApplies, InLock, Locked, TypeOK
<1>6. Denied'
  BY <1>u, <1>t DEF Denied, TapApplies, FirstWins, InLock, ToldYes, Cut, Executing,
      Locked, TypeOK
<1>7. Shown'
  BY <1>u, <1>t DEF Shown, TapApplies, Approving, Executing, TypeOK
<1>8. Granted'
  BY <1>u, <1>t DEF Granted, TapApplies, ToldAlways, TypeOK
<1>9. Counted'
  BY <1>u, Stays
<1> QED
  BY <1>1, <1>2, <1>3, <1>4, <1>5, <1>6, <1>7, <1>8, <1>9

(* An approval is owed to the note, or is spent on a cut-off one.           *)
LEMMA TapRecordsKeeps ==
  ASSUME IInv, NEW t \in Taps, TapRecords(t)
  PROVE  IInv'
<1> USE DEF IInv
<1>u. UNCHANGED <<kind, phase, note, archive, dirty, queued, reactor, reaper, reviser,
    faults>>
  BY DEF TapRecords, vault
<1>t. /\ tap' \in [Taps -> [pc : TapPcs, choice : AnyChoice, copy : Note]]
      /\ \A u \in Taps \ {t} : tap'[u] = tap[u]
      /\ tap'[t].pc = "recorded" /\ tap'[t].choice = tap[t].choice /\ tap'[t].copy = tap[t].copy
  BY DEF TapRecords, TypeOK, TapPcs
<1>o. Owed' = Owed + (IF Approving(t)' THEN 1 ELSE 0) - (IF Approving(t) THEN 1 ELSE 0)
  BY OwedMoves DEF TapRecords, TypeOK
<1>1. TypeOK'
  <2>1. ledger' \in {"none", "approved", "rejected"}
    BY DEF TapRecords
  <2>2. tap[t].copy.version \in Versions
    BY DEF TapRecords, Recordable, Versioned, InLock
  <2>3. \/ done' = done
        \/ done' = [done EXCEPT !.approvals = @ + 1,
                                !.approved = @ \cup {tap[t].copy.version}]
    BY DEF TapRecords
  <2>4. done' \in [approved : SUBSET Versions, approvals : Nat, applied : Nat,
                  ran : SUBSET Versions, runs : Nat, granted : BOOLEAN]
    <3>1. /\ done.approvals + 1 \in Nat
          /\ done.approved \cup {tap[t].copy.version} \in SUBSET Versions
      BY <2>2 DEF TypeOK
    <3> QED
      BY <2>3, <3>1, Zenon DEF TypeOK
  <2> QED
    BY <1>u, <1>t, <2>1, <2>4 DEF TypeOK
<1>2. Versioned'
  BY <1>u, <1>t DEF Versioned, TapRecords, Recordable, InLock, Executing, Open, TypeOK
<1>3. Credit'
  BY OwedNat, <1>u, <1>o, <1>t DEF Credit, TapRecords, Recordable, Approving, Allowed,
      Executing, TypeOK
<1>4. Approvals'
  BY <1>u, <1>t DEF Approvals, TapRecords, Recordable, TypeOK
<1>5. FirstWins'
  BY <1>u, <1>t DEF FirstWins, TapRecords, Recordable, InLock, Locked, TypeOK
<1>6. Denied'
  BY <1>u, <1>t DEF Denied, TapRecords, Recordable, ToldYes, Cut, Executing, Locked,
      TypeOK
<1>7. Shown'
  BY <1>u, <1>t DEF Shown, TapRecords, Recordable, Approving, Executing, TypeOK
<1>8. Granted'
  BY <1>u, <1>t DEF Granted, TapRecords, Recordable, ToldAlways, TypeOK
<1>9. Counted'
  BY <1>u, Stays
<1> QED
  BY <1>1, <1>2, <1>3, <1>4, <1>5, <1>6, <1>7, <1>8, <1>9

(* What was owed is paid into the note.                                     *)
LEMMA TapWritesKeeps ==
  ASSUME IInv, NEW t \in Taps, TapWrites(t)
  PROVE  IInv'
<1> USE DEF IInv
<1>u. UNCHANGED <<kind, phase, archive, ledger, queued, reactor, reaper, reviser, done,
    faults>>
  BY DEF TapWrites, fixed, Write
<1>t. /\ tap' \in [Taps -> [pc : TapPcs, choice : AnyChoice, copy : Note]]
      /\ \A u \in Taps \ {t} : tap'[u] = tap[u]
      /\ tap'[t].pc = "told" /\ tap'[t].choice = tap[t].choice /\ tap'[t].copy = Absent
  <2>1. Absent \in Note /\ "told" \in TapPcs
    BY Closings DEF TapPcs
  <2>2. tap' = [tap EXCEPT ![t] = [@ EXCEPT !.pc = "told", !.copy = Absent]]
    BY DEF TapWrites, TypeOK
  <2> QED
    BY <2>1, <2>2 DEF TypeOK
<1>n. /\ note' \in Note /\ dirty' = TRUE
      /\ tap[t].choice = "deny" => note'.status = "rejected" /\ note'.choice = "none"
      /\ \/ note'.status \in {"rejected", "done"} /\ note'.choice = "none"
         \/ /\ note'.status = "approved" /\ note'.choice = tap[t].choice
            /\ note'.version = tap[t].copy.version /\ tap[t].choice # "deny"
  <2> DEFINE content == Decided(tap[t].copy, tap[t].choice)
  <2>0. tap[t].copy \in Note /\ tap[t].choice \in AnyChoice
    BY DEF TypeOK
  <2>1. CASE tap[t].choice = "deny"
    <3>0. "rejected" \in Statuses
      BY DEF Statuses, Terminal
    <3>1. content = Closed("rejected")
      BY <2>1 DEF Decided
    <3> QED
      BY <2>1, <3>0, <3>1, Closings, Written DEF TapWrites
  <2>2. CASE tap[t].choice # "deny" /\ kind = "schedule"
    <3>0. "done" \in Statuses
      BY DEF Statuses, Terminal
    <3>1. content = Closed("done")
      BY <2>2 DEF Decided
    <3> QED
      BY <2>2, <3>0, <3>1, Closings, Written DEF TapWrites
  <2>3. CASE tap[t].choice # "deny" /\ kind # "schedule"
    <3>1. content = [tap[t].copy EXCEPT !.status = "approved", !.choice = tap[t].choice]
      BY <2>3 DEF Decided
    <3>2. /\ content \in Note /\ content.status = "approved"
          /\ content.choice = tap[t].choice /\ content.version = tap[t].copy.version
      BY <2>0, <3>1 DEF Note, Statuses, Open
    <3> QED
      BY <2>3, <3>2, Written DEF TapWrites
  <2> QED
    BY <2>1, <2>2, <2>3
<1>o. Owed' = Owed + (IF Approving(t)' THEN 1 ELSE 0) - (IF Approving(t) THEN 1 ELSE 0)
  BY OwedMoves DEF TapWrites, TypeOK
<1>1. TypeOK'
  BY ProposalsAssumption, <1>u, <1>n, <1>t DEF TypeOK, TapWrites
<1>2. Versioned'
  BY <1>u, <1>n, <1>t DEF Versioned, TapWrites, InLock, Executing, Open, TypeOK
<1>3. Credit'
  BY OwedNat, <1>u, <1>o, <1>n, <1>t DEF Credit, TapWrites, Approving, Allowed, Executing,
      TypeOK
<1>4. FirstWins'
  BY <1>u, <1>n, <1>t DEF FirstWins, TapWrites, InLock, Locked, TypeOK
<1>5. Denied'
  BY <1>u, <1>n, <1>t DEF Denied, TapWrites, ToldYes, Cut, Executing, Locked, TypeOK
<1>6. Shown'
  BY <1>u, <1>n, <1>t DEF Shown, TapWrites, Approving, Executing, TypeOK
<1>7. Granted'
  BY <1>u, <1>n, <1>t, Closings DEF Granted, TapWrites, ToldAlways, TypeOK
<1>8. Counted' /\ Approvals'
  BY <1>u, Stays
<1> QED
  BY <1>1, <1>2, <1>3, <1>4, <1>5, <1>6, <1>7, <1>8

(* An approval that fails on its way is lost; an applied card is a cut.     *)
LEMMA TapFailsKeeps ==
  ASSUME IInv, NEW t \in Taps, TapFails(t)
  PROVE  IInv'
<1> USE DEF IInv
<1>u. UNCHANGED <<kind, phase, note, archive, dirty, ledger, queued, reactor, reaper,
    reviser, done>>
  BY DEF TapFails, vault
<1>t. /\ tap' \in [Taps -> [pc : TapPcs, choice : AnyChoice, copy : Note]]
      /\ \A u \in Taps \ {t} : tap'[u] = tap[u]
      /\ tap'[t].pc = "idle" /\ tap'[t].copy = Absent
  BY Closings DEF TapFails, TypeOK, TapPcs, AnyChoice
<1>f. /\ faults' \in [{"fails", "stops", "cuts", "edits", "touches"} -> 0 .. MaxFaults]
      /\ Counted'
      /\ faults'.edits = faults.edits + 0
      /\ faults'.cuts = faults.cuts + IF Cut(t) THEN 1 ELSE 0
  BY Faulted DEF TapFails, Cut
<1>o. Owed' = Owed + (IF Approving(t)' THEN 1 ELSE 0) - (IF Approving(t) THEN 1 ELSE 0)
  BY OwedMoves DEF TapFails, TypeOK
<1>1. TypeOK'
  BY ProposalsAssumption, <1>u, <1>f, <1>t DEF TypeOK, TapFails, Recordable
<1>2. Counted'
  BY <1>f
<1>3. Versioned'
  BY <1>u, <1>f, <1>t DEF Versioned, TapFails, Recordable, InLock, Executing, Open, TypeOK
<1>4. Credit'
  BY OwedNat, <1>u, <1>f, <1>o, <1>t DEF Credit, TapFails, Recordable, Approving, Allowed,
      Executing, TypeOK
<1>5. FirstWins'
  BY <1>u, <1>f, <1>t DEF FirstWins, TapFails, Recordable, InLock, Locked, TypeOK
<1>6. Denied'
  BY <1>u, <1>f, <1>t DEF Denied, TapFails, Recordable, ToldYes, Cut, Executing, Locked,
      TypeOK
<1>7. Shown'
  BY <1>u, <1>f, <1>t DEF Shown, TapFails, Recordable, Approving, Executing, TypeOK
<1>8. Granted'
  BY <1>u, <1>f, <1>t, Closings DEF Granted, TapFails, Recordable, ToldAlways, TypeOK
<1>9. Approvals'
  BY <1>u, Stays
<1> QED
  BY <1>1, <1>2, <1>3, <1>4, <1>5, <1>6, <1>7, <1>8, <1>9

(* A revision copies a version, and decides nothing.                        *)
LEMMA ReviseReadsKeeps ==
  ASSUME IInv, ReviseReads
  PROVE  IInv'
<1> USE DEF IInv
<1>u. UNCHANGED <<kind, phase, note, archive, dirty, ledger, queued, tap, reactor, reaper,
    done, faults>>
  BY DEF ReviseReads, vault, fixed
<1>1. TypeOK'
  BY ProposalsAssumption, <1>u DEF TypeOK, ReviseReads, Note, Versions
<1>2. FirstWins'
  BY <1>u DEF FirstWins, ReviseReads, InLock, Locked, TypeOK
<1>3. Counted' /\ Versioned' /\ Credit' /\ Approvals' /\ Denied' /\ Shown' /\ Granted'
  BY <1>u, Stays
<1> QED
  BY <1>1, <1>2, <1>3

(* A revision is pending again, under a version nobody approved.            *)
LEMMA ReviseWritesKeeps ==
  ASSUME IInv, ReviseWrites
  PROVE  IInv'
<1> USE DEF IInv
<1>u. UNCHANGED <<kind, phase, archive, ledger, queued, tap, reactor, reaper, done,
    faults>>
  BY DEF ReviseWrites, fixed, Write
<1>n. /\ note' \in Note /\ note'.status = "pending" /\ note'.choice = "none"
      /\ note'.version = reviser + 1 /\ note'.version \in Versions /\ dirty' = TRUE
  <2> DEFINE content == [Closed("pending") EXCEPT !.version = reviser + 1]
  <2>1. reviser + 1 \in Versions
    BY ProposalsAssumption DEF ReviseWrites, TypeOK, Versions
  <2>2. /\ content \in Note /\ content.status = "pending" /\ content.choice = "none"
        /\ content.version = reviser + 1
    BY <2>1, Closings DEF Note, Statuses, Open
  <2>3. Write(content, "human")
    BY DEF ReviseWrites
  <2> QED
    BY <2>1, <2>2, <2>3, Written
<1>1. TypeOK'
  BY ProposalsAssumption, <1>u, <1>n DEF TypeOK, ReviseWrites
<1>2. Versioned'
  BY <1>u, <1>n DEF Versioned, ReviseWrites, InLock, Executing, Open, TypeOK
<1>3. Credit'
  BY OwedNat, <1>u, OwedStays, <1>n DEF Credit, ReviseWrites, Allowed, Executing, TypeOK
<1>4. FirstWins'
  BY <1>u, <1>n DEF FirstWins, ReviseWrites, InLock, Locked, TypeOK
<1>5. Denied'
  BY <1>u, <1>n DEF Denied, ReviseWrites, ToldYes, Cut, Executing, Locked, TypeOK
<1>6. Shown'
  BY <1>u, <1>n DEF Shown, ReviseWrites, Approving, Executing, TypeOK
<1>7. Granted'
  BY <1>u, <1>n DEF Granted, ReviseWrites, ToldAlways, TypeOK
<1>8. Counted' /\ Approvals'
  BY <1>u, Stays
<1> QED
  BY <1>1, <1>2, <1>3, <1>4, <1>5, <1>6, <1>7, <1>8

(* A revision that fails changes nothing.                                   *)
LEMMA ReviseFailsKeeps ==
  ASSUME IInv, ReviseFails
  PROVE  IInv'
<1> USE DEF IInv
<1>u. UNCHANGED <<kind, phase, note, archive, dirty, ledger, queued, tap, reactor, reaper,
    done, faults>>
  BY DEF ReviseFails, vault, fixed
<1>1. TypeOK'
  BY ProposalsAssumption, <1>u DEF TypeOK, ReviseFails
<1>2. FirstWins'
  BY <1>u DEF FirstWins, ReviseFails, InLock, Locked, TypeOK
<1>3. Counted' /\ Versioned' /\ Credit' /\ Approvals' /\ Denied' /\ Shown' /\ Granted'
  BY <1>u, Stays
<1> QED
  BY <1>1, <1>2, <1>3

(* An edit is counted, and may stand in for an approval.                    *)
LEMMA EditKeeps ==
  ASSUME IInv, NEW s \in {"approved", "rejected"}, Edit(s)
  PROVE  IInv'
<1> USE DEF IInv
<1>u. UNCHANGED <<kind, phase, archive, ledger, queued, tap, reactor, reaper, reviser,
    done>>
  BY DEF Edit, actors, Write
<1>f. /\ faults' \in [{"fails", "stops", "cuts", "edits", "touches"} -> 0 .. MaxFaults]
      /\ Counted'
      /\ faults'.edits = faults.edits + 1
      /\ faults'.cuts = faults.cuts + IF FALSE THEN 1 ELSE 0
  BY Faulted DEF Edit
<1>n. /\ note' \in Note /\ note'.status = s /\ dirty' = TRUE
      /\ note'.version = note.version \/ s = "rejected"
      /\ note'.choice = note.choice \/ note'.choice = "none"
  <2> DEFINE content == IF s = "rejected" THEN Closed(s) ELSE [note EXCEPT !.status = s]
  <2>1. /\ content \in Note /\ content.status = s
        /\ content.version = note.version \/ s = "rejected"
        /\ content.choice = note.choice \/ content.choice = "none"
    BY Closings DEF TypeOK, Note, Statuses, Open, Terminal
  <2> QED
    BY <2>1, Written DEF Edit
<1>1. TypeOK'
  BY ProposalsAssumption, <1>u, <1>f, <1>n DEF TypeOK, Edit
<1>2. Counted'
  BY <1>f
<1>3. Versioned'
  BY <1>u, <1>f, <1>n DEF Versioned, Edit, InLock, Executing, Open, TypeOK
<1>4. Credit'
  BY OwedNat, <1>u, <1>f, OwedStays, <1>n DEF Credit, Edit, Allowed, Executing, TypeOK
<1>5. FirstWins'
  BY <1>u, <1>f, <1>n DEF FirstWins, Edit, InLock, Locked, TypeOK
<1>6. Denied'
  BY <1>u, <1>f, <1>n DEF Denied, Edit, ToldYes, Cut, Executing, Locked, TypeOK
<1>7. Shown'
  BY <1>u, <1>f, <1>n DEF Shown, Edit, Approving, Executing, TypeOK
<1>8. Granted'
  BY <1>u, <1>f, <1>n DEF Granted, Edit, ToldAlways, TypeOK
<1>9. Approvals'
  BY <1>u, Stays
<1> QED
  BY <1>1, <1>2, <1>3, <1>4, <1>5, <1>6, <1>7, <1>8, <1>9

(* A save by hand is counted, and changes nothing.                          *)
LEMMA TouchKeeps ==
  ASSUME IInv, Touch
  PROVE  IInv'
<1> USE DEF IInv
<1>u. UNCHANGED <<kind, phase, note, archive, ledger, queued, tap, reactor, reaper,
    reviser, done>>
  BY DEF Touch, actors
<1>f. /\ faults' \in [{"fails", "stops", "cuts", "edits", "touches"} -> 0 .. MaxFaults]
      /\ Counted'
      /\ faults'.edits = faults.edits + 0
      /\ faults'.cuts = faults.cuts + IF FALSE THEN 1 ELSE 0
  BY Faulted DEF Touch
<1>1. TypeOK'
  BY ProposalsAssumption, <1>u, <1>f DEF TypeOK, Touch
<1>2. Counted'
  BY <1>f
<1>3. Credit'
  BY OwedNat, <1>u, <1>f, OwedStays DEF Credit, Touch, Allowed, Executing, TypeOK
<1>4. Denied'
  BY <1>u, <1>f DEF Denied, Touch, ToldYes, Cut, Executing, Locked, TypeOK
<1>5. Shown'
  BY <1>u, <1>f DEF Shown, Touch, Approving, Executing, TypeOK
<1>6. Versioned' /\ Approvals' /\ FirstWins' /\ Granted'
  BY <1>u, Stays
<1> QED
  BY <1>1, <1>2, <1>3, <1>4, <1>5, <1>6

(* The watcher changes no note.                                             *)
LEMMA SettleKeeps ==
  ASSUME IInv, Settle
  PROVE  IInv'
<1> USE DEF IInv
<1>u. UNCHANGED <<kind, phase, note, archive, ledger, tap, reactor, reaper, reviser, done,
    faults>>
  BY DEF Settle, actors, fixed
<1>1. TypeOK'
  <2>1. queued' = IF Foreign THEN queued + 1 ELSE queued
    BY Zenon DEF Settle
  <2>2. dirty' \in BOOLEAN
    BY Zenon DEF Settle
  <2>3. queued' \in Nat
    BY <2>1 DEF TypeOK
  <2> QED
    BY <1>u, <2>2, <2>3 DEF TypeOK
<1>2. Counted' /\ Versioned' /\ Credit' /\ Approvals' /\ FirstWins' /\ Denied' /\ Shown'
    /\ Granted'
  BY <1>u, Stays
<1> QED
  BY <1>1, <1>2

(* What the note says approved moves into the reaction.                     *)
LEMMA ReactKeeps ==
  ASSUME IInv, React
  PROVE  IInv'
<1> USE DEF IInv
<1>u. UNCHANGED <<kind, phase, note, archive, dirty, ledger, tap, reaper, reviser, done,
    faults>>
  BY DEF React, vault, fixed, SameButReactor
<1>r. /\ reactor' \in [pc : ReactorPcs, copy : Note]
      /\ \/ reactor'.pc = "idle" /\ reactor'.copy = Absent
         \/ reactor'.pc = "checking" /\ reactor'.copy = note /\ note.status = "approved"
         \/ /\ reactor'.pc \in {"filing", "expiring"} /\ reactor'.copy.choice = "none"
            /\ reactor'.pc = "filing" => reactor'.copy.status \in Terminal
  BY Closings DEF React, Guarded, ReactorPcs, Note, Statuses, Open, Terminal, TypeOK
<1>1. TypeOK'
  BY ProposalsAssumption, <1>u, <1>r, Closings DEF TypeOK, React
<1>2. Versioned'
  BY <1>u, <1>r, Closings DEF Versioned, React, InLock, Executing, Open, TypeOK
<1>3. Credit'
  BY OwedNat, <1>u, OwedStays, <1>r DEF Credit, React, Allowed, Executing, TypeOK
<1>4. Approvals'
  BY <1>u, <1>r DEF Approvals, React, TypeOK
<1>5. Denied'
  BY <1>u, <1>r, Closings DEF Denied, React, ToldYes, Cut, Executing, Locked, TypeOK
<1>6. Shown'
  BY <1>u, <1>r, Closings DEF Shown, React, Approving, Executing, TypeOK
<1>7. Granted'
  BY <1>u, <1>r, Closings DEF Granted, React, ToldAlways, TypeOK
<1>8. Counted' /\ FirstWins'
  BY <1>u, Stays
<1> QED
  BY <1>1, <1>2, <1>3, <1>4, <1>5, <1>6, <1>7, <1>8

(* What passes the gate was approved by a tap.                              *)
LEMMA ReactorChecksKeeps ==
  ASSUME IInv, ReactorChecks
  PROVE  IInv'
<1> USE DEF IInv
<1>u. UNCHANGED <<kind, phase, note, archive, dirty, ledger, queued, tap, reaper, reviser,
    done, faults>>
  BY DEF ReactorChecks, vault, fixed, SameButReactor
<1>r. /\ reactor' \in [pc : ReactorPcs, copy : Note]
      /\ \/ reactor'.pc = "idle" /\ reactor'.copy = Absent
         \/ reactor'.pc = "ready" /\ reactor'.copy = reactor.copy /\ ledger = "approved"
  BY Reacting DEF ReactorChecks, ReactorPcs, LedgerApproves
<1>1. TypeOK'
  BY ProposalsAssumption, <1>u, <1>r, Closings DEF TypeOK, ReactorChecks
<1>2. Versioned'
  BY <1>u, <1>r, Closings DEF Versioned, ReactorChecks, InLock, Executing, Open, TypeOK
<1>3. Credit'
  BY OwedNat, <1>u, OwedStays, <1>r DEF Credit, ReactorChecks, Allowed, Executing, TypeOK
<1>4. Approvals'
  BY <1>u, <1>r DEF Approvals, ReactorChecks, TypeOK
<1>5. Denied'
  BY <1>u, <1>r, Closings DEF Denied, ReactorChecks, ToldYes, Cut, Executing, Locked,
      TypeOK
<1>6. Shown'
  BY <1>u, <1>r, Closings DEF Shown, ReactorChecks, Approving, Executing, TypeOK
<1>7. Granted'
  BY <1>u, <1>r, Closings DEF Granted, ReactorChecks, ToldAlways, TypeOK
<1>8. Counted' /\ FirstWins'
  BY <1>u, Stays
<1> QED
  BY <1>1, <1>2, <1>3, <1>4, <1>5, <1>6, <1>7, <1>8

(* What is ready runs, unless its deadline passed.                          *)
LEMMA ReactorRechecksKeeps ==
  ASSUME IInv, ReactorRechecks
  PROVE  IInv'
<1> USE DEF IInv
<1>u. UNCHANGED <<kind, phase, note, archive, dirty, ledger, queued, tap, reaper, reviser,
    done, faults>>
  BY DEF ReactorRechecks, vault, fixed, SameButReactor
<1>r. /\ reactor' \in [pc : ReactorPcs, copy : Note] /\ reactor'.copy = reactor.copy
      /\ reactor'.pc \in {"expiring", "running"}
  BY Reacting DEF ReactorRechecks, ReactorPcs
<1>1. TypeOK'
  BY ProposalsAssumption, <1>u, <1>r DEF TypeOK, ReactorRechecks
<1>2. Versioned'
  BY <1>u, <1>r DEF Versioned, ReactorRechecks, InLock, Executing, Open, TypeOK
<1>3. Credit'
  BY OwedNat, <1>u, OwedStays, <1>r DEF Credit, ReactorRechecks, Allowed, Executing,
      TypeOK
<1>4. Approvals'
  BY <1>u, <1>r DEF Approvals, ReactorRechecks, TypeOK
<1>5. Denied'
  BY <1>u, <1>r DEF Denied, ReactorRechecks, ToldYes, Cut, Executing, Locked, TypeOK
<1>6. Shown'
  BY <1>u, <1>r DEF Shown, ReactorRechecks, Approving, Executing, TypeOK
<1>7. Granted'
  BY <1>u, <1>r DEF Granted, ReactorRechecks, ToldAlways, TypeOK
<1>8. Counted' /\ FirstWins'
  BY <1>u, Stays
<1> QED
  BY <1>1, <1>2, <1>3, <1>4, <1>5, <1>6, <1>7, <1>8

(* A run spends the approval it was given.                                  *)
LEMMA RunsKeeps ==
  ASSUME IInv, Runs
  PROVE  IInv'
<1> USE DEF IInv
<1>u. UNCHANGED <<kind, phase, note, archive, dirty, ledger, queued, tap, reaper, reviser,
    faults>>
  BY DEF Runs, vault, SameButReactor
<1>r. /\ reactor' \in [pc : ReactorPcs, copy : Note] /\ reactor'.copy = reactor.copy
      /\ reactor'.pc = "ran"
  BY Reacting DEF Runs, ReactorPcs
<1>1. TypeOK'
  <2>1. /\ done.ran \cup {reactor.copy.version} \in SUBSET Versions /\ done.runs + 1 \in Nat
        /\ done.approved \in SUBSET Versions /\ done.approvals \in Nat /\ done.applied \in Nat
    BY DEF Runs, TypeOK, Versioned, Executing
  <2>2. (done.granted \/ Standing(reactor.copy.choice)) \in BOOLEAN
    OBVIOUS
  <2>3. done' \in [approved : SUBSET Versions, approvals : Nat, applied : Nat,
                  ran : SUBSET Versions, runs : Nat, granted : BOOLEAN]
    BY <2>1, <2>2, Zenon DEF Runs, TypeOK
  <2> QED
    BY <1>u, <1>r, <2>3 DEF TypeOK
<1>2. Versioned'
  BY <1>u, <1>r DEF Versioned, Runs, InLock, Executing, Open, TypeOK
<1>3. Credit'
  BY OwedNat, <1>u, OwedStays, <1>r DEF Credit, Runs, Allowed, Executing, TypeOK
<1>4. Approvals'
  BY <1>u, <1>r DEF Approvals, Runs, TypeOK
<1>5. Denied'
  BY <1>u, <1>r DEF Denied, Runs, ToldYes, Cut, Executing, Locked, TypeOK
<1>6. Shown'
  BY <1>u, <1>r DEF Shown, Runs, Approving, Executing, TypeOK
<1>7. Granted'
  <2>1. done'.granted = (done.granted \/ Standing(reactor.copy.choice))
    BY Zenon DEF Runs, TypeOK
  <2>2. done'.granted = TRUE => ToldAlways
    BY <2>1 DEF Granted, Standing, TypeOK
  <2>3. done'.runs = done.runs + 1 /\ done.runs \in Nat
    BY DEF Runs, TypeOK
  <2> QED
    BY <1>u, <1>r, <2>2, <2>3 DEF Granted, ToldAlways
<1>8. Counted' /\ FirstWins'
  BY <1>u, Stays
<1> QED
  BY <1>1, <1>2, <1>3, <1>4, <1>5, <1>6, <1>7, <1>8

(* A run that fails spends its approval for nothing.                        *)
LEMMA RunFailsKeeps ==
  ASSUME IInv, RunFails
  PROVE  IInv'
<1> USE DEF IInv
<1>u. UNCHANGED <<kind, phase, note, archive, dirty, ledger, queued, tap, reaper, reviser,
    done>>
  BY DEF RunFails, vault, SameButReactor
<1>f. /\ faults' \in [{"fails", "stops", "cuts", "edits", "touches"} -> 0 .. MaxFaults]
      /\ Counted'
      /\ faults'.edits = faults.edits + 0
      /\ faults'.cuts = faults.cuts + IF FALSE THEN 1 ELSE 0
  BY Faulted DEF RunFails
<1>r. /\ reactor' \in [pc : ReactorPcs, copy : Note] /\ reactor'.copy = Absent
      /\ reactor'.pc = "idle"
  BY Reacting DEF RunFails, ReactorPcs
<1>1. TypeOK'
  BY ProposalsAssumption, <1>u, <1>f, <1>r, Closings DEF TypeOK, RunFails
<1>2. Counted'
  BY <1>f
<1>3. Versioned'
  BY <1>u, <1>f, <1>r, Closings DEF Versioned, RunFails, InLock, Executing, Open, TypeOK
<1>4. Credit'
  BY OwedNat, <1>u, <1>f, OwedStays, <1>r DEF Credit, RunFails, Allowed, Executing, TypeOK
<1>5. Approvals'
  BY <1>u, <1>f, <1>r DEF Approvals, RunFails, TypeOK
<1>6. Denied'
  BY <1>u, <1>f, <1>r, Closings DEF Denied, RunFails, ToldYes, Cut, Executing, Locked,
      TypeOK
<1>7. Shown'
  BY <1>u, <1>f, <1>r, Closings DEF Shown, RunFails, Approving, Executing, TypeOK
<1>8. Granted'
  BY <1>u, <1>f, <1>r, Closings DEF Granted, RunFails, ToldAlways, TypeOK
<1>9. FirstWins'
  BY <1>u, Stays
<1> QED
  BY <1>1, <1>2, <1>3, <1>4, <1>5, <1>6, <1>7, <1>8, <1>9

(* A run past its deadline is refused.                                      *)
LEMMA RunRefusedKeeps ==
  ASSUME IInv, RunRefused
  PROVE  IInv'
<1> USE DEF IInv
<1>u. UNCHANGED <<kind, phase, archive, ledger, queued, tap, reaper, reviser, done>>
  BY DEF RunRefused, SameButReactor, Write, vault
<1>r. /\ reactor' \in [pc : ReactorPcs, copy : Note] /\ reactor'.copy.status = "expired"
      /\ reactor'.pc = "filing" /\ reactor'.copy.choice = "none"
  BY Closings DEF RunRefused, ReactorPcs, Statuses, Terminal
<1>n. /\ note' \in Note /\ dirty' \in BOOLEAN
      /\ note' = note \/ (note'.status = "expired" /\ note'.choice = "none")
      /\ faults' \in [{"fails", "stops", "cuts", "edits", "touches"} -> 0 .. MaxFaults]
      /\ Counted' /\ faults'.edits = faults.edits /\ faults'.cuts = faults.cuts
  <2>1. CASE Write(Closed("expired"), "agent") /\ UNCHANGED faults
    <3>1. /\ Closed("expired") \in Note /\ Closed("expired").status = "expired"
          /\ Closed("expired").choice = "none"
      BY Closings DEF Statuses, Terminal
    <3> QED
      BY <2>1, <3>1, Written, Stays DEF TypeOK
  <2>2. CASE Fault("fails", FALSE) /\ UNCHANGED vault
    <3>1. /\ faults' \in [{"fails", "stops", "cuts", "edits", "touches"} -> 0 .. MaxFaults]
          /\ Counted' /\ faults'.edits = faults.edits + 0 /\ faults'.cuts = faults.cuts + 0
      BY <2>2, Faulted
    <3>2. faults.edits \in Nat /\ faults.cuts \in Nat
      BY ProposalsAssumption DEF TypeOK
    <3>3. note' = note /\ dirty' = dirty
      BY <2>2 DEF vault
    <3>5. note' \in Note /\ dirty' \in BOOLEAN
      BY <3>3, Zenon DEF TypeOK
    <3>4. faults'.edits = faults.edits /\ faults'.cuts = faults.cuts
      BY <3>1, <3>2
    <3> QED
      <4>1. note' = note \/ (note'.status = "expired" /\ note'.choice = "none")
        BY <3>3
      <4> QED
        BY <3>1, <3>4, <3>5, <4>1
  <2> QED
    BY <2>1, <2>2 DEF RunRefused
<1>1. TypeOK'
  BY <1>u, <1>r, <1>n DEF TypeOK, Terminal
<1>2. Counted'
  BY <1>n
<1>3. Versioned'
  BY <1>u, <1>r, <1>n DEF Versioned, RunRefused, InLock, Executing, Open, TypeOK
<1>4. Credit'
  BY OwedNat, <1>u, OwedStays, <1>r, <1>n DEF Credit, RunRefused, Allowed, Executing,
      TypeOK
<1>5. Approvals'
  BY <1>u, <1>r, <1>n DEF Approvals, RunRefused, TypeOK
<1>6. FirstWins'
  BY <1>u, <1>r, <1>n DEF FirstWins, RunRefused, InLock, Locked, TypeOK
<1>7. Denied'
  BY <1>u, <1>r, <1>n DEF Denied, RunRefused, ToldYes, Cut, Executing, Locked, TypeOK
<1>8. Shown'
  BY <1>u, <1>r, <1>n DEF Shown, RunRefused, Approving, Executing, TypeOK
<1>9. Granted'
  BY <1>u, <1>r, <1>n DEF Granted, RunRefused, ToldAlways, TypeOK
<1> QED
  BY <1>1, <1>2, <1>3, <1>4, <1>5, <1>6, <1>7, <1>8, <1>9

(* What ran is marked, over whatever the note says by then.                 *)
LEMMA ReactorMarksDoneKeeps ==
  ASSUME IInv, ReactorMarksDone
  PROVE  IInv'
<1> USE DEF IInv
<1>u. UNCHANGED <<kind, phase, archive, ledger, queued, tap, reaper, reviser, done,
    faults>>
  BY DEF ReactorMarksDone, fixed, SameButReactor, Mark, Write
<1>n. /\ note' \in Note /\ note'.status = "done" /\ note'.choice = "none"
      /\ dirty' = TRUE
  BY Closings, Written DEF ReactorMarksDone, Mark, Statuses, Terminal
<1>r. /\ reactor' \in [pc : ReactorPcs, copy : Note] /\ reactor'.pc = "filing"
      /\ reactor'.copy.status \in Terminal /\ reactor'.copy.choice = "none"
  BY Closings DEF ReactorMarksDone, Mark, ReactorPcs, Statuses, Terminal
<1>1. TypeOK'
  BY ProposalsAssumption, <1>u, <1>n, <1>r DEF TypeOK, ReactorMarksDone
<1>2. Versioned'
  BY <1>u, <1>n, <1>r DEF Versioned, ReactorMarksDone, InLock, Executing, Open, TypeOK
<1>3. Credit'
  BY OwedNat, <1>u, OwedStays, <1>n, <1>r DEF Credit, ReactorMarksDone, Allowed,
      Executing, TypeOK
<1>4. Approvals'
  BY <1>u, <1>n, <1>r DEF Approvals, ReactorMarksDone, TypeOK
<1>5. FirstWins'
  BY <1>u, <1>n, <1>r DEF FirstWins, ReactorMarksDone, InLock, Locked, TypeOK
<1>6. Denied'
  BY <1>u, <1>n, <1>r DEF Denied, ReactorMarksDone, ToldYes, Cut, Executing, Locked,
      TypeOK
<1>7. Shown'
  BY <1>u, <1>n, <1>r DEF Shown, ReactorMarksDone, Approving, Executing, TypeOK
<1>8. Granted'
  BY <1>u, <1>n, <1>r DEF Granted, ReactorMarksDone, ToldAlways, TypeOK
<1>9. Counted'
  BY <1>u, Stays
<1> QED
  BY <1>1, <1>2, <1>3, <1>4, <1>5, <1>6, <1>7, <1>8, <1>9

(* What lapsed is marked, over whatever the note says by then.              *)
LEMMA ReactorExpiresKeeps ==
  ASSUME IInv, ReactorExpires
  PROVE  IInv'
<1> USE DEF IInv
<1>u. UNCHANGED <<kind, phase, archive, ledger, queued, tap, reaper, reviser, done,
    faults>>
  BY DEF ReactorExpires, fixed, SameButReactor, Mark, Write
<1>n. /\ note' \in Note /\ note'.status = "expired" /\ note'.choice = "none"
      /\ dirty' = TRUE
  BY Closings, Written, ZenonT(60) DEF ReactorExpires, Mark, Statuses, Terminal
<1>r. /\ reactor' \in [pc : ReactorPcs, copy : Note] /\ reactor'.pc = "filing"
      /\ reactor'.copy.status \in Terminal /\ reactor'.copy.choice = "none"
  BY Closings DEF ReactorExpires, Mark, ReactorPcs, Statuses, Terminal
<1>1. TypeOK'
  BY ProposalsAssumption, <1>u, <1>n, <1>r DEF TypeOK, ReactorExpires
<1>2. Versioned'
  BY <1>u, <1>n, <1>r DEF Versioned, ReactorExpires, InLock, Executing, Open, TypeOK
<1>3. Credit'
  BY OwedNat, <1>u, OwedStays, <1>n, <1>r DEF Credit, ReactorExpires, Allowed, Executing,
      TypeOK
<1>4. Approvals'
  BY <1>u, <1>n, <1>r DEF Approvals, ReactorExpires, TypeOK
<1>5. FirstWins'
  BY <1>u, <1>n, <1>r DEF FirstWins, ReactorExpires, InLock, Locked, TypeOK
<1>6. Denied'
  BY <1>u, <1>n, <1>r DEF Denied, ReactorExpires, ToldYes, Cut, Executing, Locked, TypeOK
<1>7. Shown'
  BY <1>u, <1>n, <1>r DEF Shown, ReactorExpires, Approving, Executing, TypeOK
<1>8. Granted'
  BY <1>u, <1>n, <1>r DEF Granted, ReactorExpires, ToldAlways, TypeOK
<1>9. Counted'
  BY <1>u, Stays
<1> QED
  BY <1>1, <1>2, <1>3, <1>4, <1>5, <1>6, <1>7, <1>8, <1>9

(* A mark that fails after the run is a cut: the note still says approved.  *)
LEMMA ReactorFailsKeeps ==
  ASSUME IInv, ReactorFails
  PROVE  IInv'
<1> USE DEF IInv
<1>u. UNCHANGED <<kind, phase, note, archive, dirty, ledger, queued, tap, reaper, reviser,
    done>>
  BY DEF ReactorFails, vault, SameButReactor
<1>f. /\ faults' \in [{"fails", "stops", "cuts", "edits", "touches"} -> 0 .. MaxFaults]
      /\ Counted'
      /\ faults'.edits = faults.edits + 0
      /\ faults'.cuts = faults.cuts + IF (reactor.pc = "ran") THEN 1 ELSE 0
  BY Faulted DEF ReactorFails
<1>r. /\ reactor' \in [pc : ReactorPcs, copy : Note] /\ reactor'.copy = Absent
      /\ reactor'.pc = "idle"
  BY Reacting DEF ReactorFails, ReactorPcs
<1>1. TypeOK'
  BY ProposalsAssumption, <1>u, <1>f, <1>r, Closings DEF TypeOK, ReactorFails
<1>2. Counted'
  BY <1>f
<1>3. Versioned'
  BY <1>u, <1>f, <1>r, Closings DEF Versioned, ReactorFails, InLock, Executing, Open,
      TypeOK
<1>4. Credit'
  BY OwedNat, <1>u, <1>f, OwedStays, <1>r DEF Credit, ReactorFails, Allowed, Executing,
      TypeOK
<1>5. Approvals'
  BY <1>u, <1>f, <1>r DEF Approvals, ReactorFails, TypeOK
<1>6. Denied'
  BY <1>u, <1>f, <1>r, Closings DEF Denied, ReactorFails, ToldYes, Cut, Executing, Locked,
      TypeOK
<1>7. Shown'
  BY <1>u, <1>f, <1>r, Closings DEF Shown, ReactorFails, Approving, Executing, TypeOK
<1>8. Granted'
  BY <1>u, <1>f, <1>r, Closings DEF Granted, ReactorFails, ToldAlways, TypeOK
<1>9. FirstWins'
  BY <1>u, Stays
<1> QED
  BY <1>1, <1>2, <1>3, <1>4, <1>5, <1>6, <1>7, <1>8, <1>9

(* Filing takes the note away.                                              *)
LEMMA ReactorFilesKeeps ==
  ASSUME IInv, ReactorFiles
  PROVE  IInv'
<1> USE DEF IInv
<1>u. UNCHANGED <<kind, phase, ledger, queued, tap, reaper, reviser, done, faults>>
  BY DEF ReactorFiles, fixed, SameButReactor
<1>r. /\ reactor' \in [pc : ReactorPcs, copy : Note] /\ reactor'.copy = Absent
      /\ reactor'.pc = "idle"
  BY Reacting DEF ReactorFiles, ReactorPcs
<1>n. /\ note' = note \/ note' = Absent
      /\ archive' \in SUBSET {"approved", "rejected", "expired"} /\ dirty' = dirty
  BY Filed DEF ReactorFiles, Statuses, Terminal, TypeOK
<1>1. TypeOK'
  BY ProposalsAssumption, <1>u, <1>r, <1>n, Closings DEF TypeOK, ReactorFiles
<1>2. Versioned'
  BY <1>u, <1>r, <1>n, Closings DEF Versioned, ReactorFiles, InLock, Executing, Open,
      TypeOK
<1>3. Credit'
  BY OwedNat, <1>u, OwedStays, <1>r, <1>n, Closings DEF Credit, ReactorFiles, Allowed,
      Executing, TypeOK
<1>4. Approvals'
  BY <1>u, <1>r, <1>n, Closings DEF Approvals, ReactorFiles, TypeOK
<1>5. FirstWins'
  BY <1>u, <1>r, <1>n, Closings DEF FirstWins, ReactorFiles, InLock, Locked, TypeOK
<1>6. Denied'
  BY <1>u, <1>r, <1>n, Closings DEF Denied, ReactorFiles, ToldYes, Cut, Executing, Locked,
      TypeOK
<1>7. Shown'
  BY <1>u, <1>r, <1>n, Closings DEF Shown, ReactorFiles, Approving, Executing, TypeOK
<1>8. Granted'
  BY <1>u, <1>r, <1>n, Closings DEF Granted, ReactorFiles, ToldAlways, TypeOK
<1>9. Counted'
  BY <1>u, Stays
<1> QED
  BY <1>1, <1>2, <1>3, <1>4, <1>5, <1>6, <1>7, <1>8, <1>9

(* The reaper decides on the note it reads.                                 *)
LEMMA ReaperReadsKeeps ==
  ASSUME IInv, ReaperReads
  PROVE  IInv'
<1> USE DEF IInv
<1>u. UNCHANGED <<kind, phase, note, archive, dirty, ledger, queued, tap, reactor,
    reviser, done, faults>>
  BY DEF ReaperReads, vault, fixed, SameButReaper
<1>1. TypeOK'
  BY ProposalsAssumption, <1>u DEF TypeOK, ReaperReads
<1>2. Counted' /\ Versioned' /\ Credit' /\ Approvals' /\ FirstWins' /\ Denied' /\ Shown'
    /\ Granted'
  BY <1>u, Stays
<1> QED
  BY <1>1, <1>2

(* The reaper closes whatever the note says by then.                        *)
LEMMA ReaperExpiresKeeps ==
  ASSUME IInv, ReaperExpires
  PROVE  IInv'
<1> USE DEF IInv
<1>u. UNCHANGED <<kind, phase, archive, ledger, queued, tap, reactor, reviser, done,
    faults>>
  BY DEF ReaperExpires, fixed, SameButReaper, Write
<1>n. /\ note' \in Note /\ note'.status = "expired" /\ note'.choice = "none"
      /\ dirty' = TRUE
  BY Closings, Written DEF ReaperExpires, Statuses, Terminal
<1>1. TypeOK'
  BY ProposalsAssumption, <1>u, <1>n DEF TypeOK, ReaperExpires
<1>2. Versioned'
  BY <1>u, <1>n DEF Versioned, ReaperExpires, InLock, Executing, Open, TypeOK
<1>3. Credit'
  BY OwedNat, <1>u, OwedStays, <1>n DEF Credit, ReaperExpires, Allowed, Executing, TypeOK
<1>4. FirstWins'
  BY <1>u, <1>n DEF FirstWins, ReaperExpires, InLock, Locked, TypeOK
<1>5. Denied'
  BY <1>u, <1>n DEF Denied, ReaperExpires, ToldYes, Cut, Executing, Locked, TypeOK
<1>6. Shown'
  BY <1>u, <1>n DEF Shown, ReaperExpires, Approving, Executing, TypeOK
<1>7. Granted'
  BY <1>u, <1>n DEF Granted, ReaperExpires, ToldAlways, TypeOK
<1>8. Counted' /\ Approvals'
  BY <1>u, Stays
<1> QED
  BY <1>1, <1>2, <1>3, <1>4, <1>5, <1>6, <1>7, <1>8

(* Filing takes the note away.                                              *)
LEMMA ReaperFilesKeeps ==
  ASSUME IInv, ReaperFiles
  PROVE  IInv'
<1> USE DEF IInv
<1>u. UNCHANGED <<kind, phase, ledger, queued, tap, reactor, reviser, done, faults>>
  BY DEF ReaperFiles, fixed, SameButReaper
<1>n. /\ note' = note \/ note' = Absent
      /\ archive' \in SUBSET {"approved", "rejected", "expired"} /\ dirty' = dirty
  BY Filed DEF ReaperFiles, Statuses, Terminal, TypeOK
<1>1. TypeOK'
  BY ProposalsAssumption, <1>u, <1>n, Closings DEF TypeOK, ReaperFiles
<1>2. Versioned'
  BY <1>u, <1>n, Closings DEF Versioned, ReaperFiles, InLock, Executing, Open, TypeOK
<1>3. Credit'
  BY OwedNat, <1>u, OwedStays, <1>n, Closings DEF Credit, ReaperFiles, Allowed, Executing,
      TypeOK
<1>4. FirstWins'
  BY <1>u, <1>n, Closings DEF FirstWins, ReaperFiles, InLock, Locked, TypeOK
<1>5. Denied'
  BY <1>u, <1>n, Closings DEF Denied, ReaperFiles, ToldYes, Cut, Executing, Locked, TypeOK
<1>6. Shown'
  BY <1>u, <1>n, Closings DEF Shown, ReaperFiles, Approving, Executing, TypeOK
<1>7. Granted'
  BY <1>u, <1>n, Closings DEF Granted, ReaperFiles, ToldAlways, TypeOK
<1>8. Counted' /\ Approvals'
  BY <1>u, Stays
<1> QED
  BY <1>1, <1>2, <1>3, <1>4, <1>5, <1>6, <1>7, <1>8

(* A sweep that fails changes no note.                                      *)
LEMMA ReaperFailsKeeps ==
  ASSUME IInv, ReaperFails
  PROVE  IInv'
<1> USE DEF IInv
<1>u. UNCHANGED <<kind, phase, note, archive, dirty, ledger, queued, tap, reactor,
    reviser, done>>
  BY DEF ReaperFails, vault, SameButReaper
<1>f. /\ faults' \in [{"fails", "stops", "cuts", "edits", "touches"} -> 0 .. MaxFaults]
      /\ Counted'
      /\ faults'.edits = faults.edits + 0
      /\ faults'.cuts = faults.cuts + IF FALSE THEN 1 ELSE 0
  BY Faulted DEF ReaperFails
<1>1. TypeOK'
  BY ProposalsAssumption, <1>u, <1>f DEF TypeOK, ReaperFails
<1>2. Counted'
  BY <1>f
<1>3. Credit'
  BY OwedNat, <1>u, <1>f, OwedStays DEF Credit, ReaperFails, Allowed, Executing, TypeOK
<1>4. Denied'
  BY <1>u, <1>f DEF Denied, ReaperFails, ToldYes, Cut, Executing, Locked, TypeOK
<1>5. Shown'
  BY <1>u, <1>f DEF Shown, ReaperFails, Approving, Executing, TypeOK
<1>6. Versioned' /\ Approvals' /\ FirstWins' /\ Granted'
  BY <1>u, Stays
<1> QED
  BY <1>1, <1>2, <1>3, <1>4, <1>5, <1>6

(* Nothing of the invariant reads the clock.                                *)
LEMMA TickKeeps ==
  ASSUME IInv, Tick
  PROVE  IInv'
<1> USE DEF IInv
<1>u. UNCHANGED <<kind, note, archive, dirty, ledger, queued, tap, reactor, reaper,
    reviser, done, faults>>
  BY DEF Tick, vault, actors, fixed
<1>1. TypeOK'
  BY ProposalsAssumption, <1>u DEF TypeOK, Tick
<1>2. Counted' /\ Versioned' /\ Credit' /\ Approvals' /\ FirstWins' /\ Denied' /\ Shown'
    /\ Granted'
  BY <1>u, Stays
<1> QED
  BY <1>1, <1>2

(* A stop loses what was owed, and counts what it cut off.                  *)
LEMMA StopKeeps ==
  ASSUME IInv, Stop
  PROVE  IInv'
<1> USE DEF IInv
<1>u. UNCHANGED <<kind, phase, note, archive, ledger, done>>
  BY DEF Stop
<1>f. /\ faults' \in [{"fails", "stops", "cuts", "edits", "touches"} -> 0 .. MaxFaults]
      /\ Counted'
      /\ faults'.edits = faults.edits + 0
      /\ faults'.cuts =
            faults.cuts + IF reactor.pc = "ran" \/ \E t \in Taps : InLock(t) /\ Cut(t)
                          THEN 1 ELSE 0
  BY Faulted DEF Stop, Cut
<1>t. /\ tap' \in [Taps -> [pc : TapPcs, choice : AnyChoice, copy : Note]]
      /\ \A t \in Taps : tap'[t] = IF InLock(t) THEN Untapped ELSE tap[t]
      /\ \A t \in Taps : ~InLock(t)'
  BY Closings DEF Stop, TypeOK, TapPcs, AnyChoice, InLock
<1>r. reactor' \in [pc : ReactorPcs, copy : Note] /\ reactor'.pc = "idle" /\ reactor'.copy = Absent
  BY Closings DEF Stop, ReactorPcs
<1>o. Owed' = 0
  <2>1. Recorded' = {}
    BY <1>t DEF Recorded, Approving, InLock
  <2> QED
    BY <2>1, FS_EmptySet DEF Owed
<1>1. TypeOK'
  <2>1. /\ queued' \in Nat /\ reaper' \in {"idle", "expiring", "filing"}
        /\ reviser' \in 0 .. MaxRevisions
    BY ProposalsAssumption DEF Stop
  <2>2. dirty' \in BOOLEAN
    BY Zenon DEF Stop
  <2> QED
    BY <1>u, <1>f, <1>t, <1>r, <2>1, <2>2 DEF TypeOK
<1>2. Counted'
  BY <1>f
<1>3. Versioned'
  BY <1>u, <1>f, <1>t, <1>r, Closings DEF Versioned, Stop, InLock, Executing, Open, TypeOK
<1>4. Credit'
  BY OwedNat, <1>u, <1>f, <1>t, <1>r, <1>o DEF Credit, Stop, Allowed, Executing, TypeOK
<1>5. Approvals'
  BY <1>u, <1>f, <1>t, <1>r DEF Approvals, Stop, TypeOK
<1>6. FirstWins'
  BY <1>u, <1>f, <1>t, <1>r, Closings DEF FirstWins, Stop, InLock, Locked, TypeOK
<1>7. Denied'
  BY <1>u, <1>f, <1>t, <1>r, Closings DEF Denied, Stop, InLock, ToldYes, Cut, Executing,
      Locked, TypeOK
<1>8. Shown'
  BY <1>u, <1>f, <1>t, <1>r, Closings DEF Shown, Stop, InLock, Approving, Executing,
      TypeOK
<1>9. Granted'
  BY <1>u, <1>f, <1>t, <1>r, Closings DEF Granted, Stop, InLock, ToldAlways, TypeOK
<1> QED
  BY <1>1, <1>2, <1>3, <1>4, <1>5, <1>6, <1>7, <1>8, <1>9

-----------------------------------------------------------------------------
(* The invariant holds.                                                      *)

(* A pending proposal that nobody has tapped has used nothing up.           *)
LEMMA InitIInv == Init => IInv
<1> SUFFICES ASSUME Init PROVE IInv
  OBVIOUS
<1> USE ProposalsAssumption, Closings DEF Init
<1>1. 0 \in 0 .. MaxFaults /\ 0 \in 0 .. MaxRevisions /\ 1 \in Versions
  BY DEF Versions
<1>2. Owed = 0
  <2>1. Recorded = {}
    BY DEF Recorded, Approving
  <2> QED
    BY <2>1, FS_EmptySet DEF Owed
<1>3. TypeOK
  <2>1. note \in Note /\ reactor \in [pc : ReactorPcs, copy : Note]
    BY <1>1 DEF Note, Statuses, Open, AnyChoice, ReactorPcs
  <2>2. tap \in [Taps -> [pc : TapPcs, choice : AnyChoice, copy : Note]]
    BY DEF TapPcs, AnyChoice
  <2>3. done \in [approved : SUBSET Versions, approvals : Nat, applied : Nat,
                  ran : SUBSET Versions, runs : Nat, granted : BOOLEAN]
    OBVIOUS
  <2>4. faults \in [{"fails", "stops", "cuts", "edits", "touches"} -> 0 .. MaxFaults]
    BY <1>1
  <2> QED
    BY <1>1, <2>1, <2>2, <2>3, <2>4 DEF TypeOK
<1>4. Counted /\ Versioned
  BY <1>1 DEF Counted, Versioned, InLock, Executing
<1>5. Credit /\ Approvals
  BY <1>2 DEF Credit, Approvals, Allowed, Executing
<1>6. FirstWins /\ Denied
  BY DEF FirstWins, Denied, InLock, Executing
<1>7. Shown /\ Granted
  BY DEF Shown, Granted, Approving, Executing
<1> QED
  BY <1>3, <1>4, <1>5, <1>6, <1>7 DEF IInv

(* Every step of a tap, a revision, an editor, the watcher, the reaction,   *)
(* the reaper and the clock, and every fault, keeps the invariant.          *)
LEMMA StepIInv == IInv /\ [Next]_vars => IInv'
<1> SUFFICES ASSUME IInv, [Next]_vars PROVE IInv'
  OBVIOUS
<1>1. ASSUME NEW t \in Taps, (\E c \in Choices[kind] : TapReads(t, c)) \/ TapFails(t)
      PROVE  IInv'
  BY <1>1, TapReadsKeeps, TapFailsKeeps
<1>2. CASE TapStep
  BY <1>2, TapAppliesKeeps, TapRecordsKeeps, TapWritesKeeps DEF TapStep
<1>3. CASE ReviseReads \/ ReviseWrites \/ ReviseFails
  BY <1>3, ReviseReadsKeeps, ReviseWritesKeeps, ReviseFailsKeeps
<1>4. ASSUME NEW s \in {"approved", "rejected"}, Edit(s) PROVE IInv'
  BY <1>4, EditKeeps
<1>5. CASE Touch \/ Settle
  BY <1>5, TouchKeeps, SettleKeeps
<1>6. CASE ReactorStep
  BY <1>6, ReactKeeps, ReactorChecksKeeps, ReactorRechecksKeeps, RunsKeeps, RunRefusedKeeps,
      ReactorMarksDoneKeeps, ReactorExpiresKeeps, ReactorFilesKeeps DEF ReactorStep
<1>7. CASE RunFails \/ ReactorFails
  BY <1>7, RunFailsKeeps, ReactorFailsKeeps
<1>8. CASE ReaperStep \/ ReaperFails
  BY <1>8, ReaperReadsKeeps, ReaperExpiresKeeps, ReaperFilesKeeps, ReaperFailsKeeps
      DEF ReaperStep
<1>9. CASE Tick \/ Stop
  BY <1>9, TickKeeps, StopKeeps
<1>10. CASE UNCHANGED vars
  <2>1. /\ UNCHANGED <<kind, phase, note, archive, dirty, ledger, queued>>
        /\ UNCHANGED <<tap, reactor, reaper, reviser, done, faults>>
    BY <1>10 DEF vars, vault, actors
  <2>2. TypeOK'
    BY <2>1 DEF IInv, TypeOK
  <2> QED
    BY <2>1, <2>2, Stays DEF IInv
<1> QED
  BY <1>1, <1>2, <1>3, <1>4, <1>5, <1>6, <1>7, <1>8, <1>9, <1>10 DEF Next

(* The invariant in every behaviour.                                        *)
THEOREM Invariant == Spec => []IInv
BY InitIInv, StepIInv, PTL DEF Spec

-----------------------------------------------------------------------------
(* What follows for the human.                                               *)

(* Every variable keeps its type, however many taps there are, and what the *)
(* daemon files it read as terminal.                                        *)
THEOREM Typed == Spec => []TypeOK
<1>1. IInv => TypeOK
  BY DEF IInv
<1> QED
  BY <1>1, Invariant, PTL

(* A run needs an approval that no other run used, unless one was cut off   *)
(* before it could be marked or the note was edited by hand                 *)
(* (guard_until_actionable, execute_approved).                              *)
THEOREM EachRunIsApproved == Spec => []RunsPerApproval
<1>1. ASSUME IInv PROVE RunsPerApproval
  <2>1. done.runs + Owed <= Allowed
    BY <1>1, OwedNat DEF IInv, Credit, TypeOK, Allowed, Executing
  <2>2. done.runs <= Allowed
    BY <1>1, <2>1, OwedNat DEF IInv, TypeOK, Allowed
  <2>3. done.runs > 0 => done.approvals > 0
    BY <1>1 DEF IInv, Approvals
  <2> QED
    BY <2>2, <2>3 DEF RunsPerApproval, Allowed
<1> QED
  BY <1>1, Invariant, PTL

(* The version that runs is one a tap approved, however revisions and taps  *)
(* cross (set_status, apply_revision).                                      *)
THEOREM ApprovedVersionRuns == Spec => []RunsWhatWasShown
<1>1. IInv => RunsWhatWasShown
  BY DEF IInv, Shown, RunsWhatWasShown
<1> QED
  BY <1>1, Invariant, PTL

(* Of the taps on one request, one at most is told that it decided          *)
(* (resolve_locked), however many tap and whatever fails.                   *)
THEOREM FirstDecisionWins == Spec => []OneDecision
<1>1. ASSUME IInv, Locked PROVE Cardinality(Told(AnyChoice)) <= 1
  <2>1. \A t, u \in Told(AnyChoice) : t = u
    BY <1>1 DEF IInv, FirstWins, Told
  <2>2. CASE Told(AnyChoice) = {}
    BY <2>2, FS_EmptySet
  <2>3. CASE Told(AnyChoice) # {}
    <3>1. PICK t \in Told(AnyChoice) : TRUE
      BY <2>3
    <3>2. Told(AnyChoice) = {t}
      BY <2>1, <3>1
    <3>3. Cardinality({t}) = 1
      BY FS_Singleton
    <3> QED
      BY <3>2, <3>3
  <2> QED
    BY <2>2, <2>3
<1>2. IInv => OneDecision
  BY <1>1 DEF OneDecision
<1> QED
  BY <1>2, Invariant, PTL

(* After a human was told of a denial nothing of the request runs           *)
(* (resolve_locked, execute_approved).                                      *)
THEOREM DenialsStand == Spec => []DeniedStands
<1>1. ASSUME IInv, Locked, faults.edits = 0, Told({"deny"}) # {}
      PROVE  done.runs = 0 /\ done.applied <= faults.cuts
  <2>1. PICK t \in Taps : tap[t].pc = "told" /\ tap[t].choice = "deny"
    BY <1>1 DEF Told
  <2>2. ~ToldYes /\ \A u \in Taps : ~Cut(u)
    BY <1>1, <2>1 DEF IInv, FirstWins, ToldYes, Cut, InLock
  <2>3. ~(done.runs > 0) /\ ~(done.applied > faults.cuts)
    BY <1>1, <2>2 DEF IInv, Denied
  <2>4. done.runs \in Nat /\ done.applied \in Nat /\ faults.cuts \in Nat
    BY <1>1, ProposalsAssumption DEF IInv, TypeOK
  <2> QED
    BY <2>3, <2>4
<1>2. IInv => DeniedStands
  BY <1>1 DEF DeniedStands
<1> QED
  BY <1>2, Invariant, PTL

(* A standing grant was asked for by a human who was told so, and its call  *)
(* ran (apply_approved_grant).                                              *)
THEOREM GrantsAreDecided == Spec => []GrantFollowsDecision
<1>1. ASSUME IInv, done.granted PROVE done.runs > 0 /\ Told({"always"}) # {}
  <2>1. done.granted = TRUE
    BY <1>1 DEF IInv, TypeOK
  <2> QED
    BY <1>1, <2>1 DEF IInv, Granted, ToldAlways, Told
<1>2. IInv => GrantFollowsDecision
  BY <1>1 DEF GrantFollowsDecision
<1> QED
  BY <1>2, Invariant, PTL

-----------------------------------------------------------------------------
(* No approval is forgotten.                                                 *)

(* A permission request before its deadline, with which nothing went wrong  *)
(* and whose note nobody edited by hand.                                    *)
Undisturbed ==
    /\ kind = "permission" /\ ~Expired
    /\ faults.fails = 0 /\ faults.stops = 0 /\ faults.edits = 0

(* The note says approved, by a human, and so does the ledger; the watcher  *)
(* has it to report, the daemon to read, or the loop is about to run it.    *)
OnItsWay ==
    /\ note.status = "approved" /\ note.by = "human" /\ ledger = "approved"
    /\ reactor.pc \in {"idle"} \cup Executing
    /\ dirty = TRUE \/ queued > 0 \/ reactor.pc \in Executing

(* Until it runs, nobody but the tap in the lock writes what a human is to  *)
(* decide or has approved.                                                  *)
Remembered ==
    /\ reaper = "idle"
    /\ \A t \in Taps : InLock(t) => note.status = "pending"
    /\ \A t \in Taps : Approving(t) => ledger = "approved"
    /\ note.status = "pending" => reactor.pc = "idle"
    /\ ToldYes => OnItsWay

KInv == IInv /\ (Undisturbed /\ done.runs = 0 => Remembered)

(* What went wrong, or was edited, stays so.                                *)
LEMMA Disturbs ==
  ASSUME TypeOK, NEW what \in {"fails", "stops", "edits", "touches"},
         NEW cut \in BOOLEAN, Fault(what, cut)
  PROVE  /\ what \in {"fails", "stops", "edits"} => ~ Undisturbed'
         /\ faults'.fails = 0 /\ faults'.stops = 0 /\ faults'.edits = 0 =>
               faults.fails = 0 /\ faults.stops = 0 /\ faults.edits = 0
<1> USE ProposalsAssumption
<1>1. faults.fails \in Nat /\ faults.stops \in Nat /\ faults.edits \in Nat
  BY DEF TypeOK
<1>2. /\ DOMAIN faults = {"fails", "stops", "cuts", "edits", "touches"}
      /\ faults' = [w \in DOMAIN faults |->
                       IF w = what \/ (w = "cuts" /\ cut) THEN faults[w] + 1 ELSE faults[w]]
  BY DEF TypeOK, Fault
<1>3. /\ faults'.edits = faults.edits + IF what = "edits" THEN 1 ELSE 0
      /\ faults'.fails = faults.fails + IF what = "fails" THEN 1 ELSE 0
      /\ faults'.stops = faults.stops + IF what = "stops" THEN 1 ELSE 0
  BY <1>1, <1>2
<1> QED
  BY <1>1, <1>3 DEF Undisturbed

(* A step that leaves all this alone.                                       *)
LEMMA Unconcerned ==
  ASSUME Remembered, UNCHANGED <<note, dirty, ledger, queued, tap, reactor, reaper>>
  PROVE  Remembered'
BY DEF Remembered, InLock, Approving, ToldYes, OnItsWay

(* The tap in the lock finds the note as it read it, and is the only one.   *)
LEMMA TapRemembers ==
  ASSUME IInv, Remembered, Undisturbed, IInv', NEW t \in Taps,
         (\E c \in Choices[kind] : TapReads(t, c)) \/ TapRecords(t) \/ TapWrites(t)
  PROVE  Remembered'
<1>1. /\ Locked /\ UNCHANGED <<kind, reactor, reaper, queued>>
      /\ \A u \in Taps \ {t} : tap'[u] = tap[u]
  BY DEF TapReads, TapRecords, TapWrites, fixed, Undisturbed, Locked, IInv, TypeOK
<1>2. \A u \in Taps \ {t} : InLock(u)' = InLock(u) /\ Approving(u)' = Approving(u)
  BY <1>1 DEF InLock, Approving
<1>3. ASSUME NEW c \in Choices[kind], TapReads(t, c) PROVE Remembered'
  <2>1. /\ note.status = "pending" /\ UNCHANGED <<note, dirty, ledger>>
        /\ tap'[t].pc = "decided" /\ tap[t].pc = "idle"
    BY <1>3 DEF TapReads, vault, IInv, TypeOK
  <2>2. ~ ToldYes'
    BY <1>1, <2>1 DEF ToldYes, IInv, FirstWins
  <2> QED
    BY <1>1, <1>2, <2>1, <2>2 DEF Remembered, Approving, InLock
<1>4. CASE TapRecords(t)
  <2>1. /\ InLock(t) /\ UNCHANGED <<note, dirty>>
        /\ tap'[t].pc = "recorded" /\ tap'[t].choice = tap[t].choice
    BY <1>4 DEF TapRecords, Recordable, InLock, vault, IInv, TypeOK
  <2>2. note.status = "pending" /\ ~ ToldYes'
    <3>1. note.status = "pending"
      BY <2>1 DEF Remembered
    <3> QED
      BY <1>1, <2>1, <3>1 DEF ToldYes, IInv, FirstWins
  <2>3. \A u \in Taps : Approving(u)' => ledger' = "approved"
    <3>1. \A u \in Taps \ {t} : ~ Approving(u)
      BY <1>1, <2>1 DEF IInv, FirstWins, InLock, Approving
    <3>2. Approving(t)' => ledger' = "approved"
      BY <1>4, <2>1 DEF TapRecords, Approving
    <3> QED
      BY <1>2, <3>1, <3>2
  <2> QED
    BY <1>1, <2>1, <2>2, <2>3 DEF Remembered
<1>5. CASE TapWrites(t)
  <2>1. /\ InLock(t) /\ tap[t].pc = "recorded" /\ UNCHANGED ledger
        /\ tap'[t].pc = "told" /\ tap'[t].choice = tap[t].choice
    BY <1>5 DEF TapWrites, InLock, IInv, TypeOK
  <2>2. note.status = "pending" /\ reactor.pc = "idle"
    BY <2>1 DEF Remembered
  <2>3. /\ \A u \in Taps : ~ InLock(u)' /\ ~ Approving(u)'
        /\ note'.status # "pending"
    BY <1>1, <2>1 DEF IInv, FirstWins, InLock, Approving, Locked
  <2>4. ASSUME ToldYes' PROVE OnItsWay'
    <3>1. tap[t].choice # "deny"
      BY <1>1, <2>1, <2>4 DEF ToldYes, IInv, FirstWins, Locked
    <3>2. ledger = "approved"
      BY <2>1, <3>1 DEF Remembered, Approving
    <3> DEFINE content == [tap[t].copy EXCEPT !.status = "approved", !.choice = tap[t].choice]
    <3>3. Decided(tap[t].copy, tap[t].choice) = content
      BY <3>1 DEF Decided, Undisturbed
    <3>4. content \in Note /\ content.status = "approved"
      BY DEF IInv, TypeOK, Note, Statuses, Open
    <3> HIDE DEF content
    <3>5. note' = [content EXCEPT !.by = "human"] /\ dirty' = TRUE
      BY <1>5, <3>3 DEF TapWrites, Write
    <3>6. note'.status = "approved" /\ note'.by = "human"
      BY <3>4, <3>5 DEF Note
    <3> QED
      BY <1>1, <2>1, <2>2, <3>2, <3>5, <3>6 DEF OnItsWay
  <2> QED
    BY <1>1, <2>3, <2>4 DEF Remembered
<1> QED
  BY <1>3, <1>4, <1>5

(* Before the deadline the loop takes an approved note from the queue to    *)
(* the run, and writes nothing on the way.                                  *)
LEMMA ReactorRemembers ==
  ASSUME IInv, Remembered, Undisturbed, ReactorStep, done'.runs = 0
  PROVE  Remembered'
<1>1. UNCHANGED <<kind, phase, ledger, tap, reaper>> /\ ~ Expired
  BY DEF ReactorStep, React, ReactorChecks, ReactorRechecks, Runs, RunRefused,
      ReactorMarksDone, ReactorExpires, ReactorFiles, SameButReactor, Undisturbed, fixed
<1>2. /\ \A t \in Taps : InLock(t)' = InLock(t) /\ Approving(t)' = Approving(t)
      /\ ToldYes' = ToldYes
  BY <1>1 DEF InLock, Approving, ToldYes
<1>3. CASE React
  <2>1. /\ reactor.pc = "idle" /\ queued > 0 /\ UNCHANGED <<note, dirty>>
    BY <1>3 DEF React, vault
  <2>2. note.status = "pending" => reactor'.pc = "idle"
    BY <1>1, <1>3 DEF React, Guarded, Terminal, Open, Idle
  <2>3. note.status = "approved" => reactor'.pc = "checking"
    BY <1>1, <1>3 DEF React, Guarded, Terminal, Open, Idle
  <2> QED
    BY <1>1, <1>2, <2>1, <2>2, <2>3 DEF Remembered, OnItsWay, Executing
<1>4. CASE ReactorChecks \/ ReactorRechecks
  <2>1. /\ reactor.pc \in Executing /\ UNCHANGED <<note, dirty, queued>>
        /\ LedgerApproves => reactor'.pc \in Executing
    BY <1>1, <1>4 DEF ReactorChecks, ReactorRechecks, Reactor, SameButReactor, vault, Executing,
        IInv, TypeOK
  <2>2. note.status # "pending"
    BY <2>1 DEF Remembered, Executing
  <2> QED
    BY <1>1, <1>2, <2>1, <2>2 DEF Remembered, OnItsWay, LedgerApproves
<1>5. CASE Runs
  <2>1. done.runs \in Nat /\ done'.runs = done.runs + 1
    BY <1>5 DEF Runs, IInv, TypeOK
  <2> QED
    BY <2>1
<1>6. CASE RunRefused
  BY <1>1, <1>6 DEF RunRefused
<1>7. CASE ReactorMarksDone \/ ReactorExpires \/ ReactorFiles
  <2>1. reactor.pc \notin {"idle"} \cup Executing
    BY <1>7 DEF ReactorMarksDone, ReactorExpires, ReactorFiles, Executing
  <2>2. ~ ToldYes /\ (\A t \in Taps : ~ InLock(t)) /\ note.status # "pending"
    BY <2>1 DEF Remembered, OnItsWay
  <2>3. note'.status # "pending"
    <3>1. CASE ReactorFiles
      <4>1. note' = note \/ note' = Absent
        BY <3>1 DEF ReactorFiles, File, vault
      <4> QED
        BY <2>2, <4>1, Closings
    <3>2. CASE ReactorMarksDone
      <4>1. Write(Closed("done"), "agent") /\ "done" \in Statuses
        BY <3>2 DEF ReactorMarksDone, Mark, Statuses, Terminal
      <4>2. note'.status = "done"
        BY <4>1, Closings, Written
      <4> QED
        BY <4>2
    <3>3. CASE ReactorExpires
      <4>1. Write(Closed("expired"), "agent") /\ "expired" \in Statuses
        BY <3>3 DEF ReactorExpires, Mark, Statuses, Terminal
      <4>2. note'.status = "expired"
        BY <4>1, Closings, Written
      <4> QED
        BY <4>2
    <3> QED
      BY <1>7, <3>1, <3>2, <3>3
  <2> QED
    BY <1>1, <1>2, <2>2, <2>3 DEF Remembered
<1> QED
  BY <1>3, <1>4, <1>5, <1>6, <1>7 DEF ReactorStep

(* A change of the note is reported if a human made it.                     *)
LEMMA WatcherRemembers ==
  ASSUME IInv, Remembered, Touch \/ Settle
  PROVE  Remembered'
<1>1. UNCHANGED <<note, ledger, tap, reactor, reaper>>
  BY DEF Touch, Settle, fixed, actors
<1>2. OnItsWay => OnItsWay'
  <2>1. CASE Touch
    BY <1>1, <2>1 DEF Touch, OnItsWay
  <2>2. CASE Settle
    <3>1. OnItsWay => note # Absent
      BY Closings DEF OnItsWay
    <3>2. OnItsWay => queued' = queued + 1 /\ queued \in Nat
      BY <2>2, <3>1 DEF Settle, Foreign, OnItsWay, IInv, TypeOK
    <3>3. OnItsWay => queued' > 0
      BY <3>2
    <3> QED
      BY <1>1, <3>3 DEF OnItsWay
  <2> QED
    BY <2>1, <2>2
<1> QED
  BY <1>1, <1>2 DEF Remembered, InLock, Approving, ToldYes

(* A request is still undisturbed only if it was before.                    *)
LEMMA WasUndisturbed ==
  ASSUME IInv, [Next]_vars, Undisturbed', done'.runs = 0
  PROVE  Undisturbed /\ done.runs = 0
<1>1. kind' = kind /\ phase \in 0 .. 2 /\ done.runs \in Nat
  BY DEF Next, TapReads, TapFails, TapStep, TapApplies, TapRecords, TapWrites, ReviseReads,
      ReviseWrites, ReviseFails, Edit, Touch, Settle, ReactorStep, React, ReactorChecks,
      ReactorRechecks, Runs, RunFails, RunRefused, ReactorMarksDone, ReactorExpires,
      ReactorFails, ReactorFiles, ReaperStep, ReaperReads, ReaperExpires, ReaperFiles,
      ReaperFails, Tick, Stop, vars, fixed, SameButReactor, SameButReaper, IInv, TypeOK
<1> DEFINE Fine == faults.fails = 0 /\ faults.stops = 0 /\ faults.edits = 0
<1>2. Fine
  <2>1. /\ faults'.fails = 0 /\ faults'.stops = 0 /\ faults'.edits = 0 /\ TypeOK
    BY DEF Undisturbed, IInv
  <2>2. ASSUME NEW t \in Taps, TapFails(t) PROVE Fine
    BY <2>1, <2>2, Disturbs DEF TapFails, Cut
  <2>3. CASE Stop
    <3>1. PICK cut : /\ cut = (reactor.pc = "ran" \/ \E t \in Taps : InLock(t) /\ Cut(t))
                     /\ Fault("stops", cut)
      BY <2>3 DEF Stop
    <3>2. cut \in BOOLEAN
      BY <3>1
    <3> QED
      BY <2>1, <3>1, <3>2, Disturbs
  <2>4. CASE ReactorFails
    <3>1. Fault("fails", reactor.pc = "ran") /\ (reactor.pc = "ran") \in BOOLEAN
      BY <2>4 DEF ReactorFails
    <3> QED
      BY <2>1, <3>1, Disturbs
  <2>5. CASE RunFails \/ ReaperFails
    BY <2>1, <2>5, Disturbs DEF RunFails, ReaperFails
  <2>6. ASSUME Touch \/ \E status \in {"approved", "rejected"} : Edit(status)
        PROVE  Fine
    BY <2>1, <2>6, Disturbs DEF Touch, Edit
  <2>7. CASE RunRefused
    BY <2>1, <2>7, Disturbs DEF RunRefused
  <2>8. CASE faults' = faults
    BY <2>1, <2>8
  <2> QED
    BY <2>2, <2>3, <2>4, <2>5, <2>6, <2>7, <2>8
    DEF Next, TapReads, TapStep, TapApplies, TapRecords, TapWrites, ReviseReads,
        ReviseWrites, ReviseFails, Settle, ReactorStep, React, ReactorChecks,
        ReactorRechecks, Runs, ReactorMarksDone, ReactorExpires, ReactorFiles, ReaperStep,
        ReaperReads, ReaperExpires, ReaperFiles, Tick, vars, fixed
<1>3. phase' = phase \/ phase' = phase + 1
  BY DEF Next, TapReads, TapFails, TapStep, TapApplies, TapRecords, TapWrites, ReviseReads,
      ReviseWrites, ReviseFails, Edit, Touch, Settle, ReactorStep, React, ReactorChecks,
      ReactorRechecks, Runs, RunFails, RunRefused, ReactorMarksDone, ReactorExpires,
      ReactorFails, ReactorFiles, ReaperStep, ReaperReads, ReaperExpires, ReaperFiles,
      ReaperFails, Tick, Stop, vars, fixed, SameButReactor, SameButReaper
<1>4. done'.runs = done.runs \/ done'.runs = done.runs + 1
  <2>1. CASE \E t \in Taps : TapApplies(t) \/ TapRecords(t)
    BY <2>1 DEF TapApplies, TapRecords, IInv, TypeOK
  <2>2. CASE Runs
    BY <2>2 DEF Runs, IInv, TypeOK
  <2>3. CASE done' = done
    BY <2>3
  <2> QED
    BY <2>1, <2>2, <2>3 DEF Next, TapReads, TapFails, TapStep, TapWrites, ReviseReads,
        ReviseWrites, ReviseFails, Edit, Touch, Settle, ReactorStep, React, ReactorChecks,
        ReactorRechecks, RunFails, RunRefused, ReactorMarksDone, ReactorExpires,
        ReactorFails, ReactorFiles, ReaperStep, ReaperReads, ReaperExpires, ReaperFiles,
        ReaperFails, Tick, Stop, vars, fixed, SameButReactor, SameButReaper
<1> QED
  BY <1>1, <1>2, <1>3, <1>4 DEF Undisturbed, Expired

(* No step forgets an approval.                                             *)
LEMMA StepRemembers == KInv /\ [Next]_vars => KInv'
<1> SUFFICES ASSUME KInv, [Next]_vars, Undisturbed', done'.runs = 0 PROVE Remembered'
  BY StepIInv DEF KInv
<1>1. IInv /\ IInv' /\ Undisturbed /\ done.runs = 0 /\ Remembered
  BY StepIInv, WasUndisturbed DEF KInv
<1>2. ASSUME NEW t \in Taps,
             (\E c \in Choices[kind] : TapReads(t, c)) \/ TapRecords(t) \/ TapWrites(t)
      PROVE  Remembered'
  BY <1>1, <1>2, TapRemembers
<1>3. ASSUME NEW t \in Taps, TapApplies(t) PROVE FALSE
  BY <1>1, <1>3 DEF TapApplies, Undisturbed
<1>4. ASSUME NEW t \in Taps, TapFails(t) PROVE FALSE
  BY <1>1, <1>4, Disturbs DEF TapFails, Cut, IInv
<1>5. CASE ReviseReads \/ ReviseWrites \/ ReviseFails
  <2>1. reviser = 0 /\ kind # "ordinary"
    BY <1>1 DEF IInv, FirstWins, Undisturbed, Locked
  <2> QED
    BY <1>5, <2>1 DEF ReviseReads, ReviseWrites, ReviseFails
<1>6. ASSUME NEW status \in {"approved", "rejected"}, Edit(status) PROVE FALSE
  BY <1>1, <1>6, Disturbs DEF Edit, IInv
<1>7. CASE Touch \/ Settle
  BY <1>1, <1>7, WatcherRemembers
<1>8. CASE ReactorStep
  BY <1>1, <1>8, ReactorRemembers
<1>9. CASE RunFails \/ ReaperFails
  BY <1>1, <1>9, Disturbs DEF RunFails, ReaperFails, IInv
<1>10. CASE ReactorFails
  <2>1. (reactor.pc = "ran") \in BOOLEAN
    OBVIOUS
  <2> QED
    BY <1>1, <1>10, <2>1, Disturbs DEF ReactorFails, IInv
<1>11. CASE ReaperStep
  <2>1. reaper = "idle" /\ phase = 0
    BY <1>1 DEF Remembered, Undisturbed, Expired, IInv, TypeOK
  <2> QED
    BY <1>11, <2>1 DEF ReaperStep, ReaperReads, ReaperExpires, ReaperFiles, Owns, Expired
<1>12. CASE Tick
  <2>1. phase' > 0
    BY <1>1, <1>12 DEF Tick, IInv, TypeOK
  <2> QED
    BY <2>1 DEF Undisturbed, Expired
<1>13. CASE Stop
  <2>1. PICK cut : /\ cut = (reactor.pc = "ran" \/ \E t \in Taps : InLock(t) /\ Cut(t))
                   /\ Fault("stops", cut)
    BY <1>13 DEF Stop
  <2>2. cut \in BOOLEAN
    BY <2>1
  <2> QED
    BY <1>1, <2>1, <2>2, Disturbs DEF IInv
<1>14. CASE UNCHANGED vars
  BY <1>1, <1>14, Unconcerned DEF vars, vault, actors
<1> QED
  BY <1>2, <1>3, <1>4, <1>5, <1>6, <1>7, <1>8, <1>9, <1>10, <1>11, <1>12, <1>13, <1>14
  DEF Next, TapStep

(* Of a request a human was told is approved: it ran, or it is on its way.  *)
ApprovalStands ==
    Undisturbed /\ Told({"once", "always"}) # {} => done.runs > 0 \/ OnItsWay

(* Once a human was told that a permission request is approved, it ran, its *)
(* deadline passed, something failed, or it is on its way, with the ledger  *)
(* to let it through: debounce, attribution, the queue and the reaper drop  *)
(* none (resolve_locked, handle_change, guard_until_actionable).            *)
THEOREM ApprovalsAreKept == Spec => []ApprovalStands
<1>1. Init => KInv
  <2> SUFFICES ASSUME Init PROVE Remembered
    BY InitIInv DEF KInv
  <2>1. reaper = "idle" /\ reactor.pc = "idle" /\ \A t \in Taps : tap[t].pc = "idle"
    BY DEF Init, Idle, Untapped
  <2> QED
    BY <2>1 DEF Remembered, InLock, Approving, ToldYes
<1>2. ASSUME KInv PROVE ApprovalStands
  <2>1. done.runs \in Nat
    BY <1>2 DEF KInv, IInv, TypeOK
  <2>2. Told({"once", "always"}) # {} => ToldYes
    BY DEF Told, ToldYes
  <2> QED
    BY <1>2, <2>1, <2>2 DEF ApprovalStands, KInv, Remembered
<1> QED
  BY <1>1, <1>2, StepRemembers, PTL DEF Spec
===============================================================================
