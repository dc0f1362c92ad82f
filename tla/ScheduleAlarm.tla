---------------------------- MODULE ScheduleAlarm ----------------------------
(***************************************************************************)
(* The durable alarm of one collection job                                 *)
(* (services/processor/src/schedule-alarm.ts) with the D1 rows it shares   *)
(* with the editor of the schedule, the editor of the maintenance rules and*)
(* the Processor tick (services/processor/src/schedule-store.ts).          *)
(*                                                                         *)
(* An instant is a number.  A schedule pattern is the set of its nominal   *)
(* instants, the maintenance rules are the set of instants they close.     *)
(* The alarm handler runs in steps: the concurrency block (read, reserve   *)
(* the next alarm, claim) and, outside it, the submission to the collector.*)
(* Between any two of them the object may be reset, the answer of D1 lost, *)
(* and every other actor may write.                                        *)
(***************************************************************************)
EXTENDS Integers, FiniteSets, FiniteSetsExt

CONSTANTS
  Patterns,     \* the patterns an operator may choose: sets of nominal instants
  Windows,      \* what the maintenance rules may close: sets of instants
  Horizon,      \* bound: time stops here
  Last,         \* bound: the last instant, a nominal one of every pattern
  MaxRevision,  \* bound: revisions of the schedule
  Skews,        \* what the editor's clock may differ from the object's by
  Lead,         \* the 20 minutes initializeSchedule leaves free
  RunLimit,     \* the platform ends an alarm handler after this
  AbandonAfter, \* markAbandonedOccurrences: the hour
  None          \* SQL NULL, no alarm

Instants == 0..Last

ASSUME Instance ==
  /\ Horizon \in Nat /\ Last \in Nat /\ Horizon < Last /\ MaxRevision \in Nat
  /\ Patterns # {} /\ \A p \in Patterns : p \subseteq Instants /\ Last \in p
  /\ Windows # {} /\ \A w \in Windows : w \subseteq 0..(Horizon - 1)
  /\ Skews \subseteq Int /\ \A s \in Skews : s =< 0
  /\ Lead \in Nat /\ Horizon + Lead < Last
  /\ RunLimit \in Nat /\ AbandonAfter \in Nat /\ RunLimit =< AbandonAfter
  /\ None \notin Int

VARIABLES
  now,
  enabled, revision, pattern, nextNominal, nextRun, \* the job's D1 row
  closed,      \* instants the maintenance rules of the job close
  occ,         \* status of each nominal's occurrence, or None
  startedAt,   \* its started_at
  submissions, \* how often the collector was asked to run it
  calm,        \* no reset and no failed statement comes any more
  alarm,       \* the object's alarm
  handler,     \* the running alarm handler
  recon        \* the running reconcile call

schedule == <<enabled, revision, pattern, nextNominal, nextRun>>
world == <<closed, calm>>
occurrences == <<occ, startedAt, submissions>>
vars == <<now, schedule, world, occurrences, alarm, handler, recon>>

Off == [at |-> "off"]
Terminal == {"completed", "failed", "uncertain"}

ASSUME NoRow == None \notin Terminal \cup {"started"}

\* What the handler and reconcile keep of the row they read.
Handlers ==
  {Off} \cup [at : {"entered"}, began : Instants]
  \cup [at : {"defers"}, began : Instants, rev : 0..MaxRevision, nominal : Instants, due : Instants]
  \cup [at : {"claims"}, began : Instants, read : Instants, rev : 0..MaxRevision,
        nominal : Instants, next : Instants, due : Instants]
  \cup [at : {"claimed", "submitted"}, began : Instants, nominal : Instants]
Reconciles == {Off} \cup [at : {"writes"}, rev : 0..MaxRevision, nominal : Instants, due : Instants]

TypeOK ==
  /\ now \in 0..Horizon
  /\ enabled \in BOOLEAN /\ revision \in 0..MaxRevision /\ pattern \in Patterns
  /\ nextNominal \in Instants \cup {None} /\ nextRun \in Instants \cup {None}
  /\ closed \in Windows /\ calm \in BOOLEAN
  /\ occ \in [Instants -> Terminal \cup {"started", None}]
  /\ startedAt \in [Instants -> Instants \cup {None}]
  /\ submissions \in [Instants -> Nat]
  /\ alarm \in Instants \cup {None}
  /\ handler \in Handlers /\ recon \in Reconciles

-----------------------------------------------------------------------------
(* The pure parts of schedule-model.ts. *)

\* nextNominal: strictly after the instant it is asked for.
NextNominal(p, t) == Min({n \in p : n > t})

AddWindows(t) == t + Cardinality(closed)

\* afterMaintenance: the end of the union of windows the instant lies in.
AfterMaintenance(t) == Min({u \in t..Last : u \notin closed})

Later(s, t) == IF s > t THEN s ELSE t

\* The block is free: neither the handler's nor reconcile's is running.
BlockFree == recon = Off /\ handler.at \notin {"defers", "claims"}

Init ==
  /\ now = 0
  /\ enabled \in BOOLEAN
  /\ revision = 0
  /\ pattern \in Patterns
  /\ nextNominal = None /\ nextRun = None
  /\ closed \in Windows /\ calm = FALSE
  /\ occ = [n \in Instants |-> None]
  /\ startedAt = [n \in Instants |-> None]
  /\ submissions = [n \in Instants |-> 0]
  /\ alarm = None
  /\ handler = Off /\ recon = Off

-----------------------------------------------------------------------------
(* The alarm handler. *)

\* The platform takes the alarm and starts the handler, one at a time.
AlarmFires ==
  /\ handler = Off /\ alarm # None /\ alarm =< now
  /\ alarm' = None
  /\ handler' = [at |-> "entered", began |-> now]
  /\ UNCHANGED <<now, schedule, world, occurrences, recon>>

DueUnchecked == Later(IF nextRun = None THEN nextNominal ELSE nextRun, now)

DueNext == AfterMaintenance(now + 1)

\* When the run the row and the rules allow may start.
Due == AfterMaintenance(Later(IF nextRun = None THEN nextNominal ELSE nextRun, now))

\* In the block: read the row and the rules, set the next alarm and go on to
\* claim, defer, or stop.
AlarmReads ==
  /\ handler.at = "entered" /\ BlockFree
  /\ \/ /\ ~enabled \/ nextNominal = None
        /\ alarm' = None
        /\ handler' = Off
     \/ /\ enabled /\ nextNominal # None /\ Due > now
        /\ alarm' = Due
        /\ handler' = [at |-> "defers", began |-> handler.began, rev |-> revision,
                       nominal |-> nextNominal, due |-> Due]
     \/ /\ enabled /\ nextNominal # None /\ Due =< now /\ nextNominal > now
        /\ alarm' = nextNominal
        /\ handler' = Off
     \/ /\ enabled /\ nextNominal # None /\ Due =< now /\ nextNominal =< now
        /\ LET next == NextNominal(pattern, now) IN
           /\ alarm' = AfterMaintenance(next)
           /\ handler' = [at |-> "claims", began |-> handler.began, read |-> now,
                          rev |-> revision, nominal |-> nextNominal,
                          next |-> next, due |-> AfterMaintenance(next)]
  /\ UNCHANGED <<now, schedule, world, occurrences, recon>>

MoveRunBlindly(seen) == nextRun' = seen.due

\* UPDATE ... SET next_run_at WHERE revision and next_nominal_at are unchanged.
MoveRun(seen) ==
  nextRun' = IF revision = seen.rev /\ nextNominal = seen.nominal THEN seen.due ELSE nextRun

AlarmDefers ==
  /\ handler.at = "defers"
  /\ MoveRun(handler)
  /\ handler' = Off
  /\ UNCHANGED <<now, enabled, revision, pattern, nextNominal, world, occurrences, alarm, recon>>

AnyConfig(seen) == TRUE

Unchanged(seen) == revision = seen.rev /\ nextNominal = seen.nominal

ClaimableAgain(seen) == Unchanged(seen) /\ enabled

\* The INSERT OR IGNORE of the claim would write its row.
Claimable(seen) == Unchanged(seen) /\ enabled /\ occ[seen.nominal] = None

\* The claim batch: the occurrence, and the row moved on to the next nominal.
ClaimBatch(seen) ==
  /\ IF Claimable(seen)
     THEN /\ occ' = [occ EXCEPT ![seen.nominal] = "started"]
          /\ startedAt' = [startedAt EXCEPT ![seen.nominal] = seen.read]
     ELSE UNCHANGED <<occ, startedAt>>
  /\ IF Unchanged(seen)
     THEN nextNominal' = seen.next /\ nextRun' = seen.due
     ELSE UNCHANGED <<nextNominal, nextRun>>

\* The batch commits and its answer arrives: the handler leaves the block.
ClaimWon ==
  /\ handler.at = "claims" /\ Claimable(handler)
  /\ ClaimBatch(handler)
  /\ handler' = [at |-> "claimed", began |-> handler.began, nominal |-> handler.nominal]
  /\ UNCHANGED <<now, enabled, revision, pattern, world, submissions, alarm, recon>>

\* It commits without a new occurrence: one left started for this nominal is
\* uncertain, and nothing is submitted.
ClaimRefused ==
  /\ handler.at = "claims" /\ ~Claimable(handler)
  /\ IF Unchanged(handler)
     THEN nextNominal' = handler.next /\ nextRun' = handler.due
     ELSE UNCHANGED <<nextNominal, nextRun>>
  /\ occ' = [occ EXCEPT ![handler.nominal] = IF @ = "started" THEN "uncertain" ELSE @]
  /\ handler' = Off
  /\ UNCHANGED <<now, enabled, revision, pattern, world, startedAt, submissions, alarm, recon>>

\* alarm() catches: recovery is armed explicitly, a minute from now.
Catch == /\ handler' = Off
         /\ alarm' = now + 1

\* A statement of the block fails, having run or not.
BlockFails ==
  /\ ~calm
  /\ \/ /\ handler.at = "claims"
        /\ ClaimBatch(handler) \/ UNCHANGED <<nextNominal, nextRun, occ, startedAt>>
     \/ /\ handler.at = "defers"
        /\ MoveRun(handler) \/ UNCHANGED nextRun
        /\ UNCHANGED <<nextNominal, occ, startedAt>>
     \/ /\ handler.at = "entered" /\ BlockFree
        /\ UNCHANGED <<nextNominal, nextRun, occ, startedAt>>
  /\ Catch
  /\ UNCHANGED <<now, enabled, revision, pattern, world, submissions, recon>>

\* target.runScheduled: the collector may contact the provider from here on.
Submit ==
  /\ handler.at = "claimed"
  /\ handler' = [handler EXCEPT !.at = "submitted"]
  /\ submissions' = [submissions EXCEPT ![handler.nominal] = @ + 1]
  /\ UNCHANGED <<now, schedule, world, occ, startedAt, alarm, recon>>

Record(n, outcome) == occ' = [occ EXCEPT ![n] = IF @ = "started" THEN outcome ELSE @]

\* The collector answered, or the call failed (uncertain), and the outcome is
\* written where the occurrence is still started.
Finish ==
  /\ handler.at = "submitted"
  /\ \E outcome \in Terminal : Record(handler.nominal, outcome)
  /\ handler' = Off
  /\ UNCHANGED <<now, schedule, world, startedAt, submissions, alarm, recon>>

\* The last statement fails, having run or not.
FinishFails ==
  /\ handler.at = "submitted" /\ ~calm
  /\ UNCHANGED occ \/ \E outcome \in Terminal : Record(handler.nominal, outcome)
  /\ Catch
  /\ UNCHANGED <<now, schedule, world, startedAt, submissions, recon>>

\* The object is reset: an alarm it had set stays, the platform retries the
\* handler it ended, or has retried it often enough.
Reset ==
  /\ ~calm
  /\ handler # Off \/ recon # Off
  /\ alarm' \in IF handler = Off THEN {alarm} ELSE {alarm, now}
  /\ handler' = Off /\ recon' = Off
  /\ UNCHANGED <<now, schedule, world, occurrences>>

-----------------------------------------------------------------------------
(* reconcile, called by the editor and by every bootstrap. *)

ReconcileReads ==
  /\ BlockFree
  /\ \/ /\ ~enabled \/ nextNominal = None
        /\ alarm' = None
        /\ UNCHANGED recon
     \/ /\ enabled /\ nextNominal # None
        /\ LET actual == AfterMaintenance(Later(AfterMaintenance(nextNominal), now)) IN
           /\ alarm' = actual
           /\ recon' = [at |-> "writes", rev |-> revision, nominal |-> nextNominal, due |-> actual]
  /\ UNCHANGED <<now, schedule, world, occurrences, handler>>

ReconcileWrites ==
  /\ recon.at = "writes"
  /\ MoveRun(recon)
  /\ recon' = Off
  /\ UNCHANGED <<now, enabled, revision, pattern, nextNominal, world, occurrences, alarm, handler>>

-----------------------------------------------------------------------------
(* The other writers of the rows. *)

\* updateSchedule: version-checked, its nominal computed on its own clock.
Edit ==
  /\ revision < MaxRevision
  /\ \E on \in BOOLEAN, p \in Patterns, skew \in Skews :
       LET nominal == NextNominal(p, now + skew) IN
       /\ enabled' = on
       /\ pattern' = p
       /\ nextNominal' = IF on THEN nominal ELSE None
       /\ nextRun' = IF on THEN AfterMaintenance(nominal) ELSE None
  /\ revision' = revision + 1
  /\ UNCHANGED <<now, world, occurrences, alarm, handler, recon>>

\* A maintenance rule is written, by the operator or a delegated call.
EditRules ==
  /\ closed' \in Windows \ {closed}
  /\ UNCHANGED <<now, calm, schedule, occurrences, alarm, handler, recon>>

\* initializeSchedule, in every bootstrap.
Initialize ==
  /\ enabled /\ nextNominal = None
  /\ nextNominal' = NextNominal(pattern, now + Lead)
  /\ nextRun' = AfterMaintenance(NextNominal(pattern, now + Lead))
  /\ UNCHANGED <<now, enabled, revision, pattern, world, occurrences, alarm, handler, recon>>

AbandonedAtOnce == {n \in Instants : occ[n] = "started" /\ startedAt[n] < now}

AbandonedAnyway == {n \in Instants : occ[n] # None /\ startedAt[n] + AbandonAfter < now}

AbandonedReversed == {n \in Instants : occ[n] = "started" /\ startedAt[n] > now + AbandonAfter}

Abandoned == {n \in Instants : occ[n] = "started" /\ startedAt[n] + AbandonAfter < now}

\* markAbandonedOccurrences, in every bootstrap.
MarkAbandoned ==
  /\ Abandoned # {}
  /\ occ' = [n \in Instants |-> IF n \in Abandoned THEN "uncertain" ELSE occ[n]]
  /\ UNCHANGED <<now, schedule, world, startedAt, submissions, alarm, handler, recon>>

AdvanceTime ==
  /\ now < Horizon
  /\ handler # Off => now - handler.began < RunLimit
  /\ now' = now + 1
  /\ UNCHANGED <<schedule, world, occurrences, alarm, handler, recon>>

-----------------------------------------------------------------------------
Handler == \/ AlarmFires \/ AlarmReads \/ AlarmDefers \/ ClaimWon \/ ClaimRefused
           \/ BlockFails \/ Submit \/ Finish \/ FinishFails

Next == \/ Handler \/ Reset
        \/ ReconcileReads \/ ReconcileWrites
        \/ Edit \/ EditRules \/ Initialize \/ MarkAbandoned
        \/ AdvanceTime

Spec == Init /\ [][Next]_vars

\* From here on nothing is reset and no statement fails.
Calms == /\ ~calm /\ calm' = TRUE
         /\ UNCHANGED <<now, schedule, closed, occurrences, alarm, handler, recon>>

\* Time passes, an alarm that is due fires, the tick comes back (Initialize,
\* MarkAbandoned, ReconcileReads), what has begun goes on, a block is not kept
\* waiting for ever by the other one, and outages end.  Nobody edits for
\* fairness' sake.
Fairness ==
  /\ WF_vars(AdvanceTime)
  /\ WF_vars(AlarmFires)
  /\ SF_vars(AlarmReads) /\ WF_vars(AlarmDefers)
  /\ WF_vars(ClaimWon) /\ WF_vars(ClaimRefused)
  /\ WF_vars(Submit) /\ WF_vars(Finish)
  /\ SF_vars(ReconcileReads) /\ WF_vars(ReconcileWrites)
  /\ WF_vars(Initialize) /\ WF_vars(MarkAbandoned)
  /\ WF_vars(Calms)

FairSpec == Init /\ [][Next \/ Calms]_vars /\ Fairness

-----------------------------------------------------------------------------
(* Properties. *)

\* A nominal instant is submitted at most once and only under its own claim,
\* through resets, retried alarms, lost answers and edits that bring the same
\* instant back (schedule-alarm.ts:52-54, "prevent a repeated provider
\* submission"): the occurrences are a ledger of at most one contact each.
Ledger == INSTANCE AtMostOnce WITH
            Items <- Instants,
            status <- [n \in Instants |-> CASE occ[n] = None -> "open"
                                            [] occ[n] = "started" -> "claimed"
                                            [] OTHER -> "settled"],
            contacts <- submissions

SubmitsOnce == Ledger!LedgerSpec

\* An outcome once written stays: a late answer never turns an occurrence that
\* was given up into a completed one, nor the sweep a completed one into an
\* uncertain one.
OutcomeIsFinal ==
  [][\A n \in Instants : occ[n] \in Terminal => occ'[n] = occ[n]]_vars

\* A claim is for a nominal of the configuration in force at that moment: an
\* edit that lands while the handler decides wins, and a disabled schedule
\* claims nothing.
ClaimsCurrentConfig ==
  [][\A n \in Instants : occ[n] = None /\ occ'[n] # None
       => enabled /\ nextNominal = n /\ n \in pattern]_vars

\* Nothing is claimed before its instant or inside a window its rules closed
\* when the handler read them, whatever stale next_run_at or alarm woke it.
Waits ==
  [][handler.at = "entered" /\ handler'.at = "claims"
       => handler'.nominal =< now /\ now \notin closed]_vars

\* next_run_at is never before next_nominal_at: a run time computed for an
\* earlier configuration or nominal is not written over a newer one, however
\* late its UPDATE comes.
RunFollowsNominal ==
  nextNominal # None => nextRun # None /\ nextRun >= nextNominal

\* The sweep never gives up an occurrence whose handler is still at it.
AbandonedIsOver ==
  [][\A n \in Instants : MarkAbandoned /\ occ'[n] # occ[n]
       => ~(handler.at \in {"claimed", "submitted"} /\ handler.nominal = n)]_vars

\* An enabled schedule gets its turn: its next nominal, once reached, is
\* claimed or replaced, whatever alarm was lost on the way.
ReachedIsClaimed ==
  \A n \in 0..Horizon :
    enabled /\ nextNominal = n ~> occ[n] # None \/ nextNominal # n

\* A claim does not stay open: it gets its outcome or is given up.
StartedSettles ==
  \A n \in 0..Horizon :
    occ[n] = "started" /\ startedAt[n] + AbandonAfter < Horizon ~> occ[n] \in Terminal
=============================================================================
