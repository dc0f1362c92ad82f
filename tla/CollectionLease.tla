--------------------------- MODULE CollectionLease ---------------------------
(***************************************************************************)
(* The collection execution lease of one source                            *)
(* (packages/collection/src/schedule-lease.ts, ADR 0085), the Processor    *)
(* tick that frees a silent lease (expireStaleLeases) and the operator     *)
(* that releases one (releaseCollectionLease), both in                     *)
(* services/processor/src/schedule-store.ts.                               *)
(*                                                                         *)
(* Time is discrete.  Nothing here reads a clock: every instant the code   *)
(* stores is kept as its age, which one step, Advance, grows for all of    *)
(* them at once, and every timer as the time it still has to run.  Ages    *)
(* stop growing at AgeCap, above every bound the code compares with.       *)
(* Advance may not pass a timer that is due: timers of a live isolate fire.*)
(*                                                                         *)
(* A member of Execs is one call of withCollectionLease and, at the same   *)
(* time, the random reference it draws; a call that ended may be reused    *)
(* for a later one once no trace of its reference is left.                 *)
(***************************************************************************)
EXTENDS Integers, FiniteSets

CONSTANTS
  Execs,          \* calls of withCollectionLease for this source
  Stubborn,       \* calls whose execution a forced stop does not end
  OldRef,         \* the reference of a build that writes no heartbeat
  Free,           \* lease_ref IS NULL
  None,           \* SQL NULL, or nothing seen
  Beat,           \* LEASE_TIMING.heartbeatMs
  Loss,           \* LEASE_TIMING.heartbeatLossMs
  Deadline,       \* LEASE_TIMING.deadlineMs
  Grace,          \* LEASE_TIMING.graceMs
  ClaimWait,      \* external: D1 answers or fails a statement within this
  StaleAfter,     \* LEASE_STALE_MINUTES
  LegacyAfter,    \* LEGACY_LEASE_STALE_MINUTES
  ReleaseAttempts,\* LEASE_RELEASE_ATTEMPTS
  StartAges,      \* ages a fresh started_at can have: minus the clock skews
  MaxBeats,       \* bound: heartbeats of one call in flight at once
  AgeCap          \* bound: ages stop growing here

Larger(m, n) == IF m > n THEN m ELSE n

\* The longest a live holder goes without a confirmed heartbeat before it
\* aborts, counted from the moment that heartbeat was sent.
Quiet == Larger(ClaimWait, Loss) + Beat

ASSUME Names == /\ Stubborn \subseteq Execs
                /\ OldRef \notin Execs
                /\ Free \notin Execs \cup {OldRef}
                /\ None \notin Execs \cup {OldRef, Free}
                /\ None \notin Int

ASSUME Durations ==
  /\ Beat \in Nat \ {0} /\ Loss \in Nat \ {0} /\ Deadline \in Nat \ {0}
  /\ Grace \in Nat /\ ClaimWait \in Nat /\ ReleaseAttempts \in Nat \ {0}
  /\ StaleAfter \in Nat /\ LegacyAfter \in Nat /\ AgeCap \in Nat /\ MaxBeats \in Nat
  /\ StartAges \subseteq Int /\ \A a \in StartAges : a < AgeCap

\* The margin ADR 0085 argues for: a holder that cannot write has stopped
\* before its lease can be called stale.
ASSUME Margin == /\ Quiet + Grace =< StaleAfter
                 /\ StaleAfter =< LegacyAfter
                 /\ LegacyAfter < AgeCap

VARIABLES
  leaseRef,   \* lease_ref
  startAge,   \* age of started_at (the claiming isolate's clock)
  hbAge,      \* age of heartbeat_at (D1's clock)
  phase,      \* where each call is
  beatAge,    \* age of the call's lastBeatMs
  toBeat,     \* until its next heartbeat
  toDeadline, \* until its deadline
  stop,       \* "no", "aborting" (signal aborted), "forced" (grace is over)
  toForce,    \* until the grace period of an abort is over
  beats,      \* its heartbeats in flight
  attempts,   \* release statements it may still send
  lostAge,    \* since an operator released its lease under it
  tickSeen,   \* the reference the tick's SELECT found stale
  opSeen      \* the reference on the operator's page

row == <<leaseRef, startAge, hbAge>>
timers == <<toBeat, toDeadline, stop, toForce>>
outside == <<tickSeen, opSeen>>
vars == <<row, phase, beatAge, timers, beats, attempts, lostAge, outside>>

Ages == 0..AgeCap
Refs == Execs \cup {OldRef}
Answers == [age : Ages, res : {"sent", "ok", "gone"}]
Claiming == {"claimSent", "claimWon", "claimRefused"}
Phases == Claiming \cup {"idle", "running", "releasing", "ended"}

TypeOK ==
  /\ leaseRef \in Refs \cup {Free}
  /\ startAge \in {a \in Int : a =< AgeCap} \cup {None}
  /\ hbAge \in Ages \cup {None}
  /\ phase \in [Execs -> Phases]
  /\ beatAge \in [Execs -> Ages]
  /\ toBeat \in [Execs -> 0..Beat]
  /\ toDeadline \in [Execs -> 0..Deadline]
  /\ stop \in [Execs -> {"no", "aborting", "forced"}]
  /\ toForce \in [Execs -> 0..Grace]
  /\ beats \in [Execs -> SUBSET Answers]
  /\ attempts \in [Execs -> 0..ReleaseAttempts]
  /\ lostAge \in [Execs -> Ages \cup {None}]
  /\ tickSeen \in Refs \cup {None}
  /\ opSeen \in Refs \cup {None}

-----------------------------------------------------------------------------
(* The lease row. *)

AnyHeartbeat == hbAge # None

\* A heartbeat written by the present holder's build (OWN_HEARTBEAT).
OwnHeartbeat == hbAge # None /\ (startAge = None \/ hbAge =< startAge)

OnlyLegacyStale == leaseRef # Free /\ ~OwnHeartbeat /\ startAge > LegacyAfter

\* STALE_LEASE: silent for longer than StaleAfter or, for a claim that wrote
\* no heartbeat, older than LegacyAfter.
StaleLease == /\ leaseRef # Free
              /\ \/ OwnHeartbeat /\ hbAge > StaleAfter
                 \/ ~OwnHeartbeat /\ startAge > LegacyAfter

ClearRow == /\ leaseRef' = Free
            /\ startAge' = None
            /\ hbAge' = None

ClearAny(e) == ClearRow

\* RELEASE_OWN as the statement runs: the reference is part of its WHERE.
ClearOwn(e) == IF leaseRef = e THEN ClearRow ELSE UNCHANGED row

\* A hold a person ends under a call that won it and may still act on it.
Losing(e) == phase[e] \in {"claimWon", "running"}

Init ==
  /\ leaseRef \in {Free, OldRef}
  /\ IF leaseRef = Free THEN startAge = None ELSE startAge \in StartAges
  /\ hbAge \in {None} \cup (Ages \cap {1})
  /\ phase = [e \in Execs |-> "idle"]
  /\ beatAge = [e \in Execs |-> 0]
  /\ toBeat = [e \in Execs |-> 0]
  /\ toDeadline = [e \in Execs |-> 0]
  /\ stop = [e \in Execs |-> "no"]
  /\ toForce = [e \in Execs |-> 0]
  /\ beats = [e \in Execs |-> {}]
  /\ attempts = [e \in Execs |-> 0]
  /\ lostAge = [e \in Execs |-> None]
  /\ tickSeen = None
  /\ opSeen = None

\* The action is over: timers are cleared, nothing hears a heartbeat's answer
\* any more, and a heartbeat still on its way may yet be written.
StopActing(e) == /\ toBeat' = [toBeat EXCEPT ![e] = 0]
                 /\ toDeadline' = [toDeadline EXCEPT ![e] = 0]
                 /\ stop' = [stop EXCEPT ![e] = "no"]
                 /\ toForce' = [toForce EXCEPT ![e] = 0]
                 /\ beatAge' = [beatAge EXCEPT ![e] = 0]
                 /\ lostAge' = [lostAge EXCEPT ![e] = None]
                 /\ beats' = [beats EXCEPT ![e] = {b \in @ : b.res = "sent"}]

-----------------------------------------------------------------------------
(* The claim. *)

\* No row, statement or page still carries the reference.
Untraced(e) == leaseRef # e /\ beats[e] = {} /\ tickSeen # e /\ opSeen # e

SendClaim(e) ==
  /\ phase[e] \in {"idle", "ended"} /\ Untraced(e)
  /\ phase' = [phase EXCEPT ![e] = "claimSent"]
  /\ UNCHANGED <<row, beatAge, timers, beats, attempts, lostAge, outside>>

\* D1 runs the guarded UPDATE; started_at is the isolate's clock, heartbeat_at
\* D1's.
ExecuteClaim(e) ==
  /\ phase[e] = "claimSent"
  /\ \/ /\ leaseRef = Free
        /\ leaseRef' = e
        /\ startAge' \in StartAges
        /\ hbAge' = 0
        /\ phase' = [phase EXCEPT ![e] = "claimWon"]
     \/ /\ leaseRef # Free
        /\ phase' = [phase EXCEPT ![e] = "claimRefused"]
        /\ UNCHANGED row
  /\ UNCHANGED <<beatAge, timers, beats, attempts, lostAge, outside>>

\* The answer arrives: the call starts its action and its timers.
ClaimAnswered(e) ==
  /\ phase[e] = "claimWon"
  /\ phase' = [phase EXCEPT ![e] = "running"]
  /\ toBeat' = [toBeat EXCEPT ![e] = Beat]
  /\ toDeadline' = [toDeadline EXCEPT ![e] = Deadline]
  /\ UNCHANGED <<row, beatAge, stop, toForce, beats, attempts, lostAge, outside>>

\* changes <> 1: collection_busy_or_uncertain, and the call is over.
ClaimBusy(e) ==
  /\ phase[e] = "claimRefused"
  /\ phase' = [phase EXCEPT ![e] = "ended"]
  /\ StopActing(e)
  /\ UNCHANGED <<row, attempts, outside>>

\* The claim fails, or its answer is lost: the call clears its own reference.
ClaimLost(e) ==
  /\ phase[e] \in Claiming
  /\ phase' = [phase EXCEPT ![e] = "releasing"]
  /\ attempts' = [attempts EXCEPT ![e] = ReleaseAttempts]
  /\ StopActing(e)
  /\ UNCHANGED <<row, outside>>

-----------------------------------------------------------------------------
(* The holder's timers. *)

\* Aborts the action's signal and starts the grace timer, once.
Abort(e) ==
  /\ stop' = [stop EXCEPT ![e] = IF @ = "no" THEN "aborting" ELSE @]
  /\ toForce' = [toForce EXCEPT ![e] = IF stop[e] = "no" THEN Grace ELSE @]

AbortIf(e, lost) == IF lost THEN Abort(e) ELSE UNCHANGED <<stop, toForce>>

NeverSilent(e) == FALSE

Silent(e) == beatAge[e] >= Loss

\* Every interval: abort when silent for too long, then send a heartbeat.
BeatTick(e) ==
  /\ phase[e] = "running" /\ toBeat[e] = 0
  /\ AbortIf(e, Silent(e))
  /\ toBeat' = [toBeat EXCEPT ![e] = Beat]
  /\ beats' = [beats EXCEPT ![e] =
                 IF Cardinality(@) < MaxBeats
                 THEN @ \cup {[age |-> 0, res |-> "sent"]} ELSE @]
  /\ UNCHANGED <<row, phase, beatAge, toDeadline, attempts, lostAge, outside>>

DeadlineFires(e) ==
  /\ phase[e] = "running" /\ toDeadline[e] = 0 /\ stop[e] = "no"
  /\ Abort(e)
  /\ UNCHANGED <<row, phase, beatAge, toBeat, toDeadline, beats, attempts, lostAge, outside>>

\* A grace that waits for an action which nothing ends.
ForceWaits(e) ==
  /\ phase[e] = "running" /\ stop[e] = "aborting" /\ toForce[e] = 0
  /\ e \notin Stubborn
  /\ phase' = [phase EXCEPT ![e] = "ended"]
  /\ StopActing(e)
  /\ UNCHANGED <<row, attempts, outside>>

\* The grace is over: the call fails and, unless it is stubborn, its
\* execution ends with it, the lease left as it is.
ForceFires(e) ==
  /\ phase[e] = "running" /\ stop[e] = "aborting" /\ toForce[e] = 0
  /\ \/ /\ e \in Stubborn
        /\ stop' = [stop EXCEPT ![e] = "forced"]
        /\ UNCHANGED <<phase, beatAge, toBeat, toDeadline, toForce, beats, lostAge>>
     \/ /\ e \notin Stubborn
        /\ phase' = [phase EXCEPT ![e] = "ended"]
        /\ StopActing(e)
  /\ UNCHANGED <<row, attempts, outside>>

\* D1 runs a heartbeat UPDATE that names source and reference.
BeatWritten(e) ==
  /\ \E b \in beats[e] :
       /\ b.res = "sent"
       /\ hbAge' = IF leaseRef = e THEN 0 ELSE hbAge
       /\ beats' = [beats EXCEPT ![e] = (@ \ {b}) \cup
              IF phase[e] = "running"
              THEN {[b EXCEPT !.res = IF leaseRef = e THEN "ok" ELSE "gone"]} ELSE {}]
  /\ UNCHANGED <<leaseRef, startAge, phase, beatAge, timers, attempts, lostAge, outside>>

\* Its answer arrives; the moment it was sent is what counts.
BeatAnswered(e) ==
  /\ \E b \in beats[e] :
       /\ phase[e] = "running" /\ b.res # "sent"
       /\ beats' = [beats EXCEPT ![e] = @ \ {b}]
       /\ beatAge' = IF b.res = "ok" /\ b.age < beatAge[e]
                     THEN [beatAge EXCEPT ![e] = b.age] ELSE beatAge
       /\ AbortIf(e, b.res = "gone")
  /\ UNCHANGED <<row, phase, toBeat, toDeadline, attempts, lostAge, outside>>

\* It fails, run or not, or its answer is lost.
BeatFailed(e) ==
  /\ \E b \in beats[e] : beats' = [beats EXCEPT ![e] = @ \ {b}]
  /\ AbortIf(e, phase[e] = "running" /\ Silent(e))
  /\ UNCHANGED <<row, phase, beatAge, toBeat, toDeadline, attempts, lostAge, outside>>

-----------------------------------------------------------------------------
(* The end of a call. *)

\* The action settles, well or badly: timers stop and the release begins.
Settle(e) ==
  /\ phase[e] = "running"
  /\ phase' = [phase EXCEPT ![e] = "releasing"]
  /\ attempts' = [attempts EXCEPT ![e] = ReleaseAttempts]
  /\ StopActing(e)
  /\ UNCHANGED <<row, outside>>

ReleaseAnswered(e) ==
  /\ phase[e] = "releasing"
  /\ ClearOwn(e)
  /\ phase' = [phase EXCEPT ![e] = "ended"]
  /\ attempts' = [attempts EXCEPT ![e] = 0]
  /\ UNCHANGED <<beatAge, timers, beats, lostAge, outside>>

ReleaseForever(e) ==
  /\ phase[e] = "releasing"
  /\ ClearOwn(e) \/ UNCHANGED row
  /\ attempts' = [attempts EXCEPT ![e] = @ - 1]
  /\ UNCHANGED <<phase, beatAge, timers, beats, lostAge, outside>>

\* The statement fails, or runs and its answer is lost; retried while
\* attempts are left, then the lease stays as it is.
ReleaseUnheard(e) ==
  /\ phase[e] = "releasing" /\ attempts[e] > 0
  /\ ClearOwn(e) \/ UNCHANGED row
  /\ attempts' = [attempts EXCEPT ![e] = @ - 1]
  /\ phase' = [phase EXCEPT ![e] = IF attempts[e] = 1 THEN "ended" ELSE "releasing"]
  /\ UNCHANGED <<beatAge, timers, beats, lostAge, outside>>

\* The isolate or the object stops between any two steps.
Crash(e) ==
  /\ phase[e] \in Claiming \cup {"running", "releasing"}
  /\ phase' = [phase EXCEPT ![e] = "ended"]
  /\ attempts' = [attempts EXCEPT ![e] = 0]
  /\ StopActing(e)
  /\ UNCHANGED <<row, outside>>

-----------------------------------------------------------------------------
(* A build that predates the heartbeat: its claim and its release leave     *)
(* heartbeat_at as it was, and started_at is its isolate's clock.  External.*)

OldClaim ==
  /\ leaseRef = Free
  /\ leaseRef' = OldRef
  /\ startAge' \in StartAges
  /\ UNCHANGED <<hbAge, phase, beatAge, timers, beats, attempts, lostAge, outside>>

OldRelease ==
  /\ leaseRef = OldRef
  /\ leaseRef' = Free
  /\ startAge' = None
  /\ UNCHANGED <<hbAge, phase, beatAge, timers, beats, attempts, lostAge, outside>>

-----------------------------------------------------------------------------
(* The Processor's tick and the operator. *)

TickSelect ==
  /\ tickSeen = None /\ StaleLease
  /\ tickSeen' = leaseRef
  /\ UNCHANGED <<row, phase, beatAge, timers, beats, attempts, lostAge, opSeen>>

ExpireBlindly ==
  /\ tickSeen # None
  /\ ClearRow
  /\ tickSeen' = None
  /\ UNCHANGED <<phase, beatAge, timers, beats, attempts, lostAge, opSeen>>

\* The UPDATE names the reference the SELECT read and checks again.
TickExpire ==
  /\ tickSeen # None
  /\ IF leaseRef = tickSeen /\ StaleLease THEN ClearRow ELSE UNCHANGED row
  /\ tickSeen' = None
  /\ UNCHANGED <<phase, beatAge, timers, beats, attempts, lostAge, opSeen>>

\* The tick stops, or its batch fails, between the two statements.
TickFails ==
  /\ tickSeen # None
  /\ tickSeen' = None
  /\ UNCHANGED <<row, phase, beatAge, timers, beats, attempts, lostAge, opSeen>>

OpSees ==
  /\ leaseRef \notin {Free, opSeen}
  /\ opSeen' = leaseRef
  /\ UNCHANGED <<row, phase, beatAge, timers, beats, attempts, lostAge, tickSeen>>

\* The operator confirms, rightly or wrongly, that the execution stopped.  The
\* request names what the page showed, however long ago.
OpRelease ==
  /\ opSeen # None
  /\ opSeen' = None
  /\ IF leaseRef \in {opSeen, Free} THEN ClearRow ELSE UNCHANGED row
  /\ lostAge' = [e \in Execs |->
       IF leaseRef = e /\ opSeen = e /\ Losing(e) THEN 0 ELSE lostAge[e]]
  /\ UNCHANGED <<phase, beatAge, timers, beats, attempts, tickSeen>>

-----------------------------------------------------------------------------
(* Time. *)

Older(age) == IF age < AgeCap THEN age + 1 ELSE age
OlderOrNone(age) == IF age = None THEN None ELSE Older(age)
Sooner(left) == IF left = 0 THEN 0 ELSE left - 1

\* Something of this call happens before time passes.
TimerDue(e) == \/ phase[e] \in Claiming /\ beatAge[e] >= ClaimWait
               \/ /\ phase[e] = "running"
                  /\ \/ toBeat[e] = 0
                     \/ stop[e] = "no" /\ toDeadline[e] = 0
                     \/ stop[e] = "aborting" /\ toForce[e] = 0

Advance ==
  /\ \A e \in Execs : ~TimerDue(e)
  /\ startAge' = OlderOrNone(startAge)
  /\ hbAge' = OlderOrNone(hbAge)
  /\ beatAge' = [e \in Execs |-> IF phase[e] \in Claiming \cup {"running"}
                                 THEN Older(beatAge[e]) ELSE beatAge[e]]
  /\ toBeat' = [e \in Execs |-> Sooner(toBeat[e])]
  /\ toDeadline' = [e \in Execs |-> Sooner(toDeadline[e])]
  /\ toForce' = [e \in Execs |-> Sooner(toForce[e])]
  /\ beats' = [e \in Execs |-> IF phase[e] = "running"
                               THEN {[b EXCEPT !.age = Older(@)] : b \in beats[e]}
                               ELSE beats[e]]
  /\ lostAge' = [e \in Execs |-> OlderOrNone(lostAge[e])]
  /\ UNCHANGED <<leaseRef, phase, stop, attempts, outside>>

-----------------------------------------------------------------------------
Call(e) ==
  \/ SendClaim(e) \/ ExecuteClaim(e) \/ ClaimAnswered(e) \/ ClaimBusy(e) \/ ClaimLost(e)
  \/ BeatTick(e) \/ DeadlineFires(e) \/ ForceFires(e)
  \/ BeatWritten(e) \/ BeatAnswered(e) \/ BeatFailed(e)
  \/ Settle(e) \/ ReleaseAnswered(e) \/ ReleaseUnheard(e) \/ Crash(e)

Others == \/ OldClaim \/ OldRelease \/ TickSelect \/ TickExpire \/ TickFails
          \/ OpSees \/ OpRelease

Next == (\E e \in Execs : Call(e)) \/ Others \/ Advance

Spec == Init /\ [][Next]_vars

\* What a live call is waiting for: the end of a D1 call, or a due timer.
Awaited(e) ==
  \/ ExecuteClaim(e) \/ ClaimAnswered(e) \/ ClaimBusy(e) \/ ClaimLost(e)
  \/ BeatTick(e) \/ DeadlineFires(e) \/ ForceFires(e)
  \/ ReleaseAnswered(e) \/ ReleaseUnheard(e)

\* Time goes on, a live isolate's timers and its D1 calls come to an end, and
\* the tick comes back and is not failed for ever.  No claim is ever sent, no
\* heartbeat answered, no action settled and no lease released by an operator
\* for fairness' sake.
Fairness ==
  /\ SF_vars(Advance)
  /\ WF_vars(TickSelect)
  /\ SF_vars(TickExpire)
  /\ \A e \in Execs : WF_vars(Awaited(e))

FairSpec == Spec /\ Fairness

-----------------------------------------------------------------------------
(* Properties. *)

\* Calls that may be contacting the provider for a caller that still waits.
Active(e) == phase[e] = "running" /\ stop[e] # "forced"

\* Two provider attempts for one source never overlap, unless a person
\* released the lease under one of them (schedule-lease.ts:3-4): no claim,
\* lost answer, slow heartbeat, retry, crash or expiry gets there.
MutualExclusion ==
  \A e, f \in Execs : Active(e) /\ Active(f) /\ e # f
                        => lostAge[e] # None \/ lostAge[f] # None

\* The lease stays with its call for as long as the action runs, the stubborn
\* ones included, unless a person released it or no heartbeat got through for
\* longer than StaleAfter (schedule-lease.ts:15-17, the ADR's open limit).
LeaseCoversAction ==
  \A e \in Execs :
    phase[e] = "running" /\ lostAge[e] = None /\ beatAge[e] =< StaleAfter
      => leaseRef = e

\* An execution whose lease a person released under it stops being active
\* within the same margin: a heartbeat that was written before the release
\* and answered after it cannot keep it going.
ReleasedCallStops ==
  \A e \in Execs : Active(e) /\ lostAge[e] # None => lostAge[e] =< Quiet + Grace

\* A step that takes the lease from a call is that call's own release, the
\* tick's on a row that is stale at that moment, or the operator's with that
\* very reference; a reference is never overwritten by another.
OnlyKnownReleases ==
  [][\A e \in Refs : leaseRef = e /\ leaseRef' # e =>
       /\ leaseRef' = Free
       /\ \/ e \in Execs /\ phase[e] = "releasing"
          \/ e = OldRef
          \/ tickSeen = e /\ hbAge # None /\ hbAge > StaleAfter
          \/ opSeen = e]_vars

\* A claim without heartbeats whose started_at is later than the heartbeat it
\* found on the row, and whose hour is not over.
HourRule == /\ leaseRef = OldRef
            /\ hbAge = None \/ hbAge > startAge
            /\ startAge =< LegacyAfter

\* Such a claim keeps its hour: no heartbeat of an earlier holder and no tick
\* moves it to the short rule or frees it before.  Only the claim of an
\* isolate that lags D1, by at least the time between that heartbeat and the
\* claim, is judged by the heartbeat, and is not freed before its own
\* started_at is older than StaleAfter either (schedule-store.ts:154-164).
OldClaimKeepsItsHour ==
  [][/\ HourRule => \/ HourRule'
                    \/ leaseRef' = OldRef /\ startAge' > LegacyAfter
                    \/ leaseRef' = Free /\ ~TickExpire
     /\ TickExpire /\ leaseRef = OldRef /\ leaseRef' = Free => startAge > StaleAfter]_vars

\* No call keeps its source for ever, though its action ignores the abort or
\* outlives the forced stop, and though it crashed, was forced to end, or every
\* release it tried failed: again and again the lease is not held by a call
\* whose caller waits, nor by one that is over.  (What becomes of a call whose
\* lease a person released is ReleasedCallStops.)
NoCallKeepsTheLease ==
  []<>(\A e \in Execs : leaseRef = e => ~Active(e) /\ phase[e] # "ended")

-----------------------------------------------------------------------------
\* The lease implements the lock: a hold ends under an active call only by the
\* operator's hand.
Lock == INSTANCE SourceLock WITH
          Holders <- Refs,
          holder <- leaseRef,
          active <- {e \in Execs : Active(e)},
          evicted <- {e \in Execs : lostAge[e] # None}

ImplementsLock == Lock!LockSpec
=============================================================================
