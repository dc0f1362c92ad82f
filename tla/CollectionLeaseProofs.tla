------------------------ MODULE CollectionLeaseProofs ------------------------
(***************************************************************************)
(* Type correctness and the safety of the collection lease for every       *)
(* number of calls and every choice of durations that keeps the margin     *)
(* (assumption Margin), by one inductive invariant.                        *)
(*                                                                         *)
(* The argument.  The stored heartbeat of a call is never older than the   *)
(* heartbeat the call last counted (Fresh), because the call counts from   *)
(* the moment of sending and D1 writes later.  An active call has counted  *)
(* one recently (Timed), or its timers have stopped it.  A stale row       *)
(* therefore belongs to no active call, so the tick takes none from under  *)
(* one (Held); what only the operator can do is recorded in lostAge        *)
(* (Lost).                                                                 *)
(***************************************************************************)
EXTENDS CollectionLease, TLAPS

LeaseShape == /\ leaseRef = Free <=> startAge = None
              /\ leaseRef \in Execs => hbAge # None

\* Before and after its action a call has no timer and nothing to answer.
Resting(e) ==
  /\ phase[e] # "running" => stop[e] = "no"
  /\ ~(Losing(e)) => lostAge[e] = None
  /\ phase[e] \notin Claiming \cup {"running"} => beatAge[e] = 0
  /\ phase[e] \in Claiming => beats[e] = {}

\* How long the last counted heartbeat can lie back.
Timed(e) ==
  /\ phase[e] \in Claiming => beatAge[e] =< ClaimWait
  /\ phase[e] = "running" /\ stop[e] = "no" => beatAge[e] + toBeat[e] =< Quiet
  /\ phase[e] = "running" /\ stop[e] = "aborting"
       => beatAge[e] + toForce[e] =< Quiet + Grace

Held(e) ==
  /\ phase[e] = "claimWon" /\ lostAge[e] = None => leaseRef = e
  /\ phase[e] = "running" /\ lostAge[e] = None /\ beatAge[e] =< StaleAfter
       => leaseRef = e
  /\ phase[e] = "running" /\ lostAge[e] = None /\ leaseRef # e
       => \A b \in beats[e] : b.res = "ok" => b.age > StaleAfter

\* The row is at least as fresh as anything the call counted or may count.
Fresh(e) ==
  leaseRef = e /\ Losing(e) =>
    /\ hbAge =< beatAge[e]
    /\ \A b \in beats[e] : b.res = "ok" => hbAge =< b.age

\* What the call may still count was written before the operator's release.
Lost(e) ==
  lostAge[e] # None =>
    /\ leaseRef # e
    /\ lostAge[e] =< beatAge[e]
    /\ \A b \in beats[e] : b.res = "ok" => lostAge[e] =< b.age

CallInv(e) == Resting(e) /\ Timed(e) /\ Held(e) /\ Fresh(e) /\ Lost(e)

LeaseInv == /\ TypeOK
            /\ LeaseShape
            /\ \A e \in Execs : CallInv(e)

-----------------------------------------------------------------------------
(* Typing. *)

\* Quiet covers both ways a live holder can go without a counted heartbeat,
\* and the margin keeps it under every age the tick acts on.
LEMMA QuietFacts ==
  /\ Quiet \in Nat /\ ClaimWait + Beat =< Quiet /\ Loss + Beat =< Quiet
  /\ ClaimWait < StaleAfter /\ Quiet + Grace =< StaleAfter
  /\ StaleAfter =< LegacyAfter /\ StaleAfter < AgeCap
  BY Durations, Margin DEF Quiet, Larger

\* What each clock of the model does when time passes.
LEMMA ClockFacts ==
  /\ \A age \in Ages : Older(age) \in Ages /\ age =< Older(age)
  /\ \A a, b \in Ages : a =< b => Older(a) =< Older(b)
  /\ \A n \in Nat : \A k \in 0..n : Sooner(k) \in 0..n
  BY Durations DEF Ages, Older, Sooner

\* A heartbeat in flight grows older, and is answered once.
LEMMA AnswerFacts ==
  \A b \in Answers :
    /\ b.age \in Ages
    /\ \A age \in Ages : /\ [b EXCEPT !.age = age] \in Answers
                         /\ [b EXCEPT !.age = age].age = age
                         /\ [b EXCEPT !.age = age].res = b.res
    /\ \A res \in {"ok", "gone"} : /\ [b EXCEPT !.res = res] \in Answers
                                   /\ [b EXCEPT !.res = res].age = b.age
                                   /\ [b EXCEPT !.res = res].res = res
  BY DEF Answers

\* Every step keeps the row, the timers and the heartbeats in their domains.
LEMMA TypeStep == TypeOK /\ [Next]_vars => TypeOK'
<1> SUFFICES ASSUME TypeOK, [Next]_vars PROVE TypeOK'
  OBVIOUS
<1> USE DEF TypeOK, row, timers, outside
<1>1. ASSUME NEW e \in Execs, Call(e) PROVE TypeOK'
  <2>1. CASE SendClaim(e)
    BY <2>1 DEF SendClaim, Phases, Claiming
  <2>2. CASE ExecuteClaim(e)
    <3>1. \A a \in StartAges : a \in {i \in Int : i =< AgeCap}
      BY Durations
    <3>2. 0 \in Ages
      BY Durations DEF Ages
    <3> QED
      BY <2>2, <3>1, <3>2 DEF ExecuteClaim, Phases, Claiming, Refs
  <2>3. CASE ClaimAnswered(e)
    BY <2>3, Durations DEF ClaimAnswered, Phases
  <2>4. CASE ClaimBusy(e)
    BY <2>4, Durations DEF ClaimBusy, StopActing, Phases, Ages
  <2>5. CASE ClaimLost(e)
    BY <2>5, Durations DEF ClaimLost, StopActing, Phases, Ages
  <2>6. CASE BeatTick(e)
    BY <2>6, Durations DEF BeatTick, AbortIf, Abort, Answers, Ages
  <2>7. CASE DeadlineFires(e)
    BY <2>7, Durations DEF DeadlineFires, Abort
  <2>8. CASE ForceFires(e)
    BY <2>8, Durations DEF ForceFires, StopActing, Phases, Ages
  <2>9. CASE BeatWritten(e)
    <3>1. PICK b \in beats[e] :
            /\ hbAge' = IF leaseRef = e THEN 0 ELSE hbAge
            /\ beats' = [beats EXCEPT ![e] = (@ \ {b}) \cup
                  IF phase[e] = "running"
                  THEN {[b EXCEPT !.res = IF leaseRef = e THEN "ok" ELSE "gone"]} ELSE {}]
      BY <2>9 DEF BeatWritten
    <3>2. 0 \in Ages /\ beats[e] \in SUBSET Answers
      BY Durations DEF Ages
    <3>3. [b EXCEPT !.res = IF leaseRef = e THEN "ok" ELSE "gone"] \in Answers
      BY <3>2, AnswerFacts
    <3>4. beats' \in [Execs -> SUBSET Answers]
      BY <3>1, <3>2, <3>3
    <3> QED
      BY <2>9, <3>1, <3>2, <3>4 DEF BeatWritten
  <2>10. CASE BeatAnswered(e)
    BY <2>10, Durations DEF BeatAnswered, AbortIf, Abort, Answers, Ages
  <2>11. CASE BeatFailed(e)
    BY <2>11, Durations DEF BeatFailed, AbortIf, Abort
  <2>12. CASE Settle(e)
    BY <2>12, Durations DEF Settle, StopActing, Phases, Ages
  <2>13. CASE ReleaseAnswered(e)
    BY <2>13, Durations DEF ReleaseAnswered, ClearOwn, ClearRow, Phases
  <2>14. CASE ReleaseUnheard(e)
    BY <2>14, Durations DEF ReleaseUnheard, ClearOwn, ClearRow, Phases
  <2>15. CASE Crash(e)
    BY <2>15, Durations DEF Crash, StopActing, Phases, Ages
  <2> QED
    BY <1>1, <2>1, <2>2, <2>3, <2>4, <2>5, <2>6, <2>7, <2>8, <2>9, <2>10,
       <2>11, <2>12, <2>13, <2>14, <2>15 DEF Call
<1>2. CASE Others
  <2>1. CASE OldClaim
    BY <2>1, Durations DEF OldClaim, Refs
  <2>2. CASE OldRelease
    BY <2>2 DEF OldRelease
  <2>3. CASE TickSelect
    BY <2>3 DEF TickSelect, StaleLease
  <2>4. CASE TickExpire
    BY <2>4 DEF TickExpire, ClearRow
  <2>5. CASE TickFails
    BY <2>5 DEF TickFails
  <2>6. CASE OpSees
    BY <2>6 DEF OpSees
  <2>7. CASE OpRelease
    BY <2>7, Durations DEF OpRelease, ClearRow, Ages
  <2> QED
    BY <1>2, <2>1, <2>2, <2>3, <2>4, <2>5, <2>6, <2>7 DEF Others
<1>3. CASE Advance
  <2> USE <1>3 DEF Advance
  <2>1. leaseRef' \in Refs \cup {Free} /\ startAge' \in {a \in Int : a =< AgeCap} \cup {None}
    BY Durations DEF OlderOrNone, Older
  <2>2. hbAge' \in Ages \cup {None} /\ lostAge' \in [Execs -> Ages \cup {None}]
    BY ClockFacts DEF OlderOrNone
  <2>3. beatAge' \in [Execs -> Ages]
    BY ClockFacts
  <2>4. /\ toBeat' \in [Execs -> 0..Beat]
        /\ toDeadline' \in [Execs -> 0..Deadline]
        /\ toForce' \in [Execs -> 0..Grace]
    BY ClockFacts, Durations
  <2>5. beats' \in [Execs -> SUBSET Answers]
    <3>1. \A e \in Execs : {[b EXCEPT !.age = Older(@)] : b \in beats[e]} \in SUBSET Answers
      <4> SUFFICES ASSUME NEW e \in Execs, NEW b \in beats[e]
                   PROVE [b EXCEPT !.age = Older(@)] \in Answers
        OBVIOUS
      <4>1. b \in Answers
        OBVIOUS
      <4>2. Older(b.age) \in Ages
        BY <4>1, AnswerFacts, ClockFacts
      <4> QED
        BY <4>1, <4>2, AnswerFacts
    <3> QED
      BY <3>1
  <2> QED
    BY <2>1, <2>2, <2>3, <2>4, <2>5
<1>4. CASE UNCHANGED vars
  BY <1>4 DEF vars
<1> QED
  BY <1>1, <1>2, <1>3, <1>4 DEF Next

LEMMA TypeInit == Init => TypeOK
<1> SUFFICES ASSUME Init PROVE TypeOK
  OBVIOUS
<1>1. \A a \in StartAges : a \in {i \in Int : i =< AgeCap}
  BY Durations
<1>2. startAge \in {a \in Int : a =< AgeCap} \cup {None}
  BY <1>1 DEF Init
<1> QED
  BY <1>2, Durations, Names DEF Init, TypeOK, Refs, Ages, Phases, Answers

\* Every state of the model is well typed: no statement, timer or lost answer
\* leaves a value the columns and the timers cannot hold.
THEOREM LeaseTyping == Spec => []TypeOK
  BY TypeInit, TypeStep, PTL DEF Spec

-----------------------------------------------------------------------------
(* The inductive invariant. *)

\* A stale row of a build that writes heartbeats has been silent for longer
\* than StaleAfter, even when a claim's two clocks made it look like an old one.
LEMMA StaleMeansSilent ==
  ASSUME TypeOK, LeaseShape, StaleLease, leaseRef \in Execs
  PROVE  hbAge \in Ages /\ hbAge > StaleAfter
<1>1. hbAge \in Ages /\ startAge \in Int
  BY Names DEF TypeOK, LeaseShape
<1> QED
  BY <1>1, QuietFacts, Durations, Names DEF StaleLease, OwnHeartbeat, Ages

\* A call is undisturbed by a step that changes neither its own state nor its
\* hold of the row.
LEMMA Frame ==
  ASSUME NEW e \in Execs, CallInv(e),
         phase'[e] = phase[e], beatAge'[e] = beatAge[e], toBeat'[e] = toBeat[e],
         stop'[e] = stop[e], toForce'[e] = toForce[e], beats'[e] = beats[e],
         lostAge'[e] = lostAge[e],
         leaseRef' = e <=> leaseRef = e,
         leaseRef = e => hbAge' = hbAge
  PROVE  CallInv(e)'
  BY DEF CallInv, Resting, Timed, Held, Fresh, Lost, Losing

\* A call that stops acting keeps nothing that its invariant speaks of.
LEMMA Stopped ==
  ASSUME NEW e \in Execs, TypeOK, StopActing(e),
         phase'[e] \in {"releasing", "ended"}
  PROVE  CallInv(e)'
  BY Durations DEF TypeOK, StopActing, CallInv, Resting, Timed, Held, Fresh, Lost,
                   Losing, Claiming

\* The row keeps its shape.
LEMMA ShapeStep == TypeOK /\ LeaseShape /\ [Next]_vars => LeaseShape'
<1> SUFFICES ASSUME TypeOK, LeaseShape, [Next]_vars PROVE LeaseShape'
  OBVIOUS
<1> USE Names DEF LeaseShape
<1>1. ASSUME UNCHANGED row PROVE LeaseShape'
  BY <1>1 DEF row
<1>2. ASSUME ClearRow PROVE LeaseShape'
  BY <1>2 DEF ClearRow
<1>3. ASSUME NEW e \in Execs, Call(e) PROVE LeaseShape'
  <2>1. CASE ExecuteClaim(e)
    <3>1. \A a \in StartAges : a # None
      BY Durations
    <3>2. 0 # None
      OBVIOUS
    <3> QED
      BY <2>1, <3>1, <3>2 DEF ExecuteClaim, row
  <2>2. CASE BeatWritten(e)
    BY <2>2 DEF BeatWritten
  <2>3. CASE ReleaseAnswered(e) \/ ReleaseUnheard(e)
    BY <2>3, <1>1, <1>2 DEF ReleaseAnswered, ReleaseUnheard, ClearOwn
  <2> QED
    BY <1>1, <1>3, <2>1, <2>2, <2>3 DEF Call, SendClaim, ClaimAnswered, ClaimBusy,
       ClaimLost, BeatTick, DeadlineFires, ForceFires, BeatAnswered, BeatFailed,
       Settle, Crash
<1>4. CASE Others
  <2>1. CASE OldClaim
    <3>1. \A a \in StartAges : a # None
      BY Durations
    <3> QED
      BY <2>1, <3>1 DEF OldClaim
  <2>2. CASE OldRelease
    BY <2>2 DEF OldRelease
  <2>3. CASE TickExpire \/ OpRelease
    BY <2>3, <1>1, <1>2 DEF TickExpire, OpRelease
  <2> QED
    BY <1>1, <1>4, <2>1, <2>2, <2>3 DEF Others, TickSelect, TickFails, OpSees
<1>5. CASE Advance
  <2>1. startAge # None => startAge' \in Int
    BY <1>5, Durations DEF Advance, OlderOrNone, Older, TypeOK
  <2>2. hbAge # None => hbAge' \in Int
    BY <1>5, Durations DEF Advance, OlderOrNone, Older, TypeOK, Ages
  <2> QED
    BY <1>5, <2>1, <2>2 DEF Advance, OlderOrNone
<1>6. CASE UNCHANGED vars
  BY <1>1, <1>6 DEF vars
<1> QED
  BY <1>3, <1>4, <1>5, <1>6 DEF Next

\* The steps of a call keep its own part of the invariant.
LEMMA OwnStep ==
  ASSUME TypeOK, LeaseShape, NEW e \in Execs, CallInv(e), Call(e)
  PROVE  CallInv(e)'
<1> USE DEF TypeOK, row, timers, outside
<1>0. /\ beatAge[e] \in Nat /\ toBeat[e] \in Nat /\ toForce[e] \in Nat
      /\ lostAge[e] \in Nat \cup {None} /\ beats[e] \in SUBSET Answers
      /\ \A b \in beats[e] : b.age \in Nat
  BY Durations DEF Ages, Answers
<1>1. CASE SendClaim(e)
  BY <1>0, <1>1, QuietFacts, Durations DEF SendClaim, Untraced, CallInv, Resting, Timed,
     Held, Fresh, Lost, Losing, Claiming
<1>2. CASE ExecuteClaim(e)
  BY <1>0, <1>2, QuietFacts, Durations, Names DEF ExecuteClaim, CallInv, Resting, Timed,
     Held, Fresh, Lost, Losing, Claiming
<1>3. CASE ClaimAnswered(e)
  BY <1>0, <1>3, QuietFacts, Durations DEF ClaimAnswered, CallInv, Resting, Timed,
     Held, Fresh, Lost, Losing, Claiming
<1>4. CASE ClaimBusy(e) \/ ClaimLost(e) \/ Settle(e) \/ Crash(e)
  BY <1>4, Stopped DEF ClaimBusy, ClaimLost, Settle, Crash
<1>5. ASSUME phase[e] = "running", Abort(e), beatAge'[e] = beatAge[e],
             toBeat'[e] = toBeat[e] \/ beatAge[e] >= Loss
      PROVE  /\ stop'[e] \in {"aborting", "forced"}
             /\ stop'[e] = "aborting" => beatAge[e] + toForce'[e] =< Quiet + Grace
  BY <1>0, <1>5, QuietFacts, Durations DEF Abort, CallInv, Timed
<1>6. CASE BeatTick(e)
  <2>1. \A b \in beats'[e] : b \in beats[e] \/ b.res = "sent"
    BY <1>6 DEF BeatTick
  <2>2. CASE Silent(e)
    <3>1. Abort(e)
      BY <1>6, <2>2 DEF BeatTick, AbortIf
    <3> QED
      BY <1>0, <1>6, <2>1, <2>2, <3>1, <1>5 DEF BeatTick, CallInv, Resting, Timed, Held,
         Fresh, Lost, Losing, Claiming, Silent
  <2>3. CASE ~Silent(e)
    <3>1. stop' = stop /\ toForce' = toForce
      BY <1>6, <2>3 DEF BeatTick, AbortIf
    <3>2. beatAge[e] + Beat =< Quiet /\ toBeat'[e] = Beat
      BY <1>0, <1>6, <2>3, QuietFacts, Durations DEF BeatTick, Silent
    <3> QED
      BY <1>0, <1>6, <2>1, <3>1, <3>2 DEF BeatTick, CallInv, Resting, Timed, Held,
         Fresh, Lost, Losing, Claiming
  <2> QED
    BY <2>2, <2>3
<1>7. CASE DeadlineFires(e)
  BY <1>0, <1>7, <1>5 DEF DeadlineFires, CallInv, Resting, Timed, Held,
     Fresh, Lost, Losing, Claiming
<1>8. CASE ForceFires(e)
  <2>1. CASE e \in Stubborn
    BY <1>0, <1>8, <2>1 DEF ForceFires, CallInv, Resting, Timed, Held, Fresh, Lost,
       Losing, Claiming
  <2>2. CASE e \notin Stubborn
    BY <1>8, <2>2, Stopped DEF ForceFires
  <2> QED
    BY <2>1, <2>2
<1>9. CASE BeatWritten(e)
  <2>1. PICK b \in beats[e] :
          /\ hbAge' = IF leaseRef = e THEN 0 ELSE hbAge
          /\ beats' = [beats EXCEPT ![e] = (@ \ {b}) \cup
                IF phase[e] = "running"
                THEN {[b EXCEPT !.res = IF leaseRef = e THEN "ok" ELSE "gone"]} ELSE {}]
    BY <1>9 DEF BeatWritten
  <2>2. b \in Answers
    BY <1>0
  <2>3. ASSUME NEW c \in beats'[e], c.res = "ok"
        PROVE  c \in beats[e] \/ (leaseRef = e /\ c.age = b.age)
    <3>1. CASE c \in beats[e]
      BY <3>1
    <3>2. CASE c \notin beats[e]
      <4>1. c = [b EXCEPT !.res = IF leaseRef = e THEN "ok" ELSE "gone"]
        BY <2>1, <2>3, <3>2
      <4> QED
        BY <2>2, <2>3, <4>1, AnswerFacts
    <3> QED
      BY <3>1, <3>2
  <2>4. phase[e] \notin Claiming
    BY <2>1 DEF CallInv, Resting
  <2>5. Resting(e)' /\ Timed(e)'
    BY <1>9, <2>4 DEF BeatWritten, CallInv, Resting, Timed, Losing
  <2>6. Held(e)'
    BY <1>9, <2>3 DEF BeatWritten, CallInv, Held
  <2>7. Fresh(e)'
    BY <1>0, <1>9, <2>1, <2>2, <2>3 DEF BeatWritten, Fresh, Losing, Answers, Ages
  <2>8. Lost(e)'
    BY <1>9, <2>3 DEF BeatWritten, CallInv, Lost
  <2> QED
    BY <2>5, <2>6, <2>7, <2>8 DEF CallInv
<1>10. CASE BeatAnswered(e)
  <2>1. PICK b \in beats[e] :
          /\ phase[e] = "running" /\ b.res # "sent"
          /\ beats' = [beats EXCEPT ![e] = @ \ {b}]
          /\ beatAge' = IF b.res = "ok" /\ b.age < beatAge[e]
                        THEN [beatAge EXCEPT ![e] = b.age] ELSE beatAge
          /\ AbortIf(e, b.res = "gone")
    BY <1>10 DEF BeatAnswered
  <2>2. beats'[e] \subseteq beats[e]
    BY <2>1
  <2>3. beatAge'[e] \in Nat /\ beatAge'[e] =< beatAge[e]
    BY <1>0, <2>1
  <2>4. Timed(e)'
    <3>1. CASE b.res = "gone"
      BY <1>0, <1>5, <1>10, <2>1, <3>1 DEF BeatAnswered, AbortIf, Timed, Claiming
    <3>2. CASE b.res # "gone"
      BY <1>0, <1>10, <2>1, <2>3, <3>2, QuietFacts, Durations
         DEF BeatAnswered, AbortIf, CallInv, Timed, Claiming
    <3> QED
      BY <3>1, <3>2
  <2>5. Resting(e)'
    BY <1>10, <2>1 DEF BeatAnswered, CallInv, Resting, Losing, Claiming
  <2>6. Held(e)'
    BY <1>0, <1>10, <2>1, <2>2, QuietFacts, Durations DEF BeatAnswered, CallInv, Held
  <2>7. Fresh(e)' /\ Lost(e)'
    BY <1>0, <1>10, <2>1, <2>2 DEF BeatAnswered, CallInv, Fresh, Lost, Losing
  <2> QED
    BY <2>4, <2>5, <2>6, <2>7 DEF CallInv
<1>11. CASE BeatFailed(e)
  <2>1. beats'[e] \subseteq beats[e]
    BY <1>11 DEF BeatFailed
  <2>2. Timed(e)'
    BY <1>0, <1>5, <1>11 DEF BeatFailed, AbortIf, CallInv, Timed
  <2>3. Resting(e)'
    BY <1>11, <2>1 DEF BeatFailed, AbortIf, Abort, CallInv, Resting, Losing
  <2> QED
    BY <1>11, <2>1, <2>2, <2>3 DEF BeatFailed, CallInv, Held, Fresh, Lost, Losing
<1>12. CASE ReleaseAnswered(e) \/ ReleaseUnheard(e)
  BY <1>0, <1>12, Durations DEF ReleaseAnswered, ReleaseUnheard, CallInv, Resting, Timed,
     Held, Fresh, Lost, Losing, Claiming
<1> QED
  BY <1>1, <1>2, <1>3, <1>4, <1>6, <1>7, <1>8, <1>9, <1>10, <1>11, <1>12 DEF Call

\* A call's steps leave the other calls alone: what it writes to the row names
\* its own reference, or a free row.
LEMMA OthersStep ==
  ASSUME TypeOK, NEW e \in Execs, NEW f \in Execs, e # f, CallInv(f), Call(e)
  PROVE  CallInv(f)'
<1> USE DEF TypeOK, row, timers, outside
<1>1. /\ phase'[f] = phase[f] /\ beatAge'[f] = beatAge[f] /\ toBeat'[f] = toBeat[f]
      /\ stop'[f] = stop[f] /\ toForce'[f] = toForce[f] /\ lostAge'[f] = lostAge[f]
  BY DEF Call, SendClaim, ExecuteClaim, ClaimAnswered, ClaimBusy, ClaimLost, BeatTick,
     DeadlineFires, ForceFires, BeatWritten, BeatAnswered, BeatFailed, Settle,
     ReleaseAnswered, ReleaseUnheard, Crash, StopActing, AbortIf, Abort
<1>2. beats'[f] = beats[f]
  BY DEF Call, SendClaim, ExecuteClaim, ClaimAnswered, ClaimBusy, ClaimLost, BeatTick,
     DeadlineFires, ForceFires, BeatWritten, BeatAnswered, BeatFailed, Settle,
     ReleaseAnswered, ReleaseUnheard, Crash, StopActing
<1>3. (leaseRef' = f <=> leaseRef = f) /\ (leaseRef = f => hbAge' = hbAge)
  BY Names DEF Call, SendClaim, ExecuteClaim, ClaimAnswered, ClaimBusy, ClaimLost,
     BeatTick, DeadlineFires, ForceFires, BeatWritten, BeatAnswered, BeatFailed, Settle,
     ReleaseAnswered, ReleaseUnheard, Crash, ClearOwn, ClearRow
<1> QED
  BY <1>1, <1>2, <1>3, Frame

\* The tick, the operator and an older build keep every call's part of it: a
\* row the tick may free belongs to a call that counted nothing for too long,
\* and what the operator takes away is marked lost.
LEMMA OutsideStep ==
  ASSUME TypeOK, LeaseShape, NEW e \in Execs, CallInv(e), Others
  PROVE  CallInv(e)'
<1> USE DEF TypeOK, row, timers, outside
<1>1. CASE UNCHANGED <<row, phase, beatAge, timers, beats, lostAge>>
  BY <1>1, Frame
<1>2. CASE OldClaim \/ OldRelease
  <2>1. leaseRef' = e <=> leaseRef = e
    BY <1>2, Names DEF OldClaim, OldRelease
  <2> QED
    BY <1>2, <2>1, Frame DEF OldClaim, OldRelease
<1>3. CASE TickExpire
  <2>1. CASE leaseRef = e /\ leaseRef = tickSeen /\ StaleLease
    <3>1. hbAge \in Ages /\ hbAge > StaleAfter
      BY <2>1, StaleMeansSilent
    <3>2. leaseRef' # e
      BY <1>3, <2>1, Names DEF TickExpire, ClearRow
    <3>3. Losing(e) => beatAge[e] > StaleAfter
      BY <2>1, <3>1, Durations DEF CallInv, Fresh, Ages
    <3>4. phase[e] # "claimWon"
      BY <3>3, QuietFacts, Durations DEF CallInv, Timed, Losing, Claiming, Ages
    <3>5. \A b \in beats[e] : Losing(e) /\ b.res = "ok" => b.age > StaleAfter
      BY <2>1, <3>1, Durations DEF CallInv, Fresh, Ages, Answers
    <3>6. lostAge[e] = None
      BY <2>1 DEF CallInv, Lost
    <3>7. Held(e)'
      BY <1>3, <3>3, <3>4, <3>5, Durations DEF TickExpire, Held, Losing, Ages
    <3> QED
      BY <1>3, <3>2, <3>6, <3>7 DEF TickExpire, CallInv, Resting, Timed, Fresh, Lost, Losing
  <2>2. CASE ~(leaseRef = e /\ leaseRef = tickSeen /\ StaleLease)
    <3>1. (leaseRef' = e <=> leaseRef = e) /\ (leaseRef = e => hbAge' = hbAge)
      BY <1>3, <2>2, Names DEF TickExpire, ClearRow
    <3> QED
      BY <1>3, <3>1, Frame DEF TickExpire
  <2> QED
    BY <2>1, <2>2
<1>4. CASE OpRelease
  <2>1. CASE leaseRef = e /\ opSeen = e
    <3>1. leaseRef' # e /\ (Losing(e) => lostAge'[e] = 0)
      BY <1>4, <2>1, Names DEF OpRelease, ClearRow
    <3>2. lostAge[e] = None
      BY <2>1 DEF CallInv, Lost
    <3>3. lostAge'[e] \in {0, None} /\ (~Losing(e) => lostAge'[e] = None)
      BY <1>4, <3>1, <3>2 DEF OpRelease
    <3>4. 0 # None
      BY Names
    <3>5. Lost(e)'
      BY <1>4, <3>1, <3>3, <3>4, Durations DEF OpRelease, Lost, Ages, Answers
    <3>6. Held(e)' /\ Resting(e)'
      BY <1>4, <3>1, <3>3, <3>4 DEF OpRelease, CallInv, Held, Resting, Losing
    <3> QED
      BY <1>4, <3>1, <3>5, <3>6 DEF OpRelease, CallInv, Timed, Fresh
  <2>2. CASE ~(leaseRef = e /\ opSeen = e)
    <3>1. /\ leaseRef' = e <=> leaseRef = e
          /\ leaseRef = e => hbAge' = hbAge
          /\ lostAge'[e] = lostAge[e]
      BY <1>4, <2>2, Names DEF OpRelease, ClearRow
    <3> QED
      BY <1>4, <3>1, Frame DEF OpRelease
  <2> QED
    BY <2>1, <2>2
<1> QED
  BY <1>1, <1>2, <1>3, <1>4 DEF Others, TickSelect, TickFails, OpSees

\* Time passes for the row and for everything a call counts at the same pace,
\* and never past a timer that is due.
LEMMA AdvanceStep ==
  ASSUME TypeOK, LeaseShape, NEW e \in Execs, CallInv(e), Advance
  PROVE  CallInv(e)'
<1> USE DEF TypeOK
<1>0. /\ beatAge[e] \in Ages /\ lostAge[e] \in Ages \cup {None}
      /\ toBeat[e] \in Nat /\ toForce[e] \in Nat
      /\ hbAge \in Ages \cup {None} /\ \A b \in beats[e] : b \in Answers /\ b.age \in Ages
  BY Durations DEF Answers
<1>1. /\ leaseRef' = leaseRef /\ phase' = phase /\ stop' = stop
      /\ lostAge'[e] = OlderOrNone(lostAge[e]) /\ hbAge' = OlderOrNone(hbAge)
      /\ toBeat'[e] = Sooner(toBeat[e]) /\ toForce'[e] = Sooner(toForce[e])
  BY DEF Advance
<1>2. beatAge'[e] = IF phase[e] \in Claiming \cup {"running"}
                    THEN Older(beatAge[e]) ELSE beatAge[e]
  BY DEF Advance
<1>3. ASSUME NEW c \in beats'[e], phase[e] = "running"
      PROVE  \E b \in beats[e] : c.res = b.res /\ c.age = Older(b.age)
  <2>1. PICK b \in beats[e] : c = [b EXCEPT !.age = Older(@)]
    BY <1>3 DEF Advance
  <2>2. b \in Answers /\ Older(b.age) \in Ages
    BY <1>0, ClockFacts
  <2> QED
    BY <2>1, <2>2, AnswerFacts
<1>4. phase[e] # "running" => beats'[e] = beats[e]
  BY DEF Advance
<1>5. ~TimerDue(e)
  BY DEF Advance
<1>6. None \notin Ages
  BY Names DEF Ages
<1>7. Resting(e)'
  BY <1>1, <1>2, <1>4 DEF CallInv, Resting, Losing, Claiming, OlderOrNone
<1>8. Timed(e)'
  <2>1. phase[e] \in Claiming => beatAge'[e] =< ClaimWait
    BY <1>0, <1>2, <1>5, Durations DEF CallInv, Timed, TimerDue, Older, Ages
  <2>2. phase[e] = "running" /\ stop[e] = "no" => beatAge'[e] + toBeat'[e] =< Quiet
    BY <1>0, <1>1, <1>2, <1>5, QuietFacts, Durations
       DEF CallInv, Timed, TimerDue, Older, Sooner, Ages
  <2>3. phase[e] = "running" /\ stop[e] = "aborting"
          => beatAge'[e] + toForce'[e] =< Quiet + Grace
    BY <1>0, <1>1, <1>2, <1>5, QuietFacts, Durations
       DEF CallInv, Timed, TimerDue, Older, Sooner, Ages
  <2> QED
    BY <1>1, <2>1, <2>2, <2>3 DEF Timed
<1>9. Held(e)'
  <2>1. lostAge'[e] = None => lostAge[e] = None
    BY <1>0, <1>1, <1>6, ClockFacts DEF OlderOrNone
  <2>2. phase[e] = "running" => beatAge[e] =< beatAge'[e] /\ beatAge'[e] \in Ages
    BY <1>0, <1>2, ClockFacts
  <2>3. ASSUME phase[e] = "running", lostAge[e] = None, leaseRef # e,
               NEW c \in beats'[e], c.res = "ok"
        PROVE  c.age > StaleAfter
    <3>1. PICK b \in beats[e] : c.res = b.res /\ c.age = Older(b.age)
      BY <1>3, <2>3
    <3>2. b.age > StaleAfter /\ b.age \in Ages
      BY <1>0, <2>3, <3>1 DEF CallInv, Held
    <3> QED
      BY <3>1, <3>2, ClockFacts, Durations DEF Ages
  <2> QED
    BY <1>0, <1>1, <2>1, <2>2, <2>3, Durations DEF CallInv, Held, Ages
<1>10. Fresh(e)'
  <2> SUFFICES ASSUME leaseRef = e, Losing(e)
               PROVE  /\ hbAge' =< beatAge'[e]
                      /\ \A c \in beats'[e] : c.res = "ok" => hbAge' =< c.age
    BY <1>1 DEF Fresh, Losing
  <2>1. hbAge \in Ages /\ hbAge' = Older(hbAge)
    BY <1>0, <1>1, <1>6 DEF LeaseShape, OlderOrNone
  <2>2. beatAge'[e] = Older(beatAge[e])
    BY <1>2 DEF Losing, Claiming
  <2>3. hbAge =< beatAge[e] /\ \A b \in beats[e] : b.res = "ok" => hbAge =< b.age
    BY DEF CallInv, Fresh
  <2>4. CASE phase[e] = "running"
    BY <1>0, <1>3, <2>1, <2>2, <2>3, <2>4, ClockFacts
  <2>5. CASE phase[e] = "claimWon"
    BY <1>0, <1>4, <2>1, <2>2, <2>3, <2>5, ClockFacts DEF CallInv, Resting, Claiming
  <2> QED
    BY <2>4, <2>5 DEF Losing
<1>11. Lost(e)'
  <2> SUFFICES ASSUME lostAge'[e] # None
               PROVE  /\ leaseRef # e
                      /\ lostAge'[e] =< beatAge'[e]
                      /\ \A c \in beats'[e] : c.res = "ok" => lostAge'[e] =< c.age
    BY <1>1 DEF Lost
  <2>1. lostAge[e] \in Ages /\ lostAge'[e] = Older(lostAge[e])
    BY <1>0, <1>1 DEF OlderOrNone
  <2>2. lostAge[e] # None /\ Losing(e)
    BY <1>6, <2>1 DEF CallInv, Resting
  <2>3. beatAge'[e] = Older(beatAge[e])
    BY <1>2, <2>2 DEF Losing, Claiming
  <2>4. /\ leaseRef # e /\ lostAge[e] =< beatAge[e]
        /\ \A b \in beats[e] : b.res = "ok" => lostAge[e] =< b.age
    BY <2>2 DEF CallInv, Lost
  <2>5. CASE phase[e] = "running"
    BY <1>0, <1>3, <2>1, <2>3, <2>4, <2>5, ClockFacts
  <2>6. CASE phase[e] = "claimWon"
    BY <1>0, <1>4, <2>1, <2>3, <2>4, <2>6, ClockFacts DEF CallInv, Resting, Claiming
  <2> QED
    BY <2>2, <2>5, <2>6 DEF Losing
<1> QED
  BY <1>7, <1>8, <1>9, <1>10, <1>11 DEF CallInv

LEMMA LeaseInvInit == Init => LeaseInv
<1> SUFFICES ASSUME Init PROVE LeaseInv
  OBVIOUS
<1>1. LeaseShape
  <2>1. \A a \in StartAges : a # None
    BY Durations, Names
  <2> QED
    BY <2>1, Names DEF Init, LeaseShape, Refs
<1>2. ASSUME NEW e \in Execs PROVE CallInv(e)
  BY Durations, Names DEF Init, CallInv, Resting, Timed, Held, Fresh, Lost, Losing, Claiming
<1> QED
  BY <1>1, <1>2, TypeInit DEF LeaseInv

LEMMA LeaseInvStep == LeaseInv /\ [Next]_vars => LeaseInv'
<1> SUFFICES ASSUME LeaseInv, [Next]_vars PROVE LeaseInv'
  OBVIOUS
<1>1. TypeOK /\ LeaseShape /\ \A e \in Execs : CallInv(e)
  BY DEF LeaseInv
<1>2. TypeOK' /\ LeaseShape'
  BY <1>1, TypeStep, ShapeStep
<1>3. ASSUME NEW e \in Execs PROVE CallInv(e)'
  <2>1. ASSUME NEW f \in Execs, Call(f) PROVE CallInv(e)'
    BY <1>1, <2>1, OwnStep, OthersStep
  <2>2. CASE Others
    BY <1>1, <2>2, OutsideStep
  <2>3. CASE Advance
    BY <1>1, <2>3, AdvanceStep
  <2>4. CASE UNCHANGED vars
    BY <1>1, <2>4, Frame DEF vars, row, timers
  <2> QED
    BY <2>1, <2>2, <2>3, <2>4 DEF Next
<1> QED
  BY <1>2, <1>3 DEF LeaseInv

\* The inductive invariant of the protocol: what a call's heartbeats, its
\* timers and the ages of the row tell of each other after every statement of
\* withCollectionLease, the tick and the operator.
THEOREM LeaseInvariant == Spec => []LeaseInv
  BY LeaseInvInit, LeaseInvStep, PTL DEF Spec

-----------------------------------------------------------------------------
(* What the invariant gives. *)

\* An active call has counted a heartbeat recently enough.
LEMMA ActiveIsRecent ==
  ASSUME LeaseInv, NEW e \in Execs, Active(e)
  PROVE  beatAge[e] \in Nat /\ beatAge[e] =< Quiet + Grace
<1>1. /\ beatAge[e] \in Nat /\ toBeat[e] \in Nat /\ toForce[e] \in Nat
      /\ stop[e] \in {"no", "aborting", "forced"}
  BY Durations DEF LeaseInv, TypeOK, Ages
<1> QED
  BY <1>1, QuietFacts, Durations DEF LeaseInv, CallInv, Timed, Active

\* Two provider attempts for one source never overlap, unless a person
\* released the lease under one of them.
THEOREM LeaseExcludes == Spec => []MutualExclusion
<1>1. LeaseInv => MutualExclusion
  <2> SUFFICES ASSUME LeaseInv, NEW e \in Execs, Active(e), lostAge[e] = None
               PROVE  leaseRef = e
    BY DEF MutualExclusion
  <2>1. beatAge[e] \in Nat /\ beatAge[e] =< StaleAfter
    BY ActiveIsRecent, QuietFacts, Durations
  <2> QED
    BY <2>1 DEF LeaseInv, CallInv, Held, Active
<1> QED
  BY <1>1, LeaseInvariant, PTL

\* The lease stays with a running call, the stubborn ones included, while it
\* is recent that a heartbeat of its got through.
THEOREM LeaseCovers == Spec => []LeaseCoversAction
<1>1. LeaseInv => LeaseCoversAction
  BY DEF LeaseInv, CallInv, Held, LeaseCoversAction
<1> QED
  BY <1>1, LeaseInvariant, PTL

\* A call that lost its lease to an operator stops being active in time,
\* whatever heartbeats were answered in between.
THEOREM LeaseReleasedStops == Spec => []ReleasedCallStops
<1>1. LeaseInv => ReleasedCallStops
  <2> SUFFICES ASSUME LeaseInv, NEW e \in Execs, Active(e), lostAge[e] # None
               PROVE  lostAge[e] =< Quiet + Grace
    BY DEF ReleasedCallStops
  <2>1. lostAge[e] \in Nat /\ lostAge[e] =< beatAge[e]
    BY Durations DEF LeaseInv, TypeOK, CallInv, Lost, Ages
  <2> QED
    BY <2>1, ActiveIsRecent, QuietFacts, Durations
<1> QED
  BY <1>1, LeaseInvariant, PTL

-----------------------------------------------------------------------------
(* Who may take the lease away.                                            *)

\* The steps that do not write the reference.
LEMMA RefKept ==
  ASSUME [Next]_vars,
         ~(\E e \in Execs : ExecuteClaim(e) \/ ReleaseAnswered(e) \/ ReleaseUnheard(e)),
         ~(OldClaim \/ OldRelease \/ TickExpire \/ OpRelease)
  PROVE  leaseRef' = leaseRef
<1>1. ASSUME NEW e \in Execs, Call(e) PROVE leaseRef' = leaseRef
  BY <1>1 DEF Call, SendClaim, ClaimAnswered, ClaimBusy, ClaimLost, BeatTick, DeadlineFires,
     ForceFires, BeatWritten, BeatAnswered, BeatFailed, Settle, Crash, row
<1>2. CASE Others
  BY <1>2 DEF Others, TickSelect, TickFails, OpSees, row
<1> QED
  BY <1>1, <1>2 DEF Next, Advance, vars, row

\* A hold ends by the call's own release, by the tick on a row that has been
\* silent for too long, or by the operator with that very reference, and leaves
\* the source free: no step replaces one reference by another.
THEOREM LeaseTakenByKnown == Spec => OnlyKnownReleases
<1>1. LeaseInv /\ [Next]_vars
        => [\A e \in Refs : leaseRef = e /\ leaseRef' # e =>
              /\ leaseRef' = Free
              /\ \/ e \in Execs /\ phase[e] = "releasing"
                 \/ e = OldRef
                 \/ tickSeen = e /\ hbAge # None /\ hbAge > StaleAfter
                 \/ opSeen = e]_vars
  <2> SUFFICES ASSUME LeaseInv, [Next]_vars, NEW e \in Refs, leaseRef = e, leaseRef' # e
               PROVE  /\ leaseRef' = Free
                      /\ \/ e \in Execs /\ phase[e] = "releasing"
                         \/ e = OldRef
                         \/ tickSeen = e /\ hbAge # None /\ hbAge > StaleAfter
                         \/ opSeen = e
    OBVIOUS
  <2>1. e # Free /\ (e \in Execs \/ e = OldRef)
    BY Names DEF Refs
  <2>2. TypeOK /\ LeaseShape
    BY DEF LeaseInv
  <2>3. CASE \E f \in Execs : ExecuteClaim(f) \/ ReleaseAnswered(f) \/ ReleaseUnheard(f)
    BY <2>1, <2>3 DEF ExecuteClaim, ReleaseAnswered, ReleaseUnheard, ClearOwn, ClearRow, row
  <2>4. CASE OldClaim \/ OldRelease
    BY <2>1, <2>4 DEF OldClaim, OldRelease
  <2>5. CASE TickExpire
    <3>1. leaseRef = tickSeen /\ StaleLease /\ leaseRef' = Free
      BY <2>5 DEF TickExpire, ClearRow, row
    <3>2. e \in Execs => hbAge # None /\ hbAge > StaleAfter
      BY <2>2, <3>1, StaleMeansSilent, Names DEF Ages
    <3> QED  BY <2>1, <3>1, <3>2
  <2>6. CASE OpRelease
    BY <2>1, <2>6 DEF OpRelease, ClearRow, row
  <2> QED
    BY <2>3, <2>4, <2>5, <2>6, RefKept
<1> QED
  BY <1>1, LeaseInvariant, PTL DEF Spec, OnlyKnownReleases

\* What a step may make of an older build's claim that is under the hour rule.
HourKept == \/ HourRule'
            \/ leaseRef' = OldRef /\ startAge' > LegacyAfter
            \/ leaseRef' = Free /\ ~TickExpire

\* No heartbeat is written over such a claim and no tick frees it: until the
\* hour is over only a release takes it off the row.
LEMMA HourStep == TypeOK /\ LeaseShape /\ HourRule /\ [Next]_vars => HourKept
<1> SUFFICES ASSUME TypeOK, LeaseShape, HourRule, [Next]_vars PROVE HourKept
  OBVIOUS
<1> USE Names DEF HourRule, HourKept
<1>1. ASSUME UNCHANGED row PROVE HourKept
  BY <1>1 DEF row
<1>2. ASSUME NEW e \in Execs, Call(e) PROVE HourKept
  <2>1. leaseRef # e /\ leaseRef # Free
    OBVIOUS
  <2>2. CASE ExecuteClaim(e)
    BY <2>1, <2>2 DEF ExecuteClaim, row
  <2>3. CASE BeatWritten(e)
    BY <2>1, <2>3 DEF BeatWritten
  <2>4. CASE ReleaseAnswered(e) \/ ReleaseUnheard(e)
    BY <1>1, <2>1, <2>4 DEF ReleaseAnswered, ReleaseUnheard, ClearOwn
  <2> QED
    BY <1>1, <1>2, <2>2, <2>3, <2>4 DEF Call, SendClaim, ClaimAnswered, ClaimBusy, ClaimLost,
       BeatTick, DeadlineFires, ForceFires, BeatAnswered, BeatFailed, Settle, Crash
<1>3. CASE Others
  <2>1. CASE OldClaim
    BY <2>1 DEF OldClaim
  <2>2. CASE OldRelease
    BY <2>2 DEF OldRelease, TickExpire, outside
  <2>3. CASE TickExpire
    <3>1. startAge \in Int /\ hbAge \in Ages \cup {None}
      BY DEF TypeOK, LeaseShape
    <3>2. ~StaleLease
      BY <3>1, Durations, Margin DEF StaleLease, OwnHeartbeat, Ages
    <3> QED
      BY <1>1, <2>3, <3>2 DEF TickExpire
  <2>4. CASE OpRelease
    BY <1>1, <2>4 DEF OpRelease, ClearRow, TickExpire
  <2> QED
    BY <1>1, <1>3, <2>1, <2>2, <2>3, <2>4 DEF Others, TickSelect, TickFails, OpSees
<1>4. CASE Advance
  <2>1. leaseRef' = OldRef /\ startAge' = OlderOrNone(startAge) /\ hbAge' = OlderOrNone(hbAge)
    BY <1>4 DEF Advance
  <2>2. hbAge \in Ages \cup {None} /\ startAge \in Int /\ startAge < AgeCap
    BY Durations, Margin DEF TypeOK, LeaseShape
  <2>3. startAge' = startAge + 1
    BY <2>1, <2>2 DEF OlderOrNone, Older
  <2>4. CASE hbAge = None
    BY <2>1, <2>2, <2>3, <2>4, Durations DEF OlderOrNone
  <2>5. CASE hbAge # None
    <3>1. hbAge \in Int /\ hbAge > startAge /\ hbAge' = Older(hbAge)
      BY <2>1, <2>2, <2>5 DEF OlderOrNone, Ages
    <3>2. hbAge' = hbAge + 1 \/ (hbAge' = hbAge /\ hbAge >= AgeCap)
      BY <3>1, Durations DEF Older
    <3> QED
      BY <2>1, <2>2, <2>3, <3>1, <3>2, Durations, Margin
  <2> QED
    BY <2>4, <2>5
<1>5. CASE UNCHANGED vars
  BY <1>1, <1>5 DEF vars
<1> QED
  BY <1>2, <1>3, <1>4, <1>5 DEF Next

\* For any lag or lead of the isolates' clocks: an older build's claim whose
\* started_at is later than the heartbeat it found keeps its hour, and any
\* other is not freed by the tick before its started_at is past StaleAfter.
THEOREM OldClaimKept == Spec => OldClaimKeepsItsHour
<1>1. LeaseInv /\ [Next]_vars => (HourRule => HourKept)
  BY HourStep DEF LeaseInv
<1>2. LeaseInv /\ [Next]_vars
        => (TickExpire /\ leaseRef = OldRef /\ leaseRef' = Free => startAge > StaleAfter)
  <2> SUFFICES ASSUME LeaseInv, TickExpire, leaseRef = OldRef, leaseRef' = Free
               PROVE  startAge > StaleAfter
    OBVIOUS
  <2>1. StaleLease
    BY Names DEF TickExpire, row
  <2>2. startAge \in Int /\ hbAge \in Ages \cup {None}
    BY Names DEF LeaseInv, TypeOK, LeaseShape
  <2> QED
    BY <2>1, <2>2, Durations, Margin, Names DEF StaleLease, OwnHeartbeat, Ages
<1>3. LeaseInv /\ [Next]_vars
        => [/\ HourRule => HourKept
            /\ TickExpire /\ leaseRef = OldRef /\ leaseRef' = Free => startAge > StaleAfter]_vars
  BY <1>1, <1>2
<1> QED
  BY <1>3, LeaseInvariant, PTL DEF Spec, OldClaimKeepsItsHour, HourKept

-----------------------------------------------------------------------------
(* The lease implements the lock.                                          *)

ActiveCalls == {e \in Execs : Active(e)}
Evicted == {e \in Execs : lostAge[e] # None}

\* A call's step changes nothing that the lock knows of another call.
LEMMA OthersInLock ==
  ASSUME TypeOK, NEW e \in Execs, Call(e)
  PROVE  /\ ActiveCalls' \ {e} = ActiveCalls \ {e}
         /\ Evicted' \ {e} = Evicted \ {e}
<1>1. ASSUME NEW f \in Execs, f # e
      PROVE  phase'[f] = phase[f] /\ stop'[f] = stop[f] /\ lostAge'[f] = lostAge[f]
  BY <1>1 DEF TypeOK, timers, Call, SendClaim, ExecuteClaim, ClaimAnswered, ClaimBusy,
     ClaimLost, BeatTick, DeadlineFires, ForceFires, BeatWritten, BeatAnswered, BeatFailed,
     Settle, ReleaseAnswered, ReleaseUnheard, Crash, StopActing, AbortIf, Abort
<1> QED
  BY <1>1 DEF ActiveCalls, Evicted, Active

\* The steps of a call that the lock does not see: it stays active or inactive,
\* evicted or not, and the hold stays where it is.
LEMMA UnseenStep ==
  ASSUME TypeOK, NEW e \in Execs, Call(e), leaseRef' = leaseRef,
         Active(e)' <=> Active(e), lostAge'[e] = None <=> lostAge[e] = None
  PROVE  UNCHANGED <<leaseRef, ActiveCalls, Evicted>>
  BY OthersInLock DEF ActiveCalls, Evicted

\* A call that stops acting leaves the lock, or is forgotten by it.
LEMMA StopInLock ==
  ASSUME LeaseInv, NEW e \in Execs, Call(e), leaseRef' = leaseRef,
         ~Active(e)', lostAge'[e] \in {None, lostAge[e]}
  PROVE  Lock!Leave(e) \/ Lock!Forget(e) \/ UNCHANGED <<leaseRef, ActiveCalls, Evicted>>
<1>1. TypeOK /\ (lostAge[e] # None => leaseRef # e)
  BY DEF LeaseInv, CallInv, Lost
<1>2. ActiveCalls' = ActiveCalls \ {e} /\ (Evicted' = Evicted \ {e} \/ Evicted' = Evicted)
  BY <1>1, OthersInLock DEF ActiveCalls, Evicted
<1>3. CASE Active(e)
  BY <1>2, <1>3 DEF Lock!Leave, ActiveCalls, Evicted
<1>4. CASE ~Active(e) /\ lostAge[e] # None
  BY <1>1, <1>2, <1>4 DEF Lock!Forget, ActiveCalls, Evicted
<1>5. CASE ~Active(e) /\ lostAge[e] = None
  BY <1>1, <1>5, UnseenStep DEF Active
<1> QED
  BY <1>3, <1>4, <1>5

LEMMA CallInLock ==
  ASSUME LeaseInv, NEW e \in Execs, Call(e)
  PROVE  (\E h \in Refs : Lock!Acquire(h) \/ Lock!Enter(h) \/ Lock!Leave(h) \/ Lock!Yield(h)
                          \/ Lock!Forget(h))
         \/ UNCHANGED <<leaseRef, ActiveCalls, Evicted>>
<1>1. TypeOK /\ CallInv(e) /\ e \in Refs /\ e # Free
  BY Names DEF LeaseInv, Refs
<1> USE DEF row, timers, outside
<1>2. CASE ExecuteClaim(e)
  <2>1. ActiveCalls' = ActiveCalls /\ Evicted' = Evicted
    BY <1>1, <1>2, OthersInLock DEF ExecuteClaim, ActiveCalls, Evicted, Active, TypeOK
  <2> QED
    BY <1>1, <1>2, <2>1 DEF ExecuteClaim, Lock!Acquire, ActiveCalls, Evicted
<1>3. CASE ClaimAnswered(e)
  <2>1. ~Active(e) /\ stop[e] = "no" /\ (lostAge[e] = None => leaseRef = e)
    BY <1>1, <1>3 DEF ClaimAnswered, Active, CallInv, Resting, Held
  <2>2. Active(e)' /\ lostAge' = lostAge /\ leaseRef' = leaseRef
    BY <1>1, <1>3, <2>1 DEF ClaimAnswered, Active, TypeOK
  <2>3. ActiveCalls' = ActiveCalls \cup {e} /\ Evicted' = Evicted
    BY <1>1, <2>2, OthersInLock DEF ActiveCalls, Evicted
  <2> QED
    BY <1>1, <2>1, <2>2, <2>3 DEF Lock!Enter, ActiveCalls, Evicted
<1>4. CASE ClaimBusy(e) \/ ClaimLost(e) \/ Settle(e) \/ Crash(e)
  <2>1. /\ phase'[e] \in {"ended", "releasing"} /\ lostAge'[e] = None /\ leaseRef' = leaseRef
    BY <1>1, <1>4 DEF ClaimBusy, ClaimLost, Settle, Crash, StopActing, TypeOK
  <2> QED
    BY <1>1, <2>1, StopInLock DEF Active
<1>5. CASE ForceFires(e)
  <2>1. /\ phase'[e] = "ended" \/ stop'[e] = "forced"
        /\ lostAge'[e] \in {None, lostAge[e]} /\ leaseRef' = leaseRef
    BY <1>1, <1>5 DEF ForceFires, StopActing, TypeOK
  <2> QED
    BY <1>1, <2>1, StopInLock DEF Active
<1>6. CASE BeatTick(e) \/ DeadlineFires(e) \/ BeatAnswered(e) \/ BeatFailed(e)
  <2>1. /\ leaseRef' = leaseRef /\ lostAge' = lostAge /\ phase' = phase
        /\ stop'[e] = "forced" <=> stop[e] = "forced"
    BY <1>1, <1>6 DEF BeatTick, DeadlineFires, BeatAnswered, BeatFailed, AbortIf, Abort, TypeOK
  <2> QED
    BY <1>1, <2>1, UnseenStep DEF Active
<1>7. CASE SendClaim(e) \/ BeatWritten(e)
  <2>1. /\ leaseRef' = leaseRef /\ lostAge' = lostAge /\ stop' = stop
        /\ phase'[e] = "running" <=> phase[e] = "running"
    BY <1>1, <1>7 DEF SendClaim, BeatWritten, TypeOK
  <2> QED
    BY <1>1, <2>1, UnseenStep DEF Active
<1>8. CASE ReleaseAnswered(e) \/ ReleaseUnheard(e)
  <2>1. /\ ~Active(e) /\ ~Active(e)' /\ lostAge' = lostAge
        /\ leaseRef' = leaseRef \/ (leaseRef = e /\ leaseRef' = Free)
    BY <1>1, <1>8 DEF ReleaseAnswered, ReleaseUnheard, ClearOwn, ClearRow, Active, TypeOK
  <2>2. ActiveCalls' = ActiveCalls /\ Evicted' = Evicted
    BY <1>1, <2>1, OthersInLock DEF ActiveCalls, Evicted
  <2> QED
    BY <1>1, <2>1, <2>2 DEF Lock!Yield, ActiveCalls, Evicted
<1> QED
  BY <1>2, <1>3, <1>4, <1>5, <1>6, <1>7, <1>8, <1>1 DEF Call

LEMMA OthersAsLock ==
  ASSUME LeaseInv, Others
  PROVE  (\E h \in Refs : Lock!Acquire(h) \/ Lock!Yield(h) \/ Lock!Evict(h))
         \/ UNCHANGED <<leaseRef, ActiveCalls, Evicted>>
<1>1. TypeOK /\ LeaseShape /\ OldRef \in Refs /\ OldRef \notin ActiveCalls /\ Execs \subseteq Refs
  BY Names DEF LeaseInv, Refs, ActiveCalls
<1> USE DEF row, timers, outside
<1>2. CASE UNCHANGED <<leaseRef, phase, stop, lostAge>>
  BY <1>2 DEF ActiveCalls, Evicted, Active
<1>3. ASSUME UNCHANGED <<phase, stop>> PROVE ActiveCalls' = ActiveCalls
  BY <1>3 DEF ActiveCalls, Active
<1>4. ASSUME UNCHANGED lostAge PROVE Evicted' = Evicted
  BY <1>4 DEF Evicted
<1>5. CASE OldClaim
  <2>1. leaseRef = Free /\ leaseRef' = OldRef /\ UNCHANGED <<ActiveCalls, Evicted>>
    BY <1>3, <1>4, <1>5 DEF OldClaim
  <2> QED  BY <1>1, <2>1 DEF Lock!Acquire, ActiveCalls, Evicted
<1>6. CASE OldRelease
  <2>1. leaseRef = OldRef /\ leaseRef' = Free /\ UNCHANGED <<ActiveCalls, Evicted>>
    BY <1>3, <1>4, <1>6 DEF OldRelease
  <2> QED  BY <1>1, <2>1 DEF Lock!Yield, ActiveCalls, Evicted
<1>7. CASE TickExpire /\ leaseRef' # leaseRef
  <2>1. /\ StaleLease /\ leaseRef \in Refs /\ leaseRef' = Free
        /\ UNCHANGED <<ActiveCalls, Evicted>>
    BY <1>1, <1>3, <1>4, <1>7, Names DEF TickExpire, ClearRow, StaleLease, TypeOK
  <2>2. ASSUME leaseRef \in Execs, Active(leaseRef) PROVE FALSE
    <3> DEFINE e == leaseRef
    <3>1. hbAge \in Ages /\ hbAge > StaleAfter
      BY <1>1, <2>1, <2>2, StaleMeansSilent
    <3>2. Losing(e) /\ CallInv(e)
      BY <2>2 DEF LeaseInv, Losing, Active
    <3>3. hbAge =< beatAge[e]
      BY <3>2 DEF CallInv, Fresh
    <3>4. beatAge[e] \in Nat /\ beatAge[e] =< Quiet + Grace
      BY <2>2, ActiveIsRecent
    <3> QED  BY <3>1, <3>3, <3>4, QuietFacts, Durations DEF Ages
  <2>3. leaseRef \notin ActiveCalls
    BY <2>2 DEF ActiveCalls
  <2> QED  BY <2>1, <2>3 DEF Lock!Yield, ActiveCalls, Evicted
<1>8. CASE OpRelease /\ leaseRef' # leaseRef
  <2>1. /\ leaseRef = opSeen /\ leaseRef \in Refs /\ leaseRef' = Free
        /\ ActiveCalls' = ActiveCalls
    BY <1>1, <1>3, <1>8 DEF OpRelease, ClearRow, TypeOK
  <2>2. lostAge' = [e \in Execs |-> IF leaseRef = e /\ opSeen = e /\ Losing(e) THEN 0 ELSE lostAge[e]]
    BY <1>8 DEF OpRelease
  <2>3. CASE leaseRef \in Execs /\ Losing(leaseRef)
    <3>1. 0 # None
      BY Names
    <3>2. Evicted' = Evicted \cup {leaseRef}
      BY <2>1, <2>2, <2>3, <3>1 DEF Evicted
    <3> QED  BY <2>1, <3>2 DEF Lock!Evict, ActiveCalls, Evicted
  <2>4. CASE ~(leaseRef \in Execs /\ Losing(leaseRef))
    <3>1. Evicted' = Evicted
      BY <2>1, <2>2, <2>4 DEF Evicted
    <3>2. leaseRef \notin ActiveCalls
      BY <2>4 DEF ActiveCalls, Active, Losing
    <3> QED  BY <2>1, <3>1, <3>2 DEF Lock!Yield, ActiveCalls, Evicted
  <2> QED  BY <2>3, <2>4
<1>9. CASE (TickExpire \/ OpRelease) /\ leaseRef' = leaseRef
  <2>1. TickExpire => UNCHANGED <<ActiveCalls, Evicted>>
    BY <1>3, <1>4 DEF TickExpire
  <2>2. OpRelease => UNCHANGED <<ActiveCalls, Evicted>>
    <3> SUFFICES ASSUME OpRelease PROVE UNCHANGED <<ActiveCalls, Evicted>>
      OBVIOUS
    <3>1. \A e \in Execs : ~(leaseRef = e /\ opSeen = e)
      BY <1>9, Names DEF OpRelease, ClearRow
    <3>2. \A e \in Execs : lostAge'[e] = lostAge[e]
      BY <3>1 DEF OpRelease
    <3> QED  BY <1>3, <3>2 DEF OpRelease, Evicted
  <2> QED  BY <1>9, <2>1, <2>2
<1> QED
  BY <1>2, <1>5, <1>6, <1>7, <1>8, <1>9 DEF Others, TickSelect, TickFails, OpSees

\* The lease, with its heartbeats, timers, lost answers and repairs, implements
\* the lock of SourceLock: an execution enters only under its own hold, and only
\* a person takes the hold of an active one.
THEOREM LeaseImplementsLock == Spec => ImplementsLock
<1>1. Init => Lock!LockInit
  BY Names DEF Init, Lock!LockInit, Active, Refs
<1>2. LeaseInv /\ [Next]_vars => [Lock!LockNext]_(Lock!lockVars)
  <2> SUFFICES ASSUME LeaseInv, [Next]_vars
               PROVE  Lock!LockNext \/ UNCHANGED <<leaseRef, ActiveCalls, Evicted>>
    BY DEF Lock!lockVars, ActiveCalls, Evicted
  <2>1. ASSUME NEW e \in Execs, Call(e)
        PROVE  Lock!LockNext \/ UNCHANGED <<leaseRef, ActiveCalls, Evicted>>
    BY <2>1, CallInLock DEF Lock!LockNext
  <2>2. CASE Others
    BY <2>2, OthersAsLock DEF Lock!LockNext
  <2>3. CASE Advance
    <3>1. \A e \in Execs : lostAge'[e] = None <=> lostAge[e] = None
      BY <2>3, ClockFacts, Names DEF Advance, OlderOrNone, LeaseInv, TypeOK, Ages
    <3>2. leaseRef' = leaseRef /\ phase' = phase /\ stop' = stop
      BY <2>3 DEF Advance
    <3> QED  BY <3>1, <3>2 DEF ActiveCalls, Evicted, Active
  <2>4. CASE UNCHANGED vars
    BY <2>4 DEF vars, row, timers, ActiveCalls, Evicted, Active
  <2> QED
    BY <2>1, <2>2, <2>3, <2>4 DEF Next
<1> QED
  BY <1>1, <1>2, LeaseInvariant, PTL DEF Spec, ImplementsLock, Lock!LockSpec
=============================================================================
