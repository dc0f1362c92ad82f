-------------------------- MODULE ScheduleAlarmProofs --------------------------
(***************************************************************************)
(* Theorems of ScheduleAlarm, for every set of patterns and windows, every *)
(* horizon and number of edits, and every limit on a handler that is not   *)
(* above the hour after which an occurrence is given up.                   *)
(*                                                                         *)
(* The argument.  A handler acts on what it read; each write that uses it  *)
(* asks for the revision it was read under, so what it carries fits the    *)
(* configuration whenever it is written (HandlerInv, its first parts).     *)
(* From its claim on, the occurrence is the handler's own: nobody else     *)
(* claims it again, and the sweep does not reach it within the handler's   *)
(* life, because the claim's instant is not before the handler's own       *)
(* start.  So the submission that follows meets a claim that is neither    *)
(* settled nor submitted (the last part), which is all the abstract        *)
(* ledger asks.                                                            *)
(***************************************************************************)
EXTENDS ScheduleAlarm, NatExtremes, TLAPS

\* The next nominal belongs to the pattern in force, and its run is not before it.
NominalInv ==
  nextNominal # None => nextNominal \in pattern /\ nextRun # None /\ nextRun >= nextNominal

\* What a handler carries.
HandlerInv ==
  /\ handler # Off => handler.began =< now /\ now =< handler.began + RunLimit
  /\ handler.at = "defers" => handler.due >= handler.nominal
  /\ handler.at = "claims" =>
       /\ handler.began =< handler.read /\ handler.due >= handler.next
       /\ handler.rev =< revision
       /\ handler.rev = revision => handler.next \in pattern
  /\ handler.at \in {"claimed", "submitted"} =>
       /\ occ[handler.nominal] = "started"
       /\ startedAt[handler.nominal] # None /\ startedAt[handler.nominal] >= handler.began
       /\ handler.at = "claimed" => submissions[handler.nominal] = 0

ReconInv == recon # Off => recon.due >= recon.nominal

\* Nothing is submitted without a claim.
OccurrenceInv == \A n \in Instants : occ[n] = None => submissions[n] = 0

AlarmInv == TypeOK /\ NominalInv /\ HandlerInv /\ ReconInv /\ OccurrenceInv

-----------------------------------------------------------------------------
(* The pure parts. *)

\* A pattern has a nominal after every instant before the last one.
LEMMA NextNominalIs ==
  ASSUME NEW p \in Patterns, NEW t \in Int, t < Last
  PROVE  NextNominal(p, t) \in p /\ NextNominal(p, t) \in Instants /\ NextNominal(p, t) > t
<1> DEFINE S == {n \in p : n > t}
<1>1. p \subseteq Instants /\ Last \in p /\ S \in SUBSET Nat
  BY Instance DEF Instants
<1>2. Last \in S
  BY <1>1
<1>3. Min(S) \in S
  BY <1>1, <1>2, MinOfNats
<1>4. NextNominal(p, t) = Min(S)
  BY DEF NextNominal
<1> QED
  BY <1>1, <1>3, <1>4

\* Maintenance puts an instant off to one that is not closed.
LEMMA AfterMaintenanceIs ==
  ASSUME closed \in Windows, NEW t \in Instants
  PROVE  /\ AfterMaintenance(t) \in Instants /\ AfterMaintenance(t) >= t
         /\ AfterMaintenance(t) \notin closed
<1> DEFINE S == {u \in t..Last : u \notin closed}
<1>1. Last \in Nat /\ t \in Nat /\ t =< Last /\ Last \notin closed
  BY Instance DEF Instants
<1>2. S \in SUBSET Nat /\ Last \in S
  BY <1>1
<1>3. Min(S) \in S
  BY <1>2, MinOfNats
<1>4. AfterMaintenance(t) = Min(S)
  BY DEF AfterMaintenance
<1> QED
  BY <1>1, <1>3, <1>4 DEF Instants

\* The run the row and the rules allow is not before now nor before the
\* nominal, and outside maintenance.
LEMMA DueIs ==
  ASSUME TypeOK, NominalInv, nextNominal # None
  PROVE  Due \in Instants /\ Due >= now /\ Due >= nextNominal /\ Due \notin closed
<1> DEFINE s == IF nextRun = None THEN nextNominal ELSE nextRun
<1>1. s \in Instants /\ s >= nextNominal /\ now \in Instants /\ nextNominal \in Instants
  BY Instance DEF TypeOK, NominalInv, Instants
<1> HIDE DEF s
<1>2. Later(s, now) \in Instants /\ Later(s, now) >= now /\ Later(s, now) >= nextNominal
  BY <1>1 DEF Later, Instants
<1>3. Due = AfterMaintenance(Later(s, now))
  BY DEF Due, s
<1>4. Due \in Instants /\ Due >= Later(s, now) /\ Due \notin closed
  BY <1>2, <1>3, AfterMaintenanceIs DEF TypeOK
<1> QED
  BY <1>1, <1>2, <1>4 DEF Instants

LEMMA Clocks ==
  ASSUME TypeOK
  PROVE  now \in Instants /\ now < Last /\ now + 1 \in Instants /\ Instants \subseteq Nat
         /\ None \notin Instants
BY Instance DEF TypeOK, Instants

\* What a handler's place says of the rest of it.
LEMMA HandlerIs ==
  ASSUME TypeOK
  PROVE  /\ handler # Off => handler.began \in Instants
         /\ handler.at = "defers" => /\ handler.rev \in 0..MaxRevision
                                     /\ handler.nominal \in Instants /\ handler.due \in Instants
         /\ handler.at = "claims" => /\ handler.read \in Instants /\ handler.rev \in 0..MaxRevision
                                     /\ handler.nominal \in Instants /\ handler.next \in Instants
                                     /\ handler.due \in Instants
         /\ handler.at \in {"claimed", "submitted"} => handler.nominal \in Instants
         /\ handler.at \in {"off", "entered", "defers", "claims", "claimed", "submitted"}
         /\ handler.at = "off" <=> handler = Off
BY DEF TypeOK, Handlers, Off

LEMMA ReconIs ==
  ASSUME TypeOK
  PROVE  recon # Off => /\ recon.rev \in 0..MaxRevision /\ recon.nominal \in Instants
                        /\ recon.due \in Instants
BY DEF TypeOK, Reconciles, Off

-----------------------------------------------------------------------------
(* The steps of the handler. *)

LEMMA AlarmInit == Init => AlarmInv
<1> SUFFICES ASSUME Init PROVE AlarmInv
  OBVIOUS
<1>1. TypeOK
  <2>1. 0 \in Instants /\ 0 \in 0..Horizon /\ 0 \in 0..MaxRevision
    BY Instance DEF Instants
  <2> QED  BY <2>1 DEF Init, TypeOK, Handlers, Reconciles
<1>2. NominalInv /\ HandlerInv /\ ReconInv /\ OccurrenceInv
  BY DEF Init, NominalInv, HandlerInv, ReconInv, OccurrenceInv, Off
<1> QED
  BY <1>1, <1>2 DEF AlarmInv

\* A handler may end at any step: what it leaves needs no more of it.
LEMMA Ends ==
  ASSUME handler' = Off
  PROVE  HandlerInv'
BY DEF HandlerInv, Off

LEMMA FiresStep ==
  ASSUME AlarmInv, AlarmFires
  PROVE  AlarmInv'
<1>1. /\ UNCHANGED <<now, enabled, revision, pattern, nextNominal, nextRun, closed, calm, occ,
                     startedAt, submissions, recon>>
      /\ alarm' = None /\ handler' = [at |-> "entered", began |-> now]
  BY DEF AlarmFires, schedule, world, occurrences
<1>2. now \in Instants
  BY Clocks DEF AlarmInv
<1>3. TypeOK'
  <2>1. handler' \in Handlers
    BY <1>1, <1>2 DEF Handlers
  <2> QED  BY <1>1, <2>1 DEF AlarmInv, TypeOK
<1>4. HandlerInv'
  <2>1. now =< now + RunLimit /\ now =< now
    BY <1>2, Clocks, Instance DEF AlarmInv
  <2> QED  BY <1>1, <2>1 DEF HandlerInv
<1> QED
  BY <1>1, <1>3, <1>4 DEF AlarmInv, NominalInv, ReconInv, OccurrenceInv

LEMMA ReadsStep ==
  ASSUME AlarmInv, AlarmReads
  PROVE  AlarmInv'
<1>1. UNCHANGED <<now, enabled, revision, pattern, nextNominal, nextRun, closed, calm, occ,
                  startedAt, submissions, recon>>
  BY DEF AlarmReads, schedule, world, occurrences
<1>2. /\ handler # Off /\ handler.began \in Instants /\ now \in Instants /\ None \notin Instants
      /\ handler.began =< now /\ now =< handler.began + RunLimit
  BY HandlerIs, Clocks DEF AlarmInv, HandlerInv, AlarmReads, Off
<1>3. SUFFICES alarm' \in Instants \cup {None} /\ handler' \in Handlers /\ HandlerInv'
  BY <1>1 DEF AlarmInv, TypeOK, NominalInv, ReconInv, OccurrenceInv
<1>4. CASE alarm' = None /\ handler' = Off
  BY <1>4, Ends DEF Handlers
<1>5. CASE /\ nextNominal # None /\ alarm' = Due
           /\ handler' = [at |-> "defers", began |-> handler.began, rev |-> revision,
                          nominal |-> nextNominal, due |-> Due]
  <2>1. Due \in Instants /\ Due >= nextNominal /\ nextNominal \in Instants /\ revision \in 0..MaxRevision
    BY <1>5, DueIs DEF AlarmInv, TypeOK
  <2>2. handler' \in Handlers
    BY <1>2, <1>5, <2>1 DEF Handlers
  <2>3. HandlerInv'
    BY <1>1, <1>2, <1>5, <2>1 DEF HandlerInv
  <2> QED  BY <1>5, <2>1, <2>2, <2>3
<1>6. CASE nextNominal # None /\ alarm' = nextNominal /\ handler' = Off
  BY <1>6, Ends DEF Handlers, AlarmInv, TypeOK
<1>7. CASE /\ nextNominal # None
           /\ alarm' = AfterMaintenance(NextNominal(pattern, now))
           /\ handler' = [at |-> "claims", began |-> handler.began, read |-> now,
                          rev |-> revision, nominal |-> nextNominal,
                          next |-> NextNominal(pattern, now),
                          due |-> AfterMaintenance(NextNominal(pattern, now))]
  <2> DEFINE next == NextNominal(pattern, now)
             due == AfterMaintenance(next)
  <2>1. next \in pattern /\ next \in Instants
    BY NextNominalIs, Clocks DEF AlarmInv, TypeOK
  <2>2. due \in Instants /\ due >= next
    BY <2>1, AfterMaintenanceIs DEF AlarmInv, TypeOK
  <2>3. nextNominal \in Instants /\ revision \in 0..MaxRevision /\ revision =< revision
    BY <1>7, Instance DEF AlarmInv, TypeOK
  <2>4. /\ alarm' = due
        /\ handler' = [at |-> "claims", began |-> handler.began, read |-> now,
                       rev |-> revision, nominal |-> nextNominal, next |-> next, due |-> due]
    BY <1>7
  <2> HIDE DEF next, due
  <2>5. handler' \in Handlers
    BY <1>2, <2>1, <2>2, <2>3, <2>4 DEF Handlers
  <2>6. HandlerInv'
    BY <1>1, <1>2, <2>1, <2>2, <2>3, <2>4 DEF HandlerInv
  <2> QED  BY <2>2, <2>4, <2>5, <2>6
<1> QED
  BY <1>4, <1>5, <1>6, <1>7 DEF AlarmReads

\* A run time is written only over the nominal it was computed for.
LEMMA MoveKeeps ==
  ASSUME TypeOK, NominalInv, NEW nominal \in Instants, NEW due \in Instants, due >= nominal,
         nextNominal' = nextNominal, pattern' = pattern,
         nextRun' = nextRun \/ (nextNominal = nominal /\ nextRun' = due)
  PROVE  NominalInv' /\ nextRun' \in Instants \cup {None}
BY Clocks DEF TypeOK, NominalInv

LEMMA DefersStep ==
  ASSUME AlarmInv, AlarmDefers
  PROVE  AlarmInv'
<1>1. /\ UNCHANGED <<now, enabled, revision, pattern, nextNominal, closed, calm, occ, startedAt,
                     submissions, alarm, recon>>
      /\ handler' = Off
      /\ nextRun' = nextRun \/ (nextNominal = handler.nominal /\ nextRun' = handler.due)
  BY DEF AlarmDefers, MoveRun, world, occurrences
<1>2. handler.nominal \in Instants /\ handler.due \in Instants /\ handler.due >= handler.nominal
  BY HandlerIs DEF AlarmInv, HandlerInv, AlarmDefers
<1>3. NominalInv' /\ nextRun' \in Instants \cup {None}
  BY <1>1, <1>2, MoveKeeps DEF AlarmInv
<1> QED
  BY <1>1, <1>3, Ends DEF AlarmInv, TypeOK, Handlers, ReconInv, OccurrenceInv

\* The claim batch, when it has run.
LEMMA ClaimKeeps ==
  ASSUME AlarmInv, handler.at = "claims", ClaimBatch(handler),
         UNCHANGED <<now, enabled, revision, pattern, closed, calm, submissions, recon>>,
         alarm' \in Instants \cup {None}, handler' \in Handlers
  PROVE  /\ TypeOK' /\ NominalInv' /\ ReconInv' /\ OccurrenceInv'
         /\ Claimable(handler) => /\ occ' = [occ EXCEPT ![handler.nominal] = "started"]
                                  /\ startedAt' = [startedAt EXCEPT ![handler.nominal] = handler.read]
<1>1. /\ handler.read \in Instants /\ handler.nominal \in Instants /\ handler.next \in Instants
      /\ handler.due \in Instants /\ handler.due >= handler.next
      /\ handler.rev = revision => handler.next \in pattern
  BY HandlerIs DEF AlarmInv, HandlerInv
<1>2. /\ nextNominal' \in Instants \cup {None} /\ nextRun' \in Instants \cup {None}
      /\ NominalInv'
  BY <1>1, Clocks DEF AlarmInv, TypeOK, NominalInv, ClaimBatch, Unchanged
<1>3. /\ occ' \in [Instants -> Terminal \cup {"started", None}]
      /\ startedAt' \in [Instants -> Instants \cup {None}]
      /\ \A n \in Instants : occ[n] # None => occ'[n] = occ[n]
      /\ \A n \in Instants : occ'[n] = None => occ[n] = None
  BY <1>1, NoRow DEF AlarmInv, TypeOK, ClaimBatch, Claimable
<1>4. TypeOK'
  BY <1>2, <1>3 DEF AlarmInv, TypeOK
<1>5. OccurrenceInv'
  BY <1>3 DEF AlarmInv, OccurrenceInv
<1> QED
  BY <1>2, <1>4, <1>5 DEF AlarmInv, ReconInv, ClaimBatch

LEMMA WonStep ==
  ASSUME AlarmInv, ClaimWon
  PROVE  AlarmInv'
<1>1. /\ UNCHANGED <<now, enabled, revision, pattern, closed, calm, submissions, alarm, recon>>
      /\ handler.at = "claims" /\ Claimable(handler) /\ ClaimBatch(handler)
      /\ handler' = [at |-> "claimed", began |-> handler.began, nominal |-> handler.nominal]
  BY DEF ClaimWon, world
<1>2. /\ handler # Off /\ handler.began \in Instants /\ handler.nominal \in Instants
      /\ handler.read \in Instants /\ handler.began =< handler.read
      /\ handler.began =< now /\ now =< handler.began + RunLimit
  BY <1>1, HandlerIs DEF AlarmInv, HandlerInv, Off
<1>3. handler' \in Handlers /\ alarm' \in Instants \cup {None}
  BY <1>1, <1>2 DEF Handlers, AlarmInv, TypeOK
<1>4. /\ TypeOK' /\ NominalInv' /\ ReconInv' /\ OccurrenceInv'
      /\ occ' = [occ EXCEPT ![handler.nominal] = "started"]
      /\ startedAt' = [startedAt EXCEPT ![handler.nominal] = handler.read]
  BY <1>1, <1>3, ClaimKeeps
<1>5. occ'[handler.nominal] = "started" /\ startedAt'[handler.nominal] = handler.read
  BY <1>2, <1>4 DEF AlarmInv, TypeOK
<1>6. submissions[handler.nominal] = 0 /\ handler.read # None
  BY <1>1, <1>2, Clocks DEF AlarmInv, OccurrenceInv, Claimable
<1>7. HandlerInv'
  BY <1>1, <1>2, <1>5, <1>6 DEF HandlerInv, Off
<1> QED
  BY <1>4, <1>7 DEF AlarmInv

\* What settles occurrences that were started keeps the rest.
LEMMA SettleKeeps ==
  ASSUME TypeOK, OccurrenceInv, submissions' = submissions,
         NEW n \in Instants, NEW outcome \in Terminal,
         occ' = [occ EXCEPT ![n] = IF @ = "started" THEN outcome ELSE @]
  PROVE  occ' \in [Instants -> Terminal \cup {"started", None}] /\ OccurrenceInv'
BY NoRow DEF TypeOK, OccurrenceInv

LEMMA RefusedStep ==
  ASSUME AlarmInv, ClaimRefused
  PROVE  AlarmInv'
<1>1. /\ UNCHANGED <<now, enabled, revision, pattern, closed, calm, startedAt, submissions, alarm, recon>>
      /\ handler' = Off
      /\ \/ Unchanged(handler) /\ nextNominal' = handler.next /\ nextRun' = handler.due
         \/ UNCHANGED <<nextNominal, nextRun>>
      /\ occ' = [occ EXCEPT ![handler.nominal] = IF @ = "started" THEN "uncertain" ELSE @]
  BY DEF ClaimRefused, world
<1>2. /\ handler.nominal \in Instants /\ handler.next \in Instants /\ handler.due \in Instants
      /\ handler.due >= handler.next
      /\ handler.rev = revision => handler.next \in pattern
  BY HandlerIs DEF AlarmInv, HandlerInv, ClaimRefused
<1>3. /\ nextNominal' \in Instants \cup {None} /\ nextRun' \in Instants \cup {None}
      /\ NominalInv'
  BY <1>1, <1>2, Clocks DEF AlarmInv, TypeOK, NominalInv, Unchanged
<1>4. occ' \in [Instants -> Terminal \cup {"started", None}] /\ OccurrenceInv'
  BY <1>1, <1>2, SettleKeeps DEF AlarmInv, Terminal
<1> QED
  BY <1>1, <1>3, <1>4, Ends DEF AlarmInv, TypeOK, Handlers, ReconInv

LEMMA BlockFailsStep ==
  ASSUME AlarmInv, BlockFails
  PROVE  AlarmInv'
<1>1. /\ UNCHANGED <<now, enabled, revision, pattern, closed, calm, submissions, recon>>
      /\ handler' = Off /\ alarm' \in Instants \cup {None} /\ handler' \in Handlers
  BY Clocks DEF BlockFails, Catch, world, AlarmInv, Handlers
<1>2. CASE handler.at = "claims" /\ ClaimBatch(handler)
  BY <1>1, <1>2, ClaimKeeps, Ends DEF AlarmInv
<1>3. CASE handler.at = "defers" /\ MoveRun(handler) /\ UNCHANGED <<nextNominal, occ, startedAt>>
  <2>1. handler.nominal \in Instants /\ handler.due \in Instants /\ handler.due >= handler.nominal
    BY <1>3, HandlerIs DEF AlarmInv, HandlerInv
  <2>2. NominalInv' /\ nextRun' \in Instants \cup {None}
    BY <1>1, <1>3, <2>1, MoveKeeps DEF AlarmInv, MoveRun
  <2> QED
    BY <1>1, <1>3, <2>2, Ends DEF AlarmInv, TypeOK, ReconInv, OccurrenceInv
<1>4. CASE UNCHANGED <<nextNominal, nextRun, occ, startedAt>>
  BY <1>1, <1>4, Ends DEF AlarmInv, TypeOK, NominalInv, ReconInv, OccurrenceInv
<1> QED
  BY <1>2, <1>3, <1>4 DEF BlockFails

LEMMA SubmitStep ==
  ASSUME AlarmInv, Submit
  PROVE  AlarmInv'
<1>1. /\ UNCHANGED <<now, enabled, revision, pattern, nextNominal, nextRun, closed, calm, occ,
                     startedAt, alarm, recon>>
      /\ handler.at = "claimed" /\ handler' = [handler EXCEPT !.at = "submitted"]
      /\ submissions' = [submissions EXCEPT ![handler.nominal] = @ + 1]
  BY DEF Submit, schedule, world
<1>2. handler \in [at : {"claimed", "submitted"}, began : Instants, nominal : Instants]
  BY <1>1 DEF AlarmInv, TypeOK, Handlers, Off
<1>3. /\ handler' \in [at : {"claimed", "submitted"}, began : Instants, nominal : Instants]
      /\ handler'.at = "submitted" /\ handler'.began = handler.began
      /\ handler'.nominal = handler.nominal
  BY <1>1, <1>2
<1>4. submissions' \in [Instants -> Nat]
  BY <1>1, <1>2 DEF AlarmInv, TypeOK
<1>5. TypeOK'
  BY <1>1, <1>3, <1>4 DEF AlarmInv, TypeOK, Handlers
<1>6. occ[handler.nominal] = "started"
  BY <1>1 DEF AlarmInv, HandlerInv
<1>7. OccurrenceInv'
  BY <1>1, <1>2, <1>6, NoRow DEF AlarmInv, TypeOK, OccurrenceInv
<1>8. HandlerInv'
  BY <1>1, <1>3 DEF AlarmInv, HandlerInv, Off
<1> QED
  BY <1>1, <1>5, <1>7, <1>8 DEF AlarmInv, NominalInv, ReconInv

\* Finish, and a last statement that fails.
LEMMA FinishStep ==
  ASSUME AlarmInv, Finish \/ FinishFails
  PROVE  AlarmInv'
<1>1. /\ UNCHANGED <<now, enabled, revision, pattern, nextNominal, nextRun, closed, calm,
                     startedAt, submissions, recon>>
      /\ handler' = Off /\ handler.at = "submitted"
      /\ alarm' = alarm \/ alarm' = now + 1
      /\ occ' = occ \/ \E outcome \in Terminal : Record(handler.nominal, outcome)
  BY DEF Finish, FinishFails, Catch, schedule, world
<1>2. handler.nominal \in Instants /\ alarm' \in Instants \cup {None}
  BY <1>1, HandlerIs, Clocks DEF AlarmInv, TypeOK
<1>3. occ' \in [Instants -> Terminal \cup {"started", None}] /\ OccurrenceInv'
  <2>1. CASE occ' = occ
    BY <1>1, <2>1 DEF AlarmInv, TypeOK, OccurrenceInv
  <2>2. CASE \E outcome \in Terminal : Record(handler.nominal, outcome)
    BY <1>1, <1>2, <2>2, SettleKeeps DEF AlarmInv, Record
  <2> QED  BY <1>1, <2>1, <2>2
<1> QED
  BY <1>1, <1>2, <1>3, Ends DEF AlarmInv, TypeOK, Handlers, NominalInv, ReconInv

LEMMA ResetStep ==
  ASSUME AlarmInv, Reset
  PROVE  AlarmInv'
<1>1. /\ UNCHANGED <<now, enabled, revision, pattern, nextNominal, nextRun, closed, calm, occ,
                     startedAt, submissions>>
      /\ handler' = Off /\ recon' = Off /\ alarm' \in {alarm, now}
  BY DEF Reset, schedule, world, occurrences
<1> QED
  BY <1>1, Clocks, Ends DEF AlarmInv, TypeOK, Handlers, Reconciles, NominalInv, ReconInv, OccurrenceInv

-----------------------------------------------------------------------------
(* The other steps. *)

\* A step that touches neither the handler nor what it is bound to.
LEMMA HandlerKept ==
  ASSUME HandlerInv,
         UNCHANGED <<now, revision, pattern, occ, startedAt, submissions, handler>>
  PROVE  HandlerInv'
BY DEF HandlerInv

LEMMA ReconcileReadsStep ==
  ASSUME AlarmInv, ReconcileReads
  PROVE  AlarmInv'
<1>1. UNCHANGED <<now, enabled, revision, pattern, nextNominal, nextRun, closed, calm, occ,
                  startedAt, submissions, handler>>
  BY DEF ReconcileReads, schedule, world, occurrences
<1>2. alarm' \in Instants \cup {None} /\ recon' \in Reconciles /\ ReconInv'
  <2>1. CASE ~enabled \/ nextNominal = None
    <3>1. alarm' = None /\ recon' = recon
      BY <2>1 DEF ReconcileReads
    <3> QED  BY <3>1 DEF AlarmInv, TypeOK, ReconInv
  <2>2. CASE enabled /\ nextNominal # None
    <3> DEFINE actual == AfterMaintenance(Later(AfterMaintenance(nextNominal), now))
    <3>1. nextNominal \in Instants /\ now \in Instants /\ closed \in Windows /\ revision \in 0..MaxRevision
      BY <2>2, Clocks DEF AlarmInv, TypeOK
    <3>2. AfterMaintenance(nextNominal) \in Instants /\ AfterMaintenance(nextNominal) >= nextNominal
      BY <3>1, AfterMaintenanceIs
    <3>3. /\ Later(AfterMaintenance(nextNominal), now) \in Instants
          /\ Later(AfterMaintenance(nextNominal), now) >= AfterMaintenance(nextNominal)
      BY <3>1, <3>2 DEF Later, Instants
    <3>4. actual \in Instants /\ actual >= Later(AfterMaintenance(nextNominal), now)
      BY <3>1, <3>3, AfterMaintenanceIs
    <3>5. actual >= nextNominal
      BY <3>1, <3>2, <3>3, <3>4 DEF Instants
    <3>6. /\ alarm' = actual
          /\ recon' = [at |-> "writes", rev |-> revision, nominal |-> nextNominal, due |-> actual]
      BY <2>2 DEF ReconcileReads
    <3> HIDE DEF actual
    <3> QED  BY <3>1, <3>4, <3>5, <3>6 DEF Reconciles, ReconInv
  <2> QED  BY <2>1, <2>2
<1> QED
  BY <1>1, <1>2, HandlerKept DEF AlarmInv, TypeOK, NominalInv, OccurrenceInv

LEMMA ReconcileWritesStep ==
  ASSUME AlarmInv, ReconcileWrites
  PROVE  AlarmInv'
<1>1. /\ UNCHANGED <<now, enabled, revision, pattern, nextNominal, closed, calm, occ, startedAt,
                     submissions, alarm, handler>>
      /\ recon' = Off /\ recon # Off
      /\ nextRun' = nextRun \/ (nextNominal = recon.nominal /\ nextRun' = recon.due)
  BY DEF ReconcileWrites, MoveRun, world, occurrences, Off
<1>2. recon.nominal \in Instants /\ recon.due \in Instants /\ recon.due >= recon.nominal
  BY <1>1, ReconIs DEF AlarmInv, ReconInv
<1>3. NominalInv' /\ nextRun' \in Instants \cup {None}
  BY <1>1, <1>2, MoveKeeps DEF AlarmInv
<1> QED
  BY <1>1, <1>3, HandlerKept DEF AlarmInv, TypeOK, Reconciles, ReconInv, OccurrenceInv

\* An edit is a revision of its own: what a handler carries is now for an
\* earlier one.
LEMMA EditStep ==
  ASSUME AlarmInv, Edit
  PROVE  AlarmInv'
<1>1. PICK on \in BOOLEAN, p \in Patterns, skew \in Skews :
        /\ enabled' = on /\ pattern' = p
        /\ nextNominal' = IF on THEN NextNominal(p, now + skew) ELSE None
        /\ nextRun' = IF on THEN AfterMaintenance(NextNominal(p, now + skew)) ELSE None
  BY DEF Edit
<1>2. /\ revision < MaxRevision /\ revision' = revision + 1
      /\ UNCHANGED <<now, closed, calm, occ, startedAt, submissions, alarm, handler, recon>>
  BY DEF Edit, world, occurrences
<1>3. revision \in 0..MaxRevision /\ revision' \in 0..MaxRevision /\ revision' > revision
  BY <1>2, Instance DEF AlarmInv, TypeOK
<1> DEFINE nominal == NextNominal(p, now + skew)
           run == AfterMaintenance(nominal)
<1>4. nominal \in p /\ nominal \in Instants
  <2>1. now \in Nat /\ now < Last /\ skew \in Int /\ skew =< 0
    BY Clocks, Instance DEF AlarmInv
  <2>2. now + skew \in Int /\ now + skew < Last
    BY <2>1, Instance
  <2> QED  BY <2>2, NextNominalIs
<1>5. run \in Instants /\ run >= nominal
  BY <1>4, AfterMaintenanceIs DEF AlarmInv, TypeOK
<1>6. /\ nextNominal' = IF on THEN nominal ELSE None
      /\ nextRun' = IF on THEN run ELSE None
  BY <1>1
<1> HIDE DEF nominal, run
<1>7. NominalInv' /\ nextNominal' \in Instants \cup {None} /\ nextRun' \in Instants \cup {None}
  BY <1>1, <1>4, <1>5, <1>6, Clocks DEF AlarmInv, NominalInv
<1>8. HandlerInv'
  <2>1. handler.at = "claims" => handler.rev < revision'
    BY <1>3, HandlerIs DEF AlarmInv, HandlerInv
  <2>2. handler.at = "claims" => handler.rev =< revision' /\ handler.rev # revision'
    BY <1>3, <2>1, HandlerIs DEF AlarmInv
  <2> QED  BY <1>2, <2>2 DEF AlarmInv, HandlerInv
<1> QED
  BY <1>1, <1>2, <1>3, <1>7, <1>8 DEF AlarmInv, TypeOK, ReconInv, OccurrenceInv

LEMMA InitializeStep ==
  ASSUME AlarmInv, Initialize
  PROVE  AlarmInv'
<1> DEFINE nominal == NextNominal(pattern, now + Lead)
           run == AfterMaintenance(nominal)
<1>1. /\ nextNominal' = nominal /\ nextRun' = run
      /\ UNCHANGED <<now, enabled, revision, pattern, closed, calm, occ, startedAt, submissions,
                     alarm, handler, recon>>
  BY DEF Initialize, world, occurrences
<1>2. now + Lead \in Int /\ now + Lead < Last
  BY Instance DEF AlarmInv, TypeOK
<1>3. nominal \in pattern /\ nominal \in Instants
  BY <1>2, NextNominalIs DEF AlarmInv, TypeOK
<1>4. run \in Instants /\ run >= nominal /\ run # None
  BY <1>3, AfterMaintenanceIs, Clocks DEF AlarmInv, TypeOK
<1> HIDE DEF nominal, run
<1> QED
  BY <1>1, <1>3, <1>4, HandlerKept DEF AlarmInv, TypeOK, NominalInv, ReconInv, OccurrenceInv

\* The occurrence a handler is at is too young to be given up.
LEMMA TooYoung ==
  ASSUME AlarmInv, handler.at \in {"claimed", "submitted"}
  PROVE  handler.nominal \notin Abandoned
<1>1. /\ handler.began \in Nat /\ handler.nominal \in Instants
      /\ startedAt[handler.nominal] \in Nat /\ startedAt[handler.nominal] >= handler.began
      /\ now =< handler.began + RunLimit /\ now \in Nat
  BY HandlerIs, Clocks DEF AlarmInv, HandlerInv, TypeOK, Off
<1> QED
  BY <1>1, Instance DEF Abandoned

LEMMA MarkStep ==
  ASSUME AlarmInv, MarkAbandoned
  PROVE  AlarmInv'
<1>1. /\ UNCHANGED <<now, enabled, revision, pattern, nextNominal, nextRun, closed, calm, startedAt,
                     submissions, alarm, handler, recon>>
      /\ occ' = [n \in Instants |-> IF n \in Abandoned THEN "uncertain" ELSE occ[n]]
  BY DEF MarkAbandoned, schedule, world
<1>2. occ' \in [Instants -> Terminal \cup {"started", None}]
  BY <1>1 DEF AlarmInv, TypeOK, Terminal
<1>3. \A n \in Instants : occ'[n] = None => occ[n] = None
  BY <1>1, NoRow DEF Terminal
<1>4. HandlerInv'
  <2>1. handler.at \in {"claimed", "submitted"} => occ'[handler.nominal] = occ[handler.nominal]
    BY <1>1, TooYoung, HandlerIs DEF AlarmInv
  <2> QED  BY <1>1, <2>1 DEF AlarmInv, HandlerInv
<1> QED
  BY <1>1, <1>2, <1>3, <1>4 DEF AlarmInv, TypeOK, NominalInv, ReconInv, OccurrenceInv

LEMMA AdvanceStep ==
  ASSUME AlarmInv, AdvanceTime
  PROVE  AlarmInv'
<1>1. /\ now < Horizon /\ now' = now + 1 /\ (handler # Off => now - handler.began < RunLimit)
      /\ UNCHANGED <<enabled, revision, pattern, nextNominal, nextRun, closed, calm, occ, startedAt,
                     submissions, alarm, handler, recon>>
  BY DEF AdvanceTime, schedule, world, occurrences
<1>2. now' \in 0..Horizon
  BY <1>1, Instance DEF AlarmInv, TypeOK
<1>3. HandlerInv'
  <2>1. handler # Off => handler.began \in Nat /\ now \in Nat
    BY HandlerIs, Clocks DEF AlarmInv
  <2>2. handler # Off => handler.began =< now' /\ now' =< handler.began + RunLimit
    BY <1>1, <2>1, Instance DEF AlarmInv, HandlerInv
  <2> QED  BY <1>1, <2>2 DEF AlarmInv, HandlerInv
<1> QED
  BY <1>1, <1>2, <1>3 DEF AlarmInv, TypeOK, NominalInv, ReconInv, OccurrenceInv

LEMMA AlarmStep == AlarmInv /\ [Next \/ Calms]_vars => AlarmInv'
<1> SUFFICES ASSUME AlarmInv, [Next \/ Calms]_vars PROVE AlarmInv'
  OBVIOUS
<1>1. CASE Handler
  BY <1>1, FiresStep, ReadsStep, DefersStep, WonStep, RefusedStep, BlockFailsStep, SubmitStep,
     FinishStep DEF Handler
<1>2. CASE EditRules \/ Calms
  <2>1. /\ UNCHANGED <<now, enabled, revision, pattern, nextNominal, nextRun, occ, startedAt,
                       submissions, alarm, handler, recon>>
        /\ closed' \in Windows /\ calm' \in BOOLEAN
    BY <1>2 DEF EditRules, Calms, schedule, occurrences, AlarmInv, TypeOK
  <2> QED
    BY <2>1, HandlerKept DEF AlarmInv, TypeOK, NominalInv, ReconInv, OccurrenceInv
<1>3. CASE UNCHANGED vars
  <2>1. UNCHANGED <<now, enabled, revision, pattern, nextNominal, nextRun, closed, calm, occ,
                    startedAt, submissions, alarm, handler, recon>>
    BY <1>3 DEF vars, schedule, world, occurrences
  <2> QED
    BY <2>1, HandlerKept DEF AlarmInv, TypeOK, NominalInv, ReconInv, OccurrenceInv
<1> QED
  BY <1>1, <1>2, <1>3, ResetStep, ReconcileReadsStep, ReconcileWritesStep, EditStep, InitializeStep,
     MarkStep, AdvanceStep DEF Next

-----------------------------------------------------------------------------
(* The theorems, for the specification with and without the assumption that *)
(* outages end.                                                             *)

LEMMA StepsAreSteps == [Next]_vars => [Next \/ Calms]_vars
OBVIOUS

\* The inductive invariant.
THEOREM AlarmInvariant == Spec \/ FairSpec => []AlarmInv
BY AlarmInit, AlarmStep, StepsAreSteps, PTL DEF Spec, FairSpec

\* The types of the rows, of the handler and of reconcile.
THEOREM AlarmTyping == Spec \/ FairSpec => []TypeOK
<1>1. AlarmInv => TypeOK
  BY DEF AlarmInv
<1> QED
  BY <1>1, AlarmInvariant, PTL

\* A run time computed for an earlier configuration or nominal is never written
\* over a newer one: next_run_at does not fall behind next_nominal_at.
THEOREM RunsFollow == Spec \/ FairSpec => []RunFollowsNominal
<1>1. AlarmInv => RunFollowsNominal
  BY DEF AlarmInv, NominalInv, RunFollowsNominal
<1> QED
  BY <1>1, AlarmInvariant, PTL

\* What a step does to the occurrences: nothing, a claim by a handler that has
\* read them, an outcome of one or of many started ones, or a submission.
LEMMA OccurrenceStep ==
  ASSUME AlarmInv, [Next \/ Calms]_vars
  PROVE  \/ UNCHANGED <<occ, submissions>>
         \/ /\ handler.at = "claims" /\ Claimable(handler) /\ handler.nominal \in Instants
            /\ occ' = [occ EXCEPT ![handler.nominal] = "started"]
            /\ submissions' = submissions
         \/ /\ \E n \in Instants, outcome \in Terminal :
                 occ[n] = "started" /\ occ' = [occ EXCEPT ![n] = outcome]
            /\ submissions' = submissions /\ ~MarkAbandoned
         \/ MarkAbandoned
         \/ Submit
<1>1. CASE ClaimWon \/ BlockFails
  <2>1. submissions' = submissions
    BY <1>1 DEF ClaimWon, BlockFails
  <2>2. \/ occ' = occ
        \/ handler.at = "claims" /\ Claimable(handler)
           /\ occ' = [occ EXCEPT ![handler.nominal] = "started"]
    BY <1>1 DEF ClaimWon, BlockFails, ClaimBatch
  <2>3. handler.at = "claims" => handler.nominal \in Instants
    BY HandlerIs DEF AlarmInv
  <2> QED  BY <2>1, <2>2, <2>3
<1>2. CASE ClaimRefused \/ Finish \/ FinishFails
  <2>1. submissions' = submissions /\ handler' = Off /\ handler # Off /\ handler.nominal \in Instants
    BY <1>2, HandlerIs DEF ClaimRefused, Finish, FinishFails, Catch, AlarmInv, Off
  <2>2. \/ occ' = occ
        \/ \E outcome \in Terminal :
             occ' = [occ EXCEPT ![handler.nominal] = IF @ = "started" THEN outcome ELSE @]
    BY <1>2 DEF ClaimRefused, Finish, FinishFails, Record, Terminal
  <2>3. ~MarkAbandoned
    BY <2>1 DEF MarkAbandoned
  <2>4. CASE occ[handler.nominal] = "started"
    BY <2>1, <2>2, <2>3, <2>4
  <2>5. CASE occ[handler.nominal] # "started"
    <3>1. occ' = occ
      BY <2>1, <2>2, <2>5 DEF AlarmInv, TypeOK
    <3> QED  BY <2>1, <3>1
  <2> QED  BY <2>4, <2>5
<1>3. CASE AlarmFires \/ AlarmReads \/ AlarmDefers \/ Reset \/ ReconcileReads \/ ReconcileWrites
           \/ Edit \/ EditRules \/ Initialize \/ AdvanceTime \/ Calms
  BY <1>3 DEF AlarmFires, AlarmReads, AlarmDefers, Reset, ReconcileReads, ReconcileWrites, Edit,
     EditRules, Initialize, AdvanceTime, Calms, occurrences
<1>4. CASE UNCHANGED vars
  BY <1>4 DEF vars, occurrences
<1> QED
  BY <1>1, <1>2, <1>3, <1>4 DEF Next, Handler

\* A late answer never turns an occurrence that was given up into a completed
\* one, nor the sweep a completed one into an uncertain one.
THEOREM OutcomesAreFinal == Spec \/ FairSpec => OutcomeIsFinal
<1>1. AlarmInv /\ [Next \/ Calms]_vars
        => [\A n \in Instants : occ[n] \in Terminal => occ'[n] = occ[n]]_vars
  <2> SUFFICES ASSUME AlarmInv, [Next \/ Calms]_vars, NEW n \in Instants, occ[n] \in Terminal
               PROVE  occ'[n] = occ[n]
    OBVIOUS
  <2>1. occ[n] # "started" /\ occ[n] # None
    BY NoRow DEF Terminal
  <2>2. MarkAbandoned => occ'[n] = occ[n]
    BY <2>1 DEF MarkAbandoned, Abandoned
  <2>3. Submit => occ'[n] = occ[n]
    BY DEF Submit
  <2> QED
    BY <2>1, <2>2, <2>3, OccurrenceStep DEF Claimable, AlarmInv, TypeOK
<1> QED
  BY <1>1, AlarmInvariant, StepsAreSteps, PTL DEF Spec, FairSpec, OutcomeIsFinal

\* An edit that lands while the handler decides wins: a claim is for a nominal
\* of the configuration in force.
THEOREM ClaimsFitTheConfig == Spec \/ FairSpec => ClaimsCurrentConfig
<1>1. AlarmInv /\ [Next \/ Calms]_vars
        => [\A n \in Instants : occ[n] = None /\ occ'[n] # None
              => enabled /\ nextNominal = n /\ n \in pattern]_vars
  <2> SUFFICES ASSUME AlarmInv, [Next \/ Calms]_vars, NEW n \in Instants, occ[n] = None, occ'[n] # None
               PROVE  enabled /\ nextNominal = n /\ n \in pattern
    OBVIOUS
  <2>1. occ[n] # "started"
    BY NoRow
  <2>2. ~MarkAbandoned /\ ~Submit
    BY <2>1 DEF MarkAbandoned, Abandoned, Submit
  <2>3. /\ handler.at = "claims" /\ Claimable(handler) /\ handler.nominal \in Instants
        /\ occ' = [occ EXCEPT ![handler.nominal] = "started"]
    BY <2>1, <2>2, OccurrenceStep DEF AlarmInv, TypeOK
  <2>4. n = handler.nominal
    BY <2>3 DEF AlarmInv, TypeOK
  <2>5. n # None
    BY Clocks DEF AlarmInv
  <2> QED
    BY <2>3, <2>4, <2>5 DEF Claimable, Unchanged, AlarmInv, NominalInv
<1> QED
  BY <1>1, AlarmInvariant, StepsAreSteps, PTL DEF Spec, FairSpec, ClaimsCurrentConfig

\* Nothing is claimed before its instant or inside a closed window.
THEOREM ClaimsWait == Spec \/ FairSpec => Waits
<1>1. AlarmInv /\ [Next \/ Calms]_vars
        => [handler.at = "entered" /\ handler'.at = "claims"
              => handler'.nominal =< now /\ now \notin closed]_vars
  <2> SUFFICES ASSUME AlarmInv, [Next \/ Calms]_vars, handler.at = "entered", handler'.at = "claims"
               PROVE  handler'.nominal =< now /\ now \notin closed
    OBVIOUS
  <2>1. handler' # handler /\ handler' # Off
    BY DEF Off
  <2>2. AlarmReads
    BY <2>1 DEF Next, Handler, vars, Calms, AlarmFires, AlarmDefers, ClaimWon, ClaimRefused,
       BlockFails, Catch, Submit, Finish, FinishFails, Reset, ReconcileReads, ReconcileWrites, Edit,
       EditRules, Initialize, MarkAbandoned, AdvanceTime, Off
  <2>3. nextNominal # None /\ Due =< now /\ nextNominal =< now /\ handler'.nominal = nextNominal
    BY <2>1, <2>2 DEF AlarmReads, Off
  <2>4. Due \in Nat /\ Due >= now /\ Due \notin closed /\ now \in Nat
    BY <2>3, DueIs, Clocks DEF AlarmInv
  <2> QED  BY <2>3, <2>4
<1> QED
  BY <1>1, AlarmInvariant, StepsAreSteps, PTL DEF Spec, FairSpec, Waits

\* The sweep never gives up an occurrence whose handler is still at it: a claim
\* is not older than the life of the handler that made it.
THEOREM SweepSparesTheLiving == Spec \/ FairSpec => AbandonedIsOver
<1>1. AlarmInv /\ [Next \/ Calms]_vars
        => [\A n \in Instants : MarkAbandoned /\ occ'[n] # occ[n]
              => ~(handler.at \in {"claimed", "submitted"} /\ handler.nominal = n)]_vars
  <2> SUFFICES ASSUME AlarmInv, NEW n \in Instants, MarkAbandoned, occ'[n] # occ[n],
                      handler.at \in {"claimed", "submitted"}, handler.nominal = n
               PROVE  FALSE
    BY Zenon
  <2>1. n \notin Abandoned
    BY TooYoung
  <2> QED  BY <2>1 DEF MarkAbandoned
<1> QED
  BY <1>1, AlarmInvariant, StepsAreSteps, PTL DEF Spec, FairSpec, AbandonedIsOver

-----------------------------------------------------------------------------
(* The ledger of AtMostOnce. *)

\* The status the occurrences have there.
LedgerStatus == [n \in Instants |-> CASE occ[n] = None -> "open"
                                      [] occ[n] = "started" -> "claimed"
                                      [] OTHER -> "settled"]

LEMMA StatusIs ==
  ASSUME NEW n \in Instants
  PROVE  /\ occ[n] = None => LedgerStatus[n] = "open"
         /\ occ[n] = "started" => LedgerStatus[n] = "claimed"
         /\ occ[n] \in Terminal => LedgerStatus[n] = "settled"
         /\ occ'[n] = None => LedgerStatus'[n] = "open"
         /\ occ'[n] = "started" => LedgerStatus'[n] = "claimed"
         /\ occ'[n] \in Terminal => LedgerStatus'[n] = "settled"
         /\ occ'[n] = occ[n] => LedgerStatus'[n] = LedgerStatus[n]
<1>1. "started" # None /\ \A o \in Terminal : o # None /\ o # "started"
  BY NoRow DEF Terminal
<1>2. /\ LedgerStatus[n] = CASE occ[n] = None -> "open"
                             [] occ[n] = "started" -> "claimed"
                             [] OTHER -> "settled"
      /\ LedgerStatus'[n] = CASE occ'[n] = None -> "open"
                              [] occ'[n] = "started" -> "claimed"
                              [] OTHER -> "settled"
  BY DEF LedgerStatus
<1> QED
  BY <1>1, <1>2

\* Outcomes of some occurrences that were started settle them.
LEMMA SettlesInLedger ==
  ASSUME TypeOK, NEW S \in SUBSET Instants, submissions' = submissions,
         \A n \in S : occ[n] = "started" /\ occ'[n] \in Terminal,
         \A n \in Instants \ S : occ'[n] = occ[n]
  PROVE  Ledger!Settle(S)
<1>1. \A n \in S : LedgerStatus[n] = "claimed" /\ LedgerStatus'[n] = "settled"
  BY StatusIs
<1>2. \A n \in Instants \ S : LedgerStatus'[n] = LedgerStatus[n]
  BY StatusIs
<1>3. LedgerStatus' = [n \in Instants |-> IF n \in S THEN "settled" ELSE LedgerStatus[n]]
  <2>1. LedgerStatus' = [n \in Instants |-> LedgerStatus'[n]]
    BY DEF LedgerStatus
  <2> QED  BY <1>1, <1>2, <2>1
<1> QED
  BY <1>1, <1>3 DEF Ledger!Settle, LedgerStatus

LEMMA StepInLedger ==
  ASSUME AlarmInv, [Next \/ Calms]_vars
  PROVE  Ledger!LedgerNext \/ UNCHANGED <<LedgerStatus, submissions>>
<1>1. TypeOK /\ OccurrenceInv /\ HandlerInv
  BY DEF AlarmInv
<1>2. CASE UNCHANGED <<occ, submissions>>
  BY <1>2 DEF LedgerStatus
<1>3. CASE /\ handler.at = "claims" /\ Claimable(handler) /\ handler.nominal \in Instants
           /\ occ' = [occ EXCEPT ![handler.nominal] = "started"] /\ submissions' = submissions
  <2>0. PICK n \in Instants : n = handler.nominal
    BY <1>3
  <2>1. occ[n] = None /\ occ'[n] = "started" /\ \A m \in Instants \ {n} : occ'[m] = occ[m]
    BY <1>1, <1>3, <2>0 DEF Claimable, TypeOK
  <2>2. LedgerStatus[n] = "open" /\ LedgerStatus'[n] = "claimed"
        /\ \A m \in Instants \ {n} : LedgerStatus'[m] = LedgerStatus[m]
    BY <1>3, <2>1, StatusIs
  <2>3. LedgerStatus' = [LedgerStatus EXCEPT ![n] = "claimed"]
    <3>1. /\ LedgerStatus = [m \in Instants |-> LedgerStatus[m]]
          /\ LedgerStatus' = [m \in Instants |-> LedgerStatus'[m]]
      BY DEF LedgerStatus
    <3> QED  BY <2>2, <3>1
  <2>4. Ledger!Claim(n)
    BY <1>3, <2>2, <2>3 DEF Ledger!Claim, LedgerStatus
  <2> QED  BY <2>4 DEF Ledger!LedgerNext
<1>4. CASE /\ \E n \in Instants, outcome \in Terminal :
                 occ[n] = "started" /\ occ' = [occ EXCEPT ![n] = outcome]
           /\ submissions' = submissions
  <2>1. PICK n \in Instants, outcome \in Terminal :
          occ[n] = "started" /\ occ' = [occ EXCEPT ![n] = outcome]
    BY <1>4
  <2>2. occ'[n] \in Terminal /\ \A m \in Instants \ {n} : occ'[m] = occ[m]
    BY <1>1, <2>1 DEF TypeOK
  <2>3. Ledger!Settle({n})
    BY <1>1, <1>4, <2>1, <2>2, SettlesInLedger
  <2> QED  BY <2>3 DEF Ledger!LedgerNext
<1>5. CASE MarkAbandoned
  <2>1. PICK S \in SUBSET Instants : S = Abandoned
    BY DEF Abandoned
  <2>2. /\ submissions' = submissions
        /\ \A n \in S : occ[n] = "started" /\ occ'[n] \in Terminal
        /\ \A n \in Instants \ S : occ'[n] = occ[n]
    BY <1>5, <2>1 DEF MarkAbandoned, Abandoned, Terminal
  <2>3. Ledger!Settle(S)
    BY <1>1, <2>2, SettlesInLedger
  <2> QED  BY <2>3 DEF Ledger!LedgerNext
<1>6. CASE Submit
  <2>0. PICK n \in Instants : n = handler.nominal
    BY <1>1, <1>6, HandlerIs DEF Submit
  <2>1. /\ handler.at = "claimed" /\ occ' = occ
        /\ submissions' = [submissions EXCEPT ![n] = @ + 1]
    BY <1>6, <2>0 DEF Submit
  <2>2. occ[n] = "started" /\ submissions[n] = 0
    BY <1>1, <2>0, <2>1 DEF HandlerInv
  <2>3. submissions' = [submissions EXCEPT ![n] = 1] /\ LedgerStatus[n] = "claimed"
        /\ LedgerStatus' = LedgerStatus
    BY <2>1, <2>2, StatusIs DEF LedgerStatus
  <2>4. Ledger!Contact(n)
    BY <2>2, <2>3 DEF Ledger!Contact, LedgerStatus
  <2> QED  BY <2>4 DEF Ledger!LedgerNext
<1> QED
  BY <1>2, <1>3, <1>4, <1>5, <1>6, OccurrenceStep

\* Through resets, retried alarms, lost answers and edits that bring an instant
\* back, a nominal instant is submitted at most once and only under its own
\* claim: the alarm implements AtMostOnce.
THEOREM AlarmSubmitsOnce == Spec \/ FairSpec => SubmitsOnce
<1>1. Init => Ledger!LedgerInit
  <2> SUFFICES ASSUME Init PROVE Ledger!LedgerInit
    OBVIOUS
  <2>1. \A n \in Instants : LedgerStatus[n] = "open"
    BY StatusIs DEF Init
  <2>2. LedgerStatus = [n \in Instants |-> "open"]
    BY <2>1 DEF LedgerStatus
  <2> QED  BY <2>2 DEF Init, Ledger!LedgerInit, LedgerStatus
<1>2. AlarmInv /\ [Next \/ Calms]_vars => [Ledger!LedgerNext]_(Ledger!ledger)
  BY StepInLedger DEF Ledger!ledger, LedgerStatus
<1> QED
  BY <1>1, <1>2, AlarmInvariant, StepsAreSteps, PTL
     DEF Spec, FairSpec, SubmitsOnce, Ledger!LedgerSpec
=============================================================================
