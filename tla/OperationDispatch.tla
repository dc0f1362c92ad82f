-------------------------- MODULE OperationDispatch --------------------------
(***************************************************************************)
(* The Processor's dispatch lane for accepted collection, session-refresh  *)
(* and import requests: services/processor/src/operations/dispatch.ts and  *)
(* the services it calls in packages/application/src/operations            *)
(* (collector-dispatch.ts, collector-trail.ts, requests.ts), over the rows *)
(* ops_requests, ops_request_stages and ops_collector_dispatches.          *)
(*                                                                         *)
(* A tick is one pass of the lane.  Every D1 batch is one step, and the    *)
(* tick may stop between any two of them; two passes may overlap, which the*)
(* code calls a raced tick.  Clocks appear as facts that become true: a    *)
(* request is overdue (24 hours), a start is old (60 minutes), a collected *)
(* run's horizon has passed (48 hours).                                    *)
(***************************************************************************)
EXTENDS Naturals, Sequences, FiniteSets

CONSTANTS
  Ticks,     \* passes of the lane that may overlap
  Collect,   \* collection requests
  Refresh,   \* unattended session-refresh requests
  Import,    \* import requests
  Asked,     \* the sets of requests that may have been accepted
  Runs,      \* which trails a reported run may show
  LongCalls, \* whether a pass may still be in its call an hour after the start
  None       \* no row, nothing at hand

Ops == Collect \cup Refresh \cup Import

VARIABLES
  status, dispatch, available, \* of each request: its row in ops_requests
  stages,                      \* its rows in ops_request_stages
  row,                         \* its row's state in ops_collector_dispatches
  trail,                       \* what CORE shows of the run the collector reported
  calls,                       \* how often the collector was called for it
  asked,                       \* the requests that were accepted
  overdue, old, horizon,       \* which of the three deadlines have passed
  calm,                        \* no pass is stopped any more
  todo,                        \* requests each tick has read and not yet handled
  startsLeft,                  \* collector calls each tick may still start
  pc                           \* where each tick is

request == <<status, dispatch, available>>
outside == <<asked, overdue, old, horizon, calm>>
vars == <<request, stages, row, trail, calls, outside, todo, startsLeft, pc>>

Over == {"completed", "failed", "blocked"}
Declined == {"expired", "unsupported"}
Untouched == {None, "waiting"}
Ended == Declined \cup {"refreshed", "failed", "uncertain", "published", "unpublished"}

\* Where a run is on its way to publication; "unreported" is no run at all.
Settled == {"unreported", "blocked", "published", "unadopted", "unparsed"}
Trails == Settled \cup {"registering", "parsing"}

ASSUME Requests == /\ Collect \cap Refresh = {} /\ (Collect \cup Refresh) \cap Import = {}
                   /\ None \notin Ops /\ LongCalls \in BOOLEAN /\ Asked \subseteq SUBSET Ops
                   /\ Runs \subseteq Trails \ {"unreported"}

Ladder == <<"registered", "parsed", "adopted">>
Stages == {"persisted", "registered", "parsed", "adopted", "projected"}

\* STAGES_BY_KIND
Required(op) == IF op \in Collect THEN Stages
                ELSE IF op \in Import THEN Stages \ {"persisted"} ELSE {}

Results == {"collected", "refreshed", "failed", "uncertain"}

ASSUME NoRow == None \notin Declined \cup Results \cup {"waiting", "started", "published", "unpublished"}

Places ==
  [at : {"idle", "next", "abandon", "track"}]
  \cup [at : {"look", "decide", "requeue", "declined", "calling", "called", "persist", "registered"},
        op : Ops]
  \cup [at : {"inStep"}, op : Ops, as : {"failed", "dispatched"}]
  \cup [at : {"read"}, op : Ops, trail : Trails, late : BOOLEAN]
  \cup [at : {"sync"}, op : Ops, writes : Seq([stage : Stages, state : {"completed", "blocked"}]),
        ends : {"published", "unpublished", "collected"}]

TypeOK ==
  /\ status \in [Ops -> Over \cup {"accepted", "running"}]
  /\ dispatch \in [Ops -> {"dispatch_pending", "dispatched", "dispatch_failed"}]
  /\ available \in [Ops -> BOOLEAN]
  /\ stages \in [Ops -> [Stages -> {"pending", "completed", "blocked"}]]
  /\ row \in [Ops -> Untouched \cup Declined \cup Results
                      \cup {"started", "published", "unpublished"}]
  /\ trail \in [Ops -> Trails]
  /\ calls \in [Ops -> Nat]
  /\ asked \in Asked
  /\ overdue \in [Ops -> BOOLEAN] /\ old \in [Ops -> BOOLEAN] /\ horizon \in [Ops -> BOOLEAN]
  /\ calm \in BOOLEAN
  /\ todo \in [Ticks -> SUBSET Ops]
  /\ startsLeft \in [Ticks -> 0..1]
  /\ pc \in [Ticks -> Places]

At(place) == [at |-> place]
On(place, op) == [at |-> place, op |-> op]
Idle == At("idle")
MoveTo(t, place) == pc' = [pc EXCEPT ![t] = place]

\* The lane ends, or a statement throws and the rest of the pass is lost.
Quit(t) == /\ pc' = [pc EXCEPT ![t] = Idle]
           /\ todo' = [todo EXCEPT ![t] = {}]

Init ==
  /\ status = [op \in Ops |-> "accepted"]
  /\ dispatch = [op \in Ops |-> "dispatch_pending"]
  /\ available = [op \in Ops |-> TRUE]
  /\ stages = [op \in Ops |-> [s \in Stages |-> "pending"]]
  /\ row = [op \in Ops |-> None]
  /\ trail = [op \in Ops |-> "registering"]
  /\ calls = [op \in Ops |-> 0]
  /\ asked \in Asked
  /\ overdue = [op \in Ops |-> FALSE]
  /\ old = [op \in Ops |-> FALSE]
  /\ horizon = [op \in Ops |-> FALSE]
  /\ calm = FALSE
  /\ todo = [t \in Ticks |-> {}]
  /\ startsLeft = [t \in Ticks |-> 1]
  /\ pc = [t \in Ticks |-> Idle]

-----------------------------------------------------------------------------
(* The services, as what one batch does to the rows. *)

\* recordDispatch: one guarded UPDATE of a request that is not over.
RecordDispatch(op, outcome) ==
  IF status[op] \in Over THEN UNCHANGED request
  ELSE /\ dispatch' = [dispatch EXCEPT ![op] =
            CASE outcome = "dispatched" -> "dispatched"
              [] outcome = "retry" -> "dispatch_pending"
              [] OTHER -> "dispatch_failed"]
       /\ available' = [available EXCEPT ![op] = outcome # "retry"]
       /\ status' = [status EXCEPT ![op] = IF outcome = "failed" THEN "blocked" ELSE @]

\* failRequest: the request ends with its execution.
FailRequest(op) == /\ status' = [status EXCEPT ![op] = IF @ \in Over THEN @ ELSE "failed"]
                   /\ UNCHANGED <<dispatch, available>>

\* recordOperationStage: the stage, and the request once its kind's are all done.
RecordStage(op, stage, state) ==
  /\ stages' = [stages EXCEPT ![op][stage] = state]
  /\ status' = [status EXCEPT ![op] =
       IF @ \notin Over /\ Required(op) # {}
          /\ \A s \in Required(op) : stages'[op][s] = "completed"
       THEN "completed" ELSE @]
  /\ UNCHANGED <<dispatch, available>>

\* The trigger of 0040: a completed stage is never reopened.
MayReopen(op, stage, state) == TRUE

MayRecord(op, stage, state) == stages[op][stage] = "completed" => state = "completed"

-----------------------------------------------------------------------------
(* One pass: the queue, then each request in turn. *)

\* pendingDispatches.
TickReads(t) ==
  /\ pc[t] = Idle
  /\ todo' = [todo EXCEPT ![t] = {op \in asked : dispatch[op] = "dispatch_pending" /\ available[op]}]
  /\ startsLeft' = [startsLeft EXCEPT ![t] = 1]
  /\ MoveTo(t, At("next"))
  /\ UNCHANGED <<request, stages, row, trail, calls, outside>>

Rest == <<stages, row, trail, calls, outside, startsLeft>>

TickTakes(t) ==
  /\ pc[t] = At("next")
  /\ \E op \in todo[t] :
       /\ todo' = [todo EXCEPT ![t] = @ \ {op}]
       /\ MoveTo(t, On("look", op))
  /\ UNCHANGED <<request, Rest>>

\* The queue is empty: trackCollectors begins with the starts that grew old.
AbandonReads(t) ==
  /\ pc[t] = At("next") /\ todo[t] = {}
  /\ todo' = [todo EXCEPT ![t] = {op \in Ops : row[op] = "started" /\ old[op]}]
  /\ MoveTo(t, At("abandon"))
  /\ UNCHANGED <<request, Rest>>

\* What the request is told of an execution that has left the queue.
RowAsIs(op) == row[op]

AlwaysDispatched(op) == "dispatched"

InStepAs(op) == IF row[op] \in Declined THEN "failed" ELSE "dispatched"

\* dispatchCollector reads its row: an execution that left the queue is only
\* brought in step.
Looks(t) ==
  /\ pc[t].at = "look" /\ pc[t].op \notin Import
  /\ LET op == pc[t].op IN
     MoveTo(t, IF row[op] \in Untouched THEN On("decide", op)
               ELSE [at |-> "inStep", op |-> op, as |-> InStepAs(op)])
  /\ UNCHANGED <<request, Rest, todo>>

BringsInStep(t) ==
  /\ pc[t].at = "inStep"
  /\ RecordDispatch(pc[t].op, pc[t].as)
  /\ MoveTo(t, At("next"))
  /\ UNCHANGED <<Rest, todo>>

\* recordCollectorDeclined, its first batch: no connection or no binding serves
\* the request in this deployment, or its time is up.  The row is born declined
\* or moves there from waiting.
Declines(t) ==
  /\ pc[t].at = "decide"
  /\ LET op == pc[t].op IN
     \E as \in {"unsupported"} \cup (IF overdue[op] THEN {"expired"} ELSE {}) :
       IF row[op] \in Untouched
       THEN /\ row' = [row EXCEPT ![op] = as]
            /\ MoveTo(t, On("declined", op))
       ELSE MoveTo(t, At("next")) /\ UNCHANGED row
  /\ UNCHANGED <<request, stages, trail, calls, outside, todo, startsLeft>>

DeclineReaches(t) ==
  /\ pc[t].at = "declined"
  /\ RecordDispatch(pc[t].op, "failed")
  /\ MoveTo(t, At("next"))
  /\ UNCHANGED <<Rest, todo>>

\* recordCollectorWait, its first batch: not enabled, maintenance, a held
\* lease, or this tick has started one already.
Waits(t) ==
  /\ pc[t].at = "decide"
  /\ LET op == pc[t].op IN
     /\ ~overdue[op]
     /\ IF row[op] \in Untouched
        THEN /\ row' = [row EXCEPT ![op] = "waiting"]
             /\ MoveTo(t, On("requeue", op))
        ELSE MoveTo(t, At("next")) /\ UNCHANGED row
  /\ UNCHANGED <<request, stages, trail, calls, outside, todo, startsLeft>>

Requeues(t) ==
  /\ pc[t].at = "requeue"
  /\ RecordDispatch(pc[t].op, "retry")
  /\ MoveTo(t, At("next"))
  /\ UNCHANGED <<Rest, todo>>

\* claimCollectorStart: one batch for the row and the request.
ClaimableAgain(op) == row[op] \in Untouched \cup {"started"}

ClaimableDeclined(op) == row[op] \in Untouched \cup Declined

Claimable(op) == row[op] \in Untouched

MayStart(t) == startsLeft[t] > 0

Claims(t) ==
  /\ pc[t].at = "decide" /\ MayStart(t)
  /\ LET op == pc[t].op IN
     /\ ~overdue[op]
     /\ IF Claimable(op)
        THEN /\ row' = [row EXCEPT ![op] = "started"]
             /\ IF status[op] \in Over THEN UNCHANGED request
                ELSE /\ status' = [status EXCEPT ![op] = "running"]
                     /\ dispatch' = [dispatch EXCEPT ![op] = "dispatched"]
                     /\ available' = [available EXCEPT ![op] = TRUE]
             /\ startsLeft' = [startsLeft EXCEPT ![t] = @ - 1]
             /\ MoveTo(t, On("calling", op))
        ELSE MoveTo(t, At("next")) /\ UNCHANGED <<row, request, startsLeft>>
  /\ UNCHANGED <<stages, trail, calls, outside, todo>>

\* rpc.runOperation
Calls(t) ==
  /\ pc[t].at = "calling"
  /\ calls' = [calls EXCEPT ![pc[t].op] = @ + 1]
  /\ MoveTo(t, On("called", pc[t].op))
  /\ UNCHANGED <<request, stages, row, trail, outside, todo, startsLeft>>

\* recordCollectorOutcome: what the collector answered, or uncertain; only a
\* row still started takes it.  A collection may report no run.
TakenLate(op, result) == result

Taken(op, result) == IF row[op] = "started" THEN result ELSE row[op]

Answers(op) == {IF op \in Collect THEN "collected" ELSE "refreshed", "failed", "uncertain"}

Records(t) ==
  /\ pc[t].at = "called"
  /\ LET op == pc[t].op IN
     \E result \in Answers(op) :
       /\ row' = [row EXCEPT ![op] = Taken(op, result)]
       /\ CASE result = "collected" ->
                 IF row[op] = "started"
                 THEN /\ trail' \in {trail, [trail EXCEPT ![op] = "unreported"]}
                      /\ MoveTo(t, On("persist", op))
                      /\ UNCHANGED request
                 ELSE MoveTo(t, At("next")) /\ UNCHANGED <<trail, request>>
            [] result = "refreshed" ->
                 /\ status' = [status EXCEPT ![op] =
                      IF @ = "running" /\ row'[op] = "refreshed" THEN "completed" ELSE @]
                 /\ MoveTo(t, At("next"))
                 /\ UNCHANGED <<trail, dispatch, available>>
            [] OTHER ->
                 /\ FailRequest(op)
                 /\ MoveTo(t, At("next"))
                 /\ UNCHANGED trail
  /\ UNCHANGED <<stages, calls, outside, todo, startsLeft>>

Persists(t) ==
  /\ pc[t].at = "persist"
  /\ RecordStage(pc[t].op, "persisted", "completed")
  /\ MoveTo(t, At("next"))
  /\ UNCHANGED <<row, trail, calls, outside, todo, startsLeft>>

-----------------------------------------------------------------------------
(* dispatchImport: re-registration in process, external but for its outcome. *)

\* Registered, or registered before: the dispatch, then the stage.
ImportRegisters(t) ==
  /\ pc[t].at = "look" /\ pc[t].op \in Import
  /\ RecordDispatch(pc[t].op, "dispatched")
  /\ MoveTo(t, On("registered", pc[t].op))
  /\ UNCHANGED <<Rest, todo>>

ImportStage(t) ==
  /\ pc[t].at = "registered"
  /\ RecordStage(pc[t].op, "registered", "completed")
  /\ MoveTo(t, At("next"))
  /\ UNCHANGED <<row, trail, calls, outside, todo, startsLeft>>

\* Retryable, deferred, or no terminal yet.
ImportRetries(t) ==
  /\ pc[t].at = "look" /\ pc[t].op \in Import
  /\ MoveTo(t, On("requeue", pc[t].op))
  /\ UNCHANGED <<request, Rest, todo>>

\* Pending or blocked: the stage first, then the request waits or fails.
ImportStalls(t) ==
  /\ pc[t].at = "look" /\ pc[t].op \in Import
  /\ \E state \in {"pending", "blocked"} :
       IF MayRecord(pc[t].op, "registered", state)
       THEN /\ RecordStage(pc[t].op, "registered", state)
            /\ MoveTo(t, On(IF state = "pending" THEN "requeue" ELSE "declined", pc[t].op))
            /\ UNCHANGED todo
       ELSE Quit(t) /\ UNCHANGED <<request, stages>>
  /\ UNCHANGED <<row, trail, calls, outside, startsLeft>>

-----------------------------------------------------------------------------
(* trackCollectors. *)

\* abandonStartedCollectorDispatches: one batch for each row of the list, whose
\* first statement asks again whether the row is still started.
Abandons(t) ==
  /\ pc[t] = At("abandon")
  /\ \E op \in todo[t] :
       /\ todo' = [todo EXCEPT ![t] = @ \ {op}]
       /\ row' = [row EXCEPT ![op] = IF @ = "started" THEN "uncertain" ELSE @]
       /\ FailRequest(op)
  /\ UNCHANGED <<stages, trail, calls, outside, startsLeft, pc>>

\* collectedDispatchesDue.  A row that is not due, or beyond the limit, is one
\* this pass stops before.
DueReads(t) ==
  /\ pc[t] = At("abandon") /\ todo[t] = {}
  /\ todo' = [todo EXCEPT ![t] = {op \in Ops : row[op] = "collected"}]
  /\ MoveTo(t, At("track"))
  /\ UNCHANGED <<request, Rest>>

\* trackCollectorPublication reads the row and the trail of its run.
TrackReads(t) ==
  /\ pc[t] = At("track")
  /\ \E op \in todo[t] :
       /\ todo' = [todo EXCEPT ![t] = @ \ {op}]
       /\ IF row[op] = "collected"
          THEN MoveTo(t, [at |-> "read", op |-> op, trail |-> trail[op], late |-> horizon[op]])
          ELSE UNCHANGED pc
  /\ UNCHANGED <<request, Rest>>

TrackEnds(t) ==
  /\ pc[t] = At("track") /\ todo[t] = {}
  /\ Quit(t)
  /\ UNCHANGED <<request, Rest>>

\* trailOutcome: the verdict of one run on a stage.
Verdict(run, stage) ==
  CASE run = "unreported"  -> IF stage = "registered" THEN "blocked" ELSE "pending"
    [] run = "registering" -> "pending"
    [] run = "blocked"     -> IF stage = "parsed" THEN "pending" ELSE "blocked"
    [] run = "parsing"     -> IF stage = "registered" THEN "completed" ELSE "pending"
    [] run = "published"   -> "completed"
    [] run = "unadopted"   -> IF stage = "adopted" THEN "blocked" ELSE "completed"
    [] run = "unparsed"    -> IF stage = "registered" THEN "completed" ELSE "blocked"

\* Past the horizon the first stage nobody reached is blocked.
FirstPending(run) == CHOOSE i \in 1..3 :
  Verdict(run, Ladder[i]) = "pending" /\ \A j \in 1..(i - 1) : Verdict(run, Ladder[j]) # "pending"

SyncVerdict(run, late, i) ==
  IF late /\ run \notin Settled /\ i = FirstPending(run) THEN "blocked" ELSE Verdict(run, Ladder[i])

\* Whether anything more is expected of this execution.
OnlyPublished(run, late) == IF run = "published" THEN "published" ELSE "collected"

Conclusion(run, late) == CASE run = "published" -> "published"
                           [] run # "published" /\ (run \in Settled \/ late) -> "unpublished"
                           [] OTHER -> "collected"

\* syncStages reads what is stored and writes, in the ladder's order, each
\* verdict that is news; a block may be news for its reason.
SyncReads(t) ==
  /\ pc[t].at = "read"
  /\ \E again \in BOOLEAN :
       LET p == pc[t]
           stored(i) == stages[p.op][Ladder[i]]
           verdict(i) == SyncVerdict(p.trail, p.late, i)
           news(i) == /\ stored(i) # "completed" /\ verdict(i) # "pending"
                      /\ verdict(i) = stored(i) => again
           write(i) == IF news(i) THEN <<[stage |-> Ladder[i], state |-> verdict(i)]>> ELSE <<>>
       IN MoveTo(t, [at |-> "sync", op |-> p.op, writes |-> write(1) \o write(2) \o write(3),
                     ends |-> Conclusion(p.trail, p.late)])
  /\ UNCHANGED <<request, Rest, todo>>

\* The trigger refuses a write that would reopen a stage completed meanwhile.
SyncWrites(t) ==
  /\ pc[t].at = "sync" /\ pc[t].writes # <<>>
  /\ LET op == pc[t].op
         write == Head(pc[t].writes)
     IN IF MayRecord(op, write.stage, write.state)
        THEN /\ RecordStage(op, write.stage, write.state)
             /\ MoveTo(t, [pc[t] EXCEPT !.writes = Tail(@)])
             /\ UNCHANGED todo
        ELSE Quit(t) /\ UNCHANGED <<request, stages>>
  /\ UNCHANGED <<row, trail, calls, outside, startsLeft>>

\* The outcome of the look, written where the row is still collected; the
\* request fails with an execution that published nothing.
Publishes(t) ==
  /\ pc[t].at = "sync" /\ pc[t].writes = <<>>
  /\ LET op == pc[t].op IN
     /\ row' = [row EXCEPT ![op] = IF @ = "collected" THEN pc[t].ends ELSE @]
     /\ IF pc[t].ends = "unpublished" THEN FailRequest(op) ELSE UNCHANGED request
  /\ MoveTo(t, At("track"))
  /\ UNCHANGED <<stages, trail, calls, outside, todo, startsLeft>>

-----------------------------------------------------------------------------
(* Everything else. *)

\* The Worker ends, or a statement fails and the lane throws.
Stops(t) ==
  /\ pc[t] # Idle /\ ~calm
  /\ Quit(t)
  /\ UNCHANGED <<request, Rest>>

Tick(t) ==
  \/ TickReads(t) \/ TickTakes(t)
  \/ Looks(t) \/ BringsInStep(t) \/ Declines(t) \/ DeclineReaches(t)
  \/ Waits(t) \/ Requeues(t) \/ Claims(t) \/ Calls(t) \/ Records(t) \/ Persists(t)
  \/ ImportRegisters(t) \/ ImportStage(t) \/ ImportRetries(t) \/ ImportStalls(t)
  \/ AbandonReads(t) \/ Abandons(t) \/ DueReads(t) \/ TrackReads(t) \/ TrackEnds(t)
  \/ SyncReads(t) \/ SyncWrites(t) \/ Publishes(t)

Still == <<request, stages, row, calls, todo, startsLeft, pc>>

\* A retry time comes.
Ripens(op) == /\ ~available[op]
              /\ available' = [available EXCEPT ![op] = TRUE]
              /\ UNCHANGED <<status, dispatch, stages, row, trail, calls, outside, todo,
                             startsLeft, pc>>

ExpiryPasses(op) == /\ op \in asked /\ ~overdue[op] /\ overdue' = [overdue EXCEPT ![op] = TRUE]
                    /\ UNCHANGED <<Still, trail, asked, old, horizon, calm>>

\* An hour after the start.  From claim to call is no such time, and a call
\* lasts as long only where LongCalls allows it.
StartGrowsOld(op) == /\ row[op] = "started" /\ ~old[op]
                     /\ \A t \in Ticks : /\ pc[t] # On("calling", op)
                                         /\ pc[t] = On("called", op) => LongCalls
                     /\ old' = [old EXCEPT ![op] = TRUE]
                     /\ UNCHANGED <<Still, trail, asked, overdue, horizon, calm>>

HorizonPasses(op) == /\ row[op] = "collected" /\ ~horizon[op]
                     /\ horizon' = [horizon EXCEPT ![op] = TRUE]
                     /\ UNCHANGED <<Still, trail, asked, overdue, old, calm>>

\* Registration, parsing and publication move the run on.  A blocked one may be
\* tried again and a registered one parsed again; no registration is undone.
Registered(run) == run \notin {"registering", "blocked"}

TrailMoves(op) == /\ row[op] = "collected" /\ trail[op] # "unreported"
                  /\ \E run \in Runs \ {trail[op]} :
                       /\ Registered(trail[op]) => Registered(run)
                       /\ trail' = [trail EXCEPT ![op] = run]
                  /\ UNCHANGED <<Still, outside>>

World(op) == Ripens(op) \/ ExpiryPasses(op) \/ StartGrowsOld(op) \/ HorizonPasses(op) \/ TrailMoves(op)

Next == \/ \E t \in Ticks : Tick(t) \/ Stops(t)
        \/ \E op \in Ops : World(op)

Spec == Init /\ [][Next]_vars

\* From here on no lane is stopped.
Calms == /\ ~calm /\ calm' = TRUE
         /\ UNCHANGED <<request, stages, row, trail, calls, asked, overdue, old, horizon, todo,
                        startsLeft, pc>>

\* Each comes once for a request, so that fairness of any of them is fairness
\* of each.
DeadlinePasses == \E op \in Ops : ExpiryPasses(op) \/ StartGrowsOld(op) \/ HorizonPasses(op)

\* The lane comes back and a pass goes on, deadlines and retry times come, and
\* no lane is stopped for ever.
Fairness ==
  /\ WF_vars(Calms)
  /\ \A t \in Ticks : WF_vars(Tick(t))
  /\ WF_vars(DeadlinePasses)
  /\ \A op \in Ops : WF_vars(Ripens(op))

FairSpec == Init /\ [][Next \/ Calms]_vars /\ Fairness

-----------------------------------------------------------------------------
\* A collector is called at most once for a request, only by the pass that
\* claimed it, and never again once its outcome is known: dispatchCollector
\* and claimCollectorStart implement the ledger, whatever passes overlap or stop.
Ledger == INSTANCE AtMostOnce WITH
  Items <- Ops, contacts <- calls,
  status <- [op \in Ops |-> IF row[op] \in Untouched THEN "open"
                            ELSE IF row[op] = "started" THEN "claimed" ELSE "settled"]

CallsOnce == Ledger!LedgerSpec

\* What the request says of its execution, in whatever order the batches of
\* the passes come: an untouched request is accepted, a started one runs, a
\* refreshed one is completed however late it is abandoned, an execution
\* without a result has failed its request, and only a declined one blocks it.
\* A collection with a result is still running, but for two batches that ask
\* for the row's state in their first statement only: a late abandonment
\* (collector-dispatch.ts:299-312) fails the request of a row collected
\* meanwhile, and so does, once it is published, a late look (:383-390).
RowsInStep ==
  \A op \in Collect \cup Refresh :
    /\ row[op] \in Untouched => status[op] = "accepted"
    /\ row[op] = "started" => status[op] = "running"
    /\ row[op] = "refreshed" <=> status[op] = "completed"
    /\ row[op] \in {"failed", "uncertain", "unpublished"} => status[op] = "failed"
    /\ row[op] = "collected" => status[op] = "running" \/ (status[op] = "failed" /\ old[op])
    /\ row[op] = "published" => status[op] \in {"running", "failed"}
    /\ status[op] = "blocked" => row[op] \in Declined

\* An execution is published only with the evidence of every traced stage on
\* record, and no late look of another pass takes a stage away again.
PublishedHasEvidence ==
  \A op \in Collect : row[op] = "published" =>
    \A i \in 1..3 : stages[op][Ladder[i]] = "completed"

\* An execution that has ended, a request that is over and a stage that is
\* completed stay as they are: a late answer, a late look, a late requeue and a
\* late registration of another pass change none of them.
OutcomeIsFinal ==
  [][\A op \in Ops :
       /\ row[op] \in Ended => row'[op] = row[op]
       /\ status[op] \in Over => status'[op] = status[op]
       /\ \A s \in Stages : stages[op][s] = "completed" => stages'[op][s] = "completed"]_vars

\* Every collector request comes to an end: it starts or expires, a lost call
\* becomes uncertain, a collected run is published or given up at the horizon.
EveryOperationEnds == <>(\A op \in asked \ Import : row[op] \in Ended)

\* A declined execution's request is blocked in the end, though the pass that
\* declined it may have stopped before it said so.
DeclinesArrive == []<>(\A op \in Ops : row[op] \in Declined => status[op] = "blocked")

\* A published collection keeps its request running (ADR 0048: projected "is
\* not traced, so a published collection keeps `status: running`").
PublishedKeepsRunning == \A op \in Collect : row[op] = "published" => status[op] = "running"

\* "A row another tick already started is not put back in the queue": what the
\* comment in recordCollectorWait says.
NotRequeued ==
  [][\A op \in Collect \cup Refresh : row[op] \notin Untouched /\ dispatch[op] = "dispatched"
       => dispatch'[op] # "dispatch_pending"]_vars
=============================================================================
