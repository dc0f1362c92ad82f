------------------------ MODULE TerminalRegistration ------------------------
(***************************************************************************)
(* Registration of persisted runs in CORE: registerTerminal                *)
(* (packages/application/src/collection/register-terminal.ts) over the     *)
(* ingest operations (packages/application/src/ingest), called by the      *)
(* queue consumer and by the bounded scan                                  *)
(* (services/processor/src/collection/index.ts), beside the collectors of  *)
(* CollectionWriter.                                                       *)
(*                                                                         *)
(* Calls interleave between any two statements or batches.  A call stops   *)
(* at its invocation's budget with its progress recorded, throws, or dies. *)
(* Units, ranges and descriptors are left out: they are written and read   *)
(* back like the artifacts, before them.                                   *)
(***************************************************************************)
EXTENDS CollectionWriter, FiniteSetsExt

CONSTANTS
  DirectSeal,       \* artifacts a run may have and still be sealed directly
  Refused,          \* runs whose manifest is refused: undeclared source, failed run
  Deliveries,       \* queue deliveries handled at the same time
  Scan,             \* the scan lane
  Budget,           \* artifact, inventory and seal steps one invocation pays for
  Chunk,            \* inventory items staged in one step
  PageLimit,        \* terminals the scan lists in one tick
  MaxRegistrations, \* registrations it spends on them
  MaxFaults         \* bound: throws, deaths and revocations

ASSUME Registering ==
  /\ Refused \subseteq Runs
  /\ Scan \notin Deliveries
  /\ {Budget, Chunk, PageLimit, MaxRegistrations} \subseteq Nat \ {0}
  /\ {DirectSeal, MaxFaults} \subseteq Nat

Callers == Deliveries \cup {Scan}

VARIABLES
  row,       \* collection_runs and the newest `registered` row of collection_run_stages
  fetchRun,  \* the catalogue, inventory, report and seal of the run's fetch run
  active,    \* the ingest client and its route are active
  call,      \* what a caller has in hand
  scan,      \* the tick of the scan that is running
  cursor,    \* collection_scan_state.cursor: the last run listed, or 0
  faults

core == <<row, fetchRun>>
lane == <<scan, cursor>>
vars == <<collected, core, active, call, lane, faults>>

\* Judged without work, worked on, or left for want of budget.
Rest == {"judged", "worked", "deferred"}

Steps == {"verifies", "creates", "catalogues", "holds", "items", "room", "inserts", "reports",
          "declares", "attempts", "seals", "links", "completes", "blocks"}

TypeOK ==
  /\ WriterTypeOK
  /\ row \in [Runs -> [blocked : BOOLEAN, linked : BOOLEAN, completed : BOOLEAN, waits : BOOLEAN,
                       latest : {"none", "pending", "completed", "retryable", "blocked"}]]
  /\ fetchRun \in [Runs -> [catalogue : SUBSET Objects, items : SUBSET Objects,
                            reported : BOOLEAN, sealed : BOOLEAN]]
  /\ active \in BOOLEAN
  /\ call \in [Callers -> [at : Rest \cup Steps, run : Runs, held : SUBSET Objects,
                           slice : SUBSET Objects, new : SUBSET Objects,
                           declared : BOOLEAN, left : 0..Budget]]
  /\ scan \in [at : {"idle", "continues", "walks"}, todo : SUBSET Runs,
               worked : 0..MaxRegistrations, next : {0} \cup Runs]
  /\ cursor \in {0} \cup Runs
  /\ faults \in 0..MaxFaults

Resting(r, left) == [at |-> "judged", run |-> r, held |-> {}, slice |-> {}, new |-> {},
                     declared |-> FALSE, left |-> left]

Init ==
  /\ WriterInit
  /\ row = [r \in Runs |-> [blocked |-> FALSE, linked |-> FALSE, completed |-> FALSE,
                            waits |-> FALSE, latest |-> "none"]]
  /\ fetchRun = [r \in Runs |-> [catalogue |-> {}, items |-> {}, reported |-> FALSE,
                                 sealed |-> FALSE]]
  /\ active \in BOOLEAN
  /\ call = [c \in Callers |-> Resting(1, 0)]
  /\ scan = [at |-> "idle", todo |-> {}, worked |-> 0, next |-> 0]
  /\ cursor = 0
  /\ faults = 0

-----------------------------------------------------------------------------
(* One call of registerTerminal. *)

Run(c) == call[c].run
Named(c) == terminal[Run(c)]
Fetch(c) == fetchRun[Run(c)]
Staged(c) == Cardinality(Named(c)) > DirectSeal

Goes(c, at) == call' = [call EXCEPT ![c].at = at]
Ends(c, outcome) ==
  call' = [call EXCEPT ![c] = [Resting(Run(c), call[c].left) EXCEPT !.at = outcome]]

\* appendCollectionStage for the `registered` stage.
Stage(r, state) ==
  row' = [row EXCEPT ![r].latest = state, ![r].completed = @ \/ state = "completed",
                     ![r].waits = state = "retryable"]

\* block: the stage here, the row in a statement of its own.
Blocks(c) == Stage(Run(c), "blocked") /\ Goes(c, "blocks")

\* Every ingest operation asks for the route; its refusal is retryable.
Denied(c) == ~active /\ Stage(Run(c), "retryable") /\ Ends(c, "worked") /\ UNCHANGED fetchRun

PaidLast(c) == call[c].left >= 0

Paid(c) == call[c].left > 0

\* yieldPending
Yields(c) == Stage(Run(c), "pending") /\ Ends(c, "worked") /\ UNCHANGED fetchRun

Outside == UNCHANGED <<collected, active, lane, faults>>

Judged(r) == row[r].blocked \/ row[r].linked \/ row[r].completed

\* retryWaiting: a retry the scan does not want yet.
Waits(c, r) == c = Scan /\ row[r].latest = "retryable" /\ row[r].waits

Starts(c, r, left) ==
  LET go(at) == call' = [call EXCEPT ![c] = [Resting(r, left) EXCEPT !.at = at]] IN
  /\ call[c].at \in Rest
  /\ IF left = 0 THEN go("deferred") /\ UNCHANGED row
     ELSE IF terminal[r] = None THEN go("worked") /\ UNCHANGED row
     ELSE IF Judged(r) \/ Waits(c, r) THEN go("judged") /\ UNCHANGED row
     ELSE IF r \in Refused THEN go("blocks") /\ Stage(r, "blocked")
     ELSE go("verifies") /\ UNCHANGED row
  /\ UNCHANGED fetchRun

\* blockCollectionRun
BlocksRow(c) ==
  /\ call[c].at = "blocks"
  /\ row' = [row EXCEPT ![Run(c)].blocked = @ \/ ~row[Run(c)].linked]
  /\ Ends(c, "worked")
  /\ UNCHANGED fetchRun

\* verifyReferencedObjects before anything is recorded, except by a call that
\* continues a pending one.
Verifies(c) ==
  /\ call[c].at = "verifies"
  /\ IF row[Run(c)].latest = "pending" \/ Named(c) \subseteq bucket
     THEN Goes(c, "creates") /\ UNCHANGED row
     ELSE Blocks(c)
  /\ UNCHANGED fetchRun

NothingYet(c) == {}

\* What earlier calls catalogued is skipped.
Already(c) == Fetch(c).catalogue

\* createRun, what the catalogue already holds, and beginInventory.
Creates(c) ==
  /\ call[c].at = "creates"
  /\ \/ Denied(c)
     \/ /\ active
        /\ call' = [call EXCEPT ![c].at = "catalogues", ![c].held = Already(c)]
        /\ UNCHANGED core

\* One artifact: verified, adopted and catalogued.  Nothing is added to a
\* sealed run (fetch_artifact_reject_after_seal).
Catalogues(c) ==
  LET missing == Named(c) \ call[c].held IN
  /\ call[c].at = "catalogues"
  /\ IF missing = {} THEN Goes(c, IF Staged(c) THEN "holds" ELSE "reports") /\ UNCHANGED core
     ELSE IF ~Paid(c) THEN Yields(c)
     ELSE \/ Denied(c)
          \/ /\ active
             /\ \E o \in missing :
                  IF o \notin bucket THEN Blocks(c) /\ UNCHANGED fetchRun
                  ELSE /\ fetchRun' = [fetchRun EXCEPT ![Run(c)].catalogue =
                                         IF Fetch(c).sealed THEN @ ELSE @ \cup {o}]
                       /\ call' = [call EXCEPT ![c].held = @ \cup {o}, ![c].left = @ - 1]
                       /\ UNCHANGED row

\* The items the staged inventory has; from here held is what this call takes
\* to be there.
HoldsItems(c) ==
  /\ call[c].at = "holds"
  /\ call' = [call EXCEPT ![c].at = "items", ![c].held = Fetch(c).items]
  /\ UNCHANGED core

Slices(missing) == {s \in SUBSET missing : Cardinality(s) = Min({Chunk, Cardinality(missing)})}

\* addInventoryItems, three reads and a batch: the items that are new, ...
TakesSlice(c) ==
  LET missing == Named(c) \ call[c].held IN
  /\ call[c].at = "items"
  /\ IF missing = {} THEN Goes(c, "reports") /\ UNCHANGED core
     ELSE IF ~Paid(c) THEN Yields(c)
     ELSE \/ Denied(c)
          \/ /\ active
             /\ \E s \in Slices(missing) :
                  call' = [call EXCEPT ![c].at = "room", ![c].left = @ - 1, ![c].slice = s,
                                       ![c].new = s \ Fetch(c).items]
             /\ UNCHANGED core

\* ... whether the run is sealed or the inventory would overflow, ...
Overflows(c) ==
  \/ Fetch(c).sealed /\ call[c].new # {}
  \/ Cardinality(Fetch(c).items) + Cardinality(call[c].new) > Cardinality(Named(c))

ChecksRoom(c) ==
  /\ call[c].at = "room"
  /\ IF Overflows(c) THEN Blocks(c) ELSE Goes(c, "inserts") /\ UNCHANGED row
  /\ UNCHANGED fetchRun

\* ... and the insert.  A batch that meets another call's item is rolled back
\* and read again: all there is as good as inserted, anything else is thrown.
InsertsItems(c) ==
  LET there == call[c].slice \subseteq Fetch(c).items IN
  /\ call[c].at = "inserts"
  /\ IF there \/ (call[c].new \cap Fetch(c).items = {} /\ ~Fetch(c).sealed)
     THEN /\ fetchRun' = [fetchRun EXCEPT ![Run(c)].items = @ \cup call[c].new]
          /\ call' = [call EXCEPT ![c].at = "items", ![c].held = @ \cup call[c].slice,
                                  ![c].slice = {}, ![c].new = {}]
     ELSE Ends(c, "worked") /\ UNCHANGED fetchRun
  /\ UNCHANGED row

\* The reports; the seal and the link follow without a yield.
Reports(c) ==
  /\ call[c].at = "reports"
  /\ IF ~Paid(c) THEN Yields(c)
     ELSE \/ Denied(c)
          \/ /\ active
             /\ fetchRun' = [fetchRun EXCEPT ![Run(c)].reported = TRUE]
             /\ call' = [call EXCEPT ![c].left = @ - 1, ![c].held = {},
                                     ![c].at = IF Staged(c) THEN "attempts" ELSE "declares"]
             /\ UNCHANGED row

\* sealRun: the catalogue is what is submitted, and the inventory that an
\* earlier call may have declared.
Declares(c) ==
  /\ call[c].at = "declares"
  /\ \/ Denied(c)
     \/ /\ active
        /\ IF Fetch(c).catalogue # Named(c) THEN Blocks(c)
           ELSE /\ call' = [call EXCEPT ![c].at = "attempts", ![c].declared = Fetch(c).sealed]
                /\ UNCHANGED row
        /\ UNCHANGED fetchRun

\* An attempt that completed is only compared; sealRun finds it in conflict
\* with an inventory it did not see.
ReadsAttempt(c) ==
  LET staged == Staged(c) IN
  /\ call[c].at = "attempts"
  /\ IF staged /\ ~active THEN Denied(c)
     ELSE /\ IF staged /\ Fetch(c).items # Named(c) THEN Blocks(c)
             ELSE IF ~Fetch(c).sealed THEN Goes(c, "seals") /\ UNCHANGED row
             ELSE IF staged \/ call[c].declared THEN Goes(c, "links") /\ UNCHANGED row
             ELSE Blocks(c)
          /\ UNCHANGED fetchRun

\* The seal batch.  A direct seal writes the inventory it declares.  A batch
\* that meets another call's attempt is rolled back and finds it the same.
\* The completeness trigger's refusal is a verdict.
Complete(f, named, staged) ==
  /\ f.reported /\ f.catalogue = named
  /\ staged => f.items = named

Seals(c) ==
  LET staged == Staged(c) IN
  /\ call[c].at = "seals"
  /\ IF Fetch(c).sealed THEN Goes(c, "links") /\ UNCHANGED core
     ELSE IF ~Complete(Fetch(c), Named(c), staged) THEN Blocks(c) /\ UNCHANGED fetchRun
     ELSE /\ fetchRun' = [fetchRun EXCEPT ![Run(c)].sealed = TRUE, ![Run(c)].items = Named(c)]
          /\ Goes(c, "links")
          /\ UNCHANGED row

\* linkRegisteredRun, which asks whether the run is linked, not whether it is
\* blocked.
Links(c) ==
  /\ call[c].at = "links"
  /\ row' = [row EXCEPT ![Run(c)].linked = TRUE]
  /\ Goes(c, "completes")
  /\ UNCHANGED fetchRun

Completes(c) ==
  /\ call[c].at = "completes"
  /\ Stage(Run(c), "completed")
  /\ Ends(c, "worked")
  /\ UNCHANGED fetchRun

Registers(c) ==
  \/ BlocksRow(c) \/ Verifies(c) \/ Creates(c) \/ Catalogues(c) \/ HoldsItems(c) \/ TakesSlice(c)
  \/ ChecksRoom(c) \/ InsertsItems(c) \/ Reports(c) \/ Declares(c) \/ ReadsAttempt(c) \/ Seals(c)
  \/ Links(c) \/ Completes(c)

\* R2 or CORE fails, or the isolate dies, between two steps.
Throws(c) ==
  /\ faults < MaxFaults /\ faults' = faults + 1
  /\ call[c].at \in Steps
  /\ Ends(c, "worked")
  /\ UNCHANGED <<collected, core, active, lane>>

\* A notification, which may be lost, late or repeated.
Delivered(c, r) ==
  /\ call[c].at \in Rest /\ terminal[r] # None
  /\ Starts(c, r, Budget)
  /\ Outside

-----------------------------------------------------------------------------
(* The scan: pending registrations first, then a page of the listing. *)

Free == call[Scan].at \in Rest

\* readPendingRegistrations; the limit on their number is left out.
Pending == {r \in Runs : row[r].latest = "pending" /\ ~row[r].blocked /\ ~row[r].linked}

Ticks ==
  /\ scan.at = "idle"
  /\ scan' = [at |-> "continues", todo |-> Pending, worked |-> 0, next |-> 0]
  /\ call' = [call EXCEPT ![Scan] = Resting(1, Budget)]
  /\ UNCHANGED <<collected, core, active, cursor, faults>>

\* Only work on the listing spends one of the tick's registrations.
Worked == scan.worked + IF scan.at = "walks" /\ call[Scan].at = "worked" THEN 1 ELSE 0

Spent == call[Scan].at = "deferred" \/ (scan.at = "walks" /\ scan.todo # {} /\ Worked >= MaxRegistrations)

Takes ==
  /\ scan.at # "idle" /\ Free /\ ~Spent /\ scan.todo # {}
  /\ \E r \in scan.todo :
       /\ scan.at = "walks" => r = Min(scan.todo)
       /\ scan' = [scan EXCEPT !.todo = @ \ {r}, !.worked = Worked]
       /\ Starts(Scan, r, call[Scan].left)
  /\ UNCHANGED <<collected, active, cursor, faults>>

\* listTerminals
Listed == {r \in Runs : r > cursor /\ terminal[r] # None}
Page == {r \in Listed : Cardinality({q \in Listed : q < r}) < PageLimit}

Lists ==
  /\ scan.at = "continues" /\ Free /\ ~Spent /\ scan.todo = {}
  /\ scan' = [at |-> "walks", todo |-> Page, worked |-> 0,
              next |-> IF Page = Listed THEN 0 ELSE Max(Page)]
  /\ call' = [call EXCEPT ![Scan] = Resting(1, call[Scan].left)]
  /\ UNCHANGED <<collected, core, active, cursor, faults>>

\* advanceCollectionScan: a page that was not dealt with is listed again.
Advances ==
  /\ scan.at # "idle" /\ Free /\ (Spent \/ (scan.at = "walks" /\ scan.todo = {}))
  /\ cursor' = IF Spent THEN cursor ELSE scan.next
  /\ scan' = [at |-> "idle", todo |-> {}, worked |-> 0, next |-> 0]
  /\ call' = [call EXCEPT ![Scan] = Resting(1, 0)]
  /\ UNCHANGED <<collected, core, active, faults>>

\* The invocation ends before its tick does.
Dies ==
  /\ scan.at # "idle" /\ faults < MaxFaults /\ faults' = faults + 1
  /\ scan' = [at |-> "idle", todo |-> {}, worked |-> 0, next |-> 0]
  /\ call' = [call EXCEPT ![Scan] = Resting(1, 0)]
  /\ UNCHANGED <<collected, core, active, cursor>>

-----------------------------------------------------------------------------
(* Environment. *)

\* The operator activates or revokes the Processor's ingest route.
Reroutes ==
  /\ active' = ~active
  /\ active => faults < MaxFaults
  /\ faults' = faults + IF active THEN 1 ELSE 0
  /\ UNCHANGED <<collected, core, call, lane>>

\* RETRYABLE_RETRY_INTERVAL_MS
IntervalPasses(r) ==
  /\ row[r].waits
  /\ row' = [row EXCEPT ![r].waits = FALSE]
  /\ UNCHANGED <<collected, fetchRun, active, call, lane, faults>>

Collects == (\E w \in Writers : Writes(w)) /\ UNCHANGED <<core, active, call, lane, faults>>

ScanStep == Ticks \/ Takes \/ Lists \/ Advances \/ (Registers(Scan) /\ Outside)

Next ==
  \/ Collects
  \/ ScanStep \/ Dies
  \/ \E c \in Deliveries : \E r \in Runs : Delivered(c, r)
  \/ \E c \in Deliveries : Registers(c) /\ Outside
  \/ \E c \in Callers : Throws(c)
  \/ Reroutes
  \/ \E r \in Runs : IntervalPasses(r)

Spec == Init /\ [][Next]_vars

\* The cron keeps ticking and a tick goes on; time passes.  Nothing is assumed
\* of collectors, deliveries or the operator.
FairSpec == Spec /\ WF_vars(ScanStep) /\ \A r \in Runs : WF_vars(IntervalPasses(r))

-----------------------------------------------------------------------------
(* Properties. *)

\* A seal is the completeness claim every later reader depends on: a sealed run
\* holds exactly what its terminal names, in catalogue and inventory, with its
\* report and with every object in the bucket; and only sealed runs are linked
\* as registered, however calls overlap, yield, stop and are repeated.
RegisteredIsWhole ==
  \A r \in Runs :
    /\ fetchRun[r].sealed =>
         /\ terminal[r] # None /\ terminal[r] \subseteq bucket /\ fetchRun[r].reported
         /\ fetchRun[r].catalogue = terminal[r] /\ fetchRun[r].items = terminal[r]
    /\ row[r].linked => fetchRun[r].sealed /\ r \notin Refused

\* Once the route stays active, every terminal in the bucket is registered or
\* blocked by the scan alone: whatever queue deliveries do, wherever calls stop,
\* however small the budget and whichever other runs are refused or wait.
EveryTerminalIsJudged ==
  <>[]active => \A r \in Runs : (terminal[r] # None) ~> Judged(r)

\* "Idempotent, and safe to call from the Queue consumer and the scan at the
\* same time" (register-terminal.ts:237-238): a run is blocked, which is for
\* good, only for what its terminal says.
BlockedForCause == \A r \in Runs : row[r].blocked => r \in Refused
=============================================================================
