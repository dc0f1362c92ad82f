---------------------------- MODULE DecisionOutbox ----------------------------
(***************************************************************************)
(* The decision outbox (packages/storage-d1/src/core/decision-outbox.ts):  *)
(* the rows a commit enqueues, the passes that lease and process them, and *)
(* the receipt that turns published when every row of its operation is     *)
(* processed.                                                              *)
(*                                                                         *)
(* A pass runs in steps, one per statement and one per answer of a         *)
(* processor; passes overlap, and any of them may stop between two steps.  *)
(* The unit of time is 30 s.  available and until hold what is left of     *)
(* available_at_ms and lease_until_ms, 0 when that instant has passed; a   *)
(* pass computes every instant from its own start, so it keeps its age.    *)
(* A row's id is its place in the order of the claim.                      *)
(***************************************************************************)
EXTENDS Integers, FiniteSets, FiniteSetsExt

CONSTANTS
  Operations,   \* committed changes: one receipt each
  Rows,         \* ids of the outbox rows they enqueue
  Operation,    \* the operation of a row
  Target,       \* its target: "identity", or "balance" (the READ snapshot)
  Passes,       \* dispatcher passes that may run at once
  Limit,        \* rows one claim takes
  MaxAttempts,  \* the attempt budget
  Lease,        \* LEASE_MS
  PendingRetry, \* PENDING_RETRY_MS
  BackoffMax,   \* BACKOFF_MAX_MS, in a base of BACKOFF_BASE_MS = 1
  MaxPolls,     \* bound: pending answers recorded on a row
  MaxRevision,  \* bound: writes of the CORE ledger
  None,         \* SQL NULL
  Lost          \* the token of a pass that is gone: no pass has it any more

ASSUME Instance ==
  /\ Rows \subseteq Nat /\ IsFiniteSet(Rows)
  /\ Operation \in [Rows -> Operations]
  /\ \A o \in Operations : \E r \in Rows : Operation[r] = o
  /\ Target \in [Rows -> {"identity", "balance"}]
  /\ Limit \in Nat \ {0} /\ MaxAttempts \in Nat \ {0}
  /\ Lease \in Nat \ {0} /\ PendingRetry \in Nat \ {0} /\ BackoffMax \in Nat \ {0}
  /\ MaxPolls \in Nat /\ MaxRevision \in Nat
  /\ None \notin Nat \cup Passes \cup {"accepted", "published"}
  /\ Lost \notin Passes \cup {None}

VARIABLES
  revision,   \* core_source_revision.source_revision
  decidedAt,  \* the revision an operation's own commit reached, or None
  receipt,    \* operation_receipts.status, or None before the commit
  row,        \* decision_outbox
  snapshot,   \* the revision the published READ snapshot covers
  pass,       \* what a dispatcher pass has in hand
  stopped     \* some pass has stopped before its end

vars == <<revision, decidedAt, receipt, row, snapshot, pass, stopped>>

Idle == [at |-> "idle", age |-> 0, todo |-> {}, answer |-> None, done |-> {}]

Answers == {"completed", "pending", "retryable", "blocked"}

Of(o) == {r \in Rows : Operation[r] = o}

OutboxRow ==
  [processed : BOOLEAN, blocked : BOOLEAN, attempts : Nat, polls : 0..MaxPolls,
   available : 0..BackoffMax + PendingRetry, until : 0..Lease,
   lease : Passes \cup {None, Lost}, required : 0..MaxRevision \cup {None}]

PassState ==
  [at : {"idle", "claimed", "stamped", "works", "answered", "publishes"}, age : Nat,
   todo : SUBSET Rows, answer : Answers \cup {None}, done : SUBSET Operations]

TypeOK ==
  /\ revision \in 0..MaxRevision /\ snapshot \in 0..MaxRevision
  /\ decidedAt \in [Operations -> 0..MaxRevision \cup {None}]
  /\ receipt \in [Operations -> {None, "accepted", "published"}]
  /\ row \in [Rows -> OutboxRow]
  /\ pass \in [Passes -> PassState]
  /\ stopped \in BOOLEAN

Init ==
  /\ revision = 0 /\ snapshot = 0
  /\ decidedAt = [o \in Operations |-> None]
  /\ receipt = [o \in Operations |-> None]
  /\ row = [r \in Rows |-> [processed |-> FALSE, blocked |-> FALSE, attempts |-> 0, polls |-> 0,
                            available |-> 0, until |-> 0, lease |-> None, required |-> None]]
  /\ pass = [p \in Passes |-> Idle]
  /\ stopped = FALSE

-----------------------------------------------------------------------------
(* The ledger, the READ snapshot and the operator. *)

\* A commit: its receipt, its rows, and its own writes bump the revision.
Commit(o) ==
  /\ receipt[o] = None /\ revision < MaxRevision
  /\ revision' = revision + 1
  /\ decidedAt' = [decidedAt EXCEPT ![o] = revision + 1]
  /\ receipt' = [receipt EXCEPT ![o] = "accepted"]
  /\ UNCHANGED <<row, snapshot, pass, stopped>>

\* Another writer of a ledger table bumps the revision.
LedgerMoves ==
  /\ revision < MaxRevision
  /\ revision' = revision + 1
  /\ UNCHANGED <<decidedAt, receipt, row, snapshot, pass, stopped>>

\* A build over an input captured at some earlier revision is published: by
\* the projection lane or by the processor of a row.  The pointer only moves
\* forwards.
SnapshotMoves ==
  /\ \E covered \in snapshot + 1..revision : snapshot' = covered
  /\ UNCHANGED <<revision, decidedAt, receipt, row, pass, stopped>>

\* The operator clears blocked_code.
Unblock(r) ==
  /\ row[r].blocked
  /\ row' = [row EXCEPT ![r].blocked = FALSE]
  /\ UNCHANGED <<revision, decidedAt, receipt, snapshot, pass, stopped>>

-----------------------------------------------------------------------------
(* One pass of dispatchDecisionOutbox. *)

ExhaustedLate(r) == row[r].attempts - row[r].polls > MaxAttempts

Exhausted(r) == row[r].attempts - row[r].polls >= MaxAttempts

DueUnleased == {r \in Rows : /\ receipt[Operation[r]] # None
                             /\ ~row[r].processed /\ ~row[r].blocked
                             /\ row[r].available = 0 /\ row[r].lease = None
                             /\ ~Exhausted(r)}

\* What the claim's WHERE selects.
Due == {r \in Rows : /\ receipt[Operation[r]] # None
                     /\ ~row[r].processed /\ ~row[r].blocked
                     /\ row[r].available = 0 /\ row[r].until = 0
                     /\ ~Exhausted(r)}

\* ORDER BY id LIMIT.
Claimed == {r \in Due : Cardinality({s \in Due : s < r}) < Limit}

Claim(p) ==
  /\ pass[p].at = "idle" /\ Due # {}
  /\ row' = [r \in Rows |-> IF r \in Claimed
                            THEN [row[r] EXCEPT !.lease = p, !.until = Lease, !.attempts = @ + 1]
                            ELSE row[r]]
  /\ pass' = [pass EXCEPT ![p].at = "claimed"]
  /\ UNCHANGED <<revision, decidedAt, receipt, snapshot, stopped>>

Holds(p) == {r \in Rows : row[r].lease = p /\ ~row[r].processed}

StampForgotten(p) ==
  /\ pass[p].at = "claimed"
  /\ pass' = [pass EXCEPT ![p].at = "stamped"]
  /\ UNCHANGED <<revision, decidedAt, receipt, row, snapshot, stopped>>

\* The revision the effect must cover, on the first claim only.
Stamp(p) ==
  /\ pass[p].at = "claimed"
  /\ row' = [r \in Rows |-> IF r \in Holds(p) /\ row[r].required = None
                            THEN [row[r] EXCEPT !.required = revision]
                            ELSE row[r]]
  /\ pass' = [pass EXCEPT ![p].at = "stamped"]
  /\ UNCHANGED <<revision, decidedAt, receipt, snapshot, stopped>>

Select(p) ==
  /\ pass[p].at = "stamped"
  /\ pass' = [pass EXCEPT ![p] = IF Holds(p) = {} THEN Idle
                                 ELSE [@ EXCEPT !.at = "works", !.todo = Holds(p)]]
  /\ UNCHANGED <<revision, decidedAt, receipt, row, snapshot, stopped>>

\* for (const row of claimed.results): in the order of the ids.
Current(p) == {r \in pass[p].todo : \A s \in pass[p].todo : r =< s}

\* balanceProjectionOutboxProcessor: is the published snapshot at or past the
\* revision the row it was given requires.
Covered(r) == row[r].required # None => snapshot >= row[r].required

\* The processor answers: completed only with its evidence, pending only while
\* a build runs or a flag is off.
Work(p) ==
  /\ pass[p].at = "works"
  /\ \E r \in Current(p), answer \in Answers :
       /\ answer = "completed" => Target[r] = "identity" \/ Covered(r)
       /\ answer \in {"pending", "blocked"} => Target[r] = "balance"
       /\ answer = "pending" => row[r].polls < MaxPolls
       /\ pass' = [pass EXCEPT ![p].at = "answered", ![p].answer = answer]
  /\ UNCHANGED <<revision, decidedAt, receipt, row, snapshot, stopped>>

Left(p, instant) == IF instant > pass[p].age THEN instant - pass[p].age ELSE 0

\* backoffMs; the attempts it counts include the polls.
Backoff(r) == LET doubled == 2 ^ (row[r].attempts - 1) IN
              IF doubled \in 0..BackoffMax THEN doubled ELSE BackoffMax

Free(r) == [row[r] EXCEPT !.lease = None, !.until = 0]

\* The row as the answer's UPDATE leaves it.
Closed(p, r) ==
  CASE pass[p].answer = "completed" -> [Free(r) EXCEPT !.processed = TRUE]
    [] pass[p].answer = "pending" -> [Free(r) EXCEPT !.polls = @ + 1, !.available = Left(p, PendingRetry)]
    [] pass[p].answer = "blocked" -> [Free(r) EXCEPT !.blocked = TRUE]
    [] OTHER -> [Free(r) EXCEPT !.available = Left(p, Backoff(r))]

AnyRow(p, r) == TRUE

AnyToken(p, r) == ~row[r].processed

\* WHERE id AND lease_token AND processed_at IS NULL.
StillMine(p, r) == row[r].lease = p /\ ~row[r].processed

RecordLastDecides(p) ==
  /\ pass[p].at = "answered"
  /\ \E r \in Current(p) :
       LET rest == pass[p].todo \ {r}
           closes == pass[p].answer = "completed" /\ StillMine(p, r)
           done == IF closes THEN pass[p].done \cup {Operation[r]} ELSE pass[p].done
       IN
       /\ row' = IF StillMine(p, r) THEN [row EXCEPT ![r] = Closed(p, r)] ELSE row
       /\ pass' = [pass EXCEPT ![p] =
                     IF rest = {} /\ ~closes THEN Idle
                     ELSE [@ EXCEPT !.at = IF rest = {} THEN "publishes" ELSE "works",
                                    !.todo = rest, !.answer = None, !.done = done]]
  /\ UNCHANGED <<revision, decidedAt, receipt, snapshot, stopped>>

\* The answer is recorded on the row, if it is still this pass's, and the pass
\* goes on to its next row or to the receipts of what it completed.
Record(p) ==
  /\ pass[p].at = "answered"
  /\ \E r \in Current(p) :
       LET rest == pass[p].todo \ {r}
           done == IF pass[p].answer = "completed" /\ StillMine(p, r)
                   THEN pass[p].done \cup {Operation[r]} ELSE pass[p].done
       IN
       /\ row' = IF StillMine(p, r) THEN [row EXCEPT ![r] = Closed(p, r)] ELSE row
       /\ pass' = [pass EXCEPT ![p] =
                     IF rest = {} /\ done = {} THEN Idle
                     ELSE [@ EXCEPT !.at = IF rest = {} THEN "publishes" ELSE "works",
                                    !.todo = rest, !.answer = None, !.done = done]]
  /\ UNCHANGED <<revision, decidedAt, receipt, snapshot, stopped>>

AllProcessed(o) == \A r \in Of(o) : row[r].processed

\* One operation this pass touched; they do not depend on each other, so their
\* order is left open.
Publish(p, o) ==
  /\ pass[p].at = "publishes" /\ o \in pass[p].done
  /\ receipt' = [receipt EXCEPT ![o] = IF @ = "accepted" /\ AllProcessed(o) THEN "published" ELSE @]
  /\ pass' = [pass EXCEPT ![p] = IF pass[p].done = {o} THEN Idle
                                 ELSE [pass[p] EXCEPT !.done = pass[p].done \ {o}]]
  /\ UNCHANGED <<revision, decidedAt, row, snapshot, stopped>>

\* The pass stops: its isolate ends or a statement fails.  Its token is never
\* used again.
Stop(p) ==
  /\ pass[p].at # "idle"
  /\ pass' = [pass EXCEPT ![p] = Idle]
  /\ row' = [r \in Rows |-> IF row[r].lease = p THEN [row[r] EXCEPT !.lease = Lost] ELSE row[r]]
  /\ stopped' = TRUE
  /\ UNCHANGED <<revision, decidedAt, receipt, snapshot>>

\* An age past every delay makes no difference any more.
Oldest == Max({Lease, PendingRetry, BackoffMax})

Down(n) == IF n = 0 THEN 0 ELSE n - 1

AdvanceTime ==
  /\ row' = [r \in Rows |-> [row[r] EXCEPT !.available = Down(@), !.until = Down(@)]]
  /\ pass' = [p \in Passes |-> IF pass[p].at = "idle" \/ pass[p].age = Oldest THEN pass[p]
                               ELSE [pass[p] EXCEPT !.age = @ + 1]]
  /\ UNCHANGED <<revision, decidedAt, receipt, snapshot, stopped>>

-----------------------------------------------------------------------------
Pass(p) == \/ Claim(p) \/ Stamp(p) \/ Select(p) \/ Work(p) \/ Record(p)
           \/ \E o \in Operations : Publish(p, o)

Next == \/ \E o \in Operations : Commit(o)
        \/ LedgerMoves \/ SnapshotMoves
        \/ \E r \in Rows : Unblock(r)
        \/ \E p \in Passes : Pass(p) \/ Stop(p)
        \/ AdvanceTime

Spec == Init /\ [][Next]_vars

\* Time passes, the tick starts a pass, and a pass goes on or stops.  Builds,
\* commits and the operator owe nothing.
Fairness == /\ WF_vars(AdvanceTime)
            /\ \A p \in Passes : WF_vars(Pass(p) \/ Stop(p))

FairSpec == Spec /\ Fairness

-----------------------------------------------------------------------------
(* Properties. *)

\* A published receipt tells the truth: every row of its operation is done and
\* the READ snapshot in force carries the operation's own writes, whichever
\* pass, stamp or late answer closed the rows (docs/change-lifecycle.md:326).
PublishedIsVisible ==
  \A o \in Operations : receipt[o] = "published" =>
    \A r \in Of(o) : row[r].processed /\ (Target[r] = "balance" => snapshot >= decidedAt[o])

\* The failure budget is kept: what a row has used of it, attempts less polls,
\* is never negative and never past the limit, and a claimed row has used some,
\* however often its lease runs out and two passes answer for the same claim.
BudgetHolds ==
  \A r \in Rows : LET used == row[r].attempts - row[r].polls IN
    /\ used \in 0..MaxAttempts
    /\ row[r].lease # None => used > 0

\* While no pass has stopped before its end, an operation whose rows are all
\* processed is published or still has a pass that will publish it, although
\* each pass only looks at the operations it completed a row of.
ReceiptHasAPublisher ==
  ~stopped => \A o \in Operations :
    receipt[o] = "accepted" /\ AllProcessed(o) => \E p \in Passes : o \in pass[p].done

\* A processed row is never changed again: an answer that comes after another
\* pass took the row over and closed it is a no-op.
ClosedStays == [][\A r \in Rows : row[r].processed => row'[r] = row[r]]_vars

\* Once its build has stopped answering pending (the polls are bounded), a
\* committed row does not wait for ever: it is processed, blocked until an
\* operator comes, or out of attempts, even if passes keep stopping.
EveryRowSettles ==
  \A r \in Rows : receipt[Operation[r]] # None ~>
    row[r].processed \/ row[r].blocked \/ Exhausted(r)

\* Once no row of an operation is unprocessed its receipt turns published,
\* delivery being "assumed duplicated, out of order and interrupted"
\* (docs/change-lifecycle.md:342-343 and :377).
ProcessedIsPublished ==
  \A o \in Operations :
    receipt[o] # None /\ AllProcessed(o) ~> receipt[o] = "published"
=============================================================================
