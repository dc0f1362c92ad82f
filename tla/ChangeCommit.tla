----------------------------- MODULE ChangeCommit -----------------------------
(***************************************************************************)
(* The change lifecycle: plan, approve and commit of a judgement           *)
(* (packages/application/src/command), the statements of the commit batch  *)
(* (packages/storage-d1/src/atomic/decision-commit.ts), and the writers of *)
(* the judgement itself (core/identity-commands.ts for the mappings,       *)
(* operations/relation-writes.ts for the relations).                       *)
(*                                                                         *)
(* A commit call reads the plan, the receipt and the approval in steps of  *)
(* their own and then runs one batch; everything may happen in between, to *)
(* it and to other calls.  A D1 batch is one step, but its statements have *)
(* conditions of their own: one that matches no row does not stop the next.*)
(* The ledger row of an operation is written with its decision, under the  *)
(* same conditions, so decision stands for both tables.                    *)
(***************************************************************************)
EXTENDS Naturals, FiniteSets, FiniteSetsExt

CONSTANTS
  Accounts, Instruments, Relations,  \* subjects, by the table that holds their facts
  Changes,     \* judgements a caller may ask for: [act, subject, reason]
  Approvals,   \* ids of approvals
  Principals,  \* authenticated humans
  Ops,         \* operation ids, one namespace for every route
  Keys,        \* the operation ids callers use for a change, pairs in Ops \X Changes
  DirectKeys,  \* the same for the internal route that skips the lifecycle
  Calls,       \* commit calls in flight
  Legacy,      \* mappings whose first row was made by hand by an older build
  Targets,     \* the outbox targets the plan of a change names
  Uses,        \* the uses each approval grants
  MaxRev,      \* bound: revisions of a subject
  None         \* no row

Mappings == Accounts \cup Instruments
Subjects == Mappings \cup Relations
Table(s) == CHOOSE T \in {Accounts, Instruments, Relations} : s \in T

ASSUME Universe ==
  /\ Accounts \cap Instruments = {} /\ Mappings \cap Relations = {}
  /\ Changes \subseteq [act : {"assign", "release"}, subject : Mappings, reason : Nat]
                       \cup [act : {"relate"}, subject : Relations, reason : Nat]
  /\ Keys \subseteq Ops \X Changes /\ DirectKeys \subseteq Ops \X Changes
  /\ \A k \in DirectKeys : k[2].act # "relate"
  /\ Legacy \subseteq Mappings
  /\ Targets \in [Changes -> SUBSET {"identity-projection", "balance-projection"}]
  /\ Uses \in [Approvals -> Nat \ {0}] /\ MaxRev \in Nat
  /\ None \notin Approvals
  /\ \A o \in Ops : o \notin {"rule", "legacy"}

\* A plan's id is the digest of the change and the revision it was made for.
Plans == [change : Changes, base : 0..MaxRev]

VARIABLES
  facts,       \* account_mappings, instrument_mappings and entity_relations
  decision,    \* decision_revisions (and decision_operations), by operation
  superseded,  \* operations whose decision carries superseded_by
  status,      \* change_plans.status, or None
  approval,    \* approvals
  receipt,     \* operation_receipts: the approval it was reserved under
  queued,      \* decision_outbox
  call         \* what a commit call has in hand

judged == <<facts, decision, superseded>>
records == <<receipt, queued>>
vars == <<judged, status, approval, records, call>>

Open == {"planned", "approved"}

Facts == [subject : Subjects, rev : 1..(MaxRev + 1), by : Ops \cup {"rule", "legacy"}]

Decisions == [subject : Subjects, rev : 0..(MaxRev + 1), act : {"assign", "release", "relate"}]

\* An approval with the uses it has left.
Grants == [plan : Plans, by : Principals, uses : Nat]

\* No row is no row.
ASSUME NoRow == None \notin Grants \cup Decisions \cup Open \cup {"committed"}

Waiting == [at : {"loaded", "looked", "checked", "explains", "compares", "stales"},
            op : Ops, approval : Approvals, open : BOOLEAN]

Answers == {"accepted", "refused", "lost"}
Answered == [at : Answers]

TypeOK ==
  /\ facts \subseteq Facts
  /\ decision \in [Ops -> Decisions \cup {None}]
  /\ superseded \subseteq Ops
  /\ status \in [Plans -> Open \cup {"committed", "stale", None}]
  /\ approval \in [Approvals -> Grants \cup {None}]
  /\ receipt \in [Ops -> Approvals \cup {None}]
  /\ queued \subseteq Ops \X {"identity-projection", "balance-projection"}
  /\ call \in [Calls -> Waiting \cup Answered]

Init ==
  /\ facts = {[subject |-> s, rev |-> 1, by |-> IF s \in Legacy THEN "legacy" ELSE "rule"] :
                s \in Mappings}
  /\ decision = [o \in Ops |-> None]
  /\ superseded = {}
  /\ status = [p \in Plans |-> None]
  /\ approval = [a \in Approvals |-> None]
  /\ receipt = [o \in Ops |-> None]
  /\ queued = {}
  /\ call = [c \in Calls |-> [at |-> "lost"]]

-----------------------------------------------------------------------------
(* What the tables say of a subject. *)

Rows(s) == {f \in facts : f.subject = s}

\* REVISION_OF: the highest mapping revision, or the number of relation rows.
Rev(s) == IF s \in Relations THEN Cardinality(Rows(s))
          ELSE Max({f.rev : f \in Rows(s)} \cup {0})

Made(o) == decision[o] # None

\* active_manual_overrides
Active(s) == {o \in Ops : /\ Made(o) /\ o \notin superseded
                          /\ decision[o].subject = s /\ decision[o].act = "assign"}

\* protected_mapping_subjects: an override in force, or a row made by hand that
\* no decision describes and none has released since.
Protected(s) ==
  \/ Active(s) # {}
  \/ \E f \in Rows(s) : /\ f.by # "rule"
                        /\ \A o \in Ops : Made(o) /\ decision[o].subject = s =>
                             /\ decision[o].rev # f.rev
                             /\ decision[o].act = "release" => decision[o].rev < f.rev

\* The mapping or relation row an operation makes has an id of its own, derived
\* from the operation and the table.
RowOf(o, s) == {f \in facts : f.by = o /\ Table(f.subject) = Table(s)}

-----------------------------------------------------------------------------
(* The judgement's own statements, with the guard its caller splices in. *)

\* The ledger row, which carries the preconditions of the mapping commands.
Judges(o, change, base, guard) ==
  /\ guard /\ ~Made(o)
  /\ change.act # "relate" => Rev(change.subject) = base
  /\ change.act = "release" => Protected(change.subject)

\* The mapping insert joins the operation's ledger row, whoever wrote that.
Maps(o, change, base, guard) ==
  /\ change.act = "assign"
  /\ Judges(o, change, base, guard) \/ Made(o)
  /\ RowOf(o, change.subject) = {} /\ Rev(change.subject) = base

\* An operation that already has its decision: the relation row's provenance
\* trigger, and the trigger on superseded_by, refuse another subject's.
Aborts(o, change, guard) ==
  /\ Made(o)
  /\ \/ /\ change.act = "relate" /\ guard
        /\ RowOf(o, change.subject) = {}
     \/ /\ change.act = "release" /\ Active(change.subject) # {}
        /\ decision[o].subject # change.subject \/ o \in Active(change.subject)

Judge(o, change, base, guard) ==
  LET judges == Judges(o, change, base, guard)
      row == [subject |-> change.subject, rev |-> base + 1, by |-> o]
  IN /\ facts' = IF Maps(o, change, base, guard) \/ (judges /\ change.act = "relate")
                 THEN facts \cup {row} ELSE facts
     /\ decision' = IF judges
                    THEN [decision EXCEPT ![o] =
                            [subject |-> change.subject, act |-> change.act,
                             rev |-> IF change.act = "release" THEN base ELSE base + 1]]
                    ELSE decision
     /\ superseded' = IF change.act = "release" /\ (judges \/ Made(o))
                      THEN superseded \cup Active(change.subject) ELSE superseded

-----------------------------------------------------------------------------
(* Planning and approving. *)

\* createPlan: the same change over the same revision is the same plan.
CreatePlan(change) ==
  LET p == [change |-> change, base |-> Rev(change.subject)] IN
  /\ p \in Plans /\ status[p] = None
  /\ status' = [status EXCEPT ![p] = "planned"]
  /\ UNCHANGED <<judged, approval, records, call>>

\* approve: the insert asks again that the plan is open and nothing has moved.
Approve(a, p, who) ==
  /\ approval[a] = None /\ status[p] \in Open /\ Rev(p.change.subject) = p.base
  /\ approval' = [approval EXCEPT ![a] = [plan |-> p, by |-> who, uses |-> Uses[a]]]
  /\ status' = [status EXCEPT ![p] = "approved"]
  /\ UNCHANGED <<judged, records, call>>

\* approve, when a revision has moved.
ApproveTooLate(p) ==
  /\ status[p] \in Open /\ Rev(p.change.subject) # p.base
  /\ status' = [status EXCEPT ![p] = "stale"]
  /\ UNCHANGED <<judged, approval, records, call>>

-----------------------------------------------------------------------------
(* One commit call. *)

PlanOf(a) == approval[a].plan
Subject(a) == PlanOf(a).change.subject

Hand(c) == call[c].approval
Op(c) == call[c].op

Step(c, at) == call' = [call EXCEPT ![c].at = at]
Answer(c, as) == call' = [call EXCEPT ![c] = [at |-> as]]

Store == <<judged, status, approval, records>>

\* The plan is loaded.  A call that names an approval of another plan or person
\* is refused and writes nothing; only fitting ones are begun here.
Begin(c) ==
  /\ call[c].at \in Answers
  /\ \E a \in Approvals, k \in Keys :
       /\ approval[a] # None /\ k[2] = PlanOf(a).change
       /\ call' = [call EXCEPT ![c] = [at |-> "loaded", op |-> k[1], approval |-> a,
                                       open |-> status[PlanOf(a)] \in Open]]
  /\ UNCHANGED Store

\* The receipt in the principal's namespace.
Mine(c) == receipt[Op(c)] # None /\ approval[receipt[Op(c)]].by = approval[Hand(c)].by

AnswerAnyway(c) == "accepted"

\* A completed operation answers with its receipt, to the same payload.
AnswerOf(c) == IF receipt[Op(c)] = Hand(c) THEN "accepted" ELSE "refused"

\* late: by this call's clock the time of the plan or of the approval is up.
LooksUp(c) ==
  /\ call[c].at = "loaded"
  /\ IF Mine(c) THEN Answer(c, AnswerOf(c))
     ELSE \E late \in BOOLEAN :
            IF late \/ ~call[c].open THEN Answer(c, "refused") ELSE Step(c, "looked")
  /\ UNCHANGED Store

\* The approval, and the mutation's writes prepared from the plan.
ReadsApproval(c) ==
  /\ call[c].at = "looked"
  /\ IF approval[Hand(c)].uses < 1 THEN Answer(c, "refused") ELSE Step(c, "checked")
  /\ UNCHANGED Store

\* receiptReservationWrite: every precondition of the commit.
ReservesUnseen(c) ==
  /\ receipt[Op(c)] = None
  /\ status[PlanOf(Hand(c))] \in Open
  /\ approval[Hand(c)].uses > 0

ReservesReopened(c) ==
  /\ receipt[Op(c)] = None
  /\ approval[Hand(c)].uses > 0
  /\ Rev(Subject(Hand(c))) = PlanOf(Hand(c)).base

Reserves(c) ==
  /\ receipt[Op(c)] = None
  /\ status[PlanOf(Hand(c))] \in Open
  /\ approval[Hand(c)].uses > 0
  /\ Rev(Subject(Hand(c))) = PlanOf(Hand(c)).base

\* receiptExistsGuard: any receipt of the operation and principal will do.
Guarded(c) == Reserves(c) \/ Mine(c)

\* approvalConsumptionWrite, which every guarded batch runs, a repeated one too.
SpendsAgain(c) == Guarded(c)

Spends(c) == Guarded(c) /\ approval[Hand(c)].uses > 0

\* The batch: reservation, judgement, approvalConsumptionWrite,
\* planCommittedWrite and an outboxWrite per target.
RunsBatch(c) ==
  /\ call[c].at = "checked"
  /\ LET a == Hand(c)
         p == PlanOf(a)
         o == Op(c)
     IN IF Aborts(o, p.change, Guarded(c))
        THEN Answer(c, "refused") /\ UNCHANGED Store
        ELSE /\ receipt' = IF Reserves(c) THEN [receipt EXCEPT ![o] = a] ELSE receipt
             /\ Judge(o, p.change, p.base, Guarded(c))
             /\ approval' = IF Spends(c)
                            THEN [approval EXCEPT ![a].uses = @ - 1] ELSE approval
             /\ status' = IF Guarded(c) /\ status[p] \in Open
                          THEN [status EXCEPT ![p] = "committed"] ELSE status
             /\ queued' = IF Guarded(c) /\ decision'[o] # None
                          THEN queued \cup ({o} \X Targets[p.change]) ELSE queued
             /\ IF Reserves(c) THEN Answer(c, "accepted") ELSE Step(c, "explains")

\* failureReason: a receipt that came in the meantime, then moved revisions;
\* what is read after those only names the refusal.
FindsReceipt(c) ==
  /\ call[c].at = "explains"
  /\ IF Mine(c) THEN Answer(c, AnswerOf(c)) ELSE Step(c, "compares")
  /\ UNCHANGED Store

Moved(c) == Rev(Subject(Hand(c))) # PlanOf(Hand(c)).base

ComparesRevisions(c) ==
  /\ call[c].at = "compares"
  /\ IF Moved(c) THEN Step(c, "stales") ELSE Answer(c, "refused")
  /\ UNCHANGED Store

\* planStaleWrite
MarksStale(c) ==
  /\ call[c].at = "stales"
  /\ status' = [status EXCEPT ![PlanOf(Hand(c))] = IF @ \in Open THEN "stale" ELSE @]
  /\ Answer(c, "refused")
  /\ UNCHANGED <<judged, approval, records>>

\* The connection or the isolate is lost: nobody hears the answer, and the
\* caller may ask again with the same operation id.
Lost(c) ==
  /\ call[c].at \notin Answers
  /\ Answer(c, "lost")
  /\ UNCHANGED Store

-----------------------------------------------------------------------------
(* Other writers of the mappings. *)

\* executeIdentityCommand: its look for a stored operation may be long past
\* when its batch runs, so the batch stands alone.
Direct(o, change) ==
  /\ <<o, change>> \in DirectKeys /\ Rev(change.subject) < MaxRev
  /\ ~Aborts(o, change, TRUE)
  /\ Judge(o, change, Rev(change.subject), TRUE)
  /\ UNCHANGED <<status, approval, records, call>>

\* Automatic policy appends a row of its own where nothing is protected.
PolicyMaps(s) ==
  /\ ~Protected(s) /\ Rev(s) < MaxRev
  /\ facts' = facts \cup {[subject |-> s, rev |-> Rev(s) + 1, by |-> "rule"]}
  /\ UNCHANGED <<decision, superseded, status, approval, records, call>>

-----------------------------------------------------------------------------
Commit(c) == \/ LooksUp(c) \/ ReadsApproval(c) \/ RunsBatch(c)
             \/ FindsReceipt(c) \/ ComparesRevisions(c) \/ MarksStale(c)

Next ==
  \/ \E change \in Changes : CreatePlan(change)
  \/ \E a \in Approvals, p \in Plans, who \in Principals : Approve(a, p, who)
  \/ \E p \in Plans : ApproveTooLate(p)
  \/ \E c \in Calls : Begin(c) \/ Commit(c) \/ Lost(c)
  \/ \E o \in Ops, change \in Changes : Direct(o, change)
  \/ \E s \in Mappings : PolicyMaps(s)

Spec == Init /\ [][Next]_vars

-----------------------------------------------------------------------------
(* Properties. *)

Receipts == {o \in Ops : receipt[o] # None}

\* A relation's row whose operation has the receipt of a release: its own
\* reservation failed, and the guard took that receipt for it.
Unreserved(f) == f.subject \in Relations /\ PlanOf(receipt[f.by]).change.act = "release"

\* No judgement is made over another one that its author had not seen: two
\* assignments or relation judgements of a subject never claim the same
\* revision, whatever commits, direct commands and policy runs interleave and
\* whatever operation ids they come under.  Only a relation written under the
\* receipt of a release, whose revisions nothing compared, may share one
\* (FailedGuardWritesNothing).
NoLostUpdate ==
  \A f, g \in facts : f.subject = g.subject /\ f.rev = g.rev /\ f # g
                        => Unreserved(f) \/ Unreserved(g)

\* A plan is accepted at most once, under whatever operation ids it is sent,
\* and every receipt has used up one use of its approval.
SpentOnce ==
  /\ \A o, q \in Receipts : PlanOf(receipt[o]) = PlanOf(receipt[q]) => o = q
  /\ \A a \in Approvals : approval[a] # None =>
       Cardinality({o \in Receipts : receipt[o] = a}) =< Uses[a] - approval[a].uses

InEffect(o) ==
  LET p == PlanOf(receipt[o]) IN
  /\ Made(o) /\ decision[o].subject = p.change.subject
  /\ {o} \X Targets[p.change] \subseteq queued

\* The decision under an operation id is one the direct route makes under it.
DecidedDirectly(o) ==
  \E k \in DirectKeys : /\ k[1] = o /\ Made(o)
                        /\ decision[o].subject = k[2].subject /\ decision[o].act = k[2].act

\* An accepted assignment or relation is in effect: its receipt, its decision,
\* the row it made at the revision after the one its plan was made for, and its
\* outbox rows are all there.  Only an assignment under whose id the direct
\* route had made its decision is not sure to have made its own.
AcceptedIsInEffect ==
  \A o \in Receipts : PlanOf(receipt[o]).change.act # "release" =>
    \/ /\ InEffect(o)
       /\ \E f \in facts : f.by = o /\ f.rev = PlanOf(receipt[o]).base + 1
                           /\ f.subject = Subject(receipt[o])
    \/ PlanOf(receipt[o]).change.act = "assign" /\ DecidedDirectly(o)

\* A call is answered with success exactly when the receipt on record is its
\* own, and a receipt is never changed: lost answers and retries of any number
\* of callers end with the same receipt.
AnswersAreReceipts ==
  [][/\ \A c \in Calls : call[c].at \in {"loaded", "checked", "explains"} /\ call'[c].at = "accepted" =>
          receipt'[Op(c)] = Hand(c)
     /\ \A o \in Receipts : receipt'[o] = receipt[o]]_vars

\* "Every later statement is joined to it, so a failed guard writes nothing at
\* all - not the receipt, not the decision, not the outbox" (commit.ts:16-17).
ReceiptHasDecision == \A o \in Receipts : InEffect(o)

\* A batch whose reservation failed appends nothing: "Nothing else in the batch
\* can write unless this one did" (decision-commit.ts:36-37), neither a mapping
\* or relation row, nor a decision, a receipt or an outbox row.
FailedGuardWritesNothing ==
  [][\A c \in Calls : call[c].at = "checked" /\ call'[c] # call[c] /\ ~Reserves(c)
       => UNCHANGED <<facts, decision, receipt, queued>>]_vars
=============================================================================
