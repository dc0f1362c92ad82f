-------------------------- MODULE ChangeCommitProofs --------------------------
(***************************************************************************)
(* Theorems of ChangeCommit for every value of its constants.              *)
(*                                                                         *)
(* LedgerInv is inductive without any assumption on how callers choose     *)
(* their operation ids: what a call has in hand and what a receipt was     *)
(* made for are pairs of Keys, a receipt's plan is committed and its       *)
(* approval has spent a use, and no row of the judgement tables is there   *)
(* without the decision or the receipt it hangs on.  JudgedInv adds the    *)
(* rows of the relations: they are counted, so that a reserved judgement   *)
(* claims a revision nobody claims, revisions are not claimed twice but    *)
(* where a release's receipt let a relation in, and what a receipt accepts *)
(* is in effect.                                                           *)
(***************************************************************************)
EXTENDS ChangeCommit, NatExtremes, TLAPS

\* A call in hand holds an approval on record, for a change its operation id is
\* used for.
HandInv(c) ==
  call[c].at \notin Answers =>
    /\ approval[Hand(c)] # None
    /\ <<Op(c), PlanOf(Hand(c)).change>> \in Keys

\* A receipt: its plan is committed, its approval has spent a use, and unless it
\* is a release there is a decision.
ReceiptInv(o) ==
  receipt[o] # None =>
    /\ approval[receipt[o]] # None
    /\ <<o, PlanOf(receipt[o]).change>> \in Keys
    /\ status[PlanOf(receipt[o])] = "committed"
    /\ approval[receipt[o]].uses < Uses[receipt[o]]
    /\ PlanOf(receipt[o]).change.act # "release" => Made(o)

\* A decision without a receipt was made on the direct route.
DecisionInv(o) ==
  Made(o) /\ receipt[o] = None => DecidedDirectly(o)

\* A row has its decision, and a relation's row its receipt.
FactInv(f) ==
  /\ f.by \in Ops => Made(f.by)
  /\ f.subject \in Relations => f.by \in Ops /\ receipt[f.by] # None

\* One receipt per plan.
OnePerPlan ==
  \A o, q \in Receipts : PlanOf(receipt[o]) = PlanOf(receipt[q]) => o = q

LedgerInv ==
  /\ TypeOK
  /\ \A c \in Calls : HandInv(c)
  /\ \A o \in Ops : ReceiptInv(o) /\ DecisionInv(o)
  /\ \A f \in facts : FactInv(f)
  /\ \A a \in Approvals : approval[a] # None => approval[a].uses =< Uses[a]
  /\ OnePerPlan

\* The rows of a relation are counted: none claims a revision past their number.
Counted(s) ==
  /\ IsFiniteSet(Rows(s))
  /\ \A f \in Rows(s) : f.rev =< Cardinality(Rows(s))

\* A plan approved for a relation was made for rows that are still there.
Foreseen(a) ==
  approval[a] # None /\ Subject(a) \in Relations =>
    PlanOf(a).base =< Cardinality(Rows(Subject(a)))

JudgedInv ==
  /\ LedgerInv
  /\ \A s \in Relations : Counted(s)
  /\ \A a \in Approvals : Foreseen(a)
  /\ NoLostUpdate
  /\ AcceptedIsInEffect

-----------------------------------------------------------------------------
(* The tables. *)

\* A relation is looked up in the relations' table, and nothing else is.
LEMMA TableOf ==
  ASSUME NEW s \in Subjects
  PROVE  /\ s \in Relations <=> Table(s) = Relations
         /\ s \in Mappings <=> s \notin Relations
<1>1. \E T \in {Accounts, Instruments, Relations} : s \in T
  BY DEF Subjects, Mappings
<1>2. Table(s) \in {Accounts, Instruments, Relations} /\ s \in Table(s)
  BY <1>1 DEF Table
<1> QED
  BY <1>2, Universe DEF Subjects, Mappings

\* The revision of a mapping is the greatest its rows claim.
LEMMA MappingRev ==
  ASSUME facts \subseteq Facts, NEW s \in Mappings
  PROVE  Rev(s) \in Nat /\ \A f \in Rows(s) : f.rev =< Rev(s)
<1> DEFINE R == {f.rev : f \in Rows(s)} \cup {0}
<1>1. s \notin Relations
  BY Universe
<1>2. R \in SUBSET Nat /\ R # {} /\ MaxRev + 1 \in Nat /\ \A n \in R : n =< MaxRev + 1
  BY Universe DEF Rows, Facts
<1>3. Max(R) \in R /\ \A n \in R : n =< Max(R)
  BY <1>2, MaxOfNats
<1>4. Rev(s) = Max(R)
  BY <1>1 DEF Rev
<1>5. \A f \in Rows(s) : f.rev \in R
  OBVIOUS
<1> HIDE DEF R
<1> QED
  BY <1>2, <1>3, <1>4, <1>5

\* What the statements of a judgement write, whatever their guard: rows and
\* decisions are only added, at most one of each, and the row hangs on the
\* decision.
LEMMA JudgeWrites ==
  ASSUME TypeOK, NEW o \in Ops, NEW change \in Changes, NEW base \in 0..MaxRev,
         NEW guard \in BOOLEAN, Judge(o, change, base, guard)
  PROVE  /\ facts' \subseteq Facts /\ facts \subseteq facts'
         /\ decision' \in [Ops -> Decisions \cup {None}] /\ superseded' \subseteq Ops
         /\ \A q \in Ops : decision[q] # None \/ q # o => decision'[q] = decision[q]
         /\ decision'[o] # decision[o] =>
              guard /\ decision'[o].subject = change.subject /\ decision'[o].act = change.act
         /\ \A f \in facts' \ facts :
              /\ f = [subject |-> change.subject, rev |-> base + 1, by |-> o]
              /\ decision'[o] # None
              /\ \/ change.act = "relate" /\ guard /\ ~Made(o)
                 \/ change.act = "assign" /\ Rev(change.subject) = base
<1> DEFINE row == [subject |-> change.subject, rev |-> base + 1, by |-> o]
           made == [subject |-> change.subject, act |-> change.act,
                    rev |-> IF change.act = "release" THEN base ELSE base + 1]
<1>1. /\ change.subject \in Subjects /\ change.act \in {"assign", "release", "relate"}
      /\ base \in 0..(MaxRev + 1) /\ base + 1 \in 1..(MaxRev + 1)
  BY Universe DEF Subjects
<1>2. row \in Facts
  BY <1>1 DEF Facts
<1>3. made \in Decisions /\ made # None /\ made.subject = change.subject /\ made.act = change.act
  <2>1. made \in Decisions
    BY <1>1 DEF Decisions
  <2> QED  BY <2>1, NoRow
<1>4. /\ facts' = facts \cup {row} \/ facts' = facts
      /\ facts' # facts => Maps(o, change, base, guard)
                           \/ (Judges(o, change, base, guard) /\ change.act = "relate")
      /\ Judges(o, change, base, guard) => decision' = [decision EXCEPT ![o] = made]
      /\ ~Judges(o, change, base, guard) => decision' = decision
      /\ superseded' = superseded \cup Active(change.subject) \/ superseded' = superseded
  BY DEF Judge
<1> HIDE DEF row, made
<1>5. facts' \subseteq Facts /\ facts \subseteq facts' /\ superseded' \subseteq Ops
  BY <1>2, <1>4 DEF TypeOK, Active
<1>6. CASE Judges(o, change, base, guard)
  <2>1. guard /\ ~Made(o)
    BY <1>6 DEF Judges
  <2>2. decision' = [decision EXCEPT ![o] = made]
    BY <1>4, <1>6
  <2>3. /\ decision' \in [Ops -> Decisions \cup {None}]
        /\ decision'[o] = made /\ \A q \in Ops : q # o => decision'[q] = decision[q]
    BY <1>3, <2>2 DEF TypeOK
  <2>4. facts' # facts => change.act = "relate" \/ (change.act = "assign" /\ Rev(change.subject) = base)
    BY <1>4 DEF Maps
  <2> QED  BY <1>3, <1>4, <1>5, <2>1, <2>3, <2>4 DEF Made, row
<1>7. CASE ~Judges(o, change, base, guard)
  <2>1. decision' = decision
    BY <1>4, <1>7
  <2>2. facts' # facts => Made(o) /\ change.act = "assign" /\ Rev(change.subject) = base
    BY <1>4, <1>7 DEF Maps
  <2> QED  BY <1>4, <1>5, <2>1, <2>2 DEF TypeOK, Made, row
<1> QED
  BY <1>6, <1>7

-----------------------------------------------------------------------------
(* Steps that write no judgement, no approval and no receipt. *)

Statuses == Open \cup {"committed", "stale", None}

\* What such a step has to keep: a committed plan, and the calls.
Bookkeeping ==
  /\ UNCHANGED <<judged, approval, records>>
  /\ status' \in [Plans -> Statuses]
  /\ \A p \in Plans : status[p] = "committed" => status'[p] = "committed"
  /\ call' \in [Calls -> Waiting \cup Answered]
  /\ \A c \in Calls : HandInv(c)'

\* An approval on record names a plan.
LEMMA PlanOfType ==
  ASSUME TypeOK, NEW a \in Approvals, approval[a] # None
  PROVE  /\ approval[a] \in Grants /\ PlanOf(a) \in Plans
         /\ PlanOf(a).change \in Changes /\ PlanOf(a).base \in 0..MaxRev
         /\ Subject(a) \in Subjects
<1>1. approval[a] \in Grants
  BY DEF TypeOK
<1>2. PlanOf(a) \in Plans /\ PlanOf(a).change \in Changes /\ PlanOf(a).base \in 0..MaxRev
  BY <1>1 DEF Grants, Plans, PlanOf
<1> QED
  BY <1>1, <1>2, Universe DEF Subject, Subjects

LEMMA BooksKept ==
  ASSUME LedgerInv, Bookkeeping
  PROVE  LedgerInv'
<1>1. TypeOK'
  BY DEF LedgerInv, TypeOK, Bookkeeping, Statuses, judged, records
<1>2. \A o \in Ops : ReceiptInv(o)' /\ DecisionInv(o)'
  <2> SUFFICES ASSUME NEW o \in Ops PROVE ReceiptInv(o)' /\ DecisionInv(o)'
    OBVIOUS
  <2>1. receipt[o] # None => receipt[o] \in Approvals
    BY DEF LedgerInv, TypeOK
  <2>2. ReceiptInv(o) /\ DecisionInv(o)
    BY DEF LedgerInv
  <2>3. receipt[o] # None => PlanOf(receipt[o]) \in Plans
    BY <2>1, <2>2, PlanOfType DEF LedgerInv, ReceiptInv
  <2> QED
    BY <2>2, <2>3 DEF ReceiptInv, DecisionInv, DecidedDirectly, Bookkeeping, judged, records,
         PlanOf, Made
<1>3. \A f \in facts' : FactInv(f)'
  BY DEF LedgerInv, FactInv, Bookkeeping, judged, records, Made
<1>4. OnePerPlan'
  BY DEF LedgerInv, OnePerPlan, Bookkeeping, records, Receipts, PlanOf
<1>5. \A a \in Approvals : approval'[a] # None => approval'[a].uses =< Uses[a]
  BY DEF LedgerInv, Bookkeeping
<1> QED
  BY <1>1, <1>2, <1>3, <1>4, <1>5 DEF LedgerInv, Bookkeeping

\* A call goes on with the same approval and operation, or is answered.
LEMMA GoesOn ==
  ASSUME LedgerInv, NEW c \in Calls, call[c].at \notin Answers,
         \/ \E at \in {"looked", "checked", "explains", "compares", "stales"} : Step(c, at)
         \/ \E as \in Answers : Answer(c, as)
  PROVE  /\ call' \in [Calls -> Waiting \cup Answered]
         /\ \A d \in Calls \ {c} : call'[d] = call[d]
         /\ call'[c].at \notin Answers => Hand(c)' = Hand(c) /\ Op(c)' = Op(c)
<1>1. call \in [Calls -> Waiting \cup Answered] /\ call[c] \in Waiting
  BY DEF LedgerInv, TypeOK, Answered
<1>2. ASSUME NEW at \in {"looked", "checked", "explains", "compares", "stales"}, Step(c, at)
      PROVE  /\ call' = [call EXCEPT ![c] = [call[c] EXCEPT !.at = at]]
             /\ [call[c] EXCEPT !.at = at] \in Waiting
             /\ [call[c] EXCEPT !.at = at].approval = call[c].approval
             /\ [call[c] EXCEPT !.at = at].op = call[c].op
  <2>1. [call[c] EXCEPT !.at = at] \in Waiting
    BY <1>1 DEF Waiting
  <2> QED  BY <1>1, <1>2, <2>1 DEF Step, Waiting
<1>3. ASSUME NEW as \in Answers, Answer(c, as)
      PROVE  call' = [call EXCEPT ![c] = [at |-> as]] /\ [at |-> as] \in Answered
  BY <1>3 DEF Answer, Answered
<1>4. ASSUME NEW at \in {"looked", "checked", "explains", "compares", "stales"}, Step(c, at)
      PROVE  /\ call' \in [Calls -> Waiting \cup Answered]
             /\ \A d \in Calls \ {c} : call'[d] = call[d]
             /\ Hand(c)' = Hand(c) /\ Op(c)' = Op(c)
  BY <1>1, <1>2, <1>4 DEF Hand, Op
<1>5. ASSUME NEW as \in Answers, Answer(c, as)
      PROVE  /\ call' \in [Calls -> Waiting \cup Answered]
             /\ \A d \in Calls \ {c} : call'[d] = call[d]
             /\ call'[c].at \in Answers
  <2>1. PICK to \in Answered : to.at \in Answers /\ call' = [call EXCEPT ![c] = to]
    BY <1>3, <1>5
  <2> QED  BY <1>1, <2>1
<1> QED
  BY <1>4, <1>5

\* If the approvals on record stay, the other calls keep what they hold.
LEMMA HandsStay ==
  ASSUME NEW d \in Calls, HandInv(d), TypeOK, call'[d] = call[d],
         \A a \in Approvals : approval[a] # None =>
           approval'[a] # None /\ approval'[a].plan = approval[a].plan
  PROVE  HandInv(d)'
<1>1. call[d].at \notin Answers => Hand(d) \in Approvals
  BY DEF TypeOK, Waiting, Answered, Hand
<1> QED
  BY <1>1 DEF HandInv, Hand, Op, PlanOf

LEMMA CallStep ==
  ASSUME LedgerInv, NEW c \in Calls,
         Begin(c) \/ LooksUp(c) \/ ReadsApproval(c) \/ FindsReceipt(c) \/ ComparesRevisions(c)
           \/ MarksStale(c) \/ Lost(c)
  PROVE  Bookkeeping
<1> USE DEF Store
<1>1. CASE Begin(c)
  <2>1. PICK a \in Approvals, k \in Keys :
          /\ approval[a] # None /\ k[2] = PlanOf(a).change
          /\ call' = [call EXCEPT ![c] = [at |-> "loaded", op |-> k[1], approval |-> a,
                                          open |-> status[PlanOf(a)] \in Open]]
    BY <1>1 DEF Begin
  <2> DEFINE open == status[PlanOf(a)] \in Open
             to == [at |-> "loaded", op |-> k[1], approval |-> a, open |-> open]
  <2>2. open \in BOOLEAN
    BY SMT
  <2>3. k[1] \in Ops /\ k = <<k[1], PlanOf(a).change>>
    BY <2>1, Universe
  <2>4. call' = [call EXCEPT ![c] = to]
    BY <2>1
  <2> HIDE DEF open
  <2>5. to \in Waiting /\ to.approval = a /\ to.op = k[1] /\ to.at = "loaded"
    BY <2>2, <2>3 DEF Waiting
  <2> HIDE DEF to
  <2>6. UNCHANGED Store
    BY <1>1 DEF Begin
  <2>7. call' \in [Calls -> Waiting \cup Answered] /\ call'[c] = to
    BY <2>4, <2>5 DEF LedgerInv, TypeOK
  <2>8. HandInv(c)'
    BY <2>1, <2>3, <2>5, <2>6, <2>7 DEF HandInv, Hand, Op, PlanOf
  <2>9. ASSUME NEW d \in Calls, d # c PROVE HandInv(d)'
    <3>1. call'[d] = call[d]
      BY <2>4, <2>9 DEF LedgerInv, TypeOK
    <3> QED  BY <2>6, <3>1, HandsStay DEF LedgerInv
  <2> QED
    BY <2>6, <2>7, <2>8, <2>9 DEF Bookkeeping, LedgerInv, TypeOK, Statuses
<1>2. CASE LooksUp(c) \/ ReadsApproval(c) \/ FindsReceipt(c) \/ ComparesRevisions(c)
           \/ MarksStale(c) \/ Lost(c)
  <2>1. call[c].at \notin Answers
    BY <1>2 DEF LooksUp, ReadsApproval, FindsReceipt, ComparesRevisions, MarksStale, Lost, Answers
  <2>2. \/ \E at \in {"looked", "checked", "explains", "compares", "stales"} : Step(c, at)
        \/ \E as \in Answers : Answer(c, as)
    BY <1>2 DEF LooksUp, ReadsApproval, FindsReceipt, ComparesRevisions, MarksStale, Lost,
         Answers, AnswerOf
  <2>3. /\ call' \in [Calls -> Waiting \cup Answered]
        /\ \A d \in Calls \ {c} : call'[d] = call[d]
        /\ call'[c].at \notin Answers => Hand(c)' = Hand(c) /\ Op(c)' = Op(c)
    BY <2>1, <2>2, GoesOn
  <2>4. UNCHANGED <<judged, approval, records>>
    BY <1>2 DEF LooksUp, ReadsApproval, FindsReceipt, ComparesRevisions, MarksStale, Lost
  <2>5. \A d \in Calls : HandInv(d)'
    <3>1. HandInv(c)'
      BY <2>1, <2>3, <2>4 DEF LedgerInv, HandInv, PlanOf
    <3>2. \A d \in Calls \ {c} : HandInv(d)'
      BY <2>3, <2>4, HandsStay DEF LedgerInv
    <3> QED  BY <3>1, <3>2
  <2>6. /\ status' \in [Plans -> Statuses]
        /\ \A p \in Plans : status[p] = "committed" => status'[p] = "committed"
    <3>1. CASE MarksStale(c)
      BY <3>1 DEF MarksStale, LedgerInv, TypeOK, Statuses, Open
    <3>2. CASE ~MarksStale(c)
      BY <1>2, <3>2 DEF LooksUp, ReadsApproval, FindsReceipt, ComparesRevisions, Lost,
           LedgerInv, TypeOK, Statuses
    <3> QED  BY <3>1, <3>2
  <2> QED
    BY <2>3, <2>4, <2>5, <2>6 DEF Bookkeeping
<1> QED
  BY <1>1, <1>2

LEMMA PlanStep ==
  ASSUME LedgerInv,
         \/ \E change \in Changes : CreatePlan(change)
         \/ \E p \in Plans : ApproveTooLate(p)
  PROVE  Bookkeeping
<1>1. UNCHANGED <<judged, approval, records, call>>
  BY DEF CreatePlan, ApproveTooLate
<1>2. \A c \in Calls : HandInv(c)'
  BY <1>1, HandsStay DEF LedgerInv
<1>3. /\ status' \in [Plans -> Statuses]
      /\ \A p \in Plans : status[p] = "committed" => status'[p] = "committed"
  BY NoRow DEF CreatePlan, ApproveTooLate, LedgerInv, TypeOK, Statuses, Open
<1> QED
  BY <1>1, <1>2, <1>3 DEF Bookkeeping, LedgerInv, TypeOK

-----------------------------------------------------------------------------
(* Steps that write. *)

\* A guarded assignment or relation judgement whose revision has not moved
\* leaves its operation decided; where the decision is its own, the row is its
\* own too.
LEMMA JudgeDecides ==
  ASSUME TypeOK, NEW o \in Ops, NEW change \in Changes, NEW base \in 0..MaxRev,
         Judge(o, change, base, TRUE), change.act # "release", Rev(change.subject) = base
  PROVE  /\ decision'[o] # None
         /\ ~Made(o) /\ RowOf(o, change.subject) = {} =>
              /\ decision'[o].subject = change.subject
              /\ [subject |-> change.subject, rev |-> base + 1, by |-> o] \in facts'
<1>1. CASE Made(o)
  <2>1. decision'[o] = decision[o]
    BY <1>1, JudgeWrites DEF Made
  <2> QED  BY <1>1, <2>1 DEF Made
<1>2. CASE ~Made(o)
  <2>1. Judges(o, change, base, TRUE)
    BY <1>2 DEF Judges
  <2> DEFINE made == [subject |-> change.subject, act |-> change.act, rev |-> base + 1]
  <2>2. decision' = [decision EXCEPT ![o] = made]
    BY <2>1 DEF Judge
  <2>3. change.act \in {"assign", "relate"} /\ change.subject \in Subjects
    BY Universe DEF Subjects
  <2>4. made \in Decisions
    BY <2>3, Universe DEF Decisions
  <2>5. decision'[o] = made /\ made # None /\ made.subject = change.subject
    BY <2>2, <2>4, NoRow DEF TypeOK
  <2>6. RowOf(o, change.subject) = {} =>
          Maps(o, change, base, TRUE) \/ (Judges(o, change, base, TRUE) /\ change.act = "relate")
    BY <2>1, <2>3 DEF Maps
  <2>7. RowOf(o, change.subject) = {} =>
          [subject |-> change.subject, rev |-> base + 1, by |-> o] \in facts'
    BY <2>6 DEF Judge
  <2> QED  BY <2>5, <2>7
<1> QED  BY <1>1, <1>2

LEMMA ApproveStep ==
  ASSUME LedgerInv, NEW a \in Approvals, NEW p \in Plans, NEW who \in Principals,
         Approve(a, p, who)
  PROVE  LedgerInv'
<1> DEFINE grant == [plan |-> p, by |-> who, uses |-> Uses[a]]
<1>1. grant \in Grants /\ grant.uses = Uses[a] /\ Uses[a] \in Nat
  BY Universe DEF Grants
<1>2. /\ approval[a] = None /\ approval' = [approval EXCEPT ![a] = grant]
      /\ status[p] \in Open /\ status' = [status EXCEPT ![p] = "approved"]
      /\ UNCHANGED <<facts, decision, superseded, receipt, queued, call>>
  BY DEF Approve, judged, records
<1> HIDE DEF grant
<1>3. TypeOK'
  BY <1>1, <1>2 DEF LedgerInv, TypeOK, Open
<1>4. \A b \in Approvals : approval[b] # None => approval'[b] = approval[b]
  BY <1>2 DEF LedgerInv, TypeOK
<1>5. \A c \in Calls : HandInv(c)'
  BY <1>2, <1>4, HandsStay DEF LedgerInv
<1>6. \A o \in Ops : receipt[o] # None =>
        /\ receipt[o] \in Approvals /\ approval'[receipt[o]] = approval[receipt[o]]
        /\ status'[PlanOf(receipt[o])] = "committed"
  <2> SUFFICES ASSUME NEW o \in Ops, receipt[o] # None
               PROVE  /\ receipt[o] \in Approvals /\ approval'[receipt[o]] = approval[receipt[o]]
                      /\ status'[PlanOf(receipt[o])] = "committed"
    OBVIOUS
  <2>1. receipt[o] \in Approvals /\ approval[receipt[o]] # None
        /\ status[PlanOf(receipt[o])] = "committed"
    BY DEF LedgerInv, TypeOK, ReceiptInv
  <2>2. PlanOf(receipt[o]) \in Plans
    BY <2>1, PlanOfType DEF LedgerInv
  <2> QED
    BY <1>2, <1>4, <2>1, <2>2 DEF LedgerInv, TypeOK, Open
<1>7. ASSUME NEW o \in Ops PROVE ReceiptInv(o)' /\ DecisionInv(o)'
  <2>1. ReceiptInv(o) /\ DecisionInv(o)
    BY DEF LedgerInv
  <2>2. receipt'[o] = receipt[o] /\ (Made(o)' <=> Made(o)) /\ (DecidedDirectly(o)' <=> DecidedDirectly(o))
    BY <1>2 DEF Made, DecidedDirectly
  <2>3. receipt[o] # None =>
          /\ approval'[receipt[o]] = approval[receipt[o]] /\ PlanOf(receipt[o])' = PlanOf(receipt[o])
          /\ status'[PlanOf(receipt[o])] = "committed"
    BY <1>2, <1>6 DEF PlanOf
  <2>4. ReceiptInv(o)'
    BY <1>2, <2>1, <2>2, <2>3 DEF ReceiptInv
  <2> QED
    BY <2>1, <2>2, <2>4 DEF DecisionInv
<1>8. \A f \in facts' : FactInv(f)'
  BY <1>2 DEF LedgerInv, FactInv, Made
<1>9. \A b \in Approvals : approval'[b] # None => approval'[b].uses =< Uses[b]
  BY <1>1, <1>2, <1>4 DEF LedgerInv, TypeOK
<1>10. OnePerPlan'
  BY <1>2, <1>6 DEF LedgerInv, OnePerPlan, Receipts, PlanOf
<1> QED
  BY <1>3, <1>5, <1>7, <1>8, <1>9, <1>10 DEF LedgerInv

LEMMA PolicyStep ==
  ASSUME LedgerInv, NEW s \in Mappings, PolicyMaps(s)
  PROVE  LedgerInv'
<1> DEFINE row == [subject |-> s, rev |-> Rev(s) + 1, by |-> "rule"]
<1>1. Rev(s) \in Nat /\ Rev(s) < MaxRev
  BY MappingRev DEF LedgerInv, TypeOK, PolicyMaps
<1>2. row \in Facts /\ row.subject \notin Relations /\ row.by \notin Ops
  BY <1>1, Universe DEF Facts, Subjects
<1>3. facts' = facts \cup {row} /\ UNCHANGED <<decision, superseded, status, approval, receipt, queued, call>>
  BY DEF PolicyMaps, records
<1> HIDE DEF row
<1>4. TypeOK'
  BY <1>2, <1>3 DEF LedgerInv, TypeOK
<1>5. \A c \in Calls : HandInv(c)'
  BY <1>3, HandsStay DEF LedgerInv
<1>6. \A f \in facts' : FactInv(f)'
  BY <1>2, <1>3 DEF LedgerInv, FactInv, Made
<1>7. \A o \in Ops : ReceiptInv(o)' /\ DecisionInv(o)'
  BY <1>3 DEF LedgerInv, ReceiptInv, DecisionInv, DecidedDirectly, PlanOf, Made
<1>8. OnePerPlan'
  BY <1>3 DEF LedgerInv, OnePerPlan, Receipts, PlanOf
<1> QED
  BY <1>3, <1>4, <1>5, <1>6, <1>7, <1>8 DEF LedgerInv

\* The direct route writes a judgement of its own, and no relation.
LEMMA DirectWrites ==
  ASSUME LedgerInv, NEW o \in Ops, NEW change \in Changes, Direct(o, change)
  PROVE  /\ change.subject \in Mappings /\ change.act # "relate"
         /\ Rev(change.subject) \in 0..MaxRev
         /\ Judge(o, change, Rev(change.subject), TRUE)
         /\ <<o, change>> \in DirectKeys
<1>1. <<o, change>> \in DirectKeys /\ change.act # "relate"
  BY Universe DEF Direct
<1>2. change.subject \in Mappings
  BY <1>1, Universe
<1>3. Rev(change.subject) \in Nat /\ Rev(change.subject) < MaxRev
  BY <1>2, MappingRev DEF LedgerInv, TypeOK, Direct
<1>4. Rev(change.subject) \in 0..MaxRev
  BY <1>3, Universe
<1> QED
  BY <1>1, <1>2, <1>4 DEF Direct

LEMMA DirectStep ==
  ASSUME LedgerInv, NEW o \in Ops, NEW change \in Changes, Direct(o, change)
  PROVE  LedgerInv'
<1>1. /\ change.subject \in Mappings /\ change.act # "relate"
      /\ Rev(change.subject) \in 0..MaxRev
      /\ Judge(o, change, Rev(change.subject), TRUE)
      /\ <<o, change>> \in DirectKeys
  BY DirectWrites
<1>2. UNCHANGED <<status, approval, receipt, queued, call>>
  BY DEF Direct, records
<1>3. /\ facts' \subseteq Facts /\ facts \subseteq facts'
      /\ decision' \in [Ops -> Decisions \cup {None}] /\ superseded' \subseteq Ops
      /\ \A q \in Ops : decision[q] # None \/ q # o => decision'[q] = decision[q]
      /\ decision'[o] # decision[o] =>
           decision'[o].subject = change.subject /\ decision'[o].act = change.act
      /\ \A f \in facts' \ facts :
           f = [subject |-> change.subject, rev |-> Rev(change.subject) + 1, by |-> o]
           /\ decision'[o] # None
  BY <1>1, JudgeWrites DEF LedgerInv
<1>4. TypeOK'
  BY <1>2, <1>3 DEF LedgerInv, TypeOK
<1>5. \A c \in Calls : HandInv(c)'
  BY <1>2, HandsStay DEF LedgerInv
<1>6. \A f \in facts' : FactInv(f)'
  <2>1. \A f \in facts : FactInv(f)'
    BY <1>2, <1>3 DEF LedgerInv, FactInv, Made
  <2>2. \A f \in facts' \ facts : f.by = o /\ f.subject \notin Relations /\ decision'[o] # None
    BY <1>1, <1>3, Universe
  <2>3. \A f \in facts' \ facts : FactInv(f)'
    BY <2>2 DEF FactInv, Made
  <2> QED  BY <2>1, <2>3
<1>7. ASSUME NEW q \in Ops PROVE ReceiptInv(q)' /\ DecisionInv(q)'
  <2>1. ReceiptInv(q)'
    BY <1>2, <1>3 DEF LedgerInv, ReceiptInv, PlanOf, Made
  <2>2. CASE decision'[q] = decision[q]
    <3>1. (Made(q)' <=> Made(q)) /\ (DecidedDirectly(q)' <=> DecidedDirectly(q))
      BY <2>2 DEF Made, DecidedDirectly
    <3>2. DecisionInv(q)
      BY DEF LedgerInv
    <3> QED  BY <1>2, <2>1, <3>1, <3>2 DEF DecisionInv
  <2>3. CASE decision'[q] # decision[q]
    <3>1. q = o /\ <<o, change>>[1] = o /\ <<o, change>>[2] = change
      BY <1>3, <2>3
    <3>2. decision'[o].subject = change.subject /\ decision'[o].act = change.act
      BY <1>3, <2>3, <3>1
    <3>3. Made(q)' => DecidedDirectly(q)'
      BY <1>1, <3>1, <3>2 DEF DecidedDirectly
    <3> QED  BY <2>1, <3>3 DEF DecisionInv
  <2> QED  BY <2>1, <2>2, <2>3
<1>8. OnePerPlan'
  BY <1>2 DEF LedgerInv, OnePerPlan, Receipts, PlanOf
<1> QED
  BY <1>2, <1>4, <1>5, <1>6, <1>7, <1>8 DEF LedgerInv

\* What a batch that is not aborted does around the judgement.
LEMMA BatchWrites ==
  ASSUME LedgerInv, NEW c \in Calls, RunsBatch(c),
         NEW a \in Approvals, a = Hand(c), NEW o \in Ops, o = Op(c), NEW p \in Plans, p = PlanOf(a),
         ~Aborts(o, p.change, Guarded(c))
  PROVE  /\ Reserves(c) => /\ receipt[o] = None /\ receipt' = [receipt EXCEPT ![o] = a]
                           /\ status[p] \in Open /\ status'[p] = "committed"
                           /\ Rev(p.change.subject) = p.base
                           /\ approval'[a].uses < approval[a].uses
                           /\ decision'[o] # None => {o} \X Targets[p.change] \subseteq queued'
         /\ ~Reserves(c) => receipt' = receipt
         /\ Guarded(c) /\ ~Reserves(c) => receipt[o] # None
         /\ \E guard \in BOOLEAN : (guard <=> Guarded(c)) /\ Judge(o, p.change, p.base, guard)
         /\ approval' \in [Approvals -> Grants \cup {None}]
         /\ \A b \in Approvals : approval[b] # None =>
              approval'[b] # None /\ approval'[b].plan = approval[b].plan
              /\ approval'[b].uses =< approval[b].uses
         /\ \A b \in Approvals : approval[b] = None => approval'[b] = None
         /\ status' \in [Plans -> Statuses]
         /\ \A q \in Plans : status[q] = "committed" => status'[q] = "committed"
         /\ queued \subseteq queued'
         /\ queued' \subseteq Ops \X {"identity-projection", "balance-projection"}
         /\ \E at \in {"explains"} : Step(c, at) \/ \E as \in Answers : Answer(c, as)
<1> DEFINE spent == [approval EXCEPT ![a].uses = @ - 1]
<1>1. /\ receipt' = IF Reserves(c) THEN [receipt EXCEPT ![o] = a] ELSE receipt
      /\ Judge(o, p.change, p.base, Guarded(c))
      /\ approval' = IF Spends(c) THEN spent ELSE approval
      /\ status' = IF Guarded(c) /\ status[p] \in Open
                   THEN [status EXCEPT ![p] = "committed"] ELSE status
      /\ queued' = IF Guarded(c) /\ decision'[o] # None
                   THEN queued \cup ({o} \X Targets[p.change]) ELSE queued
      /\ IF Reserves(c) THEN Answer(c, "accepted") ELSE Step(c, "explains")
  BY DEF RunsBatch
<1>2. call[c].at \notin Answers /\ approval[a] \in Grants /\ p.change \in Changes
  BY PlanOfType DEF LedgerInv, HandInv, RunsBatch, Answers
<1>3. Reserves(c) => /\ receipt[o] = None /\ status[p] \in Open /\ approval[a].uses > 0
                     /\ Rev(p.change.subject) = p.base /\ Guarded(c) /\ Spends(c)
  BY DEF Reserves, Guarded, Spends, Subject
<1>4. /\ approval' \in [Approvals -> Grants \cup {None}]
      /\ \A b \in Approvals : approval[b] # None =>
           approval'[b] # None /\ approval'[b].plan = approval[b].plan
           /\ approval'[b].uses =< approval[b].uses
      /\ \A b \in Approvals : approval[b] = None => approval'[b] = None
      /\ Spends(c) => approval'[a].uses < approval[a].uses
  <2>1. CASE ~Spends(c)
    <3>1. approval' = approval /\ approval \in [Approvals -> Grants \cup {None}]
      BY <1>1, <2>1 DEF LedgerInv, TypeOK
    <3>2. \A b \in Approvals : approval[b] # None => approval[b].uses \in Nat
      BY <3>1 DEF Grants
    <3> QED  BY <2>1, <3>1, <3>2
  <2>2. CASE Spends(c)
    <3> DEFINE g == [approval[a] EXCEPT !.uses = @ - 1]
    <3>1. approval[a].uses > 0
      BY <2>2 DEF Spends
    <3>2. g \in Grants /\ g.plan = approval[a].plan /\ g.uses < approval[a].uses /\ g.uses \in Nat
      BY <1>2, <3>1 DEF Grants
    <3>3. g # None
      BY <3>2, NoRow
    <3>4. approval' = [approval EXCEPT ![a] = g]
      BY <1>1, <2>2
    <3>5. approval \in [Approvals -> Grants \cup {None}]
      BY DEF LedgerInv, TypeOK
    <3>6. \A b \in Approvals : approval[b] # None => approval[b].uses \in Nat
      BY <3>5 DEF Grants
    <3>7. approval[a] # None
      BY <1>2, NoRow
    <3> HIDE DEF g
    <3> QED  BY <3>2, <3>3, <3>4, <3>5, <3>6, <3>7
  <2> QED  BY <2>1, <2>2
<1> HIDE DEF spent
<1>5. /\ status' \in [Plans -> Statuses]
      /\ \A q \in Plans : status[q] = "committed" => status'[q] = "committed"
      /\ Guarded(c) /\ status[p] \in Open => status'[p] = "committed"
  BY <1>1 DEF LedgerInv, TypeOK, Statuses, Open
<1>6. /\ queued \subseteq queued'
      /\ queued' \subseteq Ops \X {"identity-projection", "balance-projection"}
      /\ Guarded(c) /\ decision'[o] # None => {o} \X Targets[p.change] \subseteq queued'
  <2>1. Targets[p.change] \subseteq {"identity-projection", "balance-projection"}
    BY <1>2, Universe
  <2> QED  BY <1>1, <2>1 DEF LedgerInv, TypeOK
<1>7. \E guard \in BOOLEAN : (guard <=> Guarded(c)) /\ Judge(o, p.change, p.base, guard)
  <2>1. CASE Guarded(c)
    <3>1. Judge(o, p.change, p.base, TRUE)
      BY <1>1, <2>1 DEF Judge, Judges, Maps
    <3> QED  BY <2>1, <3>1
  <2>2. CASE ~Guarded(c)
    <3>1. Judge(o, p.change, p.base, FALSE)
      BY <1>1, <2>2 DEF Judge, Judges, Maps
    <3> QED  BY <2>2, <3>1
  <2> QED  BY <2>1, <2>2
<1>8. Guarded(c) /\ ~Reserves(c) => receipt[o] # None
  BY DEF Guarded, Mine
<1>9. \E at \in {"explains"} : Step(c, at) \/ \E as \in Answers : Answer(c, as)
  BY <1>1 DEF Answers
<1> QED
  BY <1>1, <1>3, <1>4, <1>5, <1>6, <1>7, <1>8, <1>9

\* A batch a trigger aborts writes nothing.
LEMMA AbortedBatch ==
  ASSUME LedgerInv, NEW c \in Calls, RunsBatch(c),
         Aborts(Op(c), PlanOf(Hand(c)).change, Guarded(c))
  PROVE  Bookkeeping
<1>1. call[c].at \notin Answers /\ Answer(c, "refused") /\ UNCHANGED Store
  BY DEF RunsBatch, Answers
<1>2. /\ call' \in [Calls -> Waiting \cup Answered]
      /\ \A d \in Calls \ {c} : call'[d] = call[d]
      /\ call'[c].at \notin Answers => Hand(c)' = Hand(c) /\ Op(c)' = Op(c)
  BY <1>1, GoesOn DEF Answers
<1>3. HandInv(c)'
  BY <1>1, <1>2 DEF LedgerInv, HandInv, PlanOf, Store
<1>4. \A d \in Calls \ {c} : HandInv(d)'
  BY <1>1, <1>2, HandsStay DEF LedgerInv, Store
<1> QED
  BY <1>1, <1>2, <1>3, <1>4 DEF Bookkeeping, Store, LedgerInv, TypeOK, Statuses

LEMMA BatchStep ==
  ASSUME LedgerInv, NEW c \in Calls, RunsBatch(c),
         ~Aborts(Op(c), PlanOf(Hand(c)).change, Guarded(c))
  PROVE  LedgerInv'
<1>1. call[c].at \notin Answers /\ call[c] \in Waiting
  BY DEF RunsBatch, Answers, LedgerInv, TypeOK, Answered
<1>2. PICK a \in Approvals, o \in Ops : a = Hand(c) /\ o = Op(c)
  BY <1>1 DEF Waiting, Hand, Op
<1>3. approval[a] # None /\ <<o, PlanOf(a).change>> \in Keys
  BY <1>1, <1>2 DEF LedgerInv, HandInv
<1>4. PICK p \in Plans : p = PlanOf(a)
  BY <1>3, PlanOfType DEF LedgerInv
<1>5. p.change \in Changes /\ p.base \in 0..MaxRev
  BY DEF Plans
<1>6. /\ Reserves(c) => /\ receipt[o] = None /\ receipt' = [receipt EXCEPT ![o] = a]
                        /\ status[p] \in Open /\ status'[p] = "committed"
                        /\ Rev(p.change.subject) = p.base
                        /\ approval'[a].uses < approval[a].uses
      /\ ~Reserves(c) => receipt' = receipt
      /\ Guarded(c) /\ ~Reserves(c) => receipt[o] # None
      /\ Reserves(c) => Guarded(c)
  BY <1>2, <1>4, BatchWrites DEF Guarded
<1>7. /\ approval' \in [Approvals -> Grants \cup {None}]
      /\ \A b \in Approvals : approval[b] # None =>
           approval'[b] # None /\ approval'[b].plan = approval[b].plan
           /\ approval'[b].uses =< approval[b].uses
      /\ \A b \in Approvals : approval[b] = None => approval'[b] = None
      /\ status' \in [Plans -> Statuses]
      /\ \A q \in Plans : status[q] = "committed" => status'[q] = "committed"
      /\ queued' \subseteq Ops \X {"identity-projection", "balance-projection"}
      /\ \E at \in {"explains"} : Step(c, at) \/ \E as \in Answers : Answer(c, as)
  BY <1>2, <1>4, BatchWrites
<1>8. PICK guard \in BOOLEAN : (guard <=> Guarded(c)) /\ Judge(o, p.change, p.base, guard)
  BY <1>2, <1>4, BatchWrites
<1>9. /\ facts' \subseteq Facts /\ facts \subseteq facts'
      /\ decision' \in [Ops -> Decisions \cup {None}] /\ superseded' \subseteq Ops
      /\ \A q \in Ops : decision[q] # None \/ q # o => decision'[q] = decision[q]
      /\ decision'[o] # decision[o] => guard
      /\ \A f \in facts' \ facts :
           /\ f = [subject |-> p.change.subject, rev |-> p.base + 1, by |-> o]
           /\ decision'[o] # None
           /\ \/ p.change.act = "relate" /\ guard /\ ~Made(o)
              \/ p.change.act = "assign" /\ Rev(p.change.subject) = p.base
  BY <1>5, <1>8, JudgeWrites DEF LedgerInv
<1>10. receipt' \in [Ops -> Approvals \cup {None}]
       /\ \A q \in Ops : /\ receipt[q] # None => receipt'[q] = receipt[q]
                         /\ q # o => receipt'[q] = receipt[q]
                         /\ receipt'[q] # receipt[q] => Reserves(c) /\ q = o /\ receipt'[q] = a
  BY <1>6 DEF LedgerInv, TypeOK
<1>11. guard => receipt'[o] # None
  BY <1>6, <1>8, <1>10, Universe DEF LedgerInv, TypeOK
<1>12. call' \in [Calls -> Waiting \cup Answered] /\ \A d \in Calls : HandInv(d)'
  <2>1. /\ call' \in [Calls -> Waiting \cup Answered]
        /\ \A d \in Calls \ {c} : call'[d] = call[d]
        /\ call'[c].at \notin Answers => Hand(c)' = Hand(c) /\ Op(c)' = Op(c)
    BY <1>1, <1>7, GoesOn
  <2>2. HandInv(c)'
    BY <1>2, <1>3, <1>7, <2>1 DEF HandInv, PlanOf
  <2>3. \A d \in Calls \ {c} : HandInv(d)'
    BY <1>7, <2>1, HandsStay DEF LedgerInv
  <2> QED  BY <2>1, <2>2, <2>3
<1>13. TypeOK'
  BY <1>7, <1>9, <1>10, <1>12 DEF TypeOK, Statuses
<1>14. ASSUME NEW f \in facts' PROVE FactInv(f)'
  <2>1. CASE f \in facts
    BY <1>9, <1>10, <2>1 DEF LedgerInv, FactInv, Made
  <2>2. CASE f \notin facts
    <3>1. f.by = o /\ f.subject = p.change.subject /\ decision'[o] # None
      BY <1>9, <2>2
    <3>2. f.subject \in Relations => guard
      BY <1>5, <1>9, <2>2, Universe
    <3> QED  BY <1>11, <3>1, <3>2 DEF FactInv, Made
  <2> QED  BY <2>1, <2>2
<1>15. ASSUME NEW q \in Ops PROVE ReceiptInv(q)' /\ DecisionInv(q)'
  <2>1. DecisionInv(q)'
    <3>1. CASE decision'[q] = decision[q]
      BY <1>10, <3>1 DEF LedgerInv, DecisionInv, DecidedDirectly, Made
    <3>2. CASE decision'[q] # decision[q]
      BY <1>9, <1>11, <3>2 DEF DecisionInv
    <3> QED  BY <3>1, <3>2
  <2>2. CASE receipt'[q] = receipt[q]
    <3>1. ReceiptInv(q) /\ (receipt[q] # None => receipt[q] \in Approvals)
      BY DEF LedgerInv, TypeOK
    <3>2. receipt[q] # None => PlanOf(receipt[q]) \in Plans
      BY <3>1, PlanOfType DEF LedgerInv, ReceiptInv
    <3>3. receipt[q] # None => PlanOf(receipt[q])' = PlanOf(receipt[q])
      BY <1>7, <2>2, <3>1 DEF ReceiptInv, PlanOf
    <3>4. receipt[q] # None => /\ approval[receipt[q]].uses \in Nat /\ approval'[receipt[q]].uses \in Nat
                               /\ Uses[receipt[q]] \in Nat
      BY <1>7, <3>1, Universe DEF LedgerInv, TypeOK, ReceiptInv, Grants
    <3>5. receipt[q] # None => approval'[receipt[q]].uses < Uses[receipt[q]]
      BY <1>7, <3>1, <3>4 DEF ReceiptInv
    <3> QED
      BY <1>7, <1>9, <2>1, <2>2, <3>1, <3>2, <3>3, <3>5 DEF ReceiptInv, Made
  <2>3. CASE receipt'[q] # receipt[q]
    <3>1. Reserves(c) /\ q = o /\ receipt'[q] = a /\ guard
      BY <1>6, <1>8, <1>10, <2>3
    <3>2. PlanOf(a)' = p
      BY <1>3, <1>4, <1>7 DEF PlanOf
    <3>3. approval'[a].uses < Uses[a]
      <4>1. approval[a].uses =< Uses[a] /\ approval'[a].uses < approval[a].uses
        BY <1>3, <1>6, <3>1 DEF LedgerInv
      <4>2. approval[a].uses \in Nat /\ approval'[a].uses \in Nat /\ Uses[a] \in Nat
        BY <1>3, <1>7, Universe DEF LedgerInv, TypeOK, Grants
      <4> QED  BY <4>1, <4>2
    <3>4. p.change.act # "release" => decision'[o] # None
      BY <1>5, <1>6, <1>8, <3>1, JudgeDecides DEF LedgerInv
    <3>5. approval'[a] # None /\ <<o, p.change>> \in Keys /\ status'[p] = "committed"
      BY <1>3, <1>4, <1>6, <1>7, <3>1
    <3>6. ReceiptInv(q)'
      BY <3>1, <3>2, <3>3, <3>4, <3>5 DEF ReceiptInv, Made
    <3> QED  BY <2>1, <3>6
  <2> QED  BY <2>2, <2>3
<1>16. ASSUME NEW b \in Approvals, approval'[b] # None PROVE approval'[b].uses =< Uses[b]
  <2>1. approval[b] # None
    BY <1>7, <1>16
  <2>2. approval[b].uses =< Uses[b] /\ approval'[b].uses =< approval[b].uses
    BY <1>7, <2>1 DEF LedgerInv
  <2>3. approval[b].uses \in Nat /\ approval'[b].uses \in Nat /\ Uses[b] \in Nat
    BY <1>7, <1>16, <2>1, Universe DEF LedgerInv, TypeOK, Grants
  <2> QED  BY <2>2, <2>3
<1>17. OnePerPlan'
  <2>1. ASSUME NEW q \in Ops, receipt[q] # None
        PROVE  /\ PlanOf(receipt[q])' = PlanOf(receipt[q]) /\ receipt'[q] = receipt[q]
               /\ status[PlanOf(receipt[q])] = "committed"
    <3>1. receipt[q] \in Approvals /\ approval[receipt[q]] # None
          /\ status[PlanOf(receipt[q])] = "committed"
      BY <2>1 DEF LedgerInv, TypeOK, ReceiptInv
    <3> QED  BY <1>7, <1>10, <2>1, <3>1 DEF PlanOf
  <2>2. Reserves(c) => PlanOf(a)' = p /\ status[p] # "committed"
    BY <1>3, <1>4, <1>6, <1>7 DEF PlanOf, Open
  <2>3. \A q \in Ops : receipt'[q] # None =>
          \/ receipt[q] # None
          \/ Reserves(c) /\ q = o /\ receipt'[q] = a
    BY <1>10
  <2>4. ASSUME NEW q \in Ops, NEW r \in Ops, receipt'[q] # None, receipt'[r] # None,
               PlanOf(receipt[q])' = PlanOf(receipt[r])', q # r
        PROVE  FALSE
    <3>1. CASE receipt[q] # None /\ receipt[r] # None
      BY <2>1, <2>4, <3>1 DEF LedgerInv, OnePerPlan, Receipts
    <3>2. CASE receipt[q] # None /\ r = o /\ Reserves(c) /\ receipt'[r] = a
      BY <2>1, <2>2, <2>4, <3>2 DEF PlanOf
    <3>3. CASE receipt[r] # None /\ q = o /\ Reserves(c) /\ receipt'[q] = a
      BY <2>1, <2>2, <2>4, <3>3 DEF PlanOf
    <3> QED  BY <2>3, <2>4, <3>1, <3>2, <3>3
  <2> QED  BY <2>4 DEF OnePerPlan, Receipts
<1> QED
  BY <1>12, <1>13, <1>14, <1>15, <1>16, <1>17 DEF LedgerInv

-----------------------------------------------------------------------------
(* The ledger. *)

LEMMA LedgerInit == Init => LedgerInv
<1> SUFFICES ASSUME Init PROVE LedgerInv
  OBVIOUS
<1>1. facts \subseteq Facts /\ \A f \in facts : f.subject \in Mappings /\ f.by \in {"rule", "legacy"}
  <2>1. 1 \in 1..(MaxRev + 1)
    BY Universe
  <2> QED  BY <2>1 DEF Init, Facts, Subjects
<1>2. TypeOK
  BY <1>1 DEF Init, TypeOK, Answered, Answers
<1>3. \A c \in Calls : HandInv(c)
  BY DEF Init, HandInv, Answers
<1>4. \A o \in Ops : ReceiptInv(o) /\ DecisionInv(o)
  BY DEF Init, ReceiptInv, DecisionInv, Made
<1>5. \A f \in facts : FactInv(f)
  BY <1>1, Universe DEF FactInv
<1>6. OnePerPlan /\ \A a \in Approvals : approval[a] # None => approval[a].uses =< Uses[a]
  BY DEF Init, OnePerPlan, Receipts
<1> QED
  BY <1>2, <1>3, <1>4, <1>5, <1>6 DEF LedgerInv

\* The ways a step may go, with what each of them leaves to show.
LEMMA StepKinds ==
  ASSUME LedgerInv, [Next]_vars
  PROVE  \/ Bookkeeping
         \/ \E a \in Approvals, p \in Plans, who \in Principals : Approve(a, p, who)
         \/ \E c \in Calls : RunsBatch(c) /\ ~Aborts(Op(c), PlanOf(Hand(c)).change, Guarded(c))
         \/ \E o \in Ops, change \in Changes : Direct(o, change)
         \/ \E s \in Mappings : PolicyMaps(s)
<1>1. CASE UNCHANGED vars
  <2>1. UNCHANGED <<facts, decision, superseded, status, approval, receipt, queued, call>>
    BY <1>1 DEF vars, judged, records
  <2>2. \A c \in Calls : HandInv(c)'
    BY <2>1, HandsStay DEF LedgerInv
  <2> QED  BY <2>1, <2>2 DEF Bookkeeping, LedgerInv, TypeOK, Statuses, judged, records
<1>2. CASE \E change \in Changes : CreatePlan(change)
  BY <1>2, PlanStep
<1>3. CASE \E p \in Plans : ApproveTooLate(p)
  BY <1>3, PlanStep
<1>4. ASSUME NEW c \in Calls, Begin(c) \/ Commit(c) \/ Lost(c)
      PROVE  Bookkeeping \/ (RunsBatch(c) /\ ~Aborts(Op(c), PlanOf(Hand(c)).change, Guarded(c)))
  BY <1>4, CallStep, AbortedBatch DEF Commit
<1> QED
  BY <1>1, <1>2, <1>3, <1>4 DEF Next

LEMMA LedgerStep == LedgerInv /\ [Next]_vars => LedgerInv'
<1> SUFFICES ASSUME LedgerInv, [Next]_vars PROVE LedgerInv'
  OBVIOUS
<1>1. CASE Bookkeeping
  BY <1>1, BooksKept
<1>2. CASE \E a \in Approvals, p \in Plans, who \in Principals : Approve(a, p, who)
  BY <1>2, ApproveStep
<1>3. CASE \E c \in Calls : RunsBatch(c) /\ ~Aborts(Op(c), PlanOf(Hand(c)).change, Guarded(c))
  BY <1>3, BatchStep
<1>4. CASE \E o \in Ops, change \in Changes : Direct(o, change)
  BY <1>4, DirectStep
<1>5. CASE \E s \in Mappings : PolicyMaps(s)
  BY <1>5, PolicyStep
<1> QED
  BY <1>1, <1>2, <1>3, <1>4, <1>5, StepKinds

\* The inductive invariant of plans, approvals, receipts and the rows they
\* leave, for every use of operation ids.
THEOREM LedgerInvariant == Spec => []LedgerInv
BY LedgerInit, LedgerStep, PTL DEF Spec

\* The types of the tables and of the commit calls.
THEOREM CommitTyping == Spec => []TypeOK
<1>1. LedgerInv => TypeOK
  BY DEF LedgerInv
<1> QED
  BY <1>1, LedgerInvariant, PTL

\* An approval's receipts are at most one, for it has one plan, and that one
\* has used up one of its uses.
LEMMA SpentFollows == LedgerInv => SpentOnce
<1> SUFFICES ASSUME LedgerInv PROVE SpentOnce
  OBVIOUS
<1>1. OnePerPlan
  BY DEF LedgerInv
<1>2. ASSUME NEW a \in Approvals, approval[a] # None
      PROVE  Cardinality({o \in Receipts : receipt[o] = a}) =< Uses[a] - approval[a].uses
  <2>1. approval[a].uses \in Nat /\ Uses[a] \in Nat /\ approval[a].uses =< Uses[a]
    BY <1>2, PlanOfType, Universe DEF LedgerInv, Grants
  <2>2. CASE {o \in Receipts : receipt[o] = a} = {}
    <3>1. Cardinality({o \in Receipts : receipt[o] = a}) = 0
      BY <2>2, FS_EmptySet
    <3> QED  BY <2>1, <3>1
  <2>3. CASE {o \in Receipts : receipt[o] = a} # {}
    <3>1. PICK o \in Receipts : receipt[o] = a
      BY <2>3
    <3>2. \A q \in Receipts : receipt[q] = a => q = o
      BY <1>1, <3>1 DEF OnePerPlan
    <3>3. {q \in Receipts : receipt[q] = a} = {o}
      BY <3>1, <3>2
    <3>4. Cardinality({q \in Receipts : receipt[q] = a}) = 1
      BY <3>3, FS_Singleton
    <3>5. approval[a].uses < Uses[a]
      BY <3>1 DEF LedgerInv, ReceiptInv, Receipts
    <3> QED  BY <2>1, <3>4, <3>5
  <2> QED  BY <2>2, <2>3
<1> QED
  BY <1>1, <1>2 DEF SpentOnce, OnePerPlan

\* A plan is accepted at most once, and each receipt has spent a use of its
\* approval, whatever calls, retries and operation ids meet.
THEOREM AcceptedOnce == Spec => []SpentOnce
BY SpentFollows, LedgerInvariant, PTL

\* A receipt stays, and success is only answered to the call whose receipt it is.
LEMMA AnswerStep ==
  ASSUME TypeOK, [Next]_vars
  PROVE  /\ \A c \in Calls : /\ call[c].at \in {"loaded", "checked", "explains"}
                             /\ call'[c].at = "accepted"
                             => receipt'[Op(c)] = Hand(c)
         /\ \A o \in Receipts : receipt'[o] = receipt[o]
<1>1. \A o \in Receipts : receipt'[o] = receipt[o]
  <2>1. receipt' = receipt \/ \E c \in Calls : RunsBatch(c)
    BY DEF Next, vars, CreatePlan, Approve, ApproveTooLate, Begin, Commit, LooksUp, ReadsApproval,
       FindsReceipt, ComparesRevisions, MarksStale, Lost, Direct, PolicyMaps, Store, records
  <2>2. ASSUME NEW c \in Calls, RunsBatch(c)
        PROVE  receipt' = receipt
               \/ (receipt[Op(c)] = None /\ receipt' = [receipt EXCEPT ![Op(c)] = Hand(c)])
    BY <2>2 DEF RunsBatch, Store, records, Reserves
  <2> QED  BY <2>1, <2>2 DEF Receipts, TypeOK
<1>2. ASSUME NEW c \in Calls, call[c].at \in {"loaded", "checked", "explains"},
             call'[c].at = "accepted"
      PROVE  receipt'[Op(c)] = Hand(c)
  <2>1. call'[c] # call[c]
    BY <1>2
  <2>2. \E d \in Calls : Begin(d) \/ Commit(d) \/ Lost(d)
    BY <2>1 DEF Next, vars, CreatePlan, Approve, ApproveTooLate, Direct, PolicyMaps
  <2>3. PICK d \in Calls : Begin(d) \/ Commit(d) \/ Lost(d)
    BY <2>2
  <2>4. d = c
    BY <2>1, <2>3 DEF Begin, Commit, LooksUp, ReadsApproval, RunsBatch, FindsReceipt,
         ComparesRevisions, MarksStale, Lost, Step, Answer, TypeOK
  <2>5. ~Begin(c)
    BY <1>2 DEF Begin, Answers
  <2>6. \A as : Answer(c, as) => call'[c].at = as
    BY DEF Answer, TypeOK
  <2>7. ~Lost(c)
    BY <1>2, <2>6 DEF Lost
  <2>8. \A at : Step(c, at) => call'[c].at = at
    <3>1. call[c] \in Waiting
      BY <1>2 DEF TypeOK, Answered, Answers
    <3> QED  BY <3>1 DEF Step, TypeOK, Waiting
  <2>9. CASE LooksUp(c) \/ FindsReceipt(c)
    <3>1. AnswerOf(c) = "accepted" /\ receipt' = receipt
      BY <1>2, <2>6, <2>8, <2>9 DEF LooksUp, FindsReceipt, Store, records
    <3> QED  BY <3>1 DEF AnswerOf
  <2>10. CASE ReadsApproval(c) \/ ComparesRevisions(c) \/ MarksStale(c)
    BY <1>2, <2>6, <2>8, <2>10 DEF ReadsApproval, ComparesRevisions, MarksStale
  <2>11. CASE RunsBatch(c)
    <3>1. Reserves(c) /\ receipt' = [receipt EXCEPT ![Op(c)] = Hand(c)]
      BY <1>2, <2>6, <2>8, <2>11 DEF RunsBatch
    <3>2. Op(c) \in Ops
      BY <1>2 DEF TypeOK, Waiting, Answered, Answers, Op
    <3> QED  BY <3>1, <3>2 DEF TypeOK
  <2> QED  BY <2>3, <2>4, <2>5, <2>7, <2>9, <2>10, <2>11 DEF Commit
<1> QED
  BY <1>1, <1>2

\* Lost answers and retries of any number of callers end with the same receipt.
THEOREM AnswersAgree == Spec => AnswersAreReceipts
<1>1. TypeOK /\ [Next]_vars =>
        [/\ \A c \in Calls : call[c].at \in {"loaded", "checked", "explains"} /\ call'[c].at = "accepted" =>
              receipt'[Op(c)] = Hand(c)
         /\ \A o \in Receipts : receipt'[o] = receipt[o]]_vars
  BY AnswerStep
<1> QED
  BY <1>1, CommitTyping, PTL DEF Spec, AnswersAreReceipts

-----------------------------------------------------------------------------
(* No judgement is lost, and what is accepted is in effect. *)

Accepted(o) ==
  receipt[o] # None /\ PlanOf(receipt[o]).change.act # "release" =>
    \/ /\ InEffect(o)
       /\ \E f \in facts : f.by = o /\ f.rev = PlanOf(receipt[o]).base + 1
                           /\ f.subject = Subject(receipt[o])
    \/ PlanOf(receipt[o]).change.act = "assign" /\ DecidedDirectly(o)

LEMMA AcceptedPerOperation ==
  /\ AcceptedIsInEffect <=> \A o \in Ops : Accepted(o)
  /\ AcceptedIsInEffect' <=> \A o \in Ops : Accepted(o)'
<1>1. AcceptedIsInEffect <=> \A o \in Ops : Accepted(o)
  BY DEF AcceptedIsInEffect, Accepted, Receipts
<1>2. AcceptedIsInEffect' <=> \A o \in Ops : Accepted(o)'
  BY DEF AcceptedIsInEffect, Accepted, Receipts
<1> QED  BY <1>1, <1>2

\* A step adds at most one row, and that at the revision after the last, unless
\* a release's receipt lets a relation in, which never claims a later one.
Appends ==
  /\ facts \subseteq facts'
  /\ \A f, g \in facts' \ facts : f = g
  /\ \A f \in facts' \ facts :
       /\ f \in Facts
       /\ \/ f.rev = Rev(f.subject) + 1
          \/ Unreserved(f)' /\ f.rev =< Rev(f.subject) + 1
  /\ \A f \in facts : Unreserved(f) => Unreserved(f)'

LEMMA AppendedRows ==
  ASSUME facts \subseteq Facts, NoLostUpdate, \A s \in Relations : Counted(s), Appends
  PROVE  NoLostUpdate' /\ \A s \in Relations : Counted(s)'
<1>1. ASSUME NEW f \in facts' \ facts, NEW g \in facts, g.subject = f.subject, ~Unreserved(f)'
      PROVE  g.rev < f.rev
  <2>1. f.rev = Rev(f.subject) + 1 /\ f.subject \in Subjects /\ g.rev \in Nat /\ g \in Rows(f.subject)
    BY <1>1 DEF Appends, Facts, Rows
  <2>2. CASE f.subject \in Relations
    <3>1. Counted(f.subject) /\ Rev(f.subject) = Cardinality(Rows(f.subject))
      BY <2>2 DEF Rev
    <3>2. Cardinality(Rows(f.subject)) \in Nat
      BY <3>1, FS_CardinalityType DEF Counted
    <3> QED  BY <2>1, <3>1, <3>2 DEF Counted
  <2>3. CASE f.subject \notin Relations
    BY <2>1, <2>3, MappingRev DEF Subjects
  <2> QED  BY <2>2, <2>3
<1>2. NoLostUpdate'
  <2> SUFFICES ASSUME NEW f \in facts', NEW g \in facts', f.subject = g.subject, f.rev = g.rev,
                      ~Unreserved(f)', ~Unreserved(g)'
               PROVE  f = g
    BY DEF NoLostUpdate
  <2>1. \A h \in facts' : h.rev \in Nat
    BY DEF Appends, Facts
  <2>2. CASE f \in facts /\ g \in facts
    BY <2>2 DEF NoLostUpdate, Appends
  <2>3. CASE f \notin facts /\ g \in facts
    BY <1>1, <2>1, <2>3
  <2>4. CASE f \in facts /\ g \notin facts
    BY <1>1, <2>1, <2>4
  <2>5. CASE f \notin facts /\ g \notin facts
    BY <2>5 DEF Appends
  <2> QED  BY <2>2, <2>3, <2>4, <2>5
<1>3. ASSUME NEW s \in Relations PROVE Counted(s)'
  <2>1. Counted(s) /\ Rev(s) = Cardinality(Rows(s)) /\ Cardinality(Rows(s)) \in Nat
    BY FS_CardinalityType DEF Counted, Rev
  <2>2. CASE Rows(s)' = Rows(s)
    BY <2>1, <2>2 DEF Counted
  <2>3. CASE Rows(s)' # Rows(s)
    <3>1. PICK f \in facts' \ facts : f.subject = s
      BY <2>3 DEF Rows, Appends
    <3>2. Rows(s)' = Rows(s) \cup {f} /\ f \notin Rows(s)
      BY <3>1 DEF Rows, Appends
    <3>3. IsFiniteSet(Rows(s) \cup {f}) /\ Cardinality(Rows(s) \cup {f}) = Cardinality(Rows(s)) + 1
      BY <2>1, <3>2, FS_AddElement DEF Counted
    <3>4. f.rev =< Cardinality(Rows(s)) + 1
      BY <2>1, <3>1 DEF Appends
    <3>5. \A g \in Rows(s) : g.rev \in Nat
      BY DEF Rows, Facts
    <3>6. \A g \in Rows(s) \cup {f} : g.rev =< Cardinality(Rows(s) \cup {f})
      BY <2>1, <3>3, <3>4, <3>5 DEF Counted
    <3> QED  BY <3>2, <3>3, <3>6 DEF Counted
  <2> QED  BY <2>2, <2>3
<1> QED  BY <1>2, <1>3

\* Receipts and grants are never taken back, so what a row of a relation was
\* written under does not change.
LEMMA UnreservedStays ==
  ASSUME LedgerInv, NEW f \in facts, Unreserved(f),
         \A o \in Receipts : receipt'[o] = receipt[o],
         \A a \in Approvals : approval[a] # None => approval'[a].plan = approval[a].plan
  PROVE  Unreserved(f)'
<1>1. f.by \in Ops /\ receipt[f.by] # None
  BY DEF LedgerInv, FactInv, Unreserved
<1>2. receipt[f.by] \in Approvals /\ approval[receipt[f.by]] # None
  BY <1>1 DEF LedgerInv, TypeOK, ReceiptInv
<1>3. receipt'[f.by] = receipt[f.by]
  BY <1>1 DEF Receipts
<1> QED
  BY <1>2, <1>3 DEF Unreserved, PlanOf

\* Nor do the rows an approved plan was made for go away.
LEMMA ForeseenStays ==
  ASSUME LedgerInv, NEW a \in Approvals, Foreseen(a), approval[a] # None,
         approval'[a].plan = approval[a].plan, facts \subseteq facts',
         \A s \in Relations : Counted(s), \A s \in Relations : Counted(s)'
  PROVE  Foreseen(a)'
<1>1. PlanOf(a)' = PlanOf(a) /\ Subject(a)' = Subject(a)
  BY DEF PlanOf, Subject
<1>2. PlanOf(a).base \in Nat
  BY PlanOfType, Universe DEF LedgerInv
<1>3. ASSUME NEW s \in Relations, s = Subject(a)
      PROVE  PlanOf(a).base =< Cardinality(Rows(s)')
  <2>1. IsFiniteSet(Rows(s)) /\ IsFiniteSet(Rows(s)')
    BY DEF Counted
  <2>2. Rows(s) \subseteq Rows(s)'
    BY DEF Rows
  <2>3. /\ Cardinality(Rows(s)) \in Nat /\ Cardinality(Rows(s)') \in Nat
        /\ Cardinality(Rows(s)) =< Cardinality(Rows(s)')
    BY <2>1, <2>2, FS_CardinalityType, FS_Subset
  <2>4. PlanOf(a).base =< Cardinality(Rows(s))
    BY <1>3 DEF Foreseen
  <2> QED  BY <1>2, <2>3, <2>4
<1> QED
  BY <1>1, <1>3 DEF Foreseen, Rows

\* What was in effect stays so: rows, decisions, outbox rows, receipts and
\* grants are never taken back.
LEMMA AcceptedStays ==
  ASSUME LedgerInv, NEW o \in Ops, Accepted(o), receipt[o] # None, receipt'[o] = receipt[o],
         facts \subseteq facts', queued \subseteq queued',
         decision[o] # None => decision'[o] = decision[o],
         \A a \in Approvals : approval[a] # None => approval'[a].plan = approval[a].plan
  PROVE  Accepted(o)'
<1>1. receipt[o] \in Approvals /\ approval[receipt[o]] # None
  BY DEF LedgerInv, TypeOK, ReceiptInv
<1>2. PlanOf(receipt[o])' = PlanOf(receipt[o]) /\ Subject(receipt[o])' = Subject(receipt[o])
  BY <1>1 DEF PlanOf, Subject
<1>3. DecidedDirectly(o) => DecidedDirectly(o)'
  BY DEF DecidedDirectly, Made
<1>4. InEffect(o) => InEffect(o)'
  BY <1>2 DEF InEffect, Made
<1> QED
  BY <1>2, <1>3, <1>4 DEF Accepted

\* A batch that writes a relation reserved its receipt, or found the receipt of
\* a release: under any other there is a decision.
LEMMA RelatesUnder ==
  ASSUME LedgerInv, NEW c \in Calls, call[c].at \notin Answers, Guarded(c), ~Made(Op(c))
  PROVE  \/ Reserves(c)
         \/ receipt[Op(c)] # None /\ PlanOf(receipt[Op(c)]).change.act = "release"
<1> SUFFICES ASSUME Mine(c)
             PROVE  receipt[Op(c)] # None /\ PlanOf(receipt[Op(c)]).change.act = "release"
  BY DEF Guarded
<1>1. Op(c) \in Ops
  BY DEF LedgerInv, TypeOK, Waiting, Answered, Op
<1>2. receipt[Op(c)] # None
  BY DEF Mine
<1> QED
  BY <1>1, <1>2 DEF LedgerInv, ReceiptInv

\* What a receipt is reserved for is in effect at once: no row of its operation
\* stands in the way, and an assignment's decision is its own or was made on
\* the direct route.
LEMMA ReservedInEffect ==
  ASSUME LedgerInv, NEW o \in Ops, NEW p \in Plans,
         receipt[o] = None, p.change.act # "release", Rev(p.change.subject) = p.base,
         Judge(o, p.change, p.base, TRUE), ~Aborts(o, p.change, TRUE)
  PROVE  \/ /\ decision'[o] # None /\ decision'[o].subject = p.change.subject
            /\ [subject |-> p.change.subject, rev |-> p.base + 1, by |-> o] \in facts'
         \/ p.change.act = "assign" /\ Made(o) /\ DecidedDirectly(o)
<1>1. p.change \in Changes /\ p.base \in 0..MaxRev
  BY DEF Plans
<1>2. CASE Made(o)
  <2>1. DecidedDirectly(o)
    BY <1>2 DEF LedgerInv, DecisionInv
  <2> SUFFICES ASSUME p.change.act # "assign" PROVE FALSE
    BY <1>2, <2>1
  <2>3. p.change.act = "relate" /\ p.change.subject \in Relations
    BY <1>1, Universe
  <2>4. PICK f \in facts : f.by = o /\ Table(f.subject) = Table(p.change.subject)
    BY <1>2, <2>3 DEF Aborts, RowOf
  <2>5. f.subject \in Relations
    BY <2>3, <2>4, TableOf DEF LedgerInv, TypeOK, Facts, Subjects
  <2> QED  BY <2>4, <2>5 DEF LedgerInv, FactInv
<1>3. CASE ~Made(o)
  <2>1. RowOf(o, p.change.subject) = {}
    BY <1>3 DEF RowOf, LedgerInv, FactInv
  <2> QED  BY <1>1, <1>3, <2>1, JudgeDecides DEF LedgerInv
<1> QED  BY <1>2, <1>3

\* Outside the batches receipts, grants and outbox rows stay, and a row is only
\* appended.
LEMMA JudgedKept ==
  ASSUME JudgedInv, LedgerInv', Appends, queued' = queued, receipt' = receipt,
         \A o \in Ops : decision[o] # None => decision'[o] = decision[o],
         \A a \in Approvals : approval[a] # None => approval'[a].plan = approval[a].plan,
         \A a \in Approvals : approval[a] = None => Foreseen(a)'
  PROVE  JudgedInv'
<1>1. ASSUME NEW o \in Ops PROVE Accepted(o)'
  <2>1. CASE receipt[o] = None
    BY <2>1 DEF Accepted
  <2>2. CASE receipt[o] # None
    BY <2>2, AcceptedPerOperation, AcceptedStays DEF JudgedInv, Appends
  <2> QED  BY <2>1, <2>2
<1>2. NoLostUpdate' /\ \A s \in Relations : Counted(s)'
  BY AppendedRows DEF JudgedInv, LedgerInv, TypeOK
<1>3. \A a \in Approvals : Foreseen(a)'
  BY <1>2, ForeseenStays DEF JudgedInv, Appends
<1> QED
  BY <1>1, <1>2, <1>3, AcceptedPerOperation DEF JudgedInv

LEMMA BatchJudged ==
  ASSUME JudgedInv, LedgerInv', NEW c \in Calls, RunsBatch(c),
         ~Aborts(Op(c), PlanOf(Hand(c)).change, Guarded(c))
  PROVE  JudgedInv'
<1>1. LedgerInv /\ call[c].at \notin Answers
  BY DEF JudgedInv, RunsBatch, Answers
<1>2. PICK a \in Approvals, o \in Ops : a = Hand(c) /\ o = Op(c)
  BY <1>1 DEF LedgerInv, TypeOK, Waiting, Answered, Hand, Op
<1>3. approval[a] # None /\ <<o, PlanOf(a).change>> \in Keys
  BY <1>1, <1>2 DEF LedgerInv, HandInv
<1>4. PICK p \in Plans : p = PlanOf(a)
  BY <1>1, <1>3, PlanOfType DEF LedgerInv
<1>5. p.change \in Changes /\ p.base \in 0..MaxRev
  BY DEF Plans
<1>6. /\ Reserves(c) => /\ receipt[o] = None /\ receipt' = [receipt EXCEPT ![o] = a]
                        /\ Rev(p.change.subject) = p.base
                        /\ decision'[o] # None => {o} \X Targets[p.change] \subseteq queued'
      /\ ~Reserves(c) => receipt' = receipt
      /\ queued \subseteq queued'
      /\ \A b \in Approvals : approval[b] # None => approval'[b].plan = approval[b].plan
      /\ \A b \in Approvals : approval[b] = None => approval'[b] = None
      /\ Reserves(c) => Guarded(c)
  BY <1>1, <1>2, <1>4, BatchWrites DEF Guarded
<1>7. PICK guard \in BOOLEAN : (guard <=> Guarded(c)) /\ Judge(o, p.change, p.base, guard)
  BY <1>1, <1>2, <1>4, BatchWrites
<1>8. /\ facts' \subseteq Facts /\ facts \subseteq facts'
      /\ \A q \in Ops : decision[q] # None \/ q # o => decision'[q] = decision[q]
      /\ \A f \in facts' \ facts :
           /\ f = [subject |-> p.change.subject, rev |-> p.base + 1, by |-> o]
           /\ \/ p.change.act = "relate" /\ guard /\ ~Made(o)
              \/ p.change.act = "assign" /\ Rev(p.change.subject) = p.base
  BY <1>1, <1>5, <1>7, JudgeWrites DEF LedgerInv
<1>9. ASSUME NEW f \in facts' \ facts
      PROVE  f.rev = Rev(f.subject) + 1 \/ (Unreserved(f)' /\ f.rev =< Rev(f.subject) + 1)
  <2>1. f.subject = p.change.subject /\ f.rev = p.base + 1 /\ f.by = o
    BY <1>8
  <2>2. SUFFICES ASSUME p.change.act = "relate", guard, ~Made(o), Rev(p.change.subject) # p.base
                 PROVE  Unreserved(f)' /\ f.rev =< Rev(f.subject) + 1
    BY <1>8, <2>1
  <2>3. p.change.subject \in Relations
    BY <1>5, <2>2, Universe
  <2>4. ~Reserves(c) /\ receipt' = receipt
    BY <1>6, <2>2
  <2>5. receipt[o] # None /\ PlanOf(receipt[o]).change.act = "release"
    BY <1>1, <1>2, <1>7, <2>2, <2>4, RelatesUnder
  <2>6. receipt[o] \in Approvals /\ approval[receipt[o]] # None
    BY <1>1, <2>5 DEF LedgerInv, TypeOK, ReceiptInv
  <2>7. PlanOf(receipt[o])' = PlanOf(receipt[o])
    BY <1>6, <2>4, <2>6 DEF PlanOf
  <2>8. p.base =< Cardinality(Rows(p.change.subject))
    BY <1>3, <1>4, <2>3 DEF JudgedInv, Foreseen, Subject
  <2>9. Rev(p.change.subject) = Cardinality(Rows(p.change.subject)) /\ Rev(p.change.subject) \in Nat
    BY <2>3, FS_CardinalityType DEF JudgedInv, Counted, Rev
  <2>10. f.rev =< Rev(f.subject) + 1
    BY <1>5, <2>1, <2>8, <2>9, Universe
  <2>11. Unreserved(f)'
    BY <2>1, <2>3, <2>5, <2>7 DEF Unreserved
  <2> QED  BY <2>10, <2>11
<1>10. Appends
  <2>1. \A q \in Receipts : receipt'[q] = receipt[q]
    BY <1>1, <1>6 DEF LedgerInv, TypeOK, Receipts
  <2>2. \A f \in facts : Unreserved(f) => Unreserved(f)'
    BY <1>1, <1>6, <2>1, UnreservedStays
  <2> QED  BY <1>8, <1>9, <2>2 DEF Appends
<1>11. NoLostUpdate' /\ \A s \in Relations : Counted(s)'
  BY <1>10, AppendedRows DEF JudgedInv, LedgerInv, TypeOK
<1>12. ASSUME NEW q \in Ops, receipt'[q] = receipt[q] PROVE Accepted(q)'
  <2>1. CASE receipt[q] = None
    BY <1>12, <2>1 DEF Accepted
  <2>2. CASE receipt[q] # None
    BY <1>1, <1>6, <1>8, <1>12, <2>2, AcceptedPerOperation, AcceptedStays DEF JudgedInv
  <2> QED  BY <2>1, <2>2
<1>13. ASSUME Reserves(c) PROVE Accepted(o)'
  <2>1. receipt'[o] = a
    BY <1>6, <1>13 DEF LedgerInv, JudgedInv, TypeOK
  <2>2. PlanOf(receipt[o])' = p /\ Subject(receipt[o])' = p.change.subject
    BY <1>3, <1>4, <1>6, <2>1 DEF PlanOf, Subject
  <2>3. Judge(o, p.change, p.base, TRUE) /\ ~Aborts(o, p.change, TRUE)
    <3>1. guard
      BY <1>6, <1>7, <1>13
    <3>2. Judge(o, p.change, p.base, TRUE)
      BY <1>7, <3>1
    <3>3. ~Aborts(o, p.change, TRUE)
      BY <1>2, <1>4, <1>6, <1>13 DEF Aborts
    <3> QED  BY <3>2, <3>3
  <2>4. p.change.act # "release" =>
          \/ /\ decision'[o] # None /\ decision'[o].subject = p.change.subject
             /\ [subject |-> p.change.subject, rev |-> p.base + 1, by |-> o] \in facts'
          \/ p.change.act = "assign" /\ Made(o) /\ DecidedDirectly(o)
    BY <1>1, <1>6, <1>13, <2>3, ReservedInEffect
  <2>5. CASE p.change.act = "release"
    BY <2>2, <2>5 DEF Accepted
  <2>6. CASE p.change.act = "assign" /\ Made(o) /\ DecidedDirectly(o)
    <3>1. DecidedDirectly(o)'
      BY <1>8, <2>6 DEF DecidedDirectly, Made
    <3> QED  BY <2>2, <2>6, <3>1 DEF Accepted
  <2>7. CASE /\ decision'[o] # None /\ decision'[o].subject = p.change.subject
             /\ [subject |-> p.change.subject, rev |-> p.base + 1, by |-> o] \in facts'
    <3>1. InEffect(o)'
      BY <1>6, <1>13, <2>2, <2>7 DEF InEffect, Made
    <3>2. \E f \in facts' : f.by = o /\ f.rev = p.base + 1 /\ f.subject = p.change.subject
      BY <2>7
    <3> QED  BY <2>2, <3>1, <3>2 DEF Accepted
  <2> QED  BY <2>4, <2>5, <2>6, <2>7
<1>14. \A q \in Ops : Accepted(q)'
  <2>1. ASSUME NEW q \in Ops, receipt'[q] # receipt[q] PROVE Reserves(c) /\ q = o
    BY <1>6, <2>1 DEF JudgedInv, LedgerInv, TypeOK
  <2> QED  BY <1>12, <1>13, <2>1
<1>15. \A b \in Approvals : Foreseen(b)'
  <2>1. ASSUME NEW b \in Approvals, approval[b] # None PROVE Foreseen(b)'
    BY <1>1, <1>6, <1>8, <1>11, <2>1, ForeseenStays DEF JudgedInv
  <2>2. ASSUME NEW b \in Approvals, approval[b] = None PROVE Foreseen(b)'
    BY <1>6, <2>2 DEF Foreseen
  <2> QED  BY <2>1, <2>2
<1> QED
  BY <1>11, <1>14, <1>15, AcceptedPerOperation DEF JudgedInv

\* An approval is given at the revision its plan was made for.
LEMMA ApprovedForeseen ==
  ASSUME JudgedInv, NEW a \in Approvals, NEW p \in Plans, NEW who \in Principals,
         Approve(a, p, who)
  PROVE  Foreseen(a)'
<1>1. approval'[a].plan = p /\ facts' = facts /\ Rev(p.change.subject) = p.base
  BY DEF Approve, JudgedInv, LedgerInv, TypeOK, judged
<1>2. PlanOf(a)' = p /\ Subject(a)' = p.change.subject
  BY <1>1 DEF PlanOf, Subject
<1>3. p.base \in Nat
  BY Universe DEF Plans
<1>4. p.change.subject \in Relations => p.base =< Cardinality(Rows(p.change.subject))
  BY <1>1, <1>3 DEF Rev
<1> QED
  BY <1>1, <1>2, <1>4 DEF Foreseen, Rows

LEMMA JudgedStep == JudgedInv /\ [Next]_vars => JudgedInv'
<1> SUFFICES ASSUME JudgedInv, [Next]_vars PROVE JudgedInv'
  OBVIOUS
<1>1. LedgerInv /\ LedgerInv'
  BY LedgerStep DEF JudgedInv
<1>0. ASSUME receipt' = receipt,
             \A a \in Approvals : approval[a] # None => approval'[a].plan = approval[a].plan
      PROVE  \A f \in facts : Unreserved(f) => Unreserved(f)'
  BY <1>0, <1>1, UnreservedStays
<1>2. CASE Bookkeeping
  <2>1. UNCHANGED <<facts, decision, approval, receipt, queued>>
    BY <1>2 DEF Bookkeeping, judged, records
  <2>2. \A a \in Approvals : approval[a] = None => Foreseen(a)'
    BY <2>1 DEF Foreseen
  <2> QED  BY <1>0, <1>1, <2>1, <2>2, JudgedKept DEF Appends
<1>3. ASSUME NEW a \in Approvals, NEW p \in Plans, NEW who \in Principals, Approve(a, p, who)
      PROVE  JudgedInv'
  <2>1. UNCHANGED <<facts, decision, receipt, queued>>
    BY <1>3 DEF Approve, judged, records
  <2>2. \A b \in Approvals : /\ approval[b] # None => approval'[b] = approval[b]
                             /\ b # a => approval'[b] = approval[b]
    BY <1>1, <1>3 DEF Approve, LedgerInv, TypeOK
  <2>3. Foreseen(a)'
    BY <1>3, ApprovedForeseen
  <2>4. \A b \in Approvals : approval[b] = None => Foreseen(b)'
    BY <2>2, <2>3 DEF Foreseen
  <2> QED  BY <1>0, <1>1, <2>1, <2>2, <2>4, JudgedKept DEF Appends
<1>4. ASSUME NEW c \in Calls, RunsBatch(c), ~Aborts(Op(c), PlanOf(Hand(c)).change, Guarded(c))
      PROVE  JudgedInv'
  BY <1>1, <1>4, BatchJudged
<1>5. ASSUME NEW o \in Ops, NEW change \in Changes, Direct(o, change)
      PROVE  JudgedInv'
  <2>1. /\ change.act # "relate" /\ Rev(change.subject) \in 0..MaxRev
        /\ Judge(o, change, Rev(change.subject), TRUE)
    BY <1>1, <1>5, DirectWrites
  <2>2. /\ facts' \subseteq Facts /\ facts \subseteq facts'
        /\ \A q \in Ops : decision[q] # None => decision'[q] = decision[q]
        /\ \A f \in facts' \ facts :
             f = [subject |-> change.subject, rev |-> Rev(change.subject) + 1, by |-> o]
    BY <1>1, <2>1, JudgeWrites DEF LedgerInv
  <2>3. UNCHANGED <<approval, receipt, queued>>
    BY <1>5 DEF Direct, records
  <2>4. Appends
    BY <1>0, <2>2, <2>3 DEF Appends
  <2>5. \A a \in Approvals : approval[a] = None => Foreseen(a)'
    BY <2>3 DEF Foreseen
  <2> QED  BY <1>1, <2>2, <2>3, <2>4, <2>5, JudgedKept
<1>6. ASSUME NEW s \in Mappings, PolicyMaps(s)
      PROVE  JudgedInv'
  <2>1. /\ facts' = facts \cup {[subject |-> s, rev |-> Rev(s) + 1, by |-> "rule"]}
        /\ UNCHANGED <<decision, approval, receipt, queued>>
    BY <1>6 DEF PolicyMaps, records
  <2>2. facts' \subseteq Facts
    BY <1>1 DEF LedgerInv, TypeOK
  <2>3. Appends
    BY <1>0, <2>1, <2>2 DEF Appends
  <2>4. \A a \in Approvals : approval[a] = None => Foreseen(a)'
    BY <2>1 DEF Foreseen
  <2> QED  BY <1>1, <2>1, <2>3, <2>4, JudgedKept
<1> QED
  BY <1>1, <1>2, <1>3, <1>4, <1>5, <1>6, StepKinds

LEMMA JudgedInit == Init => JudgedInv
<1> SUFFICES ASSUME Init PROVE JudgedInv
  OBVIOUS
<1>1. \A f \in facts : f.subject \in Mappings
  BY DEF Init
<1>2. \A s \in Relations : Counted(s)
  <2>1. \A s \in Relations : Rows(s) = {}
    BY <1>1, Universe DEF Rows
  <2> QED  BY <2>1, FS_EmptySet DEF Counted
<1>3. NoLostUpdate /\ AcceptedIsInEffect /\ \A a \in Approvals : Foreseen(a)
  BY DEF Init, NoLostUpdate, AcceptedIsInEffect, Receipts, Foreseen
<1> QED
  BY <1>2, <1>3, LedgerInit DEF JudgedInv

LEMMA JudgedInvariant == Spec => []JudgedInv
BY JudgedInit, JudgedStep, PTL DEF Spec

\* No judgement is lost under another, whatever operation ids callers choose:
\* two rows of a subject claim the same revision only where one is a relation
\* whose own reservation failed and which a release's receipt let in.
THEOREM NothingIsLost == Spec => []NoLostUpdate
<1>1. JudgedInv => NoLostUpdate
  BY DEF JudgedInv
<1> QED
  BY <1>1, JudgedInvariant, PTL

\* Nor is a caller told of an assignment or relation that is not wholly in
\* effect, unless the direct route had already decided under the assignment's
\* operation id.
THEOREM AcceptedHolds == Spec => []AcceptedIsInEffect
<1>1. JudgedInv => AcceptedIsInEffect
  BY DEF JudgedInv
<1> QED
  BY <1>1, JudgedInvariant, PTL
=============================================================================
