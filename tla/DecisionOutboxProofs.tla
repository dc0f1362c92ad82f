------------------------ MODULE DecisionOutboxProofs ------------------------
(***************************************************************************)
(* The safety of the decision outbox for every set of operations, rows and *)
(* passes and every choice of budgets and delays, by one inductive         *)
(* invariant.                                                              *)
(*                                                                         *)
(* The argument.  A claim stamps a row before its processor runs, and the  *)
(* operation's own commit lies before the claim, so what a row requires is *)
(* never below the revision its operation reached (RowInv).  An answer     *)
(* counts only while the row is still the pass's, and while it is, nobody  *)
(* else changes the row: what held when the processor answered still holds *)
(* when the answer is recorded (PassInv).  The budget is counted apart: a  *)
(* step leaves it alone, a claim spends one, or an answer that still finds *)
(* its own lease gives one back (SpentInv).  The pass that closes the last *)
(* row of an operation has it among those it will publish (PublisherInv).  *)
(***************************************************************************)
EXTENDS DecisionOutbox, TLAPS

RowInv(r) ==
  /\ row[r].lease # None \/ row[r].processed \/ row[r].required # None
       => receipt[Operation[r]] # None
  /\ row[r].required # None => row[r].required >= decidedAt[Operation[r]]
  /\ row[r].lease # None => ~row[r].processed /\ row[r].available = 0
  /\ row[r].processed => row[r].available = 0 /\ row[r].until = 0
  /\ row[r].processed /\ Target[r] = "balance" => snapshot >= decidedAt[Operation[r]]

ReceiptInv(o) ==
  /\ receipt[o] = None <=> decidedAt[o] = None
  /\ decidedAt[o] # None => decidedAt[o] =< revision
  /\ receipt[o] = "published" => AllProcessed(o)

PassInv(p) ==
  /\ pass[p].at \in {"idle", "claimed", "stamped"} => pass[p].done = {}
  /\ pass[p].at \in {"stamped", "works", "answered"}
       => \A r \in Rows : row[r].lease = p => row[r].required # None
  /\ pass[p].at = "answered" => \A r \in Current(p) : row[r].lease = p =>
       /\ pass[p].answer = "pending" => row[r].polls < MaxPolls
       /\ pass[p].answer = "completed" /\ Target[r] = "balance" => snapshot >= row[r].required

OutboxInv == /\ TypeOK
             /\ \A r \in Rows : RowInv(r)
             /\ \A o \in Operations : ReceiptInv(o)
             /\ \A p \in Passes : PassInv(p)

-----------------------------------------------------------------------------
(* Typing. *)

LEMMA CurrentFacts ==
  TypeOK => \A p \in Passes : pass[p].todo \subseteq Rows /\ Current(p) \subseteq pass[p].todo
  BY DEF TypeOK, PassState, Current

\* An answer leaves a row that is still the pass's well typed; the only bound
\* it could break is that of the polls.
LEMMA ClosedTyped ==
  ASSUME TypeOK, NEW p \in Passes, NEW r \in Rows,
         pass[p].answer = "pending" => row[r].polls < MaxPolls
  PROVE  Closed(p, r) \in OutboxRow
<1> USE Instance DEF TypeOK, OutboxRow, Free
<1>1. row[r] \in OutboxRow /\ pass[p].age \in Nat
  BY DEF PassState
<1>2. \A d \in Nat : Left(p, d) \in 0..d
  BY <1>1 DEF Left
<1>3. Backoff(r) \in 0..BackoffMax
  BY DEF Backoff
<1>4. Left(p, Backoff(r)) \in 0..BackoffMax + PendingRetry
  BY <1>2, <1>3
<1>5. Left(p, PendingRetry) \in 0..BackoffMax + PendingRetry
  BY <1>2
<1>6. Free(r) \in OutboxRow /\ Free(r).polls = row[r].polls
  <2> DEFINE unleased == [row[r] EXCEPT !.lease = None]
  <2>1. unleased \in OutboxRow /\ unleased.polls = row[r].polls
    BY <1>1
  <2>2. Free(r) = [unleased EXCEPT !.until = 0]
    BY <1>1
  <2> HIDE DEF unleased, Free
  <2> QED  BY <2>1, <2>2
<1> HIDE DEF Free
<1>7. CASE pass[p].answer = "completed"
  <2>1. Closed(p, r) = [Free(r) EXCEPT !.processed = TRUE]
    BY <1>7 DEF Closed
  <2> QED  BY <2>1, <1>6
<1>8. CASE pass[p].answer = "pending"
  <2>1. Closed(p, r) = [Free(r) EXCEPT !.polls = @ + 1, !.available = Left(p, PendingRetry)]
    BY <1>8 DEF Closed
  <2>2. Free(r).polls + 1 \in 0..MaxPolls
    BY <1>6, <1>8
  <2> QED  BY <2>1, <2>2, <1>5, <1>6
<1>9. CASE pass[p].answer = "blocked"
  <2>1. Closed(p, r) = [Free(r) EXCEPT !.blocked = TRUE]
    BY <1>9 DEF Closed
  <2> QED  BY <2>1, <1>6
<1>10. CASE pass[p].answer \notin {"completed", "pending", "blocked"}
  <2>1. Closed(p, r) = [Free(r) EXCEPT !.available = Left(p, Backoff(r))]
    BY <1>10 DEF Closed
  <2> QED  BY <2>1, <1>4, <1>6
<1> QED
  BY <1>7, <1>8, <1>9, <1>10

-----------------------------------------------------------------------------
(* The invariant, one lemma per action. *)

\* A CORE database without outbox rows meets the invariant.
THEOREM OutboxInit == Init => OutboxInv
<1> SUFFICES ASSUME Init PROVE OutboxInv
  OBVIOUS
<1> USE Instance DEF Init, Idle
<1>1. TypeOK
  <2>1. row \in [Rows -> OutboxRow]
    BY DEF OutboxRow
  <2>2. pass \in [Passes -> PassState]
    BY DEF PassState
  <2>3. revision \in 0..MaxRevision /\ snapshot \in 0..MaxRevision
    OBVIOUS
  <2>4. decidedAt \in [Operations -> 0..MaxRevision \cup {None}]
    OBVIOUS
  <2>5. receipt \in [Operations -> {None, "accepted", "published"}]
    OBVIOUS
  <2>6. stopped \in BOOLEAN
    OBVIOUS
  <2> HIDE DEF Init
  <2> QED  BY <2>1, <2>2, <2>3, <2>4, <2>5, <2>6 DEF TypeOK
<1>2. \A r \in Rows : RowInv(r)
  BY DEF RowInv
<1>3. \A o \in Operations : ReceiptInv(o)
  BY DEF ReceiptInv
<1>4. \A p \in Passes : PassInv(p)
  BY DEF PassInv
<1> QED
  BY <1>1, <1>2, <1>3, <1>4 DEF OutboxInv

LEMMA CommitKeeps ==
  ASSUME OutboxInv, NEW o \in Operations, Commit(o) PROVE OutboxInv'
<1> USE Instance DEF OutboxInv
<1>1. TypeOK
  OBVIOUS
<1>2. /\ receipt[o] = None /\ revision < MaxRevision
      /\ revision' = revision + 1
      /\ decidedAt' = [decidedAt EXCEPT ![o] = revision + 1]
      /\ receipt' = [receipt EXCEPT ![o] = "accepted"]
      /\ UNCHANGED <<row, snapshot, pass, stopped>>
  BY DEF Commit
<1>3. TypeOK'
  <2> HIDE DEF OutboxInv
  <2>1. revision' \in 0..MaxRevision
    BY <1>1, <1>2 DEF TypeOK
  <2>2. decidedAt' \in [Operations -> 0..MaxRevision \cup {None}]
    BY <1>1, <1>2, <2>1 DEF TypeOK
  <2>3. receipt' \in [Operations -> {None, "accepted", "published"}]
    BY <1>1, <1>2 DEF TypeOK
  <2> QED  BY <1>1, <1>2, <2>1, <2>2, <2>3 DEF TypeOK
<1>4. ASSUME NEW r \in Rows PROVE RowInv(r)'
  <2>1. CASE Operation[r] = o
    <3>1. row[r].lease = None /\ ~row[r].processed /\ row[r].required = None
      BY <1>2, <2>1 DEF RowInv
    <3> QED  BY <1>2, <3>1 DEF RowInv
  <2>2. CASE Operation[r] # o
    <3>1. receipt'[Operation[r]] = receipt[Operation[r]] /\ decidedAt'[Operation[r]] = decidedAt[Operation[r]]
      BY <1>1, <1>2, <2>2 DEF TypeOK
    <3> QED  BY <1>2, <3>1 DEF RowInv
  <2> QED  BY <2>1, <2>2
<1>5. ASSUME NEW q \in Operations PROVE ReceiptInv(q)'
  <2>1. ReceiptInv(q)
    OBVIOUS
  <2> HIDE DEF OutboxInv
  <2> QED  BY <1>1, <1>2, <2>1 DEF ReceiptInv, TypeOK, AllProcessed, Of
<1>6. ASSUME NEW p \in Passes PROVE PassInv(p)'
  BY <1>2 DEF PassInv, Current
<1> QED
  BY <1>3, <1>4, <1>5, <1>6

LEMMA LedgerKeeps ==
  ASSUME OutboxInv, LedgerMoves PROVE OutboxInv'
<1> USE Instance DEF OutboxInv, LedgerMoves
<1>1. TypeOK'
  BY DEF TypeOK
<1>2. ASSUME NEW r \in Rows PROVE RowInv(r)'
  BY DEF RowInv
<1>3. ASSUME NEW o \in Operations PROVE ReceiptInv(o)'
  BY DEF ReceiptInv, TypeOK, AllProcessed, Of
<1>4. ASSUME NEW p \in Passes PROVE PassInv(p)'
  BY DEF PassInv, Current
<1> QED
  BY <1>1, <1>2, <1>3, <1>4

LEMMA SnapshotKeeps ==
  ASSUME OutboxInv, SnapshotMoves PROVE OutboxInv'
<1> USE Instance DEF OutboxInv, SnapshotMoves
<1>1. TypeOK' /\ snapshot' > snapshot
  BY DEF TypeOK
<1>2. ASSUME NEW r \in Rows PROVE RowInv(r)'
  <2>1. row[r].processed => decidedAt[Operation[r]] \in 0..MaxRevision
    BY DEF TypeOK, RowInv, ReceiptInv
  <2> QED  BY <2>1, <1>1 DEF RowInv, TypeOK
<1>3. ASSUME NEW o \in Operations PROVE ReceiptInv(o)'
  BY DEF ReceiptInv, AllProcessed, Of
<1>4. ASSUME NEW p \in Passes PROVE PassInv(p)'
  <2>1. pass[p].at = "answered" => \A r \in Current(p) : r \in Rows /\
          (row[r].lease = p => row[r].required \in 0..MaxRevision)
    BY CurrentFacts DEF TypeOK, OutboxRow, PassInv
  <2> QED  BY <2>1, <1>1 DEF PassInv, Current, TypeOK
<1> QED
  BY <1>1, <1>2, <1>3, <1>4

LEMMA UnblockKeeps ==
  ASSUME OutboxInv, NEW b \in Rows, Unblock(b) PROVE OutboxInv'
<1> DEFINE cleared == [row[b] EXCEPT !.blocked = FALSE]
<1>1. TypeOK
  BY DEF OutboxInv
<1>2. row[b] \in OutboxRow
  BY <1>1 DEF TypeOK
<1>3. /\ cleared \in OutboxRow
      /\ cleared.processed = row[b].processed /\ cleared.until = row[b].until
      /\ cleared.lease = row[b].lease /\ cleared.required = row[b].required
      /\ cleared.polls = row[b].polls /\ cleared.available = row[b].available
  BY <1>2 DEF OutboxRow
<1>4. row' = [row EXCEPT ![b] = cleared]
  BY <1>1 DEF Unblock, TypeOK
<1> HIDE DEF cleared
<1>5. ASSUME NEW r \in Rows
      PROVE  /\ row'[r] \in OutboxRow
             /\ row'[r].processed = row[r].processed /\ row'[r].until = row[r].until
             /\ row'[r].lease = row[r].lease /\ row'[r].required = row[r].required
             /\ row'[r].polls = row[r].polls /\ row'[r].available = row[r].available
  BY <1>1, <1>3, <1>4 DEF TypeOK
<1>6. UNCHANGED <<revision, decidedAt, receipt, snapshot, pass, stopped>>
  BY DEF Unblock
<1>7. TypeOK'
  <2>1. row' \in [Rows -> OutboxRow]
    BY <1>1, <1>4, <1>5 DEF TypeOK
  <2> QED  BY <1>1, <1>6, <2>1 DEF TypeOK
<1>8. ASSUME NEW r \in Rows PROVE RowInv(r)'
  BY <1>5, <1>6 DEF OutboxInv, RowInv
<1>9. ASSUME NEW o \in Operations PROVE ReceiptInv(o)'
  BY <1>5, <1>6 DEF OutboxInv, ReceiptInv, AllProcessed, Of
<1>10. ASSUME NEW p \in Passes PROVE PassInv(p)'
  <2>1. Current(p)' = Current(p) /\ Current(p) \subseteq Rows
    BY <1>1, <1>6, CurrentFacts DEF Current
  <2> QED  BY <1>5, <1>6, <2>1 DEF OutboxInv, PassInv
<1> QED
  BY <1>7, <1>8, <1>9, <1>10 DEF OutboxInv

LEMMA ClaimKeeps ==
  ASSUME OutboxInv, NEW p \in Passes, Claim(p) PROVE OutboxInv'
<1> DEFINE leased(r) == [row[r] EXCEPT !.lease = p]
           dated(r) == [leased(r) EXCEPT !.until = Lease]
           counted(r) == [dated(r) EXCEPT !.attempts = @ + 1]
<1>1. TypeOK
  BY DEF OutboxInv
<1>2. ASSUME NEW r \in Rows
      PROVE  /\ counted(r) \in OutboxRow /\ counted(r).lease = p
             /\ counted(r).processed = row[r].processed /\ counted(r).required = row[r].required
             /\ counted(r).polls = row[r].polls /\ counted(r).available = row[r].available
             /\ counted(r) = [row[r] EXCEPT !.lease = p, !.until = Lease, !.attempts = @ + 1]
  <2>1. row[r] \in OutboxRow
    BY <1>1 DEF TypeOK
  <2>2. /\ leased(r) \in OutboxRow /\ leased(r).lease = p
        /\ leased(r).processed = row[r].processed /\ leased(r).required = row[r].required
        /\ leased(r).polls = row[r].polls /\ leased(r).available = row[r].available
    BY <2>1 DEF OutboxRow
  <2>3. counted(r) = [row[r] EXCEPT !.lease = p, !.until = Lease, !.attempts = @ + 1]
    BY <2>1 DEF OutboxRow
  <2> HIDE DEF leased
  <2>4. /\ dated(r) \in OutboxRow /\ dated(r).lease = leased(r).lease
        /\ dated(r).processed = leased(r).processed /\ dated(r).required = leased(r).required
        /\ dated(r).polls = leased(r).polls /\ dated(r).available = leased(r).available
    BY <2>2, Instance DEF OutboxRow
  <2> HIDE DEF dated
  <2>5. /\ counted(r) \in OutboxRow /\ counted(r).lease = dated(r).lease
        /\ counted(r).processed = dated(r).processed /\ counted(r).required = dated(r).required
        /\ counted(r).polls = dated(r).polls /\ counted(r).available = dated(r).available
    BY <2>4 DEF OutboxRow
  <2> QED  BY <2>2, <2>3, <2>4, <2>5
<1> HIDE DEF counted
<1>3. row' = [r \in Rows |-> IF r \in Claimed THEN counted(r) ELSE row[r]]
  BY <1>2 DEF Claim
<1>4. /\ pass[p].at = "idle" /\ pass' = [pass EXCEPT ![p].at = "claimed"]
      /\ UNCHANGED <<revision, decidedAt, receipt, snapshot, stopped>>
  BY DEF Claim
<1>5. ASSUME NEW r \in Claimed
      PROVE  /\ receipt[Operation[r]] # None /\ ~row[r].processed /\ row[r].available = 0
  BY DEF Claimed, Due
<1>6. ASSUME NEW r \in Rows
      PROVE  /\ row'[r] \in OutboxRow
             /\ row'[r].processed = row[r].processed /\ row'[r].required = row[r].required
             /\ row'[r].polls = row[r].polls /\ row'[r].available = row[r].available
             /\ IF r \in Claimed THEN row'[r].lease = p ELSE row'[r] = row[r]
  BY <1>1, <1>2, <1>3 DEF TypeOK
<1>7. ASSUME NEW q \in Passes
      PROVE  /\ pass'[q].todo = pass[q].todo /\ pass'[q].answer = pass[q].answer
             /\ pass'[q].done = pass[q].done
             /\ pass'[q].at = IF q = p THEN "claimed" ELSE pass[q].at
             /\ pass'[q] \in PassState
  BY <1>1, <1>4 DEF TypeOK, PassState
<1>8. TypeOK'
  <2>1. row' \in [Rows -> OutboxRow]
    BY <1>3, <1>6
  <2>2. pass' \in [Passes -> PassState]
    BY <1>1, <1>4, <1>7 DEF TypeOK
  <2> QED  BY <1>1, <1>4, <2>1, <2>2 DEF TypeOK
<1>9. ASSUME NEW r \in Rows PROVE RowInv(r)'
  BY <1>4, <1>5, <1>6 DEF OutboxInv, RowInv
<1>10. ASSUME NEW o \in Operations PROVE ReceiptInv(o)'
  BY <1>4, <1>6 DEF OutboxInv, ReceiptInv, AllProcessed, Of
<1>11. ASSUME NEW q \in Passes PROVE PassInv(q)'
  <2>1. \A r \in Rows : row'[r].lease = q /\ q # p => row[r].lease = q
    BY <1>6
  <2>2. Current(q)' = Current(q) /\ Current(q) \subseteq Rows
    BY <1>1, <1>7, CurrentFacts DEF Current
  <2> QED  BY <1>4, <1>6, <1>7, <2>1, <2>2 DEF OutboxInv, PassInv
<1> QED
  BY <1>8, <1>9, <1>10, <1>11 DEF OutboxInv

LEMMA StampKeeps ==
  ASSUME OutboxInv, NEW p \in Passes, Stamp(p) PROVE OutboxInv'
<1> DEFINE stamped(r) == [row[r] EXCEPT !.required = revision]
           fresh == {r \in Rows : r \in Holds(p) /\ row[r].required = None}
<1>1. TypeOK
  BY DEF OutboxInv
<1>2. /\ pass[p].at = "claimed" /\ pass' = [pass EXCEPT ![p].at = "stamped"]
      /\ UNCHANGED <<revision, decidedAt, receipt, snapshot, stopped>>
      /\ row' = [r \in Rows |-> IF r \in fresh THEN stamped(r) ELSE row[r]]
  BY DEF Stamp
<1>3. ASSUME NEW r \in Rows
      PROVE  /\ stamped(r) \in OutboxRow /\ stamped(r).required = revision
             /\ stamped(r).processed = row[r].processed /\ stamped(r).lease = row[r].lease
             /\ stamped(r).polls = row[r].polls /\ stamped(r).available = row[r].available
             /\ stamped(r).until = row[r].until
  BY <1>1 DEF TypeOK, OutboxRow
<1> HIDE DEF stamped
<1>4. ASSUME NEW r \in Rows
      PROVE  /\ row'[r] \in OutboxRow
             /\ row'[r].processed = row[r].processed /\ row'[r].lease = row[r].lease
             /\ row'[r].polls = row[r].polls /\ row'[r].available = row[r].available
             /\ row'[r].until = row[r].until
             /\ row'[r].required = IF r \in fresh THEN revision ELSE row[r].required
  BY <1>1, <1>2, <1>3 DEF TypeOK
<1>5. ASSUME NEW r \in fresh
      PROVE  /\ r \in Rows /\ row[r].lease # None /\ ~row[r].processed
             /\ row[r].required = None
             /\ decidedAt[Operation[r]] # None /\ decidedAt[Operation[r]] =< revision
  BY Instance DEF OutboxInv, RowInv, ReceiptInv, Holds
<1>6. ASSUME NEW r \in Rows, row[r].lease = p PROVE row'[r].required # None
  <2>1. ~row[r].processed
    BY <1>6, Instance DEF OutboxInv, RowInv
  <2>2. revision \in Nat
    BY <1>1, Instance DEF TypeOK
  <2> QED  BY <1>4, <1>6, <2>1, <2>2, Instance DEF Holds
<1>7. ASSUME NEW q \in Passes
      PROVE  /\ pass'[q].todo = pass[q].todo /\ pass'[q].answer = pass[q].answer
             /\ pass'[q].done = pass[q].done
             /\ pass'[q].at = IF q = p THEN "stamped" ELSE pass[q].at
             /\ pass'[q] \in PassState
  BY <1>1, <1>2 DEF TypeOK, PassState
<1>8. TypeOK'
  <2>1. row' \in [Rows -> OutboxRow]
    BY <1>2, <1>4
  <2>2. pass' \in [Passes -> PassState]
    BY <1>1, <1>2, <1>7 DEF TypeOK
  <2> QED  BY <1>1, <1>2, <2>1, <2>2 DEF TypeOK
<1>9. ASSUME NEW r \in Rows PROVE RowInv(r)'
  <2>1. CASE r \in fresh
    BY <1>2, <1>4, <1>5, <2>1 DEF OutboxInv, RowInv
  <2>2. CASE r \notin fresh
    BY <1>2, <1>4, <2>2 DEF OutboxInv, RowInv
  <2> QED  BY <2>1, <2>2
<1>10. ASSUME NEW o \in Operations PROVE ReceiptInv(o)'
  BY <1>2, <1>4 DEF OutboxInv, ReceiptInv, AllProcessed, Of
<1>11. ASSUME NEW q \in Passes PROVE PassInv(q)'
  <2>1. Current(q)' = Current(q) /\ Current(q) \subseteq Rows
    BY <1>1, <1>7, CurrentFacts DEF Current
  <2>2. CASE q = p
    BY <1>2, <1>4, <1>6, <1>7, <2>1, <2>2 DEF OutboxInv, PassInv
  <2>3. CASE q # p
    <3>1. \A r \in Rows : row[r].lease = q => r \notin fresh
      BY <2>3 DEF Holds
    <3> QED  BY <1>2, <1>4, <1>7, <2>1, <2>3, <3>1 DEF OutboxInv, PassInv
  <2> QED  BY <2>2, <2>3
<1> QED
  BY <1>8, <1>9, <1>10, <1>11 DEF OutboxInv

LEMMA SelectKeeps ==
  ASSUME OutboxInv, NEW p \in Passes, Select(p) PROVE OutboxInv'
<1>1. TypeOK
  BY DEF OutboxInv
<1>2. /\ pass[p].at = "stamped"
      /\ UNCHANGED <<revision, decidedAt, receipt, row, snapshot, stopped>>
  BY DEF Select
<1>3. \/ pass' = [pass EXCEPT ![p] = Idle]
      \/ pass' = [pass EXCEPT ![p] = [@ EXCEPT !.at = "works", !.todo = Holds(p)]]
  BY <1>1 DEF Select, TypeOK
<1>4. Idle \in PassState
  BY DEF Idle, PassState
<1>5. [pass[p] EXCEPT !.at = "works", !.todo = Holds(p)] \in PassState
  BY <1>1 DEF TypeOK, PassState, Holds
<1>6. /\ pass' \in [Passes -> PassState] /\ pass'[p].at \in {"idle", "works"}
      /\ pass'[p].at = "idle" => pass'[p].done = {}
  <2>1. CASE pass' = [pass EXCEPT ![p] = Idle]
    BY <1>1, <1>4, <2>1 DEF TypeOK, Idle
  <2>2. CASE pass' = [pass EXCEPT ![p] = [@ EXCEPT !.at = "works", !.todo = Holds(p)]]
    <3>1. pass'[p] = [pass[p] EXCEPT !.at = "works", !.todo = Holds(p)]
      BY <1>1, <2>2 DEF TypeOK
    <3>2. pass'[p].at = "works"
      BY <1>1, <3>1 DEF TypeOK, PassState
    <3> QED  BY <1>1, <1>5, <2>2, <3>1, <3>2 DEF TypeOK
  <2> QED  BY <1>3, <2>1, <2>2
<1>7. \A q \in Passes \ {p} : pass'[q] = pass[q]
  BY <1>1, <1>3 DEF TypeOK
<1>8. TypeOK'
  BY <1>1, <1>2, <1>6 DEF TypeOK
<1>9. ASSUME NEW r \in Rows PROVE RowInv(r)'
  BY <1>2 DEF OutboxInv, RowInv
<1>10. ASSUME NEW o \in Operations PROVE ReceiptInv(o)'
  BY <1>2 DEF OutboxInv, ReceiptInv, AllProcessed, Of
<1>11. ASSUME NEW q \in Passes PROVE PassInv(q)'
  <2>1. CASE q = p
    BY <1>2, <1>6, <2>1 DEF OutboxInv, PassInv
  <2>2. CASE q # p
    BY <1>2, <1>7, <2>2 DEF OutboxInv, PassInv, Current
  <2> QED  BY <2>1, <2>2
<1> QED
  BY <1>8, <1>9, <1>10, <1>11 DEF OutboxInv

LEMMA WorkKeeps ==
  ASSUME OutboxInv, NEW p \in Passes, Work(p) PROVE OutboxInv'
<1>1. TypeOK /\ pass[p].at = "works"
  BY DEF OutboxInv, Work
<1>2. PICK r \in Current(p), answer \in Answers :
        /\ answer = "completed" => Target[r] = "identity" \/ Covered(r)
        /\ answer = "pending" => row[r].polls < MaxPolls
        /\ pass' = [pass EXCEPT ![p].at = "answered", ![p].answer = answer]
  BY DEF Work
<1>3. UNCHANGED <<revision, decidedAt, receipt, row, snapshot, stopped>>
  BY DEF Work
<1> DEFINE named == [pass[p] EXCEPT !.at = "answered"]
<1>4. pass' = [pass EXCEPT ![p] = [named EXCEPT !.answer = answer]]
  BY <1>1, <1>2 DEF TypeOK, PassState
<1>5. /\ named \in PassState /\ named.at = "answered" /\ named.todo = pass[p].todo
      /\ named.done = pass[p].done
  BY <1>1 DEF TypeOK, PassState
<1> HIDE DEF named
<1>6. pass'[p] = [named EXCEPT !.answer = answer]
  BY <1>1, <1>4 DEF TypeOK
<1>7. /\ pass'[p] \in PassState /\ pass'[p].at = "answered" /\ pass'[p].answer = answer
      /\ pass'[p].todo = pass[p].todo /\ pass'[p].done = pass[p].done
  BY <1>5, <1>6 DEF PassState
<1>8. \A q \in Passes \ {p} : pass'[q] = pass[q]
  BY <1>1, <1>4 DEF TypeOK
<1>9. TypeOK'
  <2>1. pass' \in [Passes -> PassState]
    BY <1>1, <1>4, <1>6, <1>7 DEF TypeOK
  <2> QED  BY <1>1, <1>3, <2>1 DEF TypeOK
<1>10. ASSUME NEW s \in Rows PROVE RowInv(s)'
  BY <1>3 DEF OutboxInv, RowInv
<1>11. ASSUME NEW o \in Operations PROVE ReceiptInv(o)'
  BY <1>3 DEF OutboxInv, ReceiptInv, AllProcessed, Of
<1>12. ASSUME NEW q \in Passes PROVE PassInv(q)'
  <2>1. CASE q = p
    <3>1. Current(p)' = Current(p)
      BY <1>7 DEF Current
    <3>2. \A s \in Current(p) : s = r
      <4>1. Current(p) \subseteq Rows /\ Rows \subseteq Nat
        BY <1>1, CurrentFacts, Instance
      <4>2. \A s \in Current(p) : s =< r /\ r =< s
        BY <1>2 DEF Current
      <4> QED  BY <1>2, <4>1, <4>2
    <3>3. \A s \in Rows : row[s].lease = p => row[s].required # None
      BY <1>1 DEF OutboxInv, PassInv
    <3>4. Current(p) \subseteq Rows
      BY <1>1, CurrentFacts
    <3>5. row[r].lease = p /\ answer = "completed" /\ Target[r] = "balance"
            => snapshot >= row[r].required
      BY <1>2, <3>3, <3>4 DEF Covered
    <3> QED  BY <1>2, <1>3, <1>7, <2>1, <3>1, <3>2, <3>3, <3>5 DEF PassInv
  <2>2. CASE q # p
    BY <1>3, <1>8, <2>2 DEF OutboxInv, PassInv, Current
  <2> QED  BY <2>1, <2>2
<1> QED
  BY <1>9, <1>10, <1>11, <1>12 DEF OutboxInv

LEMMA PublishKeeps ==
  ASSUME OutboxInv, NEW p \in Passes, NEW o \in Operations, Publish(p, o) PROVE OutboxInv'
<1> DEFINE after == IF pass[p].done = {o} THEN Idle
                    ELSE [pass[p] EXCEPT !.done = pass[p].done \ {o}]
<1>1. TypeOK /\ pass[p].at = "publishes"
  BY DEF OutboxInv, Publish
<1>2. /\ receipt' = [receipt EXCEPT ![o] = IF @ = "accepted" /\ AllProcessed(o) THEN "published" ELSE @]
      /\ pass' = [pass EXCEPT ![p] = after]
      /\ UNCHANGED <<revision, decidedAt, row, snapshot, stopped>>
  BY DEF Publish
<1>3. after \in PassState /\ after.at \in {"idle", "publishes"} /\ (after.at = "idle" => after.done = {})
  <2>1. CASE pass[p].done = {o}
    BY <2>1 DEF Idle, PassState
  <2>2. CASE pass[p].done # {o}
    <3>1. after = [pass[p] EXCEPT !.done = pass[p].done \ {o}]
      BY <2>2
    <3> QED  BY <1>1, <3>1 DEF TypeOK, PassState
  <2> QED  BY <2>1, <2>2
<1> HIDE DEF after
<1>4. pass'[p] = after /\ \A q \in Passes \ {p} : pass'[q] = pass[q]
  BY <1>1, <1>2 DEF TypeOK
<1>5. ASSUME NEW q \in Operations
      PROVE  /\ receipt'[q] \in {None, "accepted", "published"}
             /\ receipt'[q] = None <=> receipt[q] = None
             /\ receipt'[q] = "published" => receipt[q] = "published" \/ AllProcessed(q)
  BY <1>1, <1>2, Instance DEF TypeOK
<1>6. TypeOK'
  <2>1. receipt' \in [Operations -> {None, "accepted", "published"}]
    BY <1>1, <1>2, <1>5 DEF TypeOK
  <2>2. pass' \in [Passes -> PassState]
    BY <1>1, <1>2, <1>3 DEF TypeOK
  <2> QED  BY <1>1, <1>2, <2>1, <2>2 DEF TypeOK
<1>7. ASSUME NEW r \in Rows PROVE RowInv(r)'
  BY <1>2, <1>5, Instance DEF OutboxInv, RowInv
<1>8. ASSUME NEW q \in Operations PROVE ReceiptInv(q)'
  <2>1. ReceiptInv(q) /\ AllProcessed(q)' = AllProcessed(q)
    BY <1>2 DEF OutboxInv, AllProcessed, Of
  <2> QED  BY <1>2, <1>5, <2>1 DEF ReceiptInv
<1>9. ASSUME NEW q \in Passes PROVE PassInv(q)'
  <2>1. CASE q = p
    BY <1>3, <1>4, <2>1 DEF PassInv
  <2>2. CASE q # p
    BY <1>2, <1>4, <2>2 DEF OutboxInv, PassInv, Current
  <2> QED  BY <2>1, <2>2
<1> QED
  BY <1>6, <1>7, <1>8, <1>9 DEF OutboxInv

LEMMA StopKeeps ==
  ASSUME OutboxInv, NEW p \in Passes, Stop(p) PROVE OutboxInv'
<1> DEFINE orphan(r) == [row[r] EXCEPT !.lease = Lost]
<1>1. TypeOK
  BY DEF OutboxInv
<1>2. /\ pass' = [pass EXCEPT ![p] = Idle]
      /\ row' = [r \in Rows |-> IF row[r].lease = p THEN orphan(r) ELSE row[r]]
      /\ stopped' = TRUE
      /\ UNCHANGED <<revision, decidedAt, receipt, snapshot>>
  BY DEF Stop
<1>3. ASSUME NEW r \in Rows
      PROVE  /\ orphan(r) \in OutboxRow /\ orphan(r).lease = Lost
             /\ orphan(r).processed = row[r].processed /\ orphan(r).required = row[r].required
             /\ orphan(r).polls = row[r].polls /\ orphan(r).available = row[r].available
             /\ orphan(r).until = row[r].until
  BY <1>1 DEF TypeOK, OutboxRow
<1> HIDE DEF orphan
<1>4. ASSUME NEW r \in Rows
      PROVE  /\ row'[r] \in OutboxRow
             /\ row'[r].lease = IF row[r].lease = p THEN Lost ELSE row[r].lease
             /\ row'[r].processed = row[r].processed /\ row'[r].required = row[r].required
             /\ row'[r].polls = row[r].polls /\ row'[r].available = row[r].available
             /\ row'[r].until = row[r].until
  BY <1>1, <1>2, <1>3 DEF TypeOK
<1>5. pass'[p] = Idle /\ \A q \in Passes \ {p} : pass'[q] = pass[q]
  BY <1>1, <1>2 DEF TypeOK
<1>6. TypeOK'
  <2>1. row' \in [Rows -> OutboxRow]
    BY <1>2, <1>4
  <2>2. pass' \in [Passes -> PassState]
    BY <1>1, <1>2 DEF TypeOK, Idle, PassState
  <2>3. stopped' \in BOOLEAN
    BY <1>2
  <2> QED  BY <1>1, <1>2, <2>1, <2>2, <2>3 DEF TypeOK
<1>7. ASSUME NEW r \in Rows PROVE RowInv(r)'
  BY <1>2, <1>4, Instance DEF OutboxInv, RowInv
<1>8. ASSUME NEW o \in Operations PROVE ReceiptInv(o)'
  BY <1>2, <1>4 DEF OutboxInv, ReceiptInv, AllProcessed, Of
<1>9. ASSUME NEW q \in Passes PROVE PassInv(q)'
  <2>1. CASE q = p
    BY <1>5, <2>1, <1>4, Instance DEF PassInv, Idle
  <2>2. CASE q # p
    <3>1. Current(q)' = Current(q) /\ Current(q) \subseteq Rows
      BY <1>1, <1>5, <2>2, CurrentFacts DEF Current
    <3>2. \A r \in Rows : row'[r].lease = q => row[r].lease = q
      BY <1>4, Instance
    <3> QED  BY <1>2, <1>4, <1>5, <2>2, <3>1, <3>2 DEF OutboxInv, PassInv
  <2> QED  BY <2>1, <2>2
<1> QED
  BY <1>6, <1>7, <1>8, <1>9 DEF OutboxInv

LEMMA TimeKeeps ==
  ASSUME OutboxInv, AdvanceTime PROVE OutboxInv'
<1> DEFINE waited(r) == [row[r] EXCEPT !.available = Down(@)]
<1>1. TypeOK
  BY DEF OutboxInv
<1>2. UNCHANGED <<revision, decidedAt, receipt, snapshot, stopped>>
  BY DEF AdvanceTime
<1>3. \A n \in Nat : Down(n) \in 0..n /\ Down(0) = 0
  BY DEF Down
<1>4. ASSUME NEW r \in Rows
      PROVE  /\ waited(r) \in OutboxRow /\ waited(r).available \in 0..row[r].available
             /\ waited(r).processed = row[r].processed /\ waited(r).required = row[r].required
             /\ waited(r).polls = row[r].polls /\ waited(r).lease = row[r].lease
             /\ waited(r).until = row[r].until
             /\ row'[r] = [waited(r) EXCEPT !.until = Down(@)]
  <2>1. row[r] \in OutboxRow
    BY <1>1 DEF TypeOK
  <2>2. Down(row[r].available) \in 0..row[r].available
    BY <1>3, <2>1, Instance DEF OutboxRow
  <2>3. row'[r] = [row[r] EXCEPT !.available = Down(@), !.until = Down(@)]
    BY DEF AdvanceTime
  <2>4. row'[r] = [waited(r) EXCEPT !.until = Down(@)]
    BY <2>1, <2>3 DEF OutboxRow
  <2> QED  BY <2>1, <2>2, <2>4, Instance DEF OutboxRow
<1> HIDE DEF waited
<1>5. ASSUME NEW r \in Rows
      PROVE  /\ row'[r] \in OutboxRow
             /\ row'[r].available \in 0..row[r].available /\ row'[r].until \in 0..row[r].until
             /\ row'[r].processed = row[r].processed /\ row'[r].required = row[r].required
             /\ row'[r].polls = row[r].polls /\ row'[r].lease = row[r].lease
  <2>1. waited(r).until \in 0..Lease
    BY <1>4 DEF OutboxRow
  <2>2. Down(waited(r).until) \in 0..waited(r).until
    BY <1>3, <2>1, Instance
  <2>3. Down(waited(r).until) \in 0..Lease
    BY <2>1, <2>2, Instance
  <2>4. waited(r) \in OutboxRow /\ row'[r] = [waited(r) EXCEPT !.until = Down(@)]
    BY <1>4
  <2>5. /\ row'[r] \in OutboxRow /\ row'[r].until = Down(waited(r).until)
        /\ row'[r].available = waited(r).available
        /\ row'[r].processed = waited(r).processed /\ row'[r].required = waited(r).required
        /\ row'[r].polls = waited(r).polls /\ row'[r].lease = waited(r).lease
    BY <2>3, <2>4 DEF OutboxRow
  <2> QED  BY <1>4, <2>2, <2>5
<1>6. row' = [r \in Rows |-> row'[r]] /\ pass' = [q \in Passes |-> pass'[q]]
  BY DEF AdvanceTime
<1>7. ASSUME NEW q \in Passes
      PROVE  /\ pass'[q] \in PassState /\ pass'[q].at = pass[q].at
             /\ pass'[q].todo = pass[q].todo /\ pass'[q].answer = pass[q].answer
             /\ pass'[q].done = pass[q].done
  <2>1. pass[q] \in PassState /\ pass[q].age + 1 \in Nat
    BY <1>1 DEF TypeOK, PassState
  <2>2. CASE pass'[q] = pass[q]
    BY <2>1, <2>2
  <2>3. CASE pass'[q] = [pass[q] EXCEPT !.age = @ + 1]
    BY <2>1, <2>3 DEF PassState
  <2> QED  BY <2>2, <2>3 DEF AdvanceTime
<1>8. TypeOK'
  <2>1. row' \in [Rows -> OutboxRow]
    BY <1>5, <1>6
  <2>2. pass' \in [Passes -> PassState]
    BY <1>6, <1>7
  <2> QED  BY <1>1, <1>2, <2>1, <2>2 DEF TypeOK
<1>9. ASSUME NEW r \in Rows PROVE RowInv(r)'
  <2>1. row[r].available \in Nat /\ row[r].until \in Nat
    BY <1>1, Instance DEF TypeOK, OutboxRow
  <2> QED  BY <1>2, <1>5, <2>1 DEF OutboxInv, RowInv
<1>10. ASSUME NEW o \in Operations PROVE ReceiptInv(o)'
  BY <1>2, <1>5 DEF OutboxInv, ReceiptInv, AllProcessed, Of
<1>11. ASSUME NEW q \in Passes PROVE PassInv(q)'
  <2>1. Current(q)' = Current(q) /\ Current(q) \subseteq Rows
    BY <1>1, <1>7, CurrentFacts DEF Current
  <2> QED  BY <1>2, <1>5, <1>7, <2>1 DEF OutboxInv, PassInv
<1> QED
  BY <1>8, <1>9, <1>10, <1>11 DEF OutboxInv

\* What an answer changes of its row, and what it leaves alone.
LEMMA ClosedFacts ==
  ASSUME TypeOK, NEW p \in Passes, NEW r \in Rows
  PROVE  /\ Closed(p, r).lease = None /\ Closed(p, r).until = 0
         /\ Closed(p, r).required = row[r].required
         /\ Closed(p, r).attempts = row[r].attempts
         /\ Closed(p, r).processed <=> row[r].processed \/ pass[p].answer = "completed"
         /\ pass[p].answer = "completed" =>
              Closed(p, r).available = row[r].available /\ Closed(p, r).blocked = row[r].blocked
         /\ Closed(p, r).polls = IF pass[p].answer = "pending" THEN row[r].polls + 1 ELSE row[r].polls
<1> DEFINE unleased == [row[r] EXCEPT !.lease = None]
<1>1. row[r] \in OutboxRow
  BY DEF TypeOK
<1>2. Free(r) = [unleased EXCEPT !.until = 0]
  BY <1>1 DEF OutboxRow, Free
<1>3. /\ unleased \in OutboxRow /\ unleased.lease = None
      /\ unleased.required = row[r].required /\ unleased.attempts = row[r].attempts
      /\ unleased.processed = row[r].processed /\ unleased.available = row[r].available
      /\ unleased.polls = row[r].polls /\ unleased.blocked = row[r].blocked
  BY <1>1 DEF OutboxRow
<1> HIDE DEF unleased
<1>5. /\ Free(r).lease = None /\ Free(r).until = 0
      /\ Free(r).required = row[r].required /\ Free(r).attempts = row[r].attempts
      /\ Free(r).processed = row[r].processed /\ Free(r).available = row[r].available
      /\ Free(r).polls = row[r].polls /\ Free(r).blocked = row[r].blocked
      /\ Free(r) \in OutboxRow
  BY <1>2, <1>3, Instance DEF OutboxRow
<1>6. row[r].processed \in BOOLEAN
  BY <1>1 DEF OutboxRow
<1> HIDE DEF Free
<1>7. CASE pass[p].answer = "completed"
  <2>1. Closed(p, r) = [Free(r) EXCEPT !.processed = TRUE]
    BY <1>7 DEF Closed
  <2> QED  BY <1>5, <1>6, <1>7, <2>1 DEF OutboxRow
<1>8. CASE pass[p].answer = "pending"
  <2> DEFINE polled == [Free(r) EXCEPT !.polls = Free(r).polls + 1]
             dated == [polled EXCEPT !.available = Left(p, PendingRetry)]
  <2>1. Closed(p, r) = [Free(r) EXCEPT !.polls = @ + 1, !.available = Left(p, PendingRetry)]
    BY <1>8 DEF Closed
  <2>2. /\ dated.lease = None /\ dated.until = 0
        /\ dated.required = row[r].required /\ dated.attempts = row[r].attempts
        /\ dated.processed = row[r].processed /\ dated.polls = row[r].polls + 1
    BY <1>5 DEF OutboxRow
  <2>3. Closed(p, r) = dated
    BY <1>5, <2>1 DEF OutboxRow
  <2> HIDE DEF dated
  <2> QED  BY <1>8, <2>2, <2>3
<1>9. CASE pass[p].answer = "blocked"
  <2>1. Closed(p, r) = [Free(r) EXCEPT !.blocked = TRUE]
    BY <1>9 DEF Closed
  <2> QED  BY <1>5, <1>6, <1>9, <2>1 DEF OutboxRow
<1>10. CASE pass[p].answer \notin {"completed", "pending", "blocked"}
  <2>1. Closed(p, r) = [Free(r) EXCEPT !.available = Left(p, Backoff(r))]
    BY <1>10 DEF Closed
  <2> QED  BY <1>5, <1>6, <1>10, <2>1 DEF OutboxRow
<1> QED
  BY <1>7, <1>8, <1>9, <1>10

\* A pass that goes on keeps its age and nothing else.
LEMMA PassRewritten ==
  ASSUME NEW s \in PassState, NEW at, NEW todo, NEW done
  PROVE  [s EXCEPT !.at = at, !.todo = todo, !.answer = None, !.done = done]
           = [at |-> at, age |-> s.age, todo |-> todo, answer |-> None, done |-> done]
<1> DEFINE first == [s EXCEPT !.at = at]
           second == [first EXCEPT !.todo = todo]
           third == [second EXCEPT !.answer = None]
<1>1. first = [at |-> at, age |-> s.age, todo |-> s.todo, answer |-> s.answer, done |-> s.done]
  BY DEF PassState
<1>2. second = [at |-> at, age |-> s.age, todo |-> todo, answer |-> s.answer, done |-> s.done]
  <2> HIDE DEF first
  <2> QED  BY <1>1
<1>3. third = [at |-> at, age |-> s.age, todo |-> todo, answer |-> None, done |-> s.done]
  <2> HIDE DEF second
  <2> QED  BY <1>2
<1>4. [third EXCEPT !.done = done]
        = [at |-> at, age |-> s.age, todo |-> todo, answer |-> None, done |-> done]
  <2> HIDE DEF third
  <2> QED  BY <1>3
<1>5. [s EXCEPT !.at = at, !.todo = todo, !.answer = None, !.done = done] = [third EXCEPT !.done = done]
  OBVIOUS
<1> QED
  BY <1>4, <1>5

\* What the pass will publish and where it stands once the answer is recorded.
DoneAfter(p, r) == IF pass[p].answer = "completed" /\ StillMine(p, r)
                   THEN pass[p].done \cup {Operation[r]} ELSE pass[p].done

PassAfter(p, r) ==
  LET rest == pass[p].todo \ {r} IN
  IF rest = {} /\ DoneAfter(p, r) = {} THEN Idle
  ELSE [at |-> IF rest = {} THEN "publishes" ELSE "works", age |-> pass[p].age, todo |-> rest,
        answer |-> None, done |-> DoneAfter(p, r)]

LEMMA RecordEffect ==
  ASSUME TypeOK, NEW p \in Passes, Record(p)
  PROVE  \E r \in Current(p) :
           /\ row' = IF StillMine(p, r) THEN [row EXCEPT ![r] = Closed(p, r)] ELSE row
           /\ pass' = [pass EXCEPT ![p] = PassAfter(p, r)]
<1> DEFINE rest(r) == pass[p].todo \ {r}
           at(r) == IF rest(r) = {} THEN "publishes" ELSE "works"
           further(r) == [at |-> at(r), age |-> pass[p].age, todo |-> rest(r), answer |-> None,
                          done |-> DoneAfter(p, r)]
<1>1. PICK r \in Current(p) :
        /\ row' = IF StillMine(p, r) THEN [row EXCEPT ![r] = Closed(p, r)] ELSE row
        /\ pass' = [pass EXCEPT ![p] =
                      IF rest(r) = {} /\ DoneAfter(p, r) = {} THEN Idle
                      ELSE [pass[p] EXCEPT !.at = at(r), !.todo = rest(r), !.answer = None,
                                           !.done = DoneAfter(p, r)]]
  BY DEF Record, TypeOK, DoneAfter
<1>2. pass[p] \in PassState
  BY DEF TypeOK
<1>3. [pass[p] EXCEPT !.at = at(r), !.todo = rest(r), !.answer = None, !.done = DoneAfter(p, r)]
        = further(r)
  <2> HIDE DEF at, rest
  <2> QED  BY <1>2, PassRewritten, Zenon
<1>4. PassAfter(p, r) = IF rest(r) = {} /\ DoneAfter(p, r) = {} THEN Idle ELSE further(r)
  BY DEF PassAfter
<1> HIDE DEF further, at, rest
<1> QED
  BY <1>1, <1>3, <1>4

LEMMA PassAfterFacts ==
  ASSUME TypeOK, NEW p \in Passes, NEW r \in Rows
  PROVE  /\ PassAfter(p, r) \in PassState
         /\ PassAfter(p, r).at \in {"idle", "works", "publishes"}
         /\ PassAfter(p, r).at = "idle" => PassAfter(p, r).done = {}
         /\ PassAfter(p, r).done = DoneAfter(p, r)
<1>1. pass[p] \in PassState /\ Operation[r] \in Operations
  BY Instance DEF TypeOK
<1>2. DoneAfter(p, r) \in SUBSET Operations /\ pass[p].todo \ {r} \in SUBSET Rows
  BY <1>1 DEF DoneAfter, PassState
<1> QED
  BY <1>1, <1>2 DEF PassAfter, PassState, Idle

LEMMA RecordKeeps ==
  ASSUME OutboxInv, NEW p \in Passes, Record(p) PROVE OutboxInv'
<1>1. TypeOK /\ pass[p].at = "answered"
  BY DEF OutboxInv, Record
<1>2. PICK r \in Current(p) :
        /\ row' = IF StillMine(p, r) THEN [row EXCEPT ![r] = Closed(p, r)] ELSE row
        /\ pass' = [pass EXCEPT ![p] = PassAfter(p, r)]
  BY <1>1, RecordEffect
<1>3. UNCHANGED <<revision, decidedAt, receipt, snapshot, stopped>>
  BY DEF Record
<1>4. r \in Rows /\ pass[p] \in PassState /\ Operation[r] \in Operations
  BY <1>1, CurrentFacts, Instance DEF TypeOK
<1>5. pass' = [pass EXCEPT ![p] = PassAfter(p, r)]
  BY <1>2
<1>6. /\ PassAfter(p, r) \in PassState /\ PassAfter(p, r).at \in {"idle", "works", "publishes"}
      /\ PassAfter(p, r).at = "idle" => PassAfter(p, r).done = {}
  BY <1>1, <1>4, PassAfterFacts
<1>7. pass'[p] = PassAfter(p, r) /\ \A q \in Passes \ {p} : pass'[q] = pass[q]
  BY <1>1, <1>5 DEF TypeOK
<1>8. StillMine(p, r) =>
        /\ row[r].lease = p /\ ~row[r].processed /\ row[r].available = 0
        /\ receipt[Operation[r]] # None
        /\ row[r].required \in 0..MaxRevision /\ row[r].required >= decidedAt[Operation[r]]
        /\ decidedAt[Operation[r]] \in 0..MaxRevision
        /\ pass[p].answer = "pending" => row[r].polls < MaxPolls
        /\ pass[p].answer = "completed" /\ Target[r] = "balance" => snapshot >= row[r].required
  <2> SUFFICES ASSUME StillMine(p, r)
               PROVE  /\ row[r].lease = p /\ ~row[r].processed /\ row[r].available = 0
                      /\ receipt[Operation[r]] # None
                      /\ row[r].required \in 0..MaxRevision /\ row[r].required >= decidedAt[Operation[r]]
                      /\ decidedAt[Operation[r]] \in 0..MaxRevision
                      /\ pass[p].answer = "pending" => row[r].polls < MaxPolls
                      /\ pass[p].answer = "completed" /\ Target[r] = "balance" => snapshot >= row[r].required
    OBVIOUS
  <2>1. row[r].lease = p /\ ~row[r].processed /\ p # None
    BY Instance DEF StillMine
  <2>2. RowInv(r) /\ PassInv(p) /\ ReceiptInv(Operation[r])
    BY <1>4 DEF OutboxInv
  <2>3. row[r].required # None
    BY <1>1, <1>4, <2>1, <2>2 DEF PassInv
  <2>4. row[r].required \in 0..MaxRevision
    BY <1>1, <1>4, <2>3 DEF TypeOK, OutboxRow
  <2>5. decidedAt[Operation[r]] \in 0..MaxRevision
    BY <1>1, <1>4, <2>1, <2>2 DEF TypeOK, RowInv, ReceiptInv
  <2>6. PassInv(p)!3!2
    BY <1>1, <2>2 DEF PassInv
  <2> QED  BY <1>2, <2>1, <2>2, <2>3, <2>4, <2>5, <2>6 DEF RowInv
<1>9. StillMine(p, r) => Closed(p, r) \in OutboxRow
  BY <1>1, <1>4, <1>8, ClosedTyped
<1>10. ASSUME NEW s \in Rows
       PROVE  row'[s] = IF s = r /\ StillMine(p, r) THEN Closed(p, r) ELSE row[s]
  BY <1>1, <1>2, <1>4 DEF TypeOK
<1>11. TypeOK'
  <2>1. row' \in [Rows -> OutboxRow]
    <3>1. CASE StillMine(p, r)
      <4>1. row' = [row EXCEPT ![r] = Closed(p, r)]
        BY <1>2, <3>1
      <4> HIDE DEF StillMine
      <4> QED  BY <1>1, <1>9, <3>1, <4>1 DEF TypeOK
    <3>2. CASE ~StillMine(p, r)
      BY <1>1, <1>2, <3>2 DEF TypeOK
    <3> QED  BY <3>1, <3>2
  <2>2. pass' \in [Passes -> PassState]
    BY <1>1, <1>5, <1>6 DEF TypeOK
  <2> QED  BY <1>1, <1>3, <2>1, <2>2 DEF TypeOK
<1>12. ASSUME NEW s \in Rows PROVE RowInv(s)'
  <2>1. CASE s = r /\ StillMine(p, r)
    <3>1. row'[r] = Closed(p, r) /\ RowInv(r)
      BY <1>4, <1>10, <2>1 DEF OutboxInv
    <3>2. snapshot \in Nat /\ row[r].required \in Nat /\ decidedAt[Operation[r]] \in Nat
      BY <1>1, <1>8, <2>1, Instance DEF TypeOK
    <3>3. /\ row'[r].lease = None /\ row'[r].until = 0 /\ row'[r].required = row[r].required
          /\ row'[r].processed <=> pass[p].answer = "completed"
          /\ pass[p].answer = "completed" => row'[r].available = 0
      BY <1>1, <1>4, <1>8, <2>1, <3>1, ClosedFacts
    <3>4. row'[r].processed /\ Target[r] = "balance" => snapshot >= decidedAt[Operation[r]]
      BY <1>8, <2>1, <3>2, <3>3
    <3> QED  BY <1>3, <1>8, <2>1, <3>3, <3>4 DEF RowInv
  <2>2. CASE ~(s = r /\ StillMine(p, r))
    <3>1. row'[s] = row[s] /\ RowInv(s)
      BY <1>10, <2>2 DEF OutboxInv
    <3> QED  BY <1>3, <3>1 DEF RowInv
  <2> QED  BY <2>1, <2>2
<1>13. ASSUME NEW o \in Operations PROVE ReceiptInv(o)'
  <2>1. \A s \in Rows : row[s].processed => row'[s].processed
    BY <1>8, <1>10
  <2>2. ReceiptInv(o)
    BY DEF OutboxInv
  <2> QED  BY <1>3, <2>1, <2>2 DEF ReceiptInv, AllProcessed, Of
<1>14. ASSUME NEW q \in Passes PROVE PassInv(q)'
  <2>1. \A s \in Rows : row'[s].lease = q => row'[s] = row[s]
    <3>1. Closed(p, r).lease = None /\ q # None
      BY <1>1, <1>4, ClosedFacts, Instance
    <3> QED  BY <1>10, <3>1
  <2>2. PassInv(q)
    BY DEF OutboxInv
  <2>3. CASE q = p
    <3>1. \A s \in Rows : row[s].lease = p => row[s].required # None
      BY <1>1, <2>2, <2>3 DEF PassInv
    <3>2. \A s \in Rows : row'[s].lease = q => row'[s].required # None
      BY <2>1, <2>3, <3>1
    <3> QED  BY <1>6, <1>7, <2>3, <3>2 DEF PassInv
  <2>4. CASE q # p
    <3>1. pass'[q] = pass[q] /\ Current(q)' = Current(q) /\ Current(q) \subseteq Rows
      BY <1>1, <1>7, <2>4, CurrentFacts DEF Current
    <3> QED  BY <1>3, <2>1, <2>2, <3>1 DEF PassInv
  <2> QED  BY <2>3, <2>4
<1> QED
  BY <1>11, <1>12, <1>13, <1>14 DEF OutboxInv

LEMMA StutterKeeps == OutboxInv /\ UNCHANGED vars => OutboxInv'
  BY DEF OutboxInv, vars, TypeOK, RowInv, ReceiptInv, PassInv, Current, AllProcessed, Of

\* Every step of the outbox, of its environment and of time keeps the
\* invariant.
THEOREM OutboxStep == OutboxInv /\ [Next]_vars => OutboxInv'
<1> SUFFICES ASSUME OutboxInv, [Next]_vars PROVE OutboxInv'
  OBVIOUS
<1>1. ASSUME NEW o \in Operations, Commit(o) PROVE OutboxInv'
  BY <1>1, CommitKeeps
<1>2. CASE LedgerMoves
  BY <1>2, LedgerKeeps
<1>3. CASE SnapshotMoves
  BY <1>3, SnapshotKeeps
<1>4. ASSUME NEW r \in Rows, Unblock(r) PROVE OutboxInv'
  BY <1>4, UnblockKeeps
<1>5. ASSUME NEW p \in Passes, Pass(p) PROVE OutboxInv'
  BY <1>5, ClaimKeeps, StampKeeps, SelectKeeps, WorkKeeps, RecordKeeps, PublishKeeps DEF Pass
<1>6. ASSUME NEW p \in Passes, Stop(p) PROVE OutboxInv'
  BY <1>6, StopKeeps
<1>7. CASE AdvanceTime
  BY <1>7, TimeKeeps
<1>8. CASE UNCHANGED vars
  BY <1>8, StutterKeeps
<1> QED
  BY <1>1, <1>2, <1>3, <1>4, <1>5, <1>6, <1>7, <1>8 DEF Next

\* The stamps, the leases and the answers of overlapping passes stay in step in
\* every state of every behaviour.
THEOREM OutboxInvariant == Spec => []OutboxInv
  BY OutboxInit, OutboxStep, PTL DEF Spec

-----------------------------------------------------------------------------
(* What follows. *)

\* Every variable keeps its type: in particular a poll recorded on a row was
\* answered under the bound, even when another pass polled the row since.
THEOREM OutboxTyping == Spec => []TypeOK
<1>1. OutboxInv => TypeOK
  BY DEF OutboxInv
<1> QED
  BY <1>1, OutboxInvariant, PTL

\* A published receipt tells the truth: every row of its operation is done and
\* the READ snapshot carries the operation's own writes.
THEOREM PublishedTruth == Spec => []PublishedIsVisible
<1>1. OutboxInv => PublishedIsVisible
  BY DEF OutboxInv, RowInv, ReceiptInv, PublishedIsVisible, AllProcessed, Of
<1> QED
  BY <1>1, OutboxInvariant, PTL

-----------------------------------------------------------------------------
(* The budget of a row, from what each step may do to it. *)

SpentInv(r) ==
  /\ row[r].attempts - row[r].polls \in 0..MaxAttempts
  /\ row[r].lease # None => row[r].attempts - row[r].polls > 0
  /\ row[r].lease # None \/ row[r].processed => ~row[r].blocked

\* What a step leaves of a row's budget: nobody spends it, a claim spends one,
\* or an answer gives one back and ends the lease.
Untouched(r) == /\ row'[r].attempts = row[r].attempts /\ row'[r].polls = row[r].polls
                /\ row'[r].lease # None => row[r].lease # None
                /\ row'[r].processed = row[r].processed
                /\ row'[r].blocked => row[r].blocked

Taken(r) == /\ row'[r].attempts = row[r].attempts + 1 /\ row'[r].polls = row[r].polls
            /\ row'[r].blocked = row[r].blocked /\ row'[r].processed = row[r].processed
            /\ r \in Due

Answered(r) == /\ row[r].lease # None /\ row'[r].lease = None
               /\ row'[r].attempts = row[r].attempts
               /\ row'[r].polls \in {row[r].polls, row[r].polls + 1}
               /\ row'[r].processed => row'[r].blocked = row[r].blocked

LEMMA ClaimSpends ==
  ASSUME TypeOK, NEW p \in Passes, Claim(p), NEW r \in Rows
  PROVE  Untouched(r) \/ Taken(r)
<1> DEFINE leased == [row[r] EXCEPT !.lease = p]
           dated == [leased EXCEPT !.until = Lease]
           counted == [dated EXCEPT !.attempts = @ + 1]
<1>1. row[r] \in OutboxRow
  BY DEF TypeOK
<1>2. CASE r \in Claimed
  <2>1. row'[r] = [row[r] EXCEPT !.lease = p, !.until = Lease, !.attempts = @ + 1] /\ r \in Due
    BY <1>2 DEF Claim, Claimed
  <2>2. row'[r] = counted
    BY <1>1, <2>1 DEF OutboxRow
  <2>3. /\ counted.attempts = row[r].attempts + 1 /\ counted.polls = row[r].polls
        /\ counted.blocked = row[r].blocked /\ counted.processed = row[r].processed
    BY <1>1 DEF OutboxRow
  <2> HIDE DEF counted
  <2> QED  BY <2>1, <2>2, <2>3 DEF Taken
<1>3. CASE r \notin Claimed
  BY <1>3 DEF Claim, Untouched
<1> QED
  BY <1>2, <1>3

LEMMA RecordSpends ==
  ASSUME TypeOK, NEW p \in Passes, Record(p), NEW r \in Rows
  PROVE  Untouched(r) \/ Answered(r)
<1>1. PICK c \in Current(p) : row' = IF StillMine(p, c) THEN [row EXCEPT ![c] = Closed(p, c)] ELSE row
  BY DEF Record
<1>2. CASE r = c /\ StillMine(p, c)
  <2>1. row'[r] = Closed(p, r) /\ row[r].lease # None
    BY <1>1, <1>2, Instance DEF TypeOK, StillMine
  <2>2. /\ Closed(p, r).lease = None /\ Closed(p, r).attempts = row[r].attempts
        /\ Closed(p, r).polls \in {row[r].polls, row[r].polls + 1}
        /\ Closed(p, r).processed => Closed(p, r).blocked = row[r].blocked
    BY <1>2, ClosedFacts DEF StillMine
  <2> QED  BY <2>1, <2>2 DEF Answered
<1>3. CASE ~(r = c /\ StillMine(p, c))
  <2>1. row'[r] = row[r]
    BY <1>1, <1>3 DEF TypeOK
  <2> QED  BY <2>1 DEF Untouched
<1> QED
  BY <1>2, <1>3

LEMMA OthersSpendNothing ==
  ASSUME TypeOK, NEW r \in Rows,
         \/ UNCHANGED row
         \/ \E b \in Rows : Unblock(b)
         \/ \E p \in Passes : Stamp(p) \/ Stop(p)
         \/ AdvanceTime
  PROVE  Untouched(r)
<1>1. row[r] \in OutboxRow
  BY DEF TypeOK
<1>2. CASE UNCHANGED row
  BY <1>2 DEF Untouched
<1>3. ASSUME NEW b \in Rows, Unblock(b) PROVE Untouched(r)
  <2>1. row'[r] \in {row[r], [row[r] EXCEPT !.blocked = FALSE]}
    BY <1>3 DEF Unblock, TypeOK
  <2> QED  BY <1>1, <2>1 DEF OutboxRow, Untouched
<1>4. ASSUME NEW p \in Passes, Stamp(p) PROVE Untouched(r)
  <2>1. row'[r] \in {row[r], [row[r] EXCEPT !.required = revision]}
    BY <1>4 DEF Stamp
  <2> QED  BY <1>1, <2>1 DEF OutboxRow, Untouched
<1>5. ASSUME NEW p \in Passes, Stop(p) PROVE Untouched(r)
  <2>1. CASE row[r].lease = p
    <3>1. row'[r] = [row[r] EXCEPT !.lease = Lost] /\ row[r].lease # None
      BY <1>5, <2>1, Instance DEF Stop
    <3> QED  BY <1>1, <3>1 DEF OutboxRow, Untouched
  <2>2. CASE row[r].lease # p
    <3>1. row'[r] = row[r]
      BY <1>5, <2>2 DEF Stop
    <3> QED  BY <3>1 DEF Untouched
  <2> QED  BY <2>1, <2>2
<1>6. CASE AdvanceTime
  <2> DEFINE waited == [row[r] EXCEPT !.available = Down(@)]
  <2>1. row'[r] = [row[r] EXCEPT !.available = Down(@), !.until = Down(@)]
    BY <1>6 DEF AdvanceTime
  <2>2. row'[r] = [waited EXCEPT !.until = Down(@)]
    BY <1>1, <2>1 DEF OutboxRow
  <2> QED  BY <1>1, <2>2 DEF OutboxRow, Untouched
<1> QED
  BY <1>2, <1>3, <1>4, <1>5, <1>6

LEMMA RowSteps ==
  ASSUME TypeOK, [Next]_vars, NEW r \in Rows
  PROVE  Untouched(r) \/ Taken(r) \/ Answered(r)
<1>1. CASE UNCHANGED vars
  BY <1>1, OthersSpendNothing DEF vars
<1>2. CASE LedgerMoves \/ SnapshotMoves \/ \E o \in Operations : Commit(o)
  BY <1>2, OthersSpendNothing DEF LedgerMoves, SnapshotMoves, Commit
<1>3. CASE AdvanceTime \/ (\E b \in Rows : Unblock(b)) \/ \E p \in Passes : Stop(p)
  BY <1>3, OthersSpendNothing
<1>4. ASSUME NEW p \in Passes, Pass(p) PROVE Untouched(r) \/ Taken(r) \/ Answered(r)
  <2>1. CASE Claim(p)
    BY <2>1, ClaimSpends
  <2>2. CASE Record(p)
    BY <2>2, RecordSpends
  <2>3. CASE Stamp(p)
    BY <2>3, OthersSpendNothing
  <2>4. CASE Select(p) \/ Work(p) \/ \E o \in Operations : Publish(p, o)
    BY <2>4, OthersSpendNothing DEF Select, Work, Publish
  <2> QED  BY <1>4, <2>1, <2>2, <2>3, <2>4 DEF Pass
<1> QED
  BY <1>1, <1>2, <1>3, <1>4 DEF Next

LEMMA SpentInvariant == Spec => [](\A r \in Rows : SpentInv(r))
<1> DEFINE Spent == \A r \in Rows : SpentInv(r)
<1>1. Init => Spent
  BY Instance DEF Init, SpentInv
<1>2. Spent /\ TypeOK /\ TypeOK' /\ [Next]_vars => Spent'
  <2> SUFFICES ASSUME Spent, TypeOK, TypeOK', [Next]_vars, NEW r \in Rows PROVE SpentInv(r)'
    OBVIOUS
  <2>1. /\ row[r].attempts \in Nat /\ row[r].polls \in Nat
        /\ row'[r].attempts \in Nat /\ row'[r].polls \in Nat /\ MaxAttempts \in Nat
    BY Instance DEF TypeOK, OutboxRow
  <2>2. SpentInv(r)
    OBVIOUS
  <2> HIDE DEF Spent
  <2>3. CASE Untouched(r)
    BY <2>1, <2>2, <2>3 DEF Untouched, SpentInv
  <2>4. CASE Taken(r)
    BY <2>1, <2>2, <2>4 DEF Taken, SpentInv, Due, Exhausted
  <2>5. CASE Answered(r)
    BY <2>1, <2>2, <2>5 DEF Answered, SpentInv
  <2> QED  BY <2>3, <2>4, <2>5, RowSteps
<1> QED
  BY <1>1, <1>2, OutboxTyping, PTL DEF Spec

\* The failure budget of a row: what it has used is never negative and never
\* past the limit, however many leases run out and answers come late.
THEOREM BudgetKept == Spec => []BudgetHolds
<1>1. (\A r \in Rows : SpentInv(r)) => BudgetHolds
  BY DEF SpentInv, BudgetHolds
<1> QED
  BY <1>1, SpentInvariant, PTL

-----------------------------------------------------------------------------
(* A processed row has no lease, no delay and no block: no step finds anything *)
(* to change on it.                                                            *)

LEMMA ProcessedUntouched ==
  ASSUME OutboxInv, [Next]_vars, NEW r \in Rows, SpentInv(r), row[r].processed
  PROVE  row'[r] = row[r]
<1>1. TypeOK /\ row[r] \in OutboxRow
  BY DEF OutboxInv, TypeOK
<1>2. row[r].lease = None /\ row[r].available = 0 /\ row[r].until = 0 /\ ~row[r].blocked
  BY DEF OutboxInv, RowInv, SpentInv
<1>3. CASE UNCHANGED row
  BY <1>3
<1>4. ASSUME NEW b \in Rows, Unblock(b) PROVE row'[r] = row[r]
  <2>1. r # b
    BY <1>2, <1>4 DEF Unblock
  <2> QED  BY <1>1, <1>4, <2>1 DEF Unblock, TypeOK
<1>5. ASSUME NEW p \in Passes, Stop(p) PROVE row'[r] = row[r]
  BY <1>2, <1>5, Instance DEF Stop
<1>6. CASE AdvanceTime
  <2>1. row'[r] = [row[r] EXCEPT !.available = Down(@), !.until = Down(@)]
    BY <1>6 DEF AdvanceTime
  <2>2. Down(row[r].available) = row[r].available /\ Down(row[r].until) = row[r].until
    BY <1>2 DEF Down
  <2> QED  BY <1>1, <2>1, <2>2 DEF OutboxRow
<1>7. ASSUME NEW p \in Passes, Pass(p) PROVE row'[r] = row[r]
  <2>1. CASE Claim(p)
    <3>1. r \notin Claimed
      BY DEF Claimed, Due
    <3> QED  BY <2>1, <3>1 DEF Claim
  <2>2. CASE Stamp(p)
    BY <2>2 DEF Stamp, Holds
  <2>3. CASE Record(p)
    <3>1. PICK c \in Current(p) :
            row' = IF StillMine(p, c) THEN [row EXCEPT ![c] = Closed(p, c)] ELSE row
      BY <2>3 DEF Record
    <3>2. StillMine(p, c) => c # r
      BY DEF StillMine
    <3> QED  BY <1>1, <3>1, <3>2 DEF TypeOK
  <2>4. CASE Select(p) \/ Work(p) \/ \E o \in Operations : Publish(p, o)
    BY <2>4 DEF Select, Work, Publish
  <2> QED  BY <1>7, <2>1, <2>2, <2>3, <2>4 DEF Pass
<1>8. CASE LedgerMoves \/ SnapshotMoves \/ \E o \in Operations : Commit(o)
  BY <1>8 DEF LedgerMoves, SnapshotMoves, Commit
<1> QED
  BY <1>3, <1>4, <1>5, <1>6, <1>7, <1>8 DEF Next, vars

\* A row that was processed once is never written again: a late answer, a
\* second delivery or the operator's repair finds nothing to change.
THEOREM ProcessedStays == Spec => ClosedStays
<1>1. OutboxInv /\ (\A r \in Rows : SpentInv(r)) /\ [Next]_vars
        => [\A r \in Rows : row[r].processed => row'[r] = row[r]]_vars
  BY ProcessedUntouched
<1> QED
  BY <1>1, OutboxInvariant, SpentInvariant, PTL DEF Spec, ClosedStays

-----------------------------------------------------------------------------
(* The pass that closes the last row of an operation publishes it.         *)

PublisherInv(o) ==
  ~stopped /\ receipt[o] = "accepted" /\ AllProcessed(o) => \E p \in Passes : o \in pass[p].done

\* The steps that neither close a row nor end a pass keep what a pass will
\* publish.
LEMMA DoneKept ==
  ASSUME OutboxInv, NEW q \in Passes,
         \/ UNCHANGED pass
         \/ \E p \in Passes : Claim(p) \/ Stamp(p) \/ Select(p) \/ Work(p)
         \/ AdvanceTime
  PROVE  pass'[q].done = pass[q].done
<1>1. TypeOK /\ pass[q] \in PassState
  BY DEF OutboxInv, TypeOK
<1>2. CASE UNCHANGED pass
  BY <1>2
<1>3. ASSUME NEW p \in Passes, Claim(p) \/ Stamp(p) PROVE pass'[q].done = pass[q].done
  <2>1. PICK at : pass' = [pass EXCEPT ![p].at = at]
    BY <1>3 DEF Claim, Stamp
  <2> QED  BY <1>1, <2>1 DEF TypeOK, PassState
<1>4. ASSUME NEW p \in Passes, Select(p) PROVE pass'[q].done = pass[q].done
  <2>1. pass[p].done = {} /\ pass[p] \in PassState
    BY <1>1, <1>4 DEF OutboxInv, PassInv, Select, TypeOK
  <2> DEFINE working == [pass[p] EXCEPT !.at = "works", !.todo = Holds(p)]
  <2>2. working.done = pass[p].done
    BY <2>1 DEF PassState
  <2>3. pass' = [pass EXCEPT ![p] = Idle] \/ pass' = [pass EXCEPT ![p] = working]
    BY <1>1, <1>4 DEF Select, TypeOK
  <2> HIDE DEF working
  <2>4. pass'[q] \in {pass[q], working, Idle} /\ (q # p => pass'[q] = pass[q])
    BY <1>1, <2>3 DEF TypeOK
  <2>5. Idle.done = {}
    BY DEF Idle
  <2> QED  BY <2>1, <2>2, <2>4, <2>5
<1>5. ASSUME NEW p \in Passes, Work(p) PROVE pass'[q].done = pass[q].done
  <2>1. PICK answer \in Answers :
          pass' = [pass EXCEPT ![p].at = "answered", ![p].answer = answer]
    BY <1>5 DEF Work
  <2> DEFINE named == [pass[p] EXCEPT !.at = "answered"]
             given == [named EXCEPT !.answer = answer]
  <2>2. pass' = [pass EXCEPT ![p] = given]
    BY <1>1, <2>1 DEF TypeOK, PassState
  <2>3. given.done = pass[p].done
    BY <1>1 DEF TypeOK, PassState
  <2> HIDE DEF given
  <2> QED  BY <1>1, <2>2, <2>3 DEF TypeOK
<1>6. CASE AdvanceTime
  BY <1>1, <1>6 DEF AdvanceTime, PassState
<1> QED
  BY <1>2, <1>3, <1>4, <1>5, <1>6

\* A row closes only in a pass that then has its operation to publish.
LEMMA RecordPublishes ==
  ASSUME OutboxInv, NEW p \in Passes, Record(p), NEW o \in Operations,
         ~AllProcessed(o), AllProcessed(o)'
  PROVE  o \in pass'[p].done
<1>1. TypeOK /\ pass[p] \in PassState
  BY DEF OutboxInv, TypeOK
<1>2. PICK r \in Current(p) :
        /\ row' = IF StillMine(p, r) THEN [row EXCEPT ![r] = Closed(p, r)] ELSE row
        /\ pass' = [pass EXCEPT ![p] = PassAfter(p, r)]
  BY <1>1, RecordEffect
<1>3. PICK s \in Rows : Operation[s] = o /\ ~row[s].processed /\ row'[s].processed
  BY DEF AllProcessed, Of
<1>4. s = r /\ StillMine(p, r) /\ Closed(p, r).processed
  BY <1>1, <1>2, <1>3 DEF TypeOK
<1>5. pass[p].answer = "completed"
  BY <1>1, <1>3, <1>4, ClosedFacts
<1>6. pass'[p].done = DoneAfter(p, r)
  BY <1>1, <1>2, <1>3, <1>4, PassAfterFacts DEF TypeOK
<1> QED
  BY <1>3, <1>4, <1>5, <1>6 DEF DoneAfter

\* While no pass has stopped before its end, an operation whose rows are all
\* processed is published or still has a pass that will publish it, although
\* each pass only looks at the operations it completed a row of.
THEOREM ReceiptsFollow == Spec => []ReceiptHasAPublisher
<1> DEFINE Followed == \A o \in Operations : PublisherInv(o)
<1>1. Init => Followed
  BY Instance DEF Init, PublisherInv
<1>2. Followed /\ OutboxInv /\ [Next]_vars => Followed'
  <2> SUFFICES ASSUME Followed, OutboxInv, [Next]_vars, NEW o \in Operations,
                      ~stopped', receipt'[o] = "accepted", AllProcessed(o)'
               PROVE  \E p \in Passes : o \in pass'[p].done
    BY DEF PublisherInv
  <2>1. TypeOK /\ PublisherInv(o)
    BY DEF OutboxInv
  <2> HIDE DEF Followed
  <2>2. ~stopped
    BY DEF Next, vars, Commit, LedgerMoves, SnapshotMoves, Unblock, Pass, Claim, Stamp, Select,
           Work, Record, Publish, Stop, AdvanceTime
  <2>3. ASSUME receipt[o] = "accepted", AllProcessed(o),
               \A q \in Passes : pass'[q].done = pass[q].done
        PROVE  \E p \in Passes : o \in pass'[p].done
    BY <2>1, <2>2, <2>3 DEF PublisherInv
  <2>4. ASSUME \A r \in Rows : row'[r].processed = row[r].processed
        PROVE  AllProcessed(o)
    BY <2>4 DEF AllProcessed, Of
  <2>5. ASSUME NEW c \in Operations, Commit(c) PROVE \E p \in Passes : o \in pass'[p].done
    <3>1. AllProcessed(o) /\ pass' = pass
      BY <2>4, <2>5 DEF Commit
    <3>2. CASE c = o
      <4>1. PICK r \in Rows : Operation[r] = o
        BY Instance
      <4>2. row[r].processed /\ receipt[o] = None
        BY <2>5, <3>1, <3>2, <4>1 DEF AllProcessed, Of, Commit
      <4> QED  BY <4>1, <4>2 DEF OutboxInv, RowInv
    <3>3. CASE c # o
      <4>1. receipt[o] = "accepted"
        BY <2>1, <2>5, <3>3 DEF Commit, TypeOK
      <4> QED  BY <2>3, <3>1, <4>1
    <3> QED  BY <3>2, <3>3
  <2>6. CASE LedgerMoves \/ SnapshotMoves \/ UNCHANGED vars
    BY <2>3, <2>4, <2>6 DEF LedgerMoves, SnapshotMoves, vars
  <2>7. CASE AdvanceTime \/ (\E b \in Rows : Unblock(b))
             \/ \E p \in Passes : Claim(p) \/ Stamp(p) \/ Select(p) \/ Work(p)
    <3>1. receipt' = receipt
      BY <2>7 DEF AdvanceTime, Unblock, Claim, Stamp, Select, Work
    <3>2. \A q \in Passes : pass'[q].done = pass[q].done
      BY <2>7, DoneKept DEF Unblock
    <3>3. \A r \in Rows : row'[r].processed = row[r].processed
      BY <2>1, <2>7, ClaimSpends, OthersSpendNothing DEF Untouched, Taken, Select, Work
    <3> QED  BY <2>3, <2>4, <3>1, <3>2, <3>3
  <2>8. ASSUME NEW p \in Passes, Record(p) PROVE \E q \in Passes : o \in pass'[q].done
    <3>1. CASE AllProcessed(o)
      <4>1. PICK r \in Current(p) : pass' = [pass EXCEPT ![p] = PassAfter(p, r)]
        BY <2>1, <2>8, RecordEffect
      <4>2. r \in Rows
        BY <2>1, CurrentFacts
      <4>3. pass[p].done \subseteq PassAfter(p, r).done
        BY <2>1, <4>2, PassAfterFacts DEF DoneAfter
      <4>4. \A q \in Passes : pass[q].done \subseteq pass'[q].done
        BY <2>1, <4>1, <4>3 DEF TypeOK
      <4>5. receipt[o] = "accepted"
        BY <2>8 DEF Record
      <4> QED  BY <2>1, <2>2, <3>1, <4>4, <4>5 DEF PublisherInv
    <3>2. CASE ~AllProcessed(o)
      BY <2>8, <3>2, RecordPublishes
    <3> QED  BY <3>1, <3>2
  <2>9. ASSUME NEW p \in Passes, NEW d \in Operations, Publish(p, d)
        PROVE  \E q \in Passes : o \in pass'[q].done
    <3>1. AllProcessed(o)
      BY <2>4, <2>9 DEF Publish
    <3>2. d # o /\ receipt[o] = "accepted"
      BY <2>1, <2>9, <3>1 DEF Publish, TypeOK
    <3> DEFINE after == IF pass[p].done = {d} THEN Idle
                        ELSE [pass[p] EXCEPT !.done = pass[p].done \ {d}]
    <3>3. pass' = [pass EXCEPT ![p] = after]
      BY <2>9 DEF Publish
    <3>4. o \in pass[p].done => o \in after.done
      <4>1. [pass[p] EXCEPT !.done = pass[p].done \ {d}].done = pass[p].done \ {d}
        BY <2>1 DEF TypeOK, PassState
      <4> QED  BY <3>2, <4>1
    <3> HIDE DEF after
    <3>5. \A q \in Passes : o \in pass[q].done => o \in pass'[q].done
      BY <2>1, <3>3, <3>4 DEF TypeOK
    <3> QED  BY <2>1, <2>2, <3>1, <3>2, <3>5 DEF PublisherInv
  <2>10. \A p \in Passes : ~Stop(p)
    BY DEF Stop
  <2> QED
    BY <2>5, <2>6, <2>7, <2>8, <2>9, <2>10 DEF Next, Pass
<1>3. Followed => ReceiptHasAPublisher
  BY DEF PublisherInv, ReceiptHasAPublisher
<1> HIDE DEF Followed
<1> QED
  BY <1>1, <1>2, <1>3, OutboxInvariant, PTL DEF Spec
=============================================================================
