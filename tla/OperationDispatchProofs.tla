------------------------ MODULE OperationDispatchProofs ------------------------
(***************************************************************************)
(* Theorems of OperationDispatch, for any requests of the three kinds, any *)
(* number of passes that overlap, and every trail a run may show.          *)
(*                                                                         *)
(* The argument.  An execution moves one way: untouched, then declined, or *)
(* started, answered and tracked.  A start is claimed by one pass, which   *)
(* alone calls the collector and records its answer; from claim to call    *)
(* nobody gives the start up.  So what a pass has read about an execution, *)
(* however long ago, still says which part of that way is behind it        *)
(* (PassInv), and each request's status is one of those its execution      *)
(* allows (StatusInv).  A look at the trail that will publish carries a    *)
(* write for every stage that is not yet on record (the last part of       *)
(* PassInv), and no stage on record is ever taken back.                    *)
(***************************************************************************)
EXTENDS OperationDispatch, TLAPS

\* The execution was started, whatever came of it.
Begun == Results \cup {"started", "published", "unpublished"}

\* A collector was called for it and its run reported.
Reported == {"collected", "published", "unpublished"}

\* Imports have no execution; what nobody claimed was never called; only a
\* start grows old; the last stage is not this lane's to write.
RowInv ==
  \A op \in Ops :
    /\ op \in Import => row[op] = None
    /\ row[op] \in Untouched => calls[op] = 0
    /\ old[op] => row[op] \in Begun
    /\ stages[op]["projected"] = "pending"

\* The statuses an execution allows its request.
StatusInv ==
  \A op \in Collect \cup Refresh :
    /\ row[op] \in Untouched => status[op] = "accepted"
    /\ row[op] \in Declined => status[op] \in {"accepted", "blocked"}
    /\ row[op] = "started" => status[op] = "running"
    /\ row[op] = "refreshed" => status[op] = "completed"
    /\ row[op] \in {"failed", "uncertain", "unpublished"} => status[op] = "failed"
    /\ row[op] \in {"collected", "published"} => status[op] \in {"running", "failed"}
    /\ row[op] = "collected" /\ status[op] = "failed" => old[op]

\* A completed verdict among the writes that are left, for a stage not on record.
Covered(p) ==
  \A i \in 1..3 : \/ stages[p.op][Ladder[i]] = "completed"
                  \/ \E k \in 1..Len(p.writes) : /\ p.writes[k].stage = Ladder[i]
                                                 /\ p.writes[k].state = "completed"

\* What still holds of a pass at place p, whatever the others did since it read.
Holds(p) ==
  /\ p.at \in {"decide", "inStep", "calling", "called", "persist", "read", "sync"}
       => p.op \in Collect \cup Refresh
  /\ p.at = "inStep" /\ p.as = "failed" => row[p.op] \in Declined
  /\ p.at = "declined" /\ p.op \notin Import => row[p.op] \in Declined
  /\ p.at = "calling" => row[p.op] = "started" /\ calls[p.op] = 0 /\ ~old[p.op]
  /\ p.at = "called" => row[p.op] \in {"started", "uncertain"}
  /\ p.at \in {"read", "sync"} => row[p.op] \in Reported
  /\ p.at = "sync" => /\ \A k \in 1..Len(p.writes) : p.writes[k].stage # "projected"
                      /\ p.ends = "published" => Covered(p)

\* A start has one caller; the list of old starts is still one of begun ones.
PassInv ==
  /\ \A t \in Ticks : Holds(pc[t])
  /\ \A t, u \in Ticks :
       /\ pc[t].at \in {"calling", "called"} /\ pc[u].at \in {"calling", "called"}
       /\ pc[t].op = pc[u].op
       => t = u
  /\ \A t \in Ticks : pc[t] = At("abandon") => \A op \in todo[t] : old[op]

DispatchInv == TypeOK /\ RowInv /\ StatusInv /\ PassInv /\ PublishedHasEvidence

-----------------------------------------------------------------------------
(* Places and the services. *)

WithOp == {"look", "decide", "requeue", "declined", "calling", "called", "persist", "registered"}

Writes == Seq([stage : Stages, state : {"completed", "blocked"}])

\* What a pass's place says of the rest of it.
LEMMA PlaceIs ==
  ASSUME NEW p \in Places
  PROVE  /\ p.at \in WithOp \cup {"idle", "next", "abandon", "track", "inStep", "read", "sync"}
         /\ p.at \in WithOp \cup {"inStep", "read", "sync"} => p.op \in Ops
         /\ p.at = "inStep" => p.as \in {"failed", "dispatched"}
         /\ p.at = "read" => p.trail \in Trails /\ p.late \in BOOLEAN
         /\ p.at = "sync" => /\ p.writes \in Writes
                             /\ p.ends \in {"published", "unpublished", "collected"}
                             /\ p = [at |-> "sync", op |-> p.op, writes |-> p.writes, ends |-> p.ends]
BY DEF Places, WithOp, Writes

\* The places a step may move to.
LEMMA PlacesAre ==
  /\ \A place \in {"idle", "next", "abandon", "track"} : At(place) \in Places
  /\ \A place \in WithOp, op \in Ops : On(place, op) \in Places
  /\ \A op \in Ops, as \in {"failed", "dispatched"} :
       [at |-> "inStep", op |-> op, as |-> as] \in Places
  /\ \A op \in Ops, run \in Trails, late \in BOOLEAN :
       [at |-> "read", op |-> op, trail |-> run, late |-> late] \in Places
  /\ \A op \in Ops, w \in Writes, e \in {"published", "unpublished", "collected"} :
       [at |-> "sync", op |-> op, writes |-> w, ends |-> e] \in Places
BY DEF Places, WithOp, Writes, At, On

RequestTypes == /\ status \in [Ops -> Over \cup {"accepted", "running"}]
                /\ dispatch \in [Ops -> {"dispatch_pending", "dispatched", "dispatch_failed"}]
                /\ available \in [Ops -> BOOLEAN]

\* The guarded UPDATE of a request: it never ends one that is over, and blocks
\* one only on "failed".
LEMMA RecordDispatchIs ==
  ASSUME RequestTypes, NEW op \in Ops, NEW outcome \in {"dispatched", "retry", "failed"},
         RecordDispatch(op, outcome)
  PROVE  /\ RequestTypes'
         /\ outcome # "failed" => status' = status
         /\ \A o \in Ops : status'[o] # status[o] => /\ o = op /\ outcome = "failed"
                                                     /\ status[o] \notin Over
                                                     /\ status'[o] = "blocked"
<1>1. CASE status[op] \in Over
  BY <1>1 DEF RecordDispatch, RequestTypes, request
<1>2. CASE status[op] \notin Over
  <2>1. /\ dispatch' = [dispatch EXCEPT ![op] =
              CASE outcome = "dispatched" -> "dispatched"
                [] outcome = "retry" -> "dispatch_pending"
                [] OTHER -> "dispatch_failed"]
        /\ available' = [available EXCEPT ![op] = outcome # "retry"]
        /\ status' = [status EXCEPT ![op] = IF outcome = "failed" THEN "blocked" ELSE @]
    BY <1>2 DEF RecordDispatch
  <2>2. dispatch' \in [Ops -> {"dispatch_pending", "dispatched", "dispatch_failed"}]
    BY <2>1 DEF RequestTypes
  <2>3. available' \in [Ops -> BOOLEAN]
    BY <2>1 DEF RequestTypes
  <2>4. status' \in [Ops -> Over \cup {"accepted", "running"}]
    BY <2>1 DEF RequestTypes, Over
  <2> QED  BY <1>2, <2>1, <2>2, <2>3, <2>4 DEF RequestTypes
<1> QED
  BY <1>1, <1>2

LEMMA FailRequestIs ==
  ASSUME RequestTypes, NEW op \in Ops, FailRequest(op)
  PROVE  /\ RequestTypes'
         /\ status'[op] \in Over
         /\ \A o \in Ops : status'[o] # status[o] => /\ o = op /\ status[o] \notin Over
                                                     /\ status'[o] = "failed"
BY DEF RequestTypes, FailRequest, Over

\* A stage on record: nothing else moves, and while the last stage is pending
\* no request is completed by one.
LEMMA RecordStageIs ==
  ASSUME TypeOK, NEW op \in Ops, NEW stage \in Stages, NEW state \in {"pending", "completed", "blocked"},
         RecordStage(op, stage, state)
  PROVE  /\ RequestTypes'
         /\ stages' \in [Ops -> [Stages -> {"pending", "completed", "blocked"}]]
         /\ stages' = [stages EXCEPT ![op][stage] = state]
         /\ \A o \in Ops : status'[o] # status[o] => o = op /\ status[o] \notin Over
         /\ stages[op]["projected"] = "pending" /\ stage # "projected" => status' = status
<1>1. stages' \in [Ops -> [Stages -> {"pending", "completed", "blocked"}]]
  BY DEF TypeOK, RecordStage
<1>2. /\ status' = [status EXCEPT ![op] =
             IF @ \notin Over /\ Required(op) # {}
                /\ \A s \in Required(op) : stages'[op][s] = "completed"
             THEN "completed" ELSE @]
      /\ UNCHANGED <<dispatch, available>>
  BY DEF RecordStage
<1>3. RequestTypes'
  BY <1>2 DEF RequestTypes, TypeOK, Over
<1>4. ASSUME stages[op]["projected"] = "pending", stage # "projected"
      PROVE  status' = status
  <2>1. stages'[op]["projected"] = "pending"
    BY <1>4 DEF TypeOK, RecordStage, Stages
  <2>2. Required(op) = {} \/ "projected" \in Required(op)
    BY DEF Required, Stages
  <2>3. status' = [status EXCEPT ![op] = status[op]]
    BY <1>2, <2>1, <2>2
  <2> QED  BY <2>3 DEF TypeOK
<1> QED
  BY <1>1, <1>2, <1>3, <1>4 DEF RecordStage, TypeOK

-----------------------------------------------------------------------------
(* Types. *)

LEMMA Moved ==
  ASSUME pc \in [Ticks -> Places], NEW t \in Ticks, NEW p, MoveTo(t, p)
  PROVE  pc'[t] = p /\ \A u \in Ticks \ {t} : pc'[u] = pc[u]
BY DEF MoveTo

LEMMA Quits ==
  ASSUME pc \in [Ticks -> Places], todo \in [Ticks -> SUBSET Ops], NEW t \in Ticks, Quit(t)
  PROVE  /\ pc' \in [Ticks -> Places] /\ todo' \in [Ticks -> SUBSET Ops]
         /\ pc'[t] = Idle /\ \A u \in Ticks \ {t} : pc'[u] = pc[u] /\ todo'[u] = todo[u]
BY PlacesAre DEF Quit, Idle, At

LEMMA VerdictIs ==
  ASSUME NEW run \in Trails, NEW late \in BOOLEAN, NEW i \in 1..3
  PROVE  SyncVerdict(run, late, i) \in {"pending", "completed", "blocked"}
<1>1. Ladder[i] \in {"registered", "parsed", "adopted"}
  BY DEF Ladder
<1>2. Verdict(run, Ladder[i]) \in {"pending", "completed", "blocked"}
  BY <1>1, ZenonT(30) DEF Verdict, Trails, Settled
<1> QED
  BY <1>2 DEF SyncVerdict

LEMMA LadderIs ==
  /\ \A i \in 1..3 : Ladder[i] \in Stages /\ Ladder[i] # "projected"
  /\ Ladder[1] = "registered" /\ Ladder[2] = "parsed" /\ Ladder[3] = "adopted"
BY DEF Ladder, Stages

\* What a look at the trail will write, in the ladder's order.
LEMMA WritesAre ==
  ASSUME TypeOK, NEW t \in Ticks, SyncReads(t)
  PROVE  \E w \in Writes :
           /\ pc'[t] = [at |-> "sync", op |-> pc[t].op, writes |-> w,
                        ends |-> Conclusion(pc[t].trail, pc[t].late)]
           /\ \A u \in Ticks \ {t} : pc'[u] = pc[u]
           /\ pc' \in [Ticks -> Places]
           /\ \A k \in 1..Len(w) : w[k].stage # "projected"
           /\ pc[t].trail = "published" =>
                \A i \in 1..3 : \/ stages[pc[t].op][Ladder[i]] = "completed"
                                \/ \E k \in 1..Len(w) : /\ w[k].stage = Ladder[i]
                                                        /\ w[k].state = "completed"
<1> DEFINE p == pc[t]
           stored(i) == stages[p.op][Ladder[i]]
           verdict(i) == SyncVerdict(p.trail, p.late, i)
           news(again, i) == /\ stored(i) # "completed" /\ verdict(i) # "pending"
                             /\ verdict(i) = stored(i) => again
           write(again, i) == IF news(again, i) THEN <<[stage |-> Ladder[i], state |-> verdict(i)]>>
                              ELSE <<>>
           w(again) == write(again, 1) \o write(again, 2) \o write(again, 3)
<1>1. /\ p \in Places /\ p.at = "read" /\ p.op \in Ops /\ p.trail \in Trails /\ p.late \in BOOLEAN
      /\ pc \in [Ticks -> Places]
  BY PlaceIs DEF TypeOK, SyncReads
<1>2. PICK again \in BOOLEAN :
        MoveTo(t, [at |-> "sync", op |-> p.op, writes |-> w(again),
                   ends |-> Conclusion(p.trail, p.late)])
  BY DEF SyncReads
<1>3. \A i \in 1..3 : verdict(i) \in {"pending", "completed", "blocked"}
  BY <1>1, VerdictIs
<1>4. \A i \in 1..3 : p.trail = "published" => verdict(i) = "completed"
  BY DEF SyncVerdict, Settled, Verdict
<1> HIDE DEF p, stored, verdict
<1>5. \A i \in 1..3 : /\ write(again, i) \in Writes /\ Len(write(again, i)) \in {0, 1}
                      /\ news(again, i) => /\ Len(write(again, i)) = 1
                                           /\ write(again, i)[1].stage = Ladder[i]
                                           /\ write(again, i)[1].state = verdict(i)
                      /\ Len(write(again, i)) = 1 => write(again, i)[1].stage = Ladder[i]
  <2> SUFFICES ASSUME NEW i \in 1..3
               PROVE  /\ write(again, i) \in Writes /\ Len(write(again, i)) \in {0, 1}
                      /\ news(again, i) => /\ Len(write(again, i)) = 1
                                           /\ write(again, i)[1].stage = Ladder[i]
                                           /\ write(again, i)[1].state = verdict(i)
                      /\ Len(write(again, i)) = 1 => write(again, i)[1].stage = Ladder[i]
    OBVIOUS
  <2>1. CASE news(again, i)
    <3>1. verdict(i) \in {"completed", "blocked"} /\ Ladder[i] \in Stages
      BY <1>3, <2>1, LadderIs
    <3>2. write(again, i) = <<[stage |-> Ladder[i], state |-> verdict(i)]>>
      BY <2>1
    <3> HIDE DEF write, news
    <3>3. [stage |-> Ladder[i], state |-> verdict(i)] \in [stage : Stages, state : {"completed", "blocked"}]
      BY <3>1
    <3>4. /\ write(again, i) \in Writes /\ Len(write(again, i)) = 1
          /\ write(again, i)[1] = [stage |-> Ladder[i], state |-> verdict(i)]
      BY <3>2, <3>3 DEF Writes
    <3> QED  BY <3>4
  <2>2. CASE ~news(again, i)
    <3>1. write(again, i) = <<>>
      BY <2>2
    <3> QED  BY <2>2, <3>1 DEF Writes
  <2> QED  BY <2>1, <2>2
<1>6. /\ w(again) \in Writes
      /\ Len(w(again)) = Len(write(again, 1)) + Len(write(again, 2)) + Len(write(again, 3))
      /\ Len(write(again, 1)) = 1 => w(again)[1] = write(again, 1)[1]
      /\ Len(write(again, 2)) = 1 => w(again)[Len(write(again, 1)) + 1] = write(again, 2)[1]
      /\ Len(write(again, 3)) = 1 =>
           w(again)[Len(write(again, 1)) + Len(write(again, 2)) + 1] = write(again, 3)[1]
  <2> DEFINE a == write(again, 1)  b == write(again, 2)  c == write(again, 3)
  <2>1. a \in Writes /\ b \in Writes /\ c \in Writes /\ Len(a) \in {0, 1} /\ Len(b) \in {0, 1}
        /\ Len(c) \in {0, 1} /\ w(again) = a \o b \o c
    BY <1>5
  <2> HIDE DEF a, b, c, w
  <2>2. a \o b \in Writes /\ Len(a \o b) = Len(a) + Len(b)
        /\ (Len(a) = 1 => (a \o b)[1] = a[1]) /\ (Len(b) = 1 => (a \o b)[Len(a) + 1] = b[1])
    BY <2>1 DEF Writes
  <2>3. (a \o b) \o c \in Writes /\ Len((a \o b) \o c) = Len(a \o b) + Len(c)
        /\ (\A k \in 1..Len(a \o b) : ((a \o b) \o c)[k] = (a \o b)[k])
        /\ (Len(c) = 1 => ((a \o b) \o c)[Len(a \o b) + 1] = c[1])
    BY <2>1, <2>2 DEF Writes
  <2>4. (Len(a) = 1 => 1 \in 1..Len(a \o b)) /\ (Len(b) = 1 => Len(a) + 1 \in 1..Len(a \o b))
    BY <2>1, <2>2
  <2>5. /\ w(again) \in Writes /\ Len(w(again)) = Len(a) + Len(b) + Len(c)
        /\ Len(a) = 1 => w(again)[1] = a[1]
        /\ Len(b) = 1 => w(again)[Len(a) + 1] = b[1]
        /\ Len(c) = 1 => w(again)[Len(a) + Len(b) + 1] = c[1]
    BY <2>1, <2>2, <2>3, <2>4
  <2> QED  BY <2>5 DEF a, b, c
<1>7. \A i \in 1..3 : news(again, i) =>
        \E k \in 1..Len(w(again)) : w(again)[k].stage = Ladder[i] /\ w(again)[k].state = verdict(i)
  <2>1. news(again, 1) => 1 \in 1..Len(w(again)) /\ w(again)[1] = write(again, 1)[1]
    BY <1>5, <1>6
  <2>2. news(again, 2) => /\ Len(write(again, 1)) + 1 \in 1..Len(w(again))
                          /\ w(again)[Len(write(again, 1)) + 1] = write(again, 2)[1]
    BY <1>5, <1>6
  <2>3. news(again, 3) =>
          /\ Len(write(again, 1)) + Len(write(again, 2)) + 1 \in 1..Len(w(again))
          /\ w(again)[Len(write(again, 1)) + Len(write(again, 2)) + 1] = write(again, 3)[1]
    BY <1>5, <1>6
  <2> HIDE DEF w, write, news
  <2>4. \A i \in 1..3 : news(again, i) => /\ write(again, i)[1].stage = Ladder[i]
                                          /\ write(again, i)[1].state = verdict(i)
    BY <1>5
  <2>5. ASSUME news(again, 1)
        PROVE  \E k \in 1..Len(w(again)) : w(again)[k].stage = Ladder[1] /\ w(again)[k].state = verdict(1)
    BY <2>1, <2>4, <2>5
  <2>6. ASSUME news(again, 2)
        PROVE  \E k \in 1..Len(w(again)) : w(again)[k].stage = Ladder[2] /\ w(again)[k].state = verdict(2)
    BY <2>2, <2>4, <2>6
  <2>7. ASSUME news(again, 3)
        PROVE  \E k \in 1..Len(w(again)) : w(again)[k].stage = Ladder[3] /\ w(again)[k].state = verdict(3)
    BY <2>3, <2>4, <2>7
  <2> QED  BY <2>5, <2>6, <2>7
<1>8. \A k \in 1..Len(w(again)) : w(again)[k].stage # "projected"
  <2>1. \A k \in 1..Len(w(again)) :
          \/ Len(write(again, 1)) = 1 /\ k = 1
          \/ Len(write(again, 2)) = 1 /\ k = Len(write(again, 1)) + 1
          \/ Len(write(again, 3)) = 1 /\ k = Len(write(again, 1)) + Len(write(again, 2)) + 1
    BY <1>5, <1>6
  <2> HIDE DEF w, write, news
  <2>2. \A k \in 1..Len(w(again)) : \E i \in 1..3 : w(again)[k].stage = Ladder[i]
    BY <1>5, <1>6, <2>1
  <2> QED  BY <2>2, LadderIs
<1>9. p.trail = "published" =>
        \A i \in 1..3 : \/ stored(i) = "completed"
                        \/ \E k \in 1..Len(w(again)) : /\ w(again)[k].stage = Ladder[i]
                                                       /\ w(again)[k].state = "completed"
  <2> SUFFICES ASSUME p.trail = "published", NEW i \in 1..3, stored(i) # "completed"
               PROVE  \E k \in 1..Len(w(again)) : /\ w(again)[k].stage = Ladder[i]
                                                  /\ w(again)[k].state = "completed"
    OBVIOUS
  <2>1. news(again, i) /\ verdict(i) = "completed"
    BY <1>4
  <2> HIDE DEF w, write, news
  <2> QED  BY <1>7, <2>1
<1>10. Conclusion(p.trail, p.late) \in {"published", "unpublished", "collected"}
  BY ZenonT(30) DEF Conclusion
<1> HIDE DEF w
<1>11. [at |-> "sync", op |-> p.op, writes |-> w(again), ends |-> Conclusion(p.trail, p.late)] \in Places
  BY <1>1, <1>6, <1>10, PlacesAre
<1>12. /\ pc' \in [Ticks -> Places] /\ \A u \in Ticks \ {t} : pc'[u] = pc[u]
       /\ pc'[t] = [at |-> "sync", op |-> p.op, writes |-> w(again),
                    ends |-> Conclusion(p.trail, p.late)]
  BY <1>1, <1>2, <1>11 DEF MoveTo
<1>13. w(again) \in Writes
  BY <1>6
<1> QED
  BY <1>8, <1>9, <1>12, <1>13 DEF p, stored

-----------------------------------------------------------------------------
(* What the others' steps leave of a place. *)

\* Request o's execution and stages keep what a pass may have read of them.
Keeps(o) ==
  /\ row[o] \in Declined => row'[o] = row[o]
  /\ row[o] \in Reported => row'[o] \in Reported
  /\ \A s \in Stages : stages[o][s] = "completed" => stages'[o][s] = "completed"

LEMMA CoveredKeeps ==
  ASSUME NEW q \in Places, q.at = "sync", Keeps(q.op), Covered(q)
  PROVE  Covered(q)'
<1>1. \A i \in 1..3 : stages[q.op][Ladder[i]] = "completed" => stages'[q.op][Ladder[i]] = "completed"
  BY LadderIs DEF Keeps
<1>2. Covered(q)' <=> \A i \in 1..3 : \/ stages'[q.op][Ladder[i]] = "completed"
                                      \/ \E k \in 1..Len(q.writes) : /\ q.writes[k].stage = Ladder[i]
                                                                     /\ q.writes[k].state = "completed"
  BY DEF Covered
<1> QED
  BY <1>1, <1>2 DEF Covered

LEMMA HoldsKeeps ==
  ASSUME NEW q \in Places, Holds(q), \A o \in Ops : Keeps(o),
         q.at = "calling" => row'[q.op] = row[q.op] /\ calls'[q.op] = calls[q.op] /\ old'[q.op] = old[q.op],
         q.at = "called" => row'[q.op] \in {row[q.op], "uncertain"}
  PROVE  Holds(q)'
<1>1. q.at \in {"inStep", "declined", "calling", "called", "read", "sync"} => q.op \in Ops /\ Keeps(q.op)
  BY PlaceIs DEF WithOp
<1>2. q.at = "sync" /\ Covered(q) => Covered(q)'
  BY <1>1, CoveredKeeps
<1> HIDE DEF Covered
<1> QED
  BY <1>1, <1>2 DEF Holds, Keeps, Reported

\* A step of one pass, as far as the passes' places are concerned.
LEMMA PassStep ==
  ASSUME PassInv, pc \in [Ticks -> Places], NEW t \in Ticks, NEW p \in Places,
         pc' \in [Ticks -> Places], pc'[t] = p,
         \A u \in Ticks \ {t} : pc'[u] = pc[u] /\ todo'[u] = todo[u],
         \A o \in Ops : Keeps(o), old' = old,
         \A u \in Ticks \ {t} :
           /\ pc[u].at = "calling" => row'[pc[u].op] = row[pc[u].op] /\ calls'[pc[u].op] = calls[pc[u].op]
           /\ pc[u].at = "called" => row'[pc[u].op] \in {row[pc[u].op], "uncertain"}
           /\ pc[u].at \in {"calling", "called"} /\ p.at \in {"calling", "called"} => pc[u].op # p.op,
         Holds(p)',
         p = At("abandon") => \A op \in todo'[t] : old[op]
  PROVE  PassInv'
<1>1. \A u \in Ticks : Holds(pc[u])'
  <2> SUFFICES ASSUME NEW u \in Ticks PROVE Holds(pc[u])'
    OBVIOUS
  <2>1. CASE u = t
    BY <2>1 DEF Holds, Covered
  <2>2. CASE u # t
    <3>1. PICK q \in Places : q = pc[u]
      OBVIOUS
    <3>2. Holds(q)
      BY <3>1 DEF PassInv, Holds, Covered
    <3>3. Holds(q)'
      BY <2>2, <3>1, <3>2, HoldsKeeps
    <3>4. pc'[u] = q
      BY <2>2, <3>1
    <3> QED  BY <3>3, <3>4 DEF Holds, Covered
  <2> QED  BY <2>1, <2>2
<1>2. \A u, v \in Ticks :
        /\ pc'[u].at \in {"calling", "called"} /\ pc'[v].at \in {"calling", "called"}
        /\ pc'[u].op = pc'[v].op
        => u = v
  BY DEF PassInv
<1>3. \A u \in Ticks : pc'[u] = At("abandon") => \A op \in todo'[u] : old'[op]
  BY DEF PassInv
<1> QED
  BY <1>1, <1>2, <1>3 DEF PassInv, At

\* Steps that read, or only move their pass.
LEMMA OnlyMoves ==
  ASSUME DispatchInv, NEW t \in Ticks, NEW p \in Places,
         pc' \in [Ticks -> Places], pc'[t] = p,
         \A u \in Ticks \ {t} : pc'[u] = pc[u] /\ todo'[u] = todo[u],
         todo' \in [Ticks -> SUBSET Ops], startsLeft' \in [Ticks -> 0..1],
         UNCHANGED <<request, stages, row, trail, calls, outside>>,
         p.at \notin {"calling", "called"}, Holds(p),
         p = At("abandon") => \A op \in todo'[t] : old[op]
  PROVE  DispatchInv'
<1>1. TypeOK'
  BY DEF DispatchInv, TypeOK, request, outside
<1>2. RowInv' /\ StatusInv' /\ PublishedHasEvidence'
  BY DEF DispatchInv, RowInv, StatusInv, PublishedHasEvidence, request, outside
<1>3. Holds(p)' /\ (\A o \in Ops : Keeps(o)) /\ old' = old /\ row' = row /\ calls' = calls
  BY DEF Holds, Covered, Keeps, request, outside
<1>4. PassInv'
  BY <1>3, PassStep DEF DispatchInv, TypeOK
<1> QED
  BY <1>1, <1>2, <1>4 DEF DispatchInv

-----------------------------------------------------------------------------
(* The steps of a pass. *)

\* The steps that write nothing.
ReadsOnly(t) ==
  \/ TickReads(t) \/ TickTakes(t) \/ AbandonReads(t) \/ Looks(t) \/ ImportRetries(t)
  \/ DueReads(t) \/ TrackReads(t) \/ TrackEnds(t) \/ SyncReads(t) \/ Stops(t)

LEMMA QuietStep ==
  ASSUME DispatchInv, NEW t \in Ticks, ReadsOnly(t)
  PROVE  DispatchInv'
<1>1. /\ TypeOK /\ pc \in [Ticks -> Places] /\ todo \in [Ticks -> SUBSET Ops] /\ pc[t] \in Places
      /\ startsLeft \in [Ticks -> 0..1] /\ asked \subseteq Ops /\ Holds(pc[t])
  BY Requests DEF DispatchInv, TypeOK, PassInv
<1>2. CASE TickReads(t) \/ AbandonReads(t) \/ DueReads(t)
  <2>1. PICK p \in Places : /\ pc'[t] = p /\ \A u \in Ticks \ {t} : pc'[u] = pc[u]
                            /\ p \in {At("next"), At("abandon"), At("track")}
    BY <1>1, <1>2, PlacesAre DEF TickReads, AbandonReads, DueReads, MoveTo
  <2>2. pc' \in [Ticks -> Places] /\ todo' \in [Ticks -> SUBSET Ops] /\ startsLeft' \in [Ticks -> 0..1]
    BY <1>1, <1>2, PlacesAre DEF TickReads, AbandonReads, DueReads, MoveTo, Rest
  <2>3. /\ UNCHANGED <<request, stages, row, trail, calls, outside>>
        /\ \A u \in Ticks \ {t} : todo'[u] = todo[u]
    BY <1>1, <1>2 DEF TickReads, AbandonReads, DueReads, Rest, outside
  <2>4. Holds(p) /\ p.at \notin {"calling", "called"}
    BY <2>1 DEF Holds, At
  <2>5. p = At("abandon") => \A op \in todo'[t] : old[op]
    <3>1. At("abandon") # At("next") /\ At("abandon") # At("track")
      BY DEF At
    <3> QED  BY <1>1, <1>2, <2>1, <3>1 DEF TickReads, AbandonReads, DueReads, MoveTo
  <2> QED  BY <2>1, <2>2, <2>3, <2>4, <2>5, OnlyMoves
<1>3. CASE TickTakes(t) \/ ImportRetries(t) \/ Looks(t)
  <2>1. PICK p \in Places : /\ pc'[t] = p /\ \A u \in Ticks \ {t} : pc'[u] = pc[u]
                            /\ Holds(p) /\ p.at \in {"look", "requeue", "decide", "inStep"}
                            /\ pc' \in [Ticks -> Places]
    <3>1. CASE TickTakes(t)
      <4>1. PICK op \in Ops : MoveTo(t, On("look", op))
        BY <1>1, <3>1 DEF TickTakes
      <4>2. On("look", op) \in Places /\ Holds(On("look", op)) /\ On("look", op).at = "look"
        BY PlacesAre DEF Holds, On, WithOp
      <4> QED  BY <1>1, <4>1, <4>2 DEF MoveTo
    <3>2. CASE ImportRetries(t)
      <4>1. PICK op \in Import : MoveTo(t, On("requeue", op))
        BY <1>1, <3>2 DEF ImportRetries
      <4>2. On("requeue", op) \in Places /\ Holds(On("requeue", op)) /\ On("requeue", op).at = "requeue"
        BY PlacesAre DEF Holds, On, WithOp, Ops
      <4> QED  BY <1>1, <4>1, <4>2 DEF MoveTo
    <3>3. CASE Looks(t)
      <4>1. PICK op \in Ops : op = pc[t].op
        BY <1>1, <3>3, PlaceIs DEF Looks, WithOp
      <4>2. op \in Collect \cup Refresh
        BY <3>3, <4>1 DEF Looks, Ops
      <4>3. CASE row[op] \in Untouched
        <5>1. On("decide", op) \in Places /\ Holds(On("decide", op)) /\ On("decide", op).at = "decide"
          BY <4>2, PlacesAre DEF Holds, On, WithOp
        <5>2. MoveTo(t, On("decide", op))
          BY <3>3, <4>1, <4>3 DEF Looks
        <5> QED  BY <1>1, <5>1, <5>2 DEF MoveTo
      <4>4. CASE row[op] \notin Untouched
        <5> DEFINE p == [at |-> "inStep", op |-> op, as |-> InStepAs(op)]
        <5>1. p \in Places /\ Holds(p) /\ p.at = "inStep"
          BY <4>2, PlacesAre DEF Holds, InStepAs
        <5>2. MoveTo(t, p)
          BY <3>3, <4>1, <4>4 DEF Looks
        <5> HIDE DEF p
        <5> QED  BY <1>1, <5>1, <5>2 DEF MoveTo
      <4> QED  BY <4>3, <4>4
    <3> QED  BY <1>3, <3>1, <3>2, <3>3
  <2>2. /\ UNCHANGED <<request, stages, row, trail, calls, outside, startsLeft>>
        /\ todo' \in [Ticks -> SUBSET Ops] /\ \A u \in Ticks \ {t} : todo'[u] = todo[u]
    BY <1>1, <1>3 DEF TickTakes, ImportRetries, Looks, Rest, outside
  <2> QED  BY <1>1, <2>1, <2>2, OnlyMoves DEF At
<1>4. CASE TrackReads(t)
  <2>1. PICK op \in todo[t] :
          /\ todo' = [todo EXCEPT ![t] = @ \ {op}]
          /\ IF row[op] = "collected"
             THEN MoveTo(t, [at |-> "read", op |-> op, trail |-> trail[op], late |-> horizon[op]])
             ELSE UNCHANGED pc
    BY <1>4 DEF TrackReads
  <2>2. op \in Ops /\ pc[t] = At("track")
    BY <1>1, <1>4, <2>1 DEF TrackReads
  <2>3. PICK p \in Places : /\ pc'[t] = p /\ \A u \in Ticks \ {t} : pc'[u] = pc[u]
                            /\ Holds(p) /\ p.at \in {"read", "track"} /\ pc' \in [Ticks -> Places]
    <3>1. CASE row[op] = "collected"
      <4> DEFINE p == [at |-> "read", op |-> op, trail |-> trail[op], late |-> horizon[op]]
      <4>1. op \in Collect \cup Refresh
        BY <2>2, <3>1, NoRow DEF DispatchInv, RowInv, Ops, Results
      <4>2. p \in Places /\ Holds(p) /\ p.at = "read"
        BY <1>1, <2>2, <3>1, <4>1, PlacesAre DEF Holds, Reported, TypeOK
      <4>3. MoveTo(t, p)
        BY <2>1, <3>1
      <4> HIDE DEF p
      <4> QED  BY <1>1, <4>2, <4>3 DEF MoveTo
    <3>2. CASE row[op] # "collected"
      BY <1>1, <2>1, <2>2, <3>2 DEF At
    <3> QED  BY <3>1, <3>2
  <2>4. /\ UNCHANGED <<request, stages, row, trail, calls, outside, startsLeft>>
        /\ todo' \in [Ticks -> SUBSET Ops] /\ \A u \in Ticks \ {t} : todo'[u] = todo[u]
    BY <1>1, <1>4, <2>1 DEF TrackReads, Rest, outside
  <2> QED  BY <1>1, <2>3, <2>4, OnlyMoves DEF At
<1>5. CASE TrackEnds(t) \/ Stops(t)
  <2>1. Quit(t) /\ UNCHANGED <<request, stages, row, trail, calls, outside, startsLeft>>
    BY <1>5 DEF TrackEnds, Stops, Rest, outside
  <2>2. Idle \in Places /\ Holds(Idle) /\ Idle.at = "idle" /\ Idle # At("abandon")
    BY PlacesAre DEF Holds, Idle, At
  <2> QED  BY <1>1, <2>1, <2>2, Quits, OnlyMoves
<1>6. CASE SyncReads(t)
  <2>1. /\ pc[t].at = "read" /\ pc[t].op \in Ops
        /\ UNCHANGED <<request, stages, row, trail, calls, outside, startsLeft, todo>>
    BY <1>1, <1>6, PlaceIs DEF SyncReads, Rest, outside
  <2>2. PICK w \in Writes :
           /\ pc'[t] = [at |-> "sync", op |-> pc[t].op, writes |-> w,
                        ends |-> Conclusion(pc[t].trail, pc[t].late)]
           /\ \A u \in Ticks \ {t} : pc'[u] = pc[u]
           /\ pc' \in [Ticks -> Places]
           /\ \A k \in 1..Len(w) : w[k].stage # "projected"
           /\ pc[t].trail = "published" =>
                \A i \in 1..3 : \/ stages[pc[t].op][Ladder[i]] = "completed"
                                \/ \E k \in 1..Len(w) : /\ w[k].stage = Ladder[i]
                                                        /\ w[k].state = "completed"
    BY <1>1, <1>6, WritesAre
  <2>3. Conclusion(pc[t].trail, pc[t].late) = "published" => pc[t].trail = "published"
    BY ZenonT(30) DEF Conclusion
  <2>4. PICK p \in Places : p = pc'[t]
    BY <2>2
  <2>5. Holds(p) /\ p.at = "sync"
    BY <1>1, <2>1, <2>2, <2>3, <2>4 DEF Holds, Covered
  <2> QED  BY <1>1, <2>1, <2>2, <2>4, <2>5, OnlyMoves DEF At
<1> QED
  BY <1>2, <1>3, <1>4, <1>5, <1>6 DEF ReadsOnly

\* Steps that tell the request what its row already says.
LEMMA RequestStep ==
  ASSUME DispatchInv, NEW t \in Ticks,
         BringsInStep(t) \/ DeclineReaches(t) \/ Requeues(t) \/ ImportRegisters(t)
  PROVE  DispatchInv'
<1>1. /\ TypeOK /\ pc \in [Ticks -> Places] /\ pc[t] \in Places /\ Holds(pc[t]) /\ RequestTypes
  BY DEF DispatchInv, TypeOK, PassInv, RequestTypes
<1>2. pc[t].at \in {"inStep", "declined", "requeue", "look"}
  BY DEF BringsInStep, DeclineReaches, Requeues, ImportRegisters
<1>3. PICK op \in Ops : op = pc[t].op
  BY <1>1, <1>2, PlaceIs DEF WithOp
<1>4. PICK outcome \in {"dispatched", "retry", "failed"} :
        /\ RecordDispatch(op, outcome)
        /\ outcome = "failed" /\ op \notin Import => row[op] \in Declined
  BY <1>1, <1>2, <1>3, PlaceIs DEF BringsInStep, DeclineReaches, Requeues, ImportRegisters, Holds
<1>5. PICK p \in Places : /\ MoveTo(t, p) /\ p.at \in {"next", "registered"} /\ Holds(p)
  <2>1. /\ At("next") \in Places /\ At("next").at = "next" /\ Holds(At("next"))
        /\ On("registered", op) \in Places /\ On("registered", op).at = "registered"
        /\ Holds(On("registered", op))
    BY PlacesAre DEF Holds, At, On, WithOp
  <2> QED  BY <1>3, <2>1 DEF BringsInStep, DeclineReaches, Requeues, ImportRegisters
<1>6. UNCHANGED <<stages, row, trail, calls, outside, todo, startsLeft>>
  BY DEF BringsInStep, DeclineReaches, Requeues, ImportRegisters, Rest
<1>7. /\ RequestTypes'
      /\ \A o \in Ops : status'[o] # status[o] => /\ o = op /\ outcome = "failed"
                                                  /\ status[o] \notin Over
                                                  /\ status'[o] = "blocked"
  BY <1>1, <1>4, RecordDispatchIs
<1>8. /\ pc' \in [Ticks -> Places] /\ pc'[t] = p /\ \A u \in Ticks \ {t} : pc'[u] = pc[u]
  BY <1>1, <1>5 DEF MoveTo
<1>9. TypeOK'
  BY <1>1, <1>6, <1>7, <1>8 DEF TypeOK, RequestTypes, outside
<1>10. RowInv' /\ PublishedHasEvidence'
  BY <1>6 DEF DispatchInv, RowInv, PublishedHasEvidence, outside
<1>11. StatusInv'
  <2> SUFFICES ASSUME NEW o \in Collect \cup Refresh
               PROVE  /\ row[o] \in Untouched => status'[o] = "accepted"
                      /\ row[o] \in Declined => status'[o] \in {"accepted", "blocked"}
                      /\ row[o] = "started" => status'[o] = "running"
                      /\ row[o] = "refreshed" => status'[o] = "completed"
                      /\ row[o] \in {"failed", "uncertain", "unpublished"} => status'[o] = "failed"
                      /\ row[o] \in {"collected", "published"} => status'[o] \in {"running", "failed"}
                      /\ row[o] = "collected" /\ status'[o] = "failed" => old'[o]
    BY <1>6 DEF StatusInv
  <2>1. o \in Ops /\ o \notin Import
    BY Requests DEF Ops
  <2>2. status'[o] # status[o] => status'[o] = "blocked" /\ row[o] \in Declined
    BY <1>4, <1>7, <2>1
  <2>3. row[o] \in Declined => row[o] \notin Untouched \cup Results \cup {"started", "published", "unpublished"}
    BY NoRow DEF Declined, Untouched, Results
  <2> QED
    BY <1>6, <2>2, <2>3 DEF DispatchInv, StatusInv, Results, outside
<1>12. PassInv'
  <2>1. Holds(p)' /\ (\A o \in Ops : Keeps(o)) /\ old' = old /\ row' = row /\ calls' = calls
        /\ todo' = todo
    BY <1>5, <1>6 DEF Holds, Covered, Keeps, outside
  <2> QED  BY <1>1, <1>5, <1>8, <2>1, PassStep DEF DispatchInv, At
<1> QED
  BY <1>9, <1>10, <1>11, <1>12 DEF DispatchInv

\* A stage on record: it stays, and completes no request of this lane.
LEMMA StageStep ==
  ASSUME DispatchInv, NEW t \in Ticks, NEW op \in Ops, NEW stage \in Stages,
         NEW state \in {"pending", "completed", "blocked"},
         RecordStage(op, stage, state), MayRecord(op, stage, state), stage # "projected",
         UNCHANGED <<row, trail, calls, outside, startsLeft>>, todo' = todo,
         NEW p \in Places, MoveTo(t, p), p.at \in {"next", "requeue", "declined", "sync"}, Holds(p)'
  PROVE  DispatchInv'
<1>1. /\ TypeOK /\ pc \in [Ticks -> Places] /\ stages[op]["projected"] = "pending"
  BY DEF DispatchInv, TypeOK, RowInv
<1>2. /\ RequestTypes' /\ stages' \in [Ops -> [Stages -> {"pending", "completed", "blocked"}]]
      /\ stages' = [stages EXCEPT ![op][stage] = state] /\ status' = status
  BY <1>1, RecordStageIs
<1>3. /\ pc' \in [Ticks -> Places] /\ pc'[t] = p /\ \A u \in Ticks \ {t} : pc'[u] = pc[u]
  BY <1>1 DEF MoveTo
<1>4. TypeOK'
  BY <1>1, <1>2, <1>3 DEF TypeOK, RequestTypes, outside
<1>5. \A o \in Ops : Keeps(o)
  BY <1>1, <1>2 DEF Keeps, TypeOK, MayRecord
<1>6. RowInv'
  <2>1. \A o \in Ops : stages'[o]["projected"] = stages[o]["projected"]
    BY <1>1, <1>2 DEF TypeOK, Stages
  <2> QED  BY <2>1 DEF DispatchInv, RowInv, outside
<1>7. PublishedHasEvidence'
  BY <1>5, LadderIs DEF DispatchInv, PublishedHasEvidence, Keeps, Ops
<1>8. StatusInv'
  BY <1>2 DEF DispatchInv, StatusInv, outside
<1>9. PassInv'
  <2>1. old' = old /\ row' = row /\ calls' = calls
    BY DEF outside
  <2> QED  BY <1>3, <1>5, <2>1, <1>1, PassStep DEF DispatchInv, At
<1> QED
  BY <1>4, <1>6, <1>7, <1>8, <1>9 DEF DispatchInv

\* A sequence that is not empty, its first element and the rest.
LEMMA FirstAndRest ==
  ASSUME NEW S, NEW w \in Seq(S), w # <<>>
  PROVE  /\ Head(w) \in S /\ Head(w) = w[1] /\ Tail(w) \in Seq(S)
         /\ Len(w) \in Nat \ {0} /\ Len(Tail(w)) = Len(w) - 1
         /\ \A k \in 1..Len(Tail(w)) : Tail(w)[k] = w[k + 1]
OBVIOUS

LEMMA RecordingStep ==
  ASSUME DispatchInv, NEW t \in Ticks,
         Persists(t) \/ ImportStage(t) \/ ImportStalls(t) \/ SyncWrites(t)
  PROVE  DispatchInv'
<1>1. /\ TypeOK /\ pc \in [Ticks -> Places] /\ pc[t] \in Places /\ Holds(pc[t])
  BY DEF DispatchInv, TypeOK, PassInv
<1>2. pc[t].at \in {"persist", "registered", "look", "sync"}
  BY DEF Persists, ImportStage, ImportStalls, SyncWrites
<1>3. PICK op \in Ops : op = pc[t].op
  BY <1>1, <1>2, PlaceIs DEF WithOp
<1>4. CASE Persists(t) \/ ImportStage(t)
  <2>1. PICK stage \in {"persisted", "registered"} : RecordStage(op, stage, "completed")
    BY <1>3, <1>4 DEF Persists, ImportStage
  <2>2. MoveTo(t, At("next")) /\ todo' = todo /\ UNCHANGED <<row, trail, calls, outside, startsLeft>>
    BY <1>4 DEF Persists, ImportStage
  <2>3. At("next") \in Places /\ Holds(At("next"))' /\ At("next").at = "next"
    BY PlacesAre DEF Holds, At
  <2>4. stage \in Stages /\ stage # "projected" /\ MayRecord(op, stage, "completed")
    BY DEF Stages, MayRecord
  <2> QED  BY <1>3, <2>1, <2>2, <2>3, <2>4, StageStep
<1>5. CASE ImportStalls(t) /\ ~(Quit(t) /\ UNCHANGED <<request, stages>>)
  <2>1. PICK state \in {"pending", "blocked"} :
          /\ MayRecord(op, "registered", state) /\ RecordStage(op, "registered", state)
          /\ MoveTo(t, On(IF state = "pending" THEN "requeue" ELSE "declined", op))
          /\ todo' = todo
    BY <1>3, <1>5 DEF ImportStalls
  <2>2. op \in Import /\ UNCHANGED <<row, trail, calls, outside, startsLeft>>
    BY <1>3, <1>5 DEF ImportStalls
  <2>3. PICK place \in {"requeue", "declined"} : MoveTo(t, On(place, op))
    BY <2>1
  <2>4. On(place, op) \in Places /\ Holds(On(place, op))' /\ On(place, op).at = place
    BY <2>2, PlacesAre DEF Holds, On, WithOp
  <2>5. "registered" \in Stages /\ "registered" # "projected"
    BY DEF Stages
  <2> QED  BY <1>3, <2>1, <2>2, <2>3, <2>4, <2>5, StageStep
<1>6. CASE (ImportStalls(t) \/ SyncWrites(t)) /\ Quit(t) /\ UNCHANGED <<request, stages>>
  <2>1. UNCHANGED <<request, stages, row, trail, calls, outside, startsLeft>>
    BY <1>6 DEF ImportStalls, SyncWrites, outside
  <2>2. Idle \in Places /\ Holds(Idle) /\ Idle.at = "idle" /\ Idle # At("abandon")
    BY PlacesAre DEF Holds, Idle, At
  <2> QED  BY <1>1, <1>6, <2>1, <2>2, Quits, OnlyMoves DEF TypeOK
<1>7. CASE SyncWrites(t) /\ ~(Quit(t) /\ UNCHANGED <<request, stages>>)
  <2>1. /\ pc[t].at = "sync" /\ pc[t].writes # <<>>
        /\ MayRecord(op, Head(pc[t].writes).stage, Head(pc[t].writes).state)
        /\ RecordStage(op, Head(pc[t].writes).stage, Head(pc[t].writes).state)
        /\ MoveTo(t, [pc[t] EXCEPT !.writes = Tail(@)])
        /\ todo' = todo /\ UNCHANGED <<row, trail, calls, outside, startsLeft>>
    BY <1>3, <1>7 DEF SyncWrites
  <2>2. PICK w \in Writes, e \in {"published", "unpublished", "collected"} :
          pc[t] = [at |-> "sync", op |-> op, writes |-> w, ends |-> e]
    BY <1>1, <1>3, <2>1, PlaceIs
  <2>3. w # <<>> /\ pc[t].writes = w /\ pc[t].ends = e
    BY <2>1, <2>2
  <2>4. PICK stage \in Stages, state \in {"completed", "blocked"} :
          stage = Head(w).stage /\ state = Head(w).state
    <3>1. Head(w) \in [stage : Stages, state : {"completed", "blocked"}]
      BY <2>3, FirstAndRest DEF Writes
    <3>2. Head(w).stage \in Stages /\ Head(w).state \in {"completed", "blocked"}
      BY <3>1
    <3> QED  BY <3>2, Zenon
  <2>5. /\ Tail(w) \in Writes /\ Len(w) \in Nat \ {0} /\ Len(Tail(w)) = Len(w) - 1
        /\ Head(w) = w[1] /\ \A k \in 1..Len(Tail(w)) : Tail(w)[k] = w[k + 1]
    BY <2>3, FirstAndRest DEF Writes
  <2> DEFINE p == [at |-> "sync", op |-> op, writes |-> Tail(w), ends |-> e]
  <2>6. MoveTo(t, p)
    BY <2>1, <2>2
  <2>7. stage # "projected"
    <3>1. \A k \in 1..Len(w) : w[k].stage # "projected"
      BY <1>1, <2>1, <2>3 DEF Holds
    <3> QED  BY <2>4, <2>5, <3>1
  <2>8. stages' = [stages EXCEPT ![op][stage] = state]
    BY <1>1, <2>1, <2>3, <2>4, RecordStageIs
  <2>9. e = "published" => Covered(p)'
    <3> SUFFICES ASSUME e = "published", NEW i \in 1..3, stages'[op][Ladder[i]] # "completed"
                 PROVE  \E k \in 1..Len(Tail(w)) : /\ Tail(w)[k].stage = Ladder[i]
                                                   /\ Tail(w)[k].state = "completed"
      BY DEF Covered
    <3>1. stages[op][Ladder[i]] # "completed"
      BY <1>1, <2>1, <2>3, <2>4, <2>8, LadderIs DEF MayRecord, TypeOK
    <3>2. PICK k \in 1..Len(w) : w[k].stage = Ladder[i] /\ w[k].state = "completed"
      BY <1>1, <1>3, <2>1, <2>3, <3>1 DEF Holds, Covered
    <3>3. k # 1
      BY <1>1, <2>4, <2>5, <2>8, <3>2, LadderIs DEF TypeOK
    <3>4. k - 1 \in 1..Len(Tail(w)) /\ Tail(w)[k - 1] = w[k]
      BY <2>5, <3>3
    <3> QED  BY <3>2, <3>4
  <2>10. /\ \A k \in 1..Len(Tail(w)) : Tail(w)[k].stage # "projected"
         /\ op \in Collect \cup Refresh /\ row[op] \in Reported
    BY <1>1, <1>3, <2>1, <2>3, <2>5 DEF Holds
  <2>11. p \in Places /\ p.at = "sync" /\ p.op = op /\ p.writes = Tail(w) /\ p.ends = e
    BY <2>5, PlacesAre
  <2> HIDE DEF p
  <2>12. Holds(p)'
    BY <2>1, <2>9, <2>10, <2>11 DEF Holds
  <2>13. RecordStage(op, stage, state) /\ MayRecord(op, stage, state)
    BY <2>1, <2>3, <2>4
  <2> QED  BY <2>1, <2>6, <2>7, <2>11, <2>12, <2>13, StageStep
<1> QED
  BY <1>4, <1>5, <1>6, <1>7

\* The states an execution can be in, told apart.
LEMMA RowStates ==
  /\ \A v \in Untouched : v \notin Declined \cup Begun
  /\ \A v \in Declined : v \notin Begun
  /\ Reported \subseteq Begun /\ Ended \subseteq Declined \cup Begun /\ "started" \in Begun
  /\ "started" \notin Ended \cup Reported \cup Declined
BY NoRow DEF Untouched, Declined, Begun, Results, Reported, Ended

\* Claims, waits and declines: the row was untouched, so no pass holds it.
LEMMA DecisionStep ==
  ASSUME DispatchInv, NEW t \in Ticks, Declines(t) \/ Waits(t) \/ Claims(t)
  PROVE  DispatchInv'
<1>1. /\ TypeOK /\ pc \in [Ticks -> Places] /\ pc[t] \in Places /\ Holds(pc[t])
      /\ row \in [Ops -> Untouched \cup Declined \cup Results \cup {"started", "published", "unpublished"}]
      /\ pc[t].at = "decide"
  BY DEF DispatchInv, TypeOK, PassInv, Declines, Waits, Claims
<1>2. PICK op \in Ops : op = pc[t].op
  BY <1>1, PlaceIs DEF WithOp
<1>3. op \in Collect \cup Refresh /\ op \notin Import
  BY <1>1, <1>2, Requests DEF Holds
<1>4. CASE row[op] \notin Untouched
  <2>1. /\ MoveTo(t, At("next")) /\ todo' = todo
        /\ UNCHANGED <<request, stages, row, trail, calls, outside, startsLeft>>
    BY <1>2, <1>4 DEF Declines, Waits, Claims, Claimable
  <2>2. At("next") \in Places /\ Holds(At("next")) /\ At("next").at = "next" /\ At("next") # At("abandon")
    BY PlacesAre DEF Holds, At
  <2>3. /\ pc' \in [Ticks -> Places] /\ pc'[t] = At("next") /\ \A u \in Ticks \ {t} : pc'[u] = pc[u]
    BY <1>1, <2>1, <2>2 DEF MoveTo
  <2> QED  BY <1>1, <2>1, <2>2, <2>3, OnlyMoves DEF TypeOK
<1>5. CASE row[op] \in Untouched
  <2>1. PICK v \in Declined \cup {"waiting", "started"}, place \in {"declined", "requeue", "calling"} :
          /\ row' = [row EXCEPT ![op] = v] /\ MoveTo(t, On(place, op))
          /\ place = "declined" <=> v \in Declined
          /\ place = "calling" <=> v = "started"
          /\ v # "started" => UNCHANGED request /\ startsLeft' = startsLeft
    <3>0. /\ "unsupported" \in Declined /\ "expired" \in Declined
          /\ "started" \notin Declined /\ "waiting" \notin Declined
      BY DEF Declined
    <3>1. CASE Declines(t)
      <4>1. PICK as \in Declined : row' = [row EXCEPT ![op] = as] /\ MoveTo(t, On("declined", op))
        BY <1>2, <1>5, <3>0, <3>1 DEF Declines
      <4>2. UNCHANGED request /\ startsLeft' = startsLeft
        BY <3>1 DEF Declines
      <4> QED  BY <3>0, <4>1, <4>2
    <3>2. CASE Waits(t)
      <4>1. /\ row' = [row EXCEPT ![op] = "waiting"] /\ MoveTo(t, On("requeue", op))
            /\ UNCHANGED request /\ startsLeft' = startsLeft
        BY <1>2, <1>5, <3>2 DEF Waits
      <4> QED  BY <3>0, <4>1
    <3>3. CASE Claims(t)
      <4>1. row' = [row EXCEPT ![op] = "started"] /\ MoveTo(t, On("calling", op))
        BY <1>2, <1>5, <3>3 DEF Claims, Claimable
      <4> QED  BY <3>0, <4>1
    <3> QED  BY <3>1, <3>2, <3>3
  <2>2. UNCHANGED <<stages, trail, calls, outside, todo>>
    BY DEF Declines, Waits, Claims
  <2>3. status[op] = "accepted" /\ calls[op] = 0 /\ ~old[op]
    BY <1>3, <1>5, RowStates DEF DispatchInv, StatusInv, RowInv
  <2>4. v = "started" => /\ status' = [status EXCEPT ![op] = "running"]
                         /\ dispatch' = [dispatch EXCEPT ![op] = "dispatched"]
                         /\ available' = [available EXCEPT ![op] = TRUE]
                         /\ startsLeft' = [startsLeft EXCEPT ![t] = @ - 1] /\ startsLeft[t] > 0
    <3> SUFFICES ASSUME v = "started"
                 PROVE  /\ status' = [status EXCEPT ![op] = "running"]
                        /\ dispatch' = [dispatch EXCEPT ![op] = "dispatched"]
                        /\ available' = [available EXCEPT ![op] = TRUE]
                        /\ startsLeft' = [startsLeft EXCEPT ![t] = @ - 1] /\ startsLeft[t] > 0
      OBVIOUS
    <3>1. ~Declines(t) /\ ~Waits(t)
      <4>1. row'[op] = "started" /\ "started" \notin Declined \cup {"waiting"}
        BY <1>1, <2>1 DEF Declined
      <4>2. \A as \in Declined \cup {"waiting"} : row' # [row EXCEPT ![op] = as]
        BY <1>1, <4>1
      <4> QED  BY <1>2, <1>5, <4>2 DEF Declines, Waits, Declined
    <3> QED  BY <1>2, <1>5, <2>3, <3>1 DEF Claims, Claimable, MayStart, Over
  <2>5. RequestTypes' /\ startsLeft' \in [Ticks -> 0..1]
    <3>1. CASE v = "started"
      <4>1. RequestTypes'
        <5>1. status' \in [Ops -> Over \cup {"accepted", "running"}]
          BY <1>1, <2>4, <3>1 DEF TypeOK
        <5>2. dispatch' \in [Ops -> {"dispatch_pending", "dispatched", "dispatch_failed"}]
          BY <1>1, <2>4, <3>1 DEF TypeOK
        <5>3. available' \in [Ops -> BOOLEAN]
          BY <1>1, <2>4, <3>1 DEF TypeOK
        <5> QED  BY <5>1, <5>2, <5>3 DEF RequestTypes
      <4>2. startsLeft' \in [Ticks -> 0..1]
        BY <1>1, <2>4, <3>1 DEF TypeOK
      <4> QED  BY <4>1, <4>2
    <3>2. CASE v # "started"
      BY <1>1, <2>1, <3>2 DEF TypeOK, RequestTypes, request
    <3> QED  BY <3>1, <3>2
  <2>6. PICK p \in Places : p = On(place, op) /\ p.at = place /\ p.op = op
    BY PlacesAre DEF On, WithOp
  <2>7. /\ pc' \in [Ticks -> Places] /\ pc'[t] = p /\ \A u \in Ticks \ {t} : pc'[u] = pc[u]
    BY <1>1, <2>1, <2>6 DEF MoveTo
  <2>8. row' \in [Ops -> Untouched \cup Declined \cup Results \cup {"started", "published", "unpublished"}]
    BY <1>1, <2>1 DEF Untouched
  <2>9. TypeOK'
    BY <1>1, <2>2, <2>5, <2>7, <2>8 DEF TypeOK, RequestTypes, outside
  <2>10. \A o \in Ops : o # op => row'[o] = row[o] /\ status'[o] = status[o]
    BY <1>1, <2>1, <2>4 DEF TypeOK, request
  <2>11. row'[op] = v
    BY <1>1, <2>1
  <2>12. RowInv'
    <3> SUFFICES ASSUME NEW o \in Ops
                 PROVE  /\ o \in Import => row'[o] = None
                        /\ row'[o] \in Untouched => calls[o] = 0
                        /\ old[o] => row'[o] \in Begun
                        /\ stages[o]["projected"] = "pending"
      BY <2>2 DEF RowInv, outside
    <3> QED  BY <1>3, <2>3, <2>10 DEF DispatchInv, RowInv
  <2>13. StatusInv'
    <3> SUFFICES ASSUME NEW o \in Collect \cup Refresh
                 PROVE  /\ row'[o] \in Untouched => status'[o] = "accepted"
                        /\ row'[o] \in Declined => status'[o] \in {"accepted", "blocked"}
                        /\ row'[o] = "started" => status'[o] = "running"
                        /\ row'[o] = "refreshed" => status'[o] = "completed"
                        /\ row'[o] \in {"failed", "uncertain", "unpublished"} => status'[o] = "failed"
                        /\ row'[o] \in {"collected", "published"} => status'[o] \in {"running", "failed"}
                        /\ row'[o] = "collected" /\ status'[o] = "failed" => old'[o]
      BY DEF StatusInv
    <3>1. CASE o # op
      BY <2>2, <2>10, <3>1 DEF DispatchInv, StatusInv, Ops, outside
    <3>2. CASE o = op /\ v = "started"
      BY <1>1, <2>4, <2>11, <3>2, RowStates DEF TypeOK, Begun, Results
    <3>3. CASE o = op /\ v # "started"
      <4>1. status'[o] = "accepted"
        BY <2>1, <2>3, <3>3 DEF request
      <4>2. row'[o] \in Declined \cup {"waiting"}
        BY <2>11, <3>3
      <4> QED  BY <4>1, <4>2 DEF Declined
    <3> QED  BY <3>1, <3>2, <3>3
  <2>14. PublishedHasEvidence'
    BY <2>2, <2>10, <2>11 DEF DispatchInv, PublishedHasEvidence, Ops, Declined
  <2>15. \A o \in Ops : Keeps(o)
    BY <1>5, <2>2, <2>10, RowStates DEF Keeps
  <2>16. \A u \in Ticks \ {t} :
           /\ pc[u].at = "calling" => row'[pc[u].op] = row[pc[u].op] /\ calls'[pc[u].op] = calls[pc[u].op]
           /\ pc[u].at = "called" => row'[pc[u].op] \in {row[pc[u].op], "uncertain"}
           /\ pc[u].at \in {"calling", "called"} /\ p.at \in {"calling", "called"} => pc[u].op # p.op
    <3> SUFFICES ASSUME NEW u \in Ticks, pc[u].at \in {"calling", "called"}
                 PROVE  /\ row'[pc[u].op] = row[pc[u].op] /\ calls'[pc[u].op] = calls[pc[u].op]
                        /\ pc[u].op # p.op
      BY Zenon
    <3>1. PICK o \in Ops : o = pc[u].op
      BY <1>1, PlaceIs DEF WithOp
    <3>2. row[o] \in {"started", "uncertain"}
      BY <3>1 DEF DispatchInv, PassInv, Holds
    <3>3. o # op
      BY <1>5, <3>2, RowStates DEF Begun, Results
    <3> QED  BY <2>2, <2>6, <2>10, <3>1, <3>3
  <2>17. Holds(p)'
    BY <1>3, <2>1, <2>2, <2>3, <2>6, <2>11, Zenon DEF Holds, outside
  <2>18. old' = old /\ todo' = todo
    BY <2>2 DEF outside
  <2>19. PassInv'
    BY <1>1, <2>6, <2>7, <2>15, <2>16, <2>17, <2>18, PassStep DEF DispatchInv, At
  <2> QED  BY <2>9, <2>12, <2>13, <2>14, <2>19 DEF DispatchInv
<1> QED
  BY <1>4, <1>5

\* The call: its claim is still there, and nobody else's.
LEMMA CallStep ==
  ASSUME DispatchInv, NEW t \in Ticks, Calls(t)
  PROVE  DispatchInv'
<1>1. /\ TypeOK /\ pc \in [Ticks -> Places] /\ pc[t] \in Places /\ Holds(pc[t])
      /\ pc[t].at = "calling" /\ calls \in [Ops -> Nat]
  BY DEF DispatchInv, TypeOK, PassInv, Calls
<1>2. PICK op \in Ops : op = pc[t].op
  BY <1>1, PlaceIs DEF WithOp
<1>3. /\ row[op] = "started" /\ calls' = [calls EXCEPT ![op] = @ + 1] /\ MoveTo(t, On("called", op))
      /\ UNCHANGED <<request, stages, row, trail, outside, todo, startsLeft>>
      /\ op \in Collect \cup Refresh
  BY <1>1, <1>2 DEF Holds, Calls
<1>4. PICK p \in Places : p = On("called", op) /\ p.at = "called" /\ p.op = op
  BY PlacesAre DEF On, WithOp
<1>5. /\ pc' \in [Ticks -> Places] /\ pc'[t] = p /\ \A u \in Ticks \ {t} : pc'[u] = pc[u]
  BY <1>1, <1>3, <1>4 DEF MoveTo
<1>6. TypeOK'
  BY <1>1, <1>3, <1>5 DEF TypeOK, request, outside
<1>7. RowInv'
  <2>1. \A o \in Ops : o # op => calls'[o] = calls[o]
    BY <1>1, <1>3
  <2> QED  BY <1>3, <2>1, RowStates DEF DispatchInv, RowInv, outside
<1>8. StatusInv' /\ PublishedHasEvidence'
  BY <1>3 DEF DispatchInv, StatusInv, PublishedHasEvidence, request, outside
<1>9. \A u \in Ticks \ {t} : pc[u].at \in {"calling", "called"} => pc[u].op # op
  BY <1>1, <1>2 DEF DispatchInv, PassInv
<1>10. \A u \in Ticks \ {t} : pc[u].at = "calling" => calls'[pc[u].op] = calls[pc[u].op]
  <2> SUFFICES ASSUME NEW u \in Ticks \ {t}, pc[u].at = "calling"
               PROVE  calls'[pc[u].op] = calls[pc[u].op]
    OBVIOUS
  <2>1. pc[u].op \in Ops
    BY <1>1, PlaceIs DEF WithOp
  <2> QED  BY <1>1, <1>3, <1>9, <2>1
<1>11. Holds(p)' /\ \A o \in Ops : Keeps(o)
  BY <1>3, <1>4 DEF Holds, Keeps
<1>12. old' = old /\ todo' = todo /\ row' = row
  BY <1>3 DEF outside
<1>13. PassInv'
  BY <1>1, <1>4, <1>5, <1>9, <1>10, <1>11, <1>12, PassStep DEF DispatchInv, At
<1> QED
  BY <1>6, <1>7, <1>8, <1>13 DEF DispatchInv

\* What a result does to its execution and its request, in one batch.
TakesResult(op, v) ==
  /\ row' = [row EXCEPT ![op] = v]
  /\ v # "started" /\ row[op] \in Begun
  /\ row[op] # "started" /\ v # row[op] => row[op] \in Reported /\ v \in Reported
  /\ RequestTypes'
  /\ \A o \in Ops : o # op => status'[o] = status[o]
  /\ v = "refreshed" => status'[op] = "completed"
  /\ v \in {"failed", "uncertain", "unpublished"} => status'[op] = "failed"
  /\ v \in {"collected", "published"} => status'[op] \in {"running", "failed"}
  /\ v = "collected" /\ status'[op] = "failed" => old[op]
  /\ v = "published" /\ op \in Collect => \A i \in 1..3 : stages[op][Ladder[i]] = "completed"
  /\ trail' \in [Ops -> Trails]
  /\ UNCHANGED <<stages, calls, outside, startsLeft>>

\* The pass goes on to place p; no other is about to call for the execution,
\* and one that waits for an answer finds it given up at most.
GoesOn(t, op, v, p) ==
  /\ pc' \in [Ticks -> Places] /\ pc'[t] = p /\ todo' \in [Ticks -> SUBSET Ops]
  /\ \A u \in Ticks \ {t} : pc'[u] = pc[u] /\ todo'[u] = todo[u]
  /\ p.at \notin {"calling", "called"}
  /\ p = At("abandon") => \A o \in todo'[t] : old[o]
  /\ \A u \in Ticks \ {t} : pc[u].at = "calling" => pc[u].op # op
  /\ \A u \in Ticks \ {t} : pc[u].at = "called" /\ pc[u].op = op => v = row[op] \/ v = "uncertain"

LEMMA ResultStep ==
  ASSUME DispatchInv, NEW t \in Ticks, NEW op \in Ops, NEW v \in Begun, NEW p \in Places,
         TakesResult(op, v), GoesOn(t, op, v, p), Holds(p)'
  PROVE  DispatchInv'
<1> USE DEF TakesResult, GoesOn
<1>1. /\ row \in [Ops -> Untouched \cup Declined \cup Results \cup {"started", "published", "unpublished"}]
      /\ pc \in [Ticks -> Places]
  BY DEF DispatchInv, TypeOK
<1>2. row' \in [Ops -> Untouched \cup Declined \cup Results \cup {"started", "published", "unpublished"}]
  BY <1>1 DEF Begun
<1>3. row'[op] = v /\ \A o \in Ops : o # op => row'[o] = row[o]
  BY <1>1
<1>4. TypeOK'
  BY <1>2 DEF DispatchInv, TypeOK, RequestTypes, outside
<1>5. op \in Collect \cup Refresh
  BY RowStates DEF DispatchInv, RowInv, Ops, Untouched
<1>6. RowInv'
  <2> SUFFICES ASSUME NEW o \in Ops
               PROVE  /\ o \in Import => row'[o] = None
                      /\ row'[o] \in Untouched => calls[o] = 0
                      /\ old[o] => row'[o] \in Begun
                      /\ stages[o]["projected"] = "pending"
    BY DEF RowInv, outside
  <2> QED  BY <1>3, <1>5, Requests, RowStates DEF DispatchInv, RowInv
<1>7. StatusInv'
  <2> SUFFICES ASSUME NEW o \in Collect \cup Refresh
               PROVE  /\ row'[o] \in Untouched => status'[o] = "accepted"
                      /\ row'[o] \in Declined => status'[o] \in {"accepted", "blocked"}
                      /\ row'[o] = "started" => status'[o] = "running"
                      /\ row'[o] = "refreshed" => status'[o] = "completed"
                      /\ row'[o] \in {"failed", "uncertain", "unpublished"} => status'[o] = "failed"
                      /\ row'[o] \in {"collected", "published"} => status'[o] \in {"running", "failed"}
                      /\ row'[o] = "collected" /\ status'[o] = "failed" => old[o]
    BY DEF StatusInv, outside
  <2>1. CASE o # op
    BY <1>3, <2>1 DEF DispatchInv, StatusInv, Ops
  <2>2. CASE o = op
    BY <1>3, <2>2, RowStates
  <2> QED  BY <2>1, <2>2
<1>8. PublishedHasEvidence'
  BY <1>3 DEF DispatchInv, PublishedHasEvidence, Ops
<1>9. \A o \in Ops : Keeps(o)
  <2> SUFFICES ASSUME NEW o \in Ops PROVE Keeps(o)
    OBVIOUS
  <2>1. CASE o # op
    BY <1>3, <2>1 DEF Keeps
  <2>2. CASE o = op
    BY <1>3, <2>2, RowStates DEF Keeps
  <2> QED  BY <2>1, <2>2
<1>10. old' = old /\ calls' = calls
  BY DEF outside
<1>11. \A u \in Ticks \ {t} :
         /\ pc[u].at = "calling" => row'[pc[u].op] = row[pc[u].op] /\ calls'[pc[u].op] = calls[pc[u].op]
         /\ pc[u].at = "called" => row'[pc[u].op] \in {row[pc[u].op], "uncertain"}
         /\ pc[u].at \in {"calling", "called"} /\ p.at \in {"calling", "called"} => pc[u].op # p.op
  <2> SUFFICES ASSUME NEW u \in Ticks \ {t}, pc[u].at \in {"calling", "called"}
               PROVE  /\ pc[u].at = "calling" => row'[pc[u].op] = row[pc[u].op]
                      /\ pc[u].at = "called" => row'[pc[u].op] \in {row[pc[u].op], "uncertain"}
    BY <1>10, Zenon
  <2>1. PICK o \in Ops : o = pc[u].op
    BY <1>1, PlaceIs DEF WithOp
  <2> QED  BY <1>3, <2>1
<1>12. PassInv'
  BY <1>1, <1>9, <1>10, <1>11, PassStep DEF DispatchInv
<1> QED
  BY <1>4, <1>6, <1>7, <1>8, <1>12 DEF DispatchInv

LEMMA AnswerStep ==
  ASSUME DispatchInv, NEW t \in Ticks, Records(t)
  PROVE  DispatchInv'
<1>1. /\ TypeOK /\ pc \in [Ticks -> Places] /\ pc[t] \in Places /\ Holds(pc[t]) /\ RequestTypes
      /\ pc[t].at = "called" /\ trail \in [Ops -> Trails] /\ todo \in [Ticks -> SUBSET Ops]
  BY DEF DispatchInv, TypeOK, PassInv, RequestTypes, Records
<1>2. PICK op \in Ops : op = pc[t].op
  BY <1>1, PlaceIs DEF WithOp
<1>3. op \in Collect \cup Refresh /\ row[op] \in {"started", "uncertain"}
  BY <1>1, <1>2 DEF Holds
<1>4. PICK result \in Answers(op) :
        /\ row' = [row EXCEPT ![op] = Taken(op, result)]
        /\ CASE result = "collected" ->
                  IF row[op] = "started"
                  THEN /\ trail' \in {trail, [trail EXCEPT ![op] = "unreported"]}
                       /\ MoveTo(t, On("persist", op))
                       /\ UNCHANGED request
                  ELSE MoveTo(t, At("next")) /\ UNCHANGED <<trail, request>>
             [] result = "refreshed" ->
                  /\ status' = [status EXCEPT ![op] =
                       IF @ = "running" /\ row'[op] = "refreshed" THEN "completed" ELSE @]
                  /\ MoveTo(t, At("next"))
                  /\ UNCHANGED <<trail, dispatch, available>>
             [] OTHER ->
                  /\ FailRequest(op)
                  /\ MoveTo(t, At("next"))
                  /\ UNCHANGED trail
  BY <1>2 DEF Records
<1>5. UNCHANGED <<stages, calls, outside, todo, startsLeft>>
  BY DEF Records
<1>6. result \in {"collected", "refreshed", "failed", "uncertain"}
  BY DEF Answers
<1>7. PICK p \in {At("next"), On("persist", op)} : MoveTo(t, p)
  BY <1>4, <1>6
<1>8. /\ p \in Places /\ p.at \in {"next", "persist"} /\ Holds(p)' /\ p # At("abandon")
  <2>1. At("next") \in Places /\ Holds(At("next"))' /\ At("next").at = "next" /\ At("abandon").at = "abandon"
    BY PlacesAre DEF Holds, At
  <2>2. On("persist", op) \in Places /\ Holds(On("persist", op))' /\ On("persist", op).at = "persist"
    BY <1>3, PlacesAre DEF Holds, On, WithOp
  <2> QED  BY <2>1, <2>2
<1>9. /\ pc' \in [Ticks -> Places] /\ pc'[t] = p /\ \A u \in Ticks \ {t} : pc'[u] = pc[u]
  BY <1>1, <1>7, <1>8 DEF MoveTo
<1>10. trail' \in [Ops -> Trails]
  <2>1. trail' \in {trail, [trail EXCEPT ![op] = "unreported"]}
    BY <1>4, <1>6
  <2>2. "unreported" \in Trails
    BY DEF Trails, Settled
  <2> QED  BY <1>1, <2>1, <2>2
<1>11. \A u \in Ticks \ {t} : pc[u].at \in {"calling", "called"} => pc[u].op # op
  BY <1>1, <1>2 DEF DispatchInv, PassInv
<1>12. /\ row[op] = "started" => status[op] = "running" /\ Taken(op, result) = result
       /\ row[op] = "uncertain" => status[op] = "failed" /\ Taken(op, result) = "uncertain"
  BY <1>3 DEF DispatchInv, StatusInv, Taken
<1>13. row'[op] = Taken(op, result)
  BY <1>1, <1>4 DEF TypeOK
<1>14. /\ RequestTypes' /\ \A o \in Ops : o # op => status'[o] = status[o]
       /\ Taken(op, result) = "refreshed" => status'[op] = "completed"
       /\ Taken(op, result) \in {"failed", "uncertain", "unpublished"} => status'[op] = "failed"
       /\ Taken(op, result) \in {"collected", "published"} => status'[op] \in {"running", "failed"}
       /\ Taken(op, result) = "collected" => status'[op] # "failed"
  <2>1. CASE result = "collected"
    <3>1. UNCHANGED request
      BY <1>4, <2>1
    <3> QED  BY <1>1, <1>3, <1>12, <2>1, <3>1 DEF request, RequestTypes
  <2>2. CASE result = "refreshed"
    <3>1. /\ status' = [status EXCEPT ![op] =
               IF @ = "running" /\ row'[op] = "refreshed" THEN "completed" ELSE @]
          /\ UNCHANGED <<dispatch, available>>
      BY <1>4, <2>2
    <3>2. RequestTypes'
      BY <1>1, <3>1 DEF RequestTypes, Over
    <3> QED  BY <1>1, <1>3, <1>12, <1>13, <2>2, <3>1, <3>2 DEF RequestTypes
  <2>3. CASE result \in {"failed", "uncertain"}
    <3>1. FailRequest(op)
      BY <1>4, <2>3
    <3>2. /\ RequestTypes' /\ \A o \in Ops : status'[o] # status[o] => /\ o = op /\ status[o] \notin Over
                                                                        /\ status'[o] = "failed"
          /\ status'[op] \in Over
      BY <1>1, <3>1, FailRequestIs
    <3>3. status'[op] = "failed"
      BY <1>3, <1>12, <3>2 DEF Over
    <3> QED  BY <1>3, <1>12, <2>3, <3>2, <3>3
  <2> QED  BY <1>6, <2>1, <2>2, <2>3
<1>15. PICK v \in Begun : v = Taken(op, result)
  BY <1>3, <1>6, <1>12 DEF Begun, Results
<1>16. /\ v # "started" /\ row[op] \in Begun /\ v # "published"
       /\ row[op] # "started" => v = row[op]
  BY <1>3, <1>6, <1>12, <1>15 DEF Begun, Results
<1>17. TakesResult(op, v)
  BY <1>4, <1>5, <1>10, <1>14, <1>15, <1>16 DEF TakesResult
<1>18. GoesOn(t, op, v, p)
  BY <1>1, <1>5, <1>8, <1>9, <1>11 DEF GoesOn
<1> QED
  BY <1>8, <1>17, <1>18, ResultStep

\* The list of old starts is worked off: one still started becomes uncertain, and
\* its request fails; one that took a result meanwhile fails a request that waits
\* for the evidence of its run.
LEMMA AbandonStep ==
  ASSUME DispatchInv, NEW t \in Ticks, Abandons(t)
  PROVE  DispatchInv'
<1>1. /\ TypeOK /\ pc \in [Ticks -> Places] /\ pc[t] \in Places /\ RequestTypes
      /\ pc[t] = At("abandon") /\ todo \in [Ticks -> SUBSET Ops]
  BY DEF DispatchInv, TypeOK, RequestTypes, Abandons
<1>2. PICK op \in todo[t] :
        /\ todo' = [todo EXCEPT ![t] = @ \ {op}]
        /\ row' = [row EXCEPT ![op] = IF @ = "started" THEN "uncertain" ELSE @]
        /\ FailRequest(op)
  BY DEF Abandons
<1>3. op \in Ops /\ old[op] /\ row[op] \in Begun
  BY <1>1 DEF DispatchInv, PassInv, RowInv
<1>4. UNCHANGED <<stages, trail, calls, outside, startsLeft, pc>>
  BY DEF Abandons
<1>5. op \in Collect \cup Refresh
  BY <1>3, RowStates DEF DispatchInv, RowInv, Ops, Untouched
<1>6. /\ RequestTypes' /\ \A o \in Ops : status'[o] # status[o] => /\ o = op /\ status[o] \notin Over
                                                                    /\ status'[o] = "failed"
      /\ status'[op] \in Over
  BY <1>1, <1>2, <1>3, FailRequestIs
<1>7. PICK v \in Begun : v = IF row[op] = "started" THEN "uncertain" ELSE row[op]
  BY <1>3 DEF Begun, Results
<1>8. /\ row' = [row EXCEPT ![op] = v] /\ v # "started"
      /\ row[op] # "started" => v = row[op]
      /\ row[op] = "started" => v = "uncertain"
  BY <1>2, <1>7
<1>9. /\ v = "refreshed" => status'[op] = "completed"
      /\ v \in {"failed", "uncertain", "unpublished"} => status'[op] = "failed"
      /\ v \in {"collected", "published"} => status'[op] \in {"running", "failed"}
  <2>1. /\ row[op] = "started" => status[op] = "running"
        /\ row[op] = "refreshed" => status[op] = "completed"
        /\ row[op] \in {"failed", "uncertain", "unpublished"} => status[op] = "failed"
        /\ row[op] \in {"collected", "published"} => status[op] \in {"running", "failed"}
    BY <1>5 DEF DispatchInv, StatusInv
  <2>2. "running" \notin Over /\ "completed" \in Over /\ "failed" \in Over
    BY DEF Over
  <2>3. CASE row[op] = "started"
    BY <1>3, <1>6, <1>8, <2>1, <2>2, <2>3
  <2>4. CASE row[op] # "started"
    <3>1. v = row[op]
      BY <1>8, <2>4
    <3>2. status[op] \in Over => status'[op] = status[op]
      BY <1>3, <1>6
    <3>3. status[op] \notin Over => status'[op] = "failed"
      BY <1>3, <1>6
    <3> QED  BY <2>1, <2>2, <3>1, <3>2, <3>3
  <2> QED  BY <2>3, <2>4
<1>10. v = "published" /\ op \in Collect => \A i \in 1..3 : stages[op][Ladder[i]] = "completed"
  BY <1>8 DEF DispatchInv, PublishedHasEvidence
<1>11. \A u \in Ticks \ {t} : pc[u].at = "calling" => pc[u].op # op
  BY <1>3 DEF DispatchInv, PassInv, Holds
<1>12. PICK p \in Places : /\ p = At("abandon") /\ p.at = "abandon" /\ Holds(p)'
  BY PlacesAre DEF Holds, At
<1>13. /\ todo' \in [Ticks -> SUBSET Ops] /\ todo'[t] \subseteq todo[t]
       /\ \A u \in Ticks \ {t} : pc'[u] = pc[u] /\ todo'[u] = todo[u]
  BY <1>1, <1>2, <1>4
<1>14. \A o \in todo'[t] : old[o]
  BY <1>1, <1>13 DEF DispatchInv, PassInv
<1>15. trail' \in [Ops -> Trails]
  BY <1>4 DEF DispatchInv, TypeOK
<1>16. TakesResult(op, v)
  BY <1>3, <1>4, <1>6, <1>8, <1>9, <1>10, <1>15 DEF TakesResult
<1>17. GoesOn(t, op, v, p)
  BY <1>1, <1>4, <1>8, <1>11, <1>12, <1>13, <1>14 DEF GoesOn
<1> QED
  BY <1>3, <1>12, <1>16, <1>17, ResultStep

\* The look's conclusion: "published" only with every stage on record, as no
\* write is left.
LEMMA ConclusionStep ==
  ASSUME DispatchInv, NEW t \in Ticks, Publishes(t)
  PROVE  DispatchInv'
<1>1. /\ TypeOK /\ pc \in [Ticks -> Places] /\ pc[t] \in Places /\ Holds(pc[t]) /\ RequestTypes
      /\ pc[t].at = "sync" /\ pc[t].writes = <<>> /\ todo \in [Ticks -> SUBSET Ops]
  BY DEF DispatchInv, TypeOK, PassInv, RequestTypes, Publishes
<1>2. PICK op \in Ops, e \in {"published", "unpublished", "collected"} : op = pc[t].op /\ e = pc[t].ends
  BY <1>1, PlaceIs DEF WithOp
<1>3. /\ op \in Collect \cup Refresh /\ row[op] \in Reported
      /\ e = "published" => Covered(pc[t])
  BY <1>1, <1>2 DEF Holds
<1>4. /\ row' = [row EXCEPT ![op] = IF @ = "collected" THEN e ELSE @]
      /\ IF e = "unpublished" THEN FailRequest(op) ELSE UNCHANGED request
      /\ MoveTo(t, At("track"))
      /\ UNCHANGED <<stages, trail, calls, outside, todo, startsLeft>>
  BY <1>2 DEF Publishes
<1>5. PICK v \in Begun : v = IF row[op] = "collected" THEN e ELSE row[op]
  BY <1>3 DEF Begun, Reported, Results
<1>6. /\ row' = [row EXCEPT ![op] = v] /\ v # "started" /\ row[op] \in Begun /\ v \in Reported
  BY <1>3, <1>4, <1>5 DEF Reported, Begun, Results
<1>7. e = "published" => \A i \in 1..3 : stages[op][Ladder[i]] = "completed"
  <2>1. 1..Len(pc[t].writes) = {}
    BY <1>1
  <2> QED  BY <1>2, <1>3, <2>1 DEF Covered
<1>8. v = "published" /\ op \in Collect => \A i \in 1..3 : stages[op][Ladder[i]] = "completed"
  BY <1>5, <1>7 DEF DispatchInv, PublishedHasEvidence
<1>9. /\ row[op] = "unpublished" => status[op] = "failed"
      /\ row[op] \in {"collected", "published"} => status[op] \in {"running", "failed"}
      /\ row[op] = "collected" /\ status[op] = "failed" => old[op]
  BY <1>3 DEF DispatchInv, StatusInv
<1>10. /\ RequestTypes' /\ \A o \in Ops : o # op => status'[o] = status[o]
       /\ v = "unpublished" => status'[op] = "failed"
       /\ v \in {"collected", "published"} => status'[op] \in {"running", "failed"}
       /\ v = "collected" /\ status'[op] = "failed" => old[op]
  <2>1. CASE e = "unpublished"
    <3>1. FailRequest(op)
      BY <1>4, <2>1
    <3>2. /\ RequestTypes' /\ status'[op] \in Over
          /\ \A o \in Ops : status'[o] # status[o] => /\ o = op /\ status[o] \notin Over
                                                       /\ status'[o] = "failed"
      BY <1>1, <3>1, FailRequestIs
    <3>3. status[op] \in {"running", "failed"}
      BY <1>3, <1>9 DEF Reported
    <3>4. status'[op] = "failed"
      BY <3>2, <3>3 DEF Over
    <3>5. v # "collected"
      BY <1>5, <2>1
    <3> QED  BY <3>2, <3>4, <3>5
  <2>2. CASE e # "unpublished"
    <3>1. UNCHANGED request
      BY <1>4, <2>2
    <3>2. row[op] = "collected" => v \in {"collected", "published"}
      BY <1>2, <1>5, <2>2
    <3> QED  BY <1>1, <1>5, <1>9, <3>1, <3>2 DEF request, RequestTypes
  <2> QED  BY <2>1, <2>2
<1>11. PICK p \in Places : /\ p = At("track") /\ p.at = "track" /\ Holds(p)' /\ p # At("abandon")
  BY PlacesAre DEF Holds, At
<1>12. /\ pc' \in [Ticks -> Places] /\ pc'[t] = p /\ \A u \in Ticks \ {t} : pc'[u] = pc[u]
  BY <1>1, <1>4, <1>11 DEF MoveTo
<1>13. \A u \in Ticks : /\ pc[u].at = "calling" => pc[u].op # op
                        /\ pc[u].at = "called" => pc[u].op # op
  BY <1>3 DEF DispatchInv, PassInv, Holds, Reported
<1>14. trail' \in [Ops -> Trails]
  BY <1>4 DEF DispatchInv, TypeOK
<1>15. v \notin {"refreshed", "failed", "uncertain"}
  BY <1>6 DEF Reported
<1>16. TakesResult(op, v)
  BY <1>3, <1>4, <1>6, <1>8, <1>10, <1>14, <1>15 DEF TakesResult
<1>17. GoesOn(t, op, v, p)
  BY <1>1, <1>4, <1>11, <1>12, <1>13 DEF GoesOn
<1> QED
  BY <1>11, <1>16, <1>17, ResultStep

-----------------------------------------------------------------------------
(* Everything else, and the invariant. *)

\* Time and the runs' own progress: only an old start concerns the passes, and
\* nobody is about to call for one.
LEMMA WorldStep ==
  ASSUME DispatchInv, NEW op \in Ops, World(op)
  PROVE  DispatchInv'
<1>1. /\ UNCHANGED <<status, dispatch, stages, row, calls, asked, calm, todo, startsLeft, pc>>
      /\ \/ UNCHANGED old
         \/ /\ row[op] = "started" /\ \A t \in Ticks : pc[t] # On("calling", op)
            /\ old' = [old EXCEPT ![op] = TRUE]
  BY DEF World, Ripens, ExpiryPasses, StartGrowsOld, HorizonPasses, TrailMoves, Still, request, outside
<1>2. /\ available' \in [Ops -> BOOLEAN] /\ overdue' \in [Ops -> BOOLEAN] /\ old' \in [Ops -> BOOLEAN]
      /\ horizon' \in [Ops -> BOOLEAN]
  BY DEF DispatchInv, TypeOK, World, Ripens, ExpiryPasses, StartGrowsOld, HorizonPasses, TrailMoves,
         Still, request, outside
<1>3. trail' \in [Ops -> Trails]
  <2>1. trail' = trail \/ \E run \in Runs : trail' = [trail EXCEPT ![op] = run]
    BY DEF World, Ripens, ExpiryPasses, StartGrowsOld, HorizonPasses, TrailMoves, Still, request, outside
  <2> QED  BY <2>1, Requests DEF DispatchInv, TypeOK
<1>4. TypeOK'
  BY <1>1, <1>2, <1>3 DEF DispatchInv, TypeOK
<1>5. \A o \in Ops : old'[o] => old[o] \/ row[o] = "started"
  BY <1>1 DEF DispatchInv, TypeOK
<1>6. RowInv' /\ StatusInv' /\ PublishedHasEvidence'
  <2>1. \A o \in Ops : old[o] => old'[o]
    BY <1>1 DEF DispatchInv, TypeOK
  <2>2. StatusInv'
    BY <1>1, <2>1 DEF DispatchInv, StatusInv, Ops
  <2> QED  BY <1>1, <1>5, <2>2, RowStates DEF DispatchInv, RowInv, PublishedHasEvidence
<1>7. \A t \in Ticks : Holds(pc[t])'
  <2> SUFFICES ASSUME NEW t \in Ticks PROVE Holds(pc[t])'
    OBVIOUS
  <2>1. PICK q \in Places : q = pc[t] /\ Holds(q)
    BY DEF DispatchInv, TypeOK, PassInv
  <2>2. q.at = "calling" => old'[q.op] = old[q.op]
    <3> SUFFICES ASSUME q.at = "calling" PROVE old'[q.op] = old[q.op]
      OBVIOUS
    <3>1. q = On("calling", q.op) /\ q.op \in Ops
      BY DEF Places, On
    <3>2. UNCHANGED old \/ (q.op # op /\ old' = [old EXCEPT ![op] = TRUE])
      BY <1>1, <2>1, <3>1
    <3>3. DOMAIN old = Ops
      BY DEF DispatchInv, TypeOK
    <3> QED  BY <3>1, <3>2, <3>3
  <2>3. \A o \in Ops : Keeps(o)
    BY <1>1 DEF Keeps
  <2>4. Holds(q)'
    BY <1>1, <2>1, <2>2, <2>3, HoldsKeeps
  <2>5. q = pc'[t]
    BY <1>1, <2>1
  <2> QED  BY <2>4, <2>5 DEF Holds, Covered
<1>8. \A o \in Ops : old[o] => old'[o]
  BY <1>1 DEF DispatchInv, TypeOK
<1>9. PassInv'
  BY <1>1, <1>7, <1>8 DEF DispatchInv, PassInv, TypeOK, At
<1> QED
  BY <1>4, <1>6, <1>9 DEF DispatchInv

LEMMA DispatchInit == Init => DispatchInv
<1> SUFFICES ASSUME Init PROVE DispatchInv
  OBVIOUS
<1>1. Idle \in Places /\ Idle.at = "idle" /\ Idle # At("abandon")
  BY PlacesAre DEF Idle, At
<1>2. TypeOK
  <2>1. stages \in [Ops -> [Stages -> {"pending", "completed", "blocked"}]]
    BY DEF Init
  <2>2. /\ row \in [Ops -> Untouched \cup Declined \cup Results \cup {"started", "published", "unpublished"}]
        /\ trail \in [Ops -> Trails] /\ calls \in [Ops -> Nat] /\ asked \in Asked
        /\ todo \in [Ticks -> SUBSET Ops] /\ startsLeft \in [Ticks -> 0..1]
    BY DEF Init, Untouched, Trails
  <2>3. /\ status \in [Ops -> Over \cup {"accepted", "running"}]
        /\ dispatch \in [Ops -> {"dispatch_pending", "dispatched", "dispatch_failed"}]
        /\ available \in [Ops -> BOOLEAN] /\ pc \in [Ticks -> Places]
    BY <1>1 DEF Init
  <2>4. /\ overdue \in [Ops -> BOOLEAN] /\ old \in [Ops -> BOOLEAN] /\ horizon \in [Ops -> BOOLEAN]
        /\ calm \in BOOLEAN
    BY DEF Init
  <2> QED  BY <2>1, <2>2, <2>3, <2>4 DEF TypeOK
<1>3. RowInv /\ StatusInv /\ PublishedHasEvidence
  <2>1. \A op \in Ops : /\ row[op] = None /\ status[op] = "accepted" /\ calls[op] = 0 /\ ~old[op]
                        /\ stages[op]["projected"] = "pending"
    BY DEF Init, Stages
  <2>2. None \in Untouched
    BY DEF Untouched
  <2> QED  BY <2>1, <2>2, RowStates DEF RowInv, StatusInv, PublishedHasEvidence, Ops, Begun, Results
<1>4. PassInv
  BY <1>1 DEF Init, PassInv, Holds
<1> QED
  BY <1>2, <1>3, <1>4 DEF DispatchInv

LEMMA DispatchStep == DispatchInv /\ [Next \/ Calms]_vars => DispatchInv'
<1> SUFFICES ASSUME DispatchInv, [Next \/ Calms]_vars PROVE DispatchInv'
  OBVIOUS
<1>1. CASE \E t \in Ticks : Tick(t) \/ Stops(t)
  BY <1>1, QuietStep, RequestStep, RecordingStep, DecisionStep, CallStep, AnswerStep, AbandonStep,
     ConclusionStep DEF Tick, ReadsOnly
<1>2. CASE \E op \in Ops : World(op)
  BY <1>2, WorldStep
<1>3. CASE Calms \/ UNCHANGED vars
  <2>1. UNCHANGED <<request, stages, row, trail, calls, asked, overdue, old, horizon, todo,
                    startsLeft, pc>> /\ calm' \in BOOLEAN
    BY <1>3 DEF Calms, vars, outside, DispatchInv, TypeOK
  <2>2. TypeOK'
    BY <2>1 DEF DispatchInv, TypeOK, request
  <2>3. RowInv' /\ StatusInv' /\ PublishedHasEvidence'
    BY <2>1 DEF DispatchInv, RowInv, StatusInv, PublishedHasEvidence, request
  <2>4. PassInv'
    BY <2>1 DEF DispatchInv, PassInv, Holds, Covered, At
  <2> QED  BY <2>2, <2>3, <2>4 DEF DispatchInv
<1> QED
  BY <1>1, <1>2, <1>3 DEF Next

LEMMA StepsAreSteps == [Next]_vars => [Next \/ Calms]_vars
OBVIOUS

\* The inductive invariant, whatever passes overlap, stop, or find the rows moved
\* since they read them.
THEOREM DispatchInvariant == Spec \/ FairSpec => []DispatchInv
BY DispatchInit, DispatchStep, StepsAreSteps, PTL DEF Spec, FairSpec

\* The types of the lane's rows and of its passes.
THEOREM DispatchTyping == Spec \/ FairSpec => []TypeOK
<1>1. DispatchInv => TypeOK
  BY DEF DispatchInv
<1> QED  BY <1>1, DispatchInvariant, PTL

\* What a request says of its execution after every batch, for any number of
\* requests and of passes, and in which two cases it calls a collection with a
\* result failed: one collected after its start had grown old, and a published
\* one (which the documents rule out: PublishedKeepsRunning).
THEOREM RowsAgree == Spec \/ FairSpec => []RowsInStep
<1>1. DispatchInv => RowsInStep
  <2> SUFFICES ASSUME DispatchInv, NEW op \in Collect \cup Refresh
               PROVE  /\ row[op] \in Untouched => status[op] = "accepted"
                      /\ row[op] = "started" => status[op] = "running"
                      /\ row[op] = "refreshed" <=> status[op] = "completed"
                      /\ row[op] \in {"failed", "uncertain", "unpublished"} => status[op] = "failed"
                      /\ row[op] = "collected" => status[op] = "running" \/ (status[op] = "failed" /\ old[op])
                      /\ row[op] = "published" => status[op] \in {"running", "failed"}
                      /\ status[op] = "blocked" => row[op] \in Declined
    BY DEF RowsInStep
  <2>1. row[op] \in Untouched \cup Declined \cup Results \cup {"started", "published", "unpublished"}
    BY DEF DispatchInv, TypeOK, Ops
  <2> QED  BY <2>1 DEF DispatchInv, StatusInv, Results
<1> QED  BY <1>1, DispatchInvariant, PTL

\* Published means that every traced stage is on record, whichever pass's look
\* concluded it and whatever other looks wrote in between.
THEOREM PublishedEvidence == Spec \/ FairSpec => []PublishedHasEvidence
<1>1. DispatchInv => PublishedHasEvidence
  BY DEF DispatchInv
<1> QED  BY <1>1, DispatchInvariant, PTL

-----------------------------------------------------------------------------
(* What a step does to the executions, to the requests and to the stages. *)

\* The one way an execution goes.
Progress(op, v) ==
  \/ row[op] \in Untouched /\ v \in Declined \cup {"waiting", "started"}
  \/ row[op] = "started" /\ v \in Results
  \/ row[op] = "collected" /\ v \in Reported

LEMMA ExecutionStep ==
  ASSUME DispatchInv, [Next \/ Calms]_vars
  PROVE  \/ UNCHANGED <<row, calls>>
         \/ \E t \in Ticks : Calls(t)
         \/ /\ calls' = calls
            /\ \E op \in Ops, v \in Declined \cup Begun \cup {"waiting"} :
                 row' = [row EXCEPT ![op] = v] /\ Progress(op, v)
<1>1. /\ row \in [Ops -> Untouched \cup Declined \cup Results \cup {"started", "published", "unpublished"}]
      /\ \A t \in Ticks : pc[t] \in Places /\ Holds(pc[t]) /\ todo[t] \subseteq Ops
  BY DEF DispatchInv, TypeOK, PassInv
<1>2. ASSUME NEW t \in Ticks, Declines(t) \/ Waits(t) \/ Claims(t)
      PROVE  \/ UNCHANGED <<row, calls>>
             \/ /\ calls' = calls
                /\ \E op \in Ops, v \in Declined \cup Begun \cup {"waiting"} :
                     row' = [row EXCEPT ![op] = v] /\ Progress(op, v)
  <2>1. PICK op \in Ops : op = pc[t].op
    BY <1>1, <1>2, PlaceIs DEF WithOp, Declines, Waits, Claims
  <2>2. calls' = calls /\ (row[op] \notin Untouched => row' = row)
    BY <1>2, <2>1 DEF Declines, Waits, Claims, Claimable
  <2>3. row[op] \in Untouched =>
          \E v \in Declined \cup {"waiting", "started"} : row' = [row EXCEPT ![op] = v]
    <3>1. CASE Declines(t)
      BY <2>1, <3>1 DEF Declines, Declined
    <3>2. CASE Waits(t)
      BY <2>1, <3>2 DEF Waits
    <3>3. CASE Claims(t)
      BY <2>1, <3>3 DEF Claims, Claimable
    <3> QED  BY <1>2, <3>1, <3>2, <3>3
  <2>4. Declined \cup {"waiting", "started"} \subseteq Declined \cup Begun \cup {"waiting"}
    BY DEF Begun
  <2> QED  BY <2>2, <2>3, <2>4 DEF Progress
<1>3. ASSUME NEW t \in Ticks, Records(t) \/ Abandons(t) \/ Publishes(t)
      PROVE  \/ UNCHANGED <<row, calls>>
             \/ /\ calls' = calls
                /\ \E op \in Ops, v \in Declined \cup Begun \cup {"waiting"} :
                     row' = [row EXCEPT ![op] = v] /\ Progress(op, v)
  <2>1. PICK op \in Ops, v \in Results \cup Reported :
          /\ calls' = calls
          /\ \/ row' = [row EXCEPT ![op] = IF @ = "started" THEN v ELSE @] /\ v \in Results
             \/ row' = [row EXCEPT ![op] = IF @ = "collected" THEN v ELSE @] /\ v \in Reported
    <3>1. CASE Records(t)
      <4>1. PICK op \in Ops : op = pc[t].op
        BY <1>1, <3>1, PlaceIs DEF Records, WithOp
      <4>2. PICK v \in Answers(op) : row' = [row EXCEPT ![op] = Taken(op, v)]
        BY <3>1, <4>1 DEF Records
      <4>3. v \in Results /\ calls' = calls
        BY <3>1 DEF Records, Answers, Results
      <4>4. row' = [row EXCEPT ![op] = IF @ = "started" THEN v ELSE @]
        BY <1>1, <4>2 DEF Taken
      <4> QED  BY <4>3, <4>4
    <3>2. CASE Abandons(t)
      <4>1. /\ calls' = calls
            /\ \E op \in todo[t] : row' = [row EXCEPT ![op] = IF @ = "started" THEN "uncertain" ELSE @]
        BY <3>2 DEF Abandons
      <4> QED  BY <1>1, <4>1 DEF Results
    <3>3. CASE Publishes(t)
      <4>1. pc[t].op \in Ops /\ pc[t].ends \in Reported
        BY <1>1, <3>3, PlaceIs DEF Publishes, Reported, WithOp
      <4>2. row' = [row EXCEPT ![pc[t].op] = IF @ = "collected" THEN pc[t].ends ELSE @] /\ calls' = calls
        BY <3>3 DEF Publishes
      <4> QED  BY <4>1, <4>2
    <3> QED  BY <1>3, <3>1, <3>2, <3>3
  <2>2. CASE row' = [row EXCEPT ![op] = v] /\ Progress(op, v)
    <3>1. v \in Declined \cup Begun \cup {"waiting"}
      BY <2>1 DEF Begun, Reported, Results
    <3> QED  BY <2>1, <2>2, <3>1, Zenon
  <2>3. CASE row' = row
    BY <2>1, <2>3
  <2>4. row' = row \/ (row' = [row EXCEPT ![op] = v] /\ Progress(op, v))
    <3>1. CASE row' = [row EXCEPT ![op] = IF @ = "started" THEN v ELSE @] /\ v \in Results
      <4>1. row[op] # "started" => row' = row
        BY <1>1, <3>1
      <4> QED  BY <3>1, <4>1 DEF Progress
    <3>2. CASE row' = [row EXCEPT ![op] = IF @ = "collected" THEN v ELSE @] /\ v \in Reported
      <4>1. row[op] # "collected" => row' = row
        BY <1>1, <3>2
      <4> QED  BY <3>2, <4>1 DEF Progress
    <3> QED  BY <2>1, <3>1, <3>2
  <2> QED  BY <2>2, <2>3, <2>4
<1>4. ASSUME NEW t \in Ticks,
             \/ ReadsOnly(t) \/ BringsInStep(t) \/ DeclineReaches(t) \/ Requeues(t) \/ ImportRegisters(t)
             \/ Persists(t) \/ ImportStage(t) \/ ImportStalls(t) \/ SyncWrites(t)
      PROVE  UNCHANGED <<row, calls>>
  BY <1>4 DEF ReadsOnly, TickReads, TickTakes, AbandonReads, Looks, ImportRetries, DueReads, TrackReads,
     TrackEnds, SyncReads, Stops, BringsInStep, DeclineReaches, Requeues, ImportRegisters, Persists,
     ImportStage, ImportStalls, SyncWrites, Rest
<1>5. CASE \/ \E op \in Ops : World(op)
           \/ Calms \/ UNCHANGED vars
  BY <1>5 DEF World, Ripens, ExpiryPasses, StartGrowsOld, HorizonPasses, TrailMoves, Still, Calms, vars
<1> QED
  BY <1>2, <1>3, <1>4, <1>5 DEF Next, Tick, ReadsOnly

\* A request that is over and a stage on record stay as they are.
LEMMA RecordsStay ==
  ASSUME DispatchInv, [Next \/ Calms]_vars, NEW o \in Ops
  PROVE  /\ status[o] \in Over => status'[o] = status[o]
         /\ \A s \in Stages : stages[o][s] = "completed" => stages'[o][s] = "completed"
<1>1. /\ TypeOK /\ RequestTypes /\ \A t \in Ticks : pc[t] \in Places /\ todo[t] \subseteq Ops
  BY DEF DispatchInv, TypeOK, RequestTypes
<1>2. ASSUME NEW t \in Ticks, BringsInStep(t) \/ DeclineReaches(t) \/ Requeues(t) \/ ImportRegisters(t)
      PROVE  status[o] \in Over => status'[o] = status[o]
  <2>1. PICK op \in Ops, outcome \in {"dispatched", "retry", "failed"} : RecordDispatch(op, outcome)
    <3>1. pc[t].at \in {"inStep", "declined", "requeue", "look"}
      BY <1>2 DEF BringsInStep, DeclineReaches, Requeues, ImportRegisters
    <3>2. pc[t].op \in Ops /\ (pc[t].at = "inStep" => pc[t].as \in {"failed", "dispatched"})
      BY <1>1, <3>1, PlaceIs DEF WithOp
    <3> QED  BY <1>2, <3>2 DEF BringsInStep, DeclineReaches, Requeues, ImportRegisters
  <2> QED  BY <1>1, <2>1, RecordDispatchIs
<1>3. ASSUME NEW op \in Ops, FailRequest(op)
      PROVE  status[o] \in Over => status'[o] = status[o]
  BY <1>1, <1>3, FailRequestIs
<1>4. ASSUME NEW op \in Ops, NEW stage \in Stages, NEW state \in {"pending", "completed", "blocked"},
             RecordStage(op, stage, state), MayRecord(op, stage, state)
      PROVE  /\ status[o] \in Over => status'[o] = status[o]
             /\ \A s \in Stages : stages[o][s] = "completed" => stages'[o][s] = "completed"
  <2>1. /\ status[o] \in Over => status'[o] = status[o]
        /\ stages' = [stages EXCEPT ![op][stage] = state]
    BY <1>1, <1>4, RecordStageIs
  <2> QED  BY <1>1, <1>4, <2>1 DEF MayRecord, TypeOK
<1>5. ASSUME NEW t \in Ticks, Persists(t) \/ ImportStage(t) \/ ImportStalls(t) \/ SyncWrites(t)
      PROVE  \/ UNCHANGED <<request, stages>>
             \/ \E op \in Ops, stage \in Stages, state \in {"pending", "completed", "blocked"} :
                  RecordStage(op, stage, state) /\ MayRecord(op, stage, state)
  <2>1. pc[t].op \in Ops
    BY <1>1, <1>5, PlaceIs DEF Persists, ImportStage, ImportStalls, SyncWrites, WithOp
  <2>2. CASE Persists(t) \/ ImportStage(t)
    <3>1. \E stage \in Stages : RecordStage(pc[t].op, stage, "completed")
      BY <2>2 DEF Persists, ImportStage, Stages
    <3>2. \A stage : MayRecord(pc[t].op, stage, "completed")
      BY DEF MayRecord
    <3> QED  BY <2>1, <3>1, <3>2
  <2>3. CASE ImportStalls(t)
    <3>1. "registered" \in Stages
      BY DEF Stages
    <3> QED  BY <2>1, <2>3, <3>1 DEF ImportStalls
  <2>4. CASE SyncWrites(t)
    <3>1. PICK w \in Writes : w = pc[t].writes /\ w # <<>>
      BY <1>1, <2>4, PlaceIs DEF SyncWrites
    <3>2. Head(w) \in [stage : Stages, state : {"completed", "blocked"}]
      BY <3>1, FirstAndRest DEF Writes
    <3>3. Head(w).stage \in Stages /\ Head(w).state \in {"pending", "completed", "blocked"}
      BY <3>2
    <3> QED  BY <2>1, <2>4, <3>1, <3>3 DEF SyncWrites
  <2> QED  BY <1>5, <2>2, <2>3, <2>4
<1>6. ASSUME NEW t \in Ticks, Claims(t) \/ Records(t) \/ Abandons(t) \/ Publishes(t)
      PROVE  stages' = stages /\ (status[o] \in Over => status'[o] = status[o])
  <2>1. stages' = stages
    BY <1>6 DEF Claims, Records, Abandons, Publishes
  <2>2. CASE Claims(t)
    BY <1>1, <2>2 DEF Claims, RequestTypes, request
  <2>3. CASE Records(t)
    <3>1. PICK op \in Ops : op = pc[t].op
      BY <1>1, <2>3, PlaceIs DEF Records, WithOp
    <3>2. \/ status' = status
          \/ status' = [status EXCEPT ![op] =
               IF @ = "running" /\ row'[op] = "refreshed" THEN "completed" ELSE @]
          \/ FailRequest(op)
      <4>1. PICK result \in Answers(op) :
              CASE result = "collected" ->
                     IF row[op] = "started"
                     THEN /\ trail' \in {trail, [trail EXCEPT ![op] = "unreported"]}
                          /\ MoveTo(t, On("persist", op))
                          /\ UNCHANGED request
                     ELSE MoveTo(t, At("next")) /\ UNCHANGED <<trail, request>>
                [] result = "refreshed" ->
                     /\ status' = [status EXCEPT ![op] =
                          IF @ = "running" /\ row'[op] = "refreshed" THEN "completed" ELSE @]
                     /\ MoveTo(t, At("next"))
                     /\ UNCHANGED <<trail, dispatch, available>>
                [] OTHER ->
                     /\ FailRequest(op)
                     /\ MoveTo(t, At("next"))
                     /\ UNCHANGED trail
        BY <2>3, <3>1 DEF Records
      <4>2. CASE result = "collected"
        BY <4>1, <4>2 DEF request
      <4>3. CASE result = "refreshed"
        BY <4>1, <4>3
      <4>4. CASE result \notin {"collected", "refreshed"}
        BY <4>1, <4>4
      <4> QED  BY <4>2, <4>3, <4>4
    <3>3. "running" \notin Over /\ status \in [Ops -> Over \cup {"accepted", "running"}]
      BY <1>1 DEF Over, RequestTypes
    <3>4. status' = [status EXCEPT ![op] =
               IF @ = "running" /\ row'[op] = "refreshed" THEN "completed" ELSE @]
            => (status[o] \in Over => status'[o] = status[o])
      BY <3>3
    <3> QED  BY <1>3, <2>1, <3>1, <3>2, <3>4
  <2>4. CASE Abandons(t) \/ Publishes(t)
    <3>1. UNCHANGED request \/ \E op \in Ops : FailRequest(op)
      BY <1>1, <2>4, PlaceIs DEF Abandons, Publishes, WithOp
    <3> QED  BY <1>3, <2>1, <3>1 DEF request
  <2> QED  BY <1>6, <2>1, <2>2, <2>3, <2>4
<1>7. ASSUME NEW t \in Ticks, ReadsOnly(t) \/ Declines(t) \/ Waits(t) \/ Calls(t)
      PROVE  UNCHANGED <<request, stages>>
  BY <1>7 DEF ReadsOnly, TickReads, TickTakes, AbandonReads, Looks, ImportRetries, DueReads, TrackReads,
     TrackEnds, SyncReads, Stops, Declines, Waits, Calls, Rest
<1>8. ASSUME NEW t \in Ticks, BringsInStep(t) \/ DeclineReaches(t) \/ Requeues(t) \/ ImportRegisters(t)
      PROVE  stages' = stages
  BY <1>8 DEF BringsInStep, DeclineReaches, Requeues, ImportRegisters, Rest
<1>9. CASE \/ \E op \in Ops : World(op)
           \/ Calms \/ UNCHANGED vars
  BY <1>9 DEF World, Ripens, ExpiryPasses, StartGrowsOld, HorizonPasses, TrailMoves, Still, Calms, vars,
     request
<1> QED
  BY <1>2, <1>4, <1>5, <1>6, <1>7, <1>8, <1>9 DEF Next, Tick, ReadsOnly, request

\* A late answer, look, requeue or registration changes nothing that has ended.
THEOREM OutcomesFinal == Spec \/ FairSpec => OutcomeIsFinal
<1>1. DispatchInv /\ [Next \/ Calms]_vars
        => [\A op \in Ops :
              /\ row[op] \in Ended => row'[op] = row[op]
              /\ status[op] \in Over => status'[op] = status[op]
              /\ \A s \in Stages : stages[op][s] = "completed" => stages'[op][s] = "completed"]_vars
  <2> SUFFICES ASSUME DispatchInv, [Next \/ Calms]_vars, NEW op \in Ops
               PROVE  /\ row[op] \in Ended => row'[op] = row[op]
                      /\ status[op] \in Over => status'[op] = status[op]
                      /\ \A s \in Stages : stages[op][s] = "completed" => stages'[op][s] = "completed"
    OBVIOUS
  <2>1. ASSUME row[op] \in Ended PROVE row'[op] = row[op]
    <3>1. \A v : ~Progress(op, v)
      BY <2>1, NoRow DEF Progress, Ended, Untouched, Declined, Results
    <3> QED  BY <3>1, ExecutionStep DEF Calls, DispatchInv, TypeOK
  <2> QED  BY <2>1, RecordsStay
<1> QED
  BY <1>1, DispatchInvariant, StepsAreSteps, PTL DEF Spec, FairSpec, OutcomeIsFinal

-----------------------------------------------------------------------------
(* The ledger of AtMostOnce. *)

\* The status the executions have there.
LedgerStatus == [op \in Ops |-> IF row[op] \in Untouched THEN "open"
                                ELSE IF row[op] = "started" THEN "claimed" ELSE "settled"]

LEMMA StatusIs ==
  ASSUME NEW o \in Ops
  PROVE  /\ row[o] \in Untouched => LedgerStatus[o] = "open"
         /\ row[o] = "started" => LedgerStatus[o] = "claimed"
         /\ row[o] \in Declined \cup Results \cup Reported => LedgerStatus[o] = "settled"
         /\ row'[o] \in Untouched => LedgerStatus'[o] = "open"
         /\ row'[o] = "started" => LedgerStatus'[o] = "claimed"
         /\ row'[o] \in Declined \cup Results \cup Reported => LedgerStatus'[o] = "settled"
         /\ row'[o] = row[o] => LedgerStatus'[o] = LedgerStatus[o]
<1>1. /\ "started" \notin Untouched
      /\ \A v \in Declined \cup Results \cup Reported : v \notin Untouched /\ v # "started"
  BY NoRow DEF Untouched, Declined, Results, Reported
<1>2. /\ LedgerStatus[o] = IF row[o] \in Untouched THEN "open"
                           ELSE IF row[o] = "started" THEN "claimed" ELSE "settled"
      /\ LedgerStatus'[o] = IF row'[o] \in Untouched THEN "open"
                            ELSE IF row'[o] = "started" THEN "claimed" ELSE "settled"
  BY DEF LedgerStatus
<1> QED
  BY <1>1, <1>2

\* A step that changes one execution only.
LEMMA OneMoves ==
  ASSUME NEW op \in Ops, NEW s, \A o \in Ops \ {op} : row'[o] = row[o], LedgerStatus'[op] = s
  PROVE  LedgerStatus' = [LedgerStatus EXCEPT ![op] = s]
<1>1. \A o \in Ops \ {op} : LedgerStatus'[o] = LedgerStatus[o]
  BY StatusIs
<1>2. /\ LedgerStatus = [o \in Ops |-> LedgerStatus[o]]
      /\ LedgerStatus' = [o \in Ops |-> LedgerStatus'[o]]
  BY DEF LedgerStatus
<1> QED
  BY <1>1, <1>2

LEMMA StepInLedger ==
  ASSUME DispatchInv, [Next \/ Calms]_vars
  PROVE  Ledger!LedgerNext \/ UNCHANGED <<LedgerStatus, calls>>
<1>1. /\ DOMAIN row = Ops /\ calls \in [Ops -> Nat]
      /\ \A t \in Ticks : pc[t] \in Places /\ Holds(pc[t])
      /\ \A op \in Ops : row[op] \in Untouched => calls[op] = 0
  BY DEF DispatchInv, TypeOK, PassInv, RowInv
<1>2. CASE UNCHANGED <<row, calls>>
  BY <1>2 DEF LedgerStatus
<1>3. ASSUME NEW t \in Ticks, Calls(t)
      PROVE  Ledger!LedgerNext
  <2>1. PICK op \in Ops : op = pc[t].op
    BY <1>1, <1>3, PlaceIs DEF Calls, WithOp
  <2>2. row[op] = "started" /\ calls[op] = 0 /\ row' = row /\ calls' = [calls EXCEPT ![op] = @ + 1]
    BY <1>1, <1>3, <2>1 DEF Calls, Holds
  <2>3. /\ LedgerStatus[op] = "claimed" /\ LedgerStatus' = LedgerStatus
        /\ calls' = [calls EXCEPT ![op] = 1]
    BY <1>1, <2>2, StatusIs DEF LedgerStatus
  <2>4. Ledger!Contact(op)
    BY <2>2, <2>3 DEF Ledger!Contact, LedgerStatus
  <2> QED  BY <2>4 DEF Ledger!LedgerNext
<1>4. ASSUME calls' = calls, NEW op \in Ops, NEW v \in Declined \cup Begun \cup {"waiting"},
             row' = [row EXCEPT ![op] = v], Progress(op, v)
      PROVE  Ledger!LedgerNext \/ UNCHANGED <<LedgerStatus, calls>>
  <2>1. row'[op] = v /\ \A o \in Ops \ {op} : row'[o] = row[o]
    BY <1>1, <1>4
  <2>2. \A s : LedgerStatus'[op] = s => LedgerStatus' = [LedgerStatus EXCEPT ![op] = s]
    BY <2>1, OneMoves
  <2>3. LedgerStatus = [LedgerStatus EXCEPT ![op] = LedgerStatus[op]]
    BY DEF LedgerStatus
  <2>4. CASE row[op] \in Untouched /\ v = "started"
    <3>1. LedgerStatus[op] = "open" /\ LedgerStatus' = [LedgerStatus EXCEPT ![op] = "claimed"]
      BY <2>1, <2>2, <2>4, StatusIs
    <3>2. Ledger!Claim(op)
      BY <1>4, <3>1 DEF Ledger!Claim, LedgerStatus
    <3> QED  BY <3>2 DEF Ledger!LedgerNext
  <2>5. CASE row[op] \in Untouched /\ v \in Declined
    <3>1. /\ LedgerStatus[op] = "open" /\ LedgerStatus' = [LedgerStatus EXCEPT ![op] = "settled"]
          /\ calls[op] = 0
      BY <1>1, <2>1, <2>2, <2>5, StatusIs
    <3>2. Ledger!Drop(op)
      BY <1>4, <3>1 DEF Ledger!Drop, LedgerStatus
    <3> QED  BY <3>2 DEF Ledger!LedgerNext
  <2>6. CASE row[op] \in Untouched /\ v = "waiting"
    <3>1. LedgerStatus[op] = "open" /\ LedgerStatus'[op] = "open"
      BY <2>1, <2>6, StatusIs DEF Untouched
    <3>2. LedgerStatus' = LedgerStatus
      BY <2>2, <2>3, <3>1
    <3> QED  BY <1>4, <3>2
  <2>7. CASE row[op] = "started" /\ v \in Results
    <3>1. LedgerStatus[op] = "claimed" /\ LedgerStatus' = [LedgerStatus EXCEPT ![op] = "settled"]
      BY <2>1, <2>2, <2>7, StatusIs
    <3>2. LedgerStatus' = [o \in Ops |-> IF o \in {op} THEN "settled" ELSE LedgerStatus[o]]
      BY <3>1 DEF LedgerStatus
    <3>3. Ledger!Settle({op})
      BY <1>4, <3>1, <3>2 DEF Ledger!Settle, LedgerStatus
    <3> QED  BY <3>3 DEF Ledger!LedgerNext
  <2>8. CASE row[op] = "collected" /\ v \in Reported
    <3>1. LedgerStatus[op] = "settled" /\ LedgerStatus'[op] = "settled"
      BY <2>1, <2>8, StatusIs DEF Reported
    <3>2. LedgerStatus' = LedgerStatus
      BY <2>2, <2>3, <3>1
    <3> QED  BY <1>4, <3>2
  <2> QED  BY <1>4, <2>4, <2>5, <2>6, <2>7, <2>8 DEF Progress
<1> QED
  BY <1>2, <1>3, <1>4, ExecutionStep

\* Whatever passes overlap, stop or come late, a collector is called at most
\* once for a request, by the pass that claimed it and before its outcome is
\* known: the lane implements AtMostOnce.
THEOREM DispatchCallsOnce == Spec \/ FairSpec => CallsOnce
<1>1. Init => Ledger!LedgerInit
  <2> SUFFICES ASSUME Init PROVE Ledger!LedgerInit
    OBVIOUS
  <2>1. \A op \in Ops : LedgerStatus[op] = "open"
    BY StatusIs DEF Init, Untouched
  <2>2. LedgerStatus = [op \in Ops |-> "open"]
    BY <2>1 DEF LedgerStatus
  <2> QED  BY <2>2 DEF Init, Ledger!LedgerInit, LedgerStatus
<1>2. DispatchInv /\ [Next \/ Calms]_vars => [Ledger!LedgerNext]_(Ledger!ledger)
  BY StepInLedger DEF Ledger!ledger, LedgerStatus
<1> QED
  BY <1>1, <1>2, DispatchInvariant, StepsAreSteps, PTL
     DEF Spec, FairSpec, CallsOnce, Ledger!LedgerSpec
=============================================================================
