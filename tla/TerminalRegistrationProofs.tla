---------------------- MODULE TerminalRegistrationProofs ----------------------
(***************************************************************************)
(* Type correctness of the collectors and of the registration, that a      *)
(* terminal has its objects and that what is registered is whole, for      *)
(* every number of runs, objects, attempts and deliveries and every        *)
(* budget, by one inductive invariant.                                     *)
(*                                                                         *)
(* The argument.  A collector has stored what it has counted, so the       *)
(* terminal it writes names stored objects; the terminal and the bucket    *)
(* are never taken back, which is all the registration needs of the        *)
(* collectors (Settled).  A call works on a run that has a terminal and is *)
(* not refused, catalogues what it found in the bucket, and inserts no     *)
(* item beyond the slice it took (CallInv); so the catalogue is stored,    *)
(* the completeness test at the seal makes the sealed run whole, and what  *)
(* another call does to a sealed run changes nothing of it (RunInv).       *)
(***************************************************************************)
EXTENDS TerminalRegistration, NatExtremes, TLAPS

\* What an attempt knows to be stored is, and only an attempt under way knows
\* of anything.
WriterInv ==
  /\ \A w \in Writers : /\ writer[w].done \subseteq bucket
                        /\ writer[w].at # "puts" => writer[w].done = {}
  /\ TerminalHasObjects

CallInv(c) ==
  /\ call[c].at \in Steps => terminal[Run(c)] # None
  /\ call[c].at \in Steps \ {"blocks"} => Run(c) \notin Refused
  /\ call[c].at \in {"links", "completes"} => Fetch(c).sealed
  /\ call[c].new \subseteq call[c].slice

RunInv(r) ==
  /\ fetchRun[r].catalogue \subseteq bucket
  /\ fetchRun[r].sealed =>
       /\ terminal[r] # None /\ fetchRun[r].reported
       /\ fetchRun[r].catalogue = terminal[r] /\ fetchRun[r].items = terminal[r]
  /\ row[r].linked => fetchRun[r].sealed /\ r \notin Refused

RegistrationInv ==
  /\ TypeOK
  /\ WriterInv
  /\ \A c \in Callers : CallInv(c)
  /\ \A r \in Runs : RunInv(r)

-----------------------------------------------------------------------------
(* The collectors. *)

\* An attempt's step keeps what its type and the invariant say of the bucket,
\* the terminals and the attempts.
LEMMA WriterStep ==
  ASSUME WriterTypeOK, WriterInv, NEW w \in Writers, Writes(w)
  PROVE  (WriterTypeOK /\ WriterInv)'
<1> USE Writing DEF WriterTypeOK, WriterInv, TerminalHasObjects, Terminal, Told, Verdict
<1>1. RunOf[w] \in Runs /\ Manifest[w] \subseteq Objects /\ Manifest[w] # None
  OBVIOUS
<1>2. CASE Persists(w)
  <2>1. CASE Terminal(w) # None
    <3>1. /\ bucket' = bucket /\ terminal' = terminal
          /\ writer' = [writer EXCEPT ![w] = [at |-> Verdict(w), done |-> {}]]
      BY <1>2, <2>1 DEF Persists
    <3>2. WriterTypeOK'
      BY <1>1, <3>1
    <3> QED  BY <1>1, <3>1, <3>2
  <2>2. CASE Terminal(w) = None
    <3>1. /\ bucket' = bucket /\ terminal' = terminal /\ writer[w].done = {}
          /\ writer' = [writer EXCEPT ![w].at = "puts"]
      BY <1>2, <2>2 DEF Persists
    <3>2. WriterTypeOK'
      BY <3>1
    <3>3. TerminalHasObjects'
      BY <3>1
    <3> QED  BY <3>1, <3>2, <3>3
  <2> QED  BY <2>1, <2>2
<1>3. CASE PutsObject(w)
  <2>1. PICK o \in Manifest[w] \ writer[w].done :
          /\ bucket' = bucket \cup {o} /\ writer' = [writer EXCEPT ![w].done = @ \cup {o}]
    BY <1>3 DEF PutsObject
  <2> QED  BY <1>1, <1>3, <2>1 DEF PutsObject
<1>4. CASE PutsTerminal(w)
  <2>1. CASE CreateOnly(w)
    <3>1. /\ terminal[RunOf[w]] = None /\ writer[w].done = Manifest[w] /\ bucket' = bucket
          /\ terminal' = [terminal EXCEPT ![RunOf[w]] = Manifest[w]]
          /\ writer' = [writer EXCEPT ![w] = [at |-> "persisted", done |-> {}]]
      BY <1>4, <2>1 DEF PutsTerminal, Stored, CreateOnly
    <3>2. WriterTypeOK'
      BY <1>1, <3>1
    <3>3. TerminalHasObjects'
      BY <1>1, <3>1
    <3> QED  BY <1>1, <3>1, <3>2, <3>3
  <2>2. CASE ~CreateOnly(w)
    <3>1. /\ bucket' = bucket /\ terminal' = terminal
          /\ writer' = [writer EXCEPT ![w] = [at |-> Verdict(w), done |-> {}]]
      BY <1>4, <2>2 DEF PutsTerminal
    <3>2. WriterTypeOK'
      BY <1>1, <3>1
    <3>3. TerminalHasObjects'
      BY <1>1, <3>1
    <3> QED  BY <1>1, <3>1, <3>2, <3>3
  <2> QED  BY <2>1, <2>2
<1>5. CASE Interrupted(w)
  <2>1. CASE UNCHANGED <<bucket, terminal>>
    BY <1>1, <1>5, <2>1 DEF Interrupted
  <2>2. ASSUME NEW o \in Manifest[w], bucket' = bucket \cup {o}, UNCHANGED terminal
        PROVE  (WriterTypeOK /\ WriterInv)'
    BY <1>1, <1>5, <2>2 DEF Interrupted
  <2>3. CASE /\ Stored(w) /\ CreateOnly(w)
             /\ terminal' = [terminal EXCEPT ![RunOf[w]] = Manifest[w]] /\ UNCHANGED bucket
    BY <1>1, <1>5, <2>3 DEF Interrupted, Stored, CreateOnly
  <2> QED  BY <1>5, <2>1, <2>2, <2>3 DEF Interrupted
<1> QED
  BY <1>2, <1>3, <1>4, <1>5 DEF Writes

\* Nothing stored is taken back, and a terminal is written once.
Settled == /\ bucket \subseteq bucket'
           /\ \A r \in Runs : terminal[r] # None => terminal'[r] = terminal[r]

LEMMA WriterSettles ==
  ASSUME WriterTypeOK, NEW w \in Writers, Writes(w)
  PROVE  Settled
BY Writing DEF WriterTypeOK, Settled, Writes, Persists, PutsObject, PutsTerminal, Interrupted,
   CreateOnly, Terminal

-----------------------------------------------------------------------------
(* The registration. *)

RowType == [blocked : BOOLEAN, linked : BOOLEAN, completed : BOOLEAN, waits : BOOLEAN,
            latest : {"none", "pending", "completed", "retryable", "blocked"}]
FetchType == [catalogue : SUBSET Objects, items : SUBSET Objects,
              reported : BOOLEAN, sealed : BOOLEAN]
CallType == [at : Rest \cup Steps, run : Runs, held : SUBSET Objects,
             slice : SUBSET Objects, new : SUBSET Objects,
             declared : BOOLEAN, left : 0..Budget]

CoreTypeOK == /\ row \in [Runs -> RowType]
              /\ fetchRun \in [Runs -> FetchType]
              /\ call \in [Callers -> CallType]

\* What a caller's step keeps, while the bucket and the terminals stay as they
\* are: the types, the other callers, every run, and its own part.
Keeps(c) ==
  /\ CoreTypeOK'
  /\ \A d \in Callers : d # c => call'[d] = call[d]
  /\ CallInv(c)'
  /\ \A r \in Runs : RunInv(r)' /\ (fetchRun[r].sealed => fetchRun'[r].sealed)

\* A stage row says nothing of the link.
LEMMA StageKeeps ==
  ASSUME row \in [Runs -> RowType], NEW r \in Runs,
         NEW state \in {"none", "pending", "completed", "retryable", "blocked"},
         Stage(r, state)
  PROVE  row' \in [Runs -> RowType] /\ \A q \in Runs : row'[q].linked = row[q].linked
<1> DEFINE done == row[r].completed \/ state = "completed"
           late == state = "retryable"
<1>1. done \in BOOLEAN /\ late \in BOOLEAN
  BY Zenon
<1>2. row' = [row EXCEPT ![r].latest = state, ![r].completed = done, ![r].waits = late]
  BY DEF Stage
<1> HIDE DEF done, late
<1> QED
  BY <1>1, <1>2 DEF RowType

LEMMA GoesKeeps ==
  ASSUME call \in [Callers -> CallType], NEW c \in Callers, NEW at \in Rest \cup Steps,
         Goes(c, at)
  PROVE  /\ call' \in [Callers -> CallType]
         /\ \A d \in Callers : d # c => call'[d] = call[d]
         /\ call'[c].at = at
         /\ call'[c].run = call[c].run
         /\ call'[c].slice = call[c].slice /\ call'[c].new = call[c].new
BY DEF Goes, CallType

LEMMA EndsKeeps ==
  ASSUME call \in [Callers -> CallType], NEW c \in Callers, NEW outcome \in Rest,
         Ends(c, outcome)
  PROVE  /\ call' \in [Callers -> CallType]
         /\ \A d \in Callers : d # c => call'[d] = call[d]
         /\ call'[c].at = outcome /\ call'[c].new = {}
<1> DEFINE rest == Resting(Run(c), call[c].left)
           to == [rest EXCEPT !.at = outcome]
<1>1. call[c] \in CallType
  OBVIOUS
<1>2. rest \in CallType /\ rest.new = {}
  BY <1>1 DEF Resting, Run, CallType, Rest
<1>3. to \in CallType /\ to.at = outcome /\ to.new = {}
  BY <1>2 DEF CallType
<1>4. call' = [call EXCEPT ![c] = to]
  BY DEF Ends
<1> HIDE DEF to
<1> QED
  BY <1>3, <1>4

\* No run is disturbed by a step that writes neither a link nor the catalogue.
LEMMA RunsKept ==
  ASSUME UNCHANGED <<bucket, terminal, fetchRun>>,
         \A r \in Runs : RunInv(r) /\ row'[r].linked = row[r].linked
  PROVE  \A r \in Runs : RunInv(r)' /\ (fetchRun[r].sealed => fetchRun'[r].sealed)
BY DEF RunInv

\* A call at rest has nothing to keep.
LEMMA RestKeeps ==
  ASSUME NEW c \in Callers, call'[c].at \in Rest, call'[c].new = {}
  PROVE  CallInv(c)'
BY DEF CallInv, Rest, Steps

\* A call that is refused, blocks its run, or yields.
LEMMA SetAsideKeeps ==
  ASSUME RegistrationInv, NEW c \in Callers, call[c].at \in Steps,
         UNCHANGED <<bucket, terminal, fetchRun>>,
         Blocks(c) \/ Denied(c) \/ Yields(c)
  PROVE  Keeps(c)
<1>1. CoreTypeOK /\ call[c].run \in Runs /\ CallInv(c) /\ \A r \in Runs : RunInv(r)
  BY DEF RegistrationInv, TypeOK, CoreTypeOK, RowType, FetchType, CallType
<1>2. row' \in [Runs -> RowType] /\ \A q \in Runs : row'[q].linked = row[q].linked
  BY <1>1, StageKeeps DEF CoreTypeOK, Blocks, Denied, Yields, Run
<1>3. \A r \in Runs : RunInv(r)' /\ (fetchRun[r].sealed => fetchRun'[r].sealed)
  BY <1>1, <1>2, RunsKept
<1>4. CASE Blocks(c)
  <2>1. /\ call' \in [Callers -> CallType]
        /\ \A d \in Callers : d # c => call'[d] = call[d]
        /\ call'[c].at = "blocks" /\ call'[c].run = call[c].run
        /\ call'[c].slice = call[c].slice /\ call'[c].new = call[c].new
    BY <1>1, <1>4, GoesKeeps DEF CoreTypeOK, Blocks, Steps
  <2>2. CallInv(c)'
    BY <1>1, <2>1 DEF CallInv, Run, Fetch, Steps
  <2> QED  BY <1>1, <1>2, <1>3, <2>1, <2>2 DEF Keeps, CoreTypeOK
<1>5. CASE Denied(c) \/ Yields(c)
  <2>1. /\ call' \in [Callers -> CallType]
        /\ \A d \in Callers : d # c => call'[d] = call[d]
        /\ call'[c].at = "worked" /\ call'[c].new = {}
    BY <1>1, <1>5, EndsKeeps DEF CoreTypeOK, Denied, Yields, Rest
  <2> QED  BY <1>1, <1>2, <1>3, <2>1, RestKeeps DEF Keeps, CoreTypeOK, Rest
<1> QED
  BY <1>4, <1>5

\* What the invariant says of a caller.
LEMMA CallFacts ==
  ASSUME RegistrationInv, NEW c \in Callers
  PROVE  /\ CoreTypeOK /\ call[c] \in CallType /\ Run(c) \in Runs
         /\ row[Run(c)] \in RowType /\ Fetch(c) \in FetchType
         /\ CallInv(c) /\ \A r \in Runs : RunInv(r)
         /\ call[c].at \in Steps => Named(c) # None /\ Named(c) \subseteq Objects
BY DEF RegistrationInv, TypeOK, WriterTypeOK, CoreTypeOK, RowType, FetchType, CallType, CallInv,
   Run, Fetch, Named

\* A step to the next point of the call that writes nothing.
LEMMA MovesKeeps ==
  ASSUME RegistrationInv, NEW c \in Callers, call[c].at \in Steps \ {"blocks"},
         UNCHANGED <<bucket, terminal, core>>,
         call' \in [Callers -> CallType], \A d \in Callers : d # c => call'[d] = call[d],
         call'[c].run = call[c].run, call'[c].new \subseteq call'[c].slice,
         call'[c].at \in {"links", "completes"} => Fetch(c).sealed
  PROVE  Keeps(c)
<1>1. CallInv(c)' /\ \A r \in Runs : RunInv(r)' /\ (fetchRun[r].sealed => fetchRun'[r].sealed)
  BY CallFacts DEF CallInv, RunInv, Run, Fetch, core
<1> QED
  BY <1>1, CallFacts DEF Keeps, CoreTypeOK, core

\* The same, for a step that only goes on.
LEMMA GoesOnKeeps ==
  ASSUME RegistrationInv, NEW c \in Callers, call[c].at \in Steps \ {"blocks"},
         UNCHANGED <<bucket, terminal, core>>, NEW at \in Steps, Goes(c, at),
         at \in {"links", "completes"} => Fetch(c).sealed
  PROVE  Keeps(c)
<1>1. CoreTypeOK /\ CallInv(c)
  BY CallFacts
<1>2. /\ call' \in [Callers -> CallType] /\ \A d \in Callers : d # c => call'[d] = call[d]
      /\ call'[c].run = call[c].run /\ call'[c].at = at
      /\ call'[c].slice = call[c].slice /\ call'[c].new = call[c].new
  BY <1>1, GoesKeeps DEF CoreTypeOK
<1> QED
  BY <1>1, <1>2, MovesKeeps DEF CallInv

LEMMA StartsKeeps ==
  ASSUME RegistrationInv, NEW c \in Callers, NEW r \in Runs, NEW left \in 0..Budget,
         Starts(c, r, left), UNCHANGED <<bucket, terminal>>
  PROVE  Keeps(c)
<1> DEFINE rest == Resting(r, left)
           go(at) == [rest EXCEPT !.at = at]
<1>1. CoreTypeOK /\ \A q \in Runs : RunInv(q)
  BY CallFacts
<1>2. rest \in CallType /\ rest.run = r /\ rest.new = {} /\ rest.slice = {}
  BY DEF Resting, CallType, Rest
<1>3. \A at \in Rest \cup Steps :
        /\ go(at) \in CallType /\ go(at).at = at /\ go(at).run = r
        /\ go(at).new = {} /\ go(at).slice = {}
  BY <1>2 DEF CallType
<1>4. PICK at \in Rest \cup {"blocks", "verifies"} :
        /\ call' = [call EXCEPT ![c] = go(at)]
        /\ at \in {"blocks", "verifies"} => terminal[r] # None
        /\ at = "verifies" => r \notin Refused
        /\ row' = row \/ Stage(r, "blocked")
  BY DEF Starts, Rest
<1>5. at \in Rest \cup Steps
  BY DEF Steps
<1> HIDE DEF rest, go
<1>6. /\ call' \in [Callers -> CallType] /\ call'[c] = go(at)
      /\ \A d \in Callers : d # c => call'[d] = call[d]
  BY <1>1, <1>3, <1>4, <1>5 DEF CoreTypeOK
<1>7. CallInv(c)'
  BY <1>3, <1>4, <1>5, <1>6 DEF CallInv, Run, Rest, Steps
<1>8. row' \in [Runs -> RowType] /\ \A q \in Runs : row'[q].linked = row[q].linked
  BY <1>1, <1>4, StageKeeps DEF CoreTypeOK
<1>9. fetchRun' = fetchRun
  BY DEF Starts
<1>10. \A q \in Runs : RunInv(q)' /\ (fetchRun[q].sealed => fetchRun'[q].sealed)
  BY <1>1, <1>8, <1>9, RunsKept
<1> QED
  BY <1>1, <1>6, <1>7, <1>8, <1>9, <1>10 DEF Keeps, CoreTypeOK

\* A call that ends and writes to the run's row no more than a stage or a block.
LEMMA RowKeeps ==
  ASSUME RegistrationInv, NEW c \in Callers, UNCHANGED <<bucket, terminal, fetchRun>>,
         row' \in [Runs -> RowType], \A r \in Runs : row'[r].linked = row[r].linked,
         Ends(c, "worked")
  PROVE  Keeps(c)
<1>1. CoreTypeOK /\ \A r \in Runs : RunInv(r)
  BY CallFacts
<1>2. /\ call' \in [Callers -> CallType] /\ \A d \in Callers : d # c => call'[d] = call[d]
      /\ call'[c].at = "worked" /\ call'[c].new = {}
  BY <1>1, EndsKeeps DEF CoreTypeOK, Rest
<1> QED
  BY <1>1, <1>2, RunsKept, RestKeeps DEF Keeps, CoreTypeOK, Rest

\* The steps before anything is catalogued, and those that end a call.
LEMMA EndingKeeps ==
  ASSUME RegistrationInv, NEW c \in Callers, UNCHANGED <<bucket, terminal>>,
         BlocksRow(c) \/ Verifies(c) \/ Creates(c) \/ HoldsItems(c) \/ Completes(c)
  PROVE  Keeps(c)
<1>1. CoreTypeOK /\ call[c] \in CallType /\ Run(c) \in Runs /\ Fetch(c) \in FetchType /\ CallInv(c)
  BY CallFacts
<1>2. CASE BlocksRow(c)
  <2>1. PICK blocked \in BOOLEAN : row' = [row EXCEPT ![Run(c)].blocked = blocked]
    <3>1. (row[Run(c)].blocked \/ ~row[Run(c)].linked) \in BOOLEAN
      BY Zenon
    <3> QED  BY <1>2, <3>1 DEF BlocksRow
  <2>2. row' \in [Runs -> RowType] /\ \A r \in Runs : row'[r].linked = row[r].linked
    BY <1>1, <2>1 DEF CoreTypeOK, RowType
  <2> QED  BY <1>2, <2>2, RowKeeps DEF BlocksRow
<1>3. CASE Verifies(c)
  BY <1>3, GoesOnKeeps, SetAsideKeeps DEF Verifies, Steps, core
<1>4. CASE Creates(c)
  <2>1. CASE Denied(c)
    BY <1>4, <2>1, SetAsideKeeps DEF Creates, Denied, Steps
  <2>2. CASE ~Denied(c)
    <3>1. UNCHANGED core /\ call' = [call EXCEPT ![c].at = "catalogues", ![c].held = Fetch(c).catalogue]
      BY <1>4, <2>2 DEF Creates, Already
    <3>2. /\ call' \in [Callers -> CallType] /\ \A d \in Callers : d # c => call'[d] = call[d]
          /\ call'[c].run = call[c].run /\ call'[c].at = "catalogues"
          /\ call'[c].slice = call[c].slice /\ call'[c].new = call[c].new
      BY <1>1, <3>1 DEF CoreTypeOK, CallType, FetchType, Steps
    <3> QED  BY <1>1, <1>4, <3>1, <3>2, MovesKeeps DEF Creates, CallInv, Steps
  <2> QED  BY <2>1, <2>2
<1>5. CASE HoldsItems(c)
  <2>1. UNCHANGED core /\ call' = [call EXCEPT ![c].at = "items", ![c].held = Fetch(c).items]
    BY <1>5 DEF HoldsItems
  <2>2. /\ call' \in [Callers -> CallType] /\ \A d \in Callers : d # c => call'[d] = call[d]
        /\ call'[c].run = call[c].run /\ call'[c].at = "items"
        /\ call'[c].slice = call[c].slice /\ call'[c].new = call[c].new
    BY <1>1, <2>1 DEF CoreTypeOK, CallType, FetchType, Steps
  <2> QED  BY <1>1, <1>5, <2>1, <2>2, MovesKeeps DEF HoldsItems, CallInv, Steps
<1>6. CASE Completes(c)
  <2>1. row' \in [Runs -> RowType] /\ \A r \in Runs : row'[r].linked = row[r].linked
    BY <1>1, <1>6, StageKeeps DEF CoreTypeOK, Completes
  <2> QED  BY <1>6, <2>1, RowKeeps DEF Completes
<1> QED
  BY <1>2, <1>3, <1>4, <1>5, <1>6

\* One artifact.  A sealed run's catalogue stays as it is.
LEMMA CataloguesKeeps ==
  ASSUME RegistrationInv, NEW c \in Callers, UNCHANGED <<bucket, terminal>>, Catalogues(c)
  PROVE  Keeps(c)
<1>1. /\ CoreTypeOK /\ call[c] \in CallType /\ Run(c) \in Runs /\ Fetch(c) \in FetchType /\ CallInv(c)
      /\ \A r \in Runs : RunInv(r)
  BY CallFacts
<1>2. call[c].at = "catalogues" /\ call[c].at \in Steps \ {"blocks"}
  BY DEF Catalogues, Steps
<1>3. Named(c) \subseteq Objects
  BY <1>2, CallFacts
<1>4. CASE UNCHANGED core /\ Goes(c, IF Staged(c) THEN "holds" ELSE "reports")
  <2>1. PICK at \in {"holds", "reports"} : Goes(c, at)
    BY <1>4
  <2> QED  BY <1>2, <1>4, <2>1, GoesOnKeeps DEF Steps
<1>5. CASE UNCHANGED fetchRun /\ (Yields(c) \/ Denied(c) \/ Blocks(c))
  BY <1>2, <1>5, SetAsideKeeps
<1>6. ASSUME NEW o \in Named(c), o \in bucket, Paid(c), UNCHANGED row,
             fetchRun' = [fetchRun EXCEPT ![Run(c)].catalogue = IF Fetch(c).sealed THEN @ ELSE @ \cup {o}],
             call' = [call EXCEPT ![c].held = @ \cup {o}, ![c].left = @ - 1]
      PROVE  Keeps(c)
  <2>1. o \in Objects /\ call[c].left \in 0..Budget /\ call[c].left - 1 \in 0..Budget
    BY <1>1, <1>3, <1>6, Registering DEF Paid, CallType
  <2>2. /\ call' \in [Callers -> CallType] /\ \A d \in Callers : d # c => call'[d] = call[d]
        /\ call'[c].run = call[c].run /\ call'[c].at = "catalogues"
        /\ call'[c].slice = call[c].slice /\ call'[c].new = call[c].new
    BY <1>1, <1>2, <1>6, <2>1 DEF CoreTypeOK, CallType
  <2>3. CallInv(c)'
    BY <1>1, <1>2, <2>2 DEF CallInv, Run
  <2>4. CASE Fetch(c).sealed
    <3>1. fetchRun' = fetchRun
      <4>1. fetchRun[Run(c)] = [fetchRun[Run(c)] EXCEPT !.catalogue = @]
        BY <1>1 DEF FetchType, Fetch
      <4> QED  BY <1>1, <1>6, <2>4, <4>1 DEF CoreTypeOK, Fetch, FetchType
    <3> QED  BY <1>1, <1>6, <2>2, <2>3, <3>1, RunsKept DEF Keeps, CoreTypeOK
  <2>5. CASE ~Fetch(c).sealed
    <3>1. fetchRun' = [fetchRun EXCEPT ![Run(c)].catalogue = @ \cup {o}]
      BY <1>6, <2>5
    <3>2. fetchRun' \in [Runs -> FetchType]
      BY <1>1, <2>1, <3>1 DEF CoreTypeOK, FetchType
    <3>3. \A r \in Runs : RunInv(r)' /\ (fetchRun[r].sealed => fetchRun'[r].sealed)
      BY <1>1, <1>6, <2>5, <3>1 DEF RunInv, CoreTypeOK, FetchType, Fetch
    <3> QED  BY <1>1, <1>6, <2>2, <2>3, <3>2, <3>3 DEF Keeps, CoreTypeOK
  <2> QED  BY <2>4, <2>5
<1> QED
  <2>1. (Yields(c) \/ Denied(c)) => UNCHANGED fetchRun
    BY DEF Yields, Denied
  <2>2. CASE Named(c) \ call[c].held = {}
    BY <1>4, <2>2 DEF Catalogues
  <2>3. CASE Named(c) \ call[c].held # {} /\ (~Paid(c) \/ Denied(c))
    BY <1>5, <1>6, <2>1, <2>3 DEF Catalogues
  <2>4. CASE Named(c) \ call[c].held # {} /\ Paid(c) /\ ~Denied(c)
    <3>1. PICK o \in Named(c) \ call[c].held :
            IF o \notin bucket THEN Blocks(c) /\ UNCHANGED fetchRun
            ELSE /\ fetchRun' = [fetchRun EXCEPT ![Run(c)].catalogue =
                                   IF Fetch(c).sealed THEN @ ELSE @ \cup {o}]
                 /\ call' = [call EXCEPT ![c].held = @ \cup {o}, ![c].left = @ - 1]
                 /\ UNCHANGED row
      BY <2>4 DEF Catalogues
    <3> QED  BY <1>5, <1>6, <2>4, <3>1
  <2> QED  BY <2>2, <2>3, <2>4

\* The inventory.  Of a sealed run only what is there is inserted again.
LEMMA TakesSliceKeeps ==
  ASSUME RegistrationInv, NEW c \in Callers, UNCHANGED <<bucket, terminal>>, TakesSlice(c)
  PROVE  Keeps(c)
<1>1. CoreTypeOK /\ call[c] \in CallType /\ CallInv(c)
  BY CallFacts
<1>2. call[c].at = "items" /\ call[c].at \in Steps \ {"blocks"}
  BY DEF TakesSlice, Steps
<1>3. Named(c) \subseteq Objects
  BY <1>2, CallFacts
<1>4. CASE Goes(c, "reports") /\ UNCHANGED core
  BY <1>2, <1>4, GoesOnKeeps DEF Steps
<1>5. CASE Yields(c) \/ Denied(c)
  BY <1>2, <1>5, SetAsideKeeps DEF Yields, Denied
<1>6. ASSUME NEW s \in SUBSET Named(c), Paid(c), UNCHANGED core,
             call' = [call EXCEPT ![c].at = "room", ![c].left = @ - 1, ![c].slice = s,
                                  ![c].new = s \ Fetch(c).items]
      PROVE  Keeps(c)
  <2>1. s \in SUBSET Objects /\ call[c].left \in 0..Budget /\ call[c].left - 1 \in 0..Budget
    BY <1>1, <1>3, <1>6, Registering DEF Paid, CallType
  <2>2. /\ call' \in [Callers -> CallType] /\ \A d \in Callers : d # c => call'[d] = call[d]
        /\ call'[c].run = call[c].run /\ call'[c].at = "room"
        /\ call'[c].slice = s /\ call'[c].new = s \ Fetch(c).items
    BY <1>1, <1>6, <2>1 DEF CoreTypeOK, CallType, Steps
  <2> QED  BY <1>2, <1>6, <2>2, MovesKeeps
<1> QED
  BY <1>4, <1>5, <1>6 DEF TakesSlice, Slices

LEMMA ChecksRoomKeeps ==
  ASSUME RegistrationInv, NEW c \in Callers, UNCHANGED <<bucket, terminal>>, ChecksRoom(c)
  PROVE  Keeps(c)
<1>1. call[c].at \in Steps \ {"blocks"}
  BY DEF ChecksRoom, Steps
<1>2. CASE Overflows(c)
  BY <1>1, <1>2, SetAsideKeeps DEF ChecksRoom
<1>3. CASE ~Overflows(c)
  BY <1>1, <1>3, GoesOnKeeps DEF ChecksRoom, Steps, core
<1> QED
  BY <1>2, <1>3

LEMMA InsertsItemsKeeps ==
  ASSUME RegistrationInv, NEW c \in Callers, UNCHANGED <<bucket, terminal>>, InsertsItems(c)
  PROVE  Keeps(c)
<1>1. /\ CoreTypeOK /\ call[c] \in CallType /\ Run(c) \in Runs /\ Fetch(c) \in FetchType /\ CallInv(c)
      /\ \A r \in Runs : RunInv(r)
  BY CallFacts
<1>2. call[c].at = "inserts" /\ call[c].at \in Steps \ {"blocks"} /\ row' = row
  BY DEF InsertsItems, Steps
<1>3. CASE Ends(c, "worked") /\ UNCHANGED fetchRun
  BY <1>1, <1>2, <1>3, RowKeeps DEF CoreTypeOK
<1>4. CASE /\ fetchRun' = [fetchRun EXCEPT ![Run(c)].items = @ \cup call[c].new]
           /\ call' = [call EXCEPT ![c].at = "items", ![c].held = @ \cup call[c].slice,
                                   ![c].slice = {}, ![c].new = {}]
           /\ Fetch(c).sealed => call[c].slice \subseteq Fetch(c).items
  <2>1. /\ call' \in [Callers -> CallType] /\ \A d \in Callers : d # c => call'[d] = call[d]
        /\ call'[c].run = call[c].run /\ call'[c].at = "items"
        /\ call'[c].slice = {} /\ call'[c].new = {}
    BY <1>1, <1>4 DEF CoreTypeOK, CallType, Steps
  <2>2. CallInv(c)'
    BY <1>1, <1>2, <2>1 DEF CallInv, Run
  <2>3. fetchRun' \in [Runs -> FetchType]
    BY <1>1, <1>4 DEF CoreTypeOK, FetchType, CallType
  <2>4. Fetch(c).sealed => Fetch(c).items \cup call[c].new = Fetch(c).items
    BY <1>1, <1>4 DEF CallInv
  <2>5. \A r \in Runs : RunInv(r)' /\ (fetchRun[r].sealed => fetchRun'[r].sealed)
    BY <1>1, <1>2, <1>4, <2>4 DEF RunInv, CoreTypeOK, FetchType, Fetch
  <2> QED  BY <1>1, <1>2, <2>1, <2>2, <2>3, <2>5 DEF Keeps, CoreTypeOK
<1> QED
  BY <1>3, <1>4 DEF InsertsItems

\* The report, and what the seal asks before it is tried.
LEMMA ReportsKeeps ==
  ASSUME RegistrationInv, NEW c \in Callers, UNCHANGED <<bucket, terminal>>, Reports(c)
  PROVE  Keeps(c)
<1>1. /\ CoreTypeOK /\ call[c] \in CallType /\ Run(c) \in Runs /\ Fetch(c) \in FetchType /\ CallInv(c)
      /\ \A r \in Runs : RunInv(r)
  BY CallFacts
<1>2. call[c].at = "reports" /\ call[c].at \in Steps \ {"blocks"}
  BY DEF Reports, Steps
<1>3. CASE Yields(c) \/ Denied(c)
  BY <1>2, <1>3, SetAsideKeeps DEF Yields, Denied
<1>4. ASSUME NEW at \in {"attempts", "declares"}, Paid(c), UNCHANGED row,
             fetchRun' = [fetchRun EXCEPT ![Run(c)].reported = TRUE],
             call' = [call EXCEPT ![c].left = @ - 1, ![c].held = {}, ![c].at = at]
      PROVE  Keeps(c)
  <2>1. call[c].left \in 0..Budget /\ call[c].left - 1 \in 0..Budget
    BY <1>1, <1>4, Registering DEF Paid, CallType
  <2>2. /\ call' \in [Callers -> CallType] /\ \A d \in Callers : d # c => call'[d] = call[d]
        /\ call'[c].run = call[c].run /\ call'[c].at = at
        /\ call'[c].slice = call[c].slice /\ call'[c].new = call[c].new
    BY <1>1, <1>4, <2>1 DEF CoreTypeOK, CallType, Steps
  <2>3. CallInv(c)'
    BY <1>1, <1>2, <1>4, <2>2 DEF CallInv, Run
  <2>4. fetchRun' \in [Runs -> FetchType]
    BY <1>1, <1>4 DEF CoreTypeOK, FetchType
  <2>5. \A r \in Runs : RunInv(r)' /\ (fetchRun[r].sealed => fetchRun'[r].sealed)
    BY <1>1, <1>4 DEF RunInv, CoreTypeOK, FetchType, Fetch
  <2> QED  BY <1>1, <1>4, <2>2, <2>3, <2>4, <2>5 DEF Keeps, CoreTypeOK
<1> QED
  BY <1>3, <1>4 DEF Reports

LEMMA AsksKeeps ==
  ASSUME RegistrationInv, NEW c \in Callers, UNCHANGED <<bucket, terminal>>,
         Declares(c) \/ ReadsAttempt(c)
  PROVE  Keeps(c)
<1>1. /\ CoreTypeOK /\ call[c] \in CallType /\ Fetch(c) \in FetchType /\ CallInv(c)
  BY CallFacts
<1>2. call[c].at \in Steps \ {"blocks"}
  BY DEF Declares, ReadsAttempt, Steps
<1>3. CASE (Blocks(c) \/ Denied(c)) /\ UNCHANGED fetchRun
  BY <1>2, <1>3, SetAsideKeeps
<1>4. ASSUME NEW at \in {"seals", "links"}, at = "links" => Fetch(c).sealed, Goes(c, at),
             UNCHANGED core
      PROVE  Keeps(c)
  BY <1>2, <1>4, GoesOnKeeps DEF Steps
<1>5. CASE Declares(c)
  <2>1. CASE call' = [call EXCEPT ![c].at = "attempts", ![c].declared = Fetch(c).sealed]
             /\ UNCHANGED core
    <3>1. /\ call' \in [Callers -> CallType] /\ \A d \in Callers : d # c => call'[d] = call[d]
          /\ call'[c].run = call[c].run /\ call'[c].at = "attempts"
          /\ call'[c].slice = call[c].slice /\ call'[c].new = call[c].new
      BY <1>1, <2>1 DEF CoreTypeOK, CallType, FetchType, Steps
    <3> QED  BY <1>1, <1>2, <2>1, <3>1, MovesKeeps DEF CallInv
  <2> QED  BY <1>3, <1>5, <2>1 DEF Declares, Denied, core
<1>6. CASE ReadsAttempt(c)
  <2>1. \/ (Blocks(c) \/ Denied(c)) /\ UNCHANGED fetchRun
        \/ UNCHANGED core /\ Goes(c, "seals")
        \/ UNCHANGED core /\ Goes(c, "links") /\ Fetch(c).sealed
    BY <1>6 DEF ReadsAttempt, Denied, core
  <2> QED  BY <1>3, <1>4, <2>1
<1> QED
  BY <1>5, <1>6

\* The seal: what the completeness test has seen of the run is what the sealed
\* run holds, and what is catalogued is stored.
LEMMA SealsKeeps ==
  ASSUME RegistrationInv, NEW c \in Callers, UNCHANGED <<bucket, terminal>>, Seals(c)
  PROVE  Keeps(c)
<1>1. /\ CoreTypeOK /\ call[c] \in CallType /\ Run(c) \in Runs /\ Fetch(c) \in FetchType /\ CallInv(c)
      /\ \A r \in Runs : RunInv(r)
  BY CallFacts
<1>2. call[c].at = "seals" /\ call[c].at \in Steps \ {"blocks"}
  BY DEF Seals, Steps
<1>3. Named(c) # None /\ Named(c) \subseteq Objects
  BY <1>2, CallFacts
<1>4. CASE Fetch(c).sealed
  BY <1>2, <1>4, GoesOnKeeps DEF Seals, Steps
<1>5. CASE Blocks(c) /\ UNCHANGED fetchRun
  BY <1>2, <1>5, SetAsideKeeps
<1>6. CASE /\ ~Fetch(c).sealed /\ Fetch(c).reported /\ Fetch(c).catalogue = Named(c)
           /\ fetchRun' = [fetchRun EXCEPT ![Run(c)].sealed = TRUE, ![Run(c)].items = Named(c)]
           /\ Goes(c, "links") /\ UNCHANGED row
  <2>1. /\ call' \in [Callers -> CallType] /\ \A d \in Callers : d # c => call'[d] = call[d]
        /\ call'[c].run = call[c].run /\ call'[c].at = "links"
        /\ call'[c].slice = call[c].slice /\ call'[c].new = call[c].new
    BY <1>1, <1>6, GoesKeeps DEF CoreTypeOK, Steps
  <2>2. fetchRun' \in [Runs -> FetchType] /\ fetchRun'[Run(c)].sealed
    BY <1>1, <1>3, <1>6 DEF CoreTypeOK, FetchType
  <2>3. CallInv(c)'
    BY <1>1, <1>2, <2>1, <2>2 DEF CallInv, Run, Fetch
  <2>4. \A r \in Runs : RunInv(r)' /\ (fetchRun[r].sealed => fetchRun'[r].sealed)
    BY <1>1, <1>3, <1>6 DEF RunInv, CoreTypeOK, FetchType, Fetch, Named
  <2> QED  BY <1>1, <1>6, <2>1, <2>2, <2>3, <2>4 DEF Keeps, CoreTypeOK
<1> QED
  BY <1>4, <1>5, <1>6 DEF Seals, Complete

\* Only a run that this call found sealed, and that is not refused, is linked.
LEMMA LinksKeeps ==
  ASSUME RegistrationInv, NEW c \in Callers, UNCHANGED <<bucket, terminal>>, Links(c)
  PROVE  Keeps(c)
<1>1. /\ CoreTypeOK /\ call[c] \in CallType /\ Run(c) \in Runs /\ CallInv(c)
      /\ \A r \in Runs : RunInv(r)
  BY CallFacts
<1>2. call[c].at = "links" /\ call[c].at \in Steps \ {"blocks"}
  BY DEF Links, Steps
<1>3. Fetch(c).sealed /\ Run(c) \notin Refused
  BY <1>1, <1>2 DEF CallInv
<1>4. /\ call' \in [Callers -> CallType] /\ \A d \in Callers : d # c => call'[d] = call[d]
      /\ call'[c].run = call[c].run /\ call'[c].at = "completes"
      /\ call'[c].slice = call[c].slice /\ call'[c].new = call[c].new
  BY <1>1, GoesKeeps DEF CoreTypeOK, Links, Steps
<1>5. CallInv(c)'
  BY <1>1, <1>2, <1>3, <1>4 DEF CallInv, Run, Fetch, Links
<1>6. row' \in [Runs -> RowType]
  BY <1>1 DEF Links, CoreTypeOK, RowType
<1>7. \A r \in Runs : RunInv(r)' /\ (fetchRun[r].sealed => fetchRun'[r].sealed)
  BY <1>1, <1>3 DEF RunInv, CoreTypeOK, RowType, Fetch, Links
<1> QED
  BY <1>1, <1>4, <1>5, <1>6, <1>7 DEF Keeps, CoreTypeOK, Links

LEMMA RegistersKeeps ==
  ASSUME RegistrationInv, NEW c \in Callers, UNCHANGED <<bucket, terminal>>, Registers(c)
  PROVE  Keeps(c)
BY EndingKeeps, CataloguesKeeps, TakesSliceKeeps, ChecksRoomKeeps, InsertsItemsKeeps, ReportsKeeps,
   AsksKeeps, SealsKeeps, LinksKeeps DEF Registers

\* A caller's step that keeps its part keeps the invariant of the callers and
\* the runs.
LEMMA KeepsInv ==
  ASSUME RegistrationInv, NEW c \in Callers, UNCHANGED collected, Keeps(c)
  PROVE  /\ CoreTypeOK' /\ WriterTypeOK' /\ WriterInv'
         /\ \A d \in Callers : CallInv(d)'
         /\ \A r \in Runs : RunInv(r)'
<1>1. WriterTypeOK' /\ WriterInv'
  BY DEF RegistrationInv, TypeOK, WriterTypeOK, WriterInv, TerminalHasObjects, Terminal, collected
<1>2. ASSUME NEW d \in Callers PROVE CallInv(d)'
  <2>1. CASE d = c
    BY <2>1 DEF Keeps
  <2>2. CASE d # c
    <3>1. call'[d] = call[d] /\ CallInv(d) /\ Run(d) \in Runs /\ terminal' = terminal
      BY <2>2, CallFacts DEF Keeps, collected
    <3>2. Fetch(d).sealed => fetchRun'[Run(d)].sealed
      BY <3>1 DEF Keeps, Fetch
    <3> QED  BY <3>1, <3>2 DEF CallInv, Run, Fetch
  <2> QED  BY <2>1, <2>2
<1> QED
  BY <1>1, <1>2 DEF Keeps

-----------------------------------------------------------------------------
(* The scan. *)

RunsFacts == Runs \subseteq Nat \ {0} /\ 1 \in Runs /\ \A r \in Runs : r =< Cardinality(Runs)

LEMMA RunsAreNumbered == RunsFacts /\ Cardinality(Runs) \in Nat
<1>1. Cardinality(Runs) \in Nat
  BY Writing, FS_CardinalityType
<1>2. PICK r \in Runs : r \in 1..Cardinality(Runs)
  BY Writing
<1> QED
  BY <1>1, <1>2, Writing DEF RunsFacts

\* A page that is not the whole listing has a last terminal: nothing comes
\* before the first one listed, and a page has room for one.
LEMMA PageFacts == Page \subseteq Runs /\ (Page # Listed => Max(Page) \in Runs)
<1>1. Page \subseteq Listed /\ Listed \subseteq Runs /\ Runs \subseteq Nat
  BY RunsAreNumbered DEF Page, Listed, RunsFacts
<1>2. ASSUME Page # Listed PROVE Max(Page) \in Page
  <2>1. Listed # {}
    BY <1>1, <1>2
  <2>2. Min(Listed) \in Listed /\ \A q \in Listed : Min(Listed) =< q
    BY <1>1, <2>1, MinOfNats
  <2>3. {q \in Listed : q < Min(Listed)} = {}
    <3> DEFINE m == Min(Listed)
    <3>1. m \in Nat /\ \A q \in Listed : q \in Nat /\ m =< q
      BY <1>1, <2>2
    <3> HIDE DEF m
    <3>2. {q \in Listed : q < m} = {}
      BY <3>1
    <3> QED  BY <3>2 DEF m
  <2>4. Cardinality({q \in Listed : q < Min(Listed)}) < PageLimit
    BY <2>3, FS_EmptySet, Registering
  <2>5. Min(Listed) \in Page
    BY <2>2, <2>4 DEF Page
  <2> QED  BY <1>1, <2>5, RunsAreNumbered, MaxOfNats DEF RunsFacts
<1> QED
  BY <1>1, <1>2

ScanType == [at : {"idle", "continues", "walks"}, todo : SUBSET Runs,
             worked : 0..MaxRegistrations, next : {0} \cup Runs]

LaneTypeOK == /\ scan \in ScanType /\ cursor \in {0} \cup Runs
              /\ active \in BOOLEAN /\ faults \in 0..MaxFaults

\* A caller set back to rest has nothing to keep.
LEMMA RestedKeeps ==
  ASSUME RegistrationInv, NEW c \in Callers, NEW r \in Runs, NEW left \in 0..Budget,
         call' = [call EXCEPT ![c] = Resting(r, left)],
         UNCHANGED <<bucket, terminal, core>>
  PROVE  Keeps(c)
<1> DEFINE rest == Resting(r, left)
<1>1. CoreTypeOK /\ \A q \in Runs : RunInv(q)
  BY CallFacts
<1>2. rest \in CallType /\ rest.at \in Rest /\ rest.new = {}
  BY DEF Resting, CallType, Rest
<1>3. call' = [call EXCEPT ![c] = rest]
  OBVIOUS
<1> HIDE DEF rest
<1>4. call' \in [Callers -> CallType] /\ call'[c] = rest /\ \A d \in Callers : d # c => call'[d] = call[d]
  BY <1>1, <1>2, <1>3 DEF CoreTypeOK
<1>5. row' = row /\ fetchRun' = fetchRun
  BY DEF core
<1> QED
  BY <1>1, <1>2, <1>4, <1>5, RunsKept, RestKeeps DEF Keeps, CoreTypeOK

\* The steps of the scan itself.
LEMMA ScanKeeps ==
  ASSUME RegistrationInv, Ticks \/ Takes \/ Lists \/ Advances \/ Dies
  PROVE  Keeps(Scan) /\ UNCHANGED collected /\ LaneTypeOK'
<1>1. Scan \in Callers /\ 0 \in 0..Budget /\ Budget \in 0..Budget /\ 0 \in 0..MaxRegistrations
      /\ MaxRegistrations \in Nat /\ MaxFaults \in Nat
  BY Registering DEF Callers
<1>2. LaneTypeOK /\ call[Scan].left \in 0..Budget
  BY <1>1, CallFacts DEF RegistrationInv, TypeOK, LaneTypeOK, ScanType, CallType
<1>3. 1 \in Runs
  BY RunsAreNumbered DEF RunsFacts
<1>4. UNCHANGED collected => UNCHANGED <<bucket, terminal>>
  BY DEF collected
<1>5. CASE Ticks
  <2>1. Pending \subseteq Runs
    BY DEF Pending
  <2>2. LaneTypeOK'
    BY <1>1, <1>2, <1>5, <2>1 DEF Ticks, LaneTypeOK, ScanType
  <2> QED  BY <1>1, <1>3, <1>4, <1>5, <2>2, RestedKeeps DEF Ticks
<1>6. CASE Takes
  <2>1. PICK r \in scan.todo : /\ scan' = [scan EXCEPT !.todo = @ \ {r}, !.worked = Worked]
                               /\ Starts(Scan, r, call[Scan].left)
    BY <1>6 DEF Takes
  <2>2. r \in Runs
    BY <1>2 DEF LaneTypeOK, ScanType
  <2>3. Worked \in 0..MaxRegistrations
    <3>1. scan.worked \in 0..MaxRegistrations
      BY <1>2 DEF LaneTypeOK, ScanType
    <3>2. CASE scan.at = "walks"
      <4>1. ~(Worked >= MaxRegistrations)
        BY <1>6, <3>2, <2>1 DEF Takes, Spent
      <4>2. Worked \in Nat
        BY <3>1 DEF Worked
      <4> QED  BY <1>1, <4>1, <4>2
    <3>3. CASE scan.at # "walks"
      BY <3>1, <3>3 DEF Worked
    <3> QED  BY <3>2, <3>3
  <2>4. LaneTypeOK'
    BY <1>2, <1>6, <2>1, <2>3 DEF Takes, LaneTypeOK, ScanType
  <2> QED  BY <1>1, <1>2, <1>4, <1>6, <2>1, <2>2, <2>4, StartsKeeps DEF Takes
<1>7. CASE Lists
  <2>1. LaneTypeOK'
    BY <1>1, <1>2, <1>7, PageFacts DEF Lists, LaneTypeOK, ScanType
  <2> QED  BY <1>1, <1>2, <1>3, <1>4, <1>7, <2>1, RestedKeeps DEF Lists
<1>8. CASE Advances
  <2>1. LaneTypeOK'
    BY <1>1, <1>2, <1>8 DEF Advances, LaneTypeOK, ScanType
  <2> QED  BY <1>1, <1>3, <1>4, <1>8, <2>1, RestedKeeps DEF Advances
<1>9. CASE Dies
  <2>1. LaneTypeOK'
    BY <1>1, <1>2, <1>9 DEF Dies, LaneTypeOK, ScanType
  <2> QED  BY <1>1, <1>3, <1>4, <1>9, <2>1, RestedKeeps DEF Dies
<1> QED
  BY <1>5, <1>6, <1>7, <1>8, <1>9

-----------------------------------------------------------------------------
(* The inductive invariant. *)

LEMMA TypeParts == TypeOK <=> WriterTypeOK /\ CoreTypeOK /\ LaneTypeOK
BY DEF TypeOK, CoreTypeOK, LaneTypeOK, RowType, FetchType, CallType, ScanType

LEMMA NextTypeParts == TypeOK' <=> WriterTypeOK' /\ CoreTypeOK' /\ LaneTypeOK'
BY DEF TypeOK, CoreTypeOK, LaneTypeOK, RowType, FetchType, CallType, ScanType

LEMMA RegistrationInit == Init => RegistrationInv
<1> SUFFICES ASSUME Init PROVE RegistrationInv
  OBVIOUS
<1>1. WriterTypeOK /\ WriterInv
  BY Writing DEF Init, WriterInit, WriterTypeOK, WriterInv, TerminalHasObjects
<1>2. 1 \in Runs /\ 0 \in 0..Budget /\ 0 \in 0..MaxRegistrations /\ 0 \in 0..MaxFaults
  BY RunsAreNumbered, Registering DEF RunsFacts
<1>3. /\ Resting(1, 0) \in CallType /\ Resting(1, 0).at \notin Steps /\ Resting(1, 0).new = {}
      /\ Resting(1, 0).at \notin {"links", "completes"}
  BY <1>2 DEF Resting, CallType, Rest, Steps
<1>4. CoreTypeOK
  BY <1>3 DEF Init, CoreTypeOK, RowType, FetchType
<1>5. LaneTypeOK
  BY <1>2 DEF Init, LaneTypeOK, ScanType
<1>6. \A c \in Callers : CallInv(c)
  BY <1>3 DEF Init, CallInv
<1>7. \A r \in Runs : RunInv(r)
  BY DEF Init, RunInv
<1> QED
  BY <1>1, <1>4, <1>5, <1>6, <1>7, TypeParts DEF RegistrationInv

\* The collectors do nothing to a call or a run but store more.
LEMMA CollectsKeeps ==
  ASSUME RegistrationInv, Collects
  PROVE  RegistrationInv'
<1>1. PICK w \in Writers : Writes(w)
  BY DEF Collects
<1>2. UNCHANGED <<row, fetchRun, active, call, scan, cursor, faults>>
  BY DEF Collects, core, lane
<1>3. WriterTypeOK /\ CoreTypeOK /\ LaneTypeOK /\ WriterInv
  BY TypeParts DEF RegistrationInv
<1>4. WriterTypeOK' /\ WriterInv' /\ Settled
  BY <1>1, <1>3, WriterStep, WriterSettles
<1>5. CoreTypeOK' /\ LaneTypeOK'
  BY <1>2, <1>3 DEF CoreTypeOK, LaneTypeOK
<1>6. ASSUME NEW c \in Callers PROVE CallInv(c)'
  BY <1>2, <1>4, <1>6, CallFacts DEF CallInv, Run, Fetch, Settled, Named
<1>7. ASSUME NEW r \in Runs PROVE RunInv(r)'
  BY <1>2, <1>4 DEF RegistrationInv, RunInv, Settled
<1> QED
  BY <1>4, <1>5, <1>6, <1>7, NextTypeParts DEF RegistrationInv

LEMMA RegistrationStep == RegistrationInv /\ [Next]_vars => RegistrationInv'
<1> SUFFICES ASSUME RegistrationInv, [Next]_vars PROVE RegistrationInv'
  OBVIOUS
<1>1. WriterTypeOK /\ CoreTypeOK /\ LaneTypeOK /\ Scan \in Callers /\ Deliveries \subseteq Callers
  BY TypeParts DEF RegistrationInv, Callers
<1>2. ASSUME NEW c \in Callers, Keeps(c), UNCHANGED collected, LaneTypeOK'
      PROVE  RegistrationInv'
  BY <1>2, KeepsInv, NextTypeParts DEF RegistrationInv
<1>3. ASSUME NEW c \in Callers, Registers(c), Outside PROVE RegistrationInv'
  BY <1>1, <1>2, <1>3, RegistersKeeps DEF Outside, LaneTypeOK, collected, lane
<1>4. ASSUME Ticks \/ Takes \/ Lists \/ Advances \/ Dies PROVE RegistrationInv'
  BY <1>1, <1>2, <1>4, ScanKeeps
<1>5. ASSUME NEW c \in Deliveries, NEW r \in Runs, Delivered(c, r) PROVE RegistrationInv'
  <2>1. Budget \in 0..Budget
    BY Registering
  <2> QED  BY <1>1, <1>2, <1>5, <2>1, StartsKeeps DEF Delivered, Outside, LaneTypeOK, collected, lane
<1>6. ASSUME NEW c \in Callers, Throws(c) PROVE RegistrationInv'
  <2>1. UNCHANGED collected /\ UNCHANGED <<bucket, terminal, row, fetchRun>>
    BY <1>6 DEF Throws, collected, core
  <2>2. row' \in [Runs -> RowType] /\ \A r \in Runs : row'[r].linked = row[r].linked
    BY <1>1, <2>1 DEF CoreTypeOK
  <2>3. Keeps(c)
    BY <1>6, <2>1, <2>2, RowKeeps DEF Throws
  <2>4. LaneTypeOK'
    BY <1>1, <1>6, Registering DEF Throws, LaneTypeOK, lane
  <2> QED  BY <1>2, <2>1, <2>3, <2>4
<1>7. CASE Reroutes
  <2>1. UNCHANGED <<collected, row, fetchRun, call, scan, cursor, bucket, terminal, writer>>
    BY <1>7 DEF Reroutes, collected, core, lane
  <2>2. LaneTypeOK'
    <3>1. active' \in BOOLEAN
      BY <1>7 DEF Reroutes
    <3>2. faults' \in 0..MaxFaults
      BY <1>1, <1>7, Registering DEF Reroutes, LaneTypeOK
    <3> QED  BY <1>1, <2>1, <3>1, <3>2 DEF LaneTypeOK
  <2>3. WriterTypeOK' /\ CoreTypeOK' /\ WriterInv'
    BY <1>1, <2>1 DEF RegistrationInv, WriterTypeOK, CoreTypeOK, WriterInv, TerminalHasObjects, Terminal
  <2>4. (\A c \in Callers : CallInv(c)') /\ \A r \in Runs : RunInv(r)'
    BY <2>1 DEF RegistrationInv, CallInv, RunInv, Run, Fetch
  <2> QED  BY <2>2, <2>3, <2>4, NextTypeParts DEF RegistrationInv
<1>8. ASSUME NEW r \in Runs, IntervalPasses(r) PROVE RegistrationInv'
  <2>1. UNCHANGED <<collected, fetchRun, active, call, scan, cursor, faults, bucket, terminal, writer>>
    BY <1>8 DEF IntervalPasses, collected, lane
  <2>2. row' \in [Runs -> RowType] /\ \A q \in Runs : row'[q].linked = row[q].linked
    BY <1>1, <1>8 DEF IntervalPasses, CoreTypeOK, RowType
  <2>3. WriterTypeOK' /\ CoreTypeOK' /\ WriterInv' /\ LaneTypeOK'
    BY <1>1, <2>1, <2>2
       DEF RegistrationInv, WriterTypeOK, CoreTypeOK, WriterInv, TerminalHasObjects, Terminal, LaneTypeOK
  <2>4. (\A c \in Callers : CallInv(c)') /\ \A q \in Runs : RunInv(q)'
    BY <2>1, <2>2 DEF RegistrationInv, CallInv, RunInv, Run, Fetch
  <2> QED  BY <2>3, <2>4, NextTypeParts DEF RegistrationInv
<1>9. CASE UNCHANGED vars
  <2>1. UNCHANGED <<row, fetchRun, active, call, scan, cursor, faults, bucket, terminal, writer>>
    BY <1>9 DEF vars, collected, core, lane
  <2>2. WriterTypeOK' /\ CoreTypeOK' /\ WriterInv' /\ LaneTypeOK'
    BY <1>1, <2>1
       DEF RegistrationInv, WriterTypeOK, CoreTypeOK, WriterInv, TerminalHasObjects, Terminal, LaneTypeOK
  <2>3. (\A c \in Callers : CallInv(c)') /\ \A q \in Runs : RunInv(q)'
    BY <2>1 DEF RegistrationInv, CallInv, RunInv, Run, Fetch
  <2> QED  BY <2>2, <2>3, NextTypeParts DEF RegistrationInv
<1> QED
  BY <1>1, <1>3, <1>4, <1>5, <1>6, <1>7, <1>8, <1>9, CollectsKeeps DEF Next, ScanStep

LEMMA RegistrationInvariant == Spec => []RegistrationInv
  BY RegistrationInit, RegistrationStep, PTL DEF Spec

\* Every state of the collectors and the registration is well typed: the scan's
\* cursor and its counters stay in their ranges, and no call works on what is
\* not there.
THEOREM RegistrationTyping == Spec => []TypeOK
<1>1. RegistrationInv => TypeOK
  BY DEF RegistrationInv
<1> QED
  BY <1>1, RegistrationInvariant, PTL

\* A terminal that exists names stored objects only, and an attempt that is told
\* its run is persisted finds its own manifest there, however many attempts
\* write the run and wherever they stop.
THEOREM TerminalsHaveObjects == Spec => []TerminalHasObjects
<1>1. RegistrationInv => TerminalHasObjects
  BY DEF RegistrationInv, WriterInv
<1> QED
  BY <1>1, RegistrationInvariant, PTL

\* A sealed run holds exactly what its terminal names, stored, catalogued and in
\* the inventory, and only such runs are linked, none of them a refused one.
THEOREM RegisteredRunsAreWhole == Spec => []RegisteredIsWhole
<1>1. RegistrationInv => RegisteredIsWhole
  BY DEF RegistrationInv, RunInv, RegisteredIsWhole
<1> QED
  BY <1>1, RegistrationInvariant, PTL
=============================================================================
