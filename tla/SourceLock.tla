----------------------------- MODULE SourceLock -----------------------------
(***************************************************************************)
(* What the collection lease of one source promises, without clocks,       *)
(* heartbeats or SQL (packages/collection/src/schedule-lease.ts, lines     *)
(* 1-25): one execution at a time holds the source, an execution contacts  *)
(* the provider only under its own hold, and a hold ends under an active   *)
(* execution only when a person takes it away.                             *)
(***************************************************************************)
CONSTANTS Holders,  \* every reference that can hold the source
          Free      \* the source is held by nobody

VARIABLES holder,   \* who holds the source, or Free
          active,   \* the executions that may be contacting the provider
          evicted   \* the executions whose hold a person took away

lockVars == <<holder, active, evicted>>

LockTypeOK == /\ holder \in Holders \cup {Free}
              /\ active \subseteq Holders
              /\ evicted \subseteq Holders

LockInit == /\ holder \in Holders \cup {Free}
            /\ active = {}
            /\ evicted = {}

\* Only a free source can be taken, and taking it forgets nothing.
Acquire(h) == /\ holder = Free
              /\ holder' = h
              /\ UNCHANGED <<active, evicted>>

\* An execution becomes active under its own hold, or before it could know
\* that a person took the hold away.
Enter(h) == /\ h \notin active
            /\ holder = h \/ h \in evicted
            /\ active' = active \cup {h}
            /\ UNCHANGED <<holder, evicted>>

\* An execution stops, evicted or not.
Leave(h) == /\ h \in active
            /\ active' = active \ {h}
            /\ evicted' \in {evicted, evicted \ {h}}
            /\ UNCHANGED holder

\* The hold of an execution that is not active ends; nobody is evicted.
Yield(h) == /\ holder = h
            /\ h \notin active
            /\ holder' = Free
            /\ UNCHANGED <<active, evicted>>

\* A person ends the hold of an execution that may be active.
Evict(h) == /\ holder = h
            /\ holder' = Free
            /\ evicted' = evicted \cup {h}
            /\ UNCHANGED active

\* An evicted execution ends without ever becoming active.
Forget(h) == /\ h \in evicted \ active
             /\ holder # h
             /\ evicted' = evicted \ {h}
             /\ UNCHANGED <<holder, active>>

LockNext == \E h \in Holders :
              \/ Acquire(h) \/ Enter(h) \/ Leave(h)
              \/ Yield(h) \/ Evict(h) \/ Forget(h)

LockSpec == LockInit /\ [][LockNext]_lockVars
=============================================================================
