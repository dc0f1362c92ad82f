--------------------------- MODULE CollectionWriter ---------------------------
(***************************************************************************)
(* persistRun (packages/collection/src/writer.ts): a collector stores the  *)
(* objects of a run in the shared bucket and writes the run's terminal     *)
(* last, with a create-only put.  Several attempts, with the same manifest *)
(* or another, may write one run at the same time, each may stop anywhere, *)
(* and any put may be stored although its answer is lost.                  *)
(*                                                                         *)
(* A manifest is the set of the objects it names, an object is stored      *)
(* under its digest: the same object is the same bytes.                    *)
(***************************************************************************)
EXTENDS Naturals, FiniteSets

CONSTANTS
  Objects,   \* digests
  Runs,      \* collection runs, in the order the bucket lists them
  Writers,   \* attempts to persist a run
  RunOf,     \* the run an attempt persists
  Manifest,  \* the manifest it would write
  Attempted, \* the sets of attempts that may be made together
  None       \* no terminal

ASSUME Writing ==
  /\ IsFiniteSet(Runs) /\ Runs # {} /\ Runs = 1..Cardinality(Runs)
  /\ RunOf \in [Writers -> Runs] /\ Manifest \in [Writers -> SUBSET Objects]
  /\ Attempted \subseteq SUBSET Writers
  /\ \A w \in Writers : Manifest[w] # None

VARIABLES
  bucket,    \* objects stored
  terminal,  \* the manifest in the terminal of a run, or None
  writer     \* where an attempt is and the objects it has put

collected == <<bucket, terminal, writer>>

WriterTypeOK ==
  /\ bucket \subseteq Objects
  /\ terminal \in [Runs -> {None} \cup SUBSET Objects]
  /\ writer \in [Writers -> [at : {"unmade", "idle", "puts", "persisted"}, done : SUBSET Objects]]

WriterInit ==
  /\ bucket = {}
  /\ terminal = [r \in Runs |-> None]
  /\ \E made \in Attempted :
       writer = [w \in Writers |-> [at |-> IF w \in made THEN "idle" ELSE "unmade", done |-> {}]]

Terminal(w) == terminal[RunOf[w]]

Told(w, outcome) == writer' = [writer EXCEPT ![w] = [at |-> outcome, done |-> {}]]

\* What a writer that finds a terminal says of it: already_persisted, or a
\* conflict, after which the attempt is where it began.
Verdict(w) == IF Terminal(w) = Manifest[w] THEN "persisted" ELSE "idle"

\* The look for a terminal before anything is touched.  A caller may try again
\* whatever it was told.
Persists(w) ==
  /\ writer[w].at \in {"idle", "persisted"}
  /\ IF Terminal(w) # None THEN Told(w, Verdict(w))
     ELSE writer' = [writer EXCEPT ![w].at = "puts"]
  /\ UNCHANGED <<bucket, terminal>>

\* putArtifact: an object that is there is verified and reused.
PutsObject(w) ==
  /\ writer[w].at = "puts"
  /\ \E o \in Manifest[w] \ writer[w].done :
       /\ bucket' = bucket \cup {o}
       /\ writer' = [writer EXCEPT ![w].done = @ \cup {o}]
  /\ UNCHANGED terminal

StoredSome(w) == writer[w].done # {}

Stored(w) == writer[w].done = Manifest[w]

Overwrites(w) == TRUE

\* The terminal's put is conditional on there being none.
CreateOnly(w) == Terminal(w) = None

PutsTerminal(w) ==
  /\ writer[w].at = "puts" /\ Stored(w)
  /\ IF CreateOnly(w)
     THEN terminal' = [terminal EXCEPT ![RunOf[w]] = Manifest[w]] /\ Told(w, "persisted")
     ELSE Told(w, Verdict(w)) /\ UNCHANGED terminal
  /\ UNCHANGED bucket

\* A put fails or its answer is lost, or the collector stops: the writer knows
\* of nothing, what it put last may be stored.
Interrupted(w) ==
  /\ writer[w].at = "puts"
  /\ \/ UNCHANGED <<bucket, terminal>>
     \/ \E o \in Manifest[w] \ writer[w].done : bucket' = bucket \cup {o} /\ UNCHANGED terminal
     \/ /\ Stored(w) /\ CreateOnly(w)
        /\ terminal' = [terminal EXCEPT ![RunOf[w]] = Manifest[w]] /\ UNCHANGED bucket
  /\ Told(w, "idle")

Writes(w) == Persists(w) \/ PutsObject(w) \/ PutsTerminal(w) \/ Interrupted(w)

-----------------------------------------------------------------------------
\* "A terminal that exists means every object it names was written and
\* verified" (writer.ts:9-10), with any number of attempts interrupted anywhere;
\* and an attempt told that its run is persisted wrote, or found, exactly its
\* own manifest.
TerminalHasObjects ==
  /\ \A r \in Runs : terminal[r] # None => terminal[r] \subseteq bucket
  /\ \A w \in Writers : writer[w].at = "persisted" => Terminal(w) = Manifest[w]
=============================================================================
