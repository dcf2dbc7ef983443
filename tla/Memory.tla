-------------------------------- MODULE Memory --------------------------------
(***************************************************************************)
(* What one agent remembers: a summary of every run that succeeded, asked  *)
(* for at the start of the next ones, from the three stores that implement *)
(* the port.  A text is the set of its words, closeness the number of      *)
(* words shared; hashing them into vectors is not modelled.  The index the *)
(* production store is served by is (migration.sql:8): it goes through the *)
(* vectors of all agents approximately, and the statement's conditions are *)
(* looked at after, so any rows may be all the search comes upon.          *)
(***************************************************************************)
EXTENDS Naturals, Sequences, FiniteSetsExt

CONSTANTS
  Texts,     \* tasks of runs
  Latin,     \* words in Latin letters, all that the lexical store sees
  Earlier,   \* records there are at the start
  Jobs,      \* runs of the agent, which may overlap
  Limit,     \* how many are asked for
  JobTries   \* bound: attempts of a run

MemoryKinds == {"short_term", "long_term", "episodic"}

ASSUME MemoryAssumption ==
  /\ {Limit, JobTries} \subseteq Nat \ {0}
  /\ IsFiniteSet(Texts) /\ \A words \in Texts : IsFiniteSet(words)
  /\ Earlier \in Seq({m \in Range(Earlier) : m.kind \in MemoryKinds})

VARIABLES
  store,      \* which store is deployed
  records,    \* what is remembered, in the order of time
  jobs        \* each run: where it is, its task, attempts, what it recalled of what was reached

memoryVars == <<store, records, jobs>>

Asked == {"long_term", "episodic"}
Idle == [at |-> "idle", task |-> {}, tries |-> 0, recalled |-> {}, reached |-> {}]

MemoryInit ==
  /\ store \in {"lexical", "vector", "pgvector"}
  /\ records = Earlier
  /\ jobs = [j \in Jobs |-> Idle]

-----------------------------------------------------------------------------
Seen(words) == IF store = "lexical" THEN words \cap Latin ELSE words
Shared(task, i) == Cardinality(Seen(task) \cap Seen(records[i].words))

(* slice(0, n) or LIMIT n of the records in S sorted by rank, descending.  *)
Top(S, n, rank) ==
  {T \in SUBSET S : /\ Cardinality(T) = Min({n, Cardinality(S)})
                    /\ \A i \in T, j \in S \ T : rank[i] >= rank[j]}

(* recall is never asked for a run's short-term records: there is no runId.*)
Scoped == {i \in DOMAIN records : records[i].kind # "short_term"}
OfKinds(S) == {i \in S : records[i].kind \in Asked}
Closeness(task) == [i \in DOMAIN records |-> Shared(task, i)]

(* The records a search comes upon: all, but in pgvector only those with   *)
(* an embedding, and of them it may miss any when it goes by closeness     *)
(* (the statement itself drops the scratch of other runs, missed or not).  *)
Reaches(task) ==
  LET embedded == {i \in DOMAIN records : records[i].embedded}
  IN IF store # "pgvector" THEN {DOMAIN records}
     ELSE IF task = {} THEN {embedded} ELSE {embedded \ missed : missed \in SUBSET OfKinds(embedded)}

(* By closeness, then the newest; a text without a token asks for nothing. *)
Lexical(task) ==
  LET scored == {i \in OfKinds(DOMAIN records) \cap Scoped :
                   Seen(task) = {} \/ Shared(task, i) > 0}
  IN Top(scored, Limit, [i \in DOMAIN records |-> Shared(task, i) * Len(records) + i])

InVectors(task) ==
  IF task = {} THEN Top(OfKinds(Scoped), Limit, [i \in DOMAIN records |-> i])
  ELSE Top({i \in OfKinds(Scoped) : Shared(task, i) > 0}, Limit, Closeness(task))

(* Mutant: the statement does not leave out other runs' short-term records.*)
InPostgresUnscoped(task, reached) ==
  LET rank == IF task = {} THEN [i \in DOMAIN records |-> i] ELSE Closeness(task)
  IN UNION {Top(OfKinds(rows), Limit, rank) : rows \in Top(reached, 4 * Limit, rank)}

(* Four times as many rows are fetched, their kinds are looked at after.   *)
InPostgres(task, reached) ==
  LET rank == IF task = {} THEN [i \in DOMAIN records |-> i] ELSE Closeness(task)
  IN UNION {Top(OfKinds(rows), Limit, rank) : rows \in Top(Scoped \cap reached, 4 * Limit, rank)}

Recall(task, reached) ==
  CASE store = "lexical" -> Lexical(task)
    [] store = "vector" -> InVectors(task)
    [] store = "pgvector" -> InPostgres(task, reached)

-----------------------------------------------------------------------------
BeginsWithMemory(j) ==
  /\ jobs[j].at = "idle" /\ jobs[j].tries < JobTries
  /\ \E task \in IF jobs[j].tries = 0 THEN Texts ELSE {jobs[j].task} :
       \E reached \in Reaches(task) : \E r \in Recall(task, reached) :
         jobs' = [jobs EXCEPT ![j] = [at |-> "works", task |-> task, tries |-> @.tries + 1,
                                      recalled |-> r, reached |-> reached]]
  /\ UNCHANGED <<store, records>>

(* An attempt throws or dies, and is made again or not.                    *)
AttemptLost(j) ==
  /\ jobs[j].at = "works"
  /\ jobs' = [jobs EXCEPT ![j].at = "idle"]
  /\ UNCHANGED <<store, records>>

(* The success is written before anything is remembered.                   *)
SuccessWritten(j) ==
  /\ jobs[j].at = "works"
  /\ jobs' = [jobs EXCEPT ![j].at = "succeeded"]
  /\ UNCHANGED <<store, records>>

Summary(j) == [kind |-> "episodic", by |-> j, words |-> jobs[j].task, embedded |-> store = "pgvector"]

(* Remembered, and the write is heard of or throws: then the catch makes   *)
(* the run run again.                                                      *)
Remember(j) ==
  /\ jobs[j].at = "succeeded"
  /\ records' = Append(records, Summary(j))
  /\ \E at \in {"over", "idle"} : jobs' = [jobs EXCEPT ![j].at = at]
  /\ UNCHANGED store

(* It throws before, or the process dies: a run that succeeded is skipped  *)
(* when its job comes again.                                               *)
Forget(j) ==
  /\ jobs[j].at = "succeeded"
  /\ \E at \in {"over", "idle"} : jobs' = [jobs EXCEPT ![j].at = at]
  /\ UNCHANGED <<store, records>>

MemoryNext ==
  \E j \in Jobs : \/ BeginsWithMemory(j) \/ AttemptLost(j) \/ SuccessWritten(j)
                  \/ Remember(j) \/ Forget(j)

-----------------------------------------------------------------------------
(* Whatever store is deployed, a run is given at most Limit records, of    *)
(* the kinds it asked for, and nothing the search came upon that shares a  *)
(* word with its task was left out while something less close got in, or   *)
(* while there was room: records of other kinds take nobody's place.       *)
RecallEarned ==
  \A j \in Jobs : LET r == jobs[j].recalled IN
    /\ Cardinality(r) <= Limit
    /\ \A i \in r : records[i].kind \in Asked
    /\ \A i \in jobs[j].reached \ r :
         records[i].kind \in Asked /\ Shared(jobs[j].task, i) > 0
         => /\ Cardinality(r) = Limit
            /\ \A k \in r : Shared(jobs[j].task, k) >= Shared(jobs[j].task, i)

(* What does not hold: a run that has words in common with a record is     *)
(* given one (pgvector may not come upon it); the three agree on what is   *)
(* not relevant (pgvector has no floor, the lexical store takes a task     *)
(* without Latin letters for no query); a run is remembered once; a        *)
(* success is remembered.                                                  *)
RelevantIsFound ==
  \A j \in Jobs : jobs[j].at = "works" /\ jobs[j].recalled = {}
    => \A i \in DOMAIN Earlier : Earlier[i].kind \in Asked => Shared(jobs[j].task, i) = 0
OnlyRelevant ==
  \A j \in Jobs : \A i \in jobs[j].recalled : jobs[j].task \cap records[i].words # {}
RememberedOnce == \A i, k \in DOMAIN records : i # k /\ records[i].by \in Jobs => records[i].by # records[k].by

=============================================================================
