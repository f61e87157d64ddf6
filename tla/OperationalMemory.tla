-------------------------- MODULE OperationalMemory --------------------------
(***************************************************************************)
(* The store of operational memory in the API                              *)
(* (capabilities/operational_memory.py, memory_cli.py): candidates are     *)
(* submitted, a governance service approves and retires them, queries      *)
(* return approved ones ranked by their vectors, and a maintenance command *)
(* makes vectors anew. A query reads twice, once before and once after the *)
(* embedding of its text, and the others may act in between.               *)
(*                                                                         *)
(* The scope a query asks for is a free choice; the ranking and its limit  *)
(* are left out.                                                           *)
(***************************************************************************)
EXTENDS Naturals, FiniteSets

CONSTANTS
  MemoryIds,   \* ids a memory can have
  Contents,    \* candidate payloads
  Models,      \* embedding models
  Model,       \* the one the API is configured with
  Queriers,    \* concurrent queries
  None

\* OperationalMemoryRecord, with the model of its vector.
Records == [content : Contents, status : {"CANDIDATE", "APPROVED", "RETIRED"},
            model : Models]

ASSUME MemoryAssumption ==
  /\ Model \in Models
  /\ None \notin Contents \cup Models
  /\ None \notin Records

VARIABLES
  memory,      \* operational_memories: a record, or None
  matching,    \* what the first read of each query found, None: no query
  hits         \* the last answer to each query

storeVars == <<memory, matching, hits>>

\* What is submitted, with a vector of the configured model.
Candidate(content) == [content |-> content, status |-> "CANDIDATE", model |-> Model]

StoreInit ==
  /\ memory = [m \in MemoryIds |-> None]
  /\ matching = [q \in Queriers |-> None]
  /\ hits = [q \in Queriers |-> {}]

-----------------------------------------------------------------------------
(* submit_candidate. It looks before and after the embedding and once more    *)
(* when its insert collides; what it does is decided by the last look.        *)

Conflicts(m, content) == memory[m] # None /\ memory[m].content # content

SubmitCandidate(m, content) ==
  /\ ~Conflicts(m, content)
  /\ memory' = IF memory[m] # None THEN memory
               ELSE [memory EXCEPT ![m] = Candidate(content)]
  /\ UNCHANGED <<matching, hits>>

-----------------------------------------------------------------------------
(* Governance and maintenance. *)

InStatus(m, status) == memory[m] # None /\ memory[m].status = status

Approve(m) ==
  /\ InStatus(m, "CANDIDATE")
  /\ memory' = [memory EXCEPT ![m].status = "APPROVED"]
  /\ UNCHANGED <<matching, hits>>

Retire(m) ==
  /\ InStatus(m, "APPROVED")
  /\ memory' = [memory EXCEPT ![m].status = "RETIRED"]
  /\ UNCHANGED <<matching, hits>>

\* _backfill_record, run with some model: one transaction for each memory whose
\* vector is another model's.
Backfill(m, model) ==
  /\ memory[m] # None /\ memory[m].model # model
  /\ memory' = [memory EXCEPT ![m].model = model]
  /\ UNCHANGED <<matching, hits>>

-----------------------------------------------------------------------------
(* query_approved. *)

Comparable(m) == memory[m].model = Model

\* The first read: a matching memory that is not comparable fails the query.
BeginQuery(q) ==
  /\ matching[q] = None
  /\ \E scope \in SUBSET MemoryIds :
       LET found == {m \in scope : InStatus(m, "APPROVED")} IN
       /\ found # {}
       /\ \A m \in found : Comparable(m)
       /\ matching' = [matching EXCEPT ![q] = found]
  /\ UNCHANGED <<memory, hits>>

\* The embedding of the query fails.
FailQuery(q) ==
  /\ matching[q] # None
  /\ matching' = [matching EXCEPT ![q] = None]
  /\ UNCHANGED <<memory, hits>>

\* What the second read still finds approved and comparable.
ReadAgain(q) == {m \in matching[q] : InStatus(m, "APPROVED") /\ Comparable(m)}

AnswerQuery(q) ==
  /\ matching[q] # None
  /\ hits' = [hits EXCEPT ![q] = ReadAgain(q)]
  /\ matching' = [matching EXCEPT ![q] = None]
  /\ UNCHANGED memory

StoreNext ==
  \/ \E m \in MemoryIds : \/ Approve(m)
                          \/ Retire(m)
                          \/ \E model \in Models : Backfill(m, model)
  \/ \E q \in Queriers : BeginQuery(q) \/ FailQuery(q) \/ AnswerQuery(q)
=============================================================================
