---------------------------- MODULE CommandOutbox ----------------------------
(***************************************************************************)
(* The transactional outbox of agent commands and its dispatchers          *)
(* (apps/api: agent_commands.py, db/agent_bridge.py and the outbox task of *)
(* agent_bridge.py, one per API replica). A dispatcher leases the oldest   *)
(* unpublished row, XADDs the command to the stream outside any            *)
(* transaction, and records the result in a transaction that first reads   *)
(* the row, without a lock, and then writes it.                            *)
(* Definitions marked (fault) are slips that properties must catch.        *)
(***************************************************************************)
EXTENDS Naturals, Sequences, FiniteSetsExt

CONSTANTS
  Dispatchers,   \* outbox owners
  MaxCommands,   \* bound: rows of the outbox
  MaxFaults,     \* bound: failed XADDs, deaths, leases that are too short
  None

ASSUME OutboxAssumption ==
  /\ MaxCommands \in Nat \ {0}
  /\ MaxFaults \in Nat
  /\ None \notin Dispatchers

VARIABLES
  outbox,        \* the rows in the order of created_at
  published,     \* rows with published_at set
  claim,         \* claimed_by, lease_token and whether claimed_until is past
  claims,        \* number of leases of each row so far: the next lease_token
  sent,          \* number of entries XADDed for each row
  dispatcher,    \* what each dispatcher does next, the row and token it holds
  faults

outboxVars == <<outbox, published, claim, claims, sent, dispatcher, faults>>
dispatchVars == <<published, claim, claims, sent, dispatcher, faults>>

Rows == 1..MaxCommands
Stored == DOMAIN outbox
Idle == [at |-> "idle", row |-> 0, token |-> 0]

OutboxInit ==
  /\ outbox = <<>>
  /\ published = {}
  /\ claim = [r \in Rows |-> None]
  /\ claims = [r \in Rows |-> 0]
  /\ sent = [r \in Rows |-> 0]
  /\ dispatcher = [d \in Dispatchers |-> Idle]
  /\ faults = 0

\* enqueue, in the transaction of the caller.
Enqueue(command) ==
  /\ Len(outbox) < MaxCommands
  /\ outbox' = Append(outbox, command)
  /\ UNCHANGED dispatchVars

-----------------------------------------------------------------------------
(* A dispatcher. *)

\* (fault) a lease is only given back, it never runs out.
NeverExpires(r) == r \in Stored \ published /\ claim[r] = None

Claimable(r) ==
  /\ r \in Stored \ published
  /\ claim[r] # None => claim[r].over

Goes(d, stage) == dispatcher' = [dispatcher EXCEPT ![d].at = stage]
Rests(d) == dispatcher' = [dispatcher EXCEPT ![d] = Idle]

\* _claim_next_outbox_command
ClaimNext(d) ==
  LET r == Min({q \in Stored : Claimable(q)}) IN
  /\ dispatcher[d] = Idle
  /\ \E q \in Stored : Claimable(q)
  /\ claims' = [claims EXCEPT ![r] = @ + 1]
  /\ claim' = [claim EXCEPT ![r] = [by |-> d, token |-> claims'[r], over |-> FALSE]]
  /\ dispatcher' = [dispatcher EXCEPT ![d] =
                      [at |-> "publish", row |-> r, token |-> claims'[r]]]
  /\ UNCHANGED <<outbox, published, sent, faults>>

Publish(d) ==
  /\ dispatcher[d].at = "publish"
  /\ sent' = [sent EXCEPT ![dispatcher[d].row] = @ + 1]
  /\ Goes(d, "sent")
  /\ UNCHANGED <<outbox, published, claim, claims, faults>>

\* XADD raises; the entry may be in the stream all the same.
PublishFails(d) ==
  /\ dispatcher[d].at = "publish"
  /\ faults < MaxFaults
  /\ faults' = faults + 1
  /\ \E n \in {0, 1} : sent' = [sent EXCEPT ![dispatcher[d].row] = @ + n]
  /\ Goes(d, "failed")
  /\ UNCHANGED <<outbox, published, claim, claims>>

\* The row is unpublished and still held under this lease, expired or not.
Holds(d) ==
  LET r == dispatcher[d].row IN
  /\ r \notin published
  /\ claim[r] # None
  /\ claim[r].by = d /\ claim[r].token = dispatcher[d].token

\* _record_publish_success and _record_publish_failure read the row ...
ReadRow(d) ==
  /\ dispatcher[d].at \in {"sent", "failed"}
  /\ IF Holds(d)
       THEN Goes(d, IF dispatcher[d].at = "sent" THEN "mark" ELSE "release")
       ELSE Rests(d)
  /\ UNCHANGED <<outbox, published, claim, claims, sent, faults>>

\* ... and write it at commit, whoever has leased or published it in between.
WriteRow(d) ==
  LET r == dispatcher[d].row IN
  /\ dispatcher[d].at \in {"mark", "release"}
  /\ published' = IF dispatcher[d].at = "mark" THEN published \cup {r} ELSE published
  /\ claim' = [claim EXCEPT ![r] = None]
  /\ Rests(d)
  /\ UNCHANGED <<outbox, claims, sent, faults>>

Dispatch(d) == ClaimNext(d) \/ Publish(d) \/ ReadRow(d) \/ WriteRow(d)

\* The process dies, or the database fails when the result is recorded.
DispatcherDies(d) ==
  /\ dispatcher[d] # Idle
  /\ faults < MaxFaults
  /\ faults' = faults + 1
  /\ Rests(d)
  /\ UNCHANGED <<outbox, published, claim, claims, sent>>

Working(r) ==
  \E d \in Dispatchers : dispatcher[d].row = r /\ dispatcher[d].token = claim[r].token

\* claimed_until passes; a fault if the holder is still at work.
LeaseEnds(r) ==
  /\ claim[r] # None /\ ~claim[r].over
  /\ IF Working(r) THEN faults < MaxFaults /\ faults' = faults + 1
                   ELSE UNCHANGED faults
  /\ claim' = [claim EXCEPT ![r].over = TRUE]
  /\ UNCHANGED <<outbox, published, claims, sent, dispatcher>>

OutboxNext ==
  \/ \E d \in Dispatchers : Dispatch(d) \/ PublishFails(d) \/ DispatcherDies(d)
  \/ \E r \in Rows : LeaseEnds(r)
=============================================================================
