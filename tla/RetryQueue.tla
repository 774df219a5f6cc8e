----------------------------- MODULE RetryQueue -----------------------------
(***************************************************************************)
(* The table of failed callbacks and the loop that replays them            *)
(* (retry.py).  The loop is started by a background task and by a          *)
(* management command, and nothing stops two of them from running at once: *)
(* the SELECT of due rows claims none of them, so each run works on a      *)
(* snapshot.                                                               *)
(*                                                                         *)
(* What a replay does to the shipment is left open here; it either takes   *)
(* effect or raises.  An action is the code between two database           *)
(* operations.                                                             *)
(***************************************************************************)
EXTENDS Integers, FiniteSets

CONSTANTS
    N,            \* rows the endpoint stores, numbered by created_at
    Processor,    \* runs of process_due_retries that may overlap
    MaxAttempts,  \* max_attempts of every run
    Limit,        \* limit of every run
    MaxAborts     \* bound on runs cut short

ASSUME ConstantsAssumption ==
    /\ N \in Nat
    /\ MaxAttempts \in Nat \ {0}
    /\ Limit \in Nat \ {0}
    /\ MaxAborts \in Nat

Row == 1 .. N

VARIABLES
    status,    \* status column; "absent" before the row is stored
    attempts,  \* attempts column
    due,       \* next_retry_at is null or has passed
    pc,        \* where each run is in its loop
    todo,      \* rows of its snapshot a run has not finished
    snap,      \* attempts of those rows in the snapshot
    held,      \* attempts in the record mark_failed has read
    aborts,    \* runs cut short so far
    applied,   \* history: rows whose replay took effect
    failures,  \* history: failures recorded for each row
    tries      \* history: replays of each row

vars == <<status, attempts, due, pc, todo, snap, held, aborts, applied, failures, tries>>

Status == {"absent", "pending", "succeeded", "exhausted"}

PC == {"idle", "next", "mark_ok", "get", "save", "exhaust"}

Init ==
    /\ status = [n \in Row |-> "absent"]
    /\ attempts = [n \in Row |-> 0]
    /\ due = [n \in Row |-> FALSE]
    /\ pc = [p \in Processor |-> "idle"]
    /\ todo = [p \in Processor |-> {}]
    /\ snap = [p \in Processor |-> [n \in Row |-> 0]]
    /\ held = [p \in Processor |-> 0]
    /\ aborts = 0
    /\ applied = {}
    /\ failures = [n \in Row |-> 0]
    /\ tries = [n \in Row |-> 0]

-----------------------------------------------------------------------------
(* Plausible bugs, used only by the mutation runs of PROJECT.json.         *)

\* For DueRows: the filter on next_retry_at keeps only null ...
NeverTried == {n \in Row : status[n] = "pending" /\ attempts[n] = 0}

\* ... or the filter on the status is missing.
AnyDue == {n \in Row : status[n] # "absent" /\ due[n]}

\* For LastAttempt: off by one.
LastButOne(k) == k + 2 >= MaxAttempts

\* For RaisedInReplay: the exception is logged and swallowed.
SwallowedInReplay == "mark_ok"

\* For NextRow: the loop body returns instead of going on.
ReturnEarly(p, n) ==
    /\ todo' = [todo EXCEPT ![p] = @ \ {n}]
    /\ pc' = [pc EXCEPT ![p] = "idle"]

\* For Incremented: "attempts" is missing from update_fields.
NotIncremented(n, k) == attempts[n]

-----------------------------------------------------------------------------
(* The endpoint and the clock.                                             *)

\* store_failed_callback: rows are created one after the other, due at once.
Store(n) ==
    /\ status[n] = "absent"
    /\ \A m \in Row : m < n => status[m] # "absent"
    /\ status' = [status EXCEPT ![n] = "pending"]
    /\ due' = [due EXCEPT ![n] = TRUE]
    /\ UNCHANGED <<attempts, pc, todo, snap, held, aborts, applied, failures, tries>>

BecomeDue(n) ==
    /\ status[n] # "absent"
    /\ ~due[n]
    /\ due' = [due EXCEPT ![n] = TRUE]
    /\ UNCHANGED <<status, attempts, pc, todo, snap, held, aborts, applied, failures, tries>>

-----------------------------------------------------------------------------
(* One run of process_due_retries.                                         *)

DueRows == {n \in Row : status[n] = "pending" /\ due[n]}

\* ORDER BY created_at LIMIT limit.
Oldest(S) == {n \in S : Cardinality({m \in S : m < n}) < Limit}

\* get_due_retries.
Fetch(p) ==
    /\ pc[p] = "idle"
    /\ DueRows # {}
    /\ todo' = [todo EXCEPT ![p] = Oldest(DueRows)]
    /\ snap' = [snap EXCEPT ![p] = attempts]
    /\ pc' = [pc EXCEPT ![p] = "next"]
    /\ UNCHANGED <<status, attempts, due, held, aborts, applied, failures, tries>>

\* The row the loop of p is at.
IsCurrent(p, n) == n \in todo[p] /\ \A m \in todo[p] : n <= m

\* The end of the loop body.
NextRow(p, n) ==
    /\ todo' = [todo EXCEPT ![p] = @ \ {n}]
    /\ pc' = [pc EXCEPT ![p] = IF todo[p] = {n} THEN "idle" ELSE "next"]

\* current_attempts >= max_attempts: mark_exhausted, without a replay.
GiveUp(p, n) ==
    /\ pc[p] = "next"
    /\ IsCurrent(p, n)
    /\ snap[p][n] >= MaxAttempts
    /\ status' = [status EXCEPT ![n] = "exhausted"]
    /\ NextRow(p, n)
    /\ UNCHANGED <<attempts, due, snap, held, aborts, applied, failures, tries>>

MayReplay(p, n) ==
    /\ pc[p] = "next"
    /\ IsCurrent(p, n)
    /\ snap[p][n] < MaxAttempts

ReplaySucceeds(p, n) ==
    /\ MayReplay(p, n)
    /\ applied' = applied \cup {n}
    /\ tries' = [tries EXCEPT ![n] = @ + 1]
    /\ pc' = [pc EXCEPT ![p] = "mark_ok"]
    /\ UNCHANGED <<status, attempts, due, todo, snap, held, aborts, failures>>

\* Where an exception in the try block leads: to mark_failed.
RaisedInReplay == "get"

\* The shipment is gone, the provider fails, or the move is not legal.
ReplayFails(p, n) ==
    /\ MayReplay(p, n)
    /\ tries' = [tries EXCEPT ![n] = @ + 1]
    /\ pc' = [pc EXCEPT ![p] = RaisedInReplay]
    /\ UNCHANGED <<status, attempts, due, todo, snap, held, aborts, applied, failures>>

\* UPDATE ... SET status WHERE id, whatever the status is by now.
MarkSucceeded(p, n) ==
    /\ pc[p] = "mark_ok"
    /\ IsCurrent(p, n)
    /\ status' = [status EXCEPT ![n] = "succeeded"]
    /\ NextRow(p, n)
    /\ UNCHANGED <<attempts, due, snap, held, aborts, applied, failures, tries>>

\* It is inside the try block: its failure counts as a failed replay.
MarkSucceededFails(p, n) ==
    /\ pc[p] = "mark_ok"
    /\ IsCurrent(p, n)
    /\ pc' = [pc EXCEPT ![p] = "get"]
    /\ UNCHANGED <<status, attempts, due, todo, snap, held, aborts, applied, failures, tries>>

\* mark_failed reads the record ...
MarkFailedGet(p, n) ==
    /\ pc[p] = "get"
    /\ IsCurrent(p, n)
    /\ held' = [held EXCEPT ![p] = attempts[n]]
    /\ pc' = [pc EXCEPT ![p] = "save"]
    /\ UNCHANGED <<status, attempts, due, todo, snap, aborts, applied, failures, tries>>

\* new_attempts >= max_attempts, on the attempts of the snapshot.
LastAttempt(k) == k + 1 >= MaxAttempts

\* The attempts column after a record read with k attempts is saved.
Incremented(n, k) == k + 1

\* ... and saves it, attempts and next_retry_at together.
MarkFailedSave(p, n) ==
    /\ pc[p] = "save"
    /\ IsCurrent(p, n)
    /\ attempts' = [attempts EXCEPT ![n] = Incremented(n, held[p])]
    /\ due' = [due EXCEPT ![n] = FALSE]
    /\ failures' = [failures EXCEPT ![n] = @ + 1]
    /\ IF LastAttempt(snap[p][n])
         THEN pc' = [pc EXCEPT ![p] = "exhaust"] /\ UNCHANGED todo
         ELSE NextRow(p, n)
    /\ UNCHANGED <<status, snap, held, aborts, applied, tries>>

MarkExhausted(p, n) ==
    /\ pc[p] = "exhaust"
    /\ IsCurrent(p, n)
    /\ status' = [status EXCEPT ![n] = "exhausted"]
    /\ NextRow(p, n)
    /\ UNCHANGED <<attempts, due, snap, held, aborts, applied, failures, tries>>

\* The worker dies, or mark_failed or mark_exhausted raises out of the loop.
Abort(p) ==
    /\ aborts < MaxAborts
    /\ pc[p] # "idle"
    /\ aborts' = aborts + 1
    /\ pc' = [pc EXCEPT ![p] = "idle"]
    /\ todo' = [todo EXCEPT ![p] = {}]
    /\ UNCHANGED <<status, attempts, due, snap, held, applied, failures, tries>>

Replay(p, n) == GiveUp(p, n) \/ ReplaySucceeds(p, n) \/ ReplayFails(p, n)

Record(p, n) ==
    \/ MarkSucceeded(p, n) \/ MarkSucceededFails(p, n)
    \/ MarkFailedGet(p, n) \/ MarkFailedSave(p, n) \/ MarkExhausted(p, n)

ProcessDueRetries(p) == Fetch(p) \/ \E n \in Row : Replay(p, n) \/ Record(p, n)

Next ==
    \/ \E n \in Row : Store(n) \/ BecomeDue(n)
    \/ \E p \in Processor : ProcessDueRetries(p) \/ Abort(p)

Spec == Init /\ [][Next]_vars

\* The task is scheduled for ever, a started run goes on, and time passes.
Fairness ==
    /\ \A p \in Processor : WF_vars(ProcessDueRetries(p))
    /\ \A n \in Row : WF_vars(BecomeDue(n))

FairSpec == Spec /\ Fairness

-----------------------------------------------------------------------------
(* Properties.                                                             *)

\* Every variable has its type; a run is idle exactly when it has nothing to
\* do, and works only on rows that have been stored.
TypeOK ==
    /\ status \in [Row -> Status]
    /\ attempts \in [Row -> Nat]
    /\ due \in [Row -> BOOLEAN]
    /\ pc \in [Processor -> PC]
    /\ todo \in [Processor -> SUBSET Row]
    /\ snap \in [Processor -> [Row -> Nat]]
    /\ held \in [Processor -> Nat]
    /\ aborts \in Nat
    /\ applied \subseteq Row
    /\ failures \in [Row -> Nat]
    /\ tries \in [Row -> Nat]
    /\ \A p \in Processor : pc[p] = "idle" <=> todo[p] = {}
    /\ \A p \in Processor : \A n \in todo[p] : status[n] # "absent"

\* No row is reported as succeeded unless a replay of it took effect, also
\* when runs overlap and overwrite each other's marks.
SucceededWasApplied == \A n \in Row : status[n] = "succeeded" => n \in applied

\* No row is given up before max_attempts failures of it were recorded: stale
\* snapshots and lost increments only ever delay the end.
NotGivenUpEarly ==
    \A n \in Row : status[n] = "exhausted" => failures[n] >= MaxAttempts

\* Every stored row is settled in the end, whatever limit leaves out, however
\* runs overlap, and although some are cut short.
EveryRowSettles ==
    \A n \in Row : status[n] = "pending" ~> status[n] \in {"succeeded", "exhausted"}

\* A settled row stays as it is.  One run at a time guarantees this; two do
\* not, for mark_exhausted overwrites "succeeded".
SettledIsFinal ==
    [][\A n \in Row : status[n] \in {"succeeded", "exhausted"} => status'[n] = status[n]]_vars

Ledger == INSTANCE RetryLedger WITH
    verdict <- status,
    effects <- applied,
    recorded <- failures

\* One run at a time, the table is the ledger of module RetryLedger: nothing
\* is replayed or counted once a row is settled, every failure is counted
\* exactly once, and what settles a row is there when it does.
ImplementsLedger == Ledger!Spec

\* "Maximum retry attempts before marking as exhausted" (process_retries):
\* a row is replayed at most MaxAttempts times, not counting the replays
\* whose outcome a cut-short run did not record.
TriesBounded == \A n \in Row : tries[n] <= MaxAttempts + aborts
=============================================================================
