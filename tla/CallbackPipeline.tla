-------------------------- MODULE CallbackPipeline --------------------------
(***************************************************************************)
(* The webhook endpoint of django-sendparcel: views.callback, the          *)
(* CallbackProcessor behind it (dedup claim, row lock, provider, commit,   *)
(* release on failure), the table of dedup claims with its cleanup task,   *)
(* and the retry row a communication error leaves behind.                  *)
(*                                                                         *)
(* Every delivery of a webhook is a process of its own: the view is a      *)
(* coroutine, so deliveries interleave wherever the code awaits, and       *)
(* several server processes share the database.  An action is the code     *)
(* between two database operations.                                        *)
(***************************************************************************)
EXTENDS Integers

CONSTANTS
    Request,      \* deliveries of a webhook, one HTTP request each
    ShipmentId,   \* shipment ids a request may name
    Stored,       \* the ids that have a row in the shipment table
    Payload,      \* payloads, as far as ctx.dedup_hash tells them apart
    Status,       \* shipment statuses
    Edge,         \* moves the core library's state machine allows
    ShipmentOf,   \* the id a request names in its URL
    PayloadOf,    \* the payload a request carries
    StatusOf,     \* the status the provider reads from a payload
    Faults,       \* what may go wrong, see PossibleFaults
    None          \* neither a request nor a status

Key == ShipmentId \X Payload

PossibleFaults == {
    "crash",         \* a worker dies or its task is cancelled
    "dedup_error",   \* OperationalError while the claim is inserted
    "dedup_raises",  \* any other database error of the dedup store
    "release_error", \* OperationalError while the claim is deleted
    "store_error",   \* the retry row cannot be written
    "slow"}          \* a handler outlives WEBHOOK_DEDUP_WINDOW

ASSUME ConstantsAssumption ==
    /\ Stored \subseteq ShipmentId
    /\ ShipmentOf \in [Request -> ShipmentId]
    /\ PayloadOf \in [Request -> Payload]
    /\ StatusOf \in [Payload -> Status]
    /\ Edge \subseteq Status \X Status
    /\ Faults \subseteq PossibleFaults
    /\ None \notin Request \cup Status

VARIABLES
    row,       \* every stored shipment, as the transaction that locks it sees it
    lock,      \* holder of the SELECT ... FOR UPDATE lock of a row
    seen,      \* the row as a handler's open transaction loaded it
    claim,     \* dedup row of a (shipment, payload): who inserted it
    aged,      \* claims whose created_at is older than the window
    pc,        \* where the handler of a request is
    outcome,   \* how its processing ended
    queued,    \* requests that left a retry row
    forgotten  \* history: requests whose claim the cleanup task deleted

vars == <<row, lock, seen, claim, aged, pc, outcome, queued, forgotten>>

\* The status column, and the delivery whose update put it there (history).
Row == [status : Status, by : Request \cup {None}]

PC == {"new", "lock", "provider", "persist", "commit", "release", "store",
       "respond", "done", "crashed"}

Failure == {"communication", "rejected", "unexpected"}

Outcome == {"none", "applied", "duplicate", "refused"} \cup Failure

KeyOf(r) == <<ShipmentOf[r], PayloadOf[r]>>

\* Handlers that hold an open transaction on the shipment row.
InTransaction == {r \in Request : pc[r] \in {"provider", "persist", "commit"}}

\* Handlers between the dedup claim and the end of _process_locked.
Processing == {r \in Request : pc[r] \in {"lock", "provider", "persist", "commit"}}

\* Handlers that have claimed and have neither finished nor released.
Undecided ==
    {r \in Request : pc[r] \in {"lock", "provider", "persist", "commit", "release"}}

\* What everybody outside the transaction on a row sees of it.
Committed(s) ==
    IF lock[s] # None /\ pc[lock[s]] = "commit" THEN seen[lock[s]] ELSE row[s]

Init ==
    /\ row \in [Stored -> [status : Status, by : {None}]]
    /\ lock = [s \in Stored |-> None]
    /\ seen = [r \in Request |-> None]
    /\ claim = [k \in Key |-> None]
    /\ aged = {}
    /\ pc = [r \in Request |-> "new"]
    /\ outcome = [r \in Request |-> "none"]
    /\ queued = {}
    /\ forgotten = {}

-----------------------------------------------------------------------------
(* Plausible bugs.  Each operator below replaces the one its comment names *)
(* in a mutation run, which must then violate the property it is paired    *)
(* with in PROJECT.json.  The specification uses none of them.             *)

\* For RowIsFree: the row is loaded without FOR UPDATE.
LoadedWithoutLock(s) == TRUE

\* For ClaimIsFree: no unique constraint behind the INSERT.
InsertedAnyway(k) == TRUE

\* ... or a constraint on the payload hash alone, without the shipment.
ClaimedForPayload(k) == \A j \in Key : j[2] = k[2] => claim[j] = None

\* For EndTransaction: an error path leaves the transaction open.
LeakTransaction(r) == seen' = [seen EXCEPT ![r] = None] /\ UNCHANGED lock

\* For AfterRelease: the view stores a retry row for every failure ...
StoreEveryFailure(r) == "store"

\* ... or for none.
StoreNoFailure(r) == "respond"

\* For DeletedByCleanup: the comparison with the cutoff is reversed.
DeletedBeforeCutoff == {k \in Key : claim[k] # None} \ aged

\* For Release: only the library's own exceptions release the claim.
ReleaseKnownFailures(r) ==
    /\ pc[r] = "release"
    /\ claim' = [claim EXCEPT ![KeyOf(r)] = IF outcome[r] = "unexpected" THEN @ ELSE None]
    /\ aged' = {k \in aged : claim'[k] # None}
    /\ pc' = [pc EXCEPT ![r] = "respond"]
    /\ UNCHANGED <<row, lock, seen, outcome, queued, forgotten>>

\* For Undo: no atomic block, every statement is committed by itself.
KeepWrites(r) == UNCHANGED row

\* For Commit: the claim is released in a finally block.
CommitAndRelease(r) ==
    /\ pc[r] = "commit"
    /\ lock' = [lock EXCEPT ![ShipmentOf[r]] = None]
    /\ seen' = [seen EXCEPT ![r] = None]
    /\ pc' = [pc EXCEPT ![r] = "release"]
    /\ outcome' = [outcome EXCEPT ![r] = "applied"]
    /\ UNCHANGED <<row, claim, aged, queued, forgotten>>

-----------------------------------------------------------------------------
(* The view, before it hands the request to the processor.                 *)

\* 415, 413 or 400: content type, size or JSON is wrong.
Refuse(r) ==
    /\ pc[r] = "new"
    /\ pc' = [pc EXCEPT ![r] = "done"]
    /\ outcome' = [outcome EXCEPT ![r] = "refused"]
    /\ UNCHANGED <<row, lock, seen, claim, aged, queued, forgotten>>

(* The dedup claim: one INSERT under a unique constraint, autocommitted.   *)

ClaimIsFree(k) == claim[k] = None

Claim(r) ==
    /\ pc[r] = "new"
    /\ ClaimIsFree(KeyOf(r))
    /\ claim' = [claim EXCEPT ![KeyOf(r)] = r]
    /\ pc' = [pc EXCEPT ![r] = "lock"]
    /\ UNCHANGED <<row, lock, seen, aged, outcome, queued, forgotten>>

\* IntegrityError: the view answers 200 "accepted" and does nothing.
Duplicate(r) ==
    /\ pc[r] = "new"
    /\ ~ClaimIsFree(KeyOf(r))
    /\ pc' = [pc EXCEPT ![r] = "done"]
    /\ outcome' = [outcome EXCEPT ![r] = "duplicate"]
    /\ UNCHANGED <<row, lock, seen, claim, aged, queued, forgotten>>

\* OperationalError: the handler goes on without a claim.
SkipDedup(r) ==
    /\ "dedup_error" \in Faults
    /\ pc[r] = "new"
    /\ pc' = [pc EXCEPT ![r] = "lock"]
    /\ UNCHANGED <<row, lock, seen, claim, aged, outcome, queued, forgotten>>

\* Any other exception leaves process() before its try block: status 500.
ClaimRaises(r) ==
    /\ "dedup_raises" \in Faults
    /\ pc[r] = "new"
    /\ pc' = [pc EXCEPT ![r] = "respond"]
    /\ outcome' = [outcome EXCEPT ![r] = "unexpected"]
    /\ UNCHANGED <<row, lock, seen, claim, aged, queued, forgotten>>

-----------------------------------------------------------------------------
(* _process_locked: one transaction on the shipment row.                   *)

RowIsFree(s) == lock[s] = None

LoadLocked(r) ==
    LET s == ShipmentOf[r]
    IN  /\ pc[r] = "lock"
        /\ s \in Stored
        /\ RowIsFree(s)
        /\ lock' = [lock EXCEPT ![s] = r]
        /\ seen' = [seen EXCEPT ![r] = row[s]]
        /\ pc' = [pc EXCEPT ![r] = "provider"]
        /\ UNCHANGED <<row, claim, aged, outcome, queued, forgotten>>

ShipmentMissing(r) ==
    /\ pc[r] = "lock"
    /\ ShipmentOf[r] \notin Stored
    /\ pc' = [pc EXCEPT ![r] = "release"]
    /\ outcome' = [outcome EXCEPT ![r] = "rejected"]
    /\ UNCHANGED <<row, lock, seen, claim, aged, queued, forgotten>>

\* The end of the transaction frees the row; the instance is not used again.
EndTransaction(r) ==
    /\ lock' = [lock EXCEPT ![ShipmentOf[r]] = None]
    /\ seen' = [seen EXCEPT ![r] = None]

\* The database undoes what the transaction has written.
Undo(r) ==
    row' = IF pc[r] = "commit" THEN [row EXCEPT ![ShipmentOf[r]] = seen[r]] ELSE row

\* An exception leaves the atomic block: rolled back, then process() catches it.
RollBack(r, failure) ==
    /\ Undo(r)
    /\ EndTransaction(r)
    /\ pc' = [pc EXCEPT ![r] = "release"]
    /\ outcome' = [outcome EXCEPT ![r] = failure]
    /\ UNCHANGED <<claim, aged, queued, forgotten>>

\* The provider verifies the callback and reads an update from it.
ProviderAccepts(r) ==
    /\ pc[r] = "provider"
    /\ pc' = [pc EXCEPT ![r] = "persist"]
    /\ UNCHANGED <<row, lock, seen, claim, aged, outcome, queued, forgotten>>

ProviderRaises(r) ==
    /\ pc[r] = "provider"
    /\ \E failure \in Failure : RollBack(r, failure)

LegalMove(r) == <<seen[r].status, StatusOf[PayloadOf[r]]>> \in Edge

\* The move is checked against the loaded instance and written by an UPDATE.
ApplyUpdate(r) ==
    /\ pc[r] = "persist"
    /\ LegalMove(r)
    /\ row' = [row EXCEPT ![ShipmentOf[r]] =
                  [status |-> StatusOf[PayloadOf[r]], by |-> r]]
    /\ pc' = [pc EXCEPT ![r] = "commit"]
    /\ UNCHANGED <<lock, seen, claim, aged, outcome, queued, forgotten>>

\* InvalidTransitionError.
RejectMove(r) ==
    /\ pc[r] = "persist"
    /\ ~LegalMove(r)
    /\ RollBack(r, "rejected")

\* The UPDATE fails.
UpdateFails(r) ==
    /\ pc[r] = "persist"
    /\ LegalMove(r)
    /\ RollBack(r, "unexpected")

\* The flow returns, and the atomic block with it.
Commit(r) ==
    /\ pc[r] = "commit"
    /\ EndTransaction(r)
    /\ pc' = [pc EXCEPT ![r] = "respond"]
    /\ outcome' = [outcome EXCEPT ![r] = "applied"]
    /\ UNCHANGED <<row, claim, aged, queued, forgotten>>

\* Something raises after the write: the SELECT that reads the row back, what
\* else the flow does, or the COMMIT.
RaiseAfterUpdate(r) ==
    /\ pc[r] = "commit"
    /\ \E failure \in Failure : RollBack(r, failure)

-----------------------------------------------------------------------------
(* The except branch of process(), and the view's handling of what it      *)
(* re-raises: only a communication error leaves a retry row.               *)

AfterRelease(r) == IF outcome[r] = "communication" THEN "store" ELSE "respond"

\* DELETE ... WHERE shipment_id AND payload_hash, whoever inserted the row.
Release(r) ==
    /\ pc[r] = "release"
    /\ claim' = [claim EXCEPT ![KeyOf(r)] = None]
    /\ aged' = aged \ {KeyOf(r)}
    /\ pc' = [pc EXCEPT ![r] = AfterRelease(r)]
    /\ UNCHANGED <<row, lock, seen, outcome, queued, forgotten>>

\* contextlib.suppress(OperationalError): the claim stays.
ReleaseFails(r) ==
    /\ "release_error" \in Faults
    /\ pc[r] = "release"
    /\ pc' = [pc EXCEPT ![r] = AfterRelease(r)]
    /\ UNCHANGED <<row, lock, seen, claim, aged, outcome, queued, forgotten>>

\* The new exception replaces the one being handled: no retry row, status 500.
ReleaseRaises(r) ==
    /\ "dedup_raises" \in Faults
    /\ pc[r] = "release"
    /\ pc' = [pc EXCEPT ![r] = "respond"]
    /\ outcome' = [outcome EXCEPT ![r] = "unexpected"]
    /\ UNCHANGED <<row, lock, seen, claim, aged, queued, forgotten>>

StoreFailedCallback(r) ==
    /\ pc[r] = "store"
    /\ queued' = queued \cup {r}
    /\ pc' = [pc EXCEPT ![r] = "respond"]
    /\ UNCHANGED <<row, lock, seen, claim, aged, outcome, forgotten>>

\* Logged and swallowed.
StoreFails(r) ==
    /\ "store_error" \in Faults
    /\ pc[r] = "store"
    /\ pc' = [pc EXCEPT ![r] = "respond"]
    /\ UNCHANGED <<row, lock, seen, claim, aged, outcome, queued, forgotten>>

Respond(r) ==
    /\ pc[r] = "respond"
    /\ pc' = [pc EXCEPT ![r] = "done"]
    /\ UNCHANGED <<row, lock, seen, claim, aged, outcome, queued, forgotten>>

-----------------------------------------------------------------------------
(* What happens around the handlers.                                       *)

\* The worker dies, or the task is cancelled when the client disconnects:
\* CancelledError is no Exception, so nothing is released, and the database
\* rolls the open transaction back.
Crash(r) ==
    /\ "crash" \in Faults
    /\ pc[r] \notin {"new", "done", "crashed"}
    /\ pc' = [pc EXCEPT ![r] = "crashed"]
    /\ Undo(r)
    /\ lock' = [s \in Stored |-> IF lock[s] = r THEN None ELSE lock[s]]
    /\ seen' = [seen EXCEPT ![r] = None]
    /\ UNCHANGED <<claim, aged, outcome, queued, forgotten>>

\* The window (15 minutes by default) passes over a claim.
Age(k) ==
    /\ claim[k] # None
    /\ k \notin aged
    /\ "slow" \in Faults \/ claim[k] \notin Undecided
    /\ aged' = aged \cup {k}
    /\ UNCHANGED <<row, lock, seen, claim, pc, outcome, queued, forgotten>>

\* created_at < now - window.
DeletedByCleanup == aged

\* cleanup_dedup_task, or the cleanup_dedup command: one DELETE.
Cleanup ==
    /\ DeletedByCleanup # {}
    /\ claim' = [k \in Key |-> IF k \in DeletedByCleanup THEN None ELSE claim[k]]
    /\ forgotten' = forgotten \cup {claim[k] : k \in DeletedByCleanup}
    /\ aged' = aged \ DeletedByCleanup
    /\ UNCHANGED <<row, lock, seen, pc, outcome, queued>>

-----------------------------------------------------------------------------
Arrive(r) == Refuse(r) \/ Claim(r) \/ Duplicate(r) \/ SkipDedup(r) \/ ClaimRaises(r)

Transact(r) ==
    \/ LoadLocked(r) \/ ShipmentMissing(r)
    \/ ProviderAccepts(r) \/ ProviderRaises(r)
    \/ ApplyUpdate(r) \/ RejectMove(r) \/ UpdateFails(r)
    \/ Commit(r) \/ RaiseAfterUpdate(r)

Finish(r) ==
    \/ Release(r) \/ ReleaseFails(r) \/ ReleaseRaises(r)
    \/ StoreFailedCallback(r) \/ StoreFails(r)
    \/ Respond(r)

Handle(r) == Arrive(r) \/ Transact(r) \/ Finish(r)

Next ==
    \/ \E r \in Request : Handle(r) \/ Crash(r)
    \/ \E k \in Key : Age(k)
    \/ Cleanup

Spec == Init /\ [][Next]_vars

\* An accepted connection is served: the event loop resumes every handler
\* whose await is over.  The clock runs and the cleanup task is scheduled.
Fairness ==
    /\ \A r \in Request : WF_vars(Handle(r))
    /\ \A k \in Key : WF_vars(Age(k))
    /\ WF_vars(Cleanup)

FairSpec == Spec /\ Fairness
-----------------------------------------------------------------------------
(* Properties.                                                             *)

\* Every variable has its type, an aged mark belongs to an existing claim
\* (it is the created_at column of that row), a claim is filed under the key
\* of the request that inserted it, a handler in its transaction has loaded the
\* row, and a row lock is held by a handler of that row in its transaction.
TypeOK ==
    /\ row \in [Stored -> Row]
    /\ lock \in [Stored -> Request \cup {None}]
    /\ seen \in [Request -> Row \cup {None}]
    /\ claim \in [Key -> Request \cup {None}]
    /\ aged \subseteq {k \in Key : claim[k] # None}
    /\ pc \in [Request -> PC]
    /\ outcome \in [Request -> Outcome]
    /\ queued \subseteq Request
    /\ forgotten \subseteq Request
    /\ \A k \in Key : claim[k] # None => KeyOf(claim[k]) = k
    /\ \A r \in InTransaction : seen[r] \in Row
    /\ \A s \in Stored : lock[s] # None =>
           lock[s] \in InTransaction /\ ShipmentOf[lock[s]] = s

\* Callbacks of one shipment are serialized: two handlers never have a
\* transaction open on the same row, and what a handler decides upon is what
\* the row still holds (callback.py: "validated against the locked row").
DecidesOnCurrentRow ==
    \A r \in InTransaction :
        /\ pc[r] # "commit" => seen[r] = row[ShipmentOf[r]]
        /\ \A q \in InTransaction : ShipmentOf[q] = ShipmentOf[r] => q = r

\* Whatever fails, callbacks move a shipment only along edges of the core
\* library's state machine.
LegalTransitions ==
    [][\A s \in Stored :
          Committed(s)'.status # Committed(s).status
              => <<Committed(s).status, Committed(s)'.status>> \in Edge]_vars

\* "inserting first prevents a concurrent identical callback from being
\* processed twice" (callback.py): two deliveries of one payload are never
\* both between the claim and the end of the transaction.
OneProcessorPerPayload ==
    \A q, r \in Processing : KeyOf(q) = KeyOf(r) => q = r

\* A payload that took effect is remembered until the cleanup task deletes
\* its claim: no failure, retry or crash of another delivery reopens it.
SuccessRemembered ==
    \A r \in Request : outcome[r] = "applied" /\ r \notin forgotten
                           => claim[KeyOf(r)] = r

\* A communication error answered with 502 has left a retry row.
TransientFailureQueued ==
    \A r \in Request :
        pc[r] = "done" /\ outcome[r] = "communication" => r \in queued

\* A delivery takes effect as a whole or not at all: what a shipment shows was
\* put there by a delivery that was processed to its end, never by one that
\* raised after its write, whose worker died, or that waits for its replay in
\* the retry table (the replay would then be the second time it takes effect).
OnlyAppliedShows ==
    \A s \in Stored :
        LET r == Committed(s).by
        IN  r # None => outcome[r] = "applied" /\ r \notin queued

\* A delivery that left a trace: it is being processed, or its worker died in
\* the middle, or it waits for its replay, or it was decided for good.
LeftATrace(r) ==
    \/ pc[r] \in {"lock", "provider", "persist", "commit", "release", "store", "crashed"}
    \/ r \in queued
    \/ outcome[r] \in {"applied", "rejected", "unexpected"}

\* A delivery is never answered as a duplicate of nothing, or of a delivery
\* that was refused or was a duplicate itself: behind it stands another one of
\* the same payload for the same shipment that left a trace.  That trace may be
\* a dead worker or an unexpected error: DuplicateIsAccountedFor below leaves
\* those out, and that is where the code loses payloads.
DuplicateHasOriginal ==
    \A r \in Request : outcome[r] = "duplicate" =>
        \E q \in Request : q # r /\ KeyOf(q) = KeyOf(r) /\ LeftATrace(q)

\* Failing never poisons the dedup table: a claim belongs to a request still
\* being processed, to one that took effect, or to one whose worker died.
ClaimAccountedFor ==
    \A k \in Key : claim[k] # None =>
        LET r == claim[k]
        IN  r \in Undecided \/ outcome[r] = "applied" \/ pc[r] = "crashed"

\* Every delivery is answered unless its worker dies: no row lock is leaked
\* and no handler waits for ever for another one.
RequestAnswered == \A r \in Request : <>(pc[r] \in {"done", "crashed"})

\* What a dead worker left in the dedup table does not block its payload for
\* ever: the claim is deleted once its window has passed.
AbandonedClaimExpires ==
    \A r \in Request :
        (pc[r] = "crashed" /\ claim[KeyOf(r)] = r) ~> (claim[KeyOf(r)] # r)

\* The statuses an observer of the shipments sees.
Shown == [s \in Stored |-> Committed(s).status]

\* How a delivery stands for that observer.
Verdict(r) ==
    IF outcome[r] \in {"none", "applied"} THEN outcome[r] ELSE "declined"

\* The payloads that took effect and whose claim is still there.
Remembered == {k \in Key : claim[k] # None /\ outcome[claim[k]] = "applied"}

OnceOnly == INSTANCE OnceOnlyCallbacks WITH
    status <- Shown,
    verdict <- [r \in Request |-> Verdict(r)],
    remembered <- Remembered

\* As long as every handler really claims and none outlives the window, the
\* pipeline implements once-only processing (module OnceOnlyCallbacks).
ImplementsOnceOnly == OnceOnly!Spec

\* Said by dedup.release ("called when processing fails after the claim was
\* inserted") and by the tests ("after a successful callback, the identical
\* payload is a duplicate"): only the cleanup task, and only after the window,
\* deletes the claim of a delivery that took effect.  It holds while every
\* handler really claims and none outlives the window, and not otherwise.
CommittedClaimSurvives ==
    [][\A k \in Key :
          claim[k] # None /\ outcome[claim[k]] = "applied" /\ k \notin aged
              => claim'[k] = claim[k]]_vars

\* Said by callback.py:73 and by the tests, and not so: a delivery answered
\* "accepted" as a duplicate is accounted for once every handler is through:
\* some delivery of the payload took effect, waits in the retry table, or was
\* refused on its merits.
DuplicateIsAccountedFor ==
    (\A r \in Request : pc[r] \in {"new", "done"}) =>
        \A r \in Request : outcome[r] = "duplicate" =>
            \E q \in Request :
                /\ KeyOf(q) = KeyOf(r)
                /\ q \in queued \/ outcome[q] \in {"applied", "rejected"}
=============================================================================
