---------------------------- MODULE StatusPoller ----------------------------
(***************************************************************************)
(* The batch poll of django-sendparcel (poll_all_pending_statuses_task):   *)
(* a scheduler starts it over and over; it selects the oldest shipments in *)
(* a pending status and asks the provider about one after the other.       *)
(*                                                                         *)
(* Around it everything else that moves or deletes a shipment, in as few   *)
(* steps as it takes: the parcel itself; webhooks about it (lost, repeated *)
(* and out of order) applied by callbacks under their row lock; late       *)
(* writers that load a row and write it some time later, which are retry   *)
(* replays and a second poll, and the staff's bulk actions, change form    *)
(* and update_status, which save the whole row with a status of their own; *)
(* and deletions.  An action of the poll is the code between two           *)
(* operations on the database or the provider.                             *)
(***************************************************************************)
EXTENDS Integers, FiniteSets

CONSTANTS
    N,           \* shipments, numbered by created_at
    Limit,       \* limit of the batch
    MaxRetries,  \* max_retries of the batch
    Status,      \* shipment statuses
    Pending,     \* pending_statuses of the task
    Edge,        \* moves the core library's state machine allows
    Progress,    \* moves a parcel makes
    Silent,      \* shipments for which the provider never answers with a status
    MaxLate,     \* bound on late writers
    MaxCuts,     \* bound on batches cut short by an error or the death of a worker
    None         \* no status; the status of a deleted row

Row == 1 .. N

ASSUME ConstantsAssumption ==
    /\ N \in Nat
    /\ Limit \in Nat \ {0}
    /\ MaxRetries \in Nat \ {0}
    /\ Pending \subseteq Status
    /\ Edge \subseteq Status \X Status
    /\ Progress \subseteq Status \X Status
    /\ Silent \subseteq Row
    /\ MaxLate \in Nat
    /\ MaxCuts \in Nat
    /\ None \notin Status

VARIABLES
    row,       \* status column of each shipment
    parcel,    \* what the provider would answer now
    reported,  \* what it has answered or sent so far
    pc,        \* where the batch is
    batch,     \* selected shipments it is not through with
    copy,      \* status of the instance loaded for the current one
    report,    \* the provider's last answer about it
    attempt,   \* attempts made for it
    late,      \* a late writer: the row it has loaded, and with which status
    lates,     \* late writers so far
    cuts,      \* batches cut short so far
    selected,  \* history: what the last batch selected
    polled,    \* history: the part of it the provider was asked about
    stopped    \* history: the shipment at whose load it stopped, or 0

vars == <<row, parcel, reported, pc, batch, copy, report, attempt, late, lates,
          cuts, selected, polled, stopped>>

task == <<pc, batch, copy, report, attempt, selected, polled, stopped>>

others == <<parcel, reported, late, lates, cuts>>

NoLate == [id |-> 0, seen |-> None]

Init ==
    /\ parcel \in [Row -> Pending]
    /\ row = parcel
    /\ reported = [n \in Row |-> {parcel[n]}]
    /\ pc = "idle"
    /\ batch = {}
    /\ copy = None
    /\ report = None
    /\ attempt = 0
    /\ late = NoLate
    /\ lates = 0
    /\ cuts = 0
    /\ selected = {}
    /\ polled = {}
    /\ stopped = 0

Exists(n) == row[n] # None

\* transition_shipment, and then update_fields, which changes no row that is gone.
Write(n, from, to) ==
    /\ Exists(n)
    /\ <<from, to>> \in Edge
    /\ row' = [row EXCEPT ![n] = to]

\* The shipment the loop is at.
IsCurrent(n) == n \in batch /\ \A m \in batch : n <= m

-----------------------------------------------------------------------------
(* Plausible bugs, used only by the mutation runs of PROJECT.json.         *)

\* For Oldest: off by one.
OneTooFew(S) == {n \in S : Cardinality({m \in S : m < n}) < Limit - 1}

\* For NextShipment: the loop body returns instead of going on.
ReturnEarly(n) ==
    /\ batch' = batch \ {n}
    /\ pc' = "idle"
    /\ copy' = None
    /\ report' = None
    /\ attempt' = 0

\* For AfterFailure: the last failure is raised, which ends the task.
RaiseLastFailure(n, instance) ==
    IF attempt + 1 = MaxRetries
      THEN batch' = {} /\ pc' = "idle" /\ copy' = None /\ report' = None /\ attempt' = 0
      ELSE /\ attempt' = attempt + 1 /\ pc' = "fetch" /\ report' = None
           /\ copy' = instance /\ UNCHANGED batch

-----------------------------------------------------------------------------
(* What happens around the batch.                                          *)

\* The parcel moves on, and the provider may send a webhook about it.
ParcelMoves(n) ==
    /\ n \notin Silent
    /\ \E to \in Status :
          /\ <<parcel[n], to>> \in Progress
          /\ parcel' = [parcel EXCEPT ![n] = to]
          /\ reported' = [reported EXCEPT ![n] = @ \cup {to}]
    /\ UNCHANGED <<row, late, lates, cuts>> /\ UNCHANGED task

\* A webhook, perhaps an old one: checked against the locked row.
Callback(n) ==
    /\ \E to \in reported[n] : Write(n, row[n], to)
    /\ UNCHANGED others /\ UNCHANGED task

Delete(n) ==
    /\ Exists(n)
    /\ row' = [row EXCEPT ![n] = None]
    /\ UNCHANGED others /\ UNCHANGED task

LateLoad(n) ==
    /\ lates < MaxLate
    /\ late = NoLate
    /\ Exists(n)
    /\ late' = [id |-> n, seen |-> row[n]]
    /\ lates' = lates + 1
    /\ UNCHANGED <<row, parcel, reported, cuts>> /\ UNCHANGED task

\* A retry replay, or a poll of this shipment alone.
LateUpdate(n) ==
    /\ late.id = n
    /\ \E to \in reported[n] : Write(n, late.seen, to)
    /\ late' = NoLate
    /\ UNCHANGED <<parcel, reported, lates, cuts>> /\ UNCHANGED task

\* The instance is saved whole: a bulk action checks its move against the
\* instance, the form and update_status take any status, and a row that is gone
\* is inserted.
StaffSave(n) ==
    /\ late.id = n
    /\ \E to \in Status : row' = [row EXCEPT ![n] = to]
    /\ late' = NoLate
    /\ UNCHANGED <<parcel, reported, lates, cuts>> /\ UNCHANGED task

LateRaises ==
    /\ late # NoLate
    /\ late' = NoLate
    /\ UNCHANGED <<row, parcel, reported, lates, cuts>> /\ UNCHANGED task

-----------------------------------------------------------------------------
(* One batch.                                                              *)

Candidates == {n \in Row : row[n] \in Pending}

\* ORDER BY created_at LIMIT limit.
Oldest(S) == {n \in S : Cardinality({m \in S : m < n}) < Limit}

\* An empty selection ends the task at once.
SelectBatch ==
    /\ pc = "idle"
    /\ Candidates # {}
    /\ batch' = Oldest(Candidates)
    /\ selected' = batch'
    /\ polled' = {}
    /\ stopped' = 0
    /\ pc' = IF batch' = {} THEN "idle" ELSE "load"
    /\ UNCHANGED <<row, copy, report, attempt>> /\ UNCHANGED others

\* get_by_id: the instance every attempt will use.
Load(n) ==
    /\ pc = "load"
    /\ IsCurrent(n)
    /\ Exists(n)
    /\ copy' = row[n]
    /\ pc' = "fetch"
    /\ UNCHANGED <<row, batch, report, attempt, selected, polled, stopped>> /\ UNCHANGED others

\* discover() and get_by_id stand outside the try block of the poll: whatever
\* they raise, ShipmentNotFoundError for a shipment that is gone or an error of
\* the database, the task logs and raises, and the rest of the batch is not
\* reached.
LoadRaises(n) ==
    /\ pc = "load"
    /\ IsCurrent(n)
    /\ \/ ~Exists(n) /\ UNCHANGED cuts
       \/ cuts < MaxCuts /\ cuts' = cuts + 1
    /\ batch' = {}
    /\ pc' = "idle"
    /\ stopped' = n
    /\ UNCHANGED <<row, copy, report, attempt, selected, polled>>
    /\ UNCHANGED <<parcel, reported, late, lates>>

Fetch(n) ==
    /\ pc = "fetch"
    /\ IsCurrent(n)
    /\ n \notin Silent
    /\ report' = parcel[n]
    /\ polled' = polled \cup {n}
    /\ pc' = "save"
    /\ UNCHANGED <<row, batch, copy, attempt, selected, stopped>> /\ UNCHANGED others

\* The loop goes on with the next shipment, or the task is done.
NextShipment(n) ==
    /\ batch' = batch \ {n}
    /\ pc' = IF batch = {n} THEN "idle" ELSE "load"
    /\ copy' = None
    /\ report' = None
    /\ attempt' = 0

\* The answer has no status: what else it has is written.
NoNews(n) ==
    /\ pc = "fetch"
    /\ IsCurrent(n)
    /\ Exists(n)
    /\ polled' = polled \cup {n}
    /\ NextShipment(n)
    /\ UNCHANGED <<row, selected, stopped>> /\ UNCHANGED others

Save(n) ==
    /\ pc = "save"
    /\ IsCurrent(n)
    /\ Write(n, copy, report)
    /\ NextShipment(n)
    /\ UNCHANGED <<selected, polled, stopped>> /\ UNCHANGED others

\* Back off and try again with the instance as it is, or return None.
AfterFailure(n, instance) ==
    IF attempt + 1 = MaxRetries
      THEN NextShipment(n)
      ELSE /\ attempt' = attempt + 1 /\ pc' = "fetch" /\ report' = None
           /\ copy' = instance /\ UNCHANGED batch

\* The provider or the database fails, the move is not legal, or update_fields
\* finds no row.
Raises(n) ==
    /\ pc \in {"fetch", "save"}
    /\ IsCurrent(n)
    /\ polled' = polled \cup {n}
    /\ AfterFailure(n, copy)
    /\ UNCHANGED <<row, selected, stopped>> /\ UNCHANGED others

\* A legal move changes the instance first: the UPDATE fails after that, or takes
\* effect and update_fields raises when it reads the row back.
RaisesMoved(n) ==
    /\ pc = "save"
    /\ IsCurrent(n)
    /\ \/ Write(n, copy, report)
       \/ <<copy, report>> \in Edge /\ UNCHANGED row
    /\ AfterFailure(n, report)
    /\ UNCHANGED <<selected, polled, stopped>> /\ UNCHANGED others

\* The worker dies; nothing in memory is left.
Die ==
    /\ cuts < MaxCuts
    /\ pc # "idle"
    /\ cuts' = cuts + 1
    /\ pc' = "idle"
    /\ batch' = {}
    /\ copy' = None
    /\ report' = None
    /\ attempt' = 0
    /\ selected' = {}
    /\ polled' = {}
    /\ stopped' = 0
    /\ UNCHANGED <<row, parcel, reported, late, lates>>

-----------------------------------------------------------------------------
Around(n) ==
    \/ ParcelMoves(n) \/ Callback(n) \/ Delete(n)
    \/ LateLoad(n) \/ LateUpdate(n) \/ StaffSave(n)

Poll(n) ==
    \/ Load(n) \/ LoadRaises(n)
    \/ Fetch(n) \/ NoNews(n) \/ Save(n) \/ Raises(n) \/ RaisesMoved(n)

Task == SelectBatch \/ \E n \in Row : Poll(n)

Next == Task \/ Die \/ LateRaises \/ \E n \in Row : Around(n)

Spec == Init /\ [][Next]_vars

\* The task is scheduled for ever and a batch goes on.  Of the world outside:
\* except for the
\* silent ones parcels arrive, the provider answers with a status, and the
\* database takes it, again and again.
Fairness ==
    /\ WF_vars(Task)
    /\ \A n \in Row \ Silent :
          WF_vars(ParcelMoves(n)) /\ SF_vars(Fetch(n)) /\ SF_vars(Save(n))

FairSpec == Spec /\ Fairness

-----------------------------------------------------------------------------
(* Properties.                                                             *)

\* Every variable has its type; the task is idle exactly when its batch is
\* empty, it holds an instance while it asks, and an answer while it saves.
TypeOK ==
    /\ row \in [Row -> Status \cup {None}]
    /\ parcel \in [Row -> Status]
    /\ reported \in [Row -> SUBSET Status]
    /\ pc \in {"idle", "load", "fetch", "save"}
    /\ batch \subseteq Row
    /\ copy \in Status \cup {None}
    /\ report \in Status \cup {None}
    /\ attempt \in 0 .. MaxRetries - 1
    /\ late \in [id : Row \cup {0}, seen : Status \cup {None}]
    /\ lates \in Nat
    /\ cuts \in Nat
    /\ selected \subseteq Row
    /\ polled \subseteq Row
    /\ stopped \in Row \cup {0}
    /\ pc = "idle" <=> batch = {}
    /\ pc \in {"fetch", "save"} <=> copy # None
    /\ pc = "save" <=> report # None

\* A shipment whose attempts all fail does not cost the others their turn: a
\* batch that has ended has asked about all it selected, or has stopped at the
\* load of a shipment, and then it has asked about all the older ones.
BatchStopsOnlyAtALoad ==
    pc = "idle" =>
        \/ polled = selected
        \/ stopped \in selected /\ polled = {n \in selected : n < stopped}

\* Silent shipments do not push the others out of the batch for good: as long
\* as they are fewer than limit, every batch takes in the oldest pending
\* shipment the provider answers about.
OldestAnsweringIsSelected ==
    [][SelectBatch =>
          \A n \in Candidates \ Silent :
              (\A m \in Candidates \ Silent : n <= m) => n \in batch']_vars

\* A poll of the shipment is of no use: there is no answer, or the state machine
\* has no move from the status of the row to the one the provider answers.
Hopeless(n) == row[n] \in Pending /\ (n \in Silent \/ <<row[n], parcel[n]>> \notin Edge)

\* The poll repairs what lost webhooks leave and what stale writers and the staff
\* undo: a shipment leaves the pending statuses for good, or polls of it are of
\* no use, or limit older ones for which they are of no use take up the batch.
LeavesPending ==
    \A n \in Row :
        <>[](row[n] \in Pending =>
                Hopeless(n) \/ Cardinality({m \in Row : m < n /\ Hopeless(m)}) >= Limit)
=============================================================================
