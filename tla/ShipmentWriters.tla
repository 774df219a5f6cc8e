--------------------------- MODULE ShipmentWriters ---------------------------
(***************************************************************************)
(* Everything in django-sendparcel that changes or deletes an existing     *)
(* shipment, against the same rows: webhook callbacks under a row lock,    *)
(* the retry replay and the status poller, which load the row without a    *)
(* lock and update the columns a report gives, and those that save a whole *)
(* instance they have loaded: the bulk actions of the admin, its change    *)
(* form, and the repository's update_status.                               *)
(*                                                                         *)
(* A plain SELECT never waits; an UPDATE or DELETE waits while another     *)
(* transaction holds the row lock.  Outside the callback every statement   *)
(* is a transaction of its own.                                            *)
(***************************************************************************)
EXTENDS Integers

CONSTANTS
    Shipment,    \* rows of the shipment table
    Status,      \* shipment statuses
    Edge,        \* moves the core library's state machine allows
    Writer,      \* runs of the code that writes to shipments
    Kind,        \* the code a writer runs, see Kinds
    Selected,    \* the rows it is about
    New,         \* the statuses it may want to set
    MaxRetries,  \* max_retries of _poll_single_shipment_status
    None         \* neither a writer nor a status; the status of no row

\* Writers that save a whole instance: Django updates every column of its row,
\* and inserts the row when it is gone.
Savers == {"admin", "form", "direct"}

Kinds == {"callback", "replay", "poll", "delete"} \cup Savers

ASSUME ConstantsAssumption ==
    /\ Edge \subseteq Status \X Status
    /\ Kind \in [Writer -> Kinds]
    /\ Selected \in [Writer -> SUBSET Shipment]
    /\ \A w \in Writer : Kind[w] # "admin" => \E s \in Shipment : Selected[w] = {s}
    /\ New \in [Writer -> SUBSET Status]
    /\ MaxRetries \in Nat \ {0}
    /\ None \notin Writer \cup Status

VARIABLES
    status,   \* status column of each row, None when it is deleted
    report,   \* the other columns of a row: whose report wrote them last
    lock,     \* holder of the FOR UPDATE lock of a row
    pc,       \* where each writer is
    copy,     \* the instances a writer has loaded
    origin,   \* history: the statuses it read from the database
    todo,     \* rows a writer has not dealt with
    attempt   \* attempts a poller has made

vars == <<status, report, lock, pc, copy, origin, todo, attempt>>

Unread == [status |-> None, report |-> None]

Exists(s) == status[s] # None

RowOf(s) == [status |-> status[s], report |-> report[s]]

Init ==
    /\ status \in [Shipment -> Status]
    /\ report = [s \in Shipment |-> None]
    /\ lock = [s \in Shipment |-> None]
    /\ pc = [w \in Writer |-> "start"]
    /\ copy = [w \in Writer |-> [s \in Shipment |-> Unread]]
    /\ origin = [w \in Writer |-> [s \in Shipment |-> None]]
    /\ todo = [w \in Writer |-> Selected[w]]
    /\ attempt = [w \in Writer |-> 0]

-----------------------------------------------------------------------------
(* Plausible bugs, used only by the mutation runs of PROJECT.json.         *)

\* For RowIsFree: the callback handler does not lock, and nobody waits.
NothingIsLocked(s) == TRUE

\* For Accepts: the transition sets the status of the instance, and then checks.
SetThenCheck(w, s, r) == TRUE

\* For Unlock: a refused callback keeps its transaction open.
StayLocked(w) == UNCHANGED lock

\* For UpdateFields: a row that is missing is inserted (update_or_create).
Upsert(w, s, r) ==
    /\ status' = [status EXCEPT ![s] = IF r.status = None THEN @ ELSE r.status]
    /\ report' = [report EXCEPT ![s] = IF r.tracking THEN w ELSE @]

-----------------------------------------------------------------------------
RowIsFree(s) == lock[s] = None

\* transition_shipment accepts the move of the loaded instance.
MayMove(w, s, to) == <<copy[w][s].status, to>> \in Edge

\* A report gives a status, or tracking data, or both; the one that gives
\* neither stands for a report that never came, too.
Reports(w) == [status : New[w] \cup {None}, tracking : BOOLEAN]

\* A status that is not given is not checked.
Accepts(w, s, r) == r.status = None \/ MayMove(w, s, r.status)

\* transition_shipment moves the instance, before anything is written.
Moved(w, s, r) == [copy EXCEPT ![w][s].status = IF r.status = None THEN @ ELSE r.status]

\* The instance is loaded from the row.
LoadCopy(w, s) ==
    /\ copy' = [copy EXCEPT ![w][s] = RowOf(s)]
    /\ origin' = [origin EXCEPT ![w][s] = status[s]]

Unlock(w) == lock' = [s \in Shipment |-> IF lock[s] = w THEN None ELSE lock[s]]

\* The writer is through with a row, and finished after its last one.
Processed(w, s) ==
    /\ todo' = [todo EXCEPT ![w] = @ \ {s}]
    /\ pc' = [pc EXCEPT ![w] = IF todo[w] = {s} THEN "done" ELSE "loaded"]

\* update_fields: one UPDATE of the columns that are given, which raises when
\* it finds no row.
UpdateFields(w, s, r) ==
    /\ Exists(s)
    /\ status' = [status EXCEPT ![s] = IF r.status = None THEN @ ELSE r.status]
    /\ report' = [report EXCEPT ![s] = IF r.tracking THEN w ELSE @]

\* shipment.save(): the new status, and every other column as it was read.
SaveWhole(w, s, to) ==
    /\ RowIsFree(s)
    /\ status' = [status EXCEPT ![s] = to]
    /\ report' = [report EXCEPT ![s] = copy[w][s].report]

\* get_by_id, or the admin's get_object, finds no row.
NotFound(w, s) ==
    /\ Kind[w] \notin {"admin", "delete"}
    /\ pc[w] \in {"start", "open"}
    /\ s \in todo[w]
    /\ ~Exists(s)
    /\ Processed(w, s)
    /\ UNCHANGED <<status, report, lock, copy, origin, attempt>>

-----------------------------------------------------------------------------
(* A callback: SELECT ... FOR UPDATE, check, update, commit.               *)

LoadLocked(w, s) ==
    /\ Kind[w] = "callback"
    /\ pc[w] = "start"
    /\ s \in todo[w]
    /\ Exists(s)
    /\ RowIsFree(s)
    /\ lock' = [lock EXCEPT ![s] = w]
    /\ LoadCopy(w, s)
    /\ pc' = [pc EXCEPT ![w] = "loaded"]
    /\ UNCHANGED <<status, report, todo, attempt>>

UpdateLocked(w, s) ==
    /\ Kind[w] = "callback"
    /\ pc[w] = "loaded"
    /\ s \in todo[w]
    /\ \E r \in Reports(w) : Accepts(w, s, r) /\ UpdateFields(w, s, r)
    /\ Unlock(w)
    /\ Processed(w, s)
    /\ UNCHANGED <<copy, origin, attempt>>

\* The move is refused, or the provider or the database fails.
RollBackLocked(w, s) ==
    /\ Kind[w] = "callback"
    /\ pc[w] = "loaded"
    /\ s \in todo[w]
    /\ Unlock(w)
    /\ Processed(w, s)
    /\ UNCHANGED <<status, report, copy, origin, attempt>>

-----------------------------------------------------------------------------
(* The retry replay and the poller: get_by_id, then the flow.              *)

\* update_status with for_update=False begins like that, too.
Load(w, s) ==
    /\ Kind[w] \in {"replay", "poll", "direct"}
    /\ pc[w] = "start"
    /\ s \in todo[w]
    /\ Exists(s)
    /\ LoadCopy(w, s)
    /\ pc' = [pc EXCEPT ![w] = "loaded"]
    /\ UNCHANGED <<status, report, lock, todo, attempt>>

Update(w, s) ==
    /\ Kind[w] \in {"replay", "poll"}
    /\ pc[w] = "loaded"
    /\ s \in todo[w]
    /\ RowIsFree(s)
    /\ \E r \in Reports(w) : Accepts(w, s, r) /\ UpdateFields(w, s, r)
    /\ Processed(w, s)
    /\ UNCHANGED <<lock, copy, origin, attempt>>

\* The flow raises, before the instance has moved or after, and even after the
\* UPDATE, when update_fields reads the row back.  The retry queue counts a
\* failed attempt of the replay.  The poll sleeps and tries again with the
\* instance it has, until max_retries attempts have failed.
FlowRaises(w, s) ==
    /\ Kind[w] \in {"replay", "poll"}
    /\ pc[w] = "loaded"
    /\ s \in todo[w]
    /\ attempt' = [attempt EXCEPT ![w] = @ + 1]
    /\ IF Kind[w] = "replay" \/ attempt[w] + 1 = MaxRetries
         THEN Processed(w, s)
         ELSE UNCHANGED <<todo, pc>>
    /\ \E r \in Reports(w) :
          /\ Accepts(w, s, r)
          /\ copy' = Moved(w, s, r)
          /\ \/ UNCHANGED <<status, report>>
             \/ RowIsFree(s) /\ UpdateFields(w, s, r)
    /\ UNCHANGED <<lock, origin>>

-----------------------------------------------------------------------------
(* A bulk action of the admin.                                             *)

\* Iterating over the queryset reads every selected row that exists.
Snapshot(w) ==
    LET read == {s \in todo[w] : Exists(s)}
    IN  /\ Kind[w] = "admin"
        /\ pc[w] = "start"
        /\ copy' = [copy EXCEPT ![w] = [s \in Shipment |-> IF s \in read THEN RowOf(s) ELSE Unread]]
        /\ origin' = [origin EXCEPT ![w] = status]
        /\ todo' = [todo EXCEPT ![w] = read]
        /\ pc' = [pc EXCEPT ![w] = IF read = {} THEN "done" ELSE "loaded"]
        /\ UNCHANGED <<status, report, lock, attempt>>

SaveRow(w, s) ==
    /\ Kind[w] = "admin"
    /\ pc[w] = "loaded"
    /\ s \in todo[w]
    /\ \E to \in New[w] : MayMove(w, s, to) /\ SaveWhole(w, s, to)
    /\ Processed(w, s)
    /\ UNCHANGED <<lock, copy, origin, attempt>>

\* InvalidTransitionError: the row is left out of the count.
SkipRow(w, s) ==
    /\ Kind[w] = "admin"
    /\ pc[w] = "loaded"
    /\ s \in todo[w]
    /\ \E to \in New[w] : ~MayMove(w, s, to)
    /\ Processed(w, s)
    /\ UNCHANGED <<status, report, lock, copy, origin, attempt>>

-----------------------------------------------------------------------------
(* The change form of the admin, and update_status.                        *)

\* GET: the form shows the row, and the status is one of its fields.
OpenForm(w, s) ==
    /\ Kind[w] = "form"
    /\ pc[w] = "start"
    /\ s \in todo[w]
    /\ Exists(s)
    /\ LoadCopy(w, s)
    /\ pc' = [pc EXCEPT ![w] = "open"]
    /\ UNCHANGED <<status, report, lock, todo, attempt>>

\* POST: the instance is loaded again, for the fields the form does not hold.
PostForm(w, s) ==
    /\ Kind[w] = "form"
    /\ pc[w] = "open"
    /\ s \in todo[w]
    /\ Exists(s)
    /\ copy' = [copy EXCEPT ![w][s].report = report[s]]
    /\ pc' = [pc EXCEPT ![w] = "loaded"]
    /\ UNCHANGED <<status, report, lock, origin, todo, attempt>>

\* Any status may be posted, for one the staff chose, or the one the form
\* showed.
Posted(w, s) == New[w] \cup (IF Kind[w] = "form" THEN {copy[w][s].status} ELSE {})

\* No transition is checked.
SaveUnchecked(w, s) ==
    /\ Kind[w] \in {"form", "direct"}
    /\ pc[w] = "loaded"
    /\ s \in todo[w]
    /\ \E to \in Posted(w, s) : SaveWhole(w, s, to)
    /\ Processed(w, s)
    /\ UNCHANGED <<lock, copy, origin, attempt>>

\* A save raises, and the rows of a bulk action saved so far stay saved; the
\* form is left; update_status asks for a row lock outside a transaction.
SaverFails(w) ==
    /\ Kind[w] \in Savers
    /\ \/ pc[w] \in {"open", "loaded"}
       \/ pc[w] = "start" /\ Kind[w] = "direct"
    /\ pc' = [pc EXCEPT ![w] = "done"]
    /\ todo' = [todo EXCEPT ![w] = {}]
    /\ UNCHANGED <<status, report, lock, copy, origin, attempt>>

-----------------------------------------------------------------------------
\* The repository's delete: one DELETE, whether there is a row or not.
Delete(w, s) ==
    /\ Kind[w] = "delete"
    /\ pc[w] = "start"
    /\ s \in todo[w]
    /\ RowIsFree(s)
    /\ status' = [status EXCEPT ![s] = None]
    /\ report' = [report EXCEPT ![s] = None]
    /\ Processed(w, s)
    /\ UNCHANGED <<lock, copy, origin, attempt>>

-----------------------------------------------------------------------------
Callback(w, s) == LoadLocked(w, s) \/ UpdateLocked(w, s) \/ RollBackLocked(w, s)

Flow(w, s) == Load(w, s) \/ Update(w, s) \/ FlowRaises(w, s)

Admin(w, s) == SaveRow(w, s) \/ SkipRow(w, s)

Form(w, s) == OpenForm(w, s) \/ PostForm(w, s) \/ SaveUnchecked(w, s)

Step(w) ==
    \/ Snapshot(w) \/ SaverFails(w)
    \/ \E s \in Shipment :
          Callback(w, s) \/ Flow(w, s) \/ Admin(w, s) \/ Form(w, s) \/ Delete(w, s) \/ NotFound(w, s)

Next == \E w \in Writer : Step(w)

Spec == Init /\ [][Next]_vars

\* As long as some handler, task or request can go on, one of them does (a form
\* that is open is posted or left): it need not be the same one's turn ever.
FairSpec == Spec /\ WF_vars(Next)

-----------------------------------------------------------------------------
(* Properties.                                                             *)

Rows == [status : Status \cup {None}, report : Writer \cup {None}]

Types ==
    /\ status \in [Shipment -> Status \cup {None}]
    /\ report \in [Shipment -> Writer \cup {None}]
    /\ lock \in [Shipment -> Writer \cup {None}]
    /\ pc \in [Writer -> {"start", "open", "loaded", "done"}]
    /\ copy \in [Writer -> [Shipment -> Rows]]
    /\ origin \in [Writer -> [Shipment -> Status \cup {None}]]
    /\ todo \in [Writer -> SUBSET Shipment]
    /\ attempt \in [Writer -> 0 .. MaxRetries]

LocksHeld ==
    \A s \in Shipment : lock[s] # None =>
        Kind[lock[s]] = "callback" /\ pc[lock[s]] = "loaded" /\ s \in todo[lock[s]]

ListsInStep ==
    \A w \in Writer :
        /\ todo[w] \subseteq Selected[w]
        /\ pc[w] = "done" => todo[w] = {}
        /\ pc[w] # "done" => attempt[w] < MaxRetries
        /\ pc[w] \in {"open", "loaded"} =>
               todo[w] # {} /\ \A s \in todo[w] : copy[w][s].status # None

\* Every variable has its type, only a callback that has loaded its row holds
\* a lock, a writer that has loaded has a row to deal with and has read each row
\* on its list, and one that goes on has attempts left.
TypeOK == Types /\ LocksHeld /\ ListsInStep

LegalMove(s) == status'[s] # status[s] => <<status[s], status'[s]>> \in Edge

\* The row lock protects a callback from the writers that take no lock, too:
\* a callback moves its shipment along an edge of the state machine, whoever
\* else writes to the row.
CallbackMovesAreLegal ==
    [][\A w \in Writer, s \in Shipment : UpdateLocked(w, s) => LegalMove(s)]_vars

\* Between its check and its commit nobody changes or deletes the row of a
\* callback.
CallbackIsIsolated ==
    \A w \in Writer, s \in Shipment :
        Kind[w] = "callback" /\ pc[w] = "loaded" /\ s \in todo[w] => copy[w][s] = RowOf(s)

\* Legal moves lead from one status to the other, in no step or in several.
Leads(from, to) ==
    \A S \in SUBSET Status :
        from \in S /\ (\A e \in Edge : e[1] \in S => e[2] \in S) => to \in S

\* A failed attempt leaves the instance moved, and the next attempt starts from
\* there with another answer of the provider: it may skip statuses the row never
\* had.  Still, a writer that checks its moves sets no status that legal moves
\* do not lead to from the one it read.
CheckedWritesFollowMoves ==
    [][\A w \in Writer, s \in Shipment :
          status'[s] # status[s]
          /\ (UpdateLocked(w, s) \/ Update(w, s) \/ FlowRaises(w, s) \/ SaveRow(w, s))
              => Leads(origin[w][s], status'[s])]_vars

\* A row is gone, and no bulk action, posted form or update_status holds an
\* instance of it.
Gone(s) ==
    /\ ~Exists(s)
    /\ \A w \in Writer : Kind[w] \in Savers /\ pc[w] = "loaded" => s \notin todo[w]

\* A deleted shipment comes back only from an instance some saver holds when it
\* is gone: no callback, replay or poll, however late, recreates it, and no
\* saver loads it any more, not even from a form that was open.
DeletionIsFinal == [][\A s \in Shipment : Gone(s) => Gone(s)']_vars

\* Every writer finishes: rows are locked one at a time, so nobody waits in a
\* circle.
WritersFinish == <>(\A w \in Writer : pc[w] = "done")

\* What a writer other than a callback has read of the rows it still has to
\* deal with.
View(w) ==
    [s \in Shipment |->
        IF Kind[w] # "callback" /\ pc[w] # "start" /\ s \in todo[w] THEN copy[w][s] ELSE Unread]

Atomic == INSTANCE AtomicCallbacks WITH
    pending <- todo,
    read <- [w \in Writer |-> View(w)]

\* For everybody else a callback is one step on the row as it stands, with no
\* lock and nothing in between: these writers implement AtomicCallbacks.
ImplementsAtomicCallbacks == Atomic!Spec

\* "Action on a shipment in wrong state should not change it" (tests of the
\* admin), and not so: the state that counts is that of the snapshot.
AdminMovesAreLegal ==
    [][\A w \in Writer, s \in Shipment : SaveRow(w, s) => LegalMove(s)]_vars
=============================================================================
