--------------------------- MODULE AtomicCallbacks ---------------------------
(***************************************************************************)
(* The shipment table as its other writers see it, with no locks, no       *)
(* transactions and no program counters: a webhook callback is one atomic  *)
(* step that writes its report to the row, as it stands, and moves it      *)
(* along an edge of the state machine if at all.  Every other writer reads *)
(* first and writes later, on the strength of what it read.                *)
(* ShipmentWriters implements this module (ImplementsAtomicCallbacks).     *)
(***************************************************************************)
CONSTANTS
    Shipment,   \* rows
    Status,     \* their statuses
    Edge,       \* legal moves
    Writer,     \* whoever writes to shipments
    Kind,       \* what a writer does
    Selected,   \* the rows it is about
    New,        \* the statuses it may want to set
    None        \* the status of a row that is gone

VARIABLES
    status,     \* the status of every row
    report,     \* whose report wrote its other columns
    pending,    \* rows a writer is not through with
    read        \* what a writer has read of these

vars == <<status, report, pending, read>>

Unread == [status |-> None, report |-> None]

Init ==
    /\ status \in [Shipment -> Status]
    /\ report = [s \in Shipment |-> None]
    /\ pending = [w \in Writer |-> Selected[w]]
    /\ read = [w \in Writer |-> [s \in Shipment |-> Unread]]

\* The writer is through with a row, and forgets it.
Through(w, s) ==
    /\ s \in pending[w]
    /\ pending' = [pending EXCEPT ![w] = @ \ {s}]
    /\ read' = [read EXCEPT ![w][s] = Unread]

Put(s, to, by) ==
    /\ status' = [status EXCEPT ![s] = to]
    /\ report' = [report EXCEPT ![s] = by]

\* A report gives a status, tracking data, both or neither.
Reports(w) == [status : New[w] \cup {None}, tracking : BOOLEAN]

Legal(from, to) == to = None \/ <<from, to>> \in Edge

\* The columns a report gives are written, to a row that is there.
Write(w, s, r) ==
    /\ status[s] # None
    /\ Put(s, IF r.status = None THEN status[s] ELSE r.status, IF r.tracking THEN w ELSE report[s])

\* A callback takes effect: one step, on the row as it stands.
Serve(w, s) ==
    /\ Kind[w] = "callback"
    /\ Through(w, s)
    /\ \E r \in Reports(w) : Legal(status[s], r.status) /\ Write(w, s, r)

\* Nothing comes of it.
Pass(w, s) == Through(w, s) /\ UNCHANGED <<status, report>>

\* Whoever saves instances leaves the rest.
PassAll(w) ==
    /\ Kind[w] \in {"admin", "form", "direct"}
    /\ pending' = [pending EXCEPT ![w] = {}]
    /\ read' = [read EXCEPT ![w] = [s \in Shipment |-> Unread]]
    /\ UNCHANGED <<status, report>>

\* Rows are read at once, and the others passed over.
Read(w, S) ==
    /\ Kind[w] # "callback"
    /\ UNCHANGED <<status, report>>
    /\ \A s \in S : status[s] # None
    /\ pending' = [pending EXCEPT ![w] = S]
    /\ read' = [read EXCEPT ![w] =
                   [s \in Shipment |->
                       IF s \in S THEN [status |-> status[s], report |-> report[s]] ELSE Unread]]

\* The change form reads the row again, all but the status it shows.
ReadAgain(w, s) ==
    /\ Kind[w] = "form"
    /\ s \in pending[w]
    /\ status[s] # None
    /\ UNCHANGED <<status, report, pending>>
    /\ read' = [read EXCEPT ![w][s].report = report[s]]

\* A poll tries again, with the instance as the report has moved it.
GoOn(w, s, r) ==
    /\ Kind[w] = "poll"
    /\ s \in pending[w]
    /\ UNCHANGED pending
    /\ read' = [read EXCEPT ![w][s].status = IF r.status = None THEN @ ELSE r.status]

\* A replay or a poll writes its report, checked against what it read, to a
\* row that is still there, or fails to; it is through, or tries again.
Update(w, s) ==
    /\ Kind[w] \in {"replay", "poll"}
    /\ \E r \in Reports(w) :
          /\ Legal(read[w][s].status, r.status)
          /\ Write(w, s, r) \/ UNCHANGED <<status, report>>
          /\ Through(w, s) \/ GoOn(w, s, r)

\* An instance is saved whole, and brings back what was read: a bulk action
\* checks the move, the form and update_status do not.
Save(w, s) ==
    /\ Kind[w] \in {"admin", "form", "direct"}
    /\ Through(w, s)
    /\ read[w][s].status # None
    /\ \E to \in New[w] \cup {read[w][s].status} :
          /\ Kind[w] # "form" => to \in New[w]
          /\ Kind[w] = "admin" => <<read[w][s].status, to>> \in Edge
          /\ Put(s, to, read[w][s].report)

Remove(w, s) ==
    /\ Kind[w] = "delete"
    /\ Put(s, None, None)
    /\ Through(w, s)

Next ==
    \E w \in Writer :
        \/ PassAll(w)
        \/ \E S \in SUBSET pending[w] : Read(w, S)
        \/ \E s \in Shipment :
              Serve(w, s) \/ Pass(w, s) \/ ReadAgain(w, s) \/ Update(w, s) \/ Save(w, s) \/ Remove(w, s)

Spec == Init /\ [][Next]_vars
=============================================================================
