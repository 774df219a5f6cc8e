------------------------ MODULE ShipmentWritersProofs ------------------------
(***************************************************************************)
(* Theorems about ShipmentWriters, for any set of writers of the known     *)
(* kinds, any selection of rows and any state machine.                     *)
(***************************************************************************)
EXTENDS ShipmentWriters, TLAPS

USE ConstantsAssumption

USE DEF TypeOK

\* Dealing with a row keeps the lists and program counters of all writers in
\* step.
LEMMA ProcessedType ==
    ASSUME TypeOK, NEW w \in Writer, NEW s \in todo[w], Processed(w, s)
    PROVE  /\ todo' \in [Writer -> SUBSET Shipment]
           /\ pc' \in [Writer -> {"start", "open", "loaded", "done"}]
           /\ todo'[w] = todo[w] \ {s}
           /\ \A v \in Writer : v # w => todo'[v] = todo[v] /\ pc'[v] = pc[v]
           /\ pc'[w] = "done" => todo'[w] = {}
           /\ pc'[w] = "loaded" => todo'[w] # {}
           /\ pc'[w] \in {"loaded", "done"}
BY DEF Types, Processed

\* So does a step that deals with a row and leaves the copies as they are.
LEMMA ProcessedLists ==
    ASSUME TypeOK, NEW w \in Writer, NEW s \in todo[w], pc[w] = "loaded", Processed(w, s),
           copy' = copy, attempt' = attempt
    PROVE  ListsInStep'
BY ProcessedType DEF ListsInStep

\* A writer other than an admin action has one row.
LEMMA OneRow ==
    ASSUME TypeOK, NEW w \in Writer, Kind[w] # "admin", NEW s \in todo[w]
    PROVE  todo[w] = {s}
BY DEF ListsInStep

\* A writer that is through with its only row is done.
LEMMA ProcessedLast ==
    ASSUME TypeOK, NEW w \in Writer, Kind[w] # "admin", NEW s \in todo[w], Processed(w, s),
           copy' = copy, attempt' = attempt
    PROVE  ListsInStep' /\ pc'[w] = "done" /\ todo'[w] = {}
<1>1. todo[w] = {s}
  BY OneRow
<1>2. pc'[w] = "done"
  BY <1>1 DEF Processed, Types
<1> QED BY <1>2, ProcessedType DEF ListsInStep

\* A row that is loaded is a row, with a status.
LEMMA RowLoaded ==
    ASSUME TypeOK, NEW s \in Shipment
    PROVE  RowOf(s) \in Rows /\ (Exists(s) => RowOf(s).status # None)
BY DEF Types, RowOf, Rows, Exists

\* A report moves the status of one instance, and nothing else.
LEMMA MovedType ==
    ASSUME TypeOK, NEW w \in Writer, NEW s \in Shipment, NEW r \in Reports(w)
    PROVE  /\ Moved(w, s, r) \in [Writer -> [Shipment -> Rows]]
           /\ \A v \in Writer : v # w => Moved(w, s, r)[v] = copy[v]
           /\ \A t \in Shipment : t # s => Moved(w, s, r)[w][t] = copy[w][t]
           /\ r.status = None => Moved(w, s, r)[w][s].status = copy[w][s].status
           /\ r.status # None => Moved(w, s, r)[w][s].status = r.status
<1> DEFINE rec == copy[w][s]
           to == IF r.status = None THEN rec.status ELSE r.status
           new == [rec EXCEPT !.status = to]
<1>1. rec \in Rows /\ r.status \in Status \cup {None}
  BY DEF Types, Reports
<1>2. to \in Status \cup {None}
  BY <1>1 DEF Rows
<1>3. new \in Rows /\ new.status = to
  <2> HIDE DEF rec, to
  <2> QED BY <1>1, <1>2 DEF Rows
<1>4. Moved(w, s, r) = [copy EXCEPT ![w] = [copy[w] EXCEPT ![s] = new]]
  BY DEF Moved
<1>5. copy \in [Writer -> [Shipment -> Rows]]
  BY DEF Types
<1> HIDE DEF new
<1>6. /\ Moved(w, s, r) \in [Writer -> [Shipment -> Rows]]
      /\ \A v \in Writer : v # w => Moved(w, s, r)[v] = copy[v]
      /\ \A t \in Shipment : t # s => Moved(w, s, r)[w][t] = copy[w][t]
      /\ Moved(w, s, r)[w][s] = new
  BY <1>3, <1>4, <1>5
<1> QED BY <1>3, <1>6

\* The types of the variables are kept.
LEMMA TypesStep == ASSUME TypeOK, [Next]_vars PROVE Types'
<1> USE DEF Types
<1>0. CASE UNCHANGED vars
  BY <1>0 DEF vars
<1>1. ASSUME NEW w \in Writer, NEW s \in Shipment,
             LoadLocked(w, s) \/ Load(w, s) \/ OpenForm(w, s)
      PROVE  Types'
  <2>1. RowOf(s) \in Rows
    BY RowLoaded
  <2>2. /\ copy' = [copy EXCEPT ![w] = [copy[w] EXCEPT ![s] = RowOf(s)]]
        /\ origin' = [origin EXCEPT ![w] = [origin[w] EXCEPT ![s] = status[s]]]
    BY <1>1 DEF LoadLocked, Load, OpenForm, LoadCopy
  <2>3. /\ copy' \in [Writer -> [Shipment -> Rows]]
        /\ origin' \in [Writer -> [Shipment -> Status \cup {None}]]
    BY <2>1, <2>2
  <2>4. CASE LoadLocked(w, s)
    BY <2>3, <2>4 DEF LoadLocked
  <2>5. CASE Load(w, s)
    BY <2>3, <2>5 DEF Load
  <2>6. CASE OpenForm(w, s)
    BY <2>3, <2>6 DEF OpenForm
  <2> QED BY <1>1, <2>4, <2>5, <2>6
<1>2. ASSUME NEW w \in Writer, NEW s \in Shipment, s \in todo[w], Processed(w, s)
      PROVE  /\ todo' \in [Writer -> SUBSET Shipment]
             /\ pc' \in [Writer -> {"start", "open", "loaded", "done"}]
  BY <1>2, ProcessedType
<1>10. ASSUME NEW w \in Writer, NEW s \in Shipment, NEW r \in Reports(w), UpdateFields(w, s, r)
       PROVE  status' \in [Shipment -> Status \cup {None}] /\ report' \in [Shipment -> Writer \cup {None}]
  BY <1>10 DEF UpdateFields, Reports
<1>3. ASSUME NEW w \in Writer, NEW s \in Shipment, Callback(w, s) PROVE Types'
  <2>1. CASE UpdateLocked(w, s)
    <3>1. status' \in [Shipment -> Status \cup {None}] /\ report' \in [Shipment -> Writer \cup {None}]
      BY <1>10, <2>1 DEF UpdateLocked
    <3>2. lock' \in [Shipment -> Writer \cup {None}]
      BY <2>1 DEF UpdateLocked, Unlock
    <3> QED BY <2>1, <3>1, <3>2, <1>2 DEF UpdateLocked
  <2>2. CASE RollBackLocked(w, s)
    <3>1. lock' \in [Shipment -> Writer \cup {None}]
      BY <2>2 DEF RollBackLocked, Unlock
    <3> QED BY <2>2, <3>1, <1>2 DEF RollBackLocked
  <2> QED BY <1>1, <1>3, <2>1, <2>2 DEF Callback
<1>4. ASSUME NEW w \in Writer, NEW s \in Shipment, Flow(w, s) PROVE Types'
  <2>1. CASE Update(w, s)
    <3>1. status' \in [Shipment -> Status \cup {None}] /\ report' \in [Shipment -> Writer \cup {None}]
      BY <1>10, <2>1 DEF Update
    <3> QED BY <2>1, <3>1, <1>2 DEF Update
  <2>2. CASE FlowRaises(w, s)
    <3>1. attempt[w] + 1 \in 0 .. MaxRetries
      BY <2>2 DEF FlowRaises, ListsInStep
    <3>2. attempt' \in [Writer -> 0 .. MaxRetries]
      BY <2>2, <3>1 DEF FlowRaises
    <3>3. PICK r \in Reports(w) :
                 /\ copy' = Moved(w, s, r)
                 /\ UNCHANGED <<status, report>> \/ UpdateFields(w, s, r)
      BY <2>2 DEF FlowRaises
    <3>4. copy' \in [Writer -> [Shipment -> Rows]]
      BY <3>3, MovedType
    <3>5. status' \in [Shipment -> Status \cup {None}] /\ report' \in [Shipment -> Writer \cup {None}]
      BY <1>10, <3>3
    <3>6. lock' = lock /\ origin' = origin
      BY <2>2 DEF FlowRaises
    <3>7. todo' \in [Writer -> SUBSET Shipment] /\ pc' \in [Writer -> {"start", "open", "loaded", "done"}]
      BY <1>2, <2>2 DEF FlowRaises
    <3> QED BY <3>2, <3>4, <3>5, <3>6, <3>7
  <2> QED BY <1>1, <1>4, <2>1, <2>2 DEF Flow
<1>5. ASSUME NEW w \in Writer, NEW s \in Shipment, SaveRow(w, s) \/ SaveUnchecked(w, s)
      PROVE  Types'
  <2>1. PICK to \in Status \cup {None} : SaveWhole(w, s, to)
    BY <1>5 DEF SaveRow, SaveUnchecked, Posted, Rows
  <2>2. copy[w][s].report \in Writer \cup {None}
    BY DEF Rows
  <2>3. status' \in [Shipment -> Status \cup {None}] /\ report' \in [Shipment -> Writer \cup {None}]
    BY <2>1, <2>2 DEF SaveWhole
  <2> QED BY <1>5, <2>3, <1>2 DEF SaveRow, SaveUnchecked
<1>6. ASSUME NEW w \in Writer, Snapshot(w) PROVE Types'
  <2>1. Unread \in Rows /\ \A s \in Shipment : RowOf(s) \in Rows
    BY RowLoaded DEF Unread, Rows
  <2>2. copy' \in [Writer -> [Shipment -> Rows]]
    BY <1>6, <2>1 DEF Snapshot
  <2>3. origin' \in [Writer -> [Shipment -> Status \cup {None}]]
    BY <1>6 DEF Snapshot
  <2> QED BY <1>6, <2>2, <2>3 DEF Snapshot
<1>7. ASSUME NEW w \in Writer, SaverFails(w) PROVE Types'
  BY <1>7 DEF SaverFails
<1>8. ASSUME NEW w \in Writer, NEW s \in Shipment, PostForm(w, s) PROVE Types'
  <2>0. copy[w][s] \in Rows /\ report[s] \in Writer \cup {None}
    OBVIOUS
  <2>1. [copy[w][s] EXCEPT !.report = report[s]] \in Rows
    <3> DEFINE rec == copy[w][s]
               new == report[s]
    <3>1. rec \in Rows /\ new \in Writer \cup {None}
      BY <2>0
    <3> HIDE DEF rec, new
    <3>2. [rec EXCEPT !.report = new] \in Rows
      BY <3>1 DEF Rows
    <3> QED BY <3>2 DEF rec, new
  <2>2. copy' = [copy EXCEPT ![w] = [copy[w] EXCEPT ![s] = [copy[w][s] EXCEPT !.report = report[s]]]]
    BY <1>8 DEF PostForm
  <2>3. copy' \in [Writer -> [Shipment -> Rows]]
    BY <2>1, <2>2
  <2> QED BY <1>8, <2>3 DEF PostForm
<1>9. ASSUME NEW w \in Writer, NEW s \in Shipment,
             SkipRow(w, s) \/ NotFound(w, s) \/ Delete(w, s)
      PROVE  Types'
  <2>1. s \in todo[w] /\ Processed(w, s) /\ UNCHANGED <<lock, copy, origin, attempt>>
    BY <1>9 DEF SkipRow, NotFound, Delete
  <2>2. status' \in [Shipment -> Status \cup {None}] /\ report' \in [Shipment -> Writer \cup {None}]
    BY <1>9 DEF SkipRow, NotFound, Delete
  <2> QED BY <2>1, <2>2, <1>2
<1> QED BY <1>0, <1>1, <1>3, <1>4, <1>5, <1>6, <1>7, <1>8, <1>9 DEF Next, Step, Admin, Form

\* The lists, program counters, copies and attempts of a writer agree.
LEMMA ListsStep == ASSUME TypeOK, [Next]_vars PROVE ListsInStep'
<1>0. CASE UNCHANGED vars
  BY <1>0 DEF vars, ListsInStep
<1>1. ASSUME NEW w \in Writer, NEW s \in Shipment,
             LoadLocked(w, s) \/ Load(w, s) \/ OpenForm(w, s)
      PROVE  ListsInStep'
  <2>1. todo[w] = {s} /\ pc[w] = "start" /\ Exists(s)
    BY <1>1, OneRow DEF LoadLocked, Load, OpenForm
  <2>2. copy' = [copy EXCEPT ![w] = [copy[w] EXCEPT ![s] = RowOf(s)]]
    BY <1>1 DEF LoadLocked, Load, OpenForm, LoadCopy
  <2>3. copy'[w][s].status # None /\ \A v \in Writer : v # w => copy'[v] = copy[v]
    BY <2>1, <2>2, RowLoaded DEF Types
  <2>4. PICK c \in {"open", "loaded"} : pc' = [pc EXCEPT ![w] = c]
    BY <1>1 DEF LoadLocked, Load, OpenForm
  <2>5. UNCHANGED <<todo, attempt>>
    BY <1>1 DEF LoadLocked, Load, OpenForm
  <2> QED BY <2>1, <2>3, <2>4, <2>5 DEF ListsInStep, Types
<1>2. ASSUME NEW w \in Writer, NEW s \in Shipment,
             s \in todo[w], pc[w] = "loaded", Processed(w, s), UNCHANGED <<copy, attempt>>
      PROVE  ListsInStep'
  BY <1>2, ProcessedLists
<1>3. ASSUME NEW w \in Writer, NEW s \in Shipment, Callback(w, s) PROVE ListsInStep'
  BY <1>1, <1>2, <1>3 DEF Callback, UpdateLocked, RollBackLocked
<1>4. ASSUME NEW w \in Writer, NEW s \in Shipment, FlowRaises(w, s) PROVE ListsInStep'
  <2>1. s \in todo[w] /\ pc[w] = "loaded"
    BY <1>4 DEF FlowRaises
  <2>5. \A v \in Writer, t \in Shipment : copy[v][t].status # None => copy'[v][t].status # None
    <3>1. PICK r \in Reports(w) : copy' = Moved(w, s, r)
      BY <1>4 DEF FlowRaises
    <3> SUFFICES ASSUME NEW v \in Writer, NEW t \in Shipment, copy[v][t].status # None
                 PROVE  copy'[v][t].status # None
      OBVIOUS
    <3>2. CASE v # w \/ t # s
      <4>1. copy'[v][t] = copy[v][t]
        BY <3>1, <3>2, MovedType
      <4> QED BY <4>1
    <3>3. CASE v = w /\ t = s
      BY <3>1, <3>3, MovedType
    <3> QED BY <3>2, <3>3
  <2>6. \A v \in Writer : todo[v] \subseteq Shipment
    BY DEF Types
  <2>2. /\ attempt'[w] = attempt[w] + 1
        /\ \A v \in Writer : v # w => attempt'[v] = attempt[v]
    BY <1>4 DEF FlowRaises, Types
  <2>3. CASE Kind[w] = "replay" \/ attempt[w] + 1 = MaxRetries
    <3>1. Processed(w, s)
      BY <1>4, <2>3 DEF FlowRaises
    <3>2. todo[w] = {s} /\ pc'[w] = "done"
      BY <1>4, <2>1, <3>1, OneRow DEF FlowRaises, Processed, Types
    <3> QED BY <2>1, <2>2, <2>5, <2>6, <3>1, <3>2, ProcessedType DEF ListsInStep
  <2>4. CASE ~(Kind[w] = "replay" \/ attempt[w] + 1 = MaxRetries)
    <3>1. UNCHANGED <<todo, pc>>
      BY <1>4, <2>4 DEF FlowRaises
    <3>2. attempt[w] \in 0 .. MaxRetries /\ attempt[w] < MaxRetries
      BY <2>1 DEF ListsInStep, Types
    <3>3. attempt[w] + 1 < MaxRetries
      BY <2>4, <3>2
    <3> QED BY <2>1, <2>2, <2>5, <2>6, <3>1, <3>3 DEF ListsInStep
  <2> QED BY <2>3, <2>4
<1>5. ASSUME NEW w \in Writer, NEW s \in Shipment, Flow(w, s) PROVE ListsInStep'
  BY <1>1, <1>2, <1>4, <1>5 DEF Flow, Update
<1>6. ASSUME NEW w \in Writer, Snapshot(w) PROVE ListsInStep'
  <2> DEFINE read == {s \in todo[w] : Exists(s)}
  <2>1. \A s \in read : copy'[w][s].status # None
    <3> SUFFICES ASSUME NEW s \in read PROVE copy'[w][s].status # None
      OBVIOUS
    <3>1. s \in Shipment
      BY DEF Types
    <3>2. copy'[w][s] = RowOf(s)
      BY <1>6, <3>1 DEF Snapshot, Types
    <3> QED BY <3>1, <3>2, RowLoaded
  <2>2. \A v \in Writer : v # w => copy'[v] = copy[v] /\ todo'[v] = todo[v] /\ pc'[v] = pc[v]
    BY <1>6 DEF Snapshot, Types
  <2>3. todo'[w] = read /\ pc'[w] = IF read = {} THEN "done" ELSE "loaded"
    BY <1>6 DEF Snapshot, Types
  <2>4. attempt' = attempt /\ pc[w] = "start"
    BY <1>6 DEF Snapshot
  <2> QED BY <2>1, <2>2, <2>3, <2>4 DEF ListsInStep
<1>7. ASSUME NEW w \in Writer, SaverFails(w) PROVE ListsInStep'
  BY <1>7 DEF SaverFails, ListsInStep, Types
<1>8. ASSUME NEW w \in Writer, NEW s \in Shipment, PostForm(w, s) PROVE ListsInStep'
  <2>1. copy' = [copy EXCEPT ![w] = [copy[w] EXCEPT ![s] = [copy[w][s] EXCEPT !.report = report[s]]]]
    BY <1>8 DEF PostForm
  <2>2. copy[w][s] \in Rows
    BY DEF Types
  <2>3. \A v \in Writer, t \in Shipment : copy'[v][t].status = copy[v][t].status
    BY <2>1, <2>2 DEF Types, Rows
  <2>4. pc' = [pc EXCEPT ![w] = "loaded"] /\ pc[w] = "open" /\ UNCHANGED <<todo, attempt>>
    BY <1>8 DEF PostForm
  <2>5. \A v \in Writer : todo[v] \subseteq Shipment
    BY DEF Types
  <2> QED BY <2>3, <2>4, <2>5 DEF ListsInStep, Types
<1>9. ASSUME NEW w \in Writer, NEW s \in Shipment, NotFound(w, s) \/ Delete(w, s)
      PROVE  ListsInStep'
  BY <1>9, ProcessedLast DEF NotFound, Delete
<1>10. ASSUME NEW w \in Writer, NEW s \in Shipment,
              SaveRow(w, s) \/ SkipRow(w, s) \/ SaveUnchecked(w, s)
       PROVE  ListsInStep'
  BY <1>2, <1>10 DEF SaveRow, SkipRow, SaveUnchecked
<1> QED BY <1>0, <1>1, <1>3, <1>5, <1>6, <1>7, <1>8, <1>9, <1>10 DEF Next, Step, Admin, Form

\* A row lock is only held by a callback that has loaded the row.
LEMMA LocksStep == ASSUME TypeOK, [Next]_vars PROVE LocksHeld'
<1> USE DEF LocksHeld
<1>0. CASE UNCHANGED vars
  BY <1>0 DEF vars
<1>1. ASSUME NEW w \in Writer, NEW s \in Shipment, LoadLocked(w, s) PROVE LocksHeld'
  <2>1. lock'[s] = w /\ \A t \in Shipment : t # s => lock'[t] = lock[t]
    BY <1>1 DEF LoadLocked, Types
  <2>2. pc'[w] = "loaded" /\ \A v \in Writer : v # w => pc'[v] = pc[v]
    BY <1>1 DEF LoadLocked, Types
  <2> QED BY <1>1, <2>1, <2>2 DEF LoadLocked, Types
<1>2. ASSUME NEW w \in Writer, NEW s \in Shipment, s \in todo[w],
             Processed(w, s), Kind[w] # "callback" \/ Unlock(w), lock' = lock \/ Unlock(w)
      PROVE  LocksHeld'
  <2>1. ASSUME NEW t \in Shipment, lock'[t] # None
        PROVE  lock'[t] = lock[t] /\ lock[t] # w
    BY <1>2, <2>1 DEF Unlock, Types
  <2> QED BY <1>2, <2>1, ProcessedType DEF Types
<1>3. ASSUME NEW w \in Writer, NEW s \in Shipment, Callback(w, s) PROVE LocksHeld'
  BY <1>1, <1>2, <1>3 DEF Callback, UpdateLocked, RollBackLocked
<1>4. ASSUME NEW w \in Writer, NEW s \in Shipment, Flow(w, s) PROVE LocksHeld'
  <2>1. CASE Load(w, s)
    BY <2>1 DEF Load, Types
  <2>2. CASE Update(w, s)
    BY <1>2, <2>2 DEF Update
  <2>3. CASE FlowRaises(w, s)
    <3>1. CASE Processed(w, s)
      BY <1>2, <2>3, <3>1 DEF FlowRaises
    <3>2. CASE UNCHANGED <<todo, pc>>
      BY <2>3, <3>2 DEF FlowRaises
    <3> QED BY <2>3, <3>1, <3>2 DEF FlowRaises
  <2> QED BY <1>4, <2>1, <2>2, <2>3 DEF Flow
<1>5. ASSUME NEW w \in Writer, lock' = lock, pc[w] # "loaded" \/ Kind[w] # "callback",
             \A v \in Writer : v # w => pc'[v] = pc[v] /\ todo'[v] = todo[v]
      PROVE  LocksHeld'
  BY <1>5 DEF Types
<1>6. ASSUME NEW w \in Writer, Snapshot(w) \/ SaverFails(w) PROVE LocksHeld'
  BY <1>5, <1>6 DEF Snapshot, SaverFails, Savers, Types
<1>7. ASSUME NEW w \in Writer, NEW s \in Shipment, OpenForm(w, s) \/ PostForm(w, s) PROVE LocksHeld'
  BY <1>5, <1>7 DEF OpenForm, PostForm, Types
<1>8. ASSUME NEW w \in Writer, NEW s \in Shipment,
             SaveRow(w, s) \/ SkipRow(w, s) \/ SaveUnchecked(w, s) \/ Delete(w, s)
      PROVE  LocksHeld'
  BY <1>2, <1>8 DEF SaveRow, SkipRow, SaveUnchecked, Delete
<1>9. ASSUME NEW w \in Writer, NEW s \in Shipment, NotFound(w, s) PROVE LocksHeld'
  BY <1>5, <1>9, ProcessedType DEF NotFound
<1> QED BY <1>0, <1>3, <1>4, <1>6, <1>7, <1>8, <1>9 DEF Next, Step, Admin, Form

\* Every row lock, list and copy is as TypeOK says, in every reachable state.
THEOREM TypeCorrect == Spec => []TypeOK
<1>1. Init => TypeOK
  BY DEF Init, Types, LocksHeld, ListsInStep, Unread, Rows
<1>2. TypeOK /\ [Next]_vars => TypeOK'
  BY TypesStep, LocksStep, ListsStep
<1> QED BY <1>1, <1>2, PTL DEF Spec

\* A callback that has loaded its row holds the lock, so the row is still what
\* it loaded.
IsolationInv ==
    \A w \in Writer, s \in Shipment :
        Kind[w] = "callback" /\ pc[w] = "loaded" /\ s \in todo[w]
            => lock[s] = w /\ copy[w][s] = RowOf(s)

\* Every step keeps IsolationInv: whoever writes to a row either holds its
\* lock or waited until it was free.
LEMMA IsolationStep == ASSUME TypeOK, IsolationInv, [Next]_vars PROVE IsolationInv'
<1> SUFFICES ASSUME NEW v \in Writer, NEW t \in Shipment,
                    Kind[v] = "callback", pc'[v] = "loaded", t \in todo'[v]
             PROVE  lock'[t] = v /\ copy'[v][t] = [status |-> status'[t], report |-> report'[t]]
  BY DEF IsolationInv, RowOf
<1> USE DEF IsolationInv, RowOf
<1>1. CASE UNCHANGED vars
  BY <1>1 DEF vars
<1>2. ASSUME NEW w \in Writer, NEW s \in Shipment, LoadLocked(w, s)
      PROVE  lock'[t] = v /\ copy'[v][t] = [status |-> status'[t], report |-> report'[t]]
  <2>1. CASE v = w
    <3>1. t = s
      BY <1>2, <2>1, OneRow DEF LoadLocked
    <3> QED BY <1>2, <2>1, <3>1 DEF LoadLocked, LoadCopy, Types
  <2>2. CASE v # w
    <3>1. lock[t] = v /\ pc[v] = "loaded" /\ t \in todo[v]
      BY <1>2, <2>2 DEF LoadLocked, Types
    <3>2. t # s
      BY <1>2, <3>1 DEF LoadLocked, RowIsFree
    <3> QED BY <1>2, <2>2, <3>1, <3>2 DEF LoadLocked, LoadCopy, Types
  <2> QED BY <2>1, <2>2
<1>3. ASSUME NEW w \in Writer, NEW s \in Shipment, UpdateLocked(w, s) \/ RollBackLocked(w, s)
      PROVE  lock'[t] = v /\ copy'[v][t] = [status |-> status'[t], report |-> report'[t]]
  <2>1. Kind[w] = "callback" /\ pc[w] = "loaded" /\ s \in todo[w] /\ Processed(w, s)
    BY <1>3 DEF UpdateLocked, RollBackLocked
  <2>2. todo[w] = {s}
    BY <2>1, OneRow
  <2>3. v # w
    BY <2>1, <2>2 DEF Processed, Types
  <2>4. pc[v] = "loaded" /\ t \in todo[v]
    BY <2>1, <2>3 DEF Processed, Types
  <2>5. lock[t] = v /\ lock[s] = w
    BY <2>1, <2>4, Zenon
  <2>6. lock'[t] = lock[t]
    BY <1>3, <2>3, <2>5 DEF UpdateLocked, RollBackLocked, Unlock
  <2>7. copy' = copy /\ status'[t] = status[t] /\ report'[t] = report[t]
    BY <1>3, <2>3, <2>5 DEF UpdateLocked, RollBackLocked, UpdateFields, Types
  <2>8. copy[v][t] = [status |-> status[t], report |-> report[t]]
    BY <2>4, Zenon
  <2> QED BY <2>5, <2>6, <2>7, <2>8
<1>6. ASSUME pc[v] = "loaded", t \in todo[v], copy'[v] = copy[v], lock' = lock,
             (status'[t] = status[t] /\ report'[t] = report[t]) \/ lock[t] = None
      PROVE  lock'[t] = v /\ copy'[v][t] = [status |-> status'[t], report |-> report'[t]]
  <2>1. lock[t] = v /\ copy[v][t] = [status |-> status[t], report |-> report[t]]
    BY <1>6, Zenon
  <2>2. status'[t] = status[t] /\ report'[t] = report[t]
    BY <1>6, <2>1
  <2> QED BY <1>6, <2>1, <2>2
<1>4. ASSUME NEW w \in Writer, NEW s \in Shipment,
             Load(w, s) \/ Update(w, s) \/ FlowRaises(w, s)
      PROVE  lock'[t] = v /\ copy'[v][t] = [status |-> status'[t], report |-> report'[t]]
  <2>1. v # w
    BY <1>4 DEF Load, Update, FlowRaises
  <2>2. pc[v] = "loaded" /\ t \in todo[v]
    BY <1>4, <2>1 DEF Load, Update, FlowRaises, Processed, Types
  <2>3. copy'[v] = copy[v] /\ lock' = lock
    BY <1>4, <2>1, MovedType DEF Load, LoadCopy, Update, FlowRaises, Types
  <2>4. (status'[t] = status[t] /\ report'[t] = report[t]) \/ lock[t] = None
    BY <1>4 DEF Load, Update, FlowRaises, UpdateFields, RowIsFree, Types
  <2> QED BY <1>6, <2>2, <2>3, <2>4
<1>5. ASSUME NEW w \in Writer, Snapshot(w) \/ SaverFails(w)
      PROVE  lock'[t] = v /\ copy'[v][t] = [status |-> status'[t], report |-> report'[t]]
  <2>1. v # w
    BY <1>5 DEF Snapshot, SaverFails, Savers
  <2> QED BY <1>5, <2>1 DEF Snapshot, SaverFails, Types
<1>7. ASSUME NEW w \in Writer, NEW s \in Shipment,
             Admin(w, s) \/ Form(w, s) \/ Delete(w, s) \/ NotFound(w, s)
      PROVE  lock'[t] = v /\ copy'[v][t] = [status |-> status'[t], report |-> report'[t]]
  <2>1. v # w
    <3>1. CASE NotFound(w, s)
      <4>1. pc'[w] = "done"
        BY <3>1, ProcessedLast DEF NotFound
      <4> QED BY <4>1
    <3> QED BY <1>7, <3>1 DEF Admin, Form, SaveRow, SkipRow, OpenForm, PostForm, SaveUnchecked, Delete
  <2>2. pc[v] = "loaded" /\ t \in todo[v]
    BY <1>7, <2>1 DEF Admin, Form, SaveRow, SkipRow, OpenForm, PostForm, SaveUnchecked, Delete,
                      NotFound, Processed, Types
  <2>3. copy'[v] = copy[v] /\ lock' = lock
    BY <1>7, <2>1 DEF Admin, Form, SaveRow, SkipRow, OpenForm, PostForm, SaveUnchecked, Delete,
                      NotFound, LoadCopy, Types
  <2>4. (status'[t] = status[t] /\ report'[t] = report[t]) \/ lock[t] = None
    BY <1>7 DEF Admin, Form, SaveRow, SkipRow, OpenForm, PostForm, SaveUnchecked, Delete, NotFound,
                SaveWhole, RowIsFree, Types
  <2> QED BY <1>6, <2>2, <2>3, <2>4
<1> QED BY <1>1, <1>2, <1>3, <1>4, <1>5, <1>7 DEF Next, Step, Callback, Flow

\* The invariant always holds.
LEMMA IsolationCorrect == Spec => []IsolationInv
<1>1. Init => IsolationInv
  BY DEF Init, IsolationInv
<1> QED BY <1>1, IsolationStep, TypeCorrect, PTL DEF Spec

\* The row of a callback does not change under it, though replays, polls and
\* admin actions never ask for the lock.
THEOREM CallbacksAreIsolated == Spec => []CallbackIsIsolated
<1>1. IsolationInv => CallbackIsIsolated
  BY DEF IsolationInv, CallbackIsIsolated
<1> QED BY <1>1, IsolationCorrect, PTL

\* So every move a callback makes is legal, whoever else writes to the row.
THEOREM CallbacksMoveLegally == Spec => CallbackMovesAreLegal
<1> DEFINE Legal == \A w \in Writer, s \in Shipment : UpdateLocked(w, s) => LegalMove(s)
<1>1. TypeOK /\ IsolationInv => Legal
  <2> SUFFICES ASSUME TypeOK, IsolationInv, NEW w \in Writer, NEW s \in Shipment,
                      UpdateLocked(w, s)
               PROVE  LegalMove(s)
    OBVIOUS
  <2>1. copy[w][s] = RowOf(s)
    BY DEF IsolationInv, UpdateLocked
  <2>2. copy[w][s].status = status[s]
    BY <2>1 DEF RowOf
  <2>3. PICK r \in Reports(w) : Accepts(w, s, r) /\ UpdateFields(w, s, r)
    BY DEF UpdateLocked
  <2>4. status'[s] = IF r.status = None THEN status[s] ELSE r.status
    BY <2>3 DEF UpdateFields, Types
  <2> QED BY <2>2, <2>3, <2>4 DEF Accepts, MayMove, LegalMove
<1> QED BY <1>1, TypeCorrect, IsolationCorrect, PTL DEF CallbackMovesAreLegal

-----------------------------------------------------------------------------
(* Whose instance it is: moves of a stale one, and deletions.              *)

\* The other writers stay where they are, and no row comes back to a list.
Alone(w) ==
    /\ \A v \in Writer : v # w => todo'[v] = todo[v] /\ pc'[v] = pc[v]
    /\ todo'[w] \subseteq todo[w]

\* A step is a step of one writer.
LEMMA StepsAlone == ASSUME TypeOK, NEW w \in Writer, Step(w) PROVE Alone(w)
<1> USE DEF Types, Alone
<1>1. CASE Snapshot(w) \/ SaverFails(w)
  BY <1>1 DEF Snapshot, SaverFails
<1>2. ASSUME NEW s \in Shipment, Callback(w, s) PROVE Alone(w)
  BY <1>2, ProcessedType DEF Callback, LoadLocked, UpdateLocked, RollBackLocked
<1>3. ASSUME NEW s \in Shipment, Flow(w, s) PROVE Alone(w)
  BY <1>3, ProcessedType DEF Flow, Load, Update, FlowRaises
<1>4. ASSUME NEW s \in Shipment, Admin(w, s) \/ Delete(w, s) \/ NotFound(w, s) PROVE Alone(w)
  BY <1>4, ProcessedType DEF Admin, SaveRow, SkipRow, Delete, NotFound
<1>5. ASSUME NEW s \in Shipment, Form(w, s) PROVE Alone(w)
  BY <1>5, ProcessedType DEF Form, OpenForm, PostForm, SaveUnchecked
<1> QED BY <1>1, <1>2, <1>3, <1>4, <1>5 DEF Step

\* The instances of the others are not touched, nor what they have read.
LEMMA CopiesStay ==
    ASSUME TypeOK, NEW w \in Writer, Step(w), NEW v \in Writer, v # w
    PROVE  copy'[v] = copy[v] /\ origin'[v] = origin[v]
<1> USE DEF Types
<1>1. CASE Snapshot(w) \/ SaverFails(w)
  BY <1>1 DEF Snapshot, SaverFails
<1>2. ASSUME NEW s \in Shipment, LoadLocked(w, s) \/ Load(w, s) \/ OpenForm(w, s)
      PROVE  copy'[v] = copy[v] /\ origin'[v] = origin[v]
  BY <1>2 DEF LoadLocked, Load, OpenForm, LoadCopy
<1>3. ASSUME NEW s \in Shipment, FlowRaises(w, s)
      PROVE  copy'[v] = copy[v] /\ origin'[v] = origin[v]
  BY <1>3, MovedType DEF FlowRaises
<1>4. ASSUME NEW s \in Shipment, PostForm(w, s)
      PROVE  copy'[v] = copy[v] /\ origin'[v] = origin[v]
  BY <1>4 DEF PostForm
<1>5. ASSUME NEW s \in Shipment,
             UpdateLocked(w, s) \/ RollBackLocked(w, s) \/ Update(w, s) \/ Admin(w, s)
             \/ SaveUnchecked(w, s) \/ Delete(w, s) \/ NotFound(w, s)
      PROVE  copy'[v] = copy[v] /\ origin'[v] = origin[v]
  BY <1>5 DEF UpdateLocked, RollBackLocked, Update, Admin, SaveRow, SkipRow, SaveUnchecked, Delete, NotFound
<1> QED BY <1>1, <1>2, <1>3, <1>4, <1>5 DEF Step, Callback, Flow, Form

\* Writers that check their moves.
Checking(w) == Kind[w] \in {"callback", "replay", "poll", "admin"}

\* Legal moves lead from the status a writer has read to the one its instance
\* is in.
OriginInv ==
    \A w \in Writer, s \in Shipment :
        Checking(w) /\ pc[w] = "loaded" /\ s \in todo[w] => Leads(origin[w][s], copy[w][s].status)

\* One more move leads on.
LEMMA LeadsOn ==
    ASSUME NEW a, NEW b, NEW c, Leads(a, b), <<b, c>> \in Edge
    PROVE  Leads(a, a) /\ Leads(a, c)
BY DEF Leads

\* No move leads to where one is.
LEMMA LeadsHere == ASSUME NEW a PROVE Leads(a, a)
BY DEF Leads

\* A writer comes to hold an instance by loading it, and the flow moves it.
LEMMA HowInstancesChange ==
    ASSUME TypeOK, NEW w \in Writer, Step(w), NEW v \in Writer, NEW t \in Shipment,
           Checking(v), pc'[v] = "loaded", t \in todo'[v]
    PROVE  \/ pc[v] = "loaded" /\ t \in todo[v] /\ copy'[v][t] = copy[v][t] /\ origin'[v][t] = origin[v][t]
           \/ v = w /\ pc[v] = "start" /\ copy'[v][t] = RowOf(t) /\ origin'[v][t] = status[t]
           \/ v = w /\ FlowRaises(v, t)
<1> USE DEF Types
<1>1. CASE v # w
  <2>1. pc[v] = "loaded" /\ t \in todo[v]
    BY <1>1, StepsAlone DEF Alone
  <2>2. copy'[v] = copy[v] /\ origin'[v] = origin[v]
    BY <1>1, CopiesStay
  <2> QED BY <2>1, <2>2
<1>2. CASE v = w
  <2>1. ASSUME NEW s \in Shipment, LoadLocked(w, s) \/ Load(w, s)
        PROVE  pc[v] = "start" /\ copy'[v][t] = RowOf(t) /\ origin'[v][t] = status[t]
    <3>1. todo[w] = {s} /\ todo' = todo
      BY <2>1, OneRow DEF LoadLocked, Load
    <3>2. t = s
      BY <1>2, <3>1
    <3> QED BY <1>2, <2>1, <3>2 DEF LoadLocked, Load, LoadCopy
  <2>2. CASE Snapshot(w)
    BY <1>2, <2>2 DEF Snapshot
  <2>3. ASSUME NEW s \in Shipment, FlowRaises(w, s) PROVE FlowRaises(v, t)
    <3>1. todo[w] = {s}
      BY <2>3, OneRow DEF FlowRaises
    <3>2. t = s
      BY <1>2, <2>3, <3>1, ProcessedType DEF FlowRaises
    <3> QED BY <1>2, <2>3, <3>2
  <2>4. ASSUME NEW s \in Shipment,
               UpdateLocked(w, s) \/ RollBackLocked(w, s) \/ Update(w, s) \/ SaveRow(w, s) \/ SkipRow(w, s)
        PROVE  pc[v] = "loaded" /\ t \in todo[v] /\ copy' = copy /\ origin' = origin
    <3>1. s \in todo[w] /\ Processed(w, s) /\ pc[w] = "loaded" /\ copy' = copy /\ origin' = origin
      BY <2>4 DEF UpdateLocked, RollBackLocked, Update, SaveRow, SkipRow
    <3> QED BY <1>2, <3>1, ProcessedType
  <2>5. ~SaverFails(w)
    BY <1>2 DEF SaverFails
  <2>6. ASSUME NEW s \in Shipment
        PROVE  ~Form(w, s) /\ ~Delete(w, s) /\ ~NotFound(w, s)
    <3>1. NotFound(w, s) => pc'[w] = "done"
      BY ProcessedLast DEF NotFound
    <3> QED BY <1>2, <3>1 DEF Form, OpenForm, PostForm, SaveUnchecked, Delete, Checking
  <2> QED BY <1>2, <2>1, <2>2, <2>3, <2>4, <2>5, <2>6 DEF Step, Callback, Flow, Admin
<1> QED BY <1>1, <1>2

\* Every step keeps OriginInv: a row is read as it is, and an attempt that
\* fails moves the instance by one legal move at most.
LEMMA OriginStep == ASSUME TypeOK, OriginInv, [Next]_vars PROVE OriginInv'
<1> SUFFICES ASSUME NEW v \in Writer, NEW t \in Shipment,
                    Checking(v), pc'[v] = "loaded", t \in todo'[v]
             PROVE  Leads(origin'[v][t], copy'[v][t].status)
  BY DEF OriginInv, Checking, Leads
<1>1. CASE UNCHANGED vars
  BY <1>1 DEF vars, OriginInv
<1>2. ASSUME NEW w \in Writer, Step(w) PROVE Leads(origin'[v][t], copy'[v][t].status)
  <2>1. CASE pc[v] = "loaded" /\ t \in todo[v] /\ copy'[v][t] = copy[v][t] /\ origin'[v][t] = origin[v][t]
    BY <2>1 DEF OriginInv
  <2>2. CASE copy'[v][t] = RowOf(t) /\ origin'[v][t] = status[t]
    BY <2>2, LeadsHere DEF RowOf
  <2>3. CASE FlowRaises(v, t)
    <3>1. PICK r \in Reports(v) : Accepts(v, t, r) /\ copy' = Moved(v, t, r)
      BY <2>3 DEF FlowRaises
    <3>2. Leads(origin[v][t], copy[v][t].status) /\ origin' = origin
      BY <2>3 DEF FlowRaises, OriginInv
    <3>3. CASE r.status = None
      BY <3>1, <3>2, <3>3, MovedType
    <3>4. CASE r.status # None
      <4>1. <<copy[v][t].status, r.status>> \in Edge /\ copy'[v][t].status = r.status
        BY <3>1, <3>4, MovedType DEF Accepts, MayMove
      <4> QED BY <3>2, <4>1, LeadsOn
    <3> QED BY <3>3, <3>4
  <2> QED BY <1>2, <2>1, <2>2, <2>3, HowInstancesChange
<1> QED BY <1>1, <1>2 DEF Next

\* A writer that checks its moves, however often an attempt failed after its
\* instance had moved, sets only statuses that legal moves lead to from the
\* status it read.
THEOREM ChecksFollowMoves == Spec => CheckedWritesFollowMoves
<1> DEFINE Follows == \A w \in Writer, s \in Shipment :
             status'[s] # status[s]
             /\ (UpdateLocked(w, s) \/ Update(w, s) \/ FlowRaises(w, s) \/ SaveRow(w, s))
                 => Leads(origin[w][s], status'[s])
<1>1. Init => OriginInv
  BY DEF Init, OriginInv
<1>2. TypeOK /\ OriginInv /\ [Next]_vars => [Follows]_vars
  <2> SUFFICES ASSUME TypeOK, OriginInv, NEW w \in Writer, NEW s \in Shipment,
                      status'[s] # status[s],
                      UpdateLocked(w, s) \/ Update(w, s) \/ FlowRaises(w, s) \/ SaveRow(w, s)
               PROVE  Leads(origin[w][s], status'[s])
    OBVIOUS
  <2>1. Leads(origin[w][s], copy[w][s].status)
    BY DEF UpdateLocked, Update, FlowRaises, SaveRow, OriginInv, Checking
  <2>2. CASE SaveRow(w, s)
    <3>1. PICK to \in New[w] : MayMove(w, s, to) /\ SaveWhole(w, s, to)
      BY <2>2 DEF SaveRow
    <3>2. status'[s] = to
      BY <3>1 DEF SaveWhole, Types
    <3> QED BY <2>1, <3>1, <3>2, LeadsOn DEF MayMove
  <2>3. CASE UpdateLocked(w, s) \/ Update(w, s) \/ FlowRaises(w, s)
    <3>1. PICK r \in Reports(w) : Accepts(w, s, r) /\ UpdateFields(w, s, r)
      BY <2>3 DEF UpdateLocked, Update, FlowRaises
    <3>2. r.status # None /\ status'[s] = r.status
      BY <3>1 DEF UpdateFields, Types
    <3> QED BY <2>1, <3>1, <3>2, LeadsOn DEF Accepts, MayMove
  <2> QED BY <2>2, <2>3
<1>3. Spec => [][Follows]_vars
  BY <1>1, <1>2, OriginStep, TypeCorrect, PTL DEF Spec
<1> QED BY <1>3 DEF CheckedWritesFollowMoves

\* A row that is gone stays gone unless a saver holds an instance of it: every
\* other writer finds no row to update, and no saver loads one any more.
THEOREM DeletionsAreFinal == Spec => DeletionIsFinal
<1> DEFINE Final == \A s \in Shipment : Gone(s) => Gone(s)'
<1>1. TypeOK /\ [Next]_vars => [Final]_vars
  <2> SUFFICES ASSUME TypeOK, Next, NEW s \in Shipment, Gone(s)
               PROVE  Gone(s)'
    OBVIOUS
  <2> USE DEF Types
  <2>1. PICK w \in Writer : Step(w)
    BY DEF Next
  <2>2. status[s] = None
    BY DEF Gone, Exists
  <2>3. status'[s] = None
    <3>1. ASSUME NEW t \in Shipment, NEW r \in Reports(w), UpdateFields(w, t, r)
          PROVE  status'[s] = None
      BY <2>2, <3>1 DEF UpdateFields, Exists
    <3>2. ASSUME NEW t \in Shipment, SaveRow(w, t) \/ SaveUnchecked(w, t)
          PROVE  status'[s] = None
      <4>1. PICK to : SaveWhole(w, t, to)
        BY <3>2 DEF SaveRow, SaveUnchecked
      <4>2. Kind[w] \in Savers /\ pc[w] = "loaded" /\ t \in todo[w]
        BY <3>2 DEF SaveRow, SaveUnchecked, Savers
      <4>3. t # s
        BY <4>2 DEF Gone
      <4> QED BY <2>2, <4>1, <4>3 DEF SaveWhole
    <3>3. ASSUME NEW t \in Shipment, Callback(w, t) \/ Flow(w, t) PROVE status'[s] = None
      BY <2>2, <3>1, <3>3 DEF Callback, LoadLocked, UpdateLocked, RollBackLocked, Flow, Load, Update,
                              FlowRaises
    <3>4. ASSUME NEW t \in Shipment,
                 SkipRow(w, t) \/ OpenForm(w, t) \/ PostForm(w, t) \/ Delete(w, t) \/ NotFound(w, t)
          PROVE  status'[s] = None
      BY <2>2, <3>4 DEF SkipRow, OpenForm, PostForm, Delete, NotFound
    <3>5. Snapshot(w) \/ SaverFails(w) => status' = status
      BY DEF Snapshot, SaverFails
    <3> QED BY <2>1, <2>2, <3>2, <3>3, <3>4, <3>5 DEF Step, Admin, Form
  <2>4. ASSUME NEW v \in Writer, Kind[v] \in Savers, pc'[v] = "loaded", s \in todo'[v]
        PROVE  FALSE
    <3>1. pc[v] # "loaded" /\ v = w
      BY <2>1, <2>4, StepsAlone DEF Gone, Alone
    <3>2. ASSUME NEW t \in Shipment, Load(w, t) \/ PostForm(w, t) PROVE FALSE
      <4>1. todo[w] = {t} /\ Exists(t) /\ todo' = todo
        BY <2>4, <3>1, <3>2, OneRow DEF Load, PostForm, Savers
      <4> QED BY <2>2, <2>4, <3>1, <4>1 DEF Exists
    <3>3. ~Snapshot(w)
      BY <2>2, <2>4, <3>1 DEF Snapshot, Exists
    <3>4. ASSUME NEW t \in Shipment, NotFound(w, t) PROVE FALSE
      BY <2>4, <3>1, <3>4, ProcessedLast DEF NotFound
    <3> QED BY <2>1, <2>4, <3>1, <3>2, <3>3, <3>4
            DEF Step, SaverFails, Callback, LoadLocked, UpdateLocked, RollBackLocked, Flow, Update,
                FlowRaises, Admin, SaveRow, SkipRow, Form, OpenForm, SaveUnchecked, Delete, Savers
  <2> QED BY <2>3, <2>4 DEF Gone, Exists
<1>2. Spec => [][Final]_vars
  BY <1>1, TypeCorrect, PTL DEF Spec
<1> QED BY <1>2 DEF DeletionIsFinal

-----------------------------------------------------------------------------
(* Refinement of AtomicCallbacks.                                          *)

\* What the others have read, as the abstraction sees it.
Views == [w \in Writer |-> View(w)]

\* A step of one writer leaves alone what the others have read.
LEMMA CopiesAlone ==
    ASSUME TypeOK, NEW w \in Writer, Step(w), NEW v \in Writer, v # w
    PROVE  View(v)' = View(v)
<1>1. copy'[v] = copy[v]
  BY CopiesStay
<1>2. todo'[v] = todo[v] /\ pc'[v] = pc[v]
  BY StepsAlone DEF Alone
<1> QED BY <1>1, <1>2 DEF View

\* So the step changes Views at most at its own writer.
LEMMA ViewsChange ==
    ASSUME TypeOK, NEW w \in Writer, Step(w)
    PROVE  Views' = [Views EXCEPT ![w] = View(w)']
BY CopiesAlone DEF Views

\* A writer that is through with a row has forgotten it.
LEMMA ProcessedIsThrough ==
    ASSUME TypeOK, NEW w \in Writer, Step(w), NEW s \in todo[w], Processed(w, s),
           Kind[w] # "admin" \/ (pc[w] = "loaded" /\ copy' = copy)
    PROVE  Atomic!Through(w, s)
<1>1. s \in Shipment /\ todo' = [todo EXCEPT ![w] = @ \ {s}]
  BY DEF Types, Processed
<1>2. View(w)' = [View(w) EXCEPT ![s] = Unread]
  <2>1. CASE pc[w] = "loaded" /\ copy' = copy
    <3>1. \A t \in todo'[w] : pc'[w] = "loaded" /\ t \in todo[w] /\ t # s
      BY <1>1, <2>1, ProcessedType DEF Types
    <3>2. \A t \in todo[w] : t = s \/ t \in todo'[w]
      BY <1>1 DEF Types
    <3> QED BY <1>1, <2>1, <3>1, <3>2 DEF View
  <2>2. CASE Kind[w] # "admin"
    <3>1. todo[w] = {s}
      BY <2>2, OneRow
    <3>2. todo'[w] = {}
      BY <1>1, <3>1 DEF Types
    <3> QED BY <1>1, <3>1, <3>2 DEF View
  <2> QED BY <2>1, <2>2
<1>3. Views[w] = View(w)
  BY DEF Views
<1>4. Views' = [Views EXCEPT ![w] = [Views[w] EXCEPT ![s] = Unread]]
  BY <1>2, <1>3, ViewsChange
<1> QED BY <1>1, <1>4 DEF Atomic!Through, Views, Unread, Atomic!Unread

\* The abstraction writes the same columns.
LEMMA WritesRefine ==
    ASSUME TypeOK, NEW w \in Writer, NEW s \in Shipment, NEW r \in Reports(w), UpdateFields(w, s, r)
    PROVE  Atomic!Write(w, s, r) /\ r \in Atomic!Reports(w)
BY DEF Types, UpdateFields, Exists, Reports, Atomic!Write, Atomic!Put, Atomic!Reports

\* What it has read of a row it is dealing with is its copy.
LEMMA ViewIsCopy ==
    ASSUME TypeOK, NEW w \in Writer, NEW s \in todo[w], pc[w] # "start", Kind[w] # "callback"
    PROVE  [v \in Writer |-> View(v)][w][s] = copy[w][s]
BY DEF View, Types

\* A callback that commits is one step of the abstraction: IsolationInv says
\* the row it checked is the row as it stands.
LEMMA CallbackRefines ==
    ASSUME TypeOK, IsolationInv, NEW w \in Writer, NEW s \in Shipment, Callback(w, s)
    PROVE  Atomic!Serve(w, s) \/ Atomic!Pass(w, s) \/ UNCHANGED Atomic!vars
<1>0. Step(w)
  BY DEF Step
<1>1. CASE LoadLocked(w, s)
  <2>1. View(w)' = View(w)
    BY <1>1 DEF LoadLocked, View
  <2>2. Views' = Views
    BY <1>0, <2>1, ViewsChange DEF Views
  <2> QED BY <1>1, <2>2 DEF LoadLocked, Views, Atomic!vars
<1>2. CASE UpdateLocked(w, s)
  <2>1. Atomic!Through(w, s)
    BY <1>0, <1>2, ProcessedIsThrough DEF UpdateLocked
  <2>2. copy[w][s] = RowOf(s)
    BY <1>2 DEF UpdateLocked, IsolationInv
  <2>3. PICK r \in Reports(w) : Accepts(w, s, r) /\ UpdateFields(w, s, r)
    BY <1>2 DEF UpdateLocked
  <2>4. Atomic!Legal(status[s], r.status)
    BY <2>2, <2>3 DEF Accepts, MayMove, RowOf, Atomic!Legal
  <2>5. Atomic!Write(w, s, r) /\ r \in Atomic!Reports(w)
    BY <2>3, WritesRefine
  <2> QED BY <1>2, <2>1, <2>4, <2>5 DEF UpdateLocked, Atomic!Serve
<1>3. CASE RollBackLocked(w, s)
  <2>1. Atomic!Through(w, s)
    BY <1>0, <1>3, ProcessedIsThrough DEF RollBackLocked
  <2> QED BY <1>3, <2>1 DEF RollBackLocked, Atomic!Pass
<1> QED BY <1>1, <1>2, <1>3 DEF Callback

\* A writer that takes no lock and has loaded rows is one step of the
\* abstraction: it has read them, as they are.
LEMMA RowsAreRead ==
    ASSUME TypeOK, NEW w \in Writer, Step(w), Kind[w] # "callback",
           NEW S \in SUBSET todo[w], todo' = [todo EXCEPT ![w] = S],
           \A s \in S : Exists(s) /\ pc'[w] # "start" /\ copy'[w][s] = RowOf(s),
           UNCHANGED <<status, report>>
    PROVE  Atomic!Next
<1>1. S \subseteq Shipment /\ todo'[w] = S
  BY DEF Types
<1>2. View(w)' = [s \in Shipment |-> IF s \in S THEN RowOf(s) ELSE Unread]
  BY <1>1 DEF View
<1>3. Views' = [Views EXCEPT ![w] = [s \in Shipment |-> IF s \in S THEN RowOf(s) ELSE Unread]]
  BY <1>2, ViewsChange
<1>4. Atomic!Read(w, S)
  BY <1>3 DEF Atomic!Read, Views, RowOf, Unread, Atomic!Unread, Exists
<1> QED BY <1>4 DEF Atomic!Next

\* A load of a single row is such a step.
LEMMA LoadRefines ==
    ASSUME TypeOK, NEW w \in Writer, NEW s \in Shipment, Load(w, s) \/ OpenForm(w, s)
    PROVE  Atomic!Next
<1>1. Step(w) /\ Kind[w] # "callback" /\ Exists(s)
  BY DEF Step, Flow, Form, Load, OpenForm
<1>2. todo[w] = {s} /\ todo' = todo
  BY OneRow DEF Load, OpenForm
<1>3. copy'[w][s] = RowOf(s) /\ pc'[w] # "start" /\ UNCHANGED <<status, report>>
  BY DEF Load, OpenForm, LoadCopy, Types
<1> DEFINE S == {s}
<1>4. S \in SUBSET todo[w] /\ todo' = [todo EXCEPT ![w] = S]
  BY <1>2 DEF Types
<1>5. \A t \in S : Exists(t) /\ pc'[w] # "start" /\ copy'[w][t] = RowOf(t)
  BY <1>1, <1>3
<1> HIDE DEF S
<1> QED BY <1>1, <1>3, <1>4, <1>5, RowsAreRead

\* So is the snapshot of a bulk action, which drops the rows that are gone.
LEMMA SnapshotRefines ==
    ASSUME TypeOK, NEW w \in Writer, Snapshot(w)
    PROVE  Atomic!Next
<1> DEFINE S == {s \in todo[w] : Exists(s)}
<1>1. Step(w) /\ Kind[w] # "callback" /\ UNCHANGED <<status, report>>
  BY DEF Step, Snapshot
<1>2. S \in SUBSET todo[w] /\ todo' = [todo EXCEPT ![w] = S] /\ \A s \in S : Exists(s)
  BY DEF Snapshot
<1>3. \A s \in S : copy'[w][s] = RowOf(s) /\ pc'[w] # "start"
  BY DEF Snapshot, Types
<1> HIDE DEF S
<1> QED BY <1>1, <1>2, <1>3, RowsAreRead

\* A poll that goes on goes on with the instance as its report has moved it.
LEMMA GoesOn ==
    ASSUME TypeOK, NEW w \in Writer, NEW s \in todo[w], Step(w), Kind[w] = "poll", pc[w] = "loaded",
           NEW r \in Reports(w), copy' = Moved(w, s, r), UNCHANGED <<todo, pc>>
    PROVE  Atomic!GoOn(w, s, r)
<1>1. s \in Shipment /\ todo[w] = {s}
  BY OneRow DEF Types
<1>2. copy'[w] = [copy[w] EXCEPT ![s] = [copy[w][s] EXCEPT !.status =
                     IF r.status = None THEN copy[w][s].status ELSE r.status]]
  BY DEF Moved, Types
<1>3. View(w) = [t \in Shipment |-> IF t = s THEN copy[w][t] ELSE Unread]
  BY <1>1 DEF View
<1>4. View(w)' = [t \in Shipment |-> IF t = s THEN copy'[w][t] ELSE Unread]
  BY <1>1 DEF View
<1>5. View(w)' = [View(w) EXCEPT ![s] = [View(w)[s] EXCEPT !.status =
                     IF r.status = None THEN View(w)[s].status ELSE r.status]]
  BY <1>1, <1>2, <1>3, <1>4 DEF Types
<1>6. Views' = [Views EXCEPT ![w] = [Views[w] EXCEPT ![s] = [Views[w][s] EXCEPT !.status =
                   IF r.status = None THEN Views[w][s].status ELSE r.status]]]
  BY <1>5, ViewsChange DEF Views
<1> QED BY <1>6 DEF Views, Atomic!GoOn

\* A replay or a poll writes what it checked against what it read, or fails
\* before or after that.
LEMMA FlowRefines ==
    ASSUME TypeOK, NEW w \in Writer, NEW s \in Shipment, Update(w, s) \/ FlowRaises(w, s)
    PROVE  Atomic!Update(w, s)
<1>1. Step(w) /\ s \in todo[w] /\ Kind[w] \in {"replay", "poll"} /\ pc[w] = "loaded"
  BY DEF Step, Flow, Update, FlowRaises
<1>2. PICK r \in Reports(w) :
           /\ Accepts(w, s, r)
           /\ UpdateFields(w, s, r) \/ UNCHANGED <<status, report>>
           /\ Processed(w, s) \/ (Kind[w] = "poll" /\ copy' = Moved(w, s, r) /\ UNCHANGED <<todo, pc>>)
  BY <1>1 DEF Update, FlowRaises
<1>3. Atomic!Legal([v \in Writer |-> View(v)][w][s].status, r.status)
  BY <1>1, <1>2, ViewIsCopy DEF Accepts, MayMove, Atomic!Legal
<1>4. Atomic!Write(w, s, r) \/ UNCHANGED <<status, report>>
  BY <1>2, WritesRefine
<1>5. Atomic!Through(w, s) \/ Atomic!GoOn(w, s, r)
  <2>1. CASE Processed(w, s)
    <3>1. Kind[w] # "admin" /\ s \in todo[w]
      BY <1>1
    <3> QED BY <1>1, <2>1, <3>1, ProcessedIsThrough, Zenon
  <2>2. CASE Kind[w] = "poll" /\ copy' = Moved(w, s, r) /\ UNCHANGED <<todo, pc>>
    BY <1>1, <2>2, GoesOn
  <2> QED BY <1>2, <2>1, <2>2
<1>6. r \in Atomic!Reports(w)
  BY DEF Reports, Atomic!Reports
<1> QED BY <1>1, <1>3, <1>4, <1>5, <1>6 DEF Atomic!Update

\* A whole save brings back what was read, and only a bulk action checks it.
LEMMA SaveRefines ==
    ASSUME TypeOK, NEW w \in Writer, NEW s \in Shipment, SaveRow(w, s) \/ SaveUnchecked(w, s)
    PROVE  Atomic!Save(w, s)
<1> DEFINE seen == [v \in Writer |-> View(v)][w][s]
<1>1. Step(w) /\ s \in todo[w] /\ Kind[w] # "callback" /\ pc[w] = "loaded"
      /\ Processed(w, s) /\ copy' = copy
  BY DEF Step, Admin, Form, SaveRow, SaveUnchecked
<1>2. seen = copy[w][s]
  BY <1>1, ViewIsCopy
<1>3. seen.status # None
  BY <1>1, <1>2 DEF ListsInStep
<1>4. Atomic!Through(w, s)
  BY <1>1, ProcessedIsThrough
<1>5. PICK to \in New[w] \cup {seen.status} :
           /\ Kind[w] # "form" => to \in New[w]
           /\ Kind[w] = "admin" => <<seen.status, to>> \in Edge
           /\ Atomic!Put(s, to, seen.report)
  <2>1. CASE SaveRow(w, s)
    <3>1. PICK to \in New[w] : MayMove(w, s, to) /\ SaveWhole(w, s, to)
      BY <2>1 DEF SaveRow
    <3> QED BY <1>2, <3>1 DEF MayMove, SaveWhole, Atomic!Put
  <2>2. CASE SaveUnchecked(w, s)
    <3>1. PICK to \in Posted(w, s) : SaveWhole(w, s, to)
      BY <2>2 DEF SaveUnchecked
    <3>2. to \in New[w] \cup {seen.status} /\ (Kind[w] # "form" => to \in New[w]) /\ Kind[w] # "admin"
      BY <1>2, <2>2, <3>1 DEF Posted, SaveUnchecked
    <3> QED BY <1>2, <3>1, <3>2 DEF SaveWhole, Atomic!Put
  <2> QED BY <2>1, <2>2
<1>6. Kind[w] \in {"admin", "form", "direct"}
  BY DEF SaveRow, SaveUnchecked
<1> QED BY <1>3, <1>4, <1>5, <1>6 DEF Atomic!Save

\* What else the savers do: read the row again, skip it, or fail.
LEMMA SaverRefines ==
    ASSUME TypeOK, NEW w \in Writer
    PROVE  /\ \A s \in Shipment : PostForm(w, s) => Atomic!ReadAgain(w, s)
           /\ \A s \in Shipment : SkipRow(w, s) => Atomic!Pass(w, s)
           /\ SaverFails(w) => Atomic!PassAll(w)
<1>1. ASSUME NEW s \in Shipment, PostForm(w, s) PROVE Atomic!ReadAgain(w, s)
  <2>1. Step(w) /\ s \in todo[w] /\ todo[w] = {s} /\ todo' = todo /\ Exists(s)
        /\ Kind[w] = "form" /\ pc[w] = "open" /\ pc'[w] = "loaded"
    BY <1>1, OneRow DEF Step, Form, PostForm, Types
  <2>2. copy'[w] = [copy[w] EXCEPT ![s] = [copy[w][s] EXCEPT !.report = report[s]]]
    BY <1>1 DEF PostForm, Types
  <2>3. View(w) = [t \in Shipment |-> IF t = s THEN copy[w][t] ELSE Unread]
    BY <2>1 DEF View
  <2>4. View(w)' = [t \in Shipment |-> IF t = s THEN copy'[w][t] ELSE Unread]
    BY <2>1 DEF View
  <2>5. View(w)' = [View(w) EXCEPT ![s] = [View(w)[s] EXCEPT !.report = report[s]]]
    BY <2>2, <2>3, <2>4 DEF Types
  <2>6. Views' = [Views EXCEPT ![w] = [Views[w] EXCEPT ![s] = [Views[w][s] EXCEPT !.report = report[s]]]]
    BY <2>1, <2>5, ViewsChange DEF Views
  <2> QED BY <1>1, <2>1, <2>6 DEF PostForm, Exists, Views, Atomic!ReadAgain
<1>2. ASSUME NEW s \in Shipment, SkipRow(w, s) PROVE Atomic!Pass(w, s)
  <2>1. Step(w) /\ s \in todo[w] /\ pc[w] = "loaded" /\ Processed(w, s) /\ copy' = copy
    BY <1>2 DEF Step, Admin, SkipRow
  <2>2. Atomic!Through(w, s)
    BY <2>1, ProcessedIsThrough
  <2> QED BY <1>2, <2>2 DEF SkipRow, Atomic!Pass
<1>3. ASSUME SaverFails(w) PROVE Atomic!PassAll(w)
  <2>1. Step(w) /\ todo'[w] = {} /\ todo' = [todo EXCEPT ![w] = {}]
    BY <1>3 DEF Step, SaverFails, Types
  <2>2. View(w)' = [s \in Shipment |-> Unread]
    BY <2>1 DEF View
  <2>3. Views' = [Views EXCEPT ![w] = [s \in Shipment |-> Unread]]
    BY <2>1, <2>2, ViewsChange
  <2> QED BY <1>3, <2>1, <2>3 DEF SaverFails, Savers, Views, Unread, Atomic!PassAll, Atomic!Unread
<1> QED BY <1>1, <1>2, <1>3

\* A row that is deleted, or not found, is dealt with.
LEMMA GoneRefines ==
    ASSUME TypeOK, NEW w \in Writer, NEW s \in Shipment
    PROVE  /\ Delete(w, s) => Atomic!Remove(w, s)
           /\ NotFound(w, s) => Atomic!Pass(w, s)
<1>1. Delete(w, s) \/ NotFound(w, s) => Atomic!Through(w, s)
  BY ProcessedIsThrough DEF Step, Delete, NotFound
<1>2. Delete(w, s) => Atomic!Remove(w, s)
  BY <1>1 DEF Delete, Atomic!Remove, Atomic!Put
<1>3. NotFound(w, s) => Atomic!Pass(w, s)
  BY <1>1 DEF NotFound, Atomic!Pass
<1> QED BY <1>2, <1>3

\* The row lock makes a callback atomic: whatever replays, polls, forms, bulk
\* actions and deletions do meanwhile, they could as well have found it done
\* in one step, on the row as it stood, and along an edge.
THEOREM CallbacksAreAtomic == Spec => ImplementsAtomicCallbacks
<1>1. Init => Atomic!Init
  BY DEF Init, Atomic!Init, View, Unread, Atomic!Unread
<1>2. TypeOK /\ IsolationInv /\ [Next]_vars => [Atomic!Next]_(Atomic!vars)
  <2> SUFFICES ASSUME TypeOK, IsolationInv, [Next]_vars
               PROVE  Atomic!Next \/ UNCHANGED Atomic!vars
    OBVIOUS
  <2>1. ASSUME NEW w \in Writer, NEW s \in Shipment, Callback(w, s)
        PROVE  Atomic!Next \/ UNCHANGED Atomic!vars
    BY <2>1, CallbackRefines DEF Atomic!Next
  <2>2. ASSUME NEW w \in Writer, NEW s \in Shipment, Flow(w, s)
        PROVE  Atomic!Next \/ UNCHANGED Atomic!vars
    BY <2>2, LoadRefines, FlowRefines DEF Flow, Atomic!Next
  <2>3. ASSUME NEW w \in Writer, NEW s \in Shipment,
               Admin(w, s) \/ Form(w, s) \/ Delete(w, s) \/ NotFound(w, s)
        PROVE  Atomic!Next
    <3>1. CASE OpenForm(w, s)
      BY <3>1, LoadRefines
    <3>2. CASE ~OpenForm(w, s)
      BY <2>3, <3>2, SaveRefines, SaverRefines, GoneRefines DEF Admin, Form, Atomic!Next
    <3> QED BY <3>1, <3>2
  <2>4. ASSUME NEW w \in Writer, Snapshot(w) \/ SaverFails(w) PROVE Atomic!Next
    BY <2>4, SnapshotRefines, SaverRefines DEF Atomic!Next
  <2>5. CASE UNCHANGED vars
    BY <2>5 DEF vars, View, Atomic!vars
  <2> QED BY <2>1, <2>2, <2>3, <2>4, <2>5 DEF Next, Step
<1> QED BY <1>1, <1>2, TypeCorrect, IsolationCorrect, PTL
           DEF Spec, ImplementsAtomicCallbacks, Atomic!Spec
-----------------------------------------------------------------------------
(* Progress, as far as it is a matter of single steps.                     *)

\* Steps a writer may still take without getting through with a row.
StepsLeft(w) ==
    CASE pc[w] = "start" -> MaxRetries + 2
      [] pc[w] = "open" -> MaxRetries + 1
      [] pc[w] = "loaded" -> MaxRetries - attempt[w]
      [] OTHER -> 0

\* The writer is through with a row, or nearer to that.
Nearer(w) ==
    \/ todo'[w] \subseteq todo[w] /\ todo'[w] # todo[w]
    \/ todo'[w] = todo[w] /\ StepsLeft(w)' < StepsLeft(w)

\* Every step brings a writer nearer to its end, and nobody is thrown back.
WritersAdvance ==
    [][\A w \in Writer : Step(w) => Nearer(w) /\ \A v \in Writer : v # w =>
          todo'[v] = todo[v] /\ pc'[v] = pc[v] /\ attempt'[v] = attempt[v]]_vars

\* Whoever holds a row lock can roll back without waiting for anything.
LockHoldersGoOn ==
    \A s \in Shipment : lock[s] # None =>
        Kind[lock[s]] = "callback" /\ pc[lock[s]] = "loaded" /\ s \in todo[lock[s]]

\* The two facts behind WritersFinish that single steps show: every writer has
\* finitely many steps to take, and nobody waits in a circle.
THEOREM WritersDoAdvance == Spec => WritersAdvance /\ []LockHoldersGoOn
<1> DEFINE Advance == \A w \in Writer : Step(w) => Nearer(w) /\ \A v \in Writer : v # w =>
               todo'[v] = todo[v] /\ pc'[v] = pc[v] /\ attempt'[v] = attempt[v]
<1>1. ASSUME TypeOK, NEW w \in Writer, Step(w) PROVE Nearer(w)
  <2> USE DEF Types, Nearer
  <2>1. ASSUME NEW s \in Shipment, s \in todo[w], Processed(w, s) PROVE Nearer(w)
    BY <1>1, <2>1 DEF Processed
  <2>2. ASSUME NEW s \in Shipment,
               LoadLocked(w, s) \/ Load(w, s) \/ OpenForm(w, s) \/ PostForm(w, s)
        PROVE  Nearer(w)
    <3>1. /\ todo' = todo /\ attempt' = attempt /\ attempt[w] \in 0 .. MaxRetries
          /\ \/ pc[w] = "start" /\ pc'[w] \in {"open", "loaded"}
             \/ pc[w] = "open" /\ pc'[w] = "loaded"
      BY <1>1, <2>2 DEF LoadLocked, Load, OpenForm, PostForm
    <3> QED BY <1>1, <3>1 DEF StepsLeft
  <2>3. ASSUME NEW s \in Shipment, FlowRaises(w, s), ~Processed(w, s) PROVE Nearer(w)
    <3>1. /\ todo' = todo /\ pc' = pc /\ pc[w] = "loaded"
          /\ attempt[w] \in 0 .. MaxRetries /\ attempt'[w] = attempt[w] + 1
      BY <1>1, <2>3 DEF FlowRaises
    <3> QED BY <1>1, <3>1 DEF StepsLeft
  <2>4. CASE Snapshot(w)
    <3>1. /\ todo'[w] \subseteq todo[w] /\ pc[w] = "start" /\ pc'[w] \in {"loaded", "done"}
          /\ attempt' = attempt /\ attempt[w] \in 0 .. MaxRetries
      BY <1>1, <2>4 DEF Snapshot
    <3> QED BY <1>1, <3>1 DEF StepsLeft
  <2>5. CASE SaverFails(w)
    <3>1. /\ todo'[w] \subseteq todo[w] /\ pc[w] \in {"start", "open", "loaded"}
          /\ pc'[w] = "done" /\ attempt[w] < MaxRetries
          /\ attempt[w] \in 0 .. MaxRetries /\ MaxRetries \in Nat
      BY <1>1, <2>5 DEF SaverFails, ListsInStep
    <3> QED BY <1>1, <3>1 DEF StepsLeft
  <2>6. ASSUME NEW s \in Shipment,
               Callback(w, s) \/ Flow(w, s) \/ Admin(w, s) \/ Form(w, s) \/ Delete(w, s)
               \/ NotFound(w, s)
        PROVE  Nearer(w)
    BY <2>1, <2>2, <2>3, <2>6
       DEF Callback, UpdateLocked, RollBackLocked, Flow, Update, FlowRaises, Admin, SaveRow,
           SkipRow, Form, SaveUnchecked, Delete, NotFound
  <2> QED BY <1>1, <2>4, <2>5, <2>6 DEF Step
<1>2. ASSUME TypeOK, NEW w \in Writer, Step(w), NEW v \in Writer, v # w
      PROVE  todo'[v] = todo[v] /\ pc'[v] = pc[v] /\ attempt'[v] = attempt[v]
  <2>1. attempt'[v] = attempt[v]
    BY <1>2 DEF Types, Step, Snapshot, SaverFails, Callback, LoadLocked, UpdateLocked,
         RollBackLocked, Flow, Load, Update, FlowRaises, Admin, SaveRow, SkipRow, Form, OpenForm,
         PostForm, SaveUnchecked, Delete, NotFound
  <2> QED BY <1>2, <2>1, StepsAlone DEF Alone
<1>3. TypeOK => LockHoldersGoOn
  BY DEF LocksHeld, LockHoldersGoOn
<1>4. TypeOK => [Advance]_vars
  BY <1>1, <1>2
<1>5. Spec => [][Advance]_vars /\ []LockHoldersGoOn
  BY <1>3, <1>4, TypeCorrect, PTL DEF Spec
<1> QED BY <1>5 DEF WritersAdvance
=============================================================================
