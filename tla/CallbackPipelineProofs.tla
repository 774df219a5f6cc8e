----------------------- MODULE CallbackPipelineProofs -----------------------
(***************************************************************************)
(* Theorems about CallbackPipeline, for every set of requests, shipments,  *)
(* payloads and statuses and every state machine Edge.                     *)
(***************************************************************************)
EXTENDS CallbackPipeline, TLAPS

USE ConstantsAssumption

\* A request's key is a key of the dedup table.
LEMMA KeyOfRequest == ASSUME NEW r \in Request PROVE KeyOf(r) \in Key
BY DEF KeyOf, Key

\* The type invariant holds whatever goes wrong: in particular no handler
\* leaves its row locked, and no claim is filed under a key not its own.
THEOREM TypeCorrect == Spec => []TypeOK
<1>1. Init => TypeOK
  BY DEF Init, TypeOK, PC, Outcome, InTransaction, Row
<1>2. TypeOK /\ [Next]_vars => TypeOK'
  <2> SUFFICES ASSUME TypeOK, [Next]_vars PROVE TypeOK'
    OBVIOUS
  <2> USE DEF TypeOK, InTransaction, PC, Outcome, Failure, KeyOf
  <2>1. ASSUME NEW r \in Request, Arrive(r) PROVE TypeOK'
    <3>1. CASE Refuse(r)      BY <3>1 DEF Refuse
    <3>2. CASE Claim(r)
      <4>1. KeyOf(r) \in Key
        BY KeyOfRequest
      <4>2. claim' \in [Key -> Request \cup {None}] /\ aged' \subseteq {k \in Key : claim'[k] # None}
        BY <3>2, <4>1 DEF Claim
      <4>3. \A k \in Key : claim'[k] # None => KeyOf(claim'[k]) = k
        BY <3>2, <4>1 DEF Claim
      <4> QED BY <3>2, <4>2, <4>3 DEF Claim
    <3>3. CASE Duplicate(r)   BY <3>3 DEF Duplicate
    <3>4. CASE SkipDedup(r)   BY <3>4 DEF SkipDedup
    <3>5. CASE ClaimRaises(r) BY <3>5 DEF ClaimRaises
    <3> QED BY <2>1, <3>1, <3>2, <3>3, <3>4, <3>5 DEF Arrive
  <2>2. ASSUME NEW r \in Request, Transact(r) PROVE TypeOK'
    <3>1. CASE LoadLocked(r)      BY <3>1 DEF LoadLocked, RowIsFree
    <3>2. CASE ShipmentMissing(r) BY <3>2 DEF ShipmentMissing
    <3>3. CASE ProviderAccepts(r) BY <3>3 DEF ProviderAccepts
    <3>4. ASSUME r \in InTransaction, NEW failure \in Failure, RollBack(r, failure)
          PROVE  TypeOK'
      <4>1. row' \in [Stored -> Row]
        BY <3>4 DEF RollBack, Undo
      <4>2. outcome' \in [Request -> Outcome]
        BY <3>4 DEF RollBack
      <4>3. /\ lock' \in [Stored -> Request \cup {None}]
            /\ seen' \in [Request -> Row \cup {None}]
            /\ pc' \in [Request -> PC]
        BY <3>4 DEF RollBack, EndTransaction
      <4>4. \A s \in Stored : lock'[s] # None =>
               lock'[s] \in InTransaction' /\ ShipmentOf[lock'[s]] = s
        BY <3>4 DEF RollBack, EndTransaction
      <4>5. \A q \in InTransaction' : seen'[q] \in Row
        BY <3>4 DEF RollBack, EndTransaction
      <4> QED BY <3>4, <4>1, <4>2, <4>3, <4>4, <4>5 DEF RollBack
    <3>5. CASE ProviderRaises(r) \/ RejectMove(r) \/ UpdateFails(r) \/ RaiseAfterUpdate(r)
      BY <3>4, <3>5 DEF ProviderRaises, RejectMove, UpdateFails, RaiseAfterUpdate
    <3>6. CASE ApplyUpdate(r)
      <4>1. [status |-> StatusOf[PayloadOf[r]], by |-> r] \in Row
        BY DEF Row
      <4>2. row' \in [Stored -> Row]
        BY <3>6, <4>1 DEF ApplyUpdate
      <4> QED BY <3>6, <4>2 DEF ApplyUpdate
    <3>7. CASE Commit(r)          BY <3>7 DEF Commit, EndTransaction
    <3> QED BY <2>2, <3>1, <3>2, <3>3, <3>5, <3>6, <3>7 DEF Transact
  <2>3. ASSUME NEW r \in Request, Finish(r) PROVE TypeOK'
    <3>1. CASE Release(r)
      <4>1. KeyOf(r) \in Key
        BY KeyOfRequest
      <4> QED BY <3>1, <4>1 DEF Release, AfterRelease
    <3>2. CASE ReleaseFails(r)        BY <3>2 DEF ReleaseFails, AfterRelease
    <3>3. CASE ReleaseRaises(r)       BY <3>3 DEF ReleaseRaises
    <3>4. CASE StoreFailedCallback(r) BY <3>4 DEF StoreFailedCallback
    <3>5. CASE StoreFails(r)          BY <3>5 DEF StoreFails
    <3>6. CASE Respond(r)             BY <3>6 DEF Respond
    <3> QED BY <2>3, <3>1, <3>2, <3>3, <3>4, <3>5, <3>6 DEF Finish
  <2>4. ASSUME NEW r \in Request, Crash(r) PROVE TypeOK'
    <3>1. row' \in [Stored -> Row]
      BY <2>4 DEF Crash, Undo
    <3>2. /\ lock' \in [Stored -> Request \cup {None}]
          /\ seen' \in [Request -> Row \cup {None}]
          /\ pc' \in [Request -> PC]
      BY <2>4 DEF Crash
    <3> QED BY <2>4, <3>1, <3>2 DEF Crash
  <2>5. ASSUME NEW k \in Key, Age(k) PROVE TypeOK'
    BY <2>5 DEF Age
  <2>6. CASE Cleanup
    BY <2>6 DEF Cleanup, DeletedByCleanup
  <2>7. CASE UNCHANGED vars
    BY <2>7 DEF vars
  <2> QED BY <2>1, <2>2, <2>3, <2>4, <2>5, <2>6, <2>7 DEF Next, Handle
<1> QED BY <1>1, <1>2, PTL DEF Spec

-----------------------------------------------------------------------------
(* The row lock.                                                           *)

\* The row as the update of r leaves it.
UpdateOf(r) == [status |-> StatusOf[PayloadOf[r]], by |-> r]

\* An open transaction holds the lock of its row and has loaded what the row
\* contains up to its own write, which is a legal move.  TypeOK has the
\* converse, that a held lock belongs to an open transaction, so the two
\* together are inductive.
LockInv ==
    \A r \in InTransaction :
        /\ ShipmentOf[r] \in Stored
        /\ lock[ShipmentOf[r]] = r
        /\ pc[r] # "commit" => seen[r] = row[ShipmentOf[r]]
        /\ pc[r] = "commit" => row[ShipmentOf[r]] = UpdateOf(r) /\ LegalMove(r)

\* Every step keeps LockInv: rows change, and locks move, only in steps of
\* the one transaction that holds the lock.
LEMMA LockInvStep == TypeOK /\ TypeOK' /\ LockInv /\ [Next]_vars => LockInv'
<1> SUFFICES ASSUME TypeOK, TypeOK', LockInv, [Next]_vars PROVE LockInv'
  OBVIOUS
<1> USE DEF LockInv, InTransaction, LegalMove
<1>0. /\ row \in [Stored -> Row] /\ lock \in [Stored -> Request \cup {None}]
      /\ seen \in [Request -> Row \cup {None}] /\ pc \in [Request -> PC]
  BY DEF TypeOK
<1>1. ASSUME NEW r \in Request, Arrive(r) \/ Finish(r) PROVE LockInv'
  <2>1. /\ UNCHANGED <<row, lock, seen>>
        /\ InTransaction' = InTransaction
        /\ \A q \in InTransaction : pc'[q] = pc[q]
    BY <1>1 DEF Arrive, Refuse, Claim, Duplicate, SkipDedup, ClaimRaises, Finish, Release,
                ReleaseFails, ReleaseRaises, StoreFailedCallback, StoreFails, Respond,
                AfterRelease, TypeOK
  <2> QED BY <2>1 DEF UpdateOf
<1>2. ASSUME NEW r \in Request, Transact(r) PROVE LockInv'
  <2>1. CASE LoadLocked(r)
    <3>1. InTransaction' = InTransaction \cup {r} /\ ShipmentOf[r] \in Stored
      BY <2>1 DEF LoadLocked, TypeOK
    <3>2. \A q \in InTransaction : ShipmentOf[q] # ShipmentOf[r]
      BY <2>1, ConstantsAssumption DEF LoadLocked, RowIsFree
    <3>3. lock'[ShipmentOf[r]] = r /\ seen'[r] = row'[ShipmentOf[r]] /\ pc'[r] # "commit"
      BY <2>1, <3>1 DEF LoadLocked, TypeOK
    <3>4. ASSUME NEW q \in InTransaction
          PROVE  /\ lock'[ShipmentOf[q]] = lock[ShipmentOf[q]]
                 /\ q # r => seen'[q] = seen[q] /\ pc'[q] = pc[q]
                 /\ q # r
      BY <2>1, <3>2 DEF LoadLocked, TypeOK
    <3> QED BY <2>1, <3>1, <3>3, <3>4 DEF LoadLocked, UpdateOf
  <2>2. CASE ShipmentMissing(r)
    BY <2>2 DEF ShipmentMissing, TypeOK, UpdateOf
  <2>3. CASE ProviderAccepts(r)
    BY <2>3 DEF ProviderAccepts, TypeOK, UpdateOf
  <2>4. CASE /\ r \in InTransaction
             /\ EndTransaction(r)
             /\ pc'[r] \notin {"provider", "persist", "commit"}
             /\ \A q \in Request : q # r => pc'[q] = pc[q]
             /\ \A s \in Stored : s # ShipmentOf[r] => row'[s] = row[s]
    <3> SUFFICES ASSUME NEW q \in InTransaction', q # r
                 PROVE  /\ ShipmentOf[q] \in Stored
                        /\ lock'[ShipmentOf[q]] = q
                        /\ pc'[q] = pc[q] /\ q \in InTransaction
                        /\ row'[ShipmentOf[q]] = row[ShipmentOf[q]] /\ seen'[q] = seen[q]
      BY <2>4 DEF UpdateOf
    <3>1. q \in InTransaction /\ pc'[q] = pc[q]
      BY <2>4
    <3>2. ShipmentOf[q] # ShipmentOf[r] /\ ShipmentOf[q] \in Stored /\ lock[ShipmentOf[q]] = q
      BY <2>4, <3>1
    <3>3. lock'[ShipmentOf[q]] = q /\ seen'[q] = seen[q]
      BY <1>0, <2>4, <3>1, <3>2 DEF EndTransaction
    <3>4. row'[ShipmentOf[q]] = row[ShipmentOf[q]]
      BY <2>4, <3>2
    <3> QED BY <3>1, <3>2, <3>3, <3>4
  <2>5. CASE ProviderRaises(r) \/ RejectMove(r) \/ UpdateFails(r) \/ RaiseAfterUpdate(r)
    <3>1. PICK failure \in Failure : RollBack(r, failure)
      BY <2>5 DEF ProviderRaises, RejectMove, UpdateFails, RaiseAfterUpdate, Failure
    <3>2. r \in InTransaction
      BY <2>5 DEF ProviderRaises, RejectMove, UpdateFails, RaiseAfterUpdate
    <3>3. \A s \in Stored : s # ShipmentOf[r] => row'[s] = row[s]
      BY <1>0, <3>1 DEF RollBack, Undo
    <3>4. /\ EndTransaction(r) /\ pc'[r] = "release"
          /\ \A q \in Request : q # r => pc'[q] = pc[q]
      BY <1>0, <3>1 DEF RollBack
    <3> QED BY <2>4, <3>2, <3>3, <3>4
  <2>6. CASE ApplyUpdate(r)
    <3>1. row'[ShipmentOf[r]] = UpdateOf(r)
      BY <2>6 DEF ApplyUpdate, UpdateOf, TypeOK
    <3>2. ASSUME NEW q \in InTransaction, q # r
          PROVE  row'[ShipmentOf[q]] = row[ShipmentOf[q]]
      <4>1. r \in InTransaction
        BY <2>6 DEF ApplyUpdate
      <4>2. ShipmentOf[q] # ShipmentOf[r] /\ ShipmentOf[q] \in Stored
        BY <3>2, <4>1
      <4> QED BY <1>0, <2>6, <4>2 DEF ApplyUpdate
    <3> QED BY <2>6, <3>1, <3>2 DEF ApplyUpdate, TypeOK, UpdateOf
  <2>7. CASE Commit(r)
    <3>1. /\ r \in InTransaction /\ EndTransaction(r) /\ pc'[r] = "respond" /\ row' = row
          /\ \A q \in Request : q # r => pc'[q] = pc[q]
      BY <1>0, <2>7 DEF Commit
    <3> QED BY <2>4, <3>1
  <2> QED BY <1>2, <2>1, <2>2, <2>3, <2>5, <2>6, <2>7 DEF Transact
<1>3. ASSUME NEW r \in Request, Crash(r) PROVE LockInv'
  <2> SUFFICES ASSUME NEW q \in InTransaction'
               PROVE  /\ ShipmentOf[q] \in Stored
                      /\ lock'[ShipmentOf[q]] = q
                      /\ pc'[q] = pc[q] /\ q \in InTransaction
                      /\ row'[ShipmentOf[q]] = row[ShipmentOf[q]] /\ seen'[q] = seen[q]
    BY DEF UpdateOf
  <2>1. q \in InTransaction /\ q # r
    BY <1>3 DEF Crash, TypeOK
  <2>2. pc[r] = "commit" => ShipmentOf[q] # ShipmentOf[r]
    BY <2>1
  <2>3. ShipmentOf[q] \in Stored /\ lock[ShipmentOf[q]] = q
    BY <2>1
  <2>4. row'[ShipmentOf[q]] = row[ShipmentOf[q]]
    BY <1>0, <1>3, <2>2, <2>3 DEF Crash, Undo
  <2> QED BY <1>0, <1>3, <2>1, <2>3, <2>4 DEF Crash
<1>4. CASE Cleanup \/ UNCHANGED vars \/ \E k \in Key : Age(k)
  BY <1>4 DEF Cleanup, vars, Age, UpdateOf
<1> QED BY <1>1, <1>2, <1>3, <1>4 DEF Next, Handle

\* Init satisfies it, so it always holds.
THEOREM LockCorrect == Spec => []LockInv
<1>1. Init => LockInv
  BY DEF Init, LockInv, InTransaction
<1> QED BY <1>1, LockInvStep, TypeCorrect, PTL DEF Spec

\* Whatever fails, a handler decides upon the current content of a row that
\* nobody else has open.
THEOREM DecisionsAreCurrent == Spec => []DecidesOnCurrentRow
<1>1. LockInv => DecidesOnCurrentRow
  BY DEF LockInv, DecidesOnCurrentRow
<1> QED BY <1>1, LockCorrect, PTL

\* What others see of a row changes only when the transaction on it commits,
\* and then to its update, which is a legal move from what they saw before.
LEMMA RowsChangeByCommit ==
    ASSUME TypeOK, LockInv, [Next]_vars, NEW s \in Stored
    PROVE  \/ Committed(s)' = Committed(s)
           \/ \E r \in Request : /\ Commit(r)
                                 /\ Committed(s)' = UpdateOf(r)
                                 /\ <<Committed(s).status, UpdateOf(r).status>> \in Edge
<1> USE DEF Committed, LockInv, InTransaction
<1>1. ASSUME NEW r \in Request, Arrive(r) \/ Finish(r) PROVE Committed(s)' = Committed(s)
  <2>1. /\ UNCHANGED <<row, lock, seen>>
        /\ \A q \in InTransaction : pc'[q] = pc[q]
        /\ \A q \in Request : pc'[q] = "commit" => pc[q] = "commit"
    BY <1>1 DEF Arrive, Refuse, Claim, Duplicate, SkipDedup, ClaimRaises, Finish, Release,
                ReleaseFails, ReleaseRaises, StoreFailedCallback, StoreFails, Respond,
                AfterRelease, TypeOK
  <2> QED BY <2>1 DEF TypeOK
<1>2. ASSUME NEW r \in Request, ShipmentMissing(r) \/ ProviderAccepts(r)
      PROVE  Committed(s)' = Committed(s)
  BY <1>2 DEF ShipmentMissing, ProviderAccepts, TypeOK
<1>3. ASSUME NEW r \in Request, LoadLocked(r) PROVE Committed(s)' = Committed(s)
  <2>1. CASE s = ShipmentOf[r]
    BY <1>3, <2>1 DEF LoadLocked, RowIsFree, TypeOK
  <2>2. CASE s # ShipmentOf[r]
    BY <1>3, <2>2 DEF LoadLocked, TypeOK
  <2> QED BY <2>1, <2>2
<1>4. ASSUME NEW r \in Request, ApplyUpdate(r) PROVE Committed(s)' = Committed(s)
  <2>1. CASE s = ShipmentOf[r]
    <3>1. lock[s] = r /\ lock'[s] = r /\ pc'[r] = "commit" /\ seen'[r] = row[s] /\ r # None
      BY <1>4, <2>1 DEF ApplyUpdate, TypeOK
    <3>2. Committed(s)' = row[s]
      BY <3>1
    <3>3. Committed(s) = row[s]
      BY <1>4, <3>1 DEF ApplyUpdate
    <3> QED BY <3>2, <3>3
  <2>2. CASE s # ShipmentOf[r]
    <3>1. lock[s] # r
      BY <2>2 DEF TypeOK
    <3> QED BY <1>4, <2>2, <3>1 DEF ApplyUpdate, TypeOK
  <2> QED BY <2>1, <2>2
<1>5. ASSUME NEW r \in Request,
             /\ pc'[r] \notin {"provider", "persist", "commit"}
             /\ \A q \in Request : q # r => pc'[q] = pc[q] /\ seen'[q] = seen[q],
             \A x \in Stored : lock'[x] = IF lock[x] = r THEN None ELSE lock[x]
      PROVE  /\ lock[s] # r /\ row'[s] = row[s] => Committed(s)' = Committed(s)
             /\ lock[s] = r => Committed(s)' = row'[s]
  BY <1>5, ConstantsAssumption DEF TypeOK
<1>6. ASSUME NEW r \in Request, EndTransaction(r), r \in InTransaction
      PROVE  \A x \in Stored : lock'[x] = IF lock[x] = r THEN None ELSE lock[x]
  <2>1. \A x \in Stored : lock[x] = r <=> x = ShipmentOf[r]
    BY <1>6, ConstantsAssumption DEF TypeOK
  <2> QED BY <1>6, <2>1 DEF EndTransaction, TypeOK
<1>7. ASSUME NEW r \in Request, r \in InTransaction => Undo(r), lock[s] = r \/ row'[s] # row[s]
      PROVE  (r \in InTransaction => row'[s] = Committed(s))
  BY <1>7 DEF Undo, TypeOK
<1>8. ASSUME NEW r \in Request, NEW failure \in Failure, r \in InTransaction, RollBack(r, failure)
      PROVE  Committed(s)' = Committed(s)
  <2>1. /\ pc'[r] \notin {"provider", "persist", "commit"}
        /\ \A q \in Request : q # r => pc'[q] = pc[q] /\ seen'[q] = seen[q]
    BY <1>8 DEF RollBack, EndTransaction, TypeOK
  <2>2. lock[s] # r => row'[s] = row[s]
    BY <1>8 DEF RollBack, Undo, TypeOK
  <2> QED BY <1>5, <1>6, <1>7, <1>8, <2>1, <2>2 DEF RollBack
<1>9. ASSUME NEW r \in Request, ProviderRaises(r) \/ RejectMove(r) \/ UpdateFails(r)
                                   \/ RaiseAfterUpdate(r)
      PROVE  Committed(s)' = Committed(s)
  BY <1>8, <1>9 DEF ProviderRaises, RejectMove, UpdateFails, RaiseAfterUpdate, Failure
<1>10. ASSUME NEW r \in Request, Commit(r)
       PROVE  \/ Committed(s)' = Committed(s)
              \/ /\ Committed(s)' = UpdateOf(r)
                 /\ <<Committed(s).status, UpdateOf(r).status>> \in Edge
  <2>1. /\ pc'[r] \notin {"provider", "persist", "commit"}
        /\ \A q \in Request : q # r => pc'[q] = pc[q] /\ seen'[q] = seen[q]
        /\ row' = row /\ r \in InTransaction
    BY <1>10 DEF Commit, EndTransaction, TypeOK
  <2>2. CASE lock[s] # r
    BY <1>5, <1>6, <1>10, <2>1, <2>2 DEF Commit
  <2>3. CASE lock[s] = r
    <3>1. s = ShipmentOf[r] /\ pc[r] = "commit"
      BY <1>10, <2>3, ConstantsAssumption DEF Commit, TypeOK
    <3>2. Committed(s)' = UpdateOf(r)
      BY <1>5, <1>6, <1>10, <2>1, <2>3, <3>1 DEF Commit
    <3>3. Committed(s) = seen[r]
      BY <2>3, <3>1, ConstantsAssumption
    <3> QED BY <2>1, <3>1, <3>2, <3>3 DEF LegalMove, UpdateOf
  <2> QED BY <2>2, <2>3
<1>11. ASSUME NEW r \in Request, Crash(r) PROVE Committed(s)' = Committed(s)
  <2>1. /\ pc'[r] \notin {"provider", "persist", "commit"}
        /\ \A q \in Request : q # r => pc'[q] = pc[q] /\ seen'[q] = seen[q]
        /\ \A x \in Stored : lock'[x] = IF lock[x] = r THEN None ELSE lock[x]
    BY <1>11 DEF Crash, TypeOK
  <2>2. lock[s] # r => row'[s] = row[s]
    BY <1>11 DEF Crash, Undo, TypeOK
  <2>3. lock[s] = r => r \in InTransaction
    BY DEF TypeOK
  <2> QED BY <1>5, <1>7, <1>11, <2>1, <2>2, <2>3 DEF Crash
<1>12. CASE Cleanup \/ UNCHANGED vars \/ \E k \in Key : Age(k)
  BY <1>12 DEF Cleanup, vars, Age
<1> QED BY <1>1, <1>2, <1>3, <1>4, <1>9, <1>10, <1>11, <1>12 DEF Next, Handle, Transact

\* Whatever fails, a callback moves a shipment only along an edge of the core
\* library's state machine: the move was checked against a copy of the row,
\* and LockInv says the row still equals the copy.
THEOREM TransitionsAreLegal == Spec => LegalTransitions
<1> DEFINE Legal == \A s \in Stored : Committed(s)'.status # Committed(s).status
                        => <<Committed(s).status, Committed(s)'.status>> \in Edge
<1>1. TypeOK /\ LockInv /\ [Next]_vars => [Legal]_vars
  BY RowsChangeByCommit
<1>2. Spec => [][Legal]_vars
  BY <1>1, TypeCorrect, LockCorrect, PTL DEF Spec
<1> QED BY <1>2 DEF LegalTransitions

-----------------------------------------------------------------------------
(* The dedup claim.                                                        *)

\* The outcome is decided only by the step that leaves the open transaction.
OutcomeInv ==
    \A r \in Request :
        /\ pc[r] \in {"new", "lock", "provider", "persist", "commit"} => outcome[r] = "none"
        /\ pc[r] = "release" => outcome[r] \in Failure

\* A request that has not decided yet owns a fresh claim, and one that took
\* effect owns its claim until the cleanup task deletes it.  A key has one
\* claim, so no two requests with the same key are in these sets: that is
\* why a release never deletes the claim of a success.
ClaimInv ==
    /\ \A r \in Undecided : claim[KeyOf(r)] = r /\ KeyOf(r) \notin aged
    /\ SuccessRemembered

\* Every step keeps OutcomeInv.
LEMMA OutcomeInvStep == TypeOK /\ OutcomeInv /\ [Next]_vars => OutcomeInv'
<1> SUFFICES ASSUME TypeOK, OutcomeInv, [Next]_vars PROVE OutcomeInv'
  OBVIOUS
<1> USE DEF OutcomeInv, TypeOK
<1>1. ASSUME NEW r \in Request, Arrive(r) PROVE OutcomeInv'
  BY <1>1 DEF Arrive, Refuse, Claim, Duplicate, SkipDedup, ClaimRaises
<1>2. ASSUME NEW r \in Request, Transact(r) PROVE OutcomeInv'
  <2>1. CASE ProviderRaises(r) \/ RaiseAfterUpdate(r)
    <3>1. PICK failure \in Failure : RollBack(r, failure)
      BY <2>1 DEF ProviderRaises, RaiseAfterUpdate
    <3> QED BY <3>1 DEF RollBack
  <2>2. CASE RejectMove(r) \/ UpdateFails(r) \/ ShipmentMissing(r)
    BY <2>2 DEF RejectMove, UpdateFails, ShipmentMissing, RollBack, Failure
  <2>3. CASE LoadLocked(r) \/ ProviderAccepts(r) \/ ApplyUpdate(r) \/ Commit(r)
    BY <2>3 DEF LoadLocked, ProviderAccepts, ApplyUpdate, Commit
  <2> QED BY <1>2, <2>1, <2>2, <2>3 DEF Transact
<1>3. ASSUME NEW r \in Request, Finish(r) PROVE OutcomeInv'
  BY <1>3 DEF Finish, Release, ReleaseFails, ReleaseRaises, StoreFailedCallback, StoreFails,
              Respond, AfterRelease
<1>4. ASSUME NEW r \in Request, Crash(r) PROVE OutcomeInv'
  BY <1>4 DEF Crash
<1>5. CASE Cleanup \/ UNCHANGED vars \/ \E k \in Key : Age(k)
  BY <1>5 DEF Cleanup, vars, Age
<1> QED BY <1>1, <1>2, <1>3, <1>4, <1>5 DEF Next, Handle

\* Every step keeps ClaimInv, if dedup is never skipped and no handler
\* outlives the window.
LEMMA ClaimInvStep ==
    ASSUME Faults \cap {"dedup_error", "slow"} = {},
           TypeOK, TypeOK', OutcomeInv, ClaimInv, [Next]_vars
    PROVE  ClaimInv'
<1> USE DEF ClaimInv, SuccessRemembered, Undecided
<1> USE KeyOfRequest
<1>1. ASSUME NEW r \in Request, Arrive(r) PROVE ClaimInv'
  <2>1. CASE Claim(r)
    <3>1. \A q \in Request : outcome'[q] = "applied" /\ q \notin forgotten'
                                 => claim'[KeyOf(q)] = q
      BY <2>1, ConstantsAssumption DEF Claim, ClaimIsFree, TypeOK
    <3>2. \A q \in Undecided' : claim'[KeyOf(q)] = q /\ KeyOf(q) \notin aged'
      BY <2>1, ConstantsAssumption DEF Claim, ClaimIsFree, TypeOK
    <3> QED BY <3>1, <3>2
  <2>2. CASE Refuse(r) \/ Duplicate(r) \/ ClaimRaises(r)
    BY <2>2 DEF Refuse, Duplicate, ClaimRaises, TypeOK
  <2>3. ~SkipDedup(r)
    BY DEF SkipDedup
  <2> QED BY <1>1, <2>1, <2>2, <2>3 DEF Arrive
<1>2. ASSUME NEW r \in Request, Transact(r) PROVE ClaimInv'
  <2>1. /\ UNCHANGED <<claim, aged, forgotten>>
        /\ r \in Undecided
        /\ Undecided' \subseteq Undecided
        /\ \A q \in Request : q # r => outcome'[q] = outcome[q]
    BY <1>2 DEF Transact, LoadLocked, ShipmentMissing, ProviderAccepts, ProviderRaises,
                ApplyUpdate, RejectMove, UpdateFails, Commit, RaiseAfterUpdate, RollBack, TypeOK
  <2> QED BY <2>1
<1>3. ASSUME NEW r \in Request, Finish(r) PROVE ClaimInv'
  <2>1. CASE Release(r)
    <3>1. ASSUME NEW q \in Request, q \in Undecided' \/ (outcome'[q] = "applied" /\ q \notin forgotten')
          PROVE  q # r /\ claim[KeyOf(q)] = q /\ UNCHANGED outcome
      BY <2>1, <3>1 DEF Release, OutcomeInv, Failure, AfterRelease, TypeOK
    <3>2. claim[KeyOf(r)] = r
      BY <2>1 DEF Release
    <3>3. ASSUME NEW q \in Request, q \in Undecided' \/ (outcome'[q] = "applied" /\ q \notin forgotten')
          PROVE  KeyOf(q) # KeyOf(r) /\ claim'[KeyOf(q)] = q
      BY <2>1, <3>1, <3>2, <3>3 DEF Release, TypeOK
    <3> QED BY <2>1, <3>3 DEF Release, TypeOK, AfterRelease
  <2>2. CASE ReleaseFails(r) \/ ReleaseRaises(r) \/ StoreFailedCallback(r) \/ StoreFails(r) \/ Respond(r)
    BY <2>2 DEF ReleaseFails, ReleaseRaises, StoreFailedCallback, StoreFails, Respond,
                AfterRelease, TypeOK
  <2> QED BY <1>3, <2>1, <2>2 DEF Finish
<1>4. ASSUME NEW r \in Request, Crash(r) PROVE ClaimInv'
  BY <1>4 DEF Crash, TypeOK
<1>5. ASSUME NEW k \in Key, Age(k) PROVE ClaimInv'
  BY <1>5 DEF Age, TypeOK
<1>6. CASE Cleanup
  <2>1. \A q \in Undecided : claim'[KeyOf(q)] = q /\ KeyOf(q) \notin aged'
    BY <1>6 DEF Cleanup, DeletedByCleanup
  <2>2. ASSUME NEW q \in Request, outcome'[q] = "applied", q \notin forgotten'
        PROVE  claim'[KeyOf(q)] = q
    BY <1>6, <2>2 DEF Cleanup, DeletedByCleanup
  <2> QED BY <1>6, <2>1, <2>2 DEF Cleanup
<1>7. CASE UNCHANGED vars
  BY <1>7 DEF vars
<1> QED BY <1>1, <1>2, <1>3, <1>4, <1>5, <1>6, <1>7 DEF Next, Handle

\* The two invariants of the dedup claim always hold.
THEOREM ClaimCorrect ==
    ASSUME Faults \cap {"dedup_error", "slow"} = {}
    PROVE  Spec => [](OutcomeInv /\ ClaimInv)
<1>1. Init => OutcomeInv /\ ClaimInv
  BY DEF Init, OutcomeInv, ClaimInv, SuccessRemembered, Undecided
<1>2. TypeOK /\ TypeOK' /\ OutcomeInv /\ ClaimInv /\ [Next]_vars => (OutcomeInv /\ ClaimInv)'
  BY OutcomeInvStep, ClaimInvStep
<1> QED BY <1>1, <1>2, TypeCorrect, PTL DEF Spec

\* No failure, retry or crash of another delivery reopens a payload that took
\* effect.
THEOREM SuccessIsRemembered ==
    ASSUME Faults \cap {"dedup_error", "slow"} = {}
    PROVE  Spec => []SuccessRemembered
<1>1. ClaimInv => SuccessRemembered
  BY DEF ClaimInv
<1> QED BY <1>1, ClaimCorrect, PTL

\* Only the cleanup task, and only after the window, deletes the claim of a
\* delivery that took effect: a release deletes the claim of its own delivery,
\* which has just failed.
THEOREM CommittedClaimsSurvive ==
    ASSUME Faults \cap {"dedup_error", "slow"} = {}
    PROVE  Spec => CommittedClaimSurvives
<1> DEFINE Survives == \A k \in Key :
                claim[k] # None /\ outcome[claim[k]] = "applied" /\ k \notin aged
                    => claim'[k] = claim[k]
<1>1. TypeOK /\ OutcomeInv /\ ClaimInv /\ [Next]_vars => [Survives]_vars
  <2> SUFFICES ASSUME TypeOK, OutcomeInv, ClaimInv, [Next]_vars,
                      NEW k \in Key, claim[k] # None, outcome[claim[k]] = "applied", k \notin aged
               PROVE  claim'[k] = claim[k]
    OBVIOUS
  <2>1. ASSUME NEW r \in Request, Release(r) PROVE claim'[k] = claim[k]
    <3>1. claim[KeyOf(r)] = r /\ outcome[r] # "applied"
      BY <2>1 DEF Release, ClaimInv, Undecided, OutcomeInv, Failure
    <3> QED BY <2>1, <3>1 DEF Release, TypeOK
  <2>2. ASSUME NEW r \in Request, Claim(r) PROVE claim'[k] = claim[k]
    BY <2>2 DEF Claim, ClaimIsFree, TypeOK
  <2>3. ASSUME NEW r \in Request, Handle(r), ~Release(r), ~Claim(r) PROVE claim' = claim
    BY <2>3 DEF Handle, Arrive, Refuse, Duplicate, SkipDedup, ClaimRaises, Transact, LoadLocked,
                ShipmentMissing, ProviderAccepts, ProviderRaises, ApplyUpdate, RejectMove,
                UpdateFails, Commit, RaiseAfterUpdate, RollBack, Finish, ReleaseFails, ReleaseRaises, StoreFailedCallback,
                StoreFails, Respond
  <2>4. CASE Cleanup
    BY <2>4 DEF Cleanup, DeletedByCleanup
  <2>5. CASE UNCHANGED vars \/ (\E r \in Request : Crash(r)) \/ (\E j \in Key : Age(j))
    BY <2>5 DEF vars, Crash, Age
  <2> QED BY <2>1, <2>2, <2>3, <2>4, <2>5 DEF Next
<1>2. Spec => [][Survives]_vars
  BY <1>1, TypeCorrect, ClaimCorrect, PTL DEF Spec
<1> QED BY <1>2 DEF CommittedClaimSurvives

\* Two deliveries of one payload are never processed at the same time.
THEOREM ProcessedByOne ==
    ASSUME Faults \cap {"dedup_error", "slow"} = {}
    PROVE  Spec => []OneProcessorPerPayload
<1>1. ClaimInv => OneProcessorPerPayload
  BY DEF ClaimInv, OneProcessorPerPayload, Processing, Undecided
<1> QED BY <1>1, ClaimCorrect, PTL

\* Each step of a handler that ends its processing leaves its claim accounted
\* for, if the claim can be deleted; other steps leave claim and owner alone.
LEMMA AccountedStep ==
    ASSUME Faults \cap {"release_error", "dedup_raises"} = {},
           TypeOK, TypeOK', OutcomeInv, ClaimAccountedFor, [Next]_vars
    PROVE  ClaimAccountedFor'
<1> USE DEF ClaimAccountedFor, Undecided
<1>1. ASSUME NEW r \in Request, Arrive(r) PROVE ClaimAccountedFor'
  <2>1. CASE Claim(r)
    BY <2>1, KeyOfRequest DEF Claim, TypeOK
  <2>2. CASE Refuse(r) \/ Duplicate(r) \/ SkipDedup(r)
    BY <2>2 DEF Refuse, Duplicate, SkipDedup, OutcomeInv, TypeOK
  <2>3. ~ClaimRaises(r)
    BY DEF ClaimRaises
  <2> QED BY <1>1, <2>1, <2>2, <2>3 DEF Arrive
<1>2. ASSUME NEW r \in Request, Transact(r) PROVE ClaimAccountedFor'
  <2>1. /\ claim' = claim
        /\ r \in Undecided' \/ outcome'[r] = "applied"
        /\ \A q \in Request : q # r => pc'[q] = pc[q] /\ outcome'[q] = outcome[q]
    BY <1>2 DEF Transact, LoadLocked, ShipmentMissing, ProviderAccepts, ProviderRaises,
                ApplyUpdate, RejectMove, UpdateFails, Commit, RaiseAfterUpdate, RollBack, TypeOK
  <2> QED BY <2>1 DEF TypeOK
<1>3. ASSUME NEW r \in Request, Finish(r) PROVE ClaimAccountedFor'
  <2>1. CASE Release(r)
    <3>1. ASSUME NEW k \in Key, claim'[k] # None PROVE claim'[k] = claim[k] /\ claim[k] # r
      BY <2>1, <3>1, KeyOfRequest DEF Release, TypeOK
    <3>2. \A q \in Request : q # r => pc'[q] = pc[q] /\ outcome'[q] = outcome[q]
      BY <2>1 DEF Release, TypeOK
    <3> QED BY <3>1, <3>2 DEF TypeOK
  <2>2. CASE StoreFailedCallback(r) \/ StoreFails(r) \/ Respond(r)
    BY <2>2 DEF StoreFailedCallback, StoreFails, Respond, TypeOK
  <2>3. ~ReleaseFails(r) /\ ~ReleaseRaises(r)
    BY DEF ReleaseFails, ReleaseRaises
  <2> QED BY <1>3, <2>1, <2>2, <2>3 DEF Finish
<1>4. ASSUME NEW r \in Request, Crash(r) PROVE ClaimAccountedFor'
  BY <1>4 DEF Crash, TypeOK
<1>5. CASE Cleanup \/ UNCHANGED vars \/ \E k \in Key : Age(k)
  BY <1>5 DEF Cleanup, vars, Age, TypeOK
<1> QED BY <1>1, <1>2, <1>3, <1>4, <1>5 DEF Next, Handle

\* As long as claims can be deleted, a delivery that fails never poisons the
\* dedup table, even if others went on without a claim.
THEOREM ClaimsAreAccountedFor ==
    ASSUME Faults \cap {"release_error", "dedup_raises"} = {}
    PROVE  Spec => []ClaimAccountedFor
<1>1. Init => OutcomeInv /\ ClaimAccountedFor
  BY DEF Init, OutcomeInv, ClaimAccountedFor
<1> QED BY <1>1, OutcomeInvStep, AccountedStep, TypeCorrect, PTL DEF Spec

-----------------------------------------------------------------------------
(* The retry row.                                                          *)

\* Only a handler whose processing ended in a communication error goes to
\* store its request, and nothing changes its outcome afterwards.
QueueInv ==
    /\ \A r \in queued : outcome[r] = "communication"
    /\ queued \subseteq {r \in Request : pc[r] \in {"respond", "done", "crashed"}}
    /\ \A r \in Request : pc[r] = "store" => outcome[r] = "communication"

\* A communication error that is about to be answered has been stored.
StoredInv ==
    \A r \in Request :
        pc[r] \in {"respond", "done"} /\ outcome[r] = "communication" => r \in queued

\* What a handler's step does to the retry table and to what stands there.
LEMMA QueueStep ==
    ASSUME TypeOK, OutcomeInv, QueueInv, NEW r \in Request, Handle(r) \/ Crash(r)
    PROVE  /\ QueueInv'
           /\ "store_error" \notin Faults /\ StoredInv => StoredInv'
<1> USE DEF QueueInv, StoredInv, TypeOK
<1>1. CASE Arrive(r)
  BY <1>1 DEF Arrive, Refuse, Claim, Duplicate, SkipDedup, ClaimRaises
<1>2. CASE Transact(r)
  <2>1. /\ queued' = queued
        /\ \A q \in Request : q # r => pc'[q] = pc[q] /\ outcome'[q] = outcome[q]
        /\ pc[r] \in {"lock", "provider", "persist", "commit"}
        /\ pc'[r] \in {"provider", "persist", "commit", "release", "respond"}
        /\ pc'[r] = "respond" => outcome'[r] = "applied"
    BY <1>2 DEF Transact, LoadLocked, ShipmentMissing, ProviderAccepts, ProviderRaises,
                ApplyUpdate, RejectMove, UpdateFails, Commit, RaiseAfterUpdate, RollBack
  <2> QED BY <2>1
<1>3. CASE Release(r) \/ ReleaseFails(r)
  BY <1>3 DEF Release, ReleaseFails, AfterRelease
<1>4. CASE ReleaseRaises(r)
  BY <1>4 DEF ReleaseRaises
<1>5. CASE StoreFailedCallback(r)
  BY <1>5 DEF StoreFailedCallback
<1>6. CASE StoreFails(r)
  BY <1>6 DEF StoreFails
<1>7. CASE Respond(r)
  BY <1>7 DEF Respond
<1>8. CASE Crash(r)
  BY <1>8 DEF Crash
<1> QED BY <1>1, <1>2, <1>3, <1>4, <1>5, <1>6, <1>7, <1>8 DEF Handle, Finish

\* Nothing a later step does turns "applied" into another outcome, or puts a
\* delivery that took effect into the retry table.
LEMMA AppliedStays ==
    ASSUME TypeOK, OutcomeInv, QueueInv, [Next]_vars,
           NEW q \in Request, outcome[q] = "applied", q \notin queued
    PROVE  outcome'[q] = "applied" /\ q \notin queued'
<1> USE DEF TypeOK, OutcomeInv, QueueInv
<1>1. ASSUME NEW r \in Request, Arrive(r)
      PROVE  outcome'[q] = "applied" /\ q \notin queued'
  BY <1>1 DEF Arrive, Refuse, Claim, Duplicate, SkipDedup, ClaimRaises
<1>2. ASSUME NEW r \in Request, Transact(r)
      PROVE  outcome'[q] = "applied" /\ q \notin queued'
  <2>1. queued' = queued /\ q # r /\ \A p \in Request : p # r => outcome'[p] = outcome[p]
    BY <1>2 DEF Transact, LoadLocked, ShipmentMissing, ProviderAccepts, ProviderRaises,
                ApplyUpdate, RejectMove, UpdateFails, Commit, RaiseAfterUpdate, RollBack
  <2> QED BY <2>1
<1>3. ASSUME NEW r \in Request, Finish(r)
      PROVE  outcome'[q] = "applied" /\ q \notin queued'
  BY <1>3 DEF Finish, Release, ReleaseFails, ReleaseRaises, StoreFailedCallback, StoreFails,
              Respond, Failure
<1>4. CASE Cleanup \/ UNCHANGED vars \/ (\E r \in Request : Crash(r)) \/ \E k \in Key : Age(k)
  BY <1>4 DEF Cleanup, vars, Crash, Age
<1> QED BY <1>1, <1>2, <1>3, <1>4 DEF Next, Handle

\* Whatever else fails, what a shipment shows was put there by a delivery that
\* was processed to its end: a write that is followed by an exception or by the
\* death of the worker is undone, so the replay of a retry row is the first
\* time its payload takes effect.
THEOREM OnlyAppliedShow == Spec => []OnlyAppliedShows
<1>1. Init => OutcomeInv /\ QueueInv /\ OnlyAppliedShows
  BY DEF Init, OutcomeInv, QueueInv, OnlyAppliedShows, Committed
<1>2. TypeOK /\ OutcomeInv /\ QueueInv /\ [Next]_vars => QueueInv'
  BY QueueStep DEF Next, Age, Cleanup, vars, QueueInv
<1>3. ASSUME TypeOK, LockInv, OutcomeInv, QueueInv, OnlyAppliedShows, [Next]_vars
      PROVE  OnlyAppliedShows'
  <2> SUFFICES ASSUME NEW s \in Stored, Committed(s)'.by # None
               PROVE  outcome'[Committed(s)'.by] = "applied" /\ Committed(s)'.by \notin queued'
    BY DEF OnlyAppliedShows
  <2>1. CASE Committed(s)' = Committed(s)
    <3>1. Committed(s) \in Row
      BY <1>3 DEF Committed, InTransaction, TypeOK
    <3>2. Committed(s).by \in Request \cup {None}
      BY <3>1 DEF Row
    <3> QED BY <1>3, <2>1, <3>2, AppliedStays DEF OnlyAppliedShows
  <2>2. ASSUME NEW r \in Request, Commit(r), Committed(s)' = UpdateOf(r)
        PROVE  outcome'[Committed(s)'.by] = "applied" /\ Committed(s)'.by \notin queued'
    <3>1. Committed(s)'.by = r
      BY <2>2 DEF UpdateOf
    <3> QED BY <1>3, <2>2, <3>1 DEF Commit, QueueInv, TypeOK
  <2> QED BY <1>3, <2>1, <2>2, RowsChangeByCommit
<1> QED BY <1>1, <1>2, <1>3, OutcomeInvStep, TypeCorrect, LockCorrect, PTL DEF Spec

\* A communication error answered with 502 has left a retry row, whatever else
\* fails, unless the row itself could not be written.
THEOREM TransientFailuresAreQueued ==
    ASSUME "store_error" \notin Faults
    PROVE  Spec => []TransientFailureQueued
<1>1. Init => OutcomeInv /\ QueueInv /\ StoredInv
  BY DEF Init, OutcomeInv, QueueInv, StoredInv
<1>2. TypeOK /\ OutcomeInv /\ QueueInv /\ StoredInv /\ [Next]_vars => (QueueInv /\ StoredInv)'
  BY QueueStep DEF Next, Age, Cleanup, vars, QueueInv, StoredInv
<1>3. StoredInv => TransientFailureQueued
  BY DEF StoredInv, TransientFailureQueued
<1> QED BY <1>1, <1>2, <1>3, OutcomeInvStep, TypeCorrect, PTL DEF Spec

-----------------------------------------------------------------------------
(* The deliveries that are answered as duplicates.                         *)

\* Whoever inserted a claim left a trace, and so did another delivery of the
\* payload of every duplicate.
OriginalInv ==
    /\ \A k \in Key : claim[k] # None => LeftATrace(claim[k])
    /\ DuplicateHasOriginal

\* No step wipes out a trace, if the retry row can be written.
LEMMA TraceStays ==
    ASSUME "store_error" \notin Faults,
           TypeOK, OutcomeInv, QueueInv, [Next]_vars,
           NEW q \in Request, LeftATrace(q)
    PROVE  LeftATrace(q)'
<1> USE DEF LeftATrace, TypeOK
<1>1. ASSUME NEW r \in Request, r # q, Handle(r) \/ Crash(r) PROVE LeftATrace(q)'
  <2>1. pc'[q] = pc[q] /\ outcome'[q] = outcome[q] /\ queued \subseteq queued'
    BY <1>1 DEF Handle, Arrive, Refuse, Claim, Duplicate, SkipDedup, ClaimRaises, Transact,
                LoadLocked, ShipmentMissing, ProviderAccepts, ProviderRaises, ApplyUpdate,
                RejectMove, UpdateFails, Commit, RaiseAfterUpdate, RollBack, Finish, Release, ReleaseFails, ReleaseRaises,
                StoreFailedCallback, StoreFails, Respond, Crash
  <2> QED BY <2>1
<1>2. CASE Arrive(q)
  BY <1>2 DEF Arrive, Refuse, Claim, Duplicate, SkipDedup, ClaimRaises, OutcomeInv, QueueInv
<1>3. CASE Transact(q)
  <2>1. pc'[q] \in {"provider", "persist", "commit", "release"} \/ outcome'[q] = "applied"
    BY <1>3 DEF Transact, LoadLocked, ShipmentMissing, ProviderAccepts, ProviderRaises,
                ApplyUpdate, RejectMove, UpdateFails, Commit, RaiseAfterUpdate, RollBack
  <2> QED BY <2>1
<1>4. CASE Release(q) \/ ReleaseFails(q)
  BY <1>4 DEF Release, ReleaseFails, AfterRelease, OutcomeInv, Failure
<1>5. CASE ReleaseRaises(q)
  BY <1>5 DEF ReleaseRaises
<1>6. CASE StoreFailedCallback(q)
  BY <1>6 DEF StoreFailedCallback
<1>7. ~StoreFails(q)
  BY DEF StoreFails
<1>8. CASE Respond(q)
  BY <1>8 DEF Respond
<1>9. CASE Crash(q)
  BY <1>9 DEF Crash
<1>10. CASE Cleanup \/ UNCHANGED vars \/ \E k \in Key : Age(k)
  BY <1>10 DEF Cleanup, vars, Age
<1> QED BY <1>1, <1>2, <1>3, <1>4, <1>5, <1>6, <1>7, <1>8, <1>9, <1>10
           DEF Next, Handle, Finish

\* What a step adds to the claims and to the duplicates: a claim belongs to
\* the handler that just inserted it, a duplicate met an existing claim.
LEMMA OriginalStep ==
    ASSUME "store_error" \notin Faults,
           TypeOK, TypeOK', OutcomeInv, QueueInv, OriginalInv, [Next]_vars
    PROVE  OriginalInv'
<1>1. \A q \in Request : LeftATrace(q) => LeftATrace(q)'
  BY TraceStays
<1>2. ASSUME NEW k \in Key, claim'[k] # None PROVE LeftATrace(claim[k])'
  <2>1. CASE claim'[k] = claim[k]
    BY <1>1, <1>2, <2>1 DEF OriginalInv, TypeOK
  <2>2. CASE \E r \in Request : Claim(r) /\ KeyOf(r) = k
    BY <2>2 DEF Claim, LeftATrace, TypeOK
  <2>3. ASSUME NEW r \in Request, Handle(r), ~(Claim(r) /\ KeyOf(r) = k)
        PROVE  claim'[k] = claim[k]
    <3>1. CASE Arrive(r)
      BY <2>3, <3>1 DEF Arrive, Refuse, Claim, Duplicate, SkipDedup, ClaimRaises, TypeOK
    <3>2. CASE Transact(r)
      BY <3>2 DEF Transact, LoadLocked, ShipmentMissing, ProviderAccepts, ProviderRaises,
                  ApplyUpdate, RejectMove, UpdateFails, Commit, RaiseAfterUpdate, RollBack
    <3>3. CASE Finish(r)
      BY <1>2, <3>3 DEF Finish, Release, ReleaseFails, ReleaseRaises, StoreFailedCallback,
                        StoreFails, Respond, TypeOK
    <3> QED BY <2>3, <3>1, <3>2, <3>3 DEF Handle
  <2>4. ASSUME UNCHANGED vars \/ (\E r \in Request : Crash(r)) \/ (\E j \in Key : Age(j)) \/ Cleanup
        PROVE  claim'[k] = claim[k]
    BY <1>2, <2>4 DEF vars, Crash, Age, Cleanup
  <2> QED BY <2>1, <2>2, <2>3, <2>4 DEF Next
<1>3. ASSUME NEW r \in Request, outcome'[r] = "duplicate"
      PROVE  \E q \in Request : q # r /\ KeyOf(q) = KeyOf(r) /\ LeftATrace(q)'
  <2>1. CASE outcome[r] = "duplicate"
    BY <1>1, <2>1 DEF OriginalInv, DuplicateHasOriginal
  <2>2. CASE Duplicate(r)
    <3> DEFINE q == claim[KeyOf(r)]
    <3>1. q \in Request /\ KeyOf(q) = KeyOf(r) /\ LeftATrace(q)
      BY <2>2, KeyOfRequest DEF Duplicate, ClaimIsFree, OriginalInv, TypeOK
    <3>2. q # r
      BY <2>2, <3>1 DEF Duplicate, LeftATrace, OutcomeInv, QueueInv
    <3> QED BY <1>1, <3>1, <3>2
  <2>3. ASSUME outcome[r] # "duplicate" PROVE Duplicate(r)
    <3>1. ASSUME NEW q \in Request, Handle(q), ~Duplicate(q) PROVE outcome'[r] # "duplicate"
      BY <2>3, <3>1 DEF Handle, Arrive, Refuse, Claim, SkipDedup, ClaimRaises, Transact,
                LoadLocked, ShipmentMissing, ProviderAccepts, ProviderRaises, ApplyUpdate,
                RejectMove, UpdateFails, Commit, RaiseAfterUpdate, RollBack, Failure, Finish, Release, ReleaseFails,
                ReleaseRaises, StoreFailedCallback, StoreFails, Respond, TypeOK
    <3>2. ASSUME NEW q \in Request, q # r, Duplicate(q) PROVE outcome'[r] = outcome[r]
      BY <3>2 DEF Duplicate, TypeOK
    <3>3. ASSUME UNCHANGED vars \/ (\E q \in Request : Crash(q)) \/ (\E j \in Key : Age(j)) \/ Cleanup
          PROVE  outcome'[r] = outcome[r]
      BY <3>3 DEF vars, Crash, Age, Cleanup
    <3> QED BY <1>3, <2>3, <3>1, <3>2, <3>3 DEF Next
  <2> QED BY <2>1, <2>2, <2>3
<1> QED BY <1>2, <1>3 DEF OriginalInv, DuplicateHasOriginal, LeftATrace, KeyOf

\* No payload is swallowed, whatever else fails and even if claims are skipped
\* or lost, unless the retry row cannot be written: behind every duplicate
\* stands a delivery of the same payload that left a trace.
THEOREM DuplicatesHaveOriginals ==
    ASSUME "store_error" \notin Faults
    PROVE  Spec => []DuplicateHasOriginal
<1>1. Init => OutcomeInv /\ QueueInv /\ OriginalInv
  BY DEF Init, OutcomeInv, QueueInv, OriginalInv, DuplicateHasOriginal
<1>2. TypeOK /\ OutcomeInv /\ QueueInv /\ [Next]_vars => QueueInv'
  BY QueueStep DEF Next, Age, Cleanup, vars, QueueInv
<1>3. TypeOK /\ TypeOK' /\ OutcomeInv /\ QueueInv /\ OriginalInv /\ [Next]_vars => OriginalInv'
  BY OriginalStep
<1>4. OriginalInv => DuplicateHasOriginal
  BY DEF OriginalInv
<1> QED BY <1>1, <1>2, <1>3, <1>4, OutcomeInvStep, TypeCorrect, PTL DEF Spec

-----------------------------------------------------------------------------
(* Refinement of OnceOnlyCallbacks.                                        *)

\* No step but a commit changes what an observer of the shipments sees.
LEMMA ShownStays ==
    ASSUME TypeOK, LockInv, [Next]_vars, \A r \in Request : ~Commit(r)
    PROVE  UNCHANGED Shown
BY RowsChangeByCommit DEF Shown

\* A step that gives r a failing outcome, or the answer "duplicate" or
\* "refused", declines r in the abstraction.
LEMMA StepDeclines ==
    ASSUME TypeOK, NEW r \in Request, outcome[r] = "none",
           NEW o \in Outcome \ {"none", "applied"},
           outcome' = [outcome EXCEPT ![r] = o],
           UNCHANGED <<Shown, claim>>
    PROVE  OnceOnly!Decline(r)
<1>1. [q \in Request |-> Verdict(q)]' = [[q \in Request |-> Verdict(q)] EXCEPT ![r] = "declined"]
  BY DEF Verdict, TypeOK
<1>2. Remembered' = Remembered
  BY DEF Remembered, TypeOK
<1>3. [q \in Request |-> Verdict(q)][r] = "none"
  BY DEF Verdict
<1> QED BY <1>1, <1>2, <1>3 DEF OnceOnly!Decline, Shown

\* Each step of a handler is a step of the abstraction or changes nothing
\* there: the commit applies the payload, a failure declines it.
LEMMA HandlerRefines ==
    ASSUME Faults \cap {"dedup_error", "slow"} = {},
           TypeOK, LockInv, OutcomeInv, ClaimInv,
           NEW r \in Request, Handle(r) \/ Crash(r)
    PROVE  OnceOnly!Apply(r) \/ OnceOnly!Decline(r) \/ UNCHANGED OnceOnly!vars
<1> DEFINE verdict == [q \in Request |-> Verdict(q)]
<1>0. [Next]_vars /\ (~Commit(r) => UNCHANGED Shown)
  <2>1. Next
    BY DEF Next
  <2>2. \A q \in Request : q # r => pc'[q] = pc[q]
    BY DEF Commit, Handle, Arrive, Refuse, Claim, Duplicate, SkipDedup, ClaimRaises, Transact,
           LoadLocked, ShipmentMissing, ProviderAccepts, ProviderRaises, ApplyUpdate, RejectMove,
           UpdateFails, RaiseAfterUpdate, RollBack, Finish, Release, ReleaseFails, ReleaseRaises,
           StoreFailedCallback, StoreFails, Respond, Crash, TypeOK
  <2>3. \A q \in Request : Commit(q) => q = r
    BY <2>2 DEF Commit, TypeOK
  <2> QED BY <2>1, <2>3, ShownStays
<1>1. CASE Refuse(r) \/ Duplicate(r) \/ ClaimRaises(r) \/ ShipmentMissing(r)
           \/ RejectMove(r) \/ UpdateFails(r) \/ ProviderRaises(r) \/ RaiseAfterUpdate(r)
  <2>1. outcome[r] = "none" /\ claim' = claim /\ ~Commit(r)
    BY <1>1 DEF Refuse, Duplicate, ClaimRaises, ShipmentMissing, RejectMove, UpdateFails,
                ProviderRaises, RaiseAfterUpdate, RollBack, OutcomeInv, Commit, TypeOK
  <2>2. \E o \in Failure \cup {"refused", "duplicate"} : outcome' = [outcome EXCEPT ![r] = o]
    BY <1>1 DEF Refuse, Duplicate, ClaimRaises, ShipmentMissing, RejectMove, UpdateFails,
                ProviderRaises, RaiseAfterUpdate, RollBack, Failure
  <2>3. Failure \cup {"refused", "duplicate"} \subseteq Outcome \ {"none", "applied"}
    BY DEF Outcome, Failure
  <2> QED BY <1>0, <2>1, <2>2, <2>3, StepDeclines
<1>2. CASE Commit(r)
  <2>1. /\ outcome[r] = "none" /\ claim[KeyOf(r)] = r
        /\ ShipmentOf[r] \in Stored /\ lock[ShipmentOf[r]] = r
        /\ KeyOf(r) \in Key
    BY <1>2, KeyOfRequest DEF Commit, OutcomeInv, ClaimInv, LockInv, InTransaction, Undecided
  <2>2. verdict[r] = "none" /\ verdict' = [verdict EXCEPT ![r] = "applied"]
    BY <1>2, <2>1 DEF Commit, Verdict, TypeOK
  <2>3. KeyOf(r) \notin Remembered
    BY <2>1 DEF Remembered
  <2>4. Remembered' = Remembered \cup {KeyOf(r)}
    BY <1>2, <2>1, ConstantsAssumption DEF Commit, Remembered, TypeOK
  <2>5. <<Shown[ShipmentOf[r]], StatusOf[PayloadOf[r]]>> \in Edge
    BY <1>2, <2>1, ConstantsAssumption DEF Shown, Committed, Commit, LockInv, InTransaction, LegalMove
  <2>6. Shown' = [Shown EXCEPT ![ShipmentOf[r]] = StatusOf[PayloadOf[r]]]
    <3>1. Committed(ShipmentOf[r])' = UpdateOf(r)
      BY <1>2, <2>1 DEF Committed, Commit, EndTransaction, LockInv, InTransaction, TypeOK
    <3>2. ASSUME NEW s \in Stored, s # ShipmentOf[r] PROVE Committed(s)' = Committed(s)
      BY <1>2, <3>2, ConstantsAssumption DEF Committed, Commit, EndTransaction, TypeOK
    <3>3. ASSUME NEW s \in Stored
          PROVE  Shown'[s] = [Shown EXCEPT ![ShipmentOf[r]] = StatusOf[PayloadOf[r]]][s]
      <4>1. CASE s = ShipmentOf[r]
        BY <3>1, <4>1 DEF Shown, UpdateOf
      <4>2. CASE s # ShipmentOf[r]
        BY <3>2, <4>2 DEF Shown
      <4> QED BY <4>1, <4>2
    <3> QED BY <3>3 DEF Shown
  <2> QED BY <2>1, <2>2, <2>3, <2>4, <2>5, <2>6 DEF OnceOnly!Apply, OnceOnly!Key, KeyOf
<1>3. CASE Release(r)
  <2>1. claim[KeyOf(r)] = r /\ outcome[r] # "applied" /\ ~Commit(r)
    BY <1>3 DEF Release, ClaimInv, Undecided, OutcomeInv, Failure, Commit
  <2>2. Remembered' = Remembered
    BY <1>3, <2>1 DEF Release, Remembered, TypeOK
  <2>3. verdict' = verdict
    BY <1>3 DEF Release, Verdict
  <2> QED BY <1>0, <2>1, <2>2, <2>3 DEF OnceOnly!vars
<1>4. CASE Claim(r)
  <2>1. outcome[r] = "none" /\ KeyOf(r) \in Key /\ claim[KeyOf(r)] = None /\ ~Commit(r)
    BY <1>4, KeyOfRequest DEF Claim, ClaimIsFree, OutcomeInv, Commit
  <2>2. Remembered' = Remembered
    BY <1>4, <2>1 DEF Claim, Remembered, TypeOK
  <2>3. verdict' = verdict
    BY <1>4 DEF Claim, Verdict
  <2> QED BY <1>0, <2>1, <2>2, <2>3 DEF OnceOnly!vars
<1>5. CASE ReleaseRaises(r)
  <2>1. /\ outcome[r] \in Failure /\ outcome' = [outcome EXCEPT ![r] = "unexpected"]
        /\ ~Commit(r)
    BY <1>5 DEF ReleaseRaises, OutcomeInv, Commit
  <2>2. Remembered' = Remembered
    BY <1>5, <2>1 DEF ReleaseRaises, Remembered, TypeOK, Failure
  <2>3. verdict' = verdict
    BY <2>1 DEF Verdict, Failure, TypeOK
  <2> QED BY <1>0, <2>1, <2>2, <2>3 DEF OnceOnly!vars
<1>6. CASE LoadLocked(r) \/ ProviderAccepts(r) \/ ApplyUpdate(r) \/ ReleaseFails(r)
           \/ StoreFailedCallback(r) \/ StoreFails(r) \/ Respond(r) \/ Crash(r)
  <2>1. UNCHANGED <<claim, outcome>>
    BY <1>6 DEF LoadLocked, ProviderAccepts, ApplyUpdate, ReleaseFails, StoreFailedCallback,
                StoreFails, Respond, Crash
  <2>2. ~Commit(r)
    BY <1>6 DEF LoadLocked, ProviderAccepts, ApplyUpdate, ReleaseFails, StoreFailedCallback,
                StoreFails, Respond, Crash, Commit, TypeOK
  <2>3. Remembered' = Remembered /\ verdict' = verdict
    BY <2>1 DEF Remembered, Verdict
  <2> QED BY <1>0, <2>2, <2>3 DEF OnceOnly!vars
<1>7. ~SkipDedup(r)
  BY DEF SkipDedup
<1> QED BY <1>1, <1>2, <1>3, <1>4, <1>5, <1>6, <1>7 DEF Handle, Arrive, Transact, Finish

\* If dedup is never skipped and no handler outlives the window, the webhook
\* endpoint processes every payload at most once per window and along legal
\* moves, for any number of deliveries, and whatever else fails.
THEOREM PipelineImplementsOnceOnly ==
    ASSUME Faults \cap {"dedup_error", "slow"} = {}
    PROVE  Spec => ImplementsOnceOnly
<1>1. Init => OnceOnly!Init
  BY DEF Init, OnceOnly!Init, Verdict, Remembered, Shown, Committed
<1>2. TypeOK /\ LockInv /\ OutcomeInv /\ ClaimInv /\ [Next]_vars => [OnceOnly!Next]_(OnceOnly!vars)
  <2> SUFFICES ASSUME TypeOK, LockInv, OutcomeInv, ClaimInv, [Next]_vars
               PROVE  OnceOnly!Next \/ UNCHANGED OnceOnly!vars
    OBVIOUS
  <2>1. ASSUME NEW r \in Request, Handle(r) \/ Crash(r)
        PROVE  OnceOnly!Next \/ UNCHANGED OnceOnly!vars
    BY <2>1, HandlerRefines DEF OnceOnly!Next
  <2>2. ASSUME NEW k \in Key, Age(k) PROVE UNCHANGED OnceOnly!vars
    BY <2>2 DEF Age, Remembered, Verdict, Shown, Committed, OnceOnly!vars
  <2>3. CASE Cleanup
    <3> DEFINE K == Remembered \cap aged
    <3>1. K \in SUBSET Remembered
      OBVIOUS
    <3>2. Remembered' = Remembered \ K
      BY <2>3 DEF Cleanup, DeletedByCleanup, Remembered
    <3>3. OnceOnly!Forget(K)
      BY <2>3, <3>2 DEF Cleanup, OnceOnly!Forget, Verdict, Shown, Committed
    <3> QED BY <3>1, <3>3 DEF OnceOnly!Next
  <2>4. CASE UNCHANGED vars
    BY <2>4 DEF vars, Remembered, Verdict, Shown, Committed, OnceOnly!vars
  <2> QED BY <2>1, <2>2, <2>3, <2>4 DEF Next
<1> QED BY <1>1, <1>2, TypeCorrect, LockCorrect, ClaimCorrect, PTL
           DEF Spec, ImplementsOnceOnly, OnceOnly!Spec
-----------------------------------------------------------------------------
(* Progress, as far as it is a matter of single steps.                     *)

\* Steps a handler may still take.
StepsLeft(r) ==
    CASE pc[r] = "new" -> 8
      [] pc[r] = "lock" -> 7
      [] pc[r] = "provider" -> 6
      [] pc[r] = "persist" -> 5
      [] pc[r] = "commit" -> 4
      [] pc[r] = "release" -> 3
      [] pc[r] = "store" -> 2
      [] pc[r] = "respond" -> 1
      [] OTHER -> 0

\* A handler that has to wait: its row is locked.
Waits(r) == pc[r] = "lock" /\ ShipmentOf[r] \in Stored /\ lock[ShipmentOf[r]] # None

\* A step of a handler brings it nearer to its answer, and no step of anybody
\* else throws it back.
HandlersAdvance ==
    [][\A r \in Request : /\ StepsLeft(r)' <= StepsLeft(r)
                          /\ Handle(r) => StepsLeft(r)' < StepsLeft(r)]_vars

\* A handler waits only for one that does not wait itself.
NobodyWaitsForAWaiter ==
    \A r \in Request : Waits(r) =>
        lock[ShipmentOf[r]] \in Request /\ ~Waits(lock[ShipmentOf[r]])

\* The two facts behind RequestAnswered that single steps show: whatever goes
\* wrong, a handler takes at most eight steps, and nobody waits in a circle.
THEOREM HandlersDoAdvance == Spec => HandlersAdvance /\ []NobodyWaitsForAWaiter
<1> DEFINE Advance == \A r \in Request : /\ StepsLeft(r)' <= StepsLeft(r)
                                         /\ Handle(r) => StepsLeft(r)' < StepsLeft(r)
<1>1. ASSUME TypeOK, NEW r \in Request, Handle(r)
      PROVE  StepsLeft(r)' < StepsLeft(r) /\ \A q \in Request : q # r => pc'[q] = pc[q]
  <2> USE DEF TypeOK, StepsLeft
  <2>1. CASE Arrive(r)
    BY <1>1, <2>1 DEF Arrive, Refuse, Claim, Duplicate, SkipDedup, ClaimRaises
  <2>2. CASE Transact(r)
    BY <1>1, <2>2 DEF Transact, LoadLocked, ShipmentMissing, ProviderAccepts, ProviderRaises,
                ApplyUpdate, RejectMove, UpdateFails, Commit, RaiseAfterUpdate, RollBack
  <2>3. CASE Finish(r)
    BY <1>1, <2>3 DEF Finish, Release, ReleaseFails, ReleaseRaises, StoreFailedCallback, StoreFails,
                Respond, AfterRelease
  <2> QED BY <1>1, <2>1, <2>2, <2>3 DEF Handle
<1>2. TypeOK /\ [Next]_vars => [Advance]_vars
  <2> SUFFICES ASSUME TypeOK, Next, NEW r \in Request
               PROVE  StepsLeft(r)' <= StepsLeft(r) /\ (Handle(r) => StepsLeft(r)' < StepsLeft(r))
    OBVIOUS
  <2>1. StepsLeft(r) \in 0 .. 8
    BY DEF StepsLeft
  <2>2. CASE Handle(r)
    BY <1>1, <2>1, <2>2 DEF StepsLeft
  <2>3. CASE ~Handle(r)
    <3>1. CASE \E q \in Request : Handle(q)
      BY <1>1, <2>1, <2>3, <3>1 DEF StepsLeft
    <3>2. CASE \E q \in Request : Crash(q)
      BY <2>1, <2>3, <3>2 DEF Crash, TypeOK, StepsLeft
    <3>3. CASE Cleanup \/ \E k \in Key : Age(k)
      BY <2>1, <2>3, <3>3 DEF Cleanup, Age, StepsLeft
    <3> QED BY <3>1, <3>2, <3>3 DEF Next
  <2> QED BY <2>2, <2>3
<1>3. TypeOK => NobodyWaitsForAWaiter
  BY DEF TypeOK, NobodyWaitsForAWaiter, Waits, InTransaction
<1>4. Spec => [][Advance]_vars /\ []NobodyWaitsForAWaiter
  BY <1>2, <1>3, TypeCorrect, PTL DEF Spec
<1> QED BY <1>4 DEF HandlersAdvance
=============================================================================
