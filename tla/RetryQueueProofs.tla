-------------------------- MODULE RetryQueueProofs --------------------------
(***************************************************************************)
(* Theorems about RetryQueue, for any number of rows, any set of runs that *)
(* overlap, and any max_attempts and limit.                                *)
(***************************************************************************)
EXTENDS RetryQueue, TLAPS, FiniteSetTheorems, WellFoundedInduction

USE ConstantsAssumption

\* If anything is due, something is fetched: the oldest due row has no older
\* one before it, and Limit is at least one.
LEMMA OldestNonempty ==
    ASSUME NEW S \in SUBSET Row, S # {} PROVE Oldest(S) # {}
<1> DEFINE LT == OpToRel(<, Nat)
<1>1. PICK n \in S : \A m \in S : ~(<<m, n>> \in LT)
  <2>1. IsWellFoundedOn(LT, Nat)
    BY NatLessThanWellFounded
  <2>2. S \subseteq Nat
    BY DEF Row
  <2> HIDE DEF LT
  <2> QED BY <2>1, <2>2, WFMin
<1>2. ASSUME NEW m \in S, m < n PROVE FALSE
  <2>1. m \in Nat /\ n \in Nat
    BY DEF Row
  <2>2. <<m, n>> \in {ss \in Nat \X Nat : ss[1] < ss[2]}
    BY <1>2, <2>1
  <2>3. <<m, n>> \in LT
    BY <2>2 DEF OpToRel
  <2> QED BY <1>1, <2>3
<1>3. {m \in S : m < n} = {}
  BY <1>2
<1>4. Cardinality({m \in S : m < n}) = 0
  BY <1>3, FS_EmptySet
<1> QED BY <1>4 DEF Oldest

\* The end of the loop body keeps the loop variables typed.
LEMMA NextRowType ==
    ASSUME TypeOK, NEW p \in Processor, NEW n \in Row, NextRow(p, n), n \in todo[p]
    PROVE  /\ pc' \in [Processor -> PC]
           /\ todo' \in [Processor -> SUBSET Row]
           /\ \A q \in Processor : todo'[q] \subseteq todo[q]
           /\ \A q \in Processor : pc'[q] = "idle" <=> todo'[q] = {}
BY DEF TypeOK, NextRow, PC

\* The type invariant: a run is idle exactly when its snapshot is used up.
THEOREM TypeCorrect == Spec => []TypeOK
<1>1. Init => TypeOK
  BY DEF Init, TypeOK, Status, PC
<1>2. TypeOK /\ [Next]_vars => TypeOK'
  <2> SUFFICES ASSUME TypeOK, [Next]_vars PROVE TypeOK'
    OBVIOUS
  <2> USE DEF TypeOK, Status, PC
  <2>1. ASSUME NEW n \in Row, Store(n) \/ BecomeDue(n) PROVE TypeOK'
    <3>1. CASE Store(n)
      BY <3>1 DEF Store
    <3>2. CASE BecomeDue(n)
      BY <3>2 DEF BecomeDue
    <3> QED BY <2>1, <3>1, <3>2
  <2>2. ASSUME NEW p \in Processor, Fetch(p) PROVE TypeOK'
    <3>1. DueRows \in SUBSET Row /\ \A n \in DueRows : status[n] = "pending"
      BY DEF DueRows
    <3>2. Oldest(DueRows) \subseteq DueRows /\ Oldest(DueRows) # {}
      BY <2>2, <3>1, OldestNonempty DEF Fetch, Oldest
    <3> QED BY <2>2, <3>1, <3>2 DEF Fetch
  <2>3. ASSUME NEW p \in Processor, NEW n \in Row, Replay(p, n) PROVE TypeOK'
    <3>1. CASE GiveUp(p, n)
      <4>1. n \in todo[p] /\ NextRow(p, n)
        BY <3>1 DEF GiveUp, IsCurrent
      <4> HIDE DEF TypeOK
      <4>2. /\ pc' \in [Processor -> PC]
            /\ todo' \in [Processor -> SUBSET Row]
            /\ \A q \in Processor : todo'[q] \subseteq todo[q]
            /\ \A q \in Processor : pc'[q] = "idle" <=> todo'[q] = {}
        BY <4>1, NextRowType
      <4> QED BY <3>1, <4>2 DEF GiveUp, TypeOK
    <3>2. CASE ReplaySucceeds(p, n)
      BY <3>2 DEF ReplaySucceeds, MayReplay, IsCurrent
    <3>3. CASE ReplayFails(p, n)
      BY <3>3 DEF ReplayFails, MayReplay, IsCurrent, RaisedInReplay
    <3> QED BY <2>3, <3>1, <3>2, <3>3 DEF Replay
  <2>4. ASSUME NEW p \in Processor, NEW n \in Row, Record(p, n) PROVE TypeOK'
    <3>1. CASE MarkSucceeded(p, n) \/ MarkExhausted(p, n)
      <4>1. n \in todo[p] /\ NextRow(p, n)
        BY <3>1 DEF MarkSucceeded, MarkExhausted, IsCurrent
      <4> HIDE DEF TypeOK
      <4>2. /\ pc' \in [Processor -> PC]
            /\ todo' \in [Processor -> SUBSET Row]
            /\ \A q \in Processor : todo'[q] \subseteq todo[q]
            /\ \A q \in Processor : pc'[q] = "idle" <=> todo'[q] = {}
        BY <4>1, NextRowType
      <4> QED BY <3>1, <4>2 DEF MarkSucceeded, MarkExhausted, TypeOK
    <3>2. CASE MarkSucceededFails(p, n)
      BY <3>2 DEF MarkSucceededFails, IsCurrent
    <3>3. CASE MarkFailedGet(p, n)
      BY <3>3 DEF MarkFailedGet, IsCurrent
    <3>4. CASE MarkFailedSave(p, n) /\ LastAttempt(snap[p][n])
      <4>1. /\ pc' = [pc EXCEPT ![p] = "exhaust"] /\ UNCHANGED <<todo, status>>
            /\ pc[p] = "save" /\ n \in todo[p]
        BY <3>4 DEF MarkFailedSave, IsCurrent
      <4>2. attempts' \in [Row -> Nat] /\ failures' \in [Row -> Nat] /\ due' \in [Row -> BOOLEAN]
        BY <3>4 DEF MarkFailedSave, Incremented
      <4> QED BY <3>4, <4>1, <4>2 DEF MarkFailedSave
    <3>5. CASE MarkFailedSave(p, n) /\ ~LastAttempt(snap[p][n])
      <4>1. n \in todo[p] /\ NextRow(p, n)
        BY <3>5 DEF MarkFailedSave, IsCurrent
      <4> HIDE DEF TypeOK
      <4>2. /\ pc' \in [Processor -> PC]
            /\ todo' \in [Processor -> SUBSET Row]
            /\ \A q \in Processor : todo'[q] \subseteq todo[q]
            /\ \A q \in Processor : pc'[q] = "idle" <=> todo'[q] = {}
        BY <4>1, NextRowType
      <4> QED BY <3>5, <4>2 DEF MarkFailedSave, Incremented, TypeOK
    <3> QED BY <2>4, <3>1, <3>2, <3>3, <3>4, <3>5 DEF Record
  <2>5. ASSUME NEW p \in Processor, Abort(p) PROVE TypeOK'
    BY <2>5 DEF Abort
  <2>6. CASE UNCHANGED vars
    BY <2>6 DEF vars
  <2> QED BY <2>1, <2>2, <2>3, <2>4, <2>5, <2>6 DEF Next, ProcessDueRetries
<1> QED BY <1>1, <1>2, PTL DEF Spec

-----------------------------------------------------------------------------
(* Marks of runs that overlap.                                             *)

\* A run about to mark its row as succeeded has replayed it with success.
AppliedInv ==
    /\ SucceededWasApplied
    /\ \A p \in Processor, n \in Row :
           pc[p] = "mark_ok" /\ IsCurrent(p, n) => n \in applied

\* Every number a run can write into the attempts column, or compare with
\* MaxAttempts, is at most the number of failures recorded so far: a lost
\* increment makes it smaller and a stale snapshot keeps it small.
CountInv ==
    /\ NotGivenUpEarly
    /\ \A n \in Row : attempts[n] <= failures[n]
    /\ \A p \in Processor, n \in Row : snap[p][n] <= failures[n]
    /\ \A p \in Processor, n \in Row :
           pc[p] = "save" /\ IsCurrent(p, n) => held[p] <= failures[n]
    /\ \A p \in Processor, n \in Row :
           pc[p] = "exhaust" /\ IsCurrent(p, n) => failures[n] >= MaxAttempts

\* The row a run is at is unique.
LEMMA CurrentUnique ==
    ASSUME NEW p \in Processor, NEW m \in Row, NEW n \in Row, IsCurrent(p, m), IsCurrent(p, n)
    PROVE  m = n
BY DEF IsCurrent, Row

\* Every step keeps AppliedInv.
LEMMA AppliedInvStep == ASSUME TypeOK, AppliedInv, [Next]_vars PROVE AppliedInv'
<1> USE DEF AppliedInv, SucceededWasApplied
<1>1. ASSUME NEW n \in Row, Store(n) \/ BecomeDue(n) PROVE AppliedInv'
  BY <1>1 DEF Store, BecomeDue, TypeOK, IsCurrent
<1>2. ASSUME NEW p \in Processor, Fetch(p) PROVE AppliedInv'
  BY <1>2 DEF Fetch, TypeOK, IsCurrent
<1>3. ASSUME NEW p \in Processor, NEW n \in Row, Replay(p, n) \/ Record(p, n) PROVE AppliedInv'
  <2>1. /\ \A q \in Processor : q # p => pc'[q] = pc[q] /\ todo'[q] = todo[q]
        /\ applied \subseteq applied'
        /\ \A m \in Row : status'[m] = "succeeded" => m \in applied
    <3>1. CASE MarkSucceeded(p, n)
      BY <3>1 DEF MarkSucceeded, NextRow, TypeOK
    <3>2. CASE GiveUp(p, n) \/ MarkExhausted(p, n)
      BY <3>2 DEF GiveUp, MarkExhausted, NextRow, TypeOK
    <3>3. CASE ReplaySucceeds(p, n) \/ ReplayFails(p, n) \/ MarkSucceededFails(p, n)
               \/ MarkFailedGet(p, n) \/ MarkFailedSave(p, n)
      BY <3>3 DEF ReplaySucceeds, ReplayFails, MarkSucceededFails, MarkFailedGet, MarkFailedSave,
                  NextRow, TypeOK
    <3> QED BY <1>3, <3>1, <3>2, <3>3 DEF Replay, Record
  <2>2. ASSUME NEW m \in Row, pc'[p] = "mark_ok", IsCurrent(p, m)'
        PROVE  m \in applied'
    <3>1. ReplaySucceeds(p, n)
      BY <1>3, <2>2 DEF Replay, Record, GiveUp, ReplayFails, MarkSucceeded, MarkSucceededFails,
                        MarkFailedGet, MarkFailedSave, MarkExhausted, NextRow, RaisedInReplay, TypeOK
    <3>2. IsCurrent(p, m) /\ IsCurrent(p, n)
      BY <2>2, <3>1 DEF ReplaySucceeds, MayReplay, IsCurrent
    <3> QED BY <3>1, <3>2, CurrentUnique DEF ReplaySucceeds
  <2> QED BY <2>1, <2>2 DEF IsCurrent
<1>4. ASSUME NEW p \in Processor, Abort(p) PROVE AppliedInv'
  BY <1>4 DEF Abort, TypeOK, IsCurrent
<1>5. CASE UNCHANGED vars
  BY <1>5 DEF vars, IsCurrent
<1> QED BY <1>1, <1>2, <1>3, <1>4, <1>5 DEF Next, ProcessDueRetries

\* A row reported as succeeded has been replayed with success, for any number
\* of runs that overlap and wherever they are cut short.
THEOREM SuccessIsReal == Spec => []SucceededWasApplied
<1>1. Init => AppliedInv
  BY DEF Init, AppliedInv, SucceededWasApplied
<1>2. AppliedInv => SucceededWasApplied
  BY DEF AppliedInv
<1> QED BY <1>1, <1>2, AppliedInvStep, TypeCorrect, PTL DEF Spec

\* Every step keeps CountInv.
LEMMA CountInvStep == ASSUME TypeOK, CountInv, [Next]_vars PROVE CountInv'
<1> USE DEF CountInv, NotGivenUpEarly
<1>1. ASSUME NEW n \in Row, Store(n) \/ BecomeDue(n) PROVE CountInv'
  BY <1>1 DEF Store, BecomeDue, TypeOK, IsCurrent
<1>2. ASSUME NEW p \in Processor, Fetch(p) PROVE CountInv'
  BY <1>2 DEF Fetch, TypeOK, IsCurrent
<1>3. ASSUME NEW p \in Processor, NEW n \in Row, Replay(p, n) PROVE CountInv'
  <2>1. CASE GiveUp(p, n)
    <3>1. failures[n] >= MaxAttempts
      BY <2>1 DEF GiveUp, TypeOK
    <3>2. pc'[p] \notin {"save", "exhaust"}
      BY <2>1 DEF GiveUp, NextRow, TypeOK
    <3> QED BY <2>1, <3>1, <3>2 DEF GiveUp, NextRow, IsCurrent, TypeOK
  <2>2. CASE ReplaySucceeds(p, n) \/ ReplayFails(p, n)
    BY <2>2 DEF ReplaySucceeds, ReplayFails, RaisedInReplay, IsCurrent, TypeOK
  <2> QED BY <1>3, <2>1, <2>2 DEF Replay
<1>4. ASSUME NEW p \in Processor, NEW n \in Row, Record(p, n) PROVE CountInv'
  <2>1. CASE MarkSucceeded(p, n)
    <3>1. pc'[p] \notin {"save", "exhaust"}
      BY <2>1 DEF MarkSucceeded, NextRow, TypeOK
    <3> QED BY <2>1, <3>1 DEF MarkSucceeded, NextRow, IsCurrent, TypeOK
  <2>2. CASE MarkSucceededFails(p, n)
    BY <2>2 DEF MarkSucceededFails, IsCurrent, TypeOK
  <2>3. CASE MarkFailedGet(p, n)
    <3>1. ASSUME NEW m \in Row, IsCurrent(p, m)' PROVE held'[p] <= failures'[m]
      <4>1. m = n
        BY <2>3, <3>1, CurrentUnique DEF MarkFailedGet, IsCurrent
      <4> QED BY <2>3, <4>1 DEF MarkFailedGet, TypeOK
    <3>2. pc'[p] = "save" /\ \A q \in Processor : q # p => pc'[q] = pc[q] /\ held'[q] = held[q]
      BY <2>3 DEF MarkFailedGet, TypeOK
    <3> QED BY <2>3, <3>1, <3>2 DEF MarkFailedGet, IsCurrent, TypeOK
  <2>4. CASE MarkFailedSave(p, n)
    <3>1. /\ failures'[n] = failures[n] + 1 /\ attempts'[n] = held[p] + 1 /\ held[p] <= failures[n]
          /\ \A m \in Row : m # n => failures'[m] = failures[m] /\ attempts'[m] = attempts[m]
          /\ \A m \in Row : failures'[m] >= failures[m]
          /\ failures' \in [Row -> Nat]
      BY <2>4 DEF MarkFailedSave, Incremented, TypeOK
    <3>2. UNCHANGED <<status, snap, held>>
      BY <2>4 DEF MarkFailedSave
    <3>3. /\ \A q \in Processor : q # p => pc'[q] = pc[q] /\ todo'[q] = todo[q]
          /\ pc'[p] # "save"
      BY <2>4 DEF MarkFailedSave, NextRow, TypeOK
    <3>4. ASSUME NEW m \in Row, pc'[p] = "exhaust", IsCurrent(p, m)'
          PROVE  failures'[m] >= MaxAttempts
      <4>1. LastAttempt(snap[p][n]) /\ todo' = todo /\ IsCurrent(p, n)
        BY <2>4, <3>4 DEF MarkFailedSave, NextRow, TypeOK
      <4>2. m = n
        BY <3>4, <4>1, CurrentUnique DEF IsCurrent
      <4>3. snap[p][n] <= failures[n] /\ snap[p][n] \in Nat /\ failures[n] \in Nat
        BY DEF TypeOK
      <4> QED BY <3>1, <4>1, <4>2, <4>3 DEF LastAttempt
    <3>5. \A m \in Row : status'[m] = "exhausted" => failures'[m] >= MaxAttempts
      BY <3>1, <3>2 DEF TypeOK
    <3>6. \A m \in Row : attempts'[m] <= failures'[m]
      BY <3>1 DEF TypeOK
    <3>7. \A q \in Processor, m \in Row : snap'[q][m] <= failures'[m]
      BY <3>1, <3>2 DEF TypeOK
    <3>8. \A q \in Processor, m \in Row :
              pc'[q] = "save" /\ IsCurrent(q, m)' => held'[q] <= failures'[m]
      BY <3>1, <3>2, <3>3 DEF TypeOK, IsCurrent
    <3>9. \A q \in Processor, m \in Row :
              pc'[q] = "exhaust" /\ IsCurrent(q, m)' => failures'[m] >= MaxAttempts
      BY <3>1, <3>3, <3>4 DEF TypeOK, IsCurrent
    <3> QED BY <3>5, <3>6, <3>7, <3>8, <3>9
  <2>5. CASE MarkExhausted(p, n)
    <3>1. pc'[p] \notin {"save", "exhaust"} /\ failures[n] >= MaxAttempts
      BY <2>5 DEF MarkExhausted, NextRow, TypeOK
    <3> QED BY <2>5, <3>1 DEF MarkExhausted, NextRow, IsCurrent, TypeOK
  <2> QED BY <1>4, <2>1, <2>2, <2>3, <2>4, <2>5 DEF Record
<1>5. ASSUME NEW p \in Processor, Abort(p) PROVE CountInv'
  BY <1>5 DEF Abort, TypeOK, IsCurrent
<1>6. CASE UNCHANGED vars
  BY <1>6 DEF vars, IsCurrent
<1> QED BY <1>1, <1>2, <1>3, <1>4, <1>5, <1>6 DEF Next, ProcessDueRetries

\* No row is given up before max_attempts failures of it were recorded, for
\* any number of runs that overlap.
THEOREM GivenUpInTime == Spec => []NotGivenUpEarly
<1>1. Init => CountInv
  BY DEF Init, CountInv, NotGivenUpEarly
<1>2. CountInv => NotGivenUpEarly
  BY DEF CountInv
<1> QED BY <1>1, <1>2, CountInvStep, TypeCorrect, PTL DEF Spec

-----------------------------------------------------------------------------
(* One run at a time.                                                      *)

\* No two runs overlap.
Alone == \A p, q \in Processor : p = q

\* Alone, a run works on pending rows only, and its snapshot is what the
\* table holds, except for the row it is about to give up.
SnapshotInv ==
    \A p \in Processor : \A n \in todo[p] :
        /\ status[n] = "pending"
        /\ ~(pc[p] = "exhaust" /\ IsCurrent(p, n)) => snap[p][n] = attempts[n]
        /\ pc[p] = "save" /\ IsCurrent(p, n) => held[p] = attempts[n]
        /\ pc[p] \in {"mark_ok", "get", "save"} /\ IsCurrent(p, n) => attempts[n] < MaxAttempts

\* Alone, every step keeps SnapshotInv.
LEMMA SnapshotInvStep ==
    ASSUME Alone, TypeOK, SnapshotInv, [Next]_vars PROVE SnapshotInv'
<1> USE DEF SnapshotInv
<1>1. ASSUME NEW n \in Row, Store(n) \/ BecomeDue(n) PROVE SnapshotInv'
  BY <1>1 DEF Store, BecomeDue, TypeOK, IsCurrent
<1>2. ASSUME NEW p \in Processor, Fetch(p) PROVE SnapshotInv'
  BY <1>2 DEF Fetch, Oldest, DueRows, TypeOK, Alone
<1>3. ASSUME NEW p \in Processor, NEW n \in Row, Replay(p, n) \/ Record(p, n)
      PROVE  SnapshotInv'
  <2> SUFFICES ASSUME NEW m \in todo'[p]
               PROVE  /\ status'[m] = "pending"
                      /\ ~(pc'[p] = "exhaust" /\ IsCurrent(p, m)') => snap'[p][m] = attempts'[m]
                      /\ pc'[p] = "save" /\ IsCurrent(p, m)' => held'[p] = attempts'[m]
                      /\ pc'[p] \in {"mark_ok", "get", "save"} /\ IsCurrent(p, m)'
                            => attempts'[m] < MaxAttempts
    BY DEF Alone
  <2>1. n \in todo[p] /\ IsCurrent(p, n) /\ n \in Row
    BY <1>3 DEF Replay, Record, GiveUp, ReplaySucceeds, ReplayFails, MayReplay, MarkSucceeded,
                MarkSucceededFails, MarkFailedGet, MarkFailedSave, MarkExhausted, IsCurrent
  <2>2. CASE GiveUp(p, n) \/ MarkSucceeded(p, n) \/ MarkExhausted(p, n)
             \/ (MarkFailedSave(p, n) /\ ~LastAttempt(snap[p][n]))
    <3>1. m # n /\ m \in todo[p] /\ pc'[p] \in {"idle", "next"} /\ m \in Row
      BY <2>2 DEF GiveUp, MarkSucceeded, MarkExhausted, MarkFailedSave, NextRow, TypeOK
    <3>2. ~IsCurrent(p, m)
      BY <2>1, <3>1, CurrentUnique
    <3> QED BY <2>2, <3>1, <3>2
               DEF GiveUp, MarkSucceeded, MarkExhausted, MarkFailedSave, TypeOK
  <2>3. CASE MarkFailedSave(p, n) /\ LastAttempt(snap[p][n])
    <3>1. todo' = todo /\ pc'[p] = "exhaust" /\ status' = status /\ snap' = snap
          /\ \A k \in Row : k # n => attempts'[k] = attempts[k]
      BY <2>3 DEF MarkFailedSave, TypeOK
    <3>2. m = n \/ ~IsCurrent(p, m)
      BY <2>1, <3>1, CurrentUnique DEF TypeOK
    <3>3. IsCurrent(p, n)'
      BY <2>1, <3>1 DEF IsCurrent
    <3> QED BY <3>1, <3>2, <3>3 DEF TypeOK
  <2>4. CASE ReplaySucceeds(p, n) \/ ReplayFails(p, n) \/ MarkSucceededFails(p, n)
    <3>1. todo' = todo /\ UNCHANGED <<status, snap, attempts>> /\ pc'[p] \in {"mark_ok", "get"}
          /\ pc[p] \in {"next", "mark_ok"}
      BY <2>4 DEF ReplaySucceeds, ReplayFails, MarkSucceededFails, MayReplay, RaisedInReplay, TypeOK
    <3>2. attempts[n] < MaxAttempts
      BY <2>1, <2>4 DEF ReplaySucceeds, ReplayFails, MarkSucceededFails, MayReplay
    <3>3. m = n \/ ~IsCurrent(p, m)'
      BY <2>1, <3>1, CurrentUnique DEF IsCurrent, TypeOK
    <3> QED BY <3>1, <3>2, <3>3
  <2>5. CASE MarkFailedGet(p, n)
    <3>1. todo' = todo /\ UNCHANGED <<status, snap, attempts>> /\ pc'[p] = "save" /\ pc[p] = "get"
          /\ held'[p] = attempts[n]
      BY <2>5 DEF MarkFailedGet, TypeOK
    <3>2. m = n \/ ~IsCurrent(p, m)'
      BY <2>1, <3>1, CurrentUnique DEF IsCurrent, TypeOK
    <3> QED BY <2>1, <3>1, <3>2
  <2> QED BY <1>3, <2>2, <2>3, <2>4, <2>5 DEF Replay, Record
<1>4. ASSUME NEW p \in Processor, Abort(p) PROVE SnapshotInv'
  BY <1>4 DEF Abort, TypeOK, Alone
<1>5. CASE UNCHANGED vars
  BY <1>5 DEF vars, IsCurrent
<1> QED BY <1>1, <1>2, <1>3, <1>4, <1>5 DEF Next, ProcessDueRetries

\* Alone, the snapshot is never stale.
LEMMA SnapshotCorrect == ASSUME Alone PROVE Spec => []SnapshotInv
<1>1. Init => SnapshotInv
  BY DEF Init, SnapshotInv
<1>2. TypeOK /\ SnapshotInv /\ [Next]_vars => SnapshotInv'
  BY SnapshotInvStep
<1> QED BY <1>1, <1>2, TypeCorrect, PTL DEF Spec

\* If runs never overlap, a settled row is never touched again.
THEOREM SettledStays == ASSUME Alone PROVE Spec => SettledIsFinal
<1> DEFINE Final == \A n \in Row : status[n] \in {"succeeded", "exhausted"} => status'[n] = status[n]
<1>1. TypeOK /\ SnapshotInv /\ [Next]_vars => [Final]_vars
  <2> SUFFICES ASSUME TypeOK, SnapshotInv, [Next]_vars PROVE Final
    OBVIOUS
  <2>1. ASSUME NEW p \in Processor, NEW n \in Row, Replay(p, n) \/ Record(p, n) PROVE Final
    <3>1. n \in todo[p] /\ status[n] = "pending"
      BY <2>1 DEF Replay, Record, GiveUp, ReplaySucceeds, ReplayFails, MayReplay, MarkSucceeded,
                  MarkSucceededFails, MarkFailedGet, MarkFailedSave, MarkExhausted, IsCurrent,
                  SnapshotInv
    <3>2. \A m \in Row : m # n => status'[m] = status[m]
      BY <2>1 DEF Replay, Record, GiveUp, ReplaySucceeds, ReplayFails, MarkSucceeded,
                  MarkSucceededFails, MarkFailedGet, MarkFailedSave, MarkExhausted, TypeOK
    <3> QED BY <3>1, <3>2
  <2>2. ASSUME NEW n \in Row, Store(n) \/ BecomeDue(n) PROVE Final
    BY <2>2 DEF Store, BecomeDue, TypeOK
  <2>3. ASSUME NEW p \in Processor, Fetch(p) \/ Abort(p) PROVE Final
    BY <2>3 DEF Fetch, Abort
  <2>4. CASE UNCHANGED vars
    BY <2>4 DEF vars
  <2> QED BY <2>1, <2>2, <2>3, <2>4 DEF Next, ProcessDueRetries
<1> QED BY <1>1, TypeCorrect, SnapshotCorrect, PTL DEF Spec, SettledIsFinal

\* A run has replayed the row and has not recorded the outcome yet.
InFlight(n) ==
    \E p \in Processor : pc[p] \in {"mark_ok", "get", "save"} /\ IsCurrent(p, n)

\* Alone, the attempts column counts the replays of a pending row, save one
\* in flight and those whose outcome was lost with a run.
TriesInv ==
    /\ TriesBounded
    /\ \A n \in Row : attempts[n] <= MaxAttempts
    /\ \A n \in Row : status[n] \in {"absent", "pending"} =>
           /\ tries[n] <= attempts[n] + aborts + 1
           /\ ~InFlight(n) => tries[n] <= attempts[n] + aborts

\* Alone, every step keeps TriesInv.
LEMMA TriesInvStep ==
    ASSUME Alone, TypeOK, TypeOK', SnapshotInv, TriesInv, [Next]_vars PROVE TriesInv'
<1> USE DEF TriesInv, TriesBounded
<1>1. ASSUME NEW n \in Row, Store(n) \/ BecomeDue(n) PROVE TriesInv'
  BY <1>1 DEF Store, BecomeDue, TypeOK, InFlight, IsCurrent
<1>2. ASSUME NEW p \in Processor, Fetch(p) PROVE TriesInv'
  <2>1. \A n \in Row : ~InFlight(n)
    BY <1>2 DEF Fetch, InFlight, Alone
  <2> QED BY <1>2, <2>1 DEF Fetch, TypeOK
<1>3. ASSUME NEW p \in Processor, NEW n \in Row, Replay(p, n) \/ Record(p, n)
      PROVE  TriesInv'
  <2>1. n \in todo[p] /\ IsCurrent(p, n) /\ status[n] = "pending"
    BY <1>3 DEF Replay, Record, GiveUp, ReplaySucceeds, ReplayFails, MayReplay, MarkSucceeded,
                MarkSucceededFails, MarkFailedGet, MarkFailedSave, MarkExhausted, IsCurrent,
                SnapshotInv
  <2>2. \A m \in Row : m # n => ~InFlight(m)
    BY <2>1, CurrentUnique DEF InFlight, Alone
  <2>3. tries \in [Row -> Nat] /\ attempts \in [Row -> Nat] /\ aborts \in Nat /\ MaxAttempts \in Nat
        /\ tries' \in [Row -> Nat] /\ attempts' \in [Row -> Nat]
    BY DEF TypeOK
  <2>4. CASE ReplaySucceeds(p, n) \/ ReplayFails(p, n)
    <3>1. /\ UNCHANGED <<attempts, aborts, status>>
          /\ tries' = [tries EXCEPT ![n] = @ + 1]
      BY <2>4 DEF ReplaySucceeds, ReplayFails
    <3>2. ~InFlight(n) /\ attempts[n] < MaxAttempts
      BY <2>1, <2>4 DEF ReplaySucceeds, ReplayFails, MayReplay, InFlight, Alone, SnapshotInv
    <3>3. InFlight(n)'
      <4>1. pc'[p] \in {"mark_ok", "get"} /\ IsCurrent(p, n)'
        BY <2>1, <2>4 DEF ReplaySucceeds, ReplayFails, RaisedInReplay, IsCurrent, TypeOK
      <4> QED BY <4>1 DEF InFlight
    <3>4. tries'[n] <= attempts[n] + aborts + 1
      BY <2>1, <2>3, <3>1, <3>2
    <3>5. \A m \in Row : m # n => tries'[m] = tries[m]
      BY <2>3, <3>1
    <3> QED BY <2>2, <2>3, <3>1, <3>2, <3>3, <3>4, <3>5
  <2>5. CASE GiveUp(p, n) \/ MarkSucceeded(p, n) \/ MarkExhausted(p, n)
    <3>1. /\ UNCHANGED <<attempts, aborts, tries>>
          /\ status'[n] \notin {"absent", "pending"}
          /\ \A m \in Row : m # n => status'[m] = status[m]
      BY <2>5 DEF GiveUp, MarkSucceeded, MarkExhausted, TypeOK
    <3> QED BY <2>2, <3>1
  <2>6. CASE MarkSucceededFails(p, n) \/ MarkFailedGet(p, n)
    <3>1. UNCHANGED <<attempts, aborts, tries, status>>
      BY <2>6 DEF MarkSucceededFails, MarkFailedGet
    <3>2. InFlight(n)'
      <4>1. pc'[p] \in {"get", "save"} /\ IsCurrent(p, n)'
        BY <2>1, <2>6 DEF MarkSucceededFails, MarkFailedGet, IsCurrent, TypeOK
      <4> QED BY <4>1 DEF InFlight
    <3> QED BY <2>2, <3>1, <3>2
  <2>7. CASE MarkFailedSave(p, n)
    <3>1. /\ UNCHANGED <<aborts, tries, status>>
          /\ attempts' = [attempts EXCEPT ![n] = held[p] + 1]
      BY <2>7 DEF MarkFailedSave, Incremented
    <3>2. held[p] = attempts[n] /\ attempts[n] < MaxAttempts
      BY <2>1, <2>7 DEF MarkFailedSave, SnapshotInv
    <3>3. /\ attempts'[n] = attempts[n] + 1
          /\ \A m \in Row : m # n => attempts'[m] = attempts[m]
      BY <2>3, <3>1, <3>2
    <3> QED BY <2>2, <2>3, <3>1, <3>2, <3>3
  <2> QED BY <1>3, <2>4, <2>5, <2>6, <2>7 DEF Replay, Record
<1>4. ASSUME NEW p \in Processor, Abort(p) PROVE TriesInv'
  BY <1>4 DEF Abort, TypeOK
<1>5. CASE UNCHANGED vars
  BY <1>5 DEF vars, InFlight, IsCurrent
<1> QED BY <1>1, <1>2, <1>3, <1>4, <1>5 DEF Next, ProcessDueRetries

\* If runs never overlap, a row is replayed at most max_attempts times, plus
\* the replays whose outcome was lost with a run.
THEOREM TriesAreBounded == ASSUME Alone PROVE Spec => []TriesBounded
<1>1. Init => TriesInv
  BY DEF Init, TriesInv, TriesBounded
<1>2. TypeOK /\ TypeOK' /\ SnapshotInv /\ TriesInv /\ [Next]_vars => TriesInv'
  BY TriesInvStep
<1>3. TriesInv => TriesBounded
  BY DEF TriesInv
<1> QED BY <1>1, <1>2, <1>3, TypeCorrect, SnapshotCorrect, PTL DEF Spec
-----------------------------------------------------------------------------
(* Refinement of RetryLedger.                                              *)

\* Alone, the attempts column is the number of failures, and stops in time.
CountedInv == \A n \in Row : attempts[n] = failures[n] /\ failures[n] <= MaxAttempts

\* Alone, every step keeps CountedInv: the record is saved with what the
\* table still holds plus one.
LEMMA CountedInvStep ==
    ASSUME Alone, TypeOK, SnapshotInv, CountedInv, [Next]_vars PROVE CountedInv'
<1> USE DEF CountedInv
<1>1. ASSUME NEW p \in Processor, NEW n \in Row, MarkFailedSave(p, n) PROVE CountedInv'
  <2>1. held[p] = attempts[n] /\ attempts[n] < MaxAttempts
    BY <1>1 DEF MarkFailedSave, IsCurrent, SnapshotInv
  <2> QED BY <1>1, <2>1 DEF MarkFailedSave, Incremented, TypeOK
<1>2. ASSUME NEW p \in Processor, NEW n \in Row, Replay(p, n) \/ Record(p, n), ~MarkFailedSave(p, n)
      PROVE  CountedInv'
  BY <1>2 DEF Replay, Record, GiveUp, ReplaySucceeds, ReplayFails, MarkSucceeded,
              MarkSucceededFails, MarkFailedGet, MarkExhausted
<1>3. ASSUME NEW p \in Processor, Fetch(p) \/ Abort(p) PROVE CountedInv'
  BY <1>3 DEF Fetch, Abort
<1>4. ASSUME NEW n \in Row, Store(n) \/ BecomeDue(n) PROVE CountedInv'
  BY <1>4 DEF Store, BecomeDue
<1>5. CASE UNCHANGED vars
  BY <1>5 DEF vars
<1> QED BY <1>1, <1>2, <1>3, <1>4, <1>5 DEF Next, ProcessDueRetries

\* Each step of a run, alone, is a step of the ledger or leaves it alone.
LEMMA RunRefines ==
    ASSUME Alone, TypeOK, AppliedInv, CountInv, SnapshotInv, CountedInv,
           NEW p \in Processor, NEW n \in Row, Replay(p, n) \/ Record(p, n)
    PROVE  Ledger!Next \/ UNCHANGED Ledger!vars
<1>0. /\ failures[n] \in Nat /\ MaxAttempts \in Nat
      /\ attempts[n] = failures[n] /\ failures[n] <= MaxAttempts
  BY DEF TypeOK, CountedInv
<1>1. n \in todo[p] /\ IsCurrent(p, n) /\ status[n] = "pending"
  BY DEF Replay, Record, GiveUp, ReplaySucceeds, ReplayFails, MayReplay, MarkSucceeded,
         MarkSucceededFails, MarkFailedGet, MarkFailedSave, MarkExhausted, IsCurrent, SnapshotInv
<1>2. CASE GiveUp(p, n)
  <2>1. failures[n] = MaxAttempts
    <3>1. snap[p][n] >= MaxAttempts /\ snap[p][n] = attempts[n]
      BY <1>1, <1>2 DEF GiveUp, SnapshotInv
    <3> QED BY <1>0, <3>1
  <2> QED BY <1>1, <1>2, <2>1 DEF GiveUp, Ledger!Next, Ledger!GiveUp
<1>3. CASE ReplaySucceeds(p, n)
  BY <1>1, <1>3 DEF ReplaySucceeds, Ledger!Next, Ledger!TakeEffect
<1>4. CASE MarkSucceeded(p, n)
  <2>1. n \in applied
    BY <1>1, <1>4 DEF MarkSucceeded, AppliedInv
  <2> QED BY <1>1, <1>4, <2>1 DEF MarkSucceeded, Ledger!Next, Ledger!Succeed
<1>5. CASE MarkFailedSave(p, n)
  <2>1. failures[n] < MaxAttempts
    BY <1>1, <1>5 DEF MarkFailedSave, SnapshotInv, CountedInv
  <2> QED BY <1>1, <1>5, <2>1 DEF MarkFailedSave, Ledger!Next, Ledger!Fail
<1>6. CASE MarkExhausted(p, n)
  <2>1. failures[n] = MaxAttempts
    BY <1>0, <1>1, <1>6 DEF MarkExhausted, CountInv
  <2> QED BY <1>1, <1>6, <2>1 DEF MarkExhausted, Ledger!Next, Ledger!GiveUp
<1>7. CASE ReplayFails(p, n) \/ MarkSucceededFails(p, n) \/ MarkFailedGet(p, n)
  BY <1>7 DEF ReplayFails, MarkSucceededFails, MarkFailedGet, Ledger!vars
<1> QED BY <1>2, <1>3, <1>4, <1>5, <1>6, <1>7 DEF Replay, Record

\* If runs never overlap, the table keeps the ledger, for any number of rows
\* and wherever runs are cut short: a row is replayed and counted only while
\* it is pending, and settled once, with its reason in the ledger.
THEOREM QueueImplementsLedger == ASSUME Alone PROVE Spec => ImplementsLedger
<1>1. Init => Ledger!Init /\ AppliedInv /\ CountInv /\ CountedInv
  BY DEF Init, Ledger!Init, AppliedInv, SucceededWasApplied, CountInv, NotGivenUpEarly, CountedInv
<1>2. TypeOK /\ SnapshotInv /\ CountedInv /\ [Next]_vars => CountedInv'
  BY CountedInvStep
<1>3. TypeOK /\ AppliedInv /\ CountInv /\ SnapshotInv /\ CountedInv /\ [Next]_vars
          => [Ledger!Next]_(Ledger!vars)
  <2> SUFFICES ASSUME TypeOK, AppliedInv, CountInv, SnapshotInv, CountedInv, [Next]_vars
               PROVE  Ledger!Next \/ UNCHANGED Ledger!vars
    OBVIOUS
  <2>1. ASSUME NEW p \in Processor, NEW n \in Row, Replay(p, n) \/ Record(p, n)
        PROVE  Ledger!Next \/ UNCHANGED Ledger!vars
    BY <2>1, RunRefines
  <2>2. ASSUME NEW n \in Row, Store(n) PROVE Ledger!Next
    BY <2>2 DEF Store, Ledger!Next, Ledger!Submit
  <2>3. ASSUME NEW n \in Row, BecomeDue(n) PROVE UNCHANGED Ledger!vars
    BY <2>3 DEF BecomeDue, Ledger!vars
  <2>4. ASSUME NEW p \in Processor, Fetch(p) \/ Abort(p) PROVE UNCHANGED Ledger!vars
    BY <2>4 DEF Fetch, Abort, Ledger!vars
  <2>5. CASE UNCHANGED vars
    BY <2>5 DEF vars, Ledger!vars
  <2> QED BY <2>1, <2>2, <2>3, <2>4, <2>5 DEF Next, ProcessDueRetries
<1> QED BY <1>1, <1>2, <1>3, AppliedInvStep, CountInvStep, TypeCorrect, SnapshotCorrect, PTL
           DEF Spec, ImplementsLedger, Ledger!Spec
-----------------------------------------------------------------------------
(* Progress, as far as it is a matter of single steps.                     *)

\* Steps a run may still take for its current row.
StepsLeft(p) ==
    CASE pc[p] = "next" -> 5
      [] pc[p] = "mark_ok" -> 4
      [] pc[p] = "get" -> 3
      [] pc[p] = "save" -> 2
      [] pc[p] = "exhaust" -> 1
      [] OTHER -> 0

\* The run is through with a row, or nearer to that.
Nearer(p) ==
    \/ todo'[p] \subseteq todo[p] /\ todo'[p] # todo[p]
    \/ todo'[p] = todo[p] /\ StepsLeft(p)' < StepsLeft(p)

\* A run that has fetched its rows comes nearer to its end with every step,
\* and overlapping runs give each other no more to do.
RunsAdvance ==
    [][\A p \in Processor, n \in Row :
          Replay(p, n) \/ Record(p, n) =>
              /\ Nearer(p)
              /\ \A q \in Processor : q # p => todo'[q] = todo[q] /\ pc'[q] = pc[q]]_vars

\* What single steps show of EveryRowSettles: no run goes on for ever over the
\* rows it fetched, however many overlap and whatever they do to its rows.
THEOREM RunsDoAdvance == Spec => RunsAdvance
<1> DEFINE Advance == \A p \in Processor, n \in Row :
               Replay(p, n) \/ Record(p, n) =>
                   /\ Nearer(p)
                   /\ \A q \in Processor : q # p => todo'[q] = todo[q] /\ pc'[q] = pc[q]
<1>1. ASSUME TypeOK, NEW p \in Processor, NEW n \in Row, Replay(p, n) \/ Record(p, n)
      PROVE  /\ Nearer(p)
             /\ \A q \in Processor : q # p => todo'[q] = todo[q] /\ pc'[q] = pc[q]
  <2> USE DEF TypeOK, Nearer
  <2>1. CASE NextRow(p, n)
    <3>1. n \in todo[p]
      BY <1>1 DEF Replay, Record, GiveUp, ReplaySucceeds, ReplayFails, MayReplay, MarkSucceeded,
                  MarkSucceededFails, MarkFailedGet, MarkFailedSave, MarkExhausted, IsCurrent
    <3> QED BY <1>1, <2>1, <3>1 DEF NextRow
  <2>2. CASE ReplaySucceeds(p, n) \/ ReplayFails(p, n)
    BY <1>1, <2>2 DEF ReplaySucceeds, ReplayFails, MayReplay, RaisedInReplay, StepsLeft
  <2>3. CASE MarkSucceededFails(p, n) \/ MarkFailedGet(p, n)
    BY <1>1, <2>3 DEF MarkSucceededFails, MarkFailedGet, StepsLeft
  <2>4. CASE MarkFailedSave(p, n)
    BY <1>1, <2>1, <2>4 DEF MarkFailedSave, StepsLeft
  <2> QED BY <1>1, <2>1, <2>2, <2>3, <2>4 DEF Replay, Record, GiveUp, MarkSucceeded, MarkExhausted
<1>2. TypeOK => [Advance]_vars
  BY <1>1
<1>3. Spec => [][Advance]_vars
  BY <1>2, TypeCorrect, PTL DEF Spec
<1> QED BY <1>3 DEF RunsAdvance
=============================================================================
