----------------------------- MODULE RetryLedger -----------------------------
(***************************************************************************)
(* What the table of failed callbacks promises as long as its runs do not  *)
(* overlap, with no snapshots, no columns and no steps in between: a row   *)
(* is replayed only while it is pending, every failure is counted and none *)
(* beyond max_attempts, and a row is settled once, for a reason that       *)
(* stands in the ledger.  RetryQueue implements this module                *)
(* (ImplementsLedger).                                                     *)
(***************************************************************************)
EXTENDS Integers

CONSTANTS
    Row,          \* rows of the table
    MaxAttempts   \* failures after which a row is given up

VARIABLES
    verdict,      \* "absent", "pending", "succeeded" or "exhausted"
    effects,      \* rows whose callback took effect
    recorded      \* failures recorded for each row

vars == <<verdict, effects, recorded>>

Init ==
    /\ verdict = [n \in Row |-> "absent"]
    /\ effects = {}
    /\ recorded = [n \in Row |-> 0]

Submit(n) ==
    /\ verdict[n] = "absent"
    /\ verdict' = [verdict EXCEPT ![n] = "pending"]
    /\ UNCHANGED <<effects, recorded>>

\* At least once: the effect of a replay may not have been recorded yet.
TakeEffect(n) ==
    /\ verdict[n] = "pending"
    /\ effects' = effects \cup {n}
    /\ UNCHANGED <<verdict, recorded>>

Fail(n) ==
    /\ verdict[n] = "pending"
    /\ recorded[n] < MaxAttempts
    /\ recorded' = [recorded EXCEPT ![n] = @ + 1]
    /\ UNCHANGED <<verdict, effects>>

Succeed(n) ==
    /\ verdict[n] = "pending"
    /\ n \in effects
    /\ verdict' = [verdict EXCEPT ![n] = "succeeded"]
    /\ UNCHANGED <<effects, recorded>>

GiveUp(n) ==
    /\ verdict[n] = "pending"
    /\ recorded[n] = MaxAttempts
    /\ verdict' = [verdict EXCEPT ![n] = "exhausted"]
    /\ UNCHANGED <<effects, recorded>>

Next == \E n \in Row : Submit(n) \/ TakeEffect(n) \/ Fail(n) \/ Succeed(n) \/ GiveUp(n)

Spec == Init /\ [][Next]_vars
=============================================================================
