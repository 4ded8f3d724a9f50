----------------------------- MODULE CycleLedger -----------------------------
(***************************************************************************)
(* What every heartbeat promises about its cycles, whatever happens inside *)
(* it: a cycle is begun once, it is closed at most once and only after it  *)
(* has begun, and a restart goes back to a whole earlier ledger.           *)
(*                                                                         *)
(* HeartbeatCycle and V9HeartbeatCycle implement this specification.       *)
(***************************************************************************)
VARIABLES
    begun,     \* the cycles that have a trace
    closures,  \* the closures, records with a field "cycle"
    kept       \* the ledger as the file on disk has it

ledger == <<begun, closures, kept>>

Unclosed(c) == c \in begun /\ \A x \in closures : x.cycle # c

LedgerInit == begun = {} /\ closures = {} /\ kept = [begun |-> {}, closures |-> {}]

BeginCycle ==
    /\ \E c \in begun' \ begun : begun' = begun \cup {c}
    /\ UNCHANGED <<closures, kept>>

CloseCycle ==
    /\ \E r \in closures' \ closures : Unclosed(r.cycle) /\ closures' = closures \cup {r}
    /\ UNCHANGED <<begun, kept>>

KeepLedger == kept' = [begun |-> begun, closures |-> closures] /\ UNCHANGED <<begun, closures>>

LoseLedger == begun' = kept.begun /\ closures' = kept.closures /\ UNCHANGED kept

LedgerNext == BeginCycle \/ CloseCycle \/ KeepLedger \/ LoseLedger

LedgerSpec == LedgerInit /\ [][LedgerNext]_ledger
=============================================================================
