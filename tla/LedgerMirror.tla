---------------------------- MODULE LedgerMirror ----------------------------
(***************************************************************************)
(* What the transaction pipeline promises: a local copy of the broker's    *)
(* transaction log that only grows, only holds rows of transactions that   *)
(* exist, and a mark below which (down to base) nothing is missing.        *)
(* Storing rows and moving the mark are separate steps, in any batches.    *)
(***************************************************************************)
EXTENDS Integers, Sequences

CONSTANTS Transactions, RowCount

VARIABLES
    log,     \* the broker's transactions
    stored,  \* rows <<id, k>> held locally
    mark,    \* the mark, or -1 before the first one
    base     \* completeness is promised for ids above base

RowsOf(ids) == UNION {{i} \X (1 .. RowCount[log[i]]) : i \in ids}

Init == log = <<>> /\ stored = {} /\ mark = -1 /\ base = -1

Commit(tx) ==
    /\ log' = Append(log, tx)
    /\ UNCHANGED <<stored, mark, base>>

(* Any rows of the log may be added; none is ever removed.                 *)
Store ==
    /\ stored \subseteq stored'
    /\ stored' \subseteq RowsOf(1 .. Len(log))
    /\ UNCHANGED <<log, mark, base>>

(* Before the first mark, the start of the promise may still be chosen.    *)
ChooseBase ==
    /\ mark = -1
    /\ base' \in 0 .. Len(log)
    /\ UNCHANGED <<log, stored, mark>>

(* The mark moves forward over a range that is completely stored.          *)
Advance ==
    /\ mark' \in 0 .. Len(log)
    /\ mark <= mark'
    /\ IF mark = -1 THEN base' \in 0 .. Len(log) ELSE base' = base
    /\ RowsOf((base' + 1) .. mark') \subseteq stored
    /\ UNCHANGED <<log, stored>>

Next ==
    \/ \E tx \in Transactions : Commit(tx)
    \/ Store \/ ChooseBase \/ Advance

Spec == Init /\ [][Next]_<<log, stored, mark, base>>
=============================================================================
