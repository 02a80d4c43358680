---------------------------- MODULE ShadowJournal -----------------------------
(***************************************************************************)
(* The abstract specification of broker shadow: what its durable rows may   *)
(* do, whatever fails, is cancelled or restarts.  An order enters the       *)
(* shadow ledger's snapshot only after its denial is durable, and the order *)
(* journal only ever repeats what the snapshot says.                        *)
(***************************************************************************)
EXTENDS CommandJournal

VARIABLES
    orders,     \* the orders in the latest ledger snapshot
    rows        \* the latest execution row of each intent

vars == <<journal, orders, rows>>

Row(p, s) == rows' = [rows EXCEPT ![p] = s]

Init ==
    /\ JournalInit
    /\ orders = [p \in Orders |-> "none"]
    /\ rows = [p \in Orders |-> "none"]

\* The write is about to be attempted.
Pend(p) == p \in commands /\ rows[p] = "none" /\ Row(p, "SUBMITTING") /\ UNCHANGED <<journal, orders>>

Write(p) ==
    /\ \/ (Intend(p) \/ Command(p)) /\ UNCHANGED rows
       \/ rows[p] = "SUBMITTING" /\ Deny(p) /\ UNCHANGED rows
       \/ rows[p] = "SUBMITTING" /\ Refuse(p) /\ Row(p, "REJECTED_LOCAL")
    /\ UNCHANGED orders

\* A snapshot with one more order, or with some working orders filled.
Apply(p) ==
    /\ p \in denials
    /\ orders[p] = "none"
    /\ \E s \in {"OPEN", "REJECTED"} : orders' = [orders EXCEPT ![p] = s]
    /\ UNCHANGED <<journal, rows>>

Fill ==
    /\ \E S \in SUBSET {p \in Orders : orders[p] = "OPEN"} :
         orders' = [p \in Orders |-> IF p \in S THEN "FILLED" ELSE orders[p]]
    /\ UNCHANGED <<journal, rows>>

\* The row repeats the snapshot, or is marked unknown by an interrupted placement.
Confirm(p) ==
    /\ orders[p] # "none"
    /\ Row(p, orders[p])
    /\ UNCHANGED <<journal, orders>>

Doubt(p) ==
    /\ p \in commands \ refused
    /\ rows[p] # "none"
    /\ Row(p, "UNKNOWN")
    /\ UNCHANGED <<journal, orders>>

Next == Fill \/ \E p \in Orders : Write(p) \/ Pend(p) \/ Apply(p) \/ Confirm(p) \/ Doubt(p)

Spec == Init /\ [][Next]_vars
=============================================================================
