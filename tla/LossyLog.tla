------------------------------ MODULE LossyLog ------------------------------
(***************************************************************************)
(* What the audit log promises (comments of internal/audit/audit.go): a    *)
(* caller is never blocked, an entry is accepted or counted as dropped,    *)
(* accepted entries are stored in the order in which they were accepted,   *)
(* each at most once, and once Close has returned nothing is outstanding   *)
(* and nothing will be accepted or stored any more.                        *)
(***************************************************************************)
EXTENDS Naturals, Sequences

CONSTANT Entry

VARIABLES
    pending,   \* accepted, not settled yet, oldest first
    stored,    \* what a reader of the table may find, oldest first
    lost,      \* how many entries were counted as dropped
    ended      \* Close has returned

lossyVars == <<pending, stored, lost, ended>>

LossyInit ==
    /\ pending = <<>>
    /\ stored = <<>>
    /\ lost = 0
    /\ ended = FALSE

Accept(e) ==
    /\ ~ended
    /\ pending' = Append(pending, e)
    /\ UNCHANGED <<stored, lost, ended>>

\* The oldest accepted entry reaches the table, or its insert fails.
Settle ==
    /\ pending # <<>>
    /\ pending' = Tail(pending)
    /\ stored' \in {stored, Append(stored, Head(pending))}
    /\ UNCHANGED <<lost, ended>>

Lose ==
    /\ lost' = lost + 1
    /\ UNCHANGED <<pending, stored, ended>>

End ==
    /\ pending = <<>>
    /\ ended' = TRUE
    /\ UNCHANGED <<pending, stored, lost>>

LossyNext == (\E e \in Entry : Accept(e)) \/ Settle \/ Lose \/ End

LossySpec == LossyInit /\ [][LossyNext]_lossyVars
=============================================================================
