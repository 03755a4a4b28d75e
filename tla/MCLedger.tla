------------------------------ MODULE MCLedger ------------------------------
EXTENDS Ledger
MCRemotes == {[slot |-> 2, height |-> 2]}
MCHistory == <<[tx |-> 9, slot |-> 4], [tx |-> 8, slot |-> 2], [tx |-> 7, slot |-> 1]>>
=============================================================================
