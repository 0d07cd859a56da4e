----------------------------- MODULE MCXeroInvoices -----------------------------
(* Instances of XeroInvoices for TLC.                                      *)
EXTENDS XeroInvoices, TLC
CONSTANTS t1, t2, t3, k1, k2
Three == {t1, t2, t3}
TwoKeys == {k1, k2}
Symmetry == Permutations(Task) \cup Permutations(Key)
AllFaults == FaultKinds
=================================================================================
