---------------------------- MODULE MCMSConnection ----------------------------
(* Instances of MSConnection for TLC.                                      *)
EXTENDS MSConnection
CONSTANTS r1, r2, c1
One == {r1}
Two == {r1, r2}
OneCode == {c1}
NoCode == {}
NoFault == {}
AllFaults == FaultKinds
AllJobs == JobKinds
SendRevoke == {"send", "revoke"}
===============================================================================
