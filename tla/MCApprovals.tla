------------------------------ MODULE MCApprovals ------------------------------
(* Instances of Approvals for TLC.                                         *)
EXTENDS Approvals
MCPayload == {[identity |-> 1, detail |-> "a"], [identity |-> 1, detail |-> "b"],
              [identity |-> 2, detail |-> "a"]}
MCForm == {[decision |-> "approved", note |-> "none"],
           [decision |-> "rejected", note |-> "text"],
           [decision |-> "needs_changes", note |-> "text"],
           [decision |-> "needs_changes", note |-> "blank"],
           [decision |-> "maybe", note |-> "none"]}
================================================================================
