------------------------------ MODULE MCJobStore ------------------------------
(* Instances of JobStore for TLC. *)
EXTENDS JobStore, TLC
CONSTANTS p1, p2

\* email_001 and email_002; the second process runs a version that has one.
MCTableOf == 1 :> "resumes" @@ 2 :> "applications"
MCRegistered == p1 :> {1, 2} @@ p2 :> {1}

MCJob(ops1, ops2, n, migrated, drafts) ==
    [ops |-> p1 :> ops1 @@ p2 :> ops2, calls |-> n, migrated |-> migrated, drafts |-> drafts]

MCJobs ==
    {MCJob({"send", "delete"}, {"send", "delete"}, 2, TRUE, {1}),
     MCJob({"draft", "insert", "send"}, {"returning", "select", "update"}, 2, TRUE, {1}),
     MCJob({"initialize", "rollback"}, {"initialize"}, 3, FALSE, {}),
     MCJob({"initialize"}, {"initialize", "reset"}, 2, FALSE, {}),
     MCJob({"store", "load", "draft"}, {"initialize", "rollback", "list", "resumes"}, 2, FALSE, {}),
     MCJob({"slow", "calculate", "test", "close"}, {"calculate"}, 3, FALSE, {}),
     MCJob({"write"}, {"send", "rollback"}, 2, TRUE, {}),
     MCJob({"write", "store"}, {"initialize"}, 2, FALSE, {})}

=============================================================================
