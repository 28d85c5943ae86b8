----------------------------- MODULE MCExecutor -----------------------------
(* Small plans: every kind of action, a fresh, a resumed and an empty file. *)
EXTENDS Executor

Mkdirs == [kind |-> "mkdir", size |-> 0, from |-> 0]
Skips == [kind |-> "skip", size |-> 0, from |-> 0]
Copy(size, from) == [kind |-> "copy", size |-> size, from |-> from]

MCPlans ==
    {<<>>,
     <<Mkdirs, Skips, Copy(1, 0)>>,
     <<Copy(2, 1), Mkdirs, Copy(0, 0)>>,
     <<Copy(1, 0), Copy(2, 0), Skips>>}
=============================================================================
