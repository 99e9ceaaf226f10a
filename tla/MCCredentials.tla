--------------------------- MODULE MCCredentials ---------------------------
(* Small instances of Credentials: in scene "one" a device has two tasks   *)
(* side by side and the other device rests; in scene "two" each of two      *)
(* devices has one task.                                                    *)
EXTENDS Credentials

VARIABLE scene

AcrossDevices == [t \in {"a1", "a2", "b1"} |-> IF t = "b1" THEN "d2" ELSE "d1"]

Resting == IF scene = "one" THEN "b1" ELSE "a2"

MCInit == Init /\ scene \in {"one", "two"}

\* The resting task takes no step, and neither does a device without a task.
MCNext == /\ Next
          /\ task'[Resting] = task[Resting] /\ change'[Resting] = change[Resting]
          /\ scene = "one" => vault'["d2"] = vault["d2"]
          /\ UNCHANGED scene

MCSpec == MCInit /\ [][MCNext]_<<vars, scene>>

=============================================================================
