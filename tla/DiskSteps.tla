------------------------------ MODULE DiskSteps ------------------------------
(***************************************************************************)
(* What the export and the conversion of one disk promise to the engine,   *)
(* which takes each of them for one step (JobEngine, ExportDisk and        *)
(* ConvertDisk): only what is absent is ever begun, what is begun ends as  *)
(* a whole or as something no later attempt will touch, and only an        *)
(* operator takes anything away.                                           *)
(***************************************************************************)

VARIABLES
  exported,      \* the exported files: "residue" is a part of them
  converted      \* the output: an "orphan" has no manifest that vouches for it

Exported  == {"absent", "pending", "current", "residue"}
Converted == {"absent", "pending", "complete", "orphan"}

Init == exported = "absent" /\ converted = "absent"

ExportDisk ==
  /\ \/ exported = "absent" /\ exported' = "pending"
     \/ exported = "pending" /\ exported' \in Exported
  /\ UNCHANGED converted

ConvertDisk ==
  /\ \/ converted = "absent" /\ converted' = "pending"
     \/ converted = "pending" /\ converted' \in Converted
  /\ UNCHANGED exported

RemoveExport ==
  /\ exported \in {"current", "residue"} /\ exported' \in {"residue", "absent"}
  /\ UNCHANGED converted

RemoveConverted ==
  /\ converted \in {"complete", "orphan"} /\ converted' = "absent"
  /\ UNCHANGED exported

Next == ExportDisk \/ ConvertDisk \/ RemoveExport \/ RemoveConverted

Spec == Init /\ [][Next]_<<exported, converted>>

=============================================================================
