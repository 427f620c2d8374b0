-------------------------- MODULE ConversionWorker --------------------------
(***************************************************************************)
(* The conversion of one exported disk (worker/internal/conversion), file  *)
(* operation by file operation, beside the export of that disk.  Requests  *)
(* come from the backend; one whose caller has gone, because the backend   *)
(* died or a deadline passed, still waits for the mutex, and is only       *)
(* stopped when it runs qemu-img.  The worker may die at any point.        *)
(*                                                                         *)
(* An output has the content it was converted from, a partial one is       *)
(* Broken while qemu-img writes it.  Checksums stand for the contents.     *)
(* qemu-img is deterministic, so two conversions of one content are equal. *)
(* Input and output format are fixed by the plan, and paths by the job.    *)
(***************************************************************************)
EXTENDS DiskExport

CONSTANTS Requests, NoRequest

ASSUME ConversionAssumption == NoRequest \notin Requests

VARIABLES
  partial, output,   \* <output>.drishti-partial and the output
  manifest,          \* <output>.drishti.json
  calls,             \* requests: none, open, or open with the caller gone
  answers,           \* the last answer of each request that was no error
  conversion         \* who holds the mutex, where, and its local variables

workerVars == <<partial, output, manifest, calls, answers, conversion>>
conversionVars == <<exportVars, workerVars>>

Broken == -1
Files == Contents \cup {Absent, Broken}

CallStates == {"none", "open", "gone"}
ConversionLabels == {"free", "input", "output", "partial", "start", "copy", "check",
                     "publish", "measure", "manifest"}

Evidence == [input: Contents \cup {Absent}, output: Files]
NoEvidence == [input |-> Absent, output |-> Absent]

\* sum is the checksum of the input, read what qemu-img reads, made the
\* checksum of the output.
Conversion == [owner: Requests \cup {NoRequest}, at: ConversionLabels,
               sum: Contents \cup {Absent}, read: Contents \cup {Absent}, made: Files]
Idle == [owner |-> NoRequest, at |-> "free", sum |-> Absent, read |-> Absent,
         made |-> Absent]

At(label) == conversion.at = label
Owner == conversion.owner
Goto(label) == conversion' = [conversion EXCEPT !.at = label]

-----------------------------------------------------------------------------
(* Requests *)

Send(r) ==
  /\ calls[r] = "none"
  /\ calls' = [calls EXCEPT ![r] = "open"]
  /\ UNCHANGED <<exportVars, partial, output, manifest, answers, conversion>>

\* A deadline passes, or the connection breaks.
CallerLeaves(r) ==
  /\ calls[r] = "open"
  /\ calls' = [calls EXCEPT ![r] = "gone"]
  /\ UNCHANGED <<exportVars, partial, output, manifest, answers, conversion>>

\* Convert returns and releases the mutex.
Finish ==
  /\ conversion' = Idle
  /\ calls' = [calls EXCEPT ![Owner] = "none"]

\* Mutation of Refuse: the mutex is not released on the error paths.
RefuseLocked ==
  /\ calls' = [calls EXCEPT ![Owner] = "none"]
  /\ UNCHANGED <<answers, conversion>>

Refuse == Finish /\ UNCHANGED answers

Answer(value) ==
  /\ Finish
  /\ answers' = IF calls[Owner] = "gone" THEN answers
                ELSE [answers EXCEPT ![Owner] =
                        [input |-> conversion.sum, output |-> value]]

-----------------------------------------------------------------------------
(* Convert *)

Acquire(r) ==
  /\ At("free") /\ calls[r] # "none"
  /\ conversion' = [Idle EXCEPT !.owner = r, !.at = "input"]
  /\ UNCHANGED <<exportVars, partial, output, manifest, calls, answers>>

\* existingFile and the checksum of the input, which is the descriptor.
ReadInput ==
  /\ At("input")
  /\ \/ /\ descriptor # Absent
        /\ conversion' = [conversion EXCEPT !.at = "output", !.sum = descriptor]
        /\ UNCHANGED <<calls, answers>>
     \/ descriptor = Absent /\ Refuse
  /\ UNCHANGED <<exportVars, partial, output, manifest>>

\* Mutation of Reusable: the checksum of the input is not compared.
ReusableOutput == output # Absent /\ manifest.output = output

Reusable ==
  /\ output # Absent
  /\ manifest = [input |-> conversion.sum, output |-> output]

\* Mutation of InspectOutput: an output without a manifest is written again.
InspectForReuse ==
  /\ At("output")
  /\ \/ Reusable /\ Answer(output)
     \/ ~Reusable /\ Goto("partial") /\ UNCHANGED <<calls, answers>>
  /\ UNCHANGED <<exportVars, partial, output, manifest>>

InspectOutput ==
  /\ At("output")
  /\ \/ Reusable /\ Answer(output)
     \/ ~Reusable /\ output # Absent /\ Refuse
     \/ output = Absent /\ Goto("partial") /\ UNCHANGED <<calls, answers>>
  /\ UNCHANGED <<exportVars, partial, output, manifest>>

\* The partial output of an attempt before goes; a command whose context is
\* done is not started.
RemovePartial ==
  /\ At("partial")
  /\ partial' = Absent
  /\ \/ calls[Owner] = "open" /\ Goto("start") /\ UNCHANGED <<calls, answers>>
     \/ calls[Owner] = "gone" /\ Refuse
  /\ UNCHANGED <<exportVars, output, manifest>>

\* qemu-img opens the descriptor and what it names, and keeps them open.
StartCopy ==
  /\ At("start") /\ descriptor # Absent /\ extent # Absent
  /\ conversion' = [conversion EXCEPT !.at = "copy", !.read = extent]
  /\ partial' = Broken
  /\ UNCHANGED <<exportVars, output, manifest, calls, answers>>

CopyDone ==
  /\ At("copy") /\ Goto("check")
  /\ partial' = conversion.read
  /\ UNCHANGED <<exportVars, output, manifest, calls, answers>>

\* Mutation of CopyFails: the exit code of qemu-img is not looked at.
CopyUnchecked ==
  /\ At("copy") /\ Goto("check")
  /\ UNCHANGED <<exportVars, partial, output, manifest, calls, answers>>

\* qemu-img fails, runs too long, or is stopped because its caller has gone.
CopyFails ==
  /\ At("start") \/ At("copy")
  /\ partial' = Absent /\ Refuse
  /\ UNCHANGED <<exportVars, output, manifest>>

\* Mutation of CheckInput: it is only looked whether the input still exists.
CheckInputExists ==
  /\ At("check")
  /\ \/ /\ descriptor # Absent
        /\ Goto("publish") /\ UNCHANGED <<partial, calls, answers>>
     \/ descriptor = Absent /\ partial' = Absent /\ Refuse
  /\ UNCHANGED <<exportVars, output, manifest>>

CheckInput ==
  /\ At("check")
  /\ \/ /\ descriptor = conversion.sum
        /\ Goto("publish") /\ UNCHANGED <<partial, calls, answers>>
     \/ descriptor # conversion.sum /\ partial' = Absent /\ Refuse
  /\ UNCHANGED <<exportVars, output, manifest>>

Publish ==
  /\ At("publish")
  /\ \/ output' = partial /\ Goto("measure") /\ UNCHANGED <<calls, answers>>
     \/ UNCHANGED output /\ Refuse
  /\ partial' = Absent
  /\ UNCHANGED <<exportVars, manifest>>

\* An output above the size cap is removed again; one that has gone, or
\* cannot be read, is an error.
MeasureOutput ==
  /\ At("measure")
  /\ \/ /\ output # Absent
        /\ conversion' = [conversion EXCEPT !.at = "manifest", !.made = output]
        /\ UNCHANGED <<output, calls, answers>>
     \/ output' \in {output, Absent} /\ Refuse
  /\ UNCHANGED <<exportVars, partial, manifest>>

WriteManifest ==
  /\ At("manifest")
  /\ \/ /\ manifest' = [input |-> conversion.sum, output |-> conversion.made]
        /\ Answer(conversion.made)
     \/ UNCHANGED manifest /\ Refuse
  /\ UNCHANGED <<exportVars, partial, output>>

ConvertStep ==
  \/ ReadInput \/ InspectOutput \/ RemovePartial \/ StartCopy \/ CopyDone
  \/ CopyFails \/ CheckInput \/ Publish \/ MeasureOutput \/ WriteManifest

-----------------------------------------------------------------------------
(* The surroundings *)

WorkerDies ==
  /\ conversion' = Idle
  /\ calls' = [r \in Requests |-> "none"]
  /\ UNCHANGED <<exportVars, partial, output, manifest, answers>>

BackendDies ==
  /\ EndExport
  /\ calls' = [r \in Requests |-> IF calls[r] = "open" THEN "gone" ELSE calls[r]]
  /\ UNCHANGED <<source, descriptor, extent, record>>
  /\ UNCHANGED <<partial, output, manifest, answers, conversion>>

\* An operator removes the output, with or without its manifest.
RemoveOutput ==
  /\ output # Absent /\ output' = Absent
  /\ manifest' \in {manifest, NoEvidence}
  /\ UNCHANGED <<exportVars, partial, calls, answers, conversion>>

ConversionInit ==
  /\ ExportInit
  /\ partial = Absent /\ output = Absent /\ manifest = NoEvidence
  /\ calls = [r \in Requests |-> "none"]
  /\ answers = [r \in Requests |-> NoEvidence]
  /\ conversion = Idle

ConversionNext ==
  \/ (BeginExport \/ ExportStep \/ SourceRuns \/ RemoveExported) /\ UNCHANGED workerVars
  \/ \E r \in Requests : Send(r) \/ CallerLeaves(r) \/ Acquire(r)
  \/ ConvertStep \/ WorkerDies \/ BackendDies \/ RemoveOutput

(* The holder of the mutex keeps moving: qemu-img runs under a timeout.    *)
(* sync.Mutex serves one who has waited long enough.                       *)
ConversionSpec ==
  /\ ConversionInit /\ [][ConversionNext]_conversionVars
  /\ WF_conversionVars(ConvertStep)
  /\ \A r \in Requests : SF_conversionVars(Acquire(r))

-----------------------------------------------------------------------------
(* Invariants *)

(* The types; the local variables are those of the position of the holder, *)
(* and what qemu-img did not finish is never an output.                    *)
ConversionTypeOK ==
  /\ source \in Contents
  /\ export \in [at: ExportLabels, content: Contents \cup {Absent}]
  /\ descriptor \in Contents \cup {Absent}
  /\ extent \in Contents \cup {Absent}
  /\ record \in BOOLEAN
  /\ partial \in Files /\ output \in Contents \cup {Absent}
  /\ manifest \in Evidence
  /\ calls \in [Requests -> CallStates]
  /\ answers \in [Requests -> Evidence]
  /\ conversion \in Conversion
  /\ At("free") <=> Owner = NoRequest
  /\ ~At("free") => calls[Owner] # "none"
  /\ ~At("free") /\ ~At("input") => conversion.sum # Absent
  /\ At("check") \/ At("publish") => partial = conversion.read

(* What a manifest or an answer of the worker says of an input and an      *)
(* output is so: the output is the whole conversion of that input, never   *)
(* of one that was exported while the conversion ran, never a part of it.  *)
EvidenceIsTrue ==
  /\ manifest.output = manifest.input
  /\ \A r \in Requests : answers[r].output = answers[r].input

-----------------------------------------------------------------------------
(* The inductive invariant *)

(* Where an export is, what it has found and written.                      *)
ExportOK ==
  /\ ~ExportAt("idle") => export.content = source
  /\ export.at \in {"download", "extent", "descriptor"} => descriptor = Absent
  /\ ExportAt("extent") => extent = Absent
  /\ ExportAt("descriptor") => extent \in {Absent, source}
  /\ descriptor <= source

Summed == ~At("free") /\ ~At("input")

(* Contents only get newer: neither the input of a conversion nor what     *)
(* qemu-img has read is ever older in the workspace than it was, so one    *)
(* that has its old checksum again was never another.                      *)
InputOK ==
  /\ Summed => conversion.sum <= source
  /\ Summed /\ descriptor # Absent => conversion.sum <= descriptor
  /\ At("copy") \/ At("check") =>
       /\ conversion.sum <= conversion.read /\ conversion.read <= source
       /\ descriptor # Absent => conversion.read <= descriptor

OutputOK ==
  /\ conversion.at \in {"partial", "start", "copy", "check", "publish"} => output = Absent
  /\ At("publish") => conversion.read = conversion.sum
  /\ At("measure") => output \in {Absent, conversion.sum}
  /\ At("manifest") => conversion.made = conversion.sum

ConversionInv ==
  /\ ConversionTypeOK
  /\ ExportIsWhole
  /\ EvidenceIsTrue
  /\ ExportOK
  /\ InputOK
  /\ OutputOK

-----------------------------------------------------------------------------
(* Action and temporal properties *)

Vouched == output # Absent /\ manifest.output = output

(* An output in its place is never replaced, and one that its manifest     *)
(* vouches for stays until an operator removes it, whatever requests come  *)
(* after it; the one exception is a conversion that finds its own output   *)
(* above the size cap.                                                     *)
PublishedIsKept ==
  [][output # Absent /\ output' # output =>
       /\ output' = Absent
       /\ Vouched => RemoveOutput \/ (At("measure") /\ MeasureOutput)]_conversionVars

Exported ==
  IF export.at \in {"descriptor", "hash", "record"} THEN "pending"
  ELSE IF descriptor = Absent /\ extent = Absent THEN "absent"
  ELSE IF descriptor # Absent /\ extent # Absent THEN "current"
  ELSE "residue"

Converted ==
  IF conversion.at \in {"measure", "manifest"} THEN "pending"
  ELSE IF output = Absent THEN "absent"
  ELSE IF Vouched THEN "complete"
  ELSE "orphan"

Disk == INSTANCE DiskSteps WITH exported <- Exported, converted <- Converted

(* Export and conversion are the steps the engine takes them for: neither  *)
(* begins over what an attempt before has left, and no orphan ever becomes *)
(* a complete output.                                                      *)
ImplementsDiskSteps == Disk!Spec

(* Every request that reaches the worker is served, refused or lost with   *)
(* the worker; none waits for ever behind another.                         *)
RequestEnds ==
  \A r \in Requests : calls[r] # "none" ~> calls[r] = "none"

=============================================================================
