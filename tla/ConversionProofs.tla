-------------------------- MODULE ConversionProofs --------------------------
(***************************************************************************)
(* Theorems of the export and the conversion of a disk, for any number of  *)
(* requests and of contents the source ever has.                           *)
(***************************************************************************)
EXTENDS ConversionWorker, TLAPS

-----------------------------------------------------------------------------
(* Types *)

LEMMA ContentTypes ==
  /\ Contents \subseteq Nat \ {0} /\ Absent \notin Contents /\ Broken \notin Contents
  /\ 1 \in Contents
  /\ NoExport \in [at: ExportLabels, content: Contents \cup {Absent}]
  /\ NoEvidence \in Evidence /\ Idle \in Conversion
<1>1. /\ Contents \subseteq Nat \ {0} /\ 1 \in Contents
      /\ Absent \notin Contents /\ Broken \notin Contents
  BY DiskExportAssumption DEF Contents, Absent, Broken
<1> QED
  BY <1>1
  DEF NoExport, ExportLabels, NoEvidence, Evidence, Files, Idle, Conversion, ConversionLabels

(* Contents, and where there are none, are numbers.                        *)
LEMMA ContentNumbers == Contents \cup {Absent} \subseteq Nat /\ Contents \subseteq Nat
BY DEF Contents, Absent

LEMMA InitInv == ConversionInit => ConversionInv
<1> SUFFICES ASSUME ConversionInit PROVE ConversionInv
  OBVIOUS
<1> USE ContentTypes DEF ConversionInit, ExportInit
<1>1. ConversionTypeOK
  BY DEF ConversionTypeOK, Files, CallStates, At, Owner, Idle
<1>2. ExportIsWhole /\ EvidenceIsTrue
  BY DEF ExportIsWhole, EvidenceIsTrue, NoEvidence
<1>3. ExportOK /\ InputOK /\ OutputOK
  BY DEF ExportOK, ExportAt, NoExport, InputOK, Summed, OutputOK, At, Idle, Absent
<1> QED
  BY <1>1, <1>2, <1>3 DEF ConversionInv

-----------------------------------------------------------------------------
(* The export *)

ExportAction == BeginExport \/ ExportStep \/ SourceRuns \/ RemoveExported

USE DEF ExportAt, Continue, EndExport

LEMMA ExportType ==
  ASSUME ConversionInv, ExportAction
  PROVE  /\ source' \in Contents
         /\ export' \in [at: ExportLabels, content: Contents \cup {Absent}]
         /\ descriptor' \in Contents \cup {Absent} /\ extent' \in Contents \cup {Absent}
         /\ record' \in BOOLEAN
<1> USE ContentTypes DEF ConversionInv, ConversionTypeOK
<1>1. CASE BeginExport
  BY <1>1 DEF BeginExport, ExportLabels
<1>2. CASE ExportStep
  BY <1>2
  DEF ExportStep, Download, DownloadFails, RenameExtent, RenameDescriptor, HashExport,
      WriteRecord, ExportLabels
<1>3. CASE SourceRuns
  BY <1>3, DiskExportAssumption DEF SourceRuns, Contents
<1>4. CASE RemoveExported
  BY <1>4 DEF RemoveExported
<1> QED
  BY <1>1, <1>2, <1>3, <1>4 DEF ExportAction

LEMMA ExportKeepsExport ==
  ASSUME ConversionInv, ExportAction
  PROVE  ExportIsWhole' /\ ExportOK'
<1> USE ContentTypes DEF ConversionInv, ConversionTypeOK, ExportIsWhole, ExportOK, NoExport
<1>1. CASE BeginExport
  BY <1>1 DEF BeginExport, Absent
<1>2. CASE Download \/ DownloadFails
  BY <1>2 DEF Download, DownloadFails
<1>3. CASE RenameExtent
  BY <1>3 DEF RenameExtent
<1>4. CASE RenameDescriptor
  BY <1>4 DEF RenameDescriptor, Absent
<1>5. CASE HashExport
  BY <1>5 DEF HashExport, Absent
<1>6. CASE WriteRecord
  BY <1>6 DEF WriteRecord, Absent
<1>7. CASE SourceRuns
  BY <1>7 DEF SourceRuns, Absent
<1>8. CASE RemoveExported
  BY <1>8 DEF RemoveExported, Absent
<1> QED
  BY <1>1, <1>2, <1>3, <1>4, <1>5, <1>6, <1>7, <1>8 DEF ExportAction, ExportStep

(* The source and the descriptor in the workspace only get newer.          *)
LEMMA ContentsGetNewer ==
  ASSUME ConversionInv, ExportAction
  PROVE  /\ source <= source'
         /\ descriptor' \in {Absent, descriptor, source}
<1> USE ContentTypes DEF ConversionInv, ConversionTypeOK, ExportOK
<1>1. CASE SourceRuns
  BY <1>1 DEF SourceRuns
<1>2. CASE ~SourceRuns
  BY <1>2
  DEF ExportAction, ExportStep, BeginExport, Download, DownloadFails, RenameExtent,
      RenameDescriptor, HashExport, WriteRecord, RemoveExported
<1> QED
  BY <1>1, <1>2

LEMMA ExportKeepsInv ==
  ASSUME ConversionInv, ExportAction, UNCHANGED workerVars
  PROVE  ConversionInv'
<1> USE DEF workerVars
<1>1. ConversionTypeOK'
  BY ExportType DEF ConversionInv, ConversionTypeOK, At, Owner
<1>2. EvidenceIsTrue' /\ OutputOK'
  BY DEF ConversionInv, EvidenceIsTrue, OutputOK, At
<1>3. InputOK'
  <2>1. source <= source' /\ descriptor' \in {Absent, descriptor, source}
    BY ContentsGetNewer
  <2>2. source \in Nat /\ source' \in Nat /\ descriptor \in Nat
    BY <1>1, ContentNumbers DEF ConversionInv, ConversionTypeOK
  <2>3. conversion.sum \in Nat /\ conversion.read \in Nat
    BY ContentNumbers DEF ConversionInv, ConversionTypeOK, Conversion
  <2> QED
    BY <2>1, <2>2, <2>3 DEF ConversionInv, InputOK, Summed, At, Absent
<1> QED
  BY <1>1, <1>2, <1>3, ExportKeepsExport DEF ConversionInv

-----------------------------------------------------------------------------
(* The conversion *)

(* Convert returns, whatever it has done before: what it leaves of types   *)
(* and of evidence is all there is to show.                                *)
LEMMA FinishEnds ==
  ASSUME ConversionInv, UNCHANGED exportVars, Finish,
         partial' \in Files, output' \in Contents \cup {Absent}, manifest' \in Evidence,
         answers' \in [Requests -> Evidence], EvidenceIsTrue'
  PROVE  ConversionInv'
<1> USE DEF exportVars, Finish
<1>1. conversion' = Idle /\ Idle \in Conversion /\ calls' \in [Requests -> CallStates]
  BY ContentTypes DEF ConversionInv, ConversionTypeOK, CallStates
<1>2. ConversionTypeOK'
  BY <1>1, ContentTypes DEF ConversionInv, ConversionTypeOK, At, Owner, Idle
<1>3. ExportIsWhole' /\ ExportOK'
  BY DEF ConversionInv, ExportIsWhole, ExportOK
<1>4. InputOK' /\ OutputOK'
  BY <1>1 DEF InputOK, OutputOK, Summed, At, Idle
<1> QED
  BY <1>2, <1>3, <1>4 DEF ConversionInv

LEMMA AnswerType ==
  ASSUME ConversionInv, NEW value \in Files, ~At("free"), Answer(value)
  PROVE  answers' \in [Requests -> Evidence]
<1>1. conversion.sum \in Contents \cup {Absent}
  BY DEF ConversionInv, ConversionTypeOK, Conversion
<1> QED
  BY <1>1 DEF Answer, ConversionInv, ConversionTypeOK, Evidence

LEMMA AnswerIsTrue ==
  ASSUME ConversionInv, NEW value, Answer(value), value = conversion.sum
  PROVE  \A r \in Requests : answers'[r].output = answers'[r].input
BY DEF Answer, ConversionInv, ConversionTypeOK, EvidenceIsTrue, Owner

(* The holder of the mutex goes on to another position: its owner stays.   *)
LEMMA OwnerStays ==
  ASSUME ConversionInv, ~At("free"), UNCHANGED <<exportVars, calls, answers>>,
         conversion' \in Conversion, Owner' = Owner, ~At("free")',
         partial' \in Files, output' \in Contents \cup {Absent}, UNCHANGED manifest,
         ~At("input")' => conversion'.sum # Absent,
         At("check")' \/ At("publish")' => partial' = conversion'.read
  PROVE  /\ ConversionTypeOK'
         /\ ExportIsWhole' /\ ExportOK'
         /\ EvidenceIsTrue'
<1> USE DEF exportVars
<1>1. ConversionTypeOK'
  BY DEF ConversionInv, ConversionTypeOK, At, Owner
<1>2. ExportIsWhole' /\ ExportOK'
  BY DEF ConversionInv, ExportIsWhole, ExportOK
<1>3. EvidenceIsTrue'
  BY DEF ConversionInv, EvidenceIsTrue
<1> QED
  BY <1>1, <1>2, <1>3

LEMMA ReadInputKeepsInv ==
  ASSUME ConversionInv, ReadInput
  PROVE  ConversionInv'
<1> USE DEF At, Owner
<1>1. CASE descriptor = Absent /\ Refuse
  BY <1>1, FinishEnds
  DEF ReadInput, Refuse, ConversionInv, ConversionTypeOK, EvidenceIsTrue, Files
<1>2. CASE /\ descriptor # Absent
           /\ conversion' = [conversion EXCEPT !.at = "output", !.sum = descriptor]
           /\ UNCHANGED <<calls, answers>>
  <2>1. conversion' \in Conversion /\ conversion'.at = "output"
        /\ conversion'.owner = conversion.owner /\ conversion'.sum = descriptor
    BY <1>2 DEF ReadInput, ConversionInv, ConversionTypeOK, Conversion, ConversionLabels
  <2>2. ConversionTypeOK' /\ ExportIsWhole' /\ ExportOK' /\ EvidenceIsTrue'
    BY <1>2, <2>1, OwnerStays DEF ReadInput, ConversionInv, ConversionTypeOK, Files
  <2>3. InputOK' /\ OutputOK'
    <3>1. descriptor \in Nat /\ descriptor <= source /\ UNCHANGED <<source, descriptor>>
      BY ContentNumbers
      DEF ReadInput, ConversionInv, ConversionTypeOK, ExportOK, exportVars
    <3> QED
      BY <2>1, <3>1 DEF InputOK, OutputOK, Summed
  <2> QED
    BY <2>2, <2>3 DEF ConversionInv
<1> QED
  BY <1>1, <1>2 DEF ReadInput

LEMMA InspectKeepsInv ==
  ASSUME ConversionInv, InspectOutput
  PROVE  ConversionInv'
<1> USE DEF At, Owner
<1>1. CASE Reusable /\ Answer(output)
  <2>1. answers' \in [Requests -> Evidence]
    BY <1>1, AnswerType DEF InspectOutput, ConversionInv, ConversionTypeOK, Files
  <2>2. output = conversion.sum
    BY <1>1 DEF Reusable, ConversionInv, EvidenceIsTrue
  <2>3. EvidenceIsTrue'
    BY <1>1, <2>2, AnswerIsTrue DEF InspectOutput, ConversionInv, EvidenceIsTrue
  <2> QED
    BY <1>1, <2>1, <2>3, FinishEnds
    DEF InspectOutput, Answer, ConversionInv, ConversionTypeOK
<1>2. CASE ~Reusable /\ output # Absent /\ Refuse
  BY <1>2, FinishEnds
  DEF InspectOutput, Refuse, ConversionInv, ConversionTypeOK, EvidenceIsTrue
<1>3. CASE output = Absent /\ Goto("partial") /\ UNCHANGED <<calls, answers>>
  <2>1. conversion' \in Conversion /\ conversion'.at = "partial"
        /\ conversion'.owner = conversion.owner /\ conversion'.sum = conversion.sum
    BY <1>3 DEF Goto, ConversionInv, ConversionTypeOK, Conversion, ConversionLabels
  <2>2. ConversionTypeOK' /\ ExportIsWhole' /\ ExportOK' /\ EvidenceIsTrue'
    BY <1>3, <2>1, OwnerStays DEF InspectOutput, ConversionInv, ConversionTypeOK
  <2>3. InputOK' /\ OutputOK'
    BY <1>3, <2>1
    DEF InspectOutput, ConversionInv, InputOK, OutputOK, Summed, exportVars
  <2> QED
    BY <2>2, <2>3 DEF ConversionInv
<1> QED
  BY <1>1, <1>2, <1>3 DEF InspectOutput

LEMMA RemovePartialKeepsInv ==
  ASSUME ConversionInv, RemovePartial
  PROVE  ConversionInv'
<1> USE DEF At, Owner
<1>1. CASE Refuse
  BY <1>1, FinishEnds
  DEF RemovePartial, Refuse, ConversionInv, ConversionTypeOK, EvidenceIsTrue, Files
<1>2. CASE Goto("start") /\ UNCHANGED <<calls, answers>>
  <2>1. conversion' \in Conversion /\ conversion'.at = "start"
        /\ conversion'.owner = conversion.owner /\ conversion'.sum = conversion.sum
    BY <1>2 DEF Goto, ConversionInv, ConversionTypeOK, Conversion, ConversionLabels
  <2>2. ConversionTypeOK' /\ ExportIsWhole' /\ ExportOK' /\ EvidenceIsTrue'
    BY <1>2, <2>1, OwnerStays DEF RemovePartial, ConversionInv, ConversionTypeOK, Files
  <2>3. InputOK' /\ OutputOK'
    BY <1>2, <2>1
    DEF RemovePartial, ConversionInv, InputOK, OutputOK, Summed, exportVars
  <2> QED
    BY <2>2, <2>3 DEF ConversionInv
<1> QED
  BY <1>1, <1>2 DEF RemovePartial

(* What qemu-img opens is an extent of the descriptor, which is as new as  *)
(* the one that was hashed.                                                *)
LEMMA StartCopyKeepsInv ==
  ASSUME ConversionInv, StartCopy
  PROVE  ConversionInv'
<1> USE DEF At, Owner
<1>1. conversion' \in Conversion /\ conversion'.at = "copy"
      /\ conversion'.owner = conversion.owner /\ conversion'.sum = conversion.sum
      /\ conversion'.read = extent
  BY DEF StartCopy, ConversionInv, ConversionTypeOK, Conversion, ConversionLabels
<1>2. ConversionTypeOK' /\ ExportIsWhole' /\ ExportOK' /\ EvidenceIsTrue'
  BY <1>1, OwnerStays DEF StartCopy, ConversionInv, ConversionTypeOK, Files
<1>3. InputOK'
  <2>1. extent = descriptor /\ descriptor <= source /\ conversion.sum <= descriptor
    BY DEF StartCopy, ConversionInv, ExportIsWhole, ExportOK, InputOK, Summed
  <2>2. descriptor \in Nat /\ source \in Nat /\ conversion.sum \in Nat
    BY ContentNumbers DEF ConversionInv, ConversionTypeOK, Conversion
  <2>3. UNCHANGED <<source, descriptor>>
    BY DEF StartCopy, exportVars
  <2> QED
    BY <1>1, <2>1, <2>2, <2>3 DEF InputOK, Summed
<1>4. OutputOK'
  BY <1>1 DEF StartCopy, ConversionInv, OutputOK
<1> QED
  BY <1>2, <1>3, <1>4 DEF ConversionInv

LEMMA CopyDoneKeepsInv ==
  ASSUME ConversionInv, CopyDone
  PROVE  ConversionInv'
<1> USE DEF At, Owner
<1>1. conversion' \in Conversion /\ conversion'.at = "check"
      /\ conversion'.owner = conversion.owner /\ conversion'.sum = conversion.sum
      /\ conversion'.read = conversion.read
  BY DEF CopyDone, Goto, ConversionInv, ConversionTypeOK, Conversion, ConversionLabels
<1>2. partial' = conversion.read /\ conversion.read \in Files
  BY DEF CopyDone, ConversionInv, ConversionTypeOK, Conversion, Files
<1>3. ConversionTypeOK' /\ ExportIsWhole' /\ ExportOK' /\ EvidenceIsTrue'
  BY <1>1, <1>2, OwnerStays DEF CopyDone, ConversionInv, ConversionTypeOK
<1>4. InputOK' /\ OutputOK'
  BY <1>1 DEF CopyDone, ConversionInv, InputOK, OutputOK, Summed, exportVars
<1> QED
  BY <1>3, <1>4 DEF ConversionInv

LEMMA CopyFailsKeepsInv ==
  ASSUME ConversionInv, CopyFails
  PROVE  ConversionInv'
BY FinishEnds
DEF CopyFails, Refuse, ConversionInv, ConversionTypeOK, EvidenceIsTrue, At, Files

(* A descriptor that still is what it was when it was hashed was never     *)
(* another in between, so that is what qemu-img read.                      *)
LEMMA CheckInputKeepsInv ==
  ASSUME ConversionInv, CheckInput
  PROVE  ConversionInv'
<1> USE DEF At, Owner
<1>1. CASE Refuse /\ partial' = Absent
  BY <1>1, FinishEnds
  DEF CheckInput, Refuse, ConversionInv, ConversionTypeOK, EvidenceIsTrue, Files
<1>2. CASE /\ descriptor = conversion.sum
           /\ Goto("publish") /\ UNCHANGED <<partial, calls, answers>>
  <2>1. conversion' \in Conversion /\ conversion'.at = "publish"
        /\ conversion'.owner = conversion.owner /\ conversion'.sum = conversion.sum
        /\ conversion'.read = conversion.read
    BY <1>2 DEF Goto, ConversionInv, ConversionTypeOK, Conversion, ConversionLabels
  <2>2. ConversionTypeOK' /\ ExportIsWhole' /\ ExportOK' /\ EvidenceIsTrue'
    BY <1>2, <2>1, OwnerStays DEF CheckInput, ConversionInv, ConversionTypeOK
  <2>3. conversion.read = conversion.sum
    <3>1. conversion.sum # Absent
      BY DEF CheckInput, ConversionInv, ConversionTypeOK
    <3>2. conversion.sum <= conversion.read /\ conversion.read <= descriptor
      BY <1>2, <3>1 DEF CheckInput, ConversionInv, InputOK
    <3>3. conversion.sum \in Nat /\ conversion.read \in Nat
      BY ContentNumbers DEF ConversionInv, ConversionTypeOK, Conversion
    <3> QED
      BY <1>2, <3>2, <3>3
  <2>4. InputOK' /\ OutputOK'
    BY <1>2, <2>1, <2>3
    DEF CheckInput, ConversionInv, InputOK, OutputOK, Summed, exportVars
  <2> QED
    BY <2>2, <2>4 DEF ConversionInv
<1> QED
  BY <1>1, <1>2 DEF CheckInput

LEMMA PublishKeepsInv ==
  ASSUME ConversionInv, Publish
  PROVE  ConversionInv'
<1> USE DEF At, Owner
<1>1. CASE UNCHANGED output /\ Refuse
  BY <1>1, FinishEnds
  DEF Publish, Refuse, ConversionInv, ConversionTypeOK, EvidenceIsTrue, Files
<1>2. CASE output' = partial /\ Goto("measure") /\ UNCHANGED <<calls, answers>>
  <2>1. conversion' \in Conversion /\ conversion'.at = "measure"
        /\ conversion'.owner = conversion.owner /\ conversion'.sum = conversion.sum
    BY <1>2 DEF Goto, ConversionInv, ConversionTypeOK, Conversion, ConversionLabels
  <2>2. output' = conversion.sum /\ conversion.sum \in Contents \cup {Absent}
    BY <1>2 DEF Publish, ConversionInv, ConversionTypeOK, OutputOK, Conversion
  <2>3. ConversionTypeOK' /\ ExportIsWhole' /\ ExportOK' /\ EvidenceIsTrue'
    BY <1>2, <2>1, <2>2, OwnerStays DEF Publish, ConversionInv, ConversionTypeOK, Files
  <2>4. InputOK' /\ OutputOK'
    BY <1>2, <2>1, <2>2
    DEF Publish, ConversionInv, InputOK, OutputOK, Summed, exportVars
  <2> QED
    BY <2>3, <2>4 DEF ConversionInv
<1> QED
  BY <1>1, <1>2 DEF Publish

LEMMA MeasureKeepsInv ==
  ASSUME ConversionInv, MeasureOutput
  PROVE  ConversionInv'
<1> USE DEF At, Owner
<1>1. CASE output' \in {output, Absent} /\ Refuse
  BY <1>1, FinishEnds
  DEF MeasureOutput, Refuse, ConversionInv, ConversionTypeOK, EvidenceIsTrue
<1>2. CASE /\ output # Absent
           /\ conversion' = [conversion EXCEPT !.at = "manifest", !.made = output]
           /\ UNCHANGED <<output, calls, answers>>
  <2>1. conversion' \in Conversion /\ conversion'.at = "manifest"
        /\ conversion'.owner = conversion.owner /\ conversion'.sum = conversion.sum
        /\ conversion'.made = output
    BY <1>2 DEF ConversionInv, ConversionTypeOK, Conversion, ConversionLabels, Files
  <2>2. ConversionTypeOK' /\ ExportIsWhole' /\ ExportOK' /\ EvidenceIsTrue'
    BY <1>2, <2>1, OwnerStays DEF MeasureOutput, ConversionInv, ConversionTypeOK
  <2>3. InputOK' /\ OutputOK'
    BY <1>2, <2>1
    DEF MeasureOutput, ConversionInv, InputOK, OutputOK, Summed, exportVars
  <2> QED
    BY <2>2, <2>3 DEF ConversionInv
<1> QED
  BY <1>1, <1>2 DEF MeasureOutput

LEMMA WriteManifestKeepsInv ==
  ASSUME ConversionInv, WriteManifest
  PROVE  ConversionInv'
<1> USE DEF At, Owner
<1>1. CASE UNCHANGED manifest /\ Refuse
  BY <1>1, FinishEnds
  DEF WriteManifest, Refuse, ConversionInv, ConversionTypeOK, EvidenceIsTrue
<1>2. CASE /\ manifest' = [input |-> conversion.sum, output |-> conversion.made]
           /\ Answer(conversion.made)
  <2>1. /\ conversion.made = conversion.sum /\ conversion.made \in Files
        /\ conversion.sum \in Contents \cup {Absent}
    BY DEF WriteManifest, ConversionInv, ConversionTypeOK, OutputOK, Conversion
  <2>2. answers' \in [Requests -> Evidence] /\ manifest' \in Evidence
    BY <1>2, <2>1, AnswerType DEF WriteManifest, Evidence
  <2>3. EvidenceIsTrue'
    BY <1>2, <2>1, AnswerIsTrue DEF EvidenceIsTrue
  <2> QED
    BY <1>2, <2>2, <2>3, FinishEnds
    DEF WriteManifest, Answer, ConversionInv, ConversionTypeOK
<1> QED
  BY <1>1, <1>2 DEF WriteManifest

-----------------------------------------------------------------------------
(* The callers and the surroundings *)

(* Requests come and are left: the holder of the mutex is not moved.       *)
LEMMA CallsKeepInv ==
  ASSUME ConversionInv, UNCHANGED <<exportVars, partial, output, manifest, answers>>,
         UNCHANGED conversion, calls' \in [Requests -> CallStates],
         \A r \in Requests : calls[r] # "none" => calls'[r] # "none"
  PROVE  ConversionInv'
<1> USE DEF At, Owner, exportVars
<1>1. Owner \in Requests \cup {NoRequest}
  BY DEF ConversionInv, ConversionTypeOK, Conversion
<1>2. ConversionTypeOK'
  BY <1>1 DEF ConversionInv, ConversionTypeOK
<1>3. ExportIsWhole' /\ EvidenceIsTrue' /\ ExportOK' /\ InputOK' /\ OutputOK'
  BY DEF ConversionInv, ExportIsWhole, EvidenceIsTrue, ExportOK, InputOK, OutputOK, Summed
<1> QED
  BY <1>2, <1>3 DEF ConversionInv

LEMMA RequestKeepsInv ==
  ASSUME ConversionInv, NEW r \in Requests, Send(r) \/ CallerLeaves(r) \/ Acquire(r)
  PROVE  ConversionInv'
<1>1. CASE Send(r)
  BY <1>1, CallsKeepInv DEF Send, CallStates, ConversionInv, ConversionTypeOK
<1>2. CASE CallerLeaves(r)
  BY <1>2, CallsKeepInv DEF CallerLeaves, CallStates, ConversionInv, ConversionTypeOK
<1>3. CASE Acquire(r)
  <2> USE DEF At, Owner, exportVars
  <2>1. conversion' \in Conversion /\ conversion'.owner = r /\ conversion'.at = "input"
    BY <1>3, ContentTypes DEF Acquire, Idle, Conversion, ConversionLabels, Files
  <2>2. ConversionTypeOK'
    BY <1>3, <2>1, ConversionAssumption DEF Acquire, ConversionInv, ConversionTypeOK
  <2>3. ExportIsWhole' /\ EvidenceIsTrue' /\ ExportOK'
    BY <1>3 DEF Acquire, ConversionInv, ExportIsWhole, EvidenceIsTrue, ExportOK
  <2>4. InputOK' /\ OutputOK'
    BY <2>1 DEF InputOK, OutputOK, Summed
  <2> QED
    BY <2>2, <2>3, <2>4 DEF ConversionInv
<1> QED
  BY <1>1, <1>2, <1>3

LEMMA WorkerDiesKeepsInv ==
  ASSUME ConversionInv, WorkerDies
  PROVE  ConversionInv'
<1> USE DEF exportVars, WorkerDies
<1>1. Idle \in Conversion /\ calls' \in [Requests -> CallStates]
  BY ContentTypes DEF CallStates
<1>2. ConversionTypeOK'
  BY <1>1 DEF ConversionInv, ConversionTypeOK, At, Owner, Idle
<1>3. ExportIsWhole' /\ EvidenceIsTrue' /\ ExportOK'
  BY DEF ConversionInv, ExportIsWhole, EvidenceIsTrue, ExportOK
<1>4. InputOK' /\ OutputOK'
  BY DEF InputOK, OutputOK, Summed, At, Idle
<1> QED
  BY <1>2, <1>3, <1>4 DEF ConversionInv

LEMMA BackendDiesKeepsInv ==
  ASSUME ConversionInv, BackendDies
  PROVE  ConversionInv'
<1> USE DEF BackendDies, At, Owner
<1>1. /\ export' = NoExport
      /\ NoExport \in [at: ExportLabels, content: Contents \cup {Absent}]
      /\ calls' \in [Requests -> CallStates]
      /\ \A r \in Requests : calls[r] # "none" => calls'[r] # "none"
  BY ContentTypes DEF ConversionInv, ConversionTypeOK, CallStates
<1>2. Owner \in Requests \cup {NoRequest}
  BY DEF ConversionInv, ConversionTypeOK, Conversion
<1>3. ConversionTypeOK'
  BY <1>1, <1>2 DEF ConversionInv, ConversionTypeOK
<1>4. ExportIsWhole' /\ EvidenceIsTrue' /\ InputOK' /\ OutputOK'
  BY DEF ConversionInv, ExportIsWhole, EvidenceIsTrue, InputOK, OutputOK, Summed
<1>5. ExportOK'
  BY DEF ConversionInv, ExportOK, NoExport
<1> QED
  BY <1>3, <1>4, <1>5 DEF ConversionInv

LEMMA RemoveOutputKeepsInv ==
  ASSUME ConversionInv, RemoveOutput
  PROVE  ConversionInv'
<1> USE DEF RemoveOutput, At, Owner, exportVars
<1>1. manifest' \in Evidence /\ manifest'.output = manifest'.input
  BY ContentTypes DEF ConversionInv, ConversionTypeOK, EvidenceIsTrue, NoEvidence
<1>2. ConversionTypeOK' /\ EvidenceIsTrue'
  BY <1>1 DEF ConversionInv, ConversionTypeOK, EvidenceIsTrue
<1>3. ExportIsWhole' /\ ExportOK' /\ InputOK' /\ OutputOK'
  BY DEF ConversionInv, ExportIsWhole, ExportOK, InputOK, OutputOK, Summed
<1> QED
  BY <1>2, <1>3 DEF ConversionInv

LEMMA ConvertKeepsInv ==
  ASSUME ConversionInv, ConvertStep
  PROVE  ConversionInv'
BY ReadInputKeepsInv, InspectKeepsInv, RemovePartialKeepsInv, StartCopyKeepsInv,
   CopyDoneKeepsInv, CopyFailsKeepsInv, CheckInputKeepsInv, PublishKeepsInv,
   MeasureKeepsInv, WriteManifestKeepsInv
DEF ConvertStep

LEMMA NextKeepsInv ==
  ASSUME ConversionInv, [ConversionNext]_conversionVars
  PROVE  ConversionInv'
<1>1. CASE ExportAction /\ UNCHANGED workerVars
  BY <1>1, ExportKeepsInv
<1>2. CASE \E r \in Requests : Send(r) \/ CallerLeaves(r) \/ Acquire(r)
  BY <1>2, RequestKeepsInv
<1>3. CASE ConvertStep \/ WorkerDies \/ BackendDies \/ RemoveOutput
  BY <1>3, ConvertKeepsInv, WorkerDiesKeepsInv, BackendDiesKeepsInv, RemoveOutputKeepsInv
<1>4. CASE UNCHANGED conversionVars
  BY <1>4, CallsKeepInv DEF conversionVars, workerVars, ConversionInv, ConversionTypeOK
<1> QED
  BY <1>1, <1>2, <1>3, <1>4 DEF ConversionNext, ExportAction

-----------------------------------------------------------------------------
(* The theorems *)

(* The inductive invariant of the export and the conversion holds in every *)
(* reachable state.                                                        *)
THEOREM ConversionInvariance == ConversionSpec => []ConversionInv
<1>1. ConversionInit => ConversionInv
  BY InitInv
<1>2. ConversionInv /\ [ConversionNext]_conversionVars => ConversionInv'
  BY NextKeepsInv
<1> QED
  BY <1>1, <1>2, PTL DEF ConversionSpec

(* A descriptor in the workspace never stands beside an extent of another  *)
(* export, whichever of Download, rename, hash and record failed.          *)
THEOREM ExportsAreWhole == ConversionSpec => []ExportIsWhole
<1>1. ConversionInv => ExportIsWhole
  BY DEF ConversionInv
<1> QED
  BY <1>1, ConversionInvariance, PTL

(* What the manifest and the answers of the worker say of an input and an  *)
(* output is so, however the exports and the conversions interleave.       *)
THEOREM EvidenceHolds == ConversionSpec => []EvidenceIsTrue
<1>1. ConversionInv => EvidenceIsTrue
  BY DEF ConversionInv
<1> QED
  BY <1>1, ConversionInvariance, PTL

-----------------------------------------------------------------------------
(* What is published *)

LEMMA OutputChanges ==
  ASSUME ConversionInv, ConversionNext, output # Absent, output' # output
  PROVE  /\ output' = Absent
         /\ RemoveOutput \/ (At("measure") /\ MeasureOutput)
<1>1. CASE RemoveOutput
  BY <1>1 DEF RemoveOutput
<1>2. CASE MeasureOutput
  BY <1>2 DEF MeasureOutput
<1>3. CASE Publish
  BY <1>3 DEF Publish, ConversionInv, OutputOK, At
<1>4. CASE ExportAction /\ UNCHANGED workerVars
  BY <1>4 DEF workerVars
<1>5. CASE \E r \in Requests : Send(r) \/ CallerLeaves(r) \/ Acquire(r)
  BY <1>5 DEF Send, CallerLeaves, Acquire
<1>6. CASE ReadInput \/ InspectOutput \/ RemovePartial \/ StartCopy \/ CopyDone
  BY <1>6 DEF ReadInput, InspectOutput, RemovePartial, StartCopy, CopyDone
<1>7. CASE CopyFails \/ CheckInput \/ WriteManifest
  BY <1>7 DEF CopyFails, CheckInput, WriteManifest
<1>8. CASE WorkerDies \/ BackendDies
  BY <1>8 DEF WorkerDies, BackendDies
<1> QED
  BY <1>1, <1>2, <1>3, <1>4, <1>5, <1>6, <1>7, <1>8
  DEF ConversionNext, ExportAction, ConvertStep

(* No step replaces an output, and one that its manifest vouches for goes  *)
(* only by the hand of an operator or above the size cap: Convert writes   *)
(* an output only where it found none.                                     *)
THEOREM PublishedStays == ConversionSpec => PublishedIsKept
<1>1. ConversionInv /\ [ConversionNext]_conversionVars =>
        [output # Absent /\ output' # output =>
           /\ output' = Absent
           /\ Vouched => RemoveOutput \/ (At("measure") /\ MeasureOutput)]_conversionVars
  <2> SUFFICES ASSUME ConversionInv, ConversionNext, output # Absent, output' # output
               PROVE  /\ output' = Absent
                      /\ RemoveOutput \/ (At("measure") /\ MeasureOutput)
    OBVIOUS
  <2> QED
    BY OutputChanges
<1> QED
  BY <1>1, ConversionInvariance, PTL DEF ConversionSpec, PublishedIsKept

-----------------------------------------------------------------------------
(* The refinement: positions and files of the two are steps of DiskSteps.  *)

LEMMA DiskStates == /\ Exported \in Disk!Exported /\ Exported' \in Disk!Exported
                    /\ Converted \in Disk!Converted /\ Converted' \in Disk!Converted
BY DEF Exported, Converted, Disk!Exported, Disk!Converted

LEMMA ExportImplements ==
  ASSUME ConversionInv, ExportAction, UNCHANGED workerVars
  PROVE  [Disk!Next]_<<Exported, Converted>>
<1> USE DiskStates DEF Disk!Next
<1>1. UNCHANGED Converted
  BY DEF workerVars, Converted, Vouched
<1>2. CASE BeginExport \/ SourceRuns \/ Download \/ DownloadFails
  <2>1. UNCHANGED Exported
    BY <1>2
    DEF BeginExport, SourceRuns, Download, DownloadFails, NoExport, ConversionInv,
        ConversionTypeOK, Exported
  <2> QED
    BY <1>1, <2>1
<1>3. CASE RenameExtent
  <2>1. Exported = "absent"
    BY <1>3 DEF RenameExtent, ConversionInv, ExportOK, Exported
  <2>2. UNCHANGED Exported \/ Exported' = "pending"
    BY <1>3, <2>1 DEF RenameExtent, ConversionInv, ConversionTypeOK, NoExport, Exported
  <2> QED
    BY <1>1, <2>1, <2>2 DEF Disk!ExportDisk
<1>4. CASE RenameDescriptor \/ HashExport \/ WriteRecord
  <2>1. Exported = "pending"
    BY <1>4 DEF RenameDescriptor, HashExport, WriteRecord, Exported
  <2> QED
    BY <1>1, <2>1 DEF Disk!ExportDisk
<1>5. CASE RemoveExported
  <2>1. CASE Exported = "pending"
    BY <1>1, <1>5, <2>1 DEF RemoveExported, Exported
  <2>2. CASE Exported # "pending" /\ descriptor = descriptor' /\ extent = extent'
    BY <1>1, <1>5, <2>2 DEF RemoveExported, Exported
  <2>3. CASE Exported # "pending" /\ ~(descriptor = descriptor' /\ extent = extent')
    BY <1>1, <1>5, <2>3 DEF RemoveExported, Exported, Disk!RemoveExport
  <2> QED
    BY <2>1, <2>2, <2>3
<1> QED
  BY <1>2, <1>3, <1>4, <1>5 DEF ExportAction, ExportStep

LEMMA ConvertImplements ==
  ASSUME ConversionInv, ConvertStep
  PROVE  [Disk!Next]_<<Exported, Converted>>
<1> USE DiskStates DEF Disk!Next
<1>1. UNCHANGED Exported
  BY DEF ConvertStep, ReadInput, InspectOutput, RemovePartial, StartCopy, CopyDone,
         CopyFails, CheckInput, Publish, MeasureOutput, WriteManifest, exportVars, Exported
<1>2. CASE MeasureOutput \/ WriteManifest
  BY <1>1, <1>2 DEF MeasureOutput, WriteManifest, At, Converted, Disk!ConvertDisk
<1>3. CASE Publish
  <2>1. Converted = "absent"
    BY <1>3 DEF Publish, ConversionInv, OutputOK, At, Converted
  <2>2. UNCHANGED Converted \/ Converted' = "pending"
    BY <1>3, <2>1
    DEF Publish, Refuse, Finish, Idle, Goto, ConversionInv, ConversionTypeOK, OutputOK,
        Conversion, At, Converted
  <2> QED
    BY <1>1, <2>1, <2>2 DEF Disk!ConvertDisk
<1>4. CASE ~(Publish \/ MeasureOutput \/ WriteManifest)
  <2>1. /\ UNCHANGED <<output, manifest>>
        /\ conversion.at \notin {"measure", "manifest"}
        /\ conversion'.at \notin {"measure", "manifest"}
    <3>1. conversion \in Conversion
      BY DEF ConversionInv, ConversionTypeOK
    <3>2. Refuse => conversion'.at = "free"
      BY DEF Refuse, Finish, Idle
    <3>3. CASE ReadInput \/ RemovePartial
      BY <3>1, <3>2, <3>3 DEF ReadInput, RemovePartial, Goto, At, Conversion
    <3>4. CASE InspectOutput
      <4>1. Answer(output) => conversion'.at = "free"
        BY DEF Answer, Finish, Idle
      <4> QED
        BY <3>1, <3>2, <3>4, <4>1 DEF InspectOutput, Goto, At, Conversion
    <3>5. CASE StartCopy \/ CopyDone
      BY <3>1, <3>5 DEF StartCopy, CopyDone, Goto, At, Conversion
    <3>6. CASE CopyFails
      BY <3>2, <3>6 DEF CopyFails, At
    <3>7. CASE CheckInput
      BY <3>1, <3>2, <3>7 DEF CheckInput, Goto, At, Conversion
    <3> QED
      BY <1>4, <3>3, <3>4, <3>5, <3>6, <3>7 DEF ConvertStep
  <2>2. UNCHANGED Converted
    BY <2>1 DEF Converted, Vouched
  <2> QED
    BY <1>1, <2>2
<1> QED
  BY <1>2, <1>3, <1>4

LEMMA SurroundingsImplement ==
  ASSUME ConversionInv,
         \/ \E r \in Requests : Send(r) \/ CallerLeaves(r) \/ Acquire(r)
         \/ WorkerDies \/ BackendDies \/ RemoveOutput
  PROVE  [Disk!Next]_<<Exported, Converted>>
<1> USE DiskStates DEF Disk!Next
<1>1. CASE \E r \in Requests : Send(r) \/ CallerLeaves(r) \/ Acquire(r)
  BY <1>1
  DEF Send, CallerLeaves, Acquire, Idle, At, exportVars, Exported, Converted, Vouched
<1>2. CASE WorkerDies
  <2>1. UNCHANGED Exported
    BY <1>2 DEF WorkerDies, exportVars, Exported
  <2>2. UNCHANGED Converted \/ Converted = "pending"
    BY <1>2 DEF WorkerDies, Idle, Converted, Vouched
  <2> QED
    BY <2>1, <2>2 DEF Disk!ConvertDisk
<1>3. CASE BackendDies
  <2>1. UNCHANGED Converted
    BY <1>3 DEF BackendDies, Converted, Vouched
  <2>2. UNCHANGED Exported \/ Exported = "pending"
    BY <1>3 DEF BackendDies, NoExport, Exported
  <2> QED
    BY <2>1, <2>2 DEF Disk!ExportDisk
<1>4. CASE RemoveOutput
  <2>1. UNCHANGED Exported
    BY <1>4 DEF RemoveOutput, exportVars, Exported
  <2>2. \/ UNCHANGED Converted
        \/ Converted \in {"complete", "orphan"} /\ Converted' = "absent"
    BY <1>4 DEF RemoveOutput, Converted
  <2> QED
    BY <2>1, <2>2 DEF Disk!RemoveConverted
<1> QED
  BY <1>1, <1>2, <1>3, <1>4

(* Export and conversion implement the steps the engine takes them for.    *)
THEOREM DiskRefinement == ConversionSpec => ImplementsDiskSteps
<1>1. ConversionInit => Disk!Init
  BY DEF ConversionInit, ExportInit, NoExport, Idle, Disk!Init, Exported, Converted
<1>2. ConversionInv /\ [ConversionNext]_conversionVars
        => [Disk!Next]_<<Exported, Converted>>
  <2> SUFFICES ASSUME ConversionInv, [ConversionNext]_conversionVars
               PROVE  [Disk!Next]_<<Exported, Converted>>
    OBVIOUS
  <2>1. CASE UNCHANGED conversionVars
    BY <2>1 DEF conversionVars, exportVars, workerVars, Exported, Converted, Vouched
  <2> QED
    BY <2>1, ExportImplements, ConvertImplements, SurroundingsImplement
    DEF ConversionNext, ExportAction
<1> QED
  BY <1>1, <1>2, ConversionInvariance, PTL
  DEF ConversionSpec, ImplementsDiskSteps, Disk!Spec

=============================================================================
