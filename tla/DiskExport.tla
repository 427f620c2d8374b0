----------------------------- MODULE DiskExport -----------------------------
(***************************************************************************)
(* The export of one disk into the workspace of its job                    *)
(* (backend/internal/platform/vmware/export.go), file by file: the         *)
(* descriptor, an extent, and the record of their checksums, which is      *)
(* <descriptor>.manifest.json.  The temporary files of a download have a   *)
(* new name each time; nothing ever reads one again, and they are left     *)
(* out.                                                                    *)
(*                                                                         *)
(* A file is told apart by the contents of the source disk it was          *)
(* downloaded from: 1, 2, ... in the order the disk had them.  A new       *)
(* content has a new descriptor too, since VMware gives it a new CID.      *)
(* Two exports of one job never overlap (JobEngine: one mutex).            *)
(***************************************************************************)
EXTENDS Integers

CONSTANT MaxContent    \* a bound: contents the source disk ever has

ASSUME DiskExportAssumption == MaxContent \in Nat \ {0}

VARIABLES
  source,        \* the content of the source disk
  export,        \* the running export: its position, and what it downloads
  descriptor,    \* the exported files: the content they were read from
  extent,
  record         \* whether the record of checksums exists

exportVars == <<source, export, descriptor, extent, record>>

Contents == 1..MaxContent
Absent == 0

ExportLabels == {"idle", "download", "extent", "descriptor", "hash", "record"}
NoExport == [at |-> "idle", content |-> Absent]

ExportAt(label) == export.at = label
Continue(label) == export' = [export EXCEPT !.at = label]

\* Every way out of an export.
EndExport == export' = NoExport

-----------------------------------------------------------------------------
(* ExportDisk *)

\* Mutation of BeginExport: the destination may exist.
BeginOver ==
  /\ ExportAt("idle")
  /\ export' = [at |-> "download", content |-> source]
  /\ UNCHANGED <<source, descriptor, extent, record>>

\* The destination must not exist and the source must be powered off.
BeginExport ==
  /\ ExportAt("idle") /\ descriptor = Absent
  /\ export' = [at |-> "download", content |-> source]
  /\ UNCHANGED <<source, descriptor, extent, record>>

\* Mutation of Download: it is not looked whether the extent exists.
DownloadOver ==
  /\ ExportAt("download")
  /\ Continue("extent")
  /\ UNCHANGED <<source, descriptor, extent, record>>

Download ==
  /\ ExportAt("download") /\ extent = Absent
  /\ Continue("extent")
  /\ UNCHANGED <<source, descriptor, extent, record>>

DownloadFails ==
  /\ ExportAt("download")
  /\ EndExport
  /\ UNCHANGED <<source, descriptor, extent, record>>

RenameExtent ==
  /\ ExportAt("extent")
  /\ \/ extent' = export.content /\ Continue("descriptor")
     \/ UNCHANGED extent /\ EndExport
  /\ UNCHANGED <<source, descriptor, record>>

RenameDescriptor ==
  /\ ExportAt("descriptor")
  /\ \/ descriptor' = export.content /\ UNCHANGED extent /\ Continue("hash")
     \/ UNCHANGED descriptor /\ extent' = Absent /\ EndExport
  /\ UNCHANGED <<source, record>>

\* After an error only the files hashed so far are removed, and the
\* descriptor: the extent that could not be read stays.
HashExport ==
  /\ ExportAt("hash")
  /\ \/ descriptor # Absent /\ extent # Absent
        /\ UNCHANGED descriptor /\ Continue("record")
     \/ descriptor' = Absent /\ EndExport
  /\ UNCHANGED <<source, extent, record>>

\* The record must not exist; when it cannot be written the files go.  It
\* goes as well, unless it was closing it that failed.
WriteRecord ==
  /\ ExportAt("record") /\ EndExport
  /\ \/ ~record /\ record' = TRUE /\ UNCHANGED <<descriptor, extent>>
     \/ descriptor' = Absent /\ extent' = Absent /\ (UNCHANGED record \/ record' = TRUE)
  /\ UNCHANGED source

ExportStep ==
  \/ Download \/ DownloadFails \/ RenameExtent \/ RenameDescriptor
  \/ HashExport \/ WriteRecord

-----------------------------------------------------------------------------
(* The surroundings *)

\* The source runs and is powered off again.  That it does not run during
\* an export is what the check of its power state is meant to ensure; the
\* check is made once, before the first read.
SourceRuns ==
  /\ ExportAt("idle") /\ source < MaxContent
  /\ source' = source + 1
  /\ UNCHANGED <<export, descriptor, extent, record>>

\* An operator removes files of a failed job, in any order.
RemoveExported ==
  /\ \/ descriptor # Absent /\ descriptor' = Absent /\ UNCHANGED <<extent, record>>
     \/ extent # Absent /\ extent' = Absent /\ UNCHANGED <<descriptor, record>>
     \/ record /\ record' = FALSE /\ UNCHANGED <<descriptor, extent>>
  /\ UNCHANGED <<source, export>>

ExportInit ==
  /\ source = 1 /\ export = NoExport
  /\ descriptor = Absent /\ extent = Absent /\ record = FALSE

-----------------------------------------------------------------------------
(* A descriptor in the workspace names an extent of the same export, or    *)
(* one that an operator has removed: whichever step of whichever export    *)
(* failed, no disk is put together from two exports.                       *)
ExportIsWhole ==
  descriptor # Absent => extent \in {Absent, descriptor}

=============================================================================
