---------------------------- MODULE EvidenceVerifier ----------------------------
(***************************************************************************)
(* Evidence packages and bundles, as the backend builds them and as the    *)
(* auditor's verifier judges them.  Nothing here keeps state.              *)
(*   report   [report_id, content_hash, finite] and, under the names in    *)
(*            Lists, sequences of [stamp, id, command_id]                  *)
(*   package  what build_evidence_package makes of a report                *)
(*   bundle   the zip: its manifest, its package, and the content of each  *)
(*            artifact by id; present: its members but the artifacts       *)
(* The hash of a value is the set that holds it: equal for equal values    *)
(* only.  The header that a package copies from its mission is left out.   *)
(***************************************************************************)
EXTENDS Integers, Sequences, FiniteSets

Lists ==
  {"mission_states", "mission_events", "robot_commands", "safety_events",
   "perception_events", "payload_results"}

NoId == "none"   \* a record that names no command
NoStamp == -1    \* a record without a complete stamp

Hash(value) == {value}
NoHash == {}

ExitValid == 0
ExitHashMismatch == 1
ExitSchemaMismatch == 2
ExitSemanticFailure == 3

-----------------------------------------------------------------------------
(* Packages.                                                               *)

PackageSchema == "orimus_evidence_package 1.0 SHA-256"

HashMissionReport(report) == Hash([report EXCEPT !.content_hash = NoHash])

HashEvidencePackage(package) == Hash([package EXCEPT !.export_hash = NoHash])

BuildSummary(report) == [list \in Lists |-> Len(report[list])]

ArtifactManifest(report) ==
  [i \in 1..Len(report.perception_events) |-> report.perception_events[i].id]

BuildEvidencePackage(report) ==
  LET package == [schema |-> PackageSchema,
                  export_hash |-> NoHash,
                  report |-> [report_id |-> report.report_id,
                              content_hash |-> report.content_hash],
                  summary |-> BuildSummary(report),
                  artifact_manifest |-> ArtifactManifest(report),
                  mission_report |-> report]
  IN  [package EXCEPT !.export_hash = HashEvidencePackage(package)]

ValidHashes(package) ==
  LET report == package.mission_report
  IN  /\ package.export_hash = HashEvidencePackage(package)
      /\ report.content_hash = HashMissionReport(report)
      /\ package.report.content_hash = report.content_hash

\* timestamps_are_monotonic; records without a stamp are passed over.
Monotonic(items) ==
  \A i, j \in 1..Len(items) :
    i < j /\ NoStamp \notin {items[i].stamp, items[j].stamp} => items[i].stamp <= items[j].stamp

\* Every command that a safety event names is among the robot's commands.
CommandsResolve(events, commands) ==
  \A e \in events : e.command_id # NoId => \E c \in commands : c.command_id = e.command_id

Items(list) == {list[i] : i \in 1..Len(list)}

ValidSemantics(package) ==
  LET report == package.mission_report
  IN  /\ package.summary = BuildSummary(report)
      /\ \A list \in Lists : Monotonic(report[list])
      /\ CommandsResolve(Items(report.safety_events), Items(report.robot_commands))

VerifyEvidencePackage(package) ==
  CASE package.schema # PackageSchema -> ExitSchemaMismatch
    [] package.schema = PackageSchema /\ ~ValidHashes(package) -> ExitHashMismatch
    [] package.schema = PackageSchema /\ ValidHashes(package) ->
         IF ValidSemantics(package) THEN ExitValid ELSE ExitSemanticFailure

-----------------------------------------------------------------------------
(* Bundles.  A payload is an artifact as it was read: the content that goes *)
(* into the zip, and the hash of a second reading of the file.             *)

BundleSchema == "orimus_evidence_bundle_manifest 1.0 SHA-256"

Required == {"manifest.json", "evidence_package.json"}

\* A member with a path that leads out of the directory it is unpacked in.
UnsafeMember == "../notes.txt"

HashBundleManifest(manifest) == Hash([manifest EXCEPT !.bundle_hash = NoHash])

BuildManifest(package, payloads) ==
  LET manifest == [schema |-> BundleSchema,
                   bundle_hash |-> NoHash,
                   evidence_package_hash |-> HashEvidencePackage(package),
                   artifact_count |-> Cardinality(payloads),
                   artifacts |-> {[artifact_id |-> p.artifact_id, sha256_hash |-> p.sha256_hash,
                                   size_bytes |-> p.size_bytes] : p \in payloads}]
  IN  [manifest EXCEPT !.bundle_hash = HashBundleManifest(manifest)]

\* The zip's entries are written in the order of their names.
BuildEvidenceBundle(report, payloads) ==
  LET package == BuildEvidencePackage(report)
  IN  [sorted |-> TRUE,
       present |-> Required,
       manifest |-> BuildManifest(package, payloads),
       package |-> package,
       artifact_bytes |-> [a \in {p.artifact_id : p \in payloads} |->
                             (CHOOSE p \in payloads : p.artifact_id = a).bytes_data]]

\* Seeded fault: the contents are not compared with their hashes.
ValidBundleHashesOfManifest(bundle) ==
  /\ bundle.manifest.bundle_hash = HashBundleManifest(bundle.manifest)
  /\ bundle.manifest.evidence_package_hash = HashEvidencePackage(bundle.package)

\* An artifact without a file is left to ValidBundleSemantics.
ValidBundleHashes(bundle) ==
  /\ bundle.manifest.bundle_hash = HashBundleManifest(bundle.manifest)
  /\ bundle.manifest.evidence_package_hash = HashEvidencePackage(bundle.package)
  /\ \A a \in bundle.manifest.artifacts :
       a.artifact_id \in DOMAIN bundle.artifact_bytes =>
         a.sha256_hash = Hash(bundle.artifact_bytes[a.artifact_id])

ValidBundleSemantics(bundle) ==
  /\ bundle.manifest.artifact_count = Cardinality(bundle.manifest.artifacts)
  /\ \A a \in bundle.manifest.artifacts :
       /\ a.artifact_id \in DOMAIN bundle.artifact_bytes
       /\ a.size_bytes = bundle.artifact_bytes[a.artifact_id].size

VerifyEvidenceBundle(bundle) ==
  IF ~bundle.sorted THEN ExitHashMismatch
  ELSE IF ~(Required \subseteq bundle.present) \/ UnsafeMember \in bundle.present
       THEN ExitSchemaMismatch
  ELSE IF bundle.manifest.schema # BundleSchema THEN ExitSchemaMismatch
  ELSE IF ~ValidBundleHashes(bundle) THEN ExitHashMismatch
  ELSE IF VerifyEvidencePackage(bundle.package) # ExitValid
       THEN VerifyEvidencePackage(bundle.package)
  ELSE IF ~ValidBundleSemantics(bundle) THEN ExitSemanticFailure
  ELSE ExitValid
=============================================================================
