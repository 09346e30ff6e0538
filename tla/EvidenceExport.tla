----------------------------- MODULE EvidenceExport -----------------------------
(***************************************************************************)
(* The backend's exports: a report with its artifacts as a bundle, as a    *)
(* JSON package, or one artifact as a download; and the auditor who        *)
(* verifies what was exported.  The endpoints only read, so one request is *)
(* enough to see all that files which change meanwhile can do to it.       *)
(*   GET /reports/{id}/export-bundle, /reports/{id}/export                 *)
(*   GET /artifacts/{id}/download                                          *)
(***************************************************************************)
EXTENDS EvidenceVerifier

CONSTANTS
  Reports,       \* the reports that the database may hold
  Registry,      \* evidence_artifacts: rows [artifact_id, report_id, inside,
                 \*   sha256_hash]; inside: the path lies under artifact_root
  Artifacts,     \* artifact ids, numbers, for which there may be files
  Contents       \* the bytes that a file may hold: [content, size] records

ASSUME ExportAssumption ==
  /\ \A row \in Registry : row.artifact_id \in Artifacts
  /\ \A row, other \in Registry : row.artifact_id = other.artifact_id => row = other
  /\ Artifacts \subseteq Nat \ {0}

VARIABLES
  files,         \* files[a]: {} or the content of the artifact's file
  endpoint,
  report,        \* {} or the report that the request asks for
  artifact,      \* the artifact that a download asks for, else 0
  export_stage,  \* what the request's thread does next
  to_read,       \* linked artifacts that the bundle does not have yet
  reading,       \* {} or the bytes that were read and not hashed yet
  payloads,      \* build_artifact_payloads: what was read and hashed
  status,        \* the HTTP status, 0 before the answer
  exported,      \* {} or the bundle or package that was answered
  download,      \* {} or the content that was answered
  altered,       \* whether the export was altered after it was answered
  exit_code,     \* the verifier's, -1 before it has run
  changed_in     \* history: the stages during which a file changed

progress == <<to_read, reading, payloads, exported, download, altered, exit_code>>
export_vars == <<files, endpoint, report, artifact, export_stage, status, changed_in, progress>>

The(S) == CHOOSE x \in S : TRUE

\* list_artifacts: what the registry links to the report.
Linked(r) == {row.artifact_id : row \in {e \in Registry : e.report_id = r.report_id}}

\* The artifacts whose files the request may read; no other file matters.
Touched == IF endpoint = "download" THEN {artifact}
           ELSE IF endpoint = "export" \/ report = {} THEN {} ELSE Linked(The(report))

FileContents == {{}} \cup {{c} : c \in Contents}

ExportInit ==
  /\ \/ endpoint = "download" /\ report = {} /\ artifact \in Artifacts
     \/ endpoint \in {"export-bundle", "export"} /\ artifact = 0
        /\ report \in {{}} \cup {{r} : r \in Reports}
  /\ files \in {f \in [Artifacts -> FileContents] : \A a \in Artifacts \ Touched : f[a] = {}}
  /\ export_stage = endpoint
  /\ to_read = {} /\ reading = {} /\ payloads = {}
  /\ status = 0
  /\ exported = {} /\ download = {} /\ altered = FALSE
  /\ exit_code = -1
  /\ changed_in = {}

Answer(code) == status' = code /\ export_stage' = "answered"

-----------------------------------------------------------------------------
(* export-bundle and export.                                               *)

\* get_report finds no row.
ReportNotFound ==
  /\ export_stage \in {"export-bundle", "export"}
  /\ report = {}
  /\ Answer(404)
  /\ UNCHANGED progress

ListArtifacts ==
  /\ export_stage = "export-bundle"
  /\ report # {}
  /\ to_read' = Linked(The(report))
  /\ export_stage' = "reading"
  /\ UNCHANGED <<status, reading, payloads, exported, download, altered, exit_code>>

NextToRead == CHOOSE a \in to_read : \A b \in to_read : a <= b

\* FileNotFoundError, by read_bytes or by hash_file.
ArtifactFileNotFound ==
  /\ export_stage \in {"reading", "hashing"}
  /\ to_read # {}
  /\ files[NextToRead] = {}
  /\ Answer(404)
  /\ UNCHANGED progress

ReadBytes ==
  /\ export_stage = "reading"
  /\ to_read # {}
  /\ files[NextToRead] # {}
  /\ reading' = files[NextToRead]
  /\ export_stage' = "hashing"
  /\ UNCHANGED <<status, to_read, payloads, exported, download, altered, exit_code>>

\* hash_file opens the file a second time.
HashArtifact ==
  /\ export_stage = "hashing"
  /\ files[NextToRead] # {}
  /\ payloads' = payloads \cup
       {[artifact_id |-> NextToRead, bytes_data |-> The(reading), size_bytes |-> The(reading).size,
         sha256_hash |-> Hash(The(files[NextToRead]))]}
  /\ to_read' = to_read \ {NextToRead}
  /\ reading' = {}
  /\ export_stage' = "reading"
  /\ UNCHANGED <<status, exported, download, altered, exit_code>>

AnswerBundle ==
  /\ export_stage = "reading"
  /\ to_read = {}
  /\ exported' = {BuildEvidenceBundle(The(report), payloads)}
  /\ Answer(200)
  /\ UNCHANGED <<to_read, reading, payloads, download, altered, exit_code>>

\* JSONResponse refuses a report with a number that JSON does not have.
AnswerPackage ==
  /\ export_stage = "export"
  /\ report # {}
  /\ IF The(report).finite
     THEN exported' = {BuildEvidencePackage(The(report))} /\ Answer(200)
     ELSE exported' = {} /\ Answer(500)
  /\ UNCHANGED <<to_read, reading, payloads, download, altered, exit_code>>

-----------------------------------------------------------------------------
(* download.                                                               *)

RowsOf(a) == {row \in Registry : row.artifact_id = a}

\* artifact_file: the registry's row, the path, the file.
FindArtifact ==
  /\ export_stage = "download"
  /\ IF \E row \in RowsOf(artifact) : row.inside /\ files[artifact] # {}
     THEN export_stage' = "comparing" /\ UNCHANGED status
     ELSE Answer(404)
  /\ UNCHANGED progress

\* Seeded fault: the content is hashed and the hash not compared.
HashComparedNever == TRUE

HashCompared == Hash(The(files[artifact])) = The(RowsOf(artifact)).sha256_hash

\* artifact_file goes on to hash the file; nobody catches its FileNotFoundError.
CompareHash ==
  /\ export_stage = "comparing"
  /\ \/ files[artifact] = {} /\ Answer(500)
     \/ files[artifact] # {} /\ ~HashCompared /\ Answer(409)
     \/ files[artifact] # {} /\ HashCompared /\ export_stage' = "sending" /\ UNCHANGED status
  /\ UNCHANGED progress

\* FileResponse opens the file after artifact_file has returned.
SendFile ==
  /\ export_stage = "sending"
  /\ download' = files[artifact]
  /\ IF files[artifact] = {} THEN Answer(500) ELSE Answer(200)
  /\ UNCHANGED <<to_read, reading, payloads, exported, altered, exit_code>>

-----------------------------------------------------------------------------
(* Afterwards.                                                             *)

\* What may become of a bundle on its way to the auditor: its members lose their
\* order, one is taken out, replaced, or added beside those the manifest lists.
\* Its hashes are not computed anew; nobody signs a bundle.
Alterations(bundle) ==
  {[bundle EXCEPT !.sorted = FALSE]}
  \cup {[bundle EXCEPT !.present = @ \ {name}] : name \in Required}
  \cup {[bundle EXCEPT !.package.mission_report = r] : r \in Reports \ {bundle.package.mission_report}}
  \cup {[bundle EXCEPT !.manifest.artifacts = @ \ {a}] : a \in bundle.manifest.artifacts}
  \cup {[bundle EXCEPT !.artifact_bytes[a] = c] :
          a \in DOMAIN bundle.artifact_bytes, c \in Contents}
  \cup {[bundle EXCEPT !.artifact_bytes = [b \in DOMAIN @ \ {a} |-> @[b]]] :
          a \in DOMAIN bundle.artifact_bytes}
  \cup {[bundle EXCEPT !.present = @ \cup {name}] : name \in {"notes.txt", UnsafeMember}}
  \cup {[bundle EXCEPT !.artifact_bytes = [b \in DOMAIN @ \cup {a} |-> IF b = a THEN c ELSE @[b]]] :
          a \in Artifacts \ DOMAIN bundle.artifact_bytes, c \in Contents}

AlterBundle ==
  /\ endpoint = "export-bundle" /\ export_stage = "answered"
  /\ exported # {} /\ ~altered /\ exit_code = -1
  /\ \E bundle \in Alterations(The(exported)) \ exported : exported' = {bundle}
  /\ altered' = TRUE
  /\ UNCHANGED <<export_stage, status, to_read, reading, payloads, download, exit_code>>

\* verify_evidence_bundle.py, verify_evidence_package.py
Verify ==
  /\ export_stage = "answered"
  /\ exported # {} /\ exit_code = -1
  /\ exit_code' = IF endpoint = "export-bundle" THEN VerifyEvidenceBundle(The(exported))
                                                ELSE VerifyEvidencePackage(The(exported))
  /\ UNCHANGED <<export_stage, status, to_read, reading, payloads, exported, download, altered>>

Request ==
  /\ \/ ReportNotFound \/ ListArtifacts \/ ArtifactFileNotFound \/ ReadBytes \/ HashArtifact
     \/ AnswerBundle \/ AnswerPackage
     \/ FindArtifact \/ CompareHash \/ SendFile
     \/ AlterBundle \/ Verify
  /\ UNCHANGED <<files, endpoint, report, artifact, changed_in>>

\* A file is written, overwritten or lost while the request is served.  The
\* camera's write_text empties a file before it fills it.
ChangeFile ==
  /\ export_stage # "answered"
  /\ \E a \in Touched, c \in FileContents :
       /\ files[a] # c
       /\ files' = [files EXCEPT ![a] = c]
  /\ changed_in' = changed_in \cup {export_stage}
  /\ UNCHANGED <<endpoint, report, artifact, export_stage, status, progress>>

ExportNext == Request \/ ChangeFile

ExportSafety == ExportInit /\ [][ExportNext]_export_vars

-----------------------------------------------------------------------------
(* Properties.                                                             *)

Undisturbed == changed_in = {}

\* The exit code that a report deserves by itself: its own hash, the order of
\* its records, and whether its safety events name commands that it has.
Owed(r) ==
  IF r.content_hash # HashMissionReport(r) THEN ExitHashMismatch
  ELSE IF /\ \A list \in Lists : Monotonic(r[list])
          /\ CommandsResolve(Items(r.safety_events), Items(r.robot_commands))
       THEN ExitValid ELSE ExitSemanticFailure

\* The verifier and the exports agree about what an export is worth.  A bundle
\* that it accepts holds the report of the database and lists every artifact that
\* the registry links to it, each with its bytes as they were at one moment: an
\* artifact that changed between its two readings, or a listed member that was
\* replaced or taken out later, is rejected.  Members beside those that the
\* manifest lists are not looked at, and nothing is said of them.  An export that
\* nothing disturbed gets the verdict that its report deserves, the detour over
\* package, manifest and hashes notwithstanding, and is refused only for a report
\* or a file that is not there.
ExportVerdict ==
  /\ exit_code = ExitValid /\ endpoint = "export-bundle" =>
       LET bundle == The(exported)
       IN  /\ bundle.package = BuildEvidencePackage(The(report))
           /\ bundle.manifest = BuildManifest(bundle.package, payloads)
           /\ {p.artifact_id : p \in payloads} = Linked(The(report))
           /\ \A p \in payloads :
                /\ p.artifact_id \in DOMAIN bundle.artifact_bytes
                /\ Hash(bundle.artifact_bytes[p.artifact_id]) = p.sha256_hash
  /\ exit_code # -1 /\ Undisturbed /\ ~altered => exit_code = Owed(The(report))
  /\ status = 404 /\ Undisturbed /\ endpoint = "export-bundle" =>
       report = {} \/ \E a \in Linked(The(report)) : files[a] = {}

\* A download delivers what the registry's hash is of, unless the file changed
\* after it was hashed; a file that is missing, outside the artifact root or not
\* what was registered is refused with the status that says so.
DownloadVerdict ==
  endpoint = "download" =>
    /\ status = 200 /\ "sending" \notin changed_in =>
         \E row \in RowsOf(artifact) : row.inside /\ Hash(The(download)) = row.sha256_hash
    /\ status # 0 /\ Undisturbed =>
         status = IF ~\E row \in RowsOf(artifact) : row.inside /\ files[artifact] # {} THEN 404
                  ELSE IF \E row \in RowsOf(artifact) : files[artifact] = row.sha256_hash THEN 200
                  ELSE 409
=============================================================================
