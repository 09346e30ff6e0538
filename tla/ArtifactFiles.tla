---------------------------- MODULE ArtifactFiles ----------------------------
(***************************************************************************)
(* The directory artifact_root that the inspection camera writes to and    *)
(* the report manager reads.  An artifact is its id: each file has the     *)
(* same content, so a file written twice is the file written once.         *)
(***************************************************************************)

VARIABLE artifact_files   \* the ids of the artifacts whose files exist
=============================================================================
