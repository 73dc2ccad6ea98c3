---------------------------- MODULE MediaImportMC ----------------------------
(* Imports of a folder, and single imports with the life of their recordings after them. *)
EXTENDS MediaImport

\* The life of recordings after their import is explored without folder imports, whose handlers read no
\* recording.
LibraryAtRest ==
    folder.gen > 0 => /\ outbox = {}
                      /\ \A r \in Recording : Exists(r) => ~row[r].trashed /\ row[r].source \in SourceFile

=============================================================================
