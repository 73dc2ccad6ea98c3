---------------------------- MODULE ModelLibraryMC ----------------------------
(* Instances of ModelLibrary for TLC. *)
EXTENDS ModelLibrary

\* The custom model and the other process are independent: they are not busy at the same time.
OneSideAtATime == \/ custom = NoCustom /\ import = "none"
                  \/ \A p \in Process \ {Gui} : op[p] = NewOp("None", "none")

=============================================================================
