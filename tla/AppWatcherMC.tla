----------------------------- MODULE AppWatcherMC -----------------------------
(* Instances of AppWatcher for TLC. *)
EXTENDS AppWatcher

CONSTANTS pets, files

Both       == {pets, files}
StaticOnly == {files}
ApiOnly    == {pets}
NoService  == {}
Edit2      == {2}
Edit3      == {3}
NoEdit     == {}
=============================================================================
