----------------------------- MODULE HistoryLog -----------------------------
(* What the HistoryTable interface promises of a history (db/history_table *)
(* .go 15-35): a log that only grows at its head, keeps the newest `Keep'  *)
(* records, and is emptied only as a whole.  Expiry is not part of the log: *)
(* a backend filters expired records when it reads.                        *)
EXTENDS Naturals, Sequences

CONSTANTS
    Entries,    \* every record that can be written
    Keep,       \* MaxHistoryEntries
    Once        \* whether the backend never writes a record twice

VARIABLE log    \* the records kept, newest first

\* The newest records of s that the log has room for.
Newest(s) == SubSeq(s, 1, IF Len(s) <= Keep THEN Len(s) ELSE Keep)

Init == log = <<>>

\* A record is written once: it is not in the log yet.
Record(e) ==
    /\ Once => \A i \in 1..Len(log) : log[i] # e
    /\ log' = Newest(<<e>> \o log)

Empty == log' = <<>>

Next == Empty \/ \E e \in Entries : Record(e)

Spec == Init /\ [][Next]_log
=============================================================================
