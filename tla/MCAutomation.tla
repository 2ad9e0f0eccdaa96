---------------------------- MODULE MCAutomation ----------------------------
(* Small instances of Automation for TLC. *)
EXTENDS Automation

\* An appointment with an early reminder, an item for its creation and one for its
\* beginning, and a daily one with a reminder more than a day before.
Appointment == [start |-> 4, daily |-> FALSE, lead |-> 0, items |-> <<-9, 0>>]
Routine == [start |-> 2, daily |-> TRUE, lead |-> 5, items |-> <<>>]
TwoEvents == {Appointment, Routine}

\* What add-reminder makes of a reminder on some weekdays: a lead of no minutes.
OnWeekdays == {[start |-> 2, daily |-> TRUE, lead |-> 0, items |-> <<>>]}

DueEarly == [t \in Titles |-> 1]
=============================================================================
