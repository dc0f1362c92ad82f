--------------------------- MODULE MCScheduleAlarm ---------------------------
\* ScheduleAlarm for TLC: two patterns that share instants, and rules that may
\* close nothing or two adjacent instants.
EXTENDS ScheduleAlarm

MCPatterns == {{2, 4, 6}, {3, 4, 6}}
MCWindows == {{}, {2, 3}}
MCSkews == {-1, 0}
=============================================================================
