--------------------------- MODULE MCSalesReports ---------------------------
(* TLC instances of SalesReports.                                          *)
EXTENDS SalesReports

MCSalonOf == [s \in Stylists |-> 1]
\* July to March.
MCCalendar == <<31, 31, 30, 31, 30, 31, 31, 28, 31>>
\* A sum says which sales it counts.
MCCharges == <<1, 2>>
=============================================================================
