--------------------------- MODULE MCCalendarSync ---------------------------
(***************************************************************************)
(* CalendarSync.tla for TLC: one booking, two backend processes that may   *)
(* both be at work, two attempts, two edits and one mishap                 *)
(* (CalendarSync.cfg).                                                     *)
(***************************************************************************)
EXTENDS CalendarSync
=============================================================================
