------------------------------- MODULE ChangeLog -------------------------------
(*****************************************************************************)
(* What the rest of the system sees of the messages table: each commit       *)
(* writes one row and records it in message_changes, so that whoever knows   *)
(* how far in the log they are knows which rows they have yet to look at.    *)
(* Messages implements it; Delivery is built on it.                          *)
(*****************************************************************************)
EXTENDS Naturals, Sequences, Tables

CONSTANTS MessageIds

VARIABLES
  rows,  \* the messages that exist, by id
  log    \* the message of each change, in the order of the change ids

LogInit == rows = NoRows /\ log = << >>

\* A transaction of CreateMessage, EditMessage or RecallMessage.
Record(m, row) ==
  /\ rows' = Put(rows, m, row)
  /\ log' = Append(log, m)

LogNext == \E m \in MessageIds : m \in DOMAIN rows' /\ Record(m, rows'[m])

LogSpec == LogInit /\ [][LogNext]_<<rows, log>>
===============================================================================
