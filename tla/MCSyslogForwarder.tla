-------------------------- MODULE MCSyslogForwarder --------------------------
(* Instances of SyslogForwarder for TLC. *)
EXTENDS SyslogForwarder

CONSTANTS c1, c2 \* two connections

\* One connection can have a record on its way while it reads another.
TwoAndOne == [c \in {c1, c2} |-> IF c = c1 THEN 2 ELSE 1]
=============================================================================
