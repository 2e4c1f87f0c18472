--------------------------- MODULE MCFieldHistory ---------------------------
(* FieldHistory with steps that grow for a while and with equal steps.     *)
EXTENDS FieldHistory

MCEqual == [t \in StartTime .. EndTime |-> 0]

MCChanging == [t \in StartTime .. EndTime |-> IF t >= 3 THEN 2 ELSE 1]
=============================================================================
