------------------------ MODULE MCOperationalTransform -----------------------
(* The kinds of operations and the timestamps TLC's instance is given.       *)
EXTENDS OperationalTransform
CONSTANTS l1, l2, null, missing

AllPairs == Kinds \X Kinds
=============================================================================
