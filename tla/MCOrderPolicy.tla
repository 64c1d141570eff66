--------------------------- MODULE MCOrderPolicy ---------------------------
(* The default work of each stage (main.rs 153-160), in units of 50 us.    *)
EXTENDS OrderPolicy

DefaultWork == [validate |-> 3, enrich |-> 8, fraud_check |-> 4, fulfill |-> 6]

=============================================================================
