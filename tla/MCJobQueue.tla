------------------------------ MODULE MCJobQueue ------------------------------
(* An instance of JobQueue: the backfill of the site may overrun; an       *)
(* account's own run ends in time; IPV runs are enqueued and, with the     *)
(* workers configured as here, taken by nobody.                            *)
EXTENDS JobQueue

TakeTwo == [w \in Workers |-> {"ccr_run", "risk_backfill"}]
=============================================================================
