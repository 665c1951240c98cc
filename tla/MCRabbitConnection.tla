------------------------- MODULE MCRabbitConnection --------------------------
(***************************************************************************)
(* One process; two queues, so that a loss can fall between two consumers.   *)
(***************************************************************************)
EXTENDS RabbitConnection

CONSTANTS q1, q2

NumberedLinks == 1..3
TwoAttempts == 1..2
=============================================================================
