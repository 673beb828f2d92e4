---------------------------- MODULE MCTipStream ----------------------------
(* Instances of TipStream, in units of half a minute: a heartbeat of one, a *)
(* cron tick every two.                                                    *)
EXTENDS TipStream
=============================================================================
