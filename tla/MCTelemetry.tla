---------------------------- MODULE MCTelemetry ----------------------------
(* A small instance of Telemetry.                                          *)
EXTENDS Telemetry
=============================================================================
