------------------------------- MODULE MCSession -------------------------------
(***************************************************************************)
(* Values of Session's constants that a .cfg file cannot write.            *)
(***************************************************************************)
EXTENDS Session

\* Telemetry an application may pass in: bad, fair and good paths.
MCTelemetry == {<<200000, 0>>, <<50000, 0>>, <<0, 0>>}

NoTelemetry == {}
================================================================================
