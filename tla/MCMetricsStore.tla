---------------------------- MODULE MCMetricsStore ----------------------------
(* Model values for MetricsStore.                                          *)
EXTENDS MetricsStore, TLC

=============================================================================
