--------------------------- MODULE MCServiceSentinel ---------------------------
(* Model values for ServiceSentinel.                                       *)
EXTENDS ServiceSentinel, TLC

=============================================================================
