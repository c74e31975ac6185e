-------------------------- MODULE MCTerminalSession --------------------------
(* Model values for TerminalSession.                                       *)
EXTENDS TerminalSession, TLC

=============================================================================
