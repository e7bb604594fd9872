-------------------------- MODULE MCTerminalService --------------------------
(* Small instances of TerminalService: the sets are of model values.        *)
EXTENDS TerminalService
===============================================================================
