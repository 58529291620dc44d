------------------------------- MODULE MCTty -------------------------------
(* Instances of Tty for TLC.                                                *)
EXTENDS Tty

TypedKeys == {"x", "nl"}
AllKeys == {"x", "nl", "bs"}
BothModes == {"ANSI", "RAW"}
Canonical == {"ANSI"}
=============================================================================
