----------------------------- MODULE MCConsole -----------------------------
(* An instance of Console: the line "x" "x" is the command reboot.         *)
EXTENDS Console

RebootXX == <<"x", "x">>
=============================================================================
