------------------------------ MODULE MCKernel ------------------------------
(* Instances of Kernel for TLC: who is created at boot, idle first.        *)
EXTENDS Kernel

\* idle and a task at each of two priorities
BootTwo == <<MaxPrio, 1, 0>>
\* idle, cli and net share a priority, user is below them
BootThree == <<MaxPrio, 0, 1, 0>>
\* idle shares its priority with a task, two others are above it
BootShare == <<MaxPrio, 2, 1, 0>>
=============================================================================
