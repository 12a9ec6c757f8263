----------------------------- MODULE MCLockCell -----------------------------
(* Instances of LockCell for TLC: which frames may arise on which core.    *)
EXTENDS LockCell

\* Core 1 takes interrupts and exceptions, core 2 runs only its thread.
IntAndExcOnOne == {<<1, "int">>, <<1, "exc">>}

\* Core 1 may lock again inside its critical section and be interrupted.
NestAndIntOnOne == {<<1, "nest">>, <<1, "int">>}

\* Threads only.
NoHandlers == {}
=============================================================================
