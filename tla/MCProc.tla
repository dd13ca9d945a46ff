------------------------------- MODULE MCProc -------------------------------
(* A small instance of Proc for TLC. *)
EXTENDS Proc

\* Words of program text at address 116 = offsetof(struct proc, pid) in the
\* programs of user/ (echo and cat): no pid of a small instance equals them.
TextWords == {1897, 2972}

\* kill(0) finds a free slot; the last pid belongs to nobody.
AllPids == 0..(MaxPid + 1)
NotInit == AllPids \ {1}

\* user/init.c forks and waits, and never exits.
ForkAndWait == {"fork_alloc", "wait_scan"}
=============================================================================
